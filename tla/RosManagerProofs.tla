--------------------------- MODULE RosManagerProofs ---------------------------
(***************************************************************************)
(* Proofs about the FIBs, and about the ROS handlers, their FIBs and the   *)
(* connections between the routers, for any routers, names, guids and      *)
(* channels and any bounds.  The FIBs first: their types, that a receiver  *)
(* gets a guid at most once, that a channel carries only what its owner    *)
(* registered for, and that the FIB implements the abstract multicast.     *)
(* Then the composition: its types, what the FIBs promise in it, and what  *)
(* the ROS graphs are shown.                                               *)
(***************************************************************************)
EXTENDS RosManager, SequenceTheorems, TLAPS

\* What is in the table and on its way there is what the owners registered.
Registered ==
  /\ \A r \in Routers : \A i \in 1..Len(chanQueue[r]) :
       /\ Home[chanQueue[r][i].tx] = r
       /\ sub[chanQueue[r][i].tx] = chanQueue[r][i]
  /\ \A r \in Routers, n \in Names : \A k \in table[r][n] :
       /\ Home[k.tx] = r
       /\ sub[k.tx] = [type |-> k.type, name |-> n, tx |-> k.tx]
       /\ Admitted(r, [type |-> k.type, name |-> n, tx |-> k.tx])

\* What a live channel carried, requests aside, is marked by its router.
Marked ==
  \A c \in open : \A i \in 1..Len(out[c]) :
    out[c][i].action # "Request" => out[c][i].guid \in processed[Home[c]]


-----------------------------------------------------------------------------
(* Types.                                                                  *)

\* Sending appends one packet to each open channel it is sent to, and leaves
\* every other channel alone.
LEMMA SendToEffect ==
  ASSUME out \in [Chans -> Seq(Packet)], NEW p \in Packet, NEW cs, SendTo(cs, p)
  PROVE  /\ out' \in [Chans -> Seq(Packet)]
         /\ \A c \in Chans :
              \/ out'[c] = out[c]
              \/ /\ c \in cs \cap open
                 /\ Len(out'[c]) = Len(out[c]) + 1
                 /\ out'[c][Len(out[c]) + 1] = p
                 /\ \A i \in 1..Len(out[c]) : out'[c][i] = out[c][i]
  <1>1. \A c \in Chans : Append(out[c], p) \in Seq(Packet)
    BY AppendProperties
  <1>2. out' \in [Chans -> Seq(Packet)]
    BY <1>1 DEF SendTo
  <1>3. ASSUME NEW c \in Chans, c \in cs \cap open
        PROVE  /\ Len(out'[c]) = Len(out[c]) + 1
               /\ out'[c][Len(out[c]) + 1] = p
               /\ \A i \in 1..Len(out[c]) : out'[c][i] = out[c][i]
    <2>1. out'[c] = Append(out[c], p)
      BY <1>3 DEF SendTo
    <2>2. QED
      BY <2>1, AppendProperties
  <1>4. ASSUME NEW c \in Chans, c \notin cs \cap open
        PROVE  out'[c] = out[c]
    BY <1>4 DEF SendTo
  <1>5. QED
    BY <1>2, <1>3, <1>4

\* The packet the FIB task takes is one, and what is left is a queue of them.
LEMMA TakeType ==
  ASSUME TypeOK, NEW r \in Routers, Take(r)
  PROVE  /\ pkt(r) \in Packet
         /\ fibQueue' \in [Routers -> Seq(Packet)]
  <1>1. fibQueue[r] \in Seq(Packet) /\ fibQueue[r] # <<>>
    BY DEF TypeOK, Take
  <1>2. Head(fibQueue[r]) \in Packet /\ Tail(fibQueue[r]) \in Seq(Packet)
    BY <1>1, HeadTailProperties
  <1>3. QED
    BY <1>2 DEF TypeOK, Take, pkt

\* An update of the owner of a channel, who may let go of it at once.
LEMMA AnnounceType ==
  ASSUME TypeOK, NEW u \in Offers, NEW kept, Announce(u, kept)
  PROVE  TypeOK'
  <1>1. u \in Update /\ Home[u.tx] \in Routers /\ u.tx \in Chans
    BY FibAssumption, InputAssumption DEF Update
  <1>2. Append(chanQueue[Home[u.tx]], u) \in Seq(Update)
    BY <1>1, AppendProperties DEF TypeOK
  <1>3. chanQueue' \in [Routers -> Seq(Update)]
    BY <1>2 DEF TypeOK, Announce
  <1>4. QED
    BY <1>1, <1>3 DEF TypeOK, Announce

\* A packet that is handed to a FIB.
LEMMA EnqueueType ==
  ASSUME TypeOK, NEW r \in Routers, NEW p \in Packet, Enqueue(r, p),
         arrivals' \in Nat
  PROVE  TypeOK'
  <1>1. Append(fibQueue[r], p) \in Seq(Packet)
    BY AppendProperties DEF TypeOK
  <1>2. fibQueue' \in [Routers -> Seq(Packet)]
    BY <1>1 DEF TypeOK, Enqueue
  <1>3. QED
    BY <1>2 DEF TypeOK, Enqueue

\* Every step keeps every variable within its type.
LEMMA TypeStep == TypeOK /\ [Next]_fibVars => TypeOK'
  <1> SUFFICES ASSUME TypeOK, [Next]_fibVars PROVE TypeOK'
    OBVIOUS
  <1>1. ASSUME NEW r \in Routers, DropProcessed(r) \/ DropAnswered(r) \/ HandleUnknown(r)
        PROVE  TypeOK'
    <2>1. Take(r)
      BY <1>1 DEF DropProcessed, DropAnswered, HandleUnknown
    <2>2. QED
      BY <1>1, <2>1, TakeType
      DEF TypeOK, DropProcessed, DropAnswered, HandleUnknown, HandleVars
  <1>2. ASSUME NEW r \in Routers, HandleForward(r)
        PROVE  TypeOK'
    <2>1. Take(r) /\ SendTo(Receivers(r, pkt(r).name, "RECEIVER"), pkt(r))
      BY <1>2 DEF HandleForward
    <2>2. pkt(r) \in Packet /\ fibQueue' \in [Routers -> Seq(Packet)]
      BY <2>1, TakeType
    <2>3. out' \in [Chans -> Seq(Packet)]
      BY <2>1, <2>2, SendToEffect DEF TypeOK
    <2>4. processed' \in [Routers -> SUBSET Guids]
      BY <1>2, <2>2 DEF TypeOK, HandleForward, Packet
    <2>5. QED
      BY <1>2, <2>2, <2>3, <2>4 DEF TypeOK, HandleForward, HandleVars
  <1>3. ASSUME NEW r \in Routers, HandleRequest(r)
        PROVE  TypeOK'
    <2>1. PICK d \in Defaults :
                 SendTo(RequestTargets(r, pkt(r).name, d), pkt(r))
      BY <1>3 DEF HandleRequest
    <2>2. pkt(r) \in Packet /\ fibQueue' \in [Routers -> Seq(Packet)]
      BY <1>3, TakeType DEF HandleRequest
    <2>3. out' \in [Chans -> Seq(Packet)]
      BY <2>1, <2>2, SendToEffect DEF TypeOK
    <2>4. requested' \in [Routers -> SUBSET Names]
      BY <1>3, <2>2 DEF TypeOK, HandleRequest, Packet
    <2>5. QED
      BY <1>3, <2>2, <2>3, <2>4 DEF TypeOK, HandleRequest, HandleVars
  <1>4. ASSUME NEW r \in Routers, ResponsePanics(r)
        PROVE  TypeOK'
    <2>1. fibQueue' \in [Routers -> Seq(Packet)]
      BY <1>4, TakeType DEF ResponsePanics
    <2>2. QED
      BY <1>4, <2>1 DEF TypeOK, ResponsePanics, HandleVars
  <1>5. ASSUME NEW r \in Routers, HandleResponse(r)
        PROVE  TypeOK'
    <2>1. pkt(r) \in Packet /\ fibQueue' \in [Routers -> Seq(Packet)]
      BY <1>5, TakeType DEF HandleResponse
    <2>2. out' \in [Chans -> Seq(Packet)]
      BY <1>5, <2>1, SendToEffect DEF TypeOK, HandleResponse
    <2>3. processed' \in [Routers -> SUBSET Guids]
      BY <1>5, <2>1 DEF TypeOK, HandleResponse, Packet
    <2>4. QED
      BY <1>5, <2>1, <2>2, <2>3 DEF TypeOK, HandleResponse, HandleVars
  <1>6. ASSUME NEW r \in Routers, HandleUpdate(r)
        PROVE  TypeOK'
    <2> DEFINE u == Head(chanQueue[r])
    <2>1. chanQueue[r] \in Seq(Update) /\ chanQueue[r] # <<>>
      BY <1>6 DEF TypeOK, HandleUpdate
    <2>2. u \in Update /\ Tail(chanQueue[r]) \in Seq(Update)
      BY <2>1, HeadTailProperties
    <2>3. chanQueue' \in [Routers -> Seq(Update)]
      BY <1>6, <2>2 DEF TypeOK, HandleUpdate
    <2>4. table' \in [Routers -> [Names -> SUBSET Conn]]
      <3>1. CASE Admitted(r, u)
        <4>1. [type |-> u.type, tx |-> u.tx] \in Conn /\ u.name \in Names
          BY <2>2, <3>1 DEF Update, Conn, Admitted
        <4>2. table' = [table EXCEPT ![r][u.name] =
                          @ \cup {[type |-> u.type, tx |-> u.tx]}]
          BY <1>6, <3>1 DEF HandleUpdate
        <4>3. QED
          BY <4>1, <4>2 DEF TypeOK
      <3>2. CASE ~Admitted(r, u)
        BY <1>6, <3>2 DEF TypeOK, HandleUpdate
      <3>3. QED
        BY <3>1, <3>2
    <2>5. QED
      BY <1>6, <2>3, <2>4 DEF TypeOK, HandleUpdate
  <1>7. ASSUME NEW u \in Offers, Announce(u, TRUE)
        PROVE  TypeOK'
    BY <1>7, AnnounceType
  <1>8. ASSUME NEW c \in Chans, Close(c)
        PROVE  TypeOK'
    BY <1>8 DEF TypeOK, Close
  <1>9. ASSUME NEW r \in Routers, NEW p \in Inputs, Arrive(r, p)
        PROVE  TypeOK'
    BY <1>9, EnqueueType, InputAssumption DEF Arrive, TypeOK
  <1>10. ASSUME NEW r \in Routers, Restart(r)
         PROVE  TypeOK'
    <2>1. <<>> \in Seq(Packet) /\ <<>> \in Seq(Update)
      BY EmptySeq
    <2>2. QED
      BY <1>10, <2>1 DEF TypeOK, Restart
  <1>11. CASE UNCHANGED fibVars
    BY <1>11 DEF TypeOK, fibVars
  <1>12. QED
    BY <1>1, <1>2, <1>3, <1>4, <1>5, <1>6, <1>7, <1>8, <1>9, <1>10, <1>11
    DEF Next, Step, HandlePacket

\* The FIB task and its environment keep every variable within its type: queues
\* hold packets and updates, the table holds receivers only.
THEOREM TypeCorrect == Spec => []TypeOK
  <1>1. Init => TypeOK
    <2> SUFFICES ASSUME Init PROVE TypeOK
      OBVIOUS
    <2>1. <<>> \in Seq(Packet) /\ <<>> \in Seq(Update)
      BY EmptySeq
    <2>2. QED
      BY <2>1 DEF Init, TypeOK
  <1>2. QED
    BY <1>1, TypeStep, PTL DEF Spec

-----------------------------------------------------------------------------
(* At most once, and only what was asked for.  Registered and Marked are   *)
(* what makes the two inductive.                                           *)

SafeInv == Registered /\ Marked /\ AtMostOnce /\ Isolation

\* Members of a set of sending halves are open entries of the table.
LEMMA ReceiverIsRegistered ==
  ASSUME TypeOK, Registered,
         NEW r \in Routers, NEW n \in Names, NEW t, NEW c \in Receivers(r, n, t)
  PROVE  /\ c \in Chans
         /\ Home[c] = r
         /\ sub[c] = [type |-> t, name |-> n, tx |-> c]
         /\ Admitted(r, sub[c])
  <1>1. PICK k \in table[r][n] : k.type = t /\ k.tx = c
    BY DEF Receivers
  <1>2. k \in Conn
    BY <1>1 DEF TypeOK
  <1>3. QED
    BY <1>1, <1>2 DEF Registered, Conn

\* A step that sends a packet with a fresh guid to registered channels of its
\* name and kind, and marks the guid if it is no request, keeps SafeInv.
LEMMA FreshSend ==
  ASSUME TypeOK, SafeInv,
         NEW r \in Routers, NEW p \in Packet, NEW cs, SendTo(cs, p),
         p.guid \notin processed[r],
         \A c \in cs : /\ c \in Chans
                       /\ Home[c] = r
                       /\ sub[c] = [type |-> TypeFor[p.action], name |-> p.name, tx |-> c]
                       /\ Admitted(r, sub[c]),
         \A q \in Routers : processed[q] \subseteq processed'[q],
         p.action # "Request" /\ cs # {} => p.guid \in processed'[r],
         UNCHANGED <<chanQueue, table, bindings, open, sub>>
  PROVE  SafeInv'
  <1>1. /\ out' \in [Chans -> Seq(Packet)]
        /\ \A c \in Chans :
              \/ out'[c] = out[c]
              \/ /\ c \in cs \cap open
                 /\ Len(out'[c]) = Len(out[c]) + 1
                 /\ out'[c][Len(out[c]) + 1] = p
                 /\ \A i \in 1..Len(out[c]) : out'[c][i] = out[c][i]
    BY SendToEffect DEF TypeOK
  <1>2. \A c \in Chans : Len(out[c]) \in Nat
    BY LenProperties DEF TypeOK
  <1>3. Registered'
    BY DEF SafeInv, Registered, Admitted
  <1>4. \A c \in Chans : Home[c] \in Routers
    BY FibAssumption
  <1>5. Marked'
    <2> SUFFICES ASSUME NEW c \in open, NEW i \in 1..Len(out'[c]),
                        out'[c][i].action # "Request"
                 PROVE  out'[c][i].guid \in processed'[Home[c]]
      BY DEF Marked
    <2>1. c \in Chans
      BY DEF TypeOK
    <2>2. CASE out'[c] = out[c]
      BY <1>4, <2>1, <2>2 DEF SafeInv, Marked
    <2>3. CASE out'[c] # out[c] /\ i \in 1..Len(out[c])
      <3>1. out'[c][i] = out[c][i]
        BY <1>1, <2>1, <2>3
      <3>2. QED
        BY <1>4, <2>1, <2>3, <3>1 DEF SafeInv, Marked
    <2>4. CASE out'[c] # out[c] /\ i \notin 1..Len(out[c])
      <3>1. i = Len(out[c]) + 1 /\ out'[c][i] = p /\ c \in cs
        BY <1>1, <1>2, <2>1, <2>4
      <3>2. QED
        BY <3>1
    <2>5. QED
      BY <2>2, <2>3, <2>4
  <1>6. AtMostOnce'
    <2> SUFFICES ASSUME NEW c \in Chans,
                        NEW i \in 1..Len(out'[c]), NEW j \in 1..Len(out'[c]),
                        i # j, out'[c][i].action # "Request"
                 PROVE  out'[c][i].guid # out'[c][j].guid
      BY DEF AtMostOnce
    <2>1. CASE out'[c] = out[c]
      BY <2>1 DEF SafeInv, AtMostOnce
    <2>2. CASE out'[c] # out[c]
      <3>1. /\ c \in cs \cap open
            /\ Len(out'[c]) = Len(out[c]) + 1
            /\ out'[c][Len(out[c]) + 1] = p
            /\ \A k \in 1..Len(out[c]) : out'[c][k] = out[c][k]
        BY <1>1, <2>2
      <3>2. \A k \in 1..Len(out[c]) :
              out[c][k].action # "Request" => out[c][k].guid # p.guid
        BY <3>1 DEF SafeInv, Marked
      <3>3. \A k \in 1..Len(out[c]) : out[c][k].action = "Request" => p.action = "Request"
        <4> SUFFICES ASSUME NEW k \in 1..Len(out[c]), out[c][k].action = "Request"
                     PROVE  p.action = "Request"
          OBVIOUS
        <4>1. TypeFor[out[c][k].action] = sub[c].type
          BY DEF SafeInv, Isolation
        <4>2. sub[c] = [type |-> TypeFor[p.action], name |-> p.name, tx |-> c]
          BY <3>1
        <4>3. TypeFor["Request"] = TypeFor[p.action]
          BY <4>1, <4>2
        <4>4. p.action \in Actions
          BY DEF Packet
        <4>5. QED
          BY <4>3, <4>4 DEF TypeFor, Actions
      <3>4. CASE i \in 1..Len(out[c]) /\ j \in 1..Len(out[c])
        BY SMTT(30), <3>1, <3>4 DEF SafeInv, AtMostOnce
      <3>5. CASE i \in 1..Len(out[c]) /\ j \notin 1..Len(out[c])
        BY <1>2, <3>1, <3>2, <3>5
      <3>6. CASE i \notin 1..Len(out[c]) /\ j \in 1..Len(out[c])
        BY <1>2, <3>1, <3>2, <3>3, <3>6
      <3>7. QED
        BY <1>2, <3>1, <3>4, <3>5, <3>6
    <2>3. QED
      BY <2>1, <2>2
  <1>7. Isolation'
    <2> SUFFICES ASSUME NEW c \in Chans, NEW i \in 1..Len(out'[c])
                 PROVE  /\ sub[c] # NoUpdate
                        /\ out'[c][i].name = sub[c].name
                        /\ TypeFor[out'[c][i].action] = sub[c].type
                        /\ Admitted(Home[c], sub[c])
      BY DEF Isolation, Admitted
    <2>1. CASE out'[c] = out[c] \/ i \in 1..Len(out[c])
      <3>1. i \in 1..Len(out[c]) /\ out'[c][i] = out[c][i]
        BY <1>1, <2>1
      <3>2. QED
        BY <3>1 DEF SafeInv, Isolation
    <2>2. CASE out'[c] # out[c] /\ i \notin 1..Len(out[c])
      <3>1. out'[c][i] = p /\ c \in cs
        BY <1>1, <1>2, <2>2
      <3>2. sub[c] = [type |-> TypeFor[p.action], name |-> p.name, tx |-> c]
        BY <3>1
      <3>3. sub[c] # NoUpdate
        <4>1. p.action \in Actions /\ p.name \in Names
          BY DEF Packet
        <4>2. sub[c].type \in ReceiverTypes
          BY <3>1 DEF Admitted
        <4>3. sub[c] \in Update
          BY <3>2, <4>1, <4>2 DEF Update, ConnTypes
        <4>4. QED
          BY <4>3, InputAssumption
      <3>4. QED
        BY <3>1, <3>2, <3>3
    <2>3. QED
      BY <2>1, <2>2
  <1>8. QED
    BY <1>3, <1>5, <1>6, <1>7 DEF SafeInv

\* A step that takes nothing into a channel, forgets no guid and adds nothing
\* to the table keeps SafeInv, if what it queues is registered.
LEMMA QuietStep ==
  ASSUME TypeOK, SafeInv, UNCHANGED <<out, bindings, processed>>,
         Registered', open' \subseteq open \cup {c \in Chans : out[c] = <<>>},
         \A c \in Chans : sub[c] # NoUpdate => sub'[c] = sub[c]
  PROVE  SafeInv'
  <1>1. Marked'
    <2> SUFFICES ASSUME NEW c \in open', NEW i \in 1..Len(out[c]),
                        out[c][i].action # "Request"
                 PROVE  out[c][i].guid \in processed[Home[c]]
      BY DEF Marked
    <2>1. CASE c \in open
      BY <2>1 DEF SafeInv, Marked
    <2>2. CASE c \notin open
      <3>1. Len(out[c]) = 0
        BY <2>2
      <3>2. QED
        BY <3>1
    <2>3. QED
      BY <2>1, <2>2
  <1>2. AtMostOnce'
    BY DEF SafeInv, AtMostOnce
  <1>3. Isolation'
    BY DEF SafeInv, Isolation, Admitted
  <1>4. QED
    BY <1>1, <1>2, <1>3 DEF SafeInv

\* With empty channels and tables nothing has been delivered yet.
LEMMA SafeInvInit == Init => SafeInv
  <1> SUFFICES ASSUME Init PROVE SafeInv
    OBVIOUS
  <1>1. \A c \in Chans : Len(out[c]) = 0
    BY DEF Init
  <1>2. \A r \in Routers : Len(chanQueue[r]) = 0
    BY DEF Init
  <1>3. Registered
    BY <1>2 DEF Init, Registered
  <1>4. Marked /\ AtMostOnce /\ Isolation
    BY <1>1 DEF Init, Marked, AtMostOnce, Isolation
  <1>5. QED
    BY <1>3, <1>4 DEF SafeInv

\* An update is queued for a channel that carried nothing yet.
LEMMA AnnounceSafe ==
  ASSUME TypeOK, SafeInv, NEW u \in Offers, NEW kept, Announce(u, kept)
  PROVE  SafeInv'
  <1>1. u \in Update /\ u.tx \in Chans /\ Home[u.tx] \in Routers
    BY FibAssumption, InputAssumption DEF Update
  <1>2. /\ UNCHANGED <<out, bindings, processed, table>>
        /\ sub[u.tx] = NoUpdate
        /\ sub' = [sub EXCEPT ![u.tx] = u]
        /\ open' \subseteq open \cup {u.tx}
    BY DEF Announce
  <1>3. \A c \in Chans : sub[c] # NoUpdate => sub'[c] = sub[c]
    BY <1>2 DEF TypeOK
  <1>4. Len(out[u.tx]) = 0
    <2>1. Len(out[u.tx]) \in Nat
      BY <1>1, LenProperties DEF TypeOK
    <2>2. 1 \notin 1..Len(out[u.tx])
      BY <1>1, <1>2 DEF SafeInv, Isolation
    <2>3. QED
      BY <2>1, <2>2
  <1>5. out[u.tx] = <<>>
    BY <1>1, <1>4, EmptySeq DEF TypeOK
  <1>6. ASSUME NEW q \in Routers, NEW i \in 1..Len(chanQueue'[q])
        PROVE  Home[chanQueue'[q][i].tx] = q /\ sub'[chanQueue'[q][i].tx] = chanQueue'[q][i]
    <2>1. \A j \in 1..Len(chanQueue[q]) :
            /\ chanQueue[q][j] \in Update
            /\ Home[chanQueue[q][j].tx] = q
            /\ sub[chanQueue[q][j].tx] = chanQueue[q][j]
      <3>1. chanQueue[q] \in Seq(Update)
        BY DEF TypeOK
      <3>2. \A j \in 1..Len(chanQueue[q]) : chanQueue[q][j] \in Update
        BY <3>1, ElementOfSeq
      <3>3. QED
        BY <3>2 DEF SafeInv, Registered
    <2>2. \A j \in 1..Len(chanQueue[q]) : sub'[chanQueue[q][j].tx] = chanQueue[q][j]
      BY <1>3, <2>1, InputAssumption DEF Update
    <2>3. CASE q = Home[u.tx]
      <3>1. chanQueue'[q] = Append(chanQueue[q], u)
        BY <2>3 DEF Announce, TypeOK
      <3>2. /\ Len(chanQueue'[q]) = Len(chanQueue[q]) + 1
            /\ chanQueue'[q][Len(chanQueue[q]) + 1] = u
            /\ \A j \in 1..Len(chanQueue[q]) : chanQueue'[q][j] = chanQueue[q][j]
            /\ Len(chanQueue[q]) \in Nat
        BY <1>1, <3>1, AppendProperties, LenProperties DEF TypeOK
      <3>3. CASE i = Len(chanQueue[q]) + 1
        BY <1>1, <1>2, <2>3, <3>2, <3>3 DEF TypeOK
      <3>4. CASE i \in 1..Len(chanQueue[q])
        BY <2>1, <2>2, <3>2, <3>4
      <3>5. QED
        BY <3>2, <3>3, <3>4
    <2>4. CASE q # Home[u.tx]
      <3>1. chanQueue'[q] = chanQueue[q]
        BY <2>4 DEF Announce, TypeOK
      <3>2. QED
        BY <2>1, <2>2, <3>1
    <2>5. QED
      BY <2>3, <2>4
  <1>7. ASSUME NEW q \in Routers, NEW n \in Names, NEW k \in table[q][n]
        PROVE  /\ Home[k.tx] = q
               /\ sub'[k.tx] = [type |-> k.type, name |-> n, tx |-> k.tx]
               /\ Admitted(q, [type |-> k.type, name |-> n, tx |-> k.tx])
    <2>1. /\ Home[k.tx] = q /\ Admitted(q, [type |-> k.type, name |-> n, tx |-> k.tx])
          /\ sub[k.tx] = [type |-> k.type, name |-> n, tx |-> k.tx]
      BY DEF SafeInv, Registered
    <2>2. k.tx \in Chans /\ k.type \in ConnTypes
      BY DEF TypeOK, Conn, ConnTypes
    <2>3. sub[k.tx] \in Update
      BY <2>1, <2>2 DEF Update
    <2>4. sub'[k.tx] = sub[k.tx]
      BY <1>3, <2>2, <2>3, InputAssumption
    <2>5. QED
      BY <2>1, <2>4
  <1>8. Registered'
    BY <1>2, <1>6, <1>7 DEF Registered, Admitted
  <1>9. QED
    BY <1>1, <1>2, <1>3, <1>5, <1>8, QuietStep

\* A packet in a queue is not delivered yet.
LEMMA EnqueueSafe ==
  ASSUME TypeOK, SafeInv, NEW r \in Routers, NEW p, Enqueue(r, p)
  PROVE  SafeInv'
  <1>1. UNCHANGED <<chanQueue, table, processed, bindings, out, open, sub>>
    BY DEF Enqueue
  <1>2. Registered'
    BY <1>1 DEF SafeInv, Registered, Admitted
  <1>3. QED
    BY <1>1, <1>2, QuietStep

\* Every branch of the FIB task, and every action of the connections around it,
\* keeps the strengthened invariant.
LEMMA SafeInvStep == TypeOK /\ TypeOK' /\ SafeInv /\ [Next]_fibVars => SafeInv'
  <1> SUFFICES ASSUME TypeOK, TypeOK', SafeInv, [Next]_fibVars PROVE SafeInv'
    OBVIOUS
  <1>1. ASSUME NEW r \in Routers,
               DropProcessed(r) \/ DropAnswered(r) \/ HandleUnknown(r) \/ ResponsePanics(r)
        PROVE  SafeInv'
    <2>1. UNCHANGED <<processed, out, HandleVars>>
      BY <1>1 DEF DropProcessed, DropAnswered, HandleUnknown, ResponsePanics
    <2>2. Registered'
      BY <2>1 DEF HandleVars, SafeInv, Registered, Admitted
    <2>3. QED
      BY <2>1, <2>2, QuietStep DEF HandleVars
  <1>2. ASSUME NEW r \in Routers, HandleForward(r)
        PROVE  SafeInv'
    <2> DEFINE p == pkt(r)
               cs == Receivers(r, p.name, "RECEIVER")
    <2>1. p \in Packet /\ p.name \in Names /\ p.action = "Forward"
      BY <1>2, TakeType DEF HandleForward, Packet
    <2>2. SendTo(cs, p) /\ p.guid \notin processed[r]
      BY <1>2 DEF HandleForward
    <2>3. UNCHANGED <<chanQueue, table, bindings, open, sub>>
      BY <1>2 DEF HandleForward, HandleVars
    <2>4. TypeFor[p.action] = "RECEIVER"
      BY <2>1 DEF TypeFor, Actions
    <2>5. \A c \in cs : /\ c \in Chans
                         /\ Home[c] = r
                         /\ sub[c] = [type |-> TypeFor[p.action], name |-> p.name, tx |-> c]
                         /\ Admitted(r, sub[c])
      BY <2>1, <2>4, ReceiverIsRegistered DEF SafeInv
    <2>6. /\ \A q \in Routers : processed[q] \subseteq processed'[q]
          /\ cs # {} => p.guid \in processed'[r]
      BY <1>2 DEF HandleForward, TypeOK
    <2> HIDE DEF p, cs
    <2>7. QED
      BY <2>1, <2>2, <2>3, <2>5, <2>6, FreshSend
  <1>3. ASSUME NEW r \in Routers, HandleRequest(r)
        PROVE  SafeInv'
    <2> DEFINE p == pkt(r)
    <2>1. p \in Packet /\ p.name \in Names /\ p.action = "Request"
      BY <1>3, TakeType DEF HandleRequest, Packet
    <2>2. PICK d \in Defaults : SendTo(RequestTargets(r, p.name, d), p)
      BY <1>3 DEF HandleRequest
    <2> DEFINE cs == RequestTargets(r, p.name, d)
    <2>3. p.guid \notin processed[r] /\ UNCHANGED processed
      BY <1>3 DEF HandleRequest
    <2>4. UNCHANGED <<chanQueue, table, bindings, open, sub>>
      BY <1>3 DEF HandleRequest, HandleVars
    <2>5. TypeFor[p.action] = "REQUESTRECEIVER"
      BY <2>1 DEF TypeFor, Actions
    <2>6. \A c \in cs : c \in Receivers(r, p.name, "REQUESTRECEIVER")
      BY DEF RequestTargets
    <2>7. \A c \in cs : /\ c \in Chans
                         /\ Home[c] = r
                         /\ sub[c] = [type |-> TypeFor[p.action], name |-> p.name, tx |-> c]
                         /\ Admitted(r, sub[c])
      BY <2>1, <2>5, <2>6, ReceiverIsRegistered DEF SafeInv
    <2>8. SendTo(cs, p)
      BY <2>2
    <2> HIDE DEF p, cs
    <2>9. QED
      BY <2>1, <2>3, <2>4, <2>7, <2>8, FreshSend
  <1>4. ASSUME NEW r \in Routers, HandleResponse(r)
        PROVE  SafeInv'
    <2> DEFINE p == pkt(r)
               cs == Receivers(r, p.name, "RESPONSERECEIVER")
    <2>1. p \in Packet /\ p.name \in Names /\ p.action = "Response"
      BY <1>4, TakeType DEF HandleResponse, Packet
    <2>2. SendTo(cs, p) /\ p.guid \notin processed[r]
      BY <1>4 DEF HandleResponse
    <2>3. UNCHANGED <<chanQueue, table, bindings, open, sub>>
      BY <1>4 DEF HandleResponse, HandleVars
    <2>4. TypeFor[p.action] = "RESPONSERECEIVER"
      BY <2>1 DEF TypeFor, Actions
    <2>5. \A c \in cs : /\ c \in Chans
                         /\ Home[c] = r
                         /\ sub[c] = [type |-> TypeFor[p.action], name |-> p.name, tx |-> c]
                         /\ Admitted(r, sub[c])
      BY <2>1, <2>4, ReceiverIsRegistered DEF SafeInv
    <2>6. /\ \A q \in Routers : processed[q] \subseteq processed'[q]
          /\ p.guid \in processed'[r]
      BY <1>4 DEF HandleResponse, TypeOK
    <2> HIDE DEF p, cs
    <2>7. QED
      BY <2>1, <2>2, <2>3, <2>5, <2>6, FreshSend
  <1>5. ASSUME NEW r \in Routers, HandleUpdate(r)
        PROVE  SafeInv'
    <2> DEFINE u == Head(chanQueue[r])
    <2>1. chanQueue[r] \in Seq(Update) /\ chanQueue[r] # <<>>
      BY <1>5 DEF TypeOK, HandleUpdate
    <2>2. /\ u = chanQueue[r][1] /\ u \in Update
          /\ 1 \in 1..Len(chanQueue[r])
          /\ Len(Tail(chanQueue[r])) = Len(chanQueue[r]) - 1
          /\ \A i \in 1..Len(Tail(chanQueue[r])) :
                Tail(chanQueue[r])[i] = chanQueue[r][i + 1] /\ i + 1 \in 1..Len(chanQueue[r])
      BY <2>1, HeadTailProperties, LenProperties
    <2>3. Home[u.tx] = r /\ sub[u.tx] = u
      BY <2>2 DEF SafeInv, Registered
    <2>4. UNCHANGED <<out, bindings, processed, open, sub>>
      BY <1>5 DEF HandleUpdate
    <2>5. ASSUME NEW q \in Routers, NEW i \in 1..Len(chanQueue'[q])
          PROVE  Home[chanQueue'[q][i].tx] = q /\ sub[chanQueue'[q][i].tx] = chanQueue'[q][i]
      <3>1. CASE q = r
        <4>1. chanQueue'[q] = Tail(chanQueue[r])
          BY <1>5, <3>1 DEF HandleUpdate, TypeOK
        <4>2. QED
          BY <2>2, <3>1, <4>1 DEF SafeInv, Registered
      <3>2. CASE q # r
        <4>1. chanQueue'[q] = chanQueue[q]
          BY <1>5, <3>2 DEF HandleUpdate, TypeOK
        <4>2. QED
          BY <4>1 DEF SafeInv, Registered
      <3>3. QED
        BY <3>1, <3>2
    <2>6. ASSUME NEW q \in Routers, NEW n \in Names, NEW k \in table'[q][n]
          PROVE  /\ Home[k.tx] = q
                 /\ sub[k.tx] = [type |-> k.type, name |-> n, tx |-> k.tx]
                 /\ Admitted(q, [type |-> k.type, name |-> n, tx |-> k.tx])
      <3>1. CASE k \in table[q][n]
        BY <3>1 DEF SafeInv, Registered
      <3>2. CASE k \notin table[q][n]
        <4>1. /\ q = r /\ n = u.name /\ Admitted(r, u)
              /\ k = [type |-> u.type, tx |-> u.tx]
          BY <1>5, <3>2 DEF HandleUpdate, TypeOK
        <4>2. u = [type |-> u.type, name |-> u.name, tx |-> u.tx]
          BY <2>2 DEF Update
        <4>3. QED
          BY <2>3, <4>1, <4>2
      <3>3. QED
        BY <3>1, <3>2
    <2>7. Registered'
      BY <2>4, <2>5, <2>6 DEF Registered, Admitted
    <2>8. QED
      BY <2>4, <2>7, QuietStep
  <1>6. ASSUME NEW u \in Offers, Announce(u, TRUE)
        PROVE  SafeInv'
    BY <1>6, AnnounceSafe
  <1>7. ASSUME NEW c \in Chans, Close(c)
        PROVE  SafeInv'
    <2>1. Registered'
      BY <1>7 DEF Close, SafeInv, Registered, Admitted
    <2>2. QED
      BY <1>7, <2>1, QuietStep DEF Close
  <1>8. ASSUME NEW r \in Routers, NEW p \in Inputs, Arrive(r, p)
        PROVE  SafeInv'
    BY <1>8, EnqueueSafe DEF Arrive
  <1>9. ASSUME NEW r \in Routers, Restart(r)
        PROVE  SafeInv'
    <2>1. /\ UNCHANGED <<bindings, out, sub>>
          /\ open' = {c \in open : Home[c] # r}
      BY <1>9 DEF Restart
    <2>2. Registered'
      <3>1. \A q \in Routers : \A i \in 1..Len(chanQueue'[q]) :
              q # r /\ chanQueue'[q] = chanQueue[q]
        BY <1>9 DEF Restart, TypeOK
      <3>2. \A q \in Routers, n \in Names : \A k \in table'[q][n] :
              q # r /\ table'[q] = table[q]
        BY <1>9 DEF Restart, TypeOK
      <3>3. QED
        BY <2>1, <3>1, <3>2 DEF SafeInv, Registered, Admitted
    <2>3. Marked'
      <3>1. \A c \in open' : processed'[Home[c]] = processed[Home[c]]
        BY <1>9, <2>1, FibAssumption DEF Restart, TypeOK
      <3>2. QED
        BY <2>1, <3>1 DEF SafeInv, Marked
    <2>4. AtMostOnce' /\ Isolation'
      BY <2>1 DEF SafeInv, AtMostOnce, Isolation, Admitted
    <2>5. QED
      BY <2>2, <2>3, <2>4 DEF SafeInv
  <1>10. CASE UNCHANGED fibVars
    BY <1>10 DEF fibVars, SafeInv, Registered, Marked, AtMostOnce, Isolation, Admitted
  <1>11. QED
    BY <1>1, <1>2, <1>3, <1>4, <1>5, <1>6, <1>7, <1>8, <1>9, <1>10
    DEF Next, Step, HandlePacket

\* So the strengthened invariant holds in every reachable state.
LEMMA SafeInvCorrect == Spec => []SafeInv
  <1>1. QED
    BY SafeInvInit, SafeInvStep, TypeCorrect, PTL DEF Spec

\* However often a message is repeated on the way to a router, each receiver of
\* topic messages or responses is handed its guid once.
THEOREM DeliveredAtMostOnce == Spec => []AtMostOnce
  <1>1. SafeInv => AtMostOnce
    BY DEF SafeInv
  <1>2. QED
    BY <1>1, SafeInvCorrect, PTL

\* A channel carries only packets of the name and kind its owner registered
\* for, and none if the binding table leaves it out.
THEOREM ChannelsIsolated == Spec => []Isolation
  <1>1. SafeInv => Isolation
    BY DEF SafeInv
  <1>2. QED
    BY <1>1, SafeInvCorrect, PTL

-----------------------------------------------------------------------------
(* The FIB implements the abstract multicast: nearly every step of it      *)
(* changes nothing of the multicast; the others are its steps, one for     *)
(* one.  From the same invariant follows that the live subscribers of a    *)
(* topic agree.                                                            *)

\* An open channel that carried something is in the table: a channel joins its
\* group before it gets anything, and only once.
Entry(c) == [type |-> sub[c].type, tx |-> c]

Carried ==
  \A c \in open :
    out[c] # <<>> => sub[c] # NoUpdate /\ Entry(c) \in table[Home[c]][sub[c].name]

RInv == TypeOK /\ SafeInv /\ Carried

-----------------------------------------------------------------------------
(* The invariant.                                                          *)

\* Sending to receivers of one name only fills channels that are in the table.
LEMMA SendCarried ==
  ASSUME RInv, NEW r \in Routers, NEW n \in Names, NEW t, NEW p \in Packet,
         NEW cs, cs \subseteq Receivers(r, n, t), SendTo(cs, p),
         UNCHANGED <<open, sub, table>>
  PROVE  Carried'
  <1> SUFFICES ASSUME NEW c \in open, out'[c] # <<>>
               PROVE  sub[c] # NoUpdate /\ Entry(c) \in table[Home[c]][sub[c].name]
    BY DEF Carried, Entry
  <1>1. c \in Chans
    BY DEF RInv, TypeOK
  <1>2. CASE c \in cs
    <2>1. c \in Receivers(r, n, t)
      BY <1>2
    <2>2. Home[c] = r /\ sub[c] = [type |-> t, name |-> n, tx |-> c]
      BY <2>1, ReceiverIsRegistered DEF RInv, SafeInv
    <2>3. PICK k \in table[r][n] : k.type = t /\ k.tx = c
      BY <2>1 DEF Receivers
    <2>4. k \in Conn
      BY DEF RInv, TypeOK
    <2>5. k = [type |-> t, tx |-> c] /\ t \in ReceiverTypes
      BY <2>3, <2>4 DEF Conn
    <2>6. [type |-> t, name |-> n, tx |-> c] \in Update
      BY <1>1, <2>5 DEF Update, ConnTypes
    <2>7. sub[c] # NoUpdate
      BY <2>2, <2>6, InputAssumption
    <2>8. QED
      BY <2>2, <2>3, <2>5, <2>7 DEF Entry
  <1>3. CASE c \notin cs
    BY <1>1, <1>3 DEF SendTo, RInv, Carried
  <1>4. QED
    BY <1>2, <1>3

LEMMA InitRInv == Init => Carried
  BY DEF Init, Carried

LEMMA StepCarried == RInv /\ TypeOK' /\ [Next]_fibVars => Carried'
  <1> SUFFICES ASSUME RInv, [Next]_fibVars PROVE Carried'
    OBVIOUS
  <1>1. ASSUME NEW r \in Routers,
               \/ DropProcessed(r) \/ DropAnswered(r) \/ HandleUnknown(r)
               \/ ResponsePanics(r)
        PROVE  Carried'
    BY <1>1 DEF DropProcessed, DropAnswered, HandleUnknown, ResponsePanics,
       HandleVars, RInv, Carried, Entry
  <1>2. ASSUME NEW r \in Routers, HandleForward(r) PROVE Carried'
    <2>1. pkt(r) \in Packet
      BY <1>2, TakeType DEF HandleForward, RInv
    <2>2. pkt(r).name \in Names
      BY <2>1 DEF Packet
    <2>3. SendTo(Receivers(r, pkt(r).name, "RECEIVER"), pkt(r))
          /\ UNCHANGED <<open, sub, table>>
      BY <1>2 DEF HandleForward, HandleVars
    <2>4. QED
      BY <2>1, <2>2, <2>3, SendCarried
  <1>3. ASSUME NEW r \in Routers, HandleRequest(r) PROVE Carried'
    <2>1. pkt(r) \in Packet
      BY <1>3, TakeType DEF HandleRequest, RInv
    <2>2. pkt(r).name \in Names
      BY <2>1 DEF Packet
    <2>3. PICK d \in Defaults : SendTo(RequestTargets(r, pkt(r).name, d), pkt(r))
      BY <1>3 DEF HandleRequest
    <2>4. RequestTargets(r, pkt(r).name, d)
            \subseteq Receivers(r, pkt(r).name, "REQUESTRECEIVER")
      BY DEF RequestTargets
    <2>5. UNCHANGED <<open, sub, table>>
      BY <1>3 DEF HandleRequest, HandleVars
    <2>6. QED
      BY <2>1, <2>2, <2>3, <2>4, <2>5, SendCarried
  <1>4. ASSUME NEW r \in Routers, HandleResponse(r) PROVE Carried'
    <2>1. pkt(r) \in Packet
      BY <1>4, TakeType DEF HandleResponse, RInv
    <2>2. pkt(r).name \in Names
      BY <2>1 DEF Packet
    <2>3. SendTo(Receivers(r, pkt(r).name, "RESPONSERECEIVER"), pkt(r))
          /\ UNCHANGED <<open, sub, table>>
      BY <1>4 DEF HandleResponse, HandleVars
    <2>4. QED
      BY <2>1, <2>2, <2>3, SendCarried
  <1>5. ASSUME NEW r \in Routers, HandleUpdate(r) PROVE Carried'
    <2>1. \A q \in Routers, n \in Names : table[q][n] \subseteq table'[q][n]
      <3>1. table \in [Routers -> [Names -> SUBSET Conn]]
        BY DEF RInv, TypeOK
      <3> DEFINE u == Head(chanQueue[r])
                 e == [type |-> u.type, tx |-> u.tx]
      <3>2. \/ table' = table
            \/ table' = [table EXCEPT ![r][u.name] = @ \cup {e}]
        BY <1>5 DEF HandleUpdate
      <3> HIDE DEF u, e
      <3>3. CASE table' = [table EXCEPT ![r][u.name] = @ \cup {e}]
        <4>1. table'[r] = [table[r] EXCEPT ![u.name] = @ \cup {e}]
          BY <3>1, <3>3
        <4>2. \A n \in Names : table[r][n] \subseteq table'[r][n]
          BY <3>1, <4>1
        <4>3. \A q \in Routers : q # r => table'[q] = table[q]
          BY <3>1, <3>3
        <4>4. QED
          BY <4>2, <4>3
      <3>4. QED
        BY <3>2, <3>3
    <2> SUFFICES ASSUME NEW c \in open, out[c] # <<>>
                 PROVE  sub[c] # NoUpdate /\ Entry(c) \in table'[Home[c]][sub[c].name]
      BY <1>5 DEF HandleUpdate, Carried, Entry
    <2>2. sub[c] # NoUpdate /\ Entry(c) \in table[Home[c]][sub[c].name]
      BY DEF RInv, Carried
    <2>3. c \in Chans /\ Home[c] \in Routers /\ sub[c] \in Update
      BY <2>2, FibAssumption DEF RInv, TypeOK
    <2>4. sub[c].name \in Names
      BY <2>3 DEF Update
    <2>5. QED
      BY <2>1, <2>2, <2>3, <2>4
  <1>6. ASSUME NEW u \in Offers, Announce(u, TRUE) PROVE Carried'
    <2>1. u \in Update /\ u.tx \in Chans
      BY InputAssumption DEF Update
    <2>2. out[u.tx] = <<>>
      <3>1. \A i \in 1..Len(out[u.tx]) : FALSE
        BY <1>6, <2>1 DEF Announce, RInv, SafeInv, Isolation
      <3>2. out[u.tx] \in Seq(Packet)
        BY <2>1 DEF RInv, TypeOK
      <3>3. Len(out[u.tx]) = 0
        BY <3>1, <3>2, LenProperties
      <3>4. QED
        BY <3>2, <3>3, EmptySeq
    <2>3. QED
      BY <1>6, <2>1, <2>2 DEF Announce, RInv, TypeOK, Carried, Entry
  <1>7. ASSUME NEW c \in Chans, Close(c) PROVE Carried'
    BY <1>7 DEF Close, RInv, Carried, Entry
  <1>8. ASSUME NEW r \in Routers, NEW p \in Inputs, Arrive(r, p) PROVE Carried'
    BY <1>8 DEF Arrive, Enqueue, RInv, Carried, Entry
  <1>9. ASSUME NEW r \in Routers, Restart(r) PROVE Carried'
    <2> SUFFICES ASSUME NEW c \in open, Home[c] # r, out[c] # <<>>
                 PROVE  sub[c] # NoUpdate /\ Entry(c) \in table'[Home[c]][sub[c].name]
      BY <1>9 DEF Restart, Carried, Entry
    <2>1. table'[Home[c]] = table[Home[c]]
      BY <1>9, FibAssumption DEF Restart, RInv, TypeOK
    <2>2. QED
      BY <2>1 DEF RInv, Carried
  <1>10. CASE UNCHANGED fibVars
    BY <1>10 DEF fibVars, RInv, Carried, Entry
  <1>11. QED
    BY <1>1, <1>2, <1>3, <1>4, <1>5, <1>6, <1>7, <1>8, <1>9, <1>10
    DEF Next, Step, HandlePacket

LEMMA RInvCorrect == Spec => []RInv
  <1>1. Init => Carried
    BY InitRInv
  <1>2. TypeOK /\ SafeInv /\ Carried /\ TypeOK' /\ [Next]_fibVars => Carried'
    BY StepCarried DEF RInv
  <1>3. Spec => []TypeOK /\ []SafeInv
    BY TypeCorrect, SafeInvCorrect, PTL
  <1>4. Spec => []Carried
    BY <1>1, <1>2, <1>3, PTL DEF Spec
  <1>5. TypeOK /\ SafeInv /\ Carried <=> RInv
    BY DEF RInv
  <1>6. QED
    BY <1>3, <1>4, <1>5, PTL

-----------------------------------------------------------------------------
(* Steps.                                                                  *)

\* The channels a packet of one name and kind reaches are the members of that
\* group.
LEMMA GroupMembers ==
  ASSUME RInv, NEW r \in Routers, NEW n \in Names, NEW t \in ReceiverTypes
  PROVE  Abstract!In(<<r, n, t>>) = Receivers(r, n, t) \cap open
  <1>1. ASSUME NEW c \in Chans, GroupOf(c) = <<r, n, t>>
        PROVE  c \in Receivers(r, n, t) \cap open
    <2>1. Joined(c) /\ Home[c] = r /\ sub[c].name = n /\ sub[c].type = t
      BY <1>1 DEF GroupOf
    <2>2. QED
      BY <2>1 DEF Joined, Receivers
  <1>2. ASSUME NEW c \in Receivers(r, n, t) \cap open
        PROVE  c \in Chans /\ GroupOf(c) = <<r, n, t>>
    <2>1. c \in Chans /\ Home[c] = r /\ sub[c] = [type |-> t, name |-> n, tx |-> c]
      BY ReceiverIsRegistered DEF RInv, SafeInv
    <2>2. PICK k \in table[r][n] : k.type = t /\ k.tx = c
      BY DEF Receivers
    <2>3. k = [type |-> t, tx |-> c]
      BY <2>2 DEF RInv, TypeOK, Conn
    <2>4. [type |-> t, name |-> n, tx |-> c] \in Update
      BY <2>1 DEF Update, ConnTypes
    <2>5. Joined(c)
      BY <2>1, <2>2, <2>3, <2>4, InputAssumption DEF Joined
    <2>6. QED
      BY <2>1, <2>5 DEF GroupOf
  <1>3. QED
    BY <1>1, <1>2 DEF Abstract!In

\* A step that leaves table, open and sub alone leaves the groups alone.
LEMMA SameGroups ==
  ASSUME UNCHANGED <<table, open, sub>>
  PROVE  UNCHANGED [c \in Chans |-> GroupOf(c)]
  BY DEF GroupOf, Joined

\* A packet is the message of its action, name and guid.
LEMMA PacketIsMessage ==
  ASSUME NEW p \in Packet
  PROVE  p = Abstract!Message(p.action, p.name, p.guid)
  BY DEF Packet, Abstract!Message

LEMMA PublishStep ==
  ASSUME RInv, NEW r \in Routers, NEW p \in Packet,
         TypeFor[p.action] \in {"RECEIVER", "RESPONSERECEIVER"},
         p.guid \notin processed[r],
         SendTo(Receivers(r, p.name, TypeFor[p.action]), p),
         processed' = [processed EXCEPT ![r] = @ \cup {p.guid}],
         UNCHANGED <<table, open, sub>>
  PROVE  Abstract!MNext
  <1>1. p.action \in Actions /\ p.name \in Names /\ p.guid \in Guids
    BY DEF Packet
  <1>2. Abstract!In(<<r, p.name, TypeFor[p.action]>>)
          = Receivers(r, p.name, TypeFor[p.action]) \cap open
    BY <1>1, GroupMembers DEF ReceiverTypes
  <1>3. Abstract!Deliver(Abstract!Message(p.action, p.name, p.guid),
                         Abstract!In(<<r, p.name, TypeFor[p.action]>>))
    BY <1>2, PacketIsMessage DEF SendTo, Abstract!Deliver
  <1>4. Abstract!Publish(r, p.action, p.name, p.guid)
    BY <1>3, SameGroups DEF Abstract!Publish
  <1>5. QED
    BY <1>1, <1>4 DEF Abstract!MNext

LEMMA AskStep ==
  ASSUME RInv, NEW r \in Routers, HandleRequest(r)
  PROVE  Abstract!MNext
  <1> DEFINE p == pkt(r)
  <1>1. p \in Packet /\ p.action = "Request" /\ p.guid \notin processed[r]
    BY TakeType DEF HandleRequest, RInv
  <1>2. PICK d \in Defaults : SendTo(RequestTargets(r, p.name, d), p)
    BY DEF HandleRequest
  <1>3. UNCHANGED <<table, open, sub, processed>>
    BY DEF HandleRequest, HandleVars
  <1> HIDE DEF p
  <1>4. p.action \in Actions /\ p.name \in Names /\ p.guid \in Guids
    BY <1>1 DEF Packet
  <1>5. TypeFor[p.action] = "REQUESTRECEIVER"
    BY <1>1, <1>4 DEF TypeFor
  <1>6. RequestTargets(r, p.name, d) \cap open
          \in SUBSET Abstract!In(<<r, p.name, "REQUESTRECEIVER">>)
    BY <1>4, GroupMembers DEF ReceiverTypes, RequestTargets
  <1>7. Abstract!Deliver(Abstract!Message(p.action, p.name, p.guid),
                         RequestTargets(r, p.name, d) \cap open)
    BY <1>1, <1>2, PacketIsMessage DEF SendTo, Abstract!Deliver
  <1>8. Abstract!Ask(r, p.action, p.name, p.guid)
    BY <1>1, <1>3, <1>5, <1>6, <1>7, SameGroups DEF Abstract!Ask
  <1>9. QED
    BY <1>4, <1>8 DEF Abstract!MNext

\* An admitted update makes its channel a member, if it is open; no other
\* channel is touched.
LEMMA JoinStep ==
  ASSUME RInv, NEW r \in Routers, HandleUpdate(r)
  PROVE  Abstract!MNext \/ UNCHANGED Abstract!mvars
  <1> SUFFICES ASSUME NEW u, u = Head(chanQueue[r])
               PROVE  Abstract!MNext \/ UNCHANGED Abstract!mvars
    OBVIOUS
  <1> DEFINE e == [type |-> u.type, tx |-> u.tx]
             c == u.tx
  <1>1. UNCHANGED <<open, sub, out, processed>>
    BY DEF HandleUpdate
  <1>2. chanQueue[r] \in Seq(Update) /\ chanQueue[r] # <<>>
    BY DEF HandleUpdate, RInv, TypeOK
  <1>3. u \in Update /\ u = chanQueue[r][1] /\ 1 \in 1..Len(chanQueue[r])
    BY <1>2, HeadTailProperties
  <1>4. Home[c] = r /\ sub[c] = u
    BY <1>3 DEF RInv, SafeInv, Registered
  <1>5. IF Admitted(r, u) THEN table' = [table EXCEPT ![r][u.name] = @ \cup {e}]
        ELSE table' = table
    BY DEF HandleUpdate
  <1>6. table \in [Routers -> [Names -> SUBSET Conn]]
    BY DEF RInv, TypeOK
  <1>7. u.name \in Names /\ c \in Chans /\ u # NoUpdate
    BY <1>3, InputAssumption DEF Update
  <1>8. CASE ~Admitted(r, u)
    <2>1. UNCHANGED [x \in Chans |-> GroupOf(x)]
      BY <1>1, <1>5, <1>8, SameGroups
    <2>2. QED
      BY <1>1, <2>1 DEF Abstract!mvars
  <1>9. CASE Admitted(r, u)
    <2>1. table'[r][u.name] = table[r][u.name] \cup {e}
          /\ \A q \in Routers, n \in Names :
               q # r \/ n # u.name => table'[q][n] = table[q][n]
      <3>1. table'[r] = [table[r] EXCEPT ![u.name] = @ \cup {e}]
        BY <1>5, <1>6, <1>9
      <3>2. \A q \in Routers : q # r => table'[q] = table[q]
        BY <1>5, <1>6, <1>9
      <3>3. QED
        BY <1>6, <1>7, <3>1, <3>2
    <2>2. ASSUME NEW x \in Chans, x # c PROVE GroupOf(x)' = GroupOf(x)
      <3>1. sub[x] # NoUpdate => sub[x].name \in Names /\ Home[x] \in Routers
        BY FibAssumption DEF RInv, TypeOK, Update
      <3>2. [type |-> sub[x].type, tx |-> x] # e
        BY <2>2
      <3>3. sub[x] # NoUpdate =>
              ([type |-> sub[x].type, tx |-> x] \in table'[Home[x]][sub[x].name]
                <=> [type |-> sub[x].type, tx |-> x] \in table[Home[x]][sub[x].name])
        BY <2>1, <3>1, <3>2
      <3>4. Joined(x)' = Joined(x)
        BY <1>1, <3>3 DEF Joined
      <3>5. QED
        BY <1>1, <3>4 DEF GroupOf
    <2>3. Joined(c)' <=> c \in open
      BY <1>1, <1>4, <1>7, <2>1 DEF Joined
    <2>4. CASE c \in open /\ ~Joined(c)
      <3>1. e \notin table[Home[c]][sub[c].name]
        BY <1>4, <1>7, <2>4 DEF Joined
      <3>2. out[c] = <<>>
        BY <1>4, <2>4, <3>1 DEF RInv, Carried, Entry
      <3>3. GroupOf(c) = <<>> /\ GroupOf(c)' = <<r, u.name, u.type>>
        BY <1>1, <1>4, <2>3, <2>4 DEF GroupOf
      <3>4. <<r, u.name, u.type>> \in Abstract!Groups
        BY <1>7, <1>9 DEF Admitted, ReceiverTypes, Abstract!Groups
      <3>5. [x \in Chans |-> GroupOf(x)]'
              = [[x \in Chans |-> GroupOf(x)] EXCEPT ![c] = <<r, u.name, u.type>>]
        BY <1>7, <2>2, <3>3
      <3>6. Abstract!Join(c)
        BY <1>1, <1>7, <3>2, <3>3, <3>4, <3>5 DEF Abstract!Join
      <3>7. QED
        BY <1>7, <3>6 DEF Abstract!MNext
    <2>5. CASE c \notin open \/ Joined(c)
      <3>1. Joined(c)' = Joined(c)
        BY <2>3, <2>5 DEF Joined
      <3>2. GroupOf(c)' = GroupOf(c)
        BY <1>1, <3>1 DEF GroupOf
      <3>3. UNCHANGED [x \in Chans |-> GroupOf(x)]
        BY <2>2, <3>2
      <3>4. QED
        BY <1>1, <3>3 DEF Abstract!mvars
    <2>6. QED
      BY <2>4, <2>5
  <1>10. QED
    BY <1>8, <1>9

\* A channel that is only announced is a member of nothing.
LEMMA AnnounceStutters ==
  ASSUME RInv, NEW u \in Offers, Announce(u, TRUE)
  PROVE  UNCHANGED Abstract!mvars
  <1> DEFINE c == u.tx
  <1>1. u \in Update /\ c \in Chans
    BY InputAssumption DEF Update
  <1>2. /\ UNCHANGED <<out, processed, table>>
        /\ sub[c] = NoUpdate /\ sub' = [sub EXCEPT ![c] = u]
        /\ open' = open \cup {c}
    BY DEF Announce
  <1>3. ASSUME NEW x \in Chans, x # c PROVE GroupOf(x)' = GroupOf(x)
    <2>1. sub'[x] = sub[x] /\ (x \in open' <=> x \in open)
      BY <1>2, <1>3 DEF RInv, TypeOK
    <2>2. Joined(x)' = Joined(x)
      BY <1>2, <2>1 DEF Joined
    <2>3. QED
      BY <2>1, <2>2 DEF GroupOf
  <1>4. GroupOf(c) = <<>>
    BY <1>2 DEF GroupOf, Joined
  <1>5. ~Joined(c)'
    <2> SUFFICES ASSUME Joined(c)' PROVE FALSE
      OBVIOUS
    <2>1. sub'[c] = u
      BY <1>1, <1>2 DEF RInv, TypeOK
    <2>2. Home[c] \in Routers /\ u.name \in Names
      BY <1>1, FibAssumption DEF Update
    <2>3. [type |-> u.type, tx |-> c] \in table[Home[c]][u.name]
      BY <1>2, <2>1 DEF Joined
    <2>4. [type |-> u.type, tx |-> c] \in Conn
      BY <2>2, <2>3 DEF RInv, TypeOK
    <2>5. sub[c] = [type |-> u.type, name |-> u.name, tx |-> c]
      BY <2>2, <2>3 DEF RInv, SafeInv, Registered
    <2>6. sub[c] \in Update
      BY <1>1, <2>2, <2>5 DEF Update
    <2>7. QED
      BY <1>2, <2>6, InputAssumption
  <1>6. GroupOf(c)' = <<>>
    BY <1>5 DEF GroupOf
  <1>7. UNCHANGED [x \in Chans |-> GroupOf(x)]
    BY <1>3, <1>4, <1>6
  <1>8. QED
    BY <1>2, <1>7 DEF Abstract!mvars

LEMMA LeaveStep ==
  ASSUME RInv, NEW c \in Chans, Close(c)
  PROVE  Abstract!MNext \/ UNCHANGED Abstract!mvars
  <1>1. /\ UNCHANGED <<out, processed, table, sub>>
        /\ open' = open \ {c}
    BY DEF Close
  <1>2. ASSUME NEW x \in Chans, x # c PROVE GroupOf(x)' = GroupOf(x)
    <2>1. Joined(x)' = Joined(x)
      BY <1>1, <1>2 DEF Joined
    <2>2. QED
      BY <1>1, <2>1 DEF GroupOf
  <1>3. GroupOf(c)' = <<>>
    BY <1>1 DEF GroupOf, Joined
  <1>4. CASE GroupOf(c) = <<>>
    <2>1. UNCHANGED [x \in Chans |-> GroupOf(x)]
      BY <1>2, <1>3, <1>4
    <2>2. QED
      BY <1>1, <2>1 DEF Abstract!mvars
  <1>5. CASE GroupOf(c) # <<>>
    <2>1. [x \in Chans |-> GroupOf(x)]'
            = [[x \in Chans |-> GroupOf(x)] EXCEPT ![c] = <<>>]
      BY <1>2, <1>3
    <2>2. Abstract!Leave(c)
      BY <1>1, <1>5, <2>1 DEF Abstract!Leave
    <2>3. QED
      BY <2>2 DEF Abstract!MNext
  <1>6. QED
    BY <1>4, <1>5

LEMMA ForgetStep ==
  ASSUME RInv, NEW r \in Routers, Restart(r)
  PROVE  Abstract!MNext
  <1>1. /\ UNCHANGED <<out, sub>>
        /\ processed' = [processed EXCEPT ![r] = {}]
        /\ table' = [table EXCEPT ![r] = [n \in Names |-> {}]]
        /\ open' = {c \in open : Home[c] # r}
    BY DEF Restart
  <1>2. ASSUME NEW c \in Chans
        PROVE  GroupOf(c)' = IF GroupOf(c) # <<>> /\ GroupOf(c)[1] = r THEN <<>>
                             ELSE GroupOf(c)
    <2>1. Home[c] \in Routers
      BY FibAssumption
    <2>2. CASE Home[c] = r
      <3>1. ~Joined(c)'
        BY <1>1, <2>2 DEF Joined
      <3>2. GroupOf(c)' = <<>>
        BY <3>1 DEF GroupOf
      <3>3. GroupOf(c) = <<>> \/ GroupOf(c)[1] = r
        BY <2>2 DEF GroupOf
      <3>4. QED
        BY <3>2, <3>3
    <2>3. CASE Home[c] # r
      <3>1. table'[Home[c]] = table[Home[c]] /\ (c \in open' <=> c \in open)
        BY <1>1, <2>1, <2>3 DEF RInv, TypeOK
      <3>2. Joined(c)' = Joined(c)
        BY <1>1, <3>1 DEF Joined
      <3>3. GroupOf(c)' = GroupOf(c)
        BY <1>1, <3>2 DEF GroupOf
      <3>4. GroupOf(c) = <<>> \/ GroupOf(c)[1] # r
        BY <2>3 DEF GroupOf
      <3>5. QED
        BY <3>3, <3>4
    <2>4. QED
      BY <2>2, <2>3
  <1>3. Abstract!Forget(r)
    BY <1>1, <1>2 DEF Abstract!Forget
  <1>4. QED
    BY <1>3 DEF Abstract!MNext

\* What a FIB is to the multicast at the start.
LEMMA InitMaps == Init => Abstract!MInit
  BY DEF Init, Abstract!MInit, GroupOf, Joined

\* Every step of the FIB is one of the multicast, or changes nothing of it.
LEMMA StepMaps ==
  RInv /\ [Next]_fibVars => Abstract!MNext \/ UNCHANGED Abstract!mvars
  <1> SUFFICES ASSUME RInv, [Next]_fibVars
               PROVE  Abstract!MNext \/ UNCHANGED Abstract!mvars
    OBVIOUS
  <1>1. ASSUME UNCHANGED <<table, open, sub, out, processed>>
        PROVE  UNCHANGED Abstract!mvars
    BY <1>1, SameGroups DEF Abstract!mvars
  <1>2. ASSUME NEW r \in Routers,
               \/ DropProcessed(r) \/ DropAnswered(r) \/ HandleUnknown(r)
               \/ ResponsePanics(r)
        PROVE  UNCHANGED Abstract!mvars
    BY <1>1, <1>2 DEF DropProcessed, DropAnswered, HandleUnknown, ResponsePanics,
       HandleVars
  <1>3. ASSUME NEW r \in Routers, HandleForward(r)
        PROVE  Abstract!MNext \/ UNCHANGED Abstract!mvars
    <2> DEFINE cs == Receivers(r, pkt(r).name, "RECEIVER")
    <2>1. /\ pkt(r) \in Packet /\ pkt(r).action = "Forward"
          /\ pkt(r).guid \notin processed[r] /\ SendTo(cs, pkt(r))
          /\ UNCHANGED <<table, open, sub>>
      BY <1>3, TakeType DEF HandleForward, HandleVars, RInv
    <2>2. TypeFor[pkt(r).action] = "RECEIVER"
      BY <2>1 DEF TypeFor, Packet
    <2>3. CASE cs = {}
      <3>1. processed' = processed /\ out' = out
        BY <1>3, <2>1, <2>3 DEF HandleForward, SendTo, RInv, TypeOK
      <3>2. QED
        BY <1>1, <2>1, <3>1
    <2>4. CASE cs # {}
      <3>1. processed' = [processed EXCEPT ![r] = @ \cup {pkt(r).guid}]
        BY <1>3, <2>4 DEF HandleForward
      <3>2. QED
        BY <2>1, <2>2, <3>1, PublishStep
    <2>5. QED
      BY <2>3, <2>4
  <1>4. ASSUME NEW r \in Routers, HandleRequest(r) PROVE Abstract!MNext
    BY <1>4, AskStep
  <1>5. ASSUME NEW r \in Routers, HandleResponse(r) PROVE Abstract!MNext
    <2>1. /\ pkt(r) \in Packet /\ pkt(r).action = "Response"
          /\ pkt(r).guid \notin processed[r]
          /\ SendTo(Receivers(r, pkt(r).name, "RESPONSERECEIVER"), pkt(r))
          /\ processed' = [processed EXCEPT ![r] = @ \cup {pkt(r).guid}]
          /\ UNCHANGED <<table, open, sub>>
      BY <1>5, TakeType DEF HandleResponse, HandleVars, RInv
    <2>2. TypeFor[pkt(r).action] = "RESPONSERECEIVER"
      BY <2>1 DEF TypeFor, Packet
    <2>3. QED
      BY <2>1, <2>2, PublishStep
  <1>6. ASSUME NEW r \in Routers, HandleUpdate(r)
        PROVE  Abstract!MNext \/ UNCHANGED Abstract!mvars
    BY <1>6, JoinStep
  <1>7. ASSUME NEW u \in Offers, Announce(u, TRUE) PROVE UNCHANGED Abstract!mvars
    BY <1>7, AnnounceStutters
  <1>8. ASSUME NEW c \in Chans, Close(c)
        PROVE  Abstract!MNext \/ UNCHANGED Abstract!mvars
    BY <1>8, LeaveStep
  <1>9. ASSUME NEW r \in Routers, NEW p \in Inputs, Arrive(r, p)
        PROVE  UNCHANGED Abstract!mvars
    BY <1>1, <1>9 DEF Arrive, Enqueue
  <1>10. ASSUME NEW r \in Routers, Restart(r) PROVE Abstract!MNext
    BY <1>10, ForgetStep
  <1>11. CASE UNCHANGED fibVars
    BY <1>1, <1>11 DEF fibVars
  <1>12. QED
    BY <1>2, <1>3, <1>4, <1>5, <1>6, <1>7, <1>8, <1>9, <1>10, <1>11
    DEF Next, Step, HandlePacket

\* The FIB of any number of routers implements the multicast: every live
\* subscriber of a name gets a message in one step, no id goes out twice, and a
\* channel joins before it gets anything.
THEOREM FibImplementsMulticast == Spec => ImplementsMulticast
  <1>1. RInv /\ [Next]_fibVars => [Abstract!MNext]_(Abstract!mvars)
    BY StepMaps
  <1>2. QED
    BY <1>1, InitMaps, RInvCorrect, PTL DEF Spec, ImplementsMulticast, Abstract!MSpec

-----------------------------------------------------------------------------
(* Agreement of the live subscribers.                                      *)

Shorter(s, t) == IF Len(s) < Len(t) THEN Len(s) ELSE Len(t)

\* Two sequences that agree still do when the same element is put at their ends.
LEMMA AppendAgrees ==
  ASSUME NEW s \in Seq(Packet), NEW t \in Seq(Packet), NEW p \in Packet,
         OneIsSuffix(s, t)
  PROVE  OneIsSuffix(Append(s, p), Append(t, p))
  <1> DEFINE a == Append(s, p)
             b == Append(t, p)
  <1>1. /\ Len(s) \in Nat /\ Len(a) = Len(s) + 1 /\ a[Len(s) + 1] = p
        /\ \A i \in 1..Len(s) : a[i] = s[i]
    BY LenProperties, AppendProperties
  <1>2. /\ Len(t) \in Nat /\ Len(b) = Len(t) + 1 /\ b[Len(t) + 1] = p
        /\ \A i \in 1..Len(t) : b[i] = t[i]
    BY LenProperties, AppendProperties
  <1>3. \A i \in 0..(Shorter(s, t) - 1) : s[Len(s) - i] = t[Len(t) - i]
    BY DEF OneIsSuffix, Shorter
  <1>4. Shorter(a, b) = Shorter(s, t) + 1
        /\ Shorter(s, t) \in Nat /\ Shorter(s, t) <= Len(s) /\ Shorter(s, t) <= Len(t)
    BY <1>1, <1>2 DEF Shorter
  <1> HIDE DEF a, b
  <1>5. ASSUME NEW i \in 0..(Shorter(a, b) - 1) PROVE a[Len(a) - i] = b[Len(b) - i]
    <2>1. CASE i = 0
      BY <1>1, <1>2, <2>1
    <2>2. CASE i # 0
      <3>1. i - 1 \in 0..(Shorter(s, t) - 1)
        BY <1>4, <2>2
      <3>2. s[Len(s) - (i - 1)] = t[Len(t) - (i - 1)]
        BY <1>3, <3>1
      <3>3. Len(s) - (i - 1) \in 1..Len(s) /\ Len(a) - i = Len(s) - (i - 1)
        BY <1>1, <1>4, <3>1
      <3>4. Len(t) - (i - 1) \in 1..Len(t) /\ Len(b) - i = Len(t) - (i - 1)
        BY <1>2, <1>4, <3>1
      <3>5. QED
        BY <1>1, <1>2, <3>2, <3>3, <3>4
    <2>3. QED
      BY <2>1, <2>2
  <1>6. QED
    BY <1>5 DEF OneIsSuffix, Shorter, a, b

\* A channel that got nothing agrees with every other.
LEMMA EmptyAgrees ==
  ASSUME NEW s \in Seq(Packet), NEW t \in Seq(Packet), s = <<>> \/ t = <<>>
  PROVE  OneIsSuffix(s, t)
  <1>1. Len(s) \in Nat /\ Len(t) \in Nat /\ (Len(s) = 0 \/ Len(t) = 0)
    BY LenProperties, EmptySeq
  <1>2. \A k \in {Len(s), Len(t)} : k < 1 => 0..(k - 1) = {}
    BY <1>1
  <1>3. QED
    BY <1>1, <1>2 DEF OneIsSuffix

\* A message goes to all the live subscribers of its name and kind, or to none
\* of them.
LEMMA SendAgrees ==
  ASSUME RInv, SubscribersAgree, NEW r \in Routers, NEW n \in Names, NEW t,
         NEW p \in Packet, NEW cs,
         \/ cs = Receivers(r, n, t)
         \/ t = "REQUESTRECEIVER" /\ cs \subseteq Receivers(r, n, t),
         SendTo(cs, p), UNCHANGED <<table, open>>
  PROVE  SubscribersAgree'
  <1> SUFFICES ASSUME NEW q \in Routers, NEW m \in Names,
                      NEW k \in {"RECEIVER", "RESPONSERECEIVER"},
                      NEW c \in Receivers(q, m, k) \cap open,
                      NEW d \in Receivers(q, m, k) \cap open
               PROVE  OneIsSuffix(out'[c], out'[d])
    BY SMTT(30) DEF SubscribersAgree, Receivers, OneIsSuffix
  <1>1. OneIsSuffix(out[c], out[d])
    BY DEF SubscribersAgree
  <1>2. /\ c \in Chans /\ Home[c] = q /\ sub[c] = [type |-> k, name |-> m, tx |-> c]
        /\ d \in Chans /\ Home[d] = q /\ sub[d] = [type |-> k, name |-> m, tx |-> d]
    BY ReceiverIsRegistered DEF RInv, SafeInv
  <1>3. \A x \in cs : Home[x] = r /\ sub[x] = [type |-> t, name |-> n, tx |-> x]
    BY ReceiverIsRegistered DEF RInv, SafeInv
  <1>4. c \in cs <=> d \in cs
    <2>1. ASSUME NEW x \in {c, d}, x \in cs PROVE q = r /\ m = n /\ k = t
      <3>1. sub[x] = [type |-> t, name |-> n, tx |-> x]
            /\ sub[x] = [type |-> k, name |-> m, tx |-> x]
        BY <1>2, <1>3, <2>1
      <3>2. m = n /\ k = t
        BY <3>1
      <3>3. QED
        BY <1>2, <1>3, <2>1, <3>2
    <2>2. QED
      BY <2>1
  <1>5. out[c] \in Seq(Packet) /\ out[d] \in Seq(Packet)
    BY <1>2 DEF RInv, TypeOK
  <1>6. CASE c \in cs
    <2>1. out'[c] = Append(out[c], p) /\ out'[d] = Append(out[d], p)
      BY <1>2, <1>4, <1>6 DEF SendTo
    <2>2. OneIsSuffix(Append(out[c], p), Append(out[d], p))
      BY <1>1, <1>5, AppendAgrees
    <2>3. QED
      BY <2>1, <2>2
  <1>7. CASE c \notin cs
    <2>1. out'[c] = out[c] /\ out'[d] = out[d]
      BY <1>2, <1>4, <1>7 DEF SendTo
    <2>2. QED
      BY <1>1, <2>1
  <1>8. QED
    BY <1>6, <1>7

\* A step that adds no entry of a live channel but of such as got nothing.
LEMMA QuietAgrees ==
  ASSUME RInv, SubscribersAgree, UNCHANGED out,
         \A r \in Routers, n \in Names : \A k \in table'[r][n] :
           k.tx \in open' => \/ k \in table[r][n] /\ k.tx \in open
                             \/ k.tx \in Chans /\ out[k.tx] = <<>>
  PROVE  SubscribersAgree'
  <1> SUFFICES ASSUME NEW r \in Routers, NEW n \in Names,
                      NEW t \in {"RECEIVER", "RESPONSERECEIVER"},
                      NEW c \in Receivers(r, n, t)', c \in open',
                      NEW d \in Receivers(r, n, t)', d \in open'
               PROVE  OneIsSuffix(out[c], out[d])
    BY SMTT(30) DEF SubscribersAgree, OneIsSuffix
  <1>1. PICK j \in table'[r][n] : j.type = t /\ j.tx = c
    BY DEF Receivers
  <1>2. PICK k \in table'[r][n] : k.type = t /\ k.tx = d
    BY DEF Receivers
  <1>3. \/ j \in table[r][n] /\ c \in open
        \/ c \in Chans /\ out[c] = <<>>
    BY <1>1
  <1>4. \/ k \in table[r][n] /\ d \in open
        \/ d \in Chans /\ out[d] = <<>>
    BY <1>2
  <1>5. open \subseteq Chans
    BY DEF RInv, TypeOK
  <1>6. out[c] \in Seq(Packet) /\ out[d] \in Seq(Packet)
    BY <1>3, <1>4, <1>5 DEF RInv, TypeOK
  <1>7. CASE out[c] = <<>> \/ out[d] = <<>>
    BY <1>6, <1>7, EmptyAgrees
  <1>8. CASE out[c] # <<>> /\ out[d] # <<>>
    <2>1. c \in Receivers(r, n, t) \cap open /\ d \in Receivers(r, n, t) \cap open
      BY <1>1, <1>2, <1>3, <1>4, <1>8 DEF Receivers
    <2>2. QED
      BY <2>1 DEF SubscribersAgree
  <1>9. QED
    BY <1>7, <1>8

LEMMA StepAgrees ==
  RInv /\ RInv' /\ SubscribersAgree /\ [Next]_fibVars => SubscribersAgree'
  <1> SUFFICES ASSUME RInv, RInv', SubscribersAgree, [Next]_fibVars
               PROVE  SubscribersAgree'
    OBVIOUS
  <1>1. ASSUME UNCHANGED <<table, out>>, open' \subseteq open PROVE SubscribersAgree'
    BY <1>1, QuietAgrees
  <1>2. ASSUME NEW r \in Routers,
               \/ DropProcessed(r) \/ DropAnswered(r) \/ HandleUnknown(r)
               \/ ResponsePanics(r)
        PROVE  SubscribersAgree'
    BY <1>1, <1>2 DEF DropProcessed, DropAnswered, HandleUnknown, ResponsePanics,
       HandleVars
  <1>3. ASSUME NEW r \in Routers, HandleForward(r) \/ HandleResponse(r)
        PROVE  SubscribersAgree'
    <2>1. pkt(r) \in Packet /\ UNCHANGED <<table, open>>
      BY <1>3, TakeType DEF HandleForward, HandleResponse, HandleVars, RInv
    <2>2. pkt(r).name \in Names
      BY <2>1 DEF Packet
    <2>3. \/ SendTo(Receivers(r, pkt(r).name, "RECEIVER"), pkt(r))
          \/ SendTo(Receivers(r, pkt(r).name, "RESPONSERECEIVER"), pkt(r))
      BY <1>3 DEF HandleForward, HandleResponse
    <2>4. QED
      BY <2>1, <2>2, <2>3, SendAgrees
  <1>4. ASSUME NEW r \in Routers, HandleRequest(r) PROVE SubscribersAgree'
    <2>1. pkt(r) \in Packet /\ UNCHANGED <<table, open>>
      BY <1>4, TakeType DEF HandleRequest, HandleVars, RInv
    <2>2. pkt(r).name \in Names
      BY <2>1 DEF Packet
    <2>3. PICK d \in Defaults : SendTo(RequestTargets(r, pkt(r).name, d), pkt(r))
      BY <1>4 DEF HandleRequest
    <2>4. RequestTargets(r, pkt(r).name, d)
            \subseteq Receivers(r, pkt(r).name, "REQUESTRECEIVER")
      BY DEF RequestTargets
    <2>5. QED
      BY <2>1, <2>2, <2>3, <2>4, SendAgrees
  <1>5. ASSUME UNCHANGED <<out, sub>>, open' \subseteq open PROVE SubscribersAgree'
    <2>1. ASSUME NEW r \in Routers, NEW n \in Names, NEW k \in table'[r][n],
                 k.tx \in open'
          PROVE  \/ k \in table[r][n] /\ k.tx \in open
                 \/ k.tx \in Chans /\ out[k.tx] = <<>>
      <3>1. k \in Conn /\ k.tx \in open /\ k.tx \in Chans
        BY <1>5, <2>1 DEF RInv, TypeOK
      <3>2. Home[k.tx] = r /\ sub'[k.tx] = [type |-> k.type, name |-> n, tx |-> k.tx]
        BY <2>1 DEF RInv, SafeInv, Registered
      <3>3. out[k.tx] # <<>> => Entry(k.tx) \in table[r][n]
        BY <1>5, <3>1, <3>2 DEF RInv, Carried
      <3>4. Entry(k.tx) = k
        BY <1>5, <3>1, <3>2 DEF Entry, Conn
      <3>5. QED
        BY <3>1, <3>3, <3>4
    <2>2. QED
      BY <1>5, <2>1, QuietAgrees
  <1>6. ASSUME NEW r \in Routers, HandleUpdate(r) PROVE SubscribersAgree'
    BY <1>5, <1>6 DEF HandleUpdate
  <1>7. ASSUME NEW u \in Offers, Announce(u, TRUE) PROVE SubscribersAgree'
    <2>1. u.tx \in Chans
      BY InputAssumption DEF Update
    <2>2. /\ UNCHANGED <<table, out>> /\ open' = open \cup {u.tx}
          /\ sub[u.tx] = NoUpdate
      BY <1>7 DEF Announce
    <2>3. \A i \in 1..Len(out[u.tx]) : FALSE
      BY <2>1, <2>2 DEF RInv, SafeInv, Isolation
    <2>4. out[u.tx] \in Seq(Packet)
      BY <2>1 DEF RInv, TypeOK
    <2>5. out[u.tx] = <<>>
      BY <2>3, <2>4, LenProperties, EmptySeq
    <2>6. QED
      BY <2>1, <2>2, <2>5, QuietAgrees
  <1>8. ASSUME NEW c \in Chans, Close(c) PROVE SubscribersAgree'
    BY <1>1, <1>8 DEF Close
  <1>9. ASSUME NEW r \in Routers, NEW p \in Inputs, Arrive(r, p)
        PROVE  SubscribersAgree'
    BY <1>1, <1>9 DEF Arrive, Enqueue
  <1>10. ASSUME NEW r \in Routers, Restart(r) PROVE SubscribersAgree'
    BY <1>5, <1>10 DEF Restart
  <1>11. CASE UNCHANGED fibVars
    BY <1>1, <1>11 DEF fibVars
  <1>12. QED
    BY <1>2, <1>3, <1>4, <1>6, <1>7, <1>8, <1>9, <1>10, <1>11
    DEF Next, Step, HandlePacket

\* Two live subscribers of one topic on one router have the same last messages in
\* the same order, whenever they joined and whatever the router did in between.
THEOREM LiveSubscribersAgree == Spec => []SubscribersAgree
  <1>1. Init => SubscribersAgree
    BY DEF Init, SubscribersAgree
  <1>2. QED
    BY <1>1, StepAgrees, RInvCorrect, PTL DEF Spec

-----------------------------------------------------------------------------
(* The composition.                                                        *)

Base == RTypeOK /\ SafeInv

-----------------------------------------------------------------------------
(* What a step of a FIB does, whatever the packet.                         *)

\* The packet at the head of the queue goes to channels cs of router r.
Handles(r, cs) ==
  /\ Take(r)
  /\ SendTo(cs, pkt(r))
  /\ UNCHANGED HandleVars
  /\ \A c \in cs :
       /\ c \in Chans
       /\ Home[c] = r
       /\ sub[c] = [type |-> TypeFor[pkt(r).action], name |-> pkt(r).name, tx |-> c]
  /\ cs # {} =>
       /\ pkt(r).guid \notin processed[r]
       /\ pkt(r).action # "Request" => pkt(r).guid \in processed'[r]
       /\ pkt(r).action = "Request" => pkt(r).name \in requested'[r]
  /\ \A q \in Routers : /\ processed[q] \subseteq processed'[q]
                        /\ requested[q] \subseteq requested'[q]

\* Every branch of the FIB task sends its packet to channels that registered
\* for its name and kind, to none when it is dropped.
LEMMA HandleEffect ==
  ASSUME TypeOK, SafeInv, NEW r \in Routers, HandlePacket(r)
  PROVE  pkt(r) \in Packet /\ \E cs : Handles(r, cs)
  <1>1. pkt(r) \in Packet
    BY TakeType DEF HandlePacket, DropProcessed, HandleForward, HandleRequest,
       ResponsePanics, DropAnswered, HandleResponse, HandleUnknown
  <1>2. ASSUME DropProcessed(r) \/ ResponsePanics(r) \/ DropAnswered(r) \/ HandleUnknown(r)
        PROVE  Handles(r, {})
    <2>1. Take(r) /\ UNCHANGED <<processed, requested, out, HandleVars>>
      BY <1>2 DEF DropProcessed, ResponsePanics, DropAnswered, HandleUnknown
    <2>2. SendTo({}, pkt(r))
      BY <2>1 DEF SendTo, TypeOK
    <2>3. QED
      BY <2>1, <2>2 DEF Handles
  <1>3. ASSUME NEW cs, NEW t, cs \subseteq Receivers(r, pkt(r).name, t)
        PROVE  \A c \in cs : /\ c \in Chans
                             /\ Home[c] = r
                             /\ sub[c] = [type |-> t, name |-> pkt(r).name, tx |-> c]
    <2>1. pkt(r).name \in Names
      BY <1>1 DEF Packet
    <2>2. QED
      BY <1>3, <2>1, ReceiverIsRegistered DEF SafeInv
  <1>4. ASSUME HandleForward(r)
        PROVE  Handles(r, Receivers(r, pkt(r).name, "RECEIVER"))
    <2> DEFINE cs == Receivers(r, pkt(r).name, "RECEIVER")
    <2>1. /\ Take(r) /\ pkt(r).action = "Forward"
          /\ pkt(r).guid \notin processed[r]
          /\ processed' = [processed EXCEPT
                             ![r] = IF cs = {} THEN @ ELSE @ \cup {pkt(r).guid}]
          /\ SendTo(cs, pkt(r))
          /\ UNCHANGED <<requested, alive, HandleVars>>
      BY <1>4 DEF HandleForward
    <2>2. TypeFor[pkt(r).action] = "RECEIVER"
      BY <2>1 DEF TypeFor, Actions
    <2>3. /\ \A q \in Routers : processed[q] \subseteq processed'[q]
          /\ cs # {} => pkt(r).guid \in processed'[r]
      BY <2>1 DEF TypeOK
    <2>4. \A c \in cs : /\ c \in Chans
                        /\ Home[c] = r
                        /\ sub[c] = [type |-> "RECEIVER", name |-> pkt(r).name, tx |-> c]
      BY <1>3
    <2> HIDE DEF cs
    <2>5. QED
      BY <2>1, <2>2, <2>3, <2>4 DEF Handles, cs
  <1>5. ASSUME HandleRequest(r)
        PROVE  \E cs : Handles(r, cs)
    <2>1. PICK d \in Defaults : SendTo(RequestTargets(r, pkt(r).name, d), pkt(r))
      BY <1>5 DEF HandleRequest
    <2> DEFINE cs == RequestTargets(r, pkt(r).name, d)
    <2>2. /\ Take(r) /\ pkt(r).action = "Request"
          /\ pkt(r).guid \notin processed[r]
          /\ requested' = [requested EXCEPT ![r] = @ \cup {pkt(r).name}]
          /\ UNCHANGED <<processed, alive, HandleVars>>
      BY <1>5 DEF HandleRequest
    <2>3. TypeFor[pkt(r).action] = "REQUESTRECEIVER"
      BY <2>2 DEF TypeFor, Actions
    <2>4. /\ \A q \in Routers : requested[q] \subseteq requested'[q]
          /\ pkt(r).name \in requested'[r]
      BY <2>2 DEF TypeOK
    <2>5. cs \subseteq Receivers(r, pkt(r).name, "REQUESTRECEIVER")
      BY DEF RequestTargets
    <2>6. SendTo(cs, pkt(r))
      BY <2>1
    <2> HIDE DEF cs
    <2>7. \A c \in cs : /\ c \in Chans
                        /\ Home[c] = r
                        /\ sub[c] = [type |-> "REQUESTRECEIVER",
                                     name |-> pkt(r).name, tx |-> c]
      BY <1>3, <2>5
    <2>8. QED
      BY <2>2, <2>3, <2>4, <2>6, <2>7 DEF Handles
  <1>6. ASSUME HandleResponse(r)
        PROVE  Handles(r, Receivers(r, pkt(r).name, "RESPONSERECEIVER"))
    <2> DEFINE cs == Receivers(r, pkt(r).name, "RESPONSERECEIVER")
    <2>1. /\ Take(r) /\ pkt(r).action = "Response"
          /\ pkt(r).guid \notin processed[r]
          /\ processed' = [processed EXCEPT ![r] = @ \cup {pkt(r).guid}]
          /\ SendTo(cs, pkt(r))
          /\ UNCHANGED <<requested, alive, HandleVars>>
      BY <1>6 DEF HandleResponse
    <2>2. TypeFor[pkt(r).action] = "RESPONSERECEIVER"
      BY <2>1 DEF TypeFor, Actions
    <2>3. /\ \A q \in Routers : processed[q] \subseteq processed'[q]
          /\ pkt(r).guid \in processed'[r]
      BY <2>1 DEF TypeOK
    <2>4. \A c \in cs : /\ c \in Chans
                        /\ Home[c] = r
                        /\ sub[c] = [type |-> "RESPONSERECEIVER",
                                     name |-> pkt(r).name, tx |-> c]
      BY <1>3
    <2> HIDE DEF cs
    <2>5. QED
      BY <2>1, <2>2, <2>3, <2>4 DEF Handles, cs
  <1>7. QED
    BY <1>1, <1>2, <1>4, <1>5, <1>6 DEF HandlePacket

-----------------------------------------------------------------------------
(* Types, and the promises of the FIB in the composed system.              *)

\* The state a behaviour starts in: the updates of Ready were handled.
LEMMA BaseInit == RInit => Base
  <1> SUFFICES ASSUME RInit PROVE Base
    OBVIOUS
  <1> USE FibAssumption, InputAssumption, RosAssumption
  <1>1. \A u \in Ready : /\ u \in Update
                         /\ u.tx \in Chans /\ u.name \in Names /\ u.type \in ConnTypes
                         /\ u = [type |-> u.type, name |-> u.name, tx |-> u.tx]
                         /\ u # NoUpdate
    BY DEF Update
  <1>2. \A u \in Ready : IsReady(u.tx) /\ ReadyOf(u.tx) = u
    <2> SUFFICES ASSUME NEW u \in Ready PROVE IsReady(u.tx) /\ ReadyOf(u.tx) = u
      OBVIOUS
    <2>1. ReadyOf(u.tx) \in Ready /\ ReadyOf(u.tx).tx = u.tx
      BY DEF ReadyOf
    <2>2. QED
      BY <2>1 DEF IsReady
  <1>3. \A c : IsReady(c) => ReadyOf(c) \in Ready /\ ReadyOf(c).tx = c
    BY DEF IsReady, ReadyOf
  <1>4. TypeOK
    <2>1. <<>> \in Seq(Packet) /\ <<>> \in Seq(Update)
      BY EmptySeq
    <2>2. table \in [Routers -> [Names -> SUBSET Conn]]
      <3>1. \A r \in Routers, n \in Names :
              {[type |-> u.type, tx |-> u.tx] :
                 u \in {w \in Ready : Home[w.tx] = r /\ w.name = n
                                      /\ w.type \in ReceiverTypes}} \in SUBSET Conn
        BY <1>1 DEF Conn
      <3>2. QED
        BY <3>1 DEF RInit
    <2>3. sub \in [Chans -> Update \cup {NoUpdate}]
      BY <1>1, <1>3 DEF RInit
    <2>4. QED
      BY <2>1, <2>2, <2>3 DEF RInit, TypeOK
  <1>5. RTypeOK
    <2>1. loop \in [Routers -> [Roles -> [Names -> Chans \cup {NoChan}]]]
      BY DEF RInit
    <2>2. \A c \in Chans : rd[c] <= Len(out[c])
      BY DEF RInit
    <2>3. <<>> \in Seq(Guids)
      BY EmptySeq
    <2>4. QED
      BY <1>4, <2>1, <2>2, <2>3 DEF RInit, RTypeOK
  <1>6. Registered
    <2>1. \A r \in Routers : Len(chanQueue[r]) = 0
      BY DEF RInit
    <2>2. ASSUME NEW r \in Routers, NEW n \in Names, NEW k \in table[r][n]
          PROVE  /\ Home[k.tx] = r
                 /\ sub[k.tx] = [type |-> k.type, name |-> n, tx |-> k.tx]
                 /\ Admitted(r, [type |-> k.type, name |-> n, tx |-> k.tx])
      <3>1. PICK u \in Ready : /\ Home[u.tx] = r /\ u.name = n
                               /\ u.type \in ReceiverTypes
                               /\ k = [type |-> u.type, tx |-> u.tx]
        BY DEF RInit
      <3>2. sub[u.tx] = u
        BY <1>1, <1>2 DEF RInit
      <3>3. ~bindings[r]
        BY DEF RInit
      <3>4. QED
        BY <1>1, <3>1, <3>2, <3>3 DEF Admitted
    <2>3. QED
      BY <2>1, <2>2 DEF Registered
  <1>7. \A c \in Chans : Len(out[c]) = 0
    BY DEF RInit
  <1>8. Marked /\ AtMostOnce /\ Isolation
    BY <1>4, <1>7 DEF TypeOK, Marked, AtMostOnce, Isolation
  <1>9. QED
    BY <1>5, <1>6, <1>8 DEF Base, SafeInv

\* What a reader finds next is a packet of its channel.
LEMMA NextType ==
  ASSUME RTypeOK, NEW c \in Chans, Unread(c)
  PROVE  /\ rd[c] + 1 \in 1..Len(out[c])
         /\ NextOf(c) \in Packet
  <1>1. rd[c] \in Nat /\ out[c] \in Seq(Packet) /\ Len(out[c]) \in Nat
    BY LenProperties DEF RTypeOK, TypeOK
  <1>2. rd[c] + 1 \in 1..Len(out[c])
    BY <1>1 DEF Unread
  <1>3. QED
    BY <1>1, <1>2, ElementOfSeq DEF NextOf

\* Reading one packet leaves the reader behind the writer.
LEMMA ReadType ==
  ASSUME RTypeOK, NEW c \in Chans, Unread(c), Read(c), UNCHANGED out
  PROVE  /\ rd' \in [Chans -> Nat]
         /\ \A d \in Chans : rd'[d] <= Len(out'[d])
         /\ \A d \in Chans : rd[d] <= rd'[d]
  <1>1. \A d \in Chans : Len(out[d]) \in Nat
    BY LenProperties DEF RTypeOK, TypeOK
  <1>2. QED
    BY <1>1 DEF RTypeOK, Unread, Read

\* Channels only grow, in every step of a FIB.
LEMMA HandleGrows ==
  ASSUME TypeOK, NEW r \in Routers, NEW cs, Handles(r, cs), pkt(r) \in Packet
  PROVE  \A c \in Chans : /\ Len(out[c]) \in Nat
                          /\ Len(out[c]) <= Len(out'[c])
                          /\ \A i \in 1..Len(out[c]) : out'[c][i] = out[c][i]
  <1>1. \A c \in Chans : Len(out[c]) \in Nat
    BY LenProperties DEF TypeOK
  <1>2. SendTo(cs, pkt(r)) /\ out \in [Chans -> Seq(Packet)]
    BY DEF TypeOK, Handles
  <1>3. \A c \in Chans :
              \/ out'[c] = out[c]
              \/ /\ Len(out'[c]) = Len(out[c]) + 1
                 /\ \A i \in 1..Len(out[c]) : out'[c][i] = out[c][i]
    BY <1>2, SendToEffect
  <1>4. QED
    BY <1>1, <1>3

\* The steps of the connections and the loops that hand a packet to a FIB.
Hands(r, p) == Enqueue(r, p) /\ arrivals' = arrivals

LEMMA HandsType ==
  ASSUME TypeOK, NEW r \in Routers, NEW p \in Packet, Hands(r, p)
  PROVE  TypeOK'
  BY EnqueueType DEF Hands, TypeOK

\* Which packet each of them hands over, and to whom.
LEMMA WhatIsHanded ==
  ASSUME RTypeOK
  PROVE  /\ \A c \in NetChans : Transfer(c) =>
              /\ Peer[c] \in Routers /\ NextOf(c) \in Packet /\ Hands(Peer[c], NextOf(c))
         /\ \A r \in Routers, n \in Names, g \in Guids : PublishMessage(r, n, g) =>
              ForwardOf(n, g) \in Packet /\ Hands(r, ForwardOf(n, g))
         /\ \A r \in Routers, n \in Names, g \in Guids : AskService(r, n, g) =>
              RequestOf(n, g) \in Packet /\ Hands(r, RequestOf(n, g))
         /\ \A r \in Routers, n \in Names : SendResponse(r, n) =>
              /\ serving[r][n] \in Guids
              /\ ResponseOf(n, serving[r][n]) \in Packet
              /\ Hands(r, ResponseOf(n, serving[r][n]))
  <1>1. ASSUME NEW c \in NetChans, Transfer(c)
        PROVE  Peer[c] \in Routers /\ NextOf(c) \in Packet /\ Hands(Peer[c], NextOf(c))
    BY <1>1, NextType, RosAssumption DEF Transfer, Hands
  <1>2. ASSUME NEW r \in Routers, NEW n \in Names, NEW g \in Guids, PublishMessage(r, n, g)
        PROVE  ForwardOf(n, g) \in Packet /\ Hands(r, ForwardOf(n, g))
    BY <1>2 DEF PublishMessage, Hands, ForwardOf, Packet, Actions
  <1>3. ASSUME NEW r \in Routers, NEW n \in Names, NEW g \in Guids, AskService(r, n, g)
        PROVE  RequestOf(n, g) \in Packet /\ Hands(r, RequestOf(n, g))
    BY <1>3 DEF AskService, Hands, RequestOf, Packet, Actions
  <1>4. ASSUME NEW r \in Routers, NEW n \in Names, SendResponse(r, n)
        PROVE  /\ serving[r][n] \in Guids
               /\ ResponseOf(n, serving[r][n]) \in Packet
               /\ Hands(r, ResponseOf(n, serving[r][n]))
    <2>1. serving[r][n] \in Guids
      BY <1>4 DEF SendResponse, RTypeOK
    <2>2. QED
      BY <1>4, <2>1 DEF SendResponse, Hands, ResponseOf, Packet, Actions
  <1>5. QED
    BY <1>1, <1>2, <1>3, <1>4

\* Every action keeps the types of the loops and the connections, and no reader
\* overtakes its writer.
LEMMA RTypeStep == Base /\ [RNext]_vars => RTypeOK'
  <1> SUFFICES ASSUME Base, [RNext]_vars PROVE RTypeOK'
    OBVIOUS
  <1>1. RTypeOK /\ TypeOK /\ SafeInv
    BY DEF Base, RTypeOK
  <1>2. ASSUME NEW r \in Routers, FibStep(r)
        PROVE  RTypeOK'
    <2>1. TypeOK'
      BY <1>1, <1>2, TypeStep DEF FibStep, Next
    <2>2. CASE HandlePacket(r)
      <3>1. PICK cs : Handles(r, cs)
        BY <1>1, <2>2, HandleEffect
      <3>2. \A c \in Chans : Len(out[c]) \in Nat /\ Len(out[c]) <= Len(out'[c])
        BY <1>1, <2>2, <3>1, HandleGrows, HandleEffect
      <3>3. \A c \in Chans : Len(out'[c]) \in Nat
        BY <2>1, LenProperties DEF TypeOK
      <3>4. \A c \in Chans : rd[c] \in Nat /\ rd[c] <= Len(out[c])
        BY <1>1 DEF RTypeOK
      <3>5. \A c \in Chans : rd[c] <= Len(out'[c])
        BY <3>2, <3>3, <3>4
      <3>6. QED
        BY <1>1, <1>2, <2>1, <3>5 DEF RTypeOK, FibStep, rosVars
    <2>3. CASE HandleUpdate(r)
      BY <1>1, <1>2, <2>1, <2>3 DEF RTypeOK, FibStep, HandleUpdate, rosVars
    <2>4. QED
      BY <1>2, <2>2, <2>3 DEF FibStep, Step
  <1>3. ASSUME NEW u \in Offers, Connect(u)
        PROVE  RTypeOK'
    <2>1. TypeOK'
      BY <1>1, <1>3, AnnounceType DEF Connect
    <2>2. QED
      BY <1>1, <1>3, <2>1 DEF RTypeOK, Connect, Announce
  <1>4. ASSUME NEW c \in NetChans, Break(c)
        PROVE  RTypeOK'
    BY <1>1, <1>4 DEF RTypeOK, TypeOK, Break, fibVars
  <1>5. ASSUME NEW c \in NetChans, Hangup(c)
        PROVE  RTypeOK'
    BY <1>1, <1>5 DEF RTypeOK, TypeOK, Hangup, Close, rosVars
  <1>6. ASSUME NEW c \in NetChans, Transfer(c)
        PROVE  RTypeOK'
    <2>1. TypeOK'
      BY <1>1, <1>6, WhatIsHanded, HandsType
    <2>2. c \in Chans
      BY RosAssumption
    <2>3. rd' \in [Chans -> Nat] /\ \A d \in Chans : rd'[d] <= Len(out'[d])
      BY <1>1, <1>6, <2>2, ReadType DEF Transfer, Enqueue
    <2>4. QED
      BY <1>1, <1>6, <2>1, <2>3 DEF RTypeOK, Transfer, Enqueue
  <1>7. ASSUME NEW u \in Offers, NEW o \in Roles, u.type = TypeOf[o],
               AddTopic(u.tx, o, u.name)
        PROVE  RTypeOK'
    <2>1. u = [type |-> TypeOf[o], name |-> u.name, tx |-> u.tx]
          /\ u.tx \in Chans /\ u.name \in Names
      BY <1>7, InputAssumption DEF Update
    <2>2. PICK kept : Announce(u, kept)
      BY <1>7, <2>1 DEF AddTopic
    <2>3. TypeOK'
      BY <1>1, <2>2, AnnounceType
    <2>4. UNCHANGED <<out, up, rd, call, fresh, answers, serving, topic>>
      BY <1>7, <2>2 DEF AddTopic, Announce
    <2>5. loop' \in [Routers -> [Roles -> [Names -> Chans \cup {NoChan}]]]
      BY <1>1, <1>7, <2>1 DEF AddTopic, RTypeOK
    <2>6. QED
      BY <1>1, <2>3, <2>4, <2>5 DEF RTypeOK
  <1>8. ASSUME NEW r \in Routers, NEW n \in Names, NEW g \in Guids, PublishMessage(r, n, g)
        PROVE  RTypeOK'
    <2>1. TypeOK'
      BY <1>1, <1>8, WhatIsHanded, HandsType
    <2>2. QED
      BY <1>1, <1>8, <2>1 DEF RTypeOK, PublishMessage, Enqueue
  <1>9. ASSUME NEW r \in Routers, NEW n \in Names, DeliverMessage(r, n)
        PROVE  RTypeOK'
    <2> DEFINE c == loop[r]["sub"][n]
    <2>1. c \in Chans /\ Unread(c) /\ Read(c) /\ UNCHANGED fibVars
      BY <1>1, <1>9 DEF DeliverMessage, RTypeOK, Roles
    <2>2. UNCHANGED out
      BY <2>1 DEF fibVars
    <2>3. /\ rd' \in [Chans -> Nat] /\ \A d \in Chans : rd'[d] <= Len(out'[d])
          /\ NextOf(c) \in Packet
      BY <1>1, <2>1, <2>2, ReadType, NextType
    <2>4. Append(topic[r], NextOf(c).guid) \in Seq(Guids)
      BY <1>1, <2>3, AppendProperties DEF RTypeOK, Packet
    <2>5. topic' \in [Routers -> Seq(Guids)]
      BY <1>1, <1>9, <2>4 DEF DeliverMessage, RTypeOK
    <2>6. TypeOK'
      BY <1>1, <2>1 DEF TypeOK, fibVars
    <2>7. QED
      BY <1>1, <1>9, <2>3, <2>5, <2>6 DEF RTypeOK, DeliverMessage
  <1>10. ASSUME NEW r \in Routers, NEW n \in Names, NEW g \in Guids, AskService(r, n, g)
         PROVE  RTypeOK'
    <2>1. TypeOK'
      BY <1>1, <1>10, WhatIsHanded, HandsType
    <2>2. QED
      BY <1>1, <1>10, <2>1 DEF RTypeOK, AskService, Enqueue
  <1>11. ASSUME NEW r \in Routers, NEW n \in Names, GetResponse(r, n)
         PROVE  RTypeOK'
    <2> DEFINE c == loop[r]["client"][n]
    <2>1. /\ c \in Chans /\ Unread(c) /\ Read(c) /\ UNCHANGED fibVars
          /\ Answer(r, n, NextOf(c).guid) /\ call[r][n] \in Guids
      BY <1>1, <1>11 DEF GetResponse, RTypeOK, Roles
    <2>2. UNCHANGED out
      BY <2>1 DEF fibVars
    <2>3. /\ rd' \in [Chans -> Nat] /\ \A d \in Chans : rd'[d] <= Len(out'[d])
          /\ NextOf(c).guid \in Guids
      BY <1>1, <2>1, <2>2, ReadType, NextType DEF Packet
    <2>4. /\ answers' \in SUBSET [at : Routers, req : Guids, resp : Guids \cup {NoAnswer}]
          /\ call' \in [Routers -> [Names -> Guids \cup {Idle}]]
      BY <1>1, <2>1, <2>3 DEF RTypeOK, Answer
    <2>5. TypeOK'
      BY <1>1, <2>1 DEF TypeOK, fibVars
    <2>6. QED
      BY <1>1, <1>11, <2>3, <2>4, <2>5 DEF RTypeOK, GetResponse
  <1>12. ASSUME NEW r \in Routers, NEW n \in Names, CallTimeout(r, n)
         PROVE  RTypeOK'
    <2>1. call[r][n] \in Guids /\ UNCHANGED fibVars
      BY <1>1, <1>12 DEF CallTimeout, RTypeOK
    <2>2. TypeOK'
      BY <1>1, <2>1 DEF TypeOK, fibVars
    <2>3. QED
      BY <1>1, <1>12, <2>1, <2>2 DEF RTypeOK, CallTimeout, Answer, fibVars
  <1>13. ASSUME NEW r \in Routers, NEW n \in Names, CallService(r, n)
         PROVE  RTypeOK'
    <2> DEFINE c == loop[r]["service"][n]
    <2>1. c \in Chans /\ Unread(c) /\ Read(c) /\ UNCHANGED fibVars
      BY <1>1, <1>13 DEF CallService, RTypeOK, Roles
    <2>2. UNCHANGED out
      BY <2>1 DEF fibVars
    <2>3. /\ rd' \in [Chans -> Nat] /\ \A d \in Chans : rd'[d] <= Len(out'[d])
          /\ NextOf(c).guid \in Guids
      BY <1>1, <2>1, <2>2, ReadType, NextType DEF Packet
    <2>4. serving' \in [Routers -> [Names -> Guids \cup {Idle}]]
      <3>1. CASE serving' = serving
        BY <1>1, <3>1 DEF RTypeOK
      <3>2. CASE serving' = [serving EXCEPT ![r][n] = NextOf(c).guid]
        BY <1>1, <2>3, <3>2 DEF RTypeOK
      <3>3. QED
        BY <1>13, <3>1, <3>2 DEF CallService
    <2>5. TypeOK'
      BY <1>1, <2>1 DEF TypeOK, fibVars
    <2>6. QED
      BY <1>1, <1>13, <2>3, <2>4, <2>5 DEF RTypeOK, CallService
  <1>14. ASSUME NEW r \in Routers, NEW n \in Names, SendResponse(r, n)
         PROVE  RTypeOK'
    <2>1. TypeOK'
      BY <1>1, <1>14, WhatIsHanded, HandsType
    <2>2. QED
      BY <1>1, <1>14, <2>1 DEF RTypeOK, SendResponse, Enqueue
  <1>15. ASSUME NEW r \in Routers, RestartRouter(r)
         PROVE  RTypeOK'
    <2>1. TypeOK'
      BY <1>1, <1>15, TypeStep DEF RestartRouter, Next
    <2>2. QED
      BY <1>1, <1>15, <2>1 DEF RTypeOK, RestartRouter, Restart
  <1>16. CASE UNCHANGED vars
    BY <1>1, <1>16 DEF RTypeOK, TypeOK, vars, fibVars, rosVars
  <1>17. QED
    BY <1>2, <1>3, <1>4, <1>5, <1>6, <1>7, <1>8, <1>9, <1>10, <1>11, <1>12,
       <1>13, <1>14, <1>15, <1>16
    DEF RNext

\* The composed system does to the FIBs what their environment may do, so what
\* the FIBs promise holds in it.
LEMMA RSafeStep == Base /\ RTypeOK' /\ [RNext]_vars => SafeInv'
  <1> SUFFICES ASSUME Base, RTypeOK', [RNext]_vars PROVE SafeInv'
    OBVIOUS
  <1>1. RTypeOK /\ TypeOK /\ SafeInv /\ TypeOK'
    BY DEF Base, RTypeOK
  <1>2. ASSUME NEW r \in Routers, NEW p, Hands(r, p)
        PROVE  SafeInv'
    BY <1>1, <1>2, EnqueueSafe DEF Hands
  <1>3. ASSUME NEW u \in Offers, NEW kept, Announce(u, kept)
        PROVE  SafeInv'
    BY <1>1, <1>3, AnnounceSafe
  <1>4. ASSUME UNCHANGED fibVars
        PROVE  SafeInv'
    BY <1>1, <1>4, SafeInvStep
  <1>5. ASSUME Next
        PROVE  SafeInv'
    BY <1>1, <1>5, SafeInvStep
  <1>6. ASSUME NEW r \in Routers, FibStep(r) \/ RestartRouter(r)
        PROVE  SafeInv'
    BY <1>5, <1>6 DEF FibStep, RestartRouter, Next
  <1>7. ASSUME NEW u \in Offers, Connect(u)
        PROVE  SafeInv'
    BY <1>3, <1>7 DEF Connect
  <1>8. ASSUME NEW c \in NetChans, Break(c) \/ Hangup(c) \/ Transfer(c)
        PROVE  SafeInv'
    <2>1. CASE Break(c)
      BY <1>4, <2>1 DEF Break
    <2>2. CASE Hangup(c)
      BY <1>5, <2>2, RosAssumption DEF Hangup, Next
    <2>3. CASE Transfer(c)
      BY <1>1, <1>2, <2>3, WhatIsHanded
    <2>4. QED
      BY <1>8, <2>1, <2>2, <2>3
  <1>9. ASSUME NEW u \in Offers, NEW o \in Roles, u.type = TypeOf[o],
               AddTopic(u.tx, o, u.name)
        PROVE  SafeInv'
    <2>1. u = [type |-> TypeOf[o], name |-> u.name, tx |-> u.tx]
      BY <1>9, InputAssumption DEF Update
    <2>2. PICK kept : Announce(u, kept)
      BY <1>9, <2>1 DEF AddTopic
    <2>3. QED
      BY <1>3, <2>2
  <1>10. ASSUME NEW r \in Routers, NEW n \in Names, NEW g \in Guids,
                PublishMessage(r, n, g) \/ AskService(r, n, g)
         PROVE  SafeInv'
    BY <1>1, <1>2, <1>10, WhatIsHanded
  <1>11. ASSUME NEW r \in Routers, NEW n \in Names, SendResponse(r, n)
         PROVE  SafeInv'
    BY <1>1, <1>2, <1>11, WhatIsHanded
  <1>12. ASSUME NEW r \in Routers, NEW n \in Names,
                DeliverMessage(r, n) \/ GetResponse(r, n) \/ CallTimeout(r, n)
                  \/ CallService(r, n)
         PROVE  SafeInv'
    <2>1. UNCHANGED fibVars
      BY <1>12 DEF DeliverMessage, GetResponse, CallTimeout, CallService
    <2>2. QED
      BY <1>4, <2>1
  <1>13. CASE UNCHANGED vars
    BY <1>4, <1>13 DEF vars
  <1>14. QED
    BY <1>6, <1>7, <1>8, <1>9, <1>10, <1>11, <1>12, <1>13 DEF RNext

LEMMA BaseStep == Base /\ [RNext]_vars => Base'
  BY RTypeStep, RSafeStep DEF Base

LEMMA BaseCorrect == RSpec => []Base
  <1>1. QED
    BY BaseInit, BaseStep, PTL DEF RSpec

\* The loops, the connections and the FIBs keep every variable within its type,
\* and no reader of a forwarding channel gets ahead of its writer.
THEOREM RTypeCorrect == RSpec => []RTypeOK
  <1>1. Base => RTypeOK
    BY DEF Base
  <1>2. QED
    BY <1>1, BaseCorrect, PTL

\* In the composed system too a receiver of messages or responses is handed
\* each guid once, though the connections between the routers may form cycles
\* and bring a packet back to where it was.
THEOREM ComposedAtMostOnce == RSpec => []AtMostOnce
  <1>1. Base => AtMostOnce
    BY DEF Base, SafeInv
  <1>2. QED
    BY <1>1, BaseCorrect, PTL

\* And no loop or connection is handed what it did not register for.
THEOREM ComposedIsolation == RSpec => []Isolation
  <1>1. Base => Isolation
    BY DEF Base, SafeInv
  <1>2. QED
    BY <1>1, BaseCorrect, PTL

-----------------------------------------------------------------------------
(* What is known of the loops and of the updates.                          *)

\* A loop reads the channel it registered, of its router, name and role; only
\* the channel of a pub may be closed, which nobody reads.
LoopsKnown ==
  \A r \in Routers, o \in Roles, n \in Names :
    LET c == loop[r][o][n] IN
      c # NoChan => /\ c \in Chans \ NetChans
                    /\ Home[c] = r
                    /\ sub[c] = [type |-> TypeOf[o], name |-> n, tx |-> c]
                    /\ o # "pub" => c \in open

\* A channel has the update that its owner offered.
SubsKnown ==
  \A c \in Chans : sub[c] # NoUpdate => sub[c] \in Offers \cup Ready /\ sub[c].tx = c

Known == LoopsKnown /\ SubsKnown

LEMMA KnownInit == RInit => Known
  <1> SUFFICES ASSUME RInit PROVE Known
    OBVIOUS
  <1>1. \A c : IsReady(c) => /\ ReadyOf(c) \in Ready
                             /\ ReadyOf(c).tx = c
                             /\ ReadyOf(c) = [type |-> ReadyOf(c).type,
                                              name |-> ReadyOf(c).name, tx |-> c]
    <2> SUFFICES ASSUME NEW c, IsReady(c)
                 PROVE  /\ ReadyOf(c) \in Ready
                        /\ ReadyOf(c).tx = c
                        /\ ReadyOf(c) = [type |-> ReadyOf(c).type,
                                         name |-> ReadyOf(c).name, tx |-> c]
      OBVIOUS
    <2>1. ReadyOf(c) \in Ready /\ ReadyOf(c).tx = c
      BY DEF IsReady, ReadyOf
    <2>2. ReadyOf(c) \in Update
      BY <2>1, RosAssumption
    <2>3. QED
      BY <2>1, <2>2 DEF Update
  <1>2. SubsKnown
    BY <1>1 DEF RInit, SubsKnown
  <1>3. LoopsKnown
    <2> SUFFICES ASSUME NEW r \in Routers, NEW o \in Roles, NEW n \in Names,
                        loop[r][o][n] # NoChan
                 PROVE  LET c == loop[r][o][n] IN
                          /\ c \in Chans \ NetChans
                          /\ Home[c] = r
                          /\ sub[c] = [type |-> TypeOf[o], name |-> n, tx |-> c]
                          /\ c \in open
      BY DEF LoopsKnown
    <2> DEFINE IsLoop(c) == /\ IsReady(c)
                            /\ Home[c] = r
                            /\ ReadyOf(c).type = TypeOf[o]
                            /\ ReadyOf(c).name = n
               c == loop[r][o][n]
    <2>1. c = IF \E d \in Chans \ NetChans : IsLoop(d)
              THEN CHOOSE d \in Chans \ NetChans : IsLoop(d) ELSE NoChan
      BY DEF RInit
    <2>2. c \in Chans \ NetChans /\ IsLoop(c)
      BY <2>1
    <2>3. sub[c] = ReadyOf(c) /\ c \in open
      BY <2>2 DEF RInit
    <2>4. QED
      BY <1>1, <2>2, <2>3
  <1>4. QED
    BY <1>2, <1>3 DEF Known

\* A new update leaves what is known as it is.
LEMMA AnnounceKnown ==
  ASSUME Base, Known, NEW u \in Offers, NEW kept, Announce(u, kept)
  PROVE  /\ SubsKnown'
         /\ u \in Update /\ u.tx \in Chans /\ u.name \in Names
         /\ \A c \in Chans : sub[c] # NoUpdate => c # u.tx /\ sub'[c] = sub[c]
         /\ open \subseteq open'
  <1>1. /\ u \in Update /\ u.tx \in Chans /\ u.name \in Names
        /\ sub[u.tx] = NoUpdate /\ sub' = [sub EXCEPT ![u.tx] = u]
        /\ open \subseteq open'
    BY InputAssumption DEF Announce, Update
  <1>2. \A c \in Chans : sub[c] # NoUpdate => c # u.tx /\ sub'[c] = sub[c]
    BY <1>1 DEF Base, RTypeOK, TypeOK
  <1>3. sub'[u.tx] = u
    BY <1>1 DEF Base, RTypeOK, TypeOK
  <1>4. \A c \in Chans : sub'[c] = IF c = u.tx THEN u ELSE sub[c]
    BY <1>1 DEF Base, RTypeOK, TypeOK
  <1>5. SubsKnown'
    BY <1>4 DEF Known, SubsKnown
  <1>6. QED
    BY <1>1, <1>2, <1>5

LEMMA KnownStep == Base /\ Known /\ [RNext]_vars => Known'
  <1> SUFFICES ASSUME Base, Known, [RNext]_vars PROVE Known'
    OBVIOUS
  <1>1. \A r \in Routers, o \in Roles, n \in Names :
          LET c == loop[r][o][n] IN c # NoChan => sub[c] # NoUpdate
    <2> SUFFICES ASSUME NEW r \in Routers, NEW o \in Roles, NEW n \in Names,
                        loop[r][o][n] # NoChan
                 PROVE  sub[loop[r][o][n]] # NoUpdate
      OBVIOUS
    <2>1. TypeOf[o] \in ConnTypes
      BY DEF TypeOf, Roles, ConnTypes, ReceiverTypes, SenderTypes
    <2>2. /\ loop[r][o][n] \in Chans
          /\ sub[loop[r][o][n]] = [type |-> TypeOf[o], name |-> n, tx |-> loop[r][o][n]]
      BY DEF Known, LoopsKnown
    <2>3. [type |-> TypeOf[o], name |-> n, tx |-> loop[r][o][n]] \in Update
      BY <2>1, <2>2 DEF Update
    <2>4. QED
      BY <2>2, <2>3, InputAssumption
  <1>2. ASSUME UNCHANGED <<sub, loop>>, NEW c \in NetChans, open \ {c} \subseteq open'
        PROVE  Known'
    BY <1>2 DEF Known, LoopsKnown, SubsKnown
  <1>3. ASSUME UNCHANGED <<sub, loop>>, open \subseteq open'
        PROVE  Known'
    BY <1>3 DEF Known, LoopsKnown, SubsKnown
  <1>4. ASSUME NEW r \in Routers, FibStep(r)
        PROVE  Known'
    BY <1>3, <1>4 DEF FibStep, Step, HandlePacket, HandleUpdate, DropProcessed,
       HandleForward, HandleRequest, ResponsePanics, DropAnswered, HandleResponse,
       HandleUnknown, HandleVars, rosVars
  <1>5. ASSUME NEW u \in Offers, Connect(u)
        PROVE  Known'
    <2>1. Announce(u, TRUE) /\ UNCHANGED loop
      BY <1>5 DEF Connect
    <2>2. /\ SubsKnown' /\ open \subseteq open'
          /\ \A c \in Chans : sub[c] # NoUpdate => sub'[c] = sub[c]
      BY <2>1, AnnounceKnown
    <2>3. LoopsKnown'
      BY <1>1, <2>1, <2>2 DEF Known, LoopsKnown
    <2>4. QED
      BY <2>2, <2>3 DEF Known
  <1>6. ASSUME NEW c \in NetChans, Break(c) \/ Hangup(c) \/ Transfer(c)
        PROVE  Known'
    BY <1>2, <1>6 DEF Break, Hangup, Transfer, Close, Enqueue, fibVars, rosVars
  <1>7. ASSUME NEW u \in Offers, NEW o \in Roles, u.type = TypeOf[o],
               AddTopic(u.tx, o, u.name)
        PROVE  Known'
    <2> DEFINE r == Home[u.tx]
               first == loop[r][o][u.name] = NoChan
    <2>1. /\ u = [type |-> TypeOf[o], name |-> u.name, tx |-> u.tx]
          /\ u.tx \in Chans /\ u.name \in Names /\ r \in Routers
      BY <1>7, InputAssumption, FibAssumption DEF Update
    <2>2. /\ Announce(u, first /\ o # "pub")
          /\ u.tx \notin NetChans
          /\ loop' = IF first THEN [loop EXCEPT ![r][o][u.name] = u.tx] ELSE loop
      BY <1>7, <2>1 DEF AddTopic
    <2>3. /\ SubsKnown' /\ open \subseteq open'
          /\ \A c \in Chans : sub[c] # NoUpdate => c # u.tx /\ sub'[c] = sub[c]
      BY <2>2, AnnounceKnown
    <2>4. sub'[u.tx] = u
      BY <2>1, <2>2 DEF Announce, Base, RTypeOK, TypeOK
    <2>5. first /\ o # "pub" => u.tx \in open'
      BY <2>2 DEF Announce
    <2>6. LoopsKnown'
      <3> SUFFICES ASSUME NEW q \in Routers, NEW p \in Roles, NEW n \in Names,
                          loop'[q][p][n] # NoChan
                   PROVE  LET c == loop'[q][p][n] IN
                            /\ c \in Chans \ NetChans
                            /\ Home[c] = q
                            /\ sub'[c] = [type |-> TypeOf[p], name |-> n, tx |-> c]
                            /\ p # "pub" => c \in open'
        BY DEF LoopsKnown
      <3>1. CASE loop'[q][p][n] = loop[q][p][n]
        BY <1>1, <2>3, <3>1 DEF Known, LoopsKnown
      <3>2. CASE loop'[q][p][n] # loop[q][p][n]
        <4>1. loop \in [Routers -> [Roles -> [Names -> Chans \cup {NoChan}]]]
          BY DEF Base, RTypeOK
        <4>2. first /\ q = r /\ p = o /\ n = u.name /\ loop'[q][p][n] = u.tx
          BY <2>1, <2>2, <3>2, <4>1
        <4>3. QED
          BY <2>1, <2>2, <2>4, <2>5, <4>2
      <3>3. QED
        BY <3>1, <3>2
    <2>7. QED
      BY <2>3, <2>6 DEF Known
  <1>8. ASSUME NEW r \in Routers, NEW n \in Names, NEW g \in Guids,
               PublishMessage(r, n, g) \/ AskService(r, n, g)
        PROVE  Known'
    BY <1>3, <1>8 DEF PublishMessage, AskService, Enqueue
  <1>9. ASSUME NEW r \in Routers, NEW n \in Names,
               DeliverMessage(r, n) \/ GetResponse(r, n) \/ CallTimeout(r, n)
                 \/ CallService(r, n) \/ SendResponse(r, n)
        PROVE  Known'
    BY <1>3, <1>9 DEF DeliverMessage, GetResponse, CallTimeout, CallService,
       SendResponse, Enqueue, fibVars
  <1>10. ASSUME NEW r \in Routers, RestartRouter(r)
         PROVE  Known'
    <2>1. /\ UNCHANGED sub /\ open' = {c \in open : Home[c] # r}
          /\ loop' = [loop EXCEPT ![r] = [o \in Roles |-> [n \in Names |-> NoChan]]]
      BY <1>10 DEF RestartRouter, Restart
    <2>2. \A q \in Routers : q # r => loop'[q] = loop[q]
      BY <2>1 DEF Base, RTypeOK
    <2>3. \A o \in Roles, n \in Names : loop'[r][o][n] = NoChan
      BY <2>1 DEF Base, RTypeOK
    <2>4. LoopsKnown'
      BY <2>1, <2>2, <2>3 DEF Known, LoopsKnown
    <2>5. QED
      BY <2>1, <2>4 DEF Known, SubsKnown
  <1>11. CASE UNCHANGED vars
    BY <1>3, <1>11 DEF vars, fibVars, rosVars
  <1>12. QED
    BY <1>4, <1>5, <1>6, <1>7, <1>8, <1>9, <1>10, <1>11 DEF RNext

-----------------------------------------------------------------------------
(* A message is published once at every router that does not restart, and  *)
(* at every router when no router hands a topic on that it was brought.    *)

IsForward(p, g) == p.action = "Forward" /\ p.guid = g

\* The messages that are in a queue or went over a channel.
Forwards ==
  {p \in Packet : /\ p.action = "Forward"
                  /\ \/ \E r \in Routers : \E i \in 1..Len(fibQueue[r]) : fibQueue[r][i] = p
                     \/ \E c \in Chans : \E i \in 1..Len(out[c]) : out[c][i] = p}

\* A guid names one message, and a fresh guid none.
OneMessage ==
  /\ \A p, q \in Forwards : p.guid = q.guid => p = q
  /\ \A p \in Forwards : p.guid \notin fresh

TopicCarried ==
  \A r \in Routers : \A i \in 1..Len(topic[r]) :
    \E c \in Chans : Carries(c, "Forward", topic[r][i])

\* The connections that topics take from router to router, and the routers to
\* which none of them brings topic n.
Links == {u \in Offers \cup Ready : u.tx \in NetChans /\ u.type = "RECEIVER"}

Source(r, n) == \A u \in Links : u.name = n => Peer[u.tx] # r

NoRelays == \A u \in Links : Source(Home[u.tx], u.name)

\* What waits at a source is the only copy, and went nowhere.
AtSource ==
  \A q \in Routers : \A i \in 1..Len(fibQueue[q]) :
    LET p == fibQueue[q][i] IN
      p.action = "Forward" /\ Source(q, p.name) =>
        /\ \A c \in Chans : ~Carries(c, "Forward", p.guid)
        /\ \A r \in Routers : \A j \in 1..Len(fibQueue[r]) :
             IsForward(fibQueue[r][j], p.guid) => r = q /\ j = i

\* No copy of message g is on its way to router s or waits there.
Gone(s, g) ==
  /\ \A j \in 1..Len(fibQueue[s]) : ~IsForward(fibQueue[s][j], g)
  /\ \A c \in up : Peer[c] = s =>
       \A j \in (rd[c] + 1)..Len(out[c]) : ~IsForward(out[c][j], g)

\* What a router published is marked, or no more of it comes.
Settled(s) ==
  \A i \in 1..Len(topic[s]) :
    \/ topic[s][i] \in processed[s]
    \/ NoRelays /\ Gone(s, topic[s][i])

\* What a loop has not read yet its router has not published.
Unheard(s) ==
  \A n \in Names :
    LET c == loop[s]["sub"][n] IN
      c # NoChan => \A i \in (rd[c] + 1)..Len(out[c]), j \in 1..Len(topic[s]) :
                      ~IsForward(out[c][i], topic[s][j])

Lasting(s) == NoRelays \/ s \notin Crashing

TopicInv ==
  /\ OneMessage /\ TopicCarried /\ AtSource
  /\ \A s \in Routers : Lasting(s) => Settled(s) /\ Unheard(s) /\ OnceAt(s)

TInv == Base /\ Known /\ TopicInv

LEMMA TopicInvInit == RInit => TopicInv
  <1> SUFFICES ASSUME RInit PROVE TopicInv
    OBVIOUS
  <1>1. /\ \A r \in Routers : Len(fibQueue[r]) = 0 /\ Len(topic[r]) = 0
        /\ \A c \in Chans : Len(out[c]) = 0
    BY DEF RInit
  <1>2. Forwards = {}
    BY <1>1 DEF Forwards
  <1>3. QED
    BY <1>1, <1>2
    DEF TopicInv, OneMessage, TopicCarried, AtSource, Settled, Unheard, OnceAt

\* The queues lose packets at their heads, or get others than messages.
Shifted ==
  \A q \in Routers : \E d \in {0, 1} : \A i \in 1..Len(fibQueue'[q]) :
    fibQueue'[q][i].action = "Forward" =>
      i + d \in 1..Len(fibQueue[q]) /\ fibQueue'[q][i] = fibQueue[q][i + d]

\* Connections and loops are ones there were, or start with nothing to read.
Fewer ==
  /\ \A c \in up' : c \in up \/ (c \in Chans /\ out[c] = <<>>)
  /\ \A r \in Routers, n \in Names :
       LET c == loop'[r]["sub"][n] IN
         \/ c \in {loop[r]["sub"][n], NoChan}
         \/ c \in Chans /\ out[c] = <<>>

\* A router forgets what it has processed only with its queue and connections.
Remembers ==
  \A r \in Routers :
    \/ processed[r] \subseteq processed'[r]
    \/ /\ r \in Crashing
       /\ Len(fibQueue'[r]) = 0
       /\ \A c \in up' : Peer[c] # r

\* A step that sends and shows nothing: the copies of a message get fewer.
LEMMA QuietTopic ==
  ASSUME TInv, RTypeOK', UNCHANGED <<out, topic>>, fresh' \subseteq fresh,
         Shifted, Fewer, Remembers, \A c \in Chans : rd[c] <= rd'[c]
  PROVE  TopicInv'
  <1>1. /\ \A q \in Routers : Len(fibQueue[q]) \in Nat /\ Len(fibQueue'[q]) \in Nat
        /\ \A c \in Chans : Len(out[c]) \in Nat /\ rd[c] \in Nat /\ rd'[c] \in Nat
    BY LenProperties DEF TInv, Base, RTypeOK, TypeOK
  <1>2. ASSUME NEW q \in Routers, NEW i \in 1..Len(fibQueue'[q]),
               fibQueue'[q][i].action = "Forward"
        PROVE  \E k \in 1..Len(fibQueue[q]) : fibQueue'[q][i] = fibQueue[q][k]
    BY <1>2 DEF Shifted
  <1>3. Forwards' \subseteq Forwards
    BY <1>2 DEF Forwards
  <1>4. OneMessage'
    BY <1>3 DEF TInv, TopicInv, OneMessage
  <1>5. TopicCarried'
    BY DEF TInv, TopicInv, TopicCarried, Carries
  <1>6. AtSource'
    <2> SUFFICES ASSUME NEW q \in Routers, NEW i \in 1..Len(fibQueue'[q]),
                        fibQueue'[q][i].action = "Forward",
                        Source(q, fibQueue'[q][i].name)
                 PROVE  LET p == fibQueue'[q][i] IN
                          /\ \A c \in Chans : ~Carries(c, "Forward", p.guid)
                          /\ \A r \in Routers : \A j \in 1..Len(fibQueue'[r]) :
                               IsForward(fibQueue'[r][j], p.guid) => r = q /\ j = i
      BY DEF AtSource, Carries
    <2>1. PICK d \in {0, 1} : \A k \in 1..Len(fibQueue'[q]) :
            fibQueue'[q][k].action = "Forward" =>
              k + d \in 1..Len(fibQueue[q]) /\ fibQueue'[q][k] = fibQueue[q][k + d]
      BY DEF Shifted
    <2>2. /\ i + d \in 1..Len(fibQueue[q]) /\ fibQueue'[q][i] = fibQueue[q][i + d]
      BY <2>1
    <2> DEFINE p == fibQueue'[q][i]
    <2>3. /\ \A c \in Chans : ~Carries(c, "Forward", p.guid)
          /\ \A r \in Routers : \A j \in 1..Len(fibQueue[r]) :
               IsForward(fibQueue[r][j], p.guid) => r = q /\ j = i + d
      BY <2>2 DEF TInv, TopicInv, AtSource
    <2>4. ASSUME NEW r \in Routers, NEW j \in 1..Len(fibQueue'[r]),
                 IsForward(fibQueue'[r][j], p.guid)
          PROVE  r = q /\ j = i
      <3>1. PICK e \in {0, 1} : \A k \in 1..Len(fibQueue'[r]) :
              fibQueue'[r][k].action = "Forward" =>
                k + e \in 1..Len(fibQueue[r]) /\ fibQueue'[r][k] = fibQueue[r][k + e]
        BY DEF Shifted
      <3>2. j + e \in 1..Len(fibQueue[r]) /\ IsForward(fibQueue[r][j + e], p.guid)
        BY <2>4, <3>1 DEF IsForward
      <3>3. r = q
        BY <2>3, <3>2
      <3>4. j + d \in 1..Len(fibQueue[q]) /\ fibQueue'[q][j] = fibQueue[q][j + d]
        BY <2>1, <2>4, <3>3 DEF IsForward
      <3>5. IsForward(fibQueue[q][j + d], p.guid)
        BY <2>4, <3>3, <3>4
      <3>6. j + d = i + d
        BY <2>3, <3>4, <3>5
      <3>7. QED
        BY <3>3, <3>6
    <2>5. QED
      BY <2>3, <2>4
  <1>7. ASSUME NEW s \in Routers, Lasting(s)
        PROVE  (Settled(s) /\ Unheard(s) /\ OnceAt(s))'
    <2>1. Settled(s) /\ Unheard(s) /\ OnceAt(s)
      BY <1>7 DEF TInv, TopicInv
    <2>2. OnceAt(s)'
      BY <2>1 DEF OnceAt
    <2>3. Unheard(s)'
      <3> SUFFICES ASSUME NEW n \in Names, loop'[s]["sub"][n] # NoChan,
                          NEW i \in (rd'[loop'[s]["sub"][n]] + 1)..Len(out[loop'[s]["sub"][n]]),
                          NEW j \in 1..Len(topic[s])
                   PROVE  ~IsForward(out[loop'[s]["sub"][n]][i], topic[s][j])
        BY DEF Unheard
      <3>1. loop'[s]["sub"][n] \in Chans
        BY DEF RTypeOK, Roles
      <3>2. loop'[s]["sub"][n] = loop[s]["sub"][n] \/ out[loop'[s]["sub"][n]] = <<>>
        BY DEF Fewer
      <3>3. out[loop'[s]["sub"][n]] # <<>>
        BY <1>1, <3>1
      <3>4. i \in (rd[loop'[s]["sub"][n]] + 1)..Len(out[loop'[s]["sub"][n]])
        BY <1>1, <3>1
      <3>5. QED
        BY <2>1, <3>2, <3>3, <3>4 DEF Unheard
    <2>4. ASSUME NEW g, Gone(s, g) PROVE Gone(s, g)'
      <3>1. \A j \in 1..Len(fibQueue'[s]) : ~IsForward(fibQueue'[s][j], g)
        BY <1>2, <2>4 DEF Gone, IsForward
      <3>2. ASSUME NEW c \in up', Peer[c] = s, NEW j \in (rd'[c] + 1)..Len(out[c])
            PROVE  ~IsForward(out[c][j], g)
        <4>1. c \in Chans
          BY RosAssumption DEF RTypeOK
        <4>2. out[c] # <<>> /\ j \in (rd[c] + 1)..Len(out[c])
          BY <1>1, <3>2, <4>1
        <4>3. c \in up
          BY <4>2 DEF Fewer
        <4>4. QED
          BY <2>4, <3>2, <4>2, <4>3 DEF Gone
      <3>3. QED
        BY <3>1, <3>2 DEF Gone
    <2>5. Settled(s)'
      <3> SUFFICES ASSUME NEW i \in 1..Len(topic[s])
                   PROVE  topic[s][i] \in processed'[s] \/ (NoRelays /\ Gone(s, topic[s][i])')
        BY DEF Settled, Gone
      <3>1. CASE processed[s] \subseteq processed'[s]
        BY <2>1, <2>4, <3>1 DEF Settled
      <3>2. CASE ~(processed[s] \subseteq processed'[s])
        <4>1. s \in Crashing /\ Len(fibQueue'[s]) = 0 /\ \A c \in up' : Peer[c] # s
          BY <3>2 DEF Remembers
        <4>2. NoRelays
          BY <1>7, <4>1 DEF Lasting
        <4>3. QED
          BY <4>1, <4>2 DEF Gone
      <3>3. QED
        BY <3>1, <3>2
    <2>6. QED
      BY <2>2, <2>3, <2>5
  <1>8. QED
    BY <1>4, <1>5, <1>6, <1>7 DEF TopicInv, Lasting, NoRelays, Source, Links

\* The FIB task takes a packet and sends it on.
LEMMA HandleTopic ==
  ASSUME TInv, RTypeOK', NEW r \in Routers, NEW cs, Handles(r, cs),
         pkt(r) \in Packet, UNCHANGED rosVars
  PROVE  TopicInv'
  <1> DEFINE p == pkt(r)
             d(q) == IF q = r THEN 1 ELSE 0
  <1>1. /\ \A q \in Routers : fibQueue[q] \in Seq(Packet) /\ Len(fibQueue[q]) \in Nat
        /\ \A c \in Chans : Len(out[c]) \in Nat /\ rd[c] \in Nat /\ rd[c] <= Len(out[c])
        /\ out \in [Chans -> Seq(Packet)]
    BY LenProperties DEF TInv, Base, RTypeOK, TypeOK
  <1>2. /\ fibQueue[r] # <<>> /\ p = fibQueue[r][1] /\ 1 \in 1..Len(fibQueue[r])
        /\ fibQueue' = [fibQueue EXCEPT ![r] = Tail(@)]
    BY <1>1, HeadTailProperties DEF Handles, Take, pkt
  <1>3. \A q \in Routers : \A i \in 1..Len(fibQueue'[q]) :
          i + d(q) \in 1..Len(fibQueue[q]) /\ fibQueue'[q][i] = fibQueue[q][i + d(q)]
    <2> SUFFICES ASSUME NEW q \in Routers, NEW i \in 1..Len(fibQueue'[q])
                 PROVE  i + d(q) \in 1..Len(fibQueue[q]) /\ fibQueue'[q][i] = fibQueue[q][i + d(q)]
      OBVIOUS
    <2>1. CASE q = r
      <3>1. fibQueue'[q] = Tail(fibQueue[r])
        BY <1>2, <2>1 DEF TInv, Base, RTypeOK, TypeOK
      <3>2. /\ Len(Tail(fibQueue[r])) = Len(fibQueue[r]) - 1
            /\ \A k \in 1..Len(Tail(fibQueue[r])) : Tail(fibQueue[r])[k] = fibQueue[r][k + 1]
        BY <1>1, <1>2, HeadTailProperties
      <3>3. QED
        BY <1>1, <2>1, <3>1, <3>2
    <2>2. CASE q # r
      <3>1. fibQueue'[q] = fibQueue[q]
        BY <1>2, <2>2 DEF TInv, Base, RTypeOK, TypeOK
      <3>2. QED
        BY <1>1, <2>2, <3>1
    <2>3. QED
      BY <2>1, <2>2
  <1> HIDE DEF p
  <1>4. SendTo(cs, p)
    BY DEF Handles, p
  <1>5. \A c \in Chans :
          \/ out'[c] = out[c]
          \/ /\ c \in cs \cap open
             /\ Len(out'[c]) = Len(out[c]) + 1
             /\ out'[c][Len(out[c]) + 1] = p
             /\ \A i \in 1..Len(out[c]) : out'[c][i] = out[c][i]
    BY <1>1, <1>4, SendToEffect DEF p
  <1>6. ASSUME NEW c \in Chans, NEW i \in 1..Len(out'[c])
        PROVE  \/ i \in 1..Len(out[c]) /\ out'[c][i] = out[c][i]
               \/ i = Len(out[c]) + 1 /\ out'[c][i] = p /\ c \in cs
    BY <1>1, <1>5
  <1>7. \A c \in Chans : /\ Len(out'[c]) \in Nat
                         /\ Len(out[c]) <= Len(out'[c])
                         /\ \A i \in 1..Len(out[c]) : out'[c][i] = out[c][i]
    BY <1>1, <1>5
  <1>8. /\ \A q \in Routers : processed[q] \subseteq processed'[q]
        /\ cs # {} => p.guid \notin processed[r]
        /\ \A c \in cs : /\ c \in Chans
                         /\ Home[c] = r
                         /\ sub[c] = [type |-> TypeFor[p.action], name |-> p.name, tx |-> c]
    BY DEF Handles, p
  <1>9. UNCHANGED <<loop, up, rd, topic, fresh>>
    BY DEF rosVars
  <1>10. Forwards' \subseteq Forwards
    <2> SUFFICES ASSUME NEW x \in Packet, x.action = "Forward",
                        \/ \E q \in Routers : \E i \in 1..Len(fibQueue'[q]) : fibQueue'[q][i] = x
                        \/ \E c \in Chans : \E i \in 1..Len(out'[c]) : out'[c][i] = x
                 PROVE  x \in Forwards
      BY DEF Forwards
    <2>1. CASE \E q \in Routers : \E i \in 1..Len(fibQueue'[q]) : fibQueue'[q][i] = x
      BY <1>3, <2>1 DEF Forwards
    <2>2. CASE \E c \in Chans : \E i \in 1..Len(out'[c]) : out'[c][i] = x
      BY <1>2, <1>6, <2>2 DEF Forwards
    <2>3. QED
      BY <2>1, <2>2
  <1>11. OneMessage'
    BY <1>9, <1>10 DEF TInv, TopicInv, OneMessage
  <1>12. \A c \in Chans : \A g : Carries(c, "Forward", g) => Carries(c, "Forward", g)'
    BY <1>1, <1>7 DEF Carries
  <1>13. TopicCarried'
    BY <1>9, <1>12 DEF TInv, TopicInv, TopicCarried
  <1>14. AtSource'
    <2> SUFFICES ASSUME NEW q \in Routers, NEW i \in 1..Len(fibQueue'[q]),
                        fibQueue'[q][i].action = "Forward",
                        Source(q, fibQueue'[q][i].name)
                 PROVE  LET x == fibQueue'[q][i] IN
                          /\ \A c \in Chans : \A k \in 1..Len(out'[c]) :
                               ~IsForward(out'[c][k], x.guid)
                          /\ \A s \in Routers : \A j \in 1..Len(fibQueue'[s]) :
                               IsForward(fibQueue'[s][j], x.guid) => s = q /\ j = i
      BY DEF AtSource, Source, Links, Carries, IsForward
    <2> DEFINE x == fibQueue'[q][i]
    <2>1. i + d(q) \in 1..Len(fibQueue[q]) /\ x = fibQueue[q][i + d(q)]
      BY <1>3
    <2>2. /\ \A c \in Chans : ~Carries(c, "Forward", x.guid)
          /\ \A s \in Routers : \A j \in 1..Len(fibQueue[s]) :
               IsForward(fibQueue[s][j], x.guid) => s = q /\ j = i + d(q)
      BY <2>1 DEF TInv, TopicInv, AtSource
    <2>3. ~IsForward(p, x.guid)
      <3> SUFFICES ASSUME IsForward(p, x.guid) PROVE FALSE
        OBVIOUS
      <3>1. r = q /\ 1 = i + d(q)
        BY <1>2, <2>2
      <3>2. QED
        BY <3>1
    <2> HIDE DEF x
    <2>4. \A c \in Chans : \A k \in 1..Len(out'[c]) : ~IsForward(out'[c][k], x.guid)
      <3> SUFFICES ASSUME NEW c \in Chans, NEW k \in 1..Len(out'[c]),
                          IsForward(out'[c][k], x.guid)
                   PROVE  FALSE
        OBVIOUS
      <3>1. k \in 1..Len(out[c]) /\ out'[c][k] = out[c][k]
        BY <1>6, <2>3
      <3>2. QED
        BY <2>2, <3>1 DEF Carries, IsForward
    <2>5. \A s \in Routers : \A j \in 1..Len(fibQueue'[s]) :
            IsForward(fibQueue'[s][j], x.guid) => s = q /\ j = i
      <3> SUFFICES ASSUME NEW s \in Routers, NEW j \in 1..Len(fibQueue'[s]),
                          IsForward(fibQueue'[s][j], x.guid)
                   PROVE  s = q /\ j = i
        OBVIOUS
      <3>1. j + d(s) \in 1..Len(fibQueue[s]) /\ IsForward(fibQueue[s][j + d(s)], x.guid)
        BY <1>3
      <3>2. s = q /\ j + d(s) = i + d(q)
        BY <2>2, <3>1
      <3>3. QED
        BY <3>2
    <2>6. QED
      BY <2>4, <2>5 DEF x
  <1>15. ASSUME NEW s \in Routers, Lasting(s)
         PROVE  (Settled(s) /\ Unheard(s) /\ OnceAt(s))'
    <2>1. Settled(s) /\ Unheard(s) /\ OnceAt(s)
      BY <1>15 DEF TInv, TopicInv
    <2>2. OnceAt(s)'
      BY <1>9, <2>1 DEF OnceAt
    <2>3. Unheard(s)'
      <3> SUFFICES ASSUME NEW n \in Names, loop[s]["sub"][n] # NoChan,
                          NEW i \in (rd[loop[s]["sub"][n]] + 1)..Len(out'[loop[s]["sub"][n]]),
                          NEW j \in 1..Len(topic[s]),
                          IsForward(out'[loop[s]["sub"][n]][i], topic[s][j])
                   PROVE  FALSE
        BY <1>9 DEF Unheard
      <3> DEFINE c == loop[s]["sub"][n]
      <3>1. c \in Chans /\ Home[c] = s
        BY DEF TInv, Known, LoopsKnown, Roles
      <3> HIDE DEF c
      <3>2. i \in 1..Len(out'[c]) /\ i \in Nat /\ rd[c] + 1 <= i
        BY <1>1, <1>7, <3>1 DEF c
      <3>3. CASE i \in 1..Len(out[c]) /\ out'[c][i] = out[c][i]
        <4>1. i \in (rd[c] + 1)..Len(out[c])
          BY <1>1, <3>1, <3>2, <3>3
        <4>2. QED
          BY <2>1, <3>3, <4>1 DEF Unheard, c
      <3>4. CASE i = Len(out[c]) + 1 /\ out'[c][i] = p /\ c \in cs
        <4>1. r = s /\ p.guid \notin processed[r] /\ IsForward(p, topic[s][j])
          BY <1>8, <3>1, <3>4 DEF c
        <4>2. p.guid = topic[s][j]
          BY <4>1 DEF IsForward
        <4>3. Gone(s, topic[s][j])
          BY <2>1, <4>1, <4>2 DEF Settled
        <4>4. QED
          BY <1>2, <4>1, <4>3 DEF Gone
      <3>5. QED
        BY <1>6, <3>1, <3>2, <3>3, <3>4
    <2>4. ASSUME NEW k \in 1..Len(topic[s]), NoRelays, Gone(s, topic[s][k])
          PROVE  Gone(s, topic[s][k])'
      <3> DEFINE g == topic[s][k]
      <3>1. \A j \in 1..Len(fibQueue'[s]) : ~IsForward(fibQueue'[s][j], g)
        BY <1>3, <2>4 DEF Gone
      <3>2. PICK e \in Chans : Carries(e, "Forward", g)
        BY DEF TInv, TopicInv, TopicCarried
      <3>3. ASSUME NEW c \in up, Peer[c] = s, NEW j \in (rd[c] + 1)..Len(out'[c]),
                   IsForward(out'[c][j], g)
            PROVE  FALSE
        <4>1. c \in Chans /\ c \in NetChans
          BY RosAssumption DEF TInv, Base, RTypeOK
        <4>2. j \in 1..Len(out'[c]) /\ j \in Nat /\ rd[c] + 1 <= j
          BY <1>1, <1>7, <4>1
        <4>3. CASE j \in 1..Len(out[c]) /\ out'[c][j] = out[c][j]
          <5>1. j \in (rd[c] + 1)..Len(out[c])
            BY <1>1, <4>1, <4>2, <4>3
          <5>2. QED
            BY <2>4, <3>3, <4>3, <5>1 DEF Gone
        <4>4. CASE j = Len(out[c]) + 1 /\ out'[c][j] = p /\ c \in cs
          <5>1. IsForward(p, g)
            BY <3>3, <4>4
          <5>2. /\ Home[c] = r /\ p.action = "Forward" /\ p.guid = g
                /\ sub[c] = [type |-> "RECEIVER", name |-> p.name, tx |-> c]
            BY <1>8, <4>4, <5>1 DEF IsForward, TypeFor, Actions
          <5>3. p.name \in Names
            BY DEF Packet, p
          <5>4. sub[c] \in Update
            BY <4>1, <5>2, <5>3 DEF Update, ConnTypes, ReceiverTypes
          <5>5. sub[c] \in Links
            BY <4>1, <5>2, <5>4, InputAssumption DEF TInv, Known, SubsKnown, Links
          <5>6. Source(r, p.name)
            BY <2>4, <5>2, <5>5 DEF NoRelays
          <5>7. ~Carries(e, "Forward", p.guid)
            BY <1>2, <5>2, <5>6 DEF TInv, TopicInv, AtSource
          <5>8. QED
            BY <3>2, <5>2, <5>7
        <4>5. QED
          BY <1>6, <4>1, <4>2, <4>3, <4>4
      <3>4. QED
        BY <1>9, <3>1, <3>3 DEF Gone
    <2>5. Settled(s)'
      <3> SUFFICES ASSUME NEW k \in 1..Len(topic[s])
                   PROVE  topic[s][k] \in processed'[s] \/ (NoRelays /\ Gone(s, topic[s][k])')
        BY <1>9 DEF Settled, Gone, NoRelays, Source, Links
      <3>1. QED
        BY <1>8, <2>1, <2>4 DEF Settled
    <2>6. QED
      BY <2>2, <2>3, <2>5
  <1>16. QED
    BY <1>11, <1>13, <1>14, <1>15 DEF TopicInv, Lasting, NoRelays, Source, Links

\* A packet that is handed over comes last in the queue.
LEMMA HandsEffect ==
  ASSUME RTypeOK, NEW r \in Routers, NEW p \in Packet, Hands(r, p)
  PROVE  /\ \A q \in Routers : \A i \in 1..Len(fibQueue'[q]) :
              \/ i \in 1..Len(fibQueue[q]) /\ fibQueue'[q][i] = fibQueue[q][i]
              \/ q = r /\ i = Len(fibQueue[r]) + 1 /\ fibQueue'[q][i] = p
         /\ UNCHANGED <<chanQueue, table, processed, requested, bindings, out, open, sub>>
  <1>1. /\ \A q \in Routers : fibQueue[q] \in Seq(Packet) /\ Len(fibQueue[q]) \in Nat
        /\ fibQueue' = [fibQueue EXCEPT ![r] = Append(@, p)]
    BY LenProperties DEF RTypeOK, TypeOK, Hands, Enqueue
  <1>2. \A q \in Routers : fibQueue'[q] = IF q = r THEN Append(fibQueue[r], p) ELSE fibQueue[q]
    BY <1>1 DEF RTypeOK, TypeOK
  <1>3. /\ Len(Append(fibQueue[r], p)) = Len(fibQueue[r]) + 1
        /\ Append(fibQueue[r], p)[Len(fibQueue[r]) + 1] = p
        /\ \A i \in 1..Len(fibQueue[r]) : Append(fibQueue[r], p)[i] = fibQueue[r][i]
    BY <1>1, AppendProperties
  <1>4. QED
    BY <1>1, <1>2, <1>3 DEF Hands, Enqueue

\* Requests and responses are no messages.
LEMMA HandsQuiet ==
  ASSUME TInv, RTypeOK', NEW r \in Routers, NEW p \in Packet, Hands(r, p),
         p.action # "Forward", fresh' \subseteq fresh,
         UNCHANGED <<loop, up, topic>>, \A c \in Chans : rd[c] <= rd'[c]
  PROVE  TopicInv'
  <1>1. /\ \A q \in Routers : \A i \in 1..Len(fibQueue'[q]) :
              \/ i \in 1..Len(fibQueue[q]) /\ fibQueue'[q][i] = fibQueue[q][i]
              \/ q = r /\ i = Len(fibQueue[r]) + 1 /\ fibQueue'[q][i] = p
        /\ UNCHANGED <<out, processed>>
    BY HandsEffect DEF TInv, Base
  <1>2. \A q \in Routers : \A i \in 1..Len(fibQueue'[q]) :
          fibQueue'[q][i].action = "Forward" =>
            i + 0 \in 1..Len(fibQueue[q]) /\ fibQueue'[q][i] = fibQueue[q][i + 0]
    BY <1>1
  <1>3. Shifted
    BY <1>2 DEF Shifted
  <1>4. Fewer /\ Remembers
    BY <1>1 DEF Fewer, Remembers
  <1>5. QED
    BY <1>1, <1>3, <1>4, QuietTopic

\* A packet that a channel carries is one of Forwards, so its guid is not fresh.
LEMMA CarriedIsForward ==
  ASSUME RTypeOK
  PROVE  /\ \A c \in Chans : \A i \in 1..Len(out[c]) :
              out[c][i].action = "Forward" => out[c][i] \in Forwards
         /\ \A q \in Routers : \A i \in 1..Len(fibQueue[q]) :
              fibQueue[q][i].action = "Forward" => fibQueue[q][i] \in Forwards
  <1>1. /\ \A c \in Chans : out[c] \in Seq(Packet)
        /\ \A q \in Routers : fibQueue[q] \in Seq(Packet)
    BY DEF RTypeOK, TypeOK
  <1>2. /\ \A c \in Chans : \A i \in 1..Len(out[c]) : out[c][i] \in Packet
        /\ \A q \in Routers : \A i \in 1..Len(fibQueue[q]) : fibQueue[q][i] \in Packet
    BY <1>1, ElementOfSeq
  <1>3. QED
    BY <1>2 DEF Forwards

\* A message is published with a guid that no other has.
LEMMA PublishTopic ==
  ASSUME TInv, RTypeOK', NEW r \in Routers, NEW p \in Packet, Hands(r, p),
         p.action = "Forward", p.guid \in fresh, fresh' = fresh \ {p.guid},
         UNCHANGED <<loop, up, rd, topic>>
  PROVE  TopicInv'
  <1>1. /\ \A q \in Routers : \A i \in 1..Len(fibQueue'[q]) :
              \/ i \in 1..Len(fibQueue[q]) /\ fibQueue'[q][i] = fibQueue[q][i]
              \/ q = r /\ i = Len(fibQueue[r]) + 1 /\ fibQueue'[q][i] = p
        /\ UNCHANGED <<out, processed>>
    BY HandsEffect DEF TInv, Base
  <1>2. Forwards' \subseteq Forwards \cup {p}
    BY <1>1 DEF Forwards
  <1>3. \A x \in Forwards : x.guid # p.guid
    BY DEF TInv, TopicInv, OneMessage
  <1>4. OneMessage'
    BY <1>2, <1>3 DEF TInv, TopicInv, OneMessage
  <1>5. /\ \A c \in Chans : \A i \in 1..Len(out[c]) : ~IsForward(out[c][i], p.guid)
        /\ \A q \in Routers : \A i \in 1..Len(fibQueue[q]) : ~IsForward(fibQueue[q][i], p.guid)
    BY <1>3, CarriedIsForward DEF TInv, Base, IsForward
  <1>6. \A c \in Chans : \A g : Carries(c, "Forward", g) => g # p.guid
    BY <1>5 DEF Carries, IsForward
  <1>7. TopicCarried'
    BY <1>1 DEF TInv, TopicInv, TopicCarried, Carries
  <1>8. AtSource'
    <2> SUFFICES ASSUME NEW q \in Routers, NEW i \in 1..Len(fibQueue'[q]),
                        fibQueue'[q][i].action = "Forward",
                        Source(q, fibQueue'[q][i].name)
                 PROVE  LET x == fibQueue'[q][i] IN
                          /\ \A c \in Chans : ~Carries(c, "Forward", x.guid)
                          /\ \A s \in Routers : \A j \in 1..Len(fibQueue'[s]) :
                               IsForward(fibQueue'[s][j], x.guid) => s = q /\ j = i
      BY SMTT(30), <1>1 DEF AtSource, Source, Links, Carries, IsForward
    <2>1. CASE i \in 1..Len(fibQueue[q]) /\ fibQueue'[q][i] = fibQueue[q][i]
      <3> DEFINE x == fibQueue[q][i]
      <3>1. /\ \A c \in Chans : ~Carries(c, "Forward", x.guid)
            /\ \A s \in Routers : \A j \in 1..Len(fibQueue[s]) :
                 IsForward(fibQueue[s][j], x.guid) => s = q /\ j = i
        BY <2>1 DEF TInv, TopicInv, AtSource
      <3>2. ~IsForward(p, x.guid)
        BY <1>5, <2>1 DEF IsForward
      <3>3. QED
        BY <1>1, <2>1, <3>1, <3>2
    <2>2. CASE q = r /\ i = Len(fibQueue[r]) + 1 /\ fibQueue'[q][i] = p
      BY <1>1, <1>5, <1>6, <2>2
    <2>3. QED
      BY <1>1, <2>1, <2>2
  <1>9. ASSUME NEW s \in Routers, Lasting(s)
        PROVE  (Settled(s) /\ Unheard(s) /\ OnceAt(s))'
    <2>1. Settled(s) /\ Unheard(s) /\ OnceAt(s)
      BY <1>9 DEF TInv, TopicInv
    <2>2. OnceAt(s)' /\ Unheard(s)'
      BY <1>1, <2>1 DEF OnceAt, Unheard
    <2>3. ASSUME NEW k \in 1..Len(topic[s]), Gone(s, topic[s][k])
          PROVE  Gone(s, topic[s][k])'
      <3>1. topic[s][k] # p.guid
        BY <1>6 DEF TInv, TopicInv, TopicCarried
      <3>2. ~IsForward(p, topic[s][k])
        BY <3>1 DEF IsForward
      <3>3. \A j \in 1..Len(fibQueue'[s]) : ~IsForward(fibQueue'[s][j], topic[s][k])
        BY <1>1, <2>3, <3>2 DEF Gone
      <3>4. QED
        BY <1>1, <2>3, <3>3 DEF Gone
    <2>4. Settled(s)'
      <3> SUFFICES ASSUME NEW k \in 1..Len(topic[s])
                   PROVE  topic[s][k] \in processed[s] \/ (NoRelays /\ Gone(s, topic[s][k])')
        BY <1>1 DEF Settled, Gone, NoRelays, Source, Links
      <3>1. QED
        BY <2>1, <2>3 DEF Settled
    <2>5. QED
      BY <2>2, <2>4
  <1>10. QED
    BY <1>4, <1>7, <1>8, <1>9 DEF TopicInv, Lasting, NoRelays, Source, Links

\* A connection brings what it carried to a router that is no source of it.
LEMMA TransferTopic ==
  ASSUME TInv, RTypeOK', NEW c \in NetChans, Transfer(c)
  PROVE  TopicInv'
  <1> DEFINE p == NextOf(c)
             r == Peer[c]
  <1>1. /\ c \in Chans /\ c \in up /\ r \in Routers /\ p \in Packet /\ Hands(r, p)
        /\ rd[c] + 1 \in 1..Len(out[c]) /\ p = out[c][rd[c] + 1]
        /\ UNCHANGED <<loop, up, topic, fresh>>
    BY RosAssumption, WhatIsHanded, NextType DEF TInv, Base, Transfer, NextOf
  <1>2. /\ \A q \in Routers : \A i \in 1..Len(fibQueue'[q]) :
              \/ i \in 1..Len(fibQueue[q]) /\ fibQueue'[q][i] = fibQueue[q][i]
              \/ q = r /\ i = Len(fibQueue[r]) + 1 /\ fibQueue'[q][i] = p
        /\ UNCHANGED <<out, processed>>
    BY <1>1, HandsEffect DEF TInv, Base
  <1>3. \A d \in Chans : rd[d] \in Nat /\ rd'[d] \in Nat /\ rd[d] <= rd'[d]
                         /\ Len(out[d]) \in Nat
    <2>1. Unread(c) /\ Read(c)
      BY DEF Transfer
    <2>2. \A d \in Chans : rd[d] <= rd'[d]
      BY <1>1, <1>2, <2>1, ReadType DEF TInv, Base
    <2>3. QED
      BY <2>2, LenProperties DEF TInv, Base, RTypeOK, TypeOK
  <1> HIDE DEF p, r
  <1>4. CASE p.action # "Forward"
    BY <1>1, <1>3, <1>4, HandsQuiet
  <1>5. CASE p.action = "Forward"
    <2>1. Carries(c, "Forward", p.guid)
      BY <1>1, <1>5 DEF Carries
    <2>2. ~Source(r, p.name)
      <3>1. /\ sub[c] # NoUpdate /\ p.name = sub[c].name
            /\ TypeFor[p.action] = sub[c].type
        BY <1>1 DEF TInv, Base, SafeInv, Isolation
      <3>2. sub[c].type = "RECEIVER"
        BY <1>5, <3>1 DEF TypeFor, Actions
      <3>3. sub[c] \in Links /\ sub[c].tx = c
        BY <1>1, <3>1, <3>2 DEF TInv, Known, SubsKnown, Links
      <3>4. QED
        BY <3>1, <3>3 DEF Source, r
    <2>3. p \in Forwards
      BY <1>1, <1>5, CarriedIsForward DEF TInv, Base
    <2>4. Forwards' \subseteq Forwards
      BY <1>2, <2>3 DEF Forwards
    <2>5. OneMessage'
      BY <1>1, <2>4 DEF TInv, TopicInv, OneMessage
    <2>6. TopicCarried'
      BY <1>1, <1>2 DEF TInv, TopicInv, TopicCarried, Carries
    <2>7. AtSource'
      <3> SUFFICES ASSUME NEW q \in Routers, NEW i \in 1..Len(fibQueue'[q]),
                          fibQueue'[q][i].action = "Forward",
                          Source(q, fibQueue'[q][i].name)
                   PROVE  LET x == fibQueue'[q][i] IN
                            /\ \A e \in Chans : ~Carries(e, "Forward", x.guid)
                            /\ \A s \in Routers : \A j \in 1..Len(fibQueue'[s]) :
                                 IsForward(fibQueue'[s][j], x.guid) => s = q /\ j = i
        BY <1>2 DEF AtSource, Source, Links, Carries, IsForward
      <3>1. i \in 1..Len(fibQueue[q]) /\ fibQueue'[q][i] = fibQueue[q][i]
        BY <1>2, <2>2
      <3> DEFINE x == fibQueue[q][i]
      <3>2. /\ \A e \in Chans : ~Carries(e, "Forward", x.guid)
            /\ \A s \in Routers : \A j \in 1..Len(fibQueue[s]) :
                 IsForward(fibQueue[s][j], x.guid) => s = q /\ j = i
        BY <3>1 DEF TInv, TopicInv, AtSource
      <3>3. ~IsForward(p, x.guid)
        BY <1>1, <2>1, <3>2 DEF IsForward
      <3>4. QED
        BY <1>2, <3>1, <3>2, <3>3
    <2>8. ASSUME NEW s \in Routers, Lasting(s)
          PROVE  (Settled(s) /\ Unheard(s) /\ OnceAt(s))'
      <3>1. Settled(s) /\ Unheard(s) /\ OnceAt(s)
        BY <2>8 DEF TInv, TopicInv
      <3>2. OnceAt(s)'
        BY <1>1, <3>1 DEF OnceAt
      <3>3. Unheard(s)'
        <4> SUFFICES ASSUME NEW n \in Names, loop[s]["sub"][n] # NoChan,
                            NEW i \in (rd'[loop[s]["sub"][n]] + 1)..Len(out[loop[s]["sub"][n]]),
                            NEW j \in 1..Len(topic[s])
                     PROVE  ~IsForward(out[loop[s]["sub"][n]][i], topic[s][j])
          BY <1>1, <1>2 DEF Unheard
        <4>1. loop[s]["sub"][n] \in Chans
          BY DEF TInv, Known, LoopsKnown, Roles
        <4>2. i \in (rd[loop[s]["sub"][n]] + 1)..Len(out[loop[s]["sub"][n]])
          BY <1>3, <4>1
        <4>3. QED
          BY <3>1, <4>2 DEF Unheard
      <3>4. ASSUME NEW g, Gone(s, g)
            PROVE  Gone(s, g)'
        <4>1. s = r => ~IsForward(p, g)
          <5>1. rd[c] + 1 \in (rd[c] + 1)..Len(out[c])
            BY <1>1, <1>3
          <5>2. QED
            BY <1>1, <3>4, <5>1 DEF Gone, r
        <4>2. \A j \in 1..Len(fibQueue'[s]) : ~IsForward(fibQueue'[s][j], g)
          BY <1>2, <3>4, <4>1 DEF Gone
        <4>3. \A e \in up : Peer[e] = s =>
                \A j \in (rd'[e] + 1)..Len(out[e]) : ~IsForward(out[e][j], g)
          <5> SUFFICES ASSUME NEW e \in up, Peer[e] = s, NEW j \in (rd'[e] + 1)..Len(out[e])
                       PROVE  ~IsForward(out[e][j], g)
            OBVIOUS
          <5>1. e \in Chans
            BY RosAssumption DEF TInv, Base, RTypeOK
          <5>2. j \in (rd[e] + 1)..Len(out[e])
            BY <1>3, <5>1
          <5>3. QED
            BY <3>4, <5>2 DEF Gone
        <4>4. QED
          BY <1>1, <1>2, <4>2, <4>3 DEF Gone
      <3>5. Settled(s)'
        <4> SUFFICES ASSUME NEW k \in 1..Len(topic[s])
                     PROVE  topic[s][k] \in processed[s] \/ (NoRelays /\ Gone(s, topic[s][k])')
          BY <1>1, <1>2 DEF Settled, Gone, NoRelays, Source, Links
        <4>1. QED
          BY <1>1, <3>1, <3>4 DEF Settled
      <3>6. QED
        BY <3>2, <3>3, <3>5
    <2>9. QED
      BY <2>5, <2>6, <2>7, <2>8 DEF TopicInv, Lasting, NoRelays, Source, Links
  <1>6. QED
    BY <1>4, <1>5

\* A loop shows the ROS graph the next packet of its channel.
LEMMA DeliverTopic ==
  ASSUME TInv, RTypeOK', NEW r \in Routers, NEW n \in Names, DeliverMessage(r, n)
  PROVE  TopicInv'
  <1> DEFINE c == loop[r]["sub"][n]
             x == NextOf(c)
  <1>1. /\ c # NoChan /\ Unread(c) /\ Read(c) /\ UNCHANGED <<fibVars, loop, up, fresh>>
        /\ topic' = IF x.action = "Forward" /\ x.name = n
                    THEN [topic EXCEPT ![r] = Append(@, x.guid)] ELSE topic
    BY DEF DeliverMessage
  <1>2. /\ c \in Chans /\ c \notin NetChans /\ Home[c] = r /\ c \in open
        /\ sub[c] = [type |-> "RECEIVER", name |-> n, tx |-> c]
    BY <1>1 DEF TInv, Known, LoopsKnown, Roles, TypeOf
  <1>3. UNCHANGED <<fibQueue, processed, out, open, sub>>
    BY <1>1 DEF fibVars
  <1> HIDE DEF c
  <1>4. /\ rd[c] + 1 \in 1..Len(out[c]) /\ x = out[c][rd[c] + 1] /\ x \in Packet
    BY <1>1, <1>2, NextType DEF TInv, Base, NextOf
  <1> HIDE DEF x
  <1>5. \A d \in Chans : rd[d] \in Nat /\ rd'[d] \in Nat /\ rd[d] <= rd'[d]
                         /\ Len(out[d]) \in Nat
    <2>1. \A d \in Chans : rd[d] <= rd'[d]
      BY <1>1, <1>2, <1>3, ReadType DEF TInv, Base
    <2>2. QED
      BY <2>1, LenProperties DEF TInv, Base, RTypeOK, TypeOK
  <1>6. rd'[c] = rd[c] + 1
    BY <1>1, <1>2 DEF Read, TInv, Base, RTypeOK
  <1>7. CASE ~(x.action = "Forward" /\ x.name = n)
    <2>1. \A q \in Routers : \A i \in 1..Len(fibQueue'[q]) :
            i + 0 \in 1..Len(fibQueue[q]) /\ fibQueue'[q][i] = fibQueue[q][i + 0]
      BY <1>3
    <2>2. Shifted
      BY <2>1 DEF Shifted
    <2>3. Fewer /\ Remembers /\ UNCHANGED topic
      BY <1>1, <1>3, <1>7 DEF Fewer, Remembers
    <2>4. QED
      BY <1>1, <1>3, <1>5, <2>2, <2>3, QuietTopic
  <1>8. CASE x.action = "Forward" /\ x.name = n
    <2> DEFINE g == x.guid
               k == Len(topic[r]) + 1
    <2>1. /\ Len(topic[r]) \in Nat
          /\ \A s \in Routers : s # r => topic'[s] = topic[s]
          /\ Len(topic'[r]) = k /\ topic'[r][k] = g
          /\ \A i \in 1..Len(topic[r]) : topic'[r][i] = topic[r][i]
      <3>1. topic[r] \in Seq(Guids) /\ g \in Guids
        BY <1>4 DEF TInv, Base, RTypeOK, Packet
      <3>2. \A s \in Routers : topic'[s] = IF s = r THEN Append(topic[r], g) ELSE topic[s]
        BY <1>1, <1>8 DEF TInv, Base, RTypeOK
      <3>3. Len(topic[r]) \in Nat
        BY <3>1, LenProperties
      <3>4. /\ Len(Append(topic[r], g)) = Len(topic[r]) + 1
            /\ Append(topic[r], g)[Len(topic[r]) + 1] = g
            /\ \A i \in 1..Len(topic[r]) : Append(topic[r], g)[i] = topic[r][i]
        BY <3>1, AppendProperties
      <3>5. topic'[r] = Append(topic[r], g) /\ \A s \in Routers : s # r => topic'[s] = topic[s]
        BY <3>2
      <3> HIDE DEF g
      <3>6. QED
        BY <3>3, <3>4, <3>5
    <2> HIDE DEF g, k
    <2>2. IsForward(out[c][rd[c] + 1], g)
      BY <1>4, <1>8 DEF IsForward, g
    <2>3. OneMessage'
      BY <1>1, <1>3 DEF TInv, TopicInv, OneMessage, Forwards
    <2>4. Carries(c, "Forward", g)
      BY <1>4, <2>2 DEF Carries, IsForward
    <2>5. TopicCarried'
      <3> SUFFICES ASSUME NEW s \in Routers, NEW i \in 1..Len(topic'[s])
                   PROVE  \E d \in Chans : Carries(d, "Forward", topic'[s][i])
        BY <1>3 DEF TopicCarried, Carries
      <3>1. CASE s = r /\ i = k
        BY <1>2, <2>1, <2>4, <3>1
      <3>2. CASE ~(s = r /\ i = k)
        <4>1. i \in 1..Len(topic[s]) /\ topic'[s][i] = topic[s][i]
          BY <2>1, <3>2 DEF k
        <4>2. QED
          BY <4>1 DEF TInv, TopicInv, TopicCarried
      <3>3. QED
        BY <3>1, <3>2
    <2>6. AtSource'
      BY <1>3 DEF TInv, TopicInv, AtSource, Carries, Source, Links
    <2>7. ASSUME NEW s \in Routers, Lasting(s)
          PROVE  (Settled(s) /\ Unheard(s) /\ OnceAt(s))'
      <3>1. Settled(s) /\ Unheard(s) /\ OnceAt(s)
        BY <2>7 DEF TInv, TopicInv
      <3>2. ASSUME NEW i \in 1..Len(topic'[s])
            PROVE  \/ i \in 1..Len(topic[s]) /\ topic'[s][i] = topic[s][i]
                   \/ s = r /\ i = k /\ topic'[s][i] = g
        BY <2>1 DEF k
      <3>3. s = r => \A j \in 1..Len(topic[r]) : topic[r][j] # g
        <4> SUFFICES ASSUME s = r, NEW j \in 1..Len(topic[r]), topic[r][j] = g PROVE FALSE
          OBVIOUS
        <4>1. rd[c] + 1 \in (rd[c] + 1)..Len(out[c])
          BY <1>2, <1>4, <1>5
        <4>2. ~IsForward(out[c][rd[c] + 1], topic[r][j])
          BY <1>1, <3>1, <4>1 DEF Unheard, c
        <4>3. QED
          BY <2>2, <4>2
      <3>4. OnceAt(s)'
        <4> SUFFICES ASSUME NEW i \in 1..Len(topic'[s]), NEW j \in 1..Len(topic'[s]), i # j
                     PROVE  topic'[s][i] # topic'[s][j]
          BY DEF OnceAt
        <4>1. QED
          BY <3>1, <3>2, <3>3 DEF OnceAt
      <3>5. Unheard(s)'
        <4> SUFFICES ASSUME NEW m \in Names, loop[s]["sub"][m] # NoChan,
                            NEW i \in (rd'[loop[s]["sub"][m]] + 1)..Len(out[loop[s]["sub"][m]]),
                            NEW j \in 1..Len(topic'[s]),
                            IsForward(out[loop[s]["sub"][m]][i], topic'[s][j])
                     PROVE  FALSE
          BY <1>1, <1>3 DEF Unheard
        <4> DEFINE e == loop[s]["sub"][m]
        <4>1. /\ e \in Chans /\ sub[e] = [type |-> "RECEIVER", name |-> m, tx |-> e]
          BY DEF TInv, Known, LoopsKnown, Roles, TypeOf
        <4> HIDE DEF e
        <4>2. i \in (rd[e] + 1)..Len(out[e]) /\ i \in 1..Len(out[e])
          BY <1>5, <4>1 DEF e
        <4>3. CASE j \in 1..Len(topic[s]) /\ topic'[s][j] = topic[s][j]
          BY <3>1, <4>2, <4>3 DEF Unheard, e
        <4>4. CASE s = r /\ j = k /\ topic'[s][j] = g
          <5>1. out[e][i] \in Forwards /\ x \in Forwards /\ out[e][i].guid = x.guid
            BY <1>2, <1>4, <1>8, <4>1, <4>2, <4>4, CarriedIsForward
            DEF TInv, Base, IsForward, e, g
          <5>2. out[e][i] = x
            BY <5>1 DEF TInv, TopicInv, OneMessage
          <5>3. m = n
            <6>1. out[e][i].name = sub[e].name
              BY <4>1, <4>2 DEF TInv, Base, SafeInv, Isolation
            <6>2. QED
              BY <1>8, <4>1, <5>2, <6>1
          <5>4. e = c
            BY <4>4, <5>3 DEF e, c
          <5>5. i # rd[c] + 1 /\ i \in 1..Len(out[c])
            BY <1>2, <1>5, <1>6, <4>2, <5>4 DEF e
          <5>6. out[c][i].guid # out[c][rd[c] + 1].guid
            BY <1>2, <1>4, <1>8, <5>2, <5>4, <5>5 DEF TInv, Base, SafeInv, AtMostOnce
          <5>7. QED
            BY <1>4, <5>2, <5>4, <5>6
        <4>5. QED
          BY <3>2, <4>3, <4>4
      <3>6. ASSUME NEW h, Gone(s, h)
            PROVE  /\ \A j \in 1..Len(fibQueue'[s]) : ~IsForward(fibQueue'[s][j], h)
                   /\ \A e \in up' : Peer[e] = s =>
                        \A j \in (rd'[e] + 1)..Len(out'[e]) : ~IsForward(out'[e][j], h)
        <4>1. \A j \in 1..Len(fibQueue'[s]) : ~IsForward(fibQueue'[s][j], h)
          BY <1>3, <3>6 DEF Gone
        <4>2. ASSUME NEW e \in up', Peer[e] = s, NEW j \in (rd'[e] + 1)..Len(out'[e])
              PROVE  ~IsForward(out'[e][j], h)
          <5>1. e \in Chans /\ e \in up
            BY <1>1, RosAssumption DEF RTypeOK
          <5>2. j \in (rd[e] + 1)..Len(out[e])
            BY <1>3, <1>5, <5>1
          <5>3. QED
            BY <1>3, <3>6, <4>2, <5>1, <5>2 DEF Gone
        <4>3. QED
          BY <4>1, <4>2
      <3>7. Settled(s)'
        <4> SUFFICES ASSUME NEW i \in 1..Len(topic'[s])
                     PROVE  \/ topic'[s][i] \in processed'[s]
                            \/ NoRelays /\ Gone(s, topic[s][i])'
          BY DEF Settled, NoRelays, Source, Links
        <4>1. CASE i \in 1..Len(topic[s]) /\ topic'[s][i] = topic[s][i]
          <5>1. topic[s][i] \in processed[s] \/ (NoRelays /\ Gone(s, topic[s][i]))
            BY <3>1, <4>1 DEF Settled
          <5>2. QED
            BY <1>3, <3>6, <4>1, <5>1 DEF Gone
        <4>2. CASE s = r /\ i = k /\ topic'[s][i] = g
          <5>1. g \in processed[r]
            BY <1>2, <1>4, <1>8 DEF TInv, Base, SafeInv, Marked, g
          <5>2. QED
            BY <1>3, <4>2, <5>1
        <4>3. QED
          BY <3>2, <4>1, <4>2
      <3>8. QED
        BY <3>4, <3>5, <3>7
    <2>8. QED
      BY <2>3, <2>5, <2>6, <2>7 DEF TopicInv, Lasting, NoRelays, Source, Links
  <1>9. QED
    BY <1>7, <1>8

\* A step that leaves the queues of the FIBs alone.
LEMMA StillTopic ==
  ASSUME TInv, RTypeOK', UNCHANGED <<fibQueue, processed, out, topic, fresh>>, Fewer,
         \A c \in Chans : rd[c] <= rd'[c]
  PROVE  TopicInv'
  <1>1. \A q \in Routers : \A i \in 1..Len(fibQueue'[q]) :
          i + 0 \in 1..Len(fibQueue[q]) /\ fibQueue'[q][i] = fibQueue[q][i + 0]
    OBVIOUS
  <1>2. Shifted
    BY <1>1 DEF Shifted
  <1>3. Remembers
    BY DEF Remembers
  <1>4. QED
    BY <1>2, <1>3, QuietTopic

\* The channel of an owner that has not sent its update carried nothing.
LEMMA UnusedIsEmpty ==
  ASSUME RTypeOK, SafeInv, NEW u \in Offers, sub[u.tx] = NoUpdate
  PROVE  u.tx \in Chans /\ out[u.tx] = <<>>
  <1>1. u.tx \in Chans
    BY InputAssumption DEF Update
  <1>2. Len(out[u.tx]) \in Nat /\ out[u.tx] \in Seq(Packet)
    BY <1>1, LenProperties DEF RTypeOK, TypeOK
  <1>3. Len(out[u.tx]) = 0
    BY <1>1, <1>2 DEF SafeInv, Isolation
  <1>4. QED
    BY <1>1, <1>2, <1>3, EmptySeq

\* An add changes one loop at most.
LEMMA LoopAdded ==
  ASSUME RTypeOK, NEW u, NEW o, NEW p \in Roles,
         \/ loop' = [loop EXCEPT ![Home[u.tx]][o][u.name] = u.tx]
         \/ loop' = loop
  PROVE  \A r \in Routers, n \in Names : loop'[r][p][n] \in {loop[r][p][n], u.tx}
  <1> SUFFICES ASSUME NEW r \in Routers, NEW n \in Names
               PROVE  loop'[r][p][n] \in {loop[r][p][n], u.tx}
    OBVIOUS
  <1>1. loop \in [Routers -> [Roles -> [Names -> Chans \cup {NoChan}]]]
    BY DEF RTypeOK
  <1>2. CASE loop' = [loop EXCEPT ![Home[u.tx]][o][u.name] = u.tx]
    <2>1. CASE r = Home[u.tx] /\ o = p
      BY <1>1, <1>2, <2>1
    <2>2. CASE ~(r = Home[u.tx] /\ o = p)
      BY <1>1, <1>2, <2>2
    <2>3. QED
      BY <2>1, <2>2
  <1>3. QED
    BY <1>2

LEMMA TopicInvStep == TInv /\ Base' /\ [RNext]_vars => TopicInv'
  <1> SUFFICES ASSUME TInv, Base', [RNext]_vars PROVE TopicInv'
    OBVIOUS
  <1>1. /\ RTypeOK /\ TypeOK /\ SafeInv /\ RTypeOK'
        /\ \A c \in Chans : rd[c] \in Nat
    BY DEF TInv, Base, RTypeOK
  <1>2. ASSUME NEW r \in Routers, FibStep(r)
        PROVE  TopicInv'
    <2>1. CASE HandlePacket(r)
      <3>1. pkt(r) \in Packet /\ \E cs : Handles(r, cs)
        BY <1>1, <2>1, HandleEffect
      <3>2. QED
        BY <1>1, <1>2, <3>1, HandleTopic DEF FibStep
    <2>2. CASE HandleUpdate(r)
      <3>1. UNCHANGED <<fibQueue, processed, out, loop, up, rd, fresh, topic>>
        BY <1>2, <2>2 DEF FibStep, HandleUpdate, rosVars
      <3>2. Fewer
        BY <3>1 DEF Fewer
      <3>3. QED
        BY <1>1, <3>1, <3>2, StillTopic
    <2>3. QED
      BY <1>2, <2>1, <2>2 DEF FibStep, Step
  <1>3. ASSUME NEW u \in Offers, sub[u.tx] = NoUpdate
        PROVE  u.tx \in Chans /\ out[u.tx] = <<>>
    BY <1>1, <1>3, UnusedIsEmpty
  <1>4. ASSUME NEW u \in Offers, Connect(u)
        PROVE  TopicInv'
    <2>1. /\ sub[u.tx] = NoUpdate /\ up' = up \cup {u.tx}
          /\ UNCHANGED <<fibQueue, processed, out, loop, rd, fresh, topic>>
      BY <1>4 DEF Connect, Announce
    <2>2. Fewer
      BY <1>3, <2>1 DEF Fewer
    <2>3. QED
      BY <1>1, <2>1, <2>2, StillTopic
  <1>5. ASSUME NEW c \in NetChans, Break(c) \/ Hangup(c) \/ Transfer(c)
        PROVE  TopicInv'
    <2>1. CASE Break(c) \/ Hangup(c)
      <3>1. /\ up' \subseteq up
            /\ UNCHANGED <<fibQueue, processed, out, loop, rd, fresh, topic>>
        BY <2>1 DEF Break, Hangup, Close, fibVars, rosVars
      <3>2. Fewer
        BY <3>1 DEF Fewer
      <3>3. QED
        BY <1>1, <3>1, <3>2, StillTopic
    <2>2. CASE Transfer(c)
      BY <1>1, <2>2, TransferTopic
    <2>3. QED
      BY <1>5, <2>1, <2>2
  <1>6. ASSUME NEW u \in Offers, NEW o \in Roles, AddTopic(u.tx, o, u.name)
        PROVE  TopicInv'
    <2>1. UNCHANGED <<fibQueue, processed, out, up, rd, fresh, topic>>
      BY <1>6 DEF AddTopic, Announce
    <2>2. /\ sub[u.tx] = NoUpdate
          /\ \/ loop' = [loop EXCEPT ![Home[u.tx]][o][u.name] = u.tx]
             \/ loop' = loop
      BY <1>6 DEF AddTopic, Announce
    <2>3. \A r \in Routers, n \in Names :
            loop'[r]["sub"][n] \in {loop[r]["sub"][n], u.tx}
      BY <1>1, <2>2, LoopAdded DEF Roles
    <2>4. Fewer
      BY <1>3, <2>1, <2>2, <2>3 DEF Fewer
    <2>5. QED
      BY <1>1, <2>1, <2>4, StillTopic
  <1>7. ASSUME NEW r \in Routers, NEW n \in Names, NEW g \in Guids,
               PublishMessage(r, n, g)
        PROVE  TopicInv'
    <2>1. ForwardOf(n, g) \in Packet /\ Hands(r, ForwardOf(n, g))
      BY <1>1, <1>7, WhatIsHanded
    <2>2. ForwardOf(n, g).action = "Forward" /\ ForwardOf(n, g).guid = g
      BY DEF ForwardOf
    <2>3. g \in fresh /\ fresh' = fresh \ {g} /\ UNCHANGED <<loop, up, rd, topic>>
      BY <1>7 DEF PublishMessage
    <2>4. QED
      BY <1>1, <2>1, <2>2, <2>3, PublishTopic
  <1>8. ASSUME NEW r \in Routers, NEW n \in Names, NEW g \in Guids, AskService(r, n, g)
        PROVE  TopicInv'
    <2>1. RequestOf(n, g) \in Packet /\ Hands(r, RequestOf(n, g))
      BY <1>1, <1>8, WhatIsHanded
    <2>2. RequestOf(n, g).action # "Forward"
      BY DEF RequestOf
    <2>3. fresh' \subseteq fresh /\ UNCHANGED <<loop, up, rd, topic>>
      BY <1>8 DEF AskService
    <2>4. QED
      BY <1>1, <2>1, <2>2, <2>3, HandsQuiet
  <1>9. ASSUME NEW r \in Routers, NEW n \in Names, SendResponse(r, n)
        PROVE  TopicInv'
    <2> DEFINE p == ResponseOf(n, serving[r][n])
    <2>1. p \in Packet /\ Hands(r, p)
      BY <1>1, <1>9, WhatIsHanded
    <2>2. p.action # "Forward"
      BY DEF ResponseOf
    <2>3. UNCHANGED <<loop, up, rd, topic, fresh>>
      BY <1>9 DEF SendResponse
    <2>4. QED
      BY <1>1, <2>1, <2>2, <2>3, HandsQuiet
  <1>10. ASSUME NEW r \in Routers, NEW n \in Names, DeliverMessage(r, n)
         PROVE  TopicInv'
    BY <1>1, <1>10, DeliverTopic
  <1>11. ASSUME NEW r \in Routers, NEW n \in Names,
                GetResponse(r, n) \/ CallTimeout(r, n) \/ CallService(r, n)
         PROVE  TopicInv'
    <2>1. UNCHANGED <<fibQueue, processed, out, loop, up, fresh, topic>>
      BY <1>11 DEF GetResponse, CallTimeout, CallService, fibVars
    <2>2. Fewer
      BY <2>1 DEF Fewer
    <2>3. \/ UNCHANGED rd
          \/ \E c \in Chans : Unread(c) /\ Read(c)
      <3>1. loop[r]["client"][n] \in Chans \cup {NoChan}
            /\ loop[r]["service"][n] \in Chans \cup {NoChan}
        BY <1>1 DEF RTypeOK, Roles
      <3>2. QED
        BY <1>11, <3>1 DEF GetResponse, CallTimeout, CallService
    <2>4. \A c \in Chans : rd[c] <= rd'[c]
      BY <1>1, <2>1, <2>3, ReadType
    <2>5. QED
      BY <1>1, <2>1, <2>2, <2>4, StillTopic
  <1>12. ASSUME NEW r \in Routers, RestartRouter(r)
         PROVE  TopicInv'
    <2>1. /\ r \in Crashing
          /\ fibQueue' = [fibQueue EXCEPT ![r] = <<>>]
          /\ processed' = [processed EXCEPT ![r] = {}]
          /\ up' = {c \in up : Home[c] # r /\ Peer[c] # r}
          /\ loop' = [loop EXCEPT ![r] = [o \in Roles |-> [n \in Names |-> NoChan]]]
          /\ UNCHANGED <<out, rd, fresh, topic>>
      BY <1>12 DEF RestartRouter, Restart
    <2>2. \A q \in Routers : /\ fibQueue'[q] = IF q = r THEN <<>> ELSE fibQueue[q]
                             /\ q # r => processed'[q] = processed[q]
      BY <1>1, <2>1 DEF TypeOK
    <2>3. \A q \in Routers : \A i \in 1..Len(fibQueue'[q]) :
            i + 0 \in 1..Len(fibQueue[q]) /\ fibQueue'[q][i] = fibQueue[q][i + 0]
      BY <2>2
    <2>4. Shifted
      BY <2>3 DEF Shifted
    <2>5. \A q \in Routers, n \in Names :
            loop'[q]["sub"][n] \in {loop[q]["sub"][n], NoChan}
      BY <1>1, <2>1 DEF RTypeOK, Roles
    <2>6. Fewer
      BY <2>1, <2>5 DEF Fewer
    <2>7. Remembers
      BY <2>1, <2>2 DEF Remembers
    <2>8. QED
      BY <1>1, <2>1, <2>4, <2>6, <2>7, QuietTopic
  <1>13. CASE UNCHANGED vars
    <2>1. UNCHANGED <<fibQueue, processed, out, loop, up, rd, fresh, topic>>
      BY <1>13 DEF vars, fibVars, rosVars
    <2>2. Fewer
      BY <2>1 DEF Fewer
    <2>3. QED
      BY <1>1, <2>1, <2>2, StillTopic
  <1>14. QED
    BY <1>2, <1>4, <1>5, <1>6, <1>7, <1>8, <1>9, <1>10, <1>11, <1>12, <1>13 DEF RNext

LEMMA TInvCorrect == RSpec => []TInv
  <1>1. RInit => TInv
    BY BaseInit, KnownInit, TopicInvInit DEF TInv
  <1>2. TInv /\ [RNext]_vars => TInv'
    <2> SUFFICES ASSUME TInv, [RNext]_vars PROVE TInv'
      OBVIOUS
    <2>1. Base /\ Known
      BY DEF TInv
    <2>2. Base'
      BY <2>1, BaseStep
    <2>3. Known'
      BY <2>1, KnownStep
    <2>4. TopicInv'
      BY <2>2, TopicInvStep
    <2>5. QED
      BY <2>2, <2>3, <2>4 DEF TInv
  <1>3. QED
    BY <1>1, <1>2, PTL DEF RSpec

\* A router that does not restart publishes a message at most once on its ROS
\* graph, whatever the connections between the routers are: they may form
\* cycles, run in parallel, break and come back, the routers at their other
\* ends may restart, and a topic may be added again and again.
THEOREM LastingPublishedOnce ==
  ASSUME NEW r \in Routers, r \notin Crashing
  PROVE  RSpec => []OnceAt(r)
  <1>1. TInv => OnceAt(r)
    BY DEF TInv, TopicInv, Lasting
  <1>2. QED
    BY <1>1, TInvCorrect, PTL

\* The routers may all restart when none of them passes on a topic that another
\* brings it: a restart forgets which messages were seen, and what comes round
\* a second time would be published again.
THEOREM TopicPublishedOnce ==
  ASSUME NoRelays \/ Crashing = {}
  PROVE  RSpec => []TopicOnce
  <1>1. TInv => TopicOnce
    BY DEF TInv, TopicInv, Lasting, TopicOnce
  <1>2. QED
    BY <1>1, TInvCorrect, PTL

-----------------------------------------------------------------------------
(* Services.  What follows is for systems in which all the clients of a     *)
(* service are at one router, cl[n], which does not restart.               *)

Registers(u, t) == u \in Offers \cup Ready /\ u.type = t

OneClient(cl) ==
  /\ cl \in [Names -> Routers \ Crashing]
  /\ \A u : Registers(u, "RESPONSERECEIVER") /\ u.tx \notin NetChans =>
              Home[u.tx] = cl[u.name]

\* The client loop of a service runs at its client router.
LEMMA ClientAt ==
  ASSUME NEW cl, OneClient(cl), Known, NEW r \in Routers, NEW n \in Names,
         loop[r]["client"][n] # NoChan
  PROVE  r = cl[n]
  <1> DEFINE c == loop[r]["client"][n]
             u == [type |-> "RESPONSERECEIVER", name |-> n, tx |-> c]
  <1>1. c \in Chans /\ c \notin NetChans /\ Home[c] = r /\ sub[c] = u
    BY DEF Known, LoopsKnown, Roles, TypeOf
  <1>2. u \in Update
    BY <1>1 DEF Update, ConnTypes, ReceiverTypes
  <1>3. u \in Offers \cup Ready
    BY <1>1, <1>2, InputAssumption DEF Known, SubsKnown
  <1>4. QED
    BY <1>1, <1>3 DEF OneClient, Registers

\* What one service channel carries is for the service.
LEMMA CarriedFor ==
  ASSUME Base, Known, NEW c \in Chans, NEW i \in 1..Len(out[c])
  PROVE  /\ out[c][i] \in Packet
         /\ sub[c] \in Offers \cup Ready /\ sub[c].tx = c
         /\ out[c][i].name = sub[c].name
         /\ TypeFor[out[c][i].action] = sub[c].type
  <1>1. out[c] \in Seq(Packet)
    BY DEF Base, RTypeOK, TypeOK
  <1>2. QED
    BY <1>1, ElementOfSeq DEF Base, SafeInv, Isolation, Known, SubsKnown

\* The FIB task takes the first packet of its queue.
LEMMA TakeEffect ==
  ASSUME TypeOK, NEW r \in Routers, Take(r)
  PROVE  /\ pkt(r) = fibQueue[r][1] /\ 1 \in 1..Len(fibQueue[r])
         /\ \A q \in Routers : \A i \in 1..Len(fibQueue'[q]) :
              \E k \in 1..Len(fibQueue[q]) : fibQueue'[q][i] = fibQueue[q][k]
  <1>1. \A q \in Routers : fibQueue[q] \in Seq(Packet) /\ Len(fibQueue[q]) \in Nat
    BY LenProperties DEF TypeOK
  <1>2. fibQueue[r] # <<>> /\ fibQueue' = [fibQueue EXCEPT ![r] = Tail(@)]
    BY DEF Take
  <1>3. pkt(r) = fibQueue[r][1] /\ 1 \in 1..Len(fibQueue[r])
    BY <1>1, <1>2, HeadTailProperties DEF pkt
  <1>4. ASSUME NEW q \in Routers, NEW i \in 1..Len(fibQueue'[q])
        PROVE  \E k \in 1..Len(fibQueue[q]) : fibQueue'[q][i] = fibQueue[q][k]
    <2>1. fibQueue'[q] = IF q = r THEN Tail(fibQueue[r]) ELSE fibQueue[q]
      BY <1>2 DEF TypeOK
    <2>2. /\ Len(Tail(fibQueue[r])) = Len(fibQueue[r]) - 1
          /\ \A k \in 1..Len(Tail(fibQueue[r])) : Tail(fibQueue[r])[k] = fibQueue[r][k + 1]
      BY <1>1, <1>2, HeadTailProperties
    <2>3. CASE q = r
      <3>1. i \in 1..(Len(fibQueue[r]) - 1)
        BY <2>1, <2>2, <2>3
      <3>2. i + 1 \in 1..Len(fibQueue[r])
        BY <1>1, <3>1
      <3>3. fibQueue'[q][i] = fibQueue[r][i + 1]
        BY <2>1, <2>2, <2>3, <3>1
      <3>4. QED
        BY <2>3, <3>2, <3>3
    <2>4. CASE q # r
      BY <2>1, <2>4
    <2>5. QED
      BY <2>3, <2>4
  <1>5. QED
    BY <1>3, <1>4

-----------------------------------------------------------------------------
(* Answers.  A Request for service n with guid g, or the work on it, or its *)
(* Response, is under way while a step can still take it further.           *)

Readable(c) == c \in open /\ (c \in NetChans => c \in up)

Concerns(p, n, g) == p.action \in {"Request", "Response"} /\ p.name = n /\ p.guid = g

UnderWay(n, g) ==
  \/ \E r \in Routers : serving[r][n] = g
  \/ \E r \in Routers : \E i \in 1..Len(fibQueue[r]) : Concerns(fibQueue[r][i], n, g)
  \/ \E c \in Chans : /\ Readable(c)
                      /\ \E i \in (rd[c] + 1)..Len(out[c]) : Concerns(out[c][i], n, g)

\* What is under way is what the client waits for, or its router drops it.
Expected(cl) ==
  \A n \in Names, g \in Guids :
    UnderWay(n, g) => call[cl[n]][n] = g \/ g \in processed[cl[n]]

\* The client's channel holds nothing but the answer to the current call.
Hears(cl) ==
  \A n \in Names :
    LET c == loop[cl[n]]["client"][n] IN
      c # NoChan => \A i \in (rd[c] + 1)..Len(out[c]) : out[c][i].guid = call[cl[n]][n]

AnswerInv(cl) == AnswerMatches /\ Expected(cl) /\ Hears(cl)

AInv(cl) == Base /\ Known /\ AnswerInv(cl)

\* A step that forwards nothing puts a request under way only when it moves
\* one that was.
LEMMA UnderWayFewer ==
  ASSUME RTypeOK, RTypeOK', NEW n \in Names, NEW g \in Guids, UNCHANGED out,
         \A c \in Chans : rd[c] <= rd'[c],
         \A c \in Chans : Readable(c)' => Readable(c) \/ out[c] = <<>>,
         \A q \in Routers : \A i \in 1..Len(fibQueue'[q]) :
           \/ \E k \in 1..Len(fibQueue[q]) : fibQueue'[q][i] = fibQueue[q][k]
           \/ ~Concerns(fibQueue'[q][i], n, g)
           \/ UnderWay(n, g),
         \A q \in Routers : serving'[q][n] = g => serving[q][n] = g \/ UnderWay(n, g),
         UnderWay(n, g)'
  PROVE  UnderWay(n, g)
  <1>1. CASE \E q \in Routers : serving'[q][n] = g
    BY <1>1 DEF UnderWay
  <1>2. CASE \E q \in Routers : \E i \in 1..Len(fibQueue'[q]) : Concerns(fibQueue'[q][i], n, g)
    BY <1>2 DEF UnderWay
  <1>3. CASE \E c \in Chans : /\ Readable(c)'
                              /\ \E i \in (rd'[c] + 1)..Len(out[c]) : Concerns(out[c][i], n, g)
    <2>1. PICK c \in Chans : /\ Readable(c)'
                            /\ \E i \in (rd'[c] + 1)..Len(out[c]) : Concerns(out[c][i], n, g)
      BY <1>3
    <2>2. PICK i \in (rd'[c] + 1)..Len(out[c]) : Concerns(out[c][i], n, g)
      BY <2>1
    <2>3. rd[c] \in Nat /\ rd'[c] \in Nat /\ Len(out[c]) \in Nat /\ rd[c] <= rd'[c]
      BY LenProperties DEF RTypeOK, TypeOK
    <2>4. i \in (rd[c] + 1)..Len(out[c]) /\ out[c] # <<>>
      BY <2>3
    <2>5. QED
      BY <2>1, <2>2, <2>4 DEF UnderWay
  <1>4. QED
    BY <1>1, <1>2, <1>3 DEF UnderWay, Concerns

\* When the client gets nothing new and its call goes on, or starts, what it
\* hears stays as it is.
LEMMA HearsQuiet ==
  ASSUME NEW cl, OneClient(cl), AInv(cl), RTypeOK', UNCHANGED out,
         \A c \in Chans : rd[c] <= rd'[c],
         \A n \in Names : call[cl[n]][n] \in {call'[cl[n]][n], Idle},
         \A n \in Names :
           \/ loop'[cl[n]]["client"][n] \in {loop[cl[n]]["client"][n], NoChan}
           \/ out[loop'[cl[n]]["client"][n]] = <<>>
  PROVE  Hears(cl)'
  <1> SUFFICES ASSUME NEW n \in Names, loop'[cl[n]]["client"][n] # NoChan,
                      NEW i \in (rd'[loop'[cl[n]]["client"][n]] + 1)
                                  ..Len(out[loop'[cl[n]]["client"][n]])
               PROVE  out[loop'[cl[n]]["client"][n]][i].guid = call'[cl[n]][n]
    BY DEF Hears
  <1> DEFINE c == loop'[cl[n]]["client"][n]
  <1>1. cl[n] \in Routers /\ c \in Chans
    BY DEF OneClient, RTypeOK, Roles
  <1> HIDE DEF c
  <1>2. /\ out[c] \in Seq(Packet) /\ Len(out[c]) \in Nat
        /\ rd[c] \in Nat /\ rd'[c] \in Nat /\ rd[c] <= rd'[c]
    BY <1>1, LenProperties DEF AInv, Base, RTypeOK, TypeOK
  <1>3. i \in (rd[c] + 1)..Len(out[c]) /\ i \in 1..Len(out[c]) /\ out[c] # <<>>
    BY <1>2 DEF c
  <1>4. c = loop[cl[n]]["client"][n] /\ c # NoChan
    BY <1>3 DEF c
  <1>5. out[c][i].guid = call[cl[n]][n]
    BY <1>3, <1>4 DEF AInv, AnswerInv, Hears
  <1>6. out[c][i] \in Packet
    BY <1>2, <1>3, ElementOfSeq
  <1>7. call[cl[n]][n] # Idle
    BY <1>5, <1>6, RosAssumption DEF Packet
  <1>8. QED
    BY <1>5, <1>7 DEF c

\* A step that forwards nothing and leaves the calls to go on.
LEMMA AnswerQuiet ==
  ASSUME NEW cl, OneClient(cl), AInv(cl), RTypeOK', UNCHANGED <<out, answers>>,
         \A n \in Names : processed[cl[n]] \subseteq processed'[cl[n]],
         \A c \in Chans : rd[c] <= rd'[c],
         \A c \in Chans : Readable(c)' => Readable(c) \/ out[c] = <<>>,
         \A n \in Names, g \in Guids : \A q \in Routers : \A i \in 1..Len(fibQueue'[q]) :
           \/ \E k \in 1..Len(fibQueue[q]) : fibQueue'[q][i] = fibQueue[q][k]
           \/ ~Concerns(fibQueue'[q][i], n, g)
           \/ UnderWay(n, g),
         \A n \in Names, g \in Guids : \A q \in Routers :
           serving'[q][n] = g => serving[q][n] = g \/ UnderWay(n, g),
         \A n \in Names : call'[cl[n]][n] = call[cl[n]][n],
         \A n \in Names :
           \/ loop'[cl[n]]["client"][n] \in {loop[cl[n]]["client"][n], NoChan}
           \/ out[loop'[cl[n]]["client"][n]] = <<>>
  PROVE  AnswerInv(cl)'
  <1>1. RTypeOK
    BY DEF AInv, Base
  <1>2. ASSUME NEW n \in Names, NEW g \in Guids, UnderWay(n, g)'
        PROVE  UnderWay(n, g)
    BY <1>1, <1>2, UnderWayFewer
  <1>3. Expected(cl)'
    BY <1>2 DEF AInv, AnswerInv, Expected
  <1>4. Hears(cl)'
    BY HearsQuiet
  <1>5. AnswerMatches'
    BY DEF AInv, AnswerInv, AnswerMatches
  <1>6. QED
    BY <1>3, <1>4, <1>5 DEF AnswerInv

\* The FIB task forwards a packet: a Response reaches the client's channel only
\* when its guid is not processed, so it is the one the client waits for.
LEMMA AnswerHandle ==
  ASSUME NEW cl, OneClient(cl), AInv(cl), RTypeOK',
         NEW r \in Routers, HandlePacket(r), UNCHANGED rosVars
  PROVE  AnswerInv(cl)'
  <1>1. PICK p \in Packet : p = pkt(r)
    BY HandleEffect DEF AInv, Base, RTypeOK
  <1>2. PICK cs : Handles(r, cs)
    BY HandleEffect DEF AInv, Base, RTypeOK
  <1>3. /\ p = fibQueue[r][1] /\ 1 \in 1..Len(fibQueue[r])
        /\ \A q \in Routers : \A i \in 1..Len(fibQueue'[q]) :
             \E k \in 1..Len(fibQueue[q]) : fibQueue'[q][i] = fibQueue[q][k]
    BY <1>1, <1>2, TakeEffect DEF AInv, Base, RTypeOK, Handles
  <1>4. ASSUME NEW c \in Chans
        PROVE  /\ Len(out[c]) \in Nat /\ rd[c] \in Nat /\ rd[c] <= Len(out[c])
               /\ \A i \in 1..Len(out'[c]) :
                    \/ i \in 1..Len(out[c]) /\ out'[c][i] = out[c][i]
                    \/ i = Len(out[c]) + 1 /\ out'[c][i] = p /\ c \in cs
               /\ Len(out'[c]) \in Nat
    <2>1. SendTo(cs, p) /\ out \in [Chans -> Seq(Packet)]
      BY <1>1, <1>2 DEF Handles, AInv, Base, RTypeOK, TypeOK
    <2>2. /\ Len(out[c]) \in Nat /\ Len(out'[c]) \in Nat
          /\ rd[c] \in Nat /\ rd[c] <= Len(out[c])
      BY LenProperties DEF AInv, Base, RTypeOK, TypeOK
    <2>3. \/ out'[c] = out[c]
          \/ /\ c \in cs \cap open
             /\ Len(out'[c]) = Len(out[c]) + 1
             /\ out'[c][Len(out[c]) + 1] = p
             /\ \A k \in 1..Len(out[c]) : out'[c][k] = out[c][k]
      BY <1>1, <2>1, SendToEffect
    <2>4. QED
      BY <2>2, <2>3
  <1>5. UNCHANGED <<open, up, rd, call, loop, serving, answers>>
    BY <1>2 DEF Handles, HandleVars, rosVars
  <1>6. ASSUME NEW n \in Names, NEW g \in Guids, UnderWay(n, g)'
        PROVE  UnderWay(n, g)
    <2>1. CASE \E q \in Routers : serving[q][n] = g
      BY <2>1 DEF UnderWay
    <2>2. CASE \E q \in Routers : \E i \in 1..Len(fibQueue'[q]) : Concerns(fibQueue'[q][i], n, g)
      BY <1>3, <2>2 DEF UnderWay
    <2>3. CASE \E c \in Chans : /\ Readable(c)
                                /\ \E i \in (rd[c] + 1)..Len(out'[c]) : Concerns(out'[c][i], n, g)
      <3>1. PICK c \in Chans : /\ Readable(c)
                               /\ \E i \in (rd[c] + 1)..Len(out'[c]) : Concerns(out'[c][i], n, g)
        BY <2>3
      <3>2. PICK i \in (rd[c] + 1)..Len(out'[c]) : Concerns(out'[c][i], n, g)
        BY <3>1
      <3>3. i \in 1..Len(out'[c]) /\ i \in Nat /\ rd[c] + 1 <= i
        BY <1>4
      <3>4. CASE i \in 1..Len(out[c]) /\ out'[c][i] = out[c][i]
        <4>1. i \in (rd[c] + 1)..Len(out[c])
          BY <1>4, <3>3, <3>4
        <4>2. QED
          BY <3>1, <3>2, <3>4, <4>1 DEF UnderWay
      <3>5. CASE out'[c][i] = p
        BY <1>3, <3>2, <3>5 DEF UnderWay
      <3>6. QED
        BY <1>4, <3>3, <3>4, <3>5
    <2>4. QED
      BY <1>5, <1>6, <2>1, <2>2, <2>3 DEF UnderWay, Concerns, Readable
  <1>7. \A q \in Routers : processed[q] \subseteq processed'[q]
    BY <1>2 DEF Handles
  <1>8. Expected(cl)'
    BY <1>5, <1>6, <1>7 DEF AInv, AnswerInv, Expected, OneClient
  <1>9. Hears(cl)'
    <2> SUFFICES ASSUME NEW n \in Names, loop[cl[n]]["client"][n] # NoChan,
                        NEW i \in (rd[loop[cl[n]]["client"][n]] + 1)
                                    ..Len(out'[loop[cl[n]]["client"][n]])
                 PROVE  out'[loop[cl[n]]["client"][n]][i].guid = call[cl[n]][n]
      BY <1>5 DEF Hears
    <2> DEFINE c == loop[cl[n]]["client"][n]
    <2>1. /\ cl[n] \in Routers /\ c \in Chans /\ Home[c] = cl[n]
          /\ sub[c] = [type |-> "RESPONSERECEIVER", name |-> n, tx |-> c]
      BY DEF OneClient, AInv, Known, LoopsKnown, Roles, TypeOf
    <2> HIDE DEF c
    <2>2. i \in 1..Len(out'[c]) /\ i \in Nat /\ rd[c] + 1 <= i
      BY <1>4, <2>1 DEF c
    <2>3. CASE i \in 1..Len(out[c]) /\ out'[c][i] = out[c][i]
      <3>1. i \in (rd[c] + 1)..Len(out[c])
        BY <1>4, <2>1, <2>2, <2>3
      <3>2. QED
        BY <2>3, <3>1 DEF AInv, AnswerInv, Hears, c
    <2>4. CASE out'[c][i] = p /\ c \in cs
      <3>1. /\ r = cl[n] /\ p.guid \notin processed[r]
            /\ sub[c] = [type |-> TypeFor[p.action], name |-> p.name, tx |-> c]
        BY <1>1, <1>2, <2>1, <2>4 DEF Handles
      <3>2. TypeFor[p.action] = "RESPONSERECEIVER" /\ p.name = n
        BY <2>1, <3>1
      <3>3. p.action = "Response" /\ p.guid \in Guids
        BY <3>2 DEF TypeFor, Packet, Actions
      <3>4. UnderWay(n, p.guid)
        BY <1>3, <3>2, <3>3 DEF UnderWay, Concerns
      <3>5. call[cl[n]][n] = p.guid
        BY <3>1, <3>3, <3>4 DEF AInv, AnswerInv, Expected
      <3>6. QED
        BY <2>4, <3>5 DEF c
    <2>5. QED
      BY <1>4, <2>1, <2>2, <2>3, <2>4
  <1>10. AnswerMatches'
    BY <1>5 DEF AInv, AnswerInv, AnswerMatches
  <1>11. QED
    BY <1>8, <1>9, <1>10 DEF AnswerInv

\* A new call: nothing else is under way that its client would still hear.
LEMMA AnswerAsk ==
  ASSUME NEW cl, OneClient(cl), AInv(cl), RTypeOK',
         NEW r \in Routers, NEW n \in Names, NEW g \in Guids, AskService(r, n, g)
  PROVE  AnswerInv(cl)'
  <1>1. RTypeOK /\ Known
    BY DEF AInv, Base
  <1>2. r = cl[n]
    BY <1>1, ClientAt DEF AskService
  <1>3. /\ call[r][n] = Idle /\ call' = [call EXCEPT ![r][n] = g]
        /\ UNCHANGED <<loop, up, rd, answers, serving>>
    BY DEF AskService
  <1>4. RequestOf(n, g) \in Packet /\ Hands(r, RequestOf(n, g))
    BY <1>1, WhatIsHanded
  <1>5. /\ \A q \in Routers : \A i \in 1..Len(fibQueue'[q]) :
              \/ i \in 1..Len(fibQueue[q]) /\ fibQueue'[q][i] = fibQueue[q][i]
              \/ q = r /\ i = Len(fibQueue[r]) + 1 /\ fibQueue'[q][i] = RequestOf(n, g)
        /\ UNCHANGED <<processed, out, open>>
    BY <1>1, <1>4, HandsEffect
  <1>6. \A q \in Routers, m \in Names : call'[q][m] = IF q = r /\ m = n THEN g ELSE call[q][m]
    BY <1>1, <1>3 DEF RTypeOK
  <1>7. \A c \in Chans : rd[c] <= rd'[c]
    BY <1>1, <1>3 DEF RTypeOK
  <1>8. Expected(cl)'
    <2> SUFFICES ASSUME NEW m \in Names, NEW h \in Guids, UnderWay(m, h)'
                 PROVE  call'[cl[m]][m] = h \/ h \in processed[cl[m]]
      BY <1>5 DEF Expected
    <2>1. CASE m = n /\ h = g
      BY <1>2, <1>6, <2>1 DEF OneClient
    <2>2. CASE ~(m = n /\ h = g)
      <3>1. ~Concerns(RequestOf(n, g), m, h)
        BY <2>2 DEF Concerns, RequestOf
      <3>2. \A q \in Routers : \A i \in 1..Len(fibQueue'[q]) :
              \/ \E k \in 1..Len(fibQueue[q]) : fibQueue'[q][i] = fibQueue[q][k]
              \/ ~Concerns(fibQueue'[q][i], m, h)
              \/ UnderWay(m, h)
        BY <1>5, <3>1
      <3>3. UnderWay(m, h)
        BY <1>1, <1>3, <1>5, <1>7, <3>2, UnderWayFewer DEF Readable
      <3>4. call[cl[m]][m] = h \/ h \in processed[cl[m]]
        BY <3>3 DEF AInv, AnswerInv, Expected
      <3>5. h # Idle
        BY RosAssumption
      <3>6. QED
        BY <1>2, <1>3, <1>6, <3>4, <3>5 DEF OneClient
    <2>3. QED
      BY <2>1, <2>2
  <1>9. Hears(cl)'
    <2>1. \A m \in Names : call[cl[m]][m] \in {call'[cl[m]][m], Idle}
      BY <1>3, <1>6 DEF OneClient
    <2>2. QED
      BY <1>3, <1>5, <1>7, <2>1, HearsQuiet
  <1>10. AnswerMatches'
    BY <1>3 DEF AInv, AnswerInv, AnswerMatches
  <1>11. QED
    BY <1>8, <1>9, <1>10 DEF AnswerInv

\* The client takes what its channel holds: it is the answer to its call, and no
\* other answer to that call will come.
LEMMA AnswerGet ==
  ASSUME NEW cl, OneClient(cl), AInv(cl), RTypeOK',
         NEW r \in Routers, NEW n \in Names, GetResponse(r, n)
  PROVE  AnswerInv(cl)'
  <1>1. RTypeOK /\ Known
    BY DEF AInv, Base
  <1> DEFINE c == loop[r]["client"][n]
  <1>2. /\ c # NoChan /\ call[r][n] # Idle /\ Unread(c) /\ Read(c)
        /\ answers' = answers \cup {[at |-> r, req |-> call[r][n], resp |-> NextOf(c).guid]}
        /\ call' = [call EXCEPT ![r][n] = Idle]
        /\ UNCHANGED <<fibVars, loop, up, serving>>
    BY DEF GetResponse, Answer
  <1>3. /\ r = cl[n] /\ c \in Chans /\ Home[c] = r /\ c \in open
        /\ sub[c] = [type |-> "RESPONSERECEIVER", name |-> n, tx |-> c]
    BY SMTT(30), <1>1, <1>2, ClientAt DEF Known, LoopsKnown, Roles, TypeOf
  <1>4. UNCHANGED <<fibQueue, processed, out, open>>
    BY <1>2 DEF fibVars
  <1>5. /\ \A d \in Chans : rd[d] \in Nat /\ rd'[d] \in Nat /\ rd[d] <= rd'[d]
                            /\ Len(out[d]) \in Nat
        /\ rd'[c] = rd[c] + 1 /\ rd[c] + 1 \in 1..Len(out[c])
        /\ rd[c] + 1 \in (rd[c] + 1)..Len(out[c])
    <2>1. \A d \in Chans : rd[d] <= rd'[d]
      BY <1>1, <1>2, <1>3, <1>4, ReadType
    <2>2. \A d \in Chans : rd[d] \in Nat /\ rd'[d] \in Nat /\ Len(out[d]) \in Nat
      BY LenProperties DEF AInv, Base, RTypeOK, TypeOK
    <2>3. rd'[c] = rd[c] + 1
      BY <1>1, <1>2, <1>3 DEF Read, RTypeOK
    <2>4. rd[c] + 1 \in 1..Len(out[c])
      BY <1>1, <1>2, <1>3, NextType
    <2>5. QED
      BY <1>3, <2>1, <2>2, <2>3, <2>4
  <1> DEFINE h == out[c][rd[c] + 1].guid
  <1> HIDE DEF c
  <1>6. call[r][n] = h /\ NextOf(c).guid = h
    BY <1>2, <1>3, <1>5 DEF AInv, AnswerInv, Hears, NextOf, c
  <1>7. h \in processed[r] /\ \A i \in (rd[c] + 2)..Len(out[c]) : out[c][i].guid # h
    <2>1. \A i \in 1..Len(out[c]) : out[c][i].action # "Request"
      <3> SUFFICES ASSUME NEW i \in 1..Len(out[c]), out[c][i].action = "Request"
                   PROVE  FALSE
        OBVIOUS
      <3>1. TypeFor["Request"] = sub[c].type
        BY <1>3, CarriedFor DEF AInv
      <3>2. QED
        BY <1>3, <3>1 DEF TypeFor, Actions
    <2>2. ASSUME NEW i \in (rd[c] + 2)..Len(out[c])
          PROVE  out[c][i].guid # h
      <3>1. i \in 1..Len(out[c]) /\ i # rd[c] + 1
        BY <1>3, <1>5
      <3>2. QED
        BY <1>3, <1>5, <2>1, <3>1 DEF AInv, Base, SafeInv, AtMostOnce
    <2>3. QED
      BY <1>3, <1>5, <2>1, <2>2 DEF AInv, Base, SafeInv, Marked
  <1> HIDE DEF h
  <1>8. AnswerMatches'
    BY <1>2, <1>6 DEF AInv, AnswerInv, AnswerMatches
  <1>9. \A q \in Routers, m \in Names :
          call'[q][m] = IF q = r /\ m = n THEN Idle ELSE call[q][m]
    BY <1>1, <1>2 DEF RTypeOK
  <1>10. Expected(cl)'
    <2> SUFFICES ASSUME NEW m \in Names, NEW g \in Guids, UnderWay(m, g)'
                 PROVE  call'[cl[m]][m] = g \/ g \in processed[cl[m]]
      BY <1>4 DEF Expected
    <2>1. UnderWay(m, g)
      BY <1>1, <1>2, <1>4, <1>5, UnderWayFewer DEF Readable
    <2>2. call[cl[m]][m] = g \/ g \in processed[cl[m]]
      BY <2>1 DEF AInv, AnswerInv, Expected
    <2>3. QED
      BY <1>3, <1>6, <1>7, <1>9, <2>2 DEF OneClient
  <1>11. Hears(cl)'
    <2> SUFFICES ASSUME NEW m \in Names, loop[cl[m]]["client"][m] # NoChan,
                        NEW i \in (rd'[loop[cl[m]]["client"][m]] + 1)
                                    ..Len(out[loop[cl[m]]["client"][m]])
                 PROVE  out[loop[cl[m]]["client"][m]][i].guid = call'[cl[m]][m]
      BY <1>2, <1>4 DEF Hears
    <2> DEFINE e == loop[cl[m]]["client"][m]
    <2>1. e \in Chans /\ cl[m] \in Routers
      BY <1>1 DEF OneClient, RTypeOK, Roles
    <2> HIDE DEF e
    <2>2. i \in (rd[e] + 1)..Len(out[e])
      BY <1>5, <2>1 DEF e
    <2>3. out[e][i].guid = call[cl[m]][m]
      BY <2>2 DEF AInv, AnswerInv, Hears, e
    <2>4. m # n
      <3> SUFFICES ASSUME m = n PROVE FALSE
        OBVIOUS
      <3>1. e = c
        BY <1>3 DEF e, c
      <3>2. i \in (rd[c] + 2)..Len(out[c])
        BY <1>3, <1>5, <3>1 DEF e
      <3>3. QED
        BY <1>3, <1>6, <1>7, <2>3, <3>1, <3>2
    <2>5. QED
      BY <1>9, <2>1, <2>3, <2>4 DEF e
  <1>12. QED
    BY <1>8, <1>10, <1>11 DEF AnswerInv

\* The client gives up: without late answers nothing of its call is under way.
LEMMA AnswerTimeout ==
  ASSUME NEW cl, OneClient(cl), AInv(cl), RTypeOK', ~LateAnswers,
         NEW r \in Routers, NEW n \in Names, CallTimeout(r, n)
  PROVE  AnswerInv(cl)'
  <1>1. RTypeOK /\ Known
    BY DEF AInv, Base
  <1> DEFINE h == call[r][n]
  <1>2. /\ h # Idle /\ ~Pending(h)
        /\ answers' = answers \cup {[at |-> r, req |-> h, resp |-> NoAnswer]}
        /\ call' = [call EXCEPT ![r][n] = Idle]
        /\ UNCHANGED <<fibVars, loop, up, rd, serving>>
    BY DEF CallTimeout, Answer
  <1>3. UNCHANGED <<fibQueue, processed, out, open>>
    BY <1>2 DEF fibVars
  <1> HIDE DEF h
  <1>4. \A q \in Routers, m \in Names :
          call'[q][m] = IF q = r /\ m = n THEN Idle ELSE call[q][m]
    BY <1>1, <1>2 DEF RTypeOK
  <1>5. AnswerMatches'
    BY <1>2 DEF AInv, AnswerInv, AnswerMatches
  <1>6. \A m \in Names : ~UnderWay(m, h)
    BY <1>2, RosAssumption DEF UnderWay, Pending, Concerns, Readable, AInv, Base, RTypeOK
  <1>7. Expected(cl)'
    <2> SUFFICES ASSUME NEW m \in Names, NEW g \in Guids, UnderWay(m, g)'
                 PROVE  call'[cl[m]][m] = g \/ g \in processed[cl[m]]
      BY <1>3 DEF Expected
    <2>1. UnderWay(m, g)
      BY <1>2, <1>3 DEF UnderWay, Readable, Concerns
    <2>2. g # h /\ (call[cl[m]][m] = g \/ g \in processed[cl[m]])
      BY <1>6, <2>1 DEF AInv, AnswerInv, Expected
    <2>3. QED
      BY <1>4, <2>2 DEF OneClient, h
  <1>8. Hears(cl)'
    <2> SUFFICES ASSUME NEW m \in Names, loop[cl[m]]["client"][m] # NoChan,
                        NEW i \in (rd[loop[cl[m]]["client"][m]] + 1)
                                    ..Len(out[loop[cl[m]]["client"][m]])
                 PROVE  out[loop[cl[m]]["client"][m]][i].guid = call'[cl[m]][m]
      BY <1>2, <1>3 DEF Hears
    <2> DEFINE e == loop[cl[m]]["client"][m]
    <2>1. e \in Chans \ NetChans /\ e \in open /\ cl[m] \in Routers
      BY <1>1 DEF OneClient, Known, LoopsKnown, Roles
    <2>2. out[e][i].guid = call[cl[m]][m]
      BY DEF AInv, AnswerInv, Hears
    <2>3. ~(cl[m] = r /\ m = n)
      BY <1>2, <2>1, <2>2 DEF Pending, h
    <2>4. QED
      BY <1>4, <2>1, <2>2, <2>3
  <1>9. QED
    BY <1>5, <1>7, <1>8 DEF AnswerInv

LEMMA AnswerStep ==
  ASSUME NEW cl, OneClient(cl), AInv(cl), Base', ~LateAnswers, [RNext]_vars
  PROVE  AnswerInv(cl)'
  <1>1. /\ RTypeOK /\ TypeOK /\ SafeInv /\ RTypeOK' /\ Known
        /\ \A c \in Chans : rd[c] \in Nat
        /\ \A n \in Names : cl[n] \in Routers
    BY DEF AInv, Base, RTypeOK, OneClient
  <1>2. ASSUME UNCHANGED <<fibQueue, processed, out, loop, call, answers, serving>>,
               \A c \in Chans : rd[c] <= rd'[c],
               \A c \in Chans : Readable(c)' => Readable(c) \/ out[c] = <<>>
        PROVE  AnswerInv(cl)'
    BY <1>1, <1>2, AnswerQuiet
  <1>3. ASSUME NEW r \in Routers, NEW p \in Packet, Hands(r, p),
               \A n \in Names, g \in Guids : Concerns(p, n, g) => UnderWay(n, g),
               \A c \in Chans : rd[c] <= rd'[c],
               UNCHANGED <<loop, up, call, answers>>,
               \A q \in Routers, n \in Names : serving'[q][n] \in {serving[q][n], Idle}
        PROVE  AnswerInv(cl)'
    <2>1. /\ \A q \in Routers : \A i \in 1..Len(fibQueue'[q]) :
                \/ i \in 1..Len(fibQueue[q]) /\ fibQueue'[q][i] = fibQueue[q][i]
                \/ q = r /\ i = Len(fibQueue[r]) + 1 /\ fibQueue'[q][i] = p
          /\ UNCHANGED <<processed, out, open>>
      BY <1>1, <1>3, HandsEffect
    <2>2. \A n \in Names, g \in Guids : \A q \in Routers : \A i \in 1..Len(fibQueue'[q]) :
           \/ \E k \in 1..Len(fibQueue[q]) : fibQueue'[q][i] = fibQueue[q][k]
           \/ ~Concerns(fibQueue'[q][i], n, g)
           \/ UnderWay(n, g)
      BY <1>3, <2>1
    <2>3. \A n \in Names, g \in Guids : \A q \in Routers :
            serving'[q][n] = g => serving[q][n] = g \/ UnderWay(n, g)
      BY <1>3, RosAssumption
    <2>4. \A c \in Chans : Readable(c)' => Readable(c)
      BY <1>3, <2>1 DEF Readable
    <2>5. QED
      BY <1>1, <1>3, <2>1, <2>2, <2>3, <2>4, AnswerQuiet
  <1>4. ASSUME NEW r \in Routers, FibStep(r)
        PROVE  AnswerInv(cl)'
    <2>1. CASE HandlePacket(r)
      BY <1>1, <1>4, <2>1, AnswerHandle DEF FibStep
    <2>2. CASE HandleUpdate(r)
      BY <1>1, <1>2, <1>4, <2>2 DEF FibStep, HandleUpdate, rosVars, Readable
    <2>3. QED
      BY <1>4, <2>1, <2>2 DEF FibStep, Step
  <1>5. ASSUME NEW u \in Offers, NEW kept, Announce(u, kept),
               up' = up \/ up' = up \cup {u.tx}
        PROVE  /\ \A c \in Chans : Readable(c)' => Readable(c) \/ out[c] = <<>>
               /\ out[u.tx] = <<>>
    <2>1. sub[u.tx] = NoUpdate /\ open' \subseteq open \cup {u.tx}
      BY <1>5 DEF Announce
    <2>2. out[u.tx] = <<>>
      BY <1>1, <2>1, UnusedIsEmpty
    <2>3. QED
      BY <1>5, <2>1, <2>2 DEF Readable
  <1>6. ASSUME NEW u \in Offers, Connect(u)
        PROVE  AnswerInv(cl)'
    <2>1. /\ Announce(u, TRUE) /\ up' = up \cup {u.tx}
          /\ UNCHANGED <<fibQueue, processed, out, loop, rd, call, answers, serving>>
      BY <1>6 DEF Connect, Announce
    <2>2. \A c \in Chans : Readable(c)' => Readable(c) \/ out[c] = <<>>
      BY <1>5, <2>1
    <2>3. QED
      BY <1>1, <1>2, <2>1, <2>2
  <1>7. ASSUME NEW c \in NetChans, Break(c) \/ Hangup(c)
        PROVE  AnswerInv(cl)'
    BY <1>1, <1>2, <1>7 DEF Break, Hangup, Close, fibVars, rosVars, Readable
  <1>8. ASSUME NEW c \in NetChans, Transfer(c)
        PROVE  AnswerInv(cl)'
    <2>1. /\ c \in Chans /\ Readable(c) /\ Unread(c) /\ Read(c)
          /\ UNCHANGED <<loop, up, call, answers, serving, out>>
      BY <1>8, RosAssumption DEF Transfer, Enqueue, Readable
    <2>2. PICK p \in Packet : p = NextOf(c) /\ Peer[c] \in Routers /\ Hands(Peer[c], p)
      BY <1>1, <1>8, WhatIsHanded
    <2>3. rd[c] + 1 \in (rd[c] + 1)..Len(out[c])
      <3>1. rd[c] + 1 \in 1..Len(out[c]) /\ rd[c] \in Nat /\ Len(out[c]) \in Nat
        BY <1>1, <2>1, NextType, LenProperties DEF TypeOK
      <3>2. QED
        BY <3>1
    <2>4. \A n \in Names, g \in Guids : Concerns(p, n, g) => UnderWay(n, g)
      BY <2>1, <2>2, <2>3 DEF UnderWay, NextOf
    <2>5. \A d \in Chans : rd[d] <= rd'[d]
      BY <1>1, <2>1, ReadType
    <2>6. QED
      BY <1>3, <2>1, <2>2, <2>4, <2>5
  <1>9. ASSUME NEW u \in Offers, NEW o \in Roles, u.type = TypeOf[o], AddTopic(u.tx, o, u.name)
        PROVE  AnswerInv(cl)'
    <2>1. u = [type |-> TypeOf[o], name |-> u.name, tx |-> u.tx]
      BY <1>9, InputAssumption DEF Update
    <2>2. /\ \E kept : Announce(u, kept)
          /\ UNCHANGED <<fibQueue, processed, out, up, rd, call, answers, serving>>
          /\ \/ loop' = [loop EXCEPT ![Home[u.tx]][o][u.name] = u.tx]
             \/ loop' = loop
      BY <1>9, <2>1 DEF AddTopic, Announce
    <2>3. /\ \A c \in Chans : Readable(c)' => Readable(c) \/ out[c] = <<>>
          /\ out[u.tx] = <<>>
      BY <1>5, <2>2
    <2>4. \A q \in Routers, n \in Names :
            loop'[q]["client"][n] \in {loop[q]["client"][n], u.tx}
      BY <1>1, <2>2, LoopAdded DEF Roles
    <2>5. \A n \in Names :
            \/ loop'[cl[n]]["client"][n] \in {loop[cl[n]]["client"][n], NoChan}
            \/ out[loop'[cl[n]]["client"][n]] = <<>>
      BY <1>1, <2>3, <2>4
    <2>6. QED
      BY <1>1, <2>2, <2>3, <2>5, AnswerQuiet
  <1>10. ASSUME NEW r \in Routers, NEW n \in Names, NEW g \in Guids, PublishMessage(r, n, g)
         PROVE  AnswerInv(cl)'
    <2>1. ForwardOf(n, g) \in Packet /\ Hands(r, ForwardOf(n, g))
      BY <1>1, <1>10, WhatIsHanded
    <2>2. UNCHANGED <<loop, up, rd, call, answers, serving>>
      BY <1>10 DEF PublishMessage
    <2>3. \A m \in Names, h \in Guids : ~Concerns(ForwardOf(n, g), m, h)
      BY DEF Concerns, ForwardOf
    <2>4. QED
      BY <1>1, <1>3, <2>1, <2>2, <2>3
  <1>11. ASSUME NEW r \in Routers, NEW n \in Names, DeliverMessage(r, n)
         PROVE  AnswerInv(cl)'
    <2> DEFINE c == loop[r]["sub"][n]
    <2>1. /\ c # NoChan /\ Unread(c) /\ Read(c)
          /\ UNCHANGED <<fibVars, loop, up, call, answers, serving>>
      BY <1>11 DEF DeliverMessage
    <2>2. c \in Chans
      BY <1>1, <2>1 DEF RTypeOK, Roles
    <2>3. \A d \in Chans : rd[d] <= rd'[d]
      BY <1>1, <2>1, <2>2, ReadType DEF fibVars
    <2>4. QED
      BY <1>2, <2>1, <2>3 DEF fibVars, Readable
  <1>12. ASSUME NEW r \in Routers, NEW n \in Names, SendResponse(r, n)
         PROVE  AnswerInv(cl)'
    <2>1. PICK g \in Guids : g = serving[r][n]
      BY <1>1, <1>12, WhatIsHanded
    <2>2. ResponseOf(n, g) \in Packet /\ Hands(r, ResponseOf(n, g))
      BY <1>1, <1>12, <2>1, WhatIsHanded
    <2>3. \A m \in Names, h \in Guids : Concerns(ResponseOf(n, g), m, h) => UnderWay(m, h)
      BY <2>1 DEF Concerns, ResponseOf, UnderWay
    <2>4. UNCHANGED <<loop, up, rd, call, answers>> /\ serving' = [serving EXCEPT ![r][n] = Idle]
      BY <1>12 DEF SendResponse
    <2>5. \A q \in Routers, m \in Names : serving'[q][m] \in {serving[q][m], Idle}
      BY <1>1, <2>4 DEF RTypeOK
    <2>6. QED
      BY <1>1, <1>3, <2>2, <2>3, <2>4, <2>5
  <1>13. ASSUME NEW r \in Routers, NEW n \in Names, CallService(r, n)
         PROVE  AnswerInv(cl)'
    <2> DEFINE c == loop[r]["service"][n]
    <2>1. /\ c # NoChan /\ Unread(c) /\ Read(c)
          /\ UNCHANGED <<fibVars, loop, up, call, answers>>
          /\ \/ UNCHANGED serving
             \/ /\ NextOf(c).action = "Request" /\ NextOf(c).name = n
                /\ serving' = [serving EXCEPT ![r][n] = NextOf(c).guid]
      BY <1>13 DEF CallService
    <2>2. c \in Chans /\ c \notin NetChans /\ c \in open
      BY <1>1, <2>1 DEF Known, LoopsKnown, Roles
    <2>3. \A d \in Chans : rd[d] <= rd'[d]
      BY <1>1, <2>1, <2>2, ReadType DEF fibVars
    <2>4. rd[c] + 1 \in (rd[c] + 1)..Len(out[c])
      <3>1. rd[c] + 1 \in 1..Len(out[c]) /\ rd[c] \in Nat /\ Len(out[c]) \in Nat
        BY <1>1, <2>1, <2>2, NextType, LenProperties DEF TypeOK
      <3>2. QED
        BY <3>1
    <2>5. ASSUME NEW m \in Names, NEW g \in Guids, NEW q \in Routers,
                 serving'[q][m] = g, serving[q][m] # g
          PROVE  UnderWay(m, g)
      <3>1. q = r /\ m = n /\ NextOf(c).action = "Request" /\ NextOf(c).name = n
              /\ NextOf(c).guid = g
        BY <1>1, <2>1, <2>5 DEF RTypeOK
      <3>2. QED
        BY <2>2, <2>4, <3>1 DEF UnderWay, Concerns, Readable, NextOf
    <2>6. UNCHANGED <<fibQueue, processed, out, open>>
      BY <2>1 DEF fibVars
    <2>7. QED
      BY <1>1, <2>1, <2>3, <2>5, <2>6, AnswerQuiet DEF Readable
  <1>14. ASSUME NEW r \in Routers, RestartRouter(r)
         PROVE  AnswerInv(cl)'
    <2>1. /\ r \in Crashing /\ UNCHANGED <<out, rd, answers>>
          /\ fibQueue' = [fibQueue EXCEPT ![r] = <<>>]
          /\ processed' = [processed EXCEPT ![r] = {}]
          /\ open' = {c \in open : Home[c] # r}
          /\ up' = {c \in up : Home[c] # r /\ Peer[c] # r}
          /\ loop' = [loop EXCEPT ![r] = [o \in Roles |-> [n \in Names |-> NoChan]]]
          /\ call' = [call EXCEPT ![r] = [n \in Names |-> Idle]]
          /\ serving' = [serving EXCEPT ![r] = [n \in Names |-> Idle]]
      BY <1>14 DEF RestartRouter, Restart
    <2>2. \A n \in Names : cl[n] # r
      BY <2>1 DEF OneClient
    <2>3. \A q \in Routers :
            /\ q # r => UNCHANGED <<fibQueue[q], processed[q], loop[q], call[q], serving[q]>>
            /\ fibQueue'[q] = IF q = r THEN <<>> ELSE fibQueue[q]
            /\ \A n \in Names : serving'[q][n] \in {serving[q][n], Idle}
      BY <1>1, <2>1 DEF RTypeOK, TypeOK
    <2>4. /\ \A q \in Routers : \A i \in 1..Len(fibQueue'[q]) :
               \E k \in 1..Len(fibQueue[q]) : fibQueue'[q][i] = fibQueue[q][k]
          /\ \A n \in Names, g \in Guids : \A q \in Routers :
               serving'[q][n] = g => serving[q][n] = g
          /\ \A c \in Chans : Readable(c)' => Readable(c)
      BY <2>1, <2>3, RosAssumption DEF Readable
    <2>5. \A n \in Names : /\ processed'[cl[n]] = processed[cl[n]]
                           /\ call'[cl[n]][n] = call[cl[n]][n]
                           /\ loop'[cl[n]]["client"][n] = loop[cl[n]]["client"][n]
      BY <1>1, <2>2, <2>3
    <2>6. QED
      BY <1>1, <2>1, <2>4, <2>5, AnswerQuiet
  <1>15. CASE UNCHANGED vars
    BY <1>1, <1>2, <1>15 DEF vars, fibVars, rosVars, Readable
  <1>16. QED
    BY <1>1, <1>4, <1>6, <1>7, <1>8, <1>9, <1>10, <1>11, <1>12, <1>13, <1>14, <1>15,
       AnswerAsk, AnswerGet, AnswerTimeout
    DEF RNext

\* A ROS caller is given the answer to its own request or an empty one, though
\* the loop takes whatever comes, several servers answer and some of them come
\* back from a restart.  It holds when a service has one client router, which
\* does not restart, and no answer is late: the code does not tell a late
\* answer from the one to the next call.
THEOREM RightAnswer ==
  ASSUME NEW cl, OneClient(cl), ~LateAnswers
  PROVE  RSpec => []AnswerMatches
  <1>1. RInit => AInv(cl)
    <2> SUFFICES ASSUME RInit PROVE AnswerInv(cl)
      BY BaseInit, KnownInit DEF AInv
    <2>1. /\ \A r \in Routers : Len(fibQueue[r]) = 0
          /\ \A c \in Chans : Len(out[c]) = 0 /\ rd[c] = 0
          /\ \A r \in Routers, n \in Names : serving[r][n] = Idle
          /\ answers = {}
      BY DEF RInit
    <2>2. \A n \in Names, g \in Guids : ~UnderWay(n, g)
      BY <2>1, RosAssumption DEF UnderWay
    <2>3. \A n \in Names : loop[cl[n]]["client"][n] # NoChan =>
            loop[cl[n]]["client"][n] \in Chans
      BY BaseInit DEF OneClient, Base, RTypeOK, Roles
    <2>4. QED
      BY <2>1, <2>2, <2>3 DEF AnswerInv, AnswerMatches, Expected, Hears
  <1>2. AInv(cl) /\ [RNext]_vars => AInv(cl)'
    <2> SUFFICES ASSUME AInv(cl), [RNext]_vars PROVE AInv(cl)'
      OBVIOUS
    <2>1. Base' /\ Known'
      BY BaseStep, KnownStep DEF AInv
    <2>2. AnswerInv(cl)'
      BY <2>1, AnswerStep
    <2>3. QED
      BY <2>1, <2>2 DEF AInv
  <1>3. AInv(cl) => AnswerMatches
    BY DEF AInv, AnswerInv
  <1>4. QED
    BY <1>1, <1>2, <1>3, PTL DEF RSpec
===============================================================================
