-------------------------- MODULE RendezvousProofs ---------------------------
(***************************************************************************)
(* Proofs, for any registrations and any bounds, that a sender's FIB is    *)
(* only given connections that a receiver has read at, and of the types,   *)
(* which count messages: a registration is told of another twice at the    *)
(* most, and a connection carries one ping and one pong.                   *)
(***************************************************************************)
EXTENDS Rendezvous, SequenceTheorems, WellFoundedInduction, TLAPS

\* The part of the types that the argument needs: it counts no messages.
Shape ==
  /\ pc \in [Regs -> {"idle", "started", "failed", "listening", "subscribed",
                      "reading", "ended", "down"}]
  /\ met \in [Regs -> [Regs -> Nat]]
  /\ snd \in [Conns -> {"none", "pinged", "up", "late", "spinning", "closed", "gone"}]
  /\ rcv \in [Conns -> {"none", "added", "up", "closed", "gone"}]
  /\ toS \in [Conns -> Seq({"ping", "pong"})]
  /\ toR \in [Conns -> Seq({"ping", "pong"})]

\* A receiver reads at the other end of c, or has read there.
HasReader(c) == rcv[c] \in {"up", "closed", "gone"}

\* A pong on its way has been said by a reader.
Pong(c) == \E i \in 1..Len(toS[c]) : toS[c][i] = "pong"
PongsAreSaid == \A c \in Conns : Pong(c) => HasReader(c)

\* Nobody has made the connections that are still to be made: a receiver that
\* begins one does not begin it again at one that is up.
Unmade(c) ==
  /\ snd[c] \in {"none", "gone"} /\ rcv[c] = "none"
  /\ toS[c] = <<>> /\ toR[c] = <<>>
Fresh == \A c \in Conns : c.k > met[c.by][c.to] => Unmade(c)

IInv == Shape /\ SenderHasReader /\ PongsAreSaid /\ Fresh

-----------------------------------------------------------------------------

\* The ends of a connection are registrations.
LEMMA ConnEnds ==
  ASSUME NEW c \in Conns
  PROVE  /\ c.by \in Regs /\ c.to \in Regs /\ c.k \in 1..2
         /\ SenderOf(c) \in Regs /\ ReceiverOf(c) \in Regs
  BY DEF Conns, SenderOf, ReceiverOf

LEMMA InitIInv == Init => IInv
  <1> SUFFICES ASSUME Init PROVE IInv
    OBVIOUS
  <1>1. Shape
    <2>1. <<>> \in Seq({"ping", "pong"})
      BY EmptySeq
    <2>2. QED
      BY <2>1 DEF Init, Shape
  <1>2. \A c \in Conns : toS[c] = <<>> /\ toR[c] = <<>> /\ snd[c] = "none" /\ rcv[c] = "none"
    BY DEF Init
  <1>3. SenderHasReader /\ PongsAreSaid /\ Fresh
    BY <1>2 DEF SenderHasReader, PongsAreSaid, Pong, Fresh, Unmade
  <1>4. QED
    BY <1>1, <1>3 DEF IInv

\* A task that goes on does nothing to the connections.
LEMMA GoesOn ==
  ASSUME IInv, NEW r \in Regs, NEW from,
         NEW to \in {"started", "failed", "listening", "subscribed", "reading", "ended"},
         Goes(r, from, to), UNCHANGED <<met, endVars>>
  PROVE  IInv'
  <1>1. Shape'
    BY DEF IInv, Shape, Goes, endVars
  <1>2. Fresh' /\ SenderHasReader' /\ PongsAreSaid'
    BY DEF IInv, Fresh, Unmade, SenderHasReader, PongsAreSaid, HasReader, Pong, endVars
  <1>3. QED
    BY <1>1, <1>2 DEF IInv

\* Reading a candidate makes one connection that was not made before.
LEMMA MakesFresh ==
  ASSUME IInv, NEW r \in Regs, NEW p, Told(r, p), pc' = pc, toS' = toS,
         NEW c, c = NewConn(r, p),
         \/ snd' = snd /\ toR' = toR /\ rcv' \in {rcv, [rcv EXCEPT ![c] = "added"]}
         \/ snd' = [snd EXCEPT ![c] = "pinged"] /\ toR' = [toR EXCEPT ![c] = <<"ping">>]
            /\ rcv' = rcv
  PROVE  IInv'
  <1>0. /\ met' \in [Regs -> [Regs -> Nat]]
        /\ \A x, y \in Regs : met'[x][y] >= met[x][y]
        /\ p \in Regs => met'[r][p] = met[r][p] + 1
    <2>1. met \in [Regs -> [Regs -> Nat]] /\ met' = [met EXCEPT ![r][p] = @ + 1]
      BY DEF Told, IInv, Shape
    <2>2. CASE p \in Regs
      <3>1. met'[r] = [met[r] EXCEPT ![p] = met[r][p] + 1]
        BY <2>1
      <3>2. \A y \in Regs : met'[r][y] = IF y = p THEN met[r][p] + 1 ELSE met[r][y]
        BY <2>1, <2>2, <3>1
      <3>3. met'[r] \in [Regs -> Nat]
        BY <2>1, <2>2, <3>1
      <3>4. \A x \in Regs : x # r => met'[x] = met[x]
        BY <2>1
      <3>5. QED
        BY <2>1, <2>2, <3>2, <3>3, <3>4
    <2>3. CASE p \notin Regs
      <3>1. met'[r] = met[r] /\ \A x \in Regs : x # r => met'[x] = met[x]
        BY <2>1, <2>3
      <3>2. \A x \in Regs : met'[x] \in [Regs -> Nat]
        BY <2>1, <3>1
      <3>3. \A x, y \in Regs : met'[x][y] = met[x][y] /\ met[x][y] \in Nat
        BY <2>1, <3>1
      <3>4. QED
        BY <2>1, <2>3, <3>2, <3>3
    <2>4. QED
      BY <2>2, <2>3
  <1>1. Shape'
    <2>1. met' \in [Regs -> [Regs -> Nat]]
      BY <1>0
    <2>2. <<"ping">> \in Seq({"ping", "pong"})
      OBVIOUS
    <2>3. QED
      BY ZenonT(30), <2>1, <2>2 DEF IInv, Shape
  <1>2. c \in Conns => Unmade(c)
    BY DEF NewConn, IInv, Shape, Fresh, Conns
  <1>3. ASSUME NEW d \in Conns, d # c
        PROVE  snd'[d] = snd[d] /\ rcv'[d] = rcv[d] /\ toR'[d] = toR[d]
    BY <1>3 DEF IInv, Shape
  <1>4. SenderHasReader'
    <2> SUFFICES ASSUME NEW d \in Conns, snd'[d] = "up" PROVE HasReader(d)'
      BY DEF SenderHasReader, HasReader
    <2>1. CASE d = c
      BY <2>1, <1>2 DEF Unmade, IInv, Shape
    <2>2. CASE d # c
      BY <2>2, <1>3 DEF IInv, SenderHasReader, HasReader
    <2>3. QED
      BY <2>1, <2>2
  <1>5. PongsAreSaid'
    <2> SUFFICES ASSUME NEW d \in Conns, Pong(d)' PROVE HasReader(d)'
      BY DEF PongsAreSaid
    <2>1. Pong(d)
      BY DEF Pong
    <2>2. d # c
      BY <2>1, <1>2 DEF Pong, Unmade
    <2>3. QED
      BY <2>1, <2>2, <1>3 DEF IInv, PongsAreSaid, HasReader
  <1>6. Fresh'
    <2> SUFFICES ASSUME NEW d \in Conns, d.k > met'[d.by][d.to] PROVE Unmade(d)'
      BY DEF Fresh
    <2>1. met'[d.by][d.to] >= met[d.by][d.to]
      BY <1>0, ConnEnds
    <2>2. d # c
      <3> SUFFICES ASSUME d = c PROVE FALSE
        OBVIOUS
      <3>1. d.by = r /\ d.to = p /\ d.k = met[r][p] + 1 /\ p \in Regs
        BY ConnEnds DEF NewConn
      <3>2. met'[r][p] = met[r][p] + 1
        BY <1>0, <3>1
      <3>3. QED
        BY <3>1, <3>2 DEF IInv, Shape
    <2>3. d.k > met[d.by][d.to]
      <3>1. d.by \in Regs /\ d.to \in Regs /\ d.k \in Nat
        BY ConnEnds
      <3>2. met[d.by][d.to] \in Nat
        BY <3>1 DEF IInv, Shape
      <3>3. met'[d.by][d.to] \in Nat
        BY <1>0, <3>1
      <3>4. QED
        BY <2>1, <3>1, <3>2, <3>3
    <2>4. QED
      BY <2>2, <2>3, <1>3 DEF IInv, Fresh, Unmade
  <1>7. QED
    BY <1>1, <1>4, <1>5, <1>6 DEF IInv

\* A step at the ends of c leaves the others alone, and c has been made.
LEMMA AtOneConnection ==
  ASSUME IInv, NEW c \in Conns, UNCHANGED <<pc, met>>, Shape',
         \A d \in Conns \ {c} : /\ snd'[d] = snd[d] /\ rcv'[d] = rcv[d]
                                /\ toS'[d] = toS[d] /\ toR'[d] = toR[d],
         ~Unmade(c),
         snd'[c] = "up" \/ Pong(c)' => HasReader(c)'
  PROVE  IInv'
  <1>1. SenderHasReader'
    BY DEF IInv, SenderHasReader, HasReader
  <1>2. PongsAreSaid'
    BY DEF IInv, PongsAreSaid, Pong, HasReader
  <1>3. Fresh'
    BY DEF IInv, Fresh, Unmade
  <1>4. QED
    BY <1>1, <1>2, <1>3 DEF IInv

LEMMA StepIInv == IInv /\ [Next]_vars => IInv'
  <1> SUFFICES ASSUME IInv, [Next]_vars PROVE IInv'
    OBVIOUS
  <1>1. ASSUME NEW r \in Regs,
               \/ HandleSenderRouting(r) \/ HandleReceiverRouting(r) \/ Unreachable(r)
               \/ BindListeners(r) \/ Subscribe(r) \/ Publish(r) \/ PublishFails(r)
               \/ ReadEnds(r)
        PROVE  IInv'
    BY <1>1, GoesOn DEF HandleSenderRouting, HandleReceiverRouting, Unreachable,
       BindListeners, Stun, Subscribe, Publish, PublishFails, ReadEnds
  <1>2. ASSUME NEW r \in Regs, \/ TellPublished(r) \/ PublishLost(r) \/ Listen(r)
                               \/ Cleanup(r) \/ TellLog(r)
        PROVE  IInv'
    <2>1. UNCHANGED <<pc, met, snd, rcv, toS, toR>>
      BY <1>2 DEF TellPublished, PublishLost, Listen, Cleanup, TellLog, endVars
    <2>2. QED
      BY <2>1 DEF IInv, Shape, SenderHasReader, PongsAreSaid, Pong, HasReader, Fresh, Unmade
  <1>3. ASSUME NEW r \in Regs, ReadAsSender(r) PROVE IInv'
    <2>1. IF Head(inbox[r]) \in hid THEN UNCHANGED <<snd, toR>>
          ELSE /\ snd' = [snd EXCEPT ![NewConn(r, Head(inbox[r]))] = "pinged"]
               /\ toR' = [toR EXCEPT ![NewConn(r, Head(inbox[r]))] = <<"ping">>]
      BY <1>3 DEF ReadAsSender
    <2>2. Told(r, Head(inbox[r])) /\ pc' = pc /\ toS' = toS /\ rcv' = rcv
      BY <1>3 DEF ReadAsSender
    <2>3. QED
      BY <2>1, <2>2, MakesFresh
  <1>4. ASSUME NEW r \in Regs, ReadAsReceiver(r) PROVE IInv'
    <2>1. /\ Told(r, Head(inbox[r])) /\ pc' = pc /\ toS' = toS /\ snd' = snd /\ toR' = toR
          /\ rcv' \in {rcv, [rcv EXCEPT ![NewConn(r, Head(inbox[r]))] = "added"]}
      BY <1>4 DEF ReadAsReceiver
    <2>2. QED
      BY <2>1, MakesFresh
  <1>5. ASSUME NEW r \in Regs, RouterEnds(r) PROVE IInv'
    <2>1. Shape'
      BY <1>5, ConnEnds DEF RouterEnds, IInv, Shape
    <2>2. \A c \in Conns : HasReader(c) => HasReader(c)'
      BY <1>5 DEF RouterEnds, HasReader
    <2>3. \A c \in Conns : /\ snd'[c] \in {snd[c], "gone"}
                           /\ rcv[c] = "none" => rcv'[c] = "none"
      BY <1>5 DEF RouterEnds
    <2>4. SenderHasReader'
      BY <2>2, <2>3 DEF IInv, SenderHasReader, HasReader
    <2>5. PongsAreSaid'
      BY <1>5, <2>2 DEF RouterEnds, IInv, PongsAreSaid, Pong
    <2>6. Fresh'
      BY <1>5, <2>3 DEF RouterEnds, IInv, Fresh, Unmade
    <2>7. QED
      BY <2>1, <2>4, <2>5, <2>6 DEF IInv
  <1>6. ASSUME NEW c \in Conns, ConnectReceiver(c) PROVE IInv'
    <2>1. <<"ping">> \in Seq({"ping", "pong"})
      OBVIOUS
    <2>2. Shape' /\ rcv'[c] = "up"
      BY <1>6, <2>1 DEF ConnectReceiver, regVars, IInv, Shape
    <2>3. QED
      BY ZenonT(30), <1>6, <2>2, AtOneConnection
      DEF ConnectReceiver, regVars, IInv, Shape, Unmade, HasReader
  <1>7. ASSUME NEW c \in Conns, AcceptSender(c) PROVE IInv'
    <2>1. Append(toR[c], "ping") \in Seq({"ping", "pong"})
      BY AppendProperties DEF IInv, Shape
    <2>2. Shape' /\ snd'[c] = "pinged"
      BY <1>7, <2>1 DEF AcceptSender, regVars, IInv, Shape
    <2>3. Pong(c)' => HasReader(c)'
      BY <1>7 DEF AcceptSender, regVars, IInv, PongsAreSaid, Pong, HasReader
    <2>4. QED
      BY <1>7, <2>2, <2>3, AtOneConnection DEF AcceptSender, regVars, IInv, Shape, Unmade
  <1>8. ASSUME NEW c \in Conns, AcceptReceiver(c) PROVE IInv'
    <2>1. Shape' /\ rcv'[c] = "up"
      BY <1>8 DEF AcceptReceiver, regVars, IInv, Shape
    <2>2. QED
      BY <1>8, <2>1, AtOneConnection
      DEF AcceptReceiver, regVars, IInv, Shape, Unmade, HasReader
  <1>9. ASSUME NEW c \in Conns, AnswerPing(c) PROVE IInv'
    <2>1. /\ Append(toS[c], "pong") \in Seq({"ping", "pong"})
          /\ Tail(toR[c]) \in Seq({"ping", "pong"})
      BY <1>9, AppendProperties, HeadTailProperties DEF AnswerPing, IInv, Shape
    <2>2. Shape' /\ rcv'[c] = "up"
      BY <1>9, <2>1 DEF AnswerPing, regVars, IInv, Shape
    <2>3. QED
      BY <1>9, <2>2, AtOneConnection
      DEF AnswerPing, regVars, IInv, Shape, Unmade, HasReader
  <1>10. ASSUME NEW c \in Conns, ReadReply(c) PROVE IInv'
    <2>1. toS[c] \in Seq({"ping", "pong"}) /\ toS[c] # <<>>
      BY <1>10 DEF ReadReply, IInv, Shape
    <2>2. /\ Tail(toS[c]) \in Seq({"ping", "pong"}) /\ Head(toS[c]) = toS[c][1]
          /\ Len(Tail(toS[c])) = Len(toS[c]) - 1 /\ Len(toS[c]) \in Nat \ {0}
          /\ \A i \in 1..Len(Tail(toS[c])) : Tail(toS[c])[i] = toS[c][i + 1]
      BY <2>1, HeadTailProperties
    <2>3. Shape' /\ toS'[c] = Tail(toS[c])
      BY <1>10, <2>2 DEF ReadReply, regVars, IInv, Shape
    <2>4. snd'[c] = "up" => toS[c][1] = "pong"
      BY <1>10, <2>2 DEF ReadReply, IInv, Shape
    <2>5. Pong(c)' => Pong(c)
      BY <2>2, <2>3 DEF Pong
    <2>6. snd'[c] = "up" \/ Pong(c)' => HasReader(c)'
      BY <1>10, <2>2, <2>4, <2>5
      DEF ReadReply, regVars, IInv, PongsAreSaid, Pong, HasReader
    <2>7. QED
      BY ZenonT(60), <1>10, <2>3, <2>6, AtOneConnection DEF ReadReply, regVars, IInv, Shape, Unmade
  <1>11. ASSUME NEW c \in Conns, PingTimeout(c) PROVE IInv'
    <2>1. Shape' /\ snd'[c] = "late"
      BY <1>11 DEF PingTimeout, regVars, IInv, Shape
    <2>2. Pong(c)' => HasReader(c)'
      BY <1>11 DEF PingTimeout, regVars, IInv, PongsAreSaid, Pong, HasReader
    <2>3. ~Unmade(c)
      BY <1>11 DEF PingTimeout, Unmade
    <2>4. QED
      BY ZenonT(60), <1>11, <2>1, <2>2, <2>3, AtOneConnection DEF PingTimeout, regVars, IInv, Shape
  <1>12. ASSUME NEW c \in Conns, PingFails(c) PROVE IInv'
    <2>1. Shape' /\ snd'[c] = "closed" /\ ~Unmade(c)
      BY <1>12 DEF PingFails, regVars, IInv, Shape, Unmade
    <2>2. Pong(c)' => HasReader(c)'
      BY <1>12 DEF PingFails, regVars, IInv, PongsAreSaid, Pong, HasReader
    <2>3. QED
      BY <1>12, <2>1, <2>2, AtOneConnection DEF PingFails, regVars, IInv, Shape
  <1>13. ASSUME NEW c \in Conns, ReceiverReadsNothing(c) PROVE IInv'
    <2>1. Shape' /\ rcv'[c] = "closed" /\ rcv[c] = "up"
      BY <1>13 DEF ReceiverReadsNothing, Closes, regVars, IInv, Shape
    <2>2. ~Unmade(c) /\ HasReader(c)'
      BY <2>1 DEF Unmade, HasReader
    <2>3. QED
      BY <1>13, <2>1, <2>2, AtOneConnection
      DEF ReceiverReadsNothing, Closes, regVars, IInv, Shape
  <1>14. ASSUME NEW c \in Conns, SenderReadsNothing(c) \/ ReplyReadsNothing(c) PROVE IInv'
    <2>1. Shape' /\ snd'[c] # "up" /\ snd[c] \in {"up", "pinged"}
      BY <1>14 DEF SenderReadsNothing, ReplyReadsNothing, Closes, regVars, IInv, Shape
    <2>2. ~Unmade(c)
      BY <2>1 DEF Unmade
    <2>3. Pong(c)' => HasReader(c)'
      BY <1>14 DEF SenderReadsNothing, ReplyReadsNothing, regVars, IInv, PongsAreSaid, Pong,
         HasReader
    <2>4. QED
      BY <1>14, <2>1, <2>2, <2>3, AtOneConnection
      DEF SenderReadsNothing, ReplyReadsNothing, Closes, regVars, IInv, Shape
  <1>15. CASE UNCHANGED vars
    BY <1>15 DEF vars, regVars, endVars, IInv, Shape, SenderHasReader, PongsAreSaid,
       Pong, HasReader, Fresh, Unmade
  <1>16. QED
    BY <1>1, <1>2, <1>3, <1>4, <1>5, <1>6, <1>7, <1>8, <1>9, <1>10, <1>11, <1>12, <1>13, <1>14,
       <1>15 DEF Next

\* A connection is given to a sender's FIB only when a receiver has read its ping,
\* for any number of registrations that are told of one another in any order, with
\* lost and old candidates, slow peers, closed sessions and routers that end.
THEOREM SendersHaveReaders == Spec => []SenderHasReader
  <1>1. IInv => SenderHasReader
    BY DEF IInv
  <1>2. QED
    BY <1>1, InitIInv, StepIInv, PTL DEF Spec
-----------------------------------------------------------------------------
(* The types.  A registration is told of a candidate at most twice, and a  *)
(* connection has one ping of its sender: invariants that count so much.   *)

\* The server knows of a registration from when its task gets there.
Phases ==
  \A r \in Regs :
    /\ sub[r] # "none" => pc[r] \in {"subscribed", "reading", "ended"}
    /\ pub[r] # "none" => pc[r] \in {"reading", "ended", "down"}

\* The log has what was told, once.
LogOnce ==
  /\ \A i, j \in 1..Len(log) : log[i] = log[j] => i = j
  /\ \A i \in 1..Len(log) : pub[log[i]] = "told"

\* How often r may have been told of p by now: from the log and by broadcast.
Allowed(r, p) ==
  IF pub[p] # "told" THEN 0
  ELSE IF sub[r] = "live" \/ pc[r] = "down" THEN 2
  ELSE IF sub[r] = "listening" THEN 1 ELSE 0

\* The first k that wait come from the log, the others by broadcast.
One(b) == IF b THEN 1 ELSE 0
Among(q, p, a, b) == \E i \in a..b : q[i] = p
Split(q, k) ==
  \A i, j \in 1..Len(q) : q[i] = q[j] /\ (i <= k <=> j <= k) => i = j
Times(n, q, k, p) ==
  n + One(Among(q, p, 1, k)) + One(Among(q, p, k + 1, Len(q)))

ToldTwice ==
  \A r \in Regs : \E k \in 0..Len(inbox[r]) :
    /\ Split(inbox[r], k)
    /\ sub[r] # "live" => k = 0
    /\ \A p \in Regs : Times(met[r][p], inbox[r], k, p) <= Allowed(r, p)

\* The sender's ping is the only one that is answered.
Handshakes ==
  \A c \in Conns :
    /\ toR[c] # <<>> \/ snd[c] = "none" => toS[c] \in {<<>>, <<"ping">>}
    /\ snd[c] = "none" => toR[c] = <<>>

Counts == Phases /\ LogOnce /\ ToldTwice /\ Handshakes

LEMMA LeastNumber ==
  ASSUME NEW S \in SUBSET Nat, S # {}
  PROVE  \E x \in S : \A y \in S : x <= y
  <1>1. PICK x \in S : \A y \in S : <<y, x>> \notin OpToRel(<, Nat)
    BY NatLessThanWellFounded, WFMin
  <1>2. \A y \in S : ~(y < x)
    BY <1>1 DEF OpToRel
  <1>3. QED
    BY <1>2

\* A set of numbers with 0 and with the successors of its members has all.
LEMMA Induction ==
  ASSUME NEW S, 0 \in S, \A i \in Nat : i \in S => i + 1 \in S
  PROVE  Nat \subseteq S
  <1> SUFFICES ASSUME Nat \ S # {} PROVE FALSE
    OBVIOUS
  <1>1. PICK x \in Nat \ S : \A y \in Nat \ S : x <= y
    BY LeastNumber
  <1>2. x - 1 \in Nat /\ x - 1 \in S
    BY <1>1
  <1>3. QED
    BY <1>1, <1>2

\* f has the entries of q that are in S, for every beginning of q up to m.
Selects(f, q, S, m) ==
  f = [n \in 0..m |-> IF n = 0 THEN <<>>
                      ELSE IF q[n] \in S THEN Append(f[n - 1], q[n]) ELSE f[n - 1]]

LEMMA SelectsExists ==
  ASSUME NEW q, NEW S
  PROVE  \A m \in Nat : \E f : Selects(f, q, S, m)
  <1> DEFINE N == {m \in Nat : \E f : Selects(f, q, S, m)}
  <1>1. 0 \in N
    <2>1. Selects([n \in 0..0 |-> <<>>], q, S, 0)
      BY DEF Selects
    <2>2. QED
      BY <2>1
  <1>2. ASSUME NEW m \in Nat, m \in N PROVE m + 1 \in N
    <2>1. PICK f : Selects(f, q, S, m)
      BY <1>2
    <2> DEFINE g == [n \in 0..(m + 1) |->
                       IF n = m + 1 THEN IF q[n] \in S THEN Append(f[m], q[n]) ELSE f[m]
                       ELSE f[n]]
    <2>2. ASSUME NEW n \in 0..(m + 1)
          PROVE  g[n] = IF n = 0 THEN <<>>
                        ELSE IF q[n] \in S THEN Append(g[n - 1], q[n]) ELSE g[n - 1]
      <3>1. CASE n = m + 1
        BY <3>1
      <3>2. CASE n # m + 1
        <4>1. n \in 0..m /\ g[n] = f[n] /\ (n # 0 => n - 1 \in 0..m /\ g[n - 1] = f[n - 1])
          BY <3>2
        <4>2. f[n] = IF n = 0 THEN <<>>
                     ELSE IF q[n] \in S THEN Append(f[n - 1], q[n]) ELSE f[n - 1]
          BY <2>1, <4>1 DEF Selects
        <4>3. QED
          BY <4>1, <4>2
      <3>3. QED
        BY <3>1, <3>2
    <2>3. g = [n \in 0..(m + 1) |-> g[n]]
      OBVIOUS
    <2> HIDE DEF g
    <2>4. Selects(g, q, S, m + 1)
      BY <2>2, <2>3 DEF Selects
    <2>5. QED
      BY <2>4
  <1>3. Nat \subseteq N
    <2> HIDE DEF N
    <2>1. QED
      BY <1>1, <1>2, Induction
  <1>4. QED
    BY <1>3

\* What is selected from a log without repetitions.
LEMMA LogForEffect ==
  ASSUME NEW r \in Regs, log \in Seq(Regs), LogOnce
  PROVE  /\ LogFor(r) \in Seq(Flip(r))
         /\ \A i, j \in 1..Len(LogFor(r)) : LogFor(r)[i] = LogFor(r)[j] => i = j
         /\ \A i \in 1..Len(LogFor(r)) : pub[LogFor(r)[i]] = "told"
  <1> DEFINE S == Flip(r) \ old
             h == CHOOSE f : Selects(f, log, S, Len(log))
  <1>1. Len(log) \in Nat /\ \A n \in 1..Len(log) : log[n] \in Regs
    BY LenProperties
  <1>2. Selects(h, log, S, Len(log))
    BY <1>1, SelectsExists
  <1>3. LogFor(r) = h[Len(log)]
    BY DEF LogFor, Selects
  <1> HIDE DEF h
  <1>4. \A n \in 0..Len(log) :
          h[n] = IF n = 0 THEN <<>>
                 ELSE IF log[n] \in S THEN Append(h[n - 1], log[n]) ELSE h[n - 1]
    BY <1>2 DEF Selects
  <1> DEFINE N == {n \in Nat : n \in 0..Len(log) =>
                     /\ h[n] \in Seq(S)
                     /\ \A i \in 1..Len(h[n]) : \E m \in 1..n : h[n][i] = log[m]
                     /\ \A i, j \in 1..Len(h[n]) : h[n][i] = h[n][j] => i = j}
  <1>5. 0 \in N
    <2>1. <<>> \in Seq(S) /\ Len(<<>>) = 0
      BY EmptySeq
    <2>2. h[0] = <<>>
      BY <1>1, <1>4
    <2>3. /\ h[0] \in Seq(S)
          /\ \A i \in 1..Len(h[0]) : \E m \in 1..0 : h[0][i] = log[m]
          /\ \A i, j \in 1..Len(h[0]) : h[0][i] = h[0][j] => i = j
      BY <2>1, <2>2
    <2>4. QED
      BY <2>3
  <1>6. ASSUME NEW n \in Nat, n \in N PROVE n + 1 \in N
    <2> SUFFICES ASSUME n + 1 \in 0..Len(log)
                 PROVE  /\ h[n + 1] \in Seq(S)
                        /\ \A i \in 1..Len(h[n + 1]) : \E m \in 1..(n + 1) : h[n + 1][i] = log[m]
                        /\ \A i, j \in 1..Len(h[n + 1]) : h[n + 1][i] = h[n + 1][j] => i = j
      OBVIOUS
    <2>1. /\ h[n] \in Seq(S)
          /\ \A i \in 1..Len(h[n]) : \E m \in 1..n : h[n][i] = log[m]
          /\ \A i, j \in 1..Len(h[n]) : h[n][i] = h[n][j] => i = j
      BY <1>1, <1>6
    <2>2. h[n + 1] = IF log[n + 1] \in S THEN Append(h[n], log[n + 1]) ELSE h[n]
      BY <1>4
    <2>3. CASE log[n + 1] \notin S
      BY <2>1, <2>2, <2>3
    <2>4. CASE log[n + 1] \in S
      <3> DEFINE x == log[n + 1]
                 q == h[n]
      <3>1. /\ h[n + 1] = Append(q, x) /\ Append(q, x) \in Seq(S)
            /\ Len(Append(q, x)) = Len(q) + 1 /\ Len(q) \in Nat
            /\ Append(q, x)[Len(q) + 1] = x
            /\ \A i \in 1..Len(q) : Append(q, x)[i] = q[i]
        BY <2>1, <2>2, <2>4, AppendProperties, LenProperties
      <3>2. \A i \in 1..Len(q) : q[i] # x
        <4>1. \A m \in 1..n : log[m] # log[n + 1]
          BY <1>1 DEF LogOnce
        <4>2. QED
          BY <2>1, <4>1
      <3>3. \A i \in 1..Len(q) : \E m \in 1..(n + 1) : q[i] = log[m]
        BY <2>1
      <3> HIDE DEF q, x
      <3>4. \A i, j \in 1..Len(q) : q[i] = q[j] => i = j
        BY <2>1 DEF q
      <3>5. \A i \in 1..(Len(q) + 1) : i \in 1..Len(q) \/ i = Len(q) + 1
        BY <3>1
      <3>6. \A i \in 1..(Len(q) + 1) : \E m \in 1..(n + 1) : Append(q, x)[i] = log[m]
        BY <3>1, <3>3, <3>5 DEF x
      <3>7. \A i, j \in 1..(Len(q) + 1) : Append(q, x)[i] = Append(q, x)[j] => i = j
        BY <3>1, <3>2, <3>4, <3>5
      <3>8. QED
        BY ZenonT(40), <3>1, <3>6, <3>7
    <2>5. QED
      BY <2>3, <2>4
  <1>7. Nat \subseteq N
    <2> HIDE DEF N
    <2>1. QED
      BY <1>5, <1>6, Induction
  <1>8. \A i \in 1..Len(h[Len(log)]) : \E m \in 1..Len(log) : h[Len(log)][i] = log[m]
    BY <1>1, <1>7
  <1>9. h[Len(log)] \in Seq(Flip(r))
    <2>1. h[Len(log)] \in Seq(S) /\ S \subseteq Flip(r)
      BY <1>1, <1>7
    <2> HIDE DEF S
    <2>2. Seq(S) \subseteq Seq(Flip(r))
      BY <2>1, SeqMonotonic
    <2>3. QED
      BY <2>1, <2>2
  <1>10. \A i, j \in 1..Len(h[Len(log)]) : h[Len(log)][i] = h[Len(log)][j] => i = j
    BY <1>1, <1>7
  <1>11. \A i \in 1..Len(h[Len(log)]) : pub[h[Len(log)][i]] = "told"
    BY <1>8 DEF LogOnce
  <1> HIDE DEF N, S
  <1>12. QED
    BY <1>3, <1>9, <1>10, <1>11

-----------------------------------------------------------------------------
(* What waits for a registration.                                          *)

LEMMA AppendSplit ==
  ASSUME NEW S, NEW q \in Seq(S), NEW x \in S, NEW k \in 0..Len(q), Split(q, k),
         \A i \in 1..Len(q) : q[i] # x
  PROVE  LET a == Append(q, x) IN
         /\ a \in Seq(S) /\ k \in 0..Len(a) /\ Split(a, k)
         /\ \A y : Among(a, y, 1, k) <=> Among(q, y, 1, k)
         /\ \A y : Among(a, y, k + 1, Len(a)) <=> Among(q, y, k + 1, Len(q)) \/ y = x
  <1> DEFINE a == Append(q, x)
  <1>1. /\ Len(q) \in Nat /\ a \in Seq(S) /\ Len(a) = Len(q) + 1
        /\ a[Len(q) + 1] = x /\ \A i \in 1..Len(q) : a[i] = q[i]
    BY AppendProperties, LenProperties
  <1> HIDE DEF a
  <1>2. \A i \in 1..Len(a) : i \in 1..Len(q) \/ i = Len(q) + 1
    BY <1>1
  <1>3. Split(a, k)
    BY <1>1, <1>2 DEF Split
  <1>4. \A y : Among(a, y, 1, k) <=> Among(q, y, 1, k)
    BY <1>1 DEF Among
  <1>5. \A y : Among(a, y, k + 1, Len(a)) <=> Among(q, y, k + 1, Len(q)) \/ y = x
    BY <1>1, <1>2 DEF Among
  <1>6. QED
    BY <1>1, <1>3, <1>4, <1>5 DEF a

LEMMA ConcatSplit ==
  ASSUME NEW S, NEW q \in Seq(S), NEW e \in Seq(S), Split(q, 0),
         \A i, j \in 1..Len(e) : e[i] = e[j] => i = j
  PROVE  LET a == e \o q IN
         /\ a \in Seq(S) /\ Len(e) \in 0..Len(a) /\ Split(a, Len(e))
         /\ \A y : Among(a, y, 1, Len(e)) <=> \E i \in 1..Len(e) : e[i] = y
         /\ \A y : Among(a, y, Len(e) + 1, Len(a)) <=> Among(q, y, 1, Len(q))
  <1> DEFINE a == e \o q
  <1>1. /\ Len(q) \in Nat /\ Len(e) \in Nat /\ a \in Seq(S) /\ Len(a) = Len(e) + Len(q)
        /\ \A i \in 1..(Len(e) + Len(q)) : a[i] = IF i <= Len(e) THEN e[i] ELSE q[i - Len(e)]
    BY ConcatProperties, LenProperties
  <1> HIDE DEF a
  <1>2. \A i \in 1..Len(q) : i + Len(e) \in (Len(e) + 1)..Len(a) /\ a[i + Len(e)] = q[i]
    <2> SUFFICES ASSUME NEW i \in 1..Len(q)
                 PROVE  i + Len(e) \in (Len(e) + 1)..Len(a) /\ a[i + Len(e)] = q[i]
      OBVIOUS
    <2>1. /\ i + Len(e) \in (Len(e) + 1)..Len(a) /\ i + Len(e) \in 1..(Len(e) + Len(q))
          /\ ~(i + Len(e) <= Len(e)) /\ (i + Len(e)) - Len(e) = i
      BY <1>1
    <2>2. a[i + Len(e)] = q[(i + Len(e)) - Len(e)]
      BY <1>1, <2>1
    <2>3. QED
      BY <2>1, <2>2
  <1>3. \A i \in (Len(e) + 1)..Len(a) : i - Len(e) \in 1..Len(q) /\ a[i] = q[i - Len(e)]
    BY <1>1
  <1>4. \A i \in 1..Len(e) : i \in 1..Len(a) /\ a[i] = e[i]
    BY <1>1
  <1>5. Split(a, Len(e))
    <2> SUFFICES ASSUME NEW i \in 1..Len(a), NEW j \in 1..Len(a),
                        a[i] = a[j], i <= Len(e) <=> j <= Len(e)
                 PROVE  i = j
      BY DEF Split
    <2>1. CASE i <= Len(e)
      <3>1. i \in 1..Len(e) /\ j \in 1..Len(e)
        BY <1>1, <2>1
      <3>2. QED
        BY <1>4, <3>1
    <2>2. CASE ~(i <= Len(e))
      <3>1. i \in (Len(e) + 1)..Len(a) /\ j \in (Len(e) + 1)..Len(a)
        BY <1>1, <2>2
      <3>2. /\ i - Len(e) \in 1..Len(q) /\ j - Len(e) \in 1..Len(q)
            /\ q[i - Len(e)] = q[j - Len(e)]
        BY <1>3, <3>1
      <3>3. i - Len(e) <= 0 <=> j - Len(e) <= 0
        BY <1>1, <2>2
      <3>4. i - Len(e) = j - Len(e)
        BY <3>2, <3>3 DEF Split
      <3>5. QED
        BY <1>1, <3>4
    <2>3. QED
      BY <2>1, <2>2
  <1>6. \A y : Among(a, y, 1, Len(e)) <=> \E i \in 1..Len(e) : e[i] = y
    BY <1>4 DEF Among
  <1>7. \A y : Among(a, y, Len(e) + 1, Len(a)) <=> Among(q, y, 1, Len(q))
    BY <1>2, <1>3 DEF Among
  <1>8. QED
    BY <1>1, <1>5, <1>6, <1>7 DEF a

LEMMA TailSplit ==
  ASSUME NEW S, NEW q \in Seq(S), q # <<>>, NEW k \in 0..Len(q), Split(q, k)
  PROVE  LET t == Tail(q)
             j == IF k = 0 THEN 0 ELSE k - 1 IN
         /\ t \in Seq(S) /\ j \in 0..Len(t) /\ Split(t, j)
         /\ \A y : One(Among(t, y, 1, j)) + One(Among(t, y, j + 1, Len(t))) + One(y = Head(q))
                     = One(Among(q, y, 1, k)) + One(Among(q, y, k + 1, Len(q)))
  <1> DEFINE t == Tail(q)
             j == IF k = 0 THEN 0 ELSE k - 1
  <1>1. /\ t \in Seq(S) /\ Len(q) \in Nat \ {0} /\ Len(t) = Len(q) - 1 /\ Head(q) = q[1]
        /\ \A i \in 1..Len(t) : i + 1 \in 1..Len(q) /\ t[i] = q[i + 1]
        /\ k \in Nat
    BY HeadTailProperties, LenProperties
  <1>2. \A i \in 2..Len(q) : i - 1 \in 1..Len(t) /\ t[i - 1] = q[i]
    BY <1>1
  <1>3. j \in 0..Len(t) /\ (k = 0 => j = 0) /\ (k # 0 => j = k - 1)
    BY <1>1
  <1> HIDE DEF t, j
  <1>4. Split(t, j)
    <2> SUFFICES ASSUME NEW a \in 1..Len(t), NEW b \in 1..Len(t),
                        t[a] = t[b], a <= j <=> b <= j
                 PROVE  a = b
      BY DEF Split
    <2>1. a + 1 <= k <=> b + 1 <= k
      BY <1>1, <1>3
    <2>2. q[a + 1] = q[b + 1] /\ a + 1 \in 1..Len(q) /\ b + 1 \in 1..Len(q)
      BY <1>1
    <2>3. a + 1 = b + 1
      BY <2>1, <2>2 DEF Split
    <2>4. QED
      BY <1>1, <2>3
  <1>5. ASSUME NEW y
        PROVE  One(Among(t, y, 1, j)) + One(Among(t, y, j + 1, Len(t))) + One(y = Head(q))
                 = One(Among(q, y, 1, k)) + One(Among(q, y, k + 1, Len(q)))
    <2>1. CASE k = 0
      <3>1. ~Among(t, y, 1, j) /\ ~Among(q, y, 1, k)
        BY <1>1, <1>3, <2>1 DEF Among
      <3>2. Among(q, y, 1, Len(q)) <=> Among(t, y, 1, Len(t)) \/ y = Head(q)
        <4>1. ASSUME Among(q, y, 1, Len(q)) PROVE Among(t, y, 1, Len(t)) \/ y = Head(q)
          <5>1. PICK i \in 1..Len(q) : q[i] = y
            BY <4>1 DEF Among
          <5>2. i = 1 \/ i \in 2..Len(q)
            BY <1>1
          <5>3. QED
            BY <1>1, <1>2, <5>1, <5>2 DEF Among
        <4>2. ASSUME Among(t, y, 1, Len(t)) \/ y = Head(q) PROVE Among(q, y, 1, Len(q))
          BY <1>1, <4>2 DEF Among
        <4>3. QED
          BY <4>1, <4>2
      <3>3. ~(Among(t, y, 1, Len(t)) /\ y = Head(q))
        <4> SUFFICES ASSUME NEW i \in 1..Len(t), t[i] = q[1] PROVE FALSE
          BY <1>1 DEF Among
        <4>1. i + 1 \in 1..Len(q) /\ 1 \in 1..Len(q) /\ q[i + 1] = q[1]
          BY <1>1
        <4>2. i + 1 = 1
          BY <2>1, <4>1 DEF Split
        <4>3. QED
          BY <4>2
      <3>4. QED
        BY <1>3, <2>1, <3>1, <3>2, <3>3 DEF One
    <2>2. CASE k # 0
      <3>1. j = k - 1 /\ k \in 1..Len(q)
        BY <1>1, <1>3, <2>2
      <3>2. Among(q, y, k + 1, Len(q)) <=> Among(t, y, j + 1, Len(t))
        <4>1. \A i \in (k + 1)..Len(q) : i - 1 \in (j + 1)..Len(t) /\ t[i - 1] = q[i]
          BY <1>1, <1>2, <3>1
        <4>2. \A i \in (j + 1)..Len(t) : i + 1 \in (k + 1)..Len(q) /\ t[i] = q[i + 1]
          BY <1>1, <1>3, <3>1
        <4>3. QED
          BY <4>1, <4>2 DEF Among
      <3>3. Among(q, y, 1, k) <=> Among(t, y, 1, j) \/ y = Head(q)
        <4>1. ASSUME Among(q, y, 1, k) PROVE Among(t, y, 1, j) \/ y = Head(q)
          <5>1. PICK i \in 1..k : q[i] = y
            BY <4>1 DEF Among
          <5>2. i = 1 \/ (i - 1 \in 1..j /\ i \in 2..Len(q))
            BY <1>1, <3>1
          <5>3. QED
            BY <1>1, <1>2, <5>1, <5>2 DEF Among
        <4>2. ASSUME Among(t, y, 1, j) \/ y = Head(q) PROVE Among(q, y, 1, k)
          <5>1. \A i \in 1..j : i + 1 \in 1..k /\ t[i] = q[i + 1]
            BY <1>1, <1>3, <3>1
          <5>2. 1 \in 1..k /\ Head(q) = q[1]
            BY <1>1, <3>1
          <5>3. QED
            BY <4>2, <5>1, <5>2 DEF Among
        <4>3. QED
          BY <4>1, <4>2
      <3>4. ~(Among(t, y, 1, j) /\ y = Head(q))
        <4> SUFFICES ASSUME NEW i \in 1..j, t[i] = q[1] PROVE FALSE
          BY <1>1 DEF Among
        <4>1. i + 1 \in 1..Len(q) /\ 1 \in 1..Len(q) /\ q[i + 1] = q[1] /\ i + 1 <= k /\ 1 <= k
          BY <1>1, <1>3, <3>1
        <4>2. i + 1 = 1
          BY <4>1 DEF Split
        <4>3. QED
          BY <4>2
      <3>5. QED
        BY <3>2, <3>3, <3>4 DEF One
    <2>3. QED
      BY <2>1, <2>2
  <1>6. QED
    BY <1>1, <1>3, <1>4, <1>5 DEF t, j

-----------------------------------------------------------------------------
(* The steps.                                                              *)

LEMMA FlipType ==
  ASSUME NEW r \in Regs
  PROVE  Flip(r) \subseteq Regs /\ Seq(Flip(r)) \subseteq Seq(Regs)
  <1>1. Flip(r) \subseteq Regs
    BY DEF Flip, Regs
  <1>2. QED
    BY <1>1, SeqMonotonic

LEMMA TimesType ==
  ASSUME TypeOK, NEW r \in Regs, NEW q, NEW k, NEW p \in Regs
  PROVE  /\ Times(met[r][p], q, k, p) \in Nat /\ met[r][p] \in Nat
         /\ met[r][p] <= Times(met[r][p], q, k, p)
  <1>1. met[r][p] \in 0..2
    BY DEF TypeOK
  <1>2. One(Among(q, p, 1, k)) \in 0..1 /\ One(Among(q, p, k + 1, Len(q))) \in 0..1
    BY DEF One
  <1>3. QED
    BY <1>1, <1>2 DEF Times

\* A step that tells nothing: nobody has been told less than before.
LEMMA ToldKept ==
  ASSUME TypeOK, ToldTwice, met' = met,
         \A x \in Regs : inbox'[x] = <<>> \/ (inbox'[x] = inbox[x] /\ (sub[x] = "live" => sub'[x] = "live")),
         \A x, p \in Regs : Allowed(x, p) <= Allowed(x, p)'
  PROVE  ToldTwice'
  <1> SUFFICES ASSUME NEW r \in Regs
               PROVE  \E k \in 0..Len(inbox'[r]) :
                        /\ Split(inbox'[r], k)
                        /\ sub'[r] # "live" => k = 0
                        /\ \A p \in Regs : Times(met'[r][p], inbox'[r], k, p) <= Allowed(r, p)'
    BY DEF ToldTwice
  <1>1. PICK k \in 0..Len(inbox[r]) :
          /\ Split(inbox[r], k)
          /\ sub[r] # "live" => k = 0
          /\ \A p \in Regs : Times(met[r][p], inbox[r], k, p) <= Allowed(r, p)
    BY DEF ToldTwice
  <1>2. \A p \in Regs : /\ met[r][p] \in Nat /\ met[r][p] <= Allowed(r, p)
                        /\ Times(met[r][p], inbox[r], k, p) \in Nat
                        /\ Allowed(r, p) \in Nat /\ Allowed(r, p)' \in Nat
    <2> SUFFICES ASSUME NEW p \in Regs
                 PROVE  /\ met[r][p] \in Nat /\ met[r][p] <= Allowed(r, p)
                        /\ Times(met[r][p], inbox[r], k, p) \in Nat
                        /\ Allowed(r, p) \in Nat /\ Allowed(r, p)' \in Nat
      OBVIOUS
    <2>1. Allowed(r, p) \in Nat /\ Allowed(r, p)' \in Nat
      BY DEF Allowed
    <2>2. QED
      BY <1>1, <2>1, TimesType
  <1>3. CASE inbox'[r] = <<>>
    <2>1. Len(inbox'[r]) = 0
      BY <1>3
    <2>2. \A p : ~Among(inbox'[r], p, 1, 0) /\ ~Among(inbox'[r], p, 0 + 1, Len(inbox'[r]))
      BY <2>1 DEF Among
    <2>3. \A p \in Regs : Times(met'[r][p], inbox'[r], 0, p) = met[r][p]
      BY <1>2, <2>2 DEF Times, One
    <2>4. Split(inbox'[r], 0)
      BY <2>1 DEF Split
    <2>5. QED
      BY <1>2, <2>1, <2>3, <2>4
  <1>4. CASE inbox'[r] = inbox[r] /\ (sub[r] = "live" => sub'[r] = "live")
    <2>1. \A p \in Regs : Times(met'[r][p], inbox'[r], k, p) = Times(met[r][p], inbox[r], k, p)
      BY <1>4 DEF Times
    <2>2. \A p \in Regs : Times(met'[r][p], inbox'[r], k, p) <= Allowed(r, p)'
      BY <1>1, <1>2, <2>1
    <2>3. QED
      BY <1>1, <1>4, <2>2
  <1>5. QED
    BY <1>3, <1>4

\* What the task of a registration does without the server.
LEMMA TaskTypes ==
  ASSUME TypeOK, Counts, NEW r \in Regs,
         \/ HandleSenderRouting(r) \/ HandleReceiverRouting(r) \/ Unreachable(r)
         \/ BindListeners(r) \/ Subscribe(r) \/ Publish(r) \/ PublishFails(r) \/ ReadEnds(r)
  PROVE  TypeOK' /\ Counts'
  <1>1. UNCHANGED <<log, old, met, snd, rcv, toS, toR>>
    BY DEF HandleSenderRouting, HandleReceiverRouting, Unreachable, BindListeners,
       Subscribe, Publish, PublishFails, ReadEnds, endVars
  <1>2. /\ pc' \in [Regs -> {"idle", "started", "failed", "listening", "subscribed",
                             "reading", "ended", "down"}]
        /\ hid' \subseteq Hidden
        /\ sub' \in [Regs -> {"none", "sent", "listening", "live"}]
        /\ pub' \in [Regs -> {"none", "sent", "told", "lost"}]
    BY ZenonT(60) DEF HandleSenderRouting, HandleReceiverRouting, Unreachable, BindListeners, Stun,
       Subscribe, Publish, PublishFails, ReadEnds, Goes, TypeOK
  <1>3. \A x \in Regs : inbox'[x] = inbox[x] \/ (inbox'[x] = <<>> /\ x = r)
    <2>1. inbox' = inbox \/ inbox' = [inbox EXCEPT ![r] = <<>>]
      BY DEF HandleSenderRouting, HandleReceiverRouting, Unreachable, BindListeners,
         Subscribe, Publish, PublishFails, ReadEnds
    <2>2. QED
      BY <2>1 DEF TypeOK
  <1>4. inbox' \in [Regs -> Seq(Regs)] /\ \A x \in Regs : inbox'[x] \in Seq(Flip(x))
    <2>1. inbox' = inbox \/ inbox' = [inbox EXCEPT ![r] = <<>>]
      BY DEF HandleSenderRouting, HandleReceiverRouting, Unreachable, BindListeners,
         Subscribe, Publish, PublishFails, ReadEnds
    <2>2. inbox \in [Regs -> Seq(Regs)] /\ \A x \in Regs : inbox[x] \in Seq(Flip(x))
      BY DEF TypeOK
    <2>3. <<>> \in Seq(Regs) /\ \A x \in Regs : <<>> \in Seq(Flip(x))
      BY EmptySeq
    <2>4. inbox' \in [Regs -> Seq(Regs)]
      BY <2>1, <2>2, <2>3
    <2>5. QED
      BY <1>3, <2>2, <2>3, <2>4
  <1>5. TypeOK'
    BY ZenonT(30), <1>1, <1>2, <1>4 DEF TypeOK
  <1>6. Phases'
    <2>1. \A x \in Regs : x # r => pc'[x] = pc[x] /\ sub'[x] = sub[x] /\ pub'[x] = pub[x]
      BY DEF HandleSenderRouting, HandleReceiverRouting, Unreachable, BindListeners,
         Subscribe, Publish, PublishFails, ReadEnds, Goes, TypeOK
    <2>2. CASE HandleSenderRouting(r) \/ HandleReceiverRouting(r) \/ Unreachable(r)
               \/ BindListeners(r)
      <3>1. /\ pc[r] \in {"idle", "started"} /\ sub'[r] = sub[r] /\ pub'[r] = pub[r]
        BY <2>2 DEF HandleSenderRouting, HandleReceiverRouting, Unreachable, BindListeners, Goes
      <3>2. QED
        BY <2>1, <3>1 DEF Counts, Phases
    <2>3. CASE Subscribe(r)
      <3>1. /\ pc[r] = "listening" /\ pc'[r] = "subscribed" /\ pub'[r] = pub[r]
        BY <2>3 DEF Subscribe, Goes, TypeOK
      <3>2. QED
        BY <2>1, <3>1 DEF Counts, Phases
    <2>4. CASE Publish(r)
      <3>1. /\ pc'[r] = "reading"
        BY <2>4 DEF Publish, Goes, TypeOK
      <3>2. QED
        BY <2>1, <3>1 DEF Counts, Phases
    <2>5. CASE ReadEnds(r)
      <3>1. /\ pc'[r] = "ended"
        BY <2>5 DEF ReadEnds, Goes, TypeOK
      <3>2. QED
        BY <2>1, <3>1 DEF Counts, Phases
    <2>6. CASE PublishFails(r)
      <3>1. /\ pc[r] \in {"listening", "subscribed"} /\ pc'[r] = "ended" /\ sub'[r] = sub[r]
        BY <2>6 DEF PublishFails, Goes, TypeOK
      <3>2. QED
        BY <2>1, <3>1 DEF Counts, Phases
    <2>7. QED
      BY <2>2, <2>3, <2>4, <2>5, <2>6
  <1>7. /\ \A x \in Regs : sub'[x] = sub[x] \/ (sub[x] = "none" /\ sub'[x] = "sent")
        /\ \A x \in Regs : pub'[x] = pub[x] \/ (pub[x] = "none" /\ pub'[x] = "sent")
        /\ \A x \in Regs : pc[x] # "down" \/ pc'[x] = "down"
    BY DEF HandleSenderRouting, HandleReceiverRouting, Unreachable, BindListeners,
       Subscribe, Publish, PublishFails, ReadEnds, Goes, TypeOK, Counts, Phases
  <1>8. LogOnce'
    <2>1. \A i \in 1..Len(log) : log[i] \in Regs
      BY DEF TypeOK
    <2>2. QED
      BY <1>1, <1>7, <2>1 DEF Counts, LogOnce
  <1>9. ToldTwice'
    <2>1. \A x, p \in Regs : Allowed(x, p) <= Allowed(x, p)'
      BY <1>7 DEF Allowed
    <2>2. QED
      BY <1>1, <1>3, <1>7, <2>1, ToldKept DEF Counts
  <1>10. Handshakes'
    BY <1>1 DEF Counts, Handshakes
  <1>11. QED
    BY <1>5, <1>6, <1>8, <1>9, <1>10 DEF Counts

LEMMA ListenTypes ==
  ASSUME TypeOK, Counts, NEW r \in Regs, Listen(r)
  PROVE  TypeOK' /\ Counts'
  <1>1. /\ sub[r] = "sent" /\ sub' = [sub EXCEPT ![r] = "listening"]
        /\ UNCHANGED <<pc, hid, pub, log, old, inbox, met, snd, rcv, toS, toR>>
    BY DEF Listen, endVars
  <1>2. TypeOK'
    BY <1>1 DEF TypeOK
  <1>3. Phases' /\ LogOnce' /\ Handshakes'
    BY <1>1 DEF TypeOK, Counts, Phases, LogOnce, Handshakes
  <1>4. ToldTwice'
    <2>1. \A x \in Regs : sub[x] = "live" \/ sub[x] = "listening" => sub'[x] = sub[x]
      BY <1>1 DEF TypeOK
    <2>2. \A x, p \in Regs : Allowed(x, p) <= Allowed(x, p)'
      BY <1>1, <2>1 DEF Allowed
    <2>3. QED
      BY <1>1, <2>1, <2>2, ToldKept DEF Counts
  <1>5. QED
    BY <1>2, <1>3, <1>4 DEF Counts

\* A candidate that nobody will be told of.
LEMMA LostTypes ==
  ASSUME TypeOK, Counts, NEW p \in Regs, PublishLost(p)
  PROVE  TypeOK' /\ Counts'
  <1>1. /\ pub[p] = "sent" /\ pub' = [pub EXCEPT ![p] = "lost"]
        /\ UNCHANGED <<pc, hid, sub, log, old, inbox, met, snd, rcv, toS, toR>>
    BY DEF PublishLost, endVars
  <1>2. TypeOK'
    BY <1>1 DEF TypeOK
  <1>3. Phases' /\ Handshakes'
    BY <1>1 DEF TypeOK, Counts, Phases, Handshakes
  <1>4. LogOnce'
    <2>1. \A x \in Regs : pub[x] = "told" => pub'[x] = "told"
      BY <1>1 DEF TypeOK
    <2>2. \A i \in 1..Len(log) : log[i] \in Regs
      BY DEF TypeOK
    <2>3. QED
      BY <1>1, <2>1, <2>2 DEF Counts, LogOnce
  <1>5. ToldTwice'
    <2>1. \A x \in Regs : pub[x] = "told" <=> pub'[x] = "told"
      BY <1>1 DEF TypeOK
    <2>2. \A x, y \in Regs : Allowed(x, y)' = Allowed(x, y) /\ Allowed(x, y) \in Nat
      BY <1>1, <2>1 DEF Allowed
    <2>3. \A x, y \in Regs : Allowed(x, y) <= Allowed(x, y)'
      BY <2>2
    <2>4. QED
      BY <1>1, <2>3, ToldKept DEF Counts
  <1>6. QED
    BY <1>2, <1>3, <1>4, <1>5 DEF Counts

\* What is removed from the server's log has been told to as many as before.
LEMMA CleanupTypes ==
  ASSUME TypeOK, Counts, NEW p \in Regs, Cleanup(p)
  PROVE  TypeOK' /\ Counts'
  <1>1. /\ old' = old \cup {p}
        /\ UNCHANGED <<pc, hid, sub, pub, log, inbox, met, snd, rcv, toS, toR>>
    BY DEF Cleanup, endVars
  <1>2. TypeOK'
    BY <1>1 DEF TypeOK
  <1>3. Phases' /\ LogOnce' /\ Handshakes'
    BY <1>1 DEF Counts, Phases, LogOnce, Handshakes
  <1>4. ToldTwice'
    <2>1. \A x, y \in Regs : Allowed(x, y)' = Allowed(x, y) /\ Allowed(x, y) \in Nat
      BY <1>1 DEF Allowed
    <2>2. \A x, y \in Regs : Allowed(x, y) <= Allowed(x, y)'
      BY <2>1
    <2>3. QED
      BY <1>1, <2>2, ToldKept DEF Counts
  <1>5. QED
    BY <1>2, <1>3, <1>4 DEF Counts

LEMMA EndTypes ==
  ASSUME TypeOK, Counts, NEW r \in Regs, RouterEnds(r)
  PROVE  TypeOK' /\ Counts'
  <1>1. /\ pc' = [pc EXCEPT ![r] = "down"] /\ sub' = [sub EXCEPT ![r] = "none"]
        /\ inbox' = [inbox EXCEPT ![r] = <<>>]
        /\ snd' = [c \in Conns |-> IF r = SenderOf(c) THEN "gone" ELSE snd[c]]
        /\ rcv' = [c \in Conns |-> IF r # ReceiverOf(c) THEN rcv[c]
                                   ELSE IF rcv[c] \in {"none", "added"} THEN "none" ELSE "gone"]
        /\ UNCHANGED <<hid, pub, log, old, met, toS, toR>>
    BY DEF RouterEnds
  <1>2. \A x \in Regs : /\ x # r => pc'[x] = pc[x] /\ sub'[x] = sub[x] /\ inbox'[x] = inbox[x]
                        /\ x = r => pc'[x] = "down" /\ sub'[x] = "none" /\ inbox'[x] = <<>>
    BY <1>1 DEF TypeOK
  <1>3. inbox' \in [Regs -> Seq(Regs)] /\ \A x \in Regs : inbox'[x] \in Seq(Flip(x))
    BY <1>1, <1>2, EmptySeq DEF TypeOK
  <1>4. TypeOK'
    BY <1>1, <1>3 DEF TypeOK
  <1>5. Phases' /\ LogOnce'
    BY <1>1, <1>2 DEF Counts, Phases, LogOnce
  <1>6. Handshakes'
    BY <1>1 DEF Counts, Handshakes
  <1>7. ToldTwice'
    <2>1. \A x, p \in Regs : Allowed(x, p) <= Allowed(x, p)'
      BY <1>1, <1>2 DEF Allowed
    <2>2. QED
      BY <1>1, <1>2, <2>1, ToldKept DEF Counts
  <1>8. QED
    BY <1>4, <1>5, <1>6, <1>7 DEF Counts

\* A new candidate is broadcast to those who have been told of it not yet.
LEMMA PublishTypes ==
  ASSUME TypeOK, Counts, NEW p \in Regs, TellPublished(p)
  PROVE  TypeOK' /\ Counts'
  <1>1. /\ pub[p] = "sent" /\ pub' = [pub EXCEPT ![p] = "told"] /\ log' = Append(log, p)
        /\ UNCHANGED <<pc, hid, sub, old, met, snd, rcv, toS, toR>>
        /\ inbox' = [r \in Regs |-> IF p \in Flip(r) /\ sub[r] \in {"listening", "live"}
                                     THEN Append(inbox[r], p) ELSE inbox[r]]
    BY DEF TellPublished, endVars
  <1>2. \A x \in Regs : pub'[x] = IF x = p THEN "told" ELSE pub[x]
    BY <1>1 DEF TypeOK
  <1>3. /\ log' \in Seq(Regs) /\ Len(log') = Len(log) + 1 /\ Len(log) \in Nat
        /\ log'[Len(log) + 1] = p
        /\ \A i \in 1..Len(log) : log'[i] = log[i] /\ log[i] \in Regs /\ log[i] # p
    <2>1. log \in Seq(Regs)
      BY DEF TypeOK
    <2>2. \A i \in 1..Len(log) : log[i] \in Regs /\ log[i] # p
      BY <1>1, <2>1 DEF Counts, LogOnce
    <2>3. QED
      BY <1>1, <2>1, <2>2, AppendProperties, LenProperties
  <1>4. LogOnce'
    <2>1. \A i \in 1..Len(log') : i \in 1..Len(log) \/ i = Len(log) + 1
      BY <1>3
    <2>2. \A i, j \in 1..Len(log') : log'[i] = log'[j] => i = j
      BY <1>3, <2>1 DEF Counts, LogOnce
    <2>3. \A i \in 1..Len(log') : pub'[log'[i]] = "told"
      BY <1>2, <1>3, <2>1 DEF Counts, LogOnce
    <2>4. QED
      BY <2>2, <2>3 DEF LogOnce
  <1>5. Phases' /\ Handshakes'
    BY <1>1, <1>2 DEF Counts, Phases, Handshakes
  <1>6. ASSUME NEW r \in Regs
        PROVE  /\ inbox'[r] \in Seq(Flip(r))
               /\ \E k \in 0..Len(inbox'[r]) :
                    /\ Split(inbox'[r], k)
                    /\ sub'[r] # "live" => k = 0
                    /\ \A y \in Regs : Times(met'[r][y], inbox'[r], k, y) <= Allowed(r, y)'
    <2>1. PICK k \in 0..Len(inbox[r]) :
            /\ Split(inbox[r], k)
            /\ sub[r] # "live" => k = 0
            /\ \A y \in Regs : Times(met[r][y], inbox[r], k, y) <= Allowed(r, y)
      BY DEF Counts, ToldTwice
    <2>2. inbox[r] \in Seq(Flip(r)) /\ Len(inbox[r]) \in Nat
      BY LenProperties DEF TypeOK
    <2>3. /\ \A y \in Regs : /\ met[r][y] \in Nat /\ Allowed(r, y) \in Nat /\ Allowed(r, y)' \in Nat
                             /\ Allowed(r, y) <= Allowed(r, y)' /\ (y # p => Allowed(r, y)' = Allowed(r, y))
          /\ Allowed(r, p) = 0
          /\ sub[r] \in {"listening", "live"} => Allowed(r, p)' >= 1
      <3>1. \A y \in Regs : met[r][y] \in Nat
        BY TimesType
      <3>2. \A y \in Regs : Allowed(r, y) \in Nat /\ Allowed(r, y)' \in Nat
        BY DEF Allowed
      <3>3. \A y \in Regs : y # p => Allowed(r, y)' = Allowed(r, y)
        BY <1>1, <1>2 DEF Allowed
      <3>4. Allowed(r, p) = 0 /\ (sub[r] \in {"listening", "live"} => Allowed(r, p)' >= 1)
        BY <1>1, <1>2 DEF Allowed
      <3>5. QED
        BY <3>1, <3>2, <3>3, <3>4
    <2>4. met[r][p] = 0 /\ ~Among(inbox[r], p, 1, k) /\ ~Among(inbox[r], p, k + 1, Len(inbox[r]))
      <3>1. Times(met[r][p], inbox[r], k, p) <= 0
        BY <2>1, <2>3
      <3>2. QED
        BY <2>3, <3>1 DEF Times, One
    <2>5. CASE p \in Flip(r) /\ sub[r] \in {"listening", "live"}
      <3> DEFINE q == inbox[r]
                 a == Append(q, p)
      <3>1. inbox'[r] = a
        BY <1>1, <2>5
      <3>2. \A i \in 1..Len(q) : q[i] # p
        <4>1. \A i \in 1..Len(q) : i \in 1..k \/ i \in (k + 1)..Len(q)
          BY <2>1, <2>2
        <4>2. QED
          BY <2>4, <4>1 DEF Among
      <3>3. /\ a \in Seq(Flip(r)) /\ k \in 0..Len(a) /\ Split(a, k)
            /\ \A y : Among(a, y, 1, k) <=> Among(q, y, 1, k)
            /\ \A y : Among(a, y, k + 1, Len(a)) <=> Among(q, y, k + 1, Len(q)) \/ y = p
        BY <2>1, <2>2, <2>5, <3>2, AppendSplit
      <3> HIDE DEF a, q
      <3>4. ASSUME NEW y \in Regs PROVE Times(met[r][y], a, k, y) <= Allowed(r, y)'
        <4>1. CASE y = p
          <5>1. ~Among(a, y, 1, k) /\ Among(a, y, k + 1, Len(a)) /\ met[r][y] = 0
            BY <2>4, <3>3, <4>1 DEF q
          <5>2. One(Among(a, y, 1, k)) = 0 /\ One(Among(a, y, k + 1, Len(a))) = 1
            BY <5>1 DEF One
          <5>3. Times(met[r][y], a, k, y) = 1
            BY <5>1, <5>2 DEF Times
          <5>4. Allowed(r, y)' \in Nat /\ Allowed(r, y)' >= 1
            BY <1>1, <1>2, <2>5, <4>1 DEF Allowed
          <5>5. QED
            BY <5>3, <5>4
        <4>2. CASE y # p
          <5>1. Times(met[r][y], a, k, y) = Times(met[r][y], q, k, y)
            <6>1. /\ One(Among(a, y, 1, k)) = One(Among(q, y, 1, k))
                  /\ One(Among(a, y, k + 1, Len(a))) = One(Among(q, y, k + 1, Len(q)))
              BY <3>3, <4>2 DEF One
            <6>2. QED
              BY <6>1 DEF Times
          <5>2. QED
            BY <2>1, <2>3, <4>2, <5>1 DEF q
        <4>3. QED
          BY <4>1, <4>2
      <3>5. QED
        BY <1>1, <2>1, <3>1, <3>3, <3>4
    <2>6. CASE ~(p \in Flip(r) /\ sub[r] \in {"listening", "live"})
      <3>1. inbox'[r] = inbox[r]
        BY <1>1, <2>6
      <3>2. ASSUME NEW y \in Regs PROVE Times(met[r][y], inbox[r], k, y) <= Allowed(r, y)'
        <4>1. Times(met[r][y], inbox[r], k, y) \in Nat
          BY TimesType
        <4>2. QED
          BY <2>1, <2>3, <4>1
      <3>3. QED
        BY <1>1, <2>1, <2>2, <3>1, <3>2
    <2>7. QED
      BY <2>5, <2>6
  <1>7. inbox' \in [Regs -> Seq(Regs)]
    <2>1. \A r \in Regs : inbox'[r] \in Seq(Regs)
      BY <1>6, FlipType
    <2>2. QED
      BY <1>1, <2>1
  <1>8. TypeOK'
    BY <1>1, <1>3, <1>6, <1>7 DEF TypeOK
  <1>9. ToldTwice'
    BY <1>6 DEF ToldTwice
  <1>10. QED
    BY <1>4, <1>5, <1>8, <1>9 DEF Counts

\* The log is told after Listen, before what was broadcast since.
LEMMA LogTypes ==
  ASSUME TypeOK, Counts, NEW r \in Regs, TellLog(r)
  PROVE  TypeOK' /\ Counts'
  <1> DEFINE e == LogFor(r)
             q == inbox[r]
  <1>1. /\ sub[r] = "listening" /\ sub' = [sub EXCEPT ![r] = "live"]
        /\ inbox' = [inbox EXCEPT ![r] = e \o q]
        /\ UNCHANGED <<pc, hid, pub, log, old, met, snd, rcv, toS, toR>>
    BY DEF TellLog, endVars
  <1>2. /\ e \in Seq(Flip(r)) /\ q \in Seq(Flip(r))
        /\ \A i, j \in 1..Len(e) : e[i] = e[j] => i = j
        /\ \A i \in 1..Len(e) : pub[e[i]] = "told"
    BY LogForEffect DEF TypeOK, Counts
  <1>3. /\ Split(q, 0) /\ \A y \in Regs : Times(met[r][y], q, 0, y) <= Allowed(r, y)
    BY <1>1 DEF Counts, ToldTwice
  <1>4. \A x \in Regs : x # r => sub'[x] = sub[x] /\ inbox'[x] = inbox[x]
    BY <1>1 DEF TypeOK
  <1>5. sub'[r] = "live" /\ inbox'[r] = e \o q
    BY <1>1 DEF TypeOK
  <1> HIDE DEF e, q
  <1>6. /\ e \o q \in Seq(Flip(r)) /\ Len(e) \in 0..Len(e \o q) /\ Split(e \o q, Len(e))
        /\ \A y : Among(e \o q, y, 1, Len(e)) <=> \E i \in 1..Len(e) : e[i] = y
        /\ \A y : Among(e \o q, y, Len(e) + 1, Len(e \o q)) <=> Among(q, y, 1, Len(q))
    BY <1>2, <1>3, ConcatSplit
  <1>7. ASSUME NEW y \in Regs
        PROVE  Times(met[r][y], e \o q, Len(e), y) <= Allowed(r, y)'
    <2>1. /\ met[r][y] \in Nat
          /\ One(Among(q, y, 1, 0)) = 0
          /\ One(Among(q, y, 0 + 1, Len(q))) \in {0, 1}
          /\ One(Among(e \o q, y, 1, Len(e))) \in {0, 1}
          /\ One(Among(e \o q, y, Len(e) + 1, Len(e \o q))) = One(Among(q, y, 0 + 1, Len(q)))
      <3>1. met[r][y] \in Nat
        BY TimesType
      <3>2. ~Among(q, y, 1, 0)
        BY DEF Among
      <3>3. Among(e \o q, y, Len(e) + 1, Len(e \o q)) <=> Among(q, y, 0 + 1, Len(q))
        BY <1>6
      <3>4. QED
        BY <3>1, <3>2, <3>3 DEF One
    <2>2. met[r][y] + One(Among(q, y, 0 + 1, Len(q))) <= Allowed(r, y)
      BY <1>3, <2>1 DEF Times
    <2>3. CASE pub[y] = "told"
      <3>1. Allowed(r, y)' = 2 /\ Allowed(r, y) \in {1, 2}
        BY <1>1, <1>5, <2>3 DEF Allowed
      <3>2. Allowed(r, y) = 1
        <4>1. pc[r] # "down"
          BY <1>1 DEF Counts, Phases
        <4>2. QED
          BY <1>1, <2>3, <4>1 DEF Allowed
      <3>3. QED
        BY <2>1, <2>2, <3>1, <3>2 DEF Times
    <2>4. CASE pub[y] # "told"
      <3>1. Allowed(r, y)' = 0 /\ Allowed(r, y) = 0
        BY <1>1, <2>4 DEF Allowed
      <3>2. One(Among(e \o q, y, 1, Len(e))) = 0
        BY <1>2, <1>6, <2>4 DEF One
      <3>3. QED
        BY <2>1, <2>2, <3>1, <3>2 DEF Times
    <2>5. QED
      BY <2>3, <2>4
  <1>8. ASSUME NEW x \in Regs
        PROVE  /\ inbox'[x] \in Seq(Flip(x))
               /\ \E k \in 0..Len(inbox'[x]) :
                    /\ Split(inbox'[x], k)
                    /\ sub'[x] # "live" => k = 0
                    /\ \A y \in Regs : Times(met'[x][y], inbox'[x], k, y) <= Allowed(x, y)'
    <2>1. CASE x = r
      BY <1>1, <1>5, <1>6, <1>7, <2>1
    <2>2. CASE x # r
      <3>1. \A y \in Regs : Allowed(x, y)' = Allowed(x, y)
        BY <1>1, <1>4, <2>2 DEF Allowed
      <3>2. inbox'[x] = inbox[x] /\ sub'[x] = sub[x] /\ met'[x] = met[x]
        BY <1>1, <1>4, <2>2
      <3>3. inbox[x] \in Seq(Flip(x))
        BY DEF TypeOK
      <3>4. QED
        BY <3>1, <3>2, <3>3 DEF Counts, ToldTwice
    <2>3. QED
      BY <2>1, <2>2
  <1>9. inbox' \in [Regs -> Seq(Regs)]
    <2>1. \A x \in Regs : inbox'[x] \in Seq(Regs)
      BY <1>8, FlipType
    <2>2. QED
      BY <1>1, <2>1 DEF TypeOK
  <1>10. TypeOK'
    BY <1>1, <1>8, <1>9 DEF TypeOK
  <1>11. Phases' /\ LogOnce' /\ Handshakes'
    BY <1>1, <1>4 DEF Counts, Phases, LogOnce, Handshakes
  <1>12. ToldTwice'
    BY <1>8 DEF ToldTwice
  <1>13. QED
    BY <1>10, <1>11, <1>12 DEF Counts

\* What was told is counted as read when it waits no longer.
LEMMA ToldEffect ==
  ASSUME TypeOK, Counts, NEW r \in Regs, Unread(r), Told(r, Head(inbox[r])),
         UNCHANGED <<pc, sub, pub>>
  PROVE  /\ Head(inbox[r]) \in Flip(r) /\ Head(inbox[r]) \in Regs
         /\ NewConn(r, Head(inbox[r])) \in Conns
         /\ inbox' \in [Regs -> Seq(Regs)] /\ \A x \in Regs : inbox'[x] \in Seq(Flip(x))
         /\ met' \in [Regs -> [Regs -> 0..2]]
         /\ ToldTwice'
  <1> DEFINE q == inbox[r]
             p == Head(q)
             t == Tail(q)
  <1>1. /\ inbox' = [inbox EXCEPT ![r] = t] /\ met' = [met EXCEPT ![r][p] = @ + 1]
        /\ sub[r] = "live" /\ q # <<>> /\ q \in Seq(Flip(r))
    BY DEF Told, Unread, TypeOK
  <1>2. PICK k \in 0..Len(q) :
          Split(q, k) /\ \A y \in Regs : Times(met[r][y], q, k, y) <= Allowed(r, y)
    BY DEF Counts, ToldTwice
  <1>3. p \in Flip(r) /\ t \in Seq(Flip(r)) /\ p = q[1] /\ 1 \in 1..Len(q)
    BY <1>1, HeadTailProperties
  <1>4. p \in Regs
    BY <1>3, FlipType
  <1>5. /\ \A x \in Regs : x # r => inbox'[x] = inbox[x] /\ met'[x] = met[x]
        /\ inbox'[r] = t
        /\ \A y \in Regs : met[r][y] \in Nat /\ met'[r][y] = met[r][y] + One(y = p)
    <2>1. inbox'[r] = t /\ \A x \in Regs : x # r => inbox'[x] = inbox[x] /\ met'[x] = met[x]
      BY <1>1 DEF TypeOK
    <2>2. \A y \in Regs : met[r][y] \in Nat
      BY TimesType
    <2>3. met'[r] = [met[r] EXCEPT ![p] = @ + 1] /\ met[r] \in [Regs -> 0..2]
      BY <1>1 DEF TypeOK
    <2>4. QED
      BY <1>4, <2>1, <2>2, <2>3 DEF One
  <1> DEFINE j == IF k = 0 THEN 0 ELSE k - 1
  <1>6. /\ j \in 0..Len(t) /\ Split(t, j)
        /\ \A y : One(Among(t, y, 1, j)) + One(Among(t, y, j + 1, Len(t))) + One(y = p)
                    = One(Among(q, y, 1, k)) + One(Among(q, y, k + 1, Len(q)))
    BY <1>1, <1>2, TailSplit
  <1> HIDE DEF p, t, j, q
  <1>7. ASSUME NEW y \in Regs
        PROVE  /\ Times(met'[r][y], t, j, y) = Times(met[r][y], q, k, y)
               /\ met'[r][y] \in 0..2
    <2>1. /\ One(y = p) \in 0..1 /\ One(Among(t, y, 1, j)) \in 0..1
          /\ One(Among(t, y, j + 1, Len(t))) \in 0..1
          /\ One(Among(q, y, 1, k)) \in 0..1 /\ One(Among(q, y, k + 1, Len(q))) \in 0..1
      BY DEF One
    <2>2. Times(met'[r][y], t, j, y) = Times(met[r][y], q, k, y)
      BY SMTT(40), <1>5, <1>6, <2>1 DEF Times
    <2>3. met'[r][y] \in Nat /\ met'[r][y] <= Times(met'[r][y], t, j, y)
      BY <1>5, <2>1 DEF Times
    <2>4. Times(met[r][y], q, k, y) <= 2 /\ Times(met[r][y], q, k, y) \in Nat
      <3>1. Allowed(r, y) \in 0..2
        BY DEF Allowed
      <3>2. Times(met[r][y], q, k, y) \in Nat
        BY <1>5, <2>1 DEF Times
      <3>3. QED
        BY <1>2, <3>1, <3>2
    <2>5. met'[r][y] <= 2
      BY <2>2, <2>3, <2>4
    <2>6. QED
      BY <2>2, <2>3, <2>5
  <1>8. NewConn(r, p) \in Conns
    <2>1. met[r][p] + 1 \in 1..2
      <3>1. met'[r][p] = met[r][p] + 1 /\ met[r][p] \in Nat
        BY <1>4, <1>5 DEF One
      <3>2. met'[r][p] \in 0..2
        BY <1>4, <1>7
      <3>3. QED
        BY <3>1, <3>2
    <2>2. QED
      BY <1>3, <1>4, <2>1 DEF NewConn, Conns
  <1>9. met' \in [Regs -> [Regs -> 0..2]]
    <2>1. met \in [Regs -> [Regs -> 0..2]]
      BY DEF TypeOK
    <2>2. met' = [met EXCEPT ![r] = met'[r]] /\ DOMAIN met'[r] = Regs
      BY <1>1, <1>4, <2>1
    <2>3. met'[r] = [y \in Regs |-> met'[r][y]]
      BY <1>1, <1>4, <2>1
    <2>4. met'[r] \in [Regs -> 0..2]
      BY <1>7, <2>3
    <2>5. QED
      BY <2>1, <2>2, <2>4
  <1>10. \A x \in Regs : inbox'[x] \in Seq(Flip(x))
    BY <1>3, <1>5 DEF TypeOK
  <1>11. inbox' \in [Regs -> Seq(Regs)]
    <2>1. \A x \in Regs : inbox'[x] \in Seq(Regs)
      BY <1>10, FlipType
    <2>2. QED
      BY <1>1, <2>1 DEF TypeOK
  <1>12. ToldTwice'
    <2> SUFFICES ASSUME NEW x \in Regs
                 PROVE  \E i \in 0..Len(inbox'[x]) :
                          /\ Split(inbox'[x], i)
                          /\ sub'[x] # "live" => i = 0
                          /\ \A y \in Regs : Times(met'[x][y], inbox'[x], i, y) <= Allowed(x, y)'
      BY DEF ToldTwice
    <2>1. \A y \in Regs : Allowed(x, y)' = Allowed(x, y)
      BY DEF Allowed
    <2>2. CASE x = r
      <3>1. \A y \in Regs : Times(met'[r][y], t, j, y) <= Allowed(r, y)'
        BY <1>2, <1>7, <2>1, <2>2
      <3>2. QED
        BY <1>1, <1>5, <1>6, <2>2, <3>1
    <2>3. CASE x # r
      BY <1>5, <2>1, <2>3 DEF Counts, ToldTwice
    <2>4. QED
      BY <2>2, <2>3
  <1>13. QED
    BY <1>3, <1>4, <1>8, <1>9, <1>10, <1>11, <1>12 DEF p, q

\* A registration reads what it was told and makes a connection, or none.
LEMMA ReadTypes ==
  ASSUME TypeOK, Counts, Fresh, NEW r \in Regs, ReadAsSender(r) \/ ReadAsReceiver(r)
  PROVE  TypeOK' /\ Counts'
  <1> DEFINE p == Head(inbox[r])
             c == NewConn(r, p)
  <1>1. /\ Unread(r) /\ Told(r, p) /\ UNCHANGED <<pc, hid, sub, pub, log, old, toS>>
        /\ \/ snd' = snd /\ toR' = toR /\ rcv' \in {rcv, [rcv EXCEPT ![c] = "added"]}
           \/ snd' = [snd EXCEPT ![c] = "pinged"] /\ toR' = [toR EXCEPT ![c] = <<"ping">>]
              /\ rcv' = rcv
    BY DEF ReadAsSender, ReadAsReceiver
  <1>2. /\ p \in Flip(r) /\ p \in Regs /\ c \in Conns
        /\ inbox' \in [Regs -> Seq(Regs)] /\ \A x \in Regs : inbox'[x] \in Seq(Flip(x))
        /\ met' \in [Regs -> [Regs -> 0..2]]
        /\ ToldTwice'
    BY <1>1, ToldEffect
  <1>3. toS[c] = <<>>
    <2>1. met[r][p] \in Nat /\ c.k = met[r][p] + 1 /\ c.by = r /\ c.to = p
      BY <1>2, TimesType DEF NewConn
    <2>2. c.k > met[c.by][c.to]
      BY <2>1
    <2>3. QED
      BY <1>2, <2>2 DEF Fresh, Unmade
  <1> HIDE DEF p, c
  <1>4. /\ snd' \in [Conns -> {"none", "pinged", "up", "late", "spinning", "closed", "gone"}]
        /\ rcv' \in [Conns -> {"none", "added", "up", "closed", "gone"}]
        /\ toR' \in [Conns -> {<<>>, <<"ping">>}]
    BY <1>1, <1>2 DEF TypeOK
  <1>5. TypeOK'
    BY <1>1, <1>2, <1>4 DEF TypeOK
  <1>6. Phases' /\ LogOnce'
    BY <1>1 DEF Counts, Phases, LogOnce
  <1>7. Handshakes'
    <2>1. CASE snd' = snd /\ toR' = toR
      BY <1>1, <2>1 DEF Counts, Handshakes
    <2>2. CASE snd' = [snd EXCEPT ![c] = "pinged"] /\ toR' = [toR EXCEPT ![c] = <<"ping">>]
      <3>1. /\ snd'[c] = "pinged"
            /\ \A d \in Conns : d # c => snd'[d] = snd[d] /\ toR'[d] = toR[d]
        BY <1>2, <2>2 DEF TypeOK
      <3>2. QED
        BY <1>1, <1>3, <3>1 DEF Counts, Handshakes
    <2>3. QED
      BY <1>1, <2>1, <2>2
  <1>8. QED
    BY <1>2, <1>5, <1>6, <1>7 DEF Counts

\* The messages of a connection: a ping and a pong after it, at the most.
LEMMA WireTypes ==
  ASSUME TypeOK, Counts, NEW c \in Conns,
         \/ ConnectReceiver(c) \/ AcceptSender(c) \/ AcceptReceiver(c) \/ AnswerPing(c)
         \/ ReadReply(c) \/ PingTimeout(c) \/ PingFails(c)
         \/ ReceiverReadsNothing(c) \/ SenderReadsNothing(c) \/ ReplyReadsNothing(c)
  PROVE  TypeOK' /\ Counts'
  <1>1. UNCHANGED <<pc, hid, sub, pub, log, old, inbox, met>>
    BY DEF ConnectReceiver, AcceptSender, AcceptReceiver, AnswerPing, ReadReply, PingTimeout,
       PingFails, ReceiverReadsNothing, SenderReadsNothing, ReplyReadsNothing, regVars
  <1>2. /\ snd' \in [Conns -> {"none", "pinged", "up", "late", "spinning", "closed", "gone"}]
        /\ rcv' \in [Conns -> {"none", "added", "up", "closed", "gone"}]
        /\ snd'[c] = "none" => snd[c] = "none"
        /\ \A d \in Conns : d # c => snd'[d] = snd[d] /\ toS'[d] = toS[d] /\ toR'[d] = toR[d]
    BY ZenonT(60) DEF ConnectReceiver, AcceptSender, AcceptReceiver, AnswerPing, ReadReply,
       PingTimeout, PingFails, ReceiverReadsNothing, SenderReadsNothing, ReplyReadsNothing,
       Closes, TypeOK
  <1>3. /\ toS[c] \in {<<>>, <<"ping">>, <<"pong">>, <<"ping", "pong">>}
        /\ toR[c] \in {<<>>, <<"ping">>}
        /\ toR[c] # <<>> \/ snd[c] = "none" => toS[c] \in {<<>>, <<"ping">>}
        /\ snd[c] = "none" => toR[c] = <<>>
    BY DEF TypeOK, Counts, Handshakes
  <1>4. /\ Append(<<>>, "ping") = <<"ping">> /\ Append(<<>>, "pong") = <<"pong">>
        /\ Append(<<"ping">>, "pong") = <<"ping", "pong">>
        /\ Tail(<<"ping">>) = <<>> /\ Tail(<<"pong">>) = <<>>
        /\ Tail(<<"ping", "pong">>) = <<"pong">>
    <2> DEFINE a == Append(<<"ping">>, "pong")
    <2>1. /\ a \in Seq({"ping", "pong"}) /\ Len(a) = 2 /\ a[1] = "ping" /\ a[2] = "pong"
      OBVIOUS
    <2>2. a = <<"ping", "pong">>
      <3> HIDE DEF a
      <3>1. <<"ping", "pong">> \in Seq({"ping", "pong"})
        OBVIOUS
      <3>2. \A i \in 1..2 : a[i] = <<"ping", "pong">>[i]
        BY <2>1
      <3>3. QED
        BY <2>1, <3>1, <3>2, SeqEqual
    <2>3. Append(<<>>, "ping") = <<"ping">> /\ Append(<<>>, "pong") = <<"pong">>
      OBVIOUS
    <2>4. /\ Tail(<<"ping">>) = <<>> /\ Tail(<<"pong">>) = <<>>
          /\ Tail(<<"ping", "pong">>) = <<"pong">>
      OBVIOUS
    <2>5. QED
      BY <2>2, <2>3, <2>4
  <1>5. /\ toS' \in [Conns -> {<<>>, <<"ping">>, <<"pong">>, <<"ping", "pong">>}]
        /\ toR' \in [Conns -> {<<>>, <<"ping">>}]
        /\ toR'[c] # <<>> \/ snd'[c] = "none" => toS'[c] \in {<<>>, <<"ping">>}
        /\ snd'[c] = "none" => toR'[c] = <<>>
    <2>1. CASE ConnectReceiver(c)
      <3>1. toS' = [toS EXCEPT ![c] = <<"ping">>] /\ UNCHANGED <<snd, toR>>
        BY <2>1 DEF ConnectReceiver
      <3>2. QED
        BY <1>3, <3>1 DEF TypeOK
    <2>2. CASE AcceptSender(c)
      <3>1. /\ snd[c] = "none" /\ toR' = [toR EXCEPT ![c] = <<"ping">>]
            /\ toS' = toS /\ snd'[c] = "pinged"
        BY <1>3, <1>4, <2>2 DEF AcceptSender, TypeOK
      <3>2. QED
        BY <1>3, <3>1 DEF TypeOK
    <2>3. CASE \/ AcceptReceiver(c) \/ PingTimeout(c) \/ PingFails(c)
               \/ ReceiverReadsNothing(c) \/ SenderReadsNothing(c) \/ ReplyReadsNothing(c)
      <3>1. toS' = toS /\ toR' = toR
        BY <2>3 DEF AcceptReceiver, PingTimeout, PingFails, ReceiverReadsNothing,
           SenderReadsNothing, ReplyReadsNothing
      <3>2. QED
        BY <1>2, <1>3, <3>1 DEF TypeOK
    <2>4. CASE AnswerPing(c)
      <3>1. toR[c] = <<"ping">> /\ toS[c] \in {<<>>, <<"ping">>}
        BY <1>3, <2>4 DEF AnswerPing
      <3>2. /\ toR' = [toR EXCEPT ![c] = <<>>] /\ snd' = snd /\ snd[c] # "none"
            /\ toS' \in {[toS EXCEPT ![c] = <<"pong">>], [toS EXCEPT ![c] = <<"ping", "pong">>]}
        BY <1>3, <1>4, <2>4, <3>1 DEF AnswerPing
      <3>3. QED
        BY <3>2 DEF TypeOK
    <2>5. CASE ReadReply(c)
      <3>1. /\ snd[c] = "pinged" /\ toS[c] \in {<<"ping">>, <<"pong">>, <<"ping", "pong">>}
            /\ toR' = toR /\ snd'[c] # "none"
        BY <1>2, <1>3, <2>5 DEF ReadReply
      <3>2. /\ toS' \in {[toS EXCEPT ![c] = <<>>], [toS EXCEPT ![c] = <<"pong">>]}
            /\ toS[c] = <<"ping">> => toS' = [toS EXCEPT ![c] = <<>>]
        BY <1>4, <2>5, <3>1 DEF ReadReply
      <3>3. toS' \in [Conns -> {<<>>, <<"ping">>, <<"pong">>, <<"ping", "pong">>}]
        BY <3>2 DEF TypeOK
      <3>4. toR'[c] # <<>> => toS'[c] = <<>>
        <4>1. ASSUME toR[c] # <<>> PROVE toS[c] = <<"ping">>
          BY <1>3, <3>1, <4>1
        <4>2. QED
          BY <3>1, <3>2, <4>1 DEF TypeOK
      <3>5. QED
        BY <3>1, <3>3, <3>4 DEF TypeOK
    <2>6. QED
      BY <2>1, <2>2, <2>3, <2>4, <2>5
  <1>6. TypeOK'
    BY <1>1, <1>2, <1>5 DEF TypeOK
  <1>7. Phases' /\ LogOnce'
    BY <1>1 DEF Counts, Phases, LogOnce
  <1>8. ToldTwice'
    <2>1. \A x, p \in Regs : Allowed(x, p)' = Allowed(x, p) /\ Allowed(x, p) \in Nat
      BY <1>1 DEF Allowed
    <2>2. QED
      BY <1>1, <2>1 DEF Counts, ToldTwice
  <1>9. Handshakes'
    BY <1>2, <1>5 DEF Counts, Handshakes
  <1>10. QED
    BY <1>6, <1>7, <1>8, <1>9 DEF Counts

LEMMA InitTypes == Init => TypeOK /\ Counts
  <1> SUFFICES ASSUME Init PROVE TypeOK /\ Counts
    OBVIOUS
  <1>1. /\ <<>> \in Seq(Regs) /\ \A r \in Regs : <<>> \in Seq(Flip(r))
        /\ Len(<<>>) = 0
    BY EmptySeq
  <1>2. TypeOK
    BY <1>1 DEF Init, TypeOK
  <1>3. Phases /\ LogOnce /\ Handshakes
    BY <1>1 DEF Init, Phases, LogOnce, Handshakes
  <1>4. ToldTwice
    <2> SUFFICES ASSUME NEW r \in Regs
                 PROVE  /\ Split(<<>>, 0)
                        /\ \A p \in Regs : Times(0, <<>>, 0, p) <= Allowed(r, p)
      BY <1>1 DEF Init, ToldTwice
    <2>1. Split(<<>>, 0)
      BY <1>1 DEF Split
    <2>2. ASSUME NEW p \in Regs PROVE Times(0, <<>>, 0, p) <= Allowed(r, p)
      <3>1. ~Among(<<>>, p, 1, 0) /\ ~Among(<<>>, p, 0 + 1, Len(<<>>))
        BY <1>1 DEF Among
      <3>2. Times(0, <<>>, 0, p) = 0
        BY <3>1 DEF Times, One
      <3>3. Allowed(r, p) = 0
        BY DEF Init, Allowed
      <3>4. QED
        BY <3>2, <3>3
    <2>3. QED
      BY <2>1, <2>2
  <1>5. QED
    BY <1>2, <1>3, <1>4 DEF Counts

LEMMA StepTypes == IInv /\ TypeOK /\ Counts /\ [Next]_vars => TypeOK' /\ Counts'
  <1> SUFFICES ASSUME IInv, TypeOK, Counts, [Next]_vars PROVE TypeOK' /\ Counts'
    OBVIOUS
  <1>1. CASE UNCHANGED vars
    <2>1. UNCHANGED <<pc, hid, sub, pub, log, old, inbox, met, snd, rcv, toS, toR>>
      BY <1>1 DEF vars, regVars, endVars
    <2>2. TypeOK' /\ Phases' /\ LogOnce' /\ Handshakes'
      BY ZenonT(30), <2>1 DEF TypeOK, Counts, Phases, LogOnce, Handshakes
    <2>3. ToldTwice'
      <3>1. \A x, p \in Regs : Allowed(x, p)' = Allowed(x, p)
        BY <2>1 DEF Allowed
      <3>2. QED
        BY <2>1, <3>1 DEF Counts, ToldTwice
    <2>4. QED
      BY <2>2, <2>3 DEF Counts
  <1>2. ASSUME NEW r \in Regs, ReadAsSender(r) \/ ReadAsReceiver(r) PROVE TypeOK' /\ Counts'
    BY <1>2, ReadTypes DEF IInv
  <1>3. QED
    BY <1>1, <1>2, TaskTypes, ListenTypes, LostTypes, CleanupTypes, EndTypes, PublishTypes,
       LogTypes, WireTypes DEF Next

\* Every variable keeps its type, for any registrations in any order: a
\* registration makes at most two connections to each candidate, and nothing more
\* than a ping and its answer is ever on a connection in one direction.
THEOREM TypeCorrect == Spec => []TypeOK
  BY InitIInv, StepIInv, InitTypes, StepTypes, PTL DEF Spec
=============================================================================
