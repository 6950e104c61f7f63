-------------------------- MODULE KcpSessionsProofs --------------------------
(***************************************************************************)
(* Proofs about the KCP listener, for any peers, conversations and         *)
(* capacities of its channels: no session is left without having been told *)
(* to close, and no dead one stays in the map without a notice.            *)
(***************************************************************************)
EXTENDS KcpSessions, SequenceTheorems, TLAPS

\* Tasks run for sessions that have been made, each of which has a peer.
Made ==
  /\ \A s \in Sessions : updater[s] # "none" => s <= made
  /\ \A s \in 1..made : owner[s] \in Peers

\* The map has a session under the address of its peer.
InMap == \A p \in Peers : cur[p] # None => owner[cur[p]] = p

IInv == TypeOK /\ Made /\ InMap /\ NoOrphan /\ NoticePending

-----------------------------------------------------------------------------

LEMMA Constants ==
  /\ made \in 0..MaxSessions => 1..made \subseteq Sessions
  /\ None \notin Nat /\ None \notin Peers
  /\ InputCap \in Nat \ {0} /\ CloseCap \in Nat \ {0} /\ AcceptCap \in Nat \ {0}
  /\ MaxSessions \in Nat /\ MaxPackets \in Nat
  BY KcpAssumption DEF Sessions

LEMMA InitIInv == Init => IInv
  <1> SUFFICES ASSUME Init PROVE IInv
    OBVIOUS
  <1> USE Constants
  <1>1. TypeOK
    <2>1. <<>> \in Seq(Peers) /\ <<>> \in Seq(1..made) /\ Len(<<>>) = 0
      BY EmptySeq
    <2>2. QED
      BY <2>1 DEF Init, TypeOK
  <1>2. Made /\ InMap /\ NoOrphan /\ NoticePending
    BY DEF Init, Made, InMap, NoOrphan, NoticePending
  <1>3. QED
    BY <1>1, <1>2 DEF IInv

\* Taking the first element of a sequence.
LEMMA Taken ==
  ASSUME NEW S, NEW q \in Seq(S), q # <<>>
  PROVE  /\ Head(q) \in S /\ Head(q) = q[1] /\ Tail(q) \in Seq(S)
         /\ Len(q) \in Nat \ {0} /\ Len(Tail(q)) = Len(q) - 1
         /\ \A i \in 1..Len(Tail(q)) : Tail(q)[i] = q[i + 1]
  BY HeadTailProperties

\* A step that leaves the map and the notices alone keeps the three relations
\* between them and the sessions.
LEMMA MapAlone ==
  ASSUME IInv, TypeOK', UNCHANGED <<cur, made, owner, closeQ>>,
         closed \subseteq closed',
         \A s \in Sessions : updater'[s] # updater[s]
                               => updater[s] # "none" /\ updater'[s] # "done"
  PROVE  IInv'
  <1> USE Constants
  <1>1. Made'
    BY DEF IInv, Made
  <1>2. InMap' /\ NoOrphan'
    BY DEF IInv, InMap, NoOrphan
  <1>3. NoticePending'
    <2> SUFFICES ASSUME NEW p \in Peers, cur[p] # None, updater'[cur[p]] = "done"
                 PROVE  \E i \in 1..Len(closeQ) : closeQ[i] = p
      BY DEF NoticePending
    <2>1. cur[p] \in Sessions
      BY DEF IInv, TypeOK
    <2>2. updater[cur[p]] = "done"
      BY <2>1
    <2>3. QED
      BY <2>2 DEF IInv, NoticePending
  <1>4. QED
    BY <1>1, <1>2, <1>3 DEF IInv

LEMMA NewSessionIInv ==
  ASSUME IInv, NEW p \in Peers, NEW c \in Convs, NEW first \in BOOLEAN,
         NewSession(p, c, first)
  PROVE  IInv'
  <1> USE Constants
  <1> DEFINE s == made + 1
             accepted == Len(acceptQ) < AcceptCap
  <1>1. /\ made \in Nat /\ s \in Sessions /\ made' = s
        /\ owner' = [owner EXCEPT ![s] = p]
        /\ conv' = [conv EXCEPT ![s] = c]
        /\ updater' = [updater EXCEPT ![s] = "run"]
        /\ UNCHANGED <<age, closeQ, held, waiting>>
        /\ packets' = packets + 1 /\ packets' \in 0..MaxPackets
    BY DEF NewSession, Start, Arrives, IInv, TypeOK, Sessions
  <1>2. CASE accepted
    <2>1. /\ cur' = [cur EXCEPT ![p] = s] /\ acceptQ' = Append(acceptQ, s)
          /\ closed' = closed \cup Dropped(p) /\ inq' = [inq EXCEPT ![s] = 1]
      BY <1>2 DEF NewSession, Start
    <2>2. acceptQ' \in Seq(1..made') /\ Len(acceptQ') <= AcceptCap
      <3>1. acceptQ \in Seq(1..made) /\ Seq(1..made) \subseteq Seq(1..s) /\ s \in 1..s
        BY <1>1 DEF IInv, TypeOK
      <3>2. acceptQ \in Seq(1..s) /\ Len(acceptQ) \in Nat
        BY <3>1, LenProperties
      <3>3. QED
        BY <1>1, <1>2, <2>1, <3>1, <3>2, AppendProperties
    <2>3. Dropped(p) \subseteq 1..made
      BY DEF Dropped, IInv, TypeOK
    <2>4. TypeOK'
      <3>1. cur' \in [Peers -> 1..made' \cup {None}]
        BY <1>1, <2>1 DEF IInv, TypeOK
      <3>2. closed' \subseteq 1..made' /\ held' \subseteq 1..made'
        <4>1. closed \subseteq 1..made /\ held \subseteq 1..made
          BY DEF IInv, TypeOK
        <4>2. 1..made \subseteq 1..s /\ s \in 1..s
          BY <1>1
        <4>3. QED
          BY <1>1, <2>1, <2>3, <4>1, <4>2
      <3>3. inq' \in [Sessions -> 0..InputCap]
        BY <1>1, <2>1 DEF IInv, TypeOK
      <3>4. owner' \in [Sessions -> Peers \cup {None}]
        BY <1>1 DEF IInv, TypeOK
      <3>5. conv' \in [Sessions -> Convs \cup {None}]
        BY <1>1 DEF IInv, TypeOK
      <3>6. updater' \in [Sessions -> {"none", "run", "notify", "done"}]
        BY <1>1 DEF IInv, TypeOK
      <3>7. made' \in 0..MaxSessions /\ waiting' \in 1..made' \cup {None}
        BY <1>1 DEF IInv, TypeOK, Sessions
      <3>8. QED
        BY <1>1, <2>2, <3>1, <3>2, <3>3, <3>4, <3>5, <3>6, <3>7 DEF IInv, TypeOK
    <2>5. Made'
      <3>1. \A t \in Sessions : updater'[t] # "none" => t <= s
        BY <1>1 DEF IInv, TypeOK, Made, Sessions
      <3>2. \A t \in 1..s : owner'[t] \in Peers
        BY <1>1 DEF IInv, TypeOK, Made, Sessions
      <3>3. QED
        BY <1>1, <3>1, <3>2 DEF Made
    <2>6. InMap'
      BY <1>1, <2>1 DEF IInv, TypeOK, InMap
    <2>7. NoOrphan'
      BY <1>1, <2>1 DEF IInv, TypeOK, Made, NoOrphan, Dropped
    <2>8. NoticePending'
      BY <1>1, <2>1 DEF IInv, TypeOK, NoticePending
    <2>9. QED
      BY <2>4, <2>5, <2>6, <2>7, <2>8 DEF IInv
  <1>3. CASE ~accepted
    <2>1. /\ cur' = [cur EXCEPT ![p] = None] /\ acceptQ' = acceptQ /\ inq' = inq
          /\ closed' = closed \cup Dropped(p) \cup {s}
      BY <1>3 DEF NewSession, Start
    <2>2. acceptQ' \in Seq(1..made') /\ Len(acceptQ') <= AcceptCap
      <3>1. Seq(1..made) \subseteq Seq(1..s)
        BY <1>1
      <3>2. QED
        BY <1>1, <2>1, <3>1 DEF IInv, TypeOK
    <2>3. Dropped(p) \subseteq 1..made
      BY DEF Dropped, IInv, TypeOK
    <2>4. TypeOK'
      <3>1. cur' \in [Peers -> 1..made' \cup {None}]
        BY <1>1, <2>1 DEF IInv, TypeOK
      <3>2. closed' \subseteq 1..made' /\ held' \subseteq 1..made'
        <4>1. closed \subseteq 1..made /\ held \subseteq 1..made
          BY DEF IInv, TypeOK
        <4>2. 1..made \subseteq 1..s /\ s \in 1..s
          BY <1>1
        <4>3. QED
          BY <1>1, <2>1, <2>3, <4>1, <4>2
      <3>3. inq' \in [Sessions -> 0..InputCap]
        BY <1>1, <2>1 DEF IInv, TypeOK
      <3>4. owner' \in [Sessions -> Peers \cup {None}]
        BY <1>1 DEF IInv, TypeOK
      <3>5. conv' \in [Sessions -> Convs \cup {None}]
        BY <1>1 DEF IInv, TypeOK
      <3>6. updater' \in [Sessions -> {"none", "run", "notify", "done"}]
        BY <1>1 DEF IInv, TypeOK
      <3>7. made' \in 0..MaxSessions /\ waiting' \in 1..made' \cup {None}
        BY <1>1 DEF IInv, TypeOK, Sessions
      <3>8. QED
        BY <1>1, <2>2, <3>1, <3>2, <3>3, <3>4, <3>5, <3>6, <3>7 DEF IInv, TypeOK
    <2>5. Made'
      <3>1. \A t \in Sessions : updater'[t] # "none" => t <= s
        BY <1>1 DEF IInv, TypeOK, Made, Sessions
      <3>2. \A t \in 1..s : owner'[t] \in Peers
        BY <1>1 DEF IInv, TypeOK, Made, Sessions
      <3>3. QED
        BY <1>1, <3>1, <3>2 DEF Made
    <2>6. InMap'
      BY <1>1, <2>1 DEF IInv, TypeOK, InMap
    <2>7. NoOrphan'
      BY <1>1, <2>1 DEF IInv, TypeOK, Made, NoOrphan, Dropped
    <2>8. NoticePending'
      BY <1>1, <2>1 DEF IInv, TypeOK, NoticePending
    <2>9. QED
      BY <2>4, <2>5, <2>6, <2>7, <2>8 DEF IInv
  <1>4. QED
    BY <1>2, <1>3

LEMMA OldSessionIInv ==
  ASSUME IInv, NEW p \in Peers, NEW c \in Convs, NEW first \in BOOLEAN,
         OldSession(p, c, first)
  PROVE  IInv'
  <1> USE Constants
  <1>1. cur[p] \in 1..made /\ cur[p] \in Sessions
    BY DEF OldSession, IInv, TypeOK
  <1>2. inq' \in [Sessions -> 0..InputCap] /\ waiting' \in 1..made \cup {None}
    <2>1. /\ inq \in [Sessions -> 0..InputCap] /\ waiting \in 1..made \cup {None}
          /\ InputCap \in Nat
      BY DEF IInv, TypeOK
    <2>2. CASE UNCHANGED <<inq, waiting>>
      BY <2>1, <2>2
    <2>3. CASE Input(cur[p])
      BY <1>1, <2>1, <2>3 DEF Input
    <2>4. QED
      BY <2>2, <2>3 DEF OldSession
  <1>3. packets' \in 0..MaxPackets
    BY DEF OldSession, Arrives, IInv, TypeOK
  <1>4. TypeOK'
    BY <1>2, <1>3 DEF OldSession, IInv, TypeOK
  <1>5. QED
    BY <1>4, MapAlone DEF OldSession

LEMMA ClosePeerIInv ==
  ASSUME IInv, ClosePeer
  PROVE  IInv'
  <1> USE Constants
  <1>1. closeQ \in Seq(Peers) /\ closeQ # <<>>
    BY DEF ClosePeer, IInv, TypeOK
  <1>2. /\ Head(closeQ) \in Peers /\ Head(closeQ) = closeQ[1]
        /\ Tail(closeQ) \in Seq(Peers)
        /\ Len(closeQ) \in Nat \ {0} /\ Len(Tail(closeQ)) = Len(closeQ) - 1
        /\ \A i \in 1..Len(Tail(closeQ)) : Tail(closeQ)[i] = closeQ[i + 1]
    BY <1>1, Taken
  <1> DEFINE h == Head(closeQ)
  <1>3. /\ closeQ' = Tail(closeQ) /\ closed' = closed \cup Dropped(h)
        /\ cur' = [cur EXCEPT ![h] = None]
        /\ UNCHANGED <<made, owner, conv, updater, inq, age, acceptQ, held,
                       waiting, packets>>
    BY DEF ClosePeer
  <1> HIDE DEF h
  <1>4. h \in Peers /\ h = closeQ[1]
    BY <1>2 DEF h
  <1>5. TypeOK'
    <2>1. closed' \subseteq 1..made /\ cur' \in [Peers -> 1..made \cup {None}]
      BY <1>3, <1>4 DEF IInv, TypeOK, Dropped
    <2>2. closeQ' \in Seq(Peers) /\ Len(closeQ') <= CloseCap
      BY <1>2, <1>3 DEF IInv, TypeOK
    <2>3. QED
      BY <1>3, <2>1, <2>2 DEF IInv, TypeOK
  <1>6. Made'
    BY <1>3 DEF IInv, Made
  <1>7. InMap'
    BY <1>3, <1>4 DEF IInv, TypeOK, InMap
  <1>8. NoOrphan'
    BY <1>3, <1>4 DEF IInv, TypeOK, Made, NoOrphan, Dropped
  <1>9. NoticePending'
    <2> SUFFICES ASSUME NEW p \in Peers, cur'[p] # None, updater'[cur'[p]] = "done"
                 PROVE  \E i \in 1..Len(Tail(closeQ)) : Tail(closeQ)[i] = p
      BY <1>3 DEF NoticePending
    <2>1. p # h /\ cur'[p] = cur[p]
      BY <1>3, <1>4 DEF IInv, TypeOK
    <2>2. PICK i \in 1..Len(closeQ) : closeQ[i] = p
      BY <1>3, <2>1 DEF IInv, NoticePending
    <2>3. i # 1
      BY <1>4, <2>1, <2>2
    <2>4. i - 1 \in 1..Len(Tail(closeQ)) /\ (i - 1) + 1 = i
      BY <1>2, <2>3
    <2>5. Tail(closeQ)[i - 1] = p
      BY <1>2, <2>2, <2>4
    <2>6. QED
      BY <2>4, <2>5
  <1>10. QED
    BY <1>5, <1>6, <1>7, <1>8, <1>9 DEF IInv

LEMMA NotifyIInv ==
  ASSUME IInv, NEW s \in Sessions, Notify(s)
  PROVE  IInv'
  <1> USE Constants
  <1>1. s \in 1..made /\ owner[s] \in Peers
    BY DEF Notify, IInv, Made, TypeOK, Sessions
  <1>2. /\ closeQ' = Append(closeQ, owner[s]) /\ Len(closeQ) < CloseCap
        /\ closeQ \in Seq(Peers) /\ Len(closeQ) \in Nat
    BY LenProperties DEF Notify, IInv, TypeOK
  <1>3. /\ closeQ' \in Seq(Peers) /\ Len(closeQ') = Len(closeQ) + 1
        /\ closeQ'[Len(closeQ) + 1] = owner[s]
        /\ \A i \in 1..Len(closeQ) : closeQ'[i] = closeQ[i]
    BY <1>1, <1>2, AppendProperties
  <1>4. TypeOK'
    BY SMTT(30), <1>1, <1>2, <1>3 DEF Notify, IInv, TypeOK
  <1>5. Made' /\ InMap' /\ NoOrphan'
    BY <1>1 DEF Notify, IInv, TypeOK, Made, InMap, NoOrphan
  <1>6. NoticePending'
    <2> SUFFICES ASSUME NEW p \in Peers, cur[p] # None, updater'[cur[p]] = "done"
                 PROVE  \E i \in 1..Len(closeQ') : closeQ'[i] = p
      BY DEF Notify, NoticePending
    <2>1. CASE cur[p] = s
      <3>1. owner[s] = p
        BY <2>1 DEF IInv, InMap
      <3>2. QED
        BY <1>2, <1>3, <3>1
    <2>2. CASE cur[p] # s
      <3>1. updater[cur[p]] = "done"
        BY <2>2 DEF Notify, IInv, TypeOK
      <3>2. PICK i \in 1..Len(closeQ) : closeQ[i] = p
        BY <3>1 DEF IInv, NoticePending
      <3>3. QED
        BY <1>2, <1>3, <3>2
    <2>3. QED
      BY <2>1, <2>2
  <1>7. QED
    BY <1>4, <1>5, <1>6 DEF IInv

LEMMA StepIInv == IInv /\ [Next]_vars => IInv'
  <1> SUFFICES ASSUME IInv, [Next]_vars PROVE IInv'
    OBVIOUS
  <1> USE Constants
  <1>1. ASSUME NEW p \in Peers, NEW c \in Convs \cup {0}, NEW first \in BOOLEAN,
               RecvPacket(p, c, first)
        PROVE  IInv'
    <2>1. Chosen(c) \subseteq Convs
      BY DEF Chosen
    <2>2. PICK k \in Convs : NewSession(p, k, first) \/ OldSession(p, k, first)
      BY <1>1, <2>1 DEF RecvPacket
    <2>3. QED
      BY <2>2, NewSessionIInv, OldSessionIInv
  <1>2. CASE InputDone
    <2>1. TypeOK'
      BY <1>2 DEF InputDone, IInv, TypeOK
    <2>2. QED
      BY <1>2, <2>1, MapAlone DEF InputDone
  <1>3. CASE ClosePeer
    BY <1>3, ClosePeerIInv
  <1>4. CASE Accept
    <2>1. acceptQ \in Seq(1..made) /\ acceptQ # <<>>
      BY <1>4 DEF Accept, IInv, TypeOK
    <2>2. /\ Head(acceptQ) \in 1..made /\ Tail(acceptQ) \in Seq(1..made)
          /\ Len(acceptQ) \in Nat /\ Len(Tail(acceptQ)) = Len(acceptQ) - 1
      BY <2>1, Taken
    <2>3. TypeOK'
      <3>1. Len(acceptQ') <= AcceptCap
        BY <1>4, <2>2 DEF Accept, IInv, TypeOK
      <3>2. held' \subseteq 1..made /\ acceptQ' \in Seq(1..made)
        BY <1>4, <2>2 DEF Accept, IInv, TypeOK
      <3>3. QED
        BY <1>4, <3>1, <3>2 DEF Accept, IInv, TypeOK
    <2>4. QED
      BY <1>4, <2>3, MapAlone DEF Accept
  <1>5. ASSUME NEW s \in Sessions,
               \/ IoInput(s) \/ Use(s) \/ Tick(s)
        PROVE  IInv'
    <2>1. TypeOK'
      <3>1. age \in [Sessions -> 0..2] /\ inq \in [Sessions -> 0..InputCap]
        BY DEF IInv, TypeOK
      <3>2. \/ age' = [age EXCEPT ![s] = 0]
            \/ age[s] < 2 /\ age' = [age EXCEPT ![s] = @ + 1]
        BY <1>5 DEF IoInput, Use, Tick
      <3>3. \/ inq' = inq
            \/ inq[s] > 0 /\ inq' = [inq EXCEPT ![s] = @ - 1]
        BY <1>5 DEF IoInput, Use, Tick
      <3>4. age' \in [Sessions -> 0..2]
        BY <3>1, <3>2
      <3>5. inq' \in [Sessions -> 0..InputCap]
        BY <3>1, <3>3
      <3>6. QED
        BY <1>5, <3>4, <3>5 DEF IoInput, Use, Tick, IInv, TypeOK
    <2>2. QED
      BY <1>5, <2>1, MapAlone DEF IoInput, Use, Tick
  <1>6. ASSUME NEW s \in Sessions, Expire(s) \/ EndLoop(s) \/ DropStream(s)
        PROVE  IInv'
    <2>1. s \in 1..made
      BY <1>6 DEF Expire, EndLoop, DropStream, IInv, TypeOK, Made, Sessions
    <2>2. TypeOK'
      BY <1>6, <2>1 DEF Expire, EndLoop, DropStream, IInv, TypeOK
    <2>3. \A t \in Sessions : updater'[t] # updater[t]
                                => updater[t] # "none" /\ updater'[t] # "done"
      BY <1>6 DEF Expire, EndLoop, DropStream, IInv, TypeOK
    <2>4. QED
      BY <1>6, <2>2, <2>3, MapAlone DEF Expire, EndLoop, DropStream
  <1>7. ASSUME NEW s \in Sessions, Notify(s) PROVE IInv'
    BY <1>7, NotifyIInv
  <1>8. CASE UNCHANGED vars
    <2>1. TypeOK'
      BY <1>8 DEF vars, IInv, TypeOK
    <2>2. QED
      BY <1>8, <2>1, MapAlone DEF vars
  <1>9. QED
    BY <1>1, <1>2, <1>3, <1>4, <1>5, <1>6, <1>7, <1>8 DEF Next

\* Every reachable state of the listener and its sessions has the declared types,
\* and no channel ever holds more than its capacity.
THEOREM TypeCorrect == Spec => []TypeOK
  <1>1. IInv => TypeOK
    BY DEF IInv
  <1>2. QED
    BY <1>1, InitIInv, StepIInv, PTL DEF Spec

\* A session that no packet reaches any more has been told to close, whichever
\* of a new conversation, a full accept queue or a notice took it out of the map.
THEOREM NoSessionOrphaned == Spec => []NoOrphan
  <1>1. IInv => NoOrphan
    BY DEF IInv
  <1>2. QED
    BY <1>1, InitIInv, StepIInv, PTL DEF Spec

\* As long as a dead session is in the map its notice is in the channel, so its
\* peer is not locked out.
THEOREM DeadAreNoticed == Spec => []NoticePending
  <1>1. IInv => NoticePending
    BY DEF IInv
  <1>2. QED
    BY <1>1, InitIInv, StepIInv, PTL DEF Spec
=============================================================================
