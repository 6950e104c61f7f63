---------------------------- MODULE SignalingProofs ----------------------------
(***************************************************************************)
(* Proofs about the signaling server, for any topics, publishers and       *)
(* subscribers, any capacity of the broadcasts and any expiry: its types,  *)
(* that a subscriber hears of a candidate at most twice, and that it hears *)
(* of the candidates in the order in which they were published.            *)
(***************************************************************************)
EXTENDS Signaling, SequenceTheorems, FiniteSetTheorems, WellFoundedInduction, TLAPS

IsPublished(p) == \E i \in 1..Len(published) : published[i] = p

Before(p, q) ==
  \E i, j \in 1..Len(published) : i < j /\ published[i] = p /\ published[j] = q

\* A candidate is published once, by a connection that is done then.
PublishedOnce ==
  /\ \A i, j \in 1..Len(published) : published[i] = published[j] => i = j
  /\ \A i \in 1..Len(published) : phase[published[i]] = "done"

\* Logs and broadcasts keep the order of publication.
LogInOrder ==
  \A t \in Topics :
    /\ \A i \in 1..Len(log[t]) : IsPublished(log[t][i].cand) /\ log[t][i].age <= ticks
    /\ \A i, j \in 1..Len(log[t]) : i < j => Before(log[t][i].cand, log[t][j].cand)

QueueInOrder ==
  \A s \in Subs :
    /\ \A i \in 1..Len(rx[s]) : IsPublished(rx[s][i])
    /\ \A i, j \in 1..Len(rx[s]) : i < j => Before(rx[s][i], rx[s][j])

\* A subscriber hears nothing before the log; what was broadcast to it until
\* then is new in the log.
Early ==
  \A s \in Subs :
    /\ phase[s] \in {"sent", "found"} => Len(rx[s]) = 0
    /\ phase[s] \in {"sent", "found", "listening"} => Len(told[s]) = 0
    /\ phase[s] = "listening" =>
         \A i \in 1..Len(rx[s]) : \E k \in 1..Len(log[TopicOf[s]]) :
           log[TopicOf[s]][k].cand = rx[s][i] /\ log[TopicOf[s]][k].age = 0

\* Of what was told, w, the first m came from the log: a broadcast that was told
\* or that waits, in q, repeats one of them or is later than all of them.
Repeats(w, m, x) ==
  \/ \E k \in 1..m : w[k] = x
  \/ \A k \in 1..m : Before(w[k], x)

Split(w, q, m) ==
  /\ \A i, j \in 1..m : i < j => Before(w[i], w[j])
  /\ \A i, j \in (m + 1)..Len(w) : i < j => Before(w[i], w[j])
  /\ \A i \in (m + 1)..Len(w), j \in 1..Len(q) : Before(w[i], q[j])
  /\ \A i \in (m + 1)..Len(w) : Repeats(w, m, w[i])
  /\ \A j \in 1..Len(q) : Repeats(w, m, q[j])

HeardOf(w, q) ==
  /\ \A i \in 1..Len(w) : IsPublished(w[i])
  /\ \E m \in 0..Len(w) : Split(w, q, m)

Heard == \A s \in Subs : HeardOf(told[s], rx[s])

IInv == TypeOK /\ PublishedOnce /\ LogInOrder /\ QueueInOrder /\ Early /\ Heard

Entry == [cand : Pubs, age : 0..MaxTicks]

-----------------------------------------------------------------------------
(* Numbers.                                                                *)

\* A set of numbers has a least one.
LEMMA LeastNumber ==
  ASSUME NEW S \in SUBSET Nat, S # {}
  PROVE  \E x \in S : \A y \in S : x <= y
  <1>1. PICK x \in S : \A y \in S : <<y, x>> \notin OpToRel(<, Nat)
    BY NatLessThanWellFounded, WFMin
  <1>2. \A y \in S : ~(y < x)
    BY <1>1 DEF OpToRel
  <1>3. QED
    BY <1>2

-----------------------------------------------------------------------------
(* The types.                                                              *)

\* Every sequence of a state with the declared types has a length.
LEMMA Lengths ==
  ASSUME TypeOK
  PROVE  /\ Len(published) \in Nat
         /\ \A t \in Topics : Len(log[t]) \in Nat /\ log[t] \in Seq(Entry)
         /\ \A s \in Subs : Len(rx[s]) \in Nat /\ Len(told[s]) \in Nat
  BY LenProperties DEF TypeOK, Entry

LEMMA GoesEffect ==
  ASSUME TypeOK, NEW c \in Conns, NEW from, NEW to, Goes(c, from, to)
  PROVE  \A d \in Conns : phase'[d] = IF d = c THEN to ELSE phase[d]
  BY DEF TypeOK, Goes

\* What a broadcast does to the queue of one subscriber.
LEMMA BroadcastEffect ==
  ASSUME TypeOK, NEW t \in Topics, NEW p \in Pubs, Broadcast(t, p), NEW s \in Subs
  PROVE  /\ rx'[s] \in Seq(Pubs) /\ Len(rx'[s]) \in Nat /\ Len(rx'[s]) <= Cap
         /\ \/ rx'[s] = rx[s]
            \/ /\ s \in Receivers(t)
               /\ \E d \in {0, 1} : \A i \in 1..Len(rx'[s]) :
                    IF i = Len(rx'[s]) THEN rx'[s][i] = p
                    ELSE i + d \in 1..Len(rx[s]) /\ rx'[s][i] = rx[s][i + d]
  <1> DEFINE q == rx[s]
  <1>1. q \in Seq(Pubs) /\ Len(q) \in Nat /\ Len(q) <= Cap /\ Cap \in Nat \ {0}
    BY LenProperties, SignalingAssumption DEF TypeOK
  <1>2. rx'[s] = IF s \notin Receivers(t) THEN q
                 ELSE IF Len(q) < Cap THEN Append(q, p) ELSE Append(Tail(q), p)
    BY DEF Broadcast
  <1> HIDE DEF q
  <1>3. CASE s \notin Receivers(t)
    BY <1>1, <1>2, <1>3 DEF q
  <1>4. CASE s \in Receivers(t) /\ Len(q) < Cap
    <2>1. /\ Append(q, p) \in Seq(Pubs) /\ Len(Append(q, p)) = Len(q) + 1
          /\ Append(q, p)[Len(q) + 1] = p
          /\ \A i \in 1..Len(q) : Append(q, p)[i] = q[i]
      BY <1>1, AppendProperties
    <2>2. rx'[s] = Append(q, p)
      BY <1>2, <1>4
    <2>3. \A i \in 1..Len(rx'[s]) :
            IF i = Len(rx'[s]) THEN rx'[s][i] = p
            ELSE i + 0 \in 1..Len(q) /\ rx'[s][i] = q[i + 0]
      BY <1>1, <2>1, <2>2
    <2>4. Len(rx'[s]) \in Nat /\ Len(rx'[s]) <= Cap
      BY <1>1, <1>4, <2>1, <2>2
    <2>5. QED
      BY <1>4, <2>1, <2>2, <2>3, <2>4 DEF q
  <1>5. CASE s \in Receivers(t) /\ ~(Len(q) < Cap)
    <2>1. Len(q) = Cap /\ q # <<>>
      BY <1>1, <1>5
    <2>2. /\ Tail(q) \in Seq(Pubs) /\ Len(Tail(q)) = Len(q) - 1
          /\ \A i \in 1..Len(Tail(q)) : Tail(q)[i] = q[i + 1]
      BY <1>1, <2>1, HeadTailProperties
    <2>3. /\ Append(Tail(q), p) \in Seq(Pubs)
          /\ Len(Append(Tail(q), p)) = Len(q)
          /\ Append(Tail(q), p)[Len(q)] = p
          /\ \A i \in 1..(Len(q) - 1) : Append(Tail(q), p)[i] = q[i + 1]
      <3>1. /\ Append(Tail(q), p) \in Seq(Pubs)
            /\ Len(Append(Tail(q), p)) = Len(Tail(q)) + 1
            /\ Append(Tail(q), p)[Len(Tail(q)) + 1] = p
            /\ \A i \in 1..Len(Tail(q)) : Append(Tail(q), p)[i] = Tail(q)[i]
        BY <2>2, AppendProperties
      <3>2. Len(Tail(q)) = Len(q) - 1 /\ Len(Tail(q)) + 1 = Len(q)
        BY <1>1, <2>2
      <3>3. QED
        BY <2>2, <3>1, <3>2
    <2>4. rx'[s] = Append(Tail(q), p)
      BY <1>2, <1>5
    <2>5. \A i \in 1..Len(rx'[s]) :
            IF i = Len(rx'[s]) THEN rx'[s][i] = p
            ELSE i + 1 \in 1..Len(q) /\ rx'[s][i] = q[i + 1]
      <3> SUFFICES ASSUME NEW i \in 1..Len(q)
                   PROVE  IF i = Len(q) THEN rx'[s][i] = p
                          ELSE i + 1 \in 1..Len(q) /\ rx'[s][i] = q[i + 1]
        BY <2>3, <2>4
      <3>1. CASE i = Len(q)
        BY <2>3, <2>4, <3>1
      <3>2. CASE i # Len(q)
        <4>1. i \in 1..(Len(q) - 1) /\ i + 1 \in 1..Len(q)
          BY <1>1, <3>2
        <4>2. QED
          BY <2>3, <2>4, <3>2, <4>1
      <3>3. QED
        BY <3>1, <3>2
    <2>6. QED
      BY <1>1, <1>5, <2>3, <2>4, <2>5 DEF q
  <1>6. QED
    BY <1>3, <1>4, <1>5

\* A function on 1..n is a sequence.
LEMMA FunctionIsSeq ==
  ASSUME NEW S, NEW n \in Nat, NEW f \in [1..n -> S]
  PROVE  f \in Seq(S) /\ Len(f) = n
  <1>1. f \in Seq(S)
    BY SeqDef
  <1>2. Len(f) \in Nat /\ DOMAIN f = 1..Len(f)
    BY <1>1, LenProperties
  <1>3. 1..n = 1..Len(f)
    BY <1>2
  <1>4. QED
    BY <1>1, <1>2, <1>3

\* What a cleanup leaves in a log is some of it, in order, all young entries
\* among it.
LEMMA CleanupEffect ==
  ASSUME TypeOK, NEW t \in Topics, Cleanup(t)
  PROVE  /\ \A u \in Topics : u # t => log'[u] = log[u]
         /\ log'[t] \in Seq(Entry)
         /\ \E h \in [1..Len(log'[t]) -> 1..Len(log[t])] :
              /\ \A i, j \in 1..Len(log'[t]) : i < j => h[i] < h[j]
              /\ \A i \in 1..Len(log'[t]) : log'[t][i] = log[t][h[i]]
              /\ \A k \in 1..Len(log[t]) : Young(log[t][k]) =>
                   \E i \in 1..Len(log'[t]) : h[i] = k
  <1> DEFINE q == log[t]
             young == {i \in 1..Len(q) : Young(q[i])}
             n == Cardinality(young)
  <1>1. q \in Seq(Entry) /\ Len(q) \in Nat
    BY Lengths
  <1>2. n \in Nat
    <2>1. IsFiniteSet(1..Len(q))
      BY <1>1, FS_Interval
    <2>2. QED
      BY <2>1, FS_Subset, FS_CardinalityType
  <1>3. PICK h \in Bijection(1..n, young) :
          /\ \A i, j \in 1..n : i < j => h[i] < h[j]
          /\ log' = [log EXCEPT ![t] = [i \in 1..n |-> q[h[i]]]]
    BY DEF Cleanup
  <1>4. h \in [1..n -> young] /\ \A k \in young : \E i \in 1..n : h[i] = k
    BY <1>3 DEF Bijection, Injection, Surjection
  <1>5. log'[t] = [i \in 1..n |-> q[h[i]]] /\ \A u \in Topics : u # t => log'[u] = log[u]
    BY <1>3 DEF TypeOK
  <1> HIDE DEF n
  <1>6. \A i \in 1..n : h[i] \in 1..Len(q)
    BY <1>4
  <1>7. \A i \in 1..n : q[h[i]] \in Entry
    BY <1>1, <1>6, ElementOfSeq
  <1>8. log'[t] \in Seq(Entry) /\ Len(log'[t]) = n
    <2>1. log'[t] \in [1..n -> Entry]
      BY <1>5, <1>7
    <2>2. QED
      BY <1>2, <2>1, FunctionIsSeq
  <1>9. h \in [1..Len(log'[t]) -> 1..Len(q)]
    BY <1>4, <1>6, <1>8
  <1>10. \A i, j \in 1..Len(log'[t]) : i < j => h[i] < h[j]
    BY <1>3, <1>8
  <1>11. \A i \in 1..Len(log'[t]) : log'[t][i] = q[h[i]]
    BY <1>5, <1>8
  <1>12. \A k \in 1..Len(q) : Young(q[k]) => \E i \in 1..Len(log'[t]) : h[i] = k
    BY <1>4, <1>8
  <1>13. QED
    BY <1>5, <1>8, <1>9, <1>10, <1>11, <1>12

\* What a Tick does: every entry is one interval older.
LEMMA TickEffect ==
  ASSUME TypeOK, LogInOrder, Tick
  PROVE  /\ log' \in [Topics -> Seq(Entry)] /\ ticks' = ticks + 1 /\ ticks' \in 0..MaxTicks
         /\ \A t \in Topics : /\ Len(log'[t]) = Len(log[t])
                              /\ \A i \in 1..Len(log[t]) :
                                   /\ log'[t][i].cand = log[t][i].cand
                                   /\ log'[t][i].age = log[t][i].age + 1
  <1>1. /\ log' = [t \in Topics |-> [i \in 1..Len(log[t]) |-> [log[t][i] EXCEPT !.age = @ + 1]]]
        /\ ticks' = ticks + 1 /\ ticks < MaxTicks /\ ticks \in Nat /\ MaxTicks \in Nat
    BY SignalingAssumption DEF Tick, TypeOK
  <1>2. ASSUME NEW t \in Topics
        PROVE  /\ log'[t] \in Seq(Entry) /\ Len(log'[t]) = Len(log[t])
               /\ \A i \in 1..Len(log[t]) : /\ log'[t][i].cand = log[t][i].cand
                                            /\ log'[t][i].age = log[t][i].age + 1
    <2>1. log[t] \in Seq(Entry) /\ Len(log[t]) \in Nat
      BY Lengths
    <2>2. log'[t] = [i \in 1..Len(log[t]) |-> [log[t][i] EXCEPT !.age = @ + 1]]
      BY <1>1
    <2>3. ASSUME NEW i \in 1..Len(log[t])
          PROVE  /\ log'[t][i] \in Entry
                 /\ log'[t][i].cand = log[t][i].cand
                 /\ log'[t][i].age = log[t][i].age + 1
      <3>1. log[t][i] \in Entry /\ log[t][i].age <= ticks
        BY <2>1, ElementOfSeq DEF LogInOrder
      <3>2. log'[t][i] = [log[t][i] EXCEPT !.age = @ + 1]
        BY <2>2
      <3>3. log[t][i].age \in Nat /\ log[t][i].age + 1 \in 0..MaxTicks
        BY <1>1, <3>1 DEF Entry
      <3>4. QED
        BY <3>1, <3>2, <3>3 DEF Entry
    <2>4. log'[t] \in [1..Len(log[t]) -> Entry]
      BY <2>2, <2>3
    <2>5. QED
      BY <2>1, <2>3, <2>4, FunctionIsSeq
  <1>3. log' \in [Topics -> Seq(Entry)]
    BY <1>1, <1>2
  <1>4. QED
    BY <1>1, <1>2, <1>3

LEMMA TypeInit == Init => TypeOK
  <1> SUFFICES ASSUME Init PROVE TypeOK
    OBVIOUS
  <1>1. <<>> \in Seq(Pubs) /\ <<>> \in Seq([cand : Pubs, age : 0..MaxTicks]) /\ Len(<<>>) = 0
    BY EmptySeq
  <1>2. Cap \in Nat /\ MaxTicks \in Nat
    BY SignalingAssumption
  <1>3. QED
    BY <1>1, <1>2 DEF Init, TypeOK

LEMMA TypeStep == TypeOK /\ LogInOrder /\ [Next]_vars => TypeOK'
  <1> SUFFICES ASSUME TypeOK, LogInOrder, [Next]_vars PROVE TypeOK'
    OBVIOUS
  <1> USE DEF Conns
  <1>1. Entry = [cand : Pubs, age : 0..MaxTicks]
    BY DEF Entry
  <1>2. ASSUME NEW c \in Conns, Reject(c)
        PROVE  TypeOK'
    BY <1>2 DEF Reject, Goes, TypeOK
  <1>3. ASSUME NEW p \in Pubs, StartPublish(p)
        PROVE  TypeOK'
    BY <1>3, SignalingAssumption DEF StartPublish, FindTopic, Goes, TypeOK
  <1>4. ASSUME NEW p \in Pubs, FinishPublish(p)
        PROVE  TypeOK'
    <2>1. TopicOf[p] \in Topics /\ Broadcast(TopicOf[p], p)
      BY <1>4, SignalingAssumption DEF FinishPublish
    <2>2. /\ rx' = [s \in Subs |-> rx'[s]]
          /\ \A s \in Subs : rx'[s] \in Seq(Pubs) /\ Len(rx'[s]) <= Cap
      <3>1. \A s \in Subs : rx'[s] \in Seq(Pubs) /\ Len(rx'[s]) <= Cap
        BY <2>1, BroadcastEffect
      <3>2. QED
        BY <2>1, <3>1 DEF Broadcast
    <2>3. rx' \in [Subs -> Seq(Pubs)] /\ \A s \in Subs : Len(rx'[s]) <= Cap
      BY <2>2
    <2>4. lagged' \subseteq Subs
      BY <2>1 DEF Broadcast, Receivers, TypeOK
    <2>5. log' \in [Topics -> Seq(Entry)]
      <3>1. [cand |-> p, age |-> 0] \in Entry
        BY SignalingAssumption DEF Entry
      <3>2. \A t \in Topics : Append(log[t], [cand |-> p, age |-> 0]) \in Seq(Entry)
        BY <3>1, Lengths, AppendProperties
      <3>3. QED
        BY <1>1, <1>4, <2>1, <3>2 DEF FinishPublish, TypeOK
    <2>6. published' \in Seq(Pubs)
      BY <1>4, AppendProperties DEF FinishPublish, TypeOK
    <2>7. /\ phase' \in [Conns -> {"sent", "locked", "found", "listening", "live", "done"}]
          /\ lock' = NoConn /\ UNCHANGED <<topics, task, due, told, gone, ticks>>
      BY <1>4 DEF FinishPublish, Goes, TypeOK
    <2>8. QED
      BY <1>1, <2>3, <2>4, <2>5, <2>6, <2>7 DEF TypeOK
  <1>5. ASSUME NEW s \in Subs, StartSubscribe(s)
        PROVE  TypeOK'
    BY <1>5, SignalingAssumption DEF StartSubscribe, FindTopic, Goes, TypeOK
  <1>6. ASSUME NEW s \in Subs, Listen(s)
        PROVE  TypeOK'
    BY <1>6 DEF Listen, Goes, TypeOK
  <1>7. ASSUME NEW s \in Subs, NEW from, NEW cs \in Seq(Pubs), Write(s, from, cs)
        PROVE  /\ told' \in [Subs -> Seq(Pubs)]
               /\ phase' \in [Conns -> {"sent", "locked", "found", "listening", "live", "done"}]
    <2>1. told[s] \o cs \in Seq(Pubs)
      BY ConcatProperties DEF TypeOK
    <2>2. QED
      BY <1>7, <2>1 DEF Write, Goes, TypeOK
  <1>8. ASSUME NEW s \in Subs, WriteLog(s)
        PROVE  TypeOK'
    <2> DEFINE t == TopicOf[s]
               cs == [i \in 1..Len(log[t]) |-> log[t][i].cand]
    <2>1. t \in Topics /\ log[t] \in Seq(Entry) /\ Len(log[t]) \in Nat
      BY SignalingAssumption, Lengths
    <2>2. cs \in [1..Len(log[t]) -> Pubs]
      <3>1. \A i \in 1..Len(log[t]) : log[t][i] \in Entry
        BY <2>1, ElementOfSeq
      <3>2. QED
        BY <3>1 DEF Entry
    <2>3. cs \in Seq(Pubs)
      BY <2>1, <2>2, FunctionIsSeq
    <2>4. /\ Write(s, "listening", cs)
          /\ UNCHANGED <<topics, lock, log, task, due, rx, gone, lagged, published, ticks>>
      BY <1>8 DEF WriteLog
    <2>5. QED
      BY <1>7, <2>3, <2>4 DEF TypeOK
  <1>9. ASSUME NEW s \in Subs, Relay(s)
        PROVE  TypeOK'
    <2>1. /\ rx[s] \in Seq(Pubs) /\ rx[s] # <<>> /\ Len(rx[s]) <= Cap /\ Len(rx[s]) \in Nat
          /\ Cap \in Nat
      BY <1>9, LenProperties, SignalingAssumption DEF Relay, TypeOK
    <2>2. /\ Head(rx[s]) \in Pubs /\ Tail(rx[s]) \in Seq(Pubs)
          /\ Len(Tail(rx[s])) = Len(rx[s]) - 1
      BY <2>1, HeadTailProperties
    <2>3. <<Head(rx[s])>> \in Seq(Pubs)
      BY <2>2
    <2>4. /\ Write(s, "live", <<Head(rx[s])>>)
          /\ rx' = [rx EXCEPT ![s] = Tail(@)]
          /\ UNCHANGED <<topics, lock, log, task, due, gone, lagged, published, ticks>>
      BY <1>9 DEF Relay
    <2>5. rx' \in [Subs -> Seq(Pubs)] /\ \A u \in Subs : Len(rx'[u]) <= Cap
      BY <2>1, <2>2, <2>4 DEF TypeOK
    <2>6. QED
      BY <1>7, <2>3, <2>4, <2>5 DEF TypeOK
  <1>10. ASSUME NEW s \in Subs, HangUp(s)
         PROVE  TypeOK'
    BY <1>10 DEF HangUp, TypeOK
  <1>11. ASSUME NEW t \in Topics, Cleanup(t)
         PROVE  TypeOK'
    <2>1. log' \in [Topics -> Seq(Entry)]
      <3>1. \A u \in Topics : log'[u] \in Seq(Entry)
        BY <1>11, CleanupEffect, Lengths
      <3>2. \E e : log' = [log EXCEPT ![t] = e]
        BY <1>11 DEF Cleanup
      <3>3. QED
        BY <3>1, <3>2 DEF TypeOK
    <2>2. /\ due' = due \ {t} /\ task' \in {task, task \ {t}}
          /\ UNCHANGED <<topics, lock, phase, rx, told, gone, lagged, published, ticks>>
      BY <1>11 DEF Cleanup
    <2>3. QED
      BY <1>1, <2>1, <2>2 DEF TypeOK
  <1>12. ASSUME Tick
         PROVE  TypeOK'
    <2>1. /\ due' = task
          /\ UNCHANGED <<topics, lock, task, phase, rx, told, gone, lagged, published>>
      BY <1>12 DEF Tick
    <2>2. log' \in [Topics -> Seq(Entry)] /\ ticks' \in 0..MaxTicks
      BY <1>12, TickEffect
    <2>3. QED
      BY <1>1, <2>1, <2>2 DEF TypeOK
  <1>13. CASE UNCHANGED vars
    BY <1>13 DEF vars, TypeOK
  <1>14. QED
    BY <1>2, <1>3, <1>4, <1>5, <1>6, <1>8, <1>9, <1>10, <1>11, <1>12, <1>13 DEF Next

-----------------------------------------------------------------------------
(* The order.                                                              *)

Rest == PublishedOnce /\ LogInOrder /\ QueueInOrder /\ Early /\ Heard

LEMMA RestInit == Init => Rest
  <1> SUFFICES ASSUME Init PROVE Rest
    OBVIOUS
  <1>1. /\ Len(published) = 0
        /\ \A t \in Topics : Len(log[t]) = 0
        /\ \A s \in Subs : Len(rx[s]) = 0 /\ Len(told[s]) = 0 /\ phase[s] = "sent"
    BY DEF Init, Conns
  <1>2. PublishedOnce /\ LogInOrder /\ QueueInOrder /\ Early
    BY <1>1 DEF PublishedOnce, LogInOrder, QueueInOrder, Early
  <1>3. \A s \in Subs : 0 \in 0..Len(told[s]) /\ Split(told[s], rx[s], 0)
    BY <1>1 DEF Split
  <1>4. QED
    BY <1>1, <1>2, <1>3 DEF Rest, Heard, HeardOf

\* What a subscriber has heard does not depend on the state but for what is
\* published.
LEMMA HeardSame ==
  ASSUME NEW s \in Subs, HeardOf(told'[s], rx'[s]), UNCHANGED published
  PROVE  HeardOf(told[s], rx[s])'
  <1>1. PICK m \in 0..Len(told'[s]) : Split(told'[s], rx'[s], m)
    BY DEF HeardOf
  <1>2. Split(told[s], rx[s], m)'
    BY <1>1 DEF Split, Repeats, Before
  <1>3. (\A i \in 1..Len(told[s]) : IsPublished(told[s][i]))'
    BY DEF HeardOf, IsPublished
  <1>4. QED
    BY <1>2, <1>3 DEF HeardOf

\* The tasks' steps from one place to the next.
Onward ==
  /\ \A c \in Conns : phase[c] = "done" => phase'[c] = "done"
  /\ \A s \in Subs : /\ phase'[s] \in {"sent", "found"} => phase[s] \in {"sent", "found"}
                     /\ phase'[s] = "listening" => phase[s] \in {"found", "listening"}

\* A step that publishes and tells nothing.
LEMMA QuietRest ==
  ASSUME Rest, TypeOK, Onward, UNCHANGED <<log, rx, told, published, ticks>>
  PROVE  Rest'
  <1>1. PublishedOnce'
    <2>1. \A i \in 1..Len(published) : published[i] \in Conns
      BY ElementOfSeq DEF TypeOK, Conns
    <2>2. QED
      BY <2>1 DEF Rest, PublishedOnce, Onward
  <1>2. LogInOrder' /\ QueueInOrder'
    BY DEF Rest, LogInOrder, QueueInOrder, IsPublished, Before
  <1>3. Early'
    BY DEF Rest, Early, Onward
  <1>4. Heard'
    BY HeardSame DEF Rest, Heard
  <1>5. QED
    BY <1>1, <1>2, <1>3, <1>4 DEF Rest

\* A step that tells subscriber s something and leaves the others alone.
LEMMA ToldRest ==
  ASSUME Rest, TypeOK, Onward, UNCHANGED <<log, published, ticks>>,
         NEW s \in Subs,
         \A u \in Subs : u # s => rx'[u] = rx[u] /\ told'[u] = told[u],
         phase'[s] \notin {"sent", "found", "listening"},
         \E d \in {0, 1} : \A i \in 1..Len(rx'[s]) :
           i + d \in 1..Len(rx[s]) /\ rx'[s][i] = rx[s][i + d],
         Len(rx'[s]) \in Nat,
         HeardOf(told'[s], rx'[s])
  PROVE  Rest'
  <1>1. PublishedOnce'
    <2>1. \A i \in 1..Len(published) : published[i] \in Conns
      BY ElementOfSeq DEF TypeOK, Conns
    <2>2. QED
      BY <2>1 DEF Rest, PublishedOnce, Onward
  <1>2. LogInOrder'
    BY DEF Rest, LogInOrder, IsPublished, Before
  <1>3. QueueInOrder'
    <2> SUFFICES ASSUME NEW u \in Subs
                 PROVE  /\ \A i \in 1..Len(rx'[u]) : IsPublished(rx'[u][i])
                        /\ \A i, j \in 1..Len(rx'[u]) : i < j => Before(rx'[u][i], rx'[u][j])
      BY DEF QueueInOrder, IsPublished, Before
    <2>1. CASE u # s
      BY <2>1 DEF Rest, QueueInOrder
    <2>2. CASE u = s
      <3>1. PICK d \in {0, 1} : \A i \in 1..Len(rx'[s]) :
              i + d \in 1..Len(rx[s]) /\ rx'[s][i] = rx[s][i + d]
        OBVIOUS
      <3>2. QED
        BY SMTT(30), <2>2, <3>1 DEF Rest, QueueInOrder
    <2>3. QED
      BY <2>1, <2>2
  <1>4. Early'
    BY DEF Rest, Early, Onward
  <1>5. \A u \in Subs : HeardOf(told[u], rx[u])'
    BY HeardSame DEF Rest, Heard
  <1>6. Heard'
    BY <1>5 DEF Heard
  <1>7. QED
    BY <1>1, <1>2, <1>3, <1>4, <1>6 DEF Rest

\* The log changes without a publication.
LEMMA LogRest ==
  ASSUME Rest, TypeOK, UNCHANGED <<phase, rx, told, published>>,
         LogInOrder',
         \A s \in Subs : phase[s] = "listening" =>
           \A k \in 1..Len(log[TopicOf[s]]) : log[TopicOf[s]][k].age = 0 =>
             \E i \in 1..Len(log'[TopicOf[s]]) :
               log'[TopicOf[s]][i] = log[TopicOf[s]][k]
  PROVE  Rest'
  <1>1. PublishedOnce' /\ QueueInOrder'
    <2>1. PublishedOnce'
      BY DEF Rest, PublishedOnce
    <2>2. QueueInOrder'
      BY DEF Rest, QueueInOrder, IsPublished, Before
    <2>3. QED
      BY <2>1, <2>2
  <1>2. Heard'
    BY HeardSame DEF Rest, Heard
  <1>3. ASSUME NEW s \in Subs, phase[s] = "listening", NEW i \in 1..Len(rx[s])
        PROVE  \E k \in 1..Len(log'[TopicOf[s]]) :
                 /\ log'[TopicOf[s]][k].cand = rx[s][i]
                 /\ log'[TopicOf[s]][k].age = 0
    <2>1. PICK k \in 1..Len(log[TopicOf[s]]) :
            log[TopicOf[s]][k].cand = rx[s][i] /\ log[TopicOf[s]][k].age = 0
      BY <1>3 DEF Rest, Early
    <2>2. PICK j \in 1..Len(log'[TopicOf[s]]) : log'[TopicOf[s]][j] = log[TopicOf[s]][k]
      BY <1>3, <2>1
    <2>3. QED
      BY <2>1, <2>2
  <1>4. Early'
    BY <1>3 DEF Rest, Early
  <1>5. QED
    BY <1>1, <1>2, <1>4 DEF Rest

\* A step to the next place in the task of one connection leads Onward.
LEMMA GoesOnward ==
  ASSUME TypeOK, NEW c \in Conns, NEW from, NEW to, Goes(c, from, to),
         from # "done",
         c \in Subs /\ to = "found" => from = "sent",
         to # "sent",
         to = "listening" => from = "found"
  PROVE  Onward
  <1>1. \A d \in Conns : phase'[d] = IF d = c THEN to ELSE phase[d]
    BY GoesEffect
  <1>2. phase[c] = from
    BY DEF Goes
  <1>3. QED
    BY <1>1, <1>2 DEF Onward, Conns

\* The oldest broadcast is told: the split of what was told stays.
LEMMA HeardNext ==
  ASSUME NEW w \in Seq(Pubs), NEW q \in Seq(Pubs), q # <<>>, HeardOf(w, q),
         \A i \in 1..Len(q) : IsPublished(q[i]),
         \A i, j \in 1..Len(q) : i < j => Before(q[i], q[j])
  PROVE  HeardOf(Append(w, Head(q)), Tail(q)) /\ HeardOf(w, Tail(q))
  <1> DEFINE v == Append(w, Head(q))
             r == Tail(q)
  <1>1. PICK m \in 0..Len(w) : Split(w, q, m)
    BY DEF HeardOf
  <1>2. Len(q) \in Nat \ {0} /\ Len(w) \in Nat /\ 1 \in 1..Len(q)
    BY LenProperties, EmptySeq
  <1>3. /\ Head(q) = q[1] /\ Head(q) \in Pubs /\ Len(r) = Len(q) - 1
        /\ \A i \in 1..(Len(q) - 1) : r[i] = q[i + 1]
    BY HeadTailProperties
  <1>4. \A j \in 1..Len(r) : j + 1 \in 1..Len(q) /\ r[j] = q[j + 1]
    BY <1>2, <1>3
  <1>5. /\ Len(v) = Len(w) + 1 /\ v[Len(w) + 1] = q[1]
        /\ \A i \in 1..Len(w) : v[i] = w[i]
    BY <1>3, AppendProperties
  <1> HIDE DEF v, r
  <1>6. HeardOf(w, r)
    <2>1. \A i \in (m + 1)..Len(w), j \in 1..Len(r) : Before(w[i], r[j])
      BY <1>1, <1>4 DEF Split
    <2>2. \A j \in 1..Len(r) : Repeats(w, m, r[j])
      BY <1>1, <1>4 DEF Split
    <2>3. QED
      BY <1>1, <2>1, <2>2 DEF HeardOf, Split
  <1>7. \A i \in (m + 1)..Len(v) : i = Len(w) + 1 \/ (i \in (m + 1)..Len(w) /\ v[i] = w[i])
    BY <1>2, <1>5
  <1>8. \A k \in 1..m : v[k] = w[k]
    BY <1>2, <1>5
  <1>9. \A x : Repeats(w, m, x) => Repeats(v, m, x)
    BY <1>8 DEF Repeats
  <1>10. \A i, j \in 1..m : i < j => Before(v[i], v[j])
    BY <1>1, <1>8 DEF Split
  <1>11. \A i, j \in (m + 1)..Len(v) : i < j => Before(v[i], v[j])
    <2> SUFFICES ASSUME NEW i \in (m + 1)..Len(v), NEW j \in (m + 1)..Len(v), i < j
                 PROVE  Before(v[i], v[j])
      OBVIOUS
    <2>1. i \in (m + 1)..Len(w) /\ v[i] = w[i]
      BY <1>2, <1>5
    <2>2. CASE j = Len(w) + 1
      BY <1>1, <1>2, <1>5, <2>1, <2>2 DEF Split
    <2>3. CASE j # Len(w) + 1
      BY <1>1, <1>7, <2>1, <2>3 DEF Split
    <2>4. QED
      BY <2>2, <2>3
  <1>12. \A i \in (m + 1)..Len(v), j \in 1..Len(r) : Before(v[i], r[j])
    <2> SUFFICES ASSUME NEW i \in (m + 1)..Len(v), NEW j \in 1..Len(r)
                 PROVE  Before(v[i], r[j])
      OBVIOUS
    <2>1. j + 1 \in 1..Len(q) /\ r[j] = q[j + 1] /\ 1 < j + 1
      BY <1>4
    <2>2. CASE i = Len(w) + 1
      BY <1>2, <1>5, <2>1, <2>2
    <2>3. CASE i # Len(w) + 1
      BY <1>1, <1>7, <2>1, <2>3 DEF Split
    <2>4. QED
      BY <2>2, <2>3
  <1>13. \A i \in (m + 1)..Len(v) : Repeats(v, m, v[i])
    <2> SUFFICES ASSUME NEW i \in (m + 1)..Len(v) PROVE Repeats(w, m, v[i])
      BY <1>9
    <2>1. CASE i = Len(w) + 1
      BY <1>1, <1>2, <1>5, <2>1 DEF Split
    <2>2. CASE i # Len(w) + 1
      BY <1>1, <1>7, <2>2 DEF Split
    <2>3. QED
      BY <2>1, <2>2
  <1>14. \A j \in 1..Len(r) : Repeats(v, m, r[j])
    BY <1>1, <1>4, <1>9 DEF Split
  <1>15. Split(v, r, m) /\ m \in 0..Len(v)
    BY <1>2, <1>5, <1>10, <1>11, <1>12, <1>13, <1>14 DEF Split
  <1>16. \A i \in 1..Len(v) : IsPublished(v[i])
    <2>1. \A i \in 1..Len(v) : i \in 1..Len(w) \/ i = Len(w) + 1
      BY <1>2, <1>5
    <2>2. QED
      BY <1>2, <1>5, <2>1 DEF HeardOf
  <1>17. QED
    BY <1>6, <1>15, <1>16 DEF HeardOf, v, r

LEMMA RelayRest ==
  ASSUME Rest, TypeOK, NEW s \in Subs, Relay(s)
  PROVE  Rest'
  <1> DEFINE q == rx[s]
             w == told[s]
  <1>1. /\ q # <<>> /\ rx' = [rx EXCEPT ![s] = Tail(@)]
        /\ Write(s, "live", <<Head(q)>>)
        /\ UNCHANGED <<log, published, ticks>>
    BY DEF Relay
  <1>2. q \in Seq(Pubs) /\ w \in Seq(Pubs) /\ Len(q) \in Nat \ {0}
    BY <1>1, LenProperties, EmptySeq DEF TypeOK
  <1>3. PICK to \in {"live", "done"} : Goes(s, "live", to)
    BY <1>1 DEF Write
  <1>4. Onward /\ phase'[s] = to
    BY <1>3, GoesOnward, GoesEffect DEF Conns
  <1>5. rx'[s] = Tail(q) /\ \A u \in Subs : u # s => rx'[u] = rx[u] /\ told'[u] = told[u]
    BY <1>1 DEF Write, TypeOK
  <1>6. told'[s] = w \/ told'[s] = Append(w, Head(q))
    <2>1. told'[s] = w \/ told'[s] = w \o <<Head(q)>>
      BY <1>1 DEF Write, TypeOK
    <2>2. QED
      BY <2>1, <1>1, <1>2, HeadTailProperties, AppendIsConcat
  <1>7. HeardOf(told'[s], rx'[s])
    <2>1. HeardOf(w, q)
      BY DEF Rest, Heard
    <2>2. /\ \A i \in 1..Len(q) : IsPublished(q[i])
          /\ \A i, j \in 1..Len(q) : i < j => Before(q[i], q[j])
      BY DEF Rest, QueueInOrder
    <2>3. QED
      BY <1>1, <1>2, <1>5, <1>6, <2>1, <2>2, HeardNext
  <1>8. /\ Len(rx'[s]) \in Nat
        /\ \A i \in 1..Len(rx'[s]) : i + 1 \in 1..Len(q) /\ rx'[s][i] = q[i + 1]
    <2>1. /\ Len(Tail(q)) = Len(q) - 1
          /\ \A i \in 1..(Len(q) - 1) : Tail(q)[i] = q[i + 1]
      BY <1>1, <1>2, HeadTailProperties
    <2>2. \A i \in 1..(Len(q) - 1) : i + 1 \in 1..Len(q)
      BY <1>2
    <2>3. QED
      BY <1>2, <1>5, <2>1, <2>2
  <1>9. \E d \in {0, 1} : \A i \in 1..Len(rx'[s]) :
          i + d \in 1..Len(rx[s]) /\ rx'[s][i] = rx[s][i + d]
    BY <1>8
  <1>10. QED
    BY <1>1, <1>3, <1>4, <1>5, <1>7, <1>8, <1>9, ToldRest

\* The log is told: it is the first part, and what was broadcast before is in it.
LEMMA WriteLogRest ==
  ASSUME Rest, TypeOK, NEW s \in Subs, WriteLog(s)
  PROVE  Rest'
  <1> DEFINE l == log[TopicOf[s]]
             cs == [i \in 1..Len(l) |-> l[i].cand]
             w == told[s]
             q == rx[s]
  <1>1. /\ Write(s, "listening", cs)
        /\ UNCHANGED <<log, rx, published, ticks>>
    BY DEF WriteLog
  <1>2. TopicOf[s] \in Topics
    BY SignalingAssumption DEF Conns
  <1>3. l \in Seq(Entry) /\ Len(l) \in Nat /\ w \in Seq(Pubs) /\ Len(q) \in Nat
    BY <1>2, Lengths DEF TypeOK
  <1>4. cs \in Seq(Pubs) /\ Len(cs) = Len(l) /\ \A i \in 1..Len(l) : cs[i] = l[i].cand
    <2>1. cs \in [1..Len(l) -> Pubs]
      <3>1. \A i \in 1..Len(l) : l[i] \in Entry
        BY <1>3, ElementOfSeq
      <3>2. QED
        BY <3>1 DEF Entry
    <2>2. QED
      BY <1>3, <2>1, FunctionIsSeq
  <1>5. PICK to \in {"live", "done"} : Goes(s, "listening", to)
    BY <1>1 DEF Write
  <1>6. Onward /\ phase'[s] = to /\ phase[s] = "listening"
    <2>1. phase[s] = "listening"
      BY <1>5 DEF Goes
    <2>2. Onward
      BY <1>5, GoesOnward DEF Conns
    <2>3. phase'[s] = to
      BY <1>5, GoesEffect DEF Conns
    <2>4. QED
      BY <2>1, <2>2, <2>3
  <1>7. rx'[s] = q /\ \A u \in Subs : u # s => rx'[u] = rx[u] /\ told'[u] = told[u]
    BY <1>1 DEF Write, TypeOK
  <1>8. w = <<>>
    BY <1>3, <1>6, EmptySeq DEF Rest, Early
  <1>9. told'[s] = w \/ told'[s] = cs
    <2>1. told'[s] = w \/ told'[s] = w \o cs
      BY <1>1 DEF Write, TypeOK
    <2>2. w \o cs = cs
      BY <1>4, <1>8, ConcatEmptySeq
    <2>3. QED
      BY <2>1, <2>2
  <1> HIDE DEF cs
  <1>10. HeardOf(cs, q)
    <2>1. \A i, j \in 1..Len(cs) : i < j => Before(cs[i], cs[j])
      BY <1>2, <1>4 DEF Rest, LogInOrder
    <2>2. \A i \in 1..Len(cs) : IsPublished(cs[i])
      BY <1>2, <1>4 DEF Rest, LogInOrder
    <2>3. ASSUME NEW j \in 1..Len(q)
          PROVE  Repeats(cs, Len(cs), q[j])
      <3>1. PICK k \in 1..Len(l) : l[k].cand = q[j]
        BY <1>6 DEF Rest, Early
      <3>2. QED
        BY <1>4, <3>1 DEF Repeats
    <2>4. (Len(cs) + 1)..Len(cs) = {} /\ Len(cs) \in 0..Len(cs)
      BY <1>3, <1>4
    <2>5. Split(cs, q, Len(cs))
      BY <2>1, <2>3, <2>4 DEF Split
    <2>6. QED
      BY <2>2, <2>4, <2>5 DEF HeardOf
  <1>11. HeardOf(told'[s], rx'[s])
    BY <1>7, <1>9, <1>10 DEF Rest, Heard
  <1>12. \E d \in {0, 1} : \A i \in 1..Len(rx'[s]) :
           i + d \in 1..Len(rx[s]) /\ rx'[s][i] = rx[s][i + d]
    <2>1. \A i \in 1..Len(rx'[s]) : i + 0 \in 1..Len(rx[s]) /\ rx'[s][i] = rx[s][i + 0]
      BY <1>3, <1>7
    <2>2. QED
      BY <2>1
  <1>13. QED
    BY <1>1, <1>3, <1>5, <1>6, <1>7, <1>11, <1>12, ToldRest

LEMMA CleanupRest ==
  ASSUME Rest, TypeOK, NEW t \in Topics, Cleanup(t)
  PROVE  Rest'
  <1>1. UNCHANGED <<phase, rx, told, published, ticks>>
    BY DEF Cleanup
  <1>2. PICK h \in [1..Len(log'[t]) -> 1..Len(log[t])] :
          /\ \A i, j \in 1..Len(log'[t]) : i < j => h[i] < h[j]
          /\ \A i \in 1..Len(log'[t]) : log'[t][i] = log[t][h[i]]
          /\ \A k \in 1..Len(log[t]) : Young(log[t][k]) => \E i \in 1..Len(log'[t]) : h[i] = k
    BY CleanupEffect
  <1>3. \A u \in Topics : u # t => log'[u] = log[u]
    BY CleanupEffect
  <1>4. LogInOrder'
    <2> SUFFICES ASSUME NEW u \in Topics
                 PROVE  /\ \A i \in 1..Len(log'[u]) :
                             IsPublished(log'[u][i].cand) /\ log'[u][i].age <= ticks
                        /\ \A i, j \in 1..Len(log'[u]) :
                             i < j => Before(log'[u][i].cand, log'[u][j].cand)
      BY <1>1 DEF LogInOrder, IsPublished, Before
    <2>1. CASE u # t
      BY <1>3, <2>1 DEF Rest, LogInOrder
    <2>2. CASE u = t
      <3>1. \A i \in 1..Len(log'[t]) : h[i] \in 1..Len(log[t])
        OBVIOUS
      <3>2. \A i \in 1..Len(log'[t]) :
              IsPublished(log'[t][i].cand) /\ log'[t][i].age <= ticks
        BY <1>2, <3>1 DEF Rest, LogInOrder
      <3>3. \A i, j \in 1..Len(log'[t]) :
              i < j => Before(log'[t][i].cand, log'[t][j].cand)
        BY SMTT(30), <1>2, <3>1 DEF Rest, LogInOrder
      <3>4. QED
        BY <2>2, <3>2, <3>3
    <2>3. QED
      BY <2>1, <2>2
  <1>5. ASSUME NEW s \in Subs, NEW k \in 1..Len(log[TopicOf[s]]),
               log[TopicOf[s]][k].age = 0
        PROVE  \E i \in 1..Len(log'[TopicOf[s]]) : log'[TopicOf[s]][i] = log[TopicOf[s]][k]
    <2>1. CASE TopicOf[s] # t
      <3>1. TopicOf[s] \in Topics
        BY SignalingAssumption DEF Conns
      <3>2. QED
        BY <1>3, <2>1, <3>1
    <2>2. CASE TopicOf[s] = t
      <3>1. Young(log[t][k])
        BY <1>5, <2>2, SignalingAssumption DEF Young
      <3>2. QED
        BY <1>2, <2>2, <3>1
    <2>3. QED
      BY <2>1, <2>2
  <1>6. QED
    BY <1>1, <1>4, <1>5, LogRest

LEMMA TickRest ==
  ASSUME Rest, TypeOK, Tick
  PROVE  Rest'
  <1>1. UNCHANGED <<phase, rx, told, published>> /\ \A s \in Subs : phase[s] # "listening"
    BY DEF Tick
  <1>2. ticks' = ticks + 1 /\ ticks \in Nat
    <2>1. ticks' = ticks + 1
      BY DEF Tick
    <2>2. QED
      BY <2>1, SignalingAssumption DEF TypeOK
  <1>3. \A t \in Topics : /\ Len(log'[t]) = Len(log[t])
                          /\ \A i \in 1..Len(log[t]) : /\ log'[t][i].cand = log[t][i].cand
                                                       /\ log'[t][i].age = log[t][i].age + 1
    BY TickEffect DEF Rest
  <1>4. \A t \in Topics : \A i \in 1..Len(log[t]) : log[t][i].age \in Nat
    <2>1. \A t \in Topics : \A i \in 1..Len(log[t]) : log[t][i] \in Entry
      BY Lengths, ElementOfSeq
    <2>2. QED
      BY <2>1 DEF Entry
  <1>5. LogInOrder'
    <2> SUFFICES ASSUME NEW u \in Topics
                 PROVE  /\ \A i \in 1..Len(log'[u]) :
                             IsPublished(log'[u][i].cand) /\ log'[u][i].age <= ticks'
                        /\ \A i, j \in 1..Len(log'[u]) :
                             i < j => Before(log'[u][i].cand, log'[u][j].cand)
      BY <1>1 DEF LogInOrder, IsPublished, Before
    <2>1. \A i \in 1..Len(log'[u]) : IsPublished(log'[u][i].cand)
      BY <1>3 DEF Rest, LogInOrder
    <2>2. \A i \in 1..Len(log'[u]) : log'[u][i].age <= ticks'
      BY <1>2, <1>3, <1>4 DEF Rest, LogInOrder
    <2>3. \A i, j \in 1..Len(log'[u]) : i < j => Before(log'[u][i].cand, log'[u][j].cand)
      BY <1>3 DEF Rest, LogInOrder
    <2>4. QED
      BY <2>1, <2>2, <2>3
  <1>6. QED
    BY <1>1, <1>5, LogRest

\* A publication is the latest: what was before another stays so.
LEMMA PublishOrder ==
  ASSUME Rest, TypeOK, NEW p \in Pubs, FinishPublish(p)
  PROVE  /\ Len(published') = Len(published) + 1 /\ published'[Len(published) + 1] = p
         /\ \A i \in 1..Len(published) : published'[i] = published[i] /\ published[i] # p
         /\ \A x, y : Before(x, y) => Before(x, y)'
         /\ \A x : IsPublished(x) => IsPublished(x)' /\ Before(x, p)'
         /\ IsPublished(p)'
  <1>1. Len(published) \in Nat /\ published \in Seq(Pubs)
    BY Lengths DEF TypeOK
  <1>2. published' = Append(published, p) /\ phase[p] = "locked"
    BY DEF FinishPublish, Goes
  <1>3. /\ Len(published') = Len(published) + 1 /\ published'[Len(published) + 1] = p
        /\ \A i \in 1..Len(published) : published'[i] = published[i]
    BY <1>1, <1>2, AppendProperties
  <1>4. \A i \in 1..Len(published) : published[i] # p
    BY <1>2 DEF Rest, PublishedOnce
  <1>5. /\ \A i \in 1..Len(published) : i \in 1..Len(published') /\ i < Len(published) + 1
        /\ Len(published) + 1 \in 1..Len(published')
    BY <1>1, <1>3
  <1>6. ASSUME NEW x, NEW y, Before(x, y)
        PROVE  Before(x, y)'
    <2>1. PICK i \in 1..Len(published), j \in 1..Len(published) :
            i < j /\ published[i] = x /\ published[j] = y
      BY <1>6 DEF Before
    <2>2. QED
      BY <1>3, <1>5, <2>1 DEF Before
  <1>7. ASSUME NEW x, IsPublished(x)
        PROVE  IsPublished(x)' /\ Before(x, p)'
    <2>1. PICK i \in 1..Len(published) : published[i] = x
      BY <1>7 DEF IsPublished
    <2>2. QED
      BY <1>3, <1>5, <2>1 DEF Before, IsPublished
  <1>8. IsPublished(p)'
    BY <1>3, <1>5 DEF IsPublished
  <1>9. QED
    BY <1>3, <1>4, <1>6, <1>7, <1>8

LEMMA FinishPublishRest ==
  ASSUME Rest, TypeOK, NEW p \in Pubs, FinishPublish(p)
  PROVE  Rest'
  <1> DEFINE t == TopicOf[p]
             n == Len(published)
             e == [cand |-> p, age |-> 0]
  <1>1. /\ Goes(p, "locked", "done") /\ Broadcast(t, p)
        /\ log' = [log EXCEPT ![t] = Append(@, e)]
        /\ UNCHANGED <<told, ticks>>
    BY DEF FinishPublish
  <1>2. t \in Topics /\ p \in Conns /\ p \notin Subs
    BY SignalingAssumption DEF Conns
  <1>3. \A d \in Conns : phase'[d] = IF d = p THEN "done" ELSE phase[d]
    BY <1>1, <1>2, GoesEffect
  <1>4. \A s \in Subs : s \in Conns /\ phase'[s] = phase[s]
    BY <1>2, <1>3 DEF Conns
  <1>5. n \in Nat /\ published \in Seq(Pubs)
    BY Lengths DEF TypeOK
  <1>6. \A x, y : Before(x, y) => Before(x, y)'
    BY PublishOrder
  <1>7. \A x : IsPublished(x) => IsPublished(x)' /\ Before(x, p)'
    BY PublishOrder
  <1>8. IsPublished(p)'
    BY PublishOrder
  <1>9. PublishedOnce'
    <2>1. /\ Len(published') = n + 1 /\ published'[n + 1] = p
          /\ \A i \in 1..n : published'[i] = published[i] /\ published[i] # p
      BY PublishOrder
    <2>2. \A i \in 1..Len(published') : i \in 1..n \/ i = n + 1
      BY <1>5, <2>1
    <2>3. \A i, j \in 1..Len(published') : published'[i] = published'[j] => i = j
      BY <2>1, <2>2 DEF Rest, PublishedOnce
    <2>4. ASSUME NEW i \in 1..Len(published')
          PROVE  phase'[published'[i]] = "done"
      <3>1. CASE i = n + 1
        BY <1>2, <1>3, <2>1, <3>1
      <3>2. CASE i \in 1..n
        <4>1. published[i] \in Conns /\ published'[i] = published[i]
          BY <1>5, <2>1, <3>2, ElementOfSeq DEF Conns
        <4>2. QED
          BY <1>3, <3>2, <4>1 DEF Rest, PublishedOnce
      <3>3. QED
        BY <2>2, <3>1, <3>2
    <2>5. QED
      BY <2>3, <2>4 DEF PublishedOnce
  <1>10. /\ log[t] \in Seq(Entry) /\ Len(log[t]) \in Nat
         /\ Len(log'[t]) = Len(log[t]) + 1
         /\ log'[t][Len(log[t]) + 1] = e
         /\ \A i \in 1..Len(log[t]) : log'[t][i] = log[t][i]
         /\ \A u \in Topics : u # t => log'[u] = log[u]
    <2>1. log[t] \in Seq(Entry) /\ Len(log[t]) \in Nat
      BY <1>2, Lengths
    <2>2. e \in Entry
      BY SignalingAssumption DEF Entry
    <2>3. log'[t] = Append(log[t], e) /\ \A u \in Topics : u # t => log'[u] = log[u]
      BY <1>1, <1>2 DEF TypeOK
    <2>4. QED
      BY <2>1, <2>2, <2>3, AppendProperties
  <1>11. \A i \in 1..Len(log'[t]) : i \in 1..Len(log[t]) \/ i = Len(log[t]) + 1
    BY <1>10
  <1>12. \A u \in Topics : \A i \in 1..Len(log[u]) :
           i \in 1..Len(log'[u]) /\ log'[u][i] = log[u][i]
    BY <1>10
  <1>13. LogInOrder'
    <2>1. ASSUME NEW u \in Topics, NEW i \in 1..Len(log'[u])
          PROVE  /\ IsPublished(log[u][i].cand)'
                 /\ log'[u][i].age <= ticks'
      <3>1. CASE i \in 1..Len(log[u])
        BY <1>1, <1>7, <1>12, <3>1 DEF Rest, LogInOrder
      <3>2. CASE u = t /\ i = Len(log[t]) + 1
        <4>1. log'[u][i].cand = p /\ log'[u][i].age = 0
          BY <1>10, <3>2
        <4>2. QED
          BY <1>1, <1>8, <4>1 DEF TypeOK
      <3>3. QED
        BY <1>10, <1>11, <3>1, <3>2
    <2>2. ASSUME NEW u \in Topics, NEW i \in 1..Len(log'[u]), NEW j \in 1..Len(log'[u]), i < j
          PROVE  Before(log[u][i].cand, log[u][j].cand)'
      <3>1. CASE j \in 1..Len(log[u])
        <4>1. i \in 1..Len(log[u])
          BY <2>2, <3>1
        <4>2. QED
          BY <1>6, <1>12, <2>2, <3>1, <4>1 DEF Rest, LogInOrder
      <3>2. CASE u = t /\ j = Len(log[t]) + 1
        <4>1. i \in 1..Len(log[u]) /\ log'[u][j].cand = p
          BY <1>10, <2>2, <3>2
        <4>2. QED
          BY <1>7, <1>12, <4>1 DEF Rest, LogInOrder
      <3>3. QED
        BY <1>10, <1>11, <3>1, <3>2
    <2>3. QED
      BY <2>1, <2>2 DEF LogInOrder
  <1>14. ASSUME NEW s \in Subs
         PROVE  \/ rx'[s] = rx[s]
                \/ /\ TopicOf[s] = t /\ phase[s] \in {"listening", "live"}
                   /\ Len(rx'[s]) \in Nat
                   /\ \E d \in {0, 1} : \A i \in 1..Len(rx'[s]) :
                        IF i = Len(rx'[s]) THEN rx'[s][i] = p
                        ELSE i + d \in 1..Len(rx[s]) /\ rx'[s][i] = rx[s][i + d]
    BY <1>1, <1>2, BroadcastEffect DEF Receivers
  <1>15. \A s \in Subs : \A i \in 1..Len(rx'[s]) :
           \/ \E j \in 1..Len(rx[s]) : rx'[s][i] = rx[s][j]
           \/ rx'[s][i] = p
    BY <1>14
  <1>16. QueueInOrder'
    <2>1. ASSUME NEW s \in Subs, NEW i \in 1..Len(rx'[s])
          PROVE  IsPublished(rx[s][i])'
      BY <1>7, <1>8, <1>15 DEF Rest, QueueInOrder
    <2>2. ASSUME NEW s \in Subs, NEW i \in 1..Len(rx'[s]), NEW j \in 1..Len(rx'[s]), i < j
          PROVE  Before(rx[s][i], rx[s][j])'
      <3>1. CASE rx'[s] = rx[s]
        BY <1>6, <2>2, <3>1 DEF Rest, QueueInOrder
      <3>2. CASE rx'[s] # rx[s]
        <4>1. PICK d \in {0, 1} : \A k \in 1..Len(rx'[s]) :
                IF k = Len(rx'[s]) THEN rx'[s][k] = p
                ELSE k + d \in 1..Len(rx[s]) /\ rx'[s][k] = rx[s][k + d]
          BY <1>14, <3>2
        <4>2. i # Len(rx'[s]) /\ i + d < j + d
          BY <1>14, <2>2, <3>2
        <4>3. i + d \in 1..Len(rx[s]) /\ rx'[s][i] = rx[s][i + d]
          BY <4>1, <4>2
        <4>4. CASE j = Len(rx'[s])
          BY <1>7, <4>1, <4>3, <4>4 DEF Rest, QueueInOrder
        <4>5. CASE j # Len(rx'[s])
          BY <1>6, <4>1, <4>2, <4>3, <4>5 DEF Rest, QueueInOrder
        <4>6. QED
          BY <4>4, <4>5
      <3>3. QED
        BY <3>1, <3>2
    <2>3. QED
      BY <2>1, <2>2 DEF QueueInOrder
  <1>17. Early'
    <2>1. ASSUME NEW s \in Subs, phase[s] \in {"sent", "found"}
          PROVE  Len(rx'[s]) = 0
      BY <1>14, <2>1 DEF Rest, Early
    <2>2. ASSUME NEW s \in Subs, phase[s] = "listening", NEW i \in 1..Len(rx'[s])
          PROVE  \E k \in 1..Len(log'[TopicOf[s]]) :
                   log'[TopicOf[s]][k].cand = rx'[s][i] /\ log'[TopicOf[s]][k].age = 0
      <3>1. CASE \E j \in 1..Len(rx[s]) : rx'[s][i] = rx[s][j]
        <4>1. PICK k \in 1..Len(log[TopicOf[s]]) :
                log[TopicOf[s]][k].cand = rx'[s][i] /\ log[TopicOf[s]][k].age = 0
          BY <2>2, <3>1 DEF Rest, Early
        <4>2. TopicOf[s] \in Topics
          BY <1>4, SignalingAssumption
        <4>3. QED
          BY <1>12, <4>1, <4>2
      <3>2. CASE ~\E j \in 1..Len(rx[s]) : rx'[s][i] = rx[s][j]
        <4>1. rx'[s][i] = p /\ rx'[s] # rx[s]
          BY <1>15, <3>2
        <4>2. TopicOf[s] = t
          BY <1>14, <4>1
        <4>3. /\ Len(log[t]) + 1 \in 1..Len(log'[t])
              /\ log'[t][Len(log[t]) + 1].cand = p /\ log'[t][Len(log[t]) + 1].age = 0
          BY <1>10
        <4>4. QED
          BY <4>1, <4>2, <4>3
      <3>3. QED
        BY <3>1, <3>2
    <2>3. QED
      BY <1>1, <1>4, <2>1, <2>2 DEF Rest, Early
  <1>18. ASSUME NEW s \in Subs
         PROVE  HeardOf(told[s], rx[s])'
    <2>1. PICK m \in 0..Len(told[s]) : Split(told[s], rx[s], m)
      BY DEF Rest, Heard, HeardOf
    <2>2. Len(told[s]) \in Nat /\ \A i \in 1..Len(told[s]) : IsPublished(told[s][i])
      BY Lengths DEF Rest, Heard, HeardOf
    <2>3. told' = told
      BY <1>1
    <2>4. ASSUME NEW x, Repeats(told[s], m, x)
          PROVE  (Repeats(told[s], m, x))'
      BY <1>6, <2>3, <2>4 DEF Repeats
    <2>5. (Repeats(told[s], m, p))'
      <3>1. \A k \in 1..m : IsPublished(told[s][k])
        BY <2>2
      <3>2. QED
        BY <1>7, <2>3, <3>1 DEF Repeats
    <2>6. ASSUME NEW i \in (m + 1)..Len(told[s]), NEW j \in 1..Len(rx'[s])
          PROVE  Before(told[s][i], rx[s][j])'
      <3>1. i \in 1..Len(told[s])
        BY <2>2
      <3>2. QED
        BY <1>6, <1>7, <1>15, <2>1, <2>2, <2>3, <3>1 DEF Split
    <2>7. ASSUME NEW j \in 1..Len(rx'[s])
          PROVE  Repeats(told[s], m, rx[s][j])'
      BY <1>15, <2>1, <2>4, <2>5 DEF Split
    <2>8. (/\ \A i, j \in 1..m : i < j => Before(told[s][i], told[s][j])
           /\ \A i, j \in (m + 1)..Len(told[s]) : i < j => Before(told[s][i], told[s][j]))'
      BY <1>6, <2>1, <2>3 DEF Split
    <2>9. (\A i \in (m + 1)..Len(told[s]) : Repeats(told[s], m, told[s][i]))'
      BY <2>1, <2>3, <2>4 DEF Split
    <2>10. Split(told[s], rx[s], m)'
      BY <2>3, <2>6, <2>7, <2>8, <2>9 DEF Split
    <2>11. (\A i \in 1..Len(told[s]) : IsPublished(told[s][i]))'
      BY <1>7, <2>2, <2>3
    <2>12. QED
      BY <2>3, <2>10, <2>11 DEF HeardOf
  <1>19. QED
    BY <1>9, <1>13, <1>16, <1>17, <1>18 DEF Rest, Heard

LEMMA RestStep == TypeOK /\ Rest /\ [Next]_vars => Rest'
  <1> SUFFICES ASSUME TypeOK, Rest, [Next]_vars PROVE Rest'
    OBVIOUS
  <1>1. ASSUME NEW c \in Conns, Reject(c)
        PROVE  Rest'
    <2>1. Goes(c, "sent", "done") /\ UNCHANGED <<log, rx, told, published, ticks>>
      BY <1>1 DEF Reject
    <2>2. QED
      BY <2>1, GoesOnward, QuietRest
  <1>2. ASSUME NEW p \in Pubs, StartPublish(p)
        PROVE  Rest'
    <2>1. /\ Goes(p, "sent", "locked") /\ UNCHANGED <<log, rx, told, published, ticks>>
          /\ p \in Conns
      BY <1>2 DEF StartPublish, Conns
    <2>2. QED
      BY <2>1, GoesOnward, QuietRest
  <1>3. ASSUME NEW s \in Subs, StartSubscribe(s)
        PROVE  Rest'
    <2>1. /\ Goes(s, "sent", "found") /\ UNCHANGED <<log, rx, told, published, ticks>>
          /\ s \in Conns
      BY <1>3 DEF StartSubscribe, Conns
    <2>2. QED
      BY <2>1, GoesOnward, QuietRest
  <1>4. ASSUME NEW s \in Subs, Listen(s)
        PROVE  Rest'
    <2>1. /\ Goes(s, "found", "listening") /\ UNCHANGED <<log, rx, told, published, ticks>>
          /\ s \in Conns
      BY <1>4 DEF Listen, Conns
    <2>2. QED
      BY <2>1, GoesOnward, QuietRest
  <1>5. CASE UNCHANGED <<log, phase, rx, told, published, ticks>>
    <2>1. Onward
      BY <1>5 DEF Onward
    <2>2. QED
      BY <1>5, <2>1, QuietRest
  <1>6. ASSUME NEW s \in Subs, HangUp(s)
        PROVE  Rest'
    BY <1>5, <1>6 DEF HangUp
  <1>7. CASE UNCHANGED vars
    BY <1>5, <1>7 DEF vars
  <1>8. QED
    BY <1>1, <1>2, <1>3, <1>4, <1>6, <1>7, FinishPublishRest, WriteLogRest, RelayRest,
       CleanupRest, TickRest DEF Next

-----------------------------------------------------------------------------
(* The theorems.                                                           *)

LEMMA IInvCorrect == Spec => []IInv
  <1>1. IInv <=> TypeOK /\ Rest
    BY DEF IInv, Rest
  <1>2. Init => IInv
    BY <1>1, TypeInit, RestInit
  <1>3. IInv /\ [Next]_vars => IInv'
    <2>1. ASSUME IInv, [Next]_vars
          PROVE  TypeOK' /\ Rest'
      BY <1>1, <2>1, TypeStep, RestStep DEF Rest
    <2>2. QED
      BY <2>1 DEF IInv, Rest
  <1>4. QED
    BY <1>2, <1>3, PTL DEF Spec

\* The variables of the signaling server have their types, and no subscriber has
\* more broadcasts waiting than the channel holds.
THEOREM TypeCorrect == Spec => []TypeOK
  <1>1. IInv => TypeOK
    BY DEF IInv
  <1>2. QED
    BY <1>1, IInvCorrect, PTL

\* No candidate is before itself, nor two before each other.
LEMMA BeforeStrict ==
  ASSUME PublishedOnce, NEW x, NEW y, Before(x, y)
  PROVE  x # y
  BY DEF PublishedOnce, Before

\* The log and the broadcasts overlap, but not more than once: of three places
\* where a candidate was told, two would be in the same part.
THEOREM ToldTwiceCorrect == Spec => []ToldAtMostTwice
  <1>1. IInv => ToldAtMostTwice
    <2> SUFFICES ASSUME IInv, NEW s \in Subs,
                        NEW i \in 1..Len(told[s]), NEW j \in 1..Len(told[s]),
                        NEW k \in 1..Len(told[s]),
                        i < j, j < k,
                        told[s][i] = told[s][j], told[s][j] = told[s][k]
                 PROVE  FALSE
      BY DEF ToldAtMostTwice
    <2>1. PICK m \in 0..Len(told[s]) : Split(told[s], rx[s], m)
      BY DEF IInv, Heard, HeardOf
    <2>2. Len(told[s]) \in Nat
      BY Lengths DEF IInv
    <2>3. (i \in 1..m /\ j \in 1..m) \/ (j \in (m + 1)..Len(told[s]) /\ k \in (m + 1)..Len(told[s]))
      BY <2>2
    <2>4. Before(told[s][i], told[s][j]) \/ Before(told[s][j], told[s][k])
      BY <2>1, <2>3 DEF Split
    <2>5. QED
      BY <2>4, BeforeStrict DEF IInv
  <1>2. QED
    BY <1>1, IInvCorrect, PTL

\* What is in a sequence has a first place there.
LEMMA FirstOfIsFirst ==
  ASSUME NEW S, NEW q \in Seq(S), NEW x, \E i \in 1..Len(q) : q[i] = x
  PROVE  /\ FirstOf(q, x) \in 1..Len(q)
         /\ q[FirstOf(q, x)] = x
         /\ \A j \in 1..Len(q) : q[j] = x => FirstOf(q, x) <= j
  <1> DEFINE places == {i \in 1..Len(q) : q[i] = x}
  <1>1. Len(q) \in Nat
    BY LenProperties
  <1>2. PICK i \in places : \A j \in places : i <= j
    <2>1. places \in SUBSET Nat /\ places # {}
      BY <1>1
    <2>2. QED
      BY <2>1, LeastNumber
  <1>3. \A j \in 1..(i - 1) : q[j] # x
    BY <1>1, <1>2
  <1>4. FirstOf(q, x) \in 1..Len(q) /\ q[FirstOf(q, x)] = x /\ \A j \in 1..(FirstOf(q, x) - 1) : q[j] # x
    BY <1>2, <1>3 DEF FirstOf
  <1>5. QED
    BY <1>1, <1>4

\* A subscriber hears of the candidates first in the order of their publication,
\* though it hears of them from two places.
THEOREM ToldInOrderCorrect == Spec => []ToldInOrder
  <1>1. IInv => ToldInOrder
    <2> SUFFICES ASSUME IInv, NEW s \in Subs,
                        NEW p \in ToSet(told[s]), NEW q \in ToSet(told[s]),
                        FirstOf(told[s], p) < FirstOf(told[s], q)
                 PROVE  FirstOf(published, p) < FirstOf(published, q)
      BY DEF ToldInOrder
    <2> DEFINE w == told[s]
               a == FirstOf(w, p)
               b == FirstOf(w, q)
    <2>1. w \in Seq(Pubs) /\ published \in Seq(Pubs) /\ Len(w) \in Nat
      BY Lengths DEF IInv, TypeOK
    <2>2. (\E i \in 1..Len(w) : w[i] = p) /\ \E i \in 1..Len(w) : w[i] = q
      BY <2>1, LenProperties DEF ToSet
    <2>3. /\ a \in 1..Len(w) /\ w[a] = p
          /\ b \in 1..Len(w) /\ w[b] = q
          /\ \A j \in 1..Len(w) : w[j] = q => b <= j
      BY <2>1, <2>2, FirstOfIsFirst
    <2>4. PICK m \in 0..Len(w) : Split(w, rx[s], m)
      BY DEF IInv, Heard, HeardOf
    <2>5. a < b
      OBVIOUS
    <2> HIDE DEF w, a, b
    <2>6. Before(p, q)
      <3>1. CASE b \in 1..m
        <4>1. a \in 1..m
          BY <2>3, <2>5, <3>1
        <4>2. QED
          BY <2>3, <2>4, <2>5, <3>1, <4>1 DEF Split
      <3>2. CASE a \in (m + 1)..Len(w)
        <4>1. b \in (m + 1)..Len(w)
          BY <2>1, <2>3, <2>5, <3>2
        <4>2. QED
          BY <2>3, <2>4, <2>5, <3>2, <4>1 DEF Split
      <3>3. CASE a \in 1..m /\ b \in (m + 1)..Len(w)
        <4>1. Repeats(w, m, q)
          BY <2>3, <2>4, <3>3 DEF Split
        <4>2. \A k \in 1..m : w[k] # q
          BY <2>1, <2>3, <3>3
        <4>3. QED
          BY <2>3, <3>3, <4>1, <4>2 DEF Repeats
      <3>4. QED
        BY <2>1, <2>3, <3>1, <3>2, <3>3
    <2>7. PICK i \in 1..Len(published), j \in 1..Len(published) :
            i < j /\ published[i] = p /\ published[j] = q
      BY <2>6 DEF Before
    <2>8. FirstOf(published, p) = i /\ FirstOf(published, q) = j
      BY <2>1, <2>7, FirstOfIsFirst DEF IInv, PublishedOnce
    <2>9. QED
      BY <2>7, <2>8
  <1>2. QED
    BY <1>1, IInvCorrect, PTL
===============================================================================
