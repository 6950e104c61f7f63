---------------------------- MODULE SwarmProofs ------------------------------
(***************************************************************************)
(* Proofs, for any swarm, topology, configuration and commands.  Nodes     *)
(* that got all updates agree with the issuer: an update that waits is as  *)
(* good as applied, so the argument is about what an assignment settles    *)
(* at.  A router does what its node's state asks for, and no topic twice:  *)
(* a request that waits is as good as handled, so the argument counts what *)
(* a router was asked for, and every step of the system only moves that    *)
(* sum when the node goes to a state.                                      *)
(***************************************************************************)
EXTENDS Swarm, SequenceTheorems, FiniteSetTheorems, WellFoundedInduction, TLAPS

Values == States \cup {x[2] : x \in Commands} \cup {None}
Updates == [machine : Names, state : {x[2] : x \in Commands}]

\* The types of what the nodes keep; their requests do not matter here.
Shape ==
  /\ node \in [Machines -> {"launching", "up", "ended"}]
  /\ asg \in [Machines -> [Names -> Values]]
  /\ inbox \in [Machines -> Seq(Updates)]

\* q names n last with s.
NamesLast(q, n, s) ==
  \E i \in 1..Len(q) : /\ q[i].machine = n /\ q[i].state = s
                       /\ \A j \in 1..Len(q) : j > i => q[j].machine # n

NamesNot(q, n) == \A i \in 1..Len(q) : q[i].machine # n

\* When m has handled what waits for it, the machine n has the state s for it.
SettlesAt(m, n, s) ==
  NamesLast(inbox[m], n, s) \/ (NamesNot(inbox[m], n) /\ asg[m][n] = s)

\* m has got all updates since it was launched first.
Informed(m) == node[m] # "ended" /\ m \notin missed \cup restarted

SettleAlike ==
  Informed(Issuer) =>
    \A m \in Machines : Informed(m) =>
      \A n \in Names : \E s \in Values : SettlesAt(m, n, s) /\ SettlesAt(Issuer, n, s)

IInv == Shape /\ SettleAlike

-----------------------------------------------------------------------------
(* Sequences of updates.                                                   *)

\* The update that is appended is the last one to name its machine.
LEMMA AppendNames ==
  ASSUME NEW q \in Seq(Updates), NEW u \in Updates
  PROVE  /\ Append(q, u) \in Seq(Updates)
         /\ NamesLast(Append(q, u), u.machine, u.state)
         /\ \A n, s : n # u.machine /\ NamesLast(q, n, s) => NamesLast(Append(q, u), n, s)
         /\ \A n : n # u.machine /\ NamesNot(q, n) => NamesNot(Append(q, u), n)
  <1>1. /\ Append(q, u) \in Seq(Updates) /\ Len(Append(q, u)) = Len(q) + 1
        /\ Len(q) \in Nat /\ Append(q, u)[Len(q) + 1] = u
        /\ \A i \in 1..Len(q) : Append(q, u)[i] = q[i]
    BY AppendProperties, LenProperties
  <1> HIDE DEF Updates
  <1>2. NamesLast(Append(q, u), u.machine, u.state)
    <2>1. Len(q) + 1 \in 1..Len(Append(q, u))
      BY <1>1
    <2>2. QED
      BY <1>1, <2>1 DEF NamesLast
  <1>3. ASSUME NEW n, NEW s, n # u.machine, NamesLast(q, n, s)
        PROVE  NamesLast(Append(q, u), n, s)
    <2>1. PICK i \in 1..Len(q) : /\ q[i].machine = n /\ q[i].state = s
                                 /\ \A j \in 1..Len(q) : j > i => q[j].machine # n
      BY <1>3 DEF NamesLast
    <2>2. i \in 1..Len(Append(q, u)) /\ Append(q, u)[i] = q[i]
      BY <1>1
    <2>3. ASSUME NEW j \in 1..Len(Append(q, u)), j > i PROVE Append(q, u)[j].machine # n
      <3>1. CASE j = Len(q) + 1
        BY <1>1, <1>3, <3>1
      <3>2. CASE j \in 1..Len(q)
        BY <1>1, <2>1, <2>3, <3>2
      <3>3. QED
        BY <1>1, <3>1, <3>2
    <2>4. QED
      BY <2>1, <2>2, <2>3 DEF NamesLast
  <1>4. ASSUME NEW n, n # u.machine, NamesNot(q, n) PROVE NamesNot(Append(q, u), n)
    <2> SUFFICES ASSUME NEW i \in 1..Len(Append(q, u)) PROVE Append(q, u)[i].machine # n
      BY DEF NamesNot
    <2>1. i \in 1..Len(q) \/ i = Len(q) + 1
      BY <1>1
    <2>2. QED
      BY <1>1, <1>4, <2>1 DEF NamesNot
  <1>5. QED
    BY <1>1, <1>2, <1>3, <1>4

\* What a sequence names last is in its tail, or its head named it.
LEMMA TailNames ==
  ASSUME NEW q \in Seq(Updates), q # <<>>, NEW n, NEW s
  PROVE  /\ Head(q) \in Updates /\ Tail(q) \in Seq(Updates)
         /\ NamesNot(q, n) => NamesNot(Tail(q), n) /\ Head(q).machine # n
         /\ NamesLast(q, n, s) =>
              \/ NamesLast(Tail(q), n, s)
              \/ NamesNot(Tail(q), n) /\ Head(q).machine = n /\ Head(q).state = s
  <1>1. /\ Head(q) = q[1] /\ Tail(q) \in Seq(Updates)
        /\ Len(q) \in Nat \ {0} /\ Len(Tail(q)) = Len(q) - 1
        /\ \A i \in 1..Len(Tail(q)) : Tail(q)[i] = q[i + 1]
    BY HeadTailProperties, LenProperties
  <1>2. Head(q) \in Updates
    BY HeadTailProperties
  <1> HIDE DEF Updates
  <1>3. ASSUME NamesNot(q, n) PROVE NamesNot(Tail(q), n) /\ Head(q).machine # n
    BY <1>1, <1>3 DEF NamesNot
  <1>4. ASSUME NamesLast(q, n, s)
        PROVE  \/ NamesLast(Tail(q), n, s)
               \/ NamesNot(Tail(q), n) /\ Head(q).machine = n /\ Head(q).state = s
    <2>1. PICK i \in 1..Len(q) : /\ q[i].machine = n /\ q[i].state = s
                                 /\ \A j \in 1..Len(q) : j > i => q[j].machine # n
      BY <1>4 DEF NamesLast
    <2>2. CASE i = 1
      BY <1>1, <2>1, <2>2 DEF NamesNot
    <2>3. CASE i # 1
      <3>1. i - 1 \in 1..Len(Tail(q)) /\ Tail(q)[i - 1] = q[i]
        BY <1>1, <2>3
      <3>2. \A j \in 1..Len(Tail(q)) : j > i - 1 => Tail(q)[j].machine # n
        BY <1>1, <2>1
      <3>3. QED
        BY <2>1, <3>1, <3>2 DEF NamesLast
    <2>4. QED
      BY <2>2, <2>3
  <1>5. QED
    BY <1>1, <1>2, <1>3, <1>4

-----------------------------------------------------------------------------
(* Steps.                                                                  *)

LEMMA InitIInv == Init => IInv
  <1> SUFFICES ASSUME Init PROVE IInv
    OBVIOUS
  <1>1. <<>> \in Seq(Updates)
    BY EmptySeq
  <1>2. FromYaml \in [Names -> Values]
    BY SwarmAssumption DEF FromYaml, Values
  <1>3. Shape
    BY <1>1, <1>2 DEF Init, Shape
  <1>4. ASSUME NEW m \in Machines, NEW n \in Names
        PROVE  SettlesAt(m, n, FromYaml[n]) /\ SettlesAt(Issuer, n, FromYaml[n])
    BY SwarmAssumption DEF Init, SettlesAt, NamesNot
  <1>5. \A n \in Names : FromYaml[n] \in Values
    BY <1>2
  <1>6. QED
    BY <1>3, <1>4, <1>5 DEF IInv, SettleAlike

\* Nodes that are informed afterwards were so before, and where they settle has
\* not changed.
LEMMA SettledBefore ==
  ASSUME IInv, Shape',
         \A m \in Machines : Informed(m)' =>
           /\ Informed(m)
           /\ \A n \in Names, s \in Values : SettlesAt(m, n, s) => SettlesAt(m, n, s)'
  PROVE  IInv'
  <1>1. SettleAlike'
    <2> SUFFICES ASSUME Informed(Issuer)', NEW m \in Machines, Informed(m)', NEW n \in Names
                 PROVE  \E s \in Values : SettlesAt(m, n, s)' /\ SettlesAt(Issuer, n, s)'
      BY DEF SettleAlike
    <2>1. PICK s \in Values : SettlesAt(m, n, s) /\ SettlesAt(Issuer, n, s)
      BY SwarmAssumption DEF IInv, SettleAlike
    <2>2. QED
      BY <2>1, SwarmAssumption
  <1>2. QED
    BY <1>1 DEF IInv

\* Noting the state v for n changes that entry only.
LEMMA Noted ==
  ASSUME Shape, NEW m \in Machines, NEW n \in Names, NEW v \in Values,
         asg' = [asg EXCEPT ![m][n] = v]
  PROVE  /\ asg' \in [Machines -> [Names -> Values]]
         /\ asg'[m][n] = v
         /\ \A x \in Names : x # n => asg'[m][x] = asg[m][x]
         /\ \A x \in Machines : x # m => asg'[x] = asg[x]
  <1> HIDE DEF Values
  <1>1. asg \in [Machines -> [Names -> Values]]
    BY DEF Shape
  <1>2. asg'[m] = [asg[m] EXCEPT ![n] = v] /\ \A x \in Machines : x # m => asg'[x] = asg[x]
    BY <1>1
  <1>3. asg'[m] \in [Names -> Values]
    BY <1>1, <1>2
  <1>4. QED
    BY <1>1, <1>2, <1>3

\* A node that takes the next update settles where it would have.
LEMMA TakesUpdate ==
  ASSUME IInv, NEW m \in Machines, Receive(m), UNCHANGED <<node, missed, restarted>>,
         inbox' = [inbox EXCEPT ![m] = Tail(@)],
         LET u == Head(inbox[m]) IN
           \/ asg' = [asg EXCEPT ![m][u.machine] = u.state]
           \/ asg' = asg /\ asg[m][u.machine] = u.state
  PROVE  IInv'
  <1> DEFINE u == Head(inbox[m])
  <1>1. inbox[m] \in Seq(Updates) /\ inbox[m] # <<>>
    BY DEF IInv, Shape, Receive
  <1>2. u \in Updates /\ Tail(inbox[m]) \in Seq(Updates)
    BY <1>1, TailNames
  <1>3. u.machine \in Names /\ u.state \in Values
    BY <1>2 DEF Updates, Values
  <1>4. /\ asg' \in [Machines -> [Names -> Values]]
        /\ asg'[m][u.machine] = u.state
        /\ \A x \in Names : x # u.machine => asg'[m][x] = asg[m][x]
        /\ \A x \in Machines : x # m => asg'[x] = asg[x]
    <2>1. CASE asg' = [asg EXCEPT ![m][u.machine] = u.state]
      BY <2>1, <1>3, Noted DEF IInv
    <2>2. CASE asg' = asg /\ asg[m][u.machine] = u.state
      BY <2>2 DEF IInv, Shape
    <2>3. QED
      BY <2>1, <2>2
  <1>5. Shape'
    BY <1>2, <1>4 DEF IInv, Shape
  <1>6. ASSUME NEW x \in Machines, NEW n \in Names, NEW s \in Values, SettlesAt(x, n, s)
        PROVE  SettlesAt(x, n, s)'
    <2>1. CASE x # m
      <3>1. inbox'[x] = inbox[x] /\ asg'[x] = asg[x]
        BY <2>1, <1>4 DEF IInv, Shape
      <3>2. QED
        BY <3>1, <1>6 DEF SettlesAt
    <2>2. CASE x = m
      <3>1. inbox'[m] = Tail(inbox[m])
        BY DEF IInv, Shape
      <3>2. CASE NamesNot(inbox[m], n) /\ asg[m][n] = s
        <4>1. NamesNot(Tail(inbox[m]), n) /\ u.machine # n
          BY <1>1, <3>2, TailNames
        <4>2. asg'[m][n] = s
          BY <4>1, <3>2, <1>4
        <4>3. QED
          BY <2>2, <3>1, <4>1, <4>2 DEF SettlesAt
      <3>3. CASE NamesLast(inbox[m], n, s)
        <4>1. \/ NamesLast(Tail(inbox[m]), n, s)
              \/ NamesNot(Tail(inbox[m]), n) /\ u.machine = n /\ u.state = s
          BY <1>1, <3>3, TailNames
        <4>2. QED
          BY <2>2, <3>1, <4>1, <1>4 DEF SettlesAt
      <3>4. QED
        BY <2>2, <3>2, <3>3, <1>6 DEF SettlesAt
    <2>3. QED
      BY <2>1, <2>2
  <1>7. QED
    BY <1>5, <1>6, SettledBefore DEF Informed

\* What is published settles everybody it gets through to.
LEMMA AssignIInv ==
  ASSUME IInv, NEW n, NEW v, Assign(n, v)
  PROVE  IInv'
  <1> USE SwarmAssumption
  <1>1. n \in Names /\ v \in Values /\ Update(n, v) \in Updates
    <2>1. <<n, v>> \in Commands
      BY DEF Assign
    <2>2. n \in {x[1] : x \in Commands} /\ v \in {x[2] : x \in Commands}
      BY <2>1
    <2>3. QED
      BY <2>2 DEF Names, Values, Updates, Update
  <1>2. CASE /\ IF n = Issuer THEN ApplyOwn(n, v) ELSE ApplyOther(Issuer, n, v)
             /\ \E L \in SUBSET (Lossy \ {Issuer}) : Publish(n, v, L \cup NotUp)
    <2>1. asg' = [asg EXCEPT ![Issuer][n] = v] /\ node' = node
      BY <1>2 DEF ApplyOwn, ApplyOther
    <2>2. PICK L \in SUBSET (Lossy \ {Issuer}) : Publish(n, v, L \cup NotUp)
      BY <1>2
    <2>3. /\ asg' \in [Machines -> [Names -> Values]]
          /\ \A x \in Machines, y \in Names : y # n => asg'[x][y] = asg[x][y]
      <3>1. /\ asg' \in [Machines -> [Names -> Values]]
            /\ \A y \in Names : y # n => asg'[Issuer][y] = asg[Issuer][y]
            /\ \A x \in Machines : x # Issuer => asg'[x] = asg[x]
        BY ZenonT(60), <1>1, <2>1, Noted DEF IInv
      <3>2. QED
        BY <3>1
    <2>4. \A x \in Machines : /\ inbox[x] \in Seq(Updates)
                              /\ Append(inbox[x], Update(n, v)) \in Seq(Updates)
      BY <1>1, AppendNames DEF IInv, Shape
    <2>5. Shape'
      BY <2>1, <2>2, <2>3, <2>4 DEF IInv, Shape, Publish
    <2>6. restarted' = restarted
      BY DEF Assign
    <2>7. ASSUME NEW x \in Machines, Informed(x)'
          PROVE  Informed(x) /\ inbox'[x] = Append(inbox[x], Update(n, v))
      BY <2>1, <2>2, <2>6, <2>7 DEF Informed, Publish
    <2>8. ASSUME NEW x \in Machines, Informed(x)'
          PROVE  /\ SettlesAt(x, n, v)'
                 /\ \A y \in Names : \A s : y # n /\ SettlesAt(x, y, s) => SettlesAt(x, y, s)'
      <3>1. Update(n, v).machine = n /\ Update(n, v).state = v
        BY DEF Update
      <3> DEFINE q == Append(inbox[x], Update(n, v))
      <3>2. /\ NamesLast(q, Update(n, v).machine, Update(n, v).state)
            /\ \A y, s : y # Update(n, v).machine /\ NamesLast(inbox[x], y, s) => NamesLast(q, y, s)
            /\ \A y : y # Update(n, v).machine /\ NamesNot(inbox[x], y) => NamesNot(q, y)
        BY <1>1, <2>4, AppendNames
      <3>3. inbox'[x] = q
        BY <2>7, <2>8
      <3> HIDE DEF q
      <3>4. NamesLast(inbox'[x], n, v)
        BY <3>1, <3>2, <3>3
      <3>5. ASSUME NEW y \in Names, NEW s, y # n, SettlesAt(x, y, s)
            PROVE  SettlesAt(x, y, s)'
        <4>1. CASE NamesLast(inbox[x], y, s)
          <5>1. NamesLast(inbox'[x], y, s)
            BY <3>1, <3>5, <3>2, <3>3, <4>1
          <5>2. QED
            BY <5>1 DEF SettlesAt
        <4>2. CASE NamesNot(inbox[x], y) /\ asg[x][y] = s
          <5>1. NamesNot(inbox'[x], y)
            BY <3>1, <3>5, <3>2, <3>3, <4>2
          <5>2. QED
            BY <5>1, <2>3, <3>5, <4>2 DEF SettlesAt
        <4>3. QED
          BY <3>5, <4>1, <4>2 DEF SettlesAt
      <3>6. QED
        BY <3>4, <3>5 DEF SettlesAt
    <2>9. SettleAlike'
      <3> SUFFICES ASSUME Informed(Issuer)', NEW m \in Machines, Informed(m)', NEW y \in Names
                   PROVE  \E s \in Values : SettlesAt(m, y, s)' /\ SettlesAt(Issuer, y, s)'
        BY DEF SettleAlike
      <3>1. CASE y = n
        BY <1>1, <2>8, <3>1
      <3>2. CASE y # n
        <4>1. PICK s \in Values : SettlesAt(m, y, s) /\ SettlesAt(Issuer, y, s)
          BY <2>7 DEF IInv, SettleAlike
        <4>2. QED
          BY <2>8, <3>2, <4>1
      <3>3. QED
        BY <3>1, <3>2
    <2>10. QED
      BY <2>5, <2>9 DEF IInv
  <1>3. CASE n = Issuer /\ ApplyFails(n, v) /\ UNCHANGED <<inbox, missed>>
    <2>1. Shape' /\ node'[Issuer] = "ended"
      BY <1>3 DEF ApplyFails, IInv, Shape
    <2>2. QED
      BY <2>1 DEF IInv, SettleAlike, Informed
  <1>4. QED
    BY <1>2, <1>3 DEF Assign

LEMMA StepIInv == IInv /\ [Next]_vars => IInv'
  <1> SUFFICES ASSUME IInv, [Next]_vars PROVE IInv'
    OBVIOUS
  <1>1. ASSUME NEW m \in Machines, Launch(m) PROVE IInv'
    <2>1. Shape' /\ asg' = asg /\ inbox' = inbox /\ \A x \in Machines : Informed(x)' => Informed(x)
      BY <1>1 DEF Launch, IInv, Shape, Informed
    <2>2. QED
      BY <2>1, SettledBefore DEF SettlesAt
  <1>2. ASSUME NEW m \in Machines, HandleUpdate(m) PROVE IInv'
    <2>1. /\ asg' = [asg EXCEPT ![m][Head(inbox[m]).machine] = Head(inbox[m]).state]
          /\ node' = node
      BY <1>2 DEF HandleUpdate, ApplyOwn, ApplyOther
    <2>2. QED
      BY <1>2, <2>1, TakesUpdate DEF HandleUpdate
  <1>3. ASSUME NEW m \in Machines, IgnoreUpdate(m) PROVE IInv'
    BY <1>3, TakesUpdate DEF IgnoreUpdate
  <1>4. ASSUME NEW m \in Machines, UpdateFails(m) PROVE IInv'
    <2>1. /\ node' = [node EXCEPT ![m] = "ended"] /\ asg' = asg
          /\ inbox' = [inbox EXCEPT ![m] = <<>>] /\ UNCHANGED <<missed, restarted>>
      BY <1>4 DEF UpdateFails, ApplyFails
    <2>2. Shape'
      BY <2>1, EmptySeq DEF IInv, Shape
    <2>3. ASSUME NEW x \in Machines, Informed(x)'
          PROVE  Informed(x) /\ inbox'[x] = inbox[x]
      BY <2>1, <2>3 DEF IInv, Shape, Informed
    <2>4. QED
      BY <2>1, <2>2, <2>3, SettledBefore DEF SettlesAt
  <1>5. ASSUME NEW m \in Machines, Restart(m) PROVE IInv'
    <2>1. FromYaml \in [Names -> Values] /\ <<>> \in Seq(Updates)
      BY SwarmAssumption, EmptySeq DEF FromYaml, Values
    <2>2. Shape'
      BY <1>5, <2>1 DEF Restart, IInv, Shape
    <2>3. ASSUME NEW x \in Machines, Informed(x)'
          PROVE  Informed(x) /\ inbox'[x] = inbox[x] /\ asg'[x] = asg[x]
      BY <1>5, <2>3 DEF Restart, IInv, Shape, Informed
    <2>4. QED
      BY <2>2, <2>3, SettledBefore DEF SettlesAt
  <1>6. ASSUME NEW m \in Machines, HandleAdd(m) \/ HandleRouting(m) \/ HandleOther(m)
        PROVE  IInv'
    <2>1. UNCHANGED <<node, asg, inbox, missed, restarted>>
      BY <1>6 DEF HandleAdd, HandleRouting, HandleOther, Handles, nodeVars
    <2>2. QED
      BY <2>1 DEF IInv, Shape, SettleAlike, Informed, SettlesAt
  <1>7. CASE UNCHANGED vars
    BY <1>7 DEF vars, nodeVars, IInv, Shape, SettleAlike, Informed, SettlesAt
  <1>8. QED
    BY <1>1, <1>2, <1>3, <1>4, <1>5, <1>6, <1>7, AssignIInv DEF Next

\* When the updates have been handled, every node that got all of them has the
\* issuer's assignment: for any number of machines and of commands, whatever their
\* states ask for and whichever nodes fail on the way.
THEOREM NodesAgree == Spec => []Agreement
  <1>1. IInv => Agreement
    <2> SUFFICES ASSUME IInv, NEW m \in Machines,
                        node[m] = "up", inbox[m] = <<>>,
                        node[Issuer] = "up", inbox[Issuer] = <<>>,
                        {m, Issuer} \cap (missed \cup restarted) = {}
                 PROVE  asg[m] = asg[Issuer]
      BY DEF Agreement
    <2>1. Informed(m) /\ Informed(Issuer)
      BY DEF Informed
    <2>2. \A n \in Names : \A s : ~NamesLast(inbox[m], n, s) /\ ~NamesLast(inbox[Issuer], n, s)
      BY DEF NamesLast
    <2>3. \A n \in Names : asg[m][n] = asg[Issuer][n]
      BY <2>1, <2>2 DEF IInv, SettleAlike, SettlesAt
    <2>4. QED
      BY <2>3, SwarmAssumption DEF IInv, Shape
  <1>2. QED
    BY <1>1, InitIInv, StepIInv, PTL DEF Spec
-----------------------------------------------------------------------------
(* Sequences: how often they have something, and flattened ones.           *)

LEMMA LeastNumber ==
  ASSUME NEW S \in SUBSET Nat, S # {}
  PROVE  \E x \in S : \A y \in S : x <= y
  <1>1. PICK x \in S : \A y \in S : <<y, x>> \notin OpToRel(<, Nat)
    BY NatLessThanWellFounded, WFMin
  <1>2. \A y \in S : ~(y < x)
    BY <1>1 DEF OpToRel
  <1>3. QED
    BY <1>2

\* A set of numbers with 0 and with the successors of its members has all.
LEMMA Induction ==
  ASSUME NEW S, 0 \in S, \A i \in Nat : i \in S => i + 1 \in S
  PROVE  Nat \subseteq S
  <1> SUFFICES ASSUME Nat \ S # {} PROVE FALSE
    OBVIOUS
  <1>1. PICK x \in Nat \ S : \A y \in Nat \ S : x <= y
    BY LeastNumber
  <1>2. x - 1 \in Nat /\ x - 1 \in S
    BY <1>1
  <1>3. QED
    BY <1>1, <1>2

Joins(f, qs, n) == f = [i \in 1..n |-> IF i = 1 THEN qs[i] ELSE f[i - 1] \o qs[i]]

LEMMA JoinExists ==
  ASSUME NEW qs
  PROVE  \A n \in Nat : \E f : Joins(f, qs, n)
  <1> DEFINE S == {n \in Nat : \E f : Joins(f, qs, n)}
  <1>1. 0 \in S
    <2>1. Joins([i \in 1..0 |-> 0], qs, 0)
      BY DEF Joins
    <2>2. QED
      BY <2>1
  <1>2. ASSUME NEW n \in Nat, n \in S PROVE n + 1 \in S
    <2>1. PICK f : Joins(f, qs, n)
      BY <1>2
    <2> DEFINE g == [i \in 1..(n + 1) |-> IF i = n + 1
                       THEN IF i = 1 THEN qs[i] ELSE f[n] \o qs[i]
                       ELSE f[i]]
    <2>2. ASSUME NEW i \in 1..(n + 1)
          PROVE  g[i] = IF i = 1 THEN qs[i] ELSE g[i - 1] \o qs[i]
      <3>1. CASE i = n + 1
        BY <3>1
      <3>2. CASE i # n + 1
        <4>1. i \in 1..n /\ g[i] = f[i] /\ (i # 1 => i - 1 \in 1..n /\ g[i - 1] = f[i - 1])
          BY <3>2
        <4>2. f[i] = IF i = 1 THEN qs[i] ELSE f[i - 1] \o qs[i]
          BY <2>1, <4>1 DEF Joins
        <4>3. QED
          BY <4>1, <4>2
      <3>3. QED
        BY <3>1, <3>2
    <2>3. DOMAIN g = 1..(n + 1)
      OBVIOUS
    <2>4. g = [i \in 1..(n + 1) |-> g[i]]
      OBVIOUS
    <2> HIDE DEF g
    <2>5. Joins(g, qs, n + 1)
      BY <2>2, <2>4 DEF Joins
    <2>6. QED
      BY <2>5
  <1>3. Nat \subseteq S
    <2> HIDE DEF S
    <2>1. QED
      BY <1>1, <1>2, Induction
  <1>4. QED
    BY <1>3

LEMMA FlattenIsJoin ==
  ASSUME NEW S, NEW qs \in Seq(S), Len(qs) # 0
  PROVE  \E f : Joins(f, qs, Len(qs)) /\ FlattenSeq(qs) = f[Len(qs)]
  <1> DEFINE h == CHOOSE f : Joins(f, qs, Len(qs))
  <1>1. Joins(h, qs, Len(qs))
    BY JoinExists, LenProperties
  <1>2. FlattenSeq(qs) = h[Len(qs)]
    BY DEF FlattenSeq, Joins
  <1>3. QED
    BY <1>1, <1>2


\* When I[n] has the first n blocks of qs, one after the other, for n = 0 and for
\* n + 1 whenever for n, it has all of them for the length of qs.
LEMMA FlattenInduction ==
  ASSUME NEW S, NEW qs \in Seq(Seq(S)), NEW I,
         <<>> \in I[0],
         \A n \in Nat : \A q \in Seq(S) :
           n + 1 \in 1..Len(qs) /\ q \in I[n] => q \o qs[n + 1] \in I[n + 1]
  PROVE  /\ FlattenSeq(qs) \in Seq(S)
         /\ FlattenSeq(qs) \in I[Len(qs)]
  <1>1. Len(qs) \in Nat /\ \A i \in 1..Len(qs) : qs[i] \in Seq(S)
    BY LenProperties, ElementOfSeq
  <1>2. CASE Len(qs) = 0
    BY <1>2, EmptySeq DEF FlattenSeq
  <1>3. CASE Len(qs) # 0
    <2>1. PICK f : Joins(f, qs, Len(qs)) /\ FlattenSeq(qs) = f[Len(qs)]
      BY <1>3, FlattenIsJoin
    <2>2. \A i \in 1..Len(qs) : f[i] = IF i = 1 THEN qs[i] ELSE f[i - 1] \o qs[i]
      BY <2>1 DEF Joins
    <2> DEFINE T == {n \in Nat : n \in 1..Len(qs) => f[n] \in Seq(S) /\ f[n] \in I[n]}
    <2>3. 0 \in T
      OBVIOUS
    <2>4. ASSUME NEW n \in Nat, n \in T PROVE n + 1 \in T
      <3> SUFFICES ASSUME n + 1 \in 1..Len(qs)
                   PROVE  f[n + 1] \in Seq(S) /\ f[n + 1] \in I[n + 1]
        OBVIOUS
      <3>1. PICK q \in Seq(S) : q \in I[n] /\ f[n + 1] = q \o qs[n + 1]
        <4>1. CASE n = 0
          <5>1. f[n + 1] = qs[n + 1] /\ qs[n + 1] \in Seq(S)
            BY <1>1, <2>2, <4>1
          <5>2. f[n + 1] = <<>> \o qs[n + 1] /\ <<>> \in Seq(S)
            BY <5>1, ConcatEmptySeq, EmptySeq
          <5>3. QED
            BY <4>1, <5>2
        <4>2. CASE n # 0
          <5>1. n \in 1..Len(qs) /\ (n + 1) - 1 = n /\ n + 1 # 1
            BY <1>1, <4>2
          <5>2. f[n + 1] = f[n] \o qs[n + 1]
            BY <2>2, <5>1
          <5>3. QED
            BY <2>4, <5>1, <5>2
        <4>3. QED
          BY <4>1, <4>2
      <3>2. qs[n + 1] \in Seq(S)
        BY <1>1
      <3>3. QED
        BY <3>1, <3>2, ConcatProperties
    <2>5. Nat \subseteq T
      <3> HIDE DEF T
      <3>1. QED
        BY <2>3, <2>4, Induction
    <2>6. QED
      BY <1>1, <1>3, <2>1, <2>5
  <1>4. QED
    BY <1>2, <1>3

Places(q, P) == {i \in 1..Len(q) : q[i] \in P}
Count(q, P)  == Cardinality(Places(q, P))

LEMMA PlacesFinite ==
  ASSUME NEW S, NEW q \in Seq(S), NEW P
  PROVE  IsFiniteSet(Places(q, P)) /\ Count(q, P) \in Nat
  <1>1. IsFiniteSet(1..Len(q))
    BY LenProperties, FS_Interval
  <1>2. IsFiniteSet(Places(q, P))
    BY <1>1, FS_Subset DEF Places
  <1>3. QED
    BY <1>2, FS_CardinalityType DEF Count

LEMMA CountConcat ==
  ASSUME NEW S, NEW a \in Seq(S), NEW b \in Seq(S), NEW P
  PROVE  Count(a \o b, P) = Count(a, P) + Count(b, P)
  <1> DEFINE A == Places(a, P)
             B == Places(b, P)
             C == {i \in (Len(a) + 1)..(Len(a) + Len(b)) : (a \o b)[i] \in P}
             h == [j \in B |-> Len(a) + j]
  <1>1. /\ Len(a) \in Nat /\ Len(b) \in Nat /\ Len(a \o b) = Len(a) + Len(b)
        /\ \A i \in 1..(Len(a) + Len(b)) :
             (a \o b)[i] = IF i <= Len(a) THEN a[i] ELSE b[i - Len(a)]
    BY LenProperties, ConcatProperties
  <1>2. Places(a \o b, P) = A \cup C
    BY <1>1 DEF Places
  <1>3. A \cap C = {}
    BY <1>1 DEF Places
  <1>4. h \in Bijection(B, C)
    <2>1. \A j \in B : h[j] \in C
      BY <1>1 DEF Places
    <2>2. \A i, j \in B : h[i] = h[j] => i = j
      BY <1>1 DEF Places
    <2>3. \A i \in C : \E j \in B : h[j] = i
      <3> SUFFICES ASSUME NEW i \in C PROVE \E j \in B : h[j] = i
        OBVIOUS
      <3>1. i - Len(a) \in B
        BY <1>1 DEF Places
      <3>2. h[i - Len(a)] = i
        BY <1>1, <3>1
      <3>3. QED
        BY <3>1, <3>2
    <2> HIDE DEF B, C
    <2>4. h \in [B -> C]
      BY <2>1
    <2>5. QED
      BY <2>2, <2>3, <2>4 DEF Bijection, Injection, Surjection, IsInjective
  <1>5. IsFiniteSet(A) /\ IsFiniteSet(B)
    BY PlacesFinite
  <1> HIDE DEF A, B, C, h
  <1>6. IsFiniteSet(C) /\ Cardinality(C) = Cardinality(B)
    BY <1>4, <1>5, FS_Bijection DEF ExistsBijection
  <1>7. Cardinality(A \cup C) = Cardinality(A) + Cardinality(C) - Cardinality({})
    BY <1>3, <1>5, <1>6, FS_Union
  <1>8. Cardinality({}) = 0 /\ Cardinality(A) \in Nat /\ Cardinality(C) \in Nat
    BY <1>5, <1>6, FS_EmptySet, FS_CardinalityType
  <1>9. QED
    BY <1>2, <1>6, <1>7, <1>8 DEF Count, A, B

LEMMA CountEmpty ==
  ASSUME NEW S, NEW q \in Seq(S), NEW P
  PROVE  Count(q, P) = 0 <=> \A i \in 1..Len(q) : q[i] \notin P
  <1>1. IsFiniteSet(Places(q, P))
    BY PlacesFinite
  <1>2. Count(q, P) = 0 <=> Places(q, P) = {}
    BY <1>1, FS_EmptySet DEF Count
  <1>3. QED
    BY <1>2 DEF Places

LEMMA CountNone == \A P : Count(<<>>, P) = 0
  <1> SUFFICES ASSUME NEW P PROVE Count(<<>>, P) = 0
    OBVIOUS
  <1>1. Len(<<>>) = 0
    OBVIOUS
  <1>2. Places(<<>>, P) = {}
    BY <1>1 DEF Places
  <1>3. QED
    BY <1>2, FS_EmptySet DEF Count

LEMMA CountOne ==
  ASSUME NEW x, NEW P
  PROVE  Count(<<x>>, P) = IF x \in P THEN 1 ELSE 0
  <1>1. Len(<<x>>) = 1 /\ <<x>>[1] = x
    OBVIOUS
  <1>2. CASE x \in P
    <2>1. Places(<<x>>, P) = {1}
      BY <1>1, <1>2 DEF Places
    <2>2. QED
      BY <1>2, <2>1, FS_Singleton DEF Count
  <1>3. CASE x \notin P
    <2>1. Places(<<x>>, P) = {}
      BY <1>1, <1>3 DEF Places
    <2>2. QED
      BY <1>3, <2>1, FS_EmptySet DEF Count
  <1>4. QED
    BY <1>2, <1>3

LEMMA CountTail ==
  ASSUME NEW S, NEW q \in Seq(S), q # <<>>, NEW P
  PROVE  /\ Tail(q) \in Seq(S) /\ Head(q) \in S
         /\ Count(q, P) = Count(Tail(q), P) + IF Head(q) \in P THEN 1 ELSE 0
  <1>1. Tail(q) \in Seq(S) /\ Head(q) \in S /\ <<Head(q)>> \in Seq(S)
    BY HeadTailProperties
  <1>2. q = <<Head(q)>> \o Tail(q)
    <2>1. /\ Len(q) \in Nat \ {0} /\ Len(Tail(q)) = Len(q) - 1 /\ Head(q) = q[1]
          /\ \A i \in 1..Len(Tail(q)) : Tail(q)[i] = q[i + 1]
      BY HeadTailProperties, LenProperties
    <2>2. Len(<<Head(q)>>) = 1 /\ <<Head(q)>>[1] = Head(q)
      OBVIOUS
    <2>3. /\ <<Head(q)>> \o Tail(q) \in Seq(S)
          /\ Len(<<Head(q)>> \o Tail(q)) = 1 + Len(Tail(q))
          /\ \A i \in 1..(1 + Len(Tail(q))) : (<<Head(q)>> \o Tail(q))[i] =
                 IF i <= 1 THEN Head(q) ELSE Tail(q)[i - 1]
      BY <1>1, <2>2, ConcatProperties
    <2>4. \A i \in 1..Len(q) : q[i] = (<<Head(q)>> \o Tail(q))[i]
      BY <2>1, <2>3
    <2>5. QED
      BY <2>1, <2>3, <2>4, SeqEqual
  <1>3. Count(q, P) = Count(<<Head(q)>>, P) + Count(Tail(q), P)
    <2>1. Count(<<Head(q)>> \o Tail(q), P) = Count(<<Head(q)>>, P) + Count(Tail(q), P)
      BY <1>1, CountConcat
    <2>2. QED
      BY <1>2, <2>1
  <1>4. Count(<<Head(q)>>, P) = IF Head(q) \in P THEN 1 ELSE 0
    BY CountOne
  <1>5. Count(Tail(q), P) \in Nat
    BY <1>1, PlacesFinite
  <1>6. QED
    BY <1>1, <1>3, <1>4, <1>5

\* When t sums the counts of the blocks, it has the count of all of them.
LEMMA CountFlatten ==
  ASSUME NEW S, NEW qs \in Seq(Seq(S)), NEW P, NEW t \in [Nat -> Nat], t[0] = 0,
         \A n \in Nat : n + 1 \in 1..Len(qs) => t[n + 1] = t[n] + Count(qs[n + 1], P)
  PROVE  FlattenSeq(qs) \in Seq(S) /\ Count(FlattenSeq(qs), P) = t[Len(qs)]
  <1> DEFINE I == [n \in Nat |-> {q \in Seq(S) : Count(q, P) = t[n]}]
  <1>0. \A n \in Nat : \A q \in Seq(S) : q \in I[n] <=> Count(q, P) = t[n]
    OBVIOUS
  <1> HIDE DEF I
  <1>1. <<>> \in I[0]
    <2>1. <<>> \in Seq(S) /\ 0 \in Nat
      BY EmptySeq
    <2>2. QED
      BY <1>0, <2>1, CountNone, Zenon
  <1>2. ASSUME NEW n \in Nat, NEW q \in Seq(S), n + 1 \in 1..Len(qs), q \in I[n]
        PROVE  q \o qs[n + 1] \in I[n + 1]
    <2>1. qs[n + 1] \in Seq(S)
      BY <1>2, ElementOfSeq
    <2>2. q \o qs[n + 1] \in Seq(S) /\ Count(q \o qs[n + 1], P) = Count(q, P) + Count(qs[n + 1], P)
      <3>1. q \o qs[n + 1] \in Seq(S)
        BY <2>1, ConcatProperties
      <3>2. Count(q \o qs[n + 1], P) = Count(q, P) + Count(qs[n + 1], P)
        BY SMTT(30), <2>1, CountConcat
      <3>3. QED
        BY <3>1, <3>2
    <2>3. Count(q, P) = t[n] /\ t[n + 1] = t[n] + Count(qs[n + 1], P)
      BY <1>0, <1>2
    <2>4. Count(q \o qs[n + 1], P) = t[n + 1]
      BY <2>2, <2>3
    <2>5. n + 1 \in Nat
      OBVIOUS
    <2>6. QED
      BY <1>0, <2>2, <2>4, <2>5, Zenon
  <1>3. FlattenSeq(qs) \in Seq(S) /\ FlattenSeq(qs) \in I[Len(qs)]
    BY <1>1, <1>2, FlattenInduction
  <1>4. QED
    BY <1>0, <1>3, LenProperties

\* A block is in the whole.
LEMMA FlattenAtLeast ==
  ASSUME NEW S, NEW qs \in Seq(Seq(S)), NEW P, NEW k \in 1..Len(qs)
  PROVE  FlattenSeq(qs) \in Seq(S) /\ Count(FlattenSeq(qs), P) >= Count(qs[k], P)
  <1> DEFINE I == [n \in Nat |-> {q \in Seq(S) : k <= n => Count(q, P) >= Count(qs[k], P)}]
  <1>0. Len(qs) \in Nat /\ qs[k] \in Seq(S) /\ Count(qs[k], P) \in Nat
    BY LenProperties, ElementOfSeq, PlacesFinite
  <1>a. \A n \in Nat : \A q \in Seq(S) :
          q \in I[n] <=> (k <= n => Count(q, P) >= Count(qs[k], P))
    OBVIOUS
  <1> HIDE DEF I
  <1>1. <<>> \in I[0]
    <2>1. ~(k <= 0) /\ <<>> \in Seq(S)
      BY <1>0, EmptySeq
    <2>2. QED
      BY <1>a, <2>1
  <1>2. ASSUME NEW n \in Nat, NEW q \in Seq(S), n + 1 \in 1..Len(qs), q \in I[n]
        PROVE  q \o qs[n + 1] \in I[n + 1]
    <2>1. qs[n + 1] \in Seq(S)
      BY <1>2, ElementOfSeq
    <2>2. q \o qs[n + 1] \in Seq(S) /\ Count(q \o qs[n + 1], P) = Count(q, P) + Count(qs[n + 1], P)
      <3>1. q \o qs[n + 1] \in Seq(S)
        BY <2>1, ConcatProperties
      <3>2. Count(q \o qs[n + 1], P) = Count(q, P) + Count(qs[n + 1], P)
        BY SMTT(30), <2>1, CountConcat
      <3>3. QED
        BY <3>1, <3>2
    <2>3. Count(q, P) \in Nat /\ Count(qs[n + 1], P) \in Nat
      BY <2>1, PlacesFinite
    <2>4. k <= n + 1 => k = n + 1 \/ k <= n
      BY <1>0
    <2>5. k <= n => Count(q, P) >= Count(qs[k], P)
      BY <1>a, <1>2
    <2>6. k <= n + 1 => Count(q \o qs[n + 1], P) >= Count(qs[k], P)
      <3>1. CASE k = n + 1
        BY <1>0, <2>2, <2>3, <3>1
      <3>2. CASE k <= n
        BY <1>0, <2>2, <2>3, <2>5, <3>2
      <3>3. QED
        BY <2>4, <3>1, <3>2
    <2>7. n + 1 \in Nat
      OBVIOUS
    <2>8. QED
      BY <1>a, <2>2, <2>6, <2>7, Zenon
  <1>3. FlattenSeq(qs) \in Seq(S) /\ FlattenSeq(qs) \in I[Len(qs)]
    BY <1>1, <1>2, FlattenInduction
  <1>4. QED
    BY <1>0, <1>a, <1>3

LEMMA FlattenType ==
  ASSUME NEW S, NEW qs \in Seq(Seq(S))
  PROVE  FlattenSeq(qs) \in Seq(S)
  <1> DEFINE I == [n \in Nat |-> Seq(S)]
  <1>0. \A n \in Nat : I[n] = Seq(S)
    OBVIOUS
  <1> HIDE DEF I
  <1>1. <<>> \in I[0]
    BY <1>0, EmptySeq
  <1>2. ASSUME NEW n \in Nat, NEW q \in Seq(S), n + 1 \in 1..Len(qs)
        PROVE  q \o qs[n + 1] \in I[n + 1]
    <2>1. qs[n + 1] \in Seq(S)
      BY <1>2, ElementOfSeq
    <2>2. n + 1 \in Nat /\ q \o qs[n + 1] \in Seq(S)
      BY <2>1, ConcatProperties
    <2>3. QED
      BY <1>0, <2>2, Zenon
  <1>3. QED
    BY <1>1, <1>2, FlattenInduction
-----------------------------------------------------------------------------
(* What a node asks its router for.                                        *)

\* What the service manager can be asked: it adds elements of the configuration.
Orders == {q \in Requests : q.op = "add" => [name |-> q.name, role |-> q.ros] \in Elements}

\* The requests that register a route, and those that add an element.
For(r)  == {q \in Requests : /\ q.op = "routing" /\ q.name = r.name /\ q.conn = r.conn
                             /\ Direction(q.ros) = r.dir}
Adds(e) == {q \in Requests : q.op = "add" /\ q.name = e.name /\ q.ros = e.role}

Degree(m) == Cardinality(Children(m) \cup Parents(m))

Route(e, conn, dir) == [name |-> e.name, conn |-> conn, dir |-> dir]

LEMMA EdgesFinite ==
  ASSUME NEW m
  PROVE  /\ IsFiniteSet(Children(m)) /\ IsFiniteSet(Parents(m))
         /\ IsFiniteSet(Children(m) \cup Parents(m))
         /\ Degree(m) \in Nat
  <1>1. /\ Children(m) \subseteq Edges /\ Parents(m) \subseteq Edges
        /\ Children(m) \cup Parents(m) \subseteq Edges
    BY DEF Children, Parents
  <1>2. IsFiniteSet(Edges)
    BY SwarmAssumption
  <1>3. QED
    BY <1>1, <1>2, FS_Subset, FS_CardinalityType DEF Degree

\* A sequence made of the same blocks.
LEMMA ForEachEffect ==
  ASSUME NEW S, NEW T, IsFiniteSet(T), NEW q \in Seq(S), NEW P
  PROVE  /\ ForEach(T, q) \in Seq(S)
         /\ Count(q, P) = 1 => Count(ForEach(T, q), P) = Cardinality(T)
         /\ Count(q, P) = 0 => Count(ForEach(T, q), P) = 0
         /\ T # {} => Count(ForEach(T, q), P) >= Count(q, P)
  <1> DEFINE n == Cardinality(T)
             qs == [i \in 1..n |-> q]
  <1>1. n \in Nat
    BY FS_CardinalityType
  <1>2. qs \in Seq(Seq(S)) /\ Len(qs) = n /\ \A i \in 1..n : qs[i] = q
    BY <1>1, IsASeq
  <1>3. ForEach(T, q) = FlattenSeq(qs)
    BY DEF ForEach
  <1> HIDE DEF n, qs
  <1>4. ForEach(T, q) \in Seq(S)
    BY <1>2, <1>3, FlattenType
  <1>5. ASSUME Count(q, P) = 1 PROVE Count(ForEach(T, q), P) = n
    <2> DEFINE t == [i \in Nat |-> i]
    <2>1. t \in [Nat -> Nat] /\ t[0] = 0 /\ t[n] = n
      BY <1>1
    <2>2. \A i \in Nat : i + 1 \in 1..Len(qs) => t[i + 1] = t[i] + Count(qs[i + 1], P)
      BY <1>2, <1>5
    <2> HIDE DEF t
    <2>3. Count(FlattenSeq(qs), P) = t[Len(qs)]
      BY <1>2, <2>1, <2>2, CountFlatten
    <2>4. QED
      BY <1>2, <1>3, <2>1, <2>3
  <1>6. ASSUME Count(q, P) = 0 PROVE Count(ForEach(T, q), P) = 0
    <2> DEFINE t == [i \in Nat |-> 0]
    <2>1. t \in [Nat -> Nat] /\ t[0] = 0 /\ t[n] = 0
      BY <1>1
    <2>2. \A i \in Nat : i + 1 \in 1..Len(qs) => t[i + 1] = t[i] + Count(qs[i + 1], P)
      BY <1>2, <1>6
    <2> HIDE DEF t
    <2>3. Count(FlattenSeq(qs), P) = t[Len(qs)]
      BY <1>2, <2>1, <2>2, CountFlatten
    <2>4. QED
      BY <1>2, <1>3, <2>1, <2>3
  <1>7. ASSUME T # {} PROVE Count(ForEach(T, q), P) >= Count(q, P)
    <2>1. n # 0
      BY <1>7, FS_EmptySet DEF n
    <2>2. 1 \in 1..Len(qs) /\ qs[1] = q
      BY <1>1, <1>2, <2>1
    <2>3. QED
      BY <1>2, <1>3, <2>2, FlattenAtLeast
  <1>8. QED
    BY <1>4, <1>5, <1>6, <1>7 DEF n

LEMMA ListsKnown ==
  ASSUME NEW s \in States
  PROVE  /\ TopicsOf[s] \in Seq(Elements) /\ ServicesOf[s] \in Seq(Elements)
         /\ Len(TopicsOf[s]) \in Nat /\ Len(ServicesOf[s]) \in Nat
         /\ ToSet(TopicsOf[s]) = {TopicsOf[s][i] : i \in 1..Len(TopicsOf[s])}
         /\ ToSet(ServicesOf[s]) = {ServicesOf[s][i] : i \in 1..Len(ServicesOf[s])}
         /\ \A i \in 1..Len(TopicsOf[s]) :
              TopicsOf[s][i] \in Elements /\ TopicsOf[s][i].role \in {"pub", "sub"}
         /\ \A i \in 1..Len(ServicesOf[s]) : ServicesOf[s][i] \in Elements
  <1>1. TopicsOf[s] \in Seq(Elements) /\ ServicesOf[s] \in Seq(Elements)
    BY SwarmAssumption
  <1>2. /\ Len(TopicsOf[s]) \in Nat /\ Len(ServicesOf[s]) \in Nat
        /\ DOMAIN TopicsOf[s] = 1..Len(TopicsOf[s])
        /\ DOMAIN ServicesOf[s] = 1..Len(ServicesOf[s])
    BY <1>1, LenProperties
  <1>3. /\ \A i \in 1..Len(TopicsOf[s]) : TopicsOf[s][i] \in Elements
        /\ \A i \in 1..Len(ServicesOf[s]) : ServicesOf[s][i] \in Elements
    BY <1>1, ElementOfSeq
  <1>4. \A i \in 1..Len(TopicsOf[s]) : TopicsOf[s][i].role \in {"pub", "sub"}
    BY SwarmAssumption
  <1>5. QED
    BY <1>1, <1>2, <1>3, <1>4 DEF ToSet

\* A route asked for is counted for that route only, and nothing else is counted
\* for it.
LEMMA RequestEffect ==
  ASSUME NEW e \in Elements
  PROVE  /\ \A op \in {"add", "del", "resume"} :
              /\ Request(op, e.role, e.name, "none") \in Orders
              /\ \A r : Request(op, e.role, e.name, "none") \notin For(r)
         /\ Request("add", e.role, e.name, "none") \in Adds(e)
         /\ \A ros \in {"pub", "sub", "source", "destination"},
               c \in {"pubsub", "request", "response"} :
              /\ Request("routing", ros, e.name, c) \in Orders
              /\ \A r \in Routes : Request("routing", ros, e.name, c) \in For(r)
                                     <=> r = Route(e, c, Direction(ros))
  <1>1. /\ e.name \in {x.name : x \in Elements} /\ e.role \in {x.role : x \in Elements}
        /\ [name |-> e.name, role |-> e.role] \in Elements
    BY SwarmAssumption
  <1>2. ASSUME NEW op \in {"add", "del", "resume"}
        PROVE  /\ Request(op, e.role, e.name, "none") \in Requests
               /\ Request(op, e.role, e.name, "none").op = op
    BY <1>1 DEF Request, Requests
  <1>3. ASSUME NEW op \in {"add", "del", "resume"}
        PROVE  /\ Request(op, e.role, e.name, "none") \in Orders
               /\ \A r : Request(op, e.role, e.name, "none") \notin For(r)
    BY <1>1, <1>2 DEF Orders, For, Request
  <1>4. Request("add", e.role, e.name, "none") \in Adds(e)
    BY <1>2 DEF Adds, Request
  <1>5. ASSUME NEW ros \in {"pub", "sub", "source", "destination"},
               NEW c \in {"pubsub", "request", "response"}
        PROVE  /\ Request("routing", ros, e.name, c) \in Orders
               /\ \A r \in Routes : Request("routing", ros, e.name, c) \in For(r)
                                      <=> r = Route(e, c, Direction(ros))
    <2>1. Request("routing", ros, e.name, c) \in Requests
      BY <1>1 DEF Request, Requests
    <2>2. Request("routing", ros, e.name, c) \in Orders
      BY <2>1 DEF Orders, Request
    <2>3. ASSUME NEW r \in Routes
          PROVE  Request("routing", ros, e.name, c) \in For(r) <=> r = Route(e, c, Direction(ros))
      <3>1. r = [name |-> r.name, conn |-> r.conn, dir |-> r.dir]
        BY DEF Routes
      <3>2. Request("routing", ros, e.name, c) \in For(r)
              <=> e.name = r.name /\ c = r.conn /\ Direction(ros) = r.dir
        BY <2>1 DEF For, Request
      <3>3. QED
        BY <3>1, <3>2 DEF Route
    <2>4. QED
      BY <2>2, <2>3
  <1>6. QED
    BY <1>3, <1>4, <1>5

\* A topic is asked for once along every edge, in the direction of its role.
LEMMA TopicRoutingEffect ==
  ASSUME NEW m, NEW e \in Elements, e.role \in {"pub", "sub"}
  PROVE  /\ TopicRouting(m, e) \in Seq(Orders)
         /\ \A r \in Routes : Count(TopicRouting(m, e), For(r)) =
              IF r = Direct(m, e) THEN Degree(m) ELSE 0
  <1> DEFINE x == Request("routing", e.role, e.name, "pubsub")
             q == <<x>>
             T == Children(m) \cup Parents(m)
  <1>1. x \in Orders /\ \A r \in Routes : x \in For(r) <=> r = Direct(m, e)
    BY RequestEffect DEF Direct, Route
  <1>2. q \in Seq(Orders) /\ IsFiniteSet(T) /\ TopicRouting(m, e) = ForEach(T, q)
    BY <1>1, EdgesFinite DEF TopicRouting
  <1>3. \A P : Count(q, P) = IF x \in P THEN 1 ELSE 0
    BY CountOne
  <1>4. Cardinality(T) = Degree(m)
    BY DEF Degree
  <1> HIDE DEF x, q, T
  <1>5. TopicRouting(m, e) \in Seq(Orders)
    BY <1>2, ForEachEffect
  <1>6. ASSUME NEW r \in Routes
        PROVE  Count(TopicRouting(m, e), For(r)) = IF r = Direct(m, e) THEN Degree(m) ELSE 0
    <2>1. /\ Count(q, For(r)) = 1 => Count(ForEach(T, q), For(r)) = Cardinality(T)
          /\ Count(q, For(r)) = 0 => Count(ForEach(T, q), For(r)) = 0
      BY <1>2, ForEachEffect
    <2>2. Count(q, For(r)) = IF r = Direct(m, e) THEN 1 ELSE 0
      BY <1>1, <1>3
    <2>3. QED
      BY <1>2, <1>4, <2>1, <2>2
  <1>7. QED
    BY <1>5, <1>6

\* The four routes of a service at the two ends of an edge.
ParentRoutes(e) == {Route(e, "request", "sender"), Route(e, "response", "receiver")}
ChildRoutes(e)  == {Route(e, "request", "receiver"), Route(e, "response", "sender")}

\* Two requests, one after the other.
LEMMA CountTwo ==
  ASSUME NEW S, NEW x \in S, NEW y \in S, NEW P
  PROVE  /\ <<x, y>> \in Seq(S)
         /\ x \in P \/ y \in P => Count(<<x, y>>, P) > 0
         /\ x \notin P /\ y \notin P => Count(<<x, y>>, P) = 0
  <1>1. /\ <<x, y>> \in Seq(S) /\ Len(<<x, y>>) = 2
        /\ <<x, y>>[1] = x /\ <<x, y>>[2] = y
    OBVIOUS
  <1>2. 1 \in 1..2 /\ 2 \in 1..2 /\ \A i \in 1..2 : i = 1 \/ i = 2
    OBVIOUS
  <1>3. Count(<<x, y>>, P) = 0 <=> \A i \in 1..Len(<<x, y>>) : <<x, y>>[i] \notin P
    BY <1>1, CountEmpty
  <1>4. Count(<<x, y>>, P) = 0 <=> x \notin P /\ y \notin P
    BY <1>1, <1>2, <1>3
  <1>5. Count(<<x, y>>, P) \in Nat
    BY <1>1, PlacesFinite
  <1>6. QED
    BY <1>1, <1>4, <1>5

LEMMA ServiceRoutingEffect ==
  ASSUME NEW m, NEW e \in Elements
  PROVE  /\ ServiceRouting(m, e) \in Seq(Orders)
         /\ \A r \in Routes : r.conn = "pubsub" => Count(ServiceRouting(m, e), For(r)) = 0
         /\ Children(m) # {} => \A r \in Routes \cap ParentRoutes(e) :
                                   Count(ServiceRouting(m, e), For(r)) > 0
         /\ Parents(m) # {} => \A r \in Routes \cap ChildRoutes(e) :
                                  Count(ServiceRouting(m, e), For(r)) > 0
  <1> DEFINE a == Request("routing", "source", e.name, "request")
             b == Request("routing", "destination", e.name, "response")
             c == Request("routing", "destination", e.name, "request")
             d == Request("routing", "source", e.name, "response")
             A == ForEach(Children(m), <<a, b>>)
             B == ForEach(Parents(m), <<c, d>>)
  <1>1. /\ {a, b, c, d} \subseteq Orders
        /\ \A r \in Routes :
             /\ a \in For(r) <=> r = Route(e, "request", "sender")
             /\ b \in For(r) <=> r = Route(e, "response", "receiver")
             /\ c \in For(r) <=> r = Route(e, "request", "receiver")
             /\ d \in For(r) <=> r = Route(e, "response", "sender")
    BY RequestEffect DEF Direction
  <1>2. ServiceRouting(m, e) = A \o B
    BY DEF ServiceRouting, AsParent, AsChild
  <1>3. IsFiniteSet(Children(m)) /\ IsFiniteSet(Parents(m))
    BY EdgesFinite
  <1>4. Route(e, "request", "sender").conn = "request" /\ Route(e, "response", "receiver").conn = "response"
        /\ Route(e, "request", "receiver").conn = "request" /\ Route(e, "response", "sender").conn = "response"
    BY DEF Route
  <1> HIDE DEF a, b, c, d
  <1>5. <<a, b>> \in Seq(Orders) /\ <<c, d>> \in Seq(Orders)
    BY <1>1, CountTwo
  <1>6. A \in Seq(Orders) /\ B \in Seq(Orders)
    BY <1>3, <1>5, ForEachEffect
  <1>7. ServiceRouting(m, e) \in Seq(Orders)
    BY <1>2, <1>6, ConcatProperties
  <1>8. ASSUME NEW P
        PROVE  /\ Count(ServiceRouting(m, e), P) = Count(A, P) + Count(B, P)
               /\ Count(A, P) \in Nat /\ Count(B, P) \in Nat
    <2> HIDE DEF A, B
    <2>1. Count(A \o B, P) = Count(A, P) + Count(B, P)
      BY <1>6, CountConcat
    <2>2. Count(A, P) \in Nat /\ Count(B, P) \in Nat
      BY <1>6, PlacesFinite
    <2>3. QED
      BY <1>2, <2>1, <2>2
  <1>9. ASSUME NEW r \in Routes, r.conn = "pubsub"
        PROVE  Count(ServiceRouting(m, e), For(r)) = 0
    <2>1. Count(<<a, b>>, For(r)) = 0 /\ Count(<<c, d>>, For(r)) = 0
      BY <1>1, <1>4, <1>9, CountTwo
    <2>2. Count(A, For(r)) = 0 /\ Count(B, For(r)) = 0
      BY <1>3, <1>5, <2>1, ForEachEffect
    <2>3. QED
      BY <1>8, <2>2
  <1>10. ASSUME Children(m) # {}, NEW r \in Routes \cap ParentRoutes(e)
         PROVE  Count(ServiceRouting(m, e), For(r)) > 0
    <2>1. Count(<<a, b>>, For(r)) > 0
      BY <1>1, CountTwo DEF ParentRoutes
    <2>2. Count(A, For(r)) >= Count(<<a, b>>, For(r)) /\ Count(<<a, b>>, For(r)) \in Nat
      BY <1>3, <1>5, <1>10, ForEachEffect, PlacesFinite
    <2> HIDE DEF A, B
    <2>3. QED
      BY <1>8, <2>1, <2>2
  <1>11. ASSUME Parents(m) # {}, NEW r \in Routes \cap ChildRoutes(e)
         PROVE  Count(ServiceRouting(m, e), For(r)) > 0
    <2>1. Count(<<c, d>>, For(r)) > 0
      BY <1>1, CountTwo DEF ChildRoutes
    <2>2. Count(B, For(r)) >= Count(<<c, d>>, For(r)) /\ Count(<<c, d>>, For(r)) \in Nat
      BY <1>3, <1>5, <1>11, ForEachEffect, PlacesFinite
    <2> HIDE DEF A, B
    <2>3. QED
      BY <1>8, <2>1, <2>2
  <1>12. QED
    BY <1>7, <1>9, <1>10, <1>11

\* The requests for one topic and for one service of a state.
TopicBlock(m, e, held) ==
  IF e.name \in held THEN <<Request("resume", e.role, e.name, "none")>>
  ELSE <<Request("add", e.role, e.name, "none")>> \o TopicRouting(m, e)

ServiceBlock(m, e) == <<Request("add", e.role, e.name, "none")>> \o ServiceRouting(m, e)

LEMMA CountCons ==
  ASSUME NEW S, NEW x \in S, NEW q \in Seq(S)
  PROVE  /\ <<x>> \o q \in Seq(S)
         /\ \A P : /\ Count(<<x>> \o q, P) = Count(q, P) + IF x \in P THEN 1 ELSE 0
                   /\ Count(q, P) \in Nat
  <1> DEFINE a == <<x>>
  <1>1. a \in Seq(S)
    OBVIOUS
  <1>2. \A P : Count(a, P) = IF x \in P THEN 1 ELSE 0
    BY CountOne
  <1> HIDE DEF a
  <1>3. a \o q \in Seq(S)
    BY <1>1, ConcatProperties
  <1>4. ASSUME NEW P
        PROVE  /\ Count(a \o q, P) = Count(q, P) + IF x \in P THEN 1 ELSE 0
               /\ Count(q, P) \in Nat
    <2>1. Count(a \o q, P) = Count(a, P) + Count(q, P)
      BY <1>1, CountConcat
    <2>2. Count(q, P) \in Nat
      BY PlacesFinite
    <2>3. QED
      BY <1>2, <2>1, <2>2
  <1>5. QED
    BY <1>3, <1>4 DEF a

LEMMA TopicBlockEffect ==
  ASSUME NEW m, NEW held, NEW e \in Elements, e.role \in {"pub", "sub"}
  PROVE  /\ TopicBlock(m, e, held) \in Seq(Orders)
         /\ \A r \in Routes : Count(TopicBlock(m, e, held), For(r)) =
              IF e.name \notin held /\ r = Direct(m, e) THEN Degree(m) ELSE 0
         /\ e.name \notin held => Count(TopicBlock(m, e, held), Adds(e)) > 0
  <1> DEFINE x == Request("add", e.role, e.name, "none")
             y == Request("resume", e.role, e.name, "none")
             q == TopicRouting(m, e)
  <1>1. /\ {x, y} \subseteq Orders /\ x \in Adds(e)
        /\ \A r : x \notin For(r) /\ y \notin For(r)
    BY RequestEffect
  <1>2. /\ q \in Seq(Orders)
        /\ \A r \in Routes : Count(q, For(r)) = IF r = Direct(m, e) THEN Degree(m) ELSE 0
    BY TopicRoutingEffect
  <1>3. Degree(m) \in Nat
    BY EdgesFinite
  <1>4. TopicBlock(m, e, held) = IF e.name \in held THEN <<y>> ELSE <<x>> \o q
    BY DEF TopicBlock
  <1> HIDE DEF x, y, q
  <1>5. CASE e.name \in held
    <2>1. <<y>> \in Seq(Orders)
      BY <1>1
    <2>2. \A r : Count(<<y>>, For(r)) = 0
      BY <1>1, CountOne
    <2>3. QED
      BY <1>4, <1>5, <2>1, <2>2
  <1>6. CASE e.name \notin held
    <2>1. /\ <<x>> \o q \in Seq(Orders)
          /\ \A P : /\ Count(<<x>> \o q, P) = Count(q, P) + IF x \in P THEN 1 ELSE 0
                    /\ Count(q, P) \in Nat
      BY <1>1, <1>2, CountCons
    <2>2. \A r : Count(<<x>> \o q, For(r)) = Count(q, For(r))
      BY <1>1, <2>1
    <2>3. Count(<<x>> \o q, Adds(e)) > 0
      BY <1>1, <2>1
    <2>4. QED
      BY <1>2, <1>4, <1>6, <2>1, <2>2, <2>3
  <1>7. QED
    BY <1>5, <1>6

LEMMA ServiceBlockEffect ==
  ASSUME NEW m, NEW e \in Elements
  PROVE  /\ ServiceBlock(m, e) \in Seq(Orders)
         /\ \A r \in Routes : r.conn = "pubsub" => Count(ServiceBlock(m, e), For(r)) = 0
         /\ Count(ServiceBlock(m, e), Adds(e)) > 0
         /\ Children(m) # {} => \A r \in Routes \cap ParentRoutes(e) :
                                   Count(ServiceBlock(m, e), For(r)) > 0
         /\ Parents(m) # {} => \A r \in Routes \cap ChildRoutes(e) :
                                  Count(ServiceBlock(m, e), For(r)) > 0
  <1> DEFINE x == Request("add", e.role, e.name, "none")
             q == ServiceRouting(m, e)
  <1>1. x \in Orders /\ x \in Adds(e) /\ \A r : x \notin For(r)
    BY RequestEffect
  <1>2. /\ q \in Seq(Orders)
        /\ \A r \in Routes : r.conn = "pubsub" => Count(q, For(r)) = 0
        /\ Children(m) # {} => \A r \in Routes \cap ParentRoutes(e) : Count(q, For(r)) > 0
        /\ Parents(m) # {} => \A r \in Routes \cap ChildRoutes(e) : Count(q, For(r)) > 0
    BY ServiceRoutingEffect
  <1>3. ServiceBlock(m, e) = <<x>> \o q
    BY DEF ServiceBlock
  <1> HIDE DEF x, q
  <1>4. /\ <<x>> \o q \in Seq(Orders)
        /\ \A P : /\ Count(<<x>> \o q, P) = Count(q, P) + IF x \in P THEN 1 ELSE 0
                  /\ Count(q, P) \in Nat
    BY <1>1, <1>2, CountCons
  <1>5. \A r : Count(<<x>> \o q, For(r)) = Count(q, For(r))
    BY <1>1, <1>4
  <1>6. Count(<<x>> \o q, Adds(e)) > 0
    BY <1>1, <1>4
  <1>7. QED
    BY <1>2, <1>3, <1>4, <1>5, <1>6

LEMMA RevokedEffect ==
  ASSUME NEW s \in States
  PROVE  Revoked(s) \in Seq(Orders) /\ \A r : Count(Revoked(s), For(r)) = 0
  <1> DEFINE D(i) == Request("del", TopicsOf[s][i].role, TopicsOf[s][i].name, "none")
  <1>1. Len(TopicsOf[s]) \in Nat /\ \A i \in 1..Len(TopicsOf[s]) : TopicsOf[s][i] \in Elements
    BY ListsKnown
  <1>2. \A i \in 1..Len(TopicsOf[s]) : D(i) \in Orders /\ \A r : D(i) \notin For(r)
    BY <1>1, RequestEffect
  <1>3. Revoked(s) = [i \in 1..Len(TopicsOf[s]) |-> D(i)]
    BY DEF Revoked
  <1> HIDE DEF D
  <1>4. /\ Revoked(s) \in Seq(Orders) /\ Len(Revoked(s)) = Len(TopicsOf[s])
        /\ \A i \in 1..Len(TopicsOf[s]) : Revoked(s)[i] = D(i)
    BY <1>1, <1>2, <1>3, IsASeq
  <1>5. \A r : Count(Revoked(s), For(r)) = 0
    BY <1>2, <1>4, CountEmpty
  <1>6. QED
    BY <1>4, <1>5

\* The topics of a state that are not held.
LEMMA TopicsWanted ==
  ASSUME NEW m, NEW s \in States, NEW held
  PROVE  LET q == FlattenSeq([i \in 1..Len(TopicsOf[s]) |-> TopicBlock(m, TopicsOf[s][i], held)]) IN
         /\ q \in Seq(Orders)
         /\ \A r \in Routes : Count(q, For(r)) \in {0, Degree(m)}
         /\ \A r \in Routes : r.name \in held \/ r.name \notin TopicNames(s)
                                => Count(q, For(r)) = 0
         /\ \A e \in ToSet(TopicsOf[s]) : e.name \notin held =>
              /\ Count(q, Adds(e)) > 0
              /\ Count(q, For(Direct(m, e))) >= Degree(m)
  <1> DEFINE n == Len(TopicsOf[s])
             el(i) == TopicsOf[s][i]
             b(i) == TopicBlock(m, el(i), held)
             qs == [i \in 1..n |-> b(i)]
             q == FlattenSeq(qs)
  <1>1. /\ n \in Nat /\ \A i \in 1..n : el(i) \in Elements /\ el(i).role \in {"pub", "sub"}
        /\ ToSet(TopicsOf[s]) = {el(i) : i \in 1..n}
    BY ListsKnown
  <1>2. \A i, j \in 1..n : el(i).name = el(j).name => i = j
    BY SwarmAssumption
  <1>3. TopicNames(s) = {el(i).name : i \in 1..n}
    BY <1>1 DEF TopicNames
  <1> HIDE DEF n, el
  <1>4. \A i \in 1..n : /\ b(i) \in Seq(Orders)
                        /\ \A r \in Routes : Count(b(i), For(r)) =
                             IF el(i).name \notin held /\ r = Direct(m, el(i)) THEN Degree(m) ELSE 0
                        /\ el(i).name \notin held => Count(b(i), Adds(el(i))) > 0
    BY <1>1, TopicBlockEffect
  <1>5. \A i : Direct(m, el(i)).name = el(i).name
    BY DEF Direct
  <1>6. \A i \in 1..n : Direct(m, el(i)) \in Routes
    BY <1>1 DEF Direct, Routes, Direction
  <1>7. Degree(m) \in Nat
    BY EdgesFinite
  <1> HIDE DEF b
  <1>8. qs \in Seq(Seq(Orders)) /\ Len(qs) = n /\ \A i \in 1..n : qs[i] = b(i)
    BY <1>1, <1>4, IsASeq
  <1> HIDE DEF qs
  <1>9. q \in Seq(Orders)
    BY <1>8, FlattenType
  <1>10. ASSUME NEW r \in Routes, \A i \in 1..n : ~(el(i).name \notin held /\ r = Direct(m, el(i)))
         PROVE  Count(q, For(r)) = 0
    <2> DEFINE t == [i \in Nat |-> 0]
    <2>1. t \in [Nat -> Nat] /\ t[0] = 0 /\ t[n] = 0
      BY <1>1
    <2>2. \A i \in Nat : i + 1 \in 1..n => t[i + 1] = t[i] + Count(qs[i + 1], For(r))
      BY <1>4, <1>8, <1>10
    <2> HIDE DEF t
    <2>3. QED
      BY <1>8, <2>1, <2>2, CountFlatten
  <1>11. ASSUME NEW r \in Routes, NEW k \in 1..n, el(k).name \notin held, r = Direct(m, el(k))
         PROVE  Count(q, For(r)) = Degree(m)
    <2> DEFINE t == [i \in Nat |-> IF i < k THEN 0 ELSE Degree(m)]
    <2>1. t \in [Nat -> Nat] /\ t[0] = 0 /\ t[n] = Degree(m)
      BY <1>1, <1>7
    <2>2. ASSUME NEW i \in Nat, i + 1 \in 1..n PROVE t[i + 1] = t[i] + Count(qs[i + 1], For(r))
      <3>1. CASE i + 1 = k
        <4>1. Count(qs[i + 1], For(r)) = Degree(m)
          BY <1>4, <1>8, <1>11, <3>1
        <4>2. t[i] = 0 /\ t[i + 1] = Degree(m)
          BY <3>1
        <4>3. QED
          BY <1>7, <4>1, <4>2
      <3>2. CASE i + 1 # k
        <4>1. r # Direct(m, el(i + 1))
          BY <1>2, <1>5, <1>11, <2>2, <3>2
        <4>2. Count(qs[i + 1], For(r)) = 0
          BY <1>4, <1>8, <2>2, <4>1
        <4>3. t[i + 1] = t[i] /\ t[i] \in Nat
          BY <1>7, <3>2
        <4> HIDE DEF t
        <4>4. QED
          BY <4>2, <4>3
      <3>3. QED
        BY <3>1, <3>2
    <2> HIDE DEF t
    <2>3. QED
      BY <1>8, <2>1, <2>2, CountFlatten
  <1>12. \A r \in Routes : Count(q, For(r)) \in {0, Degree(m)}
    BY <1>10, <1>11
  <1>13. ASSUME NEW r \in Routes, r.name \in held \/ r.name \notin TopicNames(s)
         PROVE  Count(q, For(r)) = 0
    BY <1>3, <1>5, <1>10, <1>13
  <1>14. ASSUME NEW e \in ToSet(TopicsOf[s]), e.name \notin held
         PROVE  /\ Count(q, Adds(e)) > 0
                /\ Count(q, For(Direct(m, e))) >= Degree(m)
    <2>1. PICK k \in 1..n : e = el(k)
      BY <1>1
    <2>2. Count(q, For(Direct(m, e))) = Degree(m)
      BY <1>6, <1>11, <1>14, <2>1
    <2>3. /\ Count(q, Adds(e)) >= Count(b(k), Adds(e)) /\ Count(b(k), Adds(e)) > 0
          /\ Count(q, Adds(e)) \in Nat /\ Count(b(k), Adds(e)) \in Nat
      BY <1>4, <1>8, <1>9, <1>14, <2>1, FlattenAtLeast, PlacesFinite
    <2> HIDE DEF q
    <2>4. QED
      BY <1>7, <2>2, <2>3
  <1>15. QED
    BY <1>9, <1>12, <1>13, <1>14 DEF qs, b, el, n

\* The services of a state.
LEMMA ServicesWanted ==
  ASSUME NEW m, NEW s \in States
  PROVE  LET q == FlattenSeq([i \in 1..Len(ServicesOf[s]) |-> ServiceBlock(m, ServicesOf[s][i])]) IN
         /\ q \in Seq(Orders)
         /\ \A r \in Routes : r.conn = "pubsub" => Count(q, For(r)) = 0
         /\ \A e \in ToSet(ServicesOf[s]) :
              /\ Count(q, Adds(e)) > 0
              /\ Children(m) # {} => \A r \in Routes \cap ParentRoutes(e) : Count(q, For(r)) > 0
              /\ Parents(m) # {} => \A r \in Routes \cap ChildRoutes(e) : Count(q, For(r)) > 0
  <1> DEFINE n == Len(ServicesOf[s])
             el(i) == ServicesOf[s][i]
             b(i) == ServiceBlock(m, el(i))
             qs == [i \in 1..n |-> b(i)]
             q == FlattenSeq(qs)
  <1>1. /\ n \in Nat /\ \A i \in 1..n : el(i) \in Elements
        /\ ToSet(ServicesOf[s]) = {el(i) : i \in 1..n}
    BY ListsKnown
  <1> HIDE DEF n, el
  <1>2. \A i \in 1..n :
          /\ b(i) \in Seq(Orders)
          /\ \A r \in Routes : r.conn = "pubsub" => Count(b(i), For(r)) = 0
          /\ Count(b(i), Adds(el(i))) > 0
          /\ Children(m) # {} => \A r \in Routes \cap ParentRoutes(el(i)) : Count(b(i), For(r)) > 0
          /\ Parents(m) # {} => \A r \in Routes \cap ChildRoutes(el(i)) : Count(b(i), For(r)) > 0
    BY <1>1, ServiceBlockEffect
  <1> HIDE DEF b
  <1>3. qs \in Seq(Seq(Orders)) /\ Len(qs) = n /\ \A i \in 1..n : qs[i] = b(i)
    BY <1>1, <1>2, IsASeq
  <1> HIDE DEF qs
  <1>4. q \in Seq(Orders)
    BY <1>3, FlattenType
  <1>5. ASSUME NEW r \in Routes, r.conn = "pubsub" PROVE Count(q, For(r)) = 0
    <2> DEFINE t == [i \in Nat |-> 0]
    <2>1. t \in [Nat -> Nat] /\ t[0] = 0 /\ t[n] = 0
      BY <1>1
    <2>2. \A i \in Nat : i + 1 \in 1..n => t[i + 1] = t[i] + Count(qs[i + 1], For(r))
      BY <1>2, <1>3, <1>5
    <2> HIDE DEF t
    <2>3. QED
      BY <1>3, <2>1, <2>2, CountFlatten
  <1>6. ASSUME NEW k \in 1..n, NEW P, Count(b(k), P) > 0 PROVE Count(q, P) > 0
    <2>1. /\ Count(q, P) >= Count(b(k), P) /\ Count(b(k), P) \in Nat /\ Count(q, P) \in Nat
      BY <1>2, <1>3, <1>4, FlattenAtLeast, PlacesFinite
    <2> HIDE DEF q
    <2>2. QED
      BY <1>6, <2>1
  <1> HIDE DEF q
  <1>7. ASSUME NEW e \in ToSet(ServicesOf[s])
        PROVE  /\ Count(q, Adds(e)) > 0
               /\ Children(m) # {} => \A r \in Routes \cap ParentRoutes(e) : Count(q, For(r)) > 0
               /\ Parents(m) # {} => \A r \in Routes \cap ChildRoutes(e) : Count(q, For(r)) > 0
    <2>1. PICK k \in 1..n : e = el(k)
      BY <1>1
    <2>2. QED
      BY <1>2, <1>6, <2>1
  <1>8. QED
    BY <1>4, <1>5, <1>7 DEF q, qs, b, el, n

\* What a node asks for when it goes to state s and holds some topics already.
LEMMA WantedEffect ==
  ASSUME NEW m, NEW s \in States, NEW held
  PROVE  /\ Wanted(m, s, held) \in Seq(Orders)
         /\ \A r \in Routes : r.conn = "pubsub" =>
              /\ Count(Wanted(m, s, held), For(r)) \in {0, Degree(m)}
              /\ r.name \in held \/ r.name \notin TopicNames(s)
                   => Count(Wanted(m, s, held), For(r)) = 0
         /\ \A e \in ToSet(TopicsOf[s]) : e.name \notin held =>
              /\ Count(Wanted(m, s, held), Adds(e)) > 0
              /\ Count(Wanted(m, s, held), For(Direct(m, e))) >= Degree(m)
         /\ \A e \in ToSet(ServicesOf[s]) :
              /\ Count(Wanted(m, s, held), Adds(e)) > 0
              /\ Children(m) # {} => \A r \in Routes \cap ParentRoutes(e) :
                                        Count(Wanted(m, s, held), For(r)) > 0
              /\ Parents(m) # {} => \A r \in Routes \cap ChildRoutes(e) :
                                       Count(Wanted(m, s, held), For(r)) > 0
  <1> DEFINE a == FlattenSeq([i \in 1..Len(TopicsOf[s]) |-> TopicBlock(m, TopicsOf[s][i], held)])
             b == FlattenSeq([i \in 1..Len(ServicesOf[s]) |-> ServiceBlock(m, ServicesOf[s][i])])
  <1>1. Wanted(m, s, held) = a \o b
    BY DEF Wanted, TopicBlock, ServiceBlock
  <1>2. /\ a \in Seq(Orders)
        /\ \A r \in Routes : Count(a, For(r)) \in {0, Degree(m)}
        /\ \A r \in Routes : r.name \in held \/ r.name \notin TopicNames(s) => Count(a, For(r)) = 0
        /\ \A e \in ToSet(TopicsOf[s]) : e.name \notin held =>
             Count(a, Adds(e)) > 0 /\ Count(a, For(Direct(m, e))) >= Degree(m)
    BY ZenonT(30), TopicsWanted
  <1>3. /\ b \in Seq(Orders)
        /\ \A r \in Routes : r.conn = "pubsub" => Count(b, For(r)) = 0
        /\ \A e \in ToSet(ServicesOf[s]) :
             /\ Count(b, Adds(e)) > 0
             /\ Children(m) # {} => \A r \in Routes \cap ParentRoutes(e) : Count(b, For(r)) > 0
             /\ Parents(m) # {} => \A r \in Routes \cap ChildRoutes(e) : Count(b, For(r)) > 0
    BY ZenonT(30), ServicesWanted
  <1>4. Degree(m) \in Nat
    BY EdgesFinite
  <1> HIDE DEF a, b
  <1>5. a \o b \in Seq(Orders)
    BY <1>2, <1>3, ConcatProperties
  <1>6. \A P : /\ Count(a \o b, P) = Count(a, P) + Count(b, P)
               /\ Count(a, P) \in Nat /\ Count(b, P) \in Nat
    BY <1>2, <1>3, CountConcat, PlacesFinite
  <1>7. \A P : /\ Count(a, P) > 0 \/ Count(b, P) > 0 => Count(a \o b, P) > 0
               /\ Count(a \o b, P) >= Count(a, P)
    BY <1>6
  <1>8. \A r \in Routes : r.conn = "pubsub" => Count(a \o b, For(r)) = Count(a, For(r))
    BY <1>3, <1>6
  <1>9. ASSUME NEW e \in ToSet(TopicsOf[s]), e.name \notin held
        PROVE  Count(a \o b, Adds(e)) > 0 /\ Count(a \o b, For(Direct(m, e))) >= Degree(m)
    <2>1. /\ Count(a, Adds(e)) > 0 /\ Count(a, For(Direct(m, e))) >= Degree(m)
          /\ Count(a \o b, For(Direct(m, e))) = Count(a, For(Direct(m, e))) + Count(b, For(Direct(m, e)))
          /\ Count(a, For(Direct(m, e))) \in Nat /\ Count(b, For(Direct(m, e))) \in Nat
      BY <1>2, <1>6, <1>9
    <2>2. QED
      BY <1>4, <1>7, <2>1
  <1>10. ASSUME NEW e \in ToSet(ServicesOf[s])
         PROVE  /\ Count(a \o b, Adds(e)) > 0
                /\ Children(m) # {} => \A r \in Routes \cap ParentRoutes(e) : Count(a \o b, For(r)) > 0
                /\ Parents(m) # {} => \A r \in Routes \cap ChildRoutes(e) : Count(a \o b, For(r)) > 0
    BY <1>3, <1>7
  <1>11. QED
    BY <1>1, <1>2, <1>5, <1>8, <1>9, <1>10

-----------------------------------------------------------------------------
(* What a router has been asked for, whether it was handled yet or not.    *)

\* Registrations for route r, and whether element e was added.
Total(m, r) == routes[m][r] + Count(api[m], For(r))
Given(m, e) == e \in bridged[m] \/ Count(api[m], Adds(e)) > 0

\* Topics that the node counts as asked for: those it has and those it paused.
Kept(m) == paused[m] \cup TopicNames(asg[m][m])

\* The states that machine m may be in.
StatesOf(m) == {Assigned[m]} \cup {s \in States : <<m, s>> \in Commands}

Proper ==
  /\ api \in [Machines -> Seq(Orders)]
  /\ \A m \in Machines :
       /\ asg[m][m] \in StatesOf(m)
       /\ \A i \in 1..Len(inbox[m]) : <<inbox[m][i].machine, inbox[m][i].state>> \in Commands
       /\ node[m] = "launching" => paused[m] = {} /\ api[m] = <<>> /\ routes[m] = NoRoutes

Typed == TypeOK /\ Proper

LEMMA StatesKnown ==
  ASSUME NEW m \in Machines
  PROVE  /\ m \in Names /\ StatesOf(m) \subseteq States /\ None \notin States
         /\ \A s \in States : TopicNames(s) \subseteq {e.name : e \in Elements}
  <1>1. m \in Names /\ StatesOf(m) \subseteq States /\ None \notin States
    BY SwarmAssumption DEF Names, StatesOf
  <1>2. \A s \in States : TopicNames(s) \subseteq {e.name : e \in Elements}
    BY DEF TopicNames, Elements
  <1>3. QED
    BY <1>1, <1>2

LEMMA TotalType ==
  ASSUME Typed, NEW m \in Machines, NEW r \in Routes
  PROVE  /\ Total(m, r) \in Nat
         /\ node[m] = "launching" => Total(m, r) = 0
  <1>1. routes[m][r] \in Nat /\ api[m] \in Seq(Orders)
    BY DEF Typed, TypeOK, Proper
  <1>2. Count(api[m], For(r)) \in Nat
    BY <1>1, PlacesFinite
  <1>3. ASSUME node[m] = "launching" PROVE Total(m, r) = 0
    <2>1. Len(api[m]) = 0 /\ routes[m][r] = 0
      BY <1>3 DEF Typed, Proper, NoRoutes
    <2>2. Count(api[m], For(r)) = 0
      BY <1>1, <2>1, CountEmpty
    <2>3. QED
      BY <2>1, <2>2 DEF Total
  <1>4. QED
    BY <1>1, <1>2, <1>3 DEF Total

\* The same in the next state.
LEMMA TotalTypeNext ==
  ASSUME Typed', NEW m \in Machines, NEW r \in Routes
  PROVE  (Total(m, r) \in Nat /\ (node[m] = "launching" => Total(m, r) = 0))'
  <1>1. (routes[m][r] \in Nat /\ api[m] \in Seq(Orders))'
    BY DEF Typed, TypeOK, Proper
  <1>2. Count(api'[m], For(r)) \in Nat
    BY <1>1, PlacesFinite
  <1>3. ASSUME node'[m] = "launching" PROVE Total(m, r)' = 0
    <2>1. Len(api'[m]) = 0 /\ routes'[m][r] = 0
      BY <1>3 DEF Typed, Proper, NoRoutes
    <2>2. Count(api'[m], For(r)) = 0
      BY <1>1, <2>1, CountEmpty
    <2>3. QED
      BY <2>1, <2>2 DEF Total
  <1>4. QED
    BY <1>1, <1>2, <1>3 DEF Total

\* Requests that a node makes are on their way at once.
LEMMA PostEffect ==
  ASSUME Typed, NEW m \in Machines, NEW qs \in Seq(Orders), Post(m, qs), UNCHANGED routerVars
  PROVE  /\ api' \in [Machines -> Seq(Orders)]
         /\ \A x \in Machines : x # m => api'[x] = api[x]
         /\ \A r \in Routes : Total(m, r)' = Total(m, r) + Count(qs, For(r))
         /\ \A e : Given(m, e)' <=> Given(m, e) \/ Count(qs, Adds(e)) > 0
  <1>1. /\ api \in [Machines -> Seq(Orders)] /\ api[m] \in Seq(Orders)
        /\ \A r \in Routes : routes[m][r] \in Nat
    BY DEF Typed, TypeOK, Proper
  <1>2. api'[m] = api[m] \o qs /\ \A x \in Machines : x # m => api'[x] = api[x]
    BY <1>1 DEF Post
  <1>3. api[m] \o qs \in Seq(Orders)
    BY <1>1, ConcatProperties
  <1>4. api' \in [Machines -> Seq(Orders)]
    BY <1>1, <1>3 DEF Post
  <1>5. \A P : /\ Count(api[m] \o qs, P) = Count(api[m], P) + Count(qs, P)
               /\ Count(api[m], P) \in Nat /\ Count(qs, P) \in Nat
    BY <1>1, CountConcat, PlacesFinite
  <1>6. routes' = routes /\ bridged' = bridged
    BY DEF routerVars
  <1>7. ASSUME NEW r \in Routes PROVE Total(m, r)' = Total(m, r) + Count(qs, For(r))
    BY <1>1, <1>2, <1>5, <1>6 DEF Total
  <1>8. ASSUME NEW e PROVE Given(m, e)' <=> Given(m, e) \/ Count(qs, Adds(e)) > 0
    <2>1. Count(api'[m], Adds(e)) > 0 <=> Count(api[m], Adds(e)) > 0 \/ Count(qs, Adds(e)) > 0
      BY <1>2, <1>5
    <2>2. QED
      BY <1>6, <2>1 DEF Given
  <1>9. QED
    BY <1>2, <1>4, <1>7, <1>8

\* The service manager puts what it was asked for where it belongs.
LEMMA HandleEffect ==
  ASSUME Typed, NEW m \in Machines, HandleAdd(m) \/ HandleRouting(m) \/ HandleOther(m)
  PROVE  /\ api' \in [Machines -> Seq(Orders)] /\ api[m] # <<>>
         /\ bridged' \in [Machines -> SUBSET Elements]
         /\ routes' \in [Machines -> [Routes -> Nat]]
         /\ \A x \in Machines : x # m =>
              api'[x] = api[x] /\ bridged'[x] = bridged[x] /\ routes'[x] = routes[x]
         /\ \A r \in Routes : Total(m, r)' = Total(m, r)
         /\ \A e \in Elements : Given(m, e) => Given(m, e)'
  <1> DEFINE q == Head(api[m])
  <1>1. /\ api \in [Machines -> Seq(Orders)] /\ api[m] \in Seq(Orders)
        /\ routes \in [Machines -> [Routes -> Nat]]
        /\ bridged \in [Machines -> SUBSET Elements]
    BY DEF Typed, TypeOK, Proper
  <1>2. api[m] # <<>> /\ api' = [api EXCEPT ![m] = Tail(@)]
    BY DEF HandleAdd, HandleRouting, HandleOther, Handles
  <1>3. /\ Tail(api[m]) \in Seq(Orders) /\ q \in Orders
        /\ \A P : Count(api[m], P) = Count(Tail(api[m]), P) + IF q \in P THEN 1 ELSE 0
    BY <1>1, <1>2, CountTail
  <1>4. \A P : Count(Tail(api[m]), P) \in Nat
    BY <1>3, PlacesFinite
  <1>5. /\ api'[m] = Tail(api[m]) /\ \A x \in Machines : x # m => api'[x] = api[x]
        /\ api' \in [Machines -> Seq(Orders)]
    BY <1>1, <1>2, <1>3
  <1>6. q \in Requests /\ (q.op = "add" => [name |-> q.name, role |-> q.ros] \in Elements)
    BY <1>3 DEF Orders
  <1> HIDE DEF q
  <1>7. CASE HandleAdd(m)
    <2>1. /\ q.op = "add" /\ routes' = routes
          /\ bridged' = [bridged EXCEPT ![m] = @ \cup {[name |-> q.name, role |-> q.ros]}]
      BY <1>7 DEF HandleAdd, Handles, q
    <2>2. /\ bridged' \in [Machines -> SUBSET Elements]
          /\ bridged'[m] = bridged[m] \cup {[name |-> q.name, role |-> q.ros]}
          /\ \A x \in Machines : x # m => bridged'[x] = bridged[x]
      BY <1>1, <1>6, <2>1
    <2>3. \A r : q \notin For(r)
      BY <2>1 DEF For
    <2>4. \A r \in Routes : Total(m, r)' = Total(m, r)
      BY <1>3, <1>4, <1>5, <2>1, <2>3 DEF Total
    <2>5. ASSUME NEW e \in Elements, Given(m, e) PROVE Given(m, e)'
      <3>1. CASE q \in Adds(e)
        <4>1. e = [name |-> q.name, role |-> q.ros]
          BY <3>1, SwarmAssumption DEF Adds
        <4>2. QED
          BY <2>2, <4>1 DEF Given
      <3>2. CASE q \notin Adds(e)
        <4>1. Count(Tail(api[m]), Adds(e)) = Count(api[m], Adds(e))
          BY <1>3, <1>4, <3>2
        <4>2. QED
          BY <1>5, <2>2, <2>5, <4>1 DEF Given
      <3>3. QED
        BY <3>1, <3>2
    <2>6. QED
      BY <1>1, <1>2, <1>5, <2>1, <2>2, <2>4, <2>5
  <1>8. CASE HandleRouting(m)
    <2> DEFINE s == [name |-> q.name, conn |-> q.conn, dir |-> Direction(q.ros)]
    <2>1. /\ q.op = "routing" /\ bridged' = bridged
          /\ routes' = [routes EXCEPT ![m][s] = @ + 1]
      BY <1>8 DEF HandleRouting, Handles, q
    <2>2. ASSUME NEW r \in Routes PROVE q \in For(r) <=> r = s
      <3>1. r = [name |-> r.name, conn |-> r.conn, dir |-> r.dir]
        BY DEF Routes
      <3>2. q \in For(r) <=> q.name = r.name /\ q.conn = r.conn /\ Direction(q.ros) = r.dir
        BY <1>6, <2>1 DEF For
      <3>3. QED
        BY <3>1, <3>2
    <2> HIDE DEF s
    <2>3. routes[m] \in [Routes -> Nat]
      BY <1>1
    <2>4. [routes[m] EXCEPT ![s] = @ + 1] \in [Routes -> Nat]
      <3> SUFFICES ASSUME NEW f \in [Routes -> Nat] PROVE [f EXCEPT ![s] = @ + 1] \in [Routes -> Nat]
        BY <2>3
      <3>1. CASE s \in Routes
        <4>1. f[s] + 1 \in Nat
          BY <3>1
        <4>2. QED
          BY <4>1
      <3>2. CASE s \notin Routes
        <4>1. [f EXCEPT ![s] = @ + 1] = f
          BY <3>2
        <4>2. QED
          BY <4>1
      <3>3. QED
        BY <3>1, <3>2
    <2>5. /\ routes' \in [Machines -> [Routes -> Nat]]
          /\ routes'[m] = [routes[m] EXCEPT ![s] = @ + 1]
          /\ \A x \in Machines : x # m => routes'[x] = routes[x]
      BY <1>1, <2>1, <2>4
    <2>6. ASSUME NEW r \in Routes PROVE Total(m, r)' = Total(m, r)
      <3>1. routes[m][r] \in Nat /\ routes'[m][r] = routes[m][r] + IF q \in For(r) THEN 1 ELSE 0
        BY <2>2, <2>3, <2>5
      <3>2. QED
        BY <1>3, <1>4, <1>5, <3>1 DEF Total
    <2>7. \A e : q \notin Adds(e)
      BY <2>1 DEF Adds
    <2>8. \A e : Given(m, e) => Given(m, e)'
      BY <1>3, <1>4, <1>5, <2>1, <2>7 DEF Given
    <2>9. QED
      BY <1>1, <1>2, <1>5, <2>1, <2>5, <2>6, <2>8
  <1>9. CASE HandleOther(m)
    <2>1. q.op \in {"del", "resume"} /\ bridged' = bridged /\ routes' = routes
      BY <1>9 DEF HandleOther, Handles, routerVars, q
    <2>2. \A r : q \notin For(r) /\ q \notin Adds(r)
      BY <2>1 DEF For, Adds
    <2>3. \A r \in Routes : Total(m, r)' = Total(m, r)
      BY <1>3, <1>4, <1>5, <2>1, <2>2 DEF Total
    <2>4. \A e : Given(m, e) => Given(m, e)'
      BY <1>3, <1>4, <1>5, <2>1, <2>2 DEF Given
    <2>5. QED
      BY <1>1, <1>2, <1>5, <2>1, <2>3, <2>4
  <1>10. QED
    BY <1>7, <1>8, <1>9

-----------------------------------------------------------------------------
(* What a step means to a machine.                                         *)

\* It keeps its state; what its router was asked for is counted as before.
Rests(x) ==
  /\ node'[x] = "launching" <=> node[x] = "launching"
  /\ asg'[x][x] = asg[x][x]
  /\ paused'[x] = paused[x]
  /\ \A r \in Routes : Total(x, r)' = Total(x, r)
  /\ \A e \in Elements : Given(x, e) => Given(x, e)'

\* It goes to state s and resumes what it holds.  Only the issuer, which may go
\* to the state that it is in, holds less than it has asked for.
GoesTo(x, s, held) ==
  /\ node'[x] # "launching"
  /\ asg'[x][x] = s
  /\ Kept(x)' = held \cup TopicNames(s)
  /\ node[x] = "launching" => held = {}
  /\ node[x] # "launching" => held \subseteq Kept(x) /\ (x # Issuer => held = Kept(x))
  /\ \A r \in Routes : Total(x, r)' = Total(x, r) + Count(Wanted(x, s, held), For(r))
  /\ \A e : Given(x, e) \/ Count(Wanted(x, s, held), Adds(e)) > 0 => Given(x, e)'

Fits(x) ==
  \/ Rests(x)
  \/ \E s \in StatesOf(x) : \E held : GoesTo(x, s, held)
  \/ node'[x] = "launching"

LEMMA RestsAlone ==
  ASSUME NEW x \in Machines,
         node'[x] = "launching" <=> node[x] = "launching",
         asg'[x][x] = asg[x][x], paused'[x] = paused[x],
         api'[x] = api[x], bridged'[x] = bridged[x], routes'[x] = routes[x]
  PROVE  Rests(x)
  BY DEF Rests, Total, Given

LEMMA OrdersAreRequests == [Machines -> Seq(Orders)] \subseteq [Machines -> Seq(Requests)]
  <1>1. Orders \subseteq Requests
    BY DEF Orders
  <1>2. Seq(Orders) \subseteq Seq(Requests)
    BY <1>1, SeqMonotonic
  <1>3. QED
    BY <1>2

LEMMA LaunchFits ==
  ASSUME Typed, NEW m \in Machines, Launch(m)
  PROVE  Typed' /\ \A x \in Machines : Fits(x)
  <1> DEFINE s == asg[m][m]
             qs == Wanted(m, s, {})
  <1>1. /\ node[m] = "launching" /\ paused[m] = {} /\ s \in StatesOf(m)
        /\ node' = [node EXCEPT ![m] = "up"] /\ UNCHANGED routerVars
        /\ UNCHANGED <<asg, paused, inbox, missed, commands, restarted>>
    BY DEF Launch, Typed, Proper
  <1>2. Post(m, qs)
    BY <1>1 DEF Launch
  <1>3. s \in States
    BY <1>1, StatesKnown
  <1>4. qs \in Seq(Orders)
    BY <1>3, WantedEffect
  <1> HIDE DEF qs
  <1>5. /\ api' \in [Machines -> Seq(Orders)]
        /\ \A x \in Machines : x # m => api'[x] = api[x]
        /\ \A r \in Routes : Total(m, r)' = Total(m, r) + Count(qs, For(r))
        /\ \A e : Given(m, e)' <=> Given(m, e) \/ Count(qs, Adds(e)) > 0
    BY <1>1, <1>2, <1>4, PostEffect
  <1>6. /\ node'[m] = "up" /\ \A x \in Machines : x # m => node'[x] = node[x]
        /\ node' \in [Machines -> {"launching", "up", "ended"}]
    BY <1>1 DEF Typed, TypeOK
  <1>7. bridged' = bridged /\ routes' = routes
    BY <1>1 DEF routerVars
  <1>8. Typed'
    <2>1. TypeOK'
      BY <1>1, <1>5, <1>6, <1>7, OrdersAreRequests DEF Typed, TypeOK
    <2>2. Proper'
      BY <1>1, <1>5, <1>6, <1>7 DEF Typed, Proper
    <2>3. QED
      BY <2>1, <2>2 DEF Typed
  <1>9. GoesTo(m, s, {})
    <2>1. Kept(m)' = {} \cup TopicNames(s)
      BY <1>1 DEF Kept
    <2>2. QED
      BY <1>1, <1>5, <1>6, <2>1 DEF GoesTo, qs
  <1>10. \A x \in Machines : x # m => Rests(x)
    BY <1>1, <1>5, <1>6, <1>7, RestsAlone
  <1>11. QED
    BY <1>1, <1>8, <1>9, <1>10 DEF Fits

\* A machine that applies an assignment of its own.
LEMMA OwnFits ==
  ASSUME Typed, NEW m \in Machines, NEW s \in StatesOf(m), ApplyOwn(m, s),
         node[m] = "up", UNCHANGED routerVars, m # Issuer => Changes(m, s)
  PROVE  /\ api' \in [Machines -> Seq(Orders)]
         /\ paused' \in [Machines -> SUBSET {e.name : e \in Elements}]
         /\ asg' \in [Machines -> [Names -> Values]]
         /\ asg'[m][m] = s
         /\ \A x \in Machines : x # m =>
              asg'[x] = asg[x] /\ paused'[x] = paused[x] /\ api'[x] = api[x]
         /\ GoesTo(m, s, Held(m, s))
  <1> DEFINE rev == IF Changes(m, s) THEN Revoked(asg[m][m]) ELSE <<>>
             held == Held(m, s)
             qs == Wanted(m, s, held)
  <1>1. /\ m \in Names /\ s \in States /\ asg[m][m] \in States
        /\ TopicNames(s) \subseteq {e.name : e \in Elements}
        /\ TopicNames(asg[m][m]) \subseteq {e.name : e \in Elements}
    BY StatesKnown DEF Typed, Proper
  <1>2. /\ Post(m, rev \o qs) /\ node' = node
        /\ paused' = [paused EXCEPT ![m] = held \ TopicNames(s)]
        /\ asg' = [asg EXCEPT ![m][m] = s]
    BY DEF ApplyOwn
  <1>3. rev \in Seq(Orders) /\ \A r : Count(rev, For(r)) = 0
    <2>1. CASE Changes(m, s)
      BY <1>1, <2>1, RevokedEffect
    <2>2. CASE ~Changes(m, s)
      <3>1. rev = <<>> /\ <<>> \in Seq(Orders)
        BY <2>2, EmptySeq
      <3>2. \A r : Count(<<>>, For(r)) = 0
        BY CountNone
      <3> HIDE DEF rev
      <3>3. QED
        BY <3>1, <3>2
    <2>3. QED
      BY <2>1, <2>2
  <1>4. qs \in Seq(Orders)
    BY <1>1, WantedEffect
  <1>5. /\ held \subseteq Kept(m) /\ (m # Issuer => held = Kept(m))
        /\ held \subseteq {e.name : e \in Elements}
    BY <1>1 DEF Held, Kept, Typed, TypeOK
  <1>6. Shape
    BY DEF Typed, TypeOK, Shape, Values, Updates
  <1>7. /\ asg' \in [Machines -> [Names -> Values]] /\ asg'[m][m] = s
        /\ \A x \in Machines : x # m => asg'[x] = asg[x]
    <2>1. s \in Values
      BY <1>1 DEF Values
    <2>2. QED
      BY <1>1, <1>2, <1>6, <2>1, Noted
  <1>8. /\ paused' \in [Machines -> SUBSET {e.name : e \in Elements}]
        /\ paused'[m] = held \ TopicNames(s)
        /\ \A x \in Machines : x # m => paused'[x] = paused[x]
    BY <1>2, <1>5 DEF Typed, TypeOK
  <1>9. /\ rev \o qs \in Seq(Orders)
        /\ \A P : /\ Count(rev \o qs, P) = Count(rev, P) + Count(qs, P)
                  /\ Count(rev, P) \in Nat /\ Count(qs, P) \in Nat
    <2> HIDE DEF rev, qs
    <2>1. QED
      BY <1>3, <1>4, ConcatProperties, CountConcat, PlacesFinite
  <1> HIDE DEF rev, qs, held
  <1>10. /\ api' \in [Machines -> Seq(Orders)]
         /\ \A x \in Machines : x # m => api'[x] = api[x]
         /\ \A r \in Routes : Total(m, r)' = Total(m, r) + Count(rev \o qs, For(r))
         /\ \A e : Given(m, e)' <=> Given(m, e) \/ Count(rev \o qs, Adds(e)) > 0
    BY <1>2, <1>9, PostEffect
  <1>11. \A r \in Routes : Total(m, r)' = Total(m, r) + Count(qs, For(r))
    BY <1>3, <1>9, <1>10
  <1>12. \A e : Given(m, e) \/ Count(qs, Adds(e)) > 0 => Given(m, e)'
    BY <1>9, <1>10
  <1>13. Kept(m)' = held \cup TopicNames(s)
    BY <1>7, <1>8 DEF Kept
  <1>14. GoesTo(m, s, held)
    BY <1>2, <1>5, <1>7, <1>11, <1>12, <1>13 DEF GoesTo, qs
  <1>15. QED
    BY <1>7, <1>8, <1>10, <1>14 DEF held

\* A machine whose assignment fails keeps its state; its node ends.
LEMMA FailsFits ==
  ASSUME Typed, NEW m \in Machines, NEW s, ApplyFails(m, s), node[m] = "up",
         UNCHANGED routerVars
  PROVE  /\ api' \in [Machines -> Seq(Orders)]
         /\ node' = [node EXCEPT ![m] = "ended"] /\ asg' = asg /\ paused' = paused
         /\ \A x \in Machines : Rests(x) /\ (x # m => api'[x] = api[x])
  <1> DEFINE rev == IF Changes(m, s) THEN Revoked(asg[m][m]) ELSE <<>>
  <1>1. asg[m][m] \in States
    BY StatesKnown DEF Typed, Proper
  <1>2. /\ Post(m, rev) /\ node' = [node EXCEPT ![m] = "ended"]
        /\ asg' = asg /\ paused' = paused
    BY DEF ApplyFails
  <1>3. rev \in Seq(Orders) /\ \A r : Count(rev, For(r)) = 0
    <2>1. CASE Changes(m, s)
      BY <1>1, <2>1, RevokedEffect
    <2>2. CASE ~Changes(m, s)
      <3>1. rev = <<>> /\ <<>> \in Seq(Orders)
        BY <2>2, EmptySeq
      <3>2. \A r : Count(<<>>, For(r)) = 0
        BY CountNone
      <3> HIDE DEF rev
      <3>3. QED
        BY <3>1, <3>2
    <2>3. QED
      BY <2>1, <2>2
  <1> HIDE DEF rev
  <1>4. /\ api' \in [Machines -> Seq(Orders)]
        /\ \A x \in Machines : x # m => api'[x] = api[x]
        /\ \A r \in Routes : Total(m, r)' = Total(m, r) + Count(rev, For(r))
        /\ \A e : Given(m, e)' <=> Given(m, e) \/ Count(rev, Adds(e)) > 0
    BY <1>2, <1>3, PostEffect
  <1>5. /\ node'[m] = "ended" /\ \A x \in Machines : x # m => node'[x] = node[x]
    BY <1>2 DEF Typed, TypeOK
  <1>6. \A r \in Routes : Total(m, r) \in Nat
    BY TotalType
  <1>7. Rests(m)
    BY <1>2, <1>3, <1>4, <1>5, <1>6 DEF Rests
  <1>8. \A x \in Machines : x # m => Rests(x)
    BY <1>2, <1>4, <1>5, RestsAlone DEF routerVars
  <1>9. QED
    BY <1>2, <1>4, <1>7, <1>8

\* An update that comes to m was commanded.
LEMMA NextUpdate ==
  ASSUME Typed, NEW m \in Machines, Receive(m)
  PROVE  /\ Head(inbox[m]) \in Updates /\ Tail(inbox[m]) \in Seq(Updates)
         /\ <<Head(inbox[m]).machine, Head(inbox[m]).state>> \in Commands
         /\ \A i \in 1..Len(Tail(inbox[m])) :
              <<Tail(inbox[m])[i].machine, Tail(inbox[m])[i].state>> \in Commands
  <1>1. inbox[m] \in Seq(Updates) /\ inbox[m] # <<>>
    BY DEF Typed, TypeOK, Updates, Receive
  <1> HIDE DEF Updates
  <1>2. /\ Head(inbox[m]) \in Updates /\ Tail(inbox[m]) \in Seq(Updates)
        /\ Head(inbox[m]) = inbox[m][1] /\ Len(inbox[m]) \in Nat \ {0}
        /\ Len(Tail(inbox[m])) = Len(inbox[m]) - 1
        /\ \A i \in 1..Len(Tail(inbox[m])) : Tail(inbox[m])[i] = inbox[m][i + 1]
    BY <1>1, HeadTailProperties, LenProperties
  <1>3. \A i \in 1..Len(inbox[m]) : <<inbox[m][i].machine, inbox[m][i].state>> \in Commands
    BY DEF Typed, Proper
  <1>4. 1 \in 1..Len(inbox[m])
    BY <1>2
  <1>5. \A i \in 1..Len(Tail(inbox[m])) : i + 1 \in 1..Len(inbox[m])
    BY <1>2
  <1>6. QED
    BY <1>2, <1>3, <1>4, <1>5

\* A machine takes the next update and keeps the rest.
LEMMA InboxTyped ==
  ASSUME Typed, NEW m \in Machines, Receive(m),
         inbox' \in {[inbox EXCEPT ![m] = Tail(@)], [inbox EXCEPT ![m] = <<>>]}
  PROVE  /\ inbox' \in [Machines -> Seq(Updates)]
         /\ \A x \in Machines : \A i \in 1..Len(inbox'[x]) :
              <<inbox'[x][i].machine, inbox'[x][i].state>> \in Commands
  <1>1. inbox \in [Machines -> Seq(Updates)]
    BY DEF Typed, TypeOK, Updates
  <1>2. /\ Tail(inbox[m]) \in Seq(Updates) /\ <<>> \in Seq(Updates) /\ Len(<<>>) = 0
        /\ \A i \in 1..Len(Tail(inbox[m])) :
             <<Tail(inbox[m])[i].machine, Tail(inbox[m])[i].state>> \in Commands
    BY NextUpdate, EmptySeq
  <1> HIDE DEF Updates
  <1>3. /\ inbox' \in [Machines -> Seq(Updates)]
        /\ inbox'[m] = Tail(inbox[m]) \/ inbox'[m] = <<>>
        /\ \A x \in Machines : x # m => inbox'[x] = inbox[x]
    BY <1>1, <1>2
  <1>4. \A x \in Machines : \A i \in 1..Len(inbox[x]) :
          <<inbox[x][i].machine, inbox[x][i].state>> \in Commands
    BY DEF Typed, Proper
  <1>5. ASSUME NEW x \in Machines, NEW i \in 1..Len(inbox'[x])
        PROVE  <<inbox'[x][i].machine, inbox'[x][i].state>> \in Commands
    BY SMTT(30), <1>2, <1>3, <1>4
  <1>6. QED
    BY <1>3, <1>5

\* The types afterwards, from what each variable is.
LEMMA TypedFrom ==
  ASSUME node' \in [Machines -> {"launching", "up", "ended"}],
         asg' \in [Machines -> [Names -> Values]],
         paused' \in [Machines -> SUBSET {e.name : e \in Elements}],
         inbox' \in [Machines -> Seq(Updates)],
         api' \in [Machines -> Seq(Orders)],
         bridged' \in [Machines -> SUBSET Elements],
         routes' \in [Machines -> [Routes -> Nat]],
         missed' \cup restarted' \subseteq Machines,
         commands' \in 0..MaxCommands,
         \A m \in Machines :
           /\ asg'[m][m] \in StatesOf(m)
           /\ \A i \in 1..Len(inbox'[m]) : <<inbox'[m][i].machine, inbox'[m][i].state>> \in Commands
           /\ node'[m] = "launching" => paused'[m] = {} /\ api'[m] = <<>> /\ routes'[m] = NoRoutes
  PROVE  Typed'
  <1>1. TypeOK'
    BY OrdersAreRequests DEF TypeOK, Updates, Values
  <1>2. Proper'
    BY DEF Proper
  <1>3. QED
    BY <1>1, <1>2 DEF Typed

LEMMA UpdateFits ==
  ASSUME Typed, NEW m \in Machines, HandleUpdate(m)
  PROVE  Typed' /\ \A x \in Machines : Fits(x)
  <1> DEFINE u == Head(inbox[m])
  <1>1. /\ Receive(m) /\ asg[m][u.machine] \notin {None, u.state}
        /\ IF u.machine = m THEN ApplyOwn(m, u.state) ELSE ApplyOther(m, u.machine, u.state)
        /\ inbox' = [inbox EXCEPT ![m] = Tail(@)]
        /\ UNCHANGED <<missed, commands, restarted, routerVars>>
    BY DEF HandleUpdate
  <1>2. u \in Updates /\ <<u.machine, u.state>> \in Commands
    BY <1>1, NextUpdate
  <1>3. u.machine \in Names /\ u.state \in Values
    BY <1>2 DEF Updates, Values
  <1>4. /\ inbox' \in [Machines -> Seq(Updates)]
        /\ \A x \in Machines : \A i \in 1..Len(inbox'[x]) :
              <<inbox'[x][i].machine, inbox'[x][i].state>> \in Commands
    BY <1>1, InboxTyped
  <1> HIDE DEF u
  <1>5. /\ node[m] = "up" /\ bridged' = bridged /\ routes' = routes
        /\ UNCHANGED <<missed, commands, restarted>> /\ m \in Names
    BY <1>1, StatesKnown DEF Receive, routerVars
  <1>6. Shape
    BY DEF Typed, TypeOK, Shape, Values, Updates
  <1>7. CASE u.machine = m
    <2>1. ApplyOwn(m, u.state) /\ node' = node
      BY <1>1, <1>7 DEF ApplyOwn
    <2>2. u.state \in StatesOf(m)
      BY <1>2, <1>7, <2>1 DEF ApplyOwn, StatesOf
    <2>3. Changes(m, u.state)
      BY <1>1, <1>7 DEF Changes
    <2>4. /\ api' \in [Machines -> Seq(Orders)]
          /\ paused' \in [Machines -> SUBSET {e.name : e \in Elements}]
          /\ asg' \in [Machines -> [Names -> Values]]
          /\ asg'[m][m] = u.state
          /\ \A x \in Machines : x # m =>
               asg'[x] = asg[x] /\ paused'[x] = paused[x] /\ api'[x] = api[x]
          /\ GoesTo(m, u.state, Held(m, u.state))
      BY <1>1, <1>5, <2>1, <2>2, <2>3, OwnFits
    <2>5. Typed'
      BY <1>4, <1>5, <2>1, <2>2, <2>4, TypedFrom DEF Typed, TypeOK, Proper
    <2>6. \A x \in Machines : x # m => Rests(x)
      BY <1>5, <2>1, <2>4, RestsAlone
    <2>7. QED
      BY <2>2, <2>4, <2>5, <2>6 DEF Fits
  <1>8. CASE u.machine # m
    <2>1. /\ asg' = [asg EXCEPT ![m][u.machine] = u.state]
          /\ node' = node /\ paused' = paused /\ api' = api
      BY <1>1, <1>8 DEF ApplyOther
    <2>2. /\ asg' \in [Machines -> [Names -> Values]]
          /\ \A x \in Names : x # u.machine => asg'[m][x] = asg[m][x]
          /\ \A x \in Machines : x # m => asg'[x] = asg[x]
      BY <1>3, <1>6, <2>1, Noted
    <2>3. \A x \in Machines : asg'[x][x] = asg[x][x]
      BY <1>5, <1>8, <2>2
    <2>4. Typed'
      BY <1>4, <1>5, <2>1, <2>2, <2>3, TypedFrom DEF Typed, TypeOK, Proper
    <2>5. \A x \in Machines : Rests(x)
      BY <1>5, <2>1, <2>3, RestsAlone
    <2>6. QED
      BY <2>4, <2>5 DEF Fits
  <1>9. QED
    BY <1>7, <1>8

LEMMA UpdateFailsFits ==
  ASSUME Typed, NEW m \in Machines, UpdateFails(m)
  PROVE  Typed' /\ \A x \in Machines : Fits(x)
  <1>1. /\ Receive(m) /\ node[m] = "up" /\ inbox' = [inbox EXCEPT ![m] = <<>>]
        /\ UNCHANGED <<missed, commands, restarted>> /\ UNCHANGED routerVars
        /\ bridged' = bridged /\ routes' = routes
    BY DEF UpdateFails, Receive, routerVars
  <1>2. /\ inbox' \in [Machines -> Seq(Updates)]
        /\ \A x \in Machines : \A i \in 1..Len(inbox'[x]) :
              <<inbox'[x][i].machine, inbox'[x][i].state>> \in Commands
    BY <1>1, InboxTyped
  <1>3. /\ api' \in [Machines -> Seq(Orders)]
        /\ node' = [node EXCEPT ![m] = "ended"] /\ asg' = asg /\ paused' = paused
        /\ \A x \in Machines : Rests(x) /\ (x # m => api'[x] = api[x])
    <2>1. CASE /\ node' = [node EXCEPT ![m] = "ended"]
               /\ UNCHANGED <<asg, paused, api>>
      <3>1. node'[m] = "ended" /\ \A x \in Machines : x # m => node'[x] = node[x]
        BY <2>1 DEF Typed, TypeOK
      <3>2. \A x \in Machines : Rests(x)
        BY <1>1, <2>1, <3>1, RestsAlone
      <3>3. QED
        BY <2>1, <3>2 DEF Typed, Proper
    <2>2. CASE ApplyFails(m, Head(inbox[m]).state)
      BY <1>1, <2>2, FailsFits
    <2>3. QED
      BY <2>1, <2>2 DEF UpdateFails
  <1>4. /\ node' \in [Machines -> {"launching", "up", "ended"}] /\ node'[m] = "ended"
        /\ \A x \in Machines : x # m => node'[x] = node[x]
    BY <1>3 DEF Typed, TypeOK
  <1>5. asg' \in [Machines -> [Names -> Values]]
    BY <1>3 DEF Typed, TypeOK, Values
  <1>6. Typed'
    BY <1>1, <1>2, <1>3, <1>4, <1>5, TypedFrom DEF Typed, TypeOK, Proper
  <1>7. QED
    BY <1>3, <1>6 DEF Fits

\* What is published was commanded.
LEMMA PublishTyped ==
  ASSUME Typed, NEW n, NEW s, <<n, s>> \in Commands, NEW lost \in SUBSET Machines,
         Publish(n, s, lost)
  PROVE  /\ inbox' \in [Machines -> Seq(Updates)]
         /\ missed' \subseteq Machines
         /\ \A x \in Machines : \A i \in 1..Len(inbox'[x]) :
              <<inbox'[x][i].machine, inbox'[x][i].state>> \in Commands
  <1>1. Update(n, s) \in Updates /\ Update(n, s).machine = n /\ Update(n, s).state = s
    <2>1. n \in {x[1] : x \in Commands} /\ s \in {x[2] : x \in Commands}
      OBVIOUS
    <2>2. QED
      BY <2>1 DEF Update, Updates, Names
  <1>2. inbox \in [Machines -> Seq(Updates)]
    BY DEF Typed, TypeOK, Updates
  <1> HIDE DEF Updates
  <1>3. \A x \in Machines :
          /\ Append(inbox[x], Update(n, s)) \in Seq(Updates)
          /\ Len(Append(inbox[x], Update(n, s))) = Len(inbox[x]) + 1
          /\ Len(inbox[x]) \in Nat
          /\ Append(inbox[x], Update(n, s))[Len(inbox[x]) + 1] = Update(n, s)
          /\ \A i \in 1..Len(inbox[x]) : Append(inbox[x], Update(n, s))[i] = inbox[x][i]
    BY <1>1, <1>2, AppendProperties, LenProperties
  <1>4. /\ inbox' \in [Machines -> Seq(Updates)]
        /\ \A x \in Machines : \/ inbox'[x] = inbox[x]
                               \/ inbox'[x] = Append(inbox[x], Update(n, s))
    BY <1>2, <1>3 DEF Publish
  <1>5. missed' \subseteq Machines
    BY DEF Publish, Typed, TypeOK
  <1>6. ASSUME NEW x \in Machines, NEW i \in 1..Len(inbox'[x])
        PROVE  <<inbox'[x][i].machine, inbox'[x][i].state>> \in Commands
    <2>1. \A j \in 1..Len(inbox[x]) : <<inbox[x][j].machine, inbox[x][j].state>> \in Commands
      BY DEF Typed, Proper
    <2>2. CASE inbox'[x] = inbox[x]
      BY <2>1, <2>2
    <2>3. CASE inbox'[x] = Append(inbox[x], Update(n, s))
      <3>1. i \in 1..Len(inbox[x]) \/ i = Len(inbox[x]) + 1
        BY <1>3, <2>3
      <3>2. \/ i \in 1..Len(inbox[x]) /\ inbox'[x][i] = inbox[x][i]
            \/ inbox'[x][i] = Update(n, s)
        BY <1>3, <2>3, <3>1
      <3>3. QED
        BY <1>1, <2>1, <3>2
    <2>4. QED
      BY <1>4, <2>2, <2>3
  <1>7. QED
    BY <1>4, <1>5, <1>6

LEMMA AssignFits ==
  ASSUME Typed, NEW n, NEW s, Assign(n, s)
  PROVE  Typed' /\ \A x \in Machines : Fits(x)
  <1> DEFINE m == Issuer
  <1>1. /\ node[m] = "up" /\ <<n, s>> \in Commands /\ m \in Machines /\ m \in Names
        /\ commands' \in 0..MaxCommands /\ restarted' = restarted
        /\ UNCHANGED routerVars /\ bridged' = bridged /\ routes' = routes
    BY SwarmAssumption, StatesKnown DEF Assign, Typed, TypeOK, routerVars
  <1>2. n \in Names /\ s \in Values
    <2>1. n \in {x[1] : x \in Commands} /\ s \in {x[2] : x \in Commands}
      BY <1>1
    <2>2. QED
      BY <2>1 DEF Names, Values
  <1>3. Shape
    BY DEF Typed, TypeOK, Shape, Values, Updates
  <1>4. CASE /\ IF n = Issuer THEN ApplyOwn(n, s) ELSE ApplyOther(Issuer, n, s)
             /\ \E L \in SUBSET (Lossy \ {Issuer}) : Publish(n, s, L \cup NotUp)
    <2>1. PICK L \in SUBSET (Lossy \ {Issuer}) : Publish(n, s, L \cup NotUp)
      BY <1>4
    <2>2. L \cup NotUp \in SUBSET Machines
      BY SwarmAssumption DEF NotUp
    <2>3. /\ inbox' \in [Machines -> Seq(Updates)]
          /\ missed' \subseteq Machines
          /\ \A x \in Machines : \A i \in 1..Len(inbox'[x]) :
               <<inbox'[x][i].machine, inbox'[x][i].state>> \in Commands
      BY <1>1, <2>1, <2>2, PublishTyped
    <2>4. CASE n = Issuer
      <3>1. ApplyOwn(m, s) /\ node' = node
        BY <1>4, <2>4 DEF ApplyOwn
      <3>2. s \in StatesOf(m)
        BY <1>1, <2>4, <3>1 DEF ApplyOwn, StatesOf
      <3>3. /\ api' \in [Machines -> Seq(Orders)]
            /\ paused' \in [Machines -> SUBSET {e.name : e \in Elements}]
            /\ asg' \in [Machines -> [Names -> Values]]
            /\ asg'[m][m] = s
            /\ \A x \in Machines : x # m =>
                 asg'[x] = asg[x] /\ paused'[x] = paused[x] /\ api'[x] = api[x]
            /\ GoesTo(m, s, Held(m, s))
        BY <1>1, <3>1, <3>2, OwnFits
      <3>4. Typed'
        BY <1>1, <2>3, <3>1, <3>2, <3>3, TypedFrom DEF Typed, TypeOK, Proper
      <3>5. \A x \in Machines : x # m => Rests(x)
        BY <1>1, <3>1, <3>3, RestsAlone
      <3>6. QED
        BY <1>1, <3>2, <3>3, <3>4, <3>5 DEF Fits
    <2>5. CASE n # Issuer
      <3>1. /\ asg' = [asg EXCEPT ![m][n] = s]
            /\ node' = node /\ paused' = paused /\ api' = api
        BY <1>4, <2>5 DEF ApplyOther
      <3>2. /\ asg' \in [Machines -> [Names -> Values]]
            /\ \A x \in Names : x # n => asg'[m][x] = asg[m][x]
            /\ \A x \in Machines : x # m => asg'[x] = asg[x]
        BY <1>1, <1>2, <1>3, <3>1, Noted
      <3>3. \A x \in Machines : asg'[x][x] = asg[x][x]
        BY <1>1, <2>5, <3>2
      <3>4. Typed'
        BY <1>1, <2>3, <3>1, <3>2, <3>3, TypedFrom DEF Typed, TypeOK, Proper
      <3>5. \A x \in Machines : Rests(x)
        BY <1>1, <3>1, <3>3, RestsAlone
      <3>6. QED
        BY <3>4, <3>5 DEF Fits
    <2>6. QED
      BY <2>4, <2>5
  <1>5. CASE n = Issuer /\ ApplyFails(n, s) /\ UNCHANGED <<inbox, missed>>
    <2>1. /\ api' \in [Machines -> Seq(Orders)]
          /\ node' = [node EXCEPT ![m] = "ended"] /\ asg' = asg /\ paused' = paused
          /\ \A x \in Machines : Rests(x) /\ (x # m => api'[x] = api[x])
      BY <1>1, <1>5, FailsFits
    <2>2. /\ node' \in [Machines -> {"launching", "up", "ended"}] /\ node'[m] = "ended"
          /\ \A x \in Machines : x # m => node'[x] = node[x]
      BY <1>1, <2>1 DEF Typed, TypeOK
    <2>3. asg' \in [Machines -> [Names -> Values]] /\ inbox' \in [Machines -> Seq(Updates)]
      BY <1>5, <2>1 DEF Typed, TypeOK, Values, Updates
    <2>4. Typed'
      BY ZenonT(30), <1>1, <1>5, <2>1, <2>2, <2>3, TypedFrom DEF Typed, TypeOK, Proper
    <2>5. QED
      BY <2>1, <2>4 DEF Fits
  <1>6. QED
    BY <1>4, <1>5 DEF Assign

LEMMA InitTyped == Init => Typed
  <1> SUFFICES ASSUME Init PROVE Typed
    OBVIOUS
  <1>1. /\ <<>> \in Seq(Updates) /\ <<>> \in Seq(Requests) /\ <<>> \in Seq(Orders)
        /\ Len(<<>>) = 0
    BY EmptySeq
  <1>2. FromYaml \in [Names -> Values] /\ \A m \in Machines : FromYaml[m] = Assigned[m]
    BY SwarmAssumption DEF FromYaml, Values, Names
  <1>3. NoRoutes \in [Routes -> Nat]
    BY DEF NoRoutes
  <1>4. TypeOK
    BY <1>1, <1>2, <1>3, SwarmAssumption DEF Init, TypeOK, Updates, Values
  <1>5. Proper
    BY <1>1, <1>2 DEF Init, Proper, StatesOf
  <1>6. QED
    BY <1>4, <1>5 DEF Typed

LEMMA StepTyped ==
  ASSUME Typed, [Next]_vars
  PROVE  Typed' /\ \A x \in Machines : Fits(x)
  <1>0. /\ asg \in [Machines -> [Names -> Values]] /\ inbox \in [Machines -> Seq(Updates)]
    BY DEF Typed, TypeOK, Values, Updates
  <1>1. ASSUME NEW m \in Machines, IgnoreUpdate(m)
        PROVE  Typed' /\ \A x \in Machines : Fits(x)
    <2>1. /\ Receive(m) /\ inbox' = [inbox EXCEPT ![m] = Tail(@)]
          /\ UNCHANGED <<node, asg, paused, missed, commands, restarted, api, bridged, routes>>
      BY <1>1 DEF IgnoreUpdate, routerVars
    <2>2. /\ inbox' \in [Machines -> Seq(Updates)]
          /\ \A x \in Machines : \A i \in 1..Len(inbox'[x]) :
                <<inbox'[x][i].machine, inbox'[x][i].state>> \in Commands
      BY <2>1, InboxTyped
    <2>3. Typed'
      BY <1>0, <2>1, <2>2, TypedFrom DEF Typed, TypeOK, Proper
    <2>4. QED
      BY <2>1, <2>3, RestsAlone DEF Fits
  <1>2. ASSUME NEW m \in Machines, Restart(m)
        PROVE  Typed' /\ \A x \in Machines : Fits(x)
    <2>1. /\ <<>> \in Seq(Updates) /\ <<>> \in Seq(Orders) /\ Len(<<>>) = 0
          /\ NoRoutes \in [Routes -> Nat]
      BY EmptySeq DEF NoRoutes
    <2>2. FromYaml \in [Names -> Values] /\ \A x \in Machines : FromYaml[x] = Assigned[x]
      BY SwarmAssumption DEF FromYaml, Values, Names
    <2>3. /\ node' = [node EXCEPT ![m] = "launching"]
          /\ asg' = [asg EXCEPT ![m] = FromYaml] /\ paused' = [paused EXCEPT ![m] = {}]
          /\ inbox' = [inbox EXCEPT ![m] = <<>>] /\ api' = [api EXCEPT ![m] = <<>>]
          /\ bridged' = [bridged EXCEPT ![m] = {}] /\ routes' = [routes EXCEPT ![m] = NoRoutes]
          /\ restarted' = restarted \cup {m} /\ UNCHANGED <<missed, commands>>
      BY <1>2 DEF Restart, StartRouter
    <2>4. /\ node'[m] = "launching" /\ asg'[m] = FromYaml /\ paused'[m] = {}
          /\ inbox'[m] = <<>> /\ api'[m] = <<>> /\ routes'[m] = NoRoutes
          /\ \A x \in Machines : x # m =>
               /\ node'[x] = node[x] /\ asg'[x] = asg[x] /\ paused'[x] = paused[x]
               /\ inbox'[x] = inbox[x] /\ api'[x] = api[x]
               /\ bridged'[x] = bridged[x] /\ routes'[x] = routes[x]
      BY <2>3 DEF Typed, TypeOK
    <2>5. /\ node' \in [Machines -> {"launching", "up", "ended"}]
          /\ asg' \in [Machines -> [Names -> Values]]
          /\ paused' \in [Machines -> SUBSET {e.name : e \in Elements}]
          /\ inbox' \in [Machines -> Seq(Updates)]
          /\ api' \in [Machines -> Seq(Orders)]
          /\ bridged' \in [Machines -> SUBSET Elements]
          /\ routes' \in [Machines -> [Routes -> Nat]]
          /\ missed' \cup restarted' \subseteq Machines /\ commands' \in 0..MaxCommands
      BY <1>0, <2>1, <2>2, <2>3 DEF Typed, TypeOK, Proper
    <2>6. ASSUME NEW x \in Machines
          PROVE  /\ asg'[x][x] \in StatesOf(x)
                 /\ \A i \in 1..Len(inbox'[x]) :
                      <<inbox'[x][i].machine, inbox'[x][i].state>> \in Commands
                 /\ node'[x] = "launching" =>
                      paused'[x] = {} /\ api'[x] = <<>> /\ routes'[x] = NoRoutes
      <3>1. CASE x = m
        BY <2>1, <2>2, <2>4, <3>1 DEF StatesOf
      <3>2. CASE x # m
        BY <2>4, <3>2 DEF Typed, Proper
      <3>3. QED
        BY <3>1, <3>2
    <2>7. Typed'
      BY <2>5, <2>6, TypedFrom
    <2>8. \A x \in Machines : x # m => Rests(x)
      BY <2>4, RestsAlone
    <2>9. QED
      BY <2>4, <2>7, <2>8 DEF Fits
  <1>3. ASSUME NEW m \in Machines, HandleAdd(m) \/ HandleRouting(m) \/ HandleOther(m)
        PROVE  Typed' /\ \A x \in Machines : Fits(x)
    <2>1. UNCHANGED <<node, asg, paused, inbox, missed, commands, restarted>>
      BY <1>3 DEF HandleAdd, HandleRouting, HandleOther, Handles, nodeVars
    <2>2. /\ api' \in [Machines -> Seq(Orders)] /\ api[m] # <<>>
          /\ bridged' \in [Machines -> SUBSET Elements]
          /\ routes' \in [Machines -> [Routes -> Nat]]
          /\ \A x \in Machines : x # m =>
               api'[x] = api[x] /\ bridged'[x] = bridged[x] /\ routes'[x] = routes[x]
          /\ \A r \in Routes : Total(m, r)' = Total(m, r)
          /\ \A e \in Elements : Given(m, e) => Given(m, e)'
      BY <1>3, HandleEffect
    <2>3. \A x \in Machines : node'[x] = "launching" =>
            paused'[x] = {} /\ api'[x] = <<>> /\ routes'[x] = NoRoutes
      BY <2>1, <2>2 DEF Typed, Proper
    <2>4. Typed'
      BY <1>0, <2>1, <2>2, <2>3, TypedFrom DEF Typed, TypeOK, Proper
    <2>5. Rests(m)
      BY <2>1, <2>2 DEF Rests
    <2>6. \A x \in Machines : x # m => Rests(x)
      BY <2>1, <2>2, RestsAlone
    <2>7. QED
      BY <2>4, <2>5, <2>6 DEF Fits
  <1>4. CASE UNCHANGED vars
    <2>1. UNCHANGED <<node, asg, paused, inbox, missed, commands, restarted, api, bridged, routes>>
      BY <1>4 DEF vars, nodeVars, routerVars
    <2>2. Typed'
      BY <2>1 DEF Typed, TypeOK, Proper
    <2>3. QED
      BY <2>1, <2>2, RestsAlone DEF Fits
  <1>5. QED
    BY <1>1, <1>2, <1>3, <1>4, LaunchFits, UpdateFits, UpdateFailsFits, AssignFits DEF Next

-----------------------------------------------------------------------------
(* What holds of a machine as long as it rests or goes from state to state. *)

\* On other machines than the issuer's a topic is asked for once along every edge,
\* and no topic that the node does not count as asked for.
RoutedInv ==
  \A m \in Machines \ {Issuer} : \A r \in Routes : r.conn = "pubsub" =>
    /\ Total(m, r) <= Degree(m)
    /\ r.name \notin Kept(m) => Total(m, r) = 0

LEMMA RoutedStep == Typed /\ RoutedInv /\ [Next]_vars => RoutedInv'
  <1> SUFFICES ASSUME Typed, RoutedInv, [Next]_vars,
                      NEW m \in Machines \ {Issuer}, NEW r \in Routes, r.conn = "pubsub"
               PROVE  /\ Total(m, r)' <= Degree(m)
                      /\ r.name \notin Kept(m)' => Total(m, r)' = 0
    BY DEF RoutedInv
  <1>1. Typed' /\ Fits(m)
    BY StepTyped
  <1>2. /\ Total(m, r) \in Nat /\ Total(m, r)' \in Nat /\ Degree(m) \in Nat
        /\ node[m] = "launching" => Total(m, r) = 0
        /\ node'[m] = "launching" => Total(m, r)' = 0
    <2>1. (Total(m, r) \in Nat /\ (node[m] = "launching" => Total(m, r) = 0))'
      BY <1>1, TotalTypeNext
    <2>2. QED
      BY <2>1, TotalType, EdgesFinite
  <1>3. /\ Total(m, r) <= Degree(m)
        /\ r.name \notin Kept(m) => Total(m, r) = 0
    BY DEF RoutedInv
  <1>4. CASE Rests(m)
    BY <1>3, <1>4 DEF Rests, Kept
  <1>5. ASSUME NEW s \in StatesOf(m), NEW held, GoesTo(m, s, held)
        PROVE  /\ Total(m, r)' <= Degree(m)
               /\ r.name \notin Kept(m)' => Total(m, r)' = 0
    <2> DEFINE d == Count(Wanted(m, s, held), For(r))
    <2>1. /\ d \in {0, Degree(m)}
          /\ r.name \in held \/ r.name \notin TopicNames(s) => d = 0
      BY StatesKnown, WantedEffect
    <2>2. Total(m, r)' = Total(m, r) + d /\ Kept(m)' = held \cup TopicNames(s)
      BY <1>5 DEF GoesTo
    <2> HIDE DEF d
    <2>3. r.name \notin held => Total(m, r) = 0
      BY <1>2, <1>3, <1>5 DEF GoesTo
    <2>4. QED
      BY <1>2, <1>3, <2>1, <2>2, <2>3
  <1>6. CASE node'[m] = "launching"
    BY <1>2, <1>6
  <1>7. QED
    BY <1>1, <1>4, <1>5, <1>6 DEF Fits

\* States that share a topic list it with the same role.
SameRoles(m) ==
  \A s, t \in StatesOf(m) : \A e \in ToSet(TopicsOf[s]) :
    e.name \in TopicNames(t) => e \in ToSet(TopicsOf[t])

\* What a node counts as asked for its router was asked for, in the role that
\* the states list and along every edge; so were the services of its state.
AskedInv ==
  \A m \in Machines : node[m] # "launching" =>
    /\ \A s \in StatesOf(m) : \A e \in ToSet(TopicsOf[s]) : e.name \in Kept(m) =>
         Given(m, e) /\ Total(m, Direct(m, e)) >= Degree(m)
    /\ \A e \in ToSet(ServicesOf[asg[m][m]]) : Given(m, e)

\* The names that an element of a state has.
LEMMA ElementKnown ==
  ASSUME NEW s \in States
  PROVE  /\ \A e \in ToSet(TopicsOf[s]) :
              e \in Elements /\ e.name \in TopicNames(s) /\ \A m : Direct(m, e) \in Routes
         /\ \A e \in ToSet(ServicesOf[s]) :
              e \in Elements /\ ParentRoutes(e) \cup ChildRoutes(e) \subseteq Routes
  <1>1. \A e \in ToSet(TopicsOf[s]) \cup ToSet(ServicesOf[s]) : e \in Elements
    BY DEF Elements
  <1>2. \A e \in Elements : \A m : Direct(m, e) \in Routes
    BY DEF Direct, Direction, Routes
  <1>3. \A e \in Elements : ParentRoutes(e) \cup ChildRoutes(e) \subseteq Routes
    BY DEF ParentRoutes, ChildRoutes, Route, Routes
  <1>4. \A e \in ToSet(TopicsOf[s]) : e.name \in TopicNames(s)
    BY DEF TopicNames
  <1>5. QED
    BY <1>1, <1>2, <1>3, <1>4

LEMMA AskedStep ==
  ASSUME \A m \in Machines : SameRoles(m), Typed, AskedInv, [Next]_vars
  PROVE  AskedInv'
  <1> SUFFICES ASSUME NEW m \in Machines, node'[m] # "launching"
               PROVE  /\ \A s \in StatesOf(m) : \A e \in ToSet(TopicsOf[s]) : e.name \in Kept(m)' =>
                           Given(m, e)' /\ Total(m, Direct(m, e))' >= Degree(m)
                      /\ \A e \in ToSet(ServicesOf[asg'[m][m]]) : Given(m, e)'
    BY DEF AskedInv
  <1>1. Typed' /\ Fits(m) /\ Degree(m) \in Nat /\ asg[m][m] \in States
    BY StepTyped, EdgesFinite, StatesKnown DEF Typed, Proper
  <1>2. \A r \in Routes : Total(m, r) \in Nat
    BY TotalType
  <1>3. CASE Rests(m)
    <2>1. /\ node[m] # "launching" /\ asg'[m][m] = asg[m][m] /\ Kept(m)' = Kept(m)
          /\ \A r \in Routes : Total(m, r)' = Total(m, r)
          /\ \A e \in Elements : Given(m, e) => Given(m, e)'
      BY <1>3 DEF Rests, Kept
    <2>2. ASSUME NEW s \in StatesOf(m), NEW e \in ToSet(TopicsOf[s]), e.name \in Kept(m)'
          PROVE  Given(m, e)' /\ Total(m, Direct(m, e))' >= Degree(m)
      <3>1. e \in Elements /\ Direct(m, e) \in Routes
        BY StatesKnown, ElementKnown
      <3>2. Given(m, e) /\ Total(m, Direct(m, e)) >= Degree(m)
        BY <2>1, <2>2 DEF AskedInv
      <3>3. QED
        BY <2>1, <3>1, <3>2
    <2>3. \A e \in ToSet(ServicesOf[asg[m][m]]) : e \in Elements /\ Given(m, e)
      BY <1>1, <2>1, ElementKnown DEF AskedInv
    <2>4. QED
      BY <2>1, <2>2, <2>3
  <1>4. ASSUME NEW t \in StatesOf(m), NEW held, GoesTo(m, t, held)
        PROVE  /\ \A s \in StatesOf(m) : \A e \in ToSet(TopicsOf[s]) : e.name \in Kept(m)' =>
                    Given(m, e)' /\ Total(m, Direct(m, e))' >= Degree(m)
               /\ \A e \in ToSet(ServicesOf[asg'[m][m]]) : Given(m, e)'
    <2> DEFINE w == Wanted(m, t, held)
    <2>1. /\ w \in Seq(Orders)
          /\ \A e \in ToSet(TopicsOf[t]) : e.name \notin held =>
               Count(w, Adds(e)) > 0 /\ Count(w, For(Direct(m, e))) >= Degree(m)
          /\ \A e \in ToSet(ServicesOf[t]) : Count(w, Adds(e)) > 0
      BY StatesKnown, WantedEffect
    <2>2. /\ asg'[m][m] = t /\ Kept(m)' = held \cup TopicNames(t)
          /\ held # {} => node[m] # "launching" /\ held \subseteq Kept(m)
          /\ \A r \in Routes : Total(m, r)' = Total(m, r) + Count(w, For(r))
          /\ \A e : Given(m, e) \/ Count(w, Adds(e)) > 0 => Given(m, e)'
      BY <1>4 DEF GoesTo
    <2>3. \A P : Count(w, P) \in Nat
      BY <2>1, PlacesFinite
    <2> HIDE DEF w
    <2>4. ASSUME NEW s \in StatesOf(m), NEW e \in ToSet(TopicsOf[s]), e.name \in Kept(m)'
          PROVE  Given(m, e)' /\ Total(m, Direct(m, e))' >= Degree(m)
      <3>1. Direct(m, e) \in Routes
        BY StatesKnown, ElementKnown
      <3>2. CASE e.name \in held
        <4>1. Given(m, e) /\ Total(m, Direct(m, e)) >= Degree(m)
          BY <2>2, <3>2 DEF AskedInv
        <4>2. QED
          BY <1>1, <1>2, <2>2, <2>3, <3>1, <4>1
      <3>3. CASE e.name \notin held
        <4>1. e \in ToSet(TopicsOf[t])
          BY <2>2, <2>4, <3>3 DEF SameRoles
        <4>2. QED
          BY <1>1, <1>2, <2>1, <2>2, <2>3, <3>1, <3>3, <4>1
      <3>4. QED
        BY <3>2, <3>3
    <2>5. QED
      BY <2>1, <2>2, <2>4
  <1>5. QED
    BY <1>1, <1>3, <1>4 DEF Fits

\* A service of the node's state was asked for in both directions, along the
\* edges up and along those down.
EndsInv ==
  \A m \in Machines : node[m] # "launching" => \A e \in ToSet(ServicesOf[asg[m][m]]) :
    /\ Children(m) # {} => \A r \in ParentRoutes(e) : Total(m, r) > 0
    /\ Parents(m) # {} => \A r \in ChildRoutes(e) : Total(m, r) > 0

LEMMA EndsStep == Typed /\ EndsInv /\ [Next]_vars => EndsInv'
  <1> SUFFICES ASSUME Typed, EndsInv, [Next]_vars,
                      NEW m \in Machines, node'[m] # "launching",
                      NEW e \in ToSet(ServicesOf[asg'[m][m]])
               PROVE  /\ Children(m) # {} => \A r \in ParentRoutes(e) : Total(m, r)' > 0
                      /\ Parents(m) # {} => \A r \in ChildRoutes(e) : Total(m, r)' > 0
    BY DEF EndsInv
  <1>1. Typed' /\ Fits(m) /\ asg[m][m] \in States
    BY StepTyped, StatesKnown DEF Typed, Proper
  <1>2. \A r \in Routes : Total(m, r) \in Nat
    BY TotalType
  <1>3. CASE Rests(m)
    <2>1. /\ node[m] # "launching" /\ asg'[m][m] = asg[m][m]
          /\ \A r \in Routes : Total(m, r)' = Total(m, r)
      BY <1>3 DEF Rests
    <2>2. e \in ToSet(ServicesOf[asg[m][m]])
      BY <2>1
    <2>3. ParentRoutes(e) \cup ChildRoutes(e) \subseteq Routes
      BY <1>1, <2>2, ElementKnown
    <2>4. /\ Children(m) # {} => \A r \in ParentRoutes(e) : Total(m, r) > 0
          /\ Parents(m) # {} => \A r \in ChildRoutes(e) : Total(m, r) > 0
      BY <2>1, <2>2 DEF EndsInv
    <2>5. QED
      BY <2>1, <2>3, <2>4
  <1>4. ASSUME NEW t \in StatesOf(m), NEW held, GoesTo(m, t, held)
        PROVE  /\ Children(m) # {} => \A r \in ParentRoutes(e) : Total(m, r)' > 0
               /\ Parents(m) # {} => \A r \in ChildRoutes(e) : Total(m, r)' > 0
    <2> DEFINE w == Wanted(m, t, held)
    <2>1. asg'[m][m] = t /\ \A r \in Routes : Total(m, r)' = Total(m, r) + Count(w, For(r))
      BY <1>4 DEF GoesTo
    <2>2. e \in ToSet(ServicesOf[t]) /\ t \in States
      BY <2>1, StatesKnown
    <2>3. /\ w \in Seq(Orders)
          /\ Children(m) # {} => \A r \in Routes \cap ParentRoutes(e) : Count(w, For(r)) > 0
          /\ Parents(m) # {} => \A r \in Routes \cap ChildRoutes(e) : Count(w, For(r)) > 0
      BY <2>2, WantedEffect
    <2>4. ParentRoutes(e) \cup ChildRoutes(e) \subseteq Routes
      BY <2>2, ElementKnown
    <2>5. \A P : Count(w, P) \in Nat
      BY <2>3, PlacesFinite
    <2> HIDE DEF w
    <2>6. ASSUME NEW r \in Routes, Count(w, For(r)) > 0 PROVE Total(m, r)' > 0
      <3>1. Total(m, r) \in Nat /\ Count(w, For(r)) \in Nat
        BY <1>2, <2>5
      <3>2. QED
        BY <2>1, <2>6, <3>1
    <2>7. QED
      BY <2>3, <2>4, <2>6
  <1>5. QED
    BY <1>1, <1>3, <1>4 DEF Fits


-----------------------------------------------------------------------------
(* The theorems.                                                           *)

LEMMA InitHolds == Init => RoutedInv /\ AskedInv /\ EndsInv
  <1> SUFFICES ASSUME Init PROVE RoutedInv /\ AskedInv /\ EndsInv
    OBVIOUS
  <1>1. Typed /\ \A m \in Machines : node[m] = "launching"
    BY InitTyped DEF Init
  <1>2. ASSUME NEW m \in Machines, NEW r \in Routes PROVE Total(m, r) = 0 /\ Degree(m) \in Nat
    BY <1>1, TotalType, EdgesFinite
  <1>3. RoutedInv
    BY <1>2 DEF RoutedInv
  <1>4. AskedInv /\ EndsInv
    BY <1>1 DEF AskedInv, EndsInv
  <1>5. QED
    BY <1>3, <1>4

\* When nothing waits at a router, what it was asked for has been handled.
LEMMA QuietHandled ==
  ASSUME Typed, NEW m \in Machines, Quiet(m)
  PROVE  /\ node[m] # "launching" /\ asg[m][m] \in StatesOf(m) /\ asg[m][m] \in States
         /\ \A r \in Routes : Total(m, r) = routes[m][r] /\ routes[m][r] \in Nat
         /\ \A e : Given(m, e) => e \in bridged[m]
  <1>1. api[m] = <<>> /\ node[m] = "up" /\ asg[m][m] \in StatesOf(m)
    BY DEF Quiet, Typed, Proper
  <1>2. \A P : Count(api[m], P) = 0
    BY <1>1, CountNone
  <1>3. \A r \in Routes : routes[m][r] \in Nat
    BY DEF Typed, TypeOK
  <1>4. QED
    BY <1>1, <1>2, <1>3, StatesKnown DEF Total, Given

\* Every variable keeps its type, and a router is asked only for what its
\* service manager takes: whatever the configuration and the commands.
THEOREM TypeCorrect == Spec => []TypeOK
  <1>1. Typed => TypeOK
    BY DEF Typed
  <1>2. Typed /\ [Next]_vars => Typed'
    BY StepTyped
  <1>3. QED
    BY <1>1, <1>2, InitTyped, PTL DEF Spec

\* "this prevents setting up a new connection": on a machine other than the
\* issuer a topic is never registered twice for an edge, however often the machine
\* leaves a state and comes back to it, is restarted, or is sent an update twice.
THEOREM TopicsRoutedOnce == Spec => []RoutedOnce
  <1>1. ASSUME Typed, RoutedInv PROVE RoutedOnce
    <2> SUFFICES ASSUME NEW m \in Machines \ {Issuer}, NEW r \in Routes, r.conn = "pubsub"
                 PROVE  routes[m][r] <= Degree(m)
      BY DEF RoutedOnce, Degree
    <2>1. routes[m][r] \in Nat /\ api[m] \in Seq(Orders) /\ Degree(m) \in Nat
      <3>1. Degree(m) \in Nat
        BY EdgesFinite
      <3>2. routes[m][r] \in Nat
        BY <1>1 DEF Typed, TypeOK
      <3>3. api[m] \in Seq(Orders)
        BY <1>1 DEF Typed, Proper
      <3>4. QED
        BY <3>1, <3>2, <3>3
    <2>2. Count(api[m], For(r)) \in Nat
      BY <2>1, PlacesFinite
    <2>3. Total(m, r) <= Degree(m)
      BY <1>1 DEF RoutedInv
    <2>4. QED
      BY <2>1, <2>2, <2>3 DEF Total
  <1>2. Init => Typed /\ RoutedInv
    BY InitTyped, InitHolds
  <1>3. Typed /\ RoutedInv /\ [Next]_vars => (Typed /\ RoutedInv)'
    BY StepTyped, RoutedStep
  <1>4. Typed /\ RoutedInv => RoutedOnce
    BY <1>1
  <1>5. QED
    BY <1>2, <1>3, <1>4, PTL DEF Spec

\* When its node and its router have nothing left to handle, every topic and
\* service of a machine's state is with its ROS handler and every topic is routed
\* along every edge, though a topic that comes back is only "resumed" and the
\* router knows of no such request: provided that the states of a machine list a
\* topic in one role.
THEOREM StateIsDone ==
  ASSUME \A m \in Machines : SameRoles(m)
  PROVE  Spec => []DoesItsState
  <1>1. ASSUME Typed, AskedInv PROVE DoesItsState
    <2> SUFFICES ASSUME NEW m \in Machines, Quiet(m)
                 PROVE  /\ \A e \in ToSet(TopicsOf[asg[m][m]]) \cup ToSet(ServicesOf[asg[m][m]]) :
                             e \in bridged[m]
                        /\ \A e \in ToSet(TopicsOf[asg[m][m]]) :
                             routes[m][Direct(m, e)] >= Degree(m)
      BY DEF DoesItsState, Degree
    <2>1. /\ node[m] # "launching" /\ asg[m][m] \in StatesOf(m) /\ asg[m][m] \in States
          /\ \A r \in Routes : Total(m, r) = routes[m][r]
          /\ \A e : Given(m, e) => e \in bridged[m]
      BY <1>1, QuietHandled
    <2>2. ASSUME NEW e \in ToSet(TopicsOf[asg[m][m]])
          PROVE  e \in bridged[m] /\ routes[m][Direct(m, e)] >= Degree(m)
      <3>1. Direct(m, e) \in Routes /\ e.name \in Kept(m)
        BY <2>1, ElementKnown DEF Kept
      <3>2. Given(m, e) /\ Total(m, Direct(m, e)) >= Degree(m)
        BY <1>1, <2>1, <3>1 DEF AskedInv
      <3>3. QED
        BY <2>1, <3>1, <3>2
    <2>3. \A e \in ToSet(ServicesOf[asg[m][m]]) : e \in bridged[m]
      BY <1>1, <2>1 DEF AskedInv
    <2>4. QED
      BY <2>2, <2>3
  <1>2. Init => Typed /\ AskedInv
    BY InitTyped, InitHolds
  <1>3. Typed /\ AskedInv /\ [Next]_vars => (Typed /\ AskedInv)'
    BY StepTyped, AskedStep
  <1>4. Typed /\ AskedInv => DoesItsState
    BY <1>1
  <1>5. QED
    BY <1>2, <1>3, <1>4, PTL DEF Spec

\* The two ends of an edge ask for opposite directions of a service that both
\* have in their states: what a client asks goes down to the service and the
\* answer up, in any topology and after any changes of state.
THEOREM EndsAlwaysMeet == Spec => []EndsMeet
  <1>1. ASSUME Typed, EndsInv PROVE EndsMeet
    <2> SUFFICES ASSUME NEW g \in Edges, Quiet(g[1]), Quiet(g[2]),
                        NEW x \in ToSet(ServicesOf[asg[g[1]][g[1]]]),
                        NEW y \in ToSet(ServicesOf[asg[g[2]][g[2]]]), x.name = y.name,
                        NEW c \in {"request", "response"}
                 PROVE  \E d \in {"sender", "receiver"} :
                          /\ routes[g[1]][Route(x, c, d)] > 0
                          /\ \E f \in {"sender", "receiver"} \ {d} :
                               routes[g[2]][Route(x, c, f)] > 0
      BY DEF EndsMeet, Route
    <2>1. g[1] \in Machines /\ g[2] \in Machines /\ Children(g[1]) # {} /\ Parents(g[2]) # {}
      BY SwarmAssumption DEF Children, Parents
    <2>2. /\ node[g[1]] # "launching" /\ asg[g[1]][g[1]] \in States
          /\ \A r \in Routes : Total(g[1], r) = routes[g[1]][r]
      BY <1>1, <2>1, QuietHandled
    <2>3. /\ node[g[2]] # "launching" /\ asg[g[2]][g[2]] \in States
          /\ \A r \in Routes : Total(g[2], r) = routes[g[2]][r]
      BY <1>1, <2>1, QuietHandled
    <2>4. \A r \in ParentRoutes(x) : routes[g[1]][r] > 0
      <3>1. \A r \in ParentRoutes(x) : r \in Routes /\ Total(g[1], r) > 0
        BY <1>1, <2>1, <2>2, ElementKnown DEF EndsInv
      <3>2. QED
        BY <2>2, <3>1
    <2>5. \A r \in ChildRoutes(y) : routes[g[2]][r] > 0
      <3>1. \A r \in ChildRoutes(y) : r \in Routes /\ Total(g[2], r) > 0
        BY <1>1, <2>1, <2>3, ElementKnown DEF EndsInv
      <3>2. QED
        BY <2>3, <3>1
    <2>6. \A d : Route(y, c, d) = Route(x, c, d)
      BY DEF Route
    <2>7. CASE c = "request"
      <3>1. routes[g[1]][Route(x, c, "sender")] > 0
        BY <2>4, <2>7 DEF ParentRoutes
      <3>2. routes[g[2]][Route(x, c, "receiver")] > 0
        BY <2>5, <2>6, <2>7 DEF ChildRoutes
      <3>3. QED
        BY <3>1, <3>2
    <2>8. CASE c = "response"
      <3>1. routes[g[1]][Route(x, c, "receiver")] > 0
        BY <2>4, <2>8 DEF ParentRoutes
      <3>2. routes[g[2]][Route(x, c, "sender")] > 0
        BY <2>5, <2>6, <2>8 DEF ChildRoutes
      <3>3. QED
        BY <3>1, <3>2
    <2>9. QED
      BY <2>7, <2>8
  <1>2. Init => Typed /\ EndsInv
    BY InitTyped, InitHolds
  <1>3. Typed /\ EndsInv /\ [Next]_vars => (Typed /\ EndsInv)'
    BY StepTyped, EndsStep
  <1>4. Typed /\ EndsInv => EndsMeet
    BY <1>1
  <1>5. QED
    BY <1>2, <1>3, <1>4, PTL DEF Spec
=============================================================================
