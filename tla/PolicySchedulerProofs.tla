------------------------ MODULE PolicySchedulerProofs ------------------------
(***************************************************************************)
(* Proofs about the policy scheduler, for any configuration of machines,   *)
(* any profiles and any number of requests: its types, that the service is *)
(* on one machine, and that profiling always has a machine left to try.    *)
(***************************************************************************)
EXTENDS PolicyScheduler, FiniteSetsExt, FiniteSetTheorems, WellFoundedInduction, TLAPS

Offering(as) == {m \in Servers : as[m] = "service"}

\* Outside parallel profiling the service is on one machine.
OneOffers(as) == \E m \in Servers : Offering(as) = {m}

\* A machine offers the service, and the robot is no server.
SomeOffers(as) == as[Robot] = "robot" /\ Offering(as) # {}

\* The two ways of profiling exclude one another, and no profile is the robot's.
Exclusive == ~(profiling /\ parallel)
OfServers == active[Robot] = NoProfile

IInv ==
  /\ TypeOK
  /\ SomeOffers(assign)
  /\ ~parallel => OneOffers(assign)
  /\ Exclusive
  /\ OfServers
  /\ ProfilesInTurn

-----------------------------------------------------------------------------
(* Numbers.                                                                *)

\* A set of numbers has a least one.
LEMMA LeastNumber ==
  ASSUME NEW S \in SUBSET Nat, S # {}
  PROVE  \E x \in S : \A y \in S : x <= y
  <1>1. PICK x \in S : \A y \in S : <<y, x>> \notin OpToRel(<, Nat)
    BY NatLessThanWellFounded, WFMin
  <1>2. \A y \in S : ~(y < x)
    BY <1>1 DEF OpToRel
  <1>3. QED
    BY <1>2

LEMMA MinIsLeast ==
  ASSUME NEW S \in SUBSET Nat, S # {}
  PROVE  Min(S) \in S /\ \A y \in S : Min(S) <= y
  BY LeastNumber DEF Min

-----------------------------------------------------------------------------
(* The machine that offers the service.                                    *)

Position(m) == SelectInSeq(Order, LAMBDA x : x = m)

LEMMA PositionIsNumber ==
  ASSUME NEW m PROVE Position(m) \in Nat
  <1> DEFINE I == {i \in 1..Len(Order) : Order[i] = m}
  <1>1. Position(m) = IF I # {} THEN Min(I) ELSE 0
    BY DEF Position, SelectInSeq
  <1>2. I \in SUBSET Nat
    OBVIOUS
  <1> HIDE DEF I
  <1>3. CASE I # {}
    <2>1. Min(I) \in I
      BY <1>2, <1>3, MinIsLeast
    <2>2. QED
      BY <1>1, <1>2, <1>3, <2>1
  <1>4. CASE I = {}
    BY <1>1, <1>4
  <1>5. QED
    BY <1>3, <1>4

\* The machine the scheduler takes for the one that offers the service does.
LEMMA ServiceMachineOffers ==
  ASSUME SomeOffers(assign)
  PROVE  ServiceMachine \in Offering(assign)
  <1> DEFINE S == {m \in Machines : assign[m] = "service"}
             P == {Position(m) : m \in S}
  <1>1. P \in SUBSET Nat /\ P # {}
    BY PositionIsNumber DEF SomeOffers, Offering, Servers
  <1>2. PICK p \in P : \A q \in P : p <= q
    BY <1>1, LeastNumber
  <1>3. PICK m \in S : Position(m) = p
    BY <1>2
  <1>4. \A k \in Machines : assign[k] = "service" => Position(m) <= Position(k)
    BY <1>2, <1>3
  <1>5. ServiceMachine \in Machines /\ assign[ServiceMachine] = "service"
    BY <1>3, <1>4 DEF ServiceMachine, Position
  <1>6. QED
    BY <1>5 DEF SomeOffers, Offering, Servers

-----------------------------------------------------------------------------
(* Moving the service.                                                     *)

States    == {"robot", "service", "standby"}
SeenSet   == [Machines -> 0..Limit \cup {Never}]
CountSet  == [Machines -> 0..Skip]
ActiveSet == [Machines -> Profiles \cup {NoProfile}]

LEMMA Constants ==
  /\ Servers \subseteq Machines /\ Robot \in Machines /\ Robot \notin Servers
  /\ First \in Servers
  /\ Never \notin Nat /\ Skip \in Nat \ {0} /\ NoProfile \notin Profiles
  /\ MaxRequests \in Nat
  BY SchedulerAssumption DEF Servers

\* What moving the service, or leaving it where it is, does to the assignment and
\* to the clocks.
Moved ==
  /\ assign' \in [Machines -> States]
  /\ seen' \in SeenSet
  /\ switched' \in [Machines -> 0..Limit]
  /\ count' \in CountSet
  /\ SomeOffers(assign')
  /\ OneOffers(assign) => OneOffers(assign')

LEMMA SwitchMoves ==
  ASSUME TypeOK, SomeOffers(assign), NEW m \in Servers,
         NEW sn \in SeenSet, NEW ct \in CountSet, SwitchTo(m, sn, ct)
  PROVE  Moved
  <1> USE Constants
  <1>1. ServiceMachine \in Servers /\ assign[ServiceMachine] = "service"
    BY ServiceMachineOffers DEF Offering
  <1>2. assign \in [Machines -> States] /\ switched \in [Machines -> 0..Limit]
    BY DEF TypeOK, States
  <1>3. CASE m = ServiceMachine
    BY <1>2, <1>3 DEF SwitchTo, Moved
  <1>4. CASE m # ServiceMachine
    <2>1. /\ assign' = [assign EXCEPT ![ServiceMachine] = "standby", ![m] = "service"]
          /\ seen' = [sn EXCEPT ![ServiceMachine] = Never, ![m] = Never]
          /\ count' = [ct EXCEPT ![ServiceMachine] = 0, ![m] = 0]
          /\ switched' = [switched EXCEPT ![ServiceMachine] = 0, ![m] = 0]
      BY <1>4 DEF SwitchTo
    <2>2. assign' \in [Machines -> States]
      BY <1>2, <2>1 DEF States
    <2>3. seen' \in SeenSet /\ count' \in CountSet /\ switched' \in [Machines -> 0..Limit]
      BY <1>2, <2>1 DEF SeenSet, CountSet, Limit
    <2>4. \A x \in Machines : assign'[x] = IF x = m THEN "service"
                                           ELSE IF x = ServiceMachine THEN "standby"
                                           ELSE assign[x]
      BY <1>1, <1>2, <2>1
    <2>5. SomeOffers(assign')
      BY <1>1, <2>4 DEF SomeOffers, Offering
    <2>6. ASSUME OneOffers(assign) PROVE OneOffers(assign')
      <3>1. Offering(assign) = {ServiceMachine}
        BY <2>6, ServiceMachineOffers DEF OneOffers
      <3>2. \A x \in Servers : assign[x] = "service" => x = ServiceMachine
        BY <3>1 DEF Offering
      <3>3. Offering(assign') = {m}
        BY <1>1, <1>4, <2>4, <3>2 DEF Offering
      <3>4. QED
        BY <3>3 DEF OneOffers
    <2>7. QED
      BY <2>2, <2>3, <2>5, <2>6 DEF Moved
  <1>5. QED
    BY <1>3, <1>4

LEMMA StayMoves ==
  ASSUME TypeOK, SomeOffers(assign),
         NEW sn \in SeenSet, NEW ct \in CountSet, Stay(sn, ct)
  PROVE  Moved
  <1>1. ServiceMachine \in Servers
    BY ServiceMachineOffers DEF Offering
  <1>2. SwitchTo(ServiceMachine, sn, ct)
    BY DEF Stay
  <1>3. QED
    BY <1>1, <1>2, SwitchMoves

\* A machine with a better profile is a server.
LEMMA BetterAreServers ==
  ASSUME NEW act, act[Robot] = NoProfile, NEW ex
  PROVE  Better(act, ex) \subseteq Servers
  BY DEF Better, Fastest, Known, Servers

LEMMA BetterMoves ==
  ASSUME TypeOK, SomeOffers(assign), NEW act, act[Robot] = NoProfile, NEW ex,
         NEW sn \in SeenSet, NEW ct \in CountSet, SwitchToBetter(act, ex, sn, ct)
  PROVE  Moved
  <1>1. CASE Better(act, ex) = {}
    <2>1. Stay(sn, ct)
      BY <1>1 DEF SwitchToBetter
    <2>2. QED
      BY <2>1, StayMoves
  <1>2. CASE Better(act, ex) # {}
    <2>1. PICK m \in Better(act, ex) : SwitchTo(m, sn, ct)
      BY <1>2 DEF SwitchToBetter
    <2>2. m \in Servers
      BY BetterAreServers
    <2>3. QED
      BY <2>1, <2>2, SwitchMoves
  <1>3. QED
    BY <1>1, <1>2

\* Profiling goes on exactly as long as a server is left.
LEMMA NextMoves ==
  ASSUME TypeOK, SomeOffers(assign), NEW act, act[Robot] = NoProfile, NEW off,
         NEW sn \in SeenSet, NEW ct \in CountSet, SwitchToNext(act, off, sn, ct)
  PROVE  Moved /\ profiling' = (Servers \ (Known(act) \cup off) # {})
  <1> DEFINE left == Servers \ (Known(act) \cup off)
  <1>1. profiling' = (left # {})
    BY DEF SwitchToNext
  <1>2. CASE SwitchToBetter(act, {}, sn, ct)
    BY <1>1, <1>2, BetterMoves
  <1>3. CASE Stay(sn, ct)
    BY <1>1, <1>3, StayMoves
  <1>4. ASSUME NEW m \in left \ {ServiceMachine}, SwitchTo(m, sn, ct) PROVE Moved
    BY <1>4, SwitchMoves
  <1>5. QED
    BY <1>1, <1>2, <1>3, <1>4 DEF SwitchToNext

-----------------------------------------------------------------------------
(* The steps.                                                              *)

\* A callback that moved the service, or could have, keeps the invariant if it
\* leaves a server to be profiled as long as profiling goes on.
LEMMA AfterMove ==
  ASSUME IInv, Moved, UNCHANGED <<parallel, ready, current, window, linked>>,
         crashed' \in BOOLEAN, requests' \in 0..MaxRequests,
         active' \in ActiveSet, active'[Robot] = NoProfile, cut' \in SUBSET Servers,
         profiling' \in BOOLEAN, ~(profiling' /\ parallel),
         profiling' => Servers \ (Known(active') \cup cut') # {}
  PROVE  IInv'
  <1>1. TypeOK'
    BY DEF IInv, TypeOK, Moved, States, SeenSet, CountSet, ActiveSet
  <1>2. SomeOffers(assign') /\ (~parallel' => OneOffers(assign'))
    BY DEF IInv, Moved
  <1>3. Exclusive' /\ OfServers' /\ ProfilesInTurn'
    BY DEF Exclusive, OfServers, ProfilesInTurn, Known
  <1>4. QED
    BY <1>1, <1>2, <1>3 DEF IInv, SomeOffers, OneOffers, Offering

\* What a profile brings.
LEMMA ProfileTypes ==
  ASSUME IInv, NEW m \in Servers, Hears(m)
  PROVE  /\ seen \in SeenSet /\ count \in CountSet /\ active \in ActiveSet
         /\ SeenBy(m) \in SeenSet /\ CountBy(m) \in CountSet
         /\ ActiveWith(m, window[m]) \in ActiveSet
         /\ ActiveWith(m, window[m])[Robot] = NoProfile
         /\ active[Robot] = NoProfile
  <1> USE Constants
  <1>1. seen \in SeenSet /\ count \in CountSet /\ active \in ActiveSet
    BY DEF IInv, TypeOK, SeenSet, CountSet, ActiveSet
  <1>2. window[m] \in Profiles /\ active[Robot] = NoProfile
    BY DEF IInv, TypeOK, Hears, OfServers
  <1>3. SeenBy(m) \in SeenSet
    BY <1>1 DEF SeenBy, SeenSet, Limit
  <1>4. CountBy(m) \in CountSet
    BY <1>1 DEF CountBy, CountSet
  <1>5. ActiveWith(m, window[m]) \in ActiveSet
        /\ ActiveWith(m, window[m])[Robot] = NoProfile
    BY <1>1, <1>2 DEF ActiveWith, ActiveSet
  <1>6. QED
    BY <1>1, <1>2, <1>3, <1>4, <1>5

LEMMA ParallelProfileStep ==
  ASSUME IInv, NEW m \in Servers, ProfileInParallel(m)
  PROVE  IInv'
  <1>1. Hears(m) /\ parallel
        /\ seen' \in SeenSet /\ count' \in CountSet
        /\ UNCHANGED <<assign, profiling, parallel, current, cut, switched, window,
                       linked, crashed, requests>>
    BY ProfileTypes DEF ProfileInParallel, world
  <1>2. active' \in ActiveSet /\ active'[Robot] = NoProfile
    BY <1>1, ProfileTypes DEF ProfileInParallel
  <1>3. ready' \in BOOLEAN
    <2>1. ready \in BOOLEAN
      BY DEF IInv, TypeOK
    <2>2. CASE ready' = ready
      BY <2>1, <2>2
    <2>3. ASSUME NEW late \in BOOLEAN,
                 ready' = (ready \/ late \/ Known(active') = Servers)
          PROVE  ready' \in BOOLEAN
      BY <2>3
    <2>4. QED
      BY <2>2, <2>3 DEF ProfileInParallel
  <1>4. ~profiling
    BY <1>1 DEF IInv, Exclusive
  <1>5. TypeOK'
    BY <1>1, <1>2, <1>3 DEF IInv, TypeOK, SeenSet, CountSet, ActiveSet
  <1>6. QED
    BY <1>1, <1>2, <1>4, <1>5
    DEF IInv, Exclusive, OfServers, ProfilesInTurn, SomeOffers, OneOffers, Offering

LEMMA OtherProfileStep ==
  ASSUME IInv, NEW m \in Servers, ProfileOfOther(m)
  PROVE  IInv'
  <1> DEFINE s == ServiceMachine
  <1>1. Hears(m) /\ ~parallel
        /\ UNCHANGED <<parallel, ready, current, window, linked, crashed, requests>>
    BY DEF ProfileOfOther, world
  <1>2. TypeOK /\ SomeOffers(assign) /\ s \in Servers
    BY ServiceMachineOffers DEF IInv, Offering
  <1>3. /\ crashed \in BOOLEAN /\ requests \in 0..MaxRequests
        /\ cut \in SUBSET Servers /\ profiling \in BOOLEAN
    BY DEF IInv, TypeOK
  <1>4. CASE HandleTimeout(seen, count) /\ profiling
    <2>1. /\ cut' = cut \cup {s} /\ active' = active
          /\ SwitchToNext(active, cut \cup {s}, seen, count)
      BY <1>4 DEF HandleTimeout
    <2>2. Moved /\ profiling' = (Servers \ (Known(active) \cup (cut \cup {s})) # {})
      BY <1>1, <1>2, <2>1, ProfileTypes, NextMoves
    <2>3. cut' \in SUBSET Servers
      BY <1>2, <1>3, <2>1
    <2>4. profiling' \in BOOLEAN
      BY <2>2
    <2>5. QED
      BY <1>1, <1>3, <2>1, <2>2, <2>3, <2>4, ProfileTypes, AfterMove
  <1>5. CASE HandleTimeout(seen, count) /\ ~profiling
    <2> DEFINE a == ActiveWith(s, NoProfile)
    <2>1. /\ active' = a /\ cut' = cut /\ profiling' = profiling
          /\ SwitchToBetter(a, {}, seen, count)
      BY <1>5 DEF HandleTimeout
    <2>2. a \in ActiveSet /\ a[Robot] = NoProfile
      BY <1>1, <1>2, ProfileTypes, Constants DEF ActiveWith, ActiveSet
    <2>3. Moved
      BY <1>1, <1>2, <2>1, <2>2, ProfileTypes, BetterMoves
    <2>4. QED
      BY <1>1, <1>3, <1>5, <2>1, <2>2, <2>3, AfterMove
  <1>6. CASE UNCHANGED <<assign, profiling, active, cut, seen, switched, count>>
    <2>1. Moved
      BY <1>2, <1>6 DEF Moved, TypeOK, States, SeenSet, CountSet
    <2>2. QED
      BY <1>1, <1>3, <1>6, <2>1, ProfileTypes, AfterMove
      DEF IInv, ProfilesInTurn
  <1>7. QED
    BY <1>4, <1>5, <1>6 DEF ProfileOfOther, clocks

LEMMA ProfilingStep ==
  ASSUME IInv, NEW m \in Servers, ProfileAtProfiling(m)
  PROVE  IInv'
  <1> DEFINE a == ActiveWith(m, window[m])
  <1>1. Hears(m) /\ ~parallel /\ profiling
        /\ UNCHANGED <<parallel, ready, current, cut, window, linked, crashed, requests>>
    BY DEF ProfileAtProfiling, world
  <1>2. /\ TypeOK /\ SomeOffers(assign)
        /\ crashed \in BOOLEAN /\ requests \in 0..MaxRequests
        /\ cut \in SUBSET Servers
    BY DEF IInv, TypeOK
  <1>3. CASE active' = a /\ SwitchToNext(a, cut, SeenBy(m), CountBy(m))
    <2>1. Moved /\ profiling' = (Servers \ (Known(a) \cup cut) # {})
      BY <1>1, <1>2, <1>3, ProfileTypes, NextMoves
    <2>2. a \in ActiveSet /\ a[Robot] = NoProfile
      BY <1>1, ProfileTypes
    <2>3. profiling' \in BOOLEAN
      BY <2>1
    <2>4. QED
      BY <1>1, <1>2, <1>3, <2>1, <2>2, <2>3, AfterMove
  <1>4. CASE Stay(SeenBy(m), CountBy(m)) /\ UNCHANGED <<profiling, active>>
    <2>1. Moved
      BY <1>1, <1>2, <1>4, ProfileTypes, StayMoves
    <2>2. QED
      BY <1>1, <1>2, <1>4, <2>1, ProfileTypes, AfterMove DEF IInv, TypeOK, ProfilesInTurn
  <1>5. QED
    BY <1>3, <1>4 DEF ProfileAtProfiling

LEMMA RunningStep ==
  ASSUME IInv, NEW m \in Servers, ProfileAtRunning(m)
  PROVE  IInv'
  <1>1. Hears(m) /\ ~profiling
        /\ UNCHANGED <<profiling, parallel, ready, current, active, cut, window,
                       linked, crashed, requests>>
    BY DEF ProfileAtRunning, modes, world
  <1>2. /\ TypeOK /\ SomeOffers(assign)
        /\ crashed \in BOOLEAN /\ requests \in 0..MaxRequests
        /\ cut \in SUBSET Servers /\ profiling \in BOOLEAN
    BY DEF IInv, TypeOK
  <1>3. CASE SwitchToBetter(active, {m}, SeenBy(m), CountBy(m))
    BY <1>1, <1>2, <1>3, ProfileTypes, BetterMoves, AfterMove
  <1>4. CASE Stay(SeenBy(m), CountBy(m))
    BY <1>1, <1>2, <1>4, ProfileTypes, StayMoves, AfterMove
  <1>5. QED
    BY <1>3, <1>4 DEF ProfileAtRunning

LEMMA RequestTypes ==
  ASSUME IInv, Request
  PROVE  requests' \in 0..MaxRequests
  BY Constants DEF IInv, TypeOK, Request

LEMMA StartProfilingStep ==
  ASSUME IInv, StartProfiling
  PROVE  IInv'
  <1> DEFINE a == [m \in Machines |-> NoProfile]
  <1>1. /\ ~parallel /\ active' = a /\ cut' = {} /\ requests' \in 0..MaxRequests
        /\ SwitchToNext(a, {}, seen, count)
        /\ UNCHANGED <<parallel, ready, current, window, linked, crashed>>
    BY RequestTypes DEF StartProfiling, world
  <1>2. /\ TypeOK /\ SomeOffers(assign) /\ crashed \in BOOLEAN
        /\ seen \in SeenSet /\ count \in CountSet
    BY DEF IInv, TypeOK, SeenSet, CountSet
  <1>3. a \in ActiveSet /\ a[Robot] = NoProfile
    BY Constants DEF ActiveSet
  <1>4. Moved /\ profiling' = (Servers \ (Known(a) \cup {}) # {})
    BY <1>1, <1>2, <1>3, NextMoves
  <1>5. profiling' \in BOOLEAN /\ {} \in SUBSET Servers
    BY <1>4
  <1>6. QED
    BY <1>1, <1>2, <1>3, <1>4, <1>5, AfterMove

LEMMA StartParallelStep ==
  ASSUME IInv, StartParallel
  PROVE  IInv'
  <1>1. /\ ~profiling /\ requests' \in 0..MaxRequests
        /\ current' = ServiceMachine /\ parallel' = TRUE /\ ready' = FALSE
        /\ active' = [m \in Machines |-> NoProfile]
        /\ assign' = [m \in Machines |-> IF m = Robot THEN "robot" ELSE "service"]
        /\ UNCHANGED <<profiling, cut, seen, switched, count, window, linked, crashed>>
    BY RequestTypes DEF StartParallel, world, clocks
  <1>2. ServiceMachine \in Servers
    BY ServiceMachineOffers DEF IInv, Offering
  <1>3. TypeOK'
    BY <1>1, <1>2 DEF IInv, TypeOK
  <1>4. SomeOffers(assign')
    BY <1>1, Constants DEF SomeOffers, Offering
  <1>5. Exclusive' /\ OfServers' /\ ProfilesInTurn'
    BY <1>1, Constants DEF Exclusive, OfServers, ProfilesInTurn
  <1>6. QED
    BY <1>1, <1>3, <1>4, <1>5 DEF IInv, SomeOffers, Offering

LEMMA EndParallelStep ==
  ASSUME IInv, EndParallel
  PROVE  IInv'
  <1>1. /\ parallel /\ parallel' = FALSE /\ requests' \in 0..MaxRequests
        /\ UNCHANGED <<profiling, ready, current, active, cut, seen, switched, count,
                       window, linked, crashed>>
    BY RequestTypes DEF EndParallel, world, clocks
  <1>2. PICK b \in IF Better(active, {}) = {} THEN {current} ELSE Better(active, {}) :
          assign' = [m \in Machines |-> IF m = Robot THEN "robot"
                                        ELSE IF m = b THEN "service" ELSE "standby"]
    BY DEF EndParallel
  <1>3. b \in Servers
    BY <1>2, BetterAreServers DEF IInv, OfServers, TypeOK
  <1>4. TypeOK'
    BY <1>1, <1>2 DEF IInv, TypeOK
  <1>5. Offering(assign') = {b} /\ assign'[Robot] = "robot"
    BY <1>2, <1>3, Constants DEF Offering
  <1>6. Exclusive' /\ OfServers' /\ ProfilesInTurn'
    BY <1>1 DEF IInv, Exclusive, OfServers, ProfilesInTurn
  <1>7. SomeOffers(assign') /\ OneOffers(assign')
    BY <1>3, <1>5 DEF SomeOffers, OneOffers
  <1>8. QED
    BY <1>4, <1>6, <1>7 DEF IInv, SomeOffers, OneOffers, Offering

LEMMA GetBestStep ==
  ASSUME IInv, GetBest
  PROVE  IInv'
  <1>1. /\ requests' \in 0..MaxRequests
        /\ UNCHANGED <<profiling, parallel, ready, current, active, cut, window, linked>>
    BY RequestTypes DEF GetBest, modes, world
  <1>2. /\ TypeOK /\ SomeOffers(assign) /\ crashed \in BOOLEAN
        /\ seen \in SeenSet /\ count \in CountSet
        /\ active \in ActiveSet /\ active[Robot] = NoProfile
        /\ cut \in SUBSET Servers /\ profiling \in BOOLEAN
        /\ ~(profiling /\ parallel)
        /\ (profiling => Servers \ (Known(active) \cup cut) # {})
    BY DEF IInv, TypeOK, SeenSet, CountSet, ActiveSet, OfServers, Exclusive,
       ProfilesInTurn
  <1>3. CASE crashed' = TRUE /\ UNCHANGED <<assign, seen, switched, count>>
    <2>1. Moved
      BY <1>2, <1>3 DEF Moved, TypeOK, States, SeenSet, CountSet
    <2>2. QED
      BY <1>1, <1>2, <1>3, <2>1, AfterMove
  <1>4. CASE SwitchToBetter(active, {}, seen, count) /\ crashed' = crashed
    <2>1. Moved
      BY <1>2, <1>4, BetterMoves
    <2>2. QED
      BY <1>1, <1>2, <1>4, <2>1, AfterMove
  <1>5. QED
    BY <1>3, <1>4 DEF GetBest, clocks

\* The world changes nothing of the scheduler but its clocks.
LEMMA WorldStep ==
  ASSUME IInv,
         \/ \E m \in Servers, p \in Profiles : Measure(m, p)
         \/ \E m \in Servers : Disconnect(m)
         \/ Tick
  PROVE  IInv'
  <1> USE Constants
  <1>1. UNCHANGED <<assign, profiling, parallel, ready, current, active, cut,
                    crashed, requests, count>>
    BY DEF Measure, Disconnect, Tick, modes, clocks
  <1>2. window' \in [Machines -> Profiles \cup {NoProfile}] /\ linked' \in SUBSET Servers
    BY DEF IInv, TypeOK, Measure, Disconnect, Tick, world
  <1>3. seen' \in [Machines -> 0..Limit \cup {Never}] /\ switched' \in [Machines -> 0..Limit]
    <2>1. /\ seen \in [Machines -> 0..Limit \cup {Never}]
          /\ switched \in [Machines -> 0..Limit]
      BY DEF IInv, TypeOK
    <2>2. CASE UNCHANGED <<seen, switched>>
      BY <2>1, <2>2
    <2>3. CASE Tick
      <3>1. \A x \in 0..Limit \cup {Never} : Older(x) \in 0..Limit \cup {Never}
        BY DEF Older, Limit
      <3>2. \A x \in 0..Limit : Older(x) \in 0..Limit
        BY DEF Older, Limit
      <3>3. QED
        BY <2>1, <2>3, <3>1, <3>2 DEF Tick
    <2>4. QED
      BY <2>2, <2>3 DEF Measure, Disconnect, clocks
  <1>4. TypeOK'
    BY <1>1, <1>2, <1>3 DEF IInv, TypeOK
  <1>5. QED
    BY <1>1, <1>4
    DEF IInv, SomeOffers, OneOffers, Offering, Exclusive, OfServers, ProfilesInTurn, Known

LEMMA InitIInv == Init => IInv
  <1> SUFFICES ASSUME Init PROVE IInv
    OBVIOUS
  <1> USE Constants
  <1>1. TypeOK
    <2>1. 0 \in 0..Limit /\ 0 \in 0..Skip /\ 0 \in 0..MaxRequests
      BY DEF Limit
    <2>2. QED
      BY <2>1 DEF Init, TypeOK, Servers
  <1>2. Offering(assign) = {First} /\ assign[Robot] = "robot"
    BY DEF Init, Offering
  <1>3. SomeOffers(assign) /\ OneOffers(assign)
    BY <1>2 DEF SomeOffers, OneOffers
  <1>4. Exclusive /\ OfServers /\ ProfilesInTurn
    BY DEF Init, Exclusive, OfServers, ProfilesInTurn
  <1>5. QED
    BY <1>1, <1>3, <1>4 DEF IInv

LEMMA StepIInv == IInv /\ [Next]_vars => IInv'
  <1> SUFFICES ASSUME IInv, [Next]_vars PROVE IInv'
    OBVIOUS
  <1>1. ASSUME NEW m \in Servers, ProfileCallback(m) PROVE IInv'
    BY <1>1, ParallelProfileStep, OtherProfileStep, ProfilingStep, RunningStep
    DEF ProfileCallback
  <1>2. CASE StartProfiling
    BY <1>2, StartProfilingStep
  <1>3. CASE StartParallel
    BY <1>3, StartParallelStep
  <1>4. CASE EndParallel
    BY <1>4, EndParallelStep
  <1>5. CASE GetBest
    BY <1>5, GetBestStep
  <1>6. CASE \/ \E m \in Servers, p \in Profiles : Measure(m, p)
             \/ \E m \in Servers : Disconnect(m)
             \/ Tick
    BY <1>6, WorldStep
  <1>7. CASE UNCHANGED vars
    BY <1>7 DEF vars, modes, clocks, world, IInv, TypeOK, SomeOffers, OneOffers,
       Offering, Exclusive, OfServers, ProfilesInTurn, Known
  <1>8. QED
    BY <1>1, <1>2, <1>3, <1>4, <1>5, <1>6, <1>7 DEF Next

-----------------------------------------------------------------------------

\* Every reachable state of the scheduler has the declared types: the clocks
\* never mix up the time of a switch with that of a connection.
THEOREM TypeCorrect == Spec => []TypeOK
  <1>1. IInv => TypeOK
    BY DEF IInv
  <1>2. QED
    BY <1>1, InitIInv, StepIInv, PTL DEF Spec

\* The service is on exactly one server unless all are profiled in parallel, then
\* on one at least, and never on the robot.
THEOREM ServiceOnOneMachine == Spec => []OneService
  <1>1. IInv => OneService
    <2> SUFFICES ASSUME IInv PROVE OneService
      OBVIOUS
    <2>1. assign[Robot] = "robot" /\ \E m \in Servers : assign[m] = "service"
      BY DEF IInv, SomeOffers, Offering
    <2>2. ASSUME ~parallel
          PROVE  Cardinality({m \in Servers : assign[m] = "service"}) = 1
      <3>1. PICK m \in Servers : Offering(assign) = {m}
        BY <2>2 DEF IInv, OneOffers
      <3>2. {x \in Servers : assign[x] = "service"} = {m}
        BY <3>1 DEF Offering
      <3>3. QED
        BY <3>2, FS_Singleton
    <2>3. QED
      BY <2>1, <2>2 DEF OneService
  <1>2. QED
    BY <1>1, InitIInv, StepIInv, PTL DEF Spec

\* As long as machines are profiled in turn, some server is neither profiled nor
\* given up, so profiling is never stuck with nothing left to try.
THEOREM ProfilingHasNext == Spec => []ProfilesInTurn
  <1>1. IInv => ProfilesInTurn
    BY DEF IInv
  <1>2. QED
    BY <1>1, InitIInv, StepIInv, PTL DEF Spec
=============================================================================
