--------------------------- MODULE PolicyScheduler ---------------------------
(***************************************************************************)
(* The policy scheduler of a robot, with the profiles that its time bound  *)
(* analyzer publishes.                                                     *)
(*                                                                         *)
(* One machine at a time offers the service.  The scheduler hears how well *)
(* it does, and moves the service to another machine when the profile is   *)
(* out of bounds or when it takes the machine for disconnected.  Profiling *)
(* tries all machines one after the other, parallel profiling all at once. *)
(* The callbacks run one at a time.                                        *)
(*                                                                         *)
(* A profile is whether it is within the bounds, and its maximal latency.  *)
(* The analyzer publishes only profiles of actual latencies, so a median   *)
(* of -1 does not occur.  Time is counted in ticks of half of              *)
(* MAX_ALLOWED_DISCONNCTED_TIME, from the last time an event happened.     *)
(***************************************************************************)
EXTENDS Naturals, FiniteSets, Sequences, SequencesExt

CONSTANTS
  Order,        \* the machines of the configuration, in its order
  Robot,        \* the machine that is the robot
  First,        \* the machine that offers the service at the start
  Profiles,     \* profiles: [ok : BOOLEAN, max : Nat]
  NoProfile,
  Never,
  Skip,         \* TOTAL_THROW_AWAY_PROFILES (6)
  AutoSwitch,   \* the parameter automatic_switching
  MaxRequests,  \* bound: requests to the scheduler's services
  MaxLosses     \* bound: machines that get disconnected

Machines == ToSet(Order)
Servers  == Machines \ {Robot}
Limit    == 2

ASSUME SchedulerAssumption ==
  /\ Order \in Seq(Machines)
  /\ Robot \in Machines
  /\ First \in Servers
  /\ Profiles \subseteq [ok : BOOLEAN, max : Nat]
  /\ NoProfile \notin Profiles
  /\ Never \notin Nat
  /\ Skip \in Nat \ {0}
  /\ AutoSwitch \in BOOLEAN
  /\ MaxRequests \in Nat
  /\ MaxLosses \in Nat

VARIABLES
  assign,     \* assignment_dict
  profiling,  \* is_doing_profiling
  parallel,   \* is_doing_parallel_profiling
  ready,      \* is_parallel_profiling_ready
  active,     \* active_profiling_result, NoProfile for a machine not in it
  cut,        \* active_profiling_disconnected_list
  seen,       \* ticks since last_connected_time, or Never
  switched,   \* ticks since last_switched_time
  count,      \* num_profiles_after_connected
  current,    \* current_active_service_machine
  window,     \* the analyzer's newest profile of each machine
  linked,     \* machines that can be reached
  crashed,    \* an exception ended the node
  requests    \* requests so far

clocks == <<seen, switched, count>>
modes == <<profiling, parallel, ready, current>>
world == <<window, linked>>
vars == <<assign, modes, active, cut, clocks, world, crashed, requests>>

Init ==
  /\ assign = [m \in Machines |-> IF m = Robot THEN "robot"
                                  ELSE IF m = First THEN "service" ELSE "standby"]
  /\ profiling = FALSE
  /\ parallel = FALSE
  /\ ready = FALSE
  /\ active = [m \in Machines |-> NoProfile]
  /\ cut = {}
  /\ seen = [m \in Machines |-> Never]
  /\ switched = [m \in Machines |-> 0]
  /\ count = [m \in Machines |-> 0]
  /\ current = First
  /\ window = [m \in Machines |-> NoProfile]
  /\ linked = Servers
  /\ crashed = FALSE
  /\ requests = 0

-----------------------------------------------------------------------------

\* The first machine of the configuration that is in state "service".
ServiceMachine ==
  CHOOSE m \in Machines :
    /\ assign[m] = "service"
    /\ \A k \in Machines : assign[k] = "service"
                             => SelectInSeq(Order, LAMBDA x : x = m)
                                  <= SelectInSeq(Order, LAMBDA x : x = k)

Known(act) == {m \in Machines : act[m] # NoProfile}

Fastest(act, ms) == {m \in ms : \A k \in ms : act[m].max <= act[k].max}

\* get_a_machine_with_better_profile, one of these, or None when there is none.
Better(act, excluded) ==
  LET known  == Known(act) \ excluded
      passed == {m \in known : act[m].ok} IN
    IF passed # {} THEN Fastest(act, passed) ELSE Fastest(act, known)

\* SGC_Service.check_timeout
TimedOut(m, sn) == IF sn[m] = Never THEN switched[m] >= Limit ELSE sn[m] >= Limit

\* Mutant of SwitchTo: the old machine goes on.
SwitchAndKeep(m, sn, ct) ==
  /\ assign' = [assign EXCEPT ![m] = "service"]
  /\ seen' = [sn EXCEPT ![m] = Never]
  /\ count' = [ct EXCEPT ![m] = 0]
  /\ switched' = [switched EXCEPT ![m] = 0]

\* Mutant of SwitchTo: the time of the switch becomes that of no connection.
SwitchAndForget(m, sn, ct) ==
  LET old == ServiceMachine IN
    /\ assign' = [assign EXCEPT ![old] = "standby", ![m] = "service"]
    /\ seen' = [sn EXCEPT ![old] = Never, ![m] = Never]
    /\ count' = [ct EXCEPT ![old] = 0, ![m] = 0]
    /\ switched' = [switched EXCEPT ![old] = Never, ![m] = Never]

\* _switch_to_machine, after seen and count have become sn and ct.
SwitchTo(m, sn, ct) ==
  LET old == ServiceMachine IN
    IF m = old
    THEN /\ seen' = sn
         /\ count' = ct
         /\ UNCHANGED <<assign, switched>>
    ELSE /\ assign' = [assign EXCEPT ![old] = "standby", ![m] = "service"]
         /\ seen' = [sn EXCEPT ![old] = Never, ![m] = Never]
         /\ count' = [ct EXCEPT ![old] = 0, ![m] = 0]
         /\ switched' = [switched EXCEPT ![old] = 0, ![m] = 0]

Stay(sn, ct) == SwitchTo(ServiceMachine, sn, ct)

SwitchToBetter(act, excluded, sn, ct) ==
  IF Better(act, excluded) = {} THEN Stay(sn, ct)
  ELSE \E m \in Better(act, excluded) : SwitchTo(m, sn, ct)

\* Mutant of SwitchToNext: the flag is not cleared after the last machine.
SwitchToNextOnAndOn(act, off, sn, ct) ==
  LET left  == Servers \ (Known(act) \cup off)
      other == left \ {ServiceMachine} IN
    /\ profiling' = TRUE
    /\ IF left = {} THEN SwitchToBetter(act, {}, sn, ct)
       ELSE IF other = {} THEN Stay(sn, ct)
       ELSE \E m \in other : SwitchTo(m, sn, ct)

\* _switch_to_next_unprofiled_machine
SwitchToNext(act, off, sn, ct) ==
  LET left  == Servers \ (Known(act) \cup off)
      other == left \ {ServiceMachine} IN
    /\ profiling' = (left # {})
    /\ IF left = {} THEN SwitchToBetter(act, {}, sn, ct)
       ELSE IF other = {} THEN Stay(sn, ct)
       ELSE \E m \in other : SwitchTo(m, sn, ct)

-----------------------------------------------------------------------------
(* profile_topic_callback: the analyzer's profile of machine m.            *)

Hears(m) ==
  /\ ~crashed
  /\ window[m] # NoProfile

\* SGC_Service.update; more than Skip profiles make no difference.
SeenBy(m)  == [seen EXCEPT ![m] = 0]
CountBy(m) == [count EXCEPT ![m] = IF @ < Skip THEN @ + 1 ELSE @]

ActiveWith(m, p) == [active EXCEPT ![m] = p]

\* All servers are known, or 50 ms are over.
ProfileInParallel(m) ==
  /\ Hears(m)
  /\ parallel
  /\ seen' = SeenBy(m)
  /\ count' = CountBy(m)
  /\ IF CountBy(m)[m] >= Skip
     THEN /\ active' = ActiveWith(m, window[m])
          /\ \E late \in BOOLEAN :
               ready' = (ready \/ late \/ Known(active') = Servers)
     ELSE UNCHANGED <<active, ready>>
  /\ UNCHANGED <<assign, profiling, parallel, current, cut, switched, world,
                 crashed, requests>>

\* Mutant of HandleTimeout: a machine that is given up while profiling is tried
\* again.
HandleTimeoutAgain(sn, ct) ==
  LET s == ServiceMachine IN
    IF profiling
    THEN /\ SwitchToNext(active, cut, sn, ct)
         /\ UNCHANGED <<active, cut>>
    ELSE /\ active' = ActiveWith(s, NoProfile)
         /\ SwitchToBetter(ActiveWith(s, NoProfile), {}, sn, ct)
         /\ UNCHANGED <<cut, profiling>>

\* _handle_timeout, for the machine that offers the service.
HandleTimeout(sn, ct) ==
  LET s == ServiceMachine IN
    IF profiling
    THEN /\ cut' = cut \cup {s}
         /\ SwitchToNext(active, cut \cup {s}, sn, ct)
         /\ UNCHANGED active
    ELSE /\ active' = ActiveWith(s, NoProfile)
         /\ SwitchToBetter(ActiveWith(s, NoProfile), {}, sn, ct)
         /\ UNCHANGED <<cut, profiling>>

\* A profile of another machine is only the occasion to look at the clock.
ProfileOfOther(m) ==
  /\ Hears(m)
  /\ ~parallel
  /\ m # ServiceMachine
  /\ IF TimedOut(ServiceMachine, seen)
     THEN HandleTimeout(seen, count)
     ELSE UNCHANGED <<assign, profiling, active, cut, clocks>>
  /\ UNCHANGED <<parallel, ready, current, world, crashed, requests>>

\* A profile of the service machine while all are profiled: the first ones are
\* thrown away.
ProfileAtProfiling(m) ==
  /\ Hears(m)
  /\ ~parallel
  /\ m = ServiceMachine
  /\ profiling
  /\ IF CountBy(m)[m] >= Skip
     THEN /\ active' = ActiveWith(m, window[m])
          /\ SwitchToNext(ActiveWith(m, window[m]), cut, SeenBy(m), CountBy(m))
     ELSE /\ Stay(SeenBy(m), CountBy(m))
          /\ UNCHANGED <<profiling, active>>
  /\ UNCHANGED <<parallel, ready, current, cut, world, crashed, requests>>

ProfileAtRunning(m) ==
  /\ Hears(m)
  /\ ~parallel
  /\ m = ServiceMachine
  /\ ~profiling
  /\ IF ~window[m].ok /\ AutoSwitch
     THEN SwitchToBetter(active, {m}, SeenBy(m), CountBy(m))
     ELSE Stay(SeenBy(m), CountBy(m))
  /\ UNCHANGED <<modes, active, cut, world, crashed, requests>>

ProfileCallback(m) ==
  \/ ProfileInParallel(m)
  \/ ProfileOfOther(m)
  \/ ProfileAtProfiling(m)
  \/ ProfileAtRunning(m)

-----------------------------------------------------------------------------
(* The services of the scheduler.                                          *)

Request ==
  /\ ~crashed
  /\ requests < MaxRequests
  /\ requests' = requests + 1

\* sgc_profiling_optimizer_callback
StartProfiling ==
  /\ Request
  /\ ~profiling /\ ~parallel
  /\ active' = [m \in Machines |-> NoProfile]
  /\ cut' = {}
  /\ SwitchToNext([m \in Machines |-> NoProfile], {}, seen, count)
  /\ UNCHANGED <<parallel, ready, current, world, crashed>>

\* sgc_parallel_profiling_callback: no clock and no count is reset.
StartParallel ==
  /\ Request
  /\ ~profiling /\ ~parallel
  /\ current' = ServiceMachine
  /\ parallel' = TRUE
  /\ ready' = FALSE
  /\ active' = [m \in Machines |-> NoProfile]
  /\ assign' = [m \in Machines |-> IF m = Robot THEN "robot" ELSE "service"]
  /\ UNCHANGED <<profiling, cut, clocks, world, crashed>>

\* sgc_parallel_profiling_best_callback
EndParallel ==
  /\ Request
  /\ ready /\ parallel
  /\ parallel' = FALSE
  /\ \E b \in IF Better(active, {}) = {} THEN {current} ELSE Better(active, {}) :
       assign' = [m \in Machines |-> IF m = Robot THEN "robot"
                                     ELSE IF m = b THEN "service" ELSE "standby"]
  /\ UNCHANGED <<profiling, ready, current, active, cut, clocks, world, crashed>>

\* get_machine_with_better_profile_callback: without a result it looks up the
\* machine None, and the exception ends the node.
GetBest ==
  /\ Request
  /\ IF Better(active, {}) = {}
     THEN crashed' = TRUE /\ UNCHANGED <<assign, clocks>>
     ELSE SwitchToBetter(active, {}, seen, count) /\ UNCHANGED crashed
  /\ UNCHANGED <<modes, active, cut, world>>

-----------------------------------------------------------------------------
(* The world.                                                              *)

\* latency_topic_callback and stats_timer_callback: latencies of a machine that
\* can be reached and offers the service come in, and a profile of the newest
\* ones is published from then on, also when no more latencies come.
Measure(m, p) ==
  /\ m \in linked
  /\ assign[m] = "service"
  /\ window' = [window EXCEPT ![m] = p]
  /\ UNCHANGED <<assign, modes, active, cut, clocks, linked, crashed, requests>>

Disconnect(m) ==
  /\ m \in linked
  /\ Cardinality(Servers \ linked) < MaxLosses
  /\ linked' = linked \ {m}
  /\ UNCHANGED <<assign, modes, active, cut, clocks, window, crashed, requests>>

Older(n) == IF n = Never \/ n = Limit THEN n ELSE n + 1

Tick ==
  /\ seen' = [m \in Machines |-> Older(seen[m])]
  /\ switched' = [m \in Machines |-> Older(switched[m])]
  /\ UNCHANGED <<assign, modes, active, cut, count, world, crashed, requests>>

Next ==
  \/ \E m \in Servers : ProfileCallback(m)
  \/ StartProfiling
  \/ StartParallel
  \/ EndParallel
  \/ GetBest
  \/ \E m \in Servers, p \in Profiles : Measure(m, p)
  \/ \E m \in Servers : Disconnect(m)
  \/ Tick

Spec == Init /\ [][Next]_vars

\* Time passes, and the analyzer's timer publishes every profile it has again
\* and again.
Fairness == WF_vars(Tick) /\ \A m \in Servers : WF_vars(ProfileCallback(m))

FairSpec == Spec /\ Fairness

-----------------------------------------------------------------------------
(* Properties.                                                             *)

\* Every variable has the type its declaration gives it.
TypeOK ==
  /\ assign \in [Machines -> {"robot", "service", "standby"}]
  /\ {profiling, parallel, ready, crashed} \subseteq BOOLEAN
  /\ active \in [Machines -> Profiles \cup {NoProfile}]
  /\ cut \subseteq Servers
  /\ seen \in [Machines -> 0..Limit \cup {Never}]
  /\ switched \in [Machines -> 0..Limit]
  /\ count \in [Machines -> 0..Skip]
  /\ current \in Servers
  /\ window \in [Machines -> Profiles \cup {NoProfile}]
  /\ linked \subseteq Servers
  /\ requests \in 0..MaxRequests

\* Whatever requests, profiles and timeouts come in whatever order, the service
\* is on exactly one machine except while all are profiled in parallel, and
\* never on the robot.
OneService ==
  /\ assign[Robot] = "robot"
  /\ \E m \in Servers : assign[m] = "service"
  /\ ~parallel => Cardinality({m \in Servers : assign[m] = "service"}) = 1

\* Profiling one by one goes on only while there is a machine that is neither
\* profiled nor given up, though requests and timeouts move the service in
\* between: the node does not stay in this mode, which refuses other requests.
ProfilesInTurn ==
  profiling => Servers \ (Known(active) \cup cut) # {}

\* Profiling comes to an end, also when machines are disconnected, as long as
\* the profile of some machine is there to make the scheduler look.
ProfilingEnds ==
  (profiling /\ \E m \in Servers : window[m] # NoProfile) ~> (~profiling \/ crashed)
=============================================================================
