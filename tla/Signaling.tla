------------------------------ MODULE Signaling ------------------------------
(***************************************************************************)
(* The signaling server, over which routers that send and routers that     *)
(* receive a topic exchange the addresses they can be reached at.          *)
(*                                                                         *)
(* Every connection to the server carries one request and has a task of    *)
(* its own.  A PUBLISH appends a candidate to the topic's log and          *)
(* broadcasts it; a SUBSCRIBE writes the log to the connection and then    *)
(* whatever is broadcast.  Every topic has a task that cleans up its log   *)
(* every 10 seconds.  The map of the topics is under a mutex, which a      *)
(* publisher keeps until it is done and a subscriber lets go at once.      *)
(*                                                                         *)
(* Time is counted in the 10 seconds of the cleanup tasks: an entry has    *)
(* the age of the ticks since it was pushed, and one of age n is at least  *)
(* n - 1 intervals old.  A cleanup task does its work before the next tick,*)
(* and nobody waits a whole interval for the lock of a log.                *)
(***************************************************************************)
EXTENDS Naturals, Sequences, SequencesExt

CONSTANTS
  Topics,
  Pubs,       \* connections that PUBLISH; each has a candidate of its own
  Subs,       \* connections that SUBSCRIBE
  TopicOf,    \* [Pubs \cup Subs -> Topics]
  Garbled,    \* bound: requests that may arrive in parts or not at all
  Leaving,    \* bound: subscribers that may hang up
  Expiry,     \* ticks for which an entry is younger than 60 seconds (6)
  Cap,        \* capacity of a topic's broadcast channel (100)
  MaxTicks,   \* bound: ticks of the clock
  NoConn

Conns == Pubs \cup Subs

ASSUME SignalingAssumption ==
  /\ Pubs \cap Subs = {}
  /\ TopicOf \in [Conns -> Topics]
  /\ Garbled \subseteq Conns
  /\ Leaving \subseteq Subs
  /\ {Expiry, Cap} \subseteq Nat \ {0}
  /\ MaxTicks \in Nat
  /\ NoConn \notin Conns

VARIABLES
  topics,     \* topics in the map
  lock,       \* the publisher that holds the map's mutex, or NoConn
  log,        \* [Topics -> sequence of [cand, age]]
  task,       \* topics whose cleanup task runs
  due,        \* topics whose cleanup task has a tick to handle
  phase,      \* [Conns -> where the connection's task is]
  rx,         \* [Subs -> broadcasts the subscriber has not received yet]
  lagged,     \* subscribers that have lost a broadcast
  told,       \* [Subs -> sequence of the candidates written to it]
  gone,       \* subscribers whose client has hung up
  published,  \* sequence of the candidates in the order of their publication
  ticks       \* ticks so far

vars == <<topics, lock, log, task, due, phase, rx, lagged, told, gone,
          published, ticks>>

Init ==
  /\ topics = {}
  /\ lock = NoConn
  /\ log = [t \in Topics |-> <<>>]
  /\ task = {}
  /\ due = {}
  /\ phase = [c \in Conns |-> "sent"]
  /\ rx = [s \in Subs |-> <<>>]
  /\ lagged = {}
  /\ told = [s \in Subs |-> <<>>]
  /\ gone = {}
  /\ published = <<>>
  /\ ticks = 0

Goes(c, from, to) ==
  /\ phase[c] = from
  /\ phase' = [phase EXCEPT ![c] = to]

\* sender.receiver_count() > 0 says that there is one.
Receivers(t) == {s \in Subs : TopicOf[s] = t /\ phase[s] \in {"listening", "live"}}

-----------------------------------------------------------------------------
(* handle_client                                                           *)

\* The request is empty, or the first read has a part of it only: the task ends
\* and the connection with it.
Reject(c) ==
  /\ c \in Garbled
  /\ Goes(c, "sent", "done")
  /\ UNCHANGED <<topics, lock, log, task, due, rx, told, gone, lagged, published, ticks>>

\* Topic::new for a topic the map does not have, with its cleanup task, whose
\* first tick comes at once.
FindTopic(t) ==
  /\ lock = NoConn
  /\ topics' = topics \cup {t}
  /\ task' = IF t \in topics THEN task ELSE task \cup {t}
  /\ due' = IF t \in topics THEN due ELSE due \cup {t}

StartPublish(p) ==
  /\ FindTopic(TopicOf[p])
  /\ lock' = p
  /\ Goes(p, "sent", "locked")
  /\ UNCHANGED <<log, rx, told, gone, lagged, published, ticks>>

\* Mutant of Broadcast: no broadcast is dropped for a slow subscriber.
BroadcastUnbounded(t, p) ==
  /\ rx' = [s \in Subs |-> IF s \in Receivers(t) THEN Append(rx[s], p) ELSE rx[s]]
  /\ UNCHANGED lagged

\* Mutant of Broadcast: the whole log goes out each time.
BroadcastLog(t, p) ==
  /\ rx' = [s \in Subs |->
              IF s \notin Receivers(t) THEN rx[s]
              ELSE rx[s] \o [i \in 1..Len(log[t]) |-> log[t][i].cand] \o <<p>>]
  /\ UNCHANGED lagged

\* A subscriber that is Cap broadcasts behind loses the oldest one; recv then
\* fails once, and the loop goes on.
Broadcast(t, p) ==
  /\ lagged' = lagged \cup {s \in Receivers(t) : Len(rx[s]) = Cap}
  /\ rx' = [s \in Subs |->
              IF s \notin Receivers(t) THEN rx[s]
              ELSE IF Len(rx[s]) < Cap THEN Append(rx[s], p)
              ELSE Append(Tail(rx[s]), p)]

FinishPublish(p) ==
  /\ Goes(p, "locked", "done")
  /\ log' = [log EXCEPT ![TopicOf[p]] = Append(@, [cand |-> p, age |-> 0])]
  /\ Broadcast(TopicOf[p], p)
  /\ published' = Append(published, p)
  /\ lock' = NoConn
  /\ UNCHANGED <<topics, task, due, told, gone, ticks>>

StartSubscribe(s) ==
  /\ FindTopic(TopicOf[s])
  /\ Goes(s, "sent", "found")
  /\ UNCHANGED <<lock, log, rx, told, gone, lagged, published, ticks>>

-----------------------------------------------------------------------------
(* Topic::subscribe: receive broadcasts first, then copy the log.          *)

Listen(s) ==
  /\ Goes(s, "found", "listening")
  /\ UNCHANGED <<topics, lock, log, task, due, rx, told, gone, lagged, published, ticks>>

\* A write to a client that has hung up fails, now or later.
Write(s, from, cs) ==
  \/ /\ Goes(s, from, "live")
     /\ told' = [told EXCEPT ![s] = @ \o cs]
  \/ /\ s \in gone
     /\ cs # <<>>
     /\ Goes(s, from, "done")
     /\ UNCHANGED told

\* Mutant of WriteLog: the newest entry first.
WriteLogBackwards(s) ==
  LET t == TopicOf[s] IN
    /\ Write(s, "listening", Reverse([i \in 1..Len(log[t]) |-> log[t][i].cand]))
    /\ UNCHANGED <<topics, lock, log, task, due, rx, gone, lagged, published, ticks>>

\* Mutant of WriteLog: a subscriber hears the broadcasts only.
WriteNoLog(s) ==
  /\ Write(s, "listening", <<>>)
  /\ UNCHANGED <<topics, lock, log, task, due, rx, gone, lagged, published, ticks>>

WriteLog(s) ==
  LET t == TopicOf[s] IN
    /\ Write(s, "listening", [i \in 1..Len(log[t]) |-> log[t][i].cand])
    /\ UNCHANGED <<topics, lock, log, task, due, rx, gone, lagged, published, ticks>>

Relay(s) ==
  /\ rx[s] # <<>>
  /\ Write(s, "live", <<Head(rx[s])>>)
  /\ rx' = [rx EXCEPT ![s] = Tail(@)]
  /\ UNCHANGED <<topics, lock, log, task, due, gone, lagged, published, ticks>>

HangUp(s) ==
  /\ s \in Leaving \ gone
  /\ gone' = gone \cup {s}
  /\ UNCHANGED <<topics, lock, log, task, due, phase, rx, told, lagged, published, ticks>>

-----------------------------------------------------------------------------
(* The cleanup task.  It ends when it finds nothing to clean and nobody     *)
(* listening; the topic stays in the map and is never cleaned again.       *)

Young(e) == e.age <= Expiry

\* retain: the young entries stay, in their order.
Cleanup(t) ==
  LET young == {i \in 1..Len(log[t]) : Young(log[t][i])} IN
    /\ t \in due
    /\ due' = due \ {t}
    /\ \E h \in Bijection(1..Cardinality(young), young) :
         /\ \A i, j \in 1..Cardinality(young) : i < j => h[i] < h[j]
         /\ log' = [log EXCEPT ![t] = [i \in 1..Cardinality(young) |-> log[t][h[i]]]]
    /\ task' = IF young = {} /\ Receivers(t) = {} THEN task \ {t} ELSE task
    /\ UNCHANGED <<topics, lock, phase, rx, told, gone, lagged, published, ticks>>

Tick ==
  /\ ticks < MaxTicks
  /\ due = {}
  /\ lock = NoConn
  /\ \A s \in Subs : phase[s] # "listening"
  /\ ticks' = ticks + 1
  /\ due' = task
  /\ log' = [t \in Topics |-> [i \in 1..Len(log[t]) |->
               [log[t][i] EXCEPT !.age = @ + 1]]]
  /\ UNCHANGED <<topics, lock, task, phase, rx, told, gone, lagged, published>>

-----------------------------------------------------------------------------

Next ==
  \/ \E c \in Conns : Reject(c)
  \/ \E p \in Pubs : StartPublish(p) \/ FinishPublish(p)
  \/ \E s \in Subs : \/ StartSubscribe(s)
                     \/ Listen(s)
                     \/ WriteLog(s)
                     \/ Relay(s)
                     \/ HangUp(s)
  \/ \E t \in Topics : Cleanup(t)
  \/ Tick

Spec == Init /\ [][Next]_vars

\* The tasks of the server go on while they can, and the mutex is fair.
Fairness ==
  /\ \A p \in Pubs : WF_vars(FinishPublish(p))
  /\ \A s \in Subs : /\ WF_vars(Listen(s))
                     /\ WF_vars(WriteLog(s))
                     /\ WF_vars(Relay(s))

FairSpec == Spec /\ Fairness

-----------------------------------------------------------------------------
(* Properties.                                                             *)

\* Every variable has the type its declaration gives it, and no subscriber has
\* more broadcasts waiting than the channel holds.
TypeOK ==
  /\ topics \subseteq Topics
  /\ lock \in Pubs \cup {NoConn}
  /\ log \in [Topics -> Seq([cand : Pubs, age : 0..MaxTicks])]
  /\ task \subseteq topics
  /\ due \subseteq task
  /\ phase \in [Conns -> {"sent", "locked", "found", "listening", "live", "done"}]
  /\ rx \in [Subs -> Seq(Pubs)] /\ \A s \in Subs : Len(rx[s]) <= Cap
  /\ told \in [Subs -> Seq(Pubs)]
  /\ lagged \cup gone \subseteq Subs
  /\ published \in Seq(Pubs)
  /\ ticks \in 0..MaxTicks

FirstOf(q, x) == CHOOSE i \in 1..Len(q) : q[i] = x /\ \A j \in 1..(i - 1) : q[j] # x

\* A subscriber hears of the candidates first in the order of their
\* publication, though it hears of them from two places.
ToldInOrder ==
  \A s \in Subs : \A p, q \in ToSet(told[s]) :
    FirstOf(told[s], p) < FirstOf(told[s], q)
      => FirstOf(published, p) < FirstOf(published, q)

\* The log and the broadcasts overlap, but not more than once: a subscriber is
\* told of a candidate at most twice, so the router connects at most twice.
ToldAtMostTwice ==
  \A s \in Subs : \A i, j, k \in 1..Len(told[s]) :
    i < j /\ j < k => ~(told[s][i] = told[s][j] /\ told[s][j] = told[s][k])

InLog(t, p) == \E i \in 1..Len(log[t]) : log[t][i].cand = p

\* A subscriber whose request was found hears of every candidate in the log and
\* of every later one, in whatever order the two requests are handled, unless
\* the entry expires, the subscriber leaves or it is too slow for the broadcasts.
Learns ==
  \A s \in Subs, p \in Pubs :
    (/\ phase[s] \in {"found", "listening", "live"}
     /\ TopicOf[p] = TopicOf[s]
     /\ InLog(TopicOf[p], p))
      ~> (p \in ToSet(told[s]) \/ s \in gone \cup lagged \/ ~InLog(TopicOf[p], p))
=============================================================================
