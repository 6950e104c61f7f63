----------------------------- MODULE KcpSessions -----------------------------
(***************************************************************************)
(* The KCP listener of a router and the sessions it makes for its peers.   *)
(*                                                                         *)
(* The listener's task owns the map from peer addresses to sessions.  It   *)
(* selects over the UDP socket and a bounded channel on which sessions     *)
(* tell that they have closed, and gives each packet to its session        *)
(* through a bounded channel.  Every session has two tasks: one feeds the  *)
(* packets to the KCP machine (io), one drives the machine's clock,        *)
(* expires the session and cleans up after it (the updater).  The streams  *)
(* go to the router through the bounded accept queue.                      *)
(*                                                                         *)
(* What KCP itself does to the bytes is left out: a packet is its peer, its*)
(* conversation and whether its sequence number is 0.                      *)
(***************************************************************************)
EXTENDS Naturals, Sequences

CONSTANTS
  Peers,          \* remote addresses
  Convs,          \* conversation numbers other than 0
  None,
  InputCap,       \* capacity of a session's input channel (64)
  CloseCap,       \* capacity of the close channel (64)
  AcceptCap,      \* capacity of the accept queue (1024)
  MaxSessions,    \* bound: sessions made
  MaxPackets      \* bound: packets that arrive

ASSUME KcpAssumption ==
  /\ 0 \notin Convs
  /\ {InputCap, CloseCap, AcceptCap} \subseteq Nat \ {0}
  /\ MaxSessions \in Nat
  /\ MaxPackets \in Nat
  /\ None \notin Peers \cup Convs \cup Nat

Sessions == 1..MaxSessions

VARIABLES
  cur,        \* sessions: [Peers -> session in the map, or None]
  made,       \* sessions made so far
  owner,      \* [Sessions -> peer of the session]
  conv,       \* [Sessions -> conversation of the session]
  closed,     \* sessions whose closed flag is set
  updater,    \* [Sessions -> where the session's updater task is]
  inq,        \* [Sessions -> packets in the input channel]
  age,        \* [Sessions -> 0, or 1 (2) after one (two) session_expire idle]
  closeQ,     \* close channel
  acceptQ,    \* accept queue
  held,       \* sessions whose stream the router has accepted and not dropped
  waiting,    \* session whose input channel the listener waits for, or None
  packets     \* packets that arrived so far

vars == <<cur, made, owner, conv, closed, updater, inq, age, closeQ, acceptQ,
          held, waiting, packets>>

Init ==
  /\ cur     = [p \in Peers |-> None]
  /\ made    = 0
  /\ owner   = [s \in Sessions |-> None]
  /\ conv    = [s \in Sessions |-> None]
  /\ closed  = {}
  /\ updater = [s \in Sessions |-> "none"]
  /\ inq     = [s \in Sessions |-> 0]
  /\ age     = [s \in Sessions |-> 0]
  /\ closeQ  = <<>>
  /\ acceptQ = <<>>
  /\ held    = {}
  /\ waiting = None
  /\ packets = 0

-----------------------------------------------------------------------------
(* The listener's task: a packet.                                          *)

\* Conversation 0 asks the listener to choose one.
Chosen(c) == IF c = 0 THEN Convs ELSE {c}

\* Mutant of Input: the channel is unbounded.
InputUnbounded(s) ==
  /\ inq' = IF updater[s] = "done" THEN inq ELSE [inq EXCEPT ![s] = @ + 1]
  /\ UNCHANGED waiting

\* session.input: the packet goes to the channel, or is lost when the session's
\* io task has gone; while the channel is full the listener waits.
Input(s) ==
  IF updater[s] = "done" THEN UNCHANGED <<inq, waiting>>
  ELSE IF inq[s] < InputCap
       THEN inq' = [inq EXCEPT ![s] = @ + 1] /\ UNCHANGED waiting
       ELSE waiting' = s /\ UNCHANGED inq

\* Mutant of Dropped: dropping a KcpSessionUniq does not close the session.
DroppedOpen(p) == {}

\* A session out of the map drops its KcpSessionUniq, which closes it.
Dropped(p) == IF cur[p] = None THEN {} ELSE {cur[p]}

Arrives(p) ==
  /\ waiting = None
  /\ packets < MaxPackets
  /\ packets' = packets + 1

\* KcpSession::new_shared: the tasks of session s run, and remember their peer.
Start(s, p, c) ==
  /\ owner' = [owner EXCEPT ![s] = p]
  /\ conv' = [conv EXCEPT ![s] = c]
  /\ updater' = [updater EXCEPT ![s] = "run"]

\* get_or_create makes a session for an unknown peer, and for a known one that
\* starts a conversation anew; the new session replaces the old one.
NewSession(p, c, first) ==
  /\ Arrives(p)
  /\ made < MaxSessions
  /\ cur[p] # None => first /\ conv[cur[p]] # c
  /\ LET s == made + 1
         accepted == Len(acceptQ) < AcceptCap IN
       /\ made' = s
       /\ Start(s, p, c)
       /\ IF accepted
          THEN /\ cur' = [cur EXCEPT ![p] = s]
               /\ acceptQ' = Append(acceptQ, s)
               /\ closed' = closed \cup Dropped(p)
               /\ inq' = [inq EXCEPT ![s] = 1]
          ELSE /\ cur' = [cur EXCEPT ![p] = None]
               /\ closed' = closed \cup Dropped(p) \cup {s}
               /\ UNCHANGED <<acceptQ, inq>>
  /\ UNCHANGED <<age, closeQ, held, waiting>>

\* A packet for the session of its peer, unless the conversation is another.
OldSession(p, c, first) ==
  /\ Arrives(p)
  /\ cur[p] # None
  /\ conv[cur[p]] = c \/ ~first
  /\ IF conv[cur[p]] = c THEN Input(cur[p]) ELSE UNCHANGED <<inq, waiting>>
  /\ UNCHANGED <<cur, made, owner, conv, closed, updater, age, closeQ, acceptQ,
                 held>>

RecvPacket(p, c, first) ==
  \E k \in Chosen(c) : NewSession(p, k, first) \/ OldSession(p, k, first)

\* The channel the listener waits for has room again, or its reader has gone.
InputDone ==
  /\ waiting # None
  /\ updater[waiting] = "done" \/ inq[waiting] < InputCap
  /\ inq' = IF updater[waiting] = "done" THEN inq
            ELSE [inq EXCEPT ![waiting] = @ + 1]
  /\ waiting' = None
  /\ UNCHANGED <<cur, made, owner, conv, closed, updater, age, closeQ, acceptQ,
                 held, packets>>

-----------------------------------------------------------------------------
(* The listener's task: a session has closed.  The notice has its address  *)
(* only.                                                                   *)

ClosePeer ==
  /\ waiting = None
  /\ closeQ # <<>>
  /\ closeQ' = Tail(closeQ)
  /\ closed' = closed \cup Dropped(Head(closeQ))
  /\ cur' = [cur EXCEPT ![Head(closeQ)] = None]
  /\ UNCHANGED <<made, owner, conv, updater, inq, age, acceptQ, held, waiting,
                 packets>>

-----------------------------------------------------------------------------
(* A session's tasks.                                                      *)

\* Mutant of IoInput: the io task ends with the updater's loop, before the
\* listener is told.
IoInputWhileRunning(s) ==
  /\ updater[s] = "run"
  /\ inq[s] > 0
  /\ inq' = [inq EXCEPT ![s] = @ - 1]
  /\ age' = [age EXCEPT ![s] = 0]
  /\ UNCHANGED <<cur, made, owner, conv, closed, updater, closeQ, acceptQ, held,
                 waiting, packets>>

\* The io task takes a packet; the session is not idle.
IoInput(s) ==
  /\ updater[s] \in {"run", "notify"}
  /\ inq[s] > 0
  /\ inq' = [inq EXCEPT ![s] = @ - 1]
  /\ age' = [age EXCEPT ![s] = 0]
  /\ UNCHANGED <<cur, made, owner, conv, closed, updater, closeQ, acceptQ, held,
                 waiting, packets>>

\* The updater finds the session idle: it sets the flag after session_expire,
\* and after twice that leaves its loop.
Expire(s) ==
  /\ updater[s] = "run"
  /\ s \notin closed
  /\ age[s] > 0
  /\ IF age[s] = 2
     THEN updater' = [updater EXCEPT ![s] = "notify"] /\ UNCHANGED closed
     ELSE closed' = closed \cup {s} /\ UNCHANGED updater
  /\ UNCHANGED <<cur, made, owner, conv, inq, age, closeQ, acceptQ, held,
                 waiting, packets>>

\* Mutant of EndLoop: the loop goes on while the router holds the stream.
EndLoopUnheld(s) ==
  /\ updater[s] = "run"
  /\ s \in closed \ held
  /\ updater' = [updater EXCEPT ![s] = "notify"]
  /\ UNCHANGED <<cur, made, owner, conv, closed, inq, age, closeQ, acceptQ,
                 held, waiting, packets>>

\* It finds the flag set, leaves its loop and closes the socket: from here on
\* reads of the stream end, whatever was still to be sent.
EndLoop(s) ==
  /\ updater[s] = "run"
  /\ s \in closed
  /\ updater' = [updater EXCEPT ![s] = "notify"]
  /\ UNCHANGED <<cur, made, owner, conv, closed, inq, age, closeQ, acceptQ,
                 held, waiting, packets>>

\* Mutant of Notify: try_send, a notice that finds no room is lost.
NotifyIfRoom(s) ==
  /\ updater[s] = "notify"
  /\ closeQ' = IF Len(closeQ) < CloseCap THEN Append(closeQ, owner[s]) ELSE closeQ
  /\ updater' = [updater EXCEPT ![s] = "done"]
  /\ closed' = closed \cup {s}
  /\ inq' = [inq EXCEPT ![s] = 0]
  /\ UNCHANGED <<cur, made, owner, conv, age, acceptQ, held, waiting, packets>>

\* It tells the listener, when there is room, and aborts the io task.
Notify(s) ==
  /\ updater[s] = "notify"
  /\ Len(closeQ) < CloseCap
  /\ closeQ' = Append(closeQ, owner[s])
  /\ updater' = [updater EXCEPT ![s] = "done"]
  /\ closed' = closed \cup {s}
  /\ inq' = [inq EXCEPT ![s] = 0]
  /\ UNCHANGED <<cur, made, owner, conv, age, acceptQ, held, waiting, packets>>

-----------------------------------------------------------------------------
(* The router and the clock.                                               *)

Accept ==
  /\ acceptQ # <<>>
  /\ held' = held \cup {Head(acceptQ)}
  /\ acceptQ' = Tail(acceptQ)
  /\ UNCHANGED <<cur, made, owner, conv, closed, updater, inq, age, closeQ,
                 waiting, packets>>

\* The router writes to the stream or reads from it.
Use(s) ==
  /\ s \in held
  /\ updater[s] = "run"
  /\ age' = [age EXCEPT ![s] = 0]
  /\ UNCHANGED <<cur, made, owner, conv, closed, updater, inq, closeQ, acceptQ,
                 held, waiting, packets>>

DropStream(s) ==
  /\ s \in held
  /\ held' = held \ {s}
  /\ closed' = closed \cup {s}
  /\ UNCHANGED <<cur, made, owner, conv, updater, inq, age, closeQ, acceptQ,
                 waiting, packets>>

\* session_expire passes and nothing happens to the session.
Tick(s) ==
  /\ updater[s] = "run"
  /\ age[s] < 2
  /\ age' = [age EXCEPT ![s] = @ + 1]
  /\ UNCHANGED <<cur, made, owner, conv, closed, updater, inq, closeQ, acceptQ,
                 held, waiting, packets>>

-----------------------------------------------------------------------------

Next ==
  \/ \E p \in Peers, c \in Convs \cup {0}, first \in BOOLEAN :
       RecvPacket(p, c, first)
  \/ InputDone
  \/ ClosePeer
  \/ Accept
  \/ \E s \in Sessions :
       \/ IoInput(s)
       \/ Expire(s)
       \/ EndLoop(s)
       \/ Notify(s)
       \/ Use(s)
       \/ DropStream(s)
       \/ Tick(s)

\* The tasks of the crate go on while they can; select! picks at random between
\* packets and notices.  Nothing is assumed of the peers and the router.
Fairness ==
  /\ WF_vars(InputDone)
  /\ SF_vars(ClosePeer)
  /\ \A s \in Sessions : /\ WF_vars(IoInput(s))
                         /\ WF_vars(EndLoop(s))
                         /\ SF_vars(Notify(s))

Spec == Init /\ [][Next]_vars

FairSpec == Spec /\ Fairness

-----------------------------------------------------------------------------
(* Properties.                                                             *)

\* Every variable has the type its declaration gives it, within the capacities
\* of the channels.
TypeOK ==
  /\ cur \in [Peers -> 1..made \cup {None}]
  /\ made \in 0..MaxSessions
  /\ owner \in [Sessions -> Peers \cup {None}]
  /\ conv \in [Sessions -> Convs \cup {None}]
  /\ closed \subseteq 1..made
  /\ updater \in [Sessions -> {"none", "run", "notify", "done"}]
  /\ inq \in [Sessions -> 0..InputCap]
  /\ age \in [Sessions -> 0..2]
  /\ closeQ \in Seq(Peers) /\ Len(closeQ) <= CloseCap
  /\ acceptQ \in Seq(1..made) /\ Len(acceptQ) <= AcceptCap
  /\ held \subseteq 1..made
  /\ waiting \in 1..made \cup {None}
  /\ packets \in 0..MaxPackets

\* A session that no packet can reach any more has been told to close, so its
\* two tasks do not stay behind for ever.
NoOrphan ==
  \A s \in 1..made : cur[owner[s]] # s => s \in closed

\* A session that has ended stays in the map only while its notice is on its
\* way to the listener: a peer is not locked out by a dead session.
NoticePending ==
  \A p \in Peers :
    cur[p] # None /\ updater[cur[p]] = "done"
      => \E i \in 1..Len(closeQ) : closeQ[i] = p

\* Listener and sessions wait for one another's bounded channels; still the
\* listener always gets on with the next packet or notice.
ListenerGoesOn == (waiting # None) ~> (waiting = None)

\* And every session that is told to close does end and wakes its reader.
ClosedEnds == \A s \in Sessions : (s \in closed) ~> (updater[s] = "done")

\* A session is taken out of the map when it has closed or when another session
\* takes its place, so a session made anew for a peer stays until it ends.
RemovedWhenClosed ==
  [][\A p \in Peers : cur[p] # None /\ cur'[p] = None => cur[p] \in closed]_vars
=============================================================================
