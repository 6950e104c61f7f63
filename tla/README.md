# A verification of FogROS2 (rt-fogros2)

TLA+ models of the parts of this repository in which several tasks, machines or
messages meet, the TLC runs that check them, and proofs that TLAPS checks. The
code is the reference: every definition names the lines it stands for in
`PROJECT.json` ("map").

## 1. Inventory

FogROS2 connects ROS 2 graphs on different machines. Every machine runs a router
(`fog_rs`). Routers find one another through a signaling server, connect over KCP
(a reliable stream on UDP) and forward the messages of topics and the requests
and responses of services. On the robots a scheduler (`sgc_launch`) decides
which machine offers a service.

```
  ROS graph <-> ROS handlers <-> FIB <-> connections == KCP ==> other routers
                (fogrs-ros)   (fogrs-core)   |
                                             +-- TCP --> signaling server
  policy scheduler <- profiles - time bound analyzer        (fogrs-signaling)
      | assignment
      +--> swarm nodes -- REST --> API server --> ROS handlers
```

| Part | State | Operations | How it meets the others |
|---|---|---|---|
| **FIB** `fogrs-core/src/service_request_manager.rs` | table of receivers per name, processed guids, time of the last request per name, binding table | forward a Forward, Request or Response; add a connection | two unbounded channels with no order between them; sending halves of channels in the table |
| **ROS handlers** `fogrs-ros/src/lib.rs` | one loop per topic and role, the call in progress | add a topic, publish, deliver, call, answer, time out | put packets in the FIB's channel, read channels that they registered |
| **Routing manager** `fogrs-core/src/routing_manager.rs` | a task for each registration, listeners, the ends of connections | register, exchange candidates, connect, accept, handshake | subscribes and publishes at the signaling server; gives connections to the FIB |
| **Connections** `network/kcp.rs` | a forwarding channel, bytes of an incomplete packet | read, write, answer a ping, end | read the FIB's channel at one router, feed the FIB of the other |
| **KCP listener and sessions** `fogrs-kcp` | map from peers to sessions, closed flags, bounded channels | create, replace, expire, close, accept | one task for the listener, two for each session |
| **KCP socket** `fogrs-kcp/src/skcp.rs` | the KCP machine, two wakers, closed flag | send, receive, input, update, close | the owner of the stream above, the session's tasks below |
| **Signaling server** `fogrs-signaling` | topics with a log and a broadcast channel | publish, subscribe, clean up | a task per connection, a task per topic, one mutex for the map, one per log |
| **Policy scheduler** `sgc_policy_scheduler.py` | assignment, modes, profiling results, clocks of each machine | hear a profile, time out, switch, profile one by one or all at once | ROS topics and services; its callbacks run one at a time |
| **Time bound analyzer** `time_bound_analyzer.py` | window of latencies of each machine | add a latency, publish a profile | publishes profiles by a timer |
| **Swarm nodes** `sgc_swarm.py`, `sgc_node.py` | assignment of all machines, paused topics | launch, be commanded, hear an update, apply an assignment | publish updates to one another; REST requests to the router |
| **API server, service manager** `api_server.rs`, `service_manager.rs` | a channel of requests | add, delete, resume, route | hand requests to the ROS handlers and the routing manager |
| **RIB** `rib.rs` | key-value table | put, get | not started by the router |

What is hard here, and which properties go with it:

* *Repeated messages.* Paths overlap, connections come back and routers restart;
  a message must be published once on each ROS graph (`AtMostOnce`, `TopicOnce`)
  and still reach all who subscribe (`MessageArrives`, `SubscribersAgree`).
* *Answers.* Every server answers every copy of a request, answers come late, and
  a caller must get its own answer (`AnswerMatches`), and get one (`CallAnswered`).
  A Response to an unknown Request ends the FIB for good (`NoPanic`).
* *Tasks that wait for one another* through bounded channels, in the KCP crate
  (`ListenerGoesOn`, `ClosedEnds`), and notices that come too late
  (`RemovedWhenClosed`) or not at all (`NoticePending`, `NoOrphan`).
* *Tasks that sleep*, with a waker that somebody has to take when a message is whole,
  a window opens or the session ends (`WrittenIsRead`, `WriterGoesOn`, `ReaderEnds`).
* *Two routers that look for one another* at the same time, both of which connect and
  either of which may fail to (`PairConnects`, `HandshakeEnds`, `SenderHasReader`).
* *Assignments that are copied* from node to node and applied late, twice or in part
  (`Agreement`, `DoesItsState`, `RoutedOnce`, `EndsMeet`, `NodesLive`).
* *Two sources of one stream*: the log and the broadcasts of the signaling server
  (`Learns`, `ToldInOrder`, `ToldAtMostTwice`).
* *Cuts of a byte stream* (`HandedIsSent`, `NothingLeft`).
* *Long sequences of callbacks* of the scheduler (`OneService`, `ProfilesInTurn`),
  that must come to an end when machines vanish (`ProfilingEnds`).

`PROJECT.json` lists every component and every hazard at its line.

## 2. Modules

| Module | Models | Built on |
|---|---|---|
| `Multicast` | what the forwarding promises: an abstract group multicast | |
| `Fib` | the FIB task of every router | refines `Multicast` |
| `RosManager` | ROS handlers, connections and FIBs, composed | `Fib` |
| `Rendezvous` | how routers find one another and connect | |
| `Signaling` | signaling server | |
| `KcpSessions` | KCP listener and server sessions | |
| `KcpSocket` | windows, wakers and end of a KCP connection | |
| `Framing` | writer and reader of a connection | |
| `PolicyScheduler` | scheduler and analyzer | |
| `Swarm` | SGC nodes, and the service managers of their routers | |
| `RosManagerProofs` | theorems about `Fib`, the refinement of `Multicast` too, and about the composition | `RosManager`, TLAPS |
| `FramingProofs`, `RendezvousProofs`, `KcpSessionsProofs`, `KcpSocketProofs`, `PolicySchedulerProofs`, `SignalingProofs`, `SwarmProofs` | theorems about the module of that name | TLAPS |
| `MC*` | values for the constants of a run | one of the above |

A definition whose comment begins with *Mutant of* is a plausible bug in the
definition after it. No specification uses it; it shows that a property would
notice.

### Fib and Multicast

One action per branch of the two receive arms of `service_connection_fib_handler`.
`fibQueue` and `chanQueue` are the two channels, `table`, `processed` and
`requested` the task's maps, and `alive` is FALSE after a panic. A forwarding
channel is a member of `Chans`; `out[c]` is all it ever accepted, and its consumer
keeps a cursor (`rd` in `RosManager`), so that properties can speak of the whole
history. A channel leaves `open` when its receiver is dropped; the table keeps it,
as in the code. `Announce`, `Close`, `Arrive` and `Restart` are what surrounds the
task. The choice of a default interface (`Defaults`) may differ from call to call
or fail. `ResponsePanics` covers both unwraps of line 236; the clock going back is
allowed by `ClockSteps`.

`Multicast` knows neither queues nor tables: a message reaches all members of its
group in one step, and no id is published twice in a domain. Requests are weaker,
since the code sends them to the channels of one interface and does not mark them.
`ImplementsMulticast` says that `Fib` implements it, with `member` the channels
that are open and in the table, `got` the packets accepted and `spent` the
processed guids.

### RosManager

Instances of the FIB, joined by connections (`Transfer` reads the channel at one
router and fills the queue of the other) and by the loops of the ROS handlers.
`loop` says which channel a loop reads: a topic that is added again registers one
more channel without a loop. `AskService` to `CallTimeout` are the two nested
`select!`s of `handle_remote_ros_service`, which has one call at a time; `call` and
`serving` are kept for each router and name, since every name has a loop of its own.
Connections break at any time and the sender notices later; a router restarts with
everything forgotten.

### Rendezvous

A registration is the task that a routing request spawns for one direction of one
topic; `pc` is where it is, from `HandleSenderRouting` or `HandleReceiverRouting` over
`BindListeners`, `Subscribe` and `Publish` to its reading loop (`ReadAsSender`,
`ReadAsReceiver`). It may panic or end before that (`Unreachable`, `PublishFails`) or
in its loop (`ReadEnds`), and its PUBLISH may be lost (`PublishLost`). The server is
what `Signaling` shows of it: each candidate comes at most twice, so a connection is
named by who connects to whom and for which of the two times. `Cleanup` removes a
candidate from the log when it is over a minute old (`old`), the oldest of a topic
first; who subscribes after that is not told of it. It is left out when everyone who
could still read the log has read it.

`snd` and `rcv` are the ends of a connection. The sender's is `pinged` in the first loop
of `handle_stream_sender` and `up` when the FIB has it; the receiver's is `added` when
the FIB has it but the stream is not made yet. The listener's end is a session that may
be closed under its owner: it was idle, or was replaced, or was taken for another one
(see the finding `kcp_stale_notice`). Then a read returns 0 bytes at once, and what
happens depends on the owner. `reader_and_writer` ends (`ReceiverReadsNothing`,
`SenderReadsNothing`), before the ping the write fails (`PingFails`), but the handshake
loop takes it for an answer that is not "pong" and reads again, for ever
(`ReplyReadsNothing`). The other end is a client, which nothing tells and nothing
closes. What a client sends later makes the listener accept another session for the
same connection; that is left out: the ends of a connection are made once.

The constants bound who may do what: find no public address (`Hidden`), panic or lose
a message (`Failing`), have a candidate that gets too old (`Aging`), have its listener
close a session (`Closing`), make connections that take over the second that a handshake
waits (`Slow`), and have its router end (`Ending`). A router has one interface; several
multiply the connections.

### KcpSessions

The listener takes a packet (`NewSession`, `OldSession`) or a close notice
(`ClosePeer`) when it waits for nothing; `waiting` is the session whose channel is
full. Each session has its updater (`run`, `notify`, `done`) and its io task, which
the updater aborts at the end. A packet is its peer, its conversation and whether
its sequence number is 0. The idle time is counted in units of `session_expire`.

### KcpSocket

One direction of a connection: the end `w` writes and the end `r` reads, either of
which may be the listener's (`server`). `sent`, `una`, `got` and `read` count segments,
`Bounds` says which of them end a message, since a read waits for a whole one
(`Whole`). `Write` is `poll_send` with its flush, `ParkWriter` and `ParkReader` leave
the waker, and `TryWake` is `try_wake_pending_waker`, a part of each action that calls
it: `InputAck`, `UpdateWriter`, `Input` and `Close`. `Expire`, `DropSession`, `EndLoop`,
`WriteFails` and `ReadEof` are the end of a session, from the flag to the owner that
drops its stream. The owner is `reader_and_writer`, which ends when a read returns 0
bytes or a write fails; the handshake loop, which does not, is in `Rendezvous`. A
session expires when it is idle (`Idle`). A session whose window is full is never that:
each round of the updater flushes (`NeedFlush`), and a flush counts as traffic. Of the `kcp` crate only the promise is modelled: what is in the window is sent
again, input is acknowledged with the room that is left, and a closed window is probed.

### Signaling

One action per step between two awaits of `handle_client`, `publish`, `subscribe`
and the cleanup task. The map's mutex is held by a publisher over an await, which
is why `StartPublish` and `FinishPublish` are two steps. `Goes` moves a connection
from phase to phase. A broadcast channel keeps its last `Cap` items. `Cleanup` is
`retain`: what is left of the log is the young entries, picked by an increasing
bijection, which says that their order stays.

### Framing

A byte is the packet it belongs to, its part and its place; a header parses when
exactly its bytes are there. `ReadAfresh`, `ReadOnHeader`, `ReadOnPayload` and
`ReadToEnd` are the branches of the reader, `Parse` is
`parse_header_payload_pairs` and `Round` a round of its loop, `Keep` the common end. A read returns any prefix of
what is on its way, as the contract of a stream has it. With `KcpConfig.stream =
false`, the default, KCP cuts only at the ends of writes, which is a part of these
behaviours; the panic at a cut just before the null byte needs `stream = true`.

### PolicyScheduler

One action per callback and per mode. `SwitchTo` is `_switch_to_machine`, with the
clocks as they are after the callback has updated them. Time is counted in halves
of `MAX_ALLOWED_DISCONNCTED_TIME`. The exception that ends the node
when get_machine_with_better_profile has no result is kept (`GetBest`).

### Swarm

A callback of a node is one action, for a node has one thread; the requests that it
makes are appended to `api` of its router, in the order in which the code sends them
(`Revoked`, then `Wanted`). `ApplyOwn` and `ApplyFails` are the two ends of
`apply_assignment` for the node's own machine, the second with the requests that were
sent before the exception. `Assign` is the command, `Publish` what it tells all nodes,
and `HandleUpdate`, `IgnoreUpdate` and `UpdateFails` the ways of the update callback.
`HandleAdd`, `HandleRouting` and `HandleOther` are `main_service_manager`: `bridged` is
what the ROS handlers were given, and `routes` counts what went to the routing manager
by connection type and direction. It ignores "del" and "resume", as the code does.

## 3. Runs

| Run | What it asks | Instance |
|---|---|---|
| `fib` | all safety of the FIB, refinement of `Multicast` | 1 router, a local and a network channel, 2 guids, 3 arrivals, 1 restart, with and without binding table |
| `service` | right answers, no panic, calls answered | client and 2 servers, 2 calls, one server's connections may break, it restarts once; the other server's connection may come up late |
| `pubsub` | once and eventually | 2 routers, 2 connections that break, 2 messages, 3 adds, 1 restart |
| `kcp_sessions` | no deadlock, no orphan | 2 peers, 2 conversations, all capacities 1, 2 sessions, 3 packets |
| `signaling` | who is told what | 2 publishers, 2 subscribers, broadcast channel of 1, 3 ticks, entries expire after 1 |
| `framing` | packets survive all cuts | 4 packets, payloads of 0 or 2 bytes, headers of 3 |
| `scheduler` | one service, profiling ends | 2 servers, good and bad profiles, 3 requests, 1 machine lost |
| `rendezvous` | pairs connect, handshakes end | a sender and a receiver: either may be hidden and have its listener close sessions, the receiver may fail, be slow or end, the sender's candidate may get too old |
| `kcp_socket` | no task sleeps for ever, windows hold | 3 segments in messages of 1 and 2, send window 1, receive window 2, 2 acknowledgements on the way, either end may vanish |
| `swarm` | nodes agree, routers do what states ask for | 2 machines, 3 states with topics and a service, 3 commands of 6 (3 of them slips), lost updates and a restart of one machine |

Two runs end in a violation. Each shows that the code does not do what a comment
or a document says; "findings" in `PROJECT.json` quotes them.

| Run | Property | What happens |
|---|---|---|
| `kcp_stale_notice` | `RemovedWhenClosed` | a notice of the old session removes the new one of the same peer |
| `swarm_standby` | `NodesLive` | a machine on a standby that lists no topics is taken back to its service, and its node ends |

Other behaviours that the models have and that a reader of the code may not expect.
No document denies them, so no run calls them wrong:

* With `LateAnswers = TRUE` `AnswerMatches` fails: an answer after the 50 seconds is
  given to the next call, and all later calls are one behind.
* A request that comes over two connections is served twice.
* The cleanup task of a topic of the signaling server ends when it finds the log empty
  and no subscriber; the topic stays, and nothing that is published later expires.
* The analyzer publishes the last profile of a machine that is gone again and again, so
  outside profiling the scheduler does not notice that it is gone.
* A registration whose task panics is not started again, and a handshake that timed out
  is not tried again (`PairConnects` says what is left to connect by).
* A candidate is told of for a minute only. Of a registration that is older a later one
  never hears; if the older one cannot reach it either, the two stay apart.
* When the receiver's session is closed the sender is not told: its FIB keeps a
  connection that nobody reads (`SenderHasReader` says that somebody has).
* A handshake whose session is closed under it reads 0 bytes again and again, and the
  timeout of a second, made anew in each round, never fires (`HandshakeEnds` excuses it).
* A writer that waits for a peer that is gone waits for ever, on both sides: a client's
  session has no time limit, and a listener's flushes its full window in each round, so
  the time that `session.rs` line 183 looks at never gets old.
* A Response that comes to a router which has seen no Request of its name ends the FIB
  task: a second client router, or one that restarted between the two. The `service`
  run has one client router that lasts, so `NoPanic` holds there.
* A machine that comes back to a topic in the other role only "resumes" it, so the router
  never hears of the new role (`StateIsDone` says where this cannot happen).
* A command that names the state that the issuer is in makes its router register all
  topics of the state once more.

Why the bounds are enough. The FIB treats names, guids and channels alike: an
effect needs one name, a guid that repeats and another one, and a channel of each
kind. Two servers are the fewest of which both answer; two connections the fewest
that overlap. Capacities of 1 make every wait of the KCP tasks happen within three
packets. A send window of 1 is the smallest, and one message of two segments overruns
it; with a receive window of 2 the reader's queue fills up and the window closes. One
sender and one receiver make up to four connections, two for each end that connects;
that the sender's candidate ages and the receiver's task fails gives each kind of failure
to one of the two ways.
Two machines are an edge of the topology; three commands lead from a state away, back
and away again. Four packets are the fewest that make the reader's counter reach its
reset with a packet left after it. `kcp_stale_notice` has the real capacities (64, 64
and 1024), so the finding does not come from small bounds, and `swarm_standby` a
configuration like `service-client-topics.yaml`. Runs do not check for deadlock: the
bounds on packets, calls and requests let every model come to rest.

What the runs take for granted: a guid is not drawn twice; in `service` a call
times out only when nothing that belongs to it is under way any more (`Pending`),
that is, an answer that comes at all comes within 50 seconds (`LateAnswers`
drops this); and there the default interface can be looked up.

### Fairness

Safety runs have none. Otherwise weak fairness on each task's step is what tokio
gives: a task that can go on is polled, and a task that waits for a channel is woken.
`select!` picks at random among the ready branches, so a branch that is ready again
and again is taken; with one action for each branch, strong fairness is needed only
for `ClosePeer` and `Notify`, which compete with packets and with other sessions for
a place, and tokio's bounded channels are first come first served. Nothing is assumed
of peers, clients, requests, breaks, restarts or packets. For the scheduler the
analyzer's timer repeats every profile for ever and time passes.

In `Rendezvous` there is one condition for each task: that of a registration up to its
PUBLISH, the same in its loop, the server's for the PUBLISH and the SUBSCRIBE, and those
of the two ends of a connection. Whether anybody registers, fails, ages, closes or ends is
open. In `KcpSocket` what is sent again and again comes through in the end, which is
strong fairness of the next segment, of a probe and of the newest acknowledgement, since
`Lose` may take each copy; woken tasks and updaters go on, and a listener's session
whose peer is gone expires, unless its window is full. `Swarm`, `Fib` and all invariants need no fairness.

## 4. Proofs

Eight modules hold proofs, each for all values of the constants under the named
assumptions of the module that it is about (`FibAssumption` and `InputAssumption`,
`RosAssumption`, `RendezvousAssumption`, `KcpAssumption`, `SocketAssumption`,
`SchedulerAssumption`, `SignalingAssumption`, `SwarmAssumption`,
`FramingAssumption`): any number of routers, channels, peers, segments, packets or
machines, any capacities and any of the bounds on inputs. Each proof shows that an inductive invariant
holds initially and is kept by every action (one step for each, and a lemma for those
that are not obvious), and ends in one temporal step.

| Theorem | States | Inductive invariant |
|---|---|---|
| `RosManagerProofs!TypeCorrect`, `DeliveredAtMostOnce`, `ChannelsIsolated` | `[]TypeOK`, `[]AtMostOnce`, `[]Isolation` | `TypeOK`, `SafeInv` |
| `RosManagerProofs!FibImplementsMulticast`, `LiveSubscribersAgree` | `ImplementsMulticast`, `[]SubscribersAgree` | `TypeOK`, `SafeInv`, `Carried` |
| `RosManagerProofs!RTypeCorrect`, `ComposedAtMostOnce`, `ComposedIsolation` | `[]RTypeOK`, `[]AtMostOnce`, `[]Isolation` | `Base`: `RTypeOK`, `SafeInv` |
| `RosManagerProofs!TopicPublishedOnce`, `LastingPublishedOnce` | `[]TopicOnce`, and the same of one router | `Base`, `Known`, `TopicInv` |
| `RosManagerProofs!RightAnswer` | `[]AnswerMatches` | `Base`, `Known`, `AnswerInv` |
| `FramingProofs!TypeCorrect`, `HandedCorrect`, `NothingLeftBehind` | `[]TypeOK`, `[]HandedIsSent`, `[]NothingLeft` | `IInv`: `TypeOK`, `Carries` |
| `SignalingProofs!TypeCorrect`, `ToldInOrderCorrect`, `ToldTwiceCorrect` | `[]TypeOK`, `[]ToldInOrder`, `[]ToldAtMostTwice` | these and `PublishedOnce`, `LogInOrder`, `QueueInOrder`, `Early`, `Heard` |
| `RendezvousProofs!SendersHaveReaders` | `[]SenderHasReader` | `Shape`, `SenderHasReader`, `PongsAreSaid`, `Fresh` |
| `RendezvousProofs!TypeCorrect` | `[]TypeOK` | `TypeOK`, `Phases`, `LogOnce`, `ToldTwice`, `Handshakes`, with the invariant above |
| `SwarmProofs!NodesAgree` | `[]Agreement` | `Shape`, `SettleAlike` |
| `SwarmProofs!TypeCorrect`, `TopicsRoutedOnce` | `[]TypeOK`, `[]RoutedOnce` | `Typed`, `RoutedInv` |
| `SwarmProofs!StateIsDone`, `EndsAlwaysMeet` | `[]DoesItsState`, `[]EndsMeet` | `Typed`, `AskedInv`, `EndsInv` |
| `KcpSessionsProofs!TypeCorrect`, `NoSessionOrphaned`, `DeadAreNoticed` | `[]TypeOK`, `[]NoOrphan`, `[]NoticePending` | these and `Made`, `InMap` |
| `KcpSocketProofs!WindowsHold` | `[]TypeOK`, bounds of the windows included | `TypeOK`, `AcksOfGot` |
| `PolicySchedulerProofs!TypeCorrect`, `ServiceOnOneMachine`, `ProfilingHasNext` | `[]TypeOK`, `[]OneService`, `[]ProfilesInTurn` | these and `SomeOffers`, `OneOffers`, `Exclusive`, `OfServers` |

*FIB.* `AtMostOnce` is not inductive: nothing in it says that what a channel carried is
known to its router. `Marked` says so, for channels that are still open: a restart
forgets the guids, but also closes the router's channels. `Marked` and `Isolation`
need that entries of the table belong to the router and are what was announced,
`Registered`, which includes the updates still in the queue. `SafeInv` is the
conjunction. Two lemmas carry the step: `FreshSend` for the branches that send a
packet with a guid not processed, and `QuietStep` for all others.

*Refinement.* A step of the FIB that fills no channel, adds no member and closes none
is a stutter of `Multicast`; `HandleUpdate` of a channel not yet in the table is `Join`,
which asks that the new member has got nothing. That is what `Carried` is for: an open
channel that carried something is in the table. The same invariant
carries `LiveSubscribersAgree`: a packet goes to all open members of a group in one step
(`SendAgrees`), and a member that joins has got nothing yet (`EmptyAgrees`).

*Composition.* The FIBs keep their promises when the packets come from the connections
and the loops instead of the outside: `SafeInv` is the invariant of the FIB alone, and
`HandleEffect`, which says what any branch of the FIB task sends to whom, serves all
theorems here. The others need more of the wiring than the code guarantees, so each
states it as a hypothesis, and each hypothesis is needed:

* `LastingPublishedOnce` needs none but that the router lasts: connections may form
  cycles and run in parallel, and all others may restart. What a router published is
  marked as processed (`Settled`) and what its loop has not read yet it has not published
  (`Unheard`).
* `TopicPublishedOnce` holds with restarts only if no router passes on a topic that
  another one brings it (`NoRelays`, the topology of one publishing router and any number
  of subscribing ones). A router that forgot what it has processed publishes again what
  comes round over a cycle. Without relays nothing comes round: a message is at its
  source only until it is sent (`AtSource`), and the copies that were on their way to a
  router that restarts go with its queue and its connections (`Gone`).
* `RightAnswer` asks for one client router for each service, which does not restart
  (`OneClient`), and for `~LateAnswers`; Responses may go anywhere, servers restart,
  connections come and go and clocks be set back. Whatever is under way belongs to the
  call that the client waits for, or its guid has been processed there and the FIB drops
  it (`Expected`).

`MCService` and `MCPubSub` satisfy these hypotheses, so the runs are instances of the
theorems.

*Signaling.* A subscriber takes the broadcast first and the log after it, so it hears
twice of what was published in between. `Heard` says how its news are split: the first m
came from the log, in the order of publication; the rest came by broadcast, in the order
of publication too, and each of them repeats one of the first or is later than all of
them (`Repeats`). So it says of what still waits in its channel. For the step in which the
log is read, `Early` has that whatever waits then is in the log and has not aged, so the
cleanup has not removed it. `CleanupEffect` is the lemma about the increasing bijection.

*Rendezvous.* The sender gives a connection to its FIB when it reads "pong". So a pong on
its way must come from a receiver that has read, whatever became of it since
(`PongsAreSaid`): its end is up, closed or gone. A receiver that connects sets its end to
`added`, which must not undo an end that is up: connections with a number above `met`
have not been used (`Fresh`).

The types count, so they need an argument of their own. A registration is told of another
one in the log at most once, since the log has nobody twice (`LogOnce`), and by broadcast
at most once, since it is told then and only then. So what waits for it splits into a part
that comes from the log and a part that does not, neither with repetitions, and the times
that it has met a candidate and those that still wait for it are at most two (`ToldTwice`).
Of the bytes on a connection: only the sender's ping is answered and nothing is read
before it was sent, so there is never more than a ping and one pong (`Handshakes`).

*Framing.* None of the variables says which bytes have been read, so the invariant brings a
witness: a stream S, which is the packets written and their bytes in a row with the place
where each ends, and g, how many of them have been read. The bytes on their way are what S
has after g, and the reader is in one of three states (`Reader`): it keeps nothing, the
first bytes of a header, or a header with less than its payload; and what it has handed on
are packets of S before what it keeps (`Passed`). After it has thrown bytes away it may
keep bytes from the middle of a packet. From these no header will ever come
(`NeverHeader`), since it never drops the first byte that it keeps, so nothing wrong is
handed on, but nothing at all either until the next reset. A header is found only where a
packet begins (`HeadAt`): the model has no payload whose bytes read as a header, which a
reader that has thrown bytes away would take for one. `Halfway` is the
invariant of the parser's loop, `RoundEffect` its step, and `LoopKeeps` the induction over
the rounds. A write makes the stream longer and changes none of this (`GrownReader`).

*Swarm.* An update that waits in a queue is as good as applied. `SettlesAt(m, n, s)` says
that m will have state s for n when it has handled what waits for it: the last waiting
update that names n has s, or none names it and s is there. All nodes that missed nothing
settle at the same states (`SettleAlike`), which an update that is handled does not
change. `Agreement` is this for empty queues. That the issuer applies its own commands at
once and again later is no exception to it.

In the same way a request that waits at a router is as good as handled. `Total(m, r)` is
the number of registrations of route r that the router of m has made or has been asked
for, and `Given(m, e)` says that element e is with its ROS handler or on its way there.
For a machine a step is one of three (`Fits`): it rests and these stay, it is launched
anew, or it goes to a state (`GoesTo`) and they grow by what `Wanted` asks for. What the
node counts as asked for is `Kept`: the topics of its state and the paused ones. A topic
of `Kept` has been asked for along every edge (`AskedInv`), and one outside `Kept` not at
all (`RoutedInv`), so that a topic is asked for when it enters `Kept` and never again.
The issuer is different: a command may name the state that it is in, which revokes nothing
and asks for all its topics again. `RoutedOnce` leaves the issuer out.

`StateIsDone` has one hypothesis, `SameRoles`: states of a machine that share a topic list
it in the same role. It is needed. A machine that publishes a topic in one state and
subscribes to it in another goes to the second, finds the name among the paused ones, and
"resumes" it: nobody is asked for a subscription. `SwarmAssumption` has another one, that
a state lists a topic once, without which `RoutedOnce` fails at launch.

How often a flattened sequence has something is an induction over its blocks. The
theorems on induction are out of the provers' reach, for they have an operator as a
parameter; `Induction` states it for a set instead, from the least number that is not in
the set, and `FlattenInduction` and `CountFlatten` follow from it.

*KCP sessions.* `NoOrphan` and `NoticePending` need that the map has a session under its
own peer's address (`InMap`), since a notice has the address only, and that tasks belong
to sessions that were made (`Made`).

*KCP socket.* The machine takes a message when less than a window waits, so what waits
is below the window and the longest message. That an acknowledgement never passes what was
got (`AcksOfGot`) keeps `una` below `got`.

*Scheduler.* The service moves from the machine that has it to another one, so one offers
it still (`OneOffers`); parallel profiling begins and ends between these, and never while
machines are profiled in turn (`Exclusive`). The flag of that mode is set afresh by each
switch, from the set of those left.

Only model-checked: all liveness, which the provers cannot handle with fairness, and
`NoPanic`, which holds of the instance of its run but not of every system. Every other
safety property that a passing run checks is a theorem.

## 5. Not modelled

* The retransmission of KCP is the external `kcp` crate: `KcpSessions` and `Framing`
  take it for a reliable stream, `KcpSocket` for one that sends again what is lost.
* One interface for each router in `Rendezvous`; the measurement of latencies in
  `routing_manager.rs`, lines 88 to 207, is called from nowhere.
* The heuristic that adds topics it finds on the machine (`heuristic_pubsub.py`): it
  parses the output of a command and asks for no routing.
* Values: payload bytes, names, latencies; so neither a payload of the four bytes "ping"
  nor two messages with the same random guid are in the models. Nor is, in `Framing`, the
  panic of the parser at bytes that are no UTF-8 (`kcp.rs` line 40), which it can only
  meet in a payload after it has thrown bytes away.
* REST, command line, configuration, logs, Redis, cryptographic names: wiring and
  I/O without a protocol of their own.
* `network/deprecated` and `rib.rs` are not started by the router, and of
  `network/udp.rs` only the STUN query is used. Benchmarks and examples are clients.

## 6. Plan

Done: all modules of section 2 with their runs and theorems.

Left, in this order:

1. `Rendezvous` with several interfaces and with listeners that accept a connection
   again after its session was closed, and composed with `Fib`: a topic whose message
   reaches the other graph from nothing but two requests.
2. `Rib`, if the routers come to start it.
