----------------------------- MODULE RosManager ------------------------------
(***************************************************************************)
(* The routers' ROS handlers (ROSManager), their FIBs and the connections  *)
(* between the routers, composed.                                          *)
(*                                                                         *)
(* A connection carries packets one way: at the router that sends, it has  *)
(* a forwarding channel in the FIB; what it reads from that channel it     *)
(* hands to the FIB of its peer, in order, until it breaks.  There may be  *)
(* several connections between two routers.  The handlers connect the FIB  *)
(* to the local ROS graph, one loop for each topic and role:               *)
(*   pub      publishes local ROS messages to the other routers            *)
(*   sub      publishes what arrives for a topic on the local ROS graph    *)
(*   client   offers a remote service locally: it turns a ROS request into *)
(*            a Request and answers it with the Response that arrives      *)
(*   service  calls the local service for every Request that arrives       *)
(***************************************************************************)
EXTENDS Fib

CONSTANTS
  NetChans,       \* the channels of connections; the others are the handlers'
  Peer,           \* [NetChans -> the router at the other end]
  Ready,          \* updates that were handled before the behaviour starts
  LateAnswers,    \* bound: FALSE when an answer that comes at all comes within
                  \* 50 seconds
  Breakable,      \* bound: the connections that may break
  Crashing,       \* bound: the routers that may end and start again
  Idle,           \* a loop that waits for work
  NoAnswer,       \* the empty answer that is given after the timeout
  NoChan

ASSUME RosAssumption ==
  /\ NetChans \subseteq Chans
  /\ Peer \in [NetChans -> Routers]
  /\ Ready \subseteq Update
  /\ \A u, w \in Ready : u.tx = w.tx => u = w
  /\ LateAnswers \in BOOLEAN
  /\ Breakable \subseteq NetChans
  /\ Crashing \subseteq Routers
  /\ Idle \notin Guids
  /\ NoAnswer \notin Guids
  /\ NoChan \notin Chans

Roles == {"pub", "sub", "client", "service"}

TypeOf == [pub |-> "SENDER", sub |-> "RECEIVER",
           client |-> "RESPONSERECEIVER", service |-> "REQUESTRECEIVER"]

VARIABLES
  loop,       \* [Routers -> [Roles -> [Names -> channel of the loop, or NoChan]]]
  up,         \* connections that work in both their ends
  rd,         \* [Chans -> number of packets read by the owner]
  call,       \* [Routers -> [Names -> request the client loop waits for, or Idle]]
  fresh,      \* guids that no message has yet
  answers,    \* answers given to ROS callers: [at, req, resp]
  serving,    \* [Routers -> [Names -> request the service works on, or Idle]]
  topic       \* [Routers -> sequence of the messages published for a sub]

rosVars == <<loop, up, rd, call, fresh, answers, serving, topic>>
vars == <<fibVars, rosVars>>

-----------------------------------------------------------------------------

IsReady(c) == \E u \in Ready : u.tx = c
ReadyOf(c) == CHOOSE u \in Ready : u.tx = c

RInit ==
  /\ fibQueue  = [r \in Routers |-> <<>>]
  /\ chanQueue = [r \in Routers |-> <<>>]
  /\ bindings  = [r \in Routers |-> FALSE]
  /\ table     = [r \in Routers |-> [n \in Names |->
                    {[type |-> u.type, tx |-> u.tx] :
                       u \in {w \in Ready : Home[w.tx] = r /\ w.name = n
                                            /\ w.type \in ReceiverTypes}}]]
  /\ processed = [r \in Routers |-> {}]
  /\ requested = [r \in Routers |-> {}]
  /\ alive     = [r \in Routers |-> TRUE]
  /\ out       = [c \in Chans |-> <<>>]
  /\ open      = {c \in Chans : IsReady(c)}
  /\ sub       = [c \in Chans |-> IF IsReady(c) THEN ReadyOf(c) ELSE NoUpdate]
  /\ arrivals  = 0
  /\ restarts  = 0
  /\ loop = [r \in Routers |-> [o \in Roles |-> [n \in Names |->
               IF \E c \in Chans \ NetChans :
                    /\ IsReady(c)
                    /\ Home[c] = r
                    /\ ReadyOf(c).type = TypeOf[o]
                    /\ ReadyOf(c).name = n
               THEN CHOOSE c \in Chans \ NetChans :
                      /\ IsReady(c)
                      /\ Home[c] = r
                      /\ ReadyOf(c).type = TypeOf[o]
                      /\ ReadyOf(c).name = n
               ELSE NoChan]]]
  /\ up      = {c \in NetChans : IsReady(c)}
  /\ rd      = [c \in Chans |-> 0]
  /\ call    = [r \in Routers |-> [n \in Names |-> Idle]]
  /\ fresh   = Guids
  /\ answers = {}
  /\ serving = [r \in Routers |-> [n \in Names |-> Idle]]
  /\ topic   = [r \in Routers |-> <<>>]

-----------------------------------------------------------------------------
(* Connections.                                                            *)

Unread(c) == rd[c] < Len(out[c])
NextOf(c) == out[c][rd[c] + 1]
Read(c)   == rd' = [rd EXCEPT ![c] = @ + 1]

\* A connection comes up and its sending end registers its channel.
Connect(u) ==
  /\ u.tx \in NetChans
  /\ Announce(u, TRUE)
  /\ up' = up \cup {u.tx}
  /\ UNCHANGED <<loop, rd, call, fresh, answers, serving, topic>>

\* It breaks.  The sending end notices, now or later (Hangup).
Break(c) ==
  /\ c \in Breakable \cap up
  /\ up' = up \ {c}
  /\ UNCHANGED <<fibVars, loop, rd, call, fresh, answers, serving, topic>>

Hangup(c) ==
  /\ c \in NetChans \ up
  /\ Close(c)
  /\ UNCHANGED rosVars

\* The reader at the other end hands the next packet to its FIB.
Transfer(c) ==
  /\ c \in up \cap open
  /\ Unread(c)
  /\ Enqueue(Peer[c], NextOf(c))
  /\ Read(c)
  /\ UNCHANGED <<arrivals, loop, up, call, fresh, answers, serving, topic>>

-----------------------------------------------------------------------------
(* The handlers' requests: a topic is added in a role.                     *)

\* Every add of a sub or a service registers a new channel, but only the first
\* one has a loop that reads it; a pub or a client registers the first time
\* only, and nobody reads the channel of a pub.
AddTopic(c, o, n) ==
  LET r == Home[c]
      first == loop[r][o][n] = NoChan IN
    /\ c \notin NetChans
    /\ first \/ o \in {"sub", "service"}
    /\ Announce([type |-> TypeOf[o], name |-> n, tx |-> c], first /\ o # "pub")
    /\ loop' = IF first THEN [loop EXCEPT ![r][o][n] = c] ELSE loop
    /\ UNCHANGED <<up, rd, call, fresh, answers, serving, topic>>

\* The packets the loops make.
ForwardOf(n, g)  == [action |-> "Forward",  name |-> n, guid |-> g]
RequestOf(n, g)  == [action |-> "Request",  name |-> n, guid |-> g]
ResponseOf(n, g) == [action |-> "Response", name |-> n, guid |-> g]

\* handle_ros_topic_remote_publisher: a local ROS message, with a random guid.
PublishMessage(r, n, g) ==
  /\ loop[r]["pub"][n] # NoChan
  /\ g \in fresh
  /\ fresh' = fresh \ {g}
  /\ Enqueue(r, ForwardOf(n, g))
  /\ UNCHANGED <<arrivals, loop, up, rd, call, answers, serving, topic>>

\* handle_ros_topic_remote_subscriber: publish on the local ROS graph.
DeliverMessage(r, n) ==
  LET c == loop[r]["sub"][n] IN
    /\ c # NoChan
    /\ Unread(c)
    /\ topic' = IF NextOf(c).action = "Forward" /\ NextOf(c).name = n
                THEN [topic EXCEPT ![r] = Append(@, NextOf(c).guid)]
                ELSE topic
    /\ Read(c)
    /\ UNCHANGED <<fibVars, loop, up, call, fresh, answers, serving>>

-----------------------------------------------------------------------------
(* handle_remote_ros_service, a loop for each service that handles one ROS *)
(* request at a time.                                                      *)

\* A ROS request; the guid is the hash of its request id.
AskService(r, n, g) ==
  /\ loop[r]["client"][n] # NoChan
  /\ call[r][n] = Idle
  /\ g \in fresh
  /\ fresh' = fresh \ {g}
  /\ call' = [call EXCEPT ![r][n] = g]
  /\ Enqueue(r, RequestOf(n, g))
  /\ UNCHANGED <<arrivals, loop, up, rd, answers, serving, topic>>

Answer(r, n, a) ==
  /\ answers' = answers \cup {[at |-> r, req |-> call[r][n], resp |-> a]}
  /\ call' = [call EXCEPT ![r][n] = Idle]

\* The next packet in the channel answers the request, whatever its guid is.
GetResponse(r, n) ==
  LET c == loop[r]["client"][n] IN
    /\ c # NoChan
    /\ call[r][n] # Idle
    /\ Unread(c)
    /\ Answer(r, n, NextOf(c).guid)
    /\ Read(c)
    /\ UNCHANGED <<fibVars, loop, up, fresh, serving, topic>>

\* A packet with guid g is in a queue, or in a channel that will be read.
Pending(g) ==
  \/ \E r \in Routers, n \in Names : serving[r][n] = g
  \/ \E r \in Routers : \E i \in 1..Len(fibQueue[r]) : fibQueue[r][i].guid = g
  \/ \E c \in open : /\ c \in NetChans => c \in up
                     /\ \E i \in (rd[c] + 1)..Len(out[c]) : out[c][i].guid = g

\* No answer within 50 seconds: the caller gets an empty one.
CallTimeout(r, n) ==
  /\ call[r][n] # Idle
  /\ LateAnswers \/ ~Pending(call[r][n])
  /\ Answer(r, n, NoAnswer)
  /\ UNCHANGED <<fibVars, loop, up, rd, fresh, serving, topic>>

-----------------------------------------------------------------------------
(* handle_local_ros_service_caller, one Request at a time.                 *)

CallService(r, n) ==
  LET c == loop[r]["service"][n] IN
    /\ c # NoChan
    /\ serving[r][n] = Idle
    /\ Unread(c)
    /\ IF NextOf(c).action = "Request" /\ NextOf(c).name = n
       THEN serving' = [serving EXCEPT ![r][n] = NextOf(c).guid]
       ELSE UNCHANGED serving
    /\ Read(c)
    /\ UNCHANGED <<fibVars, loop, up, call, fresh, answers, topic>>

\* Mutant of SendResponse: it does not wait for a call of the service.
SendResponseUnasked(r, n) ==
  /\ loop[r]["service"][n] # NoChan
  /\ Enqueue(r, ResponseOf(n, serving[r][n]))
  /\ serving' = [serving EXCEPT ![r][n] = Idle]
  /\ UNCHANGED <<arrivals, loop, up, rd, call, fresh, answers, topic>>

\* The local service has answered: the Response has the guid of the Request.
SendResponse(r, n) ==
  /\ loop[r]["service"][n] # NoChan
  /\ serving[r][n] # Idle
  /\ Enqueue(r, ResponseOf(n, serving[r][n]))
  /\ serving' = [serving EXCEPT ![r][n] = Idle]
  /\ UNCHANGED <<arrivals, loop, up, rd, call, fresh, answers, topic>>

-----------------------------------------------------------------------------
(* A router process ends, with its connections, and is started again.      *)

RestartRouter(r) ==
  /\ r \in Crashing
  /\ Restart(r)
  /\ loop' = [loop EXCEPT ![r] = [o \in Roles |-> [n \in Names |-> NoChan]]]
  /\ up' = {c \in up : Home[c] # r /\ Peer[c] # r}
  /\ call' = [call EXCEPT ![r] = [n \in Names |-> Idle]]
  /\ serving' = [serving EXCEPT ![r] = [n \in Names |-> Idle]]
  /\ UNCHANGED <<rd, fresh, answers, topic>>

-----------------------------------------------------------------------------

FibStep(r) == Step(r) /\ UNCHANGED rosVars

RNext ==
  \/ \E r \in Routers : FibStep(r)
  \/ \E u \in Offers : Connect(u)
  \/ \E c \in NetChans : Break(c) \/ Hangup(c) \/ Transfer(c)
  \/ \E u \in Offers, o \in Roles :
       u.type = TypeOf[o] /\ AddTopic(u.tx, o, u.name)
  \/ \E r \in Routers, n \in Names, g \in Guids : PublishMessage(r, n, g)
  \/ \E r \in Routers, n \in Names : DeliverMessage(r, n)
  \/ \E r \in Routers, n \in Names, g \in Guids : AskService(r, n, g)
  \/ \E r \in Routers, n \in Names : GetResponse(r, n) \/ CallTimeout(r, n)
  \/ \E r \in Routers, n \in Names : CallService(r, n) \/ SendResponse(r, n)
  \/ \E r \in Routers : RestartRouter(r)

RSpec == RInit /\ [][RNext]_vars

\* The runtime polls every task that can go on, and select! picks among the
\* ready channels at random; a local service answers what it is asked.
Fairness ==
  /\ \A r \in Routers : /\ WF_vars(HandlePacket(r) /\ UNCHANGED rosVars)
                        /\ WF_vars(HandleUpdate(r) /\ UNCHANGED rosVars)
  /\ \A c \in NetChans : WF_vars(Transfer(c))
  /\ \A r \in Routers, n \in Names : /\ WF_vars(DeliverMessage(r, n))
                                     /\ WF_vars(GetResponse(r, n))
                                     /\ WF_vars(CallService(r, n))
                                     /\ WF_vars(SendResponse(r, n))

FairRSpec == RSpec /\ Fairness

-----------------------------------------------------------------------------
(* Properties.                                                             *)

Carries(c, a, g) ==
  \E i \in 1..Len(out[c]) : out[c][i].action = a /\ out[c][i].guid = g

\* Every variable has the type its declaration gives it, and no reader of a
\* channel is ahead of its writer.
RTypeOK ==
  /\ TypeOK
  /\ loop \in [Routers -> [Roles -> [Names -> Chans \cup {NoChan}]]]
  /\ up \in SUBSET NetChans
  /\ rd \in [Chans -> Nat]
  /\ \A c \in Chans : rd[c] <= Len(out[c])
  /\ call \in [Routers -> [Names -> Guids \cup {Idle}]]
  /\ fresh \in SUBSET Guids
  /\ answers \in SUBSET [at : Routers, req : Guids, resp : Guids \cup {NoAnswer}]
  /\ serving \in [Routers -> [Names -> Guids \cup {Idle}]]
  /\ topic \in [Routers -> Seq(Guids)]

\* The answer a ROS caller gets is the answer to its own request, or none,
\* though the client loop takes whatever Response comes next and every server
\* that got the Request answers it.
AnswerMatches == \A a \in answers : a.resp \in {a.req, NoAnswer}

\* No FIB panics on a Response to a Request it has not seen.
NoPanic == \A r \in Routers : alive[r]

\* A Request that reached one connection that lasts is answered, and not by the
\* empty answer, whatever happens to the connections and the routers of the other
\* servers.
CallAnswered ==
  \A r \in Routers, g \in Guids :
    ((\E n \in Names : call[r][n] = g) /\ \E c \in NetChans \ Breakable : Carries(c, "Request", g))
      ~> [at |-> r, req |-> g, resp |-> g] \in answers

\* What a router publishes on its ROS graph has different guids.
OnceAt(r) ==
  \A i, j \in 1..Len(topic[r]) : i # j => topic[r][i] # topic[r][j]

\* A message is published at most once on the ROS graph of a subscribing
\* router, with several connections between the routers, connections that
\* break and come back, routers that restart, and repeated adds of the topic.
TopicOnce == \A r \in Routers : OnceAt(r)

\* The connection c still has to bring g to a router that subscribes to it and
\* has not seen it.
OnItsWay(c, g) ==
  /\ c \in up \cap open
  /\ \E i \in (rd[c] + 1)..Len(out[c]) :
       /\ out[c][i].action = "Forward"
       /\ out[c][i].guid = g
       /\ LET s == Peer[c]
              l == loop[s]["sub"][out[c][i].name] IN
            /\ l \in Receivers(s, out[c][i].name, "RECEIVER")
            /\ g \notin processed[s]

\* A message that is on a connection to a subscriber gets to the subscriber's
\* ROS graph, unless the connection breaks first.
MessageArrives ==
  \A c \in NetChans, g \in Guids :
    OnItsWay(c, g) ~> (c \notin up \/ \E i \in 1..Len(topic[Peer[c]]) :
                                         topic[Peer[c]][i] = g)
=============================================================================
