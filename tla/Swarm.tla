------------------------------- MODULE Swarm ---------------------------------
(***************************************************************************)
(* A swarm of machines.  Every machine runs an SGC node and a router.  The *)
(* node keeps the assignment of states to the machines; what the state of  *)
(* its own machine asks for it requests from its router over HTTP, and the *)
(* router's service manager hands each request to the ROS handlers or to   *)
(* the routing manager.  One node, the issuer, is commanded to change the  *)
(* assignment of a machine; it applies the change and publishes it to all  *)
(* the nodes, itself among them.                                           *)
(*                                                                         *)
(* A node has one thread, so a callback is one step here; its requests     *)
(* wait at the router in order, which handles them one by one.  An         *)
(* exception in a callback ends the node but not the router.               *)
(***************************************************************************)
EXTENDS Naturals, Sequences, FiniteSets, SequencesExt

CONSTANTS
  Machines,     \* machines that have a node
  Issuer,       \* the one that is commanded
  States,       \* the states that the configuration declares
  Bare,         \* declared states without a list of topics
  TopicsOf,     \* [States -> sequence of [name, role]], role "pub" or "sub"
  ServicesOf,   \* the same for services, role "client" or "service"
  Assigned,     \* [Machines -> States]: the assignment of the configuration
  Edges,        \* set of <<parent, child>>: the topology, a tree
  Commands,     \* bound: set of <<name, state>> that may be commanded
  MaxCommands,  \* bound: number of commands
  Lossy,        \* bound: machines that updates may not get through to
  Restarting,   \* bound: machines that are restarted, once
  None

\* Names that a command may have for a machine.
Names == Machines \cup {x[1] : x \in Commands}

Elements == UNION {ToSet(TopicsOf[s]) \cup ToSet(ServicesOf[s]) : s \in States}

Routes == [name : {e.name : e \in Elements},
           conn : {"pubsub", "request", "response"},
           dir  : {"sender", "receiver"}]

Requests ==
  [op : {"add", "del", "resume"}, ros : {e.role : e \in Elements},
   name : {e.name : e \in Elements}, conn : {"none"}]
  \cup
  [op : {"routing"}, ros : {"pub", "sub", "source", "destination"},
   name : {e.name : e \in Elements}, conn : {"pubsub", "request", "response"}]

ASSUME SwarmAssumption ==
  /\ Issuer \in Machines
  /\ Bare \subseteq States /\ \A s \in Bare : TopicsOf[s] = <<>>
  /\ TopicsOf \in [States -> Seq(Elements)] /\ ServicesOf \in [States -> Seq(Elements)]
  /\ \A e \in Elements : e = [name |-> e.name, role |-> e.role]
  /\ \A s \in States : \A i, j \in 1..Len(TopicsOf[s]) :
       /\ TopicsOf[s][i].role \in {"pub", "sub"}
       /\ TopicsOf[s][i].name = TopicsOf[s][j].name => i = j
  /\ Assigned \in [Machines -> States]
  /\ IsFiniteSet(Edges) /\ Edges \subseteq Machines \X Machines
  /\ Lossy \cup Restarting \subseteq Machines
  /\ MaxCommands \in Nat
  /\ None \notin States \cup Names

VARIABLES
  node,      \* [Machines -> where the node is]
  asg,       \* [Machines -> [Names -> state, or None]], assignment_dict
  paused,    \* [Machines -> topics], _paused_topics
  inbox,     \* [Machines -> updates that the node has not handled]
  missed,    \* machines that some update has not got through to
  commands,  \* commands so far
  api,       \* [Machines -> requests that the router has not handled]
  bridged,   \* [Machines -> elements that its ROS handlers were given]
  routes,    \* [Machines -> [Routes -> number of registrations]]
  restarted  \* machines that have been restarted

nodeVars == <<node, asg, paused, inbox, missed, commands, restarted>>
routerVars == <<bridged, routes>>
vars == <<nodeVars, api, routerVars>>

NoRoutes == [r \in Routes |-> 0]

\* get_assignment_from_yaml
FromYaml == [n \in Names |-> IF n \in Machines THEN Assigned[n] ELSE None]

Init ==
  /\ node = [m \in Machines |-> "launching"]
  /\ asg = [m \in Machines |-> FromYaml]
  /\ paused = [m \in Machines |-> {}]
  /\ inbox = [m \in Machines |-> <<>>]
  /\ missed = {}
  /\ commands = 0
  /\ api = [m \in Machines |-> <<>>]
  /\ bridged = [m \in Machines |-> {}]
  /\ routes = [m \in Machines |-> NoRoutes]
  /\ restarted = {}

-----------------------------------------------------------------------------
(* The requests that a node makes.                                         *)

Request(op, ros, name, conn) ==
  [op |-> op, ros |-> ros, name |-> name, conn |-> conn]

\* Requests qs of the node of m: each is put in the one channel that both routes
\* of the server lead to.
Post(m, qs) == api' = [api EXCEPT ![m] = @ \o qs]

Children(m) == {e \in Edges : e[1] = m}
Parents(m)  == {e \in Edges : e[2] = m}

\* q once for every member of S.
ForEach(S, q) == FlattenSeq([i \in 1..Cardinality(S) |-> q])

\* construct_tree_by_sending_request_topic: both ends of an edge ask for the
\* direction of their own role.
TopicRouting(m, e) ==
  ForEach(Children(m) \cup Parents(m),
          <<Request("routing", e.role, e.name, "pubsub")>>)

AsParent(e) == <<Request("routing", "source", e.name, "request"),
                 Request("routing", "destination", e.name, "response")>>

\* Mutant of AsChild: the child asks for what the parent asks for.
AsParentToo(e) == AsParent(e)

AsChild(e) == <<Request("routing", "destination", e.name, "request"),
                Request("routing", "source", e.name, "response")>>

\* construct_tree_by_sending_request_service: requests go down the tree and
\* responses up, whatever the role.
ServiceRouting(m, e) ==
  ForEach(Children(m), AsParent(e)) \o ForEach(Parents(m), AsChild(e))

Revoked(s) == [i \in 1..Len(TopicsOf[s]) |->
                 Request("del", TopicsOf[s][i].role, TopicsOf[s][i].name, "none")]

Wanted(m, s, held) ==
  FlattenSeq([i \in 1..Len(TopicsOf[s]) |->
    LET e == TopicsOf[s][i] IN
      IF e.name \in held THEN <<Request("resume", e.role, e.name, "none")>>
      ELSE <<Request("add", e.role, e.name, "none")>> \o TopicRouting(m, e)])
  \o
  FlattenSeq([i \in 1..Len(ServicesOf[s]) |->
    LET e == ServicesOf[s][i] IN
      <<Request("add", e.role, e.name, "none")>> \o ServiceRouting(m, e)])

-----------------------------------------------------------------------------
(* apply_assignment                                                        *)

TopicNames(s) == {e.name : e \in ToSet(TopicsOf[s])}

Changes(m, s) == asg[m][m] \notin {None, s}

\* The loop over the topics of the previous state iterates over None.
RevokeFails(m, s) == Changes(m, s) /\ asg[m][m] \in Bare

\* Mutant of Held: what is revoked is not remembered.
HeldBefore(m, s) == paused[m]

\* Mutant of Held: the topics of the new state are remembered.
HeldOfNew(m, s) ==
  IF Changes(m, s) THEN paused[m] \cup TopicNames(s) ELSE paused[m]

Held(m, s) ==
  IF Changes(m, s) THEN paused[m] \cup TopicNames(asg[m][m]) ELSE paused[m]

\* The previous topics are revoked and remembered as paused, then those of the
\* new state are resumed or added; services are added each time.
ApplyOwn(m, s) ==
  LET revoked == IF Changes(m, s) THEN Revoked(asg[m][m]) ELSE <<>> IN
    /\ ~RevokeFails(m, s)
    /\ s \in States
    /\ Post(m, revoked \o Wanted(m, s, Held(m, s)))
    /\ paused' = [paused EXCEPT ![m] = Held(m, s) \ TopicNames(s)]
    /\ asg' = [asg EXCEPT ![m][m] = s]
    /\ UNCHANGED node

\* An exception: the state before has no topics, and nothing is sent, or the
\* new state is not declared, and the topics are revoked by then.
ApplyFails(m, s) ==
  /\ RevokeFails(m, s) \/ s \notin States
  /\ node' = [node EXCEPT ![m] = "ended"]
  /\ Post(m, IF Changes(m, s) THEN Revoked(asg[m][m]) ELSE <<>>)
  /\ UNCHANGED <<paused, asg>>

\* An assignment of another machine is only noted.
ApplyOther(m, n, s) ==
  /\ asg' = [asg EXCEPT ![m][n] = s]
  /\ UNCHANGED <<node, paused, api>>

-----------------------------------------------------------------------------
(* The node.                                                               *)

\* The router was started five seconds ago: it has the assignment from the
\* configuration, and the whole of it is added.
Launch(m) ==
  /\ node[m] = "launching"
  /\ node' = [node EXCEPT ![m] = "up"]
  /\ Post(m, Wanted(m, asg[m][m], paused[m]))
  /\ UNCHANGED <<asg, paused, inbox, missed, commands, restarted, routerVars>>

Update(n, s) == [machine |-> n, state |-> s]

\* Mutant of Publish: the state is not filled in.
PublishMachine(n, s, lost) ==
  /\ inbox' = [m \in Machines |->
                 IF m \in lost THEN inbox[m] ELSE Append(inbox[m], Update(n, None))]
  /\ missed' = missed \cup lost

\* Mutant of Publish: a queue of depth one keeps the newest update only.
PublishNewest(n, s, lost) ==
  /\ inbox' = [m \in Machines |->
                 IF m \in lost THEN inbox[m] ELSE <<Update(n, s)>>]
  /\ missed' = missed \cup lost

\* The subscription of a node begins when it is up.
Publish(n, s, lost) ==
  /\ inbox' = [m \in Machines |->
                 IF m \in lost THEN inbox[m] ELSE Append(inbox[m], Update(n, s))]
  /\ missed' = missed \cup lost

NotUp == {m \in Machines : node[m] # "up"}

\* sgc_assignment_callback: apply, then publish, if there was no exception.
Assign(n, s) ==
  /\ node[Issuer] = "up"
  /\ commands < MaxCommands
  /\ <<n, s>> \in Commands
  /\ commands' = commands + 1
  /\ \/ /\ IF n = Issuer THEN ApplyOwn(n, s) ELSE ApplyOther(Issuer, n, s)
        /\ \E L \in SUBSET (Lossy \ {Issuer}) : Publish(n, s, L \cup NotUp)
     \/ /\ n = Issuer
        /\ ApplyFails(n, s)
        /\ UNCHANGED <<inbox, missed>>
  /\ UNCHANGED <<restarted, routerVars>>

\* The next update for m.
Receive(m) ==
  /\ node[m] = "up"
  /\ inbox[m] # <<>>

\* assignment_update_callback
HandleUpdate(m) ==
  LET u == Head(inbox[m]) IN
    /\ Receive(m)
    /\ asg[m][u.machine] \notin {None, u.state}
    /\ IF u.machine = m THEN ApplyOwn(m, u.state) ELSE ApplyOther(m, u.machine, u.state)
    /\ inbox' = [inbox EXCEPT ![m] = Tail(@)]
    /\ UNCHANGED <<missed, commands, restarted, routerVars>>

IgnoreUpdate(m) ==
  /\ Receive(m)
  /\ asg[m][Head(inbox[m]).machine] = Head(inbox[m]).state
  /\ inbox' = [inbox EXCEPT ![m] = Tail(@)]
  /\ UNCHANGED <<node, asg, paused, missed, commands, restarted, api, routerVars>>

\* An exception: the name is not in the assignment, or apply_assignment fails.
UpdateFails(m) ==
  LET u == Head(inbox[m]) IN
    /\ Receive(m)
    /\ \/ /\ asg[m][u.machine] = None
          /\ node' = [node EXCEPT ![m] = "ended"]
          /\ UNCHANGED <<asg, paused, api>>
       \/ /\ u.machine = m
          /\ asg[m][m] # u.state
          /\ ApplyFails(m, u.state)
    /\ inbox' = [inbox EXCEPT ![m] = <<>>]
    /\ UNCHANGED <<missed, commands, restarted, routerVars>>

\* main_service_manager starts with handlers and routing tasks that have been
\* asked for nothing.
StartRouter(m) ==
  /\ api' = [api EXCEPT ![m] = <<>>]
  /\ bridged' = [bridged EXCEPT ![m] = {}]
  /\ routes' = [routes EXCEPT ![m] = NoRoutes]

\* The machine is launched anew: the router of the previous run is killed, and
\* the node has the assignment of the configuration again.
Restart(m) ==
  /\ m \in Restarting \ restarted
  /\ node[m] # "launching"
  /\ restarted' = restarted \cup {m}
  /\ node' = [node EXCEPT ![m] = "launching"]
  /\ asg' = [asg EXCEPT ![m] = FromYaml]
  /\ paused' = [paused EXCEPT ![m] = {}]
  /\ inbox' = [inbox EXCEPT ![m] = <<>>]
  /\ StartRouter(m)
  /\ UNCHANGED <<missed, commands>>

-----------------------------------------------------------------------------
(* main_service_manager                                                    *)

Handles(m, op) ==
  /\ api[m] # <<>>
  /\ Head(api[m]).op = op
  /\ api' = [api EXCEPT ![m] = Tail(@)]
  /\ UNCHANGED nodeVars

\* A topic or a service goes to the ROS handler of its role.
HandleAdd(m) ==
  LET q == Head(api[m]) IN
    /\ Handles(m, "add")
    /\ bridged' = [bridged EXCEPT ![m] = @ \cup {[name |-> q.name, role |-> q.ros]}]
    /\ UNCHANGED routes

\* "source" and "pub" go to handle_sender_routing, "destination" and "sub" to
\* handle_receiver_routing.
Direction(ros) == IF ros \in {"source", "pub"} THEN "sender" ELSE "receiver"

HandleRouting(m) ==
  LET q == Head(api[m])
      r == [name |-> q.name, conn |-> q.conn, dir |-> Direction(q.ros)] IN
    /\ Handles(m, "routing")
    /\ routes' = [routes EXCEPT ![m][r] = @ + 1]
    /\ UNCHANGED bridged

\* "del" and "resume" are not handled.
HandleOther(m) ==
  /\ Handles(m, "del") \/ Handles(m, "resume")
  /\ UNCHANGED routerVars

-----------------------------------------------------------------------------

Next ==
  \/ \E m \in Machines : \/ Launch(m)
                         \/ HandleUpdate(m)
                         \/ IgnoreUpdate(m)
                         \/ UpdateFails(m)
                         \/ Restart(m)
                         \/ HandleAdd(m)
                         \/ HandleRouting(m)
                         \/ HandleOther(m)
  \/ \E c \in Commands : Assign(c[1], c[2])

Spec == Init /\ [][Next]_vars

-----------------------------------------------------------------------------
(* Properties.                                                             *)

\* Every variable has the type its declaration gives it.
TypeOK ==
  /\ node \in [Machines -> {"launching", "up", "ended"}]
  /\ asg \in [Machines -> [Names -> States \cup {x[2] : x \in Commands} \cup {None}]]
  /\ paused \in [Machines -> SUBSET {e.name : e \in Elements}]
  /\ inbox \in [Machines -> Seq([machine : Names, state : {x[2] : x \in Commands}])]
  /\ api \in [Machines -> Seq(Requests)]
  /\ bridged \in [Machines -> SUBSET Elements]
  /\ routes \in [Machines -> [Routes -> Nat]]
  /\ missed \cup restarted \subseteq Machines
  /\ commands \in 0..MaxCommands

\* The node has nothing left to apply and the router nothing to handle.
Quiet(m) == node[m] = "up" /\ inbox[m] = <<>> /\ api[m] = <<>>

\* When the updates have been handled, every node that got all of them has the
\* issuer's assignment, though the issuer hears of its own commands late and
\* applies older ones again in between.
Agreement ==
  \A m \in Machines :
    /\ node[m] = "up" /\ inbox[m] = <<>>
    /\ node[Issuer] = "up" /\ inbox[Issuer] = <<>>
    /\ {m, Issuer} \cap (missed \cup restarted) = {}
    => asg[m] = asg[Issuer]

Direct(m, e) ==
  [name |-> e.name, conn |-> "pubsub", dir |-> Direction(e.role)]

\* A router does what the node's own state asks for, after any number of
\* changes and restarts, though a topic that comes back is only "resumed" and
\* the router knows of no such request: every topic and service of the state is
\* with its handler, and a topic is routed along every edge in its role.
DoesItsState ==
  \A m \in Machines : Quiet(m) =>
    LET s == asg[m][m] IN
      /\ ToSet(TopicsOf[s]) \cup ToSet(ServicesOf[s]) \subseteq bridged[m]
      /\ \A e \in ToSet(TopicsOf[s]) :
           routes[m][Direct(m, e)] >= Cardinality(Children(m) \cup Parents(m))

\* "this prevents setting up a new connection": on a machine other than the
\* issuer a topic is never registered twice for an edge, however often the
\* machine leaves a state and comes back to it.
RoutedOnce ==
  \A m \in Machines \ {Issuer} : \A r \in Routes :
    r.conn = "pubsub"
      => routes[m][r] <= Cardinality(Children(m) \cup Parents(m))

\* The two ends of an edge ask for opposite directions: what a client asks goes
\* down to the service and the answer up, on every edge whose ends both have the
\* service in their states.
EndsMeet ==
  \A e \in Edges : Quiet(e[1]) /\ Quiet(e[2]) =>
    \A x \in ToSet(ServicesOf[asg[e[1]][e[1]]]), y \in ToSet(ServicesOf[asg[e[2]][e[2]]]) :
      x.name = y.name =>
        \A c \in {"request", "response"} : \E d \in {"sender", "receiver"} :
          /\ routes[e[1]][[name |-> x.name, conn |-> c, dir |-> d]] > 0
          /\ \E f \in {"sender", "receiver"} \ {d} :
               routes[e[2]][[name |-> x.name, conn |-> c, dir |-> f]] > 0

\* A machine may be put on standby and taken back: no command that names a
\* machine of the swarm and a declared state ends a node.
NodesLive == \A m \in Machines : node[m] # "ended"
=============================================================================
