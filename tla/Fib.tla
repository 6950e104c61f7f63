--------------------------------- MODULE Fib ---------------------------------
(***************************************************************************)
(* The forwarding information base of the routers: the task                *)
(* service_connection_fib_handler of every router process.                 *)
(*                                                                         *)
(* Each router has one task that selects over two unbounded channels: the  *)
(* packets that its connections and its ROS handlers hand to it (fib_rx)   *)
(* and the table updates they send (channel_rx).  The two channels are not *)
(* ordered with respect to each other.  Whoever wants packets makes a      *)
(* forwarding channel of its own (mpsc::unbounded_channel), keeps the      *)
(* receiving half and sends the other half in an update.                   *)
(*                                                                         *)
(* A forwarding channel never forgets what was accepted by it: out[c] only *)
(* grows, and the modules that consume a channel keep a cursor into it.    *)
(***************************************************************************)
EXTENDS Naturals, Sequences

CONSTANTS
  Routers,        \* router processes
  Names,          \* topic names (GDPName of a topic)
  Guids,          \* message ids
  Chans,          \* forwarding channels
  Home,           \* the router a channel is registered with
  Ros,            \* the pseudo interface "ros" of the local ROS handlers
  Ifaces,         \* the network interfaces of the machines
  NoIface,        \* default_net::get_default_interface() fails
  Defaults,       \* what get_default_interface() gives, from one call to the next
  IfaceOf,        \* the interface of a channel: Ros or a network interface
  BoundChans,     \* channels whose address starts with the address that the
                  \* binding table has for their interface
  ClockSteps,     \* {FALSE}, or BOOLEAN when the system clock can be set back
  NoUpdate,       \* no update has been sent for the channel yet
  Offers,         \* bound: the updates that owners of channels may send
  Inputs,         \* bound: the packets that may arrive
  MaxArrivals,    \* bound: packets handed to the FIBs by their connections
  MaxRestarts     \* bound: restarts of router processes

ASSUME FibAssumption ==
  /\ Home \in [Chans -> Routers]
  /\ IfaceOf \in [Chans -> Ifaces \cup {Ros}]
  /\ Ros \notin Ifaces
  /\ NoIface \notin Ifaces \cup {Ros}
  /\ Defaults \subseteq Ifaces \cup {NoIface}
  /\ BoundChans \subseteq Chans
  /\ ClockSteps \subseteq BOOLEAN
  /\ MaxArrivals \in Nat
  /\ MaxRestarts \in Nat

ReceiverTypes == {"RECEIVER", "REQUESTRECEIVER", "RESPONSERECEIVER"}
SenderTypes   == {"SENDER", "REQUESTSENDER", "RESPONSESENDER"}
ConnTypes     == ReceiverTypes \cup SenderTypes

\* "Other" stands for the actions the FIB has no branch for.
Actions == {"Forward", "Request", "Response", "Other"}

Packet == [action : Actions, name : Names, guid : Guids]

\* FibStateChange: only ADD is ever sent.
Update == [type : ConnTypes, name : Names, tx : Chans]

\* FibConnection: every entry is RUNNING, and stays so.
Conn == [type : ReceiverTypes, tx : Chans]

ASSUME InputAssumption ==
  /\ NoUpdate \notin Update
  /\ Offers \subseteq Update
  /\ Inputs \subseteq Packet

VARIABLES
  fibQueue,   \* [Routers -> packets in fib_rx]
  chanQueue,  \* [Routers -> updates in channel_rx]
  table,      \* rib_state_table: [Routers -> [Names -> set of connections]]
  processed,  \* processed_requests: [Routers -> set of guids]
  requested,  \* keys of request_latency_table: [Routers -> set of names]
  bindings,   \* a binding table was read at start: [Routers -> BOOLEAN]
  alive,      \* the FIB task has not panicked: [Routers -> BOOLEAN]
  out,        \* [Chans -> sequence of the packets the channel accepted]
  open,       \* channels whose receiving half still exists
  sub,        \* the update each channel was registered with
  arrivals,   \* packets handed over by connections so far
  restarts    \* restarts so far

fibVars == <<fibQueue, chanQueue, table, processed, requested, bindings, alive,
             out, open, sub, arrivals, restarts>>

-----------------------------------------------------------------------------
(* read_binding_table fails when there is no configuration: the FIB then   *)
(* admits every connection.                                                *)

Init ==
  /\ fibQueue  = [r \in Routers |-> <<>>]
  /\ chanQueue = [r \in Routers |-> <<>>]
  /\ table     = [r \in Routers |-> [n \in Names |-> {}]]
  /\ processed = [r \in Routers |-> {}]
  /\ requested = [r \in Routers |-> {}]
  /\ bindings \in [Routers -> BOOLEAN]
  /\ alive     = [r \in Routers |-> TRUE]
  /\ out       = [c \in Chans |-> <<>>]
  /\ open      = {}
  /\ sub       = [c \in Chans |-> NoUpdate]
  /\ arrivals  = 0
  /\ restarts  = 0

-----------------------------------------------------------------------------
(* Helpers of the handler.                                                 *)

\* Mutant of Receivers: connections of every type.
ReceiversOfAnyType(r, n, t) == {k.tx : k \in table[r][n]}

\* The sending halves that router r has for a name, of one connection type.
Receivers(r, n, t) == {k.tx : k \in {x \in table[r][n] : x.type = t}}

\* Mutant of SendTo: the loop ends after the first receiver.
SendToOne(cs, p) ==
  IF cs \cap open = {} THEN UNCHANGED out
  ELSE \E x \in cs \cap open : out' = [out EXCEPT ![x] = Append(@, p)]

\* Mutant of SendTo: the packet is given up when a receiver is closed.
SendToAllOrNone(cs, p) ==
  out' = [c \in Chans |-> IF cs \subseteq open /\ c \in cs THEN Append(out[c], p)
                          ELSE out[c]]

\* tx.send: an open channel accepts the packet; on a closed one it fails, and
\* every branch of the handler ignores the failure.
SendTo(cs, p) ==
  out' = [c \in Chans |-> IF c \in cs \cap open THEN Append(out[c], p) ELSE out[c]]

\* The connections a Request goes to, with default network interface d.
RequestTargets(r, n, d) ==
  IF d = NoIface THEN {}
  ELSE {c \in Receivers(r, n, "REQUESTRECEIVER") : IfaceOf[c] \in {Ros, d}}

\* The packet at the head of fib_rx, taken by the FIB task of r.
pkt(r) == Head(fibQueue[r])

Take(r) ==
  /\ alive[r]
  /\ fibQueue[r] # <<>>
  /\ fibQueue' = [fibQueue EXCEPT ![r] = Tail(@)]

HandleVars == <<chanQueue, table, bindings, open, sub, arrivals, restarts>>

-----------------------------------------------------------------------------
(* fib_rx.recv(): one action per branch of the match.                      *)

\* A Forward or a Request whose guid was processed is thrown away.
DropProcessed(r) ==
  /\ Take(r)
  /\ pkt(r).action \in {"Forward", "Request"}
  /\ pkt(r).guid \in processed[r]
  /\ UNCHANGED <<processed, requested, alive, out, HandleVars>>

\* Mutant of HandleForward: the guid is not marked.
ForwardUnmarked(r) ==
  /\ Take(r)
  /\ pkt(r).action = "Forward"
  /\ pkt(r).guid \notin processed[r]
  /\ SendTo(Receivers(r, pkt(r).name, "RECEIVER"), pkt(r))
  /\ UNCHANGED <<processed, requested, alive, HandleVars>>

\* Mutant of HandleForward: the guid is not looked up.
ForwardUnchecked(r) ==
  /\ Take(r)
  /\ pkt(r).action = "Forward"
  /\ processed' = [processed EXCEPT ![r] = @ \cup {pkt(r).guid}]
  /\ SendTo(Receivers(r, pkt(r).name, "RECEIVER"), pkt(r))
  /\ UNCHANGED <<requested, alive, HandleVars>>

\* A Forward goes to every RECEIVER of its name.  Its guid is marked inside
\* the loop, so a Forward that found no receiver is not marked.
HandleForward(r) ==
  /\ Take(r)
  /\ pkt(r).action = "Forward"
  /\ pkt(r).guid \notin processed[r]
  /\ LET cs == Receivers(r, pkt(r).name, "RECEIVER") IN
       /\ processed' = [processed EXCEPT
                          ![r] = IF cs = {} THEN @ ELSE @ \cup {pkt(r).guid}]
       /\ SendTo(cs, pkt(r))
  /\ UNCHANGED <<requested, alive, HandleVars>>

\* Mutant of HandleRequest: the latency is kept under the guid, not the name.
RequestTimedByGuid(r) ==
  /\ Take(r)
  /\ pkt(r).action = "Request"
  /\ pkt(r).guid \notin processed[r]
  /\ requested' = [requested EXCEPT ![r] = @ \cup {pkt(r).guid}]
  /\ \E d \in Defaults : SendTo(RequestTargets(r, pkt(r).name, d), pkt(r))
  /\ UNCHANGED <<processed, alive, HandleVars>>

\* Mutant of HandleRequest: the latency is not kept.
RequestUntimed(r) ==
  /\ Take(r)
  /\ pkt(r).action = "Request"
  /\ pkt(r).guid \notin processed[r]
  /\ \E d \in Defaults : SendTo(RequestTargets(r, pkt(r).name, d), pkt(r))
  /\ UNCHANGED <<processed, requested, alive, HandleVars>>

\* Mutant of HandleRequest: the guid is marked, like that of a Forward.
RequestMarked(r) ==
  /\ Take(r)
  /\ pkt(r).action = "Request"
  /\ pkt(r).guid \notin processed[r]
  /\ requested' = [requested EXCEPT ![r] = @ \cup {pkt(r).name}]
  /\ processed' = [processed EXCEPT ![r] = @ \cup {pkt(r).guid}]
  /\ \E d \in Defaults : SendTo(RequestTargets(r, pkt(r).name, d), pkt(r))
  /\ UNCHANGED <<alive, HandleVars>>

\* A Request is never marked; the default interface is looked up each time.
HandleRequest(r) ==
  /\ Take(r)
  /\ pkt(r).action = "Request"
  /\ pkt(r).guid \notin processed[r]
  /\ requested' = [requested EXCEPT ![r] = @ \cup {pkt(r).name}]
  /\ \E d \in Defaults :
       SendTo(RequestTargets(r, pkt(r).name, d), pkt(r))
  /\ UNCHANGED <<processed, alive, HandleVars>>

\* The latency of a Response is computed first: the two unwraps panic when no
\* Request of that name was seen or when the clock went back since.
ResponsePanics(r) ==
  /\ Take(r)
  /\ pkt(r).action = "Response"
  /\ \E clockWentBack \in ClockSteps :
       pkt(r).name \notin requested[r] \/ clockWentBack
  /\ alive' = [alive EXCEPT ![r] = FALSE]
  /\ UNCHANGED <<processed, requested, out, HandleVars>>

\* Of the responses to one request only the first to arrive counts.
DropAnswered(r) ==
  /\ Take(r)
  /\ pkt(r).action = "Response"
  /\ pkt(r).name \in requested[r]
  /\ pkt(r).guid \in processed[r]
  /\ UNCHANGED <<processed, requested, alive, out, HandleVars>>

\* Mutant of HandleResponse: every answer is passed on, not only the first.
EveryResponse(r) ==
  /\ Take(r)
  /\ pkt(r).action = "Response"
  /\ pkt(r).name \in requested[r]
  /\ processed' = [processed EXCEPT ![r] = @ \cup {pkt(r).guid}]
  /\ SendTo(Receivers(r, pkt(r).name, "RESPONSERECEIVER"), pkt(r))
  /\ UNCHANGED <<requested, alive, HandleVars>>

\* The first Response of a guid is marked, receiver or not.
HandleResponse(r) ==
  /\ Take(r)
  /\ pkt(r).action = "Response"
  /\ pkt(r).name \in requested[r]
  /\ pkt(r).guid \notin processed[r]
  /\ processed' = [processed EXCEPT ![r] = @ \cup {pkt(r).guid}]
  /\ SendTo(Receivers(r, pkt(r).name, "RESPONSERECEIVER"), pkt(r))
  /\ UNCHANGED <<requested, alive, HandleVars>>

HandleUnknown(r) ==
  /\ Take(r)
  /\ pkt(r).action = "Other"
  /\ UNCHANGED <<processed, requested, alive, out, HandleVars>>

HandlePacket(r) ==
  \/ DropProcessed(r)
  \/ HandleForward(r)
  \/ HandleRequest(r)
  \/ ResponsePanics(r)
  \/ DropAnswered(r)
  \/ HandleResponse(r)
  \/ HandleUnknown(r)

-----------------------------------------------------------------------------
(* channel_rx.recv().                                                      *)

\* Only receivers enter the table, and with a binding table only those whose
\* interface and address it lists, or the local ROS handlers.
Admitted(r, u) ==
  /\ u.type \in ReceiverTypes
  /\ ~bindings[r] \/ IfaceOf[u.tx] = Ros \/ u.tx \in BoundChans

\* An update that is not admitted is dropped.  Nothing leaves the table.
HandleUpdate(r) ==
  /\ alive[r]
  /\ chanQueue[r] # <<>>
  /\ LET u == Head(chanQueue[r]) IN
       table' = IF Admitted(r, u)
                THEN [table EXCEPT ![r][u.name] = @ \cup {[type |-> u.type, tx |-> u.tx]}]
                ELSE table
  /\ chanQueue' = [chanQueue EXCEPT ![r] = Tail(@)]
  /\ UNCHANGED <<fibQueue, processed, requested, bindings, alive, out, open,
                 sub, arrivals, restarts>>

-----------------------------------------------------------------------------
(* What the connections and the ROS handlers of a router do to its FIB.    *)

\* A connection or a handler makes a channel and sends its update; it may let
\* go of the receiving half at once.
Announce(u, kept) ==
  /\ sub[u.tx] = NoUpdate
  /\ alive[Home[u.tx]]
  /\ sub' = [sub EXCEPT ![u.tx] = u]
  /\ chanQueue' = [chanQueue EXCEPT ![Home[u.tx]] = Append(@, u)]
  /\ open' = IF kept THEN open \cup {u.tx} ELSE open
  /\ UNCHANGED <<fibQueue, table, processed, requested, bindings, alive, out,
                 arrivals, restarts>>

\* The receiving half goes away: the connection ended.
Close(c) ==
  /\ c \in open
  /\ open' = open \ {c}
  /\ UNCHANGED <<fibQueue, chanQueue, table, processed, requested, bindings,
                 alive, out, sub, arrivals, restarts>>

\* fib_tx.send
Enqueue(r, p) ==
  /\ alive[r]
  /\ fibQueue' = [fibQueue EXCEPT ![r] = Append(@, p)]
  /\ UNCHANGED <<chanQueue, table, processed, requested, bindings, alive, out,
                 open, sub, restarts>>

\* Any packet from anywhere, as often as the paths to the router repeat it.
Arrive(r, p) ==
  /\ arrivals < MaxArrivals
  /\ arrivals' = arrivals + 1
  /\ Enqueue(r, p)

\* The router process ends and is started again: nothing is stored.
Restart(r) ==
  /\ restarts < MaxRestarts
  /\ restarts'  = restarts + 1
  /\ fibQueue'  = [fibQueue EXCEPT ![r] = <<>>]
  /\ chanQueue' = [chanQueue EXCEPT ![r] = <<>>]
  /\ table'     = [table EXCEPT ![r] = [n \in Names |-> {}]]
  /\ processed' = [processed EXCEPT ![r] = {}]
  /\ requested' = [requested EXCEPT ![r] = {}]
  /\ alive'     = [alive EXCEPT ![r] = TRUE]
  /\ open'      = {c \in open : Home[c] # r}
  /\ UNCHANGED <<bindings, out, sub, arrivals>>

-----------------------------------------------------------------------------

Step(r) == HandlePacket(r) \/ HandleUpdate(r)

Next ==
  \/ \E r \in Routers : Step(r)
  \/ \E u \in Offers : Announce(u, TRUE)
  \/ \E c \in Chans : Close(c)
  \/ \E r \in Routers, p \in Inputs : Arrive(r, p)
  \/ \E r \in Routers : Restart(r)

Spec == Init /\ [][Next]_fibVars

-----------------------------------------------------------------------------
(* Properties.                                                             *)

\* Every variable has the type its declaration gives it.
TypeOK ==
  /\ fibQueue \in [Routers -> Seq(Packet)]
  /\ chanQueue \in [Routers -> Seq(Update)]
  /\ table \in [Routers -> [Names -> SUBSET Conn]]
  /\ processed \in [Routers -> SUBSET Guids]
  /\ requested \in [Routers -> SUBSET Names]
  /\ bindings \in [Routers -> BOOLEAN]
  /\ alive \in [Routers -> BOOLEAN]
  /\ out \in [Chans -> Seq(Packet)]
  /\ open \in SUBSET Chans
  /\ sub \in [Chans -> Update \cup {NoUpdate}]
  /\ arrivals \in Nat
  /\ restarts \in Nat

\* However often the paths repeat a message, a receiver of topic messages or of
\* responses gets each guid at most once, even over the life of its router's
\* process and whatever else that router forwarded meanwhile.
AtMostOnce ==
  \A c \in Chans : \A i, j \in 1..Len(out[c]) :
    i # j /\ out[c][i].action # "Request" => out[c][i].guid # out[c][j].guid

\* The kind of connection a packet is forwarded to.
TypeFor == [a \in Actions |-> IF a = "Forward" THEN "RECEIVER"
                            ELSE IF a = "Request" THEN "REQUESTRECEIVER"
                            ELSE IF a = "Response" THEN "RESPONSERECEIVER"
                            ELSE "none"]

\* Whatever a channel ever carried is what its owner asked for in its update,
\* name and kind, and a network connection that the binding table does not list
\* carried nothing.
Isolation ==
  \A c \in Chans : \A i \in 1..Len(out[c]) :
    /\ sub[c] # NoUpdate
    /\ out[c][i].name = sub[c].name
    /\ TypeFor[out[c][i].action] = sub[c].type
    /\ Admitted(Home[c], sub[c])

\* A suffix of the longer of the two sequences is the shorter one.
OneIsSuffix(s, t) ==
  LET k == IF Len(s) < Len(t) THEN Len(s) ELSE Len(t) IN
    \A i \in 0..(k - 1) : s[Len(s) - i] = t[Len(t) - i]

\* Two live subscribers of one topic on one router agree: whoever joined later
\* has got exactly the last messages that the other one got, in that order.
SubscribersAgree ==
  \A r \in Routers, n \in Names, t \in {"RECEIVER", "RESPONSERECEIVER"} :
    \A c, d \in Receivers(r, n, t) \cap open : OneIsSuffix(out[c], out[d])

-----------------------------------------------------------------------------
(* The FIB implements the abstract multicast.  A channel is a member of a  *)
(* group while it is in the table and its receiving half exists.           *)

Joined(c) ==
  /\ c \in open
  /\ sub[c] # NoUpdate
  /\ [type |-> sub[c].type, tx |-> c] \in table[Home[c]][sub[c].name]

GroupOf(c) == IF Joined(c) THEN <<Home[c], sub[c].name, sub[c].type>>
              ELSE <<>>

Abstract == INSTANCE Multicast WITH
  Domains <- Routers, Members <- Chans, Ids <- Guids,
  Kinds <- {"RECEIVER", "RESPONSERECEIVER"}, AskKind <- "REQUESTRECEIVER",
  KindOf <- TypeFor, NoGroup <- <<>>,
  member <- [c \in Chans |-> GroupOf(c)], got <- out, spent <- processed

\* Every step of the FIB is a step of the multicast or changes nothing of it:
\* fan-out reaches all live subscribers at once, and no id goes out twice.
ImplementsMulticast == Abstract!MSpec
=============================================================================
