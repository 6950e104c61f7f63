----------------------------- MODULE Rendezvous ------------------------------
(***************************************************************************)
(* How the routers that send a topic and the routers that receive it get   *)
(* connected (RoutingManager).                                             *)
(*                                                                         *)
(* A routing request starts a registration: a task that opens a listener   *)
(* on every interface, subscribes at the signaling server to the           *)
(* candidates of the opposite direction, publishes its own, and connects   *)
(* to every candidate it is told of.  So both ends of a pair try: over a   *)
(* connection of either of them the sender says "ping" and gives the       *)
(* connection to its FIB when it has read "pong"; the receiver gives it to *)
(* its FIB at once.                                                        *)
(*                                                                         *)
(* The server is what module Signaling shows of it: it tells a subscriber  *)
(* of the candidates of its topic that are not over a minute old, and of   *)
(* each of them at most twice.  The listener's end of a connection is a    *)
(* session of module KcpSessions, which may be closed under its owner.     *)
(* The interfaces of a router are one; several multiply the connections.   *)
(***************************************************************************)
EXTENDS Naturals, Sequences

CONSTANTS
  Senders,    \* registrations for a topic in direction "...-sender"
  Receivers,  \* and in the opposite direction
  Hidden,     \* bound: registrations that may find no public address
  Failing,    \* bound: registrations whose task may panic or lose a message
  Aging,      \* bound: registrations whose candidate may get too old
  Closing,    \* bound: registrations whose listener may close a session
  Slow,       \* bound: registrations whose connections may take over a second
  Ending      \* bound: registrations whose router may end

Regs == Senders \cup Receivers

ASSUME RendezvousAssumption ==
  /\ Senders \cap Receivers = {}
  /\ Hidden \cup Failing \cup Aging \cup Closing \cup Slow \cup Ending \subseteq Regs

\* flip_direction: the registrations whose candidates r subscribes to.
Flip(r) == IF r \in Senders THEN Receivers ELSE Senders

\* A connection that "by" makes when it is told of "to" for the k-th time.
Conns == {c \in [by : Regs, to : Regs, k : 1..2] : c.to \in Flip(c.by)}
SenderOf(c)   == IF c.by \in Senders THEN c.by ELSE c.to
ReceiverOf(c) == IF c.by \in Senders THEN c.to ELSE c.by

VARIABLES
  pc,     \* [Regs -> where the registration's task is]
  hid,    \* registrations that have found no public address
  sub,    \* [Regs -> what the server has done of its SUBSCRIBE]
  pub,    \* [Regs -> what the server has done of its PUBLISH]
  log,    \* candidates that the server has had, in order
  old,    \* of these, the ones that it has removed again
  inbox,  \* [Regs -> candidates told and not yet read]
  met,    \* [Regs -> [Regs -> times the registration has read the other's]]
  snd,    \* [Conns -> the sender's end]
  rcv,    \* [Conns -> the receiver's end]
  toS,    \* [Conns -> messages on the way to the sender]
  toR     \* [Conns -> messages on the way to the receiver]

regVars == <<pc, hid, sub, pub, log, old, inbox, met>>
endVars == <<snd, rcv, toS, toR>>
vars == <<regVars, endVars>>

Init ==
  /\ pc = [r \in Regs |-> "idle"]
  /\ hid = {}
  /\ sub = [r \in Regs |-> "none"]
  /\ pub = [r \in Regs |-> "none"]
  /\ log = <<>>
  /\ old = {}
  /\ inbox = [r \in Regs |-> <<>>]
  /\ met = [r \in Regs |-> [p \in Regs |-> 0]]
  /\ snd = [c \in Conns |-> "none"]
  /\ rcv = [c \in Conns |-> "none"]
  /\ toS = [c \in Conns |-> <<>>]
  /\ toR = [c \in Conns |-> <<>>]

-----------------------------------------------------------------------------
(* A registration.                                                         *)

Goes(r, from, to) ==
  /\ pc[r] = from
  /\ pc' = [pc EXCEPT ![r] = to]

HandleSenderRouting(r) ==
  /\ r \in Senders
  /\ Goes(r, "idle", "started")
  /\ UNCHANGED <<hid, sub, pub, log, old, inbox, met, endVars>>

HandleReceiverRouting(r) ==
  /\ r \in Receivers
  /\ Goes(r, "idle", "started")
  /\ UNCHANGED <<hid, sub, pub, log, old, inbox, met, endVars>>

\* The signaling server cannot be reached: the task panics before it has any
\* listener, and nobody starts it again.
Unreachable(r) ==
  /\ r \in Failing
  /\ Goes(r, "started", "failed")
  /\ UNCHANGED <<hid, sub, pub, log, old, inbox, met, endVars>>

\* When the STUN server does not answer on an interface it gets no listener.
Stun(r) == UNCHANGED hid \/ (r \in Hidden /\ hid' = hid \cup {r})

\* The listeners are bound and accept before anyone can know of them.
BindListeners(r) ==
  /\ Goes(r, "started", "listening")
  /\ Stun(r)
  /\ UNCHANGED <<sub, pub, log, old, inbox, met, endVars>>

\* SUBSCRIBE on the connection that is read later, PUBLISH on another one: the
\* server may handle them in either order.
Subscribe(r) ==
  /\ Goes(r, "listening", "subscribed")
  /\ sub' = [sub EXCEPT ![r] = "sent"]
  /\ UNCHANGED <<hid, pub, log, old, inbox, met, endVars>>

Publish(r) ==
  /\ Goes(r, "subscribed", "reading")
  /\ pub' = [pub EXCEPT ![r] = "sent"]
  /\ UNCHANGED <<hid, sub, log, old, inbox, met, endVars>>

\* The server is lost between the two: the task panics, after its PUBLISH or
\* before, and its listeners go on.
PublishFails(r) ==
  /\ r \in Failing
  /\ \/ Goes(r, "listening", "ended") /\ UNCHANGED pub
     \/ Goes(r, "subscribed", "ended") /\ pub' \in {pub, [pub EXCEPT ![r] = "sent"]}
  /\ UNCHANGED <<hid, sub, log, old, inbox, met, endVars>>

-----------------------------------------------------------------------------
(* The signaling server.                                                   *)

\* A PUBLISH that does not come, or cannot be read; its sender is not told.
PublishLost(p) ==
  /\ p \in Failing
  /\ pub[p] = "sent"
  /\ pub' = [pub EXCEPT ![p] = "lost"]
  /\ UNCHANGED <<pc, hid, sub, log, old, inbox, met, endVars>>

TellPublished(p) ==
  /\ pub[p] = "sent"
  /\ pub' = [pub EXCEPT ![p] = "told"]
  /\ log' = Append(log, p)
  /\ inbox' = [r \in Regs |-> IF p \in Flip(r) /\ sub[r] \in {"listening", "live"}
                              THEN Append(inbox[r], p) ELSE inbox[r]]
  /\ UNCHANGED <<pc, hid, sub, old, met, endVars>>

Listen(r) ==
  /\ sub[r] = "sent"
  /\ sub' = [sub EXCEPT ![r] = "listening"]
  /\ UNCHANGED <<pc, hid, pub, log, old, inbox, met, endVars>>

\* Mutant of TellLog: the log holds what the others have published too.
TellLogOfAll(r) ==
  /\ sub[r] = "listening"
  /\ sub' = [sub EXCEPT ![r] = "live"]
  /\ inbox' = [inbox EXCEPT ![r] = log \o @]
  /\ UNCHANGED <<pc, hid, pub, log, old, met, endVars>>

\* The cleanup of a topic removes a candidate after a minute, the oldest first;
\* left out when all who could still read the log have read it.
Cleanup(p) ==
  /\ p \in Aging \ old
  /\ \E r \in Flip(p) : sub[r] # "live" /\ pc[r] # "down"
  /\ \E j \in 1..Len(log) :
       /\ log[j] = p
       /\ \A i \in 1..(j - 1) : Flip(log[i]) = Flip(p) => log[i] \in old
  /\ old' = old \cup {p}
  /\ UNCHANGED <<pc, hid, sub, pub, log, inbox, met, endVars>>

\* The log of the topic that r subscribes to, without what was removed.
LogFor(r) ==
  LET first[n \in 0..Len(log)] ==
        IF n = 0 THEN <<>>
        ELSE IF log[n] \in Flip(r) \ old THEN Append(first[n - 1], log[n]) ELSE first[n - 1]
  IN  first[Len(log)]

\* What was broadcast since Listen comes after the log, again.
TellLog(r) ==
  /\ sub[r] = "listening"
  /\ sub' = [sub EXCEPT ![r] = "live"]
  /\ inbox' = [inbox EXCEPT ![r] = LogFor(r) \o @]
  /\ UNCHANGED <<pc, hid, pub, log, old, met, endVars>>

-----------------------------------------------------------------------------
(* A registration reads from the server.                                   *)

Unread(r) == pc[r] = "reading" /\ sub[r] = "live" /\ inbox[r] # <<>>

\* The next connection of r to p, if p has published an address.
Told(r, p) ==
  /\ inbox' = [inbox EXCEPT ![r] = Tail(@)]
  /\ met' = [met EXCEPT ![r][p] = @ + 1]

NewConn(r, p) == [by |-> r, to |-> p, k |-> met[r][p] + 1]

\* Mutant of ReadAsSender: the connection goes to the FIB at once.
ReadUnpinged(r) ==
  LET p == Head(inbox[r])
      c == NewConn(r, p) IN
    /\ r \in Senders
    /\ Unread(r)
    /\ Told(r, p)
    /\ IF p \in hid THEN UNCHANGED <<snd, toR>>
       ELSE /\ snd' = [snd EXCEPT ![c] = "up"]
            /\ toR' = [toR EXCEPT ![c] = <<"ping">>]
    /\ UNCHANGED <<pc, hid, sub, pub, log, old, rcv, toS>>

\* The sender connects and says "ping".
ReadAsSender(r) ==
  LET p == Head(inbox[r])
      c == NewConn(r, p) IN
    /\ r \in Senders
    /\ Unread(r)
    /\ Told(r, p)
    /\ IF p \in hid THEN UNCHANGED <<snd, toR>>
       ELSE /\ snd' = [snd EXCEPT ![c] = "pinged"]
            /\ toR' = [toR EXCEPT ![c] = <<"ping">>]
    /\ UNCHANGED <<pc, hid, sub, pub, log, old, rcv, toS>>

\* The receiver gives the connection to its FIB before it connects.
ReadAsReceiver(r) ==
  LET p == Head(inbox[r])
      c == NewConn(r, p) IN
    /\ r \in Receivers
    /\ Unread(r)
    /\ Told(r, p)
    /\ rcv' = IF p \in hid THEN rcv ELSE [rcv EXCEPT ![c] = "added"]
    /\ UNCHANGED <<pc, hid, sub, pub, log, old, snd, toS, toR>>

ConnectReceiver(c) ==
  /\ rcv[c] = "added"
  /\ rcv' = [rcv EXCEPT ![c] = "up"]
  /\ toS' = [toS EXCEPT ![c] = <<"ping">>]
  /\ UNCHANGED <<regVars, snd, toR>>

\* The server hangs up or cannot be read, or a read brings two candidates or a
\* part of one, whose unwrap panics: the task ends.  The listeners and the
\* connections have tasks of their own and go on.
ReadEnds(r) ==
  /\ r \in Failing
  /\ Goes(r, "reading", "ended")
  /\ inbox' = [inbox EXCEPT ![r] = <<>>]
  /\ UNCHANGED <<hid, sub, pub, log, old, met, endVars>>

-----------------------------------------------------------------------------
(* The ends of a connection.  KCP brings every message in order.           *)

Listens(r) == pc[r] \in {"listening", "subscribed", "reading", "ended"}

\* The listener of a sender accepts: handle_stream_sender says "ping".
AcceptSender(c) ==
  /\ c.to \in Senders
  /\ Listens(c.to)
  /\ snd[c] = "none"
  /\ toS[c] # <<>>
  /\ snd' = [snd EXCEPT ![c] = "pinged"]
  /\ toR' = [toR EXCEPT ![c] = Append(@, "ping")]
  /\ UNCHANGED <<regVars, rcv, toS>>

\* The session of a sender that accepts is closed before the ping can be written.
PingFails(c) ==
  /\ c.to \in Senders \cap Closing
  /\ Listens(c.to)
  /\ snd[c] = "none"
  /\ toS[c] # <<>>
  /\ snd' = [snd EXCEPT ![c] = "closed"]
  /\ UNCHANGED <<regVars, rcv, toS, toR>>

\* The listener of a receiver accepts: it goes to the FIB and is read.
AcceptReceiver(c) ==
  /\ c.to \in Receivers
  /\ Listens(c.to)
  /\ rcv[c] = "none"
  /\ toR[c] # <<>>
  /\ rcv' = [rcv EXCEPT ![c] = "up"]
  /\ UNCHANGED <<regVars, snd, toS, toR>>

\* reader_and_writer of a receiver reads a ping.
AnswerPing(c) ==
  /\ rcv[c] = "up"
  /\ toR[c] # <<>>
  /\ toR' = [toR EXCEPT ![c] = Tail(@)]
  /\ toS' = [toS EXCEPT ![c] = Append(@, "pong")]
  /\ UNCHANGED <<regVars, snd, rcv>>

\* Mutant of ReadReply: anything but a pong ends the connection.
ReadReplyOnce(c) ==
  /\ snd[c] = "pinged"
  /\ toS[c] # <<>>
  /\ snd' = [snd EXCEPT ![c] = IF Head(toS[c]) = "pong" THEN "up" ELSE "gone"]
  /\ toS' = [toS EXCEPT ![c] = Tail(@)]
  /\ UNCHANGED <<regVars, rcv, toR>>

\* handle_stream_sender reads on until there is a pong, then the connection
\* goes to the FIB: the ping of a receiver that connected is not an answer.
ReadReply(c) ==
  /\ snd[c] = "pinged"
  /\ toS[c] # <<>>
  /\ snd' = IF Head(toS[c]) = "pong" THEN [snd EXCEPT ![c] = "up"] ELSE snd
  /\ toS' = [toS EXCEPT ![c] = Tail(@)]
  /\ UNCHANGED <<regVars, rcv, toR>>

\* Mutant of PingTimeout: only the side that accepted waits with a timeout.
PingTimeoutAccepted(c) ==
  /\ snd[c] = "pinged"
  /\ c.to \in Senders
  /\ toS[c] = <<>>
  /\ c.by \in Slow \/ rcv[c] = "closed" \/ pc[ReceiverOf(c)] = "down"
  /\ snd' = [snd EXCEPT ![c] = "late"]
  /\ UNCHANGED <<regVars, rcv, toS, toR>>

\* A second passes without anything to read: the connection is dropped, and
\* nobody tries again.  A peer that is there answers in time if it is not slow.
PingTimeout(c) ==
  /\ snd[c] = "pinged"
  /\ toS[c] = <<>>
  /\ c.by \in Slow \/ rcv[c] = "closed" \/ pc[ReceiverOf(c)] = "down"
  /\ snd' = [snd EXCEPT ![c] = "late"]
  /\ UNCHANGED <<regVars, rcv, toS, toR>>

\* A listener closes a session, because it was idle or took it for another one
\* (KcpSessions): its owner reads nothing at once, and what is still on its way is
\* not read by anyone.  The other end is a client, which is not told and lasts.
Closes(c, e, from, to) ==
  /\ c.to \in Closing
  /\ e[c] = from
  /\ e' = [e EXCEPT ![c] = to]

\* reader_and_writer ends, of a receiver that accepted
ReceiverReadsNothing(c) ==
  /\ c.to \in Receivers
  /\ Closes(c, rcv, "up", "closed")
  /\ UNCHANGED <<regVars, snd, toS, toR>>

\* and of a sender, whose FIB cannot send over the connection any more.
SenderReadsNothing(c) ==
  /\ c.to \in Senders
  /\ Closes(c, snd, "up", "closed")
  /\ UNCHANGED <<regVars, rcv, toS, toR>>

\* To a sender that waits for its pong the zero bytes are just another answer: it
\* reads again, with a new second to wait, and again.
ReplyReadsNothing(c) ==
  /\ c.to \in Senders
  /\ Closes(c, snd, "pinged", "spinning")
  /\ UNCHANGED <<regVars, rcv, toS, toR>>

\* A router ends, with its listeners and its ends of the connections; the other
\* ends notice nothing, and its candidates stay in the server's log.  An end that
\* nobody had read at is as if it had not been made.
RouterEnds(r) ==
  /\ r \in Ending
  /\ pc[r] # "down"
  /\ pc' = [pc EXCEPT ![r] = "down"]
  /\ sub' = [sub EXCEPT ![r] = "none"]
  /\ inbox' = [inbox EXCEPT ![r] = <<>>]
  /\ snd' = [c \in Conns |-> IF r = SenderOf(c) THEN "gone" ELSE snd[c]]
  /\ rcv' = [c \in Conns |-> IF r # ReceiverOf(c) THEN rcv[c]
                             ELSE IF rcv[c] \in {"none", "added"} THEN "none" ELSE "gone"]
  /\ UNCHANGED <<hid, pub, log, old, met, toS, toR>>

-----------------------------------------------------------------------------

Next ==
  \/ \E r \in Regs : \/ HandleSenderRouting(r)
                     \/ HandleReceiverRouting(r)
                     \/ Unreachable(r)
                     \/ BindListeners(r)
                     \/ Subscribe(r)
                     \/ Publish(r)
                     \/ PublishFails(r)
                     \/ TellPublished(r)
                     \/ PublishLost(r)
                     \/ Listen(r)
                     \/ Cleanup(r)
                     \/ TellLog(r)
                     \/ ReadAsSender(r)
                     \/ ReadAsReceiver(r)
                     \/ ReadEnds(r)
                     \/ RouterEnds(r)
  \/ \E c \in Conns : \/ ConnectReceiver(c)
                      \/ AcceptSender(c)
                      \/ PingFails(c)
                      \/ AcceptReceiver(c)
                      \/ AnswerPing(c)
                      \/ ReadReply(c)
                      \/ PingTimeout(c)
                      \/ ReceiverReadsNothing(c)
                      \/ SenderReadsNothing(c)
                      \/ ReplyReadsNothing(c)

Spec == Init /\ [][Next]_vars

\* Every task that was spawned is polled when it can go on, and the server
\* handles every request; nothing makes a router start a registration.
Fairness ==
  /\ \A r \in Regs : /\ WF_vars(BindListeners(r) \/ Subscribe(r) \/ Publish(r))
                     /\ WF_vars(ReadAsSender(r) \/ ReadAsReceiver(r))
                     /\ WF_vars(TellPublished(r))
                     /\ WF_vars(Listen(r) \/ TellLog(r))
  /\ \A c \in Conns : /\ WF_vars(ConnectReceiver(c) \/ AcceptReceiver(c) \/ AnswerPing(c))
                      /\ WF_vars(AcceptSender(c) \/ ReadReply(c) \/ PingTimeout(c))

FairSpec == Spec /\ Fairness

-----------------------------------------------------------------------------
(* Properties.                                                             *)

\* Every variable has the type its declaration gives it; nothing more than a
\* ping and its answer is ever on a connection in one direction.
TypeOK ==
  /\ pc \in [Regs -> {"idle", "started", "failed", "listening", "subscribed",
                      "reading", "ended", "down"}]
  /\ hid \subseteq Hidden
  /\ sub \in [Regs -> {"none", "sent", "listening", "live"}]
  /\ pub \in [Regs -> {"none", "sent", "told", "lost"}]
  /\ log \in Seq(Regs)
  /\ old \subseteq Regs
  /\ inbox \in [Regs -> Seq(Regs)]
  /\ \A r \in Regs : inbox[r] \in Seq(Flip(r))
  /\ met \in [Regs -> [Regs -> 0..2]]
  /\ snd \in [Conns -> {"none", "pinged", "up", "late", "spinning", "closed", "gone"}]
  /\ rcv \in [Conns -> {"none", "added", "up", "closed", "gone"}]
  /\ toS \in [Conns -> {<<>>, <<"ping">>, <<"pong">>, <<"ping", "pong">>}]
  /\ toR \in [Conns -> {<<>>, <<"ping">>}]

\* "sender needs to make sure receiver can receive it": a connection is given to
\* the sender's FIB only when a receiver has read the ping of that connection; a
\* candidate that nobody answers at is never forwarded to.  Not that the receiver
\* reads on: its session may be closed or its router end later, of which the sender
\* hears nothing.
SenderHasReader ==
  \A c \in Conns : snd[c] = "up" => rcv[c] \in {"up", "closed", "gone"}

\* The server has forgotten y before x came to it.
TooLate(x, y) ==
  /\ y \in old /\ sub[x] = "live" /\ met[x][y] = 0
  /\ \A i \in DOMAIN inbox[x] : inbox[x][i] # y

\* Nobody will be told of y: its task ended before, or its PUBLISH was lost.
Unpublished(y) == pub[y] = "lost" \/ (pub[y] = "none" /\ pc[y] \in {"failed", "ended"})

\* Why x is not connected to y: x has ended before it was told of y, or was never
\* told, or y has no public address, or a handshake or a session has been ended.
Blocked(x, y) ==
  \/ pc[x] \in {"failed", "ended"} /\ met[x][y] = 0
  \/ Unpublished(y) \/ TooLate(x, y)
  \/ y \in hid
  \/ \E c \in Conns : /\ c.by = x /\ c.to = y
                     /\ \/ snd[c] \in {"late", "spinning", "closed"}
                        \/ rcv[c] = "closed"

\* Sender and receiver of a topic find one another in whatever order they come
\* and whichever of them the server tells first, and one way that is blocked is
\* made up for by the other: in the end messages have a connection to take and a
\* reader behind it, unless a router has ended or both ways are blocked.
PairConnects ==
  \A s \in Senders, r \in Receivers :
    (pc[s] # "idle" /\ pc[r] # "idle")
      ~> (\/ \E c \in Conns : {c.by, c.to} = {s, r} /\ snd[c] = "up" /\ rcv[c] = "up"
          \/ "down" \in {pc[s], pc[r]}
          \/ Blocked(s, r) /\ Blocked(r, s))

\* A handshake ends, though what is read need not be an answer and the peer may be
\* slow or gone, with one exception: the one whose session is closed under it reads
\* nothing for ever, and its timer, set again each time, does not fire.
HandshakeEnds ==
  \A c \in Conns : (snd[c] = "pinged") ~> (snd[c] \in {"up", "late", "gone", "spinning"})
=============================================================================
