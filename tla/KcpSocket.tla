------------------------------ MODULE KcpSocket ------------------------------
(***************************************************************************)
(* The two ends of a KCP connection, one of which writes and one reads:    *)
(* KcpSocket with the stream above it and the tasks of the session below.  *)
(*                                                                         *)
(* A write goes to the KCP machine unless a window's worth of segments     *)
(* waits to be acknowledged; then the writer's task parks and leaves its   *)
(* waker.  A read parks until the machine has a whole message.  Whatever   *)
(* may have made room or brought a message (an input, the regular update,  *)
(* a close) has to wake the task.  A message is of one or more segments.   *)
(*                                                                         *)
(* The machine is the kcp crate's: of its retransmission only this much is *)
(* modelled, that segments in the window are sent again until they are     *)
(* acknowledged, in order, and that a closed window is probed.  One end is *)
(* the listener's (the server), and only that one expires or is dropped.   *)
(***************************************************************************)
EXTENDS Naturals, FiniteSets, FiniteSetsExt

CONSTANTS
  Last,        \* bound: segments that are written
  Bounds,      \* segments that end a message
  SndWnd,      \* send window (256 segments)
  RcvWnd,      \* receive window (256)
  FirstWnd,    \* the peer's window until it is known (128)
  LinkCap,     \* bound: acknowledgements on the way at a time
  Vanishing    \* bound: ends whose process may end

Ends == {"w", "r"}
Other(e) == IF e = "w" THEN "r" ELSE "w"
Segments == 1..Last

ASSUME SocketAssumption ==
  /\ Last \in Bounds /\ Bounds \subseteq Segments
  /\ {Last, SndWnd, RcvWnd, FirstWnd, LinkCap} \subseteq Nat \ {0}
  /\ Vanishing \subseteq Ends

VARIABLES
  server,  \* the end that the listener made
  sent,    \* segments that the writer has given to its machine
  una,     \* of these, the ones that are acknowledged
  wnd,     \* the reader's window as the writer knows it
  got,     \* segments that are in the reader's machine or were
  read,    \* of these, the ones that are read
  data,    \* segments on the way to the reader; 0 asks for its window
  acks,    \* set of [una, wnd] on the way to the writer
  task,    \* [Ends -> what the task that owns the stream does]
  waker,   \* ends with a waker left in the socket
  flag,    \* ends whose session is told to close
  shut,    \* ends whose socket is closed
  gone     \* ends whose process has ended

link == <<data, acks>>
ctl == <<server, flag, shut, gone>>
vars == <<sent, una, wnd, got, read, link, task, waker, ctl>>

Init ==
  /\ server \in Ends
  /\ sent = 0 /\ una = 0 /\ wnd = FirstWnd
  /\ got = 0 /\ read = 0
  /\ data = {} /\ acks = {}
  /\ task = [e \in Ends |-> "ready"]
  /\ waker = {} /\ flag = {} /\ shut = {} /\ gone = {}

-----------------------------------------------------------------------------

\* The end of the first message after segment i.
MessageEnd(i) == Min({b \in Bounds : b > i})

\* wait_snd has reached the window, the own one or the peer's.
Full(s, u, w) == s - u >= SndWnd \/ s - u >= w

\* peeksize is that of a message: all its segments are there.
Whole(g, d) == \E b \in Bounds : d < b /\ b <= g

Runs(e) == e \notin gone /\ e \notin shut

\* The task parks and leaves its waker.
Park(e) ==
  /\ task[e] = "ready"
  /\ task' = [task EXCEPT ![e] = "parked"]
  /\ waker' = waker \cup {e}

\* try_wake_pending_waker at end e, if the waker is there.
TryWake(e, can) ==
  IF can /\ e \in waker
  THEN /\ waker' = waker \ {e}
       /\ task' = [task EXCEPT ![e] = "ready"]
  ELSE UNCHANGED <<waker, task>>

-----------------------------------------------------------------------------
(* The writer.                                                             *)

\* Mutant of Blocked: only the peer's window counts.
BlockedByPeer == sent > 0 /\ sent - una >= wnd

\* The first packet goes out whatever the window.
Blocked == sent > 0 /\ Full(sent, una, wnd)

\* The segments that the windows let out, or else a probe.
InWindow(s, u, w) ==
  IF w = 0 THEN {0}
  ELSE {i \in (u + 1)..s : i <= u + SndWnd /\ i <= u + w}

\* flush_write: what is written is sent at once.
Write ==
  /\ "w" \notin gone \cup shut
  /\ task["w"] = "ready"
  /\ sent < Last
  /\ ~Blocked
  /\ sent' = MessageEnd(sent)
  /\ data' = data \cup InWindow(sent', una, wnd)
  /\ UNCHANGED <<una, wnd, got, read, acks, task, waker, ctl>>

ParkWriter ==
  /\ "w" \notin gone \cup shut
  /\ sent < Last
  /\ Blocked
  /\ Park("w")
  /\ UNCHANGED <<sent, una, wnd, got, read, link, ctl>>

\* BrokenPipe: the owner of the stream ends and drops it.
WriteFails ==
  /\ "w" \in shut \ gone
  /\ sent < Last
  /\ task["w"] = "ready"
  /\ task' = [task EXCEPT !["w"] = "ended"]
  /\ flag' = flag \cup {"w"}
  /\ UNCHANGED <<sent, una, wnd, got, read, link, waker, server, shut, gone>>

\* An acknowledgement comes in; an old one brings back its window.
InputAck(a) ==
  /\ Runs("w")
  /\ a \in acks
  /\ acks' = acks \ {a}
  /\ una' = IF a.una > una THEN a.una ELSE una
  /\ wnd' = a.wnd
  /\ TryWake("w", ~Full(sent, una', wnd'))
  /\ UNCHANGED <<sent, got, read, data, ctl>>

\* update of the session's updater: what is not acknowledged is sent again.
UpdateWriter ==
  /\ Runs("w")
  /\ una < sent \/ wnd = 0
  /\ data' = data \cup InWindow(sent, una, wnd)
  /\ TryWake("w", ~Full(sent, una, wnd))
  /\ UNCHANGED <<sent, una, wnd, got, read, acks, ctl>>

-----------------------------------------------------------------------------
(* The reader.                                                             *)

Ack(g, d) == [una |-> g, wnd |-> RcvWnd - (g - d)]

\* One more acknowledgement on the way; those that are too many are lost.
Acknowledge(a) ==
  acks' = IF Cardinality(acks) < LinkCap THEN acks \cup {a} ELSE {a}

\* A message is read; when the queue was full the writer is told of the room.
Read ==
  /\ "r" \notin gone \cup shut
  /\ task["r"] = "ready"
  /\ Whole(got, read)
  /\ read' = MessageEnd(read)
  /\ IF got - read >= RcvWnd THEN Acknowledge(Ack(got, read')) ELSE UNCHANGED acks
  /\ UNCHANGED <<sent, una, wnd, got, data, task, waker, ctl>>

\* Mutant of ParkReader: no waker is left when a part of a message is there.
ParkReaderEmpty ==
  /\ "r" \notin gone \cup shut
  /\ ~Whole(got, read)
  /\ task["r"] = "ready"
  /\ task' = [task EXCEPT !["r"] = "parked"]
  /\ waker' = IF got = read THEN waker \cup {"r"} ELSE waker
  /\ UNCHANGED <<sent, una, wnd, got, read, link, ctl>>

ParkReader ==
  /\ "r" \notin gone \cup shut
  /\ ~Whole(got, read)
  /\ Park("r")
  /\ UNCHANGED <<sent, una, wnd, got, read, link, ctl>>

\* A read of zero bytes: reader_and_writer, which owns the stream, ends and drops
\* it.  (The loop of a handshake does not: see Rendezvous.)
ReadEof ==
  /\ "r" \in shut \ gone
  /\ task["r"] = "ready"
  /\ task' = [task EXCEPT !["r"] = "ended"]
  /\ flag' = flag \cup {"r"}
  /\ UNCHANGED <<sent, una, wnd, got, read, link, waker, server, shut, gone>>

\* A segment or a probe comes in and is acknowledged at once (flush_ack).
Input(i) ==
  /\ Runs("r")
  /\ i \in data
  /\ data' = data \ {i}
  /\ got' = IF i = got + 1 /\ got - read < RcvWnd THEN i ELSE got
  /\ Acknowledge(Ack(got', read))
  /\ TryWake("r", Whole(got', read))
  /\ UNCHANGED <<sent, una, wnd, read, ctl>>

-----------------------------------------------------------------------------
(* The link, and the end of a session.                                     *)

Lose ==
  /\ \/ \E i \in data : data' = data \ {i} /\ UNCHANGED acks
     \/ \E a \in acks : acks' = acks \ {a} /\ UNCHANGED data
  /\ UNCHANGED <<sent, una, wnd, got, read, task, waker, ctl>>

\* The updater flushes a full window in each of its rounds, and a flush counts as
\* traffic.
NeedFlush(e) == e = "w" /\ Full(sent, una, wnd)

\* A listener's session has had no traffic for session_expire, its own neither.
Idle(e) ==
  /\ ~NeedFlush(e)
  /\ \/ Other(e) \in gone \cup shut
     \/ sent = una /\ read = sent

Expire(e) ==
  /\ e = server
  /\ Runs(e)
  /\ e \notin flag
  /\ Idle(e)
  /\ flag' = flag \cup {e}
  /\ UNCHANGED <<sent, una, wnd, got, read, link, task, waker, server, shut, gone>>

\* The listener removes the session from its map or puts another one in its place:
\* with the last reference to it the session is told to close.
DropSession(e) ==
  /\ e = server
  /\ Runs(e)
  /\ e \notin flag
  /\ flag' = flag \cup {e}
  /\ UNCHANGED <<sent, una, wnd, got, read, link, task, waker, server, shut, gone>>

\* Mutants of Close: one of the two wakers is forgotten.
CloseReceiver(e) ==
  /\ shut' = shut \cup {e}
  /\ IF e = "r" THEN TryWake(e, TRUE) ELSE UNCHANGED <<waker, task>>

CloseSender(e) ==
  /\ shut' = shut \cup {e}
  /\ IF e = "w" THEN TryWake(e, TRUE) ELSE UNCHANGED <<waker, task>>

\* KcpSocket::close wakes whoever is parked.
Close(e) ==
  /\ shut' = shut \cup {e}
  /\ TryWake(e, TRUE)

\* The updater finds the flag, leaves its loop and closes the socket: what is
\* not acknowledged by then is not sent again.
EndLoop(e) ==
  /\ Runs(e)
  /\ e \in flag
  /\ Close(e)
  /\ UNCHANGED <<sent, una, wnd, got, read, link, server, flag, gone>>

Vanish(e) ==
  /\ e \in Vanishing \ gone
  /\ gone' = gone \cup {e}
  /\ UNCHANGED <<sent, una, wnd, got, read, link, task, waker, server, flag, shut>>

-----------------------------------------------------------------------------

Next ==
  \/ Write \/ ParkWriter \/ WriteFails \/ UpdateWriter
  \/ Read \/ ParkReader \/ ReadEof
  \/ \E a \in acks : InputAck(a)
  \/ \E i \in data : Input(i)
  \/ Lose
  \/ \E e \in Ends : Expire(e) \/ DropSession(e) \/ EndLoop(e) \/ Vanish(e)

Spec == Init /\ [][Next]_vars

Acks == [una : 0..Last, wnd : 0..RcvWnd]

\* A task that was woken is polled, the io tasks and the updaters go on, and what
\* is sent again and again comes through in the end: the first segment that waits, the
\* probe and the newest acknowledgement.  A listener's session whose peer is gone
\* expires, if it has not to flush a full window; one that is merely idle need not,
\* and nothing makes a listener drop one.
Fairness ==
  /\ WF_vars(Write) /\ WF_vars(ParkWriter) /\ WF_vars(WriteFails)
  /\ WF_vars(UpdateWriter)
  /\ WF_vars(Read) /\ WF_vars(ParkReader) /\ WF_vars(ReadEof)
  /\ SF_vars(InputAck(Ack(got, read)))
  /\ SF_vars(Input(una + 1)) /\ SF_vars(Input(0))
  /\ \A e \in Ends : /\ WF_vars(Other(e) \in gone /\ Expire(e))
                     /\ WF_vars(EndLoop(e))

FairSpec == Spec /\ Fairness

-----------------------------------------------------------------------------
(* Properties.                                                             *)

\* The longest message.
Longest == Max({MessageEnd(i) - i : i \in 0..(Last - 1)})

\* Every variable has the type its declaration gives it; no more waits to be
\* acknowledged than the window and the message that overran it, and the reader
\* holds no more than its window.
TypeOK ==
  /\ server \in Ends
  /\ sent \in 0..Last /\ una \in 0..sent /\ sent - una < SndWnd + Longest
  /\ wnd \in 0..Max({FirstWnd, RcvWnd})
  /\ got \in una..sent /\ read \in 0..got /\ got - read <= RcvWnd
  /\ data \subseteq 0..sent
  /\ acks \subseteq Acks
  /\ task \in [Ends -> {"ready", "parked", "ended"}]
  /\ waker \cup flag \cup shut \cup gone \subseteq Ends

Broken == flag \cup shut \cup gone # {}

\* What was written is read in the end, over losses, a window that closes and
\* opens, and wakers taken and left; unless an end is told to close or is gone.
WrittenIsRead == \A i \in Segments : (sent >= i) ~> (read >= i \/ Broken)

\* A writer that parks gets on with its next message or is told that its session has
\* ended, while its peer is there.  Once the peer is gone or has closed nothing need
\* end it: a client's session has no time limit, and a listener's renews
\* itself, since a full window is flushed in each round.
WriterGoesOn ==
  \A i \in 0..Last :
    (task["w"] = "parked" /\ sent = i)
      ~> (\/ sent > i \/ task["w"] = "ended" \/ "w" \in gone
          \/ "r" \in gone \cup shut)

\* A reader whose session is told to close gets to know it, also while it is parked,
\* and whatever it had been waiting for; and the listener's session of a reader whose
\* writer is gone is told to.
ReaderEnds ==
  ("r" \in flag \/ (server = "r" /\ "w" \in gone))
    ~> (task["r"] = "ended" \/ "r" \in gone)
=============================================================================
