---------------------------- MODULE KcpSocketProofs ----------------------------
(***************************************************************************)
(* A proof, for any windows, messages and losses, of how much the two ends *)
(* of a connection hold: the writer no more than its window and one        *)
(* message, the reader no more than its window, and no end believes of the *)
(* other what it never was.                                                *)
(***************************************************************************)
EXTENDS KcpSocket, FiniteSetsExt, WellFoundedInduction, TLAPS

\* An acknowledgement is of segments that have come.
AcksOfGot == \A a \in acks : a.una <= got

IInv == TypeOK /\ AcksOfGot

-----------------------------------------------------------------------------
(* Numbers.                                                                *)

\* A set of numbers has a least one.
LEMMA LeastNumber ==
  ASSUME NEW S \in SUBSET Nat, S # {}
  PROVE  \E x \in S : \A y \in S : x <= y
  <1>1. PICK x \in S : \A y \in S : <<y, x>> \notin OpToRel(<, Nat)
    BY NatLessThanWellFounded, WFMin
  <1>2. \A y \in S : ~(y < x)
    BY <1>1 DEF OpToRel
  <1>3. QED
    BY <1>2

LEMMA MinIsLeast ==
  ASSUME NEW S \in SUBSET Nat, S # {}
  PROVE  Min(S) \in S /\ \A y \in S : Min(S) <= y
  BY LeastNumber DEF Min

\* A set of numbers with a bound has a greatest one, the least of its bounds.
LEMMA MaxIsGreatest ==
  ASSUME NEW S \in SUBSET Nat, S # {}, NEW n \in Nat, \A x \in S : x <= n
  PROVE  Max(S) \in S /\ \A y \in S : y <= Max(S)
  <1> DEFINE B == {b \in Nat : \A x \in S : x <= b}
  <1>1. PICK b \in B : \A c \in B : b <= c
    BY LeastNumber
  <1>2. b \in S
    <2> SUFFICES ASSUME b \notin S PROVE FALSE
      OBVIOUS
    <2>1. \A x \in S : x <= b - 1 /\ b - 1 \in Nat
      OBVIOUS
    <2>2. b - 1 \in B
      BY <2>1
    <2>3. QED
      BY <1>1, <2>2
  <1>3. QED
    BY <1>2 DEF Max

-----------------------------------------------------------------------------
(* Messages.                                                               *)

LEMMA Constants ==
  /\ Last \in Nat \ {0} /\ SndWnd \in Nat \ {0} /\ RcvWnd \in Nat \ {0}
  /\ FirstWnd \in Nat \ {0} /\ LinkCap \in Nat \ {0}
  /\ Last \in Bounds /\ Bounds \subseteq 1..Last
  /\ Vanishing \subseteq Ends
  BY SocketAssumption DEF Segments

\* The end of a message is the first of the bounds that come after.
LEMMA EndOfMessage ==
  ASSUME NEW i \in 0..(Last - 1)
  PROVE  /\ MessageEnd(i) \in Bounds /\ MessageEnd(i) \in (i + 1)..Last
         /\ \A b \in Bounds : b > i => MessageEnd(i) <= b
  <1> USE Constants
  <1> DEFINE B == {b \in Bounds : b > i}
  <1>1. B \in SUBSET Nat /\ Last \in B
    <2>1. Last > i /\ i \in Nat
      OBVIOUS
    <2>2. Bounds \subseteq Nat
      OBVIOUS
    <2>3. QED
      BY <2>1, <2>2
  <1>2. Min(B) \in B /\ \A b \in B : Min(B) <= b
    BY <1>1, MinIsLeast
  <1>3. MessageEnd(i) = Min(B)
    BY DEF MessageEnd
  <1>4. \A b \in B : b \in Bounds /\ b \in (i + 1)..Last
    OBVIOUS
  <1>5. MessageEnd(i) \in B /\ \A b \in B : MessageEnd(i) <= b
    BY <1>2, <1>3
  <1>6. QED
    BY <1>4, <1>5

\* No message is longer than the longest.
LEMMA LongestBounds ==
  /\ Longest \in Nat
  /\ \A i \in 0..(Last - 1) : MessageEnd(i) - i <= Longest
  <1> USE Constants
  <1> DEFINE S == {MessageEnd(i) - i : i \in 0..(Last - 1)}
  <1>1. \A x \in S : x \in Nat /\ x <= Last
    BY EndOfMessage
  <1>2. S # {}
    OBVIOUS
  <1>3. Max(S) \in S /\ \A x \in S : x <= Max(S)
    BY <1>1, <1>2, MaxIsGreatest
  <1>4. Longest = Max(S)
    BY DEF Longest
  <1>5. QED
    BY <1>1, <1>3, <1>4

\* The larger of the window at first and the reader's.
LEMMA WindowBounds ==
  /\ Max({FirstWnd, RcvWnd}) \in Nat
  /\ FirstWnd <= Max({FirstWnd, RcvWnd}) /\ RcvWnd <= Max({FirstWnd, RcvWnd})
  <1> USE Constants
  <1>1. \A x \in {FirstWnd, RcvWnd} : x <= FirstWnd + RcvWnd
    OBVIOUS
  <1>2. QED
    BY <1>1, MaxIsGreatest

-----------------------------------------------------------------------------

\* Numbers of a state with the declared types.
Widest == Max({FirstWnd, RcvWnd})

Numbers ==
  /\ sent \in 0..Last /\ una \in 0..sent /\ sent - una < SndWnd + Longest
  /\ wnd \in 0..Widest
  /\ got \in una..sent /\ read \in 0..got /\ got - read <= RcvWnd
  /\ data \subseteq 0..sent
  /\ acks \subseteq Acks
  /\ \A a \in acks : a.una <= got

Rest ==
  /\ server \in Ends
  /\ task \in [Ends -> {"ready", "parked", "ended"}]
  /\ waker \cup flag \cup shut \cup gone \subseteq Ends

LEMMA Parts == IInv <=> Numbers /\ Rest
  BY DEF IInv, TypeOK, AcksOfGot, Numbers, Rest, Widest

\* What the windows let out has been written.
LEMMA WindowIsWritten ==
  ASSUME NEW s \in Nat, NEW u \in Nat, NEW w \in Nat
  PROVE  InWindow(s, u, w) \subseteq 0..s
  BY DEF InWindow

\* An acknowledgement of the reader says what it has.
LEMMA AckTypes ==
  ASSUME NEW g \in 0..Last, NEW d \in 0..g, g - d <= RcvWnd
  PROVE  Ack(g, d) \in Acks /\ Ack(g, d).una = g
  BY Constants DEF Ack, Acks

LEMMA Acknowledged ==
  ASSUME NEW g \in 0..Last, g >= got, got \in Nat, NEW a \in Acks, a.una <= g,
         acks \subseteq Acks, \A b \in acks : b.una <= got, Acknowledge(a)
  PROVE  acks' \subseteq Acks /\ \A b \in acks' : b.una <= g
  <1>1. acks' \subseteq acks \cup {a}
    BY DEF Acknowledge
  <1>2. \A b \in acks : b.una \in Nat /\ b.una <= g
    BY DEF Acks
  <1>3. QED
    BY <1>1, <1>2

\* Waking and parking.
LEMMA WakeTypes ==
  ASSUME Rest, NEW e \in Ends, NEW can, TryWake(e, can) \/ Park(e)
  PROVE  /\ task' \in [Ends -> {"ready", "parked", "ended"}]
         /\ waker' \subseteq Ends
  BY DEF Rest, TryWake, Park

-----------------------------------------------------------------------------

LEMMA InitIInv == Init => IInv
  <1> SUFFICES ASSUME Init PROVE Numbers /\ Rest
    BY Parts
  <1> USE Constants, LongestBounds, WindowBounds
  <1>1. Numbers
    BY DEF Init, Numbers, Widest
  <1>2. Rest
    BY DEF Init, Rest
  <1>3. QED
    BY <1>1, <1>2

\* A message more than less than a window.
LEMMA WithinWindow ==
  ASSUME NEW u \in Nat, NEW s \in Nat, NEW t \in Nat, NEW l \in Nat, NEW w \in Nat,
         s - u < w, t - s <= l
  PROVE  t - u < w + l
  OBVIOUS

LEMMA WriteStep ==
  ASSUME Numbers, Rest, Write
  PROVE  Numbers' /\ Rest'
  <1> USE Constants, LongestBounds, WindowBounds
  <1>1. sent \in 0..(Last - 1) /\ sent' = MessageEnd(sent)
    BY DEF Write, Numbers
  <1>2. sent' \in (sent + 1)..Last /\ sent' - sent <= Longest
    BY <1>1, EndOfMessage
  <1>3. /\ sent \in Nat /\ una \in Nat /\ una <= sent /\ sent' \in Nat /\ sent < sent'
        /\ sent' <= Last /\ Longest \in Nat /\ SndWnd \in Nat \ {0} /\ wnd \in Nat
    BY <1>1, <1>2 DEF Numbers, Widest
  <1>4. sent' - una < SndWnd + Longest
    <2>1. sent - una < SndWnd
      BY <1>3 DEF Write, Blocked, Full
    <2>2. QED
      BY <1>2, <1>3, <2>1, WithinWindow
  <1>5. InWindow(sent', una, wnd) \subseteq 0..sent'
    BY <1>3, WindowIsWritten
  <1>6. data' \subseteq 0..sent'
    <2>1. data' = data \cup InWindow(sent', una, wnd) /\ data \subseteq 0..sent
      BY DEF Write, Numbers
    <2>2. 0..sent \subseteq 0..sent'
      BY <1>3
    <2>3. QED
      BY <1>5, <2>1, <2>2
  <1>7. UNCHANGED <<una, wnd, got, read, acks, task, waker, server, flag, shut, gone>>
    BY DEF Write, ctl
  <1>8. Numbers'
    <2>1. sent' \in 0..Last /\ una \in 0..sent' /\ got \in una..sent'
      BY <1>3 DEF Numbers
    <2>2. QED
      BY <1>4, <1>6, <1>7, <2>1 DEF Numbers, Widest
  <1>9. Rest'
    BY <1>7 DEF Rest
  <1>10. QED
    BY <1>8, <1>9

LEMMA InputAckStep ==
  ASSUME Numbers, Rest, NEW a \in acks, InputAck(a)
  PROVE  Numbers' /\ Rest'
  <1> USE Constants, LongestBounds, WindowBounds
  <1>1. a.una \in 0..Last /\ a.wnd \in 0..RcvWnd /\ a.una <= got
    BY DEF Numbers, Acks
  <1>2. /\ una' = IF a.una > una THEN a.una ELSE una
        /\ wnd' = a.wnd /\ acks' = acks \ {a}
        /\ UNCHANGED <<sent, got, read, data, server, flag, shut, gone>>
    BY DEF InputAck, ctl
  <1>3. una' \in 0..sent /\ got \in una'..sent /\ sent - una' <= sent - una
    BY <1>1, <1>2 DEF Numbers
  <1>4. wnd' \in 0..Widest
    BY <1>1, <1>2 DEF Widest
  <1>5. Numbers'
    BY <1>2, <1>3, <1>4 DEF Numbers, Widest
  <1>6. Rest'
    <2>1. TryWake("w", ~Full(sent, una', wnd')) /\ "w" \in Ends
      BY DEF InputAck, Ends
    <2>2. task' \in [Ends -> {"ready", "parked", "ended"}] /\ waker' \subseteq Ends
      BY <2>1, WakeTypes
    <2>3. QED
      BY <1>2, <2>2 DEF Rest
  <1>7. QED
    BY <1>5, <1>6

LEMMA UpdateWriterStep ==
  ASSUME Numbers, Rest, UpdateWriter
  PROVE  Numbers' /\ Rest'
  <1> USE Constants, WindowBounds
  <1>1. /\ UNCHANGED <<sent, una, wnd, got, read, acks, server, flag, shut, gone>>
        /\ data' = data \cup InWindow(sent, una, wnd)
        /\ TryWake("w", ~Full(sent, una, wnd)) /\ "w" \in Ends
    BY DEF UpdateWriter, ctl, Ends
  <1>2. data' \subseteq 0..sent
    <2>1. sent \in Nat /\ una \in Nat /\ wnd \in Nat /\ data \subseteq 0..sent
      BY DEF Numbers, Widest
    <2>2. InWindow(sent, una, wnd) \subseteq 0..sent
      BY <2>1, WindowIsWritten
    <2>3. QED
      BY <1>1, <2>1, <2>2
  <1>3. Numbers'
    BY <1>1, <1>2 DEF Numbers, Widest
  <1>4. task' \in [Ends -> {"ready", "parked", "ended"}] /\ waker' \subseteq Ends
    BY <1>1, WakeTypes
  <1>5. Rest'
    BY <1>1, <1>4 DEF Rest
  <1>6. QED
    BY <1>3, <1>5

LEMMA ReadStep ==
  ASSUME Numbers, Rest, Read
  PROVE  Numbers' /\ Rest'
  <1> USE Constants, LongestBounds, WindowBounds
  <1>1. PICK b \in Bounds : read < b /\ b <= got
    BY DEF Read, Whole
  <1>2. read \in 0..(Last - 1)
    BY <1>1 DEF Numbers
  <1>3. read' = MessageEnd(read) /\ read' \in (read + 1)..got
    BY <1>1, <1>2, EndOfMessage DEF Read, Numbers
  <1>4. /\ UNCHANGED <<sent, una, wnd, got, data, task, waker, server, flag, shut, gone>>
        /\ (acks' = acks \/ Acknowledge(Ack(got, read')))
    BY DEF Read, ctl
  <1>5. got \in 0..Last /\ got \in Nat /\ read' \in 0..got /\ got - read' <= RcvWnd
    BY <1>3 DEF Numbers
  <1>6. Ack(got, read') \in Acks /\ Ack(got, read').una = got
    BY <1>5, AckTypes
  <1>7. acks' \subseteq Acks /\ \A x \in acks' : x.una <= got
    <2>1. CASE acks' = acks
      BY <2>1 DEF Numbers
    <2>2. CASE Acknowledge(Ack(got, read'))
      BY <1>5, <1>6, <2>2, Acknowledged DEF Numbers
    <2>3. QED
      BY <1>4, <2>1, <2>2
  <1>8. Numbers'
    BY <1>4, <1>5, <1>7 DEF Numbers, Widest
  <1>9. Rest'
    BY <1>4 DEF Rest
  <1>10. QED
    BY <1>8, <1>9

LEMMA InputStep ==
  ASSUME Numbers, Rest, NEW i \in data, Input(i)
  PROVE  Numbers' /\ Rest'
  <1> USE Constants, LongestBounds, WindowBounds
  <1>1. /\ data' = data \ {i}
        /\ got' = IF i = got + 1 /\ got - read < RcvWnd THEN i ELSE got
        /\ Acknowledge(Ack(got', read))
        /\ TryWake("r", Whole(got', read)) /\ "r" \in Ends
        /\ UNCHANGED <<sent, una, wnd, read, server, flag, shut, gone>>
    BY DEF Input, ctl, Ends
  <1>2. /\ i \in 0..sent /\ got' \in una..sent /\ got' \in 0..Last /\ got' >= got
        /\ read \in 0..got' /\ got' - read <= RcvWnd /\ got \in Nat
    BY <1>1 DEF Numbers
  <1>3. Ack(got', read) \in Acks /\ Ack(got', read).una = got'
    BY <1>2, AckTypes
  <1>4. acks' \subseteq Acks /\ \A x \in acks' : x.una <= got'
    BY <1>1, <1>2, <1>3, Acknowledged DEF Numbers
  <1>5. Numbers'
    BY <1>1, <1>2, <1>4 DEF Numbers, Widest
  <1>6. task' \in [Ends -> {"ready", "parked", "ended"}] /\ waker' \subseteq Ends
    BY <1>1, WakeTypes
  <1>7. Rest'
    BY <1>1, <1>6 DEF Rest
  <1>8. QED
    BY <1>5, <1>7

\* A step that only parks, wakes, ends or closes, or loses what is on its way.
LEMMA QuietStep ==
  ASSUME Numbers, Rest, UNCHANGED <<sent, una, wnd, got, read, server>>,
         data' \subseteq data, acks' \subseteq acks, Rest'
  PROVE  Numbers' /\ Rest'
  BY DEF Numbers, Widest

LEMMA StepIInv == IInv /\ [Next]_vars => IInv'
  <1> SUFFICES ASSUME Numbers, Rest, [Next]_vars PROVE Numbers' /\ Rest'
    BY Parts DEF Numbers, Rest, IInv, TypeOK, AcksOfGot, Widest
  <1> USE DEF ctl, link
  <1>1. CASE Write
    BY <1>1, WriteStep
  <1>2. CASE UpdateWriter
    BY <1>2, UpdateWriterStep
  <1>3. CASE Read
    BY <1>3, ReadStep
  <1>4. ASSUME NEW a \in acks, InputAck(a) PROVE Numbers' /\ Rest'
    BY <1>4, InputAckStep
  <1>5. ASSUME NEW i \in data, Input(i) PROVE Numbers' /\ Rest'
    BY <1>5, InputStep
  <1>6. CASE ParkWriter \/ ParkReader
    <2>1. \E e \in Ends : Park(e)
      BY <1>6 DEF ParkWriter, ParkReader, Ends
    <2>2. task' \in [Ends -> {"ready", "parked", "ended"}] /\ waker' \subseteq Ends
      BY <2>1, WakeTypes
    <2>3. UNCHANGED <<sent, una, wnd, got, read, data, acks, server, flag, shut, gone>>
      BY <1>6 DEF ParkWriter, ParkReader
    <2>4. Rest'
      BY <2>2, <2>3 DEF Rest
    <2>5. QED
      BY <2>3, <2>4, QuietStep
  <1>7. CASE WriteFails \/ ReadEof
    <2>1. Rest'
      BY <1>7 DEF WriteFails, ReadEof, Rest, Ends
    <2>2. QED
      BY <1>7, <2>1, QuietStep DEF WriteFails, ReadEof
  <1>8. CASE Lose
    <2>1. Rest'
      BY <1>8 DEF Lose, Rest
    <2>2. data' \subseteq data /\ acks' \subseteq acks
      BY <1>8 DEF Lose
    <2>3. QED
      BY <1>8, <2>1, <2>2, QuietStep DEF Lose
  <1>9. ASSUME NEW e \in Ends, Expire(e) \/ DropSession(e) \/ Vanish(e) PROVE Numbers' /\ Rest'
    <2>1. Rest'
      BY <1>9 DEF Expire, DropSession, Vanish, Rest
    <2>2. QED
      BY <1>9, <2>1, QuietStep DEF Expire, DropSession, Vanish
  <1>10. ASSUME NEW e \in Ends, EndLoop(e) PROVE Numbers' /\ Rest'
    <2>1. TryWake(e, TRUE) /\ shut' = shut \cup {e}
          /\ UNCHANGED <<sent, una, wnd, got, read, data, acks, server, flag, gone>>
      BY <1>10 DEF EndLoop, Close
    <2>2. task' \in [Ends -> {"ready", "parked", "ended"}] /\ waker' \subseteq Ends
      BY <2>1, WakeTypes
    <2>3. Rest'
      BY <2>1, <2>2 DEF Rest
    <2>4. QED
      BY <2>1, <2>3, QuietStep
  <1>11. CASE UNCHANGED vars
    <2>1. Rest'
      BY <1>11 DEF vars, Rest
    <2>2. QED
      BY <1>11, <2>1, QuietStep DEF vars
  <1>12. QED
    BY <1>1, <1>2, <1>3, <1>4, <1>5, <1>6, <1>7, <1>8, <1>9, <1>10, <1>11 DEF Next

\* The writer never has more than a window and one message unacknowledged, and
\* the reader never more than its window, whatever is lost or sent twice.
THEOREM WindowsHold == Spec => []TypeOK
  <1>1. IInv => TypeOK
    BY DEF IInv
  <1>2. QED
    BY <1>1, InitIInv, StepIInv, PTL DEF Spec
================================================================================
