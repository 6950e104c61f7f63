------------------------------- MODULE Framing -------------------------------
(***************************************************************************)
(* One direction of a connection: reader_and_writer turns packets into     *)
(* bytes at one end and the bytes into packets at the other.               *)
(*                                                                         *)
(* The writer sends a header, a null byte and the payload.  The stream is  *)
(* reliable and in order, but a read returns some prefix of what has       *)
(* arrived.  The reader keeps what it could not use in a buffer, with the  *)
(* header if it had got a whole one.                                       *)
(*                                                                         *)
(* A byte is the packet it belongs to and its part.  A header is HeadSize  *)
(* bytes and is parsed as JSON when they are all there and nothing else.   *)
(***************************************************************************)
EXTENDS Naturals, Sequences, SequencesExt

CONSTANTS
  Packets,    \* packets: their guids
  Sizes,      \* bound: payload sizes
  HeadSize,   \* number of bytes of a header
  NoHeader    \* the default header, with action Noop

ASSUME FramingAssumption ==
  /\ Sizes \subseteq Nat
  /\ HeadSize \in Nat \ {0}
  /\ NoHeader \notin Packets

VARIABLES
  size,       \* [Packets -> size of the payload]
  sent,       \* packets the writer has written, in order
  wire,       \* bytes on their way
  need,       \* need_more_data_for_previous_header
  header,     \* remaining_gdp_header
  buffer,     \* remaining_gdp_payload
  resets,     \* reset_counter
  handed,     \* packets handed to the FIB: sequence of [header, payload]
  pongs,      \* answers to a ping
  dead,       \* the task has panicked
  cast        \* bytes have been thrown away

vars == <<size, sent, wire, need, header, buffer, resets, handed, pongs, dead, cast>>

\* construct_gdp_packet_with_guid: what is handed to the FIB.
Packet(h, bytes) == [header |-> h, payload |-> bytes]

Ping == <<[of |-> NoHeader, part |-> "ping", at |-> 1]>>

\* get_header: what the header of p says of the bytes that follow.
LengthOf(p) == size[p]

\* Part "json" is a byte of a header, "null" the delimiter.
HeaderBytes(p) ==
  [i \in 1..(HeadSize + 1) |-> [of |-> p, part |-> IF i <= HeadSize THEN "json" ELSE "null",
                            at |-> i]]
PayloadBytes(p) == [i \in 1..size[p] |-> [of |-> p, part |-> "data", at |-> i]]

\* The end that makes the connection sends a ping first.
Init ==
  /\ size \in [Packets -> Sizes]
  /\ sent = <<>>
  /\ wire = Ping
  /\ need = FALSE
  /\ header = NoHeader
  /\ buffer = <<>>
  /\ resets = 0
  /\ handed = <<>>
  /\ pongs = 0
  /\ dead = FALSE
  /\ cast = FALSE

Write(p) ==
  /\ p \notin ToSet(sent)
  /\ sent' = Append(sent, p)
  /\ wire' = wire \o HeaderBytes(p) \o PayloadBytes(p)
  /\ UNCHANGED <<size, need, header, buffer, resets, handed, pongs, dead, cast>>

-----------------------------------------------------------------------------
(* parse_header_payload_pairs: the whole packets in the bytes and what is  *)
(* left, [pairs, rest], where rest is <<>> or <<header, bytes>>.           *)

\* Everything before the first null byte.
BeforeNull(b) == SelectInSeq(b, LAMBDA x : x.part = "null")

JsonOf(b) == IF BeforeNull(b) = 0 THEN b ELSE SubSeq(b, 1, BeforeNull(b) - 1)

\* from_str succeeds.
IsHeader(b) ==
  Len(b) = HeadSize /\ \A i \in 1..HeadSize : b[i].part = "json" /\ b[i].at = i /\ b[i].of = b[1].of

\* A round of the loop: s is the pairs found so far, the bytes that are still to be
\* parsed, what is left at the end, and whether the task has panicked.  A header
\* without its null byte does that: the loop takes the part after the null byte,
\* which is not there.
Round(s) ==
  LET b     == s.bytes
      h     == b[1].of
      after == SubSeq(b, BeforeNull(b) + 1, Len(b))
      End   == [s EXCEPT !.bytes = <<>>] IN
    IF b = <<>> THEN s
    ELSE IF ~IsHeader(JsonOf(b)) THEN [End EXCEPT !.rest = <<NoHeader, JsonOf(b)>>]
    ELSE IF BeforeNull(b) = 0 THEN [End EXCEPT !.panics = TRUE]
    ELSE IF LengthOf(h) > Len(after) THEN [End EXCEPT !.rest = <<h, after>>]
    ELSE [s EXCEPT !.pairs = Append(@, Packet(h, SubSeq(after, 1, LengthOf(h)))),
                   !.bytes = SubSeq(after, LengthOf(h) + 1, Len(after))]

\* Every round takes a byte at least.  Left out: bytes that are no UTF-8 before a
\* null byte make the parser panic; it can only meet them after it has thrown bytes
\* away, when it reads a payload for a header.
Parse(b) ==
  LET loop[k \in 0..Len(b)] ==
        IF k = 0 THEN [pairs |-> <<>>, bytes |-> b, rest |-> <<>>, panics |-> FALSE]
        ELSE Round(loop[k - 1])
  IN  loop[Len(b)]

-----------------------------------------------------------------------------
(* A read of n bytes.                                                      *)

Chunk(n) == SubSeq(wire, 1, n)

\* A read may return any bytes but a ping stands alone, as the KCP messages do.
Reads(n) ==
  /\ ~dead
  /\ n \in 1..Len(wire)
  /\ wire[1].part = "ping" => n = 1
  /\ wire' = SubSeq(wire, n + 1, Len(wire))
  /\ UNCHANGED <<size, sent>>

AnswerPing ==
  /\ wire # <<>>
  /\ Chunk(1) = Ping
  /\ Reads(1)
  /\ pongs' = pongs + 1
  /\ UNCHANGED <<need, header, buffer, resets, handed, dead, cast>>

\* What the reader has after it has parsed b: pairs ps are whole already.
Keep(ps, b) ==
  LET r == Parse(b) IN
    /\ UNCHANGED pongs
    /\ dead' = r.panics
    /\ IF r.panics
       THEN UNCHANGED <<handed, need, header, buffer>>
       ELSE /\ handed' = handed \o ps \o r.pairs
            /\ need' = (r.rest # <<>>)
            /\ header' = IF r.rest = <<>> THEN header ELSE r.rest[1]
            /\ buffer' = IF r.rest = <<>> THEN <<>> ELSE r.rest[2]

Total(n) == Len(buffer) + n

\* Nothing is left over from the last read.
ReadAfresh(n) ==
  /\ ~need
  /\ Reads(n)
  /\ wire[1].part # "ping"
  /\ Keep(<<>>, Chunk(n))
  /\ UNCHANGED <<resets, cast>>

\* Mutant of ReadOnHeader: the counter does not go back to 0.
ReadOnHeaderUncapped(n) ==
  /\ need
  /\ header = NoHeader
  /\ Reads(n)
  /\ resets' = resets + 1
  /\ cast' = (cast \/ resets + 1 > 5)
  /\ Keep(<<>>, IF resets + 1 > 5 THEN <<>> ELSE buffer \o Chunk(n))

\* Mutant of ReadOnHeader: the first part of the header is forgotten.
ReadOnHeaderAfresh(n) ==
  /\ need
  /\ header = NoHeader
  /\ Reads(n)
  /\ Keep(<<>>, Chunk(n))
  /\ UNCHANGED <<resets, cast>>

\* A header is incomplete.  The sixth time in the life of the connection the
\* bytes are thrown away.
ReadOnHeader(n) ==
  /\ need
  /\ header = NoHeader
  /\ Reads(n)
  /\ IF resets + 1 > 5
     THEN resets' = 0 /\ cast' = TRUE /\ Keep(<<>>, <<>>)
     ELSE /\ resets' = resets + 1
          /\ UNCHANGED cast
          /\ Keep(<<>>, buffer \o Chunk(n))

\* A payload is incomplete and stays so.
ReadOnPayload(n) ==
  /\ need
  /\ header # NoHeader
  /\ Total(n) < LengthOf(header)
  /\ Reads(n)
  /\ buffer' = buffer \o Chunk(n)
  /\ UNCHANGED <<need, header, resets, handed, pongs, dead, cast>>

\* Mutant of ReadToEnd: all that was read is taken for the payload.
ReadToEndOfChunk(n) ==
  /\ need
  /\ header # NoHeader
  /\ Total(n) >= LengthOf(header)
  /\ Reads(n)
  /\ Keep(<<Packet(header, buffer \o Chunk(n))>>, <<>>)
  /\ UNCHANGED <<resets, cast>>

\* It is complete, and perhaps more.
ReadToEnd(n) ==
  LET missing == LengthOf(header) - Len(buffer) IN
    /\ need
    /\ header # NoHeader
    /\ Total(n) >= LengthOf(header)
    /\ Reads(n)
    /\ Keep(<<Packet(header, buffer \o SubSeq(wire, 1, missing))>>,
            SubSeq(wire, missing + 1, n))
    /\ UNCHANGED <<resets, cast>>

Read ==
  \/ AnswerPing
  \/ \E n \in 1..Len(wire) : \/ ReadAfresh(n)
                             \/ ReadOnHeader(n)
                             \/ ReadOnPayload(n)
                             \/ ReadToEnd(n)

Next == Read \/ \E p \in Packets : Write(p)

Spec == Init /\ [][Next]_vars

-----------------------------------------------------------------------------
(* Properties.                                                             *)

Byte == [of : Packets \cup {NoHeader}, part : {"json", "null", "data", "ping"}, at : Nat]

\* Every variable has the type its declaration gives it.
TypeOK ==
  /\ size \in [Packets -> Sizes]
  /\ sent \in Seq(Packets)
  /\ wire \in Seq(Byte)
  /\ need \in BOOLEAN
  /\ header \in Packets \cup {NoHeader}
  /\ buffer \in Seq(Byte)
  /\ resets \in 0..5
  /\ handed \in Seq([header : Packets, payload : Seq(Byte)])
  /\ pongs \in Nat
  /\ {dead, cast} \subseteq BOOLEAN

\* However the reads cut and join the bytes, what is handed to the FIB are
\* packets that were written, in their order, each with its own whole payload;
\* and none is left out unless the reader has thrown bytes away.
HandedIsSent ==
  /\ \A i \in 1..Len(handed) :
       /\ handed[i].header \in ToSet(sent)
       /\ handed[i].payload = PayloadBytes(handed[i].header)
  /\ \A i, j \in 1..Len(handed), m, n \in 1..Len(sent) :
       i < j /\ sent[m] = handed[i].header /\ sent[n] = handed[j].header => m < n
  /\ ~cast => \A i \in 1..Len(handed) : handed[i].header = sent[i]

\* And when all bytes are read, every packet has been handed on: the reader
\* never sits on a whole packet while it waits for bytes.
NothingLeft ==
  wire = <<>> /\ ~dead /\ ~cast => Len(handed) = Len(sent) /\ ~need
=============================================================================
