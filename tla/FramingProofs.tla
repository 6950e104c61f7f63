---------------------------- MODULE FramingProofs ----------------------------
(***************************************************************************)
(* Proofs about the reader of a connection, for any packets of any sizes   *)
(* and any cuts of the byte stream.                                        *)
(***************************************************************************)
EXTENDS Framing, SequenceTheorems, WellFoundedInduction, TLAPS

\* What a connection has carried: the packets, the size of each, their bytes in a
\* row, and where each packet ends in it.
ByteAt(p, j) ==
  [of   |-> p,
   part |-> IF j <= HeadSize THEN "json" ELSE IF j = HeadSize + 1 THEN "null" ELSE "data",
   at   |-> IF j <= HeadSize + 1 THEN j ELSE j - (HeadSize + 1)]
Whole(S, p) == HeadSize + 1 + S.size[p]
PayloadIn(S, p) == [i \in 1..S.size[p] |-> [of |-> p, part |-> "data", at |-> i]]

Pairs == [header : Packets, payload : Seq(Byte)]

Stream(S) ==
  /\ S.size \in [Packets -> Nat]
  /\ S.sent \in Seq(Packets)
  /\ S.bytes \in Seq(Byte)
  /\ S.ends \in [0..Len(S.sent) -> 0..Len(S.bytes)]
  /\ S.ends[0] = 0 /\ S.ends[Len(S.sent)] = Len(S.bytes)
  /\ \A m, n \in 1..Len(S.sent) : S.sent[m] = S.sent[n] => m = n
  /\ \A m \in 1..Len(S.sent) : S.ends[m] = S.ends[m - 1] + Whole(S, S.sent[m])
  /\ \A m, n \in 0..Len(S.sent) : m < n => S.ends[m] < S.ends[n]
  /\ \A t \in 1..Len(S.bytes) : \E m \in 1..Len(S.sent) : S.ends[m - 1] < t /\ t <= S.ends[m]
  /\ \A m \in 1..Len(S.sent) : \A j \in 1..Whole(S, S.sent[m]) :
       S.bytes[S.ends[m - 1] + j] = ByteAt(S.sent[m], j)

\* b is what the stream has after its first s bytes.
Run(S, b, s) ==
  /\ s \in Nat /\ s + Len(b) <= Len(S.bytes)
  /\ \A i \in 1..Len(b) : b[i] = S.bytes[s + i]

\* hs are packets of the first s bytes, in their order and, when nothing has been
\* thrown away, all of them.
Passed(S, hs, s, thrown) ==
  /\ s \in Nat
  /\ hs \in Seq(Pairs)
  /\ \A i \in 1..Len(hs) : \E m \in 1..Len(S.sent) :
       S.ends[m] <= s /\ hs[i] = Packet(S.sent[m], PayloadIn(S, S.sent[m]))
  /\ \A i, j \in 1..Len(hs), m, n \in 1..Len(S.sent) :
       i < j /\ S.sent[m] = hs[i].header /\ S.sent[n] = hs[j].header => m < n
  /\ ~thrown => /\ Len(hs) <= Len(S.sent)
                /\ S.ends[Len(hs)] = s
                /\ \A i \in 1..Len(hs) : hs[i].header = S.sent[i]

\* A part of a header, from its first byte.
Headlike(b) ==
  /\ Len(b) <= HeadSize
  /\ \A i \in 1..Len(b) : b[i].part = "json" /\ b[i].at = i /\ b[i].of = b[1].of
NoNull(b) == \A i \in 1..Len(b) : b[i].part # "null"

\* The reader keeps the first bytes of a header; or bytes from which no header
\* will ever come, and that only after it has thrown some away; or a header with
\* the first bytes of its payload.  g bytes have been read.
OnHeader(S, hs, b, g, thrown) ==
  \/ /\ Len(b) <= g
     /\ Run(S, b, g - Len(b))
     /\ Passed(S, hs, g - Len(b), thrown)
     /\ thrown \/ b # <<>>
  \/ /\ thrown
     /\ ~Headlike(b)
     /\ Passed(S, hs, g, thrown)
OnPayload(S, hs, h, b, g, thrown) ==
  \E m \in 1..Len(S.sent) :
    /\ S.sent[m] = h
    /\ Len(b) < S.size[h]
    /\ g = S.ends[m - 1] + HeadSize + 1 + Len(b)
    /\ Run(S, b, S.ends[m - 1] + HeadSize + 1)
    /\ Passed(S, hs, S.ends[m - 1], thrown)
Reader(S, hs, more, h, b, g, thrown) ==
  /\ g \in 0..Len(S.bytes)
  /\ b \in Seq(Byte)
  /\ IF ~more THEN b = <<>> /\ Passed(S, hs, g, thrown)
     ELSE IF h = NoHeader THEN NoNull(b) /\ OnHeader(S, hs, b, g, thrown)
     ELSE h \in Packets /\ OnPayload(S, hs, h, b, g, thrown)

\* Nothing has been read.
Fresh ==
  /\ ~need /\ ~dead /\ ~cast
  /\ handed = <<>> /\ buffer = <<>>

Carries(S) ==
  /\ Stream(S)
  /\ S.sent = sent /\ S.size = size
  /\ IF pongs = 0 THEN Fresh /\ wire = Ping \o S.bytes
     ELSE \E g \in 0..Len(S.bytes) :
            /\ Run(S, wire, g) /\ g + Len(wire) = Len(S.bytes)
            /\ IF dead THEN \E s \in 0..Len(S.bytes) : Passed(S, handed, s, cast)
               ELSE Reader(S, handed, need, header, buffer, g, cast)

IInv == TypeOK /\ \E S : Carries(S)

-----------------------------------------------------------------------------
(* Sequences, numbers and the parser's loop.                               *)

\* A set of numbers that is not empty has a least one.
LEMMA LeastNumber ==
  ASSUME NEW S \in SUBSET Nat, S # {}
  PROVE  \E x \in S : \A y \in S : x <= y
  <1>1. PICK x \in S : \A y \in S : <<y, x>> \notin OpToRel(<, Nat)
    BY NatLessThanWellFounded, WFMin
  <1>2. \A y \in S : ~(y < x)
    BY <1>1 DEF OpToRel
  <1>3. QED
    BY <1>2

\* A set of numbers with 0 and with the successors of its members has all.
LEMMA Induction ==
  ASSUME NEW S, 0 \in S, \A i \in Nat : i \in S => i + 1 \in S
  PROVE  Nat \subseteq S
  <1> SUFFICES ASSUME Nat \ S # {} PROVE FALSE
    OBVIOUS
  <1>1. PICK x \in Nat \ S : \A y \in Nat \ S : x <= y
    BY LeastNumber
  <1>2. x - 1 \in Nat /\ x - 1 \in S
    BY <1>1
  <1>3. QED
    BY <1>1, <1>2

\* The part of a sequence from one place to another.
LEMMA Part ==
  ASSUME NEW A, NEW b \in Seq(A), NEW x \in 1..(Len(b) + 1), NEW y \in (x - 1)..Len(b)
  PROVE  /\ SubSeq(b, x, y) \in Seq(A)
         /\ Len(SubSeq(b, x, y)) = y + 1 - x
         /\ \A i \in 1..(y + 1 - x) : SubSeq(b, x, y)[i] = b[x + i - 1]
  <1>1. Len(b) \in Nat /\ \A i \in 1..Len(b) : b[i] \in A
    BY LenProperties
  <1>2. x \in Int /\ y \in Int /\ \A i \in x..y : b[i] \in A
    BY <1>1
  <1>3. /\ SubSeq(b, x, y) \in Seq(A)
        /\ Len(SubSeq(b, x, y)) = IF x <= y THEN y - x + 1 ELSE 0
        /\ \A i \in 1..(y - x + 1) : SubSeq(b, x, y)[i] = b[x + i - 1]
    BY <1>2, SubSeqProperties
  <1>4. QED
    BY <1>1, <1>3

\* The states of the loop, and what becomes of b after k rounds, for all k up to m.
Rests == {<<>>} \cup {<<h, b>> : h \in Packets \cup {NoHeader}, b \in Seq(Byte)}
States == [pairs : Seq(Pairs), bytes : Seq(Byte), rest : Rests, panics : BOOLEAN]
Start(b) == [pairs |-> <<>>, bytes |-> b, rest |-> <<>>, panics |-> FALSE]
Loops(f, b, m) == f = [k \in 0..m |-> IF k = 0 THEN Start(b) ELSE Round(f[k - 1])]

\* There is a function that runs the loop for any number of rounds.
LEMMA LoopExists ==
  ASSUME NEW b
  PROVE  \A m \in Nat : \E f : Loops(f, b, m)
  <1> DEFINE N == {m \in Nat : \E f : Loops(f, b, m)}
  <1>1. 0 \in N
    <2>1. Loops([k \in 0..0 |-> Start(b)], b, 0)
      BY DEF Loops
    <2>2. QED
      BY <2>1
  <1>2. ASSUME NEW m \in Nat, m \in N PROVE m + 1 \in N
    <2>1. PICK f : Loops(f, b, m)
      BY <1>2
    <2> DEFINE g == [k \in 0..(m + 1) |-> IF k = m + 1 THEN Round(f[m]) ELSE f[k]]
    <2>2. ASSUME NEW k \in 0..(m + 1)
          PROVE  g[k] = IF k = 0 THEN Start(b) ELSE Round(g[k - 1])
      <3>1. CASE k = m + 1
        BY <3>1
      <3>2. CASE k # m + 1
        <4>1. k \in 0..m /\ g[k] = f[k] /\ (k # 0 => k - 1 \in 0..m /\ g[k - 1] = f[k - 1])
          BY <3>2
        <4>2. f[k] = IF k = 0 THEN Start(b) ELSE Round(f[k - 1])
          BY <2>1, <4>1 DEF Loops
        <4>3. QED
          BY <4>1, <4>2
      <3>3. QED
        BY <3>1, <3>2
    <2>3. g = [k \in 0..(m + 1) |-> g[k]]
      OBVIOUS
    <2> HIDE DEF g
    <2>4. Loops(g, b, m + 1)
      BY <2>2, <2>3 DEF Loops
    <2>5. QED
      BY <2>4
  <1>3. Nat \subseteq N
    <2> HIDE DEF N
    <2>1. QED
      BY <1>1, <1>2, Induction
  <1>4. QED
    BY <1>3

\* What each round keeps holds of the result: I[k] may hold after k rounds.
LEMMA LoopKeeps ==
  ASSUME NEW b \in Seq(Byte), NEW I,
         Start(b) \in I[0],
         \A k \in Nat : \A s \in I[k] : Round(s) \in I[k + 1]
  PROVE  Parse(b) \in I[Len(b)]
  <1> DEFINE h == CHOOSE f : Loops(f, b, Len(b))
  <1>1. Len(b) \in Nat
    BY LenProperties
  <1>2. Loops(h, b, Len(b))
    BY <1>1, LoopExists
  <1>3. Parse(b) = h[Len(b)]
    BY DEF Parse, Loops, Start
  <1> HIDE DEF h
  <1>4. \A k \in 0..Len(b) : h[k] = IF k = 0 THEN Start(b) ELSE Round(h[k - 1])
    BY <1>2 DEF Loops
  <1> DEFINE N == {k \in Nat : k \in 0..Len(b) => h[k] \in I[k]}
  <1>5. 0 \in N
    BY <1>1, <1>4
  <1>6. ASSUME NEW k \in Nat, k \in N PROVE k + 1 \in N
    <2> SUFFICES ASSUME k + 1 \in 0..Len(b) PROVE h[k + 1] \in I[k + 1]
      OBVIOUS
    <2>1. h[k] \in I[k]
      BY <1>1, <1>6
    <2>2. h[k + 1] = Round(h[k])
      BY <1>4
    <2>3. QED
      BY <2>1, <2>2
  <1>7. Nat \subseteq N
    <2> HIDE DEF N
    <2>1. QED
      BY <1>5, <1>6, Induction
  <1>8. QED
    BY <1>1, <1>3, <1>7

-----------------------------------------------------------------------------
(* A header in the stream.                                                 *)

\* What comes before the first null byte of b.
LEMMA JsonEffect ==
  ASSUME NEW b \in Seq(Byte)
  PROVE  /\ BeforeNull(b) \in 0..Len(b)
         /\ JsonOf(b) \in Seq(Byte)
         /\ NoNull(JsonOf(b))
         /\ BeforeNull(b) = 0 => JsonOf(b) = b
         /\ BeforeNull(b) # 0 =>
              /\ b[BeforeNull(b)].part = "null"
              /\ Len(JsonOf(b)) = BeforeNull(b) - 1
              /\ \A i \in 1..Len(JsonOf(b)) : JsonOf(b)[i] = b[i]
  <1> DEFINE I == {i \in 1..Len(b) : b[i].part = "null"}
             z == BeforeNull(b)
  <1>1. Len(b) \in Nat
    BY LenProperties
  <1>2. z = IF I # {} THEN Min(I) ELSE 0
    BY DEF BeforeNull, SelectInSeq
  <1>3. CASE I = {}
    <2>1. z = 0 /\ JsonOf(b) = b
      BY <1>2, <1>3 DEF JsonOf
    <2>2. QED
      BY <1>1, <1>3, <2>1 DEF NoNull
  <1>4. CASE I # {}
    <2>1. PICK x \in I : \A y \in I : x <= y
      <3>1. I \in SUBSET Nat
        BY <1>1
      <3>2. QED
        BY <1>4, <3>1, LeastNumber
    <2>2. z \in I /\ \A y \in I : z <= y
      BY <1>2, <1>4, <2>1 DEF Min
    <2>3. z \in 1..Len(b) /\ b[z].part = "null" /\ JsonOf(b) = SubSeq(b, 1, z - 1)
      BY <1>1, <2>2 DEF JsonOf
    <2>4. /\ JsonOf(b) \in Seq(Byte) /\ Len(JsonOf(b)) = z - 1
          /\ \A i \in 1..(z - 1) : JsonOf(b)[i] = b[i]
      <3>1. /\ SubSeq(b, 1, z - 1) \in Seq(Byte)
            /\ Len(SubSeq(b, 1, z - 1)) = z - 1 + 1 - 1
            /\ \A i \in 1..(z - 1 + 1 - 1) : SubSeq(b, 1, z - 1)[i] = b[1 + i - 1]
        BY <1>1, <2>3, Part
      <3>2. z - 1 + 1 - 1 = z - 1 /\ \A i \in 1..(z - 1) : 1 + i - 1 = i
        BY <1>1, <2>3
      <3>3. QED
        BY <2>3, <3>1, <3>2
    <2>5. NoNull(JsonOf(b))
      <3> SUFFICES ASSUME NEW i \in 1..(z - 1), b[i].part = "null" PROVE FALSE
        BY <2>4 DEF NoNull
      <3>1. i \in I /\ i < z
        BY <1>1, <2>3
      <3>2. QED
        BY <1>1, <2>2, <2>3, <3>1
    <2>6. QED
      BY <1>1, <2>3, <2>4, <2>5
  <1>5. QED
    BY <1>3, <1>4

\* The numbers of a stream, and those of its packet m.
LEMMA Numbers ==
  ASSUME NEW S, Stream(S)
  PROVE  /\ Len(S.sent) \in Nat /\ Len(S.bytes) \in Nat
         /\ \A m \in 0..Len(S.sent) : S.ends[m] \in 0..Len(S.bytes)
         /\ \A m, n \in 0..Len(S.sent) : m <= n => S.ends[m] <= S.ends[n]
         /\ HeadSize \in Nat \ {0}
  <1>1. /\ Len(S.sent) \in Nat /\ Len(S.bytes) \in Nat
        /\ \A m \in 0..Len(S.sent) : S.ends[m] \in 0..Len(S.bytes)
    BY LenProperties DEF Stream
  <1>2. HeadSize \in Nat \ {0}
    BY FramingAssumption
  <1>3. ASSUME NEW m \in 0..Len(S.sent), NEW n \in 0..Len(S.sent), m <= n
        PROVE  S.ends[m] <= S.ends[n]
    <2>1. m < n \/ m = n
      BY <1>1, <1>3
    <2>2. m < n => S.ends[m] < S.ends[n]
      BY DEF Stream
    <2>3. QED
      BY <1>1, <2>1, <2>2
  <1>4. QED
    BY <1>1, <1>2, <1>3

LEMMA PacketNumbers ==
  ASSUME NEW S, Stream(S), NEW m \in 1..Len(S.sent)
  PROVE  /\ m \in Nat /\ m - 1 \in 0..Len(S.sent)
         /\ S.sent[m] \in Packets
         /\ S.size[S.sent[m]] \in Nat
         /\ Whole(S, S.sent[m]) = HeadSize + 1 + S.size[S.sent[m]]
         /\ Whole(S, S.sent[m]) \in Nat /\ Whole(S, S.sent[m]) >= HeadSize + 1
         /\ S.ends[m - 1] \in Nat /\ S.ends[m] \in Nat
         /\ S.ends[m] = S.ends[m - 1] + HeadSize + 1 + S.size[S.sent[m]]
  <1>1. m - 1 \in 0..Len(S.sent) /\ m \in 0..Len(S.sent)
    BY Numbers
  <1>2. S.ends[m - 1] \in Nat /\ S.ends[m] \in Nat
    BY <1>1, Numbers
  <1>3. S.sent[m] \in Packets
    <2>1. S.sent \in Seq(Packets)
      BY DEF Stream
    <2>2. QED
      BY <2>1, ElementOfSeq
  <1>4. S.size[S.sent[m]] \in Nat
    BY <1>3 DEF Stream
  <1>5. S.ends[m] = S.ends[m - 1] + Whole(S, S.sent[m])
    BY DEF Stream
  <1>6. Whole(S, S.sent[m]) = HeadSize + 1 + S.size[S.sent[m]]
    BY DEF Whole
  <1>7. HeadSize \in Nat
    BY Numbers
  <1>8. /\ Whole(S, S.sent[m]) \in Nat /\ Whole(S, S.sent[m]) >= HeadSize + 1
        /\ S.ends[m] = S.ends[m - 1] + HeadSize + 1 + S.size[S.sent[m]]
    <2> DEFINE w == Whole(S, S.sent[m])
               e == S.ends[m - 1]
               z == S.size[S.sent[m]]
    <2>1. w = HeadSize + 1 + z /\ S.ends[m] = e + w /\ e \in Nat /\ z \in Nat
      BY <1>2, <1>4, <1>5, <1>6
    <2> HIDE DEF w, e, z
    <2>2. w \in Nat /\ w >= HeadSize + 1 /\ S.ends[m] = e + HeadSize + 1 + z
      BY <1>7, <2>1
    <2>3. QED
      BY <2>2 DEF w, e, z
  <1>9. m \in Nat
    OBVIOUS
  <1>10. QED
    BY <1>1, <1>2, <1>3, <1>4, <1>6, <1>8, <1>9

\* A byte of the stream is one of a packet.
LEMMA Locate ==
  ASSUME NEW S, Stream(S), NEW t \in 1..Len(S.bytes)
  PROVE  \E m \in 1..Len(S.sent) : \E j \in 1..Whole(S, S.sent[m]) :
           /\ t = S.ends[m - 1] + j
           /\ S.bytes[t] = ByteAt(S.sent[m], j)
  <1>1. PICK m \in 1..Len(S.sent) : S.ends[m - 1] < t /\ t <= S.ends[m]
    BY DEF Stream
  <1>2. S.ends[m] = S.ends[m - 1] + Whole(S, S.sent[m])
    BY DEF Stream
  <1>3. Whole(S, S.sent[m]) \in Nat /\ S.ends[m - 1] \in Nat
    BY PacketNumbers
  <1>4. t - S.ends[m - 1] \in 1..Whole(S, S.sent[m])
    BY <1>1, <1>2, <1>3
  <1>5. S.bytes[S.ends[m - 1] + (t - S.ends[m - 1])] = ByteAt(S.sent[m], t - S.ends[m - 1])
    BY <1>4 DEF Stream
  <1>6. t = S.ends[m - 1] + (t - S.ends[m - 1])
    BY <1>3
  <1>7. QED
    BY <1>4, <1>5, <1>6

\* Bytes of the stream that begin with those of packet m.
LEMMA AtPacket ==
  ASSUME NEW S, Stream(S), NEW b, NEW m \in 1..Len(S.sent), Run(S, b, S.ends[m - 1]),
         NEW i \in 1..Len(b), i <= Whole(S, S.sent[m])
  PROVE  b[i] = ByteAt(S.sent[m], i)
  BY DEF Stream, Run

\* A header is found only where a packet begins.
LEMMA HeadAt ==
  ASSUME NEW S, Stream(S), NEW b \in Seq(Byte), NEW s, Run(S, b, s),
         IsHeader(JsonOf(b))
  PROVE  \E m \in 1..Len(S.sent) :
           /\ s = S.ends[m - 1]
           /\ b[1].of = S.sent[m]
           /\ BeforeNull(b) \in {0, HeadSize + 1}
  <1>1. HeadSize \in Nat \ {0} /\ Len(b) \in Nat /\ Len(S.bytes) \in Nat
    BY Numbers, LenProperties
  <1>2. /\ Len(JsonOf(b)) = HeadSize
        /\ JsonOf(b)[1].part = "json" /\ JsonOf(b)[1].at = 1
    BY <1>1 DEF IsHeader
  <1>3. /\ b[1] = JsonOf(b)[1] /\ 1 \in 1..Len(b)
        /\ BeforeNull(b) \in {0, HeadSize + 1}
    BY <1>1, <1>2, JsonEffect
  <1>4. s \in Nat /\ s + 1 \in 1..Len(S.bytes) /\ b[1] = S.bytes[s + 1]
    BY <1>1, <1>3 DEF Run
  <1>5. PICK m \in 1..Len(S.sent) : \E j \in 1..Whole(S, S.sent[m]) :
          s + 1 = S.ends[m - 1] + j /\ S.bytes[s + 1] = ByteAt(S.sent[m], j)
    BY <1>4, Locate
  <1> PICK j \in 1..Whole(S, S.sent[m]) :
          s + 1 = S.ends[m - 1] + j /\ S.bytes[s + 1] = ByteAt(S.sent[m], j)
    BY <1>5
  <1>6. Whole(S, S.sent[m]) \in Nat /\ S.ends[m - 1] \in Nat
    BY PacketNumbers
  <1>7. j = 1 /\ b[1].of = S.sent[m]
    BY <1>1, <1>2, <1>3, <1>4, <1>6 DEF ByteAt
  <1>8. s = S.ends[m - 1]
    BY <1>4, <1>6, <1>7
  <1>9. QED
    BY <1>3, <1>7, <1>8

-----------------------------------------------------------------------------
(* What the parser leaves when it finds no header.                         *)

\* Once bytes have been thrown away, what was handed on is only known to come
\* from before.
LEMMA PassedLater ==
  ASSUME NEW S, Stream(S), NEW hs, NEW s, NEW c, c, Passed(S, hs, s, c),
         NEW g \in Nat, s <= g
  PROVE  Passed(S, hs, g, c)
  <1>1. s \in Nat /\ \A m \in 0..Len(S.sent) : S.ends[m] \in Nat
    BY Numbers DEF Passed
  <1>2. ASSUME NEW i \in 1..Len(hs)
        PROVE  \E m \in 1..Len(S.sent) :
                 S.ends[m] <= g /\ hs[i] = Packet(S.sent[m], PayloadIn(S, S.sent[m]))
    <2>1. PICK m \in 1..Len(S.sent) :
            S.ends[m] <= s /\ hs[i] = Packet(S.sent[m], PayloadIn(S, S.sent[m]))
      BY DEF Passed
    <2>2. S.ends[m] <= g
      BY <1>1, <2>1, PacketNumbers
    <2>3. QED
      BY <2>1, <2>2
  <1>3. QED
    BY <1>2 DEF Passed

\* Where nothing was thrown away, bytes that follow the packets handed on begin
\* with those of the next.
LEMMA NextPacket ==
  ASSUME NEW S, Stream(S), NEW hs, NEW s, Passed(S, hs, s, FALSE), s < Len(S.bytes)
  PROVE  /\ Len(hs) + 1 \in 1..Len(S.sent)
         /\ s = S.ends[(Len(hs) + 1) - 1]
  <1>1. /\ Len(hs) \in Nat /\ Len(hs) <= Len(S.sent) /\ S.ends[Len(hs)] = s /\ s \in Nat
    BY LenProperties DEF Passed
  <1>2. Len(S.sent) \in Nat /\ Len(S.bytes) \in Nat
    BY Numbers
  <1>3. Len(hs) # Len(S.sent)
    BY <1>1, <1>2 DEF Stream
  <1>4. (Len(hs) + 1) - 1 = Len(hs)
    BY <1>1
  <1>5. QED
    BY <1>1, <1>2, <1>3, <1>4

\* A null byte in them comes after a whole header.
LEMMA NoNullYet ==
  ASSUME NEW S, Stream(S), NEW hs, NEW s, Passed(S, hs, s, FALSE),
         NEW b \in Seq(Byte), b # <<>>, Run(S, b, s), ~IsHeader(JsonOf(b))
  PROVE  BeforeNull(b) = 0
  <1> DEFINE z == BeforeNull(b)
             m == Len(hs) + 1
             p == S.sent[m]
  <1> SUFFICES ASSUME z # 0 PROVE FALSE
    OBVIOUS
  <1>1. /\ Len(b) \in Nat \ {0} /\ s \in Nat /\ s + Len(b) <= Len(S.bytes)
        /\ Len(S.bytes) \in Nat
    BY EmptySeq, Numbers DEF Run
  <1>2. s < Len(S.bytes)
    BY <1>1
  <1>3. m \in 1..Len(S.sent) /\ s = S.ends[m - 1]
    BY <1>2, NextPacket
  <1>4. Whole(S, p) \in Nat /\ Whole(S, p) >= HeadSize + 1 /\ HeadSize \in Nat \ {0}
    <2> HIDE DEF m
    <2>1. QED
      BY <1>3, PacketNumbers, Numbers
  <1>5. /\ z \in 1..Len(b) /\ b[z].part = "null"
        /\ Len(JsonOf(b)) = z - 1 /\ NoNull(JsonOf(b))
        /\ \A i \in 1..(z - 1) : JsonOf(b)[i] = b[i]
    BY <1>1, JsonEffect
  <1> HIDE DEF m, z
  <1>6. \A i \in 1..Len(b) : i <= Whole(S, p) => b[i] = ByteAt(p, i)
    BY <1>3, AtPacket
  <1> HIDE DEF p
  <1>7. z <= HeadSize + 1
    <2> SUFFICES ASSUME HeadSize + 1 < z PROVE FALSE
      BY <1>1, <1>4, <1>5
    <2>1. HeadSize + 1 \in 1..(z - 1) /\ HeadSize + 1 \in 1..Len(b)
      BY <1>1, <1>4, <1>5
    <2>2. b[HeadSize + 1] = ByteAt(p, HeadSize + 1)
      BY <1>4, <1>6, <2>1
    <2>3. b[HeadSize + 1].part = "null"
      BY <1>4, <2>2 DEF ByteAt
    <2>4. QED
      BY <1>5, <2>1, <2>3 DEF NoNull
  <1>8. z = HeadSize + 1
    <2>1. b[z] = ByteAt(p, z)
      BY <1>1, <1>4, <1>5, <1>6, <1>7
    <2>2. ~(z <= HeadSize)
      BY <1>5, <2>1 DEF ByteAt
    <2>3. QED
      BY <1>1, <1>4, <1>5, <1>7, <2>2
  <1>9. \A i \in 1..HeadSize : JsonOf(b)[i] = ByteAt(p, i)
    <2> SUFFICES ASSUME NEW i \in 1..HeadSize PROVE JsonOf(b)[i] = ByteAt(p, i)
      OBVIOUS
    <2>1. i \in 1..(z - 1) /\ i \in 1..Len(b) /\ i <= Whole(S, p)
      BY <1>1, <1>4, <1>5, <1>8
    <2>2. QED
      BY <1>5, <1>6, <2>1
  <1>10. IsHeader(JsonOf(b))
    BY <1>4, <1>5, <1>8, <1>9 DEF IsHeader, ByteAt
  <1>11. QED
    BY <1>10

\* Bytes before a null byte that look like the beginning of a header are a header.
LEMMA NotHeadlike ==
  ASSUME NEW S, Stream(S), NEW s, NEW b \in Seq(Byte), Run(S, b, s),
         ~IsHeader(JsonOf(b)), BeforeNull(b) \notin {0, 1}
  PROVE  ~Headlike(JsonOf(b))
  <1> DEFINE z == BeforeNull(b)
             X == JsonOf(b)
  <1> SUFFICES ASSUME Headlike(X) PROVE FALSE
    OBVIOUS
  <1>1. /\ Len(b) \in Nat /\ s \in Nat /\ s + Len(b) <= Len(S.bytes)
        /\ Len(S.bytes) \in Nat /\ HeadSize \in Nat \ {0}
    BY LenProperties, Numbers DEF Run
  <1>2. /\ z \in 2..Len(b) /\ b[z].part = "null" /\ Len(X) = z - 1
        /\ \A i \in 1..(z - 1) : X[i] = b[i]
    BY <1>1, JsonEffect
  <1>3. /\ z - 1 <= HeadSize
        /\ \A i \in 1..(z - 1) : X[i].part = "json" /\ X[i].at = i /\ X[i].of = X[1].of
    BY <1>2 DEF Headlike
  <1> HIDE DEF z, X
  <1>4. z - 1 # HeadSize
    <2> SUFFICES ASSUME z - 1 = HeadSize PROVE FALSE
      OBVIOUS
    <2>1. IsHeader(X)
      BY <1>2, <1>3 DEF IsHeader
    <2>2. QED
      BY <2>1 DEF X
  <1>5. b[z - 1].part = "json" /\ b[z - 1].at = z - 1
    BY <1>1, <1>2, <1>3
  <1> DEFINE t == s + (z - 1)
  <1>6. /\ t \in 1..Len(S.bytes) /\ t + 1 = s + z
        /\ b[z - 1] = S.bytes[t] /\ b[z] = S.bytes[t + 1]
    BY <1>1, <1>2 DEF Run
  <1> HIDE DEF t
  <1>7. PICK m \in 1..Len(S.sent) : \E j \in 1..Whole(S, S.sent[m]) :
          t = S.ends[m - 1] + j /\ S.bytes[t] = ByteAt(S.sent[m], j)
    BY <1>6, Locate
  <1>8. PICK j \in 1..Whole(S, S.sent[m]) :
          t = S.ends[m - 1] + j /\ S.bytes[t] = ByteAt(S.sent[m], j)
    BY <1>7
  <1>9. /\ Whole(S, S.sent[m]) \in Nat /\ Whole(S, S.sent[m]) >= HeadSize + 1
        /\ S.ends[m - 1] \in Nat
    BY PacketNumbers
  <1>10. j = z - 1 /\ j < HeadSize
    BY <1>1, <1>2, <1>3, <1>4, <1>5, <1>6, <1>8, <1>9 DEF ByteAt
  <1>11. j + 1 \in 1..Whole(S, S.sent[m]) /\ t + 1 = S.ends[m - 1] + (j + 1)
    <2> DEFINE e == S.ends[m - 1]
               w == Whole(S, S.sent[m])
    <2>1. t = e + j /\ e \in Nat /\ w \in Nat /\ w >= HeadSize + 1 /\ j \in Nat
      BY <1>8, <1>9
    <2> HIDE DEF e, w
    <2>2. j + 1 \in 1..w /\ t + 1 = e + (j + 1)
      BY <1>1, <1>10, <2>1, SMTT(30)
    <2>3. QED
      BY <2>2 DEF e, w
  <1>12. S.bytes[t + 1] = ByteAt(S.sent[m], j + 1)
    BY <1>11 DEF Stream
  <1>13. ByteAt(S.sent[m], j + 1).part = "json"
    BY <1>1, <1>9, <1>10 DEF ByteAt
  <1>14. QED
    BY <1>2, <1>6, <1>12, <1>13

\* The reader keeps what may become a header.
LEMMA KeptForHeader ==
  ASSUME NEW S, Stream(S), NEW hs, NEW s, NEW c \in BOOLEAN, Passed(S, hs, s, c),
         NEW b \in Seq(Byte), b # <<>>, Run(S, b, s), ~IsHeader(JsonOf(b))
  PROVE  Reader(S, hs, TRUE, NoHeader, JsonOf(b), s + Len(b), c)
  <1> DEFINE g == s + Len(b)
             X == JsonOf(b)
             z == BeforeNull(b)
  <1>1. /\ Len(b) \in Nat \ {0} /\ s \in Nat /\ Len(S.bytes) \in Nat
        /\ g \in 0..Len(S.bytes) /\ g \in Nat /\ g - Len(b) = s /\ s <= g /\ Len(b) <= g
    BY EmptySeq, Numbers DEF Run
  <1>2. X \in Seq(Byte) /\ NoNull(X) /\ z \in Nat
    BY <1>1, JsonEffect
  <1>3. OnHeader(S, hs, X, g, c)
    <2>1. CASE z = 0
      <3>1. X = b
        BY <2>1, JsonEffect
      <3>2. QED
        BY <1>1, <3>1 DEF OnHeader
    <2>2. CASE z # 0
      <3>1. c
        <4> SUFFICES ASSUME c = FALSE PROVE FALSE
          OBVIOUS
        <4>1. Passed(S, hs, s, FALSE)
          OBVIOUS
        <4>2. QED
          BY <2>2, <4>1, NoNullYet
      <3>2. Passed(S, hs, g, c)
        BY <1>1, <3>1, PassedLater
      <3>3. CASE z = 1
        <4>1. Len(X) = 0
          BY <3>3, JsonEffect
        <4>2. g - Len(X) = g /\ Len(X) <= g
          BY <1>1, <4>1
        <4>3. Run(S, X, g)
          BY <1>1, <4>1 DEF Run
        <4>4. QED
          BY <3>1, <3>2, <4>2, <4>3 DEF OnHeader
      <3>4. CASE z # 1
        <4>1. ~Headlike(X)
          BY <2>2, <3>4, NotHeadlike
        <4>2. QED
          BY <3>1, <3>2, <4>1 DEF OnHeader
      <3>5. QED
        BY <3>3, <3>4
    <2>3. QED
      BY <2>1, <2>2
  <1> HIDE DEF g, X
  <1>4. Reader(S, hs, TRUE, NoHeader, X, g, c)
    BY <1>1, <1>2, <1>3 DEF Reader
  <1>5. QED
    BY <1>4 DEF g, X

-----------------------------------------------------------------------------
(* A round of the parser.                                                  *)

\* The payload of a packet has the length that its header says.
LEMMA PayloadType ==
  ASSUME NEW S, Stream(S), NEW m \in 1..Len(S.sent)
  PROVE  /\ PayloadIn(S, S.sent[m]) \in Seq(Byte)
         /\ Len(PayloadIn(S, S.sent[m])) = S.size[S.sent[m]]
         /\ Packet(S.sent[m], PayloadIn(S, S.sent[m])) \in Pairs
  <1> DEFINE p == S.sent[m]
             x == PayloadIn(S, p)
  <1>1. p \in Packets /\ S.size[p] \in Nat
    BY PacketNumbers
  <1> HIDE DEF p
  <1>2. x \in [1..S.size[p] -> Byte]
    BY <1>1 DEF PayloadIn, Byte
  <1> HIDE DEF x
  <1>3. x \in Seq(Byte)
    BY <1>1, <1>2, SeqDef
  <1>4. Len(x) = S.size[p]
    <2>1. DOMAIN x = 1..S.size[p] /\ DOMAIN x = 1..Len(x) /\ Len(x) \in Nat
      BY <1>2, <1>3, LenProperties
    <2>2. QED
      BY <1>1, <2>1
  <1>5. Packet(p, x) \in Pairs
    BY <1>1, <1>3 DEF Packet, Pairs
  <1>6. QED
    BY <1>3, <1>4, <1>5 DEF p, x

\* The bytes after a header are the payload.
LEMMA PayloadRead ==
  ASSUME NEW S, Stream(S), S.size = size, NEW m \in 1..Len(S.sent),
         NEW b \in Seq(Byte), Run(S, b, S.ends[m - 1] + HeadSize + 1),
         LengthOf(S.sent[m]) <= Len(b)
  PROVE  SubSeq(b, 1, LengthOf(S.sent[m])) = PayloadIn(S, S.sent[m])
  <1> DEFINE p == S.sent[m]
             n == S.size[p]
             e == S.ends[m - 1]
             x == SubSeq(b, 1, n)
             y == PayloadIn(S, p)
  <1>1. /\ n \in Nat /\ e \in Nat /\ Whole(S, p) = HeadSize + 1 + n
        /\ HeadSize \in Nat \ {0} /\ Len(b) \in Nat /\ n = LengthOf(p) /\ n <= Len(b)
    BY PacketNumbers, Numbers, LenProperties DEF LengthOf
  <1>2. x \in Seq(Byte) /\ Len(x) = n /\ \A i \in 1..n : x[i] = b[i]
    <2>1. 1 \in 1..(Len(b) + 1) /\ n \in (1 - 1)..Len(b) /\ n + 1 - 1 = n
      BY <1>1
    <2>2. /\ x \in Seq(Byte) /\ Len(x) = n + 1 - 1
          /\ \A i \in 1..(n + 1 - 1) : x[i] = b[1 + i - 1]
      <3> HIDE DEF n
      <3>1. QED
        BY <2>1, Part
    <2>3. \A i \in 1..n : 1 + i - 1 = i
      OBVIOUS
    <2>4. QED
      BY <2>1, <2>2, <2>3
  <1>3. y \in Seq(Byte) /\ Len(y) = n
    BY PayloadType
  <1>4. ASSUME NEW i \in 1..n PROVE x[i] = y[i]
    <2>1. HeadSize + 1 + i \in 1..Whole(S, p) /\ i \in 1..Len(b)
      <3> HIDE DEF n
      <3>1. QED
        BY <1>1, SMTT(30)
    <2>2. S.bytes[e + (HeadSize + 1 + i)] = ByteAt(p, HeadSize + 1 + i)
      BY <2>1 DEF Stream
    <2>3. b[i] = S.bytes[(e + HeadSize + 1) + i]
      BY <2>1 DEF Run
    <2>4. (e + HeadSize + 1) + i = e + (HeadSize + 1 + i)
      <3> HIDE DEF e, n
      <3>1. QED
        BY <1>1
    <2>5. ByteAt(p, HeadSize + 1 + i) = [of |-> p, part |-> "data", at |-> i]
      <3> HIDE DEF p, n
      <3>1. QED
        BY <1>1, SMTT(30) DEF ByteAt
    <2>6. y[i] = [of |-> p, part |-> "data", at |-> i]
      BY DEF PayloadIn
    <2>7. x[i] = b[i]
      BY <1>2
    <2>8. QED
      BY <2>2, <2>3, <2>4, <2>5, <2>6, <2>7
  <1>5. x = y
    <2> HIDE DEF x, y, n
    <2>1. Len(x) = Len(y) /\ \A i \in 1..Len(x) : x[i] = y[i]
      BY <1>2, <1>3, <1>4
    <2>2. QED
      BY <1>2, <1>3, <2>1, SeqEqual
  <1>6. QED
    BY <1>1, <1>5

\* One more packet is handed on.
LEMMA PassedMore ==
  ASSUME NEW S, Stream(S), NEW m \in 1..Len(S.sent), NEW hs, NEW c,
         Passed(S, hs, S.ends[m - 1], c)
  PROVE  Passed(S, Append(hs, Packet(S.sent[m], PayloadIn(S, S.sent[m]))), S.ends[m], c)
  <1> DEFINE p == S.sent[m]
             x == Packet(p, PayloadIn(S, p))
             t == Append(hs, x)
             e == S.ends[m - 1]
  <1>1. x \in Pairs /\ hs \in Seq(Pairs) /\ Len(hs) \in Nat
    BY PayloadType, LenProperties DEF Passed
  <1>2. /\ t \in Seq(Pairs) /\ Len(t) = Len(hs) + 1 /\ t[Len(hs) + 1] = x
        /\ \A i \in 1..Len(hs) : t[i] = hs[i]
    <2> HIDE DEF x
    <2>1. QED
      BY <1>1, AppendProperties
  <1>3. m - 1 \in 0..Len(S.sent) /\ m \in 0..Len(S.sent) /\ m - 1 < m /\ m \in Nat
    BY PacketNumbers
  <1>4. /\ e \in Nat /\ S.ends[m] \in Nat /\ e < S.ends[m]
        /\ \A n \in 1..Len(S.sent) : S.ends[n] \in Nat /\ n \in 0..Len(S.sent)
    <2>1. e < S.ends[m]
      BY <1>3 DEF Stream
    <2>2. QED
      BY <2>1, PacketNumbers
  <1>5. x.header = p
    BY DEF Packet
  <1>6. \A i \in 1..Len(t) : i \in 1..Len(hs) \/ i = Len(hs) + 1
    BY <1>1, <1>2
  <1> HIDE DEF x, t
  <1>7. ASSUME NEW i \in 1..Len(hs)
        PROVE  \E n \in 1..Len(S.sent) :
                 /\ n < m /\ S.ends[n] <= S.ends[m]
                 /\ hs[i] = Packet(S.sent[n], PayloadIn(S, S.sent[n]))
                 /\ hs[i].header = S.sent[n]
    <2>1. PICK n \in 1..Len(S.sent) :
            S.ends[n] <= e /\ hs[i] = Packet(S.sent[n], PayloadIn(S, S.sent[n]))
      BY DEF Passed
    <2>2. n < m
      <3> SUFFICES ASSUME m - 1 < n PROVE FALSE
        BY <1>3
      <3>1. e < S.ends[n]
        BY <1>3, <1>4 DEF Stream
      <3>2. QED
        BY <1>4, <2>1, <3>1
    <2>3. QED
      BY <1>4, <2>1, <2>2, SMTT(30) DEF Packet
  <1>8. \A i \in 1..Len(t) : \E n \in 1..Len(S.sent) :
          S.ends[n] <= S.ends[m] /\ t[i] = Packet(S.sent[n], PayloadIn(S, S.sent[n]))
    <2> SUFFICES ASSUME NEW i \in 1..Len(t)
                 PROVE  \E n \in 1..Len(S.sent) :
                          /\ S.ends[n] <= S.ends[m]
                          /\ t[i] = Packet(S.sent[n], PayloadIn(S, S.sent[n]))
      OBVIOUS
    <2>1. CASE i \in 1..Len(hs)
      BY <1>2, <1>7, <2>1
    <2>2. CASE i = Len(hs) + 1
      <3>1. t[i] = Packet(S.sent[m], PayloadIn(S, S.sent[m])) /\ S.ends[m] <= S.ends[m]
        BY <1>2, <1>4, <2>2 DEF x
      <3>2. QED
        BY <3>1
    <2>3. QED
      BY <1>6, <2>1, <2>2
  <1>9. ASSUME NEW i \in 1..Len(t), NEW j \in 1..Len(t),
               NEW u \in 1..Len(S.sent), NEW v \in 1..Len(S.sent),
               i < j, S.sent[u] = t[i].header, S.sent[v] = t[j].header
        PROVE  u < v
    <2>1. i \in 1..Len(hs)
      BY <1>1, <1>2, <1>9
    <2>2. CASE j \in 1..Len(hs)
      <3>1. t[i] = hs[i] /\ t[j] = hs[j]
        BY <1>2, <2>1, <2>2
      <3>2. QED
        BY <1>9, <2>1, <2>2, <3>1 DEF Passed
    <2>3. CASE j = Len(hs) + 1
      <3>1. v = m
        BY <1>2, <1>5, <1>9, <2>3 DEF Stream
      <3>2. PICK n \in 1..Len(S.sent) : n < m /\ hs[i].header = S.sent[n]
        BY <1>7, <2>1
      <3>3. u = n
        BY <1>2, <1>9, <2>1, <3>2 DEF Stream
      <3>4. QED
        BY <3>1, <3>2, <3>3
    <2>4. QED
      BY <1>6, <2>2, <2>3
  <1>10. ASSUME ~c
         PROVE  /\ Len(t) <= Len(S.sent) /\ S.ends[Len(t)] = S.ends[m]
                /\ \A i \in 1..Len(t) : t[i].header = S.sent[i]
    <2>1. /\ Len(hs) <= Len(S.sent) /\ S.ends[Len(hs)] = e
          /\ \A i \in 1..Len(hs) : hs[i].header = S.sent[i]
      BY <1>10 DEF Passed
    <2>2. Len(S.sent) \in Nat /\ Len(hs) \in 0..Len(S.sent)
      BY <1>1, <2>1, Numbers
    <2>3. Len(hs) = m - 1
      <3>1. ~(Len(hs) < m - 1)
        <4>1. Len(hs) < m - 1 => S.ends[Len(hs)] < e
          BY <1>3, <2>2 DEF Stream
        <4>2. QED
          BY <1>4, <2>1, <4>1
      <3>2. ~(m - 1 < Len(hs))
        <4>1. m - 1 < Len(hs) => e < S.ends[Len(hs)]
          BY <1>3, <2>2 DEF Stream
        <4>2. QED
          BY <1>4, <2>1, <4>1
      <3>3. QED
        BY <1>3, <2>2, <3>1, <3>2
    <2>4. Len(t) = m
      BY <1>2, <1>3, <2>3
    <2>5. \A i \in 1..Len(t) : t[i].header = S.sent[i]
      BY <1>2, <1>3, <1>5, <1>6, <2>1, <2>3
    <2>6. QED
      BY <1>3, <2>2, <2>4, <2>5
  <1>11. Passed(S, t, S.ends[m], c)
    BY <1>2, <1>4, <1>8, <1>9, <1>10 DEF Passed
  <1>12. QED
    BY <1>11 DEF t, x

\* The loop between two rounds: g bytes have been read when it ends, and what has
\* been handed on before is hs.
Halfway(S, hs, g, c, r) ==
  IF r.bytes # <<>>
  THEN /\ r.rest = <<>> /\ ~r.panics
       /\ Len(r.bytes) <= g
       /\ Run(S, r.bytes, g - Len(r.bytes))
       /\ Passed(S, hs \o r.pairs, g - Len(r.bytes), c)
  ELSE \/ r.panics
       \/ IF r.rest = <<>> THEN Passed(S, hs \o r.pairs, g, c)
          ELSE Reader(S, hs \o r.pairs, TRUE, r.rest[1], r.rest[2], g, c)

\* A part of a run, from its (x + 1)-th byte to its y-th.
LEMMA RunSlice ==
  ASSUME NEW S, Stream(S), NEW s, NEW b \in Seq(Byte), Run(S, b, s),
         NEW x \in Nat, NEW y \in Nat, x <= y, y <= Len(b)
  PROVE  /\ SubSeq(b, x + 1, y) \in Seq(Byte)
         /\ Len(SubSeq(b, x + 1, y)) = y - x
         /\ Run(S, SubSeq(b, x + 1, y), s + x)
  <1>1. PICK l \in Nat : l = Len(b)
    BY LenProperties
  <1>2. PICK k \in Nat : k = Len(S.bytes)
    BY Numbers
  <1>3. /\ s \in Nat /\ s + l <= k
        /\ \A i \in 1..l : b[i] = S.bytes[s + i]
    BY <1>1, <1>2 DEF Run
  <1>4. /\ SubSeq(b, x + 1, y) \in Seq(Byte)
        /\ Len(SubSeq(b, x + 1, y)) = y + 1 - (x + 1)
        /\ \A i \in 1..(y + 1 - (x + 1)) : SubSeq(b, x + 1, y)[i] = b[x + 1 + i - 1]
    <2>1. x + 1 \in 1..(Len(b) + 1) /\ y \in ((x + 1) - 1)..Len(b)
      BY <1>1
    <2>2. QED
      BY <2>1, Part
  <1> DEFINE q == SubSeq(b, x + 1, y)
  <1> HIDE DEF q
  <1>5. q \in Seq(Byte) /\ Len(q) = y - x /\ y - x \in Nat
    BY <1>4 DEF q
  <1>6. ASSUME NEW i \in 1..(y - x) PROVE q[i] = S.bytes[(s + x) + i]
    <2>1. i \in 1..(y + 1 - (x + 1)) /\ x + 1 + i - 1 = x + i
      OBVIOUS
    <2>2. q[i] = b[x + i]
      BY <1>4, <2>1 DEF q
    <2>3. x + i \in 1..l
      BY <1>1
    <2>4. b[x + i] = S.bytes[s + (x + i)]
      BY <1>3, <2>3
    <2>5. s + (x + i) = (s + x) + i
      BY <1>3
    <2>6. QED
      BY <2>2, <2>4, <2>5
  <1>7. s + x \in Nat /\ (s + x) + (y - x) <= k
    BY <1>1, <1>3
  <1>8. Run(S, q, s + x)
    BY <1>2, <1>5, <1>6, <1>7 DEF Run
  <1>9. QED
    BY <1>5, <1>8 DEF q

\* The bytes of a run after its first x.
LEMMA RunPart ==
  ASSUME NEW S, Stream(S), NEW s, NEW b \in Seq(Byte), Run(S, b, s),
         NEW x \in Nat, x <= Len(b)
  PROVE  /\ SubSeq(b, x + 1, Len(b)) \in Seq(Byte)
         /\ Len(SubSeq(b, x + 1, Len(b))) = Len(b) - x
         /\ Run(S, SubSeq(b, x + 1, Len(b)), s + x)
         /\ (s + x) + Len(SubSeq(b, x + 1, Len(b))) = s + Len(b)
  <1>1. PICK l \in Nat : l = Len(b)
    BY LenProperties
  <1>2. s \in Nat /\ x <= l
    BY <1>1 DEF Run
  <1>3. /\ SubSeq(b, x + 1, Len(b)) \in Seq(Byte)
        /\ Len(SubSeq(b, x + 1, Len(b))) = Len(b) - x
        /\ Run(S, SubSeq(b, x + 1, Len(b)), s + x)
    <2>1. Len(b) \in Nat /\ Len(b) <= Len(b)
      BY <1>1
    <2>2. QED
      BY <2>1, RunSlice
  <1>4. (s + x) + (l - x) = s + l
    <2>1. PICK t \in Nat : t = s
      BY <1>2
    <2>2. (t + x) + (l - x) = t + l
      BY <1>2
    <2>3. QED
      BY <2>1, <2>2
  <1>5. QED
    BY <1>1, <1>3, <1>4

\* The bytes after a header, and those after its payload.
After(b) == SubSeq(b, BeforeNull(b) + 1, Len(b))

\* After a header that is found comes the payload of a packet of the stream.
LEMMA HeaderRead ==
  ASSUME NEW S, Stream(S), NEW s, NEW b \in Seq(Byte), Run(S, b, s),
         IsHeader(JsonOf(b)), BeforeNull(b) # 0
  PROVE  \E m \in 1..Len(S.sent) :
           /\ b[1].of = S.sent[m] /\ s = S.ends[m - 1]
           /\ After(b) \in Seq(Byte) /\ Len(After(b)) < Len(b)
           /\ Run(S, After(b), S.ends[m - 1] + HeadSize + 1)
           /\ s + Len(b) = S.ends[m - 1] + HeadSize + 1 + Len(After(b))
  <1>1. PICK m \in 1..Len(S.sent) : /\ s = S.ends[m - 1]
                                    /\ b[1].of = S.sent[m]
                                    /\ BeforeNull(b) \in {0, HeadSize + 1}
    BY HeadAt
  <1>2. PICK z \in Nat : z = HeadSize + 1 /\ z # 0
    BY Numbers
  <1>3. BeforeNull(b) = z /\ z <= Len(b) /\ s \in Nat
    <2>1. BeforeNull(b) = z /\ BeforeNull(b) \in 0..Len(b)
      BY <1>1, <1>2, JsonEffect
    <2>2. QED
      BY <2>1 DEF Run
  <1>4. After(b) = SubSeq(b, z + 1, Len(b))
    BY <1>3 DEF After
  <1>5. /\ After(b) \in Seq(Byte) /\ Len(After(b)) = Len(b) - z
        /\ Run(S, After(b), s + z)
        /\ (s + z) + Len(After(b)) = s + Len(b)
    <2>1. /\ SubSeq(b, z + 1, Len(b)) \in Seq(Byte)
          /\ Len(SubSeq(b, z + 1, Len(b))) = Len(b) - z
          /\ Run(S, SubSeq(b, z + 1, Len(b)), s + z)
          /\ (s + z) + Len(SubSeq(b, z + 1, Len(b))) = s + Len(b)
      <3>1. z <= Len(b)
        BY <1>3
      <3>2. QED
        BY <3>1, RunPart
    <2>2. QED
      BY <1>4, <2>1
  <1>6. s + z = s + HeadSize + 1
    BY <1>2, <1>3, Numbers
  <1>7. Len(After(b)) < Len(b)
    <2>1. PICK l \in Nat : l = Len(b)
      BY LenProperties
    <2>2. l - z < l
      BY <1>2
    <2>3. QED
      BY <1>5, <2>1, <2>2
  <1>8. QED
    BY <1>1, <1>5, <1>6, <1>7

\* After a payload that is whole comes the next packet.
LEMMA PayloadPart ==
  ASSUME NEW S, Stream(S), S.size = size, NEW m \in 1..Len(S.sent),
         NEW after \in Seq(Byte), Run(S, after, S.ends[m - 1] + HeadSize + 1),
         NEW n \in Nat, n = LengthOf(S.sent[m]), n <= Len(after)
  PROVE  /\ SubSeq(after, 1, n) = PayloadIn(S, S.sent[m])
         /\ SubSeq(after, n + 1, Len(after)) \in Seq(Byte)
         /\ Run(S, SubSeq(after, n + 1, Len(after)), S.ends[m])
         /\ S.ends[m] + Len(SubSeq(after, n + 1, Len(after)))
              = S.ends[m - 1] + HeadSize + 1 + Len(after)
         /\ Len(SubSeq(after, n + 1, Len(after))) <= Len(after)
  <1> DEFINE nb == SubSeq(after, n + 1, Len(after))
  <1>1. S.size[S.sent[m]] = n
    BY DEF LengthOf
  <1>2. S.ends[m] = (S.ends[m - 1] + HeadSize + 1) + n
    BY <1>1, PacketNumbers
  <1>3. /\ nb \in Seq(Byte) /\ Len(nb) = Len(after) - n
        /\ Run(S, nb, (S.ends[m - 1] + HeadSize + 1) + n)
        /\ ((S.ends[m - 1] + HeadSize + 1) + n) + Len(nb)
              = (S.ends[m - 1] + HeadSize + 1) + Len(after)
    BY RunPart
  <1> HIDE DEF nb
  <1>4. Len(nb) <= Len(after)
    <2>1. PICK l \in Nat : l = Len(after)
      BY LenProperties
    <2>2. l - n <= l
      OBVIOUS
    <2>3. QED
      BY <1>3, <2>1, <2>2
  <1>5. SubSeq(after, 1, n) = PayloadIn(S, S.sent[m])
    BY PayloadRead
  <1>6. QED
    BY <1>2, <1>3, <1>4, <1>5 DEF nb

\* The four ends of a round.
LEMMA RoundForm ==
  ASSUME NEW ps, NEW b, b # <<>>, NEW r,
         r = [pairs |-> ps, bytes |-> b, rest |-> <<>>, panics |-> FALSE]
  PROVE  /\ ~IsHeader(JsonOf(b)) =>
              Round(r) = [pairs |-> ps, bytes |-> <<>>, rest |-> <<NoHeader, JsonOf(b)>>,
                          panics |-> FALSE]
         /\ IsHeader(JsonOf(b)) /\ BeforeNull(b) = 0 =>
              Round(r) = [pairs |-> ps, bytes |-> <<>>, rest |-> <<>>, panics |-> TRUE]
         /\ IsHeader(JsonOf(b)) /\ BeforeNull(b) # 0 /\ LengthOf(b[1].of) > Len(After(b)) =>
              Round(r) = [pairs |-> ps, bytes |-> <<>>, rest |-> <<b[1].of, After(b)>>,
                          panics |-> FALSE]
         /\ IsHeader(JsonOf(b)) /\ BeforeNull(b) # 0 /\ ~(LengthOf(b[1].of) > Len(After(b))) =>
              Round(r) = [pairs |-> Append(ps, Packet(b[1].of, SubSeq(After(b), 1, LengthOf(b[1].of)))),
                          bytes |-> SubSeq(After(b), LengthOf(b[1].of) + 1, Len(After(b))),
                          rest |-> <<>>, panics |-> FALSE]
  <1>1. r.bytes = b
    OBVIOUS
  <1>2. Round(r) =
          IF ~IsHeader(JsonOf(b))
          THEN [[r EXCEPT !.bytes = <<>>] EXCEPT !.rest = <<NoHeader, JsonOf(b)>>]
          ELSE IF BeforeNull(b) = 0 THEN [[r EXCEPT !.bytes = <<>>] EXCEPT !.panics = TRUE]
          ELSE IF LengthOf(b[1].of) > Len(After(b))
          THEN [[r EXCEPT !.bytes = <<>>] EXCEPT !.rest = <<b[1].of, After(b)>>]
          ELSE [r EXCEPT !.pairs = Append(@, Packet(b[1].of, SubSeq(After(b), 1, LengthOf(b[1].of)))),
                         !.bytes = SubSeq(After(b), LengthOf(b[1].of) + 1, Len(After(b)))]
    BY <1>1 DEF Round, After
  <1>3. ASSUME ~IsHeader(JsonOf(b))
        PROVE  Round(r) = [pairs |-> ps, bytes |-> <<>>, rest |-> <<NoHeader, JsonOf(b)>>,
                           panics |-> FALSE]
    BY <1>2, <1>3
  <1>4. ASSUME IsHeader(JsonOf(b)), BeforeNull(b) = 0
        PROVE  Round(r) = [pairs |-> ps, bytes |-> <<>>, rest |-> <<>>, panics |-> TRUE]
    BY <1>2, <1>4
  <1>5. ASSUME IsHeader(JsonOf(b)), BeforeNull(b) # 0, LengthOf(b[1].of) > Len(After(b))
        PROVE  Round(r) = [pairs |-> ps, bytes |-> <<>>, rest |-> <<b[1].of, After(b)>>,
                           panics |-> FALSE]
    BY <1>2, <1>5
  <1>6. ASSUME IsHeader(JsonOf(b)), BeforeNull(b) # 0, ~(LengthOf(b[1].of) > Len(After(b)))
        PROVE  Round(r) = [pairs |-> Append(ps, Packet(b[1].of, SubSeq(After(b), 1, LengthOf(b[1].of)))),
                           bytes |-> SubSeq(After(b), LengthOf(b[1].of) + 1, Len(After(b))),
                           rest |-> <<>>, panics |-> FALSE]
    BY <1>2, <1>6
  <1>7. QED
    BY <1>3, <1>4, <1>5, <1>6

\* A round keeps what Halfway says, and takes a byte at least if it does not end the loop.
LEMMA RoundEffect ==
  ASSUME NEW S, Stream(S), S.size = size, NEW hs \in Seq(Pairs), NEW g \in Nat, NEW c \in BOOLEAN,
         NEW ps \in Seq(Pairs), NEW b \in Seq(Byte), b # <<>>,
         NEW s \in Nat, s + Len(b) = g, Run(S, b, s), Passed(S, hs \o ps, s, c),
         NEW r, r = [pairs |-> ps, bytes |-> b, rest |-> <<>>, panics |-> FALSE]
  PROVE  /\ Round(r) \in States
         /\ Halfway(S, hs, g, c, Round(r))
         /\ Round(r).bytes # <<>> => Len(Round(r).bytes) < Len(b)
  <1> DEFINE q == hs \o ps
             h == b[1].of
             after == After(b)
             R == Round(r)
  <1>1. q \in Seq(Pairs)
    BY ConcatProperties
  <1>2. /\ Len(b) \in Nat \ {0} /\ Len(b) <= g /\ Passed(S, q, s, c)
    BY EmptySeq
  <1>3. /\ ~IsHeader(JsonOf(b)) =>
              R = [pairs |-> ps, bytes |-> <<>>, rest |-> <<NoHeader, JsonOf(b)>>,
                          panics |-> FALSE]
        /\ IsHeader(JsonOf(b)) /\ BeforeNull(b) = 0 =>
              R = [pairs |-> ps, bytes |-> <<>>, rest |-> <<>>, panics |-> TRUE]
        /\ IsHeader(JsonOf(b)) /\ BeforeNull(b) # 0 /\ LengthOf(h) > Len(after) =>
              R = [pairs |-> ps, bytes |-> <<>>, rest |-> <<h, after>>,
                          panics |-> FALSE]
        /\ IsHeader(JsonOf(b)) /\ BeforeNull(b) # 0 /\ ~(LengthOf(h) > Len(after)) =>
              R = [pairs |-> Append(ps, Packet(h, SubSeq(after, 1, LengthOf(h)))),
                          bytes |-> SubSeq(after, LengthOf(h) + 1, Len(after)),
                          rest |-> <<>>, panics |-> FALSE]
    BY RoundForm
  <1> HIDE DEF R, q
  <1>4. <<>> \in Seq(Byte)
    BY EmptySeq
  <1>5. CASE ~IsHeader(JsonOf(b))
    <2>1. R = [pairs |-> ps, bytes |-> <<>>, rest |-> <<NoHeader, JsonOf(b)>>,
               panics |-> FALSE]
      BY <1>3, <1>5
    <2>2. JsonOf(b) \in Seq(Byte)
      BY <1>1, JsonEffect
    <2>3. R \in States
      BY <1>1, <1>4, <2>1, <2>2 DEF States, Rests
    <2>4. Reader(S, q, TRUE, NoHeader, JsonOf(b), s + Len(b), c)
      BY <1>1, <1>2, <1>5, KeptForHeader
    <2>5. Halfway(S, hs, g, c, R)
      BY <1>2, <2>1, <2>4 DEF Halfway, q
    <2>6. QED
      BY <2>1, <2>3, <2>5 DEF R
  <1>6. CASE IsHeader(JsonOf(b)) /\ BeforeNull(b) = 0
    <2>1. R = [pairs |-> ps, bytes |-> <<>>, rest |-> <<>>, panics |-> TRUE]
      BY <1>3, <1>6
    <2>2. R \in States
      BY <1>1, <1>4, <2>1 DEF States, Rests
    <2>3. Halfway(S, hs, g, c, R)
      BY <2>1 DEF Halfway
    <2>4. QED
      BY <2>1, <2>2, <2>3 DEF R
  <1>7. CASE IsHeader(JsonOf(b)) /\ BeforeNull(b) # 0
    <2>1. PICK m \in 1..Len(S.sent) :
            /\ h = S.sent[m] /\ s = S.ends[m - 1]
            /\ after \in Seq(Byte) /\ Len(after) < Len(b)
            /\ Run(S, after, S.ends[m - 1] + HeadSize + 1)
            /\ s + Len(b) = S.ends[m - 1] + HeadSize + 1 + Len(after)
      BY <1>7, HeaderRead
    <2> HIDE DEF after, h
    <2>2. /\ h \in Packets /\ h # NoHeader /\ LengthOf(h) = S.size[h] /\ S.size[h] \in Nat
          /\ Passed(S, q, S.ends[m - 1], c) /\ Len(after) \in Nat
      <3>1. S.sent[m] \in Packets /\ S.size[S.sent[m]] \in Nat
        BY PacketNumbers
      <3>2. h \in Packets /\ S.size[h] \in Nat
        BY <2>1, <3>1
      <3>3. h # NoHeader
        BY <3>2, FramingAssumption
      <3>4. Passed(S, q, S.ends[m - 1], c)
        BY <1>2, <2>1
      <3>5. Len(after) \in Nat
        BY <2>1, LenProperties
      <3>6. QED
        BY <3>2, <3>3, <3>4, <3>5 DEF LengthOf
    <2>3. CASE LengthOf(h) > Len(after)
      <3>1. R = [pairs |-> ps, bytes |-> <<>>, rest |-> <<h, after>>, panics |-> FALSE]
        BY <1>3, <1>7, <2>3
      <3>2. R \in States
        BY <1>4, <2>1, <2>2, <3>1 DEF States, Rests
      <3>3. Len(after) < S.size[h]
        BY <2>2, <2>3
      <3>4. OnPayload(S, q, h, after, g, c)
        BY <2>1, <2>2, <3>3 DEF OnPayload
      <3>5. g \in 0..Len(S.bytes)
        BY <1>2, Numbers DEF Run
      <3>6. Reader(S, q, TRUE, h, after, g, c)
        BY <2>1, <2>2, <3>4, <3>5 DEF Reader
      <3>7. Halfway(S, hs, g, c, R)
        BY <3>1, <3>6 DEF Halfway, q
      <3>8. QED
        BY <3>1, <3>2, <3>7 DEF R
    <2>4. CASE ~(LengthOf(h) > Len(after))
      <3> DEFINE x == Packet(h, SubSeq(after, 1, LengthOf(h)))
                 nb == SubSeq(after, LengthOf(h) + 1, Len(after))
      <3>1. R = [pairs |-> Append(ps, x), bytes |-> nb, rest |-> <<>>, panics |-> FALSE]
        BY <1>3, <1>7, <2>4
      <3>2. LengthOf(h) \in 0..Len(after)
        BY <2>2, <2>4
      <3>3. /\ x = Packet(S.sent[m], PayloadIn(S, S.sent[m]))
            /\ nb \in Seq(Byte) /\ Run(S, nb, S.ends[m])
            /\ S.ends[m] + Len(nb) = S.ends[m - 1] + HeadSize + 1 + Len(after)
            /\ Len(nb) <= Len(after)
        <4>1. PICK n \in Nat : n = LengthOf(S.sent[m]) /\ n <= Len(after) /\ n = LengthOf(h)
          BY <2>1, <2>2, <3>2
        <4>2. /\ SubSeq(after, 1, n) = PayloadIn(S, S.sent[m])
              /\ SubSeq(after, n + 1, Len(after)) \in Seq(Byte)
              /\ Run(S, SubSeq(after, n + 1, Len(after)), S.ends[m])
              /\ S.ends[m] + Len(SubSeq(after, n + 1, Len(after)))
                    = S.ends[m - 1] + HeadSize + 1 + Len(after)
              /\ Len(SubSeq(after, n + 1, Len(after))) <= Len(after)
          BY <2>1, <4>1, PayloadPart
        <4>3. QED
          BY <2>1, <4>1, <4>2
      <3>4. x \in Pairs
        BY <3>3, PayloadType
      <3> HIDE DEF x, nb
      <3>5. R \in States
        <4>1. Append(ps, x) \in Seq(Pairs)
          BY <3>4, AppendProperties
        <4>2. QED
          BY <3>1, <3>3, <4>1 DEF States, Rests
      <3>6. Passed(S, Append(q, x), S.ends[m], c)
        BY <2>2, <3>3, PassedMore
      <3>7. hs \o Append(ps, x) = Append(q, x)
        <4>1. Append(ps, x) = ps \o <<x>> /\ Append(q, x) = q \o <<x>>
          BY <1>1, <3>4, AppendIsConcat
        <4>2. <<x>> \in Seq(Pairs)
          BY <3>4
        <4>3. (hs \o ps) \o <<x>> = hs \o (ps \o <<x>>)
          BY <4>2, ConcatAssociative, SMTT(30)
        <4>4. QED
          BY <4>1, <4>3 DEF q
      <3>8. S.ends[m] + Len(nb) = g /\ S.ends[m] \in Nat /\ Len(nb) \in Nat
        BY <2>1, <3>3, PacketNumbers, LenProperties
      <3>9. /\ Len(nb) <= g /\ g - Len(nb) = S.ends[m]
        <4> DEFINE e == S.ends[m]
                   l == Len(nb)
        <4>1. e + l = g /\ e \in Nat /\ l \in Nat
          BY <3>8
        <4> HIDE DEF e, l
        <4>2. l <= g /\ g - l = e
          BY <4>1
        <4>3. QED
          BY <4>2 DEF e, l
      <3>10. Len(nb) < Len(b)
        BY <1>2, <2>1, <2>2, <3>3, <3>8
      <3>11. CASE nb = <<>>
        <4>1. Len(nb) = 0
          BY <3>11, EmptySeq
        <4>2. g = S.ends[m]
          BY <3>8, <4>1
        <4>3. Passed(S, hs \o R.pairs, g, c) /\ R.rest = <<>> /\ R.bytes = <<>>
          BY <3>1, <3>6, <3>7, <3>11, <4>2
        <4>4. QED
          BY <3>5, <4>3 DEF Halfway, R
      <3>12. CASE nb # <<>>
        <4>1. /\ R.bytes = nb /\ R.rest = <<>> /\ R.panics = FALSE
              /\ hs \o R.pairs = Append(q, x)
          BY <3>1, <3>7
        <4>2. Halfway(S, hs, g, c, R)
          BY <3>3, <3>6, <3>9, <3>12, <4>1 DEF Halfway
        <4>3. QED
          BY <3>5, <3>10, <4>1, <4>2 DEF R
      <3>13. QED
        BY <3>11, <3>12
    <2>5. QED
      BY <2>3, <2>4
  <1>8. QED
    BY <1>5, <1>6, <1>7

\* What the parser returns: the packets that are whole, and what the reader is to keep.
LEMMA ParseEffect ==
  ASSUME NEW S, Stream(S), S.size = size, NEW hs, NEW s, NEW c \in BOOLEAN,
         Passed(S, hs, s, c), NEW b \in Seq(Byte), Run(S, b, s)
  PROVE  /\ Parse(b) \in States
         /\ \/ Parse(b).panics
            \/ IF Parse(b).rest = <<>> THEN Passed(S, hs \o Parse(b).pairs, s + Len(b), c)
               ELSE Reader(S, hs \o Parse(b).pairs, TRUE, Parse(b).rest[1], Parse(b).rest[2],
                           s + Len(b), c)
  <1> DEFINE g == s + Len(b)
             n == Len(b)
             I == [k \in Nat |->
                     {r \in States : /\ Halfway(S, hs, g, c, r)
                                     /\ r.bytes # <<>> => Len(r.bytes) + k <= n}]
  <1>1. n \in Nat /\ s \in Nat /\ g \in Nat /\ g - n = s /\ hs \in Seq(Pairs)
    BY LenProperties DEF Run, Passed
  <1>2. Start(b) \in I[0]
    <2>1. <<>> \in Seq(Pairs) /\ hs \o <<>> = hs
      BY <1>1, EmptySeq, ConcatEmptySeq
    <2>2. Start(b) \in States
      BY <2>1 DEF Start, States, Rests
    <2>3. Halfway(S, hs, g, c, Start(b))
      <3>1. CASE b = <<>>
        <4>1. g = s
          BY <1>1, <3>1, EmptySeq
        <4>2. QED
          BY <2>1, <3>1, <4>1 DEF Halfway, Start
      <3>2. CASE b # <<>>
        <4>1. n <= g
          BY <1>1
        <4>2. QED
          BY <1>1, <2>1, <3>2, <4>1 DEF Halfway, Start
      <3>3. QED
        BY <3>1, <3>2
    <2>4. Start(b).bytes = b /\ n + 0 <= n
      BY <1>1 DEF Start
    <2>5. QED
      BY <2>2, <2>3, <2>4
  <1>3. ASSUME NEW k \in Nat, NEW r \in I[k] PROVE Round(r) \in I[k + 1]
    <2>1. /\ r \in States /\ Halfway(S, hs, g, c, r)
          /\ r.bytes # <<>> => Len(r.bytes) + k <= n
      OBVIOUS
    <2>2. CASE r.bytes = <<>>
      <3>1. Round(r) = r
        BY <2>2 DEF Round
      <3>2. QED
        BY <2>1, <2>2, <3>1
    <2>3. CASE r.bytes # <<>>
      <3> DEFINE b1 == r.bytes
                 s1 == g - Len(b1)
      <3>a. /\ b1 \in Seq(Byte) /\ Len(b1) \in Nat /\ r.pairs \in Seq(Pairs)
            /\ r = [pairs |-> r.pairs, bytes |-> b1, rest |-> r.rest, panics |-> r.panics]
            /\ r.panics \in BOOLEAN
        BY <2>1, LenProperties DEF States
      <3>b. /\ r.rest = <<>> /\ ~r.panics
            /\ Len(b1) <= g /\ Run(S, b1, s1) /\ Passed(S, hs \o r.pairs, s1, c)
        BY <2>1, <2>3 DEF Halfway
      <3>d. r = [pairs |-> r.pairs, bytes |-> b1, rest |-> <<>>, panics |-> FALSE]
        BY <3>a, <3>b
      <3>c. s1 \in Nat /\ s1 + Len(b1) = g
        <4>1. PICK l \in Nat : l = Len(b1) /\ l <= g
          BY <3>a, <3>b
        <4>2. g - l \in Nat /\ (g - l) + l = g
          BY <1>1, <4>1
        <4>3. QED
          BY <4>1, <4>2
      <3>1. /\ Round(r) \in States /\ Halfway(S, hs, g, c, Round(r))
            /\ Round(r).bytes # <<>> => Len(Round(r).bytes) < Len(r.bytes)
        BY <1>1, <2>3, <3>a, <3>b, <3>c, <3>d, RoundEffect
      <3>2. Round(r).bytes # <<>> => Len(Round(r).bytes) + (k + 1) <= n
        <4> SUFFICES ASSUME Round(r).bytes # <<>> PROVE Len(Round(r).bytes) + (k + 1) <= n
          OBVIOUS
        <4>1. PICK l \in Nat : l = Len(r.bytes)
          BY <3>a
        <4>2. Round(r).bytes \in Seq(Byte)
          BY <3>1 DEF States
        <4>3. PICK l1 \in Nat : l1 = Len(Round(r).bytes)
          BY <4>2, LenProperties
        <4>4. l1 < l /\ l + k <= n
          BY <2>1, <2>3, <3>1, <4>1, <4>3
        <4> HIDE DEF n
        <4>5. l1 + (k + 1) <= n
          BY <1>1, <4>4, SMTT(30)
        <4>6. QED
          BY <4>3, <4>5
      <3>3. QED
        BY <3>1, <3>2
    <2>4. QED
      BY <2>2, <2>3
  <1>4. Parse(b) \in I[n]
    <2> HIDE DEF I
    <2>1. QED
      BY <1>2, <1>3, LoopKeeps
  <1>5. /\ Parse(b) \in States /\ Halfway(S, hs, g, c, Parse(b))
        /\ Parse(b).bytes # <<>> => Len(Parse(b).bytes) + n <= n
    BY <1>1, <1>4
  <1>6. Parse(b).bytes = <<>>
    <2> SUFFICES ASSUME Parse(b).bytes # <<>> PROVE FALSE
      OBVIOUS
    <2>1. Len(Parse(b).bytes) \in Nat \ {0}
      BY <1>5, EmptySeq DEF States
    <2>2. QED
      BY <1>1, <1>5, <2>1
  <1>7. QED
    BY <1>5, <1>6 DEF Halfway

-----------------------------------------------------------------------------
(* What the reader keeps.                                                  *)

\* The parser stops at bytes that do not begin with a header.
LEMMA ParseNoHeader ==
  ASSUME NEW b \in Seq(Byte), b # <<>>, ~IsHeader(JsonOf(b))
  PROVE  Parse(b) = [pairs |-> <<>>, bytes |-> <<>>, rest |-> <<NoHeader, JsonOf(b)>>,
                     panics |-> FALSE]
  <1> DEFINE E == [pairs |-> <<>>, bytes |-> <<>>, rest |-> <<NoHeader, JsonOf(b)>>,
                   panics |-> FALSE]
             I == [k \in Nat |-> IF k = 0 THEN {Start(b)} ELSE {E}]
  <1>1. Round(Start(b)) = E
    BY RoundForm DEF Start
  <1>2. Round(E) = E
    <2>1. E.bytes = <<>>
      OBVIOUS
    <2> HIDE DEF E
    <2>2. QED
      BY <2>1 DEF Round
  <1> HIDE DEF E
  <1>3. Start(b) \in I[0]
    OBVIOUS
  <1>4. ASSUME NEW k \in Nat, NEW r \in I[k] PROVE Round(r) \in I[k + 1]
    <2>1. k + 1 # 0 /\ k + 1 \in Nat /\ I[k + 1] = {E}
      OBVIOUS
    <2>2. r = Start(b) \/ r = E
      OBVIOUS
    <2>3. QED
      BY <1>1, <1>2, <2>1, <2>2
  <1>5. Parse(b) \in I[Len(b)]
    <2> HIDE DEF I
    <2>1. QED
      BY <1>3, <1>4, LoopKeeps
  <1>6. Len(b) \in Nat \ {0}
    BY EmptySeq
  <1>7. Parse(b) = E
    BY <1>5, <1>6
  <1>8. QED
    BY <1>7 DEF E

\* After it has parsed the bytes b of the stream the reader is as it should be,
\* unless the task has ended.
LEMMA KeepEffect ==
  ASSUME NEW S, Stream(S), S.size = size, NEW ps, NEW b \in Seq(Byte), Keep(ps, b),
         NEW s, Run(S, b, s), NEW c \in BOOLEAN, Passed(S, handed \o ps, s, c),
         header \in Packets \cup {NoHeader}
  PROVE  /\ dead' \in BOOLEAN
         /\ dead' => UNCHANGED <<handed, need, header, buffer>>
         /\ ~dead' => /\ Reader(S, handed', need', header', buffer', s + Len(b), c)
                      /\ need' \in BOOLEAN
                      /\ header' \in Packets \cup {NoHeader}
                      /\ handed' \in Seq(Pairs)
  <1> DEFINE r == Parse(b)
             hs == handed \o ps
             g == s + Len(b)
  <1>1. /\ r \in States
        /\ \/ r.panics
           \/ IF r.rest = <<>> THEN Passed(S, hs \o r.pairs, g, c)
              ELSE Reader(S, hs \o r.pairs, TRUE, r.rest[1], r.rest[2], g, c)
    BY ParseEffect
  <1>2. g \in 0..Len(S.bytes)
    <2>1. Len(b) \in Nat /\ s \in Nat /\ s + Len(b) <= Len(S.bytes)
      BY LenProperties DEF Run
    <2>2. Len(S.bytes) \in Nat
      BY Numbers
    <2>3. QED
      BY <2>1, <2>2
  <1>3. /\ dead' = r.panics
        /\ r.panics => UNCHANGED <<handed, need, header, buffer>>
        /\ ~r.panics =>
             /\ handed' = hs \o r.pairs
             /\ need' = (r.rest # <<>>)
             /\ header' = IF r.rest = <<>> THEN header ELSE r.rest[1]
             /\ buffer' = IF r.rest = <<>> THEN <<>> ELSE r.rest[2]
    BY DEF Keep
  <1>4. r.panics \in BOOLEAN /\ r.pairs \in Seq(Pairs) /\ r.rest \in Rests
    BY <1>1 DEF States
  <1> HIDE DEF r, hs, g
  <1>5. ASSUME ~r.panics
        PROVE  /\ Reader(S, handed', need', header', buffer', g, c)
               /\ need' \in BOOLEAN
               /\ header' \in Packets \cup {NoHeader}
               /\ handed' \in Seq(Pairs)
    <2>1. CASE r.rest = <<>>
      <3>1. /\ need' = FALSE /\ buffer' = <<>> /\ header' = header
            /\ handed' = hs \o r.pairs
        BY <1>3, <1>5, <2>1
      <3>2. Passed(S, handed', g, c)
        BY <1>1, <1>5, <2>1, <3>1
      <3>3. <<>> \in Seq(Byte)
        BY EmptySeq
      <3>4. Reader(S, handed', FALSE, header', <<>>, g, c)
        BY <1>2, <3>2, <3>3 DEF Reader
      <3>5. handed' \in Seq(Pairs)
        BY <3>2 DEF Passed
      <3>6. QED
        BY <3>1, <3>4, <3>5
    <2>2. CASE r.rest # <<>>
      <3>1. PICK h \in Packets \cup {NoHeader}, d \in Seq(Byte) : r.rest = <<h, d>>
        BY <1>4, <2>2 DEF Rests
      <3>2. /\ need' = TRUE /\ header' = h /\ buffer' = d
            /\ handed' = hs \o r.pairs
        <4>1. r.rest[1] = h /\ r.rest[2] = d
          BY <3>1
        <4>2. need' = TRUE
          BY <1>3, <1>5, <2>2
        <4>3. header' = r.rest[1] /\ buffer' = r.rest[2] /\ handed' = hs \o r.pairs
          BY <1>3, <1>5, <2>2
        <4>4. QED
          BY <4>1, <4>2, <4>3
      <3>3. Reader(S, handed', TRUE, h, d, g, c)
        <4>1. r.rest[1] = h /\ r.rest[2] = d
          BY <3>1
        <4>2. Reader(S, hs \o r.pairs, TRUE, r.rest[1], r.rest[2], g, c)
          BY <1>1, <1>5, <2>2
        <4>3. QED
          BY <3>2, <4>1, <4>2
      <3>4. handed' \in Seq(Pairs)
        BY <3>3 DEF Reader, OnHeader, OnPayload, Passed
      <3>5. QED
        BY <3>1, <3>2, <3>3, <3>4
    <2>3. QED
      BY <2>1, <2>2
  <1>6. QED
    BY <1>3, <1>4, <1>5 DEF g

\* Bytes that are not the beginning of a header are followed by no header.
LEMMA NeverHeader ==
  ASSUME NEW b \in Seq(Byte), NoNull(b), ~Headlike(b), NEW d \in Seq(Byte)
  PROVE  /\ b \o d \in Seq(Byte) /\ b \o d # <<>>
         /\ ~Headlike(JsonOf(b \o d))
         /\ ~IsHeader(JsonOf(b \o d))
  <1> DEFINE q == b \o d
             X == JsonOf(q)
             z == BeforeNull(q)
  <1>1. /\ q \in Seq(Byte) /\ Len(q) = Len(b) + Len(d)
        /\ \A i \in 1..(Len(b) + Len(d)) : q[i] = IF i <= Len(b) THEN b[i] ELSE d[i - Len(b)]
    BY ConcatProperties
  <1>2. Len(b) \in Nat /\ Len(d) \in Nat /\ HeadSize \in Nat \ {0}
    BY LenProperties, FramingAssumption
  <1>3. \A i \in 1..Len(b) : q[i] = b[i] /\ i \in 1..Len(q)
    BY <1>1, <1>2
  <1>4. PICK i \in 1..Len(b) :
          HeadSize < i \/ ~(b[i].part = "json" /\ b[i].at = i /\ b[i].of = b[1].of)
    <2>1. CASE Len(b) <= HeadSize
      BY <1>2, <2>1 DEF Headlike
    <2>2. CASE ~(Len(b) <= HeadSize)
      <3>1. Len(b) \in 1..Len(b) /\ HeadSize < Len(b)
        BY <1>2, <2>2
      <3>2. QED
        BY <3>1
    <2>3. QED
      BY <2>1, <2>2
  <1>5. /\ X \in Seq(Byte) /\ z \in 0..Len(q) /\ (z = 0 => X = q)
        /\ z # 0 => /\ q[z].part = "null" /\ Len(X) = z - 1
                    /\ \A k \in 1..Len(X) : X[k] = q[k]
    BY <1>1, JsonEffect
  <1>6. Len(b) <= Len(X) /\ \A k \in 1..Len(b) : X[k] = b[k]
    <2>1. CASE z = 0
      BY <1>1, <1>2, <1>3, <1>5, <2>1
    <2>2. CASE z # 0
      <3>1. ~(z <= Len(b))
        <4> SUFFICES ASSUME z <= Len(b) PROVE FALSE
          OBVIOUS
        <4>1. z \in 1..Len(b)
          BY <1>1, <1>2, <1>5, <2>2
        <4>2. b[z].part = "null"
          BY <1>3, <1>5, <2>2, <4>1
        <4>3. QED
          BY <4>1, <4>2 DEF NoNull
      <3>2. Len(b) <= z - 1 /\ z - 1 = Len(X)
        BY <1>1, <1>2, <1>5, <2>2, <3>1
      <3>3. \A k \in 1..Len(b) : k \in 1..Len(X)
        BY <1>2, <1>5, <3>2
      <3>4. QED
        BY <1>3, <1>5, <2>2, <3>2, <3>3
    <2>3. QED
      BY <2>1, <2>2
  <1>7. Len(X) \in Nat /\ i \in 1..Len(X) /\ 1 \in 1..Len(b) /\ X[i] = b[i] /\ X[1] = b[1]
    BY <1>2, <1>5, <1>6, LenProperties
  <1> HIDE DEF X, q, z
  <1>8. ~Headlike(X)
    <2> SUFFICES ASSUME Headlike(X) PROVE FALSE
      OBVIOUS
    <2>1. Len(X) <= HeadSize /\ X[i].part = "json" /\ X[i].at = i /\ X[i].of = X[1].of
      BY <1>7 DEF Headlike
    <2>2. ~(HeadSize < i)
      BY <1>2, <1>7, <2>1
    <2>3. QED
      BY <1>4, <1>7, <2>1, <2>2
  <1>9. ~IsHeader(X)
    <2> SUFFICES ASSUME IsHeader(X) PROVE FALSE
      OBVIOUS
    <2>1. Headlike(X)
      BY <1>2 DEF IsHeader, Headlike
    <2>2. QED
      BY <1>8, <2>1
  <1>10. q # <<>>
    <2>1. Len(q) # 0
      BY <1>1, <1>2, <1>7
    <2>2. QED
      BY <2>1, EmptySeq
  <1>11. QED
    BY <1>1, <1>8, <1>9, <1>10 DEF X, q

-----------------------------------------------------------------------------
(* One more packet is written.                                             *)

Grown(S, T) ==
  /\ T.size = S.size
  /\ Len(S.sent) <= Len(T.sent) /\ Len(S.bytes) <= Len(T.bytes)
  /\ \A m \in 1..Len(S.sent) : T.sent[m] = S.sent[m]
  /\ \A m \in 0..Len(S.sent) : T.ends[m] = S.ends[m]
  /\ \A t \in 1..Len(S.bytes) : T.bytes[t] = S.bytes[t]

\* The bytes of a packet.
LEMMA PacketBytes ==
  ASSUME NEW S, Stream(S), S.size = size, NEW p \in Packets
  PROVE  /\ HeaderBytes(p) \in Seq(Byte) /\ PayloadBytes(p) \in Seq(Byte)
         /\ HeaderBytes(p) \o PayloadBytes(p) \in Seq(Byte)
         /\ Whole(S, p) \in Nat \ {0}
         /\ Len(HeaderBytes(p) \o PayloadBytes(p)) = Whole(S, p)
         /\ \A j \in 1..Whole(S, p) : (HeaderBytes(p) \o PayloadBytes(p))[j] = ByteAt(p, j)
  <1> DEFINE x == HeaderBytes(p)
             y == PayloadBytes(p)
             z == HeadSize + 1
             n == size[p]
  <1>1. n \in Nat /\ HeadSize \in Nat \ {0} /\ z \in Nat \ {0} /\ Whole(S, p) = z + n
    BY FramingAssumption DEF Stream, Whole
  <1>2. /\ x = [i \in 1..z |-> [of |-> p, part |-> IF i <= HeadSize THEN "json" ELSE "null",
                                at |-> i]]
        /\ y = [i \in 1..n |-> [of |-> p, part |-> "data", at |-> i]]
    BY DEF HeaderBytes, PayloadBytes
  <1> HIDE DEF x, y, z, n
  <1>3. x \in [1..z -> Byte] /\ y \in [1..n -> Byte]
    BY <1>1, <1>2 DEF Byte
  <1>4. x \in Seq(Byte) /\ y \in Seq(Byte)
    BY <1>1, <1>3, SeqDef
  <1>5. Len(x) = z /\ Len(y) = n
    <2>1. DOMAIN x = 1..z /\ DOMAIN y = 1..n
      BY <1>2
    <2>2. /\ DOMAIN x = 1..Len(x) /\ Len(x) \in Nat
          /\ DOMAIN y = 1..Len(y) /\ Len(y) \in Nat
      BY <1>4, LenProperties
    <2>3. QED
      BY <1>1, <2>1, <2>2
  <1>6. /\ x \o y \in Seq(Byte) /\ Len(x \o y) = z + n
        /\ \A i \in 1..(z + n) : (x \o y)[i] = IF i <= z THEN x[i] ELSE y[i - z]
    <2>1. /\ x \o y \in Seq(Byte) /\ Len(x \o y) = Len(x) + Len(y)
          /\ \A i \in 1..(Len(x) + Len(y)) :
               (x \o y)[i] = IF i <= Len(x) THEN x[i] ELSE y[i - Len(x)]
      BY <1>4, ConcatProperties
    <2>2. QED
      BY <1>5, <2>1
  <1>7. ASSUME NEW j \in 1..(z + n) PROVE (x \o y)[j] = ByteAt(p, j)
    <2>1. CASE j <= z
      <3>1. j \in 1..z /\ (x \o y)[j] = x[j]
        BY <1>6, <2>1
      <3>2. x[j] = [of |-> p, part |-> IF j <= HeadSize THEN "json" ELSE "null", at |-> j]
        BY <1>2, <3>1
      <3>3. ByteAt(p, j) = [of |-> p, part |-> IF j <= HeadSize THEN "json" ELSE "null",
                            at |-> j]
        <4>1. j <= HeadSize \/ j = HeadSize + 1
          BY <1>1, <2>1 DEF z
        <4>2. QED
          BY <1>1, <2>1, <4>1 DEF ByteAt, z
      <3>4. QED
        BY <3>1, <3>2, <3>3
    <2>2. CASE ~(j <= z)
      <3>1. j - z \in 1..n /\ (x \o y)[j] = y[j - z]
        BY <1>1, <1>6, <2>2
      <3>2. y[j - z] = [of |-> p, part |-> "data", at |-> j - z]
        BY <1>2, <3>1
      <3>3. ByteAt(p, j) = [of |-> p, part |-> "data", at |-> j - z]
        BY <1>1, <2>2 DEF ByteAt, z
      <3>4. QED
        BY <3>1, <3>2, <3>3
    <2>3. QED
      BY <2>1, <2>2
  <1>8. Whole(S, p) \in Nat \ {0}
    BY <1>1
  <1>9. QED
    BY <1>1, <1>4, <1>6, <1>7, <1>8 DEF x, y

WithPacket(S, p, w) ==
  [sent |-> Append(S.sent, p), size |-> S.size, bytes |-> S.bytes \o w,
   ends |-> [m \in 0..(Len(S.sent) + 1) |->
               IF m = Len(S.sent) + 1 THEN Len(S.bytes) + Whole(S, p) ELSE S.ends[m]]]

\* With one more packet a stream is a stream, and begins as it did.
LEMMA WriteStream ==
  ASSUME NEW S, Stream(S), NEW p \in Packets, \A m \in 1..Len(S.sent) : S.sent[m] # p,
         NEW w \in Seq(Byte), Whole(S, p) \in Nat \ {0}, Len(w) = Whole(S, p),
         \A j \in 1..Whole(S, p) : w[j] = ByteAt(p, j)
  PROVE  \E T : /\ Stream(T) /\ Grown(S, T)
                /\ T.sent = Append(S.sent, p) /\ T.size = S.size /\ T.bytes = S.bytes \o w
                /\ Len(T.bytes) = Len(S.bytes) + Len(w)
                /\ \A j \in 1..Len(w) : T.bytes[Len(S.bytes) + j] = w[j]
  <1> PICK T : T = WithPacket(S, p, w)
    OBVIOUS
  <1>1. PICK n \in Nat : n = Len(S.sent)
    BY Numbers
  <1>2. PICK l \in Nat : l = Len(S.bytes)
    BY Numbers
  <1>3. PICK v \in Nat \ {0} : v = Whole(S, p)
    OBVIOUS
  <1>4. /\ T.sent = Append(S.sent, p) /\ T.size = S.size /\ T.bytes = S.bytes \o w
        /\ T.ends = [m \in 0..(n + 1) |-> IF m = n + 1 THEN l + v ELSE S.ends[m]]
    BY <1>1, <1>2, <1>3 DEF WithPacket
  <1>5. /\ T.sent \in Seq(Packets) /\ Len(T.sent) = n + 1 /\ T.sent[n + 1] = p
        /\ \A m \in 1..n : T.sent[m] = S.sent[m]
    BY <1>1, <1>4, AppendProperties DEF Stream
  <1>6. /\ T.bytes \in Seq(Byte) /\ Len(T.bytes) = l + v
        /\ \A t \in 1..l : T.bytes[t] = S.bytes[t]
        /\ \A j \in 1..v : T.bytes[l + j] = w[j]
    <2>1. S.bytes \in Seq(Byte)
      BY DEF Stream
    <2>2. /\ T.bytes \in Seq(Byte) /\ Len(T.bytes) = Len(S.bytes) + Len(w)
          /\ \A i \in 1..(Len(S.bytes) + Len(w)) :
               T.bytes[i] = IF i <= Len(S.bytes) THEN S.bytes[i] ELSE w[i - Len(S.bytes)]
      <3>1. /\ S.bytes \o w \in Seq(Byte) /\ Len(S.bytes \o w) = Len(S.bytes) + Len(w)
            /\ \A i \in 1..(Len(S.bytes) + Len(w)) :
                 (S.bytes \o w)[i] = IF i <= Len(S.bytes) THEN S.bytes[i] ELSE w[i - Len(S.bytes)]
        BY <2>1, ConcatProperties
      <3>2. T.bytes = S.bytes \o w
        BY <1>4
      <3>3. QED
        BY <3>1, <3>2
    <2>3. /\ Len(T.bytes) = l + v
          /\ \A i \in 1..(l + v) : T.bytes[i] = IF i <= l THEN S.bytes[i] ELSE w[i - l]
      BY <1>2, <1>3, <2>2
    <2>4. ASSUME NEW t \in 1..l PROVE T.bytes[t] = S.bytes[t]
      <3>1. t \in 1..(l + v) /\ t <= l
        OBVIOUS
      <3>2. QED
        BY <2>3, <3>1
    <2>5. ASSUME NEW j \in 1..v PROVE T.bytes[l + j] = w[j]
      <3>1. l + j \in 1..(l + v) /\ ~(l + j <= l) /\ (l + j) - l = j
        OBVIOUS
      <3>2. QED
        BY <2>3, <3>1
    <2>6. QED
      BY <2>2, <2>3, <2>4, <2>5
  <1>7. /\ T.ends[n + 1] = l + v
        /\ \A m \in 0..n : T.ends[m] = S.ends[m] /\ S.ends[m] \in 0..l
        /\ S.ends[0] = 0 /\ S.ends[n] = l
    <2>1. \A m \in 0..n : m # n + 1 /\ m \in 0..(n + 1)
      OBVIOUS
    <2>2. \A m \in 0..n : S.ends[m] \in 0..l
      BY <1>1, <1>2, Numbers
    <2>3. QED
      BY <1>1, <1>2, <1>4, <2>1, <2>2 DEF Stream
  <1>8. \A m \in 0..(n + 1) : m \in 0..n \/ m = n + 1
    OBVIOUS
  <1>9. \A m \in 1..(n + 1) : m \in 1..n \/ m = n + 1
    OBVIOUS
  <1>10. \A q : Whole(T, q) = Whole(S, q)
    BY <1>4 DEF Whole
  <1>11. T.ends \in [0..Len(T.sent) -> 0..Len(T.bytes)]
    <2>1. ASSUME NEW m \in 0..(n + 1)
          PROVE  (IF m = n + 1 THEN l + v ELSE S.ends[m]) \in 0..(l + v)
      BY <1>7, <1>8
    <2>2. QED
      BY <1>4, <1>5, <1>6, <2>1
  <1>12. \A m, k \in 1..(n + 1) : T.sent[m] = T.sent[k] => m = k
    <2> SUFFICES ASSUME NEW m \in 1..(n + 1), NEW k \in 1..(n + 1), T.sent[m] = T.sent[k]
                 PROVE  m = k
      OBVIOUS
    <2>1. CASE m \in 1..n /\ k \in 1..n
      BY <1>1, <1>5, <2>1 DEF Stream
    <2>2. CASE m \in 1..n /\ k = n + 1
      BY <1>1, <1>5, <2>2
    <2>3. CASE m = n + 1 /\ k \in 1..n
      BY <1>1, <1>5, <2>3
    <2>4. QED
      BY <1>9, <2>1, <2>2, <2>3
  <1>13. ASSUME NEW m \in 1..(n + 1)
         PROVE  /\ T.ends[m] = T.ends[m - 1] + Whole(T, T.sent[m])
                /\ \A j \in 1..Whole(T, T.sent[m]) :
                     T.bytes[T.ends[m - 1] + j] = ByteAt(T.sent[m], j)
    <2>1. CASE m \in 1..n
      <3>1. m - 1 \in 0..n /\ m \in 0..n
        BY <2>1
      <3>2. /\ T.ends[m] = S.ends[m] /\ T.ends[m - 1] = S.ends[m - 1]
            /\ T.sent[m] = S.sent[m] /\ Whole(T, T.sent[m]) = Whole(S, S.sent[m])
        BY <1>5, <1>7, <1>10, <2>1, <3>1
      <3>3. S.ends[m] = S.ends[m - 1] + Whole(S, S.sent[m])
        BY <1>1, <2>1 DEF Stream
      <3>4. ASSUME NEW j \in 1..Whole(S, S.sent[m])
            PROVE  T.bytes[S.ends[m - 1] + j] = ByteAt(S.sent[m], j)
        <4>1. S.bytes[S.ends[m - 1] + j] = ByteAt(S.sent[m], j)
          BY <1>1, <2>1 DEF Stream
        <4>2. S.ends[m - 1] + j \in 1..l
          <5>1. PICK e \in 0..l : e = S.ends[m - 1]
            BY <1>7, <3>1
          <5>2. PICK f \in 0..l : f = S.ends[m]
            BY <1>7, <3>1
          <5>3. PICK u \in Nat : u = Whole(S, S.sent[m])
            BY <1>1, <2>1, PacketNumbers
          <5>4. f = e + u /\ j \in 1..u
            BY <3>3, <5>1, <5>2, <5>3
          <5>5. e + j \in 1..l
            BY <5>4
          <5>6. QED
            BY <5>1, <5>5
        <4>3. QED
          BY <1>6, <4>1, <4>2
      <3>5. QED
        BY <3>2, <3>3, <3>4
    <2>2. CASE m = n + 1
      <3>1. m - 1 = n /\ n \in 0..n
        BY <2>2
      <3>2. /\ T.ends[m] = l + v /\ T.ends[m - 1] = l /\ T.sent[m] = p
            /\ Whole(T, T.sent[m]) = v
        BY <1>3, <1>5, <1>7, <1>10, <2>2, <3>1
      <3>3. \A j \in 1..v : T.bytes[l + j] = ByteAt(p, j)
        BY <1>3, <1>6
      <3>4. QED
        BY <3>2, <3>3
    <2>3. QED
      BY <1>9, <2>1, <2>2
  <1>14. \A m, k \in 0..(n + 1) : m < k => T.ends[m] < T.ends[k]
    <2> SUFFICES ASSUME NEW m \in 0..(n + 1), NEW k \in 0..(n + 1), m < k
                 PROVE  T.ends[m] < T.ends[k]
      OBVIOUS
    <2>1. m \in 0..n
      OBVIOUS
    <2>2. CASE k \in 0..n
      BY <1>1, <1>7, <2>1, <2>2 DEF Stream
    <2>3. CASE k = n + 1
      <3>1. PICK e \in 0..l : e = T.ends[m]
        BY <1>7, <2>1
      <3>2. T.ends[k] = l + v /\ e < l + v
        BY <1>7, <2>3
      <3>3. QED
        BY <3>1, <3>2
    <2>4. QED
      BY <1>8, <2>2, <2>3
  <1>15. ASSUME NEW t \in 1..(l + v)
         PROVE  \E m \in 1..(n + 1) : T.ends[m - 1] < t /\ t <= T.ends[m]
    <2>1. CASE t <= l
      <3>1. PICK m \in 1..n : S.ends[m - 1] < t /\ t <= S.ends[m]
        BY <1>1, <1>2, <2>1 DEF Stream
      <3>2. m \in 1..(n + 1) /\ m - 1 \in 0..n /\ m \in 0..n
        OBVIOUS
      <3>3. T.ends[m - 1] = S.ends[m - 1] /\ T.ends[m] = S.ends[m]
        BY <1>7, <3>2
      <3>4. QED
        BY <3>1, <3>2, <3>3
    <2>2. CASE ~(t <= l)
      <3>1. n + 1 \in 1..(n + 1) /\ (n + 1) - 1 = n /\ n \in 0..n /\ l < t
        BY <2>2
      <3>2. T.ends[(n + 1) - 1] = l /\ T.ends[n + 1] = l + v
        BY <1>7, <3>1
      <3>3. QED
        BY <3>1, <3>2
    <2>3. QED
      BY <2>1, <2>2
  <1>16. T.ends[0] = 0 /\ T.ends[Len(T.sent)] = Len(T.bytes)
    <2>1. 0 \in 0..n /\ Len(T.sent) = n + 1
      BY <1>5
    <2>2. T.ends[0] = 0
      BY <1>7, <2>1
    <2>3. T.ends[n + 1] = l + v /\ Len(T.bytes) = l + v
      BY <1>6, <1>7
    <2>4. QED
      BY <2>1, <2>2, <2>3
  <1>17. T.size \in [Packets -> Nat]
    BY <1>4 DEF Stream
  <1>18. Stream(T)
    BY <1>5, <1>6, <1>11, <1>12, <1>13, <1>14, <1>15, <1>16, <1>17, ZenonT(40) DEF Stream
  <1>19. Grown(S, T)
    <2>1. Len(S.sent) <= Len(T.sent) /\ Len(S.bytes) <= Len(T.bytes)
      BY <1>1, <1>2, <1>5, <1>6
    <2>2. QED
      BY <1>1, <1>2, <1>4, <1>5, <1>6, <1>7, <2>1 DEF Grown
  <1>20. /\ T.sent = Append(S.sent, p) /\ T.size = S.size /\ T.bytes = S.bytes \o w
         /\ Len(T.bytes) = Len(S.bytes) + Len(w)
         /\ \A j \in 1..Len(w) : T.bytes[Len(S.bytes) + j] = w[j]
    BY <1>2, <1>3, <1>4, <1>6
  <1>21. QED
    BY <1>18, <1>19, <1>20

\* What the reader has of the stream is the same when the stream has grown.
LEMMA GrownRun ==
  ASSUME NEW S, NEW T, Stream(S), Stream(T), Grown(S, T), NEW b \in Seq(Byte), NEW s, Run(S, b, s)
  PROVE  Run(T, b, s)
  <1>1. Len(b) \in Nat /\ s \in Nat /\ s + Len(b) <= Len(S.bytes)
    BY LenProperties DEF Run
  <1>2. PICK n \in Nat : n = Len(b)
    BY <1>1
  <1>3. Len(S.bytes) \in Nat /\ Len(T.bytes) \in Nat /\ Len(S.bytes) <= Len(T.bytes)
    BY Numbers DEF Grown
  <1>4. ASSUME NEW i \in 1..n PROVE b[i] = T.bytes[s + i]
    <2>1. b[i] = S.bytes[s + i]
      BY <1>2 DEF Run
    <2>2. s + i \in 1..Len(S.bytes)
      BY <1>1, <1>2, <1>3
    <2>3. QED
      BY <2>1, <2>2 DEF Grown
  <1>5. s + n <= Len(T.bytes)
    BY <1>1, <1>2, <1>3
  <1>6. QED
    BY <1>1, <1>2, <1>4, <1>5 DEF Run

\* So is what it has handed on.
LEMMA GrownPassed ==
  ASSUME NEW S, NEW T, Stream(S), Stream(T), Grown(S, T),
         NEW hs, NEW s, NEW c, Passed(S, hs, s, c)
  PROVE  Passed(T, hs, s, c)
  <1>1. PICK n \in Nat : n = Len(S.sent)
    BY Numbers
  <1>2. PICK k \in Nat : k = Len(T.sent)
    BY Numbers
  <1>3. /\ n <= k /\ T.size = S.size
        /\ \A m \in 1..n : m \in 1..k /\ T.sent[m] = S.sent[m]
        /\ \A m \in 0..n : T.ends[m] = S.ends[m]
    BY <1>1, <1>2 DEF Grown
  <1>4. \A p : PayloadIn(T, p) = PayloadIn(S, p)
    BY <1>3 DEF PayloadIn
  <1>5. \A m \in 1..n : m \in 0..n
    OBVIOUS
  <1>6. ASSUME NEW i \in 1..Len(hs)
        PROVE  \E m \in 1..n : /\ T.ends[m] <= s
                               /\ hs[i] = Packet(T.sent[m], PayloadIn(T, T.sent[m]))
                               /\ hs[i].header = S.sent[m]
    <2>1. PICK m \in 1..n : S.ends[m] <= s /\ hs[i] = Packet(S.sent[m], PayloadIn(S, S.sent[m]))
      BY <1>1 DEF Passed
    <2>2. hs[i].header = S.sent[m]
      BY <2>1 DEF Packet
    <2>3. QED
      BY <1>3, <1>4, <1>5, <2>1, <2>2
  <1>7. ASSUME NEW i \in 1..Len(hs), NEW j \in 1..Len(hs), NEW x \in 1..k, NEW y \in 1..k,
               i < j, T.sent[x] = hs[i].header, T.sent[y] = hs[j].header
        PROVE  x < y
    <2>1. PICK m \in 1..n : hs[i].header = S.sent[m]
      BY <1>6
    <2>2. PICK l \in 1..n : hs[j].header = S.sent[l]
      BY <1>6
    <2>3. m < l
      BY <1>1, <1>7, <2>1, <2>2 DEF Passed
    <2>4. m = x
      BY <1>2, <1>3, <1>7, <2>1 DEF Stream
    <2>5. l = y
      BY <1>2, <1>3, <1>7, <2>2 DEF Stream
    <2>6. QED
      BY <2>3, <2>4, <2>5
  <1>8. ASSUME ~c
        PROVE  /\ Len(hs) <= k /\ T.ends[Len(hs)] = s
               /\ \A i \in 1..Len(hs) : hs[i].header = T.sent[i]
    <2>1. /\ Len(hs) \in Nat /\ Len(hs) <= n /\ S.ends[Len(hs)] = s
          /\ \A i \in 1..Len(hs) : hs[i].header = S.sent[i]
      BY <1>1, <1>8, LenProperties DEF Passed
    <2>2. PICK l \in Nat : l = Len(hs)
      BY <2>1
    <2>3. l \in 0..n /\ l <= k /\ \A i \in 1..l : i \in 1..n
      BY <1>3, <2>1, <2>2
    <2>4. QED
      BY <1>3, <2>1, <2>2, <2>3
  <1>9. s \in Nat /\ hs \in Seq(Pairs)
    BY DEF Passed
  <1>10. ASSUME NEW i \in 1..Len(hs)
         PROVE  \E m \in 1..k : /\ T.ends[m] <= s
                                /\ hs[i] = Packet(T.sent[m], PayloadIn(T, T.sent[m]))
    BY <1>3, <1>6
  <1>11. QED
    BY <1>2, <1>7, <1>8, <1>9, <1>10 DEF Passed

\* And so is what it keeps.
LEMMA GrownReader ==
  ASSUME NEW S, NEW T, Stream(S), Stream(T), Grown(S, T),
         NEW hs, NEW more, NEW h, NEW b, NEW g, NEW c, Reader(S, hs, more, h, b, g, c)
  PROVE  Reader(T, hs, more, h, b, g, c)
  <1>1. g \in 0..Len(S.bytes) /\ b \in Seq(Byte)
    BY DEF Reader
  <1>2. g \in 0..Len(T.bytes)
    BY <1>1, Numbers DEF Grown
  <1>3. CASE ~more
    <2>1. b = <<>> /\ Passed(T, hs, g, c)
      BY <1>3, GrownPassed DEF Reader
    <2>2. QED
      BY <1>1, <1>2, <1>3, <2>1 DEF Reader
  <1>4. CASE more /\ h = NoHeader
    <2>1. NoNull(b) /\ OnHeader(S, hs, b, g, c)
      BY <1>4 DEF Reader
    <2>2. CASE /\ Len(b) <= g
               /\ Run(S, b, g - Len(b))
               /\ Passed(S, hs, g - Len(b), c)
               /\ c \/ b # <<>>
      <3>1. Run(T, b, g - Len(b)) /\ Passed(T, hs, g - Len(b), c)
        BY <1>1, <2>2, GrownRun, GrownPassed
      <3>2. OnHeader(T, hs, b, g, c)
        BY <2>2, <3>1 DEF OnHeader
      <3>3. QED
        BY <1>1, <1>2, <1>4, <2>1, <3>2 DEF Reader
    <2>3. CASE c /\ ~Headlike(b) /\ Passed(S, hs, g, c)
      <3>1. Passed(T, hs, g, c)
        BY <2>3, GrownPassed
      <3>2. OnHeader(T, hs, b, g, c)
        BY <2>3, <3>1 DEF OnHeader
      <3>3. QED
        BY <1>1, <1>2, <1>4, <2>1, <3>2 DEF Reader
    <2>4. QED
      BY <2>1, <2>2, <2>3 DEF OnHeader
  <1>5. CASE more /\ h # NoHeader
    <2>1. h \in Packets /\ OnPayload(S, hs, h, b, g, c)
      BY <1>5 DEF Reader
    <2>2. PICK m \in 1..Len(S.sent) :
            /\ S.sent[m] = h
            /\ Len(b) < S.size[h]
            /\ g = S.ends[m - 1] + HeadSize + 1 + Len(b)
            /\ Run(S, b, S.ends[m - 1] + HeadSize + 1)
            /\ Passed(S, hs, S.ends[m - 1], c)
      BY <2>1 DEF OnPayload
    <2>3. m \in 1..Len(T.sent) /\ m - 1 \in 0..Len(S.sent)
      BY Numbers DEF Grown
    <2>4. T.sent[m] = h /\ T.ends[m - 1] = S.ends[m - 1] /\ T.size = S.size
      BY <2>2, <2>3 DEF Grown
    <2>5. /\ Run(T, b, S.ends[m - 1] + HeadSize + 1)
          /\ Passed(T, hs, S.ends[m - 1], c)
      BY <1>1, <2>2, GrownRun, GrownPassed
    <2>6. OnPayload(T, hs, h, b, g, c)
      BY <2>2, <2>3, <2>4, <2>5 DEF OnPayload
    <2>7. QED
      BY <1>1, <1>2, <1>5, <2>1, <2>6 DEF Reader
  <1>6. QED
    BY <1>3, <1>4, <1>5

-----------------------------------------------------------------------------
(* What a read does to the bytes on their way and to the buffer.           *)

\* Two runs, the one after the other.
LEMMA RunJoined ==
  ASSUME NEW S, Stream(S), NEW s, NEW b \in Seq(Byte), NEW d \in Seq(Byte),
         Run(S, b, s), Run(S, d, s + Len(b))
  PROVE  /\ b \o d \in Seq(Byte)
         /\ Len(b \o d) = Len(b) + Len(d)
         /\ Run(S, b \o d, s)
  <1>1. PICK l \in Nat : l = Len(b)
    BY LenProperties
  <1>2. PICK n \in Nat : n = Len(d)
    BY LenProperties
  <1>3. PICK k \in Nat : k = Len(S.bytes)
    BY Numbers
  <1>4. /\ b \o d \in Seq(Byte) /\ Len(b \o d) = l + n
        /\ \A i \in 1..(l + n) : (b \o d)[i] = IF i <= l THEN b[i] ELSE d[i - l]
    <2>1. /\ b \o d \in Seq(Byte) /\ Len(b \o d) = Len(b) + Len(d)
          /\ \A i \in 1..(Len(b) + Len(d)) :
               (b \o d)[i] = IF i <= Len(b) THEN b[i] ELSE d[i - Len(b)]
      BY ConcatProperties
    <2>2. QED
      BY <1>1, <1>2, <2>1
  <1>5. /\ s \in Nat /\ (s + l) + n <= k
        /\ \A i \in 1..l : b[i] = S.bytes[s + i]
        /\ \A i \in 1..n : d[i] = S.bytes[(s + l) + i]
    BY <1>1, <1>2, <1>3 DEF Run
  <1> DEFINE q == b \o d
  <1> HIDE DEF q
  <1>6. ASSUME NEW i \in 1..(l + n) PROVE q[i] = S.bytes[s + i]
    <2>1. CASE i <= l
      <3>1. i \in 1..l /\ q[i] = b[i]
        BY <1>4, <2>1 DEF q
      <3>2. QED
        BY <1>5, <3>1
    <2>2. CASE ~(i <= l)
      <3>1. i - l \in 1..n /\ (s + l) + (i - l) = s + i
        BY <1>5, <2>2
      <3>2. q[i] = d[i - l]
        BY <1>4, <2>2 DEF q
      <3>3. QED
        BY <1>5, <3>1, <3>2
    <2>3. QED
      BY <2>1, <2>2
  <1>7. s \in Nat /\ s + (l + n) <= k
    BY <1>5
  <1>8. q \in Seq(Byte) /\ Len(q) = l + n
    BY <1>4 DEF q
  <1>9. Run(S, q, s)
    BY <1>3, <1>6, <1>7, <1>8 DEF Run
  <1>10. QED
    BY <1>1, <1>2, <1>8, <1>9 DEF q

\* A ping is no byte of the stream.
LEMMA NoPing ==
  ASSUME NEW S, Stream(S), NEW b, NEW s, Run(S, b, s), Len(b) \in Nat \ {0}
  PROVE  b[1].part # "ping"
  <1>1. PICK l \in Nat \ {0} : l = Len(b)
    OBVIOUS
  <1>2. PICK k \in Nat : k = Len(S.bytes)
    BY Numbers
  <1>3. s \in Nat /\ s + l <= k /\ b[1] = S.bytes[s + 1]
    BY <1>1, <1>2 DEF Run
  <1>4. s + 1 \in 1..Len(S.bytes)
    BY <1>1, <1>2, <1>3
  <1>5. PICK m \in 1..Len(S.sent) : \E j \in 1..Whole(S, S.sent[m]) :
          S.bytes[s + 1] = ByteAt(S.sent[m], j)
    BY <1>4, Locate
  <1>6. PICK j \in 1..Whole(S, S.sent[m]) : S.bytes[s + 1] = ByteAt(S.sent[m], j)
    BY <1>5
  <1>7. ByteAt(S.sent[m], j).part # "ping"
    BY DEF ByteAt
  <1>8. QED
    BY <1>3, <1>6, <1>7

\* A promise about all packets is one about some.
LEMMA PassedThrown ==
  ASSUME NEW S, NEW hs, NEW s, NEW c \in BOOLEAN, Passed(S, hs, s, c)
  PROVE  Passed(S, hs, s, TRUE)
  BY DEF Passed

\* Whatever the reader keeps, what it has handed on is of the bytes it has read.
LEMMA ReaderPassed ==
  ASSUME NEW S, Stream(S), NEW hs, NEW more, NEW h, NEW b, NEW g, NEW c,
         Reader(S, hs, more, h, b, g, c)
  PROVE  \E s \in 0..Len(S.bytes) : s <= g /\ Passed(S, hs, s, c)
  <1>1. PICK k \in Nat : k = Len(S.bytes)
    BY Numbers
  <1>2. g \in 0..k /\ b \in Seq(Byte)
    BY <1>1 DEF Reader
  <1>3. PICK l \in Nat : l = Len(b)
    BY <1>2, LenProperties
  <1>4. ASSUME Passed(S, hs, g, c)
        PROVE  \E s \in 0..Len(S.bytes) : s <= g /\ Passed(S, hs, s, c)
    BY <1>1, <1>2, <1>4
  <1>5. CASE ~more
    BY <1>4, <1>5 DEF Reader
  <1>6. CASE more /\ h = NoHeader
    <2>1. OnHeader(S, hs, b, g, c)
      BY <1>6 DEF Reader
    <2>2. CASE Len(b) <= g /\ Passed(S, hs, g - Len(b), c)
      <3>1. g - l \in 0..k /\ g - l <= g
        BY <1>2, <1>3, <2>2
      <3>2. QED
        BY <1>1, <1>3, <2>2, <3>1
    <2>3. CASE Passed(S, hs, g, c)
      BY <1>4, <2>3
    <2>4. QED
      BY <2>1, <2>2, <2>3 DEF OnHeader
  <1>7. CASE more /\ h # NoHeader
    <2>1. PICK m \in 1..Len(S.sent) :
            /\ g = S.ends[m - 1] + HeadSize + 1 + Len(b)
            /\ Passed(S, hs, S.ends[m - 1], c)
      BY <1>7 DEF Reader, OnPayload
    <2>2. m - 1 \in 0..Len(S.sent)
      BY PacketNumbers
    <2>3. PICK e \in 0..k : e = S.ends[m - 1]
      BY <1>1, <2>2, Numbers
    <2>4. HeadSize \in Nat
      BY Numbers
    <2>5. e <= g
      BY <1>2, <1>3, <2>1, <2>3, <2>4
    <2>6. QED
      BY <1>1, <2>1, <2>3, <2>5
  <1>8. QED
    BY <1>5, <1>6, <1>7

-----------------------------------------------------------------------------
(* The reads.                                                              *)

\* What a read leaves: the reader as it should be after the first k bytes, or the
\* task has ended.
Outcome(S, k) ==
  /\ {dead', cast'} \subseteq BOOLEAN
  /\ need' \in BOOLEAN
  /\ header' \in Packets \cup {NoHeader}
  /\ buffer' \in Seq(Byte)
  /\ handed' \in Seq(Pairs)
  /\ IF dead' THEN \E s \in 0..Len(S.bytes) : Passed(S, handed', s, cast')
     ELSE Reader(S, handed', need', header', buffer', k, cast')

\* Keep leaves the reader as it should be after the bytes it has parsed.
LEMMA KeptOutcome ==
  ASSUME NEW S, Stream(S), S.size = size, TypeOK,
         NEW g, Reader(S, handed, need, header, buffer, g, cast),
         NEW ps, NEW b \in Seq(Byte), Keep(ps, b), NEW s, Run(S, b, s),
         cast' \in BOOLEAN, cast => cast', Passed(S, handed \o ps, s, cast')
  PROVE  Outcome(S, s + Len(b))
  <1>1. /\ need \in BOOLEAN /\ header \in Packets \cup {NoHeader}
        /\ buffer \in Seq(Byte) /\ handed \in Seq(Pairs) /\ cast \in BOOLEAN
    BY DEF TypeOK, Pairs
  <1>2. /\ dead' \in BOOLEAN
        /\ dead' => UNCHANGED <<handed, need, header, buffer>>
        /\ ~dead' => /\ Reader(S, handed', need', header', buffer', s + Len(b), cast')
                     /\ need' \in BOOLEAN
                     /\ header' \in Packets \cup {NoHeader}
                     /\ handed' \in Seq(Pairs)
    <2>1. PICK c \in BOOLEAN : c = cast'
      OBVIOUS
    <2>2. Passed(S, handed \o ps, s, c)
      BY <2>1
    <2>3. /\ dead' \in BOOLEAN
          /\ dead' => UNCHANGED <<handed, need, header, buffer>>
          /\ ~dead' => /\ Reader(S, handed', need', header', buffer', s + Len(b), c)
                       /\ need' \in BOOLEAN
                       /\ header' \in Packets \cup {NoHeader}
                       /\ handed' \in Seq(Pairs)
      BY <1>1, <2>2, KeepEffect
    <2>4. QED
      BY <2>1, <2>3
  <1>3. CASE dead'
    <2>1. PICK t \in 0..Len(S.bytes) : Passed(S, handed, t, cast)
      BY ReaderPassed
    <2>2. Passed(S, handed, t, cast')
      <3>1. CASE ~cast'
        BY <1>1, <2>1, <3>1
      <3>2. CASE cast'
        BY <1>1, <2>1, <3>2, PassedThrown
      <3>3. QED
        BY <3>1, <3>2
    <2>3. handed' = handed /\ need' = need /\ header' = header /\ buffer' = buffer
      BY <1>2, <1>3
    <2>4. QED
      BY <1>1, <1>2, <1>3, <2>2, <2>3 DEF Outcome
  <1>4. CASE ~dead'
    <2>1. /\ Reader(S, handed', need', header', buffer', s + Len(b), cast')
          /\ need' \in BOOLEAN /\ header' \in Packets \cup {NoHeader}
          /\ handed' \in Seq(Pairs)
      BY <1>2, <1>4
    <2>2. buffer' \in Seq(Byte)
      BY <2>1 DEF Reader
    <2>3. QED
      BY <1>2, <1>4, <2>1, <2>2 DEF Outcome
  <1>5. QED
    BY <1>3, <1>4

\* The bytes that a read returns, and those it leaves.
LEMMA ChunkRead ==
  ASSUME NEW S, Stream(S), TypeOK, NEW g, Run(S, wire, g), g + Len(wire) = Len(S.bytes),
         NEW n \in 1..Len(wire), Reads(n)
  PROVE  /\ n \in Nat /\ g \in Nat
         /\ Chunk(n) \in Seq(Byte) /\ Len(Chunk(n)) = n /\ Run(S, Chunk(n), g)
         /\ wire' \in Seq(Byte) /\ Run(S, wire', g + n)
         /\ (g + n) + Len(wire') = Len(S.bytes)
         /\ g + n \in 0..Len(S.bytes)
  <1>1. wire \in Seq(Byte)
    BY DEF TypeOK
  <1>2. PICK l \in Nat : l = Len(wire)
    BY <1>1, LenProperties
  <1>3. PICK k \in Nat : k = Len(S.bytes)
    BY Numbers
  <1>4. g \in Nat /\ g + l = k /\ n \in 1..l
    BY <1>2, <1>3 DEF Run
  <1>5. /\ SubSeq(wire, 0 + 1, n) \in Seq(Byte)
        /\ Len(SubSeq(wire, 0 + 1, n)) = n - 0
        /\ Run(S, SubSeq(wire, 0 + 1, n), g + 0)
    <2>1. 0 \in Nat /\ n \in Nat /\ 0 <= n /\ n <= Len(wire)
      BY <1>2, <1>4
    <2>2. QED
      BY <1>1, <2>1, RunSlice
  <1>6. 0 + 1 = 1 /\ n - 0 = n /\ g + 0 = g
    BY <1>4
  <1>7. Chunk(n) \in Seq(Byte) /\ Len(Chunk(n)) = n /\ Run(S, Chunk(n), g)
    BY <1>5, <1>6 DEF Chunk
  <1>8. /\ SubSeq(wire, n + 1, Len(wire)) \in Seq(Byte)
        /\ Run(S, SubSeq(wire, n + 1, Len(wire)), g + n)
        /\ (g + n) + Len(SubSeq(wire, n + 1, Len(wire))) = g + Len(wire)
    <2>1. n \in Nat /\ n <= Len(wire)
      BY <1>2, <1>4
    <2>2. QED
      BY <1>1, <2>1, RunPart
  <1>9. wire' = SubSeq(wire, n + 1, Len(wire))
    BY DEF Reads
  <1>10. g + n \in 0..k
    BY <1>4
  <1>11. wire' \in Seq(Byte) /\ Run(S, wire', g + n) /\ (g + n) + Len(wire') = Len(S.bytes)
    BY <1>8, <1>9
  <1>12. g \in Nat /\ n \in Nat
    BY <1>4
  <1>13. QED
    BY <1>3, <1>7, <1>10, <1>11, <1>12

\* Nothing was kept: the bytes that are read begin where the last packet handed on ends.
LEMMA AfreshOutcome ==
  ASSUME NEW S, Stream(S), S.size = size, TypeOK,
         NEW g, Reader(S, handed, need, header, buffer, g, cast),
         NEW n \in Nat, Chunk(n) \in Seq(Byte), Len(Chunk(n)) = n, Run(S, Chunk(n), g),
         ReadAfresh(n)
  PROVE  Outcome(S, g + n)
  <1>1. ~need /\ Keep(<<>>, Chunk(n)) /\ cast' = cast
    BY DEF ReadAfresh
  <1>2. Passed(S, handed, g, cast)
    BY <1>1 DEF Reader
  <1>3. handed \in Seq(Pairs) /\ cast \in BOOLEAN
    BY DEF TypeOK, Pairs
  <1>4. handed \o <<>> = handed
    BY <1>3, ConcatEmptySeq
  <1>5. Passed(S, handed \o <<>>, g, cast') /\ cast' \in BOOLEAN /\ (cast => cast')
    BY <1>1, <1>2, <1>3, <1>4
  <1>6. Outcome(S, g + Len(Chunk(n)))
    BY <1>1, <1>5, KeptOutcome
  <1>7. QED
    BY <1>6

\* A part of a header was kept: with the bytes that are read it is a run, or it never
\* becomes a header, or it is thrown away.
LEMMA HeaderOutcome ==
  ASSUME NEW S, Stream(S), S.size = size, TypeOK,
         NEW g \in Nat, Reader(S, handed, need, header, buffer, g, cast),
         NEW n \in Nat, Chunk(n) \in Seq(Byte), Len(Chunk(n)) = n, Run(S, Chunk(n), g),
         g + n \in 0..Len(S.bytes),
         ReadOnHeader(n)
  PROVE  Outcome(S, g + n)
  <1>1. need /\ header = NoHeader
    BY DEF ReadOnHeader
  <1>2. NoNull(buffer) /\ OnHeader(S, handed, buffer, g, cast)
    BY <1>1 DEF Reader
  <1>3. handed \in Seq(Pairs) /\ buffer \in Seq(Byte) /\ cast \in BOOLEAN
    BY DEF TypeOK, Pairs
  <1>4. handed \o <<>> = handed
    BY <1>3, ConcatEmptySeq
  <1>5. PICK k \in Nat : k = Len(S.bytes)
    BY Numbers
  <1>6. g + n \in Nat /\ g <= g + n /\ g + n <= k
    BY <1>5
  <1>7. CASE cast' = TRUE /\ Keep(<<>>, <<>>)
    <2>1. PICK s \in 0..Len(S.bytes) : s <= g /\ Passed(S, handed, s, cast)
      BY ReaderPassed
    <2>2. Passed(S, handed, s, TRUE)
      BY <1>3, <2>1, PassedThrown
    <2>3. s <= g + n
      BY <1>5, <1>6, <2>1
    <2>4. Passed(S, handed, g + n, TRUE)
      BY <1>6, <2>2, <2>3, PassedLater
    <2>5. <<>> \in Seq(Byte) /\ Len(<<>>) = 0
      BY EmptySeq
    <2>6. Run(S, <<>>, g + n)
      BY <1>5, <1>6, <2>5 DEF Run
    <2>7. Passed(S, handed \o <<>>, g + n, cast') /\ cast' \in BOOLEAN /\ (cast => cast')
      BY <1>4, <1>7, <2>4
    <2>8. Outcome(S, (g + n) + Len(<<>>))
      BY <1>7, <2>5, <2>6, <2>7, KeptOutcome
    <2>9. (g + n) + Len(<<>>) = g + n
      BY <1>6, <2>5
    <2>10. QED
      BY <2>8, <2>9
  <1>8. CASE cast' = cast /\ Keep(<<>>, buffer \o Chunk(n))
    <2>1. CASE /\ Len(buffer) <= g
               /\ Run(S, buffer, g - Len(buffer))
               /\ Passed(S, handed, g - Len(buffer), cast)
      <3>1. PICK l \in Nat : l = Len(buffer)
        BY <1>3, LenProperties
      <3>2. PICK s \in Nat : s = g - l
        <4>1. l <= g
          BY <2>1, <3>1
        <4>2. g - l \in Nat
          BY <4>1
        <4>3. QED
          BY <4>2
      <3>3. s + l = g /\ s = g - Len(buffer) /\ s + (l + n) = g + n
        BY <3>1, <3>2
      <3>4. Run(S, buffer, s) /\ Passed(S, handed, s, cast) /\ Run(S, Chunk(n), s + Len(buffer))
        BY <2>1, <3>1, <3>3
      <3>5. /\ buffer \o Chunk(n) \in Seq(Byte)
            /\ Len(buffer \o Chunk(n)) = Len(buffer) + Len(Chunk(n))
            /\ Run(S, buffer \o Chunk(n), s)
        BY <1>3, <3>4, RunJoined
      <3>6. /\ Passed(S, handed \o <<>>, s, cast') /\ cast' \in BOOLEAN /\ (cast => cast')
        BY <1>3, <1>4, <1>8, <3>4
      <3>7. Outcome(S, s + Len(buffer \o Chunk(n)))
        BY <1>8, <3>5, <3>6, KeptOutcome
      <3>8. s + Len(buffer \o Chunk(n)) = g + n
        BY <3>1, <3>3, <3>5
      <3>9. QED
        BY <3>7, <3>8
    <2>2. CASE cast /\ ~Headlike(buffer) /\ Passed(S, handed, g, cast)
      <3> DEFINE q == buffer \o Chunk(n)
      <3>1. q \in Seq(Byte) /\ q # <<>> /\ ~Headlike(JsonOf(q)) /\ ~IsHeader(JsonOf(q))
        BY <1>2, <1>3, <2>2, NeverHeader
      <3>2. JsonOf(q) \in Seq(Byte) /\ NoNull(JsonOf(q))
        BY <3>1, JsonEffect
      <3> HIDE DEF q
      <3>3. Parse(q) = [pairs |-> <<>>, bytes |-> <<>>, rest |-> <<NoHeader, JsonOf(q)>>,
                        panics |-> FALSE]
        BY <3>1, ParseNoHeader
      <3>4. Keep(<<>>, q)
        BY <1>8 DEF q
      <3>5. /\ dead' = FALSE /\ handed' = handed \o <<>> \o <<>>
            /\ need' = TRUE /\ header' = NoHeader /\ buffer' = JsonOf(q)
        <4>1. /\ Parse(q).pairs = <<>> /\ Parse(q).panics = FALSE
              /\ Parse(q).rest = <<NoHeader, JsonOf(q)>>
          BY <3>3
        <4>2. Parse(q).rest # <<>> /\ Parse(q).rest[1] = NoHeader /\ Parse(q).rest[2] = JsonOf(q)
          BY <4>1
        <4>3. QED
          BY <3>4, <4>1, <4>2 DEF Keep
      <3>6. handed' = handed
        BY <1>4, <3>5
      <3>7. Passed(S, handed, g + n, TRUE)
        BY <1>6, <2>2, PassedThrown, PassedLater
      <3>8. OnHeader(S, handed', buffer', g + n, cast')
        BY <1>8, <2>2, <3>1, <3>5, <3>6, <3>7 DEF OnHeader
      <3>9. Reader(S, handed', need', header', buffer', g + n, cast')
        BY <3>2, <3>5, <3>8 DEF Reader
      <3>10. QED
        BY <1>3, <1>8, <3>2, <3>5, <3>6, <3>9 DEF Outcome
    <2>3. QED
      BY <1>2, <2>1, <2>2 DEF OnHeader
  <1>9. QED
    BY <1>7, <1>8 DEF ReadOnHeader

\* Where the payload of packet m begins.
LEMMA PayloadAt ==
  ASSUME NEW S, Stream(S), NEW m \in 1..Len(S.sent)
  PROVE  S.ends[m - 1] + HeadSize + 1 \in Nat
  <1>1. PICK e \in Nat : e = S.ends[m - 1]
    BY PacketNumbers
  <1>2. PICK h \in Nat : h = HeadSize
    BY Numbers
  <1>3. e + h + 1 \in Nat
    OBVIOUS
  <1>4. QED
    BY <1>1, <1>2, <1>3

\* A payload is longer by what was read, and still not whole.
LEMMA PayloadOutcome ==
  ASSUME NEW S, Stream(S), S.size = size, TypeOK,
         NEW g \in Nat, Reader(S, handed, need, header, buffer, g, cast),
         NEW n \in Nat, Chunk(n) \in Seq(Byte), Len(Chunk(n)) = n, Run(S, Chunk(n), g),
         g + n \in 0..Len(S.bytes), ~dead,
         ReadOnPayload(n)
  PROVE  Outcome(S, g + n)
  <1>1. /\ need /\ header # NoHeader /\ Total(n) < LengthOf(header)
        /\ buffer' = buffer \o Chunk(n)
        /\ UNCHANGED <<need, header, handed, dead, cast>>
    BY DEF ReadOnPayload
  <1>2. header \in Packets /\ OnPayload(S, handed, header, buffer, g, cast)
    BY <1>1 DEF Reader
  <1>3. PICK m \in 1..Len(S.sent) :
          /\ S.sent[m] = header
          /\ g = S.ends[m - 1] + HeadSize + 1 + Len(buffer)
          /\ Run(S, buffer, S.ends[m - 1] + HeadSize + 1)
          /\ Passed(S, handed, S.ends[m - 1], cast)
    BY <1>2 DEF OnPayload
  <1>4. handed \in Seq(Pairs) /\ buffer \in Seq(Byte) /\ {dead, cast} \subseteq BOOLEAN
        /\ need \in BOOLEAN
    BY DEF TypeOK, Pairs
  <1>5. PICK l \in Nat : l = Len(buffer)
    BY <1>4, LenProperties
  <1>6. PICK s \in Nat : s = S.ends[m - 1] + HeadSize + 1
    BY PayloadAt
  <1>7. g = s + l /\ s + (l + n) = g + n
    <2>1. g = s + l
      BY <1>3, <1>5, <1>6
    <2>2. s \in Nat /\ l \in Nat /\ n \in Nat
      OBVIOUS
    <2>3. QED
      BY <2>1, <2>2
  <1>8. Run(S, buffer, s) /\ Run(S, Chunk(n), s + Len(buffer))
    BY <1>3, <1>5, <1>6, <1>7
  <1>9. /\ buffer' \in Seq(Byte)
        /\ Len(buffer') = l + n
        /\ Run(S, buffer', s)
    <2>1. /\ buffer \o Chunk(n) \in Seq(Byte)
          /\ Len(buffer \o Chunk(n)) = Len(buffer) + Len(Chunk(n))
          /\ Run(S, buffer \o Chunk(n), s)
      BY <1>4, <1>8, RunJoined
    <2>2. QED
      BY <1>1, <1>5, <2>1
  <1>10. Len(buffer') < S.size[header]
    BY <1>1, <1>5, <1>9 DEF Total, LengthOf
  <1>11. g + n = S.ends[m - 1] + HeadSize + 1 + Len(buffer')
    BY <1>6, <1>7, <1>9
  <1>12. OnPayload(S, handed, header, buffer', g + n, cast)
    BY <1>3, <1>6, <1>9, <1>10, <1>11 DEF OnPayload
  <1>13. Reader(S, handed, need, header, buffer', g + n, cast)
    BY <1>1, <1>2, <1>9, <1>12 DEF Reader
  <1>14. QED
    BY <1>1, <1>2, <1>4, <1>9, <1>13 DEF Outcome

\* A payload is whole, and is that of the header that was kept.
LEMMA EndOutcome ==
  ASSUME NEW S, Stream(S), S.size = size, TypeOK,
         NEW g \in Nat, Reader(S, handed, need, header, buffer, g, cast), Run(S, wire, g),
         NEW n \in Nat, n <= Len(wire),
         g + n \in 0..Len(S.bytes),
         ReadToEnd(n)
  PROVE  Outcome(S, g + n)
  <1> DEFINE k == LengthOf(header) - Len(buffer)
             first == SubSeq(wire, 1, k)
             after == SubSeq(wire, k + 1, n)
             x == Packet(header, buffer \o first)
  <1>1. /\ need /\ header # NoHeader /\ Total(n) >= LengthOf(header)
        /\ Keep(<<x>>, after)
        /\ UNCHANGED cast
    BY DEF ReadToEnd
  <1>2. header \in Packets /\ OnPayload(S, handed, header, buffer, g, cast)
    BY <1>1 DEF Reader
  <1>3. PICK m \in 1..Len(S.sent) :
          /\ S.sent[m] = header
          /\ Len(buffer) < S.size[header]
          /\ g = S.ends[m - 1] + HeadSize + 1 + Len(buffer)
          /\ Run(S, buffer, S.ends[m - 1] + HeadSize + 1)
          /\ Passed(S, handed, S.ends[m - 1], cast)
    BY <1>2 DEF OnPayload
  <1>4. handed \in Seq(Pairs) /\ buffer \in Seq(Byte) /\ wire \in Seq(Byte) /\ cast \in BOOLEAN
    BY DEF TypeOK, Pairs
  <1>5. PICK l \in Nat : l = Len(buffer)
    BY <1>4, LenProperties
  <1>6. PICK z \in Nat : z = S.size[header]
    BY <1>2 DEF Stream
  <1>9. PICK s \in Nat : s = S.ends[m - 1] + HeadSize + 1
    BY PayloadAt
  <1>10. PICK w \in Nat : w = Len(wire)
    BY <1>4, LenProperties
  <1>11. LengthOf(header) = z
    BY <1>6 DEF LengthOf
  <1>12. PICK j \in Nat : j = z - l
    BY <1>3, <1>5, <1>6
  <1>13. /\ k = j /\ l + j = z /\ j <= n /\ j <= w /\ n <= w
         /\ g = s + l /\ g + j = s + z
    <2>1. l + n >= z
      BY <1>1, <1>5, <1>11 DEF Total
    <2>2. g = s + l
      BY <1>3, <1>5, <1>9
    <2>3. QED
      BY <1>5, <1>10, <1>11, <1>12, <2>1, <2>2
  <1>14. S.ends[m] = g + j
    <2>1. S.ends[m] = S.ends[m - 1] + HeadSize + 1 + S.size[S.sent[m]]
      BY PacketNumbers
    <2>2. QED
      BY <1>3, <1>6, <1>9, <1>13, <2>1
  <1>15. first \in Seq(Byte) /\ Len(first) = j /\ Run(S, first, g)
    <2>1. /\ SubSeq(wire, 0 + 1, j) \in Seq(Byte)
          /\ Len(SubSeq(wire, 0 + 1, j)) = j - 0
          /\ Run(S, SubSeq(wire, 0 + 1, j), g + 0)
      <3>1. 0 \in Nat /\ 0 <= j /\ j <= Len(wire)
        BY <1>10, <1>13
      <3>2. QED
        BY <1>4, <3>1, RunSlice
    <2>2. 0 + 1 = 1 /\ j - 0 = j /\ g + 0 = g
      OBVIOUS
    <2>3. QED
      BY <1>13, <2>1, <2>2
  <1>16. after \in Seq(Byte) /\ Len(after) = n - j /\ Run(S, after, g + j)
    <2>1. j <= n /\ n <= Len(wire)
      BY <1>10, <1>13
    <2>2. /\ SubSeq(wire, j + 1, n) \in Seq(Byte)
          /\ Len(SubSeq(wire, j + 1, n)) = n - j
          /\ Run(S, SubSeq(wire, j + 1, n), g + j)
      BY <1>4, <2>1, RunSlice
    <2>3. QED
      BY <1>13, <2>2
  <1> HIDE DEF first, after, k
  <1> DEFINE whole == buffer \o first
  <1>17. whole \in Seq(Byte) /\ Len(whole) = z /\ Run(S, whole, s)
    <2>1. Run(S, buffer, s) /\ Run(S, first, s + Len(buffer))
      BY <1>3, <1>5, <1>9, <1>13, <1>15
    <2>2. /\ whole \in Seq(Byte)
          /\ Len(whole) = Len(buffer) + Len(first)
          /\ Run(S, whole, s)
      BY <1>4, <1>15, <2>1, RunJoined
    <2>3. QED
      BY <1>5, <1>13, <1>15, <2>2
  <1> HIDE DEF whole
  <1>18. whole = PayloadIn(S, S.sent[m])
    <2>1. LengthOf(S.sent[m]) = Len(whole)
      BY <1>3, <1>11, <1>17
    <2>2. LengthOf(S.sent[m]) <= Len(whole)
      BY <1>17, <2>1
    <2>3. SubSeq(whole, 1, LengthOf(S.sent[m])) = PayloadIn(S, S.sent[m])
      BY <1>9, <1>17, <2>2, PayloadRead
    <2>4. SubSeq(whole, 1, Len(whole)) = whole
      BY <1>17, SubSeqFull
    <2>5. QED
      BY <2>1, <2>3, <2>4
  <1>19. Passed(S, handed \o <<x>>, S.ends[m], cast)
    <2>1. x = Packet(S.sent[m], PayloadIn(S, S.sent[m]))
      BY <1>3, <1>18 DEF whole
    <2>2. Passed(S, Append(handed, x), S.ends[m], cast)
      BY <1>3, <2>1, PassedMore
    <2>3. x \in Pairs
      BY <2>1, PayloadType
    <2>4. Append(handed, x) = handed \o <<x>>
      BY <1>4, <2>3, AppendIsConcat
    <2>5. QED
      BY <2>2, <2>4
  <1> HIDE DEF x
  <1>20. Passed(S, handed \o <<x>>, g + j, cast') /\ cast' \in BOOLEAN /\ (cast => cast')
    BY <1>1, <1>4, <1>14, <1>19
  <1>21. Outcome(S, (g + j) + Len(after))
    BY <1>1, <1>16, <1>20, KeptOutcome
  <1>22. (g + j) + Len(after) = g + n
    BY <1>13, <1>16
  <1>23. QED
    BY <1>21, <1>22

-----------------------------------------------------------------------------
(* The steps.                                                              *)

\* The ping is one byte.
LEMMA PingBytes ==
  /\ Ping \in Seq(Byte) /\ Len(Ping) = 1
  /\ Ping[1].part = "ping"
  <1>1. [of |-> NoHeader, part |-> "ping", at |-> 1] \in Byte
    BY DEF Byte
  <1>2. QED
    BY <1>1 DEF Ping

\* A stream that has not been read begins with the ping.
LEMMA PingFirst ==
  ASSUME NEW b \in Seq(Byte)
  PROVE  /\ Ping \o b \in Seq(Byte)
         /\ Len(Ping \o b) = 1 + Len(b)
         /\ (Ping \o b)[1].part = "ping"
         /\ \A i \in 1..Len(b) : (Ping \o b)[1 + i] = b[i]
  <1>1. PICK l \in Nat : l = Len(b)
    BY LenProperties
  <1>2. /\ Ping \o b \in Seq(Byte) /\ Len(Ping \o b) = Len(Ping) + Len(b)
        /\ \A i \in 1..(Len(Ping) + Len(b)) :
             (Ping \o b)[i] = IF i <= Len(Ping) THEN Ping[i] ELSE b[i - Len(Ping)]
    BY PingBytes, ConcatProperties
  <1>3. /\ Len(Ping \o b) = 1 + l
        /\ \A i \in 1..(1 + l) : (Ping \o b)[i] = IF i <= 1 THEN Ping[i] ELSE b[i - 1]
    BY <1>1, <1>2, PingBytes
  <1>4. (Ping \o b)[1] = Ping[1]
    BY <1>3
  <1>5. ASSUME NEW i \in 1..l PROVE (Ping \o b)[1 + i] = b[i]
    <2>1. 1 + i \in 1..(1 + l) /\ ~(1 + i <= 1) /\ (1 + i) - 1 = i
      OBVIOUS
    <2>2. QED
      BY <1>3, <2>1
  <1>6. QED
    BY <1>1, <1>2, <1>3, <1>4, <1>5, PingBytes

\* The reader before it reads.
LEMMA NothingPassed ==
  ASSUME NEW S, Stream(S)
  PROVE  Passed(S, <<>>, 0, FALSE)
  <1>1. <<>> \in Seq(Pairs) /\ Len(<<>>) = 0
    BY EmptySeq
  <1>2. PICK n \in Nat : n = Len(S.sent)
    BY Numbers
  <1>3. S.ends[0] = 0
    BY DEF Stream
  <1>4. QED
    BY <1>1, <1>2, <1>3 DEF Passed

\* The ping is answered: the stream begins after it.
LEMMA PingStep ==
  ASSUME TypeOK, NEW S, Carries(S), AnswerPing
  PROVE  TypeOK' /\ Carries(S)'
  <1>1. /\ Stream(S) /\ S.sent = sent /\ S.size = size /\ S.bytes \in Seq(Byte)
    BY DEF Carries, Stream
  <1>2. /\ wire \in Seq(Byte) /\ pongs \in Nat /\ handed \in Seq(Pairs)
    BY DEF TypeOK, Pairs
  <1>3. /\ 1 \in 1..Len(wire) /\ wire' = SubSeq(wire, 1 + 1, Len(wire))
        /\ SubSeq(wire, 1, 1) = Ping /\ ~dead
        /\ pongs' = pongs + 1
        /\ UNCHANGED <<size, sent, need, header, buffer, resets, handed, dead, cast>>
    BY DEF AnswerPing, Reads, Chunk
  <1>4. PICK l \in Nat : l = Len(wire)
    BY <1>2, LenProperties
  <1>5. wire[1].part = "ping"
    <2>1. 1 \in 1..(Len(wire) + 1) /\ 1 \in (1 - 1)..Len(wire)
      BY <1>3, <1>4
    <2>2. \A i \in 1..(1 + 1 - 1) : SubSeq(wire, 1, 1)[i] = wire[1 + i - 1]
      BY <1>2, <2>1, Part
    <2>3. 1 \in 1..(1 + 1 - 1) /\ 1 + 1 - 1 = 1
      OBVIOUS
    <2>4. SubSeq(wire, 1, 1)[1] = wire[1]
      BY <2>2, <2>3
    <2>5. QED
      BY <1>3, <2>4, PingBytes
  <1>6. pongs = 0
    <2> SUFFICES ASSUME pongs # 0 PROVE FALSE
      OBVIOUS
    <2>1. PICK g : Run(S, wire, g)
      BY DEF Carries
    <2>2. Len(wire) \in Nat \ {0}
      BY <1>3, <1>4
    <2>3. QED
      BY <1>1, <1>5, <2>1, <2>2, NoPing
  <1>7. Fresh /\ wire = Ping \o S.bytes
    BY <1>6 DEF Carries
  <1>8. PICK k \in Nat : k = Len(S.bytes)
    BY <1>1, Numbers
  <1>9. /\ l = 1 + k
        /\ \A i \in 1..k : wire[1 + i] = S.bytes[i]
    BY <1>1, <1>4, <1>7, <1>8, PingFirst
  <1>10. /\ wire' \in Seq(Byte) /\ Len(wire') = k
         /\ \A i \in 1..k : wire'[i] = wire[1 + i]
    <2>1. 1 + 1 \in 1..(Len(wire) + 1) /\ Len(wire) \in ((1 + 1) - 1)..Len(wire)
      BY <1>3, <1>4
    <2>2. /\ wire' \in Seq(Byte) /\ Len(wire') = Len(wire) + 1 - (1 + 1)
          /\ \A i \in 1..(Len(wire) + 1 - (1 + 1)) : wire'[i] = wire[(1 + 1) + i - 1]
      BY <1>2, <1>3, <2>1, Part
    <2>3. Len(wire) + 1 - (1 + 1) = k
      BY <1>4, <1>9
    <2>4. \A i \in 1..k : (1 + 1) + i - 1 = 1 + i
      OBVIOUS
    <2>5. QED
      BY <2>2, <2>3, <2>4
  <1>11. Run(S, wire', 0)
    <2>1. \A i \in 1..k : 0 + i = i
      OBVIOUS
    <2>2. QED
      BY <1>8, <1>9, <1>10, <2>1 DEF Run
  <1>12. Reader(S, handed, need, header, buffer, 0, cast)
    <2>1. /\ need = FALSE /\ cast = FALSE /\ handed = <<>> /\ buffer = <<>>
      BY <1>7 DEF Fresh, TypeOK
    <2>2. 0 \in 0..Len(S.bytes) /\ <<>> \in Seq(Byte)
      BY <1>8, EmptySeq
    <2>3. Passed(S, <<>>, 0, FALSE)
      BY <1>1, NothingPassed
    <2>4. QED
      BY <2>1, <2>2, <2>3 DEF Reader
  <1>13. TypeOK'
    BY <1>2, <1>3, <1>10 DEF TypeOK
  <1>14. Carries(S)'
    <2>1. pongs' # 0
      BY <1>2, <1>3
    <2>2. 0 \in 0..Len(S.bytes) /\ 0 + Len(wire') = Len(S.bytes)
      BY <1>8, <1>10
    <2>3. Reader(S, handed', need', header', buffer', 0, cast') /\ ~dead'
      BY <1>3, <1>12
    <2>4. QED
      BY <1>1, <1>3, <1>11, <2>1, <2>2, <2>3 DEF Carries
  <1>15. QED
    BY <1>13, <1>14

\* All other reads take bytes of the stream only.
LEMMA ReadStep ==
  ASSUME TypeOK, NEW S, Carries(S), NEW n \in 1..Len(wire),
         ReadAfresh(n) \/ ReadOnHeader(n) \/ ReadOnPayload(n) \/ ReadToEnd(n)
  PROVE  TypeOK' /\ Carries(S)'
  <1>1. /\ Stream(S) /\ S.sent = sent /\ S.size = size /\ S.bytes \in Seq(Byte)
    BY DEF Carries, Stream
  <1>2. /\ wire \in Seq(Byte) /\ resets \in 0..5
    BY DEF TypeOK
  <1>3. /\ Reads(n)
        /\ need \/ wire[1].part # "ping"
        /\ pongs' = pongs /\ resets' \in 0..5
    <2>1. CASE ReadAfresh(n)
      BY <1>2, <2>1 DEF ReadAfresh, Keep
    <2>2. CASE ReadOnHeader(n)
      <3>1. resets' = 0 \/ (~(resets + 1 > 5) /\ resets' = resets + 1)
        BY <2>2 DEF ReadOnHeader
      <3>2. resets' \in 0..5
        BY <1>2, <3>1
      <3>3. QED
        BY <2>2, <3>2 DEF ReadOnHeader, Keep
    <2>3. CASE ReadOnPayload(n)
      BY <1>2, <2>3 DEF ReadOnPayload
    <2>4. CASE ReadToEnd(n)
      BY <1>2, <2>4 DEF ReadToEnd, Keep
    <2>5. QED
      BY <2>1, <2>2, <2>3, <2>4
  <1>4. ~dead /\ size' = size /\ sent' = sent
    BY <1>3 DEF Reads
  <1>5. pongs # 0
    <2> SUFFICES ASSUME pongs = 0 PROVE FALSE
      OBVIOUS
    <2>1. Fresh /\ wire = Ping \o S.bytes
      BY DEF Carries
    <2>2. wire[1].part = "ping"
      BY <1>1, <2>1, PingFirst
    <2>3. QED
      BY <1>3, <2>1, <2>2 DEF Fresh
  <1>6. PICK g \in 0..Len(S.bytes) :
          /\ Run(S, wire, g) /\ g + Len(wire) = Len(S.bytes)
          /\ Reader(S, handed, need, header, buffer, g, cast)
    BY <1>4, <1>5 DEF Carries
  <1>7. /\ n \in Nat /\ g \in Nat
        /\ Chunk(n) \in Seq(Byte) /\ Len(Chunk(n)) = n /\ Run(S, Chunk(n), g)
        /\ wire' \in Seq(Byte) /\ Run(S, wire', g + n)
        /\ (g + n) + Len(wire') = Len(S.bytes)
        /\ g + n \in 0..Len(S.bytes)
    BY <1>1, <1>3, <1>6, ChunkRead
  <1>8. Outcome(S, g + n)
    <2>1. CASE ReadAfresh(n)
      BY <1>1, <1>6, <1>7, <2>1, AfreshOutcome
    <2>2. CASE ReadOnHeader(n)
      BY <1>1, <1>6, <1>7, <2>2, HeaderOutcome
    <2>3. CASE ReadOnPayload(n)
      BY <1>1, <1>4, <1>6, <1>7, <2>3, PayloadOutcome
    <2>4. CASE ReadToEnd(n)
      <3>1. n <= Len(wire)
        <4>1. Len(wire) \in Nat
          BY <1>2, LenProperties
        <4>2. QED
          BY <4>1
      <3>2. QED
        BY <1>1, <1>6, <1>7, <2>4, <3>1, EndOutcome
    <2>5. QED
      BY <2>1, <2>2, <2>3, <2>4
  <1>9. TypeOK'
    <2>1. handed' \in Seq([header : Packets, payload : Seq(Byte)])
      BY <1>8 DEF Outcome, Pairs
    <2>2. /\ {dead', cast'} \subseteq BOOLEAN /\ need' \in BOOLEAN
          /\ header' \in Packets \cup {NoHeader} /\ buffer' \in Seq(Byte)
      BY <1>8 DEF Outcome
    <2>3. size' \in [Packets -> Sizes] /\ sent' \in Seq(Packets) /\ pongs' \in Nat
      BY <1>3, <1>4 DEF TypeOK
    <2>4. QED
      BY <1>3, <1>7, <2>1, <2>2, <2>3 DEF TypeOK
  <1>10. IF dead' THEN \E s \in 0..Len(S.bytes) : Passed(S, handed', s, cast')
         ELSE Reader(S, handed', need', header', buffer', g + n, cast')
    BY <1>8 DEF Outcome
  <1>11. Carries(S)'
    BY <1>1, <1>3, <1>4, <1>5, <1>7, <1>10 DEF Carries
  <1>12. QED
    BY <1>9, <1>11

\* The ping stays in front when more is written.
LEMMA PingThen ==
  ASSUME NEW b \in Seq(Byte), NEW w \in Seq(Byte)
  PROVE  (Ping \o b) \o w = Ping \o (b \o w)
  BY PingBytes, ConcatAssociative, SMTT(30)

\* A write makes the stream longer.
LEMMA WriteStep ==
  ASSUME TypeOK, NEW S, Carries(S), NEW p \in Packets, Write(p)
  PROVE  TypeOK' /\ \E T : Carries(T)'
  <1>1. /\ Stream(S) /\ S.sent = sent /\ S.size = size
        /\ S.bytes \in Seq(Byte) /\ S.sent \in Seq(Packets)
    BY DEF Carries, Stream
  <1>2. wire \in Seq(Byte) /\ handed \in Seq(Pairs)
    BY DEF TypeOK, Pairs
  <1>3. PICK w \in Seq(Byte) :
          /\ Whole(S, p) \in Nat \ {0} /\ Len(w) = Whole(S, p)
          /\ \A j \in 1..Whole(S, p) : w[j] = ByteAt(p, j)
          /\ wire' = wire \o w
    <2>1. (wire \o HeaderBytes(p)) \o PayloadBytes(p)
            = wire \o (HeaderBytes(p) \o PayloadBytes(p))
      BY <1>1, <1>2, PacketBytes, ConcatAssociative, SMTT(30)
    <2>2. wire' = wire \o (HeaderBytes(p) \o PayloadBytes(p))
      BY <2>1 DEF Write
    <2>3. QED
      BY <1>1, <2>2, PacketBytes
  <1>4. /\ p \notin ToSet(sent) /\ sent' = Append(sent, p)
        /\ UNCHANGED <<size, need, header, buffer, resets, handed, pongs, dead, cast>>
    BY DEF Write
  <1>5. \A m \in 1..Len(S.sent) : S.sent[m] # p
    <2>1. DOMAIN sent = 1..Len(sent)
      BY <1>1, LenProperties
    <2>2. QED
      BY <1>1, <1>4, <2>1 DEF ToSet
  <1>6. PICK T : /\ Stream(T) /\ Grown(S, T)
                 /\ T.sent = sent' /\ T.size = size' /\ T.bytes = S.bytes \o w
                 /\ Len(T.bytes) = Len(S.bytes) + Len(w)
                 /\ \A j \in 1..Len(w) : T.bytes[Len(S.bytes) + j] = w[j]
    <2>1. PICK T : /\ Stream(T) /\ Grown(S, T)
                   /\ T.sent = Append(S.sent, p) /\ T.size = S.size /\ T.bytes = S.bytes \o w
                   /\ Len(T.bytes) = Len(S.bytes) + Len(w)
                   /\ \A j \in 1..Len(w) : T.bytes[Len(S.bytes) + j] = w[j]
      BY <1>1, <1>3, <1>5, WriteStream
    <2>2. T.sent = sent' /\ T.size = size'
      BY <1>1, <1>4, <2>1
    <2>3. QED
      BY <2>1, <2>2
  <1>7. PICK k \in Nat : k = Len(S.bytes)
    BY <1>1, Numbers
  <1>8. PICK v \in Nat : v = Len(w)
    BY LenProperties
  <1>9. TypeOK'
    <2>1. sent' \in Seq(Packets)
      BY <1>1, <1>4, AppendProperties
    <2>2. wire' \in Seq(Byte)
      BY <1>2, <1>3, ConcatProperties
    <2>3. QED
      BY <1>4, <2>1, <2>2 DEF TypeOK
  <1>10. CASE pongs = 0
    <2>1. Fresh /\ wire = Ping \o S.bytes
      BY <1>10 DEF Carries
    <2>2. wire' = Ping \o T.bytes
      <3>1. (Ping \o S.bytes) \o w = Ping \o (S.bytes \o w)
        <4>1. Ping \in Seq(Byte) /\ S.bytes \in Seq(Byte) /\ w \in Seq(Byte)
          BY <1>1, PingBytes
        <4>2. QED
          BY <4>1, PingThen
      <3>2. QED
        BY <1>3, <1>6, <2>1, <3>1
    <2>3. Fresh'
      BY <1>4, <2>1 DEF Fresh
    <2>4. Carries(T)'
      BY <1>4, <1>6, <1>10, <2>2, <2>3 DEF Carries
    <2>5. QED
      BY <1>9, <2>4
  <1>11. CASE pongs # 0
    <2>1. PICK g \in 0..Len(S.bytes) :
            /\ Run(S, wire, g) /\ g + Len(wire) = Len(S.bytes)
            /\ IF dead THEN \E s \in 0..Len(S.bytes) : Passed(S, handed, s, cast)
               ELSE Reader(S, handed, need, header, buffer, g, cast)
      BY <1>11 DEF Carries
    <2>2. PICK l \in Nat : l = Len(wire)
      BY <1>2, LenProperties
    <2>3. g \in 0..Len(T.bytes) /\ g + (l + v) = Len(T.bytes) /\ k \in 0..Len(T.bytes)
      <3>1. PICK t \in Nat : t = Len(T.bytes)
        BY <1>6, Numbers
      <3>2. g \in 0..k /\ g + l = k /\ t = k + v
        BY <1>6, <1>7, <1>8, <2>1, <2>2, <3>1
      <3>3. g \in 0..t /\ g + (l + v) = t /\ k \in 0..t
        BY <3>2
      <3>4. QED
        BY <3>1, <3>3
    <2>4. Run(T, wire', g) /\ Len(wire') = l + v
      <3>1. Run(T, wire, g)
        BY <1>1, <1>2, <1>6, <2>1, GrownRun
      <3>2. Run(T, w, g + Len(wire))
        <4>1. \A i \in 1..v : w[i] = T.bytes[k + i]
          BY <1>6, <1>7, <1>8
        <4>2. k + v <= Len(T.bytes)
          BY <1>6, <1>7, <1>8
        <4>3. Run(T, w, k)
          BY <1>8, <4>1, <4>2 DEF Run
        <4>4. QED
          BY <1>7, <2>1, <4>3
      <3>3. Run(T, wire \o w, g) /\ Len(wire \o w) = Len(wire) + Len(w)
        <4>1. Stream(T) /\ wire \in Seq(Byte) /\ w \in Seq(Byte)
          BY <1>2, <1>6
        <4>2. QED
          BY <3>1, <3>2, <4>1, RunJoined
      <3>4. QED
        BY <1>3, <1>8, <2>2, <3>3
    <2>5. IF dead' THEN \E s \in 0..Len(T.bytes) : Passed(T, handed', s, cast')
          ELSE Reader(T, handed', need', header', buffer', g, cast')
      <3>1. CASE dead
        <4>1. PICK s \in 0..Len(S.bytes) : Passed(S, handed, s, cast)
          BY <2>1, <3>1
        <4>2. s \in 0..Len(T.bytes)
          BY <1>7, <2>3
        <4>3. Passed(T, handed, s, cast)
          BY <1>1, <1>6, <4>1, GrownPassed
        <4>4. QED
          BY <1>4, <3>1, <4>2, <4>3
      <3>2. CASE ~dead
        <4>1. Reader(T, handed, need, header, buffer, g, cast)
          BY <1>1, <1>6, <2>1, <3>2, GrownReader
        <4>2. QED
          BY <1>4, <3>2, <4>1
      <3>3. QED
        BY <3>1, <3>2
    <2>6. g + Len(wire') = Len(T.bytes)
      BY <2>3, <2>4
    <2>7. pongs' # 0
      BY <1>4, <1>11
    <2>8. Carries(T)'
      BY <1>4, <1>6, <2>3, <2>4, <2>5, <2>6, <2>7 DEF Carries
    <2>9. QED
      BY <1>9, <2>8
  <1>12. QED
    BY <1>10, <1>11

\* The empty stream has been carried at the beginning.
LEMMA InitIInv == Init => IInv
  <1> SUFFICES ASSUME Init PROVE IInv
    OBVIOUS
  <1> DEFINE S == [sent |-> <<>>, size |-> size, bytes |-> <<>>, ends |-> [m \in 0..0 |-> 0]]
  <1>1. /\ size \in [Packets -> Sizes] /\ sent = <<>> /\ wire = Ping /\ need = FALSE
        /\ header = NoHeader /\ buffer = <<>> /\ resets = 0 /\ handed = <<>> /\ pongs = 0
        /\ dead = FALSE /\ cast = FALSE
    BY DEF Init
  <1>2. /\ <<>> \in Seq(Packets) /\ <<>> \in Seq(Byte)
        /\ <<>> \in Seq([header : Packets, payload : Seq(Byte)]) /\ Len(<<>>) = 0
    BY EmptySeq
  <1>3. TypeOK
    <2>1. wire \in Seq(Byte) /\ buffer \in Seq(Byte)
      BY <1>1, <1>2, PingBytes
    <2>2. sent \in Seq(Packets) /\ handed \in Seq([header : Packets, payload : Seq(Byte)])
      BY <1>1, <1>2
    <2>3. need \in BOOLEAN /\ header \in Packets \cup {NoHeader} /\ {dead, cast} \subseteq BOOLEAN
      BY <1>1
    <2>4. resets \in 0..5 /\ pongs \in Nat /\ size \in [Packets -> Sizes]
      BY <1>1
    <2>5. QED
      BY <2>1, <2>2, <2>3, <2>4 DEF TypeOK
  <1>4. /\ S.sent = <<>> /\ S.size = size /\ S.bytes = <<>> /\ S.ends = [m \in 0..0 |-> 0]
    OBVIOUS
  <1> HIDE DEF S
  <1>5. Stream(S)
    <2>1. S.size \in [Packets -> Nat]
      BY <1>1, <1>4, FramingAssumption
    <2>2. S.ends \in [0..0 -> 0..0] /\ S.ends[0] = 0
      BY <1>4
    <2>3. Len(S.sent) = 0 /\ Len(S.bytes) = 0 /\ 1..0 = {}
      BY <1>2, <1>4
    <2>4. \A m, n \in 0..0 : ~(m < n)
      OBVIOUS
    <2>5. QED
      BY <1>2, <1>4, <2>1, <2>2, <2>3, <2>4 DEF Stream
  <1>6. wire = Ping \o S.bytes
    BY <1>1, <1>4, PingBytes, ConcatEmptySeq
  <1>7. Carries(S)
    BY <1>1, <1>4, <1>5, <1>6 DEF Carries, Fresh
  <1>8. QED
    BY <1>3, <1>7 DEF IInv

\* Every step keeps the invariant.
LEMMA NextIInv == IInv /\ [Next]_vars => IInv'
  <1> SUFFICES ASSUME IInv, [Next]_vars PROVE IInv'
    OBVIOUS
  <1>1. TypeOK
    BY DEF IInv
  <1>2. PICK S : Carries(S)
    BY DEF IInv
  <1>3. ASSUME TypeOK', NEW T, Carries(T)' PROVE IInv'
    BY <1>3 DEF IInv
  <1>4. CASE AnswerPing
    BY <1>1, <1>2, <1>3, <1>4, PingStep
  <1>5. ASSUME NEW n \in 1..Len(wire),
               ReadAfresh(n) \/ ReadOnHeader(n) \/ ReadOnPayload(n) \/ ReadToEnd(n)
        PROVE  IInv'
    BY <1>1, <1>2, <1>3, <1>5, ReadStep
  <1>6. ASSUME NEW p \in Packets, Write(p) PROVE IInv'
    <2>1. TypeOK' /\ \E T : Carries(T)'
      BY <1>1, <1>2, <1>6, WriteStep
    <2>2. QED
      BY <1>3, <2>1
  <1>7. CASE UNCHANGED vars
    <2>1. TypeOK'
      BY <1>1, <1>7 DEF TypeOK, vars
    <2>2. Carries(S)'
      BY <1>2, <1>7 DEF Carries, Fresh, vars
    <2>3. QED
      BY <1>3, <2>1, <2>2
  <1>8. QED
    BY <1>4, <1>5, <1>6, <1>7 DEF Next, Read

\* So it holds always.
LEMMA IInvCorrect == Spec => []IInv
  BY InitIInv, NextIInv, PTL DEF Spec

\* Every state of the reader has the types of its declarations: no cut of the bytes
\* makes it hand on, keep or wait for anything else.
THEOREM TypeCorrect == Spec => []TypeOK
  <1>1. IInv => TypeOK
    BY DEF IInv
  <1>2. QED
    BY <1>1, IInvCorrect, PTL

-----------------------------------------------------------------------------
(* What is handed on.                                                      *)

\* Whatever else it does, the reader has handed on packets of the stream.
LEMMA CarriesPassed ==
  ASSUME TypeOK, NEW S, Carries(S)
  PROVE  \E s : Passed(S, handed, s, cast)
  <1>1. Stream(S)
    BY DEF Carries
  <1>2. CASE pongs = 0
    <2>1. Passed(S, <<>>, 0, FALSE)
      BY <1>1, NothingPassed
    <2>2. handed = <<>> /\ cast = FALSE
      BY <1>2 DEF Carries, Fresh, TypeOK
    <2>3. QED
      BY <2>1, <2>2
  <1>3. CASE pongs # 0 /\ dead
    BY <1>3 DEF Carries
  <1>4. CASE pongs # 0 /\ ~dead
    <2>1. PICK g : Reader(S, handed, need, header, buffer, g, cast)
      BY <1>4 DEF Carries
    <2>2. QED
      BY <1>1, <2>1, ReaderPassed
  <1>5. QED
    BY <1>2, <1>3, <1>4

\* The packets handed to the FIB are packets that were written, each with its own
\* whole payload, in the order they were written and none left out, whatever the
\* reads cut and join, until the reader throws bytes away.  After that some are
\* missing, but those that are handed on are still whole and in order.
THEOREM HandedCorrect == Spec => []HandedIsSent
  <1>1. IInv => HandedIsSent
    <2> SUFFICES ASSUME IInv PROVE HandedIsSent
      OBVIOUS
    <2>1. PICK S : Carries(S)
      BY DEF IInv
    <2>2. Stream(S) /\ S.sent = sent /\ S.size = size /\ S.sent \in Seq(Packets)
      BY <2>1 DEF Carries, Stream
    <2>3. PICK s : Passed(S, handed, s, cast)
      BY <2>1, CarriesPassed DEF IInv
    <2>4. ASSUME NEW i \in 1..Len(handed)
          PROVE  /\ handed[i].header \in ToSet(sent)
                 /\ handed[i].payload = PayloadBytes(handed[i].header)
      <3>1. PICK m \in 1..Len(sent) : handed[i] = Packet(sent[m], PayloadIn(S, sent[m]))
        BY <2>2, <2>3 DEF Passed
      <3>2. handed[i].header = sent[m] /\ handed[i].payload = PayloadIn(S, sent[m])
        BY <3>1 DEF Packet
      <3>3. DOMAIN sent = 1..Len(sent)
        BY <2>2, LenProperties
      <3>4. sent[m] \in ToSet(sent)
        BY <3>3 DEF ToSet
      <3>5. PayloadIn(S, sent[m]) = PayloadBytes(sent[m])
        BY <2>2 DEF PayloadIn, PayloadBytes
      <3>6. QED
        BY <3>2, <3>4, <3>5
    <2>5. \A i, j \in 1..Len(handed), m, n \in 1..Len(sent) :
            i < j /\ sent[m] = handed[i].header /\ sent[n] = handed[j].header => m < n
      BY <2>2, <2>3 DEF Passed
    <2>6. ~cast => \A i \in 1..Len(handed) : handed[i].header = sent[i]
      BY <2>2, <2>3 DEF Passed
    <2>7. QED
      BY <2>4, <2>5, <2>6 DEF HandedIsSent
  <1>2. QED
    BY <1>1, IInvCorrect, PTL

-----------------------------------------------------------------------------
(* What is left.                                                           *)

\* All of the stream has been read and none of it thrown away.
LEMMA AllRead ==
  ASSUME NEW S, Stream(S), NEW hs, NEW more \in BOOLEAN, NEW h, NEW b,
         Reader(S, hs, more, h, b, Len(S.bytes), FALSE)
  PROVE  ~more /\ Len(hs) = Len(S.sent)
  <1>1. PICK k \in Nat : k = Len(S.bytes)
    BY Numbers
  <1>2. b \in Seq(Byte)
    BY DEF Reader
  <1>3. PICK l \in Nat : l = Len(b)
    BY <1>2, LenProperties
  <1>4. PICK n \in Nat : n = Len(S.sent)
    BY Numbers
  <1>5. \A m \in 1..n : m \in 0..n /\ S.ends[m] \in Nat /\ S.ends[m] <= k
    BY <1>1, <1>4, Numbers
  <1>6. CASE ~more
    <2>1. Passed(S, hs, k, FALSE)
      BY <1>1, <1>6 DEF Reader
    <2>2. Len(hs) \in Nat /\ Len(hs) <= n /\ S.ends[Len(hs)] = k
      BY <1>4, <2>1, LenProperties DEF Passed
    <2>3. S.ends[n] = k
      BY <1>1, <1>4 DEF Stream
    <2>4. PICK i \in Nat : i = Len(hs)
      BY <2>2
    <2>5. i \in 0..n /\ n \in 0..n
      BY <2>2, <2>4
    <2>6. ~(i < n)
      <3>1. i < n => S.ends[i] < S.ends[n]
        BY <1>4, <2>5 DEF Stream
      <3>2. ~(k < k)
        OBVIOUS
      <3>3. QED
        BY <2>2, <2>3, <2>4, <3>1, <3>2
    <2>7. QED
      BY <1>4, <1>6, <2>4, <2>5, <2>6
  <1>7. CASE more /\ h = NoHeader
    <2>1. NoNull(b) /\ OnHeader(S, hs, b, k, FALSE)
      BY <1>1, <1>7 DEF Reader
    <2>2. l <= k /\ b # <<>> /\ Run(S, b, k - l) /\ Passed(S, hs, k - l, FALSE)
      BY <1>3, <2>1 DEF OnHeader
    <2>3. l \in Nat \ {0}
      BY <1>2, <1>3, <2>2, EmptySeq
    <2>4. PICK s \in Nat : s = k - l
      BY <2>2
    <2>5. s < k /\ s + l = k
      BY <2>2, <2>3, <2>4
    <2>6. /\ Len(hs) + 1 \in 1..Len(S.sent)
          /\ s = S.ends[(Len(hs) + 1) - 1]
      BY <1>1, <2>2, <2>4, <2>5, NextPacket
    <2>7. PICK m \in 1..n : s = S.ends[m - 1]
      BY <1>4, <2>6
    <2>8. PICK z \in Nat : z = HeadSize + 1
      BY Numbers
    <2>9. PICK e \in Nat : e = S.ends[m]
      BY <1>5
    <2>10. z \in 1..l /\ z <= Whole(S, S.sent[m])
      <3>1. PICK w \in Nat : w = Whole(S, S.sent[m]) /\ w >= z
        BY <1>4, <2>8, PacketNumbers
      <3>2. e = s + w
        BY <1>4, <2>7, <2>9, <3>1 DEF Stream
      <3>3. e <= k
        BY <1>5, <2>9
      <3>4. z >= 1
        BY <2>8, Numbers
      <3>5. QED
        BY <2>5, <3>1, <3>2, <3>3, <3>4
    <2>11. b[z] = ByteAt(S.sent[m], z)
      <3>1. Run(S, b, S.ends[m - 1])
        BY <2>2, <2>4, <2>7
      <3>2. m \in 1..Len(S.sent) /\ z \in 1..Len(b)
        BY <1>3, <1>4, <2>10
      <3>3. QED
        BY <2>10, <3>1, <3>2, AtPacket
    <2>12. ByteAt(S.sent[m], z).part = "null"
      <3>1. ~(z <= HeadSize)
        BY <2>8, Numbers
      <3>2. QED
        BY <2>8, <3>1 DEF ByteAt
    <2>13. QED
      BY <1>3, <2>1, <2>10, <2>11, <2>12 DEF NoNull
  <1>8. CASE more /\ h # NoHeader
    <2>1. PICK m \in 1..n :
            /\ S.sent[m] = h
            /\ l < S.size[h]
            /\ k = S.ends[m - 1] + HeadSize + 1 + l
      BY <1>1, <1>3, <1>4, <1>8 DEF Reader, OnPayload
    <2>2. PICK s \in Nat : s = S.ends[m - 1] + HeadSize + 1
      BY <1>4, PayloadAt
    <2>3. PICK z \in Nat : z = S.size[S.sent[m]]
      BY <1>4, PacketNumbers
    <2>4. S.ends[m] = s + z
      BY <1>4, <2>2, <2>3, PacketNumbers
    <2>5. k = s + l /\ l < z
      BY <2>1, <2>2, <2>3
    <2>6. s + z <= k
      BY <1>5, <2>4
    <2>7. QED
      BY <2>5, <2>6
  <1>9. QED
    BY <1>6, <1>7, <1>8

\* When every byte has been read, every packet has been handed on and the reader waits
\* for nothing: it never sits on a whole packet, unless it has panicked or has thrown
\* bytes away.
THEOREM NothingLeftBehind == Spec => []NothingLeft
  <1>1. IInv => NothingLeft
    <2> SUFFICES ASSUME IInv, wire = <<>>, ~dead, ~cast
                 PROVE  Len(handed) = Len(sent) /\ ~need
      BY DEF NothingLeft
    <2>1. PICK S : Carries(S)
      BY DEF IInv
    <2>2. Stream(S) /\ S.sent = sent /\ S.bytes \in Seq(Byte)
      BY <2>1 DEF Carries, Stream
    <2>3. Len(wire) = 0
      BY EmptySeq
    <2>4. pongs # 0
      <3> SUFFICES ASSUME pongs = 0 PROVE FALSE
        OBVIOUS
      <3>1. Len(wire) = 1 + Len(S.bytes)
        BY <2>1, <2>2, PingFirst DEF Carries
      <3>2. Len(S.bytes) \in Nat
        BY <2>2, Numbers
      <3>3. QED
        BY <2>3, <3>1, <3>2
    <2>5. PICK g \in 0..Len(S.bytes) :
            /\ g + Len(wire) = Len(S.bytes)
            /\ Reader(S, handed, need, header, buffer, g, cast)
      BY <2>1, <2>4 DEF Carries
    <2>6. g = Len(S.bytes)
      <3>1. PICK k \in Nat : k = Len(S.bytes)
        BY <2>2, Numbers
      <3>2. QED
        BY <2>3, <2>5, <3>1
    <2>7. cast = FALSE /\ need \in BOOLEAN
      BY DEF IInv, TypeOK
    <2>8. QED
      BY <2>2, <2>5, <2>6, <2>7, AllRead
  <1>2. QED
    BY <1>1, IInvCorrect, PTL
=============================================================================
