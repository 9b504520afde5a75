-------------------------- MODULE AsioFramingProofs --------------------------
(***************************************************************************)
(* Proofs about AsioFraming, for messages of any content and systems of    *)
(* any byte order: the headers of plain messages are right, TCP hands over *)
(* what was sent, in order and whole, and UDP, where a datagram that is    *)
(* too long is an error, hands over nothing that was not sent.             *)
(***************************************************************************)
EXTENDS AsioFraming, ByteOrderProofs, WellFoundedInduction

-----------------------------------------------------------------------------
(* Sequences. *)

\* What two ways of cutting a sequence at the same place give is the same.
LEMMA SameCut ==
    ASSUME NEW S, NEW a \in Seq(S), NEW b \in Seq(S), NEW c \in Seq(S), NEW d \in Seq(S),
           Len(a) = Len(c), a \o b = c \o d
    PROVE  a = c /\ b = d
<1>1. /\ Len(a \o b) = Len(a) + Len(b) /\ Len(c \o d) = Len(c) + Len(d)
      /\ Len(a) \in Nat /\ Len(b) \in Nat /\ Len(c) \in Nat /\ Len(d) \in Nat
  BY ConcatProperties, LenProperties
<1>2. Len(b) = Len(d)
  BY <1>1
<1>3. \A i \in 1..Len(a) + Len(b) : (a \o b)[i] = IF i <= Len(a) THEN a[i] ELSE b[i - Len(a)]
  BY ConcatProperties
<1>4. \A i \in 1..Len(a) + Len(b) : (a \o b)[i] = IF i <= Len(a) THEN c[i] ELSE d[i - Len(a)]
  <2>1. \A i \in 1..Len(c) + Len(d) : (c \o d)[i] = IF i <= Len(c) THEN c[i] ELSE d[i - Len(c)]
    BY ConcatProperties
  <2>. QED
    BY <1>2, <2>1
<1>5. \A i \in 1..Len(a) : a[i] = c[i]
  <2>1. \A i \in 1..Len(a) : i \in 1..Len(a) + Len(b) /\ i <= Len(a)
    BY <1>1
  <2>. QED
    BY <1>3, <1>4, <2>1
<1>6. \A i \in 1..Len(b) : b[i] = d[i]
  <2>1. \A i \in 1..Len(b) : /\ i + Len(a) \in 1..Len(a) + Len(b) /\ ~(i + Len(a) <= Len(a))
                             /\ (i + Len(a)) - Len(a) = i
    BY <1>1
  <2>. QED
    BY <1>3, <1>4, <2>1
<1>7. a = c
  BY <1>5, SeqEqual
<1>8. b = d
  BY <1>2, <1>6, SeqEqual
<1>. QED
  BY <1>7, <1>8

\* Sequences put together come apart again.
LEMMA CutConcat ==
    ASSUME NEW S, NEW a \in Seq(S), NEW b \in Seq(S)
    PROVE  /\ a \o b \in Seq(S) /\ Len(a \o b) = Len(a) + Len(b)
           /\ SubSeq(a \o b, 1, Len(a)) = a
           /\ SubSeq(a \o b, Len(a) + 1, Len(a \o b)) = b
<1>1. a \o b \in Seq(S) /\ Len(a \o b) = Len(a) + Len(b) /\ Len(a) \in 0..Len(a \o b)
  BY ConcatProperties, LenProperties
<1> DEFINE s == a \o b
<1>2. /\ SubSeq(s, 1, Len(a)) \in Seq(S) /\ Len(SubSeq(s, 1, Len(a))) = Len(a)
      /\ SubSeq(s, Len(a) + 1, Len(s)) \in Seq(S)
      /\ SubSeq(s, 1, Len(a)) \o SubSeq(s, Len(a) + 1, Len(s)) = s
  BY <1>1, Cut
<1>. QED
  BY <1>1, <1>2, SameCut

\* The first of some numbers is one of them.
LEMMA MinIn == ASSUME NEW S \in SUBSET Nat, S # {} PROVE Min(S) \in S
<1> DEFINE R == OpToRel(<, Nat)
<1>1. \A x, y \in Nat : <<y, x>> \in R <=> y < x
  BY DEF OpToRel
<1>2. \E x \in S : \A y \in S : ~(<<y, x>> \in R)
  BY WFMin, NatLessThanWellFounded
<1> HIDE DEF R
<1>3. PICK x \in S : \A y \in S : ~(<<y, x>> \in R)
  BY <1>2
<1>4. ASSUME NEW y \in S PROVE x <= y
  <2>1. x \in Nat /\ y \in Nat /\ ~(<<y, x>> \in R)
    BY <1>3
  <2>2. ~(y < x)
    BY <1>1, <2>1, Zenon
  <2>. QED
    BY <2>1, <2>2
<1>. QED
  BY <1>4 DEF Min
-----------------------------------------------------------------------------
(* Messages. *)

LEMMA FieldFacts ==
    /\ FieldSize \in Width /\ FieldSize \in 1..4 /\ Field = Word(FieldSize)
    /\ Place(FieldSize) \in Nat \ {0}
    /\ LNET_HEADER_SIZE = FieldSize + FieldSize
    /\ LNET_HEADER_SIZE \in Field /\ LNET_HEADER_SIZE + 1 \in Field /\ 0 \in Field
    /\ \A v : v \in Field <=> v \in Nat /\ v < Place(FieldSize)
    /\ 0 \in Byte
<1>1. FieldSize \in Width /\ FieldSize \in 1..4 /\ Field = Word(FieldSize)
  BY FieldAssumption DEF Width, Word, Field
<1>2. Place(FieldSize) \in Nat \ {0}
  BY <1>1, PlaceType
<1>3. LNET_HEADER_SIZE = FieldSize + FieldSize
  BY <1>1 DEF LNET_HEADER_SIZE
<1>4. \A v : v \in Field <=> v \in Nat /\ v < Place(FieldSize)
  BY <1>2 DEF Field
<1>5. LNET_HEADER_SIZE + 1 \in Field /\ LNET_HEADER_SIZE \in Field /\ 0 \in Field
  BY <1>1, <1>2, <1>3, <1>4, FieldAssumption
<1>. QED
  BY <1>1, <1>2, <1>3, <1>4, <1>5, ByteAssumption DEF Byte

LEMMA FieldModulo ==
    ASSUME NEW v \in Int
    PROVE  v % Place(FieldSize) \in Field /\ (v \in Field => v % Place(FieldSize) = v)
<1>1. Place(FieldSize) \in Nat \ {0}
  BY FieldFacts
<1> DEFINE p == Place(FieldSize)
<1> HIDE DEF p
<1>2. p \in Nat \ {0} => v % p \in 0..(p - 1) /\ (v \in 0..(p - 1) => v % p = v)
  OBVIOUS
<1>. QED
  BY <1>1, <1>2 DEF p, Field

\* What is left to read.
LEMMA RestType ==
    ASSUME NEW m \in Message
    PROVE  /\ Rest(m) \in Seq(Byte) /\ Len(m.payload) \in Nat /\ Len(Rest(m)) \in Nat
           /\ Len(Rest(m)) <= Len(m.payload)
           /\ m.readPosition <= Len(m.payload) => Len(Rest(m)) = Len(m.payload) - m.readPosition
           /\ m.readPosition = 0 => Rest(m) = m.payload
           /\ Content(m) \in Contents /\ Content(m).type = m.type /\ Content(m).rest = Rest(m)
<1>1. m.payload \in Seq(Byte) /\ m.readPosition \in Nat /\ m.type \in Field
  BY DEF Message
<1>2. Len(m.payload) \in Nat /\ \A i \in 1..Len(m.payload) : m.payload[i] \in Byte
  BY <1>1, LenProperties, ElementOfSeq
<1>3. \A i \in (m.readPosition + 1)..Len(m.payload) : m.payload[i] \in Byte
  BY <1>1, <1>2
<1>4. /\ Rest(m) \in Seq(Byte)
      /\ Len(Rest(m)) = IF m.readPosition + 1 <= Len(m.payload)
                        THEN Len(m.payload) - (m.readPosition + 1) + 1 ELSE 0
  BY <1>1, <1>2, <1>3, SubSeqProperties DEF Rest
<1>5. m.readPosition = 0 => Rest(m) = m.payload
  <2>1. SubSeq(m.payload, 1, Len(m.payload)) = m.payload
    BY <1>1, SubSeqFull
  <2>. QED
    BY <2>1 DEF Rest
<1>. QED
  BY <1>1, <1>2, <1>4, <1>5 DEF Content, Contents

LEMMA NewMessageType ==
    ASSUME NEW type \in Field
    PROVE  /\ NewMessage(type) \in Message /\ NewMessage(type).type = type
           /\ NewMessage(type).payload = <<>> /\ NewMessage(type).readPosition = 0
           /\ NewMessage(type).size = LNET_HEADER_SIZE
BY FieldFacts, EmptyIsSeq DEF NewMessage, Message

\* What the << operators do.
LEMMA PutType ==
    ASSUME NEW m \in Message, NEW bytes \in Seq(Byte)
    PROVE  /\ Put(m, bytes) \in Message /\ Put(m, bytes).type = m.type
           /\ Put(m, bytes).payload = m.payload \o bytes
           /\ Len(Put(m, bytes).payload) = Len(m.payload) + Len(bytes)
           /\ Put(m, bytes).readPosition = m.readPosition
           /\ Put(m, bytes).size = (m.size + Len(bytes)) % Place(FieldSize)
<1>1. m.payload \o bytes \in Seq(Byte) /\ Len(m.payload \o bytes) = Len(m.payload) + Len(bytes)
  BY ConcatProperties DEF Message
<1>2. Len(bytes) \in Nat /\ m.size \in Nat
  BY FieldFacts, LenProperties DEF Message
<1>3. (m.size + Len(bytes)) % Place(FieldSize) \in Field
  BY <1>2, FieldModulo
<1>. QED
  BY <1>1, <1>3 DEF Put, Message

\* What the >> operators do.
LEMMA SkipType ==
    ASSUME NEW m \in Message, NEW n \in Nat
    PROVE  /\ Skip(m, n) \in Message /\ Skip(m, n).type = m.type
           /\ Skip(m, n).payload = m.payload
           /\ Skip(m, n).readPosition = m.readPosition + n
           /\ Skip(m, n).size = (m.size - n) % Place(FieldSize)
<1>1. m.size - n \in Int /\ m.readPosition + n \in Nat
  <2>1. m.size \in Field /\ m.readPosition \in Nat
    BY DEF Message
  <2>2. m.size \in Nat
    BY <2>1, FieldFacts
  <2>. QED
    BY <2>1, <2>2
<1>2. (m.size - n) % Place(FieldSize) \in Field
  BY <1>1, FieldModulo
<1>. QED
  BY <1>1, <1>2 DEF Skip, Message

\* In a message whose position is in the payload, the zero byte >> of a string
\* looks for is in the rest.
LEMMA StringSizeType ==
    ASSUME NEW m \in Message, NEW n \in StringSizes(m, MaxStale)
    PROVE  n \in Nat /\ (m.readPosition <= Len(m.payload) => n <= Len(Rest(m)))
<1> DEFINE I == {i \in 1..Len(Rest(m)) : Rest(m)[i] = 0}
           first == IF I # {} THEN Min(I) ELSE 0
<1>1. /\ m.readPosition \in Nat /\ Len(m.payload) \in Nat /\ MaxStale \in Nat
      /\ I \in SUBSET (1..Len(Rest(m))) /\ Len(Rest(m)) \in Nat
  BY RestType, FramingConstants DEF Message
<1>2. SelectInSeq(Rest(m), LAMBDA b : b = 0) = first
  BY DEF SelectInSeq
<1>3. n \in IF m.readPosition > Len(m.payload) THEN 1..MaxStale ELSE {first}
  BY <1>2 DEF StringSizes
<1> HIDE DEF I
<1>4. I # {} => Min(I) \in I
  <2>1. I \in SUBSET Nat
    BY <1>1
  <2>. QED
    BY <2>1, MinIn
<1>5. first \in 0..Len(Rest(m))
  <2>1. CASE I = {}
    BY <1>1, <2>1
  <2>2. CASE I # {}
    <3>1. first = Min(I) /\ Min(I) \in 1..Len(Rest(m))
      BY <1>1, <1>4, <2>2
    <3>. QED
      BY <1>1, <3>1
  <2>. QED
    BY <2>1, <2>2
<1> HIDE DEF first
<1>. QED
  BY <1>1, <1>3, <1>5

\* A size that can be resized to is that of a header at least.
LEMMA SizeCounts ==
    \A size \in Field : Resizable(size) => size >= LNET_HEADER_SIZE
<1> SUFFICES ASSUME NEW size \in Field, Resizable(size) PROVE size >= LNET_HEADER_SIZE
  OBVIOUS
<1>1. size \in Nat /\ LNET_HEADER_SIZE \in Nat
  BY FieldFacts
<1>2. size - LNET_HEADER_SIZE >= 0
  BY <1>1 DEF Resizable
<1>. QED
  BY <1>1, <1>2

\* A message that is as long as it says.
LEMMA Resized ==
    ASSUME NEW m \in Message, NEW size \in Field, Resizable(size)
    PROVE  /\ setMsgSize(m, size) \in Message /\ setMsgSize(m, size).type = m.type
           /\ setMsgSize(m, size).size = size
           /\ setMsgSize(m, size).readPosition = m.readPosition
           /\ Len(setMsgSize(m, size).payload) = size - LNET_HEADER_SIZE
<1> DEFINE n == size - LNET_HEADER_SIZE
           p == [i \in 1..n |-> IF i <= Len(m.payload) THEN m.payload[i] ELSE 0]
<1>1. n \in Nat
  BY FieldFacts DEF Resizable
<1>2. m.payload \in Seq(Byte) /\ Len(m.payload) \in Nat
  BY RestType DEF Message
<1>3. \A i \in 1..n : (IF i <= Len(m.payload) THEN m.payload[i] ELSE 0) \in Byte
  <2>1. \A i \in 1..Len(m.payload) : m.payload[i] \in Byte
    BY <1>2, ElementOfSeq
  <2>2. 0 \in Byte
    BY FieldFacts
  <2>. QED
    BY <1>1, <1>2, <2>1, <2>2
<1>4. p \in Seq(Byte) /\ Len(p) = n
  BY <1>1, <1>3
<1>5. setMsgSize(m, size) = [m EXCEPT !.size = size, !.payload = p]
  BY DEF setMsgSize
<1> HIDE DEF p
<1>. QED
  BY <1>4, <1>5 DEF Message
-----------------------------------------------------------------------------
(* The bytes of a message. *)

\* The bytes a message of this type and rest is on the network.
HeaderOf(c) ==
    LittleEndian(c.type, FieldSize) \o LittleEndian(LNET_HEADER_SIZE + Len(c.rest), FieldSize)
Encoding(c) == HeaderOf(c) \o c.rest

\* What the size field can say.
Fits(c) == LNET_HEADER_SIZE + Len(c.rest) \in Field

\* What an int can say.
Countable(c) == Resizable(LNET_HEADER_SIZE + Len(c.rest))

LEMMA FieldBytes ==
    ASSUME NEW v \in Field
    PROVE  LittleEndian(v, FieldSize) \in Seq(Byte) /\ Len(LittleEndian(v, FieldSize)) = FieldSize
BY FieldFacts, LittleEndianBytes

LEMMA EncodingType ==
    ASSUME NEW c \in Contents, Fits(c)
    PROVE  /\ c.rest \in Seq(Byte) /\ Len(c.rest) \in Nat
           /\ HeaderOf(c) \in Seq(Byte) /\ Len(HeaderOf(c)) = LNET_HEADER_SIZE
           /\ Encoding(c) \in Seq(Byte) /\ Len(Encoding(c)) = LNET_HEADER_SIZE + Len(c.rest)
<1> DEFINE t == LittleEndian(c.type, FieldSize)
           n == LittleEndian(LNET_HEADER_SIZE + Len(c.rest), FieldSize)
<1>1. c.type \in Field /\ c.rest \in Seq(Byte)
  BY DEF Contents
<1>2. t \in Seq(Byte) /\ Len(t) = FieldSize /\ n \in Seq(Byte) /\ Len(n) = FieldSize
  BY <1>1, FieldBytes DEF Fits
<1> HIDE DEF t, n
<1>3. t \o n \in Seq(Byte) /\ Len(t \o n) = LNET_HEADER_SIZE
  BY <1>2, ConcatProperties, FieldFacts
<1>4. (t \o n) \o c.rest \in Seq(Byte) /\ Len((t \o n) \o c.rest) = LNET_HEADER_SIZE + Len(c.rest)
  BY <1>1, <1>3, ConcatProperties
<1>. QED
  BY <1>1, <1>3, <1>4, LenProperties DEF HeaderOf, Encoding, t, n

\* The fields are read from the header alone.
LEMMA FieldsOfHeader ==
    ASSUME NEW bytes \in Seq(Byte), Len(bytes) >= LNET_HEADER_SIZE, NEW big \in BOOLEAN
    PROVE  /\ TypeOf(bytes, big) \in Field /\ SizeOf(bytes, big) \in Field
           /\ SubSeq(bytes, 1, LNET_HEADER_SIZE) \in Seq(Byte)
           /\ Len(SubSeq(bytes, 1, LNET_HEADER_SIZE)) = LNET_HEADER_SIZE
           /\ TypeOf(SubSeq(bytes, 1, LNET_HEADER_SIZE), big) = TypeOf(bytes, big)
           /\ SizeOf(SubSeq(bytes, 1, LNET_HEADER_SIZE), big) = SizeOf(bytes, big)
<1> DEFINE F == FieldSize   H == LNET_HEADER_SIZE
           t == SubSeq(bytes, 1, F)   n == SubSeq(bytes, F + 1, H)   h == SubSeq(bytes, 1, H)
<1>1. F \in Nat /\ F >= 1 /\ H = F + F /\ Len(bytes) \in Nat
  BY FieldFacts, LenProperties
<1>2. \A i \in 1..Len(bytes) : bytes[i] \in Byte
  BY ElementOfSeq
<1> HIDE DEF F, H
<1>3. t \in Seq(Byte) /\ Len(t) = F
  BY <1>1, <1>2, SubSeqProperties DEF H
<1>4. n \in Seq(Byte) /\ Len(n) = F
  BY <1>1, <1>2, SubSeqProperties DEF H
<1>5. h \in Seq(Byte) /\ Len(h) = H
  BY <1>1, <1>2, SubSeqProperties DEF H
<1>6. SubSeq(h, 1, F) = t /\ SubSeq(h, F + 1, H) = n
  <2>1. /\ 1 \in 1..Len(bytes) /\ H \in 1..Len(bytes)
        /\ 1 \in 1..(H - 1 + 1) /\ F \in 1..(H - 1 + 1) /\ F + 1 \in 1..(H - 1 + 1)
        /\ H \in 1..(H - 1 + 1)
    BY <1>1 DEF H
  <2>2. SubSeq(h, 1, F) = SubSeq(bytes, 1 + 1 - 1, 1 + F - 1)
    BY <2>1, SubSeqOfSubSeq
  <2>3. SubSeq(h, F + 1, H) = SubSeq(bytes, 1 + (F + 1) - 1, 1 + H - 1)
    BY <2>1, SubSeqOfSubSeq
  <2>4. 1 + 1 - 1 = 1 /\ 1 + F - 1 = F /\ 1 + (F + 1) - 1 = F + 1 /\ 1 + H - 1 = H
    BY <1>1
  <2>. QED
    BY <2>2, <2>3, <2>4
<1> HIDE DEF t, n, h
<1>7. /\ fromNetworkEndian(FromMemory(t, big), F, big) \in Field
      /\ fromNetworkEndian(FromMemory(n, big), F, big) \in Field
  BY <1>3, <1>4, OffWire, FieldFacts DEF F
<1>. QED
  BY <1>5, <1>6, <1>7 DEF TypeOf, SizeOf, t, n, h, F, H

\* The header says what it was made for, on a system of either order.
LEMMA HeaderSays ==
    ASSUME NEW c \in Contents, Fits(c), NEW big \in BOOLEAN
    PROVE  /\ TypeOf(HeaderOf(c), big) = c.type
           /\ SizeOf(HeaderOf(c), big) = LNET_HEADER_SIZE + Len(c.rest)
<1> DEFINE size == LNET_HEADER_SIZE + Len(c.rest)
           t == LittleEndian(c.type, FieldSize)
           n == LittleEndian(size, FieldSize)
<1>1. c.type \in Field /\ size \in Field
  BY DEF Contents, Fits
<1> HIDE DEF size
<1>2. t \in Seq(Byte) /\ Len(t) = FieldSize /\ n \in Seq(Byte) /\ Len(n) = FieldSize
  BY <1>1, FieldBytes
<1>3. \A v \in Field :
          fromNetworkEndian(FromMemory(LittleEndian(v, FieldSize), big), FieldSize, big) = v
  BY OnWire, ValueArrives, FieldFacts
<1>4. /\ fromNetworkEndian(FromMemory(t, big), FieldSize, big) = c.type
      /\ fromNetworkEndian(FromMemory(n, big), FieldSize, big) = size
  BY <1>1, <1>3
<1>5. HeaderOf(c) = t \o n
  BY DEF HeaderOf, size
<1> HIDE DEF t, n
<1>6. SubSeq(t \o n, 1, FieldSize) = t /\ SubSeq(t \o n, FieldSize + 1, LNET_HEADER_SIZE) = n
  <2>1. /\ SubSeq(t \o n, 1, Len(t)) = t /\ Len(t \o n) = Len(t) + Len(n)
        /\ SubSeq(t \o n, Len(t) + 1, Len(t \o n)) = n
    <3>1. t \in Seq(Byte) /\ n \in Seq(Byte)
      BY <1>2
    <3>. QED
      BY <3>1, CutConcat
  <2>2. Len(t) = FieldSize /\ Len(t \o n) = LNET_HEADER_SIZE
    BY <1>2, <2>1, FieldFacts
  <2>. QED
    BY <2>1, <2>2
<1>. QED
  BY <1>4, <1>5, <1>6 DEF TypeOf, SizeOf, size

\* A message whose size is right is sent as its header and rest; others are
\* bytes at least.
LEMMA Buffers ==
    ASSUME NEW m \in Message, NEW big \in BOOLEAN
    PROVE  /\ toConstBuffers(m, big) \in Seq(Byte)
           /\ Len(toConstBuffers(m, big)) >= LNET_HEADER_SIZE
           /\ m.size = LNET_HEADER_SIZE + Len(Rest(m)) =>
                 toConstBuffers(m, big) = Encoding(Content(m)) /\ Fits(Content(m))
<1> DEFINE t == LittleEndian(m.type, FieldSize)   n == LittleEndian(m.size, FieldSize)
<1>1. m.type \in Field /\ m.size \in Field
  BY DEF Message
<1>2. toConstBuffers(m, big) = (t \o n) \o Rest(m)
  <2>1. \A v \in Field :
            ToMemory(toNetworkEndian(v, FieldSize, big), FieldSize, big) = LittleEndian(v, FieldSize)
    BY OnWire, FieldFacts
  <2>. QED
    BY <1>1, <2>1 DEF toConstBuffers, netHeader
<1>3. t \in Seq(Byte) /\ Len(t) = FieldSize /\ n \in Seq(Byte) /\ Len(n) = FieldSize
  BY <1>1, FieldBytes
<1>4. Rest(m) \in Seq(Byte) /\ Len(Rest(m)) \in Nat /\ Content(m).type = m.type /\ Content(m).rest = Rest(m)
  BY RestType
<1>5. m.size = LNET_HEADER_SIZE + Len(Rest(m)) =>
          toConstBuffers(m, big) = Encoding(Content(m)) /\ Fits(Content(m))
  BY <1>1, <1>2, <1>4 DEF Encoding, HeaderOf, Fits
<1> HIDE DEF t, n
<1>6. t \o n \in Seq(Byte) /\ Len(t \o n) = LNET_HEADER_SIZE
  BY <1>3, ConcatProperties, FieldFacts
<1>7. (t \o n) \o Rest(m) \in Seq(Byte) /\ Len((t \o n) \o Rest(m)) = LNET_HEADER_SIZE + Len(Rest(m))
  BY <1>4, <1>6, ConcatProperties
<1>8. LNET_HEADER_SIZE + Len(Rest(m)) >= LNET_HEADER_SIZE
  BY <1>4, FieldFacts
<1>. QED
  BY <1>2, <1>5, <1>7, <1>8

\* A copy made of the bytes has what was left to read of the original.
LEMMA Copied ==
    ASSUME NEW m \in Message, NEW big \in BOOLEAN, m.size = LNET_HEADER_SIZE + Len(Rest(m))
    PROVE  FromBuffer(toConstBuffers(m, big), big) =
               [type |-> m.type, size |-> m.size, readPosition |-> 0, payload |-> Rest(m)]
<1> DEFINE c == Content(m)   bytes == toConstBuffers(m, big)   H == LNET_HEADER_SIZE
<1>1. bytes = Encoding(c) /\ Fits(c)
  BY Buffers
<1>2. c \in Contents /\ c.type = m.type /\ c.rest = Rest(m)
  BY RestType
<1> HIDE DEF c, bytes
<1>3. /\ HeaderOf(c) \in Seq(Byte) /\ Len(HeaderOf(c)) = H /\ c.rest \in Seq(Byte)
      /\ bytes \in Seq(Byte) /\ Len(bytes) = H + Len(c.rest) /\ Len(c.rest) \in Nat
  BY <1>1, <1>2, EncodingType
<1>4. Len(bytes) >= LNET_HEADER_SIZE
  <2>1. LNET_HEADER_SIZE \in Nat
    BY FieldFacts
  <2>. QED
    BY <1>3, <2>1
<1>5. SubSeq(bytes, 1, H) = HeaderOf(c) /\ SubSeq(bytes, H + 1, H + Len(c.rest)) = c.rest
  <2> DEFINE h == HeaderOf(c)   r == c.rest
  <2>1. bytes = h \o r /\ h \in Seq(Byte) /\ r \in Seq(Byte)
    BY <1>1, <1>3 DEF Encoding
  <2>2. Len(h) = H /\ Len(bytes) = H + Len(r)
    BY <1>3
  <2> HIDE DEF h, r
  <2>3. SubSeq(h \o r, 1, Len(h)) = h /\ SubSeq(h \o r, Len(h) + 1, Len(h \o r)) = r
    BY <2>1, CutConcat
  <2>4. SubSeq(bytes, 1, H) = h /\ SubSeq(bytes, H + 1, H + Len(r)) = r
    BY <2>1, <2>2, <2>3
  <2>. QED
    BY <2>4 DEF h, r
<1>6. TypeOf(bytes, big) = c.type /\ SizeOf(bytes, big) = H + Len(c.rest)
  <2>1. /\ TypeOf(SubSeq(bytes, 1, LNET_HEADER_SIZE), big) = TypeOf(bytes, big)
        /\ SizeOf(SubSeq(bytes, 1, LNET_HEADER_SIZE), big) = SizeOf(bytes, big)
    BY <1>3, <1>4, FieldsOfHeader
  <2>2. TypeOf(HeaderOf(c), big) = c.type /\ SizeOf(HeaderOf(c), big) = H + Len(c.rest)
    BY <1>1, <1>2, HeaderSays
  <2>. QED
    BY <1>5, <2>1, <2>2
<1>. QED
  BY <1>2, <1>5, <1>6 DEF FromBuffer, bytes
-----------------------------------------------------------------------------
(* The inductive invariant. *)

Datagram == {bytes \in Seq(Byte) : Len(bytes) >= LNET_HEADER_SIZE}

\* Writes are sequences of bytes, a datagram has a header at least, and a
\* payload is only read for a size that a header fits in.
Structure ==
    /\ TypeOK
    /\ writes \in Seq(Seq(Byte))
    /\ transport = "udp" => writes = <<>> /\ wire \in Seq(Datagram)
    /\ reader = "payload" => incoming.size >= LNET_HEADER_SIZE /\ incoming.readPosition = 0

\* After e calls a payload is not longer than e times the longest item written.
IsPlain(m, e) ==
    /\ m.size = LNET_HEADER_SIZE + Len(Rest(m))
    /\ m.readPosition <= Len(m.payload)
    /\ Len(m.payload) = 0 \/ \E item \in Items : Len(m.payload) <= e * (FieldSize + Len(item.of))

DraftIsPlain == plain => IsPlain(draft, edits)

SentFit == ~broken => \A i \in 1..Len(sent) : Fits(sent[i]) /\ Countable(sent[i])

\* Datagrams on their way are the ones that were sent; a header that is
\* waited with is that of a message without a payload.
Encodings == {Encoding(sent[i]) : i \in 1..Len(sent)}

DatagramsIntact ==
    transport = "udp" /\ ~broken =>
        /\ wire \in Seq(Encodings)
        /\ reader # "dead"
        /\ Truncates = "error" =>
              /\ \A i \in 1..Len(received) : \E j \in 1..Len(sent) : received[i] = sent[j]
              /\ reader = "payload" =>
                    /\ Len(incoming.payload) = 0
                    /\ \E j \in 1..Len(sent) :
                          sent[j].type = incoming.type /\ Len(sent[j].rest) = 0

\* tails[i] are the bytes of the messages after the first i.
AreTails(tails, s) ==
    /\ tails \in [0..Len(s) -> Seq(Byte)]
    /\ tails[Len(s)] = <<>>
    /\ \A i \in 1..Len(s) : tails[i - 1] = Encoding(s[i]) \o tails[i]

\* What the reader has yet to take of those.
Unread(tails, s, r, phase) ==
    IF phase = "payload" THEN s[r + 1].rest \o tails[r + 1] ELSE tails[r]

Outgoing == IF writes = <<>> THEN <<>> ELSE writes[1]

Flow(tails, more) ==
    /\ AreTails(tails, sent)
    /\ wire \o more = Unread(tails, sent, Len(received), reader)
    /\ ~closed => more = Outgoing

\* The bytes on their way continue where the reader is, and those of the
\* outstanding write follow, unless the connection has ended.
StreamIntact ==
    transport = "tcp" /\ ~broken =>
        /\ Len(writes) <= 1
        /\ reader # "dead"
        /\ Len(received) <= Len(sent)
        /\ \A i \in 1..Len(received) : received[i] = sent[i]
        /\ reader = "payload" =>
              /\ Len(received) < Len(sent)
              /\ incoming.type = sent[Len(received) + 1].type
              /\ incoming.size = LNET_HEADER_SIZE + Len(sent[Len(received) + 1].rest)
        /\ \E tails \in [0..Len(sent) -> Seq(Byte)], more \in Seq(Byte) : Flow(tails, more)

Inv == Structure /\ DraftIsPlain /\ SentFit /\ DatagramsIntact /\ StreamIntact
-----------------------------------------------------------------------------
LEMMA SystemsAreBoolean ==
    ASSUME TypeOK PROVE ends.sender \in BOOLEAN /\ ends.receiver \in BOOLEAN
BY FramingConstants DEF TypeOK

\* Initially the draft is empty and nothing has been sent.
LEMMA InitInv == ASSUME Init PROVE Inv
<1>1. PICK type \in Types : draft = NewMessage(type)
  BY DEF Init
<1>2. type \in Field
  BY FramingConstants
<1>3. /\ draft \in Message /\ draft.payload = <<>> /\ draft.readPosition = 0
      /\ draft.size = LNET_HEADER_SIZE
  BY <1>1, <1>2, NewMessageType
<1>4. incoming \in Message
  BY FieldFacts, NewMessageType DEF Init
<1>5. \A S : <<>> \in Seq(S) /\ Len(<<>>) = 0
  BY EmptyIsSeq
<1>6. Structure
  <2>1. TypeOK
    <3>1. /\ <<>> \in Seq(Byte) /\ <<>> \in Seq(Seq(Byte)) /\ <<>> \in Seq(Contents)
          /\ DOMAIN <<>> = {}
      BY <1>5
    <3>2. wire \in IF transport = "tcp" THEN Seq(Byte) ELSE Seq(Seq(Byte))
      BY <3>1 DEF Init
    <3>3. 0 \in 0..MaxEdits
      BY FramingConstants
    <3>. QED
      BY <1>3, <1>4, <3>1, <3>2, <3>3 DEF Init, TypeOK
  <2>. QED
    BY <1>5, <2>1 DEF Init, Structure
<1>7. DraftIsPlain
  <2>1. Len(Rest(draft)) = 0 /\ Len(draft.payload) = 0
    BY <1>3, <1>5, RestType
  <2>2. LNET_HEADER_SIZE + 0 = LNET_HEADER_SIZE
    BY FieldFacts
  <2>. QED
    BY <1>3, <2>1, <2>2 DEF DraftIsPlain, IsPlain
<1>8. SentFit
  BY <1>5 DEF Init, SentFit
<1>9. DatagramsIntact
  BY <1>5 DEF Init, DatagramsIntact
<1>10. StreamIntact
  <2> DEFINE tails == [i \in 0..0 |-> <<>>]
  <2>1. tails \in [0..Len(sent) -> Seq(Byte)] /\ AreTails(tails, sent)
    BY <1>5 DEF Init, AreTails
  <2>2. <<>> \o <<>> = <<>> /\ <<>> \in Seq(Byte)
    BY <1>5, ConcatEmptySeq
  <2>3. Flow(tails, <<>>)
    BY <1>5, <2>1, <2>2 DEF Init, Flow, Unread, Outgoing
  <2> HIDE DEF tails
  <2>4. \E t \in [0..Len(sent) -> Seq(Byte)], more \in Seq(Byte) : Flow(t, more)
    BY <2>1, <2>2, <2>3
  <2>5. Len(writes) = 0 /\ Len(sent) = 0 /\ Len(received) = 0
    BY <1>5 DEF Init
  <2>6. Len(writes) <= 1 /\ Len(received) <= Len(sent) /\ 1..Len(received) = {}
    BY <2>5
  <2>. QED
    BY <2>4, <2>6 DEF Init, StreamIntact
<1>. QED
  BY <1>6, <1>7, <1>8, <1>9, <1>10 DEF Inv
-----------------------------------------------------------------------------
(* Steps of the program. *)

LEMMA StreamKept ==
    ASSUME StreamIntact,
           UNCHANGED <<transport, broken, writes, wire, closed, reader, incoming, sent, received>>
    PROVE  StreamIntact'
BY DEF StreamIntact, Flow, Outgoing

LEMMA DatagramsKept ==
    ASSUME DatagramsIntact,
           UNCHANGED <<transport, broken, wire, reader, incoming, sent, received>>
    PROVE  DatagramsIntact'
BY DEF DatagramsIntact, Encodings

\* A draft that was changed is a message still, and plain as long as it says so.
LEMMA EditKeepsInv ==
    ASSUME Inv, NEW m \in Message, NEW p \in BOOLEAN, Edit(m, p), p => IsPlain(m, edits + 1)
    PROVE  Inv'
<1>1. Structure'
  <2>1. TypeOK'
    <3>1. edits' \in 0..MaxEdits
      BY FramingConstants DEF Edit, Inv, Structure, TypeOK
    <3>. QED
      BY <3>1 DEF Edit, Inv, Structure, TypeOK, consts, history
  <2>. QED
    BY <2>1 DEF Edit, Inv, Structure, consts
<1>2. DraftIsPlain'
  BY DEF Edit, DraftIsPlain, IsPlain
<1>3. SentFit'
  BY DEF Edit, Inv, SentFit, history
<1>4. DatagramsIntact' /\ StreamIntact'
  BY StreamKept, DatagramsKept DEF Edit, Inv, consts, history
<1>. QED
  BY <1>1, <1>2, <1>3, <1>4 DEF Inv

\* The bytes of an item, and how many there may be.
LEMMA ItemBytes ==
    ASSUME NEW item \in Items, NEW big \in BOOLEAN, NEW bytes,
           bytes = CASE item.kind = "value"  -> InOrder(item.of, big)
                     [] item.kind = "string" -> StringBytes(item.of)
                     [] item.kind = "list"   -> ListBytes(item.of, big)
    PROVE  bytes \in Seq(Byte) /\ Len(bytes) <= FieldSize + Len(item.of)
<1> DEFINE l == item.of
<1>1. l \in Seq(Byte) /\ item.kind \in {"value", "string", "list"}
  BY FramingConstants
<1>2. FieldSize \in 1..4 /\ 0 \in Byte
  BY FieldFacts
<1>3. item.kind = "value" => bytes = InOrder(l, big)
  OBVIOUS
<1>4. item.kind = "string" => bytes = l \o <<0>>
  BY DEF StringBytes
<1>5. item.kind = "list" => bytes = ToMemory(Len(l), FieldSize, big) \o l
  BY DEF ListBytes
<1>6. SUFFICES l \in Seq(Byte) => bytes \in Seq(Byte) /\ Len(bytes) <= FieldSize + Len(l)
  BY <1>1
<1> HIDE DEF l
<1>7. Len(l) \in Nat
  BY <1>1, LenProperties
<1>8. CASE item.kind = "value"
  <2>1. InOrder(l, big) \in Seq(Byte) /\ Len(InOrder(l, big)) = Len(l)
    BY <1>1, InOrderBytes
  <2>. QED
    BY <1>2, <1>3, <1>7, <1>8, <2>1
<1>9. CASE item.kind = "string"
  <2>1. <<0>> \in Seq(Byte) /\ Len(<<0>>) = 1
    BY <1>2, OneElement
  <2>2. l \o <<0>> \in Seq(Byte) /\ Len(l \o <<0>>) = Len(l) + Len(<<0>>)
    BY <1>1, <2>1, ConcatProperties
  <2>3. Len(l \o <<0>>) <= FieldSize + Len(l)
    BY <1>2, <1>7, <2>1, <2>2
  <2>4. bytes = l \o <<0>>
    BY <1>4, <1>9
  <2>. QED
    BY <2>2, <2>3, <2>4, Zenon
<1>10. CASE item.kind = "list"
  <2> DEFINE count == ToMemory(Len(l), FieldSize, big)
  <2>1. count \in Seq(Byte) /\ Len(count) = FieldSize
    BY <1>2, <1>7, ToMemoryType
  <2> HIDE DEF count
  <2>2. count \o l \in Seq(Byte) /\ Len(count \o l) = Len(count) + Len(l)
    BY <1>1, <2>1, ConcatProperties
  <2>3. bytes = count \o l
    BY <1>5, <1>10 DEF count
  <2>4. Len(count \o l) <= FieldSize + Len(l)
    BY <1>2, <1>7, <2>1, <2>2
  <2>. QED
    BY <2>2, <2>3, <2>4, Zenon
<1>. QED
  BY <1>1, <1>8, <1>9, <1>10

LEMMA Product ==
    ASSUME NEW e \in Nat, NEW x \in Nat, NEW y \in Nat, x <= y
    PROVE  /\ e * x \in Nat /\ e * x <= e * y /\ x * e <= y * e
           /\ (e + 1) * y = e * y + y
<1>1. PICK d \in Nat : y = x + d
  <2>1. y - x \in Nat /\ y = x + (y - x)
    OBVIOUS
  <2>. QED
    BY <2>1
<1>2. e * y = e * x + e * d /\ y * e = x * e + d * e
  BY <1>1
<1>3. e * x \in Nat /\ e * d \in Nat /\ d * e \in Nat /\ x * e \in Nat
  BY <1>1
<1>. QED
  BY <1>2, <1>3

\* A plain draft of few calls fits.
LEMMA PlainFits ==
    ASSUME NEW m \in Message, NEW e \in 0..MaxEdits, IsPlain(m, e)
    PROVE  LNET_HEADER_SIZE + Len(m.payload) \in Field
<1>1. Len(m.payload) \in Nat
  BY RestType
<1>2. CASE Len(m.payload) = 0
  BY <1>2, FieldFacts
<1>3. CASE Len(m.payload) # 0
  <2>1. PICK item \in Items : Len(m.payload) <= e * (FieldSize + Len(item.of))
    BY <1>3 DEF IsPlain
  <2> DEFINE x == FieldSize + Len(item.of)
  <2>2. x \in Nat /\ LNET_HEADER_SIZE + MaxEdits * x \in Field /\ MaxEdits \in Nat
    <3>1. item.of \in Seq(Byte)
      BY FramingConstants
    <3>2. Len(item.of) \in Nat
      BY <3>1, LenProperties
    <3>3. FieldSize \in Nat
      BY FieldFacts
    <3>4. LNET_HEADER_SIZE + MaxEdits * (FieldSize + Len(item.of)) \in Field /\ MaxEdits \in Nat
      BY FramingConstants
    <3>. QED
      BY <3>2, <3>3, <3>4
  <2>3. Len(m.payload) <= e * x
    BY <2>1
  <2> HIDE DEF x
  <2>4. e * x \in Nat /\ e * x <= MaxEdits * x
    <3>1. e \in Nat /\ e <= MaxEdits
      BY <2>2
    <3>. QED
      BY <2>2, <3>1, Product
  <2>5. MaxEdits * x \in Nat /\ Len(m.payload) <= MaxEdits * x
    BY <1>1, <2>2, <2>3, <2>4
  <2> DEFINE big == MaxEdits * x
  <2>6. /\ big \in Nat /\ Len(m.payload) <= big /\ LNET_HEADER_SIZE + big \in Field
        /\ LNET_HEADER_SIZE \in Nat
    BY <2>2, <2>5, FieldFacts
  <2> HIDE DEF big
  <2>7. LNET_HEADER_SIZE + big < Place(FieldSize) /\ Place(FieldSize) \in Nat
    BY <2>6, FieldFacts
  <2>8. LNET_HEADER_SIZE + Len(m.payload) \in Nat /\ LNET_HEADER_SIZE + Len(m.payload) < Place(FieldSize)
    BY <1>1, <2>6, <2>7
  <2>. QED
    BY <2>8, FieldFacts
<1>. QED
  BY <1>2, <1>3

\* << adds to the size what it adds to the payload, which is no more than the
\* size can say.
LEMMA PutIsPlain ==
    ASSUME NEW m \in Message, NEW e \in Nat, e < MaxEdits, IsPlain(m, e),
           NEW item \in Items, NEW bytes \in Seq(Byte), Len(bytes) <= FieldSize + Len(item.of)
    PROVE  IsPlain(Put(m, bytes), e + 1)
<1> DEFINE q == Put(m, bytes)   H == LNET_HEADER_SIZE
<1>1. /\ q \in Message /\ q.payload = m.payload \o bytes /\ q.readPosition = m.readPosition
      /\ Len(q.payload) = Len(m.payload) + Len(bytes)
      /\ q.size = (m.size + Len(bytes)) % Place(FieldSize)
  BY PutType
<1>2. Len(bytes) \in Nat /\ Len(m.payload) \in Nat /\ m.readPosition \in Nat /\ m.size \in Nat
  BY LenProperties, FieldFacts DEF Message
<1>3. m.readPosition <= Len(m.payload) /\ m.size = H + Len(Rest(m))
  BY DEF IsPlain
<1> HIDE DEF q
<1>4. Len(Rest(m)) = Len(m.payload) - m.readPosition /\ H \in Nat
  BY <1>3, RestType, FieldFacts
<1>5. q.readPosition <= Len(q.payload)
  BY <1>1, <1>2, <1>3
<1>6. Len(Rest(q)) = Len(q.payload) - q.readPosition
  BY <1>1, <1>5, RestType
<1>7. \E i \in Items : Len(q.payload) <= (e + 1) * (FieldSize + Len(i.of))
  <2> DEFINE x(i) == FieldSize + Len(i.of)
  <2>1. \A i \in Items : x(i) \in Nat
    <3>1. \A i \in Items : Len(i.of) \in Nat
      BY FramingConstants, LenProperties
    <3>2. FieldSize \in Nat
      BY FieldFacts
    <3>. QED
      BY <3>1, <3>2
  <2>2. Len(bytes) <= x(item)
    OBVIOUS
  <2>3. CASE Len(m.payload) = 0
    <3>0. x(item) \in Nat
      BY <2>1
    <3>1. 0 <= e * x(item) /\ (e + 1) * x(item) = e * x(item) + x(item) /\ e * x(item) \in Nat
      BY <3>0, Product
    <3> HIDE DEF x
    <3>2. Len(q.payload) <= (e + 1) * x(item)
      BY <1>1, <1>2, <2>2, <2>3, <3>0, <3>1
    <3>. QED
      BY <3>2 DEF x
  <2>4. CASE Len(m.payload) # 0
    <3>1. PICK i \in Items : Len(m.payload) <= e * x(i)
      BY <2>4 DEF IsPlain
    <3> HIDE DEF x
    <3>2. x(i) \in Nat /\ x(item) \in Nat
      BY <2>1
    <3>3. CASE x(i) <= x(item)
      <4>1. e * x(i) <= e * x(item) /\ (e + 1) * x(item) = e * x(item) + x(item)
        BY <3>2, <3>3, Product
      <4>2. e * x(i) \in Nat /\ e * x(item) \in Nat
        BY <3>2
      <4>3. Len(q.payload) <= (e + 1) * x(item)
        BY <1>1, <1>2, <2>2, <3>1, <3>2, <4>1, <4>2
      <4>. QED
        BY <4>3 DEF x
    <3>4. CASE x(item) <= x(i)
      <4>1. (e + 1) * x(i) = e * x(i) + x(i) /\ e * x(i) \in Nat
        BY <3>2, Product
      <4>2. Len(q.payload) <= (e + 1) * x(i)
        BY <1>1, <1>2, <2>2, <3>1, <3>2, <3>4, <4>1
      <4>. QED
        BY <4>2 DEF x
    <3>. QED
      BY <3>2, <3>3, <3>4
  <2>. QED
    BY <2>3, <2>4
<1>8. q.size = H + Len(Rest(q))
  <2>1. q.payload \in Seq(Byte) /\ Len(q.payload) \in Nat
    BY <1>1, LenProperties DEF Message
  <2>2. H + Len(q.payload) \in Field
    <3>1. PICK i \in Items : Len(q.payload) <= (e + 1) * (FieldSize + Len(i.of))
      BY <1>7
    <3> DEFINE x == FieldSize + Len(i.of)
    <3>2. x \in Nat
      <4>1. Len(i.of) \in Nat
        BY FramingConstants, LenProperties
      <4>. QED
        BY <4>1, FieldFacts
    <3>3. H + MaxEdits * x \in Field /\ MaxEdits \in Nat
      BY FramingConstants
    <3>4. Len(q.payload) <= (e + 1) * x
      BY <3>1
    <3> HIDE DEF x
    <3>5. e + 1 \in Nat /\ e + 1 <= MaxEdits
      BY <3>3
    <3>6. (e + 1) * x \in Nat /\ (e + 1) * x <= MaxEdits * x
      BY <3>2, <3>3, <3>5, Product
    <3> DEFINE big == MaxEdits * x   part == (e + 1) * x
    <3>7. big \in Nat /\ part \in Nat /\ part <= big /\ Len(q.payload) <= part /\ H + big \in Field
      BY <3>2, <3>3, <3>4, <3>6
    <3> HIDE DEF big, part
    <3>8. H + big < Place(FieldSize) /\ Place(FieldSize) \in Nat
      BY <3>7, FieldFacts
    <3>9. H + Len(q.payload) \in Nat /\ H + Len(q.payload) < Place(FieldSize)
      BY <1>4, <2>1, <3>7, <3>8
    <3>. QED
      BY <3>9, FieldFacts
  <2>3. m.size + Len(bytes) = H + Len(Rest(q)) /\ m.size + Len(bytes) \in Nat
    <3>1. Len(Rest(q)) = (Len(m.payload) + Len(bytes)) - m.readPosition
      BY <1>1, <1>6, Zenon
    <3>2. m.size = H + (Len(m.payload) - m.readPosition)
      BY <1>3, <1>4, Zenon
    <3> DEFINE s == m.size   l == Len(m.payload)   rp == m.readPosition   b == Len(bytes)
               r == Len(Rest(q))
    <3>3. /\ s \in Nat /\ l \in Nat /\ rp \in Nat /\ b \in Nat /\ H \in Nat
          /\ r = (l + b) - rp /\ s = H + (l - rp)
      BY <1>2, <1>4, <3>1, <3>2, Zenon
    <3> HIDE DEF H, s, l, rp, b, r
    <3>4. s + b = H + r /\ s + b \in Nat
      BY <3>3
    <3>. QED
      BY <3>4 DEF s, b, r
  <2>4. m.size + Len(bytes) \in Field
    <3>1. m.size + Len(bytes) <= H + Len(q.payload)
      BY <1>1, <1>2, <1>4, <1>6, <2>1, <2>3
    <3>2. H + Len(q.payload) < Place(FieldSize) /\ Place(FieldSize) \in Nat
      BY <2>2, FieldFacts
    <3>3. m.size + Len(bytes) < Place(FieldSize)
      BY <1>4, <2>1, <2>3, <3>1, <3>2
    <3>. QED
      BY <2>3, <3>3, FieldFacts
  <2>5. (m.size + Len(bytes)) % Place(FieldSize) = m.size + Len(bytes)
    BY <2>3, <2>4, FieldModulo
  <2>. QED
    BY <1>1, <2>3, <2>5
<1>9. IsPlain(q, e + 1)
  BY <1>5, <1>7, <1>8 DEF IsPlain
<1>. QED
  BY <1>9 DEF q

\* >> takes off the size what it takes off the rest.
LEMMA SkipIsPlain ==
    ASSUME NEW m \in Message, NEW e \in Nat, IsPlain(m, e), NEW n \in Nat,
           m.readPosition + n <= Len(m.payload)
    PROVE  IsPlain(Skip(m, n), e + 1)
<1> DEFINE q == Skip(m, n)   H == LNET_HEADER_SIZE
<1>1. /\ q \in Message /\ q.payload = m.payload /\ q.readPosition = m.readPosition + n
      /\ q.size = (m.size - n) % Place(FieldSize)
  BY SkipType
<1>2. m.readPosition \in Nat /\ m.size \in Field /\ Len(m.payload) \in Nat /\ H \in Nat
  BY RestType, FieldFacts DEF Message
<1>3. m.readPosition <= Len(m.payload) /\ m.size = H + Len(Rest(m))
  BY DEF IsPlain
<1> HIDE DEF q
<1>4. Len(Rest(m)) = Len(m.payload) - m.readPosition
  BY <1>3, RestType
<1>5. q.readPosition <= Len(q.payload)
  BY <1>1
<1>6. Len(Rest(q)) = Len(q.payload) - q.readPosition
  BY <1>1, <1>5, RestType
<1>7. m.size - n = H + Len(Rest(q)) /\ m.size - n \in Nat /\ m.size - n <= m.size
  <2>1. Len(Rest(q)) = Len(m.payload) - (m.readPosition + n)
    BY <1>1, <1>6, Zenon
  <2>2. m.size = H + (Len(m.payload) - m.readPosition)
    BY <1>3, <1>4, Zenon
  <2> DEFINE s == m.size   l == Len(m.payload)   rp == m.readPosition   r == Len(Rest(q))
  <2>3. s \in Nat /\ l \in Nat /\ rp \in Nat /\ H \in Nat /\ rp + n <= l
    BY <1>2, FieldFacts
  <2>4. r = l - (rp + n) /\ s = H + (l - rp)
    BY <2>1, <2>2
  <2> HIDE DEF H, s, l, rp, r
  <2>5. s - n = H + r /\ s - n \in Nat /\ s - n <= s
    BY <2>3, <2>4
  <2>. QED
    BY <2>5 DEF s, r
<1>8. m.size - n \in Field
  <2>1. m.size \in Nat /\ m.size < Place(FieldSize) /\ Place(FieldSize) \in Nat
    BY <1>2, FieldFacts
  <2>2. m.size - n < Place(FieldSize)
    BY <1>7, <2>1
  <2>. QED
    BY <1>7, <2>2, FieldFacts
<1>9. q.size = m.size - n
  BY <1>1, <1>7, <1>8, FieldModulo
<1>10. Len(q.payload) = 0 \/ \E i \in Items : Len(q.payload) <= (e + 1) * (FieldSize + Len(i.of))
  <2>1. CASE Len(m.payload) = 0
    BY <1>1, <2>1
  <2>2. CASE Len(m.payload) # 0
    <3>1. PICK i \in Items : Len(m.payload) <= e * (FieldSize + Len(i.of))
      BY <2>2 DEF IsPlain
    <3> DEFINE x == FieldSize + Len(i.of)
    <3>2. x \in Nat
      <4>1. Len(i.of) \in Nat
        BY FramingConstants, LenProperties
      <4>. QED
        BY <4>1, FieldFacts
    <3>3. Len(m.payload) <= e * x
      BY <3>1
    <3> HIDE DEF x
    <3>4. (e + 1) * x = e * x + x /\ e * x \in Nat
      BY <3>2, Product
    <3>5. Len(m.payload) <= (e + 1) * x
      BY <1>2, <3>2, <3>3, <3>4
    <3>. QED
      BY <1>1, <3>5 DEF x
  <2>. QED
    BY <2>1, <2>2
<1>11. IsPlain(q, e + 1)
  BY <1>5, <1>7, <1>9, <1>10 DEF IsPlain
<1>. QED
  BY <1>11 DEF q

LEMMA WriteKeepsInv == ASSUME Inv, NEW item \in Items, write(item) PROVE Inv'
<1> DEFINE bytes == CASE item.kind = "value"  -> InOrder(item.of, ends.sender)
                      [] item.kind = "string" -> StringBytes(item.of)
                      [] item.kind = "list"   -> ListBytes(item.of, ends.sender)
<1>1. draft \in Message /\ ends.sender \in BOOLEAN /\ edits \in Nat /\ plain \in BOOLEAN
  BY SystemsAreBoolean, FramingConstants DEF Inv, Structure, TypeOK
<1>2. bytes \in Seq(Byte) /\ Len(bytes) <= FieldSize + Len(item.of)
  BY <1>1, ItemBytes
<1>3. Edit(Put(draft, bytes), plain)
  BY DEF write
<1> HIDE DEF bytes
<1>4. Put(draft, bytes) \in Message
  BY <1>1, <1>2, PutType
<1>5. plain => IsPlain(Put(draft, bytes), edits + 1)
  <2>1. edits < MaxEdits
    BY <1>3 DEF Edit
  <2>. QED
    BY <1>1, <1>2, <2>1, PutIsPlain DEF Inv, DraftIsPlain
<1>. QED
  BY <1>1, <1>3, <1>4, <1>5, EditKeepsInv

LEMMA ReadKeepsInv ==
    ASSUME Inv, NEW n \in Nat, Edit(Skip(draft, n), plain),
           plain => draft.readPosition + n <= Len(draft.payload)
    PROVE  Inv'
<1>1. draft \in Message /\ edits \in Nat /\ plain \in BOOLEAN
  BY FramingConstants DEF Inv, Structure, TypeOK
<1>2. Skip(draft, n) \in Message
  BY <1>1, SkipType
<1>3. plain => IsPlain(Skip(draft, n), edits + 1)
  BY <1>1, SkipIsPlain DEF Inv, DraftIsPlain
<1>. QED
  BY <1>1, <1>2, <1>3, EditKeepsInv

LEMMA ReadValueKeepsInv == ASSUME Inv, readValue(1) PROVE Inv'
<1>1. draft.readPosition + 1 <= Len(draft.payload) /\ Edit(Skip(draft, 1), plain)
  BY DEF readValue, HasValue
<1>. QED
  BY <1>1, ReadKeepsInv

LEMMA ReadStringKeepsInv == ASSUME Inv, readString PROVE Inv'
<1>1. draft \in Message
  BY DEF Inv, Structure, TypeOK
<1>2. PICK n \in StringSizes(draft, MaxStale) : Edit(Skip(draft, n), plain)
  BY DEF readString
<1>4. Len(Rest(draft)) \in Nat /\ Len(draft.payload) \in Nat /\ draft.readPosition \in Nat
  BY <1>1, RestType DEF Message
<1>5. n \in Nat /\ (draft.readPosition <= Len(draft.payload) => n <= Len(Rest(draft)))
  BY <1>1, StringSizeType
<1>6. ASSUME plain PROVE draft.readPosition + n <= Len(draft.payload)
  <2>1. draft.readPosition <= Len(draft.payload)
    BY <1>6 DEF Inv, DraftIsPlain, IsPlain
  <2>2. Len(Rest(draft)) = Len(draft.payload) - draft.readPosition
    BY <1>1, <2>1, RestType
  <2>. QED
    BY <1>4, <1>5, <2>1, <2>2
<1>. QED
  BY <1>2, <1>5, <1>6, ReadKeepsInv

LEMMA ResizeKeepsInv ==
    ASSUME Inv, NEW value \in {0, LNET_HEADER_SIZE + 1}, resize(value) PROVE Inv'
<1> DEFINE m == IF Resizable(value) THEN setMsgSize(draft, value) ELSE [draft EXCEPT !.size = value]
<1>1. draft \in Message /\ value \in Field
  BY FieldFacts DEF Inv, Structure, TypeOK
<1>2. m \in Message
  <2>1. CASE Resizable(value)
    BY <1>1, <2>1, Resized
  <2>2. CASE ~Resizable(value)
    BY <1>1, <2>2 DEF Message
  <2>. QED
    BY <2>1, <2>2
<1>3. Edit(m, FALSE)
  BY DEF resize
<1> HIDE DEF m
<1>. QED
  BY <1>2, <1>3, EditKeepsInv

LEMMA EmptyKeepsInv == ASSUME Inv, empty PROVE Inv'
<1>1. draft \in Message
  BY DEF Inv, Structure, TypeOK
<1>2. clear(draft) \in Message
  BY <1>1, FieldFacts, EmptyIsSeq DEF clear, Message
<1>3. Edit(clear(draft), FALSE)
  BY DEF empty
<1>. QED
  BY <1>2, <1>3, EditKeepsInv

LEMMA CopyKeepsInv == ASSUME Inv, copy PROVE Inv'
<1> DEFINE m == FromBuffer(toConstBuffers(draft, ends.sender), ends.sender)
<1>1. draft \in Message /\ ends.sender \in BOOLEAN /\ edits \in Nat
  BY SystemsAreBoolean, FramingConstants DEF Inv, Structure, TypeOK
<1>2. plain /\ IsPlain(draft, edits)
  BY DEF copy, Inv, DraftIsPlain
<1>3. m = [type |-> draft.type, size |-> draft.size, readPosition |-> 0, payload |-> Rest(draft)]
  BY <1>1, <1>2, Copied DEF IsPlain
<1>4. Edit(m, TRUE)
  BY DEF copy
<1> HIDE DEF m
<1>5. m \in Message /\ m.payload = Rest(draft) /\ m.readPosition = 0 /\ m.size = draft.size
  BY <1>1, <1>3, RestType DEF Message
<1>6. IsPlain(m, edits + 1)
  <2>1. Rest(m) = Rest(draft) /\ Len(m.payload) \in Nat
    BY <1>5, RestType
  <2>2. m.size = LNET_HEADER_SIZE + Len(Rest(m)) /\ m.readPosition <= Len(m.payload)
    BY <1>2, <1>5, <2>1 DEF IsPlain
  <2>3. Len(m.payload) = 0 \/ \E i \in Items : Len(m.payload) <= (edits + 1) * (FieldSize + Len(i.of))
    <3>1. Len(m.payload) <= Len(draft.payload) /\ Len(draft.payload) \in Nat
      BY <1>1, <1>5, RestType
    <3>2. CASE Len(draft.payload) = 0
      BY <2>1, <3>1, <3>2
    <3>3. CASE Len(draft.payload) # 0
      <4>1. PICK i \in Items : Len(draft.payload) <= edits * (FieldSize + Len(i.of))
        BY <1>2, <3>3 DEF IsPlain
      <4> DEFINE x == FieldSize + Len(i.of)
      <4>2. x \in Nat
        <5>1. Len(i.of) \in Nat
          BY FramingConstants, LenProperties
        <5>. QED
          BY <5>1, FieldFacts
      <4>3. Len(draft.payload) <= edits * x
        BY <4>1
      <4> HIDE DEF x
      <4>4. (edits + 1) * x = edits * x + x /\ edits * x \in Nat
        BY <1>1, <4>2, Product
      <4>5. Len(m.payload) <= (edits + 1) * x
        BY <2>1, <3>1, <4>2, <4>3, <4>4
      <4>. QED
        BY <4>5 DEF x
    <3>. QED
      BY <3>2, <3>3
  <2>. QED
    BY <2>2, <2>3 DEF IsPlain
<1>. QED
  BY <1>4, <1>5, <1>6, EditKeepsInv

\* Another message follows all the others.
IsLonger(longer, tails, n, e) ==
    /\ longer \in [0..n + 1 -> Seq(Byte)]
    /\ \A i \in 0..n : longer[i] = tails[i] \o e
    /\ longer[n + 1] = <<>>

LEMMA ThereIsLonger ==
    ASSUME NEW n \in Nat, NEW tails \in [0..n -> Seq(Byte)], NEW e \in Seq(Byte)
    PROVE  \E longer \in [0..n + 1 -> Seq(Byte)] : IsLonger(longer, tails, n, e)
<1> DEFINE longer == [i \in 0..n + 1 |-> IF i <= n THEN tails[i] \o e ELSE <<>>]
<1>1. \A i \in 0..n : tails[i] \o e \in Seq(Byte)
  BY ConcatProperties
<1>2. <<>> \in Seq(Byte)
  BY EmptyIsSeq
<1>3. \A i \in 0..n + 1 : (IF i <= n THEN tails[i] \o e ELSE <<>>) \in Seq(Byte)
  BY <1>1, <1>2
<1>4. longer \in [0..n + 1 -> Seq(Byte)]
  BY <1>3
<1>5. \A i \in 0..n : longer[i] = tails[i] \o e
  OBVIOUS
<1>6. longer[n + 1] = <<>>
  OBVIOUS
<1> HIDE DEF longer
<1>. QED
  BY <1>4, <1>5, <1>6 DEF IsLonger

LEMMA TailsGrow ==
    ASSUME NEW s \in Seq(Contents), \A i \in 1..Len(s) : Fits(s[i]),
           NEW tails, AreTails(tails, s), NEW c \in Contents, Fits(c),
           NEW longer, IsLonger(longer, tails, Len(s), Encoding(c))
    PROVE  longer \in [0..Len(Append(s, c)) -> Seq(Byte)] /\ AreTails(longer, Append(s, c))
<1> DEFINE e == Encoding(c)   t == Append(s, c)
<1>1. e \in Seq(Byte) /\ Len(s) \in Nat /\ Len(t) = Len(s) + 1
  BY EncodingType, LenProperties, AppendProperties
<1>2. \A i \in 1..Len(s) : t[i] = s[i]
  BY <1>1, AppendProperties
<1>3. t[Len(s) + 1] = c
  BY AppendProperties
<1> HIDE DEF t, e
<1>4. /\ \A i \in 0..Len(s) : tails[i] \in Seq(Byte)
      /\ tails[Len(s)] = <<>> /\ \A i \in 1..Len(s) : tails[i - 1] = Encoding(s[i]) \o tails[i]
  BY DEF AreTails
<1>5. /\ longer \in [0..Len(s) + 1 -> Seq(Byte)]
      /\ \A i \in 0..Len(s) : longer[i] = tails[i] \o e
      /\ longer[Len(s) + 1] = <<>>
  BY DEF IsLonger, e
<1>6. ASSUME NEW i \in 1..Len(t) PROVE longer[i - 1] = Encoding(t[i]) \o longer[i]
  <2>1. CASE i <= Len(s)
    <3>1. i \in 1..Len(s) /\ i \in 0..Len(s) /\ i - 1 \in 0..Len(s)
      BY <1>1, <2>1
    <3>2. tails[i - 1] = Encoding(s[i]) \o tails[i]
      BY <1>4, <3>1
    <3>3. s[i] \in Contents /\ Fits(s[i])
      BY <3>1, ElementOfSeq
    <3> DEFINE f == Encoding(s[i])   x == tails[i]
    <3>4. f \in Seq(Byte) /\ x \in Seq(Byte)
      BY <1>4, <3>1, <3>3, EncodingType
    <3> HIDE DEF f, x
    <3>5. (f \o x) \o e = f \o (x \o e)
      BY <1>1, <3>4, ConcatAssociative
    <3>6. longer[i - 1] = tails[i - 1] \o e /\ longer[i] = x \o e
      BY <1>5, <3>1 DEF x
    <3>7. tails[i - 1] = f \o x /\ Encoding(t[i]) = f
      BY <1>2, <3>1, <3>2 DEF f, x
    <3>. QED
      BY <3>5, <3>6, <3>7
  <2>2. CASE ~(i <= Len(s))
    <3>1. i = Len(s) + 1 /\ i - 1 = Len(s) /\ Len(s) \in 0..Len(s)
      BY <1>1, <2>2
    <3>2. longer[i - 1] = <<>> \o e /\ longer[i] = <<>>
      BY <1>4, <1>5, <3>1
    <3>3. <<>> \o e = e /\ e \o <<>> = e
      BY <1>1, ConcatEmptySeq
    <3>4. Encoding(t[i]) = e
      BY <1>3, <3>1 DEF e
    <3>. QED
      BY <3>2, <3>3, <3>4
  <2>. QED
    BY <2>1, <2>2
<1>. QED
  BY <1>1, <1>5, <1>6 DEF AreTails, t

\* Bytes may be put together in either order.
Associates(a, b, c) == (a \o b) \o c = a \o (b \o c)

LEMMA Together ==
    ASSUME NEW a \in Seq(Byte), NEW b \in Seq(Byte), NEW c \in Seq(Byte)
    PROVE  Associates(a, b, c)
BY ConcatAssociative DEF Associates

\* What the reader has yet to take grows with it.
Grows(longer, tails, s, c, r, phase) ==
    Unread(longer, Append(s, c), r, phase) = Unread(tails, s, r, phase) \o Encoding(c)

LEMMA UnreadGrows ==
    ASSUME NEW s \in Seq(Contents), NEW tails, AreTails(tails, s),
           NEW c \in Contents, Fits(c), NEW longer, IsLonger(longer, tails, Len(s), Encoding(c)),
           NEW r \in 0..Len(s), NEW phase, phase = "payload" => r < Len(s)
    PROVE  Grows(longer, tails, s, c, r, phase)
<1> DEFINE e == Encoding(c)   t == Append(s, c)
<1>1. e \in Seq(Byte) /\ Len(s) \in Nat
  BY EncodingType, LenProperties
<1>2. \A i \in 1..Len(s) : t[i] = s[i]
  BY <1>1, AppendProperties
<1> HIDE DEF t, e
<1>4. \A i \in 0..Len(s) : tails[i] \in Seq(Byte) /\ longer[i] = tails[i] \o e
  BY DEF AreTails, IsLonger, e
<1>5. CASE phase = "payload"
  <2>1. r + 1 \in 1..Len(s) /\ r + 1 \in 0..Len(s)
    BY <1>1, <1>5
  <2> DEFINE q == s[r + 1].rest   x == tails[r + 1]
  <2>2. q \in Seq(Byte)
    <3>1. s[r + 1] \in Contents
      BY <2>1, ElementOfSeq
    <3>. QED
      BY <3>1 DEF Contents
  <2>3. x \in Seq(Byte) /\ longer[r + 1] = x \o e
    BY <1>4, <2>1
  <2>4. Unread(tails, s, r, phase) = q \o x
    BY <1>5 DEF Unread
  <2>5. Unread(longer, t, r, phase) = q \o longer[r + 1]
    BY <1>2, <1>5, <2>1 DEF Unread
  <2> HIDE DEF q, x
  <2>6. Associates(q, x, e)
    BY <1>1, <2>2, <2>3, Together
  <2>. QED
    BY <2>3, <2>4, <2>5, <2>6 DEF t, e, Grows, Associates
<1>6. CASE phase # "payload"
  BY <1>4, <1>6 DEF Unread, t, e, Grows
<1>. QED
  BY <1>5, <1>6

LEMMA SendKeepsInv == ASSUME Inv, NEW type \in Types, asyncSend(type) PROVE Inv'
<1> DEFINE bytes == toConstBuffers(draft, ends.sender)   c == Content(draft)
<1>1. /\ draft \in Message /\ ends.sender \in BOOLEAN /\ sent \in Seq(Contents)
      /\ type \in Field /\ writes \in Seq(Seq(Byte)) /\ Len(sent) \in Nat
  BY SystemsAreBoolean, FramingConstants, LenProperties DEF Inv, Structure, TypeOK
<1>2. /\ bytes \in Seq(Byte) /\ Len(bytes) >= LNET_HEADER_SIZE
      /\ plain => bytes = Encoding(c) /\ Fits(c)
  BY <1>1, Buffers DEF Inv, DraftIsPlain, IsPlain
<1>3. c \in Contents /\ (plain /\ Resizable(draft.size) => Countable(c))
  <2>1. c \in Contents /\ c.rest = Rest(draft)
    BY <1>1, RestType
  <2>2. plain => draft.size = LNET_HEADER_SIZE + Len(Rest(draft))
    BY DEF Inv, DraftIsPlain, IsPlain
  <2>. QED
    BY <2>1, <2>2 DEF Countable
<1>4. /\ sent' = Append(sent, c) /\ draft' = NewMessage(type) /\ edits' = 0 /\ plain' = TRUE
      /\ broken' = (broken \/ ~plain \/ ~Resizable(draft.size) \/ writes # <<>>)
      /\ \/ transport = "tcp" /\ writes' = Append(writes, bytes) /\ UNCHANGED wire
         \/ transport = "udp" /\ wire' = Append(wire, bytes) /\ UNCHANGED writes
      /\ UNCHANGED <<transport, ends, closed, reader, incoming, received>>
  BY DEF asyncSend, consts
<1> HIDE DEF bytes, c
<1>5. /\ sent' \in Seq(Contents) /\ Len(sent') = Len(sent) + 1 /\ sent'[Len(sent) + 1] = c
      /\ \A i \in 1..Len(sent) : sent'[i] = sent[i]
  BY <1>1, <1>3, <1>4, AppendProperties
<1>6. ~broken' => ~broken /\ plain /\ writes = <<>> /\ Resizable(draft.size)
  BY <1>4
<1>7. draft' \in Message /\ IsPlain(draft', 0)
  <2>1. /\ draft' \in Message /\ draft'.payload = <<>> /\ draft'.readPosition = 0
        /\ draft'.size = LNET_HEADER_SIZE
    BY <1>1, <1>4, NewMessageType
  <2>2. Rest(draft') = <<>> /\ Len(<<>>) = 0
    BY <2>1, RestType, EmptyIsSeq
  <2>3. LNET_HEADER_SIZE + 0 = LNET_HEADER_SIZE
    BY FieldFacts
  <2>. QED
    BY <2>1, <2>2, <2>3 DEF IsPlain
<1>8. writes' \in Seq(Seq(Byte))
  <2>1. Append(writes, bytes) \in Seq(Seq(Byte))
    BY <1>1, <1>2, AppendProperties
  <2>. QED
    BY <1>1, <1>4, <2>1
<1>9. transport = "udp" => wire' \in Seq(Datagram) /\ wire' \in Seq(Seq(Byte)) /\ writes' = <<>>
  <2>1. ASSUME transport = "udp" PROVE wire' \in Seq(Datagram) /\ wire' \in Seq(Seq(Byte)) /\ writes' = <<>>
    <3>1. wire \in Seq(Datagram) /\ wire \in Seq(Seq(Byte)) /\ writes = <<>>
      BY <2>1 DEF Inv, Structure, TypeOK
    <3>2. bytes \in Datagram
      BY <1>2 DEF Datagram
    <3>3. wire' = Append(wire, bytes) /\ writes' = writes
      BY <1>4, <2>1
    <3>. QED
      BY <1>2, <3>1, <3>2, <3>3, AppendProperties
  <2>. QED
    BY <2>1
<1>10. Structure'
  <2>1. \A w \in DOMAIN writes' : writes'[w] \in Seq(Byte)
    BY <1>8, ElementOfSeq, LenProperties
  <2>2. wire' \in IF transport' = "tcp" THEN Seq(Byte) ELSE Seq(Seq(Byte))
    <3>1. transport \in {"tcp", "udp"} /\ transport' = transport
      BY <1>4, FramingConstants DEF Inv, Structure, TypeOK
    <3>2. CASE transport = "tcp"
      BY <1>4, <3>1, <3>2 DEF Inv, Structure, TypeOK
    <3>3. CASE transport = "udp"
      BY <1>9, <3>1, <3>3
    <3>. QED
      BY <3>1, <3>2, <3>3
  <2>3. broken' \in BOOLEAN /\ plain' \in BOOLEAN /\ edits' \in 0..MaxEdits
    <3>1. 0 \in 0..MaxEdits
      BY FramingConstants
    <3>. QED
      BY <1>4, <3>1
  <2>4. TypeOK'
    BY <1>4, <1>5, <1>7, <2>1, <2>2, <2>3 DEF Inv, Structure, TypeOK
  <2>. QED
    BY <1>4, <1>8, <1>9, <2>4 DEF Inv, Structure
<1>11. DraftIsPlain'
  BY <1>4, <1>7 DEF DraftIsPlain
<1>12. ~broken' => \A i \in 1..Len(sent) : Fits(sent[i]) /\ Countable(sent[i])
  BY <1>6 DEF Inv, SentFit
<1>13. SentFit'
  <2>1. ASSUME ~broken', NEW i \in 1..Len(sent') PROVE Fits(sent'[i]) /\ Countable(sent'[i])
    <3>1. CASE i \in 1..Len(sent)
      BY <1>5, <1>12, <2>1, <3>1
    <3>2. CASE i \notin 1..Len(sent)
      <4>1. i = Len(sent) + 1
        BY <1>1, <1>5, <3>2
      <4>. QED
        BY <1>2, <1>3, <1>5, <1>6, <2>1, <4>1
    <3>. QED
      BY <3>1, <3>2
  <2>. QED
    BY <2>1 DEF SentFit
<1>14. DatagramsIntact'
  <2> SUFFICES ASSUME transport = "udp", ~broken' PROVE DatagramsIntact'
    BY <1>4 DEF DatagramsIntact
  <2>1. DatagramsIntact /\ ~broken /\ plain
    BY <1>6 DEF Inv
  <2>2. wire' = Append(wire, bytes) /\ bytes = Encoding(c)
    BY <1>2, <1>4, <2>1
  <2>3. wire \in Seq(Encodings)
    BY <2>1 DEF DatagramsIntact
  <2>4. Encodings \subseteq Encodings'
    <3>1. \A i \in 1..Len(sent) : i \in 1..Len(sent') /\ sent'[i] = sent[i]
      BY <1>1, <1>5
    <3>. QED
      BY <3>1 DEF Encodings
  <2>5. bytes \in Encodings'
    <3>1. Len(sent) + 1 \in 1..Len(sent')
      BY <1>1, <1>5
    <3>. QED
      BY <1>5, <2>2, <3>1 DEF Encodings
  <2>6. wire' \in Seq(Encodings')
    <3>1. wire \in Seq(Encodings')
      BY <2>3, <2>4, SeqMonotonic
    <3>. QED
      BY <2>2, <2>5, <3>1, AppendProperties
  <2>7. \A j \in 1..Len(sent) : j \in 1..Len(sent') /\ sent'[j] = sent[j]
    BY <1>1, <1>5
  <2>8. ASSUME Truncates = "error", NEW i \in 1..Len(received)
        PROVE  \E j \in 1..Len(sent') : received[i] = sent'[j]
    BY <2>1, <2>7, <2>8 DEF DatagramsIntact
  <2>9. ASSUME Truncates = "error", reader = "payload"
        PROVE  /\ Len(incoming.payload) = 0
               /\ \E j \in 1..Len(sent') : sent'[j].type = incoming.type /\ Len(sent'[j].rest) = 0
    BY <2>1, <2>7, <2>9 DEF DatagramsIntact
  <2>10. reader # "dead"
    BY <2>1 DEF DatagramsIntact
  <2>. QED
    BY <1>4, <2>6, <2>8, <2>9, <2>10 DEF DatagramsIntact
<1>15. StreamIntact'
  <2> SUFFICES ASSUME transport = "tcp", ~broken' PROVE StreamIntact'
    BY <1>4 DEF StreamIntact
  <2>1. StreamIntact /\ ~broken /\ plain /\ writes = <<>>
    BY <1>6 DEF Inv
  <2>2. /\ writes' = Append(writes, bytes) /\ wire' = wire /\ wire \in Seq(Byte)
        /\ bytes = Encoding(c) /\ Fits(c)
    BY <1>2, <1>4, <2>1 DEF Inv, Structure, TypeOK
  <2>3. writes' = <<bytes>>
    BY <2>1, <2>2
  <2>4. Len(writes') <= 1 /\ Outgoing' = bytes
    BY <2>3 DEF Outgoing
  <2>5. /\ Len(received) <= Len(sent) /\ Len(received) \in Nat
        /\ \A i \in 1..Len(received) : received[i] = sent[i]
        /\ reader # "dead"
    BY <2>1, LenProperties DEF StreamIntact, Inv, Structure, TypeOK
  <2>6. /\ Len(received') <= Len(sent')
        /\ \A i \in 1..Len(received') : received'[i] = sent'[i]
    <3>1. \A i \in 1..Len(received) : i \in 1..Len(sent)
      BY <1>1, <2>5
    <3>. QED
      BY <1>1, <1>4, <1>5, <2>5, <3>1
  <2>7. ASSUME reader = "payload"
        PROVE  /\ Len(received) < Len(sent) /\ Len(received) < Len(sent')
               /\ incoming.type = sent'[Len(received) + 1].type
               /\ incoming.size = LNET_HEADER_SIZE + Len(sent'[Len(received) + 1].rest)
    <3>1. /\ Len(received) < Len(sent)
          /\ incoming.type = sent[Len(received) + 1].type
          /\ incoming.size = LNET_HEADER_SIZE + Len(sent[Len(received) + 1].rest)
      BY <2>1, <2>7 DEF StreamIntact
    <3>2. Len(received) + 1 \in 1..Len(sent) /\ Len(received) < Len(sent')
      BY <1>1, <1>5, <2>5, <3>1
    <3>3. sent'[Len(received) + 1] = sent[Len(received) + 1]
      BY <1>5, <3>2
    <3>. QED
      BY <3>1, <3>2, <3>3
  <2>8. \E tails \in [0..Len(sent') -> Seq(Byte)], more \in Seq(Byte) : Flow(tails, more)'
    <3>1. PICK tails \in [0..Len(sent) -> Seq(Byte)], more \in Seq(Byte) : Flow(tails, more)
      BY <2>1 DEF StreamIntact
    <3>2. PICK b \in Seq(Byte) : b = bytes
      BY <1>2
    <3>3. PICK longer \in [0..Len(sent) + 1 -> Seq(Byte)] : IsLonger(longer, tails, Len(sent), b)
      BY <1>1, ThereIsLonger
    <3>4. AreTails(tails, sent) /\ wire \o more = Unread(tails, sent, Len(received), reader)
      BY <3>1 DEF Flow
    <3>5. b = Encoding(c) /\ IsLonger(longer, tails, Len(sent), Encoding(c))
      BY <2>2, <3>2, <3>3
    <3>6. longer \in [0..Len(sent') -> Seq(Byte)] /\ AreTails(longer, sent')
      <4>1. \A i \in 1..Len(sent) : Fits(sent[i])
        BY <1>12
      <4>2. longer \in [0..Len(Append(sent, c)) -> Seq(Byte)] /\ AreTails(longer, Append(sent, c))
        BY <1>1, <1>3, <2>2, <3>4, <3>5, <4>1, TailsGrow
      <4>. QED
        BY <1>4, <4>2
    <3>7. Len(received) \in 0..Len(sent) /\ (reader = "payload" => Len(received) < Len(sent))
      BY <1>1, <2>5, <2>7
    <3>8. Unread(longer, sent', Len(received), reader)
          = Unread(tails, sent, Len(received), reader) \o b
      <4>1. Unread(longer, Append(sent, c), Len(received), reader)
            = Unread(tails, sent, Len(received), reader) \o Encoding(c)
        <5>1. PICK r \in 0..Len(sent) : r = Len(received)
          BY <3>7
        <5>2. /\ sent \in Seq(Contents) /\ c \in Contents /\ Fits(c) /\ AreTails(tails, sent)
              /\ IsLonger(longer, tails, Len(sent), Encoding(c))
          BY <1>1, <1>3, <2>2, <3>4, <3>5
        <5>3. reader = "payload" => r < Len(sent)
          BY <3>7, <5>1
        <5>4. Grows(longer, tails, sent, c, r, reader)
          BY <5>2, <5>3, UnreadGrows
        <5>. QED
          BY <5>1, <5>4 DEF Grows
      <4>. QED
        BY <1>4, <3>5, <4>1
    <3>9. PICK x \in Seq(Byte) : x = more \o b
      BY ConcatProperties
    <3>10. wire' \o x = Unread(longer, sent', Len(received), reader)
      <4>1. (wire \o more) \o b = wire \o (more \o b)
        <5>1. PICK w \in Seq(Byte) : w = wire
          BY <2>2
        <5>2. Associates(w, more, b)
          BY Together
        <5>. QED
          BY <5>1, <5>2 DEF Associates
      <4>. QED
        BY <2>2, <3>4, <3>8, <3>9, <4>1
    <3>11. ~closed => x = Outgoing'
      <4>1. ~closed => more = <<>>
        BY <2>1, <3>1 DEF Flow, Outgoing
      <4>2. <<>> \o b = b
        BY ConcatEmptySeq
      <4>. QED
        BY <2>4, <3>2, <3>9, <4>1, <4>2
    <3>12. Flow(longer, x)'
      BY <1>4, <3>6, <3>10, <3>11 DEF Flow
    <3>. QED
      BY <3>6, <3>12
  <2>. QED
    BY <1>4, <2>4, <2>5, <2>6, <2>7, <2>8 DEF StreamIntact
<1>. QED
  BY <1>10, <1>11, <1>13, <1>14, <1>15 DEF Inv
-----------------------------------------------------------------------------
(* Steps of the network. *)

\* What the kernel takes of a write, and what it leaves.
LEMMA Taken ==
    ASSUME NEW b \in Seq(Byte), NEW n, n = (IF Len(b) < Chunk THEN Len(b) ELSE Chunk)
    PROVE  /\ n \in 0..Len(b)
           /\ SubSeq(b, 1, n) \in Seq(Byte) /\ SubSeq(b, n + 1, Len(b)) \in Seq(Byte)
           /\ SubSeq(b, 1, n) \o SubSeq(b, n + 1, Len(b)) = b
           /\ n = Len(b) => SubSeq(b, n + 1, Len(b)) = <<>>
<1>1. Len(b) \in Nat /\ Chunk \in Nat
  BY LenProperties, FramingConstants
<1>2. n \in 0..Len(b)
  BY <1>1
<1>3. /\ SubSeq(b, 1, n) \in Seq(Byte) /\ SubSeq(b, n + 1, Len(b)) \in Seq(Byte)
      /\ SubSeq(b, 1, n) \o SubSeq(b, n + 1, Len(b)) = b
  BY <1>2, Cut
<1>4. n = Len(b) => SubSeq(b, n + 1, Len(b)) = <<>>
  <2> DEFINE l == Len(b)
  <2>1. l \in Int /\ l + 1 \in Int /\ l < l + 1
    BY <1>1
  <2> HIDE DEF l
  <2>2. SubSeq(b, l + 1, l) = <<>>
    BY <2>1, SubSeqEmpty
  <2>. QED
    BY <2>2 DEF l
<1>. QED
  BY <1>2, <1>3, <1>4

LEMMA Removed ==
    ASSUME NEW S, NEW s \in Seq(S), NEW i \in 1..Len(s)
    PROVE  RemoveAt(s, i) \in Seq(S) /\ (Len(s) = 1 => RemoveAt(s, i) = <<>>)
<1>1. Len(s) \in Nat /\ \A j \in 1..Len(s) : s[j] \in S
  BY LenProperties, ElementOfSeq
<1>2. SubSeq(s, 1, i - 1) \in Seq(S) /\ SubSeq(s, i + 1, Len(s)) \in Seq(S)
  BY <1>1, SubSeqProperties
<1>3. SubSeq(s, 1, i - 1) \o SubSeq(s, i + 1, Len(s)) \in Seq(S)
  BY <1>2, ConcatProperties
<1>4. ASSUME Len(s) = 1 PROVE SubSeq(s, 1, i - 1) \o SubSeq(s, i + 1, Len(s)) = <<>>
  <2>1. i = 1 /\ i - 1 = 0 /\ i + 1 = 2
    BY <1>4
  <2>2. SubSeq(s, 1, 0) = <<>> /\ SubSeq(s, 2, 1) = <<>>
    BY SubSeqEmpty
  <2>3. <<>> \o <<>> = <<>>
    OBVIOUS
  <2>. QED
    BY <1>4, <2>1, <2>2, <2>3
<1>. QED
  BY <1>3, <1>4 DEF RemoveAt

LEMMA TransferKeepsInv == ASSUME Inv, NEW w \in DOMAIN writes, transfer(w) PROVE Inv'
<1> DEFINE b == writes[w]
           n == IF Len(b) < Chunk THEN Len(b) ELSE Chunk
           x == SubSeq(b, 1, n)
           y == SubSeq(b, n + 1, Len(b))
<1>1. /\ writes \in Seq(Seq(Byte)) /\ w \in 1..Len(writes) /\ Len(writes) \in Nat
      /\ transport \in {"tcp", "udp"}
  BY LenProperties, FramingConstants DEF Inv, Structure, TypeOK
<1>2. b \in Seq(Byte)
  BY <1>1, ElementOfSeq
<1>3. /\ ~closed /\ wire' = wire \o x
      /\ writes' = IF n = Len(b) THEN RemoveAt(writes, w) ELSE [writes EXCEPT ![w] = y]
      /\ UNCHANGED <<transport, ends, draft, edits, plain, reader, incoming, sent, broken,
                     received, closed>>
  BY DEF transfer, network, consts, program, history
<1> HIDE DEF b
<1>4. n \in 0..Len(b) /\ x \in Seq(Byte) /\ y \in Seq(Byte) /\ x \o y = b /\ (n = Len(b) => y = <<>>)
  BY <1>2, Taken
<1> HIDE DEF n, x, y
<1>5. writes' \in Seq(Seq(Byte))
  <2>1. RemoveAt(writes, w) \in Seq(Seq(Byte))
    BY <1>1, Removed
  <2>2. [writes EXCEPT ![w] = y] \in Seq(Seq(Byte))
    BY <1>1, <1>4, ExceptSeq
  <2>. QED
    BY <1>3, <2>1, <2>2
<1>6. transport = "tcp" /\ wire \in Seq(Byte)
  <2>1. ASSUME transport = "udp" PROVE FALSE
    <3>1. writes = <<>>
      BY <2>1 DEF Inv, Structure
    <3>2. Len(writes) = 0
      BY <3>1, EmptyIsSeq
    <3>. QED
      BY <1>1, <3>2
  <2>. QED
    BY <1>1, <2>1 DEF Inv, Structure, TypeOK
<1>7. wire' \in Seq(Byte)
  BY <1>3, <1>4, <1>6, ConcatProperties
<1>8. Structure'
  <2>1. \A v \in DOMAIN writes' : writes'[v] \in Seq(Byte)
    BY <1>5, ElementOfSeq, LenProperties
  <2>2. TypeOK'
    BY <1>3, <1>6, <1>7, <2>1 DEF Inv, Structure, TypeOK
  <2>. QED
    BY <1>3, <1>5, <1>6, <2>2 DEF Inv, Structure
<1>9. DraftIsPlain' /\ SentFit' /\ DatagramsIntact'
  BY <1>3, <1>6 DEF Inv, DraftIsPlain, IsPlain, SentFit, DatagramsIntact
<1>10. StreamIntact'
  <2> SUFFICES ASSUME ~broken PROVE StreamIntact'
    BY <1>3 DEF StreamIntact
  <2>1. StreamIntact
    BY DEF Inv
  <2>2. Len(writes) = 1 /\ w = 1 /\ b = writes[1] /\ writes # <<>>
    <3>1. Len(writes) <= 1
      BY <1>6, <2>1 DEF StreamIntact
    <3> DEFINE l == Len(writes)
    <3>2. l \in Nat /\ w \in 1..l /\ l <= 1
      BY <1>1, <3>1
    <3> HIDE DEF l
    <3>3. l = 1 /\ w = 1
      BY <3>2
    <3>. QED
      BY <3>3, EmptyIsSeq DEF b, l
  <2>3. Len(writes') <= 1 /\ Outgoing' = y
    <3>1. CASE n = Len(b)
      <4>1. writes' = <<>>
        BY <1>1, <1>3, <2>2, <3>1, Removed
      <4>2. Outgoing' = y
        BY <1>4, <3>1, <4>1 DEF Outgoing
      <4>. QED
        BY <4>1, <4>2, EmptyIsSeq
    <3>2. CASE n # Len(b)
      <4>1. writes' = [writes EXCEPT ![1] = y]
        BY <1>3, <2>2, <3>2
      <4>2. 1 \in 1..Len(writes)
        BY <2>2
      <4>3. Len([writes EXCEPT ![1] = y]) = Len(writes) /\ [writes EXCEPT ![1] = y][1] = y
        BY <1>1, <1>4, <4>2, ExceptSeq
      <4>4. Len(writes') = 1 /\ writes'[1] = y
        BY <2>2, <4>1, <4>3
      <4>5. writes' # <<>>
        BY <4>4, EmptyIsSeq
      <4>. QED
        BY <4>4, <4>5 DEF Outgoing
    <3>. QED
      BY <3>1, <3>2
  <2>4. \E tails \in [0..Len(sent') -> Seq(Byte)], more \in Seq(Byte) : Flow(tails, more)'
    <3>1. PICK tails \in [0..Len(sent) -> Seq(Byte)], more \in Seq(Byte) : Flow(tails, more)
      BY <1>6, <2>1 DEF StreamIntact
    <3>2. more = b /\ wire \o more = Unread(tails, sent, Len(received), reader) /\ AreTails(tails, sent)
      BY <1>3, <2>2, <3>1 DEF Flow, Outgoing
    <3>3. PICK p \in Seq(Byte), q \in Seq(Byte), r \in Seq(Byte) : p = wire /\ q = x /\ r = y
      BY <1>4, <1>6
    <3>4. (p \o q) \o r = p \o (q \o r)
      BY ConcatAssociative
    <3>5. wire' \o r = Unread(tails, sent, Len(received), reader)
      BY <1>3, <1>4, <3>2, <3>3, <3>4
    <3>6. Flow(tails, r)'
      BY <1>3, <2>3, <3>2, <3>3, <3>5 DEF Flow
    <3>. QED
      BY <1>3, <3>6
  <2>. QED
    BY <1>3, <1>6, <2>1, <2>3, <2>4 DEF StreamIntact
<1>. QED
  BY <1>8, <1>9, <1>10 DEF Inv

LEMMA CloseKeepsInv == ASSUME Inv, close PROVE Inv'
<1>1. /\ transport = "tcp" /\ closed' = TRUE /\ writes' = <<>>
      /\ UNCHANGED <<transport, ends, draft, edits, plain, reader, incoming, sent, broken,
                     received, wire>>
  BY DEF close, network, consts, program, history
<1>2. <<>> \in Seq(Seq(Byte)) /\ Len(<<>>) = 0 /\ DOMAIN <<>> = {}
  BY EmptyIsSeq
<1>3. Structure'
  BY <1>1, <1>2 DEF Inv, Structure, TypeOK
<1>4. DraftIsPlain' /\ SentFit' /\ DatagramsIntact'
  BY <1>1 DEF Inv, DraftIsPlain, IsPlain, SentFit, DatagramsIntact
<1>5. StreamIntact'
  <2> SUFFICES ASSUME ~broken PROVE StreamIntact'
    BY <1>1 DEF StreamIntact
  <2>1. \A tails, more : Flow(tails, more) => Flow(tails, more)'
    BY <1>1 DEF Flow
  <2>2. StreamIntact
    BY DEF Inv
  <2>3. \E tails \in [0..Len(sent') -> Seq(Byte)], more \in Seq(Byte) : Flow(tails, more)'
    BY <1>1, <2>1, <2>2 DEF StreamIntact
  <2>. QED
    BY <1>1, <1>2, <2>2, <2>3 DEF StreamIntact
<1>. QED
  BY <1>3, <1>4, <1>5 DEF Inv

\* Losing a datagram, or letting the next one overtake it, leaves datagrams
\* that were there.
LEMMA Reordered ==
    ASSUME NEW S, NEW s \in Seq(S), s # <<>>
    PROVE  /\ Head(s) \in S /\ Tail(s) \in Seq(S)
           /\ Len(s) > 1 => <<s[2], s[1]>> \o SubSeq(s, 3, Len(s)) \in Seq(S)
<1>1. Head(s) \in S /\ Tail(s) \in Seq(S)
  BY HeadTailProperties
<1>2. ASSUME Len(s) > 1 PROVE <<s[2], s[1]>> \o SubSeq(s, 3, Len(s)) \in Seq(S)
  <2>1. Len(s) \in Nat /\ \A j \in 1..Len(s) : s[j] \in S
    BY LenProperties, ElementOfSeq
  <2>2. SubSeq(s, 3, Len(s)) \in Seq(S)
    BY <2>1, SubSeqProperties
  <2>3. s[1] \in S /\ s[2] \in S
    BY <1>2, <2>1
  <2>4. <<s[2], s[1]>> \in Seq(S)
    BY <2>3
  <2>. QED
    BY <2>2, <2>4, ConcatProperties
<1>. QED
  BY <1>1, <1>2

LEMMA LoseKeepsInv == ASSUME Inv, lose PROVE Inv'
<1>1. /\ transport = "udp" /\ wire # <<>>
      /\ \/ wire' = Tail(wire)
         \/ Len(wire) > 1 /\ wire' = <<wire[2], wire[1]>> \o SubSeq(wire, 3, Len(wire))
      /\ UNCHANGED <<transport, ends, draft, edits, plain, reader, incoming, sent, broken,
                     received, writes, closed>>
  BY DEF lose, network, consts, program, history
<1>2. ASSUME NEW S, wire \in Seq(S) PROVE wire' \in Seq(S)
  BY <1>1, <1>2, Reordered
<1>3. wire \in Seq(Datagram) /\ wire \in Seq(Seq(Byte)) /\ (~broken => wire \in Seq(Encodings))
  BY <1>1 DEF Inv, Structure, TypeOK, DatagramsIntact
<1>4. wire' \in Seq(Datagram) /\ wire' \in Seq(Seq(Byte)) /\ (~broken => wire' \in Seq(Encodings))
  BY <1>2, <1>3
<1>5. Structure'
  BY <1>1, <1>4 DEF Inv, Structure, TypeOK
<1>6. DraftIsPlain' /\ SentFit' /\ StreamIntact'
  BY <1>1 DEF Inv, DraftIsPlain, IsPlain, SentFit, StreamIntact
<1>7. DatagramsIntact'
  BY <1>1, <1>4 DEF Inv, DatagramsIntact, Encodings
<1>. QED
  BY <1>5, <1>6, <1>7 DEF Inv
-----------------------------------------------------------------------------
(* Steps of the reader. *)

LEMMA HeaderReadType ==
    ASSUME ends.receiver \in BOOLEAN, NEW h \in Seq(Byte), Len(h) = LNET_HEADER_SIZE, HeaderRead(h)
    PROVE  /\ incoming' \in Message /\ incoming'.readPosition = 0
           /\ incoming'.type = TypeOf(h, ends.receiver)
           /\ incoming'.size = SizeOf(h, ends.receiver)
           /\ SizeOf(h, ends.receiver) \in Field
           /\ reader' = IF Resizable(SizeOf(h, ends.receiver)) THEN "payload" ELSE "dead"
           /\ reader' = "payload" =>
                 Len(incoming'.payload) = SizeOf(h, ends.receiver) - LNET_HEADER_SIZE
<1> DEFINE size == SizeOf(h, ends.receiver)   type == TypeOf(h, ends.receiver)
           m == [NewMessage(type) EXCEPT !.size = size]
<1>1. size \in Field /\ type \in Field
  <2>1. Len(h) >= LNET_HEADER_SIZE
    BY FieldFacts
  <2>. QED
    BY <2>1, FieldsOfHeader
<1>2. IF Resizable(size) THEN incoming' = setMsgSize(m, size) /\ reader' = "payload"
                         ELSE incoming' = m /\ reader' = "dead"
  BY DEF HeaderRead
<1> HIDE DEF size, type
<1>3. m \in Message /\ m.type = type /\ m.size = size /\ m.readPosition = 0
  BY <1>1, NewMessageType DEF Message
<1> HIDE DEF m
<1>4. CASE Resizable(size)
  <2>1. /\ setMsgSize(m, size) \in Message /\ setMsgSize(m, size).type = m.type
        /\ setMsgSize(m, size).size = size
        /\ setMsgSize(m, size).readPosition = m.readPosition
        /\ Len(setMsgSize(m, size).payload) = size - LNET_HEADER_SIZE
    BY <1>1, <1>3, <1>4, Resized
  <2>2. incoming' = setMsgSize(m, size) /\ reader' = "payload"
    BY <1>2, <1>4
  <2>. QED
    BY <1>1, <1>3, <1>4, <2>1, <2>2 DEF size, type
<1>5. CASE ~Resizable(size)
  BY <1>1, <1>2, <1>3, <1>5 DEF size, type
<1>. QED
  BY <1>4, <1>5

LEMMA HandedOverType ==
    ASSUME incoming \in Message, received \in Seq(Contents), NEW p \in Seq(Byte),
           HandedOver([incoming EXCEPT !.payload = p])
    PROVE  /\ incoming' \in Message /\ reader' = "header"
           /\ received' \in Seq(Contents) /\ Len(received') = Len(received) + 1
           /\ \A i \in 1..Len(received) : received'[i] = received[i]
           /\ received'[Len(received')] \in Contents
           /\ received'[Len(received')].type = incoming.type
           /\ incoming.readPosition = 0 => received'[Len(received')].rest = p
<1> DEFINE m == [incoming EXCEPT !.payload = p]   c == Content(m)
<1>1. m \in Message /\ m.type = incoming.type /\ m.readPosition = incoming.readPosition /\ m.payload = p
  BY DEF Message
<1>2. received' = Append(received, c) /\ incoming' = NewMessage(0) /\ reader' = "header"
  BY DEF HandedOver
<1> HIDE DEF m
<1>3. c \in Contents /\ c.type = incoming.type /\ (incoming.readPosition = 0 => c.rest = p)
  BY <1>1, RestType
<1> HIDE DEF c
<1>4. incoming' \in Message
  BY <1>2, FieldFacts, NewMessageType
<1>5. /\ received' \in Seq(Contents) /\ Len(received') = Len(received) + 1
      /\ \A i \in 1..Len(received) : received'[i] = received[i]
      /\ received'[Len(received) + 1] = c
  BY <1>2, <1>3, AppendProperties
<1>. QED
  BY <1>2, <1>3, <1>4, <1>5

\* Two splits of the same bytes that cut at the same place agree.
SplitsAlike(h, x, more, d, q, t) ==
    Len(h) = Len(d) /\ (h \o x) \o more = (d \o q) \o t => h = d /\ x \o more = q \o t

LEMMA SameHeads ==
    ASSUME NEW h \in Seq(Byte), NEW x \in Seq(Byte), NEW more \in Seq(Byte),
           NEW d \in Seq(Byte), NEW q \in Seq(Byte), NEW t \in Seq(Byte)
    PROVE  SplitsAlike(h, x, more, d, q, t)
<1>1. Associates(h, x, more) /\ Associates(d, q, t)
  BY Together
<1>2. PICK a \in Seq(Byte) : a = x \o more
  BY ConcatProperties
<1>3. PICK b \in Seq(Byte) : b = q \o t
  BY ConcatProperties
<1>4. Len(h) = Len(d) /\ h \o a = d \o b => h = d /\ a = b
  BY SameCut
<1>. QED
  BY <1>1, <1>2, <1>3, <1>4 DEF Associates, SplitsAlike

\* The bytes of the next message are first in what is to be read.
LEMMA NextUnread ==
    ASSUME NEW s \in Seq(Contents), \A i \in 1..Len(s) : Fits(s[i]),
           NEW tails, AreTails(tails, s), NEW r \in 0..Len(s), NEW w \in Seq(Byte), NEW more \in Seq(Byte),
           Len(w) >= LNET_HEADER_SIZE, w \o more = tails[r]
    PROVE  /\ r < Len(s) /\ s[r + 1] \in Contents /\ Fits(s[r + 1])
           /\ SubSeq(w, 1, LNET_HEADER_SIZE) = HeaderOf(s[r + 1])
           /\ SubSeq(w, LNET_HEADER_SIZE + 1, Len(w)) \o more = s[r + 1].rest \o tails[r + 1]
<1> DEFINE H == LNET_HEADER_SIZE
<1>1. Len(s) \in Nat /\ Len(w) \in Nat /\ H \in Nat /\ H > 0 /\ H \in 0..Len(w)
  BY LenProperties, FieldFacts
<1>2. r < Len(s)
  <2>1. ASSUME r = Len(s) PROVE FALSE
    <3>1. w \o more = <<>>
      BY <2>1 DEF AreTails
    <3>2. Len(w \o more) = Len(w) + Len(more) /\ Len(more) \in Nat /\ Len(<<>>) = 0
      BY ConcatProperties, LenProperties, EmptyIsSeq
    <3>. QED
      BY <1>1, <3>1, <3>2
  <2>. QED
    BY <1>1, <2>1
<1>3. r + 1 \in 1..Len(s) /\ (r + 1) - 1 = r
  BY <1>1, <1>2
<1> DEFINE c == s[r + 1]   t == tails[r + 1]   h == SubSeq(w, 1, H)   x == SubSeq(w, H + 1, Len(w))
           d == HeaderOf(c)   q == c.rest
<1>4. c \in Contents /\ Fits(c)
  BY <1>3, ElementOfSeq
<1>5. tails[r] = Encoding(c) \o t /\ t \in Seq(Byte)
  <2>1. r + 1 \in 0..Len(s)
    BY <1>1, <1>3
  <2>. QED
    BY <1>3, <2>1 DEF AreTails
<1> HIDE DEF c, t
<1>6. d \in Seq(Byte) /\ Len(d) = H /\ q \in Seq(Byte) /\ Encoding(c) = d \o q
  BY <1>4, EncodingType DEF Encoding
<1>7. h \in Seq(Byte) /\ Len(h) = H /\ x \in Seq(Byte) /\ h \o x = w
  BY <1>1, Cut
<1> HIDE DEF h, x, d, q, H
<1>8. (h \o x) \o more = (d \o q) \o t
  BY <1>5, <1>6, <1>7
<1>9. Len(h) = Len(d)
  BY <1>6, <1>7
<1>10. /\ h \in Seq(Byte) /\ x \in Seq(Byte)
       /\ d \in Seq(Byte) /\ q \in Seq(Byte) /\ t \in Seq(Byte)
  BY <1>5, <1>6, <1>7
<1>11. h = d /\ x \o more = q \o t
  <2>1. SplitsAlike(h, x, more, d, q, t)
    BY <1>10, SameHeads
  <2>. QED
    BY <1>8, <1>9, <2>1 DEF SplitsAlike
<1>. QED
  BY <1>2, <1>4, <1>11 DEF c, t, h, x, d, q, H

LEMMA ReadHeaderTCPKeepsInv == ASSUME Inv, readHeaderTCP PROVE Inv'
<1> DEFINE h == SubSeq(wire, 1, LNET_HEADER_SIZE)
           x == SubSeq(wire, LNET_HEADER_SIZE + 1, Len(wire))
<1>1. /\ transport = "tcp" /\ reader = "header" /\ Len(wire) >= LNET_HEADER_SIZE
      /\ HeaderRead(h) /\ wire' = x
      /\ UNCHANGED <<transport, ends, draft, edits, plain, writes, closed, sent, broken, received>>
  BY DEF readHeaderTCP, reading, consts, program, history
<1>2. wire \in Seq(Byte) /\ ends.receiver \in BOOLEAN /\ LNET_HEADER_SIZE \in 0..Len(wire)
  <2>1. wire \in Seq(Byte) /\ ends.receiver \in BOOLEAN
    BY <1>1, SystemsAreBoolean DEF Inv, Structure, TypeOK
  <2>2. Len(wire) \in Nat /\ LNET_HEADER_SIZE \in Nat
    BY <2>1, LenProperties, FieldFacts
  <2>. QED
    BY <1>1, <2>1, <2>2
<1>3. h \in Seq(Byte) /\ Len(h) = LNET_HEADER_SIZE /\ x \in Seq(Byte)
  BY <1>2, Cut
<1> HIDE DEF h, x
<1>4. /\ incoming' \in Message /\ incoming'.readPosition = 0
      /\ incoming'.type = TypeOf(h, ends.receiver) /\ incoming'.size = SizeOf(h, ends.receiver)
      /\ reader' = IF Resizable(SizeOf(h, ends.receiver)) THEN "payload" ELSE "dead"
  BY <1>1, <1>2, <1>3, HeaderReadType
<1>5. Structure'
  <2>1. TypeOK'
    BY <1>1, <1>3, <1>4 DEF Inv, Structure, TypeOK
  <2>2. reader' = "payload" => incoming'.size >= LNET_HEADER_SIZE
    BY <1>4, SizeCounts DEF Message
  <2>. QED
    BY <1>1, <1>4, <2>1, <2>2 DEF Inv, Structure
<1>6. DraftIsPlain' /\ SentFit' /\ DatagramsIntact'
  BY <1>1 DEF Inv, DraftIsPlain, IsPlain, SentFit, DatagramsIntact
<1>7. StreamIntact'
  <2> SUFFICES ASSUME ~broken PROVE StreamIntact'
    BY <1>1 DEF StreamIntact
  <2>1. StreamIntact /\ \A i \in 1..Len(sent) : Fits(sent[i]) /\ Countable(sent[i])
    BY DEF Inv, SentFit
  <2>2. /\ sent \in Seq(Contents) /\ Len(sent) \in Nat /\ Len(received) \in Nat
        /\ Len(received) <= Len(sent)
    BY <1>1, <2>1, LenProperties DEF Inv, Structure, TypeOK, StreamIntact
  <2>3. PICK tails \in [0..Len(sent) -> Seq(Byte)], more \in Seq(Byte) : Flow(tails, more)
    BY <1>1, <2>1 DEF StreamIntact
  <2>4. PICK r \in 0..Len(sent) : r = Len(received)
    BY <2>2
  <2>5. PICK w \in Seq(Byte) : w = wire
    BY <1>2
  <2>6. AreTails(tails, sent) /\ w \o more = tails[r]
    BY <1>1, <2>3, <2>4, <2>5 DEF Flow, Unread
  <2>7. /\ r < Len(sent) /\ sent[r + 1] \in Contents /\ Fits(sent[r + 1])
        /\ SubSeq(w, 1, LNET_HEADER_SIZE) = HeaderOf(sent[r + 1])
        /\ SubSeq(w, LNET_HEADER_SIZE + 1, Len(w)) \o more = sent[r + 1].rest \o tails[r + 1]
    <3>1. Len(w) >= LNET_HEADER_SIZE
      BY <1>1, <2>5
    <3>. QED
      BY <2>1, <2>2, <2>6, <3>1, NextUnread
  <2>8. h = HeaderOf(sent[r + 1]) /\ wire' \o more = sent[r + 1].rest \o tails[r + 1]
    BY <1>1, <2>5, <2>7 DEF h, x
  <2>9. /\ TypeOf(h, ends.receiver) = sent[r + 1].type
        /\ SizeOf(h, ends.receiver) = LNET_HEADER_SIZE + Len(sent[r + 1].rest)
    BY <1>2, <2>7, <2>8, HeaderSays
  <2>10. reader' = "payload"
    <3>1. r + 1 \in 1..Len(sent)
      BY <2>2, <2>7
    <3>2. Countable(sent[r + 1])
      BY <2>1, <3>1
    <3>. QED
      BY <1>4, <2>9, <3>2 DEF Countable
  <2>11. Flow(tails, more)'
    <3>1. Unread(tails, sent', Len(received'), reader') = sent[r + 1].rest \o tails[r + 1]
      BY <1>1, <2>4, <2>10 DEF Unread
    <3>. QED
      BY <1>1, <2>3, <2>6, <2>8, <3>1 DEF Flow, Outgoing
  <2>12. \E t \in [0..Len(sent') -> Seq(Byte)], m \in Seq(Byte) : Flow(t, m)'
    BY <1>1, <2>11
  <2>13. /\ Len(received') < Len(sent')
         /\ incoming'.type = sent'[Len(received') + 1].type
         /\ incoming'.size = LNET_HEADER_SIZE + Len(sent'[Len(received') + 1].rest)
    BY <1>1, <1>4, <2>4, <2>7, <2>9
  <2>. QED
    BY <1>1, <2>1, <2>10, <2>12, <2>13 DEF StreamIntact
<1>. QED
  BY <1>5, <1>6, <1>7 DEF Inv

LEMMA ReadPayloadTCPType ==
    ASSUME Inv, readPayloadTCP
    PROVE  /\ transport = "tcp" /\ reader = "payload"
           /\ incoming.size - LNET_HEADER_SIZE \in 0..Len(wire)
           /\ HandedOver([incoming EXCEPT
                             !.payload = SubSeq(wire, 1, incoming.size - LNET_HEADER_SIZE)])
           /\ wire \in Seq(Byte) /\ incoming \in Message /\ received \in Seq(Contents)
           /\ incoming.readPosition = 0
           /\ wire' = SubSeq(wire, (incoming.size - LNET_HEADER_SIZE) + 1, Len(wire))
           /\ UNCHANGED <<transport, ends, draft, edits, plain, writes, closed, sent, broken>>
<1>1. /\ transport = "tcp" /\ reader = "payload" /\ Len(wire) >= incoming.size - LNET_HEADER_SIZE
      /\ HandedOver([incoming EXCEPT
                        !.payload = SubSeq(wire, 1, incoming.size - LNET_HEADER_SIZE)])
      /\ wire' = SubSeq(wire, (incoming.size - LNET_HEADER_SIZE) + 1, Len(wire))
      /\ UNCHANGED <<transport, ends, draft, edits, plain, writes, closed, sent, broken>>
  BY DEF readPayloadTCP, reading, consts, program, history
<1>2. /\ wire \in Seq(Byte) /\ incoming \in Message /\ received \in Seq(Contents)
      /\ incoming.size >= LNET_HEADER_SIZE /\ incoming.readPosition = 0
  BY <1>1 DEF Inv, Structure, TypeOK
<1>3. incoming.size \in Nat /\ LNET_HEADER_SIZE \in Nat /\ Len(wire) \in Nat
  BY <1>2, FieldFacts, LenProperties DEF Message
<1>4. incoming.size - LNET_HEADER_SIZE \in 0..Len(wire)
  BY <1>1, <1>2, <1>3
<1>. QED
  BY <1>1, <1>2, <1>4

\* The payload that is handed over is that of the next message sent.
LEMMA PayloadIsNext ==
    ASSUME Inv, readPayloadTCP, ~broken
    PROVE  /\ Len(received') = Len(received) + 1 /\ Len(received) < Len(sent)
           /\ received'[Len(received) + 1] = sent[Len(received) + 1]
           /\ \E tails \in [0..Len(sent) -> Seq(Byte)], more \in Seq(Byte) :
                 /\ AreTails(tails, sent) /\ wire' \o more = tails[Len(received) + 1]
                 /\ ~closed => more = Outgoing
<1> DEFINE n == incoming.size - LNET_HEADER_SIZE
           p == SubSeq(wire, 1, n)
           y == SubSeq(wire, n + 1, Len(wire))
<1>1. /\ transport = "tcp" /\ reader = "payload" /\ n \in 0..Len(wire)
      /\ HandedOver([incoming EXCEPT !.payload = p])
      /\ wire \in Seq(Byte) /\ incoming \in Message /\ received \in Seq(Contents)
      /\ incoming.readPosition = 0
      /\ wire' = y
      /\ UNCHANGED <<transport, ends, draft, edits, plain, writes, closed, sent, broken>>
  BY ReadPayloadTCPType
<1> HIDE DEF n
<1>2. p \in Seq(Byte) /\ Len(p) = n /\ y \in Seq(Byte) /\ p \o y = wire
  BY <1>1, Cut
<1> HIDE DEF p, y
<1>3. StreamIntact /\ \A i \in 1..Len(sent) : Fits(sent[i])
  BY DEF Inv, SentFit
<1>4. sent \in Seq(Contents) /\ Len(sent) \in Nat /\ Len(received) \in Nat
  BY LenProperties DEF Inv, Structure, TypeOK
<1>5. PICK r \in Nat : r = Len(received)
  BY <1>4
<1>6. /\ r < Len(sent) /\ incoming.type = sent[r + 1].type
      /\ incoming.size = LNET_HEADER_SIZE + Len(sent[r + 1].rest)
  BY <1>1, <1>3, <1>5 DEF StreamIntact
<1>7. r + 1 \in 1..Len(sent)
  BY <1>4, <1>6
<1>8. PICK c \in Contents : c = sent[r + 1] /\ Fits(c)
  BY <1>3, <1>4, <1>7, ElementOfSeq
<1>9. c.rest \in Seq(Byte) /\ Len(c.rest) = n
  <2>1. Len(c.rest) \in Nat /\ LNET_HEADER_SIZE \in Nat /\ c.rest \in Seq(Byte)
    BY <1>8, EncodingType, FieldFacts
  <2>. QED
    BY <1>6, <1>8, <2>1 DEF n
<1>10. PICK tails \in [0..Len(sent) -> Seq(Byte)], more \in Seq(Byte) : Flow(tails, more)
  BY <1>1, <1>3 DEF StreamIntact
<1>11. wire \o more = c.rest \o tails[r + 1]
  BY <1>1, <1>5, <1>8, <1>10 DEF Flow, Unread
<1>12. p = c.rest /\ y \o more = tails[r + 1]
  <2> DEFINE q == c.rest   t == tails[r + 1]
  <2>1. p \in Seq(Byte) /\ y \in Seq(Byte) /\ q \in Seq(Byte) /\ t \in Seq(Byte) /\ Len(p) = Len(q)
    <3>1. r + 1 \in 0..Len(sent)
      BY <1>4, <1>7
    <3>. QED
      BY <1>2, <1>9, <3>1
  <2>2. wire \o more = q \o t
    BY <1>11
  <2> HIDE DEF q, t
  <2>3. Associates(p, y, more)
    BY <2>1, Together
  <2>4. PICK z \in Seq(Byte) : z = y \o more
    BY <2>1, ConcatProperties
  <2>5. p \o z = q \o t
    BY <1>2, <2>2, <2>3, <2>4 DEF Associates
  <2>6. p = q /\ z = t
    BY <2>1, <2>4, <2>5, SameCut
  <2>. QED
    BY <2>4, <2>6 DEF q, t
<1>13. /\ Len(received') = r + 1 /\ received'[Len(received')] \in Contents
       /\ received'[Len(received')].type = incoming.type
       /\ received'[Len(received')].rest = p
  BY <1>1, <1>2, <1>5, HandedOverType
<1>14. received'[r + 1] = c
  <2>1. PICK d \in Contents : d = received'[Len(received')]
    BY <1>13
  <2>2. d.type = c.type /\ d.rest = c.rest
    BY <1>6, <1>8, <1>12, <1>13, <2>1
  <2>3. d = c
    BY <2>2 DEF Contents
  <2>. QED
    BY <1>13, <2>1, <2>3
<1>15. /\ AreTails(tails, sent) /\ wire' \o more = tails[r + 1]
       /\ ~closed => more = Outgoing
  BY <1>1, <1>10, <1>12 DEF Flow
<1>. QED
  BY <1>5, <1>6, <1>8, <1>13, <1>14, <1>15

LEMMA ReadPayloadTCPKeepsInv == ASSUME Inv, readPayloadTCP PROVE Inv'
<1> DEFINE n == incoming.size - LNET_HEADER_SIZE
           p == SubSeq(wire, 1, n)
           y == SubSeq(wire, n + 1, Len(wire))
<1>1. /\ transport = "tcp" /\ reader = "payload" /\ n \in 0..Len(wire)
      /\ HandedOver([incoming EXCEPT !.payload = p])
      /\ wire \in Seq(Byte) /\ incoming \in Message /\ received \in Seq(Contents)
      /\ wire' = y
      /\ UNCHANGED <<transport, ends, draft, edits, plain, writes, closed, sent, broken>>
  BY ReadPayloadTCPType
<1>2. p \in Seq(Byte) /\ y \in Seq(Byte)
  BY <1>1, Cut
<1> HIDE DEF n, p, y
<1>3. /\ incoming' \in Message /\ reader' = "header"
      /\ received' \in Seq(Contents) /\ Len(received') = Len(received) + 1
      /\ \A i \in 1..Len(received) : received'[i] = received[i]
  BY <1>1, <1>2, HandedOverType
<1>4. Structure'
  <2>1. TypeOK'
    BY <1>1, <1>2, <1>3 DEF Inv, Structure, TypeOK
  <2>. QED
    BY <1>1, <1>3, <2>1 DEF Inv, Structure
<1>5. DraftIsPlain' /\ SentFit' /\ DatagramsIntact'
  BY <1>1 DEF Inv, DraftIsPlain, IsPlain, SentFit, DatagramsIntact
<1>6. StreamIntact'
  <2> SUFFICES ASSUME ~broken PROVE StreamIntact'
    BY <1>1 DEF StreamIntact
  <2>1. StreamIntact
    BY DEF Inv
  <2>2. Len(sent) \in Nat /\ Len(received) \in Nat
    BY <1>1, LenProperties DEF Inv, Structure, TypeOK
  <2>3. /\ Len(received) < Len(sent) /\ received'[Len(received) + 1] = sent[Len(received) + 1]
        /\ \E tails \in [0..Len(sent) -> Seq(Byte)], more \in Seq(Byte) :
              /\ AreTails(tails, sent) /\ wire' \o more = tails[Len(received) + 1]
              /\ ~closed => more = Outgoing
    BY PayloadIsNext
  <2>4. Len(received') <= Len(sent')
    BY <1>1, <1>3, <2>2, <2>3
  <2>5. ASSUME NEW i \in 1..Len(received') PROVE received'[i] = sent'[i]
    <3>1. CASE i \in 1..Len(received)
      BY <1>1, <1>3, <2>1, <3>1 DEF StreamIntact
    <3>2. CASE i \notin 1..Len(received)
      <4>1. i = Len(received) + 1
        BY <1>3, <2>2, <3>2
      <4>. QED
        BY <1>1, <2>3, <4>1
    <3>. QED
      BY <3>1, <3>2
  <2>6. \E tails \in [0..Len(sent') -> Seq(Byte)], more \in Seq(Byte) : Flow(tails, more)'
    <3>1. PICK tails \in [0..Len(sent) -> Seq(Byte)], more \in Seq(Byte) :
              /\ AreTails(tails, sent) /\ wire' \o more = tails[Len(received) + 1]
              /\ ~closed => more = Outgoing
      BY <2>3
    <3>2. Unread(tails, sent', Len(received'), reader') = tails[Len(received) + 1]
      BY <1>3 DEF Unread
    <3>3. Flow(tails, more)'
      BY <1>1, <3>1, <3>2 DEF Flow, Outgoing
    <3>. QED
      BY <1>1, <3>3
  <2>. QED
    BY <1>1, <1>3, <2>1, <2>4, <2>5, <2>6 DEF StreamIntact
<1>. QED
  BY <1>4, <1>5, <1>6 DEF Inv

LEMMA ReadFailsKeepsInv == ASSUME Inv, readFails PROVE Inv'
<1>1. /\ transport = "tcp" /\ closed /\ wire' = <<>> /\ incoming' = NewMessage(0)
      /\ reader' = "header"
      /\ UNCHANGED <<transport, ends, draft, edits, plain, writes, closed, sent, broken, received>>
  BY DEF readFails, reading, consts, program, history
<1>2. <<>> \in Seq(Byte) /\ incoming' \in Message
  BY <1>1, EmptyIsSeq, FieldFacts, NewMessageType
<1>3. Structure'
  <2>1. TypeOK'
    BY <1>1, <1>2 DEF Inv, Structure, TypeOK
  <2>. QED
    BY <1>1, <2>1 DEF Inv, Structure
<1>4. DraftIsPlain' /\ SentFit' /\ DatagramsIntact'
  BY <1>1 DEF Inv, DraftIsPlain, IsPlain, SentFit, DatagramsIntact
<1>5. StreamIntact'
  <2> SUFFICES ASSUME ~broken PROVE StreamIntact'
    BY <1>1 DEF StreamIntact
  <2>1. StreamIntact
    BY DEF Inv
  <2>2. Len(sent) \in Nat /\ Len(received) \in Nat /\ Len(received) <= Len(sent)
    BY <1>1, <2>1, LenProperties DEF Inv, Structure, TypeOK, StreamIntact
  <2>3. PICK tails \in [0..Len(sent) -> Seq(Byte)], more \in Seq(Byte) : Flow(tails, more)
    BY <1>1, <2>1 DEF StreamIntact
  <2>4. PICK left \in Seq(Byte) : left = tails[Len(received)]
    BY <2>2
  <2>5. wire' \o left = Unread(tails, sent', Len(received'), reader')
    BY <1>1, <2>4, ConcatEmptySeq DEF Unread
  <2>6. Flow(tails, left)'
    BY <1>1, <2>3, <2>5 DEF Flow
  <2>. QED
    BY <1>1, <2>1, <2>6 DEF StreamIntact
<1>. QED
  BY <1>3, <1>4, <1>5 DEF Inv

\* Taking a datagram, or a copy of it, leaves datagrams that were there.
LEMMA TakesKeeps ==
    ASSUME NEW S, wire \in Seq(S), wire # <<>>, Takes
    PROVE  Head(wire) \in S /\ wire' \in Seq(S)
BY Reordered DEF Takes

\* The header of a datagram that was sent.
LEMMA HeaderOfSent ==
    ASSUME NEW c \in Contents, Fits(c)
    PROVE  /\ SubSeq(Encoding(c), 1, LNET_HEADER_SIZE) = HeaderOf(c)
           /\ Len(Encoding(c)) > LNET_HEADER_SIZE \/ Len(c.rest) = 0
<1> DEFINE h == HeaderOf(c)   q == c.rest
<1>1. /\ h \in Seq(Byte) /\ Len(h) = LNET_HEADER_SIZE /\ q \in Seq(Byte) /\ Len(q) \in Nat
      /\ Len(Encoding(c)) = LNET_HEADER_SIZE + Len(q)
  BY EncodingType
<1>2. Encoding(c) = h \o q
  BY DEF Encoding
<1> HIDE DEF h, q
<1>3. SubSeq(h \o q, 1, Len(h)) = h
  <2>1. h \in Seq(Byte) /\ q \in Seq(Byte)
    BY <1>1
  <2>. QED
    BY <2>1, CutConcat
<1>4. Len(Encoding(c)) > LNET_HEADER_SIZE \/ Len(q) = 0
  BY <1>1, FieldFacts
<1>. QED
  BY <1>1, <1>2, <1>3, <1>4 DEF h, q

LEMMA ReadHeaderUDPKeepsInv == ASSUME Inv, readHeaderUDP PROVE Inv'
<1> DEFINE d == Head(wire)   h == SubSeq(d, 1, LNET_HEADER_SIZE)
<1>1. /\ transport = "udp" /\ reader = "header" /\ wire # <<>> /\ Takes
      /\ IF Len(d) > LNET_HEADER_SIZE /\ Truncates = "error"
         THEN UNCHANGED <<reader, incoming>> ELSE HeaderRead(h)
      /\ UNCHANGED <<transport, ends, draft, edits, plain, writes, closed, sent, broken, received>>
  BY DEF readHeaderUDP, reading, consts, program, history
<1>2. /\ wire \in Seq(Datagram) /\ wire \in Seq(Seq(Byte))
      /\ incoming \in Message /\ ends.receiver \in BOOLEAN
  BY <1>1, SystemsAreBoolean DEF Inv, Structure, TypeOK
<1>3. d \in Datagram /\ wire' \in Seq(Datagram) /\ wire' \in Seq(Seq(Byte))
  BY <1>1, <1>2, TakesKeeps
<1> HIDE DEF d
<1>4. d \in Seq(Byte) /\ Len(d) >= LNET_HEADER_SIZE
  BY <1>3 DEF Datagram
<1>5. h \in Seq(Byte) /\ Len(h) = LNET_HEADER_SIZE
  BY <1>2, <1>4, FieldsOfHeader
<1> HIDE DEF h
<1>6. ASSUME HeaderRead(h)
      PROVE  /\ incoming' \in Message /\ incoming'.readPosition = 0
             /\ incoming'.type = TypeOf(h, ends.receiver)
             /\ incoming'.size = SizeOf(h, ends.receiver)
             /\ reader' = IF Resizable(SizeOf(h, ends.receiver)) THEN "payload" ELSE "dead"
             /\ reader' = "payload" =>
                   Len(incoming'.payload) = SizeOf(h, ends.receiver) - LNET_HEADER_SIZE
  BY <1>2, <1>5, <1>6, HeaderReadType
<1>7. \/ UNCHANGED <<reader, incoming>>
      \/ HeaderRead(h) /\ (Truncates = "error" => ~(Len(d) > LNET_HEADER_SIZE))
  BY <1>1
<1>8. incoming' \in Message /\ reader' \in {"header", "payload", "dead"}
  BY <1>1, <1>2, <1>6, <1>7
<1>9. reader' = "payload" => incoming'.size >= LNET_HEADER_SIZE /\ incoming'.readPosition = 0
  <2>1. CASE UNCHANGED <<reader, incoming>>
    BY <1>1, <2>1
  <2>2. CASE HeaderRead(h)
    BY <1>6, <2>2, SizeCounts DEF Message
  <2>. QED
    BY <1>7, <2>1, <2>2
<1>10. Structure'
  <2>1. TypeOK'
    BY <1>1, <1>3, <1>8 DEF Inv, Structure, TypeOK
  <2>. QED
    BY <1>1, <1>3, <1>9, <2>1 DEF Inv, Structure
<1>11. DraftIsPlain' /\ SentFit' /\ StreamIntact'
  BY <1>1 DEF Inv, DraftIsPlain, IsPlain, SentFit, StreamIntact
<1>12. DatagramsIntact'
  <2> SUFFICES ASSUME ~broken PROVE DatagramsIntact'
    BY <1>1 DEF DatagramsIntact
  <2>1. DatagramsIntact /\ \A i \in 1..Len(sent) : Fits(sent[i]) /\ Countable(sent[i])
    BY DEF Inv, SentFit
  <2>2. wire \in Seq(Encodings)
    BY <1>1, <2>1 DEF DatagramsIntact
  <2>3. d \in Encodings /\ wire' \in Seq(Encodings)
    BY <1>1, <2>2, TakesKeeps DEF d
  <2>4. PICK j \in 1..Len(sent) : d = Encoding(sent[j])
    BY <2>3 DEF Encodings
  <2>5. PICK c \in Contents : c = sent[j] /\ Fits(c)
    <3>1. sent \in Seq(Contents)
      BY DEF Inv, Structure, TypeOK
    <3>. QED
      BY <2>1, <3>1, ElementOfSeq
  <2>6. h = HeaderOf(c) /\ (Len(d) > LNET_HEADER_SIZE \/ Len(c.rest) = 0)
    BY <2>4, <2>5, HeaderOfSent DEF h
  <2>7. TypeOf(h, ends.receiver) = c.type /\ SizeOf(h, ends.receiver) = LNET_HEADER_SIZE + Len(c.rest)
    BY <1>2, <2>5, <2>6, HeaderSays
  <2>8. Len(c.rest) \in Nat /\ LNET_HEADER_SIZE \in Nat
    BY <2>5, EncodingType, FieldFacts
  <2>9. Resizable(SizeOf(h, ends.receiver))
    <3>1. Countable(c)
      BY <2>1, <2>5
    <3>. QED
      BY <2>7, <3>1 DEF Countable
  <2>10. reader' # "dead"
    BY <1>1, <1>6, <1>7, <2>9
  <2>11. ASSUME Truncates = "error", reader' = "payload"
         PROVE  /\ Len(incoming'.payload) = 0
                /\ \E k \in 1..Len(sent) : sent[k].type = incoming'.type /\ Len(sent[k].rest) = 0
    <3>1. HeaderRead(h) /\ ~(Len(d) > LNET_HEADER_SIZE)
      BY <1>1, <1>7, <2>11
    <3>2. Len(c.rest) = 0
      BY <2>6, <3>1
    <3>3. incoming'.type = c.type /\ Len(incoming'.payload) = (LNET_HEADER_SIZE + Len(c.rest)) - LNET_HEADER_SIZE
      BY <1>6, <2>7, <2>11, <3>1
    <3>4. Len(incoming'.payload) = 0
      BY <2>8, <3>2, <3>3
    <3>. QED
      BY <2>5, <3>2, <3>3, <3>4
  <2>12. wire' \in Seq(Encodings')
    BY <1>1, <2>3 DEF Encodings
  <2>13. Truncates = "error" =>
             \A i \in 1..Len(received) : \E k \in 1..Len(sent) : received[i] = sent[k]
    BY <1>1, <2>1 DEF DatagramsIntact
  <2>. QED
    BY <1>1, <2>10, <2>11, <2>12, <2>13 DEF DatagramsIntact
<1>. QED
  BY <1>10, <1>11, <1>12 DEF Inv

LEMMA ReadPayloadUDPKeepsInv == ASSUME Inv, readPayloadUDP PROVE Inv'
<1> DEFINE d == Head(wire)   n == Len(incoming.payload)
           p == [i \in 1..n |-> IF i <= Len(d) THEN d[i] ELSE 0]
<1>1. /\ transport = "udp" /\ reader = "payload" /\ wire # <<>> /\ Takes
      /\ HandedOver([incoming EXCEPT !.payload = p])
      /\ UNCHANGED <<transport, ends, draft, edits, plain, writes, closed, sent, broken>>
  BY DEF readPayloadUDP, reading, consts, program, history
<1>2. /\ wire \in Seq(Datagram) /\ wire \in Seq(Seq(Byte))
      /\ incoming \in Message /\ received \in Seq(Contents) /\ incoming.readPosition = 0
  BY <1>1 DEF Inv, Structure, TypeOK
<1>3. d \in Datagram /\ wire' \in Seq(Datagram) /\ wire' \in Seq(Seq(Byte))
  BY <1>1, <1>2, TakesKeeps
<1>4. p \in Seq(Byte) /\ Len(p) = n
  <2>1. n \in Nat /\ d \in Seq(Byte) /\ Len(d) \in Nat /\ 0 \in Byte
    BY <1>2, <1>3, RestType, LenProperties, FieldFacts DEF Datagram
  <2> HIDE DEF d, n
  <2>2. \A i \in 1..Len(d) : d[i] \in Byte
    BY <2>1, ElementOfSeq
  <2>3. \A i \in 1..n : (IF i <= Len(d) THEN d[i] ELSE 0) \in Byte
    BY <2>1, <2>2
  <2>. QED
    BY <2>1, <2>3
<1> HIDE DEF d, p
<1>5. /\ incoming' \in Message /\ reader' = "header"
      /\ received' \in Seq(Contents) /\ Len(received') = Len(received) + 1
      /\ \A i \in 1..Len(received) : received'[i] = received[i]
      /\ received'[Len(received')] \in Contents
      /\ received'[Len(received')].type = incoming.type
      /\ received'[Len(received')].rest = p
  BY <1>1, <1>2, <1>4, HandedOverType
<1>6. Structure'
  <2>1. TypeOK'
    BY <1>1, <1>3, <1>5 DEF Inv, Structure, TypeOK
  <2>. QED
    BY <1>1, <1>3, <1>5, <2>1 DEF Inv, Structure
<1>7. DraftIsPlain' /\ SentFit' /\ StreamIntact'
  BY <1>1 DEF Inv, DraftIsPlain, IsPlain, SentFit, StreamIntact
<1>8. DatagramsIntact'
  <2> SUFFICES ASSUME ~broken PROVE DatagramsIntact'
    BY <1>1 DEF DatagramsIntact
  <2>1. DatagramsIntact
    BY DEF Inv
  <2>2. wire \in Seq(Encodings)
    BY <1>1, <2>1 DEF DatagramsIntact
  <2>3. wire' \in Seq(Encodings)
    BY <1>1, <2>2, TakesKeeps
  <2>4. wire' \in Seq(Encodings')
    BY <1>1, <2>3 DEF Encodings
  <2>5. ASSUME Truncates = "error", NEW i \in 1..Len(received')
        PROVE  \E j \in 1..Len(sent) : received'[i] = sent[j]
    <3>1. CASE i \in 1..Len(received)
      BY <1>1, <1>5, <2>1, <2>5, <3>1 DEF DatagramsIntact
    <3>2. CASE i \notin 1..Len(received)
      <4>1. i = Len(received')
        <5>1. Len(received) \in Nat
          BY <1>2, LenProperties
        <5>. QED
          BY <1>5, <3>2, <5>1
      <4>2. n = 0 /\ \E j \in 1..Len(sent) : sent[j].type = incoming.type /\ Len(sent[j].rest) = 0
        BY <1>1, <2>1, <2>5 DEF DatagramsIntact
      <4>3. PICK j \in 1..Len(sent) : sent[j].type = incoming.type /\ Len(sent[j].rest) = 0
        BY <4>2
      <4>4. PICK a \in Contents, b \in Contents : a = received'[Len(received')] /\ b = sent[j]
        <5>1. sent \in Seq(Contents)
          BY DEF Inv, Structure, TypeOK
        <5>. QED
          BY <1>5, <5>1, ElementOfSeq
      <4>5. a.type = b.type /\ Len(a.rest) = 0 /\ Len(b.rest) = 0
        BY <1>4, <1>5, <4>2, <4>3, <4>4
      <4>6. a.rest = <<>> /\ b.rest = <<>>
        <5>1. a.rest \in Seq(Byte) /\ b.rest \in Seq(Byte)
          BY DEF Contents
        <5>. QED
          BY <4>5, <5>1, EmptySeq
      <4>7. a = b
        BY <4>5, <4>6 DEF Contents
      <4>. QED
        BY <4>1, <4>4, <4>7
    <3>. QED
      BY <3>1, <3>2
  <2>. QED
    BY <1>1, <1>5, <2>4, <2>5 DEF DatagramsIntact
<1>. QED
  BY <1>6, <1>7, <1>8 DEF Inv
-----------------------------------------------------------------------------
(* The results. *)

LEMMA StutterKeepsInv == ASSUME Inv, UNCHANGED vars PROVE Inv'
<1>1. UNCHANGED <<transport, ends, draft, edits, plain, writes, wire, closed, reader, incoming,
                  sent, broken, received>>
  BY DEF vars, consts, program, history
<1>2. Structure' /\ DraftIsPlain' /\ SentFit'
  BY <1>1 DEF Inv, Structure, TypeOK, DraftIsPlain, IsPlain, SentFit
<1>. QED
  BY <1>1, <1>2, StreamKept, DatagramsKept DEF Inv

LEMMA ProgramKeepsInv == ASSUME Inv, Program PROVE Inv'
<1>1. CASE \E item \in Items : write(item)
  BY <1>1, WriteKeepsInv
<1>2. CASE readValue(1)
  BY <1>2, ReadValueKeepsInv
<1>3. CASE readString
  BY <1>3, ReadStringKeepsInv
<1>4. CASE \E value \in {0, LNET_HEADER_SIZE + 1} : resize(value)
  BY <1>4, ResizeKeepsInv
<1>5. CASE empty
  BY <1>5, EmptyKeepsInv
<1>6. CASE copy
  BY <1>6, CopyKeepsInv
<1>7. CASE \E type \in Types : asyncSend(type)
  BY <1>7, SendKeepsInv
<1>. QED
  BY <1>1, <1>2, <1>3, <1>4, <1>5, <1>6, <1>7 DEF Program

LEMMA StepKeepsInv == Inv /\ [Next]_vars => Inv'
<1> SUFFICES ASSUME Inv, [Next]_vars PROVE Inv'
  OBVIOUS
<1>1. CASE Program
  BY <1>1, ProgramKeepsInv
<1>2. CASE Network
  <2>1. CASE close
    BY <2>1, CloseKeepsInv
  <2>2. CASE lose
    BY <2>2, LoseKeepsInv
  <2>3. CASE \E w \in DOMAIN writes : transfer(w)
    BY <2>3, TransferKeepsInv
  <2>. QED
    BY <1>2, <2>1, <2>2, <2>3 DEF Network
<1>3. CASE Reader
  <2>1. CASE readHeaderTCP
    BY <2>1, ReadHeaderTCPKeepsInv
  <2>2. CASE readPayloadTCP
    BY <2>2, ReadPayloadTCPKeepsInv
  <2>3. CASE readFails
    BY <2>3, ReadFailsKeepsInv
  <2>4. CASE readHeaderUDP
    BY <2>4, ReadHeaderUDPKeepsInv
  <2>5. CASE readPayloadUDP
    BY <2>5, ReadPayloadUDPKeepsInv
  <2>. QED
    BY <1>3, <2>1, <2>2, <2>3, <2>4, <2>5 DEF Reader
<1>4. CASE UNCHANGED vars
  BY <1>4, StutterKeepsInv
<1>. QED
  BY <1>1, <1>2, <1>3, <1>4 DEF Next

LEMMA FramingInvariant == Spec => []Inv
<1>1. Init => Inv
  BY InitInv
<1>. QED
  BY <1>1, StepKeepsInv, PTL DEF Spec

\* Whatever is written, read, cleared, resized and copied, and however the
\* bytes arrive: the messages, the wire and what was handed over have their
\* types; the fields of a header never leave the width they have.
THEOREM FramingTypeCorrect == Spec => []TypeOK
<1>1. Inv => TypeOK
  BY DEF Inv, Structure
<1>. QED
  BY <1>1, FramingInvariant, PTL

\* The operators << and >> keep the size of the header at what toConstBuffers
\* sends, after any number of calls in any order.
THEOREM SizeIsAlwaysWhatIsSent == Spec => []SizeIsWhatIsSent
<1>1. Inv => SizeIsWhatIsSent
  BY DEF Inv, DraftIsPlain, IsPlain, SizeIsWhatIsSent
<1>. QED
  BY <1>1, FramingInvariant, PTL

\* The resize of asyncRead does not throw for messages that were only written
\* to and read from and are not longer than an int can say, as long as no two
\* writes of the socket overlap.
THEOREM ReaderAlwaysSurvives == Spec => []ReaderSurvives
<1>1. Inv => ReaderSurvives
  <2>1. Inv => transport = "tcp" \/ transport = "udp"
    BY FramingConstants DEF Inv, Structure, TypeOK
  <2>. QED
    BY <2>1 DEF Inv, StreamIntact, DatagramsIntact, ReaderSurvives
<1>. QED
  BY <1>1, FramingInvariant, PTL

\* asyncRead of UDP hands over messages that were sent and no others, where a
\* datagram that is too long is an error: only those without a payload.
THEOREM DatagramsAreAlwaysWhole == Spec => []DatagramsAreWhole
<1>1. Inv => DatagramsAreWhole
  <2>1. Inv => DOMAIN received = 1..Len(received) /\ DOMAIN sent = 1..Len(sent)
    BY LenProperties DEF Inv, Structure, TypeOK
  <2>. QED
    BY <2>1 DEF Inv, DatagramsIntact, DatagramsAreWhole
<1>. QED
  BY <1>1, FramingInvariant, PTL
-----------------------------------------------------------------------------
(* A TCP connection implements the channel of messages. *)

LEMMA Growing ==
    ASSUME NEW S, NEW s \in Seq(S), NEW t \in Seq(S), Len(t) = Len(s) + 1,
           \A i \in 1..Len(s) : t[i] = s[i]
    PROVE  Channel!Grows(s, t)
<1>1. Len(s) \in Nat /\ \A i \in 1..Len(t) : t[i] \in S
  BY LenProperties, ElementOfSeq
<1>2. \A i \in 1..Len(s) : t[i] \in S
  BY <1>1
<1>3. /\ SubSeq(t, 1, Len(s)) \in Seq(S) /\ Len(SubSeq(t, 1, Len(s))) = Len(s)
      /\ \A i \in 1..Len(s) : SubSeq(t, 1, Len(s))[i] = t[i]
  <2> DEFINE l == Len(s)
  <2>1. 1 \in Int /\ l \in Int /\ l \in Nat /\ \A i \in 1..l : t[i] \in S
    BY <1>1, <1>2
  <2> HIDE DEF l
  <2>2. /\ SubSeq(t, 1, l) \in Seq(S) /\ Len(SubSeq(t, 1, l)) = IF 1 <= l THEN l - 1 + 1 ELSE 0
        /\ \A i \in 1..(l - 1 + 1) : SubSeq(t, 1, l)[i] = t[1 + i - 1]
    BY <2>1, SubSeqProperties
  <2>3. l - 1 + 1 = l /\ \A i \in 1..l : 1 + i - 1 = i
    BY <2>1
  <2>4. Len(SubSeq(t, 1, l)) = l
    BY <2>1, <2>2, <2>3
  <2>. QED
    BY <2>2, <2>3, <2>4 DEF l
<1>4. SubSeq(t, 1, Len(s)) = s
  BY <1>3, SeqEqual
<1>. QED
  BY <1>4 DEF Channel!Grows

LEMMA SendRefines == ASSUME Inv, Inv', NEW type \in Types, asyncSend(type) PROVE Channel!Send
<1>1. /\ sent' = Append(sent, Content(draft)) /\ UNCHANGED received
      /\ broken' = (broken \/ ~plain \/ ~Resizable(draft.size) \/ writes # <<>>) /\ UNCHANGED transport
  BY DEF asyncSend, consts
<1>2. sent \in Seq(Contents) /\ Content(draft) \in Contents /\ broken \in BOOLEAN
  BY RestType DEF Inv, Structure, TypeOK
<1>3. /\ sent' \in Seq(Contents) /\ Len(sent') = Len(sent) + 1
      /\ \A i \in 1..Len(sent) : sent'[i] = sent[i]
  BY <1>1, <1>2, AppendProperties
<1>4. Channel!Grows(sent, sent')
  BY <1>2, <1>3, Growing
<1>5. (broken \/ transport = "udp")' \in {broken \/ transport = "udp", TRUE}
  <2>1. CASE (broken \/ transport = "udp")'
    BY <2>1
  <2>2. CASE ~(broken \/ transport = "udp")'
    <3>1. ~(broken \/ transport = "udp")
      BY <1>1, <2>2
    <3>. QED
      BY <2>2, <3>1
  <2>. QED
    BY <2>1, <2>2
<1>. QED
  BY <1>1, <1>4, <1>5 DEF Channel!Send

\* A payload that is handed over is the next one, or the channel is broken.
LEMMA DeliverRefines ==
    ASSUME Inv, Inv', UNCHANGED <<sent, broken, transport>>,
           Len(received') = Len(received) + 1,
           \A i \in 1..Len(received) : received'[i] = received[i],
           ~(broken \/ transport = "udp") =>
               Len(received) < Len(sent) /\ received'[Len(received) + 1] = sent[Len(received) + 1]
    PROVE  Channel!Deliver
<1>1. received \in Seq(Contents) /\ received' \in Seq(Contents)
  BY DEF Inv, Structure, TypeOK
<1>2. Channel!Grows(received, received')
  BY <1>1, Growing
<1>3. \/ broken \/ transport = "udp"
      \/ Len(received) < Len(sent) /\ received'[Len(received')] = sent[Len(received')]
  OBVIOUS
<1>. QED
  BY <1>2, <1>3 DEF Channel!Deliver

LEMMA PayloadTCPRefines == ASSUME Inv, Inv', readPayloadTCP PROVE Channel!Deliver
<1> DEFINE n == incoming.size - LNET_HEADER_SIZE   p == SubSeq(wire, 1, n)
<1>1. /\ n \in 0..Len(wire) /\ HandedOver([incoming EXCEPT !.payload = p])
      /\ wire \in Seq(Byte) /\ incoming \in Message /\ received \in Seq(Contents)
      /\ UNCHANGED <<transport, sent, broken>>
  BY ReadPayloadTCPType
<1>2. p \in Seq(Byte)
  BY <1>1, Cut
<1> HIDE DEF n, p
<1>3. /\ Len(received') = Len(received) + 1
      /\ \A i \in 1..Len(received) : received'[i] = received[i]
  BY <1>1, <1>2, HandedOverType
<1>4. ~broken =>
          Len(received) < Len(sent) /\ received'[Len(received) + 1] = sent[Len(received) + 1]
  BY PayloadIsNext
<1>. QED
  BY <1>1, <1>3, <1>4, DeliverRefines

LEMMA PayloadUDPRefines == ASSUME Inv, Inv', readPayloadUDP PROVE Channel!Deliver
<1>1. /\ transport = "udp" /\ UNCHANGED <<transport, sent, broken>>
      /\ \E c : received' = Append(received, c)
  BY DEF readPayloadUDP, reading, consts, history, HandedOver
<1>2. received \in Seq(Contents) /\ received' \in Seq(Contents)
  BY DEF Inv, Structure, TypeOK
<1>3. /\ Len(received') = Len(received) + 1
      /\ \A i \in 1..Len(received) : received'[i] = received[i]
  <2>1. PICK c : received' = Append(received, c)
    BY <1>1
  <2>2. received \in Seq(Contents \union {c})
    BY <1>2, SeqMonotonic
  <2>. QED
    BY <2>1, <2>2, AppendProperties
<1>. QED
  BY <1>1, <1>3, DeliverRefines

LEMMA StepRefines ==
    ASSUME Inv, Inv', [Next]_vars
    PROVE  [Channel!Next]_<<sent, received, broken \/ transport = "udp">>
<1> DEFINE Same == UNCHANGED <<sent, received, broken, transport>>
<1>0. Same => UNCHANGED <<sent, received, broken \/ transport = "udp">>
  OBVIOUS
<1>1. CASE \E type \in Types : asyncSend(type)
  BY <1>1, SendRefines DEF Channel!Next
<1>2. CASE readPayloadTCP
  BY <1>2, PayloadTCPRefines DEF Channel!Next
<1>3. CASE readPayloadUDP
  BY <1>3, PayloadUDPRefines DEF Channel!Next
<1>4. CASE \/ \E item \in Items : write(item)
           \/ readValue(1) \/ readString
           \/ \E value \in {0, LNET_HEADER_SIZE + 1} : resize(value)
           \/ empty \/ copy
  <2>1. Same
    BY <1>4 DEF write, readValue, readString, resize, empty, copy, Edit, consts, history
  <2>. QED
    BY <1>0, <2>1
<1>5. CASE Network
  <2>1. Same
    BY <1>5 DEF Network, close, lose, transfer, network, consts, history
  <2>. QED
    BY <1>0, <2>1
<1>6. CASE readHeaderTCP \/ readFails \/ readHeaderUDP
  <2>1. Same
    BY <1>6 DEF readHeaderTCP, readFails, readHeaderUDP, reading, consts, history
  <2>. QED
    BY <1>0, <2>1
<1>7. CASE UNCHANGED vars
  <2>1. Same
    BY <1>7 DEF vars, consts, history
  <2>. QED
    BY <1>0, <2>1
<1>. QED
  BY <1>1, <1>2, <1>3, <1>4, <1>5, <1>6, <1>7 DEF Next, Program, Reader

\* As long as no two writes of the socket overlap and no message was cleared,
\* resized or longer than an int can say, TCP hands over the messages that were sent, in that order, each
\* once and whole, however its bytes are split and whenever it ends.
THEOREM TCPImplementsChannel == Spec => ChannelSpec
<1>1. Init => Channel!Init
  BY DEF Init, Channel!Init
<1>2. Inv /\ Inv' /\ [Next]_vars => [Channel!Next]_<<sent, received, broken \/ transport = "udp">>
  BY StepRefines
<1>. QED
  BY <1>1, <1>2, FramingInvariant, PTL DEF Spec, ChannelSpec, Channel!Spec
=============================================================================
