------------------------ MODULE StreamMessageProofs ------------------------
(***************************************************************************)
(* Proofs about StreamMessage, for items of any bytes and systems of any   *)
(* byte order: what is on the wire is little endian, a message keeps its   *)
(* type and its bytes from one system to another, only reset and           *)
(* setMsgSize take the read position out of the payload, and what is       *)
(* written readably is read as it was.                                     *)
(***************************************************************************)
EXTENDS StreamMessage, ByteOrderProofs

-----------------------------------------------------------------------------
(* The inductive invariant for messages that can be read: where each item *)
(* lies in the payload. *)

Text == [kind : {"string"}, of : Seq(Byte \ {0})]
Written == [kind : {"value", "list"}, of : Seq(Byte)] \cup Text

\* Strings may follow one another and one value, which >> looks for at the
\* beginning, and which is not converted between systems of different orders.
Readable ==
    \A i \in 1..Len(written) :
        \/ written[i].kind = "string"
        \/ i = 1 /\ written[i].kind = "value" /\ (\A a, b \in Systems : a = b)

\* ends[i] is where item i ends, whose bytes follow those of the one before.
Ends(ends) ==
    /\ ends[0] = 0
    /\ ends[Len(written)] = Len(payload)
    /\ \A i \in 1..Len(written) :
          /\ ends[i] = ends[i - 1] + Len(Encoded(written[i]))
          /\ \A j \in 1..Len(Encoded(written[i])) : payload[ends[i - 1] + j] = Encoded(written[i])[j]
    /\ readPosition = ends[Len(read)]

ReadInOrder ==
    /\ Len(read) <= Len(written)
    /\ \A i \in 1..Len(read) : read[i] = written[i]

Laid == \E ends \in [0..Len(written) -> 0..Len(payload)] : Ends(ends)

ItemsInOrder ==
    /\ big \in Systems
    /\ written \in Seq(Written)
    /\ OneWay /\ Readable => outcome = "ok" /\ ReadInOrder /\ Laid

Inv == TypeOK /\ ItemsInOrder
-----------------------------------------------------------------------------
(* Types. *)

ItemType == [kind : {"value", "string", "list"}, of : Seq(Byte)]

LEMMA ByteSequences ==
    /\ Seq(Byte \ {0}) \subseteq Seq(Byte)
    /\ 0 \in Byte
<1>1. ASSUME NEW s \in Seq(Byte \ {0}) PROVE s \in Seq(Byte)
  <2>1. \A i \in 1..Len(s) : s[i] \in Byte
    BY ElementOfSeq
  <2>2. s = [i \in 1..Len(s) |-> s[i]] /\ Len(s) \in Nat
    OBVIOUS
  <2>. QED
    BY <2>1, <2>2
<1>. QED
  BY <1>1, ByteAssumption DEF Byte

\* A program writes items of bytes.
LEMMA ItemsOfBytes == ASSUME TypeOK, NEW item \in usage.items PROVE item \in ItemType
<1>1. usage \in Usages
  BY DEF TypeOK
<1>2. item \in [kind : {"value", "list"}, of : Seq(Byte)] \cup [kind : {"string"}, of : Seq(Byte \ {0})]
  BY <1>1, MessageConstants
<1>3. CASE item \in [kind : {"value", "list"}, of : Seq(Byte)]
  BY <1>3 DEF ItemType
<1>4. CASE item \in [kind : {"string"}, of : Seq(Byte \ {0})]
  BY <1>4, ByteSequences DEF ItemType
<1>. QED
  BY <1>2, <1>3, <1>4

LEMMA EncodedType == ASSUME TypeOK, NEW item \in ItemType PROVE Encoded(item) \in Seq(Byte)
<1>1. item.of \in Seq(Byte) /\ item.kind \in {"value", "string", "list"} /\ big \in BOOLEAN
  BY DEF TypeOK, ItemType
<1>2. InOrder(item.of, big) \in Seq(Byte)
  BY <1>1, InOrderBytes
<1>3. item.of \o <<0>> \in Seq(Byte)
  <2>1. <<0>> \in Seq(Byte)
    BY ByteSequences, OneElement
  <2>. QED
    BY <1>1, <2>1, ConcatProperties
<1>4. ToMemory(Len(item.of), 4, big) \o item.of \in Seq(Byte)
  <2>1. Len(item.of) \in Nat /\ 4 \in 1..4
    BY <1>1, LenProperties
  <2>2. ToMemory(Len(item.of), 4, big) \in Seq(Byte)
    BY <1>1, <2>1, ToMemoryType
  <2>. QED
    BY <1>1, <2>2, ConcatProperties
<1>. QED
  BY <1>1, <1>2, <1>3, <1>4 DEF Encoded

LEMMA InitType == ASSUME Init PROVE TypeOK
<1>1. usage \in Usages /\ big \in BOOLEAN /\ type \in 0..(Place(2) - 1)
  BY MessageConstants DEF Init
<1>2. <<>> \in Seq(Byte) /\ <<>> \in Seq([kind : {"value", "string", "list"}, of : Seq(Byte)])
  BY EmptyIsSeq
<1>. QED
  BY <1>1, <1>2 DEF Init, TypeOK

LEMMA InputType == ASSUME TypeOK, NEW item \in usage.items, input(item) PROVE TypeOK'
<1>1. payload' \in Seq(Byte)
  <2>1. payload \in Seq(Byte) /\ Encoded(item) \in Seq(Byte)
    BY ItemsOfBytes, EncodedType DEF TypeOK
  <2>2. payload \o Encoded(item) \in Seq(Byte)
    BY <2>1, ConcatProperties
  <2>. QED
    BY <2>2 DEF input
<1>2. written' \in Seq([kind : {"value", "string", "list"}, of : Seq(Byte)])
  <2>1. written \in Seq(ItemType) /\ item \in ItemType
    BY ItemsOfBytes DEF TypeOK, ItemType
  <2>2. Append(written, item) \in Seq(ItemType)
    BY <2>1, AppendProperties
  <2>. QED
    BY <2>2 DEF input, ItemType
<1>. QED
  BY <1>1, <1>2 DEF input, TypeOK

LEMMA ThrowsType == ASSUME TypeOK, NEW position \in Nat, Throws(position) PROVE TypeOK'
BY DEF Throws, TypeOK

\* A read that succeeds takes an item to a place.
LEMMA ReadsType ==
    ASSUME TypeOK, NEW item \in ItemType, NEW position \in Nat, Reads(item, position),
           outcome' \in {"ok", "crashed"}
    PROVE  TypeOK'
<1>1. read' \in Seq([kind : {"value", "string", "list"}, of : Seq(Byte)])
  <2>1. read \in Seq(ItemType)
    BY DEF TypeOK, ItemType
  <2>2. Append(read, item) \in Seq(ItemType)
    BY <2>1, AppendProperties
  <2>. QED
    BY <2>2 DEF Reads, ItemType
<1>. QED
  BY <1>1 DEF Reads, TypeOK

\* The item that is to be read is one that was written.
LEMMA ExpectedType ==
    ASSUME TypeOK, NEW kind, Expects(kind)
    PROVE  /\ Expected \in ItemType /\ Expected.of \in Seq(Byte) /\ Len(Expected.of) \in Nat
           /\ Len(read) \in Nat /\ Len(written) \in Nat /\ Len(read) + 1 \in 1..Len(written)
<1>1. /\ written \in Seq(ItemType) /\ Len(read) \in Nat /\ Len(written) \in Nat
      /\ Len(read) + 1 \in 1..Len(written)
  BY LenProperties DEF TypeOK, ItemType, Expects
<1>2. Expected \in ItemType
  BY <1>1, ElementOfSeq DEF Expected
<1>3. Expected.of \in Seq(Byte)
  BY <1>2 DEF ItemType
<1>. QED
  BY <1>1, <1>2, <1>3, LenProperties

LEMMA OutputValueType ==
    ASSUME TypeOK, NEW size \in Nat, outputValue(size)
    PROVE  /\ TypeOK'
           /\ readPosition <= Len(payload) => readPosition' <= Len(payload')
<1>1. payload \in Seq(Byte) /\ readPosition \in Nat /\ big \in BOOLEAN /\ Len(payload) \in Nat
  BY LenProperties DEF TypeOK
<1>2. CASE readPosition + size > Len(payload)
  <2>1. Throws(readPosition)
    BY <1>2 DEF outputValue
  <2>2. TypeOK'
    BY <1>1, <2>1, ThrowsType
  <2>. QED
    BY <2>1, <2>2 DEF Throws
<1>3. CASE ~(readPosition + size > Len(payload))
  <2> DEFINE item == [kind |-> "value", of |-> InOrder(SubSeq(payload, 1, size), big)]
  <2>1. Reads(item, readPosition + size) /\ outcome' = "ok"
    BY <1>3 DEF outputValue
  <2>2. item \in ItemType
    <3>1. size \in 0..Len(payload)
      BY <1>1, <1>3
    <3>2. SubSeq(payload, 1, size) \in Seq(Byte)
      BY <1>1, <3>1, Cut
    <3>3. InOrder(SubSeq(payload, 1, size), big) \in Seq(Byte)
      BY <1>1, <3>2, InOrderBytes
    <3>. QED
      BY <3>3 DEF ItemType
  <2> HIDE DEF item
  <2>3. readPosition + size \in Nat /\ readPosition + size <= Len(payload)
    BY <1>1, <1>3
  <2>4. TypeOK'
    BY <2>1, <2>2, <2>3, ReadsType
  <2>. QED
    BY <2>1, <2>3, <2>4 DEF Reads
<1>. QED
  BY <1>2, <1>3

\* A string is at most MaxLength bytes.
LEMMA StringsOfBytes == \A s \in Strings : s \in Seq(Byte) /\ Len(s) \in Nat
<1> SUFFICES ASSUME NEW s \in Strings PROVE s \in Seq(Byte) /\ Len(s) \in Nat
  OBVIOUS
<1>1. s \in Seq(Byte \ {0})
  BY DEF Strings, BoundedSeq, SeqOf
<1>. QED
  BY <1>1, ByteSequences, LenProperties

LEMMA OutputStringType ==
    ASSUME TypeOK, outputString
    PROVE  /\ TypeOK'
           /\ readPosition <= Len(payload) => readPosition' <= Len(payload')
<1>1. payload \in Seq(Byte) /\ readPosition \in Nat /\ Len(payload) \in Nat
  BY LenProperties DEF TypeOK
<1>2. CASE Throws(readPosition)
  <2>1. TypeOK'
    BY <1>1, <1>2, ThrowsType
  <2>. QED
    BY <1>2, <2>1 DEF Throws
<1>5. ASSUME NEW s \in Strings, readPosition > Len(payload),
             Reads([kind |-> "string", of |-> s], readPosition + Len(s) + 1),
             outcome' = "ok"
      PROVE  TypeOK' /\ ~(readPosition <= Len(payload))
  <2> DEFINE item == [kind |-> "string", of |-> s]
  <2>1. item \in ItemType /\ Len(s) \in Nat
    BY StringsOfBytes DEF ItemType
  <2>2. Reads(item, readPosition + Len(s) + 1)
    BY <1>5
  <2> HIDE DEF item
  <2>3. readPosition + Len(s) + 1 \in Nat /\ ~(readPosition <= Len(payload))
    BY <1>1, <1>5, <2>1
  <2>. QED
    BY <1>5, <2>1, <2>2, <2>3, ReadsType
<1>3. ASSUME NEW i \in Terminators,
             Reads([kind |-> "string", of |-> SubSeq(payload, readPosition + 1, i - 1)], i),
             outcome' = "ok"
      PROVE  TypeOK' /\ readPosition' <= Len(payload')
  <2> DEFINE item == [kind |-> "string", of |-> SubSeq(payload, readPosition + 1, i - 1)]
  <2>1. i \in 1..Len(payload) /\ i > readPosition
    BY <1>1 DEF Terminators
  <2>2. item \in ItemType
    <3>1. \A j \in readPosition + 1..i - 1 : payload[j] \in Byte
      <4>1. \A j \in readPosition + 1..i - 1 : j \in 1..Len(payload)
        BY <1>1, <2>1
      <4>. QED
        BY <1>1, <4>1, ElementOfSeq
    <3>2. SubSeq(payload, readPosition + 1, i - 1) \in Seq(Byte)
      BY <1>1, <2>1, <3>1, SubSeqProperties
    <3>. QED
      BY <3>2 DEF ItemType
  <2>3. Reads(item, i)
    BY <1>3
  <2> HIDE DEF item
  <2>4. i \in Nat /\ i <= Len(payload)
    BY <1>1, <2>1
  <2>5. TypeOK'
    BY <1>3, <2>2, <2>3, <2>4, ReadsType
  <2>. QED
    BY <2>3, <2>4, <2>5 DEF Reads
<1>4. ASSUME outcome' = "crashed",
             UNCHANGED <<usage, big, type, payload, readPosition, isReliable, written, read>>
      PROVE  TypeOK' /\ readPosition' = readPosition /\ payload' = payload
  BY <1>4 DEF TypeOK
<1>. QED
  BY <1>2, <1>3, <1>4, <1>5 DEF outputString

LEMMA OutputListType ==
    ASSUME TypeOK, outputList
    PROVE  /\ TypeOK'
           /\ readPosition <= Len(payload) => readPosition' <= Len(payload')
<1> DEFINE n == FromMemory(SubSeq(payload, 1, 4), big)
           room == Len(payload) - (readPosition + 4)
           item == [kind |-> "list", of |-> [i \in 1..n |-> payload[1]]]
<1>1. payload \in Seq(Byte) /\ readPosition \in Nat /\ big \in BOOLEAN /\ Len(payload) \in Nat
  BY LenProperties DEF TypeOK
<1>2. ASSUME NEW position \in Nat, Throws(position)
      PROVE  TypeOK' /\ readPosition' = position /\ payload' = payload
  BY <1>2, ThrowsType DEF Throws
<1>3. ASSUME readPosition + 4 <= Len(payload), n <= room, Reads(item, readPosition + 4 + n),
             outcome' \in {"ok", "crashed"}
      PROVE  TypeOK' /\ readPosition' <= Len(payload')
  <2>1. n \in Nat
    <3>1. 4 \in 0..Len(payload)
      BY <1>1, <1>3
    <3>2. SubSeq(payload, 1, 4) \in Seq(Byte) /\ Len(SubSeq(payload, 1, 4)) = 4
      BY <1>1, <3>1, Cut
    <3>3. n \in Word(4)
      BY <1>1, <3>2, MemoryOfValue DEF Width
    <3>. QED
      BY <3>3, PlaceType DEF Word
  <2>2. item \in ItemType
    <3>1. payload[1] \in Byte
      BY <1>1, <1>3, ElementOfSeq
    <3> HIDE DEF n
    <3>2. [i \in 1..n |-> payload[1]] \in Seq(Byte)
      BY <2>1, <3>1
    <3>. QED
      BY <3>2 DEF ItemType
  <2> HIDE DEF n, item
  <2>3. readPosition + 4 + n \in Nat /\ readPosition + 4 + n <= Len(payload)
    BY <1>1, <1>3, <2>1
  <2>4. TypeOK'
    BY <1>3, <2>2, <2>3, ReadsType
  <2>. QED
    BY <1>3, <2>3, <2>4 DEF Reads
<1>4. \/ Throws(readPosition) \/ Throws(Len(payload))
      \/ readPosition + 4 <= Len(payload) /\ Throws(readPosition + 4)
      \/ /\ readPosition + 4 <= Len(payload) /\ n <= room
         /\ Reads(item, readPosition + 4 + n) /\ outcome' \in {"ok", "crashed"}
  BY DEF outputList
<1> HIDE DEF n, room, item
<1>5. readPosition + 4 \in Nat
  BY <1>1
<1>6. CASE Throws(readPosition)
  BY <1>1, <1>2, <1>6
<1>7. CASE Throws(Len(payload))
  BY <1>1, <1>2, <1>7
<1>8. CASE readPosition + 4 <= Len(payload) /\ Throws(readPosition + 4)
  BY <1>2, <1>5, <1>8
<1>. QED
  BY <1>3, <1>4, <1>6, <1>7, <1>8

\* A value of the program is in the range of its type.
LEMMA ByteWords == Word(2) = 0..(Place(2) - 1) /\ 2 \in Width
BY DEF Word, Width

LEMMA TransmitKeeps ==
    ASSUME TypeOK, transmit
    PROVE  /\ type' = type /\ Len(payload') = Len(payload) /\ payload' \in Seq(Byte)
           /\ readPosition = 0 => payload' = payload
<1>1. payload \in Seq(Byte) /\ readPosition \in Nat /\ Len(payload) \in Nat /\ 0 \in Byte
  BY LenProperties, ByteSequences DEF TypeOK
<1>2. type' = type
  <2>1. type \in Word(2) /\ big \in BOOLEAN /\ big' \in BOOLEAN /\ 2 \in Width
    BY MessageConstants, ByteWords DEF TypeOK, transmit
  <2>2. PICK other \in BOOLEAN : other = big'
    BY <2>1
  <2>3. fromNetworkEndian(FromMemory(ToMemory(toNetworkEndian(type, 2, big), 2, big), other), 2, other)
        = type
    BY <2>1, ValueArrives
  <2>. QED
    BY <2>2, <2>3 DEF transmit, typeOnWire
<1>3. payload' = [i \in 1..Len(payload) |-> IF i <= Len(payload) - readPosition THEN payload[i] ELSE 0]
  BY <1>1 DEF transmit, toNetworkBuffer
<1>4. \A i \in 1..Len(payload) : payload[i] \in Byte
  BY <1>1, ElementOfSeq
<1>5. payload' \in Seq(Byte) /\ Len(payload') = Len(payload)
  BY <1>1, <1>3, <1>4
<1>6. ASSUME readPosition = 0 PROVE payload' = payload
  <2>1. \A i \in 1..Len(payload) : payload'[i] = payload[i]
    BY <1>1, <1>3, <1>6
  <2>. QED
    BY <1>1, <1>5, <2>1, SeqEqual
<1>. QED
  BY <1>2, <1>5, <1>6

LEMMA TransmitType == ASSUME TypeOK, transmit PROVE TypeOK'
<1>1. type' = type /\ payload' \in Seq(Byte)
  BY TransmitKeeps
<1>2. big' \in BOOLEAN /\ <<>> \in Seq([kind : {"value", "string", "list"}, of : Seq(Byte)])
  BY MessageConstants, EmptyIsSeq DEF transmit
<1>. QED
  BY <1>1, <1>2 DEF transmit, TypeOK

LEMMA ResetType == ASSUME TypeOK, reset PROVE TypeOK'
<1>1. /\ <<>> \in Seq([kind : {"value", "string", "list"}, of : Seq(Byte)])
      /\ <<>> \in Seq(Byte)
  BY EmptyIsSeq
<1>2. 0 \in 0..(Place(2) - 1)
  BY PlaceType
<1>. QED
  BY <1>1, <1>2 DEF reset, TypeOK

LEMMA SetMsgSizeType == ASSUME TypeOK, NEW n \in 0..MaxLength, setMsgSize(n) PROVE TypeOK'
<1>1. n \in Nat /\ payload \in Seq(Byte) /\ 0 \in Byte
  BY MessageConstants, ByteSequences DEF TypeOK
<1>2. \A i \in 1..n : (IF i <= Len(payload) THEN payload[i] ELSE 0) \in Byte
  BY <1>1, ElementOfSeq
<1>3. [i \in 1..n |-> IF i <= Len(payload) THEN payload[i] ELSE 0] \in Seq(Byte)
  BY <1>1, <1>2
<1>. QED
  BY <1>3 DEF setMsgSize, TypeOK

LEMMA SetType ==
    ASSUME TypeOK, \/ \E value \in usage.types : setMsgType(value)
                   \/ \E value \in BOOLEAN : setIsReliable(value)
    PROVE  TypeOK'
<1>1. ASSUME NEW value \in usage.types, setMsgType(value) PROVE TypeOK'
  <2>1. value \in 0..(Place(2) - 1)
    BY MessageConstants DEF TypeOK
  <2>. QED
    BY <1>1, <2>1 DEF setMsgType, TypeOK
<1>2. ASSUME NEW value \in BOOLEAN, setIsReliable(value) PROVE TypeOK'
  BY <1>2 DEF setIsReliable, TypeOK
<1>. QED
  BY <1>1, <1>2

LEMMA StepKeepsType == TypeOK /\ [Next]_vars => TypeOK'
<1> SUFFICES ASSUME TypeOK, [Next]_vars PROVE TypeOK'
  OBVIOUS
<1>1. ASSUME NEW item \in usage.items, input(item) PROVE TypeOK'
  BY <1>1, InputType
<1>2. CASE Expects("value") /\ outputValue(Len(Expected.of))
  BY <1>2, ExpectedType, OutputValueType
<1>3. CASE Expects("string") /\ outputString
  BY <1>3, OutputStringType
<1>4. CASE Expects("list") /\ outputList
  BY <1>4, OutputListType
<1>5. CASE transmit
  BY <1>5, TransmitType
<1>6. CASE reset
  BY <1>6, ResetType
<1>7. ASSUME NEW n \in 0..MaxLength, setMsgSize(n) PROVE TypeOK'
  BY <1>7, SetMsgSizeType
<1>8. CASE \/ \E value \in usage.types : setMsgType(value)
           \/ \E value \in BOOLEAN : setIsReliable(value)
  BY <1>8, SetType
<1>9. CASE UNCHANGED vars
  BY <1>9 DEF vars, TypeOK
<1>. QED
  BY <1>1, <1>2, <1>3, <1>4, <1>5, <1>6, <1>7, <1>8, <1>9 DEF Next

\* The fields of a message keep their types: its type is a value of two bytes
\* and its payload is bytes, whatever is written, read, sent or set.
THEOREM MessageTypeCorrect == Spec => []TypeOK
<1>1. Init => TypeOK
  BY InitType
<1>2. TypeOK /\ [Next]_vars => TypeOK'
  BY StepKeepsType
<1>. QED
  BY <1>1, <1>2, PTL DEF Spec

-----------------------------------------------------------------------------
(* The wire and the reads. *)

\* toNetworkEndian puts the type on the wire little endian, on a system of
\* either byte order and however many values a byte has.
THEOREM WireIsAlwaysLittleEndian == Spec => []WireIsLittleEndian
<1>1. TypeOK => WireIsLittleEndian
  <2> SUFFICES ASSUME TypeOK PROVE WireIsLittleEndian
    OBVIOUS
  <2>1. type \in Word(2) /\ big \in BOOLEAN /\ 2 \in Width
    BY ByteWords DEF TypeOK
  <2>2. ToMemory(toNetworkEndian(type, 2, big), 2, big) = LittleEndian(type, 2)
    BY <2>1, OnWire
  <2>. QED
    BY <2>2 DEF WireIsLittleEndian, typeOnWire
<1>. QED
  BY <1>1, MessageTypeCorrect, PTL

\* From a system of either byte order to one of either, a message keeps its
\* type and its length, and its bytes when none was read.
THEOREM TransmitAlwaysKeepsMessage == Spec => TransmitKeepsMessage
<1> DEFINE Keeps == transmit => /\ type' = type
                                /\ Len(payload') = Len(payload)
                                /\ readPosition = 0 => payload' = payload
<1>1. TypeOK => [Keeps]_vars
  BY TransmitKeeps
<1>2. Spec => []TypeOK
  BY MessageTypeCorrect
<1>3. Spec => [][Keeps]_vars
  BY <1>1, <1>2, PTL
<1>. QED
  BY <1>3 DEF TransmitKeepsMessage

\* A position in the payload stays there through every write, every read that
\* succeeds or throws, and every transmission: only reset and setMsgSize, which
\* shorten the payload and leave readPosition alone, can take it out.
THEOREM PositionAlwaysStaysInside == Spec => PositionStaysInside
<1> DEFINE Inside == readPosition <= Len(payload) =>
                        \/ readPosition' <= Len(payload')
                        \/ reset \/ \E n \in 0..MaxLength : setMsgSize(n)
<1>1. TypeOK /\ [Next]_vars => [Inside]_vars
  <2> SUFFICES ASSUME TypeOK, Next, readPosition <= Len(payload),
                      ~reset, ~ \E n \in 0..MaxLength : setMsgSize(n)
               PROVE  readPosition' <= Len(payload')
    OBVIOUS
  <2>1. CASE Expects("value") /\ outputValue(Len(Expected.of))
    BY <2>1, ExpectedType, OutputValueType
  <2>2. CASE Expects("string") /\ outputString
    BY <2>2, OutputStringType
  <2>3. CASE Expects("list") /\ outputList
    BY <2>3, OutputListType
  <2>4. ASSUME NEW item \in usage.items, input(item) PROVE readPosition' <= Len(payload')
    <3>1. payload \in Seq(Byte) /\ Encoded(item) \in Seq(Byte)
      BY ItemsOfBytes, EncodedType DEF TypeOK
    <3>2. /\ Len(payload \o Encoded(item)) = Len(payload) + Len(Encoded(item))
          /\ Len(payload) \in Nat /\ Len(Encoded(item)) \in Nat /\ readPosition \in Nat
      BY <3>1, ConcatProperties, LenProperties DEF TypeOK
    <3>3. readPosition' = readPosition /\ payload' = payload \o Encoded(item)
      BY <2>4 DEF input
    <3>. QED
      BY <3>2, <3>3
  <2>5. CASE transmit
    <3>1. payload' \in Seq(Byte) /\ readPosition' = 0
      BY <2>5, TransmitKeeps DEF transmit
    <3>2. PICK arrived \in Seq(Byte) : arrived = payload'
      BY <3>1
    <3>. QED
      BY <3>1, <3>2, LenProperties
  <2>6. ASSUME NEW value, setMsgType(value) \/ setIsReliable(value)
        PROVE  readPosition' <= Len(payload')
    BY <2>6 DEF setMsgType, setIsReliable
  <2>. QED
    BY <2>1, <2>2, <2>3, <2>4, <2>5, <2>6 DEF Next
<1>2. Spec => []TypeOK
  BY MessageTypeCorrect
<1>3. Spec => [][Inside]_vars
  BY <1>1, <1>2, PTL DEF Spec
<1>. QED
  BY <1>3 DEF PositionStaysInside

-----------------------------------------------------------------------------
(* Messages that can be read. *)

\* An item is laid as bytes, a string with a zero after its characters, and a
\* value so that the same system finds it again.
LEMMA LaidItem ==
    ASSUME TypeOK, NEW item \in Written
    PROVE  /\ item \in ItemType /\ item.of \in Seq(Byte) /\ Len(item.of) \in Nat
           /\ Encoded(item) \in Seq(Byte) /\ Len(Encoded(item)) \in Nat
           /\ item.kind = "string" =>
                 /\ item \in Text /\ Encoded(item) = item.of \o <<0>>
                 /\ Len(Encoded(item)) = Len(item.of) + 1
                 /\ Encoded(item)[Len(item.of) + 1] = 0
                 /\ \A j \in 1..Len(item.of) :
                       Encoded(item)[j] = item.of[j] /\ item.of[j] # 0
           /\ item.kind = "value" =>
                 /\ Encoded(item) = InOrder(item.of, big)
                 /\ Len(Encoded(item)) = Len(item.of)
                 /\ InOrder(Encoded(item), big) = item.of
<1>1. item \in ItemType /\ item.of \in Seq(Byte)
  BY ByteSequences DEF Written, Text, ItemType
<1>2. Encoded(item) \in Seq(Byte)
  BY <1>1, EncodedType
<1>3. Len(Encoded(item)) \in Nat /\ Len(item.of) \in Nat
  BY <1>1, <1>2, LenProperties
<1>4. ASSUME item.kind = "string"
      PROVE  /\ item \in Text /\ Encoded(item) = item.of \o <<0>>
             /\ Len(Encoded(item)) = Len(item.of) + 1
             /\ Encoded(item)[Len(item.of) + 1] = 0
             /\ \A j \in 1..Len(item.of) : Encoded(item)[j] = item.of[j] /\ item.of[j] # 0
  <2>1. item \in Text /\ item.of \in Seq(Byte \ {0})
    BY <1>4 DEF Written, Text
  <2>2. Encoded(item) = item.of \o <<0>>
    BY <1>4 DEF Encoded
  <2>3. <<0>> \in Seq(Byte) /\ Len(<<0>>) = 1 /\ <<0>>[1] = 0
    BY ByteSequences, OneElement
  <2>4. /\ Len(item.of \o <<0>>) = Len(item.of) + 1
        /\ \A j \in 1..Len(item.of) : (item.of \o <<0>>)[j] = item.of[j]
        /\ (item.of \o <<0>>)[Len(item.of) + 1] = 0
    BY <1>1, <1>3, <2>3, ConcatProperties
  <2>5. \A j \in 1..Len(item.of) : item.of[j] \in Byte \ {0}
    BY <2>1, ElementOfSeq
  <2>. QED
    BY <2>1, <2>2, <2>4, <2>5
<1>5. ASSUME item.kind = "value"
      PROVE  /\ Encoded(item) = InOrder(item.of, big)
             /\ Len(Encoded(item)) = Len(item.of)
             /\ InOrder(Encoded(item), big) = item.of
  <2>1. Encoded(item) = InOrder(item.of, big)
    BY <1>5 DEF Encoded
  <2>. QED
    BY <1>1, <2>1, InOrderBytes DEF TypeOK
<1>. QED
  BY <1>1, <1>2, <1>3, <1>4, <1>5

\* What a program writes may be written.
LEMMA MayBeWritten == ASSUME TypeOK, NEW item \in usage.items PROVE item \in Written
<1>1. usage \in Usages
  BY DEF TypeOK
<1>. QED
  BY <1>1, MessageConstants DEF Written, Text

LEMMA InitItems == ASSUME Init PROVE ItemsInOrder
<1>1. written = <<>> /\ payload = <<>> /\ read = <<>> /\ readPosition = 0 /\ outcome = "ok"
      /\ big \in Systems
  BY DEF Init
<1>2. Len(written) = 0 /\ Len(payload) = 0 /\ Len(read) = 0 /\ written \in Seq(Written)
  BY <1>1, EmptyIsSeq
<1>3. ReadInOrder
  BY <1>2 DEF ReadInOrder
<1>4. [i \in 0..Len(written) |-> 0] \in [0..Len(written) -> 0..Len(payload)]
  BY <1>2
<1>5. Ends([i \in 0..Len(written) |-> 0])
  BY <1>1, <1>2 DEF Ends
<1>. QED
  BY <1>1, <1>2, <1>3, <1>4, <1>5 DEF ItemsInOrder, Laid

\* Where the items lie, the system that holds them apart.
LEMMA SamePlace ==
    ASSUME written \in Seq(Written), Readable, big \in Systems, big' \in Systems
    PROVE  \A i \in 1..Len(written) : \A item : item = written[i] => Encoded(item)' = Encoded(item)
<1> SUFFICES ASSUME NEW i \in 1..Len(written), NEW item, item = written[i]
             PROVE  Encoded(item)' = Encoded(item)
  OBVIOUS
<1>1. item.kind = "string" \/ big' = big
  BY DEF Readable
<1>2. CASE item.kind = "string"
  BY <1>2 DEF Encoded
<1>3. CASE big' = big
  BY <1>3 DEF Encoded
<1>. QED
  BY <1>1, <1>2, <1>3

\* An item that is written is laid behind the others.
LEMMA InputItems ==
    ASSUME Inv, OneWay, NEW item \in usage.items, input(item), Readable'
    PROVE  outcome' = "ok" /\ ReadInOrder' /\ Laid'
<1> DEFINE l == Len(payload)   k == Len(written)
<1>1. /\ TypeOK /\ written \in Seq(Written)
      /\ k \in Nat /\ l \in Nat /\ payload \in Seq(Byte)
  BY LenProperties DEF Inv, ItemsInOrder, TypeOK
<1>2. item \in Written
  BY <1>1, MayBeWritten
<1>3. PICK z \in Seq(Byte), n \in Nat : z = Encoded(item) /\ n = Len(z)
  BY <1>1, <1>2, LaidItem
<1>4. /\ written' = Append(written, item) /\ payload' = payload \o z
      /\ outcome' = "ok" /\ readPosition' = readPosition /\ read' = read /\ big' = big
  BY <1>3 DEF input
<1>5. /\ Len(payload') = l + n
      /\ \A j \in 1..l : payload'[j] = payload[j]
      /\ \A j \in 1..n : payload'[l + j] = z[j]
  <2>1. PICK p \in Seq(Byte) : p = payload
    BY <1>1
  <2>2. Len(p \o z) = Len(p) + Len(z) /\ Len(p) \in Nat /\ Len(z) = n
    BY <1>3, ConcatProperties, LenProperties
  <2>3. \A j \in 1..Len(p) + Len(z) : (p \o z)[j] = IF j <= Len(p) THEN p[j] ELSE z[j - Len(p)]
    BY ConcatProperties
  <2>4. \A j \in 1..n : l + j \in 1..Len(p) + Len(z) /\ ~(l + j <= Len(p)) /\ (l + j) - Len(p) = j
    BY <1>1, <1>3, <2>1, <2>2
  <2>5. \A j \in 1..l : j \in 1..Len(p) + Len(z) /\ j <= Len(p)
    BY <1>1, <1>3, <2>1, <2>2
  <2>. QED
    BY <1>4, <2>1, <2>2, <2>3, <2>4, <2>5
<1>6. /\ Len(written') = k + 1 /\ written' \in Seq(Written)
      /\ \A i \in 1..k : written'[i] = written[i]
      /\ written'[k + 1] = item
  BY <1>1, <1>2, <1>4, AppendProperties
<1>7. Readable
  BY <1>1, <1>6 DEF Readable
<1>8. ReadInOrder /\ Laid
  BY <1>7 DEF Inv, ItemsInOrder
<1>9. ReadInOrder'
  <2>1. Len(read) \in Nat /\ Len(read) <= k /\ \A i \in 1..Len(read) : read[i] = written[i]
    BY <1>1, <1>8, LenProperties DEF ReadInOrder, TypeOK
  <2>. QED
    BY <1>1, <1>4, <1>6, <2>1 DEF ReadInOrder
<1>10. PICK ends \in [0..k -> 0..l] : Ends(ends)
  BY <1>8 DEF Laid
<1>11. PICK more \in [0..k + 1 -> 0..l + n] :
          \A i \in 0..k + 1 : more[i] = IF i <= k THEN ends[i] ELSE l + n
  <2>1. [i \in 0..k + 1 |-> IF i <= k THEN ends[i] ELSE l + n] \in [0..k + 1 -> 0..l + n]
    BY <1>1, <1>3, <1>10
  <2>. QED
    BY <2>1
<1>12. /\ \A i \in 0..k : more[i] = ends[i] /\ more[i] \in 0..l
       /\ more[k + 1] = l + n /\ ends[k] = l /\ ends[0] = 0
  <2>1. ends[k] = l /\ ends[0] = 0
    BY <1>10 DEF Ends
  <2>2. \A i \in 0..k : i \in 0..k + 1 /\ i <= k /\ ends[i] \in 0..l
    BY <1>1, <1>10
  <2>3. k + 1 \in 0..k + 1 /\ ~(k + 1 <= k)
    BY <1>1
  <2>4. more[k + 1] = l + n
    BY <1>11, <2>3, Zenon
  <2>5. \A i \in 0..k : more[i] = ends[i]
    BY <1>11, <2>2, Zenon
  <2>. QED
    BY <2>1, <2>2, <2>4, <2>5, Zenon
<1>13. ASSUME NEW i \in 1..k + 1, NEW w, w = written'[i]
       PROVE  /\ more[i] = more[i - 1] + Len(Encoded(w))
              /\ \A j \in 1..Len(Encoded(w)) : payload'[more[i - 1] + j] = Encoded(w)[j]
  <2>1. CASE i <= k
    <3>1. i \in 1..k /\ i \in 0..k /\ i - 1 \in 0..k /\ w = written[i]
      BY <1>1, <1>6, <1>13, <2>1
    <3>2. /\ ends[i] = ends[i - 1] + Len(Encoded(w))
          /\ \A j \in 1..Len(Encoded(w)) : payload[ends[i - 1] + j] = Encoded(w)[j]
      BY <1>10, <3>1 DEF Ends
    <3>3. Len(Encoded(w)) \in Nat
      <4>1. w \in Written
        BY <1>1, <3>1, ElementOfSeq
      <4>. QED
        BY <1>1, <4>1, LaidItem
    <3>4. /\ more[i] = ends[i] /\ more[i - 1] = ends[i - 1]
          /\ ends[i] \in 0..l /\ ends[i - 1] \in 0..l
      BY <1>12, <3>1
    <3>5. \A j \in 1..Len(Encoded(w)) : ends[i - 1] + j \in 1..l
      <4>1. PICK a \in 0..l, b \in 0..l : a = ends[i - 1] /\ b = ends[i]
        BY <3>4
      <4>2. PICK m \in Nat, c \in Nat : m = Len(Encoded(w)) /\ c = l
        BY <1>1, <3>3
      <4>3. a \in 0..c /\ b \in 0..c /\ b = a + m
        BY <3>2, <4>1, <4>2
      <4>4. \A j \in 1..m : a + j \in 1..c
        BY <4>3
      <4>. QED
        BY <4>1, <4>2, <4>4
    <3>. QED
      BY <1>5, <3>2, <3>4, <3>5
  <2>2. CASE ~(i <= k)
    <3>1. i = k + 1 /\ i - 1 = k /\ k \in 0..k /\ w = item
      BY <1>1, <1>6, <1>13, <2>2
    <3>2. more[i] = l + n /\ more[i - 1] = l
      BY <1>12, <3>1
    <3>. QED
      BY <1>3, <1>5, <3>1, <3>2
  <2>. QED
    BY <2>1, <2>2
<1>14. more[0] = 0 /\ more[Len(written')] = Len(payload') /\ readPosition' = more[Len(read')]
  <2>1. 0 \in 0..k /\ Len(read) \in 0..k
    BY <1>1, <1>8, LenProperties DEF ReadInOrder, TypeOK
  <2>2. readPosition = ends[Len(read)]
    BY <1>10 DEF Ends
  <2>. QED
    BY <1>4, <1>5, <1>6, <1>12, <2>1, <2>2
<1>15. \A w : Encoded(w)' = Encoded(w)
  BY <1>4 DEF Encoded
<1>16. Ends(more)'
  <2>1. ASSUME NEW i \in 1..Len(written')
        PROVE  /\ more[i] = more[i - 1] + Len(Encoded(written[i])')
               /\ \A j \in 1..Len(Encoded(written[i])') : payload'[more[i - 1] + j] = Encoded(written[i])'[j]
    <3>1. PICK w : w = written'[i]
      OBVIOUS
    <3>2. Encoded(written[i])' = Encoded(w)
      BY <1>15, <3>1
    <3>. QED
      BY <1>6, <1>13, <3>1, <3>2
  <2>. QED
    BY <1>14, <2>1 DEF Ends
<1>17. Laid'
  <2>1. more \in [0..Len(written') -> 0..Len(payload')]
    BY <1>5, <1>6, <1>11
  <2>. QED
    BY <1>16, <2>1 DEF Laid
<1>. QED
  BY <1>4, <1>9, <1>17

\* What a read is about: the item that is next, and where it lies.
LEMMA NextPlace ==
    ASSUME Inv, OneWay, Readable, NEW kind, Expects(kind),
           NEW ends \in [0..Len(written) -> 0..Len(payload)], Ends(ends)
    PROVE  LET e == ends[Len(read) + 1]   w == Expected IN
           /\ w \in Written /\ w = written[Len(read) + 1]
           /\ readPosition \in 0..Len(payload) /\ readPosition = ends[Len(read)]
           /\ e \in 0..Len(payload) /\ Len(payload) \in Nat
           /\ e = readPosition + Len(Encoded(w))
           /\ \A j \in 1..Len(Encoded(w)) : payload[readPosition + j] = Encoded(w)[j]
<1>1. /\ Len(read) + 1 \in 1..Len(written) /\ (Len(read) + 1) - 1 = Len(read)
      /\ Len(read) \in 0..Len(written) /\ Len(read) + 1 \in 0..Len(written)
  BY LenProperties DEF Inv, TypeOK, Expects
<1>2. Expected \in Written /\ Expected = written[Len(read) + 1]
  BY <1>1, ElementOfSeq DEF Expected, Inv, ItemsInOrder
<1>3. /\ readPosition = ends[Len(read)]
      /\ ends[Len(read) + 1] = ends[Len(read)] + Len(Encoded(Expected))
      /\ \A j \in 1..Len(Encoded(Expected)) :
            payload[ends[Len(read)] + j] = Encoded(Expected)[j]
  BY <1>1, <1>2 DEF Ends
<1>4. Len(payload) \in Nat
  BY LenProperties DEF Inv, TypeOK
<1>. QED
  BY <1>1, <1>2, <1>3, <1>4

\* The terminator of the string that is next is the first zero byte at or
\* after readPosition, and what is before it is the string.
LEMMA NextString ==
    ASSUME Inv, OneWay, Readable, Expects("string"),
           NEW ends \in [0..Len(written) -> 0..Len(payload)], Ends(ends)
    PROVE  LET e == ends[Len(read) + 1] IN
           /\ Expected \in Text
           /\ readPosition <= Len(payload)
           /\ e \in Terminators
           /\ \A i \in Terminators : (\A j \in Terminators : i <= j) => i = e
           /\ SubSeq(payload, readPosition + 1, e - 1) = Expected.of
<1> DEFINE e == ends[Len(read) + 1]   s == Expected.of
<1>1. /\ Expected \in Written /\ readPosition \in 0..Len(payload)
      /\ e \in 0..Len(payload) /\ Len(payload) \in Nat
      /\ e = readPosition + Len(Encoded(Expected))
      /\ \A j \in 1..Len(Encoded(Expected)) : payload[readPosition + j] = Encoded(Expected)[j]
  BY NextPlace
<1>2. /\ Expected \in Text /\ s \in Seq(Byte) /\ Len(s) \in Nat
      /\ Len(Encoded(Expected)) = Len(s) + 1 /\ Encoded(Expected)[Len(s) + 1] = 0
      /\ \A j \in 1..Len(s) : Encoded(Expected)[j] = s[j] /\ s[j] # 0
  BY <1>1, LaidItem DEF Inv, Expects
<1> HIDE DEF s, e
<1>3. PICK p \in 0..Len(payload), q \in 0..Len(payload), n \in Nat :
         p = readPosition /\ q = e /\ n = Len(s)
  BY <1>1, <1>2
<1>4. /\ q = p + n + 1 /\ payload[q] = 0
      /\ \A j \in 1..n : payload[p + j] = s[j] /\ s[j] # 0
  <2>1. n + 1 \in 1..n + 1 /\ p + (n + 1) = p + n + 1 /\ \A j \in 1..n : j \in 1..n + 1
    BY <1>3
  <2>2. \A j \in 1..n + 1 : payload[p + j] = Encoded(Expected)[j]
    BY <1>1, <1>2, <1>3
  <2>3. payload[p + (n + 1)] = 0
    BY <1>2, <1>3, <2>1, <2>2
  <2>4. \A j \in 1..n : payload[p + j] = s[j] /\ s[j] # 0
    BY <1>2, <1>3, <2>1, <2>2
  <2>5. q = p + (n + 1)
    BY <1>1, <1>2, <1>3
  <2>. QED
    BY <2>1, <2>3, <2>4, <2>5
<1>5. payload \in Seq(Byte)
  BY DEF Inv, TypeOK
<1>6. q \in 1..Len(payload) /\ q > p
  BY <1>1, <1>3, <1>4
<1>7. q \in Terminators
  BY <1>3, <1>4, <1>5, <1>6 DEF Terminators
<1>8. ASSUME NEW i \in Terminators, \A j \in Terminators : i <= j PROVE i = q
  <2>1. i \in 1..Len(payload) /\ i > p /\ payload[i] = 0
    BY <1>3, <1>5 DEF Terminators
  <2>2. i <= q
    BY <1>7, <1>8
  <2>3. ASSUME i < q PROVE FALSE
    <3>1. i - p \in 1..n /\ p + (i - p) = i
      BY <1>1, <1>3, <1>4, <2>1, <2>3
    <3>. QED
      BY <1>4, <2>1, <3>1
  <2>. QED
    BY <1>1, <1>6, <2>1, <2>2, <2>3
<1>9. SubSeq(payload, p + 1, q - 1) = s
  <2>1. p + 1 \in Int /\ q - 1 \in Int /\ q - 1 = p + n
    BY <1>3, <1>4
  <2>2. \A j \in p + 1..q - 1 : j \in 1..Len(payload)
    BY <1>1, <1>3, <1>6
  <2>3. \A j \in p + 1..q - 1 : payload[j] \in Byte
    BY <1>5, <2>2, ElementOfSeq
  <2> DEFINE u == SubSeq(payload, p + 1, q - 1)
  <2>4. /\ u \in Seq(Byte)
        /\ Len(u) = IF p + 1 <= q - 1 THEN (q - 1) - (p + 1) + 1 ELSE 0
        /\ \A j \in 1..(q - 1) - (p + 1) + 1 : u[j] = payload[(p + 1) + j - 1]
    BY <1>5, <2>1, <2>3, SubSeqProperties
  <2> HIDE DEF u
  <2>5. Len(u) = n /\ (q - 1) - (p + 1) + 1 = n
    BY <1>3, <1>4, <2>4
  <2>6. \A j \in 1..n : u[j] = s[j]
    <3>1. \A j \in 1..n : (p + 1) + j - 1 = p + j
      BY <1>3
    <3>. QED
      BY <1>4, <2>4, <2>5, <3>1
  <2>7. u = s
    BY <1>2, <1>3, <2>4, <2>5, <2>6, SeqEqual
  <2>. QED
    BY <2>7 DEF u
<1>. QED
  BY <1>2, <1>3, <1>7, <1>8, <1>9 DEF e, s

\* A read that gives the item that is next, and goes to its end, keeps the order.
LEMMA NextRead ==
    ASSUME Inv, OneWay, Readable, NEW kind, Expects(kind),
           NEW ends \in [0..Len(written) -> 0..Len(payload)], Ends(ends),
           Reads(Expected, ends[Len(read) + 1]), outcome' = "ok"
    PROVE  outcome' = "ok" /\ ReadInOrder' /\ Laid'
<1>1. /\ ReadInOrder /\ Len(read) < Len(written) /\ Len(read) \in Nat /\ Len(written) \in Nat
      /\ read \in Seq(ItemType)
  BY LenProperties DEF Inv, ItemsInOrder, TypeOK, Expects, ItemType
<1>2. /\ read' = Append(read, Expected) /\ readPosition' = ends[Len(read) + 1]
      /\ payload' = payload /\ written' = written /\ big' = big
  BY DEF Reads
<1>3. Expected \in ItemType /\ Expected = written[Len(read) + 1]
  BY ExpectedType DEF Expected, Inv
<1>4. /\ Len(read') = Len(read) + 1
      /\ \A j \in 1..Len(read) : read'[j] = read[j]
      /\ read'[Len(read) + 1] = Expected
  BY <1>1, <1>2, <1>3, AppendProperties
<1>5. ReadInOrder'
  <2>1. \A j \in 1..Len(read) : read[j] = written[j]
    BY <1>1 DEF ReadInOrder
  <2>2. \A j \in 1..Len(read) + 1 : j \in 1..Len(read) \/ j = Len(read) + 1
    BY <1>1
  <2>3. \A j \in 1..Len(read') : read'[j] = written'[j]
    BY <1>2, <1>3, <1>4, <2>1, <2>2
  <2>. QED
    BY <1>1, <1>2, <1>4, <2>3 DEF ReadInOrder
<1>6. Laid'
  <2>1. readPosition' = ends[Len(read')]
    BY <1>2, <1>4
  <2>2. Ends(ends)'
    BY <1>2, <2>1 DEF Ends, Encoded
  <2>. QED
    BY <1>2, <2>2 DEF Laid
<1>. QED
  BY <1>5, <1>6

LEMMA OutputStringItems ==
    ASSUME Inv, OneWay, Readable, Expects("string"), outputString
    PROVE  outcome' = "ok" /\ ReadInOrder' /\ Laid'
<1>1. PICK ends \in [0..Len(written) -> 0..Len(payload)] : Ends(ends)
  BY DEF Inv, ItemsInOrder, Laid
<1>2. PICK e : e = ends[Len(read) + 1]
  OBVIOUS
<1>3. /\ Expected \in Text /\ readPosition <= Len(payload)
      /\ e \in Terminators
      /\ \A i \in Terminators : (\A j \in Terminators : i <= j) => i = e
      /\ SubSeq(payload, readPosition + 1, e - 1) = Expected.of
  BY <1>1, <1>2, NextString
<1>4. PICK i \in Terminators :
         /\ \A j \in Terminators : i <= j
         /\ Reads([kind |-> "string", of |-> SubSeq(payload, readPosition + 1, i - 1)], i)
         /\ outcome' = "ok"
  <2>1. readPosition \in Nat /\ Len(payload) \in Nat
    BY LenProperties DEF Inv, TypeOK
  <2>2. ~(readPosition > Len(payload)) /\ Terminators # {}
    BY <1>3, <2>1
  <2>. QED
    BY <2>2 DEF outputString
<1>5. i = e
  BY <1>3, <1>4
<1>6. [kind |-> "string", of |-> SubSeq(payload, readPosition + 1, e - 1)] = Expected
  BY <1>3 DEF Text
<1>7. Reads(Expected, ends[Len(read) + 1]) /\ outcome' = "ok"
  BY <1>2, <1>4, <1>5, <1>6
<1>. QED
  BY <1>1, <1>7, NextRead

\* A value is the first item, so that it lies where >> takes it from.
LEMMA OutputValueItems ==
    ASSUME Inv, OneWay, Readable, Expects("value"), outputValue(Len(Expected.of))
    PROVE  outcome' = "ok" /\ ReadInOrder' /\ Laid'
<1> DEFINE n == Len(Expected.of)   z == Encoded(Expected)
<1>1. PICK ends \in [0..Len(written) -> 0..Len(payload)] : Ends(ends)
  BY DEF Inv, ItemsInOrder, Laid
<1>2. /\ Expected \in Written /\ Expected = written[Len(read) + 1]
      /\ readPosition = ends[Len(read)] /\ Len(payload) \in Nat
      /\ ends[Len(read) + 1] \in 0..Len(payload)
      /\ ends[Len(read) + 1] = readPosition + Len(z)
      /\ \A j \in 1..Len(z) : payload[readPosition + j] = z[j]
  BY <1>1, NextPlace
<1>3. /\ Expected.kind = "value" /\ Len(read) \in Nat /\ Len(read) + 1 \in 1..Len(written)
      /\ Expected \in ItemType
  BY ExpectedType DEF Expects, Inv
<1>4. Len(read) = 0 /\ readPosition = 0
  <2>1. Len(read) + 1 = 1
    BY <1>2, <1>3 DEF Readable
  <2>2. Len(read) = 0
    BY <1>3, <2>1
  <2>. QED
    BY <1>1, <1>2, <2>2 DEF Ends
<1>5. /\ Expected.of \in Seq(Byte) /\ n \in Nat /\ z \in Seq(Byte)
      /\ Len(z) = n /\ InOrder(z, big) = Expected.of
  BY <1>2, <1>3, LaidItem DEF Inv
<1> HIDE DEF n, z
<1>6. ends[Len(read) + 1] = n /\ n <= Len(payload) /\ \A j \in 1..n : payload[j] = z[j]
  BY <1>2, <1>4, <1>5
<1>7. SubSeq(payload, 1, n) = z
  <2>1. payload \in Seq(Byte)
    BY DEF Inv, TypeOK
  <2>2. \A j \in 1..n : payload[j] \in Byte
    BY <1>2, <1>5, <1>6, <2>1, ElementOfSeq
  <2> DEFINE u == SubSeq(payload, 1, n)
  <2>3. /\ u \in Seq(Byte)
        /\ Len(u) = IF 1 <= n THEN n - 1 + 1 ELSE 0
        /\ \A j \in 1..n - 1 + 1 : u[j] = payload[1 + j - 1]
    BY <1>5, <2>1, <2>2, SubSeqProperties
  <2> HIDE DEF u
  <2>4. Len(u) = n /\ \A j \in 1..n : u[j] = z[j]
    <3>1. n - 1 + 1 = n /\ \A j \in 1..n : 1 + j - 1 = j
      BY <1>5
    <3>. QED
      BY <1>5, <1>6, <2>3, <3>1
  <2>5. u = z
    BY <1>5, <2>3, <2>4, SeqEqual
  <2>. QED
    BY <2>5 DEF u
<1>8. [kind |-> "value", of |-> InOrder(SubSeq(payload, 1, n), big)] = Expected
  BY <1>3, <1>5, <1>7 DEF ItemType
<1>9. /\ Reads([kind |-> "value", of |-> InOrder(SubSeq(payload, 1, n), big)], readPosition + n)
      /\ outcome' = "ok"
  <2>1. ~(readPosition + n > Len(payload))
    BY <1>2, <1>4, <1>5, <1>6
  <2>. QED
    BY <2>1 DEF outputValue, n
<1>10. readPosition + n = ends[Len(read) + 1]
  BY <1>4, <1>5, <1>6
<1>11. Reads(Expected, ends[Len(read) + 1])
  BY <1>8, <1>9, <1>10
<1>. QED
  BY <1>1, <1>9, <1>11, NextRead

\* The message that is sent before anything is read of it arrives whole.
LEMMA TransmitItems ==
    ASSUME Inv, OneWay, transmit, Readable PROVE outcome' = "ok" /\ ReadInOrder' /\ Laid'
<1>1. /\ TypeOK /\ written \in Seq(Written) /\ Laid /\ readPosition = 0 /\ big \in Systems
  BY DEF Inv, ItemsInOrder, transmit, OneWay
<1>2. /\ payload' = payload /\ written' = written /\ read' = <<>> /\ readPosition' = 0
      /\ outcome' = "ok" /\ big' \in Systems
  BY <1>1, TransmitKeeps DEF transmit
<1>3. Len(read') = 0 /\ Len(written) \in Nat
  BY <1>1, <1>2, EmptyIsSeq, LenProperties
<1>4. ReadInOrder'
  BY <1>2, <1>3 DEF ReadInOrder
<1>5. PICK ends \in [0..Len(written) -> 0..Len(payload)] : Ends(ends)
  BY <1>1 DEF Laid
<1>6. Ends(ends)'
  <2>1. ends[0] = 0 /\ readPosition' = ends[Len(read')]
    BY <1>2, <1>3, <1>5 DEF Ends
  <2>2. \A i \in 1..Len(written) : Encoded(written[i])' = Encoded(written[i])
    <3>1. \A i \in 1..Len(written) : \A w : w = written'[i] => Encoded(w)' = Encoded(w)
      BY <1>1, <1>2, SamePlace
    <3>. QED
      BY <1>2, <3>1
  <2>. QED
    BY <1>2, <1>5, <2>1, <2>2 DEF Ends
<1>7. Laid'
  BY <1>2, <1>5, <1>6 DEF Laid
<1>. QED
  BY <1>2, <1>4, <1>7

\* What leaves the items and the payload alone.
LEMMA SameItems ==
    ASSUME ItemsInOrder, UNCHANGED <<usage, big, payload, readPosition, written, read>>,
           outcome' = "ok" \/ outcome' = outcome
    PROVE  ItemsInOrder'
<1>1. \A w : Encoded(w)' = Encoded(w)
  BY DEF Encoded
<1>2. \A i \in 1..Len(written) : Encoded(written[i])' = Encoded(written[i])
  BY <1>1
<1>3. Laid => Laid'
  <2> SUFFICES ASSUME Laid PROVE Laid'
    OBVIOUS
  <2>1. PICK ends \in [0..Len(written) -> 0..Len(payload)] : Ends(ends)
    BY DEF Laid
  <2>2. Ends(ends)'
    BY <1>2, <2>1 DEF Ends
  <2>. QED
    BY <2>1, <2>2 DEF Laid
<1>. QED
  BY <1>3 DEF ItemsInOrder, OneWay, Readable, ReadInOrder

\* What is written is written by a program.
LEMMA WrittenType ==
    ASSUME Inv, [Next]_vars
    PROVE  /\ usage' = usage /\ big' \in Systems /\ written' \in Seq(Written)
           /\ written' = written \/ written' = <<>> \/ \E item \in usage.items : input(item)
<1>1. /\ usage' = usage
      /\ big' = big \/ big' \in Systems
      /\ written' = written \/ written' = <<>> \/ \E item \in usage.items : input(item)
  BY Zenon DEF Next, vars, input, outputValue, outputString, outputList, Reads, Throws, transmit, reset,
         setMsgSize, setMsgType, setIsReliable
<1>2. ASSUME NEW item \in usage.items, input(item) PROVE written' \in Seq(Written)
  <2>1. written' = Append(written, item) /\ item \in Written /\ written \in Seq(Written)
    BY <1>2, MayBeWritten DEF input, Inv, ItemsInOrder
  <2>. QED
    BY <2>1, AppendProperties
<1>. QED
  BY <1>1, <1>2, EmptyIsSeq DEF Inv, ItemsInOrder

LEMMA StepKeepsInv == Inv /\ [Next]_vars => Inv'
<1> SUFFICES ASSUME Inv, [Next]_vars PROVE ItemsInOrder'
  BY StepKeepsType DEF Inv
<1>1. usage' = usage /\ big' \in Systems /\ written' \in Seq(Written)
  BY WrittenType
<1> SUFFICES ASSUME OneWay', Readable' PROVE outcome' = "ok" /\ ReadInOrder' /\ Laid'
  BY <1>1 DEF ItemsInOrder
<1>2. OneWay
  BY <1>1 DEF OneWay
<1>3. ASSUME NEW item \in usage.items, input(item) PROVE outcome' = "ok" /\ ReadInOrder' /\ Laid'
  BY <1>2, <1>3, InputItems
<1>4. CASE UNCHANGED <<usage, big, payload, readPosition, written, read>>
           /\ (outcome' = "ok" \/ outcome' = outcome)
  BY <1>4, SameItems DEF Inv, ItemsInOrder
<1>5. ASSUME written' = written PROVE Readable
  BY <1>5 DEF Readable
<1>6. CASE Expects("value") /\ outputValue(Len(Expected.of))
  BY <1>2, <1>5, <1>6, OutputValueItems DEF outputValue, Reads, Throws
<1>7. CASE Expects("string") /\ outputString
  BY <1>2, <1>5, <1>7, OutputStringItems DEF outputString, Reads, Throws
<1>8. CASE Expects("list") /\ outputList
  <2>1. written' = written
    BY <1>8 DEF outputList, Reads, Throws
  <2>2. Expected.kind = "list" /\ Len(read) + 1 \in 1..Len(written)
    BY <1>8, ExpectedType DEF Expects, Inv
  <2>. QED
    BY <1>5, <2>1, <2>2 DEF Readable, Expected
<1>9. CASE transmit
  BY <1>2, <1>5, <1>9, TransmitItems DEF transmit
<1>10. ~reset /\ \A m : ~setMsgSize(m)
  BY <1>2 DEF reset, setMsgSize, OneWay
<1>11. ASSUME NEW value, setMsgType(value) \/ setIsReliable(value)
       PROVE  outcome' = "ok" /\ ReadInOrder' /\ Laid'
  BY <1>4, <1>11 DEF setMsgType, setIsReliable
<1>12. CASE UNCHANGED vars
  BY <1>4, <1>12 DEF vars
<1>. QED
  BY <1>3, <1>6, <1>7, <1>8, <1>9, <1>10, <1>11, <1>12 DEF Next

LEMMA SpecInv == Spec => []Inv
<1>1. Init => Inv
  BY InitType, InitItems DEF Inv
<1>. QED
  BY <1>1, StepKeepsInv, PTL DEF Spec

\* A message that goes one way, of strings after at most one value, is read as
\* it was written, whole and in order, and no read throws: the terminators are
\* where << put them, and the value is where >> looks for it.
THEOREM ReadableIsReadAsWritten == Spec => [](Readable => ReadsWhatWasWritten)
<1>1. Inv => (Readable => ReadsWhatWasWritten)
  <2> SUFFICES ASSUME Inv, Readable, OneWay PROVE IsPrefix(read, written) /\ outcome # "thrown"
    BY DEF ReadsWhatWasWritten
  <2>1. /\ outcome = "ok" /\ ReadInOrder /\ read \in Seq(ItemType) /\ written \in Seq(ItemType)
        /\ Len(read) \in Nat /\ Len(written) \in Nat
    BY LenProperties DEF Inv, ItemsInOrder, TypeOK, ItemType
  <2>2. Len(read) \in 0..Len(written) /\ \A i \in 1..Len(read) : read[i] = written[i]
    BY <2>1 DEF ReadInOrder
  <2> DEFINE w == SubSeq(written, 1, Len(read))
  <2>3. w \in Seq(ItemType) /\ Len(w) = Len(read) /\ \A i \in 1..Len(read) : w[i] = written[i]
    <3>1. w \in Seq(ItemType) /\ Len(w) = Len(read)
      BY <2>1, <2>2, Cut
    <3>2. \A i \in 1..Len(read) : w[i] = written[1 + i - 1] /\ 1 + i - 1 = i
      <4>1. \A i \in 1..Len(written) : written[i] \in ItemType
        BY <2>1, ElementOfSeq
      <4>. QED
        BY <2>1, <2>2, <4>1, SubSeqProperties
    <3>. QED
      BY <3>1, <3>2
  <2> HIDE DEF w
  <2>4. w = read
    BY <2>1, <2>2, <2>3, SeqEqual
  <2>5. SubSeq(read, 1, Len(read)) = read
    BY <2>1, SubSeqFull
  <2>. QED
    BY <2>1, <2>2, <2>4, <2>5 DEF IsPrefix, w
<1>. QED
  BY <1>1, SpecInv, PTL

\* Programs whose messages go one way write strings only.
OneWayWritesStrings ==
    \A u \in Usages : ~u.resets /\ ~u.relays => \A item \in u.items : item.kind = "string"

\* What they write is readable.
OnlyStrings == OneWay => \A i \in 1..Len(written) : written[i].kind = "string"

LEMMA OnlyStringsStep == ASSUME OneWayWritesStrings, Inv, OnlyStrings, [Next]_vars PROVE OnlyStrings'
<1> SUFFICES ASSUME OneWay' PROVE \A i \in 1..Len(written') : written'[i].kind = "string"
  BY DEF OnlyStrings
<1>1. /\ usage' = usage /\ OneWay
      /\ written' = written \/ written' = <<>> \/ \E item \in usage.items : input(item)
  BY WrittenType DEF OneWay
<1>2. CASE written' = written
  BY <1>1, <1>2 DEF OnlyStrings
<1>3. CASE written' = <<>>
  BY <1>3, EmptyIsSeq
<1>4. ASSUME NEW item \in usage.items, input(item)
      PROVE  \A i \in 1..Len(written') : written'[i].kind = "string"
  <2>1. item.kind = "string"
    BY <1>1 DEF OneWayWritesStrings, OneWay, Inv, TypeOK
  <2>2. written' = Append(written, item) /\ written \in Seq(Written) /\ item \in Written
    BY <1>4, MayBeWritten DEF input, Inv, ItemsInOrder
  <2>3. /\ Len(written) \in Nat /\ Len(written') = Len(written) + 1
        /\ \A i \in 1..Len(written) : written'[i] = written[i]
        /\ written'[Len(written) + 1] = item
    BY <2>2, AppendProperties, LenProperties
  <2>4. \A i \in 1..Len(written') : i \in 1..Len(written) \/ i = Len(written) + 1
    BY <2>3
  <2>. QED
    BY <1>1, <2>1, <2>3, <2>4 DEF OnlyStrings
<1>. QED
  BY <1>1, <1>2, <1>3, <1>4

\* So that programs that write strings get what they wrote, on whatever systems.
THEOREM StringsAreReadAsWritten == OneWayWritesStrings => (Spec => []ReadsWhatWasWritten)
<1> SUFFICES ASSUME OneWayWritesStrings PROVE Spec => []ReadsWhatWasWritten
  OBVIOUS
<1>1. Init => OnlyStrings
  BY EmptyIsSeq DEF Init, OnlyStrings
<1>2. Inv /\ OnlyStrings /\ [Next]_vars => OnlyStrings'
  BY OnlyStringsStep
<1>3. OnlyStrings /\ (Readable => ReadsWhatWasWritten) => ReadsWhatWasWritten
  BY DEF OnlyStrings, Readable, ReadsWhatWasWritten
<1>. QED
  BY <1>1, <1>2, <1>3, SpecInv, ReadableIsReadAsWritten, PTL DEF Spec
=============================================================================
