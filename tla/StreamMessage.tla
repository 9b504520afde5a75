---------------------------- MODULE StreamMessage ----------------------------
(***************************************************************************)
(* lnet::Message of LNetStream (LNetMessage.hpp, LNetMessage.cpp): a       *)
(* payload that the << operators extend and the >> operators read, and its *)
(* way through toNetworkBuffer, a packet and the receiving constructor,    *)
(* to a system of the same or the other byte order.  The type is converted *)
(* on the way and the payload is not.  The operators that set inputSize and *)
(* outputSize are declared inline and defined in the other file, so that   *)
(* no program can link a call of them: lengths are always four bytes.      *)
(***************************************************************************)
EXTENDS ByteOrder

CONSTANTS
    Systems,    \* which systems there are: big endian or not
    Usages,     \* how programs use a message: the types it may have, the items
                \* they write to it and (bound) how many, whether they call reset
                \* and setMsgSize, whether they send one they have begun to read
    MaxLength,  \* bound: characters of a string, elements of a list
    MaxPosition \* bound: how far behind the payload a string is followed

ASSUME MessageConstants ==
    /\ Systems \subseteq BOOLEAN
    /\ \A u \in Usages :
          /\ u.types \subseteq 0..(Place(2) - 1)
          /\ u.items \subseteq [kind : {"value", "list"}, of : Seq(Byte)]
                                \cup [kind : {"string"}, of : Seq(Byte \ {0})]
          /\ u.max \in Nat /\ u.resets \in BOOLEAN /\ u.relays \in BOOLEAN
    /\ MaxLength \in Nat /\ MaxPosition \in Nat

VARIABLES
    usage,     \* constant of a behaviour: how the program uses messages
    big,       \* whether the system that holds the message is big endian
    type,
    payload,
    readPosition,
    isReliable,
    outcome,   \* how the last call ended: "ok", "thrown" or "crashed"
    written,   \* history: the items put in since the message was empty
    read       \* history: the items taken out by this reader

vars == <<usage, big, type, payload, readPosition, isReliable, outcome, written, read>>

\* A value is the bytes of its C++ type, least significant first; a string has
\* no zero byte in it.
Values  == BoundedSeq(Byte, 2) \ {<<>>}
Strings == BoundedSeq(Byte \ {0}, MaxLength)
Lists   == BoundedSeq(Byte, MaxLength)
Item    == [kind : {"value"}, of : Values] \cup [kind : {"string"}, of : Strings]
           \cup [kind : {"list"}, of : Lists]

TypeOK ==
    /\ usage \in Usages
    /\ big \in BOOLEAN
    /\ type \in 0..(Place(2) - 1)
    /\ payload \in Seq(Byte)
    /\ readPosition \in Nat
    /\ isReliable \in BOOLEAN
    /\ outcome \in {"ok", "thrown", "crashed"}
    /\ {written, read} \subseteq Seq([kind : {"value", "string", "list"}, of : Seq(Byte)])

Init ==
    /\ usage \in Usages
    /\ big \in Systems
    /\ type \in usage.types
    /\ payload = <<>>
    /\ readPosition = 0
    /\ isReliable \in BOOLEAN
    /\ outcome = "ok"
    /\ written = <<>>
    /\ read = <<>>
-----------------------------------------------------------------------------
(* Writing. *)

\* << of a value, of a string with its terminator, of a list with its length.
Encoded(item) ==
    CASE item.kind = "value"  -> InOrder(item.of, big)
      [] item.kind = "string" -> item.of \o <<0>>
      [] item.kind = "list"   -> ToMemory(Len(item.of), 4, big) \o item.of

input(item) ==
    /\ Len(written) < usage.max
    /\ payload' = payload \o Encoded(item)
    /\ written' = Append(written, item)
    /\ outcome' = "ok"
    /\ UNCHANGED <<usage, big, type, readPosition, isReliable, read>>
-----------------------------------------------------------------------------
(* Reading, in the order in which the items were written. *)

Expected == written[Len(read) + 1]
Expects(kind) == Len(read) < Len(written) /\ Expected.kind = kind

Reads(item, position) ==
    /\ read' = Append(read, item)
    /\ readPosition' = position
    /\ UNCHANGED <<usage, big, type, payload, isReliable, written>>

Throws(position) ==
    /\ outcome' = "thrown"
    /\ readPosition' = position
    /\ UNCHANGED <<usage, big, type, payload, isReliable, written, read>>

\* Slip: the check allows one byte too many.
outputValueOffByOne(size) ==
    IF readPosition + size > Len(payload) + 1
    THEN Throws(readPosition)
    ELSE /\ Reads([kind |-> "value", of |-> SubSeq(payload \o <<0>>, 1, size)], readPosition + size)
         /\ outcome' = "ok"

\* The bytes come from the beginning of the payload, not from readPosition.
outputValue(size) ==
    IF readPosition + size > Len(payload)
    THEN Throws(readPosition)
    ELSE /\ Reads([kind |-> "value", of |-> InOrder(SubSeq(payload, 1, size), big)], readPosition + size)
         /\ outcome' = "ok"

\* The positions of zero bytes at or after readPosition; the first one ends
\* the string.
Terminators == {i \in DOMAIN payload : i > readPosition /\ payload[i] = 0}

\* Slip: the terminator is not skipped.
outputStringStaysOnZero ==
    \/ /\ Terminators = {}
       /\ Throws(readPosition)
    \/ \E i \in Terminators :
          /\ \A j \in Terminators : i <= j
          /\ Reads([kind |-> "string", of |-> SubSeq(payload, readPosition + 1, i - 1)], i - 1)
          /\ outcome' = "ok"

\* A search that starts behind the end of the payload is undefined: it finds
\* nothing, or meets a zero among the bytes that were there before and gives
\* any string, with the position still outside, or ends the program.
outputString ==
    \/ /\ Terminators = {}
       /\ Throws(readPosition)
    \/ \E i \in Terminators :
          /\ \A j \in Terminators : i <= j
          /\ Reads([kind |-> "string", of |-> SubSeq(payload, readPosition + 1, i - 1)], i)
          /\ outcome' = "ok"
    \/ /\ readPosition > Len(payload)
       /\ \E s \in Strings :
             /\ readPosition + Len(s) < MaxPosition
             /\ Reads([kind |-> "string", of |-> s], readPosition + Len(s) + 1)
       /\ outcome' = "ok"
    \/ /\ readPosition > Len(payload)
       /\ outcome' = "crashed"
       /\ UNCHANGED <<usage, big, type, payload, readPosition, isReliable, written, read>>

\* The length and every element are read with >> of a value.  A list that is
\* too long throws when its memory is asked for or when the payload is used
\* up; so does any list on a big endian system of 64 bits, where the four bytes
\* become the upper half of the length.  The operator has no return statement, so
\* coming to its end is undefined.
outputList ==
    LET n    == FromMemory(SubSeq(payload, 1, 4), big)
        room == Len(payload) - (readPosition + 4)
    IN  \/ /\ readPosition + 4 > Len(payload)
           /\ Throws(readPosition)
        \/ /\ readPosition + 4 <= Len(payload)
           /\ n > room \/ (big /\ n > 0)
           /\ \E position \in {readPosition + 4, Len(payload)} : Throws(position)
        \/ /\ readPosition + 4 <= Len(payload)
           /\ n <= room
           /\ Reads([kind |-> "list", of |-> [i \in 1..n |-> payload[1]]], readPosition + 4 + n)
           /\ outcome' \in {"ok", "crashed"}
-----------------------------------------------------------------------------
(* Sending and clearing. *)

\* Slip: the buffer is sized for what is not read yet.
toNetworkBufferShort == SubSeq(payload, 1, Len(payload) - readPosition)

\* As much of the payload as is not read yet, taken from its beginning; the
\* rest of the buffer stays zero.
toNetworkBuffer ==
    [i \in DOMAIN payload |-> IF i <= Len(payload) - readPosition THEN payload[i] ELSE 0]

\* The type at the beginning of the buffer.
typeOnWire == ToMemory(toNetworkEndian(type, 2, big), 2, big)

\* The message is sent and received, by a system of either byte order: the
\* constructor starts a new message, reliable whatever the packet was.
transmit ==
    /\ usage.relays \/ readPosition = 0
    /\ UNCHANGED <<usage, written>>
    /\ readPosition' = 0
    /\ isReliable' = TRUE
    /\ outcome' = "ok"
    /\ read' = <<>>
    /\ payload' = toNetworkBuffer
    /\ big' \in Systems
    /\ type' = fromNetworkEndian(FromMemory(typeOnWire, big'), 2, big')

\* readPosition stays; channel and type become 0 whatever the arguments are.
reset ==
    /\ usage.resets
    /\ type' = 0
    /\ payload' = <<>>
    /\ written' = <<>>
    /\ read' = <<>>
    /\ outcome' = "ok"
    /\ UNCHANGED <<usage, big, readPosition, isReliable>>

\* vector::resize cuts the payload off or fills it up with zeros.
setMsgSize(n) ==
    /\ usage.resets
    /\ payload' = [i \in 1..n |-> IF i <= Len(payload) THEN payload[i] ELSE 0]
    /\ outcome' = "ok"
    /\ UNCHANGED <<usage, big, type, readPosition, isReliable, written, read>>

setMsgType(value) ==
    /\ type' = value
    /\ outcome' = "ok"
    /\ UNCHANGED <<usage, big, payload, readPosition, isReliable, written, read>>

setIsReliable(value) ==
    /\ isReliable' = value
    /\ outcome' = "ok"
    /\ UNCHANGED <<usage, big, type, payload, readPosition, written, read>>
-----------------------------------------------------------------------------
Next ==
    /\ outcome # "crashed"
    /\ \/ \E item \in usage.items : input(item)
       \/ Expects("value") /\ outputValue(Len(Expected.of))
       \/ Expects("string") /\ outputString
       \/ Expects("list") /\ outputList
       \/ transmit
       \/ reset
       \/ \E n \in 0..MaxLength : setMsgSize(n)
       \/ \E value \in usage.types : setMsgType(value)
       \/ \E value \in BOOLEAN : setIsReliable(value)

Spec == Init /\ [][Next]_vars
-----------------------------------------------------------------------------
(* Properties. *)

\* A message goes from a program that fills it to one that reads it, once.
OneWay == ~usage.resets /\ ~usage.relays

\* What the reader was given is what the writer put in, in the same order, and
\* no read of an item that is there throws.
ReadsWhatWasWritten == OneWay => IsPrefix(read, written) /\ outcome # "thrown"

\* toNetworkEndian converts "from system to little endian"
\* (LNetEndianHandler.hpp:15): whatever system sends, the wire looks the same.
WireIsLittleEndian == typeOnWire = LittleEndian(type, 2)

\* Between systems of any byte orders a message keeps its type, and so finds
\* the callback it was meant for, and its size, whatever was read of it; when
\* nothing was read, all of it arrives.
TransmitKeepsMessage ==
    [][transmit => /\ type' = type
                   /\ Len(payload') = Len(payload)
                   /\ readPosition = 0 => payload' = payload]_vars

\* Only reset and setMsgSize take the position out of the payload: no write,
\* no read of any item, whether it succeeds or throws, and no transmission does.
PositionStaysInside ==
    [][readPosition <= Len(payload) =>
          \/ readPosition' <= Len(payload')
          \/ reset \/ \E n \in 0..MaxLength : setMsgSize(n)]_vars
=============================================================================
