----------------------------- MODULE AsioMessage -----------------------------
(***************************************************************************)
(* lnet::Message of LNetLibrary (LNetMessage.hpp) as a record, and its     *)
(* functions as operators on such records.  Unlike the Message of          *)
(* LNetStream it carries its size in a header of two LNet4Byte, which the  *)
(* << and >> operators keep up, and it is sent from its read position on.  *)
(***************************************************************************)
EXTENDS ByteOrder

CONSTANT FieldSize   \* bytes of an LNet4Byte, 4 in the code

LNET_HEADER_SIZE == 2 * FieldSize

Field == 0..(Place(FieldSize) - 1)

ASSUME FieldAssumption == FieldSize \in {1, 2, 4} /\ LNET_HEADER_SIZE + 1 \in Field
Message == [type : Field, size : Field, payload : Seq(Byte), readPosition : Nat]

NewMessage(type) ==
    [type |-> type, size |-> LNET_HEADER_SIZE, payload |-> <<>>, readPosition |-> 0]

\* What is left to read.
Rest(m) == SubSeq(m.payload, m.readPosition + 1, Len(m.payload))
-----------------------------------------------------------------------------
(* The << operators: the bytes of an item are appended. *)

\* Slip: the size of the header is left alone.
PutKeepsSize(m, bytes) == [m EXCEPT !.payload = @ \o bytes]

Put(m, bytes) ==
    [m EXCEPT !.payload = @ \o bytes, !.size = (@ + Len(bytes)) % Place(FieldSize)]

StringBytes(s) == s \o <<0>>

\* The length, always as four bytes: the operator that would choose another
\* size comes to its end without returning, and so cannot be called.
ListBytes(l, big) == ToMemory(Len(l), FieldSize, big) \o l
-----------------------------------------------------------------------------
(* The >> operators. *)

\* Slip: what was read is not taken off the size.
SkipKeepsSize(m, n) == [m EXCEPT !.readPosition = @ + n]

Skip(m, n) ==
    [m EXCEPT !.readPosition = @ + n, !.size = (@ - n) % Place(FieldSize)]

\* >> of a value of n bytes throws when they are not there.  (The bytes it
\* gives are the first ones of the payload, wherever readPosition is.)
HasValue(m, n) == m.readPosition + n <= Len(m.payload)

\* How many bytes >> of a string may take: it looks for a zero byte in the
\* rest of the payload, and throws without one.  A search that starts behind
\* the end is undefined, and may meet a zero among the bytes that were there
\* before: `stale' bounds how far.
StringSizes(m, stale) ==
    IF m.readPosition > Len(m.payload) THEN 1..stale
    ELSE {SelectInSeq(Rest(m), LAMBDA b : b = 0)} \ {0}
-----------------------------------------------------------------------------
(* Setters. *)

\* The largest int, which is as wide as an LNet4Byte.
IntMax == Place(FieldSize) \div 2 - 1

\* vector::resize to value - 8 as an int, which throws when that is negative:
\* for a size below that of a header, and for one that an int cannot hold.
Resizable(value) == value - LNET_HEADER_SIZE \in 0..IntMax

setMsgSize(m, value) ==
    [m EXCEPT !.size = value,
              !.payload = [i \in 1..(value - LNET_HEADER_SIZE) |->
                              IF i <= Len(@) THEN @[i] ELSE 0]]

\* The size becomes zero, not that of a header, and readPosition stays.
clear(m) == [m EXCEPT !.type = 0, !.size = 0, !.payload = <<>>]
-----------------------------------------------------------------------------
(* The network. *)

netHeader(m, big) ==
    LET field(v) == ToMemory(toNetworkEndian(v, FieldSize, big), FieldSize, big)
    IN  field(m.type) \o field(m.size)

\* Slip: the whole payload is sent, whatever was read of it.
toConstBuffersWhole(m, big) == netHeader(m, big) \o m.payload

\* The header and what is left to read, if anything is.
toConstBuffers(m, big) == netHeader(m, big) \o Rest(m)

\* The fields of a received header.
TypeOf(header, big) ==
    fromNetworkEndian(FromMemory(SubSeq(header, 1, FieldSize), big), FieldSize, big)
SizeOf(header, big) ==
    fromNetworkEndian(FromMemory(SubSeq(header, FieldSize + 1, LNET_HEADER_SIZE), big),
                      FieldSize, big)

\* The constructors from a buffer: a size beyond the header is believed, one
\* below it means an empty payload.
FromBuffer(bytes, big) ==
    LET size == SizeOf(bytes, big)
    IN  [type |-> TypeOf(bytes, big), size |-> size, readPosition |-> 0,
         payload |-> SubSeq(bytes, LNET_HEADER_SIZE + 1, size)]
=============================================================================
