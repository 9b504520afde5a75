----------------------------- MODULE ByteOrder -----------------------------
(***************************************************************************)
(* LNetEndiannessHandler, of which LNetStream and LNetLibrary have a copy  *)
(* each, on a system that is big endian or not.  A byte has ByteRange      *)
(* values; shifts move whole bytes.  LNetStream converts values of one and *)
(* two bytes, LNetLibrary values of four; none of eight.                   *)
(***************************************************************************)
EXTENDS Naturals, Sequences, SequencesExt

CONSTANT ByteRange  \* number of values of an LNetByte, 256 in the code

ASSUME ByteAssumption == ByteRange \in Nat /\ ByteRange > 1

Byte == 0..(ByteRange - 1)

\* What a 1 stands for in the byte above i others: ByteRange to the i, for the
\* sizes there are.  So values of n bytes are below Place(n).
Place(i) ==
    <<1, ByteRange, ByteRange * ByteRange, ByteRange * ByteRange * ByteRange,
      ByteRange * ByteRange * ByteRange * ByteRange>>[i + 1]

(* Memory: memcpy from a variable of n bytes, and of n bytes to a variable. *)

LittleEndian(v, n) == [i \in 1..n |-> (v \div Place(i - 1)) % ByteRange]

\* The bytes of a variable, least significant first, are its memory or the
\* reverse of it; and the same the other way.
InOrder(bytes, big) == IF big THEN Reverse(bytes) ELSE bytes

ToMemory(v, n, big) == InOrder(LittleEndian(v, n), big)

FromMemory(bytes, big) ==
    LET low == InOrder(bytes, big)
        value[i \in 0..Len(bytes)] ==
            IF i = 0 THEN 0 ELSE value[i - 1] + low[i] * Place(i - 1)
    IN  value[Len(bytes)]
-----------------------------------------------------------------------------
(* The handler. *)

\* Slip: the other byte of the two is looked at.
isSystemBigEndianHigh(big) == ToMemory(1, 2, big)[2] = 0

\* The first byte in memory of a two byte 1 is zero.
isSystemBigEndian(big) == ToMemory(1, 2, big)[1] = 0

\* Slip: what is shifted is not cast back to two bytes.
swapEndianNoCast(v, n) == v \div ByteRange + v * ByteRange

\* One byte; (value >> 8) | (value << 8) cast back to two bytes; four bytes,
\* each masked and shifted to its place.
swapEndian(v, n) ==
    CASE n = 1 -> v
      [] n = 2 -> (v \div ByteRange + v * ByteRange) % Place(2)
      [] n = 4 -> LET moved(from, to) == ((v \div Place(from)) % ByteRange) * Place(to)
                  IN  moved(3, 0) + moved(2, 1) + moved(1, 2) + moved(0, 3)

toNetworkEndian(v, n, big) == IF isSystemBigEndian(big) THEN swapEndian(v, n) ELSE v

fromNetworkEndian(v, n, big) == IF isSystemBigEndian(big) THEN swapEndian(v, n) ELSE v
=============================================================================
