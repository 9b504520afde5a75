-------------------------- MODULE ByteOrderProofs --------------------------
(***************************************************************************)
(* The byte order of values on the network, for any number of byte values: *)
(* toNetworkEndian makes them little endian on a system of either order,   *)
(* and fromNetworkEndian gives back, on either, what was sent.             *)
(***************************************************************************)
EXTENDS ByteOrder, SequenceTheorems, TLAPS

-----------------------------------------------------------------------------
(* Sequences. *)

LEMMA EmptyIsSeq == ASSUME NEW S PROVE <<>> \in Seq(S) /\ Len(<<>>) = 0
BY EmptySeq

LEMMA OneElement == ASSUME NEW S, NEW e \in S PROVE <<e>> \in Seq(S) /\ Len(<<e>>) = 1
OBVIOUS

\* A sequence is cut in two.
LEMMA Cut ==
    ASSUME NEW S, NEW s \in Seq(S), NEW n \in 0..Len(s)
    PROVE  /\ SubSeq(s, 1, n) \in Seq(S) /\ Len(SubSeq(s, 1, n)) = n
           /\ SubSeq(s, n + 1, Len(s)) \in Seq(S) /\ Len(SubSeq(s, n + 1, Len(s))) = Len(s) - n
           /\ SubSeq(s, 1, n) \o SubSeq(s, n + 1, Len(s)) = s
<1>0. Len(s) \in Nat
  BY LenProperties
<1>1. \A i \in 1..Len(s) : s[i] \in S
  BY ElementOfSeq
<1>2. SubSeq(s, 1, n) \in Seq(S) /\ Len(SubSeq(s, 1, n)) = n
  BY <1>0, <1>1, SubSeqProperties
<1>3. SubSeq(s, n + 1, Len(s)) \in Seq(S) /\ Len(SubSeq(s, n + 1, Len(s))) = Len(s) - n
  BY <1>0, <1>1, SubSeqProperties
<1>4. SubSeq(s, 1, n) \o SubSeq(s, n + 1, Len(s)) = SubSeq(s, 1, Len(s))
  <2>1. 1 \in 1..Len(s) + 1 /\ n \in 1 - 1..Len(s) /\ Len(s) \in n..Len(s)
    BY <1>0
  <2>. QED
    BY <2>1, ConcatAdjacentSubSeq
<1>. QED
  BY <1>2, <1>3, <1>4, SubSeqFull

-----------------------------------------------------------------------------
(* Division. *)

LEMMA DivMod ==
    ASSUME NEW v \in Nat, NEW m \in Nat \ {0}
    PROVE  v = (v \div m) * m + (v % m) /\ v \div m \in Nat /\ v % m \in 0..(m - 1)
OBVIOUS

LEMMA QuotientUnique ==
    ASSUME NEW q \in Nat, NEW p \in Nat, NEW m \in Nat \ {0},
           NEW r \in 0..(m - 1), NEW s \in 0..(m - 1), q * m + r = p * m + s
    PROVE  q = p /\ r = s
<1>1. ASSUME NEW x \in Nat, NEW y \in Nat, x < y PROVE x * m + m <= y * m
  <2>1. PICK d \in Nat : y = x + 1 + d
    <3>1. y - x - 1 \in Nat /\ y = x + 1 + (y - x - 1)
      BY <1>1
    <3>. QED
      BY <3>1
  <2>2. y * m = x * m + m + d * m
    BY <2>1
  <2>3. d * m >= 0
    OBVIOUS
  <2>. QED
    BY <2>2, <2>3
<1>2. q * m \in Nat /\ p * m \in Nat
  OBVIOUS
<1>3. ~(q < p) /\ ~(p < q)
  BY <1>1, <1>2
<1>. QED
  BY <1>3

LEMMA Division ==
    ASSUME NEW m \in Nat \ {0}, NEW q \in Nat, NEW r \in 0..(m - 1)
    PROVE  (q * m + r) \div m = q /\ (q * m + r) % m = r
<1>1. q * m + r \in Nat
  OBVIOUS
<1>. QED
  BY <1>1, DivMod, QuotientUnique

LEMMA DivDiv ==
    ASSUME NEW v \in Nat, NEW a \in Nat \ {0}, NEW b \in Nat \ {0}
    PROVE  v \div (a * b) = (v \div a) \div b
<1> DEFINE q1 == v \div a   r1 == v % a
           q2 == q1 \div b  r2 == q1 % b
<1>1. v = q1 * a + r1 /\ q1 \in Nat /\ r1 \in 0..(a - 1)
  BY DivMod
<1>2. q1 = q2 * b + r2 /\ q2 \in Nat /\ r2 \in 0..(b - 1)
  BY <1>1, DivMod
<1> HIDE DEF q1, r1, q2, r2
<1>3. v = q2 * (a * b) + (r2 * a + r1)
  BY <1>1, <1>2
<1>4. r2 * a + r1 \in 0..(a * b - 1) /\ a * b \in Nat \ {0}
  <2>1. PICK d \in Nat : b = r2 + 1 + d
    <3>1. b - r2 - 1 \in Nat /\ b = r2 + 1 + (b - r2 - 1)
      BY <1>2
    <3>. QED
      BY <3>1
  <2>2. a * b = r2 * a + a + a * d
    BY <1>2, <2>1
  <2>3. a * d \in Nat /\ r2 * a \in Nat
    BY <1>2, <2>1
  <2>. QED
    BY <1>1, <2>2, <2>3
<1>5. v \div (a * b) = q2
  BY <1>2, <1>3, <1>4, Division
<1>. QED
  BY <1>5 DEF q2, q1
-----------------------------------------------------------------------------
(* Values of one, two and four bytes. *)

LEMMA Places ==
    /\ Place(0) = 1 /\ Place(1) = ByteRange /\ Place(2) = ByteRange * ByteRange
    /\ Place(3) = ByteRange * ByteRange * ByteRange
    /\ Place(4) = ByteRange * ByteRange * ByteRange * ByteRange
BY ByteAssumption DEF Place

LEMMA PlaceType == \A i \in 0..4 : Place(i) \in Nat \ {0}
<1>1. ASSUME NEW a \in Nat \ {0} PROVE a * ByteRange \in Nat \ {0}
  BY ByteAssumption
<1>2. ByteRange \in Nat \ {0}
  BY ByteAssumption
<1>3. /\ ByteRange * ByteRange \in Nat \ {0}
      /\ ByteRange * ByteRange * ByteRange \in Nat \ {0}
      /\ ByteRange * ByteRange * ByteRange * ByteRange \in Nat \ {0}
  BY <1>1, <1>2
<1>4. \A i \in 0..4 : i = 0 \/ i = 1 \/ i = 2 \/ i = 3 \/ i = 4
  OBVIOUS
<1>. QED
  BY <1>2, <1>3, <1>4, Places

LEMMA PlaceStep == \A i \in 0..3 : Place(i + 1) = Place(i) * ByteRange
<1>1. \A i \in 0..3 : i = 0 \/ i = 1 \/ i = 2 \/ i = 3
  OBVIOUS
<1>. QED
  BY <1>1, Places, ByteAssumption

\* Byte i of a value, counted from the least significant one, which is 0.
ByteOf(v, i) == (v \div Place(i)) % ByteRange

LEMMA ByteOfType == ASSUME NEW v \in Nat, NEW i \in 0..4 PROVE ByteOf(v, i) \in Byte
<1>1. v \div Place(i) \in Nat
  BY PlaceType, DivMod
<1>2. ASSUME NEW q \in Nat PROVE q % ByteRange \in Byte
  BY ByteAssumption DEF Byte
<1>. QED
  BY <1>1, <1>2 DEF ByteOf

\* What the bytes of a value stand for.
Sum2(a, b) == a + b * ByteRange
Sum4(a, b, c, d) ==
    a + b * ByteRange + c * (ByteRange * ByteRange) + d * (ByteRange * ByteRange * ByteRange)

\* Multiples of the number of byte values, and what is below them.
LEMMA Below ==
    ASSUME NEW x \in Nat, NEW r \in Nat, NEW m \in Nat, x * ByteRange + r < m * ByteRange
    PROVE  x < m
<1>1. SUFFICES ASSUME m <= x PROVE FALSE
  OBVIOUS
<1>2. PICK d \in Nat : x = m + d
  <2>1. x - m \in Nat /\ x = m + (x - m)
    BY <1>1
  <2>. QED
    BY <2>1
<1>3. x * ByteRange = m * ByteRange + d * ByteRange
  BY <1>2, ByteAssumption
<1>4. d * ByteRange \in Nat /\ m * ByteRange \in Nat
  BY <1>2, ByteAssumption
<1>. QED
  BY <1>3, <1>4

\* A value is the sum of its bytes, and a sum has the bytes it is made of.
LEMMA ValueOfBytes ==
    ASSUME NEW v \in Nat
    PROVE  /\ v < Place(1) => v = ByteOf(v, 0)
           /\ v < Place(2) => v = Sum2(ByteOf(v, 0), ByteOf(v, 1))
           /\ v < Place(4) => v = Sum4(ByteOf(v, 0), ByteOf(v, 1), ByteOf(v, 2), ByteOf(v, 3))
<1> DEFINE B == ByteRange
           q1 == v \div B   q2 == q1 \div B   q3 == q2 \div B   q4 == q3 \div B
<1>0. B \in Nat \ {0} /\ B > 1
  BY ByteAssumption
<1>1. /\ v = q1 * B + (v % B) /\ q1 \in Nat /\ v % B \in 0..(B - 1)
      /\ q1 = q2 * B + (q1 % B) /\ q2 \in Nat /\ q1 % B \in 0..(B - 1)
      /\ q2 = q3 * B + (q2 % B) /\ q3 \in Nat /\ q2 % B \in 0..(B - 1)
      /\ q3 = q4 * B + (q3 % B) /\ q4 \in Nat /\ q3 % B \in 0..(B - 1)
  BY <1>0, DivMod
<1>2. /\ v \div Place(0) = v /\ v \div Place(1) = q1
      /\ v \div Place(2) = q2 /\ v \div Place(3) = q3
  <2>1. v \div 1 = v
    OBVIOUS
  <2>2. v \div (B * B) = q2
    BY <1>0, DivDiv
  <2>3. v \div (B * B * B) = (v \div (B * B)) \div B
    <3>1. B * B \in Nat \ {0}
      BY PlaceType, Places
    <3>. QED
      BY <1>0, <3>1, DivDiv
  <2>. QED
    BY <2>1, <2>2, <2>3, Places
<1>3. /\ ByteOf(v, 0) = v % B /\ ByteOf(v, 1) = q1 % B
      /\ ByteOf(v, 2) = q2 % B /\ ByteOf(v, 3) = q3 % B
  BY <1>2 DEF ByteOf
<1> DEFINE d0 == v % B   d1 == q1 % B   d2 == q2 % B   d3 == q3 % B
<1>4. /\ ByteOf(v, 0) = d0 /\ ByteOf(v, 1) = d1 /\ ByteOf(v, 2) = d2 /\ ByteOf(v, 3) = d3
      /\ d0 \in Nat /\ d1 \in Nat /\ d2 \in Nat /\ d3 \in Nat
      /\ v = q1 * B + d0 /\ q1 = q2 * B + d1 /\ q2 = q3 * B + d2 /\ q3 = q4 * B + d3
  BY <1>1, <1>3
<1> HIDE DEF q1, q2, q3, q4, d0, d1, d2, d3
<1>5. ASSUME NEW x \in Nat, NEW y \in Nat, NEW d \in Nat, y = x * B + d, y < B
      PROVE  x = 0 /\ y = d
  <2>1. 1 * B = B /\ 0 * B = 0
    BY <1>0
  <2>2. x < 1
    BY <1>5, <2>1, Below
  <2>. QED
    BY <1>5, <2>1, <2>2
<1>6. ASSUME v < Place(1) PROVE v = d0
  BY <1>0, <1>1, <1>4, <1>5, <1>6, Places
<1>7. ASSUME v < Place(2) PROVE v = Sum2(d0, d1)
  <2>1. q1 < B
    BY <1>0, <1>1, <1>4, <1>7, Places, Below
  <2>2. q1 = d1
    BY <1>0, <1>1, <1>4, <1>5, <2>1
  <2>3. v = d1 * B + d0
    BY <1>4, <2>2
  <2>. QED
    BY <1>0, <1>4, <2>3 DEF Sum2
<1>8. ASSUME v < Place(4) PROVE v = Sum4(d0, d1, d2, d3)
  <2>0. B * B \in Nat /\ B * B * B \in Nat
    BY <1>0
  <2>1. q1 < B * B * B
    BY <1>0, <1>1, <1>4, <1>8, <2>0, Places, Below
  <2>2. q2 < B * B
    BY <1>0, <1>1, <1>4, <2>0, <2>1, Below
  <2>3. q3 < B
    BY <1>0, <1>1, <1>4, <2>0, <2>2, Below
  <2>4. q3 = d3
    BY <1>0, <1>1, <1>4, <1>5, <2>3
  <2>5. v = ((d3 * B + d2) * B + d1) * B + d0
    BY <1>4, <2>4
  <2>. QED
    BY <1>0, <1>4, <2>5 DEF Sum4
<1> QED
  BY <1>4, <1>6, <1>7, <1>8

LEMMA SumStep ==
    ASSUME NEW a \in Byte, NEW x \in Nat, NEW m \in Nat \ {0}, x < m
    PROVE  /\ x * ByteRange + a \in Nat /\ x * ByteRange + a < m * ByteRange
           /\ (x * ByteRange + a) \div ByteRange = x
           /\ (x * ByteRange + a) % ByteRange = a
<1>1. ByteRange \in Nat \ {0} /\ a \in 0..(ByteRange - 1)
  BY ByteAssumption DEF Byte
<1>2. PICK d \in Nat : m = x + 1 + d
  <2>1. m - x - 1 \in Nat /\ m = x + 1 + (m - x - 1)
    OBVIOUS
  <2>. QED
    BY <2>1
<1>3. m * ByteRange = x * ByteRange + ByteRange + d * ByteRange
  BY <1>1, <1>2
<1>4. d * ByteRange \in Nat /\ x * ByteRange \in Nat
  BY <1>1, <1>2
<1>5. x * ByteRange + a \in Nat /\ x * ByteRange + a < m * ByteRange
  BY <1>1, <1>3, <1>4
<1>6. (x * ByteRange + a) \div ByteRange = x /\ (x * ByteRange + a) % ByteRange = a
  BY <1>1, Division
<1>. QED
  BY <1>5, <1>6

LEMMA BytesOfValue ==
    ASSUME NEW a \in Byte, NEW b \in Byte, NEW c \in Byte, NEW d \in Byte
    PROVE  /\ a \in Nat /\ a < Place(1) /\ ByteOf(a, 0) = a
           /\ Sum2(a, b) \in Nat /\ Sum2(a, b) < Place(2)
           /\ ByteOf(Sum2(a, b), 0) = a /\ ByteOf(Sum2(a, b), 1) = b
           /\ Sum4(a, b, c, d) \in Nat /\ Sum4(a, b, c, d) < Place(4)
           /\ ByteOf(Sum4(a, b, c, d), 0) = a /\ ByteOf(Sum4(a, b, c, d), 1) = b
           /\ ByteOf(Sum4(a, b, c, d), 2) = c /\ ByteOf(Sum4(a, b, c, d), 3) = d
<1> DEFINE B == ByteRange
<1>0. B \in Nat \ {0} /\ B * B \in Nat \ {0} /\ B * B * B \in Nat \ {0}
  BY PlaceType, Places, ByteAssumption
<1>1. a \in Nat /\ a < B /\ b \in Nat /\ b < B /\ c \in Nat /\ c < B /\ d \in Nat /\ d < B
  BY ByteAssumption DEF Byte
<1>2. \A x \in Nat : x < B => x \div 1 = x /\ x % B = x
  BY <1>0
<1>3. \A x \in Nat : x \div 1 = x
  OBVIOUS
<1> DEFINE x1 == d * B + c   x2 == x1 * B + b   x3 == x2 * B + a
           y1 == b * B + a
<1>4. y1 \in Nat /\ y1 < B * B /\ y1 \div B = b /\ y1 % B = a
  BY <1>0, <1>1, SumStep
<1>5. x1 \in Nat /\ x1 < B * B /\ x1 \div B = d /\ x1 % B = c
  BY <1>0, <1>1, SumStep
<1>6. x2 \in Nat /\ x2 < B * B * B /\ x2 \div B = x1 /\ x2 % B = b
  BY <1>0, <1>5, SumStep
<1>7. x3 \in Nat /\ x3 < B * B * B * B /\ x3 \div B = x2 /\ x3 % B = a
  BY <1>0, <1>6, SumStep
<1>8. Sum2(a, b) = y1
  BY <1>0, <1>1 DEF Sum2
<1>9. Sum4(a, b, c, d) = x3
  BY <1>0, <1>1 DEF Sum4
<1> HIDE DEF x1, x2, x3, y1
<1>10. x3 \div (B * B) = x1 /\ x3 \div (B * B * B) = d
  <2>1. x3 \div (B * B) = x1
    BY <1>0, <1>6, <1>7, DivDiv
  <2>2. x3 \div (B * B * B) = (x3 \div (B * B)) \div B
    BY <1>0, <1>7, DivDiv
  <2>. QED
    BY <1>5, <2>1, <2>2
<1>11. ByteOf(a, 0) = a
  BY <1>1, <1>2, Places DEF ByteOf
<1>12. ByteOf(y1, 0) = a /\ ByteOf(y1, 1) = b
  BY <1>1, <1>2, <1>3, <1>4, Places DEF ByteOf
<1>13. ByteOf(x3, 0) = a /\ ByteOf(x3, 1) = b /\ ByteOf(x3, 2) = c /\ ByteOf(x3, 3) = d
  BY <1>1, <1>2, <1>3, <1>5, <1>6, <1>7, <1>10, Places DEF ByteOf
<1>. QED
  BY <1>1, <1>4, <1>7, <1>8, <1>9, <1>11, <1>12, <1>13, Places
-----------------------------------------------------------------------------
(* Memory. *)

Width == {1, 2, 4}

LEMMA LittleEndianBytes ==
    ASSUME NEW v \in Nat, NEW n \in 1..4
    PROVE  /\ LittleEndian(v, n) \in Seq(Byte) /\ Len(LittleEndian(v, n)) = n
           /\ \A i \in 1..n : LittleEndian(v, n)[i] = ByteOf(v, i - 1)
<1>1. LittleEndian(v, n) = [i \in 1..n |-> ByteOf(v, i - 1)]
  BY DEF LittleEndian, ByteOf
<1>2. \A i \in 1..n : ByteOf(v, i - 1) \in Byte
  <2>1. \A i \in 1..n : i - 1 \in 0..4
    OBVIOUS
  <2>. QED
    BY <2>1, ByteOfType
<1>. QED
  BY <1>1, <1>2

LEMMA InOrderBytes ==
    ASSUME NEW bytes \in Seq(Byte), NEW big \in BOOLEAN
    PROVE  /\ InOrder(bytes, big) \in Seq(Byte) /\ Len(InOrder(bytes, big)) = Len(bytes)
           /\ \A i \in 1..Len(bytes) :
                 InOrder(bytes, big)[i] = IF big THEN bytes[Len(bytes) - i + 1] ELSE bytes[i]
           /\ InOrder(InOrder(bytes, big), big) = bytes
<1> DEFINE r == Reverse(bytes)
<1>1. r = [i \in 1..Len(bytes) |-> bytes[(Len(bytes) - i) + 1]] /\ Len(bytes) \in Nat
  BY DEF Reverse
<1>2. \A i \in 1..Len(bytes) : bytes[(Len(bytes) - i) + 1] \in Byte
  <2>1. \A i \in 1..Len(bytes) : (Len(bytes) - i) + 1 \in 1..Len(bytes)
    BY <1>1
  <2>. QED
    BY <2>1, ElementOfSeq
<1>3. r \in Seq(Byte) /\ Len(r) = Len(bytes)
  BY <1>1, <1>2
<1>4. Reverse(r) = bytes
  <2>1. Reverse(r) = [i \in 1..Len(r) |-> r[(Len(r) - i) + 1]]
    BY DEF Reverse
  <2>2. \A i \in 1..Len(bytes) : r[(Len(bytes) - i) + 1] = bytes[i]
    <3>1. \A i \in 1..Len(bytes) : /\ (Len(bytes) - i) + 1 \in 1..Len(bytes)
                                   /\ (Len(bytes) - ((Len(bytes) - i) + 1)) + 1 = i
      BY <1>1
    <3>. QED
      BY <1>1, <3>1
  <2>3. Reverse(r) \in Seq(Byte) /\ Len(Reverse(r)) = Len(bytes)
    <3>1. \A i \in 1..Len(bytes) : bytes[i] \in Byte
      BY ElementOfSeq
    <3>2. Reverse(r) = [i \in 1..Len(bytes) |-> bytes[i]]
      BY <1>3, <2>1, <2>2
    <3>. QED
      BY <1>1, <3>1, <3>2
  <2>. QED
    BY <1>3, <2>1, <2>2, <2>3, SeqEqual
<1>5. CASE big
  BY <1>1, <1>3, <1>4, <1>5 DEF InOrder
<1>6. CASE ~big
  BY <1>6 DEF InOrder
<1>. QED
  BY <1>5, <1>6

\* The bytes of a variable, in either order, are the sum that it holds.
LEMMA FromMemoryIsSum ==
    ASSUME NEW bytes \in Seq(Byte), NEW big \in BOOLEAN, Len(bytes) \in Width
    PROVE  LET low == InOrder(bytes, big) IN
           /\ Len(bytes) = 1 => FromMemory(bytes, big) = low[1]
           /\ Len(bytes) = 2 => FromMemory(bytes, big) = Sum2(low[1], low[2])
           /\ Len(bytes) = 4 => FromMemory(bytes, big) = Sum4(low[1], low[2], low[3], low[4])
<1> DEFINE low == InOrder(bytes, big)
           n == Len(bytes)
           P(f) == f = [i \in 0..n |-> IF i = 0 THEN 0 ELSE f[i - 1] + low[i] * Place(i - 1)]
           s1 == low[1]
           s2 == s1 + low[2] * Place(1)
           s3 == s2 + low[3] * Place(2)
           s4 == s3 + low[4] * Place(3)
           g == [i \in 0..n |-> IF i = 0 THEN 0 ELSE IF i = 1 THEN s1 ELSE IF i = 2 THEN s2
                                ELSE IF i = 3 THEN s3 ELSE s4]
           h == CHOOSE f : P(f)
<1>1. \A i \in 1..n : low[i] \in Nat
  <2>1. \A i \in 1..n : low[i] \in Byte
    BY InOrderBytes, ElementOfSeq
  <2>. QED
    BY <2>1, ByteAssumption DEF Byte
<1>2. n \in {1, 2, 4} /\ Place(0) = 1
  BY Places DEF Width
<1>3. FromMemory(bytes, big) = h[n]
  BY DEF FromMemory
<1> HIDE DEF low, n
<1>4. P(g)
  <2>1. ASSUME NEW i \in 0..n PROVE g[i] = IF i = 0 THEN 0 ELSE g[i - 1] + low[i] * Place(i - 1)
    <3>1. CASE i = 0
      BY <3>1, <1>2
    <3>2. CASE i = 1
      <4>1. low[1] \in Nat /\ g[0] = 0 /\ g[1] = low[1]
        BY <1>1, <1>2, <3>2
      <4>. QED
        BY <1>2, <3>2, <4>1
    <3>3. CASE i = 2
      BY <1>2, <3>3
    <3>4. CASE i = 3
      BY <1>2, <3>4
    <3>5. CASE i = 4
      BY <1>2, <3>5
    <3>. QED
      BY <1>2, <3>1, <3>2, <3>3, <3>4, <3>5
  <2>. QED
    BY <2>1
<1>5. P(h)
  BY <1>4, Zenon
<1> HIDE DEF g, h
<1>6. n >= 1 => h[0] = 0 /\ h[1] = h[0] + low[1] * Place(0)
  BY <1>2, <1>5
<1>7. n >= 2 => h[2] = h[1] + low[2] * Place(1)
  BY <1>2, <1>5
<1>8. n >= 4 => h[3] = h[2] + low[3] * Place(2) /\ h[4] = h[3] + low[4] * Place(3)
  BY <1>2, <1>5
<1>9. h[1] = low[1]
  BY <1>1, <1>2, <1>6
<1>10. n = 2 => h[2] = Sum2(low[1], low[2])
  BY <1>7, <1>9, Places DEF Sum2
<1>11. n = 4 => h[4] = Sum4(low[1], low[2], low[3], low[4])
  BY <1>7, <1>8, <1>9, Places DEF Sum4
<1>. QED
  BY <1>3, <1>9, <1>10, <1>11 DEF low, n
-----------------------------------------------------------------------------
(* The handler. *)

\* A system stores a 1 with its only set byte last exactly if it is big endian.
LEMMA SystemOrder == ASSUME NEW big \in BOOLEAN PROVE isSystemBigEndian(big) <=> big
<1>1. 0 \in Byte /\ 1 \in Byte
  BY ByteAssumption DEF Byte
<1>2. Sum2(1, 0) = 1
  BY ByteAssumption DEF Sum2
<1>3. ByteOf(1, 0) = 1 /\ ByteOf(1, 1) = 0
  BY <1>1, <1>2, BytesOfValue
<1>4. /\ LittleEndian(1, 2) \in Seq(Byte) /\ Len(LittleEndian(1, 2)) = 2
      /\ LittleEndian(1, 2)[1] = 1 /\ LittleEndian(1, 2)[2] = 0
  BY <1>3, LittleEndianBytes
<1> DEFINE le == LittleEndian(1, 2)
<1> HIDE DEF le
<1>5. InOrder(le, big)[1] = IF big THEN le[2] ELSE le[1]
  BY <1>4, InOrderBytes DEF le
<1>. QED
  BY <1>4, <1>5 DEF isSystemBigEndian, ToMemory, le

\* Values of n bytes.
Word(n) == 0..(Place(n) - 1)

\* Two values with the same bytes are the same.
LEMMA SameBytes ==
    ASSUME NEW n \in Width, NEW v \in Word(n), NEW w \in Word(n),
           LittleEndian(v, n) = LittleEndian(w, n)
    PROVE  v = w
<1>1. v \in Nat /\ w \in Nat /\ v < Place(n) /\ w < Place(n)
  BY PlaceType DEF Word, Width
<1>2. n \in 1..4 /\ n \in {1, 2, 4}
  BY DEF Width
<1>3. \A i \in 1..n : ByteOf(v, i - 1) = ByteOf(w, i - 1)
  <2>0. n \in 1..4
    BY <1>2
  <2>1. \A i \in 1..n : LittleEndian(v, n)[i] = ByteOf(v, i - 1)
    BY <1>1, <2>0, LittleEndianBytes
  <2>2. \A i \in 1..n : LittleEndian(w, n)[i] = ByteOf(w, i - 1)
    BY <1>1, <2>0, LittleEndianBytes
  <2>. QED
    BY <2>1, <2>2
<1>4. /\ n >= 1 => ByteOf(v, 0) = ByteOf(w, 0)
      /\ n >= 2 => ByteOf(v, 1) = ByteOf(w, 1)
      /\ n >= 4 => ByteOf(v, 2) = ByteOf(w, 2) /\ ByteOf(v, 3) = ByteOf(w, 3)
  <2>1. ASSUME NEW i \in 1..4, NEW j \in 0..3, i <= n, j = i - 1 PROVE ByteOf(v, j) = ByteOf(w, j)
    BY <1>2, <1>3, <2>1
  <2>. QED
    BY <1>2, <2>1
<1>. QED
  BY <1>1, <1>2, <1>4, ValueOfBytes

\* swapEndian turns the bytes of a value round.
LEMMA SwapTurns ==
    ASSUME NEW n \in Width, NEW v \in Word(n)
    PROVE  swapEndian(v, n) \in Word(n) /\ LittleEndian(swapEndian(v, n), n) = Reverse(LittleEndian(v, n))
<1> DEFINE b0 == ByteOf(v, 0)   b1 == ByteOf(v, 1)   b2 == ByteOf(v, 2)   b3 == ByteOf(v, 3)
           s == swapEndian(v, n)
<1>1. v \in Nat /\ v < Place(n) /\ n \in 1..4 /\ n \in {1, 2, 4}
  BY PlaceType DEF Word, Width
<1>2. b0 \in Byte /\ b1 \in Byte /\ b2 \in Byte /\ b3 \in Byte
  BY <1>1, ByteOfType
<1>3. /\ n = 1 => s = b0
      /\ n = 2 => s = Sum2(b1, b0)
      /\ n = 4 => s = Sum4(b3, b2, b1, b0)
  <2>1. CASE n = 1
    BY <1>1, <2>1, ValueOfBytes DEF swapEndian
  <2>2. CASE n = 2
    <3>1. s = (v \div ByteRange + v * ByteRange) % Place(2)
      BY <2>2 DEF swapEndian
    <3>2. v = b0 + b1 * ByteRange /\ b0 \in Nat /\ b1 \in Nat /\ ByteRange \in Nat
      BY <1>1, <1>2, <2>2, ValueOfBytes, ByteAssumption DEF Sum2, Byte
    <3>3. v = b1 * ByteRange + b0
      BY <3>2
    <3> HIDE DEF b0, b1, s
    <3>4. v \div ByteRange = b1
      <4>1. b0 \in 0..(ByteRange - 1) /\ ByteRange \in Nat \ {0}
        BY <1>2, ByteAssumption DEF Byte
      <4>2. (b1 * ByteRange + b0) \div ByteRange = b1
        BY <3>2, <4>1, Division
      <4>. QED
        BY <3>3, <4>2
    <3>5. v \div ByteRange + v * ByteRange = b1 * (ByteRange * ByteRange) + Sum2(b1, b0)
      <4>1. (b1 * ByteRange + b0) * ByteRange = b1 * (ByteRange * ByteRange) + b0 * ByteRange
        BY <3>2
      <4>2. v * ByteRange = b1 * (ByteRange * ByteRange) + b0 * ByteRange
        BY <3>3, <4>1
      <4>. QED
        BY <3>2, <3>4, <4>2 DEF Sum2
    <3>6. Sum2(b1, b0) \in 0..(ByteRange * ByteRange - 1) /\ ByteRange * ByteRange \in Nat \ {0}
      BY <1>2, BytesOfValue, Places, PlaceType
    <3>7. (b1 * (ByteRange * ByteRange) + Sum2(b1, b0)) % (ByteRange * ByteRange) = Sum2(b1, b0)
      BY <3>2, <3>6, Division
    <3>. QED
      BY <2>2, <3>1, <3>5, <3>7, Places
  <2>3. CASE n = 4
    <3>1. s = b3 * Place(0) + b2 * Place(1) + b1 * Place(2) + b0 * Place(3)
      BY <2>3 DEF swapEndian, ByteOf
    <3>2. b0 \in Nat /\ b1 \in Nat /\ b2 \in Nat /\ b3 \in Nat
      BY <1>2, ByteAssumption DEF Byte
    <3> HIDE DEF b0, b1, b2, b3, s
    <3>. QED
      BY <2>3, <3>1, <3>2, Places, ByteAssumption DEF Sum4
  <2>. QED
    BY <1>1, <2>1, <2>2, <2>3
<1> HIDE DEF b0, b1, b2, b3, s
<1>4. s \in Nat /\ s < Place(n)
  BY <1>1, <1>2, <1>3, BytesOfValue
<1>5. /\ n = 1 => ByteOf(s, 0) = b0
      /\ n = 2 => ByteOf(s, 0) = b1 /\ ByteOf(s, 1) = b0
      /\ n = 4 => ByteOf(s, 0) = b3 /\ ByteOf(s, 1) = b2 /\ ByteOf(s, 2) = b1 /\ ByteOf(s, 3) = b0
  BY <1>2, <1>3, BytesOfValue
<1> DEFINE lv == LittleEndian(v, n)   ls == LittleEndian(s, n)
<1>6. /\ lv \in Seq(Byte) /\ Len(lv) = n /\ \A i \in 1..n : lv[i] = ByteOf(v, i - 1)
      /\ ls \in Seq(Byte) /\ Len(ls) = n /\ \A i \in 1..n : ls[i] = ByteOf(s, i - 1)
  BY <1>1, <1>4, LittleEndianBytes
<1> HIDE DEF lv, ls
<1>7. /\ Reverse(lv) \in Seq(Byte) /\ Len(Reverse(lv)) = n
      /\ \A i \in 1..n : Reverse(lv)[i] = lv[n - i + 1]
  <2>1. InOrder(lv, TRUE) = Reverse(lv)
    BY DEF InOrder
  <2>2. /\ InOrder(lv, TRUE) \in Seq(Byte) /\ Len(InOrder(lv, TRUE)) = Len(lv)
        /\ \A i \in 1..Len(lv) :
              InOrder(lv, TRUE)[i] = IF TRUE THEN lv[Len(lv) - i + 1] ELSE lv[i]
    BY <1>6, InOrderBytes
  <2>. QED
    BY <1>6, <2>1, <2>2
<1>8. \A i \in 1..n : ls[i] = Reverse(lv)[i]
  <2>1. CASE n = 1
    <3>1. ls[1] = b0 /\ lv[1] = b0 /\ Reverse(lv)[1] = lv[1]
      BY <1>5, <1>6, <1>7, <2>1 DEF b0
    <3>. QED
      BY <2>1, <3>1
  <2>2. CASE n = 2
    <3>1. ls[1] = b1 /\ ls[2] = b0 /\ lv[1] = b0 /\ lv[2] = b1
      BY <1>5, <1>6, <2>2 DEF b0, b1
    <3>2. Reverse(lv)[1] = lv[2] /\ Reverse(lv)[2] = lv[1]
      BY <1>7, <2>2
    <3>. QED
      BY <2>2, <3>1, <3>2
  <2>3. CASE n = 4
    <3>1. /\ ls[1] = b3 /\ ls[2] = b2 /\ ls[3] = b1 /\ ls[4] = b0
          /\ lv[1] = b0 /\ lv[2] = b1 /\ lv[3] = b2 /\ lv[4] = b3
      BY <1>5, <1>6, <2>3 DEF b0, b1, b2, b3
    <3>2. /\ Reverse(lv)[1] = lv[4] /\ Reverse(lv)[2] = lv[3]
          /\ Reverse(lv)[3] = lv[2] /\ Reverse(lv)[4] = lv[1]
      BY <1>7, <2>3
    <3>. QED
      BY <2>3, <3>1, <3>2
  <2>. QED
    BY <1>1, <2>1, <2>2, <2>3
<1>9. ls = Reverse(lv)
  BY <1>6, <1>7, <1>8, SeqEqual
<1>10. s \in Word(n)
  BY <1>1, <1>4, PlaceType DEF Word
<1>. QED
  BY <1>9, <1>10 DEF s, lv, ls
-----------------------------------------------------------------------------
(* What goes over the network. *)

\* The bytes of a value are those of what they make up, least significant first.
LEMMA MemoryOfValue ==
    ASSUME NEW bytes \in Seq(Byte), NEW big \in BOOLEAN, Len(bytes) \in Width
    PROVE  /\ FromMemory(bytes, big) \in Word(Len(bytes))
           /\ LittleEndian(FromMemory(bytes, big), Len(bytes)) = InOrder(bytes, big)
<1> DEFINE n == Len(bytes)   low == InOrder(bytes, big)   m == FromMemory(bytes, big)
<1>1. n \in {1, 2, 4} /\ n \in 1..4
  BY DEF Width
<1>2. low \in Seq(Byte) /\ Len(low) = n
  BY InOrderBytes
<1>3. /\ n = 1 => m = low[1]
      /\ n = 2 => m = Sum2(low[1], low[2])
      /\ n = 4 => m = Sum4(low[1], low[2], low[3], low[4])
  BY FromMemoryIsSum
<1>4. \A i \in 1..n : low[i] \in Byte
  BY <1>2, ElementOfSeq
<1> HIDE DEF n, low, m
<1>5. n >= 1 => low[1] \in Byte
  BY <1>1, <1>4
<1>6. n >= 2 => low[2] \in Byte
  BY <1>1, <1>4
<1>7. n >= 4 => low[3] \in Byte /\ low[4] \in Byte
  BY <1>1, <1>4
<1>8. /\ m \in Nat /\ m < Place(n)
      /\ n >= 1 => ByteOf(m, 0) = low[1]
      /\ n >= 2 => ByteOf(m, 1) = low[2]
      /\ n >= 4 => ByteOf(m, 2) = low[3] /\ ByteOf(m, 3) = low[4]
  <2>1. CASE n = 1
    BY <1>3, <1>5, <2>1, BytesOfValue
  <2>2. CASE n = 2
    BY <1>3, <1>5, <1>6, <2>2, BytesOfValue
  <2>3. CASE n = 4
    <3>1. m = Sum4(low[1], low[2], low[3], low[4])
      BY <1>3, <2>3
    <3>2. low[1] \in Byte /\ low[2] \in Byte /\ low[3] \in Byte /\ low[4] \in Byte
      BY <1>5, <1>6, <1>7, <2>3
    <3>3. /\ m \in Nat /\ m < Place(4)
          /\ ByteOf(m, 0) = low[1] /\ ByteOf(m, 1) = low[2]
          /\ ByteOf(m, 2) = low[3] /\ ByteOf(m, 3) = low[4]
      <4>1. PICK a \in Byte, b \in Byte, c \in Byte, d \in Byte :
                a = low[1] /\ b = low[2] /\ c = low[3] /\ d = low[4]
        BY <3>2
      <4>2. m = Sum4(a, b, c, d)
        BY <3>1, <4>1
      <4>3. /\ m \in Nat /\ m < Place(4) /\ ByteOf(m, 0) = a /\ ByteOf(m, 1) = b
            /\ ByteOf(m, 2) = c /\ ByteOf(m, 3) = d
        BY <4>2, BytesOfValue
      <4>. QED
        BY <4>1, <4>3
    <3>. QED
      BY <2>3, <3>3
  <2>. QED
    BY <1>1, <2>1, <2>2, <2>3
<1>9. m \in Word(n)
  BY <1>1, <1>8, PlaceType DEF Word
<1>10. /\ LittleEndian(m, n) \in Seq(Byte) /\ Len(LittleEndian(m, n)) = n
       /\ \A i \in 1..n : LittleEndian(m, n)[i] = ByteOf(m, i - 1)
  BY <1>1, <1>8, LittleEndianBytes
<1> DEFINE le == LittleEndian(m, n)
<1>11. \A i \in 1..n : le[i] = low[i]
  <2>1. \A i \in 1..n : \/ i = 1 /\ i - 1 = 0 /\ n >= 1
                        \/ i = 2 /\ i - 1 = 1 /\ n >= 2
                        \/ i = 3 /\ i - 1 = 2 /\ n >= 4
                        \/ i = 4 /\ i - 1 = 3 /\ n >= 4
    BY <1>1
  <2> HIDE DEF le
  <2>. QED
    BY <1>8, <1>10, <2>1 DEF le
<1>12. LittleEndian(m, n) = low
  BY <1>2, <1>10, <1>11, SeqEqual
<1>. QED
  BY <1>9, <1>12 DEF n, low, m

\* toNetworkEndian: whatever the order of the system, what it makes of a value
\* has the bytes of the value in memory, least significant first, and those
\* are what is sent.
THEOREM OnWire ==
    ASSUME NEW n \in Width, NEW v \in Word(n), NEW big \in BOOLEAN
    PROVE  ToMemory(toNetworkEndian(v, n, big), n, big) = LittleEndian(v, n)
<1>1. v \in Nat /\ n \in 1..4
  BY PlaceType DEF Word, Width
<1>2. CASE big
  <2>1. toNetworkEndian(v, n, big) = swapEndian(v, n)
    BY <1>2, SystemOrder DEF toNetworkEndian
  <2>2. LittleEndian(swapEndian(v, n), n) = InOrder(LittleEndian(v, n), TRUE)
    BY SwapTurns DEF InOrder
  <2>3. InOrder(InOrder(LittleEndian(v, n), TRUE), TRUE) = LittleEndian(v, n)
    BY <1>1, LittleEndianBytes, InOrderBytes
  <2>4. InOrder(LittleEndian(swapEndian(v, n), n), TRUE) = LittleEndian(v, n)
    BY <2>2, <2>3
  <2>5. big = TRUE
    BY <1>2
  <2>. QED
    BY <2>1, <2>4, <2>5 DEF ToMemory
<1>3. CASE ~big
  <2>1. toNetworkEndian(v, n, big) = v
    BY <1>3, SystemOrder DEF toNetworkEndian
  <2>. QED
    BY <1>3, <2>1 DEF ToMemory, InOrder
<1>. QED
  BY <1>2, <1>3

\* fromNetworkEndian: whatever the order of the system, it makes a value of the
\* bytes it takes for it, least significant first.
THEOREM OffWire ==
    ASSUME NEW bytes \in Seq(Byte), Len(bytes) \in Width, NEW big \in BOOLEAN
    PROVE  /\ fromNetworkEndian(FromMemory(bytes, big), Len(bytes), big) \in Word(Len(bytes))
           /\ LittleEndian(fromNetworkEndian(FromMemory(bytes, big), Len(bytes), big), Len(bytes))
              = bytes
<1> DEFINE n == Len(bytes)   m == FromMemory(bytes, big)
<1>1. m \in Word(n) /\ LittleEndian(m, n) = InOrder(bytes, big)
  BY MemoryOfValue
<1> HIDE DEF m
<1>2. CASE big
  <2>1. fromNetworkEndian(m, n, big) = swapEndian(m, n)
    BY <1>2, SystemOrder DEF fromNetworkEndian
  <2>2. swapEndian(m, n) \in Word(n) /\ LittleEndian(swapEndian(m, n), n) = InOrder(LittleEndian(m, n), TRUE)
    BY <1>1, SwapTurns DEF InOrder
  <2>3. InOrder(InOrder(bytes, TRUE), TRUE) = bytes
    BY InOrderBytes
  <2>4. big = TRUE
    BY <1>2
  <2>5. LittleEndian(swapEndian(m, n), n) = bytes
    BY <1>1, <2>2, <2>3, <2>4
  <2>. QED
    BY <2>1, <2>2, <2>5 DEF m
<1>3. CASE ~big
  <2>1. fromNetworkEndian(m, n, big) = m
    BY <1>3, SystemOrder DEF fromNetworkEndian
  <2>2. LittleEndian(m, n) = bytes
    BY <1>1, <1>3 DEF InOrder
  <2>. QED
    BY <1>1, <2>1, <2>2 DEF m
<1>. QED
  BY <1>2, <1>3

\* A value arrives as it was sent, between systems of either order.
THEOREM ValueArrives ==
    ASSUME NEW n \in Width, NEW v \in Word(n), NEW big \in BOOLEAN, NEW other \in BOOLEAN
    PROVE  fromNetworkEndian(FromMemory(ToMemory(toNetworkEndian(v, n, big), n, big), other),
                             n, other) = v
<1> DEFINE le == LittleEndian(v, n)
<1>1. le \in Seq(Byte) /\ Len(le) = n
  <2>1. v \in Nat /\ n \in 1..4
    BY PlaceType DEF Word, Width
  <2>. QED
    BY <2>1, LittleEndianBytes
<1>2. ToMemory(toNetworkEndian(v, n, big), n, big) = le
  BY OnWire
<1> HIDE DEF le
<1> DEFINE w == fromNetworkEndian(FromMemory(le, other), n, other)
<1>3. w \in Word(n) /\ LittleEndian(w, n) = le
  BY <1>1, OffWire
<1> HIDE DEF w
<1>4. w = v
  BY <1>3, SameBytes DEF le
<1>. QED
  BY <1>2, <1>4 DEF w

\* The memory of a variable is as many bytes as it is wide.
LEMMA ToMemoryType ==
    ASSUME NEW v \in Nat, NEW n \in 1..4, NEW big \in BOOLEAN
    PROVE  ToMemory(v, n, big) \in Seq(Byte) /\ Len(ToMemory(v, n, big)) = n
<1>1. LittleEndian(v, n) \in Seq(Byte) /\ Len(LittleEndian(v, n)) = n
  BY LittleEndianBytes
<1>2. /\ InOrder(LittleEndian(v, n), big) \in Seq(Byte)
      /\ Len(InOrder(LittleEndian(v, n), big)) = Len(LittleEndian(v, n))
  BY <1>1, InOrderBytes
<1>. QED
  BY <1>1, <1>2 DEF ToMemory
=============================================================================
