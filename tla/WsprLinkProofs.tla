--------------------------- MODULE WsprLinkProofs ---------------------------
(***************************************************************************)
(* Proofs about WsprLink, for every set of stations the settings accept    *)
(* and every number of slots.  First how far the conversions of Locator    *)
(* are right, for every position; then which numbers, call signs, locators *)
(* and words of WsprCodec come back from packing; then that a receiver     *)
(* reads what was sent, and what its log holds.                            *)
(***************************************************************************)
EXTENDS WsprLink, SequenceTheorems, TLAPS

LEMMA ThousandBounds == Thousand \in Nat /\ Thousand <= 1000 /\ Thousand >= 1000
BY DEF Thousand

LEMMA Division ==
  ASSUME NEW x \in Nat, NEW k \in Nat \ {0}
  PROVE  /\ x \div k \in Nat
         /\ k * (x \div k) <= x /\ x < k * (x \div k) + k
OBVIOUS

\* Field and square give the whole degrees back.
LEMMA DegreesBack ==
  ASSUME NEW a \in Angle
  PROVE  /\ Field(a) \in 0..17 /\ Square(a) \in 0..9
         /\ 10 * Field(a) + Square(a) = a.deg
BY DEF Angle, Field, Square

\* The subsquare is the exact one or the next: the divisor 0.04166666 is less
\* than a 24th of a degree.
LEMMA SubsquareBounds ==
  ASSUME NEW a \in Angle
  PROVE  /\ a.frac \in Nat /\ a.frac < 100 * Thousand * Thousand
         /\ Subsquare(a) \in 0..24
         /\ SubsquareStep * Subsquare(a) <= a.frac
         /\ a.frac < SubsquareStep * Subsquare(a) + SubsquareStep
         /\ Subsquare(a) \in {ExactSubsquare(a), ExactSubsquare(a) + 1}
<1> DEFINE T == Thousand  f == a.frac  k == SubsquareStep  x == 25 * T * T
           s == f \div k  e == (6 * f + 3) \div x
<1>1. f \in Nat /\ f < 100 * T * T
  BY ThousandBounds DEF Angle, Unit
<1>2. k \in Nat \ {0} /\ k = 4166 * T + 666 /\ x \in Nat \ {0}
  BY ThousandBounds DEF SubsquareStep
<1>3. s \in Nat /\ k * s <= f /\ f < k * s + k
  <2> HIDE DEF f, k
  <2> QED BY <1>1, <1>2, Division
<1>4. e \in Nat /\ x * e <= 6 * f + 3 /\ 6 * f + 3 < x * e + x
  <2> HIDE DEF f, x
  <2> QED BY <1>1, <1>2, Division
<1>5. s \in 0..24 /\ s \in {e, e + 1}
  <2>1. T \in Nat /\ T <= 1000 /\ T >= 1000 /\ x = 25 * T * T
    BY ThousandBounds
  <2> HIDE DEF T, f, k, x, s, e
  <2> QED BY <1>1, <1>2, <1>3, <1>4, <2>1
<1> QED BY <1>1, <1>3, <1>5 DEF Subsquare, ExactSubsquare

-----------------------------------------------------------------------------
(* There and back.                                                         *)

\* The coordinate of a locator of six and of four characters.
OfSix(a)  == 57600 * Field(a) + 5760 * Square(a) + 240 * Subsquare(a) + 131
OfFour(a) == 57600 * Field(a) + 5760 * Square(a) + 2771

\* One axis: the subsquare brings the point within its own width, and without
\* it the middle is within a square.
LEMMA AxisBounds ==
  ASSUME NEW a \in Angle
  PROVE  /\ Within(OfSix(a), Scaled(a), 240)
         /\ Within(OfFour(a), Scaled(a), 5760)
<1> DEFINE T == Thousand  f == a.frac  k == SubsquareStep  s == Subsquare(a)
           g == f \div 1000  h == (576 * g) \div 10000  d == a.deg
           whole == 57600 * Field(a) + 5760 * Square(a)
<1>1. /\ f \in Nat /\ f < 100 * T * T /\ s \in 0..24
      /\ k * s <= f /\ f < k * s + k /\ k = 4166 * T + 666
      /\ T \in Nat /\ T <= 1000 /\ T >= 1000
  BY SubsquareBounds, ThousandBounds DEF SubsquareStep
<1>2. g \in Nat /\ 1000 * g <= f /\ f < 1000 * g + 1000
  <2> HIDE DEF f
  <2> QED BY <1>1
<1>3. h \in Nat /\ 10000 * h <= 576 * g /\ 576 * g < 10000 * h + 10000
  <2> HIDE DEF g
  <2> QED BY <1>2
<1>4. d \in Nat /\ whole \in Nat /\ whole = 5760 * d
  BY DegreesBack DEF Angle
<1>5. h \in 0..5759
  <2> HIDE DEF T, f, k, s, g, h
  <2> QED BY <1>1, <1>2, <1>3
<1>6. 240 * s - h \in -241..10
  <2> HIDE DEF T, f, k, s, g, h
  <2> QED BY <1>1, <1>2, <1>3
<1>7. Scaled(a) = whole + h
  BY <1>4 DEF Scaled
<1> HIDE DEF T, f, k, s, g, h, d, whole
<1>8. Within(whole + 240 * s + 131, whole + h, 240)
  BY <1>1, <1>4, <1>5, <1>6 DEF Within
<1>9. Within(whole + 2771, whole + h, 5760)
  BY <1>4, <1>5 DEF Within
<1> QED BY <1>7, <1>8, <1>9 DEF OfSix, OfFour, s, whole

\* The point that is computed from the locator of a position, or from its first
\* four characters, is as near to the position as the locator is fine, for every
\* position the conversion accepts.
THEOREM LocatorsAreNear ==
  ASSUME NEW p \in Position
  PROVE  LET l == LatLonToGSQ(p)
         IN  Near(l, p) /\ Near(SubSeq(l, 1, 4), p)
<1> DEFINE l == LatLonToGSQ(p)  q == SubSeq(l, 1, 4)
           lon == p.lon  lat == p.lat
<1>1. lon \in Angle /\ lat \in Angle
  BY DEF Position
<1>2. /\ Field(lon) \in 0..17 /\ Square(lon) \in 0..9 /\ Subsquare(lon) \in 0..24
      /\ Field(lat) \in 0..17 /\ Square(lat) \in 0..9 /\ Subsquare(lat) \in 0..24
  BY <1>1, DegreesBack, SubsquareBounds
<1>3. /\ Len(l) = 6 /\ DOMAIN l = 1..6
      /\ l[1] = 10 + Field(lon) /\ l[2] = 10 + Field(lat)
      /\ l[3] = Square(lon) /\ l[4] = Square(lat)
      /\ l[5] = 10 + Subsquare(lon) /\ l[6] = 10 + Subsquare(lat)
  BY DEF LatLonToGSQ
<1>4. l \in Seq(Nat)
  BY <1>2 DEF LatLonToGSQ
<1> HIDE DEF l
<1>5. /\ Len(q) = 4 /\ DOMAIN q = 1..4
      /\ q[1] = l[1] /\ q[2] = l[2] /\ q[3] = l[3] /\ q[4] = l[4]
  BY <1>3, <1>4
<1> HIDE DEF q, lon, lat
<1>6. /\ Padding(5) = 21 /\ Padding(6) = 21 /\ Padding(7) = 5 /\ Padding(8) = 5
      /\ Padding(9) = 21 /\ Padding(10) = 21 /\ CharValue(21) = 11 /\ CharValue(5) = 5
  BY DEF Padding, CharValue
<1>7. \A n \in 0..24 : CharValue(10 + n) = n /\ (n < 10 => CharValue(n) = n)
  BY DEF CharValue
<1>8. Extracted(l, 1) = OfSix(lon) /\ Extracted(l, 2) = OfSix(lat)
  <2>1. /\ Padded(l)[1] = l[1] /\ Padded(l)[2] = l[2] /\ Padded(l)[3] = l[3]
        /\ Padded(l)[4] = l[4] /\ Padded(l)[5] = l[5] /\ Padded(l)[6] = l[6]
        /\ Padded(l)[7] = Padding(7) /\ Padded(l)[8] = Padding(8)
        /\ Padded(l)[9] = Padding(9) /\ Padded(l)[10] = Padding(10)
    BY <1>3 DEF Padded
  <2>2. /\ CharValue(Padded(l)[1]) = Field(lon) /\ CharValue(Padded(l)[3]) = Square(lon)
        /\ CharValue(Padded(l)[5]) = Subsquare(lon)
    BY <2>1, <1>2, <1>3, <1>7
  <2>3. /\ CharValue(Padded(l)[2]) = Field(lat) /\ CharValue(Padded(l)[4]) = Square(lat)
        /\ CharValue(Padded(l)[6]) = Subsquare(lat)
    BY <2>1, <1>2, <1>3, <1>7
  <2>4. /\ CharValue(Padded(l)[7]) = 5 /\ CharValue(Padded(l)[9]) = 11
        /\ CharValue(Padded(l)[8]) = 5 /\ CharValue(Padded(l)[10]) = 11
    BY <2>1, <1>6
  <2>5. Extracted(l, 1) = OfSix(lon)
    BY <2>2, <2>4, <1>2 DEF Extracted, OfSix
  <2>6. Extracted(l, 2) = OfSix(lat)
    BY <2>3, <2>4, <1>2 DEF Extracted, OfSix
  <2> QED BY <2>5, <2>6
<1>9. Extracted(q, 1) = OfFour(lon) /\ Extracted(q, 2) = OfFour(lat)
  <2>1. /\ Padded(q)[1] = l[1] /\ Padded(q)[2] = l[2] /\ Padded(q)[3] = l[3]
        /\ Padded(q)[4] = l[4] /\ Padded(q)[5] = Padding(5) /\ Padded(q)[6] = Padding(6)
        /\ Padded(q)[7] = Padding(7) /\ Padded(q)[8] = Padding(8)
        /\ Padded(q)[9] = Padding(9) /\ Padded(q)[10] = Padding(10)
    BY <1>5 DEF Padded
  <2> QED BY <2>1, <1>2, <1>3, <1>6, <1>7 DEF Extracted, OfFour
<1>10. Near(l, p)
  <2>1. Width(l) = 240
    BY <1>3 DEF Width
  <2> QED BY <2>1, <1>1, <1>8, AxisBounds DEF Near, lon, lat
<1>11. Near(q, p)
  <2>1. Width(q) = 5760
    BY <1>5 DEF Width
  <2> QED BY <2>1, <1>1, <1>9, AxisBounds DEF Near, lon, lat
<1> QED BY <1>10, <1>11 DEF l, q

-----------------------------------------------------------------------------
(* Numbers and their digits.                                               *)

LEMMA Powers ==
  27^2 = 729 /\ 27^3 = 19683 /\ 37^2 = 1369 /\ 2^22 = 4194304 /\ 2^28 = 268435456
OBVIOUS

LEMMA Radix ==
  ASSUME NEW q \in Nat, NEW r \in Nat
  PROVE  /\ r < 10 => (10 * q + r) % 10 = r
         /\ r < 27 => (27 * q + r) % 27 = r
         /\ r < 36 => (36 * q + r) % 36 = r
         /\ r < 37 => (37 * q + r) % 37 = r
<1>1. r < 10 => (10 * q + r) % 10 = r
  OBVIOUS
<1>2. r < 27 => (27 * q + r) % 27 = r
  OBVIOUS
<1>3. r < 36 => (36 * q + r) % 36 = r
  OBVIOUS
<1>4. r < 37 => (37 * q + r) % 37 = r
  OBVIOUS
<1> QED BY <1>1, <1>2, <1>3, <1>4

\* Six characters and the number they are packed into.
Number(f) ==
  27 * (27 * (27 * (10 * (36 * f[1] + f[2]) + f[3]) + (f[4] - 10)) + (f[5] - 10))
    + (f[6] - 10)
SixFit(f) ==
  /\ f[1] \in 0..36 /\ f[2] \in 0..35 /\ f[3] \in 0..9
  /\ f[4] \in 10..36 /\ f[5] \in 10..36 /\ f[6] \in 10..36

LEMMA SixBack ==
  ASSUME NEW f, SixFit(f)
  PROVE  /\ Number(f) \in Nat /\ Number(f) < CallNumbers
         /\ SixChars(Number(f)) = <<f[1], f[2], f[3], f[4], f[5], f[6]>>
<1> DEFINE a == f[1]  b == f[2]  c == f[3]  x == f[4] - 10  y == f[5] - 10
           z == f[6] - 10
           m1 == 36 * a + b  m2 == 10 * m1 + c  m3 == 27 * m2 + x  m4 == 27 * m3 + y
           n == 27 * m4 + z
<1>1. /\ a \in 0..36 /\ b \in 0..35 /\ c \in 0..9
      /\ x \in 0..26 /\ y \in 0..26 /\ z \in 0..26
      /\ f[4] = 10 + x /\ f[5] = 10 + y /\ f[6] = 10 + z
  BY DEF SixFit
<1>2. Number(f) = n
  BY DEF Number
<1> HIDE DEF a, b, c, x, y, z
<1>3. /\ m1 \in Nat /\ m2 \in Nat /\ m3 \in Nat /\ m4 \in Nat /\ n \in Nat
      /\ n < 262177560
  BY <1>1
<1>4. /\ n = 27 * m4 + z /\ m4 = 27 * m3 + y /\ m3 = 27 * m2 + x
      /\ m2 = 10 * m1 + c /\ m1 = 36 * a + b
  OBVIOUS
<1> HIDE DEF n, m1, m2, m3, m4
<1>5. /\ n = 729 * m3 + (27 * y + z)
      /\ n = 19683 * m2 + (729 * x + 27 * y + z)
      /\ n = 196830 * m1 + (19683 * c + 729 * x + 27 * y + z)
      /\ n = 7085880 * a + (196830 * b + 19683 * c + 729 * x + 27 * y + z)
  BY <1>1, <1>3, <1>4
<1>6. n \div 27 = m4
  BY <1>1, <1>3, <1>4
<1>7. n \div 729 = m3 /\ n \div 19683 = m2
  BY <1>1, <1>3, <1>5
<1>8. n \div 196830 = m1 /\ n \div 7085880 = a
  BY <1>1, <1>3, <1>5
<1>9. n % 27 = z /\ m4 % 27 = y /\ m3 % 27 = x /\ m2 % 10 = c /\ m1 % 36 = b
  BY <1>1, <1>3, <1>4, Radix
<1>10. 27^3 * 360 = 7085880 /\ 27^3 * 10 = 196830
  BY Powers
<1>11. SixChars(n) = <<a, b, c, 10 + x, 10 + y, 10 + z>>
  BY <1>6, <1>7, <1>8, <1>9, <1>10, Powers DEF SixChars
<1> QED BY <1>1, <1>2, <1>3, <1>11 DEF CallNumbers, a, b, c

-----------------------------------------------------------------------------
(* Call signs.                                                             *)

\* A call sign without prefix or suffix that the encoder can express.
Plain(c) ==
  /\ c \in Seq(Digit \cup Letter) /\ ValidBase(c)
  /\ \A k \in (DigitAt(c) + 1)..Len(c) : c[k] \in Letter
At(c, k) == IF k > Len(c) THEN Blank ELSE c[k]
\* The six characters it is packed as.
Six(c) ==
  IF DigitAt(c) = 3 THEN <<c[1], c[2], c[3], At(c, 4), At(c, 5), At(c, 6)>>
  ELSE <<Blank, c[1], c[2], At(c, 3), At(c, 4), At(c, 5)>>

LEMMA PlainShape ==
  ASSUME NEW c, Plain(c)
  PROVE  /\ Len(c) \in 3..6 /\ c \in Seq(Nat) /\ \A k \in 1..Len(c) : c[k] \in 0..35
         /\ DigitAt(c) \in 2..3 /\ c[DigitAt(c)] \in 0..9
         /\ Len(c) <= DigitAt(c) + 3
<1> DEFINE n == Len(c)
<1>1. PICK d \in 2..3 : IsDigitAt(c, d) /\ n - d \in 1..3
  BY DEF Plain, ValidBase
<1>2. Digit \cup Letter \subseteq 0..35 /\ Digit \cup Letter \subseteq Nat
  BY DEF Digit, Letter
<1>3. /\ n \in Nat /\ c \in Seq(Nat) /\ \A k \in 1..n : c[k] \in 0..35
  <2>1. c \in Seq(Digit \cup Letter)
    BY DEF Plain
  <2> QED BY <1>2, <2>1, LenProperties, SeqMonotonic, ElementOfSeq
<1> HIDE DEF n
<1>4. n \in 3..6
  BY <1>1, <1>3
<1>5. CASE IsDigitAt(c, 3)
  <2>1. DigitAt(c) = 3 /\ c[3] \in 0..9
    BY <1>5 DEF DigitAt, IsDigitAt, Digit
  <2>2. n <= DigitAt(c) + 3
    BY <1>4, <2>1
  <2> QED BY <1>3, <1>4, <2>1, <2>2 DEF n
<1>6. CASE ~IsDigitAt(c, 3)
  <2>1. d = 2
    BY <1>1, <1>6
  <2>2. DigitAt(c) = 2 /\ c[2] \in 0..9
    BY <1>1, <1>6, <2>1 DEF DigitAt, IsDigitAt, Digit
  <2>3. n <= 5
    BY <1>1, <1>3, <2>1
  <2>4. n <= DigitAt(c) + 3
    BY <1>4, <2>2, <2>3
  <2> QED BY <1>3, <1>4, <2>2, <2>4 DEF n
<1> QED BY <1>5, <1>6

LEMMA PlainAt ==
  ASSUME NEW c, Plain(c), NEW k \in 1..6
  PROVE  /\ At(c, k) \in Nat
         /\ k <= Len(c) => At(c, k) = c[k] /\ At(c, k) # Blank
         /\ k > Len(c) => At(c, k) = Blank
<1>1. Len(c) \in 3..6 /\ \A i \in 1..Len(c) : c[i] \in 0..35
  BY PlainShape
<1>2. CASE k <= Len(c)
  <2>1. k \in 1..Len(c) /\ ~(k > Len(c))
    BY <1>1, <1>2
  <2>2. c[k] \in 0..35
    BY <1>1, <2>1
  <2>3. At(c, k) = c[k]
    BY <2>1 DEF At
  <2>4. At(c, k) \in Nat /\ At(c, k) # Blank
    BY <2>2, <2>3 DEF Blank
  <2> QED BY <2>1, <2>3, <2>4
<1>3. CASE k > Len(c)
  <2>1. At(c, k) = Blank
    BY <1>3 DEF At
  <2> QED BY <1>1, <1>3, <2>1 DEF Blank
<1> QED BY <1>1, <1>2, <1>3

LEMMA PackSix ==
  ASSUME NEW c, Plain(c)
  PROVE  SixFit(Six(c)) /\ PackCall(c) = Number(Six(c))
<1> DEFINE d == DigitAt(c)
<1>1. /\ Len(c) \in 3..6 /\ \A k \in 1..Len(c) : c[k] \in 0..35
      /\ d \in 2..3 /\ c[d] \in 0..9
  BY PlainShape
<1>2. \A k \in (d + 1)..6 : At(c, k) \in 10..36 /\ After(c, k) = At(c, k) - 10
  BY <1>1 DEF Plain, Letter, At, After, Blank
<1> HIDE DEF d
<1>3. CASE d = 3
  <2>1. /\ Before(c, d - 2) = c[1] /\ Before(c, d - 1) = c[2]
        /\ At(c, 4) \in 10..36 /\ At(c, 5) \in 10..36 /\ At(c, 6) \in 10..36
        /\ After(c, d + 1) = At(c, 4) - 10 /\ After(c, d + 2) = At(c, 5) - 10
        /\ After(c, d + 3) = At(c, 6) - 10
    BY <1>2, <1>3 DEF Before
  <2>2. Six(c) = <<c[1], c[2], c[3], At(c, 4), At(c, 5), At(c, 6)>>
    BY <1>3 DEF Six, d
  <2>3. 1 \in 1..Len(c) /\ 2 \in 1..Len(c) /\ c[3] \in 0..9
    BY <1>1, <1>3
  <2>4. c[1] \in 0..36 /\ c[2] \in 0..35
    BY <1>1, <2>3
  <2>5. SixFit(Six(c))
    BY <2>1, <2>2, <2>3, <2>4 DEF SixFit
  <2> QED BY <1>3, <2>1, <2>2, <2>5 DEF PackCall, Number, d
<1>4. CASE d = 2
  <2>1. /\ Before(c, d - 2) = Blank /\ Before(c, d - 1) = c[1]
        /\ At(c, 3) \in 10..36 /\ At(c, 4) \in 10..36 /\ At(c, 5) \in 10..36
        /\ After(c, d + 1) = At(c, 3) - 10 /\ After(c, d + 2) = At(c, 4) - 10
        /\ After(c, d + 3) = At(c, 5) - 10
    BY <1>2, <1>4 DEF Before
  <2>2. Six(c) = <<Blank, c[1], c[2], At(c, 3), At(c, 4), At(c, 5)>>
    BY <1>4 DEF Six, d
  <2>3. 1 \in 1..Len(c) /\ c[2] \in 0..9 /\ Blank \in 0..36
    BY <1>1, <1>4 DEF Blank
  <2>4. c[1] \in 0..35
    BY <1>1, <2>3
  <2>5. SixFit(Six(c))
    BY <2>1, <2>2, <2>3, <2>4 DEF SixFit
  <2> QED BY <1>4, <2>1, <2>2, <2>5 DEF PackCall, Number, d
<1> QED BY <1>1, <1>3, <1>4

\* A string ends at its first blank, and leading blanks go behind.
LEMMA FirstBlank ==
  ASSUME NEW t \in Seq(Nat), NEW n \in 0..Len(t),
         n = Len(t) \/ t[n + 1] = Blank, \A j \in 1..n : t[j] # Blank
  PROVE  UpToBlank(t) = SubSeq(t, 1, n)
<1> DEFINE End(k) == /\ k = Len(t) \/ t[k + 1] = Blank
                     /\ \A j \in 1..k : t[j] # Blank
<1>1. Len(t) \in Nat
  BY LenProperties
<1>2. ASSUME NEW k \in 0..Len(t), End(k) PROVE k = n
  <2>1. CASE k < n
    <3>1. k + 1 \in 1..n /\ k # Len(t)
      BY <1>1, <2>1
    <3> QED BY <1>2, <3>1
  <2>2. CASE n < k
    <3>1. n + 1 \in 1..k /\ n # Len(t)
      BY <1>1, <2>2
    <3> QED BY <1>2, <3>1
  <2> QED BY <1>1, <2>1, <2>2
<1>3. End(n)
  OBVIOUS
<1> HIDE DEF End
<1>4. (CHOOSE k \in 0..Len(t) : End(k)) = n
  BY <1>2, <1>3
<1> QED BY <1>4 DEF UpToBlank, End

LEMMA Aligned ==
  ASSUME NEW t \in Seq(Nat), Len(t) = 6, NEW m \in 1..2,
         t[m] # Blank, \A j \in 1..(m - 1) : t[j] = Blank
  PROVE  /\ LeftAligned(t) \in Seq(Nat) /\ Len(LeftAligned(t)) = 6
         /\ \A k \in 1..(7 - m) : LeftAligned(t)[k] = t[k + m - 1]
         /\ \A k \in (8 - m)..6 : LeftAligned(t)[k] = Blank
<1> DEFINE First(k) == /\ k = 6 \/ t[k] # Blank
                       /\ \A j \in 1..(k - 1) : t[j] = Blank
           tail == [k \in 1..(m - 1) |-> Blank]
           head == SubSeq(t, m, 6)
<1>1. ASSUME NEW k \in 1..6, First(k) PROVE k = m
  <2>1. CASE k < m
    <3>1. k \in 1..(m - 1)
      BY <2>1
    <3> QED BY <1>1, <3>1
  <2>2. CASE m < k
    <3>1. m \in 1..(k - 1)
      BY <2>2
    <3> QED BY <1>1, <3>1
  <2> QED BY <2>1, <2>2
<1>2. First(m) /\ m \in 1..6
  OBVIOUS
<1> HIDE DEF First
<1>3. (CHOOSE k \in 1..6 : First(k)) = m
  BY <1>1, <1>2
<1>4. LeftAligned(t) = head \o tail
  BY <1>3 DEF LeftAligned, First
<1>5. tail \in Seq(Nat) /\ Len(tail) = m - 1 /\ \A k \in 1..(m - 1) : tail[k] = Blank
  BY DEF Blank
<1>6. /\ head \in Seq(Nat) /\ Len(head) = 7 - m
      /\ \A k \in 1..(7 - m) : head[k] = t[k + m - 1]
  <2>1. \A i \in 1..Len(t) : t[i] \in Nat
    BY ElementOfSeq
  <2>2. \A i \in m..6 : t[i] \in Nat
    BY <2>1
  <2>3. m \in Nat /\ 6 \in Nat /\ m <= 6 + 1
    OBVIOUS
  <2> QED BY <2>2, <2>3, SubSeqProperties
<1> HIDE DEF head, tail
<1>7. /\ head \o tail \in Seq(Nat) /\ Len(head \o tail) = 6
      /\ \A i \in 1..6 : (head \o tail)[i] =
           IF i <= 7 - m THEN head[i] ELSE tail[i - (7 - m)]
  <2>1. /\ head \o tail \in Seq(Nat) /\ Len(head \o tail) = Len(head) + Len(tail)
        /\ \A i \in 1..(Len(head) + Len(tail)) : (head \o tail)[i] =
             IF i <= Len(head) THEN head[i] ELSE tail[i - Len(head)]
    BY <1>5, <1>6, ConcatProperties
  <2>2. Len(head) = 7 - m /\ Len(head) + Len(tail) = 6
    BY <1>5, <1>6
  <2> QED BY <2>1, <2>2
<1>8. \A k \in 1..(7 - m) : (head \o tail)[k] = t[k + m - 1]
  BY <1>6, <1>7
<1>9. \A k \in (8 - m)..6 : (head \o tail)[k] = Blank
  <2>1. ASSUME NEW k \in (8 - m)..6 PROVE (head \o tail)[k] = Blank
    <3>1. m = 2 /\ k = 6 /\ 1 \in 1..(m - 1)
      BY <2>1
    <3> QED BY <3>1, <1>5, <1>7
  <2> QED BY <2>1
<1> QED BY <1>4, <1>7, <1>8, <1>9

LEMMA SixAligned ==
  ASSUME NEW c, Plain(c)
  PROVE  /\ LeftAligned(Six(c)) \in Seq(Nat) /\ Len(LeftAligned(Six(c))) = 6
         /\ \A k \in 1..6 : LeftAligned(Six(c))[k] = At(c, k)
<1> DEFINE t == Six(c)
<1>1. /\ Len(c) \in 3..6 /\ \A k \in 1..Len(c) : c[k] \in 0..35
      /\ DigitAt(c) \in 2..3 /\ Len(c) <= DigitAt(c) + 3
  BY PlainShape
<1>2. \A k \in 1..6 : At(c, k) \in Nat
  BY PlainAt
<1>3. At(c, 1) = c[1] /\ At(c, 2) = c[2] /\ At(c, 3) = c[3] /\ At(c, 1) # Blank
  <2>1. 1 \in 1..6 /\ 2 \in 1..6 /\ 3 \in 1..6 /\ 1 <= Len(c) /\ 2 <= Len(c) /\ 3 <= Len(c)
    BY <1>1
  <2> QED BY <2>1, PlainAt
<1>4. CASE DigitAt(c) = 3
  <2>1. t = <<At(c, 1), At(c, 2), At(c, 3), At(c, 4), At(c, 5), At(c, 6)>>
    BY <1>3, <1>4 DEF Six
  <2>2. /\ t \in Seq(Nat) /\ Len(t) = 6 /\ \A k \in 1..6 : t[k] = At(c, k)
    BY <1>2, <2>1
  <2> HIDE DEF t
  <2>3. t[1] # Blank
    BY <1>3, <2>2
  <2>4. /\ LeftAligned(t) \in Seq(Nat) /\ Len(LeftAligned(t)) = 6
        /\ \A k \in 1..6 : LeftAligned(t)[k] = t[k + 1 - 1]
    BY <2>2, <2>3, Aligned
  <2> QED BY <2>2, <2>4 DEF t
<1>5. CASE DigitAt(c) = 2
  <2>1. t = <<Blank, At(c, 1), At(c, 2), At(c, 3), At(c, 4), At(c, 5)>>
    BY <1>3, <1>5 DEF Six
  <2>2. /\ t \in Seq(Nat) /\ Len(t) = 6 /\ t[1] = Blank
        /\ \A k \in 1..5 : t[k + 1] = At(c, k)
    BY <1>2, <2>1 DEF Blank
  <2> HIDE DEF t
  <2>3. t[2] # Blank /\ \A j \in 1..(2 - 1) : t[j] = Blank
    BY <1>3, <2>2
  <2>4. /\ LeftAligned(t) \in Seq(Nat) /\ Len(LeftAligned(t)) = 6
        /\ \A k \in 1..5 : LeftAligned(t)[k] = t[k + 2 - 1]
        /\ LeftAligned(t)[6] = Blank
    BY <2>2, <2>3, Aligned
  <2>5. At(c, 6) = Blank
    <3>1. 6 > Len(c) /\ 6 \in 1..6
      BY <1>1, <1>5
    <3> QED BY <3>1, PlainAt
  <2>6. \A k \in 1..5 : LeftAligned(t)[k] = At(c, k)
    BY <2>2, <2>4
  <2> QED BY <2>4, <2>5, <2>6 DEF t
<1> QED BY <1>1, <1>4, <1>5

\* What the decoder unpacks a call sign from, and that it is the one packed.
LEMMA CallsComeBack ==
  ASSUME NEW c, Plain(c)
  PROVE  /\ PackCall(c) \in Nat /\ PackCall(c) < CallNumbers
         /\ CallField(PackCall(c)) = LeftAligned(Six(c))
         /\ UnpackCall(PackCall(c)) = c
<1>1. PackCall(c) \in Nat /\ PackCall(c) < CallNumbers /\ SixChars(PackCall(c)) = Six(c)
  <2>1. SixFit(Six(c)) /\ PackCall(c) = Number(Six(c))
    BY PackSix
  <2>2. Six(c) = <<Six(c)[1], Six(c)[2], Six(c)[3], Six(c)[4], Six(c)[5], Six(c)[6]>>
    BY DEF Six
  <2> QED BY <2>1, <2>2, SixBack
<1> DEFINE t == LeftAligned(Six(c))
<1>2. CallField(PackCall(c)) = t
  BY <1>1 DEF CallField
<1>3. Len(c) \in 3..6 /\ c \in Seq(Nat)
  BY PlainShape
<1> DEFINE n == Len(c)
<1>4. n \in 3..6
  BY PlainShape
<1> HIDE DEF n
<1>5. t \in Seq(Nat) /\ Len(t) = 6 /\ \A k \in 1..6 : t[k] = At(c, k)
  BY SixAligned
<1> HIDE DEF t
<1>6. UpToBlank(t) = SubSeq(t, 1, n)
  <2>1. ASSUME NEW j \in 1..n PROVE t[j] # Blank
    <3>1. j \in 1..6 /\ j <= n
      BY <1>4
    <3> QED BY <1>5, <3>1, PlainAt DEF n
  <2>2. n = Len(t) \/ t[n + 1] = Blank
    <3>1. CASE n = 6
      BY <1>5, <3>1
    <3>2. CASE n # 6
      <4>1. n + 1 \in 1..6 /\ n + 1 > n
        BY <1>4, <3>2
      <4> QED BY <1>5, <4>1, PlainAt DEF n
    <3> QED BY <3>1, <3>2
  <2>3. n \in 0..Len(t)
    BY <1>4, <1>5
  <2> QED BY <1>5, <2>1, <2>2, <2>3, FirstBlank
<1>7. SubSeq(t, 1, n) = c
  <2> DEFINE s == SubSeq(t, 1, n)
  <2>1. ASSUME NEW i \in 1..n PROVE t[i] \in Nat /\ t[i] = c[i]
    <3>1. i \in 1..6 /\ i <= n
      BY <1>4
    <3> QED BY <1>5, <3>1, PlainAt DEF n
  <2>2. s \in Seq(Nat) /\ Len(s) = n /\ \A i \in 1..n : s[i] = t[i]
    BY <1>4, <2>1, SubSeqProperties
  <2> HIDE DEF s
  <2>3. s = c
    BY <1>3, <2>1, <2>2, SeqEqual DEF n
  <2> QED BY <2>3 DEF s
<1>8. UnpackCall(PackCall(c)) = c
  BY <1>2, <1>6, <1>7 DEF UnpackCall
<1> QED BY <1>1, <1>2, <1>8 DEF t

-----------------------------------------------------------------------------
(* The words and what their fields give back.                              *)

LEMMA LowBits ==
  ASSUME NEW h \in Nat, h < 32768, NEW r \in Nat, r < 128, NEW n \in Nat,
         n = 128 * h + r \/ n = 128 * (h + 32768) + r
  PROVE  /\ (n % 2^22) \div 128 = h
         /\ (n % 2^22) % 128 = r
<1> DEFINE l == 128 * h + r
<1>1. l \in Nat /\ l < 4194304 /\ l = 128 * h + r
  OBVIOUS
<1>2. n = l \/ n = 4194304 + l
  OBVIOUS
<1> HIDE DEF l
<1>3. n % 4194304 = l
  BY <1>1, <1>2, SMT
<1>4. l \div 128 = h /\ l % 128 = r
  BY <1>1
<1> QED BY <1>3, <1>4, Powers

\* The first word is what was packed, of the number g in the second word 15 bits
\* remain.
Kept(g) == IF g < 32768 THEN g ELSE g - 32768

WordCarries(n1, g, t) ==
  LET w == ToWord(n1, 128 * g + t + 64)
  IN  /\ n1 \in Nat /\ n1 < CallNumbers => w.n1 = n1
      /\ w.n2 \div 128 = Kept(g)
      /\ (w.n2 % 128) - 64 = t

LEMMA WordBack ==
  ASSUME NEW n1, NEW g \in Nat, g < 65536, NEW t \in (-64)..63
  PROVE  WordCarries(n1, g, t)
<1> DEFINE n2 == 128 * g + t + 64  r == t + 64  h == IF g < 32768 THEN g ELSE g - 32768
<1>1. ASSUME n1 \in Nat, n1 < CallNumbers PROVE n1 % 2^28 = n1
  <2>1. n1 < 268435456
    BY <1>1 DEF CallNumbers
  <2>2. n1 % 268435456 = n1
    BY <1>1, <2>1
  <2> QED BY <2>2, Powers
<1>2. r \in Nat /\ r < 128 /\ t = r - 64
  OBVIOUS
<1>3. n2 = 128 * g + r /\ n2 \in Nat
  OBVIOUS
<1>4. h \in Nat /\ h < 32768 /\ (g = h \/ g = h + 32768)
  OBVIOUS
<1> HIDE DEF r, h, n2
<1>5. n2 = 128 * h + r \/ n2 = 128 * (h + 32768) + r
  BY <1>3, <1>4
<1>6. (n2 % 2^22) \div 128 = h /\ (n2 % 2^22) % 128 = r
  BY <1>2, <1>3, <1>4, <1>5, LowBits
<1>7. ToWord(n1, n2).n1 = n1 % 2^28 /\ ToWord(n1, n2).n2 = n2 % 2^22
  BY DEF ToWord
<1>8. h = Kept(g)
  BY DEF h, Kept
<1> QED BY <1>1, <1>2, <1>6, <1>7, <1>8 DEF n2, WordCarries

LEMMA PowerKept ==
  ASSUME NEW p \in 0..60, PowerStep(p)
  PROVE  LegalPower(p) = p
<1>1. p % 10 \in {0, 3, 7}
  BY DEF PowerStep
<1>2. Correction[1] = 0 /\ Correction[4] = 0 /\ Correction[8] = 0
  BY DEF Correction
<1> QED BY <1>1, <1>2 DEF LegalPower

\* A locator of four characters.
GridFit(g) ==
  /\ g = <<g[1], g[2], g[3], g[4]>>
  /\ g[1] \in 10..27 /\ g[2] \in 10..27 /\ g[3] \in 0..9 /\ g[4] \in 0..9

LEMMA GridBack ==
  ASSUME NEW g, GridFit(g)
  PROVE  /\ GridNumber(g) \in Nat /\ GridNumber(g) < GridNumbers
         /\ UnpackGrid(GridNumber(g)) = g
<1> DEFINE f1 == g[1] - 10  f2 == g[2] - 10  s1 == g[3]  s2 == g[4]
           u == 179 - 10 * f1 - s1  v == 10 * f2 + s2  n == GridNumber(g)
           nlong == 24 * (10 * f1 + s1)  nlat == 24 * v
<1>1. /\ f1 \in 0..17 /\ f2 \in 0..17 /\ s1 \in 0..9 /\ s2 \in 0..9
      /\ g[1] = 10 + f1 /\ g[2] = 10 + f2
      /\ n = 180 * u + v
  BY DEF GridFit, GridNumber
<1>2. g = <<10 + f1, 10 + f2, s1, s2>>
  BY <1>1 DEF GridFit
<1> HIDE DEF f1, f2, s1, s2, n
<1>3. u \in 0..179 /\ v \in 0..179 /\ nlong = 240 * f1 + 24 * s1 /\ nlat = 240 * f2 + 24 * s2
      /\ 12 * (180 - (2 * u - 178)) = nlong
  BY <1>1
<1> HIDE DEF u, v, nlong
<1>4. n \in Nat /\ n < 32400 /\ n \div 180 = u /\ n % 180 = v
  BY <1>1, <1>3
<1> HIDE DEF nlat
<1>5. /\ nlong \div 240 = f1 /\ nlat \div 240 = f2
      /\ nlong % 240 = 24 * s1 /\ nlat % 240 = 24 * s2
  BY <1>1, <1>3
<1>6. (24 * s1) \div 24 = s1 /\ (24 * s2) \div 24 = s2
  BY <1>1
<1>7. 12 * (180 - (2 * (n \div 180) - 178)) = nlong /\ 24 * (n % 180) = nlat
  BY <1>3, <1>4 DEF nlat
<1>8. UnpackGrid(n) = <<10 + f1, 10 + f2, s1, s2>>
  BY <1>5, <1>6, <1>7 DEF UnpackGrid
<1>9. GridNumbers = 32400
  BY DEF GridNumbers
<1>10. UnpackGrid(n) = g
  BY <1>2, <1>8
<1> QED BY <1>4, <1>9, <1>10 DEF n

-----------------------------------------------------------------------------
(* The parts of a call sign with prefix or suffix.                         *)

LEMMA ShortSubSeq ==
  ASSUME NEW S, NEW q, NEW i \in Int, q[i] \in S
  PROVE  /\ SubSeq(q, i, i) = <<q[i]>>
         /\ q[i + 1] \in S => SubSeq(q, i, i + 1) = <<q[i], q[i + 1]>>
<1> DEFINE x == SubSeq(q, i, i)  y == <<q[i]>>
           xx == SubSeq(q, i, i + 1)  yy == <<q[i], q[i + 1]>>
<1>1. x \in Seq(S) /\ Len(x) = 1 /\ x[1] = q[i]
  <2>1. i <= i /\ \A j \in i..i : q[j] \in S
    OBVIOUS
  <2> QED BY <2>1, SubSeqProperties
<1>2. y \in Seq(S) /\ Len(y) = 1 /\ y[1] = q[i]
  OBVIOUS
<1>3. x = y
  <2> HIDE DEF x, y
  <2>1. \A j \in 1..Len(x) : x[j] = y[j]
    BY <1>1, <1>2
  <2> QED BY <1>1, <1>2, <2>1, SeqEqual
<1>4. ASSUME q[i + 1] \in S PROVE xx = yy
  <2>1. xx \in Seq(S) /\ Len(xx) = 2 /\ xx[1] = q[i] /\ xx[2] = q[i + 1]
    <3>1. \A j \in i..(i + 1) : q[j] \in S
      BY <1>4
    <3>2. i + 1 \in Int /\ i <= i + 1 /\ i + 1 - i + 1 = 2
      OBVIOUS
    <3>3. xx \in Seq(S) /\ Len(xx) = 2 /\ \A j \in 1..2 : xx[j] = q[i + j - 1]
      BY <3>1, <3>2, SubSeqProperties
    <3> HIDE DEF xx
    <3> QED BY <3>3
  <2>2. yy \in Seq(S) /\ Len(yy) = 2 /\ yy[1] = q[i] /\ yy[2] = q[i + 1]
    BY <1>4
  <2> HIDE DEF xx, yy
  <2>3. \A j \in 1..Len(xx) : xx[j] = yy[j]
    BY <2>1, <2>2
  <2> QED BY <2>1, <2>2, <2>3, SeqEqual
<1> QED BY <1>3, <1>4

\* A sequence is what precedes a place, the place, and what follows it.
LEMMA Rejoin ==
  ASSUME NEW S, NEW q \in Seq(S), NEW s \in 1..Len(q)
  PROVE  SubSeq(q, 1, s - 1) \o <<q[s]>> \o SubSeq(q, s + 1, Len(q)) = q
<1> DEFINE n == Len(q)
<1>1. n \in Nat /\ s \in 1..n
  BY LenProperties
<1>2. \A i \in 1..n : q[i] \in S
  BY ElementOfSeq
<1> HIDE DEF n
<1>3. SubSeq(q, s, s) = <<q[s]>>
  BY <1>1, <1>2, ShortSubSeq
<1>4. SubSeq(q, 1, s - 1) \o SubSeq(q, s, s) = SubSeq(q, 1, s)
  <2> DEFINE k == s - 1
  <2>1. k \in (1 - 1)..n /\ s \in k..n /\ k + 1 = s /\ 1 \in 1..(n + 1)
    BY <1>1
  <2> HIDE DEF k
  <2>2. SubSeq(q, 1, k) \o SubSeq(q, k + 1, s) = SubSeq(q, 1, s)
    BY <2>1, ConcatAdjacentSubSeq DEF n
  <2> QED BY <2>1, <2>2 DEF k
<1>5. SubSeq(q, 1, s) \o SubSeq(q, s + 1, n) = SubSeq(q, 1, n)
  <2>1. 1 \in 1..(n + 1) /\ s \in (1 - 1)..n /\ n \in s..n
    BY <1>1
  <2> QED BY <2>1, ConcatAdjacentSubSeq DEF n
<1>6. SubSeq(q, 1, n) = q
  BY SubSeqFull DEF n
<1> QED BY <1>3, <1>4, <1>5, <1>6 DEF n

\* What the settings guarantee of a call sign with a stroke.
LEMMA CompoundShape ==
  ASSUME NEW call \in Seq(Digit \cup Letter \cup {Stroke}), ValidCall(call), Compound(call)
  PROVE  LET s == StrokeAt(call)  n == Len(call)
         IN  /\ n \in Nat /\ s \in 1..n /\ call[s] = Stroke
             /\ \A k \in 1..n : k # s => call[k] \in Digit \cup Letter
             /\ IF HasPrefix(call) THEN s \in 2..4 ELSE n - s \in 1..2
             /\ n - s = 2 => call[n - 1] \in Digit /\ call[n] \in Digit
             /\ BaseCall(call) = IF HasPrefix(call) THEN SubSeq(call, s + 1, n)
                                 ELSE SubSeq(call, 1, s - 1)
             /\ BaseCall(call) \in Seq(Digit \cup Letter) /\ ValidBase(BaseCall(call))
<1> DEFINE s == StrokeAt(call)  n == Len(call)
<1>1. n \in Nat
  BY LenProperties
<1>2. s \in 1..n /\ call[s] = Stroke
  BY DEF Compound, StrokeAt
<1>3. \A k \in 1..n : k # s => call[k] \in Digit \cup Letter
  BY DEF ValidCall
<1>4. /\ HasPrefix(call) => s \in 2..4
      /\ ~HasPrefix(call) => n - s > 0 /\ ~(n - s > 2)
      /\ HasPrefix(call) => n - s > 2
  BY DEF ValidCall, HasPrefix, AddOnLen
<1>5. n - s = 2 => call[n - 1] \in Digit /\ call[n] \in Digit
  BY DEF ValidCall, AddOnLen
<1>6. /\ BaseCall(call) = IF HasPrefix(call) THEN SubSeq(call, s + 1, n)
                          ELSE SubSeq(call, 1, s - 1)
      /\ ValidBase(BaseCall(call))
  BY DEF BaseCall, ValidCall
<1> HIDE DEF s, n
<1>7. SubSeq(call, s + 1, n) \in Seq(Digit \cup Letter)
  <2>1. \A i \in (s + 1)..n : call[i] \in Digit \cup Letter
    BY <1>1, <1>2, <1>3
  <2>2. s + 1 \in Int /\ n \in Int
    BY <1>1, <1>2
  <2> QED BY <2>1, <2>2, SubSeqProperties
<1>8. SubSeq(call, 1, s - 1) \in Seq(Digit \cup Letter)
  <2>1. \A i \in 1..(s - 1) : call[i] \in Digit \cup Letter
    BY <1>1, <1>2, <1>3
  <2>2. 1 \in Int /\ s - 1 \in Int
    BY <1>1, <1>2
  <2> QED BY <2>1, <2>2, SubSeqProperties
<1>9. ~HasPrefix(call) => n - s \in 1..2
  BY <1>1, <1>2, <1>4
<1>10. BaseCall(call) \in Seq(Digit \cup Letter)
  BY <1>6, <1>7, <1>8
<1> QED BY <1>1, <1>2, <1>3, <1>4, <1>5, <1>6, <1>9, <1>10 DEF s, n

LEMMA ThreeBack ==
  ASSUME NEW a \in 0..36, NEW b \in 0..36, NEW c \in 0..36
  PROVE  LET n == 37 * (37 * a + b) + c
         IN  /\ n \in Nat /\ n < 50653
             /\ (n \div 37^2) % 37 = a /\ (n \div 37) % 37 = b /\ n % 37 = c
<1> DEFINE n == 37 * (37 * a + b) + c
<1> DEFINE m == 37 * a + b
<1>1. m \in Nat /\ m < 1369 /\ n = 37 * m + c /\ n \in Nat
  OBVIOUS
<1>2. n < 50653
  BY <1>1
<1>3. n = 1369 * a + (37 * b + c)
  OBVIOUS
<1>4. n \div 1369 = a /\ a % 37 = a
  BY <1>1, <1>3
<1>5. m % 37 = b
  BY Radix
<1> HIDE DEF m, n
<1>6. n \div 37 = m
  BY <1>1
<1>7. n % 37 = c
  BY <1>1, Radix
<1>8. (n \div 37^2) % 37 = a
  BY <1>4, Powers
<1> QED BY <1>1, <1>2, <1>5, <1>6, <1>7, <1>8 DEF n

LEMMA BeforeStroke ==
  ASSUME NEW call, NEW s \in Nat, \A k \in 1..(s - 1) : call[k] \in 0..35,
         NEW k \in Int, k < s
  PROVE  /\ Before(call, k) \in 0..36
         /\ k < 1 => Before(call, k) = Blank
         /\ k >= 1 => Before(call, k) = call[k] /\ Before(call, k) # Blank
<1>1. CASE k < 1
  BY <1>1 DEF Before, Blank
<1>2. CASE k >= 1
  <2>1. k \in 1..(s - 1) /\ ~(k < 1)
    BY <1>2
  <2>2. call[k] \in 0..35
    BY <2>1
  <2>3. Before(call, k) = call[k]
    BY <2>1 DEF Before
  <2> QED BY <1>2, <2>2, <2>3 DEF Blank
<1> QED BY <1>1, <1>2

\* A prefix has a number, and the number gives it back.
LEMMA PrefixBack ==
  ASSUME NEW call \in Seq(Digit \cup Letter \cup {Stroke}), ValidCall(call), Compound(call),
         HasPrefix(call)
  PROVE  /\ PrefixNumber(call) \in Nat /\ PrefixNumber(call) < 50653
         /\ UnpackPrefix(PrefixNumber(call), BaseCall(call)) = call
<1> DEFINE s == StrokeAt(call)  n == Len(call)
           a == Before(call, s - 3)  b == Before(call, s - 2)  c == Before(call, s - 1)
           p == <<a, b, c>>  N == PrefixNumber(call)
<1>1. /\ n \in Nat /\ s \in 1..n /\ call[s] = Stroke /\ s \in 2..4
      /\ \A k \in 1..n : k # s => call[k] \in Digit \cup Letter
      /\ BaseCall(call) = SubSeq(call, s + 1, n)
  BY CompoundShape
<1> HIDE DEF s, n
<1>2. \A k \in 1..(s - 1) : call[k] \in 0..35
  BY <1>1 DEF Digit, Letter
<1>3. /\ a \in 0..36 /\ b \in 0..36 /\ c \in 0..36
      /\ s < 4 => a = Blank
      /\ s < 3 => b = Blank
      /\ s >= 4 => a = call[s - 3] /\ a # Blank
      /\ s >= 3 => b = call[s - 2] /\ b # Blank
      /\ c = call[s - 1] /\ c # Blank
  <2>1. /\ s - 3 \in Int /\ s - 2 \in Int /\ s - 1 \in Int /\ s \in Nat
        /\ s - 3 < s /\ s - 2 < s /\ s - 1 < s /\ s - 1 >= 1
        /\ s < 4 => s - 3 < 1
        /\ s < 3 => s - 2 < 1
        /\ s >= 4 => s - 3 >= 1
        /\ s >= 3 => s - 2 >= 1
    BY <1>1
  <2> QED BY <1>2, <2>1, BeforeStroke
<1>4. a \in 0..36 /\ b \in 0..36 /\ c \in 0..36
  BY <1>3
<1>5. N = 37 * (37 * a + b) + c
  BY DEF PrefixNumber, s
<1> HIDE DEF a, b, c, N
<1>6. p[1] = a /\ p[2] = b /\ p[3] = c
  OBVIOUS
<1>7. /\ \A j \in (5 - s)..3 : p[j] # Blank
      /\ s = 4 \/ p[4 - s] = Blank
      /\ SubSeq(p, 5 - s, 3) = SubSeq(call, 1, s - 1)
  <2> DEFINE x == SubSeq(p, 5 - s, 3)  y == SubSeq(call, 1, s - 1)
  <2>1. /\ \A j \in (5 - s)..3 : p[j] # Blank /\ p[j] = call[s - 4 + j]
        /\ s = 4 \/ p[4 - s] = Blank
    <3> HIDE DEF p
    <3>1. CASE s = 2
      BY <3>1, <1>3, <1>6
    <3>2. CASE s = 3
      BY <3>2, <1>3, <1>6
    <3>3. CASE s = 4
      BY <3>3, <1>3, <1>6
    <3> QED BY <1>1, <3>1, <3>2, <3>3
  <2>2. \A j \in 1..3 : p[j] \in Nat
    <3> HIDE DEF p
    <3>1. p[1] \in Nat /\ p[2] \in Nat /\ p[3] \in Nat
      BY <1>4, <1>6
    <3> QED BY <3>1
  <2> HIDE DEF p
  <2>3. x \in Seq(Nat) /\ Len(x) = s - 1 /\ \A i \in 1..(s - 1) : x[i] = p[5 - s + i - 1]
    <3>1. 5 - s \in Int /\ 3 \in Int /\ 5 - s <= 3 /\ 3 - (5 - s) + 1 = s - 1
          /\ \A j \in (5 - s)..3 : p[j] \in Nat
      BY <1>1, <2>2
    <3> QED BY <3>1, SubSeqProperties
  <2>4. y \in Seq(Nat) /\ Len(y) = s - 1 /\ \A i \in 1..(s - 1) : y[i] = call[1 + i - 1]
    <3>1. 1 \in Int /\ s - 1 \in Int /\ 1 <= s - 1 /\ (s - 1) - 1 + 1 = s - 1
      BY <1>1
    <3>2. \A v \in 0..35 : v \in Nat
      OBVIOUS
    <3>3. \A j \in 1..(s - 1) : call[j] \in Nat
      BY <1>2, <3>2, Zenon
    <3> QED BY <3>1, <3>3, SubSeqProperties
  <2> HIDE DEF x, y
  <2>5. ASSUME NEW i \in 1..Len(x) PROVE x[i] = y[i]
    <3>1. i \in 1..(s - 1) /\ 5 - s + i - 1 \in (5 - s)..3 /\ s - 4 + (5 - s + i - 1) = i /\ 1 + i - 1 = i
      BY <1>1, <2>3
    <3>2. x[i] = p[5 - s + i - 1] /\ y[i] = call[i]
      BY <2>3, <2>4, <3>1
    <3>3. p[5 - s + i - 1] = call[i]
      BY <2>1, <3>1
    <3> QED BY <3>2, <3>3
  <2>6. x = y
    BY <2>3, <2>4, <2>5, SeqEqual
  <2> QED BY <2>1, <2>6 DEF x, y
<1>8. N \in Nat /\ N < 50653 /\ <<(N \div 37^2) % 37, (N \div 37) % 37, N % 37>> = p
  <2>1. /\ N \in Nat /\ N < 50653
        /\ (N \div 37^2) % 37 = a /\ (N \div 37) % 37 = b /\ N % 37 = c
    <3> HIDE DEF p
    <3> DEFINE ok(m) == /\ m \in Nat /\ m < 50653 /\ (m \div 37^2) % 37 = a
                        /\ (m \div 37) % 37 = b /\ m % 37 = c
    <3>1. ok(37 * (37 * a + b) + c)
      BY <1>4, ThreeBack
    <3> HIDE DEF ok
    <3>2. ok(N)
      BY <1>5, <3>1
    <3> QED BY <3>2 DEF ok
  <2> QED BY <2>1
<1> DEFINE First(k) == /\ k = 1 \/ p[k - 1] = Blank
                       /\ \A j \in k..3 : p[j] # Blank
<1> HIDE DEF p
<1>9. (CHOOSE k \in 1..4 : First(k)) = 5 - s
  <2>1. 5 - s \in 1..4 /\ First(5 - s)
    BY <1>1, <1>7
  <2>2. ASSUME NEW k \in 1..4, First(k) PROVE k = 5 - s
    <3>1. CASE k < 5 - s
      <4>1. 4 - s \in k..3 /\ s # 4
        BY <1>1, <3>1
      <4> QED BY <1>7, <2>2, <4>1
    <3>2. CASE k > 5 - s
      <4>1. k - 1 \in (5 - s)..3 /\ k # 1
        BY <1>1, <3>2
      <4> QED BY <1>7, <2>2, <4>1
    <3> QED BY <1>1, <3>1, <3>2
  <2> HIDE DEF First
  <2> QED BY <2>1, <2>2
<1>10. UnpackPrefix(N, BaseCall(call)) = SubSeq(p, 5 - s, 3) \o <<Stroke>> \o BaseCall(call)
  <2> DEFINE q == <<(N \div 37^2) % 37, (N \div 37) % 37, N % 37>>
             Start(r) == CHOOSE k \in 1..4 : /\ k = 1 \/ r[k - 1] = Blank
                                             /\ \A j \in k..3 : r[j] # Blank
  <2>1. UnpackPrefix(N, BaseCall(call)) = SubSeq(q, Start(q), 3) \o <<Stroke>> \o BaseCall(call)
    BY DEF UnpackPrefix
  <2>2. Start(p) = 5 - s
    BY <1>9 DEF First
  <2>3. q = p
    BY <1>8
  <2> HIDE DEF Start, q
  <2>4. SubSeq(q, Start(q), 3) = SubSeq(p, 5 - s, 3)
    BY <2>2, <2>3
  <2> QED BY <2>1, <2>4
<1>11. SubSeq(call, 1, s - 1) \o <<call[s]>> \o SubSeq(call, s + 1, n) = call
  BY <1>1, Rejoin DEF n
<1>12. UnpackPrefix(N, BaseCall(call)) = call
  BY <1>1, <1>7, <1>10, <1>11
<1> QED BY <1>8, <1>12 DEF N

\* So has a suffix, unless it is one of 00 to 09.
LEMMA SuffixBack ==
  ASSUME NEW call \in Seq(Digit \cup Letter \cup {Stroke}), ValidCall(call), Compound(call),
         ~HasPrefix(call)
  PROVE  /\ SuffixNumber(call) \in 0..125
         /\ Expressible(call) => UnpackSuffix(SuffixNumber(call), BaseCall(call)) = call
<1> DEFINE s == StrokeAt(call)  n == Len(call)  N == SuffixNumber(call)
<1>1. /\ n \in Nat /\ s \in 1..n /\ call[s] = Stroke /\ n - s \in 1..2
      /\ \A k \in 1..n : k # s => call[k] \in Digit \cup Letter
      /\ n - s = 2 => call[n - 1] \in Digit /\ call[n] \in Digit
      /\ BaseCall(call) = SubSeq(call, 1, s - 1)
  BY CompoundShape
<1>2. AddOnLen(call) = n - s
  BY DEF AddOnLen
<1>3. N = IF n - s = 1 THEN call[s + 1] ELSE 26 + 10 * call[s + 1] + call[s + 2]
  BY <1>2 DEF SuffixNumber
<1>4. Expressible(call) /\ n - s = 2 => call[n - 1] # 0
  BY <1>2 DEF Expressible
<1> HIDE DEF s, n, N
<1>5. SubSeq(call, 1, s - 1) \o <<call[s]>> \o SubSeq(call, s + 1, n) = call
  BY <1>1, Rejoin DEF n
<1>6. CASE n - s = 1
  <2>1. s + 1 = n /\ n \in 1..n /\ n # s
    BY <1>1, <1>6
  <2>2. N = call[n] /\ N \in 0..35
    <3>1. call[n] \in Digit \cup Letter
      BY <1>1, <2>1
    <3> QED BY <1>3, <1>6, <2>1, <3>1 DEF Digit, Letter
  <2>3. SubSeq(call, s + 1, n) = <<N>>
    BY <1>1, <2>1, <2>2, ShortSubSeq
  <2>4. UnpackSuffix(N, BaseCall(call)) = BaseCall(call) \o <<Stroke>> \o <<N>>
    <3>1. N < 36
      <4>1. N \in 0..35
        BY <2>2
      <4> QED BY <4>1
    <3> QED BY <3>1 DEF UnpackSuffix
  <2>5. N \in 0..125
    BY <2>2
  <2>6. UnpackSuffix(N, BaseCall(call)) = call
    BY <1>1, <1>5, <2>3, <2>4
  <2> QED BY <2>5, <2>6 DEF N
<1>7. CASE n - s = 2
  <2> DEFINE a == call[n - 1]  b == call[n]
  <2>1. s + 1 = n - 1 /\ s + 2 = n
    BY <1>1, <1>7
  <2>2. a \in 0..9 /\ b \in 0..9 /\ N = 26 + 10 * a + b
    BY <1>1, <1>3, <1>7, <2>1 DEF Digit
  <2>3. SubSeq(call, s + 1, n) = <<a, b>>
    <3>1. n - 1 \in Int /\ n - 1 + 1 = n
      BY <1>1
    <3>2. SubSeq(call, n - 1, n) = <<a, b>>
      BY <2>2, <3>1, ShortSubSeq
    <3> QED BY <2>1, <3>2
  <2> HIDE DEF a, b
  <2>4. N \in 0..125 /\ (N - 26) % 10 = b /\ (N - 26) \div 10 = a
    BY <2>2
  <2>5. ASSUME Expressible(call) PROVE UnpackSuffix(N, BaseCall(call)) = call
    <3>1. a # 0
      BY <1>4, <1>7, <2>5 DEF a
    <3>2. ~(N < 36)
      BY <2>2, <3>1
    <3>3. UnpackSuffix(N, BaseCall(call)) = BaseCall(call) \o <<Stroke>> \o <<a, b>>
      BY <2>4, <3>2 DEF UnpackSuffix
    <3> QED BY <1>1, <1>5, <2>3, <3>3
  <2> QED BY <2>4, <2>5 DEF N
<1> QED BY <1>1, <1>6, <1>7

LEMMA AddOnKept ==
  ASSUME NEW call \in Seq(Digit \cup Letter \cup {Stroke}), ValidCall(call), Compound(call)
  PROVE  /\ AddOn(call).ng \in Nat /\ AddOn(call).ng < 65536 /\ AddOn(call).nadd \in 1..2
         /\ Kept(AddOn(call).ng) \in Nat
         /\ Kept(AddOn(call).ng) + 32768 * (AddOn(call).nadd - 1)
              = IF HasPrefix(call) THEN PrefixNumber(call) ELSE 60000 + SuffixNumber(call)
<1> DEFINE P == PrefixNumber(call)  S == SuffixNumber(call)
<1>1. CASE HasPrefix(call)
  <2>1. P \in Nat /\ P < 50653
    BY <1>1, PrefixBack
  <2>2. CASE P < 32768
    <3>1. AddOn(call).ng = P /\ AddOn(call).nadd = 1
      BY <1>1, <2>2 DEF AddOn
    <3> QED BY <1>1, <2>1, <2>2, <3>1 DEF Kept
  <2>3. CASE ~(P < 32768)
    <3>1. AddOn(call).ng = P - 32768 /\ AddOn(call).nadd = 2
      BY <1>1, <2>3 DEF AddOn
    <3> HIDE DEF P
    <3>2. P - 32768 \in Nat /\ P - 32768 < 32768
      BY <2>1, <2>3
    <3> QED BY <1>1, <2>1, <3>1, <3>2 DEF Kept, P
  <2> QED BY <2>2, <2>3
<1>2. CASE ~HasPrefix(call)
  <2>1. S \in 0..125
    BY <1>2, SuffixBack
  <2>2. AddOn(call).ng = 60000 + S /\ AddOn(call).nadd = 2
    BY <1>2 DEF AddOn
  <2> HIDE DEF S
  <2> DEFINE n == 60000 + S
  <2>3. n \in Nat /\ n < 65536 /\ ~(n < 32768) /\ n - 32768 \in Nat
    BY <2>1
  <2> HIDE DEF n
  <2>4. Kept(n) = n - 32768
    BY <2>3 DEF Kept
  <2>5. AddOn(call).ng = n
    BY <2>2 DEF n
  <2>6. Kept(n) + 32768 * (2 - 1) = n
    BY <2>3, <2>4
  <2> QED BY <1>2, <2>2, <2>3, <2>4, <2>5, <2>6 DEF n, S
<1> QED BY <1>1, <1>2

\* The type field tells a power from the same power with nadd in it.
LEMMA TypeField ==
  ASSUME NEW p \in 0..60, PowerStep(p), NEW a \in 1..2
  PROVE  /\ Nadd((p + a) % 10) = a /\ ~PowerStep(p + a)
         /\ p + a \in 1..62 /\ (p + a) - a = p
<1>1. p % 10 \in {0, 3, 7}
  BY DEF PowerStep
<1>2. (p + a) % 10 = (p % 10) + a
  BY <1>1
<1>3. (p + a) % 10 \in {0 + a, 3 + a, 7 + a}
  BY <1>1, <1>2
<1>4. Nadd((p + a) % 10) = a
  <2> DEFINE r == (p + a) % 10
  <2>1. r \in {0 + a, 3 + a, 7 + a}
    BY <1>3
  <2> HIDE DEF r
  <2>2. Nadd(r) = a
    BY <2>1 DEF Nadd
  <2> QED BY <2>2 DEF r
<1>5. ~PowerStep(p + a)
  BY <1>3 DEF PowerStep
<1> QED BY <1>4, <1>5

-----------------------------------------------------------------------------
(* Messages.                                                               *)

\* A locator of six characters.
LocFit(g) ==
  /\ g = <<g[1], g[2], g[3], g[4], g[5], g[6]>>
  /\ g[1] \in 10..27 /\ g[2] \in 10..27 /\ g[3] \in 0..9 /\ g[4] \in 0..9
  /\ g[5] \in 10..34 /\ g[6] \in 10..34

LEMMA StationFit ==
  ASSUME NEW s \in Stations
  PROVE  /\ s.call \in Seq(Digit \cup Letter \cup {Stroke}) /\ ValidCall(s.call)
         /\ s.pos \in Position
         /\ s.power \in 0..60 /\ PowerStep(s.power)
         /\ Hash(s.call) \in Nat /\ Hash(s.call) < 32768
<1>1. 2^15 = 32768
  OBVIOUS
<1> QED BY <1>1, StationsAssumption

LEMMA LocShape ==
  ASSUME NEW s \in Stations
  PROVE  LocFit(Loc(s)) /\ GridFit(SubSeq(Loc(s), 1, 4))
<1> DEFINE l == Loc(s)  q == SubSeq(l, 1, 4)
<1>1. s.pos.lon \in Angle /\ s.pos.lat \in Angle
  <2>1. s.pos \in Position
    BY StationFit
  <2> QED BY <2>1 DEF Position
<1>2. LocFit(l)
  <2>1. CASE PoleRefused(s.pos)
    <3>1. l = <<21, 24, 0, 5, 18, 24>>
      BY <2>1 DEF Loc, SaveLocation
    <3> HIDE DEF l
    <3> QED BY <3>1 DEF LocFit
  <2>2. CASE ~PoleRefused(s.pos)
    <3> DEFINE a == Field(s.pos.lon)  b == Field(s.pos.lat)
               c == Square(s.pos.lon)  d == Square(s.pos.lat)
               e == Subsquare(s.pos.lon)  f == Subsquare(s.pos.lat)
    <3>1. l = <<10 + a, 10 + b, c, d, 10 + e, 10 + f>>
      BY <2>2 DEF Loc, SaveLocation, LatLonToGSQ
    <3>2. /\ a \in 0..17 /\ b \in 0..17 /\ c \in 0..9 /\ d \in 0..9
          /\ e \in 0..24 /\ f \in 0..24
      BY <1>1, DegreesBack, SubsquareBounds
    <3> HIDE DEF l, a, b, c, d, e, f
    <3> QED BY <3>1, <3>2 DEF LocFit
  <2> QED BY <2>1, <2>2
<1> HIDE DEF l
<1>3. q \in Seq(Nat) /\ Len(q) = 4 /\ q[1] = l[1] /\ q[2] = l[2] /\ q[3] = l[3] /\ q[4] = l[4]
  <2>1. \A i \in 1..4 : l[i] \in Nat
    <3>1. l[1] \in Nat /\ l[2] \in Nat /\ l[3] \in Nat /\ l[4] \in Nat
      BY <1>2 DEF LocFit
    <3> QED BY <3>1
  <2>2. /\ q \in Seq(Nat) /\ Len(q) = 4 /\ \A i \in 1..4 : q[i] = l[1 + i - 1]
    BY <2>1, SubSeqProperties
  <2> HIDE DEF q
  <2> QED BY <2>2
<1> HIDE DEF q
<1>4. q = <<q[1], q[2], q[3], q[4]>>
  BY <1>3
<1>5. GridFit(q)
  BY <1>2, <1>3, <1>4 DEF GridFit, LocFit
<1> QED BY <1>2, <1>5 DEF l, q

\* What a station sends, and what its words are made of: the characters packed
\* as a call sign, the number and the type field of the second word.
Message(m) == m.station \in Stations /\ m.grid \in Halves(m.station)
Words(m)   == Pack(m.station.call, m.grid, m.station.power)

Packed(m) == IF Len(m.grid) = 6 THEN Rotate(m.grid) ELSE BaseCall(m.station.call)
SecondOf(m) ==
  IF Len(m.grid) = 6 THEN Hash(m.station.call)
  ELSE IF Compound(m.station.call) THEN AddOn(m.station.call).ng
  ELSE GridNumber(m.grid)
TypeOf(m) ==
  IF Len(m.grid) = 6 THEN -(m.station.power + 1)
  ELSE IF Compound(m.station.call) THEN m.station.power + AddOn(m.station.call).nadd
  ELSE m.station.power

LEMMA GridCases ==
  ASSUME NEW m, Message(m)
  PROVE  \/ Len(m.grid) = 6 /\ LocFit(m.grid) /\ m.grid = Loc(m.station)
         \/ /\ Len(m.grid) = 4 /\ GridFit(m.grid) /\ ~Compound(m.station.call)
            /\ m.grid = SubSeq(Loc(m.station), 1, 4)
         \/ Len(m.grid) = 0 /\ m.grid = <<>> /\ Compound(m.station.call)
<1> DEFINE s == m.station  g == m.grid  l == Loc(s)
<1>1. LocFit(l) /\ GridFit(SubSeq(l, 1, 4))
  BY LocShape DEF Message
<1>2. ASSUME NEW x, LocFit(x) PROVE Len(x) = 6
  <2>1. x = <<x[1], x[2], x[3], x[4], x[5], x[6]>>
    BY <1>2 DEF LocFit
  <2> QED BY <2>1
<1>3. ASSUME NEW x, GridFit(x) PROVE Len(x) = 4
  <2>1. x = <<x[1], x[2], x[3], x[4]>>
    BY <1>3 DEF GridFit
  <2> QED BY <2>1
<1>4. g = l \/ (Compound(s.call) /\ g = <<>>) \/ (~Compound(s.call) /\ g = SubSeq(l, 1, 4))
  BY DEF Message, Halves
<1> HIDE DEF l, g
<1>5. CASE g = l
  BY <1>1, <1>2, <1>5 DEF g, l
<1>6. CASE Compound(s.call) /\ g = <<>>
  <2>1. Len(g) = 0
    BY <1>6
  <2> QED BY <1>6, <2>1 DEF g
<1>7. CASE ~Compound(s.call) /\ g = SubSeq(l, 1, 4)
  BY <1>1, <1>3, <1>7 DEF g, l
<1> QED BY <1>4, <1>5, <1>6, <1>7

LEMMA GridShape ==
  ASSUME NEW m, Message(m)
  PROVE  /\ Len(m.grid) \in {0, 4, 6}
         /\ Len(m.grid) = 6 => LocFit(m.grid) /\ m.grid = Loc(m.station)
         /\ Len(m.grid) = 4 => /\ GridFit(m.grid) /\ ~Compound(m.station.call)
                              /\ m.grid = SubSeq(Loc(m.station), 1, 4)
         /\ Len(m.grid) = 0 => m.grid = <<>> /\ Compound(m.station.call)
<1> DEFINE n == Len(m.grid)
<1>1. CASE n = 6 /\ LocFit(m.grid) /\ m.grid = Loc(m.station)
  BY <1>1
<1>2. CASE /\ n = 4 /\ GridFit(m.grid) /\ ~Compound(m.station.call)
           /\ m.grid = SubSeq(Loc(m.station), 1, 4)
  BY <1>2
<1>3. CASE n = 0 /\ m.grid = <<>> /\ Compound(m.station.call)
  BY <1>3
<1> HIDE DEF n
<1> QED BY <1>1, <1>2, <1>3, GridCases, Zenon DEF n

LEMMA PackFields ==
  ASSUME NEW m, Message(m)
  PROVE  /\ Words(m) = ToWord(PackCall(Packed(m)), 128 * SecondOf(m) + TypeOf(m) + 64)
         /\ SecondOf(m) \in Nat /\ SecondOf(m) < 65536 /\ TypeOf(m) \in (-61)..62
         /\ m.station.power \in 0..60 /\ PowerStep(m.station.power)
<1> DEFINE s == m.station  c == s.call  p == s.power  g == m.grid
<1>1. /\ c \in Seq(Digit \cup Letter \cup {Stroke}) /\ ValidCall(c)
      /\ p \in 0..60 /\ PowerStep(p) /\ Hash(c) \in Nat /\ Hash(c) < 32768
  BY StationFit DEF Message
<1>2. LegalPower(p) = p
  <2>1. p \in 0..60 /\ PowerStep(p)
    BY <1>1
  <2> HIDE DEF p
  <2> QED BY <2>1, PowerKept
<1> HIDE DEF s, c, p, g
<1>3. CASE Len(g) = 6
  <2>1. Words(m) = ToWord(PackCall(Rotate(g)), 128 * Hash(c) - (p + 1) + 64)
    BY <1>2, <1>3 DEF Words, Pack, MessageType, g, p, c, s
  <2>2. SecondOf(m) = Hash(c) /\ TypeOf(m) = -(p + 1) /\ Packed(m) = Rotate(g)
    BY <1>3 DEF SecondOf, TypeOf, Packed, g, p, c, s
  <2>3. 128 * Hash(c) - (p + 1) + 64 = 128 * Hash(c) + (-(p + 1)) + 64
    BY <1>1
  <2>4. -(p + 1) \in (-61)..62
    BY <1>1
  <2>5. Hash(c) < 65536
    BY <1>1
  <2> QED BY <1>1, <2>1, <2>2, <2>3, <2>4, <2>5 DEF p, c, s
<1>4. CASE Len(g) # 6 /\ Compound(c)
  <2> DEFINE a == AddOn(c).nadd  n == AddOn(c).ng
  <2>1. a \in 1..2 /\ n \in Nat /\ n < 65536
    BY <1>1, <1>4, AddOnKept
  <2>2. Words(m) = ToWord(PackCall(BaseCall(c)), 128 * n + p + a + 64)
    BY <1>2, <1>4 DEF Words, Pack, MessageType, g, p, c, s
  <2>3. SecondOf(m) = n /\ TypeOf(m) = p + a /\ Packed(m) = BaseCall(c)
    BY <1>4 DEF SecondOf, TypeOf, Packed, g, p, c, s
  <2> HIDE DEF a, n
  <2>4. 128 * n + p + a + 64 = 128 * n + (p + a) + 64 /\ p + a \in (-61)..62
    BY <1>1, <2>1
  <2> QED BY <1>1, <2>1, <2>2, <2>3, <2>4 DEF p, c, s
<1>5. CASE Len(g) # 6 /\ ~Compound(c)
  <2>1. GridFit(g)
    BY <1>5, GridCases DEF g, c, s
  <2>2. GridNumber(g) \in Nat /\ GridNumber(g) < 32400
    BY <2>1, GridBack DEF GridNumbers
  <2>3. BaseCall(c) = c
    BY <1>5 DEF BaseCall
  <2>4. Words(m) = ToWord(PackCall(c), 128 * GridNumber(g) + p + 64)
    BY <1>2, <1>5 DEF Words, Pack, MessageType, g, p, c, s
  <2>5. SecondOf(m) = GridNumber(g) /\ TypeOf(m) = p /\ Packed(m) = c
    BY <1>5, <2>3 DEF SecondOf, TypeOf, Packed, g, p, c, s
  <2>6. GridNumber(g) < 65536 /\ p \in (-61)..62
    BY <1>1, <2>2
  <2> QED BY <1>1, <2>2, <2>4, <2>5, <2>6 DEF p, c, s
<1> QED BY <1>3, <1>4, <1>5

\* The words of a message give its number, as far as 15 bits go, and its type
\* field, whatever the call sign.
LEMMA SecondWord ==
  ASSUME NEW m, Message(m)
  PROVE  /\ Words(m).n2 \div 128 = Kept(SecondOf(m))
         /\ (Words(m).n2 % 128) - 64 = TypeOf(m)
         /\ PackCall(Packed(m)) \in Nat /\ PackCall(Packed(m)) < CallNumbers
              => Words(m).n1 = PackCall(Packed(m))
<1> DEFINE g == SecondOf(m)  t == TypeOf(m)  n1 == PackCall(Packed(m))
           w == ToWord(n1, 128 * g + t + 64)
<1>1. Words(m) = w /\ g \in Nat /\ g < 65536 /\ t \in (-61)..62
  BY PackFields
<1> HIDE DEF g, t, n1
<1>2. g \in Nat /\ g < 65536 /\ t \in (-64)..63
  BY <1>1
<1>3. WordCarries(n1, g, t)
  BY <1>2, WordBack
<1>4. /\ n1 \in Nat /\ n1 < CallNumbers => w.n1 = n1
      /\ w.n2 \div 128 = Kept(g)
      /\ (w.n2 % 128) - 64 = t
  BY <1>3 DEF WordCarries
<1> HIDE DEF w
<1> QED BY <1>1, <1>4 DEF g, t, n1

LEMMA NoBlank ==
  ASSUME NEW t \in Seq(Nat), \A j \in 1..Len(t) : t[j] # Blank
  PROVE  UpToBlank(t) = t
<1>1. Len(t) \in Nat
  BY LenProperties
<1>2. Len(t) \in 0..Len(t)
  BY <1>1
<1>3. UpToBlank(t) = SubSeq(t, 1, Len(t))
  BY <1>2, FirstBlank
<1> QED BY <1>3, SubSeqFull

LEMMA RotateSix ==
  ASSUME NEW a \in Nat, NEW b \in Nat, NEW c \in Nat, NEW d \in Nat, NEW e \in Nat, NEW f \in Nat
  PROVE  Rotate(<<a, b, c, d, e, f>>) = <<b, c, d, e, f, a>>
<1> DEFINE h == <<a, b, c, d, e, f>>  r == <<b, c, d, e, f, a>>  t == Tail(h)  x == Append(t, Head(h))
<1>1. /\ h \in Seq(Nat) /\ h # <<>> /\ Len(h) = 6 /\ Head(h) = a
      /\ h[1] = a /\ h[2] = b /\ h[3] = c /\ h[4] = d /\ h[5] = e /\ h[6] = f
  OBVIOUS
<1>2. /\ r \in Seq(Nat) /\ Len(r) = 6
      /\ r[1] = b /\ r[2] = c /\ r[3] = d /\ r[4] = e /\ r[5] = f /\ r[6] = a
  OBVIOUS
<1>3. Rotate(h) = x
  BY DEF Rotate
<1> HIDE DEF h, r
<1>4. t \in Seq(Nat) /\ Len(t) = 5 /\ \A i \in 1..5 : t[i] = h[i + 1]
  <2>1. t \in Seq(Nat) /\ Len(t) = Len(h) - 1 /\ \A i \in 1..Len(t) : t[i] = h[i + 1]
    BY <1>1, HeadTailProperties
  <2> HIDE DEF t
  <2> QED BY <1>1, <2>1
<1> HIDE DEF t
<1>5. x \in Seq(Nat) /\ Len(x) = 6 /\ x[6] = a /\ \A i \in 1..5 : x[i] = t[i]
  <2>1. x = Append(t, a)
    BY <1>1
  <2>2. t \in Seq(Nat) /\ a \in Nat
    BY <1>4
  <2>3. Append(t, a) \in Seq(Nat)
    BY <2>2, AppendProperties
  <2>4. Len(Append(t, a)) = Len(t) + 1
    BY <2>2, AppendProperties
  <2>5. \A i \in 1..Len(t) : Append(t, a)[i] = t[i]
    BY <2>2, AppendProperties
  <2>6. Append(t, a)[Len(t) + 1] = a
    BY <2>2, AppendProperties
  <2>7. Len(t) = 5
    BY <1>4
  <2> HIDE DEF x
  <2>8. x \in Seq(Nat) /\ Len(x) = 6
    BY <2>1, <2>3, <2>4, <2>7
  <2>9. x[6] = a
    <3>1. Len(t) + 1 = 6
      BY <2>7
    <3>2. x[Len(t) + 1] = a
      BY <2>1, <2>6
    <3> QED BY <3>1, <3>2
  <2>10. \A i \in 1..5 : x[i] = t[i]
    BY <2>1, <2>5, <2>7
  <2> QED BY <2>8, <2>9, <2>10
<1> HIDE DEF x
<1>6. x[1] = b /\ x[2] = c /\ x[3] = d /\ x[4] = e /\ x[5] = f
  <2>1. t[1] = h[2] /\ t[2] = h[3] /\ t[3] = h[4] /\ t[4] = h[5] /\ t[5] = h[6]
    BY <1>4
  <2> QED BY <1>1, <1>5, <2>1
<1>7. \A i \in 1..Len(x) : x[i] = r[i]
  BY <1>2, <1>5, <1>6
<1>8. x = r
  BY <1>2, <1>5, <1>7, SeqEqual
<1> QED BY <1>3, <1>8 DEF h, r

\* A locator of six characters is packed as its last five and its first.
LEMMA RotatePlain ==
  ASSUME NEW g, LocFit(g)
  PROVE  Rotate(g) = <<g[2], g[3], g[4], g[5], g[6], g[1]>> /\ Plain(Rotate(g))
<1> DEFINE r == <<g[2], g[3], g[4], g[5], g[6], g[1]>>  h == <<g[1], g[2], g[3], g[4], g[5], g[6]>>
<1>1. g = h
  BY DEF LocFit
<1>2. Rotate(h) = r
  <2>1. /\ g[1] \in Nat /\ g[2] \in Nat /\ g[3] \in Nat
        /\ g[4] \in Nat /\ g[5] \in Nat /\ g[6] \in Nat
    BY DEF LocFit
  <2> QED BY <2>1, RotateSix
<1>3. Rotate(g) = r
  <2> HIDE DEF r
  <2> QED BY <1>1, <1>2
<1>4. /\ g[1] \in Letter /\ g[2] \in Letter /\ g[3] \in Digit /\ g[4] \in Digit
      /\ g[5] \in Letter /\ g[6] \in Letter
  BY DEF LocFit, Letter, Digit
<1>5. /\ Len(r) = 6 /\ r \in Seq(Digit \cup Letter)
      /\ r[1] = g[2] /\ r[2] = g[3] /\ r[3] = g[4] /\ r[4] = g[5] /\ r[5] = g[6] /\ r[6] = g[1]
  BY <1>4
<1> HIDE DEF r
<1>6. IsDigitAt(r, 3) /\ DigitAt(r) = 3
  BY <1>4, <1>5 DEF IsDigitAt, DigitAt
<1>7. \A k \in 4..6 : r[k] \in Letter
  BY <1>4, <1>5
<1>8. \A k \in 1..6 : r[k] \in Digit \cup Letter
  BY <1>4, <1>5
<1>9. ValidBase(r)
  BY <1>5, <1>6, <1>8 DEF ValidBase
<1>10. Plain(r)
  BY <1>5, <1>6, <1>7, <1>9 DEF Plain
<1> QED BY <1>3, <1>10 DEF r

LEMMA BaseValid ==
  ASSUME NEW call \in Seq(Digit \cup Letter \cup {Stroke}), ValidCall(call)
  PROVE  BaseCall(call) \in Seq(Digit \cup Letter) /\ ValidBase(BaseCall(call))
<1>1. CASE Compound(call)
  BY <1>1, CompoundShape
<1>2. CASE ~Compound(call)
  <2>1. BaseCall(call) = call /\ ValidBase(call)
    BY <1>2 DEF BaseCall, ValidCall
  <2>2. \A k \in 1..Len(call) : call[k] \in Digit \cup Letter
    BY <2>1 DEF ValidBase
  <2>3. SubSeq(call, 1, Len(call)) \in Seq(Digit \cup Letter)
    <3>1. 1 \in Int /\ Len(call) \in Int
      BY LenProperties
    <3> QED BY <2>2, <3>1, SubSeqProperties
  <2>4. SubSeq(call, 1, Len(call)) = call
    BY SubSeqFull
  <2> QED BY <2>1, <2>3, <2>4
<1> QED BY <1>1, <1>2

LEMMA BasePlain ==
  ASSUME NEW call \in Seq(Digit \cup Letter \cup {Stroke}), ValidCall(call), Expressible(call)
  PROVE  Plain(BaseCall(call))
<1>1. \A k \in (DigitAt(BaseCall(call)) + 1)..Len(BaseCall(call)) : BaseCall(call)[k] \in Letter
  BY DEF Expressible
<1> QED BY <1>1, BaseValid DEF Plain

LEMMA PackedPlain ==
  ASSUME NEW m, Message(m), Carried(m)
  PROVE  Plain(Packed(m))
<1>1. CASE Len(m.grid) = 6
  <2>1. LocFit(m.grid)
    BY <1>1, GridShape
  <2> QED BY <1>1, <2>1, RotatePlain DEF Packed
<1>2. CASE Len(m.grid) # 6
  <2> DEFINE c == m.station.call
  <2>1. c \in Seq(Digit \cup Letter \cup {Stroke}) /\ ValidCall(c)
    BY StationFit DEF Message
  <2>2. Expressible(c)
    BY <1>2 DEF Carried
  <2> HIDE DEF c
  <2>3. Plain(BaseCall(c))
    BY <2>1, <2>2, BasePlain
  <2> QED BY <1>2, <2>3 DEF Packed, c
<1> QED BY <1>1, <1>2

\* What a receiver should read of a message; Sent is the reading of the last.
Reading(m) ==
  LET call == m.station.call
      type == MessageType(call, m.grid)
  IN  [type |-> type, grid |-> m.grid, power |-> m.station.power,
       call |-> IF type = "type3" THEN <<>> ELSE call,
       hash |-> IF type = "type3" THEN Hash(call) ELSE -1]

LEMMA Type1Reads ==
  ASSUME NEW m, Message(m), Carried(m), Len(m.grid) = 4, ~Compound(m.station.call)
  PROVE  Unpack(Words(m)) = Reading(m)
<1> DEFINE w == Words(m)  c == m.station.call  g == m.grid  p == m.station.power
           n == GridNumber(g)
<1>1. /\ SecondOf(m) = n /\ TypeOf(m) = p /\ Packed(m) = c
  BY DEF SecondOf, TypeOf, Packed, BaseCall
<1>2. GridFit(g)
  BY GridShape
<1>3. n \in Nat /\ n < GridNumbers /\ UnpackGrid(n) = g
  BY <1>2, GridBack
<1>4. Kept(n) = n
  <2>1. n < 32768
    BY <1>3 DEF GridNumbers
  <2> QED BY <2>1 DEF Kept
<1>5. p \in 0..60 /\ PowerStep(p)
  BY PackFields
<1>6. Plain(c)
  BY <1>1, PackedPlain
<1>7. PackCall(c) \in Nat /\ PackCall(c) < CallNumbers /\ UnpackCall(PackCall(c)) = c
  BY <1>6, CallsComeBack
<1>8. w.n1 = PackCall(c) /\ w.n2 \div 128 = n /\ (w.n2 % 128) - 64 = p
  BY <1>1, <1>4, <1>7, SecondWord
<1> HIDE DEF w, n
<1>9. ~(w.n1 >= CallNumbers) /\ ~(n >= GridNumbers) /\ ~(p < 0) /\ p # 63
  <2>1. GridNumbers \in Nat /\ CallNumbers \in Nat
    BY DEF GridNumbers, CallNumbers
  <2> QED BY <1>3, <1>5, <1>7, <1>8, <2>1
<1>10. Unpack(w) = [NoText EXCEPT !.type = "type1", !.call = c, !.grid = g, !.power = p]
  BY <1>3, <1>5, <1>7, <1>8, <1>9 DEF Unpack
<1>11. MessageType(c, g) = "type1"
  BY DEF MessageType
<1> QED BY <1>10, <1>11 DEF Reading, NoText, w

\* Of a compound call sign the number that says the prefix or suffix may be too
\* large to be a locator's.
LEMMA Type2Reads ==
  ASSUME NEW m, Message(m), Carried(m), m.grid = <<>>, Compound(m.station.call)
  PROVE  \/ Unpack(Words(m)) = Reading(m)
         \/ Unpack(Words(m)) = NoText /\ Words(m).n2 \div 128 >= GridNumbers
<1> DEFINE w == Words(m)  c == m.station.call  p == m.station.power
           n == Kept(AddOn(c).ng)  a == AddOn(c).nadd  b == BaseCall(c)
           k == IF HasPrefix(c) THEN PrefixNumber(c) ELSE 60000 + SuffixNumber(c)
<1>1. Len(m.grid) = 0 /\ Len(m.grid) # 6
  OBVIOUS
<1>2. SecondOf(m) = AddOn(c).ng /\ TypeOf(m) = p + a /\ Packed(m) = b
  BY <1>1 DEF SecondOf, TypeOf, Packed
<1>3. c \in Seq(Digit \cup Letter \cup {Stroke}) /\ ValidCall(c) /\ Expressible(c)
  BY <1>1, StationFit DEF Message, Carried
<1>4. n \in Nat /\ a \in 1..2 /\ n + 32768 * (a - 1) = k
  <2> HIDE DEF c
  <2> QED BY <1>3, AddOnKept DEF c
<1>5. p \in 0..60 /\ PowerStep(p)
  BY PackFields
<1>6. Plain(b)
  BY <1>2, PackedPlain
<1>7. PackCall(b) \in Nat /\ PackCall(b) < CallNumbers /\ UnpackCall(PackCall(b)) = b
  BY <1>6, CallsComeBack
<1>8. w.n1 = PackCall(b) /\ w.n2 \div 128 = n /\ (w.n2 % 128) - 64 = p + a
  BY <1>2, <1>7, SecondWord
<1> HIDE DEF w, n, a, b, k, p
<1>9. /\ Nadd((p + a) % 10) = a /\ ~PowerStep(p + a)
      /\ p + a \in 1..62 /\ (p + a) - a = p
  <2>1. p \in 0..60 /\ PowerStep(p) /\ a \in 1..2
    BY <1>4, <1>5
  <2> QED BY <2>1, TypeField
<1>10. ~(w.n1 >= CallNumbers) /\ ~(p + a < 0) /\ p + a # 63
  <2>1. p + a \in 1..62 /\ p \in Int /\ a \in Int
    BY <1>4, <1>5, <1>9
  <2>2. ~(p + a < 0) /\ p + a # 63
    BY <2>1
  <2>3. CallNumbers \in Nat
    BY DEF CallNumbers
  <2>4. ~(w.n1 >= CallNumbers)
    BY <1>7, <1>8, <2>3
  <2> QED BY <2>2, <2>4
<1>11. CASE n >= GridNumbers
  <2>1. Unpack(w) = NoText
    BY <1>8, <1>11 DEF Unpack
  <2> QED BY <1>8, <1>11, <2>1 DEF w
<1>12. CASE ~(n >= GridNumbers)
  <2>1. Unpack(w) = UnpackType2(n, p + a, b)
    BY <1>7, <1>8, <1>9, <1>10, <1>12 DEF Unpack
  <2>2. /\ ~(k >= 60000 /\ SuffixCode(k) > 125)
        /\ c = IF k < 60000 THEN UnpackPrefix(k, b) ELSE UnpackSuffix(SuffixCode(k), b)
    <3>1. CASE HasPrefix(c)
      <4>1. k = PrefixNumber(c) /\ k \in Nat /\ k < 50653 /\ UnpackPrefix(k, b) = c
        BY <1>3, <3>1, PrefixBack DEF k, b
      <4>2. k < 60000 /\ ~(k >= 60000)
        BY <4>1
      <4> QED BY <4>1, <4>2
    <3>2. CASE ~HasPrefix(c)
      <4> DEFINE r == SuffixNumber(c)
      <4>1. r \in 0..125 /\ UnpackSuffix(r, b) = c
        BY <1>3, <3>2, SuffixBack DEF b
      <4>2. k = 60000 + r
        BY <3>2 DEF k
      <4> HIDE DEF r
      <4>3. ~(k < 60000) /\ k - 60000 = r /\ r % 256 = r /\ ~(r > 125)
        BY <4>1, <4>2
      <4>4. SuffixCode(k) = r
        BY <4>3 DEF SuffixCode
      <4> QED BY <4>1, <4>3, <4>4
    <3> QED BY <3>1, <3>2
  <2>3. UnpackType2(n, p + a, b) =
          [NoText EXCEPT !.type = "type2", !.call = c, !.power = p]
    <3> DEFINE q == p + a
               Text(i, x) ==
                 IF (x >= 60000 /\ SuffixCode(x) > 125) \/ ~PowerStep(q - i) THEN NoText
                 ELSE [NoText EXCEPT !.type = "type2",
                         !.call = IF x < 60000 THEN UnpackPrefix(x, b)
                                  ELSE UnpackSuffix(SuffixCode(x), b),
                         !.power = q - i]
    <3>1. UnpackType2(n, q, b) = Text(Nadd(q % 10), n + 32768 * (Nadd(q % 10) - 1))
      BY DEF UnpackType2
    <3>2. Nadd(q % 10) = a /\ q - a = p /\ PowerStep(p) /\ n + 32768 * (a - 1) = k
      BY <1>4, <1>5, <1>9
    <3> HIDE DEF q
    <3>3. Text(a, k) = [NoText EXCEPT !.type = "type2", !.call = c, !.power = p]
      <4>1. ~((k >= 60000 /\ SuffixCode(k) > 125) \/ ~PowerStep(q - a))
        BY <2>2, <3>2
      <4> DEFINE x == IF k < 60000 THEN UnpackPrefix(k, b) ELSE UnpackSuffix(SuffixCode(k), b)
      <4>2. Text(a, k) = [NoText EXCEPT !.type = "type2", !.call = x, !.power = q - a]
        BY <4>1
      <4>3. x = c
        BY <2>2
      <4> HIDE DEF x, Text, c
      <4>4. q - a = p
        BY <3>2
      <4> QED BY <4>2, <4>3, <4>4
    <3> HIDE DEF Text
    <3>4. UnpackType2(n, q, b) = Text(a, k)
      BY <3>1, <3>2
    <3> QED BY <3>3, <3>4 DEF q
  <2>4. MessageType(c, m.grid) = "type2"
    BY <1>1 DEF MessageType
  <2>5. Reading(m) = [type |-> "type2", grid |-> <<>>, power |-> p, call |-> c, hash |-> -1]
    BY <2>4 DEF Reading, p
  <2> QED BY <2>1, <2>3, <2>5 DEF NoText, w
<1> QED BY <1>11, <1>12

LEMMA Type3Reads ==
  ASSUME NEW m, Message(m), Len(m.grid) = 6
  PROVE  \/ Unpack(Words(m)) = Reading(m)
         \/ Unpack(Words(m)) = NoText /\ Words(m).n2 \div 128 >= GridNumbers
<1> DEFINE w == Words(m)  g == m.grid  p == m.station.power  h == Hash(m.station.call)
           r == Rotate(g)  f == CallField(PackCall(r))  t == -(p + 1)
           e == SubSeq(f, 1, 5)
<1>1. SecondOf(m) = h /\ TypeOf(m) = t /\ Packed(m) = r
  BY DEF SecondOf, TypeOf, Packed
<1>2. LocFit(g)
  BY GridShape
<1>3. h \in Nat /\ h < 32768 /\ Kept(h) = h
  BY StationFit DEF Message, Kept
<1>4. p \in 0..60 /\ PowerStep(p)
  BY PackFields
<1>5. Plain(r) /\ r = <<g[2], g[3], g[4], g[5], g[6], g[1]>>
  BY <1>2, RotatePlain
<1>6. /\ PackCall(r) \in Nat /\ PackCall(r) < CallNumbers
      /\ f = LeftAligned(Six(r))
  BY <1>5, CallsComeBack
<1>7. f \in Seq(Nat) /\ Len(f) = 6 /\ \A k \in 1..6 : f[k] = At(r, k)
  BY <1>5, <1>6, SixAligned
<1>8. w.n1 = PackCall(r) /\ w.n2 \div 128 = h /\ (w.n2 % 128) - 64 = t
  BY <1>1, <1>3, <1>6, SecondWord
<1>9. /\ g = <<g[1], g[2], g[3], g[4], g[5], g[6]>>
      /\ g[1] \in 10..27 /\ g[2] \in 10..27 /\ g[3] \in 0..9 /\ g[4] \in 0..9
      /\ g[5] \in 10..34 /\ g[6] \in 10..34
  BY <1>2 DEF LocFit
<1> HIDE DEF w, g, h, f, p
<1>10. f[1] = g[2] /\ f[2] = g[3] /\ f[3] = g[4] /\ f[4] = g[5] /\ f[5] = g[6] /\ f[6] = g[1]
  <2>1. Len(r) = 6 /\ r[1] = g[2] /\ r[2] = g[3] /\ r[3] = g[4] /\ r[4] = g[5] /\ r[5] = g[6] /\ r[6] = g[1]
    BY <1>5
  <2> HIDE DEF r
  <2>2. At(r, 1) = r[1] /\ At(r, 2) = r[2] /\ At(r, 3) = r[3] /\ At(r, 4) = r[4]
        /\ At(r, 5) = r[5] /\ At(r, 6) = r[6]
    BY <2>1 DEF At
  <2> QED BY <1>7, <2>1, <2>2
<1>11. UpToBlank(<<f[6]>>) = <<g[1]>>
  <2> DEFINE q == <<g[1]>>
  <2>1. q \in Seq(Nat) /\ Len(q) = 1 /\ q[1] # Blank
    <3>1. g[1] \in Nat /\ g[1] # Blank
      BY <1>9 DEF Blank
    <3> QED BY <3>1
  <2>2. <<f[6]>> = q
    BY <1>10
  <2> HIDE DEF q
  <2>3. \A j \in 1..Len(q) : q[j] # Blank
    BY <2>1
  <2>4. UpToBlank(q) = q
    BY <2>1, <2>3, NoBlank
  <2> QED BY <2>2, <2>4 DEF q
<1>12. UpToBlank(e) = <<g[2], g[3], g[4], g[5], g[6]>>
  <2> DEFINE q == <<g[2], g[3], g[4], g[5], g[6]>>
  <2>1. /\ q \in Seq(Nat) /\ Len(q) = 5
        /\ q[1] = g[2] /\ q[2] = g[3] /\ q[3] = g[4] /\ q[4] = g[5] /\ q[5] = g[6]
    BY <1>9
  <2>2. e \in Seq(Nat) /\ Len(e) = 5 /\ \A i \in 1..5 : e[i] = f[1 + i - 1]
    <3>1. \A i \in 1..Len(f) : f[i] \in Nat
      BY <1>7, ElementOfSeq
    <3>2. 1 \in Int /\ 5 \in Int /\ 1 <= 5 /\ 5 - 1 + 1 = 5 /\ \A i \in 1..5 : f[i] \in Nat
      BY <1>7, <3>1
    <3> QED BY <3>2, SubSeqProperties
  <2> HIDE DEF q, e
  <2>3. \A i \in 1..Len(e) : e[i] = q[i]
    BY <1>10, <2>1, <2>2
  <2>4. e = q
    BY <2>1, <2>2, <2>3, SeqEqual
  <2>5. \A i \in 1..Len(q) : q[i] # Blank
    <3>1. /\ g[2] # Blank /\ g[3] # Blank /\ g[4] # Blank /\ g[5] # Blank /\ g[6] # Blank
      BY <1>9 DEF Blank
    <3> QED BY <2>1, <3>1
  <2>6. UpToBlank(q) = q
    BY <2>1, <2>5, NoBlank
  <2> QED BY <2>4, <2>6 DEF q
<1>13. <<g[1]>> \o <<g[2], g[3], g[4], g[5], g[6]>> = g
  <2>1. /\ g[1] \in Nat /\ g[2] \in Nat /\ g[3] \in Nat
        /\ g[4] \in Nat /\ g[5] \in Nat /\ g[6] \in Nat
    BY <1>9
  <2> DEFINE x == <<g[1]>>  y == <<g[2], g[3], g[4], g[5], g[6]>>
             z == <<g[1], g[2], g[3], g[4], g[5], g[6]>>
  <2>2. x \in Seq(Nat) /\ Len(x) = 1 /\ x[1] = g[1]
    BY <2>1
  <2>3. /\ y \in Seq(Nat) /\ Len(y) = 5
        /\ y[1] = g[2] /\ y[2] = g[3] /\ y[3] = g[4] /\ y[4] = g[5] /\ y[5] = g[6]
    BY <2>1
  <2>4. /\ z \in Seq(Nat) /\ Len(z) = 6
        /\ z[1] = g[1] /\ z[2] = g[2] /\ z[3] = g[3] /\ z[4] = g[4] /\ z[5] = g[5] /\ z[6] = g[6]
    BY <2>1
  <2> HIDE DEF x, y, z
  <2>5. /\ x \o y \in Seq(Nat) /\ Len(x \o y) = 6
        /\ \A i \in 1..6 : (x \o y)[i] = IF i <= 1 THEN x[i] ELSE y[i - 1]
    <3>1. x \in Seq(Nat) /\ y \in Seq(Nat)
      BY <2>2, <2>3
    <3>2. /\ x \o y \in Seq(Nat) /\ Len(x \o y) = Len(x) + Len(y)
          /\ \A i \in 1..(Len(x) + Len(y)) :
               (x \o y)[i] = IF i <= Len(x) THEN x[i] ELSE y[i - Len(x)]
      BY <3>1, ConcatProperties
    <3>3. Len(x) = 1 /\ Len(x) + Len(y) = 6
      BY <2>2, <2>3
    <3> QED BY <3>2, <3>3
  <2>6. \A i \in 1..Len(z) : z[i] = (x \o y)[i]
    <3> DEFINE u == x \o y
    <3>1. \A i \in 1..6 : u[i] = IF i <= 1 THEN x[i] ELSE y[i - 1]
      BY <2>5
    <3> HIDE DEF u
    <3>2. u[1] = x[1] /\ u[2] = y[1] /\ u[3] = y[2] /\ u[4] = y[3] /\ u[5] = y[4] /\ u[6] = y[5]
      BY <3>1
    <3>3. \A i \in 1..Len(z) : z[i] = u[i]
      BY <2>2, <2>3, <2>4, <3>2
    <3> QED BY <3>3 DEF u
  <2>7. x \o y = z
    BY <2>4, <2>5, <2>6, SeqEqual
  <2>8. z = g
    BY <1>9 DEF z
  <2> QED BY <2>7, <2>8 DEF x, y
<1>14. UpToBlank(<<f[6]>>) \o UpToBlank(SubSeq(f, 1, 5)) = g
  BY <1>11, <1>12, <1>13 DEF e
<1>15. t < 0 /\ -(t + 1) = p /\ t # -64 /\ ~(w.n1 >= CallNumbers)
  <2>1. CallNumbers \in Nat
    BY DEF CallNumbers
  <2> QED BY <1>4, <1>6, <1>8, <2>1
<1> HIDE DEF t
<1>16. CASE h >= GridNumbers
  <2>1. Unpack(w) = NoText
    BY <1>8, <1>16 DEF Unpack
  <2> QED BY <1>8, <1>16, <2>1 DEF w
<1>17. CASE ~(h >= GridNumbers)
  <2>1. Unpack(w) = UnpackType3(h, t, f)
    BY <1>8, <1>15, <1>17 DEF Unpack, f
  <2>2. Len(g) >= 4 /\ {g[1], g[2]} \subseteq Letter /\ {g[3], g[4]} \subseteq Digit
    <3>1. Len(g) = 6
      BY <1>9
    <3> QED BY <1>9, <3>1 DEF Letter, Digit
  <2>3. UnpackType3(h, t, f) =
          [NoText EXCEPT !.type = "type3", !.hash = h, !.grid = g, !.power = p]
    BY <1>4, <1>14, <1>15, <2>2 DEF UnpackType3
  <2>4. MessageType(m.station.call, g) = "type3"
    BY DEF MessageType, g
  <2>5. Reading(m) = [type |-> "type3", grid |-> g, power |-> p, call |-> <<>>, hash |-> h]
    BY <2>4 DEF Reading, p, g, h
  <2> QED BY <2>1, <2>3, <2>5 DEF NoText, w
<1> QED BY <1>16, <1>17

\* What is printed of a message that can be carried is what was sent; else its
\* second word is no locator.
LEMMA ReadsAsSent ==
  ASSUME NEW m, Message(m), Carried(m)
  PROVE  \/ Unpack(Words(m)) = Reading(m)
         \/ Unpack(Words(m)) = NoText /\ Words(m).n2 \div 128 >= GridNumbers
<1>1. CASE Len(m.grid) = 6
  BY <1>1, Type3Reads
<1>2. CASE Len(m.grid) = 4
  BY <1>2, GridShape, Type1Reads
<1>3. CASE Len(m.grid) = 0
  BY <1>3, GridShape, Type2Reads
<1> QED BY <1>1, <1>2, <1>3, GridShape

-----------------------------------------------------------------------------
(* What is printed of any word, also of one that was not sent like this.   *)

LEMMA SixShape ==
  ASSUME NEW n \in Nat, n < CallNumbers
  PROVE  LET t == SixChars(n)
         IN  /\ t \in Seq(Nat) /\ Len(t) = 6
             /\ t[2] # Blank /\ t[3] \in 0..9
<1> DEFINE a == n \div 7085880  b == (n \div 196830) % 36  c == (n \div 19683) % 10
           x == (n \div 729) % 27  y == (n \div 27) % 27  z == n % 27
           t == <<a, b, c, 10 + x, 10 + y, 10 + z>>
<1>1. 27^3 * 360 = 7085880 /\ 27^3 * 10 = 196830
  BY Powers
<1>2. SixChars(n) = t
  BY <1>1, Powers DEF SixChars
<1>3. a \in Nat
  OBVIOUS
<1>4. b \in 0..35
  OBVIOUS
<1>5. c \in 0..9
  OBVIOUS
<1>6. x \in Nat /\ y \in Nat /\ z \in Nat
  OBVIOUS
<1> HIDE DEF a, b, c, x, y, z
<1>7. t \in Seq(Nat) /\ Len(t) = 6 /\ t[2] = b /\ t[3] = c
  BY <1>3, <1>4, <1>5, <1>6
<1>8. b # Blank
  BY <1>4 DEF Blank
<1> HIDE DEF t
<1> QED BY <1>2, <1>5, <1>7, <1>8

\* A call sign that is unpacked has its digit second or third and at most three
\* characters behind it.
CallLike(c) ==
  /\ c \in Seq(Nat) /\ Len(c) \in 2..6
  /\ \E d \in 2..3 : IsDigitAt(c, d) /\ Len(c) - d \in 0..3

LEMMA UnpackShape ==
  ASSUME NEW n \in Nat, n < CallNumbers
  PROVE  CallLike(UnpackCall(n))
<1> DEFINE t == SixChars(n)  m == IF t[1] # Blank THEN 1 ELSE 2  d == 4 - m
           f == LeftAligned(t)
<1>1. t \in Seq(Nat) /\ Len(t) = 6 /\ t[2] # Blank /\ t[3] \in 0..9
  BY SixShape
<1> HIDE DEF t
<1>2. m \in 1..2 /\ t[m] # Blank /\ \A j \in 1..(m - 1) : t[j] = Blank
  <2>1. CASE t[1] # Blank
    BY <2>1
  <2>2. CASE t[1] = Blank
    <3>1. m = 2
      BY <2>2
    <3> QED BY <1>1, <2>2, <3>1
  <2> QED BY <2>1, <2>2
<1> HIDE DEF m
<1>3. /\ f \in Seq(Nat) /\ Len(f) = 6
      /\ \A k \in 1..(7 - m) : f[k] = t[k + m - 1]
      /\ \A k \in (8 - m)..6 : f[k] = Blank
  BY <1>1, <1>2, Aligned
<1> HIDE DEF f
<1>4. /\ d \in 2..3 /\ f[d] \in 0..9 /\ \A j \in 1..d : f[j] # Blank
      /\ d = 3 \/ f[6] = Blank
  <2>1. CASE m = 1
    <3>1. f[1] = t[1] /\ f[2] = t[2] /\ f[3] = t[3]
      BY <1>3, <2>1
    <3>2. d = 3 /\ f[1] # Blank /\ f[2] # Blank /\ f[3] \in 0..9 /\ f[3] # Blank
      BY <1>1, <1>2, <2>1, <3>1 DEF Blank
    <3> QED BY <3>2
  <2>2. CASE m = 2
    <3>1. f[1] = t[2] /\ f[2] = t[3] /\ f[6] = Blank
      BY <1>3, <2>2
    <3>2. d = 2 /\ f[1] # Blank /\ f[2] \in 0..9 /\ f[2] # Blank
      BY <1>1, <2>2, <3>1 DEF Blank
    <3> QED BY <3>1, <3>2
  <2> QED BY <1>2, <2>1, <2>2
<1> HIDE DEF d
<1>5. PICK k \in d..(d + 3) : /\ k = 6 \/ f[k + 1] = Blank
                              /\ k <= 6 /\ \A j \in 1..k : f[j] # Blank
  <2>1. CASE f[d + 1] = Blank
    BY <1>4, <2>1
  <2>2. CASE f[d + 1] # Blank /\ f[d + 2] = Blank
    <3>1. \A j \in 1..(d + 1) : f[j] # Blank
      BY <1>4, <2>2
    <3>2. d + 1 \in d..(d + 3) /\ d + 1 <= 6 /\ (d + 1) + 1 = d + 2
      BY <1>4
    <3> QED BY <2>2, <3>1, <3>2
  <2>3. CASE f[d + 1] # Blank /\ f[d + 2] # Blank /\ f[d + 3] = Blank
    <3>1. \A j \in 1..(d + 2) : f[j] # Blank
      BY <1>4, <2>3
    <3>2. d + 2 \in d..(d + 3) /\ d + 2 <= 6 /\ (d + 2) + 1 = d + 3
      BY <1>4
    <3> QED BY <2>3, <3>1, <3>2
  <2>4. CASE f[d + 1] # Blank /\ f[d + 2] # Blank /\ f[d + 3] # Blank
    <3>1. \A j \in 1..(d + 3) : f[j] # Blank
      BY <1>4, <2>4
    <3>2. /\ d + 3 \in d..(d + 3) /\ d + 3 <= 6
          /\ d = 3 => d + 3 = 6
          /\ d = 2 => (d + 3) + 1 = 6
      BY <1>4
    <3>3. d + 3 = 6 \/ f[(d + 3) + 1] = Blank
      BY <1>4, <3>2
    <3> QED BY <3>1, <3>2, <3>3
  <2> QED BY <2>1, <2>2, <2>3, <2>4
<1> DEFINE c == SubSeq(f, 1, k)
<1>6. UpToBlank(f) = c
  <2>1. k \in 0..Len(f) /\ (k = Len(f) \/ f[k + 1] = Blank)
    BY <1>3, <1>4, <1>5
  <2> QED BY <1>3, <1>5, <2>1, FirstBlank
<1>7. c \in Seq(Nat) /\ Len(c) = k /\ c[d] = f[d]
  <2>1. \A i \in 1..Len(f) : f[i] \in Nat
    BY <1>3, ElementOfSeq
  <2>2. 1 \in Int /\ k \in Int /\ 1 <= k /\ k - 1 + 1 = k /\ \A i \in 1..k : f[i] \in Nat
    BY <1>3, <1>4, <1>5, <2>1
  <2>3. c \in Seq(Nat) /\ Len(c) = k /\ \A i \in 1..k : c[i] = f[1 + i - 1]
    BY <2>2, SubSeqProperties
  <2> HIDE DEF c
  <2>4. d \in 1..k /\ 1 + d - 1 = d
    BY <1>4, <1>5
  <2> QED BY <2>3, <2>4
<1> HIDE DEF c
<1>8. IsDigitAt(c, d) /\ Len(c) - d \in 0..3 /\ Len(c) \in 2..6
  BY <1>4, <1>5, <1>7 DEF IsDigitAt, Digit
<1>9. UnpackCall(n) = c
  BY <1>6 DEF UnpackCall, CallField, f, t
<1> QED BY <1>4, <1>7, <1>8, <1>9 DEF CallLike

\* Prefix and suffix make a call sign of type 2 no longer than ten characters.
LEMMA AddOnShape ==
  ASSUME NEW n \in Int, NEW b, CallLike(b)
  PROVE  /\ Len(UnpackPrefix(n, b)) \in 1..13
         /\ Len(UnpackSuffix(n, b)) \in 1..13
<1>1. b \in Seq(Int) /\ Len(b) \in 2..6
  <2>1. b \in Seq(Nat) /\ Len(b) \in 2..6
    BY DEF CallLike
  <2> QED BY <2>1, SeqMonotonic
<1>2. <<Stroke>> \in Seq(Int) /\ Len(<<Stroke>>) = 1
  BY DEF Stroke
<1>3. Len(UnpackPrefix(n, b)) \in 1..13
  <2> DEFINE p == <<(n \div 37^2) % 37, (n \div 37) % 37, n % 37>>
             First(k) == /\ k = 1 \/ p[k - 1] = Blank
                         /\ \A j \in k..3 : p[j] # Blank
             k == CHOOSE i \in 1..4 : First(i)
             a == SubSeq(p, k, 3)
  <2>1. UnpackPrefix(n, b) = a \o <<Stroke>> \o b
    BY DEF UnpackPrefix
  <2>2. p[1] \in Int /\ p[2] \in Int /\ p[3] \in Int
    BY Powers
  <2> HIDE DEF p
  <2>3. \E i \in 1..4 : First(i)
    <3>1. CASE p[3] = Blank
      <4>1. First(4)
        BY <3>1
      <4> QED BY <4>1
    <3>2. CASE p[3] # Blank /\ p[2] = Blank
      <4>1. First(3)
        BY <3>2
      <4> QED BY <4>1
    <3>3. CASE p[3] # Blank /\ p[2] # Blank /\ p[1] = Blank
      <4>1. First(2)
        BY <3>3
      <4> QED BY <4>1
    <3>4. CASE p[3] # Blank /\ p[2] # Blank /\ p[1] # Blank
      <4>1. First(1)
        BY <3>4
      <4> QED BY <4>1
    <3> QED BY <3>1, <3>2, <3>3, <3>4
  <2> HIDE DEF First
  <2>4. k \in 1..4
    BY <2>3
  <2> HIDE DEF k
  <2>5. a \in Seq(Int) /\ Len(a) \in 0..3
    <3>1. k \in Int /\ 3 \in Int /\ \A i \in k..3 : p[i] \in Int
      BY <2>2, <2>4
    <3>2. a \in Seq(Int) /\ Len(a) = IF k <= 3 THEN 3 - k + 1 ELSE 0
      BY <3>1, SubSeqProperties
    <3> HIDE DEF a
    <3> QED BY <2>4, <3>2
  <2> HIDE DEF a
  <2>6. a \o <<Stroke>> \in Seq(Int) /\ Len(a \o <<Stroke>>) = Len(a) + 1
    BY <1>2, <2>5, ConcatProperties
  <2>7. Len(a \o <<Stroke>> \o b) = Len(a) + 1 + Len(b)
    BY <1>1, <2>6, ConcatProperties
  <2>8. Len(a) + 1 + Len(b) \in 1..13
    <3> DEFINE i == Len(a)  j == Len(b)
    <3>1. i \in 0..3 /\ j \in 2..6
      BY <1>1, <2>5
    <3> HIDE DEF i, j
    <3>2. i + 1 + j \in 1..13 /\ j + 1 + i \in 1..13
      BY <3>1
    <3> QED BY <3>2 DEF i, j
  <2> QED BY <2>1, <2>7, <2>8
<1>4. Len(UnpackSuffix(n, b)) \in 1..13
  <2> DEFINE a == IF n < 36 THEN <<n>> ELSE <<(n - 26) \div 10, (n - 26) % 10>>
  <2>1. UnpackSuffix(n, b) = b \o <<Stroke>> \o a
    BY DEF UnpackSuffix
  <2>2. a \in Seq(Int) /\ Len(a) \in 1..2
    <3>1. CASE n < 36
      BY <3>1
    <3>2. CASE ~(n < 36)
      <4>1. (n - 26) \div 10 \in Int /\ (n - 26) % 10 \in Int
        OBVIOUS
      <4> QED BY <3>2, <4>1
    <3> QED BY <3>1, <3>2
  <2> HIDE DEF a
  <2>3. b \o <<Stroke>> \in Seq(Int) /\ Len(b \o <<Stroke>>) = Len(b) + 1
    BY <1>1, <1>2, ConcatProperties
  <2>4. Len(b \o <<Stroke>> \o a) = Len(b) + 1 + Len(a)
    BY <2>2, <2>3, ConcatProperties
  <2>5. Len(b) + 1 + Len(a) \in 1..13
    <3> DEFINE i == Len(a)  j == Len(b)
    <3>1. i \in 1..2 /\ j \in 2..6
      BY <1>1, <2>2
    <3> HIDE DEF i, j
    <3>2. i + 1 + j \in 1..13 /\ j + 1 + i \in 1..13
      BY <3>1
    <3> QED BY <3>2 DEF i, j
  <2> QED BY <2>1, <2>4, <2>5
<1> QED BY <1>3, <1>4

\* The kind of a text follows from the type field; one with a call sign fits the
\* pattern of its kind, and its locator has four characters or none.
LEMMA TextShape ==
  ASSUME NEW w, w.n1 \in Nat, w.n2 \div 128 \in Int, w.n2 % 128 \in Int, Unpack(w) # NoText
  PROVE  LET t == Unpack(w)
         IN  /\ t.type \in {"type1", "type2", "type3", "empty"}
             /\ t.type = "type3" => (w.n2 % 128) - 64 < 0
             /\ t.type = "type1" => /\ \E d \in 2..3 : IsDigitAt(t.call, d) /\ Len(t.call) - d \in 0..3
                                    /\ Len(t.grid) = 4
             /\ t.type = "type2" => Len(t.call) \in 1..13 /\ t.grid = <<>>
<1> DEFINE t == Unpack(w)  ng == w.n2 \div 128  nu == (w.n2 % 128) - 64  c == UnpackCall(w.n1)
<1>1. ng \in Int /\ nu \in Int
  OBVIOUS
<1>2. ~(w.n1 >= CallNumbers \/ ng >= GridNumbers)
  BY DEF Unpack
<1>3. CallLike(c)
  <2>1. CallNumbers \in Nat
    BY DEF CallNumbers
  <2>2. w.n1 < CallNumbers
    BY <1>2, <2>1
  <2> HIDE DEF c
  <2> QED BY <2>2, UnpackShape DEF c
<1>4. t = IF nu < 0 THEN UnpackType3(ng, nu, CallField(w.n1))
          ELSE IF nu = 63 THEN [NoText EXCEPT !.type = "empty"]
          ELSE IF PowerStep(nu)
          THEN [NoText EXCEPT !.type = "type1", !.call = c, !.grid = UnpackGrid(ng), !.power = nu]
          ELSE UnpackType2(ng, nu, c)
  BY <1>2 DEF Unpack
<1>5. t # NoText
  OBVIOUS
<1> HIDE DEF t, ng, nu, c
<1>6. CASE nu < 0
  <2>1. t = UnpackType3(ng, nu, CallField(w.n1))
    BY <1>4, <1>6
  <2>2. t.type = "type3"
    BY <1>5, <2>1 DEF UnpackType3, NoText
  <2> QED BY <1>6, <2>2 DEF t, nu
<1>7. CASE ~(nu < 0) /\ nu = 63
  <2>1. t.type = "empty"
    BY <1>4, <1>7 DEF NoText
  <2> QED BY <2>1 DEF t
<1>8. CASE ~(nu < 0) /\ nu # 63 /\ PowerStep(nu)
  <2>1. t = [NoText EXCEPT !.type = "type1", !.call = c, !.grid = UnpackGrid(ng), !.power = nu]
    BY <1>4, <1>8
  <2>2. t.type = "type1" /\ t.call = c /\ t.grid = UnpackGrid(ng)
    BY <2>1 DEF NoText
  <2>3. Len(UnpackGrid(ng)) = 4
    BY DEF UnpackGrid
  <2> QED BY <1>3, <2>2, <2>3 DEF t, CallLike
<1>9. CASE ~(nu < 0) /\ nu # 63 /\ ~PowerStep(nu)
  <2>1. t = UnpackType2(ng, nu, c)
    BY <1>4, <1>9
  <2> DEFINE a == Nadd(nu % 10)  x == ng + 32768 * (a - 1)
             call == IF x < 60000 THEN UnpackPrefix(x, c) ELSE UnpackSuffix(SuffixCode(x), c)
  <2>2. t = [NoText EXCEPT !.type = "type2", !.call = call, !.power = nu - a]
    BY <1>5, <2>1 DEF UnpackType2
  <2>3. a \in Int
    <3>1. nu % 10 \in Int
      BY <1>1
    <3> DEFINE r == nu % 10
    <3> HIDE DEF r
    <3>2. Nadd(r) \in Int
      BY <3>1 DEF Nadd, r
    <3> QED BY <3>2 DEF r
  <2> HIDE DEF a
  <2>4. x \in Int /\ SuffixCode(x) \in Int
    <3>1. x \in Int
      BY <1>1, <2>3
    <3> HIDE DEF x
    <3> QED BY <3>1 DEF SuffixCode
  <2> HIDE DEF x
  <2>5. Len(call) \in 1..13
    BY <1>3, <2>4, AddOnShape
  <2> HIDE DEF call
  <2>6. t.type = "type2" /\ t.call = call /\ t.grid = <<>>
    BY <2>2 DEF NoText
  <2> QED BY <2>5, <2>6 DEF t
<1> QED BY <1>6, <1>7, <1>8, <1>9

\* A call sign that the encoder cannot express is packed as some number, too.
LEMMA PackInteger ==
  ASSUME NEW c \in Seq(Digit \cup Letter), ValidBase(c)
  PROVE  PackCall(c) \in Int
<1> DEFINE d == DigitAt(c)  n == Len(c)
<1>1. n \in Nat
  BY LenProperties
<1>2. \A k \in 1..n : c[k] \in 0..35
  <2>1. \A k \in 1..n : c[k] \in Digit \cup Letter
    BY DEF ValidBase
  <2> QED BY <2>1 DEF Digit, Letter
<1>3. d \in 2..3 /\ d <= n
  BY DEF ValidBase, DigitAt, IsDigitAt
<1> HIDE DEF d, n
<1>4. ASSUME NEW k \in 0..2, k <= n PROVE Before(c, k) \in Int
  <2>1. CASE k < 1
    BY <2>1 DEF Before, Blank
  <2>2. CASE ~(k < 1)
    <3> DEFINE x == c[k]
    <3>1. x \in 0..35 /\ Before(c, k) = x
      BY <1>1, <1>2, <1>4, <2>2 DEF Before
    <3> HIDE DEF x
    <3>2. x \in Int
      BY <3>1
    <3> QED BY <3>1, <3>2
  <2> QED BY <2>1, <2>2
<1>5. \A k \in 1..6 : After(c, k) \in Int
  <2>1. ASSUME NEW k \in 1..6 PROVE After(c, k) \in Int
    <3>1. CASE k > n
      <4>1. After(c, k) = 26
        BY <3>1 DEF After, Blank, n
      <4> QED BY <4>1
    <3>2. CASE ~(k > n)
      <4> DEFINE x == c[k]
      <4>1. x \in 0..35
        BY <1>1, <1>2, <3>2
      <4>2. After(c, k) = x - 10
        BY <3>2 DEF After, n
      <4> HIDE DEF x
      <4>3. x - 10 \in Int
        BY <4>1
      <4> QED BY <4>2, <4>3
    <3> QED BY <3>1, <3>2
  <2> QED BY <2>1
<1> DEFINE b1 == Before(c, d - 2)  b2 == Before(c, d - 1)  cd == c[d]
           x == After(c, d + 1)  y == After(c, d + 2)  z == After(c, d + 3)
<1>6. b1 \in Int /\ b2 \in Int /\ cd \in Int /\ x \in Int /\ y \in Int /\ z \in Int
  <2>1. /\ d - 2 \in 0..2 /\ d - 2 <= n /\ d - 1 \in 0..2 /\ d - 1 <= n /\ d \in 1..n
        /\ d + 1 \in 1..6 /\ d + 2 \in 1..6 /\ d + 3 \in 1..6
    BY <1>1, <1>3
  <2>2. b1 \in Int /\ b2 \in Int
    BY <1>4, <2>1
  <2>3. cd \in Int
    <3>1. cd \in 0..35
      BY <1>2, <2>1
    <3> HIDE DEF cd
    <3> QED BY <3>1
  <2>4. x \in Int /\ y \in Int /\ z \in Int
    BY <1>5, <2>1
  <2> QED BY <2>2, <2>3, <2>4
<1>7. PackCall(c) = 27 * (27 * (27 * (10 * (36 * b1 + b2) + cd) + x) + y) + z
  BY DEF PackCall, d
<1> HIDE DEF b1, b2, cd, x, y, z
<1> QED BY <1>6, <1>7

LEMMA WordsTyped ==
  ASSUME NEW m, Message(m)
  PROVE  /\ Words(m).n1 \in Nat
         /\ Words(m).n2 \div 128 \in Int /\ Words(m).n2 % 128 \in Int
         /\ (Words(m).n2 % 128) - 64 = TypeOf(m)
<1> DEFINE w == Words(m)  n1 == PackCall(Packed(m))
<1>1. n1 \in Int
  <2>1. CASE Len(m.grid) = 6
    <3>1. Plain(Packed(m))
      BY <2>1, PackedPlain DEF Carried
    <3> QED BY <3>1, CallsComeBack
  <2>2. CASE Len(m.grid) # 6
    <3>1. Packed(m) = BaseCall(m.station.call)
      BY <2>2 DEF Packed
    <3>2. BaseCall(m.station.call) \in Seq(Digit \cup Letter) /\ ValidBase(BaseCall(m.station.call))
      BY StationFit, BaseValid DEF Message
    <3> QED BY <3>1, <3>2, PackInteger
  <2> QED BY <2>1, <2>2
<1>2. w.n1 = n1 % 2^28
  BY PackFields DEF ToWord
<1>3. w.n1 \in Nat
  <2> HIDE DEF w, n1
  <2>1. n1 % 268435456 \in Nat
    BY <1>1
  <2> QED BY <1>2, <2>1, Powers
<1>4. w.n2 \div 128 = Kept(SecondOf(m)) /\ (w.n2 % 128) - 64 = TypeOf(m)
  BY SecondWord
<1>5. Kept(SecondOf(m)) \in Int
  BY PackFields DEF Kept
<1>6. TypeOf(m) \in Int
  BY PackFields
<1>7. w.n2 % 128 \in Int
  <2>1. Words(m).n2 = (128 * SecondOf(m) + TypeOf(m) + 64) % 2^22
    BY PackFields DEF ToWord
  <2> DEFINE g == SecondOf(m)  t == TypeOf(m)  r == w.n2
  <2>2. g \in Int /\ t \in Int
    BY PackFields
  <2> HIDE DEF g, t, r
  <2>3. (128 * g + t + 64) % 4194304 \in Nat
    BY <2>2
  <2>4. r \in Nat
    BY <2>1, <2>3, Powers DEF g, t, r
  <2>5. r % 128 \in Int
    BY <2>4
  <2> QED BY <2>5 DEF r
<1> QED BY <1>3, <1>4, <1>5, <1>7

\* The texts of a message, whatever its call sign: those of six characters are
\* of type 3 and as sent, all others of type 1 or 2 and fit for the log.
LEMMA MessageText ==
  ASSUME NEW m, Message(m), Unpack(Words(m)) # NoText
  PROVE  LET t == Unpack(Words(m))
         IN  /\ t.type \in {"type1", "type2", "type3", "empty"}
             /\ t.type = "type3" => t = Reading(m) /\ Len(m.grid) = 6
             /\ t.type = "type1" => /\ \E d \in 2..3 : IsDigitAt(t.call, d) /\ Len(t.call) - d \in 0..3
                                    /\ Len(t.grid) = 4
             /\ t.type = "type2" => Len(t.call) \in 1..13 /\ Len(t.grid) = 0
<1> DEFINE w == Words(m)  t == Unpack(w)
<1>1. /\ t.type \in {"type1", "type2", "type3", "empty"}
      /\ t.type = "type3" => (w.n2 % 128) - 64 < 0
      /\ t.type = "type1" => /\ \E d \in 2..3 : IsDigitAt(t.call, d) /\ Len(t.call) - d \in 0..3
                             /\ Len(t.grid) = 4
      /\ t.type = "type2" => Len(t.call) \in 1..13 /\ t.grid = <<>>
  <2> HIDE DEF w
  <2> QED BY WordsTyped, TextShape DEF w
<1>2. t.type = "type3" => Len(m.grid) = 6
  <2>1. ASSUME t.type = "type3" PROVE TypeOf(m) < 0
    BY <1>1, <2>1, WordsTyped
  <2>2. ASSUME Len(m.grid) # 6 PROVE ~(TypeOf(m) < 0)
    <3>1. m.station.power \in 0..60
      BY PackFields
    <3>2. CASE Compound(m.station.call)
      <4>1. AddOn(m.station.call).nadd \in 1..2
        BY <3>2, StationFit, AddOnKept DEF Message
      <4>2. TypeOf(m) = m.station.power + AddOn(m.station.call).nadd
        BY <2>2, <3>2 DEF TypeOf
      <4> QED BY <3>1, <4>1, <4>2
    <3>3. CASE ~Compound(m.station.call)
      <4>1. TypeOf(m) = m.station.power
        BY <2>2, <3>3 DEF TypeOf
      <4> QED BY <3>1, <4>1
    <3> QED BY <3>2, <3>3
  <2> QED BY <2>1, <2>2
<1>3. ASSUME Len(m.grid) = 6 PROVE t = Reading(m)
  BY <1>3, Type3Reads
<1>4. Len(<<>>) = 0
  OBVIOUS
<1> HIDE DEF t
<1> QED BY <1>1, <1>2, <1>3, <1>4 DEF t, w

-----------------------------------------------------------------------------
(* The behaviours.                                                         *)

\* The rows are records, whatever their fields hold.
Entry(S) == [call : S, hash : S, grid : S, power : S]
IsLog == \E S : contacts \in Seq(Entry(S))

\* What is under way stems from the message that was sent last, and each row
\* keeps the hash of its call sign beside it.
LinkInv ==
  /\ pc \in {"idle", "decode", "subtract", "store"}
  /\ \A m \in aired : Message(m)
  /\ pc # "idle" => from \in aired /\ air = Words(from)
  /\ pc \in {"subtract", "store"} => text = Unpack(air) /\ text # NoText
  /\ pc = "store" => residue = Repack(text) /\ residue # Refused
  /\ IsLog
  /\ \A k \in 1..Len(contacts) :
       contacts[k].hash = Hash(contacts[k].call) /\ Len(contacts[k].grid) \in {0, 4, 6}

\* A row after the last step is the one before, or that with the locator of the
\* text of type 3 that was received, or the new one.
Kept1(k)  == k \in 1..Len(contacts) /\ contacts'[k] = contacts[k]
Filled(k) ==
  /\ text.type = "type3" /\ k \in 1..Len(contacts)
  /\ contacts[k].hash = text.hash
  /\ contacts'[k].call = contacts[k].call /\ contacts'[k].hash = contacts[k].hash
  /\ contacts'[k].grid = text.grid
Added(k)  ==
  /\ text.type \in {"type1", "type2"}
  /\ contacts'[k].call = text.call /\ contacts'[k].hash = Hash(text.call)
  /\ contacts'[k].grid = text.grid

LEMMA StoreEffect ==
  ASSUME IsLog, Store
  PROVE  /\ IsLog'
         /\ Len(contacts') > Len(contacts) <=> Parsed(text) /\ text.type # "type3"
         /\ \A k \in 1..Len(contacts') : Kept1(k) \/ Filled(k) \/ Added(k)
         /\ Parsed(text) /\ text.type = "type3" =>
              \A k \in 1..Len(contacts') :
                /\ k \in 1..Len(contacts)
                /\ contacts[k].hash = text.hash /\ Len(contacts[k].grid) < Len(text.grid)
                     => contacts'[k].grid = text.grid
                /\ ~(contacts[k].hash = text.hash /\ Len(contacts[k].grid) < Len(text.grid))
                     => contacts'[k] = contacts[k]
                /\ contacts'[k].call = contacts[k].call
<1>1. PICK S : contacts \in Seq(Entry(S))
  BY DEF IsLog
<1> DEFINE n == Len(contacts)
<1>2. n \in Nat /\ DOMAIN contacts = 1..n /\ \A k \in 1..n : contacts[k] \in Entry(S)
  BY <1>1, LenProperties, ElementOfSeq
<1>3. CASE ~Parsed(text)
  <2>1. contacts' = contacts
    BY <1>3 DEF Store
  <2> QED BY <1>1, <1>2, <1>3, <2>1 DEF IsLog, Kept1
<1>4. CASE Parsed(text) /\ text.type = "type3"
  <2> DEFINE f == [k \in 1..n |-> Completed(contacts[k], text)]  T == S \cup {text.grid}
  <2>1. contacts' = f
    BY <1>2, <1>4 DEF Store
  <2>2. ASSUME NEW k \in 1..n
        PROVE  LET c == contacts[k]  d == Completed(contacts[k], text)
               IN  /\ d \in Entry(T) /\ d.call = c.call
                   /\ \/ d = c /\ ~(c.hash = text.hash /\ Len(c.grid) < Len(text.grid))
                      \/ /\ c.hash = text.hash /\ d.hash = c.hash /\ d.grid = text.grid
                         /\ Len(c.grid) < Len(text.grid)
    <3> DEFINE c == contacts[k]  d == Completed(contacts[k], text)
    <3>1. c \in Entry(S)
      BY <1>2, <2>2
    <3> HIDE DEF c
    <3>2. CASE c.hash = text.hash /\ Len(c.grid) < Len(text.grid)
      <4>1. d = [c EXCEPT !.grid = text.grid]
        BY <3>2 DEF Completed, c
      <4> HIDE DEF d
      <4> QED BY <3>1, <3>2, <4>1 DEF Entry, c, d
    <3>3. CASE ~(c.hash = text.hash /\ Len(c.grid) < Len(text.grid))
      <4>1. d = c
        BY <3>3 DEF Completed, c
      <4> HIDE DEF d
      <4> QED BY <3>1, <3>3, <4>1 DEF Entry, c, d
    <3> QED BY <3>2, <3>3
  <2>3. f \in Seq(Entry(T)) /\ Len(f) = n /\ \A k \in 1..n : f[k] = Completed(contacts[k], text)
    <3>1. \A k \in 1..n : Completed(contacts[k], text) \in Entry(T)
      BY <2>2
    <3> DEFINE U == Entry(T)  d(k) == Completed(contacts[k], text)
    <3>2. n \in Nat /\ \A k \in 1..n : d(k) \in U
      BY <1>2, <3>1
    <3>3. f = [k \in 1..n |-> d(k)]
      OBVIOUS
    <3> HIDE DEF f, n, U, d
    <3>4. f \in Seq(U) /\ Len(f) = n /\ \A k \in 1..n : f[k] = d(k)
      BY <3>2, <3>3
    <3> QED BY <3>4 DEF U, d
  <2> HIDE DEF f, n
  <2>4. IsLog' /\ Len(contacts') = n
    BY <2>1, <2>3 DEF IsLog
  <2>5. \A k \in 1..n : Kept1(k) \/ Filled(k)
    BY <1>4, <2>1, <2>2, <2>3 DEF Kept1, Filled, n
  <2>6. n \in Nat /\ ~(n > n)
    BY <1>2
  <2>7. ASSUME NEW k \in 1..n
        PROVE  /\ contacts[k].hash = text.hash /\ Len(contacts[k].grid) < Len(text.grid)
                    => contacts'[k].grid = text.grid
               /\ ~(contacts[k].hash = text.hash /\ Len(contacts[k].grid) < Len(text.grid))
                    => contacts'[k] = contacts[k]
               /\ contacts'[k].call = contacts[k].call
    BY <2>1, <2>2, <2>3, <2>7
  <2> QED BY <1>4, <2>4, <2>5, <2>6, <2>7 DEF n
<1>5. CASE Parsed(text) /\ text.type # "type3"
  <2> DEFINE e == [call |-> text.call, hash |-> Hash(text.call),
                   grid |-> text.grid, power |-> text.power]
             T == S \cup {text.call, Hash(text.call), text.grid, text.power}
  <2>1. contacts' = Append(contacts, e)
    BY <1>5 DEF Store
  <2>2. e \in Entry(T)
    BY DEF Entry
  <2>3. contacts \in Seq(Entry(T))
    <3>1. Entry(S) \subseteq Entry(T)
      BY DEF Entry
    <3> QED BY <1>1, <3>1, SeqMonotonic
  <2>4. text.type \in {"type1", "type2"}
    BY <1>5 DEF Parsed
  <2>5. e.call = text.call /\ e.hash = Hash(text.call) /\ e.grid = text.grid
    OBVIOUS
  <2> HIDE DEF e, T, n
  <2>6. Append(contacts, e) \in Seq(Entry(T))
    BY <2>2, <2>3, AppendProperties
  <2>7. Len(Append(contacts, e)) = n + 1
    BY <2>2, <2>3, AppendProperties DEF n
  <2>8. \A i \in 1..n : Append(contacts, e)[i] = contacts[i]
    BY <2>2, <2>3, AppendProperties DEF n
  <2>9. Append(contacts, e)[n + 1] = e
    BY <2>2, <2>3, AppendProperties DEF n
  <2>10. IsLog' /\ Len(contacts') = n + 1
    BY <2>1, <2>6, <2>7 DEF IsLog
  <2>11. ASSUME NEW k \in 1..(n + 1) PROVE Kept1(k) \/ Added(k)
    <3>1. CASE k \in 1..n
      BY <2>1, <2>8, <3>1 DEF Kept1, n
    <3>2. CASE k = n + 1
      BY <2>1, <2>4, <2>5, <2>9, <3>2 DEF Added
    <3> QED BY <1>2, <3>1, <3>2
  <2>12. n + 1 > n
    BY <1>2
  <2> QED BY <1>5, <2>10, <2>11, <2>12 DEF n
<1> QED BY <1>3, <1>4, <1>5

LEMMA LinkInvInit == Init => LinkInv
<1> SUFFICES ASSUME Init PROVE LinkInv
  OBVIOUS
<1>1. contacts \in Seq(Entry({})) /\ Len(contacts) = 0
  BY DEF Init
<1> QED BY <1>1 DEF Init, LinkInv, IsLog

LEMMA LinkInvStep == LinkInv /\ [Next]_vars => LinkInv'
<1> SUFFICES ASSUME LinkInv, [Next]_vars PROVE LinkInv'
  OBVIOUS
<1>1. CASE Send
  <2>1. PICK s \in Stations : \E grid \in Halves(s) :
          /\ from' = [station |-> s, grid |-> grid] /\ air' = Pack(s.call, grid, s.power)
    BY <1>1 DEF Send
  <2>2. PICK grid \in Halves(s) :
          /\ from' = [station |-> s, grid |-> grid] /\ air' = Pack(s.call, grid, s.power)
    BY <2>1
  <2>3. Message(from') /\ air' = Words(from')
    BY <2>2 DEF Message, Words
  <2>4. pc' = "decode" /\ aired' = aired \cup {from'} /\ contacts' = contacts
    BY <1>1 DEF Send
  <2> QED BY <2>4, <2>3 DEF LinkInv, IsLog
<1>2. CASE Decode
  <2>1. /\ text' = Unpack(air) /\ pc' = IF text' = NoText THEN "idle" ELSE "subtract"
        /\ pc = "decode"
        /\ from' = from /\ aired' = aired /\ air' = air /\ contacts' = contacts
    BY <1>2 DEF Decode
  <2> QED BY <2>1 DEF LinkInv, IsLog
<1>3. CASE Subtract
  <2>1. /\ residue' = Repack(text) /\ pc' = IF residue' = Refused THEN "idle" ELSE "store"
        /\ pc = "subtract" /\ text' = text
        /\ from' = from /\ aired' = aired /\ air' = air /\ contacts' = contacts
    BY <1>3 DEF Subtract
  <2> QED BY <2>1 DEF LinkInv, IsLog
<1>4. CASE Store
  <2>1. /\ IsLog' /\ \A k \in 1..Len(contacts') : Kept1(k) \/ Filled(k) \/ Added(k)
    BY <1>4, StoreEffect DEF LinkInv
  <2>2. pc = "store" /\ pc' = "idle" /\ aired' = aired
    BY <1>4 DEF Store
  <2>3. /\ Message(from) /\ text = Unpack(Words(from)) /\ Unpack(Words(from)) # NoText
    BY <2>2 DEF LinkInv
  <2>4. text.type = "type3" => Len(text.grid) = 6
    <3>1. ASSUME text.type = "type3" PROVE Len(text.grid) = 6
      <4>1. text = Reading(from) /\ Len(from.grid) = 6
        BY <2>3, <3>1, MessageText
      <4> QED BY <4>1 DEF Reading
    <3> QED BY <3>1
  <2>5. text.type \in {"type1", "type2"} => Len(text.grid) \in {0, 4}
    BY <2>3, MessageText
  <2>6. ASSUME NEW k \in 1..Len(contacts')
        PROVE  /\ contacts'[k].hash = Hash(contacts'[k].call)
               /\ Len(contacts'[k].grid) \in {0, 4, 6}
    <3>1. CASE Kept1(k)
      BY <3>1 DEF Kept1, LinkInv
    <3>2. CASE Filled(k)
      BY <2>4, <3>2 DEF Filled, LinkInv
    <3>3. CASE Added(k)
      BY <2>5, <3>3 DEF Added
    <3> QED BY <2>1, <3>1, <3>2, <3>3
  <2> QED BY <2>1, <2>2, <2>6 DEF LinkInv
<1>5. CASE UNCHANGED vars
  BY <1>5 DEF vars, LinkInv, IsLog
<1> QED BY <1>1, <1>2, <1>3, <1>4, <1>5 DEF Next

LEMMA LinkInvAlways == Spec => []LinkInv
BY LinkInvInit, LinkInvStep, PTL DEF Spec

\* What the text of the last message is, once it is there.
LEMMA TextIsReading ==
  ASSUME LinkInv, pc \in {"subtract", "store"}, Carried(from)
  PROVE  Message(from) /\ text = Reading(from)
<1>1. Message(from) /\ text = Unpack(Words(from)) /\ text # NoText
  BY DEF LinkInv
<1> QED BY <1>1, ReadsAsSent

\* Whatever is printed of a message that can be carried is what was sent, for
\* all settings of the stations and every hash.
THEOREM DecodedIsSent == Spec => []DecodedAsSent
<1>1. LinkInv => DecodedAsSent
  <2>1. Sent = Reading(from)
    BY DEF Sent, Reading
  <2> QED BY <2>1, TextIsReading DEF DecodedAsSent
<1> QED BY <1>1, LinkInvAlways, PTL

\* Only the table of the locators costs a message that can be carried.
THEOREM OnlyTableDrops == Spec => DroppedByTableOnly
<1>1. LinkInv /\ [Next]_vars
        => [pc = "decode" /\ pc' = "idle" /\ Carried(from) => air.n2 \div 128 >= GridNumbers]_vars
  <2> SUFFICES ASSUME LinkInv, Next, pc = "decode", pc' = "idle", Carried(from)
               PROVE  air.n2 \div 128 >= GridNumbers
    OBVIOUS
  <2>1. Decode
    BY DEF Next, Send, Subtract, Store
  <2>2. Unpack(air) = NoText
    BY <2>1 DEF Decode
  <2>3. Message(from) /\ air = Words(from)
    BY DEF LinkInv
  <2>4. Reading(from) # NoText
    <3>1. Reading(from).type # "none"
      BY DEF Reading, MessageType
    <3>2. NoText.type = "none"
      BY DEF NoText
    <3> QED BY <3>1, <3>2
  <2> QED BY <2>2, <2>3, <2>4, ReadsAsSent
<1> QED BY <1>1, LinkInvAlways, PTL DEF Spec, DroppedByTableOnly

-----------------------------------------------------------------------------
(* What becomes of a message.                                              *)

\* Messages that are dropped: their number, read as a locator, is none.
Unheard(m) ==
  LET c == m.station.call IN
  IF Len(m.grid) = 6 THEN Hash(c) >= GridNumbers
  ELSE Compound(c) /\ HasPrefix(c) /\ PrefixNumber(c) \in GridNumbers..32767

\* Messages that are read and then refused: a plain call sign of three
\* characters, a hash of one or two digits.
NotRepacked(m) ==
  LET c == m.station.call IN
  IF Len(m.grid) = 6 THEN Hash(c) < 100 ELSE ~Compound(c) /\ Len(c) = 3

\* What is subtracted of a message.  The one prefix whose number is 2^15 keeps
\* its number where the sender takes 2^15 off: the words differ by one.
OnePrefix(c) == Compound(c) /\ HasPrefix(c) /\ PrefixNumber(c) = 32768
Subtracted(m) ==
  IF NotRepacked(m) THEN Refused
  ELSE IF Len(m.grid) = 6 THEN Foreign
  ELSE IF OnePrefix(m.station.call) THEN Exactly([Words(m) EXCEPT !.n2 = @ - 1])
  ELSE Exactly(Words(m))

LEMMA HashText ==
  ASSUME NEW h \in Nat, h < 32768
  PROVE  HashTextLen(h) \in 4..6 <=> ~(h < 100)
BY DEF HashTextLen

LEMMA RepackType3 ==
  ASSUME NEW m, Message(m), Len(m.grid) = 6
  PROVE  Repack(Reading(m)) = Subtracted(m)
<1> DEFINE h == Hash(m.station.call)  t == Reading(m)
<1>1. h \in Nat /\ h < 32768
  BY StationFit DEF Message
<1>2. t.type = "type3" /\ t.hash = h
  BY DEF Reading, MessageType
<1>3. HashTextLen(h) \in 4..6 <=> ~(h < 100)
  BY <1>1, HashText
<1> HIDE DEF h, t
<1>4. Repack(t) = IF HashTextLen(h) \in 4..6 THEN Foreign ELSE Refused
  BY <1>2 DEF Repack
<1>5. Subtracted(m) = IF h < 100 THEN Refused ELSE Foreign
  BY DEF Subtracted, NotRepacked, h
<1> QED BY <1>3, <1>4, <1>5 DEF t

\* With its digit second or third, a plain call sign is packed as it was.
LEMMA PlainRepack == ASSUME NEW b, Plain(b) PROVE RepackCall(b) = PackCall(b)
BY DEF Plain, ValidBase, RepackCall

LEMMA RepackType1 ==
  ASSUME NEW m, Message(m), Carried(m), Len(m.grid) # 6, ~Compound(m.station.call)
  PROVE  Repack(Reading(m)) = Subtracted(m)
<1> DEFINE c == m.station.call  g == m.grid  p == m.station.power  t == Reading(m)
           w == ToWord(PackCall(c), 128 * GridNumber(g) + p + 64)
<1>1. LegalPower(p) = p
  BY PackFields, PowerKept
<1>2. BaseCall(c) = c /\ MessageType(c, g) = "type1"
  BY DEF BaseCall, MessageType
<1>3. Plain(c)
  BY <1>2, PackedPlain DEF Packed
<1>4. RepackCall(c) = PackCall(c)
  BY <1>3, PlainRepack
<1>5. t.type = "type1" /\ t.call = c /\ t.grid = g /\ t.power = p
  BY <1>2 DEF Reading
<1>6. Words(m) = w
  BY <1>1, <1>2 DEF Words, Pack
<1>7. Len(c) \in 4..6 <=> ~(Len(c) = 3)
  <2> DEFINE n == Len(c)
  <2>1. n \in 3..6
    BY <1>3, PlainShape
  <2> HIDE DEF n
  <2> QED BY <2>1 DEF n
<1>8. Subtracted(m) = IF Len(c) = 3 THEN Refused ELSE Exactly(Words(m))
  BY DEF Subtracted, NotRepacked, OnePrefix
<1> HIDE DEF t, c, g, p
<1>9. Repack(t) = IF Len(c) \in 4..6 THEN Exactly(w) ELSE Refused
  BY <1>4, <1>5 DEF Repack
<1> QED BY <1>6, <1>7, <1>8, <1>9 DEF t

LEMMA RepackType2 ==
  ASSUME NEW m, Message(m), Carried(m), Len(m.grid) # 6, Compound(m.station.call)
  PROVE  Repack(Reading(m)) = Subtracted(m)
<1> DEFINE c == m.station.call  p == m.station.power  t == Reading(m)
           b == PackCall(BaseCall(c))
<1>0. /\ c \in Seq(Digit \cup Letter \cup {Stroke}) /\ ValidCall(c)
      /\ p \in 0..60 /\ PowerStep(p)
  <2>1. m.station \in Stations
    BY DEF Message
  <2> QED BY <2>1, StationFit
<1>1. /\ c \in Seq(Digit \cup Letter \cup {Stroke}) /\ ValidCall(c)
      /\ p \in 0..60 /\ LegalPower(p) = p
  BY <1>0, PowerKept
<1>2. RepackCall(BaseCall(c)) = b
  BY PackedPlain, PlainRepack DEF Packed
<1>3. MessageType(c, m.grid) = "type2"
  BY DEF MessageType
<1>4. t.type = "type2" /\ t.call = c /\ t.power = p
  BY <1>3 DEF Reading
<1>5. Words(m) = ToWord(b, 128 * AddOn(c).ng + p + AddOn(c).nadd + 64)
  BY <1>1, <1>3 DEF Words, Pack
<1>6. StrokeAt(c) # 1
  <2> DEFINE s == StrokeAt(c)  n == Len(c)
  <2>1. /\ n \in Nat /\ s \in 1..n /\ IF HasPrefix(c) THEN s \in 2..4 ELSE n - s \in 1..2
        /\ ~HasPrefix(c) => BaseCall(c) = SubSeq(c, 1, s - 1)
        /\ ValidBase(BaseCall(c))
    BY <1>1, CompoundShape
  <2>2. CASE ~HasPrefix(c) /\ s = 1
    <3>1. BaseCall(c) = SubSeq(c, 1, 0)
      BY <2>1, <2>2
    <3>2. Len(BaseCall(c)) = 0
      BY <3>1, <1>1
    <3>3. Len(BaseCall(c)) \in 3..6
      BY PackedPlain, PlainShape DEF Packed
    <3> HIDE DEF c
    <3> QED BY <3>2, <3>3
  <2> HIDE DEF s, n
  <2> QED BY <2>1, <2>2 DEF s
<1>7. Subtracted(m) = IF OnePrefix(c) THEN Exactly([Words(m) EXCEPT !.n2 = @ - 1])
                      ELSE Exactly(Words(m))
  BY DEF Subtracted, NotRepacked
<1>8. HasPrefix(c) => PrefixNumber(c) \in Nat
  BY <1>1, PrefixBack
<1>9. OnePrefix(c) <=> HasPrefix(c) /\ PrefixNumber(c) = 32768
  BY DEF OnePrefix
<1> HIDE DEF t, c, p, b
<1>10. Repack(t) = Exactly(ToWord(b, 128 * RepackAddOn(c).ng + p + RepackAddOn(c).nadd + 64))
  BY <1>1, <1>2, <1>4, <1>6 DEF Repack
<1>11. CASE OnePrefix(c)
  <2> DEFINE x == 128 * 0 + p + 2 + 64  y == 128 * 32768 + p + 1 + 64
  <2>1. AddOn(c) = [ng |-> 0, nadd |-> 2] /\ RepackAddOn(c) = [ng |-> 32768, nadd |-> 1]
    BY <1>9, <1>11 DEF AddOn, RepackAddOn
  <2>2. Words(m) = ToWord(b, x) /\ Repack(t) = Exactly(ToWord(b, y))
    BY <1>5, <1>10, <2>1
  <2>3. x % 4194304 = p + 66 /\ y % 4194304 = p + 65
    BY <1>1
  <2>4. (p + 66) - 1 = p + 65
    BY <1>1
  <2> HIDE DEF x, y
  <2>5. [ToWord(b, x) EXCEPT !.n2 = @ - 1] = ToWord(b, y)
    BY <2>3, <2>4, Powers DEF ToWord
  <2> QED BY <1>7, <1>11, <2>2, <2>5 DEF t
<1>12. CASE ~OnePrefix(c)
  <2>1. RepackAddOn(c) = AddOn(c)
    <3>1. CASE HasPrefix(c) /\ PrefixNumber(c) <= 32768
      <4> DEFINE n == PrefixNumber(c)
      <4>1. n \in Nat /\ n # 32768 /\ n <= 32768
        BY <1>8, <1>9, <1>12, <3>1
      <4> HIDE DEF n
      <4>2. n < 32768
        BY <4>1
      <4> QED BY <3>1, <4>2 DEF RepackAddOn, AddOn, n
    <3>2. CASE ~(HasPrefix(c) /\ PrefixNumber(c) <= 32768)
      BY <3>2 DEF RepackAddOn
    <3> QED BY <3>1, <3>2
  <2> QED BY <1>5, <1>7, <1>10, <1>12, <2>1 DEF t
<1> QED BY <1>11, <1>12

LEMMA RepackReading ==
  ASSUME NEW m, Message(m), Carried(m)
  PROVE  Repack(Reading(m)) = Subtracted(m)
BY RepackType1, RepackType2, RepackType3

\* The subtraction takes away what was received, for all settings but those of
\* the one prefix and of the call signs that cannot be expressed.
THEOREM SubtractedIsReceived == Spec => []SubtractedAsSent
<1>1. LinkInv => SubtractedAsSent
  <2> SUFFICES ASSUME LinkInv, pc = "store", Carried(from), text.type \in {"type1", "type2"},
                      ~(text.type = "type2" /\ HasPrefix(text.call)
                          /\ PrefixNumber(text.call) = 32768)
               PROVE  residue = Exactly(air)
    BY DEF SubtractedAsSent
  <2>1. Message(from) /\ text = Reading(from)
    BY TextIsReading
  <2>2. air = Words(from) /\ residue = Repack(text) /\ residue # Refused
    BY DEF LinkInv
  <2>3. text.type = MessageType(from.station.call, from.grid)
    BY <2>1 DEF Reading
  <2>4. Len(from.grid) # 6
    BY <2>3 DEF MessageType
  <2>5. Compound(from.station.call) => text.type = "type2" /\ text.call = from.station.call
    BY <2>1, <2>4 DEF Reading, MessageType
  <2>6. ~OnePrefix(from.station.call)
    BY <2>5 DEF OnePrefix
  <2>7. Subtracted(from) \in {Refused, Exactly(Words(from))}
    BY <2>4, <2>6 DEF Subtracted
  <2> QED BY <2>1, <2>2, <2>7, RepackReading
<1> QED BY <1>1, LinkInvAlways, PTL

\* Also of the others it is known what is subtracted: nothing that was sent for
\* a hash, and of the one prefix a word that differs by one.
THEOREM SubtractionIsKnown ==
  Spec => [](pc = "store" /\ Carried(from) => residue = Subtracted(from))
<1>1. LinkInv => (pc = "store" /\ Carried(from) => residue = Subtracted(from))
  <2> SUFFICES ASSUME LinkInv, pc = "store", Carried(from) PROVE residue = Subtracted(from)
    OBVIOUS
  <2>1. Message(from) /\ text = Reading(from) /\ residue = Repack(text)
    BY TextIsReading DEF LinkInv
  <2> QED BY <2>1, RepackReading
<1> QED BY <1>1, LinkInvAlways, PTL

LEMMA NumberRead ==
  ASSUME NEW m, Message(m)
  PROVE  Words(m).n2 \div 128 >= GridNumbers <=> Unheard(m)
<1> DEFINE c == m.station.call  n == Words(m).n2 \div 128
<1>1. n = Kept(SecondOf(m))
  BY SecondWord
<1>2. /\ c \in Seq(Digit \cup Letter \cup {Stroke}) /\ ValidCall(c)
      /\ Hash(c) \in Nat /\ Hash(c) < 32768
  BY StationFit DEF Message
<1> HIDE DEF n
<1>3. CASE Len(m.grid) = 6
  <2>1. n = Hash(c)
    BY <1>1, <1>2, <1>3 DEF SecondOf, Kept
  <2> QED BY <1>3, <2>1 DEF Unheard, n
<1>4. CASE Len(m.grid) # 6 /\ ~Compound(c)
  <2>1. Len(m.grid) = 4 /\ GridFit(m.grid)
    BY <1>4, GridShape
  <2>2. SecondOf(m) \in Nat /\ SecondOf(m) < 32400
    BY <1>4, <2>1, GridBack DEF SecondOf, GridNumbers
  <2> DEFINE k == SecondOf(m)
  <2> HIDE DEF k
  <2>3. Kept(k) = k /\ k \in Nat /\ k < 32400
    BY <2>2 DEF Kept, k
  <2>4. ~(n >= GridNumbers)
    BY <1>1, <2>3 DEF GridNumbers, k
  <2> QED BY <1>4, <2>4 DEF Unheard, n
<1>5. CASE Len(m.grid) # 6 /\ Compound(c) /\ HasPrefix(c)
  <2> DEFINE N == PrefixNumber(c)  k == SecondOf(m)
  <2>1. N \in Nat /\ N < 50653
    BY <1>2, <1>5, PrefixBack
  <2>2. k = IF N < 32768 THEN N ELSE N - 32768
    BY <1>5 DEF SecondOf, AddOn
  <2> HIDE DEF N, k
  <2>3. Kept(k) >= GridNumbers <=> N \in GridNumbers..32767
    BY <2>1, <2>2 DEF Kept, GridNumbers
  <2> QED BY <1>1, <1>5, <2>3 DEF Unheard, n, N, k
<1>6. CASE Len(m.grid) # 6 /\ Compound(c) /\ ~HasPrefix(c)
  <2> DEFINE N == SuffixNumber(c)  k == SecondOf(m)
  <2>1. N \in 0..125
    <3>1. c \in Seq(Digit \cup Letter \cup {Stroke}) /\ ValidCall(c) /\ Compound(c)
          /\ ~HasPrefix(c)
      BY <1>2, <1>6
    <3> HIDE DEF c
    <3> QED BY <3>1, SuffixBack, Zenon
  <2>2. k = 60000 + N
    BY <1>6 DEF SecondOf, AddOn
  <2> HIDE DEF N, k
  <2>3. ~(Kept(k) >= GridNumbers)
    BY <2>1, <2>2 DEF Kept, GridNumbers
  <2> QED BY <1>1, <1>6, <2>3 DEF Unheard, n, k
<1> QED BY <1>3, <1>4, <1>5, <1>6

\* A message that can be carried is dropped by the decoder exactly if its number
\* is no locator, and lost behind it exactly if its text is not packed again:
\* all others are kept and stored.
THEOREM FateOfMessages ==
  Spec => [][Carried(from) => /\ pc = "decode" => (pc' = "idle" <=> Unheard(from))
                              /\ pc = "subtract" => (pc' = "idle" <=> NotRepacked(from))]_vars
<1>1. LinkInv /\ [Next]_vars
        => [Carried(from) => /\ pc = "decode" => (pc' = "idle" <=> Unheard(from))
                             /\ pc = "subtract" => (pc' = "idle" <=> NotRepacked(from))]_vars
  <2> SUFFICES ASSUME LinkInv, Next, Carried(from)
               PROVE  /\ pc = "decode" => (pc' = "idle" <=> Unheard(from))
                      /\ pc = "subtract" => (pc' = "idle" <=> NotRepacked(from))
    OBVIOUS
  <2>1. CASE pc = "decode"
    <3>1. Decode
      BY <2>1 DEF Next, Send, Subtract, Store
    <3>2. Message(from) /\ air = Words(from)
      BY <2>1 DEF LinkInv
    <3>3. pc' = "idle" <=> Unpack(Words(from)) = NoText
      BY <3>1, <3>2 DEF Decode
    <3>4. Words(from).n2 \div 128 >= GridNumbers => Unpack(Words(from)) = NoText
      BY DEF Unpack
    <3>5. Reading(from).type # NoText.type
      BY DEF Reading, MessageType, NoText
    <3>6. Unpack(Words(from)) = NoText <=> Words(from).n2 \div 128 >= GridNumbers
      BY <3>2, <3>4, <3>5, ReadsAsSent
    <3> QED BY <2>1, <3>2, <3>3, <3>6, NumberRead
  <2>2. CASE pc = "subtract"
    <3>1. Subtract
      BY <2>2 DEF Next, Send, Decode, Store
    <3>2. Message(from) /\ text = Reading(from)
      BY <2>2, TextIsReading
    <3>3. pc' = "idle" <=> Subtracted(from) = Refused
      BY <3>1, <3>2, RepackReading DEF Subtract
    <3>4. Subtracted(from) = Refused <=> NotRepacked(from)
      BY DEF Subtracted, Refused, Foreign, Exactly
    <3> QED BY <2>2, <3>3, <3>4
  <2> QED BY <2>1, <2>2
<1> QED BY <1>1, LinkInvAlways, PTL DEF Spec

-----------------------------------------------------------------------------
(* The log.                                                                *)

\* Each row comes from messages that were sent.
RowTrue(k) ==
  /\ \E m \in aired : m.station.call = contacts[k].call
  /\ \E m \in aired : /\ Hash(m.station.call) = Hash(contacts[k].call)
                       /\ m.grid = contacts[k].grid
RowsTrue ==
  (\A m \in aired : Carried(m)) => \A k \in 1..Len(contacts) : RowTrue(k)

LEMMA LogDomain == LinkInv => DOMAIN contacts = 1..Len(contacts)
BY LenProperties DEF LinkInv, IsLog

LEMMA RowsTrueStep == LinkInv /\ LinkInv' /\ RowsTrue /\ [Next]_vars => RowsTrue'
<1> SUFFICES ASSUME LinkInv, LinkInv', RowsTrue, [Next]_vars, \A m \in aired' : Carried(m)
             PROVE  \A k \in 1..Len(contacts') : RowTrue(k)'
  BY DEF RowsTrue
<1>1. aired \subseteq aired'
  BY DEF Next, Send, Decode, Subtract, Store, vars
<1>2. \A m \in aired : Carried(m)
  BY <1>1
<1>3. \A k \in 1..Len(contacts) : RowTrue(k)
  BY <1>2 DEF RowsTrue
<1>4. CASE contacts' = contacts
  BY <1>1, <1>3, <1>4 DEF RowTrue
<1>5. CASE Store
  <2>1. /\ from \in aired /\ aired' = aired /\ Message(from) /\ Carried(from)
        /\ text = Reading(from)
    <3>1. pc = "store" /\ aired' = aired
      BY <1>5 DEF Store
    <3>2. from \in aired
      BY <3>1 DEF LinkInv
    <3> QED BY <1>2, <3>1, <3>2, TextIsReading
  <2>2. \A k \in 1..Len(contacts') : Kept1(k) \/ Filled(k) \/ Added(k)
    BY <1>5, StoreEffect DEF LinkInv
  <2>3. ASSUME NEW k \in 1..Len(contacts') PROVE RowTrue(k)'
    <3>1. CASE Kept1(k)
      BY <1>3, <2>1, <3>1 DEF Kept1, RowTrue
    <3>2. CASE Filled(k)
      <4>1. text.hash = Hash(from.station.call) /\ text.grid = from.grid
        BY <2>1, <3>2 DEF Filled, Reading
      <4>2. contacts[k].hash = Hash(contacts[k].call)
        BY <3>2 DEF Filled, LinkInv
      <4> QED BY <1>3, <2>1, <3>2, <4>1, <4>2 DEF Filled, RowTrue
    <3>3. CASE Added(k)
      <4>1. text.call = from.station.call /\ text.grid = from.grid
        BY <2>1, <3>3 DEF Added, Reading
      <4> QED BY <2>1, <3>3, <4>1 DEF Added, RowTrue
    <3> QED BY <2>2, <3>1, <3>2, <3>3
  <2> QED BY <2>3
<1> QED BY <1>4, <1>5 DEF Next, Send, Decode, Subtract, vars

LEMMA RowsTrueAlways == Spec => [](LinkInv /\ RowsTrue)
<1>1. Init => RowsTrue
  BY DEF Init, RowsTrue
<1> QED BY <1>1, LinkInvInit, LinkInvStep, RowsTrueStep, PTL DEF Spec

\* The log holds what was sent, however the halves of the stations interleave.
THEOREM LogIsTrue == Spec => []ContactsTrue
<1>1. LinkInv /\ RowsTrue => ContactsTrue
  BY LogDomain DEF RowsTrue, RowTrue, ContactsTrue
<1> QED BY <1>1, RowsTrueAlways, PTL

\* The distance in the log is right to a square of the locator it is taken from.
THEOREM LogIsLocated == Spec => []ContactsLocated
<1>1. LinkInv /\ RowsTrue => ContactsLocated
  <2> SUFFICES ASSUME LinkInv, RowsTrue, \A m \in aired : Carried(m),
                      NEW k \in DOMAIN contacts, Len(contacts[k].grid) \in {4, 6}
               PROVE  \E m \in aired :
                        /\ Hash(m.station.call) = Hash(contacts[k].call)
                        /\ ~PoleRefused(m.station.pos) => Near(contacts[k].grid, m.station.pos)
    BY DEF ContactsLocated
  <2>1. k \in 1..Len(contacts)
    BY LogDomain
  <2>2. PICK m \in aired : /\ Hash(m.station.call) = Hash(contacts[k].call)
                            /\ m.grid = contacts[k].grid
    BY <2>1 DEF RowsTrue, RowTrue
  <2>3. Message(m) /\ m.station.pos \in Position
    BY StationFit DEF LinkInv, Message
  <2>4. ASSUME ~PoleRefused(m.station.pos) PROVE Near(m.grid, m.station.pos)
    <3>1. Loc(m.station) = LatLonToGSQ(m.station.pos)
      BY <2>4 DEF Loc, SaveLocation
    <3>2. m.grid = Loc(m.station) \/ m.grid = SubSeq(Loc(m.station), 1, 4)
      BY <2>2, <2>3, GridShape
    <3> QED BY <2>3, <3>1, <3>2, LocatorsAreNear
  <2> QED BY <2>2, <2>4
<1> QED BY <1>1, RowsTrueAlways, PTL

\* A second half that reaches the log leaves no row of its call sign without the
\* six characters.
THEOREM SecondHalfCompletes == Spec => GridCompleted
<1>1. LinkInv /\ [Next]_vars
        => [(pc = "store" /\ text.type = "type3" /\ OneBlank(text))
              => \A k \in DOMAIN contacts' :
                   contacts'[k].call = from.station.call => Len(contacts'[k].grid) = 6]_vars
  <2> SUFFICES ASSUME LinkInv, Next, pc = "store", text.type = "type3", OneBlank(text),
                      NEW k \in DOMAIN contacts', contacts'[k].call = from.station.call
               PROVE  Len(contacts'[k].grid) = 6
    OBVIOUS
  <2>1. Store
    BY DEF Next, Send, Decode, Subtract
  <2>2. LinkInv'
    BY LinkInvStep
  <2>3. k \in 1..Len(contacts')
    BY <2>2, LogDomain
  <2>4. text = Reading(from) /\ Len(from.grid) = 6
    BY MessageText DEF LinkInv
  <2>5. text.grid = from.grid /\ text.hash = Hash(from.station.call)
    BY <2>4 DEF Reading, MessageType
  <2>6. Parsed(text)
    BY <2>4, <2>5 DEF Parsed
  <2>7. /\ k \in 1..Len(contacts) /\ contacts'[k].call = contacts[k].call
        /\ contacts[k].hash = text.hash /\ Len(contacts[k].grid) < Len(text.grid)
             => contacts'[k].grid = text.grid
        /\ ~(contacts[k].hash = text.hash /\ Len(contacts[k].grid) < Len(text.grid))
             => contacts'[k] = contacts[k]
    BY <2>1, <2>3, <2>6, StoreEffect DEF LinkInv
  <2>8. contacts[k].hash = text.hash
    BY <2>5, <2>7 DEF LinkInv
  <2>9. Len(contacts[k].grid) \in {0, 4, 6}
    BY <2>7 DEF LinkInv
  <2>10. CASE Len(contacts[k].grid) < 6
    BY <2>4, <2>5, <2>7, <2>8, <2>10
  <2>11. CASE ~(Len(contacts[k].grid) < 6)
    <3> DEFINE n == Len(contacts[k].grid)
    <3>1. n \in {0, 4, 6} /\ ~(n < 6)
      BY <2>9, <2>11
    <3>2. n = 6
      <4> HIDE DEF n
      <4> QED BY <3>1
    <3> QED BY <2>4, <2>5, <2>7, <2>11, <3>2
  <2> QED BY <2>10, <2>11
<1> QED BY <1>1, LinkInvAlways, PTL DEF Spec, GridCompleted

\* A text with a call sign makes a row exactly from 10 dBm up, whatever the call
\* sign, also one that was not sent like this.
THEOREM TenUpIsLogged == Spec => LoggedFromTenUp
<1>1. LinkInv /\ [Next]_vars
        => [(pc = "store" /\ text.type \in {"type1", "type2"})
              => (Len(contacts') > Len(contacts) <=> text.power >= 10)]_vars
  <2> SUFFICES ASSUME LinkInv, Next, pc = "store", text.type \in {"type1", "type2"}
               PROVE  Len(contacts') > Len(contacts) <=> text.power >= 10
    OBVIOUS
  <2>1. Store
    BY DEF Next, Send, Decode, Subtract
  <2>2. /\ text.type = "type1" => \E d \in 2..3 : IsDigitAt(text.call, d) /\ Len(text.call) - d \in 0..3
        /\ text.type = "type2" => Len(text.call) \in 1..13
    BY MessageText DEF LinkInv
  <2>3. Parsed(text) <=> OneBlank(text)
    BY <2>2 DEF Parsed
  <2>4. Len(contacts') > Len(contacts) <=> Parsed(text)
    BY <2>1, StoreEffect DEF LinkInv
  <2> QED BY <2>3, <2>4 DEF OneBlank
<1> QED BY <1>1, LinkInvAlways, PTL DEF Spec, LoggedFromTenUp
=============================================================================
