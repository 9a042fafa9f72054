------------------------------- MODULE Locator -------------------------------
(***************************************************************************)
(* Positions and Maidenhead locators: the conversion of a fix to the       *)
(* locator that is stored as "gridsq" (WSPRLatLonToGSQ and saveLocation),  *)
(* and back to the point from which the log computes distances             *)
(* (LocatorPosnInterface).  Characters are the numbers of WsprCodec.       *)
(*                                                                         *)
(* Latitudes are counted in degrees north of the south pole, longitudes in *)
(* steps of two degrees east of 180 W, as the code does.  An angle is a    *)
(* cell of 10^-8 degrees and means its middle, so the rounding of doubles  *)
(* cannot carry it over a border.                                          *)
(***************************************************************************)
EXTENDS Integers, Sequences

\* Large numbers are written as products, which the proofs keep apart.
Thousand == 1000
Unit     == 100 * Thousand * Thousand
Angle == [deg : 0..179, frac : 0..(Unit - 1)]
Position == [lat : Angle, lon : Angle]

-----------------------------------------------------------------------------
(* From a position to six characters.                                      *)

\* ydiv_arr[2], short of a 24th of a degree.
SubsquareStep == 4166 * Thousand + 666

\* The three numbers of one axis: field of ten degrees, square, subsquare.
Field(a)     == a.deg \div 10
Square(a)    == a.deg % 10
Subsquare(a) == a.frac \div SubsquareStep

\* The native function takes its arguments in the other order than the Java
\* declaration gives them: the test for the poles meets the longitude.
PoleRefused(p) == p.lon.deg \notin 45..134

\* Seeded fault: the arguments arrive as they are declared.
LatLonToGSQSwapped(p) ==
  <<10 + Field(p.lat), 10 + Field(p.lon), Square(p.lat), Square(p.lon),
    10 + Subsquare(p.lat), 10 + Subsquare(p.lon)>>

LatLonToGSQ(p) ==
  <<10 + Field(p.lon), 10 + Field(p.lat), Square(p.lon), Square(p.lat),
    10 + Subsquare(p.lon), 10 + Subsquare(p.lat)>>

\* saveLocation: the locator after a fix, given the one before.
SaveLocation(p, gridsq) == IF PoleRefused(p) THEN gridsq ELSE LatLonToGSQ(p)

-----------------------------------------------------------------------------
(* From a locator of four or six characters to a point.                    *)

\* Pairs that lack are "LL" and "55" in turn.
Padding(k) == IF ((k - 1) \div 2) % 2 = 1 THEN 5 ELSE 21
Padded(l) == [k \in 1..10 |-> IF k \in DOMAIN l THEN l[k] ELSE Padding(k)]

CharValue(c) == IF c < 10 THEN c ELSE c - 10

\* extractLocatorPart, five times: the point on one axis in 5760ths of a degree,
\* from the first characters of the pairs (side 1) or the second ones (side 2).
Extracted(l, side) ==
  LET v(pair) == CharValue(Padded(l)[2 * pair + side])
  IN  57600 * v(0) + 5760 * v(1) + 240 * v(2) + 24 * v(3) + v(4)

-----------------------------------------------------------------------------
(* What a locator should be.                                               *)

\* The exact subsquare: the 24th of a degree the middle of the cell lies in.
ExactSubsquare(a) == (6 * a.frac + 3) \div (25 * Thousand * Thousand)

\* The angle in 5760ths of a degree, rounded down.
Scaled(a) == 5760 * a.deg + (576 * (a.frac \div 1000)) \div 10000

\* The point of a locator is no further from the position, on either axis, than
\* the squares of the locator are wide.
Within(a, b, width) == a <= b + width /\ b <= a + width
Width(l) == IF Len(l) = 6 THEN 240 ELSE 5760
Near(l, p) ==
  /\ Within(Extracted(l, 1), Scaled(p.lon), Width(l))
  /\ Within(Extracted(l, 2), Scaled(p.lat), Width(l))

=============================================================================
