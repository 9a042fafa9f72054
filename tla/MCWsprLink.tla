----------------------------- MODULE MCWsprLink -----------------------------
(* Stations of the TLC runs of WsprLink.                                   *)
EXTENDS WsprLink

\* A is 10, K 20, P 25, R 27, U 30, Z 35.
Plain  == {<<27, 3, 10, 11, 12>>, <<30, 10, 9, 35, 10, 35>>, <<20, 1, 10>>,
           <<9, 10, 1, 11, 11>>}
Prefix == {<<14, 10, 8, 37, 27, 3, 10, 11>>, <<15, 37, 30, 10, 9, 35, 35, 35>>,
           <<23, 25, 4, 37, 20, 1, 10, 11, 12>>}
Suffix == {<<27, 3, 10, 11, 12, 37, 25>>, <<27, 3, 10, 11, 12, 37, 7>>,
           <<30, 10, 9, 35, 10, 35, 37, 9, 9>>}

\* What the settings accept and the encoder cannot express.
Others == {<<27, 3, 10, 5>>, <<27, 10, 3, 11, 10, 5>>, <<0, 0, 0, 0>>,
           <<27, 3, 10, 11, 12, 37, 0, 5>>}

\* Degrees north of the south pole and pairs of degrees east of 180 W: Moscow
\* (LO05io), two corners of the world between the longitudes that have a locator,
\* the strip in which characters five and six become "y", and the far east,
\* which is refused.
At(lat, latFrac, lon, lonFrac) ==
  [lat |-> [deg |-> lat, frac |-> latFrac], lon |-> [deg |-> lon, frac |-> lonFrac]]
Moscow      == At(145, 60000000, 110, 35000000)
SouthWest   == At(0, 0, 45, 0)
NorthEast   == At(179, 99999983, 134, 95833400)
Strip       == At(99, 99999984, 99, 99999999)
Chukotka    == At(154, 50000000, 178, 70000000)

StationsOf(calls, positions, powers) ==
  [call : calls, pos : positions, power : powers]
TwoSlots  == StationsOf(Plain \cup Prefix \cup Suffix \cup Others,
                        {Moscow, SouthWest, NorthEast, Strip, Chukotka},
                        {0, 17, 60})

\* Two of the calls have the same hash, one a hash that is no locator, one a
\* hash of two digits.
CallHash(call) ==
  CASE call = <<27, 3, 10, 11, 12>> -> 1234
    [] call = <<14, 10, 8, 37, 27, 3, 10, 11>> -> 1234
    [] call = <<9, 10, 1, 11, 11>> -> 32500
    [] call = <<20, 1, 10>> -> 17
    [] OTHER -> 2000 + 7 * Len(call) + call[1] + call[Len(call)]

=============================================================================
