------------------------------ MODULE SpotBands ------------------------------
(***************************************************************************)
(* The bands as the program has them in three places: the menu sets the    *)
(* dial frequency, the upload service finds the band of a received         *)
(* frequency again from the digits it is printed with, and the log shows   *)
(* what was received near the dial frequency.  A frequency is its whole    *)
(* megahertz and the first five digits behind the point, steps of 10 Hz,   *)
(* and means the whole step.                                               *)
(***************************************************************************)
EXTENDS Integers

Bands == 1..20
b80mNew == 6
b2m     == 18

\* The values of the menu, from 33.4 km to 23 cm; those of the log are the same.
Dial == <<<<0, 720>>, <<0, 13600>>, <<0, 47420>>, <<1, 83660>>, <<3, 59260>>,
          <<3, 56860>>, <<5, 28720>>, <<5, 36470>>, <<7, 3860>>, <<10, 13870>>,
          <<14, 9560>>, <<18, 10460>>, <<21, 9460>>, <<24, 92460>>, <<28, 12460>>,
          <<50, 29300>>, <<70, 9100>>, <<144, 48900>>, <<432, 30000>>, <<1296, 50000>>>>

\* A message is received 1500 Hz above the dial frequency, give or take the 110 Hz
\* within which peaks are tried and the few that the search around a peak adds.
Offsets == 138..161
Above(b, o) == [mhz |-> Dial[b][1], frac |-> Dial[b][2] + o]
Received(b) == {Above(b, o) : o \in Offsets}

\* "0.00", "0.13" ... "1296.5": the megahertz, what the digits behind the point
\* begin with, and how many steps begin with that.
Prefix == <<<<0, 0, 1000>>, <<0, 13, 1000>>, <<0, 47, 1000>>, <<1, 83, 1000>>,
            <<3, 59, 1000>>, <<3, 56, 1000>>, <<5, 28, 1000>>, <<5, 36, 1000>>,
            <<7, 0, 10000>>, <<10, 1, 10000>>, <<14, 0, 10000>>, <<18, 1, 10000>>,
            <<21, 0, 100000>>, <<24, 0, 100000>>, <<28, 0, 100000>>,
            <<50, 0, 100000>>, <<70, 0, 100000>>, <<144, 48, 1000>>,
            <<432, 30, 1000>>, <<1296, 5, 10000>>>>
StartsWith(f, b) == f.mhz = Prefix[b][1] /\ f.frac \div Prefix[b][3] = Prefix[b][2]

\* Seeded fault: the digits of 80 m are compared no further than "3.5".
Freq2BandShort(f) ==
  IF f.mhz = 3 /\ f.frac \div 10000 = 5 THEN {5} ELSE {b \in Bands : StartsWith(f, b)}

\* freq2band; no band where it throws.
Freq2Band(f) == {b \in Bands : StartsWith(f, b)}

\* Seeded fault: 6 kHz became 60 kHz.
NearDialTenfold(f, b) ==
  f.mhz = Dial[b][1] /\ f.frac > Dial[b][2] - 6000 /\ f.frac < Dial[b][2] + 6000

\* The condition of the log: 6 kHz to either side, all within the same megahertz.
NearDial(f, b) ==
  f.mhz = Dial[b][1] /\ f.frac > Dial[b][2] - 600 /\ f.frac < Dial[b][2] + 600

=============================================================================
