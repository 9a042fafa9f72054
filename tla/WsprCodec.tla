------------------------------ MODULE WsprCodec ------------------------------
(***************************************************************************)
(* The message codec of the native library: packing by the encoder of the  *)
(* application (lbenc2/wenc.c), unpacking by the decoder (wsprd_utils.c)   *)
(* and packing once more by the decoder, which subtracts what it decoded   *)
(* (wsprsim_utils.c).                                                      *)
(*                                                                         *)
(* A call sign or locator is a sequence of character codes as all three    *)
(* number them: 0..9 for digits, 10..35 for letters of either case, 36 for *)
(* a blank; 37 stands for the stroke.  A message on the air is the pair of *)
(* its 28-bit and 22-bit word; the convolutional code between is left out. *)
(***************************************************************************)
EXTENDS Integers, Sequences

\* Of nhash.c, only that the hash of a call sign has 15 bits.
CONSTANT Hash(_)

Digit  == 0..9
Letter == 10..35
Blank  == 36
Stroke == 37

Word == [n1 : 0..(2^28 - 1), n2 : 0..(2^22 - 1)]

\* Packing into bytes keeps 28 and 22 bits.
ToWord(n1, n2) == [n1 |-> n1 % 2^28, n2 |-> n2 % 2^22]

-----------------------------------------------------------------------------
(* The parts of a call sign.                                               *)

Compound(call)  == \E k \in 1..Len(call) : call[k] = Stroke
StrokeAt(call)  == CHOOSE k \in 1..Len(call) : call[k] = Stroke
AddOnLen(call)  == Len(call) - StrokeAt(call)
HasPrefix(call) == AddOnLen(call) > 2
BaseCall(call)  ==
  IF ~Compound(call) THEN call
  ELSE IF HasPrefix(call) THEN SubSeq(call, StrokeAt(call) + 1, Len(call))
  ELSE SubSeq(call, 1, StrokeAt(call) - 1)

\* The place of the digit that every call sign has second or third.
IsDigitAt(c, k) == k <= Len(c) /\ c[k] \in Digit
DigitAt(c) == IF IsDigitAt(c, 3) THEN 3 ELSE IF IsDigitAt(c, 2) THEN 2 ELSE 1

Before(c, k) == IF k < 1 THEN Blank ELSE c[k]
After(c, k)  == (IF k > Len(c) THEN Blank ELSE c[k]) - 10

\* Six characters, the digit third, in mixed radix.
PackCall(c) ==
  LET d == DigitAt(c)
      number == 10 * (36 * Before(c, d - 2) + Before(c, d - 1)) + c[d]
  IN  27 * (27 * (27 * number + After(c, d + 1)) + After(c, d + 2))
        + After(c, d + 3)

\* Three characters before the stroke, right aligned.
PrefixNumber(call) ==
  LET s == StrokeAt(call) IN
  37 * (37 * Before(call, s - 3) + Before(call, s - 2)) + Before(call, s - 1)

\* The code adds 60000 less 2^15 for one character and 60000 for two; the 22
\* bits of the word make that the same.
SuffixNumber(call) ==
  LET s == StrokeAt(call) IN
  IF AddOnLen(call) = 1 THEN call[s + 1]
  ELSE 26 + 10 * call[s + 1] + call[s + 2]

\* Seeded fault: the receiver is not told of the 2^15.
AddOnOne(call) ==
  [ng |-> IF HasPrefix(call) THEN PrefixNumber(call) % 32768
          ELSE 60000 + SuffixNumber(call),
   nadd |-> IF HasPrefix(call) THEN 1 ELSE 2]

\* The number of a prefix or suffix, less than 2^15 where it exceeds it, and
\* nadd, which tells the receiver by how much.
AddOn(call) ==
  IF HasPrefix(call)
    THEN IF PrefixNumber(call) < 32768
           THEN [ng |-> PrefixNumber(call), nadd |-> 1]
           ELSE [ng |-> PrefixNumber(call) - 32768, nadd |-> 2]
    ELSE [ng |-> 60000 + SuffixNumber(call), nadd |-> 2]

-----------------------------------------------------------------------------
(* The encoder of the application.                                         *)

GridNumber(g) ==
  180 * (179 - 10 * (g[1] - 10) - g[3]) + 10 * (g[2] - 10) + g[4]

\* Powers between the steps of the protocol move to the nearest one.
Correction == <<0, -1, 1, 0, -1, 2, 1, 0, -1, 1>>
LegalPower(dBm) ==
  IF dBm > 60 THEN 60 ELSE IF dBm < 0 THEN 0
  ELSE dBm + Correction[(dBm % 10) + 1]

\* A locator of six characters travels as a call sign: its second character
\* to its last, then the first.
Rotate(grid) == Append(Tail(grid), Head(grid))

MessageType(call, grid) ==
  IF Len(grid) = 6 THEN "type3" ELSE IF Compound(call) THEN "type2" ELSE "type1"

Pack(call, grid, dBm) ==
  LET pwr == LegalPower(dBm) IN
  CASE MessageType(call, grid) = "type1" ->
         ToWord(PackCall(call), 128 * GridNumber(grid) + pwr + 64)
    [] MessageType(call, grid) = "type2" ->
         ToWord(PackCall(BaseCall(call)),
                128 * AddOn(call).ng + pwr + AddOn(call).nadd + 64)
    [] MessageType(call, grid) = "type3" ->
         ToWord(PackCall(Rotate(grid)), 128 * Hash(call) - (pwr + 1) + 64)

-----------------------------------------------------------------------------
(* The unpacking of the decoder.                                           *)

\* The text of a message: its fields and the number that stands for the call
\* sign in type 3.
NoText == [type |-> "none", call |-> <<>>, hash |-> -1, grid |-> <<>>,
           power |-> 0]

SixChars(n) ==
  <<n \div (27^3 * 360), (n \div (27^3 * 10)) % 36, (n \div 27^3) % 10,
    10 + ((n \div 27^2) % 27), 10 + ((n \div 27) % 27), 10 + (n % 27)>>

\* Leading blanks are moved behind; a string ends at its first blank.
LeftAligned(t) ==
  LET first == CHOOSE k \in 1..6 : /\ k = 6 \/ t[k] # Blank
                                   /\ \A j \in 1..(k - 1) : t[j] = Blank
  IN  SubSeq(t, first, 6) \o [k \in 1..(first - 1) |-> Blank]
UpToBlank(t) ==
  SubSeq(t, 1, CHOOSE k \in 0..Len(t) : /\ k = Len(t) \/ t[k + 1] = Blank
                                        /\ \A j \in 1..k : t[j] # Blank)

CallNumbers    == 262177560
CallField(n)   == LeftAligned(SixChars(n))
UnpackCall(n)  == UpToBlank(CallField(n))

GridNumbers    == 32400
UnpackGrid(ng) ==
  LET nlong == 12 * (180 - (2 * (ng \div 180) - 178))
      nlat  == 24 * (ng % 180)
  IN  <<10 + nlong \div 240, 10 + nlat \div 240,
        (nlong % 240) \div 24, (nlat % 240) \div 24>>

\* The prefix that follows the last blank of its three characters, or the one
\* or two characters of a suffix; other numbers give no text.
UnpackPrefix(n, base) ==
  LET p     == <<(n \div 37^2) % 37, (n \div 37) % 37, n % 37>>
      first == CHOOSE k \in 1..4 : /\ k = 1 \/ p[k - 1] = Blank
                                   /\ \A j \in k..3 : p[j] # Blank
  IN  SubSeq(p, first, 3) \o <<Stroke>> \o base
SuffixCode(n) == (n - 60000) % 256
UnpackSuffix(nc, base) ==
  base \o <<Stroke>> \o
    IF nc < 36 THEN <<nc>> ELSE <<(nc - 26) \div 10, (nc - 26) % 10>>

PowerStep(p) == p % 10 \in {0, 3, 7}

\* How much was taken off the number of the prefix, from the last digit of the
\* type field.
Nadd(nu) == IF nu > 7 THEN nu - 7 ELSE IF nu > 3 THEN nu - 3 ELSE nu

\* Seeded fault: the power is tested with nadd in it.
UnpackType2Raw(ng, ntype, base) ==
  LET nadd == Nadd(ntype % 10)
      n3   == ng + 32768 * (nadd - 1)
      call == IF n3 < 60000 THEN UnpackPrefix(n3, base)
              ELSE UnpackSuffix(SuffixCode(n3), base)
  IN  IF (n3 >= 60000 /\ SuffixCode(n3) > 125) \/ PowerStep(ntype)
         \/ ntype % 10 = 2
      THEN NoText
      ELSE [NoText EXCEPT !.type = "type2", !.call = call,
                          !.power = ntype - nadd]

UnpackType2(ng, ntype, base) ==
  LET nadd == Nadd(ntype % 10)
      n3   == ng + 32768 * (nadd - 1)
      call == IF n3 < 60000 THEN UnpackPrefix(n3, base)
              ELSE UnpackSuffix(SuffixCode(n3), base)
  IN  IF (n3 >= 60000 /\ SuffixCode(n3) > 125) \/ ~PowerStep(ntype - nadd)
      THEN NoText
      ELSE [NoText EXCEPT !.type = "type2", !.call = call,
                          !.power = ntype - nadd]

\* The locator is the sixth character of the call sign, then the others.
UnpackType3(ng, ntype, field) ==
  LET power == -(ntype + 1)
      grid  == UpToBlank(<<field[6]>>) \o UpToBlank(SubSeq(field, 1, 5))
  IN  IF /\ PowerStep(power) /\ ntype # -64
         /\ Len(grid) >= 4 /\ {grid[1], grid[2]} \subseteq Letter
         /\ {grid[3], grid[4]} \subseteq Digit
      THEN [NoText EXCEPT !.type = "type3", !.hash = ng, !.grid = grid,
                          !.power = power]
      ELSE NoText

\* The text of a message, or NoText where unpk_ forbids to print it.  Both
\* words are unpacked, as call sign and as locator, before the type is known.
\* The one type field without a meaning leaves an empty text to be printed.
Unpack(w) ==
  LET ng    == w.n2 \div 128
      ntype == (w.n2 % 128) - 64
      call  == UnpackCall(w.n1)
  IN  IF w.n1 >= CallNumbers \/ ng >= GridNumbers THEN NoText
      ELSE IF ntype < 0 THEN UnpackType3(ng, ntype, CallField(w.n1))
      ELSE IF ntype = 63 THEN [NoText EXCEPT !.type = "empty"]
      ELSE IF PowerStep(ntype)
      THEN [NoText EXCEPT !.type = "type1", !.call = call,
                          !.grid = UnpackGrid(ng), !.power = ntype]
      ELSE UnpackType2(ng, ntype, call)

-----------------------------------------------------------------------------
(* The packing of the decoder.                                             *)

\* What is subtracted: a word, nothing at all where the text is not taken, or,
\* for a number taken as a call sign, a message of type 1 that nobody sent.
Refused == [kind |-> "refused"]
Foreign == [kind |-> "foreign"]
Exactly(w) == [kind |-> "exact", word |-> w]

\* The number of characters of "#" and the hash in decimal.
HashTextLen(h) ==
  2 + (IF h > 9 THEN 1 ELSE 0) + (IF h > 99 THEN 1 ELSE 0)
    + (IF h > 999 THEN 1 ELSE 0) + (IF h > 9999 THEN 1 ELSE 0)

\* Seeded fault: a suffix is packed as a prefix below 2^15 would be.
RepackAddOnSuffix(call) ==
  IF HasPrefix(call) THEN AddOn(call)
  ELSE [ng |-> 60000 + SuffixNumber(call), nadd |-> 1]

\* A prefix whose number is exactly 2^15 keeps it here.
RepackAddOn(call) ==
  IF HasPrefix(call) /\ PrefixNumber(call) <= 32768
    THEN [ng |-> PrefixNumber(call), nadd |-> 1]
    ELSE AddOn(call)

\* A call sign with no digit second or third is packed as six blanks.
SixBlanks == 27 * (27 * (27 * (10 * (36 * 36 + 36) + 36) + 26) + 26) + 26
RepackCall(c) ==
  IF IsDigitAt(c, 2) \/ IsDigitAt(c, 3) THEN PackCall(c) ELSE SixBlanks

Repack(t) ==
  CASE t.type = "type1" /\ Len(t.call) \in 4..6 ->
         Exactly(ToWord(RepackCall(t.call),
                        128 * GridNumber(t.grid) + t.power + 64))
    [] t.type = "type3" /\ HashTextLen(t.hash) \in 4..6 -> Foreign
    [] t.type = "type2" /\ StrokeAt(t.call) # 1 ->
         Exactly(ToWord(RepackCall(BaseCall(t.call)),
                        128 * RepackAddOn(t.call).ng + LegalPower(t.power)
                          + RepackAddOn(t.call).nadd + 64))
    [] OTHER -> Refused

=============================================================================
