------------------------------ MODULE WsprLink ------------------------------
(***************************************************************************)
(* One message per slot on its way from the settings of a sender to the    *)
(* log of a receiver, both of them this program: encoder (wspr_enc), loop  *)
(* body of the decoder (jani_do_process), and the parsing of the text by   *)
(* LBService.decodersRun.  The reception itself succeeds.  The locator of  *)
(* a sender follows its position (Locator).                                *)
(***************************************************************************)
EXTENDS WsprCodec, Locator

CONSTANTS
  Stations,   \* what the settings of a sender may be: call sign, position, power
  MaxSlots    \* bound: messages in a behaviour

\* SettingsActivity and the pattern of run() let no other settings transmit.
ValidBase(c) ==
  /\ \A k \in 1..Len(c) : c[k] \in Digit \cup Letter
  /\ \E d \in 2..3 : IsDigitAt(c, d) /\ Len(c) - d \in 1..3
ValidCall(call) ==
  IF ~Compound(call) THEN ValidBase(call)
  ELSE /\ ValidBase(BaseCall(call))
       /\ \A k \in 1..Len(call) : k # StrokeAt(call) => call[k] \in Digit \cup Letter
       /\ IF HasPrefix(call) THEN StrokeAt(call) \in 2..4 ELSE AddOnLen(call) > 0
       /\ AddOnLen(call) = 2 =>
            {call[Len(call) - 1], call[Len(call)]} \subseteq Digit

\* The call signs the encoder has numbers for: letters follow the digit, and a
\* suffix of two digits is none of 00 to 09.  The pattern lets others pass.
Expressible(call) ==
  LET base == BaseCall(call)
  IN  /\ \A k \in (DigitAt(base) + 1)..Len(base) : base[k] \in Letter
      /\ Compound(call) /\ AddOnLen(call) = 2 => call[Len(call) - 1] # 0

ASSUME StationsAssumption ==
  \A s \in Stations :
    /\ s.call \in Seq(Digit \cup Letter \cup {Stroke}) /\ ValidCall(s.call)
    /\ s.pos \in Position
    /\ s.power \in 0..60 /\ PowerStep(s.power)
    /\ Hash(s.call) \in Nat /\ Hash(s.call) < 2^15
ASSUME SlotsAssumption == MaxSlots \in Nat

VARIABLES
  pc,        \* where the message of this slot is
  from,      \* who sent it, with which of the locators
  aired,     \* history: all that was sent so far
  air,       \* its words
  text,      \* call_loc_pow
  residue,   \* what was subtracted from the recording
  contacts,  \* rows of the table, in the order of their ids
  slots

vars == <<pc, from, aired, air, text, residue, contacts, slots>>

Nobody  == [station |-> CHOOSE s \in Stations : TRUE, grid |-> <<>>]
Silence == [n1 |-> 0, n2 |-> 0]

Init ==
  /\ pc = "idle" /\ from = Nobody /\ air = Silence /\ text = NoText
  /\ residue = Refused /\ contacts = <<>> /\ slots = 0 /\ aired = {}

-----------------------------------------------------------------------------
\* The preference "gridsq" after the fix of the station; the default is LO05io.
Loc(s) == SaveLocation(s.pos, <<21, 24, 0, 5, 18, 24>>)

\* The locators of the two halves: four characters, or none for a compound
\* call sign, then all six.
Halves(s) ==
  {IF Compound(s.call) THEN <<>> ELSE SubSeq(Loc(s), 1, 4), Loc(s)}

Send ==
  /\ pc = "idle" /\ slots < MaxSlots
  /\ \E s \in Stations : \E grid \in Halves(s) :
       /\ from' = [station |-> s, grid |-> grid]
       /\ air' = Pack(s.call, grid, s.power)
  /\ pc' = "decode" /\ slots' = slots + 1 /\ aired' = aired \cup {from'}
  /\ UNCHANGED <<text, residue, contacts>>

\* A text that must not be printed is dropped.
Decode ==
  /\ pc = "decode" /\ text' = Unpack(air)
  /\ pc' = IF text' = NoText THEN "idle" ELSE "subtract"
  /\ UNCHANGED <<from, aired, air, residue, contacts, slots>>

\* Where the text is refused, the loop over the candidates is left before the
\* message is kept.
Subtract ==
  /\ pc = "subtract" /\ residue' = Repack(text)
  /\ pc' = IF residue' = Refused THEN "idle" ELSE "store"
  /\ UNCHANGED <<from, aired, air, text, contacts, slots>>

\* The power is printed to two places: below 10 dBm a second blank precedes
\* it.  Pattern 1 allows that but the split into three fields then fails,
\* patterns 2 and 3 do not allow it.
OneBlank(t) == t.power >= 10

\* Seeded fault: pattern 2 ends with the longest call sign of type 1.
ParsedShort(t) ==
  /\ OneBlank(t)
  /\ CASE t.type = "type1" -> \E d \in 2..3 : /\ IsDigitAt(t.call, d)
                                              /\ Len(t.call) - d \in 0..3
       [] t.type = "type2" -> Len(t.call) \in 1..6
       [] t.type = "type3" -> Len(t.grid) = 6
       [] OTHER -> FALSE

\* The three patterns of decodersRun and the number of fields.
Parsed(t) ==
  /\ OneBlank(t)
  /\ CASE t.type = "type1" -> \E d \in 2..3 : /\ IsDigitAt(t.call, d)
                                              /\ Len(t.call) - d \in 0..3
       [] t.type = "type2" -> Len(t.call) \in 1..13
       [] t.type = "type3" -> Len(t.grid) = 6
       [] OTHER -> FALSE

\* Seeded fault: the short locators only of call signs that have one.
CompletedHadGrid(c, t) ==
  IF c.hash = t.hash /\ Len(c.grid) \in 1..5 THEN [c EXCEPT !.grid = t.grid] ELSE c

\* Seeded fault: any contact that lacks a locator.
CompletedAny(c, t) ==
  IF Len(c.grid) < Len(t.grid) THEN [c EXCEPT !.grid = t.grid] ELSE c

Completed(c, t) ==
  IF c.hash = t.hash /\ Len(c.grid) < Len(t.grid)
    THEN [c EXCEPT !.grid = t.grid] ELSE c

Store ==
  /\ pc = "store" /\ pc' = "idle"
  /\ contacts' =
       IF ~Parsed(text) THEN contacts
       ELSE IF text.type = "type3"
       THEN [k \in DOMAIN contacts |-> Completed(contacts[k], text)]
       ELSE Append(contacts, [call |-> text.call, hash |-> Hash(text.call),
                              grid |-> text.grid, power |-> text.power])
  /\ UNCHANGED <<from, aired, air, text, residue, slots>>

Next == Send \/ Decode \/ Subtract \/ Store

Spec == Init /\ [][Next]_vars

-----------------------------------------------------------------------------
(* Properties.                                                             *)

\* What a receiver should read.
Sent ==
  LET call == from.station.call
      type == MessageType(call, from.grid)
  IN  [type |-> type, grid |-> from.grid, power |-> from.station.power,
       call |-> IF type = "type3" THEN <<>> ELSE call,
       hash |-> IF type = "type3" THEN Hash(call) ELSE -1]

\* A message with a locator of six characters carries a hash, any other the
\* call sign, if the encoder can express it.
Carried(m) == Len(m.grid) = 6 \/ Expressible(m.station.call)

\* What is printed is what was sent: call sign with prefix or suffix, locator
\* of four or six characters, hash and power survive packing and unpacking,
\* unless the settings let a call sign pass that the encoder cannot express.
DecodedAsSent == pc \in {"subtract", "store"} /\ Carried(from) => text = Sent

\* Of the messages that can be expressed, the decoder drops only those whose
\* second word, read as a locator, is none.
DroppedByTableOnly ==
  [][pc = "decode" /\ pc' = "idle" /\ Carried(from)
       => air.n2 \div 128 >= GridNumbers]_vars

\* Messages of types 1 and 2 are subtracted as they were received, with the
\* exceptions of the prefix whose number is 2^15 and of a call sign that was not
\* expressible.
SubtractedAsSent ==
  (pc = "store" /\ Carried(from) /\ text.type \in {"type1", "type2"}
     /\ ~(text.type = "type2" /\ HasPrefix(text.call)
            /\ PrefixNumber(text.call) = 32768))
    => residue = Exactly(air)

\* The log holds call signs that were sent, each with a locator (or none) that
\* was sent under its own hash, as long as all could be expressed.
ContactsTrue ==
  (\A m \in aired : Carried(m)) => \A k \in DOMAIN contacts :
    /\ \E m \in aired : m.station.call = contacts[k].call
    /\ \E m \in aired : /\ Hash(m.station.call) = Hash(contacts[k].call)
                         /\ m.grid = contacts[k].grid

\* The point the log computes a distance from lies within a square of the
\* position of a station that was heard, unless the fix of that station was
\* refused because it lies a quarter of the globe or more from Greenwich; again
\* as long as all could be expressed.
ContactsLocated ==
  (\A m \in aired : Carried(m)) => \A k \in DOMAIN contacts : Len(contacts[k].grid) \in {4, 6} =>
    \E m \in aired :
      /\ Hash(m.station.call) = Hash(contacts[k].call)
      /\ ~PoleRefused(m.station.pos) => Near(contacts[k].grid, m.station.pos)

\* When the second half of a station reaches the log, every entry of its call
\* sign has a locator of six characters, whatever kind its first half was.
GridCompleted ==
  [][(pc = "store" /\ text.type = "type3" /\ OneBlank(text))
       => \A k \in DOMAIN contacts' :
            contacts'[k].call = from.station.call
              => Len(contacts'[k].grid) = 6]_vars

\* Every text with a call sign makes a row, whatever kind of call sign it is,
\* exactly if its power has two digits: below 10 dBm none does.
LoggedFromTenUp ==
  [][(pc = "store" /\ text.type \in {"type1", "type2"})
       => (Len(contacts') > Len(contacts) <=> text.power >= 10)]_vars

=============================================================================
