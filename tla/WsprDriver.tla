------------------------------ MODULE WsprDriver ------------------------------
(***************************************************************************)
(* jani_do_process of wsprd.c: two passes over the spectrum of one         *)
(* recording.  Every peak is tried: if the sequential decoder succeeds the *)
(* message is unpacked, packed again to subtract its signal, compared with *)
(* what is known and kept.                                                 *)
(*                                                                         *)
(* Which peaks a spectrum has, their order by strength and whether a peak  *)
(* decodes are choices.  The peaks of a pass are found before any of its   *)
(* signals is subtracted.                                                  *)
(***************************************************************************)
EXTENDS WsprCodec, FiniteSets

CONSTANTS
  Signals,    \* what a recording may hold: words and a frequency in Hz
  Errors,     \* errors of the estimate of a frequency, in Hz
  MaxPeaks    \* bound: peaks of one pass

NPasses == 2
SameFrequency(f, g) == f - g \in -2..2      \* dupes are closer than 3 Hz

\* The estimates for one signal are that close to each other.
ASSUME ErrorsAssumption ==
  Errors \subseteq Int /\ \A d, e \in Errors : SameFrequency(d, e)
ASSUME SignalsAssumption ==
  \A s \in Signals : s.word \in Word /\ s.freq \in Int
ASSUME PeaksAssumption == MaxPeaks \in Nat

VARIABLES
  pc,         \* "spectrum", "peaks" or "done"
  ipass,      \* passes done
  recording,  \* the signals it held, for the properties
  left,       \* those not subtracted yet
  peaks,      \* the candidates of this pass not tried yet
  skipped,    \* history: candidates of the last pass never tried
  heard,      \* history: signals decoded to a text
  decodes     \* kept messages, uniques is its length

vars == <<pc, ipass, recording, left, peaks, skipped, heard, decodes>>

\* Two peaks may come from one signal.
Peak == Signals \X {"main", "side"}

Init ==
  /\ recording \in SUBSET Signals
  /\ pc = "spectrum" /\ ipass = 0 /\ left = recording
  /\ peaks = {} /\ skipped = {} /\ heard = {} /\ decodes = <<>>

\* The local maxima of the averaged spectrum of what is left.
Spectrum ==
  /\ pc = "spectrum" /\ pc' = "peaks"
  /\ \E found \in SUBSET (left \X {"main", "side"}) :
       Cardinality(found) <= MaxPeaks /\ peaks' = found
  /\ skipped' = {}
  /\ UNCHANGED <<ipass, recording, left, heard, decodes>>

\* No synchronisation, or the sequential decoder gives up.
NotDecoded ==
  /\ pc = "peaks"
  /\ \E p \in peaks : peaks' = peaks \ {p}
  /\ UNCHANGED <<pc, ipass, recording, left, skipped, heard, decodes>>

\* A text that is not to be printed is neither subtracted nor kept.
NotPrinted ==
  /\ pc = "peaks"
  /\ \E p \in peaks : /\ Unpack(p[1].word) = NoText
                      /\ peaks' = peaks \ {p}
  /\ UNCHANGED <<pc, ipass, recording, left, skipped, heard, decodes>>

\* Seeded fault: a text that is not printed ends the loop as well.
LoopLeftUnprinted ==
  /\ pc = "peaks"
  /\ \E p \in peaks : /\ Repack(Unpack(p[1].word)) = Refused
                      /\ skipped' = peaks \ {p}
  /\ peaks' = {}
  /\ UNCHANGED <<pc, ipass, recording, left, heard, decodes>>

\* The packing for the subtraction refuses the text: the loop is left, and the
\* message is not kept.
LoopLeft ==
  /\ pc = "peaks"
  /\ \E p \in peaks :
       /\ Unpack(p[1].word) # NoText
       /\ Repack(Unpack(p[1].word)) = Refused
       /\ skipped' = peaks \ {p}
  /\ peaks' = {}
  /\ UNCHANGED <<pc, ipass, recording, left, heard, decodes>>

\* The call sign that is compared: "#" and the hash for type 3.
NameOf(text) == <<text.call, text.hash>>

\* Seeded fault: only the last message is compared.
DupeOfLast(text, f) ==
  decodes # <<>> /\ LET d == decodes[Len(decodes)] IN
    NameOf(d.text) = NameOf(text) /\ SameFrequency(d.freq, f)

\* Seeded fault: the frequency alone decides.
DupeByFrequency(text, f) ==
  \E k \in DOMAIN decodes : SameFrequency(decodes[k].freq, f)

Dupe(text, f) ==
  \E k \in DOMAIN decodes :
    NameOf(decodes[k].text) = NameOf(text) /\ SameFrequency(decodes[k].freq, f)

\* Only the very signal can be subtracted; after it was, a second peak of the
\* same signal may still decode from what remains.
Decoded ==
  /\ pc = "peaks"
  /\ \E p \in peaks, e \in Errors :
       LET text == Unpack(p[1].word)
           f    == p[1].freq + e
       IN  /\ text # NoText /\ Repack(text) # Refused
           /\ left' = IF Repack(text) = Exactly(p[1].word)
                        THEN left \ {p[1]} ELSE left
           /\ decodes' = IF Dupe(text, f) THEN decodes
                         ELSE Append(decodes, [text |-> text, freq |-> f])
           /\ heard' = heard \cup {p[1]}
           /\ peaks' = peaks \ {p}
  /\ UNCHANGED <<pc, ipass, recording, skipped>>

\* A permutation of the messages that orders them by frequency and keeps the
\* order of equal ones: at k stands the message that k - 1 others precede.
Precedes(seq, i, j) ==
  seq[i].freq < seq[j].freq \/ (seq[i].freq = seq[j].freq /\ i < j)
SortByFrequency(seq) ==
  [k \in DOMAIN seq |->
     seq[CHOOSE j \in DOMAIN seq :
           Cardinality({i \in DOMAIN seq : Precedes(seq, i, j)}) = k - 1]]

\* After the last pass the messages are ordered and returned.
EndPass ==
  /\ pc = "peaks" /\ peaks = {} /\ ipass' = ipass + 1
  /\ IF ipass' < NPasses
       THEN pc' = "spectrum" /\ UNCHANGED decodes
       ELSE pc' = "done" /\ decodes' = SortByFrequency(decodes)
  /\ UNCHANGED <<recording, left, peaks, skipped, heard>>

Next == \/ Spectrum \/ NotDecoded \/ NotPrinted \/ LoopLeft \/ Decoded
        \/ EndPass

Spec == Init /\ [][Next]_vars

-----------------------------------------------------------------------------
(* Properties.                                                             *)

\* Every variable keeps its type; no more is subtracted than was recorded.
TypeOK ==
  /\ pc \in {"spectrum", "peaks", "done"} /\ ipass \in 0..NPasses
  /\ recording \subseteq Signals /\ left \subseteq recording
  /\ heard \subseteq recording /\ peaks \subseteq Peak /\ skipped \subseteq Peak
  /\ \A k \in DOMAIN decodes : decodes[k].freq \in Int

\* The message of a signal is among those kept, at an estimate of its frequency
\* or one that counts as the same.
Kept(s) ==
  \E k \in DOMAIN decodes :
    /\ NameOf(decodes[k].text) = NameOf(Unpack(s.word))
    /\ \E e \in Errors : SameFrequency(decodes[k].freq, s.freq + e)

\* No message that was decoded, and none that was subtracted, is lost to the
\* removal of dupes, to the second pass or to the sorting.
HeardAndSubtractedKept ==
  \A s \in heard \cup (recording \ left) : Kept(s)

\* However often its peaks decode in both passes, a signal fills at most one
\* place of the table of messages: its 50 places, which nothing tests, suffice
\* for 50 signals.
OnePlacePerSignal == Len(decodes) <= Cardinality(heard)

\* A pass leaves peaks untried only if the recording holds a message that decodes
\* to a text which cannot be packed again.
TriedUnlessRefused ==
  skipped # {} => \E s \in recording : /\ Unpack(s.word) # NoText
                                      /\ Repack(Unpack(s.word)) = Refused

=============================================================================
