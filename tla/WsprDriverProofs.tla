--------------------------- MODULE WsprDriverProofs ---------------------------
(***************************************************************************)
(* Proofs of the safety invariants of WsprDriver, for any signals, errors  *)
(* of the estimate and number of peaks.  What packing and unpacking give   *)
(* is not expanded: the proofs hold whatever texts the codec returns.      *)
(***************************************************************************)
EXTENDS WsprDriver, FiniteSetTheorems, TLAPS

Texts   == {Unpack(s.word) : s \in Signals}
Entries == [text : Texts, freq : Int]

LEMMA EntriesTyped ==
  ASSUME NEW seq \in Seq(Entries)
  PROVE  \A k \in DOMAIN seq : /\ k \in Int /\ seq[k] \in Entries
                                /\ seq[k].text \in Texts /\ seq[k].freq \in Int
<1>1. Len(seq) \in Nat /\ DOMAIN seq = 1..Len(seq) /\ seq \in [1..Len(seq) -> Entries]
  OBVIOUS
<1> QED BY <1>1 DEF Entries

-----------------------------------------------------------------------------
(* Sorting.                                                                *)

Preceding(seq, k) == {i \in DOMAIN seq : Precedes(seq, i, k)}
Rank(seq, k) == Cardinality(Preceding(seq, k)) + 1

LEMMA RankBounds ==
  ASSUME NEW seq \in Seq(Entries), NEW k \in DOMAIN seq
  PROVE  /\ IsFiniteSet(Preceding(seq, k))
         /\ Cardinality(Preceding(seq, k)) \in Nat
         /\ Rank(seq, k) \in DOMAIN seq
<1> DEFINE n == Len(seq)
<1>1. n \in Nat /\ DOMAIN seq = 1..n /\ IsFiniteSet(1..n) /\ Cardinality(1..n) = n
  BY FS_Interval
<1>2. seq[k].freq \in Int /\ ~Precedes(seq, k, k)
  BY <1>1, EntriesTyped DEF Precedes
<1>3. Preceding(seq, k) \subseteq (1..n) \ {k}
  BY <1>1, <1>2 DEF Preceding
<1>4. IsFiniteSet((1..n) \ {k}) /\ Cardinality((1..n) \ {k}) = n - 1
  <2>1. k \in 1..n
    BY <1>1
  <2> QED BY <1>1, <2>1, FS_RemoveElement
<1>5. /\ IsFiniteSet(Preceding(seq, k))
      /\ Cardinality(Preceding(seq, k)) <= n - 1
  BY <1>3, <1>4, FS_Subset
<1>6. Cardinality(Preceding(seq, k)) \in Nat
  BY <1>5, FS_CardinalityType
<1> QED BY <1>1, <1>5, <1>6 DEF Rank

\* No two places have the same rank.
LEMMA RankInjective ==
  ASSUME NEW seq \in Seq(Entries), NEW j \in DOMAIN seq, NEW k \in DOMAIN seq,
         Rank(seq, j) = Rank(seq, k)
  PROVE  j = k
<1>1. \A i \in DOMAIN seq : seq[i].freq \in Int /\ i \in Int
  BY EntriesTyped
<1>2. ASSUME NEW a \in DOMAIN seq, NEW b \in DOMAIN seq, Precedes(seq, a, b)
      PROVE  Rank(seq, a) < Rank(seq, b)
  <2>1. Preceding(seq, a) \subseteq Preceding(seq, b)
    BY <1>1, <1>2 DEF Preceding, Precedes
  <2>2. a \in Preceding(seq, b) /\ a \notin Preceding(seq, a)
    BY <1>1, <1>2 DEF Preceding, Precedes
  <2>3. /\ Cardinality(Preceding(seq, a)) <= Cardinality(Preceding(seq, b))
        /\ Cardinality(Preceding(seq, a)) # Cardinality(Preceding(seq, b))
    BY <2>1, <2>2, RankBounds, FS_Subset
  <2> QED BY <2>3, RankBounds DEF Rank
<1>3. \A i \in DOMAIN seq : Rank(seq, i) \in Int
  BY RankBounds DEF Rank
<1>4. j = k \/ Precedes(seq, j, k) \/ Precedes(seq, k, j)
  BY <1>1 DEF Precedes
<1> QED BY <1>2, <1>3, <1>4

\* Nothing is lost or made up by the sort.
LEMMA SortIsPermutation ==
  ASSUME NEW seq \in Seq(Entries)
  PROVE  /\ SortByFrequency(seq) \in Seq(Entries)
         /\ Len(SortByFrequency(seq)) = Len(seq)
         /\ \A i \in DOMAIN seq : \E k \in DOMAIN SortByFrequency(seq) :
              SortByFrequency(seq)[k] = seq[i]
<1> DEFINE n == Len(seq)  S == SortByFrequency(seq)  r == [i \in 1..n |-> Rank(seq, i)]
<1>1. n \in Nat /\ DOMAIN seq = 1..n
  OBVIOUS
<1>2. r \in Injection(1..n, 1..n)
  <2>1. r \in [1..n -> 1..n]
    BY <1>1, RankBounds
  <2>2. \A a, b \in 1..n : r[a] = r[b] => a = b
    BY <1>1, RankInjective
  <2> QED BY <2>1, <2>2 DEF Injection, IsInjective
<1>3. r \in Surjection(1..n, 1..n)
  BY <1>1, <1>2, FS_Interval, FS_Injection
<1>4. \A k \in 1..n : \E j \in 1..n : Rank(seq, j) = k
  BY <1>3 DEF Surjection
<1>5. S = [k \in 1..n |-> seq[CHOOSE j \in 1..n :
                                Cardinality(Preceding(seq, j)) = k - 1]]
  BY <1>1 DEF SortByFrequency, Preceding
<1>6. ASSUME NEW k \in 1..n, NEW j \in 1..n, Rank(seq, j) = k
      PROVE  S[k] = seq[j]
  <2>1. Cardinality(Preceding(seq, j)) = k - 1
    BY <1>1, <1>6, RankBounds DEF Rank
  <2>2. \A i \in 1..n : Cardinality(Preceding(seq, i)) = k - 1 => i = j
    BY <1>1, <1>6, RankBounds, RankInjective DEF Rank
  <2>3. (CHOOSE i \in 1..n : Cardinality(Preceding(seq, i)) = k - 1) = j
    BY <2>1, <2>2
  <2> QED BY <1>5, <2>3
<1>7. \A k \in 1..n : S[k] \in Entries
  BY <1>1, <1>4, <1>6
<1>8. S \in Seq(Entries) /\ Len(S) = n
  <2>1. DOMAIN S = 1..n /\ S \in [1..n -> Entries]
    BY <1>5, <1>7
  <2> HIDE DEF S
  <2> QED BY <1>1, <2>1
<1>9. \A i \in 1..n : Rank(seq, i) \in 1..n
  BY <1>1, RankBounds
<1> QED BY <1>1, <1>6, <1>8, <1>9

-----------------------------------------------------------------------------
(* Recording, candidates and messages.                                     *)

RecordInv ==
  /\ pc \in {"spectrum", "peaks", "done"} /\ ipass \in 0..NPasses
  /\ pc # "done" => ipass < NPasses
  /\ recording \subseteq Signals /\ left \subseteq recording
  /\ heard \subseteq recording /\ recording \ left \subseteq heard
  /\ IsFiniteSet(heard)
  /\ peaks \subseteq recording \X {"main", "side"}
  /\ skipped \subseteq recording \X {"main", "side"}

\* The step that keeps a message, or finds that it is known.
Keeps(p, e) ==
  LET text == Unpack(p[1].word)
      f    == p[1].freq + e
  IN  /\ decodes' = IF Dupe(text, f) THEN decodes
                    ELSE Append(decodes, [text |-> text, freq |-> f])
      /\ heard' = heard \cup {p[1]} /\ left' \in {left, left \ {p[1]}}
      /\ peaks' = peaks \ {p}

LEMMA DecodedKeeps ==
  ASSUME Decoded
  PROVE  /\ UNCHANGED <<pc, ipass, recording, skipped>> /\ pc = "peaks"
         /\ \E p \in peaks, e \in Errors : Keeps(p, e)
BY DEF Decoded, Keeps

\* What the other steps do to the messages: the last one sorts them.
LEMMA OthersKeep ==
  ASSUME [Next]_vars, ~Decoded
  PROVE  /\ UNCHANGED <<recording, left, heard>>
         /\ \/ decodes' = decodes /\ (pc = "done" => pc' = "done")
            \/ decodes' = SortByFrequency(decodes) /\ pc' = "done"
BY DEF Next, Spectrum, NotDecoded, NotPrinted, LoopLeft, EndPass, vars

LEMMA RecordInvariant ==
  ASSUME RecordInv, [Next]_vars
  PROVE  RecordInv'
<1>1. CASE Decoded
  <2>1. PICK p \in peaks, e \in Errors : Keeps(p, e)
    BY <1>1, DecodedKeeps
  <2>2. p[1] \in recording
    BY <2>1 DEF RecordInv
  <2>3. IsFiniteSet(heard')
    BY <2>1, FS_AddElement DEF RecordInv, Keeps
  <2>4. /\ left' \subseteq recording /\ heard' \subseteq recording
        /\ recording \ left' \subseteq heard' /\ peaks' \subseteq peaks
    BY <2>1, <2>2 DEF RecordInv, Keeps
  <2> QED BY <1>1, <2>3, <2>4, DecodedKeeps DEF RecordInv
<1>2. CASE ~Decoded
  <2>1. UNCHANGED <<recording, left, heard>>
    BY <1>2, OthersKeep
  <2>2. CASE Spectrum
    BY <2>1, <2>2 DEF RecordInv, Spectrum
  <2>3. CASE NotDecoded \/ NotPrinted \/ LoopLeft
    BY <2>1, <2>3 DEF RecordInv, NotDecoded, NotPrinted, LoopLeft
  <2>4. CASE EndPass
    BY <2>1, <2>4 DEF RecordInv, EndPass, NPasses
  <2>5. CASE UNCHANGED vars
    BY <2>1, <2>5 DEF RecordInv, vars
  <2> QED BY <1>2, <2>2, <2>3, <2>4, <2>5 DEF Next
<1> QED BY <1>1, <1>2

-----------------------------------------------------------------------------
(* Nothing is lost.                                                        *)

KeptInv == decodes \in Seq(Entries) /\ \A s \in heard : Kept(s)

\* A message that is kept stays so as long as its entry stays somewhere.
LEMMA KeptStays ==
  ASSUME NEW s \in Signals, Kept(s),
         \A k \in DOMAIN decodes : \E j \in DOMAIN decodes' : decodes'[j] = decodes[k]
  PROVE  Kept(s)'
BY DEF Kept

LEMMA AppendKeeps ==
  ASSUME NEW seq \in Seq(Entries), NEW d \in Entries
  PROVE  /\ Append(seq, d) \in Seq(Entries) /\ Len(seq) \in Nat
         /\ Len(Append(seq, d)) = Len(seq) + 1
         /\ DOMAIN seq = 1..Len(seq) /\ DOMAIN Append(seq, d) = 1..(Len(seq) + 1)
         /\ Append(seq, d)[Len(seq) + 1] = d
         /\ \A k \in 1..Len(seq) : Append(seq, d)[k] = seq[k]
OBVIOUS

LEMMA EntryTyped ==
  ASSUME NEW s \in Signals, NEW e \in Errors
  PROVE  /\ [text |-> Unpack(s.word), freq |-> s.freq + e] \in Entries
         /\ s.freq + e \in Int /\ s.freq \in Int /\ e \in Int
BY SignalsAssumption, ErrorsAssumption DEF Entries, Texts

LEMMA KeptInvariant ==
  ASSUME RecordInv, KeptInv, [Next]_vars
  PROVE  KeptInv'
<1>1. CASE Decoded
  <2>1. PICK p \in peaks, e \in Errors : Keeps(p, e)
    BY <1>1, DecodedKeeps
  <2> DEFINE s == p[1]  text == Unpack(s.word)  f == s.freq + e
             d == [text |-> text, freq |-> f]
  <2>2. s \in Signals /\ heard' = heard \cup {s} /\ heard \subseteq Signals
    BY <2>1 DEF RecordInv, Keeps
  <2>3. d \in Entries /\ d.text = text /\ d.freq = f /\ f \in Int
    BY <2>1, <2>2, EntryTyped
  <2>4. CASE Dupe(text, f)
    <3>1. decodes' = decodes
      BY <2>1, <2>4 DEF Keeps
    <3>2. PICK k \in DOMAIN decodes : /\ NameOf(decodes[k].text) = NameOf(text)
                                      /\ SameFrequency(decodes[k].freq, f)
      BY <2>4 DEF Dupe
    <3>3. Kept(s)
      BY <2>1, <3>2 DEF Kept
    <3> QED BY <2>2, <3>1, <3>3 DEF KeptInv, Kept
  <2>5. CASE ~Dupe(text, f)
    <3>1. decodes' = Append(decodes, d)
      BY <2>1, <2>5 DEF Keeps
    <3>2. /\ decodes' \in Seq(Entries)
          /\ Len(decodes) + 1 \in DOMAIN decodes' /\ decodes'[Len(decodes) + 1] = d
          /\ \A k \in DOMAIN decodes : k \in DOMAIN decodes' /\ decodes'[k] = decodes[k]
      BY <2>3, <3>1, AppendKeeps DEF KeptInv
    <3>3. SameFrequency(f, f)
      BY <2>3 DEF SameFrequency
    <3>4. Kept(s)'
      BY <2>1, <2>3, <3>2, <3>3 DEF Kept
    <3>5. \A t \in heard : Kept(t)'
      BY <2>2, <3>2, KeptStays DEF KeptInv
    <3> QED BY <2>2, <3>2, <3>4, <3>5 DEF KeptInv
  <2> QED BY <2>4, <2>5
<1>2. CASE ~Decoded
  <2>1. heard' = heard /\ heard \subseteq Signals
    BY <1>2, OthersKeep DEF RecordInv
  <2>2. CASE decodes' = decodes
    BY <2>1, <2>2 DEF KeptInv, Kept
  <2>3. CASE decodes' = SortByFrequency(decodes)
    <3>1. /\ decodes' \in Seq(Entries)
          /\ \A i \in DOMAIN decodes : \E k \in DOMAIN decodes' : decodes'[k] = decodes[i]
      BY <2>3, SortIsPermutation DEF KeptInv
    <3> QED BY <2>1, <3>1, KeptStays DEF KeptInv
  <2> QED BY <1>2, <2>2, <2>3, OthersKeep
<1> QED BY <1>1, <1>2

-----------------------------------------------------------------------------
(* Nothing is kept twice.                                                  *)

\* The signal an entry comes from.
Source(d, s) ==
  /\ NameOf(d.text) = NameOf(Unpack(s.word))
  /\ \E e \in Errors : d.freq = s.freq + e

Distinct(c, d) ==
  ~(NameOf(c.text) = NameOf(d.text) /\ SameFrequency(c.freq, d.freq))

Sourced ==
  /\ \A k \in DOMAIN decodes : \E s \in heard : Source(decodes[k], s)
  /\ \A j, k \in DOMAIN decodes : j # k => Distinct(decodes[j], decodes[k])

PlaceInv == OnePlacePerSignal /\ (pc # "done" => Sourced)

\* Entries of one signal would be dupes, so there are no more of them than signals.
LEMMA SourcesDiffer ==
  ASSUME RecordInv, KeptInv, Sourced
  PROVE  OnePlacePerSignal
<1> DEFINE n == Len(decodes)
           src == [k \in 1..n |-> CHOOSE s \in heard : Source(decodes[k], s)]
<1>1. n \in Nat /\ DOMAIN decodes = 1..n /\ IsFiniteSet(heard)
  BY DEF KeptInv, RecordInv
<1>2. \A k \in 1..n : src[k] \in heard /\ Source(decodes[k], src[k])
  BY <1>1 DEF Sourced
<1>3. ASSUME NEW j \in 1..n, NEW k \in 1..n, src[j] = src[k]
      PROVE  j = k
  <2>1. PICK s \in heard : s = src[j] /\ Source(decodes[j], s) /\ Source(decodes[k], s)
    BY <1>2, <1>3
  <2>2. PICK d \in Errors : decodes[j].freq = s.freq + d
    BY <2>1 DEF Source
  <2>3. PICK e \in Errors : decodes[k].freq = s.freq + e
    BY <2>1 DEF Source
  <2>4. s.freq \in Int /\ d \in Int /\ e \in Int /\ d - e \in -2..2
    BY ErrorsAssumption, SignalsAssumption DEF SameFrequency, RecordInv
  <2>5. SameFrequency(decodes[j].freq, decodes[k].freq)
    BY <2>2, <2>3, <2>4 DEF SameFrequency
  <2>6. NameOf(decodes[j].text) = NameOf(decodes[k].text)
    BY <2>1 DEF Source
  <2> QED BY <1>1, <2>5, <2>6 DEF Sourced, Distinct
<1>4. src \in Injection(1..n, heard)
  <2>1. src \in [1..n -> heard]
    BY <1>2
  <2> HIDE DEF src
  <2> QED BY <1>3, <2>1 DEF Injection, IsInjective
<1> HIDE DEF src
<1>5. Cardinality(1..n) = n
  <2>1. \A m \in Nat : Cardinality(1..m) = m
    BY FS_Interval
  <2> QED BY <1>1, <2>1
<1>6. Cardinality(1..n) <= Cardinality(heard)
  BY <1>1, <1>4, FS_Injection
<1> QED BY <1>5, <1>6 DEF OnePlacePerSignal

LEMMA SourcesDifferNext == (RecordInv /\ KeptInv /\ Sourced => OnePlacePerSignal)'
<1>1. RecordInv /\ KeptInv /\ Sourced => OnePlacePerSignal
  BY SourcesDiffer
<1> QED BY <1>1, PTL

LEMMA PlaceInvariant ==
  ASSUME RecordInv, KeptInv, PlaceInv, [Next]_vars
  PROVE  PlaceInv'
<1>1. CASE Decoded
  <2>1. PICK p \in peaks, e \in Errors : Keeps(p, e)
    BY <1>1, DecodedKeeps
  <2> DEFINE s == p[1]  text == Unpack(s.word)  f == s.freq + e
             d == [text |-> text, freq |-> f]
  <2>2. /\ s \in Signals /\ heard' = heard \cup {s}
        /\ pc = "peaks" /\ pc' = "peaks" /\ Sourced
    BY <1>1, <2>1, DecodedKeeps DEF RecordInv, Keeps, PlaceInv
  <2>3. Sourced'
    <3>1. CASE Dupe(text, f)
      <4>1. decodes' = decodes
        BY <2>1, <3>1 DEF Keeps
      <4> QED BY <2>2, <4>1 DEF Sourced, Source, Distinct
    <3>2. CASE ~Dupe(text, f)
      <4>1. decodes' = Append(decodes, d)
        BY <2>1, <3>2 DEF Keeps
      <4>2. d \in Entries /\ d.text = text /\ d.freq = f /\ f \in Int
        BY <2>1, <2>2, EntryTyped
      <4>3. /\ Len(decodes) \in Nat /\ DOMAIN decodes = 1..Len(decodes)
            /\ DOMAIN decodes' = 1..(Len(decodes) + 1)
            /\ decodes'[Len(decodes) + 1] = d
            /\ \A k \in 1..Len(decodes) : decodes'[k] = decodes[k]
        BY <4>1, <4>2, AppendKeeps DEF KeptInv
      <4>4. \A k \in DOMAIN decodes : Distinct(decodes[k], d) /\ Distinct(d, decodes[k])
        <5>1. \A k \in DOMAIN decodes : decodes[k].freq \in Int
          BY EntriesTyped DEF KeptInv
        <5>2. \A k \in DOMAIN decodes : Distinct(decodes[k], d)
          BY <3>2, <4>2 DEF Dupe, Distinct
        <5> QED BY <4>2, <5>1, <5>2 DEF Distinct, SameFrequency
      <4>5. Source(d, s)
        BY <2>1, <4>2 DEF Source
      <4>6. \A k \in DOMAIN decodes' : \E t \in heard' : Source(decodes'[k], t)
        BY <2>2, <4>3, <4>5 DEF Sourced
      <4>7. \A j, k \in DOMAIN decodes' : j # k => Distinct(decodes'[j], decodes'[k])
        BY <2>2, <4>3, <4>4 DEF Sourced
      <4>8. \A a, b : (Source(a, b)' <=> Source(a, b)) /\ (Distinct(a, b)' <=> Distinct(a, b))
        BY DEF Source, Distinct
      <4> QED BY <4>6, <4>7, <4>8 DEF Sourced, Source, Distinct
    <3> QED BY <3>1, <3>2
  <2>4. RecordInv' /\ KeptInv'
    BY RecordInvariant, KeptInvariant
  <2>5. OnePlacePerSignal'
    BY <2>3, <2>4, SourcesDifferNext
  <2> QED BY <2>3, <2>5 DEF PlaceInv
<1>2. CASE ~Decoded
  <2>1. heard' = heard
    BY <1>2, OthersKeep
  <2>2. CASE decodes' = decodes /\ (pc = "done" => pc' = "done")
    BY <2>1, <2>2 DEF PlaceInv, OnePlacePerSignal, Sourced, Source, Distinct
  <2>3. CASE decodes' = SortByFrequency(decodes) /\ pc' = "done"
    <3>1. Len(decodes') = Len(decodes)
      BY <2>3, SortIsPermutation DEF KeptInv
    <3> QED BY <2>1, <2>3, <3>1 DEF PlaceInv, OnePlacePerSignal
  <2> QED BY <1>2, <2>2, <2>3, OthersKeep
<1> QED BY <1>1, <1>2

-----------------------------------------------------------------------------
(* The inductive invariant and what follows from it.                       *)

IInv == RecordInv /\ KeptInv /\ PlaceInv /\ TriedUnlessRefused

LEMMA InitIInv == Init => IInv
<1> SUFFICES ASSUME Init PROVE IInv
  OBVIOUS
<1>1. RecordInv
  BY FS_EmptySet DEF Init, RecordInv, NPasses
<1>2. decodes = <<>> /\ heard = {} /\ skipped = {} /\ DOMAIN decodes = {}
  BY DEF Init
<1>3. KeptInv /\ TriedUnlessRefused
  BY <1>2 DEF KeptInv, TriedUnlessRefused
<1>4. PlaceInv
  BY <1>2, FS_EmptySet DEF PlaceInv, OnePlacePerSignal, Sourced
<1> QED BY <1>1, <1>3, <1>4 DEF IInv

\* Only the text that cannot be packed again leaves candidates untried.
LEMMA TriedInvariant ==
  ASSUME RecordInv, TriedUnlessRefused, [Next]_vars
  PROVE  TriedUnlessRefused'
<1>1. CASE LoopLeft
  <2>1. PICK p \in peaks : /\ Unpack(p[1].word) # NoText
                          /\ Repack(Unpack(p[1].word)) = Refused
    BY <1>1 DEF LoopLeft
  <2>2. p[1] \in recording /\ recording' = recording
    BY <1>1, <2>1 DEF RecordInv, LoopLeft
  <2> QED BY <2>1, <2>2 DEF TriedUnlessRefused
<1>2. CASE ~LoopLeft
  <2>1. recording' = recording /\ (skipped' = skipped \/ skipped' = {})
    BY <1>2 DEF Next, Spectrum, NotDecoded, NotPrinted, Decoded, EndPass, vars
  <2> QED BY <2>1 DEF TriedUnlessRefused
<1> QED BY <1>1, <1>2

LEMMA StepIInv == IInv /\ [Next]_vars => IInv'
BY RecordInvariant, KeptInvariant, PlaceInvariant, TriedInvariant DEF IInv

LEMMA IInvAlways == Spec => []IInv
BY InitIInv, StepIInv, PTL DEF Spec

LEMMA IInvImplies ==
  ASSUME IInv
  PROVE  TypeOK /\ HeardAndSubtractedKept /\ OnePlacePerSignal /\ TriedUnlessRefused
<1>1. \A k \in DOMAIN decodes : decodes[k].freq \in Int
  BY EntriesTyped DEF IInv, KeptInv
<1>2. TypeOK
  BY <1>1 DEF IInv, RecordInv, TypeOK, Peak
<1>3. HeardAndSubtractedKept
  BY DEF IInv, RecordInv, KeptInv, HeardAndSubtractedKept
<1> QED BY <1>2, <1>3 DEF IInv, PlaceInv

\* Candidates are those of signals in the recording, passes are counted.
THEOREM TypeCorrect == Spec => []TypeOK
BY IInvAlways, IInvImplies, PTL

\* What was decoded or subtracted is in the result: neither the removal of dupes
\* nor the second pass nor the sorting loses it.
THEOREM NothingIsLost == Spec => []HeardAndSubtractedKept
BY IInvAlways, IInvImplies, PTL

\* The table of messages never grows beyond the number of signals heard, however
\* many peaks they have.
THEOREM OnePlaceEach == Spec => []OnePlacePerSignal
BY IInvAlways, IInvImplies, PTL

\* Candidates are left untried only behind a text that cannot be packed again.
THEOREM AllAreTried == Spec => []TriedUnlessRefused
BY IInvAlways, IInvImplies, PTL

=============================================================================
