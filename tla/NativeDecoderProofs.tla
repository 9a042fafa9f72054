-------------------------- MODULE NativeDecoderProofs --------------------------
(***************************************************************************)
(* What a decode owes to the globals of the native code, for any number of *)
(* recordings, samples, symbols and tracks: the buffer, the plans and the  *)
(* tone tables are right as long as no two decodes meet.                   *)
(***************************************************************************)
EXTENDS NativeDecoder, TLAPS

Phases  == ({"plan", "execute", "destroy"} \X (1..3))
             \cup ({"out", "pass", "symbol", "fill", "done"} \X {0})
Loops   == [fn : Functions, track : Tracks, i : 0..(Symbols - 1), tables : Nat]
InLoop(c) == pc[c][1] \in {"symbol", "fill"}

-----------------------------------------------------------------------------
(* Recordings.                                                             *)

\* A recording in progress is within the limit, a finished one is a byte over it.
RecordInv ==
  /\ total \in Nat /\ total <= Limit
  /\ size \in [Calls -> {0, Limit + 1}]

LEMMA LimitIsNat == Limit \in Nat /\ Capacity \in Nat /\ Limit + 1 <= Capacity
BY SizesAssumption DEF Limit, Capacity

LEMMA RecordInvariant ==
  ASSUME RecordInv, [Next]_vars
  PROVE  RecordInv'
<1>1. ASSUME NEW c \in Calls, Read(c) PROVE RecordInv'
  <2>1. PICK read \in 1..BufferSize :
          LET all == total + Taken(read)
          IN  IF total + read > Limit
                THEN size' = [size EXCEPT ![c] = all] /\ total' = 0
                ELSE total' = all /\ UNCHANGED size
    BY <1>1 DEF Read
  <2>2. read \in Nat
    BY SizesAssumption
  <2>3. CASE total + read > Limit
    <3>1. total + Taken(read) = Limit + 1
      BY <2>2, <2>3, LimitIsNat DEF Taken, RecordInv
    <3> QED BY <2>1, <2>3, <3>1, LimitIsNat DEF RecordInv
  <2>4. CASE ~(total + read > Limit)
    BY <2>1, <2>2, <2>4, LimitIsNat DEF Taken, RecordInv
  <2> QED BY <2>3, <2>4
<1>2. ASSUME \/ \E c \in Calls : Enter(c) \/ Native(c)
             \/ Crash \/ UNCHANGED vars
      PROVE  RecordInv'
  <2>1. UNCHANGED <<total, size>>
    BY <1>2 DEF Enter, Native, CallFFTW, Planned, Execute, Destroyed, Demodulate, Fill,
                Filled, Keep, EndPass, Crash, vars, record
  <2> QED BY <2>1 DEF RecordInv
<1> QED BY <1>1, <1>2 DEF Next, Recorded

-----------------------------------------------------------------------------
(* Threads.                                                                *)

PcTyped     == pc \in [Calls -> Phases]
CountsTyped == pass \in [Calls -> 0..2] /\ searches \in [Calls -> 0..MaxSearches]
LoopTyped   == loop \in [Calls -> {NoLoop} \cup Loops] /\ fplast \in [Functions -> Nat]
FaultsTyped == faults \subseteq {"reentered", "leaked", "foreign plan", "stale tables"}
FlagsTyped  == met \in BOOLEAN /\ crashed \in BOOLEAN

Consistent(c) ==
  /\ InLoop(c) => loop[c] \in Loops
  /\ pc[c][1] \notin {"destroy", "done"} => pass[c] <= 1
  /\ Inside(c) => size[c] > 0
  /\ c \in inFFTW => pc[c][1] \in {"plan", "destroy"}

ThreadInv ==
  /\ PcTyped /\ CountsTyped /\ LoopTyped /\ FaultsTyped /\ FlagsTyped
  /\ inFFTW \subseteq Calls
  /\ \A c \in Calls : Consistent(c)

LEMMA PhaseFacts ==
  ASSUME NEW p \in Phases
  PROVE  /\ p = <<p[1], p[2]>>
         /\ \/ p[1] \in {"plan", "execute", "destroy"} /\ p[2] \in 1..3
            \/ p[1] \in {"out", "pass", "symbol", "fill", "done"} /\ p[2] = 0
BY DEF Phases

LEMMA PhaseTyped ==
  /\ \A s \in {"plan", "execute", "destroy"}, k \in 1..3 : <<s, k>> \in Phases
  /\ \A s \in {"out", "pass", "symbol", "fill", "done"} : <<s, 0>> \in Phases
BY DEF Phases

\* What a step of one thread leaves alone.
LEMMA OnlyOne ==
  ASSUME ThreadInv, NEW c \in Calls, Enter(c) \/ Native(c)
  PROVE  /\ \A d \in Calls \ {c} : /\ pc'[d] = pc[d] /\ loop'[d] = loop[d]
                                    /\ pass'[d] = pass[d] /\ size'[d] = size[d]
         /\ \A d \in Calls \ {c} : d \in inFFTW' <=> d \in inFFTW
         /\ met => met'
<1>1. met => met'
  BY DEF Enter, Native, CallFFTW, Planned, Execute, Destroyed, Demodulate, Fill, Filled,
         Keep, EndPass
<1>2. CASE Enter(c) \/ CallFFTW(c)
  <2>1. \A d \in Calls \ {c} : pc'[d] = pc[d] /\ (d \in inFFTW' <=> d \in inFFTW)
    BY <1>2 DEF Enter, CallFFTW, ThreadInv, PcTyped
  <2>2. UNCHANGED <<loop, pass, size>>
    BY <1>2 DEF Enter, CallFFTW, thread, record
  <2> QED BY <1>1, <2>1, <2>2
<1>3. CASE Planned(c) \/ Execute(c) \/ Destroyed(c)
  <2>1. \A d \in Calls \ {c} : pc'[d] = pc[d] /\ (d \in inFFTW' <=> d \in inFFTW)
    BY <1>3 DEF Planned, Execute, Destroyed, ThreadInv, PcTyped
  <2>2. UNCHANGED <<loop, pass, size>>
    BY <1>3 DEF Planned, Execute, Destroyed, thread, record
  <2> QED BY <1>1, <2>1, <2>2
<1>4. CASE Demodulate(c) \/ Fill(c) \/ EndPass(c)
  <2>1. \A d \in Calls \ {c} : /\ pc'[d] = pc[d] /\ loop'[d] = loop[d] /\ pass'[d] = pass[d]
    BY <1>4 DEF Demodulate, Fill, EndPass, ThreadInv, PcTyped, LoopTyped, CountsTyped, thread
  <2>2. UNCHANGED <<inFFTW, size>>
    BY <1>4 DEF Demodulate, Fill, EndPass, record
  <2> QED BY <1>1, <2>1, <2>2
<1>5. CASE Filled(c) \/ Keep(c)
  <2>1. UNCHANGED <<inFFTW, size, pass>>
    BY <1>5 DEF Filled, Keep, record
  <2>2. PICK tables : Correlated(c, tables)
    BY <1>5 DEF Filled, Keep
  <2>3. \A d \in Calls \ {c} : pc'[d] = pc[d] /\ loop'[d] = loop[d]
    BY <2>2 DEF Correlated, ThreadInv, PcTyped, LoopTyped
  <2> QED BY <1>1, <2>1, <2>3
<1> QED BY <1>2, <1>3, <1>4, <1>5 DEF Native

\* The invariant as a step of one thread leaves it.
LEMMA ThreadStep ==
  ASSUME ThreadInv, NEW c \in Calls, Enter(c) \/ Native(c), size' = size,
         PcTyped', CountsTyped', LoopTyped', FaultsTyped', FlagsTyped', inFFTW' \subseteq Calls,
         InLoop(c)' => loop'[c] \in Loops,
         pc'[c][1] \notin {"destroy", "done"} => pass'[c] <= 1,
         size[c] > 0, c \in inFFTW' => pc'[c][1] \in {"plan", "destroy"}
  PROVE  ThreadInv'
<1>1. \A d \in Calls \ {c} : /\ pc'[d] = pc[d] /\ loop'[d] = loop[d] /\ pass'[d] = pass[d]
                             /\ d \in inFFTW' <=> d \in inFFTW
  BY OnlyOne
<1>2. Consistent(c)'
  BY DEF Consistent
<1>3. ASSUME NEW d \in Calls \ {c} PROVE Consistent(d)'
  <2>1. Consistent(d)
    BY DEF ThreadInv
  <2>2. /\ pc'[d] = pc[d] /\ loop'[d] = loop[d] /\ pass'[d] = pass[d] /\ size'[d] = size[d]
        /\ d \in inFFTW' <=> d \in inFFTW
    BY <1>1
  <2> QED BY <2>1, <2>2 DEF Consistent, InLoop, Inside
<1> QED BY <1>2, <1>3 DEF ThreadInv

LEMMA ThreadInvariant ==
  ASSUME RecordInv, ThreadInv, [Next]_vars
  PROVE  ThreadInv'
<1>1. ASSUME NEW c \in Calls
      PROVE  pc[c] \in Phases /\ size[c] \in Nat /\ pass[c] \in 0..2
             /\ Consistent(c) /\ Limit + 1 > 0
  BY <1>1, LimitIsNat DEF RecordInv, ThreadInv, PcTyped, CountsTyped
<1>2. ASSUME NEW c \in Calls, Read(c) PROVE ThreadInv'
  <2>1. UNCHANGED <<pc, pass, searches, loop, fplast, inFFTW, faults>>
    BY <1>2 DEF Read, thread
  <2>2. met' = met /\ crashed' = crashed
    BY <1>2 DEF Read
  <2>3. \A d \in Calls : Inside(d) => size'[d] = size[d]
    BY <1>2 DEF Read, Waiting, Inside, RecordInv
  <2>4. \A d \in Calls : Consistent(d)'
    BY <1>1, <2>1, <2>3 DEF Consistent, InLoop, Inside
  <2>5. PcTyped' /\ CountsTyped' /\ LoopTyped' /\ FaultsTyped' /\ FlagsTyped'
    BY <2>1, <2>2 DEF ThreadInv, PcTyped, CountsTyped, LoopTyped, FaultsTyped, FlagsTyped
  <2> QED BY <2>1, <2>4, <2>5 DEF ThreadInv
<1>3. ASSUME Crash \/ UNCHANGED vars PROVE ThreadInv'
  <2>1. UNCHANGED <<pc, pass, searches, loop, fplast, inFFTW, faults, size>>
    BY <1>3 DEF Crash, vars, thread, record
  <2>2. met' = met /\ crashed' \in BOOLEAN
    BY <1>3 DEF Crash, vars, ThreadInv, FlagsTyped
  <2>3. \A d \in Calls : Consistent(d)'
    BY <1>1, <2>1 DEF Consistent, InLoop, Inside
  <2>4. PcTyped' /\ CountsTyped' /\ LoopTyped' /\ FaultsTyped' /\ FlagsTyped'
    BY <2>1, <2>2 DEF ThreadInv, PcTyped, CountsTyped, LoopTyped, FaultsTyped, FlagsTyped
  <2> QED BY <2>1, <2>3, <2>4 DEF ThreadInv
<1>4. ASSUME NEW c \in Calls, Enter(c) PROVE ThreadInv'
  <2>1. /\ pc' = [pc EXCEPT ![c] = <<"plan", 1>>] /\ size[c] > 0 /\ pc[c] = <<"out", 0>>
        /\ UNCHANGED <<size, pass, searches, loop, fplast, inFFTW, faults>>
    BY <1>4 DEF Enter, Waiting, thread, record
  <2>2. FlagsTyped'
    BY <1>4 DEF Enter, ThreadInv, FlagsTyped
  <2>3. pc'[c] = <<"plan", 1>> /\ PcTyped' /\ ~InLoop(c)'
    BY <2>1, PhaseTyped DEF ThreadInv, PcTyped, InLoop
  <2>4. CountsTyped' /\ LoopTyped' /\ FaultsTyped'
    BY <2>1 DEF ThreadInv, CountsTyped, LoopTyped, FaultsTyped
  <2>5. pass[c] <= 1 /\ inFFTW \subseteq Calls
    BY <1>1, <2>1 DEF Consistent, ThreadInv
  <2> QED BY <1>4, <2>1, <2>2, <2>3, <2>4, <2>5, ThreadStep
<1>5. ASSUME NEW c \in Calls, CallFFTW(c) PROVE ThreadInv'
  <2>1. /\ UNCHANGED <<size, pc, pass, searches, loop, fplast>>
        /\ inFFTW' = inFFTW \cup {c} /\ pc[c][1] \in {"plan", "destroy"}
    BY <1>5 DEF CallFFTW, thread, record
  <2>2. FaultsTyped'
    BY <1>5 DEF CallFFTW, Faulty, If, ThreadInv, FaultsTyped
  <2>3. PcTyped' /\ CountsTyped' /\ LoopTyped'
    BY <2>1 DEF ThreadInv, PcTyped, CountsTyped, LoopTyped
  <2>4. FlagsTyped'
    BY <1>5 DEF CallFFTW, ThreadInv, FlagsTyped
  <2>5. \A d \in Calls : Consistent(d)'
    BY <1>1, <2>1 DEF Consistent, InLoop, Inside
  <2> QED BY <2>1, <2>2, <2>3, <2>4, <2>5 DEF ThreadInv
<1>6. ASSUME NEW c \in Calls, Planned(c) \/ Execute(c) \/ Destroyed(c) PROVE ThreadInv'
  <2> DEFINE k == pc[c][2]
  <2>1. /\ UNCHANGED <<size, pass, searches, loop, fplast>> /\ Native(c)
        /\ pc[c][1] \in {"plan", "execute", "destroy"}
    BY <1>6 DEF Planned, Execute, Destroyed, thread, record, Native
  <2>2. /\ k \in 1..3 /\ size[c] > 0
        /\ pc[c][1] \in {"plan", "execute"} => pass[c] <= 1
    BY <1>1, <2>1, PhaseFacts DEF Inside, Consistent
  <2>3. FaultsTyped'
    BY <1>6 DEF Planned, Execute, Destroyed, Faulty, If, ThreadInv, FaultsTyped
  <2>4. FlagsTyped'
    BY <1>6 DEF Planned, Execute, Destroyed, ThreadInv, FlagsTyped
  <2>5. CountsTyped' /\ LoopTyped'
    BY <2>1 DEF ThreadInv, CountsTyped, LoopTyped
  <2>6. inFFTW' \subseteq Calls /\ c \notin inFFTW'
    BY <1>1, <1>6 DEF Planned, Execute, Destroyed, ThreadInv, Consistent
  <2>7. \E q \in Phases :
          /\ pc' = [pc EXCEPT ![c] = q] /\ q[1] \notin {"symbol", "fill"}
          /\ q[1] \in {"destroy", "done"} \/ pc[c][1] \in {"plan", "execute"}
    <3> k + 1 \in 1..3 \/ ~(k < 3)
      BY <2>2
    <3> HIDE DEF k
    <3>1. CASE Planned(c)
      <4>1. pc' = [pc EXCEPT ![c] = <<"execute", k>>] /\ pc[c][1] = "plan"
        BY <3>1 DEF Planned, k
      <4> QED BY <2>2, <4>1, PhaseTyped DEF k
    <3>2. CASE Execute(c)
      <4>1. /\ pc' = [pc EXCEPT ![c] = IF k < 3 THEN <<"plan", k + 1>> ELSE <<"pass", 0>>]
            /\ pc[c][1] = "execute"
        BY <3>2 DEF Execute, k
      <4>2. CASE k < 3
        BY <4>1, <4>2, PhaseTyped
      <4>3. CASE ~(k < 3)
        BY <4>1, <4>3, PhaseTyped
      <4> QED BY <4>2, <4>3
    <3>3. CASE Destroyed(c)
      <4>1. pc' = [pc EXCEPT ![c] = IF k < 3 THEN <<"destroy", k + 1>> ELSE <<"done", 0>>]
        BY <3>3 DEF Destroyed, k
      <4>2. CASE k < 3
        BY <4>1, <4>2, PhaseTyped
      <4>3. CASE ~(k < 3)
        BY <4>1, <4>3, PhaseTyped
      <4> QED BY <4>2, <4>3
    <3> QED BY <1>6, <3>1, <3>2, <3>3
  <2>8. PICK q \in Phases :
          /\ pc' = [pc EXCEPT ![c] = q] /\ q[1] \notin {"symbol", "fill"}
          /\ q[1] \in {"destroy", "done"} \/ pc[c][1] \in {"plan", "execute"}
    BY <2>7
  <2>9. pc'[c] = q /\ PcTyped'
    BY <2>8 DEF ThreadInv, PcTyped
  <2>10. ~InLoop(c)'
    <3>1. q[1] # "symbol" /\ q[1] # "fill"
      BY <2>8
    <3> QED BY <2>9, <3>1 DEF InLoop
  <2> QED BY <2>1, <2>2, <2>3, <2>4, <2>5, <2>6, <2>8, <2>9, <2>10, ThreadStep
<1>7. ASSUME NEW c \in Calls, Demodulate(c) PROVE ThreadInv'
  <2>1. PICK f \in Functions, s \in Tracks :
          loop' = [loop EXCEPT ![c] = [fn |-> f, track |-> s, i |-> 0, tables |-> 0]]
    BY <1>7 DEF Demodulate
  <2>2. [fn |-> f, track |-> s, i |-> 0, tables |-> 0] \in Loops
    BY SizesAssumption DEF Loops
  <2>3. /\ UNCHANGED <<size, pass, fplast, inFFTW, faults>> /\ Native(c)
        /\ pc[c] = <<"pass", 0>> /\ pc' = [pc EXCEPT ![c] = <<"symbol", 0>>]
        /\ searches[c] < MaxSearches /\ searches' = [searches EXCEPT ![c] = @ + 1]
    BY <1>7 DEF Demodulate, record, Native
  <2>4. LoopTyped' /\ loop'[c] \in Loops
    BY <2>1, <2>2, <2>3 DEF ThreadInv, LoopTyped
  <2>5. CountsTyped'
    BY <2>3, SizesAssumption DEF ThreadInv, CountsTyped
  <2>6. FaultsTyped' /\ inFFTW' \subseteq Calls
    BY <2>3 DEF ThreadInv, FaultsTyped
  <2>7. FlagsTyped'
    BY <1>7 DEF Demodulate, ThreadInv, FlagsTyped
  <2>8. pc'[c] = <<"symbol", 0>> /\ PcTyped'
    BY <2>3, PhaseTyped DEF ThreadInv, PcTyped
  <2>9. c \notin inFFTW /\ pass[c] <= 1 /\ size[c] > 0
    BY <1>1, <2>3 DEF Consistent, Inside
  <2> QED BY <2>3, <2>4, <2>5, <2>6, <2>7, <2>8, <2>9, ThreadStep
<1>8. ASSUME NEW c \in Calls, Fill(c) PROVE ThreadInv'
  <2>1. /\ UNCHANGED <<size, pass, searches, loop, fplast, inFFTW, faults>> /\ Native(c)
        /\ pc[c] = <<"symbol", 0>> /\ pc' = [pc EXCEPT ![c] = <<"fill", 0>>]
    BY <1>8 DEF Fill, record, thread, Native
  <2>2. CountsTyped' /\ LoopTyped' /\ FaultsTyped' /\ inFFTW' \subseteq Calls
    BY <2>1 DEF ThreadInv, CountsTyped, LoopTyped, FaultsTyped
  <2>3. FlagsTyped'
    BY <1>8 DEF Fill, ThreadInv, FlagsTyped
  <2>4. pc'[c] = <<"fill", 0>> /\ PcTyped'
    BY <2>1, PhaseTyped DEF ThreadInv, PcTyped
  <2>5. c \notin inFFTW /\ pass[c] <= 1 /\ size[c] > 0 /\ loop[c] \in Loops
    BY <1>1, <2>1 DEF Consistent, Inside, InLoop
  <2> QED BY <2>1, <2>2, <2>3, <2>4, <2>5, ThreadStep
<1>9. ASSUME NEW c \in Calls, Filled(c) \/ Keep(c) PROVE ThreadInv'
  <2>1. UNCHANGED <<size, pass, searches, inFFTW>> /\ InLoop(c) /\ Native(c)
    BY <1>9 DEF Filled, Keep, record, InLoop, Native
  <2>2. c \notin inFFTW /\ pass[c] <= 1 /\ size[c] > 0 /\ loop[c] \in Loops
    <3>1. pc[c][1] = "symbol" \/ pc[c][1] = "fill"
      BY <2>1 DEF InLoop
    <3> QED BY <1>1, <2>1, <3>1 DEF Consistent, Inside
  <2>3. /\ loop[c].i \in 0..(Symbols - 1) /\ loop[c].track \in Tracks /\ loop[c].fn \in Functions
        /\ loop[c].tables \in Nat /\ loop[c].track[loop[c].i] \in Nat
    <3>1. /\ loop[c].i \in 0..(Symbols - 1) /\ loop[c].track \in Tracks
          /\ loop[c].fn \in Functions /\ loop[c].tables \in Nat
      BY <2>2 DEF Loops
    <3>2. loop[c].track \in [0..(Symbols - 1) -> Nat \ {0}]
      BY <3>1, TracksAssumption
    <3> QED BY <3>1, <3>2
  <2>4. fplast' \in [Functions -> Nat]
    BY <1>9, <2>3 DEF Filled, Keep, ThreadInv, LoopTyped
  <2>5. PICK tables \in Nat : Correlated(c, tables)
    BY <1>9, <2>3 DEF Filled, Keep
  <2>6. FaultsTyped' /\ inFFTW' \subseteq Calls
    BY <2>1, <2>5 DEF Correlated, Faulty, If, ThreadInv, FaultsTyped
  <2>7. CountsTyped'
    BY <2>1 DEF ThreadInv, CountsTyped
  <2>8. FlagsTyped'
    BY <1>9 DEF Filled, Keep, ThreadInv, FlagsTyped
  <2> DEFINE i == loop[c].i
  <2>9. CASE i + 1 < Symbols
    <3>1. /\ loop' = [loop EXCEPT ![c] = [fn |-> loop[c].fn, track |-> loop[c].track,
                                         i |-> i + 1, tables |-> tables]]
          /\ pc' = [pc EXCEPT ![c] = <<"symbol", 0>>]
      BY <2>5, <2>9 DEF Correlated, ThreadInv, LoopTyped
    <3>2. [fn |-> loop[c].fn, track |-> loop[c].track, i |-> i + 1, tables |-> tables] \in Loops
      BY <2>3, <2>9, SizesAssumption DEF Loops
    <3>3. LoopTyped' /\ loop'[c] \in Loops
      BY <2>4, <3>1, <3>2 DEF ThreadInv, LoopTyped
    <3>4. pc'[c] = <<"symbol", 0>> /\ PcTyped'
      BY <3>1, PhaseTyped DEF ThreadInv, PcTyped
    <3> QED BY <2>1, <2>2, <2>6, <2>7, <2>8, <3>3, <3>4, ThreadStep
  <2>10. CASE ~(i + 1 < Symbols)
    <3>1. /\ loop' = [loop EXCEPT ![c] = NoLoop]
          /\ pc' = [pc EXCEPT ![c] = <<"pass", 0>>]
      BY <2>5, <2>10 DEF Correlated
    <3>2. LoopTyped'
      BY <2>4, <3>1 DEF ThreadInv, LoopTyped
    <3>3. pc'[c] = <<"pass", 0>> /\ PcTyped' /\ ~InLoop(c)'
      BY <3>1, PhaseTyped DEF ThreadInv, PcTyped, InLoop
    <3> QED BY <2>1, <2>2, <2>6, <2>7, <2>8, <3>2, <3>3, ThreadStep
  <2> QED BY <2>9, <2>10
<1>10. ASSUME NEW c \in Calls, EndPass(c) PROVE ThreadInv'
  <2>1. /\ UNCHANGED <<size, loop, fplast, inFFTW, faults>>
        /\ pc[c] = <<"pass", 0>> /\ Native(c)
        /\ pass' = [pass EXCEPT ![c] = @ + 1] /\ searches' = [searches EXCEPT ![c] = 0]
        /\ pc' = [pc EXCEPT ![c] = IF pass[c] = 0 THEN <<"execute", 3>> ELSE <<"destroy", 1>>]
    BY <1>10 DEF EndPass, record, Native
  <2>2. pass[c] \in 0..1 /\ size[c] > 0 /\ c \notin inFFTW
    BY <1>1, <2>1 DEF Consistent, Inside
  <2>3. CountsTyped' /\ pass'[c] = pass[c] + 1
    BY <2>1, <2>2, SizesAssumption DEF ThreadInv, CountsTyped
  <2>4. LoopTyped' /\ FaultsTyped' /\ inFFTW' \subseteq Calls
    BY <2>1 DEF ThreadInv, LoopTyped, FaultsTyped
  <2>5. FlagsTyped'
    BY <1>10 DEF EndPass, ThreadInv, FlagsTyped
  <2>6. /\ pc'[c] = IF pass[c] = 0 THEN <<"execute", 3>> ELSE <<"destroy", 1>>
        /\ PcTyped' /\ ~InLoop(c)'
    BY <2>1, PhaseTyped DEF ThreadInv, PcTyped, InLoop
  <2>7. pc'[c][1] \notin {"destroy", "done"} => pass'[c] <= 1
    BY <2>2, <2>3, <2>6
  <2> QED BY <2>1, <2>2, <2>3, <2>4, <2>5, <2>6, <2>7, ThreadStep
<1> QED BY <1>2, <1>3, <1>4, <1>5, <1>6, <1>7, <1>8, <1>9, <1>10 DEF Next, Recorded, Native

-----------------------------------------------------------------------------
(* Plans, as long as no two decodes meet.                                  *)

\* The plans a thread has made and not destroyed.
Holds(c, k) ==
  \/ pc[c][1] = "plan" /\ k < pc[c][2]
  \/ pc[c][1] = "execute" /\ k <= pc[c][2]
  \/ pc[c][1] \in {"pass", "symbol", "fill"}
  \/ pc[c][1] = "destroy" /\ k >= pc[c][2]

Alone == \A c, d \in Calls : Inside(c) /\ Inside(d) => c = d
PlansOf(c) == \A k \in 1..3 : plan[k] = IF Holds(c, k) THEN c ELSE Freed
PlanFaults == {"reentered", "leaked", "foreign plan"}

PlanInv ==
  /\ plan \in [1..3 -> Calls \cup {Freed}]
  /\ ~met => /\ Alone /\ faults \cap PlanFaults = {}
             /\ \A c \in Calls : Inside(c) => PlansOf(c)
             /\ (\A c \in Calls : ~Inside(c)) => \A k \in 1..3 : plan[k] = Freed

\* While one thread is in native code, no other is.
LEMMA Solo ==
  ASSUME ThreadInv, PlanInv, ~met, NEW c \in Calls, Native(c)
  PROVE  /\ Inside(c) /\ PlansOf(c) /\ faults \cap PlanFaults = {}
         /\ \A d \in Calls \ {c} : ~Inside(d) /\ ~Inside(d)'
         /\ inFFTW \subseteq {c}
<1>1. pc[c][1] \in {"plan", "execute", "destroy", "pass", "symbol", "fill"}
  <2>1. CASE CallFFTW(c) \/ Planned(c) \/ Execute(c) \/ Destroyed(c)
    BY <2>1 DEF CallFFTW, Planned, Execute, Destroyed
  <2>2. CASE Demodulate(c) \/ EndPass(c)
    BY <2>2 DEF Demodulate, EndPass
  <2>3. CASE Fill(c) \/ Filled(c) \/ Keep(c)
    BY <2>3 DEF Fill, Filled, Keep
  <2> QED BY <2>1, <2>2, <2>3 DEF Native
<1>2. Inside(c)
  BY <1>1 DEF Inside
<1>3. \A d \in Calls \ {c} : ~Inside(d)
  BY <1>2 DEF PlanInv, Alone
<1>4. \A d \in Calls \ {c} : ~Inside(d)'
  BY <1>3, OnlyOne DEF Inside
<1>5. inFFTW \subseteq {c}
  BY <1>3 DEF ThreadInv, Consistent, Inside
<1> QED BY <1>2, <1>3, <1>4, <1>5 DEF PlanInv

\* A step of a thread that is alone keeps its plans.
LEMMA PlansStep ==
  ASSUME ThreadInv, PlanInv, ~met, NEW c \in Calls, Native(c)
  PROVE  /\ plan' \in [1..3 -> Calls \cup {Freed}]
         /\ PlansOf(c)' /\ faults' \cap PlanFaults = {}
<1>1. PlansOf(c) /\ faults \cap PlanFaults = {} /\ inFFTW \subseteq {c}
  BY Solo
<1>2. plan \in [1..3 -> Calls \cup {Freed}] /\ pc \in [Calls -> Phases] /\ Freed = 0
  BY DEF PlanInv, ThreadInv, PcTyped, Freed
<1>3. PICK k \in 0..3 : k = pc[c][2]
  BY <1>2, PhaseFacts
<1>4. pc[c][1] \in {"plan", "execute", "destroy"} => k \in 1..3
  BY <1>2, <1>3, PhaseFacts
<1>5. CASE CallFFTW(c)
  <2>1. UNCHANGED <<plan, pc>> /\ inFFTW = {}
    BY <1>1, <1>5 DEF CallFFTW
  <2>2. faults' = faults
    BY <1>5, <2>1 DEF CallFFTW, Faulty, If
  <2> QED BY <1>1, <1>2, <2>1, <2>2 DEF PlansOf, Holds
<1>6. CASE Planned(c)
  <2>1. /\ pc[c][1] = "plan" /\ plan' = [plan EXCEPT ![k] = c]
        /\ pc' = [pc EXCEPT ![c] = <<"execute", k>>] /\ k \in 1..3
    BY <1>3, <1>4, <1>6 DEF Planned
  <2>2. plan[k] = Freed
    BY <1>1, <1>3, <2>1 DEF PlansOf, Holds
  <2>3. faults' = faults
    BY <1>3, <1>6, <2>2 DEF Planned, Faulty, If
  <2>4. \A j \in 1..3 : Holds(c, j) <=> j < k
    BY <1>3, <2>1 DEF Holds
  <2>5. \A j \in 1..3 : Holds(c, j)' <=> j <= k
    <3>1. pc'[c][1] = "execute" /\ pc'[c][2] = k
      BY <1>2, <2>1
    <3> QED BY <3>1 DEF Holds
  <2>6. \A j \in 1..3 : plan'[j] = IF j <= k THEN c ELSE Freed
    BY <1>1, <1>2, <2>1, <2>4 DEF PlansOf
  <2> QED BY <1>1, <1>2, <2>1, <2>3, <2>5, <2>6 DEF PlansOf
<1>7. CASE Execute(c)
  <2>1. /\ pc[c][1] = "execute" /\ plan' = plan /\ k \in 1..3
        /\ pc' = [pc EXCEPT ![c] = IF k < 3 THEN <<"plan", k + 1>> ELSE <<"pass", 0>>]
    BY <1>3, <1>4, <1>7 DEF Execute
  <2>2. plan[k] = c
    BY <1>1, <1>3, <2>1 DEF PlansOf, Holds
  <2>3. faults' = faults
    BY <1>3, <1>7, <2>2 DEF Execute, Faulty, If
  <2>4. \A j \in 1..3 : Holds(c, j) <=> j <= k
    BY <1>3, <2>1 DEF Holds
  <2>5. \A j \in 1..3 : Holds(c, j)' <=> j <= k
    <3>1. CASE k < 3
      <4>1. pc'[c][1] = "plan" /\ pc'[c][2] = k + 1
        BY <1>2, <2>1, <3>1
      <4> QED BY <2>1, <4>1 DEF Holds
    <3>2. CASE k = 3
      <4>1. pc'[c][1] = "pass"
        BY <1>2, <2>1, <3>2
      <4> QED BY <3>2, <4>1 DEF Holds
    <3> QED BY <2>1, <3>1, <3>2
  <2> QED BY <1>1, <1>2, <2>1, <2>3, <2>4, <2>5 DEF PlansOf
<1>8. CASE Destroyed(c)
  <2>1. /\ pc[c][1] = "destroy" /\ plan' = [plan EXCEPT ![k] = Freed] /\ k \in 1..3
        /\ pc' = [pc EXCEPT ![c] = IF k < 3 THEN <<"destroy", k + 1>> ELSE <<"done", 0>>]
    BY <1>3, <1>4, <1>8 DEF Destroyed
  <2>2. plan[k] = c
    BY <1>1, <1>3, <2>1 DEF PlansOf, Holds
  <2>3. faults' = faults
    BY <1>3, <1>8, <2>2 DEF Destroyed, Faulty, If
  <2>4. \A j \in 1..3 : Holds(c, j) <=> j >= k
    BY <1>3, <2>1 DEF Holds
  <2>5. \A j \in 1..3 : Holds(c, j)' <=> j > k
    <3>1. CASE k < 3
      <4>1. pc'[c][1] = "destroy" /\ pc'[c][2] = k + 1
        BY <1>2, <2>1, <3>1
      <4> QED BY <2>1, <4>1 DEF Holds
    <3>2. CASE k = 3
      <4>1. pc'[c][1] = "done"
        BY <1>2, <2>1, <3>2
      <4> QED BY <3>2, <4>1 DEF Holds
    <3> QED BY <2>1, <3>1, <3>2
  <2>6. \A j \in 1..3 : plan'[j] = IF j > k THEN c ELSE Freed
    BY <1>1, <1>2, <2>1, <2>4 DEF PlansOf
  <2> QED BY <1>1, <1>2, <2>1, <2>3, <2>5, <2>6 DEF PlansOf
<1>9. CASE Demodulate(c) \/ Fill(c) \/ Filled(c) \/ Keep(c) \/ EndPass(c)
  <2>1. plan' = plan /\ pc[c][1] \in {"pass", "symbol", "fill"}
    BY <1>9 DEF Demodulate, Fill, Filled, Keep, EndPass
  <2>2. faults' \subseteq faults \cup {"stale tables"}
    BY <1>9 DEF Demodulate, Fill, Filled, Keep, EndPass, Correlated, Faulty, If
  <2>3. \/ pc'[c][1] \in {"pass", "symbol", "fill"}
        \/ pc'[c] = <<"execute", 3>> \/ pc'[c] = <<"destroy", 1>>
    <3>1. CASE Demodulate(c) \/ Fill(c)
      BY <1>2, <3>1 DEF Demodulate, Fill
    <3>2. CASE Filled(c) \/ Keep(c)
      <4>1. PICK tables : Correlated(c, tables)
        BY <3>2 DEF Filled, Keep
      <4>2. \/ pc' = [pc EXCEPT ![c] = <<"symbol", 0>>]
            \/ pc' = [pc EXCEPT ![c] = <<"pass", 0>>]
        BY <4>1 DEF Correlated
      <4> QED BY <1>2, <4>2
    <3>3. CASE EndPass(c)
      <4>1. pc' = [pc EXCEPT ![c] = IF pass[c] = 0 THEN <<"execute", 3>> ELSE <<"destroy", 1>>]
        BY <3>3 DEF EndPass
      <4> QED BY <1>2, <4>1
    <3> QED BY <1>9, <3>1, <3>2, <3>3
  <2>4. \A j \in 1..3 : Holds(c, j) /\ Holds(c, j)'
    BY <2>1, <2>3 DEF Holds
  <2> QED BY <1>1, <1>2, <2>1, <2>2, <2>4 DEF PlansOf, PlanFaults
<1> QED BY <1>5, <1>6, <1>7, <1>8, <1>9 DEF Native

LEMMA PlanInvariant ==
  ASSUME RecordInv, ThreadInv, ThreadInv', PlanInv, [Next]_vars
  PROVE  PlanInv'
<1>1. ASSUME NEW c \in Calls, Native(c) PROVE PlanInv'
  <2>1. plan' \in [1..3 -> Calls \cup {Freed}]
    BY <1>1 DEF Native, CallFFTW, Planned, Execute, Destroyed, Demodulate, Fill, Filled,
                Keep, EndPass, PlanInv
  <2>2. met' = met
    BY <1>1 DEF Native, CallFFTW, Planned, Execute, Destroyed, Demodulate, Fill, Filled,
                Keep, EndPass
  <2>3. ASSUME ~met
        PROVE  /\ Alone' /\ faults' \cap PlanFaults = {}
               /\ \A d \in Calls : Inside(d)' => PlansOf(d)'
               /\ (\A d \in Calls : ~Inside(d)') => \A k \in 1..3 : plan'[k] = Freed
    <3>1. PlansOf(c)' /\ faults' \cap PlanFaults = {}
      BY <1>1, <2>3, PlansStep
    <3>2. \A d \in Calls \ {c} : ~Inside(d)'
      BY <1>1, <2>3, Solo
    <3>3. Alone'
      BY <3>2 DEF Alone
    <3>4. ~Inside(c)' => \A k \in 1..3 : ~Holds(c, k)'
      BY DEF Inside, Holds
    <3>5. ~Inside(c)' => \A k \in 1..3 : plan'[k] = Freed
      BY <3>1, <3>4 DEF PlansOf
    <3> QED BY <3>1, <3>2, <3>3, <3>5
  <2> QED BY <2>1, <2>2, <2>3 DEF PlanInv
<1>2. ASSUME NEW c \in Calls, Enter(c) PROVE PlanInv'
  <2>1. /\ UNCHANGED <<plan, faults>> /\ pc[c] = <<"out", 0>>
        /\ pc' = [pc EXCEPT ![c] = <<"plan", 1>>]
    BY <1>2 DEF Enter, Waiting
  <2>2. ASSUME ~met'
        PROVE  /\ Alone' /\ faults' \cap PlanFaults = {}
               /\ \A d \in Calls : Inside(d)' => PlansOf(d)'
               /\ (\A d \in Calls : ~Inside(d)') => \A k \in 1..3 : plan'[k] = Freed
    <3>1. ~met /\ \A d \in Calls \ {c} : ~Inside(d)
      BY <1>2, <2>2 DEF Enter
    <3>2. \A d \in Calls : ~Inside(d)
      BY <2>1, <3>1 DEF Inside
    <3>3. faults \cap PlanFaults = {} /\ \A k \in 1..3 : plan[k] = Freed
      BY <3>1, <3>2 DEF PlanInv
    <3>4. \A d \in Calls \ {c} : ~Inside(d)'
      BY <1>2, <3>1, OnlyOne DEF Inside
    <3>5. pc'[c][1] = "plan" /\ pc'[c][2] = 1
      BY <2>1 DEF ThreadInv, PcTyped
    <3>6. \A k \in 1..3 : ~Holds(c, k)'
      BY <3>5 DEF Holds
    <3>7. Alone'
      BY <3>4 DEF Alone
    <3> QED BY <2>1, <3>3, <3>4, <3>6, <3>7 DEF PlansOf
  <2> QED BY <2>1, <2>2 DEF PlanInv
<1>3. ASSUME (\E c \in Calls : Read(c)) \/ Crash \/ UNCHANGED vars PROVE PlanInv'
  <2>1. UNCHANGED <<plan, faults, pc>>
    BY <1>3 DEF Read, Crash, vars
  <2>2. met' = met
    BY <1>3 DEF Read, Crash, vars
  <2> QED BY <2>1, <2>2 DEF PlanInv, Alone, Inside, PlansOf, Holds
<1> QED BY <1>1, <1>2, <1>3 DEF Next, Recorded

-----------------------------------------------------------------------------
(* Tone tables, as long as no two decodes meet.                            *)

\* Behind its first symbol a thread has the tables of the frequency in fplast.
TableInv ==
  ~met => /\ "stale tables" \notin faults
          /\ \A c \in Calls :
               InLoop(c) /\ loop[c].i > 0 => loop[c].tables = fplast[loop[c].fn]

\* A symbol that is correlated with the tables of its own frequency.
LEMMA CorrelatedOwn ==
  ASSUME ThreadInv, NEW c \in Calls, loop[c] \in Loops, NEW tables \in Nat,
         Correlated(c, tables), tables = loop[c].track[loop[c].i]
  PROVE  /\ faults' = faults
         /\ InLoop(c)' => loop'[c].fn = loop[c].fn /\ loop'[c].tables = tables
<1>1. faults' = faults
  BY DEF Correlated, Faulty, If
<1>2. pc \in [Calls -> Phases] /\ loop \in [Calls -> {NoLoop} \cup Loops]
  BY DEF ThreadInv, PcTyped, LoopTyped
<1>3. CASE loop[c].i + 1 < Symbols
  <2>1. loop'[c] = [fn |-> loop[c].fn, track |-> loop[c].track,
                    i |-> loop[c].i + 1, tables |-> tables]
    BY <1>2, <1>3 DEF Correlated
  <2> QED BY <1>1, <2>1
<1>4. CASE ~(loop[c].i + 1 < Symbols)
  <2>1. pc'[c] = <<"pass", 0>>
    BY <1>2, <1>4 DEF Correlated
  <2> QED BY <1>1, <2>1 DEF InLoop
<1> QED BY <1>3, <1>4

LEMMA TableInvariant ==
  ASSUME ThreadInv, PlanInv, TableInv, [Next]_vars
  PROVE  TableInv'
<1>1. loop \in [Calls -> {NoLoop} \cup Loops] /\ pc \in [Calls -> Phases]
      /\ fplast \in [Functions -> Nat]
  BY DEF ThreadInv, PcTyped, LoopTyped
<1>2. \A c \in Calls : InLoop(c) => Inside(c)
  BY DEF InLoop, Inside
<1>3. ASSUME NEW c \in Calls, Filled(c) \/ Keep(c) PROVE TableInv'
  <2>1. InLoop(c) /\ Native(c)
    BY <1>3 DEF Filled, Keep, InLoop, Native
  <2>2. met' = met
    BY <1>3 DEF Filled, Keep
  <2> SUFFICES ASSUME ~met PROVE TableInv'
    BY <2>2 DEF TableInv
  <2>3. loop[c] \in Loops
    BY <2>1 DEF ThreadInv, Consistent
  <2>4. /\ loop[c].i \in Nat /\ loop[c].fn \in Functions /\ loop[c].tables \in Nat
        /\ loop[c].track[loop[c].i] \in Nat
    <3>1. /\ loop[c].i \in 0..(Symbols - 1) /\ loop[c].track \in Tracks
          /\ loop[c].fn \in Functions /\ loop[c].tables \in Nat
      BY <2>3 DEF Loops
    <3>2. loop[c].track \in [0..(Symbols - 1) -> Nat \ {0}]
      BY <3>1, TracksAssumption
    <3> QED BY <3>1, <3>2, SizesAssumption
  <2>5. PICK tables \in Nat : /\ Correlated(c, tables) /\ tables = loop[c].track[loop[c].i]
                             /\ fplast'[loop[c].fn] = tables
    <3>1. CASE Filled(c)
      BY <1>1, <2>4, <3>1 DEF Filled
    <3>2. CASE Keep(c)
      <4>1. loop[c].i # 0 /\ loop[c].track[loop[c].i] = fplast[loop[c].fn]
        BY <3>2 DEF Keep, NewTables
      <4>2. loop[c].tables = fplast[loop[c].fn]
        <5>1. InLoop(c) /\ loop[c].i > 0 => loop[c].tables = fplast[loop[c].fn]
          BY DEF TableInv
        <5>2. loop[c].i > 0
          BY <2>4, <4>1
        <5> QED BY <2>1, <5>1, <5>2
      <4>3. Correlated(c, loop[c].tables) /\ fplast' = fplast
        BY <3>2 DEF Keep
      <4> QED BY <2>4, <4>1, <4>2, <4>3
    <3> QED BY <1>3, <3>1, <3>2
  <2>6. faults' = faults /\ (InLoop(c)' => /\ loop'[c].fn = loop[c].fn
                                          /\ loop'[c].tables = tables)
    BY <2>3, <2>5, CorrelatedOwn
  <2>7. \A d \in Calls \ {c} : ~InLoop(d)'
    <3>1. \A d \in Calls \ {c} : ~Inside(d)'
      BY <2>1, Solo
    <3> QED BY <3>1 DEF InLoop, Inside
  <2> QED BY <2>5, <2>6, <2>7 DEF TableInv
<1>4. ASSUME NEW c \in Calls, Demodulate(c) PROVE TableInv'
  <2>1. PICK f \in Functions, s \in Tracks :
          loop' = [loop EXCEPT ![c] = [fn |-> f, track |-> s, i |-> 0, tables |-> 0]]
    BY <1>4 DEF Demodulate
  <2>2. loop'[c].i = 0
    BY <1>1, <2>1
  <2>3. met' = met
    BY <1>4 DEF Demodulate
  <2>4. faults' = faults /\ fplast' = fplast
    BY <1>4 DEF Demodulate
  <2>5. \A d \in Calls \ {c} : loop'[d] = loop[d] /\ pc'[d] = pc[d]
    BY <1>4, OnlyOne DEF Native
  <2>6. \A d \in Calls \ {c} : InLoop(d)' = InLoop(d)
    BY <2>5 DEF InLoop
  <2>7. ~(loop'[c].i > 0)
    BY <2>2
  <2>8. ASSUME ~met, NEW d \in Calls, InLoop(d)', loop'[d].i > 0
        PROVE  loop'[d].tables = fplast'[loop'[d].fn]
    <3>1. d # c
      BY <2>7, <2>8
    <3>2. loop'[d] = loop[d] /\ InLoop(d)
      BY <2>5, <2>6, <2>8, <3>1
    <3>3. InLoop(d) /\ loop[d].i > 0 => loop[d].tables = fplast[loop[d].fn]
      BY <2>8 DEF TableInv
    <3> QED BY <2>4, <2>8, <3>2, <3>3
  <2> QED BY <2>3, <2>4, <2>8 DEF TableInv
<1>5. ASSUME NEW c \in Calls,
             \/ Enter(c) \/ CallFFTW(c) \/ Planned(c) \/ Execute(c) \/ Destroyed(c)
             \/ Fill(c) \/ EndPass(c)
      PROVE  TableInv'
  <2>1. loop' = loop /\ fplast' = fplast
    BY <1>5 DEF Enter, CallFFTW, Planned, Execute, Destroyed, Fill, EndPass, thread
  <2>2. faults' \subseteq faults \cup PlanFaults
    BY <1>5 DEF Enter, CallFFTW, Planned, Execute, Destroyed, Fill, EndPass, Faulty, If, PlanFaults
  <2>3. met => met'
    BY <1>5, OnlyOne DEF Native
  <2>4. InLoop(c)' => InLoop(c)
    <3>1. CASE Fill(c)
      BY <3>1 DEF Fill, InLoop
    <3>2. CASE CallFFTW(c)
      BY <3>2 DEF CallFFTW, InLoop
    <3>3. CASE Enter(c)
      BY <1>1, <3>3 DEF Enter, InLoop
    <3>4. CASE Planned(c)
      BY <1>1, <3>4 DEF Planned, InLoop
    <3>5. CASE Execute(c) \/ Destroyed(c) \/ EndPass(c)
      <4>1. \E s \in {"plan", "pass", "destroy", "done", "execute"}, k \in Nat :
              pc' = [pc EXCEPT ![c] = <<s, k>>]
        <5>1. \A q \in Phases : q[2] + 1 \in Nat
          BY PhaseFacts
        <5>2. CASE Execute(c)
          BY <1>1, <5>1, <5>2 DEF Execute
        <5>3. CASE Destroyed(c)
          BY <1>1, <5>1, <5>3 DEF Destroyed
        <5>4. CASE EndPass(c)
          BY <5>4 DEF EndPass
        <5> QED BY <3>5, <5>2, <5>3, <5>4
      <4>2. PICK s \in {"plan", "pass", "destroy", "done", "execute"}, k \in Nat :
              pc' = [pc EXCEPT ![c] = <<s, k>>]
        BY <4>1
      <4>3. pc'[c][1] = s
        BY <1>1, <4>2
      <4> QED BY <4>3 DEF InLoop
    <3> QED BY <1>5, <3>1, <3>2, <3>3, <3>4, <3>5
  <2>5. \A d \in Calls \ {c} : pc'[d] = pc[d]
    BY <1>5, OnlyOne DEF Native
  <2>6. \A d \in Calls : InLoop(d)' => InLoop(d)
    BY <2>4, <2>5 DEF InLoop
  <2> QED BY <2>1, <2>2, <2>3, <2>6 DEF TableInv, PlanFaults
<1>6. ASSUME (\E c \in Calls : Read(c)) \/ Crash \/ UNCHANGED vars PROVE TableInv'
  <2>1. UNCHANGED <<loop, fplast, faults, pc>>
    BY <1>6 DEF Read, Crash, vars, thread
  <2>2. met' = met
    BY <1>6 DEF Read, Crash, vars
  <2> QED BY <2>1, <2>2 DEF TableInv, InLoop
<1> QED BY <1>3, <1>4, <1>5, <1>6 DEF Next, Recorded, Native

-----------------------------------------------------------------------------
(* The inductive invariant and what follows from it.                       *)

IInv == RecordInv /\ ThreadInv /\ PlanInv /\ TableInv

LEMMA InitIInv == Init => IInv
<1> SUFFICES ASSUME Init PROVE IInv
  OBVIOUS
<1>1. RecordInv
  BY LimitIsNat DEF Init, RecordInv
<1>2. pc = [c \in Calls |-> <<"out", 0>>] /\ <<"out", 0>> \in Phases
  BY PhaseTyped DEF Init
<1>3. \A c \in Calls : pc[c][1] = "out" /\ ~Inside(c) /\ ~InLoop(c) /\ pass[c] = 0
  BY <1>2 DEF Init, Inside, InLoop
<1>4. ThreadInv
  <2>1. PcTyped
    BY <1>2 DEF PcTyped
  <2>2. CountsTyped /\ LoopTyped /\ FaultsTyped
    BY SizesAssumption DEF Init, CountsTyped, LoopTyped, FaultsTyped
  <2>3. FlagsTyped
    BY DEF Init, FlagsTyped
  <2>4. inFFTW = {}
    BY DEF Init
  <2> QED BY <1>3, <2>1, <2>2, <2>3, <2>4 DEF ThreadInv, Consistent
<1>5. PlanInv
  BY <1>3 DEF Init, PlanInv, Alone
<1>6. TableInv
  BY <1>3 DEF Init, TableInv
<1> QED BY <1>1, <1>4, <1>5, <1>6 DEF IInv

LEMMA StepIInv == IInv /\ [Next]_vars => IInv'
BY RecordInvariant, ThreadInvariant, PlanInvariant, TableInvariant DEF IInv

LEMMA IInvAlways == Spec => []IInv
BY InitIInv, StepIInv, PTL DEF Spec

LEMMA IInvImplies ==
  ASSUME IInv
  PROVE  /\ TypeOK /\ RecordingFits /\ PlansOwnUnlessMet
         /\ TablesOwnUnlessMet
<1>1. TypeOK
  <2>1. total \in Nat /\ size \in [Calls -> Nat]
    BY LimitIsNat DEF IInv, RecordInv
  <2>2. pc \in [Calls -> ({"plan", "execute", "destroy"} \X (1..3))
                          \cup ({"out", "pass", "symbol", "fill", "done"} \X {0})]
    BY DEF IInv, ThreadInv, PcTyped, Phases
  <2>3. pass \in [Calls -> 0..2] /\ searches \in [Calls -> 0..MaxSearches]
    BY DEF IInv, ThreadInv, CountsTyped
  <2>4. /\ loop \in [Calls -> {NoLoop} \cup [fn : Functions, track : Tracks,
                                             i : 0..(Symbols - 1), tables : Nat]]
        /\ fplast \in [Functions -> Nat]
    BY DEF IInv, ThreadInv, LoopTyped, Loops
  <2>5. plan \in [1..3 -> Calls \cup {Freed}] /\ inFFTW \subseteq Calls
    BY DEF IInv, PlanInv, ThreadInv
  <2>6. met \in BOOLEAN /\ crashed \in BOOLEAN
    BY DEF IInv, ThreadInv, FlagsTyped
  <2>7. faults \subseteq {"reentered", "leaked", "foreign plan", "stale tables"}
    BY DEF IInv, ThreadInv, FaultsTyped
  <2> QED BY <2>1, <2>2, <2>3, <2>4, <2>5, <2>6, <2>7 DEF TypeOK
<1>2. RecordingFits
  <2> SUFFICES ASSUME NEW c \in Calls, Inside(c)
               PROVE  size[c] >= Limit /\ size[c] <= Capacity
    BY DEF RecordingFits
  <2>1. size[c] > 0 /\ size[c] \in {0, Limit + 1}
    BY DEF IInv, ThreadInv, Consistent, RecordInv
  <2> QED BY <2>1, LimitIsNat
<1>3. PlansOwnUnlessMet
  BY DEF IInv, PlanInv, PlanFaults, PlansOwnUnlessMet
<1>4. TablesOwnUnlessMet
  BY DEF IInv, TableInv, TablesOwnUnlessMet
<1> QED BY <1>1, <1>2, <1>3, <1>4

\* Recordings, threads, plans and static variables keep their types.
THEOREM TypeCorrect == Spec => []TypeOK
BY IInvAlways, IInvImplies, PTL

\* What the worker hands to jani_do_process fits the array it is copied to and
\* fills the part of it that is read, whatever the reads returned.
THEOREM RecordingAlwaysFits == Spec => []RecordingFits
BY IInvAlways, IInvImplies, PTL

\* While decodes do not meet, none enters FFTW beside another, uses the plan of
\* another, loses its own, or leaves one behind.
THEOREM PlansAreOwn == Spec => []PlansOwnUnlessMet
BY IInvAlways, IInvImplies, PTL

\* While decodes do not meet, the tables that a demodulation keeps from symbol to
\* symbol are those of its frequency, for tracks of any length and drift.
THEOREM TablesAreOwn == Spec => []TablesOwnUnlessMet
BY IInvAlways, IInvImplies, PTL

================================================================================
