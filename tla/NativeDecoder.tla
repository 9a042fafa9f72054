---------------------------- MODULE NativeDecoder ----------------------------
(***************************************************************************)
(* A recording on its way through memory that all decodes share.  The      *)
(* worker of the service fills a byte stream and starts a thread for it;   *)
(* the thread calls jani_do_process, which copies the bytes, makes its     *)
(* three FFT plans in the global variables PLAN1 to PLAN3, and keeps the   *)
(* frequency of the last tone tables in a static variable of each of the   *)
(* two functions that demodulate.  Nothing keeps the thread of one slot    *)
(* from running on while the thread of the next one starts.                *)
(***************************************************************************)
EXTENDS Naturals

CONSTANTS
  MaxCalls,     \* bound: recordings
  Samples,      \* samples of a recording, npoints
  BufferSize,   \* bytes of a read
  Symbols,      \* symbols of a message
  Tracks,       \* frequencies of a candidate, symbol by symbol: they drift
  MaxSearches   \* bound: demodulations of a pass

Calls == 1..MaxCalls
Freed == 0

\* sync_and_demodulate and noncoherent_sequence_detection.
Functions == {"sync", "sequence"}

ASSUME SizesAssumption ==
  /\ MaxCalls \in Nat /\ Samples \in Nat /\ BufferSize \in Nat \ {0}
  /\ Symbols \in Nat \ {0} /\ MaxSearches \in Nat
ASSUME TracksAssumption == Tracks \subseteq [0..(Symbols - 1) -> Nat \ {0}]

VARIABLES
  total,      \* bytes of the recording in progress
  size,       \* bytes of each recording that was handed to a thread
  pc,         \* of each thread: what it does, with which of the plans
  pass,       \* of each thread: passes over the recording
  searches,   \* of each thread: demodulations in this pass
  loop,       \* of each thread: function, track, symbol and tone tables
  plan,       \* PLAN1 to PLAN3: the thread whose plan it is, or freed
  fplast,     \* the static variables
  inFFTW,     \* threads inside the planner or fftwf_destroy_plan
  met,        \* history: two threads were in native code at a time
  faults,     \* history: what went wrong
  crashed     \* the process died of it

vars == <<total, size, pc, pass, searches, loop, plan, fplast, inFFTW, met,
          faults, crashed>>
thread == <<pass, searches, loop>>
record == <<total, size>>

\* No track, no tables: local arrays hold nothing at the start of a function.
NoLoop == [fn |-> "none", track |-> <<>>, i |-> 0, tables |-> 0]

Init ==
  /\ total = 0 /\ size = [c \in Calls |-> 0]
  /\ pc = [c \in Calls |-> <<"out", 0>>] /\ loop = [c \in Calls |-> NoLoop]
  /\ pass = [c \in Calls |-> 0] /\ searches = [c \in Calls |-> 0]
  /\ plan = [k \in 1..3 |-> Freed] /\ fplast = [f \in Functions |-> 0]
  /\ inFFTW = {} /\ met = FALSE /\ faults = {} /\ crashed = FALSE

-----------------------------------------------------------------------------
(* The worker: one recording after the other.                              *)

Limit    == 2 * Samples
Capacity == 2 * (Samples + 2)

Inside(c) == pc[c][1] \notin {"out", "done"}
Waiting(c) == pc[c] = <<"out", 0>> /\ \A d \in Calls : d < c => pc[d] # <<"out", 0>>

\* Seeded fault: the last read is written whole.
TakenWhole(read) == read

\* A read that exceeds the limit is cut one byte behind it and ends the loop.
Taken(read) == IF total + read > Limit THEN Limit + 1 - total ELSE read

Read(c) ==
  /\ ~crashed /\ Waiting(c) /\ size[c] = 0
  /\ \E read \in 1..BufferSize :
       LET all == total + Taken(read)
       IN  IF total + read > Limit
             THEN size' = [size EXCEPT ![c] = all] /\ total' = 0
             ELSE total' = all /\ UNCHANGED size
  /\ UNCHANGED <<pc, thread, plan, fplast, inFFTW, met, faults, crashed>>

\* new Thread(decodersRun), up to the first plan.
Enter(c) ==
  /\ ~crashed /\ Waiting(c) /\ size[c] > 0
  /\ pc' = [pc EXCEPT ![c] = <<"plan", 1>>]
  /\ met' = (met \/ \E d \in Calls \ {c} : Inside(d))
  /\ UNCHANGED <<record, thread, plan, fplast, inFFTW, faults, crashed>>

-----------------------------------------------------------------------------
(* Plans.                                                                  *)

Faulty(S) == faults' = faults \cup S
If(b, f)  == IF b THEN {f} ELSE {}

\* Planner and fftwf_destroy_plan share data between their callers.
CallFFTW(c) ==
  /\ ~crashed /\ pc[c][1] \in {"plan", "destroy"} /\ c \notin inFFTW
  /\ inFFTW' = inFFTW \cup {c}
  /\ Faulty(If(inFFTW # {}, "reentered"))
  /\ UNCHANGED <<record, pc, thread, plan, fplast, met, crashed>>

Planned(c) ==
  LET k == pc[c][2]
  IN  /\ ~crashed /\ pc[c][1] = "plan" /\ c \in inFFTW
      /\ inFFTW' = inFFTW \ {c} /\ plan' = [plan EXCEPT ![k] = c]
      /\ Faulty(If(plan[k] # Freed, "leaked"))
      /\ pc' = [pc EXCEPT ![c] = <<"execute", k>>]
      /\ UNCHANGED <<record, thread, fplast, met, crashed>>

\* Seeded fault: the second plan is executed before it is made.
ExecuteEarly(c) ==
  LET k == pc[c][2]
  IN  /\ ~crashed /\ pc[c][1] = "execute"
      /\ Faulty(If(plan[k] # c, "foreign plan"))
      /\ pc' = [pc EXCEPT ![c] = IF k < 2 THEN <<"execute", 2>> ELSE
                                  IF k < 3 THEN <<"plan", k + 1>> ELSE <<"pass", 0>>]
      /\ UNCHANGED <<record, thread, plan, fplast, inFFTW, met, crashed>>

\* The third plan is executed for every window of every pass.
Execute(c) ==
  LET k == pc[c][2]
  IN  /\ ~crashed /\ pc[c][1] = "execute"
      /\ Faulty(If(plan[k] # c, "foreign plan"))
      /\ pc' = [pc EXCEPT ![c] = IF k < 3 THEN <<"plan", k + 1>> ELSE <<"pass", 0>>]
      /\ UNCHANGED <<record, thread, plan, fplast, inFFTW, met, crashed>>

Destroyed(c) ==
  LET k == pc[c][2]
  IN  /\ ~crashed /\ pc[c][1] = "destroy" /\ c \in inFFTW
      /\ inFFTW' = inFFTW \ {c} /\ plan' = [plan EXCEPT ![k] = Freed]
      /\ Faulty(If(plan[k] # c, "foreign plan"))
      /\ pc' = [pc EXCEPT ![c] = IF k < 3 THEN <<"destroy", k + 1>> ELSE <<"done", 0>>]
      /\ UNCHANGED <<record, thread, fplast, met, crashed>>

-----------------------------------------------------------------------------
(* Passes: spectrum, then demodulations of candidates.                     *)

Demodulate(c) ==
  /\ ~crashed /\ pc[c] = <<"pass", 0>> /\ searches[c] < MaxSearches
  /\ searches' = [searches EXCEPT ![c] = @ + 1]
  /\ \E f \in Functions, t \in Tracks :
       loop' = [loop EXCEPT ![c] = [fn |-> f, track |-> t, i |-> 0, tables |-> 0]]
  /\ pc' = [pc EXCEPT ![c] = <<"symbol", 0>>]
  /\ UNCHANGED <<record, pass, plan, fplast, inFFTW, met, faults, crashed>>

\* Seeded fault: the tables are kept whenever the frequency is the last one.
NewTablesByFrequency(c) == loop[c].track[loop[c].i] # fplast[loop[c].fn]

\* i == 0 || fp != fplast
NewTables(c) == loop[c].i = 0 \/ loop[c].track[loop[c].i] # fplast[loop[c].fn]

\* The test and the assignment to fplast are two steps.
Fill(c) ==
  /\ ~crashed /\ pc[c] = <<"symbol", 0>> /\ NewTables(c)
  /\ pc' = [pc EXCEPT ![c] = <<"fill", 0>>]
  /\ UNCHANGED <<record, thread, plan, fplast, inFFTW, met, faults, crashed>>

\* The symbol is correlated with the tables; the function ends with the last.
Correlated(c, tables) ==
  LET i == loop[c].i
  IN  /\ Faulty(If(tables # loop[c].track[i], "stale tables"))
      /\ IF i + 1 < Symbols
           THEN /\ loop' = [loop EXCEPT ![c] = [fn |-> @.fn, track |-> @.track,
                                                 i |-> i + 1, tables |-> tables]]
                /\ pc' = [pc EXCEPT ![c] = <<"symbol", 0>>]
           ELSE /\ loop' = [loop EXCEPT ![c] = NoLoop]
                /\ pc' = [pc EXCEPT ![c] = <<"pass", 0>>]

Filled(c) ==
  LET fp == loop[c].track[loop[c].i]
  IN  /\ ~crashed /\ pc[c] = <<"fill", 0>>
      /\ fplast' = [fplast EXCEPT ![loop[c].fn] = fp]
      /\ Correlated(c, fp)
      /\ UNCHANGED <<record, pass, searches, plan, inFFTW, met, crashed>>

Keep(c) ==
  /\ ~crashed /\ pc[c] = <<"symbol", 0>> /\ ~NewTables(c)
  /\ Correlated(c, loop[c].tables)
  /\ UNCHANGED <<record, pass, searches, plan, fplast, inFFTW, met, crashed>>

EndPass(c) ==
  /\ ~crashed /\ pc[c] = <<"pass", 0>>
  /\ pass' = [pass EXCEPT ![c] = @ + 1]
  /\ searches' = [searches EXCEPT ![c] = 0]
  /\ pc' = [pc EXCEPT ![c] = IF pass[c] = 0 THEN <<"execute", 3>> ELSE <<"destroy", 1>>]
  /\ UNCHANGED <<record, loop, plan, fplast, inFFTW, met, faults, crashed>>

\* What went wrong is undefined behaviour: the process may die of it, or not.
Crash ==
  /\ ~crashed /\ faults # {} /\ crashed' = TRUE
  /\ UNCHANGED <<record, pc, thread, plan, fplast, inFFTW, met, faults>>

Recorded(c) == Read(c) \/ Enter(c)
Native(c) ==
  \/ CallFFTW(c) \/ Planned(c) \/ Execute(c) \/ Destroyed(c)
  \/ Demodulate(c) \/ Fill(c) \/ Filled(c) \/ Keep(c) \/ EndPass(c)

Next == (\E c \in Calls : Recorded(c) \/ Native(c)) \/ Crash

Spec == Init /\ [][Next]_vars

-----------------------------------------------------------------------------
(* Properties.                                                             *)

\* Every variable keeps its type.
TypeOK ==
  /\ total \in Nat /\ size \in [Calls -> Nat]
  /\ pc \in [Calls -> ({"plan", "execute", "destroy"} \X (1..3))
                        \cup ({"out", "pass", "symbol", "fill", "done"} \X {0})]
  /\ pass \in [Calls -> 0..2] /\ searches \in [Calls -> 0..MaxSearches]
  /\ loop \in [Calls -> {NoLoop} \cup [fn : Functions, track : Tracks,
                                       i : 0..(Symbols - 1), tables : Nat]]
  /\ plan \in [1..3 -> Calls \cup {Freed}] /\ fplast \in [Functions -> Nat]
  /\ inFFTW \subseteq Calls /\ met \in BOOLEAN /\ crashed \in BOOLEAN
  /\ faults \subseteq {"reentered", "leaked", "foreign plan", "stale tables"}

\* The copy of a recording holds all of it, and no sample that is read from the
\* copy was left uninitialised.
RecordingFits ==
  \A c \in Calls : Inside(c) => size[c] >= Limit /\ size[c] <= Capacity

\* As long as each decode ends before the next one starts, the planner has one
\* caller, every plan that is executed or destroyed is the caller's own, none is
\* lost, and between two decodes there is none.
PlansOwnUnlessMet ==
  ~met => /\ faults \cap {"reentered", "leaked", "foreign plan"} = {}
          /\ (\A c \in Calls : ~Inside(c)) => \A k \in 1..3 : plan[k] = Freed

\* As long as decodes do not meet, every symbol is correlated with the tones of
\* its own frequency, though fplast outlives the tables it speaks of.
TablesOwnUnlessMet == ~met => "stale tables" \notin faults

=============================================================================
