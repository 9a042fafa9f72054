-------------------------------- MODULE Fano --------------------------------
(***************************************************************************)
(* The sequential decoder of fano.c: a depth-first search through the tree *)
(* of all messages, along branches whose accumulated metric stays above a  *)
(* threshold that is raised on the way forward and lowered by delta where  *)
(* the search is stuck.                                                    *)
(*                                                                         *)
(* The encoder is that of encode(): a message of NBits bits, the last      *)
(* TailBits of them zero, gives two symbols for each bit, the parities of  *)
(* two sets of earlier bits.  A behaviour starts with a reception: the     *)
(* symbols of a message, some of them changed.                             *)
(*                                                                         *)
(* The memory for the nodes is taken to be there.  (Where malloc fails,    *)
(* fano() returns 0 like a search that found a message, the data as they   *)
(* were before: left out.)                                                 *)
(***************************************************************************)
EXTENDS Integers, Sequences, FiniteSets

CONSTANTS
  NBits,      \* nbits, 81 in the driver
  TailBits,   \* 31
  ByteBits,   \* 8
  Poly1, Poly2,   \* the two polynomials: which earlier bits count, 0 is this one
  Received,   \* values of a received symbol
  MetTab,     \* mettab: metric of a sent bit, given a received symbol
  Delta,      \* threshold step
  MaxCycles,  \* cycles per bit
  Junk,       \* what was never initialised
  Noise(_)    \* what may be received for a sequence of symbols

ASSUME SizesAssumption ==
  /\ NBits \in Nat /\ TailBits \in Nat /\ 0 < TailBits /\ TailBits < NBits
  /\ ByteBits \in Nat \ {0} /\ Delta \in Nat \ {0} /\ MaxCycles \in Nat
ASSUME MetricsAssumption == MetTab \in [0..1 -> [Received -> Int]] /\ Junk \notin Int
\* "we assume that both polynomials are odd"
ASSUME PolynomialsAssumption ==
  0 \in Poly1 /\ 0 \in Poly2 /\ Poly1 \cup Poly2 \subseteq Nat

VARIABLES
  message,    \* history: the bits that were sent
  symbols,    \* what was received
  pc,         \* "forward", "backward" or "done"
  np,         \* current node
  t,          \* threshold
  gamma,      \* of each node: metric of the path to it
  encstate,   \* the bits up to its branch
  tm,         \* sorted metrics of its branches
  i,          \* the branch that is tried, 0 or 1
  cycle       \* the loop counter

search == <<pc, np, t, gamma, encstate, tm, i, cycle>>
vars   == <<message, symbols, search>>

TailStart  == NBits - TailBits
Nodes == 0..NBits
Bit   == 0..1

-----------------------------------------------------------------------------
(* The code.                                                               *)

Parity(poly, bits) ==
  Cardinality({j \in poly : j < Len(bits) /\ bits[Len(bits) - j] = 1}) % 2

\* ENCODE: both symbols of the last of the bits.
Encode(bits) == <<Parity(Poly1, bits), Parity(Poly2, bits)>>

Messages == {m \in [1..NBits -> Bit] : \A k \in (TailStart + 1)..NBits : m[k] = 0}
Sent(m) ==
  [s \in 1..(2 * NBits) |->
     Encode(SubSeq(m, 1, (s + 1) \div 2))[IF s % 2 = 1 THEN 1 ELSE 2]]

\* The metric of sending a pair of symbols at node k.
BranchMetric(k, pair) ==
  MetTab[pair[1]][symbols[2 * k + 1]] + MetTab[pair[2]][symbols[2 * k + 2]]

Complement(pair) == <<1 - pair[1], 1 - pair[2]>>
M0(k, bits) == BranchMetric(k, Encode(Append(bits, 0)))
M1(k, bits) == BranchMetric(k, Complement(Encode(Append(bits, 0))))

ASSUME NoiseAssumption ==
  \A m \in Messages : Noise(Sent(m)) \subseteq [1..(2 * NBits) -> Received]

-----------------------------------------------------------------------------
(* The search.                                                             *)

\* Seeded fault: the worse branch is tried first.
SortedWorse(k, bits) ==
  IF M0(k, bits) < M1(k, bits)
    THEN [bits |-> Append(bits, 0), tm |-> <<M0(k, bits), M1(k, bits)>>]
    ELSE [bits |-> Append(bits, 1), tm |-> <<M1(k, bits), M0(k, bits)>>]

\* A node of the message proper tries its better branch first, the second
\* one if they are equal.
Sorted(k, bits) ==
  IF M0(k, bits) > M1(k, bits)
    THEN [bits |-> Append(bits, 0), tm |-> <<M0(k, bits), M1(k, bits)>>]
    ELSE [bits |-> Append(bits, 1), tm |-> <<M1(k, bits), M0(k, bits)>>]

\* In the tail the branch is that of a zero, the other metric stays unwritten.
Zero(k, bits, old) ==
  [bits |-> Append(bits, 0), tm |-> <<M0(k, bits), old[2]>>]

Init ==
  /\ message \in Messages
  /\ symbols \in Noise(Sent(message))
  /\ pc = "forward" /\ np = 0 /\ t = 0 /\ cycle = 1
  /\ gamma = [k \in Nodes |-> 0]
  /\ encstate = [k \in Nodes |-> IF k = 0 THEN Sorted(0, <<>>).bits ELSE <<>>]
  /\ tm = [k \in Nodes |-> IF k = 0 THEN Sorted(0, <<>>).tm ELSE <<Junk, Junk>>]
  /\ i = [k \in Nodes |-> 0]

NGamma == gamma[np] + tm[np][i[np] + 1]

\* Seeded fault: the loop runs while the metric is above the threshold.
TightenedOver == t + Delta * ((NGamma - t + Delta - 1) \div Delta)

\* The loop that adds delta while the metric is at least that much above.
Tightened == t + Delta * ((NGamma - t) \div Delta)

\* Seeded fault: the first node of the tail counts as part of the message.
EnterLateTail(k, bits) ==
  LET node == IF k > TailStart THEN Zero(k, bits, tm[k]) ELSE Sorted(k, bits) IN
  /\ encstate' = [encstate EXCEPT ![k] = node.bits]
  /\ tm' = [tm EXCEPT ![k] = node.tm]
  /\ i' = [i EXCEPT ![k] = 0]

\* The branch metrics of a node that is entered, its better branch is tried.
Enter(k, bits) ==
  LET node == IF k >= TailStart THEN Zero(k, bits, tm[k]) ELSE Sorted(k, bits) IN
  /\ encstate' = [encstate EXCEPT ![k] = node.bits]
  /\ tm' = [tm EXCEPT ![k] = node.tm]
  /\ i' = [i EXCEPT ![k] = 0]

InTime == cycle <= MaxCycles * NBits
Same   == UNCHANGED <<message, symbols>>

Forward ==
  /\ pc = "forward" /\ InTime /\ NGamma >= t
  /\ t' = IF gamma[np] < t + Delta THEN Tightened ELSE t
  /\ gamma' = [gamma EXCEPT ![np + 1] = NGamma]
  /\ np' = np + 1
  /\ IF np + 1 = NBits
       THEN pc' = "done" /\ UNCHANGED <<encstate, tm, i, cycle>>
       ELSE /\ Enter(np + 1, encstate[np])
            /\ cycle' = cycle + 1 /\ UNCHANGED pc
  /\ Same

Violated ==
  /\ pc = "forward" /\ InTime /\ NGamma < t /\ pc' = "backward"
  /\ UNCHANGED <<np, t, gamma, encstate, tm, i, cycle>> /\ Same

Flip(bits) == [bits EXCEPT ![Len(bits)] = 1 - @]

\* Seeded fault: a node at the threshold counts as below it.
CanBackUpStrict == np # 0 /\ gamma[np - 1] > t

\* The loop backwards finds a node on or above the threshold.
CanBackUp == np # 0 /\ gamma[np - 1] >= t

\* Seeded fault: the better branch is tried again with the bit of the other one.
RelaxKeepBit ==
  /\ pc = "backward" /\ ~CanBackUp
  /\ t' = t - Delta
  /\ i' = [i EXCEPT ![np] = 0]
  /\ pc' = "forward" /\ cycle' = cycle + 1
  /\ UNCHANGED <<np, gamma, encstate, tm>> /\ Same

\* It cannot back up either: relax, look forward to the better branch.
Relax ==
  /\ pc = "backward" /\ ~CanBackUp
  /\ t' = t - Delta
  /\ IF i[np] # 0
       THEN /\ i' = [i EXCEPT ![np] = 0]
            /\ encstate' = [encstate EXCEPT ![np] = Flip(@)]
       ELSE UNCHANGED <<i, encstate>>
  /\ pc' = "forward" /\ cycle' = cycle + 1
  /\ UNCHANGED <<np, gamma, tm>> /\ Same

\* Seeded fault: a second branch is tried in the tail too.
BackUpInTail ==
  /\ pc = "backward" /\ CanBackUp
  /\ np' = np - 1
  /\ IF i[np - 1] # 1
       THEN /\ i' = [i EXCEPT ![np - 1] = 1]
            /\ encstate' = [encstate EXCEPT ![np - 1] = Flip(@)]
            /\ pc' = "forward" /\ cycle' = cycle + 1
       ELSE UNCHANGED <<i, encstate, pc, cycle>>
  /\ UNCHANGED <<t, gamma, tm>> /\ Same

\* Back up; a node with a branch left tries that one.
BackUp ==
  /\ pc = "backward" /\ CanBackUp
  /\ np' = np - 1
  /\ IF np - 1 < TailStart /\ i[np - 1] # 1
       THEN /\ i' = [i EXCEPT ![np - 1] = 1]
            /\ encstate' = [encstate EXCEPT ![np - 1] = Flip(@)]
            /\ pc' = "forward" /\ cycle' = cycle + 1
       ELSE UNCHANGED <<i, encstate, pc, cycle>>
  /\ UNCHANGED <<t, gamma, tm>> /\ Same

Timeout ==
  /\ pc = "forward" /\ ~InTime /\ pc' = "done"
  /\ UNCHANGED <<np, t, gamma, encstate, tm, i, cycle>> /\ Same

Next == Forward \/ Violated \/ Relax \/ BackUp \/ Timeout

Spec == Init /\ [][Next]_vars

\* The function returns 0: it left the loop before the last cycle.
Succeeded == pc = "done" /\ cycle < MaxCycles * NBits

\* data: a byte is the end of the encoder state of every ByteBits-th node.
Byte(b) ==
  LET bits == encstate[ByteBits * b - 1] IN
  SubSeq(bits, Len(bits) - ByteBits + 1, Len(bits))

-----------------------------------------------------------------------------
(* Properties.                                                             *)

Path == 0..(IF np < NBits THEN np ELSE NBits - 1)

\* Every variable keeps its type; in particular the branch that is tried has a
\* metric, although the second one of a node in the tail is never written.
TypeOK ==
  /\ message \in Messages /\ symbols \in [1..(2 * NBits) -> Received]
  /\ pc \in {"forward", "backward", "done"} /\ np \in Nodes /\ t \in Int
  /\ gamma \in [Nodes -> Int] /\ i \in [Nodes -> 0..1]
  /\ \A k \in Path : tm[k][i[k] + 1] \in Int
  /\ cycle \in 1..(MaxCycles * NBits + 1)

\* The nodes up to the current one hold one and the same message, its metric,
\* and zeros in the tail, however the search went back and forth.
HypothesisConsistent ==
  /\ \A k \in Path :
       /\ Len(encstate[k]) = k + 1
       /\ k >= TailStart => encstate[k][k + 1] = 0
       /\ tm[k][i[k] + 1] = BranchMetric(k, Encode(encstate[k]))
       /\ k > 0 => encstate[k - 1] = SubSeq(encstate[k], 1, k)
  /\ \A k \in 1..np : gamma[k] = gamma[k - 1] + tm[k - 1][i[k - 1] + 1]

\* The current node is never below the threshold.
AboveThreshold == gamma[np] >= t /\ t % Delta = 0

\* The metric of a message at each node.
MetricTo(m) ==
  LET to[k \in Nodes] ==
        IF k = 0 THEN 0
        ELSE to[k - 1] + BranchMetric(k - 1, Encode(SubSeq(m, 1, k)))
  IN  to
Under(m, limit) == \E k \in Nodes : MetricTo(m)[k] < limit

\* The threshold never falls below the step under the lowest point of any
\* message: whenever it is relaxed, everything above it has been searched.
NeverBelowAnyMessage == \A m \in Messages : Under(m, t + Delta)

Returns(m) ==
  \A b \in 1..(NBits \div ByteBits) :
    Byte(b) = SubSeq(m, ByteBits * (b - 1) + 1, ByteBits * b)

\* A success returns the bytes of a message and the metric of that message.
SuccessIsMessage ==
  Succeeded =>
    \E m \in Messages : gamma[NBits] = MetricTo(m)[NBits] /\ Returns(m)

Changed == Cardinality({s \in 1..(2 * NBits) : symbols[s] # Sent(message)[s]})

\* One changed symbol is no reason for a timeout or for another message.
OneErrorInTime == (pc = "done" /\ Changed <= 1) => Succeeded /\ Returns(message)

=============================================================================
