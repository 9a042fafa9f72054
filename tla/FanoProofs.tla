----------------------------- MODULE FanoProofs -----------------------------
(***************************************************************************)
(* The search of Fano stays well-typed and above its threshold, its nodes  *)
(* hold one message, the threshold never falls below what a message needs  *)
(* and a success returns a message, for every code, metric table and step. *)
(***************************************************************************)
EXTENDS Fano, FiniteSetTheorems, WellFoundedInduction, TLAPS

Bits   == Seq(Bit) \ {<<>>}
Metric == Int \cup {Junk}

\* Of the nodes on the path: in the message proper both branches have a
\* metric, in the tail the first one, and no other is tried.
NodeOK(k) ==
  /\ encstate[k] # <<>>
  /\ tm[k][1] \in Int
  /\ k < TailStart => tm[k][2] \in Int
  /\ k >= TailStart => i[k] = 0

Typed ==
  /\ message \in Messages /\ symbols \in [1..(2 * NBits) -> Received]
  /\ pc \in {"forward", "backward", "done"} /\ np \in Nodes /\ t \in Int
  /\ gamma \in [Nodes -> Int] /\ i \in [Nodes -> 0..1]
  /\ encstate \in [Nodes -> Seq(Bit)] /\ tm \in [Nodes -> Metric \X Metric]
  /\ \A k \in Path : NodeOK(k)
  /\ cycle \in 1..(MaxCycles * NBits + 1)
  /\ pc # "done" => np < NBits
  /\ pc = "backward" => InTime

-----------------------------------------------------------------------------
(* Metrics.                                                                *)

LEMMA ParityIsBit ==
  ASSUME NEW poly, NEW bits \in Seq(Bit), poly \subseteq Nat
  PROVE  Parity(poly, bits) \in Bit
<1> DEFINE ones == {j \in poly : j < Len(bits) /\ bits[Len(bits) - j] = 1}
<1>1. Len(bits) \in Nat
  OBVIOUS
<1>2. \A j \in ones : j \in Nat /\ j < Len(bits)
  OBVIOUS
<1> HIDE DEF ones
<1>3. IsFiniteSet(ones)
  <2> DEFINE n == Len(bits)
  <2>1. n \in Int
    BY <1>1
  <2>2. \A j \in ones : j \in Nat /\ j < n
    BY <1>2
  <2> HIDE DEF n
  <2>3. ones \subseteq 0..n
    BY <2>1, <2>2
  <2>4. IsFiniteSet(0..n)
    BY <2>1, FS_Interval
  <2> QED
    BY <2>3, <2>4, FS_Subset
<1>4. Cardinality(ones) \in Nat
  BY <1>3, FS_CardinalityType
<1>5. Parity(poly, bits) = Cardinality(ones) % 2
  BY DEF Parity, ones
<1> QED
  BY <1>4, <1>5 DEF Bit

LEMMA EncodeIsPair ==
  ASSUME NEW bits \in Seq(Bit)
  PROVE  Encode(bits) \in Bit \X Bit
BY ParityIsBit, PolynomialsAssumption DEF Encode

LEMMA MetricIsInteger ==
  ASSUME symbols \in [1..(2 * NBits) -> Received],
         NEW k \in 0..(NBits - 1), NEW pair \in Bit \X Bit
  PROVE  BranchMetric(k, pair) \in Int
<1>1. 2 * k + 1 \in 1..(2 * NBits) /\ 2 * k + 2 \in 1..(2 * NBits)
  BY SizesAssumption
<1>2. symbols[2 * k + 1] \in Received /\ symbols[2 * k + 2] \in Received
  BY <1>1
<1>3. pair[1] \in 0..1 /\ pair[2] \in 0..1
  BY DEF Bit
<1>4. /\ MetTab[pair[1]][symbols[2 * k + 1]] \in Int
      /\ MetTab[pair[2]][symbols[2 * k + 2]] \in Int
  BY <1>2, <1>3, MetricsAssumption
<1> QED
  BY <1>4 DEF BranchMetric

LEMMA BothMetrics ==
  ASSUME symbols \in [1..(2 * NBits) -> Received],
         NEW k \in 0..(NBits - 1), NEW bits \in Seq(Bit)
  PROVE  M0(k, bits) \in Int /\ M1(k, bits) \in Int
<1>1. Append(bits, 0) \in Seq(Bit)
  BY DEF Bit
<1>2. Encode(Append(bits, 0)) \in Bit \X Bit
  BY <1>1, EncodeIsPair
<1>3. Complement(Encode(Append(bits, 0))) \in Bit \X Bit
  BY <1>2 DEF Complement, Bit
<1> QED
  BY <1>2, <1>3, MetricIsInteger DEF M0, M1

LEMMA SortedNode ==
  ASSUME symbols \in [1..(2 * NBits) -> Received],
         NEW k \in 0..(NBits - 1), NEW bits \in Seq(Bit)
  PROVE  /\ Sorted(k, bits).bits \in Bits
         /\ Sorted(k, bits).tm \in Int \X Int
         /\ Sorted(k, bits).tm \in Metric \X Metric
<1>1. M0(k, bits) \in Int /\ M1(k, bits) \in Int
  BY BothMetrics
<1>2. ASSUME NEW b \in Bit
      PROVE  Append(bits, b) \in Bits
  <2>1. Append(bits, b) \in Seq(Bit) /\ Len(Append(bits, b)) = Len(bits) + 1
    OBVIOUS
  <2>2. Len(bits) \in Nat
    OBVIOUS
  <2>3. Append(bits, b) # <<>>
    BY <2>1, <2>2
  <2> QED
    BY <2>1, <2>3 DEF Bits
<1>3. 0 \in Bit /\ 1 \in Bit
  BY DEF Bit
<1> QED
  BY <1>1, <1>2, <1>3 DEF Sorted, Metric

\* Division rounds down.
LEMMA Division ==
  ASSUME NEW d \in Nat \ {0}, NEW x \in Int
  PROVE  x \div d \in Int /\ d * (x \div d) <= x /\ x < d * (x \div d) + d
OBVIOUS

LEMMA MultipleHasNoRest ==
  ASSUME NEW d \in Nat \ {0}, NEW k \in Int
  PROVE  (d * k) % d = 0
<1> DEFINE rest == (d * k) % d
           part == (d * k) \div d
<1>1. d * k \in Int
  OBVIOUS
<1>2. d * k = d * part + rest /\ rest \in 0..(d - 1) /\ part \in Int
  BY <1>1
<1>3. rest = d * (k - part)
  BY <1>2
<1>4. k - part < 1
  BY <1>2, <1>3
<1>5. k - part > -1
  BY <1>2, <1>3
<1> QED
  BY <1>2, <1>3, <1>4, <1>5

LEMMA StepKeepsMultiple ==
  ASSUME NEW d \in Nat \ {0}, NEW x \in Int, NEW q \in Int, x % d = 0
  PROVE  (x + d * q) % d = 0
<1>1. PICK k \in Int : x = d * k
  <2> WITNESS x \div d \in Int
  <2> QED
    OBVIOUS
<1>2. x + d * q = d * (k + q)
  BY <1>1
<1> QED
  BY <1>2, MultipleHasNoRest

-----------------------------------------------------------------------------
(* The steps.                                                              *)

LEMMA Limits ==
  /\ NBits \in Nat /\ TailStart \in 1..(NBits - 1)
  /\ MaxCycles * NBits \in Nat /\ Delta \in Nat \ {0}
<1>1. NBits \in Nat /\ MaxCycles \in Nat
  BY SizesAssumption
<1>2. MaxCycles * NBits \in Nat
  BY <1>1
<1> QED
  BY <1>2, SizesAssumption DEF TailStart

LEMMA BranchMetricKnown ==
  ASSUME Typed, NEW k \in Path
  PROVE  tm[k][i[k] + 1] \in Int
<1>1. NodeOK(k) /\ k \in Nodes
  BY Limits DEF Typed, Path, Nodes
<1>2. i[k] = 0 \/ i[k] = 1
  BY <1>1 DEF Typed
<1>3. CASE i[k] = 0
  BY <1>1, <1>3 DEF NodeOK
<1>4. CASE i[k] = 1
  BY <1>1, <1>4, Limits DEF NodeOK, Path, Nodes, Typed
<1> QED
  BY <1>2, <1>3, <1>4

LEMMA InitTyped == Init => Typed /\ AboveThreshold
<1> SUFFICES ASSUME Init PROVE Typed /\ AboveThreshold
  OBVIOUS
<1> USE Limits
<1>1. message \in Messages /\ symbols \in [1..(2 * NBits) -> Received]
  BY NoiseAssumption DEF Init
<1>2. <<>> \in Seq(Bit) /\ 0 \in 0..(NBits - 1)
  OBVIOUS
<1>3. Sorted(0, <<>>).bits \in Bits /\ Sorted(0, <<>>).tm \in Int \X Int
  BY <1>1, <1>2, SortedNode
<1>4. Path = {0} /\ 0 \in Nodes
  BY DEF Init, Path, Nodes
<1>5. encstate[0] = Sorted(0, <<>>).bits /\ tm[0] = Sorted(0, <<>>).tm
  BY <1>4 DEF Init
<1>6. NodeOK(0)
  BY <1>3, <1>5 DEF NodeOK, Bits, Init
<1>7. encstate \in [Nodes -> Seq(Bit)] /\ tm \in [Nodes -> Metric \X Metric]
  <2>1. Sorted(0, <<>>).tm \in Metric \X Metric /\ Sorted(0, <<>>).bits \in Seq(Bit)
    BY <1>1, <1>2, SortedNode DEF Bits
  <2>2. <<Junk, Junk>> \in Metric \X Metric
    BY DEF Metric
  <2> QED
    BY <1>2, <2>1, <2>2 DEF Init
<1>9. Typed
  <2>1. cycle \in 1..(MaxCycles * NBits + 1)
    BY DEF Init
  <2>2. gamma \in [Nodes -> Int] /\ i \in [Nodes -> 0..1] /\ np < NBits
    BY DEF Init
  <2>3. \A k \in Path : NodeOK(k)
    BY <1>4, <1>6
  <2> QED
    BY <1>1, <1>4, <1>7, <2>1, <2>2, <2>3 DEF Init, Typed
<1>8. AboveThreshold
  BY <1>4 DEF Init, AboveThreshold
<1> QED
  BY <1>8, <1>9

LEMMA ForwardStep ==
  ASSUME Typed, AboveThreshold, Forward
  PROVE  Typed' /\ AboveThreshold'
<1> USE Limits
<1>1. np \in 0..(NBits - 1) /\ np \in Path /\ Path = 0..np
  BY DEF Typed, Forward, Nodes, Path
<1>2. NGamma \in Int
  <2>1. tm[np][i[np] + 1] \in Int
    BY <1>1, BranchMetricKnown
  <2>2. gamma[np] \in Int
    BY DEF Typed
  <2> QED
    BY <2>1, <2>2 DEF NGamma
<1>3. Tightened \in Int /\ Tightened <= NGamma /\ Tightened % Delta = 0
  <2> DEFINE x == NGamma - t
             q == x \div Delta
  <2>1. t \in Int /\ t % Delta = 0 /\ x \in Int
    BY <1>2 DEF Typed, AboveThreshold
  <2>2. q \in Int /\ Delta * q <= x
    BY <2>1, Division
  <2>3. (t + Delta * q) % Delta = 0
    BY <2>1, <2>2, StepKeepsMultiple
  <2>4. Tightened = t + Delta * q
    BY DEF Tightened
  <2>5. Delta * q \in Int
    BY <2>2
  <2> HIDE DEF q
  <2> QED
    BY <1>2, <2>1, <2>2, <2>3, <2>4, <2>5
<1>4. t' \in Int /\ t' <= NGamma /\ t' % Delta = 0
  BY <1>2, <1>3 DEF Forward, Typed, AboveThreshold
<1>5. /\ np' = np + 1 /\ np' \in Nodes
      /\ gamma' \in [Nodes -> Int] /\ gamma'[np'] = NGamma
  BY <1>1, <1>2 DEF Forward, Typed, Nodes
<1>6. AboveThreshold'
  BY <1>4, <1>5 DEF AboveThreshold
<1>7. message' = message /\ symbols' = symbols
  BY DEF Forward, Same
<1>8. CASE np + 1 = NBits
  <2>1. UNCHANGED <<encstate, tm, i, cycle>> /\ pc' = "done"
    BY <1>8 DEF Forward
  <2>2. Path' = Path
    BY <1>1, <1>5, <1>8 DEF Path
  <2>3. \A k \in Path' : NodeOK(k)'
    BY <2>1, <2>2 DEF NodeOK, Typed
  <2> QED
    BY <1>4, <1>5, <1>6, <1>7, <2>1, <2>3 DEF Typed
<1>9. CASE np + 1 # NBits
  <2>0. PICK k \in 0..(NBits - 1) : k = np + 1
    BY <1>1, <1>9
  <2> DEFINE node == IF k >= TailStart THEN Zero(k, encstate[np], tm[k])
                     ELSE Sorted(k, encstate[np])
  <2>1. /\ encstate' = [encstate EXCEPT ![k] = node.bits]
        /\ tm' = [tm EXCEPT ![k] = node.tm]
        /\ i' = [i EXCEPT ![k] = 0]
        /\ cycle' = cycle + 1 /\ pc' = pc
    BY <1>9, <2>0 DEF Forward, Enter
  <2>2. k \in 0..(NBits - 1) /\ k \in Nodes
    BY DEF Nodes
  <2>3. encstate[np] \in Seq(Bit)
    BY <1>1 DEF Typed
  <2>4. /\ node.bits \in Bits /\ node.tm \in Metric \X Metric /\ node.tm[1] \in Int
        /\ k < TailStart => node.tm[2] \in Int
    <3>1. CASE k >= TailStart
      <4>1. node = Zero(k, encstate[np], tm[k])
        BY <3>1
      <4>2. M0(k, encstate[np]) \in Int
        BY <2>2, <2>3, BothMetrics DEF Typed
      <4>3. Append(encstate[np], 0) \in Bits
        <5>1. 0 \in Bit
          BY DEF Bit
        <5>2. /\ Append(encstate[np], 0) \in Seq(Bit)
              /\ Len(Append(encstate[np], 0)) = Len(encstate[np]) + 1
              /\ Len(encstate[np]) \in Nat
          BY <2>3, <5>1
        <5>3. Append(encstate[np], 0) # <<>>
          BY <5>2
        <5> QED
          BY <5>2, <5>3 DEF Bits
      <4>4. ~(k < TailStart)
        BY <3>1, <2>2
      <4>5. tm[k][2] \in Metric
        BY <2>2 DEF Typed
      <4>6. /\ Zero(k, encstate[np], tm[k]).bits = Append(encstate[np], 0)
            /\ Zero(k, encstate[np], tm[k]).tm = <<M0(k, encstate[np]), tm[k][2]>>
        BY DEF Zero
      <4>7. M0(k, encstate[np]) \in Metric
        BY <4>2 DEF Metric
      <4> HIDE DEF node
      <4>8. node.bits \in Bits
        BY <4>1, <4>3, <4>6
      <4>9. node.tm = <<M0(k, encstate[np]), tm[k][2]>>
        BY <4>1, <4>6
      <4> QED
        BY <4>2, <4>4, <4>5, <4>7, <4>8, <4>9
    <3>2. CASE ~(k >= TailStart)
      <4>1. node = Sorted(k, encstate[np])
        BY <3>2
      <4>2. node.bits \in Bits /\ node.tm \in Int \X Int /\ node.tm \in Metric \X Metric
        BY <2>2, <2>3, <4>1, SortedNode DEF Typed
      <4> QED
        BY <4>2
    <3> QED
      BY <3>1, <3>2
  <2> HIDE DEF node
  <2>5. encstate'[k] = node.bits /\ tm'[k] = node.tm /\ i'[k] = 0
    BY <2>1, <2>2 DEF Typed
  <2>6. NodeOK(k)'
    BY <2>4, <2>5 DEF NodeOK, TailStart, Bits
  <2>7. ASSUME NEW j \in Path'
        PROVE  NodeOK(j)'
    <3>1. j = k \/ (j \in Path /\ j # k /\ j \in Nodes)
      BY <1>1, <1>5, <1>9, <2>0 DEF Path, Nodes
    <3>2. CASE j # k
      <4>1. NodeOK(j)
        BY <3>1, <3>2 DEF Typed
      <4>2. encstate'[j] = encstate[j] /\ tm'[j] = tm[j] /\ i'[j] = i[j]
        BY <2>1, <3>1, <3>2 DEF Typed
      <4> QED
        BY <4>1, <4>2 DEF NodeOK, TailStart
    <3> QED
      BY <2>6, <3>1, <3>2
  <2>8. /\ i' \in [Nodes -> 0..1] /\ encstate' \in [Nodes -> Seq(Bit)]
        /\ tm' \in [Nodes -> Metric \X Metric]
    BY <2>1, <2>2, <2>4 DEF Typed, Bits
  <2>9. cycle' \in 1..(MaxCycles * NBits + 1) /\ pc' = "forward" /\ np' < NBits
    BY <1>5, <2>1, <2>2, <2>0 DEF Forward, InTime, Typed
  <2> QED
    BY <1>4, <1>5, <1>6, <1>7, <2>7, <2>8, <2>9 DEF Typed
<1> QED
  BY <1>8, <1>9

LEMMA FlipKeepsBits ==
  ASSUME NEW bits \in Seq(Bit), bits # <<>>
  PROVE  Flip(bits) \in Seq(Bit) /\ Flip(bits) # <<>>
<1>1. Len(bits) \in Nat /\ Len(bits) # 0 /\ Len(bits) \in 1..Len(bits)
  OBVIOUS
<1>2. bits[Len(bits)] \in Bit
  BY <1>1
<1>3. 1 - bits[Len(bits)] \in Bit
  BY <1>2 DEF Bit
<1>4. Flip(bits) = [bits EXCEPT ![Len(bits)] = 1 - bits[Len(bits)]]
  BY DEF Flip
<1>5. Flip(bits) \in Seq(Bit) /\ Len(Flip(bits)) = Len(bits)
  BY <1>1, <1>3, <1>4
<1> QED
  BY <1>1, <1>5

\* One step further on the other branch of node k, or on the same one.
LEMMA TurnedNode ==
  ASSUME Typed, NEW k \in 0..(NBits - 1), NEW b \in 0..1,
         b = 0 \/ k < TailStart,
         \A j \in 0..k : NodeOK(j),
         encstate' = [encstate EXCEPT ![k] = Flip(encstate[k])],
         i' = [i EXCEPT ![k] = b], tm' = tm
  PROVE  /\ encstate' \in [Nodes -> Seq(Bit)] /\ i' \in [Nodes -> 0..1]
         /\ \A j \in 0..k : NodeOK(j)'
<1>1. k \in Nodes /\ 0..k \subseteq Nodes /\ k \in 0..k
  BY Limits DEF Nodes
<1>2. encstate[k] \in Seq(Bit) /\ encstate[k] # <<>>
  BY <1>1 DEF Typed, NodeOK
<1>3. Flip(encstate[k]) \in Seq(Bit) /\ Flip(encstate[k]) # <<>>
  BY <1>2, FlipKeepsBits
<1>4. encstate' = [encstate EXCEPT ![k] = Flip(encstate[k])]
  OBVIOUS
<1>5. encstate' \in [Nodes -> Seq(Bit)] /\ i' \in [Nodes -> 0..1]
  BY <1>1, <1>3, <1>4 DEF Typed
<1>6. ASSUME NEW j \in 0..k
      PROVE  NodeOK(j)'
  <2>1. NodeOK(j) /\ j \in Nodes
    BY <1>1
  <2>2. CASE j # k
    <3>1. encstate'[j] = encstate[j] /\ i'[j] = i[j]
      BY <1>1, <1>4, <2>1, <2>2 DEF Typed
    <3> QED
      BY <2>1, <3>1 DEF NodeOK, TailStart
  <2>3. CASE j = k
    <3>1. encstate'[k] = Flip(encstate[k]) /\ i'[k] = b
      BY <1>1, <1>4 DEF Typed
    <3>2. k >= TailStart => b = 0
      BY Limits
    <3> QED
      BY <1>3, <2>1, <2>3, <3>1, <3>2 DEF NodeOK, TailStart
  <2> QED
    BY <2>2, <2>3
<1> QED
  BY <1>5, <1>6

LEMMA ViolatedStep ==
  ASSUME Typed, AboveThreshold, Violated
  PROVE  Typed' /\ AboveThreshold'
<1>1. /\ UNCHANGED <<message, symbols, np, t, gamma, encstate, tm, i, cycle>>
      /\ pc = "forward" /\ pc' = "backward" /\ InTime
  BY DEF Violated, Same
<1>2. Path' = Path /\ InTime'
  BY <1>1 DEF Path, InTime
<1>3. \A k \in Path' : NodeOK(k)'
  BY <1>1, <1>2 DEF Typed, NodeOK
<1> QED
  BY <1>1, <1>2, <1>3 DEF Typed, AboveThreshold

LEMMA TimeoutStep ==
  ASSUME Typed, AboveThreshold, Timeout
  PROVE  Typed' /\ AboveThreshold'
<1>1. /\ UNCHANGED <<message, symbols, np, t, gamma, encstate, tm, i, cycle>>
      /\ pc' = "done"
  BY DEF Timeout, Same
<1>2. Path' = Path
  BY <1>1 DEF Path
<1>3. \A k \in Path' : NodeOK(k)'
  BY <1>1, <1>2 DEF Typed, NodeOK
<1> QED
  BY <1>1, <1>3 DEF Typed, AboveThreshold

LEMMA RelaxStep ==
  ASSUME Typed, AboveThreshold, Relax
  PROVE  Typed' /\ AboveThreshold'
<1> USE Limits
<1>1. /\ UNCHANGED <<message, symbols, np, gamma, tm>> /\ t' = t - Delta
      /\ pc = "backward" /\ pc' = "forward" /\ cycle' = cycle + 1
  BY DEF Relax, Same
<1>2. np \in 0..(NBits - 1) /\ Path = 0..np /\ Path' = 0..np
  BY <1>1 DEF Typed, Nodes, Path
<1>3. \A j \in 0..np : NodeOK(j)
  BY <1>2 DEF Typed
<1>4. /\ encstate' \in [Nodes -> Seq(Bit)] /\ i' \in [Nodes -> 0..1]
      /\ \A j \in 0..np : NodeOK(j)'
  <2>1. CASE i[np] # 0
    <3>1. PICK k \in 0..(NBits - 1) : k = np
      BY <1>2
    <3>2. /\ i' = [i EXCEPT ![k] = 0]
          /\ encstate' = [encstate EXCEPT ![k] = Flip(encstate[k])]
      BY <2>1, <3>1 DEF Relax
    <3>3. 0 \in 0..1 /\ (\A j \in 0..k : NodeOK(j)) /\ tm' = tm
      BY <1>1, <1>3, <3>1
    <3>4. /\ encstate' \in [Nodes -> Seq(Bit)] /\ i' \in [Nodes -> 0..1]
          /\ \A j \in 0..k : NodeOK(j)'
      BY <3>2, <3>3, TurnedNode
    <3> QED
      BY <3>1, <3>4
  <2>2. CASE i[np] = 0
    <3>1. i' = i /\ encstate' = encstate
      BY <2>2 DEF Relax
    <3> QED
      BY <1>1, <1>3, <3>1 DEF Typed, NodeOK, TailStart
  <2> QED
    BY <2>1, <2>2
<1>5. cycle' \in 1..(MaxCycles * NBits + 1)
  BY <1>1 DEF Typed, InTime
<1>6. t' \in Int /\ t' <= t
  BY <1>1 DEF Typed
<1>7. t' % Delta = 0
  <2> DEFINE q == -1
  <2>1. t \in Int /\ t % Delta = 0 /\ q \in Int
    BY DEF Typed, AboveThreshold
  <2>2. t' = t + Delta * q
    BY <1>1, <2>1
  <2> HIDE DEF q
  <2>3. (t + Delta * q) % Delta = 0
    BY <2>1, StepKeepsMultiple
  <2> QED
    BY <2>2, <2>3
<1>8. AboveThreshold'
  <2>1. gamma[np] \in Int /\ t \in Int /\ gamma[np] >= t
    BY DEF Typed, AboveThreshold
  <2> QED
    BY <1>1, <1>6, <1>7, <2>1 DEF AboveThreshold
<1>9. Typed'
  BY <1>1, <1>2, <1>4, <1>5, <1>6 DEF Typed
<1> QED
  BY <1>8, <1>9

LEMMA BackUpStep ==
  ASSUME Typed, AboveThreshold, BackUp
  PROVE  Typed' /\ AboveThreshold'
<1> USE Limits
<1>1. /\ UNCHANGED <<message, symbols, t, gamma, tm>> /\ np' = np - 1
      /\ pc = "backward" /\ np # 0 /\ gamma[np - 1] >= t
  BY DEF BackUp, CanBackUp, Same
<1>2. PICK k \in 0..(NBits - 1) : k = np - 1 /\ Path' = 0..k /\ 0..k \subseteq Path
  <2>1. np - 1 \in 0..(NBits - 1) /\ np < NBits /\ np \in Nat
    BY <1>1 DEF Typed, Nodes
  <2>2. Path = 0..np
    BY <2>1 DEF Path
  <2>3. Path' = 0..(np - 1)
    BY <1>1, <2>1 DEF Path
  <2>4. 0..(np - 1) \subseteq 0..np
    BY <2>1
  <2> QED
    BY <2>1, <2>2, <2>3, <2>4
<1>3. \A j \in 0..k : NodeOK(j)
  BY <1>2 DEF Typed
<1>4. k \in Nodes /\ np' = k /\ np' < NBits
  BY <1>1, <1>2 DEF Nodes
<1>5. AboveThreshold'
  BY <1>1, <1>2, <1>4 DEF AboveThreshold
<1>6. CASE k < TailStart /\ i[k] # 1
  <2>1. /\ i' = [i EXCEPT ![k] = 1]
        /\ encstate' = [encstate EXCEPT ![k] = Flip(encstate[k])]
        /\ pc' = "forward" /\ cycle' = cycle + 1
    BY <1>2, <1>6 DEF BackUp
  <2>2. /\ encstate' \in [Nodes -> Seq(Bit)] /\ i' \in [Nodes -> 0..1]
        /\ \A j \in 0..k : NodeOK(j)'
    <3>1. 1 \in 0..1 /\ tm' = tm
      BY <1>1
    <3> QED
      BY <1>3, <1>6, <2>1, <3>1, TurnedNode
  <2>3. cycle' \in 1..(MaxCycles * NBits + 1)
    BY <1>1, <2>1 DEF Typed, InTime
  <2> QED
    BY <1>1, <1>2, <1>4, <1>5, <2>1, <2>2, <2>3 DEF Typed
<1>7. CASE ~(k < TailStart /\ i[k] # 1)
  <2>1. UNCHANGED <<i, encstate, pc, cycle>>
    BY <1>2, <1>7 DEF BackUp
  <2>2. \A j \in 0..k : NodeOK(j)'
    BY <1>1, <1>3, <2>1 DEF NodeOK, TailStart
  <2>3. InTime'
    BY <1>1, <2>1 DEF Typed, InTime
  <2> QED
    BY <1>1, <1>2, <1>4, <1>5, <2>1, <2>2, <2>3 DEF Typed
<1> QED
  BY <1>6, <1>7

LEMMA SearchStep ==
  Typed /\ AboveThreshold /\ [Next]_vars => Typed' /\ AboveThreshold'
<1> SUFFICES ASSUME Typed, AboveThreshold, [Next]_vars
             PROVE  Typed' /\ AboveThreshold'
  OBVIOUS
<1>1. CASE UNCHANGED vars
  <2>1. UNCHANGED <<message, symbols, pc, np, t, gamma, encstate, tm, i, cycle>>
    BY <1>1 DEF vars, search
  <2>2. Path' = Path /\ InTime' = InTime
    BY <2>1 DEF Path, InTime
  <2>3. \A k \in Path' : NodeOK(k)'
    BY <2>1, <2>2 DEF Typed, NodeOK
  <2> QED
    BY <2>1, <2>2, <2>3 DEF Typed, AboveThreshold
<1> QED
  BY <1>1, ForwardStep, ViolatedStep, RelaxStep, BackUpStep, TimeoutStep DEF Next

\* At every moment the search of fano() is well-typed: the branch metric it
\* adds has been computed, in the message and in the tail, and the cycles are
\* within their limit.
THEOREM TypeCorrect == Spec => []TypeOK
<1>1. Typed => TypeOK
  <2> SUFFICES ASSUME Typed PROVE TypeOK
    OBVIOUS
  <2>1. \A k \in Path : tm[k][i[k] + 1] \in Int
    BY BranchMetricKnown
  <2> QED
    BY <2>1 DEF Typed, TypeOK
<1> QED
  BY <1>1, InitTyped, SearchStep, PTL DEF Spec

\* The node fano() stands on is never below the threshold, and the threshold
\* is a multiple of delta, whatever the metrics and the code are.
THEOREM StaysAboveThreshold == Spec => []AboveThreshold
BY InitTyped, SearchStep, PTL DEF Spec

-----------------------------------------------------------------------------
(* The hypothesis.  With a one as its last bit a message has the opposite  *)
(* symbols, since both polynomials are odd: fano() relies on this where it *)
(* computes the second metric and where it flips the last bit.             *)

LEMMA ParityFlips ==
  ASSUME NEW poly, poly \subseteq Nat, 0 \in poly, NEW bits \in Seq(Bit)
  PROVE  Parity(poly, Append(bits, 1)) = 1 - Parity(poly, Append(bits, 0))
<1> DEFINE ones(b) == {j \in poly : j < Len(Append(bits, b))
                                    /\ Append(bits, b)[Len(Append(bits, b)) - j] = 1}
           n == Len(bits)
<1>1. n \in Nat
  OBVIOUS
<1>2. ASSUME NEW b \in Bit
      PROVE  /\ Append(bits, b) \in Seq(Bit) /\ Len(Append(bits, b)) = n + 1
             /\ Append(bits, b)[n + 1] = b
             /\ \A m \in 1..n : Append(bits, b)[m] = bits[m]
  OBVIOUS
<1>3. 0 \in Bit /\ 1 \in Bit
  BY DEF Bit
<1> DEFINE low == {j \in poly : 0 < j /\ j < n + 1 /\ bits[n + 1 - j] = 1}
<1>4. ASSUME NEW b \in Bit, NEW j \in poly
      PROVE  j \in ones(b) <=> (j = 0 /\ b = 1) \/ j \in low
  <2>1. j \in Nat /\ Len(Append(bits, b)) = n + 1
    BY <1>2
  <2>2. CASE j = 0
    BY <1>1, <1>2, <2>1, <2>2
  <2>3. CASE j # 0 /\ j < n + 1
    <3>1. n + 1 - j \in 1..n
      BY <1>1, <2>1, <2>3
    <3>2. Append(bits, b)[n + 1 - j] = bits[n + 1 - j]
      BY <1>2, <3>1
    <3> QED
      BY <1>1, <2>1, <2>3, <3>2
  <2>4. CASE ~(j < n + 1)
    BY <1>1, <2>1, <2>4
  <2> QED
    BY <2>2, <2>3, <2>4
<1>5. 0 \notin low /\ low \subseteq poly /\ \A j \in low : j \in 0..n
  BY <1>1
<1>6. /\ ones(0) \subseteq poly /\ ones(1) \subseteq poly
      /\ Parity(poly, Append(bits, 0)) = Cardinality(ones(0)) % 2
      /\ Parity(poly, Append(bits, 1)) = Cardinality(ones(1)) % 2
  BY DEF Parity
<1>7. /\ \A j \in poly : j \in ones(0) <=> j \in low
      /\ \A j \in poly : j \in ones(1) <=> j = 0 \/ j \in low
  <2> HIDE DEF ones, low
  <2>1. ASSUME NEW j \in poly
        PROVE  /\ j \in ones(0) <=> j \in low
               /\ j \in ones(1) <=> j = 0 \/ j \in low
    BY <1>3, <1>4
  <2> QED
    BY <2>1
<1> HIDE DEF ones, low
<1>8. ones(0) = low
  BY <1>5, <1>6, <1>7
<1>9. ones(1) = low \cup {0}
  BY <1>5, <1>6, <1>7
<1>10. IsFiniteSet(low)
  <2>1. IsFiniteSet(0..n) /\ low \subseteq 0..n
    BY <1>1, <1>5, FS_Interval
  <2> QED
    BY <2>1, FS_Subset
<1>11. Cardinality(low) \in Nat /\ Cardinality(low \cup {0}) = Cardinality(low) + 1
  BY <1>5, <1>10, FS_CardinalityType, FS_AddElement
<1>12. ASSUME NEW c \in Nat
       PROVE  (c + 1) % 2 = 1 - (c % 2)
  OBVIOUS
<1>13. /\ Parity(poly, Append(bits, 0)) = Cardinality(low) % 2
       /\ Parity(poly, Append(bits, 1)) = (Cardinality(low) + 1) % 2
  BY <1>6, <1>8, <1>9, <1>11
<1> QED
  BY <1>11, <1>12, <1>13

LEMMA EncodeOther ==
  ASSUME NEW bits \in Seq(Bit)
  PROVE  Encode(Append(bits, 1)) = Complement(Encode(Append(bits, 0)))
BY ParityFlips, PolynomialsAssumption DEF Encode, Complement

LEMMA FlipLast ==
  ASSUME NEW bits \in Seq(Bit), NEW b \in Bit
  PROVE  Flip(Append(bits, b)) = Append(bits, 1 - b)
<1> DEFINE n == Len(bits)
           s == Append(bits, b)
           f == Append(bits, 1 - b)
<1>1. n \in Nat /\ 1 - b \in Bit
  BY DEF Bit
<1>2. /\ s \in Seq(Bit) /\ Len(s) = n + 1 /\ s[n + 1] = b
      /\ \A m \in 1..n : s[m] = bits[m]
  OBVIOUS
<1>3. /\ f \in Seq(Bit) /\ Len(f) = n + 1 /\ f[n + 1] = 1 - b
      /\ \A m \in 1..n : f[m] = bits[m]
  BY <1>1
<1>4. Flip(s) = [s EXCEPT ![n + 1] = 1 - b]
  BY <1>2 DEF Flip
<1> HIDE DEF s, f, n
<1>5. /\ Flip(s) \in Seq(Bit) /\ Len(Flip(s)) = n + 1 /\ Flip(s)[n + 1] = 1 - b
      /\ \A m \in 1..n : Flip(s)[m] = bits[m]
  BY <1>1, <1>2, <1>4
<1>6. ASSUME NEW m \in 1..(n + 1)
      PROVE  Flip(s)[m] = f[m]
  <2>1. m \in 1..n \/ m = n + 1
    BY <1>1
  <2> QED
    BY <1>3, <1>5, <2>1
<1>7. Flip(s) = f
  BY <1>3, <1>5, <1>6
<1> QED
  BY <1>7 DEF s, f

\* The bits of node k are those before it and the branch b.
Branch(k, before, b) ==
  /\ Len(before) = k /\ encstate[k] = Append(before, b)
  /\ k > 0 => before = encstate[k - 1]
  /\ k >= TailStart => b = 0
  /\ tm[k][i[k] + 1] = BranchMetric(k, Encode(Append(before, b)))
  /\ k < TailStart => tm[k][2 - i[k]] = BranchMetric(k, Encode(Append(before, 1 - b)))
Chosen(k) == \E before \in Seq(Bit), b \in Bit : Branch(k, before, b)
Summed == \A k \in 1..np : gamma[k] = gamma[k - 1] + tm[k - 1][i[k - 1] + 1]
Hypothesis == (\A k \in Path : Chosen(k)) /\ Summed

LEMMA SortedMetrics ==
  ASSUME NEW k \in 0..(NBits - 1), NEW bits \in Seq(Bit)
  PROVE  \E b \in Bit :
           /\ Sorted(k, bits).bits = Append(bits, b)
           /\ Sorted(k, bits).tm = <<BranchMetric(k, Encode(Append(bits, b))),
                                     BranchMetric(k, Encode(Append(bits, 1 - b)))>>
<1>1. /\ M0(k, bits) = BranchMetric(k, Encode(Append(bits, 0)))
      /\ M1(k, bits) = BranchMetric(k, Encode(Append(bits, 1)))
  BY EncodeOther DEF M0, M1
<1>2. CASE M0(k, bits) > M1(k, bits)
  <2>1. Sorted(k, bits) = [bits |-> Append(bits, 0), tm |-> <<M0(k, bits), M1(k, bits)>>]
    BY <1>2 DEF Sorted
  <2>2. 0 \in Bit /\ 1 - 0 = 1
    BY DEF Bit
  <2> QED
    BY <1>1, <2>1, <2>2
<1>3. CASE ~(M0(k, bits) > M1(k, bits))
  <2>1. Sorted(k, bits) = [bits |-> Append(bits, 1), tm |-> <<M1(k, bits), M0(k, bits)>>]
    BY <1>3 DEF Sorted
  <2>2. 1 \in Bit /\ 1 - 1 = 0
    BY DEF Bit
  <2> QED
    BY <1>1, <2>1, <2>2
<1> QED
  BY <1>2, <1>3

LEMMA HypothesisIsConsistent ==
  ASSUME Typed, Hypothesis
  PROVE  HypothesisConsistent
<1>1. ASSUME NEW k \in Path
      PROVE  /\ Len(encstate[k]) = k + 1
             /\ k >= TailStart => encstate[k][k + 1] = 0
             /\ tm[k][i[k] + 1] = BranchMetric(k, Encode(encstate[k]))
             /\ k > 0 => encstate[k - 1] = SubSeq(encstate[k], 1, k)
  <2>1. PICK before \in Seq(Bit), b \in Bit : Branch(k, before, b)
    BY DEF Hypothesis, Chosen
  <2>2. Len(before) = k /\ encstate[k] = Append(before, b) /\ k \in Nat
    BY <2>1 DEF Branch
  <2>3. SubSeq(Append(before, b), 1, Len(before)) = before
    <3> DEFINE s == Append(before, b)
               u == SubSeq(s, 1, Len(before))
    <3>1. /\ s \in Seq(Bit) /\ Len(s) = Len(before) + 1 /\ Len(before) \in Nat
          /\ \A m \in 1..Len(before) : s[m] = before[m]
      OBVIOUS
    <3> HIDE DEF s
    <3>2. /\ u \in Seq(Bit) /\ Len(u) = Len(before)
          /\ \A m \in 1..Len(before) : u[m] = s[m]
      BY <3>1
    <3> HIDE DEF u
    <3>3. u = before
      BY <3>1, <3>2
    <3> QED
      BY <3>3 DEF u, s
  <2>4. Len(Append(before, b)) = k + 1 /\ Append(before, b)[k + 1] = b
    BY <2>2
  <2> QED
    BY <2>1, <2>2, <2>3, <2>4 DEF Branch
<1> QED
  BY <1>1 DEF Hypothesis, Summed, HypothesisConsistent

LEMMA ChosenStays ==
  ASSUME symbols' = symbols, NEW k \in Nat, Chosen(k),
         encstate'[k] = encstate[k], tm'[k] = tm[k], i'[k] = i[k],
         k > 0 => encstate'[k - 1] = encstate[k - 1]
  PROVE  Chosen(k)'
<1>1. PICK before \in Seq(Bit), b \in Bit : Branch(k, before, b)
  BY DEF Chosen
<1>2. \A pair : BranchMetric(k, pair)' = BranchMetric(k, pair)
  BY DEF BranchMetric
<1>3. Branch(k, before, b)'
  BY <1>1, <1>2 DEF Branch, TailStart
<1> QED
  BY <1>3 DEF Chosen

LEMMA TurnedChosen ==
  ASSUME symbols' = symbols, tm' = tm, NEW k \in Nat, k < TailStart, Chosen(k),
         i[k] \in 0..1, i'[k] = 1 - i[k], encstate'[k] = Flip(encstate[k]),
         k > 0 => encstate'[k - 1] = encstate[k - 1]
  PROVE  Chosen(k)'
<1>1. PICK before \in Seq(Bit), b \in Bit : Branch(k, before, b)
  BY DEF Chosen
<1>2. \A pair : BranchMetric(k, pair)' = BranchMetric(k, pair)
  BY DEF BranchMetric
<1>3. encstate'[k] = Append(before, 1 - b)
  BY <1>1, FlipLast DEF Branch
<1>4. 1 - b \in Bit /\ 1 - (1 - b) = b
  BY DEF Bit
<1>5. tm'[k][i'[k] + 1] = tm[k][2 - i[k]] /\ tm'[k][2 - i'[k]] = tm[k][i[k] + 1]
  <2>1. i'[k] + 1 = 2 - i[k] /\ 2 - i'[k] = i[k] + 1
    OBVIOUS
  <2> QED
    BY <2>1
<1>6. ~(k >= TailStart)
  BY Limits
<1>7. Branch(k, before, 1 - b)'
  BY <1>1, <1>2, <1>3, <1>4, <1>5, <1>6 DEF Branch, TailStart
<1> QED
  BY <1>4, <1>7 DEF Chosen

\* What has been summed up does not depend on the current node.
LEMMA SummedStays ==
  ASSUME Typed, Summed, np' \in Nodes, np' <= np, gamma' = gamma, tm' = tm,
         \A j \in 0..(np' - 1) : i'[j] = i[j]
  PROVE  Summed'
<1>1. ASSUME NEW k \in 1..np'
      PROVE  gamma'[k] = gamma'[k - 1] + tm'[k - 1][i'[k - 1] + 1]
  <2>1. PICK n \in Nat, m \in Nat : n = np' /\ m = np
    BY Limits DEF Typed, Nodes
  <2>2. k \in 1..np /\ k - 1 \in 0..(np' - 1)
    <3>1. n <= m /\ k \in 1..n
      BY <2>1
    <3>2. k \in 1..m /\ k - 1 \in 0..(n - 1)
      BY <3>1
    <3> QED
      BY <2>1, <3>2
  <2> QED
    BY <2>2 DEF Summed
<1> QED
  BY <1>1 DEF Summed

LEMMA InitHypothesis == Init => Hypothesis
<1> SUFFICES ASSUME Init PROVE Hypothesis
  OBVIOUS
<1> USE Limits
<1>1. Path = {0} /\ 0 \in Nodes /\ 0 \in 0..(NBits - 1)
  BY DEF Init, Path, Nodes
<1>2. <<>> \in Seq(Bit) /\ Len(<<>>) = 0
  OBVIOUS
<1>3. /\ encstate[0] = Sorted(0, <<>>).bits /\ tm[0] = Sorted(0, <<>>).tm
      /\ i[0] = 0 /\ np = 0
  BY <1>1 DEF Init
<1>4. PICK b \in Bit :
        /\ Sorted(0, <<>>).bits = Append(<<>>, b)
        /\ Sorted(0, <<>>).tm = <<BranchMetric(0, Encode(Append(<<>>, b))),
                                  BranchMetric(0, Encode(Append(<<>>, 1 - b)))>>
  BY <1>1, <1>2, SortedMetrics
<1>5. ~(0 >= TailStart) /\ ~(0 > 0)
  OBVIOUS
<1>6. /\ tm[0][i[0] + 1] = BranchMetric(0, Encode(Append(<<>>, b)))
      /\ tm[0][2 - i[0]] = BranchMetric(0, Encode(Append(<<>>, 1 - b)))
  BY <1>3, <1>4
<1>7. Branch(0, <<>>, b)
  BY <1>2, <1>3, <1>4, <1>5, <1>6 DEF Branch
<1>8. Chosen(0)
  BY <1>2, <1>7 DEF Chosen
<1>9. Summed
  BY <1>3 DEF Summed
<1> QED
  BY <1>1, <1>8, <1>9 DEF Hypothesis

\* The node that is entered goes on from the one before.
LEMMA EnteredChosen ==
  ASSUME Typed, symbols' = symbols, NEW k \in 1..(NBits - 1),
         Len(encstate[k - 1]) = k, encstate'[k - 1] = encstate[k - 1],
         Enter(k, encstate[k - 1])
  PROVE  Chosen(k)'
<1> USE Limits
<1> DEFINE bits == encstate[k - 1]
           node == IF k >= TailStart THEN Zero(k, bits, tm[k]) ELSE Sorted(k, bits)
<1>1. k \in Nodes /\ k - 1 \in Nodes /\ bits \in Seq(Bit) /\ k \in 0..(NBits - 1)
  BY DEF Typed, Nodes
<1>2. /\ encstate' = [encstate EXCEPT ![k] = node.bits]
      /\ tm' = [tm EXCEPT ![k] = node.tm]
      /\ i' = [i EXCEPT ![k] = 0]
  BY DEF Enter
<1>3. encstate'[k] = node.bits /\ tm'[k] = node.tm /\ i'[k] = 0
  <2> HIDE DEF node
  <2> QED
    BY <1>1, <1>2 DEF Typed
<1>4. PICK b \in Bit :
        /\ k >= TailStart => b = 0
        /\ node.bits = Append(bits, b)
        /\ node.tm[1] = BranchMetric(k, Encode(Append(bits, b)))
        /\ k < TailStart => node.tm[2] = BranchMetric(k, Encode(Append(bits, 1 - b)))
  <2> HIDE DEF bits
  <2>1. CASE k >= TailStart
    <3>1. 0 \in Bit /\ ~(k < TailStart)
      BY <2>1 DEF Bit
    <3>2. /\ node.bits = Append(bits, 0)
          /\ node.tm[1] = BranchMetric(k, Encode(Append(bits, 0)))
      BY <2>1 DEF Zero, M0
    <3> HIDE DEF node
    <3> QED
      BY <3>1, <3>2
  <2>2. CASE ~(k >= TailStart)
    <3>1. node = Sorted(k, bits)
      BY <2>2
    <3> HIDE DEF node
    <3>2. PICK b \in Bit :
            /\ node.bits = Append(bits, b)
            /\ node.tm = <<BranchMetric(k, Encode(Append(bits, b))),
                           BranchMetric(k, Encode(Append(bits, 1 - b)))>>
      BY <1>1, <3>1, SortedMetrics
    <3>3. /\ node.tm[1] = BranchMetric(k, Encode(Append(bits, b)))
          /\ node.tm[2] = BranchMetric(k, Encode(Append(bits, 1 - b)))
      BY <3>2
    <3> QED
      BY <2>2, <3>2, <3>3
  <2> QED
    BY <2>1, <2>2
<1> HIDE DEF node
<1>5. \A pair : BranchMetric(k, pair)' = BranchMetric(k, pair)
  BY DEF BranchMetric
<1>6. i'[k] + 1 = 1 /\ 2 - i'[k] = 2 /\ Len(bits) = k /\ bits = encstate'[k - 1]
  BY <1>3
<1> HIDE DEF bits
<1>7. PICK before \in Seq(Bit) : before = bits
  BY <1>1
<1>8. Branch(k, before, b)'
  BY <1>3, <1>4, <1>5, <1>6, <1>7 DEF Branch, TailStart
<1> QED
  BY <1>8 DEF Chosen

\* The nodes of the path stay as they are, but for the last one.
LEMMA PathStays ==
  ASSUME Typed, Hypothesis, symbols' = symbols, NEW n \in Path,
         \A j \in 0..(n - 1) :
           encstate'[j] = encstate[j] /\ tm'[j] = tm[j] /\ i'[j] = i[j]
  PROVE  \A j \in 0..(n - 1) : Chosen(j)'
<1> SUFFICES ASSUME NEW j \in 0..(n - 1) PROVE Chosen(j)'
  OBVIOUS
<1>0. n \in Nat /\ np \in Nat /\ Path \in {0..np, 0..(NBits - 1)}
  BY Limits DEF Path, Typed, Nodes
<1>1. j \in Nat /\ j \in Path /\ (j > 0 => j - 1 \in 0..(n - 1))
  BY <1>0, Limits
<1>2. Chosen(j)
  BY <1>1 DEF Hypothesis
<1> QED
  BY <1>1, <1>2, ChosenStays

\* What a step leaves of the path, with its last node as it is or turned.
LEMMA PathTurned ==
  ASSUME Typed, Hypothesis, symbols' = symbols, gamma' = gamma, tm' = tm,
         NEW n \in 0..(NBits - 1), n <= np, np' = n,
         \A j \in 0..(n - 1) : encstate'[j] = encstate[j] /\ i'[j] = i[j],
         \/ encstate'[n] = encstate[n] /\ i'[n] = i[n]
         \/ n < TailStart /\ encstate'[n] = Flip(encstate[n]) /\ i'[n] = 1 - i[n]
  PROVE  Hypothesis'
<1>1. n \in Nat /\ n \in Nodes /\ np \in Nodes /\ n \in Path /\ Path' = 0..n
  BY Limits DEF Nodes, Path, Typed
<1>2. Chosen(n)
  BY <1>1 DEF Hypothesis
<1>3. \A j \in 0..(n - 1) : Chosen(j)'
  BY <1>1, PathStays
<1>4. n > 0 => encstate'[n - 1] = encstate[n - 1]
  BY <1>1
<1>5. Chosen(n)'
  <2>1. CASE encstate'[n] = encstate[n] /\ i'[n] = i[n]
    <3>1. tm'[n] = tm[n]
      OBVIOUS
    <3> QED
      BY <1>1, <1>2, <1>4, <2>1, <3>1, ChosenStays
  <2>2. CASE n < TailStart /\ encstate'[n] = Flip(encstate[n]) /\ i'[n] = 1 - i[n]
    <3>1. i[n] \in 0..1
      BY <1>1 DEF Typed
    <3> QED
      BY <1>1, <1>2, <1>4, <2>2, <3>1, TurnedChosen
  <2> QED
    BY <2>1, <2>2
<1>6. \A j \in Path' : Chosen(j)'
  <2>1. \A j \in 0..n : j \in 0..(n - 1) \/ j = n
    BY <1>1
  <2> QED
    BY <1>1, <1>3, <1>5, <2>1
<1>7. Summed'
  BY <1>1, SummedStays DEF Hypothesis
<1> QED
  BY <1>6, <1>7 DEF Hypothesis

LEMMA ForwardHypothesis ==
  ASSUME Typed, Hypothesis, Forward
  PROVE  Hypothesis'
<1> USE Limits
<1>1. np \in 0..(NBits - 1) /\ np \in Path /\ Path = 0..np /\ np \in Nodes
  BY DEF Typed, Forward, Nodes, Path
<1>2. /\ np' = np + 1 /\ symbols' = symbols
      /\ gamma' = [gamma EXCEPT ![np + 1] = NGamma]
  BY DEF Forward, Same
<1>3. Summed /\ \A k \in 0..np : Chosen(k)
  BY <1>1 DEF Hypothesis
<1>4. ASSUME \A j \in 0..np : tm'[j] = tm[j] /\ i'[j] = i[j]
      PROVE  Summed'
  <2>1. ASSUME NEW k \in 1..(np + 1)
        PROVE  gamma'[k] = gamma'[k - 1] + tm'[k - 1][i'[k - 1] + 1]
    <3>1. k \in Nodes /\ k - 1 \in Nodes /\ k - 1 \in 0..np /\ k - 1 # np + 1
      BY <1>1 DEF Nodes
    <3>2. tm'[k - 1] = tm[k - 1] /\ i'[k - 1] = i[k - 1]
      BY <1>4, <3>1
    <3>3. gamma'[k - 1] = gamma[k - 1]
      BY <1>2, <3>1 DEF Typed
    <3>4. CASE k = np + 1
      <4>1. gamma'[k] = NGamma /\ k - 1 = np
        BY <1>1, <1>2, <3>1, <3>4 DEF Typed
      <4> QED
        BY <3>2, <3>3, <4>1 DEF NGamma
    <3>5. CASE k # np + 1
      <4>1. gamma'[k] = gamma[k] /\ k \in 1..np
        BY <1>1, <1>2, <3>1, <3>5 DEF Typed
      <4> QED
        BY <1>3, <3>2, <3>3, <4>1 DEF Summed
    <3> QED
      BY <3>4, <3>5
  <2> QED
    BY <1>2, <2>1 DEF Summed
<1>5. CASE np + 1 = NBits
  <2>1. UNCHANGED <<encstate, tm, i>>
    BY <1>5 DEF Forward
  <2>2. Path' = 0..np
    BY <1>1, <1>2, <1>5 DEF Path
  <2>3. ASSUME NEW k \in 0..np
        PROVE  Chosen(k)'
    <3>1. k \in Nat /\ Chosen(k)
      BY <1>1, <1>3
    <3>2. encstate'[k] = encstate[k] /\ tm'[k] = tm[k] /\ i'[k] = i[k]
      BY <2>1
    <3>3. k > 0 => encstate'[k - 1] = encstate[k - 1]
      BY <2>1
    <3> QED
      BY <1>2, <3>1, <3>2, <3>3, ChosenStays
  <2>4. Summed'
    BY <1>4, <2>1
  <2> QED
    BY <2>2, <2>3, <2>4 DEF Hypothesis
<1>6. CASE np + 1 # NBits
  <2>1. PICK k \in 1..(NBits - 1) : k = np + 1 /\ k \in Nodes /\ k - 1 = np
    BY <1>1, <1>6 DEF Nodes
  <2>2. Enter(k, encstate[k - 1])
    BY <1>6, <2>1 DEF Forward
  <2>3. ASSUME NEW j \in 0..np
        PROVE  encstate'[j] = encstate[j] /\ tm'[j] = tm[j] /\ i'[j] = i[j]
    <3> DEFINE node == IF k >= TailStart THEN Zero(k, encstate[k - 1], tm[k])
                       ELSE Sorted(k, encstate[k - 1])
    <3>1. /\ encstate' = [encstate EXCEPT ![k] = node.bits]
          /\ tm' = [tm EXCEPT ![k] = node.tm] /\ i' = [i EXCEPT ![k] = 0]
      BY <2>2 DEF Enter
    <3> HIDE DEF node
    <3>2. j \in Nodes /\ j # k
      BY <1>1, <2>1 DEF Nodes
    <3> QED
      BY <3>1, <3>2 DEF Typed
  <2>4. Summed'
    BY <1>4, <2>3
  <2>5. ASSUME NEW j \in 0..np
        PROVE  Chosen(j)'
    <3>1. j \in Nat /\ Chosen(j) /\ (j > 0 => j - 1 \in 0..np)
      BY <1>1, <1>3
    <3> QED
      BY <1>2, <2>3, <3>1, ChosenStays
  <2>6. Chosen(k)'
    <3>1. PICK before \in Seq(Bit), b \in Bit : Branch(np, before, b)
      BY <1>1, <1>3 DEF Chosen
    <3>2. Len(encstate[k - 1]) = k
      BY <2>1, <3>1 DEF Branch
    <3>3. encstate'[k - 1] = encstate[k - 1]
      BY <1>1, <2>1, <2>3
    <3> QED
      BY <1>2, <2>2, <3>2, <3>3, EnteredChosen
  <2>7. Path' = 0..k /\ \A j \in 0..k : j \in 0..np \/ j = k
    BY <1>1, <1>2, <2>1 DEF Path
  <2> QED
    BY <2>4, <2>5, <2>6, <2>7 DEF Hypothesis
<1> QED
  BY <1>5, <1>6

LEMMA RelaxHypothesis ==
  ASSUME Typed, Hypothesis, Relax
  PROVE  Hypothesis'
<1> USE Limits
<1>1. UNCHANGED <<symbols, np, gamma, tm>> /\ pc = "backward"
  BY DEF Relax, Same
<1>2. PICK n \in 0..(NBits - 1) : n = np /\ n \in Nodes /\ n \in Path
  BY <1>1 DEF Typed, Nodes, Path
<1>3. CASE i[np] # 0
  <2>1. n < TailStart /\ i[n] = 1
    BY <1>2, <1>3 DEF Typed, NodeOK
  <2>2. /\ i' = [i EXCEPT ![n] = 0]
        /\ encstate' = [encstate EXCEPT ![n] = Flip(encstate[n])]
    BY <1>2, <1>3 DEF Relax
  <2>3. encstate'[n] = Flip(encstate[n]) /\ i'[n] = 1 - i[n]
    BY <1>2, <2>1, <2>2 DEF Typed
  <2>4. \A j \in 0..(n - 1) : encstate'[j] = encstate[j] /\ i'[j] = i[j]
    <3>1. \A j \in 0..(n - 1) : j \in Nodes /\ j # n
      BY <1>2 DEF Nodes
    <3> QED
      BY <2>2, <3>1 DEF Typed
  <2>5. n <= np /\ np' = n
    BY <1>1, <1>2
  <2> QED
    BY <1>1, <2>1, <2>3, <2>4, <2>5, PathTurned
<1>4. CASE i[np] = 0
  <2>1. i' = i /\ encstate' = encstate
    BY <1>4 DEF Relax
  <2>2. n <= np /\ np' = n
    BY <1>1, <1>2
  <2> QED
    BY <1>1, <2>1, <2>2, PathTurned
<1> QED
  BY <1>3, <1>4

LEMMA BackUpHypothesis ==
  ASSUME Typed, Hypothesis, BackUp
  PROVE  Hypothesis'
<1> USE Limits
<1>1. UNCHANGED <<symbols, gamma, tm>> /\ pc = "backward" /\ np # 0 /\ np' = np - 1
  BY DEF BackUp, CanBackUp, Same
<1>2. PICK n \in 0..(NBits - 1) : n = np - 1 /\ n \in Nodes /\ n <= np /\ np' = n
  BY <1>1 DEF Typed, Nodes
<1>3. CASE n < TailStart /\ i[n] # 1
  <2>1. i[n] = 0
    BY <1>2, <1>3 DEF Typed
  <2>2. /\ i' = [i EXCEPT ![n] = 1]
        /\ encstate' = [encstate EXCEPT ![n] = Flip(encstate[n])]
    BY <1>2, <1>3 DEF BackUp
  <2>3. encstate'[n] = Flip(encstate[n]) /\ i'[n] = 1 - i[n]
    BY <1>2, <2>1, <2>2 DEF Typed
  <2>4. \A j \in 0..(n - 1) : encstate'[j] = encstate[j] /\ i'[j] = i[j]
    <3>1. \A j \in 0..(n - 1) : j \in Nodes /\ j # n
      BY <1>2 DEF Nodes
    <3> QED
      BY <2>2, <3>1 DEF Typed
  <2> QED
    BY <1>1, <1>2, <1>3, <2>3, <2>4, PathTurned
<1>4. CASE ~(n < TailStart /\ i[n] # 1)
  <2>1. i' = i /\ encstate' = encstate
    BY <1>2, <1>4 DEF BackUp
  <2> QED
    BY <1>1, <1>2, <2>1, PathTurned
<1> QED
  BY <1>3, <1>4

LEMMA HypothesisStep == Typed /\ Hypothesis /\ [Next]_vars => Hypothesis'
<1> SUFFICES ASSUME Typed, Hypothesis, [Next]_vars PROVE Hypothesis'
  OBVIOUS
<1>1. CASE Violated \/ Timeout \/ UNCHANGED vars
  <2>1. UNCHANGED <<symbols, np, gamma, encstate, tm, i>>
    BY <1>1 DEF Violated, Timeout, vars, search, Same
  <2>2. Path' = Path /\ Summed'
    BY <2>1 DEF Path, Hypothesis, Summed
  <2>3. ASSUME NEW k \in Path
        PROVE  Chosen(k)'
    <3>1. k \in Nat /\ Chosen(k)
      BY Limits DEF Path, Typed, Nodes, Hypothesis
    <3> QED
      BY <2>1, <3>1, ChosenStays
  <2> QED
    BY <2>2, <2>3 DEF Hypothesis
<1> QED
  BY <1>1, ForwardHypothesis, RelaxHypothesis, BackUpHypothesis DEF Next

\* The nodes up to the current one hold one message with its metric, zeros in
\* its tail, however fano() went back and forth and whichever branches it
\* turned, for every code with odd polynomials and every metric table.
THEOREM HypothesisStays == Spec => []HypothesisConsistent
<1>1. Init => Typed /\ AboveThreshold /\ Hypothesis
  BY InitTyped, InitHypothesis
<1>2. Typed /\ AboveThreshold /\ Hypothesis /\ [Next]_vars
        => Typed' /\ AboveThreshold' /\ Hypothesis'
  BY SearchStep, HypothesisStep
<1> QED
  BY <1>1, <1>2, HypothesisIsConsistent, PTL DEF Spec

-----------------------------------------------------------------------------
(* The metric of a message is a sum: the recursive function of the         *)
(* specification exists and has integers as values.                        *)

LEMMA LeastNumber ==
  ASSUME NEW T, T \subseteq Nat, T # {}
  PROVE  \E x \in T : \A y \in T : x <= y
<1> DEFINE less == {ss \in Nat \X Nat : ss[1] < ss[2]}
<1>1. IsWellFoundedOn(less, Nat)
  BY NatLessThanWellFounded, Zenon DEF OpToRel
<1> HIDE DEF less
<1>2. PICK x \in T : \A y \in T : ~(<<y, x>> \in less)
  BY <1>1, WFMin
<1>3. ASSUME NEW y \in T
      PROVE  x <= y
  <2>1. x \in Nat /\ y \in Nat /\ ~(<<y, x>> \in less)
    BY <1>2
  <2> QED
    BY <2>1 DEF less
<1> QED
  BY <1>3

Sums(f, n, d) ==
  f = [k \in 0..n |-> IF k = 0 THEN 0 ELSE f[k - 1] + d[k]]

LEMMA SumsStep ==
  ASSUME NEW n \in Nat \ {0}, NEW d, d[n] \in Int,
         NEW f \in [0..(n - 1) -> Int], Sums(f, n - 1, d)
  PROVE  \E g \in [0..n -> Int] : Sums(g, n, d)
<1> DEFINE g == [k \in 0..n |-> IF k = n THEN f[n - 1] + d[n] ELSE f[k]]
<1>1. g \in [0..n -> Int]
  <2>1. ASSUME NEW k \in 0..n
        PROVE  (IF k = n THEN f[n - 1] + d[n] ELSE f[k]) \in Int
    <3>1. n - 1 \in 0..(n - 1) /\ (k # n => k \in 0..(n - 1))
      OBVIOUS
    <3> QED
      BY <3>1
  <2> QED
    BY <2>1
<1>2. ASSUME NEW k \in 0..n
      PROVE  g[k] = IF k = 0 THEN 0 ELSE g[k - 1] + d[k]
  <2>1. CASE k = n
    <3>1. g[k] = f[n - 1] + d[n] /\ g[k - 1] = f[n - 1] /\ k # 0
      BY <2>1
    <3> HIDE DEF g
    <3> QED
      BY <2>1, <3>1
  <2>2. CASE k # n
    <3>1. k \in 0..(n - 1) /\ (k # 0 => k - 1 \in 0..n /\ k - 1 # n)
      BY <2>2
    <3>2. g[k] = f[k] /\ (k # 0 => g[k - 1] = f[k - 1])
      BY <2>2, <3>1
    <3>3. f[k] = IF k = 0 THEN 0 ELSE f[k - 1] + d[k]
      BY <3>1 DEF Sums
    <3> HIDE DEF g
    <3> QED
      BY <3>2, <3>3
  <2> QED
    BY <2>1, <2>2
<1>3. g = [k \in 0..n |-> IF k = 0 THEN 0 ELSE g[k - 1] + d[k]]
  <2> HIDE DEF g
  <2> QED
    BY <1>1, <1>2
<1> HIDE DEF g
<1> QED
  BY <1>1, <1>3 DEF Sums

LEMMA SumsExist ==
  ASSUME NEW n \in Nat, NEW d \in [1..n -> Int]
  PROVE  \E f \in [0..n -> Int] : Sums(f, n, d)
<1> DEFINE Has(j) == \E f \in [0..j -> Int] : Sums(f, j, d)
           T == {j \in 0..n : ~Has(j)}
<1>1. SUFFICES ASSUME T # {} PROVE FALSE
  <2>1. n \in 0..n
    OBVIOUS
  <2> QED
    BY <2>1
<1>2. PICK x \in T : \A y \in T : x <= y
  <2>1. T \subseteq Nat
    OBVIOUS
  <2> HIDE DEF T
  <2> QED
    BY <1>1, <2>1, LeastNumber
<1>3. x \in Nat /\ x <= n /\ ~Has(x)
  OBVIOUS
<1>4. CASE x = 0
  <2> DEFINE f == [k \in 0..0 |-> 0]
  <2>1. f \in [0..0 -> Int] /\ Sums(f, 0, d)
    BY DEF Sums
  <2> QED
    BY <1>3, <1>4, <2>1
<1>5. CASE x # 0
  <2>1. x - 1 \in 0..n /\ x - 1 < x
    BY <1>3, <1>5
  <2>2. Has(x - 1)
    BY <1>2, <2>1
  <2>3. PICK f \in [0..(x - 1) -> Int] : Sums(f, x - 1, d)
    BY <2>2
  <2>4. x \in Nat \ {0} /\ d[x] \in Int
    BY <1>3, <1>5
  <2> QED
    BY <1>3, <2>3, <2>4, SumsStep
<1> QED
  BY <1>4, <1>5

LEMMA SumsUnique ==
  ASSUME NEW n \in Nat, NEW d \in [1..n -> Int], NEW f \in [0..n -> Int],
         Sums(f, n, d), NEW g, Sums(g, n, d)
  PROVE  g = f
<1> DEFINE T == {k \in 0..n : g[k] # f[k]}
<1>1. g = [k \in 0..n |-> g[k]]
  BY DEF Sums
<1>2. ASSUME NEW k \in 0..n
      PROVE  /\ g[k] = IF k = 0 THEN 0 ELSE g[k - 1] + d[k]
             /\ f[k] = IF k = 0 THEN 0 ELSE f[k - 1] + d[k]
  BY DEF Sums
<1>3. T = {}
  <2>1. SUFFICES ASSUME T # {} PROVE FALSE
    OBVIOUS
  <2>2. PICK x \in T : \A y \in T : x <= y
    <3>1. T \subseteq Nat
      OBVIOUS
    <3> HIDE DEF T
    <3> QED
      BY <2>1, <3>1, LeastNumber
  <2>3. x # 0
    BY <1>2
  <2>4. x - 1 \in 0..n /\ x - 1 < x /\ x \in 0..n
    BY <2>3
  <2>5. g[x - 1] = f[x - 1]
    BY <2>2, <2>4
  <2> QED
    BY <1>2, <2>3, <2>4, <2>5
<1> QED
  BY <1>1, <1>3

\* The metric of a message, given the symbols, and what a node adds to it.
MetricOf(s, m) ==
  LET to[k \in Nodes] ==
        IF k = 0 THEN 0
        ELSE to[k - 1] + (MetTab[Encode(SubSeq(m, 1, k))[1]][s[2 * (k - 1) + 1]]
                          + MetTab[Encode(SubSeq(m, 1, k))[2]][s[2 * (k - 1) + 2]])
  IN  to
AddedAt(m, k) == BranchMetric(k, Encode(SubSeq(m, 1, k + 1)))

LEMMA MetricOfSymbols ==
  ASSUME NEW m
  PROVE  MetricTo(m) = MetricOf(symbols, m)
BY DEF MetricTo, MetricOf, BranchMetric

LEMMA MetricStays ==
  ASSUME NEW m, symbols' = symbols
  PROVE  MetricTo(m)' = MetricTo(m)
<1>1. MetricTo(m)' = MetricOf(symbols', m)
  BY DEF MetricTo, MetricOf, BranchMetric
<1> QED
  BY <1>1, MetricOfSymbols

LEMMA PrefixGrows ==
  ASSUME NEW m \in [1..NBits -> Bit], NEW k \in 0..(NBits - 1)
  PROVE  /\ SubSeq(m, 1, k) \in Seq(Bit) /\ Len(SubSeq(m, 1, k)) = k
         /\ SubSeq(m, 1, k + 1) = Append(SubSeq(m, 1, k), m[k + 1])
         /\ SubSeq(m, 1, k + 1) \in Seq(Bit)
<1> DEFINE s == SubSeq(m, 1, k)
           u == SubSeq(m, 1, k + 1)
<1>1. NBits \in Nat /\ k \in Nat /\ k + 1 <= NBits
  BY Limits
<1>2. m \in Seq(Bit) /\ Len(m) = NBits
  BY <1>1
<1>3. /\ s \in Seq(Bit) /\ Len(s) = k /\ \A j \in 1..k : s[j] = m[j]
      /\ u \in Seq(Bit) /\ Len(u) = k + 1 /\ \A j \in 1..(k + 1) : u[j] = m[j]
  BY <1>1, <1>2
<1>4. m[k + 1] \in Bit
  BY <1>1
<1> HIDE DEF s, u
<1>5. u = Append(s, m[k + 1])
  BY <1>1, <1>3, <1>4
<1> QED
  BY <1>3, <1>5 DEF s, u

LEMMA MetricSums ==
  ASSUME symbols \in [1..(2 * NBits) -> Received], NEW m \in [1..NBits -> Bit]
  PROVE  /\ MetricTo(m) \in [Nodes -> Int] /\ MetricTo(m)[0] = 0
         /\ \A k \in 0..(NBits - 1) :
              MetricTo(m)[k + 1] = MetricTo(m)[k] + AddedAt(m, k)
<1> DEFINE d == [k \in 1..NBits |-> BranchMetric(k - 1, Encode(SubSeq(m, 1, k)))]
<1>1. NBits \in Nat /\ Nodes = 0..NBits
  BY Limits DEF Nodes
<1>2. d \in [1..NBits -> Int]
  <2>1. ASSUME NEW k \in 1..NBits
        PROVE  BranchMetric(k - 1, Encode(SubSeq(m, 1, k))) \in Int
    <3>1. k - 1 \in 0..(NBits - 1) /\ (k - 1) + 1 = k
      BY <1>1
    <3>2. SubSeq(m, 1, k) \in Seq(Bit)
      BY <3>1, PrefixGrows
    <3> QED
      BY <3>1, <3>2, EncodeIsPair, MetricIsInteger
  <2> QED
    BY <2>1
<1>3. PICK f \in [0..NBits -> Int] : Sums(f, NBits, d)
  <2> HIDE DEF d
  <2> QED
    BY <1>1, <1>2, SumsExist
<1>4. ASSUME NEW g
      PROVE  Sums(g, NBits, d)
               <=> g = [k \in Nodes |-> IF k = 0 THEN 0 ELSE g[k - 1]
                          + BranchMetric(k - 1, Encode(SubSeq(m, 1, k)))]
  <2>1. \A k \in 0..NBits : k # 0 =>
          d[k] = BranchMetric(k - 1, Encode(SubSeq(m, 1, k)))
    BY <1>1
  <2> HIDE DEF d
  <2>2. [k \in 0..NBits |-> IF k = 0 THEN 0 ELSE g[k - 1] + d[k]]
        = [k \in Nodes |-> IF k = 0 THEN 0 ELSE g[k - 1]
             + BranchMetric(k - 1, Encode(SubSeq(m, 1, k)))]
    BY <1>1, <2>1
  <2> QED
    BY <2>2 DEF Sums
<1>5. Sums(MetricTo(m), NBits, d)
  <2> HIDE DEF d
  <2> QED
    BY <1>3, <1>4 DEF MetricTo
<1>6. MetricTo(m) = f
  <2> HIDE DEF d
  <2> QED
    BY <1>1, <1>2, <1>3, <1>5, SumsUnique
<1>7. ASSUME NEW k \in 0..(NBits - 1)
      PROVE  f[k + 1] = f[k] + AddedAt(m, k)
  <2>1. k + 1 \in 0..NBits /\ k + 1 # 0 /\ (k + 1) - 1 = k /\ k + 1 \in 1..NBits
    BY <1>1
  <2>2. d[k + 1] = AddedAt(m, k)
    BY <2>1 DEF AddedAt
  <2> HIDE DEF d
  <2> QED
    BY <1>3, <2>1, <2>2 DEF Sums
<1>8. f[0] = 0
  <2> HIDE DEF d
  <2> QED
    BY <1>1, <1>3 DEF Sums
<1> QED
  BY <1>1, <1>3, <1>6, <1>7, <1>8

-----------------------------------------------------------------------------
(* The threshold.  A message leaves the path where it takes another branch *)
(* than the node holds.  What was searched below a node's first branch     *)
(* fell under the threshold of that moment: this bounds how deep the       *)
(* threshold may fall.                                                     *)

Through(m, k) == k > 0 => SubSeq(m, 1, k) = encstate[k - 1]
Leaves(m, k)  == Through(m, k) /\ ~Through(m, k + 1)

\* The metrics of the path are those of every message through its nodes.
MetricsTrue == \A k \in 0..np : \A m \in Messages :
                 Through(m, k) => gamma[k] = MetricTo(m)[k]

\* A node was at or above a threshold that is not below any message.
AllUnder(q) == \A m \in Messages : Under(m, Delta * q + Delta)
Visited(k) == \E q \in Int : Delta * q <= gamma[k] /\ AllUnder(q)

\* What leaves the path at a node that is on its second branch fell under a
\* threshold that the path from there on, and the present one, are not below.
Reaches(k, q) == Delta * q <= t /\ \A p \in k..np : Delta * q <= gamma[p]
Searched(k) == \E q \in Int :
                 /\ Reaches(k, q)
                 /\ \A m \in Messages : Leaves(m, k) => Under(m, Delta * q)
NodeSearched(k) == /\ k < TailStart => tm[k][2] <= tm[k][1]
                   /\ i[k] = 1 => Searched(k)

Stuck == \A m \in Messages : Through(m, np) => Under(m, t)

Exhausted ==
  /\ MetricsTrue /\ NeverBelowAnyMessage
  /\ \A k \in 0..np : Visited(k)
  /\ \A k \in Path : NodeSearched(k)
  /\ pc = "backward" => Stuck
  /\ pc = "done" => np = NBits \/ ~InTime

LEMMA MessageBits ==
  ASSUME NEW m \in Messages
  PROVE  m \in [1..NBits -> Bit] /\ \A k \in (TailStart + 1)..NBits : m[k] = 0
BY DEF Messages

LEMMA AppendSame ==
  ASSUME NEW s \in Seq(Bit), NEW u \in Seq(Bit), NEW a \in Bit, NEW b \in Bit,
         Append(s, a) = Append(u, b)
  PROVE  s = u /\ a = b
<1>1. /\ Len(Append(s, a)) = Len(s) + 1 /\ Append(s, a)[Len(s) + 1] = a
      /\ Len(Append(u, b)) = Len(u) + 1 /\ Append(u, b)[Len(u) + 1] = b
      /\ \A j \in 1..Len(s) : Append(s, a)[j] = s[j]
      /\ \A j \in 1..Len(u) : Append(u, b)[j] = u[j]
      /\ Len(s) \in Nat /\ Len(u) \in Nat
  OBVIOUS
<1>2. Len(s) = Len(u)
  BY <1>1
<1>3. \A j \in 1..Len(s) : s[j] = u[j]
  BY <1>1, <1>2
<1> QED
  BY <1>1, <1>2, <1>3

\* A message through node k goes on as the node does, or takes its other
\* branch, which has the metric that is kept beside; in the tail there is none.
LEMMA NextBranch ==
  ASSUME Typed, Hypothesis, NEW k \in Path, NEW m \in Messages
  PROVE  /\ Through(m, k + 1) => Through(m, k) /\ AddedAt(m, k) = tm[k][i[k] + 1]
         /\ Leaves(m, k) => k < TailStart /\ AddedAt(m, k) = tm[k][2 - i[k]]
<1>1. k \in 0..(NBits - 1) /\ k \in Nat
  BY Limits DEF Typed, Path, Nodes
<1>2. PICK before \in Seq(Bit), b \in Bit : Branch(k, before, b)
  BY DEF Hypothesis, Chosen
<1>3. PICK s \in Seq(Bit), c \in Bit :
        /\ s = SubSeq(m, 1, k) /\ Len(s) = k /\ c = m[k + 1]
        /\ SubSeq(m, 1, k + 1) = Append(s, c)
  <2>1. m \in [1..NBits -> Bit] /\ k + 1 \in 1..NBits
    BY <1>1, Limits, MessageBits
  <2>2. m[k + 1] \in Bit
    BY <2>1
  <2>3. /\ SubSeq(m, 1, k) \in Seq(Bit) /\ Len(SubSeq(m, 1, k)) = k
        /\ SubSeq(m, 1, k + 1) = Append(SubSeq(m, 1, k), m[k + 1])
    BY <1>1, <2>1, PrefixGrows
  <2> QED
    BY <2>2, <2>3
<1>4. Through(m, k) <=> s = before
  <2>1. CASE k = 0
    BY <1>2, <1>3, <2>1 DEF Branch, Through
  <2>2. CASE k > 0
    BY <1>2, <1>3, <2>2 DEF Branch, Through
  <2> QED
    BY <1>1, <2>1, <2>2
<1>5. Through(m, k + 1) <=> Append(s, c) = Append(before, b)
  <2>1. k + 1 > 0 /\ (k + 1) - 1 = k
    BY <1>1
  <2>2. Through(m, k + 1) <=> SubSeq(m, 1, k + 1) = encstate[k]
    BY <2>1 DEF Through
  <2> QED
    BY <1>2, <1>3, <2>2 DEF Branch
<1>6. Through(m, k + 1) <=> s = before /\ c = b
  BY <1>5, AppendSame
<1>7. AddedAt(m, k) = BranchMetric(k, Encode(Append(s, c)))
  BY <1>3 DEF AddedAt
<1>8. ASSUME Leaves(m, k)
      PROVE  k < TailStart /\ c = 1 - b
  <2>1. c = 1 - b
    BY <1>4, <1>6, <1>8 DEF Leaves, Bit
  <2>2. k >= TailStart => b = 0 /\ c = 0
    <3>1. k >= TailStart => k + 1 \in (TailStart + 1)..NBits
      BY <1>1, Limits
    <3>2. k >= TailStart => m[k + 1] = 0
      BY <3>1, MessageBits
    <3> QED
      BY <1>2, <1>3, <3>2 DEF Branch
  <2> QED
    BY <1>1, <2>1, <2>2, Limits
<1> QED
  BY <1>2, <1>4, <1>6, <1>7, <1>8 DEF Branch, Leaves

LEMMA MultiplesApart ==
  ASSUME NEW d \in Nat \ {0}, NEW q \in Int, NEW r \in Int, d * q < d * r
  PROVE  d * q + d <= d * r
<1>1. q < r
  <2>1. CASE q >= r
    <3>1. PICK n \in Nat : q = r + n
      BY <2>1
    <3>2. d * q = d * r + d * n /\ d * n \in Nat
      BY <3>1
    <3>3. d * r \in Int
      OBVIOUS
    <3> QED
      BY <3>2, <3>3
  <2> QED
    BY <2>1
<1>2. PICK n \in Nat : r = q + 1 + n
  <2>1. r - q - 1 \in Nat /\ r = q + 1 + (r - q - 1)
    BY <1>1
  <2> QED
    BY <2>1
<1>3. d * r = d * q + d + d * n /\ d * n \in Nat
  BY <1>2
<1>4. d * q \in Int
  OBVIOUS
<1> QED
  BY <1>3, <1>4

LEMMA UnderMore ==
  ASSUME Typed, NEW m \in Messages, NEW x \in Int, NEW y \in Int, x <= y, Under(m, x)
  PROVE  Under(m, y)
<1>1. MetricTo(m) \in [Nodes -> Int]
  BY MetricSums, MessageBits DEF Typed
<1> QED
  BY <1>1 DEF Under

LEMMA UnderStays ==
  ASSUME symbols' = symbols, NEW m, NEW x
  PROVE  Under(m, x)' <=> Under(m, x)
BY MetricStays DEF Under, Nodes

LEMMA ThresholdStep ==
  ASSUME Typed, AboveThreshold
  PROVE  \E q \in Int : t = Delta * q
<1>1. t \in Int /\ t % Delta = 0 /\ Delta \in Nat \ {0}
  BY Limits DEF Typed, AboveThreshold
<1>2. t \div Delta \in Int /\ t = Delta * (t \div Delta)
  BY <1>1
<1> QED
  BY <1>2

-----------------------------------------------------------------------------
(* What the steps leave as it is.                                          *)

LEMMA ThroughStays ==
  ASSUME NEW n \in Nat, \A j \in 0..(n - 1) : encstate'[j] = encstate[j]
  PROVE  /\ \A k \in 0..n : \A m : Through(m, k)' <=> Through(m, k)
         /\ \A k \in 0..(n - 1) : \A m : Leaves(m, k)' <=> Leaves(m, k)
<1>1. ASSUME NEW k \in 0..n, NEW m
      PROVE  Through(m, k)' <=> Through(m, k)
  <2>1. k > 0 => k - 1 \in 0..(n - 1)
    OBVIOUS
  <2> QED
    BY <2>1 DEF Through
<1>2. \A k \in 0..(n - 1) : k \in 0..n /\ k + 1 \in 0..n
  OBVIOUS
<1> QED
  BY <1>1, <1>2 DEF Leaves

LEMMA SearchedStays ==
  ASSUME symbols' = symbols, NEW k \in Nat, Searched(k),
         \A j \in 0..k : encstate'[j] = encstate[j],
         \A q \in Int : Reaches(k, q) => Reaches(k, q)'
  PROVE  Searched(k)'
<1>1. PICK q \in Int : /\ Reaches(k, q)
                       /\ \A m \in Messages : Leaves(m, k) => Under(m, Delta * q)
  BY DEF Searched
<1>2. k + 1 \in Nat /\ (k + 1) - 1 = k /\ k \in 0..((k + 1) - 1)
  OBVIOUS
<1>3. \A m : Leaves(m, k)' <=> Leaves(m, k)
  BY <1>2, ThroughStays
<1>4. ASSUME NEW m \in Messages, Leaves(m, k)'
      PROVE  Under(m, Delta * q)'
  BY <1>1, <1>3, <1>4, UnderStays
<1>5. Reaches(k, q)'
  BY <1>1
<1> QED
  BY <1>4, <1>5 DEF Searched, Messages, TailStart

LEMMA VisitedStays ==
  ASSUME symbols' = symbols, NEW k, Visited(k), gamma'[k] = gamma[k]
  PROVE  Visited(k)'
<1>1. PICK q \in Int : Delta * q <= gamma[k] /\ AllUnder(q)
  BY DEF Visited
<1>2. ASSUME NEW m \in Messages
      PROVE  Under(m, Delta * q + Delta)'
  BY <1>1, UnderStays DEF AllUnder
<1> QED
  BY <1>1, <1>2 DEF Visited, AllUnder, Messages, TailStart

LEMMA MetricsStay ==
  ASSUME symbols' = symbols, MetricsTrue, NEW n \in Nat, n <= np, np' = n,
         np \in Nat, gamma' = gamma,
         \A j \in 0..(n - 1) : encstate'[j] = encstate[j]
  PROVE  MetricsTrue'
<1>1. ASSUME NEW k \in 0..n, NEW m \in Messages, Through(m, k)'
      PROVE  gamma'[k] = MetricTo(m)'[k]
  <2>1. k \in 0..np /\ Through(m, k)
    BY <1>1, ThroughStays
  <2> QED
    BY <2>1, MetricStays DEF MetricsTrue
<1> QED
  BY <1>1 DEF MetricsTrue, Messages, TailStart

LEMMA NeverBelowStays ==
  ASSUME Typed, symbols' = symbols, NEW x \in Int, t' = x, t <= x, NeverBelowAnyMessage
  PROVE  NeverBelowAnyMessage'
<1>1. ASSUME NEW m \in Messages
      PROVE  Under(m, x + Delta)'
  <2>1. t + Delta \in Int /\ x + Delta \in Int /\ t + Delta <= x + Delta
    BY Limits DEF Typed
  <2>2. Under(m, x + Delta)
    BY <2>1, UnderMore DEF NeverBelowAnyMessage
  <2> QED
    BY <2>2, UnderStays
<1> QED
  BY <1>1 DEF NeverBelowAnyMessage, Messages, TailStart

-----------------------------------------------------------------------------
(* The steps keep what bounds the threshold.                               *)

LEMMA SortedBetter ==
  ASSUME symbols \in [1..(2 * NBits) -> Received],
         NEW k \in 0..(NBits - 1), NEW bits \in Seq(Bit)
  PROVE  Sorted(k, bits).tm[2] <= Sorted(k, bits).tm[1]
<1>1. M0(k, bits) \in Int /\ M1(k, bits) \in Int
  BY BothMetrics
<1> QED
  BY <1>1 DEF Sorted

LEMMA InitExhausted == Init => Exhausted
<1> SUFFICES ASSUME Init PROVE Exhausted
  OBVIOUS
<1> USE Limits
<1>0. Typed
  BY InitTyped
<1>1. Path = {0} /\ 0 \in Nodes /\ 0 \in 0..(NBits - 1) /\ <<>> \in Seq(Bit)
  BY DEF Init, Path, Nodes
<1>2. np = 0 /\ t = 0 /\ gamma[0] = 0 /\ i[0] = 0 /\ pc = "forward"
  BY <1>1 DEF Init
<1>3. \A m \in Messages : MetricTo(m)[0] = 0
  BY <1>0, MessageBits, MetricSums DEF Typed
<1>4. \A m \in Messages : Under(m, Delta)
  BY <1>1, <1>3 DEF Under
<1>5. AllUnder(0) /\ NeverBelowAnyMessage
  <2>1. Delta * 0 + Delta = Delta /\ t + Delta = Delta
    BY <1>2
  <2> QED
    BY <1>4, <2>1 DEF AllUnder, NeverBelowAnyMessage
<1>6. Visited(0)
  BY <1>2, <1>5 DEF Visited
<1>7. NodeSearched(0)
  <2>1. tm[0] = Sorted(0, <<>>).tm
    BY <1>1 DEF Init
  <2>2. Sorted(0, <<>>).tm[2] <= Sorted(0, <<>>).tm[1]
    BY <1>0, <1>1, SortedBetter DEF Typed
  <2> QED
    BY <1>2, <2>1, <2>2 DEF NodeSearched
<1>8. MetricsTrue
  BY <1>2, <1>3 DEF MetricsTrue
<1> QED
  BY <1>1, <1>2, <1>5, <1>6, <1>7, <1>8 DEF Exhausted

\* What fano() does going forward to node n + 1.
LEMMA ForwardFacts ==
  ASSUME Typed, Forward
  PROVE  \E n \in 0..(NBits - 1) :
           /\ n = np /\ np' = n + 1 /\ n + 1 \in Nodes /\ symbols' = symbols
           /\ gamma[n] \in Int /\ tm[n][i[n] + 1] \in Int /\ t \in Int
           /\ gamma'[n + 1] = gamma[n] + tm[n][i[n] + 1] /\ gamma'[n + 1] >= t
           /\ t' \in Int /\ t' >= t
           /\ \A k \in 0..n : gamma'[k] = gamma[k]
           /\ \A k \in 0..n : encstate'[k] = encstate[k] /\ tm'[k] = tm[k] /\ i'[k] = i[k]
           /\ IF n + 1 = NBits THEN pc' = "done"
                ELSE pc' = "forward" /\ Enter(n + 1, encstate[n])
<1> USE Limits
<1>1. PICK n \in 0..(NBits - 1) :
        n = np /\ n \in Path /\ Path = 0..n /\ n + 1 \in Nodes /\ 0..n \subseteq Nodes
  BY DEF Typed, Forward, Nodes, Path
<1>2. /\ gamma[n] \in Int /\ tm[n][i[n] + 1] \in Int /\ t \in Int
      /\ NGamma = gamma[n] + tm[n][i[n] + 1] /\ NGamma >= t
  BY <1>1, BranchMetricKnown DEF NGamma, Typed, Forward
<1>3. gamma' = [gamma EXCEPT ![n + 1] = NGamma]
  BY <1>1 DEF Forward
<1>4. gamma'[n + 1] = NGamma /\ \A k \in 0..n : gamma'[k] = gamma[k]
  BY <1>1, <1>3 DEF Typed
<1>5. t' \in Int /\ t' >= t
  <2>1. PICK x \in Int : x = NGamma - t /\ x >= 0
    BY <1>2
  <2>2. PICK q \in Int : q = x \div Delta
    OBVIOUS
  <2>3. q >= 0
    BY <2>1, <2>2
  <2>4. Delta * q \in Nat
    BY <2>3
  <2>5. Tightened = t + Delta * q
    BY <2>1, <2>2 DEF Tightened
  <2> QED
    BY <1>2, <2>4, <2>5 DEF Forward
<1>6. CASE n + 1 = NBits
  <2>1. UNCHANGED <<encstate, tm, i>> /\ pc' = "done"
    BY <1>1, <1>6 DEF Forward
  <2> QED
    BY <1>1, <1>2, <1>4, <1>5, <1>6, <2>1 DEF Forward, Same
<1>7. CASE n + 1 # NBits
  <2>1. Enter(n + 1, encstate[n]) /\ pc' = "forward"
    BY <1>1, <1>7 DEF Forward
  <2>2. ASSUME NEW k \in 0..n
        PROVE  encstate'[k] = encstate[k] /\ tm'[k] = tm[k] /\ i'[k] = i[k]
    <3> DEFINE node == IF n + 1 >= TailStart THEN Zero(n + 1, encstate[n], tm[n + 1])
                       ELSE Sorted(n + 1, encstate[n])
    <3>1. /\ encstate' = [encstate EXCEPT ![n + 1] = node.bits]
          /\ tm' = [tm EXCEPT ![n + 1] = node.tm] /\ i' = [i EXCEPT ![n + 1] = 0]
      BY <2>1 DEF Enter
    <3> HIDE DEF node
    <3>2. k \in Nodes /\ k # n + 1
      BY <1>1
    <3> QED
      BY <3>1, <3>2 DEF Typed
  <2> QED
    BY <1>1, <1>2, <1>4, <1>5, <1>7, <2>1, <2>2 DEF Forward, Same
<1> QED
  BY <1>6, <1>7

\* The branches of the node that is entered are in order, and none is left.
LEMMA EnteredSearched ==
  ASSUME Typed, NEW k \in 1..(NBits - 1), Enter(k, encstate[k - 1])
  PROVE  NodeSearched(k)'
<1> USE Limits
<1>1. k \in Nodes /\ k \in 0..(NBits - 1) /\ encstate[k - 1] \in Seq(Bit)
  BY DEF Typed, Nodes
<1>2. i'[k] = 0
  BY <1>1 DEF Typed, Enter
<1>3. ASSUME k < TailStart
      PROVE  tm'[k][2] <= tm'[k][1]
  <2>1. ~(k >= TailStart)
    BY <1>3
  <2>2. tm' = [tm EXCEPT ![k] = Sorted(k, encstate[k - 1]).tm]
    BY <2>1 DEF Enter
  <2>3. tm'[k] = Sorted(k, encstate[k - 1]).tm
    BY <1>1, <2>2 DEF Typed
  <2> QED
    BY <1>1, <2>3, SortedBetter DEF Typed
<1> QED
  BY <1>2, <1>3 DEF NodeSearched, TailStart

LEMMA ForwardExhausted ==
  ASSUME Typed, Hypothesis, AboveThreshold, Exhausted, Forward
  PROVE  Exhausted'
<1> USE Limits
<1>1. PICK n \in 0..(NBits - 1) :
           /\ n = np /\ np' = n + 1 /\ n + 1 \in Nodes /\ symbols' = symbols
           /\ gamma[n] \in Int /\ tm[n][i[n] + 1] \in Int /\ t \in Int
           /\ gamma'[n + 1] = gamma[n] + tm[n][i[n] + 1] /\ gamma'[n + 1] >= t
           /\ t' \in Int /\ t' >= t
           /\ \A k \in 0..n : gamma'[k] = gamma[k]
           /\ \A k \in 0..n : encstate'[k] = encstate[k] /\ tm'[k] = tm[k] /\ i'[k] = i[k]
           /\ IF n + 1 = NBits THEN pc' = "done"
                ELSE pc' = "forward" /\ Enter(n + 1, encstate[n])
  BY ForwardFacts
<1>2. Path = 0..n /\ n \in Path
  BY <1>1 DEF Path
<1>3. PICK r \in Int : t = Delta * r
  BY ThresholdStep
<1>4. MetricsTrue'
  <2>1. ASSUME NEW k \in 0..(n + 1), NEW m \in Messages, Through(m, k)'
        PROVE  gamma'[k] = MetricTo(m)[k]
    <3>1. n + 1 \in Nat /\ \A j \in 0..((n + 1) - 1) : encstate'[j] = encstate[j]
      BY <1>1
    <3>2. Through(m, k)
      BY <2>1, <3>1, ThroughStays
    <3>3. CASE k \in 0..n
      BY <1>1, <3>2, <3>3 DEF Exhausted, MetricsTrue
    <3>4. CASE k = n + 1
      <4>1. Through(m, n) /\ AddedAt(m, n) = tm[n][i[n] + 1]
        BY <1>2, <3>2, <3>4, NextBranch
      <4>2. gamma[n] = MetricTo(m)[n]
        <5>1. n \in 0..np
          BY <1>1
        <5> QED
          BY <4>1, <5>1 DEF Exhausted, MetricsTrue
      <4>3. MetricTo(m)[n + 1] = MetricTo(m)[n] + AddedAt(m, n)
        BY MessageBits, MetricSums DEF Typed
      <4> QED
        BY <1>1, <3>4, <4>1, <4>2, <4>3
    <3> QED
      BY <3>3, <3>4
  <2> QED
    BY <1>1, <2>1, MetricStays DEF MetricsTrue, Messages, TailStart
<1>5. NeverBelowAnyMessage'
  <2>1. PICK x \in Int : x = t' /\ t <= x
    BY <1>1
  <2> QED
    BY <1>1, <2>1, NeverBelowStays DEF Exhausted
<1>6. \A k \in 0..(n + 1) : Visited(k)'
  <2>1. ASSUME NEW k \in 0..n
        PROVE  Visited(k)'
    BY <1>1, VisitedStays DEF Exhausted
  <2>2. Visited(n + 1)'
    <3>1. \A m \in Messages : Under(m, Delta * r + Delta)
      BY <1>3 DEF Exhausted, NeverBelowAnyMessage
    <3>2. \A m \in Messages : Under(m, Delta * r + Delta)'
      BY <1>1, <3>1, UnderStays
    <3>3. AllUnder(r)'
      BY <3>2 DEF AllUnder, Messages, TailStart
    <3> QED
      BY <1>1, <1>3, <3>3 DEF Visited
  <2> QED
    BY <2>1, <2>2
<1>7. ASSUME NEW k \in 0..n
      PROVE  NodeSearched(k)'
  <2>1. NodeSearched(k) /\ k \in Nat
    BY <1>2 DEF Exhausted
  <2>2. tm'[k] = tm[k] /\ i'[k] = i[k]
    BY <1>1
  <2>3. ASSUME Searched(k)
        PROVE  Searched(k)'
    <3>1. ASSUME NEW q \in Int, Reaches(k, q)
          PROVE  Reaches(k, q)'
      <4>1. PICK x \in Int : x = Delta * q
        OBVIOUS
      <4>2. x <= t /\ \A p \in k..n : x <= gamma[p]
        BY <1>1, <3>1, <4>1 DEF Reaches
      <4>3. x <= t' /\ x <= gamma'[n + 1]
        BY <1>1, <4>2
      <4>4. \A p \in k..(n + 1) : (p \in k..n /\ p \in 0..n) \/ p = n + 1
        OBVIOUS
      <4>5. \A p \in k..(n + 1) : x <= gamma'[p]
        BY <1>1, <4>2, <4>3, <4>4
      <4> QED
        BY <1>1, <4>1, <4>3, <4>5 DEF Reaches
    <3>2. \A j \in 0..k : encstate'[j] = encstate[j]
      BY <1>1
    <3> QED
      BY <1>1, <2>1, <2>3, <3>1, <3>2, SearchedStays
  <2> QED
    BY <2>1, <2>2, <2>3 DEF NodeSearched, TailStart
<1>8. CASE n + 1 = NBits
  <2>1. Path' = 0..n /\ pc' = "done" /\ np' = NBits
    BY <1>1, <1>8 DEF Path
  <2> QED
    BY <1>1, <1>4, <1>5, <1>6, <1>7, <2>1 DEF Exhausted
<1>9. CASE n + 1 # NBits
  <2>1. PICK k \in 1..(NBits - 1) : k = n + 1 /\ n = k - 1
    BY <1>9
  <2>2. NodeSearched(k)'
    BY <1>1, <1>9, <2>1, EnteredSearched
  <2>3. Path' = 0..k /\ \A j \in 0..k : j \in 0..n \/ j = k
    BY <1>1, <2>1 DEF Path
  <2>4. pc' = "forward"
    BY <1>1, <1>9
  <2> QED
    BY <1>1, <1>4, <1>5, <1>6, <1>7, <2>2, <2>3, <2>4 DEF Exhausted
<1> QED
  BY <1>8, <1>9

\* Of two branches one leads on below the threshold: so does the worse one,
\* and what left the path before has been searched.
LEMMA ViolatedExhausted ==
  ASSUME Typed, Hypothesis, AboveThreshold, Exhausted, Violated
  PROVE  Exhausted'
<1> USE Limits
<1>1. /\ UNCHANGED <<message, symbols, np, t, gamma, encstate, tm, i, cycle>>
      /\ pc = "forward" /\ pc' = "backward" /\ NGamma < t
  BY DEF Violated, Same
<1>2. PICK n \in 0..(NBits - 1) : n = np /\ n \in Path /\ Path = 0..n /\ n \in Nodes
  BY <1>1 DEF Typed, Nodes, Path
<1>3. t \in Int /\ gamma[n] \in Int /\ tm[n][i[n] + 1] \in Int /\ i[n] \in 0..1
  BY <1>2, BranchMetricKnown DEF Typed
<1>4. gamma[n] + tm[n][i[n] + 1] < t
  BY <1>1, <1>2 DEF NGamma
<1>5. ASSUME NEW m \in Messages, Through(m, n)
      PROVE  Under(m, t)
  <2>1. /\ gamma[n] = MetricTo(m)[n] /\ n + 1 \in Nodes
        /\ MetricTo(m)[n + 1] = MetricTo(m)[n] + AddedAt(m, n)
    <3>1. n \in 0..np
      BY <1>2
    <3>2. n + 1 \in Nodes
      BY <1>2 DEF Nodes
    <3> QED
      BY <1>5, <3>1, <3>2, MessageBits, MetricSums DEF Typed, Exhausted, MetricsTrue
  <2>2. CASE Through(m, n + 1)
    <3>1. MetricTo(m)[n + 1] < t
      BY <1>2, <1>4, <2>1, <2>2, NextBranch
    <3> QED
      BY <2>1, <3>1 DEF Under
  <2>3. CASE ~Through(m, n + 1)
    <3>1. Leaves(m, n) /\ n < TailStart /\ AddedAt(m, n) = tm[n][2 - i[n]]
      BY <1>2, <1>5, <2>3, NextBranch DEF Leaves
    <3>2. CASE i[n] = 0
      <4>1. tm[n][2] <= tm[n][1] /\ tm[n][2] \in Int /\ tm[n][1] \in Int
        BY <1>2, <3>1 DEF Exhausted, NodeSearched, Typed, NodeOK
      <4>2. MetricTo(m)[n + 1] = gamma[n] + tm[n][2]
        BY <2>1, <3>1, <3>2
      <4>3. MetricTo(m)[n + 1] < t
        BY <1>3, <1>4, <3>2, <4>1, <4>2
      <4> QED
        BY <2>1, <4>3 DEF Under
    <3>3. CASE i[n] = 1
      <4>1. Searched(n)
        BY <1>2, <3>3 DEF Exhausted, NodeSearched
      <4>2. PICK q \in Int : Delta * q <= t /\ Under(m, Delta * q)
        BY <3>1, <4>1 DEF Searched, Reaches
      <4>3. Delta * q \in Int
        OBVIOUS
      <4> QED
        BY <1>3, <4>2, <4>3, UnderMore
    <3> QED
      BY <1>3, <3>2, <3>3
  <2> QED
    BY <2>2, <2>3
<1>6. \A k \in 0..n : \A m : Through(m, k)' <=> Through(m, k)
  BY <1>1, ThroughStays
<1>7. PICK x \in Int : x = t /\ x = t'
  BY <1>1, <1>3
<1>8. Stuck'
  <2>1. ASSUME NEW m \in Messages, Through(m, n)'
        PROVE  Under(m, x)'
    <3>1. Through(m, n)
      BY <1>6, <2>1
    <3> QED
      BY <1>1, <1>5, <1>7, <3>1, UnderStays
  <2>2. np' = n
    BY <1>1, <1>2
  <2> QED
    BY <1>7, <2>1, <2>2 DEF Stuck, Messages, TailStart
<1>9. MetricsTrue' /\ NeverBelowAnyMessage'
  <2>1. n <= np /\ np' = n /\ np \in Nat /\ n \in Nat /\ t <= x
    BY <1>1, <1>2, <1>7
  <2> QED
    BY <1>1, <1>7, <2>1, MetricsStay, NeverBelowStays DEF Exhausted
<1>10. \A k \in 0..n : Visited(k)'
  BY <1>1, <1>2, VisitedStays DEF Exhausted
<1>11. ASSUME NEW k \in 0..n
       PROVE  NodeSearched(k)'
  <2>1. NodeSearched(k) /\ k \in Nat
    BY <1>2 DEF Exhausted
  <2>2. \A q \in Int : Reaches(k, q) => Reaches(k, q)'
    BY <1>1 DEF Reaches
  <2>3. Searched(k) => Searched(k)'
    BY <1>1, <2>1, <2>2, SearchedStays
  <2> QED
    BY <1>1, <2>1, <2>3 DEF NodeSearched, TailStart
<1>12. Path' = 0..n /\ np' = n
  BY <1>1, <1>2 DEF Path
<1> QED
  BY <1>1, <1>8, <1>9, <1>10, <1>11, <1>12 DEF Exhausted

\* Nothing but where the loop stands changes.
LEMMA StandingExhausted ==
  ASSUME Typed, Exhausted, Timeout \/ UNCHANGED vars
  PROVE  Exhausted'
<1> USE Limits
<1>1. /\ UNCHANGED <<symbols, np, t, gamma, encstate, tm, i, cycle>>
      /\ pc' = pc \/ (pc' = "done" /\ ~InTime)
  BY DEF Timeout, Same, vars, search
<1>2. PICK n \in Nat, x \in Int : n = np /\ n = np' /\ x = t /\ x = t'
  BY <1>1 DEF Typed, Nodes
<1>3. Path' = Path /\ Path \subseteq 0..n /\ InTime' = InTime
  BY <1>1, <1>2 DEF Path, InTime
<1>4. \A k \in 0..n : \A m : Through(m, k)' <=> Through(m, k)
  BY <1>1, ThroughStays
<1>5. pc' = "backward" => Stuck'
  <2>1. ASSUME NEW m \in Messages, Through(m, n)', Stuck
        PROVE  Under(m, x)'
    <3>1. Through(m, n)
      BY <1>4, <2>1
    <3> QED
      BY <1>1, <1>2, <2>1, <3>1, UnderStays DEF Stuck
  <2>2. Stuck => Stuck'
    BY <1>2, <2>1 DEF Stuck, Messages, TailStart
  <2> QED
    BY <1>1, <2>2 DEF Exhausted
<1>6. MetricsTrue' /\ NeverBelowAnyMessage'
  <2>1. n <= np /\ np' = n /\ np \in Nat /\ t <= x
    BY <1>2
  <2> QED
    BY <1>1, <1>2, <2>1, MetricsStay, NeverBelowStays DEF Exhausted
<1>7. \A k \in 0..n : Visited(k)'
  BY <1>1, <1>2, VisitedStays DEF Exhausted
<1>8. ASSUME NEW k \in Path
      PROVE  NodeSearched(k)'
  <2>1. NodeSearched(k) /\ k \in Nat
    BY <1>3 DEF Exhausted
  <2>2. \A q \in Int : Reaches(k, q) => Reaches(k, q)'
    BY <1>1 DEF Reaches
  <2>3. Searched(k) => Searched(k)'
    BY <1>1, <2>1, <2>2, SearchedStays
  <2> QED
    BY <1>1, <2>1, <2>3 DEF NodeSearched, TailStart
<1>9. pc' = "done" => np' = NBits \/ ~InTime'
  BY <1>1, <1>3 DEF Exhausted
<1>10. \A k \in 0..np' : Visited(k)'
  BY <1>2, <1>7
<1> QED
  BY <1>3, <1>5, <1>6, <1>8, <1>9, <1>10 DEF Exhausted

\* The threshold is relaxed where the node before is under it, so that it was
\* lower than now when fano() went there, or where everything is searched.
LEMMA RelaxExhausted ==
  ASSUME Typed, Hypothesis, AboveThreshold, Exhausted, Relax
  PROVE  Exhausted'
<1> USE Limits
<1>1. /\ UNCHANGED <<message, symbols, np, gamma, tm>> /\ t' = t - Delta
      /\ pc = "backward" /\ pc' = "forward" /\ (np = 0 \/ ~(gamma[np - 1] >= t))
  BY DEF Relax, Same, CanBackUp
<1>2. PICK n \in 0..(NBits - 1) :
        n = np /\ n = np' /\ n \in Nat /\ Path = 0..n /\ Path' = 0..n /\ n \in Nodes
  BY <1>1 DEF Typed, Nodes, Path
<1>3. i'[n] = 0 /\ \A j \in 0..(n - 1) : encstate'[j] = encstate[j] /\ i'[j] = i[j]
  <2>1. \A j \in 0..(n - 1) : j \in Nodes /\ j # n
    BY DEF Nodes
  <2>2. CASE i[np] # 0
    <3>1. /\ i' = [i EXCEPT ![n] = 0]
          /\ encstate' = [encstate EXCEPT ![n] = Flip(encstate[n])]
      BY <1>2, <2>2 DEF Relax
    <3> QED
      BY <1>2, <2>1, <3>1 DEF Typed
  <2>3. CASE i[np] = 0
    BY <1>2, <2>3 DEF Relax
  <2> QED
    BY <2>2, <2>3
<1>4. PICK r \in Int : t = Delta * r
  BY ThresholdStep
<1>5. PICK x \in Int, y \in Int : x = t /\ y = t' /\ y = x - Delta
  BY <1>1 DEF Typed
<1>6. n > 0 => gamma[n - 1] \in Int /\ gamma[n - 1] < x
  <2>1. n > 0 => n - 1 \in Nodes
    BY DEF Nodes
  <2> QED
    BY <1>1, <1>2, <1>5, <2>1 DEF Typed
<1>7. ASSUME NEW m \in Messages
      PROVE  Under(m, x)
  <2>1. CASE n = 0
    <3>1. Through(m, n)
      BY <2>1 DEF Through
    <3> QED
      BY <1>1, <1>2, <1>5, <3>1 DEF Exhausted, Stuck
  <2>2. CASE n > 0
    <3>1. PICK q \in Int : Delta * q <= gamma[n - 1] /\ AllUnder(q)
      <4>1. n - 1 \in 0..n
        BY <2>2
      <4> QED
        BY <1>2, <4>1 DEF Exhausted, Visited
    <3>2. Delta * q < Delta * r /\ Delta * q \in Int
      BY <1>4, <1>5, <1>6, <2>2, <3>1
    <3>3. Delta * q + Delta <= x /\ Delta * q + Delta \in Int
      BY <1>4, <1>5, <3>2, MultiplesApart
    <3> QED
      BY <3>1, <3>3, UnderMore DEF AllUnder
  <2> QED
    BY <1>2, <2>1, <2>2
<1>8. NeverBelowAnyMessage'
  <2>1. ASSUME NEW m \in Messages
        PROVE  Under(m, y + Delta)'
    <3>1. y + Delta = x
      BY <1>5
    <3> QED
      BY <1>1, <1>7, <3>1, UnderStays
  <2> QED
    BY <1>5, <2>1 DEF NeverBelowAnyMessage, Messages, TailStart
<1>9. ASSUME NEW k \in 0..n
      PROVE  NodeSearched(k)'
  <2>1. NodeSearched(k) /\ k \in Nat
    BY <1>2 DEF Exhausted
  <2>2. CASE k = n
    BY <1>1, <1>3, <2>1, <2>2 DEF NodeSearched, TailStart
  <2>3. CASE k # n
    <3>1. k \in 0..(n - 1) /\ n - 1 \in k..n /\ n > 0 /\ 0..k \subseteq 0..(n - 1)
      BY <2>3
    <3>2. ASSUME NEW q \in Int, Reaches(k, q)
          PROVE  Reaches(k, q)'
      <4>1. \A p \in k..n : Delta * q <= gamma[p]
        BY <1>2, <3>2 DEF Reaches
      <4>2. Delta * q < Delta * r /\ Delta * q \in Int
        BY <1>4, <1>5, <1>6, <3>1, <4>1
      <4>3. Delta * q <= y
        BY <1>4, <1>5, <4>2, MultiplesApart
      <4> QED
        BY <1>1, <1>2, <1>5, <4>1, <4>3 DEF Reaches
    <3>3. Searched(k) => Searched(k)'
      BY <1>1, <1>3, <2>1, <3>1, <3>2, SearchedStays
    <3> QED
      BY <1>1, <1>3, <2>1, <3>1, <3>3 DEF NodeSearched, TailStart
  <2> QED
    BY <2>2, <2>3
<1>10. MetricsTrue'
  <2>1. n <= np /\ np' = n /\ np \in Nat
    BY <1>2
  <2> QED
    BY <1>1, <1>2, <1>3, <2>1, MetricsStay DEF Exhausted
<1>11. \A k \in 0..n : Visited(k)'
  BY <1>1, <1>2, VisitedStays DEF Exhausted
<1> QED
  BY <1>1, <1>2, <1>8, <1>9, <1>10, <1>11 DEF Exhausted

\* A node that is turned leaves its first branch searched at this threshold.
LEMMA TurnedSearched ==
  ASSUME Typed, Hypothesis, AboveThreshold, Exhausted, symbols' = symbols,
         NEW n \in 0..(NBits - 1), n + 1 = np, np' = n, gamma' = gamma, t' = t,
         gamma[n] >= t, Stuck, encstate'[n] = Flip(encstate[n]),
         \A j \in 0..(n - 1) : encstate'[j] = encstate[j]
  PROVE  Searched(n)'
<1> USE Limits
<1>1. n \in Path /\ n \in Nat
  BY DEF Path, Typed, Nodes
<1>2. PICK r \in Int, x \in Int : t = Delta * r /\ x = t
  BY ThresholdStep DEF Typed
<1>3. Reaches(n, r)'
  <2>1. \A p \in n..n : p = n
    OBVIOUS
  <2> QED
    BY <1>2, <2>1 DEF Reaches, Typed
<1>4. PICK before \in Seq(Bit), b \in Bit : Branch(n, before, b)
  BY <1>1 DEF Hypothesis, Chosen
<1>5. encstate'[n] = Append(before, 1 - b) /\ encstate[n] = Append(before, b)
  BY <1>4, FlipLast DEF Branch
<1>6. ASSUME NEW m \in Messages, Leaves(m, n)'
      PROVE  Under(m, x)
  <2>1. Through(m, n)
    <3>1. n \in 0..n
      BY <1>1
    <3>2. Through(m, n)' <=> Through(m, n)
      BY <1>1, <3>1, ThroughStays
    <3> QED
      BY <1>6, <3>2 DEF Leaves
  <2>2. SubSeq(m, 1, n) = before /\ SubSeq(m, 1, n + 1) = Append(before, m[n + 1])
    <3>1. /\ SubSeq(m, 1, n) \in Seq(Bit) /\ Len(SubSeq(m, 1, n)) = n
          /\ SubSeq(m, 1, n + 1) = Append(SubSeq(m, 1, n), m[n + 1])
      BY MessageBits, PrefixGrows
    <3> HIDE DEF Leaves
    <3>2. CASE n = 0
      BY <1>4, <3>1, <3>2 DEF Branch
    <3>3. CASE n > 0
      BY <1>4, <2>1, <3>3 DEF Branch, Through
    <3>4. SubSeq(m, 1, n) = before
      BY <1>1, <3>2, <3>3
    <3> QED
      BY <3>1, <3>4
  <2>3. n + 1 > 0 /\ (n + 1) - 1 = n /\ m[n + 1] \in Bit
    BY MessageBits
  <2>4. SubSeq(m, 1, n + 1) # Append(before, 1 - b)
    <3>1. ~(n + 1 > 0 => SubSeq(m, 1, n + 1) = encstate'[(n + 1) - 1])
      BY <1>6 DEF Leaves, Through
    <3> QED
      BY <1>5, <2>3, <3>1
  <2>5. m[n + 1] = b
    BY <2>2, <2>3, <2>4 DEF Bit
  <2>6. Through(m, n + 1)
    BY <1>5, <2>2, <2>3, <2>5 DEF Through
  <2> QED
    BY <1>2, <2>6 DEF Stuck
<1>7. ASSUME NEW m \in Messages, Leaves(m, n)'
      PROVE  Under(m, Delta * r)'
  BY <1>2, <1>6, <1>7, UnderStays
<1> QED
  BY <1>3, <1>7 DEF Searched, Messages, TailStart

LEMMA BackUpExhausted ==
  ASSUME Typed, Hypothesis, AboveThreshold, Exhausted, BackUp
  PROVE  Exhausted'
<1> USE Limits
<1>1. /\ UNCHANGED <<message, symbols, t, gamma, tm>> /\ np' = np - 1
      /\ pc = "backward" /\ np # 0 /\ gamma[np - 1] >= t
  BY DEF BackUp, CanBackUp, Same
<1>2. PICK n \in 0..(NBits - 1) :
        /\ n + 1 = np /\ n = np - 1 /\ np' = n /\ n \in Nat /\ n \in Nodes
        /\ n \in Path /\ Path' = 0..n /\ 0..n \subseteq Path /\ gamma[n] >= t
  BY <1>1 DEF Typed, Nodes, Path
<1>3. PICK x \in Int : x = t /\ x = t'
  BY <1>1 DEF Typed
<1>4. Stuck
  BY <1>1 DEF Exhausted
<1>5. /\ \A j \in 0..(n - 1) : encstate'[j] = encstate[j] /\ i'[j] = i[j]
      /\ \/ /\ n < TailStart /\ i[n] = 0 /\ i'[n] = 1 /\ pc' = "forward"
            /\ encstate'[n] = Flip(encstate[n])
         \/ /\ (n >= TailStart \/ i[n] = 1) /\ pc' = "backward"
            /\ UNCHANGED <<encstate, i>>
  <2>1. \A j \in 0..(n - 1) : j \in Nodes /\ j # n
    BY <1>2 DEF Nodes
  <2>2. CASE n < TailStart /\ i[n] # 1
    <3>1. /\ i' = [i EXCEPT ![n] = 1] /\ pc' = "forward"
          /\ encstate' = [encstate EXCEPT ![n] = Flip(encstate[n])]
      BY <1>2, <2>2 DEF BackUp
    <3>2. i[n] = 0
      BY <1>2, <2>2 DEF Typed
    <3> QED
      BY <1>2, <2>1, <2>2, <3>1, <3>2 DEF Typed
  <2>3. CASE ~(n < TailStart /\ i[n] # 1)
    BY <1>1, <1>2, <2>3 DEF BackUp
  <2> QED
    BY <2>2, <2>3
<1>6. ASSUME NEW k \in 0..n, Searched(k), \A j \in 0..k : encstate'[j] = encstate[j]
      PROVE  Searched(k)'
  <2>1. ASSUME NEW q \in Int, Reaches(k, q)
        PROVE  Reaches(k, q)'
    <3>1. \A p \in k..n : p \in k..np
      BY <1>2
    <3> QED
      BY <1>1, <1>2, <2>1, <3>1 DEF Reaches
  <2> QED
    BY <1>1, <1>6, <2>1, SearchedStays
<1>7. ASSUME NEW k \in 0..n
      PROVE  NodeSearched(k)'
  <2>1. NodeSearched(k)
    BY <1>2 DEF Exhausted
  <2>2. CASE k # n \/ (encstate' = encstate /\ i' = i)
    <3>1. i'[k] = i[k] /\ \A j \in 0..k : encstate'[j] = encstate[j]
      <4>1. CASE k # n
        <5>1. k \in 0..(n - 1) /\ \A j \in 0..k : j \in 0..(n - 1)
          BY <4>1
        <5> QED
          BY <1>5, <5>1
      <4> QED
        BY <2>2, <4>1
    <3> QED
      BY <1>1, <1>6, <2>1, <3>1 DEF NodeSearched, TailStart
  <2>3. CASE k = n /\ ~(encstate' = encstate /\ i' = i)
    <3>1. encstate'[n] = Flip(encstate[n])
      BY <1>5, <2>3
    <3>2. Searched(n)'
      BY <1>1, <1>2, <1>4, <1>5, <3>1, TurnedSearched
    <3> QED
      BY <1>1, <2>1, <2>3, <3>2 DEF NodeSearched, TailStart
  <2> QED
    BY <2>2, <2>3
<1>8. ASSUME pc' = "backward"
      PROVE  Stuck'
  <2>1. (n >= TailStart \/ i[n] = 1) /\ encstate' = encstate
    BY <1>5, <1>8
  <2>2. ASSUME NEW m \in Messages, Through(m, n)
        PROVE  Under(m, x)
    <3>1. CASE Through(m, n + 1)
      BY <1>2, <1>3, <1>4, <3>1 DEF Stuck
    <3>2. CASE ~Through(m, n + 1)
      <4>1. Leaves(m, n)
        BY <2>2, <3>2 DEF Leaves
      <4>2. n < TailStart
        BY <1>2, <4>1, NextBranch
      <4>3. Searched(n)
        BY <1>2, <2>1, <4>2 DEF Exhausted, NodeSearched
      <4>4. PICK q \in Int : Delta * q <= x /\ Under(m, Delta * q)
        BY <1>3, <4>1, <4>3 DEF Searched, Reaches
      <4>5. Delta * q \in Int
        OBVIOUS
      <4> QED
        BY <4>4, <4>5, UnderMore
    <3> QED
      BY <3>1, <3>2
  <2>3. ASSUME NEW m \in Messages, Through(m, n)'
        PROVE  Under(m, x)'
    <3>1. Through(m, n)
      BY <2>1, <2>3 DEF Through
    <3> QED
      BY <1>1, <2>2, <3>1, UnderStays
  <2> QED
    BY <1>2, <1>3, <2>3 DEF Stuck, Messages, TailStart
<1>9. MetricsTrue' /\ NeverBelowAnyMessage'
  <2>1. n <= np /\ np \in Nat /\ t <= x
    BY <1>2, <1>3
  <2>2. MetricsTrue'
    BY <1>1, <1>2, <1>5, <2>1, MetricsStay DEF Exhausted
  <2> QED
    BY <1>1, <1>3, <2>1, <2>2, NeverBelowStays DEF Exhausted
<1>10. \A k \in 0..n : Visited(k)'
  <2>1. \A k \in 0..n : k \in 0..np
    BY <1>2
  <2> QED
    BY <1>1, <2>1, VisitedStays DEF Exhausted
<1>11. pc' # "done"
  BY <1>5
<1> QED
  BY <1>2, <1>7, <1>8, <1>9, <1>10, <1>11 DEF Exhausted

LEMMA ExhaustedStep ==
  Typed /\ AboveThreshold /\ Hypothesis /\ Exhausted /\ [Next]_vars => Exhausted'
BY ForwardExhausted, ViolatedExhausted, RelaxExhausted, BackUpExhausted,
   StandingExhausted DEF Next

\* However the metrics of a reception are, fano() never relaxes its threshold
\* further than to the step under the lowest point of the best message: what
\* it has given up at a higher threshold was really worse.
THEOREM ThresholdNeverBelow == Spec => []NeverBelowAnyMessage
<1>1. Init => Typed /\ AboveThreshold /\ Hypothesis /\ Exhausted
  BY InitTyped, InitHypothesis, InitExhausted
<1>2. Typed /\ AboveThreshold /\ Hypothesis /\ Exhausted /\ [Next]_vars
        => Typed' /\ AboveThreshold' /\ Hypothesis' /\ Exhausted'
  BY SearchStep, HypothesisStep, ExhaustedStep
<1>3. Exhausted => NeverBelowAnyMessage
  BY DEF Exhausted
<1> QED
  BY <1>1, <1>2, <1>3, PTL DEF Spec

-----------------------------------------------------------------------------
(* The result.                                                             *)

\* Every node of the path holds the bits of those before it.
LEMMA PathPrefix ==
  ASSUME Typed, Hypothesis
  PROVE  \A k \in Path : \A j \in 0..k : \A p \in 1..(j + 1) :
           encstate[k][p] = encstate[j][p]
<1> USE Limits
<1> DEFINE Prefix(k) == \A j \in 0..k : \A p \in 1..(j + 1) : encstate[k][p] = encstate[j][p]
           T == {k \in Path : ~Prefix(k)}
<1>1. Path \subseteq Nat /\ \A k \in Path : k > 0 => k - 1 \in Path
  BY DEF Path, Typed, Nodes
<1>2. SUFFICES ASSUME T # {} PROVE FALSE
  OBVIOUS
<1>3. PICK x \in T : \A y \in T : x <= y
  <2>1. T \subseteq Nat
    BY <1>1
  <2> HIDE DEF T
  <2> QED
    BY <1>2, <2>1, LeastNumber
<1>4. x \in Path /\ x \in Nat /\ ~Prefix(x)
  BY <1>1
<1>5. CASE x = 0
  <2>1. \A j \in 0..x : j = x
    BY <1>5
  <2> QED
    BY <1>4, <2>1
<1>6. CASE x > 0
  <2>1. x - 1 \in Path /\ x - 1 < x /\ x - 1 \in Nat
    BY <1>1, <1>4, <1>6
  <2>2. Prefix(x - 1)
    <3> HIDE DEF Prefix
    <3>1. x - 1 \in T => x <= x - 1
      BY <1>3
    <3> QED
      BY <1>4, <2>1, <3>1
  <2>3. \A p \in 1..x : encstate[x][p] = encstate[x - 1][p]
    <3>1. encstate[x - 1] = SubSeq(encstate[x], 1, x) /\ Len(encstate[x]) = x + 1
      BY <1>4, <1>6, HypothesisIsConsistent DEF HypothesisConsistent
    <3>2. encstate[x] \in Seq(Bit)
      <4>1. x \in Nodes
        BY <1>4 DEF Path, Typed, Nodes
      <4> QED
        BY <4>1 DEF Typed
    <3>3. PICK s \in Seq(Bit) : s = encstate[x]
      BY <3>2
    <3>4. \A p \in 1..x : SubSeq(s, 1, x)[p] = s[p]
      BY <1>4, <3>1, <3>3
    <3> QED
      BY <3>1, <3>3, <3>4
  <2>4. ASSUME NEW j \in 0..x, NEW p \in 1..(j + 1)
        PROVE  encstate[x][p] = encstate[j][p]
    <3>1. CASE j = x
      BY <3>1
    <3>2. CASE j # x
      <4>1. j \in 0..(x - 1) /\ p \in 1..x
        BY <1>4, <3>2
      <4>2. encstate[x - 1][p] = encstate[j][p]
        BY <2>2, <4>1
      <4> QED
        BY <2>3, <4>1, <4>2
    <3> QED
      BY <3>1, <3>2
  <2> QED
    BY <1>4, <2>4
<1> QED
  BY <1>4, <1>5, <1>6

\* A byte is the end of the bits of the node with its last bit.
LEMMA ByteOfPath ==
  ASSUME Typed, Hypothesis, np = NBits, NEW b \in 1..(NBits \div ByteBits),
         NEW m \in [1..NBits -> Bit], \A j \in 1..NBits : m[j] = encstate[NBits - 1][j]
  PROVE  Byte(b) = SubSeq(m, ByteBits * (b - 1) + 1, ByteBits * b)
<1> USE Limits
<1>1. ByteBits \in Nat \ {0} /\ NBits \in Nat \ {0}
  BY SizesAssumption
<1>2. PICK last \in Nat, first \in Nat :
        /\ last = ByteBits * b /\ first = last - ByteBits + 1 /\ 1 <= first
        /\ first = ByteBits * (b - 1) + 1 /\ first <= last /\ last <= NBits
  <2> DEFINE q == NBits \div ByteBits
             l == ByteBits * b
             c == b - 1
  <2>1. q \in Int /\ ByteBits * q <= NBits
    BY <1>1, Division
  <2>2. c \in Nat /\ b = c + 1 /\ q - b \in Nat
    BY <1>1, <2>1
  <2>3. ByteBits * c \in Nat /\ l = ByteBits * c + ByteBits
    BY <1>1, <2>2
  <2>4. ByteBits * q = l + ByteBits * (q - b) /\ ByteBits * (q - b) \in Nat
    BY <1>1, <2>1, <2>2
  <2>5. PICK z \in Nat : z = ByteBits * c
    BY <2>3
  <2>6. l = z + ByteBits /\ l \in Nat
    BY <1>1, <2>3, <2>5
  <2>7. l <= NBits
    BY <1>1, <2>1, <2>4, <2>6
  <2>8. l - ByteBits + 1 \in Nat /\ 1 <= l - ByteBits + 1 /\ l - ByteBits + 1 <= l
        /\ l - ByteBits + 1 = ByteBits * (b - 1) + 1
    BY <1>1, <2>5, <2>6
  <2> HIDE DEF l
  <2> QED
    BY <2>6, <2>7, <2>8 DEF l
<1>3. PICK k \in Path : k = last - 1 /\ k \in 0..(NBits - 1)
  BY <1>1, <1>2 DEF Path
<1>4. Len(encstate[k]) = last /\ encstate[k] \in Seq(Bit)
  <2>1. Len(encstate[k]) = k + 1
    BY HypothesisIsConsistent DEF HypothesisConsistent
  <2>2. encstate[k] \in Seq(Bit)
    BY <1>3 DEF Typed, Nodes
  <2> QED
    BY <1>2, <1>3, <2>1, <2>2
<1>5. \A p \in 1..last : encstate[k][p] = m[p]
  <2>1. NBits - 1 \in Path /\ k \in 0..(NBits - 1)
    BY <1>1, <1>3 DEF Path
  <2>2. \A p \in 1..(k + 1) : encstate[NBits - 1][p] = encstate[k][p]
    BY <2>1, PathPrefix
  <2>3. \A p \in 1..last : p \in 1..(k + 1) /\ p \in 1..NBits
    BY <1>1, <1>2, <1>3
  <2> QED
    BY <2>2, <2>3
<1>6. PICK s \in Seq(Bit) : s = encstate[k]
  BY <1>4
<1>7. m \in Seq(Bit) /\ Len(m) = NBits /\ Len(s) = last
  BY <1>1, <1>4, <1>6
<1>8. Byte(b) = SubSeq(s, first, last)
  BY <1>2, <1>3, <1>4, <1>6 DEF Byte
<1>9. SubSeq(s, first, last) = SubSeq(m, first, last)
  <2> DEFINE f == SubSeq(s, first, last)
             g == SubSeq(m, first, last)
  <2>1. /\ f \in Seq(Bit) /\ Len(f) = last - first + 1
        /\ \A p \in 1..(last - first + 1) : f[p] = s[first + p - 1]
    BY <1>1, <1>2, <1>7
  <2>2. /\ g \in Seq(Bit) /\ Len(g) = last - first + 1
        /\ \A p \in 1..(last - first + 1) : g[p] = m[first + p - 1]
    BY <1>1, <1>2, <1>7
  <2>3. ASSUME NEW p \in 1..(last - first + 1) PROVE first + p - 1 \in 1..last
    <3>1. first \in Nat /\ last \in Nat /\ 1 <= first
      BY <1>2
    <3> QED
      BY <3>1
  <2> HIDE DEF f, g
  <2>4. \A p \in 1..(last - first + 1) : f[p] = g[p]
    BY <1>5, <1>6, <2>1, <2>2, <2>3
  <2>5. f = g
    BY <1>2, <2>1, <2>2, <2>4
  <2> QED
    BY <2>5 DEF f, g
<1> QED
  BY <1>2, <1>8, <1>9

LEMMA ResultIsMessage ==
  ASSUME Typed, Hypothesis, Exhausted
  PROVE  SuccessIsMessage
<1> USE Limits
<1> SUFFICES ASSUME Succeeded
             PROVE  \E m \in Messages : gamma[NBits] = MetricTo(m)[NBits] /\ Returns(m)
  BY DEF SuccessIsMessage
<1>1. np = NBits /\ NBits - 1 \in Path /\ NBits \in Nat \ {0} /\ Path = 0..(NBits - 1)
  BY DEF Succeeded, Exhausted, InTime, Typed, Path
<1>2. PICK last \in Seq(Bit) : last = encstate[NBits - 1] /\ Len(last) = NBits
  <2>1. encstate[NBits - 1] \in Seq(Bit)
    BY <1>1 DEF Typed, Nodes
  <2>2. Len(encstate[NBits - 1]) = (NBits - 1) + 1
    BY <1>1, HypothesisIsConsistent DEF HypothesisConsistent
  <2> QED
    BY <1>1, <2>1, <2>2
<1>3. last \in [1..NBits -> Bit]
  BY <1>2
<1>4. ASSUME NEW p \in (TailStart + 1)..NBits
      PROVE  last[p] = 0
  <2>1. p - 1 \in Path /\ p - 1 >= TailStart /\ (p - 1) + 1 = p /\ p - 1 \in 0..(NBits - 1)
    BY <1>1
  <2>2. encstate[p - 1][p] = 0
    BY <2>1, HypothesisIsConsistent DEF HypothesisConsistent
  <2>3. p \in 1..((p - 1) + 1)
    BY <2>1
  <2>4. encstate[NBits - 1][p] = encstate[p - 1][p]
    BY <1>1, <2>1, <2>3, PathPrefix
  <2> QED
    BY <1>2, <2>2, <2>4
<1>5. last \in Messages
  BY <1>3, <1>4 DEF Messages
<1>6. Through(last, NBits)
  <2>1. SubSeq(last, 1, NBits) = last
    BY <1>1, <1>2
  <2> QED
    BY <1>2, <2>1 DEF Through
<1>7. gamma[NBits] = MetricTo(last)[NBits]
  <2>1. NBits \in 0..np
    BY <1>1
  <2> QED
    BY <1>5, <1>6, <2>1 DEF Exhausted, MetricsTrue
<1>8. Returns(last)
  BY <1>1, <1>2, <1>3, ByteOfPath DEF Returns
<1> QED
  BY <1>5, <1>7, <1>8

\* Where fano() returns success, its bytes are those of one message with zeros
\* in its tail, and the metric it returns is the metric of that message.
THEOREM SuccessReturnsMessage == Spec => []SuccessIsMessage
<1>1. Init => Typed /\ AboveThreshold /\ Hypothesis /\ Exhausted
  BY InitTyped, InitHypothesis, InitExhausted
<1>2. Typed /\ AboveThreshold /\ Hypothesis /\ Exhausted /\ [Next]_vars
        => Typed' /\ AboveThreshold' /\ Hypothesis' /\ Exhausted'
  BY SearchStep, HypothesisStep, ExhaustedStep
<1> QED
  BY <1>1, <1>2, ResultIsMessage, PTL DEF Spec

=============================================================================
