---------------------------- MODULE RoundProofs -----------------------------
(***************************************************************************)
(* What the rounds of RoundTrip, LowLatency and DailyBacklog keep whatever *)
(* their constants: the schedule's threads leave what one thread in matrix *)
(* order would have, the ledger they fold into remembers and agrees with   *)
(* its own figures, the steady transport stays green and the pairs take    *)
(* even turns; a spike fades from the tail, and the backlog is drained     *)
(* once.                                                                   *)
(***************************************************************************)
EXTENDS ScenariosProofs, FoldLemmas

-----------------------------------------------------------------------------
(* DailyBacklog: what arrived waits or was drained. *)

\* What a process's arrivals leave of it once what it drained is taken off.
Kept == [f \in Feeder |-> fed[f] - drainedBy[f]]

\* What every process fed and did not drain is, over all of them, what waits.
BacklogInv ==
    /\ files \in [Feeder -> Int]
    /\ fed \in [Feeder -> Int]
    /\ drainedBy \in [Feeder -> Int]
    /\ SumFunction(Kept) = SumFunction(files)

LEMMA BacklogFirst == BacklogInit => BacklogInv
<1> SUFFICES ASSUME BacklogInit PROVE BacklogInv
  OBVIOUS
<1>1. DOMAIN Kept = Feeder /\ DOMAIN files = Feeder /\ IsFiniteSet(Feeder)
  BY BacklogAssumption DEF BacklogInit, Kept
<1>2. \A f \in Feeder : Kept[f] = 0 /\ files[f] = 0
  BY BacklogAssumption DEF BacklogInit, Kept
<1>3. SumFunction(Kept) = 0 /\ SumFunction(files) = 0
  BY <1>1, <1>2, SumOfNone
<1> QED BY <1>3 DEF BacklogInit, BacklogInv

LEMMA KeptType == BacklogInv => Kept \in [Feeder -> Int]
BY BacklogAssumption DEF BacklogInv, Kept

LEMMA ArriveStep == ASSUME BacklogInv, NEW f \in Feeder, Arrive(f) PROVE BacklogInv'
<1> USE BacklogAssumption
<1>0. PICK landed \in Landing : /\ files' = [files EXCEPT ![f] = @ + landed]
                                /\ fed'   = [fed EXCEPT ![f] = @ + landed]
  BY DEF Arrive
<1>1. /\ files' \in [Feeder -> Int] /\ fed' \in [Feeder -> Int] /\ landed \in Int
      /\ drainedBy' \in [Feeder -> Int] /\ drainedBy' = drainedBy
  BY <1>0 DEF BacklogInv, Arrive
<1>2. Kept \in [Feeder -> Int] /\ Kept' \in [Feeder -> Int]
  BY <1>1, KeptType DEF Kept
<1>3. /\ files'[f] - files[f] = landed
      /\ \A g \in Feeder : g # f => files'[g] = files[g]
  BY <1>0, <1>1 DEF BacklogInv
<1>4. fed'[f] = fed[f] + landed /\ \A g \in Feeder : g # f => fed'[g] = fed[g]
  BY <1>0 DEF BacklogInv
<1>5. Kept'[f] - Kept[f] = landed /\ \A g \in Feeder : g # f => Kept'[g] = Kept[g]
  BY <1>1, <1>2, <1>4 DEF Kept, BacklogInv
<1>6. SumFunction(files') = SumFunction(files) + (files'[f] - files[f])
  BY <1>1, <1>3, SumChange DEF BacklogInv
<1>7. SumFunction(Kept') = SumFunction(Kept) + (Kept'[f] - Kept[f])
  BY <1>2, <1>5, SumChange
<1>8. SumFunction(Kept') = SumFunction(files')
  BY <1>3, <1>5, <1>6, <1>7 DEF BacklogInv
<1> QED BY <1>1, <1>8 DEF BacklogInv

LEMMA DrainStep == ASSUME BacklogInv, NEW f \in Feeder, Drain(f) PROVE BacklogInv'
<1> USE BacklogAssumption
<1>1. PICK left \in listing[f] - lost[f] .. Min({listing[f], Waiting}),
           taken \in [Feeder -> 0 .. Max({capacity(f), 0})] :
          LET removed == Min({capacity(f), left})
          IN  /\ SumFunction(taken) = removed
              /\ files' = [g \in Feeder |-> files[g] - taken[g]]
              /\ drainedBy' = [drainedBy EXCEPT ![f] = @ + processed(f, removed)]
  BY Zenon DEF Drain
<1> DEFINE removed == Min({capacity(f), left})
<1>2. taken \in [Feeder -> Int]
  BY <1>1
<1>3. SumFunction(taken) \in Int /\ removed \in Int /\ SumFunction(taken) = removed
  BY <1>1, <1>2, SumIsInt
<1> HIDE DEF removed
<1>4. files' = [g \in Feeder |-> files[g] - taken[g]] /\ drainedBy' = [drainedBy EXCEPT ![f] = @ + removed]
  BY <1>1 DEF removed, processed
<1>5. /\ files' \in [Feeder -> Int] /\ fed' = fed
      /\ drainedBy' \in [Feeder -> Int]
  BY <1>2, <1>3, <1>4 DEF BacklogInv, Drain
<1>6. Kept \in [Feeder -> Int] /\ Kept' \in [Feeder -> Int]
  BY <1>5, KeptType DEF Kept, BacklogInv
<1>7. SumFunction(files') = SumFunction(files) - SumFunction(taken)
  BY <1>2, <1>4, <1>5, SumDiffer DEF BacklogInv
<1>8. Kept'[f] - Kept[f] = 0 - removed /\ \A g \in Feeder : g # f => Kept'[g] = Kept[g]
  BY <1>3, <1>4, <1>5, <1>6 DEF Kept, BacklogInv
<1>9. SumFunction(Kept') = SumFunction(Kept) + (Kept'[f] - Kept[f])
  BY <1>6, <1>8, SumChange
<1>10. SumFunction(files) \in Int
  BY SumIsInt DEF BacklogInv
<1>11. SumFunction(Kept') = SumFunction(files')
  BY <1>3, <1>7, <1>8, <1>9, <1>10 DEF BacklogInv
<1> QED BY <1>5, <1>11 DEF BacklogInv

LEMMA BacklogStep == ASSUME BacklogInv, BacklogNext PROVE BacklogInv'
<1>1. ASSUME NEW f \in Feeder, List(f) \/ Measure(f) PROVE BacklogInv'
  BY <1>1 DEF BacklogInv, List, Measure, Kept
<1> QED BY <1>1, ArriveStep, DrainStep DEF BacklogNext

LEMMA BacklogStill == ASSUME BacklogInv, UNCHANGED backlogVars PROVE BacklogInv'
BY DEF BacklogInv, backlogVars, Kept

-----------------------------------------------------------------------------
(* LowLatency: a spike fades. *)

\* The place after the last is the first.
LEMMA NextRemainder ==
    ASSUME NEW a \in Nat, NEW m \in Nat, a < m
    PROVE  (a + 1) % m = IF a + 1 = m THEN 0 ELSE a + 1
<1> DEFINE b == a + 1
           r == b % m
           d == b \div m
<1>1. b \in Nat /\ m > 0 /\ d \in Int /\ r \in Nat /\ r < m /\ m * d + r = b
  BY Remainder
<1> HIDE DEF r, d
<1>2. CASE a + 1 = m
  <2>1. m * d + r = m * 1 + 0
    BY <1>1, <1>2
  <2>2. r = 0
    BY <1>1, <2>1, OneRemainder
  <2> QED BY <1>2, <2>2 DEF r
<1>3. CASE a + 1 # m
  <2>1. m * d + r = m * 0 + b /\ b < m
    BY <1>1, <1>3
  <2>2. r = b
    BY <1>1, <2>1, OneRemainder
  <2> QED BY <1>3, <2>2 DEF r
<1> QED BY <1>2, <1>3

\* How many samples were recorded after the one at a place of the ring.
Age(ring, n) == IF n <= ring.next THEN ring.next - n
                ELSE ring.next + Len(ring.samples) - n

\* A ring whose last few samples are within a limit.
Calm(ring, few, limit) ==
    /\ ring \in [samples: Seq(Nat), next: 0 .. RING - 1]
    /\ Len(ring.samples) <= RING
    /\ Len(ring.samples) < RING => ring.next = 0
    /\ few \in 0 .. Len(ring.samples)
    /\ \A n \in 1 .. Len(ring.samples) : Age(ring, n) < few => ring.samples[n] <= limit

LEMMA NoRingCalm == ASSUME NEW limit \in Nat PROVE Calm(NoRing, 0, limit)
BY LatencyAssumption DEF Calm, NoRing, Age

\* What a sample does to how many of the last were within the limit.
Fewer(few, limit, micros) == IF micros <= limit THEN Least({RING, few + 1}) ELSE 0

LEMMA RecordCalm ==
    ASSUME NEW ring, NEW few, NEW limit \in Nat, Calm(ring, few, limit), NEW micros \in Nat
    PROVE  Calm(ring_record(ring, micros), Fewer(few, limit, micros), limit)
<1> DEFINE s == ring.samples
           r == ring_record(ring, micros)
           q == Fewer(few, limit, micros)
<1> USE LatencyAssumption
<1>1. /\ s \in Seq(Nat) /\ Len(s) \in Nat /\ ring.next \in 0 .. RING - 1
      /\ Len(s) <= RING /\ few \in 0 .. Len(s)
      /\ Len(s) < RING => ring.next = 0
  BY DEF Calm
<1>2. /\ q \in 0 .. RING /\ q <= few + 1 /\ (micros > limit => q = 0)
  <2>1. RING \in Nat /\ few \in Nat
    BY <1>1
  <2> HIDE LatencyAssumption
  <2>2. RING \in Int /\ few + 1 \in Int
    BY <2>1
  <2>3. Least({RING, few + 1}) = IF RING <= few + 1 THEN RING ELSE few + 1
    BY <2>2, LeastOf
  <2> QED BY <2>1, <2>3 DEF Fewer
<1>3. CASE Len(s) < RING
  <2>1. r = [samples |-> Append(s, micros), next |-> ring.next]
    BY <1>3 DEF ring_record, Calm
  <2>2. Append(s, micros) \in Seq(Nat) /\ Len(Append(s, micros)) = Len(s) + 1
    BY <1>1
  <2>3. ASSUME NEW n \in 1 .. Len(s) + 1, Age(r, n) < q PROVE r.samples[n] <= limit
    <3>1. CASE n = Len(s) + 1
      <4>1. Age(r, n) = 0
        BY <1>1, <1>3, <2>1, <2>2, <3>1 DEF Age
      <4>2. r.samples[n] = micros
        BY <1>1, <2>1, <3>1
      <4> QED BY <1>2, <2>3, <4>1, <4>2
    <3>2. CASE n # Len(s) + 1
      <4>1. n \in 1 .. Len(s) /\ r.samples[n] = s[n]
        BY <1>1, <2>1, <3>2
      <4>2. Age(r, n) = Age(ring, n) + 1
        BY <1>1, <1>3, <2>1, <2>2, <4>1 DEF Age
      <4>3. Age(ring, n) \in Int
        <5>1. ring.next = 0 /\ Len(s) \in Int /\ n \in Int
          BY <1>1, <1>3
        <5> QED BY ONLY <5>1 DEF Age
      <4>4. few \in Int /\ q \in Int /\ q <= few + 1
        BY <1>1, <1>2
      <4>5. \A k \in 1 .. Len(s) : Age(ring, k) < few => s[k] <= limit
        BY DEF Calm
      <4>6. Age(ring, n) < few
        <5> HIDE DEF r, q
        <5> QED BY <2>3, <4>2, <4>3, <4>4
      <4> QED BY <4>1, <4>5, <4>6
    <3> QED BY <3>1, <3>2
  <2>4. q \in 0 .. Len(s) + 1
    BY <1>1, <1>2
  <2>5. /\ r \in [samples: Seq(Nat), next: 0 .. RING - 1] /\ Len(r.samples) = Len(s) + 1
        /\ r.next = 0
    BY <1>1, <1>3, <2>1, <2>2
  <2> HIDE DEF r, q, s
  <2> QED BY <1>1, <1>3, <2>3, <2>4, <2>5 DEF Calm, r, q
<1>4. CASE Len(s) = RING
  <2> DEFINE e == [s EXCEPT ![ring.next + 1] = micros]
             nxt == (ring.next + 1) % RING
  <2>1. r = [samples |-> e, next |-> nxt]
    BY <1>1, <1>4 DEF ring_record, Calm
  <2>2. e \in Seq(Nat) /\ Len(e) = Len(s)
    BY <1>1, <1>4
  <2>3. nxt = IF ring.next + 1 = RING THEN 0 ELSE ring.next + 1
    <3>1. ring.next \in Nat /\ RING \in Nat /\ ring.next < RING
      BY <1>1
    <3> QED BY <3>1, NextRemainder
  <2> HIDE DEF nxt
  <2>4. /\ e[ring.next + 1] = micros
        /\ \A n \in 1 .. Len(s) : n # ring.next + 1 => e[n] = s[n]
    BY <1>1, <1>4
  <2> HIDE DEF e
  <2>5. ASSUME NEW n \in 1 .. Len(s), Age(r, n) < q PROVE r.samples[n] <= limit
    <3>1. CASE n = ring.next + 1
      <4>1. Age(r, n) = 0
        BY <1>1, <1>4, <2>1, <2>2, <2>3, <3>1 DEF Age
      <4> QED BY <1>2, <2>1, <2>4, <2>5, <3>1, <4>1
    <3>2. CASE n # ring.next + 1
      <4>1. r.samples[n] = s[n]
        BY <2>1, <2>4, <3>2
      <4>2. Age(r, n) = Age(ring, n) + 1 /\ Age(ring, n) \in Int
        <5>1. r.next = nxt /\ Len(r.samples) = RING /\ Len(ring.samples) = RING
          BY <1>4, <2>1, <2>2
        <5>2. Age(r, n) = IF n <= nxt THEN nxt - n ELSE nxt + RING - n
          BY <5>1 DEF Age
        <5>3. Age(ring, n) = IF n <= ring.next THEN ring.next - n ELSE ring.next + RING - n
          BY <5>1 DEF Age
        <5>4. ring.next \in Nat /\ ring.next < RING /\ RING \in Nat /\ n \in 1 .. RING
          BY <1>1, <1>4
        <5>5. \A a, b, m, k \in Nat :
                 /\ a < m /\ 1 <= k /\ k <= m /\ k # a + 1
                 /\ b = (IF a + 1 = m THEN 0 ELSE a + 1)
                 => (IF k <= b THEN b - k ELSE b + m - k)
                      = (IF k <= a THEN a - k ELSE a + m - k) + 1
          OBVIOUS
        <5>6. nxt \in Nat /\ n \in Nat /\ 1 <= n /\ n <= RING
          BY <2>3, <5>4
        <5>7. Age(r, n) = Age(ring, n) + 1
          BY <2>3, <3>2, <5>2, <5>3, <5>4, <5>5, <5>6
        <5>8. Age(ring, n) \in Int
          BY <5>3, <5>4
        <5> QED BY <5>7, <5>8
      <4>3. few \in Int /\ q \in Int /\ q <= few + 1
        BY <1>1, <1>2
      <4>4. \A k \in 1 .. Len(s) : Age(ring, k) < few => s[k] <= limit
        BY DEF Calm
      <4>5. Age(ring, n) < few
        <5> HIDE DEF r, q
        <5> QED BY <2>5, <4>2, <4>3
      <4> QED BY <4>1, <4>4, <4>5
    <3> QED BY <3>1, <3>2
  <2>6. nxt \in 0 .. RING - 1
    BY <1>1, <2>3
  <2>7. /\ r \in [samples: Seq(Nat), next: 0 .. RING - 1] /\ Len(r.samples) = Len(s)
    BY <2>1, <2>2, <2>6
  <2>8. /\ Len(r.samples) <= RING /\ q \in 0 .. Len(r.samples)
        /\ Len(r.samples) < RING => r.next = 0
    BY <1>1, <1>2, <1>4, <2>7
  <2>9. Calm(r, q, limit)
    <3> HIDE DEF r, q, s
    <3> QED BY <2>5, <2>7, <2>8 DEF Calm
  <2> QED BY <2>9
<1> QED BY <1>1, <1>3, <1>4

\* The percentile of samples that are all within a limit is within it.
LEMMA PercentileWithin ==
    ASSUME NEW ring, ring.samples \in Seq(Nat), NEW limit \in Nat,
           \A n \in 1 .. Len(ring.samples) : ring.samples[n] <= limit
    PROVE  percentile(ring, 99) \in 0 .. limit
<1> DEFINE s == ring.samples
           rank == (99 * (Len(s) - 1)) \div 100
           UpTo(v) == {n \in DOMAIN s : s[n] <= v}
           Far == {v \in Range(s) : Cardinality(UpTo(v)) > rank}
<1>1. CASE s = <<>>
  BY <1>1 DEF percentile
<1>2. CASE s # <<>>
  <2>1. s \in Seq(Nat) /\ Len(s) \in Nat /\ Len(s) > 0 /\ DOMAIN s = 1 .. Len(s)
    BY <1>2
  <2>2. Range(s) \in SUBSET Nat /\ Range(s) # {} /\ \A v \in Range(s) : v <= limit
    <3>1. Range(s) = {s[n] : n \in 1 .. Len(s)}
      BY <2>1 DEF Range
    <3>2. \A n \in 1 .. Len(s) : s[n] \in Nat
      BY <2>1
    <3>3. s[1] \in Range(s)
      BY <2>1, <3>1
    <3> HIDE DEF s
    <3> QED BY <3>1, <3>2, <3>3 DEF s
  <2>3. Max(Range(s)) \in Range(s) /\ \A v \in Range(s) : v <= Max(Range(s))
    BY <2>2, MaxExists
  <2>4. UpTo(Max(Range(s))) = 1 .. Len(s)
    BY <2>1, <2>3 DEF Range
  <2>5. Cardinality(1 .. Len(s)) = Len(s)
    BY <2>1, FS_Interval
  <2>6. rank < Len(s)
    <3> DEFINE k == Len(s) - 1
    <3>1. k \in Nat /\ k + 1 = Len(s)
      BY <2>1
    <3> HIDE DEF k
    <3>2. (99 * k) \div 100 < k + 1
      BY <3>1
    <3> QED BY <3>1, <3>2 DEF k
  <2>7. Max(Range(s)) \in Far
    BY <2>3, <2>4, <2>5, <2>6
  <2>8. Far # {} /\ Far \in SUBSET Nat /\ \A v \in Far : v <= limit
    BY <2>2, <2>7
  <2>9. percentile(ring, 99) = Least(Far)
    BY <1>2 DEF percentile
  <2> HIDE DEF Far
  <2>10. Least(Far) \in Far
    BY <2>8, LeastExists DEF Least
  <2>11. Least(Far) \in Nat /\ Least(Far) <= limit
    BY <2>8, <2>10
  <2> QED BY <2>9, <2>11
<1> QED BY <1>1, <1>2

LEMMA CalmIsFine ==
    ASSUME NEW ring, NEW transport, Calm(ring, RING, budget_micros(transport))
    PROVE  latency_health(ring, transport) = "fine"
<1> DEFINE limit == budget_micros(transport)
<1>1. limit \in Nat
  BY DEF budget_micros
<1> HIDE DEF limit
<1>2. /\ ring.samples \in Seq(Nat) /\ ring.next \in 0 .. RING - 1 /\ RING \in Nat
      /\ Len(ring.samples) = RING
      /\ \A n \in 1 .. Len(ring.samples) : Age(ring, n) < RING => ring.samples[n] <= limit
  BY LatencyAssumption DEF Calm, limit
<1>3. \A n \in 1 .. Len(ring.samples) : Age(ring, n) < RING
  BY <1>2 DEF Age
<1>4. percentile(ring, 99) \in 0 .. limit
  BY <1>1, <1>2, <1>3, PercentileWithin
<1>5. percentile(ring, 99) <= budget_micros(transport)
      /\ ~(percentile(ring, 99) > 2 * budget_micros(transport))
  BY <1>1, <1>4 DEF limit
<1> QED BY <1>5 DEF latency_health

-----------------------------------------------------------------------------
(* The matrix and its slices. *)

LEMMA MatrixCells ==
    /\ Len(Transports) \in Nat /\ Len(Contracts) \in Nat
    /\ DOMAIN Transports = 1 .. Len(Transports) /\ DOMAIN Contracts = 1 .. Len(Contracts)
    /\ Matrix = Len(Transports) * Len(Contracts)
    /\ DOMAIN all_pairs = 1 .. Matrix
<1> DEFINE count == Len(Transports) * Len(Contracts)
<1>1. /\ Len(Transports) \in Nat /\ Len(Contracts) \in Nat
      /\ DOMAIN Transports = 1 .. Len(Transports) /\ DOMAIN Contracts = 1 .. Len(Contracts)
  BY MatrixAssumption
<1>2. count \in Nat
  BY <1>1
<1>3. DOMAIN all_pairs = 1 .. count
  BY DEF all_pairs
<1> HIDE DEF count
<1>4. Matrix = count
  BY <1>2, <1>3, MatrixIsNat DEF Matrix, all_pairs
<1> QED BY <1>1, <1>3, <1>4 DEF count

\* Every place of the matrix is one transport's with one contract.
LEMMA PairAt ==
    ASSUME NEW n \in 1 .. Matrix
    PROVE  \E i \in DOMAIN Transports, j \in DOMAIN Contracts :
              /\ all_pairs[n] = <<Transports[i], Contracts[j]>>
              /\ n - 1 = Len(Contracts) * (i - 1) + (j - 1)
<1> DEFINE T == Len(Transports)
           C == Len(Contracts)
           a == n - 1
           d == a \div C
           r == a % C
<1>1. /\ T \in Nat /\ C \in Nat /\ Matrix = T * C /\ DOMAIN all_pairs = 1 .. Matrix
      /\ DOMAIN Transports = 1 .. T /\ DOMAIN Contracts = 1 .. C
  BY MatrixCells
<1>2. all_pairs[n] = <<Transports[d + 1], Contracts[r + 1]>>
  BY <1>1 DEF all_pairs
<1> HIDE DEF T, C
<1>3. a \in Nat /\ a < T * C
  BY <1>1
<1>4. C > 0
  <2>1. C # 0
    <3>1. T * 0 = 0
      BY <1>1
    <3> QED BY <1>3, <3>1
  <2> QED BY <1>1, <2>1
<1>5. d \in Nat /\ r \in Nat /\ r < C /\ a = C * d + r
  BY <1>1, <1>3, <1>4, Remainder
<1> HIDE DEF d, r
<1>6. d < T
  <2>1. CASE d >= T
    <3>1. PICK k \in Nat : d = T + k
      BY <1>1, <1>5, <2>1
    <3>2. C * d = C * T + C * k /\ C * k \in Nat
      BY <1>1, <1>5, <3>1
    <3>3. C * T = T * C /\ T * C \in Nat
      BY <1>1
    <3> QED BY <1>3, <1>5, <3>2, <3>3
  <2> QED BY <1>1, <1>5, <2>1
<1>7. d + 1 \in 1 .. T /\ r + 1 \in 1 .. C /\ (d + 1) - 1 = d /\ (r + 1) - 1 = r
  BY <1>1, <1>5, <1>6
<1>8. \E i \in 1 .. T, j \in 1 .. C :
              /\ all_pairs[n] = <<Transports[i], Contracts[j]>>
              /\ n - 1 = C * (i - 1) + (j - 1)
  BY <1>2, <1>5, <1>7
<1> QED BY <1>1, <1>8 DEF C

\* A slice is as long as what was asked for, or as the matrix, and is of its
\* pairs.
LEMMA SliceIn ==
    ASSUME NEW from, Matrix > 0 => from \in Nat, NEW count \in Nat
    PROVE  LET most == IF count <= Matrix THEN count ELSE Matrix IN
           /\ DOMAIN slice(from, count) = 1 .. most
           /\ \A n \in 1 .. most : /\ Matrix > 0
                                   /\ ((from + n - 1) % Matrix) + 1 \in 1 .. Matrix
                                   /\ slice(from, count)[n] = all_pairs[((from + n - 1) % Matrix) + 1]
<1> DEFINE most == IF count <= Matrix THEN count ELSE Matrix
<1>0. Matrix \in Nat
  BY MatrixIsNat
<1>1. Least({count, Matrix}) = most
  BY <1>0, LeastOf
<1>2. slice(from, count) = [n \in 1 .. most |-> all_pairs[((from + n - 1) % Matrix) + 1]]
  BY <1>1 DEF slice
<1>3. most \in Nat /\ most <= Matrix
  BY <1>0
<1> HIDE DEF most
<1>4. ASSUME NEW n \in 1 .. most PROVE Matrix > 0 /\ ((from + n - 1) % Matrix) + 1 \in 1 .. Matrix
  <2>1. Matrix > 0 /\ from + n - 1 \in Nat
    BY <1>0, <1>3
  <2>2. (from + n - 1) % Matrix \in Nat /\ (from + n - 1) % Matrix < Matrix
    BY <1>0, <2>1, Remainder
  <2> QED BY <1>0, <2>1, <2>2
<1>5. /\ DOMAIN slice(from, count) = 1 .. most
      /\ \A n \in 1 .. most : slice(from, count)[n] = all_pairs[((from + n - 1) % Matrix) + 1]
  BY <1>2
<1> QED BY <1>4, <1>5 DEF most

LEMMA AdvancedType ==
    ASSUME NEW from \in Nat, NEW count \in Nat, Matrix > 0
    PROVE  advanced(from, count) \in Nat /\ advanced(from, count) < Matrix
<1>1. Matrix \in Nat /\ Least({count, Matrix}) \in Nat
  BY MatrixIsNat, LeastOf
<1>2. from + Least({count, Matrix}) \in Nat
  BY <1>1
<1> QED BY <1>1, <1>2, Remainder DEF advanced

\* A pair of a slice has its transport among the transports.
LEMMA SliceTransport ==
    ASSUME NEW from, Matrix > 0 => from \in Nat, NEW count \in Nat
    PROVE  \A p \in Range(slice(from, count)) : \E i \in DOMAIN Transports : p[1] = Transports[i]
<1> SUFFICES ASSUME NEW n \in DOMAIN slice(from, count)
             PROVE  \E i \in DOMAIN Transports : slice(from, count)[n][1] = Transports[i]
  BY DEF Range
<1> DEFINE k == ((from + n - 1) % Matrix) + 1
<1>0. k \in 1 .. Matrix /\ slice(from, count)[n] = all_pairs[k]
  BY SliceIn
<1> HIDE DEF k
<1>2. PICK i \in DOMAIN Transports, j \in DOMAIN Contracts :
        all_pairs[k] = <<Transports[i], Contracts[j]>>
  BY <1>0, PairAt
<1> QED BY <1>0, <1>2

-----------------------------------------------------------------------------
(* LowLatency's tick. *)

\* As many of a pair's last samples as its quiet count says are within budget,
\* and a ring is well formed.
LatInv ==
    /\ Matrix > 0 => latCursor \in Nat
    /\ DOMAIN rings = DOMAIN latBoard /\ DOMAIN quiet = DOMAIN latBoard
    /\ \A p \in DOMAIN latBoard : Calm(rings[p], quiet[p], budget_micros(p[1]))

LEMMA LatFirst == LatInit => LatInv
BY DEF LatInit, LatInv

LEMMA LimitIsNat == ASSUME NEW transport PROVE budget_micros(transport) \in Nat
BY DEF budget_micros

\* What is kept of every pair, seen or not yet.
LEMMA KeptCalm ==
    ASSUME LatInv, NEW p
    PROVE  Calm(RingOf(p), Entry(quiet, p, 0), budget_micros(p[1]))
<1>1. CASE p \in DOMAIN latBoard
  BY <1>1 DEF LatInv, RingOf, Entry
<1>2. CASE p \notin DOMAIN latBoard
  BY <1>2, NoRingCalm, LimitIsNat DEF LatInv, RingOf, Entry
<1> QED BY <1>1, <1>2

LEMMA SampleIsNat ==
    ASSUME NEW p, NEW micros \in Nat, NEW spikes
    PROVE  sample(p, micros, spikes) \in Nat
<1>1. 3 * budget_micros(p[1]) \in Nat
  BY LimitIsNat
<1> QED BY <1>1 DEF sample

\* The ring of a pair that was timed.
LEMMA TimedRing ==
    ASSUME NEW p, NEW reply, NEW spikes
    PROVE  timed(p, reply, spikes).ring =
              IF reply.answer = "whole" /\ latRound + 1 > WARMUP
              THEN ring_record(RingOf(p), sample(p, reply.micros, spikes))
              ELSE RingOf(p)
BY DEF timed

LEMMA LatStep == ASSUME LatInv, LatTick PROVE LatInv'
<1>1. PICK spikes \in Spikes, replies \in [Driven -> UNION {Reply(p[1]) : p \in Driven}] :
       LET now(p) == timed(p, replies[p], spikes)
           Seen   == DOMAIN latBoard \cup Driven
           New(p) == p \in Driven /\ replies[p].answer = "whole" /\ latRound + 1 > WARMUP
       IN  /\ \A p \in Driven : replies[p] \in Reply(p[1])
           /\ rings' = [p \in Seen |-> IF p \in Driven THEN now(p).ring ELSE RingOf(p)]
           /\ latBoard' = [p \in Seen |-> IF p \in Driven THEN now(p).health
                                          ELSE latency_health(RingOf(p), p[1])]
           /\ quiet' = [p \in Seen |->
                CASE ~New(p) -> Entry(quiet, p, 0)
                  [] New(p) /\ sample(p, replies[p].micros, spikes) <= budget_micros(p[1]) ->
                        Least({RING, Entry(quiet, p, 0) + 1})
                  [] OTHER -> 0]
  BY Zenon DEF LatTick
<1> DEFINE Seen == DOMAIN latBoard \cup Driven
           New(p) == p \in Driven /\ replies[p].answer = "whole" /\ latRound + 1 > WARMUP
           answered(p) == sample(p, replies[p].micros, spikes)
<1>2. DOMAIN rings' = Seen /\ DOMAIN latBoard' = Seen /\ DOMAIN quiet' = Seen
  BY <1>1
<1>3. ASSUME NEW p \in Seen
      PROVE  /\ rings'[p] = IF New(p) THEN ring_record(RingOf(p), answered(p)) ELSE RingOf(p)
             /\ quiet'[p] = IF New(p) THEN Fewer(Entry(quiet, p, 0), budget_micros(p[1]), answered(p))
                            ELSE Entry(quiet, p, 0)
  <2>1. rings'[p] = IF p \in Driven THEN timed(p, replies[p], spikes).ring ELSE RingOf(p)
    BY <1>1
  <2>2. quiet'[p] = CASE ~New(p) -> Entry(quiet, p, 0)
                      [] New(p) /\ answered(p) <= budget_micros(p[1]) ->
                            Least({RING, Entry(quiet, p, 0) + 1})
                      [] OTHER -> 0
    BY <1>1
  <2>3. rings'[p] = IF New(p) THEN ring_record(RingOf(p), answered(p)) ELSE RingOf(p)
    BY <2>1, TimedRing
  <2> HIDE DEF New, answered
  <2>4. quiet'[p] = IF New(p) THEN Fewer(Entry(quiet, p, 0), budget_micros(p[1]), answered(p))
                    ELSE Entry(quiet, p, 0)
    BY <2>2 DEF Fewer
  <2> QED BY <2>3, <2>4
<1>4. ASSUME NEW p \in Seen, New(p) PROVE answered(p) \in Nat
  <2>1. p \in Range(LatencyPairs)
    BY <1>4 DEF Driven, Range
  <2>2. PICK i \in DOMAIN Transports : p[1] = Transports[i]
    BY <2>1, SliceTransport, LatencyAssumption DEF LatencyPairs, LatInv
  <2>3. replies[p] \in Reply(Transports[i])
    BY <1>1, <1>4, <2>2
  <2>4. replies[p].micros \in Nat
    BY <2>3, LatencyAssumption
  <2> QED BY <2>4, SampleIsNat
<1> HIDE DEF New, answered
<1>5. ASSUME NEW p \in Seen PROVE Calm(rings'[p], quiet'[p], budget_micros(p[1]))
  <2>1. CASE New(p)
    <3> DEFINE was == RingOf(p)
               few == Entry(quiet, p, 0)
               limit == budget_micros(p[1])
    <3>1. /\ rings'[p] = ring_record(was, answered(p))
          /\ quiet'[p] = Fewer(few, limit, answered(p))
      BY <1>3, <2>1
    <3>2. Calm(was, few, limit) /\ limit \in Nat /\ answered(p) \in Nat
      BY <1>4, <2>1, KeptCalm, LimitIsNat
    <3> HIDE DEF was, few, limit
    <3>3. Calm(ring_record(was, answered(p)), Fewer(few, limit, answered(p)), limit)
      BY <3>2, RecordCalm
    <3> QED BY <3>1, <3>3 DEF limit
  <2>2. CASE ~New(p)
    BY <1>3, <2>2, KeptCalm
  <2> QED BY <2>1, <2>2
<1>6. Matrix > 0 => latCursor' \in Nat
  BY AdvancedType, LatencyAssumption DEF LatTick, LatInv
<1> HIDE DEF Seen
<1> QED BY <1>2, <1>5, <1>6 DEF LatInv

LEMMA LatStill == ASSUME LatInv, UNCHANGED latVars PROVE LatInv'
BY DEF LatInv, latVars

LEMMA LatFades == LatInv => SpikesFade
<1> SUFFICES ASSUME LatInv, NEW p \in DOMAIN latBoard, quiet[p] = RING
             PROVE  latency_health(RingOf(p), p[1]) = "fine"
  BY DEF SpikesFade
<1>1. RingOf(p) = rings[p] /\ Calm(rings[p], RING, budget_micros(p[1]))
  BY DEF LatInv, RingOf, Entry
<1> QED BY <1>1, CalmIsFine

-----------------------------------------------------------------------------
(* The results put back in order. *)

\* Every place of a round has one result.
OnePerPlace(results, most) ==
    /\ \A k \in DOMAIN results : results[k].at \in 1 .. most
    /\ \A j, k \in DOMAIN results : results[j].at = results[k].at => j = k
    /\ \A n \in 1 .. most : \E k \in DOMAIN results : results[k].at = n

LEMMA InPlace ==
    ASSUME NEW X, NEW results \in Seq(X), NEW most \in Nat, OnePerPlace(results, most)
    PROVE  /\ DOMAIN in_place(results) = 1 .. most
           /\ \A n \in 1 .. most : \E k \in DOMAIN results :
                 in_place(results)[n] = results[k] /\ results[k].at = n
<1> DEFINE L == Len(results)
           Before(j) == {k \in DOMAIN results : \/ results[k].at < results[j].at
                                                \/ results[k].at = results[j].at /\ k < j}
           places == [k \in 1 .. L |-> results[k].at]
<1>1. L \in Nat /\ DOMAIN results = 1 .. L
  OBVIOUS
<1>2. \A k \in 1 .. L : results[k].at \in 1 .. most
  BY <1>1 DEF OnePerPlace
<1>3. \A j, k \in 1 .. L : results[j].at = results[k].at => j = k
  BY <1>1 DEF OnePerPlace
<1>4. \A n \in 1 .. most : \E k \in 1 .. L : results[k].at = n
  BY <1>1 DEF OnePerPlace
<1>5. L = most
  <2>1. places \in [1 .. L -> 1 .. most] /\ \A k \in 1 .. L : places[k] = results[k].at
    BY <1>2
  <2> HIDE DEF places
  <2>2. places \in Bijection(1 .. L, 1 .. most)
    BY <1>3, <1>4, <2>1 DEF Bijection, Injection, Surjection, IsInjective
  <2>3. Cardinality(1 .. most) = Cardinality(1 .. L)
    BY <1>1, <2>2, FS_Bijection, FS_Interval DEF ExistsBijection
  <2> HIDE DEF L
  <2>4. Cardinality(1 .. most) = most /\ Cardinality(1 .. L) = L
    BY <1>1, FS_Interval
  <2> QED BY <2>3, <2>4
<1>6. ASSUME NEW j \in 1 .. L PROVE Cardinality(Before(j)) = results[j].at - 1
  <2> DEFINE a == results[j].at
             B == Before(j)
             f == [k \in B |-> results[k].at]
  <2>1. a \in 1 .. most
    BY <1>2
  <2>2. B = {k \in 1 .. L : results[k].at < a}
    BY <1>1, <1>2, <1>3
  <2> HIDE DEF B, a, L
  <2>3. f \in [B -> 1 .. a - 1] /\ \A k \in B : f[k] = results[k].at
    BY <1>2, <2>1, <2>2
  <2>4. \A n \in 1 .. a - 1 : \E k \in B : results[k].at = n
    BY <1>4, <2>1, <2>2
  <2>5. \A i, k \in B : results[i].at = results[k].at => i = k
    BY <1>3, <2>2
  <2> HIDE DEF f
  <2>6. f \in Bijection(B, 1 .. a - 1)
    BY <2>3, <2>4, <2>5 DEF Bijection, Injection, Surjection, IsInjective
  <2>7. IsFiniteSet(B)
    BY <1>1, <2>2, FS_Interval, FS_Subset
  <2>8. Cardinality(1 .. a - 1) = Cardinality(B)
    BY <2>6, <2>7, FS_Bijection DEF ExistsBijection
  <2>9. Cardinality(1 .. a - 1) = a - 1
    BY <2>1, FS_Interval
  <2> QED BY <2>8, <2>9 DEF a, B
<1>7. in_place(results) = [n \in 1 .. L |->
         results[CHOOSE j \in DOMAIN results : Cardinality(Before(j)) = n - 1]]
  BY <1>1 DEF in_place
<1> HIDE DEF Before, L
<1>8. ASSUME NEW n \in 1 .. most
      PROVE  \E k \in DOMAIN results : in_place(results)[n] = results[k] /\ results[k].at = n
  <2> DEFINE c == CHOOSE j \in DOMAIN results : Cardinality(Before(j)) = n - 1
  <2>1. PICK k \in 1 .. L : results[k].at = n
    BY <1>4
  <2>2. \E j \in DOMAIN results : Cardinality(Before(j)) = n - 1
    BY <1>1, <1>6, <2>1
  <2>3. c \in DOMAIN results /\ Cardinality(Before(c)) = n - 1
    BY <2>2
  <2>4. in_place(results)[n] = results[c]
    BY <1>5, <1>7
  <2> HIDE DEF c
  <2>5. results[c].at - 1 = n - 1 /\ results[c].at \in Int
    BY <1>1, <1>2, <1>6, <2>3
  <2> QED BY <2>3, <2>4, <2>5
<1>9. DOMAIN in_place(results) = 1 .. most
  BY <1>5, <1>7
<1> QED BY <1>8, <1>9

-----------------------------------------------------------------------------
(* The schedule's round, from several threads. *)

\* What judging a pair of this round's slice may have kept.
Judged ==
    UNION {{[at |-> k, answer |-> answer, verdicts |-> judge(world, Pairs[k], answer)] :
               answer \in Answers(Pairs[k][1])} : k \in DOMAIN Pairs}

\* Every place handed out is in one hand or was judged once, a hand holds a
\* place that was not judged, and once the first worker has run out every place
\* was handed out.
Handed ==
    /\ mine \in [Worker -> Seq(Judged)]
    /\ \A w \in Worker : hand[w] \in -1 .. Len(Pairs) /\ hand[w] <= next
    /\ hand[1] = -1 => next >= Len(Pairs)
    /\ \A w, v \in Worker : hand[w] = hand[v] /\ hand[w] > 0 => w = v
    /\ \A w, v \in Worker : \A i \in 1 .. Len(mine[v]) :
          mine[v][i].at <= next /\ mine[v][i].at # hand[w]
    /\ \A w, v \in Worker : \A i \in 1 .. Len(mine[w]), j \in 1 .. Len(mine[v]) :
          mine[w][i].at = mine[v][j].at => w = v /\ i = j
    /\ \A k \in 1 .. Len(Pairs) : k <= next =>
          \/ \E w \in Worker : hand[w] = k
          \/ \E w \in Worker : \E i \in 1 .. Len(mine[w]) : mine[w][i].at = k

\* Between rounds nothing is held; in a round the workers' hands and results
\* account for the places handed out.
RoundInv ==
    /\ shape \in Shapes /\ round \in Nat /\ next \in Nat
    /\ Matrix > 0 => cursor \in Nat
    /\ DOMAIN hand = Worker
    /\ ~Driving => /\ next = 0 /\ mine = [w \in Worker |-> <<>>]
                   /\ \A w \in Worker : hand[w] = -1
    /\ Driving => world \in Abstract!World(shape) /\ round \in 1 .. MaxRound /\ Handed

LEMMA PairsType ==
    ASSUME RoundInv
    PROVE  /\ Len(Pairs) \in Nat /\ DOMAIN Pairs = 1 .. Len(Pairs)
           /\ \A n \in DOMAIN Pairs : /\ Matrix > 0
                 /\ ((cursor + n - 1) % Matrix) + 1 \in 1 .. Matrix
                 /\ Pairs[n] = all_pairs[((cursor + n - 1) % Matrix) + 1]
<1> DEFINE count == shape.per_round
           most == IF count <= Matrix THEN count ELSE Matrix
<1>1. count \in Nat /\ most \in Nat
  BY ScheduleAssumption, MatrixIsNat DEF RoundInv
<1>2. /\ DOMAIN slice(cursor, count) = 1 .. most
      /\ \A n \in 1 .. most : /\ Matrix > 0
                              /\ ((cursor + n - 1) % Matrix) + 1 \in 1 .. Matrix
                              /\ slice(cursor, count)[n] = all_pairs[((cursor + n - 1) % Matrix) + 1]
  BY <1>1, SliceIn DEF RoundInv
<1> HIDE DEF most
<1>3. Least({count, Matrix}) = most
  BY <1>1, LeastOf, MatrixIsNat DEF most
<1>4. Len(slice(cursor, count)) = most
  BY <1>1, <1>2, <1>3 DEF slice
<1> QED BY <1>1, <1>2, <1>4 DEF Pairs

LEMMA JudgedIs ==
    \A r : r \in Judged <=>
        \E k \in DOMAIN Pairs : \E answer \in Answers(Pairs[k][1]) :
            r = [at |-> k, answer |-> answer, verdicts |-> judge(world, Pairs[k], answer)]
BY DEF Judged

LEMMA JudgedAt == \A r \in Judged : r.at \in DOMAIN Pairs
BY JudgedIs

LEMMA WorldIsNotIdle == ASSUME NEW built PROVE \A met_world \in Abstract!World(built) : met_world # Idle
<1> SUFFICES ASSUME Idle \in Abstract!World(built) PROVE FALSE
  OBVIOUS
<1>1. "draw" \in DOMAIN Idle
  BY DEF Abstract!World
<1>2. DOMAIN Idle = {"now"}
  BY DEF Idle
<1> QED BY <1>1, <1>2

LEMMA RoundFirst == Init => RoundInv
<1> SUFFICES ASSUME Init PROVE RoundInv
  OBVIOUS
<1>1. ~Driving
  BY DEF Init, Driving
<1> QED BY <1>1 DEF Init, RoundInv

LEMMA FirstWorker == 1 \in Worker
BY ScheduleAssumption DEF Worker

LEMMA BeginStep == ASSUME RoundInv, Begin PROVE RoundInv'
<1>1. /\ ~Driving /\ next = 0 /\ mine = [w \in Worker |-> <<>>] /\ shape' = shape
      /\ cursor' = cursor /\ next' = 0 /\ mine' = mine /\ Pairs' = Pairs
      /\ round' \in 1 .. MaxRound
  BY ScheduleAssumption DEF RoundInv, Begin, Pairs
<1>2. Len(Pairs) \in Nat /\ DOMAIN Pairs = 1 .. Len(Pairs)
  BY PairsType
<1>3. world' \in Abstract!World(shape') /\ Driving'
  BY <1>1, WorldIsNotIdle DEF Begin, Driving, Idle
<1>4. 1 \in Hired
  <2>1. shape.workers \in Nat
    BY ScheduleAssumption DEF RoundInv
  <2> DEFINE few == Least({shape.workers, Len(Pairs)})
  <2>2. few \in Int
    BY <1>2, <2>1, LeastOf
  <2> HIDE DEF few
  <2>3. Most({1, few}) \in Int /\ Most({1, few}) >= 1
    BY <2>2, MostOf
  <2> QED BY <2>3 DEF Hired, few
<1>5. hand' = [w \in Worker |-> IF w \in Hired THEN 0 ELSE -1] /\ hand'[1] = 0
  BY <1>4, FirstWorker DEF Begin
<1>6. mine' \in [Worker -> Seq(Judged')] /\ \A w \in Worker : mine'[w] = <<>>
  BY <1>1
<1>7. Handed'
  BY <1>1, <1>2, <1>5, <1>6 DEF Handed
<1>8. /\ shape' \in Shapes /\ round' \in Nat /\ next' \in Nat
      /\ Matrix > 0 => cursor' \in Nat
      /\ DOMAIN hand' = Worker
  BY <1>1, <1>5 DEF RoundInv
<1> QED BY <1>1, <1>3, <1>7, <1>8 DEF RoundInv
LEMMA FetchStep == ASSUME RoundInv, NEW w \in Worker, Fetch(w) PROVE RoundInv'
<1> DEFINE N == Len(Pairs)
<1>1. /\ Driving /\ Handed /\ hand[w] = 0 /\ next' = next + 1 /\ next \in Nat
      /\ hand' = [hand EXCEPT ![w] = IF next < N THEN next + 1 ELSE -1]
      /\ shape' = shape /\ cursor' = cursor /\ mine' = mine /\ world' = world /\ round' = round
  BY DEF RoundInv, Fetch
<1>2. N \in Nat /\ DOMAIN Pairs = 1 .. N
  BY PairsType
<1>3. Pairs' = Pairs /\ Judged' = Judged /\ Driving'
  BY <1>1 DEF Pairs, Judged, Driving, Idle
<1> HIDE DEF N
<1>4. DOMAIN hand' = Worker /\ \A v \in Worker :
         hand'[v] = IF v = w THEN (IF next < N THEN next + 1 ELSE -1) ELSE hand[v]
  BY <1>1 DEF RoundInv
<1>5. \A v \in Worker : hand[v] \in -1 .. N /\ hand[v] <= next
  BY <1>1 DEF Handed, N
<1>6. \A v \in Worker : hand'[v] \in -1 .. N /\ hand'[v] <= next'
  BY <1>1, <1>2, <1>4, <1>5
<1>7. hand'[1] = -1 => next' >= N
  BY <1>1, <1>2, <1>4, FirstWorker DEF Handed, N
<1>8. \A u, v \in Worker : hand'[u] = hand'[v] /\ hand'[u] > 0 => u = v
  <2> SUFFICES ASSUME NEW u \in Worker, NEW v \in Worker, hand'[u] = hand'[v], hand'[u] > 0
               PROVE  u = v
    OBVIOUS
  <2>1. CASE u # w /\ v # w
    BY <1>1, <1>4, <2>1 DEF Handed
  <2>2. CASE u = w \/ v = w
    BY <1>1, <1>2, <1>4, <1>5, <2>2
  <2> QED BY <2>1, <2>2
<1>9. \A u, v \in Worker : \A i \in 1 .. Len(mine[v]) :
         mine[v][i].at <= next' /\ mine[v][i].at # hand'[u]
  <2> SUFFICES ASSUME NEW u \in Worker, NEW v \in Worker, NEW i \in 1 .. Len(mine[v])
               PROVE  mine[v][i].at <= next' /\ mine[v][i].at # hand'[u]
    OBVIOUS
  <2>1. mine[v][i] \in Judged
    BY <1>1 DEF Handed
  <2>2. mine[v][i].at \in 1 .. N
    BY <1>2, <2>1, JudgedAt
  <2>3. mine[v][i].at <= next /\ mine[v][i].at # hand[u]
    BY <1>1 DEF Handed
  <2> QED BY <1>1, <1>2, <1>4, <2>2, <2>3
<1>10. ASSUME NEW k \in 1 .. N, k <= next'
       PROVE  \/ \E v \in Worker : hand'[v] = k
              \/ \E v \in Worker : \E i \in 1 .. Len(mine[v]) : mine[v][i].at = k
  <2>1. CASE k = next + 1
    BY <1>1, <1>2, <1>4, <2>1
  <2>2. CASE k <= next /\ \E v \in Worker : hand[v] = k
    <3>1. PICK v \in Worker : hand[v] = k
      BY <2>2
    <3>2. v # w /\ hand'[v] = k
      BY <1>1, <1>2, <1>4, <3>1
    <3> QED BY <3>2
  <2>3. CASE k <= next /\ \E v \in Worker : \E i \in 1 .. Len(mine[v]) : mine[v][i].at = k
    BY <2>3
  <2>4. k <= next => \/ \E v \in Worker : hand[v] = k
                     \/ \E v \in Worker : \E i \in 1 .. Len(mine[v]) : mine[v][i].at = k
    BY <1>1 DEF Handed, N
  <2>5. k = next + 1 \/ k <= next
    BY <1>1, <1>2, <1>10
  <2> QED BY <2>1, <2>2, <2>3, <2>4, <2>5
<1>11. Handed'
  <2>1. mine' \in [Worker -> Seq(Judged')]
    BY <1>1, <1>3 DEF Handed
  <2>2. \A u, v \in Worker : \A i \in 1 .. Len(mine[u]), j \in 1 .. Len(mine[v]) :
          mine[u][i].at = mine[v][j].at => u = v /\ i = j
    BY <1>1 DEF Handed
  <2>3. Len(Pairs)' = N /\ mine' = mine
    BY <1>1, <1>3 DEF N
  <2>4. \A v \in Worker : hand'[v] \in -1 .. Len(Pairs)' /\ hand'[v] <= next'
    BY <1>6, <2>3
  <2>5. hand'[1] = -1 => next' >= Len(Pairs)'
    BY <1>7, <2>3
  <2>6. \A u, v \in Worker : \A i \in 1 .. Len(mine'[v]) :
          mine'[v][i].at <= next' /\ mine'[v][i].at # hand'[u]
    BY <1>9, <2>3
  <2>7. \A u, v \in Worker : \A i \in 1 .. Len(mine'[u]), j \in 1 .. Len(mine'[v]) :
          mine'[u][i].at = mine'[v][j].at => u = v /\ i = j
    BY <2>2, <2>3
  <2>8. \A k \in 1 .. Len(Pairs)' : k <= next' =>
          \/ \E v \in Worker : hand'[v] = k
          \/ \E v \in Worker : \E i \in 1 .. Len(mine'[v]) : mine'[v][i].at = k
    BY <1>10, <2>3
  <2> QED BY <1>8, <2>1, <2>4, <2>5, <2>6, <2>7, <2>8, Zenon DEF Handed
<1> QED BY <1>1, <1>3, <1>4, <1>11 DEF RoundInv

LEMMA JudgeStep == ASSUME RoundInv, NEW w \in Worker, Judge(w) PROVE RoundInv'
<1> DEFINE N == Len(Pairs)
           h == hand[w]
<1>1. /\ Driving /\ Handed /\ h > 0 /\ next' = next /\ next \in Nat
      /\ hand' = [hand EXCEPT ![w] = 0]
      /\ shape' = shape /\ cursor' = cursor /\ world' = world /\ round' = round
  BY DEF RoundInv, Judge
<1>2. N \in Nat /\ DOMAIN Pairs = 1 .. N
  BY PairsType
<1>3. Pairs' = Pairs /\ Judged' = Judged /\ Driving'
  BY <1>1 DEF Pairs, Judged, Driving, Idle
<1>4. PICK answer \in Answers(Pairs[h][1]) :
         mine' = [mine EXCEPT ![w] = Append(@, [at |-> h, answer |-> answer,
                                                verdicts |-> judge(world, Pairs[h], answer)])]
  BY Zenon DEF Judge
<1> DEFINE r == [at |-> h, answer |-> answer, verdicts |-> judge(world, Pairs[h], answer)]
<1>5. h \in 1 .. N /\ h <= next
  BY <1>1, <1>2 DEF Handed
<1>6. r \in Judged /\ r.at = h
  BY <1>2, <1>5, JudgedIs
<1> HIDE DEF N, h, r
<1>7. /\ DOMAIN hand' = Worker /\ hand'[w] = 0 /\ \A v \in Worker : v # w => hand'[v] = hand[v]
  BY <1>1 DEF RoundInv
<1>8. mine \in [Worker -> Seq(Judged)]
  BY <1>1 DEF Handed
<1>9. /\ mine'[w] = Append(mine[w], r) /\ \A v \in Worker : v # w => mine'[v] = mine[v]
      /\ mine' \in [Worker -> Seq(Judged)]
  <2>1. mine' = [mine EXCEPT ![w] = Append(@, r)]
    BY <1>4 DEF r
  <2>2. mine[w] \in Seq(Judged) /\ Append(mine[w], r) \in Seq(Judged)
    BY <1>6, <1>8
  <2> QED BY <1>8, <2>1, <2>2
<1>10. /\ Len(mine'[w]) = Len(mine[w]) + 1 /\ Len(mine[w]) \in Nat
       /\ mine'[w][Len(mine[w]) + 1] = r
       /\ \A i \in 1 .. Len(mine[w]) : mine'[w][i] = mine[w][i]
  BY <1>6, <1>8, <1>9
\* The slots are the ones there were and the new one.
<1> DEFINE Fresh(v, i) == v = w /\ i = Len(mine[w]) + 1
<1>11. ASSUME NEW v \in Worker, NEW i \in 1 .. Len(mine'[v])
       PROVE  IF Fresh(v, i) THEN mine'[v][i] = r
              ELSE i \in 1 .. Len(mine[v]) /\ mine'[v][i] = mine[v][i]
  BY <1>9, <1>10
<1>12. \A v \in Worker : \A i \in 1 .. Len(mine[v]) :
          mine[v][i].at <= next /\ mine[v][i].at # h /\ mine[v][i].at \in 1 .. N
  <2> SUFFICES ASSUME NEW v \in Worker, NEW i \in 1 .. Len(mine[v])
               PROVE  mine[v][i].at <= next /\ mine[v][i].at # h /\ mine[v][i].at \in 1 .. N
    OBVIOUS
  <2>1. mine[v][i] \in Judged
    BY <1>8
  <2> QED BY <1>1, <1>2, <2>1, JudgedAt DEF Handed, h
<1>13. ASSUME NEW u \in Worker, NEW v \in Worker, NEW i \in 1 .. Len(mine'[v])
       PROVE  mine'[v][i].at <= next /\ mine'[v][i].at # hand'[u]
  <2>1. CASE Fresh(v, i)
    <3>1. mine'[v][i].at = h
      BY <1>6, <1>11, <2>1
    <3>2. u # w => hand[u] # h
      BY <1>1 DEF Handed, h
    <3> QED BY <1>5, <1>7, <3>1, <3>2
  <2>2. CASE ~Fresh(v, i)
    <3>1. i \in 1 .. Len(mine[v]) /\ mine'[v][i] = mine[v][i]
      BY <1>11, <2>2
    <3>2. mine[v][i].at <= next /\ mine[v][i].at # hand[u] /\ mine[v][i].at \in 1 .. N
      BY <1>1, <1>12, <3>1 DEF Handed
    <3> QED BY <1>7, <3>1, <3>2
  <2> QED BY <2>1, <2>2
<1>14. ASSUME NEW u \in Worker, NEW v \in Worker,
              NEW i \in 1 .. Len(mine'[u]), NEW j \in 1 .. Len(mine'[v]),
              mine'[u][i].at = mine'[v][j].at
       PROVE  u = v /\ i = j
  <2>1. CASE Fresh(u, i) /\ Fresh(v, j)
    BY <2>1
  <2>2. CASE ~Fresh(u, i) /\ ~Fresh(v, j)
    <3>1. /\ i \in 1 .. Len(mine[u]) /\ mine'[u][i] = mine[u][i]
          /\ j \in 1 .. Len(mine[v]) /\ mine'[v][j] = mine[v][j]
      BY <1>11, <2>2
    <3>2. mine[u][i].at = mine[v][j].at
      BY <1>14, <3>1
    <3> QED BY <1>1, <3>1, <3>2 DEF Handed
  <2>3. CASE Fresh(u, i) /\ ~Fresh(v, j)
    <3>1. mine'[u][i].at = h /\ j \in 1 .. Len(mine[v]) /\ mine'[v][j] = mine[v][j]
      BY <1>6, <1>11, <2>3
    <3> QED BY <1>12, <1>14, <3>1
  <2>4. CASE ~Fresh(u, i) /\ Fresh(v, j)
    <3>1. mine'[v][j].at = h /\ i \in 1 .. Len(mine[u]) /\ mine'[u][i] = mine[u][i]
      BY <1>6, <1>11, <2>4
    <3> QED BY <1>12, <1>14, <3>1
  <2> QED BY <2>1, <2>2, <2>3, <2>4
<1>15. ASSUME NEW k \in 1 .. N, k <= next
       PROVE  \/ \E v \in Worker : hand'[v] = k
              \/ \E v \in Worker : \E i \in 1 .. Len(mine'[v]) : mine'[v][i].at = k
  <2>1. CASE k = h
    <3>1. Len(mine[w]) + 1 \in 1 .. Len(mine'[w]) /\ mine'[w][Len(mine[w]) + 1].at = k
      BY <1>6, <1>10, <2>1
    <3> QED BY <3>1
  <2>2. ASSUME NEW v \in Worker, hand[v] = k, k # h PROVE \E u \in Worker : hand'[u] = k
    BY <1>7, <2>2 DEF h
  <2>3. ASSUME NEW v \in Worker, NEW i \in 1 .. Len(mine[v]), mine[v][i].at = k
        PROVE  \E u \in Worker : \E j \in 1 .. Len(mine'[u]) : mine'[u][j].at = k
    <3>1. i \in 1 .. Len(mine'[v]) /\ mine'[v][i] = mine[v][i]
      <4>1. CASE v = w
        <5>1. i \in 1 .. Len(mine[w]) /\ i \in 1 .. Len(mine[w]) + 1
          BY <1>10, <4>1
        <5> QED BY <1>10, <4>1, <5>1
      <4>2. CASE v # w
        BY <1>9, <4>2
      <4> QED BY <4>1, <4>2
    <3> QED BY <2>3, <3>1
  <2>4. \/ \E v \in Worker : hand[v] = k
        \/ \E v \in Worker : \E i \in 1 .. Len(mine[v]) : mine[v][i].at = k
    BY <1>1, <1>15 DEF Handed, N
  <2> QED BY <2>1, <2>2, <2>3, <2>4
<1>16. Handed'
  <2>1. \A v \in Worker : hand'[v] \in -1 .. N /\ hand'[v] <= next
    BY <1>1, <1>2, <1>7 DEF Handed, N
  <2>2. hand'[1] = -1 => next >= N
    BY <1>1, <1>7, FirstWorker DEF Handed, N
  <2>3. \A u, v \in Worker : hand'[u] = hand'[v] /\ hand'[u] > 0 => u = v
    BY <1>1, <1>7 DEF Handed
  <2>4. Len(Pairs)' = N /\ next' = next /\ mine' \in [Worker -> Seq(Judged')]
    BY <1>1, <1>3, <1>9 DEF N
  <2>5. \A v \in Worker : hand'[v] \in -1 .. Len(Pairs)' /\ hand'[v] <= next'
    BY <2>1, <2>4
  <2>6. hand'[1] = -1 => next' >= Len(Pairs)'
    BY <2>2, <2>4
  <2>7. \A u, v \in Worker : \A i \in 1 .. Len(mine'[v]) :
          mine'[v][i].at <= next' /\ mine'[v][i].at # hand'[u]
    BY <1>13, <2>4
  <2>8. \A u, v \in Worker : \A i \in 1 .. Len(mine'[u]), j \in 1 .. Len(mine'[v]) :
          mine'[u][i].at = mine'[v][j].at => u = v /\ i = j
    BY <1>14
  <2>9. \A k \in 1 .. Len(Pairs)' : k <= next' =>
          \/ \E v \in Worker : hand'[v] = k
          \/ \E v \in Worker : \E i \in 1 .. Len(mine'[v]) : mine'[v][i].at = k
    BY <1>15, <2>4
  <2> QED BY <2>3, <2>4, <2>5, <2>6, <2>7, <2>8, <2>9, Zenon DEF Handed
<1> QED BY <1>1, <1>3, <1>7, <1>16 DEF RoundInv
\* Once every worker has run out, what they judged, worker after worker, has
\* one result for every place.
LEMMA AllJudged ==
    ASSUME RoundInv, Driving, \A w \in Worker : hand[w] = -1
    PROVE  FlattenSeq(mine) \in Seq(Judged) /\ OnePerPlace(FlattenSeq(mine), Len(Pairs))
<1> DEFINE all == FlattenSeq(mine)
           N == Len(Pairs)
<1>1. Handed /\ mine \in [Worker -> Seq(Judged)] /\ next \in Nat
  BY DEF RoundInv, Handed
<1>2. Workers \in Nat /\ Workers > 0 /\ Worker = 1 .. Workers
  BY ScheduleAssumption DEF Worker
<1>3. mine \in Seq(Seq(Judged)) /\ Len(mine) = Workers
  BY <1>1, <1>2
<1>4. \A i \in 1 .. Len(mine) : mine[i] \in Seq(Judged)
  BY <1>1, <1>2, <1>3
<1>5. all \in Seq(Judged) /\ \E src : Sources(src, all, mine, Workers)
  BY <1>2, <1>3, <1>4, FlattenSources
<1> HIDE DEF all
<1>6. PICK src : Sources(src, all, mine, Workers)
  BY <1>5
<1>7. DOMAIN all = 1 .. Len(all) /\ Len(all) \in Nat
  BY <1>5
<1>8. N \in Nat /\ DOMAIN Pairs = 1 .. N
  BY PairsType
<1> HIDE DEF N
<1>9. \A k \in 1 .. Len(all) : /\ src[k] = <<src[k][1], src[k][2]>>
                               /\ src[k][1] \in Worker /\ src[k][2] \in 1 .. Len(mine[src[k][1]])
                               /\ all[k] = mine[src[k][1]][src[k][2]]
  BY <1>2, <1>6 DEF Sources
<1>10. \A k \in DOMAIN all : all[k].at \in 1 .. N
  BY <1>5, <1>8, JudgedAt
<1>11. ASSUME NEW j \in DOMAIN all, NEW k \in DOMAIN all, all[j].at = all[k].at PROVE j = k
  <2>3. \A w, v \in Worker : \A i \in 1 .. Len(mine[w]), m \in 1 .. Len(mine[v]) :
           mine[w][i].at = mine[v][m].at => w = v /\ i = m
    BY <1>1 DEF Handed
  <2>4. /\ src[j][1] \in Worker /\ src[j][2] \in 1 .. Len(mine[src[j][1]])
        /\ src[k][1] \in Worker /\ src[k][2] \in 1 .. Len(mine[src[k][1]])
        /\ mine[src[j][1]][src[j][2]].at = mine[src[k][1]][src[k][2]].at
    BY <1>7, <1>9, <1>11
  <2>1. src[j][1] = src[k][1] /\ src[j][2] = src[k][2]
    <3> DEFINE a == src[j][1]
               b == src[j][2]
               c == src[k][1]
               d == src[k][2]
    <3>1. /\ a \in Worker /\ b \in 1 .. Len(mine[a]) /\ c \in Worker /\ d \in 1 .. Len(mine[c])
          /\ mine[a][b].at = mine[c][d].at
      BY <2>4
    <3> HIDE DEF a, b, c, d
    <3>2. a = c /\ b = d
      BY <2>3, <3>1
    <3> QED BY <3>2 DEF a, b, c, d
  <2>2. src[j] = src[k]
    BY <1>7, <1>9, <2>1
  <2> QED BY <1>6, <1>7, <2>2 DEF Sources
<1>12. ASSUME NEW n \in 1 .. N PROVE \E k \in DOMAIN all : all[k].at = n
  <2>1. n <= next
    BY <1>1, <1>8, FirstWorker DEF Handed, N
  <2>2. ~(\E w \in Worker : hand[w] = n)
    BY <1>8
  <2>3. \E w \in Worker : \E i \in 1 .. Len(mine[w]) : mine[w][i].at = n
    BY <1>1, <2>1, <2>2 DEF Handed, N
  <2>6. PICK w \in Worker : \E i \in 1 .. Len(mine[w]) : mine[w][i].at = n
    BY <2>3
  <2>7. PICK i \in 1 .. Len(mine[w]) : mine[w][i].at = n
    BY <2>6
  <2>4. PICK k \in 1 .. Len(all) : src[k] = <<w, i>>
    BY <1>2, <1>6 DEF Sources
  <2>5. all[k] = mine[w][i]
    BY <1>9, <2>4
  <2> QED BY <1>7, <2>7, <2>5
<1> QED BY <1>5, <1>10, <1>11, <1>12 DEF OnePerPlace, all, N

\* What a round's end folds is what one thread judging in order would have.
LEMMA FinishInOrder ==
    ASSUME RoundInv, Finish
    PROVE  /\ met'.world = world /\ DOMAIN met'.answers = DOMAIN Pairs
           /\ \A n \in DOMAIN Pairs : met'.answers[n] \in Answers(Pairs[n][1])
           /\ ledger' = fold_all(ledger, Abstract!in_order(world, Pairs, met'.answers))
           /\ board' = close(ledger') /\ cursor' = advanced(cursor, shape.per_round)
           /\ world' = Idle /\ world \in Abstract!World(shape)
<1> DEFINE judged == in_place(FlattenSeq(mine))
<1>1. /\ Driving /\ \A w \in Worker : hand[w] = -1
      /\ ledger' = fold_all(ledger, [n \in DOMAIN judged |-> judged[n].verdicts])
      /\ board' = close(ledger') /\ cursor' = advanced(cursor, shape.per_round)
      /\ met' = [world |-> world, answers |-> [n \in DOMAIN judged |-> judged[n].answer]]
      /\ world' = Idle
  BY DEF Finish
<1>2. Len(Pairs) \in Nat /\ DOMAIN Pairs = 1 .. Len(Pairs)
  BY PairsType
<1>3. FlattenSeq(mine) \in Seq(Judged) /\ OnePerPlace(FlattenSeq(mine), Len(Pairs))
  BY <1>1, AllJudged
<1>4. /\ DOMAIN judged = DOMAIN Pairs
      /\ \A n \in DOMAIN Pairs : \E k \in DOMAIN FlattenSeq(mine) :
            judged[n] = FlattenSeq(mine)[k] /\ FlattenSeq(mine)[k].at = n
  BY <1>2, <1>3, InPlace
<1> HIDE DEF judged
<1>5. ASSUME NEW n \in DOMAIN Pairs
      PROVE  /\ judged[n].answer \in Answers(Pairs[n][1])
             /\ judged[n].verdicts = judge(world, Pairs[n], judged[n].answer)
  <2>1. judged[n] \in Judged /\ judged[n].at = n
    BY <1>3, <1>4
  <2>2. PICK k \in DOMAIN Pairs : \E answer \in Answers(Pairs[k][1]) :
            judged[n] = [at |-> k, answer |-> answer, verdicts |-> judge(world, Pairs[k], answer)]
    BY <2>1, JudgedIs
  <2>3. PICK answer \in Answers(Pairs[k][1]) :
            judged[n] = [at |-> k, answer |-> answer, verdicts |-> judge(world, Pairs[k], answer)]
    BY <2>2
  <2>4. k = n /\ judged[n].answer = answer /\ judged[n].verdicts = judge(world, Pairs[k], answer)
    BY <2>1, <2>3
  <2> QED BY <2>4
<1>6. /\ met'.world = world /\ DOMAIN met'.answers = DOMAIN Pairs
      /\ \A n \in DOMAIN Pairs : met'.answers[n] = judged[n].answer
  BY <1>1, <1>4
<1>7. [n \in DOMAIN judged |-> judged[n].verdicts]
        = Abstract!in_order(world, Pairs, met'.answers)
  BY <1>4, <1>5, <1>6 DEF Abstract!in_order
<1>8. world \in Abstract!World(shape)
  BY <1>1 DEF RoundInv
<1> QED BY <1>1, <1>5, <1>6, <1>7, <1>8

LEMMA FinishStep == ASSUME RoundInv, Finish PROVE RoundInv'
<1>1. /\ ~Driving' /\ next' = 0 /\ mine' = [w \in Worker |-> <<>>]
      /\ hand' = hand /\ \A w \in Worker : hand[w] = -1
      /\ shape' = shape /\ round' = round
  BY DEF Finish, Driving, Idle
<1>2. Matrix > 0 => cursor' \in Nat
  BY AdvancedType, ScheduleAssumption DEF Finish, RoundInv
<1> QED BY <1>1, <1>2 DEF RoundInv

LEMMA ScheduleStep == ASSUME RoundInv, Next PROVE RoundInv'
BY BeginStep, FetchStep, JudgeStep, FinishStep DEF Next

LEMMA RoundStill == ASSUME RoundInv, UNCHANGED vars PROVE RoundInv'
BY DEF RoundInv, vars, Driving, Idle, Handed, Pairs, Judged

\* Every step of the threads is a round in order, or nothing yet.
LEMMA StartInOrder == ASSUME Init PROVE Abstract!Start
BY DEF Init, Abstract!Start, Driving

LEMMA StepInOrder == ASSUME RoundInv, Next PROVE Abstract!Tick \/ UNCHANGED Abstract!abstractVars
<1> DEFINE rounds == IF Driving THEN round - 1 ELSE round
<1>1. CASE Begin
  <2>1. ~Driving /\ Driving' /\ round' = round + 1 /\ round \in Nat
    BY <1>1, WorldIsNotIdle DEF RoundInv, Begin, Driving, Idle
  <2>2. UNCHANGED <<shape, cursor, ledger, board, met>>
    BY <1>1 DEF Begin
  <2> QED BY <2>1, <2>2 DEF Abstract!abstractVars
<1>2. ASSUME NEW w \in Worker, Fetch(w) \/ Judge(w) PROVE UNCHANGED Abstract!abstractVars
  <2>1. UNCHANGED <<shape, cursor, ledger, board, met, world, round>>
    BY <1>2 DEF Fetch, Judge
  <2> QED BY <2>1 DEF Abstract!abstractVars, Driving, Idle
<1>3. CASE Finish
  <2>1. Driving /\ ~Driving' /\ round' = round /\ round \in 1 .. MaxRound /\ shape' = shape
    BY <1>3 DEF RoundInv, Finish, Driving, Idle
  <2>2. /\ rounds < MaxRound /\ rounds' = rounds + 1
    BY <2>1, ScheduleAssumption
  <2> HIDE DEF rounds
  <2>3. /\ met'.world = world /\ DOMAIN met'.answers = DOMAIN Pairs
        /\ \A n \in DOMAIN Pairs : met'.answers[n] \in Answers(Pairs[n][1])
        /\ ledger' = fold_all(ledger, Abstract!in_order(world, Pairs, met'.answers))
        /\ board' = close(ledger') /\ cursor' = advanced(cursor, shape.per_round)
        /\ world' = Idle /\ world \in Abstract!World(shape)
    BY <1>3, FinishInOrder
  <2> QED BY <2>1, <2>2, <2>3, Zenon DEF Abstract!Tick, Pairs, rounds
<1> QED BY <1>1, <1>2, <1>3 DEF Next

-----------------------------------------------------------------------------
(* Verdicts folded one after the other. *)

\* What FoldLeft recurs over: the ledger after the verdicts at some places.
IsFolds(g, l, q, D) ==
    g = [t \in SUBSET D |-> IF t = {} THEN l ELSE fold(g[t \ {Max(t)}], q[Max(t)])]
Folds(l, q) == CHOOSE g : IsFolds(g, l, q, DOMAIN q)

LEMMA FoldIsFolds == ASSUME NEW l, NEW q PROVE FoldLeft(fold, l, q) = Folds(l, q)[DOMAIN q]
BY DEF FoldLeft, MapThenFoldSet, Folds, IsFolds

LEMMA MaxUpTo ==
    ASSUME NEW n \in Nat, NEW t \in SUBSET (1 .. n), t # {}
    PROVE  Max(t) \in t /\ \A y \in t : y <= Max(t)
<1>1. t \in SUBSET Nat /\ \A y \in t : y <= n
  OBVIOUS
<1> QED BY <1>1, MaxExists

LEMMA FoldsExist ==
    ASSUME NEW l, NEW q, NEW N \in Nat, DOMAIN q = 1 .. N
    PROVE  IsFolds(Folds(l, q), l, q, 1 .. N)
<1> DEFINE S == {n \in Nat : \E g : IsFolds(g, l, q, 1 .. n)}
<1>1. 0 \in S
  <2> DEFINE g0 == [t \in SUBSET (1 .. 0) |-> l]
  <2>1. IsFolds(g0, l, q, 1 .. 0)
    BY DEF IsFolds
  <2>2. \E g : IsFolds(g, l, q, 1 .. 0)
    BY <2>1
  <2> QED BY <2>2
<1>2. ASSUME NEW n \in Nat, n \in S PROVE n + 1 \in S
  <2>1. PICK g : IsFolds(g, l, q, 1 .. n)
    BY <1>2
  <2>2. \A t \in SUBSET (1 .. n) :
           g[t] = IF t = {} THEN l ELSE fold(g[t \ {Max(t)}], q[Max(t)])
    BY <2>1, Zenon DEF IsFolds
  <2> DEFINE h == [t \in SUBSET (1 .. n + 1) |->
                      IF n + 1 \in t THEN fold(g[t \ {n + 1}], q[n + 1]) ELSE g[t]]
  <2>3. ASSUME NEW t \in SUBSET (1 .. n + 1)
        PROVE  h[t] = IF t = {} THEN l ELSE fold(h[t \ {Max(t)}], q[Max(t)])
    <3>1. CASE n + 1 \in t
      <4>1. Max(t) = n + 1
        <5>1. n + 1 \in Nat /\ t # {}
          BY <3>1
        <5>2. Max(t) \in t /\ n + 1 <= Max(t)
          BY <3>1, <5>1, MaxUpTo
        <5>3. Max(t) \in 1 .. n + 1
          BY <5>2
        <5> QED BY <5>2, <5>3
      <4>2. t \ {n + 1} \in SUBSET (1 .. n + 1) /\ n + 1 \notin t \ {n + 1}
        OBVIOUS
      <4>3. h[t \ {n + 1}] = g[t \ {n + 1}]
        BY <4>2
      <4>4. h[t] = fold(g[t \ {n + 1}], q[n + 1])
        BY <3>1
      <4> HIDE DEF h
      <4> QED BY <3>1, <4>1, <4>3, <4>4
    <3>2. CASE n + 1 \notin t
      <4>1. t \in SUBSET (1 .. n) /\ h[t] = g[t]
        BY <3>2
      <4>2. CASE t = {}
        BY <2>2, <4>1, <4>2
      <4>3. CASE t # {}
        <5>1. t \ {Max(t)} \in SUBSET (1 .. n) /\ n + 1 \notin t \ {Max(t)}
              /\ t \ {Max(t)} \in SUBSET (1 .. n + 1)
          BY <3>2, <4>1
        <5>2. \A u \in SUBSET (1 .. n + 1) : n + 1 \notin u => h[u] = g[u]
          OBVIOUS
        <5>3. h[t \ {Max(t)}] = g[t \ {Max(t)}]
          <6> HIDE DEF h
          <6> QED BY <5>1, <5>2
        <5> HIDE DEF h
        <5> QED BY <2>2, <4>1, <4>3, <5>3
      <4> QED BY <4>2, <4>3
    <3> QED BY <3>1, <3>2
  <2>4. IsFolds(h, l, q, 1 .. n + 1)
    BY <2>3 DEF IsFolds
  <2> HIDE DEF h
  <2> QED BY <2>4
<1>3. N \in S
  <2> HIDE DEF S
  <2> QED BY <1>1, <1>2, SetInduction
<1> QED BY <1>3 DEF Folds

\* The ledger after each of the verdicts.
Through(g, l, q, N) ==
    /\ g[0] = l
    /\ \A k \in 1 .. N : g[k] = fold(g[k - 1], q[k])

LEMMA FoldThrough ==
    ASSUME NEW l, NEW q, NEW N \in Nat, DOMAIN q = 1 .. N
    PROVE  \E g : Through(g, l, q, N) /\ FoldLeft(fold, l, q) = g[N]
<1> DEFINE f == Folds(l, q)
           g == [k \in 0 .. N |-> f[1 .. k]]
<1>0. IsFolds(f, l, q, 1 .. N)
  BY FoldsExist
<1>1. FoldLeft(fold, l, q) = f[1 .. N]
  BY FoldIsFolds
<1> HIDE DEF f
<1>2. \A t \in SUBSET (1 .. N) : f[t] = IF t = {} THEN l ELSE fold(f[t \ {Max(t)}], q[Max(t)])
  BY <1>0, Zenon DEF IsFolds
<1>3. g[0] = l
  <2>1. 1 .. 0 = {} /\ 1 .. 0 \in SUBSET (1 .. N) /\ g[0] = f[1 .. 0]
    OBVIOUS
  <2> HIDE DEF g
  <2> QED BY <1>2, <2>1
<1>4. ASSUME NEW k \in 1 .. N PROVE g[k] = fold(g[k - 1], q[k])
  <2>1. 1 .. k \in SUBSET (1 .. N) /\ 1 .. k \in SUBSET (1 .. k) /\ k \in 1 .. k /\ k \in Nat
    OBVIOUS
  <2>2. Max(1 .. k) = k
    <3>1. Max(1 .. k) \in 1 .. k /\ k <= Max(1 .. k)
      BY <2>1, MaxUpTo
    <3> QED BY <3>1
  <2>3. (1 .. k) \ {k} = 1 .. k - 1
    OBVIOUS
  <2>4. f[1 .. k] = fold(f[(1 .. k) \ {k}], q[k])
    BY <1>2, <2>1, <2>2
  <2>5. g[k] = f[1 .. k] /\ g[k - 1] = f[1 .. k - 1]
    OBVIOUS
  <2> HIDE DEF g
  <2> QED BY <2>3, <2>4, <2>5
<1>5. g[N] = f[1 .. N]
  OBVIOUS
<1>6. Through(g, l, q, N) /\ FoldLeft(fold, l, q) = g[N]
  BY <1>1, <1>3, <1>4, <1>5 DEF Through
<1> QED BY <1>6

-----------------------------------------------------------------------------
(* The ledger after a verdict. *)

Outcome == {"delivered", "failed", "onesided"}

IsLedger(l) ==
    l = [tallies |-> l.tallies, moved |-> l.moved, recent |-> l.recent, item_seq |-> l.item_seq]

\* What every verdict of a round is.
Sound(v) == v.outcome \in Outcome /\ v.bytes \in Nat

\* The record of a scope: it remembers a failure.
Tallied(t) ==
    /\ t.rounds \in Nat /\ t.failures \in Nat /\ t.last \in Outcome
    /\ t.last = "failed" => t.failures > 0

Moved(m) ==
    /\ m = [delivered |-> m.delivered, bytes |-> m.bytes, failed |-> m.failed]
    /\ m.delivered \in Nat /\ m.failed \in Nat

\* A pair's tally is a stage's of the transport, or an identity step's.
TalliedLedger(l) ==
    /\ IsLedger(l) /\ IsFiniteSet(DOMAIN l.tallies)
    /\ \A s \in DOMAIN l.tallies : s = <<s[1], s[2], s[3], s[4]>> /\ Tallied(l.tallies[s])

After(l, v) == tally_fold(Entry(l.tallies, scope(v), NoTally), v.outcome)

LEMMA FoldIs ==
    ASSUME NEW l, IsLedger(l), NEW v
    PROVE  /\ IsLedger(fold(l, v))
           /\ fold(l, v).tallies = Put(l.tallies, scope(v), After(l, v))
           /\ fold(l, v).moved =
                 IF v.point # "none" THEN l.moved
                 ELSE Put(l.moved, <<v.stage, v.transport>>,
                          move(Entry(l.moved, <<v.stage, v.transport>>, Throughput), v))
<1> DEFINE new == After(l, v)
           t == Put(l.tallies, scope(v), new)
           kept == [l EXCEPT !.tallies = t]
           m == Put(l.moved, <<v.stage, v.transport>>,
                    move(Entry(l.moved, <<v.stage, v.transport>>, Throughput), v))
           r == record_item(l.recent, <<l.item_seq + 1, scope(v), v.outcome>>)
           n == l.item_seq + 1
<1>1. fold(l, v) = IF v.point # "none" THEN kept
                   ELSE [kept EXCEPT !.moved = m, !.item_seq = n, !.recent = r]
  <2>1. kept.moved = l.moved /\ kept.recent = l.recent /\ kept.item_seq = l.item_seq
    <3> HIDE DEF t
    <3> QED BY DEF IsLedger
  <2> QED BY <2>1 DEF fold, After, IsLedger
<1> HIDE DEF t, m, r, n
<1>2. kept = [tallies |-> t, moved |-> l.moved, recent |-> l.recent, item_seq |-> l.item_seq]
  BY DEF IsLedger
<1> HIDE DEF kept
<1>3. CASE v.point # "none"
  BY <1>1, <1>2, <1>3 DEF IsLedger, t
<1>4. CASE v.point = "none"
  <2>1. fold(l, v) = [tallies |-> t, moved |-> m, recent |-> r, item_seq |-> n]
    BY <1>1, <1>2, <1>4
  <2> QED BY <1>4, <2>1 DEF IsLedger, t, m
<1> QED BY <1>3, <1>4

LEMMA PutIs ==
    ASSUME NEW f, NEW x, NEW y
    PROVE  /\ DOMAIN Put(f, x, y) = DOMAIN f \cup {x}
           /\ Put(f, x, y)[x] = y
           /\ \A z \in DOMAIN f : z # x => Put(f, x, y)[z] = f[z]
BY DEF Put

LEMMA AfterIs ==
    ASSUME NEW l, TalliedLedger(l), NEW v, Sound(v)
    PROVE  /\ Tallied(After(l, v))
           /\ LET t == Entry(l.tallies, scope(v), NoTally)
              IN  /\ t.rounds \in Nat /\ t.failures \in Nat
                  /\ After(l, v).rounds = t.rounds + 1
                  /\ After(l, v).failures = t.failures + (IF v.outcome = "failed" THEN 1 ELSE 0)
<1> DEFINE t == Entry(l.tallies, scope(v), NoTally)
<1>1. t.rounds \in Nat /\ t.failures \in Nat
  BY DEF Entry, NoTally, TalliedLedger, Tallied
<1> HIDE DEF t
<1>2. After(l, v) = [rounds |-> t.rounds + 1,
                     failures |-> t.failures + (IF v.outcome = "failed" THEN 1 ELSE 0),
                     last |-> v.outcome]
  BY DEF After, tally_fold, t
<1>3. Tallied(After(l, v))
  BY <1>1, <1>2 DEF Tallied, Sound
<1> QED BY <1>1, <1>2, <1>3 DEF t

\* No scope leaves the ledger and no failure is forgotten.
Grown(l, m) ==
    \A s \in DOMAIN l.tallies :
        s \in DOMAIN m.tallies /\ m.tallies[s].failures >= l.tallies[s].failures

LEMMA TallyStep ==
    ASSUME NEW l, TalliedLedger(l), NEW v, Sound(v)
    PROVE  TalliedLedger(fold(l, v)) /\ Grown(l, fold(l, v))
<1> DEFINE n == fold(l, v)
           s0 == scope(v)
<1>1. IsLedger(n) /\ n.tallies = Put(l.tallies, s0, After(l, v))
  BY FoldIs DEF TalliedLedger
<1>2. s0 = <<s0[1], s0[2], s0[3], s0[4]>>
  BY DEF scope
<1>3. /\ Tallied(After(l, v))
      /\ s0 \in DOMAIN l.tallies => After(l, v).failures >= l.tallies[s0].failures
  BY AfterIs DEF Entry
<1> HIDE DEF n, s0
<1>4. /\ DOMAIN n.tallies = DOMAIN l.tallies \cup {s0} /\ n.tallies[s0] = After(l, v)
      /\ \A z \in DOMAIN l.tallies : z # s0 => n.tallies[z] = l.tallies[z]
  <2> DEFINE f == l.tallies
             y == After(l, v)
  <2> HIDE DEF f, y
  <2>1. /\ DOMAIN Put(f, s0, y) = DOMAIN f \cup {s0} /\ Put(f, s0, y)[s0] = y
        /\ \A z \in DOMAIN f : z # s0 => Put(f, s0, y)[z] = f[z]
    BY DEF Put
  <2> QED BY <1>1, <2>1 DEF f, y
<1>5. IsFiniteSet(DOMAIN n.tallies)
  BY <1>4, FS_AddElement DEF TalliedLedger
<1>6. \A s \in DOMAIN n.tallies : s = <<s[1], s[2], s[3], s[4]>> /\ Tallied(n.tallies[s])
  BY <1>2, <1>3, <1>4 DEF TalliedLedger
<1>7. Grown(l, n)
  BY <1>3, <1>4 DEF Grown, TalliedLedger, Tallied
<1> QED BY <1>1, <1>5, <1>6, <1>7 DEF TalliedLedger, n
-----------------------------------------------------------------------------
(* The figures a stage publishes for a transport. *)

OwnScopes(l, k) == {s \in DOMAIN l.tallies : s[1] = k[1] /\ s[2] = k[2] /\ s[4] = "none"}
FailuresOf(l, k) == [s \in OwnScopes(l, k) |-> l.tallies[s].failures]
RoundsOf(l, k)   == [s \in OwnScopes(l, k) |-> l.tallies[s].rounds]

\* FiguresAgree of a ledger, and that a stage without figures has no record.
Agreeing(l) ==
    /\ \A k \in DOMAIN l.moved :
          /\ k = <<k[1], k[2]>> /\ Moved(l.moved[k])
          /\ l.moved[k].failed = SumFunction(FailuresOf(l, k))
          /\ l.moved[k].delivered + l.moved[k].failed <= SumFunction(RoundsOf(l, k))
    /\ \A s \in DOMAIN l.tallies : s[4] = "none" => <<s[1], s[2]>> \in DOMAIN l.moved

\* A sum with one term changed or added.
LEMMA SumAt ==
    ASSUME NEW f, NEW g, NEW a, DOMAIN g = DOMAIN f \cup {a}, IsFiniteSet(DOMAIN f), g[a] \in Int,
           \A x \in DOMAIN f : f[x] \in Int, \A x \in DOMAIN f : x # a => g[x] = f[x],
           NEW was, was = IF a \in DOMAIN f THEN f[a] ELSE 0
    PROVE  SumFunction(g) = SumFunction(f) + (g[a] - was)
<1>0. SumFunction(f) \in Int
  BY SumIsInt
<1>1. CASE a \in DOMAIN f
  <2>1. DOMAIN g = DOMAIN f /\ \A x \in DOMAIN f : f[x] \in Int /\ g[x] \in Int
    BY <1>1
  <2>2. SumFunction(g) = SumFunction(f) + (g[a] - f[a])
    BY <1>1, <2>1, SumChange
  <2> QED BY <1>1, <2>2
<1>2. CASE a \notin DOMAIN f
  <2>1. \A x \in DOMAIN f : f[x] \in Int /\ g[x] = f[x]
    BY <1>2
  <2>2. SumFunction(g) = SumFunction(f) + g[a]
    BY <1>2, <2>1, SumGrow
  <2> QED BY <1>0, <1>2, <2>2
<1> QED BY <1>1, <1>2

LEMMA OwnFinite ==
    ASSUME NEW l, TalliedLedger(l), NEW k
    PROVE  /\ IsFiniteSet(OwnScopes(l, k)) /\ DOMAIN FailuresOf(l, k) = OwnScopes(l, k)
           /\ DOMAIN RoundsOf(l, k) = OwnScopes(l, k)
           /\ \A s \in OwnScopes(l, k) : /\ FailuresOf(l, k)[s] = l.tallies[s].failures
                                   /\ RoundsOf(l, k)[s] = l.tallies[s].rounds
                                   /\ l.tallies[s].failures \in Nat
                                   /\ l.tallies[s].rounds \in Nat
<1>1. OwnScopes(l, k) \subseteq DOMAIN l.tallies
  BY DEF OwnScopes
<1>2. IsFiniteSet(OwnScopes(l, k))
  BY <1>1, FS_Subset DEF TalliedLedger
<1> QED BY <1>1, <1>2 DEF FailuresOf, RoundsOf, TalliedLedger, Tallied

\* The records of another stage are as they were.
LEMMA OtherFigures ==
    ASSUME NEW l, NEW n, NEW s0, NEW y, NEW k, n.tallies = Put(l.tallies, s0, y),
           ~(s0[1] = k[1] /\ s0[2] = k[2] /\ s0[4] = "none")
    PROVE  FailuresOf(n, k) = FailuresOf(l, k) /\ RoundsOf(n, k) = RoundsOf(l, k)
<1> DEFINE f == l.tallies
<1>1. /\ DOMAIN n.tallies = DOMAIN f \cup {s0}
      /\ \A z \in DOMAIN f : z # s0 => n.tallies[z] = f[z]
  <2> HIDE DEF f
  <2>1. n.tallies = Put(f, s0, y)
    BY DEF f
  <2> QED BY <2>1 DEF Put
<1>2. OwnScopes(n, k) = OwnScopes(l, k) /\ s0 \notin OwnScopes(l, k)
  BY <1>1 DEF OwnScopes
<1>3. \A s \in OwnScopes(l, k) : n.tallies[s] = l.tallies[s]
  BY <1>1, <1>2 DEF OwnScopes
<1> QED BY <1>2, <1>3 DEF FailuresOf, RoundsOf

\* What a stage's own record adds to its sums.
LEMMA OwnFigures ==
    ASSUME NEW l, TalliedLedger(l), NEW v, Sound(v), v.point = "none",
           NEW k, k = <<v.stage, v.transport>>, NEW n, n.tallies = Put(l.tallies, scope(v), After(l, v))
    PROVE  /\ SumFunction(FailuresOf(n, k)) =
                 SumFunction(FailuresOf(l, k)) + (IF v.outcome = "failed" THEN 1 ELSE 0)
           /\ SumFunction(RoundsOf(n, k)) = SumFunction(RoundsOf(l, k)) + 1
           /\ SumFunction(FailuresOf(l, k)) \in Int /\ SumFunction(RoundsOf(l, k)) \in Int
<1> DEFINE s0 == scope(v)
           new == After(l, v)
           old == Entry(l.tallies, s0, NoTally)
           f == l.tallies
<1>1. s0[1] = k[1] /\ s0[2] = k[2] /\ s0[4] = "none"
  BY DEF scope
<1>2. /\ new.rounds \in Nat /\ new.failures \in Nat
      /\ old.rounds \in Nat /\ old.failures \in Nat /\ new.rounds = old.rounds + 1
      /\ new.failures = old.failures + (IF v.outcome = "failed" THEN 1 ELSE 0)
  BY AfterIs DEF Tallied
<1>3. old = IF s0 \in DOMAIN f THEN f[s0] ELSE NoTally
  BY DEF Entry
<1>4. NoTally.rounds = 0 /\ NoTally.failures = 0
  BY DEF NoTally
<1> HIDE DEF s0, new, old
<1>5. /\ DOMAIN n.tallies = DOMAIN f \cup {s0} /\ n.tallies[s0] = new
      /\ \A z \in DOMAIN f : z # s0 => n.tallies[z] = f[z]
  <2>1. n.tallies = Put(f, s0, new)
    BY DEF s0, new
  <2> HIDE DEF f
  <2> QED BY <2>1 DEF Put
<1>6. /\ IsFiniteSet(OwnScopes(l, k)) /\ DOMAIN FailuresOf(l, k) = OwnScopes(l, k)
      /\ DOMAIN RoundsOf(l, k) = OwnScopes(l, k)
      /\ \A s \in OwnScopes(l, k) : /\ FailuresOf(l, k)[s] = l.tallies[s].failures
                              /\ RoundsOf(l, k)[s] = l.tallies[s].rounds
                              /\ l.tallies[s].failures \in Nat
                              /\ l.tallies[s].rounds \in Nat
  BY OwnFinite
<1>7. OwnScopes(n, k) = OwnScopes(l, k) \cup {s0} /\ (s0 \in OwnScopes(l, k) <=> s0 \in DOMAIN f)
  BY <1>1, <1>5 DEF OwnScopes
<1>8. /\ DOMAIN FailuresOf(n, k) = OwnScopes(l, k) \cup {s0} /\ FailuresOf(n, k)[s0] = new.failures
      /\ DOMAIN RoundsOf(n, k) = OwnScopes(l, k) \cup {s0} /\ RoundsOf(n, k)[s0] = new.rounds
      /\ \A s \in OwnScopes(l, k) : s # s0 => /\ FailuresOf(n, k)[s] = FailuresOf(l, k)[s]
                                        /\ RoundsOf(n, k)[s] = RoundsOf(l, k)[s]
  <2>1. \A s \in OwnScopes(l, k) : s \in DOMAIN f
    BY DEF OwnScopes
  <2> QED BY <1>5, <1>6, <1>7, <2>1 DEF FailuresOf, RoundsOf
<1>12. /\ (IF s0 \in OwnScopes(l, k) THEN FailuresOf(l, k)[s0] ELSE 0) = old.failures
       /\ (IF s0 \in OwnScopes(l, k) THEN RoundsOf(l, k)[s0] ELSE 0) = old.rounds
  BY <1>3, <1>4, <1>6, <1>7
<1>9. SumFunction(FailuresOf(n, k)) = SumFunction(FailuresOf(l, k))
         + (new.failures - old.failures)
  <2> DEFINE ff == FailuresOf(l, k)
             gg == FailuresOf(n, k)
  <2>1. /\ DOMAIN gg = DOMAIN ff \cup {s0} /\ IsFiniteSet(DOMAIN ff) /\ gg[s0] \in Int
        /\ \A x \in DOMAIN ff : ff[x] \in Int
        /\ \A x \in DOMAIN ff : x # s0 => gg[x] = ff[x]
    <3>1. new.failures \in Int /\ new.rounds \in Int
      BY <1>2
    <3>2. \A s \in OwnScopes(l, k) : l.tallies[s].failures \in Int /\ l.tallies[s].rounds \in Int
      BY <1>6
    <3> QED BY <1>6, <1>8, <3>1, <3>2, Zenon
  <2>3. old.failures = IF s0 \in DOMAIN ff THEN ff[s0] ELSE 0
    BY <1>6, <1>12
  <2> HIDE DEF ff, gg
  <2>2. SumFunction(gg) = SumFunction(ff) + (gg[s0] - old.failures)
    BY <2>1, <2>3, SumAt
  <2> QED BY <1>6, <1>8, <2>2 DEF ff, gg
<1>10. SumFunction(RoundsOf(n, k)) = SumFunction(RoundsOf(l, k))
         + (new.rounds - old.rounds)
  <2> DEFINE ff == RoundsOf(l, k)
             gg == RoundsOf(n, k)
  <2>1. /\ DOMAIN gg = DOMAIN ff \cup {s0} /\ IsFiniteSet(DOMAIN ff) /\ gg[s0] \in Int
        /\ \A x \in DOMAIN ff : ff[x] \in Int
        /\ \A x \in DOMAIN ff : x # s0 => gg[x] = ff[x]
    <3>1. new.failures \in Int /\ new.rounds \in Int
      BY <1>2
    <3>2. \A s \in OwnScopes(l, k) : l.tallies[s].failures \in Int /\ l.tallies[s].rounds \in Int
      BY <1>6
    <3> QED BY <1>6, <1>8, <3>1, <3>2, Zenon
  <2>3. old.rounds = IF s0 \in DOMAIN ff THEN ff[s0] ELSE 0
    BY <1>6, <1>12
  <2> HIDE DEF ff, gg
  <2>2. SumFunction(gg) = SumFunction(ff) + (gg[s0] - old.rounds)
    BY <2>1, <2>3, SumAt
  <2> QED BY <1>6, <1>8, <2>2 DEF ff, gg
<1>11. SumFunction(FailuresOf(l, k)) \in Int /\ SumFunction(RoundsOf(l, k)) \in Int
  BY <1>6, SumIsInt
<1> QED BY <1>2, <1>9, <1>10, <1>11

LEMMA MoveCounts ==
    ASSUME NEW m, Moved(m), NEW v, Sound(v)
    PROVE  /\ Moved(move(m, v))
           /\ move(m, v).failed = m.failed + (IF v.outcome = "failed" THEN 1 ELSE 0)
           /\ move(m, v).delivered = m.delivered + (IF v.outcome = "delivered" THEN 1 ELSE 0)
<1> DEFINE b == m.bytes + (IF v.stage = "send" THEN v.bytes ELSE 0)
<1>1. CASE v.outcome = "delivered"
  <2>1. move(m, v) = [m EXCEPT !.delivered = @ + 1, !.bytes = b]
    BY <1>1 DEF move
  <2> HIDE DEF b
  <2>2. move(m, v) = [delivered |-> m.delivered + 1, bytes |-> b, failed |-> m.failed]
    BY <2>1 DEF Moved
  <2> QED BY <1>1, <2>2 DEF Moved
<1>2. CASE v.outcome = "failed"
  <2>1. move(m, v) = [m EXCEPT !.failed = @ + 1]
    BY <1>2 DEF move
  <2>2. move(m, v) = [delivered |-> m.delivered, bytes |-> m.bytes, failed |-> m.failed + 1]
    BY <2>1 DEF Moved
  <2> QED BY <1>2, <2>2 DEF Moved
<1>3. CASE v.outcome = "onesided"
  <2>1. move(m, v) = m
    BY <1>3 DEF move
  <2> QED BY <1>3, <2>1 DEF Moved
<1> QED BY <1>1, <1>2, <1>3 DEF Sound, Outcome

LEMMA FiguresStep ==
    ASSUME NEW l, TalliedLedger(l), Agreeing(l), NEW v, Sound(v)
    PROVE  Agreeing(fold(l, v))
<1> DEFINE n == fold(l, v)
           s0 == scope(v)
           k0 == <<v.stage, v.transport>>
           m0 == Entry(l.moved, k0, Throughput)
<1>1. /\ n.tallies = Put(l.tallies, s0, After(l, v))
      /\ n.moved = IF v.point # "none" THEN l.moved ELSE Put(l.moved, k0, move(m0, v))
  BY FoldIs DEF TalliedLedger
<1>2. s0[1] = k0[1] /\ s0[2] = k0[2] /\ s0[4] = v.point /\ <<s0[1], s0[2]>> = k0
  BY DEF scope
<1>3. DOMAIN n.tallies = DOMAIN l.tallies \cup {s0}
  <2> DEFINE f == l.tallies
             y == After(l, v)
  <2>1. n.tallies = Put(f, s0, y)
    BY <1>1
  <2> HIDE DEF f, y, s0, n
  <2>2. DOMAIN n.tallies = DOMAIN f \cup {s0}
    BY <2>1 DEF Put
  <2> QED BY <2>2 DEF f
<1>4. ASSUME NEW k \in DOMAIN l.moved, k # k0 \/ v.point # "none"
      PROVE  /\ k = <<k[1], k[2]>> /\ Moved(l.moved[k])
             /\ l.moved[k].failed = SumFunction(FailuresOf(n, k))
             /\ l.moved[k].delivered + l.moved[k].failed <= SumFunction(RoundsOf(n, k))
  <2>1. ~(s0[1] = k[1] /\ s0[2] = k[2] /\ s0[4] = "none")
    BY <1>2, <1>4 DEF Agreeing
  <2> DEFINE y == After(l, v)
  <2>2. n.tallies = Put(l.tallies, s0, y)
    BY <1>1
  <2> HIDE DEF y, s0, n
  <2>3. FailuresOf(n, k) = FailuresOf(l, k) /\ RoundsOf(n, k) = RoundsOf(l, k)
    BY <2>1, <2>2, OtherFigures
  <2> QED BY <2>3 DEF Agreeing
<1>5. CASE v.point # "none"
  <2>1. n.moved = l.moved /\ s0[4] # "none"
    BY <1>1, <1>2, <1>5
  <2> HIDE DEF n, s0
  <2> QED BY <1>3, <1>4, <1>5, <2>1 DEF Agreeing, n
<1>6. CASE v.point = "none"
  <2>1. /\ Moved(m0) /\ m0.failed = SumFunction(FailuresOf(l, k0))
        /\ m0.delivered + m0.failed <= SumFunction(RoundsOf(l, k0))
    <3>1. CASE k0 \in DOMAIN l.moved
      <4>1. m0 = l.moved[k0]
        BY <3>1 DEF Entry
      <4> HIDE DEF m0, k0
      <4> QED BY <3>1, <4>1 DEF Agreeing
    <3>2. CASE k0 \notin DOMAIN l.moved
      <4>1. OwnScopes(l, k0) = {}
        BY <3>2 DEF OwnScopes, Agreeing
      <4>2. DOMAIN FailuresOf(l, k0) = {} /\ DOMAIN RoundsOf(l, k0) = {}
        BY <4>1 DEF FailuresOf, RoundsOf
      <4>3. SumFunction(FailuresOf(l, k0)) = 0 /\ SumFunction(RoundsOf(l, k0)) = 0
        BY <4>2, SumOfNone, FS_EmptySet
      <4>4. m0 = [delivered |-> 0, bytes |-> 0, failed |-> 0]
        BY <3>2 DEF Entry, Throughput
      <4> QED BY <4>3, <4>4 DEF Moved
    <3> QED BY <3>1, <3>2
  <2>2. /\ SumFunction(FailuresOf(n, k0)) =
              SumFunction(FailuresOf(l, k0)) + (IF v.outcome = "failed" THEN 1 ELSE 0)
        /\ SumFunction(RoundsOf(n, k0)) = SumFunction(RoundsOf(l, k0)) + 1
        /\ SumFunction(FailuresOf(l, k0)) \in Int /\ SumFunction(RoundsOf(l, k0)) \in Int
    BY <1>1, <1>6, OwnFigures
  <2>3. /\ Moved(move(m0, v))
        /\ move(m0, v).failed = m0.failed + (IF v.outcome = "failed" THEN 1 ELSE 0)
        /\ move(m0, v).delivered = m0.delivered + (IF v.outcome = "delivered" THEN 1 ELSE 0)
    BY <2>1, MoveCounts
  <2> DEFINE m1 == move(m0, v)
             g == l.moved
  <2>4. m0.failed \in Nat /\ m0.delivered \in Nat
    BY <2>1 DEF Moved
  <2>5. /\ m1.failed = SumFunction(FailuresOf(n, k0))
        /\ m1.delivered + m1.failed <= SumFunction(RoundsOf(n, k0))
    <3> HIDE DEF m0, n, k0
    <3> QED BY <2>1, <2>2, <2>3, <2>4
  <2>6. n.moved = Put(g, k0, m1)
    BY <1>1, <1>6
  <2>7. k0 = <<k0[1], k0[2]>>
    OBVIOUS
  <2> HIDE DEF n, m1, g, k0, s0
  <2>8. /\ DOMAIN n.moved = DOMAIN g \cup {k0} /\ n.moved[k0] = m1
        /\ \A z \in DOMAIN g : z # k0 => n.moved[z] = g[z]
    BY <2>6 DEF Put
  <2>9. ASSUME NEW k \in DOMAIN n.moved
        PROVE  /\ k = <<k[1], k[2]>> /\ Moved(n.moved[k])
               /\ n.moved[k].failed = SumFunction(FailuresOf(n, k))
               /\ n.moved[k].delivered + n.moved[k].failed <= SumFunction(RoundsOf(n, k))
    <3>1. CASE k = k0
      BY <2>3, <2>5, <2>7, <2>8, <3>1 DEF m1
    <3>2. CASE k # k0
      <4>1. k \in DOMAIN l.moved /\ n.moved[k] = l.moved[k]
        BY <2>8, <3>2 DEF g
      <4> QED BY <1>4, <3>2, <4>1
    <3> QED BY <3>1, <3>2
  <2>10. \A s \in DOMAIN n.tallies : s[4] = "none" => <<s[1], s[2]>> \in DOMAIN n.moved
    BY <1>2, <1>3, <2>8 DEF Agreeing, g
  <2> QED BY <2>9, <2>10 DEF Agreeing, n
<1> QED BY <1>5, <1>6

-----------------------------------------------------------------------------
(* A round's verdicts. *)

LEMMA EndToEnd ==
    ASSUME NEW X, NEW s \in Seq(X), NEW t \in Seq(X)
    PROVE  /\ s \o t \in Seq(X) /\ Len(s \o t) = Len(s) + Len(t)
           /\ \A i \in 1 .. Len(s) + Len(t) :
                 (s \o t)[i] = IF i <= Len(s) THEN s[i] ELSE t[i - Len(s)]
<1>1. Len(s) \in Nat /\ Len(t) \in Nat
  OBVIOUS
<1>2. \A i \in 1 .. Len(s) : (s \o t)[i] = s[i]
  BY <1>1
<1>3. \A i \in 1 .. Len(s) + Len(t) : i > Len(s) => (s \o t)[i] = t[i - Len(s)]
  BY <1>1
<1>4. s \o t \in Seq(X) /\ Len(s \o t) = Len(s) + Len(t)
  BY <1>1
<1> QED BY <1>1, <1>2, <1>3, <1>4

LEMMA SixThenOne ==
    ASSUME NEW X, NEW s \in Seq(X), NEW t \in Seq(X), NEW u \in Seq(X),
           Len(s) = 3, Len(t) = 3, Len(u) = 1
    PROVE  s \o t \o u = <<s[1], s[2], s[3], t[1], t[2], t[3], u[1]>>
<1> DEFINE v == s \o t
           w == v \o u
<1>1. v \in Seq(X) /\ Len(v) = 6 /\ \A i \in 1 .. 6 : v[i] = IF i <= 3 THEN s[i] ELSE t[i - 3]
  <2>1. /\ v \in Seq(X) /\ Len(v) = Len(s) + Len(t)
        /\ \A i \in 1 .. Len(s) + Len(t) : v[i] = IF i <= Len(s) THEN s[i] ELSE t[i - Len(s)]
    BY EndToEnd, Zenon
  <2> HIDE DEF v
  <2> QED BY <2>1
<1> HIDE DEF v
<1>2. w \in Seq(X) /\ Len(w) = 7 /\ \A i \in 1 .. 7 : w[i] = IF i <= 6 THEN v[i] ELSE u[i - 6]
  <2>1. /\ w \in Seq(X) /\ Len(w) = Len(v) + Len(u)
        /\ \A i \in 1 .. Len(v) + Len(u) : w[i] = IF i <= Len(v) THEN v[i] ELSE u[i - Len(v)]
    BY <1>1, EndToEnd, Zenon
  <2> HIDE DEF w
  <2> QED BY <1>1, <2>1
<1> HIDE DEF w
<1>3. v[1] = s[1] /\ v[2] = s[2] /\ v[3] = s[3] /\ v[4] = t[1] /\ v[5] = t[2] /\ v[6] = t[3]
  BY <1>1
<1>4. /\ w[1] = s[1] /\ w[2] = s[2] /\ w[3] = s[3] /\ w[4] = t[1] /\ w[5] = t[2] /\ w[6] = t[3]
      /\ w[7] = u[1] /\ w = [i \in 1 .. 7 |-> w[i]]
  BY <1>2, <1>3
<1>5. w = <<s[1], s[2], s[3], t[1], t[2], t[3], u[1]>>
  BY <1>4
<1> QED BY <1>5 DEF w, v

\* The stages, the identity steps of Receive and the Send presentation.
LEMMA JudgeIs ==
    ASSUME NEW w, NEW p, NEW e
    PROVE  judge(w, p, e) =
              << stage_verdict(w, p, e, "receive"), stage_verdict(w, p, e, "process"),
                 stage_verdict(w, p, e, "send"),
                 receive_verdicts(w, p)[1], receive_verdicts(w, p)[2], receive_verdicts(w, p)[3],
                 send_verdict(w, p) >>
<1> DEFINE a == stage_verdict(w, p, e, "receive")
           b == stage_verdict(w, p, e, "process")
           c == stage_verdict(w, p, e, "send")
           r == receive_verdicts(w, p)
           s == send_verdict(w, p)
<1>1. [i \in DOMAIN Stages |-> stage_verdict(w, p, e, Stages[i])] = <<a, b, c>>
  <2> DEFINE f == [i \in DOMAIN Stages |-> stage_verdict(w, p, e, Stages[i])]
  <2>1. DOMAIN Stages = 1 .. 3 /\ Stages[1] = "receive" /\ Stages[2] = "process" /\ Stages[3] = "send"
    BY DEF Stages
  <2>2. f[1] = a /\ f[2] = b /\ f[3] = c /\ f = [i \in 1 .. 3 |-> f[i]]
    BY <2>1
  <2> HIDE DEF f, a, b, c
  <2>3. f = <<a, b, c>>
    BY <2>2
  <2> QED BY <2>3 DEF f
<1>2. r = <<r[1], r[2], r[3]>>
  BY DEF receive_verdicts
<1>3. judge(w, p, e) = <<a, b, c>> \o r \o <<s>>
  BY <1>1 DEF judge
<1> HIDE DEF a, b, c, r, s
<1>4. judge(w, p, e) = <<a, b, c, r[1], r[2], r[3], s>>
  <2> DEFINE X == {a, b, c, r[1], r[2], r[3], s}
             f == <<a, b, c>>
             g == <<s>>
  <2>1. f \in Seq(X) /\ Len(f) = 3 /\ f[1] = a /\ f[2] = b /\ f[3] = c
    OBVIOUS
  <2>2. g \in Seq(X) /\ Len(g) = 1 /\ g[1] = s
    OBVIOUS
  <2>3. r \in Seq(X) /\ Len(r) = 3
    <3> DEFINE x == r[1]
               y == r[2]
               z == r[3]
    <3>1. r = <<x, y, z>> /\ x \in X /\ y \in X /\ z \in X
      BY <1>2, Zenon
    <3> HIDE DEF x, y, z, X
    <3>2. <<x, y, z>> \in Seq(X) /\ Len(<<x, y, z>>) = 3
      BY <3>1
    <3> QED BY <3>1, <3>2, Zenon
  <2>4. judge(w, p, e) = f \o r \o g
    BY <1>3
  <2> HIDE DEF X, f, g
  <2>5. f \o r \o g = <<f[1], f[2], f[3], r[1], r[2], r[3], g[1]>>
    BY <2>1, <2>2, <2>3, SixThenOne
  <2> QED BY <2>1, <2>2, <2>4, <2>5
<1> QED BY <1>4 DEF a, b, c, r, s

LEMMA StageIs ==
    ASSUME NEW w, NEW p, NEW e, NEW stage
    PROVE  LET v == stage_verdict(w, p, e, stage)
           IN  Sound(v) /\ scope(v) = <<stage, p[1], p[2], "none">>
<1> DEFINE v == stage_verdict(w, p, e, stage)
           base == round_trip(e)
           own == stage_outcome(stage, base)
           bytes == stage_bytes(stage, base, own)
<1>1. own \in Outcome
  <2> HIDE DEF base
  <2> QED BY DEF stage_outcome, Outcome
<1>2. bytes \in Nat
  <2> HIDE DEF base, own
  <2> QED BY DEF stage_bytes, bytes_moved
<1>3. v = Verdict(p, stage, "none", "failed", 0) \/ v = Verdict(p, stage, "none", own, bytes)
  BY DEF stage_verdict
<1> HIDE DEF v, own, bytes
<1>4. v.outcome \in Outcome /\ v.bytes \in Nat
  BY <1>1, <1>2, <1>3 DEF Verdict, Outcome
<1>5. v.stage = stage /\ v.transport = p[1] /\ v.contract = p[2] /\ v.point = "none"
  BY <1>3 DEF Verdict
<1> QED BY <1>4, <1>5 DEF Sound, scope, v

LEMMA IdentityIs ==
    ASSUME NEW w, NEW p
    PROVE  /\ \A i \in 1 .. 3 :
                 /\ Sound(receive_verdicts(w, p)[i]) /\ receive_verdicts(w, p)[i].point # "none"
                 /\ receive_verdicts(w, p)[i].transport = p[1]
                 /\ receive_verdicts(w, p)[i].stage = "receive"
           /\ Sound(send_verdict(w, p)) /\ send_verdict(w, p).point # "none"
           /\ send_verdict(w, p).transport = p[1] /\ send_verdict(w, p).stage = "send"
<1> DEFINE out == receive(w.identity, w.draw, sender(p[1]), p[1], p[2])
           gone == send(w.identity, w.draw, receiver(p[1]), p[1], p[2])
           r == receive_verdicts(w, p)
           s == send_verdict(w, p)
<1>1. out[1] \in Outcome /\ out[2] \in Outcome /\ out[3] \in Outcome
  BY DEF receive, Outcome
<1>2. gone \in Outcome
  BY DEF send, Outcome
<1>3. /\ r[1] = Verdict(p, "receive", "identification", out[1], 0)
      /\ r[2] = Verdict(p, "receive", "authentication", out[2], 0)
      /\ r[3] = Verdict(p, "receive", "authorization", out[3], 0)
      /\ s = Verdict(p, "send", "identity", gone, 0)
  BY DEF receive_verdicts, send_verdict
<1> HIDE DEF out, gone, r, s
<1>4. \A i \in 1 .. 3 : /\ Sound(r[i]) /\ r[i].point # "none" /\ r[i].transport = p[1]
                        /\ r[i].stage = "receive"
  <2>1. Sound(r[1]) /\ r[1].point # "none" /\ r[1].transport = p[1] /\ r[1].stage = "receive"
    BY <1>1, <1>3 DEF Verdict, Sound
  <2>2. Sound(r[2]) /\ r[2].point # "none" /\ r[2].transport = p[1] /\ r[2].stage = "receive"
    BY <1>1, <1>3 DEF Verdict, Sound
  <2>3. Sound(r[3]) /\ r[3].point # "none" /\ r[3].transport = p[1] /\ r[3].stage = "receive"
    BY <1>1, <1>3 DEF Verdict, Sound
  <2> QED BY <2>1, <2>2, <2>3
<1>5. Sound(s) /\ s.point # "none" /\ s.transport = p[1] /\ s.stage = "send"
  BY <1>2, <1>3 DEF Verdict, Sound
<1> QED BY <1>4, <1>5 DEF r, s

LEMMA JudgeSound ==
    ASSUME NEW w, NEW p, NEW e
    PROVE  /\ judge(w, p, e) = [j \in 1 .. 7 |-> judge(w, p, e)[j]]
           /\ \A j \in 1 .. 7 : Sound(judge(w, p, e)[j])
<1> DEFINE q == judge(w, p, e)
           r == receive_verdicts(w, p)
<1>1. q = << stage_verdict(w, p, e, "receive"), stage_verdict(w, p, e, "process"),
             stage_verdict(w, p, e, "send"), r[1], r[2], r[3], send_verdict(w, p) >>
  BY JudgeIs
<1>2. /\ Sound(stage_verdict(w, p, e, "receive")) /\ Sound(stage_verdict(w, p, e, "process"))
      /\ Sound(stage_verdict(w, p, e, "send"))
  BY StageIs
<1>3. Sound(r[1]) /\ Sound(r[2]) /\ Sound(r[3]) /\ Sound(send_verdict(w, p))
  BY IdentityIs
<1> HIDE DEF q, r
<1>4. \A j \in 1 .. 7 : Sound(q[j])
  BY <1>1, <1>2, <1>3
<1>5. q = [j \in 1 .. 7 |-> q[j]]
  BY <1>1
<1> QED BY <1>4, <1>5 DEF q

\* A round's verdicts, seven a pair.
Judgements(q, N) ==
    /\ q = [n \in 1 .. N |-> q[n]]
    /\ \A n \in 1 .. N : q[n] = [j \in 1 .. 7 |-> q[n][j]]

LEMMA LaidOut ==
    ASSUME NEW N \in Nat, NEW q, Judgements(q, N)
    PROVE  /\ Len(FlattenSeq(q)) \in Nat /\ DOMAIN FlattenSeq(q) = 1 .. Len(FlattenSeq(q))
           /\ \E src : Sources(src, FlattenSeq(q), q, N)
           /\ \A n \in 1 .. N : Len(q[n]) = 7
<1> DEFINE X == {q[n][j] : n \in 1 .. N, j \in 1 .. 7}
<1>1. Len(q) = N /\ DOMAIN q = 1 .. N
  <2> DEFINE f(n) == q[n]
  <2>1. q = [n \in 1 .. N |-> f(n)]
    BY DEF Judgements
  <2> HIDE DEF f
  <2> QED BY <2>1
<1>2. ASSUME NEW n \in 1 .. N PROVE q[n] \in Seq(X) /\ Len(q[n]) = 7
  <2> DEFINE f(j) == q[n][j]
  <2>1. q[n] = [j \in 1 .. 7 |-> f(j)] /\ \A j \in 1 .. 7 : f(j) \in X
    BY DEF Judgements
  <2> HIDE DEF f, X
  <2> QED BY <2>1
<1> HIDE DEF X
<1>3. CASE N = 0
  <2>1. FlattenSeq(q) = q
    BY <1>1, <1>3, FlattenIsEnds
  <2>2. Sources(q, q, q, N)
    BY <1>1, <1>3 DEF Sources
  <2> QED BY <1>1, <1>2, <2>1, <2>2
<1>4. CASE N > 0
  <2>1. FlattenSeq(q) \in Seq(X) /\ \E src : Sources(src, FlattenSeq(q), q, N)
    BY <1>1, <1>2, <1>4, FlattenSources
  <2> QED BY <1>2, <2>1
<1> QED BY <1>3, <1>4

\* Every verdict of the round is one of some pair's seven.
LEMMA LaidFrom ==
    ASSUME NEW N \in Nat, NEW q, Judgements(q, N), NEW k \in DOMAIN FlattenSeq(q)
    PROVE  \E n \in 1 .. N, j \in 1 .. 7 : FlattenSeq(q)[k] = q[n][j]
<1>1. PICK src : Sources(src, FlattenSeq(q), q, N)
  BY LaidOut
<1>2. k \in 1 .. Len(FlattenSeq(q)) /\ \A n \in 1 .. N : Len(q[n]) = 7
  BY LaidOut
<1>3. /\ src[k][1] \in 1 .. N /\ src[k][2] \in 1 .. Len(q[src[k][1]])
      /\ FlattenSeq(q)[k] = q[src[k][1]][src[k][2]]
  BY <1>1, <1>2 DEF Sources
<1> QED BY <1>2, <1>3

\* What holds of a ledger whatever verdicts it was given.
LedgerInv(l) == TalliedLedger(l) /\ Agreeing(l)

LEMMA FirstLedger == LedgerInv(NewLedger)
<1>1. NewLedger.tallies = <<>> /\ NewLedger.moved = <<>> /\ IsLedger(NewLedger)
  BY DEF NewLedger, IsLedger
<1>2. DOMAIN NewLedger.tallies = {} /\ DOMAIN NewLedger.moved = {}
  BY <1>1
<1> QED BY <1>1, <1>2, FS_EmptySet DEF LedgerInv, TalliedLedger, Agreeing

LEMMA RoundLedger ==
    ASSUME NEW l, LedgerInv(l), NEW N \in Nat, NEW q, Judgements(q, N),
           \A n \in 1 .. N : \A j \in 1 .. 7 : Sound(q[n][j])
    PROVE  LedgerInv(fold_all(l, q)) /\ Grown(l, fold_all(l, q))
<1> DEFINE all == FlattenSeq(q)
           L == Len(all)
<1>1. L \in Nat /\ DOMAIN all = 1 .. L
  BY LaidOut
<1>2. \A k \in 1 .. L : Sound(all[k])
  BY <1>1, LaidFrom
<1> HIDE DEF all, L
<1>3. PICK g : Through(g, l, all, L) /\ FoldLeft(fold, l, all) = g[L]
  BY <1>1, FoldThrough
<1> DEFINE S == {k \in Nat : k <= L => LedgerInv(g[k]) /\ Grown(l, g[k])}
<1>4. 0 \in S
  <2>1. g[0] = l
    BY <1>3 DEF Through
  <2>2. Grown(l, l)
    BY DEF Grown, LedgerInv, TalliedLedger, Tallied
  <2> QED BY <2>1, <2>2
<1>5. ASSUME NEW k \in Nat, k \in S PROVE k + 1 \in S
  <2> SUFFICES ASSUME k + 1 <= L PROVE LedgerInv(g[k + 1]) /\ Grown(l, g[k + 1])
    OBVIOUS
  <2>1. k + 1 \in 1 .. L /\ k <= L /\ (k + 1) - 1 = k
    BY <1>1
  <2>2. LedgerInv(g[k]) /\ Grown(l, g[k])
    BY <1>5, <2>1
  <2>3. g[k + 1] = fold(g[k], all[k + 1]) /\ Sound(all[k + 1])
    BY <1>2, <1>3, <2>1 DEF Through
  <2>4. /\ TalliedLedger(fold(g[k], all[k + 1])) /\ Grown(g[k], fold(g[k], all[k + 1]))
        /\ Agreeing(fold(g[k], all[k + 1]))
    BY <2>2, <2>3, TallyStep, FiguresStep DEF LedgerInv
  <2>5. Grown(l, g[k + 1])
    <3>1. Grown(g[k], g[k + 1]) /\ TalliedLedger(l) /\ TalliedLedger(g[k]) /\ TalliedLedger(g[k + 1])
      BY <2>2, <2>3, <2>4 DEF LedgerInv
    <3> QED BY <2>2, <3>1 DEF Grown, TalliedLedger, Tallied
  <2> QED BY <2>3, <2>4, <2>5 DEF LedgerInv
<1>6. L \in S
  <2> HIDE DEF S
  <2> QED BY <1>1, <1>4, <1>5, SetInduction
<1> QED BY <1>1, <1>3, <1>6 DEF fold_all, all

-----------------------------------------------------------------------------
(* The steady transport. *)

\* What a filter keeps: pieces of one item or none.
LEMMA PiecesKept ==
    ASSUME NEW X, NEW n \in Nat, NEW q, q = [i \in 1 .. n |-> q[i]],
           \A i \in 1 .. n : q[i] = <<>> \/ \E x \in X : q[i] = <<x>>
    PROVE  FlattenSeq(q) \in Seq(X)
<1>1. Len(q) = n /\ DOMAIN q = 1 .. n
  <2> DEFINE f(i) == q[i]
  <2>1. q = [i \in 1 .. n |-> f(i)]
    OBVIOUS
  <2> HIDE DEF f
  <2> QED BY <2>1
<1>2. <<>> \in Seq(X) /\ \A x \in X : <<x>> \in Seq(X)
  OBVIOUS
<1>3. \A i \in 1 .. n : q[i] \in Seq(X)
  BY <1>2, Zenon
<1>4. CASE n = 0
  <2>1. FlattenSeq(q) = q
    BY <1>1, <1>4, FlattenIsEnds
  <2> DEFINE f(i) == q[i]
  <2>2. q = [i \in 1 .. 0 |-> f(i)]
    BY <1>4
  <2> HIDE DEF f
  <2>3. q \in [1 .. 0 -> X]
    BY <2>2
  <2>4. [1 .. 0 -> X] \subseteq Seq(X)
    OBVIOUS
  <2> QED BY <2>1, <2>3, <2>4, Zenon
<1>5. CASE n > 0
  BY <1>1, <1>3, <1>5, FlattenSources
<1> QED BY <1>4, <1>5

Named == {Transports[i] : i \in DOMAIN Transports}

LEMMA SpreadType ==
    ASSUME NEW party PROVE sends(party) \in Seq(Named) /\ receives(party) \in Seq(Named)
<1> DEFINE n == Len(Transports)
           a == [i \in DOMAIN Transports |-> IF sender(Transports[i]) = party THEN <<Transports[i]>> ELSE <<>>]
           b == [i \in DOMAIN Transports |-> IF receiver(Transports[i]) = party THEN <<Transports[i]>> ELSE <<>>]
<1>1. n \in Nat /\ DOMAIN Transports = 1 .. n /\ \A i \in 1 .. n : Transports[i] \in Named
  BY MatrixAssumption DEF Named
<1>2. sends(party) = FlattenSeq(a) /\ receives(party) = FlattenSeq(b)
  BY DEF sends, receives, Filtered
<1>3. a = [i \in 1 .. n |-> a[i]] /\ b = [i \in 1 .. n |-> b[i]]
  BY <1>1
<1>4. \A i \in 1 .. n : /\ a[i] = <<>> \/ \E x \in Named : a[i] = <<x>>
                        /\ b[i] = <<>> \/ \E x \in Named : b[i] = <<x>>
  BY <1>1
<1> HIDE DEF a, b, n
<1> QED BY <1>1, <1>2, <1>3, <1>4, PiecesKept

\* The rotation never strikes the steady transport.
LEMMA StrikesSpareSteady ==
    ASSUME NEW turn, Mix(turn) \in Nat, NEW strike \in turn_strikes(turn)
    PROVE  strike.transport \in Named \ {STEADY}
<1> DEFINE party == turn % PartyCount
           stage == IF (turn \div PartyCount) % 2 = 0 THEN "receive" ELSE "send"
           over == IF stage = "send" THEN receives(party) ELSE sends(party)
           a == [i \in DOMAIN over |-> IF over[i] # STEADY THEN <<over[i]>> ELSE <<>>]
           n == Len(over)
           X == Named \ {STEADY}
           c == FlattenSeq(a)
           at0 == (Mix(turn) % Len(c)) + 1
<1>1. c # <<>> /\ strike.transport = c[at0]
  BY DEF turn_strikes, Filtered
<1>2. over \in Seq(Named)
  BY SpreadType
<1> HIDE DEF over
<1>3. n \in Nat /\ DOMAIN over = 1 .. n /\ \A i \in 1 .. n : over[i] \in Named
  BY <1>2
<1>4. /\ a = [i \in 1 .. n |-> a[i]]
      /\ \A i \in 1 .. n : a[i] = <<>> \/ \E x \in X : a[i] = <<x>>
  BY <1>3
<1> HIDE DEF a, n, X
<1>5. c \in Seq(X)
  BY <1>3, <1>4, PiecesKept
<1> HIDE DEF c
<1>6. Len(c) \in Nat /\ Len(c) > 0
  BY <1>1, <1>5
<1>7. Mix(turn) % Len(c) \in Nat /\ Mix(turn) % Len(c) < Len(c)
  BY <1>6, Remainder
<1>8. at0 \in 1 .. Len(c)
  BY <1>6, <1>7
<1> HIDE DEF at0
<1> QED BY <1>1, <1>5, <1>8 DEF X

LEMMA NoStrike ==
    ASSUME NEW second \in Seconds, NEW stage, NEW contract
    PROVE  rotation_fault(stage, STEADY, contract, second) = "none"
<1>1. ASSUME NEW strike \in striking(second) PROVE ~Matches(strike, stage, STEADY, contract)
  <2>1. strike \in turn_strikes(second \div PERIOD)
    BY DEF striking
  <2>2. strike.transport \in Named \ {STEADY}
    BY <2>1, StrikesSpareSteady, SteadyAssumption
  <2>3. strike.transport # "any"
    BY <2>2, SteadyAssumption DEF Named
  <2> QED BY <2>2, <2>3 DEF Matches
<1> QED BY <1>1 DEF rotation_fault

\* No rule of a level's plan is the steady transport's at Receive or Send.
LEMMA RulesSpareSteady ==
    \A i \in DOMAIN realistic :
        realistic[i].stage = "process" \/ realistic[i].transport \notin {"any", STEADY}
<1>1. DOMAIN realistic = 1 .. 10
  BY DEF realistic
<1>2. /\ realistic[1] = Rule("receive", "udp", "any", 9, "transport")
      /\ realistic[2] = Rule("receive", "tcp", "bytes", 5, "transport")
      /\ realistic[3] = Rule("receive", "smtp", "any", 4, "transport")
      /\ realistic[4] = Rule("process", "any", "xml", 6, "contract")
      /\ realistic[5] = Rule("process", "any", "json", 4, "contract")
  BY DEF realistic
<1>3. /\ realistic[6] = Rule("send", "http", "any", 5, "transport")
      /\ realistic[7] = Rule("send", "websocket", "any", 3, "transport")
      /\ realistic[8] = Rule("send", "http", "any", 5, "addressing")
      /\ realistic[9] = Rule("send", "tcp", "any", 3, "addressing")
      /\ realistic[10] = Rule("send", "smtp", "any", 3, "addressing")
  BY DEF realistic
<1>4. \A s, t, c, r, k : Rule(s, t, c, r, k).stage = s /\ Rule(s, t, c, r, k).transport = t
  BY DEF Rule
<1>5. \A i \in 1 .. 5 : realistic[i].stage = "process" \/ realistic[i].transport \notin {"any", STEADY}
  BY <1>2, <1>4 DEF STEADY
<1>6. \A i \in 6 .. 10 : realistic[i].stage = "process" \/ realistic[i].transport \notin {"any", STEADY}
  BY <1>3, <1>4 DEF STEADY
<1> QED BY <1>1, <1>5, <1>6

LEMMA NoRule ==
    ASSUME NEW built \in Shapes, NEW draw, NEW stage \in {"receive", "send"}, NEW contract
    PROVE  plan_fault(built.plan, draw, stage, STEADY, contract) = "none"
<1> DEFINE plan == built.plan
<1>1. ASSUME NEW i \in DOMAIN plan PROVE ~Matches(plan[i], stage, STEADY, contract)
  <2>1. CASE plan = none
    BY <1>1, <2>1 DEF none
  <2>2. CASE plan \in {at(realistic, level) : level \in Level}
    <3>1. PICK level \in Level : plan = at(realistic, level)
      BY <2>2
    <3>2. i \in DOMAIN realistic /\ plan[i] = [realistic[i] EXCEPT !.rate = scaled_rate(@, level)]
      BY <1>1, <3>1 DEF at
    <3>3. plan[i].stage = realistic[i].stage /\ plan[i].transport = realistic[i].transport
      BY <3>2
    <3> QED BY <3>2, <3>3, RulesSpareSteady DEF Matches
  <2> QED BY <2>1, <2>2, SteadyAssumption
<1> HIDE DEF plan
<1>2. plan_fault(plan, draw, stage, STEADY, contract) = "none"
  BY <1>1 DEF plan_fault
<1> QED BY <1>2 DEF plan

LEMMA PlaceIsNat == ASSUME NEW t PROVE place(t) \in Nat
<1> DEFINE found == {i \in DOMAIN Transports : Transports[i] = t}
<1>1. CASE found = {}
  BY <1>1 DEF place
<1>2. CASE found # {}
  <2>1. found \in SUBSET Nat /\ \A i \in found : i >= 1
    BY MatrixAssumption
  <2>2. \E x \in found : \A y \in found : x <= y
    BY <1>2, <2>1, LeastExists
  <2>3. Least(found) \in found
    BY <2>2 DEF Least
  <2>4. place(t) = Least(found) - 1
    BY <1>2 DEF place
  <2> HIDE DEF found
  <2>5. Least(found) \in Nat /\ Least(found) >= 1
    BY <2>1, <2>3
  <2> QED BY <2>4, <2>5
<1> QED BY <1>1, <1>2

\* Nothing injected fails the steady transport's Receive or Send.
LEMMA SteadyVerdict ==
    ASSUME NEW built \in Shapes, NEW w \in Abstract!World(built), NEW p, NEW e \in Answers(p[1]),
           NEW j \in 1 .. 7,
           judge(w, p, e)[j].transport = STEADY, judge(w, p, e)[j].stage # "process"
    PROVE  judge(w, p, e)[j].outcome # "failed"
<1> DEFINE q == judge(w, p, e)
           r == receive_verdicts(w, p)
<1>1. q = << stage_verdict(w, p, e, "receive"), stage_verdict(w, p, e, "process"),
             stage_verdict(w, p, e, "send"), r[1], r[2], r[3], send_verdict(w, p) >>
  BY JudgeIs
<1>2. \A stage : /\ stage_verdict(w, p, e, stage).transport = p[1]
                 /\ stage_verdict(w, p, e, stage).stage = stage
  BY StageIs DEF stage_verdict, Verdict
<1>3. /\ \A i \in 1 .. 3 : r[i].transport = p[1]
      /\ send_verdict(w, p).transport = p[1]
  BY IdentityIs
<1>4. p[1] = STEADY
  <2> HIDE DEF q, r
  <2>1. q[j].transport = p[1]
    BY <1>1, <1>2, <1>3
  <2> QED BY <2>1 DEF q
<1>5. w.now \in Seconds /\ w.plan = built.plan
  BY DEF Abstract!World
<1>6. ASSUME NEW stage \in {"receive", "send"}
      PROVE  stage_verdict(w, p, e, stage).outcome = "delivered"
  <2>1. rotation_fault(stage, p[1], p[2], w.now) = "none"
    BY <1>4, <1>5, NoStrike
  <2>2. plan_fault(w.plan, w.draw, stage, p[1], p[2]) = "none"
    BY <1>4, <1>5, NoRule
  <2>3. fault_for(w, stage, p[1], p[2]) = "none"
    BY <2>1, <2>2 DEF fault_for
  <2>4. e.answer = "whole"
    BY <1>4, SteadyAssumption
  <2>5. round_trip(e) \in {"delivered", "contract not held"}
    BY <2>4 DEF round_trip, carried, held
  <2>6. stage_outcome(stage, round_trip(e)) = "delivered"
    BY <2>5 DEF stage_outcome
  <2> QED BY <2>3, <2>6 DEF stage_verdict, Verdict
<1>7. sender(p[1]) \in 0 .. PartyCount - 1 /\ receiver(p[1]) \in 0 .. PartyCount - 1
  BY PlaceIsNat, Remainder, SteadyAssumption DEF sender, receiver
<1>8. r[1].outcome = "delivered" /\ r[2].outcome = "delivered" /\ r[3].outcome = "delivered"
  <2> DEFINE out == receive(w.identity, w.draw, sender(p[1]), p[1], p[2])
  <2>1. receive_fault(w.identity, w.draw, p[1], p[2]) = "none"
    BY <1>4 DEF receive_fault
  <2>2. authentication(sender(p[1]), TRUE)
    BY <1>7, SteadyAssumption DEF authentication
  <2>3. out = <<"delivered", "delivered", "delivered">>
    BY <2>1, <2>2 DEF receive
  <2> HIDE DEF out
  <2>4. r = << Verdict(p, "receive", "identification", out[1], 0),
               Verdict(p, "receive", "authentication", out[2], 0),
               Verdict(p, "receive", "authorization", out[3], 0) >>
    BY DEF receive_verdicts, out
  <2> QED BY <2>3, <2>4 DEF Verdict
<1>9. send_verdict(w, p).outcome = "delivered"
  <2>1. ~send_fault(w.identity, w.draw, p[1], p[2])
    BY <1>4 DEF send_fault
  <2>2. authentication(receiver(p[1]), TRUE)
    BY <1>7, SteadyAssumption DEF authentication
  <2> QED BY <2>1, <2>2 DEF send, send_verdict, Verdict
<1>10. q[j].stage # "process" => q[j].outcome = "delivered"
  <2> HIDE DEF q, r
  <2>1. /\ stage_verdict(w, p, e, "receive").outcome = "delivered"
        /\ stage_verdict(w, p, e, "send").outcome = "delivered"
        /\ stage_verdict(w, p, e, "process").stage = "process"
    BY <1>2, <1>6
  <2> QED BY <1>1, <1>8, <1>9, <2>1
<1> QED BY <1>10

\* No record of the steady transport but its Process has a failure.
Green(l) ==
    \A s \in DOMAIN l.tallies : s[2] = STEADY /\ s[1] # "process" => l.tallies[s].failures = 0

LEMMA GreenStep ==
    ASSUME NEW l, TalliedLedger(l), Green(l), NEW v, Sound(v),
           v.transport = STEADY /\ v.stage # "process" => v.outcome # "failed"
    PROVE  Green(fold(l, v))
<1> DEFINE n == fold(l, v)
           s0 == scope(v)
           f == l.tallies
           new == After(l, v)
           old == Entry(l.tallies, scope(v), NoTally)
<1>1. n.tallies = Put(f, s0, new)
  BY FoldIs DEF TalliedLedger
<1>2. s0[1] = v.stage /\ s0[2] = v.transport
  BY DEF scope
<1>3. v.outcome # "failed" => new.failures = old.failures
  BY AfterIs
<1>4. old = IF s0 \in DOMAIN f THEN f[s0] ELSE NoTally
  BY DEF Entry
<1>5. NoTally.failures = 0
  BY DEF NoTally
<1> HIDE DEF n, s0, new, old
<1>6. /\ DOMAIN n.tallies = DOMAIN f \cup {s0} /\ n.tallies[s0] = new
      /\ \A z \in DOMAIN f : z # s0 => n.tallies[z] = f[z]
  <2> HIDE DEF f
  <2> QED BY <1>1 DEF Put
<1> QED BY <1>2, <1>3, <1>4, <1>5, <1>6 DEF Green, n

LEMMA GreenRound ==
    ASSUME NEW l, LedgerInv(l), Green(l), NEW N \in Nat, NEW q, Judgements(q, N),
           \A n \in 1 .. N : \A j \in 1 .. 7 :
              /\ Sound(q[n][j])
              /\ q[n][j].transport = STEADY /\ q[n][j].stage # "process"
                    => q[n][j].outcome # "failed"
    PROVE  Green(fold_all(l, q))
<1> DEFINE all == FlattenSeq(q)
           L == Len(all)
<1>1. L \in Nat /\ DOMAIN all = 1 .. L
  BY LaidOut
<1>2. \A k \in 1 .. L : /\ Sound(all[k])
                        /\ all[k].transport = STEADY /\ all[k].stage # "process"
                              => all[k].outcome # "failed"
  <2> SUFFICES ASSUME NEW k \in 1 .. L
               PROVE  /\ Sound(all[k])
                      /\ all[k].transport = STEADY /\ all[k].stage # "process"
                            => all[k].outcome # "failed"
    OBVIOUS
  <2>1. PICK n \in 1 .. N, j \in 1 .. 7 : all[k] = q[n][j]
    BY <1>1, LaidFrom
  <2> HIDE DEF all
  <2> QED BY <2>1
<1> HIDE DEF all, L
<1>3. PICK g : Through(g, l, all, L) /\ FoldLeft(fold, l, all) = g[L]
  BY <1>1, FoldThrough
<1> DEFINE S == {k \in Nat : k <= L => TalliedLedger(g[k]) /\ Green(g[k])}
<1>4. 0 \in S
  BY <1>3 DEF Through, LedgerInv
<1>5. ASSUME NEW k \in Nat, k \in S PROVE k + 1 \in S
  <2> SUFFICES ASSUME k + 1 <= L PROVE TalliedLedger(g[k + 1]) /\ Green(g[k + 1])
    OBVIOUS
  <2>1. k + 1 \in 1 .. L /\ k <= L /\ (k + 1) - 1 = k
    BY <1>1
  <2>2. TalliedLedger(g[k]) /\ Green(g[k])
    BY <1>5, <2>1
  <2>3. g[k + 1] = fold(g[k], all[k + 1])
    BY <1>3, <2>1 DEF Through
  <2>4. TalliedLedger(fold(g[k], all[k + 1])) /\ Green(fold(g[k], all[k + 1]))
    BY <1>2, <2>1, <2>2, TallyStep, GreenStep
  <2> QED BY <2>3, <2>4
<1>6. L \in S
  <2> HIDE DEF S
  <2> QED BY <1>1, <1>4, <1>5, SetInduction
<1> QED BY <1>1, <1>3, <1>6 DEF fold_all, all

-----------------------------------------------------------------------------
(* The turns the pairs have. *)

\* The record of a pair's Receive, which tells its turns.
Received(p) == <<"receive", p[1], p[2], "none">>
TurnsIn(l, s) == Entry(l.tallies, s, NoTally).rounds

LEMMA OneTurn ==
    ASSUME NEW l, TalliedLedger(l), NEW v, Sound(v), NEW s
    PROVE  /\ TurnsIn(l, s) \in Nat
           /\ TurnsIn(fold(l, v), s) = TurnsIn(l, s) + (IF scope(v) = s THEN 1 ELSE 0)
<1> DEFINE n == fold(l, v)
           s0 == scope(v)
           f == l.tallies
           new == After(l, v)
           old == Entry(l.tallies, scope(v), NoTally)
<1>1. n.tallies = Put(f, s0, new)
  BY FoldIs DEF TalliedLedger
<1>2. new.rounds = old.rounds + 1 /\ old.rounds \in Nat
  BY AfterIs
<1>3. TurnsIn(l, s0) = old.rounds
  BY DEF TurnsIn
<1>4. TurnsIn(l, s) \in Nat
  BY DEF TurnsIn, Entry, NoTally, TalliedLedger, Tallied
<1> HIDE DEF n, s0, new, old
<1>5. /\ DOMAIN n.tallies = DOMAIN f \cup {s0} /\ n.tallies[s0] = new
      /\ \A z \in DOMAIN f : z # s0 => n.tallies[z] = f[z]
  <2> HIDE DEF f
  <2> QED BY <1>1 DEF Put
<1>6. CASE s = s0
  <2>1. TurnsIn(n, s0) = new.rounds
    BY <1>5 DEF TurnsIn, Entry
  <2> QED BY <1>2, <1>3, <1>4, <1>6, <2>1 DEF n, s0
<1>7. CASE s # s0
  <2>1. TurnsIn(n, s) = TurnsIn(l, s)
    BY <1>5, <1>7 DEF TurnsIn, Entry
  <2> QED BY <1>4, <1>7, <2>1 DEF n, s0
<1> QED BY <1>6, <1>7

\* A scope that one verdict of the round is about at most.
LEMMA RoundTurns ==
    ASSUME NEW l, LedgerInv(l), NEW N \in Nat, NEW q, Judgements(q, N),
           \A n \in 1 .. N : \A j \in 1 .. 7 : Sound(q[n][j]), NEW s,
           \A n, m \in 1 .. N : \A i, j \in 1 .. 7 :
              scope(q[n][i]) = s /\ scope(q[m][j]) = s => n = m /\ i = j
    PROVE  TurnsIn(fold_all(l, q), s) = TurnsIn(l, s)
             + (IF \E n \in 1 .. N : \E j \in 1 .. 7 : scope(q[n][j]) = s THEN 1 ELSE 0)
<1> DEFINE all == FlattenSeq(q)
           L == Len(all)
<1>1. L \in Nat /\ DOMAIN all = 1 .. L /\ \A n \in 1 .. N : Len(q[n]) = 7
  BY LaidOut
<1>2. PICK src : Sources(src, all, q, N)
  BY LaidOut
<1>3. \A k \in 1 .. L : Sound(all[k])
  BY <1>1, LaidFrom
<1> HIDE DEF all, L
<1>4. \A k \in 1 .. L : /\ src[k] = <<src[k][1], src[k][2]>>
                        /\ src[k][1] \in 1 .. N /\ src[k][2] \in 1 .. 7
                        /\ all[k] = q[src[k][1]][src[k][2]]
  BY <1>1, <1>2 DEF Sources, L
<1>5. ASSUME NEW j \in 1 .. L, NEW k \in 1 .. L, scope(all[j]) = s, scope(all[k]) = s PROVE j = k
  <2> DEFINE a == src[j][1]
             b == src[j][2]
             c == src[k][1]
             d == src[k][2]
  <2>1. /\ a \in 1 .. N /\ b \in 1 .. 7 /\ all[j] = q[a][b] /\ src[j] = <<a, b>>
        /\ c \in 1 .. N /\ d \in 1 .. 7 /\ all[k] = q[c][d] /\ src[k] = <<c, d>>
    BY <1>4, Zenon
  <2> HIDE DEF a, b, c, d
  <2>2. a = c /\ b = d
    BY <1>5, <2>1
  <2>3. src[j] = src[k]
    BY <2>1, <2>2, Zenon
  <2> QED BY <1>2, <2>3 DEF Sources, L
<1>6. (\E n \in 1 .. N : \E j \in 1 .. 7 : scope(q[n][j]) = s) <=> \E k \in 1 .. L : scope(all[k]) = s
  <2>1. ASSUME NEW n \in 1 .. N, NEW j \in 1 .. 7, scope(q[n][j]) = s
        PROVE  \E k \in 1 .. L : scope(all[k]) = s
    <3>1. PICK k \in 1 .. L : src[k] = <<n, j>>
      BY <1>1, <1>2 DEF Sources, L
    <3>2. src[k][1] = n /\ src[k][2] = j
      BY <3>1
    <3>3. all[k] = q[n][j]
      BY <1>4, <3>2
    <3> QED BY <2>1, <3>3
  <2>2. ASSUME NEW k \in 1 .. L, scope(all[k]) = s
        PROVE  \E n \in 1 .. N : \E j \in 1 .. 7 : scope(q[n][j]) = s
    BY <1>4, <2>2
  <2> QED BY <2>1, <2>2
<1>7. PICK g : Through(g, l, all, L) /\ FoldLeft(fold, l, all) = g[L]
  BY <1>1, FoldThrough
<1> DEFINE Had(k) == \E j \in 1 .. k : scope(all[j]) = s
           S == {k \in Nat : k <= L => TalliedLedger(g[k]) /\ TurnsIn(g[k], s) \in Nat
                    /\ TurnsIn(g[k], s) = TurnsIn(l, s) + (IF Had(k) THEN 1 ELSE 0)}
<1>8. TurnsIn(l, s) \in Nat
  BY DEF TurnsIn, Entry, NoTally, TalliedLedger, Tallied, LedgerInv
<1>9. 0 \in S
  <2>1. g[0] = l /\ ~Had(0)
    BY <1>7 DEF Through
  <2> QED BY <1>8, <2>1 DEF LedgerInv
<1>10. ASSUME NEW k \in Nat, k \in S PROVE k + 1 \in S
  <2> SUFFICES ASSUME k + 1 <= L
               PROVE  /\ TalliedLedger(g[k + 1]) /\ TurnsIn(g[k + 1], s) \in Nat
                      /\ TurnsIn(g[k + 1], s) = TurnsIn(l, s) + (IF Had(k + 1) THEN 1 ELSE 0)
    OBVIOUS
  <2>1. k + 1 \in 1 .. L /\ k <= L /\ (k + 1) - 1 = k
    BY <1>1
  <2>2. TalliedLedger(g[k]) /\ TurnsIn(g[k], s) = TurnsIn(l, s) + (IF Had(k) THEN 1 ELSE 0)
    BY <1>10, <2>1
  <2>3. g[k + 1] = fold(g[k], all[k + 1]) /\ Sound(all[k + 1])
    BY <1>3, <1>7, <2>1 DEF Through
  <2> DEFINE m == g[k]
             v == all[k + 1]
  <2>4. TalliedLedger(m) /\ Sound(v) /\ g[k + 1] = fold(m, v)
    BY <2>2, <2>3
  <2> HIDE DEF m, v
  <2>5. /\ TalliedLedger(fold(m, v)) /\ TurnsIn(m, s) \in Nat
        /\ TurnsIn(fold(m, v), s) = TurnsIn(m, s) + (IF scope(v) = s THEN 1 ELSE 0)
    BY <2>4, TallyStep, OneTurn
  <2>6. Had(k + 1) <=> Had(k) \/ scope(v) = s
    BY DEF v
  <2>7. ~(Had(k) /\ scope(v) = s)
    BY <1>1, <1>5, <2>1 DEF v
  <2> HIDE DEF Had
  <2> QED BY <1>8, <2>2, <2>4, <2>5, <2>6, <2>7 DEF m
<1>11. L \in S
  <2> HIDE DEF S
  <2> QED BY <1>1, <1>9, <1>10, SetInduction
<1>12. TurnsIn(g[L], s) = TurnsIn(l, s) + (IF Had(L) THEN 1 ELSE 0)
  BY <1>1, <1>11
<1> QED BY <1>6, <1>7, <1>12 DEF fold_all, all

\* Of a pair's verdicts one is of its Receive.
LEMMA ReceiveIsFirst ==
    ASSUME NEW w, NEW p, NEW e, NEW s, NEW j \in 1 .. 7
    PROVE  scope(judge(w, p, e)[j]) = Received(s) <=> j = 1 /\ p[1] = s[1] /\ p[2] = s[2]
<1> DEFINE q == judge(w, p, e)
           r == receive_verdicts(w, p)
           a == stage_verdict(w, p, e, "receive")
           b == stage_verdict(w, p, e, "process")
           c == stage_verdict(w, p, e, "send")
           d == send_verdict(w, p)
<1>1. q = <<a, b, c, r[1], r[2], r[3], d>>
  BY JudgeIs
<1>2. /\ scope(a) = <<"receive", p[1], p[2], "none">>
      /\ scope(b) = <<"process", p[1], p[2], "none">>
      /\ scope(c) = <<"send", p[1], p[2], "none">>
  BY StageIs
<1>3. r[1].point # "none" /\ r[2].point # "none" /\ r[3].point # "none" /\ d.point # "none"
  BY IdentityIs
<1> HIDE DEF q, r, a, b, c, d
<1>4. /\ scope(a) = Received(s) <=> p[1] = s[1] /\ p[2] = s[2]
      /\ scope(b) # Received(s) /\ scope(c) # Received(s)
  BY <1>2 DEF Received
<1>5. \A v : v.point # "none" => scope(v) # Received(s)
  BY DEF Received, scope
<1>6. /\ q[1] = a /\ q[2] = b /\ q[3] = c /\ q[4] = r[1] /\ q[5] = r[2] /\ q[6] = r[3] /\ q[7] = d
  BY <1>1
<1>7. j = 1 \/ j = 2 \/ j = 3 \/ j = 4 \/ j = 5 \/ j = 6 \/ j = 7
  OBVIOUS
<1> QED BY <1>3, <1>4, <1>5, <1>6, <1>7 DEF q

LEMMA PairsOnce ==
    ASSUME NEW m \in 1 .. Matrix, NEW n \in 1 .. Matrix, all_pairs[m] = all_pairs[n]
    PROVE  m = n
<1>1. PICK i \in DOMAIN Transports, j \in DOMAIN Contracts :
        all_pairs[m] = <<Transports[i], Contracts[j]>> /\ m - 1 = Len(Contracts) * (i - 1) + (j - 1)
  BY PairAt
<1>2. PICK k \in DOMAIN Transports, l \in DOMAIN Contracts :
        all_pairs[n] = <<Transports[k], Contracts[l]>> /\ n - 1 = Len(Contracts) * (k - 1) + (l - 1)
  BY PairAt
<1>3. i = k /\ j = l
  <2>1. all_pairs[m][1] = Transports[i] /\ all_pairs[m][2] = Contracts[j]
    BY <1>1
  <2>2. all_pairs[n][1] = Transports[k] /\ all_pairs[n][2] = Contracts[l]
    BY <1>2
  <2>3. Transports[i] = Transports[k] /\ Contracts[j] = Contracts[l]
    BY <2>1, <2>2, Zenon
  <2> QED BY <2>3, OnceAssumption
<1>4. m - 1 = n - 1
  BY <1>1, <1>2, <1>3
<1> QED BY <1>4, MatrixIsNat

\* A remainder of less than two rounds of the matrix.
LEMMA SmallRemainder ==
    ASSUME NEW a \in Nat, NEW m \in Nat, m > 0, a < m + m
    PROVE  a % m = IF a < m THEN a ELSE a - m
<1> DEFINE r == a % m
           d == a \div m
<1>1. d \in Int /\ r \in Nat /\ r < m /\ m * d + r = a
  BY Remainder
<1> HIDE DEF r, d
<1>2. CASE a < m
  <2>1. m * d + r = m * 0 + a
    BY <1>1
  <2>2. r = a
    BY <1>1, <1>2, <2>1, OneRemainder
  <2> QED BY <1>2, <2>2 DEF r
<1>3. CASE a >= m
  <2>1. a - m \in Nat /\ a - m < m /\ m * d + r = m * 1 + (a - m)
    BY <1>1, <1>3
  <2>2. r = a - m
    BY <1>1, <2>1, OneRemainder
  <2> QED BY <1>3, <2>2 DEF r
<1> QED BY <1>2, <1>3

\* TurnsAreEven with the cursor: the pairs before it have had a turn more.
EvenInv(l, from) ==
    Matrix > 0 =>
        /\ from \in Nat /\ from < Matrix
        /\ \E q \in Nat : \A i \in 1 .. Matrix :
              TurnsIn(l, Received(all_pairs[i])) = q + (IF i <= from THEN 1 ELSE 0)

LEMMA FirstTurns == EvenInv(NewLedger, 0)
<1>1. NewLedger.tallies = <<>> /\ NoTally.rounds = 0
  BY DEF NewLedger, NoTally
<1>2. \A s : TurnsIn(NewLedger, s) = 0
  BY <1>1 DEF TurnsIn, Entry
<1>3. 0 \in Nat /\ \A i \in 1 .. Matrix :
         TurnsIn(NewLedger, Received(all_pairs[i])) = 0 + (IF i <= 0 THEN 1 ELSE 0)
  BY <1>2, MatrixIsNat
<1> QED BY <1>3, MatrixIsNat DEF EvenInv

\* Which places of the matrix a slice takes.
LEMMA Taken ==
    ASSUME Matrix > 0, NEW from \in Nat, from < Matrix, NEW most \in 0 .. Matrix, NEW i \in 1 .. Matrix
    PROVE  (\E n \in 1 .. most : ((from + n - 1) % Matrix) + 1 = i)
              <=> (from < i /\ i <= from + most) \/ i <= from + most - Matrix
<1>0. Matrix \in Nat /\ most \in Nat /\ most <= Matrix
  BY MatrixIsNat
<1>1. \A n \in 1 .. most : (from + n - 1) % Matrix =
         IF from + n - 1 < Matrix THEN from + n - 1 ELSE from + n - 1 - Matrix
  <2> SUFFICES ASSUME NEW n \in 1 .. most
               PROVE  (from + n - 1) % Matrix =
                         IF from + n - 1 < Matrix THEN from + n - 1 ELSE from + n - 1 - Matrix
    OBVIOUS
  <2> DEFINE a == from + n - 1
  <2>1. a \in Nat /\ a < Matrix + Matrix
    BY <1>0
  <2> HIDE DEF a
  <2>2. a % Matrix = IF a < Matrix THEN a ELSE a - Matrix
    BY <1>0, <2>1, SmallRemainder
  <2>3. a = from + n - 1
    BY DEF a
  <2> QED BY <1>0, <2>1, <2>2, <2>3
<1>2. ASSUME NEW n \in 1 .. most, ((from + n - 1) % Matrix) + 1 = i
      PROVE  (from < i /\ i <= from + most) \/ i <= from + most - Matrix
  BY <1>0, <1>1, <1>2
<1>3. ASSUME from < i, i <= from + most
      PROVE  \E n \in 1 .. most : ((from + n - 1) % Matrix) + 1 = i
  <2>1. i - from \in 1 .. most /\ from + (i - from) - 1 < Matrix
    BY <1>0, <1>3
  <2>2. ((from + (i - from) - 1) % Matrix) + 1 = i
    BY <1>0, <1>1, <2>1
  <2> QED BY <2>1, <2>2
<1>4. ASSUME i <= from + most - Matrix
      PROVE  \E n \in 1 .. most : ((from + n - 1) % Matrix) + 1 = i
  <2> DEFINE n == i + Matrix - from
  <2>1. n \in 1 .. most /\ ~(from + n - 1 < Matrix) /\ from + n - 1 - Matrix = i - 1
    BY <1>0, <1>4
  <2> HIDE DEF n
  <2>2. ((from + n - 1) % Matrix) + 1 = i
    BY <1>0, <1>1, <2>1
  <2> QED BY <2>1, <2>2
<1> QED BY <1>2, <1>3, <1>4

\* A round's verdicts, pair after pair, are seven a pair and sound.
LEMMA InOrderIs ==
    ASSUME NEW w, NEW pairs, NEW answers, NEW N \in Nat, DOMAIN pairs = 1 .. N
    PROVE  LET q == Abstract!in_order(w, pairs, answers)
           IN  /\ Judgements(q, N) /\ \A n \in 1 .. N : q[n] = judge(w, pairs[n], answers[n])
               /\ \A n \in 1 .. N : \A j \in 1 .. 7 : Sound(q[n][j])
<1> DEFINE q == Abstract!in_order(w, pairs, answers)
<1>1. q = [n \in 1 .. N |-> judge(w, pairs[n], answers[n])]
  BY DEF Abstract!in_order
<1>2. \A n \in 1 .. N : q[n] = judge(w, pairs[n], answers[n])
  BY <1>1
<1>3. q = [n \in 1 .. N |-> q[n]]
  BY <1>1
<1> HIDE DEF q
<1>4. \A n \in 1 .. N : q[n] = [j \in 1 .. 7 |-> q[n][j]] /\ \A j \in 1 .. 7 : Sound(q[n][j])
  <2> SUFFICES ASSUME NEW n \in 1 .. N
               PROVE  q[n] = [j \in 1 .. 7 |-> q[n][j]] /\ \A j \in 1 .. 7 : Sound(q[n][j])
    OBVIOUS
  <2> DEFINE k == judge(w, pairs[n], answers[n])
  <2>1. k = [j \in 1 .. 7 |-> k[j]] /\ \A j \in 1 .. 7 : Sound(k[j])
    BY JudgeSound
  <2>2. q[n] = k
    BY <1>2
  <2> HIDE DEF k
  <2> QED BY <2>1, <2>2, Zenon
<1> QED BY <1>2, <1>3, <1>4 DEF Judgements, q

\* A slice adds a turn to the pairs it takes, and the cursor moves past them.
LEMMA EvenRound ==
    ASSUME NEW l, LedgerInv(l), NEW from, EvenInv(l, from), NEW count \in Nat, NEW w, NEW answers
    PROVE  EvenInv(fold_all(l, Abstract!in_order(w, slice(from, count), answers)),
                   advanced(from, count))
<1> SUFFICES ASSUME Matrix > 0
             PROVE  EvenInv(fold_all(l, Abstract!in_order(w, slice(from, count), answers)),
                            advanced(from, count))
  BY DEF EvenInv
<1> DEFINE most == IF count <= Matrix THEN count ELSE Matrix
           pairs == slice(from, count)
           q == Abstract!in_order(w, pairs, answers)
           new == fold_all(l, q)
           to == advanced(from, count)
<1>0. Matrix \in Nat /\ most \in 0 .. Matrix /\ most \in Nat
  BY MatrixIsNat
<1>1. from \in Nat /\ from < Matrix
  BY DEF EvenInv
<1>2. PICK r \in Nat : \A i \in 1 .. Matrix :
         TurnsIn(l, Received(all_pairs[i])) = r + (IF i <= from THEN 1 ELSE 0)
  BY DEF EvenInv
<1>3. /\ DOMAIN pairs = 1 .. most
      /\ \A n \in 1 .. most : /\ ((from + n - 1) % Matrix) + 1 \in 1 .. Matrix
                              /\ pairs[n] = all_pairs[((from + n - 1) % Matrix) + 1]
  BY <1>1, SliceIn
<1>4. to = IF from + most < Matrix THEN from + most ELSE from + most - Matrix
  <2>1. Least({count, Matrix}) = most
    BY <1>0, LeastOf
  <2> DEFINE a == from + most
  <2>2. to = a % Matrix
    BY <2>1 DEF advanced
  <2>3. a \in Nat /\ a < Matrix + Matrix
    BY <1>0, <1>1
  <2> HIDE DEF a, to
  <2>4. a % Matrix = IF a < Matrix THEN a ELSE a - Matrix
    BY <1>0, <2>3, SmallRemainder
  <2>5. to = IF a < Matrix THEN a ELSE a - Matrix
    BY <2>2, <2>4, Zenon
  <2>6. a = from + most
    BY DEF a
  <2> HIDE DEF most
  <2> QED BY <1>0, <1>1, <2>3, <2>5, <2>6
<1> HIDE DEF most, pairs, to
<1>5. /\ Judgements(q, most) /\ \A n \in 1 .. most : q[n] = judge(w, pairs[n], answers[n])
      /\ \A n \in 1 .. most : \A j \in 1 .. 7 : Sound(q[n][j])
  BY <1>0, <1>3, InOrderIs
<1> HIDE DEF q
<1> DEFINE Slot(n) == ((from + n - 1) % Matrix) + 1
<1>6. ASSUME NEW i \in 1 .. Matrix, NEW n \in 1 .. most, NEW j \in 1 .. 7
      PROVE  scope(q[n][j]) = Received(all_pairs[i]) <=> j = 1 /\ Slot(n) = i
  <2>1. scope(judge(w, pairs[n], answers[n])[j]) = Received(all_pairs[i])
           <=> j = 1 /\ pairs[n][1] = all_pairs[i][1] /\ pairs[n][2] = all_pairs[i][2]
    BY ReceiveIsFirst
  <2>2. Slot(n) \in 1 .. Matrix /\ pairs[n] = all_pairs[Slot(n)]
    BY <1>3
  <2> HIDE DEF Slot
  <2>3. \A m \in 1 .. Matrix : all_pairs[m] = <<all_pairs[m][1], all_pairs[m][2]>>
    <3> SUFFICES ASSUME NEW m \in 1 .. Matrix
                 PROVE  all_pairs[m] = <<all_pairs[m][1], all_pairs[m][2]>>
      OBVIOUS
    <3>1. PICK a \in DOMAIN Transports, b \in DOMAIN Contracts :
            all_pairs[m] = <<Transports[a], Contracts[b]>>
      BY PairAt
    <3> QED BY <3>1
  <2>4. all_pairs[Slot(n)][1] = all_pairs[i][1] /\ all_pairs[Slot(n)][2] = all_pairs[i][2]
           <=> Slot(n) = i
    <3>1. ASSUME all_pairs[Slot(n)][1] = all_pairs[i][1], all_pairs[Slot(n)][2] = all_pairs[i][2]
          PROVE  Slot(n) = i
      <4>1. all_pairs[Slot(n)] = all_pairs[i]
        BY <2>2, <2>3, <3>1, Zenon
      <4> QED BY <2>2, <4>1, PairsOnce
    <3> QED BY <3>1
  <2> QED BY <1>5, <2>1, <2>2, <2>4
<1>7. ASSUME NEW m \in 1 .. most, NEW n \in 1 .. most, Slot(m) = Slot(n) PROVE m = n
  <2> DEFINE a == from + m - 1
             b == from + n - 1
  <2>1. a \in Nat /\ b \in Nat /\ a < Matrix + Matrix /\ b < Matrix + Matrix
        /\ a - b < Matrix /\ b - a < Matrix
    BY <1>0, <1>1
  <2>2. (a % Matrix) + 1 = (b % Matrix) + 1
    BY <1>7
  <2>3. a = from + m - 1 /\ b = from + n - 1
    OBVIOUS
  <2> HIDE DEF a, b
  <2>4. /\ a % Matrix = IF a < Matrix THEN a ELSE a - Matrix
        /\ b % Matrix = IF b < Matrix THEN b ELSE b - Matrix
    BY <1>0, <2>1, SmallRemainder
  <2>5. a = b
    BY <1>0, <2>1, <2>2, <2>4
  <2> QED BY <1>0, <1>1, <2>3, <2>5
<1>8. ASSUME NEW i \in 1 .. Matrix
      PROVE  TurnsIn(new, Received(all_pairs[i])) = r + (IF i <= from THEN 1 ELSE 0)
                + (IF (from < i /\ i <= from + most) \/ i <= from + most - Matrix THEN 1 ELSE 0)
  <2> DEFINE s == Received(all_pairs[i])
  <2>1. \A m, n \in 1 .. most : \A j, k \in 1 .. 7 :
           scope(q[m][j]) = s /\ scope(q[n][k]) = s => m = n /\ j = k
    <3> SUFFICES ASSUME NEW m \in 1 .. most, NEW n \in 1 .. most, NEW j \in 1 .. 7, NEW k \in 1 .. 7,
                        scope(q[m][j]) = s, scope(q[n][k]) = s
                 PROVE  m = n /\ j = k
      OBVIOUS
    <3>1. j = 1 /\ k = 1 /\ Slot(m) = i /\ Slot(n) = i
      BY <1>6
    <3> HIDE DEF Slot
    <3> QED BY <1>7, <3>1
  <2>2. (\E n \in 1 .. most : \E j \in 1 .. 7 : scope(q[n][j]) = s) <=> \E n \in 1 .. most : Slot(n) = i
    <3> HIDE DEF Slot
    <3>1. 1 \in 1 .. 7
      OBVIOUS
    <3> QED BY <1>6, <3>1
  <2>3. (\E n \in 1 .. most : Slot(n) = i) <=> (from < i /\ i <= from + most) \/ i <= from + most - Matrix
    BY <1>0, <1>1, Taken
  <2> HIDE DEF s, Slot
  <2>4. TurnsIn(new, s) = TurnsIn(l, s)
           + (IF \E n \in 1 .. most : \E j \in 1 .. 7 : scope(q[n][j]) = s THEN 1 ELSE 0)
    BY <1>0, <1>5, <2>1, RoundTurns
  <2>5. TurnsIn(l, s) = r + (IF i <= from THEN 1 ELSE 0)
    BY <1>2 DEF s
  <2> HIDE DEF new
  <2> QED BY <2>2, <2>3, <2>4, <2>5 DEF s
<1> HIDE DEF new, Slot
<1>9. CASE from + most < Matrix
  <2>1. to = from + most
    BY <1>4, <1>9
  <2>2. ASSUME NEW i \in 1 .. Matrix
        PROVE  TurnsIn(new, Received(all_pairs[i])) = r + (IF i <= to THEN 1 ELSE 0)
    BY <1>0, <1>1, <1>2, <1>8, <1>9, <2>1
  <2> QED BY <1>0, <1>1, <1>9, <2>1, <2>2 DEF EvenInv, new, q, pairs, to
<1>10. CASE from + most >= Matrix
  <2>1. to = from + most - Matrix
    BY <1>0, <1>1, <1>4, <1>10
  <2>2. ASSUME NEW i \in 1 .. Matrix
        PROVE  TurnsIn(new, Received(all_pairs[i])) = (r + 1) + (IF i <= to THEN 1 ELSE 0)
    BY <1>0, <1>1, <1>2, <1>8, <1>10, <2>1
  <2>3. r + 1 \in Nat /\ to \in Nat /\ to < Matrix
    BY <1>0, <1>1, <1>10, <2>1
  <2> QED BY <2>2, <2>3 DEF EvenInv, new, q, pairs, to
<1> QED BY <1>0, <1>1, <1>9, <1>10

-----------------------------------------------------------------------------
(* The ledger over the rounds. *)

\* What is published is the record's, and what was red has failed.
BoardInv ==
    /\ DOMAIN board = DOMAIN ledger.tallies
    /\ \A s \in DOMAIN board : board[s] = over_time(ledger.tallies[s])

\* The schedule between and in its rounds, and the ledger it folds into.
TallyInv ==
    /\ RoundInv /\ LedgerInv(ledger) /\ Green(ledger) /\ EvenInv(ledger, cursor) /\ BoardInv

LEMMA TallyFirst == Init => TallyInv
<1> SUFFICES ASSUME Init PROVE TallyInv
  OBVIOUS
<1>1. ledger = NewLedger /\ board = <<>> /\ cursor = 0 /\ NewLedger.tallies = <<>>
  BY DEF Init, NewLedger
<1>2. DOMAIN board = {} /\ DOMAIN ledger.tallies = {}
  BY <1>1
<1>3. Green(ledger) /\ BoardInv
  BY <1>2 DEF Green, BoardInv
<1> QED BY <1>1, <1>3, RoundFirst, FirstLedger, FirstTurns DEF TallyInv

\* A round's end: what it folds is sound and spares the steady transport.
LEMMA TallyFinish ==
    ASSUME TallyInv, Finish
    PROVE  /\ LedgerInv(ledger') /\ Green(ledger') /\ EvenInv(ledger', cursor')
           /\ BoardInv' /\ Grown(ledger, ledger')
<1>1. RoundInv /\ LedgerInv(ledger) /\ Green(ledger) /\ EvenInv(ledger, cursor)
  BY DEF TallyInv
<1>2. /\ DOMAIN met'.answers = DOMAIN Pairs
      /\ \A n \in DOMAIN Pairs : met'.answers[n] \in Answers(Pairs[n][1])
      /\ ledger' = fold_all(ledger, Abstract!in_order(world, Pairs, met'.answers))
      /\ board' = close(ledger') /\ cursor' = advanced(cursor, shape.per_round)
      /\ world \in Abstract!World(shape)
  BY <1>1, FinishInOrder
<1>3. Len(Pairs) \in Nat /\ DOMAIN Pairs = 1 .. Len(Pairs)
  BY <1>1, PairsType
<1>4. shape \in Shapes /\ shape.per_round \in Nat
  BY <1>1, ScheduleAssumption DEF RoundInv
<1> DEFINE N == Len(Pairs)
           answers == met'.answers
           q == Abstract!in_order(world, Pairs, answers)
<1> HIDE DEF N, answers
<1>5. N \in Nat /\ DOMAIN Pairs = 1 .. N
  BY <1>3 DEF N
<1>6. /\ Judgements(q, N) /\ \A n \in 1 .. N : q[n] = judge(world, Pairs[n], answers[n])
      /\ \A n \in 1 .. N : \A j \in 1 .. 7 : Sound(q[n][j])
  BY <1>5, InOrderIs
<1> HIDE DEF q
<1>7. ledger' = fold_all(ledger, q)
  BY <1>2 DEF q, answers
<1>8. LedgerInv(ledger') /\ Grown(ledger, ledger')
  BY <1>1, <1>5, <1>6, <1>7, RoundLedger
<1>9. ASSUME NEW n \in 1 .. N, NEW j \in 1 .. 7, q[n][j].transport = STEADY, q[n][j].stage # "process"
      PROVE  q[n][j].outcome # "failed"
  <2>1. answers[n] \in Answers(Pairs[n][1])
    BY <1>2, <1>5 DEF answers
  <2>2. q[n] = judge(world, Pairs[n], answers[n])
    BY <1>6
  <2> QED BY <1>2, <1>4, <1>9, <2>1, <2>2, SteadyVerdict
<1>10. Green(ledger')
  BY <1>1, <1>5, <1>6, <1>7, <1>9, GreenRound
<1>11. EvenInv(ledger', cursor')
  <2>1. EvenInv(fold_all(ledger, Abstract!in_order(world, slice(cursor, shape.per_round), answers)),
                advanced(cursor, shape.per_round))
    BY <1>1, <1>4, EvenRound
  <2> QED BY <1>2, <1>7, <2>1 DEF q, Pairs
<1>12. BoardInv'
  BY <1>2 DEF BoardInv, close
<1> QED BY <1>8, <1>10, <1>11, <1>12

LEMMA TallyStepInv == ASSUME TallyInv, Next PROVE TallyInv' /\ Grown(ledger, ledger')
<1>1. RoundInv'
  BY ScheduleStep DEF TallyInv
<1>2. CASE Finish
  BY <1>1, <1>2, TallyFinish DEF TallyInv
<1>3. CASE ~Finish
  <2>1. ledger' = ledger /\ board' = board /\ cursor' = cursor
    BY <1>3 DEF Next, Begin, Fetch, Judge
  <2>2. Grown(ledger, ledger)
    BY DEF Grown, TallyInv, LedgerInv, TalliedLedger, Tallied
  <2> QED BY <1>1, <2>1, <2>2 DEF TallyInv, BoardInv
<1> QED BY <1>2, <1>3

LEMMA TallyStill == ASSUME TallyInv, UNCHANGED vars PROVE TallyInv' /\ Grown(ledger, ledger')
<1>1. RoundInv'
  BY RoundStill DEF TallyInv
<1>2. ledger' = ledger /\ board' = board /\ cursor' = cursor
  BY DEF vars
<1>3. Grown(ledger, ledger)
  BY DEF Grown, TallyInv, LedgerInv, TalliedLedger, Tallied
<1> QED BY <1>1, <1>2, <1>3 DEF TallyInv, BoardInv

\* The scopes of RoundTrip that were red have failed, and every scope that
\* was red is some test's.
Tests == Judging \cup {"round_trip"}
RedInv ==
    /\ \A red \in reds : \E test \in Tests : \E s : red = <<test, s>>
    /\ \A s : <<"round_trip", s>> \in reds =>
          s \in DOMAIN ledger.tallies /\ ledger.tallies[s].failures > 0

LEMMA RoundRed ==
    ASSUME NEW a, NEW b, NEW c, NEW d, NEW e, NEW f, NEW red,
           red \in Red([round_trip |-> a, heavy_load |-> b, retention |-> c, filing |-> d,
                       storm |-> e, backlog |-> f])
    PROVE  /\ \E test \in Tests : \E s : red = <<test, s>>
           /\ \A s : red = <<"round_trip", s>> => s \in DOMAIN a /\ a[s] = "done"
<1> DEFINE now == [round_trip |-> a, heavy_load |-> b, retention |-> c, filing |-> d,
                   storm |-> e, backlog |-> f]
<1>1. \E t \in DOMAIN now : \E s \in DOMAIN now[t] : red = <<t, s>> /\ now[t][s] = "done"
  <2> HIDE DEF now
  <2>1. red \in Red(now)
    BY DEF now
  <2> QED BY <2>1 DEF Red
<1>2. PICK t \in DOMAIN now : \E s \in DOMAIN now[t] : red = <<t, s>> /\ now[t][s] = "done"
  BY <1>1
<1>3. PICK s \in DOMAIN now[t] : red = <<t, s>> /\ now[t][s] = "done"
  BY <1>2
<1>4. t \in Tests
  BY DEF Tests, Judging
<1>5. now["round_trip"] = a
  OBVIOUS
<1> HIDE DEF now
<1>6. ASSUME NEW u, red = <<"round_trip", u>> PROVE u \in DOMAIN a /\ a[u] = "done"
  BY <1>3, <1>5, <1>6
<1> QED BY <1>3, <1>4, <1>6

LEMMA DoneHasFailed ==
    ASSUME NEW t, Tallied(t)
    PROVE  /\ over_time(t).health = "done" => t.failures > 0
           /\ t.failures > 0 => over_time(t).health # "fine"
<1>1. CASE t.last = "delivered"
  <2>1. CASE t.failures = 0
    BY <1>1, <2>1 DEF over_time
  <2>2. CASE t.failures # 0
    BY <1>1, <2>2 DEF over_time, Tallied
  <2> QED BY <2>1, <2>2
<1>2. CASE t.last = "failed"
  BY <1>2 DEF over_time, Tallied
<1>3. CASE t.last = "onesided"
  BY <1>3 DEF over_time
<1> QED BY <1>1, <1>2, <1>3 DEF Tallied, Outcome

\* Once it was red a scope has failed, and its failures are never forgotten.
LEMMA RedStep ==
    ASSUME TallyInv, TallyInv', Grown(ledger, ledger'), RedInv,
           reds' = reds \/ reds' = reds \cup Red(Board')
    PROVE  RedInv'
<1>1. \A s \in DOMAIN ledger'.tallies : Tallied(ledger'.tallies[s])
  BY DEF TallyInv, LedgerInv, TalliedLedger
<1>2. \A s \in DOMAIN ledger.tallies : Tallied(ledger.tallies[s])
  BY DEF TallyInv, LedgerInv, TalliedLedger
<1>3. ASSUME NEW s, s \in DOMAIN ledger.tallies, ledger.tallies[s].failures > 0
      PROVE  s \in DOMAIN ledger'.tallies /\ ledger'.tallies[s].failures > 0
  BY <1>1, <1>2, <1>3 DEF Grown, Tallied
<1>4. ASSUME NEW red \in Red(Board')
      PROVE  /\ \E test \in Tests : \E s : red = <<test, s>>
             /\ \A s : red = <<"round_trip", s>> =>
                    s \in DOMAIN ledger'.tallies /\ ledger'.tallies[s].failures > 0
  <2> DEFINE a == [s \in DOMAIN board' |-> board'[s].health]
  <2>1. /\ \E test \in Tests : \E s : red = <<test, s>>
        /\ \A s : red = <<"round_trip", s>> => s \in DOMAIN a /\ a[s] = "done"
    BY RoundRed DEF Board
  <2>2. ASSUME NEW s \in DOMAIN a, a[s] = "done"
        PROVE  s \in DOMAIN ledger'.tallies /\ ledger'.tallies[s].failures > 0
    <3>1. s \in DOMAIN ledger'.tallies /\ over_time(ledger'.tallies[s]).health = "done"
      BY <2>2 DEF TallyInv, BoardInv
    <3> QED BY <1>1, <3>1, DoneHasFailed
  <2> HIDE DEF a
  <2> QED BY <2>1, <2>2
<1>5. \A red \in reds' : red \in reds \/ red \in Red(Board')
  OBVIOUS
<1>6. \A red \in reds' : \E test \in Tests : \E s : red = <<test, s>>
  BY <1>4, <1>5 DEF RedInv
<1>7. ASSUME NEW s, <<"round_trip", s>> \in reds'
      PROVE  s \in DOMAIN ledger'.tallies /\ ledger'.tallies[s].failures > 0
  <2>1. CASE <<"round_trip", s>> \in reds
    BY <1>3, <2>1 DEF RedInv
  <2>2. CASE <<"round_trip", s>> \in Red(Board')
    BY <1>4, <2>2
  <2> QED BY <1>5, <1>7, <2>1, <2>2
<1> QED BY <1>6, <1>7 DEF RedInv

\* The inductive invariant of the theorems below.
RoundsInv == TallyInv /\ RedInv /\ LatInv /\ BacklogInv

LEMMA RoundsFirst == ScenarioInit => RoundsInv
<1>1. ScenarioInit => RedInv
  BY DEF ScenarioInit, RedInv
<1> QED BY <1>1, TallyFirst, LatFirst, BacklogFirst DEF ScenarioInit, RoundsInv

LEMMA RoundsStep == RoundsInv /\ [ScenarioNext]_scenarioVars => RoundsInv'
<1> SUFFICES ASSUME RoundsInv, [ScenarioNext]_scenarioVars PROVE RoundsInv'
  OBVIOUS
<1> USE DEF RoundsInv
<1>1. TallyInv' /\ Grown(ledger, ledger')
  <2>1. Next \/ UNCHANGED vars
    BY DEF ScenarioNext, scenarioVars, RoundTripStep, LowLatencyStep, HeavyLoadStep,
           RetentionStep, FilingStep, StormStep, DailyBacklogStep, EventingStep, ServedStep
  <2> QED BY <2>1, TallyStepInv, TallyStill
<1>2. RedInv'
  <2>1. reds' = reds \/ reds' = reds \cup Red(Board')
    BY DEF ScenarioNext, scenarioVars, RoundTripStep, LowLatencyStep, HeavyLoadStep, Merged,
           RetentionStep, FilingStep, StormStep, DailyBacklogStep, EventingStep, ServedStep
  <2> QED BY <1>1, <2>1, RedStep
<1>3. LatInv'
  <2>1. LatTick \/ UNCHANGED latVars
    BY DEF ScenarioNext, scenarioVars, RoundTripStep, LowLatencyStep, HeavyLoadStep,
           RetentionStep, FilingStep, StormStep, DailyBacklogStep, EventingStep, ServedStep
  <2> QED BY <2>1, LatStep, LatStill
<1>4. BacklogInv'
  <2>1. BacklogNext \/ UNCHANGED backlogVars
    BY DEF ScenarioNext, scenarioVars, RoundTripStep, LowLatencyStep, HeavyLoadStep,
           RetentionStep, FilingStep, StormStep, DailyBacklogStep, EventingStep, ServedStep
  <2> QED BY <2>1, BacklogStep, BacklogStill
<1> QED BY <1>1, <1>2, <1>3, <1>4

LEMMA RoundsInvariance == Spec => []RoundsInv
BY RoundsFirst, RoundsStep, PTL DEF Spec

-----------------------------------------------------------------------------
(* The theorems. *)

\* However many threads drive a round and however they interleave, each round
\* leaves the ledger, the board and the cursor as one thread judging the slice
\* in matrix order would have (schedule.rs tick, schedule/workers.rs
\* drive_each): the threaded schedule implements the sequential one.
THEOREM ThreadsKeepOrder == Spec => Sequential
<1>1. ScenarioInit => Abstract!Start
  BY StartInOrder DEF ScenarioInit
<1>2. RoundsInv /\ [ScenarioNext]_scenarioVars => [Abstract!Tick]_(Abstract!abstractVars)
  <2> SUFFICES ASSUME RoundsInv, [ScenarioNext]_scenarioVars
               PROVE  Abstract!Tick \/ UNCHANGED Abstract!abstractVars
    OBVIOUS
  <2>1. Next \/ UNCHANGED vars
    BY DEF ScenarioNext, scenarioVars, RoundTripStep, LowLatencyStep, HeavyLoadStep,
           RetentionStep, FilingStep, StormStep, DailyBacklogStep, EventingStep, ServedStep
  <2>2. CASE Next
    BY <2>2, StepInOrder DEF RoundsInv, TallyInv
  <2>3. CASE UNCHANGED vars
    BY <2>3 DEF vars, Abstract!abstractVars, Driving, Idle
  <2> QED BY <2>1, <2>2, <2>3
<1> QED BY <1>1, <1>2, RoundsInvariance, PTL DEF Spec, Sequential, Abstract!InOrderSpec

\* A scope once published red never reads green again, in RoundTrip as in the
\* tests that judge by standings (tally.rs, standing.rs), for any matrix, any
\* faults and answers, and however the tests' rounds interleave.
THEOREM RedStays == Spec => []RedIsRemembered
<1>1. RoundsInv /\ StandingsRemember => RedIsRemembered
  <2> SUFFICES ASSUME RoundsInv, StandingsRemember, NEW red \in reds
               PROVE  red[2] \in DOMAIN Board[red[1]] /\ Board[red[1]][red[2]] # "fine"
    BY DEF RedIsRemembered
  <2>1. PICK test \in Tests : \E s : red = <<test, s>>
    BY DEF RoundsInv, RedInv
  <2>2. PICK s : red = <<test, s>>
    BY <2>1
  <2>3. red[1] = test /\ red[2] = s
    BY <2>2
  <2>4. s \in DOMAIN Board[test] /\ Board[test][s] # "fine"
    <3>1. CASE test \in Judging
      BY <2>2, <3>1 DEF StandingsRemember
    <3>2. CASE test = "round_trip"
      <4>1. s \in DOMAIN ledger.tallies /\ ledger.tallies[s].failures > 0
        BY <2>2, <3>2 DEF RoundsInv, RedInv
      <4>2. Tallied(ledger.tallies[s])
        BY <4>1 DEF RoundsInv, TallyInv, LedgerInv, TalliedLedger
      <4>3. s \in DOMAIN board /\ board[s].health # "fine"
        BY <4>1, <4>2, DoneHasFailed DEF RoundsInv, TallyInv, BoardInv
      <4>4. Board[test] = [u \in DOMAIN board |-> board[u].health]
        BY <3>2 DEF Board
      <4> QED BY <4>3, <4>4
    <3> QED BY <3>1, <3>2 DEF Tests
  <2> QED BY <2>3, <2>4
<1> QED BY <1>1, RoundsInvariance, RedStandingsStay, PTL

\* Nothing injected ever fails the steady transport's Receive or Send, its
\* identity steps included, at any level, in any turn of the rotation and for
\* any draw (fault.rs STEADY, rotation.rs turn, identity.rs).
THEOREM SteadyIsSpared == Spec => []SteadyStaysGreen
<1>1. RoundsInv => SteadyStaysGreen
  BY DEF RoundsInv, TallyInv, Green, SteadyStaysGreen
<1> QED BY <1>1, RoundsInvariance, PTL

\* The failures a stage publishes for a transport are those of its pairs' own
\* records, and it counts no more rounds than they ran (ledger.rs fold, move).
THEOREM FiguresAddUp == Spec => []FiguresAgree
<1>1. RoundsInv => FiguresAgree
  BY DEF RoundsInv, TallyInv, LedgerInv, Agreeing, FailuresOf, RoundsOf, OwnScopes, FiguresAgree
<1> QED BY <1>1, RoundsInvariance, PTL

\* Bounded rounds give no pair two turns more than another, whatever the
\* matrix and the slice and also where one does not divide the other
\* (workers.rs slice, schedule.rs advance).
THEOREM TurnsStayEven == Spec => []TurnsAreEven
<1>1. RoundsInv => TurnsAreEven
  <2> SUFFICES ASSUME RoundsInv, NEW n \in DOMAIN all_pairs, NEW m \in DOMAIN all_pairs
               PROVE  Turns(all_pairs[n]) <= Turns(all_pairs[m]) + 1
    BY DEF TurnsAreEven
  <2>1. n \in 1 .. Matrix /\ m \in 1 .. Matrix /\ Matrix > 0
    BY MatrixCells, MatrixIsNat
  <2>2. PICK q \in Nat : \A i \in 1 .. Matrix :
           TurnsIn(ledger, Received(all_pairs[i])) = q + (IF i <= cursor THEN 1 ELSE 0)
    BY <2>1 DEF RoundsInv, TallyInv, EvenInv
  <2>3. \A p : Turns(p) = TurnsIn(ledger, Received(p))
    BY DEF Turns, TurnsIn, Received
  <2> QED BY <2>1, <2>2, <2>3
<1> QED BY <1>1, RoundsInvariance, PTL

\* A spike leaves the tail once as many samples as the ring holds came after
\* it: a pair whose last RING samples were within its budget reads green
\* (low_latency.rs record, percentile), for any ring, transports and replies.
THEOREM SpikesLeave == Spec => []SpikesFade
<1>1. RoundsInv => SpikesFade
  BY LatFades DEF RoundsInv
<1> QED BY <1>1, RoundsInvariance, PTL

\* What arrived in the backlog waits or was drained by one process once, for
\* any number of processes and readers and any race over the same file
\* (daily_backlog.rs drain).
THEOREM BacklogDrainsOnce == Spec => []DrainedOnce
<1>1. RoundsInv => DrainedOnce
  BY DEF RoundsInv, BacklogInv, Kept, Waiting, DrainedOnce
<1> QED BY <1>1, RoundsInvariance, PTL
=============================================================================
