------------------------- MODULE P90EstimatorProofs -------------------------
(***************************************************************************)
(* Proofs about P90_Estimator and compute_timeout, for any capacity, any   *)
(* run times and any number of reports.                                    *)
(***************************************************************************)
EXTENDS MCP90Estimator, SequenceTheorems, FiniteSetTheorems, WellFoundedInduction, TLAPS

Positive == Nat \ {0}

\* Induction in the form the proofs use: no set of naturals lacks a least one.
LEMMA LeastNatural ==
    ASSUME NEW T \in SUBSET Nat, T # {}
    PROVE  \E x \in T : \A y \in T : x <= y
<1>1. PICK x \in T : \A y \in T : ~(<<y, x>> \in OpToRel(<, Nat))
  BY NatLessThanWellFounded, WFMin, Zenon
<1>2. \A y \in T : <<y, x>> \in OpToRel(<, Nat) <=> y < x
  BY DEF OpToRel
<1>3. \A y \in T : ~(y < x)
  BY <1>1, <1>2, Zenon
<1>4. \A y \in T : x <= y
  BY <1>3
<1> QED
  BY <1>4

-----------------------------------------------------------------------------
(***************************************************************************)
(* Counting the samples of a window.                                       *)
(***************************************************************************)
LEMMA CountingSamples ==
    ASSUME NEW s \in Seq(Nat), NEW X, X \subseteq DOMAIN s
    PROVE  /\ Cardinality(X) \in Nat
           /\ \A Y \in SUBSET X : Cardinality(Y) <= Cardinality(X)
           /\ Cardinality(DOMAIN s) = Len(s)
<1>1. DOMAIN s = 1 .. Len(s) /\ Len(s) \in Nat
  OBVIOUS
<1>2. IsFiniteSet(DOMAIN s) /\ Cardinality(DOMAIN s) = Len(s)
  <2>1. \A n \in Nat : IsFiniteSet(1 .. n) /\ Cardinality(1 .. n) = n
    BY FS_Interval
  <2> QED
    BY <1>1, <2>1, Zenon
<1>3. IsFiniteSet(X)
  BY <1>2, FS_Subset
<1> QED
  BY <1>2, <1>3, FS_Subset, FS_CardinalityType

\* Samples never exceed some value: a prefix of the window has an upper bound.
LEMMA SamplesAreBounded ==
    ASSUME NEW s \in Seq(Nat)
    PROVE  \E b \in Nat : \A i \in DOMAIN s : s[i] <= b
<1> DEFINE Bounded(m) == \E b \in Nat : \A i \in 1 .. m : s[i] <= b
           T == {m \in Nat : m <= Len(s) /\ ~Bounded(m)}
<1>0. Len(s) \in Nat /\ DOMAIN s = 1 .. Len(s) /\ \A i \in 1 .. Len(s) : s[i] \in Nat
  OBVIOUS
<1>1. Bounded(0)
  <2>1. \A i \in 1 .. 0 : s[i] <= 0
    OBVIOUS
  <2> QED
    BY <2>1
<1>2. ASSUME NEW m \in 1 .. Len(s), Bounded(m - 1) PROVE Bounded(m)
  <2>1. PICK b \in Nat : \A i \in 1 .. m - 1 : s[i] <= b
    BY <1>2
  <2> HIDE DEF Bounded
  <2>2. s[m] \in Nat /\ b + s[m] \in Nat
    BY <1>0
  <2>3. \A i \in 1 .. m : s[i] <= b + s[m]
    <3>1. ASSUME NEW i \in 1 .. m PROVE s[i] <= b + s[m]
      <4>1. s[i] \in Nat
        BY <1>0
      <4>2. CASE i = m
        BY <2>2, <4>2
      <4>3. CASE i # m
        <5>1. i \in 1 .. m - 1
          BY <4>3
        <5>2. s[i] <= b
          BY <2>1, <5>1
        <5> QED
          BY <2>2, <4>1, <5>2
      <4> QED
        BY <4>2, <4>3
    <3> QED
      BY <3>1
  <2> QED
    BY <2>2, <2>3 DEF Bounded
<1> HIDE DEF Bounded
<1>3. ASSUME T # {} PROVE FALSE
  <2>1. PICK m \in T : \A y \in T : m <= y
    BY <1>3, LeastNatural
  <2>2. m \in Nat /\ m <= Len(s) /\ ~Bounded(m) /\ m # 0
    BY <1>1, <2>1
  <2>3. m \in 1 .. Len(s) /\ m - 1 \in Nat /\ m - 1 <= Len(s) /\ ~(m <= m - 1)
    BY <1>0, <2>2
  <2>4. Bounded(m - 1)
    BY <2>1, <2>3
  <2> QED
    BY <1>2, <2>2, <2>3, <2>4
<1>4. Bounded(Len(s))
  BY <1>0, <1>3
<1> QED
  BY <1>0, <1>4 DEF Bounded

\* nth_element finds an element: the least value that more than k samples do
\* not exceed is itself a sample.
LEMMA NthElementExists ==
    ASSUME NEW s \in Seq(Nat), NEW k \in Nat, k < Len(s)
    PROVE  \E v \in {s[i] : i \in DOMAIN s} :
              /\ Cardinality({i \in DOMAIN s : s[i] < v}) <= k
              /\ Cardinality({i \in DOMAIN s : s[i] <= v}) > k
<1> DEFINE Below(v)  == {i \in DOMAIN s : s[i] < v}
           UpTo(v)   == {i \in DOMAIN s : s[i] <= v}
           V == {v \in Nat : Cardinality(UpTo(v)) > k}
<1>0. \A i \in DOMAIN s : s[i] \in Nat
  OBVIOUS
<1>1. PICK b \in Nat : \A i \in DOMAIN s : s[i] <= b
  BY SamplesAreBounded
<1>2. UpTo(b) = DOMAIN s
  BY <1>1
<1>3. b \in V
  BY <1>2, CountingSamples
<1>4. PICK v \in V : \A w \in V : v <= w
  BY <1>3, LeastNatural
<1>5. Cardinality(Below(v)) <= k
  <2>1. CASE v = 0
    <3>1. Below(v) = {}
      BY <1>0, <2>1
    <3>2. Cardinality({}) = 0
      BY FS_EmptySet
    <3>3. Cardinality(Below(v)) = 0
      BY <3>1, <3>2, Zenon
    <3> HIDE DEF Below
    <3> QED
      BY <3>3
  <2>2. CASE v # 0
    <3>1. v - 1 \in Nat /\ ~(Cardinality(UpTo(v - 1)) > k)
      <4>1. v \in Nat /\ v - 1 \in Nat /\ ~(v <= v - 1)
        BY <1>4, <2>2
      <4> QED
        BY <1>4, <4>1
    <3>2. Below(v) = UpTo(v - 1)
      BY <1>0, <1>4
    <3>3. Cardinality(UpTo(v - 1)) \in Nat
      BY CountingSamples
    <3> HIDE DEF Below, UpTo
    <3> QED
      BY <3>1, <3>2, <3>3
  <2> QED
    BY <2>1, <2>2
<1>6. \E i \in DOMAIN s : s[i] = v
  <2>1. ASSUME \A i \in DOMAIN s : s[i] # v PROVE FALSE
    <3>1. UpTo(v) = Below(v)
      BY <1>0, <1>4, <2>1
    <3> QED
      BY <1>4, <1>5, <3>1, CountingSamples
  <2> QED
    BY <2>1
<1> QED
  BY <1>4, <1>5, <1>6

\* The integer rank: ceil(0.9 n) - 1, and a position of the window.
LEMMA RankArithmetic ==
    ASSUME NEW n \in Nat \ {0}
    PROVE  /\ P90Index(n) \in 0 .. n - 1
           /\ 10 * (P90Index(n) + 1) >= 9 * n
           /\ 10 * P90Index(n) < 9 * n
BY DEF P90Index

(***************************************************************************)
(* The operator compute() on any window: the nearest-rank 90th percentile. *)
(***************************************************************************)
LEMMA ComputeIsNearestRank ==
    ASSUME NEW s \in Seq(Nat), s # << >>
    PROVE  IsNearestRankP90(s, compute(s))
<1> DEFINE n == Len(s)
           k == P90Index(n)
           v == compute(s)
<1>1. n \in Nat \ {0}
  OBVIOUS
<1>2. k \in Nat /\ k < n /\ 10 * (k + 1) >= 9 * n /\ 10 * k < 9 * n
  BY <1>1, RankArithmetic
<1>3. v = NthElement(s, k)
  BY <1>1 DEF compute
<1>4. /\ v \in {s[i] : i \in DOMAIN s}
      /\ Cardinality({i \in DOMAIN s : s[i] < v}) <= k
      /\ Cardinality({i \in DOMAIN s : s[i] <= v}) > k
  <2> HIDE DEF k, n, v
  <2>1. \E u \in {s[i] : i \in DOMAIN s} :
              /\ Cardinality({i \in DOMAIN s : s[i] < u}) <= k
              /\ Cardinality({i \in DOMAIN s : s[i] <= u}) > k
    BY <1>2, NthElementExists DEF n
  <2> QED
    BY <1>3, <2>1, Zenon DEF NthElement
<1> HIDE DEF k, v
<1>5. AtMost(s, v) \in Nat /\ AtMost(s, v) > k
  BY <1>4, CountingSamples DEF AtMost
<1>6. 10 * AtMost(s, v) >= 9 * n
  BY <1>1, <1>2, <1>5
<1>7. ASSUME NEW w \in {s[i] : i \in DOMAIN s}, w < v
      PROVE  10 * AtMost(s, w) < 9 * n
  <2>1. w \in Nat /\ v \in Nat
    BY <1>4
  <2>2. {i \in DOMAIN s : s[i] <= w} \subseteq {i \in DOMAIN s : s[i] < v}
    <3>1. \A i \in DOMAIN s : s[i] \in Nat
      OBVIOUS
    <3> QED
      BY <1>7, <2>1, <3>1
  <2>3. AtMost(s, w) \in Nat /\ AtMost(s, w) <= Cardinality({i \in DOMAIN s : s[i] < v})
    BY <2>2, CountingSamples DEF AtMost
  <2>4. Cardinality({i \in DOMAIN s : s[i] < v}) \in Nat
    BY CountingSamples
  <2> QED
    BY <1>1, <1>2, <1>4, <2>3, <2>4
<1> QED
  BY <1>4, <1>6, <1>7, Zenon DEF IsNearestRankP90, v, n

-----------------------------------------------------------------------------
(***************************************************************************)
(* The inductive invariant: the window is the end of the history, whatever *)
(* was dropped before and whatever reports did not count.                  *)
(***************************************************************************)
WindowIsRecent ==
    /\ counted \in Seq(Positive)
    /\ samples = Recent(counted)

\* What Recent cuts out, position by position.
LEMMA RecentProperties ==
    ASSUME NEW s \in Seq(Positive)
    PROVE  /\ Recent(s) \in Seq(Positive)
           /\ Len(s) <= Capacity => Recent(s) = s
           /\ Len(s) > Capacity =>
                 /\ Len(Recent(s)) = Capacity
                 /\ \A i \in 1 .. Capacity : Recent(s)[i] = s[Len(s) - Capacity + i]
<1>0. Capacity \in Nat \ {0} /\ Len(s) \in Nat
  BY P90Assumption
<1>1. CASE Len(s) <= Capacity
  <2>1. Recent(s) = SubSeq(s, 1, Len(s))
    <3>1. ~(Len(s) > Capacity)
      BY <1>0, <1>1
    <3> QED
      BY <3>1, Zenon DEF Recent
  <2>2. Recent(s) = s
    BY <2>1, SubSeqFull
  <2> QED
    BY <1>0, <1>1, <2>2
<1>2. CASE Len(s) > Capacity
  <2> DEFINE m == Len(s) - Capacity + 1
  <2>1. Recent(s) = SubSeq(s, m, Len(s))
    BY <1>2 DEF Recent
  <2>2. m \in Int /\ Len(s) \in Int /\ \A i \in m .. Len(s) : s[i] \in Positive
    BY <1>0, <1>2
  <2>3. /\ SubSeq(s, m, Len(s)) \in Seq(Positive)
        /\ Len(SubSeq(s, m, Len(s))) = IF m <= Len(s) THEN Len(s) - m + 1 ELSE 0
        /\ \A i \in 1 .. Len(s) - m + 1 : SubSeq(s, m, Len(s))[i] = s[m + i - 1]
    <3> DEFINE n == Len(s)
    <3>1. m \in Int /\ n \in Int /\ \A i \in m .. n : s[i] \in Positive
      BY <2>2
    <3> HIDE DEF m, n
    <3>2. /\ SubSeq(s, m, n) \in Seq(Positive)
          /\ Len(SubSeq(s, m, n)) = IF m <= n THEN n - m + 1 ELSE 0
          /\ \A i \in 1 .. n - m + 1 : SubSeq(s, m, n)[i] = s[m + i - 1]
      BY <3>1, SubSeqProperties
    <3> QED
      BY <3>2 DEF n
  <2>4. Len(s) - m + 1 = Capacity /\ m <= Len(s)
    BY <1>0, <1>2
  <2>5. \A i \in 1 .. Capacity : m + i - 1 = Len(s) - Capacity + i
    BY <1>0
  <2> QED
    BY <1>2, <2>1, <2>3, <2>4, <2>5
<1> QED
  BY <1>0, <1>1, <1>2

\* One call of add moves the window on by one.
LEMMA WindowMoves ==
    ASSUME NEW s \in Seq(Positive), NEW d \in Positive
    PROVE  AddTo(Recent(s), d) = Recent(Append(s, d))
<1> DEFINE t == Append(s, d)
           c == Capacity
<1>0. c \in Nat \ {0} /\ Len(s) \in Nat
  BY P90Assumption
<1>1. /\ t \in Seq(Positive) /\ Len(t) = Len(s) + 1
      /\ \A i \in 1 .. Len(s) : t[i] = s[i]
      /\ t[Len(s) + 1] = d
  BY AppendProperties
<1>2. Recent(t) \in Seq(Positive) /\ Recent(s) \in Seq(Positive)
  BY <1>1, RecentProperties
<1>3. CASE Len(s) < c
  <2>0. Len(t) <= c /\ Len(s) <= c /\ ~(Len(s) >= c) /\ ~(d <= 0)
    BY <1>0, <1>1, <1>3 DEF Positive
  <2>1. Recent(t) = t /\ Recent(s) = s
    <3> HIDE DEF t
    <3> QED
      BY <1>1, <2>0, RecentProperties, Zenon
  <2> QED
    BY <2>0, <2>1, Zenon DEF AddTo
<1>4. CASE Len(s) >= c
  <2> DEFINE old == Recent(s)
             new == AddTo(old, d)
  <2>1. /\ Len(old) = c
        /\ \A i \in 1 .. c : old[i] = s[Len(s) - c + i]
    <3>1. CASE Len(s) = c
      <4>1. \A i \in 1 .. c : Len(s) - c + i = i
        BY <1>0, <3>1
      <4>2. old = s
        BY <1>0, <3>1, RecentProperties
      <4> QED
        BY <3>1, <4>1, <4>2
    <3>2. CASE Len(s) > c
      BY <3>2, RecentProperties
    <3> QED
      BY <1>0, <1>4, <3>1, <3>2
  <2>2. new = Append(Tail(old), d)
    <3>1. Len(old) >= c /\ ~(d <= 0)
      BY <1>0, <2>1 DEF Positive
    <3> QED
      BY <3>1, Zenon DEF AddTo
  <2> HIDE DEF old, new
  <2>3. old \in Seq(Positive) /\ old # << >>
    BY <1>0, <1>2, <2>1 DEF old
  <2>4. /\ Tail(old) \in Seq(Positive) /\ Len(Tail(old)) = c - 1
        /\ \A i \in 1 .. c - 1 : Tail(old)[i] = old[i + 1]
    BY <2>1, <2>3, HeadTailProperties
  <2>5. /\ new \in Seq(Positive) /\ Len(new) = c
        /\ \A i \in 1 .. c - 1 : new[i] = Tail(old)[i]
        /\ new[c] = d
    <3> DEFINE u == Tail(old)
    <3>0. u \in Seq(Positive) /\ Len(u) = c - 1
      BY <2>4
    <3>1. new = Append(u, d)
      BY <2>2
    <3> HIDE DEF u
    <3>2. /\ Append(u, d) \in Seq(Positive)
          /\ Len(Append(u, d)) = Len(u) + 1
          /\ \A i \in 1 .. Len(u) : Append(u, d)[i] = u[i]
          /\ Append(u, d)[Len(u) + 1] = d
      BY <3>0, AppendProperties
    <3>3. c - 1 + 1 = c
      BY <1>0
    <3>4. new \in Seq(Positive) /\ Len(new) = c /\ new[c] = d
      BY <3>0, <3>1, <3>2, <3>3
    <3>5. \A i \in 1 .. c - 1 : new[i] = u[i]
      BY <3>0, <3>1, <3>2
    <3> QED
      BY <3>4, <3>5 DEF u
  <2>6. /\ Len(Recent(t)) = c
        /\ \A i \in 1 .. c : Recent(t)[i] = t[Len(s) + 1 - c + i]
    <3>1. Len(t) > c /\ Len(t) = Len(s) + 1
      BY <1>0, <1>1, <1>4
    <3> HIDE DEF t
    <3>2. /\ Len(Recent(t)) = c
          /\ \A i \in 1 .. c : Recent(t)[i] = t[Len(t) - c + i]
      BY <1>1, <3>1, RecentProperties, Zenon
    <3>3. ASSUME NEW i \in 1 .. c PROVE Recent(t)[i] = t[Len(s) + 1 - c + i]
      <4>1. Recent(t)[i] = t[Len(t) - c + i]
        BY <3>2, Zenon
      <4>2. Len(t) - c + i = Len(s) + 1 - c + i
        BY <1>0, <1>1, <3>1
      <4> QED
        BY <4>1, <4>2, Zenon
    <3> QED
      BY <3>2, <3>3, Zenon
  <2>7. ASSUME NEW i \in 1 .. c PROVE new[i] = Recent(t)[i]
    <3>1. CASE i = c
      <4>1. Len(s) + 1 - c + i = Len(s) + 1
        BY <1>0, <3>1
      <4> QED
        BY <1>1, <2>5, <2>6, <3>1, <4>1
    <3>2. CASE i # c
      <4>1. i \in 1 .. c - 1 /\ i + 1 \in 1 .. c
        BY <1>0, <3>2
      <4>2. new[i] = s[Len(s) - c + (i + 1)]
        BY <2>1, <2>4, <2>5, <4>1
      <4>3. Len(s) - c + (i + 1) = Len(s) + 1 - c + i
        BY <1>0
      <4>4. Len(s) + 1 - c + i \in 1 .. Len(s)
        BY <1>0, <1>4, <4>1
      <4>5. Recent(t)[i] = s[Len(s) + 1 - c + i]
        BY <1>1, <2>6, <4>4
      <4> QED
        BY <4>2, <4>3, <4>5
    <3> QED
      BY <3>1, <3>2
  <2>8. new = Recent(t)
    BY <1>2, <2>5, <2>6, <2>7, SeqEqual
  <2> QED
    BY <2>8 DEF old, new
<1> QED
  BY <1>0, <1>3, <1>4

LEMMA WindowIsRecentInductive ==
    ASSUME WindowIsRecent, [HistoryNext]_<<samples, counted>>
    PROVE  WindowIsRecent'
<1>1. ASSUME NEW d \in Durations, add(d),
             counted' = IF d > 0 THEN Append(counted, d) ELSE counted
      PROVE  WindowIsRecent'
  <2>0. d \in Nat /\ counted \in Seq(Positive) /\ samples = Recent(counted)
    BY P90Assumption DEF WindowIsRecent
  <2>1. CASE d = 0
    <3>1. counted' = counted /\ samples' = samples
      BY <1>1, <2>1 DEF add, AddTo
    <3> QED
      BY <2>0, <3>1 DEF WindowIsRecent
  <2>2. CASE d # 0
    <3>1. d \in Positive /\ d > 0
      BY <2>0, <2>2 DEF Positive
    <3>2. counted' = Append(counted, d) /\ samples' = AddTo(Recent(counted), d)
      BY <1>1, <2>0, <3>1 DEF add
    <3>3. counted' \in Seq(Positive)
      BY <2>0, <3>1, <3>2, AppendProperties
    <3>4. samples' = Recent(counted')
      BY <2>0, <3>1, <3>2, WindowMoves
    <3> QED
      BY <3>3, <3>4 DEF WindowIsRecent
  <2> QED
    BY <2>1, <2>2
<1>2. CASE UNCHANGED <<samples, counted>>
  BY <1>2 DEF WindowIsRecent
<1> QED
  BY <1>1, <1>2 DEF HistoryNext

LEMMA WindowIsRecentInitially == HistoryInit => WindowIsRecent
<1>1. ASSUME HistoryInit PROVE WindowIsRecent
  <2>1. counted = << >> /\ samples = << >> /\ Capacity \in Nat
    BY <1>1, P90Assumption DEF HistoryInit, Init
  <2>2. << >> \in Seq(Positive) /\ Len(<< >>) <= Capacity
    BY <2>1
  <2>3. Recent(<< >>) = << >>
    BY <2>1, <2>2, RecentProperties, Zenon
  <2> QED
    BY <2>1, <2>2, <2>3 DEF WindowIsRecent
<1> QED
  BY <1>1

LEMMA WindowStaysRecent == HistorySpec => []WindowIsRecent
BY WindowIsRecentInitially, WindowIsRecentInductive, PTL DEF HistorySpec

(***************************************************************************)
(* compute() answers the nearest-rank 90th percentile of the latest run    *)
(* times of a second or more, for every capacity and after any number of   *)
(* reports (P90_Estimator::add and compute).                               *)
(***************************************************************************)
THEOREM PercentileIsExact == HistorySpec => []ComputesP90
<1>1. ASSUME WindowIsRecent PROVE ComputesP90
  <2>1. ASSUME counted # << >> PROVE Recent(counted) # << >>
    <3>1. counted \in Seq(Positive) /\ Capacity \in Nat \ {0}
      BY <1>1, P90Assumption DEF WindowIsRecent
    <3>2. Len(counted) \in Nat \ {0}
      BY <2>1, <3>1
    <3>3. Len(Recent(counted)) # 0
      BY <3>1, <3>2, RecentProperties
    <3> QED
      BY <3>3
  <2>2. samples = Recent(counted) /\ samples \in Seq(Nat)
    <3>1. samples \in Seq(Positive)
      BY <1>1, RecentProperties DEF WindowIsRecent
    <3> QED
      BY <1>1, <3>1 DEF WindowIsRecent, Positive
  <2> QED
    BY <2>1, <2>2, ComputeIsNearestRank DEF ComputesP90
<1> QED
  BY <1>1, WindowStaysRecent, PTL

-----------------------------------------------------------------------------
\* ceil(1.5 p) leaves at least one second to a run of p seconds.
LEMMA ScalingLeavesRoom ==
    ASSUME NEW p \in Positive
    PROVE  ScaledUp(p) \in Nat /\ ScaledUp(p) - 1 >= p
BY DEF ScaledUp, Positive

(***************************************************************************)
(* The deadline of a fast run is the default while there are too few       *)
(* samples; then it is longer than the run time of nine tenths of them,    *)
(* for every window (Scheduler::compute_timeout).                          *)
(***************************************************************************)
THEOREM DeadlinesSpareTypicalJobs == HistorySpec => []DeadlineSparesTypicalJobs
<1>1. ASSUME WindowIsRecent PROVE DeadlineSparesTypicalJobs
  <2> DEFINE n == Len(samples)
             p == compute(samples)
             t == compute_timeout(samples)
  <2>0. MinSamples \in Nat \ {0}
    BY P90Assumption
  <2>1. samples \in Seq(Positive)
    BY <1>1, RecentProperties DEF WindowIsRecent
  <2>2. CASE n < MinSamples
    BY <2>2 DEF DeadlineSparesTypicalJobs, compute_timeout
  <2>3. CASE ~(n < MinSamples)
    <3>1. samples \in Seq(Nat) /\ n \in Nat \ {0} /\ samples # << >>
      BY <2>0, <2>1, <2>3 DEF Positive
    <3>2. IsNearestRankP90(samples, p)
      BY <3>1, ComputeIsNearestRank
    <3>3. p \in Positive
      BY <2>1, <3>2 DEF IsNearestRankP90
    <3>4. t = ScaledUp(p)
      BY <2>3, <3>3 DEF compute_timeout, Positive
    <3> HIDE DEF p, t
    <3>5. t \in Nat /\ t - 1 >= p /\ t - 1 \in Nat /\ t > 1
      BY <3>3, <3>4, ScalingLeavesRoom DEF Positive
    <3>6. {i \in DOMAIN samples : samples[i] <= p}
            \subseteq {i \in DOMAIN samples : samples[i] <= t - 1}
      <4>1. \A i \in DOMAIN samples : samples[i] \in Nat
        BY <3>1
      <4> QED
        BY <3>3, <3>5, <4>1 DEF Positive
    <3>7. /\ AtMost(samples, p) \in Nat /\ AtMost(samples, t - 1) \in Nat
          /\ AtMost(samples, p) <= AtMost(samples, t - 1)
      BY <3>1, <3>6, CountingSamples DEF AtMost
    <3>8. 10 * AtMost(samples, p) >= 9 * n
      BY <3>2 DEF IsNearestRankP90
    <3>9. 10 * AtMost(samples, t - 1) >= 9 * n
      BY <3>1, <3>7, <3>8
    <3> QED
      BY <3>5, <3>9 DEF DeadlineSparesTypicalJobs, t
  <2> QED
    BY <2>2, <2>3
<1> QED
  BY <1>1, WindowStaysRecent, PTL
=============================================================================
