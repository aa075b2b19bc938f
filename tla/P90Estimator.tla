---------------------------- MODULE P90Estimator ----------------------------
(***************************************************************************)
(* aps::P90_Estimator, the sliding window over the run times of finished   *)
(* jobs, and Scheduler::compute_timeout, which turns its 90th percentile   *)
(* into the deadline of a run in the fast lane.                            *)
(*                                                                         *)
(* Every operation of the class holds its mutex for its whole body, so     *)
(* each is one atomic step.  Durations are whole seconds.                  *)
(*                                                                         *)
(* A definition whose name ends in _Bug is a faulty variant of the one     *)
(* after it; it shows that a property can fail.  Nothing else uses it.     *)
(***************************************************************************)
EXTENDS Integers, Sequences, FiniteSets

CONSTANTS
    Capacity,        \* capacity_, 1000 unless the caller says otherwise
    Durations,       \* the run times, in seconds, that may be reported
    MinSamples,      \* Scheduler::p90_min_samples_
    DefaultTimeout   \* Scheduler::default_timeout_

(***************************************************************************)
(* A window of capacity 0 would make add() pop an empty deque.  A steady   *)
(* clock never runs backwards, so a run time is never negative.            *)
(***************************************************************************)
ASSUME P90Assumption ==
    /\ Capacity \in Nat \ {0}
    /\ Durations \subseteq Nat
    /\ MinSamples \in Nat \ {0}
    /\ DefaultTimeout \in Nat \ {0}

VARIABLE samples     \* samples_, oldest first

-----------------------------------------------------------------------------
(***************************************************************************)
(* add: run times under a second are not recorded; a full window drops its *)
(* oldest sample.                                                          *)
(***************************************************************************)
AddTo_Bug(s, d) ==
    Append(IF Len(s) >= Capacity THEN Tail(s) ELSE s, d)

AddTo(s, d) ==
    IF d <= 0
    THEN s
    ELSE Append(IF Len(s) >= Capacity THEN Tail(s) ELSE s, d)

add(d) == samples' = AddTo(samples, d)

\* The zero-based rank compute() selects among n samples.
P90Index_Bug(n) ==
    LET idx == (n * 9) \div 10 - 1
    IN  IF idx < 0 THEN 0 ELSE idx

P90Index(n) ==
    LET idx == (n * 9 + 9) \div 10 - 1
    IN  IF idx < n - 1 THEN idx ELSE n - 1

\* The element std::nth_element leaves at the zero-based position k.
NthElement(s, k) ==
    CHOOSE v \in {s[i] : i \in DOMAIN s} :
        /\ Cardinality({i \in DOMAIN s : s[i] < v}) <= k
        /\ Cardinality({i \in DOMAIN s : s[i] <= v}) > k

compute(s) ==
    IF Len(s) = 0 THEN 0 ELSE NthElement(s, P90Index(Len(s)))

\* std::ceil(p90 * 1.5), exact for every run time a double can hold.
ScaledUp_Bug(p90) == (p90 * 3) \div 2

ScaledUp(p90) == (p90 * 3 + 1) \div 2

compute_timeout(s) ==
    IF Len(s) < MinSamples \/ compute(s) = 0
    THEN DefaultTimeout
    ELSE ScaledUp(compute(s))

-----------------------------------------------------------------------------
Init == samples = << >>

Next == \E d \in Durations : add(d)

Spec == Init /\ [][Next]_samples

-----------------------------------------------------------------------------
(***************************************************************************)
(* The window never outgrows its capacity and holds positive run times     *)
(* only.                                                                   *)
(***************************************************************************)
TypeOK ==
    /\ samples \in Seq(Nat \ {0})
    /\ Len(samples) <= Capacity

(***************************************************************************)
(* The nearest-rank definition of a percentile, independent of how         *)
(* compute() finds it: the smallest sample that at least nine tenths of    *)
(* the samples do not exceed.                                              *)
(***************************************************************************)
AtMost(s, v) == Cardinality({i \in DOMAIN s : s[i] <= v})

IsNearestRankP90(s, v) ==
    /\ v \in {s[i] : i \in DOMAIN s}
    /\ 10 * AtMost(s, v) >= 9 * Len(s)
    /\ \A w \in {s[i] : i \in DOMAIN s} :
           w < v => 10 * AtMost(s, w) < 9 * Len(s)

(***************************************************************************)
(* A deadline is never shorter than the run time of nine tenths of the     *)
(* window: once the estimator is in use, at most a tenth of the jobs it    *)
(* has seen would be killed by the deadline it sets.  In particular a      *)
(* deadline is never 0, which would kill every run in the fast lane.       *)
(***************************************************************************)
DeadlineSparesTypicalJobs ==
    \/ /\ Len(samples) < MinSamples
       /\ compute_timeout(samples) = DefaultTimeout
    \/ /\ compute_timeout(samples) > 1
       /\ 10 * AtMost(samples, compute_timeout(samples) - 1) >= 9 * Len(samples)
=============================================================================
