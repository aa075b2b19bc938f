------------------------------ MODULE Backoff ------------------------------
(***************************************************************************)
(* Exponential_Backoff_Iterator.  unsigned has UBits bits and unsigned     *)
(* long long LBits bits (32 and 64 in the build), so that the shift and    *)
(* the counter meet their limits on small instances too.                   *)
(*                                                                         *)
(* A definition whose name ends in Bug is a faulty variant of the one      *)
(* after it; it shows that a property can fail.  Nothing else uses it.     *)
(***************************************************************************)
EXTENDS Integers

CONSTANTS UBits, LBits

ASSUME BackoffAssumption ==
    /\ UBits \in Nat \ {0}
    /\ LBits \in Nat
    /\ LBits >= UBits

UINT_MAX == 2 ^ UBits - 1

(***************************************************************************)
(* An iterator without its random generator and its current value: the     *)
(* value is one of Delays, chosen when compute() runs.                     *)
(***************************************************************************)
Iterator(base, max_retries, capped, jitter) ==
    [base |-> base, max_retries |-> max_retries, capped |-> capped,
     jitter |-> jitter, current_retry |-> 0]

\* The iterators that can be constructed.
Iterators ==
    {Iterator(base, max_retries, capped, jitter) :
        base \in 0 .. UINT_MAX, max_retries \in 0 .. UINT_MAX,
        capped \in 0 .. UINT_MAX, jitter \in BOOLEAN}

\* The default constructor: the end of every range.
End == [base |-> 0, max_retries |-> 0, capped |-> 0, jitter |-> FALSE,
        current_retry |-> UINT_MAX]

\* compute() before the jitter.
Calculated_Bug(it) ==
    IF it.current_retry < LBits
    THEN (it.base * 2 ^ it.current_retry) % 2 ^ LBits
    ELSE it.capped

Calculated(it) ==
    LET shifted == IF it.current_retry < LBits
                   THEN (it.base * 2 ^ it.current_retry) % 2 ^ LBits
                   ELSE it.capped
    IN  IF shifted > it.capped THEN it.capped ELSE shifted

\* The values compute() may leave in current_value_.
Delays(it) == IF it.jitter THEN 0 .. Calculated(it) ELSE {Calculated(it)}

equal(it, other) ==
    \/ it.current_retry >= it.max_retries /\ other.current_retry > other.max_retries
    \/ it.base = other.base /\ it.current_retry = other.current_retry

increment(it) ==
    IF it.current_retry < it.max_retries
    THEN [it EXCEPT !.current_retry = @ + 1] ELSE it
=============================================================================
