------------------------ MODULE ProcessKillerProofs ------------------------
(***************************************************************************)
(* Proofs about Process_Killer::elegant_kill, for any width of unsigned    *)
(* and of unsigned long long and any iterator that can be constructed.     *)
(***************************************************************************)
EXTENDS ProcessKiller, FiniteSetTheorems, TLAPS

Signals == {"TERM", "KILL"}

(***************************************************************************)
(* The inductive invariant.  The iterator counts the attempts: before each *)
(* attempt with the present signal as many have been made as the iterator  *)
(* says (Made, Counts), and while there is another round to come it has    *)
(* not reached its end (Rounds).                                           *)
(***************************************************************************)
KillerTypes ==
    /\ pc \in {"start", "kill", "check", "sleep", "done"}
    /\ sig \in Signals
    /\ looping \in BOOLEAN
    /\ result \in BOOLEAN
    /\ retry \in Iterators
    /\ attempts \in [Signals -> Nat]
    /\ it \in [base : Nat, max_retries : Nat, capped : Nat, jitter : BOOLEAN,
               current_retry : Nat]

Rounds ==
    /\ it = [retry EXCEPT !.current_retry = it.current_retry]
    /\ looping => it.current_retry < it.max_retries
    /\ ~looping => it.current_retry = 0

\* The attempts with the present signal before the one that is under way or due.
Made == IF looping THEN it.current_retry + 1 ELSE 0

Counts ==
    /\ pc \in {"start", "kill", "sleep"} => attempts[sig] = Made
    /\ pc = "check" => attempts[sig] = Made + 1
    /\ pc = "start" => attempts["TERM"] = 0
    /\ pc = "sleep" => looping
    /\ sig = "TERM" => attempts["KILL"] = 0
    /\ sig = "KILL" => attempts["TERM"] = retry.max_retries + 1

\* What the attempts amount to once elegant_kill has answered.
Answered ==
    pc = "done" =>
        /\ attempts[sig] <= retry.max_retries + 1
        /\ ~result /\ attempts["TERM"] > 0 =>
              sig = "KILL" /\ attempts["KILL"] = retry.max_retries + 1

(***************************************************************************)
(* The process.  While the pid is still the target's, what may be          *)
(* signalled now could be signalled at every attempt before.               *)
(***************************************************************************)
Warned ==
    /\ target /\ proc # "gone" /\ permitted /\ attempts["TERM"] > 0 => "TERM" \in signals
    /\ target /\ "KILL" \in signals => "TERM" \in signals
    /\ result => pc = "done" /\ (proc = "gone" \/ ~target)

Slept == pc = "sleep" => delay \in Delays(it)

KillerInv == KillerTypes /\ Rounds /\ Counts /\ Answered /\ Warned /\ Slept

-----------------------------------------------------------------------------
(***************************************************************************)
(* Numbers.  A power of two counts the subsets of an interval, which is    *)
(* all the provers need to know of it.                                     *)
(***************************************************************************)
LEMMA PowersOfTwo ==
    ASSUME NEW n \in Nat
    PROVE  2 ^ n \in Nat \ {0} /\ (n # 0 => 2 ^ n >= 2)
<1> DEFINE I == 1 .. n
<1>1. IsFiniteSet(I) /\ Cardinality(I) = n
  BY FS_Interval
<1>2. IsFiniteSet(SUBSET I) /\ Cardinality(SUBSET I) = 2 ^ n
  BY <1>1, FS_SUBSET
<1>3. 2 ^ n \in Nat
  BY <1>2, FS_CardinalityType
<1>4. 2 ^ n # 0
  <2>1. {} \in SUBSET I
    OBVIOUS
  <2> HIDE DEF I
  <2> QED
    BY <1>2, <2>1, FS_EmptySet
<1>5. ASSUME n # 0 PROVE 2 ^ n >= 2
  <2>1. {} \in SUBSET I /\ {1} \in SUBSET I /\ {} # {1}
    BY <1>5
  <2> HIDE DEF I
  <2>2. ASSUME NEW x, SUBSET I = {x} PROVE FALSE
    <3>1. {} \in {x} /\ {1} \in {x}
      BY <2>1, <2>2, Zenon
    <3> QED
      BY <2>1, <3>1
  <2>3. 2 ^ n # 1
    BY <1>2, <2>2, FS_Singleton
  <2> QED
    BY <1>3, <1>4, <2>3
<1> QED
  BY <1>3, <1>4, <1>5

LEMMA MaxType == UINT_MAX \in Nat \ {0}
  BY BackoffAssumption, PowersOfTwo DEF UINT_MAX

LEMMA RetryType ==
    ASSUME NEW i \in Iterators
    PROVE  /\ i \in [base : Nat, max_retries : Nat, capped : Nat, jitter : BOOLEAN,
                     current_retry : Nat]
           /\ i.max_retries <= UINT_MAX
           /\ i.current_retry = 0
<1>1. PICK base \in 0 .. UINT_MAX, max \in 0 .. UINT_MAX, capped \in 0 .. UINT_MAX,
           jitter \in BOOLEAN : i = Iterator(base, max, capped, jitter)
  BY DEF Iterators
<1> QED
  BY <1>1, MaxType DEF Iterator

\* The end iterator equals an iterator that has no retries left, and no other.
LEMMA EndReached ==
    ASSUME NEW i \in [base : Nat, max_retries : Nat, capped : Nat, jitter : BOOLEAN,
                      current_retry : Nat],
           i.max_retries <= UINT_MAX
    PROVE  equal(i, End) <=> i.current_retry >= i.max_retries
  BY MaxType DEF equal, End

LEMMA NextRoundIs ==
    ASSUME KillerTypes, Rounds
    PROVE  /\ NextRound = [retry EXCEPT !.current_retry = Made]
           /\ Made \in 0 .. retry.max_retries
           /\ equal(NextRound, End) <=> Made = retry.max_retries
<1>1. /\ retry \in [base : Nat, max_retries : Nat, capped : Nat, jitter : BOOLEAN,
                    current_retry : Nat]
      /\ retry.max_retries <= UINT_MAX /\ retry.current_retry = 0
  BY RetryType DEF KillerTypes
<1>2. it.max_retries = retry.max_retries /\ it.current_retry \in Nat
  BY <1>1 DEF Rounds, KillerTypes
<1>3. Made \in 0 .. retry.max_retries
  BY <1>1, <1>2 DEF Rounds, Made, KillerTypes
<1>4. NextRound = [retry EXCEPT !.current_retry = Made]
  <2>1. CASE looping
    <3>1. NextRound = [it EXCEPT !.current_retry = it.current_retry + 1]
      BY <2>1 DEF NextRound, increment, Rounds
    <3> QED
      BY <1>1, <2>1, <3>1 DEF Rounds, Made
  <2>2. CASE ~looping
    BY <1>1, <2>2 DEF NextRound, Rounds, Made
  <2> QED
    BY <2>1, <2>2
<1>5. /\ NextRound \in [base : Nat, max_retries : Nat, capped : Nat, jitter : BOOLEAN,
                        current_retry : Nat]
      /\ NextRound.max_retries = retry.max_retries /\ NextRound.current_retry = Made
  BY <1>1, <1>3, <1>4
<1>6. equal(NextRound, End) <=> NextRound.current_retry >= NextRound.max_retries
  BY <1>1, <1>5, EndReached
<1> QED
  BY <1>1, <1>3, <1>4, <1>5, <1>6

-----------------------------------------------------------------------------
\* What an attempt that failed leads to, the attempt counted already.
LEMMA FailedStep ==
    ASSUME KillerTypes, Rounds, Failed, ~result, retry' = retry,
           attempts' \in [Signals -> Nat], attempts'[sig] = Made + 1,
           sig = "TERM" => attempts'["KILL"] = 0,
           sig = "KILL" => attempts'["TERM"] = retry.max_retries + 1
    PROVE  /\ KillerTypes' /\ Rounds' /\ Counts' /\ Answered' /\ Slept'
           /\ ~result'
<1>1. /\ NextRound = [retry EXCEPT !.current_retry = Made]
      /\ Made \in 0 .. retry.max_retries
      /\ equal(NextRound, End) <=> Made = retry.max_retries
  BY NextRoundIs
<1>2. /\ retry \in [base : Nat, max_retries : Nat, capped : Nat, jitter : BOOLEAN,
                    current_retry : Nat]
      /\ retry.current_retry = 0
  BY RetryType DEF KillerTypes
<1>3. CASE Again(NextRound)
  <2>1. /\ pc' = "sleep" /\ it' = NextRound /\ looping' = TRUE /\ sig' = sig /\ result' = result
        /\ delay' \in Delays(NextRound) /\ Made < retry.max_retries
    BY <1>1, <1>2, <1>3 DEF Again
  <2>2. /\ it' \in [base : Nat, max_retries : Nat, capped : Nat, jitter : BOOLEAN,
                    current_retry : Nat]
        /\ it'.current_retry = Made /\ it'.max_retries = retry.max_retries
    BY <1>1, <1>2, <2>1
  <2>3. KillerTypes'
    BY <2>1, <2>2 DEF KillerTypes
  <2>4. Rounds'
    BY <1>1, <1>2, <2>1, <2>2 DEF Rounds
  <2>5. Made' = Made + 1
    BY <2>1, <2>2 DEF Made
  <2>6. Counts' /\ Answered' /\ Slept'
    BY <2>1, <2>5 DEF Counts, Answered, Slept
  <2> QED
    BY <2>1, <2>3, <2>4, <2>6
<1>4. CASE Made = retry.max_retries /\ sig = "TERM" /\ LastResort
  <2>1. pc' = "kill" /\ sig' = "KILL" /\ it' = retry /\ looping' = FALSE /\ result' = result
    BY <1>4 DEF LastResort
  <2>2. KillerTypes'
    BY <1>2, <2>1 DEF KillerTypes, Signals
  <2>3. Rounds'
    BY <1>2, <2>1 DEF Rounds
  <2>4. Made' = 0
    BY <2>1 DEF Made
  <2>5. Counts' /\ Answered' /\ Slept'
    BY <1>4, <2>1, <2>4 DEF Counts, Answered, Slept
  <2> QED
    BY <2>1, <2>2, <2>3, <2>5
<1>5. CASE Made = retry.max_retries /\ sig = "KILL" /\ Return(FALSE)
  <2>1. pc' = "done" /\ result' = FALSE /\ sig' = sig /\ it' = it /\ looping' = looping
    BY <1>5 DEF Return, loop
  <2>2. KillerTypes' /\ Rounds'
    BY <2>1 DEF KillerTypes, Rounds
  <2>3. Counts' /\ Slept'
    BY <1>5, <2>1 DEF Counts, Slept
  <2>4. Answered'
    BY <1>2, <1>5, <2>1 DEF Answered
  <2> QED
    BY <2>1, <2>2, <2>3, <2>4
<1> QED
  BY <1>1, <1>3, <1>4, <1>5 DEF Failed

\* A step of the process, or none: elegant_kill stays where it is.
LEMMA KillerFrame ==
    ASSUME KillerInv, UNCHANGED <<pc, sig, it, delay, looping, retry, result, attempts>>
    PROVE  KillerTypes' /\ Rounds' /\ Counts' /\ Answered' /\ Slept'
  BY DEF KillerInv, KillerTypes, Rounds, Counts, Made, Answered, Slept

LEMMA KillerStep ==
    ASSUME KillerInv, [Next]_vars
    PROVE  KillerInv'
<1>0. /\ KillerTypes /\ Rounds /\ Counts /\ Answered /\ Warned /\ Slept
  BY DEF KillerInv
<1>1. CASE UNCHANGED vars
  <2>1. Warned'
    BY <1>0, <1>1 DEF vars, Warned
  <2> QED
    BY <1>1, <2>1, KillerFrame DEF vars, KillerInv
<1>2. CASE End_process \/ Reap \/ Reuse
  <2>1. Warned'
    BY <1>0, <1>2 DEF End_process, Reap, Reuse, Warned
  <2> QED
    BY <1>2, <2>1, KillerFrame DEF End_process, Reap, Reuse, loop, KillerInv
<1>3. CASE elegant_kill
  <2>1. UNCHANGED <<proc, target, permitted, signals, sig, it, delay, looping, retry, attempts>>
    BY <1>3 DEF elegant_kill, process, loop, Return
  <2>2. ~result' /\ pc = "start" /\ pc' \in {"kill", "done"} /\ attempts["TERM"] = 0
    BY <1>0, <1>3 DEF elegant_kill, Return, Warned, Counts, KillerTypes
  <2>3. KillerTypes' /\ Rounds' /\ Slept'
    <3>1. result' \in BOOLEAN
      BY <1>0, <1>3 DEF elegant_kill, Return, KillerTypes
    <3> QED
      BY <1>0, <2>1, <2>2, <3>1 DEF KillerTypes, Rounds, Slept
  <2>4. Counts' /\ Warned'
    BY <1>0, <2>1, <2>2 DEF Counts, Made, Warned
  <2>5. Answered'
    <3>1. attempts[sig] = Made /\ Made \in 0 .. retry.max_retries
      BY <1>0, <2>2, NextRoundIs DEF Counts
    <3> QED
      BY <1>0, <2>1, <2>2, <3>1, RetryType DEF Answered, KillerTypes
  <2> QED
    BY <2>3, <2>4, <2>5 DEF KillerInv
<1>4. CASE kill
  <2>1. /\ pc = "kill" /\ attempts' = [attempts EXCEPT ![sig] = @ + 1]
        /\ UNCHANGED <<proc, target, permitted, retry>> /\ ~result
    BY <1>0, <1>4 DEF kill, Warned
  <2>2. /\ attempts' \in [Signals -> Nat] /\ attempts'[sig] = Made + 1
        /\ sig = "TERM" => attempts'["KILL"] = 0
        /\ sig = "KILL" => attempts'["TERM"] = retry.max_retries + 1
    BY <1>0, <2>1 DEF KillerTypes, Counts, Signals
  <2>3. CASE Delivered /\ signals' = signals \cup {sig} /\ pc' = "check" /\ UNCHANGED <<loop, result>>
    <3>1. KillerTypes' /\ Rounds' /\ Slept' /\ Answered'
      BY <1>0, <2>1, <2>2, <2>3 DEF KillerTypes, Rounds, Slept, Answered, loop
    <3>2. Counts'
      BY <1>0, <2>1, <2>2, <2>3 DEF Counts, Made, loop
    <3>3. sig = "KILL" => attempts["TERM"] > 0 /\ attempts["TERM"] \in Nat
      BY <1>0, RetryType DEF Counts, KillerTypes
    <3>4. Warned'
      BY <1>0, <2>1, <2>2, <2>3, <3>3 DEF Warned, Delivered, loop, KillerTypes, Signals
    <3> QED
      BY <3>1, <3>2, <3>4 DEF KillerInv
  <2>4. CASE ~Delivered /\ Failed /\ UNCHANGED signals
    <3>1. KillerTypes' /\ Rounds' /\ Counts' /\ Answered' /\ Slept' /\ ~result'
      BY <1>0, <2>1, <2>2, <2>4, FailedStep
    <3>2. Warned'
      BY <1>0, <2>1, <2>4, <3>1 DEF Warned, Delivered
    <3> QED
      BY <3>1, <3>2 DEF KillerInv
  <2> QED
    BY <1>4, <2>3, <2>4 DEF kill
<1>5. CASE check
  <2>1. /\ pc = "check" /\ UNCHANGED <<proc, target, permitted, signals, retry, attempts>>
        /\ ~result
    BY <1>0, <1>5 DEF check, process, Warned
  <2>2. /\ attempts' \in [Signals -> Nat] /\ attempts'[sig] = Made + 1
        /\ sig = "TERM" => attempts'["KILL"] = 0
        /\ sig = "KILL" => attempts'["TERM"] = retry.max_retries + 1
    BY <1>0, <2>1 DEF KillerTypes, Counts
  <2>3. CASE ~alive /\ Return(TRUE)
    <3>1. pc' = "done" /\ result' = TRUE /\ UNCHANGED <<sig, it, delay, looping>>
      BY <2>3 DEF Return, loop
    <3>2. KillerTypes' /\ Rounds' /\ Counts' /\ Slept'
      BY <1>0, <2>1, <2>2, <3>1 DEF KillerTypes, Rounds, Counts, Slept
    <3>3. Made \in 0 .. retry.max_retries /\ retry.max_retries \in Nat
      BY <1>0, NextRoundIs, RetryType DEF KillerTypes
    <3>4. Answered'
      BY <2>1, <2>2, <3>1, <3>3 DEF Answered
    <3>5. Warned'
      BY <1>0, <2>1, <2>3, <3>1 DEF Warned, alive
    <3> QED
      BY <3>2, <3>4, <3>5 DEF KillerInv
  <2>4. CASE alive /\ Failed
    <3>1. KillerTypes' /\ Rounds' /\ Counts' /\ Answered' /\ Slept' /\ ~result'
      BY <1>0, <2>1, <2>2, <2>4, FailedStep
    <3>2. Warned'
      BY <1>0, <2>1, <3>1 DEF Warned
    <3> QED
      BY <3>1, <3>2 DEF KillerInv
  <2> QED
    BY <1>5, <2>3, <2>4 DEF check
<1>6. CASE sleep
  <2>1. /\ pc = "sleep" /\ pc' = "kill"
        /\ UNCHANGED <<proc, target, permitted, signals, sig, it, delay, looping, retry, result,
                       attempts>>
    BY <1>6 DEF sleep, process, loop
  <2>2. KillerTypes' /\ Rounds' /\ Slept' /\ Answered'
    BY <1>0, <2>1 DEF KillerTypes, Rounds, Slept, Answered
  <2>3. Counts' /\ Warned'
    BY <1>0, <2>1 DEF Counts, Made, Warned
  <2> QED
    BY <2>2, <2>3 DEF KillerInv
<1> QED
  BY <1>1, <1>2, <1>3, <1>4, <1>5, <1>6 DEF Next

LEMMA KillerInit == ASSUME Init PROVE KillerInv
<1>1. retry \in Iterators /\ it = retry
  BY KillerAssumption DEF Init
<1>2. /\ retry \in [base : Nat, max_retries : Nat, capped : Nat, jitter : BOOLEAN,
                    current_retry : Nat]
      /\ retry.current_retry = 0
  BY <1>1, RetryType
<1>3. KillerTypes
  BY <1>1, <1>2 DEF Init, KillerTypes, Signals
<1>4. Rounds
  BY <1>1, <1>2 DEF Init, Rounds
<1>5. Counts /\ Answered /\ Warned /\ Slept
  BY DEF Init, Counts, Made, Answered, Warned, Slept
<1> QED
  BY <1>3, <1>4, <1>5 DEF KillerInv

LEMMA KillerInvariant == Spec => []KillerInv
<1>1. Init => KillerInv
  BY KillerInit
<1>2. KillerInv /\ [Next]_vars => KillerInv'
  BY KillerStep
<1> QED
  BY <1>1, <1>2, PTL DEF Spec

-----------------------------------------------------------------------------
(***************************************************************************)
(* elegant_kill never answers true while the process it was called for is  *)
(* there: Spec => []TrueMeansGone.                                         *)
(***************************************************************************)
THEOREM TrueIsReliable == Spec => []TrueMeansGone
<1>1. KillerInv => TrueMeansGone
  BY DEF KillerInv, Warned, TrueMeansGone
<1> QED
  BY <1>1, KillerInvariant, PTL

(***************************************************************************)
(* For every number of retries from 0 to UINT_MAX elegant_kill makes       *)
(* max_retries + 1 attempts with each signal, those with SIGTERM first,    *)
(* and never kills a process it has not asked: Spec => []KillIsLastResort. *)
(***************************************************************************)
THEOREM TermComesFirst == Spec => []KillIsLastResort
<1>1. ASSUME KillerInv PROVE KillIsLastResort
  <2>1. /\ KillerTypes /\ Rounds /\ Counts /\ Answered /\ Warned
    BY <1>1 DEF KillerInv
  <2>2. retry.max_retries \in Nat /\ Made \in 0 .. retry.max_retries
    BY <2>1, RetryType, NextRoundIs DEF KillerTypes
  <2>3. attempts["TERM"] \in Nat /\ attempts["KILL"] \in Nat /\ sig \in {"TERM", "KILL"}
    BY <2>1 DEF KillerTypes, Signals
  <2>4. attempts[sig] <= retry.max_retries + 1
    BY <2>1, <2>2, <2>3 DEF KillerTypes, Counts, Answered
  <2>5. \A s \in {"TERM", "KILL"} : attempts[s] <= retry.max_retries + 1
    BY <2>1, <2>2, <2>3, <2>4 DEF Counts
  <2>6. attempts["KILL"] > 0 => attempts["TERM"] = retry.max_retries + 1
    BY <2>1, <2>3 DEF Counts
  <2>7. (pc = "done" /\ ~result /\ attempts["TERM"] > 0) =>
           \A s \in {"TERM", "KILL"} : attempts[s] = retry.max_retries + 1
    BY <2>1 DEF Counts, Answered
  <2> QED
    BY <2>1, <2>5, <2>6, <2>7 DEF KillIsLastResort, Warned
<1>2. KillerInv => KillIsLastResort
  BY <1>1
<1> QED
  BY <1>2, KillerInvariant, PTL

(***************************************************************************)
(* For every width of the two integer types and every base, cap and number *)
(* of retries the sleeps double up to the cap: Spec =>                     *)
(* []DelayIsCappedExponential.                                             *)
(***************************************************************************)
THEOREM DelaysDoubleUpToTheCap == Spec => []DelayIsCappedExponential
<1>1. ASSUME KillerInv, pc = "sleep"
      PROVE  LET r     == attempts[sig] - 1
                 exact == retry.base * 2 ^ r
                 want  == IF r >= LBits \/ exact > retry.capped THEN retry.capped ELSE exact
             IN  /\ delay <= retry.capped
                 /\ (r >= LBits \/ exact < 2 ^ LBits) =>
                       IF retry.jitter THEN delay <= want ELSE delay = want
  <2> DEFINE r     == attempts[sig] - 1
             exact == retry.base * 2 ^ r
             want  == IF r >= LBits \/ exact > retry.capped THEN retry.capped ELSE exact
             limit == 2 ^ LBits
  <2>1. /\ KillerTypes /\ Rounds /\ Counts /\ delay \in Delays(it) /\ looping
    BY <1>1 DEF KillerInv, Slept, Counts
  <2>2. /\ retry \in [base : Nat, max_retries : Nat, capped : Nat, jitter : BOOLEAN,
                      current_retry : Nat]
    BY <2>1, RetryType DEF KillerTypes
  <2>3. /\ it.base = retry.base /\ it.capped = retry.capped /\ it.jitter = retry.jitter
        /\ it.current_retry = r /\ r \in Nat
    BY <1>1, <2>1, <2>2 DEF Rounds, Counts, Made, KillerTypes
  <2>4. LBits \in Nat /\ limit \in Nat \ {0}
    BY BackoffAssumption, PowersOfTwo
  <2>5. exact \in Nat
    <3>1. 2 ^ r \in Nat
      BY <2>3, PowersOfTwo
    <3> HIDE DEF r
    <3> QED
      BY <2>2, <3>1
  <2> DEFINE shifted == IF r < LBits THEN exact % limit ELSE retry.capped
  <2>6. Calculated(it) = IF shifted > retry.capped THEN retry.capped ELSE shifted
    BY <2>3 DEF Calculated
  <2>7. retry.capped \in Nat
    BY <2>2
  <2> HIDE DEF r, exact, limit
  <2>8. exact % limit \in Nat /\ (exact < limit => exact % limit = exact)
    BY <2>4, <2>5
  <2>9. /\ Calculated(it) \in Nat /\ Calculated(it) <= retry.capped
        /\ r >= LBits \/ exact < limit => Calculated(it) = want
    BY <2>3, <2>4, <2>5, <2>6, <2>7, <2>8
  <2>10. IF retry.jitter THEN delay \in 0 .. Calculated(it) ELSE delay = Calculated(it)
    BY <2>1, <2>3 DEF Delays
  <2>11. /\ delay <= retry.capped
         /\ (r >= LBits \/ exact < limit) =>
               IF retry.jitter THEN delay <= want ELSE delay = want
    BY <2>7, <2>9, <2>10
  <2> QED
    BY <2>11 DEF r, exact, limit
<1>2. KillerInv => DelayIsCappedExponential
  BY <1>1 DEF DelayIsCappedExponential
<1> QED
  BY <1>2, KillerInvariant, PTL
=============================================================================
