--------------------------- MODULE ProcessKiller ---------------------------
(***************************************************************************)
(* Process_Killer::elegant_kill: exponential_retry with SIGTERM, then with *)
(* SIGKILL.  One attempt is two system calls, kill(pid, sig) and, if that  *)
(* answers 0, kill(pid, 0) in alive(); the process and its parent go on    *)
(* between them and during the sleeps.                                     *)
(*                                                                         *)
(* A process that has ended is a zombie until its parent reaps it.  kill() *)
(* answers 0 for a zombie, so alive() is true of it; it fails with EPERM   *)
(* (alive all the same) for another user's process, and with ESRCH once it *)
(* is gone.  A parent that reaps it frees its pid, which another process   *)
(* may get while elegant_kill sleeps: it is then the one that is signalled *)
(* and asked about.                                                        *)
(*                                                                         *)
(* A definition whose name ends in Bug is a faulty variant of the one      *)
(* after it; it shows that a property can fail.  Nothing else uses it.     *)
(***************************************************************************)
EXTENDS Backoff

CONSTANT
    Retries     \* iterators that exponential_retry may begin with; elegant_kill
                \* has one, with base 1, 3 retries, no cap and jitter

ASSUME KillerAssumption == Retries \subseteq Iterators

VARIABLES
    proc,       \* the process with the pid: "running", "zombie" or "gone"
    target,     \* whether that is the process elegant_kill was called for
    permitted,  \* whether we may signal it
    signals,    \* signals sent to it and not lost: a subset of {"TERM", "KILL"}
    pc,         \* of elegant_kill: "start", "kill", "check", "sleep" or "done"
    sig,        \* the signal of the exponential_retry under way
    retry,      \* the iterator that an exponential_retry begins with
    it,         \* the iterator of the one under way
    delay,      \* its current_value_: how long the thread sleeps
    looping,    \* whether its loop has begun (the first attempt comes before)
    result,     \* what elegant_kill answered
    attempts    \* history: attempts per signal

vars == <<proc, target, permitted, signals, pc, sig, retry, it, delay, looping, result, attempts>>

process == <<proc, target, permitted, signals>>
loop    == <<sig, it, delay, looping>>

Init ==
    /\ proc \in {"running", "zombie", "gone"}
    /\ target = TRUE
    /\ permitted \in BOOLEAN
    /\ signals = {}
    /\ pc = "start"
    /\ sig = "TERM"
    /\ retry \in Retries
    /\ it = retry
    /\ delay = 0
    /\ looping = FALSE
    /\ result = FALSE
    /\ attempts = [s \in {"TERM", "KILL"} |-> 0]

(***************************************************************************)
(* The process ends, by itself, at a SIGTERM it does not ignore or at a    *)
(* SIGKILL; its parent reaps it.                                           *)
(***************************************************************************)
End_process ==
    /\ proc = "running"
    /\ proc' = "zombie"
    /\ UNCHANGED <<target, permitted, signals, pc, loop, retry, result, attempts>>

Reap ==
    /\ proc = "zombie"
    /\ proc' = "gone"
    /\ UNCHANGED <<target, permitted, signals, pc, loop, retry, result, attempts>>

\* The kernel hands the pid out again.
Reuse ==
    /\ proc = "gone" /\ target
    /\ proc' = "running"
    /\ target' = FALSE
    /\ permitted' \in BOOLEAN
    /\ signals' = {}
    /\ UNCHANGED <<pc, loop, retry, result, attempts>>

alive_Bug == proc = "running" /\ permitted

alive == proc # "gone"

\* kill(pid, s) answers 0.
Delivered == proc # "gone" /\ permitted

Return(r) ==
    /\ pc' = "done"
    /\ result' = r
    /\ UNCHANGED loop

\* Another round of the loop: the thread sleeps for what compute() left.
Again(next) ==
    /\ ~equal(next, End)
    /\ pc' = "sleep"
    /\ it' = next
    /\ looping' = TRUE
    /\ delay' \in Delays(next)
    /\ UNCHANGED <<sig, result>>

\* The right-hand side of ||: exponential_retry with SIGKILL.
LastResort ==
    /\ pc' = "kill"
    /\ sig' = "KILL"
    /\ it' = retry
    /\ looping' = FALSE
    /\ UNCHANGED <<delay, result>>

(***************************************************************************)
(* An attempt answered false: the next round of the loop, or, after the    *)
(* last one, the right-hand side of || with SIGKILL, or false.             *)
(***************************************************************************)
NextRound == IF looping THEN increment(it) ELSE it

Failed_EarlyBug ==
    \/ sig = "TERM" /\ LastResort
    \/ sig = "KILL" /\ Return(FALSE)

Failed_TermBug ==
    \/ Again(NextRound)
    \/ equal(NextRound, End) /\ Return(FALSE)

Failed ==
    \/ Again(NextRound)
    \/ equal(NextRound, End) /\ sig = "TERM" /\ LastResort
    \/ equal(NextRound, End) /\ sig = "KILL" /\ Return(FALSE)

elegant_kill ==
    /\ pc = "start"
    /\ \/ ~alive /\ Return(FALSE)
       \/ alive /\ pc' = "kill" /\ UNCHANGED <<loop, result>>
    /\ UNCHANGED <<process, retry, attempts>>

kill ==
    /\ pc = "kill"
    /\ attempts' = [attempts EXCEPT ![sig] = @ + 1]
    /\ \/ /\ Delivered
          /\ signals' = signals \cup {sig}
          /\ pc' = "check"
          /\ UNCHANGED <<loop, result>>
       \/ ~Delivered /\ Failed /\ UNCHANGED signals
    /\ UNCHANGED <<proc, target, permitted, retry>>

check ==
    /\ pc = "check"
    /\ \/ ~alive /\ Return(TRUE)
       \/ alive /\ Failed
    /\ UNCHANGED <<process, retry, attempts>>

\* sleep_for(seconds(i)), i the value of the iterator, is over.
sleep ==
    /\ pc = "sleep"
    /\ pc' = "kill"
    /\ UNCHANGED <<process, loop, retry, result, attempts>>

Next == End_process \/ Reap \/ Reuse \/ elegant_kill \/ kill \/ check \/ sleep

(***************************************************************************)
(* The calling thread goes on, and SIGKILL works.  The process may ignore  *)
(* SIGTERM for ever and its parent may never reap it.                      *)
(***************************************************************************)
Fairness ==
    /\ WF_vars(elegant_kill \/ kill \/ check \/ sleep)
    /\ WF_vars("KILL" \in signals /\ End_process)

Spec == Init /\ [][Next]_vars /\ Fairness

-----------------------------------------------------------------------------
(***************************************************************************)
(* elegant_kill answers true only of a process that is gone, also if its   *)
(* pid came back meanwhile.  (It may answer false of one too: an attempt   *)
(* after the process was reaped fails at the first of its two calls.)      *)
(***************************************************************************)
TrueMeansGone == (pc = "done" /\ result) => (proc = "gone" \/ ~target)

(***************************************************************************)
(* SIGKILL is a last resort: it is tried only after all max_retries + 1    *)
(* attempts with SIGTERM, and never reaches the process it is meant for    *)
(* before a SIGTERM does; only another process that got the pid late has   *)
(* no warning.  elegant_kill gives up only after as many attempts with     *)
(* each signal, never more: also for no retry at all, for UINT_MAX retries *)
(* and for a base of 0, which the end iterator has.                        *)
(***************************************************************************)
KillIsLastResort ==
    /\ attempts["KILL"] > 0 => attempts["TERM"] = retry.max_retries + 1
    /\ target /\ "KILL" \in signals => "TERM" \in signals
    /\ \A s \in {"TERM", "KILL"} : attempts[s] <= retry.max_retries + 1
    /\ (pc = "done" /\ ~result /\ attempts["TERM"] > 0) =>
          \A s \in {"TERM", "KILL"} : attempts[s] = retry.max_retries + 1

(***************************************************************************)
(* Before its round r the loop sleeps for base * 2^r seconds, at most the  *)
(* cap, and with jitter anything up to that, as long as the product fits   *)
(* in an unsigned long long; from LBits rounds on it is the cap.  In       *)
(* between, where bits are shifted out, compute() promises nothing but the *)
(* cap.                                                                    *)
(***************************************************************************)
DelayIsCappedExponential ==
    pc = "sleep" =>
        LET r     == attempts[sig] - 1
            exact == retry.base * 2 ^ r
            want  == IF r >= LBits \/ exact > retry.capped THEN retry.capped ELSE exact
        IN  /\ delay <= retry.capped
            /\ (r >= LBits \/ exact < 2 ^ LBits) =>
                  IF retry.jitter THEN delay <= want ELSE delay = want

(***************************************************************************)
(* elegant_kill returns, and a process it may signal has ended by then or  *)
(* ends later, whatever it does with SIGTERM.                              *)
(***************************************************************************)
KillsInTheEnd ==
    /\ <>(pc = "done")
    /\ permitted /\ target ~> (proc # "running" \/ ~target)
=============================================================================
