---------------------------- MODULE JobLifecycle ----------------------------
(***************************************************************************)
(* What the process scheduler promises its clients about each job, lanes,  *)
(* timers, processes and callbacks aside: a job is queued once, is run at  *)
(* most Capacity at a time, may be put back to the queue while it runs,    *)
(* and ends for good with a stored result or without one.                  *)
(***************************************************************************)
EXTENDS Integers, FiniteSets

CONSTANTS
    Jobs,
    Capacity    \* how many jobs may run at once

VARIABLE phase

Phases == {"new", "queued", "running", "finished", "dropped"}

InPhase(ph) == {j \in Jobs : phase[j] = ph}

Init == phase = [j \in Jobs |-> "new"]

Move(j, from, to) ==
    /\ phase[j] = from
    /\ phase' = [phase EXCEPT ![j] = to]

Enqueue(j) == Move(j, "new", "queued")

Start(j) ==
    /\ Cardinality(InPhase("running")) < Capacity
    /\ Move(j, "queued", "running")

Requeue(j) == Move(j, "running", "queued")

Finish(j) == Move(j, "running", "finished")

Drop(j) == Move(j, "running", "dropped")

Next == \E j \in Jobs : Enqueue(j) \/ Start(j) \/ Requeue(j) \/ Finish(j) \/ Drop(j)

Spec == Init /\ [][Next]_phase
=============================================================================
