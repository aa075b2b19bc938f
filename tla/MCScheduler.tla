---------------------------- MODULE MCScheduler ----------------------------
(***************************************************************************)
(* Scheduler for TLC.  Job ids and process ids are interchangeable: ids    *)
(* are first submitted in order, and the kernel hands out the least free   *)
(* process id.                                                             *)
(***************************************************************************)
EXTENDS Scheduler

\* Boost.Process answers -1 for a child it can no longer wait for.
MCLostStatuses == {-1}

CanonicalNames ==
    /\ \A id \in Ids :
          submitted[id] = 0 /\ submitted'[id] > 0 =>
              \A other \in Ids : other < id => submitted[other] > 0
    /\ \A p \in Pids :
          child[p] = "unused" /\ child'[p] = "live" =>
              \A q \in Pids : q < p => child[q] # "unused"

(***************************************************************************)
(* For liveness: the slow lanes are taken by the first jobs, the others    *)
(* were pushed into either lane and have to share the fast lane until a    *)
(* slow job ends, if one ever does.                                        *)
(***************************************************************************)
InSlowLane == {id \in Ids : id <= SlowLane}

MCContended ==
    /\ stop = FALSE
    /\ loops = 1
    /\ \E lane \in [1..Cardinality(Ids) - SlowLane -> Lanes] :
          pq = [i \in DOMAIN lane |-> [id |-> SlowLane + i, lane |-> lane[i]]]
    /\ running = [id \in Ids |->
                     IF id \in InSlowLane
                     THEN [lane |-> SLOW, pid |-> id, timer |-> "none"]
                     ELSE NoRun]
    /\ running_fast = 0
    /\ running_slow = SlowLane
    /\ sink = {}
    /\ P90!Init
    /\ child = [p \in Pids |-> IF p \in InSlowLane THEN "live" ELSE "unused"]
    /\ owner = [p \in Pids |-> IF p \in InSlowLane THEN p ELSE None]
    /\ due = [id \in Ids |-> 0]
    /\ submitted = [id \in Ids |-> MaxSubmits]

\* Once stop_ is set the liveness properties are satisfied, and no invariant
\* can tell the scheduler from one whose next pass does not come.
NotStopped == ~stop

MCLiveSpec == MCContended /\ [][Next]_vars /\ EventLoopFairness
=============================================================================
