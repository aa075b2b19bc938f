-------------------------- MODULE ManagedScheduler --------------------------
(***************************************************************************)
(* aps::Scheduler on top of Process_Manager's table: what becomes of a run *)
(* when the kernel hands out a process id again.                           *)
(*                                                                         *)
(* Only terminate removes an entry of handlers_ in a program that never    *)
(* calls wait: the entry of a child that ended by itself stays (stale).    *)
(* When its pid comes back, spawn cannot insert the new handler, and a     *)
(* terminate finds the old one, which signals nobody.  The steps below     *)
(* are those of Scheduler that reach the table; the others leave it alone. *)
(*                                                                         *)
(* A definition whose name ends in Bug is a faulty variant of the one      *)
(* after it; it shows that a property can fail.  Nothing else uses it.     *)
(***************************************************************************)
EXTENDS Scheduler

VARIABLES
    handlers,       \* per pid, its entry in handlers_: "none", "own" or "stale"
    shadowed        \* history: the pids handed out again over a stale entry

managed == <<vars, handlers, shadowed>>

ManagedInit ==
    /\ Init
    /\ handlers = [p \in Pids |-> "none"]
    /\ shadowed = {}

(***************************************************************************)
(* Process_Manager::spawn.  Over a stale entry emplace either destroys the *)
(* new handler, which kills the new child, or leaves it to nobody.         *)
(***************************************************************************)
Start(id, pid, state) ==
    /\ child[pid] = "unused"
    /\ child' = [child EXCEPT ![pid] = state]
    /\ owner' = [owner EXCEPT ![pid] = id]

managed_spawn(id, pid) ==
    \/ /\ pid = NoPid
       /\ SpawnMayFail
       /\ UNCHANGED <<procs, handlers, shadowed>>
    \/ /\ pid \in Pids
       /\ handlers[pid] = "none"
       /\ Start(id, pid, "live")
       /\ handlers' = [handlers EXCEPT ![pid] = "own"]
       /\ shadowed' = shadowed \ {pid}
    \/ /\ pid \in Pids
       /\ handlers[pid] = "stale"
       /\ \E state \in {"live", "reaped"} : Start(id, pid, state)
       /\ shadowed' = shadowed \cup {pid}
       /\ UNCHANGED handlers

managed_run_loop ==
    /\ loops > 0
    /\ ~stop
    /\ pq # << >>
    /\ schedulable(Head(pq).lane)
    /\ pq' = Tail(pq)
    /\ LET pj   == Head(pq)
           lane == ActualLane(pj.lane)
       IN  /\ Acquire(lane)
           /\ \E pid \in Pids \cup {NoPid} :
                 /\ managed_spawn(pj.id, pid)
                 /\ running' = [running EXCEPT ![pj.id] =
                        IF @ # NoRun THEN @
                        ELSE [lane |-> lane, pid |-> pid, timer |-> Deadline(lane)]]
    /\ UNCHANGED <<stop, loops, sink, samples, due, submitted>>

\* The exit callback of p runs; the entry of a child that ended stays.
managed_OnExit(p) ==
    /\ OnExit(p)
    /\ handlers' = [handlers EXCEPT ![p] = IF @ = "own" THEN "stale" ELSE @]
    /\ UNCHANGED shadowed

\* Process_Manager::terminate.  The handler it finds signals its own child.
Killed_Bug(pid) == child

Killed(pid) ==
    [p \in Pids |-> IF p = pid /\ handlers[p] = "own" THEN "reaped" ELSE child[p]]

managed_handle_timeout(id) ==
    /\ due[id] > 0
    /\ due' = [due EXCEPT ![id] = @ - 1]
    /\ IF running[id] = NoRun
       THEN UNCHANGED <<jobs, procs, handlers>>
       ELSE /\ child' = Killed(running[id].pid)
            /\ handlers' = [p \in Pids |-> IF p = running[id].pid THEN "none" ELSE handlers[p]]
            /\ Release(running[id].lane)
            /\ pq' = push(pq, requeue(id))
            /\ running' = [running EXCEPT ![id] = NoRun]
            /\ UNCHANGED <<sink, samples, owner>>
    /\ UNCHANGED <<stop, loops, submitted, shadowed>>

ManagedNext ==
    \/ managed_run_loop
    \/ \E id \in Ids : managed_handle_timeout(id)
    \/ \E p \in Pids : managed_OnExit(p)
    \/ /\ \/ run
          \/ Stop
          \/ stop /\ run_loop
          \/ \E id \in Ids : Expire(id) \/ \E lane \in Lanes : Submit(id, lane)
          \/ \E p \in Pids : ChildExit(p)
       /\ UNCHANGED <<handlers, shadowed>>

ManagedSpec == ManagedInit /\ [][ManagedNext]_managed

-----------------------------------------------------------------------------
(***************************************************************************)
(* "Kill & Requeue" (handle_timeout), with reused process ids, ids that    *)
(* are submitted again and entries nobody removes: the process a deadline  *)
(* kills is its own job's, never that of a job which got the pid since,    *)
(* and it survives the kill only if its pid came back over a stale entry.  *)
(***************************************************************************)
KillReachesTheRun ==
    [][\A id \in Ids :
          LET p == running[id].pid IN
          due'[id] < due[id] /\ Running(id) /\ p \in Pids =>
              /\ owner[p] = id
              /\ child'[p] \in {"live", "exited"} => p \in shadowed
              /\ \A q \in Pids \ {p} : child'[q] = child[q]]_managed
=============================================================================
