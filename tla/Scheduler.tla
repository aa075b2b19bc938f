------------------------------ MODULE Scheduler ------------------------------
(***************************************************************************)
(* aps::Scheduler: jobs wait in a pending queue, run_loop starts the job   *)
(* at its head when a lane is free, a run in the fast lane is killed and   *)
(* re-queued when its deadline passes, and the callback of a child's exit  *)
(* frees the lane and stores the result.                                   *)
(*                                                                         *)
(* run_loop, handle_exit and handle_timeout are completion handlers of one *)
(* single-threaded io_context: each is one step, and they interleave in    *)
(* any order.  What makes that hard is what asio and the kernel may hold   *)
(* back: a timer that has expired can no longer be cancelled (due), and    *)
(* the exit callback of a child that handle_timeout reaped still comes     *)
(* (child[p] = "reaped"), however late.  Jobs are pushed by other threads. *)
(* stop_ is a plain bool, but every pass of run_loop reads it afresh: a    *)
(* late view of it is a later Stop.                                        *)
(*                                                                         *)
(* A definition whose name ends in _Bug is a faulty variant of the one     *)
(* after it; it shows that a property can fail.  Nothing else uses it.     *)
(***************************************************************************)
EXTENDS Integers, Sequences, FiniteSets

CONSTANTS
    Ids,            \* job ids
    Pids,           \* process ids the kernel may hand out
    TotalLane,      \* total_lane_
    SizeMax,        \* largest size_t
    ExitStatuses,   \* what on_exit may report for a child it waited for
    LostStatuses,   \* what it may report for a child terminate() waited for
    Durations,      \* run times in whole seconds
    P90Capacity,    \* capacity of the estimator's window
    MaxSubmits,     \* bound: how often a job id is submitted
    MaxLoops,       \* bound: how often run() is called
    SpawnMayFail,   \* whether spawn may answer -1
    None            \* no job

ASSUME SchedulerAssumption ==
    /\ IsFiniteSet(Ids) /\ None \notin Ids
    /\ Pids \subseteq Nat \ {0}
    /\ TotalLane \in Nat /\ TotalLane >= 4
    /\ SizeMax \in Nat /\ SizeMax >= TotalLane
    /\ ExitStatuses \subseteq Int /\ LostStatuses \subseteq Int
    /\ Durations \subseteq Nat
    /\ P90Capacity \in Nat \ {0}
    /\ MaxSubmits \in Nat
    /\ MaxLoops \in Nat
    /\ SpawnMayFail \in BOOLEAN

VARIABLES
    stop,           \* stop_
    loops,          \* passes of run_loop posted or waiting for their timer
    pq,             \* pq_, head first
    running,        \* running_; NoRun where the map has no entry
    running_fast,   \* running_fast_
    running_slow,   \* running_slow_
    sink,           \* ids with a result in storage_
    samples,        \* the window of p90_estimator_
    child,          \* state of each process, as the kernel and asio see it
    owner,          \* the id captured by the exit callback of each process
    due,            \* per id, deadline completions that can't be cancelled
    submitted       \* per id, how often it was pushed from outside

jobs  == <<pq, running, running_fast, running_slow, sink, samples>>
procs == <<child, owner>>
vars  == <<stop, loops, jobs, procs, due, submitted>>

FAST  == "FAST"
SLOW  == "SLOW"
Lanes == {FAST, SLOW}

NoPid == -1

PendingJobs == [id : Ids, lane : Lanes]

Runs == [lane : Lanes, pid : Pids \cup {NoPid}, timer : {"none", "armed", "due"}]

NoRun == [lane |-> "none", pid |-> NoPid, timer |-> "none"]

P90 == INSTANCE P90Estimator
           WITH Capacity <- P90Capacity, MinSamples <- 15, DefaultTimeout <- 30

-----------------------------------------------------------------------------
(***************************************************************************)
(* Lanes.  Counters are size_t: they wrap.                                 *)
(***************************************************************************)
FastLane == TotalLane \div 4
SlowLane == TotalLane - FastLane

Plus(a, b) == IF a + b > SizeMax THEN a + b - SizeMax - 1 ELSE a + b
Dec(n)     == IF n = 0 THEN SizeMax ELSE n - 1

(***************************************************************************)
(* schedulable: after the test for a free lane, every path of the switch   *)
(* on the job's lane ends in return true.                                  *)
(***************************************************************************)
schedulable_Bug(lane) == Plus(running_fast, running_slow) <= TotalLane

schedulable(lane) == Plus(running_fast, running_slow) < TotalLane

\* The lane a job is counted in: its own while that has room, else the other.
ActualLane(lane) ==
    CASE lane = FAST -> IF running_fast < FastLane THEN FAST ELSE SLOW
      [] lane = SLOW -> IF running_slow < SlowLane THEN SLOW ELSE FAST

Acquire(lane) ==
    /\ running_fast' = IF lane = FAST THEN Plus(running_fast, 1) ELSE running_fast
    /\ running_slow' = IF lane = SLOW THEN Plus(running_slow, 1) ELSE running_slow

Release(lane) ==
    /\ running_fast' = IF lane = FAST THEN Dec(running_fast) ELSE running_fast
    /\ running_slow' = IF lane = SLOW THEN Dec(running_slow) ELSE running_slow

-----------------------------------------------------------------------------
(***************************************************************************)
(* Pending_Q::push, requeue and the arming of a run's deadline.            *)
(***************************************************************************)
push_Bug(q, pj) == <<pj>> \o q

push(q, pj) == Append(q, pj)

requeue_Bug(id) == [id |-> id, lane |-> running[id].lane]

requeue(id) == [id |-> id, lane |-> SLOW]

Deadline_Bug(lane) == "armed"

Deadline_NoneBug(lane) == "none"

Deadline(lane) == IF lane = FAST THEN "armed" ELSE "none"

-----------------------------------------------------------------------------
Init ==
    /\ stop = FALSE
    /\ loops = 0
    /\ pq = << >>
    /\ running = [id \in Ids |-> NoRun]
    /\ running_fast = 0
    /\ running_slow = 0
    /\ sink = {}
    /\ P90!Init
    /\ child = [p \in Pids |-> "unused"]
    /\ owner = [p \in Pids |-> None]
    /\ due = [id \in Ids |-> 0]
    /\ submitted = [id \in Ids |-> 0]

\* Pending_Q::push by a client, from any thread.
Submit(id, lane) ==
    /\ submitted[id] < MaxSubmits
    /\ submitted' = [submitted EXCEPT ![id] = @ + 1]
    /\ pq' = push(pq, [id |-> id, lane |-> lane])
    /\ UNCHANGED <<stop, loops, running, running_fast, running_slow, sink,
                   samples, procs, due>>

run ==
    /\ loops < MaxLoops
    /\ loops' = loops + 1
    /\ UNCHANGED <<stop, jobs, procs, due, submitted>>

Stop ==
    /\ ~stop
    /\ stop' = TRUE
    /\ UNCHANGED <<loops, jobs, procs, due, submitted>>

(***************************************************************************)
(* Process_Manager::spawn.  A process id is not handed out again before    *)
(* the exit callback of its last process has run.                          *)
(***************************************************************************)
spawn(id, pid) ==
    \/ /\ pid = NoPid
       /\ SpawnMayFail
       /\ UNCHANGED procs
    \/ /\ pid \in Pids
       /\ child[pid] = "unused"
       /\ child' = [child EXCEPT ![pid] = "live"]
       /\ owner' = [owner EXCEPT ![pid] = id]

(***************************************************************************)
(* schedule: the lane is taken, then the child spawned, whatever comes of  *)
(* it; only the fast lane has a deadline.  emplace leaves an entry that    *)
(* the id already has, and destroys the new one with its timer.  The       *)
(* deadline's length (P90Estimator!compute_timeout) is left to Expire,     *)
(* which may come at any time.                                             *)
(***************************************************************************)
schedule(pj) ==
    LET lane == ActualLane(pj.lane) IN
    /\ Acquire(lane)
    /\ \E pid \in Pids \cup {NoPid} :
          /\ spawn(pj.id, pid)
          /\ running' =
                [running EXCEPT ![pj.id] =
                    IF @ # NoRun THEN @
                    ELSE [lane  |-> lane,
                          pid   |-> pid,
                          timer |-> Deadline(lane)]]

(***************************************************************************)
(* run_loop: the pass that sees stop_ is the last; a pass with nothing to  *)
(* schedule only re-arms the timer and is a stuttering step.               *)
(***************************************************************************)
run_loop ==
    /\ loops > 0
    /\ \/ /\ stop
          /\ loops' = loops - 1
          /\ UNCHANGED <<jobs, procs>>
       \/ /\ ~stop
          /\ pq # << >>
          /\ schedulable(Head(pq).lane)
          /\ schedule(Head(pq))
          /\ pq' = Tail(pq)
          /\ UNCHANGED <<loops, sink, samples>>
    /\ UNCHANGED <<stop, due, submitted>>

\* The deadline of a run passes: its completion is queued, past cancelling.
Expire(id) ==
    /\ running[id].timer = "armed"
    /\ running' = [running EXCEPT ![id].timer = "due"]
    /\ due' = [due EXCEPT ![id] = @ + 1]
    /\ UNCHANGED <<stop, loops, pq, running_fast, running_slow, sink, samples,
                   procs, submitted>>

ChildExit(p) ==
    /\ child[p] = "live"
    /\ child' = [child EXCEPT ![p] = "exited"]
    /\ UNCHANGED <<stop, loops, jobs, owner, due, submitted>>

\* The macro, for statuses of a process that is not stopped.
WIFEXITED(status) == status % 128 = 0

\* Finished_Storage::store: emplace keeps the result an id has.
store(ids, id) == ids \cup {id}

handle_exit_Bug(id, status) ==
    IF running[id] = NoRun
    THEN UNCHANGED jobs
    ELSE /\ IF WIFEXITED(status)
            THEN /\ sink' = store(sink, id)
                 /\ Release(running[id].lane)
            ELSE UNCHANGED <<sink, running_fast, running_slow>>
         /\ running' = [running EXCEPT ![id] = NoRun]
         /\ UNCHANGED <<pq, samples>>

handle_exit(id, status) ==
    IF running[id] = NoRun
    THEN UNCHANGED jobs
    ELSE /\ \/ /\ WIFEXITED(status)
               /\ sink' = store(sink, id)
               /\ \E d \in Durations : P90!add(d)
            \/ /\ ~WIFEXITED(status)
               /\ UNCHANGED <<sink, samples>>
         /\ Release(running[id].lane)
         /\ running' = [running EXCEPT ![id] = NoRun]
         /\ UNCHANGED pq

\* on_exit runs the callback that schedule gave the process.
OnExit(p) ==
    /\ \/ /\ child[p] = "exited"
          /\ \E status \in ExitStatuses : handle_exit(owner[p], status)
       \/ /\ child[p] = "reaped"
          /\ \E status \in LostStatuses : handle_exit(owner[p], status)
    /\ child' = [child EXCEPT ![p] = "unused"]
    /\ owner' = [owner EXCEPT ![p] = None]
    /\ UNCHANGED <<stop, loops, due, submitted>>

\* Process_Manager::terminate kills the child and waits for it.
terminate_Bug(pid) == UNCHANGED procs

terminate(pid) ==
    /\ child' = [p \in Pids |-> IF p = pid /\ child[p] \in {"live", "exited"}
                                THEN "reaped" ELSE child[p]]
    /\ UNCHANGED owner

\* Without the test that the run is still there.
handle_timeout_Bug(id) ==
    /\ due[id] > 0
    /\ due' = [due EXCEPT ![id] = @ - 1]
    /\ terminate(running[id].pid)
    /\ Release(running[id].lane)
    /\ pq' = push(pq, requeue(id))
    /\ running' = [running EXCEPT ![id] = NoRun]
    /\ UNCHANGED <<sink, samples, stop, loops, submitted>>

handle_timeout(id) ==
    /\ due[id] > 0
    /\ due' = [due EXCEPT ![id] = @ - 1]
    /\ IF running[id] = NoRun
       THEN UNCHANGED <<jobs, procs>>
       ELSE /\ terminate(running[id].pid)
            /\ Release(running[id].lane)
            /\ pq' = push(pq, requeue(id))
            /\ running' = [running EXCEPT ![id] = NoRun]
            /\ UNCHANGED <<sink, samples>>
    /\ UNCHANGED <<stop, loops, submitted>>

Next ==
    \/ run
    \/ Stop
    \/ run_loop
    \/ \E id \in Ids :
          \/ \E lane \in Lanes : Submit(id, lane)
          \/ Expire(id)
          \/ handle_timeout(id)
    \/ \E p \in Pids : ChildExit(p) \/ OnExit(p)

Spec == Init /\ [][Next]_vars

(***************************************************************************)
(* The io_context runs every completion that is ready, and time passes.    *)
(* Nothing says that a child ever ends: a solver may hang.                 *)
(***************************************************************************)
EventLoopFairness ==
    /\ WF_vars(run_loop)
    /\ \A id \in Ids : WF_vars(Expire(id)) /\ WF_vars(handle_timeout(id))
    /\ \A p \in Pids : WF_vars(OnExit(p))

-----------------------------------------------------------------------------
Queued(id)  == \E i \in DOMAIN pq : pq[i].id = id
Running(id) == running[id] # NoRun
InLane(lane) == {id \in Ids : running[id].lane = lane}

\* The processes of a job that have not been waited for.
Processes(id) == {p \in Pids : owner[p] = id /\ child[p] \in {"live", "exited"}}

CallbackPending(id, p) == p \in Pids /\ owner[p] = id

(***************************************************************************)
(* Where a job whose id is unique stands, as its client sees it.           *)
(***************************************************************************)
Phase(id) ==
    IF submitted[id] = 0 THEN "new"
    ELSE IF Queued(id) THEN "queued"
    ELSE IF Running(id) THEN "running"
    ELSE IF id \in sink THEN "finished"
    ELSE "dropped"

Phases == [id \in Ids |-> Phase(id)]

Lifecycle == INSTANCE JobLifecycle
                 WITH Jobs <- Ids, Capacity <- TotalLane, phase <- Phases

(***************************************************************************)
(* With unique ids the scheduler implements the life cycle: however its    *)
(* completions interleave, no job skips the queue, none comes back from    *)
(* the storage, and no more than total_lane_ jobs are in running_.         *)
(***************************************************************************)
ImplementsLifecycle == Lifecycle!Spec

TypeOK ==
    /\ stop \in BOOLEAN
    /\ loops \in 0..MaxLoops
    /\ pq \in Seq(PendingJobs)
    /\ running \in [Ids -> Runs \cup {NoRun}]
    /\ running_fast \in 0..SizeMax
    /\ running_slow \in 0..SizeMax
    /\ sink \subseteq Ids
    /\ P90!TypeOK
    /\ child \in [Pids -> {"unused", "live", "exited", "reaped"}]
    /\ owner \in [Pids -> Ids \cup {None}]
    /\ \A p \in Pids : owner[p] = None <=> child[p] = "unused"
    /\ due \in [Ids -> Nat]
    /\ submitted \in [Ids -> 0..MaxSubmits]

(***************************************************************************)
(* However jobs borrow each other's lanes, time out, exit late or reuse an *)
(* id, neither lane is ever counted over its size or under the entries of  *)
(* running_ in it: no release takes a counter below zero, where size_t     *)
(* would wrap and block every later job.                                   *)
(***************************************************************************)
LaneCapacity ==
    /\ Cardinality(InLane(FAST)) <= running_fast /\ running_fast <= FastLane
    /\ Cardinality(InLane(SLOW)) <= running_slow /\ running_slow <= SlowLane

(***************************************************************************)
(* While ids are unique the counters are exactly the entries of running_   *)
(* by lane: what schedule takes, handle_exit and handle_timeout give back, *)
(* once.                                                                   *)
(***************************************************************************)
LaneAccounting ==
    /\ running_fast = Cardinality(InLane(FAST))
    /\ running_slow = Cardinality(InLane(SLOW))

(***************************************************************************)
(* An entry of running_ can always still be removed: the callback of its   *)
(* own process is outstanding or its deadline is.  The one exception is a  *)
(* run in the slow lane whose spawn failed; its lane is lost for good.     *)
(***************************************************************************)
EntryCanBeRemoved ==
    \A id \in Ids :
        Running(id) =>
            \/ CallbackPending(id, running[id].pid)
            \/ running[id].timer = "armed"
            \/ running[id].timer = "due" /\ due[id] > 0
            \/ running[id].pid = NoPid /\ running[id].lane = SLOW

(***************************************************************************)
(* A job whose id is unique never has two processes at once, and none      *)
(* while it waits in the queue: handle_timeout's kill comes before its     *)
(* push, and no late completion re-queues a job that is running.           *)
(***************************************************************************)
OneProcessPerJob ==
    \A id \in Ids :
        /\ Queued(id) => Processes(id) = {}
        /\ \A p, q \in Processes(id) : p = q

(***************************************************************************)
(* A job whose id is unique is in the queue at most once, and is never in  *)
(* two of the queue, running_ and the storage: a stored result is final.   *)
(***************************************************************************)
OnePlacePerJob ==
    \A id \in Ids :
        /\ \A i, j \in DOMAIN pq : pq[i].id = id /\ pq[j].id = id => i = j
        /\ ~(Queued(id) /\ Running(id))
        /\ id \in sink => ~Queued(id) /\ ~Running(id) /\ Processes(id) = {}

(***************************************************************************)
(* "Should never happen by design" (handle_timeout, case Lane::SLOW): no   *)
(* deadline completion meets a run in the slow lane.  It rests on unique   *)
(* ids: the expired deadline of an earlier run of the same id may.         *)
(***************************************************************************)
NoSlowTimeout ==
    \A id \in Ids : due[id] > 0 /\ Running(id) => running[id].lane = FAST

(***************************************************************************)
(* running_ is the map "Job ID -> Running Job": a job whose process is     *)
(* alive has an entry.                                                     *)
(***************************************************************************)
LiveProcessIsMapped ==
    \A p \in Pids : child[p] = "live" => Running(owner[p])

(***************************************************************************)
(* A queued job is started, or the scheduler stopped, even if children     *)
(* hang in the slow lanes and every other job keeps timing out and coming  *)
(* back: the fast lane empties at each deadline and the queue is first in, *)
(* first out.                                                              *)
(***************************************************************************)
QueuedJobIsStarted ==
    \A id \in Ids : Queued(id) /\ loops > 0 ~> Running(id) \/ stop

(***************************************************************************)
(* If children end, a queued job leaves the system: it doesn't go round    *)
(* between deadline and queue for ever.  Only an entry without a process   *)
(* in the slow lane stays (EntryCanBeRemoved).                             *)
(***************************************************************************)
Stuck(id) == running[id].pid = NoPid /\ running[id].lane = SLOW

QueuedJobSettles ==
    (\A p \in Pids : WF_vars(ChildExit(p))) =>
        \A id \in Ids :
            Queued(id) /\ loops > 0 ~> stop \/ (~Queued(id) /\ (~Running(id) \/ Stuck(id)))
=============================================================================
