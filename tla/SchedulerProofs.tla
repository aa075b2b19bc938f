-------------------------- MODULE SchedulerProofs --------------------------
(***************************************************************************)
(* Proofs about Scheduler for any number of jobs, processes and lanes.  In *)
(* three parts: any use of it, where ids may be submitted again at any     *)
(* time; the use it is meant for, where every id is submitted once; and    *)
(* the scheduler on top of Process_Manager's table.                        *)
(***************************************************************************)
EXTENDS ManagedScheduler, SequenceTheorems, FiniteSetTheorems, TLAPS

\* The two lanes are never empty and make up all of total_lane_.
LEMMA LaneSizes ==
    /\ FastLane \in Nat \ {0}
    /\ SlowLane \in Nat \ {0}
    /\ FastLane + SlowLane = TotalLane
    /\ FastLane <= SizeMax /\ SlowLane <= SizeMax
BY SchedulerAssumption DEF FastLane, SlowLane

\* No entry of running_ looks like the absence of one.
LEMMA NoRunIsNoRun == NoRun \notin Runs /\ \A r \in Runs : r.lane \in Lanes
BY DEF NoRun, Runs, Lanes, FAST, SLOW

\* add keeps the window well formed.
LEMMA SamplesType ==
    ASSUME P90!TypeOK, NEW d \in Durations, P90!add(d)
    PROVE  P90!TypeOK'
<1>1. d \in Nat /\ P90Capacity \in Nat \ {0}
  BY SchedulerAssumption
<1>2. CASE d <= 0
  BY <1>1, <1>2 DEF P90!TypeOK, P90!add, P90!AddTo
<1>3. CASE d > 0 /\ Len(samples) >= P90Capacity
  <2>1. samples # << >> /\ samples \in Seq(Nat \ {0}) /\ Len(samples) <= P90Capacity
    BY <1>1, <1>3 DEF P90!TypeOK
  <2>2. Tail(samples) \in Seq(Nat \ {0}) /\ Len(Tail(samples)) = Len(samples) - 1
    BY <2>1
  <2>3. samples' = Append(Tail(samples), d)
    BY <1>1, <1>3 DEF P90!add, P90!AddTo
  <2> QED
    BY <1>1, <1>3, <2>1, <2>2, <2>3 DEF P90!TypeOK
<1>4. CASE d > 0 /\ Len(samples) < P90Capacity
  BY <1>1, <1>4 DEF P90!TypeOK, P90!add, P90!AddTo
<1> QED
  BY <1>1, <1>2, <1>3, <1>4 DEF P90!TypeOK

\* Counters stay within size_t whatever is done to them.
LEMMA CounterType ==
    ASSUME TypeOK, NEW lane, Acquire(lane) \/ Release(lane)
    PROVE  running_fast' \in 0..SizeMax /\ running_slow' \in 0..SizeMax
<1> SizeMax \in Nat /\ SizeMax >= 4 /\ running_fast \in 0..SizeMax /\ running_slow \in 0..SizeMax
  BY SchedulerAssumption DEF TypeOK
<1> QED
  BY DEF Acquire, Release, Plus, Dec

LEMMA ActualLaneType == \A lane \in Lanes : ActualLane(lane) \in Lanes
BY DEF ActualLane, Lanes, FAST, SLOW

-----------------------------------------------------------------------------
LEMMA TypeInit == Init => TypeOK
<1> SUFFICES ASSUME Init PROVE TypeOK
  OBVIOUS
<1>1. P90!TypeOK
  BY SchedulerAssumption DEF Init, P90!Init, P90!TypeOK
<1>2. /\ stop \in BOOLEAN
      /\ loops \in 0..MaxLoops
      /\ pq \in Seq(PendingJobs)
  <2>1. stop \in BOOLEAN
    BY DEF Init
  <2>2. loops \in 0..MaxLoops
    BY SchedulerAssumption DEF Init
  <2>3. pq \in Seq(PendingJobs)
    BY DEF Init
  <2> QED
    BY <2>1, <2>2, <2>3
<1>3. /\ running_fast \in 0..SizeMax /\ running_slow \in 0..SizeMax /\ sink \subseteq Ids
      /\ due \in [Ids -> Nat] /\ submitted \in [Ids -> 0..MaxSubmits]
  BY SchedulerAssumption DEF Init
<1>4. /\ running \in [Ids -> Runs \cup {NoRun}]
      /\ child \in [Pids -> {"unused", "live", "exited", "reaped"}]
      /\ owner \in [Pids -> Ids \cup {None}]
      /\ \A p \in Pids : owner[p] = None <=> child[p] = "unused"
  BY DEF Init
<1> QED
  BY <1>1, <1>2, <1>3, <1>4 DEF TypeOK

LEMMA TypeRunLoop == ASSUME TypeOK, run_loop PROVE TypeOK'
<1>1. CASE stop
  BY <1>1, SchedulerAssumption DEF run_loop, TypeOK, jobs, procs, P90!TypeOK
<1>2. CASE ~stop
  <2> DEFINE pj == Head(pq)
             lane == ActualLane(pj.lane)
  <2>0. pj \in PendingJobs /\ Tail(pq) \in Seq(PendingJobs)
    BY <1>2 DEF run_loop, TypeOK
  <2>1. pj.id \in Ids /\ pj.lane \in Lanes
    BY <2>0 DEF PendingJobs
  <2>2. lane \in Lanes
    BY <2>1, ActualLaneType
  <2>3. PICK pid \in Pids \cup {NoPid} :
           /\ spawn(pj.id, pid)
           /\ running' = [running EXCEPT ![pj.id] =
                 IF @ # NoRun THEN @
                 ELSE [lane |-> lane, pid |-> pid, timer |-> Deadline(lane)]]
    BY <1>2 DEF run_loop, schedule
  <2>4. running' \in [Ids -> Runs \cup {NoRun}]
    <3>1. [lane |-> lane, pid |-> pid, timer |-> Deadline(lane)] \in Runs
      BY <2>2 DEF Runs, Deadline
    <3> QED
      BY <3>1, <2>1, <2>3 DEF TypeOK
  <2>5. /\ child' \in [Pids -> {"unused", "live", "exited", "reaped"}]
        /\ owner' \in [Pids -> Ids \cup {None}]
        /\ \A p \in Pids : owner'[p] = None <=> child'[p] = "unused"
    BY <2>1, <2>3, SchedulerAssumption DEF spawn, TypeOK, procs
  <2>6. running_fast' \in 0..SizeMax /\ running_slow' \in 0..SizeMax
    BY <1>2, CounterType DEF run_loop, schedule
  <2> QED
    BY <1>2, <2>0, <2>4, <2>5, <2>6 DEF run_loop, TypeOK, P90!TypeOK
<1> QED
  BY <1>1, <1>2

LEMMA TypeOnExit == ASSUME TypeOK, NEW p \in Pids, OnExit(p) PROVE TypeOK'
<1>1. owner[p] \in Ids
  BY DEF OnExit, TypeOK
<1>2. PICK status : handle_exit(owner[p], status)
  BY DEF OnExit
<1>3. /\ child' \in [Pids -> {"unused", "live", "exited", "reaped"}]
      /\ owner' \in [Pids -> Ids \cup {None}]
      /\ \A q \in Pids : owner'[q] = None <=> child'[q] = "unused"
  BY DEF OnExit, TypeOK
<1>4. CASE running[owner[p]] = NoRun
  BY <1>2, <1>3, <1>4 DEF OnExit, handle_exit, store, TypeOK, jobs, P90!TypeOK
<1>5. CASE running[owner[p]] # NoRun
  <2>1. running_fast' \in 0..SizeMax /\ running_slow' \in 0..SizeMax
    BY <1>2, <1>5, CounterType DEF handle_exit
  <2>2. P90!TypeOK'
    <3>1. CASE \E d \in Durations : P90!add(d)
      BY <3>1, SamplesType DEF TypeOK
    <3>2. CASE UNCHANGED samples
      BY <3>2 DEF TypeOK, P90!TypeOK
    <3> QED
      BY <1>2, <1>5, <3>1, <3>2 DEF handle_exit
  <2>3. /\ running' = [running EXCEPT ![owner[p]] = NoRun] /\ pq' = pq
        /\ sink' = sink \/ sink' = sink \cup {owner[p]}
    BY <1>2, <1>5 DEF handle_exit, store
  <2>4. running' \in [Ids -> Runs \cup {NoRun}] /\ sink' \subseteq Ids
    BY <1>1, <2>3 DEF TypeOK
  <2> QED
    BY <1>3, <2>1, <2>2, <2>3, <2>4 DEF OnExit, TypeOK
<1> QED
  BY <1>4, <1>5

LEMMA TypeTimeout == ASSUME TypeOK, NEW id \in Ids, handle_timeout(id) PROVE TypeOK'
<1>1. due' \in [Ids -> Nat]
  BY DEF handle_timeout, TypeOK
<1>2. CASE running[id] = NoRun
  BY <1>1, <1>2 DEF handle_timeout, TypeOK, jobs, procs, P90!TypeOK
<1>3. CASE running[id] # NoRun
  <2>1. running_fast' \in 0..SizeMax /\ running_slow' \in 0..SizeMax
    BY <1>3, CounterType DEF handle_timeout
  <2>2. /\ child' \in [Pids -> {"unused", "live", "exited", "reaped"}]
        /\ owner' \in [Pids -> Ids \cup {None}]
        /\ \A p \in Pids : owner'[p] = None <=> child'[p] = "unused"
    BY <1>3 DEF handle_timeout, terminate, TypeOK
  <2>3. pq' \in Seq(PendingJobs)
    <3>1. requeue(id) \in PendingJobs
      BY DEF requeue, PendingJobs, Lanes
    <3>2. pq' = Append(pq, requeue(id)) /\ pq \in Seq(PendingJobs)
      BY <1>3 DEF handle_timeout, push, TypeOK
    <3> QED
      BY <3>1, <3>2
  <2>4. running' \in [Ids -> Runs \cup {NoRun}]
    BY <1>3 DEF handle_timeout, TypeOK
  <2> QED
    BY <1>1, <1>3, <2>1, <2>2, <2>3, <2>4 DEF handle_timeout, TypeOK, P90!TypeOK
<1> QED
  BY <1>2, <1>3

LEMMA TypeNext == ASSUME TypeOK, [Next]_vars PROVE TypeOK'
<1>1. CASE UNCHANGED vars
  BY <1>1 DEF vars, jobs, procs, TypeOK, P90!TypeOK
<1>2. CASE run \/ Stop
  <2>1. stop' \in BOOLEAN
    BY <1>2 DEF run, Stop, TypeOK
  <2>2. loops' \in 0..MaxLoops
    BY <1>2, SchedulerAssumption DEF run, Stop, TypeOK
  <2> QED
    BY <1>2, <2>1, <2>2 DEF run, Stop, jobs, procs, TypeOK, P90!TypeOK
<1>3. ASSUME NEW id \in Ids, NEW lane \in Lanes, Submit(id, lane)
      PROVE  TypeOK'
  <2>0. [id |-> id, lane |-> lane] \in PendingJobs
    BY DEF PendingJobs
  <2>1. pq' \in Seq(PendingJobs)
    BY <1>3, <2>0 DEF Submit, push, TypeOK
  <2>2. submitted' \in [Ids -> 0..MaxSubmits]
    BY <1>3, SchedulerAssumption DEF Submit, TypeOK
  <2> QED
    BY <1>3, <2>1, <2>2 DEF Submit, procs, TypeOK, P90!TypeOK
<1>4. ASSUME NEW id \in Ids, Expire(id)
      PROVE  TypeOK'
  <2>1. running[id] \in Runs
    BY <1>4 DEF Expire, TypeOK, NoRun
  <2>2. running' \in [Ids -> Runs \cup {NoRun}]
    BY <1>4, <2>1 DEF Expire, TypeOK, Runs
  <2>3. due' \in [Ids -> Nat]
    BY <1>4 DEF Expire, TypeOK
  <2> QED
    BY <1>4, <2>2, <2>3 DEF Expire, procs, TypeOK, P90!TypeOK
<1>5. ASSUME NEW p \in Pids, ChildExit(p)
      PROVE  TypeOK'
  BY <1>5 DEF ChildExit, jobs, TypeOK, P90!TypeOK
<1> QED
  BY <1>1, <1>2, <1>3, <1>4, <1>5, TypeRunLoop, TypeOnExit, TypeTimeout DEF Next

(***************************************************************************)
(* Type correctness: under any interleaving of clients, timers and exits   *)
(* the counters stay in size_t, the queue and running_ hold known jobs,    *)
(* and exactly the processes whose exit callback is outstanding have an    *)
(* owner.                                                                  *)
(***************************************************************************)
THEOREM TypeCorrect == Spec => []TypeOK
<1>1. Init => TypeOK
  BY TypeInit
<1>2. TypeOK /\ [Next]_vars => TypeOK'
  BY TypeNext
<1> QED
  BY <1>1, <1>2, PTL DEF Spec
-----------------------------------------------------------------------------
(***************************************************************************)
(* Lanes.  LaneCapacity is inductive: the bounds from below, one for each  *)
(* lane, are what keeps Dec away from zero.                                *)
(***************************************************************************)
LEMMA LanesFinite ==
    ASSUME NEW lane
    PROVE  IsFiniteSet(InLane(lane)) /\ Cardinality(InLane(lane)) \in Nat
<1>1. InLane(lane) \in SUBSET Ids
  BY DEF InLane
<1> QED
  BY <1>1, SchedulerAssumption, FS_Subset, FS_CardinalityType

\* Erasing an entry and releasing the lane it was counted in.
LEMMA EraseKeepsLanes ==
    ASSUME TypeOK, LaneCapacity, NEW id \in Ids, running[id] # NoRun,
           Release(running[id].lane), running' = [running EXCEPT ![id] = NoRun]
    PROVE  LaneCapacity'
<1>1. PICK lane \in Lanes : lane = running[id].lane
  BY NoRunIsNoRun DEF TypeOK
<1>2. \A l \in Lanes : InLane(l)' = IF l = lane THEN InLane(l) \ {id} ELSE InLane(l)
  BY <1>1 DEF InLane, TypeOK, NoRun, Lanes, FAST, SLOW
<1>3. id \in InLane(lane)
  BY <1>1 DEF InLane
<1>4. /\ Cardinality(InLane(lane)') = Cardinality(InLane(lane)) - 1
      /\ Cardinality(InLane(lane)') \in Nat
  <2>1. InLane(lane)' = InLane(lane) \ {id}
    BY <1>2
  <2>2. /\ IsFiniteSet(InLane(lane) \ {id})
        /\ Cardinality(InLane(lane) \ {id}) = Cardinality(InLane(lane)) - 1
    BY <1>3, LanesFinite, FS_RemoveElement
  <2> QED
    BY <2>1, <2>2, FS_CardinalityType
<1>5. running_fast \in Nat /\ running_slow \in Nat
  BY DEF TypeOK
<1>6. CASE lane = FAST
  <2>1. Cardinality(InLane(FAST)) >= 1
    BY <1>4, <1>6, LanesFinite
  <2>2. running_fast' = running_fast - 1 /\ running_slow' = running_slow
    BY <1>1, <1>5, <1>6, <2>1, LanesFinite DEF LaneCapacity, Release, Dec, FAST, SLOW
  <2>3. Cardinality(InLane(SLOW)') = Cardinality(InLane(SLOW))
    BY <1>2, <1>6 DEF Lanes, FAST, SLOW
  <2> QED
    BY <1>4, <1>5, <1>6, <2>2, <2>3, LaneSizes, LanesFinite DEF LaneCapacity
<1>7. CASE lane = SLOW
  <2>1. Cardinality(InLane(SLOW)) >= 1
    BY <1>4, <1>7, LanesFinite
  <2>2. running_slow' = running_slow - 1 /\ running_fast' = running_fast
    BY <1>1, <1>5, <1>7, <2>1, LanesFinite DEF LaneCapacity, Release, Dec, FAST, SLOW
  <2>3. Cardinality(InLane(FAST)') = Cardinality(InLane(FAST))
    BY <1>2, <1>7 DEF Lanes, FAST, SLOW
  <2> QED
    BY <1>4, <1>5, <1>7, <2>2, <2>3, LaneSizes, LanesFinite DEF LaneCapacity
<1> QED
  BY <1>1, <1>6, <1>7 DEF Lanes

\* Taking a lane for a job when schedulable has found one free.
LEMMA AcquireKeepsLanes ==
    ASSUME TypeOK, LaneCapacity, NEW lane \in Lanes, schedulable(lane),
           Acquire(ActualLane(lane))
    PROVE  \/ /\ ActualLane(lane) = FAST
              /\ running_fast' = running_fast + 1 /\ running_fast' <= FastLane
              /\ running_slow' = running_slow
           \/ /\ ActualLane(lane) = SLOW
              /\ running_slow' = running_slow + 1 /\ running_slow' <= SlowLane
              /\ running_fast' = running_fast
<1>1. running_fast \in Nat /\ running_slow \in Nat /\ SizeMax \in Nat /\ TotalLane \in Nat
      /\ SizeMax >= TotalLane
  BY SchedulerAssumption DEF TypeOK
<1>2. running_fast <= FastLane /\ running_slow <= SlowLane
  BY DEF LaneCapacity
<1>3. running_fast + running_slow < TotalLane
  BY <1>1, <1>2, LaneSizes DEF schedulable, Plus
<1>4. CASE ActualLane(lane) = FAST
  <2>1. running_fast < FastLane
    BY <1>1, <1>2, <1>3, <1>4, LaneSizes DEF ActualLane, Lanes, FAST, SLOW
  <2> QED
    BY <1>1, <1>4, <2>1, LaneSizes DEF Acquire, Plus, FAST, SLOW
<1>5. CASE ActualLane(lane) = SLOW
  <2>1. running_slow < SlowLane
    BY <1>1, <1>2, <1>3, <1>5, LaneSizes DEF ActualLane, Lanes, FAST, SLOW
  <2> QED
    BY <1>1, <1>5, <2>1, LaneSizes DEF Acquire, Plus, FAST, SLOW
<1> QED
  BY <1>4, <1>5, ActualLaneType DEF Lanes

LEMMA LanesSchedule ==
    ASSUME TypeOK, LaneCapacity, NEW pj \in PendingJobs, NEW pid,
           schedulable(pj.lane), Acquire(ActualLane(pj.lane)),
           running' = [running EXCEPT ![pj.id] =
               IF @ # NoRun THEN @
               ELSE [lane |-> ActualLane(pj.lane), pid |-> pid,
                     timer |-> Deadline(ActualLane(pj.lane))]]
    PROVE  LaneCapacity'
<1> DEFINE lane == ActualLane(pj.lane)
<1>2. pj.id \in Ids /\ pj.lane \in Lanes
  BY DEF PendingJobs
<1>3. lane \in Lanes
  BY <1>2, ActualLaneType
<1>4. running' = [running EXCEPT ![pj.id] =
         IF @ # NoRun THEN @
         ELSE [lane |-> lane, pid |-> pid, timer |-> Deadline(lane)]]
  OBVIOUS
<1>5. \A l \in Lanes :
         InLane(l)' = InLane(l) \/ (l = lane /\ InLane(l)' = InLane(l) \cup {pj.id})
  BY <1>2, <1>3, <1>4 DEF InLane, TypeOK, NoRun, Lanes, FAST, SLOW
<1>6. \A l \in Lanes :
         /\ Cardinality(InLane(l)') \in Nat
         /\ Cardinality(InLane(l)') <= Cardinality(InLane(l)) + 1
         /\ l # lane => Cardinality(InLane(l)') = Cardinality(InLane(l))
  <2> SUFFICES ASSUME NEW l \in Lanes
               PROVE  /\ Cardinality(InLane(l)') \in Nat
                      /\ Cardinality(InLane(l)') <= Cardinality(InLane(l)) + 1
                      /\ l # lane => Cardinality(InLane(l)') = Cardinality(InLane(l))
    OBVIOUS
  <2>1. IsFiniteSet(InLane(l)) /\ Cardinality(InLane(l)) \in Nat
    BY LanesFinite
  <2>2. CASE InLane(l)' = InLane(l)
    BY <2>1, <2>2
  <2>3. CASE l = lane /\ InLane(l)' = InLane(l) \cup {pj.id}
    <3>1. Cardinality(InLane(l) \cup {pj.id}) \in
             {Cardinality(InLane(l)), Cardinality(InLane(l)) + 1}
      BY <2>1, FS_AddElement
    <3>2. Cardinality(InLane(l)') = Cardinality(InLane(l) \cup {pj.id})
      BY <2>3
    <3>3. CASE Cardinality(InLane(l)') = Cardinality(InLane(l))
      BY <2>1, <3>3
    <3>4. CASE Cardinality(InLane(l)') = Cardinality(InLane(l)) + 1
      BY <2>1, <2>3, <3>4
    <3> QED
      BY <3>1, <3>2, <3>3, <3>4
  <2> QED
    BY <1>5, <2>2, <2>3
<1>7. running_fast \in Nat /\ running_slow \in Nat
  BY DEF TypeOK
<1>8. Acquire(lane) /\ schedulable(pj.lane)
  OBVIOUS
<1>9. FAST \in Lanes /\ SLOW \in Lanes /\ FAST # SLOW
  BY DEF Lanes, FAST, SLOW
<1>10. CASE lane = FAST /\ running_fast' = running_fast + 1 /\ running_fast' <= FastLane
            /\ running_slow' = running_slow
  BY <1>6, <1>7, <1>9, <1>10, LaneSizes, LanesFinite DEF LaneCapacity
<1>11. CASE lane = SLOW /\ running_slow' = running_slow + 1 /\ running_slow' <= SlowLane
            /\ running_fast' = running_fast
  BY <1>6, <1>7, <1>9, <1>11, LaneSizes, LanesFinite DEF LaneCapacity
<1> QED
  BY <1>2, <1>8, <1>10, <1>11, AcquireKeepsLanes

LEMMA LanesRunLoop ==
    ASSUME TypeOK, LaneCapacity, run_loop, ~stop
    PROVE  LaneCapacity'
<1>1. Head(pq) \in PendingJobs
  BY DEF run_loop, TypeOK
<1> QED
  BY <1>1, LanesSchedule DEF run_loop, schedule

LEMMA LanesUnchanged ==
    ASSUME LaneCapacity, UNCHANGED <<running_fast, running_slow>>,
           \A id \in Ids : running'[id].lane = running[id].lane
    PROVE  LaneCapacity'
<1>1. InLane(FAST)' = InLane(FAST) /\ InLane(SLOW)' = InLane(SLOW)
  BY DEF InLane
<1> QED
  BY <1>1 DEF LaneCapacity

LEMMA LanesNext == ASSUME TypeOK, LaneCapacity, [Next]_vars PROVE LaneCapacity'
<1>1. CASE UNCHANGED <<running, running_fast, running_slow>>
  BY <1>1, LanesUnchanged
<1>2. ASSUME run_loop PROVE LaneCapacity'
  <2>1. CASE stop
    BY <1>1, <1>2, <2>1 DEF run_loop, jobs
  <2> QED
    BY <1>2, <2>1, LanesRunLoop
<1>3. ASSUME NEW id \in Ids, Expire(id) PROVE LaneCapacity'
  <2>1. \A j \in Ids : running'[j].lane = running[j].lane
    BY <1>3 DEF Expire, TypeOK, Runs, NoRun
  <2> QED
    BY <1>3, <2>1, LanesUnchanged DEF Expire
<1>4. ASSUME NEW id \in Ids, handle_timeout(id) PROVE LaneCapacity'
  <2>1. CASE running[id] = NoRun
    BY <1>1, <1>4, <2>1 DEF handle_timeout, jobs
  <2>2. CASE running[id] # NoRun
    BY <1>4, <2>2, EraseKeepsLanes DEF handle_timeout
  <2> QED
    BY <2>1, <2>2
<1>5. ASSUME NEW p \in Pids, OnExit(p) PROVE LaneCapacity'
  <2>1. owner[p] \in Ids
    BY <1>5 DEF OnExit, TypeOK
  <2>2. PICK status : handle_exit(owner[p], status)
    BY <1>5 DEF OnExit
  <2>3. CASE running[owner[p]] = NoRun
    BY <1>1, <2>2, <2>3 DEF handle_exit, jobs
  <2>4. CASE running[owner[p]] # NoRun
    BY <2>1, <2>2, <2>4, EraseKeepsLanes DEF handle_exit
  <2> QED
    BY <2>3, <2>4
<1>6. CASE run \/ Stop \/ (\E id \in Ids, lane \in Lanes : Submit(id, lane))
           \/ (\E p \in Pids : ChildExit(p)) \/ UNCHANGED vars
  BY <1>1, <1>6 DEF run, Stop, Submit, ChildExit, vars, jobs
<1> QED
  BY <1>2, <1>3, <1>4, <1>5, <1>6 DEF Next

LEMMA LanesInit == ASSUME Init PROVE LaneCapacity
<1>1. InLane(FAST) = {} /\ InLane(SLOW) = {}
  BY DEF Init, InLane, NoRun, FAST, SLOW
<1>2. Cardinality({}) = 0
  BY FS_EmptySet
<1> QED
  BY <1>1, <1>2, LaneSizes DEF Init, LaneCapacity

(***************************************************************************)
(* Neither lane is ever over-committed and neither counter ever wraps, for *)
(* any number of lanes and any use of ids: Spec => []LaneCapacity.         *)
(***************************************************************************)
THEOREM LanesNeverOvercommitted == Spec => []LaneCapacity
<1>1. Init => LaneCapacity
  BY LanesInit
<1>2. TypeOK /\ LaneCapacity /\ [Next]_vars => LaneCapacity'
  BY LanesNext
<1> QED
  BY <1>1, <1>2, TypeCorrect, PTL DEF Spec

-----------------------------------------------------------------------------
(***************************************************************************)
(* The entries of running_.  EntryInv strengthens EntryCanBeRemoved: the   *)
(* process of an entry is the entry's own and has not been waited for.     *)
(***************************************************************************)
EntryOK(id) ==
    Running(id) =>
        /\ running[id].pid # NoPid => running[id].pid \in Processes(id)
        /\ running[id].timer = "due" => due[id] > 0
        /\ running[id].lane = FAST => running[id].timer # "none"

EntryInv == \A id \in Ids : EntryOK(id)

LEMMA NoPidIsNoPid == NoPid \notin Pids
BY SchedulerAssumption DEF NoPid

LEMMA EntryRunLoop ==
    ASSUME TypeOK, EntryInv, run_loop, ~stop, NEW id \in Ids
    PROVE  EntryOK(id)'
<1>1. PICK job \in Ids, lane \in Lanes, pid \in Pids \cup {NoPid} :
         /\ spawn(job, pid)
         /\ running' = [running EXCEPT ![job] =
               IF @ # NoRun THEN @
               ELSE [lane |-> lane, pid |-> pid, timer |-> Deadline(lane)]]
  <2>1. Head(pq) \in PendingJobs
    BY DEF run_loop, TypeOK
  <2>2. Head(pq).id \in Ids /\ Head(pq).lane \in Lanes
    BY <2>1 DEF PendingJobs
  <2>3. ActualLane(Head(pq).lane) \in Lanes
    BY <2>2, ActualLaneType
  <2> QED
    BY <2>2, <2>3 DEF run_loop, schedule
<1>2. /\ Processes(id) \subseteq Processes(id)'
      /\ pid # NoPid => pid \in Processes(job)'
  BY <1>1 DEF spawn, procs, Processes, TypeOK
<1>3. due' = due
  BY DEF run_loop
<1>4. CASE running'[id] = running[id]
  BY <1>2, <1>3, <1>4 DEF EntryInv, EntryOK, Running
<1>5. CASE id = job /\ running'[id] = [lane |-> lane, pid |-> pid, timer |-> Deadline(lane)]
  BY <1>2, <1>5 DEF EntryOK, Deadline
<1> QED
  BY <1>1, <1>4, <1>5 DEF TypeOK

LEMMA EntryNext == ASSUME TypeOK, EntryInv, [Next]_vars PROVE EntryInv'
<1> SUFFICES ASSUME NEW id \in Ids PROVE EntryOK(id)'
  BY DEF EntryInv
<1>1. CASE UNCHANGED <<running, child, owner, due>>
  BY <1>1 DEF EntryInv, EntryOK, Running, Processes
<1>2. ASSUME run_loop PROVE EntryOK(id)'
  <2>1. CASE stop
    BY <1>1, <1>2, <2>1 DEF run_loop, jobs, procs
  <2> QED
    BY <1>2, <2>1, EntryRunLoop
<1>3. ASSUME NEW job \in Ids, Expire(job) PROVE EntryOK(id)'
  <2>1. Processes(id)' = Processes(id)
    BY <1>3 DEF Expire, procs, Processes
  <2>2. CASE id # job
    BY <1>3, <2>1, <2>2 DEF Expire, TypeOK, EntryInv, EntryOK, Running
  <2>3. CASE id = job
    <3>1. running[id] \in Runs /\ Running(id)
      BY <1>3, <2>3 DEF Expire, TypeOK, NoRun, Running
    <3>2. due'[id] > 0 /\ running'[id].pid = running[id].pid /\ running'[id].timer = "due"
      BY <1>3, <2>3, <3>1 DEF Expire, TypeOK, Runs
    <3> QED
      BY <2>1, <3>1, <3>2 DEF EntryInv, EntryOK
  <2> QED
    BY <2>2, <2>3
<1>4. ASSUME NEW p \in Pids, ChildExit(p) PROVE EntryOK(id)'
  <2>1. Processes(id)' = Processes(id) /\ running' = running /\ due' = due
    BY <1>4 DEF ChildExit, jobs, Processes, TypeOK
  <2> QED
    BY <2>1 DEF EntryInv, EntryOK, Running
<1>5. ASSUME NEW p \in Pids, OnExit(p) PROVE EntryOK(id)'
  <2>1. owner[p] \in Ids /\ due' = due
    BY <1>5 DEF OnExit, TypeOK
  <2>2. PICK status : handle_exit(owner[p], status)
    BY <1>5 DEF OnExit
  <2>3. running' = [running EXCEPT ![owner[p]] = NoRun]
    BY <2>1, <2>2 DEF handle_exit, jobs, TypeOK
  <2>4. CASE id = owner[p]
    BY <2>1, <2>3, <2>4 DEF EntryOK, Running, TypeOK
  <2>5. CASE id # owner[p]
    <3>1. running'[id] = running[id]
      BY <2>1, <2>3, <2>5 DEF TypeOK
    <3>2. Processes(id)' = Processes(id)
      BY <1>5, <2>5, SchedulerAssumption DEF OnExit, Processes, TypeOK
    <3> QED
      BY <2>1, <3>1, <3>2 DEF EntryInv, EntryOK, Running
  <2> QED
    BY <2>4, <2>5
<1>6. ASSUME NEW job \in Ids, handle_timeout(job) PROVE EntryOK(id)'
  <2>1. CASE running[job] = NoRun
    <3>1. running' = running /\ Processes(id)' = Processes(id)
      BY <1>6, <2>1 DEF handle_timeout, jobs, procs, Processes
    <3>2. id # job => due'[id] = due[id]
      BY <1>6 DEF handle_timeout, TypeOK
    <3> QED
      BY <2>1, <3>1, <3>2 DEF EntryInv, EntryOK, Running
  <2>2. CASE running[job] # NoRun
    <3>1. running' = [running EXCEPT ![job] = NoRun] /\ terminate(running[job].pid)
      BY <1>6, <2>2 DEF handle_timeout
    <3>2. CASE id = job
      BY <3>1, <3>2 DEF EntryOK, Running, TypeOK
    <3>3. CASE id # job
      <4>1. running'[id] = running[id] /\ due'[id] = due[id]
        BY <1>6, <3>1, <3>3 DEF handle_timeout, TypeOK
      <4>2. running[job].pid \in Pids => owner[running[job].pid] = job
        BY <2>2, NoPidIsNoPid DEF EntryInv, EntryOK, Running, Processes
      <4>3. Processes(id)' = Processes(id)
        BY <3>1, <3>3, <4>2 DEF terminate, Processes
      <4> QED
        BY <4>1, <4>3 DEF EntryInv, EntryOK, Running
    <3> QED
      BY <3>2, <3>3
  <2> QED
    BY <2>1, <2>2
<1>7. CASE run \/ Stop \/ (\E job \in Ids, lane \in Lanes : Submit(job, lane)) \/ UNCHANGED vars
  BY <1>1, <1>7 DEF run, Stop, Submit, vars, jobs, procs
<1> QED
  BY <1>2, <1>3, <1>4, <1>5, <1>6, <1>7 DEF Next

LEMMA EntryInvariant == Spec => []EntryInv
<1>1. Init => EntryInv
  BY DEF Init, EntryInv, EntryOK, Running
<1>2. TypeOK /\ EntryInv /\ [Next]_vars => EntryInv'
  BY EntryNext
<1> QED
  BY <1>1, <1>2, TypeCorrect, PTL DEF Spec

(***************************************************************************)
(* Every lane that is taken can still be given back, except by a run in    *)
(* the slow lane whose spawn failed: Spec => []EntryCanBeRemoved, for any  *)
(* use of ids and any order of completions.                                *)
(***************************************************************************)
THEOREM EntriesCanBeRemoved == Spec => []EntryCanBeRemoved
<1>1. TypeOK /\ EntryInv => EntryCanBeRemoved
  <2> SUFFICES ASSUME TypeOK, EntryInv, NEW id \in Ids, Running(id)
               PROVE  \/ CallbackPending(id, running[id].pid)
                      \/ running[id].timer = "armed"
                      \/ running[id].timer = "due" /\ due[id] > 0
                      \/ running[id].pid = NoPid /\ running[id].lane = SLOW
    BY DEF EntryCanBeRemoved
  <2>1. running[id] \in Runs
    BY DEF Running, TypeOK
  <2> QED
    BY <2>1 DEF EntryInv, EntryOK, Runs, Lanes, Processes, CallbackPending
<1> QED
  BY <1>1, TypeCorrect, EntryInvariant, PTL

-----------------------------------------------------------------------------
(***************************************************************************)
(* Every job id is submitted at most once (UniqueIds).  Nothing else is    *)
(* restricted: children hang or die at any moment, spawning fails, exit    *)
(* callbacks and deadline completions come as late as they like.           *)
(***************************************************************************)
\* What on_exit reports of a child that was killed is no normal exit.
UniqueIds ==
    /\ MaxSubmits = 1
    /\ \A status \in LostStatuses : ~WIFEXITED(status)

(***************************************************************************)
(* The inductive invariant.  What handle_exit and handle_timeout rely on,  *)
(* and nowhere test, is that an entry of running_ belongs to the process   *)
(* whose callback runs (Own) and that a deadline that is past cancelling   *)
(* belongs to the present run or to a job that is gone (Deadlines).        *)
(***************************************************************************)
Distinct == \A i, j \in DOMAIN pq : pq[i].id = pq[j].id => i = j

Untouched(id) ==
    ~Running(id) /\ Processes(id) = {} /\ due[id] = 0 /\ id \notin sink

Places(id) ==
    /\ submitted[id] = 0 => ~Queued(id) /\ Untouched(id)
    /\ Queued(id) => Untouched(id)
    /\ id \in sink => ~Running(id) /\ Processes(id) = {}

Own(id) ==
    /\ \A p, q \in Processes(id) : p = q
    /\ Running(id) => \A p \in Processes(id) : p = running[id].pid

Deadlines(id) ==
    /\ due[id] <= 1
    /\ Running(id) =>
          /\ due[id] > 0 => running[id].timer = "due"
          /\ running[id].timer # "none" => running[id].lane = FAST

JobInv(id) == Places(id) /\ Own(id) /\ Deadlines(id)

UniqueInv == Distinct /\ \A id \in Ids : JobInv(id)

-----------------------------------------------------------------------------
\* What push does to the queue.
LEMMA QueueAfterPush ==
    ASSUME TypeOK, NEW e \in PendingJobs, pq' = Append(pq, e)
    PROVE  /\ \A id : Queued(id)' <=> Queued(id) \/ id = e.id
           /\ Distinct /\ ~Queued(e.id) => Distinct'
<1>1. pq \in Seq(PendingJobs)
  BY DEF TypeOK
<1>2. /\ DOMAIN pq = 1..Len(pq) /\ Len(pq) \in Nat /\ DOMAIN pq' = 1..(Len(pq) + 1)
      /\ \A i \in 1..Len(pq) : pq'[i] = pq[i]
      /\ pq'[Len(pq) + 1] = e
  BY <1>1
<1>3. \A id : Queued(id)' <=> Queued(id) \/ id = e.id
  BY <1>2 DEF Queued
<1>4. Distinct /\ ~Queued(e.id) => Distinct'
  BY <1>2 DEF Queued, Distinct
<1> QED
  BY <1>3, <1>4

\* What pop does to the queue.
LEMMA QueueAfterPop ==
    ASSUME TypeOK, Distinct, pq # << >>, pq' = Tail(pq)
    PROVE  /\ Queued(Head(pq).id)
           /\ \A id : Queued(id)' <=> Queued(id) /\ id # Head(pq).id
           /\ Distinct'
<1>1. pq \in Seq(PendingJobs)
  BY DEF TypeOK
<1>2. /\ DOMAIN pq = 1..Len(pq) /\ Len(pq) \in Nat \ {0}
      /\ DOMAIN pq' = 1..(Len(pq) - 1)
      /\ \A i \in 1..(Len(pq) - 1) : pq'[i] = pq[i + 1]
      /\ Head(pq) = pq[1]
  BY <1>1
<1>3. Queued(Head(pq).id)
  BY <1>2 DEF Queued
<1>4. Distinct'
  BY <1>2 DEF Distinct
<1>5. ASSUME NEW id PROVE Queued(id)' <=> Queued(id) /\ id # Head(pq).id
  <2>1. ASSUME Queued(id)' PROVE Queued(id) /\ id # Head(pq).id
    BY <1>2, <2>1 DEF Queued, Distinct
  <2>2. ASSUME Queued(id), id # Head(pq).id PROVE Queued(id)'
    <3>1. PICK i \in 1..Len(pq) : pq[i].id = id
      BY <1>2, <2>2 DEF Queued
    <3>2. i # 1
      BY <1>2, <2>2, <3>1
    <3>3. i - 1 \in 1..(Len(pq) - 1) /\ pq'[i - 1] = pq[(i - 1) + 1]
      BY <1>2, <3>1, <3>2
    <3>4. pq'[i - 1].id = id
      BY <3>1, <3>3
    <3> QED
      BY <1>2, <3>3, <3>4 DEF Queued
  <2> QED
    BY <2>1, <2>2
<1> QED
  BY <1>3, <1>4, <1>5

\* A job of which nothing changes keeps its invariant.
LEMMA Frame ==
    ASSUME NEW id \in Ids, JobInv(id),
           Queued(id)' <=> Queued(id), running'[id] = running[id],
           Processes(id)' = Processes(id), due'[id] = due[id],
           id \in sink' <=> id \in sink, submitted'[id] = submitted[id]
    PROVE  JobInv(id)'
BY DEF JobInv, Places, Untouched, Own, Deadlines, Running

-----------------------------------------------------------------------------
LEMMA UniqueSubmit ==
    ASSUME TypeOK, UniqueInv, UniqueIds,
           NEW job \in Ids, NEW lane \in Lanes, Submit(job, lane)
    PROVE  UniqueInv'
<1> DEFINE e == [id |-> job, lane |-> lane]
<1>1. e \in PendingJobs /\ e.id = job /\ pq' = Append(pq, e)
  BY DEF PendingJobs, Submit, push
<1>2. submitted[job] = 0
  BY DEF Submit, UniqueIds, TypeOK
<1>3. ~Queued(job) /\ Untouched(job)
  BY <1>2 DEF UniqueInv, JobInv, Places
<1>4. (\A id : Queued(id)' <=> Queued(id) \/ id = job) /\ Distinct'
  BY <1>1, <1>3, QueueAfterPush DEF UniqueInv
<1>5. /\ running' = running /\ due' = due /\ sink' = sink
      /\ \A id : Processes(id)' = Processes(id)
  BY DEF Submit, procs, Processes
<1>6. ASSUME NEW id \in Ids PROVE JobInv(id)'
  <2>1. CASE id = job
    BY <1>2, <1>3, <1>4, <1>5, <2>1
       DEF JobInv, Places, Untouched, Own, Deadlines, Running, Submit, TypeOK
  <2>2. CASE id # job
    <3>1. submitted'[id] = submitted[id]
      BY <2>2 DEF Submit, TypeOK
    <3> QED
      BY <1>4, <1>5, <2>2, <3>1, Frame DEF UniqueInv
  <2> QED
    BY <2>1, <2>2
<1> QED
  BY <1>4, <1>6 DEF UniqueInv

LEMMA UniqueRunLoop ==
    ASSUME TypeOK, UniqueInv, run_loop, ~stop
    PROVE  UniqueInv'
<1>1. PICK job \in Ids, lane \in Lanes, pid \in Pids \cup {NoPid} :
         /\ job = Head(pq).id
         /\ spawn(job, pid)
         /\ running' = [running EXCEPT ![job] =
               IF @ # NoRun THEN @
               ELSE [lane |-> lane, pid |-> pid, timer |-> Deadline(lane)]]
  <2>1. Head(pq) \in PendingJobs
    BY DEF run_loop, TypeOK
  <2>2. Head(pq).id \in Ids /\ Head(pq).lane \in Lanes
    BY <2>1 DEF PendingJobs
  <2>3. ActualLane(Head(pq).lane) \in Lanes
    BY <2>2, ActualLaneType
  <2> QED
    BY <2>2, <2>3 DEF run_loop, schedule
<1>2. pq # << >> /\ pq' = Tail(pq)
  BY DEF run_loop
<1>3. Queued(job) /\ (\A id : Queued(id)' <=> Queued(id) /\ id # job) /\ Distinct'
  BY <1>1, <1>2, QueueAfterPop DEF UniqueInv
<1>4. Untouched(job) /\ submitted[job] # 0
  BY <1>3 DEF UniqueInv, JobInv, Places
<1>5. due' = due /\ sink' = sink /\ submitted' = submitted
  BY DEF run_loop
<1>6. /\ \A id \in Ids \ {job} : Processes(id)' = Processes(id)
      /\ \A p \in Processes(job)' : p = pid
  BY <1>1, <1>4 DEF spawn, procs, Processes, Untouched, TypeOK
<1>7. JobInv(job)'
  <2>1. running'[job] = [lane |-> lane, pid |-> pid, timer |-> Deadline(lane)]
    BY <1>1, <1>4 DEF Untouched, Running, TypeOK
  <2>2. Places(job)'
    BY <1>3, <1>4, <1>5 DEF Places, Untouched
  <2>3. Own(job)'
    BY <1>6, <2>1 DEF Own
  <2>4. Deadlines(job)'
    BY <1>4, <1>5, <2>1 DEF Deadlines, Deadline, Untouched, Lanes, FAST, SLOW, TypeOK
  <2> QED
    BY <2>2, <2>3, <2>4 DEF JobInv
<1>8. ASSUME NEW id \in Ids \ {job} PROVE JobInv(id)'
  <2>1. running'[id] = running[id]
    BY <1>1 DEF TypeOK
  <2> QED
    BY <1>3, <1>5, <1>6, <2>1, Frame DEF UniqueInv
<1> QED
  BY <1>3, <1>7, <1>8 DEF UniqueInv

LEMMA UniqueExpire ==
    ASSUME TypeOK, UniqueInv, NEW job \in Ids, Expire(job)
    PROVE  UniqueInv'
<1>1. /\ Distinct' /\ sink' = sink /\ submitted' = submitted
      /\ \A id : Queued(id)' <=> Queued(id)
      /\ \A id : Processes(id)' = Processes(id)
  BY DEF UniqueInv, Distinct, Expire, Queued, Processes, procs
<1>2. running[job] \in Runs /\ running[job].timer = "armed"
  BY DEF Expire, TypeOK, NoRun
<1>3. /\ running'[job].timer = "due" /\ running'[job].lane = running[job].lane
      /\ running'[job].pid = running[job].pid /\ running'[job] # NoRun
  BY <1>2 DEF Expire, TypeOK, Runs, NoRun
<1>4. Running(job)
  BY <1>2 DEF Running, NoRun
<1>5. JobInv(job)'
  <2>1. ~Queued(job) /\ job \notin sink /\ submitted[job] # 0
    BY <1>4 DEF UniqueInv, JobInv, Places, Untouched
  <2>2. Places(job)'
    BY <1>1, <2>1 DEF Places
  <2>3. Own(job)'
    BY <1>1, <1>3, <1>4 DEF Own, UniqueInv, JobInv
  <2>4. Deadlines(job)'
    <3>1. due[job] = 0 /\ running[job].lane = FAST
      BY <1>2, <1>4 DEF Deadlines, UniqueInv, JobInv, TypeOK
    <3>2. due'[job] = 1
      BY <3>1 DEF Expire, TypeOK
    <3> QED
      BY <1>3, <3>1, <3>2 DEF Deadlines
  <2> QED
    BY <2>2, <2>3, <2>4 DEF JobInv
<1>6. ASSUME NEW id \in Ids \ {job} PROVE JobInv(id)'
  <2>1. running'[id] = running[id] /\ due'[id] = due[id]
    BY DEF Expire, TypeOK
  <2> QED
    BY <1>1, <2>1, Frame DEF UniqueInv
<1> QED
  BY <1>1, <1>5, <1>6 DEF UniqueInv

LEMMA UniqueTimeout ==
    ASSUME TypeOK, EntryInv, UniqueInv, NEW job \in Ids, handle_timeout(job)
    PROVE  UniqueInv'
<1>1. submitted' = submitted /\ sink' = sink /\ due[job] > 0
  BY DEF handle_timeout, jobs
<1>2. /\ due'[job] = 0
      /\ \A id \in Ids \ {job} : due'[id] = due[id]
  BY DEF handle_timeout, TypeOK, UniqueInv, JobInv, Deadlines
<1>3. submitted[job] # 0 /\ ~Queued(job)
  BY <1>1 DEF UniqueInv, JobInv, Places, Untouched, TypeOK
<1>4. CASE running[job] = NoRun
  <2>1. /\ Distinct' /\ running' = running
        /\ \A id : Queued(id)' <=> Queued(id)
        /\ \A id : Processes(id)' = Processes(id)
    BY <1>4 DEF UniqueInv, Distinct, handle_timeout, Queued, Processes, procs, jobs
  <2>2. JobInv(job)'
    BY <1>1, <1>2, <1>3, <1>4, <2>1
       DEF UniqueInv, JobInv, Places, Own, Deadlines, Running
  <2>3. ASSUME NEW id \in Ids \ {job} PROVE JobInv(id)'
    BY <1>1, <1>2, <2>1, <2>3, Frame DEF UniqueInv
  <2> QED
    BY <2>1, <2>2, <2>3 DEF UniqueInv
<1>5. CASE running[job] # NoRun
  <2>1. requeue(job) \in PendingJobs /\ requeue(job).id = job /\ pq' = Append(pq, requeue(job))
    BY <1>5 DEF requeue, PendingJobs, Lanes, handle_timeout, push
  <2>2. job \notin sink
    BY <1>5 DEF UniqueInv, JobInv, Places, Running
  <2>3. (\A id : Queued(id)' <=> Queued(id) \/ id = job) /\ Distinct'
    BY <1>3, <2>1, QueueAfterPush DEF UniqueInv
  <2>4. running' = [running EXCEPT ![job] = NoRun] /\ terminate(running[job].pid)
    BY <1>5 DEF handle_timeout
  <2>5. \A p \in Processes(job) : p = running[job].pid
    BY <1>5 DEF UniqueInv, JobInv, Own, Running
  <2>6. Processes(job)' = {}
    BY <2>4, <2>5 DEF terminate, Processes
  <2>7. JobInv(job)'
    BY <1>1, <1>2, <1>3, <2>2, <2>3, <2>4, <2>6
       DEF JobInv, Places, Untouched, Own, Deadlines, Running, TypeOK
  <2>8. ASSUME NEW id \in Ids \ {job} PROVE JobInv(id)'
    <3>1. running'[id] = running[id]
      BY <2>4 DEF TypeOK
    <3>2. running[job].pid \in Pids => owner[running[job].pid] = job
      BY <1>5, NoPidIsNoPid DEF EntryInv, EntryOK, Running, Processes
    <3>3. Processes(id)' = Processes(id)
      BY <2>4, <3>2 DEF terminate, Processes
    <3> QED
      BY <1>1, <1>2, <2>3, <3>1, <3>3, Frame DEF UniqueInv
  <2> QED
    BY <2>3, <2>7, <2>8 DEF UniqueInv
<1> QED
  BY <1>4, <1>5

LEMMA UniqueOnExit ==
    ASSUME TypeOK, UniqueInv, UniqueIds, NEW p \in Pids, OnExit(p)
    PROVE  UniqueInv'
<1>1. PICK job \in Ids : job = owner[p]
  BY DEF OnExit, TypeOK
<1>2. PICK status :
         /\ handle_exit(job, status)
         /\ child[p] = "exited" \/ (child[p] = "reaped" /\ ~WIFEXITED(status))
  BY <1>1 DEF OnExit, UniqueIds
<1>3. due' = due /\ submitted' = submitted
  BY DEF OnExit
<1>4. /\ running' = [running EXCEPT ![job] = NoRun] /\ pq' = pq
      /\ sink' = sink \/ (sink' = sink \cup {job} /\ Running(job) /\ WIFEXITED(status))
  BY <1>2 DEF handle_exit, store, jobs, TypeOK, Running
<1>5. Distinct' /\ \A id : Queued(id)' <=> Queued(id)
  BY <1>4 DEF UniqueInv, Distinct, Queued
<1>6. /\ Processes(job)' = Processes(job) \ {p}
      /\ \A id \in Ids \ {job} : Processes(id)' = Processes(id)
  BY <1>1, SchedulerAssumption DEF OnExit, Processes, TypeOK
<1>7. JobInv(job)'
  <2>1. running'[job] = NoRun
    BY <1>4 DEF TypeOK
  <2>2. CASE sink' = sink
    BY <1>3, <1>5, <1>6, <2>1, <2>2
       DEF UniqueInv, JobInv, Places, Untouched, Own, Deadlines, Running
  <2>3. CASE sink' = sink \cup {job} /\ Running(job) /\ WIFEXITED(status)
    <3>1. p \in Processes(job)
      BY <1>1, <1>2, <2>3 DEF Processes
    <3>2. Processes(job)' = {}
      BY <1>6, <3>1 DEF UniqueInv, JobInv, Own
    <3>3. ~Queued(job) /\ submitted[job] # 0
      BY <2>3 DEF UniqueInv, JobInv, Places, Untouched
    <3> QED
      BY <1>3, <1>5, <2>1, <3>2, <3>3
         DEF UniqueInv, JobInv, Places, Own, Deadlines, Running
  <2> QED
    BY <1>4, <2>2, <2>3
<1>8. ASSUME NEW id \in Ids \ {job} PROVE JobInv(id)'
  <2>1. running'[id] = running[id] /\ (id \in sink' <=> id \in sink)
    BY <1>4 DEF TypeOK
  <2> QED
    BY <1>3, <1>5, <1>6, <2>1, Frame DEF UniqueInv
<1> QED
  BY <1>5, <1>7, <1>8 DEF UniqueInv

LEMMA UniqueFrame ==
    ASSUME UniqueInv, UNCHANGED <<pq, running, due, sink, submitted>>,
           \A id \in Ids : Processes(id)' = Processes(id)
    PROVE  UniqueInv'
<1>1. Distinct' /\ \A id : Queued(id)' <=> Queued(id)
  BY DEF UniqueInv, Distinct, Queued
<1>2. ASSUME NEW id \in Ids PROVE JobInv(id)'
  BY <1>1, <1>2, Frame DEF UniqueInv
<1> QED
  BY <1>1, <1>2 DEF UniqueInv

LEMMA UniqueNext ==
    ASSUME TypeOK, EntryInv, UniqueInv, UniqueIds, [Next]_vars
    PROVE  UniqueInv'
<1>1. CASE run \/ Stop \/ UNCHANGED vars
  BY <1>1, UniqueFrame DEF run, Stop, vars, jobs, procs, Processes
<1>2. ASSUME run_loop, stop PROVE UniqueInv'
  BY <1>2, UniqueFrame DEF run_loop, jobs, procs, Processes
<1>3. ASSUME NEW p \in Pids, ChildExit(p) PROVE UniqueInv'
  <2>1. \A id \in Ids : Processes(id)' = Processes(id)
    BY <1>3 DEF ChildExit, Processes, TypeOK
  <2> QED
    BY <1>3, <2>1, UniqueFrame DEF ChildExit, jobs
<1> QED
  BY <1>1, <1>2, <1>3, UniqueSubmit, UniqueRunLoop, UniqueExpire, UniqueTimeout, UniqueOnExit
     DEF Next

LEMMA UniqueInvariant == UniqueIds => (Spec => []UniqueInv)
<1> SUFFICES ASSUME UniqueIds PROVE Spec => []UniqueInv
  OBVIOUS
<1>1. Init => UniqueInv
  BY DEF Init, UniqueInv, Distinct, JobInv, Places, Untouched, Own, Deadlines,
         Running, Queued, Processes
<1>2. TypeOK /\ EntryInv /\ UniqueInv /\ [Next]_vars => UniqueInv'
  BY UniqueNext
<1> QED
  BY <1>1, <1>2, TypeCorrect, EntryInvariant, PTL DEF Spec

-----------------------------------------------------------------------------
(***************************************************************************)
(* With unique ids a job never has two processes, and none while it waits  *)
(* in the queue: UniqueIds => (Spec => []OneProcessPerJob).                *)
(***************************************************************************)
THEOREM JobsHaveOneProcess == UniqueIds => (Spec => []OneProcessPerJob)
<1>1. UniqueInv => OneProcessPerJob
  BY DEF UniqueInv, JobInv, Places, Untouched, Own, OneProcessPerJob
<1> QED
  BY <1>1, UniqueInvariant, PTL

(***************************************************************************)
(* With unique ids a job is queued at most once and is never in two of the *)
(* queue, running_ and the storage: UniqueIds => (Spec => []OnePlacePerJob). *)
(***************************************************************************)
THEOREM JobsHaveOnePlace == UniqueIds => (Spec => []OnePlacePerJob)
<1>1. UniqueInv => OnePlacePerJob
  BY DEF UniqueInv, Distinct, JobInv, Places, Untouched, OnePlacePerJob
<1> QED
  BY <1>1, UniqueInvariant, PTL

(***************************************************************************)
(* With unique ids handle_timeout never meets a run in the slow lane, as   *)
(* its comment says: UniqueIds => (Spec => []NoSlowTimeout).               *)
(***************************************************************************)
THEOREM SlowRunsNeverTimeOut == UniqueIds => (Spec => []NoSlowTimeout)
<1>1. UniqueInv => NoSlowTimeout
  BY DEF UniqueInv, JobInv, Deadlines, NoSlowTimeout
<1> QED
  BY <1>1, UniqueInvariant, PTL

-----------------------------------------------------------------------------
(***************************************************************************)
(* Lane accounting.  LaneAccounting is inductive next to LaneCapacity and  *)
(* UniqueInv: the job that schedule takes a lane for has no entry yet, so  *)
(* that emplace adds one.                                                  *)
(***************************************************************************)
LEMMA AccountErase ==
    ASSUME TypeOK, LaneAccounting, NEW id \in Ids, running[id] # NoRun,
           Release(running[id].lane), running' = [running EXCEPT ![id] = NoRun]
    PROVE  LaneAccounting'
<1>1. PICK lane \in Lanes : lane = running[id].lane
  BY NoRunIsNoRun DEF TypeOK
<1>2. \A l \in Lanes : InLane(l)' = IF l = lane THEN InLane(l) \ {id} ELSE InLane(l)
  BY <1>1 DEF InLane, TypeOK, NoRun, Lanes, FAST, SLOW
<1>3. /\ Cardinality(InLane(lane) \ {id}) = Cardinality(InLane(lane)) - 1
      /\ Cardinality(InLane(lane) \ {id}) \in Nat
  <2>1. id \in InLane(lane)
    BY <1>1 DEF InLane
  <2>2. /\ IsFiniteSet(InLane(lane) \ {id})
        /\ Cardinality(InLane(lane) \ {id}) = Cardinality(InLane(lane)) - 1
    BY <2>1, LanesFinite, FS_RemoveElement
  <2> QED
    BY <2>2, FS_CardinalityType
<1>4. Cardinality(InLane(lane)) # 0
  BY <1>3, LanesFinite
<1>5. FAST \in Lanes /\ SLOW \in Lanes /\ FAST # SLOW
  BY DEF Lanes, FAST, SLOW
<1>6. CASE lane = FAST
  <2>1. running_fast' = Cardinality(InLane(FAST)) - 1 /\ running_slow' = running_slow
    BY <1>1, <1>4, <1>5, <1>6 DEF LaneAccounting, Release, Dec
  <2> QED
    BY <1>2, <1>3, <1>5, <1>6, <2>1 DEF LaneAccounting
<1>7. CASE lane = SLOW
  <2>1. running_slow' = Cardinality(InLane(SLOW)) - 1 /\ running_fast' = running_fast
    BY <1>1, <1>4, <1>5, <1>7 DEF LaneAccounting, Release, Dec
  <2> QED
    BY <1>2, <1>3, <1>5, <1>7, <2>1 DEF LaneAccounting
<1> QED
  BY <1>1, <1>6, <1>7 DEF Lanes

\* What a pass of run_loop does that schedules a job.
LEMMA Scheduled ==
    ASSUME TypeOK, LaneCapacity, UniqueInv, run_loop, ~stop
    PROVE  LET job  == Head(pq).id
               lane == ActualLane(Head(pq).lane)
           IN  /\ job \in Ids /\ Queued(job) /\ Untouched(job)
               /\ \A l \in Lanes :
                     InLane(l)' = IF l = lane THEN InLane(l) \cup {job} ELSE InLane(l)
               /\ \A l \in Lanes : job \notin InLane(l)
               /\ \/ lane = FAST /\ running_fast' = running_fast + 1 /\ running_slow' = running_slow
                  \/ lane = SLOW /\ running_slow' = running_slow + 1 /\ running_fast' = running_fast
               /\ \A id \in Ids : Running(id)' <=> Running(id) \/ id = job
<1> DEFINE job  == Head(pq).id
           lane == ActualLane(Head(pq).lane)
<1>1. Head(pq) \in PendingJobs /\ pq # << >> /\ pq' = Tail(pq)
  BY DEF run_loop, TypeOK
<1>2. job \in Ids /\ Head(pq).lane \in Lanes /\ lane \in Lanes
  BY <1>1, ActualLaneType DEF PendingJobs
<1>3. Queued(job) /\ Untouched(job)
  BY <1>1, <1>2, QueueAfterPop DEF UniqueInv, JobInv, Places
<1>4. running[job] = NoRun
  BY <1>3 DEF Untouched, Running
<1>5. PICK pid \in Pids \cup {NoPid} :
         running' = [running EXCEPT ![job] =
             IF @ # NoRun THEN @
             ELSE [lane |-> lane, pid |-> pid, timer |-> Deadline(lane)]]
  BY DEF run_loop, schedule
<1>6. running' = [running EXCEPT ![job] =
                     [lane |-> lane, pid |-> pid, timer |-> Deadline(lane)]]
  BY <1>4, <1>5
<1>7. /\ Acquire(lane) /\ schedulable(Head(pq).lane)
  BY DEF run_loop, schedule
<1>8. \/ lane = FAST /\ running_fast' = running_fast + 1 /\ running_slow' = running_slow
      \/ lane = SLOW /\ running_slow' = running_slow + 1 /\ running_fast' = running_fast
  BY <1>2, <1>7, AcquireKeepsLanes
<1> HIDE DEF job, lane
<1>9. \A l \in Lanes : InLane(l)' = IF l = lane THEN InLane(l) \cup {job} ELSE InLane(l)
  BY <1>2, <1>4, <1>6 DEF InLane, TypeOK, NoRun, Lanes, FAST, SLOW
<1>10. \A l \in Lanes : job \notin InLane(l)
  BY <1>4 DEF InLane, NoRun, Lanes, FAST, SLOW
<1>11. \A id \in Ids : Running(id)' <=> Running(id) \/ id = job
  BY <1>2, <1>6 DEF Running, TypeOK, NoRun, Lanes, FAST, SLOW
<1> QED
  BY <1>2, <1>3, <1>8, <1>9, <1>10, <1>11 DEF job, lane

LEMMA AccountRunLoop ==
    ASSUME TypeOK, LaneCapacity, UniqueInv, LaneAccounting, run_loop, ~stop
    PROVE  LaneAccounting'
<1> DEFINE job  == Head(pq).id
           lane == ActualLane(Head(pq).lane)
<1>1. /\ \A l \in Lanes : InLane(l)' = IF l = lane THEN InLane(l) \cup {job} ELSE InLane(l)
      /\ \A l \in Lanes : job \notin InLane(l)
      /\ \/ lane = FAST /\ running_fast' = running_fast + 1 /\ running_slow' = running_slow
         \/ lane = SLOW /\ running_slow' = running_slow + 1 /\ running_fast' = running_fast
  BY Scheduled
<1> HIDE DEF job, lane
<1>2. FAST \in Lanes /\ SLOW \in Lanes /\ FAST # SLOW
  BY DEF Lanes, FAST, SLOW
<1>3. \A l \in Lanes : Cardinality(InLane(l) \cup {job}) = Cardinality(InLane(l)) + 1
  BY <1>1, LanesFinite, FS_AddElement
<1> QED
  BY <1>1, <1>2, <1>3 DEF LaneAccounting

LEMMA AccountNext ==
    ASSUME TypeOK, LaneCapacity, UniqueInv, LaneAccounting, [Next]_vars
    PROVE  LaneAccounting'
<1>1. CASE UNCHANGED <<running, running_fast, running_slow>>
  BY <1>1 DEF LaneAccounting, InLane
<1>2. ASSUME run_loop PROVE LaneAccounting'
  <2>1. CASE stop
    BY <1>1, <1>2, <2>1 DEF run_loop, jobs
  <2> QED
    BY <1>2, <2>1, AccountRunLoop
<1>3. ASSUME NEW id \in Ids, Expire(id) PROVE LaneAccounting'
  <2>1. \A j \in Ids : running'[j].lane = running[j].lane
    BY <1>3 DEF Expire, TypeOK, Runs, NoRun
  <2>2. \A l \in Lanes : InLane(l)' = InLane(l)
    BY <2>1 DEF InLane
  <2> QED
    BY <1>3, <2>2 DEF Expire, LaneAccounting, Lanes
<1>4. ASSUME NEW id \in Ids, handle_timeout(id) PROVE LaneAccounting'
  <2>1. CASE running[id] = NoRun
    BY <1>1, <1>4, <2>1 DEF handle_timeout, jobs
  <2>2. CASE running[id] # NoRun
    BY <1>4, <2>2, AccountErase DEF handle_timeout
  <2> QED
    BY <2>1, <2>2
<1>5. ASSUME NEW p \in Pids, OnExit(p) PROVE LaneAccounting'
  <2>1. owner[p] \in Ids
    BY <1>5 DEF OnExit, TypeOK
  <2>2. PICK status : handle_exit(owner[p], status)
    BY <1>5 DEF OnExit
  <2>3. CASE running[owner[p]] = NoRun
    BY <1>1, <2>2, <2>3 DEF handle_exit, jobs
  <2>4. CASE running[owner[p]] # NoRun
    BY <2>1, <2>2, <2>4, AccountErase DEF handle_exit
  <2> QED
    BY <2>3, <2>4
<1>6. CASE run \/ Stop \/ (\E id \in Ids, lane \in Lanes : Submit(id, lane))
           \/ (\E p \in Pids : ChildExit(p)) \/ UNCHANGED vars
  BY <1>1, <1>6 DEF run, Stop, Submit, ChildExit, vars, jobs
<1> QED
  BY <1>2, <1>3, <1>4, <1>5, <1>6 DEF Next

(***************************************************************************)
(* With unique ids running_fast_ and running_slow_ count the entries of    *)
(* running_ in each lane exactly: UniqueIds => (Spec => []LaneAccounting). *)
(***************************************************************************)
THEOREM LanesAreAccounted == UniqueIds => (Spec => []LaneAccounting)
<1> SUFFICES ASSUME UniqueIds PROVE Spec => []LaneAccounting
  OBVIOUS
<1>1. Init => LaneAccounting
  <2> SUFFICES ASSUME Init PROVE LaneAccounting
    OBVIOUS
  <2>1. InLane(FAST) = {} /\ InLane(SLOW) = {}
    BY DEF Init, InLane, NoRun, FAST, SLOW
  <2> QED
    BY <2>1, FS_EmptySet DEF Init, LaneAccounting
<1>2. TypeOK /\ LaneCapacity /\ UniqueInv /\ LaneAccounting /\ [Next]_vars => LaneAccounting'
  BY AccountNext
<1> QED
  BY <1>1, <1>2, TypeCorrect, LanesNeverOvercommitted, UniqueInvariant, PTL DEF Spec

-----------------------------------------------------------------------------
(***************************************************************************)
(* The scheduler implements JobLifecycle.  A step that changes the phase   *)
(* of no job is a stutter of the life cycle; the others change the phase   *)
(* of one job, the one they are about.                                     *)
(***************************************************************************)
LEMMA PhaseOf ==
    ASSUME UniqueInv, NEW id \in Ids
    PROVE  /\ Queued(id) => Phase(id) = "queued"
           /\ Running(id) => Phase(id) = "running"
           /\ Phase(id) = "running" => Running(id)
  BY DEF Phase, UniqueInv, JobInv, Places, Untouched

\* The phase after a step.
LEMMA NextPhase ==
    ASSUME NEW id \in Ids, submitted'[id] # 0
    PROVE  /\ Queued(id)' => Phase(id)' = "queued"
           /\ ~Queued(id)' /\ Running(id)' => Phase(id)' = "running"
           /\ ~Queued(id)' /\ ~Running(id)' => Phase(id)' \in {"finished", "dropped"}
  BY DEF Phase

LEMMA NewAtFirst ==
    ASSUME Init, NEW id \in Ids
    PROVE  Phase(id) = "new"
<1>1. submitted[id] = 0
  BY DEF Init
<1> QED
  BY <1>1 DEF Phase

LEMMA PhaseFrame ==
    ASSUME NEW id \in Ids, submitted'[id] = submitted[id], Queued(id)' <=> Queued(id),
           Running(id)' <=> Running(id), id \in sink' <=> id \in sink
    PROVE  Phase(id)' = Phase(id)
  BY DEF Phase

\* Only the job of the step changes its phase.
LEMMA OneMoves ==
    ASSUME NEW job \in Ids, \A id \in Ids \ {job} : Phase(id)' = Phase(id)
    PROVE  Lifecycle!Move(job, Phase(job), Phase(job)')
<1>1. Phases' = [Phases EXCEPT ![job] = Phase(job)']
  BY DEF Phases
<1>2. Phases[job] = Phase(job)
  BY DEF Phases
<1> QED
  BY <1>1, <1>2 DEF Lifecycle!Move

LEMMA NoneMoves ==
    ASSUME \A id \in Ids : Phase(id)' = Phase(id)
    PROVE  UNCHANGED Phases
  BY DEF Phases

LEMMA SubmitEnqueues ==
    ASSUME TypeOK, UniqueInv, UniqueIds,
           NEW job \in Ids, NEW lane \in Lanes, Submit(job, lane)
    PROVE  Lifecycle!Enqueue(job)
<1> DEFINE e == [id |-> job, lane |-> lane]
<1>1. e \in PendingJobs /\ e.id = job /\ pq' = Append(pq, e)
  BY DEF PendingJobs, Submit, push
<1>2. submitted[job] = 0 /\ submitted'[job] = 1
  BY DEF Submit, UniqueIds, TypeOK
<1>3. \A id \in Ids : Queued(id)' <=> Queued(id) \/ id = job
  <2> HIDE DEF e
  <2> QED
    BY <1>1, QueueAfterPush
<1>4. Phase(job) = "new" /\ Phase(job)' = "queued"
  <2>1. Phase(job) = "new"
    BY <1>2 DEF Phase
  <2>2. Phase(job)' = "queued"
    BY <1>2, <1>3, NextPhase
  <2> QED
    BY <2>1, <2>2
<1>5. ASSUME NEW id \in Ids \ {job} PROVE Phase(id)' = Phase(id)
  <2>1. submitted'[id] = submitted[id] /\ running' = running /\ sink' = sink
    BY <1>5 DEF Submit, TypeOK
  <2> QED
    BY <1>3, <1>5, <2>1, PhaseFrame DEF Running
<1> QED
  BY <1>4, <1>5, OneMoves DEF Lifecycle!Enqueue

\* schedulable leaves room in the life cycle too: no more jobs are in running_
\* than the counters say.
LEMMA RunLoopStarts ==
    ASSUME TypeOK, LaneCapacity, LaneAccounting, UniqueInv, run_loop, ~stop
    PROVE  \E job \in Ids : Lifecycle!Start(job)
<1>1. PICK job \in Ids :
         /\ job = Head(pq).id /\ Queued(job) /\ Untouched(job)
         /\ \A id \in Ids : Running(id)' <=> Running(id) \/ id = job
  BY Scheduled
<1>2. pq # << >> /\ pq' = Tail(pq) /\ sink' = sink /\ submitted' = submitted
      /\ schedulable(Head(pq).lane)
  BY DEF run_loop
<1>3. \A id : Queued(id)' <=> Queued(id) /\ id # job
  BY <1>1, <1>2, QueueAfterPop DEF UniqueInv
<1>4. Phase(job) = "queued" /\ Phase(job)' = "running"
  <2>1. submitted[job] # 0
    BY <1>1 DEF UniqueInv, JobInv, Places
  <2> QED
    BY <1>1, <1>2, <1>3, <2>1, PhaseOf, NextPhase
<1>5. \A id \in Ids \ {job} : Phase(id)' = Phase(id)
  BY <1>1, <1>2, <1>3, PhaseFrame
<1>6. Cardinality(Lifecycle!InPhase("running")) < TotalLane
  <2>1. Lifecycle!InPhase("running") = InLane(FAST) \cup InLane(SLOW)
    <3>1. \A id \in Ids : Phase(id) = "running" <=> Running(id)
      BY PhaseOf
    <3>2. \A id \in Ids : Running(id) <=> running[id].lane \in {FAST, SLOW}
      BY NoRunIsNoRun DEF Running, TypeOK, NoRun, Lanes, FAST, SLOW
    <3> QED
      BY <3>1, <3>2 DEF Lifecycle!InPhase, InLane, Phases
  <2>2. InLane(FAST) \cap InLane(SLOW) = {}
    BY DEF InLane, FAST, SLOW
  <2>3. Cardinality(InLane(FAST) \cup InLane(SLOW)) =
           Cardinality(InLane(FAST)) + Cardinality(InLane(SLOW))
           - Cardinality(InLane(FAST) \cap InLane(SLOW))
    BY LanesFinite, FS_Union
  <2>4. Cardinality(InLane(FAST) \cup InLane(SLOW)) = running_fast + running_slow
    <3>1. Cardinality(InLane(FAST) \cap InLane(SLOW)) = 0
      BY <2>2, FS_EmptySet
    <3> QED
      BY <2>3, <3>1, LanesFinite DEF LaneAccounting
  <2>5. running_fast + running_slow < TotalLane
    <3>1. running_fast \in Nat /\ running_slow \in Nat /\ SizeMax \in Nat /\ TotalLane \in Nat
          /\ SizeMax >= TotalLane
      BY SchedulerAssumption DEF TypeOK
    <3> QED
      BY <1>2, <3>1, LaneSizes DEF schedulable, Plus, LaneCapacity
  <2> QED
    BY <2>1, <2>4, <2>5
<1>7. Lifecycle!Move(job, "queued", "running")
  BY <1>4, <1>5, OneMoves
<1>8. Lifecycle!Start(job)
  <2>1. Lifecycle!Cardinality(Lifecycle!InPhase("running"))
           = Cardinality(Lifecycle!InPhase("running"))
    BY DEF Lifecycle!Cardinality, Cardinality
  <2> QED
    BY <1>6, <1>7, <2>1 DEF Lifecycle!Start
<1> QED
  BY <1>8

LEMMA TimeoutRequeues ==
    ASSUME TypeOK, UniqueInv, NEW job \in Ids, handle_timeout(job), Running(job)
    PROVE  Lifecycle!Requeue(job)
<1>1. requeue(job) \in PendingJobs /\ requeue(job).id = job /\ pq' = Append(pq, requeue(job))
  BY DEF Running, requeue, PendingJobs, Lanes, handle_timeout, push
<1>2. /\ running' = [running EXCEPT ![job] = NoRun]
      /\ sink' = sink /\ submitted' = submitted
  BY DEF handle_timeout, Running
<1>3. \A id : Queued(id)' <=> Queued(id) \/ id = job
  BY <1>1, QueueAfterPush
<1>4. submitted[job] # 0 /\ Phase(job) = "running"
  BY PhaseOf DEF UniqueInv, JobInv, Places, Untouched
<1>5. Phase(job)' = "queued"
  BY <1>2, <1>3, <1>4, NextPhase
<1>6. ASSUME NEW id \in Ids \ {job} PROVE Phase(id)' = Phase(id)
  <2>1. Running(id)' <=> Running(id)
    BY <1>2 DEF Running, TypeOK
  <2> QED
    BY <1>2, <1>3, <2>1, PhaseFrame
<1> QED
  BY <1>4, <1>5, <1>6, OneMoves DEF Lifecycle!Requeue

LEMMA ExitEnds ==
    ASSUME TypeOK, UniqueInv, NEW p \in Pids, OnExit(p), Running(owner[p])
    PROVE  \E job \in Ids : Lifecycle!Finish(job) \/ Lifecycle!Drop(job)
<1>1. PICK job \in Ids : job = owner[p]
  BY DEF OnExit, TypeOK
<1>2. PICK status : handle_exit(job, status)
  BY <1>1 DEF OnExit
<1>3. /\ submitted' = submitted /\ running' = [running EXCEPT ![job] = NoRun] /\ pq' = pq
      /\ sink' = sink \/ sink' = sink \cup {job}
  BY <1>1, <1>2 DEF OnExit, handle_exit, store, Running
<1>4. \A id : Queued(id)' <=> Queued(id)
  BY <1>3 DEF Queued
<1>5. Phase(job) = "running" /\ submitted[job] # 0 /\ ~Queued(job)
  BY <1>1, PhaseOf DEF UniqueInv, JobInv, Places, Untouched
<1>6. ~Running(job)'
  BY <1>3 DEF Running, TypeOK
<1>7. Phase(job)' \in {"finished", "dropped"}
  BY <1>3, <1>4, <1>5, <1>6, NextPhase
<1>8. ASSUME NEW id \in Ids \ {job} PROVE Phase(id)' = Phase(id)
  <2>1. (Running(id)' <=> Running(id)) /\ (id \in sink' <=> id \in sink)
    BY <1>3 DEF Running, TypeOK
  <2> QED
    BY <1>3, <1>4, <2>1, PhaseFrame
<1> QED
  BY <1>5, <1>7, <1>8, OneMoves DEF Lifecycle!Finish, Lifecycle!Drop

LEMMA LifecycleStep ==
    ASSUME TypeOK, LaneCapacity, LaneAccounting, UniqueInv, UniqueIds, [Next]_vars
    PROVE  [Lifecycle!Next]_Phases
<1> DEFINE Goal == Lifecycle!Next \/ UNCHANGED Phases
<1>1. CASE UNCHANGED <<pq, running, sink, submitted>>
  <2>1. \A id \in Ids : Phase(id)' = Phase(id)
    BY <1>1 DEF Phase, Queued, Running
  <2> QED
    BY <2>1, NoneMoves
<1>2. ASSUME run_loop PROVE Goal
  <2>1. CASE stop
    BY <1>1, <1>2, <2>1 DEF run_loop, jobs
  <2>2. CASE ~stop
    BY <1>2, <2>2, RunLoopStarts DEF Lifecycle!Next
  <2> QED
    BY <2>1, <2>2
<1>3. ASSUME NEW job \in Ids, Expire(job) PROVE Goal
  <2>1. ASSUME NEW id \in Ids PROVE Phase(id)' = Phase(id)
    <3>1. Running(id)' <=> Running(id)
      BY <1>3 DEF Expire, Running, TypeOK, Runs, NoRun
    <3>2. pq' = pq /\ sink' = sink /\ submitted' = submitted
      BY <1>3 DEF Expire
    <3> QED
      BY <3>1, <3>2, PhaseFrame DEF Queued
  <2> QED
    BY <2>1, NoneMoves
<1>4. ASSUME NEW job \in Ids, handle_timeout(job) PROVE Goal
  <2>1. CASE ~Running(job)
    BY <1>1, <1>4, <2>1 DEF handle_timeout, Running, jobs
  <2>2. CASE Running(job)
    BY <1>4, <2>2, TimeoutRequeues DEF Lifecycle!Next
  <2> QED
    BY <2>1, <2>2
<1>5. ASSUME NEW p \in Pids, OnExit(p) PROVE Goal
  <2>1. CASE ~Running(owner[p])
    BY <1>1, <1>5, <2>1 DEF OnExit, handle_exit, Running, jobs
  <2>2. CASE Running(owner[p])
    BY <1>5, <2>2, ExitEnds DEF Lifecycle!Next
  <2> QED
    BY <2>1, <2>2
<1>6. ASSUME NEW job \in Ids, NEW lane \in Lanes, Submit(job, lane) PROVE Goal
  BY <1>6, SubmitEnqueues DEF Lifecycle!Next
<1>7. CASE run \/ Stop \/ (\E p \in Pids : ChildExit(p)) \/ UNCHANGED vars
  BY <1>1, <1>7 DEF run, Stop, ChildExit, vars, jobs
<1> QED
  BY <1>2, <1>3, <1>4, <1>5, <1>6, <1>7 DEF Next

(***************************************************************************)
(* With unique ids the scheduler implements what JobLifecycle promises its *)
(* clients: every step of it is a step of one job's life cycle or leaves   *)
(* all of them alone, and never more than total_lane_ jobs run:            *)
(* UniqueIds => (Spec => ImplementsLifecycle).                             *)
(***************************************************************************)
THEOREM SchedulerImplementsLifecycle == UniqueIds => (Spec => ImplementsLifecycle)
<1> SUFFICES ASSUME UniqueIds PROVE Spec => ImplementsLifecycle
  OBVIOUS
<1>1. Init => Lifecycle!Init
  BY NewAtFirst DEF Lifecycle!Init, Phases
<1>2. TypeOK /\ LaneCapacity /\ LaneAccounting /\ UniqueInv /\ [Next]_vars
      => [Lifecycle!Next]_Phases
  BY LifecycleStep
<1>3. Spec => Lifecycle!Init /\ [][Lifecycle!Next]_Phases
  BY <1>1, <1>2, TypeCorrect, LanesNeverOvercommitted, LanesAreAccounted, UniqueInvariant, PTL
     DEF Spec
<1> QED
  BY <1>3 DEF ImplementsLifecycle, Lifecycle!Spec

-----------------------------------------------------------------------------
(***************************************************************************)
(* The scheduler on top of Process_Manager's table, with ids that are      *)
(* submitted again and process ids that come back while their old entry is *)
(* there.                                                                  *)
(***************************************************************************)
(***************************************************************************)
(* The inductive invariant.  The entry of running_ names a process whose   *)
(* callback is the entry's own (EntryOwn), although that process may have  *)
(* been reaped already: EntryOK fails here.  A handler                    *)
(* that is no stale one controls a child that nobody has waited for, and a *)
(* child without one got its pid over a stale entry (Controls).            *)
(***************************************************************************)
EntryOwn(id) ==
    Running(id) =>
        /\ running[id].pid # NoPid => CallbackPending(id, running[id].pid)
        /\ running[id].timer = "due" => due[id] > 0
        /\ running[id].lane = FAST => running[id].timer # "none"

Controls(p) ==
    /\ handlers[p] = "own" => child[p] \in {"live", "exited"}
    /\ child[p] \in {"live", "exited"} => handlers[p] = "own" \/ p \in shadowed

Controlled == \A p \in Pids : Controls(p)

EntriesOwn == \A id \in Ids : EntryOwn(id)

TableOK ==
    /\ handlers \in [Pids -> {"none", "own", "stale"}]
    /\ shadowed \subseteq Pids

ManagedInv ==
    /\ TypeOK
    /\ TableOK
    /\ EntriesOwn
    /\ Controlled

-----------------------------------------------------------------------------
\* The steps of Scheduler that don't reach the table.
Plain ==
    /\ \/ run
       \/ Stop
       \/ stop /\ run_loop
       \/ \E id \in Ids : Expire(id) \/ \E lane \in Lanes : Submit(id, lane)
       \/ \E p \in Pids : ChildExit(p)
       \/ UNCHANGED vars
    /\ UNCHANGED <<handlers, shadowed>>

LEMMA StepCases ==
    ASSUME [ManagedNext]_managed
    PROVE  \/ managed_run_loop
           \/ \E id \in Ids : managed_handle_timeout(id)
           \/ \E p \in Pids : managed_OnExit(p)
           \/ Plain
  BY DEF ManagedNext, managed, Plain

LEMMA PlainIsStep == ASSUME Plain PROVE [Next]_vars
  BY DEF Plain, Next

LEMMA ExitIsStep == ASSUME NEW p \in Pids, managed_OnExit(p) PROVE [Next]_vars
  BY DEF managed_OnExit, Next

\* What a pass of run_loop starts.
LEMMA ManagedSchedule ==
    ASSUME TypeOK, managed_run_loop
    PROVE  \E pj \in PendingJobs, pid \in Pids \cup {NoPid} :
              /\ pj = Head(pq)
              /\ pj.id \in Ids /\ pj.lane \in Lanes /\ ActualLane(pj.lane) \in Lanes
              /\ schedulable(pj.lane)
              /\ Acquire(ActualLane(pj.lane))
              /\ managed_spawn(pj.id, pid)
              /\ running' = [running EXCEPT ![pj.id] =
                    IF @ # NoRun THEN @
                    ELSE [lane |-> ActualLane(pj.lane), pid |-> pid,
                          timer |-> Deadline(ActualLane(pj.lane))]]
<1>1. Head(pq) \in PendingJobs
  BY DEF managed_run_loop, TypeOK
<1>2. Head(pq).id \in Ids /\ Head(pq).lane \in Lanes
  BY <1>1 DEF PendingJobs
<1>3. ActualLane(Head(pq).lane) \in Lanes
  BY <1>2, ActualLaneType
<1> QED
  BY <1>1, <1>2, <1>3 DEF managed_run_loop

\* What spawn does to the processes and the table.
LEMMA SpawnType ==
    ASSUME TypeOK, TableOK, NEW id \in Ids, NEW pid, managed_spawn(id, pid)
    PROVE  /\ child' \in [Pids -> {"unused", "live", "exited", "reaped"}]
           /\ owner' \in [Pids -> Ids \cup {None}]
           /\ \A p \in Pids : owner'[p] = None <=> child'[p] = "unused"
           /\ TableOK'
<1>1. CASE pid = NoPid /\ UNCHANGED <<procs, handlers, shadowed>>
  BY <1>1 DEF procs, TypeOK, TableOK
<1>2. CASE pid \in Pids /\ \E state \in {"live", "reaped"} : Start(id, pid, state)
  <2>1. PICK state \in {"live", "reaped"} : Start(id, pid, state)
    BY <1>2
  <2>2. /\ child' \in [Pids -> {"unused", "live", "exited", "reaped"}]
        /\ owner' \in [Pids -> Ids \cup {None}]
        /\ \A p \in Pids : owner'[p] = None <=> child'[p] = "unused"
    BY <1>2, <2>1, SchedulerAssumption DEF Start, TypeOK
  <2>3. TableOK'
    BY <1>2, NoPidIsNoPid DEF managed_spawn, TableOK
  <2> QED
    BY <2>2, <2>3
<1> QED
  BY <1>1, <1>2 DEF managed_spawn

LEMMA ManagedType ==
    ASSUME TypeOK, TableOK, Controlled, [ManagedNext]_managed
    PROVE  TypeOK' /\ TableOK'
<1>1. CASE Plain
  BY <1>1, PlainIsStep, TypeNext DEF Plain, TableOK
<1>2. ASSUME NEW p \in Pids, managed_OnExit(p) PROVE TypeOK' /\ TableOK'
  BY <1>2, ExitIsStep, TypeNext DEF managed_OnExit, TableOK
<1>3. ASSUME managed_run_loop PROVE TypeOK' /\ TableOK'
  <2>1. PICK pj \in PendingJobs, pid \in Pids \cup {NoPid} :
           /\ pj.id \in Ids /\ ActualLane(pj.lane) \in Lanes
           /\ Acquire(ActualLane(pj.lane))
           /\ managed_spawn(pj.id, pid)
           /\ running' = [running EXCEPT ![pj.id] =
                 IF @ # NoRun THEN @
                 ELSE [lane |-> ActualLane(pj.lane), pid |-> pid,
                       timer |-> Deadline(ActualLane(pj.lane))]]
    BY <1>3, ManagedSchedule
  <2>2. [lane |-> ActualLane(pj.lane), pid |-> pid,
         timer |-> Deadline(ActualLane(pj.lane))] \in Runs
    BY <2>1 DEF Runs, Deadline
  <2>3. running' \in [Ids -> Runs \cup {NoRun}]
    BY <2>1, <2>2 DEF TypeOK
  <2>4. running_fast' \in 0..SizeMax /\ running_slow' \in 0..SizeMax
    BY <2>1, CounterType
  <2>5. pq' \in Seq(PendingJobs)
    BY <1>3 DEF managed_run_loop, TypeOK
  <2> QED
    BY <1>3, <2>1, <2>3, <2>4, <2>5, SpawnType DEF managed_run_loop, TypeOK, P90!TypeOK
<1>4. ASSUME NEW id \in Ids, managed_handle_timeout(id) PROVE TypeOK' /\ TableOK'
  <2>1. due' \in [Ids -> Nat]
    BY <1>4 DEF managed_handle_timeout, TypeOK
  <2>2. CASE running[id] = NoRun
    BY <1>4, <2>1, <2>2
       DEF managed_handle_timeout, TypeOK, TableOK, jobs, procs, P90!TypeOK
  <2>3. CASE running[id] # NoRun
    <3>1. running_fast' \in 0..SizeMax /\ running_slow' \in 0..SizeMax
      BY <1>4, <2>3, CounterType DEF managed_handle_timeout
    <3>2. /\ child' \in [Pids -> {"unused", "live", "exited", "reaped"}]
          /\ owner' \in [Pids -> Ids \cup {None}]
      BY <1>4, <2>3 DEF managed_handle_timeout, Killed, TypeOK
    <3>3. pq' \in Seq(PendingJobs)
      <4>1. requeue(id) \in PendingJobs
        BY DEF requeue, PendingJobs, Lanes
      <4>2. pq' = Append(pq, requeue(id)) /\ pq \in Seq(PendingJobs)
        BY <1>4, <2>3 DEF managed_handle_timeout, push, TypeOK
      <4> QED
        BY <4>1, <4>2
    <3>4. running' \in [Ids -> Runs \cup {NoRun}]
      BY <1>4, <2>3 DEF managed_handle_timeout, TypeOK
    <3>5. TableOK'
      BY <1>4, <2>3 DEF managed_handle_timeout, TableOK
    <3>6. \A p \in Pids : owner'[p] = None <=> child'[p] = "unused"
      <4>1. /\ \A p \in Pids : handlers[p] = "own" => child[p] \in {"live", "exited"}
            /\ \A p \in Pids : owner[p] = None <=> child[p] = "unused"
        BY DEF TypeOK, Controlled, Controls
      <4>2. owner' = owner /\ child' = Killed(running[id].pid)
        BY <1>4, <2>3 DEF managed_handle_timeout
      <4>3. \A p \in Pids : child'[p] = "unused" <=> child[p] = "unused"
        BY <4>1, <4>2 DEF Killed
      <4> QED
        BY <4>1, <4>2, <4>3
    <3> QED
      BY <1>4, <2>1, <2>3, <3>1, <3>2, <3>3, <3>4, <3>5, <3>6
         DEF managed_handle_timeout, TypeOK, P90!TypeOK
  <2> QED
    BY <2>2, <2>3
<1> QED
  BY <1>1, <1>2, <1>3, <1>4, StepCases

LEMMA ControlledStep ==
    ASSUME TypeOK, TableOK, Controlled, [ManagedNext]_managed
    PROVE  Controlled'
<1> SUFFICES ASSUME NEW p \in Pids PROVE Controls(p)'
  BY DEF Controlled
<1>1. CASE UNCHANGED <<child, handlers, shadowed>>
  BY <1>1 DEF Controlled, Controls
<1>2. ASSUME NEW q \in Pids, ChildExit(q), UNCHANGED <<handlers, shadowed>>
      PROVE  Controls(p)'
  BY <1>2 DEF ChildExit, Controlled, Controls, TypeOK
<1>3. ASSUME NEW q \in Pids, managed_OnExit(q) PROVE Controls(p)'
  BY <1>3 DEF managed_OnExit, OnExit, Controlled, Controls, TypeOK, TableOK
<1>4. ASSUME managed_run_loop PROVE Controls(p)'
  <2>1. PICK job \in Ids, pid \in Pids \cup {NoPid} : managed_spawn(job, pid)
    BY <1>4, ManagedSchedule
  <2> QED
    BY <2>1 DEF managed_spawn, Start, procs, Controlled, Controls, TypeOK, TableOK
<1>5. ASSUME NEW job \in Ids, managed_handle_timeout(job) PROVE Controls(p)'
  BY <1>5 DEF managed_handle_timeout, Killed, procs, Controlled, Controls, TypeOK, TableOK
<1>6. CASE Plain
  BY <1>1, <1>2, <1>6 DEF Plain, run, Stop, run_loop, Expire, Submit, vars, procs
<1> QED
  BY <1>3, <1>4, <1>5, <1>6, StepCases

LEMMA EntriesStep ==
    ASSUME TypeOK, EntriesOwn, [ManagedNext]_managed
    PROVE  EntriesOwn'
<1> SUFFICES ASSUME NEW id \in Ids PROVE EntryOwn(id)'
  BY DEF EntriesOwn
<1>1. CASE UNCHANGED <<running, owner, due>>
  BY <1>1 DEF EntriesOwn, EntryOwn, Running, CallbackPending
<1>2. ASSUME NEW job \in Ids, Expire(job) PROVE EntryOwn(id)'
  <2>1. owner' = owner
    BY <1>2 DEF Expire, procs
  <2>2. CASE id # job
    BY <1>2, <2>1, <2>2 DEF Expire, TypeOK, EntriesOwn, EntryOwn, Running, CallbackPending
  <2>3. CASE id = job
    <3>1. running[id] \in Runs /\ Running(id)
      BY <1>2, <2>3 DEF Expire, TypeOK, NoRun, Running
    <3>2. due'[id] > 0 /\ running'[id].pid = running[id].pid /\ running'[id].timer = "due"
      BY <1>2, <2>3, <3>1 DEF Expire, TypeOK, Runs
    <3> QED
      BY <2>1, <3>1, <3>2 DEF EntriesOwn, EntryOwn, CallbackPending
  <2> QED
    BY <2>2, <2>3
<1>3. ASSUME NEW p \in Pids, managed_OnExit(p) PROVE EntryOwn(id)'
  <2>1. owner[p] \in Ids /\ due' = due /\ owner' = [owner EXCEPT ![p] = None]
    BY <1>3 DEF managed_OnExit, OnExit, TypeOK
  <2>2. PICK status : handle_exit(owner[p], status)
    BY <1>3 DEF managed_OnExit, OnExit
  <2>3. running' = [running EXCEPT ![owner[p]] = NoRun]
    BY <2>1, <2>2 DEF handle_exit, jobs, TypeOK
  <2>4. CASE id = owner[p]
    BY <2>1, <2>3, <2>4 DEF EntryOwn, Running, TypeOK
  <2>5. CASE id # owner[p]
    <3>1. running'[id] = running[id]
      BY <2>1, <2>3, <2>5 DEF TypeOK
    <3>2. \A q : CallbackPending(id, q) => CallbackPending(id, q)'
      BY <2>1, <2>5 DEF CallbackPending, TypeOK
    <3> QED
      BY <2>1, <3>1, <3>2 DEF EntriesOwn, EntryOwn, Running
  <2> QED
    BY <2>4, <2>5
<1>4. ASSUME managed_run_loop PROVE EntryOwn(id)'
  <2>1. PICK job \in Ids, lane \in Lanes, pid \in Pids \cup {NoPid} :
           /\ managed_spawn(job, pid)
           /\ running' = [running EXCEPT ![job] =
                 IF @ # NoRun THEN @
                 ELSE [lane |-> lane, pid |-> pid, timer |-> Deadline(lane)]]
    BY <1>4, ManagedSchedule
  <2>2. /\ \A q : CallbackPending(id, q) => CallbackPending(id, q)'
        /\ pid # NoPid => CallbackPending(job, pid)'
    BY <2>1, SchedulerAssumption DEF managed_spawn, Start, procs, CallbackPending, TypeOK
  <2>3. due' = due
    BY <1>4 DEF managed_run_loop
  <2>4. CASE running'[id] = running[id]
    BY <2>2, <2>3, <2>4 DEF EntriesOwn, EntryOwn, Running
  <2>5. CASE id = job /\ running'[id] = [lane |-> lane, pid |-> pid, timer |-> Deadline(lane)]
    BY <2>2, <2>5 DEF EntryOwn, Deadline
  <2> QED
    BY <2>1, <2>4, <2>5 DEF TypeOK
<1>5. ASSUME NEW job \in Ids, managed_handle_timeout(job) PROVE EntryOwn(id)'
  <2>1. owner' = owner /\ (id # job => due'[id] = due[id])
    BY <1>5 DEF managed_handle_timeout, procs, TypeOK
  <2>2. running' = [running EXCEPT ![job] = NoRun]
    BY <1>5 DEF managed_handle_timeout, jobs, TypeOK
  <2>3. CASE id = job
    BY <2>2, <2>3 DEF EntryOwn, Running, TypeOK
  <2>4. CASE id # job
    BY <2>1, <2>2, <2>4 DEF EntriesOwn, EntryOwn, Running, CallbackPending, TypeOK
  <2> QED
    BY <2>3, <2>4
<1>6. CASE Plain
  BY <1>1, <1>2, <1>6 DEF Plain, run, Stop, run_loop, Submit, ChildExit, vars, jobs, procs
<1> QED
  BY <1>3, <1>4, <1>5, <1>6, StepCases

LEMMA ManagedInvariant == ManagedSpec => []ManagedInv
<1>1. ManagedInit => ManagedInv
  <2> SUFFICES ASSUME ManagedInit PROVE ManagedInv
    OBVIOUS
  <2>1. TypeOK
    BY TypeInit DEF ManagedInit
  <2>2. TableOK /\ Controlled
    BY DEF ManagedInit, Init, TableOK, Controlled, Controls
  <2>3. EntriesOwn
    BY DEF ManagedInit, Init, EntriesOwn, EntryOwn, Running
  <2> QED
    BY <2>1, <2>2, <2>3 DEF ManagedInv
<1>2. ManagedInv /\ [ManagedNext]_managed => ManagedInv'
  BY ManagedType, ControlledStep, EntriesStep DEF ManagedInv
<1> QED
  BY <1>1, <1>2, PTL DEF ManagedSpec

-----------------------------------------------------------------------------
(***************************************************************************)
(* handle_timeout's kill never hits another job's process, however process *)
(* ids come back: ManagedSpec => KillReachesTheRun.                        *)
(***************************************************************************)
THEOREM KillsItsOwnRun == ManagedSpec => KillReachesTheRun
<1> DEFINE Reaches(id) ==
        due'[id] < due[id] /\ Running(id) /\ running[id].pid \in Pids =>
            /\ owner[running[id].pid] = id
            /\ child'[running[id].pid] \in {"live", "exited"} => running[id].pid \in shadowed
            /\ \A q \in Pids \ {running[id].pid} : child'[q] = child[q]
<1>1. ASSUME ManagedInv, [ManagedNext]_managed, NEW id \in Ids
      PROVE  Reaches(id)
  <2> SUFFICES ASSUME due'[id] < due[id], Running(id), running[id].pid \in Pids
               PROVE  /\ owner[running[id].pid] = id
                      /\ child'[running[id].pid] \in {"live", "exited"}
                            => running[id].pid \in shadowed
                      /\ \A q \in Pids \ {running[id].pid} : child'[q] = child[q]
    OBVIOUS
  <2>1. due[id] \in Nat /\ due \in [Ids -> Nat]
    BY <1>1 DEF ManagedInv, TypeOK
  <2>2. owner[running[id].pid] = id
    BY <1>1, NoPidIsNoPid DEF ManagedInv, EntriesOwn, EntryOwn, CallbackPending
  <2>3. managed_handle_timeout(id)
    <3>1. ASSUME due' = due PROVE FALSE
      BY <2>1, <3>1
    <3>2. ASSUME NEW job \in Ids, Expire(job) PROVE FALSE
      BY <2>1, <3>2 DEF Expire
    <3>3. ASSUME NEW job \in Ids, managed_handle_timeout(job) PROVE job = id
      BY <2>1, <3>3 DEF managed_handle_timeout
    <3>4. Plain => FALSE
      BY <3>1, <3>2 DEF Plain, run, Stop, run_loop, Submit, ChildExit, vars
    <3> QED
      BY <1>1, <3>1, <3>3, <3>4, StepCases DEF managed_run_loop, managed_OnExit, OnExit
  <2>4. child' = Killed(running[id].pid)
    BY <2>3 DEF managed_handle_timeout, Running
  <2> QED
    BY <1>1, <2>2, <2>4 DEF Killed, ManagedInv, Controlled, Controls, TypeOK
<1>2. ManagedInv /\ [ManagedNext]_managed => [\A id \in Ids : Reaches(id)]_managed
  BY <1>1
<1>3. ManagedSpec => [][\A id \in Ids : Reaches(id)]_managed
  BY <1>2, ManagedInvariant, PTL DEF ManagedSpec
<1> QED
  BY <1>3 DEF KillReachesTheRun

(***************************************************************************)
(* The lanes stay sound on top of the table as well, whatever spawn does   *)
(* over a stale entry: ManagedSpec => []LaneCapacity.                      *)
(***************************************************************************)
THEOREM ManagedLanesNeverOvercommitted == ManagedSpec => []LaneCapacity
<1>1. ManagedInit => LaneCapacity
  BY LanesInit DEF ManagedInit
<1>2. ASSUME ManagedInv, LaneCapacity, [ManagedNext]_managed PROVE LaneCapacity'
  <2>1. CASE Plain
    BY <1>2, <2>1, PlainIsStep, LanesNext DEF ManagedInv
  <2>2. ASSUME NEW p \in Pids, managed_OnExit(p) PROVE LaneCapacity'
    BY <1>2, <2>2, ExitIsStep, LanesNext DEF ManagedInv
  <2>3. ASSUME managed_run_loop PROVE LaneCapacity'
    BY <1>2, <2>3, ManagedSchedule, LanesSchedule DEF ManagedInv
  <2>4. ASSUME NEW id \in Ids, managed_handle_timeout(id) PROVE LaneCapacity'
    <3>1. CASE running[id] = NoRun
      BY <1>2, <2>4, <3>1, LanesUnchanged DEF managed_handle_timeout, jobs
    <3>2. CASE running[id] # NoRun
      BY <1>2, <2>4, <3>2, EraseKeepsLanes DEF managed_handle_timeout, ManagedInv
    <3> QED
      BY <3>1, <3>2
  <2> QED
    BY <1>2, <2>1, <2>2, <2>3, <2>4, StepCases
<1>3. ManagedInv /\ LaneCapacity /\ [ManagedNext]_managed => LaneCapacity'
  BY <1>2
<1> QED
  BY <1>1, <1>3, ManagedInvariant, PTL DEF ManagedSpec

(***************************************************************************)
(* An entry of running_ can still be removed although its child may be one *)
(* that the table doesn't know: ManagedSpec => []EntryCanBeRemoved.        *)
(***************************************************************************)
THEOREM ManagedEntriesCanBeRemoved == ManagedSpec => []EntryCanBeRemoved
<1>1. ManagedInv => EntryCanBeRemoved
  <2> SUFFICES ASSUME ManagedInv, NEW id \in Ids, Running(id)
               PROVE  \/ CallbackPending(id, running[id].pid)
                      \/ running[id].timer = "armed"
                      \/ running[id].timer = "due" /\ due[id] > 0
                      \/ running[id].pid = NoPid /\ running[id].lane = SLOW
    BY DEF EntryCanBeRemoved
  <2>1. running[id] \in Runs
    BY DEF ManagedInv, Running, TypeOK
  <2> QED
    BY <2>1 DEF ManagedInv, EntriesOwn, EntryOwn, Runs, Lanes
<1> QED
  BY <1>1, ManagedInvariant, PTL
=============================================================================
