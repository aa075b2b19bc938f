------------------------- MODULE ProcessManagerProofs -------------------------
(***************************************************************************)
(* Proofs about Process_Manager, for any number of threads, pids and       *)
(* handler addresses.                                                      *)
(*                                                                         *)
(* The three invariants rest on one idea: an object is in the hands of at  *)
(* most one holder that may free it, its entry in the table or the thread  *)
(* that inserts or destroys it (Held).  wait() holds nothing: its pointer  *)
(* is good for as long as the entry it was copied from stays.              *)
(***************************************************************************)
EXTENDS ProcessManager, TLAPS

Holding == {"insert", "destroy"}
Waiting == {"wait", "blocked", "remove"}

TypeOK ==
    /\ mtx \in Threads \cup {None}
    /\ handlers \in [Pids -> Handlers \cup {None}]
    /\ object \in [Handlers -> Pids \cup {None}]
    /\ over \in [Handlers -> BOOLEAN]
    /\ kernel \in [Pids -> {"none", "live", "killed", "zombie"}]
    /\ pc \in [Threads -> {"idle"} \cup Holding \cup Waiting]
    /\ arg \in [Threads -> Pids \cup {None}]
    /\ ptr \in [Threads -> Handlers \cup {None}]
    /\ shared \in [Threads -> BOOLEAN]
    /\ recurred \subseteq Pids
    /\ \A t \in Threads : pc[t] # "idle" => arg[t] \in Pids /\ ptr[t] \in Handlers

\* A thread that inserts or destroys an object is the only one to hold it,
\* and only the thread that has the mutex destroys.
Held ==
    /\ \A t \in Threads : pc[t] \in Holding => object[ptr[t]] = arg[t]
    /\ \A t, u \in Threads :
          pc[t] \in Holding /\ pc[u] \in Holding /\ t # u => ptr[t] # ptr[u]
    /\ \A t \in Threads : pc[t] = "destroy" => mtx = t

TableInv == TypeOK /\ TableIsSound /\ Held /\ DanglingNeedsOverlap

\* An object whose child has not been waited for keeps the child's pid from
\* being handed out again, so no other such object has the pid.
Owning(h) == object[h] # None /\ ~over[h]

ChildrenAreOwned ==
    /\ \A h \in Handlers : Owning(h) => kernel[object[h]] # "none"
    /\ \A g, h \in Handlers : Owning(g) /\ Owning(h) /\ object[g] = object[h] => g = h

\* A pid that did not come back while in use has one holder, which has the
\* object of the child if there is a child.
OneHolder(p) ==
    /\ \A t \in Threads : pc[t] \in Holding /\ arg[t] = p => handlers[p] = None
    /\ \A t, u \in Threads :
          pc[t] \in Holding /\ pc[u] \in Holding /\ arg[t] = p /\ arg[u] = p => t = u

HasOwner(p) ==
    kernel[p] # "none" =>
        \/ handlers[p] # None /\ ~over[handlers[p]]
        \/ \E t \in Threads : pc[t] \in Holding /\ arg[t] = p /\ ~over[ptr[t]]

Holders == \A p \in Pids \ recurred : OneHolder(p)
Owners  == \A p \in Pids \ recurred : HasOwner(p)

ChildInv == ChildrenAreOwned /\ Holders /\ Owners

ManagerInv == TableInv /\ ChildInv

-----------------------------------------------------------------------------
\* A wait that a call on p leaves unmarked is not on p.
LEMMA OverlapMarks ==
    ASSUME TypeOK, NEW t \in Threads, NEW p \in Pids
    PROVE  /\ Overlap(t, p) \in [Threads -> BOOLEAN]
           /\ \A u \in Threads : ~Overlap(t, p)[u] =>
                 ~shared[u] /\ (u = t \/ arg[u] # p \/ pc[u] \notin Waiting)
<1>1. \A v \in Threads : shared[v] \in BOOLEAN
    BY DEF TypeOK
<1>2. QED
    BY <1>1, Zenon DEF Overlap, Waiting

\* Every step keeps the type invariant.
LEMMA TypeStep ==
    ASSUME TypeOK, [Next]_vars
    PROVE  TypeOK'
<1> USE ManagerAssumption DEF TypeOK, Holding, Waiting
<1>1. ASSUME NEW t \in Threads, spawn(t) PROVE TypeOK'
    BY <1>1 DEF spawn, InUse
<1>2. ASSUME NEW t \in Threads, insert(t) PROVE TypeOK'
    BY <1>2 DEF insert, Return, Signalled, table
<1>3. ASSUME NEW t \in Threads, BeginWait(t) PROVE TypeOK'
    BY <1>3 DEF BeginWait, table
<1>4. ASSUME NEW t \in Threads, WaitReturns(t) PROVE TypeOK'
  <2>1. ptr[t] \in Handlers
    BY <1>4 DEF WaitReturns
  <2>2. CASE pc' = [pc EXCEPT ![t] = "remove"] /\ UNCHANGED <<arg, ptr, shared>>
             /\ object[ptr[t]] # None /\ over' = [over EXCEPT ![ptr[t]] = TRUE]
             /\ kernel' = [kernel EXCEPT ![object[ptr[t]]] = "none"]
    BY <1>4, <2>1, <2>2 DEF WaitReturns
  <2>3. CASE Return(t) /\ shared' = [shared EXCEPT ![t] = FALSE] /\ UNCHANGED <<over, kernel>>
    BY <1>4, <2>3 DEF WaitReturns, Return
  <2>4. QED
    BY <1>4, <2>2, <2>3 DEF WaitReturns
<1>5. ASSUME NEW t \in Threads, remove(t) PROVE TypeOK'
  <2>1. arg[t] \in Pids
    BY <1>5 DEF remove
  <2>2. shared' \in [Threads -> BOOLEAN]
    BY <1>5, <2>1, OverlapMarks DEF remove
  <2>3. CASE handlers[arg[t]] = None
    BY <1>5, <2>1, <2>2, <2>3 DEF remove, Return, table
  <2>4. CASE handlers[arg[t]] # None
    BY <1>5, <2>1, <2>2, <2>4 DEF remove, Erased, Signalled
  <2>5. QED
    BY <2>3, <2>4
<1>6. ASSUME NEW t \in Threads, Destroy(t) PROVE TypeOK'
    BY <1>6 DEF Destroy, Return, Ended
<1>7. ASSUME NEW t \in Threads, NEW p \in Pids, wait(t, p) PROVE TypeOK'
    BY <1>7, OverlapMarks DEF wait, table
<1>8. ASSUME NEW t \in Threads, NEW p \in Pids, terminate(t, p) PROVE TypeOK'
    BY <1>8, OverlapMarks DEF terminate, Erased, Signalled
<1>9. ASSUME NEW p \in Pids, ChildExit(p) PROVE TypeOK'
    BY <1>9 DEF ChildExit, table, calls
<1>10. ASSUME NEW p \in Pids, KillTakesEffect(p) PROVE TypeOK'
    BY <1>10 DEF KillTakesEffect, table, calls
<1>11. ASSUME NEW h \in Handlers, Reap(h) PROVE TypeOK'
    BY <1>11 DEF Reap, calls
<1>12. ASSUME UNCHANGED vars PROVE TypeOK'
    BY <1>12 DEF vars, table, calls
<1>13. QED
    BY <1>1, <1>2, <1>3, <1>4, <1>5, <1>6, <1>7, <1>8, <1>9, <1>10, <1>11, <1>12
    DEF Next

\* No entry comes to point to a freed object: one that a thread destroys was
\* taken out of the table before, or never got into it.
LEMMA SoundStep ==
    ASSUME TypeOK, TableIsSound, Held, [Next]_vars
    PROVE  TableIsSound'
<1> USE ManagerAssumption DEF TypeOK, TableIsSound, Held, Holding, Waiting
<1>1. ASSUME NEW t \in Threads, spawn(t) PROVE TableIsSound'
    BY <1>1 DEF spawn, InUse
<1>2. ASSUME NEW t \in Threads, insert(t) PROVE TableIsSound'
    BY <1>2 DEF insert, Return, Signalled, table
<1>3. ASSUME NEW t \in Threads, BeginWait(t) PROVE TableIsSound'
    BY <1>3 DEF BeginWait, table
<1>4. ASSUME NEW t \in Threads, WaitReturns(t) PROVE TableIsSound'
    BY <1>4 DEF WaitReturns, Return
<1>5. ASSUME NEW t \in Threads, remove(t) PROVE TableIsSound'
    BY <1>5 DEF remove, Return, Erased, Signalled, Overlap, table
<1>6. ASSUME NEW t \in Threads, Destroy(t) PROVE TableIsSound'
    BY <1>6 DEF Destroy, Return, Ended
<1>7. ASSUME NEW t \in Threads, NEW p \in Pids, wait(t, p) PROVE TableIsSound'
    BY <1>7 DEF wait, Overlap, table
<1>8. ASSUME NEW t \in Threads, NEW p \in Pids, terminate(t, p) PROVE TableIsSound'
    BY <1>8 DEF terminate, Erased, Signalled, Overlap
<1>9. ASSUME NEW p \in Pids, ChildExit(p) PROVE TableIsSound'
    BY <1>9 DEF ChildExit, table, calls
<1>10. ASSUME NEW p \in Pids, KillTakesEffect(p) PROVE TableIsSound'
    BY <1>10 DEF KillTakesEffect, table, calls
<1>11. ASSUME NEW h \in Handlers, Reap(h) PROVE TableIsSound'
    BY <1>11 DEF Reap, calls
<1>12. ASSUME UNCHANGED vars PROVE TableIsSound'
    BY <1>12 DEF vars, table, calls
<1>13. QED
    BY <1>1, <1>2, <1>3, <1>4, <1>5, <1>6, <1>7, <1>8, <1>9, <1>10, <1>11, <1>12
    DEF Next

\* No two threads come to hold one object: a thread takes it from the kernel's
\* free addresses or out of the table.
LEMMA HeldStep ==
    ASSUME TypeOK, TableIsSound, Held, [Next]_vars
    PROVE  Held'
<1> USE ManagerAssumption DEF TypeOK, TableIsSound, Held, Holding, Waiting
<1>1. ASSUME NEW t \in Threads, spawn(t) PROVE Held'
    BY <1>1 DEF spawn, InUse
<1>2. ASSUME NEW t \in Threads, insert(t) PROVE Held'
    BY <1>2 DEF insert, Return, Signalled, table
<1>3. ASSUME NEW t \in Threads, BeginWait(t) PROVE Held'
    BY <1>3 DEF BeginWait, table
<1>4. ASSUME NEW t \in Threads, WaitReturns(t) PROVE Held'
    BY <1>4 DEF WaitReturns, Return
<1>5. ASSUME NEW t \in Threads, remove(t) PROVE Held'
    BY <1>5 DEF remove, Return, Erased, Signalled, Overlap, table
<1>6. ASSUME NEW t \in Threads, Destroy(t) PROVE Held'
    BY <1>6 DEF Destroy, Return, Ended
<1>7. ASSUME NEW t \in Threads, NEW p \in Pids, wait(t, p) PROVE Held'
    BY <1>7 DEF wait, Overlap, table
<1>8. ASSUME NEW t \in Threads, NEW p \in Pids, terminate(t, p) PROVE Held'
    BY <1>8 DEF terminate, Erased, Signalled, Overlap
<1>9. ASSUME NEW p \in Pids, ChildExit(p) PROVE Held'
    BY <1>9 DEF ChildExit, table, calls
<1>10. ASSUME NEW p \in Pids, KillTakesEffect(p) PROVE Held'
    BY <1>10 DEF KillTakesEffect, table, calls
<1>11. ASSUME NEW h \in Handlers, Reap(h) PROVE Held'
    BY <1>11 DEF Reap, calls
<1>12. ASSUME UNCHANGED vars PROVE Held'
    BY <1>12 DEF vars, table, calls
<1>13. QED
    BY <1>1, <1>2, <1>3, <1>4, <1>5, <1>6, <1>7, <1>8, <1>9, <1>10, <1>11, <1>12
    DEF Next

\* The entry a wait has copied goes only by a call on the same pid, which marks
\* the wait, and its object only after the entry.
LEMMA DanglingStep ==
    ASSUME TypeOK, TableIsSound, Held, DanglingNeedsOverlap, [Next]_vars
    PROVE  DanglingNeedsOverlap'
<1> USE ManagerAssumption DEF TypeOK, TableIsSound, Held, DanglingNeedsOverlap,
                           Holding, Waiting
<1>1. ASSUME NEW t \in Threads, spawn(t) PROVE DanglingNeedsOverlap'
    BY <1>1 DEF spawn, InUse
<1>2. ASSUME NEW t \in Threads, insert(t) PROVE DanglingNeedsOverlap'
    BY <1>2 DEF insert, Return, Signalled, table
<1>3. ASSUME NEW t \in Threads, BeginWait(t) PROVE DanglingNeedsOverlap'
    BY <1>3 DEF BeginWait, table
<1>4. ASSUME NEW t \in Threads, WaitReturns(t) PROVE DanglingNeedsOverlap'
    BY <1>4 DEF WaitReturns, Return
<1>5. ASSUME NEW t \in Threads, remove(t) PROVE DanglingNeedsOverlap'
  <2> SUFFICES ASSUME NEW u \in Threads, pc'[u] \in Waiting, ~shared'[u],
                      arg'[u] \notin recurred'
               PROVE  object'[ptr'[u]] = arg'[u] /\ handlers'[arg'[u]] = ptr'[u]
    BY DEF DanglingNeedsOverlap
  <2>1. u # t
    BY <1>5 DEF remove, Return
  <2>2. ~shared[u] /\ arg[u] # arg[t]
    BY <1>5, <2>1, OverlapMarks DEF remove, Return
  <2>3. QED
    BY <1>5, <2>1, <2>2 DEF remove, Return, Erased, table
<1>6. ASSUME NEW t \in Threads, Destroy(t) PROVE DanglingNeedsOverlap'
    BY <1>6 DEF Destroy, Return, Ended
<1>7. ASSUME NEW t \in Threads, NEW p \in Pids, wait(t, p) PROVE DanglingNeedsOverlap'
    BY <1>7 DEF wait, Overlap, table
<1>8. ASSUME NEW t \in Threads, NEW p \in Pids, terminate(t, p) PROVE DanglingNeedsOverlap'
  <2> SUFFICES ASSUME NEW u \in Threads, pc'[u] \in Waiting, ~shared'[u],
                      arg'[u] \notin recurred'
               PROVE  object'[ptr'[u]] = arg'[u] /\ handlers'[arg'[u]] = ptr'[u]
    BY DEF DanglingNeedsOverlap
  <2>1. u # t
    BY <1>8 DEF terminate, Return
  <2>2. ~shared[u] /\ arg[u] # p
    BY <1>8, <2>1, OverlapMarks DEF terminate, Return
  <2>3. QED
    BY <1>8, <2>1, <2>2 DEF terminate, Erased
<1>9. ASSUME NEW p \in Pids, ChildExit(p) PROVE DanglingNeedsOverlap'
    BY <1>9 DEF ChildExit, table, calls
<1>10. ASSUME NEW p \in Pids, KillTakesEffect(p) PROVE DanglingNeedsOverlap'
    BY <1>10 DEF KillTakesEffect, table, calls
<1>11. ASSUME NEW h \in Handlers, Reap(h) PROVE DanglingNeedsOverlap'
    BY <1>11 DEF Reap, calls
<1>12. ASSUME UNCHANGED vars PROVE DanglingNeedsOverlap'
    BY <1>12 DEF vars, table, calls
<1>13. QED
    BY <1>1, <1>2, <1>3, <1>4, <1>5, <1>6, <1>7, <1>8, <1>9, <1>10, <1>11, <1>12
    DEF Next

\* A pid is handed out only when no object owns a child with it.
LEMMA OwnedStep ==
    ASSUME TypeOK, TableIsSound, Held, ChildrenAreOwned, [Next]_vars
    PROVE  ChildrenAreOwned'
<1> USE ManagerAssumption DEF TypeOK, TableIsSound, Held, ChildrenAreOwned, Owning,
                           Holding, Waiting
<1>1. ASSUME NEW t \in Threads, spawn(t) PROVE ChildrenAreOwned'
    BY <1>1 DEF spawn, InUse
<1>2. ASSUME NEW t \in Threads, insert(t) PROVE ChildrenAreOwned'
    BY <1>2 DEF insert, Return, Signalled, table
<1>3. ASSUME NEW t \in Threads, BeginWait(t) PROVE ChildrenAreOwned'
    BY <1>3 DEF BeginWait, table
<1>4. ASSUME NEW t \in Threads, WaitReturns(t) PROVE ChildrenAreOwned'
    BY <1>4 DEF WaitReturns, Return
<1>5. ASSUME NEW t \in Threads, remove(t) PROVE ChildrenAreOwned'
    BY <1>5 DEF remove, Return, Erased, Signalled, Overlap, table
<1>6. ASSUME NEW t \in Threads, Destroy(t) PROVE ChildrenAreOwned'
    BY <1>6 DEF Destroy, Return, Ended
<1>7. ASSUME NEW t \in Threads, NEW p \in Pids, wait(t, p) PROVE ChildrenAreOwned'
    BY <1>7 DEF wait, Overlap, table
<1>8. ASSUME NEW t \in Threads, NEW p \in Pids, terminate(t, p) PROVE ChildrenAreOwned'
    BY <1>8 DEF terminate, Erased, Signalled, Overlap
<1>9. ASSUME NEW p \in Pids, ChildExit(p) PROVE ChildrenAreOwned'
    BY <1>9 DEF ChildExit, table, calls
<1>10. ASSUME NEW p \in Pids, KillTakesEffect(p) PROVE ChildrenAreOwned'
    BY <1>10 DEF KillTakesEffect, table, calls
<1>11. ASSUME NEW h \in Handlers, Reap(h) PROVE ChildrenAreOwned'
    BY <1>11 DEF Reap, calls
<1>12. ASSUME UNCHANGED vars PROVE ChildrenAreOwned'
    BY <1>12 DEF vars, table, calls
<1>13. QED
    BY <1>1, <1>2, <1>3, <1>4, <1>5, <1>6, <1>7, <1>8, <1>9, <1>10, <1>11, <1>12
    DEF Next

\* A pid that is handed out while nothing has it gets one holder.
LEMMA OneHolderStep ==
    ASSUME TypeOK, TableIsSound, Held, ChildInv, [Next]_vars
    PROVE  Holders'
<1> USE ManagerAssumption DEF TypeOK, TableIsSound, Held, ChildInv, Holders, OneHolder, Holding, Waiting
<1>1. ASSUME NEW t \in Threads, spawn(t) PROVE Holders'
    BY <1>1 DEF spawn, InUse
<1>2. ASSUME NEW t \in Threads, insert(t) PROVE Holders'
    BY <1>2 DEF insert, Return, Signalled, table
<1>3. ASSUME NEW t \in Threads, BeginWait(t) PROVE Holders'
    BY <1>3 DEF BeginWait, table
<1>4. ASSUME NEW t \in Threads, WaitReturns(t) PROVE Holders'
    BY <1>4 DEF WaitReturns, Return
<1>5. ASSUME NEW t \in Threads, remove(t) PROVE Holders'
    BY <1>5 DEF remove, Return, Erased, Signalled, Overlap, table
<1>6. ASSUME NEW t \in Threads, Destroy(t) PROVE Holders'
    BY <1>6 DEF Destroy, Return, Ended
<1>7. ASSUME NEW t \in Threads, NEW p \in Pids, wait(t, p) PROVE Holders'
    BY <1>7 DEF wait, Overlap, table
<1>8. ASSUME NEW t \in Threads, NEW p \in Pids, terminate(t, p) PROVE Holders'
    BY <1>8 DEF terminate, Erased, Signalled, Overlap
<1>9. ASSUME NEW p \in Pids, ChildExit(p) PROVE Holders'
    BY <1>9 DEF ChildExit, table, calls
<1>10. ASSUME NEW p \in Pids, KillTakesEffect(p) PROVE Holders'
    BY <1>10 DEF KillTakesEffect, table, calls
<1>11. ASSUME NEW h \in Handlers, Reap(h) PROVE Holders'
    BY <1>11 DEF Reap, calls
<1>12. ASSUME UNCHANGED vars PROVE Holders'
    BY <1>12 DEF vars, table, calls
<1>13. QED
    BY <1>1, <1>2, <1>3, <1>4, <1>5, <1>6, <1>7, <1>8, <1>9, <1>10, <1>11, <1>12
    DEF Next

\* The child passes from the spawning thread to the table and from there to
\* the destroying thread, which lets go of it only when it has been waited for.
LEMMA HasOwnerStep ==
    ASSUME TypeOK, TableIsSound, Held, ChildInv, [Next]_vars
    PROVE  Owners'
<1> USE ManagerAssumption DEF TypeOK, TableIsSound, Held, ChildInv, ChildrenAreOwned, Owning,
                           Holders, OneHolder, Owners, HasOwner, Holding, Waiting
<1>1. ASSUME NEW t \in Threads, spawn(t) PROVE Owners'
    BY <1>1 DEF spawn, InUse
<1>2. ASSUME NEW t \in Threads, insert(t) PROVE Owners'
    BY <1>2 DEF insert, Return, Signalled, table
<1>3. ASSUME NEW t \in Threads, BeginWait(t) PROVE Owners'
    BY <1>3 DEF BeginWait, table
<1>4. ASSUME NEW t \in Threads, WaitReturns(t) PROVE Owners'
    BY <1>4 DEF WaitReturns, Return
<1>5. ASSUME NEW t \in Threads, remove(t) PROVE Owners'
    BY <1>5 DEF remove, Return, Erased, Signalled, Overlap, table
<1>6. ASSUME NEW t \in Threads, Destroy(t) PROVE Owners'
    BY <1>6 DEF Destroy, Return, Ended
<1>7. ASSUME NEW t \in Threads, NEW p \in Pids, wait(t, p) PROVE Owners'
    BY <1>7 DEF wait, Overlap, table
<1>8. ASSUME NEW t \in Threads, NEW p \in Pids, terminate(t, p) PROVE Owners'
    BY <1>8 DEF terminate, Erased, Signalled, Overlap
<1>9. ASSUME NEW p \in Pids, ChildExit(p) PROVE Owners'
    BY <1>9 DEF ChildExit, table, calls
<1>10. ASSUME NEW p \in Pids, KillTakesEffect(p) PROVE Owners'
    BY <1>10 DEF KillTakesEffect, table, calls
<1>11. ASSUME NEW h \in Handlers, Reap(h) PROVE Owners'
    BY <1>11 DEF Reap, calls
<1>12. ASSUME UNCHANGED vars PROVE Owners'
    BY <1>12 DEF vars, table, calls
<1>13. QED
    BY <1>1, <1>2, <1>3, <1>4, <1>5, <1>6, <1>7, <1>8, <1>9, <1>10, <1>11, <1>12
    DEF Next

LEMMA ManagerInvariant == Spec => []ManagerInv
<1>1. Init => ManagerInv
    BY ManagerAssumption
    DEF Init, ManagerInv, TableInv, TypeOK, TableIsSound, Held, DanglingNeedsOverlap, ChildInv,
        ChildrenAreOwned, Owning, Holders, OneHolder, Owners, HasOwner, Holding, Waiting
<1>2. ManagerInv /\ [Next]_vars => ManagerInv'
    BY TypeStep, SoundStep, HeldStep, DanglingStep, OwnedStep, OneHolderStep, HasOwnerStep
    DEF ManagerInv, TableInv, ChildInv
<1>3. QED
    BY <1>1, <1>2, PTL DEF Spec

(***************************************************************************)
(* Process_Manager's table is never dangling: an entry of handlers_ points *)
(* to an object that exists, whose child has the entry's pid, and which no *)
(* other thread is about to insert or destroy.                             *)
(***************************************************************************)
THEOREM EntriesAreSound == Spec => []TableIsSound
    BY ManagerInvariant, PTL DEF ManagerInv, TableInv

(***************************************************************************)
(* The raw pointer that Process_Manager::wait uses without the mutex is    *)
(* good, and remove_handler removes the handler waited for, unless another *)
(* wait or terminate on the pid overlapped the wait or the pid came back.  *)
(***************************************************************************)
THEOREM WaitIsSafeAlone == Spec => []DanglingNeedsOverlap
    BY ManagerInvariant, PTL DEF ManagerInv, TableInv

(***************************************************************************)
(* A child that Process_Manager::spawn has started can be reached through  *)
(* the table, or by the thread that spawns or destroys it, until it has    *)
(* been waited for, unless its pid came back while it was in use.          *)
(***************************************************************************)
THEOREM NoChildEscapes == Spec => []EveryChildIsControlled
<1>1. ManagerInv => EveryChildIsControlled
    BY DEF ManagerInv, ChildInv, Owners, HasOwner, EveryChildIsControlled, Holding
<1>2. QED
    BY <1>1, ManagerInvariant, PTL
===============================================================================
