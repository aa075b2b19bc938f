--------------------------- MODULE ProcessManager ---------------------------
(***************************************************************************)
(* Process_Manager, the table of the children the program controls, called *)
(* from several threads, with the parts of Process_Handler it relies on.   *)
(*                                                                         *)
(* The mutex guards handlers_ only.  spawn starts the child before it      *)
(* takes the mutex; wait drops the mutex while it waits and keeps a raw    *)
(* pointer to the handler; terminate kills and waits with the mutex held.  *)
(* terminate_with_children is terminate as far as the child itself goes:   *)
(* its killer is still empty, and destroying the handler kills and waits.  *)
(* A child that ends by itself is waited for by asio (Reap), which leaves  *)
(* its handler in the table until someone calls wait or terminate.  A wait *)
(* that is blocked by then finds no child and throws.                      *)
(*                                                                         *)
(* A definition whose name ends in Bug is a faulty variant of the one      *)
(* after it; it shows that a property can fail.  Nothing else uses it.     *)
(***************************************************************************)
EXTENDS Integers, FiniteSets

CONSTANTS
    Threads,
    Pids,           \* process ids the kernel may hand out
    Handlers,       \* addresses of Process_Handler objects
    None

ASSUME ManagerAssumption == None \notin Threads \cup Pids \cup Handlers

VARIABLES
    mtx,            \* who holds mtx_ across a blocking call, or None
    handlers,       \* handlers_; None where the map has no entry
    object,         \* per address: the pid of its child, None if not allocated
    over,           \* per address: has its child been waited for?
    kernel,         \* per pid: "none", "live", "killed" or "zombie"
    pc,             \* per thread: the next step of its call
    arg,            \* per thread: the pid it was called with or has spawned
    ptr,            \* per thread: its raw pointer h
    shared,         \* history: did another call on its pid overlap the wait?
    recurred        \* history: the pids handed out while an entry or a call has them

table == <<handlers, object, over>>
calls == <<pc, arg, ptr, shared>>
vars  == <<mtx, table, kernel, calls, recurred>>

Init ==
    /\ mtx = None
    /\ handlers = [p \in Pids |-> None]
    /\ object = [h \in Handlers |-> None]
    /\ over = [h \in Handlers |-> FALSE]
    /\ kernel = [p \in Pids |-> "none"]
    /\ pc = [t \in Threads |-> "idle"]
    /\ arg = [t \in Threads |-> None]
    /\ ptr = [t \in Threads |-> None]
    /\ shared = [t \in Threads |-> FALSE]
    /\ recurred = {}

\* A call on p marks every wait on p that is under way.
Overlap(t, p) ==
    [u \in Threads |-> shared[u] \/ (u # t /\ arg[u] = p /\ pc[u] \in {"wait", "blocked", "remove"})]

\* An entry or a call still has the pid of a process that is gone.
InUse(p) == handlers[p] # None \/ \E u \in Threads : arg[u] = p

\* handlers_.erase(p)
Erased_Bug(p) == handlers

Erased(p) == [handlers EXCEPT ![p] = None]

\* Process_Handler::terminate signals its child h unless it was waited for.
Signalled_Bug(p, h) == kernel

Signalled(p, h) ==
    [kernel EXCEPT ![p] = IF ~over[h] /\ @ = "live" THEN "killed" ELSE @]

Return(t) ==
    /\ pc' = [pc EXCEPT ![t] = "idle"]
    /\ arg' = [arg EXCEPT ![t] = None]
    /\ ptr' = [ptr EXCEPT ![t] = None]

-----------------------------------------------------------------------------
(***************************************************************************)
(* spawn.  The child runs before its handler is in the table.  A failed    *)
(* spawn deletes the handler and leaves no trace.                          *)
(***************************************************************************)
spawn(t) ==
    /\ pc[t] = "idle"
    /\ \E h \in Handlers, p \in Pids :
          /\ object[h] = None
          /\ kernel[p] = "none"
          /\ recurred' = IF InUse(p) THEN recurred \cup {p} ELSE recurred \ {p}
          /\ object' = [object EXCEPT ![h] = p]
          /\ over' = [over EXCEPT ![h] = FALSE]
          /\ kernel' = [kernel EXCEPT ![p] = "live"]
          /\ arg' = [arg EXCEPT ![t] = p]
          /\ ptr' = [ptr EXCEPT ![t] = h]
    /\ pc' = [pc EXCEPT ![t] = "insert"]
    /\ UNCHANGED <<mtx, handlers, shared>>

(***************************************************************************)
(* emplace(pid, h), where h is a raw pointer.  If the pid still has an     *)
(* entry, the new handler is not inserted: a library that builds the node  *)
(* first destroys it, and with it the new child; one that looks first      *)
(* leaves the handler, and the child, to nobody.                           *)
(***************************************************************************)
insert(t) ==
    /\ pc[t] = "insert"
    /\ mtx = None
    /\ \/ /\ handlers[arg[t]] = None
          /\ handlers' = [handlers EXCEPT ![arg[t]] = ptr[t]]
          /\ Return(t)
          /\ UNCHANGED <<mtx, object, over, kernel, shared, recurred>>
       \/ /\ handlers[arg[t]] # None
          /\ mtx' = t
          /\ pc' = [pc EXCEPT ![t] = "destroy"]
          /\ kernel' = Signalled(arg[t], ptr[t])
          /\ UNCHANGED <<table, arg, ptr, shared, recurred>>
       \/ /\ handlers[arg[t]] # None
          /\ Return(t)
          /\ UNCHANGED <<mtx, table, kernel, shared, recurred>>

(***************************************************************************)
(* wait: find under the mutex, wait without it, remove under it.           *)
(***************************************************************************)
wait(t, p) ==
    /\ pc[t] = "idle"
    /\ mtx = None
    /\ handlers[p] # None
    /\ pc' = [pc EXCEPT ![t] = "wait"]
    /\ arg' = [arg EXCEPT ![t] = p]
    /\ ptr' = [ptr EXCEPT ![t] = handlers[p]]
    /\ shared' = [Overlap(t, p) EXCEPT ![t] =
                     \E u \in Threads \ {t} : arg[u] = p /\ pc[u] # "insert"]
    /\ UNCHANGED <<mtx, table, kernel, recurred>>

\* h->wait() begins; it answers at once if the child was waited for.  The
\* pointer may dangle: into free memory, where the calls answer anything, or
\* into another handler by now.
BeginWait(t) ==
    /\ pc[t] = "wait"
    /\ \/ pc' = [pc EXCEPT ![t] = "remove"] /\ (object[ptr[t]] = None \/ over[ptr[t]])
       \/ pc' = [pc EXCEPT ![t] = "blocked"] /\ ~over[ptr[t]]
    /\ UNCHANGED <<mtx, table, kernel, arg, ptr, shared, recurred>>

\* The waitpid of h->wait() returns: with the child, or without, because asio
\* was faster; then wait() throws and the entry stays.
WaitReturns(t) ==
    /\ pc[t] = "blocked"
    /\ LET h == ptr[t] IN
       \/ /\ object[h] # None /\ ~over[h] /\ kernel[object[h]] = "zombie"
          /\ over' = [over EXCEPT ![h] = TRUE]
          /\ kernel' = [kernel EXCEPT ![object[h]] = "none"]
          /\ pc' = [pc EXCEPT ![t] = "remove"]
          /\ UNCHANGED <<arg, ptr, shared>>
       \/ /\ object[h] = None \/ over[h]
          /\ Return(t)
          /\ shared' = [shared EXCEPT ![t] = FALSE]
          /\ UNCHANGED <<over, kernel>>
    /\ UNCHANGED <<mtx, handlers, object, recurred>>

(***************************************************************************)
(* remove_handler(pid) erases whatever entry the pid has by now.  The      *)
(* destructor kills and waits for a child that still runs.                 *)
(***************************************************************************)
remove(t) ==
    /\ pc[t] = "remove"
    /\ mtx = None
    /\ LET h == handlers[arg[t]] IN
       \/ /\ h = None
          /\ Return(t)
          /\ UNCHANGED <<mtx, table, kernel, recurred>>
       \/ /\ h # None
          /\ mtx' = t
          /\ handlers' = Erased(arg[t])
          /\ ptr' = [ptr EXCEPT ![t] = h]
          /\ pc' = [pc EXCEPT ![t] = "destroy"]
          /\ kernel' = Signalled(arg[t], h)
          /\ UNCHANGED <<object, over, arg, recurred>>
    /\ shared' = [Overlap(t, arg[t]) EXCEPT ![t] = FALSE]

(***************************************************************************)
(* terminate: everything under the mutex.  Only a child that has not been  *)
(* waited for is signalled.  An unknown pid is ignored.                    *)
(***************************************************************************)
terminate(t, p) ==
    /\ pc[t] = "idle"
    /\ mtx = None
    /\ handlers[p] # None
    /\ mtx' = t
    /\ pc' = [pc EXCEPT ![t] = "destroy"]
    /\ arg' = [arg EXCEPT ![t] = p]
    /\ ptr' = [ptr EXCEPT ![t] = handlers[p]]
    /\ handlers' = Erased(p)
    /\ kernel' = Signalled(p, handlers[p])
    /\ shared' = Overlap(t, p)
    /\ UNCHANGED <<object, over, recurred>>

\* proc_->wait() returns.
Ended_Bug(t) == TRUE

Ended(t) == over[ptr[t]] \/ kernel[arg[t]] = "zombie"

\* The rest of the critical section: wait for the child, free the handler.
Destroy(t) ==
    /\ pc[t] = "destroy"
    /\ Ended(t)
    /\ kernel' = [kernel EXCEPT ![arg[t]] = IF ~over[ptr[t]] /\ @ = "zombie"
                                            THEN "none" ELSE @]
    /\ object' = [object EXCEPT ![ptr[t]] = None]
    /\ mtx' = None
    /\ Return(t)
    /\ UNCHANGED <<handlers, over, shared, recurred>>

-----------------------------------------------------------------------------
\* A child ends by itself; a killed child ends.
ChildExit(p) ==
    /\ kernel[p] = "live"
    /\ kernel' = [kernel EXCEPT ![p] = "zombie"]
    /\ UNCHANGED <<mtx, table, calls, recurred>>

KillTakesEffect(p) ==
    /\ kernel[p] = "killed"
    /\ kernel' = [kernel EXCEPT ![p] = "zombie"]
    /\ UNCHANGED <<mtx, table, calls, recurred>>

Reap_Bug(h) ==
    /\ object[h] # None /\ ~over[h] /\ kernel[object[h]] = "zombie"
    /\ object' = [object EXCEPT ![h] = None]
    /\ handlers' = [handlers EXCEPT ![object[h]] = None]
    /\ kernel' = [kernel EXCEPT ![object[h]] = "none"]
    /\ UNCHANGED <<mtx, over, calls, recurred>>

\* asio waits for a child that has ended and runs its exit callback.
Reap(h) ==
    /\ object[h] # None /\ ~over[h] /\ kernel[object[h]] = "zombie"
    /\ over' = [over EXCEPT ![h] = TRUE]
    /\ kernel' = [kernel EXCEPT ![object[h]] = "none"]
    /\ UNCHANGED <<mtx, handlers, object, calls, recurred>>

Next ==
    \/ \E t \in Threads :
          \/ spawn(t) \/ insert(t) \/ BeginWait(t) \/ WaitReturns(t) \/ remove(t) \/ Destroy(t)
          \/ \E p \in Pids : wait(t, p) \/ terminate(t, p)
    \/ \E p \in Pids : ChildExit(p) \/ KillTakesEffect(p)
    \/ \E h \in Handlers : Reap(h)

Spec == Init /\ [][Next]_vars

\* Threads are scheduled and SIGKILL works; children need not end.
Fairness ==
    /\ \A t \in Threads : WF_vars(Destroy(t))
    /\ \A p \in Pids : WF_vars(KillTakesEffect(p))

LiveSpec == Spec /\ Fairness

-----------------------------------------------------------------------------
(***************************************************************************)
(* An entry of the table is never dangling, even while wait() is between   *)
(* its critical sections or a pid comes back: it points to an object that  *)
(* exists and whose child has that pid, and to no object another thread is *)
(* about to insert or destroy.                                             *)
(***************************************************************************)
TableIsSound ==
    \A p \in Pids :
        handlers[p] # None =>
            /\ object[handlers[p]] = p
            /\ \A t \in Threads : pc[t] \in {"insert", "destroy"} => ptr[t] # handlers[p]

(***************************************************************************)
(* wait() uses a freed handler, or removes another one than it waited for, *)
(* only if another wait or terminate on the same pid overlapped it, or its *)
(* pid came back while it was in use: a caller that is the only one to act *)
(* on its child is safe, also from asio's own wait for the child.          *)
(***************************************************************************)
DanglingNeedsOverlap ==
    \A t \in Threads :
        (pc[t] \in {"wait", "blocked", "remove"} /\ ~shared[t] /\ arg[t] \notin recurred) =>
            object[ptr[t]] = arg[t] /\ handlers[arg[t]] = ptr[t]

(***************************************************************************)
(* No child escapes: unless its pid came back while it was in use, every   *)
(* process that has not been waited for can be reached through the table   *)
(* or is in the hands of the thread that spawns or destroys it.  After     *)
(* terminate() nothing of the child is left.                               *)
(***************************************************************************)
EveryChildIsControlled ==
    \A p \in Pids \ recurred :
        kernel[p] # "none" =>
            \/ handlers[p] # None /\ ~over[handlers[p]]
            \/ \E t \in Threads : pc[t] \in {"insert", "destroy"} /\ arg[t] = p

(***************************************************************************)
(* The mutex is never held for ever, whatever children do: terminate()     *)
(* waits with the mutex only for a child it has killed or that has ended,  *)
(* and a thread that waits for a child that hangs doesn't hold the table.  *)
(***************************************************************************)
TerminateReturns == \A t \in Threads : mtx = t ~> mtx # t
=============================================================================
