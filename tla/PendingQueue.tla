---------------------------- MODULE PendingQueue ----------------------------
(***************************************************************************)
(* aps::Pending_Q between the threads that push jobs and the thread of the *)
(* io_context, at the grain of the calls run_loop makes: empty(), front(), *)
(* then pop(), with pushes by other threads and the push of handle_timeout *)
(* between them.  empty, push and pop hold the mutex for their whole body. *)
(* front() takes no lock: it reads the first element while a push may be   *)
(* under way; push_back neither moves that element nor the deque's pointer *)
(* to it, so what front() returns is the head.                             *)
(*                                                                         *)
(* Scheduler takes the three calls as one step.  This module shows what    *)
(* that rests on: there is one consumer.                                   *)
(*                                                                         *)
(* A definition whose name ends in Bug is a faulty variant of the one      *)
(* after it; it shows that a property can fail.  Nothing else uses it.     *)
(***************************************************************************)
EXTENDS Integers, Sequences

CONSTANTS
    Jobs,           \* what is pushed
    Consumers,      \* threads that run run_loop: one, the io_context's
    MaxPushes       \* bound: pushes in all

VARIABLES
    q,              \* q_
    pc,             \* per consumer, the call of run_loop it makes next
    seen,           \* per consumer, the job front() answered, or none
    pushed,         \* history: every job pushed, in order
    popped          \* history: every job popped, with the job checked for it

vars == <<q, pc, seen, pushed, popped>>

Init ==
    /\ q = << >>
    /\ pc = [c \in Consumers |-> "empty"]
    /\ seen = [c \in Consumers |-> << >>]
    /\ pushed = << >>
    /\ popped = << >>

push(pj) ==
    /\ Len(pushed) < MaxPushes
    /\ q' = Append(q, pj)
    /\ pushed' = Append(pushed, pj)
    /\ UNCHANGED <<pc, seen, popped>>

empty_Bug(c) ==
    /\ pc[c] = "empty"
    /\ pc' = [pc EXCEPT ![c] = "front"]
    /\ UNCHANGED <<q, seen, pushed, popped>>

\* A pass that finds the queue empty is over.
empty(c) ==
    /\ pc[c] = "empty"
    /\ q # << >>
    /\ pc' = [pc EXCEPT ![c] = "front"]
    /\ UNCHANGED <<q, seen, pushed, popped>>

\* schedulable may turn the job down, which ends the pass.  On an empty deque
\* front and pop are undefined; PopsWhatItChecked says that never matters.
front(c) ==
    /\ pc[c] = "front"
    /\ q # << >>
    /\ \/ /\ pc' = [pc EXCEPT ![c] = "pop"]
          /\ seen' = [seen EXCEPT ![c] = <<Head(q)>>]
       \/ /\ pc' = [pc EXCEPT ![c] = "empty"]
          /\ UNCHANGED seen
    /\ UNCHANGED <<q, pushed, popped>>

pop(c) ==
    /\ pc[c] = "pop"
    /\ q # << >>
    /\ popped' = Append(popped, [job |-> Head(q), checked |-> seen[c]])
    /\ q' = Tail(q)
    /\ pc' = [pc EXCEPT ![c] = "empty"]
    /\ seen' = [seen EXCEPT ![c] = << >>]
    /\ UNCHANGED pushed

Next ==
    \/ \E pj \in Jobs : push(pj)
    \/ \E c \in Consumers : empty(c) \/ front(c) \/ pop(c)

Spec == Init /\ [][Next]_vars

-----------------------------------------------------------------------------
(***************************************************************************)
(* The three calls act as one.  front() and pop() are never called on an   *)
(* empty deque, which would be undefined; the job schedule() gets is the   *)
(* job schedulable() was asked about; and jobs are popped in the order     *)
(* they were pushed, none lost or repeated.                                *)
(***************************************************************************)
PopsWhatItChecked ==
    /\ \A c \in Consumers : pc[c] \in {"front", "pop"} => q # << >>
    /\ \A i \in DOMAIN popped : popped[i].checked = <<popped[i].job>>
    /\ pushed = [i \in DOMAIN popped |-> popped[i].job] \o q
=============================================================================
