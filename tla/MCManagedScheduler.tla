------------------------- MODULE MCManagedScheduler -------------------------
(***************************************************************************)
(* ManagedScheduler for TLC.  Process ids with the same kind of entry are  *)
(* interchangeable: the kernel hands out the least of each kind.           *)
(***************************************************************************)
EXTENDS ManagedScheduler

MCLostStatuses == {-1}

CanonicalPids ==
    \A p, q \in Pids :
        child[p] = "unused" /\ child'[p] # "unused" /\ q < p /\ child[q] = "unused" =>
            handlers[q] # handlers[p]

\* Bound: only the first id is submitted more than once.
SecondIdOnce == submitted'[2] <= 1
=============================================================================
