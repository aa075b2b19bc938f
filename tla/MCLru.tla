------------------------------- MODULE MCLru -------------------------------
(***************************************************************************)
(* Lru against the history of its calls.                                   *)
(***************************************************************************)
EXTENDS Lru

CONSTANT MaxCalls   \* bound: calls in all

VARIABLES
    now,        \* number of calls so far
    lastUse,    \* history: per key, the last call of get or put that used it
    lastPut     \* history: per key, the value last put, None once erased

MCInit ==
    /\ Init
    /\ now = 0
    /\ lastUse = [k \in Keys |-> 0]
    /\ lastPut = [k \in Keys |-> None]

Used(k) == lastUse' = [lastUse EXCEPT ![k] = now + 1]

MCNext ==
    /\ now < MaxCalls
    /\ now' = now + 1
    /\ \E k \in Keys :
          \/ get(k) /\ Used(k) /\ UNCHANGED lastPut
          \/ \E v \in Values : put(k, v) /\ Used(k) /\ lastPut' = [lastPut EXCEPT ![k] = v]
          \/ erase(k) /\ lastPut' = [lastPut EXCEPT ![k] = None] /\ UNCHANGED lastUse

(***************************************************************************)
(* A key that drops out of the cache while another is put was the one that *)
(* get() and put() had not used for the longest time, and it drops out     *)
(* only because the cache was full.                                        *)
(***************************************************************************)
Evicts ==
    \A k \in Keys :
        (cache[k] # None /\ cache'[k] = None /\ lastPut'[k] # None) =>
            /\ Cardinality({j \in Keys : cache[j] # None}) = Capacity
            /\ \A j \in Keys : cache[j] # None => lastUse[k] <= lastUse[j]

(***************************************************************************)
(* What get() answers is the value of the last put() under that key, or    *)
(* nothing if the key was erased or evicted since; never another key's.    *)
(***************************************************************************)
GetAnswersLastPut == \A k \in Keys : Lookup(k) \in {lastPut[k], None}
=============================================================================
