-------------------------------- MODULE Lru --------------------------------
(***************************************************************************)
(* LRU<Key, Value>: a list of key-value pairs, most recently used first,   *)
(* and a map from keys to nodes of that list.  Every operation holds the   *)
(* mutex for its whole body.  List nodes have an identity (an address):    *)
(* the map is right only as long as its iterators are.                     *)
(*                                                                         *)
(* A definition whose name ends in Bug is a faulty variant of the one      *)
(* after it; it shows that a property can fail.  Nothing else uses it.     *)
(***************************************************************************)
EXTENDS Integers, Sequences, FiniteSets

CONSTANTS
    Keys,
    Values,
    Nodes,          \* addresses of list nodes: as many as the list may hold
    Capacity,       \* positive: with 0, put() would call back() on an empty list
    None

VARIABLES
    list,       \* list_, as its nodes from front to back
    elem,       \* per node, its [key, value] pair, or None if it is free
    cache       \* cache_, per key a node, or None

vars == <<list, elem, cache>>

Init ==
    /\ list = << >>
    /\ elem = [n \in Nodes |-> None]
    /\ cache = [k \in Keys |-> None]

\* list_ without the node an iterator points to.
Without(n) ==
    LET i == CHOOSE i \in DOMAIN list : list[i] = n
    IN  SubSeq(list, 1, i - 1) \o SubSeq(list, i + 1, Len(list))

\* list_.splice(list_.begin(), list_, it)
ToFront_Bug(n) == list

ToFront(n) == <<n>> \o Without(n)

\* The value get(k) returns, or None.
Lookup(k) == IF cache[k] = None THEN None ELSE elem[cache[k]].value

get(k) ==
    /\ cache[k] # None
    /\ list' = ToFront(cache[k])
    /\ UNCHANGED <<elem, cache>>

\* The else branch of put(): evict if full, then add k at the front.
Insert(k, v) ==
    LET full   == Len(list) = Capacity
        victim == list[Len(list)]
        kept   == IF full THEN SubSeq(list, 1, Len(list) - 1) ELSE list
        freed  == IF full THEN [elem EXCEPT ![victim] = None] ELSE elem
        known  == IF full THEN [cache EXCEPT ![elem[victim].key] = None] ELSE cache
    IN  \E n \in Nodes :
           /\ freed[n] = None
           /\ list' = <<n>> \o kept
           /\ elem' = [freed EXCEPT ![n] = [key |-> k, value |-> v]]
           /\ cache' = [known EXCEPT ![k] = n]

put(k, v) ==
    \/ /\ cache[k] # None
       /\ elem' = [elem EXCEPT ![cache[k]].value = v]
       /\ list' = ToFront(cache[k])
       /\ UNCHANGED cache
    \/ cache[k] = None /\ Insert(k, v)

erase_Bug(k) ==
    /\ cache[k] # None
    /\ list' = Without(cache[k])
    /\ elem' = [elem EXCEPT ![cache[k]] = None]
    /\ UNCHANGED cache

erase(k) ==
    /\ cache[k] # None
    /\ list' = Without(cache[k])
    /\ elem' = [elem EXCEPT ![cache[k]] = None]
    /\ cache' = [cache EXCEPT ![k] = None]

Next ==
    \E k \in Keys : get(k) \/ erase(k) \/ \E v \in Values : put(k, v)

Spec == Init /\ [][Next]_vars

-----------------------------------------------------------------------------
(***************************************************************************)
(* List and map describe the same cache: each key the map knows leads to   *)
(* the one node of the list that holds it, each node of the list is known, *)
(* no freed node is reachable, and the capacity is kept.                   *)
(***************************************************************************)
MapMatchesList ==
    /\ Len(list) <= Capacity
    /\ \A i, j \in DOMAIN list : list[i] = list[j] => i = j
    /\ \A k \in Keys :
          cache[k] # None => /\ \E i \in DOMAIN list : list[i] = cache[k]
                             /\ elem[cache[k]] # None
                             /\ elem[cache[k]].key = k
    /\ \A i \in DOMAIN list : elem[list[i]] # None /\ cache[elem[list[i]].key] = list[i]
    /\ \A n \in Nodes : elem[n] # None => \E i \in DOMAIN list : list[i] = n
=============================================================================
