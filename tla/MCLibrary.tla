----------------------------- MODULE MCLibrary -----------------------------
(***************************************************************************)
(* The objects the rest of the program is built from, for TLC: LRU,        *)
(* Pending_Q, string_sprintf, CURL_Client and P90_Estimator.  They don't   *)
(* interact.  A behaviour runs one of them, named by part.  The variables  *)
(* of the first four share the places a to f; the estimator has its own.   *)
(***************************************************************************)
EXTENDS MCP90Estimator

CONSTANTS
    Keys, Values, Nodes, CacheCapacity, None, MaxCalls,
    Jobs, Consumers, MaxPushes,
    InitialSize, MaxOld, MaxText,
    Requests, Responses, MaxSends

(***************************************************************************)
(* None is neither a list node nor what one holds and a cache has room;    *)
(* one thread consumes a Pending_Q; SPRINTF_INITIAL_SIZE is positive; a    *)
(* request has the members of CURL_Request.                                *)
(***************************************************************************)
ASSUME LibraryAssumption ==
    /\ None \notin Nodes /\ None \notin [key : Keys, value : Values]
    /\ CacheCapacity \in Nat \ {0}
    /\ \E ioc \in Consumers : Consumers = {ioc}
    /\ InitialSize \in Nat \ {0} /\ MaxOld \in Nat /\ MaxText \in Nat
    /\ Requests \subseteq [method : STRING, target : STRING, user_agent : STRING, headers : Nat,
                           follow_redirects : BOOLEAN, verify_ssl_peer : BOOLEAN,
                           verify_ssl_host : BOOLEAN]

VARIABLES part, a, b, c, d, e, f

MCRequests ==
    {[method |-> "GET", target |-> "x", user_agent |-> "", headers |-> 0,
      follow_redirects |-> FALSE, verify_ssl_peer |-> FALSE, verify_ssl_host |-> FALSE],
     [method |-> "POST", target |-> "y", user_agent |-> "inks", headers |-> 2,
      follow_redirects |-> TRUE, verify_ssl_peer |-> TRUE, verify_ssl_host |-> TRUE]}

L == INSTANCE MCLru
         WITH Capacity <- CacheCapacity,
              list <- a, elem <- b, cache <- c, now <- d, lastUse <- e, lastPut <- f

Q == INSTANCE PendingQueue
         WITH q <- a, pc <- b, seen <- c, pushed <- d, popped <- e

S == INSTANCE StringSprintf
         WITH str <- a, before <- b, append <- c, need <- d, rounds <- e, result <- f

C == INSTANCE CurlClient
         WITH handle <- a, sends <- b, req <- c, to <- d, resp <- e, pc <- f

places == <<part, a, b, c, d, e, f, samples, counted>>

LibraryInit ==
    /\ HistoryInit
    /\ \/ part = "lru" /\ L!MCInit
       \/ part = "queue" /\ Q!Init /\ f = None
       \/ part = "sprintf" /\ S!Init
       \/ part = "curl" /\ C!Init
       \/ part = "p90" /\ a = None /\ b = None /\ c = None /\ d = None /\ e = None /\ f = None

LibraryNext ==
    /\ UNCHANGED part
    /\ \/ /\ UNCHANGED <<samples, counted>>
          /\ \/ part = "lru" /\ L!MCNext
             \/ part = "queue" /\ Q!Next /\ UNCHANGED f
             \/ part = "sprintf" /\ S!Next
             \/ part = "curl" /\ C!Next
       \/ part = "p90" /\ MCNext /\ UNCHANGED <<a, b, c, d, e, f>>

LibrarySpec == LibraryInit /\ [][LibraryNext]_places

-----------------------------------------------------------------------------
(***************************************************************************)
(* LRU: list and map describe the same cache (Lru), and get() answers the  *)
(* last put() (MCLru).                                                     *)
(***************************************************************************)
CacheIsConsistent == part = "lru" => L!MapMatchesList /\ L!GetAnswersLastPut

(***************************************************************************)
(* LRU: what is evicted was not used for the longest time (MCLru).         *)
(***************************************************************************)
EvictsLeastRecentlyUsed == [][part = "lru" => L!Evicts]_<<a, b, c>>

(***************************************************************************)
(* Pending_Q: empty(), front() and pop() act as one (PendingQueue).        *)
(***************************************************************************)
PopsWhatItChecked == part = "queue" => Q!PopsWhatItChecked

(***************************************************************************)
(* string_vsprintf: the text is whole (StringSprintf).                     *)
(***************************************************************************)
FormatsWhole == part = "sprintf" => S!FormatsWhole

(***************************************************************************)
(* CURL_Client: a used handle sends this request only, with certificates   *)
(* verified whatever it asks (CurlClient).                                 *)
(***************************************************************************)
PerformsThisRequest == part = "curl" => C!PerformsThisRequest

(***************************************************************************)
(* CURL_Client: a response never mixes two transfers (CurlClient).         *)
(***************************************************************************)
ResponseIsOfOneSend == part = "curl" => C!ResponseIsOfOneSend
=============================================================================
