-------------------------- MODULE MCP90Estimator --------------------------
(***************************************************************************)
(* P90Estimator with the history of the run times that count, and its      *)
(* bound for TLC.                                                          *)
(***************************************************************************)
EXTENDS P90Estimator

CONSTANT MaxReports     \* bound: run times of a second or more reported

VARIABLE counted        \* history: every run time of a second or more reported

HistoryInit == Init /\ counted = << >>

HistoryNext ==
    \E d \in Durations :
        /\ add(d)
        /\ counted' = IF d > 0 THEN Append(counted, d) ELSE counted

HistorySpec == HistoryInit /\ [][HistoryNext]_<<samples, counted>>

MCNext == Len(counted) < MaxReports /\ HistoryNext

MCSpec == HistoryInit /\ [][MCNext]_<<samples, counted>>

-----------------------------------------------------------------------------
\* The last run times of s, as many as the window holds.
Recent(s) ==
    SubSeq(s, IF Len(s) > Capacity THEN Len(s) - Capacity + 1 ELSE 1, Len(s))

(***************************************************************************)
(* After any number of calls of add, compute() answers the nearest-rank    *)
(* 90th percentile of the most recent run times of a second or more, as    *)
(* many as the window holds: neither dropping the oldest sample nor the    *)
(* integer arithmetic on the rank is off by one for any window length.     *)
(***************************************************************************)
ComputesP90 ==
    counted # << >> => IsNearestRankP90(Recent(counted), compute(samples))
=============================================================================
