-------------------------- MODULE MCProcessKiller --------------------------
(***************************************************************************)
(* elegant_kill for TLC, with every iterator of small unsigned numbers.    *)
(***************************************************************************)
EXTENDS ProcessKiller

MCRetries == Iterators
=============================================================================
