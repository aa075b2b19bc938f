-------------------------- MODULE MCProcessHandler --------------------------
(***************************************************************************)
(* Process_Handler for TLC: the child fills its standard output with two   *)
(* lines and goes on, and writes one line to its standard error.           *)
(***************************************************************************)
EXTENDS ProcessHandler

MCMaxLines == [s \in Streams |-> IF s = "stdout" THEN 3 ELSE 1]
=============================================================================
