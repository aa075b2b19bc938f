---------------------------- MODULE MCHttpServer ----------------------------
(***************************************************************************)
(* The HTTP server for TLC: the client of connection 1 may pipeline two    *)
(* requests, the one of connection 2 sends one.                            *)
(***************************************************************************)
EXTENDS HttpServer

MCMaxRequests == <<2, 1>>
=============================================================================
