--------------------------- MODULE MCHandleThreads ---------------------------
(***************************************************************************)
(* Threads of an application on one environment.                           *)
(***************************************************************************)
EXTENDS HandleThreads
=============================================================================
