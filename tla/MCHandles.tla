------------------------------ MODULE MCHandles ------------------------------
(***************************************************************************)
(* Two environments, two connections and two statements, interchangeable   *)
(* within each kind.  TIMEOUT is absent or refused (0) or 5, the default 3,*)
(* the login timeout off (0) or 2.                                         *)
(***************************************************************************)
EXTENDS Handles, TLC

Symmetry == Permutations(Envs) \cup Permutations(Dbcs) \cup Permutations(Stmts)
=============================================================================
