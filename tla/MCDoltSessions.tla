---------------------------- MODULE MCDoltSessions ----------------------------
(***************************************************************************)
(* Model-checking instance of DoltSessions: the sessions are alike.         *)
(***************************************************************************)
EXTENDS DoltSessions, TLC

Symmetry == Permutations(Sessions)
===============================================================================
