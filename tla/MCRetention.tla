---------------------------- MODULE MCRetention ----------------------------
(***************************************************************************)
(* Retention for two invocations and an operator.                          *)
(***************************************************************************)
EXTENDS Retention, TLC

CONSTANTS p1, p2, op

NoBuilds == {}

Symmetry == Permutations(Invs)
=============================================================================
