-------------------------- MODULE MCInvocationLock --------------------------
(***************************************************************************)
(* InvocationLock with three invocations and up to three builds.           *)
(***************************************************************************)
EXTENDS InvocationLock, TLC

CONSTANTS p1, p2, p3

\* Invocations are told apart by nothing but their state.
InvSymmetry == Permutations(Invs)
=============================================================================
