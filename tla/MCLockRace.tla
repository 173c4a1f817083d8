----------------------------- MODULE MCLockRace -----------------------------
(***************************************************************************)
(* LockRace for three invocations.                                         *)
(***************************************************************************)
EXTENDS LockRace

CONSTANTS p1, p2, p3
=============================================================================
