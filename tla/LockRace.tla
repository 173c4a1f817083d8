------------------------------ MODULE LockRace ------------------------------
(***************************************************************************)
(* InvocationLock without crashes and robsd-kill, for an operator who      *)
(* starts invocations one at a time and for one who does not.              *)
(***************************************************************************)
EXTENDS InvocationLock

CONSTANT RaceDirs \* bound on the builds of invocations started together

VARIABLE apart \* whether invocations are started one at a time

raceVars == <<vars, apart>>

\* A start while no other invocation is starting.
StartsApart ==
  \A p \in Invs : pc[p] = "off" /\ pc'[p] # "off" => \A q \in Invs : pc[q] \notin Starting

RaceInit == Init /\ apart \in BOOLEAN

RaceNext ==
  /\ Next
  /\ IF apart THEN StartsApart ELSE \A p \in Invs : dir'[p] <= RaceDirs
  /\ UNCHANGED apart

RaceSpec == RaceInit /\ [][RaceNext]_raceVars /\ \A p \in Invs : WF_raceVars(Continue(p) /\ UNCHANGED apart)

\* NoStrayLock, NoEmptyBuild and ReportsOwnBuild, of invocations started one at
\* a time: the exit trap leaves no lock and no empty build behind, and the
\* report that trap_exit writes is about the build it is in.
QuietExit == apart => NoStrayLock /\ NoEmptyBuild /\ ReportsOwnBuild
=============================================================================
