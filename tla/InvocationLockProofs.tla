------------------------ MODULE InvocationLockProofs ------------------------
(***************************************************************************)
(* Theorems of InvocationLock, for any number of invocations and builds:   *)
(* with an operator who starts one invocation at a time and leaves live    *)
(* builds to themselves, the lock is a mutex, whatever robsd-kill, crashes *)
(* and robsd-rescue do.                                                    *)
(***************************************************************************)
EXTENDS LockRace, TLAPS

\* The operator the lock can rely on.
Orderly == Careful /\ ~Overlap

\* The labels from a successful lock_acquire, or a successful cmp in the exit
\* trap, to the removal of the file.
Owning == Working \cup {"owner", "unflagged"}

\* At most one invocation is between build_id and the end of lock_acquire.
OneStarter ==
  \A p, q \in Invs : pc[p] \in Starting /\ pc[q] \in Starting => p = q

\* robsd-rescue has the files to itself.
RescueAlone == rpc # "off" => NobodyAlive

\* A build directory exists from build_init on.
DirMade == \A p \in Invs : Alive(p) /\ pc[p] # "named" => dir[p] \in made

\* An owner is named by .running.
OwnerNamed == \A p \in Invs : pc[p] \in Owning => Names(dir[p])

\* Nobody became the owner since a starting invocation looked.
ReadCurrent ==
  \A p \in Invs : pc[p] = "read" => Vacant \/ Names(dir[p])

IInv ==
  /\ TypeOK
  /\ OneStarter
  /\ RescueAlone
  /\ DirMade
  /\ StepsKept
  /\ OneBuildEach
  /\ OwnerNamed
  /\ ReadCurrent

USE DEF Dirs, Empty, Absent, Alive, Names, Vacant, HasSteps, Starting, Working, Owning,
        lockVars, dirVars, toolVars, Goto

LEMMA InitInvariant == Init => IInv
BY DEF Init, IInv, TypeOK, PCs, KPCs, RPCs, OneStarter, RescueAlone,
       NobodyAlive, DirMade, StepsKept, OneBuildEach, OwnerNamed,
       ReadCurrent

\* Types are preserved whoever the operator is.
LEMMA TypeStep == TypeOK /\ [Next]_vars => TypeOK'
<1> SUFFICES ASSUME TypeOK, [Next]_vars PROVE TypeOK'
  OBVIOUS
<1> USE MaxDirAssumption DEF TypeOK, PCs, KPCs, RPCs
<1>1. ASSUME NEW p \in Invs, Start(p) PROVE TypeOK'
  BY <1>1 DEF Start, NextDir
<1>2. ASSUME NEW p \in Invs, Resume(p) PROVE TypeOK'
  BY <1>2 DEF Resume
<1>3. ASSUME NEW p \in Invs, Continue(p) PROVE TypeOK'
  <2>1. CASE BuildInit(p)
    BY <2>1 DEF BuildInit
  <2>2. CASE AcquireRead(p)
    BY <2>2 DEF AcquireRead
  <2>3. CASE AcquireWrite(p)
    BY <2>3 DEF AcquireWrite
  <2>4. CASE StepStart(p)
    BY <2>4 DEF StepStart
  <2>5. CASE StepFinish(p)
    BY <2>5 DEF StepFinish
  <2>6. CASE AliveTouch(p)
    BY <2>6 DEF AliveTouch
  <2>7. CASE AliveCompare(p)
    BY <2>7 DEF AliveCompare
  <2>8. CASE Report(p)
    BY <2>8 DEF Report
  <2>9. CASE ReleaseCompare(p)
    BY <2>9 DEF ReleaseCompare
  <2>10. CASE ReleaseUnflag(p)
    BY <2>10 DEF ReleaseUnflag
  <2>11. CASE ReleaseRemove(p)
    BY <2>11 DEF ReleaseRemove
  <2>12. CASE Cleanup(p)
    BY <2>12 DEF Cleanup
  <2>13. CASE Prepare(p)
    BY <2>13 DEF Prepare
  <2>14. CASE StepRetry(p)
    BY <2>14 DEF StepRetry
  <2> QED
    BY <1>3, <2>1, <2>2, <2>3, <2>4, <2>5, <2>6, <2>7, <2>8, <2>9, <2>10,
       <2>11, <2>12, <2>13, <2>14 DEF Continue
<1>4. CASE Kill
  <2>1. CASE KillCheck
    BY <2>1 DEF KillCheck
  <2>2. CASE KillFlag
    BY <2>2 DEF KillFlag
  <2>3. CASE KillSteps
    BY <2>3 DEF KillSteps
  <2>4. CASE KillDone
    BY <2>4 DEF KillDone
  <2> QED
    BY <1>4, <2>1, <2>2, <2>3, <2>4
       DEF Kill
<1>5. CASE Rescue
  <2>1. CASE RescueRead
    BY <2>1 DEF RescueRead
  <2>2. CASE RescueRefused
    BY <2>2 DEF RescueRefused
  <2>3. CASE RescueWrite
    BY <2>3 DEF RescueWrite
  <2>4. CASE RescueCompare
    BY <2>4 DEF RescueCompare
  <2>5. CASE RescueUnflag
    BY <2>5 DEF RescueUnflag
  <2>6. CASE RescueRemove
    BY <2>6 DEF RescueRemove
  <2>7. CASE RescueExit
    BY <2>7 DEF RescueExit
  <2> QED
    BY <1>5, <2>1, <2>2, <2>3, <2>4, <2>5, <2>6, <2>7
       DEF Rescue
<1>6. CASE Crash
  BY <1>6 DEF Crash
<1>7. CASE UNCHANGED vars
  BY <1>7 DEF vars
<1> QED
  BY <1>1, <1>2, <1>3, <1>4, <1>5, <1>6, <1>7 DEF Next

\* The state is always well formed.
THEOREM TypeCorrect == Spec => []TypeOK
<1>1. Init => TypeOK
  BY InitInvariant DEF IInv
<1> QED
  BY <1>1, TypeStep, PTL DEF Spec
-----------------------------------------------------------------------------
(***************************************************************************)
(* Mutual exclusion.                                                       *)
(***************************************************************************)

\* The conjuncts of the invariant besides the types.
Exclusion ==
  /\ OneStarter
  /\ RescueAlone
  /\ DirMade
  /\ StepsKept
  /\ OneBuildEach
  /\ OwnerNamed
  /\ ReadCurrent

\* Invocations may overlap, as long as none starts while another is starting.
LEMMA StepInvariant ==
  ASSUME Careful, IInv, [Next]_vars, Overlap => StartsApart
  PROVE  IInv'
<1>1. TypeOK'
  BY TypeStep DEF IInv
<1>2. SUFFICES Exclusion'
  BY <1>1 DEF IInv, Exclusion
<1> USE DEF IInv, TypeOK, Exclusion, OneStarter, RescueAlone,
            NobodyAlive, DirMade, StepsKept, OneBuildEach, OwnerNamed,
            ReadCurrent, MayStart
<1>3. ASSUME NEW p \in Invs, Start(p) PROVE Exclusion'
  BY <1>3 DEF Start, NextDir, StartsApart
<1>4. ASSUME NEW p \in Invs, Resume(p) PROVE Exclusion'
  BY <1>4 DEF Resume, StartsApart
<1>5. ASSUME NEW p \in Invs, BuildInit(p) PROVE Exclusion'
  BY <1>5 DEF BuildInit
<1>6. ASSUME NEW p \in Invs, AcquireRead(p) PROVE Exclusion'
  BY <1>6 DEF AcquireRead
<1>7. ASSUME NEW p \in Invs, AcquireWrite(p) PROVE Exclusion'
  BY <1>7 DEF AcquireWrite
<1>8. ASSUME NEW p \in Invs, StepStart(p) PROVE Exclusion'
  BY <1>8 DEF StepStart
<1>9. ASSUME NEW p \in Invs, StepFinish(p) PROVE Exclusion'
  BY <1>9 DEF StepFinish
<1>10. ASSUME NEW p \in Invs, AliveTouch(p) PROVE Exclusion'
  BY <1>10 DEF AliveTouch
<1>11. ASSUME NEW p \in Invs, AliveCompare(p) PROVE Exclusion'
  BY <1>11 DEF AliveCompare
<1>12. ASSUME NEW p \in Invs, Report(p) PROVE Exclusion'
  BY <1>12 DEF Report
<1>13. ASSUME NEW p \in Invs, ReleaseCompare(p) PROVE Exclusion'
  BY <1>13 DEF ReleaseCompare
<1>14. ASSUME NEW p \in Invs, ReleaseUnflag(p) PROVE Exclusion'
  BY <1>14 DEF ReleaseUnflag
<1>15. ASSUME NEW p \in Invs, ReleaseRemove(p) PROVE Exclusion'
  BY <1>15 DEF ReleaseRemove
<1>16. ASSUME NEW p \in Invs, Cleanup(p) PROVE Exclusion'
  BY <1>16 DEF Cleanup
<1>17. CASE KillCheck
  BY <1>17 DEF KillCheck
<1>18. CASE KillFlag
  BY <1>18 DEF KillFlag
<1>19. CASE KillSteps
  BY <1>19 DEF KillSteps
<1>20. CASE KillDone
  BY <1>20 DEF KillDone
<1>21. CASE RescueRead
  BY <1>21 DEF RescueRead
<1>22. CASE RescueRefused
  BY <1>22 DEF RescueRefused
<1>23. CASE RescueWrite
  BY <1>23 DEF RescueWrite
<1>24. CASE RescueCompare
  BY <1>24 DEF RescueCompare
<1>25. CASE RescueUnflag
  BY <1>25 DEF RescueUnflag
<1>26. CASE RescueRemove
  BY <1>26 DEF RescueRemove
<1>27. CASE RescueExit
  BY <1>27 DEF RescueExit
<1>28. CASE Crash
  BY <1>28 DEF Crash
<1>29. CASE UNCHANGED vars
  BY <1>29 DEF vars
<1>30. ASSUME NEW p \in Invs, Prepare(p) PROVE Exclusion'
  BY <1>30 DEF Prepare
<1>31. ASSUME NEW p \in Invs, StepRetry(p) PROVE Exclusion'
  BY <1>31 DEF StepRetry
<1> QED
  BY <1>30, <1>31, <1>3, <1>4, <1>5, <1>6, <1>7, <1>8, <1>9, <1>10, <1>11, <1>12, <1>13, <1>14, <1>15, <1>16, <1>17, <1>18, <1>19, <1>20, <1>21, <1>22, <1>23, <1>24, <1>25, <1>26, <1>27, <1>28, <1>29
     DEF Next, Continue, Kill, Rescue

LEMMA Invariance == ASSUME Orderly PROVE Spec => []IInv
<1>1. IInv /\ [Next]_vars => IInv'
  BY StepInvariant DEF Orderly
<1> QED
  BY <1>1, InitInvariant, PTL DEF Spec

\* An orderly operator is all that lock_acquire needs to be a mutex: kills,
\* crashes, resumed builds and rescues do not let two invocations in.
THEOREM MutualExclusion == ASSUME Orderly PROVE Spec => []Mutex
<1>1. IInv => Mutex
  BY DEF IInv, OneBuildEach, OwnerNamed, Mutex
<1> QED
  BY <1>1, Invariance, PTL

\* Nor do two live invocations ever share a build directory.
THEOREM DistinctBuilds == ASSUME Orderly PROVE Spec => []OneBuildEach
<1>1. IInv => OneBuildEach
  BY DEF IInv
<1> QED
  BY <1>1, Invariance, PTL

\* The exit trap never removes a build in which a step was run and whose
\* step.csv is intact.
THEOREM BuildsSurvive == ASSUME Orderly PROVE Spec => []StepsKept
<1>1. IInv => StepsKept
  BY DEF IInv
<1> QED
  BY <1>1, Invariance, PTL

\* lock_release never removes a lock that names another build, although the
\* comparison and the removal are separate commands.
THEOREM ReleaseIsOwn == ASSUME Orderly PROVE Spec => RemovesOwnLock
<1>1. IInv => \A p \in Invs : ReleaseRemove(p) => Names(dir[p])
  BY DEF IInv, OwnerNamed, ReleaseRemove
<1> QED
  BY <1>1, Invariance, PTL DEF RemovesOwnLock
-----------------------------------------------------------------------------
(***************************************************************************)
(* What the exit trap leaves behind.  Nothing is left by invocations that  *)
(* exit through it, so without crashes and robsd-kill .running exists only *)
(* while there is somebody to remove it.                                   *)
(***************************************************************************)

\* From lock_acquire to rm of lock_release, a failed invocation included.
Holding == Working \cup {"failed", "ended", "exiting", "owner", "unflagged"}

\* Whoever is named by .running is going to remove it.
LockHeld ==
  \/ running = Absent
  \/ \E p \in Invs : pc[p] \in Holding /\ Names(dir[p])
  \/ rpc \in {"locked", "owner", "unflagged"} /\ Names(rdir)

\* A build without steps has an exit trap to come.
EmptyOwned == \A d \in made \ ran : \E p \in Invs : Alive(p) /\ dir[p] = d

\* A resumed build is started on alone.
ResumedAlone ==
  \A p, q \in Invs : pc[p] \in Starting /\ dir[p] \in ran /\ Alive(q) => p = q

\* An exit trap that is going to report on a build with steps has the lock.
ReporterNamed ==
  \A p \in Invs : pc[p] \in {"failed", "ended"} /\ dir[p] \in ran => Names(dir[p])

Quiet ==
  /\ uchg = FALSE
  /\ kpc = "off"
  /\ lost = {}
  /\ LockHeld
  /\ EmptyOwned
  /\ ResumedAlone
  /\ ReporterNamed
  /\ ReportsOwnBuild

\* With no robsd-kill and no crash.
Undisturbed == Careful /\ ~Killing /\ ~Crashes

LEMMA QuietStep ==
  ASSUME Undisturbed, IInv, Quiet, [Next]_vars, StartsApart
  PROVE  Quiet'
<1> USE MaxDirAssumption
    DEF Undisturbed, Quiet, IInv, TypeOK, PCs, RPCs, Holding, LockHeld, EmptyOwned,
        ResumedAlone, ReporterNamed, ReportsOwnBuild, NobodyAlive, RescueAlone,
        DirMade, StepsKept, OneBuildEach, OwnerNamed, ReadCurrent, OneStarter
<1>1. ASSUME NEW p \in Invs, Start(p) PROVE Quiet'
  BY <1>1 DEF Start, MayStart, NextDir, StartsApart
<1>2. ASSUME NEW p \in Invs, Resume(p) PROVE Quiet'
  BY <1>2 DEF Resume, MayStart, StartsApart
<1>3. ASSUME NEW p \in Invs, BuildInit(p) PROVE Quiet'
  BY <1>3 DEF BuildInit
<1>4. ASSUME NEW p \in Invs, AcquireRead(p) PROVE Quiet'
  BY <1>4 DEF AcquireRead
<1>5. ASSUME NEW p \in Invs, AcquireWrite(p) PROVE Quiet'
  BY <1>5 DEF AcquireWrite
<1>6. ASSUME NEW p \in Invs, StepStart(p) PROVE Quiet'
  BY <1>6 DEF StepStart
<1>7. ASSUME NEW p \in Invs, StepFinish(p) PROVE Quiet'
  BY <1>7 DEF StepFinish
<1>8. ASSUME NEW p \in Invs, AliveTouch(p) PROVE Quiet'
  BY <1>8 DEF AliveTouch
<1>9. ASSUME NEW p \in Invs, AliveCompare(p) PROVE Quiet'
  BY <1>9 DEF AliveCompare
<1>10. ASSUME NEW p \in Invs, Report(p) PROVE Quiet'
  BY <1>10 DEF Report
<1>11. ASSUME NEW p \in Invs, ReleaseCompare(p) PROVE Quiet'
  BY <1>11 DEF ReleaseCompare
<1>12. ASSUME NEW p \in Invs, ReleaseUnflag(p) PROVE Quiet'
  BY <1>12 DEF ReleaseUnflag
<1>13. ASSUME NEW p \in Invs, ReleaseRemove(p) PROVE Quiet'
  BY <1>13 DEF ReleaseRemove
<1>14. ASSUME NEW p \in Invs, Cleanup(p) PROVE Quiet'
  BY <1>14 DEF Cleanup
<1>15. CASE Kill
  BY <1>15 DEF Kill, KillCheck, KillFlag, KillSteps, KillDone
<1>16. CASE RescueRead \/ RescueRefused
  BY <1>16 DEF RescueRead, RescueRefused
<1>17. CASE RescueWrite
  BY <1>17 DEF RescueWrite
<1>18. CASE RescueCompare
  BY <1>18 DEF RescueCompare
<1>19. CASE RescueUnflag \/ RescueRemove
  BY <1>19 DEF RescueUnflag, RescueRemove
<1>20. CASE RescueExit
  BY <1>20 DEF RescueExit
<1>21. CASE Crash
  BY <1>21 DEF Crash
<1>22. CASE UNCHANGED vars
  BY <1>22 DEF vars
<1>23. ASSUME NEW p \in Invs, Prepare(p) PROVE Quiet'
  BY <1>23 DEF Prepare
<1>24. ASSUME NEW p \in Invs, StepRetry(p) PROVE Quiet'
  BY <1>24 DEF StepRetry
<1> QED
  BY <1>23, <1>24, <1>1, <1>2, <1>3, <1>4, <1>5, <1>6, <1>7, <1>8, <1>9, <1>10, <1>11, <1>12, <1>13,
     <1>14, <1>15, <1>16, <1>17, <1>18, <1>19, <1>20, <1>21, <1>22
     DEF Next, Continue, Rescue

\* Without crashes and robsd-kill, and with invocations started one at a time,
\* the exit trap leaves neither a lock nor an empty build behind, and what
\* trap_exit reports is about its own build, for any number of invocations.
THEOREM ExitsQuietly == ASSUME Undisturbed PROVE RaceSpec => []QuietExit
<1> DEFINE RInv == apart => IInv /\ Quiet
<1>1. RaceInit => RInv
  <2> SUFFICES ASSUME Init PROVE IInv /\ Quiet
    BY DEF RaceInit
  <2>1. Quiet
    BY DEF Init, Quiet, LockHeld, EmptyOwned, ResumedAlone, ReporterNamed, ReportsOwnBuild
  <2> QED
    BY <2>1, InitInvariant
<1>2. RInv /\ [RaceNext]_raceVars => RInv'
  <2> SUFFICES ASSUME RInv, [RaceNext]_raceVars, apart' PROVE (IInv /\ Quiet)'
    OBVIOUS
  <2>1. CASE RaceNext
    <3>1. IInv /\ Quiet /\ Next /\ StartsApart
      BY <2>1 DEF RaceNext
    <3> QED
      BY <3>1, StepInvariant, QuietStep DEF Undisturbed
  <2>2. CASE UNCHANGED raceVars
    <3>1. IInv /\ Quiet /\ UNCHANGED vars
      BY <2>2 DEF raceVars
    <3>2. StartsApart
      BY <3>1 DEF vars, StartsApart
    <3> QED
      BY <3>1, <3>2, StepInvariant, QuietStep DEF Undisturbed
  <2> QED
    BY <2>1, <2>2
<1>3. RInv => QuietExit
  BY DEF QuietExit, NoStrayLock, NoEmptyBuild, NobodyAlive, IInv, StepsKept, Quiet,
         LockHeld, EmptyOwned, Holding, ReportsOwnBuild
<1> QED
  BY <1>1, <1>2, <1>3, PTL DEF RaceSpec
=============================================================================
