---------------------------- MODULE RobsdProofs ----------------------------
(***************************************************************************)
(* Theorems of Robsd, for any number of steps, any choice of parallel,     *)
(* ignored and skipped ones and any number of crashes, retries, resumed    *)
(* invocations and uses of robsd-kill: as long as the end step itself is   *)
(* not among the skipped ones.                                             *)
(***************************************************************************)
EXTENDS Robsd, FiniteSetTheorems, TLAPS

\* `-s end` is not given.
EndsKept == Last \notin Skipped

\* The loop is inside an iteration, or about to begin one.
Looping == pc \notin {"returned", "off"}

\* The end step is not skipped, so the list of steps is never used up.
CurStep ==
  /\ row[Last] # "skip"
  /\ cur \in Steps
  /\ pc \in {"call", "check", "drain"} => cur # Last
  /\ pc = "end" => cur = Last

\* The job queue.
Queue ==
  /\ IsFiniteSet(jobs)
  /\ Cardinality(jobs) <= Ncpu
  /\ cur \notin Parallel /\ pc # "loop" => jobs = {}
  /\ pc \in {"ready", "call", "end"} => cur \notin Parallel
  /\ ~Looping => jobs = {}
  /\ \A s \in jobs : s <= cur /\ (pc = "loop" => s < cur)

\* What runs is a background job, or the step the loop has called.
Tracked ==
  \A s \in Steps :
    Active(s) => /\ s \in jobs \/ (pc = "call" /\ s = cur)
                 /\ s # Last
                 /\ row[s] \notin {"ok", "skip"}

\* Ahead of the current step the sequential ones have succeeded.
Ahead ==
  Looping =>
    /\ \A s \in Steps : s < cur /\ Strict(s) => row[s] \in {"ok", "skip"}
    /\ pc \in {"check", "drain"} /\ Strict(cur) => row[cur] = "ok"

\* Beyond the current step nothing was begun.
Beyond ==
  Looping =>
    /\ \A s \in Steps : s > cur => ~Recorded(s)
    /\ pc \in {"loop", "ready"} /\ cur # Last => row[cur] # "ok"
    /\ pc = "ready" => row[cur] # "skip"

\* A called step that is over has left its exit.
Left == pc = "call" => Active(cur) \/ row[cur] \in Codes

IInv ==
  /\ TypeOK
  /\ CurStep
  /\ Queue
  /\ Tracked
  /\ Ahead
  /\ Beyond
  /\ Left
  /\ InOrder

USE StepsAssumption, BoundsAssumption

LEMMA InitInvariant == EndsKept /\ Init => IInv
<1> SUFFICES ASSUME EndsKept, Init PROVE IInv
  OBVIOUS
<1> USE DEF Init, EndsKept, Steps
<1>1. TypeOK
  <2>1. row \in [Steps -> Rows] /\ job \in [Steps -> Stages]
    BY DEF Rows, Stages
  <2>2. code \in [Steps -> Codes] /\ jobs \in SUBSET Parallel /\ pc \in PCs
    BY DEF Codes, PCs
  <2>3. cur \in 1 .. Last + 1
    OBVIOUS
  <2>4. /\ kpc \in {"off", "pkill"}
        /\ retries \in 0 .. MaxRetry
        /\ resumes \in 0 .. MaxResume
        /\ late \in Nat
    OBVIOUS
  <2>5. rc \in Codes /\ uchg \in BOOLEAN
    BY DEF Codes
  <2> QED
    BY <2>1, <2>2, <2>3, <2>4, <2>5 DEF TypeOK
<1>2. Queue
  BY FS_EmptySet DEF Queue, Looping
<1>3. CurStep /\ Tracked /\ Ahead /\ Beyond /\ Left /\ InOrder
  BY DEF CurStep, Tracked, Ahead, Beyond, Left, InOrder, Looping, Active,
         Recorded
<1> QED
  BY <1>1, <1>2, <1>3 DEF IInv

USE DEF loopVars, jobVars, killVars, countVars

\* Where step_next points to, everything before is done and nothing after it
\* was begun.
LEMMA NextStepPosition ==
  ASSUME IInv, NEW n, NextStep(n)
  PROVE  /\ n \in Steps
         /\ \A s \in Steps : s < n /\ Strict(s) => row[s] \in {"ok", "skip"}
         /\ \A s \in Steps : s > n => ~Recorded(s)
         /\ n # Last => row[n] # "ok"
<1>1. PICK l \in Steps :
        /\ Recorded(l)
        /\ \A s \in Steps : s > l => ~Recorded(s)
        /\ n = IF row[l] # "ok" \/ l = Last THEN l ELSE l + 1
  BY DEF NextStep
<1>2. \A s \in Steps : s < l /\ Strict(s) => row[s] \in {"ok", "skip"}
  BY <1>1 DEF IInv, InOrder
<1>3. CASE row[l] # "ok" \/ l = Last
  BY <1>1, <1>2, <1>3 DEF Steps
<1>4. CASE row[l] = "ok" /\ l # Last
  <2>1. n = l + 1 /\ n \in Steps
    BY <1>1, <1>4 DEF Steps
  <2>2. ~Recorded(n)
    BY <1>1, <2>1 DEF Steps
  <2>3. ASSUME NEW s \in Steps, s < n, Strict(s)
        PROVE  row[s] \in {"ok", "skip"}
    BY <1>2, <1>4, <2>1, <2>3 DEF Steps
  <2> QED
    BY <1>1, <2>1, <2>2, <2>3 DEF Steps, Recorded
<1> QED
  BY <1>3, <1>4

\* Types are preserved.
LEMMA TypeStep == IInv /\ [Next]_vars => TypeOK'
<1> SUFFICES ASSUME IInv, [Next]_vars PROVE TypeOK'
  OBVIOUS
<1> USE DEF TypeOK, Rows, Stages, PCs, Codes, Steps
<1>0. TypeOK
  BY DEF IInv
<1>1. CASE Loop
  <2>1. CASE Skip
    BY <1>0, <2>1 DEF Skip, IInv, CurStep
  <2>2. CASE WaitAny
    BY <1>0, <2>2 DEF WaitAny
  <2>3. CASE Spawn
    BY <1>0, <2>3 DEF Spawn, Pending, StartJob, IInv, CurStep
  <2>4. CASE Barrier
    BY <1>0, <2>4 DEF Barrier
  <2>5. CASE Call
    BY <1>0, <2>5 DEF Call, StartJob, IInv, CurStep
  <2>6. CASE Return
    BY <1>0, <2>6 DEF Return, IInv, Left, CurStep
  <2>7. CASE EndBegin
    BY <1>0, <2>7 DEF EndBegin
  <2>8. CASE EndFinish
    BY <1>0, <2>8 DEF EndFinish
  <2>9. CASE Check
    BY <1>0, <2>9 DEF Check, IInv, CurStep
  <2>10. CASE Drain
    BY <1>0, <2>10 DEF Drain
  <2>11. CASE Again
    BY <1>0, <2>11, NextStepPosition DEF Again
  <2>12. CASE Exit
    BY <1>0, <2>12 DEF Exit
  <2> QED
    BY <1>1, <2>1, <2>2, <2>3, <2>4, <2>5, <2>6, <2>7, <2>8, <2>9, <2>10,
       <2>11, <2>12 DEF Loop
<1>2. ASSUME NEW s \in Steps, Job(s) PROVE TypeOK'
  <2>1. CASE JobBegin(s)
    BY <1>0, <2>1 DEF JobBegin
  <2>2. CASE JobExec(s)
    BY <1>0, <2>2 DEF JobExec
  <2>3. CASE JobExit(s)
    BY <1>0, <2>3 DEF JobExit
  <2>4. CASE JobWrite(s)
    BY <1>0, <2>4 DEF JobWrite
  <2> QED
    BY <1>2, <2>1, <2>2, <2>3, <2>4 DEF Job
<1>3. CASE Resume
  BY <1>0, <1>3, NextStepPosition DEF Resume
<1>4. CASE Crash
  BY <1>0, <1>4 DEF Crash
<1>5. CASE Kill
  BY <1>0, <1>5 DEF Kill, KillFlag, KillSteps, KillDone
<1>9. CASE ResumeRefused
  BY <1>0, <1>9 DEF ResumeRefused
<1>6. CASE UNCHANGED vars
  BY <1>0, <1>6 DEF vars
<1> QED
  BY <1>9, <1>1, <1>2, <1>3, <1>4, <1>5, <1>6 DEF Next

\* The rest of the invariant but the size of the queue, named at once.
Order == CurStep /\ Tracked /\ Ahead /\ Beyond /\ Left /\ InOrder

\* The queue is kept within its bound.
LEMMA QueueStep == IInv /\ [Next]_vars => Queue'
<1> SUFFICES ASSUME IInv, [Next]_vars PROVE Queue'
  OBVIOUS
<1> USE DEF Looping, Steps
<1>0. TypeOK /\ Queue /\ CurStep
  BY DEF IInv
<1>1. CASE Loop
  <2>1. CASE Skip
    BY <1>0, <2>1 DEF Skip, Queue, CurStep, TypeOK
  <2>2. CASE WaitAny
    <3>1. jobs' \subseteq jobs /\ UNCHANGED <<pc, cur>> /\ pc = "loop"
      BY <2>2 DEF WaitAny, Pending
    <3>2. IsFiniteSet(jobs') /\ Cardinality(jobs') <= Cardinality(jobs)
      BY <1>0, <3>1, FS_Subset DEF Queue
    <3>3. Cardinality(jobs) \in Nat /\ Cardinality(jobs') \in Nat
      BY <1>0, <3>2, FS_CardinalityType DEF Queue
    <3> QED
      BY <1>0, <3>1, <3>2, <3>3 DEF Queue
  <2>3. CASE Spawn
    <3>1. /\ jobs' = jobs \cup {cur}
          /\ cur \in Parallel
          /\ Cardinality(jobs) # Ncpu
          /\ pc = "loop" /\ pc' = "check" /\ cur' = cur
      BY <2>3 DEF Spawn, Pending
    <3>2. cur \notin jobs
      BY <1>0, <3>1 DEF Queue, CurStep
    <3>3. /\ IsFiniteSet(jobs')
          /\ Cardinality(jobs') = Cardinality(jobs) + 1
      BY <1>0, <3>1, <3>2, FS_AddElement DEF Queue
    <3>4. Cardinality(jobs) \in Nat
      BY <1>0, FS_CardinalityType DEF Queue
    <3>5. Cardinality(jobs') <= Ncpu
      BY <1>0, <3>1, <3>3, <3>4 DEF Queue
    <3>6. \A s \in jobs' : s <= cur'
      BY <1>0, <3>1 DEF Queue, CurStep
    <3> QED
      BY <3>1, <3>3, <3>5, <3>6 DEF Queue
  <2>4. CASE Barrier \/ Drain \/ Again
    BY <2>4, FS_EmptySet DEF Barrier, Pending, Drain, Again, Queue
  <2>5. CASE Call \/ Return \/ EndBegin \/ EndFinish \/ Exit
    BY <1>0, <2>5 DEF Call, Return, EndBegin, EndFinish, Exit, Queue
  <2>6. CASE Check
    BY <1>0, <2>6 DEF Check, Queue, CurStep, TypeOK
  <2> QED
    BY <1>1, <2>1, <2>2, <2>3, <2>4, <2>5, <2>6 DEF Loop
<1>2. ASSUME NEW s \in Steps, Job(s) PROVE Queue'
  BY <1>0, <1>2 DEF Job, JobBegin, JobExec, JobExit, JobWrite, Queue
<1>3. CASE Resume
  BY <1>3, FS_EmptySet DEF Resume, Queue
<1>4. CASE Crash
  BY <1>4, FS_EmptySet DEF Crash, Queue
<1>5. CASE Kill
  BY <1>0, <1>5 DEF Kill, KillFlag, KillSteps, KillDone, Queue
<1>9. CASE ResumeRefused
  BY <1>0, <1>9 DEF ResumeRefused, Queue
<1>6. CASE UNCHANGED vars
  BY <1>0, <1>6 DEF vars, Queue
<1> QED
  BY <1>9, <1>1, <1>2, <1>3, <1>4, <1>5, <1>6 DEF Next

\* The order of the steps is kept.
LEMMA OrderStep == IInv /\ [Next]_vars => Order'
<1> SUFFICES ASSUME IInv, [Next]_vars PROVE Order'
  OBVIOUS
<1> USE DEF Looping, Steps, Strict, Active, Recorded
<1> USE DEF Order, CurStep, Tracked, Ahead, Beyond, Left, InOrder
<1>0. TypeOK /\ Queue /\ Order
  BY DEF IInv
<1>1. CASE Loop
  <2>1. CASE Skip
    BY <1>0, <2>1 DEF Skip, TypeOK
  <2>2. CASE WaitAny
    BY <1>0, <2>2 DEF WaitAny, Pending
  <2>3. CASE Spawn
    BY <1>0, <2>3 DEF Spawn, Pending, StartJob, TypeOK
  <2>4. CASE Barrier
    BY <1>0, <2>4 DEF Barrier, Pending
  <2>5. CASE Call
    BY <1>0, <2>5 DEF Call, StartJob, TypeOK, Queue
  <2>6. CASE Return
    BY <1>0, <2>6 DEF Return
  <2>7. CASE EndBegin
    BY <1>0, <2>7 DEF EndBegin, TypeOK, Queue
  <2>8. CASE EndFinish
    BY <1>0, <2>8 DEF EndFinish, TypeOK, Queue
  <2>9. CASE Check
    BY <1>0, <2>9 DEF Check, TypeOK
  <2>10. CASE Drain
    BY <1>0, <2>10 DEF Drain
  <2>11. CASE Again
    BY <1>0, <2>11, NextStepPosition DEF Again, Queue
  <2>12. CASE Exit
    BY <1>0, <2>12 DEF Exit
  <2> QED
    BY <1>1, <2>1, <2>2, <2>3, <2>4, <2>5, <2>6, <2>7, <2>8, <2>9, <2>10,
       <2>11, <2>12 DEF Loop
<1>2. ASSUME NEW s \in Steps, Job(s) PROVE Order'
  <2>1. CASE JobBegin(s)
    BY <1>0, <2>1 DEF JobBegin, TypeOK, Queue
  <2>2. CASE JobExec(s)
    BY <1>0, <2>2 DEF JobExec, TypeOK
  <2>3. CASE JobExit(s)
    BY <1>0, <2>3 DEF JobExit, TypeOK
  <2>4. CASE JobWrite(s)
    BY <1>0, <2>4 DEF JobWrite, TypeOK, Queue, Codes
  <2> QED
    BY <1>2, <2>1, <2>2, <2>3, <2>4 DEF Job
<1>3. CASE Resume
  BY <1>0, <1>3, NextStepPosition DEF Resume, Queue
<1>4. CASE Crash
  BY <1>0, <1>4 DEF Crash
<1>5. CASE Kill
  BY <1>0, <1>5 DEF Kill, KillFlag, KillSteps, KillDone, TypeOK
<1>9. CASE ResumeRefused
  BY <1>0, <1>9 DEF ResumeRefused
<1>6. CASE UNCHANGED vars
  BY <1>0, <1>6 DEF vars
<1> QED
  BY <1>9, <1>1, <1>2, <1>3, <1>4, <1>5, <1>6 DEF Next

LEMMA Invariance == EndsKept /\ Spec => []IInv
<1>1. IInv /\ [Next]_vars => IInv'
  <2> SUFFICES ASSUME IInv, [Next]_vars PROVE IInv'
    OBVIOUS
  <2>1. TypeOK'
    BY TypeStep
  <2>2. Queue'
    BY QueueStep
  <2>3. Order'
    BY OrderStep
  <2> QED
    BY <2>1, <2>2, <2>3 DEF IInv, Order
<1> QED
  BY InitInvariant, <1>1, PTL DEF Spec

\* The state of the build directory and of the loop stays well formed, and in
\* particular `_step` never runs off the list of steps (robsd_exec_steps).
THEOREM TypeCorrect == EndsKept /\ Spec => []TypeOK
<1>1. IInv => TypeOK
  BY DEF IInv
<1> QED
  BY Invariance, <1>1, PTL

\* No step is begun before every sequential step ahead of it has succeeded or
\* was skipped: step_next never resumes too far (util.sh, robsd_exec_steps).
THEOREM StepsInOrder == EndsKept /\ Spec => []InOrder
<1>1. IInv => InOrder
  BY DEF IInv
<1> QED
  BY Invariance, <1>1, PTL

\* The barrier of robsd_exec_steps keeps sequential steps to themselves.
THEOREM BarrierHolds == EndsKept /\ Spec => []SequentialAlone
<1>1. IInv => SequentialAlone
  <2> SUFFICES ASSUME IInv PROVE SequentialAlone
    OBVIOUS
  <2> USE DEF IInv, TypeOK, Queue, CurStep, Tracked, Looping
  <2>1. ASSUME NEW s \in Steps, Active(s), s \notin Parallel
        PROVE  pc = "call" /\ s = cur /\ jobs = {}
    BY <2>1
  <2>2. ASSUME NEW s \in Steps, Active(s) PROVE pc # "end"
    BY <2>2
  <2> QED
    BY <2>1, <2>2 DEF SequentialAlone
<1> QED
  BY Invariance, <1>1, PTL

\* The queue of robsd_exec_steps bounds the background jobs by ncpu.
THEOREM QueueBounded == EndsKept /\ Spec => []JobLimit
<1>1. IInv => JobLimit
  <2> SUFFICES ASSUME IInv PROVE JobLimit
    OBVIOUS
  <2> DEFINE J == {s \in Parallel : Active(s)}
  <2>1. J \subseteq jobs
    BY DEF IInv, Tracked, Queue, Steps
  <2>2. IsFiniteSet(J) /\ Cardinality(J) <= Cardinality(jobs)
    BY <2>1, FS_Subset DEF IInv, Queue
  <2>3. Cardinality(J) \in Nat /\ Cardinality(jobs) \in Nat
    BY <2>2, FS_CardinalityType DEF IInv, Queue
  <2>4. Cardinality(jobs) <= Ncpu
    BY DEF IInv, Queue
  <2> QED
    BY <2>2, <2>3, <2>4 DEF JobLimit
<1> QED
  BY Invariance, <1>1, PTL

\* A step that succeeded, that was skipped or that still runs is not started
\* again, neither by `robsd -r` nor by a hook that asks for a retry.
THEOREM NothingRepeated == EndsKept /\ Spec => NoRerun
<1> DEFINE Once == \A s \in Steps :
                     job[s] # "fresh" /\ job'[s] = "fresh" =>
                       job[s] = "none" /\ row[s] \notin {"ok", "skip"}
<1>1. IInv /\ [Next]_vars => [Once]_vars
  <2> SUFFICES ASSUME IInv, [Next]_vars, NEW s \in Steps,
                      job[s] # "fresh", job'[s] = "fresh"
               PROVE  job[s] = "none" /\ row[s] \notin {"ok", "skip"}
    OBVIOUS
  <2> USE DEF IInv, TypeOK, Queue, CurStep, Tracked, Beyond, Looping, Active
  <2>1. CASE Spawn \/ Call
    <3>1. s = cur /\ (Pending \/ pc = "ready") /\ cur # Last
      BY <2>1 DEF Spawn, Call, StartJob, Pending
    <3> QED
      BY <3>1 DEF Pending
  <2>2. CASE Loop /\ ~Spawn /\ ~Call
    <3>1. job' = job
      BY <2>2 DEF Loop, Skip, WaitAny, Barrier, Return, EndBegin, EndFinish,
                  Check, Drain, Again, Exit
    <3> QED
      BY <3>1
  <2>3. ASSUME NEW t \in Steps, Job(t) PROVE FALSE
    BY <2>3 DEF Job, JobBegin, JobExec, JobExit, JobWrite
  <2>4. CASE Resume \/ ResumeRefused \/ Crash
    BY <2>4 DEF Resume, ResumeRefused, Crash
  <2>5. CASE Kill
    BY <2>5 DEF Kill, KillFlag, KillSteps, KillDone
  <2>6. CASE UNCHANGED vars
    BY <2>6 DEF vars
  <2> QED
    BY <2>1, <2>2, <2>3, <2>4, <2>5, <2>6 DEF Next, Loop
<1> QED
  BY Invariance, <1>1, PTL DEF Spec, NoRerun

\* The step that the loop has called asked for a retry not yet granted.
Due ==
  \/ pc = "call" /\ job[cur] = "exited" /\ code[cur] = "retry"
  \/ pc = "call" /\ job[cur] = "none" /\ row[cur] = "retry"
  \/ pc = "returned" /\ rc = "retry"

Count(b) == IF b THEN 1 ELSE 0

\* Whatever may still start a step after robsd-kill is paid for: by the one
\* step that is free, or by a retry.
Paid ==
  /\ ~uchg => late = 0
  /\ late + Count(pc \in {"loop", "ready"}) + Count(Due) <= 1 + retries

LEMMA PaidStep == IInv /\ Paid /\ [Next]_vars => Paid'
<1> SUFFICES ASSUME IInv, Paid, [Next]_vars PROVE Paid'
  OBVIOUS
<1> USE DEF Paid, Count, Due
<1>0. /\ cur \in Steps
      /\ late \in Nat /\ retries \in Nat
      /\ job \in [Steps -> Stages]
      /\ row \in [Steps -> Rows]
      /\ code \in [Steps -> Codes]
      /\ uchg \in BOOLEAN
      /\ pc \in PCs
  BY DEF IInv, TypeOK, CurStep
<1> USE DEF PCs
<1>1. CASE Loop
  <2>1. CASE Skip
    BY <1>0, <2>1 DEF Skip
  <2>2. CASE WaitAny \/ Barrier
    BY <1>0, <2>2 DEF WaitAny, Barrier, Pending
  <2>3. CASE Spawn
    BY <1>0, <2>3 DEF Spawn, Pending, StartJob
  <2>4. CASE Call
    BY <1>0, <2>4 DEF Call, StartJob
  <2>5. CASE Return
    BY <1>0, <2>5 DEF Return, Active
  <2>6. CASE EndBegin \/ EndFinish
    BY <1>0, <2>6 DEF EndBegin, EndFinish
  <2>7. CASE Check
    BY <1>0, <2>7 DEF Check
  <2>8. CASE Drain
    BY <1>0, <2>8 DEF Drain
  <2>9. CASE Again
    BY <1>0, <2>9 DEF Again
  <2>10. CASE Exit
    BY <1>0, <2>10 DEF Exit
  <2> QED
    BY <1>1, <2>1, <2>2, <2>3, <2>4, <2>5, <2>6, <2>7, <2>8, <2>9, <2>10
       DEF Loop
<1>2. ASSUME NEW s \in Steps, Job(s) PROVE Paid'
  <2>1. CASE JobBegin(s)
    BY <1>0, <2>1 DEF JobBegin
  <2>2. CASE JobExec(s)
    BY <1>0, <2>2 DEF JobExec
  <2>3. CASE JobExit(s)
    BY <1>0, <2>3 DEF JobExit
  <2>4. CASE JobWrite(s)
    BY <1>0, <2>4 DEF JobWrite
  <2> QED
    BY <1>2, <2>1, <2>2, <2>3, <2>4 DEF Job
<1>3. CASE Resume \/ Crash
  BY <1>0, <1>3 DEF Resume, Crash
<1>4. CASE Kill
  <2>1. CASE KillFlag
    BY <1>0, <2>1 DEF KillFlag
  <2>2. CASE KillSteps
    BY <1>0, <2>2 DEF KillSteps
  <2>3. CASE KillDone
    BY <1>0, <2>3 DEF KillDone
  <2> QED
    BY <1>4, <2>1, <2>2, <2>3 DEF Kill
<1>9. CASE ResumeRefused
  BY <1>0, <1>9 DEF ResumeRefused
<1>5. CASE UNCHANGED vars
  BY <1>5 DEF vars
<1> QED
  BY <1>9, <1>1, <1>2, <1>3, <1>4, <1>5 DEF Next

\* After robsd-kill the loop starts one more step, and one for each retry that
\* was asked for: lock_alive is not passed by on any other path.
THEOREM KillObeyed == EndsKept /\ Spec => []KillBound
<1>1. Init => Paid
  BY DEF Init, Paid, Due, Count
<1>2. IInv /\ Paid => KillBound
  BY DEF IInv, TypeOK, Paid, Count, KillBound
<1> QED
  BY Invariance, PaidStep, <1>1, <1>2, PTL DEF Spec

\* A step has been begun, or is about to be by a job of its own.
Tended(s) == row[s] # "none" \/ Active(s)

\* What a build that was not resumed has behind it: no gaps, and no row left
\* at -1 that nobody is going to complete.
Complete ==
  resumes = 0 =>
    /\ Recorded(Last) => pc \in {"end", "off"} \/ (pc = "returned" /\ rc = "ok")
    /\ pc # "off" =>
         /\ \A s \in Steps \ {Last} : row[s] = "begun" => Active(s)
         /\ \A s, t \in Steps : s < t /\ Recorded(t) => Tended(s)
    /\ Looping =>
         /\ \A s \in Steps : s < cur => Tended(s)
         /\ pc \in {"call", "check", "drain"} => Tended(cur)
         /\ pc = "end" => Recorded(Last)
    /\ EndComplete

LEMMA CompleteStep == IInv /\ Complete /\ [Next]_vars => Complete'
<1> SUFFICES ASSUME IInv, Complete, [Next]_vars PROVE Complete'
  OBVIOUS
<1> USE DEF Complete, EndComplete, Looping, Recorded, Tended, Active
<1>0. /\ cur \in Steps
      /\ resumes \in Nat
      /\ job \in [Steps -> Stages]
      /\ row \in [Steps -> Rows]
      /\ code \in [Steps -> Codes]
      /\ Last \in Steps
      /\ \A s \in Steps : s \in Int /\ s <= Last
  BY DEF IInv, TypeOK, CurStep, Steps
<1>1. ASSUME resumes = 0, Recorded(Last)
      PROVE  \A s \in Steps : ~Active(s)
  BY <1>0, <1>1 DEF IInv, Tracked, Queue, CurStep, TypeOK
<1>2. CASE Loop
  <2>1. CASE Skip
    BY <1>0, <2>1 DEF Skip, IInv, CurStep, Beyond, Steps
  <2>2. CASE WaitAny \/ Barrier
    BY <1>0, <2>2 DEF WaitAny, Barrier, Pending
  <2>3. CASE Spawn \/ Call
    BY <1>0, <2>3 DEF Spawn, Call, Pending, StartJob
  <2>4. CASE Return
    BY <1>0, <2>4 DEF Return
  <2>5. CASE EndBegin
    <3>1. \A s \in Steps : ~Active(s)
      BY <2>5 DEF EndBegin, IInv, Tracked, Queue, CurStep, TypeOK
    <3> QED
      BY <1>0, <2>5, <3>1 DEF EndBegin
  <2>6. CASE EndFinish
    BY <1>0, <2>6 DEF EndFinish, IInv, CurStep
  <2>7. CASE Check
    BY <1>0, <2>7 DEF Check, Steps
  <2>8. CASE Drain
    BY <1>0, <2>8 DEF Drain
  <2>9. CASE Again
    <3>1. PICK l \in Steps : Recorded(l) /\ (cur' = l \/ (cur' = l + 1))
      BY <2>9 DEF Again, NextStep
    <3>2. resumes = 0 => \A s \in Steps : s < cur' => Tended(s)
      BY <1>0, <2>9, <3>1 DEF Again, Steps
    <3> QED
      BY <1>0, <2>9, <3>2 DEF Again
  <2>10. CASE Exit
    BY <1>0, <2>10 DEF Exit
  <2> QED
    BY <1>2, <2>1, <2>2, <2>3, <2>4, <2>5, <2>6, <2>7, <2>8, <2>9, <2>10
       DEF Loop
<1>3. ASSUME NEW s \in Steps, Job(s) PROVE Complete'
  <2>1. /\ Active(s) /\ s # Last
        /\ Looping /\ s <= cur
        /\ resumes = 0 => ~Recorded(Last)
    BY <1>0, <1>1, <1>3
       DEF Job, JobBegin, JobExec, JobExit, JobWrite, IInv, Tracked, Queue
  <2>2. CASE JobBegin(s)
    BY <1>0, <2>1, <2>2 DEF JobBegin
  <2>3. CASE JobExec(s) \/ JobExit(s)
    BY <1>0, <2>1, <2>3 DEF JobExec, JobExit
  <2>4. CASE JobWrite(s)
    BY <1>0, <2>1, <2>4 DEF JobWrite, Codes
  <2> QED
    BY <1>3, <2>2, <2>3, <2>4 DEF Job
<1>4. CASE Resume
  BY <1>0, <1>4 DEF Resume
<1>5. CASE Crash
  BY <1>0, <1>5 DEF Crash
<1>6. CASE Kill
  BY <1>0, <1>6 DEF Kill, KillFlag, KillSteps, KillDone
<1>9. CASE ResumeRefused
  BY <1>0, <1>9 DEF ResumeRefused
<1>7. CASE UNCHANGED vars
  BY <1>7 DEF vars
<1> QED
  BY <1>9, <1>2, <1>3, <1>4, <1>5, <1>6, <1>7 DEF Next

\* A build that reached its end step without being resumed has a final exit for
\* each of its steps: the durations of the end step and the report miss none.
THEOREM TableComplete == EndsKept /\ Spec => []EndComplete
<1>1. EndsKept /\ Init => Complete
  BY DEF EndsKept, Init, Complete, EndComplete, Looping, Recorded, Tended,
         Active, Steps
<1>2. Complete => EndComplete
  BY DEF Complete, EndComplete
<1> QED
  BY Invariance, CompleteStep, <1>1, <1>2, PTL DEF Spec
=============================================================================
