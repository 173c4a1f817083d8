--------------------------- MODULE StepExecProofs ---------------------------
(***************************************************************************)
(* Theorems of StepExec, for any number of processes started by the step,  *)
(* any of which may ignore SIGTERM, with a timeout and robsd-kill or not,  *)
(* and of JobQueue, for any number of parallel steps, process ids,         *)
(* processes of others and failures of kevent.                             *)
(***************************************************************************)
EXTENDS StepExec, JobQueue, NatFacts, FiniteSetTheorems

Early == {"start", "forked", "waiteof", "failing"}
Armed == {"arming", "armed", "waiting", "woken", "term", "kill"}

\* Without robsd-kill the only signal there is comes from the alarm.
OnlyAlarm ==
  ~pkill =>
    /\ gotsig = "ALRM" <=> alarm = "fired"
    /\ gotsig # "TERM"
    /\ epc \in Early \cup {"arming", "failed"} => alarm = "off"
    /\ epc \in {"woken", "term", "kill"} => gotsig = "ALRM"

\* The group is there before anybody signals it, or its leader has been killed
\* by robsd-kill on the way.
Grouped ==
  /\ epc = "start" => proc[Leader] = "unborn"
  /\ proc[Leader] = "unborn" => epc \in {"start", "died"}
  /\ proc[Leader] \in {"grouped", "running"} => session
  /\ proc[Leader] = "dead" /\ ~pkill => session
  /\ epc \in Armed => proc[Leader] \notin {"unborn", "forked"}
  /\ ~pkill /\ epc \in Armed => session
  /\ epc \in {"waiting", "term", "kill"} => session
  /\ epc = "woken" => ~session \/ gotsig # "none"
  /\ epc \in Early \cup {"arming", "armed", "waiting", "woken"} =>
       termed = {} /\ killed = {}
  /\ ~session => termed = {} /\ killed = {}

\* What robsd-exec returns.
Returned ==
  /\ ~Over => exit = "none"
  /\ epc = "done" => status # "none" \/ Leader \in killed
  /\ epc = "failed" => exit = "fail"
  /\ epc = "failed" /\ ~pkill => status # "none"
  /\ epc = "died" => pkill

IInv == TypeOK /\ OnlyAlarm /\ Grouped /\ Returned /\ TimeoutReported

USE LeaderAssumption, SwitchAssumption
USE DEF Members, groupVars, sentVars, sigVars, Over, Living, Unexeced, Finish, GiveUp,
        Handled, ExitStatus, Dies

LEMMA InitInvariant == Init => IInv
BY DEF Init, IInv, TypeOK, EPCs, OnlyAlarm, Grouped, Returned,
       TimeoutReported, Early, Armed

\* The child is not there before the fork, robsd-kill or not.
Unborn == epc = "start" => proc[Leader] = "unborn"

LEMMA TypeStep == TypeOK /\ Unborn /\ [Next]_vars => TypeOK' /\ Unborn'
<1> DEFINE Typed == TypeOK /\ Unborn
<1> SUFFICES ASSUME Typed, [Next]_vars PROVE Typed'
  OBVIOUS
<1> USE DEF TypeOK, EPCs, Unborn
<1>1. CASE Exec
  <2>1. CASE Fork
    BY <2>1 DEF Fork
  <2>2. CASE Install \/ WaitEof \/ WaitEofGivesUp \/ FailingReap
    BY <2>2 DEF Install, WaitEof, WaitEofGivesUp, FailingReap
  <2>3. CASE Arm \/ Wait \/ Reap
    BY <2>3 DEF Arm, Wait, Reap
  <2>4. CASE SendTerm
    BY <2>4 DEF SendTerm
  <2>5. CASE KilledReap
    BY <2>5 DEF KilledReap
  <2>6. CASE SendKill
    BY <2>6 DEF SendKill
  <2>7. CASE KillGivesUp
    BY <2>7 DEF KillGivesUp
  <2> QED
    BY <1>1, <2>1, <2>2, <2>3, <2>4, <2>5, <2>6, <2>7 DEF Exec
<1>2. CASE SetSession
  BY <1>2 DEF SetSession
<1>3. CASE Execvp
  BY <1>3 DEF Execvp
<1>4. ASSUME NEW m \in Members, Spawn(m) PROVE Typed'
  BY <1>4 DEF Spawn
<1>5. ASSUME NEW m \in Members, End(m) PROVE Typed'
  BY <1>5 DEF End
<1>6. ASSUME NEW m \in Members, Die(m) PROVE Typed'
  BY <1>6 DEF Die
<1>7. CASE Alarm
  BY <1>7 DEF Alarm
<1>8. CASE KillStart
  BY <1>8 DEF KillStart
<1>9. CASE Pkill
  <2>1. CASE Unexeced = {}
    BY <1>9, <2>1 DEF Pkill
  <2>2. CASE Unexeced # {}
    BY <1>9, <2>2 DEF Pkill
  <2> QED
    BY <2>1, <2>2
<1>10. CASE UNCHANGED vars
  BY <1>10 DEF vars
<1> QED
  BY <1>1, <1>2, <1>3, <1>4, <1>5, <1>6, <1>7, <1>8, <1>9, <1>10
     DEF Next, Group, Signal

\* The state is well formed, robsd-kill or not (src/step-exec.c).
THEOREM TypeCorrect == Spec => []TypeOK
<1>1. Init => TypeOK /\ Unborn
  BY InitInvariant DEF IInv, Grouped, Unborn
<1> QED
  BY <1>1, TypeStep, PTL DEF Spec

LEMMA InvariantStep == IInv /\ [Next]_vars => IInv'
<1> SUFFICES ASSUME IInv, [Next]_vars PROVE IInv'
  OBVIOUS
<1> USE DEF OnlyAlarm, Grouped, Returned, TimeoutReported, Early, Armed
<1> DEFINE Rest == OnlyAlarm /\ Grouped /\ Returned /\ TimeoutReported
<1>a. TypeOK'
  BY TypeStep DEF IInv, Unborn
<1>b. TypeOK /\ Rest
  BY DEF IInv
<1>c. Rest'
  <2> USE <1>b DEF TypeOK, EPCs
  <2>1. CASE Exec
    <3>1. CASE Fork
      BY <3>1 DEF Fork
    <3>5. CASE Install \/ WaitEof \/ WaitEofGivesUp
      BY <3>5 DEF Install, WaitEof, WaitEofGivesUp
    <3>2. CASE FailingReap \/ Arm
      BY <3>2 DEF FailingReap, Arm
    <3>6. CASE Wait
      BY <3>6 DEF Wait
    <3>3. CASE Reap \/ KilledReap
      BY <3>3 DEF Reap, KilledReap
    <3>4. CASE SendTerm \/ SendKill
      BY <3>4 DEF SendTerm, SendKill
    <3>7. CASE KillGivesUp
      BY <3>7 DEF KillGivesUp
    <3> QED
      BY <2>1, <3>1, <3>2, <3>3, <3>4, <3>5, <3>6, <3>7 DEF Exec
  <2>2. CASE SetSession
    BY <2>2 DEF SetSession
  <2>3. CASE Execvp
    BY <2>3 DEF Execvp
  <2>4. ASSUME NEW m \in Members, Spawn(m) PROVE Rest'
    BY <2>4 DEF Spawn
  <2>5. ASSUME NEW m \in Members, End(m) PROVE Rest'
    BY <2>5 DEF End
  <2>6. ASSUME NEW m \in Members, Die(m) PROVE Rest'
    BY <2>6 DEF Die, Doomed
  <2>7. CASE Alarm
    BY <2>7 DEF Alarm
  <2>8. CASE KillStart
    BY <2>8 DEF KillStart
  <2>10. CASE Pkill
    <3>1. CASE Unexeced = {}
      BY <2>10, <3>1 DEF Pkill
    <3>2. CASE Unexeced # {}
      BY <2>10, <3>2 DEF Pkill
    <3> QED
      BY <3>1, <3>2
  <2>9. CASE UNCHANGED vars
    BY <2>9 DEF vars
  <2> QED
    BY <2>1, <2>2, <2>3, <2>4, <2>5, <2>6, <2>7, <2>8, <2>9, <2>10
       DEF Next, Group, Signal
<1> QED
  BY <1>a, <1>c DEF IInv

\* Unless robsd-kill is used a timeout is reported exactly when the alarm went
\* off in time, and a zero exit is never made up: exitstatus and the handlers
\* agree on what happened.
THEOREM TimeoutTrue == Spec => []TimeoutReported
<1>1. IInv => TimeoutReported
  BY DEF IInv
<1> QED
  BY InitInvariant, InvariantStep, <1>1, PTL DEF Spec

\* Once step_fork has succeeded robsd-exec returns with the leader of the group
\* reaped, or sent SIGKILL and not dead of it in time; even if robsd-kill is used.
THEOREM LeaderReaped == Spec => []LeaderGone
<1>1. IInv => LeaderGone
  BY DEF IInv, TypeOK, Returned, LeaderGone
<1> QED
  BY InitInvariant, InvariantStep, <1>1, PTL DEF Spec

-----------------------------------------------------------------------------
(* robsd-wait and the jobs of the shell *)

\* What keeps the running jobs: _jobs, and c->pids while robsd-wait runs.
Known == IF wpc = "off" THEN Ids(queue) ELSE Ids(watched)

\* An id that waits to be reported is not that of a job: no job is started
\* before robsd-wait has exited, and what got the id since is a stranger.
Reported ==
  /\ events \cap Running = {}
  /\ events \cap knotes = {}
  /\ wpc = "start" => knotes = {} /\ events = {}

\* Where the shell is when robsd-wait was needed, and after it.
Places ==
  /\ strange \in Nat /\ fails \in Nat
  /\ wpc = "off" => watched = {}
  /\ spc \in {"any", "spawn"} => task <= NumTasks
  /\ spc = "spawn" => Cardinality(queue) < MaxJobs
  /\ spc = "over" => queue = {}

QueueInv ==
  /\ QueueTypeOK /\ Places /\ Reported
  /\ fails = 0 => Running \subseteq Known

USE JobsAssumption
USE DEF shellVars, waitVars, boundVars, Nobody, Job, Stranger, Gone, queue, Ids

LEMMA QueueFinite == QueueTypeOK => IsFiniteSet(queue) /\ Cardinality(queue) \in Nat
<1> SUFFICES ASSUME QueueTypeOK PROVE IsFiniteSet(queue) /\ Cardinality(queue) \in Nat
  OBVIOUS
<1>1. task - 1 \in Int /\ queue \in SUBSET (1 .. task - 1)
  BY DEF QueueTypeOK
<1>2. IsFiniteSet(1 .. task - 1)
  BY <1>1, FS_Interval
<1> QED
  BY <1>1, <1>2, FS_Subset, FS_CardinalityType

\* What is left of a list that lost a job is shorter, and fits in _jobs.
LEMMA LeftIsShorter ==
  ASSUME QueueTypeOK, NEW left \in SUBSET queue
  PROVE  /\ Cardinality(left) <= MaxJobs
         /\ left # queue => Cardinality(left) < MaxJobs
<1>1. /\ IsFiniteSet(queue) /\ Cardinality(queue) \in Nat
      /\ Cardinality(queue) <= MaxJobs
  BY QueueFinite DEF QueueTypeOK
<1>2. /\ Cardinality(left) \in Nat
      /\ Cardinality(left) <= Cardinality(queue)
      /\ Cardinality(left) = Cardinality(queue) => left = queue
  BY <1>1, FS_Subset, FS_CardinalityType
<1> QED
  BY <1>1, <1>2

\* robsd-wait takes a job off its list for every exit that is reported, and
\* keeps those whose exit is not.
LEMMA RemovedTakes ==
  ASSUME QueueTypeOK, NEW gone \in SUBSET Ids(watched)
  PROVE  /\ Removed(watched, gone) \subseteq watched
         /\ \A t \in watched : pid[t] \notin gone => t \in Removed(watched, gone)
         /\ gone # {} => Removed(watched, gone) # watched
<1>1. /\ Removed(watched, gone) \subseteq watched
      /\ \A t \in watched : pid[t] \notin gone => t \in Removed(watched, gone)
  BY DEF Removed
<1>2. ASSUME gone # {} PROVE Removed(watched, gone) # watched
  <2>1. PICK t \in watched : pid[t] \in gone
    BY <1>2
  <2> DEFINE Same == {u \in watched : pid[u] = pid[t]}
  <2>2. Same # {} /\ Same \in SUBSET Nat
    BY <2>1 DEF QueueTypeOK
  <2>3. PICK f \in Same : \A u \in Same : f <= u
    BY <2>2, LeastElement
  <2>4. f \in watched /\ f \notin Removed(watched, gone)
    BY <2>1, <2>3 DEF Removed
  <2> QED
    BY <2>4
<1> QED
  BY <1>1, <1>2

LEMMA QueueInitInvariant == QueueInit => QueueInv
<1> SUFFICES ASSUME QueueInit PROVE QueueInv
  OBVIOUS
<1>1. queue = {} /\ Cardinality({}) = 0
  BY FS_EmptySet DEF QueueInit
<1> QED
  BY <1>1 DEF QueueInit, QueueInv, QueueTypeOK, Places, Reported, Known, Running

\* robsd-wait exits without a failure and leaves in _jobs what it has left.
LEMMA ExitStep ==
  ASSUME QueueInv, wpc # "off", NEW left \in SUBSET watched, left # watched,
         Running \subseteq Ids(watched) => Running \subseteq Ids(left),
         spc = "all" => left = {},
         WaitExit(left), UNCHANGED <<holder, task, boundVars>>
  PROVE  QueueInv'
<1> USE DEF QueueInv, WaitExit
<1>1. left \in SUBSET queue /\ left # queue
  BY DEF QueueTypeOK
<1>2. /\ queue' = left
      /\ pid' \in [left -> Pids]
      /\ \A t \in left : pid'[t] = pid[t]
  <2>1. spc = "all" => left = {}
    OBVIOUS
  <2>2. pid' = [t \in left |-> pid[t]]
    BY <2>1
  <2> QED
    BY <1>1, <2>2 DEF QueueTypeOK
<1>3. /\ Cardinality(left) <= MaxJobs
      /\ Cardinality(left) < MaxJobs
  BY <1>1, LeftIsShorter
<1>4. QueueTypeOK'
  BY <1>1, <1>2, <1>3 DEF QueueTypeOK
<1>5. Places'
  BY <1>2, <1>3 DEF Places, QueueTypeOK
<1>6. Reported'
  BY DEF Reported
<1>7. (fails = 0 => Running \subseteq Known)'
  BY <1>2 DEF Known, Running
<1> QED
  BY <1>4, <1>5, <1>6, <1>7

\* What robsd-wait does with the events it was given.
LEMMA HandledStep ==
  ASSUME QueueInv, wpc # "off", NEW left \in SUBSET watched, left # watched,
         Running \subseteq Ids(watched) => Running \subseteq Ids(left),
         HandledEvents(left),
         wpc' = "sleep" => knotes' \subseteq Ids(left) /\ events' = {}
  PROVE  QueueInv'
<1>1. CASE spc = "all" /\ left # {}
  <2>1. /\ wpc' = "sleep" /\ watched' = left
        /\ UNCHANGED <<pid, spc, holder, task, boundVars>>
    BY <1>1 DEF HandledEvents
  <2> QED
    BY <1>1, <2>1 DEF QueueInv, QueueTypeOK, Places, Reported, Known, Running
<1>2. CASE ~(spc = "all" /\ left # {})
  <2>1. WaitExit(left) /\ UNCHANGED <<holder, task, boundVars>>
    BY <1>2 DEF HandledEvents
  <2> QED
    BY <1>2, <2>1, ExitStep
<1> QED
  BY <1>1, <1>2

LEMMA QueueInvStep == QueueInv /\ [QueueNext]_queueVars => QueueInv'
<1> SUFFICES ASSUME QueueInv, [QueueNext]_queueVars PROVE QueueInv'
  OBVIOUS
<1>1. ASSUME NEW mode \in {"any", "all"}, RunWait(mode), spc = "loop",
             mode = "any" => task <= NumTasks
      PROVE  QueueInv'
  BY <1>1 DEF RunWait, QueueInv, QueueTypeOK, Places, Reported, Known, Running
<1>2. CASE WaitFull
  BY <1>1, <1>2 DEF WaitFull
<1>3. CASE WaitBarrier
  BY <1>1, <1>3 DEF WaitBarrier
<1>4. CASE Proceed
  BY <1>4 DEF Proceed, QueueInv, QueueTypeOK, Places, Reported, Known, Running
<1>5. ASSUME NEW p \in Pids, SpawnTask(p) PROVE QueueInv'
  <2> USE <1>5 DEF SpawnTask, QueueInv
  <2>1. /\ wpc = "off" /\ watched = {} /\ knotes = {} /\ events = {}
        /\ task \in 1 .. NumTasks
    BY DEF QueueTypeOK, Places
  <2>2. Cardinality(queue) < MaxJobs
    BY QueueFinite DEF QueueTypeOK, Places, Full
  <2>3. /\ queue' = queue \cup {task} /\ task \notin queue
        /\ pid' \in [queue' -> Pids]
        /\ pid'[task] = p
        /\ \A t \in queue : pid'[t] = pid[t]
    BY <2>1 DEF QueueTypeOK
  <2>4. Cardinality(queue') = Cardinality(queue) + 1 /\ Cardinality(queue) \in Nat
    BY <2>3, QueueFinite, FS_AddElement
  <2>5. QueueTypeOK'
    BY <2>1, <2>2, <2>3, <2>4 DEF QueueTypeOK, waitVars
  <2>6. Places' /\ Reported'
    BY <2>1 DEF Places, Reported
  <2>7. (fails = 0 => Running \subseteq Known)'
    BY <2>1, <2>3 DEF Known, Running, QueueTypeOK
  <2> QED
    BY <2>5, <2>6, <2>7
<1>6. CASE Register
  <2> DEFINE left == {t \in watched : ~Gone(pid[t])}
  <2>1. CASE left = watched
    BY <1>6, <2>1
    DEF Register, Changes, QueueInv, QueueTypeOK, Places, Reported, Known, Running
  <2>2. CASE left # watched
    <3>1. /\ HandledEvents(left)
          /\ wpc' = "sleep" => knotes' = Changes(left) /\ events' = {}
      BY <1>6, <2>2 DEF Register
    <3>2. Running \subseteq Ids(watched) => Running \subseteq Ids(left)
      BY DEF Running
    <3>3. wpc # "off" /\ left \in SUBSET watched
      BY <1>6 DEF Register
    <3> QED
      BY <2>2, <3>1, <3>2, <3>3, HandledStep DEF Changes
  <2> QED
    BY <2>1, <2>2
<1>7. CASE Collect
  <2> DEFINE left == Removed(watched, events)
  <2>1. /\ left \subseteq watched
        /\ \A t \in watched : pid[t] \notin events => t \in left
        /\ left # watched
    BY <1>7, RemovedTakes DEF Collect, QueueInv, QueueTypeOK
  <2> HIDE DEF left
  <2>2. HandledEvents(left)
    BY <1>7 DEF Collect, left
  <2>3. wpc' = "sleep" => knotes' \subseteq Ids(left) /\ events' = {}
    <3>1. knotes \subseteq Ids(left)
      BY <2>1 DEF QueueInv, QueueTypeOK, Reported
    <3> QED
      BY <1>7, <3>1 DEF Collect
  <2>4. Running \subseteq Ids(watched) => Running \subseteq Ids(left)
    BY <2>1 DEF QueueInv, Reported
  <2> QED
    BY <1>7, <2>1, <2>2, <2>3, <2>4, HandledStep DEF Collect
<1>8. CASE WaitFails
  <2> USE <1>8 DEF WaitFails, WaitExit, QueueInv
  <2>1. /\ queue' = {} /\ pid' \in [{} -> Pids]
        /\ Cardinality({}) = 0
    BY FS_EmptySet
  <2>2. fails' # 0 /\ fails' \in Nat
    BY DEF Places
  <2>3. QueueTypeOK'
    BY <2>1 DEF QueueTypeOK
  <2>4. Places' /\ Reported'
    BY <2>1, <2>2 DEF Places, Reported, QueueTypeOK
  <2> QED
    BY <2>2, <2>3, <2>4
<1>9. ASSUME NEW p \in Pids, ProcessExit(p) PROVE QueueInv'
  <2> USE <1>9 DEF ProcessExit, QueueInv
  <2>1. /\ Running' \subseteq Running /\ p \notin Running'
        /\ holder' \in [Pids -> {Nobody, Job, Stranger}]
    BY DEF Running, QueueTypeOK
  <2>2. /\ events' \subseteq events \cup (knotes \cap {p})
        /\ events' \cap Running' = {} /\ events' \cap knotes' = {}
    BY <2>1 DEF Reported
  <2>3. QueueTypeOK'
    BY <2>1, <2>2 DEF QueueTypeOK
  <2>4. Places' /\ Reported'
    BY <2>2 DEF Places, Reported
  <2> QED
    BY <2>1, <2>3, <2>4 DEF Known
<1>10. ASSUME NEW p \in Pids, StrangerStart(p) PROVE QueueInv'
  <2> USE <1>10 DEF StrangerStart, QueueInv
  <2>1. /\ Running' = Running
        /\ holder' \in [Pids -> {Nobody, Job, Stranger}]
    BY DEF Running, QueueTypeOK
  <2> QED
    BY <2>1 DEF QueueTypeOK, Places, Reported, Known
<1>11. CASE UNCHANGED queueVars
  BY <1>11 DEF queueVars, QueueInv, QueueTypeOK, Places, Reported, Known, Running
<1> QED
  BY <1>2, <1>3, <1>4, <1>5, <1>6, <1>7, <1>8, <1>9, <1>10, <1>11
  DEF QueueNext, Shell, RobsdWait

\* Every reachable state of the queue, the shell and robsd-wait satisfies the
\* inductive invariant: what robsd-wait has not yet reported is still watched.
THEOREM QueueInvariant == QueueSpec => []QueueInv
BY QueueInitInvariant, QueueInvStep, PTL DEF QueueSpec

\* However many parallel steps, jobs at a time and processes of others there
\* are, and whatever ids the kernel gives out again: unless kevent has failed
\* no running job is lost from _jobs, and robsd_exec_steps goes on to the step
\* behind the barrier only when no job runs.
THEOREM BarrierHolds == QueueSpec => []BarrierHeld
<1>1. QueueInv => BarrierHeld
  BY DEF QueueInv, BarrierHeld, QueueTypeOK, Places, Known
<1> QED
  BY <1>1, QueueInvariant, PTL
=============================================================================
