------------------------------- MODULE Robsd -------------------------------
(***************************************************************************)
(* One build directory and the invocations that work on it: the main loop  *)
(* shared by robsd, robsd-cross, robsd-ports, robsd-regress and canvas     *)
(* (src/util.sh: robsd, robsd_exec_steps, step_exec_job, step_next,        *)
(* trap_exit), the background jobs it starts, robsd-kill, and a machine    *)
(* that goes down and is followed by `robsd -r`.                           *)
(*                                                                         *)
(* The modes differ in the constants only.  robsd, robsd-cross and         *)
(* robsd-ports have no parallel steps and ignore no failure; canvas has    *)
(* parallel steps; robsd-regress has both, Ignored being its tests         *)
(* (regress_step_after).                                                   *)
(***************************************************************************)
EXTENDS Integers, FiniteSets

CONSTANTS
  Last,       \* the id of the step named end
  Parallel,   \* steps run in the background
  Ignored,    \* steps whose failure does not end the invocation
  Skipped,    \* steps given to -s or to the skip option
  Reboot,     \* the id of the step named reboot, if reboot is enabled
  Ncpu,       \* the number of background jobs allowed at a time
  MaxRetry,   \* bound on the times a hook asks for a retry
  MaxResume,  \* bound on the times the build is resumed
  Crashes,    \* whether the machine may go down
  Killing     \* whether robsd-kill is used

Steps == 1 .. Last

ASSUME StepsAssumption ==
  /\ Last \in Nat \ {0}
  /\ Parallel \subseteq Steps \ {Last}
  /\ Ignored \subseteq Steps \ {Last}
  /\ Skipped \subseteq Steps
  /\ Reboot \subseteq Steps \ Parallel
ASSUME BoundsAssumption ==
  /\ Ncpu \in Nat \ {0}
  /\ MaxRetry \in Nat
  /\ MaxResume \in Nat
  /\ Crashes \in BOOLEAN
  /\ Killing \in BOOLEAN

VARIABLES
  row,      \* the exit column of step.csv for each step
  job,      \* how far step_exec_job is with each step
  code,     \* the exit of a step that is about to be recorded
  jobs,     \* _jobs of robsd_exec_steps: background jobs not yet waited for
  pc,       \* where the main loop is
  cur,      \* _step of the main loop
  rc,       \* what robsd_exec_steps returns
  uchg,     \* whether robsd-kill has marked .running
  kpc,      \* where robsd-kill is
  retries,  \* the retries asked for so far
  resumes,  \* the resumed invocations so far
  late      \* history: steps started since robsd-kill marked .running

vars == <<row, job, code, jobs, pc, cur, rc, uchg, kpc, retries, resumes, late>>

loopVars == <<jobs, pc, cur, rc>>
jobVars  == <<row, job, code>>
killVars == <<uchg, kpc>>
countVars == <<retries, resumes>>

\* Exits, with every failing one alike except the 125 that asks for a retry.
Codes == {"ok", "fail", "retry"}
Recorded(s) == row[s] \notin {"none", "skip"}
Active(s) == job[s] # "none"

\* The failure of a sequential step ends the invocation.
Strict(s) == s \notin Parallel /\ s \notin Ignored

Init ==
  /\ row = [s \in Steps |-> IF s \in Skipped THEN "skip" ELSE "none"]
  /\ job = [s \in Steps |-> "none"]
  /\ code = [s \in Steps |-> "ok"]
  /\ jobs = {}
  /\ pc = "loop"
  /\ cur = 1
  /\ rc = "ok"
  /\ uchg = FALSE
  /\ kpc = "off"
  /\ retries = 0
  /\ resumes = 0
  /\ late = 0

(***************************************************************************)
(* The main loop: robsd_exec_steps.                                        *)
(***************************************************************************)
\* The list of steps is used up, or the step has a row with skip=1.
Skip ==
  /\ pc = "loop"
  /\ cur \in Steps => row[cur] = "skip"
  /\ IF cur \in Steps
     THEN cur' = cur + 1 /\ UNCHANGED <<pc, rc>>
     ELSE pc' = "returned" /\ rc' = "ok" /\ UNCHANGED cur
  /\ UNCHANGED <<jobVars, jobs, killVars, countVars, late>>

Pending == pc = "loop" /\ cur \in Steps /\ row[cur] # "skip"

StartJob(s) ==
  /\ job' = [job EXCEPT ![s] = "fresh"]
  /\ late' = IF uchg THEN late + 1 ELSE late

\* robsd-wait: the queue is full; at least one job that is gone is dropped.
WaitAny ==
  /\ Pending
  /\ cur \in Parallel
  /\ Cardinality(jobs) = Ncpu
  /\ \E gone \in SUBSET jobs :
       /\ gone # {}
       /\ \A s \in gone : ~Active(s)
       /\ jobs' = jobs \ gone
  /\ UNCHANGED <<jobVars, pc, cur, rc, killVars, countVars, late>>

\* step_exec_job &
Spawn ==
  /\ Pending
  /\ cur \in Parallel
  /\ Cardinality(jobs) # Ncpu
  /\ jobs' = jobs \cup {cur}
  /\ StartJob(cur)
  /\ pc' = "check"
  /\ UNCHANGED <<row, code, cur, rc, killVars, countVars>>

\* Variant: the barrier waits for one job only.
BarrierAny ==
  /\ Pending
  /\ cur \notin Parallel
  /\ jobs = {} \/ \E s \in jobs : ~Active(s)
  /\ jobs' = {}
  /\ pc' = "ready"
  /\ UNCHANGED <<jobVars, cur, rc, killVars, countVars, late>>

\* robsd-wait -a: every background job is gone before a sequential step.
Barrier ==
  /\ Pending
  /\ cur \notin Parallel
  /\ \A s \in jobs : ~Active(s)
  /\ jobs' = {}
  /\ pc' = "ready"
  /\ UNCHANGED <<jobVars, cur, rc, killVars, countVars, late>>

\* step_exec_job, in the foreground.
Call ==
  /\ pc = "ready"
  /\ cur # Last
  /\ StartJob(cur)
  /\ pc' = "call"
  /\ UNCHANGED <<row, code, jobs, cur, rc, killVars, countVars>>

\* Variant: the exit of the step is lost in the pipeline.
ReturnZero ==
  /\ pc = "call"
  /\ ~Active(cur)
  /\ pc' = "check"
  /\ UNCHANGED <<jobVars, jobs, cur, rc, killVars, countVars, late>>

\* The step is over.  What it returns is its exit, or 0 for a test of
\* robsd-regress.
Return ==
  /\ pc = "call"
  /\ ~Active(cur)
  /\ IF row[cur] = "ok" \/ cur \in Ignored
     THEN pc' = "check" /\ UNCHANGED rc
     ELSE pc' = "returned" /\ rc' = row[cur]
  /\ UNCHANGED <<jobVars, jobs, cur, killVars, countVars, late>>

\* The end step: a row with exit -1, the durations, a row with exit 0.
EndBegin ==
  /\ pc = "ready"
  /\ cur = Last
  /\ row' = [row EXCEPT ![Last] = "begun"]
  /\ pc' = "end"
  /\ UNCHANGED <<job, code, jobs, cur, rc, killVars, countVars, late>>

EndFinish ==
  /\ pc = "end"
  /\ row' = [row EXCEPT ![Last] = "ok"]
  /\ pc' = "returned"
  /\ rc' = "ok"
  /\ UNCHANGED <<job, code, jobs, cur, killVars, countVars, late>>

\* Variant: nobody looks whether the lock is alive.
CheckNotAlive ==
  /\ pc = "check"
  /\ IF cur \in Reboot
     THEN pc' = "returned" /\ rc' = "ok" /\ UNCHANGED cur
     ELSE pc' = "loop" /\ cur' = cur + 1 /\ UNCHANGED rc
  /\ UNCHANGED <<jobVars, jobs, killVars, countVars, late>>

\* "Reboot in progress?", then "Does robsd-kill want us dead?"
Check ==
  /\ pc = "check"
  /\ \/ /\ cur \in Reboot
        /\ pc' = "returned"
        /\ rc' = "ok"
        /\ UNCHANGED cur
     \/ /\ cur \notin Reboot
        /\ uchg
        /\ pc' = "drain"
        /\ UNCHANGED <<cur, rc>>
     \/ /\ cur \notin Reboot
        /\ ~uchg
        /\ pc' = "loop"
        /\ cur' = cur + 1
        /\ UNCHANGED rc
  /\ UNCHANGED <<jobVars, jobs, killVars, countVars, late>>

\* Killed: the background jobs are waited for.
Drain ==
  /\ pc = "drain"
  /\ \A s \in jobs : ~Active(s)
  /\ pc' = "returned"
  /\ rc' = "fail"
  /\ jobs' = {}
  /\ UNCHANGED <<jobVars, cur, killVars, countVars, late>>

(***************************************************************************)
(* step_exec_job.                                                          *)
(***************************************************************************)
\* step_write -e -1
JobBegin(s) ==
  /\ job[s] = "fresh"
  /\ job' = [job EXCEPT ![s] = "begun"]
  /\ row' = [row EXCEPT ![s] = "begun"]
  /\ UNCHANGED <<code, loopVars, killVars, countVars, late>>

\* step_exec: robsd-exec is there for pkill to find.
JobExec(s) ==
  /\ job[s] = "begun"
  /\ job' = [job EXCEPT ![s] = "exec"]
  /\ UNCHANGED <<row, code, loopVars, killVars, countVars, late>>

\* The step exits, killed or not with a code of its own, and the hook is run.
\* The hook, or the step, may exit 125 instead of any other code.
JobExit(s) ==
  /\ job[s] \in {"exec", "dying"}
  /\ \E c \in Codes :
       /\ c = "retry" => retries < MaxRetry
       /\ retries' = IF c = "retry" THEN retries + 1 ELSE retries
       /\ code' = [code EXCEPT ![s] = c]
  /\ job' = [job EXCEPT ![s] = "exited"]
  /\ UNCHANGED <<row, loopVars, killVars, resumes, late>>

\* Variant: the exit is recorded only when it is zero.
JobWriteOk(s) ==
  /\ job[s] = "exited"
  /\ row' = [row EXCEPT ![s] = IF code[s] = "ok" THEN "ok" ELSE @]
  /\ job' = [job EXCEPT ![s] = "none"]
  /\ UNCHANGED <<code, loopVars, killVars, countVars, late>>

\* step_write with the exit; a background job is gone.
JobWrite(s) ==
  /\ job[s] = "exited"
  /\ row' = [row EXCEPT ![s] = code[s]]
  /\ job' = [job EXCEPT ![s] = "none"]
  /\ UNCHANGED <<code, loopVars, killVars, countVars, late>>

(***************************************************************************)
(* robsd, trap_exit and the resumption of a build.                         *)
(***************************************************************************)
\* Variant: always the step after the last one recorded.
NextStepAfter(n) ==
  \E l \in Steps :
    /\ Recorded(l)
    /\ \A s \in Steps : s > l => ~Recorded(s)
    /\ n = IF l = Last THEN l ELSE l + 1

\* Variant: always the last step recorded.
NextStepLast(n) ==
  \E l \in Steps :
    /\ Recorded(l)
    /\ \A s \in Steps : s > l => ~Recorded(s)
    /\ n = l

\* step_next: the last row that is no skip row decides.
NextStep(n) ==
  \E l \in Steps :
    /\ Recorded(l)
    /\ \A s \in Steps : s > l => ~Recorded(s)
    /\ n = IF row[l] # "ok" \/ l = Last THEN l ELSE l + 1

\* Variant: any failure starts the loop over.
AgainAlways ==
  /\ pc = "returned"
  /\ rc # "ok"
  /\ NextStep(cur')
  /\ pc' = "loop"
  /\ rc' = "ok"
  /\ jobs' = {}
  /\ UNCHANGED <<jobVars, killVars, countVars, late>>

\* robsd: 125 starts the loop over from the next step.
Again ==
  /\ pc = "returned"
  /\ rc = "retry"
  /\ NextStep(cur')
  /\ pc' = "loop"
  /\ rc' = "ok"
  /\ jobs' = {}
  /\ UNCHANGED <<jobVars, killVars, countVars, late>>

\* trap_exit: the lock goes, and the mark of robsd-kill with it.
Exit ==
  /\ pc = "returned"
  /\ rc # "retry"
  /\ pc' = "off"
  /\ uchg' = FALSE
  /\ late' = 0
  /\ UNCHANGED <<jobVars, jobs, cur, rc, kpc, countVars>>

\* robsd -r, by hand or from rc.firsttime.  .running must not be immutable,
\* and step.csv must hold a row to go by.
Resume ==
  /\ pc = "off"
  /\ ~uchg
  /\ resumes < MaxResume
  /\ resumes' = resumes + 1
  /\ NextStep(cur')
  /\ pc' = "loop"
  /\ rc' = "ok"
  /\ jobs' = {}
  /\ UNCHANGED <<jobVars, killVars, retries, late>>

\* lock_acquire fails on an immutable .running, and the exit trap of robsd -r
\* then takes it away, mark and all: the next robsd -r gets through.
ResumeRefused ==
  /\ pc = "off"
  /\ uchg
  /\ \E s \in Steps : NextStep(s)
  /\ uchg' = FALSE
  /\ late' = 0
  /\ UNCHANGED <<jobVars, loopVars, kpc, countVars>>

\* The machine goes down with everything that runs on it.
Crash ==
  /\ Crashes
  /\ pc # "off"
  /\ pc' = "off"
  /\ job' = [s \in Steps |-> "none"]
  /\ jobs' = {}
  /\ kpc' = "off"
  /\ UNCHANGED <<row, code, cur, rc, uchg, countVars, late>>

(***************************************************************************)
(* robsd-kill.                                                             *)
(***************************************************************************)
\* .running exists and is made immutable.
KillFlag ==
  /\ Killing
  /\ kpc = "off"
  /\ pc # "off"
  /\ uchg' = TRUE
  /\ kpc' = "pkill"
  /\ UNCHANGED <<jobVars, loopVars, countVars, late>>

\* pkill: the running robsd-exec processes are signalled.
KillSteps ==
  /\ kpc = "pkill"
  /\ \E s \in Steps : job[s] = "exec"
  /\ job' = [s \in Steps |-> IF job[s] = "exec" THEN "dying" ELSE job[s]]
  /\ UNCHANGED <<row, code, loopVars, killVars, countVars, late>>

\* No robsd-exec is left to signal.
KillDone ==
  /\ kpc = "pkill"
  /\ \A s \in Steps : job[s] \notin {"exec", "dying"}
  /\ kpc' = "off"
  /\ UNCHANGED <<jobVars, loopVars, uchg, countVars, late>>

(***************************************************************************)
(* The specification.                                                      *)
(***************************************************************************)
Loop ==
  \/ Skip
  \/ WaitAny
  \/ Spawn
  \/ Barrier
  \/ Call
  \/ Return
  \/ EndBegin
  \/ EndFinish
  \/ Check
  \/ Drain
  \/ Again
  \/ Exit

Job(s) == JobBegin(s) \/ JobExec(s) \/ JobExit(s) \/ JobWrite(s)

Kill == KillFlag \/ KillSteps \/ KillDone

Next == Loop \/ (\E s \in Steps : Job(s)) \/ Resume \/ ResumeRefused \/ Crash \/ Kill

\* Every process is scheduled, and every step and hook comes to an end.
Fairness == WF_vars(Loop) /\ \A s \in Steps : WF_vars(Job(s))

Spec == Init /\ [][Next]_vars /\ Fairness
-----------------------------------------------------------------------------
Rows  == {"none", "skip", "begun"} \cup Codes
Stages == {"none", "fresh", "begun", "exec", "dying", "exited"}
PCs   == {"loop", "ready", "call", "end", "check", "drain", "returned", "off"}

\* The state is well formed, and .running is marked only by robsd-kill.
TypeOK ==
  /\ row \in [Steps -> Rows]
  /\ job \in [Steps -> Stages]
  /\ code \in [Steps -> Codes]
  /\ jobs \in SUBSET Parallel
  /\ pc \in PCs
  /\ cur \in 1 .. Last + 1
  /\ rc \in Codes
  /\ uchg \in BOOLEAN
  /\ kpc \in {"off", "pkill"}
  /\ retries \in 0 .. MaxRetry
  /\ resumes \in 0 .. MaxResume
  /\ late \in Nat

\* "Wait for all running jobs to finish": a sequential step, the end step
\* included, runs on its own.
SequentialAlone ==
  \A s, t \in Steps :
    /\ Active(s) /\ s \notin Parallel /\ Active(t) => s = t
    /\ Active(s) => pc # "end"

\* "Ensure the job queue is not full": no more than ncpu jobs at a time.
JobLimit == Cardinality({s \in Parallel : Active(s)}) <= Ncpu

\* No step is begun before every sequential step ahead of it has succeeded or
\* was skipped, whatever was resumed, retried or killed in between.
InOrder ==
  \A s, t \in Steps :
    s < t /\ Strict(s) /\ (Recorded(t) \/ Active(t)) => row[s] \in {"ok", "skip"}

\* A build that reached its end step has a final exit for each of its steps.
EndComplete ==
  resumes = 0 /\ Recorded(Last) =>
    \A s \in Steps \ {Last} : row[s] \notin {"none", "begun"}

\* Neither a resumed invocation nor a retry runs a step again that succeeded,
\* nor one that was to be skipped; and never twice at a time.
NoRerun ==
  [][\A s \in Steps :
       job[s] # "fresh" /\ job'[s] = "fresh" =>
         job[s] = "none" /\ row[s] \notin {"ok", "skip"}]_vars

\* An invocation comes to its end, the loop does not wait for ever.
Terminates == []<>(pc = "off")

\* Once robsd-kill has marked .running, one step at most is started, the one
\* the loop had already decided on, and one more for each retry asked for.
KillBound == late <= 1 + retries

\* Of the steps whose exit the loop looks at, each one is.
StrictRetried ==
  \A s \in Steps :
    Strict(s) /\ row[s] = "retry" /\ pc # "off" ~> row[s] # "retry"
=============================================================================
