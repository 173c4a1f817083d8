------------------------------- MODULE JobQueue ------------------------------
(***************************************************************************)
(* The background jobs of robsd_exec_steps as the shell and robsd-wait     *)
(* (src/robsd-wait.c) know them: by their process ids, which the kernel    *)
(* gives out again once a job is gone.  _jobs keeps the id of a job that   *)
(* is gone until robsd-wait is next asked.  The list is known by the steps *)
(* whose jobs it holds and the id of each.                                 *)
(*                                                                         *)
(* The kernel is known by how it is used: a kevent that adds a process     *)
(* which is gone returns ESRCH at once; one that was added is reported     *)
(* once, when it exits.                                                    *)
(***************************************************************************)
EXTENDS Integers, FiniteSets

CONSTANTS
  NumTasks,   \* the number of parallel steps in a row
  Pids,       \* process ids
  MaxJobs,    \* ncpu
  MaxStrange, \* bound on the number of processes of others
  MaxFail     \* bound on the number of times kevent fails

ASSUME JobsAssumption ==
  /\ NumTasks \in Nat
  /\ MaxJobs \in Nat \ {0}
  /\ MaxStrange \in Nat
  /\ MaxFail \in Nat

VARIABLES
  holder,  \* who has each process id: nobody, a job, or a process of others
  task,    \* the parallel step the shell has come to
  pid,     \* _jobs: the process id of the job of each step that is in it
  spc,     \* where the shell is: "loop", "any", "all", "spawn", "over"
  wpc,     \* where robsd-wait is: "off", "start", "sleep"
  watched, \* those in c->pids of robsd-wait
  knotes,  \* processes the kernel reports the exit of to robsd-wait
  events,  \* exits not yet reported
  strange, \* processes of others so far
  fails,   \* failures of kevent so far
  dup      \* history: whether a job was given an id that _jobs still held

queueVars == <<holder, task, pid, spc, wpc, watched, knotes, events, strange, fails, dup>>
shellVars == <<task, pid>>
waitVars  == <<wpc, watched, knotes, events>>
boundVars == <<strange, fails, dup>>

Nobody == "nobody"
Job == "job"
Stranger == "stranger"
Gone(p) == holder[p] = Nobody

queue == DOMAIN pid \* the steps whose jobs are in _jobs
Ids(tasks) == {pid[t] : t \in tasks}

QueueInit ==
  /\ holder = [p \in Pids |-> Nobody]
  /\ task = 1
  /\ pid = [t \in {} |-> 0]
  /\ spc = "loop"
  /\ wpc = "off" /\ watched = {} /\ knotes = {} /\ events = {}
  /\ strange = 0 /\ fails = 0 /\ dup = FALSE

(***************************************************************************)
(* The shell.                                                              *)
(***************************************************************************)
Full == Cardinality(queue) = MaxJobs

\* robsd-wait is run, with -a at the sequential step behind the parallel ones.
RunWait(mode) ==
  /\ spc' = mode /\ wpc' = "start" /\ watched' = queue
  /\ UNCHANGED <<holder, shellVars, knotes, events, boundVars>>

WaitFull == spc = "loop" /\ task <= NumTasks /\ Full /\ RunWait("any")
WaitBarrier == spc = "loop" /\ task > NumTasks /\ queue # {} /\ RunWait("all")

SpawnTask(p) ==
  /\ spc = "spawn" \/ (spc = "loop" /\ task <= NumTasks /\ ~Full)
  /\ Gone(p)
  /\ holder' = [holder EXCEPT ![p] = Job]
  /\ pid' = [t \in queue \cup {task} |-> IF t = task THEN p ELSE pid[t]]
  /\ dup' = (dup \/ p \in Ids(queue))
  /\ task' = task + 1
  /\ spc' = "loop"
  /\ UNCHANGED <<waitVars, strange, fails>>

\* The next step is a sequential one and there is nothing to wait for.
Proceed ==
  /\ spc = "loop" /\ task > NumTasks /\ queue = {}
  /\ spc' = "over"
  /\ UNCHANGED <<holder, shellVars, waitVars, boundVars>>

(***************************************************************************)
(* robsd-wait.                                                             *)
(***************************************************************************)
\* robsd-wait exits: the ids it prints, none with an error, are the new _jobs.
WaitExit(left) ==
  /\ pid' = [t \in (IF spc = "all" THEN {} ELSE left) |-> pid[t]]
  /\ spc' = IF spc = "all" THEN "loop" ELSE "spawn"
  /\ wpc' = "off" /\ watched' = {} /\ knotes' = {} /\ events' = {}

\* Variant: what is left is not looked at with -a.
HandledOnce(left) == WaitExit(left) /\ UNCHANGED <<holder, task, boundVars>>

\* The end of kqueue_handle_events: with -a robsd-wait waits for what is left.
HandledEvents(left) ==
  /\ IF spc = "all" /\ left # {}
     THEN wpc' = "sleep" /\ watched' = left /\ UNCHANGED <<pid, spc>>
     ELSE WaitExit(left)
  /\ UNCHANGED <<holder, task, boundVars>>

\* Variant: a process that is gone is left in the map.
RegisterGone ==
  /\ wpc = "start"
  /\ wpc' = "sleep"
  /\ knotes' = {p \in Ids(watched) : ~Gone(p)}
  /\ UNCHANGED <<holder, shellVars, spc, watched, events, boundVars>>

\* kqueue_setup: what the kernel is asked to report.
Changes(tasks) == Ids(tasks)

\* The first kevent: the ids of processes that are gone come back as errors,
\* one for each time the id was given.
Register ==
  /\ wpc = "start"
  /\ LET left == {t \in watched : ~Gone(pid[t])}
     IN  IF left = watched
         THEN /\ wpc' = "sleep" /\ knotes' = Changes(watched)
              /\ UNCHANGED <<holder, shellVars, spc, watched, events, boundVars>>
         ELSE /\ HandledEvents(left)
              /\ wpc' = "sleep" => knotes' = Changes(left) /\ events' = {}

\* MAP_REMOVE of each id: it takes one element off, and not those with the
\* same id.
Removed(tasks, gone) ==
  LET first(t) == \A u \in tasks : pid[u] = pid[t] => t <= u
  IN  {t \in tasks : ~(pid[t] \in gone /\ first(t))}

\* A kevent that was asleep returns the exits there were.
Collect ==
  /\ wpc = "sleep" /\ events # {}
  /\ HandledEvents(Removed(watched, events))
  /\ wpc' = "sleep" => events' = {} /\ UNCHANGED knotes

\* kevent fails: robsd-wait prints nothing, and the shell goes on.
WaitFails ==
  /\ wpc \in {"start", "sleep"} /\ fails < MaxFail
  /\ fails' = fails + 1
  /\ WaitExit({})
  /\ UNCHANGED <<holder, task, strange, dup>>

(***************************************************************************)
(* The processes.                                                          *)
(***************************************************************************)
ProcessExit(p) ==
  /\ ~Gone(p)
  /\ holder' = [holder EXCEPT ![p] = Nobody]
  /\ events' = IF p \in knotes THEN events \cup {p} ELSE events
  /\ knotes' = knotes \ {p}
  /\ UNCHANGED <<shellVars, spc, wpc, watched, boundVars>>

StrangerStart(p) ==
  /\ Gone(p) /\ strange < MaxStrange
  /\ holder' = [holder EXCEPT ![p] = Stranger]
  /\ strange' = strange + 1
  /\ UNCHANGED <<shellVars, spc, waitVars, fails, dup>>

Shell == WaitFull \/ WaitBarrier \/ Proceed \/ \E p \in Pids : SpawnTask(p)
RobsdWait == Register \/ Collect

QueueNext ==
  \/ Shell
  \/ RobsdWait
  \/ WaitFails
  \/ \E p \in Pids : ProcessExit(p) \/ StrangerStart(p)

\* The shell and robsd-wait are scheduled, and processes come to their end.
QueueFairness ==
  /\ WF_queueVars(Shell)
  /\ WF_queueVars(RobsdWait)
  /\ \A p \in Pids : WF_queueVars(ProcessExit(p))

QueueSpec == QueueInit /\ [][QueueNext]_queueVars /\ QueueFairness
-----------------------------------------------------------------------------
Running == {p \in Pids : holder[p] = Job}

\* The state is well formed.
QueueTypeOK ==
  /\ holder \in [Pids -> {Nobody, Job, Stranger}]
  /\ task \in 1 .. NumTasks + 1
  /\ pid \in [queue -> Pids] /\ queue \subseteq 1 .. task - 1 /\ Cardinality(queue) <= MaxJobs
  /\ spc \in {"loop", "any", "all", "spawn", "over"}
  /\ wpc \in {"off", "start", "sleep"} /\ (wpc = "off" <=> spc \notin {"any", "all"})
  /\ watched \subseteq queue /\ knotes \cup events \subseteq Ids(watched)

\* "Wait for all running jobs to finish.": unless robsd-wait has failed no job
\* that still runs is missing from _jobs, whatever ids are given out again to
\* jobs and to processes of others, and the step behind the parallel ones begins
\* when none of them runs.
BarrierHeld ==
  /\ QueueTypeOK
  /\ fails = 0 => Running \subseteq Ids(queue) /\ (spc = "over" => Running = {})

\* The barrier comes to its end once the jobs do, also when it has to wait for a
\* process of others that got the id of a job.  It need not when _jobs holds
\* an id twice: robsd-wait -a then waits for a second exit of one process.
BarrierEnds == <>(spc = "over" \/ dup)
=============================================================================
