----------------------------- MODULE MCStepExec -----------------------------
(***************************************************************************)
(* StepExec for a step whose leader starts up to two other processes, and  *)
(* JobQueue for four parallel steps.  The initial state chooses the one    *)
(* that moves, so that the states of the run are those of each of them.    *)
(***************************************************************************)
EXTENDS StepExec, JobQueue

CONSTANTS sh, a, b

VARIABLE which \* "step" or "queue"

jobVars == <<vars, queueVars, which>>

Step(A)  == which = "step" /\ A /\ UNCHANGED <<queueVars, which>>
Queue(A) == which = "queue" /\ A /\ UNCHANGED <<vars, which>>

JobInit ==
  /\ Init /\ QueueInit
  /\ which \in {"step", "queue"}
  /\ which = "queue" => stubborn = {}

JobNext == Step(Next) \/ Queue(QueueNext)

\* The fairness of StepExec and that of JobQueue, of the one that moves.
JobFairness ==
  /\ WF_jobVars(Step(Exec))
  /\ WF_jobVars(Step(SetSession \/ Execvp))
  /\ \A m \in Members : WF_jobVars(Step(Die(m)))
  /\ WF_jobVars(Step(Alarm))
  /\ WF_jobVars(Step(Pkill))
  /\ WF_jobVars(Queue(Shell))
  /\ WF_jobVars(Queue(RobsdWait))
  /\ \A p \in Pids : WF_jobVars(Queue(ProcessExit(p)))

JobSpec == JobInit /\ [][JobNext]_jobVars /\ JobFairness

\* BarrierEnds, where the queue moves: robsd_exec_steps gets past its barrier.
QueueEnds == which = "queue" => BarrierEnds
=============================================================================
