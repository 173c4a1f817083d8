------------------------------ MODULE StepExec ------------------------------
(***************************************************************************)
(* One robsd-exec and the process group of its step (src/step-exec.c),     *)
(* with robsd-kill's pkill (src/robsd-kill) and the alarm of a timeout.    *)
(*                                                                         *)
(* The handlers only set gotsig; what matters is where robsd-exec is when  *)
(* a signal comes in.  Time is left out: each wait may be cut short at any *)
(* moment, that for the effect of SIGKILL included.                        *)
(***************************************************************************)
CONSTANTS
  Leader,   \* the child that robsd-exec forks, and leader of its group
  Others,   \* processes that the step starts in that group
  Timeout,  \* whether the step has a timeout
  Killing   \* whether robsd-kill is used

Members == Others \cup {Leader}

ASSUME LeaderAssumption == Leader \notin Others
ASSUME SwitchAssumption == Timeout \in BOOLEAN /\ Killing \in BOOLEAN

VARIABLES
  epc,      \* where robsd-exec is
  exit,     \* the exit status of robsd-exec
  gotsig,   \* the last signal handled
  alarm,    \* the alarm of the timeout
  proc,     \* the members of the group
  session,  \* whether the leader has been through setsid
  status,   \* the wait status of the leader once it is dead
  stubborn, \* those that ignore SIGTERM; it never changes
  termed,   \* members sent SIGTERM by killwaitpg
  killed,   \* members sent SIGKILL by killwaitpg
  pkill     \* whether robsd-kill has been started

vars == <<epc, exit, gotsig, alarm, proc, session, status, stubborn, termed,
          killed, pkill>>

groupVars == <<proc, session, status, stubborn>>
sentVars  == <<termed, killed>>
sigVars   == <<gotsig, alarm>>

Init ==
  /\ epc = "start"
  /\ exit = "none"
  /\ gotsig = "none"
  /\ alarm = "off"
  /\ proc = [m \in Members |-> "unborn"]
  /\ session = FALSE
  /\ status = "none"
  /\ stubborn \in SUBSET Members
  /\ termed = {}
  /\ killed = {}
  /\ pkill = FALSE

Over == epc \in {"done", "failed", "died"}

\* Processes there are, and those among them whose command line is still that
\* of robsd-exec.
Living(m) == proc[m] \in {"forked", "grouped", "running"}
Unexeced == {m \in {Leader} : proc[m] \in {"forked", "grouped"}}

\* Variant: the status goes before the signal.
ExitStatusFirst(st, sig) ==
  IF st = "zero" THEN "zero" ELSE IF sig = "ALRM" THEN "timeout" ELSE "fail"

\* exitstatus
ExitStatus(st, sig) ==
  IF sig = "ALRM" THEN "timeout" ELSE IF st = "zero" THEN "zero" ELSE "fail"

Finish(e) == epc' = "done" /\ exit' = e
GiveUp == epc' = "failed" /\ exit' = "fail"

(***************************************************************************)
(* robsd-exec.                                                             *)
(***************************************************************************)
\* step_fork: SIGTERM still has its default action, in the child as well.
Fork ==
  /\ epc = "start"
  /\ epc' = "forked"
  /\ proc' = [proc EXCEPT ![Leader] = "forked"]
  /\ UNCHANGED <<exit, sigVars, session, status, stubborn, sentVars, pkill>>

\* step_fork: SIGTERM is handled from here on.
Install ==
  /\ epc = "forked"
  /\ epc' = "waiteof"
  /\ UNCHANGED <<exit, sigVars, groupVars, sentVars, pkill>>

\* waiteof: the child has closed the pipe, or is dead.
WaitEof ==
  /\ epc = "waiteof"
  /\ proc[Leader] # "forked"
  /\ epc' = IF Timeout THEN "arming" ELSE "armed"
  /\ UNCHANGED <<exit, sigVars, groupVars, sentVars, pkill>>

\* waiteof gives up after a second.
WaitEofGivesUp ==
  /\ epc = "waiteof"
  /\ proc[Leader] = "forked"
  /\ epc' = "failing"
  /\ UNCHANGED <<exit, sigVars, groupVars, sentVars, pkill>>

\* step_fork: the child is waited for, and the step has failed anyhow.
FailingReap ==
  /\ epc = "failing"
  /\ status # "none"
  /\ GiveUp
  /\ UNCHANGED <<sigVars, groupVars, sentVars, pkill>>

Arm ==
  /\ epc = "arming"
  /\ epc' = "armed"
  /\ alarm' = "set"
  /\ UNCHANGED <<exit, gotsig, groupVars, sentVars, pkill>>

\* step_exec: waitpid is called.  Without a group it fails at once.
Wait ==
  /\ epc = "armed"
  /\ epc' = IF session THEN "waiting" ELSE "woken"
  /\ UNCHANGED <<exit, sigVars, groupVars, sentVars, pkill>>

\* step_exec: waitpid returns the leader.
Reap ==
  /\ epc = "waiting"
  /\ status # "none"
  /\ Finish(ExitStatus(status, gotsig))
  /\ UNCHANGED <<sigVars, groupVars, sentVars, pkill>>

\* Variant: the leader alone is signalled.
SendTermLeader ==
  /\ epc = "woken"
  /\ IF session /\ gotsig # "none"
     THEN /\ epc' = "term"
          /\ termed' = {m \in {Leader} : Living(m)}
          /\ UNCHANGED exit
     ELSE Finish("fail") /\ UNCHANGED termed
  /\ UNCHANGED <<sigVars, groupVars, killed, pkill>>

\* killwaitpg: waitpid has failed; because of a signal, and the group is sent
\* SIGTERM, or for want of a group, and robsd-exec gives up.
SendTerm ==
  /\ epc = "woken"
  /\ IF session /\ gotsig # "none"
     THEN /\ epc' = "term"
          /\ termed' = {m \in Members : Living(m)}
          /\ UNCHANGED exit
     ELSE Finish("fail") /\ UNCHANGED termed
  /\ UNCHANGED <<sigVars, groupVars, killed, pkill>>

\* killwaitpg1: the leader is dead.
KilledReap ==
  /\ epc \in {"term", "kill"}
  /\ status # "none"
  /\ Finish(ExitStatus(status, gotsig))
  /\ UNCHANGED <<sigVars, groupVars, sentVars, pkill>>

\* killwaitpg: the leader was not seen dead for five seconds; it may be since.
\* One that was dead when SIGTERM was sent is seen at once.
SendKill ==
  /\ epc = "term"
  /\ Leader \in termed
  /\ epc' = "kill"
  /\ killed' = {m \in Members : Living(m)}
  /\ UNCHANGED <<exit, sigVars, groupVars, termed, pkill>>

\* killwaitpg: nor for another five seconds.  The status becomes 1, that of a
\* process killed by signal 1, and robsd-exec gives up on the group.
KillGivesUp ==
  /\ epc = "kill"
  /\ Leader \in killed
  /\ Finish(ExitStatus("signaled", gotsig))
  /\ UNCHANGED <<sigVars, groupVars, sentVars, pkill>>

Exec ==
  \/ Fork
  \/ Install
  \/ WaitEof
  \/ WaitEofGivesUp
  \/ FailingReap
  \/ Arm
  \/ Wait
  \/ Reap
  \/ SendTerm
  \/ KilledReap
  \/ SendKill
  \/ KillGivesUp

(***************************************************************************)
(* The process group.                                                      *)
(***************************************************************************)
\* The leader: setsid, and the pipe is closed.
SetSession ==
  /\ proc[Leader] = "forked"
  /\ proc' = [proc EXCEPT ![Leader] = "grouped"]
  /\ session' = TRUE
  /\ UNCHANGED <<epc, exit, sigVars, status, stubborn, sentVars, pkill>>

\* The leader: execvp.
Execvp ==
  /\ proc[Leader] = "grouped"
  /\ proc' = [proc EXCEPT ![Leader] = "running"]
  /\ UNCHANGED <<epc, exit, sigVars, session, status, stubborn, sentVars, pkill>>

Doomed(m) == m \in killed \/ (m \in termed /\ m \notin stubborn)

\* A process of the step starts another one, in a handler of SIGTERM too.
Spawn(m) ==
  /\ proc[m] = "unborn"
  /\ m # Leader
  /\ \E n \in Members : proc[n] = "running" /\ n \notin killed
  /\ proc' = [proc EXCEPT ![m] = "running"]
  /\ UNCHANGED <<epc, exit, sigVars, session, status, stubborn, sentVars, pkill>>

\* A process is dead; of the leader the wait status remains.
Dies(m, st) ==
  /\ proc' = [proc EXCEPT ![m] = "dead"]
  /\ status' = IF m = Leader THEN st ELSE status

\* A process comes to its end on its own.
End(m) ==
  /\ proc[m] = "running"
  /\ \E st \in {"zero", "nonzero"} : Dies(m, st)
  /\ UNCHANGED <<epc, exit, sigVars, session, stubborn, sentVars, pkill>>

\* A signal takes effect; a handler of SIGTERM may exit with any status.
Die(m) ==
  /\ Living(m)
  /\ Doomed(m)
  /\ \E st \in {"zero", "nonzero", "signaled"} :
       /\ m \in killed \/ proc[m] # "running" => st = "signaled"
       /\ Dies(m, st)
  /\ UNCHANGED <<epc, exit, sigVars, session, stubborn, sentVars, pkill>>

(***************************************************************************)
(* Signals to robsd-exec.                                                  *)
(***************************************************************************)
\* Variant: system calls are restarted.
HandledRestart(sig) ==
  /\ gotsig' = sig
  /\ UNCHANGED <<epc, exit>>

\* sighandler: a waitpid in progress is interrupted, the one of step_fork
\* ends robsd-exec, and nothing else takes notice.
Handled(sig) ==
  /\ gotsig' = sig
  /\ CASE epc = "waiting" -> epc' = "woken" /\ UNCHANGED exit
       [] epc = "failing" -> GiveUp
       [] OTHER -> UNCHANGED <<epc, exit>>

Alarm ==
  /\ alarm = "set"
  /\ ~Over
  /\ alarm' = "fired"
  /\ Handled("ALRM")
  /\ UNCHANGED <<groupVars, sentVars, pkill>>

KillStart ==
  /\ Killing
  /\ ~Over
  /\ pkill' = TRUE
  /\ UNCHANGED <<epc, exit, sigVars, groupVars, sentVars>>

\* One round of pkill -f: every process that has robsd-exec's command line.
Pkill ==
  /\ pkill
  /\ ~Over \/ Unexeced # {}
  /\ CASE Over -> UNCHANGED <<epc, exit, gotsig>>
       [] epc \in {"start", "forked"} ->
            epc' = "died" /\ exit' = "fail" /\ UNCHANGED gotsig
       [] OTHER -> Handled("TERM")
  /\ IF Unexeced # {} THEN Dies(Leader, "signaled") ELSE UNCHANGED <<proc, status>>
  /\ UNCHANGED <<alarm, session, stubborn, sentVars, pkill>>

(***************************************************************************)
(* The specification.                                                      *)
(***************************************************************************)
Group ==
  \/ SetSession
  \/ Execvp
  \/ \E m \in Members : Spawn(m) \/ End(m) \/ Die(m)

Signal == Alarm \/ KillStart \/ Pkill

Next == Exec \/ Group \/ Signal

\* robsd-exec, the child on its way to execvp and robsd-kill are scheduled,
\* signals are delivered.  The step itself may run for ever.
Fairness ==
  /\ WF_vars(Exec)
  /\ WF_vars(SetSession \/ Execvp)
  /\ \A m \in Members : WF_vars(Die(m))
  /\ WF_vars(Alarm)
  /\ WF_vars(Pkill)

Spec == Init /\ [][Next]_vars /\ Fairness
-----------------------------------------------------------------------------
EPCs == {"start", "forked", "waiteof", "failing", "arming", "armed", "waiting",
         "woken", "term", "kill", "done", "failed", "died"}

\* The state is well formed, and the leader has a status once it is dead.
TypeOK ==
  /\ epc \in EPCs
  /\ exit \in {"none", "zero", "fail", "timeout"}
  /\ gotsig \in {"none", "TERM", "ALRM"}
  /\ alarm \in {"off", "set", "fired"}
  /\ proc \in [Members -> {"unborn", "forked", "grouped", "running", "dead"}]
  /\ session \in BOOLEAN
  /\ status \in {"none", "zero", "nonzero", "signaled"}
  /\ status # "none" <=> proc[Leader] = "dead"
  /\ stubborn \subseteq Members
  /\ termed \subseteq Members
  /\ killed \subseteq Members
  /\ pkill \in BOOLEAN

\* Unless robsd-kill is there to put SIGTERM in the place of SIGALRM, a step
\* whose alarm went off before robsd-exec was done is reported as timed out
\* (124), and no other step is; and a zero exit is always the leader's own.
TimeoutReported ==
  /\ Over /\ ~pkill => (exit = "timeout" <=> alarm = "fired")
  /\ exit = "zero" => status = "zero"

\* robsd-exec leaves the leader behind only after it has sent it SIGKILL, once
\* it is past step_fork, and never does in step_fork without robsd-kill.
LeaderGone ==
  epc = "done" \/ (Over /\ ~pkill) =>
    proc[Leader] \in {"unborn", "dead"} \/ Leader \in killed

\* The processes of the step that are there when robsd-exec goes on to kill it.
Caught(m) == epc = "woken" /\ session /\ gotsig # "none" /\ Living(m)

\* "caught signal %d, kill process group": each process that is there then ends.
\* Only one that ignores SIGTERM may outlive the step, when the leader has died
\* in time and SIGKILL was therefore not sent; SIGKILL ends all there are.  The
\* leader is left to SIGKILL at worst (LeaderGone).
GroupCut ==
  /\ []LeaderGone
  /\ \A m \in Members :
       Caught(m) ~> \/ ~Living(m)
                    \/ m \in stubborn /\ epc = "done" /\ status # "none" /\ killed = {}
  /\ epc = "kill" ~> \A m \in Members : ~Living(m)

\* While robsd-kill keeps at it, robsd-exec does end, wherever the first
\* signals may have been missed.
KillEnds == pkill ~> Over
=============================================================================
