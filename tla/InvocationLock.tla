--------------------------- MODULE InvocationLock ---------------------------
(***************************************************************************)
(* The lock file robsddir/.running and those who use it: invocations of    *)
(* robsd, robsd-cross, robsd-ports, robsd-regress and canvas, robsd-kill   *)
(* and robsd-rescue (src/util.sh, src/robsd, src/robsd-kill,               *)
(* src/robsd-rescue).  The file names the build directory of its owner;    *)
(* robsd-kill marks it immutable, which the owner notices between steps.   *)
(*                                                                         *)
(* Each action is one command of the scripts, since nothing makes two of   *)
(* them atomic.  A build directory is the number that ends its name.       *)
(***************************************************************************)
EXTENDS Integers

CONSTANTS
  Invs,      \* invocations, which may start again once they have exited
  MaxDir,    \* bound on the number of build directories ever made
  Overlap,   \* whether an invocation may start while another is starting
  Careful,   \* whether the operator leaves live builds alone: resumes no
             \* build and runs no robsd-rescue while an invocation is alive,
             \* and starts none while robsd-rescue runs
  Killing,   \* whether robsd-kill is used
  Crashes    \* whether the machine may go down

ASSUME MaxDirAssumption == MaxDir \in Nat \ {0}
ASSUME FlagsAssumption ==
  /\ Overlap \in BOOLEAN
  /\ Careful \in BOOLEAN
  /\ Killing \in BOOLEAN
  /\ Crashes \in BOOLEAN

Dirs == 1 .. MaxDir

\* The contents of .running: a build directory, nothing, or no file at all.
Empty  == 0
Absent == -1

VARIABLES
  running,  \* the contents of .running
  uchg,     \* whether .running is immutable
  made,     \* the build directories that exist
  ran,      \* those in which a step has been started
  lost,     \* those whose step.csv was lost in a crash
  pc,       \* where each invocation is
  dir,      \* BUILDDIR of each invocation
  report,   \* the build that the report in each build directory is about
  kpc,      \* where robsd-kill is
  rpc,      \* where robsd-rescue is
  rdir      \* BUILDDIR of robsd-rescue

vars == <<running, uchg, made, ran, lost, report, pc, dir, kpc, rpc, rdir>>

Init ==
  /\ running = Absent
  /\ uchg = FALSE
  /\ made = {}
  /\ ran = {}
  /\ lost = {}
  /\ report = [d \in Dirs |-> Empty]
  /\ pc = [p \in Invs |-> "off"]
  /\ dir = [p \in Invs |-> Empty]
  /\ kpc = "off"
  /\ rpc = "off"
  /\ rdir = Empty

lockVars == <<running, uchg>>
dirVars  == <<made, ran, lost, report>>
toolVars == <<kpc, rpc, rdir>>

Goto(p, l) == pc' = [pc EXCEPT ![p] = l]

\* The labels between a successful lock_acquire and the exit trap.
Working  == {"acquired", "locked", "stepping", "stepped", "touched"}
Starting == {"named", "inited", "read"}
Alive(p) == pc[p] # "off"

\* What `cat .running` prints, and what `cmp` against a directory succeeds on.
Names(d) == running = d
Vacant   == running \in {Empty, Absent}

\* has_steps: step.csv can be read and has a row that is no skip row.
HasSteps(d) == d \in ran \ lost

MayStart(p) ==
  /\ pc[p] = "off"
  /\ Careful => rpc = "off"
  /\ Overlap \/ \A q \in Invs : pc[q] \notin Starting

NobodyAlive == \A q \in Invs : ~Alive(q)

(***************************************************************************)
(* An invocation.                                                          *)
(***************************************************************************)
\* Variant: the number is not increased.
NextDirSame(d) ==
  /\ d \in Dirs
  /\ \A e \in made : e <= d
  /\ d \in made \/ made = {}

\* build_id: one more than the largest number in use today.
NextDir(d) ==
  /\ d \in Dirs
  /\ \A e \in made : e < d
  /\ d = 1 \/ d - 1 \in made

Start(p) ==
  /\ MayStart(p)
  /\ \E d \in Dirs : NextDir(d) /\ dir' = [dir EXCEPT ![p] = d]
  /\ Goto(p, "named")
  /\ UNCHANGED <<lockVars, dirVars, toolVars>>

\* robsd -r: step_next needs a row to go on from; without one the invocation
\* exits on the spot, through its exit trap.
Resume(p) ==
  /\ MayStart(p)
  /\ Careful => NobodyAlive
  /\ \E d \in made :
       /\ dir' = [dir EXCEPT ![p] = d]
       /\ Goto(p, IF HasSteps(d) THEN "named" ELSE "failed")
  /\ UNCHANGED <<lockVars, dirVars, toolVars>>

\* build_init: make the directory unless it is there.
BuildInit(p) ==
  /\ pc[p] = "named"
  /\ made' = made \cup {dir[p]}
  /\ Goto(p, "inited")
  /\ UNCHANGED <<lockVars, ran, lost, report, dir, toolVars>>

\* Variant: whatever .running holds is taken for an aborted run's.
AcquireReadBlind(p) ==
  /\ pc[p] = "inited"
  /\ Goto(p, "read")
  /\ UNCHANGED <<lockVars, dirVars, dir, toolVars>>

\* lock_acquire: read the owner and give up if it is another build.
AcquireRead(p) ==
  /\ pc[p] = "inited"
  /\ Goto(p, IF Vacant \/ Names(dir[p]) THEN "read" ELSE "failed")
  /\ UNCHANGED <<lockVars, dirVars, dir, toolVars>>

\* lock_acquire: write the build directory, which fails if .running is
\* immutable.
AcquireWrite(p) ==
  /\ pc[p] = "read"
  /\ IF uchg
     THEN Goto(p, "failed") /\ UNCHANGED running
     ELSE Goto(p, "acquired") /\ running' = dir[p]
  /\ UNCHANGED <<uchg, dirVars, dir, toolVars>>

\* The comment, the patches, the rows of skipped steps, robsd-clean and
\* robsd-stat, any of which may fail.
Prepare(p) ==
  /\ pc[p] = "acquired"
  /\ \E next \in {"locked", "failed"} : Goto(p, next)
  /\ UNCHANGED <<lockVars, dirVars, dir, toolVars>>

\* step_exec_job: the row of the step is written and robsd-exec started.
StepStart(p) ==
  /\ pc[p] = "locked"
  /\ ran' = ran \cup {dir[p]}
  /\ lost' = lost \ {dir[p]}
  /\ Goto(p, "stepping")
  /\ UNCHANGED <<lockVars, made, report, dir, toolVars>>

\* The step succeeds and is followed by lock_alive; or it fails, or is the end
\* step, or reboot, and the main loop returns.
StepFinish(p) ==
  /\ pc[p] = "stepping"
  /\ \E next \in {"stepped", "failed", "ended", "exiting"} : Goto(p, next)
  /\ UNCHANGED <<lockVars, dirVars, dir, toolVars>>

\* The step exits 125, or its hook does: robsd goes on with the step that
\* step_next names, past lock_alive.
StepRetry(p) ==
  /\ pc[p] = "stepping"
  /\ Goto(p, "locked")
  /\ UNCHANGED <<lockVars, dirVars, dir, toolVars>>

\* lock_alive: touch fails on an immutable file and creates a missing one.
AliveTouch(p) ==
  /\ pc[p] = "stepped"
  /\ IF uchg
     THEN Goto(p, "failed") /\ UNCHANGED running
     ELSE /\ Goto(p, "touched")
          /\ running' = IF running = Absent THEN Empty ELSE running
  /\ UNCHANGED <<uchg, dirVars, dir, toolVars>>

\* Variant: a file that can be touched is taken to be ours.
AliveCompareSkipped(p) ==
  /\ pc[p] = "touched"
  /\ Goto(p, "locked")
  /\ UNCHANGED <<lockVars, dirVars, dir, toolVars>>

\* lock_alive: cmp.
AliveCompare(p) ==
  /\ pc[p] = "touched"
  /\ Goto(p, IF Names(dir[p]) THEN "locked" ELSE "failed")
  /\ UNCHANGED <<lockVars, dirVars, dir, toolVars>>

\* trap_exit: a build with steps that failed or reached its end is reported
\* on.  report-path lies in ${builddir}, which the configuration takes from
\* .running and not from the invocation; without an owner it has no value.
Report(p) ==
  /\ pc[p] \in {"failed", "ended"}
  /\ report' = IF HasSteps(dir[p]) /\ ~Vacant
               THEN [report EXCEPT ![running] = dir[p]]
               ELSE report
  /\ Goto(p, "exiting")
  /\ UNCHANGED <<lockVars, made, ran, lost, dir, toolVars>>

\* Variant: the exit trap releases without comparing.
ReleaseUncompared(p) ==
  /\ pc[p] = "exiting"
  /\ Goto(p, "owner")
  /\ UNCHANGED <<lockVars, dirVars, dir, toolVars>>

\* Variant: the exit trap does not release the lock.
ReleaseSkipped(p) ==
  /\ pc[p] = "exiting"
  /\ Goto(p, "released")
  /\ UNCHANGED <<lockVars, dirVars, dir, toolVars>>

\* trap_exit, lock_release: cmp.
ReleaseCompare(p) ==
  /\ pc[p] = "exiting"
  /\ Goto(p, IF Names(dir[p]) THEN "owner" ELSE "released")
  /\ UNCHANGED <<lockVars, dirVars, dir, toolVars>>

\* lock_release: chflags nouchg.
ReleaseUnflag(p) ==
  /\ pc[p] = "owner"
  /\ uchg' = FALSE
  /\ Goto(p, "unflagged")
  /\ UNCHANGED <<running, dirVars, dir, toolVars>>

\* lock_release: rm -f, which fails quietly on an immutable file.
ReleaseRemove(p) ==
  /\ pc[p] = "unflagged"
  /\ running' = IF uchg THEN running ELSE Absent
  /\ Goto(p, "released")
  /\ UNCHANGED <<uchg, dirVars, dir, toolVars>>

\* Variant: the exit trap removes the build, steps or not.
CleanupAlways(p) ==
  /\ pc[p] = "released"
  /\ made' = made \ {dir[p]}
  /\ Goto(p, "off")
  /\ dir' = [dir EXCEPT ![p] = Empty]
  /\ UNCHANGED <<lockVars, ran, lost, report, toolVars>>

\* trap_exit: a build without steps is removed, and the invocation is gone.
\* has_steps and rm -r are one action: in between only an invocation that has
\* the same directory could give the build a step.
Cleanup(p) ==
  /\ pc[p] = "released"
  /\ made' = IF HasSteps(dir[p]) THEN made ELSE made \ {dir[p]}
  /\ Goto(p, "off")
  /\ dir' = [dir EXCEPT ![p] = Empty]
  /\ UNCHANGED <<lockVars, ran, lost, report, toolVars>>

(***************************************************************************)
(* robsd-kill.                                                             *)
(***************************************************************************)
KillCheck ==
  /\ Killing
  /\ kpc = "off"
  /\ running # Absent
  /\ kpc' = "found"
  /\ UNCHANGED <<lockVars, dirVars, pc, dir, rpc, rdir>>

\* chflags uchg: fails, and ends robsd-kill, if the file is gone meanwhile.
KillFlag ==
  /\ kpc = "found"
  /\ IF running = Absent
     THEN kpc' = "off" /\ UNCHANGED uchg
     ELSE kpc' = "flagged" /\ uchg' = TRUE
  /\ UNCHANGED <<running, dirVars, pc, dir, rpc, rdir>>

\* pkill: every robsd-exec gets a signal, the step fails and its invocation
\* leaves the main loop, unless the hook asks for a retry all the same.
KillSteps ==
  /\ kpc = "flagged"
  /\ \E p \in Invs : pc[p] = "stepping"
  /\ \E again \in SUBSET Invs :
       pc' = [p \in Invs |-> IF pc[p] # "stepping" THEN pc[p]
                             ELSE IF p \in again THEN "locked" ELSE "failed"]
  /\ UNCHANGED <<lockVars, dirVars, dir, toolVars>>

KillDone ==
  /\ kpc = "flagged"
  /\ \A p \in Invs : pc[p] # "stepping"
  /\ kpc' = "off"
  /\ UNCHANGED <<lockVars, dirVars, pc, dir, rpc, rdir>>

(***************************************************************************)
(* robsd-rescue, on the latest build directory.                            *)
(***************************************************************************)
RescueRead ==
  /\ rpc = "off"
  /\ Careful => NobodyAlive
  /\ \E d \in made :
       /\ \A e \in made : e <= d
       /\ Vacant \/ Names(d)
       /\ rdir' = d
  /\ rpc' = "read"
  /\ UNCHANGED <<lockVars, dirVars, pc, dir, kpc>>

\* The owner is another build: robsd-rescue fails and changes nothing.
RescueRefused ==
  /\ rpc = "off"
  /\ Careful => NobodyAlive
  /\ \E d \in made :
       /\ \A e \in made : e <= d
       /\ ~(Vacant \/ Names(d))
       /\ rdir' = d
  /\ rpc' = "failed"
  /\ UNCHANGED <<lockVars, dirVars, pc, dir, kpc>>

RescueWrite ==
  /\ rpc = "read"
  /\ IF uchg
     THEN rpc' = "failed" /\ UNCHANGED running
     ELSE rpc' = "locked" /\ running' = rdir
  /\ UNCHANGED <<uchg, dirVars, pc, dir, kpc, rdir>>

\* The patches are reverted, then lock_release compares.
RescueCompare ==
  /\ rpc = "locked"
  /\ rpc' = IF Names(rdir) THEN "owner" ELSE "failed"
  /\ UNCHANGED <<lockVars, dirVars, pc, dir, kpc, rdir>>

RescueUnflag ==
  /\ rpc = "owner"
  /\ uchg' = FALSE
  /\ rpc' = "unflagged"
  /\ UNCHANGED <<running, dirVars, pc, dir, kpc, rdir>>

RescueRemove ==
  /\ rpc = "unflagged"
  /\ running' = IF uchg THEN running ELSE Absent
  /\ rpc' = "rescued"
  /\ UNCHANGED <<uchg, dirVars, pc, dir, kpc, rdir>>

RescueExit ==
  /\ rpc \in {"failed", "rescued"}
  /\ rpc' = "off"
  /\ rdir' = Empty
  /\ UNCHANGED <<lockVars, dirVars, pc, dir, kpc>>

(***************************************************************************)
(* The machine goes down: nobody runs an exit trap, the files stay, but    *)
(* for a step.csv that was about to be written (src/step.c:273).           *)
(***************************************************************************)
Crash ==
  /\ Crashes
  /\ \E p \in Invs : Alive(p)
  /\ pc' = [p \in Invs |-> "off"]
  /\ dir' = [p \in Invs |-> Empty]
  /\ kpc' = "off"
  /\ rpc' = "off"
  /\ rdir' = Empty
  /\ \E torn \in SUBSET {d \in ran : \E p \in Invs :
                           dir[p] = d /\ pc[p] \in {"locked", "stepping"}} :
       lost' = lost \cup torn
  /\ UNCHANGED <<lockVars, made, ran, report>>

(***************************************************************************)
(* The specification.                                                      *)
(***************************************************************************)
\* What an invocation does once started.
Continue(p) ==
  \/ BuildInit(p)
  \/ AcquireRead(p)
  \/ AcquireWrite(p)
  \/ Prepare(p)
  \/ StepStart(p)
  \/ StepFinish(p)
  \/ StepRetry(p)
  \/ AliveTouch(p)
  \/ AliveCompare(p)
  \/ Report(p)
  \/ ReleaseCompare(p)
  \/ ReleaseUnflag(p)
  \/ ReleaseRemove(p)
  \/ Cleanup(p)

Kill == KillCheck \/ KillFlag \/ KillSteps \/ KillDone

Rescue ==
  \/ RescueRead
  \/ RescueRefused
  \/ RescueWrite
  \/ RescueCompare
  \/ RescueUnflag
  \/ RescueRemove
  \/ RescueExit

Next ==
  \/ \E p \in Invs : Start(p) \/ Resume(p) \/ Continue(p)
  \/ Kill
  \/ Rescue
  \/ Crash

\* The scheduler runs every invocation, and every step comes to an end.
Fairness == \A p \in Invs : WF_vars(Continue(p))

Spec == Init /\ [][Next]_vars /\ Fairness
-----------------------------------------------------------------------------
PCs == {"off", "named", "inited", "read", "acquired", "locked", "stepping",
        "stepped", "touched", "failed", "ended", "exiting", "owner", "unflagged", "released"}
KPCs == {"off", "found", "flagged"}
RPCs == {"off", "read", "locked", "owner", "unflagged", "failed", "rescued"}

\* The state is well formed: .running holds a build directory or nothing, and
\* is immutable only while it exists.
TypeOK ==
  /\ running \in Dirs \cup {Empty, Absent}
  /\ uchg \in BOOLEAN
  /\ uchg => running # Absent
  /\ made \subseteq Dirs
  /\ ran \subseteq Dirs
  /\ lost \subseteq ran
  /\ report \in [Dirs -> Dirs \cup {Empty}]
  /\ pc \in [Invs -> PCs]
  /\ dir \in [Invs -> Dirs \cup {Empty}]
  /\ \A p \in Invs : Alive(p) => dir[p] \in Dirs
  /\ kpc \in KPCs
  /\ rpc \in RPCs
  /\ rdir \in Dirs \cup {Empty}

\* "Acquire the mutex lock" (lock_acquire): two invocations are never both
\* between a successful lock_acquire and their exit trap.
Mutex ==
  \A p, q \in Invs : pc[p] \in Working /\ pc[q] \in Working => p = q

\* "Each invocation is identified by a directory created by robsd": live
\* invocations do not write to the same build directory.
OneBuildEach ==
  \A p, q \in Invs : Alive(p) /\ Alive(q) /\ dir[p] = dir[q] => p = q

\* The exit trap of one invocation never removes the build of another, nor one
\* in which a step was run, as long as its step.csv says so; see LogsKept.
StepsKept == \A d \in ran : HasSteps(d) => d \in made

\* "Do not leave an empty build around" (trap_exit): what it removes is empty.
\* A step.csv that was lost makes `robsd -r` exit before it does anything, and
\* the exit trap then take the build, with its logs, for an empty one.
LogsKept == ran \subseteq made

\* Once nothing runs, the lock is gone: neither the exit trap nor a losing
\* lock_alive leaves a .running behind that would stop the next invocation.
NoStrayLock == NobodyAlive /\ rpc = "off" => running = Absent

\* "Do not leave an empty build around" (trap_exit), however the invocation
\* came to its end.
NoEmptyBuild == NobodyAlive => made = ran

\* The report in a build directory is about that build.
ReportsOwnBuild == \A d \in Dirs : report[d] \in {Empty, d}

\* Two invocations with a build each that both got through lock_acquire.
Racing(p, q) == pc[p] \in Working /\ pc[q] \in Working /\ dir[p] # dir[q]

\* One whose name was overwritten and which never comes to lock_alive, since
\* its steps ask for one retry after the other.
OutOfReach(p) == pc[p] \in {"locked", "stepping"} /\ ~Names(dir[p])

\* Two invocations that raced through lock_acquire do not both go on: the one
\* whose name was overwritten stops at its next lock_alive, and only by asking
\* for retries without end does it never get there.
RaceResolves ==
  \A p, q \in Invs : []<>~Racing(p, q) \/ <>[]OutOfReach(p) \/ <>[]OutOfReach(q)

\* robsd-rescue(8): "Release the lock, allowing for new invocations."
RescueRecovers == rpc # "failed"

\* An invocation removes .running only while the file names its own build.
RemovesOwnLock ==
  [][\A p \in Invs : ReleaseRemove(p) => Names(dir[p])]_vars
=============================================================================
