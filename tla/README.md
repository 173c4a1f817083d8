# A TLA+ development of robsd

robsd builds OpenBSD releases (robsd), cross compilers (robsd-cross), ports
(robsd-ports) and runs regression tests (robsd-regress) or any list of commands
(canvas).  It is a set of ksh scripts around a few C programs.  The scripts run
for hours, start background jobs, are killed, crash and are resumed; what they
agree on is kept in two small files, `.running` and `step.csv`.  This directory
models that: who owns a build, what the table of steps says, which step runs
next, what becomes of the processes of a step, what the configuration makes of a
build and what is told of it afterwards.

## Inventory

| part | source | state | operations |
|------|--------|-------|------------|
| step table | robsd-step.c, step.c | `step.csv` of a build: one row per step | read a row, write a row, under `flock` |
| invocation lock | util.sh (`lock_*`, `build_*`, `trap_exit`), robsd, canvas | `.running`, its immutable flag, the build directories | acquire, alive, release, make and remove a build |
| main loop | util.sh (`robsd*`, `step_*`), util-regress.sh | `_step`, `_jobs`, the rows | start a step, queue, barrier, end, retry, resume |
| step execution | robsd-exec.c, step-exec.c | process group, `gotsig`, alarm | fork, wait, time out, kill |
| robsd-kill | robsd-kill | none of its own | mark `.running`, pkill robsd-exec |
| robsd-rescue | robsd-rescue | none of its own | acquire, revert patches, release |
| robsd-wait | robsd-wait.c, `_jobs` in util.sh | process ids, kqueue notes | wait for any, wait for all |
| schedule | robsd-step.c (`-L`), conf.c, conf-*.c | the list of steps of a mode | list from an offset |
| configuration | conf*.c, lexer.c, interpolate.c, variable-value.c, robsd-config.c | variables and materialised defaults, the next routing domain | parse, append, expand, hand out routing domains |
| retention | robsd-clean, robsd-ls.c, invocation.c, `purge` | build directories, the attic | list, purge |
| report | report.c, robsd-report.c | none | read a build, print |
| regress log and html | regress-log.c, regress-html.c, html.c | the output directory of a page | extract targets, trim, parse builds, render |
| hook | robsd-hook.c | none | run the hook after a step |
| libks | libks/*.c | arenas, vectors, hash tables, buffers | allocate, grow, free, insert, find, remove, read |
| step scripts | robsd-*.sh | mounts, patches, obj directories | one step each |

How they meet: an invocation picks a build directory (`build_id`), takes the
lock, and loops over the schedule.  For each step it writes a row with exit -1,
starts robsd-exec, runs the hook and writes the row again; parallel steps do so
in background shells, so several robsd-step processes use one `step.csv` at a
time.  Between steps the loop asks `lock_alive` whether robsd-kill has made
`.running` immutable.  An exit trap writes the report, releases the lock and
removes a build without steps.  `robsd -r` resumes a build from what its last
row says; the `reboot` step relies on that.

What is hard: nothing makes two shell commands atomic, so the lock file, the
numbering of builds and robsd-kill interleave command by command; a crash
leaves files as they are; a signal may come anywhere in robsd-exec; a retry
bypasses the checks of the loop; resumption infers progress from one row;
process ids are given out again; a lookup in the configuration changes it; a
report is made while jobs still run.
`PROJECT.json` lists these hazards line by line with the properties that
cover them.

What makes each part correct:

- step table: a call takes effect at one instant; no row is lost or half
  written unless the writer dies or the disk is full; the lock is always freed;
- lock: at most one invocation works at a time, on a build of its own; it
  removes only its own lock, leaves none behind, and loses no build with steps;
- main loop: sequential steps run in order and alone, background jobs are
  bounded, nothing that succeeded is repeated, kills take effect, retries
  happen, an invocation ends;
- retention: a build is purged only when it is old enough and saved, never while
  it is in use, and no two builds have a name;
- step execution: the exit status is what happened; a step that is timed out or
  killed is signalled as a group and ended with SIGKILL if its leader will not
  go, and its leader is not left behind otherwise;
- robsd-wait: the queue knows every job that runs, a barrier waits for them all
  and comes to its end;
- configuration: a file that is accepted means what it says, wherever in it a
  statement stands; tests that run side by side get what is theirs; expansion
  ends; the schedule is one the main loop can run;
- report, log and page: no failure is left out, misplaced or unexplained, and
  the status is true;
- libks: what was put in is there, and nothing overlaps, overflows or is lost
  when memory grows.

## Modules

- `StepRows` -- the table as a value: what a write makes of a row (`step_init`,
  `step_set_keyval`, `step_serialize`), what `-i` and `-n` select.  Text is
  opaque; the order of rows is the order of ids, as `steps_write` sorts.
- `StepStore` -- the abstract specification: a table read and written
  atomically, a loss only when a writer is hurt.
- `StepFile` -- the processes: open, flock, parse, read or truncate and write,
  unlock, each a separate action, a kill possible between any two.
  `Store == INSTANCE StepStore WITH table <- AbsTable, torn <- bad` is the
  refinement mapping: while a writer has the file truncated the table is still
  the old one.
- `InvocationLock` -- `.running`, the build directories, any number of
  invocations, robsd-kill and robsd-rescue, one action per command.  A label
  stands for the next command to run: `named` (build_id is done), `inited`
  (build_init), `read` (the first half of lock_acquire), `acquired` (the comment,
  patches and skip rows before the loop, which may fail), `locked`, `stepping`,
  `stepped`, `touched` (the first half of lock_alive), `failed`/`ended`/
  `exiting` (the exit trap), `owner`, `unflagged` (inside lock_release),
  `released`.  A step that exits 125 goes from `stepping` back to `locked`, past
  lock_alive (`StepRetry`).  `lost` are the builds whose `step.csv` was being
  written when the machine went down; `HasSteps` fails for them.
- `LockRace` -- `InvocationLock` with a choice, made once, of an operator who
  starts invocations one at a time and one who does not (`apart`).
- `Robsd` -- one build: the main loop, its background jobs, hooks that ask for
  a retry, reboot, robsd-kill, crashes, `robsd -r`.  `row` is the exit column
  of `step.csv` ("begun" is -1, "retry" 125, "fail" any other code), `jobs` is
  `_jobs`, `cur` is `_step`, `job[s]` is how far `step_exec_job` is with s.
  Modes are choices of constants: canvas has `Parallel`, robsd-regress has
  `Parallel` and `Ignored` (the tests), the others neither.
- `StepExec` -- one robsd-exec, the process group of its step, the alarm and
  pkill.  `epc` follows `step_exec`, `step_fork` and `killwaitpg`, with both
  of its waits: for SIGTERM, then for SIGKILL, after which it gives up
  (`KillGivesUp`) and the step has failed, or timed out, with its leader maybe
  alive.
- `Retention` -- the build directories of one mode over days: build_id and the
  order of names, robsd-ls, robsd-clean and purge (`cpc`: how many to keep, the
  list, strip, copy, remove) by every invocation and by hand, the attic,
  crashes, `robsd -r`.  The lock is one step here; its races are in
  `InvocationLock`, where in turn builds are numbered without text.
- `JobQueue` -- robsd-wait and the shell's `_jobs`: process ids, some of which
  are given out again to jobs or to processes of others, the two calls of
  kevent, and a robsd-wait that fails.  `pid` is `_jobs` with the process id of
  each step in it, `queue` its domain.  `Robsd` takes robsd-wait to know its
  jobs; this module shows when it does.
- `ConfVars` -- the variables of a configuration: grammars, defaults that are
  kept once looked up, early and late interpolation.  A text is a sequence of
  literals and references, a name a tuple (`<<"env", "a">>` is regress-a-env).
- `Conf` -- the parser, one action per statement, and what is asked of a
  configuration that was accepted: robsd-config with its templates and -v,
  robsd-hook, and `config_get_steps`, the schedule of each mode.
- `RegressLog` -- logs by the lines that matter: markers, traces, outcomes;
  `regress_log_parse`, `_peek` and `_trim`, and robsd-regress-log.
- `RegressHtml` -- robsd-regress-html over the builds of some architectures.
- `Report` -- a build as far as the report sees it, and robsd-report, which
  reads the rows once and the logs later.
- `Growth`, `Arena`, `Vector`, `HashMap`, `Buffer` -- libks.  Addresses are
  offsets into numbered frames; words end at `MaxWord`.  `Growth` is the doubling
  that frames, vectors and buffers share, and gives up where the next doubling
  would wrap around.  A vector is sorted into any order in which equal elements
  may come; a line that was returned is recorded with the offset it was found at.
- `MCStepFile`, `MCInvocationLock`, `MCLockRace`, `MCRobsd`, `MCStepExec`,
  `MCRetention`, `MCConf`, `MCReport`, `MCAlone` -- instances for TLC.
  `MCAlone`, `MCReport` and `MCStepExec` hold modules that do not interact: a
  variable `which`, chosen by the initial state, says which of them moves, so
  that their states add up and do not multiply.
- `StepFileProofs`, `InvocationLockProofs`, `RobsdProofs`, `StepExecProofs`
  (of `StepExec` and `JobQueue`), `RetentionProofs`, `LibksProofs`,
  `ReportProofs` (of `RegressLog`, `RegressHtml` and `Report`) -- theorems and
  their proofs; `NatFacts` -- that a set of natural numbers has a least element,
  a bounded one a greatest, and that steps one after the other make a run.

A definition whose comment begins with "Variant:" is the code with a plausible
bug in it.  None is part of a specification; each shows that a property notices
when it takes the place of the definition below it.

## Runs

| run | instance | shows |
|-----|----------|-------|
| `step_file` | 3 processes, ids 1 and 2, first and second writes of a step, reads by position and name | the lock covers parse to write, refinement of `StepStore`, the lock is freed |
| `lock_careful` | 3 invocations, interchangeable, 3 builds, kills, rescues, retries, crashes that may lose a table; one start at a time | mutex, distinct builds, no build with steps in its table is removed, own lock removed |
| `lock_race` | 3 invocations that start at any time, 2 builds, or one at a time, 3 builds; no crashes, no robsd-kill | of two that got through lock_acquire one stops, unless it is told to retry for ever; started one at a time, they leave no lock and no empty build, and report in their own directory |
| `robsd_mixed` | 7 steps: 4 parallel, 1 of them and 1 sequential one tests, ncpu 2, two retries, one resumption, kills | barrier, order, complete table at the end, kills stop the loop, retries of strict steps |
| `robsd_serial` | 5 steps, one skipped, reboot, crashes, kills, two retries, two resumptions | nothing repeated, termination |
| `exec_group` | 3 processes, any of which may ignore SIGTERM, a timeout, robsd-kill; and a queue of 2 for 4 jobs with 3 process ids, 2 processes of others, 1 failure | exit status, leader left behind only after SIGKILL, caught processes end or ignore SIGTERM and outlive the leader, robsd-exec ends; jobs known to the queue, barrier held, barrier ends |
| `retention` | 2 invocations that start again and again, robsd-clean by hand, 2 days of 2 builds, keep 1, crashes, with and without attic | no live build is purged, enough are kept, saved before removed, new names are new |
| `alone` | of libks: 3 blocks in 3 frames, 2 scopes; a vector of 5; words up to 24; 5 keys under three hashes; a file of 6 bytes that grows. Of a build: logs of 4 lines in 3 files; 2 builds and 1 on two architectures with 2 tests, runs missing or unreadable; builds of 3 or 4 steps in four modes, one step skipped, one resumption | blocks apart and given back, elements kept, keys found and chains short, files read whole and line by line; targets extracted, failures in copied logs, columns and rates, status, failures shown |
| `config` | every file of up to 4 statements of a mode, of 9 to 12 good and bad ones each | accepted as written, environments and domains of tests, no stale pointer, schedule, expansion |

Runs that TLC finds violated; each is a disagreement of the code with its
documentation, quoted in `PROJECT.json` under "findings":

| run | property | what happens |
|-----|----------|--------------|
| `rescue_killed` | `RescueRecovers` | the aborted build's lock is immutable, since robsd-kill has marked it |
| `resume_torn` | `LogsKept` | the machine goes down while `step.csv` is written; `robsd -r` finds no row, exits, and its exit trap removes the build with its logs as an empty one |
| `end_reported` | `EndReported` | robsd-ports without cvs-root has no logs of cvs, and so no report |

Known differences of the code from its documentation that the properties are
stated around; none is part of a passing property:

- the retry a hook asks for with 125 is not granted to a parallel step
  (`StrictRetried` is about strict ones; robsd-hook(5));
- `robsd-step -R -i n` selects the n-th row, not the row with id n
  (`SelectedId`; robsd-step(8));
- the eleventh build of a day is given the directory of the tenth, since names
  are compared as text (`FreshBuild` has days of two builds);
- a process of the step that ignores SIGTERM outlives a timeout or robsd-kill if
  the leader does not: `killwaitpg1` is content with the leader, and SIGKILL is
  not sent (`GroupCut` excepts it, and speaks of the processes that are there
  when the signal is caught, not of those started later);
- when the counter of routing domains reaches its limit the lowest one is
  handed out twice in a row (`TestEnvs` stays below the limit);
- builds of robsd-regress whose first steps started in the same second share no
  order: if one of them lacks a run, another run may be put in its column
  (`ColumnsOwn`; `PageTrue` excepts equal times);
- robsd-regress-html fails as a whole on a build without end step or with a
  skipped test, and again on the directories the failed call has left;
- the second env option of a test replaces nothing and is not seen.

The switches of the instances keep some behaviours out of the passing runs;
with `Overlap` TRUE two invocations that start together both pass
`lock_acquire` and may even share a directory, and then lock_alive, which
compares directories, stops neither (`RaceResolves` is about two builds); with `Careful` FALSE a build
resumed while another one owns the lock reports into the owner's directory.
A step that keeps asking for a retry is started each time it does, past
lock_alive: after robsd-kill, which is why `KillBound` counts the retries, and in
an invocation whose lock was overwritten, which is why `RaceResolves` excepts one
that retries for ever (`OutOfReach`).  An alarm that goes off
between alarm(3) and waitpid(2) is lost.  A SIGTERM of robsd-kill before the
handler is installed ends robsd-exec and leaves the step it forked running.
With robsd-kill `NoStrayLock`, a part of `QuietExit`, fails: marked between the `chflags nouchg` and
the `rm -f` of the exit trap, the lock stays.  With `Beside` TRUE robsd-clean by
hand runs beside invocations that start and end, and neither `LiveKept`,
`KeepsLatest` nor `SavedFirst` holds.

Bounds.  Three processes or invocations are one more than any of the races
needs, so a third may interfere with two that race.  The invocations of
`lock_careful` are interchangeable and its properties are invariants and one
about single steps, so TLC explores it up to symmetry.  `MaxDir` bounds the builds
ever made; three suffice for one older than the lock's owner and one newer.
`MaxRetry` and `MaxResume` bound what hooks and operators may do without limit;
two of each let a retry follow a retry and a resumption a resumption.  The build
of `robsd_mixed` has a full queue, a barrier in mid-build and one before end.
Two further processes in a step let one be started by the other.  With
keep 1 and two builds a day, builds of both days are purged beside a live one.
With three process ids for four jobs and two strangers an id is given out again
while it is still in `_jobs`, to either.  Frames of 12 and blocks of up to 7 make
a second and a third frame and one larger than the usual, a block of 19 is one
for which no frame can be made within `MaxWord`; a vector of 5 elements
cannot double within it; one initial bucket and a threshold of two are
split three times, and one of the hashes makes expansion ineffective.  Four statements
suffice for a default that is materialised, set and appended to, and for two
tests beside their environment.  The shortest timeout that overflows is in the
statements, as `MaxInt` is 15.  Logs of four lines hold a target between two
others; `NLines` is 2 so that a log can be longer.

`Retention` assumes of `robsd -r` that nothing else goes on, that of two
invocations only one is between build_id and lock_acquire, that an invocation
which was refused the lock exits before the one that holds it, and that no build
is started on a day of which a copy lies below the attic's own directory of that
name (after a crash in the middle of a copy and a second purge), since build_id
then computes a number from its path.

`CHECK_DEADLOCK FALSE` stands where the system really may stop: a build that
has ended and is not resumed any more, a robsd-exec that has exited.

## Fairness

- `StepFile`: a process that holds the lock runs on (scheduling).  Waiting for
  the lock is not assumed to end; new calls need not come.
- `InvocationLock`: an invocation runs on and its steps end.  Neither operators
  nor robsd-kill owe anything, and no hook need stop asking for retries.
- `Robsd`: the loop runs, every step and hook comes to an end.  That a step
  ends is the assumption its timeout or robsd-kill is there to make true; it is
  needed for `Terminates` and `StrictRetried` only.
- `JobQueue`: the shell and robsd-wait are scheduled, and every process, those
  of others included, exits: for `QueueEnds`, which cannot hold if a process of
  others that got the id of a job never does.  kevent need not fail.
- `StepExec`: robsd-exec, the child up to execvp and robsd-kill's loop are
  scheduled, signals are delivered, the alarm goes off.  SIGKILL takes effect in
  the end, but robsd-exec may have given up before.  The step itself may run for
  ever.

## Theorems

Each holds for every value of the constants that satisfies the assumptions in
the module that declares them.

`StepFileProofs`: `TypeCorrect`, `SnapshotCorrect` and `FileImplementsStore`.
The inductive invariant is `TypeOK /\ SnapshotCurrent`; the second says that
whoever is past the flock is its holder and has parsed what is in the file.
Without it a write could put back a stale table, and the step simulation fails
at `Flush`.  The refinement is one lemma per action: locks, parses and releases
stutter, a truncation leaves the abstract table as it is, and `Flush` is the
instant of the write.  Only the safety part is at stake: `StoreSpec` has none
but initial states and steps.

`InvocationLockProofs`: `TypeCorrect` for any operator; `MutualExclusion`,
`DistinctBuilds`, `BuildsSurvive` (of builds whose table is intact) and
`ReleaseIsOwn` for `Orderly` ones, who
start one invocation at a time and leave live builds alone.  The races above
show that the assumption cannot be dropped.  `Mutex` is not inductive: it
follows from `OwnerNamed` (whoever is past lock_acquire is named by `.running`)
and `OneBuildEach`; they in turn need `ReadCurrent` (nobody became owner since
a starting invocation looked), `OneStarter`, `DirMade` and `RescueAlone`.

`RobsdProofs`: `TypeCorrect`, `StepsInOrder`, `BarrierHolds`, `QueueBounded`,
`NothingRepeated`, `KillObeyed` and `TableComplete`, provided the end step is not skipped (`EndsKept`).  With
`-s end` the loop returns without its barrier.  The invariant says that what
runs is in the queue or is the step the loop has called (`Tracked`), that
ahead of `_step` the strict steps have succeeded (`Ahead`) and that beyond it
nothing was begun (`Beyond`).  `NextStepPosition` is the heart of it: from
`InOrder` alone, where step_next points to has both properties again, which is
why crashes and kills do no harm.  Two more invariants rest on it: `Paid`, which
counts what may still be started after robsd-kill against the retries asked
for, and `Complete`, which says of a build that was not resumed that every row
left at -1 has a job to complete it.

`StepExecProofs`: `TypeCorrect`, `TimeoutTrue` and `LeaderReaped` (the leader is
dead when robsd-exec returns, or was sent SIGKILL), for any processes, stubborn or not, with robsd-kill and a timeout or without, from an
invariant that ties `gotsig` to the alarm (`OnlyAlarm`) and the group to the
progress of `step_fork` (`Grouped`).  Both properties except what robsd-kill
does to a robsd-exec inside `step_fork`: killed there it leaves a child.

`InvocationLockProofs` also has `ExitsQuietly`, of `LockRace`: without crashes
and robsd-kill (`Undisturbed`) invocations started one at a time leave no lock
and no empty build and report in their own directory.  Neither part is
inductive.  `Quiet` adds that a lock has an invocation that will remove it
(`LockHeld`), that an empty build belongs to one that will (`EmptyOwned`), that
nobody else lives while a build is resumed (`ResumedAlone`) and that who writes
the report is named by the lock (`ReporterNamed`).  Both exceptions are needed:
a crash leaves the lock, and robsd-kill may mark it in the middle of the trap.

`RetentionProofs`: `LiveBuildsSpared`, `LatestKept`, `NothingLost` and
`NewBuildsFresh`, when robsd-clean by hand is not run beside starting
invocations and no day has more than nine builds (`Orderly`).  Names are
compared as text; `LaterIsGreater` shows that this is the order of the numbers
as long as they have one digit, `LatestIsLatest` that what robsd-ls lists first
is the latest, and `BuildIdIsFresh` that build_id then finds a new name.  The
invariant says who may run a robsd-clean (`CleanerKnown`: the owner of the lock,
or the operator when nobody is there), that the owner's build is on no list
(`Spared`) and shared with nobody (`OwnerApart`), that nobody shares one while the
lock is free (`AllApart`), that what purge counted stays true until it lists the
builds (`CountTrue`) and that a copy which is done is complete (`CopySaved`).

`StepExecProofs` also has `BarrierHolds`, of `JobQueue`.  `BarrierHeld` speaks of `_jobs`, which while
robsd-wait runs is longer than what it still watches, and is replaced by that at
its exit: `Known` says of which of the two the jobs must be elements, and
`Reported` that an exit that waits to be reported is not that of a running job,
even though its id may have been given out again.  It holds since only the
shell starts jobs, and the shell waits.

`LibksProofs`, for words of any width:

- `ArenaBlocksApart` and `ArenaReclaimed`, for frames, headers, alignment and
  poison of any size, as long as only the innermost scope is used and no block is
  empty (`Nested`).  A client that grows a block of an outer scope gets memory
  that goes with the inner one (`Outer`): arena_realloc does not refuse it;
  an empty block without poison has no byte of its own and may lie within
  another.
  The invariant has the marks of scopes in order (`ScopesOK`), each block before
  the marks of the scopes within its own (`BlocksOK`) and two blocks of a frame
  apart by their poison (`PairsOK`); what arena_scope_leave cuts off is then
  just the blocks of that scope.  arena_realloc_fast is where it is used.
- `VectorKeepsElements`, from `ElementsKept` itself, which is inductive, and
  `CapacityFits`: a capacity that was not refused fits in a word as bytes.
- `BufferIsSound`.  `ReadEnough` needs `ReadsOn`: a buffer too small for what
  the file held when it was opened is grown after each read and so never full,
  since an eighth of the first capacity is at least a byte (`PartAssumption`),
  and one that is not grown has just the size of the second estimate.
- `MapFindsAll`, for any hash function, threshold and first number of buckets.
  The invariant `Holds` says what table belongs to a set of keys; linking,
  unlinking and splitting preserve it.  `HalfBucket` is the arithmetic of the
  split, `TakenFacts` that a chain is taken apart without loss, by counting.
  `MultFacts` is about the length of chains (`ChainsBounded`): expand_mult, as
  it is counted element by element, is never so small that a chain is longer than
  that many times the ideal length and once more, and never larger than that
  needs.  The threshold alone is not a bound: a table that is full when it is
  expanded may leave a chain that is ideal and has the threshold already, and is
  then expanded again by the next element that comes to it.

`ReportProofs`, for logs, lists of logs and builds of any length:

- `TargetsExtracted`.  `regress_log_parse` and `regress_log_trim` are loops with
  three variables; what they compute is stated by position in the log (`Starts`,
  `Ends`, `Target`, `Trimmed`).  `ScanFinds` and `TrimIs` carry that statement
  from line to line: the scratch buffer is the target that the next outcome would
  end, what was found is the targets of the lines so far.  `LogInv` carries it on
  over the files of a command line, where the separator is put before it is known
  whether it is needed.
- `FailuresCopiedToPage`: from `ExtractShows`, that the targets copied contain
  each line with an outcome, in order and each for itself, and `TrimShows`.
- `PageIsTrue`, from `HtmlInv`.  `RowsAre` is the loop over the rows of a build in
  closed form: a suite has at most one new run, and the counts are those of the
  names seen (`KnownIn`, `FailedIn`).  `HtmlInv` then speaks of sets of runs and
  invocations, which sorting leaves alone (`SortedIs`), and of the builds behind
  the walk: these and the invocations, and their rows and the runs, determine each
  other; a directory is made once, so that no two invocations share one, no log is
  copied over another and what was counted stays counted.  `ColumnsAreOwn`: with
  times apart both sides are strictly descending, so that the columns of the
  builds of a suite's runs increase, and the loop of `render_suite` stops at each.
  `HistoryAssumption` is that a step has one row in a table, as the tables the
  loop of robsd writes have unless a test is configured twice.
- `StatusIsTrue` and `FailuresReported`, from `ReportInv`: `BuildInv` says what
  the rows of a build can be while it runs, is aborted and resumed (in a mode
  without parallel steps only the last row can be a failure, `OnlyLastFailed`,
  which is what `report_status` relies on), `SnapInv` that a row that was read
  stays true of the build, `VerdictInv` and `SectionsInv` that the status and the
  sections are functions of the rows read.  `EndedIsShown` is the case analysis of
  `report_skip_step`, `FailureExplained` that of the routines that print logs.
  `ReportAssumption` is what a schedule is: only robsd-regress and canvas have
  parallel steps, since nothing else sets `flags.parallel`
  (conf-robsd-regress.c, conf-canvas.c).

Left to TLC: all liveness (`LockFreed`, `RaceResolves`, `Terminates`,
`StrictRetried`, `GroupCut`, `KillEnds`, `QueueEnds`), which the prover does
not do; and the properties of `Conf`: a lookup may interpolate and an interpolation
looks up, each in a configuration the other one has changed, and such recursion
is not within the prover's reach.

What the proofs have changed.  `Explained` in `Report` did not hold in a quiet
test whose log has an unexpected pass and no failed target, which the logs of the
instance did not contain; it says now what `regress_report_step_log` does, and
the instance has such a log.  `ChainsBounded` in `HashMap` held for the first
number of buckets of the instance only; the instance now begins with one bucket,
where a table as described above is reached with five keys.  `PageTrue` in
`RegressHtml` looked for the row of each run; it asks now for the run of each row
as well, and that no two columns are of one build.

## Not modelled, and the plan

Not modelled: the layout of reports and of html, durations, sizes and tags in
them; robsd-stat; the tools that the step scripts run; the lexer, the text of
`step.csv` and the compatibility functions.  Modelled only by its effect: the
parser of `step.csv` (a file parses or it does not), the hook's exit in `Robsd`
(it may be 125), the logs that cvs and dpb leave in `Report`.  step_write is
taken to succeed in `Robsd`, which also resumes a build with its rows intact; in
`InvocationLock` a table is lost in a crash only, not on a full disk.  robsd-cross differs from robsd in the scripts it runs, the subject
of its report and a target file, and has no module of its own.

Next, in this order:

1. Theorems: that `Robsd` with `JobQueue` in place of its own queue implements
   `Robsd`; `NoStalePointer`, with a bound on the depth of lookups.
2. `StepCsv`: serialization and parsing of the table, with empty fields,
   separators in values and defaults; what survives a round trip.
3. `Invocation`: the lock, the loop and the lossy table together: what is done
   after a full disk has lost the rows of a build that goes on.
4. `Patch` and `Mount`: the patch, revert and mount scripts over failed and
   repeated runs.
