------------------------------- MODULE Report -------------------------------
(***************************************************************************)
(* robsd-report (report.c), as the exit trap of a build runs it: what the  *)
(* report says of the rows of step.csv, and when there is none.  The steps *)
(* are run as Robsd has it, as far as their rows and logs go: a row is     *)
(* written before tee makes the log, parallel steps may still run beside   *)
(* the report, and an aborted build may be resumed.                        *)
(***************************************************************************)
EXTENDS RegressLog, FiniteSets

CONSTANTS
  Modes,     \* a subset of {"robsd", "robsd-ports", "robsd-regress", "canvas"}
  Schedule,  \* the names of the steps, for each mode
  Tests,     \* those run in parallel, whose failures do not stop the build
  Quiet,     \* regress tests with the quiet option
  StepLogs,  \* what a step may write to its log
  NLines,    \* lines shown of a log: 10 in report_step_log
  MaxResume  \* bound on resumed invocations

LogLine == [mark : BOOLEAN, trace : BOOLEAN, says : SUBSET (Outcomes \cup {"\n", "cvs", "diff"})]

\* Steps are run in parallel by robsd-regress and canvas only: no other mode sets
\* flags.parallel of a step.
ASSUME ReportAssumption ==
  /\ Schedule \in [Modes -> Seq(STRING)]
  /\ \A m \in Modes \ {"robsd-regress", "canvas"} : \A i \in DOMAIN Schedule[m] : Schedule[m][i] \notin Tests
  /\ StepLogs \subseteq Seq(LogLine) /\ NoFile \notin StepLogs
  /\ NLines \in Nat \ {0}

VARIABLES
  mode,
  table,    \* step.csv: a row for each id in its domain
  slog,     \* the log of each row
  cvsroot,  \* whether cvs-root is configured
  cvslogs,  \* cvs-*-up.log and cvs-*-ci.log: "none", "empty" or "text"
  pkgdiff,  \* whether packages.diff is there
  next,     \* the id the main loop is at
  jobs,     \* steps that run
  resumed,
  rpc,      \* "build", "trap", "report", then "done", "failed" or "silent"
  snap,     \* step.csv as the report read it
  ri,       \* i of report_steps
  out,      \* the sections of the report
  verdict   \* report_status

buildVars == <<mode, table, slog, cvsroot, cvslogs, pkgdiff, next, jobs, resumed>>
outVars == <<snap, ri, out, verdict>>
reportVars == <<buildVars, rpc, outVars>>

Entry(text) == <<[mark |-> FALSE, trace |-> FALSE, says |-> {text}]>>

Ids == DOMAIN Schedule[mode]
Name(i) == Schedule[mode][i]
Ran(t) == {i \in DOMAIN t : ~t[i].skip}

\* f with v for i, which may be new to it.
With(f, i, v) == [j \in DOMAIN f \cup {i} |-> IF j = i THEN v ELSE f[j]]
-----------------------------------------------------------------------------
(***************************************************************************)
(* The build.                                                              *)
(***************************************************************************)
\* Steps of the skip option have their rows before the first step is run.
ReportInit ==
  /\ mode \in Modes
  /\ \E S \in SUBSET {i \in Ids : Name(i) # "end"} :
       /\ Cardinality(S) <= 1
       /\ table = [i \in S |-> [exit |-> 0, skip |-> TRUE, log |-> FALSE]]
  /\ slog = <<>> /\ cvsroot \in BOOLEAN /\ cvslogs = "none" /\ pkgdiff = FALSE
  /\ next = 1 /\ jobs = {} /\ resumed = 0 /\ rpc = "build"
  /\ snap = <<>> /\ ri = 0 /\ out = <<>> /\ verdict = <<"ok">>

SkipStep ==
  /\ rpc = "build"
  /\ next \in DOMAIN table /\ table[next].skip
  /\ next' = next + 1
  /\ UNCHANGED <<mode, table, slog, cvsroot, cvslogs, pkgdiff, jobs, resumed, rpc, outVars>>

\* A parallel step is run beside others, any other after the barrier.
Ready == \A j \in jobs : Name(next) \in Tests /\ Name(j) \in Tests

\* step_exec_job up to step_exec, and the first write of the end step.
BeginStep ==
  /\ rpc = "build"
  /\ next \in Ids /\ Ready
  /\ ~(next \in DOMAIN table /\ table[next].skip)
  /\ table' = With(table, next, [exit |-> -1, skip |-> FALSE, log |-> Name(next) # "end"])
  /\ slog' = With(slog, next, NoFile)
  /\ jobs' = jobs \cup {next}
  /\ next' = next + 1
  /\ UNCHANGED <<mode, cvsroot, cvslogs, pkgdiff, resumed, rpc, outVars>>

\* tee opens the log.
MakeLog(i) ==
  /\ i \in jobs /\ table[i].log /\ slog[i] = NoFile
  /\ slog' = [slog EXCEPT ![i] = <<>>]
  /\ UNCHANGED <<mode, table, cvsroot, cvslogs, pkgdiff, next, jobs, resumed, rpc, outVars>>

\* The step ends and step_exec_job records its exit; robsd-cvs.sh leaves logs if
\* cvs-root is set, robsd-ports-dpb.sh a diff unless it failed.  (While a report
\* is made the row waits for the lock of step.csv; the report has read it.)
FinishStep(i, exit, log) ==
  /\ i \in jobs /\ table[i].log /\ slog[i] # NoFile
  /\ slog' = [slog EXCEPT ![i] = log]
  /\ table' = [table EXCEPT ![i].exit = exit]
  /\ jobs' = jobs \ {i}
  /\ IF Name(i) = "cvs"
     THEN cvslogs' \in (IF exit # 0 THEN {"none", "text"} ELSE IF cvsroot THEN {"empty", "text"} ELSE {"none"})
     ELSE UNCHANGED cvslogs
  /\ pkgdiff' = (pkgdiff \/ (Name(i) = "dpb" /\ exit = 0))
  /\ rpc' = IF rpc = "build" /\ exit # 0 /\ Name(i) \notin Tests THEN "trap" ELSE rpc
  /\ UNCHANGED <<mode, cvsroot, next, resumed, outVars>>

\* The end step has no log: its row gets the total duration and exit 0.
FinishEnd ==
  /\ rpc = "build"
  /\ \E i \in jobs : /\ Name(i) = "end"
                     /\ table' = [table EXCEPT ![i].exit = 0]
                     /\ jobs' = jobs \ {i}
  /\ rpc' = "trap"
  /\ UNCHANGED <<mode, slog, cvsroot, cvslogs, pkgdiff, next, resumed, outVars>>

\* The shell is ended by a signal: its trap runs, the jobs stay.
Abort ==
  /\ rpc = "build"
  /\ rpc' = "trap"
  /\ UNCHANGED <<buildVars, outVars>>

\* robsd -r: step_next looks at the last row that is not a skipped one.
ResumeBuild ==
  /\ rpc \in {"done", "failed"}
  /\ resumed < MaxResume
  /\ Ran(table) # {}
  /\ LET last == Max(Ran(table))
     IN  next' = IF table[last].exit # 0 \/ Name(last) = "end" THEN last ELSE last + 1
  /\ jobs' = {}
  /\ resumed' = resumed + 1
  /\ rpc' = "build"
  /\ UNCHANGED <<mode, table, slog, cvsroot, cvslogs, pkgdiff, outVars>>
-----------------------------------------------------------------------------
(***************************************************************************)
(* The report.                                                             *)
(***************************************************************************)
\* number_of_failures_report_status.
NumberOfFailures(t) ==
  LET n == Cardinality({i \in DOMAIN t : t[i].exit # 0})
  IN  IF n > 0 THEN <<"failures", n>> ELSE <<"ok">>

\* Variant: the last row is looked at, skipped or not.
ReportStatusLast(t) ==
  IF mode \in {"robsd-regress", "canvas"} THEN NumberOfFailures(t)
  ELSE IF t[Max(DOMAIN t)].exit = 0 THEN <<"ok">> ELSE <<"failed in", Max(DOMAIN t)>>

\* report_status: robsd-regress and canvas go on past failed tests; the others
\* halt at a failure, so only the last row that is not a skipped one counts.
ReportStatus(t) ==
  IF mode \in {"robsd-regress", "canvas"} THEN NumberOfFailures(t)
  ELSE IF Ran(t) = {} \/ t[Max(Ran(t))].exit = 0 THEN <<"ok">> ELSE <<"failed in", Max(Ran(t))>>

\* trap_exit: has_steps, and a failure or the end step.  report_generate up to
\* report_steps: steps_parse, subject, stats and comment.
Preamble ==
  /\ rpc = "trap"
  /\ rpc' = IF DOMAIN table = {} THEN "silent" ELSE "report"
  /\ snap' = table
  /\ ri' = 1
  /\ out' = <<>>
  /\ verdict' = IF DOMAIN table = {} THEN <<"ok">> ELSE ReportStatus(table)
  /\ UNCHANGED buildVars

\* is_log_empty: nothing but traces, or no log.
IsLogEmpty(log) == log = NoFile \/ \A k \in DOMAIN log : log[k].trace

\* The file that step_get_log_path names.
LogOf(i) == IF i \in DOMAIN slog THEN slog[i] ELSE NoFile

\* is_regress_quiet.
IsQuiet(i) == Name(i) \in Quiet

\* ports_report_skip_step.
PortsSkip(i) == IF Name(i) \in {"cvs", "dpb"} THEN 0 ELSE 1

\* regress_report_skip_step.
RegressSkip(i) ==
  IF Name(i) = "end" \/ IsQuiet(i) THEN 1
  ELSE IF ~snap[i].log THEN -1
  ELSE IF RegressLogPeek(LogOf(i), {"SKIPPED", "XFAILED"}) > 0 THEN 0 ELSE 1

\* report_skip_step, for a step that exited 0: 1 skips it, -1 is an error.
ReportSkipStep(i) ==
  CASE mode = "robsd-ports" -> PortsSkip(i)
    [] mode = "robsd-regress" -> RegressSkip(i)
    [] OTHER -> IF Name(i) = "cvs" \/ (Name(i) = "checkflist" /\ ~IsLogEmpty(LogOf(i))) THEN 0 ELSE 1

Shown(text) == [error |-> FALSE, text |-> text]
Error == [error |-> TRUE, text |-> <<>>]

\* report_cvs_log: the files of this mode, of which empty ones are left out.
ReportCvsLog ==
  IF mode \notin {"robsd", "robsd-ports"} THEN Shown(<<>>)
  ELSE CASE cvslogs = "none" -> Error
         [] cvslogs = "empty" -> Shown(<<>>)
         [] OTHER -> Shown(Entry("cvs"))

\* last_lines.
LastLines(log) == SubSeq(log, IF Len(log) > NLines THEN Len(log) - NLines + 1 ELSE 1, Len(log))

\* report_step_log, if the mode does not handle the step itself; an error of
\* report_cvs_log is not negative and so passes for success.
CommonStepLog(i) ==
  IF Name(i) = "cvs" THEN Shown(ReportCvsLog.text)
  ELSE IF ~snap[i].log THEN Shown(<<>>)
  ELSE IF LogOf(i) = NoFile THEN Error
  ELSE Shown(LastLines(LogOf(i)))

\* ports_report_step_log.
PortsReportStepLog(i) ==
  IF Name(i) = "cvs" THEN ReportCvsLog
  ELSE IF Name(i) = "dpb" /\ snap[i].exit = 0 THEN IF pkgdiff THEN Shown(Entry("diff")) ELSE Error
  ELSE CommonStepLog(i)

\* regress_report_step_log.
RegressReportStepLog(i) ==
  LET want == {"FAILED", "XPASSED"} \cup (IF IsQuiet(i) THEN {} ELSE {"SKIPPED", "XFAILED"})
  IN  IF ~snap[i].log \/ RegressLogParse(LogOf(i), want) < 0 THEN Error
      ELSE IF RegressLogParse(LogOf(i), want) > 0 THEN Shown(Extract(LogOf(i), want, FALSE))
      ELSE CommonStepLog(i)

\* canvas_report_step_log.
CanvasReportStepLog(i) ==
  IF ~snap[i].log THEN CommonStepLog(i)
  ELSE IF RegressLogParse(LogOf(i), {"FAILED"}) > 0 THEN Shown(Extract(LogOf(i), {"FAILED"}, FALSE))
  ELSE IF LogOf(i) = NoFile THEN Error
  ELSE Shown(LogOf(i))

ReportStepLog(i) ==
  CASE mode = "robsd-ports" -> PortsReportStepLog(i)
    [] mode = "robsd-regress" -> RegressReportStepLog(i)
    [] mode = "canvas" -> CanvasReportStepLog(i)
    [] OTHER -> CommonStepLog(i)

\* Variant: what report_skip_step says goes for failed steps, too.
LeftOutAny(i) == snap[i].skip \/ ReportSkipStep(i) = 1

\* report_steps: what it says nothing of.
LeftOut(i) == snap[i].skip \/ (snap[i].exit = 0 /\ ReportSkipStep(i) = 1)

\* An iteration of report_steps.  The logs are read now, the rows were before.
ReportStep ==
  /\ rpc = "report"
  /\ ri \in Ids
  /\ IF ri \notin DOMAIN snap \/ LeftOut(ri)
     THEN UNCHANGED <<rpc, out>>
     ELSE IF (snap[ri].exit = 0 /\ ReportSkipStep(ri) = -1) \/ ReportStepLog(ri).error
     THEN rpc' = "failed" /\ UNCHANGED out
     ELSE /\ out' = Append(out, [step |-> ri, exit |-> snap[ri].exit, text |-> ReportStepLog(ri).text])
          /\ UNCHANGED rpc
  /\ ri' = ri + 1
  /\ UNCHANGED <<buildVars, snap, verdict>>

\* report_sanitize, and robsd-report prints the buffer.
Sanitize ==
  /\ rpc = "report"
  /\ ri = Len(Schedule[mode]) + 1
  /\ rpc' = "done"
  /\ UNCHANGED <<buildVars, outVars>>

ReportNext ==
  \/ SkipStep \/ BeginStep \/ FinishEnd \/ Abort \/ ResumeBuild
  \/ \E i \in Ids : MakeLog(i)
  \/ \E i \in Ids, exit \in {0, 1}, log \in StepLogs : FinishStep(i, exit, log)
  \/ Preamble \/ ReportStep \/ Sanitize

ReportSpec == ReportInit /\ [][ReportNext]_reportVars
-----------------------------------------------------------------------------
ReportTypeOK ==
  /\ mode \in Modes
  /\ DOMAIN table \subseteq Ids /\ DOMAIN snap \subseteq Ids
  /\ jobs \subseteq Ran(table)
  /\ next \in 1 .. Len(Schedule[mode]) + 1
  /\ cvslogs \in {"none", "empty", "text"}
  /\ rpc \in {"build", "trap", "report", "done", "failed", "silent"}

\* "All other robsd utilities halts if a step failed, only bother checking the
\* last non-skipped step" (report_status): the report of a build in any mode,
\* resumed, aborted or not, says ok exactly if no step of it failed or was cut
\* short.
StatusTrue ==
  /\ ReportTypeOK
  /\ rpc = "done" => (verdict = <<"ok">> <=> \A i \in Ran(snap) : snap[i].exit = 0)

\* What a failed step left in its log is in its section: the failed targets if
\* there are any, quiet or not, and the end of the log otherwise.  (In a regress
\* test, targets with an unexpected pass are shown instead of the end, and if it
\* is not quiet those with any outcome.)
Explained(s) ==
  LET log == LogOf(s.step)
      bad == Ends(log, {"FAILED"})
      odd == Ends(log, IF IsQuiet(s.step) THEN {"XPASSED"} ELSE Outcomes)
  IN  IF mode \in {"robsd-regress", "canvas"} /\ bad # {}
      THEN Shows(s.text, log, bad)
      ELSE \/ Name(s.step) = "cvs"
           \/ IsSuffix(s.text, log) /\ (log # <<>> => s.text # <<>>)
           \/ mode = "robsd-regress" /\ odd # {} /\ Shows(s.text, log, odd)

\* report_steps leaves out no step that failed or was cut short, whatever
\* report_skip_step says of it; the sections are in the order of the steps, and
\* show why a step failed.  There is no report only if a step was cut short or,
\* for robsd-ports, the logs of cvs are missing.
FailuresShown ==
  /\ rpc = "done" =>
       /\ \A i \in Ran(snap) : snap[i].exit # 0 => \E k \in DOMAIN out : out[k].step = i /\ out[k].exit = snap[i].exit
       /\ \A k, l \in DOMAIN out : k < l => out[k].step < out[l].step
       /\ \A k \in DOMAIN out : out[k].exit = 1 => Explained(out[k])
  /\ rpc = "failed" =>
       \/ \E i \in Ran(snap) : snap[i].exit = -1
       \/ mode = "robsd-ports" /\ cvslogs = "none"

\* "Generate the report if a step failed or the end step is reached" (trap_exit):
\* a build that came to its end has a report.
EndReported ==
  rpc = "failed" => ~\E i \in DOMAIN snap : Name(i) = "end" /\ snap[i].exit = 0
=============================================================================
