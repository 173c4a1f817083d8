------------------------------ MODULE MCReport ------------------------------
(***************************************************************************)
(* What becomes of logs and tables after a build: RegressLog, RegressHtml  *)
(* and Report.  The initial state chooses the program that runs, so that   *)
(* the states of the run are those of each of them.                        *)
(***************************************************************************)
EXTENDS RegressHtml, Report

VARIABLE which \* "log", "html" or "report"

afterVars == <<logVars, htmlVars, reportVars, which>>

AsLine(mark, trace, says) == [mark |-> mark, trace |-> trace, says |-> says]
Plain   == AsLine(FALSE, FALSE, {})
Marker  == AsLine(TRUE, FALSE, {})
Trace   == AsLine(FALSE, TRUE, {})
Failed  == AsLine(FALSE, FALSE, {"FAILED"})
Skipped == AsLine(FALSE, FALSE, {"SKIPPED"})
XFailed == AsLine(TRUE, FALSE, {"XFAILED"})
XPassed == AsLine(FALSE, FALSE, {"XPASSED"})
Echoed  == AsLine(FALSE, TRUE, {"FAILED"})

LogLinesUsed == {Plain, Marker, Trace, Failed, Skipped, XFailed, Echoed}
FlagsUsed == {{"FAILED", "XPASSED"}, {"SKIPPED", "XFAILED"}}

KindUsed ==
  [n \in Names |-> CASE n = "end" -> "unknown" [] n = "pkg-add" -> "informative" [] OTHER -> "regress"]

\* Two builds on one architecture and one on another, of two tests that either
\* may be left out of; the second build may lack its end step.
Run(name, exit, log) == <<[name |-> name, exit |-> exit, log |-> log]>>
Runs1 == {<<>>, Run("t1", 0, <<Trace, Plain>>), Run("t1", 1, <<Marker, Failed, Plain>>),
          Run("t1", 124, <<Plain, Skipped>>), Run("t1", 0, <<XFailed, Skipped>>), Run("t1", 0, NoFile)}
Runs2 == {<<>>, Run("t2", 0, <<Skipped>>), Run("t2", 1, <<XPassed>>)}
Done == Run("end", 0, NoFile)
Pkg == Run("pkg-add", 0, <<Plain>>)

Build(d, t, s, rows) == [date |-> d, time |-> t, seconds |-> s, rows |-> rows]

HistoriesUsed ==
  {<<[arch |-> "amd64", builds |-> <<Build(1, 1, 1, x \o u \o Done), Build(2, 3, s, Pkg \o y \o v \o e)>>],
     [arch |-> "arm64", builds |-> <<Build(2, t, 9, z \o w \o Done)>>]>> :
     x \in Runs1, u \in Runs2, y \in {<<>>, Run("t1", 1, <<Failed>>)}, v \in Runs2, e \in {<<>>, Done},
     z \in {<<>>, Run("t1", 124, <<Plain>>)}, w \in {<<>>, Run("t2", 0, <<Plain>>)}, t \in {2, 3}, s \in {1, 9}}

OneHistory == CHOOSE h \in HistoriesUsed : TRUE

ScheduleUsed ==
  [m \in Modes |-> CASE m = "robsd" -> <<"cvs", "checkflist", "end">>
                     [] m = "robsd-ports" -> <<"cvs", "dpb", "end">>
                     [] m = "robsd-regress" -> <<"cvs", "t1", "t2", "end">>
                     [] m = "canvas" -> <<"a", "t1", "t2", "end">>]

StepLogsUsed == {<<Trace, Plain>>, <<Marker, Failed, Plain>>, <<XFailed, XPassed, Plain>>, <<Plain, Plain, Plain>>}

\* A program that does not run stays where it was made.
AfterInit ==
  /\ which # "log" => logs = <<<<>>, <<>>>> /\ flags = {"FAILED", "XPASSED"}
  /\ which # "html" => made = {} /\ args = OneHistory
  /\ which # "report" => mode = "robsd" /\ table = <<>> /\ cvsroot = TRUE
  /\ LogInit /\ HtmlInit /\ ReportInit

AfterNext ==
  /\ \/ which = "log" /\ LogNext /\ UNCHANGED <<htmlVars, reportVars>>
     \/ which = "html" /\ HtmlNext /\ UNCHANGED <<logVars, reportVars>>
     \/ which = "report" /\ ReportNext /\ UNCHANGED <<logVars, htmlVars>>
  /\ UNCHANGED which

Init == which \in {"log", "html", "report"} /\ AfterInit

Spec == Init /\ [][AfterNext]_afterVars
=============================================================================
