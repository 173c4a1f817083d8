---------------------------- MODULE RegressHtml ----------------------------
(***************************************************************************)
(* robsd-regress-html (regress-html.c): the builds of robsd-regress on one *)
(* or more architectures as a page with a column for each build and a row  *)
(* for each suite, and for each run in it a copy of its log.               *)
(***************************************************************************)
EXTENDS RegressLog, FiniteSets

CONSTANTS
  Histories, \* the command lines: sequences of [arch, builds], where a build
             \* is [date, time, seconds, rows] and a row [name, exit, log]
  Names,     \* the steps
  Kind,      \* categorize_suite of each: "regress", "informative", "unknown"
  Slack      \* seconds by which durations may differ, threshold_s

\* Steps have a row each in the step.csv of a build, and rows are those of steps.
ASSUME HistoryAssumption ==
  /\ IsFiniteSet(Names)
  /\ \A h \in Histories :
       /\ h # <<>> /\ h \in Seq(ToSet(h))
       /\ \A k \in DOMAIN h :
            /\ h[k].builds \in Seq(ToSet(h[k].builds))
            /\ \A b \in ToSet(h[k].builds) :
                 /\ b.time \in Int
                 /\ b.rows \in Seq(ToSet(b.rows))
                 /\ \A i \in DOMAIN b.rows : b.rows[i].name \in Names
                 /\ \A i, j \in DOMAIN b.rows : b.rows[i].name = b.rows[j].name => i = j

TIMEOUT == 124

VARIABLES
  args,        \* the command line
  argi,        \* the architecture at hand
  walked,      \* ninvocations: the builds of it that were parsed
  invocations, \* the vector of that name
  suites,      \* the runs of each suite
  sfail,       \* the failed runs of each suite
  made,        \* directories made below the output directory
  files,       \* the copies of logs below it
  hpc,         \* "parse", "done" or "failed"
  page         \* the rows of the page: the suite, and the column of each run

htmlVars == <<args, argi, walked, invocations, suites, sfail, made, files, hpc, page>>
-----------------------------------------------------------------------------
\* parse_run_log, first part: the outcome of a run.
RunStatus(exit, log) ==
  IF exit = TIMEOUT THEN "NOTERM"
  ELSE IF exit # 0 THEN IF RegressLogPeek(log, {"XPASSED"}) > 0 THEN "XPASS" ELSE "FAIL"
  ELSE IF RegressLogPeek(log, {"XFAILED"}) > 0 THEN "XFAIL"
  ELSE IF RegressLogPeek(log, {"SKIPPED"}) > 0 THEN "SKIP"
  ELSE "PASS"

IsRunStatusFailure(s) == s \in {"FAIL", "XPASS", "NOTERM"}

Unpassed == {"FAILED", "XFAILED", "XPASSED"}

\* Variant: skipped targets are all there is to see of a run, failed or not.
RunLogSkips(exit, log) ==
  LET nfail == RegressLogParse(log, Unpassed)
      nskip == RegressLogParse(log, {"SKIPPED"})
  IN  IF nfail > 0 \/ nskip > 0
      THEN Extract(log, Unpassed, FALSE) \o Extract(log, {"SKIPPED"}, nfail > 0)
      ELSE RegressLogTrim(log)

\* parse_run_log, second part: what is copied of the log.
RunLog(exit, log) ==
  LET nfail == RegressLogParse(log, Unpassed)
      nskip == RegressLogParse(log, {"SKIPPED"})
  IN  IF nfail > 0 \/ (~IsRunStatusFailure(RunStatus(exit, log)) /\ nskip > 0)
      THEN Extract(log, Unpassed, FALSE) \o Extract(log, {"SKIPPED"}, nfail > 0)
      ELSE RegressLogTrim(log)

\* write_log opens with O_EXCL and is content with a file that is there.
WriteLog(fs, path, text) ==
  [p \in DOMAIN fs \cup {path} |-> IF p \in DOMAIN fs THEN fs[p] ELSE text]

\* An iteration over the rows of step.csv.  A row of a skipped step has no log,
\* and the name of the build directory is opened in its place: like a log that
\* is gone, it cannot be read.
ParseRow(s, row, arch, b) ==
  LET path == <<arch, b.date, row.name>>
      st   == RunStatus(row.exit, row.log)
      bad  == IF IsRunStatusFailure(st) THEN 1 ELSE 0
      run  == [path |-> path, time |-> b.time, status |-> st]
  IN  IF s.error \/ Kind[row.name] = "unknown" THEN s
      ELSE IF row.log = NoFile THEN [s EXCEPT !.error = TRUE]
      ELSE [suites |-> [s.suites EXCEPT ![row.name] = Append(@, run)],
            sfail |-> [s.sfail EXCEPT ![row.name] = @ + bad],
            files |-> WriteLog(s.files, path, RunLog(row.exit, row.log)),
            total |-> s.total + 1, fail |-> s.fail + bad, error |-> FALSE]

\* The loop over them: its state after each number of rows.
ParseRows(arch, b) ==
  LET s[n \in 0 .. Len(b.rows)] ==
        IF n = 0
        THEN [suites |-> suites, sfail |-> sfail, files |-> files, total |-> 0, fail |-> 0, error |-> FALSE]
        ELSE ParseRow(s[n - 1], b.rows[n], arch, b)
  IN  s

DurationDelta(x, y) ==
  IF x - y > Slack THEN "SLOWER" ELSE IF y - x > Slack THEN "FASTER" ELSE "NONE"

Builds == args[argi].builds

\* The duration is compared with that of the last one in the vector, if it is of
\* this architecture.
Delta(b) == IF walked >= 1 THEN DurationDelta(b.seconds, Last(invocations).seconds) ELSE "NONE"

\* create_regress_invocation, once its directory is made.
Invocation(dir, b, s) ==
  [dir |-> dir, time |-> b.time, seconds |-> b.seconds, delta |-> Delta(b), total |-> s.total, fail |-> s.fail]

\* regress_html_parse, an iteration, and parse_invocation: builds are walked from
\* the oldest to the latest name.
ParseInvocation ==
  /\ hpc = "parse"
  /\ argi \in DOMAIN args
  /\ walked < Len(Builds)
  /\ LET b    == Builds[walked + 1]
         arch == args[argi].arch
         dir  == <<arch, b.date>>
         s    == ParseRows(arch, b)[Len(b.rows)]
     IN  IF (\A i \in DOMAIN b.rows : b.rows[i].name # "end") \/ dir \in made
         THEN /\ hpc' = "failed"
              /\ UNCHANGED <<walked, invocations, suites, sfail, made, files>>
         ELSE /\ made' = made \cup {dir}
              /\ suites' = s.suites /\ sfail' = s.sfail /\ files' = s.files
              /\ hpc' = IF s.error THEN "failed" ELSE "parse"
              /\ walked' = walked + 1
              /\ invocations' = Append(invocations, Invocation(dir, b, s))
  /\ UNCHANGED <<args, argi, page>>

\* VECTOR_SORT by descending time: qsort may leave equal times in any order.
Sorted(v) ==
  {w \in {[i \in DOMAIN v |-> v[f[i]]] : f \in {g \in [DOMAIN v -> DOMAIN v] : IsInjective(g)}} :
     \A i, j \in DOMAIN w : i < j => w[i].time >= w[j].time}

\* regress_html_parse, its end.
SortAll ==
  /\ hpc = "parse"
  /\ argi \in DOMAIN args
  /\ walked = Len(Builds)
  /\ invocations' \in Sorted(invocations)
  /\ suites' \in {w \in [Names -> UNION {Sorted(suites[n]) : n \in Names}] :
                   \A n \in Names : w[n] \in Sorted(suites[n])}
  /\ argi' = argi + 1
  /\ walked' = 0
  /\ UNCHANGED <<args, sfail, made, files, hpc, page>>

\* Variant: a missing run is compensated for only once.
ColumnOnce(ri, run) ==
  IF ri <= Len(invocations) /\ invocations[ri].time > run.time THEN ri + 1 ELSE ri

\* "Compensate for missing run(s)": the column that ri comes to.
Column(ri, run) ==
  CHOOSE j \in ri .. Len(invocations) + 1 :
    /\ j <= Len(invocations) => invocations[j].time <= run.time
    /\ \A k \in ri .. j - 1 : invocations[k].time > run.time

\* render_suite: the columns of the runs of a suite.
RenderSuite(n) ==
  LET col[i \in 0 .. Len(suites[n])] ==
        IF i = 0 THEN 0 ELSE Column(col[i - 1] + 1, suites[n][i])
  IN  [i \in DOMAIN suites[n] |-> col[i]]

\* sort_suites: failures first, then what passed, then what is no regress test;
\* by the number of failures, then by name.
Rank(n) == IF sfail[n] > 0 THEN 1 ELSE IF Kind[n] = "regress" THEN 2 ELSE 3
Before(m, n) == Rank(m) < Rank(n) \/ (Rank(m) = Rank(n) /\ sfail[m] > sfail[n])

SortSuites ==
  {w \in SetToSeqs({n \in Names : suites[n] # <<>>}) : \A i, j \in DOMAIN w : Before(w[i], w[j]) => i < j}

\* regress_html_render.
Render ==
  /\ hpc = "parse"
  /\ argi = Len(args) + 1
  /\ \E order \in SortSuites :
       page' = [i \in DOMAIN order |-> [name |-> order[i], columns |-> RenderSuite(order[i])]]
  /\ hpc' = "done"
  /\ UNCHANGED <<args, argi, walked, invocations, suites, sfail, made, files>>

HtmlInit ==
  /\ args \in Histories
  /\ argi = 1 /\ walked = 0 /\ invocations = <<>>
  /\ suites = [n \in Names |-> <<>>] /\ sfail = [n \in Names |-> 0]
  \* the output directory may hold an earlier page
  /\ made \in {{}, {<<args[1].arch, args[1].builds[1].date>>}}
  /\ files = <<>> /\ hpc = "parse" /\ page = <<>>

HtmlNext == ParseInvocation \/ SortAll \/ Render

HtmlSpec == HtmlInit /\ [][HtmlNext]_htmlVars
-----------------------------------------------------------------------------
HtmlTypeOK ==
  /\ args \in Histories
  /\ argi \in 1 .. Len(args) + 1
  /\ \A i \in DOMAIN invocations :
       /\ invocations[i].dir \in made
       /\ invocations[i].fail \in 0 .. invocations[i].total
  /\ DOMAIN suites = Names
  /\ sfail \in [Names -> Nat]
  /\ hpc \in {"parse", "done", "failed"}

\* The directory of the build that a run is of.
DirOf(run) == <<run.path[1], run.path[2]>>

Runs == UNION {ToSet(suites[n]) : n \in Names}
RunsOf(dir) == {run \in Runs : DirOf(run) = dir}
Failures(runs) == {run \in runs : IsRunStatusFailure(run.status)}

\* Each run is in the column of the build it is a run of.
ColumnsOwn ==
  \A r \in DOMAIN page :
    LET n == page[r].name IN
    \A i \in DOMAIN suites[n] :
      /\ page[r].columns[i] \in DOMAIN invocations
      /\ DirOf(suites[n][i]) = invocations[page[r].columns[i]].dir

\* Builds whose first steps started at different seconds.
TimesApart ==
  \A i, j \in DOMAIN invocations : invocations[i].time = invocations[j].time => i = j

\* A run tells of a row, and its link leads to what was taken from the log of it.
IsRunOf(run, arch, b, row) ==
  /\ run.path = <<arch, b.date, row.name>>
  /\ run.time = b.time
  /\ run.status = RunStatus(row.exit, row.log)
  /\ run.path \in DOMAIN files
  /\ files[run.path] = RunLog(row.exit, row.log)

\* The runs of a suite are those of the rows of its name.
RunsOfRows ==
  /\ \A n \in Names : \A i \in DOMAIN suites[n] :
       \E k \in DOMAIN args : \E b \in ToSet(args[k].builds) : \E row \in ToSet(b.rows) :
         row.name = n /\ IsRunOf(suites[n][i], args[k].arch, b, row)
  /\ \A k \in DOMAIN args : \A b \in ToSet(args[k].builds) : \A row \in ToSet(b.rows) :
       Kind[row.name] # "unknown" =>
         \E i \in DOMAIN suites[row.name] : IsRunOf(suites[row.name][i], args[k].arch, b, row)

\* The pass rate of a build counts the runs in it and the failures among them.
RatesTrue ==
  \A i \in DOMAIN invocations :
    /\ invocations[i].total = Cardinality(RunsOf(invocations[i].dir))
    /\ invocations[i].fail = Cardinality(Failures(RunsOf(invocations[i].dir)))

\* Each build has one column, where its duration is compared with that of the
\* build before it of the same architecture.
DeltasTrue ==
  /\ \A i, j \in DOMAIN invocations : invocations[i].dir = invocations[j].dir => i = j
  /\ \A k \in DOMAIN args : \A x \in DOMAIN args[k].builds :
       LET b == args[k].builds[x] IN
       \E i \in DOMAIN invocations :
         /\ invocations[i].dir = <<args[k].arch, b.date>>
         /\ invocations[i].delta =
              IF x = 1 THEN "NONE" ELSE DurationDelta(b.seconds, args[k].builds[x - 1].seconds)

\* Suites with a failed run come before those without.
FailuresFirst ==
  \A i, j \in DOMAIN page :
    Failures(ToSet(suites[page[i].name])) = {} /\ i < j => Failures(ToSet(suites[page[j].name])) = {}

\* The page tells the truth: in render_suite a run that is missing from one build
\* does not shift the others to a wrong column (builds started at the same second
\* aside), the link of a run leads to what parse_run_log took from its own log,
\* the pass rate of a build counts the failures below it, its duration is compared
\* with the build before it of the same architecture, and suites that fail come
\* first.
PageTrue ==
  hpc = "done" =>
    /\ HtmlTypeOK
    /\ TimesApart => ColumnsOwn
    /\ RunsOfRows
    /\ RatesTrue
    /\ DeltasTrue
    /\ FailuresFirst

\* A log that parse_run_log copies for a failed run shows why it failed: each
\* target with an outcome other than a pass, or the whole log if there is none, in
\* their order.
WhyShown ==
  arg = 0 => \A i \in DOMAIN logs : \A exit \in {1, TIMEOUT} :
    logs[i] # NoFile =>
      LET log   == logs[i]
          bad   == Ends(log, Unpassed)
          shown == IF bad # {} THEN bad ELSE {k \in Body(log) : ~log[k].trace}
      IN  Shows(RunLog(exit, log), log, shown)
=============================================================================
