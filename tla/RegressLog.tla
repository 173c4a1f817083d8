----------------------------- MODULE RegressLog -----------------------------
(***************************************************************************)
(* Logs of regress tests: what regress-log.c extracts from them, and       *)
(* robsd-regress-log, which does so for the files on its command line.     *)
(*                                                                         *)
(* A line is what the predicates of regress-log.c tell of it: whether it   *)
(* starts a target (of a test or a directory), whether it is a trace of    *)
(* the shell ("+ ..."), and the outcomes it speaks of.  A file that cannot *)
(* be read is NoFile.                                                      *)
(***************************************************************************)
EXTENDS Integers, Sequences, SequencesExt

CONSTANTS
  LogLines, \* lines of the logs given to robsd-regress-log
  MaxLines, \* bound on the lines of all of them
  Flags,    \* the sets of outcomes asked for
  NoFile

Outcomes == {"SKIPPED", "FAILED", "XFAILED", "XPASSED"}

\* The line end that sets two targets apart.
NewLine == [mark |-> FALSE, trace |-> FALSE, says |-> {"\n"}]

VARIABLES
  logs,   \* the files named by the arguments
  flags,  \* the outcomes asked for
  arg,    \* the argument at hand
  nlog,   \* n of main: files with a target found
  bf,     \* the buffer that is printed
  lerror, \* error of main
  status  \* exit status, or -1

logVars == <<logs, flags, arg, nlog, bf, lerror, status>>
-----------------------------------------------------------------------------
Wanted(line, want) == line.says \cap want # {}

\* Variant: the scratch buffer is kept after a target is extracted.
ScanLineKeeps(s, line, want) ==
  LET target == Append(IF line.mark THEN <<>> ELSE s.scratch, line)
  IN  IF s.head /\ line.trace
      THEN s
      ELSE [head |-> FALSE, scratch |-> target,
            found |-> IF Wanted(line, want) THEN Append(s.found, target) ELSE s.found]

\* An iteration of regress_log_parse_impl: traces in front of the log are
\* skipped, a marker starts a target, an outcome asked for ends one.
ScanLine(s, line, want) ==
  LET target == Append(IF line.mark THEN <<>> ELSE s.scratch, line)
  IN  IF s.head /\ line.trace
      THEN s
      ELSE IF Wanted(line, want)
           THEN [head |-> FALSE, scratch |-> <<>>, found |-> Append(s.found, target)]
           ELSE [s EXCEPT !.head = FALSE, !.scratch = target]

\* regress_log_parse_impl: its state after each number of lines.
Scan(log, want) ==
  LET s[n \in 0 .. Len(log)] ==
        IF n = 0 THEN [head |-> TRUE, scratch |-> <<>>, found |-> <<>>]
        ELSE ScanLine(s[n - 1], log[n], want)
  IN  s

\* The targets that regress_log_parse extracts from a file that is there.
Targets(log, want) == Scan(log, want)[Len(log)].found

\* regress_log_parse: the number of targets, and -1 for a file it cannot read.
RegressLogParse(log, want) == IF log = NoFile THEN -1 ELSE Len(Targets(log, want))

\* regress_log_peek stops at the first.
RegressLogPeek(log, want) ==
  IF RegressLogParse(log, want) > 1 THEN 1 ELSE RegressLogParse(log, want)

\* What regress_log_parse appends to its buffer; newline is REGRESS_LOG_NEWLINE.
Extract(log, want, newline) ==
  LET found == Targets(log, want)
  IN  FlattenSeq([i \in DOMAIN found |->
        (IF i = 1 /\ ~newline THEN <<>> ELSE <<NewLine>>) \o found[i]])

\* An iteration of regress_log_trim: end is where the traces that may turn out
\* to be the last ones start.
TrimLine(s, line) ==
  IF s.beg /\ line.trace
  THEN s
  ELSE [beg |-> FALSE,
        end |-> IF ~line.trace THEN 0 ELSE IF s.end = 0 THEN Len(s.buf) ELSE s.end,
        buf |-> Append(s.buf, line)]

Trimming(log) ==
  LET s[n \in 0 .. Len(log)] ==
        IF n = 0 THEN [beg |-> TRUE, end |-> 0, buf |-> <<>>] ELSE TrimLine(s[n - 1], log[n])
  IN  s

RegressLogTrim(log) ==
  LET s == Trimming(log)[Len(log)]
  IN  SubSeq(s.buf, 1, IF s.end # 0 THEN s.end ELSE Len(s.buf))
-----------------------------------------------------------------------------
LogInit ==
  /\ logs \in {<<<<>>, <<>>>>, <<<<>>, NoFile, <<>>>>}
  /\ flags \in Flags
  /\ arg = 0 /\ nlog = 0 /\ bf = <<>> /\ lerror = FALSE /\ status = -1

Lines == Len(FlattenSeq([i \in DOMAIN logs |-> IF logs[i] = NoFile THEN <<>> ELSE logs[i]]))

\* A test writes a line, before robsd-regress-log is run.
WriteLine(i, line) ==
  /\ arg = 0
  /\ logs[i] # NoFile
  /\ Lines < MaxLines
  /\ logs' = [logs EXCEPT ![i] = Append(@, line)]
  /\ UNCHANGED <<flags, arg, nlog, bf, lerror, status>>

Main ==
  /\ arg = 0
  /\ arg' = 1
  /\ UNCHANGED <<logs, flags, nlog, bf, lerror, status>>

\* The loop over the arguments: the separator is put before it is known
\* whether the file has anything to separate, and taken back if it has not.
ParseArg ==
  /\ arg \in DOMAIN logs
  /\ LET n   == RegressLogParse(logs[arg], flags)
         sep == IF nlog > 0 THEN Append(bf, NewLine) ELSE bf
     IN  /\ lerror' = (lerror \/ n = -1)
         /\ nlog' = IF n > 0 THEN nlog + 1 ELSE nlog
         /\ bf' = CASE n = -1 -> sep
                    [] n = 0  -> IF nlog > 0 THEN Front(sep) ELSE sep
                    [] n > 0  -> sep \o Extract(logs[arg], flags, FALSE)
  /\ arg' = arg + 1
  /\ UNCHANGED <<logs, flags, status>>

Exit ==
  /\ arg = Len(logs) + 1
  /\ status = -1
  /\ status' = IF lerror THEN 2 ELSE IF nlog = 0 THEN 1 ELSE 0
  /\ UNCHANGED <<logs, flags, arg, nlog, bf, lerror>>

LogNext ==
  \/ \E i \in DOMAIN logs, line \in LogLines : WriteLine(i, line)
  \/ Main
  \/ ParseArg
  \/ Exit

LogSpec == LogInit /\ [][LogNext]_logVars
-----------------------------------------------------------------------------
LogTypeOK ==
  /\ \A i \in DOMAIN logs : logs[i] = NoFile \/ logs[i] \in Seq(LogLines)
  /\ flags \in Flags
  /\ arg \in 0 .. Len(logs) + 1
  /\ nlog \in 0 .. Len(logs)
  /\ bf \in Seq(LogLines \cup {NewLine})
  /\ status \in -1 .. 2

\* The lines from the first one that is no trace on, by position.
Body(log) == {i \in DOMAIN log : \E j \in 1 .. i : ~log[j].trace}

\* The outcomes asked for.
Ends(log, want) == {k \in Body(log) : Wanted(log[k], want)}

\* Where the target with the outcome in line k may start: before it there is no
\* other outcome, and no marker but in its first line.
Starts(log, want, k) ==
  {j \in Body(log) : j <= k /\ \A i \in j .. k - 1 : ~Wanted(log[i], want) /\ ~log[i + 1].mark}

Target(log, want, k) == SubSeq(log, Min(Starts(log, want, k)), k)

\* The elements of a set of numbers in their order.
Enumerates(ks, n, K) ==
  /\ \A i, j \in 1 .. n : i < j => ks[i] < ks[j]
  /\ \A k \in K : \E i \in 1 .. n : ks[i] = k

Ascending(K) == CHOOSE ks \in [1 .. Cardinality(K) -> K] : Enumerates(ks, Cardinality(K), K)

TargetsIn(log, want) ==
  LET K == Ends(log, want)
  IN  [i \in 1 .. Cardinality(K) |-> Target(log, want, Ascending(K)[i])]

Joined(parts) == FlattenSeq([i \in DOMAIN parts |-> IF i = 1 THEN parts[i] ELSE <<NewLine>> \o parts[i]])

\* All targets asked for, of all files, in their order.
AllTargets ==
  FlattenSeq([f \in DOMAIN logs |-> IF logs[f] = NoFile THEN <<>> ELSE TargetsIn(logs[f], flags)])

\* A log without the traces it starts and ends with.
Trimmed(log) ==
  LET plain == {i \in DOMAIN log : ~log[i].trace}
  IN  IF plain = {} THEN <<>> ELSE SubSeq(log, Min(plain), Max(plain))

\* The lines K of a log are in the text, in their order and each for itself.
Shows(text, log, K) ==
  \E at \in [K -> DOMAIN text] :
    \A k \in K : text[at[k]] = log[k] /\ \A j \in K : j < k => at[j] < at[k]

\* robsd-regress-log(8) "extracts make targets (i.e. test cases) with a specific
\* outcome": what regress_log_parse and main put in the buffer is each target of
\* each file once, apart by one empty line, and the exit status tells whether
\* there is one; regress_log_trim leaves out the traces a log starts and ends
\* with and no other line.
LogsRead ==
  /\ LogTypeOK
  /\ status \in {0, 1} => bf = Joined(AllTargets) /\ (status = 0 <=> AllTargets # <<>>)
  /\ status = 2 <=> status # -1 /\ \E i \in DOMAIN logs : logs[i] = NoFile
  /\ arg = 0 => \A i \in DOMAIN logs :
       logs[i] # NoFile => RegressLogTrim(logs[i]) = Trimmed(logs[i])
=============================================================================
