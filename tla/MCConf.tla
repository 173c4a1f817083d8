------------------------------- MODULE MCConf --------------------------------
(***************************************************************************)
(* Conf on files of a few statements of each mode, good and bad.           *)
(***************************************************************************)
EXTENDS Conf

St(kw, arg) == [kw |-> kw, arg |-> arg]
IntArg(n) == [is |-> "integer", int |-> n]
BoolArg(n) == [is |-> "boolean", int |-> n]
StrArg(t, known) == [is |-> "string", str |-> t, known |-> known]
ListArg(l) == [is |-> "list", list |-> l]
GlobArg(result) == [is |-> "glob", result |-> result, list |-> <<Lit("p"), Lit("q")>>]
TimeArg(n, unit) == [is |-> "timeout", int |-> n, unit |-> unit]
TestArg(name, options) == [is |-> "regress", name |-> name, options |-> options]
StepArg(name, command, parallel) ==
  [is |-> "step", name |-> name, command |-> command, parallel |-> parallel]
Opt(is) == [is |-> is]

Dir == St("robsddir", StrArg(Lit("d"), TRUE))
RDomain == Ref(<<"rdomain">>)

CommonStmts ==
  { Dir, St("keep", IntArg(2)),
    St("hook", ListArg(<<Lit("h"), Ref(<<"tmp-dir">>)>>)) }

RobsdStmts ==
  { St("robsddir", StrArg(Ref(<<"keep-dir">>), TRUE)), St("reboot", BoolArg(1)),
    St("cvs-user", StrArg(Lit("u"), TRUE)), St("cvs-user", StrArg(Lit("u"), FALSE)),
    St("bsd-srcdir", StrArg(Ref(<<"robsddir">>) \o Lit("s"), TRUE)),
    St("bsd-diff", GlobArg("matches")), St("bsd-diff", GlobArg("nomatch")),
    St("bsd-diff", GlobArg("failed")) }

PortsStmts ==
  { St("ports", ListArg(<<Lit("p")>>)), St("ports", [is |-> "brokenlist"]),
    St("ports-user", StrArg(Lit("u"), TRUE)), St("keep", StrArg(Lit("k"), TRUE)),
    St("robsddir", StrArg(Lit("d"), FALSE)), St("nonsense", IntArg(1)) }

RegressStmts ==
  { St("parallel", BoolArg(0)),
    St("regress-env", ListArg(<<Lit("E")>>)), St("regress-env", ListArg(<<Ref(<<"inet">>)>>)),
    St("regress-timeout", TimeArg(2, 1)), St("regress-timeout", TimeArg(2, 8)),
    St("regress", TestArg("a", <<>>)),
    St("regress", TestArg("b", <<[is |-> "env", list |-> <<RDomain \o RDomain>>]>>)),
    St("regress", TestArg("f", <<[is |-> "env", list |-> <<RDomain>>]>>)),
    St("regress", TestArg("c", << [is |-> "env", list |-> <<RDomain, Ref(<<"inet">>)>>],
                                  Opt("no-parallel") >>)),
    St("regress", TestArg("d", << [is |-> "targets", list |-> <<Lit("t")>>],
                                  [is |-> "obj", list |-> <<Lit("o")>>], Opt("quiet"),
                                  [is |-> "timeout", int |-> 3, unit |-> 2] >>)),
    St("regress", TestArg("e", << [is |-> "env", list |-> <<<<<<"bad">>>>>>] >>)) }

CanvasStmts ==
  { St("canvas-dir", StrArg(Lit("c"), TRUE)), St("canvas-name", StrArg(Lit("n"), TRUE)),
    St("env", ListArg(<<Lit("E")>>)),
    St("step", StepArg("x", <<Lit("cmd")>>, TRUE)),
    St("step", StepArg("y", <<Lit("cmd"), Ref(<<"builddir">>)>>, FALSE)),
    St("step", StepArg("z", <<>>, FALSE)) }

StmtsUsed ==
  [mode \in {"robsd", "ports", "regress", "canvas"} |->
     CASE mode = "robsd" -> CommonStmts \cup RobsdStmts
       [] mode = "ports" -> CommonStmts \cup PortsStmts
       [] mode = "regress" -> {Dir} \cup RegressStmts
       [] mode = "canvas" -> CommonStmts \cup CanvasStmts]

\* The deepest that is allowed, one level more, and what is not there.
TemplatesUsed ==
  [mode \in {"robsd", "ports", "regress", "canvas"} |->
     { Ref(<<"keep-dir">>), Ref(<<"tmp-dir">>) \o Lit("l"), Ref(<<"x">>), Ref(<<"y">>), Ref(<<"nowhere">>),
       Ref(<<"step">>), Ref(<<"keep">>), <<<<"bad">>>> }
     \cup (IF mode = "regress" THEN {Ref(<<"targets", "a">>), Ref(<<"timeout", "d">>), Ref(<<"env", "a">>)}
           ELSE {})]

OptionsUsed ==
  { <<<<"x">>, Ref(<<"keep-dir">>)>>, <<<<"y">>, Ref(<<"x">>)>>,
    <<<<"keep">>, Lit("v")>>, <<<<"builddir">>, Lit("v")>> }

Spec == ConfInit /\ [][ConfNext]_confVars
=============================================================================
