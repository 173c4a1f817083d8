-------------------------------- MODULE Conf ---------------------------------
(***************************************************************************)
(* A configuration file, statement by statement (src/conf.c, conf-*.c),    *)
(* and what the programs make of it: robsd-config, robsd-hook, robsd-step  *)
(* -L and robsd-exec each parse the file anew and then look variables up.  *)
(*                                                                         *)
(* A statement is a keyword and the arguments that follow it up to the     *)
(* next keyword: [kw, arg].  What an argument is, arg.is, says whether the *)
(* parser gets the tokens it expects.  After a first error nothing but     *)
(* more errors can follow, so where the parser picks up is left open.      *)
(***************************************************************************)
EXTENDS ConfVars, FiniteSets

CONSTANTS
  Stmts,     \* the statements of each mode
  MaxStmts,  \* bound on the number of statements
  MaxInt,    \* INT_MAX
  Templates, \* what robsd-config is asked to interpolate
  Options    \* the names and values given to -v

ASSUME StmtAssumption == MaxStmts \in Nat /\ MaxInt \in Nat

VARIABLES
  cf,      \* the configuration
  stmts,   \* history: the statements so far
  cerr,    \* whether there was an error
  cpc,     \* "parse", "ready", "failed", "looked", "listed",
           \* "hooked", "steps"
  cout,    \* the outcome of the last lookup
  stale    \* history: whether a pointer to a variable was used after the
           \* variables may have moved

confVars == <<cf, stmts, cerr, cpc, cout, stale>>

Nothing == [ok |-> TRUE, out |-> <<>>, of |-> <<>>]

ConfInit ==
  /\ \E mode \in DOMAIN Stmts, running \in {"", "build"} : cf = NewConfig(mode, running)
  /\ stmts = <<>> /\ cerr = FALSE /\ cpc = "parse" /\ cout = Nothing /\ stale = FALSE

\* What a parser routine returns.
Returns(rv, c, val) == [rv |-> rv, cf |-> c, val |-> val, stale |-> FALSE]
Fails(c) == Returns("error", c, NoValue)
Fatal(c) == Returns("fatal", c, NoValue)

(***************************************************************************)
(* The parser routines.                                                    *)
(***************************************************************************)
\* config_parse_boolean, config_parse_string, config_parse_integer
ParsePlain(c, want, arg) ==
  IF arg.is # want THEN Fails(c)
  ELSE Returns("append", c, IF want = "string" THEN Str(arg.str) ELSE Integer(arg.int))

\* config_parse_list: a wrong token among the strings is fatal.
ParseList(c, arg) ==
  IF arg.is = "brokenlist" THEN Fatal(c)
  ELSE IF arg.is # "list" THEN Fails(c)
  ELSE Returns("append", c, List(arg.list))

\* config_parse_glob
ParseGlob(c, arg) ==
  IF arg.is # "glob" THEN Fails(c)
  ELSE CASE arg.result = "nomatch" -> Returns("nop", c, NoValue)
         [] arg.result = "failed"  -> Fatal(c)
         [] arg.result = "matches" -> Returns("append", c, List(arg.list))

\* config_parse_user
ParseUser(c, arg) ==
  IF arg.is # "string" \/ ~arg.known THEN Fails(c)
  ELSE Returns("append", c, Str(arg.str))

\* Variant: the product is not looked at.
ParseTimeoutWide(c, arg) ==
  IF arg.is # "timeout" \/ arg.unit = 0 THEN Fails(c)
  ELSE Returns("append", c, Integer((arg.unit * arg.int) % (MaxInt + 1)))

\* config_parse_timeout
ParseTimeout(c, arg) ==
  IF arg.is # "timeout" \/ arg.unit = 0 \/ arg.unit * arg.int > MaxInt THEN Fails(c)
  ELSE Returns("append", c, Integer(arg.unit * arg.int))

\* config_parse_directory: the path is looked at as interpolated by then and
\* kept as it is written.
ParseDirectory(c, arg) ==
  IF arg.is # "string" THEN Fails(c)
  ELSE LET path == Late(c, arg.str)
       IN  IF ~path.ok \/ ~arg.known THEN Fails(path.cf)
           ELSE Returns("append", path.cf, Str(arg.str))

\* config_parse_canvas_directory
ParseCanvasDirectory(c, arg) ==
  LET r == ParseDirectory(c, arg)
  IN  IF r.rv # "append" THEN r
      ELSE Returns("nop", Append1(Append1(r.cf, <<"canvas-dir">>, r.val),
                                  <<"robsddir">>, r.val), NoValue)

\* config_parse_canvas_step: the last command counts, an empty one is none.
ParseCanvasStep(c, arg) ==
  IF arg.is # "step" THEN Fails(c)
  ELSE LET env  == Find(c, <<"env">>)
           argv == <<Lit("env")>> \o env.val.list \o arg.command
           step == [name |-> arg.name, parallel |-> arg.parallel, argv |-> argv]
           d    == IF env.cf.steps = <<>> THEN Append1(env.cf, <<"step">>, Invalid) ELSE env.cf
       IN  IF arg.command = <<>> THEN Fails(c)
           ELSE Returns("nop", [d EXCEPT !.steps = Append(@, step)], NoValue)

\* config_parse_regress_option_env: the new variable is expanded early by its
\* name and then overwritten through a pointer.
OptionEnv(c, test, list) ==
  LET name == <<"env", test>>
      d    == Append1(c, name, List(<<Ref(<<"regress-env">>)>> \o list))
      e    == Early(d, Ref(name))
      at   == Len(d.vars)
  IN  [ok |-> e.ok, moved |-> Len(e.cf.vars) # at,
       cf |-> IF e.ok THEN [e.cf EXCEPT !.vars[at].val = Str(e.out)] ELSE e.cf]

\* One option of a regress statement.
Option(c, test, opt) ==
  LET Put(d) == [ok |-> TRUE, moved |-> FALSE, cf |-> d]
  IN  CASE opt.is = "env" -> OptionEnv(c, test, opt.list)
        [] opt.is = "no-parallel" -> Put(Append1(c, <<"parallel", test>>, Integer(0)))
        [] opt.is = "quiet" -> Put(Append1(c, <<"quiet", test>>, Integer(1)))
        [] opt.is = "obj" -> Put(ConcatList(c, <<"regress-obj">>, opt.list))
        [] opt.is = "targets" -> Put(ConcatList(c, <<"targets", test>>, opt.list))
        [] opt.is = "timeout" ->
             LET r == ParseTimeout(c, opt)
             IN  IF r.rv = "append" THEN Put(Append1(c, <<"timeout", test>>, r.val))
                 ELSE [ok |-> FALSE, moved |-> FALSE, cf |-> c]

\* config_parse_regress
ParseRegress(c, arg) ==
  LET Step(acc, opt) ==
        IF ~acc.ok THEN acc
        ELSE LET o == Option(acc.cf, arg.name, opt)
             IN  [o EXCEPT !.moved = @ \/ acc.moved]
      r == FoldLeft(Step, [ok |-> TRUE, moved |-> FALSE, cf |-> c], arg.options)
  IN  IF arg.is # "regress" THEN Fails(c)
      ELSE IF ~r.ok THEN [Fails(r.cf) EXCEPT !.stale = r.moved]
      ELSE [Returns("nop", ConcatList(r.cf, <<"regress">>, <<Lit(arg.name)>>), NoValue)
              EXCEPT !.stale = r.moved]

\* config_parse_regress_env
ParseRegressEnv(c, arg) ==
  LET r == ParseList(c, arg)
  IN  IF r.rv # "append" THEN Fails(c)
      ELSE Returns("nop", ConcatList(c, <<"regress-env">>, arg.list), NoValue)

Routine(fn, c, arg) ==
  CASE fn \in {"boolean", "string", "integer"} -> ParsePlain(c, fn, arg)
    [] fn = "list" -> ParseList(c, arg)
    [] fn = "glob" -> ParseGlob(c, arg)
    [] fn = "user" -> ParseUser(c, arg)
    [] fn = "timeout" -> ParseTimeout(c, arg)
    [] fn = "directory" -> ParseDirectory(c, arg)
    [] fn = "canvas_directory" -> ParseCanvasDirectory(c, arg)
    [] fn = "canvas_step" -> ParseCanvasStep(c, arg)
    [] fn = "regress" -> ParseRegress(c, arg)
    [] fn = "regress_env" -> ParseRegressEnv(c, arg)

(***************************************************************************)
(* The parser.                                                             *)
(***************************************************************************)
\* no_repeat of config_parse_keyword.
Repeated(c, g) == "REP" \notin g.flags /\ Present(c, <<g.kw>>)

\* One round of config_parse_inner, config_parse_keyword.
ParseStmt(s) ==
  /\ cpc = "parse" /\ Len(stmts) < MaxStmts
  /\ stmts' = Append(stmts, s)
  /\ LET gr == ForKeyword(cf.mode, s.kw)
         g  == CHOOSE g \in gr : TRUE
         Keep(r) ==
           /\ cf' = IF r.rv = "append" THEN Append1(r.cf, <<s.kw>>, r.val) ELSE r.cf
           /\ cerr' = (cerr \/ Repeated(cf, g) \/ r.rv \in {"error", "fatal"})
           /\ cpc' = IF r.rv = "fatal" /\ ~Repeated(cf, g) THEN "failed" ELSE cpc
           /\ stale' = (stale \/ r.stale)
     IN  IF gr = {} THEN cpc' = "failed" /\ cerr' = TRUE /\ UNCHANGED <<cf, stale>>
         ELSE Keep(Routine(g.fn, cf, s.arg))
  /\ UNCHANGED cout

\* config_validate
Missing(c) == \E g \in Grammar(c.mode) : "REQ" \in g.flags /\ ~Present(c, <<g.kw>>)

\* config_canvas_after_parse; the other modes do nothing.
AfterParse(c) ==
  IF c.mode # "canvas" THEN c
  ELSE [c EXCEPT !.steps = Append(@, [name |-> "end", parallel |-> FALSE,
                                      argv |-> <<Lit("sh"), Ref(<<"trace">>), Lit("end")>>])]

\* The end of config_parse.
ParseEof ==
  /\ cpc = "parse"
  /\ cpc' = IF cerr \/ Missing(cf) THEN "failed" ELSE "ready"
  /\ cf' = IF cpc' = "ready" THEN AfterParse(cf) ELSE cf
  /\ UNCHANGED <<stmts, cerr, cout, stale>>

(***************************************************************************)
(* The programs.                                                           *)
(***************************************************************************)
\* config_append_var, robsd-config -v and robsd-hook -v: keywords are refused.
AppendVar(name, t) ==
  /\ cpc \in {"ready", "looked"} /\ ~Present(cf, name)
  /\ IF ForKeyword(cf.mode, name[1]) # {} THEN cpc' = "failed" /\ UNCHANGED cf
     ELSE cf' = Append1(cf, name, Str(t)) /\ cpc' = "looked"
  /\ UNCHANGED <<stmts, cerr, cout, stale>>

\* robsd-config -
RobsdConfig(t) ==
  /\ cpc \in {"ready", "looked"}
  /\ LET r == Late(cf, t)
     IN  cf' = r.cf /\ cout' = [ok |-> r.ok, out |-> r.out, of |-> t]
  /\ cpc' = "listed"
  /\ UNCHANGED <<stmts, cerr, stale>>

\* The arguments of a command, each interpolated, without those that are empty
\* (config_get_steps); hook_to_argv keeps them.
Argv(c, args, empty) ==
  LET Put(acc, arg) ==
        IF ~acc.ok THEN acc
        ELSE LET r == Late(acc.cf, arg)
             IN  [cf |-> r.cf, ok |-> r.ok,
                  out |-> IF r.out = <<>> /\ ~empty THEN acc.out ELSE Append(acc.out, r.out)]
  IN  FoldLeft(Put, [cf |-> c, ok |-> TRUE, out |-> <<>>], args)

\* robsd-hook: no hook, nothing is run.
RobsdHook ==
  /\ cpc \in {"ready", "looked"}
  /\ LET hook == Find(cf, <<"hook">>)
         r    == Argv(hook.cf, hook.val.list, TRUE)
     IN  cf' = r.cf /\ cout' = [Nothing EXCEPT !.ok = r.ok, !.out = r.out]
  /\ cpc' = "hooked"
  /\ UNCHANGED <<stmts, cerr, stale>>

Script(name) == [name |-> name, parallel |-> FALSE,
                 argv |-> <<Lit("sh"), Ref(<<"trace">>), Ref(<<"exec-dir">>), Lit(name)>>]
Scripts(names) == [i \in DOMAIN names |-> Script(names[i])]

\* is_parallel
IsParallel(c, test) ==
  /\ Find(c, <<"parallel">>).val.int # 0
  /\ Find(c, <<"parallel", test>>).val.int # 0

Tests(c) ==
  LET Names(list) == [i \in DOMAIN list |-> list[i][1][2]]
  IN  Names(Find(c, <<"regress">>).val.list)

\* Variant: the tests stay in the order of the configuration.
RegressStepsMixed(c) ==
  Scripts(<<"env", "mount">>)
    \o [i \in DOMAIN Tests(c) |->
          [Script(Tests(c)[i]) EXCEPT !.parallel = IsParallel(c, Tests(c)[i])]]
    \o Scripts(<<"umount", "end">>)

\* config_robsd_regress_get_steps
RegressSteps(c) ==
  LET Those(parallel) == Scripts(SelectSeq(Tests(c), LAMBDA t : IsParallel(c, t) = parallel))
      AtOnce(steps)   == [i \in DOMAIN steps |-> [steps[i] EXCEPT !.parallel = TRUE]]
  IN  Scripts(<<"env", "mount">>) \o AtOnce(Those(TRUE)) \o Those(FALSE)
        \o Scripts(<<"umount", "end">>)

\* config_get_steps: the steps of a mode, before their commands are
\* interpolated.
StepsOf(c) ==
  CASE c.mode = "regress" -> RegressSteps(c)
    [] c.mode = "canvas" -> c.steps
    [] OTHER -> Scripts(<<"env", "cvs", "end">>)

\* config_get_steps for robsd-step -L, and for robsd-exec with its trace flag:
\* one command that cannot be interpolated and there are no steps at all.
GetSteps(trace) ==
  /\ cpc = "ready"
  /\ LET Put(acc, s) ==
           IF ~acc.ok THEN acc
           ELSE LET r == Argv(acc.cf, s.argv, FALSE)
                IN  [cf |-> r.cf, ok |-> r.ok, out |-> Append(acc.out, [s EXCEPT !.argv = r.out])]
         Take(r) ==
           /\ cf' = [r.cf EXCEPT !.trace = FALSE]
           /\ cout' = [Nothing EXCEPT !.ok = r.ok, !.out = IF r.ok THEN r.out ELSE <<>>]
     IN  Take(FoldLeft(Put, [cf |-> [cf EXCEPT !.trace = trace], ok |-> TRUE, out |-> <<>>],
                       StepsOf(cf)))
  /\ cpc' = "steps"
  /\ UNCHANGED <<stmts, cerr, stale>>

ConfNext ==
  \/ \E s \in Stmts[cf.mode] : ParseStmt(s)
  \/ ParseEof
  \/ \E t \in Templates[cf.mode] : RobsdConfig(t)
  \/ \E o \in Options : AppendVar(o[1], o[2])
  \/ RobsdHook
  \/ \E trace \in BOOLEAN : GetSteps(trace)
-----------------------------------------------------------------------------
\* What a test gets from its env option, and how often the option is given.
EnvOptions(test) ==
  LET regress == SelectSeq(stmts, LAMBDA s : s.kw = "regress" /\ s.arg.name = test)
      options == FlattenSeq([i \in DOMAIN regress |-> regress[i].arg.options])
  IN  SelectSeq(options, LAMBDA o : o.is = "env")

Ready == cpc = "ready"
TestSet == ToSet(Tests(cf))

\* The environment a test is run with: robsd-config is asked for it by a
\* process of the test's own.
EnvOf(test) == Late(cf, Ref(<<"env", test>>))
Numbers(t) == SelectSeq(t, LAMBDA p : p[1] = "num")
Plain(t) == SelectSeq(t, LAMBDA p : p[1] # "num")

ConfTypeOK ==
  /\ cpc \in {"parse", "ready", "failed", "looked", "listed", "hooked", "steps"}
  /\ \A i \in DOMAIN cf.vars :
       cf.vars[i].val.type \in {"INVALID", "INTEGER", "STRING", "LIST"}
  /\ cf.rdomain \in RDomainMin .. RDomainMax
  /\ cf.early = FALSE /\ cf.trace = FALSE

\* What an accepted statement of a keyword that is not repeated should set.
Wanted(s) ==
  CASE s.arg.is \in {"integer", "boolean"} -> Integer(s.arg.int)
    [] s.arg.is = "timeout" -> Integer(s.arg.unit * s.arg.int)
    [] s.arg.is = "string" -> Str(s.arg.str)
    [] OTHER -> List(s.arg.list)

\* A configuration that is accepted has all that is required, and every variable
\* has the value the file gives it, wherever in the file that is and whatever
\* default was looked up and kept before; a timeout has not wrapped around.
AcceptedAsWritten ==
  Ready =>
    /\ \A g \in Grammar(cf.mode) : "REQ" \in g.flags => Present(cf, <<g.kw>>)
    /\ \A i \in DOMAIN stmts :
         \A g \in ForKeyword(cf.mode, stmts[i].kw) :
           "REP" \in g.flags \/ (g.fn = "glob" /\ stmts[i].arg.result = "nomatch")
             \/ Find(cf, <<g.kw>>).val = Wanted(stmts[i])

\* "Unique rdomain, incremented on every reference": no two tests are given the
\* same routing domain, though each asks a robsd-config of its own, and no test
\* is given one twice.  For domains named in env options.
RDomainsApart ==
  Ready /\ cf.mode = "regress" =>
    /\ \A t \in TestSet : IsInjective(Numbers(EnvOf(t).out))
    /\ \A t, u \in TestSet : t # u =>
         ToSet(Numbers(EnvOf(t).out)) \cap ToSet(Numbers(EnvOf(u).out)) = {}

\* Early interpolation changes nothing but routing domains: the environment of
\* a test is regress-env followed by what its env option adds, fully expanded
\* with all variables, also those set behind the test.
EnvKept ==
  Ready /\ cf.mode = "regress" =>
    \A t \in TestSet :
      LET given == EnvOptions(t)
          want  == Late(cf, Ref(<<"regress-env">>) \o
                            (IF given = <<>> THEN <<>> ELSE FlattenSeq(given[1].list)))
      IN  Len(given) <= 1 /\ want.ok /\ EnvOf(t).ok => Plain(EnvOf(t).out) = Plain(want.out)

\* Tests that run side by side get the environment the file asks for, with a
\* routing domain of their own for each ${rdomain} in it.
TestEnvs == RDomainsApart /\ EnvKept

\* The pointer that config_parse_regress_option_env keeps while it interpolates
\* is to a variable that has not moved.
NoStalePointer == ConfTypeOK /\ ~stale

\* The steps come in an order the main loop can run: every test once per
\* statement, between mount and umount, those that run in parallel first and
\* side by side, and the end step last and on its own.
ScheduleSound ==
  LET Sound(steps, tests, n) ==
        /\ steps[n].name = "end" /\ ~steps[n].parallel
        /\ cf.mode = "regress" =>
             /\ \A t \in ToSet(tests) :
                  Cardinality({i \in 1 .. n : steps[i].name = t})
                    = Cardinality({i \in DOMAIN tests : tests[i] = t})
             /\ \A i, j \in 1 .. n : i < j /\ steps[j].parallel =>
                  steps[i].parallel \/ steps[i].name \in {"env", "mount"}
             /\ steps[n - 1].name = "umount"
  IN  Ready => Sound(StepsOf(cf), Tests(cf), Len(StepsOf(cf)))

\* Every reference is replaced at once, level by level.
Level(c, t) ==
  FlattenSeq([i \in DOMAIN t |->
    IF t[i][1] # "ref" \/ Find(c, t[i][2]).val \in {NoValue, Invalid} THEN <<t[i]>>
    ELSE Text(Find(c, t[i][2]).val)])

\* Interpolation is that replacement, done as often as the limit on the depth
\* allows; if something is left then, be it unknown, broken, too deep or a
\* variable that refers to itself, it is an error and no loop.
ExpansionCorrect ==
  cpc = "listed" =>
    LET f[k \in 0 .. DepthLimit - 2] ==
          IF k = 0 THEN cout.of ELSE Level(cf, f[k - 1])
        full == f[DepthLimit - 2]
        ok   == \A i \in DOMAIN full : full[i][1] \in {"lit", "num"}
    IN  cout.ok = ok /\ (ok => cout.out = full)
=============================================================================
