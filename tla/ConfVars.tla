------------------------------- MODULE ConfVars ------------------------------
(***************************************************************************)
(* The variables of a configuration (src/conf.c, conf-*.c,                 *)
(* variable-value.c) and their interpolation (src/interpolate.c).          *)
(*                                                                         *)
(* A lookup may change the configuration: most defaults are computed once  *)
(* and appended to the variables, and every look at rdomain takes a        *)
(* number.  So an operator takes a configuration and returns a record with *)
(* the configuration it leaves behind.                                     *)
(*                                                                         *)
(* A name is <<"keep">> or, for "regress-T-env", <<"env", T>>.  A string   *)
(* is a template, a sequence of <<"lit", text>>, <<"num", n>>,             *)
(* <<"ref", name>> for ${name}, and <<"bad">> for a broken substitution.   *)
(***************************************************************************)
EXTENDS Integers, Sequences, SequencesExt

CONSTANTS
  RDomainMin, RDomainMax, \* RDOMAIN_MIN, RDOMAIN_MAX
  DepthLimit              \* the depth of interpolate that is too deep, 5

ASSUME RDomainAssumption == RDomainMin \in Nat /\ RDomainMax \in Nat /\ RDomainMin < RDomainMax
ASSUME DepthAssumption == DepthLimit \in Nat \ {0}

\* struct variable_value: a string is a list of one.
Value(type, int, list) == [type |-> type, int |-> int, list |-> list]
NoValue == Value("NULL", 0, <<>>)
Invalid == Value("INVALID", 0, <<>>)
Integer(n) == Value("INTEGER", n, <<>>)
Str(t)  == Value("STRING", 0, <<t>>)
List(l) == Value("LIST", 0, l)

Lit(s) == <<<<"lit", s>>>>
Ref(n) == <<<<"ref", n>>>>

\* One entry of a grammar: fn is how the keyword is parsed ("" for a variable
\* that cannot be set), flags those of conf-priv.h.
Entry(kw, fn, flags, def) == [kw |-> kw, fn |-> fn, flags |-> flags, def |-> def]

\* common_grammar, with one entry for those alike.
CommonGrammar ==
  { Entry("keep", "integer", {}, Integer(0)),
    Entry("hook", "list", {}, List(<<>>)),
    Entry("robsddir", "directory", {"REQ"}, NoValue),
    Entry("keep-dir", "", {}, Str(Ref(<<"robsddir">>) \o Lit("attic"))),
    Entry("tmp-dir", "", {}, Str(Ref(<<"builddir">>) \o Lit("tmp"))),
    Entry("builddir", "", {"FUN"}, NoValue),
    Entry("exec-dir", "", {"FUN"}, NoValue),
    Entry("inet", "", {"FUN"}, NoValue),
    Entry("ncpu", "", {"FUN"}, NoValue),
    Entry("trace", "", {"FUN"}, NoValue) }

PortsGrammar ==
  { Entry("ports", "list", {"REQ"}, NoValue),
    Entry("ports-user", "user", {"REQ"}, NoValue),
    Entry("ports-diff", "glob", {}, List(<<>>)) }

RobsdGrammar ==
  { Entry("reboot", "boolean", {}, Integer(0)),
    Entry("cvs-user", "user", {}, Str(<<>>)),
    Entry("bsd-diff", "glob", {}, List(<<>>)),
    Entry("distrib-host", "string", {}, Str(<<>>)),
    Entry("bsd-reldir", "", {}, Str(Ref(<<"builddir">>) \o Lit("rel"))),
    Entry("bsd-srcdir", "directory", {}, Str(Lit("src"))) }

RegressGrammar ==
  { Entry("parallel", "boolean", {}, Integer(1)),
    Entry("bsd-diff", "glob", {}, List(<<>>)),
    Entry("rdomain", "", {"FUN", "EARLY"}, NoValue),
    Entry("regress", "regress", {"REQ", "REP"}, NoValue),
    Entry("regress-env", "regress_env", {"REP"}, List(<<>>)),
    Entry("regress-timeout", "timeout", {}, Integer(0)),
    Entry("env", "", {"PAT", "EARLY"}, Str(Ref(<<"regress-env">>))),
    Entry("targets", "", {"PAT", "FUN"}, NoValue),
    Entry("parallel", "", {"PAT", "FUN"}, NoValue),
    Entry("timeout", "", {"PAT", "FUN"}, NoValue) }

CanvasGrammar ==
  { Entry("canvas-dir", "canvas_directory", {"REQ"}, NoValue),
    Entry("canvas-name", "string", {"REQ"}, NoValue),
    Entry("env", "list", {}, List(<<>>)),
    Entry("step", "canvas_step", {"REQ", "REP"}, NoValue) }

Grammar(mode) ==
  CommonGrammar \cup
    CASE mode = "robsd" -> RobsdGrammar
      [] mode = "ports" -> PortsGrammar
      [] mode = "regress" -> RegressGrammar
      [] mode = "canvas" -> CanvasGrammar

\* config_find_grammar_for_keyword
ForKeyword(mode, kw) == {g \in Grammar(mode) : g.fn # "" /\ g.kw = kw}

\* config_find_grammar_for_interpolation, grammar_equals: a name with a part
\* that varies is that of a pattern.
ForName(mode, name) ==
  {g \in Grammar(mode) : g.kw = name[1] /\ ("PAT" \in g.flags <=> Len(name) = 2)}

\* struct config after config_alloc.
NewConfig(mode, running) ==
  [mode |-> mode, vars |-> <<>>, rdomain |-> RDomainMin, early |-> FALSE,
   trace |-> FALSE, running |-> running, steps |-> <<>>]

\* config_append
Append1(c, name, val) == [c EXCEPT !.vars = Append(@, [name |-> name, val |-> val])]

\* config_present
Present(c, name) == \E i \in DOMAIN c.vars : c.vars[i].name = name

FirstOf(c, name) ==
  CHOOSE i \in DOMAIN c.vars :
    c.vars[i].name = name /\ \A j \in 1 .. i - 1 : c.vars[j].name # name

Got(c, val) == [cf |-> c, val |-> val]
Appended(c, name, val) == Got(Append1(c, name, val), val)

\* Variant: the number is not counted up.
TakeRDomainSame(c) == Got(c, Integer(c.rdomain))

\* config_default_rdomain
TakeRDomain(c) ==
  IF c.rdomain = RDomainMax
  THEN Got([c EXCEPT !.rdomain = RDomainMin], Integer(RDomainMin))
  ELSE Got([c EXCEPT !.rdomain = @ + 1], Integer(c.rdomain))

\* Variant: every variable is one to be interpolated early.
IsEarlyAny(c, name) == TRUE

\* is_early_variable
IsEarly(c, name) == \E g \in ForName(c.mode, name) : "EARLY" \in g.flags

RECURSIVE Find(_, _), Interpolate(_, _, _, _)

\* The defaults of the regress grammar that are functions.
RegressDefault(c, name) ==
  CASE name = <<"rdomain">> -> TakeRDomain(c)
    [] name[1] = "targets" -> Appended(c, name, List(<<Lit("regress")>>))
    [] name[1] = "parallel" -> Find(c, <<"parallel">>)
    [] name[1] = "timeout" -> Find(c, <<"regress-timeout">>)

\* The defaults that are functions.
Default(c, name) ==
  CASE name = <<"builddir">> ->
         LET Read(path) == IF ~path.ok \/ c.running = "" THEN Got(path.cf, NoValue)
                           ELSE Appended(path.cf, name, Str(Lit(c.running)))
         IN  Read(Interpolate(c, Ref(<<"robsddir">>) \o Lit(".running"), 1, FALSE))
    [] name = <<"trace">> -> Appended(c, name, Str(IF c.trace THEN Lit("-x") ELSE <<>>))
    [] name[1] \in {"rdomain", "targets", "parallel", "timeout"} -> RegressDefault(c, name)
    [] name = <<"ncpu">> -> Appended(c, name, Integer(1))
    [] OTHER -> Appended(c, name, Str(Lit(name[1])))

\* config_find: the first variable of the name, or else the default.
Find(c, name) ==
  IF Present(c, name) THEN Got(c, c.vars[FirstOf(c, name)].val)
  ELSE LET Of(gr) ==
             IF gr = {} \/ \E g \in gr : "REQ" \in g.flags THEN Got(c, NoValue)
             ELSE IF \E g \in gr : "FUN" \in g.flags THEN Default(c, name)
             ELSE Got(c, (CHOOSE g \in gr : TRUE).def)
       IN  Of(ForName(c.mode, name))

\* What a value is printed as.
Text(val) ==
  IF val.type = "INTEGER" THEN <<<<"num", val.int>>>> ELSE FlattenSeq(val.list)

\* config_interpolate_lookup
Lookup(c, name) ==
  IF c.early /\ ~IsEarly(c, name) THEN Got(c, NoValue)
  ELSE LET Valid(r) == IF r.val.type = "INVALID" THEN Got(r.cf, NoValue) ELSE r
       IN  Valid(Find(c, name))

\* Variant: what is found is put out as it is.
InterpolateFlat(c, t, depth, ignore) == [cf |-> c, ok |-> TRUE, out |-> t]

\* interpolate, interpolate_inner at a depth, with the references that are not
\* found left alone or not (INTERPOLATE_IGNORE_LOOKUP_ERRORS).
Interpolate(c, t, depth, ignore) ==
  LET Replace(acc, part, r) ==
        IF r.val = NoValue THEN [cf |-> r.cf, ok |-> ignore, out |-> Append(acc.out, part)]
        ELSE [Interpolate(r.cf, Text(r.val), depth + 1, ignore) EXCEPT !.out = acc.out \o @]
      Put(acc, part) ==
        IF ~acc.ok THEN acc
        ELSE IF part[1] \in {"lit", "num"} THEN [acc EXCEPT !.out = Append(@, part)]
        ELSE IF part[1] = "bad" THEN [acc EXCEPT !.ok = FALSE]
        ELSE Replace(acc, part, Lookup(acc.cf, part[2]))
  IN  IF depth = DepthLimit THEN [cf |-> c, ok |-> FALSE, out |-> <<>>]
      ELSE FoldLeft(Put, [cf |-> c, ok |-> TRUE, out |-> <<>>], t)

\* config_interpolate_str, config_interpolate_file
Late(c, t) == Interpolate(c, t, 1, FALSE)

\* config_interpolate_early
Early(c, t) ==
  LET r == Interpolate([c EXCEPT !.early = TRUE], t, 1, TRUE)
  IN  [r EXCEPT !.cf.early = FALSE]

\* config_find_or_create_list, variable_value_concat
ConcatList(c, name, list) ==
  LET d == IF Present(c, name) THEN c ELSE Append1(c, name, List(<<>>))
  IN  [d EXCEPT !.vars[FirstOf(d, name)].val.list = @ \o list]
=============================================================================
