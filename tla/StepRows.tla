------------------------------ MODULE StepRows ------------------------------
(***************************************************************************)
(* The table kept in step.csv (src/step.c), as a value: one row for each   *)
(* step id, every row a function from field names to values.               *)
(*                                                                         *)
(* A field's text is an opaque value here.  The order of the rows in the   *)
(* file is the order of their ids, because steps_write sorts before it     *)
(* writes; the position of a row is therefore a function of the ids alone. *)
(***************************************************************************)
EXTENDS Integers, FiniteSets

CONSTANTS
  Ids,        \* step ids that are written, a finite set of positive integers
  Fields,     \* the columns of the table (the array fields[])
  Mandatory,  \* the columns without the OPTIONAL flag
  Values,     \* what a field may hold
  Default,    \* the default of an OPTIONAL column
  Unset       \* a field never given a value (sf_type UNKNOWN)

ASSUME IdsAssumption ==
  /\ Ids \subseteq Nat \ {0}
  /\ IsFiniteSet(Ids)
ASSUME FieldsAssumption ==
  /\ Mandatory \subseteq Fields
  /\ "name" \in Mandatory
  /\ Default \in Values
  /\ Unset \notin Values

Rows == [Fields -> Values]

IsTable(table) ==
  /\ DOMAIN table \subseteq Ids
  /\ table \in [DOMAIN table -> Rows]

NoRows == [id \in {} |-> Unset]

\* step_init: OPTIONAL fields take their default, the others stay UNKNOWN.
FreshRow == [f \in Fields |-> IF f \in Mandatory THEN Unset ELSE Default]

\* The key=val arguments of robsd-step -W, applied to one row.
SetKeyvals(row, kv) ==
  [f \in Fields |-> IF f \in DOMAIN kv THEN kv[f] ELSE row[f]]

\* The row that robsd-step -W -i id serializes: the existing one if the id is
\* present (steps_find_by_id), else a new one.
WrittenRow(table, id, kv) ==
  SetKeyvals(IF id \in DOMAIN table THEN table[id] ELSE FreshRow, kv)

\* step_set_keyval accepts known keys only; step_serialize fails on a field
\* that is still UNKNOWN.  Either failure precedes the opening of the file.
Writable(table, id, kv) ==
  /\ DOMAIN kv \subseteq Fields
  /\ WrittenRow(table, id, kv) \in Rows

\* The table after a write: every other row is kept as it was parsed.
Put(table, id, kv) ==
  [j \in DOMAIN table \cup {id} |->
     IF j = id THEN WrittenRow(table, id, kv) ELSE table[j]]

\* The tables that remain when only a prefix of the rows reached the file.
Prefixes(table) ==
  {[j \in {i \in DOMAIN table : i < cut} |-> table[j]] :
     cut \in DOMAIN table \cup {0}}

\* The ids in file order: the id of the n-th row, counted from 1.
NthId(table, n) ==
  CHOOSE id \in DOMAIN table :
    Cardinality({j \in DOMAIN table : j < id}) = n - 1

\* robsd-step -R -i n: the n-th row of the file, or the -n-th from its end.
Selects(table, n) ==
  LET len == Cardinality(DOMAIN table) IN
  IF n > 0 THEN n <= len ELSE n < 0 /\ -n <= len

SelectedId(table, n) ==
  NthId(table, IF n > 0 THEN n ELSE Cardinality(DOMAIN table) + n + 1)

\* robsd-step -R -n name: the first row with that name.
Named(table, name) == {id \in DOMAIN table : table[id]["name"] = name}

FoundId(table, name) ==
  CHOOSE id \in Named(table, name) : \A j \in Named(table, name) : id <= j
=============================================================================
