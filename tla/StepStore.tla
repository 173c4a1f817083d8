----------------------------- MODULE StepStore -----------------------------
(***************************************************************************)
(* What the scripts expect of robsd-step: a table written and read one row *)
(* at a time, each call taking effect at one instant.  StepFile is the     *)
(* detailed specification, where a call is a sequence of system calls.     *)
(***************************************************************************)
EXTENDS StepRows

CONSTANTS
  Procs,   \* the robsd-step processes
  Keyvals, \* the key=val lists given to -W
  Names,   \* the arguments given to -R -n
  Indices, \* the arguments given to -R -i
  Faults,  \* whether a writer may die or run out of space in mid-write
  NoOp,    \* no call in progress
  NoRet,   \* no answer yet
  Ok,      \* the exit status 0 of a write
  Error    \* any other exit status

VARIABLES
  table,   \* the rows
  torn,    \* whether the file no longer parses
  op,      \* the call each process has made and not yet had answered
  ret      \* the answer to the latest call of each process

storeVars == <<table, torn, op, ret>>

Ops ==
  [kind : {"write"}, id : Ids, kv : Keyvals]
    \cup [kind : {"index"}, n : Indices]
    \cup [kind : {"name"}, name : Names]

\* Whether the program carries the call out on a table that parses.
Accepts(tbl, o) ==
  CASE o.kind = "write" -> Writable(tbl, o.id, o.kv)
    [] o.kind = "index" -> Selects(tbl, o.n)
    [] o.kind = "name"  -> Named(tbl, o.name) # {}

\* The row a read that is carried out prints, named by its id.
ReadAnswer(tbl, o) ==
  IF o.kind = "index" THEN SelectedId(tbl, o.n) ELSE FoundId(tbl, o.name)

Finish(p, a) ==
  /\ op' = [op EXCEPT ![p] = NoOp]
  /\ ret' = [ret EXCEPT ![p] = a]

StoreInit ==
  /\ table = NoRows
  /\ torn = FALSE
  /\ op = [p \in Procs |-> NoOp]
  /\ ret = [p \in Procs |-> NoRet]

StoreCall(p, o) ==
  /\ op[p] = NoOp
  /\ op' = [op EXCEPT ![p] = o]
  /\ ret' = [ret EXCEPT ![p] = NoRet]
  /\ UNCHANGED <<table, torn>>

\* A write replaces one row, keeps the others, and is acknowledged.
StoreWrite(p) ==
  /\ op[p] # NoOp
  /\ op[p].kind = "write"
  /\ ~torn
  /\ Accepts(table, op[p])
  /\ table' = Put(table, op[p].id, op[p].kv)
  /\ Finish(p, Ok)
  /\ UNCHANGED torn

\* A read answers with the row that the table holds at that instant.
StoreRead(p) ==
  /\ op[p] # NoOp
  /\ op[p].kind # "write"
  /\ ~torn
  /\ Accepts(table, op[p])
  /\ Finish(p, ReadAnswer(table, op[p]))
  /\ UNCHANGED <<table, torn>>

\* A call that cannot be carried out is refused and leaves no trace.
StoreRefuse(p) ==
  /\ op[p] # NoOp
  /\ torn \/ ~Accepts(table, op[p])
  /\ Finish(p, Error)
  /\ UNCHANGED <<table, torn>>

\* A process is killed before its call takes effect.
StoreForget(p) ==
  /\ op[p] # NoOp
  /\ Finish(p, NoRet)
  /\ UNCHANGED <<table, torn>>

\* A writer dies, or the disk fills up, once the old contents are gone: what
\* is left is a prefix of the new table or a file that does not parse.
StoreLose(p) ==
  /\ Faults
  /\ op[p] # NoOp
  /\ op[p].kind = "write"
  /\ ~torn
  /\ Accepts(table, op[p])
  /\ \/ /\ table' \in Prefixes(Put(table, op[p].id, op[p].kv))
        /\ UNCHANGED torn
     \/ /\ table' = NoRows
        /\ torn' = TRUE
  /\ \E a \in {NoRet, Ok, Error} : Finish(p, a)

StoreNext ==
  \E p \in Procs :
    \/ \E o \in Ops : StoreCall(p, o)
    \/ StoreWrite(p)
    \/ StoreRead(p)
    \/ StoreRefuse(p)
    \/ StoreForget(p)
    \/ StoreLose(p)

StoreSpec == StoreInit /\ [][StoreNext]_storeVars
=============================================================================
