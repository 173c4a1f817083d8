--------------------------- MODULE StepFileProofs ---------------------------
(***************************************************************************)
(* Theorems of StepFile, for any set of processes, any columns and any     *)
(* calls: the state stays well formed, the lock covers a whole call, and   *)
(* the file implements the atomic table of StepStore.                      *)
(***************************************************************************)
EXTENDS StepFile, TLAPS

\* What a write serializes is a table again, and so is any prefix of it.
LEMMA PutIsTable ==
  ASSUME NEW tbl, IsTable(tbl), NEW id \in Ids, NEW kv,
         Writable(tbl, id, kv)
  PROVE  IsTable(Put(tbl, id, kv))
BY DEF IsTable, Put, Writable

LEMMA PrefixIsTable ==
  ASSUME NEW tbl, IsTable(tbl), NEW t \in Prefixes(tbl)
  PROVE  IsTable(t)
BY DEF IsTable, Prefixes

LEMMA NoRowsIsTable == IsTable(NoRows)
BY DEF IsTable, NoRows

\* The calls of a process that is between its parse and its write.
LEMMA WriteOp ==
  ASSUME NEW o \in Store!Ops, o.kind = "write"
  PROVE  o.id \in Ids /\ o.kv \in Keyvals
BY DEF Store!Ops

\* StepStore and StepFile each have the definitions of StepRows; they agree.
LEMMA SameRows ==
  ASSUME NEW tbl, NEW id, NEW kv
  PROVE  /\ Store!Writable(tbl, id, kv) <=> Writable(tbl, id, kv)
         /\ Store!Put(tbl, id, kv) = Put(tbl, id, kv)
BY DEF Store!Writable, Writable, Store!Put, Put, Store!WrittenRow, WrittenRow,
       Store!SetKeyvals, SetKeyvals, Store!FreshRow, FreshRow,
       Store!Rows, Rows

LEMMA SamePrefixes ==
  /\ \A tbl : Store!Prefixes(tbl) = Prefixes(tbl)
  /\ Store!NoRows = NoRows
BY DEF Store!Prefixes, Prefixes, Store!NoRows, NoRows

IInv == TypeOK /\ SnapshotCurrent

\* The table a truncated file is about to be given is well formed.
LEMMA NewTableIsTable ==
  ASSUME IInv, NEW p \in Procs, pc[p] = "truncated"
  PROVE  IsTable(NewTable(p))
<1>1. op[p] \in Store!Ops /\ op[p].kind = "write" /\ IsTable(snap[p])
  BY DEF IInv, TypeOK, SnapshotCurrent
<1>2. Writable(snap[p], op[p].id, op[p].kv)
  BY <1>1, SameRows DEF IInv, SnapshotCurrent, Store!Accepts
<1> QED
  BY <1>1, <1>2, WriteOp, PutIsTable DEF NewTable

\* The initial state is well formed and nobody holds the lock.
LEMMA InitInvariant == Init => IInv
BY NoRowsIsTable, ProcsAssumption
   DEF Init, IInv, TypeOK, SnapshotCurrent, PCs, Holding

\* Every system call preserves the invariant.
LEMMA StepInvariant == IInv /\ [Next]_vars => IInv'
<1> SUFFICES ASSUME IInv, [Next]_vars PROVE IInv'
  OBVIOUS
<1> USE ProcsAssumption, OpsAssumption
<1>1. ASSUME NEW p \in Procs, Open(p) PROVE IInv'
  BY <1>1 DEF Open, Goto, IInv, TypeOK, SnapshotCurrent, PCs, Holding
<1>2. ASSUME NEW p \in Procs, Lock(p) PROVE IInv'
  BY <1>2 DEF Lock, Goto, IInv, TypeOK, SnapshotCurrent, PCs, Holding
<1>3. ASSUME NEW p \in Procs, Parse(p) PROVE IInv'
  BY <1>3 DEF Parse, Goto, Answer, IInv, TypeOK, SnapshotCurrent, PCs, Holding
<1>4. ASSUME NEW p \in Procs, Read(p) PROVE IInv'
  BY <1>4 DEF Read, Goto, Answer, IInv, TypeOK, SnapshotCurrent, PCs, Holding
<1>5. ASSUME NEW p \in Procs, Refuse(p) PROVE IInv'
  BY <1>5 DEF Refuse, Goto, Answer, IInv, TypeOK, SnapshotCurrent, PCs, Holding
<1>6. ASSUME NEW p \in Procs, Truncate(p) PROVE IInv'
  BY <1>6, NoRowsIsTable
     DEF Truncate, Goto, IInv, TypeOK, SnapshotCurrent, PCs, Holding
<1>7. ASSUME NEW p \in Procs, Flush(p) PROVE IInv'
  <2>1. IsTable(rows')
    BY <1>7, NewTableIsTable DEF Flush
  <2> QED
    BY <1>7, <2>1
       DEF Flush, Goto, Answer, IInv, TypeOK, SnapshotCurrent, PCs, Holding
<1>8. ASSUME NEW p \in Procs, ShortWrite(p) PROVE IInv'
  <2>1. IsTable(rows') /\ bad' \in BOOLEAN
    BY <1>8, NewTableIsTable, PrefixIsTable, NoRowsIsTable
       DEF ShortWrite, IInv, TypeOK
  <2> QED
    BY <1>8, <2>1
       DEF ShortWrite, Goto, Answer, IInv, TypeOK, SnapshotCurrent, PCs, Holding
<1>9. ASSUME NEW p \in Procs, Release(p) PROVE IInv'
  BY <1>9, NoRowsIsTable
     DEF Release, Goto, Forget, IInv, TypeOK, SnapshotCurrent, PCs, Holding
<1>10. ASSUME NEW p \in Procs, Kill(p) PROVE IInv'
  BY <1>10, NoRowsIsTable
     DEF Kill, Goto, Forget, IInv, TypeOK, SnapshotCurrent, PCs, Holding
<1>11. CASE UNCHANGED vars
  BY <1>11 DEF vars, IInv, TypeOK, SnapshotCurrent
<1> QED
  BY <1>1, <1>2, <1>3, <1>4, <1>5, <1>6, <1>7, <1>8, <1>9, <1>10, <1>11
     DEF Next, Proceed

\* Well-formedness of the file, the lock and the processes: no write leaves a
\* row with a missing field or an id nobody wrote.
THEOREM TypeCorrect == Spec => []TypeOK
<1>1. Spec => []IInv
  BY InitInvariant, StepInvariant, PTL DEF Spec
<1> QED
  BY <1>1, PTL DEF IInv

\* The flock covers the read, the modification and the write of the table.
THEOREM SnapshotCorrect == Spec => []SnapshotCurrent
<1>1. Spec => []IInv
  BY InitInvariant, StepInvariant, PTL DEF Spec
<1> QED
  BY <1>1, PTL DEF IInv
-----------------------------------------------------------------------------
(***************************************************************************)
(* The refinement.  A write takes effect when the buffer reaches the file; *)
(* a read when the row is printed; every other system call is invisible.   *)
(***************************************************************************)

\* At most one process is rewriting the file, and only it may see the table.
LEMMA OneHolder ==
  ASSUME IInv, NEW p \in Procs, pc[p] \in Holding
  PROVE  \A q \in Procs \ {p} : pc[q] \notin Holding
BY DEF IInv, SnapshotCurrent

LEMMA AbsHolder ==
  ASSUME IInv, NEW p \in Procs, pc[p] \in Holding
  PROVE  AbsTable = IF pc[p] = "truncated" THEN snap[p] ELSE rows
<1>1. \A q \in Procs : pc[q] = "truncated" => q = p
  BY OneHolder DEF Holding
<1> QED
  BY <1>1 DEF AbsTable, Writer

\* A step that neither truncates nor rewrites and keeps the rows keeps the
\* table the file stands for.
LEMMA AbsKept ==
  ASSUME rows' = rows,
         \A q \in Procs : pc'[q] = "truncated" <=> pc[q] = "truncated",
         \A q \in Procs : pc[q] = "truncated" => snap'[q] = snap[q]
  PROVE  AbsTable' = AbsTable
<1>1. Writer' = Writer
  BY DEF Writer
<1>2. (\E q \in Procs : pc[q] = "truncated") =>
        /\ Writer \in Procs
        /\ pc[Writer] = "truncated"
  BY DEF Writer
<1> QED
  BY <1>1, <1>2 DEF AbsTable

LEMMA EmptyPrefix ==
  ASSUME NEW tbl, IsTable(tbl)
  PROVE  NoRows \in Prefixes(tbl)
<1>1. {i \in DOMAIN tbl : i < 0} = {}
  BY IdsAssumption DEF IsTable
<1>2. [j \in {i \in DOMAIN tbl : i < 0} |-> tbl[j]] = NoRows
  BY <1>1 DEF NoRows
<1> QED
  BY <1>2 DEF Prefixes

\* What holds while the file is empty: the old table and a legal write.
LEMMA Rewriting ==
  ASSUME IInv, NEW p \in Procs, pc[p] = "truncated"
  PROVE  /\ op[p] # NoOp
         /\ op[p].kind = "write"
         /\ ~bad
         /\ AbsTable = snap[p]
         /\ Store!Accepts(AbsTable, op[p])
         /\ NewTable(p) = Store!Put(AbsTable, op[p].id, op[p].kv)
         /\ \A q \in Procs \ {p} : pc[q] # "truncated"
<1>1. AbsTable = snap[p] /\ \A q \in Procs \ {p} : pc[q] # "truncated"
  BY AbsHolder, OneHolder DEF Holding
<1>2. op[p] # NoOp /\ op[p].kind = "write" /\ ~bad
      /\ Store!Accepts(snap[p], op[p])
  BY DEF IInv, TypeOK, SnapshotCurrent
<1> QED
  BY <1>1, <1>2, SameRows DEF NewTable

LEMMA InitRefines == Init => Store!StoreInit
BY SamePrefixes DEF Init, Store!StoreInit, AbsTable

LEMMA StepRefines ==
  IInv /\ [Next]_vars => [Store!StoreNext]_(Store!storeVars)
<1> SUFFICES ASSUME IInv, [Next]_vars
             PROVE  Store!StoreNext \/ UNCHANGED Store!storeVars
  OBVIOUS
<1>1. ASSUME NEW p \in Procs, Open(p)
      PROVE  \E o \in Store!Ops : Store!StoreCall(p, o)
  <2>1. AbsTable' = AbsTable
    BY <1>1, AbsKept DEF Open, Goto, IInv, TypeOK
  <2> QED
    BY <1>1, <2>1 DEF Open, Store!StoreCall, IInv, TypeOK
<1>2. ASSUME NEW p \in Procs, Lock(p) PROVE UNCHANGED Store!storeVars
  <2>1. AbsTable' = AbsTable
    BY <1>2, AbsKept DEF Lock, Goto, IInv, TypeOK
  <2> QED
    BY <1>2, <2>1 DEF Lock, Store!storeVars
<1>3. ASSUME NEW p \in Procs, Parse(p)
      PROVE  Store!StoreRefuse(p) \/ UNCHANGED Store!storeVars
  <2>1. AbsTable' = AbsTable
    BY <1>3, AbsKept DEF Parse, Goto, Answer, IInv, TypeOK
  <2> QED
    BY <1>3, <2>1
       DEF Parse, Answer, Store!storeVars, Store!StoreRefuse, Store!Finish,
           IInv, TypeOK
<1>4. ASSUME NEW p \in Procs, Read(p) PROVE Store!StoreRead(p)
  <2>1. AbsTable' = AbsTable
    BY <1>4, AbsKept DEF Read, Goto, Answer, IInv, TypeOK
  <2>2. AbsTable = snap[p] /\ ~bad /\ op[p] # NoOp
    BY <1>4, AbsHolder DEF Read, Holding, IInv, TypeOK, SnapshotCurrent
  <2> QED
    BY <1>4, <2>1, <2>2 DEF Read, Answer, Store!StoreRead, Store!Finish
<1>5. ASSUME NEW p \in Procs, Refuse(p) PROVE Store!StoreRefuse(p)
  <2>1. AbsTable' = AbsTable
    BY <1>5, AbsKept DEF Refuse, Goto, Answer, IInv, TypeOK
  <2>2. AbsTable = snap[p] /\ op[p] # NoOp
    BY <1>5, AbsHolder DEF Refuse, Holding, IInv, TypeOK, SnapshotCurrent
  <2> QED
    BY <1>5, <2>1, <2>2 DEF Refuse, Answer, Store!StoreRefuse, Store!Finish
<1>6. ASSUME NEW p \in Procs, Truncate(p) PROVE UNCHANGED Store!storeVars
  <2>1. /\ AbsTable = snap[p]
        /\ \A q \in Procs \ {p} : pc[q] # "truncated"
    BY <1>6, AbsHolder, OneHolder
       DEF Truncate, Holding, IInv, SnapshotCurrent
  <2>2. \A q \in Procs : pc'[q] = "truncated" <=> q = p
    BY <1>6, <2>1 DEF Truncate, Goto, IInv, TypeOK
  <2>3. AbsTable' = snap'[p]
    BY <2>2 DEF AbsTable, Writer
  <2> QED
    BY <1>6, <2>1, <2>3 DEF Truncate, Store!storeVars
<1>7. ASSUME NEW p \in Procs, Flush(p) PROVE Store!StoreWrite(p)
  <2>1. pc[p] = "truncated"
    BY <1>7 DEF Flush
  <2>2. \A q \in Procs : pc'[q] # "truncated"
    BY <1>7, <2>1, Rewriting DEF Flush, Answer, Goto, IInv, TypeOK
  <2>3. AbsTable' = NewTable(p)
    BY <1>7, <2>2 DEF Flush, AbsTable
  <2> QED
    BY <1>7, <2>1, <2>3, Rewriting
       DEF Flush, Answer, Store!StoreWrite, Store!Finish
<1>8. ASSUME NEW p \in Procs, ShortWrite(p) PROVE Store!StoreLose(p)
  <2>1. pc[p] = "truncated"
    BY <1>8 DEF ShortWrite
  <2>2. \A q \in Procs : pc'[q] # "truncated"
    BY <1>8, <2>1, Rewriting DEF ShortWrite, Answer, Goto, IInv, TypeOK
  <2>3. AbsTable' = rows'
    BY <2>2 DEF AbsTable
  <2>4. \/ AbsTable' \in Store!Prefixes(NewTable(p)) /\ UNCHANGED bad
        \/ AbsTable' = Store!NoRows /\ bad' = TRUE
    BY <1>8, <2>3, SamePrefixes DEF ShortWrite
  <2>5. \E a \in {NoRet, Ok, Error} : Store!Finish(p, a)
    BY <1>8 DEF ShortWrite, Answer, Store!Finish
  <2> QED
    BY <1>8, <2>1, <2>4, <2>5, Rewriting DEF ShortWrite, Store!StoreLose
<1>9. ASSUME NEW p \in Procs, Release(p) PROVE UNCHANGED Store!storeVars
  <2>1. AbsTable' = AbsTable
    BY <1>9, AbsKept DEF Release, Goto, Forget, IInv, TypeOK
  <2> QED
    BY <1>9, <2>1 DEF Release, Store!storeVars
<1>10. ASSUME NEW p \in Procs, Kill(p)
       PROVE  \/ Store!StoreForget(p)
              \/ Store!StoreLose(p)
              \/ UNCHANGED Store!storeVars
  <2>1. CASE pc[p] = "truncated"
    <3>1. \A q \in Procs : pc'[q] # "truncated"
      BY <1>10, <2>1, Rewriting DEF Kill, Goto, IInv, TypeOK
    <3>2. AbsTable' = NoRows
      BY <1>10, <2>1, <3>1 DEF Kill, AbsTable, IInv, SnapshotCurrent
    <3>3. AbsTable' \in Store!Prefixes(NewTable(p))
      BY <2>1, <3>2, NewTableIsTable, EmptyPrefix, SamePrefixes
    <3>4. Store!Finish(p, NoRet)
      BY <1>10, <2>1 DEF Kill, Store!Finish
    <3> QED
      BY <1>10, <2>1, <3>3, <3>4, Rewriting DEF Kill, Store!StoreLose
  <2>2. CASE pc[p] # "truncated"
    <3>1. AbsTable' = AbsTable
      BY <1>10, <2>2, AbsKept DEF Kill, Goto, Forget, IInv, TypeOK
    <3>2. CASE pc[p] = "finished"
      <4>1. op' = op /\ ret' = ret
        BY <1>10, <3>2 DEF Kill, IInv, TypeOK
      <4> QED
        BY <1>10, <3>1, <4>1 DEF Kill, Store!storeVars
    <3>3. CASE pc[p] # "finished"
      <4>1. op[p] # NoOp
        BY <1>10, <3>3, OpsAssumption DEF Kill, IInv, TypeOK
      <4> QED
        BY <1>10, <3>1, <3>3, <4>1 DEF Kill, Store!StoreForget, Store!Finish
    <3> QED
      BY <3>2, <3>3
  <2> QED
    BY <2>1, <2>2
<1>11. CASE UNCHANGED vars
  BY <1>11 DEF vars, Store!storeVars, AbsTable, Writer
<1>12. ASSUME NEW p \in Procs,
              Open(p) \/ Lock(p) \/ Proceed(p) \/ ShortWrite(p) \/ Kill(p)
       PROVE  Store!StoreNext \/ UNCHANGED Store!storeVars
  BY <1>1, <1>2, <1>3, <1>4, <1>5, <1>6, <1>7, <1>8, <1>9, <1>10, <1>12
     DEF Proceed, Store!StoreNext
<1> QED
  BY <1>11, <1>12 DEF Next

\* robsd-step calls are atomic: whatever the processes interleave, step.csv
\* behaves as a table written and read one row at a time, except for the
\* losses a dying or starved writer may cause.
THEOREM FileImplementsStore == Spec => Implements
<1>1. Spec => []IInv
  BY InitInvariant, StepInvariant, PTL DEF Spec
<1> QED
  BY <1>1, InitRefines, StepRefines, PTL
     DEF Spec, Implements, Store!StoreSpec
=============================================================================
