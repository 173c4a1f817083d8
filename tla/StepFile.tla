------------------------------ MODULE StepFile ------------------------------
(***************************************************************************)
(* The robsd-step processes of one build directory and step.csv            *)
(* (src/robsd-step.c, src/step.c).  A call opens the file, takes an        *)
(* exclusive flock, parses the whole table, and either prints a row or     *)
(* truncates the file and writes the table back; the lock is held from     *)
(* before the parse until after the write.                                 *)
(*                                                                         *)
(* Each action is one system call that another process can observe.  A     *)
(* process may be killed at any point; the kernel then drops its lock.     *)
(***************************************************************************)
EXTENDS StepRows

CONSTANTS
  Procs, Keyvals, Names, Indices, Faults, NoOp, NoRet, Ok, Error,
  Free     \* the flock is held by nobody

VARIABLES
  rows,    \* the rows in the file
  bad,     \* whether the file does not parse
  flock,   \* the process that holds the flock, or Free
  pc,      \* where each process is in its call
  op,      \* the arguments of the call of each process
  ret,     \* the answer of the latest call of each process
  snap     \* sf->steps as parsed by each process

vars == <<rows, bad, flock, pc, op, ret, snap>>

Writer == CHOOSE p \in Procs : pc[p] = "truncated"

\* What the file stands for: while it is being rewritten, its old contents.
AbsTable == IF \E p \in Procs : pc[p] = "truncated" THEN snap[Writer] ELSE rows

Store == INSTANCE StepStore WITH table <- AbsTable, torn <- bad

ASSUME ProcsAssumption == Free \notin Procs
ASSUME OpsAssumption == NoOp \notin Store!Ops

Init ==
  /\ rows = NoRows
  /\ bad = FALSE
  /\ flock = Free
  /\ pc = [p \in Procs |-> "idle"]
  /\ op = [p \in Procs |-> NoOp]
  /\ ret = [p \in Procs |-> NoRet]
  /\ snap = [p \in Procs |-> NoRows]

Goto(p, l) == pc' = [pc EXCEPT ![p] = l]

\* The answer is known; the lock is yet to be released.
Answer(p, a) ==
  /\ op' = [op EXCEPT ![p] = NoOp]
  /\ ret' = [ret EXCEPT ![p] = a]
  /\ Goto(p, "finished")

\* The parsed rows go with the process that parsed them.
Forget(p) == snap' = [snap EXCEPT ![p] = NoRows]

\* main: a process starts and opens the file (it exists: build_init made it).
Open(p) ==
  /\ pc[p] = "idle"
  /\ \E o \in Store!Ops : op' = [op EXCEPT ![p] = o]
  /\ ret' = [ret EXCEPT ![p] = NoRet]
  /\ Goto(p, "opened")
  /\ UNCHANGED <<rows, bad, flock, snap>>

\* Variant: a shared lock is taken.
LockShared(p) ==
  /\ pc[p] = "opened"
  /\ flock' = p
  /\ Goto(p, "locked")
  /\ UNCHANGED <<rows, bad, op, ret, snap>>

\* steps_parse: flock(LOCK_EX) returns.
Lock(p) ==
  /\ pc[p] = "opened"
  /\ flock = Free
  /\ flock' = p
  /\ Goto(p, "locked")
  /\ UNCHANGED <<rows, bad, op, ret, snap>>

\* steps_parse: the header and every row are read, or the parser gives up.
Parse(p) ==
  /\ pc[p] = "locked"
  /\ \/ /\ ~bad
        /\ snap' = [snap EXCEPT ![p] = rows]
        /\ Goto(p, "parsed")
        /\ UNCHANGED <<op, ret>>
     \/ /\ bad
        /\ Answer(p, Error)
        /\ UNCHANGED snap
  /\ UNCHANGED <<rows, bad, flock>>

\* steps_read: a row is printed.
Read(p) ==
  /\ pc[p] = "parsed"
  /\ op[p].kind # "write"
  /\ Store!Accepts(snap[p], op[p])
  /\ Answer(p, Store!ReadAnswer(snap[p], op[p]))
  /\ UNCHANGED <<rows, bad, flock, snap>>

\* steps_read: no such row; action_write: a key is unknown or a field missing.
Refuse(p) ==
  /\ pc[p] = "parsed"
  /\ ~Store!Accepts(snap[p], op[p])
  /\ Answer(p, Error)
  /\ UNCHANGED <<rows, bad, flock, snap>>

\* Variant: the lock is of the fcntl(2) kind and gone with the second open.
TruncateUnlocks(p) ==
  /\ pc[p] = "parsed"
  /\ op[p].kind = "write"
  /\ Store!Accepts(snap[p], op[p])
  /\ rows' = NoRows
  /\ flock' = Free
  /\ Goto(p, "truncated")
  /\ UNCHANGED <<bad, op, ret, snap>>

\* steps_write: fopen(path, "we"), with the new contents serialized in memory.
Truncate(p) ==
  /\ pc[p] = "parsed"
  /\ op[p].kind = "write"
  /\ Store!Accepts(snap[p], op[p])
  /\ rows' = NoRows
  /\ Goto(p, "truncated")
  /\ UNCHANGED <<bad, flock, op, ret, snap>>

NewTable(p) == Put(snap[p], op[p].id, op[p].kv)

\* steps_write: fwrite and fclose put the whole buffer in the file.
Flush(p) ==
  /\ pc[p] = "truncated"
  /\ rows' = NewTable(p)
  /\ Answer(p, Ok)
  /\ UNCHANGED <<bad, flock, snap>>

\* steps_write: the file system takes less than the buffer.  fwrite reports
\* that only when the buffer outgrows stdio's; the result of fclose is unused.
ShortWrite(p) ==
  /\ Faults
  /\ pc[p] = "truncated"
  /\ \/ rows' \in Prefixes(NewTable(p)) /\ UNCHANGED bad
     \/ rows' = NoRows /\ bad' = TRUE
  /\ \E a \in {Ok, Error} : Answer(p, a)
  /\ UNCHANGED <<flock, snap>>

\* Variant: the descriptor outlives the process, inherited by a child.
ReleaseLeaks(p) ==
  /\ pc[p] = "finished"
  /\ Forget(p)
  /\ Goto(p, "idle")
  /\ UNCHANGED <<rows, bad, flock, op, ret>>

\* steps_free: flock(LOCK_UN), and the process exits.
Release(p) ==
  /\ pc[p] = "finished"
  /\ flock' = Free
  /\ Forget(p)
  /\ Goto(p, "idle")
  /\ UNCHANGED <<rows, bad, op, ret>>

\* The process is killed.  In the midst of a write it takes the old contents
\* of the file with it, which needs Faults.
Kill(p) ==
  /\ pc[p] # "idle"
  /\ pc[p] = "truncated" => Faults
  /\ flock' = IF flock = p THEN Free ELSE flock
  /\ op' = [op EXCEPT ![p] = NoOp]
  /\ ret' = [ret EXCEPT ![p] = IF pc[p] = "finished" THEN @ ELSE NoRet]
  /\ Forget(p)
  /\ Goto(p, "idle")
  /\ UNCHANGED <<rows, bad>>

\* The steps of a call once it has started, the wait for the lock excepted.
Proceed(p) ==
  Parse(p) \/ Read(p) \/ Refuse(p) \/ Truncate(p) \/ Flush(p) \/ Release(p)

Next ==
  \E p \in Procs :
    Open(p) \/ Lock(p) \/ Proceed(p) \/ ShortWrite(p) \/ Kill(p)

\* The scheduler runs a process that can run.
Fairness == \A p \in Procs : WF_vars(Proceed(p))

Spec == Init /\ [][Next]_vars /\ Fairness
-----------------------------------------------------------------------------
PCs == {"idle", "opened", "locked", "parsed", "truncated", "finished"}
Holding == {"locked", "parsed", "truncated", "finished"}

\* The state is well formed; a call is in progress outside "idle" and
\* "finished" only.
TypeOK ==
  /\ IsTable(rows)
  /\ bad \in BOOLEAN
  /\ flock \in Procs \cup {Free}
  /\ pc \in [Procs -> PCs]
  /\ op \in [Procs -> Store!Ops \cup {NoOp}]
  /\ ret = [p \in Procs |-> ret[p]]
  /\ snap = [p \in Procs |-> snap[p]]
  /\ \A p \in Procs : IsTable(snap[p])
  /\ \A p \in Procs : op[p] = NoOp <=> pc[p] \in {"idle", "finished"}

\* A process between its parse and its answer works on the table that is in
\* the file, and between the truncation and the write the file is empty and
\* no other process has looked at it: the lock covers the read, the
\* modification and the write of the table.
SnapshotCurrent ==
  \A p \in Procs :
    /\ pc[p] \in Holding <=> flock = p
    /\ pc[p] = "parsed" => ~bad /\ snap[p] = rows
    /\ pc[p] = "truncated" =>
         /\ ~bad
         /\ rows = NoRows
         /\ op[p].kind = "write"
         /\ Store!Accepts(snap[p], op[p])

\* robsd-step implements the atomic table: every interleaving of opens, locks,
\* parses, truncations, writes and kills is a sequence of whole calls.
Implements == Store!StoreSpec

\* No process keeps the lock for ever, whatever becomes of the others.
LockFreed == \A p \in Procs : flock = p ~> flock # p

=============================================================================
