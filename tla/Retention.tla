------------------------------ MODULE Retention ------------------------------
(***************************************************************************)
(* The build directories of one mode over a few days: build_id, build_init *)
(* and the exit trap (src/util.sh, src/robsd), robsd-ls (src/robsd-ls.c,   *)
(* src/invocation.c), and robsd-clean with purge (src/robsd-clean,         *)
(* src/util.sh), run by every invocation and now and then by the operator. *)
(*                                                                         *)
(* What matters is the order of names.  Everything compares text, so .10   *)
(* comes before .9; numbers are compared digit by digit here, too.  How    *)
(* .running is locked is the matter of InvocationLock: here lock_acquire   *)
(* and lock_release are one step, and one invocation starts at a time.     *)
(***************************************************************************)
EXTENDS Integers, FiniteSets

CONSTANTS
  Invs,      \* invocations, which may start again once they have exited
  Hand,      \* the robsd-clean that the operator runs
  Days,      \* bound on the number of days
  MaxNum,    \* bound on the number that ends a name
  Past,      \* builds that exist at first
  Keep,      \* the keep option
  Crashes,   \* whether the machine may go down
  Beside     \* whether the operator runs robsd-clean beside an invocation

Cleaners == Invs \cup {Hand}

\* A name is YYYY-MM-DD.X.
Builds == (1 .. Days) \X (1 .. MaxNum)
None == <<0, 0>>

ASSUME HandAssumption == Hand \notin Invs
ASSUME SizeAssumption == Days \in Nat \ {0} /\ MaxNum \in Nat \ {0}
ASSUME PastAssumption == Past \subseteq Builds /\ IsFiniteSet(Past)
ASSUME KeepAssumption == Keep \in Nat \ {0}
ASSUME SwitchAssumption == Crashes \in BOOLEAN /\ Beside \in BOOLEAN

VARIABLES
  keep_attic, \* the keep-attic option
  today,   \* the day
  dirs,    \* the build directories in robsddir
  ran,     \* those with a row in step.csv (has_steps)
  running, \* the build named by .running
  pc,      \* where each invocation is
  dir,     \* BUILDDIR of each invocation
  new,     \* whether it was made by the invocation
  cpc,     \* where each robsd-clean is
  cn,      \* _n of purge
  todo,    \* builds that purge has still to read from its pipe
  attic,   \* builds whose name exists in the attic
  nested,  \* builds copied into an existing directory of the attic
  saved    \* history: builds of which there is a complete copy in the attic

vars == <<keep_attic, today, dirs, ran, running, pc, dir, new, cpc, cn, todo, attic,
          nested, saved>>

invVars   == <<pc, dir, new>>
cleanVars == <<cpc, cn, todo>>
atticVars == <<attic, nested, saved>>

Init ==
  /\ keep_attic \in BOOLEAN
  /\ today = 1
  /\ dirs = Past
  /\ ran = Past
  /\ running = None
  /\ pc = [i \in Invs |-> "off"]
  /\ dir = [i \in Invs |-> None]
  /\ new = [i \in Invs |-> FALSE]
  /\ cpc = [c \in Cleaners |-> "off"]
  /\ cn = [c \in Cleaners |-> 0]
  /\ todo = [c \in Cleaners |-> {}]
  /\ attic = {}
  /\ nested = {}
  /\ saved = {}

(***************************************************************************)
(* Names.                                                                  *)
(***************************************************************************)
\* The number of digits of n.
Digits(n) == IF n < 10 THEN 1 ELSE IF n < 100 THEN 2 ELSE 3

\* The text of m comes before the text of n: the longer one is cut first.
TextLess(m, n) ==
  LET longer == Digits(m) - Digits(n)
  IN  IF longer > 0 THEN m \div (10 ^ longer) < n
      ELSE m < n \div (10 ^ (-longer)) \/ (m = n \div (10 ^ (-longer)) /\ m # n)

\* directory_desc_cmp, and sort -r: b comes later in text than c.
Later(b, c) == b[1] > c[1] \/ (b[1] = c[1] /\ TextLess(c[2], b[2]))

\* The one that robsd-ls lists first.
Latest(B) == CHOOSE b \in B : \A c \in B \ {b} : Later(b, c)

\* Variant: the directories are counted.
BuildIdCount(day) == Cardinality({b \in dirs : b[1] = day}) + 1

\* build_id: one more than the last of the day's names.
BuildId(day) ==
  LET named == {b \in dirs : b[1] = day}
  IN  IF named = {} THEN 1 ELSE Latest(named)[2] + 1

(***************************************************************************)
(* Invocations.                                                            *)
(***************************************************************************)
Idle == /\ \A i \in Invs : pc[i] = "off"
        /\ \A c \in Cleaners : cpc[c] = "off"

NewDay ==
  /\ today < Days
  /\ today' = today + 1
  /\ UNCHANGED <<dirs, ran, running, invVars, cleanVars, atticVars>>

\* A new build.  find(1) of build_id descends
\* into the attic, too, and makes nothing of the path of a nested copy: no build
\* is started on the day of such a copy.
Start(i) ==
  /\ pc[i] = "off"
  /\ Beside \/ cpc[Hand] = "off"
  /\ \A j \in Invs : pc[j] \notin {"named", "inited"}
  /\ \A b \in nested : b[1] # today
  /\ BuildId(today) <= MaxNum
  /\ pc' = [pc EXCEPT ![i] = "named"]
  /\ dir' = [dir EXCEPT ![i] = <<today, BuildId(today)>>]
  /\ new' = [new EXCEPT ![i] = TRUE]
  /\ UNCHANGED <<today, dirs, ran, running, cleanVars, atticVars>>

\* robsd -r, which is not used while anything else goes on.
Resume(i) ==
  /\ Idle
  /\ \E b \in dirs \cap ran : dir' = [dir EXCEPT ![i] = b]
  /\ pc' = [pc EXCEPT ![i] = "named"]
  /\ new' = [new EXCEPT ![i] = FALSE]
  /\ UNCHANGED <<today, dirs, ran, running, cleanVars, atticVars>>

\* build_init: the directory is made unless it is there.
BuildInit(i) ==
  /\ pc[i] = "named"
  /\ pc' = [pc EXCEPT ![i] = "inited"]
  /\ dirs' = dirs \cup {dir[i]}
  /\ ran' = ran \ ({dir[i]} \ dirs)
  /\ saved' = saved \ ({dir[i]} \ dirs)
  /\ UNCHANGED <<today, running, dir, new, cleanVars, attic, nested>>

\* lock_acquire, and robsd-clean on success.
Lock(i) ==
  /\ pc[i] = "inited"
  /\ IF running \in {None, dir[i]}
     THEN running' = dir[i] /\ pc' = [pc EXCEPT ![i] = "locked"]
     ELSE pc' = [pc EXCEPT ![i] = "exiting"] /\ UNCHANGED running
  /\ UNCHANGED <<today, dirs, ran, dir, new, cleanVars, atticVars>>

\* A step is run, and recorded.
Work(i) ==
  /\ pc[i] = "working"
  /\ ran' = ran \cup {dir[i]}
  /\ saved' = saved \ {dir[i]}
  /\ UNCHANGED <<today, dirs, running, invVars, cleanVars, attic, nested>>

\* The invocation is done, or it fails; any other that was refused the lock in
\* the meantime is taken to be gone by then.
Done(i) ==
  /\ pc[i] = "working"
  /\ \A j \in Invs \ {i} : pc[j] = "off"
  /\ pc' = [pc EXCEPT ![i] = "exiting"]
  /\ UNCHANGED <<today, dirs, ran, running, dir, new, cleanVars, atticVars>>

\* trap_exit: the lock is released, an empty build is removed.
TrapExit(i) ==
  /\ pc[i] = "exiting"
  /\ pc' = [pc EXCEPT ![i] = "off"]
  /\ running' = IF running = dir[i] THEN None ELSE running
  /\ dirs' = IF dir[i] \in ran THEN dirs ELSE dirs \ {dir[i]}
  /\ dir' = [dir EXCEPT ![i] = None]
  /\ new' = [new EXCEPT ![i] = FALSE]
  /\ UNCHANGED <<today, ran, cleanVars, atticVars>>

\* The machine goes down.
Crash ==
  /\ Crashes
  /\ pc' = [i \in Invs |-> "off"]
  /\ cpc' = [c \in Cleaners |-> "off"]
  /\ dir' = [i \in Invs |-> None]
  /\ new' = [i \in Invs |-> FALSE]
  /\ cn' = [c \in Cleaners |-> 0]
  /\ todo' = [c \in Cleaners |-> {}]
  /\ UNCHANGED <<today, dirs, ran, running, atticVars>>

\* robsd-rescue: the lock of a build that was cut short is removed.
Rescue ==
  /\ Idle
  /\ running # None
  /\ running' = None
  /\ UNCHANGED <<today, dirs, ran, invVars, cleanVars, atticVars>>

(***************************************************************************)
(* robsd-clean and purge.                                                  *)
(***************************************************************************)
\* An invocation runs robsd-clean once it has the lock, the operator at any time
\* or while nothing else goes on.
MayClean(c) ==
  IF c \in Invs THEN pc[c] = "locked" ELSE Beside \/ Idle

\* Variant: purge does not make up for a build directory that is not running.
CountPlain(c) ==
  /\ cpc[c] = "off"
  /\ MayClean(c)
  /\ cn' = [cn EXCEPT ![c] = Keep]
  /\ cpc' = [cpc EXCEPT ![c] = "counted"]
  /\ UNCHANGED <<today, dirs, ran, running, invVars, todo, atticVars>>

\* purge: what to pass to tail -n, by whether there is a builddir.
Count(c) ==
  /\ cpc[c] = "off"
  /\ MayClean(c)
  /\ cn' = [cn EXCEPT ![c] = IF running = None THEN Keep + 1 ELSE Keep]
  /\ cpc' = [cpc EXCEPT ![c] = "counted"]
  /\ UNCHANGED <<today, dirs, ran, running, invVars, todo, atticVars>>

\* Variant: robsd-ls without -B.
ListedAll(n) ==
  {b \in dirs : Cardinality({d \in dirs : Later(d, b)}) >= n - 1}

\* robsd-ls -B | tail -n +n
Listed(n) ==
  LET ls == dirs \ {running}
  IN  {b \in ls : Cardinality({d \in ls : Later(d, b)}) >= n - 1}

List(c) ==
  /\ cpc[c] = "counted"
  /\ todo' = [todo EXCEPT ![c] = Listed(cn[c])]
  /\ cpc' = [cpc EXCEPT ![c] = "purging"]
  /\ cn' = [cn EXCEPT ![c] = 0]
  /\ UNCHANGED <<today, dirs, ran, running, invVars, atticVars>>

\* The build that purge is at: they come in the order of robsd-ls.
Current(c) == Latest(todo[c])

\* The end of the pipe: an invocation goes on.
CleanEnd(c) ==
  /\ cpc[c] = "purging"
  /\ todo[c] = {}
  /\ cpc' = [cpc EXCEPT ![c] = "off"]
  /\ pc' = IF c \in Invs THEN [pc EXCEPT ![c] = "working"] ELSE pc
  /\ UNCHANGED <<today, dirs, ran, running, dir, new, cn, todo, atticVars>>

At(c, p) == cpc[c] = p /\ todo[c] # {}

\* purge -d: no attic is kept.
Discard(c) ==
  /\ ~keep_attic
  /\ At(c, "purging")
  /\ dirs' = dirs \ {Current(c)}
  /\ todo' = [todo EXCEPT ![c] = @ \ {Current(c)}]
  /\ UNCHANGED <<today, ran, running, invVars, cpc, cn, atticVars>>

\* A directory is gone: a command fails, and with set -e the loop ends.
Gone(c) ==
  /\ keep_attic
  /\ \E p \in {"purging", "stripped", "copying", "copied"} : At(c, p)
  /\ Current(c) \notin dirs
  /\ todo' = [todo EXCEPT ![c] = {}]
  /\ cpc' = [cpc EXCEPT ![c] = "purging"]
  /\ UNCHANGED <<today, dirs, ran, running, invVars, cn, atticVars>>

\* purge: all but a few files are removed.
Strip(c) ==
  /\ keep_attic
  /\ At(c, "purging")
  /\ Current(c) \in dirs
  /\ cpc' = [cpc EXCEPT ![c] = "stripped"]
  /\ UNCHANGED <<today, dirs, ran, running, invVars, cn, todo, atticVars>>

\* cp -pr begins: with a directory of that name in the attic, it goes below.
CopyBegin(c) ==
  /\ At(c, "stripped")
  /\ Current(c) \in dirs
  /\ IF Current(c) \in attic
     THEN nested' = nested \cup {Current(c)} /\ UNCHANGED attic
     ELSE attic' = attic \cup {Current(c)} /\ UNCHANGED nested
  /\ cpc' = [cpc EXCEPT ![c] = "copying"]
  /\ UNCHANGED <<today, dirs, ran, running, invVars, cn, todo, saved>>

CopyEnd(c) ==
  /\ At(c, "copying")
  /\ Current(c) \in dirs
  /\ saved' = saved \cup {Current(c)}
  /\ cpc' = [cpc EXCEPT ![c] = "copied"]
  /\ UNCHANGED <<today, dirs, ran, running, invVars, cn, todo, attic, nested>>

\* Variant: a build that is in the attic already is not copied again.
RemoveEarly(c) ==
  /\ At(c, "copied") \/ (At(c, "stripped") /\ Current(c) \in attic)
  /\ Current(c) \in dirs
  /\ dirs' = dirs \ {Current(c)}
  /\ todo' = [todo EXCEPT ![c] = @ \ {Current(c)}]
  /\ cpc' = [cpc EXCEPT ![c] = "purging"]
  /\ UNCHANGED <<today, ran, running, invVars, cn, atticVars>>

\* rm -r
Remove(c) ==
  /\ At(c, "copied")
  /\ Current(c) \in dirs
  /\ dirs' = dirs \ {Current(c)}
  /\ todo' = [todo EXCEPT ![c] = @ \ {Current(c)}]
  /\ cpc' = [cpc EXCEPT ![c] = "purging"]
  /\ UNCHANGED <<today, ran, running, invVars, cn, atticVars>>

(***************************************************************************)
(* The specification.                                                      *)
(***************************************************************************)
Inv(i) ==
  Start(i) \/ Resume(i) \/ BuildInit(i) \/ Lock(i) \/ Work(i) \/ Done(i) \/ TrapExit(i)

Clean(c) ==
  \/ Count(c)
  \/ List(c)
  \/ CleanEnd(c)
  \/ Discard(c)
  \/ Gone(c)
  \/ Strip(c)
  \/ CopyBegin(c)
  \/ CopyEnd(c)
  \/ Remove(c)

Step ==
  \/ NewDay
  \/ \E i \in Invs : Inv(i)
  \/ \E c \in Cleaners : Clean(c)
  \/ Crash
  \/ Rescue

Next == Step /\ UNCHANGED keep_attic

Spec == Init /\ [][Next]_vars
-----------------------------------------------------------------------------
PCs == {"off", "named", "inited", "locked", "working", "exiting"}
CPCs == {"off", "counted", "purging", "stripped", "copying", "copied"}

\* The state is well formed; robsd-clean has something left to do only while
\* it runs, and an invocation has a build once it runs.
TypeOK ==
  /\ keep_attic \in BOOLEAN
  /\ today \in 1 .. Days
  /\ dirs \subseteq Builds
  /\ ran \subseteq Builds
  /\ running \in Builds \cup {None}
  /\ pc \in [Invs -> PCs]
  /\ dir \in [Invs -> Builds \cup {None}]
  /\ new \in [Invs -> BOOLEAN]
  /\ cpc \in [Cleaners -> CPCs]
  /\ cn \in [Cleaners -> 0 .. Keep + 1]
  /\ todo \in [Cleaners -> SUBSET Builds]
  /\ \A c \in Cleaners : todo[c] # {} => cpc[c] \notin {"off", "counted"}
  /\ \A i \in Invs : pc[i] # "off" <=> dir[i] # None
  /\ attic \subseteq Builds
  /\ nested \subseteq attic
  /\ saved \subseteq attic

\* Invocations whose build must be left alone: those with the lock, and those
\* that are going to get it, for a build of their own.
Live(i) ==
  \/ pc[i] \in {"locked", "working"}
  \/ pc[i] = "inited" /\ new[i] /\ running = None

\* robsd-clean never lays hands on the build of a live invocation, whether run by
\* that, by another or by hand.
LiveKept ==
  /\ TypeOK
  /\ \A c \in Cleaners, i \in Invs : Live(i) => dir[i] \notin todo[c]

\* "Keep the latest count number of release directories": of what robsd-clean
\* decides to remove, each is older than keep others, the running one included.
KeepsLatest ==
  [][\A c \in Cleaners :
       cpc[c] = "counted" /\ cpc'[c] = "purging" =>
         \A b \in todo'[c] :
           Cardinality({d \in dirs : Later(d, b) \/ d = running}) >= Keep]_vars

\* No build with steps is removed before a complete copy of it is in the attic,
\* over crashes in mid-copy, resumed builds and names used twice.
SavedFirst ==
  [][keep_attic => \A b \in (dirs \ dirs') \cap ran : b \in saved]_vars

\* build_id: "Generate a new build directory path."  A new build does not get
\* the directory of another.
FreshBuild ==
  [][\A i \in Invs :
       pc[i] = "named" /\ pc'[i] = "inited" /\ new[i] =>
         dir[i] \notin dirs]_vars
=============================================================================
