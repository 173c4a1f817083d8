-------------------------- MODULE RetentionProofs ---------------------------
(***************************************************************************)
(* Theorems of Retention, for any number of invocations, days and builds   *)
(* to keep, crashes or not: while the operator runs robsd-clean by itself  *)
(* and there are no more than nine builds a day, robsd-clean keeps away    *)
(* from live builds, keeps as many as it should and saves what it removes. *)
(***************************************************************************)
EXTENDS Retention, NatFacts, FiniteSetTheorems

\* The text of a number of one digit is in the order of the numbers; the tenth
\* build of a day comes before the second in text.
Orderly == ~Beside /\ MaxNum <= 9

(***************************************************************************)
(* Names.                                                                  *)
(***************************************************************************)
LEMMA LaterIsGreater ==
  ASSUME Orderly, NEW b \in Builds, NEW c \in Builds
  PROVE  Later(b, c) <=> b[1] > c[1] \/ (b[1] = c[1] /\ b[2] > c[2])
<1>1. b[2] \in 1 .. 9 /\ c[2] \in 1 .. 9
  BY SizeAssumption DEF Orderly, Builds
<1>2. \A m, n \in 1 .. 9 : TextLess(m, n) <=> m < n
  <2> SUFFICES ASSUME NEW m \in 1 .. 9, NEW n \in 1 .. 9
               PROVE  TextLess(m, n) <=> m < n
    OBVIOUS
  <2> DEFINE longer == Digits(m) - Digits(n)
  <2>1. longer \in Int /\ longer = 0
    BY DEF Digits
  <2> HIDE DEF longer
  <2>2. n \div (10 ^ (-longer)) = n
    BY <2>1
  <2> QED
    BY <2>1, <2>2 DEF TextLess, longer
<1> QED
  BY <1>1, <1>2 DEF Later

\* What robsd-ls lists first is one of those it lists, and no other comes
\* before it.
LEMMA LatestIsLatest ==
  ASSUME Orderly, NEW B \in SUBSET Builds, B # {}
  PROVE  Latest(B) \in B /\ \A c \in B \ {Latest(B)} : Later(Latest(B), c)
<1> DEFINE Rank(b) == (10 * Days + 9) - (10 * b[1] + b[2])
           Ranks   == {Rank(b) : b \in B}
<1>1. \A b \in Builds : b[1] \in 1 .. Days /\ b[2] \in 1 .. 9 /\ b = <<b[1], b[2]>>
  BY SizeAssumption DEF Builds, Orderly
<1>2. \A b \in Builds : Rank(b) \in Nat
  BY <1>1, SizeAssumption
<1>3. PICK m \in Ranks : \A n \in Ranks : m <= n
  <2>1. Ranks \in SUBSET Nat /\ Ranks # {}
    BY <1>2
  <2> QED
    BY <2>1, LeastElement
<1>4. PICK b \in B : m = Rank(b)
  BY <1>3
<1>5. ASSUME NEW c \in B \ {b} PROVE Later(b, c)
  <2>1. Rank(b) <= Rank(c)
    BY <1>3, <1>4
  <2>2. b[1] > c[1] \/ (b[1] = c[1] /\ b[2] > c[2])
    BY <1>1, <2>1, SizeAssumption
  <2> QED
    BY <2>2, LaterIsGreater
<1>6. \E x \in B : \A c \in B \ {x} : Later(x, c)
  BY <1>5
<1> QED
  BY <1>6 DEF Latest

\* build_id finds a number that is not in use today.
LEMMA BuildIdIsFresh ==
  ASSUME Orderly, dirs \subseteq Builds, NEW day \in 1 .. Days, BuildId(day) <= MaxNum
  PROVE  <<day, BuildId(day)>> \in Builds \ dirs
<1> DEFINE named == {b \in dirs : b[1] = day}
<1>1. CASE named = {}
  BY <1>1, SizeAssumption DEF BuildId, Builds
<1>2. CASE named # {}
  <2>1. named \in SUBSET Builds
    OBVIOUS
  <2>2. /\ Latest(named) \in named
        /\ \A c \in named \ {Latest(named)} : Later(Latest(named), c)
    BY <1>2, <2>1, LatestIsLatest
  <2>3. BuildId(day) = Latest(named)[2] + 1
    BY <1>2 DEF BuildId
  <2>4. \A b \in Builds : b[1] \in 1 .. Days /\ b[2] \in 1 .. MaxNum
    BY DEF Builds
  <2>5. BuildId(day) \in 1 .. MaxNum
    BY <2>1, <2>2, <2>3, <2>4, SizeAssumption
  <2>6. ASSUME <<day, BuildId(day)>> \in dirs PROVE FALSE
    <3>1. <<day, BuildId(day)>> \in named \ {Latest(named)}
      BY <2>2, <2>3, <2>4, <2>6
    <3>2. Later(Latest(named), <<day, BuildId(day)>>)
      BY <2>2, <3>1
    <3> QED
      BY <2>1, <2>2, <2>3, <2>4, <3>1, <3>2, LaterIsGreater
  <2> QED
    BY <2>5, <2>6 DEF Builds
<1> QED
  BY <1>1, <1>2
-----------------------------------------------------------------------------
(***************************************************************************)
(* The inductive invariant.                                                *)
(***************************************************************************)
Busy(i) == pc[i] \in {"locked", "working"}
NobodyBusy == \A i \in Invs : ~Busy(i)

\* At most one invocation is between build_id and lock_acquire.
OneStarter ==
  \A i, j \in Invs : pc[i] \in {"named", "inited"} /\ pc[j] \in {"named", "inited"} => i = j

\* The lock names the build that is worked on, and that build exists.
BusyNamed == \A i \in Invs : Busy(i) => running = dir[i]
RunningKept == running # None => running \in dirs

\* robsd-clean is run by the owner of the lock, or by hand when nobody is there.
CleanerKnown ==
  \A c \in Cleaners : cpc[c] # "off" =>
    IF c \in Invs THEN pc[c] = "locked" ELSE \A i \in Invs : pc[i] = "off"

\* What robsd-clean has to do does not include the owner of the lock.
Spared == \A c \in Cleaners : running \notin todo[c]

\* The owner shares its build with no other.  The others may share one: of those
\* that were refused the lock one may get the name of another that was purged.
OwnerApart ==
  \A i, j \in Invs : Busy(i) /\ pc[j] # "off" /\ dir[i] = dir[j] => i = j

\* As long as nobody has the lock there is no robsd-clean to remove a build, so
\* those that came later have a build of their own.
AllApart ==
  NobodyBusy =>
    /\ \A i, j \in Invs : pc[i] # "off" /\ pc[j] # "off" /\ dir[i] = dir[j] => i = j
    /\ \A i \in Invs : pc[i] \notin {"off", "named"} => dir[i] \in dirs

NewUnmade == \A i \in Invs : pc[i] = "named" /\ new[i] => dir[i] \notin dirs

\* What purge has made out of builddir is true until it asks robsd-ls.
CountTrue ==
  \A c \in Cleaners :
    cpc[c] = "counted" => cn[c] = IF running = None THEN Keep + 1 ELSE Keep

\* The build that purge is at is in the attic, and all of it once it is copied,
\* unless it is one that was made anew.
CopyInAttic ==
  \A c \in Cleaners : cpc[c] = "copying" /\ todo[c] # {} => Current(c) \in attic
CopySaved ==
  \A c \in Cleaners :
    cpc[c] = "copied" /\ todo[c] # {} => Current(c) \in saved \/ Current(c) \notin ran

IInv ==
  /\ TypeOK
  /\ OneStarter
  /\ BusyNamed
  /\ RunningKept
  /\ CleanerKnown
  /\ Spared
  /\ OwnerApart
  /\ AllApart
  /\ NewUnmade
  /\ CountTrue
  /\ CopyInAttic
  /\ CopySaved
-----------------------------------------------------------------------------
LEMMA NoneIsNoBuild == None \notin Builds
BY SizeAssumption DEF None, Builds

LEMMA CurrentIsTodo ==
  ASSUME Orderly, TypeOK
  PROVE  \A c \in Cleaners : todo[c] # {} => Current(c) \in todo[c] /\ Current(c) \in Builds
<1> SUFFICES ASSUME NEW c \in Cleaners, todo[c] # {}
             PROVE  Current(c) \in todo[c] /\ Current(c) \in Builds
  OBVIOUS
<1>1. todo[c] \in SUBSET Builds
  BY DEF TypeOK
<1> QED
  BY <1>1, LatestIsLatest DEF Current

LEMMA InitInvariant == Init => IInv
BY NoneIsNoBuild, SizeAssumption, PastAssumption, KeepAssumption
   DEF Init, IInv, TypeOK, PCs, CPCs, Cleaners, Busy, NobodyBusy, OneStarter, BusyNamed,
       RunningKept, CleanerKnown, Spared, OwnerApart, AllApart, NewUnmade, CountTrue,
       CopyInAttic, CopySaved

USE DEF invVars, cleanVars, atticVars

LEMMA TypeStep == ASSUME Orderly, IInv, [Next]_vars PROVE TypeOK'
<1> USE NoneIsNoBuild, SizeAssumption, KeepAssumption, HandAssumption, CurrentIsTodo
    DEF IInv, TypeOK, PCs, CPCs, Cleaners
<1>1. CASE NewDay /\ UNCHANGED keep_attic
  BY <1>1 DEF NewDay
<1>2. ASSUME NEW i \in Invs, Start(i), UNCHANGED keep_attic PROVE TypeOK'
  <2>1. <<today, BuildId(today)>> \in Builds
    BY <1>2, BuildIdIsFresh DEF Start
  <2> QED
    BY <1>2, <2>1 DEF Start
<1>3. ASSUME NEW i \in Invs, Resume(i), UNCHANGED keep_attic PROVE TypeOK'
  BY <1>3 DEF Resume, Idle
<1>4. ASSUME NEW i \in Invs, BuildInit(i), UNCHANGED keep_attic PROVE TypeOK'
  BY <1>4 DEF BuildInit
<1>5. ASSUME NEW i \in Invs, Lock(i), UNCHANGED keep_attic PROVE TypeOK'
  BY <1>5 DEF Lock
<1>6. ASSUME NEW i \in Invs, Work(i), UNCHANGED keep_attic PROVE TypeOK'
  BY <1>6 DEF Work
<1>7. ASSUME NEW i \in Invs, Done(i), UNCHANGED keep_attic PROVE TypeOK'
  BY <1>7 DEF Done
<1>8. ASSUME NEW i \in Invs, TrapExit(i), UNCHANGED keep_attic PROVE TypeOK'
  BY <1>8 DEF TrapExit
<1>9. CASE (Crash \/ Rescue) /\ UNCHANGED keep_attic
  <2>1. CASE Crash
    BY <1>9, <2>1 DEF Crash
  <2>2. CASE Rescue
    BY <1>9, <2>2 DEF Rescue
  <2> QED
    BY <1>9, <2>1, <2>2
<1>10. ASSUME NEW c \in Cleaners, Count(c), UNCHANGED keep_attic PROVE TypeOK'
  BY <1>10 DEF Count
<1>11. ASSUME NEW c \in Cleaners, List(c), UNCHANGED keep_attic PROVE TypeOK'
  <2>1. Listed(cn[c]) \subseteq dirs
    BY DEF Listed
  <2> QED
    BY <1>11, <2>1 DEF List
<1>12. ASSUME NEW c \in Cleaners, CleanEnd(c), UNCHANGED keep_attic PROVE TypeOK'
  BY <1>12 DEF CleanEnd, CleanerKnown
<1>13. ASSUME NEW c \in Cleaners, Discard(c) \/ Gone(c) \/ Strip(c), UNCHANGED keep_attic PROVE TypeOK'
  BY <1>13 DEF Discard, Gone, Strip, At
<1>14. ASSUME NEW c \in Cleaners, CopyBegin(c), UNCHANGED keep_attic PROVE TypeOK'
  BY <1>14 DEF CopyBegin, At
<1>15. ASSUME NEW c \in Cleaners, CopyEnd(c), UNCHANGED keep_attic PROVE TypeOK'
  BY <1>15 DEF CopyEnd, At, CopyInAttic
<1>16. ASSUME NEW c \in Cleaners, Remove(c), UNCHANGED keep_attic PROVE TypeOK'
  BY <1>16 DEF Remove, At
<1>17. CASE UNCHANGED vars
  BY <1>17 DEF vars
<1> QED
  BY <1>1, <1>2, <1>3, <1>4, <1>5, <1>6, <1>7, <1>8, <1>9, <1>10, <1>11, <1>12, <1>13,
     <1>14, <1>15, <1>16, <1>17 DEF Next, Step, Inv, Clean

\* The conjuncts of the invariant besides the types.
Safety ==
  /\ OneStarter
  /\ BusyNamed
  /\ RunningKept
  /\ CleanerKnown
  /\ Spared
  /\ OwnerApart
  /\ AllApart
  /\ NewUnmade
  /\ CountTrue
  /\ CopyInAttic
  /\ CopySaved

LEMMA StepInvariant == ASSUME Orderly, IInv, [Next]_vars PROVE IInv'
<1>1. TypeOK'
  BY TypeStep
<1>2. SUFFICES Safety'
  BY <1>1 DEF IInv, Safety
<1> USE NoneIsNoBuild, HandAssumption, CurrentIsTodo
    DEF IInv, TypeOK, Cleaners, Busy, NobodyBusy, Safety, OneStarter, BusyNamed, RunningKept,
        CleanerKnown, Spared, OwnerApart, AllApart, NewUnmade, CountTrue, CopyInAttic,
        CopySaved, Current
<1>3. CASE NewDay
  BY <1>3 DEF NewDay
<1>4. ASSUME NEW i \in Invs, Start(i) PROVE Safety'
  <2>1. <<today, BuildId(today)>> \in Builds \ dirs
    BY <1>4, BuildIdIsFresh DEF Start
  <2> QED
    BY <1>4, <2>1 DEF Start, Orderly
<1>5. ASSUME NEW i \in Invs, Resume(i) PROVE Safety'
  BY <1>5 DEF Resume, Idle
<1>6. ASSUME NEW i \in Invs, BuildInit(i) PROVE Safety'
  BY <1>6 DEF BuildInit
<1>7. ASSUME NEW i \in Invs, Lock(i) PROVE Safety'
  BY <1>7 DEF Lock
<1>8. ASSUME NEW i \in Invs, Work(i) PROVE Safety'
  BY <1>8 DEF Work
<1>9. ASSUME NEW i \in Invs, Done(i) PROVE Safety'
  BY <1>9 DEF Done
<1>10. ASSUME NEW i \in Invs, TrapExit(i) PROVE Safety'
  BY <1>10 DEF TrapExit
<1>11. CASE Crash
  BY <1>11 DEF Crash
<1>12. CASE Rescue
  BY <1>12 DEF Rescue, Idle
<1>13. ASSUME NEW c \in Cleaners, Count(c) PROVE Safety'
  BY <1>13 DEF Count, MayClean, Idle, Orderly
<1>14. ASSUME NEW c \in Cleaners, List(c) PROVE Safety'
  <2>1. Listed(cn[c]) \subseteq dirs \ {running}
    BY DEF Listed
  <2> QED
    BY <1>14, <2>1 DEF List
<1>15. ASSUME NEW c \in Cleaners, CleanEnd(c) PROVE Safety'
  BY <1>15 DEF CleanEnd
<1>16. ASSUME NEW c \in Cleaners, Discard(c) PROVE Safety'
  BY <1>16 DEF Discard, At
<1>17. ASSUME NEW c \in Cleaners, Gone(c) PROVE Safety'
  BY <1>17 DEF Gone, At
<1>18. ASSUME NEW c \in Cleaners, Strip(c) PROVE Safety'
  BY <1>18 DEF Strip, At
<1>19. ASSUME NEW c \in Cleaners, CopyBegin(c) PROVE Safety'
  BY <1>19 DEF CopyBegin, At
<1>20. ASSUME NEW c \in Cleaners, CopyEnd(c) PROVE Safety'
  BY <1>20 DEF CopyEnd, At
<1>21. ASSUME NEW c \in Cleaners, Remove(c) PROVE Safety'
  BY <1>21 DEF Remove, At
<1>22. CASE UNCHANGED vars
  BY <1>22 DEF vars
<1> QED
  BY <1>3, <1>4, <1>5, <1>6, <1>7, <1>8, <1>9, <1>10, <1>11, <1>12, <1>13, <1>14, <1>15,
     <1>16, <1>17, <1>18, <1>19, <1>20, <1>21, <1>22 DEF Next, Step, Inv, Clean

LEMMA Invariance == ASSUME Orderly PROVE Spec => []IInv
<1>1. IInv /\ [Next]_vars => IInv'
  BY StepInvariant
<1> QED
  BY <1>1, InitInvariant, PTL DEF Spec
-----------------------------------------------------------------------------
(***************************************************************************)
(* The theorems.                                                           *)
(***************************************************************************)
\* The build of an invocation that has the lock, or is about to get it for a
\* new build, is never on the list of a robsd-clean, be it that of the
\* invocation, of another one or of the operator.
THEOREM LiveBuildsSpared == ASSUME Orderly PROVE Spec => []LiveKept
<1>1. IInv => LiveKept
  <2> SUFFICES ASSUME IInv, NEW c \in Cleaners, NEW i \in Invs, Live(i)
               PROVE  dir[i] \notin todo[c]
    BY DEF IInv, LiveKept
  <2>1. CASE Busy(i)
    BY <2>1 DEF IInv, BusyNamed, Spared
  <2>2. CASE pc[i] = "inited" /\ running = None
    <3>1. todo[c] # {} => cpc[c] # "off"
      BY DEF IInv, TypeOK
    <3>2. cpc[c] = "off"
      BY <2>2, NoneIsNoBuild DEF IInv, TypeOK, CleanerKnown, BusyNamed, Busy
    <3> QED
      BY <3>1, <3>2
  <2> QED
    BY <2>1, <2>2 DEF Live, Busy
<1> QED
  BY <1>1, Invariance, PTL

LEMMA DirsFinite == ASSUME TypeOK PROVE IsFiniteSet(dirs)
<1>1. IsFiniteSet(1 .. Days) /\ IsFiniteSet(1 .. MaxNum)
  BY SizeAssumption, FS_Interval
<1>2. IsFiniteSet(Builds)
  BY <1>1, FS_Product DEF Builds
<1> QED
  BY <1>2, FS_Subset DEF TypeOK

\* What is behind the first n of robsd-ls -B, n as purge has counted, is behind
\* keep others, the running one included.
LEMMA ListedIsOld ==
  ASSUME IInv, NEW c \in Cleaners, cpc[c] = "counted", NEW b \in Listed(cn[c])
  PROVE  Cardinality({d \in dirs : Later(d, b) \/ d = running}) >= Keep
<1> DEFINE T == {d \in dirs \ {running} : Later(d, b)}
           S == {d \in dirs : Later(d, b) \/ d = running}
<1>1. IsFiniteSet(S) /\ IsFiniteSet(T) /\ T \subseteq S
  BY DirsFinite, FS_Subset DEF IInv
<1>2. Cardinality(T) >= cn[c] - 1
  BY DEF Listed
<1>3. Cardinality(T) \in Nat /\ Cardinality(S) \in Nat
  BY <1>1, FS_CardinalityType
<1>4. cn[c] = IF running = None THEN Keep + 1 ELSE Keep
  BY DEF IInv, CountTrue
<1>5. CASE running = None
  <2>1. Cardinality(T) <= Cardinality(S)
    BY <1>1, FS_Subset
  <2> QED
    BY <1>2, <1>3, <1>4, <1>5, <2>1, KeepAssumption
<1>6. CASE running # None
  <2>1. running \in dirs
    BY <1>6 DEF IInv, RunningKept
  <2>2. IsFiniteSet(T \cup {running}) /\ Cardinality(T \cup {running}) = Cardinality(T) + 1
    BY <1>1, FS_AddElement
  <2>3. Cardinality(T \cup {running}) <= Cardinality(S)
    <3>1. T \cup {running} \subseteq S
      BY <2>1
    <3> QED
      BY <1>1, <3>1, FS_Subset
  <2> QED
    BY <1>2, <1>3, <1>4, <1>6, <2>2, <2>3, KeepAssumption
<1> QED
  BY <1>5, <1>6

\* robsd-clean never decides to remove one of the latest keep builds, though
\* purge looks for the running build and lists the others in two steps.
THEOREM LatestKept == ASSUME Orderly PROVE Spec => KeepsLatest
<1>1. IInv /\ [Next]_vars =>
        \A c \in Cleaners :
          cpc[c] = "counted" /\ cpc'[c] = "purging" =>
            \A b \in todo'[c] :
              Cardinality({d \in dirs : Later(d, b) \/ d = running}) >= Keep
  <2> SUFFICES ASSUME IInv, [Next]_vars,
                      NEW c \in Cleaners, cpc[c] = "counted", cpc'[c] = "purging"
               PROVE  todo'[c] = Listed(cn[c])
    BY ListedIsOld
  <2> USE DEF IInv, TypeOK
  <2>1. ASSUME NEW d \in Cleaners, Clean(d) PROVE d = c /\ List(c)
    BY <2>1 DEF Clean, Count, List, CleanEnd, Discard, Gone, Strip, CopyBegin, CopyEnd,
       Remove, At
  <2>2. ~NewDay /\ ~Crash /\ ~Rescue /\ (\A i \in Invs : ~Inv(i)) /\ ~UNCHANGED vars
    BY DEF NewDay, Crash, Rescue, Inv, Start, Resume, BuildInit, Lock, Work, Done, TrapExit,
       vars
  <2>3. List(c)
    BY <2>1, <2>2 DEF Next, Step
  <2> QED
    BY <2>3 DEF List
<1> QED
  BY <1>1, Invariance, PTL DEF Spec, KeepsLatest

\* With keep-attic no build with steps is lost, over crashes in mid-copy,
\* resumed builds and names that are given out twice.
THEOREM NothingLost == ASSUME Orderly PROVE Spec => SavedFirst
<1>1. IInv /\ [Next]_vars =>
        (keep_attic => \A b \in (dirs \ dirs') \cap ran : b \in saved)
  <2> SUFFICES ASSUME IInv, [Next]_vars, keep_attic, NEW b \in dirs \ dirs', b \in ran
               PROVE  b \in saved
    OBVIOUS
  <2>1. ASSUME NEW i \in Invs, Inv(i) PROVE FALSE
    BY <2>1 DEF Inv, Start, Resume, BuildInit, Lock, Work, Done, TrapExit
  <2>2. ~NewDay /\ ~Crash /\ ~Rescue /\ ~UNCHANGED vars
    BY DEF NewDay, Crash, Rescue, vars
  <2>3. PICK c \in Cleaners : Clean(c)
    BY <2>1, <2>2 DEF Next, Step
  <2>4. Remove(c)
    BY <2>3 DEF Clean, Count, List, CleanEnd, Discard, Gone, Strip, CopyBegin, CopyEnd
  <2>5. b = Current(c)
    BY <2>4 DEF Remove
  <2> QED
    BY <2>4, <2>5 DEF Remove, At, IInv, CopySaved
<1> QED
  BY <1>1, Invariance, PTL DEF Spec, SavedFirst

\* No build_init finds the directory of another build under the name that
\* build_id made up, over days, removed builds and builds purged meanwhile.
THEOREM NewBuildsFresh == ASSUME Orderly PROVE Spec => FreshBuild
<1>1. IInv => \A i \in Invs : pc[i] = "named" /\ pc'[i] = "inited" /\ new[i] => dir[i] \notin dirs
  BY DEF IInv, NewUnmade
<1> QED
  BY <1>1, Invariance, PTL DEF FreshBuild
=============================================================================
