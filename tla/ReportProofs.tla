---------------------------- MODULE ReportProofs ----------------------------
(***************************************************************************)
(* Theorems of RegressLog, RegressHtml and Report, for logs of any length, *)
(* schedules of any steps, any number of lines shown and of resumptions.   *)
(***************************************************************************)
EXTENDS RegressHtml, Report, NatFacts, FiniteSetTheorems, SequenceTheorems

-----------------------------------------------------------------------------
(***************************************************************************)
(* Numbers and sequences.                                                  *)
(***************************************************************************)

LEMMA MinIs ==
  ASSUME NEW S \in SUBSET Int, NEW m \in S, \A n \in S : m <= n
  PROVE  Min(S) = m
<1>1. Min(S) \in S /\ \A y \in S : Min(S) <= y
  <2>1. \E x \in S : \A y \in S : x <= y
    OBVIOUS
  <2> QED
    BY <2>1 DEF Min
<1>2. Min(S) <= m /\ m <= Min(S) /\ Min(S) \in Int /\ m \in Int
  BY <1>1
<1> QED
  BY <1>2

LEMMA MaxIs ==
  ASSUME NEW S \in SUBSET Int, NEW m \in S, \A n \in S : n <= m
  PROVE  Max(S) = m
<1>1. Max(S) \in S /\ \A y \in S : Max(S) >= y
  <2>1. \E x \in S : \A y \in S : x >= y
    OBVIOUS
  <2> QED
    BY <2>1 DEF Max
<1>2. Max(S) >= m /\ Max(S) <= m /\ Max(S) \in Int /\ m \in Int
  BY <1>1
<1> QED
  BY <1>2

LEMMA MinFacts ==
  ASSUME NEW S \in SUBSET Nat, S # {}
  PROVE  Min(S) \in S /\ \A n \in S : Min(S) <= n
<1>1. PICK m \in S : \A n \in S : m <= n
  BY LeastElement
<1> QED
  BY <1>1, MinIs

LEMMA MaxFacts ==
  ASSUME NEW N \in Nat, NEW S \in SUBSET (0 .. N), S # {}
  PROVE  Max(S) \in S /\ \A n \in S : n <= Max(S)
<1>1. PICK m \in S : \A n \in S : n <= m
  BY GreatestElement
<1> QED
  BY <1>1, MaxIs

\* There is one way to enumerate a set of numbers.
LEMMA EnumerationUnique ==
  ASSUME NEW K \in SUBSET Nat, NEW n \in Nat,
         NEW f \in [1 .. n -> K], Enumerates(f, n, K),
         NEW g \in [1 .. n -> K], Enumerates(g, n, K)
  PROVE  f = g
<1> DEFINE D == {i \in 1 .. n : f[i] # g[i]}
<1> SUFFICES ASSUME D # {} PROVE FALSE
  OBVIOUS
<1>1. PICK i \in D : \A j \in D : i <= j
  <2>1. D \in SUBSET Nat
    OBVIOUS
  <2> HIDE DEF D
  <2> QED
    BY <2>1, LeastElement
<1>2. PICK j \in 1 .. n : f[i] = g[j]
  BY <1>1 DEF Enumerates
<1>3. PICK k \in 1 .. n : g[i] = f[k]
  BY <1>1 DEF Enumerates
<1>4. i \in 1 .. n /\ f[i] # g[i] /\ \A x \in 1 .. n : x < i => f[x] = g[x]
  BY <1>1
<1> HIDE DEF D
<1>5. ASSUME j < i PROVE FALSE
  <2>1. f[j] = f[i] /\ f[j] < f[i] /\ f[i] \in Nat
    BY <1>2, <1>4, <1>5 DEF Enumerates
  <2> QED
    BY <2>1
<1>6. ASSUME k < i PROVE FALSE
  <2>1. g[k] = g[i] /\ g[k] < g[i] /\ g[i] \in Nat
    BY <1>3, <1>4, <1>6 DEF Enumerates
  <2> QED
    BY <2>1
<1>7. i < j /\ i < k
  BY <1>2, <1>3, <1>4, <1>5, <1>6
<1>8. g[i] < g[j] /\ f[i] < f[k]
  BY <1>4, <1>7 DEF Enumerates
<1>9. f[i] \in Nat /\ g[i] \in Nat
  BY <1>4
<1> QED
  BY <1>2, <1>3, <1>8, <1>9

\* A set that is enumerated by n numbers has n elements.
LEMMA EnumerationIs ==
  ASSUME NEW K \in SUBSET Nat, NEW n \in Nat,
         NEW f \in [1 .. n -> K], Enumerates(f, n, K)
  PROVE  Cardinality(K) = n /\ IsFiniteSet(K) /\ Ascending(K) = f
<1>1. f \in Bijection(1 .. n, K)
  <2>1. \A i, j \in 1 .. n : f[i] = f[j] => i = j
    <3> SUFFICES ASSUME NEW i \in 1 .. n, NEW j \in 1 .. n, f[i] = f[j], i < j PROVE FALSE
      OBVIOUS
    <3>1. f[i] < f[j] /\ f[i] \in Nat
      BY DEF Enumerates
    <3> QED
      BY <3>1
  <2>2. \A k \in K : \E i \in 1 .. n : f[i] = k
    BY DEF Enumerates
  <2> QED
    BY <2>1, <2>2 DEF Bijection, Injection, Surjection, IsInjective
<1>2. IsFiniteSet(1 .. n) /\ Cardinality(1 .. n) = n
  BY FS_Interval
<1>3. Cardinality(K) = n /\ IsFiniteSet(K)
  BY <1>1, <1>2, FS_Bijection, FS_Surjection DEF Bijection
<1>4. /\ Ascending(K) \in [1 .. n -> K] /\ Enumerates(Ascending(K), n, K)
  BY <1>3 DEF Ascending
<1> QED
  BY <1>3, <1>4, EnumerationUnique

-----------------------------------------------------------------------------
(***************************************************************************)
(* regress_log_parse.                                                      *)
(***************************************************************************)

\* The states of regress_log_parse_impl on a log of lines L.
ScanStates(L) == [head : BOOLEAN, scratch : Seq(L), found : Seq(Seq(L))]

ScanStart == [head |-> TRUE, scratch |-> <<>>, found |-> <<>>]

LEMMA ScanLineTyped ==
  ASSUME NEW L, NEW s \in ScanStates(L), NEW line \in L, NEW want
  PROVE  ScanLine(s, line, want) \in ScanStates(L)
<1> DEFINE target == Append(IF line.mark THEN <<>> ELSE s.scratch, line)
<1>1. target \in Seq(L) /\ s.found \in Seq(Seq(L)) /\ s.scratch \in Seq(L)
  BY DEF ScanStates
<1>2. Append(s.found, target) \in Seq(Seq(L)) /\ <<>> \in Seq(L)
  BY <1>1
<1> HIDE DEF target
<1>3. [head |-> FALSE, scratch |-> <<>>, found |-> Append(s.found, target)] \in ScanStates(L)
  BY <1>2 DEF ScanStates
<1>4. [s EXCEPT !.head = FALSE, !.scratch = target] \in ScanStates(L)
  BY <1>1 DEF ScanStates
<1> QED
  BY <1>3, <1>4 DEF ScanLine, target

\* The iterations of regress_log_parse_impl, one for each line.
LEMMA ScanRuns ==
  ASSUME NEW L, NEW log \in Seq(L), NEW want
  PROVE  /\ Scan(log, want) \in [0 .. Len(log) -> ScanStates(L)]
         /\ Scan(log, want)[0] = ScanStart
         /\ \A n \in 1 .. Len(log) : Scan(log, want)[n] = ScanLine(Scan(log, want)[n - 1], log[n], want)
<1> DEFINE N == Len(log)
           S == ScanStates(L)
           F(f) == [n \in 0 .. N |-> IF n = 0 THEN ScanStart ELSE ScanLine(f[n - 1], log[n], want)]
           G == [n \in 1 .. N |-> [s \in S |-> ScanLine(s, log[n], want)]]
<1>0. N \in Nat
  OBVIOUS
<1>1. N \in Nat /\ \A n \in 1 .. N : log[n] \in L
  OBVIOUS
<1>2. ScanStart \in S
  BY DEF ScanStart, ScanStates
<1>3. G \in [1 .. N -> [S -> S]]
  BY <1>1, ScanLineTyped
<1>4. PICK f \in [0 .. N -> S] : IsRun(f, ScanStart, N, G)
  <2> HIDE DEF G, N, S
  <2> QED
    BY <1>0, <1>2, <1>3, RunExists
<1>5. f = F(f)
  <2>1. \A n \in 1 .. N : f[n] = ScanLine(f[n - 1], log[n], want)
    BY <1>4 DEF IsRun
  <2> QED
    BY <1>4, <2>1 DEF IsRun
<1>6. Scan(log, want) = F(Scan(log, want))
  BY <1>5 DEF Scan, ScanStart
<1> HIDE DEF S
<1> DEFINE h == Scan(log, want)
<1>7. h[0] = ScanStart /\ \A n \in 1 .. N : h[n] = ScanLine(h[n - 1], log[n], want)
  BY <1>1, <1>6
<1>8. \A n \in 0 .. N : h[n] \in S
  <2> DEFINE P == {n \in 0 .. N : h[n] \in S}
  <2>1. 0 \in P
    BY <1>2, <1>7
  <2>2. ASSUME NEW n \in 0 .. N - 1, n \in P PROVE n + 1 \in P
    <3>1. n + 1 \in 1 .. N /\ (n + 1) - 1 = n
      BY <1>1
    <3>2. h[n + 1] = ScanLine(h[n], log[n + 1], want)
      BY <1>7, <3>1
    <3> QED
      BY <1>1, <2>2, <3>1, <3>2, ScanLineTyped DEF S
  <2> HIDE DEF P, h, N
  <2>3. \A n \in 0 .. N : n \in P
    BY <1>1, <2>1, <2>2, Stepwise
  <2> QED
    BY <2>3 DEF P
<1>9. h \in [0 .. N -> S]
  <2>1. h = [n \in 0 .. N |-> h[n]]
    BY <1>6
  <2> HIDE DEF h
  <2> QED
    BY <1>8, <2>1
<1> QED
  BY <1>7, <1>9 DEF S

\* What follows the first line that is no trace is in the body.
LEMMA BodyClosed ==
  ASSUME NEW L, NEW log \in Seq(L), NEW i \in Body(log), NEW j \in i .. Len(log)
  PROVE  j \in Body(log)
BY DEF Body

LEMMA StartFacts ==
  ASSUME NEW L, NEW log \in Seq(L), NEW want, NEW k \in Body(log)
  PROVE  /\ Min(Starts(log, want, k)) \in Starts(log, want, k)
         /\ Min(Starts(log, want, k)) \in 1 .. k
         /\ \A j \in Starts(log, want, k) : Min(Starts(log, want, k)) <= j
<1> DEFINE S == Starts(log, want, k)
<1>1. S \in SUBSET Nat /\ S \in SUBSET (1 .. k)
  BY DEF Starts, Body
<1>2. k \in S
  BY DEF Starts, Body
<1> HIDE DEF S
<1> QED
  BY <1>1, <1>2, MinFacts DEF S

LEMMA OneLine ==
  ASSUME NEW L, NEW log \in Seq(L), NEW k \in 1 .. Len(log)
  PROVE  SubSeq(log, k, k) = <<log[k]>>
<1>1. SubSeq(log, k, k) \in Seq(L) /\ Len(SubSeq(log, k, k)) = 1 /\ SubSeq(log, k, k)[1] = log[k]
  BY SubSeqProperties
<1>2. <<log[k]>> \in Seq(L) /\ Len(<<log[k]>>) = 1 /\ <<log[k]>>[1] = log[k]
  OBVIOUS
<1> DEFINE u == SubSeq(log, k, k)
           v == <<log[k]>>
<1>3. \A i \in 1 .. Len(u) : u[i] = v[i]
  BY <1>1, <1>2
<1> HIDE DEF u, v
<1>4. u \in Seq(L) /\ v \in Seq(L) /\ Len(u) = Len(v)
  BY <1>1, <1>2 DEF u, v
<1>5. u = v
  BY <1>3, <1>4, SeqEqual
<1> QED
  BY <1>5 DEF u, v

\* A target starts anew after an outcome and at a marker, and else goes on.
LEMMA TargetGrows ==
  ASSUME NEW L, NEW log \in Seq(L), NEW want, NEW n \in 0 .. Len(log) - 1, n + 1 \in Body(log)
  PROVE  Target(log, want, n + 1) =
           IF n \in Body(log) /\ ~Wanted(log[n], want) /\ ~log[n + 1].mark
           THEN Append(Target(log, want, n), log[n + 1]) ELSE <<log[n + 1]>>
<1> DEFINE new == Starts(log, want, n + 1)
           old == Starts(log, want, n)
<1>1. n + 1 \in 1 .. Len(log) /\ log[n + 1] \in L /\ n + 1 \in new /\ Body(log) \in SUBSET (1 .. Len(log))
  BY DEF Starts, Body
<1>2. CASE n \in Body(log) /\ ~Wanted(log[n], want) /\ ~log[n + 1].mark
  <2>1. new = old \cup {n + 1}
    <3>1. ASSUME NEW j \in old PROVE j \in new
      BY <1>1, <1>2 DEF Starts
    <3>2. ASSUME NEW j \in new, j # n + 1 PROVE j \in old
      <4>1. j \in Body(log) /\ j <= n + 1 /\ j \in Nat /\ n \in Nat
        BY <1>1 DEF Starts
      <4>2. \A i \in j .. n : ~Wanted(log[i], want) /\ ~log[i + 1].mark
        <5>1. (n + 1) - 1 = n
          BY <4>1
        <5> QED
          BY <5>1 DEF Starts
      <4>3. j <= n /\ \A i \in j .. n - 1 : i \in j .. n
        BY <3>2, <4>1
      <4> QED
        BY <4>1, <4>2, <4>3 DEF Starts
    <3> QED
      BY <1>1, <3>1, <3>2
  <2>2. Min(old) \in old /\ Min(old) \in 1 .. n /\ \A j \in old : Min(old) <= j
    BY <1>2, StartFacts
  <2>3. Min(new) = Min(old)
    <3>1. new \in SUBSET Int
      BY <1>1 DEF Starts
    <3>2. Min(old) \in new /\ \A j \in new : Min(old) <= j
      BY <1>1, <2>1, <2>2
    <3> HIDE DEF new, old
    <3> QED
      BY <3>1, <3>2, MinIs
  <2> DEFINE m == Min(old)
  <2>4. m \in 1 .. n
    BY <2>2
  <2> HIDE DEF m
  <2>5. SubSeq(log, m, n + 1) = Append(SubSeq(log, m, n), log[n + 1])
    BY <1>1, <2>4
  <2> QED
    BY <1>2, <2>3, <2>5 DEF Target, m
<1>3. CASE ~(n \in Body(log) /\ ~Wanted(log[n], want) /\ ~log[n + 1].mark)
  <2>1. new = {n + 1}
    <3>1. ASSUME NEW j \in new, j # n + 1 PROVE FALSE
      <4>1. j \in Body(log) /\ j \in 1 .. n /\ n \in j .. (n + 1) - 1
        BY <1>1, <3>1 DEF Starts
      <4>2. n \in Body(log)
        BY <4>1, <1>1, BodyClosed
      <4>3. ~Wanted(log[n], want) /\ ~log[n + 1].mark
        BY <4>1 DEF Starts
      <4> QED
        BY <1>3, <4>2, <4>3
    <3> QED
      BY <1>1, <3>1
  <2>2. Min(new) = n + 1
    <3> HIDE DEF new
    <3>1. new \in SUBSET Int /\ n + 1 \in new /\ \A j \in new : n + 1 <= j
      BY <1>1, <2>1
    <3> QED
      BY <3>1, MinIs
  <2>3. SubSeq(log, n + 1, n + 1) = <<log[n + 1]>>
    BY <1>1, OneLine
  <2> QED
    BY <1>3, <2>2, <2>3 DEF Target
<1> QED
  BY <1>2, <1>3

\* After n lines: the targets found are those with an outcome asked for among
\* these lines, and the scratch buffer is what may become the next one.
EndsUpTo(log, want, n) == {k \in Ends(log, want) : k <= n}

Pending(log, want, n) ==
  IF n \in Body(log) /\ ~Wanted(log[n], want) THEN Target(log, want, n) ELSE <<>>

AllFound(found, log, want, n) ==
  \E ks \in [1 .. Len(found) -> EndsUpTo(log, want, n)] :
    /\ Enumerates(ks, Len(found), EndsUpTo(log, want, n))
    /\ \A i \in 1 .. Len(found) : found[i] = Target(log, want, ks[i])

ScanInv(s, log, want, n) ==
  /\ s.head <=> \A i \in 1 .. n : log[i].trace
  /\ s.scratch = Pending(log, want, n)
  /\ AllFound(s.found, log, want, n)

LEMMA FoundGrows ==
  ASSUME NEW L, NEW log \in Seq(L), NEW want, NEW n \in 0 .. Len(log) - 1,
         NEW found \in Seq(Seq(L)), AllFound(found, log, want, n),
         n + 1 \in Ends(log, want)
  PROVE  AllFound(Append(found, Target(log, want, n + 1)), log, want, n + 1)
<1> DEFINE old == EndsUpTo(log, want, n)
           new == EndsUpTo(log, want, n + 1)
           m == Len(found)
           t == Target(log, want, n + 1)
           more == Append(found, t)
<1>1. new = old \cup {n + 1} /\ old \in SUBSET (1 .. n) /\ n \in Nat
  BY DEF EndsUpTo, Ends, Body
<1>2. m \in Nat /\ Len(more) = m + 1 /\ more[m + 1] = t /\ \A i \in 1 .. m : more[i] = found[i]
  OBVIOUS
<1>3. PICK ks \in [1 .. m -> old] :
        Enumerates(ks, m, old) /\ \A i \in 1 .. m : found[i] = Target(log, want, ks[i])
  BY DEF AllFound
<1> HIDE DEF old, new, m, more
<1> DEFINE ls == [i \in 1 .. m + 1 |-> IF i = m + 1 THEN n + 1 ELSE ks[i]]
<1>4. ls \in [1 .. m + 1 -> new]
  BY <1>1, <1>2, <1>3
<1>5. /\ ls[m + 1] = n + 1
      /\ \A i \in 1 .. m : ls[i] = ks[i] /\ ks[i] \in 1 .. n
      /\ \A i \in 1 .. m + 1 : i = m + 1 \/ i \in 1 .. m
  <2>1. m \in Nat
    BY <1>2
  <2>2. /\ m + 1 \in 1 .. m + 1
        /\ \A i \in 1 .. m : i \in 1 .. m + 1 /\ i # m + 1
        /\ \A i \in 1 .. m + 1 : i = m + 1 \/ i \in 1 .. m
    BY <2>1
  <2>3. \A i \in 1 .. m : ks[i] \in 1 .. n
    BY <1>1, <1>3
  <2> QED
    BY <2>2, <2>3
<1> HIDE DEF ls
<1>6. Enumerates(ls, m + 1, new)
  <2>1. ASSUME NEW i \in 1 .. m + 1, NEW j \in 1 .. m + 1, i < j PROVE ls[i] < ls[j]
    <3>1. i \in 1 .. m
      BY <1>2, <2>1
    <3>2. CASE j = m + 1
      BY <1>1, <1>5, <3>1, <3>2
    <3>3. CASE j \in 1 .. m
      BY <1>3, <1>5, <2>1, <3>1, <3>3 DEF Enumerates
    <3> QED
      BY <1>5, <3>2, <3>3
  <2>2. ASSUME NEW k \in new PROVE \E i \in 1 .. m + 1 : ls[i] = k
    <3>1. CASE k = n + 1
      BY <1>2, <1>5, <3>1
    <3>2. CASE k \in old
      <4>1. PICK i \in 1 .. m : ks[i] = k
        BY <1>3, <3>2 DEF Enumerates
      <4>2. i \in 1 .. m + 1
        BY <1>2
      <4> QED
        BY <1>5, <4>1, <4>2
    <3> QED
      BY <1>1, <3>1, <3>2
  <2> QED
    BY <2>1, <2>2 DEF Enumerates
<1>7. \A i \in 1 .. m + 1 : more[i] = Target(log, want, ls[i])
  <2>1. ASSUME NEW i \in 1 .. m PROVE more[i] = Target(log, want, ls[i])
    BY <1>2, <1>3, <1>5
  <2> QED
    BY <1>2, <1>5, <2>1
<1>8. AllFound(more, log, want, n + 1)
  BY <1>2, <1>4, <1>6, <1>7 DEF AllFound, new
<1> QED
  BY <1>8 DEF more

LEMMA ScanLineInv ==
  ASSUME NEW L, NEW log \in Seq(L), NEW want, NEW n \in 0 .. Len(log) - 1,
         NEW s \in ScanStates(L), ScanInv(s, log, want, n)
  PROVE  ScanInv(ScanLine(s, log[n + 1], want), log, want, n + 1)
<1> DEFINE line == log[n + 1]
           t == ScanLine(s, line, want)
           target == Append(IF line.mark THEN <<>> ELSE s.scratch, line)
<1>1. n \in Nat /\ n + 1 \in 1 .. Len(log) /\ line \in L /\ s.found \in Seq(Seq(L))
  BY DEF ScanStates
<1>2. \A i \in 1 .. n + 1 : i = n + 1 \/ i \in 1 .. n
  BY <1>1
<1>3. n \notin Body(log) <=> s.head
  BY <1>1 DEF ScanInv, Body
<1>4. CASE s.head /\ line.trace
  <2>1. t = s
    BY <1>4 DEF ScanLine
  <2>2. n + 1 \notin Body(log) /\ n \notin Body(log)
    BY <1>1, <1>2, <1>4 DEF ScanInv, Body
  <2>3. EndsUpTo(log, want, n + 1) = EndsUpTo(log, want, n)
    BY <1>1, <2>2 DEF EndsUpTo, Ends, Body
  <2>4. \A i \in 1 .. n + 1 : log[i].trace
    BY <1>2, <1>4 DEF ScanInv
  <2> QED
    BY <1>4, <2>1, <2>2, <2>3, <2>4 DEF ScanInv, AllFound, Pending
<1>5. CASE ~(s.head /\ line.trace)
  <2>1. n + 1 \in Body(log) /\ ~ \A i \in 1 .. n + 1 : log[i].trace
    <3>1. \E i \in 1 .. n + 1 : ~log[i].trace
      BY <1>1, <1>2, <1>5 DEF ScanInv
    <3> QED
      BY <1>1, <3>1 DEF Body
  <2>2. target = Target(log, want, n + 1)
    <3>1. <<line>> = Append(<<>>, line)
      OBVIOUS
    <3> HIDE DEF line
    <3> QED
      BY <2>1, <3>1, TargetGrows DEF ScanInv, Pending, line
  <2>3. CASE Wanted(line, want)
    <3>1. t = [head |-> FALSE, scratch |-> <<>>, found |-> Append(s.found, Target(log, want, n + 1))]
      BY <1>5, <2>2, <2>3 DEF ScanLine
    <3>2. n + 1 \in Ends(log, want)
      BY <2>1, <2>3 DEF Ends
    <3>3. AllFound(t.found, log, want, n + 1)
      BY <1>1, <3>1, <3>2, FoundGrows DEF ScanInv
    <3>4. Pending(log, want, n + 1) = <<>>
      BY <2>3 DEF Pending
    <3> QED
      BY <2>1, <3>1, <3>3, <3>4 DEF ScanInv
  <2>4. CASE ~Wanted(line, want)
    <3>1. t = [s EXCEPT !.head = FALSE, !.scratch = Target(log, want, n + 1)]
      BY <1>5, <2>2, <2>4 DEF ScanLine
    <3>2. t.head = FALSE /\ t.scratch = Target(log, want, n + 1) /\ t.found = s.found
      BY <3>1 DEF ScanStates
    <3>3. EndsUpTo(log, want, n + 1) = EndsUpTo(log, want, n)
      BY <1>1, <2>4 DEF EndsUpTo, Ends, Body
    <3>4. AllFound(t.found, log, want, n + 1)
      BY <3>2, <3>3 DEF ScanInv, AllFound
    <3>5. Pending(log, want, n + 1) = Target(log, want, n + 1)
      BY <2>1, <2>4 DEF Pending
    <3> QED
      BY <2>1, <3>2, <3>4, <3>5 DEF ScanInv
  <2> QED
    BY <2>3, <2>4
<1> QED
  BY <1>4, <1>5

\* regress_log_parse extracts each target with an outcome asked for, in order.
LEMMA ScanFinds ==
  ASSUME NEW L, NEW log \in Seq(L), NEW want
  PROVE  /\ Targets(log, want) \in Seq(Seq(L))
         /\ Len(Targets(log, want)) = Cardinality(Ends(log, want))
         /\ IsFiniteSet(Ends(log, want))
         /\ Targets(log, want) = TargetsIn(log, want)
         /\ AllFound(Targets(log, want), log, want, Len(log))
<1> DEFINE N == Len(log)
           s == Scan(log, want)
           P == {n \in 0 .. N : ScanInv(s[n], log, want, n)}
           found == Targets(log, want)
<1>1. N \in Nat /\ s \in [0 .. N -> ScanStates(L)] /\ s[0] = ScanStart
  BY ScanRuns
<1>2. 0 \in P
  <2>1. /\ 1 .. 0 = {} /\ Len(<<>>) = 0 /\ EndsUpTo(log, want, 0) = {} /\ 0 \notin Body(log)
    BY DEF EndsUpTo, Ends, Body
  <2>2. AllFound(<<>>, log, want, 0)
    <3> DEFINE f == [i \in {} |-> 0]
    <3>1. f \in [1 .. 0 -> EndsUpTo(log, want, 0)] /\ Enumerates(f, 0, EndsUpTo(log, want, 0))
      BY <2>1 DEF Enumerates
    <3> HIDE DEF f
    <3> QED
      BY <2>1, <3>1 DEF AllFound
  <2>3. ScanInv(ScanStart, log, want, 0)
    BY <2>1, <2>2 DEF ScanInv, ScanStart, Pending
  <2> QED
    BY <1>1, <2>3
<1>3. ASSUME NEW n \in 0 .. N - 1, n \in P PROVE n + 1 \in P
  <2>1. n + 1 \in 1 .. N /\ (n + 1) - 1 = n /\ n \in 0 .. N /\ n + 1 \in 0 .. N
    BY <1>1
  <2>2. s[n + 1] = ScanLine(s[n], log[n + 1], want) /\ s[n] \in ScanStates(L)
    <3>1. \A k \in 1 .. N : s[k] = ScanLine(s[k - 1], log[k], want)
      BY ScanRuns
    <3> HIDE DEF s
    <3> QED
      BY <1>1, <2>1, <3>1
  <2>3. ScanInv(s[n + 1], log, want, n + 1)
    BY <1>3, <2>2, ScanLineInv
  <2> QED
    BY <2>1, <2>3
<1>4. ScanInv(s[N], log, want, N)
  <2> HIDE DEF P
  <2>1. \A n \in 0 .. N : n \in P
    BY <1>1, <1>2, <1>3, Stepwise
  <2> QED
    BY <1>1, <2>1 DEF P
<1>5. found = s[N].found /\ found \in Seq(Seq(L)) /\ AllFound(found, log, want, N)
  BY <1>1, <1>4 DEF Targets, ScanInv, ScanStates
<1> HIDE DEF s, P, found
<1> DEFINE K == Ends(log, want)
<1>6. EndsUpTo(log, want, N) = K /\ K \in SUBSET Nat
  BY <1>1 DEF EndsUpTo, Ends, Body
<1>7. PICK ks \in [1 .. Len(found) -> K] :
        Enumerates(ks, Len(found), K) /\ \A i \in 1 .. Len(found) : found[i] = Target(log, want, ks[i])
  BY <1>5, <1>6 DEF AllFound
<1>8. Cardinality(K) = Len(found) /\ IsFiniteSet(K) /\ Ascending(K) = ks
  <2>1. Len(found) \in Nat
    BY <1>5
  <2> QED
    BY <1>6, <1>7, <2>1, EnumerationIs
<1>9. found = TargetsIn(log, want)
  <2>1. found = [i \in 1 .. Len(found) |-> found[i]]
    BY <1>5
  <2>2. \A i \in 1 .. Len(found) : found[i] = Target(log, want, Ascending(K)[i])
    BY <1>7, <1>8
  <2>3. TargetsIn(log, want) = [i \in 1 .. Len(found) |-> Target(log, want, Ascending(K)[i])]
    BY <1>8 DEF TargetsIn
  <2> HIDE DEF K
  <2> QED
    BY <2>1, <2>2, <2>3
<1> QED
  BY <1>5, <1>8, <1>9 DEF found

LEMMA ConcatAt ==
  ASSUME NEW S, NEW a \in Seq(S), NEW b \in Seq(S),
         NEW v, v = a \o b, NEW M, M = Len(a), NEW N, N = Len(b)
  PROVE  /\ v \in Seq(S) /\ Len(v) = M + N
         /\ \A i \in 1 .. M : v[i] = a[i]
         /\ \A i \in 1 .. N : v[M + i] = b[i]
OBVIOUS

-----------------------------------------------------------------------------
(***************************************************************************)
(* FlattenSeq.                                                             *)
(***************************************************************************)

\* f has what the first parts make together, for each number of parts.
Flattens(f, seqs) ==
  f[0] = <<>> /\ \A i \in 1 .. Len(seqs) : f[i] = f[i - 1] \o seqs[i]

LEMMA FlattenRuns ==
  ASSUME NEW S, NEW seqs \in Seq(Seq(S))
  PROVE  \E f \in [0 .. Len(seqs) -> Seq(S)] : Flattens(f, seqs) /\ FlattenSeq(seqs) = f[Len(seqs)]
<1> DEFINE N == Len(seqs)
           T == Seq(S)
           nil == <<>>
           G == [n \in 1 .. N |-> [s \in T |-> s \o seqs[n]]]
           F(f) == [n \in 1 .. N |-> IF n = 1 THEN seqs[n] ELSE f[n - 1] \o seqs[n]]
<1>1. N \in Nat
  OBVIOUS
<1>2. \A n \in 1 .. N : seqs[n] \in T
  OBVIOUS
<1>3. G \in [1 .. N -> [T -> T]]
  BY <1>2
<1>4. nil \in T
  OBVIOUS
<1>5. PICK f \in [0 .. N -> T] : IsRun(f, nil, N, G)
  <2> HIDE DEF G, N, T, nil
  <2> QED
    BY <1>1, <1>3, <1>4, RunExists
<1>6. \A n \in 1 .. N : f[n] = f[n - 1] \o seqs[n] /\ f[n - 1] \in T
  <2> SUFFICES ASSUME NEW n \in 1 .. N PROVE f[n] = f[n - 1] \o seqs[n] /\ f[n - 1] \in T
    OBVIOUS
  <2> HIDE DEF T, N
  <2>1. n - 1 \in 0 .. N
    BY <1>1
  <2>2. f[n - 1] \in T
    BY <2>1
  <2>3. G[n] = [s \in T |-> s \o seqs[n]]
    OBVIOUS
  <2> QED
    BY <1>5, <2>2, <2>3 DEF IsRun
<1>7. f[0] = nil /\ Flattens(f, seqs)
  BY <1>5, <1>6 DEF Flattens, IsRun
<1>8. CASE N = 0
  BY <1>5, <1>7, <1>8 DEF FlattenSeq
<1>9. CASE N # 0
  <2> DEFINE g == [n \in 1 .. N |-> f[n]]
  <2>1. g = F(g)
    <3>1. ASSUME NEW n \in 1 .. N PROVE g[n] = IF n = 1 THEN seqs[n] ELSE g[n - 1] \o seqs[n]
      <4>1. CASE n = 1
        <5>1. seqs[1] \in T /\ 1 \in 1 .. N /\ 1 - 1 = 0
          BY <1>2, <4>1
        <5>2. f[1] = nil \o seqs[1]
          <6> HIDE DEF N, nil, T
          <6> QED
            BY <1>7, <1>6, <5>1
        <5>3. <<>> \o seqs[1] = seqs[1]
          BY <5>1
        <5> QED
          BY <4>1, <5>1, <5>2, <5>3
      <4>2. CASE n # 1
        <5>1. n - 1 \in 1 .. N
          BY <1>1, <4>2
        <5> HIDE DEF N
        <5> QED
          BY <1>6, <4>2, <5>1
      <4> QED
        BY <4>1, <4>2
    <3> QED
      BY <3>1
  <2> DEFINE h == CHOOSE h : h = F(h)
  <2>2. h = F(h)
    BY <2>1
  <2>3. FlattenSeq(seqs) = h[N]
    BY <1>9 DEF FlattenSeq
  <2> DEFINE P == {n \in 0 .. N - 1 : h[n + 1] = f[n + 1]}
  <2> HIDE DEF h, g, G
  <2>4. 0 \in P
    <3>1. 1 \in 1 .. N /\ h[1] = seqs[1] /\ seqs[1] \in Seq(S)
      BY <1>1, <1>9, <2>2
    <3>2. f[1] = nil \o seqs[1]
      <4>1. 1 - 1 = 0
        OBVIOUS
      <4> HIDE DEF N, T, nil
      <4> QED
        BY <1>7, <1>6, <3>1, <4>1
    <3> QED
      BY <1>1, <1>9, <3>1, <3>2
  <2>5. ASSUME NEW n \in 0 .. (N - 1) - 1, n \in P PROVE n + 1 \in P
    <3>1. n + 1 \in 1 .. N /\ n + 2 \in 1 .. N /\ n + 2 # 1 /\ (n + 2) - 1 = n + 1 /\ (n + 1) + 1 = n + 2
      BY <1>1
    <3>2. h[n + 2] = h[n + 1] \o seqs[n + 2]
      BY <2>2, <3>1
    <3>3. f[n + 2] = f[n + 1] \o seqs[n + 2]
      BY <1>6, <3>1
    <3>4. h[n + 1] = f[n + 1] /\ n + 1 \in 0 .. N - 1
      BY <1>1, <2>5
    <3> QED
      BY <3>1, <3>2, <3>3, <3>4
  <2>6. N - 1 \in P
    <3>1. N - 1 \in Nat
      BY <1>1, <1>9
    <3> HIDE DEF P, N
    <3>2. \A n \in 0 .. N - 1 : n \in P
      BY <2>4, <2>5, <3>1, Stepwise
    <3> QED
      BY <3>1, <3>2
  <2>7. h[N] = f[N]
    BY <1>1, <2>6
  <2> QED
    BY <1>7, <2>3, <2>7
<1> QED
  BY <1>8, <1>9

LEMMA FlattenTyped ==
  ASSUME NEW S, NEW seqs \in Seq(Seq(S))
  PROVE  FlattenSeq(seqs) \in Seq(S)
<1>1. PICK f \in [0 .. Len(seqs) -> Seq(S)] : Flattens(f, seqs) /\ FlattenSeq(seqs) = f[Len(seqs)]
  BY FlattenRuns
<1>2. Len(seqs) \in 0 .. Len(seqs)
  OBVIOUS
<1> QED
  BY <1>1, <1>2

LEMMA FlattenConcat ==
  ASSUME NEW S, NEW a \in Seq(Seq(S)), NEW b \in Seq(Seq(S))
  PROVE  FlattenSeq(a \o b) = FlattenSeq(a) \o FlattenSeq(b)
<1> DEFINE c == a \o b
           M == Len(a)
           N == Len(b)
<1>1. c \in Seq(Seq(S)) /\ Len(c) = M + N /\ M \in Nat /\ N \in Nat
  OBVIOUS
<1>2. \A i \in 1 .. M : c[i] = a[i] /\ a[i] \in Seq(S)
  OBVIOUS
<1>3. \A i \in 1 .. N : c[M + i] = b[i] /\ b[i] \in Seq(S)
  OBVIOUS
<1> HIDE DEF c, M, N
<1>4. PICK f \in [0 .. M -> Seq(S)] : Flattens(f, a) /\ FlattenSeq(a) = f[M]
  BY FlattenRuns DEF M
<1>5. PICK g \in [0 .. N -> Seq(S)] : Flattens(g, b) /\ FlattenSeq(b) = g[N]
  BY FlattenRuns DEF N
<1>6. PICK h \in [0 .. M + N -> Seq(S)] : Flattens(h, c) /\ FlattenSeq(c) = h[M + N]
  BY <1>1, FlattenRuns
<1>7. h[M] = f[M]
  <2> DEFINE P == {n \in 0 .. M : h[n] = f[n]}
  <2>1. 0 \in P
    BY <1>1, <1>4, <1>6 DEF Flattens
  <2>2. ASSUME NEW n \in 0 .. M - 1, n \in P PROVE n + 1 \in P
    <3>1. n + 1 \in 1 .. M /\ n + 1 \in 1 .. Len(c) /\ (n + 1) - 1 = n /\ n + 1 \in 0 .. M
      BY <1>1
    <3>2. h[n + 1] = h[n] \o c[n + 1]
      BY <1>6, <3>1 DEF Flattens
    <3>3. f[n + 1] = f[n] \o a[n + 1]
      BY <1>4, <3>1 DEF Flattens, M
    <3>4. c[n + 1] = a[n + 1]
      BY <1>2, <3>1
    <3> QED
      BY <2>2, <3>1, <3>2, <3>3, <3>4
  <2> HIDE DEF P
  <2>3. \A n \in 0 .. M : n \in P
    BY <1>1, <2>1, <2>2, Stepwise
  <2> QED
    BY <1>1, <2>3 DEF P
<1>8. h[M + N] = f[M] \o g[N]
  <2> DEFINE P == {n \in 0 .. N : h[M + n] = f[M] \o g[n]}
  <2>1. 0 \in P
    <3>1. f[M] \in Seq(S) /\ g[0] = <<>> /\ M + 0 = M /\ 0 \in 0 .. N
      BY <1>1, <1>4, <1>5 DEF Flattens
    <3>2. f[M] \o <<>> = f[M]
      BY <3>1, ConcatEmptySeq
    <3>3. h[M + 0] = f[M] \o g[0]
      BY <1>7, <3>1, <3>2
    <3> QED
      BY <3>1, <3>3
  <2>2. ASSUME NEW n \in 0 .. N - 1, n \in P PROVE n + 1 \in P
    <3>1. /\ n + 1 \in 1 .. N /\ M + (n + 1) \in 1 .. Len(c) /\ (M + (n + 1)) - 1 = M + n
          /\ n + 1 \in 0 .. N /\ (n + 1) - 1 = n /\ n \in 0 .. N /\ M \in 0 .. M
      BY <1>1
    <3>2. h[M + (n + 1)] = h[M + n] \o c[M + (n + 1)]
      BY <1>6, <3>1 DEF Flattens
    <3>3. g[n + 1] = g[n] \o b[n + 1]
      BY <1>5, <3>1 DEF Flattens, N
    <3>4. c[M + (n + 1)] = b[n + 1] /\ b[n + 1] \in Seq(S)
      BY <1>3, <3>1
    <3>5. f[M] \in Seq(S) /\ g[n] \in Seq(S)
      BY <1>4, <1>5, <3>1
    <3> DEFINE x == f[M]
               y == g[n]
               z == b[n + 1]
    <3>6. (x \o y) \o z = x \o (y \o z)
      <4>1. x \in Seq(S) /\ y \in Seq(S) /\ z \in Seq(S)
        BY <3>4, <3>5
      <4> HIDE DEF x, y, z
      <4> QED
        BY <4>1, ConcatAssociative
    <3>7. h[M + n] = x \o y
      BY <2>2
    <3>8. h[M + (n + 1)] = x \o g[n + 1]
      BY <3>2, <3>3, <3>4, <3>6, <3>7
    <3> QED
      BY <3>1, <3>8
  <2> HIDE DEF P
  <2>3. \A n \in 0 .. N : n \in P
    BY <1>1, <2>1, <2>2, Stepwise
  <2> QED
    BY <1>1, <2>3 DEF P
<1> QED
  BY <1>4, <1>5, <1>6, <1>8 DEF c

LEMMA FlattenOne ==
  ASSUME NEW S, NEW x \in Seq(S)
  PROVE  FlattenSeq(<<x>>) = x /\ FlattenSeq(<<>>) = <<>>
<1>1. <<x>> \in Seq(Seq(S)) /\ Len(<<x>>) = 1 /\ <<x>>[1] = x
  OBVIOUS
<1>2. PICK f \in [0 .. 1 -> Seq(S)] : Flattens(f, <<x>>) /\ FlattenSeq(<<x>>) = f[1]
  BY <1>1, FlattenRuns
<1>3. f[1] = <<>> \o x
  <2>1. 1 \in 1 .. Len(<<x>>) /\ 1 - 1 = 0
    BY <1>1
  <2> QED
    BY <1>1, <1>2, <2>1 DEF Flattens
<1>4. FlattenSeq(<<>>) = <<>>
  BY DEF FlattenSeq
<1> QED
  BY <1>2, <1>3, <1>4, ConcatEmptySeq

-----------------------------------------------------------------------------
(***************************************************************************)
(* What robsd-regress-log prints.                                          *)
(***************************************************************************)

\* Parts after the first, each behind an empty line.
Led(parts) == [i \in DOMAIN parts |-> <<NewLine>> \o parts[i]]
Apart(parts) == [i \in DOMAIN parts |-> IF i = 1 THEN parts[i] ELSE <<NewLine>> \o parts[i]]

LEMMA LedTyped ==
  ASSUME NEW L, NewLine \in L, NEW parts \in Seq(Seq(L))
  PROVE  /\ Led(parts) \in Seq(Seq(L)) /\ Len(Led(parts)) = Len(parts)
         /\ Apart(parts) \in Seq(Seq(L)) /\ Len(Apart(parts)) = Len(parts)
<1> DEFINE N == Len(parts)
<1>1. N \in Nat /\ DOMAIN parts = 1 .. N
  OBVIOUS
<1>2. \A i \in 1 .. N : parts[i] \in Seq(L)
  OBVIOUS
<1>3. <<NewLine>> \in Seq(L)
  OBVIOUS
<1>4. \A i \in 1 .. N : <<NewLine>> \o parts[i] \in Seq(L)
  <2> DEFINE nl == <<NewLine>>
  <2> SUFFICES ASSUME NEW i \in 1 .. N PROVE nl \o parts[i] \in Seq(L)
    OBVIOUS
  <2> HIDE DEF nl, N
  <2> QED
    BY <1>2, <1>3, ConcatProperties DEF nl
<1> HIDE DEF N
<1>5. Led(parts) \in [1 .. N -> Seq(L)] /\ Apart(parts) \in [1 .. N -> Seq(L)]
  BY <1>1, <1>2, <1>4 DEF Led, Apart
<1>6. \A f \in [1 .. N -> Seq(L)] : f \in Seq(Seq(L)) /\ Len(f) = N
  BY <1>1 DEF N
<1> QED
  BY <1>5, <1>6 DEF N

LEMMA LedIs ==
  ASSUME NEW L, NewLine \in L, NEW b \in Seq(Seq(L)), b # <<>>
  PROVE  FlattenSeq(Led(b)) = <<NewLine>> \o Joined(b)
<1> DEFINE R == [i \in 1 .. Len(b) - 1 |-> <<NewLine>> \o b[i + 1]]
           nl == <<NewLine>>
           N == Len(b)
<1>1. N \in Nat /\ N >= 1 /\ b[1] \in Seq(L) /\ nl \in Seq(L)
  OBVIOUS
<1>2. \A i \in 1 .. N - 1 : i + 1 \in 1 .. N /\ i + 1 # 1
  BY <1>1
<1>3. \A i \in 1 .. N : b[i] \in Seq(L) /\ nl \o b[i] \in Seq(L)
  <2> SUFFICES ASSUME NEW i \in 1 .. N PROVE b[i] \in Seq(L) /\ nl \o b[i] \in Seq(L)
    OBVIOUS
  <2>1. b[i] \in Seq(L)
    OBVIOUS
  <2> HIDE DEF nl, N
  <2> QED
    BY <1>1, <2>1, ConcatProperties
<1>4. R \in Seq(Seq(L)) /\ Len(R) = N - 1
  <2> HIDE DEF N
  <2>1. R \in [1 .. N - 1 -> Seq(L)] /\ N - 1 \in Nat
    BY <1>1, <1>2, <1>3 DEF N
  <2> QED
    BY <2>1, IsASeq
<1> DEFINE x == nl \o b[1]
           y == b[1]
           X == <<x>>
           Y == <<y>>
<1>5. x \in Seq(L) /\ y \in Seq(L) /\ X \in Seq(Seq(L)) /\ Y \in Seq(Seq(L))
      /\ Len(X) = 1 /\ Len(Y) = 1 /\ X[1] = x /\ Y[1] = y
  <2>1. x \in Seq(L) /\ y \in Seq(L)
    BY <1>1, <1>3
  <2> HIDE DEF x, y
  <2> QED
    BY <2>1
<1>6. Led(b) = X \o R
  <2> DEFINE u == Led(b)
             v == X \o R
  <2>1. u \in Seq(Seq(L)) /\ Len(u) = N
    BY LedTyped
  <2>2. /\ v \in Seq(Seq(L)) /\ Len(v) = N
        /\ v[1] = x /\ \A i \in 1 .. N - 1 : v[i + 1] = R[i]
    <3> DEFINE T == Seq(L)
               K == N - 1
               one == 1
    <3>0. X \in Seq(T) /\ R \in Seq(T) /\ one = Len(X) /\ K = Len(R) /\ v = X \o R
          /\ one \in Nat /\ K \in Nat
      BY <1>4, <1>5
    <3> HIDE DEF X, R, N, x, v, T, K, one
    <3>1. /\ v \in Seq(T) /\ Len(v) = one + K
          /\ \A i \in 1 .. one : v[i] = X[i]
          /\ \A i \in 1 .. K : v[one + i] = R[i]
      BY <3>0, ConcatAt
    <3>2. 1 + K = N /\ \A i \in 1 .. K : 1 + i = i + 1
      BY <1>1 DEF K
    <3> USE DEF T, K, one
    <3> QED
      BY <1>5, <3>1, <3>2
  <2>3. \A i \in 1 .. N : u[i] = v[i]
    <3>1. u[1] = x
      BY <1>1 DEF Led
    <3>2. \A i \in 1 .. N - 1 : u[i + 1] = <<NewLine>> \o b[i + 1] /\ R[i] = <<NewLine>> \o b[i + 1]
      BY <1>2 DEF Led
    <3>3. \A i \in 1 .. N : i = 1 \/ (i - 1 \in 1 .. N - 1 /\ (i - 1) + 1 = i)
      BY <1>1
    <3> HIDE DEF u, v, R, N, x
    <3> QED
      BY <2>2, <3>1, <3>2, <3>3
  <2> HIDE DEF u, v
  <2>4. u = v
    BY <2>1, <2>2, <2>3, SeqEqual
  <2> QED
    BY <2>4 DEF u, v
<1>7. Apart(b) = Y \o R
  <2> DEFINE u == Apart(b)
             v == Y \o R
  <2>1. u \in Seq(Seq(L)) /\ Len(u) = N
    BY LedTyped
  <2>2. /\ v \in Seq(Seq(L)) /\ Len(v) = N
        /\ v[1] = y /\ \A i \in 1 .. N - 1 : v[i + 1] = R[i]
    <3> DEFINE T == Seq(L)
               K == N - 1
               one == 1
    <3>0. Y \in Seq(T) /\ R \in Seq(T) /\ one = Len(Y) /\ K = Len(R) /\ v = Y \o R
          /\ one \in Nat /\ K \in Nat
      BY <1>4, <1>5
    <3> HIDE DEF Y, R, N, y, v, T, K, one
    <3>1. /\ v \in Seq(T) /\ Len(v) = one + K
          /\ \A i \in 1 .. one : v[i] = Y[i]
          /\ \A i \in 1 .. K : v[one + i] = R[i]
      BY <3>0, ConcatAt
    <3>2. 1 + K = N /\ \A i \in 1 .. K : 1 + i = i + 1
      BY <1>1 DEF K
    <3> USE DEF T, K, one
    <3> QED
      BY <1>5, <3>1, <3>2
  <2>3. \A i \in 1 .. N : u[i] = v[i]
    <3>1. u[1] = y
      BY <1>1 DEF Apart
    <3>2. \A i \in 1 .. N - 1 : u[i + 1] = <<NewLine>> \o b[i + 1] /\ R[i] = <<NewLine>> \o b[i + 1]
      BY <1>2 DEF Apart
    <3>3. \A i \in 1 .. N : i = 1 \/ (i - 1 \in 1 .. N - 1 /\ (i - 1) + 1 = i)
      BY <1>1
    <3> HIDE DEF u, v, R, N, y
    <3> QED
      BY <2>2, <3>1, <3>2, <3>3
  <2> HIDE DEF u, v
  <2>4. u = v
    BY <2>1, <2>2, <2>3, SeqEqual
  <2> QED
    BY <2>4 DEF u, v
<1> DEFINE r == FlattenSeq(R)
<1>8. r \in Seq(L)
  <2> HIDE DEF R
  <2> QED
    BY <1>4, FlattenTyped
<1>9. FlattenSeq(X \o R) = x \o r /\ FlattenSeq(Y \o R) = y \o r
  <2> HIDE DEF R, x, y
  <2>1. FlattenSeq(X) = x /\ FlattenSeq(Y) = y
    BY <1>5, FlattenOne
  <2> HIDE DEF X, Y
  <2> QED
    BY <1>4, <1>5, <2>1, FlattenConcat
<1>10. x \o r = nl \o (y \o r)
  <2>1. nl \in Seq(L) /\ y \in Seq(L) /\ r \in Seq(L) /\ x = nl \o y
    BY <1>1, <1>5, <1>8
  <2> HIDE DEF y, r, nl, x
  <2> QED
    BY <2>1, ConcatAssociative
<1>11. Joined(b) = FlattenSeq(Apart(b))
  BY DEF Joined, Apart
<1> HIDE DEF X, Y, x, y, r, R
<1> QED
  BY <1>6, <1>7, <1>9, <1>10, <1>11

LEMMA JoinedConcat ==
  ASSUME NEW L, NewLine \in L, NEW a \in Seq(Seq(L)), a # <<>>, NEW b \in Seq(Seq(L)), b # <<>>
  PROVE  Joined(a \o b) = Joined(a) \o (<<NewLine>> \o Joined(b))
<1> DEFINE M == Len(a)
           N == Len(b)
           c == a \o b
           u == Apart(c)
           x == Apart(a)
           y == Led(b)
           v == x \o y
<1>1. M \in Nat /\ M >= 1 /\ N \in Nat /\ c \in Seq(Seq(L)) /\ Len(c) = M + N
  OBVIOUS
<1>2. /\ \A i \in 1 .. M : c[i] = a[i]
      /\ \A i \in 1 .. N : c[M + i] = b[i]
  OBVIOUS
<1>3. /\ u \in Seq(Seq(L)) /\ Len(u) = M + N /\ x \in Seq(Seq(L)) /\ Len(x) = M
      /\ y \in Seq(Seq(L)) /\ Len(y) = N
  <2> HIDE DEF c
  <2> QED
    BY <1>1, LedTyped
<1>4. /\ v \in Seq(Seq(L)) /\ Len(v) = M + N
      /\ \A i \in 1 .. M : v[i] = x[i]
      /\ \A i \in 1 .. N : v[M + i] = y[i]
  <2> DEFINE T == Seq(L)
  <2>1. x \in Seq(T) /\ y \in Seq(T) /\ M = Len(x) /\ N = Len(y) /\ v = x \o y /\ M \in Nat /\ N \in Nat
    BY <1>1, <1>3
  <2> HIDE DEF x, y, M, N, v, T
  <2>2. /\ v \in Seq(T) /\ Len(v) = M + N
        /\ \A i \in 1 .. M : v[i] = x[i]
        /\ \A i \in 1 .. N : v[M + i] = y[i]
    BY <2>1, ConcatAt
  <2> QED
    BY <2>2 DEF T
<1>5. \A i \in 1 .. M : u[i] = x[i]
  <2> SUFFICES ASSUME NEW i \in 1 .. M PROVE u[i] = x[i]
    OBVIOUS
  <2>1. i \in DOMAIN a /\ i \in DOMAIN c
    BY <1>1
  <2> HIDE DEF c
  <2> QED
    BY <1>2, <2>1 DEF Apart
<1>6. \A i \in 1 .. N : u[M + i] = y[i]
  <2> SUFFICES ASSUME NEW i \in 1 .. N PROVE u[M + i] = y[i]
    OBVIOUS
  <2>1. i \in DOMAIN b /\ M + i \in DOMAIN c /\ M + i # 1
    BY <1>1
  <2> HIDE DEF c, M
  <2> QED
    BY <1>2, <2>1 DEF Apart, Led
<1>7. \A i \in 1 .. M + N : i \in 1 .. M \/ (i - M \in 1 .. N /\ M + (i - M) = i)
  BY <1>1
<1> HIDE DEF u, v, x, y, M, N
<1>8. \A i \in 1 .. Len(u) : u[i] = v[i]
  <2> SUFFICES ASSUME NEW i \in 1 .. M + N PROVE u[i] = v[i]
    BY <1>3
  <2>1. CASE i \in 1 .. M
    BY <1>4, <1>5, <2>1
  <2>2. CASE i - M \in 1 .. N /\ M + (i - M) = i
    <3>1. u[M + (i - M)] = y[i - M] /\ v[M + (i - M)] = y[i - M]
      BY <1>4, <1>6, <2>2
    <3> QED
      BY <2>2, <3>1
  <2> QED
    BY <1>7, <2>1, <2>2
<1>9. u = v
  BY <1>3, <1>4, <1>8, SeqEqual
<1>10. FlattenSeq(v) = FlattenSeq(x) \o FlattenSeq(y)
  BY <1>3, FlattenConcat DEF v
<1>11. FlattenSeq(y) = <<NewLine>> \o Joined(b)
  BY LedIs DEF y
<1>12. Joined(c) = FlattenSeq(u) /\ Joined(a) = FlattenSeq(x)
  BY DEF Joined, Apart, u, x
<1> QED
  BY <1>9, <1>10, <1>11, <1>12 DEF c

LEMMA EmptyConcat ==
  ASSUME NEW S, NEW x \in Seq(S)
  PROVE  <<>> \o x = x /\ x \o <<>> = x
BY ConcatEmptySeq

LEMMA FrontOfAppend ==
  ASSUME NEW S, NEW x \in Seq(S), NEW e \in S
  PROVE  Front(Append(x, e)) = x
<1> DEFINE u == SubSeq(Append(x, e), 1, Len(Append(x, e)) - 1)
<1>1. u \in Seq(S) /\ Len(u) = Len(x) /\ \A i \in 1 .. Len(u) : u[i] = x[i]
  <2> DEFINE v == Append(x, e)
             n == Len(v) - 1
  <2>1. v \in Seq(S) /\ Len(v) = Len(x) + 1 /\ n = Len(x) /\ n \in Nat /\ \A i \in 1 .. n : v[i] = x[i]
    OBVIOUS
  <2> HIDE DEF v, n
  <2>2. u = SubSeq(v, 1, n)
    BY DEF v, n
  <2>3. SubSeq(v, 1, n) \in Seq(S) /\ Len(SubSeq(v, 1, n)) = n /\ \A i \in 1 .. n : SubSeq(v, 1, n)[i] = v[i]
    BY <2>1
  <2> QED
    BY <2>1, <2>2, <2>3
<1> HIDE DEF u
<1>2. u = x
  BY <1>1, SeqEqual
<1> QED
  BY <1>2 DEF u, Front

\* Without REGRESS_LOG_NEWLINE the targets are apart by a line end.
LEMMA ExtractJoined ==
  ASSUME NEW L, NewLine \in L, NEW log \in Seq(L), NEW want
  PROVE  /\ Extract(log, want, FALSE) = Joined(TargetsIn(log, want))
         /\ TargetsIn(log, want) \in Seq(Seq(L))
<1> DEFINE found == Targets(log, want)
           X == [i \in DOMAIN found |->
                  (IF i = 1 /\ ~FALSE THEN <<>> ELSE <<NewLine>>) \o found[i]]
<1>1. found \in Seq(Seq(L)) /\ found = TargetsIn(log, want)
  BY ScanFinds
<1>2. \A i \in DOMAIN found : <<>> \o found[i] = found[i]
  <2> HIDE DEF found
  <2> SUFFICES ASSUME NEW i \in DOMAIN found PROVE <<>> \o found[i] = found[i]
    OBVIOUS
  <2>1. found[i] \in Seq(L)
    BY <1>1
  <2> QED
    BY <2>1, EmptyConcat
<1>3. X = Apart(found)
  <2> HIDE DEF found
  <2> QED
    BY <1>2 DEF Apart
<1>4. Extract(log, want, FALSE) = FlattenSeq(X)
  BY DEF Extract
<1>5. Joined(found) = FlattenSeq(Apart(found))
  BY DEF Joined, Apart
<1> HIDE DEF X, found
<1> QED
  BY <1>1, <1>3, <1>4, <1>5

-----------------------------------------------------------------------------
(***************************************************************************)
(* regress_log_trim.                                                       *)
(***************************************************************************)

TrimStates(L) == [beg : BOOLEAN, end : Nat, buf : Seq(L)]

TrimStart == [beg |-> TRUE, end |-> 0, buf |-> <<>>]

LEMMA TrimLineTyped ==
  ASSUME NEW L, NEW s \in TrimStates(L), NEW line \in L
  PROVE  TrimLine(s, line) \in TrimStates(L)
BY DEF TrimStates, TrimLine

\* The iterations of regress_log_trim, one for each line.
LEMMA TrimRuns ==
  ASSUME NEW L, NEW log \in Seq(L)
  PROVE  /\ Trimming(log) \in [0 .. Len(log) -> TrimStates(L)]
         /\ Trimming(log)[0] = TrimStart
         /\ \A n \in 1 .. Len(log) : Trimming(log)[n] = TrimLine(Trimming(log)[n - 1], log[n])
<1> DEFINE N == Len(log)
           S == TrimStates(L)
           F(f) == [n \in 0 .. N |-> IF n = 0 THEN TrimStart ELSE TrimLine(f[n - 1], log[n])]
           G == [n \in 1 .. N |-> [s \in S |-> TrimLine(s, log[n])]]
<1>0. N \in Nat
  OBVIOUS
<1>1. N \in Nat /\ \A n \in 1 .. N : log[n] \in L
  OBVIOUS
<1>2. TrimStart \in S
  BY DEF TrimStart, TrimStates
<1>3. G \in [1 .. N -> [S -> S]]
  BY <1>1, TrimLineTyped
<1>4. PICK f \in [0 .. N -> S] : IsRun(f, TrimStart, N, G)
  <2> HIDE DEF G, N, S
  <2> QED
    BY <1>0, <1>2, <1>3, RunExists
<1>5. f = F(f)
  <2>1. \A n \in 1 .. N : f[n] = TrimLine(f[n - 1], log[n])
    <3> SUFFICES ASSUME NEW n \in 1 .. N PROVE f[n] = TrimLine(f[n - 1], log[n])
      OBVIOUS
    <3>1. n - 1 \in 0 .. N /\ G[n] = [s \in S |-> TrimLine(s, log[n])]
      BY <1>0
    <3>2. f[n - 1] \in S
      BY <3>1
    <3> HIDE DEF S, G
    <3> QED
      BY <1>4, <3>1, <3>2 DEF IsRun
  <2> QED
    BY <1>4, <2>1 DEF IsRun
<1>6. Trimming(log) = F(Trimming(log))
  BY <1>5 DEF Trimming, TrimStart
<1> HIDE DEF S
<1> DEFINE h == Trimming(log)
<1>7. h[0] = TrimStart /\ \A n \in 1 .. N : h[n] = TrimLine(h[n - 1], log[n])
  BY <1>1, <1>6
<1>8. \A n \in 0 .. N : h[n] \in S
  <2> DEFINE P == {n \in 0 .. N : h[n] \in S}
  <2>1. 0 \in P
    BY <1>2, <1>7
  <2>2. ASSUME NEW n \in 0 .. N - 1, n \in P PROVE n + 1 \in P
    <3>1. n + 1 \in 1 .. N /\ (n + 1) - 1 = n
      BY <1>1
    <3>2. h[n + 1] = TrimLine(h[n], log[n + 1])
      BY <1>7, <3>1
    <3> QED
      BY <1>1, <2>2, <3>1, <3>2, TrimLineTyped DEF S
  <2> HIDE DEF P, h, N
  <2>3. \A n \in 0 .. N : n \in P
    BY <1>1, <2>1, <2>2, Stepwise
  <2> QED
    BY <2>3 DEF P
<1>9. h \in [0 .. N -> S]
  <2>1. h = [n \in 0 .. N |-> h[n]]
    BY <1>6
  <2> HIDE DEF h
  <2> QED
    BY <1>8, <2>1
<1> QED
  BY <1>7, <1>9 DEF S

\* After n lines: the buffer holds those from the first one, a, that is no trace
\* on, and end is behind the last one, z, that is none, if traces follow it.
FirstAndLast(a, z, log, n) ==
  /\ ~log[a].trace /\ ~log[z].trace
  /\ \A i \in 1 .. n : ~log[i].trace => a <= i /\ i <= z

TrimInv(s, log, n) ==
  \/ s = TrimStart /\ \A i \in 1 .. n : log[i].trace
  \/ /\ ~s.beg
     /\ \E a, z \in 1 .. n :
          /\ FirstAndLast(a, z, log, n)
          /\ s.buf = SubSeq(log, a, n)
          /\ s.end = IF z = n THEN 0 ELSE z - a + 1

LEMMA TrimLineInv ==
  ASSUME NEW L, NEW log \in Seq(L), NEW n \in 0 .. Len(log) - 1,
         NEW s \in TrimStates(L), TrimInv(s, log, n)
  PROVE  TrimInv(TrimLine(s, log[n + 1]), log, n + 1)
<1> DEFINE line == log[n + 1]
           t == TrimLine(s, line)
<1>1. n \in Nat /\ n + 1 \in 1 .. Len(log) /\ line \in L
  OBVIOUS
<1>2. \A i \in 1 .. n + 1 : i = n + 1 \/ i \in 1 .. n
  BY <1>1
<1>3. CASE s = TrimStart /\ \A i \in 1 .. n : log[i].trace
  <2>1. CASE line.trace
    BY <1>2, <1>3, <2>1 DEF TrimInv, TrimLine, TrimStart
  <2>2. CASE ~line.trace
    <3>1. t = [beg |-> FALSE, end |-> 0, buf |-> Append(<<>>, line)]
      BY <1>3, <2>2 DEF TrimLine, TrimStart
    <3>2. Append(<<>>, line) = SubSeq(log, n + 1, n + 1)
      BY <1>1, OneLine
    <3>3. FirstAndLast(n + 1, n + 1, log, n + 1) /\ n + 1 \in 1 .. n + 1
      BY <1>1, <1>2, <1>3, <2>2 DEF FirstAndLast
    <3>4. ~t.beg /\ t.buf = SubSeq(log, n + 1, n + 1) /\ t.end = 0
      BY <3>1, <3>2
    <3> HIDE DEF t
    <3>5. TrimInv(t, log, n + 1)
      BY <3>3, <3>4 DEF TrimInv
    <3> QED
      BY <3>5 DEF t
  <2> QED
    BY <2>1, <2>2
<1>4. CASE ~(s = TrimStart /\ \A i \in 1 .. n : log[i].trace)
  <2>1. PICK a \in 1 .. n, z \in 1 .. n :
          /\ ~s.beg
          /\ FirstAndLast(a, z, log, n)
          /\ s.buf = SubSeq(log, a, n)
          /\ s.end = IF z = n THEN 0 ELSE z - a + 1
    BY <1>4 DEF TrimInv
  <2>2. a <= z
    BY <2>1 DEF FirstAndLast
  <2>3. Append(s.buf, line) = SubSeq(log, a, n + 1) /\ Len(s.buf) = n - a + 1
    <3>1. Append(SubSeq(log, a, n), log[n + 1]) = SubSeq(log, a, n + 1)
      BY <1>1
    <3>2. Len(SubSeq(log, a, n)) = n - a + 1
      BY <1>1
    <3> QED
      BY <2>1, <3>1, <3>2
  <2>4. t = [beg |-> FALSE,
             end |-> IF ~line.trace THEN 0 ELSE IF s.end = 0 THEN Len(s.buf) ELSE s.end,
             buf |-> Append(s.buf, line)]
    BY <2>1 DEF TrimLine
  <2>5. ~t.beg /\ t.buf = SubSeq(log, a, n + 1)
    BY <2>3, <2>4
  <2>6. a \in 1 .. n + 1 /\ z \in 1 .. n + 1 /\ n + 1 \in 1 .. n + 1 /\ z # n + 1
    BY <1>1
  <2>7. CASE line.trace
    <3>1. FirstAndLast(a, z, log, n + 1)
      BY <1>2, <2>1, <2>7 DEF FirstAndLast
    <3>2. t.end = z - a + 1
      BY <2>1, <2>2, <2>3, <2>4, <2>7
    <3> HIDE DEF t
    <3>5. TrimInv(t, log, n + 1)
      BY <2>5, <2>6, <3>1, <3>2 DEF TrimInv
    <3> QED
      BY <3>5 DEF t
  <2>8. CASE ~line.trace
    <3>1. FirstAndLast(a, n + 1, log, n + 1)
      <4>1. a <= n + 1 /\ \A i \in 1 .. n : i <= n + 1
        BY <1>1
      <4> QED
        BY <1>1, <1>2, <2>1, <2>8, <4>1 DEF FirstAndLast
    <3>2. t.end = 0
      BY <2>4, <2>8
    <3> HIDE DEF t
    <3>5. TrimInv(t, log, n + 1)
      BY <2>5, <2>6, <3>1, <3>2 DEF TrimInv
    <3> QED
      BY <3>5 DEF t
  <2> QED
    BY <2>7, <2>8
<1> QED
  BY <1>3, <1>4

\* regress_log_trim leaves out the traces a log starts and ends with.
LEMMA TrimIs ==
  ASSUME NEW L, NEW log \in Seq(L)
  PROVE  RegressLogTrim(log) = Trimmed(log)
<1> DEFINE N == Len(log)
           s == Trimming(log)
           P == {n \in 0 .. N : TrimInv(s[n], log, n)}
           last == s[N]
           plain == {i \in DOMAIN log : ~log[i].trace}
<1>1. N \in Nat /\ s \in [0 .. N -> TrimStates(L)] /\ s[0] = TrimStart
  BY TrimRuns
<1>2. 0 \in P
  BY <1>1 DEF TrimInv
<1>3. ASSUME NEW n \in 0 .. N - 1, n \in P PROVE n + 1 \in P
  <2>1. n + 1 \in 1 .. N /\ (n + 1) - 1 = n /\ n \in 0 .. N /\ n + 1 \in 0 .. N
    BY <1>1
  <2>2. s[n + 1] = TrimLine(s[n], log[n + 1]) /\ s[n] \in TrimStates(L)
    <3>1. \A k \in 1 .. N : s[k] = TrimLine(s[k - 1], log[k])
      BY TrimRuns
    <3> HIDE DEF s
    <3> QED
      BY <1>1, <2>1, <3>1
  <2>3. TrimInv(s[n + 1], log, n + 1)
    BY <1>3, <2>2, TrimLineInv
  <2> QED
    BY <2>1, <2>3
<1>4. TrimInv(last, log, N) /\ last \in TrimStates(L)
  <2> HIDE DEF P
  <2>1. \A n \in 0 .. N : n \in P
    BY <1>1, <1>2, <1>3, Stepwise
  <2> QED
    BY <1>1, <2>1 DEF P
<1>5. RegressLogTrim(log) = SubSeq(last.buf, 1, IF last.end # 0 THEN last.end ELSE Len(last.buf))
  BY DEF RegressLogTrim
<1>6. Trimmed(log) = IF plain = {} THEN <<>> ELSE SubSeq(log, Min(plain), Max(plain))
  BY DEF Trimmed
<1> HIDE DEF s, P, last
<1>7. CASE last = TrimStart /\ \A i \in 1 .. N : log[i].trace
  <2>1. plain = {}
    BY <1>7
  <2>2. SubSeq(<<>>, 1, Len(<<>>)) = <<>>
    OBVIOUS
  <2> HIDE DEF plain
  <2> QED
    BY <1>5, <1>6, <1>7, <2>1, <2>2 DEF TrimStart
<1>8. CASE ~(last = TrimStart /\ \A i \in 1 .. N : log[i].trace)
  <2>1. PICK a \in 1 .. N, z \in 1 .. N :
          /\ FirstAndLast(a, z, log, N)
          /\ last.buf = SubSeq(log, a, N)
          /\ last.end = IF z = N THEN 0 ELSE z - a + 1
    BY <1>4, <1>8 DEF TrimInv
  <2>2. a <= z
    BY <2>1 DEF FirstAndLast
  <2>3. plain \in SUBSET Int /\ a \in plain /\ z \in plain /\ \A i \in plain : a <= i /\ i <= z
    BY <2>1 DEF FirstAndLast
  <2>4. Min(plain) = a /\ Max(plain) = z
    <3> HIDE DEF plain
    <3> QED
      BY <2>3, MinIs, MaxIs
  <2>5. Trimmed(log) = SubSeq(log, a, z)
    BY <1>6, <2>3, <2>4
  <2>6. Len(SubSeq(log, a, N)) = N - a + 1
    BY <1>1
  <2> DEFINE m == z - a + 1
  <2>7. RegressLogTrim(log) = SubSeq(SubSeq(log, a, N), 1, m)
    <3>1. CASE z = N
      BY <1>1, <1>5, <2>1, <2>6, <3>1
    <3>2. CASE z # N
      <4>1. last.end # 0 /\ last.end = m
        BY <2>1, <2>2, <3>2
      <4> QED
        BY <1>5, <2>1, <4>1
    <3> QED
      BY <3>1, <3>2
  <2>8. SubSeq(SubSeq(log, a, N), 1, m) = SubSeq(log, a + 1 - 1, a + m - 1)
    <3>1. 1 \in Nat /\ m \in Int /\ m <= N - a + 1
      BY <1>1, <2>2
    <3> QED
      BY <1>1, <2>2, SubSeqOfSubSeq
  <2>9. a + 1 - 1 = a /\ a + m - 1 = z
    BY <1>1
  <2> QED
    BY <2>5, <2>7, <2>8, <2>9
<1> QED
  BY <1>7, <1>8

-----------------------------------------------------------------------------
(***************************************************************************)
(* robsd-regress-log.                                                      *)
(***************************************************************************)

TextLines == LogLines \cup {NewLine}

LogFiles == {NoFile} \cup Seq(LogLines)

\* The targets asked for of a file, and those of the files before argument a.
PartOf(file, want) == IF file = NoFile THEN <<>> ELSE TargetsIn(file, want)
FoundBefore(fs, want, a) == FlattenSeq([i \in 1 .. a - 1 |-> PartOf(fs[i], want)])

LEMMA LogIsText ==
  ASSUME NEW log \in Seq(LogLines)
  PROVE  log \in Seq(TextLines)
BY DEF TextLines

LEMMA PartTyped ==
  ASSUME NEW file \in LogFiles, NEW want
  PROVE  PartOf(file, want) \in Seq(Seq(TextLines))
<1>1. CASE file = NoFile
  BY <1>1 DEF PartOf
<1>2. CASE file # NoFile
  <2>1. file \in Seq(LogLines)
    BY <1>2 DEF LogFiles
  <2>2. file \in Seq(TextLines) /\ NewLine \in TextLines
    BY <2>1, LogIsText DEF TextLines
  <2>3. TargetsIn(file, want) \in Seq(Seq(TextLines))
    BY <2>2, ExtractJoined
  <2> QED
    BY <1>2, <2>3 DEF PartOf
<1> QED
  BY <1>1, <1>2

LEMMA BeforeGrows ==
  ASSUME NEW fs \in Seq(LogFiles), NEW want, NEW a \in 1 .. Len(fs)
  PROVE  /\ FoundBefore(fs, want, a) \in Seq(Seq(TextLines))
         /\ FoundBefore(fs, want, 1) = <<>>
         /\ FoundBefore(fs, want, a + 1) = FoundBefore(fs, want, a) \o PartOf(fs[a], want)
<1> DEFINE T == Seq(TextLines)
           u == [i \in 1 .. a - 1 |-> PartOf(fs[i], want)]
           p == PartOf(fs[a], want)
           w == [i \in 1 .. (a + 1) - 1 |-> PartOf(fs[i], want)]
           one == <<p>>
           v == u \o one
           n == a - 1
<1>1. n \in Nat /\ a \in Nat /\ (a + 1) - 1 = a /\ \A i \in 1 .. a : fs[i] \in LogFiles
  OBVIOUS
<1>2. \A i \in 1 .. a : PartOf(fs[i], want) \in Seq(T)
  BY <1>1, PartTyped
<1>3. p \in Seq(T) /\ u \in [1 .. n -> Seq(T)] /\ w \in [1 .. a -> Seq(T)]
  <2>1. \A i \in 1 .. n : i \in 1 .. a
    BY <1>1
  <2>2. a \in 1 .. a
    BY <1>1
  <2> HIDE DEF T
  <2> QED
    BY <1>1, <1>2, <2>1, <2>2
<1>4. u \in Seq(Seq(T)) /\ Len(u) = n /\ w \in Seq(Seq(T)) /\ Len(w) = a
  <2>1. \A k \in Nat : \A f \in [1 .. k -> Seq(T)] : f \in Seq(Seq(T)) /\ Len(f) = k
    BY IsASeq
  <2> HIDE DEF u, w, n, T
  <2> QED
    BY <1>1, <1>3, <2>1
<1>5. one \in Seq(Seq(T)) /\ Len(one) = 1 /\ one[1] = p
  <2> HIDE DEF p, T
  <2> QED
    BY <1>3
<1>6. w = v
  <2> DEFINE R == Seq(T)
             k == 1
  <2>1. u \in Seq(R) /\ one \in Seq(R) /\ n = Len(u) /\ k = Len(one) /\ v = u \o one /\ n \in Nat /\ k \in Nat
    BY <1>1, <1>4, <1>5
  <2>2. \A i \in 1 .. n : u[i] = w[i]
    BY <1>1
  <2>3. w[a] = p
    BY <1>1
  <2> HIDE DEF u, one, v, w, n, R, k, p
  <2>4. /\ v \in Seq(R) /\ Len(v) = n + k
        /\ \A i \in 1 .. n : v[i] = u[i]
        /\ \A i \in 1 .. k : v[n + i] = one[i]
    BY <2>1, ConcatAt
  <2>5. n + k = a /\ n + 1 = a /\ 1 \in 1 .. k /\ \A i \in 1 .. a : i = a \/ i \in 1 .. n
    BY <1>1 DEF n, k
  <2>6. \A i \in 1 .. Len(v) : v[i] = w[i]
    BY <1>5, <2>2, <2>3, <2>4, <2>5
  <2>7. v \in Seq(R) /\ w \in Seq(R) /\ Len(v) = Len(w)
    BY <1>4, <2>4, <2>5 DEF R
  <2> QED
    BY <2>6, <2>7, SeqEqual
<1>7. FlattenSeq(v) = FlattenSeq(u) \o FlattenSeq(one)
  <2> HIDE DEF u, one, T
  <2> QED
    BY <1>4, <1>5, FlattenConcat DEF v
<1>8. FlattenSeq(one) = p
  <2> HIDE DEF p, T
  <2> QED
    BY <1>3, FlattenOne
<1>9. FlattenSeq(u) \in Seq(T)
  <2> HIDE DEF u, T
  <2> QED
    BY <1>4, FlattenTyped
<1>10. FoundBefore(fs, want, 1) = <<>>
  <2>1. [i \in 1 .. 1 - 1 |-> PartOf(fs[i], want)] = <<>>
    OBVIOUS
  <2>2. FlattenSeq(<<>>) = <<>>
    BY DEF FlattenSeq
  <2> QED
    BY <2>1, <2>2 DEF FoundBefore
<1>11. FoundBefore(fs, want, a) = FlattenSeq(u) /\ FoundBefore(fs, want, a + 1) = FlattenSeq(w)
  BY DEF FoundBefore
<1> HIDE DEF u, v, w, one, p
<1> QED
  BY <1>6, <1>7, <1>8, <1>9, <1>10, <1>11 DEF p

\* What the loop over the arguments has done before argument a.
LogInv ==
  /\ logs \in Seq(LogFiles)
  /\ flags \in Flags
  /\ arg \in 0 .. Len(logs) + 1
  /\ bf \in Seq(TextLines)
  /\ lerror \in BOOLEAN
  /\ arg = 0 => nlog = 0 /\ bf = <<>> /\ ~lerror /\ status = -1
  /\ arg > 0 =>
       /\ nlog \in 0 .. arg - 1
       /\ lerror <=> \E i \in 1 .. arg - 1 : logs[i] = NoFile
       /\ ~lerror => /\ bf = Joined(FoundBefore(logs, flags, arg))
                     /\ nlog = 0 <=> FoundBefore(logs, flags, arg) = <<>>
  /\ status # -1 =>
       arg = Len(logs) + 1 /\ status = IF lerror THEN 2 ELSE IF nlog = 0 THEN 1 ELSE 0

LEMMA JoinedEmpty == Joined(<<>>) = <<>>
<1>1. [i \in DOMAIN <<>> |-> IF i = 1 THEN <<>>[i] ELSE <<NewLine>> \o <<>>[i]] = <<>>
  OBVIOUS
<1>2. FlattenSeq(<<>>) = <<>>
  BY DEF FlattenSeq
<1> QED
  BY <1>1, <1>2 DEF Joined

LEMMA JoinedTyped ==
  ASSUME NEW L, NewLine \in L, NEW parts \in Seq(Seq(L))
  PROVE  Joined(parts) \in Seq(L)
<1>1. Joined(parts) = FlattenSeq(Apart(parts))
  BY DEF Joined, Apart
<1>2. Apart(parts) \in Seq(Seq(L))
  BY LedTyped
<1> QED
  BY <1>1, <1>2, FlattenTyped

LEMMA ParseArgInv == LogInv /\ ParseArg => LogInv'
<1> SUFFICES ASSUME LogInv, ParseArg PROVE LogInv'
  OBVIOUS
<1> DEFINE file == logs[arg]
           n    == RegressLogParse(file, flags)
           sep  == IF nlog > 0 THEN Append(bf, NewLine) ELSE bf
           x    == Extract(file, flags, FALSE)
           p    == PartOf(file, flags)
           b    == FoundBefore(logs, flags, arg)
           T    == Seq(TextLines)
<1>1. /\ arg \in 1 .. Len(logs) /\ arg' = arg + 1 /\ file \in LogFiles
      /\ lerror' = (lerror \/ n = -1)
      /\ nlog' = IF n > 0 THEN nlog + 1 ELSE nlog
      /\ bf' = CASE n = -1 -> sep
                 [] n = 0  -> IF nlog > 0 THEN Front(sep) ELSE sep
                 [] n > 0  -> sep \o x
      /\ logs' = logs /\ flags' = flags /\ status' = status /\ status = -1
  BY DEF LogInv, ParseArg
<1>2. /\ logs \in Seq(LogFiles) /\ flags \in Flags /\ bf \in T /\ lerror \in BOOLEAN
      /\ nlog \in 0 .. arg - 1
      /\ lerror <=> \E i \in 1 .. arg - 1 : logs[i] = NoFile
      /\ ~lerror => bf = Joined(b) /\ (nlog = 0 <=> b = <<>>)
  BY <1>1 DEF LogInv
<1>3. sep \in T /\ NewLine \in TextLines
  BY <1>2 DEF TextLines
<1>4. b \in Seq(T) /\ FoundBefore(logs, flags, arg + 1) = b \o p /\ p \in Seq(T)
  BY <1>1, <1>2, BeforeGrows, PartTyped
<1>5. \/ file = NoFile /\ n = -1 /\ p = <<>>
      \/ file # NoFile /\ n \in Nat /\ n = Len(p) /\ x = Joined(p)
  <2>1. CASE file = NoFile
    BY <2>1 DEF RegressLogParse, PartOf
  <2>2. CASE file # NoFile
    <3>1. file \in Seq(LogLines)
      BY <1>1, <2>2 DEF LogFiles
    <3>2. file \in Seq(TextLines)
      BY <3>1, LogIsText
    <3>3. Targets(file, flags) = TargetsIn(file, flags) /\ p = TargetsIn(file, flags)
      BY <2>2, <3>2, ScanFinds DEF PartOf
    <3>4. x = Joined(TargetsIn(file, flags))
      BY <1>3, <3>2, ExtractJoined
    <3>5. n = Len(p) /\ Len(p) \in Nat
      BY <1>4, <2>2, <3>3 DEF RegressLogParse
    <3> QED
      BY <2>2, <3>3, <3>4, <3>5
  <2> QED
    BY <2>1, <2>2
<1> HIDE DEF file, n, x, p, b
<1>6. nlog' \in 0 .. arg /\ arg + 1 \in 0 .. Len(logs) + 1 /\ arg + 1 > 0 /\ (arg + 1) - 1 = arg
  BY <1>1, <1>2
<1>7. lerror' <=> \E i \in 1 .. arg : logs[i] = NoFile
  <2>1. \A i \in 1 .. arg : i = arg \/ i \in 1 .. arg - 1
    BY <1>1
  <2>2. \A i \in 1 .. arg - 1 : i \in 1 .. arg
    BY <1>1
  <2>3. n = -1 <=> logs[arg] = NoFile
    BY <1>5 DEF file
  <2>4. arg \in 1 .. arg
    BY <1>1
  <2> QED
    BY <1>1, <1>2, <2>1, <2>2, <2>3, <2>4
<1>8. bf' \in T
  <2>1. CASE n = -1
    BY <1>1, <1>3, <2>1
  <2>2. CASE n = 0
    <3>1. nlog > 0 => Front(sep) = bf
      BY <1>2, <1>3, FrontOfAppend
    <3> QED
      BY <1>1, <1>2, <1>3, <2>2, <3>1
  <2>3. CASE n \in Nat /\ n > 0
    <3>1. x \in T
      BY <1>3, <1>4, <1>5, <2>3, JoinedTyped
    <3>2. bf' = sep \o x
      BY <1>1, <2>3
    <3> HIDE DEF sep, T
    <3>3. sep \o x \in T
      BY <1>3, <3>1, ConcatProperties DEF T
    <3> QED
      BY <3>2, <3>3
  <2> QED
    BY <1>5, <2>1, <2>2, <2>3
<1>9. ASSUME ~lerror' PROVE bf' = Joined(b \o p) /\ (nlog' = 0 <=> b \o p = <<>>)
  <2>1. ~lerror /\ file # NoFile /\ n \in Nat /\ n = Len(p) /\ x = Joined(p)
    BY <1>1, <1>5, <1>9
  <2>2. bf = Joined(b) /\ (nlog = 0 <=> b = <<>>)
    BY <1>2, <2>1
  <2> DEFINE U == Seq(TextLines)
  <2>3. CASE n = 0
    <3>1. p = <<>>
      <4> HIDE DEF T
      <4>1. p \in Seq(T) /\ Len(p) = 0
        BY <1>4, <2>1, <2>3
      <4> QED
        BY <4>1, EmptySeq
    <3>2. b \o p = b
      BY <1>4, <3>1, EmptyConcat
    <3>3. nlog > 0 => Front(sep) = bf
      BY <1>2, <1>3, FrontOfAppend
    <3>4. bf' = bf /\ nlog' = nlog
      BY <1>1, <1>2, <2>3, <3>3
    <3> QED
      BY <2>2, <3>2, <3>4
  <2>4. CASE n > 0
    <3>1. p # <<>>
      BY <2>1, <2>4
    <3>2. bf' = sep \o x /\ nlog' = nlog + 1 /\ nlog' # 0
      BY <1>1, <1>2, <2>1, <2>4
    <3>3. b \o p # <<>>
      <4> HIDE DEF T
      <4>1. Len(b \o p) = Len(b) + Len(p) /\ Len(b) \in Nat /\ Len(<<>>) = 0
        BY <1>4
      <4> QED
        BY <2>1, <2>4, <4>1
    <3>4. CASE nlog = 0
      <4>1. b = <<>> /\ sep = <<>>
        BY <2>2, <3>4, JoinedEmpty
      <4>2. b \o p = p
        BY <1>4, <4>1, EmptyConcat
      <4>3. Joined(p) \in Seq(TextLines)
        BY <1>3, <1>4, JoinedTyped
      <4>4. <<>> \o Joined(p) = Joined(p)
        BY <4>3, EmptyConcat
      <4> QED
        BY <2>1, <3>2, <3>3, <4>1, <4>2, <4>4
    <3>5. CASE nlog # 0
      <4>1. b # <<>> /\ sep = Append(Joined(b), NewLine)
        BY <1>2, <2>2, <3>5
      <4>2. Joined(b \o p) = Joined(b) \o (<<NewLine>> \o Joined(p))
        BY <1>3, <1>4, <3>1, <4>1, JoinedConcat
      <4> DEFINE jb == Joined(b)
                 jp == Joined(p)
                 nl == <<NewLine>>
      <4>3. jb \in Seq(TextLines) /\ jp \in Seq(TextLines) /\ nl \in Seq(TextLines)
        BY <1>3, <1>4, JoinedTyped
      <4>4. Append(jb, NewLine) = jb \o nl
        BY <1>3, <4>3, AppendIsConcat
      <4>5. (jb \o nl) \o jp = jb \o (nl \o jp)
        <5> HIDE DEF jb, jp, nl
        <5> QED
          BY <4>3, ConcatAssociative
      <4> QED
        BY <2>1, <3>2, <3>3, <4>1, <4>2, <4>4, <4>5
    <3> QED
      BY <3>4, <3>5
  <2> QED
    BY <2>1, <2>3, <2>4
<1>10. (arg > 0 /\ arg + 1 # 0)
  BY <1>1
<1> HIDE DEF sep, T
<1> QED
  BY <1>1, <1>2, <1>4, <1>6, <1>7, <1>8, <1>9, <1>10 DEF LogInv, T

LEMMA LogInvInit == LogInit => LogInv
<1> SUFFICES ASSUME LogInit PROVE LogInv
  OBVIOUS
<1>1. logs \in Seq(LogFiles)
  <2>1. <<>> \in LogFiles /\ NoFile \in LogFiles
    BY DEF LogFiles
  <2>2. \A x \in LogFiles : <<x, x>> \in Seq(LogFiles)
    OBVIOUS
  <2>3. \A x, y \in LogFiles : <<x, y, x>> \in Seq(LogFiles)
    OBVIOUS
  <2> QED
    BY <2>1, <2>2, <2>3 DEF LogInit
<1>2. bf \in Seq(TextLines)
  BY DEF LogInit
<1>3. 0 \in 0 .. Len(logs) + 1
  BY <1>1
<1>4. flags \in Flags /\ arg = 0 /\ nlog = 0 /\ bf = <<>> /\ lerror = FALSE /\ status = -1
  BY DEF LogInit
<1>5. ~(arg > 0) /\ ~(status # -1)
  BY <1>4
<1> QED
  BY <1>1, <1>2, <1>3, <1>4, <1>5 DEF LogInv

LEMMA LogInvNext == LogInv /\ [LogNext]_logVars => LogInv'
<1> SUFFICES ASSUME LogInv, [LogNext]_logVars PROVE LogInv'
  OBVIOUS
<1>0. logs \in Seq(LogFiles) /\ Len(logs) \in Nat
  BY DEF LogInv
<1>1. ASSUME NEW i \in DOMAIN logs, NEW line \in LogLines, WriteLine(i, line) PROVE LogInv'
  <2>1. logs[i] \in Seq(LogLines)
    BY <1>0, <1>1 DEF WriteLine, LogFiles
  <2>2. Append(logs[i], line) \in LogFiles
    BY <2>1 DEF LogFiles
  <2>3. logs' \in Seq(LogFiles) /\ Len(logs') = Len(logs)
    <3>1. logs' = [logs EXCEPT ![i] = Append(@, line)]
      BY <1>1 DEF WriteLine
    <3> QED
      BY <1>0, <2>2, <3>1
  <2> QED
    BY <1>0, <1>1, <2>3 DEF LogInv, WriteLine
<1>2. CASE Main
  <2>1. arg = 0 /\ arg' = 1 /\ UNCHANGED <<logs, flags, nlog, bf, lerror, status>>
    BY <1>2 DEF Main
  <2>2. /\ logs \in Seq(LogFiles) /\ flags \in Flags /\ bf \in Seq(TextLines)
        /\ nlog = 0 /\ bf = <<>> /\ ~lerror /\ lerror \in BOOLEAN /\ status = -1
    BY <2>1 DEF LogInv
  <2>3. FoundBefore(logs, flags, 1) = <<>> /\ Joined(<<>>) = <<>>
    <3>1. [j \in 1 .. 1 - 1 |-> PartOf(logs[j], flags)] = <<>>
      OBVIOUS
    <3>2. FlattenSeq(<<>>) = <<>>
      BY DEF FlattenSeq
    <3> QED
      BY <3>1, <3>2, JoinedEmpty DEF FoundBefore
  <2>4. 1 \in 0 .. Len(logs) + 1 /\ 0 \in 0 .. 1 - 1 /\ 1 .. 1 - 1 = {}
    BY <1>0
  <2> QED
    BY <2>1, <2>2, <2>3, <2>4 DEF LogInv
<1>3. CASE ParseArg
  BY <1>3, ParseArgInv
<1>4. CASE Exit
  BY <1>4 DEF LogInv, Exit
<1>5. CASE UNCHANGED logVars
  BY <1>5 DEF LogInv, logVars
<1> QED
  BY <1>1, <1>2, <1>3, <1>4, <1>5 DEF LogNext

LEMMA LogInvShows == LogInv => LogsRead
<1> SUFFICES ASSUME LogInv PROVE LogsRead
  OBVIOUS
<1>1. logs \in Seq(LogFiles) /\ Len(logs) \in Nat
  BY DEF LogInv
<1>2. \A i \in DOMAIN logs : logs[i] = NoFile \/ logs[i] \in Seq(LogLines)
  BY <1>1 DEF LogFiles
<1>3. status # -1 => arg = Len(logs) + 1 /\ status = IF lerror THEN 2 ELSE IF nlog = 0 THEN 1 ELSE 0
  BY DEF LogInv
<1>4. LogTypeOK
  <2>1. nlog \in 0 .. Len(logs)
    <3>1. arg \in 0 .. Len(logs) + 1
      BY DEF LogInv
    <3>2. CASE arg = 0
      BY <1>1, <3>2 DEF LogInv
    <3>3. CASE arg > 0
      <4>1. nlog \in 0 .. arg - 1
        BY <3>3 DEF LogInv
      <4> QED
        BY <1>1, <3>1, <4>1
    <3> QED
      BY <1>1, <3>1, <3>2, <3>3
  <2>2. status \in -1 .. 2
    BY <1>3
  <2> QED
    BY <1>2, <2>1, <2>2 DEF LogInv, LogTypeOK, TextLines
<1>5. AllTargets = FoundBefore(logs, flags, Len(logs) + 1)
  <2>1. DOMAIN logs = 1 .. (Len(logs) + 1) - 1
    BY <1>1
  <2>2. AllTargets = FlattenSeq([f \in DOMAIN logs |-> PartOf(logs[f], flags)])
    BY DEF AllTargets, PartOf
  <2> QED
    BY <2>1, <2>2 DEF FoundBefore
<1>6. ASSUME status # -1
      PROVE  /\ lerror <=> \E i \in DOMAIN logs : logs[i] = NoFile
             /\ ~lerror => bf = Joined(AllTargets) /\ (nlog = 0 <=> AllTargets = <<>>)
  <2>1. arg = Len(logs) + 1 /\ arg > 0 /\ arg - 1 = Len(logs) /\ DOMAIN logs = 1 .. Len(logs)
    BY <1>1, <1>3, <1>6
  <2> QED
    BY <1>5, <2>1 DEF LogInv
<1>7. status \in {0, 1} => bf = Joined(AllTargets) /\ (status = 0 <=> AllTargets # <<>>)
  BY <1>3, <1>6
<1>8. status = 2 <=> status # -1 /\ \E i \in DOMAIN logs : logs[i] = NoFile
  BY <1>3, <1>6
<1>9. ASSUME NEW i \in DOMAIN logs, logs[i] # NoFile
      PROVE  RegressLogTrim(logs[i]) = Trimmed(logs[i])
  BY <1>2, <1>9, TrimIs
<1> QED
  BY <1>4, <1>7, <1>8, <1>9 DEF LogsRead

\* For logs of any length, any number of files and any outcomes asked for:
\* regress_log_parse extracts each target with such an outcome once and in order,
\* robsd-regress-log prints all of them, one empty line between two, and its exit
\* status tells whether there is any; regress_log_trim takes off the traces in
\* front and at the end, and nothing else.
THEOREM TargetsExtracted == LogSpec => []LogsRead
<1>1. LogInit => LogInv
  BY LogInvInit
<1>2. LogInv /\ [LogNext]_logVars => LogInv'
  BY LogInvNext
<1>3. LogInv => LogsRead
  BY LogInvShows
<1> QED
  BY <1>1, <1>2, <1>3, PTL DEF LogSpec

-----------------------------------------------------------------------------
(***************************************************************************)
(* What is shown of a log.                                                 *)
(***************************************************************************)

\* The last elements of parts that are not empty are in what they make together,
\* in the order of the parts.
LEMMA FlattenEnds ==
  ASSUME NEW S, NEW seqs \in Seq(Seq(S)), \A i \in 1 .. Len(seqs) : seqs[i] # <<>>
  PROVE  \E e \in [1 .. Len(seqs) -> 1 .. Len(FlattenSeq(seqs))] :
           /\ \A i \in 1 .. Len(seqs) : FlattenSeq(seqs)[e[i]] = seqs[i][Len(seqs[i])]
           /\ \A i, j \in 1 .. Len(seqs) : i < j => e[i] < e[j]
<1> DEFINE N == Len(seqs)
           T == Seq(S)
<1>1. PICK f \in [0 .. N -> T] : Flattens(f, seqs) /\ FlattenSeq(seqs) = f[N]
  BY FlattenRuns
<1>2. N \in Nat /\ \A i \in 1 .. N : seqs[i] \in T
  OBVIOUS
<1>3. \A i \in 1 .. N : Len(seqs[i]) \in Nat \ {0}
  BY <1>2, EmptySeq
<1> DEFINE Ended(i, m) == Len(f[i]) \in 1 .. Len(f[m]) /\ f[m][Len(f[i])] = seqs[i][Len(seqs[i])]
           P == {m \in 0 .. N : \A i \in 1 .. m : Ended(i, m)}
<1>4. \A i \in 1 .. N : f[i] = f[i - 1] \o seqs[i]
  BY <1>1 DEF Flattens
<1> HIDE DEF N
<1>5. ASSUME NEW m \in 0 .. N - 1
      PROVE  /\ m + 1 \in 1 .. N /\ Len(f[m + 1]) = Len(f[m]) + Len(seqs[m + 1])
             /\ Len(f[m]) \in Nat /\ f[m] \in T /\ f[m + 1] \in T
             /\ \A k \in 1 .. Len(f[m]) : f[m + 1][k] = f[m][k]
             /\ \A k \in 1 .. Len(seqs[m + 1]) : f[m + 1][Len(f[m]) + k] = seqs[m + 1][k]
  <2>1. m + 1 \in 1 .. N /\ (m + 1) - 1 = m /\ m \in 0 .. N /\ m + 1 \in 0 .. N
    BY <1>2
  <2> DEFINE x == f[m]
             y == seqs[m + 1]
             z == f[m + 1]
             a == Len(x)
             b == Len(y)
  <2>2. x \in T /\ y \in T /\ z \in T /\ z = x \o y
    BY <1>1, <1>2, <1>4, <2>1
  <2> HIDE DEF x, y, z
  <2>3. a = Len(x) /\ b = Len(y) /\ a \in Nat /\ b \in Nat
    BY <2>2
  <2> HIDE DEF a, b
  <2>4. /\ z \in Seq(S) /\ Len(z) = a + b
        /\ \A i \in 1 .. a : z[i] = x[i]
        /\ \A i \in 1 .. b : z[a + i] = y[i]
    BY <2>2, <2>3, ConcatAt
  <2> QED
    BY <2>1, <2>2, <2>3, <2>4 DEF x, y, z, a, b
<1>6. 0 \in P
  BY <1>2
<1>7. ASSUME NEW m \in 0 .. N - 1, m \in P PROVE m + 1 \in P
  <2>1. m + 1 \in 1 .. N /\ m + 1 \in 0 .. N /\ \A i \in 1 .. m + 1 : i = m + 1 \/ i \in 1 .. m
    BY <1>2
  <2>2. Len(seqs[m + 1]) \in Nat /\ Len(seqs[m + 1]) \in 1 .. Len(seqs[m + 1])
    BY <1>3, <2>1
  <2>3. Ended(m + 1, m + 1)
    <3> DEFINE a == Len(f[m])
               b == Len(seqs[m + 1])
               z == f[m + 1]
    <3>1. a \in Nat /\ b \in Nat /\ b \in 1 .. b /\ Len(z) = a + b
      BY <1>5, <2>2
    <3>2. z[a + b] = seqs[m + 1][b]
      BY <1>5, <2>2
    <3> HIDE DEF a, b, z
    <3>3. Len(z) \in 1 .. Len(z) /\ z[Len(z)] = seqs[m + 1][b]
      BY <3>1, <3>2
    <3> QED
      BY <3>3 DEF a, b, z
  <2>4. ASSUME NEW i \in 1 .. m PROVE Ended(i, m + 1)
    <3>1. Ended(i, m)
      BY <1>7
    <3>2. Len(f[m]) \in Nat /\ Len(f[m + 1]) = Len(f[m]) + Len(seqs[m + 1])
      BY <1>5
    <3>3. Len(f[i]) \in 1 .. Len(f[m + 1])
      <4> DEFINE a == Len(f[i])
                 b == Len(f[m])
                 c == Len(seqs[m + 1])
                 d == Len(f[m + 1])
      <4>1. a \in 1 .. b /\ b \in Nat /\ c \in Nat /\ d = b + c
        BY <2>2, <3>1, <3>2
      <4> HIDE DEF a, b, c, d
      <4>2. a \in 1 .. d
        BY <4>1
      <4> QED
        BY <4>2 DEF a, d
    <3>4. f[m + 1][Len(f[i])] = f[m][Len(f[i])]
      BY <1>5, <3>1
    <3> QED
      BY <3>1, <3>3, <3>4
  <2> HIDE DEF Ended
  <2> QED
    BY <2>1, <2>3, <2>4
<1> HIDE DEF P, Ended
<1>8. \A m \in 0 .. N : m \in P
  BY <1>2, <1>6, <1>7, Stepwise
<1> DEFINE e == [i \in 1 .. N |-> Len(f[i])]
<1>9. \A m \in 0 .. N : \A i \in 1 .. m : Ended(i, m)
  BY <1>8 DEF P
<1>10. \A i \in 1 .. N : Ended(i, N)
  BY <1>2, <1>9
<1>11. e \in [1 .. N -> 1 .. Len(f[N])] /\ \A i \in 1 .. N : f[N][e[i]] = seqs[i][Len(seqs[i])]
  BY <1>10 DEF Ended
<1>12. ASSUME NEW i \in 1 .. N, NEW j \in 1 .. N, i < j PROVE e[i] < e[j]
  <2>1. j - 1 \in 0 .. N - 1 /\ (j - 1) + 1 = j /\ i \in 1 .. j - 1 /\ j - 1 \in 0 .. N
    BY <1>2, <1>12
  <2>2. Len(f[i]) \in 1 .. Len(f[j - 1])
    BY <1>9, <2>1 DEF Ended
  <2>3. Len(f[j]) = Len(f[j - 1]) + Len(seqs[j]) /\ Len(f[j - 1]) \in Nat
    <3>1. Len(f[(j - 1) + 1]) = Len(f[j - 1]) + Len(seqs[(j - 1) + 1]) /\ Len(f[j - 1]) \in Nat
      BY <1>5, <2>1
    <3> QED
      BY <2>1, <3>1
  <2>4. Len(seqs[j]) \in Nat \ {0}
    BY <1>3
  <2> DEFINE a == Len(f[i])
             b == Len(f[j - 1])
             c == Len(seqs[j])
             d == Len(f[j])
  <2>5. a < d
    <3>1. a \in 1 .. b /\ b \in Nat /\ c \in Nat \ {0} /\ d = b + c
      BY <2>2, <2>3, <2>4
    <3> HIDE DEF a, b, c, d
    <3> QED
      BY <3>1
  <2>6. e[i] = a /\ e[j] = d
    OBVIOUS
  <2> HIDE DEF a, d, e
  <2> QED
    BY <2>5, <2>6
<1> HIDE DEF e
<1> QED
  BY <1>1, <1>11, <1>12 DEF N

LEMMA ExtractTyped ==
  ASSUME NEW L, NewLine \in L, NEW log \in Seq(L), NEW want, NEW newline
  PROVE  Extract(log, want, newline) \in Seq(L)
<1> DEFINE found == Targets(log, want)
           X == [i \in DOMAIN found |->
                  (IF i = 1 /\ ~newline THEN <<>> ELSE <<NewLine>>) \o found[i]]
<1>1. found \in Seq(Seq(L)) /\ DOMAIN found = 1 .. Len(found) /\ Len(found) \in Nat
  <2>1. found \in Seq(Seq(L))
    BY ScanFinds
  <2> HIDE DEF found
  <2> QED
    BY <2>1
<1> HIDE DEF found
<1>2. X \in [1 .. Len(found) -> Seq(L)]
  <2>1. ASSUME NEW i \in 1 .. Len(found), NEW a \in Seq(L) PROVE a \o found[i] \in Seq(L)
    <3>1. found[i] \in Seq(L)
      BY <1>1
    <3> QED
      BY <3>1, ConcatProperties
  <2>2. <<>> \in Seq(L) /\ <<NewLine>> \in Seq(L)
    OBVIOUS
  <2> QED
    BY <1>1, <2>1, <2>2
<1>3. X \in Seq(Seq(L))
  <2>1. \A k \in Nat : \A f \in [1 .. k -> Seq(L)] : f \in Seq(Seq(L))
    BY IsASeq
  <2> HIDE DEF X
  <2> QED
    BY <1>1, <1>2, <2>1
<1>4. Extract(log, want, newline) = FlattenSeq(X)
  BY DEF Extract, found
<1> HIDE DEF X
<1> QED
  BY <1>3, <1>4, FlattenTyped

\* Each line with an outcome asked for is in what is extracted, in order.
LEMMA ExtractShows ==
  ASSUME NEW L, NewLine \in L, NEW log \in Seq(L), NEW want
  PROVE  Shows(Extract(log, want, FALSE), log, Ends(log, want))
<1> DEFINE found == Targets(log, want)
           X == Apart(found)
           N == Len(found)
           K == Ends(log, want)
           text == Extract(log, want, FALSE)
<1>1. found \in Seq(Seq(L)) /\ AllFound(found, log, want, Len(log)) /\ found = TargetsIn(log, want)
  BY ScanFinds
<1>2. text = FlattenSeq(X)
  <2>1. text = Joined(TargetsIn(log, want))
    BY ExtractJoined
  <2>2. Joined(found) = FlattenSeq(Apart(found))
    BY DEF Joined, Apart
  <2> HIDE DEF text, found
  <2> QED
    BY <1>1, <2>1, <2>2
<1>3. N \in Nat /\ Len(log) \in Nat /\ EndsUpTo(log, want, Len(log)) = K /\ K \in SUBSET (1 .. Len(log))
      /\ K \in SUBSET Body(log)
  <2>1. K \in SUBSET (1 .. Len(log)) /\ Len(log) \in Nat /\ K \in SUBSET Body(log)
    BY DEF Ends, Body
  <2>2. EndsUpTo(log, want, Len(log)) = K
    BY <2>1 DEF EndsUpTo
  <2> HIDE DEF found
  <2> QED
    BY <1>1, <2>1, <2>2
<1>4. PICK ks \in [1 .. N -> K] :
        Enumerates(ks, N, K) /\ \A i \in 1 .. N : found[i] = Target(log, want, ks[i])
  <2> HIDE DEF found, K
  <2> QED
    BY <1>1, <1>3 DEF AllFound
<1> HIDE DEF found, K, text
<1>5. ASSUME NEW i \in 1 .. N
      PROVE  found[i] \in Seq(L) /\ Len(found[i]) \in Nat \ {0} /\ found[i][Len(found[i])] = log[ks[i]]
  <2> DEFINE k == ks[i]
             m == Min(Starts(log, want, k))
  <2>1. k \in K /\ k \in 1 .. Len(log) /\ k \in Body(log)
    BY <1>3, <1>4
  <2>2. m \in 1 .. k
    <3> HIDE DEF k
    <3> QED
      BY <2>1, StartFacts
  <2>3. found[i] = SubSeq(log, m, k)
    BY <1>4 DEF Target
  <2> HIDE DEF k, m
  <2>4. /\ SubSeq(log, m, k) \in Seq(L) /\ Len(SubSeq(log, m, k)) = k - m + 1
        /\ k - m + 1 \in Nat \ {0} /\ SubSeq(log, m, k)[k - m + 1] = log[k]
    <3>1. m \in 1 .. Len(log) /\ m \in 1 .. Len(log) + 1 /\ k \in 0 .. Len(log) /\ m <= k
      BY <2>1, <2>2
    <3>2. k - m + 1 \in Nat \ {0} /\ k - m + 1 \in 1 .. k - m + 1 /\ m + (k - m + 1) - 1 = k
      BY <2>1, <2>2
    <3> QED
      BY <3>1, <3>2, SubSeqProperties
  <2> QED
    BY <2>3, <2>4 DEF k
<1>6. ASSUME NEW i \in 1 .. N
      PROVE  X[i] # <<>> /\ X[i][Len(X[i])] = log[ks[i]]
  <2>1. DOMAIN found = 1 .. N
    BY <1>1
  <2>2. CASE i = 1
    <3>1. X[i] = found[i]
      BY <2>1, <2>2 DEF Apart
    <3> HIDE DEF X
    <3>2. X[i] \in Seq(L) /\ Len(X[i]) # 0 /\ X[i][Len(X[i])] = log[ks[i]]
      BY <1>5, <3>1
    <3> QED
      BY <3>2
  <2>3. CASE i # 1
    <3> DEFINE nl == <<NewLine>>
               y == found[i]
               z == X[i]
               one == 1
               b == Len(y)
    <3>1. z = nl \o y
      BY <2>1, <2>3 DEF Apart
    <3>2. nl \in Seq(L) /\ one = Len(nl) /\ one \in Nat
      OBVIOUS
    <3>3. y \in Seq(L) /\ b = Len(y) /\ b \in Nat \ {0} /\ y[b] = log[ks[i]]
      BY <1>5
    <3> HIDE DEF nl, y, z, one, b
    <3>4. /\ z \in Seq(L) /\ Len(z) = one + b
          /\ \A j \in 1 .. b : z[one + j] = y[j]
      BY <3>1, <3>2, <3>3, ConcatAt
    <3>5. z[Len(z)] = y[b] /\ Len(z) # 0
      <4>1. b \in 1 .. b /\ one + b # 0
        BY <3>2, <3>3
      <4> QED
        BY <3>4, <4>1
    <3>6. z # <<>>
      BY <3>5
    <3> QED
      BY <3>3, <3>5, <3>6 DEF z
  <2> QED
    BY <2>2, <2>3
<1>7. X \in Seq(Seq(L)) /\ Len(X) = N
  BY <1>1, LedTyped
<1> HIDE DEF X, N
<1>8. PICK e \in [1 .. N -> 1 .. Len(text)] :
        /\ \A i \in 1 .. N : text[e[i]] = X[i][Len(X[i])]
        /\ \A i, j \in 1 .. N : i < j => e[i] < e[j]
  <2>1. \A i \in 1 .. Len(X) : X[i] # <<>>
    BY <1>6, <1>7
  <2>2. \E e \in [1 .. Len(X) -> 1 .. Len(FlattenSeq(X))] :
          /\ \A i \in 1 .. Len(X) : FlattenSeq(X)[e[i]] = X[i][Len(X[i])]
          /\ \A i, j \in 1 .. Len(X) : i < j => e[i] < e[j]
    BY <1>7, <2>1, FlattenEnds
  <2> QED
    BY <1>2, <1>7, <2>2
<1>9. text \in Seq(L) /\ DOMAIN text = 1 .. Len(text)
  <2>1. text \in Seq(L)
    BY ExtractTyped DEF text
  <2> QED
    BY <2>1
<1> DEFINE nth(k) == CHOOSE i \in 1 .. N : ks[i] = k
           at == [k \in K |-> e[nth(k)]]
<1>10. \A k \in K : nth(k) \in 1 .. N /\ ks[nth(k)] = k
  BY <1>4 DEF Enumerates
<1> HIDE DEF nth
<1>11. at \in [K -> DOMAIN text]
  BY <1>8, <1>9, <1>10
<1>12. ASSUME NEW k \in K PROVE text[at[k]] = log[k]
  BY <1>6, <1>8, <1>10
<1>13. ASSUME NEW k \in K, NEW j \in K, j < k PROVE at[j] < at[k]
  <2>1. nth(j) \in 1 .. N /\ nth(k) \in 1 .. N /\ ks[nth(j)] = j /\ ks[nth(k)] = k /\ j \in Nat /\ k \in Nat
    BY <1>3, <1>10
  <2>2. nth(j) # nth(k) /\ ~(nth(k) < nth(j))
    <3>1. nth(k) < nth(j) => k < j
      BY <1>4, <2>1 DEF Enumerates
    <3> QED
      BY <1>13, <2>1, <3>1
  <2>3. nth(j) < nth(k)
    BY <2>1, <2>2
  <2> QED
    BY <1>8, <2>1, <2>3
<1> HIDE DEF at
<1> QED
  BY <1>11, <1>12, <1>13 DEF Shows, text, K

LEMMA ShowsFewer ==
  ASSUME NEW text, NEW log, NEW K, Shows(text, log, K), NEW J \in SUBSET K
  PROVE  Shows(text, log, J)
<1>1. PICK at \in [K -> DOMAIN text] :
        \A k \in K : text[at[k]] = log[k] /\ \A j \in K : j < k => at[j] < at[k]
  BY DEF Shows
<1> DEFINE to == [k \in J |-> at[k]]
<1>2. to \in [J -> DOMAIN text]
  BY <1>1
<1>3. \A k \in J : text[to[k]] = log[k] /\ \A j \in J : j < k => to[j] < to[k]
  BY <1>1
<1> HIDE DEF to
<1> QED
  BY <1>2, <1>3 DEF Shows

LEMMA ShowsMore ==
  ASSUME NEW L, NEW text \in Seq(L), NEW rest \in Seq(L), NEW log, NEW K, Shows(text, log, K)
  PROVE  Shows(text \o rest, log, K)
<1>1. PICK at \in [K -> DOMAIN text] :
        \A k \in K : text[at[k]] = log[k] /\ \A j \in K : j < k => at[j] < at[k]
  BY DEF Shows
<1> DEFINE all == text \o rest
<1>2. \A i \in DOMAIN text : i \in DOMAIN all /\ all[i] = text[i]
  OBVIOUS
<1> HIDE DEF all
<1>3. at \in [K -> DOMAIN all]
  BY <1>1, <1>2
<1>4. \A k \in K : all[at[k]] = log[k]
  BY <1>1, <1>2
<1>5. Shows(all, log, K)
  BY <1>1, <1>3, <1>4 DEF Shows
<1> QED
  BY <1>5 DEF all

\* What is left of a log by regress_log_trim has each line that is no trace.
LEMMA TrimShows ==
  ASSUME NEW L, NEW log \in Seq(L)
  PROVE  Shows(RegressLogTrim(log), log, {k \in DOMAIN log : ~log[k].trace})
<1> DEFINE plain == {k \in DOMAIN log : ~log[k].trace}
           text == RegressLogTrim(log)
           N == Len(log)
<1>1. text = IF plain = {} THEN <<>> ELSE SubSeq(log, Min(plain), Max(plain))
  BY TrimIs DEF Trimmed
<1>2. N \in Nat /\ plain \in SUBSET Nat /\ plain \in SUBSET (0 .. N) /\ plain \in SUBSET (1 .. N)
  OBVIOUS
<1>3. CASE plain = {}
  <2> DEFINE at == [k \in {} |-> 0]
  <2>1. at \in [plain -> DOMAIN text] /\ \A k \in plain : FALSE
    BY <1>3
  <2> HIDE DEF at, plain, text
  <2>2. Shows(text, log, plain)
    BY <2>1 DEF Shows
  <2> QED
    BY <2>2 DEF text, plain
<1>4. CASE plain # {}
  <2> DEFINE a == Min(plain)
             z == Max(plain)
             at == [k \in plain |-> k - a + 1]
  <2>1. a \in plain /\ (\A n \in plain : a <= n) /\ z \in plain /\ (\A n \in plain : n <= z)
    <3> HIDE DEF plain
    <3> QED
      BY <1>2, <1>4, MinFacts, MaxFacts
  <2> HIDE DEF a, z
  <2>2. text = SubSeq(log, a, z)
    <3> HIDE DEF plain, text
    <3> QED
      BY <1>1, <1>4 DEF a, z
  <2>3. a \in 1 .. N /\ z \in 1 .. N /\ a <= z
    BY <2>1
  <2>4. /\ Len(text) = z - a + 1 /\ DOMAIN text = 1 .. z - a + 1
        /\ \A i \in 1 .. z - a + 1 : text[i] = log[a + i - 1]
    <3> HIDE DEF text
    <3> QED
      BY <2>2, <2>3, SubSeqProperties
  <2>5. ASSUME NEW k \in plain
        PROVE  at[k] \in DOMAIN text /\ text[at[k]] = log[k]
    <3>1. k \in Nat /\ a <= k /\ k <= z /\ k - a + 1 \in 1 .. z - a + 1 /\ a + (k - a + 1) - 1 = k
      BY <1>2, <2>1, <2>3
    <3>2. at[k] = k - a + 1
      OBVIOUS
    <3> HIDE DEF at, text, plain
    <3>3. text[k - a + 1] = log[a + (k - a + 1) - 1]
      BY <2>4, <3>1
    <3> QED
      BY <2>4, <3>1, <3>2, <3>3
  <2>6. \A k, j \in plain : j < k => at[j] < at[k]
    BY <1>2, <2>3
  <2>7. at \in [plain -> DOMAIN text]
    BY <2>5
  <2> HIDE DEF at, text, plain
  <2>8. Shows(text, log, plain)
    BY <2>5, <2>6, <2>7 DEF Shows
  <2> QED
    BY <2>8 DEF text, plain
<1> QED
  BY <1>3, <1>4

LEMMA FailuresCopied ==
  ASSUME NEW L, NewLine \in L, NEW log \in Seq(L), log # NoFile, NEW exit \in {1, TIMEOUT}
  PROVE  Shows(RunLog(exit, log), log,
               IF Ends(log, Unpassed) # {} THEN Ends(log, Unpassed)
               ELSE {k \in Body(log) : ~log[k].trace})
<1> DEFINE bad == Ends(log, Unpassed)
           nfail == RegressLogParse(log, Unpassed)
           x == Extract(log, Unpassed, FALSE)
           y == Extract(log, {"SKIPPED"}, nfail > 0)
<1>1. IsRunStatusFailure(RunStatus(exit, log))
  BY DEF IsRunStatusFailure, RunStatus, TIMEOUT
<1>2. RunLog(exit, log) = IF nfail > 0 THEN x \o y ELSE RegressLogTrim(log)
  BY <1>1 DEF RunLog
<1>3. nfail > 0 <=> bad # {}
  <2>1. nfail = Cardinality(bad) /\ IsFiniteSet(bad)
    BY ScanFinds DEF RegressLogParse
  <2> HIDE DEF bad, nfail
  <2>2. Cardinality(bad) \in Nat /\ (Cardinality(bad) = 0 <=> bad = {})
    BY <2>1, FS_CardinalityType, FS_EmptySet
  <2> QED
    BY <2>1, <2>2
<1>4. CASE bad # {}
  <2>1. x \in Seq(L) /\ y \in Seq(L)
    BY ExtractTyped
  <2>2. Shows(x, log, bad)
    BY ExtractShows
  <2> HIDE DEF x, y, bad
  <2>3. Shows(x \o y, log, bad)
    BY <2>1, <2>2, ShowsMore
  <2> QED
    BY <1>2, <1>3, <1>4, <2>3 DEF bad
<1>5. CASE bad = {}
  <2>1. {k \in Body(log) : ~log[k].trace} \in SUBSET {k \in DOMAIN log : ~log[k].trace}
    BY DEF Body
  <2>2. Shows(RegressLogTrim(log), log, {k \in Body(log) : ~log[k].trace})
    BY <2>1, TrimShows, ShowsFewer
  <2> HIDE DEF nfail
  <2> QED
    BY <1>2, <1>3, <1>5, <2>2
<1> QED
  BY <1>4, <1>5

\* For any log: parse_run_log copies each target of a failed run that did not
\* pass, in order, and the whole log, traces apart, if no target speaks of it.
THEOREM FailuresCopiedToPage == LogSpec => []WhyShown
<1>1. LogInit => LogInv
  BY LogInvInit
<1>2. LogInv /\ [LogNext]_logVars => LogInv'
  BY LogInvNext
<1>3. LogInv => WhyShown
  <2> SUFFICES ASSUME LogInv, NEW i \in DOMAIN logs, NEW exit \in {1, TIMEOUT}, logs[i] # NoFile
               PROVE  Shows(RunLog(exit, logs[i]), logs[i],
                            IF Ends(logs[i], Unpassed) # {} THEN Ends(logs[i], Unpassed)
                            ELSE {k \in Body(logs[i]) : ~logs[i][k].trace})
    BY DEF WhyShown
  <2>1. logs[i] \in Seq(LogLines)
    BY DEF LogInv, LogFiles
  <2>2. logs[i] \in Seq(TextLines) /\ NewLine \in TextLines
    BY <2>1, LogIsText DEF TextLines
  <2> QED
    BY <2>2, FailuresCopied
<1> QED
  BY <1>1, <1>2, <1>3, PTL DEF LogSpec

-----------------------------------------------------------------------------
(***************************************************************************)
(* robsd-report: the build whose rows it reads.                            *)
(***************************************************************************)

Serial == mode \notin {"robsd-regress", "canvas"}

Rows == [exit : {-1, 0, 1}, skip : BOOLEAN, log : BOOLEAN]

StepFiles == {NoFile} \cup Seq(LogLine)

BuildType ==
  /\ mode \in Modes
  /\ DOMAIN table \in SUBSET Ids /\ table \in [DOMAIN table -> Rows]
  /\ slog \in [Ran(table) -> StepFiles]
  /\ jobs \in SUBSET Ran(table)
  /\ next \in 1 .. Len(Schedule[mode]) + 1
  /\ cvslogs \in {"none", "empty", "text"}
  /\ pkgdiff \in BOOLEAN
  /\ rpc \in {"build", "trap", "report", "done", "failed", "silent"}

\* A row is what its step left: without an exit the step runs or was cut short,
\* with one its log is there and, if it is dpb, the diff.
RowsTrue ==
  /\ \A i \in DOMAIN table : table[i].skip => table[i].exit = 0
  /\ \A i \in jobs : table[i].exit = -1
  /\ \A i \in Ran(table) :
       /\ table[i].log <=> Name(i) # "end"
       /\ table[i].exit = 1 => table[i].log
       /\ table[i].exit # -1 /\ table[i].log => slog[i] # NoFile
       /\ Name(i) = "dpb" /\ table[i].exit = 0 => pkgdiff

\* Where steps are run one after another, a failure is the end of it.
OnlyLastFailed ==
  Serial =>
    /\ \A i, j \in Ran(table) : table[i].exit # 0 => j <= i
    /\ rpc = "build" =>
         \A i \in Ran(table) : i <= next /\ (i < next /\ table[i].exit # 0 => i \in jobs)

BuildInv == BuildType /\ RowsTrue /\ OnlyLastFailed

LEMMA IdsAre ==
  ASSUME mode \in Modes
  PROVE  /\ Ids = 1 .. Len(Schedule[mode]) /\ Len(Schedule[mode]) \in Nat
         /\ \A i \in Ids : Name(i) \in STRING
         /\ Serial => \A i \in Ids : Name(i) \notin Tests
<1>1. Schedule[mode] \in Seq(STRING)
  BY ReportAssumption
<1>2. Serial => \A i \in Ids : Name(i) \notin Tests
  BY ReportAssumption DEF Serial, Ids, Name
<1> QED
  BY <1>1, <1>2 DEF Ids, Name

LEMMA BuildInvInit == ReportInit => BuildInv
<1> SUFFICES ASSUME ReportInit PROVE BuildInv
  OBVIOUS
<1>1. PICK S \in SUBSET Ids : table = [i \in S |-> [exit |-> 0, skip |-> TRUE, log |-> FALSE]]
  BY DEF ReportInit
<1>2. DOMAIN table = S /\ Ran(table) = {} /\ table \in [DOMAIN table -> Rows]
      /\ \A i \in DOMAIN table : table[i].exit = 0
  BY <1>1 DEF Ran, Rows
<1>3. slog \in [Ran(table) -> StepFiles]
  <2>1. slog = <<>>
    BY DEF ReportInit
  <2>2. <<>> \in [{} -> StepFiles]
    OBVIOUS
  <2> QED
    BY <1>2, <2>1, <2>2
<1>4. mode \in Modes /\ next = 1 /\ jobs = {} /\ rpc = "build" /\ cvslogs = "none" /\ pkgdiff = FALSE
  BY DEF ReportInit
<1>5. next \in 1 .. Len(Schedule[mode]) + 1
  BY <1>4, IdsAre
<1> QED
  BY <1>1, <1>2, <1>3, <1>4, <1>5 DEF BuildInv, BuildType, RowsTrue, OnlyLastFailed

LEMMA SkipStepInv == BuildInv /\ SkipStep => BuildInv'
<1> SUFFICES ASSUME BuildInv, SkipStep PROVE BuildInv'
  OBVIOUS
<1>1. /\ rpc = "build" /\ next \in DOMAIN table /\ table[next].skip /\ next' = next + 1
      /\ UNCHANGED <<mode, table, slog, cvsroot, cvslogs, pkgdiff, jobs, resumed, rpc>>
  BY DEF SkipStep
<1>2. mode \in Modes /\ DOMAIN table \in SUBSET Ids
  BY DEF BuildInv, BuildType
<1>3. next \in Nat /\ next + 1 \in 1 .. Len(Schedule[mode]) + 1 /\ DOMAIN table \in SUBSET Nat
  BY <1>1, <1>2, IdsAre
<1>4. BuildType'
  BY <1>1, <1>3 DEF BuildInv, BuildType, Ran, Ids
<1>5. RowsTrue'
  BY <1>1 DEF BuildInv, RowsTrue, Ran, Name
<1>6. OnlyLastFailed'
  <2> SUFFICES ASSUME Serial PROVE OnlyLastFailed'
    BY <1>1 DEF OnlyLastFailed, Serial
  <2>1. next \notin Ran(table) /\ Ran(table) \in SUBSET Nat
    BY <1>1, <1>3 DEF Ran
  <2>2. /\ \A i, j \in Ran(table) : table[i].exit # 0 => j <= i
        /\ \A i \in Ran(table) : i <= next /\ (i < next /\ table[i].exit # 0 => i \in jobs)
    BY <1>1 DEF BuildInv, OnlyLastFailed
  <2>3. \A i \in Ran(table) : i <= next + 1 /\ (i < next + 1 /\ table[i].exit # 0 => i \in jobs)
    BY <1>3, <2>1, <2>2
  <2>4. Ran(table)' = Ran(table)
    BY <1>1 DEF Ran
  <2> QED
    BY <1>1, <2>2, <2>3, <2>4 DEF OnlyLastFailed
<1> QED
  BY <1>4, <1>5, <1>6 DEF BuildInv

LEMMA BeginStepInv == BuildInv /\ BeginStep => BuildInv'
<1> SUFFICES ASSUME BuildInv, BeginStep PROVE BuildInv'
  OBVIOUS
<1> DEFINE row == [exit |-> -1, skip |-> FALSE, log |-> Name(next) # "end"]
<1>1. /\ rpc = "build" /\ next \in Ids /\ Ready
      /\ ~(next \in DOMAIN table /\ table[next].skip)
      /\ table' = With(table, next, row)
      /\ slog' = With(slog, next, NoFile)
      /\ jobs' = jobs \cup {next} /\ next' = next + 1
      /\ UNCHANGED <<mode, cvsroot, cvslogs, pkgdiff, resumed, rpc>>
  BY DEF BeginStep
<1>2. /\ mode \in Modes /\ DOMAIN table \in SUBSET Ids /\ table \in [DOMAIN table -> Rows]
      /\ slog \in [Ran(table) -> StepFiles] /\ jobs \in SUBSET Ran(table)
      /\ cvslogs \in {"none", "empty", "text"} /\ pkgdiff \in BOOLEAN
  BY DEF BuildInv, BuildType
<1>3. /\ Ids = 1 .. Len(Schedule[mode]) /\ Len(Schedule[mode]) \in Nat /\ next \in Nat
      /\ next + 1 \in 1 .. Len(Schedule[mode]) + 1
  BY <1>1, <1>2, IdsAre
<1>4. row \in Rows /\ row.exit = -1 /\ ~row.skip /\ (row.log <=> Name(next) # "end")
  BY DEF Rows
<1> HIDE DEF row
<1>5. /\ DOMAIN table' = DOMAIN table \cup {next} /\ table'[next] = row
      /\ \A j \in DOMAIN table : j # next => table'[j] = table[j]
      /\ table' = [j \in DOMAIN table' |-> table'[j]]
  <2>1. table' = [j \in DOMAIN table \cup {next} |-> IF j = next THEN row ELSE table[j]]
    BY <1>1 DEF With
  <2> QED
    BY <2>1
<1>6. /\ DOMAIN slog' = DOMAIN slog \cup {next} /\ slog'[next] = NoFile
      /\ \A j \in DOMAIN slog : j # next => slog'[j] = slog[j]
      /\ slog' = [j \in DOMAIN slog' |-> slog'[j]]
  <2>1. slog' = [j \in DOMAIN slog \cup {next} |-> IF j = next THEN NoFile ELSE slog[j]]
    BY <1>1 DEF With
  <2> QED
    BY <2>1
<1>7. Ran(table') = Ran(table) \cup {next}
  BY <1>1, <1>4, <1>5 DEF Ran
<1>8. DOMAIN slog = Ran(table) /\ \A j \in Ran(table) : slog[j] \in StepFiles /\ j \in DOMAIN table
  BY <1>2 DEF Ran
<1>9. table' \in [DOMAIN table' -> Rows]
  <2>1. \A j \in DOMAIN table' : table'[j] \in Rows
    BY <1>2, <1>4, <1>5
  <2> QED
    BY <1>5, <2>1
<1>10. slog' \in [Ran(table') -> StepFiles]
  <2>1. DOMAIN slog' = Ran(table') /\ NoFile \in StepFiles
    BY <1>6, <1>7, <1>8 DEF StepFiles
  <2>2. \A j \in DOMAIN slog' : slog'[j] \in StepFiles
    BY <1>6, <1>8, <2>1
  <2> QED
    BY <1>6, <2>1, <2>2
<1>11. BuildType'
  <2>1. DOMAIN table' \in SUBSET Ids' /\ jobs' \in SUBSET Ran(table')
    BY <1>1, <1>2, <1>5, <1>7 DEF Ids
  <2> QED
    BY <1>1, <1>2, <1>3, <1>9, <1>10, <2>1 DEF BuildType
<1>12. RowsTrue'
  <2>1. \A i \in DOMAIN table' : table'[i].skip => table'[i].exit = 0
    BY <1>4, <1>5 DEF BuildInv, RowsTrue
  <2>2. \A i \in jobs' : table'[i].exit = -1
    BY <1>1, <1>2, <1>4, <1>5, <1>8 DEF BuildInv, RowsTrue
  <2>3. ASSUME NEW i \in Ran(table')
        PROVE  /\ table'[i].log <=> Name(i) # "end"
               /\ table'[i].exit = 1 => table'[i].log
               /\ table'[i].exit # -1 /\ table'[i].log => slog'[i] # NoFile
               /\ Name(i) = "dpb" /\ table'[i].exit = 0 => pkgdiff
    <3>1. CASE i = next
      BY <1>4, <1>5, <3>1
    <3>2. CASE i # next
      <4>1. i \in Ran(table) /\ table'[i] = table[i] /\ slog'[i] = slog[i]
        BY <1>5, <1>6, <1>7, <1>8, <3>2
      <4> QED
        BY <4>1 DEF BuildInv, RowsTrue
    <3> QED
      BY <3>1, <3>2
  <2>4. \A i \in Ran(table') : Name(i)' = Name(i)
    BY <1>1 DEF Name
  <2> QED
    BY <1>1, <2>1, <2>2, <2>3, <2>4 DEF RowsTrue
<1>13. OnlyLastFailed'
  <2> SUFFICES ASSUME Serial PROVE OnlyLastFailed'
    BY <1>1 DEF OnlyLastFailed, Serial
  <2>1. jobs = {}
    BY <1>1, <1>2, IdsAre DEF Ready
  <2>2. \A i \in Ran(table) : i <= next /\ (i < next => table[i].exit = 0) /\ i \in Nat
    BY <1>1, <1>2, <1>3, <1>8, <2>1 DEF BuildInv, OnlyLastFailed
  <2>3. ASSUME NEW i \in Ran(table'), table'[i].exit # 0 PROVE i = next
    <3> SUFFICES ASSUME i # next PROVE FALSE
      OBVIOUS
    <3>1. i \in Ran(table) /\ table'[i] = table[i]
      BY <1>5, <1>7, <1>8
    <3> QED
      BY <1>3, <2>2, <2>3, <3>1
  <2>4. \A j \in Ran(table') : j <= next /\ j <= next + 1
    BY <1>3, <1>7, <2>2
  <2> QED
    BY <1>1, <2>3, <2>4 DEF OnlyLastFailed
<1> QED
  BY <1>11, <1>12, <1>13 DEF BuildInv

LEMMA MakeLogInv ==
  ASSUME NEW i \in Ids, BuildInv, MakeLog(i)
  PROVE  BuildInv'
<1>1. /\ i \in jobs /\ table[i].log /\ slog[i] = NoFile
      /\ slog' = [slog EXCEPT ![i] = <<>>]
      /\ UNCHANGED <<mode, table, cvsroot, cvslogs, pkgdiff, next, jobs, resumed, rpc>>
  BY DEF MakeLog
<1>2. slog \in [Ran(table) -> StepFiles] /\ jobs \in SUBSET Ran(table) /\ table[i].exit = -1
  BY <1>1 DEF BuildInv, BuildType, RowsTrue
<1>3. <<>> \in StepFiles
  BY DEF StepFiles
<1>4. slog' \in [Ran(table) -> StepFiles] /\ \A j \in Ran(table) : j # i => slog'[j] = slog[j]
  BY <1>1, <1>2, <1>3
<1>5. Ran(table)' = Ran(table)
  BY <1>1 DEF Ran
<1>6. BuildType'
  BY <1>1, <1>4, <1>5 DEF BuildInv, BuildType, Ids
<1>7. RowsTrue'
  <2>1. \A j \in Ran(table) : table[j].exit # -1 /\ table[j].log => slog'[j] # NoFile
    BY <1>2, <1>4 DEF BuildInv, RowsTrue
  <2> QED
    BY <1>1, <1>5, <2>1 DEF BuildInv, RowsTrue, Name
<1>8. OnlyLastFailed'
  BY <1>1, <1>5 DEF BuildInv, OnlyLastFailed, Serial
<1> QED
  BY <1>6, <1>7, <1>8 DEF BuildInv

LEMMA FinishStepInv ==
  ASSUME NEW i \in Ids, NEW exit \in {0, 1}, NEW log \in StepLogs, BuildInv, FinishStep(i, exit, log)
  PROVE  BuildInv'
<1>1. /\ i \in jobs /\ table[i].log /\ slog[i] # NoFile
      /\ slog' = [slog EXCEPT ![i] = log]
      /\ table' = [table EXCEPT ![i].exit = exit]
      /\ jobs' = jobs \ {i}
      /\ IF Name(i) = "cvs"
         THEN cvslogs' \in (IF exit # 0 THEN {"none", "text"} ELSE IF cvsroot THEN {"empty", "text"} ELSE {"none"})
         ELSE UNCHANGED cvslogs
      /\ pkgdiff' = (pkgdiff \/ (Name(i) = "dpb" /\ exit = 0))
      /\ rpc' = IF rpc = "build" /\ exit # 0 /\ Name(i) \notin Tests THEN "trap" ELSE rpc
      /\ UNCHANGED <<mode, cvsroot, next, resumed>>
  BY DEF FinishStep
<1>2. /\ mode \in Modes /\ DOMAIN table \in SUBSET Ids /\ table \in [DOMAIN table -> Rows]
      /\ slog \in [Ran(table) -> StepFiles] /\ jobs \in SUBSET Ran(table)
      /\ cvslogs \in {"none", "empty", "text"} /\ pkgdiff \in BOOLEAN
      /\ rpc \in {"build", "trap", "report", "done", "failed", "silent"}
  BY DEF BuildInv, BuildType
<1>3. i \in DOMAIN table /\ i \in Ran(table) /\ table[i].exit = -1 /\ ~table[i].skip
  BY <1>1, <1>2 DEF BuildInv, RowsTrue, Ran
<1>4. log # NoFile /\ log \in StepFiles
  BY ReportAssumption DEF StepFiles
<1>5. /\ DOMAIN table' = DOMAIN table /\ table' \in [DOMAIN table -> Rows]
      /\ table'[i].exit = exit /\ table'[i].skip = table[i].skip /\ table'[i].log = table[i].log
      /\ \A j \in DOMAIN table : j # i => table'[j] = table[j]
  BY <1>1, <1>2, <1>3 DEF Rows
<1>6. Ran(table') = Ran(table)
  BY <1>5 DEF Ran
<1>7. slog' \in [Ran(table) -> StepFiles] /\ slog'[i] = log /\ \A j \in Ran(table) : j # i => slog'[j] = slog[j]
  BY <1>1, <1>2, <1>3, <1>4
<1>8. cvslogs' \in {"none", "empty", "text"} /\ pkgdiff' \in BOOLEAN
      /\ rpc' \in {"build", "trap", "report", "done", "failed", "silent"}
  <2>1. cvslogs' \in {"none", "empty", "text"}
    BY <1>1, <1>2
  <2> QED
    BY <1>1, <1>2, <2>1
<1>9. BuildType'
  <2>1. jobs' \in SUBSET Ran(table')
    BY <1>1, <1>2, <1>6
  <2>2. next' \in 1 .. Len(Schedule[mode']) + 1 /\ DOMAIN table' \in SUBSET Ids'
    BY <1>1, <1>2, <1>5 DEF BuildInv, BuildType, Ids
  <2> QED
    BY <1>1, <1>2, <1>5, <1>6, <1>7, <1>8, <2>1, <2>2 DEF BuildType
<1>10. RowsTrue'
  <2>1. \A j \in DOMAIN table' : table'[j].skip => table'[j].exit = 0
    BY <1>3, <1>5 DEF BuildInv, RowsTrue
  <2>2. \A j \in jobs' : table'[j].exit = -1
    <3>1. \A j \in jobs' : j \in jobs /\ j # i /\ j \in DOMAIN table
      BY <1>1, <1>2 DEF Ran
    <3> QED
      BY <1>5, <3>1 DEF BuildInv, RowsTrue
  <2>3. ASSUME NEW j \in Ran(table')
        PROVE  /\ table'[j].log <=> Name(j) # "end"
               /\ table'[j].exit = 1 => table'[j].log
               /\ table'[j].exit # -1 /\ table'[j].log => slog'[j] # NoFile
               /\ Name(j) = "dpb" /\ table'[j].exit = 0 => pkgdiff'
    <3>1. j \in Ran(table) /\ j \in DOMAIN table
      BY <1>6 DEF Ran
    <3>2. CASE j = i
      BY <1>1, <1>3, <1>4, <1>5, <1>7, <3>2 DEF BuildInv, RowsTrue
    <3>3. CASE j # i
      <4>1. table'[j] = table[j] /\ slog'[j] = slog[j]
        BY <1>5, <1>7, <3>1, <3>3
      <4> QED
        BY <1>1, <3>1, <4>1 DEF BuildInv, RowsTrue
    <3> QED
      BY <3>2, <3>3
  <2>4. \A j \in Ran(table') : Name(j)' = Name(j)
    BY <1>1 DEF Name
  <2> QED
    BY <1>1, <2>1, <2>2, <2>3, <2>4 DEF RowsTrue
<1>11. OnlyLastFailed'
  <2> SUFFICES ASSUME Serial PROVE OnlyLastFailed'
    BY <1>1 DEF OnlyLastFailed, Serial
  <2>1. \A j \in Ran(table) : table'[j].exit # 0 => table[j].exit # 0
    BY <1>3, <1>5 DEF Ran
  <2>2. \A j, k \in Ran(table) : table[j].exit # 0 => k <= j
    BY DEF BuildInv, OnlyLastFailed
  <2>3. ASSUME rpc' = "build" PROVE rpc = "build" /\ exit = 0
    BY <1>1, <1>2, <2>3, IdsAre
  <2>4. ASSUME rpc' = "build", NEW j \in Ran(table)
        PROVE  j <= next /\ (j < next /\ table'[j].exit # 0 => j \in jobs')
    <3>1. j <= next /\ (j < next /\ table[j].exit # 0 => j \in jobs)
      BY <2>3, <2>4 DEF BuildInv, OnlyLastFailed
    <3>2. table'[j].exit # 0 => j # i
      BY <1>5, <2>3, <2>4
    <3> QED
      BY <1>1, <2>1, <3>1, <3>2
  <2> QED
    BY <1>1, <1>6, <2>1, <2>2, <2>4 DEF OnlyLastFailed
<1> QED
  BY <1>9, <1>10, <1>11 DEF BuildInv

LEMMA FinishEndInv == BuildInv /\ FinishEnd => BuildInv'
<1> SUFFICES ASSUME BuildInv, FinishEnd PROVE BuildInv'
  OBVIOUS
<1>1. PICK i \in jobs : /\ Name(i) = "end" /\ table' = [table EXCEPT ![i].exit = 0] /\ jobs' = jobs \ {i}
  BY DEF FinishEnd
<1>2. rpc' = "trap" /\ UNCHANGED <<mode, slog, cvsroot, cvslogs, pkgdiff, next, resumed>>
  BY DEF FinishEnd
<1>3. /\ mode \in Modes /\ DOMAIN table \in SUBSET Ids /\ table \in [DOMAIN table -> Rows]
      /\ slog \in [Ran(table) -> StepFiles] /\ jobs \in SUBSET Ran(table)
  BY DEF BuildInv, BuildType
<1>4. i \in DOMAIN table /\ i \in Ran(table) /\ table[i].exit = -1 /\ ~table[i].log
  BY <1>1, <1>3 DEF BuildInv, RowsTrue, Ran
<1>5. /\ DOMAIN table' = DOMAIN table /\ table' \in [DOMAIN table -> Rows]
      /\ table'[i].exit = 0 /\ table'[i].skip = table[i].skip /\ table'[i].log = table[i].log
      /\ \A j \in DOMAIN table : j # i => table'[j] = table[j]
  BY <1>1, <1>3, <1>4 DEF Rows
<1>6. Ran(table') = Ran(table) /\ jobs' \in SUBSET Ran(table')
  BY <1>1, <1>3, <1>5 DEF Ran
<1>7. BuildType'
  BY <1>1, <1>2, <1>3, <1>5, <1>6 DEF BuildInv, BuildType, Ids
<1>8. RowsTrue'
  <2>1. \A j \in DOMAIN table' : table'[j].skip => table'[j].exit = 0
    BY <1>5 DEF BuildInv, RowsTrue
  <2>2. \A j \in jobs' : table'[j].exit = -1
    <3>1. \A j \in jobs' : j \in jobs /\ j # i /\ j \in DOMAIN table
      BY <1>1, <1>3 DEF Ran
    <3> QED
      BY <1>5, <3>1 DEF BuildInv, RowsTrue
  <2>3. ASSUME NEW j \in Ran(table')
        PROVE  /\ table'[j].log <=> Name(j) # "end"
               /\ table'[j].exit = 1 => table'[j].log
               /\ table'[j].exit # -1 /\ table'[j].log => slog[j] # NoFile
               /\ Name(j) = "dpb" /\ table'[j].exit = 0 => pkgdiff
    <3>1. j \in Ran(table) /\ j \in DOMAIN table
      BY <1>6 DEF Ran
    <3>2. CASE j = i
      BY <1>1, <1>4, <1>5, <3>2 DEF BuildInv, RowsTrue
    <3>3. CASE j # i
      BY <1>5, <3>1, <3>3 DEF BuildInv, RowsTrue
    <3> QED
      BY <3>2, <3>3
  <2>4. \A j \in Ran(table') : Name(j)' = Name(j)
    BY <1>2 DEF Name
  <2> QED
    BY <1>2, <2>1, <2>2, <2>3, <2>4 DEF RowsTrue
<1>9. OnlyLastFailed'
  <2>1. \A j \in Ran(table) : table'[j].exit # 0 => table[j].exit # 0
    BY <1>4, <1>5 DEF Ran
  <2> QED
    BY <1>2, <1>6, <2>1 DEF BuildInv, OnlyLastFailed, Serial
<1> QED
  BY <1>7, <1>8, <1>9 DEF BuildInv

LEMMA RanFacts ==
  ASSUME mode \in Modes, NEW t, DOMAIN t \in SUBSET Ids
  PROVE  /\ Ran(t) \in SUBSET (1 .. Len(Schedule[mode])) /\ IsFiniteSet(DOMAIN t)
         /\ Ran(t) # {} => Max(Ran(t)) \in Ran(t) /\ \A i \in Ran(t) : i <= Max(Ran(t))
<1>1. Ids = 1 .. Len(Schedule[mode]) /\ Len(Schedule[mode]) \in Nat
  BY IdsAre
<1> DEFINE N == Len(Schedule[mode])
<1>2. N \in Nat /\ Ran(t) \in SUBSET (1 .. N) /\ Ran(t) \in SUBSET (0 .. N) /\ DOMAIN t \in SUBSET (1 .. N)
  BY <1>1 DEF Ran
<1>3. IsFiniteSet(DOMAIN t)
  <2> HIDE DEF N
  <2>1. IsFiniteSet(1 .. N)
    BY <1>2, FS_Interval
  <2> QED
    BY <1>2, <2>1, FS_Subset
<1>4. Ran(t) # {} => Max(Ran(t)) \in Ran(t) /\ \A i \in Ran(t) : i <= Max(Ran(t))
  <2> HIDE DEF N
  <2> QED
    BY <1>2, MaxFacts
<1> QED
  BY <1>2, <1>3, <1>4

LEMMA ResumeBuildInv == BuildInv /\ ResumeBuild => BuildInv'
<1> SUFFICES ASSUME BuildInv, ResumeBuild PROVE BuildInv'
  OBVIOUS
<1> DEFINE last == Max(Ran(table))
<1>1. /\ Ran(table) # {}
      /\ next' = IF table[last].exit # 0 \/ Name(last) = "end" THEN last ELSE last + 1
      /\ jobs' = {} /\ rpc' = "build"
      /\ UNCHANGED <<mode, table, slog, cvsroot, cvslogs, pkgdiff>>
  BY DEF ResumeBuild
<1>2. mode \in Modes /\ DOMAIN table \in SUBSET Ids
  BY DEF BuildInv, BuildType
<1>3. last \in Ran(table) /\ (\A i \in Ran(table) : i <= last) /\ Ran(table) \in SUBSET (1 .. Len(Schedule[mode]))
      /\ Len(Schedule[mode]) \in Nat
  BY <1>1, <1>2, RanFacts, IdsAre
<1> HIDE DEF last
<1>4. last \in 1 .. Len(Schedule[mode]) /\ next' \in 1 .. Len(Schedule[mode]) + 1 /\ last <= next'
  BY <1>1, <1>3
<1>5. BuildType'
  BY <1>1, <1>4 DEF BuildInv, BuildType, Ran, Ids
<1>6. RowsTrue'
  BY <1>1 DEF BuildInv, RowsTrue, Ran, Name
<1>7. OnlyLastFailed'
  <2> SUFFICES ASSUME Serial PROVE OnlyLastFailed'
    BY <1>1 DEF OnlyLastFailed, Serial
  <2>1. \A i, j \in Ran(table) : table[i].exit # 0 => j <= i
    BY DEF BuildInv, OnlyLastFailed
  <2>2. ASSUME NEW i \in Ran(table)
        PROVE  i <= next' /\ ~(i < next' /\ table[i].exit # 0)
    <3>1. i \in Nat /\ i <= last /\ i <= next' /\ next' \in Nat /\ last \in Nat
      BY <1>3, <1>4
    <3>2. ASSUME table[i].exit # 0 PROVE i = last /\ next' = last
      <4>1. last <= i
        BY <1>3, <2>1, <3>2
      <4>2. i = last
        BY <3>1, <4>1
      <4> QED
        BY <1>1, <3>2, <4>2
    <3> QED
      BY <3>1, <3>2
  <2>3. Ran(table)' = Ran(table)
    BY <1>1 DEF Ran
  <2> QED
    BY <1>1, <2>1, <2>2, <2>3 DEF OnlyLastFailed
<1> QED
  BY <1>5, <1>6, <1>7 DEF BuildInv

\* The report does not touch the build.
LEMMA BuildKept ==
  ASSUME BuildInv, UNCHANGED buildVars, rpc' \in {"build", "trap", "report", "done", "failed", "silent"},
         rpc' = "build" => rpc = "build"
  PROVE  BuildInv'
<1>1. UNCHANGED <<mode, table, slog, cvsroot, cvslogs, pkgdiff, next, jobs, resumed>>
  BY DEF buildVars
<1>2. Ran(table)' = Ran(table)
  BY <1>1 DEF Ran
<1>3. BuildType'
  BY <1>1, <1>2 DEF BuildInv, BuildType, Ids
<1>4. RowsTrue'
  BY <1>1, <1>2 DEF BuildInv, RowsTrue, Name
<1>5. OnlyLastFailed'
  BY <1>1, <1>2 DEF BuildInv, OnlyLastFailed, Serial
<1> QED
  BY <1>3, <1>4, <1>5 DEF BuildInv

LEMMA BuildInvNext == BuildInv /\ [ReportNext]_reportVars => BuildInv'
<1> SUFFICES ASSUME BuildInv, [ReportNext]_reportVars PROVE BuildInv'
  OBVIOUS
<1>0. rpc \in {"build", "trap", "report", "done", "failed", "silent"}
  BY DEF BuildInv, BuildType
<1>1. CASE SkipStep
  BY <1>1, SkipStepInv
<1>2. CASE BeginStep
  BY <1>2, BeginStepInv
<1>3. CASE FinishEnd
  BY <1>3, FinishEndInv
<1>4. CASE Abort
  BY <1>4, BuildKept DEF Abort
<1>5. CASE ResumeBuild
  BY <1>5, ResumeBuildInv
<1>6. ASSUME NEW i \in Ids, MakeLog(i) PROVE BuildInv'
  BY <1>6, MakeLogInv
<1>7. ASSUME NEW i \in Ids, NEW exit \in {0, 1}, NEW log \in StepLogs, FinishStep(i, exit, log) PROVE BuildInv'
  BY <1>7, FinishStepInv
<1>8. CASE Preamble
  BY <1>8, BuildKept DEF Preamble
<1>9. CASE ReportStep
  <2>1. rpc' \in {"report", "failed"} /\ UNCHANGED buildVars
    BY <1>9 DEF ReportStep
  <2> QED
    BY <2>1, BuildKept
<1>10. CASE Sanitize
  BY <1>10, BuildKept DEF Sanitize
<1>11. CASE UNCHANGED reportVars
  <2>1. UNCHANGED buildVars /\ rpc' = rpc
    BY <1>11 DEF reportVars
  <2> QED
    BY <1>0, <2>1, BuildKept
<1> QED
  BY <1>1, <1>2, <1>3, <1>4, <1>5, <1>6, <1>7, <1>8, <1>9, <1>10, <1>11 DEF ReportNext

-----------------------------------------------------------------------------
(***************************************************************************)
(* What robsd-report shows of a step.                                      *)
(***************************************************************************)

LEMMA SuffixIs ==
  ASSUME NEW S, NEW log \in Seq(S), NEW m \in 1 .. Len(log) + 1
  PROVE  IsSuffix(SubSeq(log, m, Len(log)), log)
<1> DEFINE N == Len(log)
           u == SubSeq(log, m, N)
           n == N - m + 1
           x == Reverse(u)
           y == Reverse(log)
<1>1. N \in Nat /\ n \in 0 .. N /\ m \in Nat /\ m + n - 1 = N
  OBVIOUS
<1>2. u \in Seq(S) /\ Len(u) = n /\ \A k \in 1 .. n : u[k] = log[m + k - 1]
  <2>1. m \in 1 .. Len(log) + 1 /\ N \in 0 .. Len(log) /\ N \in m - 1 .. Len(log)
    BY <1>1
  <2>2. u \in Seq(S) /\ Len(u) = IF m <= N THEN N - m + 1 ELSE 0
    BY <2>1, SubSeqProperties
  <2>3. \A k \in 1 .. N - m + 1 : u[k] = log[m + k - 1]
    BY <2>1, SubSeqProperties
  <2> HIDE DEF u
  <2> QED
    BY <1>1, <2>2, <2>3
<1> HIDE DEF u, n
<1>3. x = [k \in 1 .. n |-> u[(n - k) + 1]] /\ y = [k \in 1 .. N |-> log[(N - k) + 1]]
  BY <1>2 DEF Reverse
<1> HIDE DEF x, y
<1>4. x \in Seq(S) /\ Len(x) = n /\ y \in Seq(S) /\ Len(y) = N
  <2>1. \A k \in 1 .. n : (n - k) + 1 \in 1 .. n
    BY <1>1
  <2>2. \A k \in 1 .. N : (N - k) + 1 \in 1 .. N
    BY <1>1
  <2>3. \A k \in 1 .. n : u[k] \in S
    BY <1>2
  <2>4. \A k \in 1 .. N : log[k] \in S
    OBVIOUS
  <2>5. x \in [1 .. n -> S] /\ y \in [1 .. N -> S]
    BY <1>3, <2>1, <2>2, <2>3, <2>4
  <2>6. \A k \in Nat : \A f \in [1 .. k -> S] : f \in Seq(S) /\ Len(f) = k
    BY IsASeq
  <2> HIDE DEF N
  <2> QED
    BY <1>1, <2>5, <2>6
<1>5. \A k \in 1 .. n : x[k] = y[k]
  <2> SUFFICES ASSUME NEW k \in 1 .. n PROVE x[k] = y[k]
    OBVIOUS
  <2>1. (n - k) + 1 \in 1 .. n /\ m + ((n - k) + 1) - 1 = (N - k) + 1 /\ k \in 1 .. N
    BY <1>1
  <2>2. u[(n - k) + 1] = log[m + ((n - k) + 1) - 1]
    BY <1>2, <2>1
  <2> QED
    BY <1>3, <2>1, <2>2
<1>6. SubSeq(x, 1, n) = SubSeq(y, 1, n)
  <2> DEFINE v == SubSeq(x, 1, n)
             w == SubSeq(y, 1, n)
  <2> HIDE DEF N
  <2>1. /\ v \in Seq(S) /\ Len(v) = n /\ \A k \in 1 .. n : v[k] = x[k]
    BY <1>1, <1>4
  <2>2. /\ w \in Seq(S) /\ Len(w) = n /\ \A k \in 1 .. n : w[k] = y[k]
    BY <1>1, <1>4
  <2> HIDE DEF v, w
  <2>3. \A k \in 1 .. Len(v) : v[k] = w[k]
    BY <1>5, <2>1, <2>2
  <2>4. v = w
    BY <2>1, <2>2, <2>3, SeqEqual
  <2> QED
    BY <2>4 DEF v, w
<1>7. n <= N
  BY <1>1
<1> HIDE DEF N
<1>8. IsPrefix(x, y)
  BY <1>4, <1>6, <1>7 DEF IsPrefix
<1> QED
  BY <1>8 DEF IsSuffix, x, y, u, N

LEMMA LastLinesAre ==
  ASSUME NEW log \in Seq(LogLine)
  PROVE  /\ LastLines(log) \in Seq(LogLine) /\ IsSuffix(LastLines(log), log)
         /\ log # <<>> => LastLines(log) # <<>>
<1> DEFINE m == IF Len(log) > NLines THEN Len(log) - NLines + 1 ELSE 1
<1>1. NLines \in Nat \ {0} /\ Len(log) \in Nat
  BY ReportAssumption
<1>2. m \in 1 .. Len(log) + 1 /\ (Len(log) > 0 => m <= Len(log))
  BY <1>1
<1>3. LastLines(log) = SubSeq(log, m, Len(log))
  BY DEF LastLines
<1> HIDE DEF m
<1>4. SubSeq(log, m, Len(log)) \in Seq(LogLine)
  BY <1>1, <1>2
<1>5. log # <<>> => SubSeq(log, m, Len(log)) # <<>>
  <2> SUFFICES ASSUME log # <<>> PROVE SubSeq(log, m, Len(log)) # <<>>
    OBVIOUS
  <2>1. Len(log) > 0
    BY <1>1, EmptySeq
  <2>2. Len(SubSeq(log, m, Len(log))) = Len(log) - m + 1
    BY <1>1, <1>2, <2>1
  <2>3. Len(log) - m + 1 # 0
    BY <1>1, <1>2, <2>1
  <2> QED
    BY <2>2, <2>3
<1> QED
  BY <1>2, <1>3, <1>4, <1>5, SuffixIs

LEMMA EntryIsText ==
  /\ Entry("cvs") \in Seq(LogLine) /\ Entry("diff") \in Seq(LogLine) /\ NewLine \in LogLine
  /\ <<>> \in Seq(LogLine)
<1>1. [mark |-> FALSE, trace |-> FALSE, says |-> {"cvs"}] \in LogLine
  BY DEF LogLine
<1>2. [mark |-> FALSE, trace |-> FALSE, says |-> {"diff"}] \in LogLine
  BY DEF LogLine
<1>3. NewLine \in LogLine
  BY DEF LogLine, NewLine
<1> QED
  BY <1>1, <1>2, <1>3 DEF Entry

LEMMA WholeIsSuffix ==
  ASSUME NEW log \in Seq(LogLine)
  PROVE  IsSuffix(log, log)
<1>1. 1 \in 1 .. Len(log) + 1 /\ SubSeq(log, 1, Len(log)) = log
  BY SubSeqFull
<1> QED
  BY <1>1, SuffixIs

\* The number that regress_log_parse returns is positive if an outcome asked for
\* is there, and negative without a file.
LEMMA ParseTells ==
  ASSUME NEW log \in StepFiles, NEW want
  PROVE  /\ log = NoFile => RegressLogParse(log, want) = -1
         /\ log # NoFile => /\ RegressLogParse(log, want) \in Nat
                            /\ RegressLogParse(log, want) > 0 <=> Ends(log, want) # {}
<1>1. CASE log = NoFile
  BY <1>1 DEF RegressLogParse
<1>2. CASE log # NoFile
  <2>1. log \in Seq(LogLine)
    BY <1>2 DEF StepFiles
  <2> DEFINE K == Ends(log, want)
  <2>2. RegressLogParse(log, want) = Cardinality(K) /\ IsFiniteSet(K)
    BY <1>2, <2>1, ScanFinds DEF RegressLogParse
  <2>3. Cardinality(K) \in Nat /\ (Cardinality(K) = 0 <=> K = {})
    <3> HIDE DEF K
    <3> QED
      BY <2>2, FS_CardinalityType, FS_EmptySet
  <2> QED
    BY <1>2, <2>2, <2>3
<1> QED
  BY <1>1, <1>2

\* What is copied of a log that is there is text.
LEMMA CommonTyped ==
  ASSUME NEW i \in DOMAIN snap, LogOf(i) \in StepFiles
  PROVE  CommonStepLog(i).text \in Seq(LogLine)
<1>1. ReportCvsLog.text \in Seq(LogLine)
  BY EntryIsText DEF ReportCvsLog, Shown, Error
<1>2. LogOf(i) # NoFile => LastLines(LogOf(i)) \in Seq(LogLine)
  BY LastLinesAre DEF StepFiles
<1> QED
  BY <1>1, <1>2, EntryIsText DEF CommonStepLog, Shown, Error

LEMMA StepLogTyped ==
  ASSUME NEW i \in DOMAIN snap, LogOf(i) \in StepFiles
  PROVE  ReportStepLog(i).text \in Seq(LogLine)
<1>1. ReportCvsLog.text \in Seq(LogLine)
  BY EntryIsText DEF ReportCvsLog, Shown, Error
<1>2. CommonStepLog(i).text \in Seq(LogLine)
  BY CommonTyped
<1>3. PortsReportStepLog(i).text \in Seq(LogLine)
  BY <1>1, <1>2, EntryIsText DEF PortsReportStepLog, Shown, Error
<1>4. ASSUME NEW want, RegressLogParse(LogOf(i), want) > 0
      PROVE  Extract(LogOf(i), want, FALSE) \in Seq(LogLine)
  <2>1. LogOf(i) # NoFile
    BY <1>4, ParseTells
  <2>2. LogOf(i) \in Seq(LogLine)
    BY <2>1 DEF StepFiles
  <2> QED
    BY <2>2, EntryIsText, ExtractTyped
<1>5. RegressReportStepLog(i).text \in Seq(LogLine)
  BY <1>2, <1>4, EntryIsText DEF RegressReportStepLog, Shown, Error
<1>6. CanvasReportStepLog(i).text \in Seq(LogLine)
  <2>1. LogOf(i) # NoFile => LogOf(i) \in Seq(LogLine)
    BY DEF StepFiles
  <2> QED
    BY <1>2, <1>4, <2>1, EntryIsText DEF CanvasReportStepLog, Shown, Error
<1> QED
  BY <1>2, <1>3, <1>5, <1>6 DEF ReportStepLog

\* What is known of a step that came to its end before the rows were read.
Ended(i) ==
  /\ i \in DOMAIN snap /\ snap[i] \in Rows /\ ~snap[i].skip /\ snap[i].exit # -1
  /\ snap[i].log <=> Name(i) # "end"
  /\ snap[i].exit = 1 => snap[i].log
  /\ snap[i].log => LogOf(i) # NoFile /\ LogOf(i) \in Seq(LogLine)
  /\ Name(i) = "dpb" /\ snap[i].exit = 0 => pkgdiff

\* The only error for such a step is that the logs of cvs are missing.
LEMMA EndedIsShown ==
  ASSUME NEW i, Ended(i), ~LeftOut(i)
  PROVE  /\ ~(snap[i].exit = 0 /\ ReportSkipStep(i) = -1)
         /\ ReportStepLog(i).error => mode = "robsd-ports" /\ cvslogs = "none"
<1>1. ASSUME NEW want, NEW log \in Seq(LogLine), log # NoFile PROVE RegressLogParse(log, want) \in Nat
  <2>1. log \in StepFiles
    BY DEF StepFiles
  <2> QED
    BY <1>1, <2>1, ParseTells
<1>2. Name(i) # "end"
  <2> SUFFICES ASSUME Name(i) = "end" PROVE FALSE
    OBVIOUS
  <2>1. snap[i].exit = 0
    BY DEF Ended, Rows
  <2>2. ReportSkipStep(i) = 1
    BY DEF ReportSkipStep, PortsSkip, RegressSkip
  <2> QED
    BY <2>1, <2>2 DEF LeftOut
<1>3. snap[i].log /\ LogOf(i) # NoFile /\ LogOf(i) \in Seq(LogLine)
  BY <1>2 DEF Ended
<1>4. ReportSkipStep(i) # -1
  <2>1. RegressLogPeek(LogOf(i), {"SKIPPED", "XFAILED"}) \in Nat
    BY <1>1, <1>3 DEF RegressLogPeek
  <2> QED
    BY <1>3 DEF ReportSkipStep, PortsSkip, RegressSkip
<1>5. ~CommonStepLog(i).error
  BY <1>3 DEF CommonStepLog, Shown, Error
<1>6. ASSUME mode = "robsd-ports", PortsReportStepLog(i).error PROVE cvslogs = "none"
  BY <1>5, <1>6 DEF PortsReportStepLog, ReportCvsLog, Shown, Error, Ended
<1>7. ~RegressReportStepLog(i).error
  <2>1. \A n \in Nat : ~(n < 0)
    OBVIOUS
  <2> QED
    BY <1>1, <1>3, <1>5, <2>1 DEF RegressReportStepLog, Shown, Error
<1>8. ~CanvasReportStepLog(i).error
  BY <1>3 DEF CanvasReportStepLog, Shown, Error
<1> QED
  BY <1>4, <1>5, <1>6, <1>7, <1>8 DEF ReportStepLog

\* The end of its log shows why a step failed, unless it is cvs.
LEMMA CommonExplains ==
  ASSUME NEW i, Ended(i), snap[i].log, Name(i) # "cvs"
  PROVE  /\ IsSuffix(CommonStepLog(i).text, LogOf(i))
         /\ LogOf(i) # <<>> => CommonStepLog(i).text # <<>>
<1>1. LogOf(i) # NoFile /\ LogOf(i) \in Seq(LogLine)
  BY DEF Ended
<1>2. CommonStepLog(i).text = LastLines(LogOf(i))
  BY <1>1 DEF CommonStepLog, Shown
<1> QED
  BY <1>1, <1>2, LastLinesAre

LEMMA FailureExplained ==
  ASSUME NEW i, Ended(i), snap[i].exit = 1, NEW s, s.step = i, s.text = ReportStepLog(i).text
  PROVE  Explained(s)
<1> DEFINE log  == LogOf(i)
           bad  == Ends(log, {"FAILED"})
           odd  == Ends(log, IF IsQuiet(i) THEN {"XPASSED"} ELSE Outcomes)
           want == {"FAILED", "XPASSED"} \cup (IF IsQuiet(i) THEN {} ELSE {"SKIPPED", "XFAILED"})
<1>1. snap[i].log /\ log # NoFile /\ log \in Seq(LogLine) /\ log \in StepFiles
  BY DEF Ended, StepFiles
<1>2. ASSUME NEW w
      PROVE  /\ RegressLogParse(log, w) \in Nat
             /\ RegressLogParse(log, w) > 0 <=> Ends(log, w) # {}
             /\ Shows(Extract(log, w, FALSE), log, Ends(log, w))
  <2> HIDE DEF log
  <2> QED
    BY <1>1, EntryIsText, ParseTells, ExtractShows
<1>3. Explained(s) =
        IF mode \in {"robsd-regress", "canvas"} /\ bad # {}
        THEN Shows(s.text, log, bad)
        ELSE \/ Name(i) = "cvs"
             \/ IsSuffix(s.text, log) /\ (log # <<>> => s.text # <<>>)
             \/ mode = "robsd-regress" /\ odd # {} /\ Shows(s.text, log, odd)
  BY DEF Explained
<1>4. Name(i) # "cvs" => /\ IsSuffix(CommonStepLog(i).text, log)
                         /\ log # <<>> => CommonStepLog(i).text # <<>>
  BY <1>1, CommonExplains
<1> HIDE DEF log
<1>5. CASE mode = "robsd-regress"
  <2>1. bad \in SUBSET Ends(log, want) /\ odd \in SUBSET Ends(log, want)
    BY DEF Ends, Wanted, Outcomes
  <2>2. bad = {} => Ends(log, want) = odd
    BY DEF Ends, Wanted, Outcomes
  <2>3. ReportStepLog(i) = RegressReportStepLog(i)
    BY <1>5 DEF ReportStepLog
  <2>4. RegressReportStepLog(i) =
          IF RegressLogParse(log, want) > 0 THEN Shown(Extract(log, want, FALSE)) ELSE CommonStepLog(i)
    <3>1. RegressLogParse(log, want) \in Nat
      BY <1>2
    <3>2. ~(RegressLogParse(log, want) < 0)
      BY <3>1
    <3> QED
      BY <1>1, <3>2 DEF RegressReportStepLog, log
  <2> HIDE DEF want, bad, odd
  <2>5. CASE Ends(log, want) # {}
    <3>1. s.text = Extract(log, want, FALSE)
      <4>1. RegressLogParse(log, want) > 0
        BY <1>2, <2>5
      <4>2. ReportStepLog(i) = Shown(Extract(log, want, FALSE))
        BY <2>3, <2>4, <4>1
      <4> QED
        BY <4>2 DEF Shown
    <3>2. Shows(s.text, log, Ends(log, want))
      BY <1>2, <3>1
    <3>3. bad # {} => Shows(s.text, log, bad)
      BY <2>1, <3>2, ShowsFewer
    <3> QED
      BY <1>3, <1>5, <2>2, <2>5, <3>2, <3>3
  <2>6. CASE Ends(log, want) = {}
    <3>1. s.text = CommonStepLog(i).text /\ bad = {}
      BY <1>2, <2>1, <2>3, <2>4, <2>6
    <3> QED
      BY <1>3, <1>4, <3>1
  <2> QED
    BY <2>5, <2>6
<1>6. CASE mode = "canvas"
  <2>1. s.text = IF bad # {} THEN Extract(log, {"FAILED"}, FALSE) ELSE log
    BY <1>1, <1>2, <1>6 DEF ReportStepLog, CanvasReportStepLog, Shown, log
  <2>2. Shows(Extract(log, {"FAILED"}, FALSE), log, bad)
    BY <1>2
  <2>3. IsSuffix(log, log)
    BY <1>1, WholeIsSuffix
  <2> HIDE DEF bad
  <2> QED
    BY <1>3, <1>6, <2>1, <2>2, <2>3
<1>7. CASE mode \notin {"robsd-regress", "canvas"}
  <2>1. Name(i) # "cvs" => s.text = CommonStepLog(i).text
    BY <1>7 DEF ReportStepLog, PortsReportStepLog
  <2> QED
    BY <1>3, <1>4, <1>7, <2>1
<1> QED
  BY <1>5, <1>6, <1>7

-----------------------------------------------------------------------------
(***************************************************************************)
(* robsd-report: the rows it read, and the sections it has so far.         *)
(***************************************************************************)

Reading == rpc \in {"report", "done", "failed"}

\* The rows as they were read: those with an exit stay as they are, and jobs that
\* still run have rows without one.
SnapInv ==
  /\ DOMAIN snap \in SUBSET Ids
  /\ Reading =>
       /\ DOMAIN snap = DOMAIN table
       /\ \A i \in DOMAIN snap :
            /\ snap[i] \in Rows
            /\ snap[i].skip = table[i].skip
            /\ snap[i].skip => snap[i].exit = 0
            /\ snap[i].exit # -1 => snap[i] = table[i]
       /\ \A i \in jobs : i \in DOMAIN snap /\ snap[i].exit = -1

VerdictInv ==
  rpc \in {"report", "done"} => (verdict = <<"ok">> <=> \A i \in Ran(snap) : snap[i].exit = 0)

Section == [step : Nat, exit : {-1, 0, 1}, text : Seq(LogLine)]

\* The sections are those of steps before ri, in order, failed ones among them,
\* and explained.
SectionsInv ==
  rpc \in {"report", "done"} =>
    /\ ri \in 1 .. Len(Schedule[mode]) + 1
    /\ rpc = "done" => ri = Len(Schedule[mode]) + 1
    /\ out \in Seq(Section)
    /\ \A k \in DOMAIN out :
         /\ out[k].step \in Ran(snap) /\ out[k].step < ri /\ out[k].exit = snap[out[k].step].exit
         /\ out[k].exit = 1 => Explained(out[k])
    /\ \A k, l \in DOMAIN out : k < l => out[k].step < out[l].step
    /\ \A i \in Ran(snap) : snap[i].exit # 0 /\ i < ri => \E k \in DOMAIN out : out[k].step = i

NoReportInv ==
  rpc = "failed" =>
    \/ \E i \in Ran(snap) : snap[i].exit = -1
    \/ mode = "robsd-ports" /\ cvslogs = "none"

ReportInv == BuildInv /\ SnapInv /\ VerdictInv /\ SectionsInv /\ NoReportInv

LEMMA ReportInvInit == ReportInit => ReportInv
<1> SUFFICES ASSUME ReportInit PROVE ReportInv
  OBVIOUS
<1>1. rpc = "build" /\ snap = <<>>
  BY DEF ReportInit
<1>2. DOMAIN snap = {}
  BY <1>1
<1> QED
  BY <1>1, <1>2, BuildInvInit DEF ReportInv, SnapInv, Reading, VerdictInv, SectionsInv, NoReportInv

\* report_status is right about the rows it is given.
LEMMA VerdictIs ==
  ASSUME BuildInv, rpc # "build"
  PROVE  ReportStatus(table) = <<"ok">> <=> \A i \in Ran(table) : table[i].exit = 0
<1>1. mode \in Modes /\ DOMAIN table \in SUBSET Ids
  BY DEF BuildInv, BuildType
<1> DEFINE bad == {i \in DOMAIN table : table[i].exit # 0}
<1>2. bad = {} <=> \A i \in Ran(table) : table[i].exit = 0
  BY DEF BuildInv, RowsTrue, Ran
<1>3. CASE ~Serial
  <2>1. IsFiniteSet(bad)
    <3>1. IsFiniteSet(DOMAIN table)
      BY <1>1, RanFacts
    <3>2. bad \in SUBSET DOMAIN table
      OBVIOUS
    <3> HIDE DEF bad
    <3> QED
      BY <3>1, <3>2, FS_Subset
  <2> DEFINE n == Cardinality(bad)
  <2>2. n \in Nat /\ (n = 0 <=> bad = {})
    <3> HIDE DEF bad
    <3> QED
      BY <2>1, FS_CardinalityType, FS_EmptySet
  <2>3. ReportStatus(table) = IF n > 0 THEN <<"failures", n>> ELSE <<"ok">>
    BY <1>3 DEF ReportStatus, NumberOfFailures, Serial
  <2>4. <<"failures", n>> # <<"ok">>
    OBVIOUS
  <2> HIDE DEF n, bad
  <2> QED
    BY <1>2, <2>2, <2>3, <2>4
<1>4. CASE Serial
  <2> DEFINE last == Max(Ran(table))
  <2>1. ReportStatus(table) = IF Ran(table) = {} \/ table[last].exit = 0 THEN <<"ok">> ELSE <<"failed in", last>>
    BY <1>4 DEF ReportStatus, Serial
  <2>2. <<"failed in", last>> # <<"ok">>
    OBVIOUS
  <2>3. Ran(table) # {} => last \in Ran(table) /\ \A i \in Ran(table) : i <= last
    BY <1>1, RanFacts
  <2>4. Ran(table) \in SUBSET Nat
    BY <1>1, RanFacts
  <2>5. \A i, j \in Ran(table) : table[i].exit # 0 => j <= i
    BY <1>4 DEF BuildInv, OnlyLastFailed
  <2> HIDE DEF last
  <2>6. ASSUME NEW i \in Ran(table), table[i].exit # 0 PROVE i = last
    <3>1. i <= last /\ last <= i /\ i \in Nat /\ last \in Nat
      BY <2>3, <2>4, <2>5, <2>6
    <3> QED
      BY <3>1
  <2> QED
    BY <2>1, <2>2, <2>3, <2>6
<1> QED
  BY <1>3, <1>4

LEMMA PreambleInv == ReportInv /\ Preamble => ReportInv'
<1> SUFFICES ASSUME ReportInv, Preamble PROVE ReportInv'
  OBVIOUS
<1>1. /\ rpc = "trap" /\ rpc' \in {"silent", "report"} /\ UNCHANGED buildVars
      /\ snap' = table /\ ri' = 1 /\ out' = <<>>
      /\ verdict' = IF DOMAIN table = {} THEN <<"ok">> ELSE ReportStatus(table)
  BY DEF Preamble
<1>2. UNCHANGED <<mode, table, slog, cvsroot, cvslogs, pkgdiff, next, jobs, resumed>>
  BY <1>1 DEF buildVars
<1>3. BuildInv /\ BuildInv'
  BY <1>1, BuildKept DEF ReportInv
<1>4. /\ mode \in Modes /\ DOMAIN table \in SUBSET Ids /\ table \in [DOMAIN table -> Rows]
      /\ jobs \in SUBSET Ran(table)
  BY <1>3 DEF BuildInv, BuildType
<1>5. SnapInv'
  <2>1. \A i \in jobs : i \in DOMAIN table /\ table[i].exit = -1
    BY <1>3, <1>4 DEF BuildInv, RowsTrue, Ran
  <2>2. \A i \in DOMAIN table : table[i] \in Rows /\ (table[i].skip => table[i].exit = 0)
    BY <1>3, <1>4 DEF BuildInv, RowsTrue
  <2> QED
    BY <1>1, <1>2, <1>4, <2>1, <2>2 DEF SnapInv, Ids
<1>6. VerdictInv'
  <2>1. verdict' = <<"ok">> <=> \A i \in Ran(table) : table[i].exit = 0
    <3>1. CASE DOMAIN table = {}
      BY <1>1, <3>1 DEF Ran
    <3>2. CASE DOMAIN table # {}
      <4>1. ReportStatus(table) = <<"ok">> <=> \A i \in Ran(table) : table[i].exit = 0
        BY <1>1, <1>3, VerdictIs
      <4> QED
        BY <1>1, <3>2, <4>1
    <3> QED
      BY <3>1, <3>2
  <2> QED
    BY <1>1, <2>1 DEF VerdictInv
<1>7. SectionsInv'
  <2>1. Ran(table) \in SUBSET Nat /\ \A i \in Ran(table) : ~(i < 1)
    <3>1. Ran(table) \in SUBSET (1 .. Len(Schedule[mode]))
      BY <1>4, RanFacts
    <3> QED
      BY <3>1
  <2>2. 1 \in 1 .. Len(Schedule[mode]) + 1
    BY <1>4, IdsAre
  <2>3. out' \in Seq(Section) /\ DOMAIN out' = {}
    BY <1>1
  <2> QED
    BY <1>1, <1>2, <2>1, <2>2, <2>3 DEF SectionsInv
<1>8. NoReportInv'
  BY <1>1 DEF NoReportInv
<1> QED
  BY <1>3, <1>5, <1>6, <1>7, <1>8 DEF ReportInv

\* A row with an exit tells of a step that has ended, and its log stays.
LEMMA ReadIsEnded ==
  ASSUME BuildInv, SnapInv, Reading, NEW i \in Ran(snap), snap[i].exit # -1
  PROVE  Ended(i) /\ i \notin jobs /\ i \in Ran(table)
<1>1. i \in DOMAIN snap /\ ~snap[i].skip /\ snap[i] = table[i] /\ snap[i] \in Rows /\ i \in Ran(table)
  BY DEF SnapInv, Ran
<1>2. i \notin jobs
  BY DEF SnapInv
<1>3. DOMAIN slog = Ran(table) /\ slog[i] \in StepFiles
  BY <1>1 DEF BuildInv, BuildType
<1>4. LogOf(i) = slog[i]
  BY <1>1, <1>3 DEF LogOf
<1> QED
  BY <1>1, <1>2, <1>3, <1>4 DEF BuildInv, RowsTrue, Ended, StepFiles

LEMMA JobsInv ==
  ASSUME ReportInv, NEW i \in jobs, UNCHANGED <<mode, snap, ri, out, verdict>>,
         jobs' \in SUBSET jobs, rpc' = rpc \/ rpc' = "trap",
         \A j \in Ran(table) : j # i => slog'[j] = slog[j],
         DOMAIN slog' = DOMAIN slog, DOMAIN table' = DOMAIN table,
         \A j \in DOMAIN table : table'[j].skip = table[j].skip /\ (j # i => table'[j] = table[j])
  PROVE  SnapInv' /\ VerdictInv' /\ SectionsInv' /\ NoReportInv'
<1>1. BuildInv /\ SnapInv /\ VerdictInv /\ SectionsInv /\ NoReportInv
  BY DEF ReportInv
<1>2. Reading' => Reading /\ rpc' = rpc
  BY DEF Reading
<1>3. Reading => i \in DOMAIN snap /\ snap[i].exit = -1 /\ i \in Ran(snap)
  BY <1>1 DEF SnapInv, Ran
<1>4. Ran(snap)' = Ran(snap)
  BY DEF Ran
<1>5. SnapInv'
  <2>1. DOMAIN snap' \in SUBSET Ids'
    BY <1>1 DEF SnapInv, Ids
  <2>2. ASSUME Reading'
        PROVE  /\ DOMAIN snap' = DOMAIN table'
               /\ \A j \in DOMAIN snap' :
                    /\ snap'[j] \in Rows
                    /\ snap'[j].skip = table'[j].skip
                    /\ snap'[j].skip => snap'[j].exit = 0
                    /\ snap'[j].exit # -1 => snap'[j] = table'[j]
               /\ \A j \in jobs' : j \in DOMAIN snap' /\ snap'[j].exit = -1
    BY <1>1, <1>2, <1>3, <2>2 DEF SnapInv
  <2> QED
    BY <2>1, <2>2 DEF SnapInv
<1>6. VerdictInv'
  BY <1>1, <1>4 DEF VerdictInv
<1>7. SectionsInv'
  <2> SUFFICES ASSUME rpc' \in {"report", "done"} PROVE SectionsInv'
    BY DEF SectionsInv
  <2>1. Reading /\ rpc' = rpc /\ rpc \in {"report", "done"}
    BY DEF Reading
  <2>2. ASSUME NEW k \in DOMAIN out, out[k].exit = 1 PROVE Explained(out[k])'
    <3>1. out[k].step \in Ran(snap) /\ snap[out[k].step].exit = 1 /\ Explained(out[k])
      BY <1>1, <2>1, <2>2 DEF SectionsInv
    <3>2. out[k].step # i /\ out[k].step \in Ran(table)
      BY <1>1, <1>3, <2>1, <3>1, ReadIsEnded
    <3>3. LogOf(out[k].step)' = LogOf(out[k].step)
      BY <3>2 DEF LogOf
    <3> QED
      BY <3>1, <3>3 DEF Explained, Name, IsQuiet
  <2> QED
    BY <1>1, <1>4, <2>1, <2>2 DEF SectionsInv
<1>8. NoReportInv'
  <2>1. rpc' = "failed" => Reading
    BY DEF Reading
  <2> QED
    BY <1>3, <1>4, <2>1 DEF NoReportInv
<1> QED
  BY <1>5, <1>6, <1>7, <1>8

LEMMA BackToBuild ==
  ASSUME ReportInv, BuildInv', rpc' \in {"build", "trap"}, UNCHANGED <<mode, snap>>
  PROVE  ReportInv'
<1>1. DOMAIN snap' \in SUBSET Ids'
  BY DEF ReportInv, SnapInv, Ids
<1> QED
  BY <1>1 DEF ReportInv, SnapInv, Reading, VerdictInv, SectionsInv, NoReportInv

LEMMA ReportStepInv == ReportInv /\ ReportStep => ReportInv'
<1> SUFFICES ASSUME ReportInv, ReportStep PROVE ReportInv'
  OBVIOUS
<1> DEFINE N == Len(Schedule[mode])
           new == [step |-> ri, exit |-> snap[ri].exit, text |-> ReportStepLog(ri).text]
           skipped == ri \notin DOMAIN snap \/ LeftOut(ri)
           fails == (snap[ri].exit = 0 /\ ReportSkipStep(ri) = -1) \/ ReportStepLog(ri).error
<1>1. /\ rpc = "report" /\ ri \in Ids /\ ri' = ri + 1
      /\ UNCHANGED <<buildVars, snap, verdict>>
      /\ IF skipped THEN UNCHANGED <<rpc, out>>
         ELSE IF fails THEN rpc' = "failed" /\ UNCHANGED out
         ELSE out' = Append(out, new) /\ UNCHANGED rpc
  BY DEF ReportStep
<1>2. UNCHANGED <<mode, table, slog, cvsroot, cvslogs, pkgdiff, next, jobs, resumed>>
  BY <1>1 DEF buildVars
<1>3. BuildInv /\ SnapInv /\ VerdictInv /\ SectionsInv /\ rpc' \in {"report", "failed"}
  BY <1>1 DEF ReportInv
<1>4. BuildInv'
  BY <1>1, <1>3, BuildKept
<1>5. Reading /\ Ran(snap)' = Ran(snap)
  BY <1>1 DEF Reading, Ran
<1>6. SnapInv'
  BY <1>1, <1>2, <1>3, <1>5 DEF SnapInv, Ids
<1>7. VerdictInv'
  BY <1>1, <1>3, <1>5 DEF VerdictInv
<1>8. mode \in Modes /\ DOMAIN snap \in SUBSET Ids
  BY <1>3 DEF BuildInv, BuildType, SnapInv
<1>9. N \in Nat /\ ri \in 1 .. N /\ ri + 1 \in 1 .. N + 1 /\ Ran(snap) \in SUBSET (1 .. N)
  BY <1>1, <1>8, IdsAre, RanFacts
<1>10. ASSUME ~skipped, snap[ri].exit # -1 PROVE Ended(ri) /\ ~LeftOut(ri)
  <2>1. ri \in Ran(snap)
    BY <1>10 DEF LeftOut, Ran
  <2> QED
    BY <1>3, <1>5, <1>10, <2>1, ReadIsEnded
<1>11. NoReportInv'
  <2> SUFFICES ASSUME rpc' = "failed", snap[ri].exit # -1
               PROVE  mode = "robsd-ports" /\ cvslogs = "none"
    <3>1. rpc' = "failed" => ri \in Ran(snap)
      BY <1>1 DEF LeftOut, Ran
    <3> QED
      BY <1>2, <1>5, <1>1, <3>1 DEF NoReportInv
  <2>1. ~skipped /\ fails
    BY <1>1
  <2> QED
    BY <1>10, <2>1, EndedIsShown
<1>12. \A s : Explained(s) => Explained(s)'
  BY <1>2 DEF Explained, LogOf, Name, IsQuiet
<1>13. SectionsInv'
  <2> SUFFICES ASSUME rpc' = "report" PROVE SectionsInv'
    BY <1>3 DEF SectionsInv
  <2>1. /\ ri' \in 1 .. Len(Schedule[mode]) + 1 /\ out \in Seq(Section)
        /\ \A k \in DOMAIN out :
             /\ out[k].step \in Ran(snap) /\ out[k].step < ri /\ out[k].exit = snap[out[k].step].exit
             /\ out[k].exit = 1 => Explained(out[k])
        /\ \A k, l \in DOMAIN out : k < l => out[k].step < out[l].step
        /\ \A i \in Ran(snap) : snap[i].exit # 0 /\ i < ri => \E k \in DOMAIN out : out[k].step = i
    BY <1>1, <1>3, <1>9 DEF SectionsInv
  <2>2. \A i \in Ran(snap) : i < ri + 1 => i < ri \/ i = ri
    BY <1>9
  <2>3. \A k \in DOMAIN out : out[k].step < ri + 1
    BY <1>9, <2>1
  <2>4. CASE skipped
    <3>1. out' = out
      BY <1>1, <2>4
    <3>2. ri \in Ran(snap) => snap[ri].exit = 0
      BY <2>4 DEF LeftOut, Ran
    <3>3. \A i \in Ran(snap) : snap[i].exit # 0 /\ i < ri + 1 => \E k \in DOMAIN out : out[k].step = i
      BY <2>1, <2>2, <3>2
    <3>4. \A k \in DOMAIN out : out[k].exit = 1 => Explained(out[k])'
      BY <1>12, <2>1, <3>1
    <3> QED
      BY <1>1, <1>2, <1>5, <2>1, <2>3, <3>1, <3>3, <3>4 DEF SectionsInv
  <2>5. CASE ~skipped
    <3>1. out' = Append(out, new) /\ ~fails
      BY <1>1, <2>5
    <3>2. ri \in Ran(snap)
      BY <2>5 DEF LeftOut, Ran
    <3>3. snap[ri] \in Rows /\ LogOf(ri) \in StepFiles
      <4>1. DOMAIN slog = Ran(table) /\ slog \in [Ran(table) -> StepFiles] /\ NoFile \in StepFiles
        BY <1>3 DEF BuildInv, BuildType, StepFiles
      <4> QED
        BY <1>3, <1>5, <2>5, <4>1 DEF SnapInv, LogOf
    <3>4. new \in Section
      <4>1. ReportStepLog(ri).text \in Seq(LogLine)
        BY <2>5, <3>3, StepLogTyped
      <4>2. snap[ri].exit \in {-1, 0, 1} /\ ri \in Nat
        BY <1>9, <3>3 DEF Rows
      <4> QED
        BY <4>1, <4>2 DEF Section
    <3>5. new.step = ri /\ new.exit = snap[ri].exit /\ new.text = ReportStepLog(ri).text
      OBVIOUS
    <3>6. new.exit = 1 => Explained(new)
      BY <1>10, <2>5, <3>5, FailureExplained
    <3> HIDE DEF new
    <3> DEFINE m == Len(out)
    <3>7. /\ out' \in Seq(Section) /\ DOMAIN out' = 1 .. m + 1 /\ DOMAIN out = 1 .. m /\ m \in Nat
          /\ out'[m + 1] = new /\ \A k \in 1 .. m : out'[k] = out[k]
      BY <2>1, <3>1, <3>4
    <3> HIDE DEF m
    <3>8. \A k \in 1 .. m + 1 : k = m + 1 \/ k \in 1 .. m
      BY <3>7
    <3>9. ASSUME NEW k \in 1 .. m + 1
          PROVE  /\ out'[k].step \in Ran(snap) /\ out'[k].step < ri + 1 /\ out'[k].exit = snap[out'[k].step].exit
                 /\ out'[k].exit = 1 => Explained(out'[k])
      <4>1. CASE k = m + 1
        BY <1>9, <3>2, <3>5, <3>6, <3>7, <4>1
      <4>2. CASE k \in 1 .. m
        BY <2>1, <2>3, <3>7, <4>2
      <4> QED
        BY <3>8, <4>1, <4>2
    <3>10. ASSUME NEW k \in 1 .. m + 1, NEW l \in 1 .. m + 1, k < l PROVE out'[k].step < out'[l].step
      <4>1. k \in 1 .. m
        BY <3>7, <3>10
      <4>2. CASE l = m + 1
        BY <2>1, <3>5, <3>7, <4>1, <4>2
      <4>3. CASE l \in 1 .. m
        BY <2>1, <3>7, <3>10, <4>1, <4>3
      <4> QED
        BY <3>8, <4>2, <4>3
    <3>11. ASSUME NEW i \in Ran(snap), snap[i].exit # 0, i < ri + 1
           PROVE  \E k \in 1 .. m + 1 : out'[k].step = i
      <4>1. CASE i = ri
        BY <3>5, <3>7, <4>1
      <4>2. CASE i < ri
        <5>1. PICK k \in 1 .. m : out[k].step = i
          BY <2>1, <3>7, <3>11, <4>2
        <5>2. k \in 1 .. m + 1
          BY <3>7
        <5> QED
          BY <3>7, <5>1, <5>2
      <4> QED
        BY <2>2, <3>11, <4>1, <4>2
    <3>12. \A k \in 1 .. m + 1 : out'[k].exit = 1 => Explained(out[k])'
      BY <1>2, <3>9 DEF Explained, LogOf, Name, IsQuiet
    <3> QED
      BY <1>1, <1>2, <1>5, <2>1, <3>7, <3>9, <3>10, <3>11, <3>12 DEF SectionsInv
  <2> QED
    BY <2>4, <2>5
<1> QED
  BY <1>4, <1>6, <1>7, <1>11, <1>13 DEF ReportInv

LEMMA SanitizeInv == ReportInv /\ Sanitize => ReportInv'
<1> SUFFICES ASSUME ReportInv, Sanitize PROVE ReportInv'
  OBVIOUS
<1>1. /\ rpc = "report" /\ ri = Len(Schedule[mode]) + 1 /\ rpc' = "done"
      /\ UNCHANGED <<buildVars, snap, ri, out, verdict>>
  BY DEF Sanitize, outVars
<1>2. UNCHANGED <<mode, table, slog, cvsroot, cvslogs, pkgdiff, next, jobs, resumed>>
  BY <1>1 DEF buildVars
<1>3. BuildInv /\ SnapInv /\ VerdictInv /\ SectionsInv
  BY DEF ReportInv
<1>4. BuildInv'
  BY <1>1, <1>3, BuildKept
<1>5. SnapInv' /\ VerdictInv' /\ NoReportInv'
  BY <1>1, <1>2, <1>3 DEF SnapInv, Reading, VerdictInv, NoReportInv, Ids, Ran
<1>6. SectionsInv'
  <2>1. \A k \in DOMAIN out : Explained(out[k]) => Explained(out[k])'
    BY <1>1, <1>2 DEF Explained, LogOf, Name, IsQuiet
  <2>2. Ran(snap)' = Ran(snap)
    BY <1>1 DEF Ran
  <2> QED
    BY <1>1, <1>2, <1>3, <2>1, <2>2 DEF SectionsInv
<1> QED
  BY <1>4, <1>5, <1>6 DEF ReportInv

LEMMA StillInv == ReportInv /\ UNCHANGED reportVars => ReportInv'
<1> SUFFICES ASSUME ReportInv, UNCHANGED reportVars PROVE ReportInv'
  OBVIOUS
<1>1. /\ UNCHANGED <<buildVars, rpc, snap, ri, out, verdict>>
  BY DEF reportVars, outVars
<1>2. UNCHANGED <<mode, table, slog, cvsroot, cvslogs, pkgdiff, next, jobs, resumed>>
  BY <1>1 DEF buildVars
<1>3. BuildInv /\ SnapInv /\ VerdictInv /\ SectionsInv /\ NoReportInv
  BY DEF ReportInv
<1>4. BuildInv'
  BY <1>1, <1>3, BuildKept DEF BuildInv, BuildType
<1>5. SnapInv' /\ VerdictInv' /\ NoReportInv'
  BY <1>1, <1>2, <1>3 DEF SnapInv, Reading, VerdictInv, NoReportInv, Ids, Ran
<1>6. SectionsInv'
  <2>1. \A k \in DOMAIN out : Explained(out[k]) => Explained(out[k])'
    BY <1>1, <1>2 DEF Explained, LogOf, Name, IsQuiet
  <2>2. Ran(snap)' = Ran(snap)
    BY <1>1 DEF Ran
  <2> QED
    BY <1>1, <1>2, <1>3, <2>1, <2>2 DEF SectionsInv
<1> QED
  BY <1>4, <1>5, <1>6 DEF ReportInv

LEMMA ReportInvNext == ReportInv /\ [ReportNext]_reportVars => ReportInv'
<1> SUFFICES ASSUME ReportInv, [ReportNext]_reportVars PROVE ReportInv'
  OBVIOUS
<1>0. BuildInv /\ BuildInv'
  BY BuildInvNext DEF ReportInv
<1>1. CASE SkipStep
  BY <1>0, <1>1, BackToBuild DEF SkipStep, outVars
<1>2. CASE BeginStep
  BY <1>0, <1>2, BackToBuild DEF BeginStep, outVars
<1>3. CASE FinishEnd
  BY <1>0, <1>3, BackToBuild DEF FinishEnd, outVars
<1>4. CASE Abort
  BY <1>0, <1>4, BackToBuild DEF Abort, buildVars, outVars
<1>5. CASE ResumeBuild
  BY <1>0, <1>5, BackToBuild DEF ResumeBuild, outVars
<1>6. ASSUME NEW i \in Ids, MakeLog(i) PROVE ReportInv'
  <2>1. /\ i \in jobs /\ slog' = [slog EXCEPT ![i] = <<>>] /\ table' = table /\ jobs' = jobs /\ rpc' = rpc
        /\ UNCHANGED <<mode, snap, ri, out, verdict>>
    BY <1>6 DEF MakeLog, outVars
  <2>2. DOMAIN slog = Ran(table)
    BY <1>0 DEF BuildInv, BuildType
  <2>3. DOMAIN slog' = DOMAIN slog /\ \A j \in Ran(table) : j # i => slog'[j] = slog[j]
    BY <2>1, <2>2
  <2>4. SnapInv' /\ VerdictInv' /\ SectionsInv' /\ NoReportInv'
    BY <2>1, <2>3, JobsInv
  <2> QED
    BY <1>0, <2>4 DEF ReportInv
<1>7. ASSUME NEW i \in Ids, NEW exit \in {0, 1}, NEW log \in StepLogs, FinishStep(i, exit, log) PROVE ReportInv'
  <2>1. /\ i \in jobs /\ slog' = [slog EXCEPT ![i] = log] /\ table' = [table EXCEPT ![i].exit = exit]
        /\ jobs' = jobs \ {i} /\ (rpc' = rpc \/ rpc' = "trap")
        /\ UNCHANGED <<mode, snap, ri, out, verdict>>
    BY <1>7 DEF FinishStep, outVars
  <2>2. DOMAIN slog = Ran(table) /\ table \in [DOMAIN table -> Rows]
    BY <1>0 DEF BuildInv, BuildType
  <2>3. DOMAIN slog' = DOMAIN slog /\ \A j \in Ran(table) : j # i => slog'[j] = slog[j]
    BY <2>1, <2>2
  <2>4. DOMAIN table' = DOMAIN table
        /\ \A j \in DOMAIN table : table'[j].skip = table[j].skip /\ (j # i => table'[j] = table[j])
    BY <2>1, <2>2 DEF Rows
  <2>5. SnapInv' /\ VerdictInv' /\ SectionsInv' /\ NoReportInv'
    BY <2>1, <2>3, <2>4, JobsInv
  <2> QED
    BY <1>0, <2>5 DEF ReportInv
<1>8. CASE Preamble
  BY <1>8, PreambleInv
<1>9. CASE ReportStep
  BY <1>9, ReportStepInv
<1>10. CASE Sanitize
  BY <1>10, SanitizeInv
<1>11. CASE UNCHANGED reportVars
  BY <1>11, StillInv
<1> QED
  BY <1>1, <1>2, <1>3, <1>4, <1>5, <1>6, <1>7, <1>8, <1>9, <1>10, <1>11 DEF ReportNext

\* For schedules of any steps, logs of any lines and builds that are aborted and
\* resumed any number of times: report_status says ok exactly if no step that was
\* run failed or was cut short.  In the modes that look at the last row only, this
\* is so because a failure is the end of the build and a resumed one starts at it.
THEOREM StatusIsTrue == ReportSpec => []StatusTrue
<1>1. ReportInit => ReportInv
  BY ReportInvInit
<1>2. ReportInv /\ [ReportNext]_reportVars => ReportInv'
  BY ReportInvNext
<1>3. ReportInv => StatusTrue
  <2> SUFFICES ASSUME ReportInv PROVE StatusTrue
    OBVIOUS
  <2>1. ReportTypeOK
    BY DEF ReportInv, BuildInv, BuildType, SnapInv, ReportTypeOK
  <2>2. rpc = "done" => (verdict = <<"ok">> <=> \A i \in Ran(snap) : snap[i].exit = 0)
    BY DEF ReportInv, VerdictInv
  <2> QED
    BY <2>1, <2>2 DEF StatusTrue
<1> QED
  BY <1>1, <1>2, <1>3, PTL DEF ReportSpec

\* For the same builds, with steps of robsd-regress and canvas that still run
\* beside the report: no step that failed or was cut short before its rows were
\* read is left out, the sections are in order and show what failed in the log,
\* and there is no report only if a step was cut short or the logs of cvs are
\* missing.
THEOREM FailuresReported == ReportSpec => []FailuresShown
<1>1. ReportInit => ReportInv
  BY ReportInvInit
<1>2. ReportInv /\ [ReportNext]_reportVars => ReportInv'
  BY ReportInvNext
<1>3. ReportInv => FailuresShown
  <2> SUFFICES ASSUME ReportInv PROVE FailuresShown
    OBVIOUS
  <2>1. mode \in Modes /\ DOMAIN snap \in SUBSET Ids
    BY DEF ReportInv, BuildInv, BuildType, SnapInv
  <2>2. Ran(snap) \in SUBSET (1 .. Len(Schedule[mode])) /\ Len(Schedule[mode]) \in Nat
    BY <2>1, RanFacts, IdsAre
  <2>3. ASSUME rpc = "done"
        PROVE  /\ \A i \in Ran(snap) : snap[i].exit # 0 =>
                    \E k \in DOMAIN out : out[k].step = i /\ out[k].exit = snap[i].exit
               /\ \A k, l \in DOMAIN out : k < l => out[k].step < out[l].step
               /\ \A k \in DOMAIN out : out[k].exit = 1 => Explained(out[k])
    <3>1. ri = Len(Schedule[mode]) + 1
      BY <2>3 DEF ReportInv, SectionsInv
    <3>2. \A i \in Ran(snap) : i < ri
      BY <2>2, <3>1
    <3> QED
      BY <2>3, <3>2 DEF ReportInv, SectionsInv
  <2>4. rpc = "failed" =>
          \/ \E i \in Ran(snap) : snap[i].exit = -1
          \/ mode = "robsd-ports" /\ cvslogs = "none"
    BY DEF ReportInv, NoReportInv
  <2> QED
    BY <2>3, <2>4 DEF FailuresShown
<1> QED
  BY <1>1, <1>2, <1>3, PTL DEF ReportSpec

-----------------------------------------------------------------------------
(***************************************************************************)
(* The page of robsd-regress-html.  The builds that were parsed, those of  *)
(* earlier architectures and the first ones of that at hand, determine the *)
(* invocations and the runs but for their order, and sorting keeps what is *)
(* said of them.                                                           *)
(***************************************************************************)

\* Where the walk over the builds is.
WalkInv ==
  /\ args \in Histories
  /\ argi \in 1 .. Len(args) + 1
  /\ walked \in Nat
  /\ argi \in DOMAIN args => walked <= Len(Builds)
  /\ argi \notin DOMAIN args => walked = 0
  /\ hpc \in {"parse", "done", "failed"}

\* The builds behind it: the first w of architecture a, and those of the ones before.
Behind(a, w, k, x) == k < a \/ (k = a /\ x <= w)

IsInvocationOf(v, k, x) ==
  LET b == args[k].builds[x] IN
  /\ v.dir = <<args[k].arch, b.date>>
  /\ v.time = b.time
  /\ v.delta = IF x = 1 THEN "NONE" ELSE DurationDelta(b.seconds, args[k].builds[x - 1].seconds)

InvocationsInv ==
  /\ invocations \in Seq(ToSet(invocations))
  /\ \A v \in ToSet(invocations) :
       /\ v.dir \in made
       /\ v.fail \in 0 .. v.total
       /\ \E k \in DOMAIN args : \E x \in DOMAIN args[k].builds :
            Behind(argi, walked, k, x) /\ IsInvocationOf(v, k, x)
  /\ \A k \in DOMAIN args : \A x \in DOMAIN args[k].builds :
       Behind(argi, walked, k, x) => \E v \in ToSet(invocations) : IsInvocationOf(v, k, x)
  /\ \A i, j \in DOMAIN invocations : invocations[i].dir = invocations[j].dir => i = j
  /\ walked >= 1 => invocations # <<>> /\ Last(invocations).seconds = Builds[walked].seconds

\* A run of a suite is that of a row behind the walk.
RunFrom(n, run) ==
  \E k \in DOMAIN args : \E x \in DOMAIN args[k].builds :
    /\ Behind(argi, walked, k, x)
    /\ \E row \in ToSet(args[k].builds[x].rows) :
         row.name = n /\ IsRunOf(run, args[k].arch, args[k].builds[x], row)

SuitesInv ==
  /\ DOMAIN suites = Names
  /\ sfail \in [Names -> Nat]
  /\ \A n \in Names :
       /\ suites[n] \in Seq(ToSet(suites[n]))
       /\ \A i, j \in DOMAIN suites[n] : suites[n][i].path = suites[n][j].path => i = j
       /\ \A run \in ToSet(suites[n]) :
            /\ DirOf(run) \in made
            /\ run.path[3] = n
            /\ RunFrom(n, run)
       /\ sfail[n] = 0 <=> Failures(ToSet(suites[n])) = {}
  /\ \A k \in DOMAIN args : \A x \in DOMAIN args[k].builds :
       Behind(argi, walked, k, x) =>
         \A row \in ToSet(args[k].builds[x].rows) :
           Kind[row.name] # "unknown" =>
             \E run \in ToSet(suites[row.name]) : IsRunOf(run, args[k].arch, args[k].builds[x], row)

FilesInv == \A p \in DOMAIN files : <<p[1], p[2]>> \in made

RatesInv ==
  \A v \in ToSet(invocations) :
    /\ v.total = Cardinality(RunsOf(v.dir))
    /\ v.fail = Cardinality(Failures(RunsOf(v.dir)))

\* Latest first.
Descending(v) == \A i, j \in DOMAIN v : i < j => v[i].time >= v[j].time

OrderInv ==
  argi > 1 /\ walked = 0 =>
    /\ Descending(invocations)
    /\ \A n \in Names : Descending(suites[n])

PageInv ==
  hpc = "done" =>
    /\ argi = Len(args) + 1
    /\ \E order \in SortSuites :
         page = [i \in DOMAIN order |-> [name |-> order[i], columns |-> RenderSuite(order[i])]]

HtmlInv ==
  /\ WalkInv
  /\ hpc # "failed" =>
       /\ InvocationsInv /\ SuitesInv /\ FilesInv /\ RatesInv /\ OrderInv /\ PageInv

\* What the assumption says of a build.
RowsOK(b) ==
  /\ b.time \in Int
  /\ b.rows \in Seq(ToSet(b.rows))
  /\ \A i \in DOMAIN b.rows : b.rows[i].name \in Names
  /\ \A i, j \in DOMAIN b.rows : b.rows[i].name = b.rows[j].name => i = j

LEMMA ArgsFacts ==
  ASSUME args \in Histories
  PROVE  /\ args # <<>> /\ Len(args) \in Nat /\ DOMAIN args = 1 .. Len(args)
         /\ \A k \in DOMAIN args :
              /\ Len(args[k].builds) \in Nat /\ DOMAIN args[k].builds = 1 .. Len(args[k].builds)
              /\ \A x \in DOMAIN args[k].builds : RowsOK(args[k].builds[x])
<1>1. args # <<>> /\ args \in Seq(ToSet(args))
  BY HistoryAssumption
<1>2. Len(args) \in Nat /\ DOMAIN args = 1 .. Len(args)
  BY <1>1
<1>3. ASSUME NEW k \in DOMAIN args
      PROVE  /\ Len(args[k].builds) \in Nat /\ DOMAIN args[k].builds = 1 .. Len(args[k].builds)
             /\ \A x \in DOMAIN args[k].builds : RowsOK(args[k].builds[x])
  <2> DEFINE builds == args[k].builds
  <2>1. builds \in Seq(ToSet(builds))
    BY <1>3, HistoryAssumption
  <2>2. ASSUME NEW x \in DOMAIN builds PROVE RowsOK(builds[x])
    <3>1. builds[x] \in ToSet(builds)
      BY DEF ToSet
    <3> QED
      BY <1>3, <3>1, HistoryAssumption, Zenon DEF RowsOK
  <2> HIDE DEF builds
  <2>3. Len(builds) \in Nat /\ DOMAIN builds = 1 .. Len(builds)
    BY <2>1
  <2> QED
    BY <2>2, <2>3 DEF builds
<1> QED
  BY <1>1, <1>2, <1>3

RowsStart == [suites |-> suites, sfail |-> sfail, files |-> files, total |-> 0, fail |-> 0, error |-> FALSE]

\* The loop over rows starts with what there is and takes a row at a time.
LEMMA RowsRun ==
  ASSUME NEW arch, NEW b, Len(b.rows) \in Nat
  PROVE  /\ ParseRows(arch, b)[0] = RowsStart
         /\ \A n \in 0 .. Len(b.rows) - 1 :
              ParseRows(arch, b)[n + 1] = ParseRow(ParseRows(arch, b)[n], b.rows[n + 1], arch, b)
<1> DEFINE N == Len(b.rows)
           IsLoop(m, f) ==
             f = [n \in 0 .. m |-> IF n = 0 THEN RowsStart ELSE ParseRow(f[n - 1], b.rows[n], arch, b)]
           P == {m \in 0 .. N : \E f : IsLoop(m, f)}
<1>1. 0 \in P
  <2> DEFINE f == [n \in 0 .. 0 |-> RowsStart]
  <2>1. IsLoop(0, f)
    OBVIOUS
  <2> HIDE DEF f, IsLoop
  <2> QED
    BY <2>1
<1>2. ASSUME NEW m \in 0 .. N - 1, m \in P PROVE m + 1 \in P
  <2>1. PICK f : IsLoop(m, f)
    BY <1>2
  <2> DEFINE g == [n \in 0 .. m + 1 |->
                     IF n = m + 1 THEN ParseRow(f[m], b.rows[m + 1], arch, b) ELSE f[n]]
  <2>2. \A n \in 0 .. m : g[n] = f[n]
    OBVIOUS
  <2>3. \A n \in 0 .. m + 1 :
          g[n] = IF n = 0 THEN RowsStart ELSE ParseRow(g[n - 1], b.rows[n], arch, b)
    <3>1. CASE m + 1 = 0
      BY <3>1
    <3>2. TAKE n \in 0 .. m + 1
    <3>3. CASE n = m + 1
      <4>1. g[n - 1] = f[m] /\ n # 0
        BY <3>3, <2>2
      <4> QED
        BY <4>1, <3>3
    <3>4. CASE n \in 0 .. m
      <4>1. f[n] = IF n = 0 THEN RowsStart ELSE ParseRow(f[n - 1], b.rows[n], arch, b)
        BY <2>1, <3>4
      <4>2. n # 0 => g[n - 1] = f[n - 1]
        BY <3>4, <2>2
      <4> QED
        BY <4>1, <4>2, <3>4, <2>2
    <3> QED
      BY <3>3, <3>4
  <2>4. IsLoop(m + 1, g)
    BY <2>3
  <2> HIDE DEF g, IsLoop
  <2>5. m + 1 \in 0 .. N
    OBVIOUS
  <2> QED
    BY <2>4, <2>5
<1>3. N \in P
  <2> HIDE DEF P
  <2>1. \A n \in 0 .. N : n \in P
    BY <1>1, <1>2, Stepwise
  <2> QED
    BY <2>1
<1>4. IsLoop(N, ParseRows(arch, b))
  <2>1. PICK f : IsLoop(N, f)
    BY <1>3
  <2> QED
    BY <2>1 DEF ParseRows, RowsStart
<1> HIDE DEF IsLoop
<1>5. ASSUME NEW n \in 0 .. N
      PROVE ParseRows(arch, b)[n] =
              IF n = 0 THEN RowsStart ELSE ParseRow(ParseRows(arch, b)[n - 1], b.rows[n], arch, b)
  BY <1>4 DEF IsLoop
<1>6. ParseRows(arch, b)[0] = RowsStart
  BY <1>5
<1>7. ASSUME NEW n \in 0 .. N - 1
      PROVE ParseRows(arch, b)[n + 1] = ParseRow(ParseRows(arch, b)[n], b.rows[n + 1], arch, b)
  <2>1. n + 1 \in 0 .. N /\ n + 1 # 0 /\ (n + 1) - 1 = n
    OBVIOUS
  <2> QED
    BY <2>1, <1>5
<1> QED
  BY <1>6, <1>7

RunFor(arch, b, row) ==
  [path |-> <<arch, b.date, row.name>>, time |-> b.time, status |-> RunStatus(row.exit, row.log)]

RowFails(row) == IsRunStatusFailure(RunStatus(row.exit, row.log))
RowKnown(row) == Kind[row.name] # "unknown"

\* The steps with a run among the first n rows, and those with a failed one.
KnownIn(b, n) == {m \in Names : \E i \in 1 .. n : b.rows[i].name = m /\ RowKnown(b.rows[i])}
FailedIn(b, n) ==
  {m \in Names : \E i \in 1 .. n : b.rows[i].name = m /\ RowKnown(b.rows[i]) /\ RowFails(b.rows[i])}

\* The state of the loop after n rows, unless a log could not be read.
RowsInv(t, arch, b, n) ==
  /\ DOMAIN t.suites = Names
  /\ \A i \in 1 .. n : LET row == b.rows[i] IN
       RowKnown(row) => /\ t.suites[row.name] = Append(suites[row.name], RunFor(arch, b, row))
                        /\ t.files[<<arch, b.date, row.name>>] = RunLog(row.exit, row.log)
  /\ \A m \in Names \ KnownIn(b, n) : t.suites[m] = suites[m]
  /\ t.sfail = [m \in Names |-> sfail[m] + (IF m \in FailedIn(b, n) THEN 1 ELSE 0)]
  /\ DOMAIN t.files = DOMAIN files \cup {<<arch, b.date, m>> : m \in KnownIn(b, n)}
  /\ \A p \in DOMAIN files : t.files[p] = files[p]
  /\ t.total = Cardinality(KnownIn(b, n))
  /\ t.fail = Cardinality(FailedIn(b, n))

LEMMA ParseRowError ==
  ASSUME NEW s, NEW row, NEW arch, NEW b, "error" \in DOMAIN s
  PROVE  "error" \in DOMAIN ParseRow(s, row, arch, b)
<1>1. DOMAIN [s EXCEPT !.error = TRUE] = DOMAIN s
  OBVIOUS
<1>2. CASE s.error \/ Kind[row.name] = "unknown"
  BY <1>2 DEF ParseRow
<1>3. CASE ~s.error /\ Kind[row.name] # "unknown" /\ row.log = NoFile
  <2>1. ParseRow(s, row, arch, b) = [s EXCEPT !.error = TRUE]
    BY <1>3 DEF ParseRow
  <2> QED
    BY <1>1, <2>1
<1>4. CASE ~s.error /\ Kind[row.name] # "unknown" /\ row.log # NoFile
  BY <1>4 DEF ParseRow
<1> QED
  BY <1>2, <1>3, <1>4

\* What a row with a run does.
RowParsed(t, s, row, arch, b) ==
  LET bad == IF RowFails(row) THEN 1 ELSE 0 IN
  /\ t.suites = [s.suites EXCEPT ![row.name] = Append(@, RunFor(arch, b, row))]
  /\ t.sfail = [s.sfail EXCEPT ![row.name] = @ + bad]
  /\ t.files = WriteLog(s.files, <<arch, b.date, row.name>>, RunLog(row.exit, row.log))
  /\ t.total = s.total + 1
  /\ t.fail = s.fail + bad

LEMMA ParseRowKeeps ==
  ASSUME NEW s, NEW row, NEW arch, NEW b, "error" \in DOMAIN s, ~ParseRow(s, row, arch, b).error
  PROVE  /\ ~s.error
         /\ ~RowKnown(row) => ParseRow(s, row, arch, b) = s
         /\ RowKnown(row) => RowParsed(ParseRow(s, row, arch, b), s, row, arch, b)
<1>1. CASE s.error
  <2>1. ParseRow(s, row, arch, b) = s
    BY <1>1 DEF ParseRow
  <2> QED
    BY <1>1, <2>1
<1>2. CASE ~s.error /\ ~RowKnown(row)
  BY <1>2 DEF ParseRow, RowKnown
<1>3. CASE ~s.error /\ RowKnown(row) /\ row.log = NoFile
  <2>1. ParseRow(s, row, arch, b) = [s EXCEPT !.error = TRUE]
    BY <1>3 DEF ParseRow, RowKnown
  <2> QED
    BY <2>1
<1>4. CASE ~s.error /\ RowKnown(row) /\ row.log # NoFile
  BY <1>4 DEF ParseRow, RowKnown, RowFails, RunFor, RowParsed
<1> QED
  BY <1>1, <1>2, <1>3, <1>4

LEMMA KnownGrows ==
  ASSUME NEW b, RowsOK(b), IsFiniteSet(Names), NEW n \in 0 .. Len(b.rows) - 1
  PROVE  LET row == b.rows[n + 1] IN
         /\ row.name \in Names
         /\ \A i \in 1 .. n : b.rows[i].name \in Names /\ b.rows[i].name # row.name
         /\ KnownIn(b, n + 1) = KnownIn(b, n) \cup (IF RowKnown(row) THEN {row.name} ELSE {})
         /\ FailedIn(b, n + 1) =
              FailedIn(b, n) \cup (IF RowKnown(row) /\ RowFails(row) THEN {row.name} ELSE {})
         /\ row.name \notin KnownIn(b, n) /\ row.name \notin FailedIn(b, n)
         /\ FailedIn(b, n) \in SUBSET KnownIn(b, n)
         /\ IsFiniteSet(KnownIn(b, n)) /\ IsFiniteSet(FailedIn(b, n))
         /\ Cardinality(KnownIn(b, n)) \in Nat /\ Cardinality(FailedIn(b, n)) \in Nat
<1> DEFINE row == b.rows[n + 1]
<1>1. Len(b.rows) \in Nat /\ DOMAIN b.rows = 1 .. Len(b.rows)
  BY DEF RowsOK
<1>2. n + 1 \in DOMAIN b.rows /\ \A i \in 1 .. n : i \in DOMAIN b.rows /\ i # n + 1
  BY <1>1
<1>3. row.name \in Names /\ \A i \in 1 .. n : b.rows[i].name \in Names /\ b.rows[i].name # row.name
  BY <1>2 DEF RowsOK
<1>4. 1 .. n + 1 = (1 .. n) \cup {n + 1}
  BY <1>1
<1> HIDE DEF row
<1>5. KnownIn(b, n + 1) = KnownIn(b, n) \cup (IF RowKnown(row) THEN {row.name} ELSE {})
  <2>1. ASSUME NEW m \in Names
        PROVE m \in KnownIn(b, n + 1) <=> m \in KnownIn(b, n) \/ (RowKnown(row) /\ m = row.name)
    BY <1>4, Zenon DEF KnownIn, row
  <2>2. KnownIn(b, n + 1) \in SUBSET Names /\ KnownIn(b, n) \in SUBSET Names
    BY DEF KnownIn
  <2> QED
    BY <2>1, <2>2, <1>3
<1>6. FailedIn(b, n + 1) =
        FailedIn(b, n) \cup (IF RowKnown(row) /\ RowFails(row) THEN {row.name} ELSE {})
  <2>1. ASSUME NEW m \in Names
        PROVE m \in FailedIn(b, n + 1) <=> m \in FailedIn(b, n) \/ (RowKnown(row) /\ RowFails(row) /\ m = row.name)
    BY <1>4, Zenon DEF FailedIn, row
  <2>2. FailedIn(b, n + 1) \in SUBSET Names /\ FailedIn(b, n) \in SUBSET Names
    BY DEF FailedIn
  <2> QED
    BY <2>1, <2>2, <1>3
<1>7. row.name \notin KnownIn(b, n) /\ row.name \notin FailedIn(b, n)
  BY <1>3 DEF KnownIn, FailedIn
<1>8. KnownIn(b, n) \in SUBSET Names /\ FailedIn(b, n) \in SUBSET KnownIn(b, n)
  BY DEF KnownIn, FailedIn
<1>9. IsFiniteSet(KnownIn(b, n)) /\ Cardinality(KnownIn(b, n)) \in Nat
  BY <1>8, FS_Subset, FS_CardinalityType
<1>10. IsFiniteSet(FailedIn(b, n)) /\ Cardinality(FailedIn(b, n)) \in Nat
  BY <1>8, <1>9, FS_Subset, FS_CardinalityType
<1> QED
  BY <1>3, <1>5, <1>6, <1>7, <1>8, <1>9, <1>10, Zenon DEF row

LEMMA RowsStep ==
  ASSUME NEW arch, NEW b, RowsOK(b), IsFiniteSet(Names), NEW n \in 0 .. Len(b.rows) - 1,
         NEW s, "error" \in DOMAIN s, RowsInv(s, arch, b, n), sfail \in [Names -> Nat],
         DOMAIN suites = Names,
         \A m \in Names : <<arch, b.date, m>> \notin DOMAIN files,
         ~ParseRow(s, b.rows[n + 1], arch, b).error
  PROVE  RowsInv(ParseRow(s, b.rows[n + 1], arch, b), arch, b, n + 1)
<1> DEFINE row == b.rows[n + 1]
           t == ParseRow(s, row, arch, b)
           bad == IF RowFails(row) THEN 1 ELSE 0
           path == <<arch, b.date, row.name>>
           PathOf(i) == <<arch, b.date, b.rows[i].name>>
<1>1. n + 1 \in 1 .. n + 1 /\ \A i \in 1 .. n + 1 : i \in 1 .. n \/ i = n + 1
  BY DEF RowsOK
<1>2. /\ row.name \in Names
      /\ \A i \in 1 .. n : b.rows[i].name \in Names /\ b.rows[i].name # row.name
      /\ KnownIn(b, n + 1) = KnownIn(b, n) \cup (IF RowKnown(row) THEN {row.name} ELSE {})
      /\ FailedIn(b, n + 1) =
           FailedIn(b, n) \cup (IF RowKnown(row) /\ RowFails(row) THEN {row.name} ELSE {})
      /\ row.name \notin KnownIn(b, n) /\ row.name \notin FailedIn(b, n)
  BY KnownGrows
<1>3. /\ IsFiniteSet(KnownIn(b, n)) /\ IsFiniteSet(FailedIn(b, n))
      /\ Cardinality(KnownIn(b, n)) \in Nat /\ Cardinality(FailedIn(b, n)) \in Nat
  BY KnownGrows
<1>6. ~ParseRow(s, row, arch, b).error
  OBVIOUS
<1>7. /\ ~RowKnown(row) => t = s
      /\ RowKnown(row) => RowParsed(t, s, row, arch, b)
  <2> HIDE DEF row
  <2> QED
    BY <1>6, ParseRowKeeps, Zenon
<1>4. CASE ~RowKnown(row)
  <2>1. t = s
    BY <1>4, <1>7
  <2>2. KnownIn(b, n + 1) = KnownIn(b, n) /\ FailedIn(b, n + 1) = FailedIn(b, n)
    BY <1>2, <1>4
  <2> HIDE DEF t
  <2> QED
    BY <1>1, <1>4, <2>1, <2>2, ZenonT(30) DEF RowsInv, t
<1>5. CASE RowKnown(row)
  <2>1. /\ t.suites = [s.suites EXCEPT ![row.name] = Append(@, RunFor(arch, b, row))]
        /\ t.sfail = [s.sfail EXCEPT ![row.name] = @ + bad]
        /\ t.files = WriteLog(s.files, path, RunLog(row.exit, row.log))
        /\ t.total = s.total + 1
        /\ t.fail = s.fail + bad
    BY <1>5, <1>7, Zenon DEF RowParsed
  <2> HIDE DEF t, row
  <2>2. /\ DOMAIN s.suites = Names
        /\ \A i \in 1 .. n : RowKnown(b.rows[i]) =>
             /\ s.suites[b.rows[i].name] = Append(suites[b.rows[i].name], RunFor(arch, b, b.rows[i]))
             /\ s.files[PathOf(i)] = RunLog(b.rows[i].exit, b.rows[i].log)
        /\ \A m \in Names \ KnownIn(b, n) : s.suites[m] = suites[m]
    BY DEF RowsInv
  <2>3. /\ s.sfail = [m \in Names |-> sfail[m] + (IF m \in FailedIn(b, n) THEN 1 ELSE 0)]
        /\ DOMAIN s.files = DOMAIN files \cup {<<arch, b.date, m>> : m \in KnownIn(b, n)}
        /\ \A p \in DOMAIN files : s.files[p] = files[p]
        /\ s.total = Cardinality(KnownIn(b, n))
        /\ s.fail = Cardinality(FailedIn(b, n))
    BY DEF RowsInv
  <2>4. KnownIn(b, n + 1) = KnownIn(b, n) \cup {row.name}
    BY <1>2, <1>5 DEF row
  <2>5. DOMAIN t.suites = Names
    BY <2>1, <2>2
  <2>6. s.suites[row.name] = suites[row.name] /\ row.name \in Names
    BY <1>2, <2>2 DEF row
  <2>7. t.suites[row.name] = Append(suites[row.name], RunFor(arch, b, row))
    BY <2>1, <2>2, <2>6
  <2>8. path \notin DOMAIN s.files
    BY <1>2, <2>3 DEF row
  <2>9. /\ DOMAIN t.files = DOMAIN s.files \cup {path}
        /\ t.files[path] = RunLog(row.exit, row.log)
        /\ \A p \in DOMAIN s.files : t.files[p] = s.files[p]
    <3> HIDE DEF path
    <3> QED
      BY <2>1, <2>8, Zenon DEF WriteLog
  <2>10. ASSUME NEW i \in 1 .. n, RowKnown(b.rows[i])
         PROVE /\ t.suites[b.rows[i].name] = Append(suites[b.rows[i].name], RunFor(arch, b, b.rows[i]))
               /\ t.files[PathOf(i)] = RunLog(b.rows[i].exit, b.rows[i].log)
    <3>1. b.rows[i].name \in Names /\ b.rows[i].name # row.name
      BY <1>2 DEF row
    <3>2. t.suites[b.rows[i].name] = s.suites[b.rows[i].name]
      BY <2>1, <2>2, <3>1
    <3>3. b.rows[i].name \in KnownIn(b, n)
      BY <2>10, <3>1 DEF KnownIn
    <3>4. PathOf(i) \in DOMAIN s.files
      BY <2>3, <3>3
    <3> QED
      BY <3>2, <3>4, <2>2, <2>9, <2>10
  <2>11. ASSUME NEW i \in 1 .. n + 1, RowKnown(b.rows[i])
         PROVE /\ t.suites[b.rows[i].name] = Append(suites[b.rows[i].name], RunFor(arch, b, b.rows[i]))
               /\ t.files[PathOf(i)] = RunLog(b.rows[i].exit, b.rows[i].log)
    <3>1. CASE i \in 1 .. n
      BY <3>1, <2>10, <2>11
    <3>2. CASE i = n + 1
      BY <3>2, <2>7, <2>9 DEF row
    <3> QED
      BY <1>1, <3>1, <3>2
  <2>12. ASSUME NEW m \in Names \ KnownIn(b, n + 1) PROVE t.suites[m] = suites[m]
    BY <2>1, <2>2, <2>4
  <2>13. t.sfail = [m \in Names |-> sfail[m] + (IF m \in FailedIn(b, n + 1) THEN 1 ELSE 0)]
    <3>1. FailedIn(b, n + 1) = FailedIn(b, n) \cup (IF RowFails(row) THEN {row.name} ELSE {})
      BY <1>2, <1>5 DEF row
    <3>2. row.name \notin FailedIn(b, n)
      BY <1>2 DEF row
    <3>3. DOMAIN t.sfail = Names /\ DOMAIN s.sfail = Names
      BY <2>1, <2>3
    <3>4. ASSUME NEW m \in Names
          PROVE t.sfail[m] = sfail[m] + (IF m \in FailedIn(b, n + 1) THEN 1 ELSE 0)
      <4>1. s.sfail[m] = sfail[m] + (IF m \in FailedIn(b, n) THEN 1 ELSE 0) /\ sfail[m] \in Nat
        BY <2>3
      <4>2. t.sfail[m] = IF m = row.name THEN s.sfail[m] + bad ELSE s.sfail[m]
        BY <2>1, <3>3
      <4> QED
        BY <3>1, <3>2, <4>1, <4>2
    <3>5. t.sfail = [m \in Names |-> t.sfail[m]]
      BY <2>1, <2>3
    <3> HIDE DEF bad
    <3> QED
      BY <3>4, <3>5, Zenon
  <2>14. DOMAIN t.files = DOMAIN files \cup {<<arch, b.date, m>> : m \in KnownIn(b, n + 1)}
    <3>1. {<<arch, b.date, m>> : m \in KnownIn(b, n + 1)} = {<<arch, b.date, m>> : m \in KnownIn(b, n)} \cup {path}
      BY <2>4
    <3> QED
      BY <3>1, <2>3, <2>9
  <2>15. \A p \in DOMAIN files : t.files[p] = files[p]
    BY <2>3, <2>9
  <2>16. t.total = Cardinality(KnownIn(b, n + 1))
    <3>1. row.name \notin KnownIn(b, n)
      BY <1>2 DEF row
    <3>2. Cardinality(KnownIn(b, n) \cup {row.name}) = Cardinality(KnownIn(b, n)) + 1
      BY <3>1, <1>3, FS_AddElement
    <3> QED
      BY <2>1, <2>3, <2>4, <3>2
  <2>17. t.fail = Cardinality(FailedIn(b, n + 1))
    <3>1. row.name \notin FailedIn(b, n)
      BY <1>2 DEF row
    <3>2. Cardinality(FailedIn(b, n) \cup {row.name}) = Cardinality(FailedIn(b, n)) + 1
      BY <3>1, <1>3, FS_AddElement
    <3>3. FailedIn(b, n + 1) = IF RowFails(row) THEN FailedIn(b, n) \cup {row.name} ELSE FailedIn(b, n)
      BY <1>2, <1>5 DEF row
    <3>4. Cardinality(FailedIn(b, n)) \in Nat
      BY <1>3
    <3> QED
      BY <2>1, <2>3, <3>2, <3>3, <3>4
  <2>18. RowsInv(t, arch, b, n + 1)
    BY <2>5, <2>11, <2>12, <2>13, <2>14, <2>15, <2>16, <2>17, Zenon DEF RowsInv
  <2> QED
    BY <2>18 DEF t, row
<1> QED
  BY <1>4, <1>5

LEMMA RowsInvStart ==
  ASSUME NEW arch, NEW b, sfail \in [Names -> Nat], DOMAIN suites = Names
  PROVE  RowsInv(RowsStart, arch, b, 0)
<1>1. 1 .. 0 = {}
  OBVIOUS
<1>2. KnownIn(b, 0) = {} /\ FailedIn(b, 0) = {}
  BY <1>1 DEF KnownIn, FailedIn
<1>3. RowsStart.sfail = [m \in Names |-> sfail[m] + (IF m \in FailedIn(b, 0) THEN 1 ELSE 0)]
  BY <1>2 DEF RowsStart
<1>4. Cardinality({}) = 0
  BY FS_EmptySet
<1>5. /\ RowsStart.suites = suites /\ RowsStart.files = files
      /\ RowsStart.total = 0 /\ RowsStart.fail = 0
  BY DEF RowsStart
<1>6. {<<arch, b.date, m>> : m \in KnownIn(b, 0)} = {}
  BY <1>2
<1> QED
  BY <1>1, <1>2, <1>3, <1>4, <1>5, <1>6, Zenon DEF RowsInv

\* The loop over the rows of a build that has no log in the page yet.
LEMMA RowsAre ==
  ASSUME NEW arch, NEW b, RowsOK(b), IsFiniteSet(Names), sfail \in [Names -> Nat],
         DOMAIN suites = Names, \A m \in Names : <<arch, b.date, m>> \notin DOMAIN files,
         ~ParseRows(arch, b)[Len(b.rows)].error
  PROVE  RowsInv(ParseRows(arch, b)[Len(b.rows)], arch, b, Len(b.rows))
<1> DEFINE N == Len(b.rows)
           s == ParseRows(arch, b)
           P == {n \in 0 .. N : "error" \in DOMAIN s[n] /\ (~s[n].error => RowsInv(s[n], arch, b, n))}
<1>1. N \in Nat
  BY DEF RowsOK
<1>2. s[0] = RowsStart /\ \A n \in 0 .. N - 1 : s[n + 1] = ParseRow(s[n], b.rows[n + 1], arch, b)
  BY <1>1, RowsRun, Zenon
<1>3. 0 \in P
  <2>1. "error" \in DOMAIN RowsStart
    BY DEF RowsStart
  <2> HIDE DEF s
  <2> QED
    BY <1>1, <1>2, <2>1, RowsInvStart
<1> HIDE DEF s
<1>4. ASSUME NEW n \in 0 .. N - 1, n \in P PROVE n + 1 \in P
  <2>1. "error" \in DOMAIN s[n] /\ (~s[n].error => RowsInv(s[n], arch, b, n))
    BY <1>4
  <2>2. s[n + 1] = ParseRow(s[n], b.rows[n + 1], arch, b)
    BY <1>2
  <2>3. "error" \in DOMAIN s[n + 1]
    BY <2>1, <2>2, ParseRowError
  <2>4. ASSUME ~s[n + 1].error PROVE RowsInv(s[n + 1], arch, b, n + 1)
    <3>1. ~ParseRow(s[n], b.rows[n + 1], arch, b).error
      BY <2>2, <2>4
    <3>2. ~s[n].error
      BY <2>1, <3>1, ParseRowKeeps, Zenon
    <3> QED
      BY <2>1, <2>2, <3>1, <3>2, RowsStep
  <2>5. n + 1 \in 0 .. N
    BY <1>1
  <2> QED
    BY <2>3, <2>4, <2>5
<1>5. N \in P
  <2> HIDE DEF P
  <2>1. \A n \in 0 .. N : n \in P
    BY <1>1, <1>3, <1>4, Stepwise
  <2> QED
    BY <1>1, <2>1
<1> QED
  BY <1>5 DEF s

-----------------------------------------------------------------------------
LEMMA AppendFacts ==
  ASSUME NEW v, v \in Seq(ToSet(v)), NEW x
  PROVE  /\ Append(v, x) \in Seq(ToSet(Append(v, x)))
         /\ ToSet(Append(v, x)) = ToSet(v) \cup {x}
         /\ Len(Append(v, x)) = Len(v) + 1 /\ Len(v) \in Nat
         /\ DOMAIN v = 1 .. Len(v) /\ DOMAIN Append(v, x) = 1 .. Len(v) + 1
         /\ \A i \in 1 .. Len(v) : Append(v, x)[i] = v[i]
         /\ Append(v, x)[Len(v) + 1] = x
         /\ Append(v, x) # <<>> /\ Last(Append(v, x)) = x
<1> DEFINE S == ToSet(v) \cup {x}
           w == Append(v, x)
<1>1. v \in Seq(S) /\ x \in S
  <2>1. v \in Seq(ToSet(v)) /\ ToSet(v) \in SUBSET S
    OBVIOUS
  <2> HIDE DEF S
  <2> QED
    BY <2>1 DEF S
<1> HIDE DEF S
<1>2. /\ w \in Seq(S) /\ Len(w) = Len(v) + 1 /\ Len(v) \in Nat
      /\ DOMAIN v = 1 .. Len(v) /\ DOMAIN w = 1 .. Len(v) + 1
      /\ \A i \in 1 .. Len(v) : w[i] = v[i]
      /\ w[Len(v) + 1] = x
  BY <1>1
<1> HIDE DEF w
<1>3. ToSet(w) = S
  <2>1. ASSUME NEW y \in S PROVE \E i \in DOMAIN w : w[i] = y
    <3>1. CASE y = x
      BY <1>2, <3>1
    <3>2. CASE y \in ToSet(v)
      <4>1. PICK i \in DOMAIN v : v[i] = y
        BY <3>2 DEF ToSet
      <4> QED
        BY <1>2, <4>1
    <3> QED
      BY <3>1, <3>2 DEF S
  <2>2. ASSUME NEW i \in DOMAIN w PROVE w[i] \in S
    BY <1>2
  <2> QED
    BY <2>1, <2>2 DEF ToSet
<1>4. w # <<>> /\ Last(w) = x
  BY <1>2 DEF Last
<1> QED
  BY <1>2, <1>3, <1>4 DEF w, S

LEMMA SameCount ==
  ASSUME NEW S, IsFiniteSet(S), NEW T, NEW f \in [S -> T],
         \A x, y \in S : f[x] = f[y] => x = y, \A z \in T : \E x \in S : f[x] = z
  PROVE  Cardinality(T) = Cardinality(S)
<1>1. f \in Surjection(S, T)
  BY Zenon DEF Surjection
<1>2. f \in Injection(S, T)
  BY DEF Injection, IsInjective
<1> QED
  BY <1>1, <1>2, FS_Surjection

LEMMA SortedIs ==
  ASSUME NEW v, v \in Seq(ToSet(v)), NEW w \in Sorted(v)
  PROVE  /\ w \in Seq(ToSet(w)) /\ ToSet(w) = ToSet(v) /\ DOMAIN w = DOMAIN v
         /\ Descending(w)
         /\ \E f \in [DOMAIN v -> DOMAIN v] :
              /\ \A i, j \in DOMAIN v : f[i] = f[j] => i = j
              /\ \A i \in DOMAIN v : w[i] = v[f[i]]
<1> DEFINE N == Len(v)
           D == 1 .. N
<1>1. N \in Nat /\ DOMAIN v = D
  OBVIOUS
<1>2. PICK f \in {g \in [DOMAIN v -> DOMAIN v] : IsInjective(g)} : w = [i \in DOMAIN v |-> v[f[i]]]
  BY DEF Sorted
<1>3. f \in [D -> D] /\ \A i, j \in D : f[i] = f[j] => i = j
  BY <1>1, <1>2 DEF IsInjective
<1>4. DOMAIN w = D /\ \A i \in D : w[i] = v[f[i]]
  BY <1>1, <1>2
<1>5. Descending(w)
  BY DEF Sorted, Descending
<1>6. \A i \in D : \E j \in D : f[j] = i
  <2>1. IsFiniteSet(D)
    BY <1>1, FS_Interval
  <2> HIDE DEF D
  <2>3. f \in Injection(D, D)
    BY <1>3 DEF Injection, IsInjective
  <2>2. f \in Surjection(D, D)
    BY <2>1, <2>3, FS_Injection
  <2> QED
    BY <2>2, Zenon DEF Surjection
<1>7. ToSet(w) = ToSet(v)
  <2> HIDE DEF D
  <2>1. \A i \in D : w[i] \in ToSet(v)
    BY <1>1, <1>3, <1>4 DEF ToSet
  <2>2. \A i \in D : v[i] \in ToSet(w)
    <3>1. TAKE i \in D
    <3>2. PICK j \in D : f[j] = i
      BY <1>6
    <3>3. w[j] = v[i]
      BY <1>4, <3>2
    <3> QED
      BY <1>4, <3>3 DEF ToSet
  <2> QED
    BY <2>1, <2>2, <1>1, <1>4 DEF ToSet
<1>8. w \in Seq(ToSet(w))
  <2>1. w = [i \in 1 .. N |-> w[i]]
    BY <1>1, <1>2
  <2>2. \A i \in 1 .. N : w[i] \in ToSet(w)
    BY <1>4 DEF ToSet
  <2> DEFINE S == ToSet(w)
  <2> HIDE DEF S
  <2> QED
    BY <1>1, <2>1, <2>2 DEF S
<1> QED
  BY <1>1, <1>3, <1>4, <1>5, <1>7, <1>8

LEMMA KnownFacts ==
  ASSUME NEW b, IsFiniteSet(Names), NEW n \in Nat
  PROVE  /\ KnownIn(b, n) \in SUBSET Names /\ FailedIn(b, n) \in SUBSET KnownIn(b, n)
         /\ IsFiniteSet(KnownIn(b, n)) /\ IsFiniteSet(FailedIn(b, n))
         /\ Cardinality(FailedIn(b, n)) \in 0 .. Cardinality(KnownIn(b, n))
<1>1. KnownIn(b, n) \in SUBSET Names /\ FailedIn(b, n) \in SUBSET KnownIn(b, n)
  BY DEF KnownIn, FailedIn
<1>2. IsFiniteSet(KnownIn(b, n))
  BY <1>1, FS_Subset
<1>3. IsFiniteSet(FailedIn(b, n)) /\ Cardinality(FailedIn(b, n)) <= Cardinality(KnownIn(b, n))
  BY <1>1, <1>2, FS_Subset
<1>4. Cardinality(FailedIn(b, n)) \in Nat /\ Cardinality(KnownIn(b, n)) \in Nat
  BY <1>2, <1>3, FS_CardinalityType
<1> QED
  BY <1>1, <1>2, <1>3, <1>4

-----------------------------------------------------------------------------
\* What a build that could be read adds to the page.
AllKnown(b) == KnownIn(b, Len(b.rows))
AllFailed(b) == FailedIn(b, Len(b.rows))

SuiteTaken(m, arch, b) ==
  \/ m \notin AllKnown(b) /\ m \notin AllFailed(b) /\ suites'[m] = suites[m]
  \/ \E row \in ToSet(b.rows) :
       /\ row.name = m /\ m \in AllKnown(b) /\ (m \in AllFailed(b) <=> RowFails(row))
       /\ suites'[m] = Append(suites[m], RunFor(arch, b, row))
       /\ files'[<<arch, b.date, m>>] = RunLog(row.exit, row.log)

Taken(arch, b) ==
  /\ DOMAIN suites' = Names
  /\ \A m \in Names : SuiteTaken(m, arch, b)
  /\ \A row \in ToSet(b.rows) : RowKnown(row) =>
       /\ row.name \in AllKnown(b)
       /\ suites'[row.name] = Append(suites[row.name], RunFor(arch, b, row))
       /\ files'[<<arch, b.date, row.name>>] = RunLog(row.exit, row.log)
  /\ sfail' = [m \in Names |-> sfail[m] + (IF m \in AllFailed(b) THEN 1 ELSE 0)]
  /\ DOMAIN files' = DOMAIN files \cup {<<arch, b.date, m>> : m \in AllKnown(b)}
  /\ \A p \in DOMAIN files : files'[p] = files[p]

LEMMA RowsTaken ==
  ASSUME NEW arch, NEW b, RowsOK(b), NEW s, RowsInv(s, arch, b, Len(b.rows)),
         suites' = s.suites, sfail' = s.sfail, files' = s.files
  PROVE  Taken(arch, b)
<1> DEFINE N == Len(b.rows)
<1>1. N \in Nat /\ DOMAIN b.rows = 1 .. N
  BY DEF RowsOK
<1>2. /\ DOMAIN suites' = Names
      /\ \A i \in 1 .. N : RowKnown(b.rows[i]) =>
           /\ suites'[b.rows[i].name] = Append(suites[b.rows[i].name], RunFor(arch, b, b.rows[i]))
           /\ files'[<<arch, b.date, b.rows[i].name>>] = RunLog(b.rows[i].exit, b.rows[i].log)
      /\ \A m \in Names \ AllKnown(b) : suites'[m] = suites[m]
  BY Zenon DEF RowsInv, AllKnown
<1>3. /\ sfail' = [m \in Names |-> sfail[m] + (IF m \in AllFailed(b) THEN 1 ELSE 0)]
      /\ DOMAIN files' = DOMAIN files \cup {<<arch, b.date, m>> : m \in AllKnown(b)}
      /\ \A p \in DOMAIN files : files'[p] = files[p]
  BY Zenon DEF RowsInv, AllKnown, AllFailed
<1>4. ASSUME NEW row \in ToSet(b.rows), RowKnown(row)
      PROVE  /\ row.name \in AllKnown(b)
             /\ suites'[row.name] = Append(suites[row.name], RunFor(arch, b, row))
             /\ files'[<<arch, b.date, row.name>>] = RunLog(row.exit, row.log)
  <2>1. PICK i \in 1 .. N : row = b.rows[i]
    BY <1>1 DEF ToSet
  <2>2. row.name \in Names
    BY <1>1, <2>1 DEF RowsOK
  <2>3. row.name \in AllKnown(b)
    BY <1>4, <2>1, <2>2 DEF AllKnown, KnownIn
  <2> QED
    BY <1>2, <1>4, <2>1, <2>3
<1>5. ASSUME NEW m \in Names PROVE SuiteTaken(m, arch, b)
  <2>1. CASE m \notin AllKnown(b)
    <3>1. m \notin AllFailed(b)
      BY <2>1 DEF AllKnown, AllFailed, KnownIn, FailedIn
    <3> QED
      BY <1>2, <2>1, <3>1 DEF SuiteTaken
  <2>2. CASE m \in AllKnown(b)
    <3>1. PICK i \in 1 .. N : b.rows[i].name = m /\ RowKnown(b.rows[i])
      BY <2>2 DEF AllKnown, KnownIn
    <3>2. \A j \in 1 .. N : b.rows[j].name = m => j = i
      BY <1>1, <3>1 DEF RowsOK
    <3>3. m \in AllFailed(b) <=> RowFails(b.rows[i])
      BY <3>1, <3>2 DEF AllFailed, FailedIn
    <3>4. b.rows[i] \in ToSet(b.rows)
      BY <1>1 DEF ToSet
    <3>5. /\ suites'[m] = Append(suites[m], RunFor(arch, b, b.rows[i]))
          /\ files'[<<arch, b.date, m>>] = RunLog(b.rows[i].exit, b.rows[i].log)
      BY <1>2, <3>1
    <3> QED
      BY <2>2, <3>1, <3>3, <3>4, <3>5, Zenon DEF SuiteTaken
  <2> QED
    BY <2>1, <2>2
<1> QED
  BY <1>2, <1>3, <1>4, <1>5, Zenon DEF Taken

\* A build that could be read.
BuildRead(arch, b) ==
  /\ argi \in DOMAIN args /\ walked < Len(Builds)
  /\ arch = args[argi].arch /\ b = Builds[walked + 1]
  /\ <<arch, b.date>> \notin made
  /\ made' = made \cup {<<arch, b.date>>}
  /\ Taken(arch, b)
  /\ walked' = walked + 1
  /\ \E v :
       /\ invocations' = Append(invocations, v)
       /\ v.dir = <<arch, b.date>> /\ v.time = b.time /\ v.seconds = b.seconds /\ v.delta = Delta(b)
       /\ v.total = Cardinality(AllKnown(b)) /\ v.fail = Cardinality(AllFailed(b))
  /\ UNCHANGED <<args, argi, page>> /\ hpc' = "parse"

LEMMA ParseReads ==
  ASSUME HtmlInv, ParseInvocation, hpc' # "failed"
  PROVE  \E arch, b : RowsOK(b) /\ BuildRead(arch, b)
<1>1. PICK arch : arch = args[argi].arch
  OBVIOUS
<1>2. PICK b : b = Builds[walked + 1]
  OBVIOUS
<1>3. PICK s : s = ParseRows(arch, b)[Len(b.rows)]
  OBVIOUS
<1>4. hpc = "parse" /\ argi \in DOMAIN args /\ walked < Len(Builds)
  BY DEF ParseInvocation
<1>5. RowsOK(b)
  <2>1. args \in Histories /\ walked \in Nat
    BY DEF HtmlInv, WalkInv
  <2>2. Len(Builds) \in Nat /\ DOMAIN Builds = 1 .. Len(Builds)
    BY <2>1, <1>4, ArgsFacts DEF Builds
  <2>3. walked + 1 \in DOMAIN Builds
    BY <2>1, <2>2, <1>4
  <2> QED
    BY <2>1, <2>3, <1>2, <1>4, ArgsFacts DEF Builds
<1>6. /\ <<arch, b.date>> \notin made
      /\ made' = made \cup {<<arch, b.date>>}
      /\ suites' = s.suites /\ sfail' = s.sfail /\ files' = s.files
      /\ hpc' = IF s.error THEN "failed" ELSE "parse"
      /\ walked' = walked + 1
      /\ invocations' = Append(invocations, Invocation(<<arch, b.date>>, b, s))
      /\ UNCHANGED <<args, argi, page>>
  BY <1>1, <1>2, <1>3, ZenonT(30) DEF ParseInvocation
<1>7. ~s.error /\ hpc' = "parse"
  BY <1>6
<1>8. RowsInv(s, arch, b, Len(b.rows))
  <2>1. IsFiniteSet(Names)
    BY HistoryAssumption
  <2>2. sfail \in [Names -> Nat] /\ DOMAIN suites = Names /\ FilesInv
    BY <1>4 DEF HtmlInv, SuitesInv
  <2>3. ASSUME NEW m \in Names PROVE <<arch, b.date, m>> \notin DOMAIN files
    <3>1. SUFFICES ASSUME <<arch, b.date, m>> \in DOMAIN files PROVE FALSE
      OBVIOUS
    <3>2. <<arch, b.date>> \in made
      BY <2>2, <3>1 DEF FilesInv
    <3> QED
      BY <3>2, <1>6
  <2> QED
    BY <1>3, <1>5, <1>7, <2>1, <2>2, <2>3, RowsAre
<1>9. Taken(arch, b)
  BY <1>5, <1>6, <1>8, RowsTaken
<1>10. s.total = Cardinality(AllKnown(b)) /\ s.fail = Cardinality(AllFailed(b))
  BY <1>8, Zenon DEF RowsInv, AllKnown, AllFailed
<1>11. \E v :
         /\ invocations' = Append(invocations, v)
         /\ v.dir = <<arch, b.date>> /\ v.time = b.time /\ v.seconds = b.seconds /\ v.delta = Delta(b)
         /\ v.total = Cardinality(AllKnown(b)) /\ v.fail = Cardinality(AllFailed(b))
  <2> DEFINE v == Invocation(<<arch, b.date>>, b, s)
  <2>1. /\ v.dir = <<arch, b.date>> /\ v.time = b.time /\ v.seconds = b.seconds /\ v.delta = Delta(b)
        /\ v.total = s.total /\ v.fail = s.fail
    BY DEF Invocation
  <2> HIDE DEF v
  <2>2. invocations' = Append(invocations, v)
    BY <1>6 DEF v
  <2> QED
    BY <2>1, <2>2, <1>10, Zenon
<1>12. BuildRead(arch, b)
  BY <1>1, <1>2, <1>4, <1>6, <1>7, <1>9, <1>11, Zenon DEF BuildRead
<1> QED
  BY <1>5, <1>12

\* The builds behind the walk after a step over one, and after an architecture.
LEMMA BehindNext ==
  ASSUME WalkInv, argi \in DOMAIN args, NEW k \in DOMAIN args, NEW x \in DOMAIN args[k].builds
  PROVE  /\ walked < Len(Builds) =>
              (Behind(argi, walked + 1, k, x) <=> Behind(argi, walked, k, x) \/ (k = argi /\ x = walked + 1))
         /\ walked = Len(Builds) => (Behind(argi + 1, 0, k, x) <=> Behind(argi, walked, k, x))
<1>1. /\ walked \in Nat /\ argi \in Nat /\ k \in Nat /\ x \in Nat /\ x >= 1
      /\ Len(args[k].builds) \in Nat /\ x <= Len(args[k].builds)
  BY ArgsFacts DEF WalkInv
<1>2. k = argi => x <= Len(Builds) /\ Len(Builds) \in Nat
  BY <1>1 DEF Builds
<1> QED
  BY <1>1, <1>2 DEF Behind

LEMMA ReadWalk ==
  ASSUME HtmlInv, NEW arch, NEW b, BuildRead(arch, b)
  PROVE  WalkInv'
<1>1. /\ argi \in DOMAIN args /\ walked < Len(Builds) /\ walked' = walked + 1
      /\ UNCHANGED <<args, argi>> /\ hpc' = "parse"
  BY DEF BuildRead
<1>2. WalkInv /\ Builds' = Builds
  BY <1>1 DEF HtmlInv, Builds
<1>3. walked \in Nat /\ args \in Histories /\ argi \in 1 .. Len(args) + 1
  BY <1>2 DEF WalkInv
<1>4. Len(Builds) \in Nat
  BY <1>1, <1>3, ArgsFacts DEF Builds
<1> QED
  BY <1>1, <1>2, <1>3, <1>4 DEF WalkInv

LEMMA ReadInvocations ==
  ASSUME HtmlInv, hpc = "parse", NEW arch, NEW b, BuildRead(arch, b)
  PROVE  InvocationsInv'
<1> DEFINE dir == <<arch, b.date>>
<1>1. PICK v :
        /\ invocations' = Append(invocations, v)
        /\ v.dir = dir /\ v.time = b.time /\ v.seconds = b.seconds /\ v.delta = Delta(b)
        /\ v.total = Cardinality(AllKnown(b)) /\ v.fail = Cardinality(AllFailed(b))
  BY DEF BuildRead
<1>2. /\ argi \in DOMAIN args /\ walked < Len(Builds)
      /\ arch = args[argi].arch /\ b = Builds[walked + 1]
      /\ dir \notin made /\ made' = made \cup {dir}
      /\ walked' = walked + 1 /\ args' = args /\ argi' = argi
  BY DEF BuildRead
<1>3. WalkInv /\ InvocationsInv
  BY DEF HtmlInv
<1>4. args \in Histories /\ walked \in Nat /\ invocations \in Seq(ToSet(invocations))
  BY <1>3 DEF WalkInv, InvocationsInv
<1>5. /\ Len(Builds) \in Nat /\ DOMAIN Builds = 1 .. Len(Builds) /\ walked + 1 \in DOMAIN args[argi].builds
      /\ RowsOK(b) /\ Builds' = Builds
  <2>1. Len(Builds) \in Nat /\ DOMAIN Builds = 1 .. Len(Builds) /\ Builds' = Builds
    BY <1>2, <1>4, ArgsFacts DEF Builds
  <2>2. walked + 1 \in DOMAIN args[argi].builds
    BY <1>2, <1>4, <2>1 DEF Builds
  <2>3. RowsOK(b)
    BY <1>2, <1>4, <2>2, ArgsFacts DEF Builds
  <2> QED
    BY <2>1, <2>2, <2>3
<1>6. /\ invocations' \in Seq(ToSet(invocations'))
      /\ ToSet(invocations') = ToSet(invocations) \cup {v}
      /\ DOMAIN invocations = 1 .. Len(invocations) /\ DOMAIN invocations' = 1 .. Len(invocations) + 1
      /\ Len(invocations) \in Nat
      /\ \A i \in 1 .. Len(invocations) : invocations'[i] = invocations[i]
      /\ invocations'[Len(invocations) + 1] = v
      /\ invocations' # <<>> /\ Last(invocations') = v
  BY <1>1, <1>4, AppendFacts
<1>7. IsInvocationOf(v, argi, walked + 1)
  <2>1. v.delta = IF walked + 1 = 1 THEN "NONE" ELSE DurationDelta(b.seconds, Builds[(walked + 1) - 1].seconds)
    <3>1. walked >= 1 => Last(invocations).seconds = Builds[walked].seconds
      BY <1>3 DEF InvocationsInv
    <3>2. (walked + 1) - 1 = walked /\ (walked + 1 = 1 <=> ~(walked >= 1))
      BY <1>4
    <3> QED
      BY <1>1, <3>1, <3>2 DEF Delta
  <2> QED
    BY <1>1, <1>2, <2>1, Zenon DEF IsInvocationOf, Builds
<1>8. v.fail \in 0 .. v.total
  <2>1. IsFiniteSet(Names) /\ Len(b.rows) \in Nat
    BY HistoryAssumption, <1>5 DEF RowsOK
  <2> QED
    BY <1>1, <2>1, KnownFacts DEF AllKnown, AllFailed
<1>9. ASSUME NEW u, NEW k, NEW x PROVE IsInvocationOf(u, k, x)' <=> IsInvocationOf(u, k, x)
  BY <1>2 DEF IsInvocationOf
<1>10. \A k \in DOMAIN args : \A x \in DOMAIN args[k].builds :
         Behind(argi, walked + 1, k, x) <=> Behind(argi, walked, k, x) \/ (k = argi /\ x = walked + 1)
  BY <1>2, <1>3, BehindNext
<1>11. ASSUME NEW u \in ToSet(invocations')
       PROVE  /\ u.dir \in made' /\ u.fail \in 0 .. u.total
              /\ \E k \in DOMAIN args : \E x \in DOMAIN args[k].builds :
                   Behind(argi, walked + 1, k, x) /\ IsInvocationOf(u, k, x)
  <2>1. CASE u = v
    BY <2>1, <1>1, <1>2, <1>5, <1>7, <1>8, <1>10
  <2>2. CASE u \in ToSet(invocations)
    <3>1. /\ u.dir \in made /\ u.fail \in 0 .. u.total
          /\ \E k \in DOMAIN args : \E x \in DOMAIN args[k].builds :
               Behind(argi, walked, k, x) /\ IsInvocationOf(u, k, x)
      BY <2>2, <1>3, Zenon DEF InvocationsInv
    <3> QED
      BY <3>1, <1>2, <1>10
  <2> QED
    BY <2>1, <2>2, <1>6
<1>12. ASSUME NEW k \in DOMAIN args, NEW x \in DOMAIN args[k].builds, Behind(argi, walked + 1, k, x)
       PROVE  \E u \in ToSet(invocations') : IsInvocationOf(u, k, x)
  <2>1. CASE Behind(argi, walked, k, x)
    <3>1. \E u \in ToSet(invocations) : IsInvocationOf(u, k, x)
      BY <2>1, <1>3, Zenon DEF InvocationsInv
    <3> QED
      BY <3>1, <1>6
  <2>2. CASE k = argi /\ x = walked + 1
    BY <2>2, <1>6, <1>7
  <2> QED
    BY <2>1, <2>2, <1>10, <1>12
<1>13. ASSUME NEW i \in DOMAIN invocations', NEW j \in DOMAIN invocations',
              invocations'[i].dir = invocations'[j].dir
       PROVE  i = j
  <2>1. \A l \in 1 .. Len(invocations) : invocations[l].dir \in made
    BY <1>3, <1>6 DEF InvocationsInv, ToSet
  <2>2. \A l, m \in 1 .. Len(invocations) : invocations[l].dir = invocations[m].dir => l = m
    BY <1>3, <1>6 DEF InvocationsInv
  <2>3. (i \in 1 .. Len(invocations) \/ i = Len(invocations) + 1)
        /\ (j \in 1 .. Len(invocations) \/ j = Len(invocations) + 1)
    BY <1>6
  <2> HIDE DEF dir
  <2> QED
    BY <1>1, <1>2, <1>6, <1>13, <2>1, <2>2, <2>3
<1>14. walked' >= 1 => invocations' # <<>> /\ Last(invocations)'.seconds = Builds'[walked'].seconds
  BY <1>1, <1>2, <1>5, <1>6 DEF Last
<1> HIDE DEF dir
<1>15. ToSet(invocations)' = ToSet(invocations') /\ Last(invocations)' = Last(invocations')
  BY DEF ToSet, Last
<1>16. InvocationsInv'
  <2>1. /\ \A u \in ToSet(invocations') :
             /\ u.dir \in made' /\ u.fail \in 0 .. u.total
             /\ \E k \in DOMAIN args' : \E x \in DOMAIN args'[k].builds :
                  Behind(argi', walked', k, x) /\ IsInvocationOf(u, k, x)'
    BY <1>2, <1>9, <1>11
  <2>2. \A k \in DOMAIN args' : \A x \in DOMAIN args'[k].builds :
          Behind(argi', walked', k, x) => \E u \in ToSet(invocations') : IsInvocationOf(u, k, x)'
    BY <1>2, <1>9, <1>12
  <2>3. \A i, j \in DOMAIN invocations' : invocations'[i].dir = invocations'[j].dir => i = j
    BY <1>13
  <2> QED
    BY <2>1, <2>2, <2>3, <1>6, <1>14, <1>15, Zenon DEF InvocationsInv
<1> QED
  BY <1>16

LEMMA ReadFiles ==
  ASSUME HtmlInv, hpc = "parse", NEW arch, NEW b, BuildRead(arch, b)
  PROVE  FilesInv'
<1>1. /\ made' = made \cup {<<arch, b.date>>} /\ FilesInv
      /\ DOMAIN files' = DOMAIN files \cup {<<arch, b.date, m>> : m \in AllKnown(b)}
  BY DEF BuildRead, Taken, HtmlInv
<1>2. ASSUME NEW p \in DOMAIN files' PROVE <<p[1], p[2]>> \in made'
  <2>1. CASE p \in DOMAIN files
    BY <1>1, <2>1 DEF FilesInv
  <2>2. ASSUME NEW m \in AllKnown(b), p = <<arch, b.date, m>> PROVE <<p[1], p[2]>> \in made'
    BY <1>1, <2>2
  <2> QED
    BY <1>1, <2>1, <2>2
<1> QED
  BY <1>2 DEF FilesInv

\* What is said of a run is not changed by files that are added.
LEMMA RunStays ==
  ASSUME \A p \in DOMAIN files : p \in DOMAIN files' /\ files'[p] = files[p],
         NEW run, NEW arch, NEW b, NEW row, IsRunOf(run, arch, b, row)
  PROVE  IsRunOf(run, arch, b, row)'
BY DEF IsRunOf

\* A run that is taken is one of its row.
LEMMA RunTaken ==
  ASSUME NEW arch, NEW b, NEW row, DOMAIN files' = DOMAIN files \cup {<<arch, b.date, m>> : m \in AllKnown(b)},
         row.name \in AllKnown(b), files'[<<arch, b.date, row.name>>] = RunLog(row.exit, row.log)
  PROVE  /\ IsRunOf(RunFor(arch, b, row), arch, b, row)'
         /\ DirOf(RunFor(arch, b, row)) = <<arch, b.date>>
         /\ RunFor(arch, b, row).path[3] = row.name
         /\ IsRunStatusFailure(RunFor(arch, b, row).status) <=> RowFails(row)
<1> DEFINE run == RunFor(arch, b, row)
<1>1. /\ run.path = <<arch, b.date, row.name>> /\ run.time = b.time
      /\ run.status = RunStatus(row.exit, row.log)
  BY DEF RunFor
<1> HIDE DEF run
<1>2. <<arch, b.date, row.name>> \in DOMAIN files'
  OBVIOUS
<1>3. IsRunOf(run, arch, b, row)'
  BY <1>1, <1>2 DEF IsRunOf
<1>4. DirOf(run) = <<arch, b.date>> /\ run.path[3] = row.name
  BY <1>1 DEF DirOf
<1>5. IsRunStatusFailure(run.status) <=> RowFails(row)
  BY <1>1 DEF RowFails
<1> QED
  BY <1>3, <1>4, <1>5 DEF run

LEMMA ReadSuites ==
  ASSUME HtmlInv, hpc = "parse", NEW arch, NEW b, BuildRead(arch, b)
  PROVE  SuitesInv'
<1> DEFINE dir == <<arch, b.date>>
<1>1. /\ argi \in DOMAIN args /\ walked < Len(Builds)
      /\ arch = args[argi].arch /\ b = args[argi].builds[walked + 1]
      /\ dir \notin made /\ made' = made \cup {dir}
      /\ walked' = walked + 1 /\ args' = args /\ argi' = argi
  BY DEF BuildRead, Builds
<1>2. WalkInv /\ SuitesInv /\ args \in Histories /\ walked \in Nat
  BY DEF HtmlInv, WalkInv
<1>3. walked + 1 \in DOMAIN args[argi].builds
  <2>1. Len(Builds) \in Nat /\ DOMAIN args[argi].builds = 1 .. Len(Builds)
    BY <1>1, <1>2, ArgsFacts DEF Builds
  <2> QED
    BY <1>1, <1>2, <2>1
<1>4. \A k \in DOMAIN args : \A x \in DOMAIN args[k].builds :
        Behind(argi, walked + 1, k, x) <=> Behind(argi, walked, k, x) \/ (k = argi /\ x = walked + 1)
  BY <1>1, <1>2, BehindNext
<1>5. /\ DOMAIN suites' = Names
      /\ \A m \in Names : SuiteTaken(m, arch, b)
      /\ \A row \in ToSet(b.rows) : RowKnown(row) =>
           /\ row.name \in AllKnown(b)
           /\ suites'[row.name] = Append(suites[row.name], RunFor(arch, b, row))
           /\ files'[<<arch, b.date, row.name>>] = RunLog(row.exit, row.log)
  BY Zenon DEF BuildRead, Taken
<1>6. /\ sfail' = [m \in Names |-> sfail[m] + (IF m \in AllFailed(b) THEN 1 ELSE 0)]
      /\ DOMAIN files' = DOMAIN files \cup {<<arch, b.date, m>> : m \in AllKnown(b)}
      /\ \A p \in DOMAIN files : p \in DOMAIN files' /\ files'[p] = files[p]
  BY DEF BuildRead, Taken
<1>7. sfail \in [Names -> Nat] /\ sfail' \in [Names -> Nat]
  BY <1>2, <1>6 DEF SuitesInv
<1>8. ASSUME NEW n \in Names
      PROVE  /\ suites[n] \in Seq(ToSet(suites[n]))
             /\ \A i, j \in DOMAIN suites[n] : suites[n][i].path = suites[n][j].path => i = j
             /\ \A run \in ToSet(suites[n]) : DirOf(run) \in made /\ run.path[3] = n /\ RunFrom(n, run)
             /\ sfail[n] = 0 <=> Failures(ToSet(suites[n])) = {}
  BY <1>2, Zenon DEF SuitesInv
<1>9. ASSUME NEW n, NEW run, RunFrom(n, run) PROVE RunFrom(n, run)'
  <2>4. PICK k \in DOMAIN args : \E x \in DOMAIN args[k].builds :
          /\ Behind(argi, walked, k, x)
          /\ \E row \in ToSet(args[k].builds[x].rows) :
               row.name = n /\ IsRunOf(run, args[k].arch, args[k].builds[x], row)
    BY <1>9 DEF RunFrom
  <2>5. PICK x \in DOMAIN args[k].builds :
          /\ Behind(argi, walked, k, x)
          /\ \E row \in ToSet(args[k].builds[x].rows) :
               row.name = n /\ IsRunOf(run, args[k].arch, args[k].builds[x], row)
    BY <2>4
  <2>1. PICK row \in ToSet(args[k].builds[x].rows) :
          Behind(argi, walked, k, x) /\ row.name = n /\ IsRunOf(run, args[k].arch, args[k].builds[x], row)
    BY <2>5
  <2>2. IsRunOf(run, args[k].arch, args[k].builds[x], row)'
    <3>1. PICK a, c : a = args[k].arch /\ c = args[k].builds[x]
      OBVIOUS
    <3>2. IsRunOf(run, a, c, row)'
      BY <1>6, <2>1, <3>1, RunStays
    <3> QED
      BY <3>1, <3>2, <1>1 DEF IsRunOf
  <2>3. Behind(argi, walked + 1, k, x)
    BY <1>4, <2>1
  <2> QED
    BY <2>1, <2>2, <2>3, <1>1 DEF RunFrom
<1>10. ASSUME NEW row \in ToSet(b.rows), row.name \in AllKnown(b),
              files'[<<arch, b.date, row.name>>] = RunLog(row.exit, row.log)
       PROVE  RunFrom(row.name, RunFor(arch, b, row))'
  <2>1. IsRunOf(RunFor(arch, b, row), arch, b, row)'
    BY <1>6, <1>10, RunTaken
  <2>2. PICK k, x : k = argi /\ x = walked + 1
    OBVIOUS
  <2>3. IsRunOf(RunFor(arch, b, row), args[k].arch, args[k].builds[x], row)'
    BY <1>1, <2>1, <2>2 DEF IsRunOf
  <2>4. /\ k \in DOMAIN args /\ x \in DOMAIN args[k].builds
        /\ Behind(argi, walked + 1, k, x) /\ row \in ToSet(args[k].builds[x].rows)
    BY <1>1, <1>3, <1>4, <1>10, <2>2
  <2> QED
    BY <1>1, <2>3, <2>4 DEF RunFrom
<1> HIDE DEF dir
<1>11. ASSUME NEW n \in Names
       PROVE  /\ suites'[n] \in Seq(ToSet(suites'[n]))
              /\ \A i, j \in DOMAIN suites'[n] : suites'[n][i].path = suites'[n][j].path => i = j
              /\ \A run \in ToSet(suites'[n]) : DirOf(run) \in made' /\ run.path[3] = n /\ RunFrom(n, run)'
              /\ sfail'[n] = 0 <=> Failures(ToSet(suites'[n])) = {}
  <2>1. CASE n \notin AllKnown(b) /\ n \notin AllFailed(b) /\ suites'[n] = suites[n]
    <3>1. sfail'[n] = sfail[n]
      BY <2>1, <1>6, <1>7
    <3> QED
      BY <2>1, <3>1, <1>1, <1>8, <1>9
  <2>2. ASSUME NEW row \in ToSet(b.rows),
               row.name = n, n \in AllKnown(b), n \in AllFailed(b) <=> RowFails(row),
               suites'[n] = Append(suites[n], RunFor(arch, b, row)),
               files'[<<arch, b.date, n>>] = RunLog(row.exit, row.log)
        PROVE  /\ suites'[n] \in Seq(ToSet(suites'[n]))
               /\ \A i, j \in DOMAIN suites'[n] : suites'[n][i].path = suites'[n][j].path => i = j
               /\ \A run \in ToSet(suites'[n]) : DirOf(run) \in made' /\ run.path[3] = n /\ RunFrom(n, run)'
               /\ sfail'[n] = 0 <=> Failures(ToSet(suites'[n])) = {}
    <3> DEFINE new == RunFor(arch, b, row)
               N == Len(suites[n])
    <3>1. /\ DirOf(new) = dir /\ new.path[3] = n /\ (IsRunStatusFailure(new.status) <=> RowFails(row))
      BY <1>6, <2>2, RunTaken DEF dir
    <3>2. RunFrom(n, new)'
      BY <1>10, <2>2
    <3> HIDE DEF new
    <3>3. /\ suites'[n] \in Seq(ToSet(suites'[n])) /\ ToSet(suites'[n]) = ToSet(suites[n]) \cup {new}
          /\ N \in Nat /\ DOMAIN suites[n] = 1 .. N /\ DOMAIN suites'[n] = 1 .. N + 1
          /\ \A i \in 1 .. N : suites'[n][i] = suites[n][i]
          /\ suites'[n][N + 1] = new
      <4>1. suites[n] \in Seq(ToSet(suites[n])) /\ suites'[n] = Append(suites[n], new)
        BY <1>8, <2>2 DEF new
      <4> QED
        BY <4>1, AppendFacts
    <3>4. \A i \in 1 .. N : suites[n][i].path # new.path
      <4>1. TAKE i \in 1 .. N
      <4>2. suites[n][i] \in ToSet(suites[n])
        BY <3>3 DEF ToSet
      <4>3. DirOf(suites[n][i]) \in made /\ dir \notin made
        BY <4>2, <1>8, <1>1
      <4> QED
        BY <4>3, <3>1 DEF DirOf
    <3>5. ASSUME NEW i \in DOMAIN suites'[n], NEW j \in DOMAIN suites'[n],
                 suites'[n][i].path = suites'[n][j].path
          PROVE  i = j
      <4>1. (i \in 1 .. N \/ i = N + 1) /\ (j \in 1 .. N \/ j = N + 1)
        BY <3>3
      <4>2. \A l, m \in 1 .. N : suites[n][l].path = suites[n][m].path => l = m
        BY <1>8, <3>3
      <4> QED
        BY <4>1, <4>2, <3>3, <3>4, <3>5
    <3>6. ASSUME NEW run \in ToSet(suites'[n])
          PROVE  DirOf(run) \in made' /\ run.path[3] = n /\ RunFrom(n, run)'
      BY <3>1, <3>2, <3>3, <1>1, <1>8, <1>9
    <3>7. sfail'[n] = 0 <=> Failures(ToSet(suites'[n])) = {}
      <4>1. sfail'[n] = sfail[n] + (IF RowFails(row) THEN 1 ELSE 0) /\ sfail[n] \in Nat
        BY <1>6, <1>7, <2>2
      <4>2. Failures(ToSet(suites'[n])) = {} <=>
              Failures(ToSet(suites[n])) = {} /\ ~RowFails(row)
        BY <3>1, <3>3 DEF Failures
      <4>3. sfail[n] = 0 <=> Failures(ToSet(suites[n])) = {}
        BY <1>8, Zenon
      <4> QED
        BY <4>1, <4>2, <4>3
    <3> QED
      BY <3>3, <3>5, <3>6, <3>7
  <2> QED
    BY <2>1, <2>2, <1>5, Zenon DEF SuiteTaken
<1>12. ASSUME NEW k \in DOMAIN args, NEW x \in DOMAIN args[k].builds, Behind(argi, walked + 1, k, x),
              NEW row \in ToSet(args[k].builds[x].rows), Kind[row.name] # "unknown"
       PROVE  \E run \in ToSet(suites'[row.name]) : IsRunOf(run, args[k].arch, args[k].builds[x], row)'
  <2>1. CASE Behind(argi, walked, k, x)
    <3>1. PICK run \in ToSet(suites[row.name]) : IsRunOf(run, args[k].arch, args[k].builds[x], row)
      BY <2>1, <1>2, <1>12, Zenon DEF SuitesInv
    <3>2. IsRunOf(run, args[k].arch, args[k].builds[x], row)'
      <4>1. PICK a, c : a = args[k].arch /\ c = args[k].builds[x]
        OBVIOUS
      <4>2. IsRunOf(run, a, c, row)'
        BY <1>6, <3>1, <4>1, RunStays
      <4> QED
        BY <4>1, <4>2, <1>1 DEF IsRunOf
    <3>3. row.name \in Names
      <4>1. RowsOK(args[k].builds[x])
        BY <1>2, ArgsFacts
      <4> QED
        BY <4>1 DEF RowsOK, ToSet
    <3>4. run \in ToSet(suites'[row.name])
      <4>1. suites[row.name] \in Seq(ToSet(suites[row.name]))
        BY <1>8, <3>3
      <4>2. suites'[row.name] = suites[row.name] \/ \E r : suites'[row.name] = Append(suites[row.name], r)
        BY <1>5, <3>3, Zenon DEF SuiteTaken
      <4>3. CASE suites'[row.name] = suites[row.name]
        BY <3>1, <4>3
      <4>4. ASSUME NEW r, suites'[row.name] = Append(suites[row.name], r)
            PROVE  run \in ToSet(suites'[row.name])
        <5>1. ToSet(Append(suites[row.name], r)) = ToSet(suites[row.name]) \cup {r}
          BY <4>1, AppendFacts
        <5> QED
          BY <3>1, <4>4, <5>1
      <4> QED
        BY <4>2, <4>3, <4>4
    <3> QED
      BY <3>2, <3>4
  <2>2. CASE k = argi /\ x = walked + 1
    <3>1. row \in ToSet(b.rows) /\ RowKnown(row)
      BY <2>2, <1>1, <1>12 DEF RowKnown
    <3>2. /\ row.name \in AllKnown(b)
          /\ suites'[row.name] = Append(suites[row.name], RunFor(arch, b, row))
          /\ files'[<<arch, b.date, row.name>>] = RunLog(row.exit, row.log)
      BY <3>1, <1>5
    <3>3. IsRunOf(RunFor(arch, b, row), arch, b, row)'
      BY <1>6, <3>2, RunTaken
    <3>4. IsRunOf(RunFor(arch, b, row), args[k].arch, args[k].builds[x], row)'
      BY <1>1, <2>2, <3>3 DEF IsRunOf
    <3>5. row.name \in Names
      BY <3>2 DEF AllKnown, KnownIn
    <3>6. RunFor(arch, b, row) \in ToSet(suites'[row.name])
      BY <1>8, <3>2, <3>5, AppendFacts
    <3> QED
      BY <3>4, <3>6
  <2> QED
    BY <2>1, <2>2, <1>4, <1>12
<1>13. SuitesInv'
  <2>1. ASSUME NEW n \in Names
        PROVE  ToSet(suites[n])' = ToSet(suites'[n])
               /\ \A run : DirOf(run)' = DirOf(run)
    BY DEF ToSet, DirOf
  <2>2. \A S : Failures(S)' = Failures(S)
    BY DEF Failures
  <2>3. \A k \in DOMAIN args' : \A x \in DOMAIN args'[k].builds :
          Behind(argi', walked', k, x) =>
            \A row \in ToSet(args'[k].builds[x].rows) :
              Kind[row.name] # "unknown" =>
                \E run \in ToSet(suites'[row.name]) : IsRunOf(run, args[k].arch, args[k].builds[x], row)'
    BY <1>1, <1>12
  <2>4. ASSUME NEW k, NEW x PROVE ToSet(args[k].builds[x].rows)' = ToSet(args'[k].builds[x].rows)
    BY DEF ToSet
  <2>5. ASSUME NEW n \in Names
        PROVE  /\ suites'[n] \in Seq(ToSet(suites[n])')
               /\ \A i, j \in DOMAIN suites'[n] : suites'[n][i].path = suites'[n][j].path => i = j
               /\ \A run \in ToSet(suites[n])' : DirOf(run)' \in made' /\ run.path[3] = n /\ RunFrom(n, run)'
               /\ sfail'[n] = 0 <=> Failures(ToSet(suites[n]))' = {}
    BY <1>11, <2>1 DEF Failures
  <2> QED
    BY <1>5, <1>7, <2>3, <2>4, <2>5, Zenon DEF SuitesInv
<1> QED
  BY <1>13

LEMMA ReadRates ==
  ASSUME HtmlInv, hpc = "parse", NEW arch, NEW b, BuildRead(arch, b)
  PROVE  RatesInv'
<1> DEFINE dir == <<arch, b.date>>
           known == AllKnown(b)
           failed == AllFailed(b)
           f == [m \in known |-> Last(suites'[m])]
           runs == UNION {ToSet(suites'[m]) : m \in Names}
<1>1. /\ \A m \in Names : SuiteTaken(m, arch, b)
      /\ DOMAIN files' = DOMAIN files \cup {<<arch, b.date, m>> : m \in AllKnown(b)}
      /\ dir \notin made /\ made' = made \cup {dir}
  BY DEF BuildRead, Taken
<1>2. SuitesInv /\ InvocationsInv /\ RatesInv
  BY DEF HtmlInv
<1>3. /\ known \in SUBSET Names /\ failed \in SUBSET known
      /\ IsFiniteSet(known) /\ IsFiniteSet(failed)
  <2>1. RowsOK(b)
    <3>1. args \in Histories /\ walked \in Nat /\ argi \in DOMAIN args /\ b = args[argi].builds[walked + 1]
          /\ walked < Len(args[argi].builds)
      BY DEF HtmlInv, WalkInv, BuildRead, Builds
    <3>2. walked + 1 \in DOMAIN args[argi].builds
      BY <3>1, ArgsFacts
    <3> QED
      BY <3>1, <3>2, ArgsFacts
  <2>2. Len(b.rows) \in Nat /\ IsFiniteSet(Names)
    BY <2>1, HistoryAssumption DEF RowsOK
  <2> QED
    BY <2>2, KnownFacts DEF AllKnown, AllFailed
<1>4. ASSUME NEW m \in Names
      PROVE  /\ suites[m] \in Seq(ToSet(suites[m]))
             /\ \A run \in ToSet(suites[m]) : DirOf(run) \in made
  BY <1>2, Zenon DEF SuitesInv
<1>5. ASSUME NEW m \in Names, m \notin known PROVE suites'[m] = suites[m]
  BY <1>1, <1>5, Zenon DEF SuiteTaken
<1>6. ASSUME NEW m \in known
      PROVE  /\ ToSet(suites'[m]) = ToSet(suites[m]) \cup {f[m]}
             /\ DirOf(f[m]) = dir /\ f[m].path[3] = m
             /\ IsRunStatusFailure(f[m].status) <=> m \in failed
  <2>1. m \in Names /\ m \in AllKnown(b)
    BY <1>3
  <2>2. PICK row \in ToSet(b.rows) :
          /\ row.name = m /\ (m \in AllFailed(b) <=> RowFails(row))
          /\ suites'[m] = Append(suites[m], RunFor(arch, b, row))
          /\ files'[<<arch, b.date, m>>] = RunLog(row.exit, row.log)
    BY <1>1, <2>1, Zenon DEF SuiteTaken
  <2> DEFINE new == RunFor(arch, b, row)
  <2>3. /\ DirOf(new) = dir /\ new.path[3] = m /\ (IsRunStatusFailure(new.status) <=> RowFails(row))
    BY <1>1, <2>1, <2>2, RunTaken
  <2> HIDE DEF new
  <2>4. ToSet(suites'[m]) = ToSet(suites[m]) \cup {new} /\ Last(suites'[m]) = new
    BY <1>4, <2>1, <2>2, AppendFacts DEF new
  <2>5. f[m] = new
    BY <2>4
  <2> QED
    BY <2>2, <2>3, <2>4, <2>5
<1> HIDE DEF f, known, failed, dir
<1>7. \A run : run \in runs <=> run \in Runs \/ \E m \in known : run = f[m]
  <2>1. ASSUME NEW run, NEW m \in Names, run \in ToSet(suites'[m])
        PROVE  run \in Runs \/ \E l \in known : run = f[l]
    <3>1. CASE m \notin known
      BY <2>1, <3>1, <1>5, Zenon DEF Runs
    <3>2. CASE m \in known
      <4>1. run \in ToSet(suites[m]) \/ run = f[m]
        BY <2>1, <3>2, <1>6
      <4> QED
        BY <4>1, <3>2, Zenon DEF Runs
    <3> QED
      BY <3>1, <3>2
  <2>2. ASSUME NEW run, NEW m \in Names, run \in ToSet(suites[m]) PROVE run \in runs
    <3>1. run \in ToSet(suites'[m])
      BY <2>2, <1>5, <1>6
    <3> QED
      BY <3>1
  <2>3. ASSUME NEW m \in known PROVE f[m] \in runs
    <3>1. f[m] \in ToSet(suites'[m]) /\ m \in Names
      BY <1>3, <1>6
    <3> QED
      BY <3>1
  <2> QED
    BY <2>1, <2>2, <2>3, Zenon DEF Runs
<1>8. \A run \in Runs : DirOf(run) \in made
  BY <1>4 DEF Runs
<1>9. Runs' = runs
  BY DEF Runs, ToSet
<1> HIDE DEF runs
<1>10. ASSUME NEW d \in made PROVE RunsOf(d)' = RunsOf(d)
  <2>1. d # dir
    BY <1>1
  <2>2. \A run : run \in runs /\ DirOf(run) = d <=> run \in Runs /\ DirOf(run) = d
    BY <1>6, <1>7, <2>1
  <2>3. RunsOf(d)' = {run \in runs : DirOf(run) = d}
    BY <1>9 DEF RunsOf, DirOf
  <2> QED
    BY <2>2, <2>3 DEF RunsOf
<1>11. RunsOf(dir)' = {run \in runs : DirOf(run) = dir}
  BY <1>9 DEF RunsOf, DirOf, dir
<1> DEFINE R == {run \in runs : DirOf(run) = dir}
<1>12. \A run : run \in R <=> \E m \in known : run = f[m]
  BY <1>1, <1>6, <1>7, <1>8
<1> HIDE DEF R
<1>13. Cardinality(R) = Cardinality(known)
  <2>1. f \in [known -> R]
    <3>1. f = [m \in known |-> f[m]]
      BY DEF f
    <3> QED
      BY <3>1, <1>12
  <2>2. \A x, y \in known : f[x] = f[y] => x = y
    BY <1>6
  <2> QED
    BY <2>1, <2>2, <1>3, <1>12, SameCount
<1>14. Cardinality(Failures(R)) = Cardinality(failed)
  <2> DEFINE g == [m \in failed |-> f[m]]
  <2>1. g \in [failed -> Failures(R)]
    BY <1>3, <1>6, <1>12 DEF Failures
  <2>2. \A x, y \in failed : g[x] = g[y] => x = y
    BY <1>3, <1>6
  <2>3. \A z \in Failures(R) : \E x \in failed : g[x] = z
    BY <1>6, <1>12 DEF Failures
  <2> HIDE DEF g
  <2> QED
    BY <2>1, <2>2, <2>3, <1>3, SameCount
<1>15. PICK v :
        /\ invocations' = Append(invocations, v)
        /\ v.dir = dir /\ v.total = Cardinality(known) /\ v.fail = Cardinality(failed)
  BY DEF BuildRead, dir, known, failed
<1>16. ToSet(invocations)' = ToSet(invocations) \cup {v}
  <2>1. ToSet(invocations') = ToSet(invocations) \cup {v}
    BY <1>2, <1>15, AppendFacts DEF InvocationsInv
  <2> QED
    BY <2>1 DEF ToSet
<1>17. ASSUME NEW u \in ToSet(invocations)'
       PROVE  u.total = Cardinality(RunsOf(u.dir)') /\ u.fail = Cardinality(Failures(RunsOf(u.dir)'))
  <2>1. CASE u \in ToSet(invocations)
    <3>1. u.dir \in made /\ u.total = Cardinality(RunsOf(u.dir)) /\ u.fail = Cardinality(Failures(RunsOf(u.dir)))
      BY <2>1, <1>2, Zenon DEF RatesInv, InvocationsInv
    <3>2. RunsOf(u.dir)' = RunsOf(u.dir)
      BY <3>1, <1>10
    <3> QED
      BY <3>1, <3>2
  <2>2. CASE u = v
    <3>1. RunsOf(u.dir)' = R
      BY <2>2, <1>11, <1>15 DEF R, RunsOf, DirOf
    <3> QED
      BY <3>1, <2>2, <1>13, <1>14, <1>15
  <2> QED
    BY <2>1, <2>2, <1>16
<1>18. \A S : Failures(S)' = Failures(S)
  BY DEF Failures
<1> QED
  BY <1>17, <1>18 DEF RatesInv, Failures

LEMMA ParseInv == HtmlInv /\ ParseInvocation => HtmlInv'
<1> SUFFICES ASSUME HtmlInv, ParseInvocation PROVE HtmlInv'
  OBVIOUS
<1>1. hpc = "parse"
  BY DEF ParseInvocation
<1>2. CASE hpc' = "failed"
  <2>1. /\ UNCHANGED <<args, argi>> /\ argi \in DOMAIN args /\ walked < Len(Builds)
        /\ walked' \in {walked, walked + 1}
    BY DEF ParseInvocation
  <2>2. WalkInv /\ Builds' = Builds
    BY <2>1 DEF HtmlInv, Builds
  <2>3. Len(Builds) \in Nat /\ walked \in Nat
    BY <2>1, <2>2, ArgsFacts DEF WalkInv, Builds
  <2>4. WalkInv'
    BY <1>2, <2>1, <2>2, <2>3 DEF WalkInv
  <2> QED
    BY <1>2, <2>4 DEF HtmlInv
<1>3. CASE hpc' # "failed"
  <2>1. PICK arch, b : RowsOK(b) /\ BuildRead(arch, b)
    BY <1>3, ParseReads
  <2>2. walked \in Nat /\ walked' = walked + 1 /\ hpc' = "parse"
    BY <2>1 DEF HtmlInv, WalkInv, BuildRead
  <2>3. OrderInv' /\ PageInv'
    BY <2>2 DEF OrderInv, PageInv
  <2> QED
    BY <1>1, <2>1, <2>3, ReadWalk, ReadInvocations, ReadSuites, ReadFiles, ReadRates, Zenon DEF HtmlInv
<1> QED
  BY <1>2, <1>3

\* Sorting keeps which invocations and runs there are.
LEMMA SortInv == HtmlInv /\ SortAll => HtmlInv'
<1> SUFFICES ASSUME HtmlInv, SortAll PROVE HtmlInv'
  OBVIOUS
<1>1. /\ hpc = "parse" /\ hpc' = "parse" /\ argi \in DOMAIN args /\ walked = Len(Builds)
      /\ argi' = argi + 1 /\ walked' = 0
      /\ args' = args /\ sfail' = sfail /\ made' = made /\ files' = files
      /\ invocations' \in Sorted(invocations)
  BY DEF SortAll
<1>2. DOMAIN suites' = Names /\ \A n \in Names : suites'[n] \in Sorted(suites[n])
  BY Zenon DEF SortAll
<1>3. WalkInv /\ InvocationsInv /\ SuitesInv /\ FilesInv /\ RatesInv
  BY <1>1 DEF HtmlInv
<1>4. /\ args \in Histories /\ Len(args) \in Nat /\ DOMAIN args = 1 .. Len(args)
  BY <1>3, ArgsFacts DEF WalkInv
<1>5. \A k \in DOMAIN args : \A x \in DOMAIN args[k].builds :
        Behind(argi', walked', k, x) <=> Behind(argi, walked, k, x)
  BY <1>1, <1>3, BehindNext
<1>6. WalkInv'
  <2>1. argi' \in 1 .. Len(args') + 1 /\ walked' \in Nat
    BY <1>1, <1>4
  <2>2. argi' \in DOMAIN args' => walked' <= Len(Builds)'
    <3>1. ASSUME argi + 1 \in DOMAIN args PROVE 0 <= Len(args[argi + 1].builds)
      BY <1>4, <3>1, ArgsFacts
    <3> QED
      BY <1>1, <3>1 DEF Builds
  <2> QED
    BY <1>1, <1>4, <2>1, <2>2 DEF WalkInv
<1>7. /\ invocations' \in Seq(ToSet(invocations')) /\ ToSet(invocations') = ToSet(invocations)
      /\ DOMAIN invocations' = DOMAIN invocations /\ Descending(invocations')
      /\ \E f \in [DOMAIN invocations -> DOMAIN invocations] :
           /\ \A i, j \in DOMAIN invocations : f[i] = f[j] => i = j
           /\ \A i \in DOMAIN invocations : invocations'[i] = invocations[f[i]]
  <2>1. invocations \in Seq(ToSet(invocations))
    BY <1>3 DEF InvocationsInv
  <2> QED
    BY <1>1, <2>1, SortedIs
<1>8. ASSUME NEW n \in Names
      PROVE  /\ suites'[n] \in Seq(ToSet(suites'[n])) /\ ToSet(suites'[n]) = ToSet(suites[n])
             /\ DOMAIN suites'[n] = DOMAIN suites[n] /\ Descending(suites'[n])
             /\ \E f \in [DOMAIN suites[n] -> DOMAIN suites[n]] :
                  /\ \A i, j \in DOMAIN suites[n] : f[i] = f[j] => i = j
                  /\ \A i \in DOMAIN suites[n] : suites'[n][i] = suites[n][f[i]]
  <2>1. suites[n] \in Seq(ToSet(suites[n])) /\ suites'[n] \in Sorted(suites[n])
    BY <1>2, <1>3 DEF SuitesInv
  <2> QED
    BY <2>1, SortedIs
<1>9. InvocationsInv'
  <2>1. ToSet(invocations)' = ToSet(invocations)
    BY <1>7 DEF ToSet
  <2>2. \A i, j \in DOMAIN invocations' : invocations'[i].dir = invocations'[j].dir => i = j
    <3>1. \A i, j \in DOMAIN invocations : invocations[i].dir = invocations[j].dir => i = j
      BY <1>3 DEF InvocationsInv
    <3>2. PICK f \in [DOMAIN invocations -> DOMAIN invocations] :
            /\ \A i, j \in DOMAIN invocations : f[i] = f[j] => i = j
            /\ \A i \in DOMAIN invocations : invocations'[i] = invocations[f[i]]
      BY <1>7
    <3>3. ASSUME NEW i \in DOMAIN invocations, NEW j \in DOMAIN invocations,
                 invocations'[i].dir = invocations'[j].dir
          PROVE  i = j
      <4>1. f[i] \in DOMAIN invocations /\ f[j] \in DOMAIN invocations
        BY <3>2
      <4>2. invocations[f[i]].dir = invocations[f[j]].dir
        BY <3>2, <3>3, Zenon
      <4> QED
        BY <3>1, <3>2, <4>1, <4>2, Zenon
    <3> QED
      BY <1>7, <3>3, Zenon
  <2>3. \A u, k, x : IsInvocationOf(u, k, x)' <=> IsInvocationOf(u, k, x)
    BY <1>1 DEF IsInvocationOf
  <2>4. \A u \in ToSet(invocations) :
          /\ u.dir \in made /\ u.fail \in 0 .. u.total
          /\ \E k \in DOMAIN args : \E x \in DOMAIN args[k].builds :
               Behind(argi', walked', k, x) /\ IsInvocationOf(u, k, x)
    <3>1. TAKE u \in ToSet(invocations)
    <3>2. /\ u.dir \in made /\ u.fail \in 0 .. u.total
          /\ \E k \in DOMAIN args : \E x \in DOMAIN args[k].builds :
               Behind(argi, walked, k, x) /\ IsInvocationOf(u, k, x)
      BY <1>3, Zenon DEF InvocationsInv
    <3> QED
      BY <1>5, <3>2, Zenon
  <2>5. \A k \in DOMAIN args : \A x \in DOMAIN args[k].builds :
          Behind(argi', walked', k, x) => \E u \in ToSet(invocations) : IsInvocationOf(u, k, x)
    BY <1>3, <1>5, Zenon DEF InvocationsInv
  <2>6. ~(walked' >= 1) /\ invocations' \in Seq(ToSet(invocations)')
    BY <1>1, <1>7, <2>1
  <2> QED
    BY <1>1, <2>1, <2>2, <2>3, <2>4, <2>5, <2>6, ZenonT(30) DEF InvocationsInv
<1>10. SuitesInv'
  <2>1. \A n \in Names : ToSet(suites[n])' = ToSet(suites[n])
    BY <1>8 DEF ToSet
  <2>2. \A run, a, c, row : IsRunOf(run, a, c, row)' <=> IsRunOf(run, a, c, row)
    BY <1>1 DEF IsRunOf
  <2>3. ASSUME NEW n, NEW run, RunFrom(n, run) PROVE RunFrom(n, run)'
    <3>1. \E k \in DOMAIN args : \E x \in DOMAIN args[k].builds :
            /\ Behind(argi', walked', k, x)
            /\ \E row \in ToSet(args[k].builds[x].rows) :
                 row.name = n /\ IsRunOf(run, args[k].arch, args[k].builds[x], row)
      BY <1>5, <2>3, Zenon DEF RunFrom
    <3> QED
      BY <3>1, <1>1 DEF RunFrom, IsRunOf
  <2>4. ASSUME NEW n \in Names
        PROVE  /\ suites'[n] \in Seq(ToSet(suites[n])')
               /\ \A i, j \in DOMAIN suites'[n] : suites'[n][i].path = suites'[n][j].path => i = j
               /\ \A run \in ToSet(suites[n])' : DirOf(run)' \in made' /\ run.path[3] = n /\ RunFrom(n, run)'
               /\ sfail'[n] = 0 <=> Failures(ToSet(suites[n]))' = {}
    <3>1. /\ \A i, j \in DOMAIN suites[n] : suites[n][i].path = suites[n][j].path => i = j
          /\ \A run \in ToSet(suites[n]) : DirOf(run) \in made /\ run.path[3] = n /\ RunFrom(n, run)
          /\ sfail[n] = 0 <=> Failures(ToSet(suites[n])) = {}
      BY <1>3, Zenon DEF SuitesInv
    <3>2. PICK f \in [DOMAIN suites[n] -> DOMAIN suites[n]] :
            /\ \A i, j \in DOMAIN suites[n] : f[i] = f[j] => i = j
            /\ \A i \in DOMAIN suites[n] : suites'[n][i] = suites[n][f[i]]
      BY <1>8
    <3>3. \A i, j \in DOMAIN suites'[n] : suites'[n][i].path = suites'[n][j].path => i = j
      <4>1. ASSUME NEW i \in DOMAIN suites[n], NEW j \in DOMAIN suites[n],
                   suites'[n][i].path = suites'[n][j].path
            PROVE  i = j
        <5>1. f[i] \in DOMAIN suites[n] /\ f[j] \in DOMAIN suites[n]
          BY <3>2
        <5>2. suites[n][f[i]].path = suites[n][f[j]].path
          BY <3>2, <4>1, Zenon
        <5> QED
          BY <3>1, <3>2, <5>1, <5>2, Zenon
      <4> QED
        BY <1>8, <4>1, Zenon
    <3>4. \A run \in ToSet(suites[n])' : DirOf(run)' \in made' /\ run.path[3] = n /\ RunFrom(n, run)'
      BY <1>1, <2>1, <2>3, <3>1 DEF DirOf
    <3>5. sfail'[n] = 0 <=> Failures(ToSet(suites[n]))' = {}
      BY <1>1, <2>1, <3>1 DEF Failures
    <3>6. suites'[n] \in Seq(ToSet(suites[n])')
      BY <1>8, <2>1
    <3> QED
      BY <3>3, <3>4, <3>5, <3>6
  <2>5. ASSUME NEW k \in DOMAIN args, NEW x \in DOMAIN args[k].builds, Behind(argi', walked', k, x),
               NEW row \in ToSet(args[k].builds[x].rows), Kind[row.name] # "unknown"
        PROVE  \E run \in ToSet(suites[row.name])' : IsRunOf(run, args[k].arch, args[k].builds[x], row)'
    <3>1. \E run \in ToSet(suites[row.name]) : IsRunOf(run, args[k].arch, args[k].builds[x], row)
      BY <1>3, <1>5, <2>5, Zenon DEF SuitesInv
    <3>2. row.name \in Names
      <4>1. RowsOK(args[k].builds[x])
        BY <1>4, ArgsFacts
      <4> QED
        BY <4>1 DEF RowsOK, ToSet
    <3> QED
      BY <3>1, <3>2, <2>1, <1>1 DEF IsRunOf
  <2>6. \A k \in DOMAIN args' : \A x \in DOMAIN args'[k].builds :
          Behind(argi', walked', k, x) =>
            \A row \in ToSet(args'[k].builds[x].rows) :
              Kind[row.name] # "unknown" =>
                \E run \in ToSet(suites[row.name])' : IsRunOf(run, args[k].arch, args[k].builds[x], row)'
    BY <1>1, <2>5
  <2>7. \A k, x : ToSet(args[k].builds[x].rows)' = ToSet(args'[k].builds[x].rows)
    BY DEF ToSet
  <2>8. sfail' \in [Names -> Nat]
    BY <1>1, <1>3 DEF SuitesInv
  <2> QED
    BY <1>2, <2>4, <2>6, <2>7, <2>8, Zenon DEF SuitesInv
<1>11. FilesInv'
  BY <1>1, <1>3 DEF FilesInv
<1>12. RatesInv'
  <2>1. Runs' = Runs
    <3>1. \A n \in Names : ToSet(suites[n])' = ToSet(suites[n])
      BY <1>8 DEF ToSet
    <3> QED
      BY <3>1 DEF Runs
  <2>2. \A d : RunsOf(d)' = RunsOf(d)
    BY <2>1 DEF RunsOf, DirOf
  <2>3. ToSet(invocations)' = ToSet(invocations)
    BY <1>7 DEF ToSet
  <2> QED
    BY <1>3, <2>2, <2>3 DEF RatesInv, Failures
<1>13. OrderInv' /\ PageInv'
  BY <1>1, <1>7, <1>8 DEF OrderInv, PageInv, Descending
<1> QED
  BY <1>6, <1>9, <1>10, <1>11, <1>12, <1>13 DEF HtmlInv

\* Nothing that the invariant speaks of changes but the page.
LEMMA StillHtml ==
  ASSUME HtmlInv, UNCHANGED <<args, argi, walked, invocations, suites, sfail, made, files>>,
         hpc' \in {"parse", "done", "failed"}, hpc # "failed", PageInv'
  PROVE  HtmlInv'
<1>1. WalkInv'
  BY DEF HtmlInv, WalkInv, Builds
<1>2. InvocationsInv'
  BY DEF HtmlInv, InvocationsInv, Builds, ToSet, Last, IsInvocationOf
<1>3. SuitesInv'
  <2>1. SuitesInv
    BY DEF HtmlInv
  <2>2. \A run, a, c, row : IsRunOf(run, a, c, row)' <=> IsRunOf(run, a, c, row)
    BY DEF IsRunOf
  <2>3. \A n, run : RunFrom(n, run)' <=> RunFrom(n, run)
    BY DEF RunFrom, IsRunOf, ToSet
  <2>4. \A n : ToSet(suites[n])' = ToSet(suites[n]) /\ Failures(ToSet(suites[n]))' = Failures(ToSet(suites[n]))
    BY DEF ToSet, Failures
  <2>5. \A run : DirOf(run)' = DirOf(run)
    BY DEF DirOf
  <2>6. \A k, x : ToSet(args[k].builds[x].rows)' = ToSet(args[k].builds[x].rows)
    BY DEF ToSet
  <2>7. ASSUME NEW n \in Names
        PROVE  /\ suites'[n] \in Seq(ToSet(suites[n])')
               /\ \A i, j \in DOMAIN suites'[n] : suites'[n][i].path = suites'[n][j].path => i = j
               /\ \A run \in ToSet(suites[n])' : DirOf(run)' \in made' /\ run.path[3] = n /\ RunFrom(n, run)'
               /\ sfail'[n] = 0 <=> Failures(ToSet(suites[n]))' = {}
    <3>1. /\ suites[n] \in Seq(ToSet(suites[n]))
          /\ \A i, j \in DOMAIN suites[n] : suites[n][i].path = suites[n][j].path => i = j
          /\ \A run \in ToSet(suites[n]) : DirOf(run) \in made /\ run.path[3] = n /\ RunFrom(n, run)
          /\ sfail[n] = 0 <=> Failures(ToSet(suites[n])) = {}
      BY <2>1, Zenon DEF SuitesInv
    <3>2. suites'[n] = suites[n] /\ sfail'[n] = sfail[n] /\ made' = made
      OBVIOUS
    <3> QED
      BY <3>1, <3>2, <2>3, <2>4, <2>5
  <2>8. DOMAIN suites' = Names /\ sfail' \in [Names -> Nat]
    BY <2>1 DEF SuitesInv
  <2>9. \A k \in DOMAIN args' : \A x \in DOMAIN args'[k].builds :
          Behind(argi', walked', k, x) =>
            \A row \in ToSet(args[k].builds[x].rows)' :
              Kind[row.name] # "unknown" =>
                \E run \in ToSet(suites[row.name])' : IsRunOf(run, args[k].arch, args[k].builds[x], row)'
    <3>1. \A k \in DOMAIN args : \A x \in DOMAIN args[k].builds :
            Behind(argi, walked, k, x) =>
              \A row \in ToSet(args[k].builds[x].rows) :
                Kind[row.name] # "unknown" =>
                  \E run \in ToSet(suites[row.name]) : IsRunOf(run, args[k].arch, args[k].builds[x], row)
      BY <2>1, Zenon DEF SuitesInv
    <3>2. args' = args /\ argi' = argi /\ walked' = walked
      OBVIOUS
    <3>3. \A run, k, x, row : IsRunOf(run, args[k].arch, args[k].builds[x], row)' <=>
                               IsRunOf(run, args[k].arch, args[k].builds[x], row)
      BY <3>2 DEF IsRunOf
    <3> QED
      BY <3>1, <3>2, <3>3, <2>4, <2>6
  <2> QED
    BY <2>7, <2>8, <2>9, Zenon DEF SuitesInv
<1>4. FilesInv'
  BY DEF HtmlInv, FilesInv
<1>5. RatesInv'
  <2>1. Runs' = Runs /\ ToSet(invocations)' = ToSet(invocations)
    BY DEF Runs, ToSet
  <2>2. \A d : RunsOf(d)' = RunsOf(d)
    BY <2>1 DEF RunsOf, DirOf
  <2> QED
    BY <2>1, <2>2 DEF HtmlInv, RatesInv, Failures
<1>6. OrderInv'
  BY DEF HtmlInv, OrderInv, Descending
<1> QED
  BY <1>1, <1>2, <1>3, <1>4, <1>5, <1>6 DEF HtmlInv

LEMMA RenderInv == HtmlInv /\ Render => HtmlInv'
<1> SUFFICES ASSUME HtmlInv, Render PROVE HtmlInv'
  OBVIOUS
<1>1. /\ hpc = "parse" /\ hpc' = "done" /\ argi = Len(args) + 1
      /\ UNCHANGED <<args, argi, walked, invocations, suites, sfail, made, files>>
  BY DEF Render
<1>2. PICK order \in SortSuites :
        page' = [i \in DOMAIN order |-> [name |-> order[i], columns |-> RenderSuite(order[i])]]
  BY DEF Render
<1>3. SortSuites' = SortSuites
  BY <1>1 DEF SortSuites, Before, Rank
<1>4. \A n : RenderSuite(n)' = RenderSuite(n)
  BY <1>1 DEF RenderSuite, Column
<1>5. PageInv'
  BY <1>1, <1>2, <1>3, <1>4 DEF PageInv
<1> QED
  BY <1>1, <1>5, StillHtml

LEMMA HtmlInvInit == HtmlInit => HtmlInv
<1> SUFFICES ASSUME HtmlInit PROVE HtmlInv
  OBVIOUS
<1>1. /\ args \in Histories /\ argi = 1 /\ walked = 0 /\ invocations = <<>>
      /\ suites = [n \in Names |-> <<>>] /\ sfail = [n \in Names |-> 0]
      /\ files = <<>> /\ hpc = "parse"
  BY DEF HtmlInit
<1>2. /\ Len(args) \in Nat /\ Len(args) >= 1
      /\ \A k \in DOMAIN args : Len(args[k].builds) \in Nat /\ DOMAIN args[k].builds = 1 .. Len(args[k].builds)
      /\ DOMAIN args = 1 .. Len(args)
  <2>1. args # <<>> /\ args \in Seq(ToSet(args))
    BY <1>1, HistoryAssumption
  <2>2. Len(args) >= 1
    BY <2>1
  <2> QED
    BY <1>1, <2>2, ArgsFacts
<1>3. WalkInv
  BY <1>1, <1>2 DEF WalkInv, Builds
<1>4. \A k \in DOMAIN args : \A x \in DOMAIN args[k].builds : ~Behind(argi, walked, k, x)
  BY <1>1, <1>2 DEF Behind
<1>5. ToSet(<<>>) = {} /\ <<>> \in Seq({})
  BY DEF ToSet
<1>6. InvocationsInv
  BY <1>1, <1>4, <1>5 DEF InvocationsInv
<1>7. SuitesInv
  <2>1. Failures({}) = {}
    BY DEF Failures
  <2> QED
    BY <1>1, <1>4, <1>5, <2>1 DEF SuitesInv
<1>8. FilesInv /\ RatesInv /\ OrderInv /\ PageInv
  BY <1>1, <1>5 DEF FilesInv, RatesInv, OrderInv, PageInv
<1> QED
  BY <1>3, <1>6, <1>7, <1>8 DEF HtmlInv

LEMMA HtmlInvNext == HtmlInv /\ [HtmlNext]_htmlVars => HtmlInv'
<1> SUFFICES ASSUME HtmlInv, [HtmlNext]_htmlVars PROVE HtmlInv'
  OBVIOUS
<1>1. CASE ParseInvocation
  BY <1>1, ParseInv
<1>2. CASE SortAll
  BY <1>2, SortInv
<1>3. CASE Render
  BY <1>3, RenderInv
<1>4. CASE UNCHANGED htmlVars
  <2>1. /\ UNCHANGED <<args, argi, walked, invocations, suites, sfail, made, files>>
        /\ hpc' = hpc /\ page' = page
    BY <1>4 DEF htmlVars
  <2>2. CASE hpc = "failed"
    BY <2>1, <2>2 DEF HtmlInv, WalkInv, Builds
  <2>3. CASE hpc # "failed"
    <3>1. hpc' \in {"parse", "done", "failed"} /\ PageInv
      BY <2>1, <2>3 DEF HtmlInv, WalkInv
    <3>2. SortSuites' = SortSuites
      BY <2>1 DEF SortSuites, Before, Rank
    <3>3. \A n : RenderSuite(n)' = RenderSuite(n)
      BY <2>1 DEF RenderSuite, Column
    <3>4. PageInv'
      BY <2>1, <3>1, <3>2, <3>3 DEF PageInv
    <3> QED
      BY <2>1, <2>3, <3>1, <3>4, StillHtml
  <2> QED
    BY <2>2, <2>3
<1> QED
  BY <1>1, <1>2, <1>3, <1>4 DEF HtmlNext

-----------------------------------------------------------------------------
\* The columns of a suite are counted up from the one before.
LEMMA ColumnsRun ==
  ASSUME NEW n, Len(suites[n]) \in Nat, DOMAIN suites[n] = 1 .. Len(suites[n])
  PROVE  /\ DOMAIN RenderSuite(n) = DOMAIN suites[n]
         /\ \A i \in DOMAIN suites[n] :
              RenderSuite(n)[i] = Column((IF i = 1 THEN 0 ELSE RenderSuite(n)[i - 1]) + 1, suites[n][i])
<1> DEFINE N == Len(suites[n])
           IsLoop(m, f) ==
             f = [i \in 0 .. m |-> IF i = 0 THEN 0 ELSE Column(f[i - 1] + 1, suites[n][i])]
           P == {m \in 0 .. N : \E f : IsLoop(m, f)}
<1>1. 0 \in P
  <2> DEFINE f == [i \in 0 .. 0 |-> 0]
  <2>1. IsLoop(0, f)
    OBVIOUS
  <2> HIDE DEF f, IsLoop
  <2> QED
    BY <2>1
<1>2. ASSUME NEW m \in 0 .. N - 1, m \in P PROVE m + 1 \in P
  <2>1. PICK f : IsLoop(m, f)
    BY <1>2
  <2> DEFINE g == [i \in 0 .. m + 1 |-> IF i = m + 1 THEN Column(f[m] + 1, suites[n][m + 1]) ELSE f[i]]
  <2>2. \A i \in 0 .. m : g[i] = f[i]
    OBVIOUS
  <2>3. \A i \in 0 .. m + 1 : g[i] = IF i = 0 THEN 0 ELSE Column(g[i - 1] + 1, suites[n][i])
    <3>1. TAKE i \in 0 .. m + 1
    <3>2. CASE i = m + 1
      <4>1. g[i - 1] = f[m] /\ i # 0
        BY <3>2, <2>2
      <4> QED
        BY <4>1, <3>2
    <3>3. CASE i \in 0 .. m
      <4>1. f[i] = IF i = 0 THEN 0 ELSE Column(f[i - 1] + 1, suites[n][i])
        BY <2>1, <3>3
      <4>2. i # 0 => g[i - 1] = f[i - 1]
        BY <3>3, <2>2
      <4> QED
        BY <4>1, <4>2, <3>3, <2>2
    <3> QED
      BY <3>2, <3>3
  <2>4. IsLoop(m + 1, g)
    BY <2>3
  <2> HIDE DEF g, IsLoop
  <2>5. m + 1 \in 0 .. N
    OBVIOUS
  <2> QED
    BY <2>4, <2>5
<1>3. N \in P
  <2> HIDE DEF P
  <2>1. \A m \in 0 .. N : m \in P
    BY <1>1, <1>2, Stepwise
  <2> QED
    BY <2>1
<1>4. \E f : IsLoop(N, f) /\ RenderSuite(n) = [i \in DOMAIN suites[n] |-> f[i]]
  <2>1. \E f : IsLoop(N, f)
    BY <1>3
  <2> DEFINE f == CHOOSE f : IsLoop(N, f)
  <2>2. IsLoop(N, f)
    BY <2>1
  <2>3. RenderSuite(n) = [i \in DOMAIN suites[n] |-> f[i]]
    BY DEF RenderSuite
  <2> HIDE DEF f
  <2> QED
    BY <2>2, <2>3
<1>5. PICK f : IsLoop(N, f) /\ RenderSuite(n) = [i \in DOMAIN suites[n] |-> f[i]]
  BY <1>4
<1>6. ASSUME NEW i \in DOMAIN suites[n]
      PROVE  RenderSuite(n)[i] = Column((IF i = 1 THEN 0 ELSE RenderSuite(n)[i - 1]) + 1, suites[n][i])
  <2>1. i \in 0 .. N /\ i - 1 \in 0 .. N /\ i # 0
    OBVIOUS
  <2>2. f[i] = Column(f[i - 1] + 1, suites[n][i]) /\ f[0] = 0
    BY <1>5, <2>1
  <2>3. RenderSuite(n)[i] = f[i] /\ (i # 1 => RenderSuite(n)[i - 1] = f[i - 1]) /\ (i = 1 => f[i - 1] = 0)
    BY <1>5, <2>1, <2>2
  <2> QED
    BY <2>2, <2>3
<1> QED
  BY <1>5, <1>6

\* The column of a run whose build is ahead, with none of its time before that.
LEMMA ColumnIs ==
  ASSUME NEW L \in Nat, L = Len(invocations), NEW from \in Int, NEW run, NEW own \in 1 .. L, from <= own,
         run.time \in Int, \A j \in 1 .. L : invocations[j].time \in Int,
         invocations[own].time = run.time, from >= 1,
         \A j \in 1 .. own - 1 : invocations[j].time > run.time
  PROVE  Column(from, run) = own
<1> DEFINE P(j) == /\ j <= L => invocations[j].time <= run.time
                   /\ \A k \in from .. j - 1 : invocations[k].time > run.time
<1>1. own \in from .. L + 1 /\ P(own)
  OBVIOUS
<1>2. ASSUME NEW j \in from .. L + 1, P(j) PROVE j = own
  <2>1. CASE j < own
    <3>1. j \in 1 .. own - 1 /\ j \in 1 .. L /\ j <= L
      BY <2>1
    <3>2. invocations[j].time > run.time /\ invocations[j].time <= run.time /\ invocations[j].time \in Int
      BY <3>1, <1>2
    <3> QED
      BY <3>2
  <2>2. CASE j > own
    <3>1. own \in from .. j - 1
      BY <2>2
    <3>2. invocations[own].time > run.time
      BY <3>1, <1>2
    <3> QED
      BY <3>2
  <2> QED
    BY <2>1, <2>2
<1>3. Column(from, run) = CHOOSE j \in from .. L + 1 : P(j)
  BY DEF Column
<1> HIDE DEF P
<1> QED
  BY <1>1, <1>2, <1>3

LEMMA RunsOwned ==
  ASSUME WalkInv, InvocationsInv, SuitesInv, NEW n \in Names, NEW run \in ToSet(suites[n])
  PROVE  /\ run.time \in Int
         /\ run.path = <<run.path[1], run.path[2], n>>
         /\ \E v \in ToSet(invocations) : v.dir = DirOf(run) /\ v.time = run.time
<1>1. RunFrom(n, run)
  BY Zenon DEF SuitesInv
<1>2. PICK k \in DOMAIN args : \E x \in DOMAIN args[k].builds :
        /\ Behind(argi, walked, k, x)
        /\ \E row \in ToSet(args[k].builds[x].rows) :
             row.name = n /\ IsRunOf(run, args[k].arch, args[k].builds[x], row)
  BY <1>1 DEF RunFrom
<1>3. PICK x \in DOMAIN args[k].builds :
        /\ Behind(argi, walked, k, x)
        /\ \E row \in ToSet(args[k].builds[x].rows) :
             row.name = n /\ IsRunOf(run, args[k].arch, args[k].builds[x], row)
  BY <1>2
<1>4. PICK row \in ToSet(args[k].builds[x].rows) :
        row.name = n /\ IsRunOf(run, args[k].arch, args[k].builds[x], row)
  BY <1>3
<1>5. run.path = <<args[k].arch, args[k].builds[x].date, n>> /\ run.time = args[k].builds[x].time
  BY <1>4 DEF IsRunOf
<1>6. RowsOK(args[k].builds[x])
  BY ArgsFacts DEF WalkInv
<1>7. PICK v \in ToSet(invocations) : IsInvocationOf(v, k, x)
  BY <1>3, Zenon DEF InvocationsInv
<1>8. v.dir = DirOf(run) /\ v.time = run.time
  BY <1>5, <1>7 DEF IsInvocationOf, DirOf
<1> QED
  BY <1>5, <1>6, <1>7, <1>8 DEF RowsOK

LEMMA TimesAreInts ==
  ASSUME WalkInv, InvocationsInv, NEW v \in ToSet(invocations)
  PROVE  v.time \in Int
<1>1. PICK k \in DOMAIN args : \E x \in DOMAIN args[k].builds : IsInvocationOf(v, k, x)
  BY Zenon DEF InvocationsInv
<1>2. PICK x \in DOMAIN args[k].builds : IsInvocationOf(v, k, x)
  BY <1>1
<1>3. RowsOK(args[k].builds[x])
  BY ArgsFacts DEF WalkInv
<1> QED
  BY <1>2, <1>3 DEF RowsOK, IsInvocationOf

\* The latest first on both sides, each run comes to the column of its build.
LEMMA ColumnsAreOwn ==
  ASSUME WalkInv, InvocationsInv, SuitesInv, TimesApart, Descending(invocations),
         NEW n \in Names, Descending(suites[n])
  PROVE  \A i \in DOMAIN suites[n] :
           /\ RenderSuite(n)[i] \in DOMAIN invocations
           /\ DirOf(suites[n][i]) = invocations[RenderSuite(n)[i]].dir
<1> DEFINE L == Len(invocations)
           M == Len(suites[n])
           runs == suites[n]
           cols == RenderSuite(n)
           IsOwn(i, j) == invocations[j].dir = DirOf(runs[i]) /\ invocations[j].time = runs[i].time
           own == [i \in 1 .. M |-> CHOOSE j \in 1 .. L : IsOwn(i, j)]
<1>1. L \in Nat /\ DOMAIN invocations = 1 .. L
  BY DEF InvocationsInv
<1>2. M \in Nat /\ DOMAIN runs = 1 .. M
  <2>1. suites[n] \in Seq(ToSet(suites[n]))
    BY Zenon DEF SuitesInv
  <2> QED
    BY <2>1
<1>3. \A j \in 1 .. L : invocations[j].time \in Int
  BY <1>1, TimesAreInts DEF ToSet
<1>4. \A i \in 1 .. M : runs[i].time \in Int /\ runs[i].path = <<runs[i].path[1], runs[i].path[2], n>>
                        /\ \E j \in 1 .. L : IsOwn(i, j)
  <2>1. TAKE i \in 1 .. M
  <2>2. runs[i] \in ToSet(suites[n])
    BY <1>2 DEF ToSet
  <2>3. /\ runs[i].time \in Int
        /\ runs[i].path = <<runs[i].path[1], runs[i].path[2], n>>
        /\ \E v \in ToSet(invocations) : v.dir = DirOf(runs[i]) /\ v.time = runs[i].time
    BY <2>2, RunsOwned
  <2> QED
    BY <1>1, <2>3 DEF ToSet
<1>5. \A i \in 1 .. M : own[i] \in 1 .. L /\ IsOwn(i, own[i])
  BY <1>4
<1> HIDE DEF own
<1>6. ASSUME NEW i \in 1 .. M, NEW l \in 1 .. M, i < l PROVE own[i] < own[l]
  <2>1. runs[i].time >= runs[l].time
    BY <1>2, <1>6 DEF Descending
  <2>2. DirOf(runs[i]) # DirOf(runs[l])
    <3>1. SUFFICES ASSUME DirOf(runs[i]) = DirOf(runs[l]) PROVE FALSE
      OBVIOUS
    <3>2. runs[i].path = runs[l].path
      BY <1>4, <3>1 DEF DirOf
    <3>3. i = l
      BY <1>2, <3>2, Zenon DEF SuitesInv
    <3> QED
      BY <1>6, <3>3
  <2>3. own[i] # own[l]
    BY <1>5, <2>2
  <2>4. ASSUME own[l] < own[i] PROVE FALSE
    <3>1. invocations[own[l]].time >= invocations[own[i]].time
      BY <1>1, <1>5, <2>4 DEF Descending
    <3>2. invocations[own[l]].time = invocations[own[i]].time
      BY <1>4, <1>5, <2>1, <3>1
    <3>3. own[l] = own[i]
      BY <1>1, <1>5, <3>2, Zenon DEF TimesApart
    <3> QED
      BY <2>3, <3>3
  <2>5. own[i] \in Int /\ own[l] \in Int
    BY <1>5
  <2> QED
    BY <2>3, <2>4, <2>5
<1>7. ASSUME NEW i \in 1 .. M, NEW j \in 1 .. own[i] - 1 PROVE invocations[j].time > runs[i].time
  <2>1. own[i] \in 1 .. L /\ invocations[own[i]].time = runs[i].time
    BY <1>5
  <2>2. j \in 1 .. L /\ j < own[i]
    BY <1>1, <2>1
  <2>3. invocations[j].time >= invocations[own[i]].time
    BY <1>1, <2>1, <2>2 DEF Descending
  <2>4. invocations[j].time # invocations[own[i]].time
    BY <1>1, <2>1, <2>2 DEF TimesApart
  <2>5. invocations[j].time \in Int /\ invocations[own[i]].time \in Int
    BY <1>3, <2>1, <2>2
  <2> QED
    BY <2>1, <2>3, <2>4, <2>5
<1>8. \A i \in 1 .. M : cols[i] = Column((IF i = 1 THEN 0 ELSE cols[i - 1]) + 1, runs[i])
  BY <1>2, ColumnsRun
<1> HIDE DEF cols
<1>9. ASSUME NEW i \in 1 .. M, i # 1 => cols[i - 1] = own[i - 1] PROVE cols[i] = own[i]
  <2> DEFINE from == (IF i = 1 THEN 0 ELSE cols[i - 1]) + 1
  <2>1. own[i] \in 1 .. L
    BY <1>5
  <2>2. from \in Int /\ from >= 1 /\ from <= own[i]
    <3>1. CASE i = 1
      BY <2>1, <3>1
    <3>2. CASE i # 1
      <4>1. i - 1 \in 1 .. M /\ i - 1 < i
        BY <3>2
      <4>2. own[i - 1] < own[i] /\ own[i - 1] \in 1 .. L
        BY <1>5, <1>6, <4>1
      <4> QED
        BY <1>9, <2>1, <3>2, <4>2
    <3> QED
      BY <3>1, <3>2
  <2> HIDE DEF from
  <2>3. Column(from, runs[i]) = own[i]
    <3>1. runs[i].time \in Int /\ invocations[own[i]].time = runs[i].time
      BY <1>4, <1>5
    <3> HIDE DEF runs
    <3> QED
      BY <1>1, <1>3, <1>7, <2>1, <2>2, <3>1, ColumnIs
  <2> QED
    BY <1>8, <2>3 DEF from
<1> DEFINE P == {i \in 0 .. M : i # 0 => cols[i] = own[i]}
<1>10. 0 \in P
  BY <1>2
<1>11. ASSUME NEW i \in 0 .. M - 1, i \in P PROVE i + 1 \in P
  <2>1. i + 1 \in 1 .. M /\ (i + 1) - 1 = i
    BY <1>2
  <2>2. i + 1 # 1 => cols[(i + 1) - 1] = own[(i + 1) - 1]
    BY <1>11, <2>1
  <2>3. cols[i + 1] = own[i + 1]
    BY <2>1, <2>2, <1>9
  <2> QED
    BY <2>1, <2>3
<1>12. \A i \in 1 .. M : cols[i] = own[i]
  <2> HIDE DEF P
  <2>1. \A i \in 0 .. M : i \in P
    BY <1>2, <1>10, <1>11, Stepwise
  <2> QED
    BY <2>1, <1>2 DEF P
<1> QED
  BY <1>1, <1>2, <1>5, <1>12 DEF cols

LEMMA HtmlInvShows == HtmlInv => PageTrue
<1> SUFFICES ASSUME HtmlInv, hpc = "done" PROVE PageTrue
  BY DEF PageTrue
<1>1. WalkInv /\ InvocationsInv /\ SuitesInv /\ RatesInv /\ OrderInv /\ PageInv
  BY DEF HtmlInv
<1>2. args \in Histories /\ argi = Len(args) + 1 /\ Len(args) \in Nat /\ DOMAIN args = 1 .. Len(args)
  BY <1>1, ArgsFacts DEF WalkInv, PageInv
<1>3. walked = 0 /\ argi > 1
  <2>1. argi \notin DOMAIN args /\ Len(args) > 0
    <3>1. args \in Seq(ToSet(args)) /\ args # <<>>
      BY <1>2, HistoryAssumption
    <3> QED
      BY <1>2, <3>1
  <2> QED
    BY <1>1, <1>2, <2>1 DEF WalkInv
<1>4. \A k \in DOMAIN args : \A x : Behind(argi, walked, k, x)
  BY <1>2 DEF Behind
<1>5. PICK order \in SortSuites :
        page = [i \in DOMAIN order |-> [name |-> order[i], columns |-> RenderSuite(order[i])]]
  BY <1>1, Zenon DEF PageInv
<1>6. /\ DOMAIN page = DOMAIN order
      /\ \A r \in DOMAIN page : page[r].name = order[r] /\ page[r].columns = RenderSuite(order[r])
      /\ \A r \in DOMAIN order : order[r] \in Names /\ r \in Int
      /\ \A i, j \in DOMAIN order : Before(order[i], order[j]) => i < j
  <2> DEFINE S == {n \in Names : suites[n] # <<>>}
  <2>1. order \in SetToSeqs(S) /\ \A i, j \in DOMAIN order : Before(order[i], order[j]) => i < j
    BY DEF SortSuites
  <2> HIDE DEF S
  <2>2. order \in [1 .. Cardinality(S) -> S]
    BY <2>1 DEF SetToSeqs
  <2>3. \A r \in DOMAIN order : order[r] \in Names /\ r \in Int
    BY <2>2 DEF S
  <2> QED
    BY <1>5, <2>1, <2>3
<1>7. HtmlTypeOK
  <2>1. \A i \in DOMAIN invocations :
          invocations[i].dir \in made /\ invocations[i].fail \in 0 .. invocations[i].total
    BY <1>1 DEF InvocationsInv, ToSet
  <2> QED
    BY <1>1, <2>1 DEF HtmlTypeOK, WalkInv, SuitesInv
<1>8. ASSUME TimesApart PROVE ColumnsOwn
  <2>1. Descending(invocations) /\ \A n \in Names : Descending(suites[n])
    BY <1>1, <1>3 DEF OrderInv
  <2>2. ASSUME NEW r \in DOMAIN page, NEW i \in DOMAIN suites[page[r].name]
        PROVE  /\ page[r].columns[i] \in DOMAIN invocations
               /\ DirOf(suites[page[r].name][i]) = invocations[page[r].columns[i]].dir
    <3>1. page[r].name = order[r] /\ page[r].columns = RenderSuite(order[r]) /\ order[r] \in Names
      BY <1>6
    <3>2. Descending(suites[order[r]])
      BY <2>1, <3>1
    <3>3. \A l \in DOMAIN suites[order[r]] :
            /\ RenderSuite(order[r])[l] \in DOMAIN invocations
            /\ DirOf(suites[order[r]][l]) = invocations[RenderSuite(order[r])[l]].dir
      BY <1>1, <1>8, <2>1, <3>1, <3>2, ColumnsAreOwn
    <3> QED
      BY <3>1, <3>3
  <2> QED
    BY <2>2, Zenon DEF ColumnsOwn
<1>9. RunsOfRows
  <2>1. ASSUME NEW n \in Names, NEW i \in DOMAIN suites[n]
        PROVE  \E k \in DOMAIN args : \E b \in ToSet(args[k].builds) : \E row \in ToSet(b.rows) :
                 row.name = n /\ IsRunOf(suites[n][i], args[k].arch, b, row)
    <3>1. RunFrom(n, suites[n][i])
      BY <1>1 DEF SuitesInv, ToSet
    <3>2. PICK k \in DOMAIN args : \E x \in DOMAIN args[k].builds :
            \E row \in ToSet(args[k].builds[x].rows) :
              row.name = n /\ IsRunOf(suites[n][i], args[k].arch, args[k].builds[x], row)
      BY <3>1, Zenon DEF RunFrom
    <3>3. PICK x \in DOMAIN args[k].builds : \E row \in ToSet(args[k].builds[x].rows) :
            row.name = n /\ IsRunOf(suites[n][i], args[k].arch, args[k].builds[x], row)
      BY <3>2
    <3>4. args[k].builds[x] \in ToSet(args[k].builds)
      BY DEF ToSet
    <3> QED
      BY <3>3, <3>4, Zenon
  <2>2. ASSUME NEW k \in DOMAIN args, NEW b \in ToSet(args[k].builds), NEW row \in ToSet(b.rows),
               Kind[row.name] # "unknown"
        PROVE  \E i \in DOMAIN suites[row.name] : IsRunOf(suites[row.name][i], args[k].arch, b, row)
    <3>1. PICK x \in DOMAIN args[k].builds : b = args[k].builds[x]
      BY DEF ToSet
    <3>2. \E run \in ToSet(suites[row.name]) : IsRunOf(run, args[k].arch, b, row)
      BY <1>1, <1>4, <2>2, <3>1, Zenon DEF SuitesInv
    <3> QED
      BY <3>2 DEF ToSet
  <2> QED
    BY <2>1, <2>2, Zenon DEF RunsOfRows
<1>10. RatesTrue
  BY <1>1 DEF RatesInv, RatesTrue, ToSet
<1>11. DeltasTrue
  <2>1. ASSUME NEW k \in DOMAIN args, NEW x \in DOMAIN args[k].builds
        PROVE  \E i \in DOMAIN invocations : IsInvocationOf(invocations[i], k, x)
    <3>1. \E v \in ToSet(invocations) : IsInvocationOf(v, k, x)
      BY <1>1, <1>4, Zenon DEF InvocationsInv
    <3> QED
      BY <3>1 DEF ToSet
  <2>2. \A i, j \in DOMAIN invocations : invocations[i].dir = invocations[j].dir => i = j
    BY <1>1, Zenon DEF InvocationsInv
  <2>3. ASSUME NEW k \in DOMAIN args, NEW x \in DOMAIN args[k].builds
        PROVE  \E i \in DOMAIN invocations :
                 /\ invocations[i].dir = <<args[k].arch, args[k].builds[x].date>>
                 /\ invocations[i].delta =
                      IF x = 1 THEN "NONE"
                      ELSE DurationDelta(args[k].builds[x].seconds, args[k].builds[x - 1].seconds)
    <3>1. PICK i \in DOMAIN invocations : IsInvocationOf(invocations[i], k, x)
      BY <2>1
    <3>2. /\ invocations[i].dir = <<args[k].arch, args[k].builds[x].date>>
          /\ invocations[i].delta =
               IF x = 1 THEN "NONE"
               ELSE DurationDelta(args[k].builds[x].seconds, args[k].builds[x - 1].seconds)
      BY <3>1 DEF IsInvocationOf
    <3> QED
      BY <3>2, Zenon
  <2> QED
    BY <2>2, <2>3 DEF DeltasTrue
<1>12. FailuresFirst
  <2>1. ASSUME NEW i \in DOMAIN page, NEW j \in DOMAIN page, i < j,
               Failures(ToSet(suites[page[i].name])) = {}, Failures(ToSet(suites[page[j].name])) # {}
        PROVE  FALSE
    <3>1. /\ page[i].name = order[i] /\ page[j].name = order[j]
          /\ order[i] \in Names /\ order[j] \in Names /\ i \in Int /\ j \in Int
          /\ i \in DOMAIN order /\ j \in DOMAIN order
      BY <1>6
    <3>2. \A n \in Names : sfail[n] \in Nat /\ (sfail[n] = 0 <=> Failures(ToSet(suites[n])) = {})
      BY <1>1 DEF SuitesInv
    <3>3. sfail[order[i]] = 0 /\ sfail[order[j]] > 0
      BY <2>1, <3>1, <3>2
    <3>4. Before(order[j], order[i])
      BY <3>3 DEF Before, Rank
    <3>5. j < i
      BY <1>6, <3>1, <3>4
    <3> QED
      BY <2>1, <3>1, <3>5
  <2> QED
    BY <2>1, Zenon DEF FailuresFirst
<1> QED
  BY <1>7, <1>8, <1>9, <1>10, <1>11, <1>12 DEF PageTrue

\* The page that robsd-regress-html renders of any builds, if none of their logs or
\* directories is in the way, has each run in the column of its build, leads to
\* what was taken from its log, and counts and orders failures as they are.
THEOREM PageIsTrue == HtmlSpec => []PageTrue
<1>1. HtmlSpec => []HtmlInv
  BY HtmlInvInit, HtmlInvNext, PTL DEF HtmlSpec
<1> QED
  BY <1>1, HtmlInvShows, PTL
=============================================================================
