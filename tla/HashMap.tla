------------------------------- MODULE HashMap -------------------------------
(***************************************************************************)
(* The map (src/libks/map.c): a list of elements in the order in which     *)
(* they were inserted, and a hash table with a chain for each bucket.      *)
(* Keys stand for their elements: a key is looked up before it is          *)
(* inserted, as conf-token.c and regress-html.c do.                        *)
(***************************************************************************)
EXTENDS Integers, Sequences, SequencesExt, FiniteSets

CONSTANTS
  Keys,
  Hashes,       \* hash functions: of the map one is used
  FirstBuckets, \* HASH_INITIAL_NUM_BUCKETS
  Threshold,    \* HASH_BKT_CAPACITY_THRESH
  MaxBuckets    \* bound on the number of buckets

ASSUME HashAssumption == Hashes \subseteq [Keys -> Nat] /\ IsFiniteSet(Keys)
ASSUME BucketAssumption ==
  FirstBuckets \in Nat \ {0} /\ Threshold \in Nat \ {0} /\ MaxBuckets \in Nat

VARIABLES
  hash,    \* the hash function
  list,    \* the elements in order of insertion
  chain,   \* the elements of each bucket; no bucket without a table
  mult,    \* expand_mult of each bucket
  ideal,   \* ideal_chain_maxlen, 0 before the first expansion
  ineff,   \* ineff_expands
  noexpand \* whether the table is not to grow any more

mapVars == <<hash, list, chain, mult, ideal, ineff, noexpand>>

NumBuckets == Cardinality(DOMAIN chain)

MapInit ==
  /\ hash \in Hashes
  /\ list = <<>>
  /\ chain = <<>>
  /\ mult = <<>>
  /\ ideal = 0
  /\ ineff = 0
  /\ noexpand = FALSE

\* HASH_JEN: any function of the key will do.
HashJen(k) == hash[k]

\* HASH_TO_BKT; numbers of buckets are powers of two.
Bucket(k, n) == HashJen(k) % n

Chained(k) == chain[Bucket(k, NumBuckets)]

\* HASH_FIND
Found(k) == list # <<>> /\ Contains(Chained(k), k)

\* HASH_MAKE_TABLE, if there is none
Table == IF list = <<>> THEN [b \in 0 .. FirstBuckets - 1 |-> <<>>] ELSE chain
Mults == IF list = <<>> THEN [b \in 0 .. FirstBuckets - 1 |-> 0] ELSE mult

\* expand_mult of a bucket to which n elements were moved one by one, and most
\* is the ideal.
Mult(n, most) ==
  LET f[i \in 0 .. n] ==
        IF i <= most THEN 0
        ELSE f[i - 1] + (IF i > f[i - 1] * most THEN 1 ELSE 0)
  IN  f[n]

\* Variant: the elements stay in the buckets with the numbers they had.
SplitNot(t, n) == [b \in 0 .. 2 * n - 1 |-> IF b < n THEN t[b] ELSE <<>>]

\* What of the chain s goes to bucket b of n: as each element is put at the head,
\* the last comes first.
Taken(s, b, n) ==
  LET at      == {i \in DOMAIN s : Bucket(s[i], n) = b}
      rank(i) == Cardinality({m \in at : m >= i})
  IN  [j \in 1 .. Cardinality(at) |-> s[CHOOSE i \in at : rank(i) = j]]

\* The chains of twice as many buckets: each is moved from its head on to the
\* heads of the new ones.
Split(t, n) == [b \in 0 .. 2 * n - 1 |-> Taken(t[b % n], b, 2 * n)]

\* HASH_EXPAND_BUCKETS, for a table t of items elements.
Expand(t, items) ==
  LET n        == Cardinality(DOMAIN t)
      new      == Split(t, n)
      most     == (items + 2 * n - 1) \div (2 * n)
      over(b)  == IF Len(new[b]) > most THEN Len(new[b]) - most ELSE 0
      nonideal == FoldSet(LAMBDA b, sum : over(b) + sum, 0, DOMAIN new)
      bad      == IF nonideal > items \div 2 THEN ineff + 1 ELSE 0
  IN  /\ chain' = new
      /\ mult' = [b \in DOMAIN new |-> Mult(Len(new[b]), most)]
      /\ ideal' = most
      /\ ineff' = bad
      /\ noexpand' = (noexpand \/ bad > 1)

\* map_insert, HASH_ADD: the table is expanded when the chain has got too long.
MapInsert(k) ==
  LET n  == Cardinality(DOMAIN Table)
      b  == Bucket(k, n)
      t  == [Table EXCEPT ![b] = <<k>> \o @]
  IN  /\ ~Found(k)
      /\ list' = Append(list, k)
      /\ IF Len(t[b]) >= (Mults[b] + 1) * Threshold /\ ~noexpand
         THEN 2 * n <= MaxBuckets /\ Expand(t, Len(list) + 1)
         ELSE chain' = t /\ mult' = Mults /\ UNCHANGED <<ideal, ineff, noexpand>>
      /\ UNCHANGED hash

\* The list or chain s, with the element of key k unlinked from it.
Unlinked(s, k) == RemoveAt(s, CHOOSE i \in DOMAIN s : s[i] = k)

\* HASH_DEL_IN_BKT
Unchain(k) == [chain EXCEPT ![Bucket(k, NumBuckets)] = Unlinked(@, k)]

\* map_remove, HASH_DELETE: the table goes with its last element.
MapRemove(k) ==
  /\ Found(k)
  /\ list' = Unlinked(list, k)
  /\ IF Len(list) = 1
     THEN chain' = <<>> /\ mult' = <<>> /\ ideal' = 0 /\ ineff' = 0 /\ noexpand' = FALSE
     ELSE chain' = Unchain(k) /\ UNCHANGED <<mult, ideal, ineff, noexpand>>
  /\ UNCHANGED hash

MapNext == \E k \in Keys : MapInsert(k) \/ MapRemove(k)

MapSpec == MapInit /\ [][MapNext]_mapVars
-----------------------------------------------------------------------------
MapTypeOK ==
  /\ hash \in Hashes
  /\ ToSet(list) \subseteq Keys /\ IsInjective(list)
  /\ DOMAIN mult = DOMAIN chain
  /\ list = <<>> <=> NumBuckets = 0
  /\ ideal \in Nat
  /\ ineff \in Nat /\ noexpand \in BOOLEAN

\* "a longer yet-still-bounded value": while expansion is not inhibited no chain
\* reaches the length at which it should have been expanded, except that a table
\* just expanded may be so full that this is within the ideal length, times the
\* same multiplier; and there are at least as many buckets as the multiplier says.
ChainsBounded ==
  \A b \in DOMAIN chain :
    /\ mult[b] \in 0 .. NumBuckets
    /\ \/ noexpand
       \/ Len(chain[b]) < (mult[b] + 1) * Threshold
       \/ Len(chain[b]) <= (mult[b] + 1) * ideal

\* A key is found exactly while it is in the list, and each chain holds keys of
\* its own bucket, none of them twice.
LooksUp ==
  /\ \A k \in Keys : Found(k) <=> Contains(list, k)
  /\ \A b \in DOMAIN chain :
       IsInjective(chain[b]) /\ \A k \in ToSet(chain[b]) : Bucket(k, NumBuckets) = b

\* A key is found exactly while it is in the list, on the chain of its bucket and
\* on no other, through any number of expansions and removals; chains stay short
\* unless expansion turned out to be of no use.
FindsAll == MapTypeOK /\ ChainsBounded /\ LooksUp
=============================================================================
