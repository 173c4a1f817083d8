-------------------------------- MODULE Vector -------------------------------
(***************************************************************************)
(* A vector (src/libks/vector.c, vector.h), in memory that realloc moves:  *)
(* only what realloc is told about is moved along.  The size of an element *)
(* is the stride.                                                          *)
(***************************************************************************)
EXTENDS Growth, Sequences

CONSTANTS
  Vals,    \* the elements, with 0 among them
  Garbage, \* what is in memory nobody has written to
  Stride,  \* the size of an element
  HeadSize,    \* sizeof(struct vector)
  MaxLen   \* bound on the number of elements

ASSUME ValsAssumption == 0 \in Vals /\ Vals \subseteq Nat /\ Garbage \notin Vals
ASSUME StrideAssumption == Stride \in 1 .. MaxWord /\ HeadSize \in 0 .. MaxWord

VARIABLES
  vsiz,   \* vc_siz
  vlen,   \* p.len
  mem,    \* the elements in memory, as many as there is room for
  want,   \* history: the elements as the client put them there
  verrno  \* whether the last call failed with EOVERFLOW

vectorVars == <<vsiz, vlen, mem, want, verrno>>

VectorInit == vsiz = 0 /\ vlen = 0 /\ mem = <<>> /\ want = <<>> /\ verrno = FALSE

\* The capacity vector_reserve1 asks for, or 0 on overflow.
Capacity(siz, need) ==
  LET newsiz == Doubled(siz, need)
  IN  IF need > MaxWord \/ newsiz > MaxWord \div Stride
         \/ newsiz * Stride > MaxWord - HeadSize
      THEN 0 ELSE newsiz

\* The capacity there is after vector_reserve1, or 0 if it fails.
Reserve1(len) == IF vlen + len <= vsiz THEN vsiz ELSE Capacity(vsiz, vlen + len)

\* Variant: what is told to realloc leaves out the last element.
MovedShort(newsiz) == [i \in 1 .. newsiz |-> IF i < vlen THEN mem[i] ELSE Garbage]

\* The memory once realloc has moved what it was told about.
Moved(newsiz) == [i \in 1 .. newsiz |-> IF i <= vlen THEN mem[i] ELSE Garbage]

Memory(newsiz) == IF newsiz = vsiz THEN mem ELSE Moved(newsiz)

Overflow == verrno' = TRUE /\ UNCHANGED <<vsiz, vlen, mem, want>>

VectorReserve(n) ==
  LET newsiz == Reserve1(n)
  IN  IF newsiz = 0 THEN Overflow
      ELSE /\ vsiz' = newsiz /\ mem' = Memory(newsiz)
           /\ verrno' = FALSE
           /\ UNCHANGED <<vlen, want>>

\* VECTOR_ALLOC, and the client's assignment of v to the new element.
VectorAlloc(v) ==
  LET newsiz == Reserve1(1)
  IN  /\ vlen < MaxLen
      /\ IF newsiz = 0 THEN Overflow
         ELSE /\ vsiz' = newsiz /\ mem' = [Memory(newsiz) EXCEPT ![vlen + 1] = v]
              /\ vlen' = vlen + 1
              /\ want' = Append(want, v)
              /\ verrno' = FALSE

\* VECTOR_CALLOC
VectorCalloc == VectorAlloc(0)

VectorPop ==
  /\ vlen > 0
  /\ vlen' = vlen - 1
  /\ want' = SubSeq(want, 1, Len(want) - 1)
  /\ UNCHANGED <<vsiz, mem, verrno>>

VectorClear ==
  /\ vlen' = 0
  /\ want' = <<>>
  /\ UNCHANGED <<vsiz, mem, verrno>>

Orders(n) == {p \in [1 .. n -> 1 .. n] : \A i, j \in 1 .. n : p[i] = p[j] => i = j}

\* vector_sort: what compares equal may come in any order.
VectorSort ==
  /\ \E p \in Orders(vlen) :
       /\ \A i, j \in 1 .. vlen : i < j => mem[p[i]] <= mem[p[j]]
       /\ mem' = [i \in 1 .. vsiz |-> IF i <= vlen THEN mem[p[i]] ELSE mem[i]]
       /\ want' = [i \in 1 .. vlen |-> want[p[i]]]
  /\ UNCHANGED <<vsiz, vlen, verrno>>

\* vector_copy, whose result takes the place of the vector: a new one reserves
\* room for the elements.
VectorCopy ==
  LET newsiz == IF vlen = 0 THEN 0 ELSE Capacity(0, vlen)
  IN  IF newsiz < vlen THEN Overflow
      ELSE /\ vsiz' = newsiz /\ mem' = Moved(newsiz)
           /\ verrno' = FALSE
           /\ UNCHANGED <<vlen, want>>

VectorNext ==
  \/ \E n \in 1 .. MaxWord : VectorReserve(n)
  \/ \E v \in Vals : VectorAlloc(v)
  \/ VectorCalloc
  \/ VectorPop
  \/ VectorClear
  \/ VectorSort
  \/ VectorCopy

VectorSpec == VectorInit /\ [][VectorNext]_vectorVars
-----------------------------------------------------------------------------
VectorTypeOK ==
  /\ vsiz \in 0 .. MaxWord /\ vlen \in 0 .. vsiz
  /\ mem \in [1 .. vsiz -> Vals \cup {Garbage}]
  /\ want \in Seq(Vals)
  /\ verrno \in BOOLEAN

\* The elements are those the client put there, whatever moves of the memory,
\* sorts, pops and clears lie between, and there is room for them: their size
\* and that of the header do not wrap around.
ElementsKept ==
  /\ VectorTypeOK
  /\ Len(want) = vlen /\ \A i \in 1 .. vlen : mem[i] = want[i]
  /\ HeadSize + vsiz * Stride <= MaxWord
=============================================================================
