------------------------------- MODULE Growth -------------------------------
(***************************************************************************)
(* The capacity of vectors and buffers (src/libks/vector.c, buffer.c): it  *)
(* starts at a constant and is doubled, in words of limited width.         *)
(***************************************************************************)
EXTENDS Integers

CONSTANTS
  MaxWord,  \* ULONG_MAX
  FirstSize \* the first capacity of a vector or buffer

ASSUME WordAssumption == MaxWord \in Nat /\ FirstSize \in 1 .. MaxWord

\* The capacities tried from first on: doubling the last would wrap around.
Tried(first) ==
  {n \in first .. MaxWord : \E k \in 0 .. n \div first : n = first * 2 ^ k}

\* The first of them with room for need, or 0 where there is none.
FirstRoom(first, need) ==
  LET room == {n \in Tried(first) : n >= need}
  IN  IF room = {} THEN 0 ELSE CHOOSE n \in room : \A m \in room : n <= m

\* The capacity of a vector or buffer that had the capacity siz.
Doubled(siz, need) == FirstRoom(IF siz = 0 THEN FirstSize ELSE siz, need)
=============================================================================
