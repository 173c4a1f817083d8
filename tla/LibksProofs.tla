----------------------------- MODULE LibksProofs -----------------------------
(***************************************************************************)
(* Theorems of Arena, Vector, Buffer and HashMap, for frames, elements,    *)
(* headers and machine words of any size, and any hash function.           *)
(***************************************************************************)
EXTENDS Arena, Vector, Buffer, HashMap, NatFacts, FiniteSetTheorems,
        SequenceTheorems

-----------------------------------------------------------------------------
(***************************************************************************)
(* Capacities.                                                             *)
(***************************************************************************)

\* The capacity chosen has room for what is needed and is a machine word.
LEMMA FirstRoomFits ==
  ASSUME NEW first \in Nat, NEW need \in Nat
  PROVE  /\ FirstRoom(first, need) \in Nat
         /\ FirstRoom(first, need) # 0 =>
              /\ FirstRoom(first, need) >= need /\ FirstRoom(first, need) >= first
              /\ FirstRoom(first, need) <= MaxWord
<1> DEFINE room == {n \in Tried(first) : n >= need}
<1>1. room \in SUBSET Nat /\ \A n \in room : n >= need /\ n >= first /\ n <= MaxWord
  BY WordAssumption DEF Tried
<1>2. CASE room = {}
  BY <1>2 DEF FirstRoom
<1>3. CASE room # {}
  <2>1. PICK n \in room : \A m \in room : n <= m
    BY <1>1, <1>3, LeastElement
  <2>2. FirstRoom(first, need) \in room
    BY <1>3, <2>1 DEF FirstRoom
  <2> QED
    BY <1>1, <2>2
<1> QED
  BY <1>2, <1>3

-----------------------------------------------------------------------------
(***************************************************************************)
(* The arena.                                                              *)
(***************************************************************************)

\* align_address leaves the poison behind what is given away, and keeps the order.
LEMMA AlignUpFacts ==
  ASSUME NEW n \in Nat
  PROVE  /\ AlignUp(n) \in Nat
         /\ AlignUp(n) >= n + Poison
         /\ \A m \in Nat : m <= n => AlignUp(m) <= AlignUp(n)
<1> DEFINE up(m) == ((m + Align - 1) \div Align) * Align
<1>1. ASSUME NEW m \in Nat
      PROVE  /\ up(m) \in Nat /\ m <= up(m) /\ up(m) < m + Align
             /\ AlignUp(m) = up(m) + Poison
  <2> DEFINE k == m + Align - 1
  <2>1. k \in Nat /\ Align \in Nat /\ Align > 0
    BY UnitAssumption
  <2>2. /\ (k \div Align) * Align <= k /\ k < (k \div Align) * Align + Align
        /\ (k \div Align) \in Nat
    <3> HIDE DEF k
    <3> QED
      BY <2>1
  <2>3. up(m) \in Nat /\ m <= up(m) /\ up(m) < m + Align
    BY <2>1, <2>2
  <2> HIDE DEF up, k
  <2>4. AlignUp(m) = IF up(m) - m < Poison THEN up(m) + Poison ELSE up(m)
    BY DEF AlignUp, up
  <2>5. CASE Poison = 0
    BY <2>3, <2>4, <2>5
  <2>6. CASE Poison = Align
    BY <2>1, <2>3, <2>4, <2>6
  <2> QED
    BY <2>3, <2>5, <2>6, UnitAssumption
<1>2. ASSUME NEW m \in Nat, m <= n PROVE up(m) <= up(n)
  <2> DEFINE x == m + Align - 1
             y == n + Align - 1
  <2>1. x \in Nat /\ y \in Nat /\ x <= y /\ Align \in Nat /\ Align > 0
    BY <1>2, UnitAssumption
  <2> HIDE DEF x, y
  <2>2. x \div Align <= y \div Align /\ x \div Align \in Nat /\ y \div Align \in Nat
    BY <2>1
  <2> DEFINE q == x \div Align
             r == y \div Align
  <2> HIDE DEF q, r
  <2>3. q * Align <= r * Align
    BY <2>1, <2>2 DEF q, r
  <2> QED
    BY <2>3 DEF q, r, x, y
<1> HIDE DEF up
<1> QED
  BY <1>1, <1>2, UnitAssumption

\* The header of a frame is aligned: behind it comes the poison.
LEMMA HeaderAligned == AlignUp(Header) = Header + Poison
<1>1. Header \in Nat /\ Align \in Nat /\ Align > 0 /\ Header % Align = 0
  BY UnitAssumption
<1> DEFINE q == Header \div Align
<1>2. q \in Nat /\ Header = q * Align
  BY <1>1
<1> HIDE DEF q
<1>3. (q * Align + (Align - 1)) \div Align = q
  BY <1>1, <1>2
<1>4. ((Header + Align - 1) \div Align) * Align = Header
  <2>1. Header + Align - 1 = q * Align + (Align - 1)
    BY <1>1, <1>2
  <2> QED
    BY <1>2, <1>3, <2>1
<1> QED
  BY <1>1, <1>4, UnitAssumption DEF AlignUp

\* Where a frame of the given size goes on once n of its bytes are given away.
Cut(n, size) == IF AlignUp(n) > size THEN size ELSE AlignUp(n)

LEMMA CutFacts ==
  ASSUME NEW n \in Nat, NEW size \in Nat, n <= size
  PROVE  /\ Cut(n, size) \in Nat /\ Cut(n, size) >= n /\ Cut(n, size) <= size
         /\ Cut(n, size) <= AlignUp(n)
         /\ \A m \in Nat : m <= n => Cut(m, size) <= Cut(n, size)
<1>1. /\ AlignUp(n) \in Nat /\ AlignUp(n) >= n
      /\ \A m \in Nat : m <= n => AlignUp(m) \in Nat /\ AlignUp(m) <= AlignUp(n)
  BY AlignUpFacts, UnitAssumption
<1> QED
  BY <1>1 DEF Cut

LEMMA PushFacts ==
  ASSUME NEW frame \in Frame, NEW n \in Nat, frame.len + n <= frame.size
  PROVE  /\ Push(frame, n) \in Frame
         /\ Push(frame, n).size = frame.size
         /\ Push(frame, n).len = Cut(frame.len + n, frame.size)
<1>1. Push(frame, n) = [frame EXCEPT !.len = Cut(frame.len + n, frame.size)]
  BY DEF Push, Cut
<1>2. Cut(frame.len + n, frame.size) \in Nat
  BY CutFacts DEF Frame
<1> QED
  BY <1>1, <1>2 DEF Frame

LEMMA NewFrameFacts ==
  ASSUME NEW n \in Nat, n >= Header + Poison
  PROVE  NewFrame(n) = [size |-> n, len |-> Header + Poison]
<1> DEFINE empty == [size |-> n, len |-> 0]
<1>1. Header \in Nat /\ Poison \in Nat
  BY UnitAssumption
<1>2. AlignUp(empty.len + Header) = Header + Poison
  BY <1>1, HeaderAligned
<1>3. Push(empty, Header) = [empty EXCEPT !.len = Header + Poison]
  <2> HIDE DEF empty
  <2>1. empty.size = n
    BY DEF empty
  <2> QED
    BY <1>1, <1>2, <2>1 DEF Push
<1> QED
  BY <1>3 DEF NewFrame

\* Where the last byte of a block is followed by what may be given away next.
End(b) == Cut(block[b].off + block[b].size, frames[block[b].frame].size)

\* Every frame has its header, and the first is the one arena_alloc made.
FramesOK ==
  /\ \A f \in 1 .. Top : frames[f].len \in Header .. frames[f].size
  /\ refs > 0 => Top > 0 /\ frames[1].size = FrameSize
  /\ refs = 0 => frames = <<>>

\* The marks of the scopes lie in the part of the chain that is given away, in
\* the order of the scopes.
ScopesOK ==
  /\ \A s \in 1 .. Inner :
       /\ scopes[s].id = s + 1 /\ scopes[s].frame \in 1 .. Top
       /\ Header <= scopes[s].len /\ scopes[s].len <= frames[scopes[s].frame].len
  /\ \A s, t \in 1 .. Inner :
       s < t => \/ scopes[s].frame < scopes[t].frame
                \/ scopes[s].frame = scopes[t].frame /\ scopes[s].len <= scopes[t].len
  /\ Inner > 0 => scopes[1].frame = 1 /\ scopes[1].len = Header + Poison
  /\ Inner = 0 /\ ~freed => frames = <<NewFrame(FrameSize)>>

\* A block lies before the marks of the scopes within its own.
BlocksOK ==
  \A b \in Held :
    /\ block[b].scope \in 1 .. Inner /\ block[b].frame \in 1 .. Top
    /\ block[b].off >= Header /\ block[b].size > 0
    /\ block[b].off + block[b].size <= frames[block[b].frame].size
    /\ End(b) <= frames[block[b].frame].len
    /\ \A t \in 1 .. Inner : block[b].scope < t =>
         \/ block[b].frame < scopes[t].frame
         \/ block[b].frame = scopes[t].frame /\ End(b) <= scopes[t].len

\* Of two blocks in a frame one begins where the other and its poison end.
PairsOK ==
  \A b, c \in Held :
    b # c /\ block[b].frame = block[c].frame =>
      End(b) <= block[c].off \/ End(c) <= block[b].off

ArenaInv ==
  ArenaTypeOK /\ FramesOK /\ ScopesOK /\ BlocksOK /\ PairsOK /\ fate # "no room"

\* Scopes are used from the inside out, and no block is empty.
Nested == ~Outer /\ 0 \notin Sizes

LEMMA ArenaTyped ==
  ASSUME ArenaTypeOK
  PROVE  /\ Top \in Nat /\ Inner \in Nat /\ Header \in Nat /\ Poison \in Nat
         /\ DOMAIN frames = 1 .. Top
         /\ \A f \in 1 .. Top :
              frames[f] \in Frame /\ frames[f].size \in Nat /\ frames[f].len \in Nat
         /\ \A b \in Held :
              /\ b \in Blocks
              /\ block[b].off \in Nat /\ block[b].size \in Nat
              /\ block[b].frame \in Nat /\ block[b].scope \in Nat
         /\ DOMAIN scopes = 1 .. Inner
         /\ \A s \in 1 .. Inner :
              scopes[s] \in Scope /\ scopes[s].frame \in Nat /\ scopes[s].len \in Nat
<1>1. frames \in Seq(Frame) /\ scopes \in Seq(Scope)
  BY DEF ArenaTypeOK
<1>2. /\ Top \in Nat /\ DOMAIN frames = 1 .. Top
      /\ \A f \in 1 .. Top : frames[f] \in Frame
  BY <1>1 DEF Top
<1>3. \A f \in 1 .. Top : frames[f].size \in Nat /\ frames[f].len \in Nat
  BY <1>2 DEF Frame
<1>4. /\ Inner \in Nat /\ DOMAIN scopes = 1 .. Inner
      /\ \A s \in 1 .. Inner : scopes[s] \in Scope
  BY <1>1 DEF Inner
<1>5. \A s \in 1 .. Inner : scopes[s].frame \in Nat /\ scopes[s].len \in Nat
  BY <1>4 DEF Scope
<1>6. \A b \in Held :
        /\ b \in Blocks
        /\ block[b].off \in Nat /\ block[b].size \in Nat
        /\ block[b].frame \in Nat /\ block[b].scope \in Nat
  BY DEF ArenaTypeOK, Held, Block
<1> QED
  BY <1>2, <1>3, <1>4, <1>5, <1>6, UnitAssumption

\* The end of a block lies behind its last byte.
LEMMA EndTyped ==
  ASSUME ArenaTypeOK, BlocksOK, NEW b \in Held
  PROVE  End(b) \in Nat /\ block[b].off + block[b].size <= End(b)
<1>1. /\ block[b].off + block[b].size \in Nat
      /\ frames[block[b].frame].size \in Nat
      /\ block[b].off + block[b].size <= frames[block[b].frame].size
  <2>1. /\ block[b].frame \in 1 .. Top
        /\ block[b].off + block[b].size <= frames[block[b].frame].size
    BY DEF BlocksOK
  <2> QED
    BY <2>1, ArenaTyped
<1> DEFINE n == block[b].off + block[b].size
           m == frames[block[b].frame].size
<1> HIDE DEF n, m
<1>2. Cut(n, m) \in Nat /\ n <= Cut(n, m)
  BY <1>1, CutFacts DEF n, m
<1> QED
  BY <1>2 DEF n, m, End

LEMMA ArenaInvSuffices == ArenaInv => BlocksApart /\ Reclaimed
<1> SUFFICES ASSUME ArenaInv PROVE BlocksApart /\ Reclaimed
  OBVIOUS
<1>0. ArenaTypeOK /\ FramesOK /\ ScopesOK /\ BlocksOK /\ PairsOK
  BY DEF ArenaInv
<1>1. ASSUME NEW b \in Held
      PROVE  /\ block[b].frame \in DOMAIN frames
             /\ block[b].off >= Header
             /\ block[b].off + block[b].size <= frames[block[b].frame].len
             /\ frames[block[b].frame].len <= frames[block[b].frame].size
  <2>1. /\ block[b].frame \in 1 .. Top /\ block[b].off >= Header
        /\ End(b) <= frames[block[b].frame].len
    BY <1>0 DEF BlocksOK
  <2>2. frames[block[b].frame].len <= frames[block[b].frame].size
    <3>1. frames[block[b].frame].len \in Header .. frames[block[b].frame].size
      BY <1>0, <2>1 DEF FramesOK
    <3> QED
      BY <2>1, <3>1, <1>0, ArenaTyped
  <2>3. block[b].off + block[b].size <= End(b) /\ End(b) \in Nat
    BY <1>0, EndTyped
  <2>4. block[b].off + block[b].size \in Nat /\ frames[block[b].frame].len \in Nat
    BY <2>1, <1>0, ArenaTyped
  <2> QED
    BY <2>1, <2>2, <2>3, <2>4, <1>0, ArenaTyped
<1>2. ASSUME NEW b \in Held, NEW c \in Held, b # c, block[b].frame = block[c].frame
      PROVE  \/ block[b].off + block[b].size <= block[c].off
             \/ block[c].off + block[c].size <= block[b].off
  <2>1. End(b) <= block[c].off \/ End(c) <= block[b].off
    BY <1>0, <1>2 DEF PairsOK
  <2>2. /\ End(b) \in Nat /\ block[b].off + block[b].size <= End(b)
        /\ End(c) \in Nat /\ block[c].off + block[c].size <= End(c)
    BY <1>0, EndTyped
  <2>3. /\ block[b].off \in Nat /\ block[b].size \in Nat
        /\ block[c].off \in Nat /\ block[c].size \in Nat
    BY <1>0, ArenaTyped
  <2> QED
    BY <2>1, <2>2, <2>3
<1>3. BlocksApart
  BY <1>1, <1>2, Zenon DEF BlocksApart, ArenaInv
<1>4. Reclaimed
  <2>1. scopes = <<>> => Inner = 0
    BY DEF Inner
  <2> QED
    BY <1>0, <2>1 DEF Reclaimed, ScopesOK, FramesOK
<1> QED
  BY <1>3, <1>4

LEMMA ArenaInitInv == ArenaInit => ArenaInv
<1> SUFFICES ASSUME ArenaInit PROVE ArenaInv
  OBVIOUS
<1>1. /\ Header \in Nat /\ Poison \in Nat /\ FrameSize \in Nat
      /\ FrameSize > Header + Poison
  BY UnitAssumption, FrameAssumption
<1>2. NewFrame(FrameSize) = [size |-> FrameSize, len |-> Header + Poison]
  BY <1>1, NewFrameFacts
<1>3. Held = {} /\ Top = 1 /\ Inner = 0
  BY DEF ArenaInit, Held, Top, Inner
<1>4. ArenaTypeOK
  <2>1. frames \in Seq(Frame)
    <3>1. NewFrame(FrameSize) \in Frame
      BY <1>1, <1>2 DEF Frame
    <3> QED
      BY <3>1 DEF ArenaInit
  <2>2. block \in [Blocks -> Block]
    BY DEF ArenaInit, NoBlock, Block
  <2>3. scopes \in Seq(Scope) /\ freed = FALSE /\ ~freed /\ refs = 1 /\ fate = "ok"
    BY DEF ArenaInit
  <2>4. Inner + 1 = 1
    BY <1>3
  <2>5. refs = (IF freed THEN Inner ELSE Inner + 1)
    BY <2>3, <2>4, Zenon
  <2> QED
    BY <2>1, <2>2, <2>3, <2>5, Zenon DEF ArenaTypeOK
<1>5. FramesOK /\ ScopesOK
  BY <1>1, <1>2, <1>3 DEF ArenaInit, FramesOK, ScopesOK
<1>6. BlocksOK /\ PairsOK
  BY <1>3 DEF BlocksOK, PairsOK
<1> QED
  BY <1>4, <1>5, <1>6 DEF ArenaInit, ArenaInv

LEMMA OneOf == ASSUME NEW n \in Nat, n > 0 PROVE 1 \in 1 .. n
OBVIOUS

\* The scopes keep their marks; their lists of cleanups may change.
SameMarks ==
  /\ scopes' \in Seq(Scope) /\ Inner' = Inner
  /\ \A s \in 1 .. Inner :
       /\ scopes'[s].frame = scopes[s].frame /\ scopes'[s].len = scopes[s].len
       /\ scopes'[s].id = scopes[s].id

LEMMA MarksInOrder ==
  ASSUME ScopesOK, SameMarks, NEW s \in 1 .. Inner', NEW t \in 1 .. Inner', s < t
  PROVE  \/ scopes'[s].frame < scopes'[t].frame
         \/ scopes'[s].frame = scopes'[t].frame /\ scopes'[s].len <= scopes'[t].len
<1>1. /\ scopes'[s].frame = scopes[s].frame /\ scopes'[s].len = scopes[s].len
      /\ scopes'[t].frame = scopes[t].frame /\ scopes'[t].len = scopes[t].len
      /\ s \in 1 .. Inner /\ t \in 1 .. Inner
  BY DEF SameMarks
<1>2. \/ scopes[s].frame < scopes[t].frame
      \/ scopes[s].frame = scopes[t].frame /\ scopes[s].len <= scopes[t].len
  BY <1>1, Zenon DEF ScopesOK
<1> QED
  BY <1>1, <1>2

LEMMA SameScopes ==
  ASSUME ArenaTypeOK, ScopesOK, SameMarks, UNCHANGED <<frames, freed>>
  PROVE  ScopesOK'
<1>1. Top' = Top
  BY DEF Top
<1>2. \A s \in 1 .. Inner' :
        /\ scopes'[s].id = s + 1 /\ scopes'[s].frame \in 1 .. Top'
        /\ Header <= scopes'[s].len
        /\ scopes'[s].len <= frames'[scopes'[s].frame].len
  BY <1>1 DEF ScopesOK, SameMarks
<1>3. ASSUME NEW s \in 1 .. Inner', NEW t \in 1 .. Inner', s < t
      PROVE  \/ scopes'[s].frame < scopes'[t].frame
             \/ scopes'[s].frame = scopes'[t].frame /\ scopes'[s].len <= scopes'[t].len
  BY <1>3, MarksInOrder
<1>4. ASSUME Inner' > 0
      PROVE  scopes'[1].frame = 1 /\ scopes'[1].len = Header + Poison
  <2>1. 1 \in 1 .. Inner
    <3>1. Inner \in Nat
      BY ArenaTyped
    <3>2. Inner > 0
      BY <1>4, Zenon DEF SameMarks
    <3> QED
      BY <3>1, <3>2, OneOf, Zenon
  <2>2. scopes[1].frame = 1 /\ scopes[1].len = Header + Poison
    BY <1>4 DEF ScopesOK, SameMarks
  <2> QED
    BY <2>1, <2>2 DEF SameMarks
<1>5. Inner' = 0 /\ ~freed' => frames' = <<NewFrame(FrameSize)>>
  BY DEF ScopesOK, SameMarks
<1> QED
  BY <1>2, <1>3, <1>4, <1>5 DEF ScopesOK

\* Neither the chain nor the blocks change.
LEMMA QuietStep ==
  ASSUME ArenaInv, SameMarks, UNCHANGED <<frames, refs, freed, block>>,
         fate' \in {"ok", "trap", "too large"}
  PROVE  ArenaInv'
<1>0. ArenaTypeOK /\ FramesOK /\ ScopesOK /\ BlocksOK /\ PairsOK
  BY DEF ArenaInv
<1>1. Held' = Held /\ Top' = Top /\ \A b : End(b)' = End(b)
  BY DEF Held, Top, End, Cut
<1>2. ArenaTypeOK'
  BY <1>0 DEF ArenaTypeOK, SameMarks
<1>3. FramesOK' /\ PairsOK'
  BY <1>0, <1>1 DEF FramesOK, PairsOK
<1>4. ScopesOK'
  BY <1>0, SameScopes
<1>5. BlocksOK'
  BY <1>0, <1>1 DEF BlocksOK, SameMarks
<1> QED
  BY <1>2, <1>3, <1>4, <1>5 DEF ArenaInv

\* A block is put at the end of the chain, behind all others of its frame.
LEMMA PlacedStep ==
  ASSUME ArenaInv, refs > 0, Inner > 0, NEW b \in Blocks,
         NEW f \in Nat \ {0}, NEW off \in Nat, NEW size \in Nat \ {0},
         frames' \in Seq(Frame), Top' = f, f = Top \/ f = Top + 1,
         \A g \in 1 .. Top :
           /\ frames'[g].size = frames[g].size
           /\ frames[g].len <= frames'[g].len /\ frames'[g].len <= frames'[g].size,
         off >= Header, off + size <= frames'[f].size,
         frames'[f].len = Cut(off + size, frames'[f].size),
         \A c \in Held : c # b /\ block[c].frame = f => End(c) <= off,
         block' = [block EXCEPT ![b] = [frame |-> f, off |-> off, size |-> size,
                                        scope |-> Inner]],
         SameMarks, UNCHANGED <<refs, freed, fate>>
  PROVE  ArenaInv'
<1>0. ArenaTypeOK /\ FramesOK /\ ScopesOK /\ BlocksOK /\ PairsOK /\ fate # "no room"
  BY DEF ArenaInv
<1>1. /\ Top \in Nat /\ Inner \in Nat /\ Header \in Nat
      /\ \A g \in 1 .. f : frames'[g].size \in Nat /\ frames'[g].len \in Nat
      /\ \A g \in 1 .. Top : g \in 1 .. f /\ frames[g].len \in Nat
  <2>1. \A g \in 1 .. f : frames'[g] \in Frame
    BY DEF Top
  <2>2. \A g \in 1 .. f : frames'[g].size \in Nat /\ frames'[g].len \in Nat
    BY <2>1 DEF Frame
  <2>3. Top \in Nat /\ \A g \in 1 .. Top : frames[g].len \in Nat
    BY <1>0, ArenaTyped
  <2>4. \A g \in 1 .. Top : g \in 1 .. f
    BY <2>3
  <2> QED
    BY <1>0, <2>2, <2>3, <2>4, ArenaTyped
<1>2. /\ block'[b] = [frame |-> f, off |-> off, size |-> size, scope |-> Inner]
      /\ \A c \in Blocks : c # b => block'[c] = block[c]
      /\ block' \in [Blocks -> Block]
  <2>1. [frame |-> f, off |-> off, size |-> size, scope |-> Inner] \in Block
    BY <1>1 DEF Block
  <2>2. block \in [Blocks -> Block]
    BY <1>0 DEF ArenaTypeOK
  <2> HIDE DEF Block
  <2> QED
    BY <2>1, <2>2
<1>3. /\ \A c \in Held' : c # b => c \in Held /\ block'[c] = block[c]
      /\ block'[b].frame = f /\ block'[b].off = off /\ block'[b].size = size
      /\ block'[b].scope = Inner
  BY <1>2 DEF Held
<1>4. ASSUME NEW c \in Held', c # b
      PROVE  /\ c \in Held /\ block'[c] = block[c] /\ block[c].frame \in 1 .. Top
             /\ End(c)' = End(c) /\ End(c) \in Nat
             /\ End(c) <= frames[block[c].frame].len
  <2>1. c \in Held /\ block'[c] = block[c]
    BY <1>3, <1>4
  <2>2. block[c].frame \in 1 .. Top /\ End(c) <= frames[block[c].frame].len
    BY <1>0, <2>1 DEF BlocksOK
  <2>3. End(c) \in Nat
    BY <1>0, <2>1, EndTyped
  <2>4. End(c)' = Cut(block'[c].off + block'[c].size, frames'[block'[c].frame].size)
    BY DEF End, Cut, AlignUp
  <2> QED
    BY <2>1, <2>2, <2>3, <2>4 DEF End
<1>5. /\ End(b)' = frames'[f].len
      /\ frames'[f].len >= off + size /\ frames'[f].len <= frames'[f].size
  <2>1. End(b)' = Cut(block'[b].off + block'[b].size, frames'[block'[b].frame].size)
    BY DEF End, Cut, AlignUp
  <2>2. f \in 1 .. f
    OBVIOUS
  <2>3. off + size \in Nat /\ frames'[f].size \in Nat
    BY <1>1, <2>2
  <2> QED
    BY <1>3, <2>1, <2>3, CutFacts
<1>6. ArenaTypeOK'
  BY <1>0, <1>2 DEF ArenaTypeOK, SameMarks
<1>7. FramesOK'
  <2>1. ASSUME NEW g \in 1 .. f PROVE frames'[g].len \in Header .. frames'[g].size
    <3>1. CASE g \in 1 .. Top
      <4>1. frames[g].len \in Header .. frames[g].size
        BY <1>0, <3>1 DEF FramesOK
      <4> QED
        BY <1>1, <3>1, <4>1
    <3>2. CASE g \notin 1 .. Top
      <4>1. g = f
        BY <1>1, <3>2
      <4> QED
        BY <1>1, <1>5, <4>1
    <3> QED
      BY <3>1, <3>2
  <2>2. Top > 0 /\ frames[1].size = FrameSize /\ 1 \in 1 .. Top
    <3>1. Top > 0 /\ frames[1].size = FrameSize
      BY <1>0 DEF FramesOK
    <3>2. Top \in Nat
      BY <1>1
    <3> QED
      BY <3>1, <3>2
  <2> QED
    BY <2>1, <2>2 DEF FramesOK
<1>8. ScopesOK'
  <2>1. ASSUME NEW s \in 1 .. Inner
        PROVE  /\ scopes[s].id = s + 1 /\ scopes[s].frame \in 1 .. Top
               /\ scopes[s].frame \in 1 .. f
               /\ Header <= scopes[s].len /\ scopes[s].len <= frames'[scopes[s].frame].len
    <3>1. /\ scopes[s].id = s + 1 /\ scopes[s].frame \in 1 .. Top
          /\ Header <= scopes[s].len /\ scopes[s].len <= frames[scopes[s].frame].len
      BY <1>0 DEF ScopesOK
    <3>2. scopes[s].len \in Nat
      BY <1>0, ArenaTyped
    <3> DEFINE g == scopes[s].frame
    <3>3. /\ g \in 1 .. f /\ frames[g].len \in Nat /\ frames'[g].len \in Nat
          /\ frames[g].len <= frames'[g].len
      BY <1>1, <3>1
    <3> QED
      BY <3>1, <3>2, <3>3
  <2>2. 1 \in 1 .. Inner
    BY <1>1
  <2>3. \A s \in 1 .. Inner' :
          /\ scopes'[s].id = s + 1 /\ scopes'[s].frame \in 1 .. Top'
          /\ Header <= scopes'[s].len /\ scopes'[s].len <= frames'[scopes'[s].frame].len
    BY <2>1 DEF SameMarks
  <2>4. ASSUME NEW s \in 1 .. Inner', NEW t \in 1 .. Inner', s < t
        PROVE  \/ scopes'[s].frame < scopes'[t].frame
               \/ scopes'[s].frame = scopes'[t].frame /\ scopes'[s].len <= scopes'[t].len
    BY <1>0, <2>4, MarksInOrder
  <2>5. scopes'[1].frame = 1 /\ scopes'[1].len = Header + Poison
    BY <1>0, <2>2 DEF ScopesOK, SameMarks
  <2>6. Inner' # 0
    BY <1>1 DEF SameMarks
  <2> QED
    BY <2>3, <2>4, <2>5, <2>6 DEF ScopesOK
<1>9. BlocksOK'
  <2>1. ASSUME NEW c \in Held', c # b
        PROVE  /\ block'[c].scope \in 1 .. Inner' /\ block'[c].frame \in 1 .. Top'
               /\ block'[c].off >= Header /\ block'[c].size > 0
               /\ block'[c].off + block'[c].size <= frames'[block'[c].frame].size
               /\ End(c)' <= frames'[block'[c].frame].len
               /\ \A t \in 1 .. Inner' : block'[c].scope < t =>
                    \/ block'[c].frame < scopes'[t].frame
                    \/ block'[c].frame = scopes'[t].frame /\ End(c)' <= scopes'[t].len
    <3>1. /\ c \in Held /\ block'[c] = block[c] /\ block[c].frame \in 1 .. Top
          /\ End(c)' = End(c) /\ End(c) \in Nat /\ End(c) <= frames[block[c].frame].len
      BY <1>4, <2>1
    <3>2. /\ block[c].scope \in 1 .. Inner
          /\ block[c].off >= Header /\ block[c].size > 0
          /\ block[c].off + block[c].size <= frames[block[c].frame].size
          /\ \A t \in 1 .. Inner : block[c].scope < t =>
                    \/ block[c].frame < scopes[t].frame
                    \/ block[c].frame = scopes[t].frame /\ End(c) <= scopes[t].len
      BY <1>0, <3>1 DEF BlocksOK
    <3>3. block'[c].frame \in 1 .. Top' /\ End(c)' <= frames'[block'[c].frame].len
      <4> DEFINE g == block[c].frame
      <4>1. /\ g \in 1 .. f /\ frames[g].len \in Nat /\ frames'[g].len \in Nat
            /\ frames[g].len <= frames'[g].len
        BY <1>1, <3>1
      <4> QED
        BY <3>1, <4>1
    <3> QED
      BY <3>1, <3>2, <3>3 DEF SameMarks
  <2>2. /\ block'[b].scope \in 1 .. Inner' /\ block'[b].frame \in 1 .. Top'
        /\ block'[b].off >= Header /\ block'[b].size > 0
        /\ block'[b].off + block'[b].size <= frames'[block'[b].frame].size
        /\ End(b)' <= frames'[block'[b].frame].len
        /\ \A t \in 1 .. Inner' : ~(block'[b].scope < t)
    BY <1>1, <1>3, <1>5 DEF SameMarks
  <2> QED
    BY <2>1, <2>2 DEF BlocksOK
<1>10. PairsOK'
  <2>1. ASSUME NEW c \in Held', NEW d \in Held', c # d, block'[c].frame = block'[d].frame
        PROVE  End(c)' <= block'[d].off \/ End(d)' <= block'[c].off
    <3>1. CASE c # b /\ d # b
      <4>1. /\ c \in Held /\ block'[c] = block[c] /\ End(c)' = End(c)
            /\ d \in Held /\ block'[d] = block[d] /\ End(d)' = End(d)
        BY <1>4, <3>1
      <4> QED
        BY <1>0, <2>1, <4>1 DEF PairsOK
    <3>2. CASE c = b
      <4>1. d # b /\ d \in Held /\ block'[d] = block[d] /\ End(d)' = End(d)
        BY <1>4, <2>1, <3>2
      <4> QED
        BY <1>3, <2>1, <3>2, <4>1
    <3>3. CASE d = b
      <4>1. c # b /\ c \in Held /\ block'[c] = block[c] /\ End(c)' = End(c)
        BY <1>4, <2>1, <3>3
      <4> QED
        BY <1>3, <2>1, <3>3, <4>1
    <3> QED
      BY <3>1, <3>2, <3>3
  <2> QED
    BY <2>1 DEF PairsOK
<1> QED
  BY <1>0, <1>6, <1>7, <1>8, <1>9, <1>10 DEF ArenaInv

\* What is given away already ends where the frame goes on.
LEMMA EndsBefore ==
  ASSUME ArenaInv, NEW c \in Held, block[c].frame = Top
  PROVE  End(c) <= frames[Top].len
BY DEF ArenaInv, BlocksOK

LEMMA MallocStep ==
  ASSUME ArenaInv, ArenaLive, Inner > 0, NEW b \in Blocks, NEW size \in Nat \ {0},
         Malloc(b, Inner, size), SameMarks, UNCHANGED <<refs, freed>>
  PROVE  ArenaInv'
<1>0. ArenaTypeOK /\ FramesOK /\ ScopesOK /\ BlocksOK /\ PairsOK
  BY DEF ArenaInv
<1>1. /\ Top \in Nat /\ Inner \in Nat /\ Header \in Nat /\ Poison \in Nat
      /\ frames \in Seq(Frame)
  BY <1>0, ArenaTyped DEF ArenaTypeOK
<1>2. refs = Inner + 1 /\ ~freed
  BY <1>0 DEF ArenaTypeOK, ArenaLive
<1>3. Top > 0
  BY <1>0, <1>1, <1>2 DEF FramesOK
<1>4. /\ frames[Top] \in Frame /\ frames[Top].size \in Nat /\ frames[Top].len \in Nat
      /\ frames[Top].len \in Header .. frames[Top].size
  <2>1. Top \in 1 .. Top
    BY <1>1, <1>3
  <2>2. frames[Top].len \in Header .. frames[Top].size
    BY <1>0, <2>1 DEF FramesOK
  <2> QED
    BY <1>0, <2>1, <2>2, ArenaTyped
<1>5. scopes[Inner].id = refs
  <2>1. Inner \in 1 .. Inner
    BY <1>1
  <2>2. scopes[Inner].id = Inner + 1
    BY <1>0, <2>1 DEF ScopesOK
  <2> QED
    BY <1>2, <2>2
<1>6. CASE Fits(frames[Top], size)
  <2>1. /\ frames' = [frames EXCEPT ![Top] = Push(@, size)]
        /\ block' = [block EXCEPT ![b] = [frame |-> Top, off |-> frames[Top].len,
                                          size |-> size, scope |-> Inner]]
        /\ UNCHANGED fate
    BY <1>5, <1>6 DEF Malloc, Top
  <2>2. frames[Top].len + size <= frames[Top].size
    BY <1>6 DEF Fits
  <2> DEFINE new == Push(frames[Top], size)
             old == frames[Top]
  <2>3. new \in Frame /\ new.size = old.size /\ new.len = Cut(old.len + size, old.size)
    BY <1>4, <2>2, PushFacts
  <2>4. new.len \in Nat /\ new.len >= old.len + size /\ new.len <= old.size
    <3> DEFINE n == old.len + size
               z == old.size
    <3>1. n \in Nat /\ z \in Nat /\ n <= z /\ new.len = Cut(n, z)
      BY <1>4, <2>2, <2>3
    <3> HIDE DEF n, z, new
    <3>2. Cut(n, z) \in Nat /\ Cut(n, z) >= n /\ Cut(n, z) <= z
      BY <3>1, CutFacts
    <3> QED
      BY <3>1, <3>2 DEF n, z
  <2> HIDE DEF new
  <2>5. /\ frames' \in Seq(Frame) /\ Len(frames') = Top
        /\ frames'[Top] = new /\ \A g \in 1 .. Top : g # Top => frames'[g] = frames[g]
    BY <1>1, <1>3, <2>1, <2>3 DEF new, Top
  <2>6. ASSUME NEW g \in 1 .. Top
        PROVE  /\ frames'[g].size = frames[g].size
               /\ frames[g].len <= frames'[g].len /\ frames'[g].len <= frames'[g].size
    <3>1. CASE g = Top
      BY <1>4, <2>3, <2>4, <2>5, <3>1
    <3>2. CASE g # Top
      <4>1. frames'[g] = frames[g] /\ frames[g].len \in Nat /\ frames[g].size \in Nat
        BY <1>0, <2>5, <3>2, ArenaTyped
      <4>2. frames[g].len \in Header .. frames[g].size
        BY <1>0 DEF FramesOK
      <4> QED
        BY <1>1, <4>1, <4>2
    <3> QED
      BY <3>1, <3>2
  <2>7. \A c \in Held : c # b /\ block[c].frame = Top => End(c) <= old.len
    BY EndsBefore
  <2>8. old.len >= Header /\ old.len + size <= frames'[Top].size
    BY <1>1, <1>4, <2>2, <2>3, <2>5
  <2>9. frames'[Top].len = Cut(old.len + size, frames'[Top].size)
    BY <2>3, <2>5
  <2>10. Top' = Top
    BY <2>5 DEF Top
  <2>11. refs > 0 /\ Top \in Nat \ {0} /\ old.len \in Nat
    BY <1>1, <1>2, <1>3, <1>4
  <2> DEFINE f == Top
             off == old.len
  <2>12. /\ refs > 0 /\ f \in Nat \ {0} /\ off \in Nat
         /\ frames' \in Seq(Frame) /\ Top' = f /\ (f = Top \/ f = Top + 1)
         /\ \A g \in 1 .. Top :
              /\ frames'[g].size = frames[g].size
              /\ frames[g].len <= frames'[g].len /\ frames'[g].len <= frames'[g].size
         /\ off >= Header /\ off + size <= frames'[f].size
         /\ frames'[f].len = Cut(off + size, frames'[f].size)
         /\ \A c \in Held : c # b /\ block[c].frame = f => End(c) <= off
         /\ block' = [block EXCEPT ![b] = [frame |-> f, off |-> off, size |-> size,
                                          scope |-> Inner]]
         /\ UNCHANGED fate
    BY <2>1, <2>5, <2>6, <2>7, <2>8, <2>9, <2>10, <2>11
  <2> HIDE DEF f, off, old
  <2> QED
    BY <2>12, PlacedStep
<1>7. CASE ~Fits(frames[Top], size) /\ FrameFor(size) = 0
  <2>1. fate' = "too large" /\ UNCHANGED <<frames, block>>
    BY <1>5, <1>7 DEF Malloc
  <2> QED
    BY <2>1, QuietStep
<1>8. CASE ~Fits(frames[Top], size) /\ FrameFor(size) # 0
  <2> DEFINE F == FrameFor(size)
             new == NewFrame(F)
             grown == Append(frames, new)
  <2>1. F \in Nat /\ F >= size + Header + Poison
    BY <1>1, <1>8, FirstRoomFits, FrameAssumption DEF FrameFor
  <2>2. new = [size |-> F, len |-> Header + Poison]
    BY <1>1, <2>1, NewFrameFacts
  <2>3. new \in Frame /\ new.size = F /\ new.len = Header + Poison
    BY <1>1, <2>1, <2>2 DEF Frame
  <2> HIDE DEF F, new
  <2>4. /\ grown \in Seq(Frame) /\ Len(grown) = Top + 1 /\ grown[Top + 1] = new
        /\ \A g \in 1 .. Top : grown[g] = frames[g]
    BY <1>1, <2>3 DEF Top
  <2>5. Fits(new, size)
    BY <1>1, <2>1, <2>3 DEF Fits
  <2>6. /\ frames' = [grown EXCEPT ![Top + 1] = Push(@, size)]
        /\ block' = [block EXCEPT ![b] = [frame |-> Top + 1, off |-> new.len,
                                          size |-> size, scope |-> Inner]]
        /\ UNCHANGED fate
    <3>1. grown = IF Fits(frames[Top], size) THEN frames
                  ELSE Append(frames, NewFrame(FrameFor(size)))
      BY <1>8 DEF new, F
    <3>2. Fits(grown[Len(grown)], size)
      BY <2>4, <2>5
    <3> HIDE DEF grown
    <3>3. /\ frames' = [grown EXCEPT ![Len(grown)] = Push(@, size)]
          /\ block' = [block EXCEPT ![b] = [frame |-> Len(grown), off |-> grown[Len(grown)].len,
                                            size |-> size, scope |-> Inner]]
          /\ UNCHANGED fate
      BY <1>5, <1>8, <3>1, <3>2 DEF Malloc
    <3> QED
      BY <2>4, <3>3
  <2>7. /\ Push(new, size) \in Frame /\ Push(new, size).size = F
        /\ Push(new, size).len = Cut(new.len + size, F)
    BY <1>1, <2>1, <2>3, PushFacts
  <2>8. /\ frames' \in Seq(Frame) /\ Len(frames') = Top + 1
        /\ frames'[Top + 1] = Push(new, size)
        /\ \A g \in 1 .. Top : frames'[g] = frames[g]
    <3> HIDE DEF grown
    <3> QED
      BY <1>1, <2>4, <2>6, <2>7
  <2>9. ASSUME NEW g \in 1 .. Top
        PROVE  /\ frames'[g].size = frames[g].size
               /\ frames[g].len <= frames'[g].len /\ frames'[g].len <= frames'[g].size
    <3>1. frames'[g] = frames[g] /\ frames[g].len \in Nat /\ frames[g].size \in Nat
      BY <1>0, <2>8, ArenaTyped
    <3>2. frames[g].len \in Header .. frames[g].size
      BY <1>0 DEF FramesOK
    <3> QED
      BY <1>1, <3>1, <3>2
  <2>10. \A c \in Held : c # b /\ block[c].frame = Top + 1 => End(c) <= new.len
    <3>1. ASSUME NEW c \in Held PROVE block[c].frame # Top + 1
      <4>1. block[c].frame \in 1 .. Top
        BY <1>0 DEF BlocksOK
      <4> QED
        BY <1>1, <4>1
    <3> QED
      BY <3>1
  <2>11. /\ new.len >= Header /\ new.len \in Nat /\ new.len + size <= frames'[Top + 1].size
         /\ frames'[Top + 1].len = Cut(new.len + size, frames'[Top + 1].size)
    BY <1>1, <2>1, <2>3, <2>7, <2>8
  <2> DEFINE f == Top + 1
             off == new.len
  <2>12. f \in Nat \ {0} /\ refs > 0
    BY <1>1, <1>2
  <2>13. Top' = f
    BY <2>8 DEF Top
  <2>14. /\ refs > 0 /\ f \in Nat \ {0} /\ off \in Nat
         /\ frames' \in Seq(Frame) /\ Top' = f /\ (f = Top \/ f = Top + 1)
         /\ \A g \in 1 .. Top :
              /\ frames'[g].size = frames[g].size
              /\ frames[g].len <= frames'[g].len /\ frames'[g].len <= frames'[g].size
         /\ off >= Header /\ off + size <= frames'[f].size
         /\ frames'[f].len = Cut(off + size, frames'[f].size)
         /\ \A c \in Held : c # b /\ block[c].frame = f => End(c) <= off
         /\ block' = [block EXCEPT ![b] = [frame |-> f, off |-> off, size |-> size,
                                          scope |-> Inner]]
         /\ UNCHANGED fate
    BY <2>6, <2>8, <2>9, <2>10, <2>11, <2>12, <2>13
  <2> HIDE DEF f, off
  <2> QED
    BY <2>14, PlacedStep
<1> QED
  BY <1>6, <1>7, <1>8

LEMMA EnterStep == ASSUME ArenaInv, Enter PROVE ArenaInv'
<1>0. ArenaTypeOK /\ FramesOK /\ ScopesOK /\ BlocksOK /\ PairsOK /\ fate # "no room"
  BY DEF ArenaInv
<1>1. /\ Top \in Nat /\ Inner \in Nat /\ Header \in Nat
      /\ scopes \in Seq(Scope)
  BY <1>0, ArenaTyped DEF ArenaTypeOK
<1>2. refs = Inner + 1 /\ ~freed /\ refs' = refs + 1
      /\ UNCHANGED <<frames, freed, block, fate>>
  BY <1>0 DEF ArenaTypeOK, ArenaLive, Enter
<1>3. Top > 0 /\ Top \in 1 .. Top
  <2>1. refs > 0
    BY <1>1, <1>2
  <2>2. Top > 0
    BY <1>0, <2>1 DEF FramesOK
  <2> QED
    BY <1>1, <2>2
<1> DEFINE new == [frame |-> Top, len |-> frames[Top].len, id |-> refs + 1,
                   cleanup |-> <<>>]
<1>4. frames[Top].len \in Nat /\ frames[Top].len \in Header .. frames[Top].size
  BY <1>0, <1>3, ArenaTyped DEF FramesOK
<1>5. /\ new \in Scope /\ new.frame = Top /\ new.len = frames[Top].len
      /\ new.id = Inner + 2
  BY <1>1, <1>2, <1>4 DEF Scope
<1>6. scopes' = Append(scopes, new)
  BY DEF Enter
<1> HIDE DEF new
<1>7. /\ scopes' \in Seq(Scope) /\ Len(scopes') = Inner + 1
      /\ scopes'[Inner + 1] = new
      /\ \A s \in 1 .. Inner : scopes'[s] = scopes[s]
  BY <1>1, <1>5, <1>6 DEF Inner
<1>8. Inner' = Inner + 1
  BY <1>7 DEF Inner
<1>9. Top' = Top /\ Held' = Held /\ \A b : End(b)' = End(b)
  BY <1>2 DEF Top, Held, End, Cut
<1>10. ArenaTypeOK'
  <2>1. refs' = Inner' + 1 /\ ~freed'
    BY <1>1, <1>2, <1>8
  <2>2. refs' = IF freed' THEN Inner' ELSE Inner' + 1
    BY <2>1, Zenon
  <2> QED
    BY <1>0, <1>2, <1>7, <2>2 DEF ArenaTypeOK
<1>11. FramesOK' /\ PairsOK'
  <2>1. refs > 0 /\ refs' > 0 /\ refs' # 0
    BY <1>1, <1>2
  <2>2. FramesOK'
    BY <1>0, <1>2, <1>9, <2>1 DEF FramesOK
  <2>3. PairsOK'
    BY <1>0, <1>2, <1>9 DEF PairsOK
  <2> QED
    BY <2>2, <2>3
<1>12. \A s \in 1 .. Inner' : s \in 1 .. Inner \/ s = Inner + 1
  BY <1>1, <1>8
<1>13. ScopesOK'
  <2>1. ASSUME NEW s \in 1 .. Inner'
        PROVE  /\ scopes'[s].id = s + 1 /\ scopes'[s].frame \in 1 .. Top
               /\ Header <= scopes'[s].len /\ scopes'[s].len <= frames[scopes'[s].frame].len
    <3>1. CASE s \in 1 .. Inner
      BY <1>0, <1>7, <3>1 DEF ScopesOK
    <3>2. CASE s = Inner + 1
      BY <1>1, <1>3, <1>4, <1>5, <1>7, <3>2
    <3> QED
      BY <1>12, <3>1, <3>2
  <2>2. ASSUME NEW s \in 1 .. Inner', NEW t \in 1 .. Inner', s < t
        PROVE  \/ scopes'[s].frame < scopes'[t].frame
               \/ scopes'[s].frame = scopes'[t].frame /\ scopes'[s].len <= scopes'[t].len
    <3>1. s \in 1 .. Inner
      BY <1>1, <1>8, <2>2
    <3>2. CASE t \in 1 .. Inner
      <4>1. scopes'[s] = scopes[s] /\ scopes'[t] = scopes[t]
        BY <1>7, <3>1, <3>2
      <4> QED
        BY <1>0, <2>2, <3>1, <3>2, <4>1, Zenon DEF ScopesOK
    <3>3. CASE t = Inner + 1
      <4>1. scopes'[s] = scopes[s] /\ scopes'[t] = new
        BY <1>7, <3>1, <3>3
      <4>2. /\ scopes[s].frame \in 1 .. Top
            /\ scopes[s].len <= frames[scopes[s].frame].len
        BY <1>0, <3>1 DEF ScopesOK
      <4> QED
        BY <1>1, <1>5, <4>1, <4>2
    <3> QED
      BY <1>12, <3>2, <3>3
  <2>3. scopes'[1].frame = 1 /\ scopes'[1].len = Header + Poison
    <3>1. CASE Inner > 0
      <4>1. 1 \in 1 .. Inner
        BY <1>1, <3>1
      <4> QED
        BY <1>0, <1>7, <3>1, <4>1 DEF ScopesOK
    <3>2. CASE ~(Inner > 0)
      <4>1. Inner = 0 /\ Inner + 1 = 1
        BY <1>1, <3>2
      <4>2. frames = <<NewFrame(FrameSize)>>
        BY <1>0, <1>2, <4>1 DEF ScopesOK
      <4>3. NewFrame(FrameSize) = [size |-> FrameSize, len |-> Header + Poison]
        BY FrameAssumption, UnitAssumption, NewFrameFacts
      <4>4. Top = 1 /\ frames[Top].len = Header + Poison
        BY <4>2, <4>3 DEF Top
      <4>5. scopes'[1] = new
        BY <1>7, <4>1
      <4> QED
        BY <1>5, <4>4, <4>5
    <3> QED
      BY <3>1, <3>2
  <2>4. Inner' # 0
    BY <1>1, <1>8
  <2> QED
    BY <1>2, <1>9, <2>1, <2>2, <2>3, <2>4 DEF ScopesOK
<1>14. BlocksOK'
  <2>1. ASSUME NEW b \in Held
        PROVE  /\ block[b].scope \in 1 .. Inner' /\ block[b].frame \in 1 .. Top
               /\ block[b].off >= Header /\ block[b].size > 0
               /\ block[b].off + block[b].size <= frames[block[b].frame].size
               /\ End(b) <= frames[block[b].frame].len
               /\ \A t \in 1 .. Inner' : block[b].scope < t =>
                    \/ block[b].frame < scopes'[t].frame
                    \/ block[b].frame = scopes'[t].frame /\ End(b) <= scopes'[t].len
    <3>1. /\ block[b].scope \in 1 .. Inner /\ block[b].frame \in 1 .. Top
          /\ block[b].off >= Header /\ block[b].size > 0
          /\ block[b].off + block[b].size <= frames[block[b].frame].size
          /\ End(b) <= frames[block[b].frame].len
      BY <1>0 DEF BlocksOK
    <3>2. ASSUME NEW t \in 1 .. Inner', block[b].scope < t
          PROVE  \/ block[b].frame < scopes'[t].frame
                 \/ block[b].frame = scopes'[t].frame /\ End(b) <= scopes'[t].len
      <4>1. CASE t \in 1 .. Inner
        <5>1. scopes'[t] = scopes[t]
          BY <1>7, <4>1
        <5> QED
          BY <1>0, <3>2, <4>1, <5>1, Zenon DEF BlocksOK
      <4>2. CASE t = Inner + 1
        <5>1. scopes'[t] = new
          BY <1>7, <4>2
        <5> QED
          BY <1>1, <1>5, <3>1, <5>1
      <4> QED
        BY <1>12, <4>1, <4>2
    <3> QED
      BY <1>1, <1>8, <3>1, <3>2
  <2> QED
    BY <1>2, <1>9, <2>1 DEF BlocksOK
<1> QED
  BY <1>0, <1>2, <1>10, <1>11, <1>13, <1>14 DEF ArenaInv

LEMMA FreeStep == ASSUME ArenaInv, Free PROVE ArenaInv'
<1>0. ArenaTypeOK /\ FramesOK /\ ScopesOK /\ BlocksOK /\ PairsOK /\ fate # "no room"
  BY DEF ArenaInv
<1>1. Top \in Nat /\ Inner \in Nat /\ frames \in Seq(Frame)
  BY <1>0, ArenaTyped DEF ArenaTypeOK
<1>2. /\ refs = Inner + 1 /\ freed' /\ freed' = TRUE /\ refs' = refs - 1
      /\ UNCHANGED <<scopes, block, fate>>
  BY <1>0 DEF ArenaTypeOK, ArenaLive, Free
<1>3. Inner' = Inner /\ Held' = Held
  BY <1>2 DEF Inner, Held
<1>4. refs' = Inner
  BY <1>1, <1>2
<1>5. refs' = IF freed' THEN Inner' ELSE Inner' + 1
  BY <1>2, <1>3, <1>4, Zenon
<1>6. CASE Inner > 0
  <2>1. frames' = frames
    BY <1>1, <1>2, <1>6 DEF Free
  <2>2. Top' = Top /\ \A b : End(b)' = End(b)
    BY <1>2, <2>1 DEF Top, End, Cut
  <2>3. ArenaTypeOK'
    BY <1>0, <1>2, <1>5, <2>1 DEF ArenaTypeOK
  <2>4. FramesOK'
    <3>1. refs > 0 /\ refs' > 0 /\ refs' # 0
      BY <1>1, <1>2, <1>4, <1>6
    <3> QED
      BY <1>0, <2>1, <2>2, <3>1 DEF FramesOK
  <2>5. ScopesOK' /\ BlocksOK' /\ PairsOK'
    <3>1. ScopesOK'
      BY <1>0, <1>2, <1>3, <2>1, <2>2 DEF ScopesOK
    <3>2. BlocksOK'
      BY <1>0, <1>2, <1>3, <2>1, <2>2 DEF BlocksOK
    <3>3. PairsOK'
      BY <1>0, <1>2, <1>3, <2>1, <2>2 DEF PairsOK
    <3> QED
      BY <3>1, <3>2, <3>3
  <2> QED
    BY <1>0, <1>2, <2>3, <2>4, <2>5 DEF ArenaInv
<1>7. CASE ~(Inner > 0)
  <2>1. Inner = 0 /\ frames' = <<>> /\ refs' = 0
    BY <1>1, <1>2, <1>7 DEF Free
  <2>2. Top' = 0
    BY <2>1 DEF Top
  <2>3. Held = {}
    <3>1. ASSUME NEW b \in Held PROVE FALSE
      <4>1. block[b].scope \in 1 .. Inner
        BY <1>0 DEF BlocksOK
      <4> QED
        BY <2>1, <4>1
    <3> QED
      BY <3>1
  <2>4. frames' \in Seq(Frame)
    BY <2>1
  <2>5. ArenaTypeOK'
    BY <1>0, <1>2, <1>5, <2>4 DEF ArenaTypeOK
  <2>6. FramesOK'
    BY <2>1, <2>2 DEF FramesOK
  <2>7. ScopesOK' /\ BlocksOK' /\ PairsOK'
    BY <1>2, <1>3, <2>1, <2>3 DEF ScopesOK, BlocksOK, PairsOK
  <2> QED
    BY <1>0, <1>2, <2>5, <2>6, <2>7 DEF ArenaInv
<1> QED
  BY <1>6, <1>7

LEMMA LeaveStep == ASSUME ArenaInv, Leave PROVE ArenaInv'
<1>0. ArenaTypeOK /\ FramesOK /\ ScopesOK /\ BlocksOK /\ PairsOK /\ fate # "no room"
  BY DEF ArenaInv
<1>1. /\ Top \in Nat /\ Inner \in Nat /\ Header \in Nat
      /\ frames \in Seq(Frame) /\ scopes \in Seq(Scope)
  BY <1>0, ArenaTyped DEF ArenaTypeOK
<1>2. /\ Inner > 0 /\ Inner \in 1 .. Inner
      /\ refs' = refs - 1 /\ UNCHANGED <<freed, fate>>
  BY <1>1 DEF Leave
<1>3. /\ scopes' \in Seq(Scope) /\ Len(scopes') = Inner - 1
      /\ \A t \in 1 .. Inner - 1 : scopes'[t] = scopes[t]
  <2>1. scopes' = SubSeq(scopes, 1, Inner - 1)
    BY DEF Leave
  <2>2. Inner - 1 \in 0 .. Len(scopes)
    BY <1>1, <1>2 DEF Inner
  <2> QED
    BY <1>1, <2>1, <2>2
<1>4. Inner' = Inner - 1
  BY <1>3 DEF Inner
<1>5. freed \in BOOLEAN /\ refs = IF freed THEN Inner ELSE Inner + 1
  BY <1>0 DEF ArenaTypeOK
<1>6. freed' \in BOOLEAN /\ refs' = (IF freed' THEN Inner' ELSE Inner' + 1)
  <2>1. CASE freed
    BY <1>1, <1>2, <1>4, <1>5, <2>1
  <2>2. CASE ~freed
    BY <1>1, <1>2, <1>4, <1>5, <2>2
  <2> QED
    BY <2>1, <2>2
<1>7. /\ block' \in [Blocks -> Block]
      /\ \A c \in Held' : c \in Held /\ block'[c] = block[c] /\ block[c].scope # Inner
  <2>1. block' = [c \in Blocks |-> IF block[c].scope = Inner THEN NoBlock ELSE block[c]]
    BY DEF Leave
  <2>2. NoBlock \in Block
    BY DEF NoBlock, Block
  <2>3. block \in [Blocks -> Block]
    BY <1>0 DEF ArenaTypeOK
  <2> QED
    BY <2>1, <2>2, <2>3 DEF Held
<1>8. CASE refs = 1
  <2>1. Inner = 1 /\ freed
    BY <1>1, <1>2, <1>5, <1>8
  <2>2. frames' = <<>>
    BY <1>8 DEF Leave
  <2>3. Top' = 0 /\ frames' \in Seq(Frame)
    BY <2>2 DEF Top
  <2>4. Inner' = 0 /\ refs' = 0 /\ freed'
    BY <1>2, <1>4, <1>8, <2>1
  <2>5. Held' = {}
    <3>1. ASSUME NEW c \in Held' PROVE FALSE
      <4>1. c \in Held /\ block[c].scope # Inner
        BY <1>7
      <4>2. block[c].scope \in 1 .. Inner
        BY <1>0, <4>1 DEF BlocksOK
      <4> QED
        BY <2>1, <4>1, <4>2
    <3> QED
      BY <3>1
  <2>6. ArenaTypeOK'
    BY <1>0, <1>2, <1>3, <1>6, <1>7, <2>3 DEF ArenaTypeOK
  <2>7. FramesOK' /\ ScopesOK'
    BY <2>2, <2>3, <2>4 DEF FramesOK, ScopesOK
  <2>8. BlocksOK' /\ PairsOK'
    BY <2>5 DEF BlocksOK, PairsOK
  <2> QED
    BY <1>0, <1>2, <2>6, <2>7, <2>8 DEF ArenaInv
<1>9. CASE refs # 1
  <2> DEFINE m == scopes[Inner].frame
             mark == scopes[Inner].len
             kept == SubSeq(frames, 1, m)
  <2>1. /\ m \in 1 .. Top /\ mark \in Nat /\ Header <= mark /\ mark <= frames[m].len
        /\ frames[m] \in Frame /\ frames[m].size \in Nat /\ frames[m].len \in Nat
    <3>1. m \in 1 .. Top /\ Header <= mark /\ mark <= frames[m].len
      BY <1>0, <1>2 DEF ScopesOK
    <3> QED
      BY <1>0, <1>2, <3>1, ArenaTyped
  <2>2. frames' = IF kept = <<>> THEN kept
                  ELSE [kept EXCEPT ![m].len = IF mark <= @ THEN mark ELSE 0]
    BY <1>9 DEF Leave
  <2> HIDE DEF m, mark
  <2>3. /\ kept \in Seq(Frame) /\ Len(kept) = m /\ kept # <<>>
        /\ \A g \in 1 .. m : kept[g] = frames[g]
    BY <1>1, <2>1 DEF Top
  <2> HIDE DEF kept
  <2> DEFINE new == [frames[m] EXCEPT !.len = mark]
  <2>4. new \in Frame /\ new.size = frames[m].size /\ new.len = mark
    BY <2>1 DEF Frame
  <2> HIDE DEF new
  <2>5. m \in 1 .. m /\ kept[m] = frames[m]
    BY <2>1, <2>3
  <2>6. frames' = [kept EXCEPT ![m] = new]
    <3>1. kept[m].len = frames[m].len /\ mark <= kept[m].len
      BY <2>1, <2>5
    <3>2. frames' = [kept EXCEPT ![m].len = IF mark <= kept[m].len THEN mark ELSE 0]
      BY <2>2, <2>3, Zenon
    <3>3. frames' = [kept EXCEPT ![m].len = mark]
      BY <3>1, <3>2
    <3>4. [kept EXCEPT ![m].len = mark] = [kept EXCEPT ![m] = [kept[m] EXCEPT !.len = mark]]
      BY <2>3, <2>5
    <3> QED
      BY <2>5, <3>3, <3>4 DEF new
  <2>7. /\ frames' \in Seq(Frame) /\ Len(frames') = m /\ frames'[m] = new
        /\ \A g \in 1 .. m : g # m => frames'[g] = frames[g]
    BY <2>3, <2>4, <2>5, <2>6
  <2>8. Top' = m
    BY <2>7 DEF Top
  <2>9. /\ \A g \in 1 .. m : frames'[g].size = frames[g].size /\ g \in 1 .. Top
        /\ \A g \in 1 .. m : g # m => frames'[g].len = frames[g].len
        /\ frames'[m].len = mark
    BY <1>1, <2>1, <2>4, <2>7
  <2>10. refs > 0 /\ refs' > 0 /\ refs' # 0
    BY <1>1, <1>2, <1>5, <1>9
  <2>11. ArenaTypeOK'
    BY <1>0, <1>2, <1>3, <1>6, <1>7, <2>7 DEF ArenaTypeOK
  <2>12. FramesOK'
    <3>1. ASSUME NEW g \in 1 .. m PROVE frames'[g].len \in Header .. frames'[g].size
      <4>1. frames[g].len \in Header .. frames[g].size
        BY <1>0, <2>9 DEF FramesOK
      <4>2. CASE g # m
        BY <2>9, <4>1, <4>2
      <4>3. CASE g = m
        BY <1>1, <2>1, <2>9, <4>1, <4>3
      <4> QED
        BY <4>2, <4>3
    <3>2. 1 \in 1 .. m /\ m > 0
      BY <2>1
    <3>3. frames'[1].size = FrameSize
      BY <1>0, <2>9, <2>10, <3>2 DEF FramesOK
    <3> QED
      BY <2>8, <2>10, <3>1, <3>2, <3>3 DEF FramesOK
  <2>13. \A t \in 1 .. Inner - 1 : t \in 1 .. Inner /\ t < Inner
    BY <1>1
  <2>14. ScopesOK'
    <3>1. ASSUME NEW t \in 1 .. Inner - 1
          PROVE  /\ scopes'[t].id = t + 1 /\ scopes'[t].frame \in 1 .. m
                 /\ Header <= scopes'[t].len
                 /\ scopes'[t].len <= frames'[scopes'[t].frame].len
      <4>1. /\ scopes[t].id = t + 1 /\ scopes[t].frame \in 1 .. Top
            /\ Header <= scopes[t].len /\ scopes[t].len <= frames[scopes[t].frame].len
        BY <1>0, <2>13 DEF ScopesOK
      <4>2. \/ scopes[t].frame < m
            \/ scopes[t].frame = m /\ scopes[t].len <= mark
        BY <1>0, <1>2, <2>13, Zenon DEF ScopesOK, m, mark
      <4>3. scopes[t].frame \in 1 .. m
        BY <2>1, <4>1, <4>2
      <4>4. scopes[t].len <= frames'[scopes[t].frame].len
        <5>1. CASE scopes[t].frame < m
          <6>1. scopes[t].frame # m
            BY <2>1, <4>1, <5>1
          <6> QED
            BY <2>9, <4>1, <4>3, <6>1
        <5>2. CASE scopes[t].frame = m /\ scopes[t].len <= mark
          BY <2>9, <5>2
        <5> QED
          BY <4>2, <5>1, <5>2
      <4>5. scopes'[t] = scopes[t]
        BY <1>3
      <4> QED
        BY <4>1, <4>3, <4>4, <4>5
    <3>2. ASSUME NEW s \in 1 .. Inner - 1, NEW t \in 1 .. Inner - 1, s < t
          PROVE  \/ scopes'[s].frame < scopes'[t].frame
                 \/ scopes'[s].frame = scopes'[t].frame /\ scopes'[s].len <= scopes'[t].len
      <4>1. scopes'[s] = scopes[s] /\ scopes'[t] = scopes[t]
        BY <1>3
      <4> QED
        BY <1>0, <2>13, <3>2, <4>1, Zenon DEF ScopesOK
    <3>3. ASSUME Inner - 1 > 0
          PROVE  scopes'[1].frame = 1 /\ scopes'[1].len = Header + Poison
      <4>1. 1 \in 1 .. Inner - 1
        BY <1>1, <3>3
      <4>2. scopes'[1] = scopes[1]
        BY <1>3, <4>1
      <4> QED
        BY <1>0, <1>2, <4>2 DEF ScopesOK
    <3>4. ASSUME Inner - 1 = 0 PROVE frames' = <<NewFrame(FrameSize)>>
      <4>1. Inner = 1
        BY <1>1, <3>4
      <4>2. m = 1 /\ mark = Header + Poison
        BY <1>0, <1>2, <4>1 DEF ScopesOK, m, mark
      <4>3. frames[1].size = FrameSize /\ frames[1] \in Frame
        BY <1>0, <2>1, <2>10, <4>2 DEF FramesOK
      <4>4. NewFrame(FrameSize) = [size |-> FrameSize, len |-> Header + Poison]
        BY FrameAssumption, UnitAssumption, NewFrameFacts
      <4>5. new = [size |-> FrameSize, len |-> Header + Poison]
        BY <4>2, <4>3 DEF new, Frame
      <4>6. Len(frames') = 1 /\ frames'[1] = NewFrame(FrameSize)
        BY <2>7, <4>2, <4>4, <4>5
      <4> QED
        BY <2>7, <4>6
    <3> QED
      BY <1>4, <2>8, <3>1, <3>2, <3>3, <3>4 DEF ScopesOK
  <2>15. ASSUME NEW c \in Held'
         PROVE  /\ c \in Held /\ block'[c] = block[c] /\ End(c)' = End(c)
                /\ block[c].scope \in 1 .. Inner - 1 /\ block[c].frame \in 1 .. m
                /\ End(c) <= frames'[block[c].frame].len
    <3>1. c \in Held /\ block'[c] = block[c] /\ block[c].scope # Inner
      BY <1>7
    <3>2. /\ block[c].scope \in 1 .. Inner /\ block[c].frame \in 1 .. Top
          /\ End(c) <= frames[block[c].frame].len
      BY <1>0, <3>1 DEF BlocksOK
    <3>3. block[c].scope \in 1 .. Inner - 1 /\ block[c].scope < Inner
      BY <1>1, <3>1, <3>2
    <3>4. \/ block[c].frame < m
          \/ block[c].frame = m /\ End(c) <= mark
      BY <1>0, <1>2, <3>1, <3>3, Zenon DEF BlocksOK, m, mark
    <3>5. block[c].frame \in 1 .. m
      BY <2>1, <3>2, <3>4
    <3>6. End(c) <= frames'[block[c].frame].len
      <4>1. CASE block[c].frame < m
        <5>1. block[c].frame # m
          BY <2>1, <3>2, <4>1
        <5> QED
          BY <2>9, <3>2, <3>5, <5>1
      <4>2. CASE block[c].frame = m /\ End(c) <= mark
        BY <2>9, <4>2
      <4> QED
        BY <3>4, <4>1, <4>2
    <3>7. End(c)' = Cut(block'[c].off + block'[c].size, frames'[block'[c].frame].size)
      BY DEF End, Cut, AlignUp
    <3>8. End(c)' = End(c)
      BY <2>9, <3>1, <3>5, <3>7 DEF End
    <3> QED
      BY <3>1, <3>3, <3>5, <3>6, <3>8
  <2>16. BlocksOK'
    <3>1. ASSUME NEW c \in Held'
          PROVE  /\ block'[c].scope \in 1 .. Inner - 1 /\ block'[c].frame \in 1 .. m
                 /\ block'[c].off >= Header /\ block'[c].size > 0
                 /\ block'[c].off + block'[c].size <= frames'[block'[c].frame].size
                 /\ End(c)' <= frames'[block'[c].frame].len
                 /\ \A t \in 1 .. Inner - 1 : block'[c].scope < t =>
                      \/ block'[c].frame < scopes'[t].frame
                      \/ block'[c].frame = scopes'[t].frame /\ End(c)' <= scopes'[t].len
      <4>1. /\ c \in Held /\ block'[c] = block[c] /\ End(c)' = End(c)
            /\ block[c].scope \in 1 .. Inner - 1 /\ block[c].frame \in 1 .. m
            /\ End(c) <= frames'[block[c].frame].len
        BY <2>15
      <4>2. /\ block[c].off >= Header /\ block[c].size > 0
            /\ block[c].off + block[c].size <= frames[block[c].frame].size
        BY <1>0, <4>1 DEF BlocksOK
      <4>3. ASSUME NEW t \in 1 .. Inner - 1, block[c].scope < t
            PROVE  \/ block[c].frame < scopes'[t].frame
                   \/ block[c].frame = scopes'[t].frame /\ End(c) <= scopes'[t].len
        <5>1. scopes'[t] = scopes[t]
          BY <1>3
        <5> QED
          BY <1>0, <2>13, <4>1, <4>3, <5>1, Zenon DEF BlocksOK
      <4>4. frames'[block[c].frame].size = frames[block[c].frame].size
        BY <2>9, <4>1
      <4> QED
        BY <4>1, <4>2, <4>3, <4>4
    <3> QED
      BY <1>4, <2>8, <3>1 DEF BlocksOK
  <2>17. PairsOK'
    <3>1. ASSUME NEW c \in Held', NEW d \in Held', c # d, block'[c].frame = block'[d].frame
          PROVE  End(c)' <= block'[d].off \/ End(d)' <= block'[c].off
      <4>1. /\ c \in Held /\ block'[c] = block[c] /\ End(c)' = End(c)
            /\ d \in Held /\ block'[d] = block[d] /\ End(d)' = End(d)
        BY <2>15
      <4> QED
        BY <1>0, <3>1, <4>1 DEF PairsOK
    <3> QED
      BY <3>1 DEF PairsOK
  <2> QED
    BY <1>0, <1>2, <2>11, <2>12, <2>14, <2>16, <2>17 DEF ArenaInv
<1> QED
  BY <1>8, <1>9

\* A block shrinks, and leaves a gap behind it.
LEMMA ShrinkStep ==
  ASSUME ArenaInv, NEW b \in Held, NEW size \in Nat \ {0}, size <= block[b].size,
         block' = [block EXCEPT ![b].size = size],
         UNCHANGED <<frames, refs, freed, scopes, fate>>
  PROVE  ArenaInv'
<1>0. ArenaTypeOK /\ FramesOK /\ ScopesOK /\ BlocksOK /\ PairsOK /\ fate # "no room"
  BY DEF ArenaInv
<1>1. /\ b \in Blocks /\ block[b].off \in Nat /\ block[b].size \in Nat
      /\ block \in [Blocks -> Block] /\ block[b] \in Block
  BY <1>0, ArenaTyped DEF ArenaTypeOK
<1>2. /\ block' \in [Blocks -> Block]
      /\ \A c \in Blocks : c # b => block'[c] = block[c]
      /\ block'[b].frame = block[b].frame /\ block'[b].off = block[b].off
      /\ block'[b].size = size /\ block'[b].scope = block[b].scope
  <2> DEFINE new == [block[b] EXCEPT !.size = size]
  <2>1. /\ new \in Block /\ new.frame = block[b].frame /\ new.off = block[b].off
        /\ new.size = size /\ new.scope = block[b].scope
    BY <1>1 DEF Block
  <2>2. block' = [block EXCEPT ![b] = new]
    BY <1>1
  <2> HIDE DEF new
  <2> QED
    BY <1>1, <2>1, <2>2
<1>3. \A c \in Held' : c \in Held /\ (c # b => block'[c] = block[c])
  BY <1>2 DEF Held
<1>4. Top' = Top /\ Inner' = Inner
  BY DEF Top, Inner
<1>5. ASSUME NEW c \in Held'
      PROVE  /\ c \in Held /\ End(c) \in Nat /\ End(c)' \in Nat /\ End(c)' <= End(c)
             /\ block'[c].frame = block[c].frame /\ block'[c].off = block[c].off
             /\ block'[c].scope = block[c].scope
             /\ block'[c].size \in Nat /\ block'[c].size > 0
             /\ block'[c].size <= block[c].size
  <2>1. End(c)' = Cut(block'[c].off + block'[c].size, frames[block'[c].frame].size)
    BY DEF End, Cut, AlignUp
  <2>2. c \in Held /\ End(c) \in Nat
    BY <1>0, <1>3, EndTyped
  <2>3. block[c].off \in Nat /\ block[c].size \in Nat
    BY <1>0, <2>2, ArenaTyped
  <2>4. /\ block[c].frame \in 1 .. Top /\ block[c].size > 0
        /\ block[c].off + block[c].size <= frames[block[c].frame].size
    BY <1>0, <2>2 DEF BlocksOK
  <2>5. CASE c # b
    <3>1. block'[c] = block[c]
      BY <1>3, <2>5
    <3>2. End(c)' = End(c)
      BY <2>1, <3>1 DEF End
    <3> QED
      BY <2>2, <2>3, <2>4, <3>1, <3>2
  <2>6. CASE c = b
    <3> DEFINE n == block[b].off + block[b].size
               k == block[b].off + size
               z == frames[block[b].frame].size
    <3>1. n \in Nat /\ k \in Nat /\ z \in Nat /\ k <= n /\ n <= z
      <4>1. z \in Nat
        BY <1>0, <2>4, <2>6, ArenaTyped
      <4> QED
        BY <1>1, <2>4, <2>6, <4>1
    <3>2. End(b) = Cut(n, z) /\ End(b)' = Cut(k, z)
      BY <1>2, <2>1, <2>6 DEF End
    <3> HIDE DEF n, k, z
    <3>3. k <= z
      BY <3>1
    <3>4. Cut(k, z) \in Nat /\ Cut(k, z) <= Cut(n, z)
      BY <3>1, <3>3, CutFacts
    <3> QED
      BY <1>2, <2>2, <2>6, <3>2, <3>4
  <2> QED
    BY <2>5, <2>6
<1>6. ArenaTypeOK'
  BY <1>0, <1>2, <1>4 DEF ArenaTypeOK
<1>7. FramesOK' /\ ScopesOK'
  <2>1. FramesOK'
    BY <1>0, <1>4 DEF FramesOK
  <2>2. SameMarks
    BY <1>0, <1>4 DEF SameMarks, ArenaTypeOK
  <2>3. ScopesOK'
    BY <1>0, <2>2, SameScopes
  <2> QED
    BY <2>1, <2>3
<1>8. BlocksOK'
  <2>1. ASSUME NEW c \in Held'
        PROVE  /\ block'[c].scope \in 1 .. Inner /\ block'[c].frame \in 1 .. Top
               /\ block'[c].off >= Header /\ block'[c].size > 0
               /\ block'[c].off + block'[c].size <= frames[block'[c].frame].size
               /\ End(c)' <= frames[block'[c].frame].len
               /\ \A t \in 1 .. Inner : block'[c].scope < t =>
                    \/ block'[c].frame < scopes[t].frame
                    \/ block'[c].frame = scopes[t].frame /\ End(c)' <= scopes[t].len
    <3>1. /\ c \in Held /\ End(c) \in Nat /\ End(c)' \in Nat /\ End(c)' <= End(c)
          /\ block'[c].frame = block[c].frame /\ block'[c].off = block[c].off
          /\ block'[c].scope = block[c].scope
          /\ block'[c].size \in Nat /\ block'[c].size > 0
          /\ block'[c].size <= block[c].size
      BY <1>5
    <3>2. /\ block[c].scope \in 1 .. Inner /\ block[c].frame \in 1 .. Top
          /\ block[c].off >= Header
          /\ block[c].off + block[c].size <= frames[block[c].frame].size
          /\ End(c) <= frames[block[c].frame].len
      BY <1>0, <3>1 DEF BlocksOK
    <3>3. /\ frames[block[c].frame].size \in Nat /\ frames[block[c].frame].len \in Nat
          /\ block[c].off \in Nat /\ block[c].size \in Nat
      BY <1>0, <3>1, <3>2, ArenaTyped
    <3>4. ASSUME NEW t \in 1 .. Inner, block[c].scope < t
          PROVE  \/ block[c].frame < scopes[t].frame
                 \/ block[c].frame = scopes[t].frame /\ End(c)' <= scopes[t].len
      <4>1. \/ block[c].frame < scopes[t].frame
            \/ block[c].frame = scopes[t].frame /\ End(c) <= scopes[t].len
        BY <1>0, <3>1, <3>4, Zenon DEF BlocksOK
      <4>2. scopes[t].len \in Nat
        BY <1>0, ArenaTyped
      <4> QED
        BY <3>1, <4>1, <4>2
    <3> QED
      BY <3>1, <3>2, <3>3, <3>4
  <2> QED
    BY <1>4, <2>1 DEF BlocksOK
<1>9. PairsOK'
  <2>1. ASSUME NEW c \in Held', NEW d \in Held', c # d, block'[c].frame = block'[d].frame
        PROVE  End(c)' <= block'[d].off \/ End(d)' <= block'[c].off
    <3>1. /\ c \in Held /\ End(c) \in Nat /\ End(c)' \in Nat /\ End(c)' <= End(c)
          /\ block'[c].frame = block[c].frame /\ block'[c].off = block[c].off
          /\ d \in Held /\ End(d) \in Nat /\ End(d)' \in Nat /\ End(d)' <= End(d)
          /\ block'[d].frame = block[d].frame /\ block'[d].off = block[d].off
      BY <1>5
    <3>2. End(c) <= block[d].off \/ End(d) <= block[c].off
      BY <1>0, <2>1, <3>1 DEF PairsOK
    <3>3. block[c].off \in Nat /\ block[d].off \in Nat
      BY <1>0, <3>1, ArenaTyped
    <3> QED
      BY <3>1, <3>2, <3>3
  <2> QED
    BY <2>1 DEF PairsOK
<1> QED
  BY <1>0, <1>6, <1>7, <1>8, <1>9 DEF ArenaInv

\* The last block of the chain, of the innermost scope, grows where it is.
LEMMA GrowStep ==
  ASSUME ArenaInv, ArenaLive, NEW b \in Held, block[b].scope = Inner,
         NEW size \in Nat \ {0}, size > block[b].size, IsLast(b),
         block[b].off + size <= frames[Top].size,
         frames' = [frames EXCEPT ![Top] = Push([frames[Top] EXCEPT !.len = block[b].off], size)],
         block' = [block EXCEPT ![b].size = size],
         UNCHANGED <<refs, freed, scopes, fate>>
  PROVE  ArenaInv'
<1>0. ArenaTypeOK /\ FramesOK /\ ScopesOK /\ BlocksOK /\ PairsOK
  BY DEF ArenaInv
<1> DEFINE old == frames[Top]
           off == block[b].off
           cut == [old EXCEPT !.len = off]
           new == Push(cut, size)
           f == Top
<1>1. /\ Top \in Nat /\ Inner \in Nat /\ Header \in Nat /\ frames \in Seq(Frame)
      /\ b \in Blocks /\ off \in Nat /\ block[b].size \in Nat
      /\ block \in [Blocks -> Block] /\ block[b] \in Block
  BY <1>0, ArenaTyped DEF ArenaTypeOK
<1>2. /\ block[b].frame = Top /\ Top \in 1 .. Top /\ Inner \in 1 .. Inner
      /\ off >= Header
      /\ off + block[b].size <= old.size
      /\ AlignUp(off + block[b].size) = old.len
  <2>1. /\ block[b].frame \in 1 .. Top /\ block[b].scope \in 1 .. Inner
        /\ off >= Header
        /\ off + block[b].size <= frames[block[b].frame].size
    BY <1>0 DEF BlocksOK
  <2> QED
    BY <2>1 DEF IsLast
<1>3. old \in Frame /\ old.size \in Nat /\ old.len \in Nat /\ old.len \in Header .. old.size
  BY <1>0, <1>2, ArenaTyped DEF FramesOK
<1>4. cut \in Frame /\ cut.size = old.size /\ cut.len = off
  BY <1>1, <1>3 DEF Frame
<1>5. new \in Frame /\ new.size = old.size /\ new.len = Cut(off + size, old.size)
  <2> HIDE DEF cut, old
  <2> QED
    BY <1>4, PushFacts DEF old
<1>6. new.len \in Nat /\ old.len <= new.len /\ new.len <= old.size
  <2> DEFINE n == off + block[b].size
             k == off + size
             z == old.size
  <2>1. n \in Nat /\ k \in Nat /\ z \in Nat /\ n <= k /\ k <= z
    BY <1>1, <1>3
  <2>2. AlignUp(n) = old.len /\ old.len <= z /\ new.len = Cut(k, z)
    BY <1>1, <1>2, <1>3, <1>5
  <2> HIDE DEF n, k, z, new, old
  <2>3. /\ Cut(k, z) \in Nat /\ Cut(k, z) <= z
        /\ Cut(n, z) <= Cut(k, z)
    BY <2>1, CutFacts
  <2>4. Cut(n, z) = old.len
    BY <1>3, <2>1, <2>2 DEF Cut
  <2> QED
    BY <2>2, <2>3, <2>4 DEF z
<1>7. /\ frames' \in Seq(Frame) /\ Len(frames') = Top /\ frames'[Top] = new
      /\ \A g \in 1 .. Top : g # Top => frames'[g] = frames[g]
  <2>1. frames' = [frames EXCEPT ![Top] = new]
    OBVIOUS
  <2>2. Top > 0
    BY <1>1, <1>2
  <2> HIDE DEF new
  <2>3. new \in Frame
    BY <1>5
  <2> HIDE DEF old, off, cut, f
  <2> QED
    BY <1>1, <2>1, <2>2, <2>3 DEF Top
<1>8. ASSUME NEW g \in 1 .. Top
      PROVE  /\ frames'[g].size = frames[g].size
             /\ frames[g].len <= frames'[g].len /\ frames'[g].len <= frames'[g].size
  <2> HIDE DEF new
  <2>1. CASE g = Top
    BY <1>3, <1>5, <1>6, <1>7, <2>1
  <2>2. CASE g # Top
    <3>1. frames'[g] = frames[g] /\ frames[g].len \in Nat /\ frames[g].size \in Nat
      BY <1>0, <1>7, <2>2, ArenaTyped
    <3>2. frames[g].len \in Header .. frames[g].size
      BY <1>0 DEF FramesOK
    <3> QED
      BY <1>1, <3>1, <3>2
  <2> QED
    BY <2>1, <2>2
<1>9. ASSUME NEW c \in Held, c # b, block[c].frame = Top
      PROVE  End(c) <= off
  <2>1. End(b) <= block[c].off \/ End(c) <= block[b].off
    BY <1>0, <1>2, <1>9 DEF PairsOK
  <2>2. End(b) = old.len
    BY <1>2, <1>3 DEF End, Cut
  <2>3. /\ block[c].off \in Nat /\ block[c].size \in Nat /\ block[c].size > 0
        /\ block[c].off + block[c].size <= End(c) /\ End(c) \in Nat
        /\ End(c) <= old.len
    BY <1>0, <1>9, ArenaTyped, EndTyped, EndsBefore DEF BlocksOK
  <2> QED
    BY <1>3, <2>1, <2>2, <2>3
<1>10. Top' = f /\ refs > 0 /\ f \in Nat \ {0}
  <2>1. Top' = f
    BY <1>7 DEF Top
  <2>2. refs = Inner + 1
    BY <1>0 DEF ArenaTypeOK, ArenaLive
  <2> QED
    BY <1>1, <1>2, <2>1, <2>2
<1>11. SameMarks
  BY <1>0 DEF SameMarks, ArenaTypeOK, Inner
<1>12. block' = [block EXCEPT ![b] = [frame |-> f, off |-> off, size |-> size, scope |-> Inner]]
  <2>1. [block[b] EXCEPT !.size = size] =
          [frame |-> f, off |-> off, size |-> size, scope |-> Inner]
    BY <1>1, <1>2 DEF Block
  <2> QED
    BY <1>1, <2>1
<1>13. /\ off + size <= frames'[f].size
       /\ frames'[f].len = Cut(off + size, frames'[f].size)
  <2> HIDE DEF new
  <2> QED
    BY <1>5, <1>7
<1>14. Inner > 0
  BY <1>1, <1>2
<1> HIDE DEF old, off, cut, new, f
<1>15. /\ \A c \in Held : c # b /\ block[c].frame = f => End(c) <= off
       /\ f = Top \/ f = Top + 1
  BY <1>9 DEF f
<1> QED
  BY <1>1, <1>2, <1>7, <1>8, <1>10, <1>11, <1>12, <1>13, <1>14, <1>15, PlacedStep

LEMMA ReallocStep == ASSUME Nested, ArenaInv, NEW b \in Blocks, Realloc(b) PROVE ArenaInv'
<1>0. ArenaTypeOK /\ BlocksOK
  BY DEF ArenaInv
<1> DEFINE cut == [frames[Top] EXCEPT !.len = block[b].off]
<1>1. /\ ArenaLive /\ b \in Held /\ block[b].scope = Inner
      /\ UNCHANGED <<refs, freed, scopes>>
  BY DEF Realloc, Nested, Held
<1>2. PICK size \in Sizes :
        \/ /\ size <= block[b].size
           /\ block' = [block EXCEPT ![b].size = size]
           /\ UNCHANGED <<frames, fate>>
        \/ /\ ~(size <= block[b].size) /\ IsLast(b) /\ Fits(cut, size)
           /\ frames' = [frames EXCEPT ![Top] = Push(cut, size)]
           /\ block' = [block EXCEPT ![b].size = size]
           /\ UNCHANGED fate
        \/ Malloc(b, block[b].scope, size)
  BY DEF Realloc
<1>3. size \in Nat \ {0} /\ block[b].size \in Nat /\ block[b].off \in Nat
  BY <1>0, <1>1, SizeAssumption, ArenaTyped DEF Nested
<1>4. SameMarks
  BY <1>0, <1>1 DEF SameMarks, ArenaTypeOK, Inner
<1>5. CASE /\ size <= block[b].size
           /\ block' = [block EXCEPT ![b].size = size]
           /\ UNCHANGED <<frames, fate>>
  BY <1>1, <1>3, <1>5, ShrinkStep
<1>6. CASE /\ ~(size <= block[b].size) /\ IsLast(b) /\ Fits(cut, size)
           /\ frames' = [frames EXCEPT ![Top] = Push(cut, size)]
           /\ block' = [block EXCEPT ![b].size = size]
           /\ UNCHANGED fate
  <2>1. Top \in 1 .. Top /\ frames[Top] \in Frame
    <3>1. block[b].frame = Top /\ block[b].frame \in 1 .. Top
      BY <1>0, <1>1, <1>6 DEF IsLast, BlocksOK
    <3> QED
      BY <1>0, <3>1, ArenaTyped
  <2>2. block[b].off + size <= frames[Top].size
    <3>1. cut.len = block[b].off /\ cut.size = frames[Top].size
      BY <2>1 DEF Frame
    <3> QED
      BY <1>6, <3>1 DEF Fits
  <2>3. size > block[b].size
    BY <1>3, <1>6
  <2> QED
    BY <1>1, <1>3, <1>6, <2>2, <2>3, GrowStep
<1>7. CASE Malloc(b, block[b].scope, size)
  <2>1. Inner > 0
    <3>1. block[b].scope \in 1 .. Inner /\ Inner \in Nat
      BY <1>0, <1>1, ArenaTyped DEF BlocksOK
    <3> QED
      BY <3>1
  <2>2. Malloc(b, Inner, size)
    BY <1>1, <1>7
  <2> QED
    BY <1>1, <1>3, <1>4, <2>1, <2>2, MallocStep
<1> QED
  BY <1>2, <1>5, <1>6, <1>7

LEMMA AddCleanupStep ==
  ASSUME ArenaInv, NEW b \in Blocks, AddCleanup(b)
  PROVE  ArenaInv'
<1>0. ArenaTypeOK
  BY DEF ArenaInv
<1>1. /\ ArenaLive /\ Inner > 0 /\ Malloc(b, Inner, Align) /\ UNCHANGED <<refs, freed>>
      /\ scopes' = [scopes EXCEPT ![Inner].cleanup = IF fate' = "ok" THEN <<b>> \o @ ELSE @]
  BY DEF AddCleanup
<1>2. /\ Inner \in Nat /\ Inner \in 1 .. Inner /\ scopes \in Seq(Scope)
      /\ scopes[Inner] \in Scope
  <2>1. Inner \in Nat /\ scopes \in Seq(Scope)
    BY <1>0, ArenaTyped DEF ArenaTypeOK
  <2>2. Inner \in 1 .. Inner
    BY <1>1, <2>1
  <2> QED
    BY <1>0, <2>1, <2>2, ArenaTyped
<1> DEFINE s == scopes[Inner]
           cleaned == IF fate' = "ok" THEN <<b>> \o s.cleanup ELSE s.cleanup
           new == [s EXCEPT !.cleanup = cleaned]
<1>3. cleaned \in Seq(Blocks)
  <2>1. s.cleanup \in Seq(Blocks)
    BY <1>2 DEF Scope
  <2>2. <<b>> \in Seq(Blocks)
    OBVIOUS
  <2> HIDE DEF s
  <2> QED
    BY <2>1, <2>2
<1>4. new \in Scope /\ new.frame = s.frame /\ new.len = s.len /\ new.id = s.id
  <2> HIDE DEF cleaned
  <2> DEFINE B == Seq(Blocks)
  <2>1. s \in [frame : Nat, len : Nat, id : Nat, cleanup : B] /\ cleaned \in B
    BY <1>2, <1>3 DEF Scope
  <2>2. Scope = [frame : Nat, len : Nat, id : Nat, cleanup : B]
    BY DEF Scope
  <2> HIDE DEF B, s
  <2> QED
    BY <2>1, <2>2
<1>5. scopes' = [scopes EXCEPT ![Inner] = new]
  BY <1>1, <1>2
<1> HIDE DEF new, s
<1>6. /\ scopes' \in Seq(Scope) /\ Len(scopes') = Len(scopes) /\ scopes'[Inner] = new
      /\ \A t \in 1 .. Inner : t # Inner => scopes'[t] = scopes[t]
  BY <1>2, <1>4, <1>5 DEF Inner
<1>7. Inner' = Inner
  BY <1>6 DEF Inner
<1>8. ASSUME NEW t \in 1 .. Inner
      PROVE  /\ scopes'[t].frame = scopes[t].frame /\ scopes'[t].len = scopes[t].len
             /\ scopes'[t].id = scopes[t].id
  BY <1>4, <1>6 DEF s
<1>9. SameMarks
  BY <1>6, <1>7, <1>8 DEF SameMarks
<1>10. Align \in Nat \ {0}
  BY UnitAssumption
<1> QED
  BY <1>1, <1>9, <1>10, MallocStep

LEMMA ArenaStep == ASSUME Nested PROVE ArenaInv /\ [ArenaNext]_arenaVars => ArenaInv'
<1> SUFFICES ASSUME ArenaInv, [ArenaNext]_arenaVars PROVE ArenaInv'
  OBVIOUS
<1>1. ASSUME UNCHANGED <<frames, refs, freed, scopes, block, fate>> PROVE ArenaInv'
  <2>1. SameMarks
    BY <1>1 DEF SameMarks, ArenaInv, ArenaTypeOK, Inner
  <2>2. fate' \in {"ok", "trap", "too large"}
    BY <1>1 DEF ArenaInv, ArenaTypeOK
  <2> QED
    BY <1>1, <2>1, <2>2, QuietStep
<1>2. ASSUME NEW b \in Blocks, Alloc(b) PROVE ArenaInv'
  <2>1. PICK size \in Sizes : Malloc(b, Inner, size)
    BY <1>2 DEF Alloc
  <2>2. size \in Nat \ {0}
    BY SizeAssumption DEF Nested
  <2>3. ArenaLive /\ Inner > 0 /\ UNCHANGED <<refs, freed, scopes>>
    BY <1>2 DEF Alloc
  <2>4. SameMarks
    BY <2>3 DEF SameMarks, ArenaInv, ArenaTypeOK, Inner
  <2> QED
    BY <2>1, <2>2, <2>3, <2>4, MallocStep
<1> QED
  BY <1>1, <1>2, EnterStep, LeaveStep, FreeStep, AddCleanupStep, ReallocStep
  DEF ArenaNext, arenaVars

LEMMA ArenaInvariance == ASSUME Nested PROVE ArenaSpec => []ArenaInv
BY ArenaInitInv, ArenaStep, PTL DEF ArenaSpec

\* Whatever the sizes of frames, header, poison and requests: as long as only
\* blocks of the innermost scope grow, no two blocks handed out by arena_malloc
\* and arena_realloc overlap, none lies on the header of its frame or behind
\* what was given away, and a frame made for a block has room for it.
THEOREM ArenaBlocksApart == ASSUME Nested PROVE ArenaSpec => []BlocksApart
BY ArenaInvariance, ArenaInvSuffices, PTL

\* Whatever was cut in between: once every scope has been left the arena is as
\* arena_alloc made it, and after arena_free no frame outlives the last scope.
THEOREM ArenaReclaimed == ASSUME Nested PROVE ArenaSpec => []Reclaimed
BY ArenaInvariance, ArenaInvSuffices, PTL

-----------------------------------------------------------------------------
(***************************************************************************)
(* The vector.                                                             *)
(***************************************************************************)

Cell == Vals \cup {Garbage}

\* A capacity that was not refused has room for the elements, and its size in
\* bytes is a machine word.
LEMMA CapacityFits ==
  ASSUME NEW siz \in Nat, NEW need \in Nat, Capacity(siz, need) # 0
  PROVE  /\ Capacity(siz, need) \in 0 .. MaxWord /\ Capacity(siz, need) >= need
         /\ Capacity(siz, need) >= siz
         /\ HeadSize + Capacity(siz, need) * Stride <= MaxWord
<1> DEFINE first == IF siz = 0 THEN FirstSize ELSE siz
           newsiz == FirstRoom(first, need)
<1>1. first \in Nat /\ first >= siz /\ MaxWord \in Nat
  BY WordAssumption
<1>2. /\ newsiz \in Nat
      /\ newsiz # 0 => newsiz >= need /\ newsiz >= first /\ newsiz <= MaxWord
  <2> HIDE DEF first
  <2> QED
    BY <1>1, FirstRoomFits
<1>3. Doubled(siz, need) = newsiz
  BY DEF Doubled
<1> HIDE DEF first, newsiz
<1>4. Capacity(siz, need) = newsiz /\ ~(newsiz * Stride > MaxWord - HeadSize)
  BY <1>3 DEF Capacity
<1>5. newsiz * Stride \in Nat /\ HeadSize \in Nat
  BY <1>2, StrideAssumption, WordAssumption
<1> QED
  BY <1>1, <1>2, <1>4, <1>5

\* After vector_reserve1 there is room for len more elements, and the memory
\* holds those there were, moved or not.
LEMMA Reserved ==
  ASSUME ElementsKept, NEW len \in Nat, Reserve1(len) # 0
  PROVE  /\ Reserve1(len) \in 0 .. MaxWord /\ vlen + len <= Reserve1(len)
         /\ HeadSize + Reserve1(len) * Stride <= MaxWord
         /\ Memory(Reserve1(len)) \in [1 .. Reserve1(len) -> Cell]
         /\ \A i \in 1 .. vlen : Memory(Reserve1(len))[i] = want[i]
<1> DEFINE newsiz == Reserve1(len)
<1>1. /\ vsiz \in Nat /\ vlen \in Nat /\ vlen <= vsiz /\ vsiz <= MaxWord
      /\ mem \in [1 .. vsiz -> Cell]
      /\ \A i \in 1 .. vlen : mem[i] = want[i]
      /\ HeadSize + vsiz * Stride <= MaxWord
  BY WordAssumption DEF ElementsKept, VectorTypeOK, Cell
<1>2. CASE vlen + len <= vsiz
  <2>1. newsiz = vsiz /\ Memory(newsiz) = mem
    BY <1>2 DEF Reserve1, Memory
  <2> QED
    BY <1>1, <1>2, <2>1, WordAssumption
<1>3. CASE ~(vlen + len <= vsiz)
  <2>1. newsiz = Capacity(vsiz, vlen + len)
    BY <1>3 DEF Reserve1
  <2>2. /\ newsiz \in 0 .. MaxWord /\ newsiz >= vlen + len
        /\ HeadSize + newsiz * Stride <= MaxWord
    BY <1>1, <2>1, CapacityFits
  <2> HIDE DEF newsiz
  <2>3. newsiz \in Nat /\ newsiz # vsiz
    BY <1>1, <1>3, <2>2, WordAssumption
  <2>4. Memory(newsiz) = [i \in 1 .. newsiz |-> IF i <= vlen THEN mem[i] ELSE Garbage]
    BY <2>3 DEF Memory, Moved
  <2>5. /\ Memory(newsiz) \in [1 .. newsiz -> Cell]
        /\ \A i \in 1 .. vlen : Memory(newsiz)[i] = want[i]
    <3>1. \A i \in 1 .. newsiz : i <= vlen => i \in 1 .. vsiz
      BY <1>1, <2>3
    <3>2. \A i \in 1 .. vlen : i \in 1 .. newsiz /\ i <= vlen
      BY <1>1, <2>2, <2>3
    <3> QED
      BY <1>1, <2>4, <3>1, <3>2 DEF Cell
  <2> QED
    BY <2>2, <2>5 DEF newsiz
<1> QED
  BY <1>2, <1>3

LEMMA VectorInitKept == VectorInit => ElementsKept
<1> SUFFICES ASSUME VectorInit PROVE ElementsKept
  OBVIOUS
<1>1. vsiz = 0 /\ vlen = 0 /\ mem = <<>> /\ want = <<>> /\ verrno = FALSE
  BY DEF VectorInit
<1>2. /\ MaxWord \in Nat /\ HeadSize \in Nat /\ HeadSize <= MaxWord
      /\ Stride \in Nat
  BY WordAssumption, StrideAssumption
<1>3. HeadSize + 0 * Stride <= MaxWord
  BY <1>2
<1>4. mem \in [1 .. 0 -> Cell]
  BY <1>1
<1>5. want \in Seq(Vals) /\ Len(want) = 0
  BY <1>1
<1>6. 0 \in 0 .. MaxWord /\ 0 \in 0 .. 0 /\ \A i \in 1 .. 0 : FALSE
  BY <1>2
<1>7. verrno \in BOOLEAN
  BY <1>1
<1>8. VectorTypeOK
  BY <1>1, <1>4, <1>5, <1>6, <1>7 DEF VectorTypeOK, Cell
<1> QED
  BY <1>1, <1>3, <1>5, <1>6, <1>8 DEF ElementsKept

LEMMA OverflowStep == ASSUME ElementsKept, Overflow PROVE ElementsKept'
BY DEF ElementsKept, VectorTypeOK, Overflow

LEMMA AllocStep ==
  ASSUME ElementsKept, NEW v \in Vals, VectorAlloc(v)
  PROVE  ElementsKept'
<1> DEFINE newsiz == Reserve1(1)
           m == Memory(newsiz)
<1>1. CASE newsiz = 0
  BY <1>1, OverflowStep DEF VectorAlloc
<1>2. CASE newsiz # 0
  <2>1. /\ vsiz' = newsiz /\ mem' = [m EXCEPT ![vlen + 1] = v]
        /\ vlen' = vlen + 1 /\ want' = Append(want, v) /\ verrno' = FALSE
    BY <1>2 DEF VectorAlloc
  <2>2. /\ newsiz \in 0 .. MaxWord /\ vlen + 1 <= newsiz
        /\ HeadSize + newsiz * Stride <= MaxWord
        /\ m \in [1 .. newsiz -> Cell]
        /\ \A i \in 1 .. vlen : m[i] = want[i]
    BY <1>2, Reserved
  <2> HIDE DEF newsiz, m
  <2>3. vlen \in Nat /\ want \in Seq(Vals) /\ Len(want) = vlen /\ MaxWord \in Nat
    BY WordAssumption DEF ElementsKept, VectorTypeOK
  <2>4. /\ want' \in Seq(Vals) /\ Len(want') = vlen + 1 /\ want'[vlen + 1] = v
        /\ \A i \in 1 .. vlen : want'[i] = want[i]
    BY <2>1, <2>3
  <2>5. /\ mem' \in [1 .. newsiz -> Cell] /\ mem'[vlen + 1] = v
        /\ \A i \in 1 .. vlen : mem'[i] = m[i]
    BY <2>1, <2>2, <2>3 DEF Cell
  <2>6. \A i \in 1 .. vlen + 1 : i \in 1 .. vlen \/ i = vlen + 1
    BY <2>3
  <2>7. \A i \in 1 .. vlen' : mem'[i] = want'[i]
    BY <2>1, <2>2, <2>4, <2>5, <2>6
  <2>8. VectorTypeOK'
    <3>1. vsiz' \in 0 .. MaxWord /\ vlen' \in 0 .. vsiz'
      BY <2>1, <2>2, <2>3
    <3>2. mem' \in [1 .. vsiz' -> Vals \cup {Garbage}]
      BY <2>1, <2>5 DEF Cell
    <3>3. verrno' \in BOOLEAN
      BY <2>1
    <3> QED
      BY <2>4, <3>1, <3>2, <3>3 DEF VectorTypeOK
  <2> QED
    BY <2>1, <2>2, <2>4, <2>7, <2>8 DEF ElementsKept
<1> QED
  BY <1>1, <1>2

LEMMA VectorStep == ElementsKept /\ [VectorNext]_vectorVars => ElementsKept'
<1> SUFFICES ASSUME ElementsKept, [VectorNext]_vectorVars PROVE ElementsKept'
  OBVIOUS
<1>0. /\ vsiz \in Nat /\ vlen \in Nat /\ vlen <= vsiz /\ vsiz <= MaxWord
      /\ mem \in [1 .. vsiz -> Cell] /\ want \in Seq(Vals) /\ Len(want) = vlen
      /\ \A i \in 1 .. vlen : mem[i] = want[i]
      /\ HeadSize + vsiz * Stride <= MaxWord /\ MaxWord \in Nat
      /\ verrno \in BOOLEAN
  BY WordAssumption DEF ElementsKept, VectorTypeOK, Cell
<1>1. ASSUME NEW n \in 1 .. MaxWord, VectorReserve(n) PROVE ElementsKept'
  <2> DEFINE newsiz == Reserve1(n)
  <2>1. CASE newsiz = 0
    BY <1>1, <2>1, OverflowStep DEF VectorReserve
  <2>2. CASE newsiz # 0
    <3>1. /\ vsiz' = newsiz /\ mem' = Memory(newsiz) /\ verrno' = FALSE
          /\ UNCHANGED <<vlen, want>>
      BY <1>1, <2>2 DEF VectorReserve
    <3>2. /\ newsiz \in 0 .. MaxWord /\ vlen + n <= newsiz
          /\ HeadSize + newsiz * Stride <= MaxWord
          /\ Memory(newsiz) \in [1 .. newsiz -> Cell]
          /\ \A i \in 1 .. vlen : Memory(newsiz)[i] = want[i]
      BY <1>0, <2>2, Reserved
    <3> HIDE DEF newsiz
    <3>3. vlen \in 0 .. newsiz
      BY <1>0, <3>2
    <3> QED
      BY <1>0, <3>1, <3>2, <3>3 DEF ElementsKept, VectorTypeOK, Cell
  <2> QED
    BY <2>1, <2>2
<1>2. ASSUME NEW v \in Vals, VectorAlloc(v) PROVE ElementsKept'
  BY <1>2, AllocStep
<1>3. CASE VectorCalloc
  BY <1>3, AllocStep, ValsAssumption DEF VectorCalloc
<1>4. CASE VectorPop
  <2>1. /\ vlen > 0 /\ vlen' = vlen - 1 /\ want' = SubSeq(want, 1, Len(want) - 1)
        /\ UNCHANGED <<vsiz, mem, verrno>>
    BY <1>4 DEF VectorPop
  <2>2. /\ want' \in Seq(Vals) /\ Len(want') = vlen - 1
        /\ \A i \in 1 .. vlen - 1 : want'[i] = want[i]
    BY <1>0, <2>1
  <2>3. \A i \in 1 .. vlen - 1 : i \in 1 .. vlen
    BY <1>0
  <2> QED
    BY <1>0, <2>1, <2>2, <2>3 DEF ElementsKept, VectorTypeOK, Cell
<1>5. CASE VectorClear
  <2>1. /\ vlen' = 0 /\ want' = <<>> /\ UNCHANGED <<vsiz, mem, verrno>>
    BY <1>5 DEF VectorClear
  <2> QED
    BY <1>0, <2>1 DEF ElementsKept, VectorTypeOK, Cell
<1>6. CASE VectorSort
  <2>1. PICK p \in Orders(vlen) :
          /\ mem' = [i \in 1 .. vsiz |-> IF i <= vlen THEN mem[p[i]] ELSE mem[i]]
          /\ want' = [i \in 1 .. vlen |-> want[p[i]]]
    BY <1>6 DEF VectorSort
  <2>2. UNCHANGED <<vsiz, vlen, verrno>>
    BY <1>6 DEF VectorSort
  <2>3. \A i \in 1 .. vlen : p[i] \in 1 .. vlen
    BY DEF Orders
  <2>4. \A i \in 1 .. vlen : i \in 1 .. vsiz
    BY <1>0
  <2>5. mem' \in [1 .. vsiz -> Cell]
    <3>1. \A i \in 1 .. vsiz : i <= vlen => i \in 1 .. vlen
      BY <1>0
    <3> QED
      BY <1>0, <2>1, <2>3, <2>4, <3>1
  <2>6. want' \in Seq(Vals) /\ Len(want') = vlen
    <3>1. \A i \in 1 .. vlen : want[p[i]] \in Vals
      BY <1>0, <2>3
    <3>2. want' \in [1 .. vlen -> Vals]
      BY <2>1, <3>1
    <3> QED
      BY <1>0, <3>2
  <2>7. \A i \in 1 .. vlen : mem'[i] = want'[i]
    BY <1>0, <2>1, <2>3, <2>4
  <2> QED
    BY <1>0, <2>2, <2>5, <2>6, <2>7 DEF ElementsKept, VectorTypeOK, Cell
<1>7. CASE VectorCopy
  <2> DEFINE newsiz == IF vlen = 0 THEN 0 ELSE Capacity(0, vlen)
  <2>1. CASE newsiz < vlen
    BY <1>7, <2>1, OverflowStep DEF VectorCopy
  <2>2. CASE ~(newsiz < vlen)
    <3>1. /\ vsiz' = newsiz /\ mem' = Moved(newsiz) /\ verrno' = FALSE
          /\ UNCHANGED <<vlen, want>>
      BY <1>7, <2>2 DEF VectorCopy
    <3>2. /\ newsiz \in 0 .. MaxWord /\ newsiz >= vlen
          /\ HeadSize + newsiz * Stride <= MaxWord
      <4>1. CASE vlen = 0
        BY <1>0, <4>1, StrideAssumption
      <4>2. CASE vlen # 0
        <5>1. newsiz = Capacity(0, vlen) /\ newsiz # 0
          BY <1>0, <2>2, <4>2
        <5> QED
          BY <1>0, <5>1, CapacityFits
      <4> QED
        BY <4>1, <4>2
    <3> HIDE DEF newsiz
    <3>3. newsiz \in Nat /\ vlen \in 0 .. newsiz
      BY <1>0, <3>2
    <3>4. mem' \in [1 .. newsiz -> Cell] /\ \A i \in 1 .. vlen : mem'[i] = want[i]
      <4>1. \A i \in 1 .. newsiz : i <= vlen => i \in 1 .. vsiz
        BY <1>0, <3>3
      <4>2. \A i \in 1 .. vlen : i \in 1 .. newsiz /\ i <= vlen
        BY <1>0, <3>3
      <4> QED
        BY <1>0, <3>1, <4>1, <4>2 DEF Moved, Cell
    <3> QED
      BY <1>0, <3>1, <3>2, <3>3, <3>4 DEF ElementsKept, VectorTypeOK, Cell
  <2> QED
    BY <2>1, <2>2
<1>8. CASE UNCHANGED vectorVars
  BY <1>8 DEF vectorVars, ElementsKept, VectorTypeOK
<1> QED
  BY <1>1, <1>2, <1>3, <1>4, <1>5, <1>6, <1>7, <1>8 DEF VectorNext

\* However the capacity is doubled, for elements of any size in machine words of
\* any width: vector_reserve1 never makes a vector whose size in bytes wraps
\* around, and the elements are those the client put there.
THEOREM VectorKeepsElements == VectorSpec => []ElementsKept
BY VectorInitKept, VectorStep, PTL DEF VectorSpec
-----------------------------------------------------------------------------
(***************************************************************************)
(* The buffer.                                                             *)
(***************************************************************************)

\* A capacity that was not refused holds len bytes and n more, and is not
\* smaller than the one before.
LEMMA RoomFits ==
  ASSUME NEW siz \in 0 .. MaxWord, NEW len \in Nat, NEW n \in Nat,
         Room(siz, len, n, TRUE) # 0
  PROVE  /\ Room(siz, len, n, TRUE) \in 0 .. MaxWord
         /\ Room(siz, len, n, TRUE) >= len + n /\ Room(siz, len, n, TRUE) >= siz
<1> DEFINE first == IF siz = 0 THEN FirstSize ELSE siz
           newsiz == FirstRoom(first, len + n)
           r == Room(siz, len, n, TRUE)
<1>1. first \in Nat /\ first >= siz /\ MaxWord \in Nat /\ len + n \in Nat /\ siz \in Nat
  BY WordAssumption
<1>r. r # 0
  OBVIOUS
<1> SUFFICES r \in 0 .. MaxWord /\ r >= len + n /\ r >= siz
  OBVIOUS
<1>2. CASE siz > 0 /\ siz >= len + n
  <2>1. r = siz
    BY <1>2 DEF Room
  <2> HIDE DEF r
  <2> QED
    BY <1>1, <1>2, <2>1
<1>3. CASE ~(siz > 0 /\ siz >= len + n)
  <2>1. /\ newsiz \in Nat
        /\ newsiz # 0 => newsiz >= len + n /\ newsiz >= first /\ newsiz <= MaxWord
    <3> HIDE DEF first
    <3> QED
      BY <1>1, FirstRoomFits
  <2>2. Doubled(siz, len + n) = newsiz
    BY DEF Doubled
  <2> HIDE DEF first, newsiz
  <2>3. r = newsiz
    BY <1>3, <1>r, <2>2 DEF Room
  <2> HIDE DEF r
  <2> QED
    BY <1>1, <1>r, <2>1, <2>3
<1> QED
  BY <1>2, <1>3

\* The first capacity is that of a buffer made for it.
LEMMA FirstCapacity ==
  Room(0, 0, FirstSize, TRUE) \in Part .. MaxWord
<1>1. FirstSize \in Nat /\ FirstSize > 0 /\ FirstSize <= MaxWord /\ MaxWord \in Nat
  BY WordAssumption
<1> DEFINE room == {n \in Tried(FirstSize) : n >= FirstSize}
<1>2. FirstSize \in room
  <2>1. FirstSize = FirstSize * 2 ^ 0
    BY <1>1
  <2>2. 0 \in 0 .. FirstSize \div FirstSize
    BY <1>1
  <2> QED
    <3>1. FirstSize \in FirstSize .. MaxWord /\ FirstSize >= FirstSize
      BY <1>1
    <3>2. FirstSize \in Tried(FirstSize)
      BY <2>1, <2>2, <3>1, Zenon DEF Tried
    <3> QED
      BY <3>1, <3>2
<1>3. room \in SUBSET Nat /\ \A n \in room : n >= FirstSize
  BY <1>1 DEF Tried
<1>4. PICK n \in room : \A m \in room : n <= m
  BY <1>2, <1>3, LeastElement
<1>5. FirstRoom(FirstSize, FirstSize) \in room
  BY <1>2, <1>4 DEF FirstRoom
<1>6. Room(0, 0, FirstSize, TRUE) = FirstRoom(FirstSize, FirstSize)
  <2>1. 0 + FirstSize = FirstSize /\ ~(0 > MaxWord - FirstSize)
    BY <1>1
  <2> QED
    BY <2>1 DEF Room, Doubled
<1>7. FirstRoom(FirstSize, FirstSize) # 0
  BY <1>1, <1>3, <1>5
<1> DEFINE r == FirstRoom(FirstSize, FirstSize)
<1>8. r \in Nat /\ r >= FirstSize /\ r <= MaxWord
  BY <1>1, <1>7, FirstRoomFits
<1>9. Part \in Nat /\ Part <= FirstSize
  BY <1>1, PartAssumption
<1> HIDE DEF r, room
<1>10. r \in Part .. MaxWord
  BY <1>1, <1>8, <1>9
<1> QED
  BY <1>6, <1>10 DEF r

LEMMA LineFacts ==
  ASSUME NEW l \in Line
  PROVE  l.at \in Nat /\ l.str \in Text /\ Len(l.str) \in Nat /\ Behind(l) \in Nat
<1>1. l.at \in Nat /\ l.str \in Text
  BY DEF Line
<1>2. Len(l.str) \in Nat
  BY <1>1 DEF Text
<1> QED
  BY <1>1, <1>2 DEF Behind

\* What the reads of a file rest on: no line has been asked for, the file only
\* grows, and either the buffer has room for what the file held when it was
\* opened, or it grows with every read so that it is never full.
ReadsOn ==
  /\ reading # "no" => goff = 0
  /\ reading \in {"open", "read"} => atOpen <= file
  /\ reading = "open" => buf = <<>> /\ (bsiz >= atOpen \/ bsiz >= Part)
  /\ reading = "read" =>
       bsiz >= atOpen \/ (more /\ bsiz >= Part /\ Len(buf) < bsiz)

BufferInv == BufferSound /\ ReadsOn

\* What the type invariant and the assumptions say, unfolded.
BufferTyped ==
  /\ MaxWord \in Nat /\ FileMax \in Nat /\ FileMax <= MaxWord
  /\ Part \in Nat /\ Part > 0
  /\ bsiz \in Nat /\ bsiz <= MaxWord /\ Len(buf) \in Nat /\ Len(buf) <= bsiz
  /\ file \in Nat /\ file <= FileMax /\ atOpen \in Nat /\ atOpen <= FileMax
  /\ goff \in Nat /\ goff <= Len(buf) + 1 /\ Len(lines) \in Nat

LEMMA BufferUnfolded == ASSUME BufferTypeOK PROVE BufferTyped
<1>1. MaxWord \in Nat /\ FileMax \in 0 .. MaxWord
  BY WordAssumption, FileAssumption
<1>2. Part \in Nat /\ Part > 0
  BY WordAssumption, PartAssumption
<1>3. Len(buf) \in Nat /\ Len(lines) \in Nat
  BY DEF BufferTypeOK, Text
<1> QED
  BY <1>1, <1>2, <1>3 DEF BufferTypeOK, BufferTyped

\* No line has been returned where the offset is 0, and nothing is said of the
\* bytes of the buffer.
LEMMA NoLines ==
  ASSUME BufferTypeOK, LinesAreContent, goff = 0
  PROVE  lines = <<>>
<1> SUFFICES ASSUME lines # <<>> PROVE FALSE
  OBVIOUS
<1>1. lines \in Seq(Line)
  BY DEF BufferTypeOK
<1>2. Len(lines) \in DOMAIN lines
  BY <1>1
<1>3. Behind(lines[Len(lines)]) \in 1 .. Len(buf) + 1
  BY <1>2 DEF LinesAreContent
<1>4. goff = Behind(lines[Len(lines)])
  BY DEF LinesAreContent
<1> QED
  BY <1>3, <1>4

LEMMA NoLinesKept ==
  ASSUME lines' = <<>>, goff' = 0 PROVE LinesAreContent'
BY DEF LinesAreContent

LEMMA BufferInitOK == BufferInit => BufferInv
<1> SUFFICES ASSUME BufferInit PROVE BufferInv
  OBVIOUS
<1>1. /\ bsiz = 0 /\ buf = <<>> /\ file \in 0 .. FileMax /\ atOpen = 0
      /\ more = FALSE /\ reading = "no" /\ goff = 0 /\ lines = <<>> /\ berrno = FALSE
  BY DEF BufferInit
<1>2. MaxWord \in Nat /\ FileMax \in 0 .. MaxWord
  BY WordAssumption, FileAssumption
<1>3. buf \in Text /\ Len(buf) = 0 /\ lines \in Seq(Line)
  BY <1>1 DEF Text
<1>4. 0 \in 0 .. MaxWord /\ 0 \in 0 .. FileMax /\ 0 \in 0 .. 0 + 1 /\ 0 <= 0
  BY <1>2
<1>5. more \in BOOLEAN /\ berrno \in BOOLEAN
  BY <1>1
<1>6. BufferTypeOK
  BY <1>1, <1>3, <1>4, <1>5 DEF BufferTypeOK
<1>7. LinesAreContent
  BY <1>1 DEF LinesAreContent
<1> QED
  BY <1>1, <1>6, <1>7 DEF BufferInv, BufferSound, ReadEnough, ReadsOn

\* The invariant where no line has been returned and no file is open, of which
\* most operations make a case.
LEMMA IdleInv ==
  ASSUME BufferTypeOK', reading' = "no", lines' = <<>>, goff' = 0
  PROVE  BufferInv'
<1>1. ReadEnough' /\ ReadsOn'
  BY DEF ReadEnough, ReadsOn
<1> QED
  BY <1>1, NoLinesKept DEF BufferInv, BufferSound

LEMMA PutsStep ==
  ASSUME BufferInv, NEW str \in Text, NEW room \in Nat, Len(str) <= room,
         Puts(str, room)
  PROVE  BufferInv'
<1> DEFINE siz == Room(bsiz, Len(buf), room, TRUE)
<1>0. BufferTypeOK /\ LinesAreContent
  BY DEF BufferInv, BufferSound
<1>1. BufferTyped
  BY <1>0, BufferUnfolded
<1>2. /\ reading = "no" /\ goff = 0
      /\ UNCHANGED <<file, atOpen, more, reading, goff, lines>>
      /\ IF siz = 0 THEN berrno' = TRUE /\ UNCHANGED <<bsiz, buf>>
         ELSE bsiz' = siz /\ buf' = buf \o str /\ berrno' = FALSE
  BY DEF Puts, fileVars, lineVars
<1>3. lines' = <<>> /\ goff' = 0 /\ reading' = "no"
  BY <1>0, <1>2, NoLines
<1>4. bsiz' \in 0 .. MaxWord /\ buf' \in Text /\ Len(buf') \in Nat /\ Len(buf') <= bsiz'
  <2>1. CASE siz = 0
    BY <1>0, <1>1, <1>2, <2>1 DEF BufferTypeOK, BufferTyped
  <2>2. CASE siz # 0
    <3>1. bsiz \in 0 .. MaxWord /\ Len(buf) \in Nat
      BY <1>0, <1>1 DEF BufferTypeOK, BufferTyped
    <3>2. siz \in 0 .. MaxWord /\ siz >= Len(buf) + room
      BY <2>2, <3>1, RoomFits
    <3>3. bsiz' = siz /\ buf' = buf \o str
      BY <1>2, <2>2
    <3>4. buf \in Text
      BY <1>0 DEF BufferTypeOK
    <3>5. buf' \in Text /\ Len(buf') = Len(buf) + Len(str) /\ Len(str) \in Nat
      BY <3>3, <3>4 DEF Text
    <3> HIDE DEF siz
    <3> QED
      BY <3>1, <3>2, <3>3, <3>5
  <2> QED
    BY <2>1, <2>2
<1>5. berrno' \in BOOLEAN
  BY <1>2
<1>6. goff' \in 0 .. Len(buf') + 1
  BY <1>3, <1>4
<1>7. BufferTypeOK'
  BY <1>0, <1>2, <1>4, <1>5, <1>6 DEF BufferTypeOK
<1> QED
  BY <1>3, <1>7, IdleInv

LEMMA PopStep == ASSUME BufferInv, BufferPop PROVE BufferInv'
<1>0. BufferTypeOK /\ LinesAreContent
  BY DEF BufferInv, BufferSound
<1>1. BufferTyped
  BY <1>0, BufferUnfolded
<1>2. /\ reading = "no" /\ goff = 0
      /\ UNCHANGED <<bsiz, file, atOpen, more, reading, goff, lines, berrno>>
  BY DEF BufferPop, fileVars, lineVars
<1>3. PICK n \in 1 .. Len(buf) : buf' = SubSeq(buf, 1, Len(buf) - n)
  BY DEF BufferPop
<1>4. lines' = <<>> /\ goff' = 0 /\ reading' = "no"
  BY <1>0, <1>2, NoLines
<1>5. buf' \in Text /\ Len(buf') \in Nat /\ Len(buf') <= bsiz'
  <2>1. buf \in Text
    BY <1>0 DEF BufferTypeOK
  <2>2. buf' \in Text /\ Len(buf') \in Nat /\ Len(buf') = Len(buf) - n
    BY <1>1, <1>3, <2>1 DEF Text, BufferTyped
  <2> QED
    BY <1>1, <1>2, <2>2 DEF BufferTyped
<1>6. goff' \in 0 .. Len(buf') + 1
  BY <1>4, <1>5
<1>7. BufferTypeOK'
  BY <1>0, <1>2, <1>5, <1>6 DEF BufferTypeOK
<1> QED
  BY <1>4, <1>7, IdleInv

LEMMA StrStep == ASSUME BufferInv, Str PROVE BufferInv'
<1>0. BufferTypeOK
  BY DEF BufferInv, BufferSound
<1>1. BufferTyped
  BY <1>0, BufferUnfolded
<1>2. /\ reading = "no" /\ goff' = 0 /\ lines' = <<>>
      /\ UNCHANGED <<file, atOpen, more, reading>>
      /\ \/ berrno' = TRUE /\ UNCHANGED <<bsiz, buf>>
         \/ bsiz' = 0 /\ buf' = <<>> /\ berrno' = FALSE
  BY DEF Str, fileVars
<1>3. bsiz' \in 0 .. MaxWord /\ buf' \in Text /\ Len(buf') \in Nat /\ Len(buf') <= bsiz'
  <2>1. CASE UNCHANGED <<bsiz, buf>>
    BY <1>0, <1>1, <2>1 DEF BufferTypeOK, BufferTyped
  <2>2. CASE bsiz' = 0 /\ buf' = <<>>
    BY <1>1, <2>2 DEF BufferTyped, Text
  <2> QED
    BY <1>2, <2>1, <2>2
<1>4. berrno' \in BOOLEAN
  BY <1>2
<1>5. goff' \in 0 .. Len(buf') + 1 /\ lines' \in Seq(Line)
  BY <1>2, <1>3
<1>6. BufferTypeOK'
  BY <1>0, <1>2, <1>3, <1>4, <1>5 DEF BufferTypeOK
<1> QED
  BY <1>2, <1>6, IdleInv

\* memchr: up to the newline found there is none, and behind the last byte
\* there is nothing to find.
LEMMA NewlineFound ==
  ASSUME BufferTypeOK, NEW off \in Nat, off < Len(buf)
  PROVE  /\ NewlineAt(off) \in off + 1 .. Len(buf) + 1
         /\ \A i \in off + 1 .. NewlineAt(off) - 1 : buf[i] # Newline
         /\ NewlineAt(off) <= Len(buf) => buf[NewlineAt(off)] = Newline
<1> DEFINE at == {i \in off + 1 .. Len(buf) : buf[i] = Newline}
<1>1. Len(buf) \in Nat
  BY BufferUnfolded DEF BufferTyped
<1>2. CASE at = {}
  <2>1. NewlineAt(off) = Len(buf) + 1
    BY <1>2 DEF NewlineAt
  <2>2. \A i \in off + 1 .. Len(buf) : buf[i] # Newline
    BY <1>2
  <2> QED
    BY <1>1, <2>1, <2>2
<1>3. CASE at # {}
  <2>1. at \in SUBSET Nat
    BY <1>1
  <2>2. PICK n \in at : \A m \in at : n <= m
    BY <1>3, <2>1, LeastElement
  <2>3. NewlineAt(off) \in at /\ \A m \in at : NewlineAt(off) <= m
    BY <1>3, <2>2 DEF NewlineAt
  <2> DEFINE nl == NewlineAt(off)
  <2>4. nl \in off + 1 .. Len(buf) /\ buf[nl] = Newline
    BY <2>3
  <2>5. ASSUME NEW i \in off + 1 .. nl - 1 PROVE buf[i] # Newline
    <3> HIDE DEF nl
    <3>1. i \in off + 1 .. Len(buf) /\ ~(nl <= i)
      BY <1>1, <2>4
    <3> QED
      BY <2>3, <3>1 DEF nl
  <2> HIDE DEF nl
  <2>6. nl \in off + 1 .. Len(buf) + 1
    BY <1>1, <2>4
  <2> QED
    BY <2>4, <2>5, <2>6 DEF nl
<1> QED
  BY <1>2, <1>3

\* What LinesAreContent says of one line.
LineOK(i) ==
  /\ lines[i].at = IF i = 1 THEN 1 ELSE Behind(lines[i - 1]) + 1
  /\ \A j \in 1 .. Len(lines[i].str) :
       lines[i].str[j] # Newline /\ lines[i].str[j] = buf[lines[i].at + j - 1]
  /\ Behind(lines[i]) \in 1 .. Len(buf) + 1
  /\ Behind(lines[i]) <= Len(buf) => buf[Behind(lines[i])] = Newline

\* buffer_getline_impl takes the bytes up to the next newline, and steps over it.
LEMMA GetlineStep == ASSUME BufferInv, Getline PROVE BufferInv'
<1> DEFINE nl == NewlineAt(goff)
           str == SubSeq(buf, goff + 1, nl - 1)
           line == [at |-> goff + 1, str |-> str]
<1>0. BufferTypeOK /\ LinesAreContent
  BY DEF BufferInv, BufferSound
<1>1. BufferTyped
  BY <1>0, BufferUnfolded
<1>2. /\ reading = "no" /\ goff < Len(buf) /\ goff' = nl /\ lines' = Append(lines, line)
      /\ UNCHANGED <<bsiz, buf, file, atOpen, more, reading, berrno>>
  BY DEF Getline, fileVars
<1>n. PICK n \in Nat : n = Len(lines)
  BY <1>1 DEF BufferTyped
<1>3. /\ goff \in Nat /\ Len(buf) \in Nat /\ n \in Nat /\ n = Len(lines)
      /\ buf \in Text /\ lines \in Seq(Line)
  BY <1>0, <1>1, <1>n DEF BufferTypeOK, BufferTyped
<1>4. /\ nl \in goff + 1 .. Len(buf) + 1
      /\ \A i \in goff + 1 .. nl - 1 : buf[i] # Newline
      /\ nl <= Len(buf) => buf[nl] = Newline
  BY <1>0, <1>2, <1>3, NewlineFound
<1> HIDE DEF nl
<1>5. /\ str \in Text /\ Len(str) = nl - 1 - goff
      /\ \A j \in 1 .. Len(str) : str[j] = buf[goff + j]
  <2>1. nl - 1 \in Nat /\ nl - 1 <= Len(buf) /\ nl - 1 >= goff
    BY <1>3, <1>4
  <2> QED
    BY <1>3, <2>1 DEF Text
<1> HIDE DEF str
<1>6. line \in Line /\ line.at = goff + 1 /\ line.str = str
  BY <1>3, <1>5 DEF Line
<1>7. Behind(line) = nl
  BY <1>3, <1>4, <1>5, <1>6 DEF Behind
<1> HIDE DEF line
<1>8. /\ lines' \in Seq(Line) /\ Len(lines') = n + 1 /\ lines'[n + 1] = line
      /\ \A i \in 1 .. n : lines'[i] = lines[i]
      /\ lines' # <<>> /\ DOMAIN lines' = 1 .. n + 1
  BY <1>2, <1>3, <1>6
<1>9. BufferTypeOK'
  <2>1. goff' \in 0 .. Len(buf') + 1
    BY <1>2, <1>3, <1>4
  <2> QED
    BY <1>0, <1>2, <1>8, <2>1 DEF BufferTypeOK
<1>10. LineOK(n + 1)'
  <2>1. line.at = IF n = 0 THEN 1 ELSE Behind(lines[n]) + 1
    <3>1. goff = IF lines = <<>> THEN 0 ELSE Behind(lines[n])
      BY <1>0, <1>n DEF LinesAreContent
    <3>2. lines = <<>> <=> n = 0
      BY <1>3
    <3>3. goff = IF n = 0 THEN 0 ELSE Behind(lines[n])
      BY <3>1, <3>2
    <3>4. CASE n = 0
      BY <1>6, <3>3, <3>4
    <3>5. CASE n # 0
      BY <1>6, <3>3, <3>5
    <3> QED
      BY <3>4, <3>5
  <2>2. /\ n + 1 = 1 <=> n = 0
        /\ n + 1 - 1 = n
        /\ n # 0 => n \in 1 .. n
    BY <1>3
  <2>3. lines'[n + 1].at = IF n + 1 = 1 THEN 1 ELSE Behind(lines'[n + 1 - 1]) + 1
    BY <1>8, <2>1, <2>2
  <2>4. ASSUME NEW j \in 1 .. Len(line.str)
        PROVE  line.str[j] # Newline /\ line.str[j] = buf[line.at + j - 1]
    <3>1. line.at + j - 1 = goff + j /\ goff + j \in goff + 1 .. nl - 1
      BY <1>3, <1>4, <1>5, <1>6
    <3>2. line.str[j] = buf[goff + j]
      BY <1>5, <1>6
    <3> QED
      BY <1>4, <3>1, <3>2
  <2>5. Behind(lines'[n + 1]) \in 1 .. Len(buf') + 1
    <3>1. nl \in 1 .. Len(buf) + 1
      BY <1>3, <1>4
    <3> QED
      BY <1>2, <1>7, <1>8, <3>1
  <2>6. Behind(lines'[n + 1]) <= Len(buf') => buf'[Behind(lines'[n + 1])] = Newline
    BY <1>2, <1>4, <1>7, <1>8
  <2>7. \A j \in 1 .. Len(lines'[n + 1].str) :
          /\ lines'[n + 1].str[j] # Newline
          /\ lines'[n + 1].str[j] = buf'[lines'[n + 1].at + j - 1]
    BY <1>2, <1>8, <2>4
  <2> QED
    BY <2>3, <2>5, <2>6, <2>7 DEF LineOK, Behind
<1>11. ASSUME NEW i \in 1 .. n PROVE LineOK(i)'
  <2>1. LineOK(i)
    <3>1. i \in DOMAIN lines
      BY <1>3
    <3> QED
      BY <1>0, <3>1 DEF LinesAreContent, LineOK
  <2>2. i # 1 => i - 1 \in 1 .. n
    BY <1>3
  <2>3. lines'[i] = lines[i] /\ (i # 1 => lines'[i - 1] = lines[i - 1]) /\ buf' = buf
    BY <1>2, <1>8, <2>2
  <2> QED
    BY <2>1, <2>3 DEF LineOK, Behind
<1>12. LinesAreContent'
  <2>1. goff' = IF lines' = <<>> THEN 0 ELSE Behind(lines'[Len(lines')])
    BY <1>2, <1>7, <1>8
  <2>2. \A i \in DOMAIN lines' : i \in 1 .. n \/ i = n + 1
    BY <1>3, <1>8
  <2>3. \A i \in DOMAIN lines' : LineOK(i)'
    BY <1>10, <1>11, <2>2
  <2> QED
    BY <2>1, <2>3 DEF LinesAreContent, LineOK, Behind
<1>13. ReadEnough' /\ ReadsOn'
  BY <1>2 DEF ReadEnough, ReadsOn
<1> QED
  BY <1>9, <1>12, <1>13 DEF BufferInv, BufferSound

\* A file is open: no line has been returned.
LEMMA NoLinesWhileReading ==
  ASSUME BufferInv, reading # "no" PROVE goff = 0 /\ lines = <<>>
<1>1. BufferTypeOK /\ LinesAreContent /\ goff = 0
  BY DEF BufferInv, BufferSound, ReadsOn
<1> QED
  BY <1>1, NoLines

\* The first estimate leaves room for the file, or the first capacity.
LEMMA OpenStep == ASSUME BufferInv, FileOpen \/ FileOpenFd PROVE BufferInv'
<1>0. BufferTypeOK /\ LinesAreContent
  BY DEF BufferInv, BufferSound
<1>1. BufferTyped
  BY <1>0, BufferUnfolded
<1>2. /\ reading = "no" /\ buf = <<>> /\ goff = 0 /\ atOpen' = file /\ reading' = "open"
      /\ UNCHANGED <<buf, file, more, goff, lines, berrno>>
      /\ \/ bsiz' = Room(0, 0, FirstSize, TRUE)
         \/ file # 0 /\ bsiz' = Room(0, 0, file, FALSE)
  BY DEF FileOpen, FileOpenFd, lineVars
<1>3. bsiz' \in 0 .. MaxWord /\ (bsiz' >= file \/ bsiz' >= Part)
  <2>1. CASE bsiz' = Room(0, 0, FirstSize, TRUE)
    <3>1. bsiz' \in Part .. MaxWord
      BY <2>1, FirstCapacity
    <3> QED
      BY <1>1, <3>1 DEF BufferTyped
  <2>2. CASE file # 0 /\ bsiz' = Room(0, 0, file, FALSE)
    <3>1. file \in Nat /\ file <= MaxWord /\ MaxWord \in Nat
      BY <1>1 DEF BufferTyped
    <3>2. Room(0, 0, file, FALSE) = 0 + file
      BY <3>1 DEF Room
    <3>3. bsiz' = 0 + file
      BY <2>2, <3>2, Zenon
    <3> QED
      BY <3>1, <3>3
  <2> QED
    BY <1>2, <2>1, <2>2
<1>4. lines' = <<>> /\ goff' = 0
  BY <1>0, <1>2, NoLines
<1>5. Len(buf') = 0 /\ 0 <= bsiz' /\ goff' \in 0 .. Len(buf') + 1
  BY <1>2, <1>3, <1>4
<1>6. BufferTypeOK'
  BY <1>0, <1>2, <1>3, <1>5 DEF BufferTypeOK
<1>7. ReadsOn'
  <2>1. atOpen' <= file'
    BY <1>1, <1>2 DEF BufferTyped
  <2> QED
    BY <1>2, <1>3, <1>4, <2>1 DEF ReadsOn
<1> QED
  BY <1>2, <1>4, <1>6, <1>7, NoLinesKept DEF BufferInv, BufferSound, ReadEnough

\* One read: the buffer that must grow has room again after it, and the read
\* that finds nothing has found the end of the file or a full buffer.
LEMMA ReadStep == ASSUME BufferInv, FileRead PROVE BufferInv'
<1> DEFINE len == Len(buf)
           room == bsiz - len
           left == file - len
           most == IF room < left THEN room ELSE left
<1>0. BufferTypeOK /\ ReadsOn
  BY DEF BufferInv, BufferSound
<1>1. BufferTyped
  BY <1>0, BufferUnfolded
<1>2. reading = "read" /\ UNCHANGED <<file, atOpen, more, goff, lines>>
  BY DEF FileRead, lineVars
<1>3. goff' = 0 /\ lines' = <<>>
  BY <1>2, NoLinesWhileReading
<1>4. /\ atOpen <= file
      /\ bsiz >= atOpen \/ (more /\ bsiz >= Part /\ len < bsiz)
  BY <1>0, <1>2 DEF ReadsOn
<1>5. /\ len \in Nat /\ bsiz \in Nat /\ bsiz <= MaxWord /\ MaxWord \in Nat /\ len <= bsiz
      /\ file \in Nat /\ atOpen \in Nat /\ Part \in Nat /\ Part > 0 /\ buf \in Text
  BY <1>0, <1>1 DEF BufferTyped, BufferTypeOK
<1>6. CASE most <= 0
  <2>1. reading' = "done" /\ UNCHANGED <<bsiz, buf, berrno>>
    BY <1>6 DEF FileRead
  <2>2. len >= atOpen
    <3> HIDE DEF len
    <3> QED
      BY <1>4, <1>5, <1>6
  <2>3. BufferTypeOK'
    BY <1>0, <1>2, <2>1 DEF BufferTypeOK
  <2>4. ReadEnough' /\ ReadsOn'
    BY <1>2, <1>3, <2>1, <2>2 DEF ReadEnough, ReadsOn
  <2> QED
    BY <1>3, <2>3, <2>4, NoLinesKept DEF BufferInv, BufferSound
<1>7. CASE ~(most <= 0)
  <2>1. PICK n \in 1 .. most :
          LET siz == IF more THEN Room(bsiz, Len(buf) + n, bsiz \div Part, TRUE)
                     ELSE bsiz
          IN  /\ buf' = buf \o [i \in 1 .. n |-> Char]
              /\ bsiz' = IF siz = 0 THEN bsiz ELSE siz
              /\ berrno' = (siz = 0)
              /\ reading' = IF siz = 0 THEN "failed" ELSE "read"
    BY <1>7 DEF FileRead
  <2> DEFINE part == bsiz \div Part
             siz == IF more THEN Room(bsiz, len + n, part, TRUE) ELSE bsiz
             got == [i \in 1 .. n |-> Char]
  <2>2. /\ buf' = buf \o got /\ bsiz' = (IF siz = 0 THEN bsiz ELSE siz)
        /\ reading' = (IF siz = 0 THEN "failed" ELSE "read") /\ berrno' \in BOOLEAN
    BY <2>1
  <2>3. n \in Nat /\ n >= 1 /\ len + n <= bsiz /\ len + n \in Nat
    <3> HIDE DEF len
    <3> QED
      BY <1>5, <1>7
  <2>4. buf' \in Text /\ Len(buf') = len + n
    <3>1. got \in Text /\ Len(got) = n
      <4>1. got \in [1 .. n -> Bytes \cup {NUL}]
        BY DEF Bytes
      <4> HIDE DEF got
      <4> QED
        BY <2>3, <4>1 DEF Text
    <3> HIDE DEF got
    <3>2. buf' = buf \o got /\ buf \in Text
      BY <1>5, <2>2
    <3>3. got \in Text
      BY <3>1
    <3>4. buf' \in Text /\ Len(buf') = Len(buf) + Len(got)
      BY <3>2, <3>3 DEF Text
    <3> QED
      BY <3>1, <3>4
  <2>5. part \in Nat /\ (bsiz >= Part => part >= 1)
    BY <1>5
  <2>6. siz # 0 =>
          /\ siz \in Nat /\ siz <= MaxWord /\ siz >= bsiz
          /\ more => siz >= len + n + part
    <3> HIDE DEF part, len
    <3>1. CASE more
      <4> DEFINE r == Room(bsiz, len + n, part, TRUE)
      <4>1. bsiz \in 0 .. MaxWord
        BY <1>5
      <4>2. r # 0 => r \in 0 .. MaxWord /\ r >= len + n + part /\ r >= bsiz
        BY <2>3, <2>5, <4>1, RoomFits
      <4>3. siz = r
        BY <3>1
      <4> HIDE DEF r, siz
      <4> QED
        BY <1>5, <4>2, <4>3
    <3>2. CASE ~more
      BY <1>5, <3>2
    <3> QED
      BY <3>1, <3>2
  <2> HIDE DEF siz, part, got, len
  <2>7. /\ bsiz' \in Nat /\ bsiz' <= MaxWord /\ bsiz' >= bsiz /\ Len(buf') <= bsiz'
    <3>1. bsiz' = bsiz \/ (siz # 0 /\ bsiz' = siz)
      BY <2>2
    <3> QED
      BY <1>5, <2>3, <2>4, <2>6, <3>1
  <2>8. reading' = "read" => bsiz' >= atOpen \/ (more /\ bsiz' >= Part /\ Len(buf') < bsiz')
    <3> SUFFICES ASSUME reading' = "read"
                 PROVE  bsiz' >= atOpen \/ (more /\ bsiz' >= Part /\ Len(buf') < bsiz')
      OBVIOUS
    <3>1. siz # 0 /\ bsiz' = siz
      BY <2>2
    <3>2. CASE bsiz >= atOpen
      BY <1>5, <2>7, <3>2
    <3>3. CASE more /\ bsiz >= Part
      BY <1>5, <2>3, <2>4, <2>5, <2>6, <3>1, <3>3
    <3> QED
      BY <1>4, <3>2, <3>3
  <2>9. BufferTypeOK'
    <3>1. bsiz' \in 0 .. MaxWord /\ goff' \in 0 .. Len(buf') + 1
      BY <1>3, <1>5, <2>3, <2>4, <2>7
    <3>2. reading' \in {"no", "open", "read", "done", "failed"}
      BY <2>2
    <3> QED
      BY <1>0, <1>2, <2>2, <2>4, <2>7, <3>1, <3>2 DEF BufferTypeOK
  <2>10. ReadEnough' /\ ReadsOn'
    BY <1>2, <1>3, <1>4, <2>2, <2>8 DEF ReadEnough, ReadsOn
  <2> QED
    BY <1>3, <2>9, <2>10, NoLinesKept DEF BufferInv, BufferSound
<1> QED
  BY <1>6, <1>7

LEMMA BufferStep == BufferInv /\ [BufferNext]_bufferVars => BufferInv'
<1> SUFFICES ASSUME BufferInv, [BufferNext]_bufferVars PROVE BufferInv'
  OBVIOUS
<1>0. BufferTypeOK /\ LinesAreContent /\ ReadEnough /\ ReadsOn
  BY DEF BufferInv, BufferSound
<1>t. BufferTyped
  BY <1>0, BufferUnfolded
<1>1. ASSUME NEW b \in Bytes \cup {NUL}, Puts(<<b>>, 1) PROVE BufferInv'
  <2>1. <<b>> \in Text /\ Len(<<b>>) = 1 /\ Len(<<b>>) <= 1
    BY DEF Text
  <2> QED
    BY <1>1, <2>1, PutsStep
<1>2. ASSUME NEW a \in Bytes, NEW b \in Bytes, Puts(<<a, b>>, 2) \/ Puts(<<a, b>>, 3)
      PROVE  BufferInv'
  <2>1. <<a, b>> \in Text /\ Len(<<a, b>>) <= 2 /\ Len(<<a, b>>) <= 3
    BY DEF Text
  <2> QED
    BY <1>2, <2>1, PutsStep
<1>3. CASE FileGrow
  <2>1. /\ reading \in {"open", "read"} /\ file < FileMax /\ file' = file + 1
        /\ UNCHANGED <<bsiz, buf, atOpen, more, reading, goff, lines, berrno>>
    BY <1>3 DEF FileGrow, lineVars
  <2>2. file' \in 0 .. FileMax /\ (atOpen <= file => atOpen <= file')
    BY <1>t, <2>1 DEF BufferTyped
  <2>3. BufferTypeOK'
    BY <1>0, <2>1, <2>2 DEF BufferTypeOK
  <2>4. ReadEnough' /\ ReadsOn'
    BY <1>0, <2>1, <2>2 DEF ReadEnough, ReadsOn
  <2>5. goff' = 0 /\ lines' = <<>>
    BY <2>1, NoLinesWhileReading
  <2> QED
    BY <2>3, <2>4, <2>5, NoLinesKept DEF BufferInv, BufferSound
<1>4. CASE FileEstimate
  <2>1. /\ reading = "open" /\ reading' = "read" /\ more' = (file # bsiz - Len(buf))
        /\ UNCHANGED <<bsiz, buf, file, atOpen, goff, lines, berrno>>
    BY <1>4 DEF FileEstimate, Estimate, lineVars
  <2>2. goff' = 0 /\ lines' = <<>>
    BY <2>1, NoLinesWhileReading
  <2>3. buf = <<>> /\ (bsiz >= atOpen \/ bsiz >= Part) /\ atOpen <= file
    BY <1>0, <2>1 DEF ReadsOn
  <2>4. Len(buf) = 0
    BY <2>3
  <2>5. bsiz >= atOpen \/ (file # bsiz - Len(buf) /\ bsiz >= Part /\ Len(buf) < bsiz)
    BY <1>t, <2>3, <2>4 DEF BufferTyped
  <2>6. ReadsOn'
    BY <2>1, <2>2, <2>3, <2>5 DEF ReadsOn
  <2>7. BufferTypeOK'
    BY <1>0, <2>1 DEF BufferTypeOK
  <2> QED
    BY <2>1, <2>2, <2>6, <2>7, NoLinesKept DEF BufferInv, BufferSound, ReadEnough
<1>5. CASE BufferFree
  <2>1. /\ reading \in {"done", "failed"} /\ bsiz' = 0 /\ buf' = <<>> /\ reading' = "no"
        /\ berrno' = FALSE /\ atOpen' = 0 /\ more' = FALSE /\ UNCHANGED <<file, goff, lines>>
    BY <1>5 DEF BufferFree, lineVars
  <2>2. goff' = 0 /\ lines' = <<>>
    BY <2>1, NoLinesWhileReading
  <2>3. /\ bsiz' \in 0 .. MaxWord /\ atOpen' \in 0 .. FileMax
        /\ buf' \in Text /\ Len(buf') = 0 /\ Len(buf') <= bsiz'
        /\ goff' \in 0 .. Len(buf') + 1
    BY <1>t, <2>1, <2>2 DEF BufferTyped, Text
  <2>4. BufferTypeOK'
    BY <1>0, <2>1, <2>3 DEF BufferTypeOK
  <2> QED
    BY <2>1, <2>2, <2>4, IdleInv
<1>6. CASE UNCHANGED bufferVars
  BY <1>0, <1>6 DEF bufferVars, BufferInv, BufferSound, BufferTypeOK, ReadEnough,
                    LinesAreContent, Behind, ReadsOn
<1> QED
  BY <1>1, <1>2, <1>3, <1>4, <1>5, <1>6, PopStep, GetlineStep, StrStep, OpenStep,
     ReadStep DEF BufferNext

\* A file that is read while another process appends to it gives no less than it
\* held when it was opened, and the lines handed out are the bytes between its
\* newlines, none left out and none handed out twice: for buffers, files and
\* machine words of any size, as long as the part of the capacity that is asked
\* for after a read (an eighth) is not more than the first capacity (16).
THEOREM BufferIsSound == BufferSpec => []BufferSound
<1>1. BufferInit => BufferInv
  BY BufferInitOK
<1>2. BufferInv /\ [BufferNext]_bufferVars => BufferInv'
  BY BufferStep
<1>3. BufferInv => BufferSound
  BY DEF BufferInv
<1> QED
  BY <1>1, <1>2, <1>3, PTL DEF BufferSpec

-----------------------------------------------------------------------------
(***************************************************************************)
(* The map.                                                                *)
(***************************************************************************)

Chain == Seq(Keys)

\* A table of n buckets in which each key of S is on the chain of its bucket, and
\* on no other.
Holds(t, n, S) ==
  /\ \A b \in 0 .. n - 1 :
       IsInjective(t[b]) /\ \A k \in ToSet(t[b]) : k \in S /\ Bucket(k, n) = b
  /\ \A k \in S : k \in ToSet(t[Bucket(k, n)])

HashTyped == hash \in [Keys -> Nat]
Listed == list \in Seq(Keys) /\ IsInjective(list)

MapInv ==
  /\ HashTyped /\ Listed
  /\ \/ list = <<>> /\ chain = <<>>
     \/ /\ list # <<>>
        /\ \E n \in Nat \ {0} :
             chain \in [0 .. n - 1 -> Chain] /\ Holds(chain, n, ToSet(list))

\* Doubling a number of buckets keeps or adds it to the bucket of a key.
LEMMA HalfBucket ==
  ASSUME NEW h \in Nat, NEW n \in Nat \ {0}
  PROVE  h % (2 * n) \in 0 .. 2 * n - 1 /\ (h % (2 * n)) % n = h % n
<1> DEFINE d == 2 * n
           q == h \div d
           r == h % d
           p == r \div n
           m == r % n
<1>1. d \in Nat /\ d > 0 /\ d = n + n
  OBVIOUS
<1>2. q \in Nat /\ r \in Nat /\ r < d /\ h = d * q + r
  <2> HIDE DEF d
  <2> QED
    BY <1>1
<1> HIDE DEF q, r
<1>3. p \in Nat /\ m \in Nat /\ m < n /\ r = n * p + m
  BY <1>2
<1> HIDE DEF p, m
<1> DEFINE u == 2 * q + p
<1>4. u \in Nat /\ h = n * u + m
  BY <1>1, <1>2, <1>3
<1> HIDE DEF u
<1>5. h % n = m
  <2> DEFINE v == h \div n
             w == h % n
  <2>1. v \in Nat /\ w \in Nat /\ w < n /\ h = n * v + w
    OBVIOUS
  <2> HIDE DEF v, w
  <2>2. CASE v = u
    BY <1>3, <1>4, <2>1, <2>2 DEF w
  <2>3. CASE v < u
    <3>1. v + 1 <= u /\ n * (v + 1) <= n * u
      BY <1>4, <2>1, <2>3
    <3> QED
      BY <1>3, <1>4, <2>1, <3>1
  <2>4. CASE u < v
    <3>1. u + 1 <= v /\ n * (u + 1) <= n * v
      BY <1>4, <2>1, <2>4
    <3> QED
      BY <1>3, <1>4, <2>1, <3>1
  <2> QED
    BY <1>4, <2>1, <2>2, <2>3, <2>4
<1>6. r \in 0 .. 2 * n - 1
  BY <1>1, <1>2
<1> QED
  BY <1>5, <1>6 DEF r, m

\* The bucket of a key is one of the buckets.
LEMMA BucketTyped ==
  ASSUME HashTyped, NEW k \in Keys, NEW n \in Nat \ {0}
  PROVE  Bucket(k, n) \in 0 .. n - 1
<1>1. hash[k] \in Nat
  BY DEF HashTyped
<1> DEFINE h == hash[k]
<1> HIDE DEF h
<1>2. h % n \in 0 .. n - 1
  BY <1>1 DEF h
<1> QED
  BY <1>2 DEF Bucket, HashJen, h

\* Of a chain as many elements are taken as belong to the bucket, each once.
LEMMA TakenFacts ==
  ASSUME NEW s \in Chain, IsInjective(s), NEW b, NEW n
  PROVE  /\ Taken(s, b, n) \in Chain /\ IsInjective(Taken(s, b, n))
         /\ ToSet(Taken(s, b, n)) = {k \in ToSet(s) : Bucket(k, n) = b}
<1> DEFINE at == {i \in DOMAIN s : Bucket(s[i], n) = b}
           up(i) == {m \in at : m >= i}
           c == Cardinality(at)
           rank == [i \in at |-> Cardinality(up(i))]
           pick(j) == CHOOSE i \in at : Cardinality(up(i)) = j
<1>1. /\ Len(s) \in Nat /\ DOMAIN s = 1 .. Len(s) /\ at \in SUBSET Nat
      /\ \A i \in DOMAIN s : s[i] \in Keys
      /\ \A i \in at : i \in DOMAIN s /\ Bucket(s[i], n) = b
  BY DEF Chain
<1>2. IsFiniteSet(at) /\ c \in Nat
  <2>1. IsFiniteSet(1 .. Len(s))
    BY <1>1, FS_Interval
  <2>2. at \in SUBSET (1 .. Len(s))
    BY <1>1
  <2>3. IsFiniteSet(at)
    BY <2>1, <2>2, FS_Subset
  <2> QED
    BY <2>3, FS_CardinalityType
<1>a. \A i \in DOMAIN s : Bucket(s[i], n) = b => i \in at
  OBVIOUS
<1> HIDE DEF at
<1>3. ASSUME NEW i \in at
      PROVE  IsFiniteSet(up(i)) /\ Cardinality(up(i)) \in 1 .. c
  <2>1. up(i) \in SUBSET at /\ i \in up(i)
    BY <1>1
  <2>2. IsFiniteSet(up(i)) /\ Cardinality(up(i)) <= c
    BY <1>2, <2>1, FS_Subset
  <2>3. Cardinality(up(i)) \in Nat /\ Cardinality(up(i)) # 0
    BY <2>1, <2>2, FS_CardinalityType, FS_EmptySet
  <2> QED
    BY <1>2, <2>2, <2>3
<1>4. ASSUME NEW i \in at, NEW j \in at, i < j
      PROVE  Cardinality(up(i)) # Cardinality(up(j))
  <2>0. i \in Nat /\ j \in Nat /\ i < j /\ \A m \in at : m \in Nat
    BY <1>1, <1>4
  <2>a. \A m \in at : m >= j => m >= i
    BY <2>0
  <2>b. i >= i /\ ~(i >= j)
    BY <2>0
  <2>1. up(j) \in SUBSET up(i) /\ i \in up(i) /\ i \notin up(j)
    BY <2>a, <2>b
  <2>2. up(j) # up(i)
    BY <2>1
  <2> QED
    BY <1>3, <2>1, <2>2, FS_Subset
<1>5. ASSUME NEW i \in at, NEW j \in at, Cardinality(up(i)) = Cardinality(up(j))
      PROVE  i = j
  <2>1. i \in Nat /\ j \in Nat
    BY <1>1
  <2>2. i < j \/ j < i \/ i = j
    BY <2>1
  <2> QED
    BY <1>4, <1>5, <2>2
<1> HIDE DEF up, c
<1>6. rank \in Injection(at, 1 .. c)
  <2>1. rank \in [at -> 1 .. c]
    BY <1>3
  <2>2. \A i, j \in at : rank[i] = rank[j] => i = j
    BY <1>5
  <2> QED
    BY <2>1, <2>2 DEF Injection, IsInjective
<1>7. rank \in Surjection(at, 1 .. c)
  <2>1. IsFiniteSet(1 .. c) /\ Cardinality(1 .. c) = c
    BY <1>2, FS_Interval
  <2>2. Cardinality(at) = Cardinality(1 .. c)
    BY <2>1 DEF c
  <2> HIDE DEF rank
  <2> QED
    BY <1>6, <2>1, <2>2, FS_Injection
<1>8. \A j \in 1 .. c : \E i \in at : Cardinality(up(i)) = j
  BY <1>7 DEF Surjection
<1>9. ASSUME NEW j \in 1 .. c PROVE pick(j) \in at /\ Cardinality(up(pick(j))) = j
  BY <1>8
<1>10. ASSUME NEW i \in at PROVE pick(Cardinality(up(i))) = i
  <2>1. pick(Cardinality(up(i))) \in at
        /\ Cardinality(up(pick(Cardinality(up(i))))) = Cardinality(up(i))
    BY <1>3, <1>9
  <2> QED
    BY <1>5, <2>1
<1>11. Taken(s, b, n) = [j \in 1 .. c |-> s[pick(j)]]
  BY DEF Taken, at, up, c
<1> HIDE DEF pick
<1> DEFINE new == Taken(s, b, n)
<1>12. new \in Chain /\ DOMAIN new = 1 .. c /\ \A j \in 1 .. c : new[j] = s[pick(j)]
  <2>1. \A j \in 1 .. c : s[pick(j)] \in Keys
    BY <1>1, <1>9
  <2>2. new \in [1 .. c -> Keys]
    BY <1>11, <2>1
  <2> QED
    BY <1>2, <1>11, <2>2 DEF Chain
<1> HIDE DEF new
<1>13. IsInjective(new)
  <2> SUFFICES ASSUME NEW i \in 1 .. c, NEW j \in 1 .. c, new[i] = new[j] PROVE i = j
    BY <1>12 DEF IsInjective
  <2>1. s[pick(i)] = s[pick(j)] /\ pick(i) \in DOMAIN s /\ pick(j) \in DOMAIN s
    BY <1>1, <1>9, <1>12
  <2>2. pick(i) = pick(j)
    BY <2>1 DEF IsInjective
  <2> QED
    BY <1>9, <2>2
<1>14. ASSUME NEW k \in ToSet(new) PROVE k \in ToSet(s) /\ Bucket(k, n) = b
  <2>1. PICK j \in 1 .. c : k = new[j]
    BY <1>12 DEF ToSet
  <2>2. k = s[pick(j)] /\ pick(j) \in at
    BY <1>9, <1>12, <2>1
  <2> QED
    BY <1>1, <2>2 DEF ToSet
<1>15. ASSUME NEW k \in ToSet(s), Bucket(k, n) = b PROVE k \in ToSet(new)
  <2>1. PICK i \in DOMAIN s : k = s[i]
    BY DEF ToSet
  <2>2. i \in at
    BY <1>15, <1>a, <2>1
  <2>3. Cardinality(up(i)) \in 1 .. c /\ new[Cardinality(up(i))] = s[i]
    BY <1>3, <1>10, <1>12, <2>2
  <2> QED
    BY <1>12, <2>1, <2>3 DEF ToSet
<1> QED
  BY <1>12, <1>13, <1>14, <1>15 DEF new

\* The unlinked element is gone, and no other.
LEMMA UnlinkedFacts ==
  ASSUME NEW s \in Chain, IsInjective(s), NEW k \in ToSet(s)
  PROVE  /\ Unlinked(s, k) \in Chain /\ IsInjective(Unlinked(s, k))
         /\ ToSet(Unlinked(s, k)) = ToSet(s) \ {k}
         /\ Len(s) \in Nat /\ Len(Unlinked(s, k)) = Len(s) - 1
<1> DEFINE p == CHOOSE i \in DOMAIN s : s[i] = k
           new == Unlinked(s, k)
           from(i) == IF i < p THEN i ELSE i + 1
<1>1. p \in DOMAIN s /\ s[p] = k
  BY DEF ToSet
<1>2. new = SubSeq(s, 1, p - 1) \o SubSeq(s, p + 1, Len(s))
  BY DEF Unlinked, RemoveAt
<1> HIDE DEF p, new
<1>3. Len(s) \in Nat /\ DOMAIN s = 1 .. Len(s) /\ p \in 1 .. Len(s) /\ s \in Seq(Keys)
  BY <1>1 DEF Chain
<1>4. /\ new \in Seq(Keys) /\ Len(new) = Len(s) - 1
      /\ \A i \in 1 .. Len(s) - 1 : new[i] = s[from(i)]
  <2> DEFINE a == SubSeq(s, 1, p - 1)
             b == SubSeq(s, p + 1, Len(s))
  <2>1. /\ a \in Seq(Keys) /\ Len(a) = p - 1 /\ \A i \in 1 .. p - 1 : a[i] = s[i]
    BY <1>3
  <2>2. /\ b \in Seq(Keys) /\ Len(b) = Len(s) - p
        /\ \A i \in 1 .. Len(s) - p : b[i] = s[p + i]
    <3> DEFINE m == p + 1
    <3>1. m \in Int /\ Len(s) \in Int /\ \A i \in m .. Len(s) : i \in 1 .. Len(s)
      BY <1>3
    <3>2. \A i \in 1 .. Len(s) : s[i] \in Keys
      BY <1>3
    <3> HIDE DEF m
    <3>3. /\ SubSeq(s, m, Len(s)) \in Seq(Keys)
          /\ Len(SubSeq(s, m, Len(s))) = IF m <= Len(s) THEN Len(s) - m + 1 ELSE 0
          /\ \A i \in 1 .. Len(s) - m + 1 : SubSeq(s, m, Len(s))[i] = s[m + i - 1]
      BY <3>1, <3>2, SubSeqProperties
    <3>4. Len(s) - m + 1 = Len(s) - p
      BY <1>3 DEF m
    <3>5. ~(m <= Len(s)) => Len(s) - p = 0
      <4> DEFINE z == Len(s)
      <4>1. z \in Int /\ p \in Int /\ p <= z /\ m = p + 1
        BY <1>3 DEF m
      <4> HIDE DEF z
      <4>2. ~(m <= z) => z - p = 0
        BY <4>1
      <4> QED
        BY <4>2 DEF z
    <3>6. \A i \in 1 .. Len(s) - p : m + i - 1 = p + i
      BY <1>3 DEF m
    <3>7. Len(SubSeq(s, m, Len(s))) = Len(s) - p
      BY <3>3, <3>4, <3>5
    <3>8. \A i \in 1 .. Len(s) - p : SubSeq(s, m, Len(s))[i] = s[p + i]
      BY <3>3, <3>4, <3>6
    <3> QED
      BY <3>3, <3>7, <3>8 DEF m
  <2> HIDE DEF a, b
  <2>3. /\ new \in Seq(Keys) /\ Len(new) = Len(a) + Len(b)
        /\ \A i \in 1 .. Len(a) : new[i] = a[i]
        /\ \A i \in 1 .. Len(a) + Len(b) : i > Len(a) => new[i] = b[i - Len(a)]
    BY <1>2, <2>1, <2>2 DEF a, b
  <2>4. Len(new) = Len(s) - 1
    BY <1>3, <2>1, <2>2, <2>3
  <2>5. ASSUME NEW i \in 1 .. Len(s) - 1 PROVE new[i] = s[from(i)]
    <3>1. CASE i < p
      <4>1. i \in 1 .. Len(a) /\ i \in 1 .. p - 1
        BY <1>3, <2>1, <3>1
      <4> QED
        BY <2>1, <2>3, <3>1, <4>1
    <3>2. CASE ~(i < p)
      <4>1. /\ i \in 1 .. Len(a) + Len(b) /\ i > Len(a) /\ i - Len(a) = i - p + 1
            /\ i - p + 1 \in 1 .. Len(s) - p /\ p + (i - p + 1) = i + 1
        BY <1>3, <2>1, <2>2, <3>2
      <4>2. new[i] = b[i - p + 1]
        BY <2>3, <4>1
      <4>3. b[i - p + 1] = s[p + (i - p + 1)]
        BY <2>2, <4>1
      <4> QED
        BY <3>2, <4>1, <4>2, <4>3
    <3> QED
      BY <3>1, <3>2
  <2> QED
    BY <2>3, <2>4, <2>5
<1>5. DOMAIN new = 1 .. Len(s) - 1
  BY <1>4
<1>6. ASSUME NEW i \in 1 .. Len(s) - 1 PROVE from(i) \in 1 .. Len(s) /\ from(i) # p
  BY <1>3
<1>7. ASSUME NEW i \in 1 .. Len(s) - 1, NEW j \in 1 .. Len(s) - 1, from(i) = from(j)
      PROVE  i = j
  BY <1>3, <1>7
<1>8. ASSUME NEW m \in 1 .. Len(s), m # p PROVE \E i \in 1 .. Len(s) - 1 : from(i) = m
  <2>1. CASE m < p
    <3>1. m \in 1 .. Len(s) - 1 /\ from(m) = m
      BY <1>3, <2>1
    <3> QED
      BY <3>1
  <2>2. CASE m > p
    <3>1. m - 1 \in 1 .. Len(s) - 1 /\ from(m - 1) = m
      BY <1>3, <2>2
    <3> QED
      BY <3>1
  <2> QED
    BY <1>3, <1>8, <2>1, <2>2
<1> HIDE DEF from
<1>9. IsInjective(new)
  <2> SUFFICES ASSUME NEW i \in 1 .. Len(s) - 1, NEW j \in 1 .. Len(s) - 1,
                      new[i] = new[j]
               PROVE  i = j
    BY <1>5 DEF IsInjective
  <2>1. s[from(i)] = s[from(j)] /\ from(i) \in DOMAIN s /\ from(j) \in DOMAIN s
    BY <1>3, <1>4, <1>6
  <2>2. from(i) = from(j)
    BY <2>1 DEF IsInjective
  <2> QED
    BY <1>7, <2>2
<1>10. ASSUME NEW x \in ToSet(new) PROVE x \in ToSet(s) /\ x # k
  <2>1. PICK i \in 1 .. Len(s) - 1 : x = new[i]
    BY <1>5 DEF ToSet
  <2>2. x = s[from(i)] /\ from(i) \in DOMAIN s /\ from(i) # p
    BY <1>3, <1>4, <1>6, <2>1
  <2>3. s[from(i)] # s[p]
    BY <1>1, <2>2 DEF IsInjective
  <2> QED
    BY <1>1, <2>2, <2>3 DEF ToSet
<1>11. ASSUME NEW x \in ToSet(s), x # k PROVE x \in ToSet(new)
  <2>1. PICK m \in DOMAIN s : x = s[m]
    BY DEF ToSet
  <2>2. m \in 1 .. Len(s) /\ m # p
    BY <1>1, <1>3, <1>11, <2>1
  <2>3. PICK i \in 1 .. Len(s) - 1 : from(i) = m
    BY <1>8, <2>2
  <2>4. new[i] = x /\ i \in DOMAIN new
    BY <1>4, <1>5, <2>1, <2>3
  <2> QED
    BY <2>4 DEF ToSet
<1>12. ToSet(new) = ToSet(s) \ {k}
  BY <1>10, <1>11
<1> QED
  BY <1>3, <1>4, <1>9, <1>12 DEF new, Chain

\* A table is split into one with twice as many buckets.
LEMMA SplitHolds ==
  ASSUME HashTyped, NEW n \in Nat \ {0}, NEW S \in SUBSET Keys,
         NEW t \in [0 .. n - 1 -> Chain], Holds(t, n, S)
  PROVE  /\ Split(t, n) \in [0 .. 2 * n - 1 -> Chain]
         /\ Holds(Split(t, n), 2 * n, S)
<1> DEFINE new == Split(t, n)
<1>1. DOMAIN new = 0 .. 2 * n - 1 /\ \A b \in 0 .. 2 * n - 1 : new[b] = Taken(t[b % n], b, 2 * n)
  BY DEF Split
<1>2. ASSUME NEW b \in 0 .. 2 * n - 1
      PROVE  /\ b % n \in 0 .. n - 1
             /\ new[b] \in Chain /\ IsInjective(new[b])
             /\ ToSet(new[b]) = {k \in ToSet(t[b % n]) : Bucket(k, 2 * n) = b}
  <2>1. b % n \in 0 .. n - 1
    OBVIOUS
  <2>2. t[b % n] \in Chain /\ IsInjective(t[b % n])
    BY <2>1 DEF Holds
  <2> DEFINE s == t[b % n]
             d == 2 * n
  <2>3. new[b] = Taken(s, b, d)
    BY <1>1
  <2> HIDE DEF new, s, d
  <2>4. s \in Chain /\ IsInjective(s)
    BY <2>2 DEF s
  <2>5. /\ Taken(s, b, d) \in Chain /\ IsInjective(Taken(s, b, d))
        /\ ToSet(Taken(s, b, d)) = {k \in ToSet(s) : Bucket(k, d) = b}
    BY <2>4, TakenFacts
  <2>6. /\ new[b] \in Chain /\ IsInjective(new[b])
        /\ ToSet(new[b]) = {k \in ToSet(s) : Bucket(k, d) = b}
    BY <2>3, <2>5
  <2> QED
    BY <2>1, <2>6 DEF s, d
<1>3. new \in [0 .. 2 * n - 1 -> Chain]
  <2>1. new = [b \in 0 .. 2 * n - 1 |-> new[b]]
    BY DEF Split
  <2> HIDE DEF new
  <2> QED
    BY <1>2, <2>1
<1> HIDE DEF new
<1>4. ASSUME NEW k \in S PROVE k \in ToSet(new[Bucket(k, 2 * n)])
  <2> DEFINE h == hash[k]
             b == Bucket(k, 2 * n)
  <2>1. h \in Nat
    BY DEF HashTyped
  <2>2. b = h % (2 * n) /\ Bucket(k, n) = h % n
    BY DEF Bucket, HashJen
  <2>3. b \in 0 .. 2 * n - 1 /\ b % n = Bucket(k, n)
    <3> HIDE DEF h
    <3>1. h % (2 * n) \in 0 .. 2 * n - 1 /\ (h % (2 * n)) % n = h % n
      BY <2>1, HalfBucket
    <3> HIDE DEF b
    <3> QED
      BY <2>2, <3>1
  <2>4. k \in ToSet(t[Bucket(k, n)])
    BY DEF Holds
  <2> HIDE DEF b
  <2>5. k \in ToSet(t[b % n])
    BY <2>3, <2>4
  <2>6. Bucket(k, 2 * n) = b
    BY DEF b
  <2> QED
    BY <1>2, <2>3, <2>5, <2>6
<1>5. ASSUME NEW b \in 0 .. 2 * n - 1, NEW k \in ToSet(new[b])
      PROVE  k \in S /\ Bucket(k, 2 * n) = b
  <2>1. b % n \in 0 .. n - 1 /\ k \in ToSet(t[b % n]) /\ Bucket(k, 2 * n) = b
    BY <1>2
  <2> QED
    BY <2>1 DEF Holds
<1>6. Holds(new, 2 * n, S)
  BY <1>2, <1>4, <1>5 DEF Holds
<1> QED
  BY <1>3, <1>6 DEF new

\* The table of a map with its first key in it, and one more key.
LEMMA LinkedHolds ==
  ASSUME HashTyped, NEW n \in Nat \ {0}, NEW S \in SUBSET Keys, NEW k \in Keys \ S,
         NEW t \in [0 .. n - 1 -> Chain], Holds(t, n, S)
  PROVE  LET new == [t EXCEPT ![Bucket(k, n)] = <<k>> \o @]
         IN  new \in [0 .. n - 1 -> Chain] /\ Holds(new, n, S \cup {k})
<1> DEFINE b == Bucket(k, n)
           s == t[b]
           link == <<k>> \o s
           new == [t EXCEPT ![b] = link]
<1>1. b \in 0 .. n - 1
  BY BucketTyped
<1>2. s \in Chain /\ IsInjective(s) /\ k \notin ToSet(s)
  BY <1>1 DEF Holds
<1> HIDE DEF b, s
<1>3. link \in Chain /\ IsInjective(link) /\ ToSet(link) = ToSet(s) \cup {k}
  <2>1. s \in Seq(Keys) /\ k \in Keys /\ Len(s) \in Nat /\ DOMAIN s = 1 .. Len(s)
    BY <1>2 DEF Chain
  <2>2. /\ link \in Seq(Keys) /\ Len(link) = Len(s) + 1 /\ DOMAIN link = 1 .. Len(s) + 1
        /\ link[1] = k /\ \A i \in 1 .. Len(s) + 1 : i # 1 => link[i] = s[i - 1]
    BY <2>1
  <2> HIDE DEF link
  <2>3. \A i \in 1 .. Len(s) + 1 : i # 1 => i - 1 \in 1 .. Len(s)
    BY <2>1
  <2>4. \A i \in 1 .. Len(s) : s[i] # k
    BY <1>2, <2>1 DEF ToSet
  <2>5. IsInjective(link)
    <3> SUFFICES ASSUME NEW i \in 1 .. Len(s) + 1, NEW j \in 1 .. Len(s) + 1,
                        link[i] = link[j]
                 PROVE  i = j
      BY <2>2 DEF IsInjective
    <3>1. CASE i = 1 \/ j = 1
      BY <2>2, <2>3, <2>4, <3>1
    <3>2. CASE i # 1 /\ j # 1
      <4>1. /\ s[i - 1] = s[j - 1]
            /\ i - 1 \in DOMAIN s /\ j - 1 \in DOMAIN s
        BY <2>1, <2>2, <2>3, <3>2
      <4>2. i - 1 = j - 1
        BY <1>2, <4>1 DEF IsInjective
      <4> QED
        BY <4>2
    <3> QED
      BY <3>1, <3>2
  <2>6. ASSUME NEW x \in ToSet(link) PROVE x \in ToSet(s) \cup {k}
    <3>1. PICK i \in 1 .. Len(s) + 1 : x = link[i]
      BY <2>2 DEF ToSet
    <3> QED
      BY <2>1, <2>2, <2>3, <3>1 DEF ToSet
  <2>7. ASSUME NEW x \in ToSet(s) PROVE x \in ToSet(link)
    <3>1. PICK i \in 1 .. Len(s) : x = s[i]
      BY <2>1 DEF ToSet
    <3>2. i + 1 \in 1 .. Len(s) + 1 /\ i + 1 # 1 /\ i + 1 - 1 = i
      BY <2>1
    <3>3. link[i + 1] = x
      BY <2>2, <3>1, <3>2
    <3> QED
      BY <2>2, <3>2, <3>3 DEF ToSet
  <2>8. k \in ToSet(link)
    <3>1. 1 \in 1 .. Len(s) + 1
      BY <2>1
    <3> QED
      BY <2>2, <3>1 DEF ToSet
  <2> QED
    BY <2>2, <2>5, <2>6, <2>7, <2>8 DEF Chain
<1> HIDE DEF link
<1>4. new \in [0 .. n - 1 -> Chain] /\ new[b] = link
      /\ \A c \in 0 .. n - 1 : c # b => new[c] = t[c]
  BY <1>1, <1>3
<1> HIDE DEF new
<1>5. ASSUME NEW c \in 0 .. n - 1
      PROVE  /\ IsInjective(new[c])
             /\ \A x \in ToSet(new[c]) : x \in S \cup {k} /\ Bucket(x, n) = c
  <2>1. CASE c = b
    <3>1. \A x \in ToSet(s) : x \in S /\ Bucket(x, n) = b
      BY <1>1 DEF Holds, s
    <3> QED
      BY <1>3, <1>4, <2>1, <3>1 DEF b
  <2>2. CASE c # b
    BY <1>4, <2>2 DEF Holds
  <2> QED
    BY <2>1, <2>2
<1>6. ASSUME NEW x \in S \cup {k} PROVE x \in ToSet(new[Bucket(x, n)])
  <2>1. CASE Bucket(x, n) = b
    <3>1. x \in S => x \in ToSet(s)
      BY <2>1 DEF Holds, s
    <3> QED
      BY <1>3, <1>4, <2>1, <3>1
  <2>2. CASE Bucket(x, n) # b
    <3>1. x \in S /\ Bucket(x, n) \in 0 .. n - 1
      BY <2>2, BucketTyped DEF b
    <3> QED
      BY <1>4, <2>2, <3>1 DEF Holds
  <2> QED
    BY <2>1, <2>2
<1>7. Holds(new, n, S \cup {k})
  BY <1>5, <1>6 DEF Holds
<1> QED
  BY <1>4, <1>7 DEF new, link, s, b

LEMMA UnchainedHolds ==
  ASSUME HashTyped, NEW n \in Nat \ {0}, NEW S \in SUBSET Keys, NEW k \in S,
         NEW t \in [0 .. n - 1 -> Chain], Holds(t, n, S)
  PROVE  LET new == [t EXCEPT ![Bucket(k, n)] = Unlinked(@, k)]
         IN  new \in [0 .. n - 1 -> Chain] /\ Holds(new, n, S \ {k})
<1> DEFINE b == Bucket(k, n)
           s == t[b]
           rest == Unlinked(s, k)
           new == [t EXCEPT ![b] = rest]
<1>1. b \in 0 .. n - 1
  BY BucketTyped
<1>2. s \in Chain /\ IsInjective(s) /\ k \in ToSet(s)
  BY <1>1 DEF Holds
<1> HIDE DEF s
<1>3. rest \in Chain /\ IsInjective(rest) /\ ToSet(rest) = ToSet(s) \ {k}
  BY <1>2, UnlinkedFacts
<1> HIDE DEF b, rest
<1>4. new \in [0 .. n - 1 -> Chain] /\ new[b] = rest
      /\ \A c \in 0 .. n - 1 : c # b => new[c] = t[c]
  BY <1>1, <1>3
<1> HIDE DEF new
<1>5. ASSUME NEW c \in 0 .. n - 1
      PROVE  /\ IsInjective(new[c])
             /\ \A x \in ToSet(new[c]) : x \in S \ {k} /\ Bucket(x, n) = c
  <2>1. CASE c = b
    <3>1. \A x \in ToSet(s) : x \in S /\ Bucket(x, n) = b
      BY <1>1 DEF Holds, s
    <3> QED
      BY <1>3, <1>4, <2>1, <3>1
  <2>2. CASE c # b
    BY <1>4, <2>2 DEF Holds, b
  <2> QED
    BY <2>1, <2>2
<1>6. ASSUME NEW x \in S \ {k} PROVE x \in ToSet(new[Bucket(x, n)])
  <2>1. x \in ToSet(t[Bucket(x, n)]) /\ Bucket(x, n) \in 0 .. n - 1
    BY BucketTyped DEF Holds
  <2>2. CASE Bucket(x, n) = b
    BY <1>3, <1>4, <2>1, <2>2 DEF s
  <2>3. CASE Bucket(x, n) # b
    BY <1>4, <2>1, <2>3
  <2> QED
    BY <2>2, <2>3
<1>7. Holds(new, n, S \ {k})
  BY <1>5, <1>6 DEF Holds
<1> QED
  BY <1>4, <1>7 DEF new, rest, s, b

LEMMA BucketsCounted ==
  ASSUME NEW n \in Nat, NEW t, DOMAIN t = 0 .. n - 1
  PROVE  Cardinality(DOMAIN t) = n
<1>1. 0 \in Int /\ n - 1 \in Int
  OBVIOUS
<1>2. Cardinality(0 .. n - 1) = IF 0 > n - 1 THEN 0 ELSE n - 1 - 0 + 1
  BY <1>1, FS_Interval
<1> QED
  BY <1>2

\* The invariant says what is looked up: the table is that of the list.
LEMMA FoundIsListed ==
  ASSUME MapInv
  PROVE  LooksUp /\ \A k \in Keys : Found(k) <=> k \in ToSet(list)
<1>1. \A k : Contains(list, k) <=> k \in ToSet(list)
  <2>1. DOMAIN list = 1 .. Len(list)
    BY DEF MapInv, Listed
  <2> QED
    BY <2>1 DEF Contains, ToSet
<1>2. CASE list = <<>> /\ chain = <<>>
  <2>1. \A k : ~Found(k)
    BY <1>2 DEF Found
  <2>2. ToSet(list) = {} /\ DOMAIN chain = {}
    BY <1>2 DEF ToSet
  <2> QED
    BY <1>1, <2>1, <2>2 DEF LooksUp
<1>3. ASSUME list # <<>>, NEW n \in Nat \ {0}, chain \in [0 .. n - 1 -> Chain],
             Holds(chain, n, ToSet(list))
      PROVE  LooksUp /\ \A k \in Keys : Found(k) <=> k \in ToSet(list)
  <2>1. DOMAIN chain = 0 .. n - 1
    BY <1>3
  <2>2. NumBuckets = n
    BY <2>1, BucketsCounted DEF NumBuckets
  <2>3. ASSUME NEW k \in Keys PROVE Found(k) <=> k \in ToSet(list)
    <3>1. Bucket(k, n) \in 0 .. n - 1
      BY BucketTyped DEF MapInv
    <3> DEFINE s == chain[Bucket(k, n)]
    <3>2. s \in Seq(Keys)
      BY <1>3, <3>1 DEF Chain
    <3> HIDE DEF s
    <3>3. DOMAIN s = 1 .. Len(s)
      BY <3>2
    <3>4. Contains(s, k) <=> k \in ToSet(s)
      BY <3>3 DEF Contains, ToSet
    <3>5. Found(k) <=> Contains(s, k)
      BY <1>3, <2>2 DEF Found, Chained, s
    <3>6. k \in ToSet(s) <=> k \in ToSet(list)
      BY <1>3, <3>1 DEF Holds, s
    <3> QED
      BY <3>4, <3>5, <3>6
  <2>4. \A b \in DOMAIN chain :
          /\ IsInjective(chain[b])
          /\ \A k \in ToSet(chain[b]) : Bucket(k, NumBuckets) = b
    BY <1>3, <2>1, <2>2 DEF Holds
  <2>5. \A k \in Keys : Found(k) <=> Contains(list, k)
    BY <1>1, <2>3
  <2> QED
    BY <2>3, <2>4, <2>5 DEF LooksUp
<1> QED
  BY <1>2, <1>3 DEF MapInv

\* The invariant after a step, from the table and the list after it.
LEMMA TableKept ==
  ASSUME HashTyped, UNCHANGED hash, Listed', list' # <<>>, NEW n \in Nat \ {0},
         chain' \in [0 .. n - 1 -> Chain], NEW S, S = ToSet(list'),
         NEW t, t = chain', Holds(t, n, S)
  PROVE  MapInv'
<1>1. Holds(chain, n, ToSet(list))'
  BY DEF Holds, Bucket, HashJen, ToSet
<1>2. HashTyped'
  BY DEF HashTyped
<1> QED
  BY <1>1, <1>2 DEF MapInv

\* The table of the map, or the one that is made for its first key.
LEMMA TableFacts ==
  ASSUME MapInv
  PROVE  \E m \in Nat \ {0} :
           /\ Table \in [0 .. m - 1 -> Chain] /\ Holds(Table, m, ToSet(list))
           /\ Cardinality(DOMAIN Table) = m
<1> DEFINE S == ToSet(list)
           n == Cardinality(DOMAIN Table)
<1>1. CASE list = <<>>
  <2>1. FirstBuckets \in Nat \ {0}
    BY BucketAssumption
  <2>2. Table = [b \in 0 .. FirstBuckets - 1 |-> <<>>] /\ S = {}
    BY <1>1 DEF Table, ToSet
  <2>3. <<>> \in Chain /\ IsInjective(<<>>) /\ ToSet(<<>>) = {}
    BY DEF Chain, IsInjective, ToSet
  <2>4. Table \in [0 .. FirstBuckets - 1 -> Chain]
    BY <2>2, <2>3
  <2>5. Holds(Table, FirstBuckets, S)
    BY <2>2, <2>3 DEF Holds
  <2>6. n = FirstBuckets
    BY <2>1, <2>4, BucketsCounted
  <2> QED
    BY <2>1, <2>4, <2>5, <2>6
<1>2. CASE list # <<>>
  <2>1. Table = chain
    BY <1>2 DEF Table
  <2>2. PICK m \in Nat \ {0} : chain \in [0 .. m - 1 -> Chain] /\ Holds(chain, m, S)
    BY <1>2 DEF MapInv
  <2>3. n = m
    BY <2>1, <2>2, BucketsCounted
  <2> QED
    BY <2>1, <2>2, <2>3
<1> QED
  BY <1>1, <1>2

LEMMA InsertStep == ASSUME MapInv, NEW k \in Keys, MapInsert(k) PROVE MapInv'
<1> DEFINE S == ToSet(list)
           n == Cardinality(DOMAIN Table)
           t == [Table EXCEPT ![Bucket(k, n)] = <<k>> \o @]
<1>1. HashTyped /\ Listed
  BY DEF MapInv
<1>2. /\ list' = Append(list, k) /\ UNCHANGED hash /\ ~Found(k)
      /\ chain' = t \/ chain' = Split(t, Cardinality(DOMAIN t))
  BY DEF MapInsert, Expand
<1>3. k \notin S
  BY <1>2, FoundIsListed
<1>4. Listed' /\ list' # <<>> /\ ToSet(list') = S \cup {k} /\ S \in SUBSET Keys
  <2>1. list \in Seq(Keys) /\ Len(list) \in Nat /\ DOMAIN list = 1 .. Len(list)
    BY <1>1 DEF Listed
  <2>2. /\ list' \in Seq(Keys) /\ DOMAIN list' = 1 .. Len(list) + 1
        /\ list'[Len(list) + 1] = k /\ \A i \in 1 .. Len(list) : list'[i] = list[i]
        /\ list' # <<>>
    BY <1>2, <2>1
  <2>3. /\ \A i \in 1 .. Len(list) + 1 : i \in 1 .. Len(list) \/ i = Len(list) + 1
        /\ \A i \in 1 .. Len(list) : i \in 1 .. Len(list) + 1
        /\ Len(list) + 1 \in 1 .. Len(list) + 1
    BY <2>1
  <2>4. \A i \in 1 .. Len(list) : list[i] # k /\ list[i] \in S
    BY <1>3, <2>1 DEF ToSet
  <2>5. IsInjective(list)'
    BY <1>1, <2>1, <2>2, <2>3, <2>4 DEF Listed, IsInjective
  <2>6. ToSet(list') = S \cup {k}
    <3>1. ASSUME NEW x \in ToSet(list') PROVE x \in S \cup {k}
      BY <2>2, <2>3, <2>4 DEF ToSet
    <3>2. ASSUME NEW x \in S PROVE x \in ToSet(list')
      <4>1. PICK i \in 1 .. Len(list) : x = list[i]
        BY <2>1 DEF ToSet
      <4> QED
        BY <2>2, <2>3, <4>1 DEF ToSet
    <3>3. k \in ToSet(list')
      BY <2>2, <2>3 DEF ToSet
    <3> QED
      BY <3>1, <3>2, <3>3
  <2>7. S \in SUBSET Keys
    BY <2>1 DEF ToSet
  <2> QED
    BY <2>2, <2>5, <2>6, <2>7 DEF Listed
<1>5. PICK m \in Nat \ {0} :
        Table \in [0 .. m - 1 -> Chain] /\ Holds(Table, m, S) /\ n = m
  BY TableFacts
<1>6. t \in [0 .. m - 1 -> Chain] /\ Holds(t, m, S \cup {k})
  <2> DEFINE T == Table
  <2>1. T \in [0 .. m - 1 -> Chain] /\ Holds(T, m, S) /\ k \in Keys \ S /\ S \in SUBSET Keys
    BY <1>3, <1>4, <1>5
  <2>2. t = [T EXCEPT ![Bucket(k, m)] = <<k>> \o @]
    BY <1>5
  <2> HIDE DEF T, S, t
  <2>3. LET new == [T EXCEPT ![Bucket(k, m)] = <<k>> \o @]
        IN  new \in [0 .. m - 1 -> Chain] /\ Holds(new, m, S \cup {k})
    BY <1>1, <2>1, LinkedHolds
  <2> QED
    BY <2>2, <2>3
<1> DEFINE U == S \cup {k}
<1> HIDE DEF t, S
<1>7. CASE chain' = t
  BY <1>1, <1>2, <1>4, <1>6, <1>7, TableKept
<1>8. CASE chain' = Split(t, Cardinality(DOMAIN t))
  <2>1. Cardinality(DOMAIN t) = m
    BY <1>6, BucketsCounted
  <2>2. U \in SUBSET Keys
    BY <1>4
  <2>3. Split(t, m) \in [0 .. 2 * m - 1 -> Chain] /\ Holds(Split(t, m), 2 * m, U)
    BY <1>1, <1>6, <2>2, SplitHolds
  <2>4. chain' = Split(t, m) /\ 2 * m \in Nat \ {0}
    BY <1>8, <2>1
  <2> QED
    BY <1>1, <1>2, <1>4, <2>3, <2>4, TableKept
<1> QED
  BY <1>2, <1>7, <1>8

LEMMA RemoveStep == ASSUME MapInv, NEW k \in Keys, MapRemove(k) PROVE MapInv'
<1> DEFINE S == ToSet(list)
<1>1. HashTyped /\ Listed
  BY DEF MapInv
<1>2. /\ Found(k) /\ list' = Unlinked(list, k) /\ UNCHANGED hash
      /\ IF Len(list) = 1 THEN chain' = <<>> ELSE chain' = Unchain(k)
  BY DEF MapRemove
<1>3. k \in S /\ list # <<>>
  BY <1>2, FoundIsListed DEF Found
<1>4. /\ Listed' /\ ToSet(list') = S \ {k} /\ Len(list) \in Nat
      /\ list' \in Seq(Keys) /\ Len(list') = Len(list) - 1
  BY <1>1, <1>2, <1>3, UnlinkedFacts DEF Listed, Chain
<1>5. CASE Len(list) = 1
  <2>1. list' = <<>> /\ chain' = <<>>
    BY <1>2, <1>4, <1>5
  <2>2. HashTyped'
    BY <1>1, <1>2 DEF HashTyped
  <2> QED
    BY <1>4, <2>1, <2>2 DEF MapInv
<1>6. CASE Len(list) # 1
  <2>1. list' # <<>>
    <3>1. Len(list) # 0
      BY <1>1, <1>3 DEF Listed
    <3> QED
      BY <1>4, <1>6, <3>1
  <2>2. PICK n \in Nat \ {0} : chain \in [0 .. n - 1 -> Chain] /\ Holds(chain, n, S)
    BY <1>3 DEF MapInv
  <2>3. NumBuckets = n
    BY <2>2, BucketsCounted DEF NumBuckets
  <2>4. chain' = [chain EXCEPT ![Bucket(k, n)] = Unlinked(@, k)]
    BY <1>2, <1>6, <2>3 DEF Unchain
  <2>5. S \in SUBSET Keys
    BY <1>1 DEF Listed, ToSet
  <2> HIDE DEF S
  <2>6. LET new == [chain EXCEPT ![Bucket(k, n)] = Unlinked(@, k)]
        IN  new \in [0 .. n - 1 -> Chain] /\ Holds(new, n, S \ {k})
    BY <1>1, <1>3, <2>2, <2>5, UnchainedHolds
  <2> DEFINE new == [chain EXCEPT ![Bucket(k, n)] = Unlinked(@, k)]
  <2>7. new \in [0 .. n - 1 -> Chain] /\ Holds(new, n, S \ {k}) /\ chain' = new
    BY <2>4, <2>6
  <2> HIDE DEF new
  <2> QED
    BY <1>1, <1>2, <1>4, <2>1, <2>7, TableKept
<1> QED
  BY <1>5, <1>6

(***************************************************************************)
(* The length of chains.                                                   *)
(***************************************************************************)

\* expand_mult is never so small that a chain is longer than that many times the
\* ideal and once more, and never larger than needed for it.
LEMMA MultFacts ==
  ASSUME NEW n \in Nat, NEW most \in Nat \ {0}
  PROVE  /\ Mult(n, most) \in Nat
         /\ n <= (Mult(n, most) + 1) * most
         /\ Mult(n, most) # 0 => (Mult(n, most) - 1) * most < n
<1> DEFINE One(i, v) == IF i <= most THEN 0 ELSE v + (IF i > v * most THEN 1 ELSE 0)
           F(f) == [i \in 0 .. n |-> IF i <= most THEN 0
                                     ELSE f[i - 1] + (IF i > f[i - 1] * most THEN 1 ELSE 0)]
           G == [i \in 1 .. n |-> [v \in Nat |-> One(i, v)]]
           h == CHOOSE f : f = F(f)
<1>1. \A i \in 1 .. n, v \in Nat : One(i, v) \in Nat
  OBVIOUS
<1>2. G \in [1 .. n -> [Nat -> Nat]]
  BY <1>1
<1>3. PICK f \in [0 .. n -> Nat] : IsRun(f, 0, n, G)
  <2> HIDE DEF G
  <2> QED
    BY <1>2, RunExists
<1>4. f = F(f)
  <2>1. \A i \in 1 .. n : f[i] = One(i, f[i - 1])
    <3> SUFFICES ASSUME NEW i \in 1 .. n PROVE f[i] = One(i, f[i - 1])
      OBVIOUS
    <3>1. i - 1 \in 0 .. n
      OBVIOUS
    <3>2. f[i - 1] \in Nat
      BY <3>1
    <3>3. f[i] = G[i][f[i - 1]]
      BY <1>3 DEF IsRun
    <3> QED
      BY <3>2, <3>3
  <2>2. f[0] = 0
    BY <1>3 DEF IsRun
  <2>3. \A i \in 0 .. n : i = 0 \/ i \in 1 .. n
    OBVIOUS
  <2>4. \A i \in 0 .. n : f[i] = F(f)[i]
    BY <2>1, <2>2, <2>3
  <2> QED
    BY <2>4
<1>5. h = F(h)
  BY <1>4
<1>6. Mult(n, most) = h[n]
  BY DEF Mult
<1> HIDE DEF h
<1> DEFINE Good(i) == /\ h[i] \in Nat
                      /\ i <= (h[i] + 1) * most
                      /\ h[i] # 0 => (h[i] - 1) * most < i
           P == {i \in 0 .. n : Good(i)}
<1>7. 0 \in P
  <2>1. h[0] = 0
    BY <1>5
  <2> QED
    BY <2>1
<1>8. ASSUME NEW i \in 0 .. n - 1, i \in P PROVE i + 1 \in P
  <2>1. i + 1 \in 0 .. n /\ (i + 1) - 1 = i
    OBVIOUS
  <2> DEFINE v == h[i]
             w == h[i + 1]
             x == v * most
             y == w * most
  <2>2. v \in Nat /\ i <= (v + 1) * most /\ (v # 0 => (v - 1) * most < i)
    BY <1>8
  <2>3. w = IF i + 1 <= most THEN 0 ELSE v + (IF i + 1 > x THEN 1 ELSE 0)
    BY <1>5, <2>1
  <2> HIDE DEF v, w
  <2>4. x \in Nat /\ (v + 1) * most = x + most /\ (v - 1) * most = x - most
    BY <2>2
  <2>5. i <= x + most
    BY <2>2, <2>4
  <2>6. w = 0 \/ w = v \/ w = v + 1
    BY <2>2, <2>3
  <2>7. w \in Nat
    BY <2>2, <2>6
  <2>8. y \in Nat /\ (w + 1) * most = y + most /\ (w - 1) * most = y - most
    BY <2>7
  <2>9. /\ w = 0 => y = 0
        /\ w = v => y = x
        /\ w = v + 1 => y = x + most
    BY <2>4
  <2> HIDE DEF x, y
  <2>10. i + 1 <= y + most /\ (w # 0 => y - most < i + 1)
    <3>1. i \in Nat
      OBVIOUS
    <3>2. CASE i + 1 <= most
      <4>1. w = 0 /\ y = 0
        BY <2>3, <2>9, <3>2
      <4> QED
        BY <3>1, <3>2, <4>1
    <3>3. CASE ~(i + 1 <= most) /\ i + 1 > x
      <4>1. w = v + 1
        BY <2>2, <2>3, <3>3
      <4>2. y = x + most
        BY <2>9, <4>1
      <4> QED
        BY <2>4, <2>5, <3>1, <3>3, <4>2
    <3>4. CASE ~(i + 1 <= most) /\ ~(i + 1 > x)
      <4>1. w = v
        BY <2>2, <2>3, <3>4
      <4>2. y = x
        BY <2>9, <4>1
      <4>3. v # 0 => x - most < i
        BY <2>2, <2>4
      <4> QED
        BY <2>4, <3>1, <3>4, <4>1, <4>2, <4>3
    <3> QED
      BY <3>2, <3>3, <3>4
  <2>11. i + 1 <= (w + 1) * most /\ (w # 0 => (w - 1) * most < i + 1)
    BY <2>8, <2>10
  <2> QED
    BY <2>1, <2>7, <2>11 DEF w
<1>9. n \in P
  <2> HIDE DEF P
  <2>1. \A i \in 0 .. n : i \in P
    BY <1>7, <1>8, Stepwise
  <2> QED
    BY <2>1
<1> QED
  BY <1>6, <1>9

\* The ideal length of a chain is enough for all elements.
LEMMA IdealFacts ==
  ASSUME NEW items \in Nat \ {0}, NEW d \in Nat \ {0}
  PROVE  /\ (items + d - 1) \div d \in Nat \ {0}
         /\ items <= d * ((items + d - 1) \div d)
<1> DEFINE x == items + d - 1
           q == x \div d
           r == x % d
<1>1. x \in Nat /\ x >= d
  OBVIOUS
<1> HIDE DEF x
<1>2. q \in Nat /\ r \in Nat /\ r < d /\ x = d * q + r
  BY <1>1
<1> HIDE DEF q, r
<1>3. q # 0
  BY <1>1, <1>2
<1>4. items <= d * q
  <2>1. d * q \in Nat
    BY <1>2
  <2> QED
    BY <1>2, <2>1 DEF x
<1> QED
  BY <1>2, <1>3, <1>4 DEF q, x

\* A chain is no longer than the list.
LEMMA ChainFits ==
  ASSUME NEW s \in Seq(Keys), IsInjective(s), NEW v \in Seq(Keys),
         ToSet(s) \subseteq ToSet(v)
  PROVE  Len(s) <= Len(v)
<1> DEFINE T == ToSet(v)
<1>1. /\ Len(s) \in Nat /\ DOMAIN s = 1 .. Len(s) /\ s = [i \in 1 .. Len(s) |-> s[i]]
      /\ Len(v) \in Nat /\ DOMAIN v = 1 .. Len(v) /\ v = [i \in 1 .. Len(v) |-> v[i]]
  OBVIOUS
<1>2. /\ IsFiniteSet(1 .. Len(v)) /\ Cardinality(1 .. Len(v)) = Len(v)
      /\ IsFiniteSet(1 .. Len(s)) /\ Cardinality(1 .. Len(s)) = Len(s)
  <2>1. ASSUME NEW z \in Nat PROVE IsFiniteSet(1 .. z) /\ Cardinality(1 .. z) = z
    BY FS_Interval
  <2> QED
    BY <1>1, <2>1
<1>3. v \in Surjection(1 .. Len(v), T)
  BY <1>1 DEF Surjection, ToSet
<1>4. s \in Injection(1 .. Len(s), T)
  <2>1. \A i \in 1 .. Len(s) : s[i] \in T
    BY <1>1 DEF ToSet
  <2>2. \A i, j \in 1 .. Len(s) : s[i] = s[j] => i = j
    BY <1>1 DEF IsInjective
  <2>3. s \in [1 .. Len(s) -> T]
    BY <1>1, <2>1
  <2> QED
    BY <2>2, <2>3 DEF Injection, IsInjective
<1> HIDE DEF T
<1>5. IsFiniteSet(T) /\ Cardinality(T) <= Cardinality(1 .. Len(v))
  BY <1>2, <1>3, FS_Surjection
<1>6. Cardinality(1 .. Len(s)) <= Cardinality(T)
  BY <1>4, <1>5, FS_Injection
<1>7. Cardinality(T) \in Nat
  BY <1>5, FS_CardinalityType
<1> QED
  BY <1>1, <1>2, <1>5, <1>6, <1>7

Bounded ==
  /\ ideal \in Nat /\ ineff \in Nat /\ noexpand \in BOOLEAN
  /\ DOMAIN mult = DOMAIN chain
  /\ ChainsBounded

\* A table that was expanded is within its bounds, wherever its keys went.
LEMMA ExpandBounded ==
  ASSUME NEW m \in Nat \ {0}, NEW t, DOMAIN t = 0 .. m - 1, NEW items \in Nat \ {0},
         Expand(t, items), ineff \in Nat, noexpand \in BOOLEAN,
         \A b \in DOMAIN chain' : Len(chain'[b]) \in 0 .. items
  PROVE  Bounded'
<1> DEFINE new == Split(t, m)
           d == 2 * m
           most == (items + d - 1) \div d
<1>1. Cardinality(DOMAIN t) = m
  BY BucketsCounted
<1>2. /\ chain' = new /\ mult' = [b \in DOMAIN new |-> Mult(Len(new[b]), most)]
      /\ ideal' = most /\ ineff' \in Nat /\ noexpand' \in BOOLEAN
  <2>1. chain' = new
    BY <1>1 DEF Expand
  <2>2. mult' = [b \in DOMAIN new |-> Mult(Len(new[b]), most)]
    BY <1>1 DEF Expand
  <2>3. ideal' = most
    BY <1>1 DEF Expand
  <2>4. ineff' \in {0, ineff + 1} /\ noexpand' \in {TRUE, noexpand, ineff' > 1}
    <3>1. ineff' \in {0, ineff + 1}
      BY ZenonT(30) DEF Expand
    <3>2. noexpand' = (noexpand \/ ineff' > 1)
      BY ZenonT(30) DEF Expand
    <3> QED
      BY <3>1, <3>2
  <2> QED
    BY <2>1, <2>2, <2>3, <2>4
<1>3. DOMAIN new = 0 .. d - 1 /\ d \in Nat \ {0}
  BY DEF Split
<1>4. most \in Nat \ {0} /\ items <= d * most
  <2> HIDE DEF d
  <2> QED
    BY <1>3, IdealFacts
<1> HIDE DEF new, d, most
<1>5. NumBuckets' = d
  BY <1>2, <1>3, BucketsCounted DEF NumBuckets
<1>6. ASSUME NEW b \in DOMAIN chain'
      PROVE  mult'[b] \in 0 .. d /\ Len(chain'[b]) <= (mult'[b] + 1) * most
  <2> DEFINE n == Len(chain'[b])
             w == Mult(n, most)
  <2>1. n \in Nat /\ n <= items
    OBVIOUS
  <2>2. mult'[b] = w
    BY <1>2
  <2> HIDE DEF n
  <2>3. w \in Nat /\ n <= (w + 1) * most /\ (w # 0 => (w - 1) * most < n)
    BY <1>4, <2>1, MultFacts
  <2> HIDE DEF w
  <2>4. w <= d
    <3> SUFFICES ASSUME w > d PROVE FALSE
      BY <1>3, <2>3
    <3>1. w - 1 >= d /\ w # 0
      BY <1>3, <2>3
    <3>2. (w - 1) * most >= d * most
      BY <1>3, <1>4, <2>3, <3>1
    <3>3. (w - 1) * most \in Int /\ d * most \in Int
      BY <1>3, <1>4, <2>3
    <3> QED
      BY <1>4, <2>1, <2>3, <3>1, <3>2, <3>3
  <2> QED
    BY <1>3, <2>2, <2>3, <2>4 DEF n
<1>7. DOMAIN mult' = DOMAIN chain'
  BY <1>2
<1>8. ChainsBounded'
  BY <1>2, <1>5, <1>6 DEF ChainsBounded
<1> QED
  BY <1>2, <1>4, <1>7, <1>8 DEF Bounded

LEMMA InsertBounded ==
  ASSUME MapInv, Bounded, NEW k \in Keys, MapInsert(k), MapInv'
  PROVE  Bounded'
<1>1. PICK m \in Nat \ {0} :
        /\ Table \in [0 .. m - 1 -> Chain] /\ Holds(Table, m, ToSet(list))
        /\ Cardinality(DOMAIN Table) = m
  BY TableFacts
<1> DEFINE b == Bucket(k, m)
           T == Table
           t == [T EXCEPT ![b] = <<k>> \o @]
<1>2. b \in 0 .. m - 1
  BY BucketTyped DEF MapInv
<1> HIDE DEF b
<1>3. DOMAIN t = 0 .. m - 1 /\ \A c \in 0 .. m - 1 : c # b => t[c] = T[c]
  BY <1>1
<1>4. ideal \in Nat /\ ineff \in Nat /\ noexpand \in BOOLEAN
  BY DEF Bounded
<1>5. /\ list' = Append(list, k)
      /\ IF Len(t[b]) >= (Mults[b] + 1) * Threshold /\ ~noexpand
         THEN Expand(t, Len(list) + 1)
         ELSE chain' = t /\ mult' = Mults /\ UNCHANGED <<ideal, ineff, noexpand>>
  BY <1>1 DEF MapInsert, b
<1> HIDE DEF t
<1>6. CASE Expand(t, Len(list) + 1)
  <2>1. Len(list) \in Nat /\ Len(list') = Len(list) + 1
    BY <1>5 DEF MapInv, Listed
  <2>2. list' \in Seq(Keys) /\ list' # <<>>
    <3>1. list' \in Seq(Keys)
      BY DEF MapInv, Listed
    <3> QED
      BY <2>1, <3>1
  <2>3. PICK n \in Nat \ {0} : chain' \in [0 .. n - 1 -> Chain] /\ Holds(chain, n, ToSet(list))'
    BY <2>2 DEF MapInv
  <2>4. ASSUME NEW c \in DOMAIN chain' PROVE Len(chain'[c]) \in 0 .. Len(list) + 1
    <3> DEFINE s == chain'[c]
               v == list'
    <3>1. s \in Seq(Keys) /\ IsInjective(s) /\ ToSet(s) \subseteq ToSet(v)
      BY <2>3 DEF Holds, Chain
    <3>2. v \in Seq(Keys)
      BY <2>2
    <3> HIDE DEF s, v
    <3>3. Len(s) <= Len(v) /\ Len(s) \in Nat
      BY <3>1, <3>2, ChainFits
    <3> QED
      BY <2>1, <3>3 DEF s, v
  <2>5. Len(list) + 1 \in Nat \ {0}
    BY <2>1
  <2> QED
    BY <1>3, <1>4, <1>6, <2>4, <2>5, ExpandBounded
<1>7. CASE /\ ~(Len(t[b]) >= (Mults[b] + 1) * Threshold /\ ~noexpand)
           /\ chain' = t /\ mult' = Mults /\ UNCHANGED <<ideal, ineff, noexpand>>
  <2>1. /\ DOMAIN Mults = 0 .. m - 1
        /\ \A c \in 0 .. m - 1 :
             /\ Mults[c] \in 0 .. m
             /\ \/ noexpand
                \/ Len(T[c]) < (Mults[c] + 1) * Threshold
                \/ Len(T[c]) <= (Mults[c] + 1) * ideal
    <3>1. CASE list = <<>>
      <4>1. T = [c \in 0 .. FirstBuckets - 1 |-> <<>>]
            /\ Mults = [c \in 0 .. FirstBuckets - 1 |-> 0]
        BY <3>1 DEF Table, Mults
      <4>2. FirstBuckets \in Nat \ {0} /\ Threshold \in Nat \ {0}
        BY BucketAssumption
      <4>3. FirstBuckets = m
        BY <1>1, <4>1, <4>2, BucketsCounted
      <4>4. \A c \in 0 .. m - 1 : Mults[c] = 0 /\ Len(T[c]) = 0
        BY <4>1, <4>3
      <4> QED
        BY <4>1, <4>2, <4>3, <4>4
    <3>2. CASE list # <<>>
      <4>1. T = chain /\ Mults = mult
        BY <3>2 DEF Table, Mults
      <4>2. DOMAIN chain = 0 .. m - 1 /\ NumBuckets = m
        BY <1>1, <4>1 DEF NumBuckets
      <4> QED
        BY <4>1, <4>2 DEF Bounded, ChainsBounded
    <3> QED
      BY <3>1, <3>2
  <2>2. NumBuckets' = m
    BY <1>3, <1>7, BucketsCounted DEF NumBuckets
  <2>3. Len(t[b]) \in Nat
    <3> DEFINE s == T[b]
    <3>1. s \in Seq(Keys)
      BY <1>1, <1>2 DEF Chain
    <3> HIDE DEF s
    <3>2. <<k>> \o s \in Seq(Keys)
      BY <3>1
    <3>3. t[b] = <<k>> \o s
      BY <1>1, <1>2 DEF t, s
    <3> QED
      BY <3>2, <3>3
  <2>4. (Mults[b] + 1) * Threshold \in Nat
    BY <1>2, <2>1, BucketAssumption
  <2>5. noexpand \/ Len(t[b]) < (Mults[b] + 1) * Threshold
    BY <1>7, <2>3, <2>4
  <2>6. ChainsBounded'
    <3> SUFFICES ASSUME NEW c \in 0 .. m - 1
                 PROVE  /\ Mults[c] \in 0 .. m
                        /\ \/ noexpand
                           \/ Len(t[c]) < (Mults[c] + 1) * Threshold
                           \/ Len(t[c]) <= (Mults[c] + 1) * ideal
      BY <1>3, <1>7, <2>2 DEF ChainsBounded
    <3>1. CASE c = b
      BY <2>1, <2>5, <3>1
    <3>2. CASE c # b
      BY <1>3, <2>1, <3>2
    <3> QED
      BY <3>1, <3>2
  <2> QED
    BY <1>3, <1>4, <1>7, <2>1, <2>6 DEF Bounded
<1> QED
  BY <1>5, <1>6, <1>7

LEMMA RemoveBounded ==
  ASSUME MapInv, Bounded, NEW k \in Keys, MapRemove(k)
  PROVE  Bounded'
<1>1. CASE Len(list) = 1
  <2>1. chain' = <<>> /\ mult' = <<>> /\ ideal' = 0 /\ ineff' = 0 /\ noexpand' = FALSE
    BY <1>1 DEF MapRemove
  <2>2. DOMAIN chain' = {} /\ DOMAIN mult' = {}
    BY <2>1
  <2> QED
    BY <2>1, <2>2 DEF Bounded, ChainsBounded
<1>2. CASE Len(list) # 1
  <2>1. Found(k) /\ chain' = Unchain(k) /\ UNCHANGED <<mult, ideal, ineff, noexpand>>
    BY <1>2 DEF MapRemove
  <2>2. list # <<>> /\ k \in ToSet(list)
    BY <2>1, FoundIsListed DEF Found
  <2>3. PICK n \in Nat \ {0} : chain \in [0 .. n - 1 -> Chain] /\ Holds(chain, n, ToSet(list))
    BY <2>2 DEF MapInv
  <2>4. NumBuckets = n
    BY <2>3, BucketsCounted DEF NumBuckets
  <2> DEFINE b == Bucket(k, n)
             s == chain[b]
  <2>5. b \in 0 .. n - 1
    BY BucketTyped DEF MapInv
  <2>6. chain' = [chain EXCEPT ![b] = Unlinked(s, k)]
    BY <2>1, <2>4 DEF Unchain
  <2>7. s \in Chain /\ IsInjective(s) /\ k \in ToSet(s)
    BY <2>2, <2>3, <2>5 DEF Holds
  <2> HIDE DEF b, s
  <2>8. Len(s) \in Nat /\ Len(Unlinked(s, k)) = Len(s) - 1
    BY <2>7, UnlinkedFacts
  <2>9. DOMAIN chain' = 0 .. n - 1 /\ DOMAIN chain = 0 .. n - 1 /\ NumBuckets' = n
    BY <2>3, <2>4, <2>6, BucketsCounted DEF NumBuckets
  <2>10. \A c \in 0 .. n - 1 : c # b => chain'[c] = chain[c]
    BY <2>3, <2>6
  <2>11. chain'[b] = Unlinked(s, k) /\ s = chain[b]
    BY <2>3, <2>5, <2>6 DEF s
  <2>12. ChainsBounded'
    <3> SUFFICES ASSUME NEW c \in 0 .. n - 1
                 PROVE  /\ mult[c] \in 0 .. n
                        /\ \/ noexpand
                           \/ Len(chain'[c]) < (mult[c] + 1) * Threshold
                           \/ Len(chain'[c]) <= (mult[c] + 1) * ideal
      BY <2>1, <2>9 DEF ChainsBounded
    <3>1. /\ mult[c] \in 0 .. n
          /\ \/ noexpand
             \/ Len(chain[c]) < (mult[c] + 1) * Threshold
             \/ Len(chain[c]) <= (mult[c] + 1) * ideal
      BY <2>4, <2>9 DEF Bounded, ChainsBounded
    <3>2. CASE c = b
      <4> DEFINE u == (mult[c] + 1) * Threshold
                 w == (mult[c] + 1) * ideal
      <4>1. u \in Nat /\ w \in Nat
        BY <3>1, BucketAssumption DEF Bounded
      <4>2. Len(chain'[c]) = Len(chain[c]) - 1 /\ Len(chain[c]) \in Nat
        BY <2>8, <2>11, <3>2
      <4>3. noexpand \/ Len(chain[c]) < u \/ Len(chain[c]) <= w
        BY <3>1
      <4> HIDE DEF u, w
      <4>4. noexpand \/ Len(chain'[c]) < u \/ Len(chain'[c]) <= w
        BY <4>1, <4>2, <4>3
      <4> QED
        BY <3>1, <4>4 DEF u, w
    <3>3. CASE c # b
      BY <2>10, <3>1, <3>3
    <3> QED
      BY <3>2, <3>3
  <2> QED
    BY <2>1, <2>9, <2>12 DEF Bounded
<1> QED
  BY <1>1, <1>2

\* A key is found exactly while it is in the list, and chains are kept short: for
\* every hash function, however bad, for any number of keys, and through every
\* expansion of the table.
THEOREM MapFindsAll == MapSpec => []FindsAll
<1> DEFINE Inv == MapInv /\ Bounded /\ hash \in Hashes
<1>1. MapInit => Inv
  <2> SUFFICES ASSUME MapInit PROVE Inv
    OBVIOUS
  <2>1. hash \in Hashes /\ hash \in [Keys -> Nat] /\ list = <<>> /\ chain = <<>>
    BY HashAssumption DEF MapInit
  <2>2. Listed
    BY <2>1 DEF Listed, IsInjective
  <2>3. Bounded
    <3>1. DOMAIN chain = {} /\ DOMAIN mult = {}
      BY DEF MapInit
    <3> QED
      BY <3>1 DEF MapInit, Bounded, ChainsBounded
  <2> QED
    BY <2>1, <2>2, <2>3 DEF MapInv, HashTyped
<1>2. Inv /\ [MapNext]_mapVars => Inv'
  <2> SUFFICES ASSUME MapInv, Bounded, hash \in Hashes, [MapNext]_mapVars PROVE Inv'
    OBVIOUS
  <2>1. ASSUME NEW k \in Keys, MapInsert(k) PROVE Inv'
    BY <2>1, InsertStep, InsertBounded DEF MapInsert
  <2>2. ASSUME NEW k \in Keys, MapRemove(k) PROVE Inv'
    BY <2>2, RemoveStep, RemoveBounded DEF MapRemove
  <2>3. CASE UNCHANGED mapVars
    BY <2>3 DEF mapVars, MapInv, HashTyped, Listed, Holds, Bucket, HashJen, Bounded,
       ChainsBounded, NumBuckets
  <2> QED
    BY <2>1, <2>2, <2>3 DEF MapNext
<1>3. Inv => FindsAll
  <2> SUFFICES ASSUME MapInv, Bounded, hash \in Hashes PROVE FindsAll
    OBVIOUS
  <2>1. list \in Seq(Keys) /\ IsInjective(list)
    BY DEF MapInv, Listed
  <2>2. ToSet(list) \subseteq Keys
    BY <2>1 DEF ToSet
  <2>3. list = <<>> <=> NumBuckets = 0
    <3>1. CASE list = <<>> /\ chain = <<>>
      <4>1. DOMAIN chain = {} /\ Cardinality({}) = 0
        BY <3>1, FS_EmptySet
      <4> QED
        BY <3>1, <4>1 DEF NumBuckets
    <3>2. CASE list # <<>> /\ \E n \in Nat \ {0} : chain \in [0 .. n - 1 -> Chain]
      BY <3>2, BucketsCounted DEF NumBuckets
    <3> QED
      BY <3>1, <3>2 DEF MapInv
  <2>4. MapTypeOK
    BY <2>1, <2>2, <2>3 DEF MapTypeOK, Bounded
  <2> QED
    BY <2>4, FoundIsListed DEF FindsAll, Bounded
<1> QED
  BY <1>1, <1>2, <1>3, PTL DEF MapSpec
=============================================================================
