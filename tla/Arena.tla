-------------------------------- MODULE Arena --------------------------------
(***************************************************************************)
(* The arena allocator (src/libks/arena.c): a chain of frames from which   *)
(* blocks are cut one after the other, and scopes that give back what was  *)
(* cut since they were entered.  Offsets count from the start of a frame;  *)
(* the numbers of the trace and of valgrind are left out.                  *)
(***************************************************************************)
EXTENDS Growth, Sequences

CONSTANTS
  Blocks,    \* names for the blocks that the client holds at a time
  Sizes,     \* the sizes it asks for
  FrameSize, \* frame_size
  Header,    \* sizeof(struct arena_frame)
  Align,     \* maxalign
  Poison,    \* poison_size
  MaxScopes, \* bound on the number of scopes open at a time
  MaxFrames, \* bound on the number of frames
  Outer      \* whether the client grows a block of a scope around the current

ASSUME UnitAssumption ==
  /\ Align \in Nat \ {0}
  /\ Poison \in {0, Align}
  /\ Header \in Nat \ {0} /\ Header % Align = 0
ASSUME FrameAssumption == FrameSize \in Nat /\ FrameSize > Header + Poison
ASSUME SizeAssumption == Sizes \subseteq Nat /\ MaxScopes \in Nat /\ MaxFrames \in Nat
ASSUME OuterAssumption == Outer \in BOOLEAN

VARIABLES
  frames, \* the chain, a->frame being the last
  refs,   \* a->refs
  freed,  \* whether arena_free was called
  scopes, \* the open scopes, the innermost being the last
  block,  \* the blocks held: their frame, offset, size and scope
  fate    \* "ok", or why the process ended

arenaVars == <<frames, refs, freed, scopes, block, fate>>

NoBlock == [frame |-> 0, off |-> 0, size |-> 0, scope |-> 0]

\* align_address
AlignUp(n) ==
  LET up == ((n + Align - 1) \div Align) * Align
  IN  IF up - n < Poison THEN up + Poison ELSE up

Fits(frame, size) == frame.len + size <= frame.size

\* arena_push: the rest of the frame is given up when it has no room to align.
Push(frame, size) ==
  LET newlen == AlignUp(frame.len + size)
  IN  [frame EXCEPT !.len = IF newlen > frame.size THEN frame.size ELSE newlen]

\* arena_frame_alloc
NewFrame(size) == Push([size |-> size, len |-> 0], Header)

\* The frame size is doubled until all but the poison of the header fits: 0 if
\* it cannot be doubled that often.
FrameFor(size) == FirstRoom(FrameSize, size + Header + Poison)

Top == Len(frames)
Inner == Len(scopes)

ArenaInit ==
  /\ frames = <<NewFrame(FrameSize)>>
  /\ refs = 1
  /\ freed = FALSE
  /\ scopes = <<>>
  /\ block = [b \in Blocks |-> NoBlock]
  /\ fate = "ok"

ArenaLive == fate = "ok" /\ ~freed

\* arena_scope_enter
Enter ==
  /\ ArenaLive
  /\ Inner < MaxScopes
  /\ refs' = refs + 1
  /\ scopes' = Append(scopes, [frame |-> Top, len |-> frames[Top].len,
                               id |-> refs + 1, cleanup |-> <<>>])
  /\ UNCHANGED <<frames, freed, block, fate>>

\* Variant: the frames are freed, but the length of the last one is kept.
LeaveUnwound ==
  /\ Inner > 0
  /\ fate = "ok"
  /\ frames' = IF refs = 1 THEN <<>> ELSE SubSeq(frames, 1, scopes[Inner].frame)
  /\ block' = [b \in Blocks |->
                 IF block[b].scope = Inner THEN NoBlock ELSE block[b]]
  /\ refs' = refs - 1
  /\ scopes' = SubSeq(scopes, 1, Inner - 1)
  /\ UNCHANGED <<freed, fate>>

\* arena_scope_leave: the frames since the scope was entered are freed, all of
\* them if arena_free came first.
Leave ==
  /\ Inner > 0
  /\ fate = "ok"
  /\ LET s == scopes[Inner]
         kept == IF refs = 1 THEN <<>> ELSE SubSeq(frames, 1, s.frame)
     IN  frames' = IF kept = <<>> THEN kept
                   ELSE [kept EXCEPT ![s.frame].len = IF s.len <= @ THEN s.len ELSE 0]
  /\ block' = [b \in Blocks |->
                 IF block[b].scope = Inner THEN NoBlock ELSE block[b]]
  /\ refs' = refs - 1
  /\ scopes' = SubSeq(scopes, 1, Inner - 1)
  /\ UNCHANGED <<freed, fate>>

\* arena_malloc of scope s for b: what is done to the chain, or to the process
\* if the scope is not the innermost (arena_scope_validate) or the size too large.
Malloc(b, s, size) ==
  LET fits  == Fits(frames[Top], size)
      chain == IF fits THEN frames ELSE Append(frames, NewFrame(FrameFor(size)))
      top   == Len(chain)
      Ends(why) == fate' = why /\ UNCHANGED <<frames, block>>
  IN  IF scopes[s].id # refs THEN Ends("trap")
      ELSE IF ~fits /\ FrameFor(size) = 0 THEN Ends("too large")
      ELSE IF ~Fits(chain[top], size) THEN Ends("no room")
      ELSE /\ top <= MaxFrames
           /\ frames' = [chain EXCEPT ![top] = Push(@, size)]
           /\ block' = [block EXCEPT ![b] = [frame |-> top, off |-> chain[top].len,
                                            size |-> size, scope |-> s]]
           /\ UNCHANGED fate

Alloc(b) ==
  /\ ArenaLive
  /\ Inner > 0
  /\ block[b] = NoBlock
  /\ \E size \in Sizes : Malloc(b, Inner, size)
  /\ UNCHANGED <<refs, freed, scopes>>

\* arena_cleanup: a node on the list of the scope, cut from the arena itself.
AddCleanup(b) ==
  /\ ArenaLive
  /\ Inner > 0
  /\ block[b] = NoBlock
  /\ Malloc(b, Inner, Align)
  /\ scopes' = [scopes EXCEPT ![Inner].cleanup = IF fate' = "ok" THEN <<b>> \o @ ELSE @]
  /\ UNCHANGED <<refs, freed>>

\* Variant: whether the block is the last one is not looked at.
IsLastAny(b) == block[b].frame = Top

\* arena_realloc_fast: the block ends where the chain ends.
IsLast(b) ==
  /\ block[b].frame = Top
  /\ AlignUp(block[b].off + block[b].size) = frames[Top].len

\* arena_realloc by the scope of the block: it shrinks, or grows in place, or is
\* moved.  Only the last looks at whether there are scopes within.
Realloc(b) ==
  LET cut == [frames[Top] EXCEPT !.len = block[b].off]
  IN  /\ ArenaLive
      /\ block[b] # NoBlock
      /\ \A i \in DOMAIN scopes[block[b].scope].cleanup :
           scopes[block[b].scope].cleanup[i] # b
      /\ Outer \/ block[b].scope = Inner
      /\ \E size \in Sizes :
           IF size <= block[b].size THEN
             /\ block' = [block EXCEPT ![b].size = size]
             /\ UNCHANGED <<frames, fate>>
           ELSE IF IsLast(b) /\ Fits(cut, size) THEN
             /\ frames' = [frames EXCEPT ![Top] = Push(cut, size)]
             /\ block' = [block EXCEPT ![b].size = size]
             /\ UNCHANGED fate
           ELSE Malloc(b, block[b].scope, size)
      /\ UNCHANGED <<refs, freed, scopes>>

\* arena_free: with scopes left the arena lives until the last of them.
Free ==
  /\ ArenaLive
  /\ freed' = TRUE
  /\ refs' = refs - 1
  /\ frames' = IF refs > 1 THEN frames ELSE <<>>
  /\ UNCHANGED <<scopes, block, fate>>

ArenaNext ==
  \/ Enter
  \/ Leave
  \/ \E b \in Blocks : Alloc(b) \/ AddCleanup(b) \/ Realloc(b)
  \/ Free

ArenaSpec == ArenaInit /\ [][ArenaNext]_arenaVars
-----------------------------------------------------------------------------
Held == {b \in Blocks : block[b] # NoBlock}

Frame == [size : Nat, len : Nat]
Scope == [frame : Nat, len : Nat, id : Nat, cleanup : Seq(Blocks)]
Block == [frame : Nat, off : Nat, size : Nat, scope : Nat]

ArenaTypeOK ==
  /\ frames \in Seq(Frame)
  /\ freed \in BOOLEAN /\ refs = (IF freed THEN Inner ELSE Inner + 1)
  /\ scopes \in Seq(Scope)
  /\ block \in [Blocks -> Block]
  /\ fate \in {"ok", "trap", "too large", "no room"}

\* A block lies in the part of its frame that is given away, behind the header,
\* and no two blocks overlap, through nested scopes, new frames and blocks that
\* grow in place or move; a new frame has room for what it was made for ("Must
\* account for first arena_push() representing the actual frame").
BlocksApart ==
  /\ ArenaTypeOK /\ fate # "no room"
  /\ \A b \in Held :
       /\ block[b].frame \in DOMAIN frames
       /\ block[b].off >= Header
       /\ block[b].off + block[b].size <= frames[block[b].frame].len
       /\ frames[block[b].frame].len <= frames[block[b].frame].size
  /\ \A b, c \in Held :
       b # c /\ block[b].frame = block[c].frame =>
         \/ block[b].off + block[b].size <= block[c].off
         \/ block[c].off + block[c].size <= block[b].off

\* A scope gives back all that was cut since it was entered; the arena ends
\* with the last of its scopes and leaves no frame.
Reclaimed ==
  /\ scopes = <<>> /\ ~freed => frames = <<NewFrame(FrameSize)>>
  /\ refs = 0 => frames = <<>>
=============================================================================
