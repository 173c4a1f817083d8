------------------------------- MODULE MCAlone -------------------------------
(***************************************************************************)
(* The parts that share nothing with another process: the data structures  *)
(* of src/libks and the programs that read a build.  The initial state     *)
(* chooses the one that moves, so that the states of one run are those of  *)
(* each of them.                                                           *)
(***************************************************************************)
EXTENDS MCReport, Arena, Vector, HashMap, Buffer

CONSTANTS b1, b2, b3 \* model values

\* All keys in few buckets, in one bucket, or with numbers far apart.
Spread == [k \in 1 .. 5 |-> k]
Clash  == [k \in 1 .. 5 |-> 8 * (k \div 4)]
Sparse == [k \in 1 .. 5 |-> 2 * k + (k % 2)]
HashesUsed == {Spread, Clash, Sparse}

libksVars == <<arenaVars, vectorVars, mapVars, bufferVars>>

StillArena == UNCHANGED arenaVars
StillVector == UNCHANGED vectorVars
StillMap == UNCHANGED mapVars
StillBuffer == UNCHANGED bufferVars

\* A structure that does not move stays where it was made.
AloneInit ==
  /\ which \in {"arena", "vector", "map", "buffer", "log", "html", "report"}
  /\ AfterInit /\ ArenaInit /\ VectorInit /\ MapInit /\ BufferInit
  /\ which # "map" => hash = Spread
  /\ which # "buffer" => file = 0

LibksNext ==
  /\ \/ which = "arena" /\ ArenaNext /\ StillVector /\ StillMap /\ StillBuffer
     \/ which = "vector" /\ VectorNext /\ StillArena /\ StillMap /\ StillBuffer
     \/ which = "map" /\ MapNext /\ StillArena /\ StillVector /\ StillBuffer
     \/ which = "buffer" /\ BufferNext /\ StillArena /\ StillVector /\ StillMap
  /\ UNCHANGED afterVars

AloneNext == LibksNext \/ (AfterNext /\ UNCHANGED libksVars)

AloneSpec == AloneInit /\ [][AloneNext]_<<afterVars, libksVars>>
=============================================================================
