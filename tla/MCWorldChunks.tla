--------------------------- MODULE MCWorldChunks ---------------------------
(***************************************************************************)
(* Instances of WorldChunks for TLC: the world is a row of chunks.         *)
(***************************************************************************)
EXTENDS WorldChunks

CONSTANT Length

MCChunk == 1..Length
MCDistance == [a \in MCChunk |-> [b \in MCChunk |-> IF a < b THEN b - a ELSE a - b]]
PlayerSymmetry == Permutations(Player)
=============================================================================
