------------------------- MODULE MCEntityStreaming -------------------------
(***************************************************************************)
(* Instances of EntityStreaming for TLC: the world is a row of chunks.     *)
(***************************************************************************)
EXTENDS EntityStreaming, TLC

CONSTANT Length

MCChunk == 1..Length
MCDistance == [a \in MCChunk |-> [b \in MCChunk |-> IF a < b THEN b - a ELSE a - b]]
StreamSymmetry == Permutations(Player) \cup Permutations(Skin)
=============================================================================
