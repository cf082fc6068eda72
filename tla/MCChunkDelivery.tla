-------------------------- MODULE MCChunkDelivery --------------------------
(***************************************************************************)
(* Instances of ChunkDelivery for TLC: the world is a row of chunks.       *)
(***************************************************************************)
EXTENDS ChunkDelivery

CONSTANT Length

MCChunk == 1..Length
MCDistance == [a \in MCChunk |-> [b \in MCChunk |-> IF a < b THEN b - a ELSE a - b]]
=============================================================================
