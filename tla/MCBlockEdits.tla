---------------------------- MODULE MCBlockEdits ----------------------------
(***************************************************************************)
(* Instances of BlockEdits for TLC: the world is a row of chunks.          *)
(***************************************************************************)
EXTENDS BlockEdits

CONSTANT Length

MCChunk == 1..Length
MCDistance == [a \in MCChunk |-> [b \in MCChunk |-> IF a < b THEN b - a ELSE a - b]]
=============================================================================
