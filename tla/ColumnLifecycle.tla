-------------------------- MODULE ColumnLifecycle --------------------------
(***************************************************************************)
(* What ChunkMap promises about its columns, whatever players do: a column *)
(* is created, as loading, only for a chunk somebody watches; it becomes   *)
(* loaded once; and it is dropped only when it is loaded and nobody        *)
(* watches its chunk.                                                      *)
(***************************************************************************)
CONSTANT Chunk

VARIABLES
  watched,    \* the chunks that somebody watches
  column      \* the state of the column of each chunk

Init ==
  /\ watched = {}
  /\ column = [ch \in Chunk |-> "absent"]

\* Players come, move and leave.
ChangeWatched == watched' \in SUBSET Chunk /\ UNCHANGED column

\* Columns are created for some chunks and dropped for others.
Update ==
  /\ \E created, dropped \in SUBSET Chunk :
       /\ \A ch \in created : column[ch] = "absent" /\ ch \in watched
       /\ \A ch \in dropped : column[ch] = "loaded" /\ ch \notin watched
       /\ column' = [ch \in Chunk |-> IF ch \in created THEN "loading"
                                      ELSE IF ch \in dropped THEN "absent"
                                      ELSE column[ch]]
  /\ UNCHANGED watched

Finish(ch) ==
  /\ column[ch] = "loading"
  /\ column' = [column EXCEPT ![ch] = "loaded"]
  /\ UNCHANGED watched

Next == ChangeWatched \/ Update \/ \E ch \in Chunk : Finish(ch)

Spec == Init /\ [][Next]_<<watched, column>>
=============================================================================
