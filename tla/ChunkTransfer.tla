--------------------------- MODULE ChunkTransfer ---------------------------
(***************************************************************************)
(* What the server promises about one chunk and one player: the states of  *)
(* a chunk that the repository's README lists under "invariants and        *)
(* transitions" (README.md, lines 60-81).                                  *)
(*                                                                         *)
(* A chunk is idle (needed or not, but not sent), in flight (sent and      *)
(* waiting for the acknowledgement) or confirmed; it is in one state at a  *)
(* time, it is only ever sent while the player must see it, and a chunk in *)
(* flight is left alone until the client answers or leaves.                *)
(***************************************************************************)
EXTENDS FiniteSets

CONSTANTS Player, Chunk

VARIABLES
  needed,     \* the chunks each player must see now
  status      \* the state of each chunk for each player

States == {"idle", "in_flight", "confirmed"}

Init ==
  /\ needed = [p \in Player |-> {}]
  /\ status = [p \in Player |-> [ch \in Chunk |-> "idle"]]

\* The player enters the world or moves: confirmed chunks that are no longer
\* needed are unloaded, chunks in flight are not touched.
ChangeInterest(p, view) ==
  /\ needed' = [needed EXCEPT ![p] = view]
  /\ status' = [status EXCEPT ![p] =
        [ch \in Chunk |->
           IF @[ch] = "confirmed" /\ ch \in needed[p] \ view THEN "idle" ELSE @[ch]]]

\* Some needed chunks that are idle are sent.
Send(p, chunks) ==
  /\ chunks \subseteq {ch \in needed[p] : status[p][ch] = "idle"}
  /\ status' = [status EXCEPT ![p] =
        [ch \in Chunk |-> IF ch \in chunks THEN "in_flight" ELSE @[ch]]]
  /\ UNCHANGED needed

\* The client acknowledges some chunks in flight.
Confirm(p, chunks) ==
  /\ \A ch \in chunks : status[p][ch] = "in_flight"
  /\ status' = [status EXCEPT ![p] =
        [ch \in Chunk |-> IF ch \in chunks THEN "confirmed" ELSE @[ch]]]
  /\ UNCHANGED needed

\* The player leaves the server.
Forget(p) ==
  /\ needed' = [needed EXCEPT ![p] = {}]
  /\ status' = [status EXCEPT ![p] = [ch \in Chunk |-> "idle"]]

Next ==
  \E p \in Player :
    \/ \E chunks \in SUBSET Chunk :
         ChangeInterest(p, chunks) \/ Send(p, chunks) \/ Confirm(p, chunks)
    \/ Forget(p)

Spec == Init /\ [][Next]_<<needed, status>>
=============================================================================
