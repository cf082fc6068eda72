----------------------------- MODULE BlockEdits -----------------------------
(***************************************************************************)
(* Edits of blocks and the clients' copies of chunks.  A plugin edits a    *)
(* block (edit_world_block_raw, plugins/server_plugin/host_functions.rs),  *)
(* and the change is sent at once to every client that watches the chunk   *)
(* (network/sync_world_change.rs), while the chunk itself may still be on  *)
(* its way to the client through the tasks and the channel of              *)
(* network/chunks_sender.rs.                                               *)
(*                                                                         *)
(* Composes module ChunkDelivery with the data of the chunks: every step   *)
(* is a step of ChunkDelivery, together with what it does to the data, or  *)
(* an edit.  The data of a chunk is the number of the last edit in it.     *)
(* That a column keeps its edits while it is dropped and loaded again is   *)
(* the subject of module WorldChunks and assumed here.                     *)
(*                                                                         *)
(* EditBlock and chunk data are messages of one type, WorldInfo, which     *)
(* keep their order: what a client holds once it has received everything   *)
(* is decided when they are sent, and copy is that.                        *)
(***************************************************************************)
EXTENDS ChunkDelivery

CONSTANTS
  MaxEdits,    \* bound on the edits of all chunks together
  None         \* no copy, no snapshot

ASSUME EditsAssumption == MaxEdits \in Nat /\ None \notin Nat

VARIABLES
  edits,       \* the last edit of each chunk
  total,       \* how many edits there were
  snapshot,    \* what a compression task made, or will make of a dropped column;
               \* None if it will read the column of the map
  copy,        \* what the client holds of each chunk
  missed       \* history: <<p, ch>> where the copy of p, or the snapshot for it,
               \* was left out of an edit of ch

data == <<edits, total, snapshot, copy, missed>>
allVars == <<vars, data>>

InitEdits ==
  /\ Init
  /\ edits = [ch \in Chunk |-> 0]
  /\ total = 0
  /\ snapshot = [p \in Player |-> [ch \in Chunk |-> None]]
  /\ copy = [p \in Player |-> [ch \in Chunk |-> None]]
  /\ missed = {}

-----------------------------------------------------------------------------
(* Edits.                                                                  *)

\* Mutation: the change goes to the clients that confirmed the chunk.
Recipients_Confirmed(ch) == {p \in by_chunk[ch] : connected[p] /\ ch \in confirmed_chunks[p]}

\* sync_world_block_change: the watchers of the chunk, whatever they hold.
Recipients(ch) == {p \in by_chunk[ch] : connected[p]}

\* Snapshots that an edit of ch does not reach: those that are made, and those
\* whose task holds a column that is no longer in the map.
Frozen(ch) == {p \in Player : snapshot[p][ch] # None}

\* Copies that the message about an edit of ch does not reach.
Unreached(ch) == {p \in Player : copy[p][ch] # None /\ p \notin by_chunk[ch]}

\* edit_world_block_raw, for a column that is loaded; it fails for one that is
\* not in the map, and ends in a panic for one that is loading.  A client
\* ignores the change of a chunk it does not hold.
EditBlock(ch) ==
  /\ total < MaxEdits
  /\ column[ch] = "loaded"
  /\ total' = total + 1
  /\ edits' = [edits EXCEPT ![ch] = total + 1]
  /\ copy' = [p \in Player |->
       [copy[p] EXCEPT ![ch] = IF p \in Recipients(ch) /\ @ # None THEN total + 1 ELSE @]]
  /\ missed' = missed \cup ((Frozen(ch) \cup Unreached(ch)) \X {ch})
  /\ UNCHANGED <<vars, snapshot>>

-----------------------------------------------------------------------------
(* The steps of ChunkDelivery.                                             *)

\* The client drops what it is told to unload.
UnloadCopies(p, to) ==
  LET unload == AbandonedChunks(p, to) \cap confirmed_chunks[p]
  IN /\ copy' = [copy EXCEPT ![p] = [ch \in Chunk |-> IF ch \in unload THEN None ELSE @[ch]]]
     /\ missed' = missed \ ({p} \X unload)
     /\ UNCHANGED <<edits, total, snapshot>>

\* With the connection the copies are gone.
DropCopies(p) ==
  /\ copy' = [copy EXCEPT ![p] = [ch \in Chunk |-> None]]
  /\ missed' = {pair \in missed : pair[1] # p}
  /\ UNCHANGED <<edits, total, snapshot>>

\* A task that waits holds the column, also when it is dropped from the map.
FreezeColumns(despawned) ==
  /\ snapshot' = [p \in Player |-> [ch \in Chunk |->
       IF ch \in despawned /\ <<p, ch>> \in compressing /\ snapshot[p][ch] = None
       THEN edits[ch] ELSE snapshot[p][ch]]]
  /\ UNCHANGED <<edits, total, copy, missed>>

\* build_network_format reads the column when the task runs.
TakeSnapshot(p, ch) ==
  /\ snapshot' = [snapshot EXCEPT ![p][ch] = IF @ = None THEN edits[ch] ELSE @]
  /\ UNCHANGED <<edits, total, copy, missed>>

\* The prepared chunks are sent; those of clients that have gone are dropped.
SendSnapshots ==
  /\ copy' = [p \in Player |-> [ch \in Chunk |->
       IF <<p, ch>> \in prepared /\ Known(p) /\ connected[p]
       THEN snapshot[p][ch] ELSE copy[p][ch]]]
  /\ snapshot' = [p \in Player |-> [ch \in Chunk |->
       IF <<p, ch>> \in prepared THEN None ELSE snapshot[p][ch]]]
  /\ UNCHANGED <<edits, total, missed>>

-----------------------------------------------------------------------------
EditsPlayerStep(p) ==
  \/ SpawnPlayer(p) /\ UNCHANGED data
  \/ \E to \in Chunk : (OnPlayerMove(p, to) \/ Teleport(p, to)) /\ UnloadCopies(p, to)
  \/ LoseConnection(p) /\ DropCopies(p)
  \/ OnDisconnect(p) /\ UNCHANGED data

NextEdits ==
  \/ \E p \in Player :
       \/ EditsPlayerStep(p)
       \/ SendChunks(p) /\ UNCHANGED data
       \/ \E ch \in Chunk : Compress(p, ch) /\ TakeSnapshot(p, ch)
       \/ ClientStep(p) /\ UNCHANGED data
  \/ \E despawned \in SUBSET Despawnable :
       UpdateChunksState(despawned) /\ FreezeColumns(despawned)
  \/ \E ch \in Chunk : LoadChunk(ch) /\ UNCHANGED data
  \/ FlushCompressedChunks /\ SendSnapshots
  \/ \E ch \in Chunk : EditBlock(ch)

SpecEdits == InitEdits /\ [][NextEdits]_allVars

\* Nobody has to edit; the rest is as fair as in ChunkDelivery.
FairSpecEdits == SpecEdits /\ Fairness

-----------------------------------------------------------------------------
(* Properties.                                                             *)

\* Every variable has its type.
EditsTypeOK ==
  /\ TypeOK
  /\ edits \in [Chunk -> Nat]
  /\ total \in Nat
  /\ snapshot \in [Player -> [Chunk -> Nat \cup {None}]]
  /\ copy \in [Player -> [Chunk -> Nat \cup {None}]]
  /\ missed \in SUBSET Pipeline

\* The copy of a chunk that a client holds shows the last edit of the chunk,
\* unless an edit came while the snapshot for the client was made and not yet
\* sent (or its task held a column that was dropped meanwhile), or while the
\* client held the chunk and did not watch it.
CopiesCurrent ==
  \A p \in Player, ch \in Chunk :
    copy[p][ch] \in {None, edits[ch]} \/ <<p, ch>> \in missed

\* The client ends with the copy that was decided when the messages were sent:
\* it holds a chunk, once the messages about it have arrived, exactly if it has
\* a copy.
CopiesArrive ==
  OneOrder => \A p \in Player, ch \in Chunk :
    connected[p] =>
      (copy[p][ch] # None <=> IF wire[p][ch] = <<>> THEN ch \in held[p]
                              ELSE Last(wire[p][ch]) = "chunk")
=============================================================================
