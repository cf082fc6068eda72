-------------------------- MODULE ChunksLoadState --------------------------
(***************************************************************************)
(* The tickets that say which player watches which chunk                   *)
(* (worlds/chunks/chunks_load_state.rs), and the three operations of       *)
(* ChunkMap that hand them out (worlds/chunks/chunks_map.rs): a player     *)
(* enters a world, moves to another chunk, leaves the world.               *)
(*                                                                         *)
(* The code keeps every ticket twice, under the chunk and under the        *)
(* entity, in two maps of vectors.  The vectors are sets here: a ticket is *)
(* pushed only by start_chunks_render, for an entity just spawned, and by  *)
(* update_chunks_render, behind the test !old.contains(chunk), so a vector *)
(* never holds an element twice.  A key that is absent from a map is the   *)
(* empty set.                                                              *)
(***************************************************************************)
EXTENDS Integers, FiniteSets

CONSTANTS
  Player,     \* entities of players; a player has one entity per world
  Chunk,      \* chunk positions
  Distance,   \* distance of two chunk positions, in chunks
  Radius      \* CHUNKS_DISTANCE

ASSUME GeometryAssumption ==
  /\ IsFiniteSet(Chunk)
  /\ Distance \in [Chunk -> [Chunk -> Nat]]
  /\ \A ch \in Chunk : Distance[ch][ch] = 0
  /\ Radius \in Nat

VARIABLES
  by_chunk,   \* players that watch a chunk
  by_entity   \* chunks that a player watches

tickets == <<by_chunk, by_entity>>

\* The chunks the spiral iterator visits around a centre.
View(center) == {ch \in Chunk : Distance[center][ch] <= Radius}

-----------------------------------------------------------------------------

TicketsInit ==
  /\ by_chunk = [ch \in Chunk |-> {}]
  /\ by_entity = [p \in Player |-> {}]

\* Mutation: remove_ticket forgets the map by chunk.
ChangeTickets_KeepWatchers(p, added, removed) ==
  /\ by_chunk' = [ch \in Chunk |-> IF ch \in added THEN by_chunk[ch] \cup {p}
                                    ELSE by_chunk[ch]]
  /\ by_entity' = [by_entity EXCEPT ![p] = (@ \cup added) \ removed]

\* insert_ticket for every chunk of added, remove_ticket for every chunk of
\* removed.
ChangeTickets(p, added, removed) ==
  /\ by_chunk' = [ch \in Chunk |->
                    IF ch \in added THEN by_chunk[ch] \cup {p}
                    ELSE IF ch \in removed THEN by_chunk[ch] \ {p}
                    ELSE by_chunk[ch]]
  /\ by_entity' = [by_entity EXCEPT ![p] = (@ \cup added) \ removed]

StartChunksRender(p, to) == ChangeTickets(p, View(to), {})

\* The chunks a move to another chunk makes visible, and those it abandons.
NewChunks(p, to) == View(to) \ by_entity[p]
AbandonedChunks(p, to) == by_entity[p] \ View(to)

UpdateChunksRender(p, to) ==
  ChangeTickets(p, NewChunks(p, to), AbandonedChunks(p, to))

StopChunksRender(p) ==
  /\ by_chunk' = [ch \in Chunk |-> by_chunk[ch] \ {p}]
  /\ by_entity' = [by_entity EXCEPT ![p] = {}]

-----------------------------------------------------------------------------

TicketsTypeOK ==
  /\ by_chunk \in [Chunk -> SUBSET Player]
  /\ by_entity \in [Player -> SUBSET Chunk]

\* Both maps tell the same story: p is among the watchers of ch exactly when
\* ch is among the chunks p watches.
TicketsMirror ==
  \A p \in Player, ch \in Chunk : p \in by_chunk[ch] <=> ch \in by_entity[p]
=============================================================================
