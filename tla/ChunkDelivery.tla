--------------------------- MODULE ChunkDelivery ---------------------------
(***************************************************************************)
(* How chunks reach the players' clients: the tickets of ChunksLoadState,  *)
(* the columns of ChunkMap as far as sending depends on them, the lists    *)
(* send_chunk_queue and confirmed_chunks of a Client (clients/client.rs),  *)
(* the system send_chunks and its compression tasks, the system            *)
(* flush_compressed_chunks (network/chunks_sender.rs), player movement and *)
(* unloading, and the clients that acknowledge what they receive.          *)
(*                                                                         *)
(* The actors are the Bevy systems of one tick, which run in any order,    *)
(* the rayon pool (load_chunk and compression tasks, which finish in any   *)
(* order), the network and the clients.  A system holds the worlds lock    *)
(* while it handles one client, so its work for one client is one step.    *)
(*                                                                         *)
(* The network library is outside the repository.  A message is delivered  *)
(* while the connection lasts; messages of one type keep their order.      *)
(* UnloadChunks is sent as ReliableOrdered and chunk data as WorldInfo:    *)
(* OneOrder says whether the two keep their mutual order as well.          *)
(***************************************************************************)
EXTENDS ChunksLoadState, Sequences, SequencesExt

CONSTANTS
  SpawnChunk,      \* chunk of the spawn position (0, 100, 0)
  QueueLimit,      \* SEND_CHUNK_QUEUE_LIMIT
  OneOrder

ASSUME DeliveryAssumption ==
  /\ IsFiniteSet(Player)
  /\ SpawnChunk \in Chunk
  /\ QueueLimit \in Nat \ {0}
  /\ OneOrder \in BOOLEAN

VARIABLES
  phase,             \* "lobby" until the player is spawned, then "world", then "gone";
                     \* "ghost" if it was spawned after its client had gone
  connected,         \* NetworkServer::is_connected
  position,          \* chunk of the player's Position component
  column,            \* ChunkMap.chunks: absent, loading or loaded
  send_chunk_queue,  \* sent and not yet acknowledged
  confirmed_chunks,  \* acknowledged
  compressing,       \* compression tasks in the rayon pool
  prepared,          \* the channel of ChunkCompressQueue
  wire,              \* messages about a chunk on their way to a client
  acks,              \* ChunkRecieved messages on their way to the server
  held               \* chunks the client holds

delivery == <<send_chunk_queue, confirmed_chunks, compressing, prepared, wire, acks, held>>
vars == <<tickets, phase, connected, position, column, delivery>>

Pipeline == Player \X Chunk
Messages == {"chunk", "unload"}

Init ==
  /\ TicketsInit
  /\ phase = [p \in Player |-> "lobby"]
  /\ connected = [p \in Player |-> TRUE]
  /\ position = [p \in Player |-> SpawnChunk]
  /\ column = [ch \in Chunk |-> "absent"]
  /\ send_chunk_queue = [p \in Player |-> {}]
  /\ confirmed_chunks = [p \in Player |-> {}]
  /\ compressing = {}
  /\ prepared = {}
  /\ wire = [p \in Player |-> [ch \in Chunk |-> <<>>]]
  /\ acks = [p \in Player |-> {}]
  /\ held = [p \in Player |-> {}]

\* Mutation: only the queue counts as sent.
AlreadySended_QueueOnly(p) == send_chunk_queue[p]

AlreadySended(p) == send_chunk_queue[p] \cup confirmed_chunks[p]

\* The client is in ClientsContainer.
Known(p) == phase[p] \in {"lobby", "world"}

\* connection.send_message: nothing travels on a connection that is down.
Post(p, chunks, message) ==
  wire' = [wire EXCEPT ![p] =
             [ch \in Chunk |-> IF connected[p] /\ ch \in chunks
                               THEN Append(@[ch], message) ELSE @[ch]]]

-----------------------------------------------------------------------------
(* Players enter, move and leave.                                          *)

\* SpawnPlayer::apply and WorldManager::spawn_player.  The command is queued by
\* on_settings_loaded and applied later in the tick: on_disconnect may come in
\* between, which leaves an entity, and tickets, that nobody removes.
SpawnPlayer(p) ==
  /\ phase[p] = "lobby"
  /\ \/ phase' = [phase EXCEPT ![p] = "world"]
     \/ ~connected[p] /\ phase' = [phase EXCEPT ![p] = "ghost"]
  /\ position' = [position EXCEPT ![p] = SpawnChunk]
  /\ StartChunksRender(p, SpawnChunk)
  /\ UNCHANGED <<connected, column, delivery>>

\* Mutation: abandoned chunks leave the queue, too.
SendChunksToUnload_ClearQueue(p, abandoned) ==
  LET unload == abandoned \cap confirmed_chunks[p]
  IN /\ confirmed_chunks' = [confirmed_chunks EXCEPT ![p] = @ \ unload]
     /\ send_chunk_queue' = [send_chunk_queue EXCEPT ![p] = @ \ abandoned]
     /\ Post(p, unload, "unload")
     /\ UNCHANGED <<compressing, prepared, acks, held>>

\* Mutation: unloaded chunks stay confirmed.
SendChunksToUnload_KeepConfirmed(p, abandoned) ==
  /\ Post(p, abandoned \cap confirmed_chunks[p], "unload")
  /\ UNCHANGED <<send_chunk_queue, confirmed_chunks, compressing, prepared, acks, held>>

\* Mutation: the client is not told.
SendChunksToUnload_Silent(p, abandoned) ==
  /\ confirmed_chunks' = [confirmed_chunks EXCEPT ![p] = @ \ abandoned]
  /\ UNCHANGED <<send_chunk_queue, compressing, prepared, wire, acks, held>>

\* Mutation: every confirmed chunk is unloaded.
SendChunksToUnload_All(p, abandoned) ==
  /\ confirmed_chunks' = [confirmed_chunks EXCEPT ![p] = {}]
  /\ Post(p, confirmed_chunks[p], "unload")
  /\ UNCHANGED <<send_chunk_queue, compressing, prepared, acks, held>>

\* Client::send_chunks_to_unload: only confirmed chunks are unloaded.
SendChunksToUnload(p, abandoned) ==
  LET unload == abandoned \cap confirmed_chunks[p]
  IN /\ confirmed_chunks' = [confirmed_chunks EXCEPT ![p] = @ \ unload]
     /\ Post(p, unload, "unload")
     /\ UNCHANGED <<send_chunk_queue, compressing, prepared, acks, held>>

\* move_player, when the player changes chunk.
MovePlayer(p, to) ==
  /\ phase[p] = "world"
  /\ to # position[p]
  /\ position' = [position EXCEPT ![p] = to]
  /\ UpdateChunksRender(p, to)
  /\ SendChunksToUnload(p, AbandonedChunks(p, to))
  /\ UNCHANGED <<phase, connected, column>>

\* on_player_move refuses a move into a chunk that is not loaded.
OnPlayerMove(p, to) == column[to] = "loaded" /\ MovePlayer(p, to)

\* The console command teleport has no such test.
Teleport(p, to) == MovePlayer(p, to)

\* The transport ends: the client goes away, is kicked or times out.
\* Messages to the client are lost.
LoseConnection(p) ==
  /\ connected[p]
  /\ connected' = [connected EXCEPT ![p] = FALSE]
  /\ wire' = [wire EXCEPT ![p] = [ch \in Chunk |-> <<>>]]
  /\ UNCHANGED <<tickets, phase, position, column, send_chunk_queue, confirmed_chunks,
                 compressing, prepared, acks, held>>

\* on_disconnect: the entity is despawned and the Client is dropped.
OnDisconnect(p) ==
  /\ ~connected[p]
  /\ Known(p)
  /\ phase' = [phase EXCEPT ![p] = "gone"]
  /\ StopChunksRender(p)
  /\ send_chunk_queue' = [send_chunk_queue EXCEPT ![p] = {}]
  /\ confirmed_chunks' = [confirmed_chunks EXCEPT ![p] = {}]
  /\ acks' = [acks EXCEPT ![p] = {}]
  /\ held' = [held EXCEPT ![p] = {}]
  /\ UNCHANGED <<connected, position, column, compressing, prepared, wire>>

-----------------------------------------------------------------------------
(* Columns.  A column is dropped some time after its last ticket is gone;  *)
(* module WorldChunks has the timer that makes this so.                    *)

Wanted(ch) == column[ch] = "absent" /\ by_chunk[ch] # {}

Despawnable == {ch \in Chunk : column[ch] = "loaded" /\ by_chunk[ch] = {}}

\* ChunkMap::update_chunks_state.
UpdateChunksState(despawned) ==
  /\ despawned \subseteq Despawnable
  /\ column' = [ch \in Chunk |-> IF ch \in despawned THEN "absent"
                                 ELSE IF Wanted(ch) THEN "loading"
                                 ELSE column[ch]]
  /\ column' # column
  /\ UNCHANGED <<tickets, phase, connected, position, delivery>>

UpdateWorldChunks == \E despawned \in SUBSET Despawnable : UpdateChunksState(despawned)

\* The rayon task of load_chunk ends with set_chunk_data.
LoadChunk(ch) ==
  /\ column[ch] = "loading"
  /\ column' = [column EXCEPT ![ch] = "loaded"]
  /\ UNCHANGED <<tickets, phase, connected, position, delivery>>

-----------------------------------------------------------------------------
(* Sending.                                                                *)

\* Mutation: an off-by-one in the last exit.
MaySend_OneShort(p) ==
  /\ connected[p]
  /\ Cardinality(send_chunk_queue[p]) < QueueLimit
  /\ phase[p] = "world"
  /\ Cardinality(confirmed_chunks[p]) + Cardinality(send_chunk_queue[p]) + 1
       < Cardinality(by_entity[p])

\* The early exits of send_chunks for one client.
MaySend(p) ==
  /\ connected[p]
  /\ Cardinality(send_chunk_queue[p]) < QueueLimit
  /\ phase[p] = "world"
  /\ Cardinality(confirmed_chunks[p]) + Cardinality(send_chunk_queue[p])
       < Cardinality(by_entity[p])

\* The chunks that the loop of send_chunks_to_client does not skip.
Sendable(p) ==
  {ch \in View(position[p]) :
     /\ ch \in by_entity[p]
     /\ ch \notin AlreadySended(p)
     /\ column[ch] = "loaded"}

\* Mutation: the loop counts from zero instead of from what is in the queue.
SpiralPrefix_FreshCount(p, picked) ==
  /\ picked \subseteq Sendable(p)
  /\ Cardinality(picked) <= QueueLimit
  /\ picked = Sendable(p) \/ Cardinality(picked) = QueueLimit
  /\ \A near \in Sendable(p) \ picked, far \in picked :
       Distance[position[p]][far] <= Distance[position[p]][near]

\* What the spiral takes before the queue is full: the nearest chunks first.
SpiralPrefix(p, picked) ==
  /\ picked \subseteq Sendable(p)
  /\ Cardinality(picked) + Cardinality(send_chunk_queue[p]) <= QueueLimit
  /\ \/ picked = Sendable(p)
     \/ Cardinality(picked) + Cardinality(send_chunk_queue[p]) = QueueLimit
  /\ \A near \in Sendable(p) \ picked, far \in picked :
       Distance[position[p]][far] <= Distance[position[p]][near]

\* send_chunks_to_client: mark_chunk_sending and spawn a compression task.
SendChunksToClient(p, picked) ==
  /\ SpiralPrefix(p, picked)
  /\ send_chunk_queue' = [send_chunk_queue EXCEPT ![p] = @ \cup picked]
  /\ compressing' = compressing \cup ({p} \X picked)
  /\ UNCHANGED <<tickets, phase, connected, position, column, confirmed_chunks,
                 prepared, wire, acks, held>>

SendChunks(p) ==
  /\ MaySend(p)
  /\ \E picked \in (SUBSET Sendable(p)) \ {{}} : SendChunksToClient(p, picked)

\* A compression task ends.
Compress(p, ch) ==
  /\ <<p, ch>> \in compressing
  /\ compressing' = compressing \ {<<p, ch>>}
  /\ prepared' = prepared \cup {<<p, ch>>}
  /\ UNCHANGED <<tickets, phase, connected, position, column, send_chunk_queue,
                 confirmed_chunks, wire, acks, held>>

\* flush_compressed_chunks drains the channel; what is prepared for a client
\* that is unknown or not connected is dropped.
FlushCompressedChunks ==
  /\ prepared # {}
  /\ prepared' = {}
  /\ wire' = [p \in Player |-> [ch \in Chunk |->
                IF <<p, ch>> \in prepared /\ Known(p) /\ connected[p]
                THEN Append(wire[p][ch], "chunk") ELSE wire[p][ch]]]
  /\ UNCHANGED <<tickets, phase, connected, position, column, send_chunk_queue,
                 confirmed_chunks, compressing, acks, held>>

-----------------------------------------------------------------------------
(* The client.                                                             *)

\* The next message about ch that arrives is the first one or, if the two
\* message types keep no mutual order, any.
ClientReceives(p, ch, i) ==
  /\ i \in DOMAIN wire[p][ch]
  /\ OneOrder => i = 1
  /\ wire' = [wire EXCEPT ![p][ch] = RemoveAt(@, i)]
  /\ IF wire[p][ch][i] = "chunk"
     THEN /\ held' = [held EXCEPT ![p] = @ \cup {ch}]
          /\ acks' = [acks EXCEPT ![p] = @ \cup {ch}]
     ELSE /\ held' = [held EXCEPT ![p] = @ \ {ch}]
          /\ UNCHANGED acks
  /\ UNCHANGED <<tickets, phase, connected, position, column, send_chunk_queue,
                 confirmed_chunks, compressing, prepared>>

\* Client::mark_chunks_as_recieved, called by drain_network_system.
MarkChunksAsRecieved(p, chunks) ==
  LET received == chunks \cap send_chunk_queue[p]
  IN /\ send_chunk_queue' = [send_chunk_queue EXCEPT ![p] = @ \ received]
     /\ confirmed_chunks' = [confirmed_chunks EXCEPT ![p] = @ \cup received]

ChunkRecieved(p, chunks) ==
  /\ Known(p)
  /\ chunks \subseteq acks[p]
  /\ acks' = [acks EXCEPT ![p] = @ \ chunks]
  /\ MarkChunksAsRecieved(p, chunks)
  /\ UNCHANGED <<tickets, phase, connected, position, column, compressing, prepared,
                 wire, held>>

-----------------------------------------------------------------------------
PlayerStep(p) ==
  \/ SpawnPlayer(p)
  \/ \E to \in Chunk : OnPlayerMove(p, to)
  \/ \E to \in Chunk : Teleport(p, to)
  \/ LoseConnection(p)
  \/ OnDisconnect(p)

ServerStep(p) ==
  \/ SendChunks(p)
  \/ \E ch \in Chunk : Compress(p, ch)

ClientStep(p) ==
  \/ \E ch \in Chunk : \E i \in DOMAIN wire[p][ch] : ClientReceives(p, ch, i)
  \/ \E chunks \in (SUBSET acks[p]) \ {{}} : ChunkRecieved(p, chunks)

Next ==
  \/ \E p \in Player : PlayerStep(p) \/ ServerStep(p) \/ ClientStep(p)
  \/ UpdateWorldChunks
  \/ \E ch \in Chunk : LoadChunk(ch)
  \/ FlushCompressedChunks

Spec == Init /\ [][Next]_vars

\* The systems run every tick, rayon runs every task it is given, the network
\* delivers what it accepted, and clients answer.  Nobody has to move or leave.
Fairness ==
  /\ WF_vars(UpdateWorldChunks)
  /\ \A ch \in Chunk : WF_vars(LoadChunk(ch))
  /\ WF_vars(FlushCompressedChunks)
  /\ \A p \in Player :
       /\ WF_vars(SendChunks(p))
       /\ WF_vars(OnDisconnect(p))
       /\ \A ch \in Chunk :
            /\ WF_vars(Compress(p, ch))
            /\ WF_vars(\E i \in DOMAIN wire[p][ch] : ClientReceives(p, ch, i))
            /\ WF_vars(\E chunks \in SUBSET acks[p] : ch \in chunks /\ ChunkRecieved(p, chunks))

FairSpec == Spec /\ Fairness

-----------------------------------------------------------------------------
(* Properties.                                                             *)

\* Every variable has its type.
TypeOK ==
  /\ TicketsTypeOK
  /\ phase \in [Player -> {"lobby", "world", "gone", "ghost"}]
  /\ connected \in [Player -> BOOLEAN]
  /\ position \in [Player -> Chunk]
  /\ column \in [Chunk -> {"absent", "loading", "loaded"}]
  /\ send_chunk_queue \in [Player -> SUBSET Chunk]
  /\ confirmed_chunks \in [Player -> SUBSET Chunk]
  /\ compressing \in SUBSET Pipeline
  /\ prepared \in SUBSET Pipeline
  /\ wire \in [Player -> [Chunk -> Seq(Messages)]]
  /\ acks \in [Player -> SUBSET Chunk]
  /\ held \in [Player -> SUBSET Chunk]

\* ChunksLoadState is the only source of truth about what a player must see
\* (README.md, lines 13-18): whatever the interleaving of moves, teleports and
\* departures, its two maps agree and a player in the world watches exactly
\* the chunks around its position, a ghost those around the spawn; anyone else
\* watches nothing.
TicketsMatchView ==
  /\ TicketsMirror
  /\ \A p \in Player :
       by_entity[p] = IF phase[p] \in {"world", "ghost"} THEN View(position[p]) ELSE {}

\* A chunk is never both in send_chunk_queue and in confirmed_chunks
\* (README.md, lines 79-81, and Client::debug_check_chunk_state).
QueueConfirmedDisjoint ==
  \A p \in Player : send_chunk_queue[p] \cap confirmed_chunks[p] = {}

\* The queue of a client never outgrows SEND_CHUNK_QUEUE_LIMIT: send_chunks
\* adds many chunks after one look at the queue, while chunks of earlier ticks
\* are still compressed, travel or wait for their acknowledgement, and leaving
\* a view takes nothing out of the queue (chunks_sender.rs, line 127).
QueueWithinLimit ==
  \A p \in Player : Cardinality(send_chunk_queue[p]) <= QueueLimit

\* The places a chunk of a player can be between the queue and the ack.
Stages(p, ch) ==
  Cardinality({i \in {1} : <<p, ch>> \in compressing})
  + Cardinality({i \in {1} : <<p, ch>> \in prepared})
  + Cardinality({i \in DOMAIN wire[p][ch] : wire[p][ch][i] = "chunk"})
  + Cardinality({i \in {1} : ch \in acks[p]})

\* While a client is connected, a chunk in its queue is at exactly one stage
\* between the compression task and the acknowledgement, and no other chunk is
\* at any: nothing is sent twice, nothing that is sent is forgotten, even when
\* the player leaves and comes back while the chunk travels.
QueuedOnceInFlight ==
  \A p \in Player, ch \in Chunk :
    connected[p] => Stages(p, ch) = (IF ch \in send_chunk_queue[p] THEN 1 ELSE 0)

\* confirmed_chunks are fully present on the client (client.rs, lines 111-113),
\* provided that UnloadChunks and chunk data keep their mutual order.
ConfirmedHeld ==
  OneOrder => \A p \in Player : confirmed_chunks[p] \subseteq held[p]

\* The server accounts for every chunk a client holds: it is in the queue, it
\* is confirmed, or the message that unloads it is under way.
HeldAccounted ==
  \A p \in Player : connected[p] =>
    \A ch \in held[p] :
      \/ ch \in AlreadySended(p)
      \/ \E i \in DOMAIN wire[p][ch] : wire[p][ch][i] = "unload"

\* The state of each chunk for each player, in the terms of ChunkTransfer.
Status == [p \in Player |-> [ch \in Chunk |->
             IF ch \in send_chunk_queue[p] THEN "in_flight"
             ELSE IF ch \in confirmed_chunks[p] THEN "confirmed"
             ELSE "idle"]]

Transfer == INSTANCE ChunkTransfer WITH needed <- by_entity, status <- Status

\* Chunks go through the states that the README lists: sent only while needed
\* and idle, confirmed only while in flight, unloaded only while confirmed and
\* no longer needed, and untouched in flight unless the client leaves.
ImplementsTransfer == Transfer!Spec

Columns == INSTANCE ColumnLifecycle WITH
             watched <- {ch \in Chunk : by_chunk[ch] # {}}

\* The columns that delivery relies on behave as module WorldChunks shows that
\* ChunkMap makes them behave: none is dropped while somebody watches it.
ImplementsColumns == Columns!Spec

Settled(p, at) == phase[p] = "world" /\ connected[p] /\ position[p] = at
Missing(p) == by_entity[p] \ confirmed_chunks[p]
Stale(p) == confirmed_chunks[p] \ by_entity[p]

\* A player that stays connected and in one chunk ends with an empty queue and
\* with every chunk it watches, but for at most as many as there are stale
\* confirmed chunks, which send_chunks counts as sent (chunks_sender.rs,
\* lines 81-84).
SettledPlayerServed ==
  \A p \in Player, at \in Chunk :
    <>[]Settled(p, at) =>
      <>[](/\ send_chunk_queue[p] = {}
           /\ Cardinality(Missing(p)) <= Cardinality(Stale(p)))

\* send_chunks sends a chunk that is in ChunksLoadState and neither in
\* send_chunk_queue nor in confirmed_chunks (README.md, lines 25-27).
Owed(p, ch) ==
  /\ phase[p] = "world" /\ connected[p]
  /\ ch \in by_entity[p] \ AlreadySended(p)
  /\ column[ch] = "loaded"

OwedIsSent == \A p \in Player, ch \in Chunk : []<>~Owed(p, ch)
=============================================================================
