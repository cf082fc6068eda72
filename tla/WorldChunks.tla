---------------------------- MODULE WorldChunks ----------------------------
(***************************************************************************)
(* The columns of one world from creation to storage: ChunkMap             *)
(* (worlds/chunks/chunks_map.rs) with its despawn timers, the rayon tasks  *)
(* that load and save columns, the channel loaded_chunks with its two      *)
(* readers, update_world_chunks and on_chunk_loaded, the spawn messages    *)
(* that the second one writes, block edits, the inventories that a plugin  *)
(* asks for, and the save at shutdown.                                     *)
(*                                                                         *)
(* A system that holds the world (a guard of the DashMap of WorldsManager) *)
(* excludes the others from it, so each of them is one step, except that   *)
(* update_world_chunks is two: rayon tasks do not take the world, and may  *)
(* finish between its reading of the channel and its update of the map.    *)
(*                                                                         *)
(* The data of a chunk is the number of the last edit in it: 0 is what the *)
(* generator makes and what an empty storage yields.  A new inventory is   *)
(* data of its chunk, so it counts as an edit.                             *)
(*                                                                         *)
(* Which inventories are registered is the subject of module Inventories.  *)
(* What is left of the registry here is that a registration may meet a     *)
(* duplicate, which is a panic.                                            *)
(***************************************************************************)
EXTENDS ChunksLoadState, Sequences, SequencesExt

CONSTANTS
  SpawnChunk,      \* chunk of the spawn position (0, 100, 0)
  DespawnTimer,    \* CHUNKS_DESPAWN_TIMER, in ticks
  MaxEdits,        \* bound on edits: none follows once a chunk has had so many
  MaxSaves         \* bound on the save tasks of a chunk that wait in the pool

ASSUME WorldAssumption ==
  /\ SpawnChunk \in Chunk
  /\ DespawnTimer \in Nat \ {0}
  /\ MaxEdits \in Nat
  /\ MaxSaves \in Nat \ {0}

VARIABLES
  phase,           \* "lobby", then "world", then "gone"; "ghost" if the entity
                   \* was spawned after its client had gone
  online,          \* NetworkServer::is_connected
  position,        \* chunk of the player's Position component
  column,          \* ChunkMap.chunks: absent, loading or loaded
  despawn_timer,   \* ChunkColumn.despawn_timer, up to DespawnTimer
  chunk_storage,   \* ChunkColumn.chunk_storage: the last edit in it
  storage,         \* the same in the world storage
  loads,           \* chunks with a load task in the pool
  saves,           \* per chunk, what the save tasks in the pool hold
  loaded_chunks,   \* the channel of loaded chunks
  updating,        \* update_world_chunks has read the channel
  spawn_events,    \* players with a PlayerSpawnEvent
  spawned,         \* players that were sent PlayerSpawn
  server,          \* the runtime state, or the panic that ended it
  edits,           \* history: the last edit of each chunk
  lapsed           \* history: chunks whose save task a load overtook, or that lost it

players == <<phase, online, position>>
columns == <<column, despawn_timer, chunk_storage>>
pool == <<loads, saves, storage>>
spawning == <<spawn_events, spawned>>
history == <<edits, lapsed>>
vars == <<tickets, players, columns, pool, loaded_chunks, updating, spawning, server,
          history>>

\* "save_error" is the panic of update_runtime when the storage refuses a column.
Panics == {"edit_panic", "spawn_panic", "save_panic", "save_error", "inventory_panic"}
Running == server \in {"active", "stopping"}

Init ==
  /\ TicketsInit
  /\ phase = [p \in Player |-> "lobby"]
  /\ online = [p \in Player |-> TRUE]
  /\ position = [p \in Player |-> SpawnChunk]
  /\ column = [ch \in Chunk |-> "absent"]
  /\ despawn_timer = [ch \in Chunk |-> 0]
  /\ chunk_storage = [ch \in Chunk |-> 0]
  /\ storage = [ch \in Chunk |-> 0]
  /\ loads = {}
  /\ saves = [ch \in Chunk |-> <<>>]
  /\ loaded_chunks = {}
  /\ updating = FALSE
  /\ spawn_events = {}
  /\ spawned = {}
  /\ server = "active"
  /\ edits = [ch \in Chunk |-> 0]
  /\ lapsed = {}

\* A system that needs the world runs: update_world_chunks does not hold it.
WorldFree == Running /\ ~updating

-----------------------------------------------------------------------------
(* Players.                                                                *)

\* Mutation: a new ticket leaves the timer as it is.
ResetTimers_None(chunks) == UNCHANGED despawn_timer

\* set_despawn_timer(ZERO), for the columns that get a new ticket.
ResetTimers(chunks) ==
  despawn_timer' = [ch \in Chunk |-> IF ch \in chunks THEN 0 ELSE despawn_timer[ch]]

\* SpawnPlayer::apply: the player is announced at once if its chunk is loaded.
\* on_disconnect may have come before in the tick, which leaves an entity, and
\* tickets, that nobody removes.
SpawnPlayer(p) ==
  /\ WorldFree
  /\ phase[p] = "lobby"
  /\ \/ phase' = [phase EXCEPT ![p] = "world"]
     \/ ~online[p] /\ phase' = [phase EXCEPT ![p] = "ghost"]
  /\ StartChunksRender(p, SpawnChunk)
  /\ ResetTimers(View(SpawnChunk))
  /\ spawn_events' = IF column[SpawnChunk] = "loaded" THEN spawn_events \cup {p}
                                                      ELSE spawn_events
  /\ UNCHANGED <<online, position, column, chunk_storage, pool, loaded_chunks, updating,
                 spawned, server, history>>

\* move_player to another chunk, for a command or for on_player_move, which
\* besides asks for a loaded chunk.
MovePlayer(p, to) ==
  /\ WorldFree
  /\ phase[p] = "world"
  /\ to # position[p]
  /\ position' = [position EXCEPT ![p] = to]
  /\ UpdateChunksRender(p, to)
  /\ ResetTimers(NewChunks(p, to))
  /\ UNCHANGED <<phase, online, column, chunk_storage, pool, loaded_chunks, updating,
                 spawning, server, history>>

LoseConnection(p) ==
  /\ Running
  /\ online[p]
  /\ online' = [online EXCEPT ![p] = FALSE]
  /\ UNCHANGED <<tickets, phase, position, columns, pool, loaded_chunks, updating,
                 spawning, server, history>>

\* on_disconnect: WorldManager::despawn_player if there is an entity.
OnDisconnect(p) ==
  /\ WorldFree
  /\ ~online[p]
  /\ phase[p] \in {"lobby", "world"}
  /\ phase' = [phase EXCEPT ![p] = "gone"]
  /\ StopChunksRender(p)
  /\ UNCHANGED <<online, position, columns, pool, loaded_chunks, updating, spawning,
                 server, history>>

\* on_player_spawn unwraps the entity of every event.
OnPlayerSpawn ==
  /\ WorldFree
  /\ spawn_events # {}
  /\ spawn_events' = {}
  /\ IF \E p \in spawn_events : phase[p] = "gone"
     THEN server' = "spawn_panic" /\ UNCHANGED spawned
     ELSE spawned' = spawned \cup spawn_events /\ UNCHANGED server
  /\ UNCHANGED <<tickets, players, columns, pool, loaded_chunks, updating, history>>

-----------------------------------------------------------------------------
(* The two readers of loaded_chunks.  Each takes all that is in it.        *)

\* on_chunk_loaded: announces the players in the chunks.
OnChunkLoaded ==
  /\ server = "active" /\ ~updating
  /\ loaded_chunks # {}
  /\ loaded_chunks' = {}
  /\ spawn_events' = spawn_events \cup
       {p \in Player : phase[p] = "world" /\ online[p] /\ position[p] \in loaded_chunks}
  /\ UNCHANGED <<tickets, players, columns, pool, updating, spawned, server, history>>

\* Mutation: the entries stay in the channel.
DrainLoadedChunks_Peek ==
  /\ server = "active" /\ ~updating
  /\ updating' = TRUE
  /\ UNCHANGED <<tickets, players, columns, pool, loaded_chunks, spawning, server,
                 history>>

\* The first half of update_world_chunks: registers the inventories of the
\* chunks that are still there.  One that get_or_create_inventory registered
\* before is a duplicate.
DrainLoadedChunks ==
  /\ server = "active" /\ ~updating
  /\ updating' = TRUE
  /\ loaded_chunks' = {}
  /\ \/ UNCHANGED server
     \/ /\ \E ch \in loaded_chunks : column[ch] # "absent"
        /\ server' = "inventory_panic"
  /\ UNCHANGED <<tickets, players, columns, pool, spawning, history>>

-----------------------------------------------------------------------------
(* ChunkMap::update_chunks_state, the second half of update_world_chunks.  *)

\* increase_despawn_timer, for columns that nobody watches.
Aged(ch) ==
  IF column[ch] # "absent" /\ by_chunk[ch] = {} /\ despawn_timer[ch] < DespawnTimer
  THEN despawn_timer[ch] + 1
  ELSE despawn_timer[ch]

\* The scan of a tick ends after MAX_DESPAWN_DURATION: it may leave any of them.
Despawnable ==
  {ch \in Chunk : /\ column[ch] = "loaded"
                  /\ Aged(ch) >= DespawnTimer
                  /\ Len(saves[ch]) < MaxSaves}

\* Mutation: one watcher is not enough.
Wanted_Shared(ch) == column[ch] = "absent" /\ Cardinality(by_chunk[ch]) > 1

Wanted(ch) == column[ch] = "absent" /\ by_chunk[ch] # {}

\* A save task for each dropped column, with a copy of its data.
SpawnSaves(despawned) ==
  saves' = [ch \in Chunk |-> IF ch \in despawned THEN Append(saves[ch], chunk_storage[ch])
                                                 ELSE saves[ch]]

UpdateChunksState(despawned) ==
  /\ Running /\ updating
  /\ updating' = FALSE
  /\ column' = [ch \in Chunk |-> IF ch \in despawned THEN "absent"
                                 ELSE IF Wanted(ch) THEN "loading"
                                 ELSE column[ch]]
  /\ despawn_timer' = [ch \in Chunk |-> IF ch \in despawned THEN 0 ELSE Aged(ch)]
  /\ chunk_storage' = [ch \in Chunk |-> IF ch \in despawned THEN 0 ELSE chunk_storage[ch]]
  /\ SpawnSaves(despawned)
  /\ loads' = loads \cup {ch \in Chunk : Wanted(ch)}
  /\ UNCHANGED <<tickets, players, storage, loaded_chunks, spawning, server, history>>

-----------------------------------------------------------------------------
(* The tasks in the pool.  They start in any order; one that starts after  *)
(* the server stopped does nothing.                                        *)

\* Mutation: the chunk is generated although the storage has it.
Stored_Generate(ch) == 0

Stored(ch) == storage[ch]

\* load_chunk: reads the storage, or generates, and sets the data.
LoadChunk(ch) ==
  /\ Running
  /\ ch \in loads
  /\ loads' = loads \ {ch}
  /\ column' = [column EXCEPT ![ch] = "loaded"]
  /\ chunk_storage' = [chunk_storage EXCEPT ![ch] = Stored(ch)]
  /\ loaded_chunks' = loaded_chunks \cup {ch}
  /\ lapsed' = IF saves[ch] = <<>> THEN lapsed ELSE lapsed \cup {ch}
  /\ UNCHANGED <<tickets, players, despawn_timer, saves, storage, updating, spawning,
                 server, edits>>

\* Mutation: the server goes on.
LoadFails_GoesOn(ch) ==
  /\ Running
  /\ ch \in loads
  /\ loads' = loads \ {ch}
  /\ UNCHANGED <<tickets, players, columns, saves, storage, loaded_chunks, updating,
                 spawning, server, history>>

\* The storage or the generator fails, which stops the server.
LoadFails(ch) ==
  /\ Running
  /\ ch \in loads
  /\ loads' = loads \ {ch}
  /\ server' = "stopping"
  /\ UNCHANGED <<tickets, players, columns, saves, storage, loaded_chunks, updating,
                 spawning, history>>

\* A save task writes what it holds.
SaveChunk(ch, i) ==
  /\ Running
  /\ i \in DOMAIN saves[ch]
  /\ storage' = [storage EXCEPT ![ch] = saves[ch][i]]
  /\ saves' = [saves EXCEPT ![ch] = RemoveAt(@, i)]
  /\ UNCHANGED <<tickets, players, columns, loads, loaded_chunks, updating, spawning,
                 server, history>>

SaveFails(ch, i) ==
  /\ Running
  /\ i \in DOMAIN saves[ch]
  /\ saves' = [saves EXCEPT ![ch] = RemoveAt(@, i)]
  /\ server' = "stopping"
  /\ lapsed' = lapsed \cup {ch}
  /\ UNCHANGED <<tickets, players, columns, loads, storage, loaded_chunks, updating,
                 spawning, edits>>

SkipTask(ch) ==
  /\ server = "stopping"
  /\ \/ ch \in loads /\ loads' = loads \ {ch} /\ UNCHANGED <<saves, lapsed>>
     \/ \E i \in DOMAIN saves[ch] :
          /\ saves' = [saves EXCEPT ![ch] = RemoveAt(@, i)]
          /\ lapsed' = lapsed \cup {ch}
          /\ UNCHANGED loads
  /\ UNCHANGED <<tickets, players, columns, storage, loaded_chunks, updating, spawning,
                 server, edits>>

-----------------------------------------------------------------------------
(* Edits and the end.                                                      *)

\* A plugin changes the data of a column in the map.
ChangeData(ch) ==
  /\ column[ch] = "loaded"
  /\ \A c \in Chunk : edits[c] < MaxEdits
  /\ edits' = [edits EXCEPT ![ch] = @ + 1]
  /\ chunk_storage' = [chunk_storage EXCEPT ![ch] = edits[ch] + 1]
  /\ UNCHANGED server

Fails(panic) == server' = panic /\ UNCHANGED <<edits, chunk_storage>>

\* ChunkMap::edit_block for a column that is in the map: change_block unwraps
\* the data.
EditBlock(ch) ==
  /\ WorldFree
  /\ ChangeData(ch) \/ (column[ch] = "loading" /\ Fails("edit_panic"))
  /\ UNCHANGED <<tickets, players, column, despawn_timer, pool, loaded_chunks, updating,
                 spawning, lapsed>>

\* get_or_create_inventory: it adds an inventory to the data of the column, or
\* finds one there, which changes nothing here.  It panics if the column has no
\* data yet, or if what it finds is registered already.
GetOrCreateInventory(ch) ==
  /\ WorldFree
  /\ ChangeData(ch) \/ (column[ch] # "absent" /\ Fails("inventory_panic"))
  /\ UNCHANGED <<tickets, players, column, despawn_timer, pool, loaded_chunks, updating,
                 spawning, lapsed>>

\* RuntimePlugin::stop, by the console command.
Stop ==
  /\ server = "active"
  /\ server' = "stopping"
  /\ UNCHANGED <<tickets, players, columns, pool, loaded_chunks, updating, spawning,
                 history>>

\* Mutation: only watched columns are saved.
Saved_Watched(ch) ==
  IF column[ch] = "loaded" /\ by_chunk[ch] # {} THEN chunk_storage[ch] ELSE storage[ch]

\* What the storage holds of a chunk after ChunkMap::save.
Saved(ch) == IF column[ch] = "loaded" THEN chunk_storage[ch] ELSE storage[ch]

\* ChunkMap::save, in parallel: a failure leaves any of the columns unsaved.
SaveColumns(saved) ==
  storage' = [ch \in Chunk |-> IF ch \in saved THEN Saved(ch) ELSE storage[ch]]

\* update_runtime: disconnects the clients and saves every column.  The save
\* expects data in each of them, and what the storage answers is unwrapped.
UpdateRuntime ==
  /\ server = "stopping" /\ ~updating
  /\ online' = [p \in Player |-> FALSE]
  /\ \/ /\ \A ch \in Chunk : column[ch] # "loading"
        /\ server' = "exited"
        /\ SaveColumns(Chunk)
     \/ /\ server' = IF \E ch \in Chunk : column[ch] = "loading" THEN "save_panic"
                     ELSE "save_error"
        /\ \E saved \in SUBSET Chunk : SaveColumns(saved)
  /\ UNCHANGED <<tickets, phase, position, columns, loads, saves, loaded_chunks,
                 updating, spawning, history>>

-----------------------------------------------------------------------------
PlayerStep(p) ==
  \/ SpawnPlayer(p)
  \/ \E to \in Chunk : MovePlayer(p, to)
  \/ LoseConnection(p)
  \/ OnDisconnect(p)

TaskStep(ch) ==
  \/ LoadChunk(ch)
  \/ LoadFails(ch)
  \/ \E i \in 1..MaxSaves : SaveChunk(ch, i) \/ SaveFails(ch, i)
  \/ SkipTask(ch)

Next ==
  \/ \E p \in Player : PlayerStep(p)
  \/ OnPlayerSpawn
  \/ OnChunkLoaded
  \/ DrainLoadedChunks
  \/ \E despawned \in SUBSET Despawnable : UpdateChunksState(despawned)
  \/ \E ch \in Chunk : TaskStep(ch) \/ EditBlock(ch) \/ GetOrCreateInventory(ch)
  \/ Stop
  \/ UpdateRuntime

Spec == Init /\ [][Next]_vars

\* The systems run every tick, so one that waits for the world gets it again
\* and again (SF), and the pool runs its tasks.
Fairness ==
  /\ SF_vars(OnPlayerSpawn)
  /\ SF_vars(OnChunkLoaded)
  /\ WF_vars(DrainLoadedChunks)
  /\ WF_vars(\E despawned \in SUBSET Despawnable : UpdateChunksState(despawned))
  /\ \A ch \in Chunk :
       /\ WF_vars(LoadChunk(ch))
       /\ WF_vars(\E i \in 1..MaxSaves : SaveChunk(ch, i))

FairSpec == Spec /\ Fairness

-----------------------------------------------------------------------------
(* Properties.                                                             *)

\* Every variable has its type.
TypeOK ==
  /\ TicketsTypeOK
  /\ phase \in [Player -> {"lobby", "world", "gone", "ghost"}]
  /\ online \in [Player -> BOOLEAN]
  /\ position \in [Player -> Chunk]
  /\ column \in [Chunk -> {"absent", "loading", "loaded"}]
  /\ despawn_timer \in [Chunk -> 0..DespawnTimer]
  /\ chunk_storage \in [Chunk -> Nat]
  /\ storage \in [Chunk -> Nat]
  /\ loads \in SUBSET Chunk
  /\ saves \in [Chunk -> Seq(Nat)]
  /\ loaded_chunks \in SUBSET Chunk
  /\ updating \in BOOLEAN
  /\ spawn_events \in SUBSET Player
  /\ spawned \in SUBSET Player
  /\ server \in {"active", "stopping", "exited"} \cup Panics
  /\ edits \in [Chunk -> Nat]
  /\ lapsed \in SUBSET Chunk

Columns == INSTANCE ColumnLifecycle WITH
             watched <- {ch \in Chunk : by_chunk[ch] # {}}

\* A column that somebody watches is never dropped, although the scan looks
\* only at timers: every new ticket resets the timer of its column.
ImplementsColumns == Columns!Spec

\* Each loading column has a task that will end its loading, as long as the
\* server is active, and no other column has one: the scan of ChunkMap neither
\* drops nor creates a loading column, so that one without a task would keep its
\* watchers waiting for ever.  This is why each error path of load_chunk has to
\* stop the server (worlds/chunks/chunk_generator.rs, lines 33, 44 and 56).
LoadingHasTask ==
  /\ \A ch \in loads : column[ch] = "loading"
  /\ server = "active" => \A ch \in Chunk : column[ch] = "loading" => ch \in loads

\* update_world_chunks reads the data of every column it finds for an entry of
\* loaded_chunks and panics if there is none ("Chunk storage is not loaded"):
\* an entry never names a column that is loading, not even one that was dropped
\* and created again.
LoadedEntriesHaveData ==
  \A ch \in loaded_chunks : column[ch] # "loading"

\* Where the next reader of a chunk finds it.
Current(ch) ==
  IF column[ch] = "loaded" THEN chunk_storage[ch]
  ELSE IF saves[ch] # <<>> THEN Last(saves[ch])
  ELSE storage[ch]

\* The last edit of a chunk is in its column, in the save task that waits for
\* it, or in the storage, unless the chunk was loaded again before its save
\* task ran, or lost that task to a failure or to the end of the server.
EditsKept == \A ch \in Chunk \ lapsed : Current(ch) = edits[ch]

\* An orderly end of the server leaves in the storage the last edit of every
\* chunk that is in memory, with the same exception.
ExitSavesColumns ==
  server = "exited" =>
    \A ch \in Chunk \ lapsed : column[ch] = "loaded" => storage[ch] = edits[ch]

\* A chunk that is watched for good is loaded in the end, if the server lives.
WatchedGetsLoaded ==
  \A ch \in Chunk :
    <>[](by_chunk[ch] # {} /\ server = "active") => <>[](column[ch] = "loaded")

\* on_player_spawn is called when a player connects, if its chunk is loaded, or
\* when the chunk is loaded, if the entity got into a loading chunk
\* (entities/events/on_player_spawn.rs, lines 24-25).
Stays(p) ==
  phase[p] = "world" /\ online[p] /\ position[p] = SpawnChunk /\ server = "active"

SpawnAnnounced == \A p \in Player : <>[]Stays(p) => <>(p \in spawned)

\* ChunkMap::save finds data in every column: get_chunk_storage expects it
\* ("Chunk storage is not loaded", worlds/chunks/chunk_column.rs, line 61).
SaveFindsData == server # "save_panic"
=============================================================================
