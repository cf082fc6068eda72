-------------------------- MODULE EntityStreaming --------------------------
(***************************************************************************)
(* Who is shown to whom: the streaming of player entities to the clients   *)
(* that watch their chunks (network/sync_entities.rs,                      *)
(* network/sync_players.rs), called when a player is announced             *)
(* (entities/events/on_player_spawn.rs), moves or is teleported, changes   *)
(* its skin (entities/commands.rs), or leaves.                             *)
(*                                                                         *)
(* The messages Start, Stop and UpdateEntityComponent are ReliableOrdered, *)
(* so what a client shows once it has received everything is decided when  *)
(* they are sent: view[p][q] is the skin with which client p then shows    *)
(* entity q.  EntityMove is unreliable and a client ignores it for an      *)
(* entity it does not know; it changes nothing here.                       *)
(*                                                                         *)
(* A Player is an entity index, the number by which clients know entities; *)
(* an index is used again for the next entity after its own has gone.      *)
(* Tags are set at the spawn and every player has a skin, since nothing in *)
(* the code removes one or changes a tag.                                  *)
(***************************************************************************)
EXTENDS ChunksLoadState

CONSTANTS
  SpawnChunk,      \* chunk of the spawn position (0, 100, 0)
  Skin,            \* EntitySkinComponent
  Unknown          \* in place of the skin of an entity the client does not show

ASSUME StreamingAssumption ==
  /\ SpawnChunk \in Chunk
  /\ Unknown \notin Skin

VARIABLES
  in_world,        \* players that have an entity
  late,            \* those spawned after their client had left: nothing moves them or
                   \* despawns them any more
  connected,       \* NetworkServer::is_connected
  position,        \* chunk of the Position component
  skin,            \* the EntitySkinComponent
  chunks_entities, \* Ecs.chunks_entities
  column,          \* ChunkMap.chunks: absent, loading or loaded
  loaded_chunks,   \* the channel of loaded chunks
  spawn_events,    \* players with a PlayerSpawnEvent
  departed,        \* despawned in this tick; events of their clients may follow
  orphaned,        \* a PlayerSpawnEvent of a despawned entity waits
  panicked,        \* a system unwrapped an entity that is not there
  view,            \* what each client shows
  announced,       \* history: players for which on_player_spawn ran
  passed_over      \* history: pairs <<p, q>> where q was not sent to p since the
                   \* chunk of q was not loaded

entities == <<in_world, late, connected, position, skin, chunks_entities>>
columns == <<column, loaded_chunks>>
events == <<spawn_events, departed, orphaned, panicked>>
streams == <<view, announced, passed_over>>
vars == <<tickets, entities, columns, events, streams>>

Pairs == {pair \in Player \X Player : pair[1] # pair[2]}

Init ==
  /\ TicketsInit
  /\ in_world = {}
  /\ late = {}
  /\ connected = [p \in Player |-> FALSE]
  /\ position = [p \in Player |-> SpawnChunk]
  /\ skin \in [Player -> Skin]
  /\ chunks_entities = [ch \in Chunk |-> {}]
  /\ column = [ch \in Chunk |-> "absent"]
  /\ loaded_chunks = {}
  /\ spawn_events = {}
  /\ departed = {}
  /\ orphaned = FALSE
  /\ panicked = FALSE
  /\ view = [p \in Player |-> [q \in Player |-> Unknown]]
  /\ announced = {}
  /\ passed_over = {}

-----------------------------------------------------------------------------
(* Messages.                                                               *)

\* send_start_streaming_entity for the pairs of started, StopStreamingEntities
\* for those of stopped.
Stream(started, stopped) ==
  view' = [p \in Player |-> [q \in Player |->
             IF ~connected[p] THEN view[p][q]
             ELSE IF <<p, q>> \in started THEN skin[q]
             ELSE IF <<p, q>> \in stopped THEN Unknown
             ELSE view[p][q]]]

\* The watchers of a chunk, each paired with q, without q itself.
WatchersOf(q, ch) == {<<p, q>> : p \in by_chunk[ch] \ {q}}

\* Mutation: the player itself is not left out.
EntitiesIn_WithItself(p, chunks) ==
  {<<p, q>> : q \in UNION {chunks_entities[ch] : ch \in chunks}}

\* p paired with the entities in some chunks, without p itself.
EntitiesIn(p, chunks) ==
  {<<p, q>> : q \in (UNION {chunks_entities[ch] : ch \in chunks}) \ {p}}

-----------------------------------------------------------------------------
(* Players enter and are announced.                                        *)

\* SpawnPlayer::apply for a new client: nobody is told before the chunk is there.  The
\* client may have left since on_settings_loaded queued the command.
SpawnPlayer(p, s) ==
  /\ p \notin in_world
  /\ in_world' = in_world \cup {p}
  /\ \/ connected' = [connected EXCEPT ![p] = TRUE] /\ UNCHANGED late
     \/ late' = late \cup {p} /\ UNCHANGED connected
  /\ position' = [position EXCEPT ![p] = SpawnChunk]
  /\ skin' = [skin EXCEPT ![p] = s]
  /\ chunks_entities' = [chunks_entities EXCEPT ![SpawnChunk] = @ \cup {p}]
  /\ StartChunksRender(p, SpawnChunk)
  /\ spawn_events' = IF column[SpawnChunk] = "loaded" THEN spawn_events \cup {p}
                                                      ELSE spawn_events
  /\ UNCHANGED <<columns, departed, orphaned, panicked, streams>>

\* send_entities_for_player, for each announced player.
Shown ==
  UNION {EntitiesIn(p, {ch \in by_entity[p] : column[ch] = "loaded"}) : p \in spawn_events}

\* What send_entities_for_player leaves out.
NotShown ==
  UNION {EntitiesIn(p, {ch \in by_entity[p] : column[ch] # "loaded"}) : p \in spawn_events}

\* Mutation: newcomers learn of the others, and not the others of them.
Presented_None == {}

\* sync_entity_spawn, for each announced player.
Presented == UNION {WatchersOf(p, position[p]) : p \in spawn_events}

\* on_player_spawn unwraps the entity of every event.
OnPlayerSpawn ==
  /\ spawn_events # {} \/ orphaned
  /\ spawn_events' = {}
  /\ orphaned' = FALSE
  /\ panicked' = orphaned
  /\ Stream(Shown \cup Presented, {})
  /\ announced' = announced \cup spawn_events
  /\ passed_over' = (passed_over \cup NotShown) \ (Shown \cup Presented)
  /\ UNCHANGED <<tickets, entities, columns, departed>>

-----------------------------------------------------------------------------
(* Players move.                                                           *)

\* sync_entity_move: those that watch only the old chunk.
LostSight(p, to) == WatchersOf(p, position[p]) \ WatchersOf(p, to)

\* sync_entity_move: those that watch only the new chunk.
GotSight(p, to) == WatchersOf(p, to) \ WatchersOf(p, position[p])

\* Mutation: the moving client keeps the entities of the chunks it abandons.
LeftBehind_None(p, to) == {}

\* sync_player_move: what the player itself no longer sees.
LeftBehind(p, to) == EntitiesIn(p, AbandonedChunks(p, to))

\* sync_player_move: what the player comes to see, loaded or not.
Discovered(p, to) == EntitiesIn(p, NewChunks(p, to))

\* move_player, when the player changes chunk; within a chunk only EntityMove
\* is sent.
MovePlayer(p, to) ==
  /\ p \in in_world \ late
  /\ to # position[p]
  /\ UpdateChunksRender(p, to)
  /\ position' = [position EXCEPT ![p] = to]
  /\ chunks_entities' = [chunks_entities EXCEPT ![position[p]] = @ \ {p}, ![to] = @ \cup {p}]
  /\ Stream(Discovered(p, to) \cup GotSight(p, to), LeftBehind(p, to) \cup LostSight(p, to))
  /\ passed_over' = passed_over \ (Discovered(p, to) \cup GotSight(p, to)
                                     \cup LeftBehind(p, to) \cup LostSight(p, to))
  /\ UNCHANGED <<in_world, late, connected, skin, columns, events, announced>>

\* on_player_move refuses a chunk that is not loaded.
OnPlayerMove(p, to) == column[to] = "loaded" /\ MovePlayer(p, to)

\* The command teleport has no such test.
Teleport(p, to) == MovePlayer(p, to)

-----------------------------------------------------------------------------
(* Players change and leave.                                               *)

\* Mutation: the skin is sent to nobody.
Informed_None(p) == {}

\* The watchers that sync_update_entity_component sends the skin to.
Informed(p) == WatchersOf(p, position[p])

\* UpdatePlayerComponent for a skin.  A client ignores it for an entity it
\* does not know.
UpdatePlayerComponent(p, s) ==
  /\ p \in in_world \ late
  /\ s # skin[p]
  /\ skin' = [skin EXCEPT ![p] = s]
  /\ view' = [q \in Player |->
       [view[q] EXCEPT ![p] = IF <<q, p>> \in Informed(p) /\ connected[q] /\ @ # Unknown
                              THEN s ELSE @]]
  /\ UNCHANGED <<tickets, in_world, late, connected, position, chunks_entities, columns,
                 events, announced, passed_over>>

\* The transport ends, and with it what the client shows.
LoseConnection(p) ==
  /\ connected[p]
  /\ connected' = [connected EXCEPT ![p] = FALSE]
  /\ view' = [view EXCEPT ![p] = [q \in Player |-> Unknown]]
  /\ UNCHANGED <<tickets, in_world, late, position, skin, chunks_entities, columns, events,
                 announced, passed_over>>

\* sync_entity_despawn.
Despawned(p) == WatchersOf(p, position[p])

\* Mutation: the entity stays in the index of its chunk.
RemoveEntity_Keep(p) == UNCHANGED chunks_entities

RemoveEntity(p) ==
  chunks_entities' = [chunks_entities EXCEPT ![position[p]] = @ \ {p}]

\* on_disconnect: sync_entity_despawn, then WorldManager::despawn_player.  An
\* announcement that waits keeps its entity, which is no longer there.  The
\* components go with the entity; a position that has no meaning is SpawnChunk.
OnDisconnect(p) ==
  /\ ~connected[p]
  /\ p \in in_world \ late
  /\ Stream({}, Despawned(p))
  /\ in_world' = in_world \ {p}
  /\ position' = [position EXCEPT ![p] = SpawnChunk]
  /\ RemoveEntity(p)
  /\ StopChunksRender(p)
  /\ departed' = departed \cup {p}
  /\ spawn_events' = spawn_events \ {p}
  /\ orphaned' = (orphaned \/ p \in spawn_events)
  /\ announced' = announced \ {p}
  /\ passed_over' = {pair \in passed_over : p \notin {pair[1], pair[2]}}
  /\ UNCHANGED <<late, connected, skin, columns, panicked>>

\* The Client of a departed player still names its entity, so that a move, a
\* teleport or a skin of the same tick gets to ecs.entity_mut, which panics.
LateEvent(p) ==
  /\ p \in departed
  /\ panicked' = TRUE
  /\ UNCHANGED <<tickets, entities, columns, spawn_events, departed, orphaned, streams>>

\* The events of a tick are read or dropped by its end.
EndTick ==
  /\ departed # {}
  /\ departed' = {}
  /\ UNCHANGED <<tickets, entities, columns, spawn_events, orphaned, panicked, streams>>

-----------------------------------------------------------------------------
(* Columns and the notices about them.  Module WorldChunks has the details *)
(* of both, and shows that a column is dropped only if nobody watches it.  *)

Wanted(ch) == column[ch] = "absent" /\ by_chunk[ch] # {}
Despawnable == {ch \in Chunk : column[ch] = "loaded" /\ by_chunk[ch] = {}}

\* update_world_chunks takes the notices and announces nobody.
UpdateWorldChunks ==
  /\ \E despawned \in SUBSET Despawnable :
       column' = [ch \in Chunk |-> IF ch \in despawned THEN "absent"
                                   ELSE IF Wanted(ch) THEN "loading"
                                   ELSE column[ch]]
  /\ loaded_chunks' = {}
  /\ UNCHANGED <<tickets, entities, events, streams>>

LoadChunk(ch) ==
  /\ column[ch] = "loading"
  /\ column' = [column EXCEPT ![ch] = "loaded"]
  /\ loaded_chunks' = loaded_chunks \cup {ch}
  /\ UNCHANGED <<tickets, entities, events, streams>>

\* on_chunk_loaded: announces the connected players in the chunks.
OnChunkLoaded ==
  /\ loaded_chunks # {}
  /\ loaded_chunks' = {}
  /\ spawn_events' = spawn_events \cup
       {p \in in_world : connected[p] /\ position[p] \in loaded_chunks}
  /\ UNCHANGED <<tickets, entities, column, departed, orphaned, panicked, streams>>

-----------------------------------------------------------------------------
PlayerStep(p) ==
  \/ \E s \in Skin : SpawnPlayer(p, s) \/ UpdatePlayerComponent(p, s)
  \/ \E to \in Chunk : OnPlayerMove(p, to) \/ Teleport(p, to)
  \/ LoseConnection(p)
  \/ OnDisconnect(p)
  \/ LateEvent(p)

\* A panic ends the server.
Next ==
  /\ ~panicked
  /\ \/ \E p \in Player : PlayerStep(p)
     \/ OnPlayerSpawn
     \/ EndTick
     \/ UpdateWorldChunks
     \/ \E ch \in Chunk : LoadChunk(ch)
     \/ OnChunkLoaded

Spec == Init /\ [][Next]_vars

-----------------------------------------------------------------------------
(* Properties.                                                             *)

\* Every variable has its type.
TypeOK ==
  /\ TicketsTypeOK
  /\ in_world \in SUBSET Player /\ late \in SUBSET in_world
  /\ connected \in [Player -> BOOLEAN]
  /\ position \in [Player -> Chunk]
  /\ skin \in [Player -> Skin]
  /\ chunks_entities \in [Chunk -> SUBSET Player]
  /\ column \in [Chunk -> {"absent", "loading", "loaded"}]
  /\ loaded_chunks \in SUBSET Chunk
  /\ spawn_events \in SUBSET Player
  /\ departed \in SUBSET Player
  /\ orphaned \in BOOLEAN
  /\ panicked \in BOOLEAN
  /\ view \in [Player -> [Player -> Skin \cup {Unknown}]]
  /\ announced \in SUBSET Player
  /\ passed_over \in SUBSET Pairs

\* The index that streaming goes by and the Position components agree, and
\* name only entities that are there: get_chunk_entities unwraps each of them.
IndexMatchesPositions ==
  \A ch \in Chunk : chunks_entities[ch] = {p \in in_world : position[p] = ch}

InView ==
  {pair \in Pairs : /\ pair[1] \in in_world /\ connected[pair[1]]
                    /\ pair[2] \in in_world
                    /\ position[pair[2]] \in by_entity[pair[1]]}

Seen == {pair \in Player \X Player : view[pair[1]][pair[2]] # Unknown}

Presence == INSTANCE EntityPresence WITH seen <- Seen, in_view <- InView

\* Whatever the order of moves, announcements and departures, a client shows
\* only entities in its view and never its own, is told to forget an entity in
\* the step that takes it out of view, and never about one that stays.
ImplementsPresence == Presence!Spec

Watched == {ch \in Chunk : by_chunk[ch] # {}}

Columns == INSTANCE ColumnLifecycle WITH watched <- Watched

\* The columns that streaming relies on behave as module WorldChunks shows that
\* ChunkMap makes them behave: none is dropped while somebody watches it.
ImplementsColumns == Columns!Spec

\* A client that shows an entity shows its present skin, although skins are
\* sent only to those that watch the chunk of the entity, and entities are
\* shown that were never announced.
SkinsCurrent ==
  \A p, q \in Player : view[p][q] \in {Unknown, skin[q]}

\* An announced player is shown every announced player in its view, except
\* those that send_entities_for_player passed over since their chunk was not
\* loaded, and that neither moved into view nor were announced since.
AnnouncedSeen ==
  \A pair \in InView :
    {pair[1], pair[2]} \subseteq announced => pair \in Seen \cup passed_over
=============================================================================
