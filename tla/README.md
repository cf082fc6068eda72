# brilliance-server: TLA+ models, checks and proofs

A verification development for `brilliance-server`, the Rust server of a voxel
game: a Bevy application whose systems run every tick, a network library, a
rayon pool for chunk work, worlds made of chunk columns, and WASM plugins.
The modules are translated from the code under `src/`; where the README of the
repository says more than the code does, its words are properties, not
definitions.

Contents: [system](#the-system) · [modules](#modules) · [chunk
delivery](#chunk-delivery) · [block edits](#block-edits) ·
[columns](#columns-of-a-world) · [entity streaming](#entity-streaming) ·
[inventories](#inventories) · [sessions](#sessions) ·
[server loop](#the-loop-of-the-server) · [runs](#runs) ·
[proofs](#proofs) · [findings](#where-code-and-intentions-differ) ·
[not modelled](#what-is-not-modelled) · [plan](#plan)

## The system

One process; the parts below talk through shared state behind locks
(`SmartRwLock`, a `DashMap` of worlds), flume channels and Bevy messages.

| Part | State it keeps | Operations | Talks to | What is hard |
|---|---|---|---|---|
| Chunk tickets `worlds/chunks/chunks_load_state.rs` | `by_chunk`, `by_entity` | insert, remove, remove all of an entity | called by the chunk map | two maps that must agree for ever |
| Chunk map and columns `chunks_map.rs`, `chunk_column.rs`, `chunk_generator.rs` | columns, timers, channel `loaded_chunks`, storage | start / update / stop render, update state, edit, save, load task | tickets, rayon, storage, inventories, runtime | asynchronous loads and saves against despawn, reload, edits, shutdown |
| Worlds `worlds_manager.rs`, `world_manager.rs`, `ecs.rs`, `on_chunk_loaded.rs`, `commands.rs` | worlds, entities, entities per chunk | spawn, move, despawn a player, `update_world_chunks`, `on_chunk_loaded`, save all | chunk map, inventories, spawn events | two systems that read one channel |
| Chunk delivery `network/chunks_sender.rs`, lists in `clients/client.rs` | `send_chunk_queue`, `confirmed_chunks`, compression channel | send, compress, flush, acknowledge, unload | tickets, columns, network | messages in flight while the player moves |
| Players `on_player_move.rs`, `on_player_spawn.rs`, `sync_players.rs`, `on_disconnect.rs` | position, world entity | move, spawn, leave | worlds, clients | events of one tick about a player that has left |
| Entities `sync_entities.rs`, `entities/` | components, who was told of whom | start / stop streaming, move, components | tickets, clients | visibility kept by differences |
| Block edits `sync_world_change.rs`, host function `edit_world_block` | contents of columns | edit, broadcast | chunk map, watchers | a snapshot of the chunk may be in flight |
| Inventories `inventory/`, `sync_inventory.rs` | registry, watchers, slots | register, open, close, get or create, actions | columns, clients, plugins | registry against despawn; slot rules; lock order |
| Sessions `clients_container.rs`, `network/events/` | clients, client info, player data | connect, handshake, login, kick, disconnect | storage, worlds, plugins | duplicate logins, data saved late or never |
| Runtime `runtime_plugin.rs`, systems of the startup | STARTED, ACTIVE, STOPPING | load, activate, stop, `update_runtime` | everything | failures while it starts, what is unfinished when it stops |
| Plugins and resources `plugins/` | plugins, archive, bridges | load, reload, events, host functions | everything | lock order through the bridges; download by pieces |
| Console `console/` | three channels of one place | read, complete, execute | runtime, plugins | late answers, sends that wait for room |

For each part, what makes it correct: tickets — the two maps agree and say
what is around each player; columns — never dropped under a watcher, always
loaded in the end, nothing lost on the way to the storage; delivery — client
and server agree on which chunks the client has, and a player that stays
somewhere gets all of them; inventories — items are conserved, slots keep
their rules, the registry names what is in memory; sessions — one session per
login, whose data are saved before the next one reads them; locks — one order.

## Modules

| Module | What it is |
|---|---|
| `ChunksLoadState` | the tickets and the three operations of `ChunkMap` on them; extended by `ChunkDelivery`, `WorldChunks` and `EntityStreaming` |
| `ChunkTransfer` | abstract: the states of a chunk for a player, as the repository's README lists them |
| `ChunkDelivery` | delivery of chunks, composed with tickets, columns, transport and clients |
| `BlockEdits` | `ChunkDelivery` composed with edits: the data in columns, snapshots and the clients' copies |
| `ColumnLifecycle` | abstract: when a column may appear, become loaded, disappear |
| `WorldChunks` | the columns of a world with timers, pool, channel, storage, shutdown |
| `EntityPresence` | abstract: a client learns of entities in its view, and forgets them when they leave it |
| `EntityStreaming` | which player entities the clients show, with announcements, moves, skins and departures |
| `InventorySlots` | stacks of items, and what a move, a merge, a swap and a drop do to slots; the slot rules |
| `ItemExchange` | abstract: who may move items, and that moves neither create nor destroy any |
| `Inventories` | registry, watchers, windows, actions of players, plugins and the console on inventories |
| `ServerLoop` | the loop of the server from start to stop, and the thread of the console beside it |
| `Sessions` | connections, handshake, login, departures, player data between storage and client |
| `MCChunkDelivery`, `MCBlockEdits`, `MCWorldChunks`, `MCEntityStreaming`, `MCInventories`, `MCSessions` | instances for TLC: the world is a row of chunks; slots and kinds; connections with one login |
| `TicketLemmas`, `ChunkDeliveryProofs`, `BlockEditsProofs`, `WorldChunksProofs`, `EntityStreamingProofs`, `InventoriesProofs`, `SessionsProofs`, `ServerLoopProofs` | lemmas and theorems |

`ColumnLifecycle` is the joint between the models of columns. `WorldChunks` is shown
to implement it with the timers that make it so; `ChunkDelivery` has no timers
and drops any column that nobody watches, at any time, which again implements
it. Whatever delivery relies on is therefore what the columns provide.
`Inventories` keeps only the part of a column's life that the registry sees,
and takes from `WorldChunks` that no column is created while the channel has an
entry for its chunk; `EntityStreaming` keeps of it what announcements see.
`BlockEdits` is a composition proper: each of its steps is a step of
`ChunkDelivery` together with what that does to the data, or an edit, so every
theorem about delivery holds of it (`EditsImplementDelivery`).
`Sessions` stands beside the others: it decides who is
connected, logged in and in the world, which they take as given
(`LoseConnection`, `OnConnectionInfo`, `SpawnPlayer` and `OnDisconnect` of theirs).

Geometry is a constant: `Distance` between chunks and `Radius` (the code's
`CHUNKS_DISTANCE`, 12). The spiral iterator of the library visits the chunks
within that radius, the nearest first; proofs need nothing else of it.

### Chunk delivery

`ChunkDelivery` has one action per handler:

| Action | Code |
|---|---|
| `SpawnPlayer` | `SpawnPlayer::apply`, `WorldManager::spawn_player`; if `on_disconnect` came first in the tick, the entity and its tickets stay for ever (phase `ghost`) |
| `OnPlayerMove`, `Teleport` | `on_player_move` (refuses chunks that are not loaded), `command_teleport` (does not); both call `move_player`, which updates tickets and sends `UnloadChunks` |
| `LoseConnection`, `OnDisconnect` | the transport ends; the system that despawns the player and drops the client |
| `UpdateChunksState`, `LoadChunk` | columns appear, disappear and become loaded |
| `SendChunks` | `send_chunks` for one client: three early exits, then the spiral until the queue is full; marks the chunks and spawns the compression tasks |
| `Compress`, `FlushCompressedChunks` | the tasks end in any order; the system drains their channel |
| `ClientReceives` | the client (external): stores or drops a chunk, acknowledges it |
| `ChunkRecieved` | `drain_network_system` calls `mark_chunks_as_recieved` for a part of what the client has acknowledged |

A system holds the lock of the worlds while it works on one client, so its
work for one client is one step; everything else interleaves freely, which is
more than the schedule of Bevy allows. `Known` is whether the client is in the container;
a ghost keeps columns in memory and is sent nothing. The transport is a library: a message
is delivered while the connection lasts. `UnloadChunks` and chunk data have
different message types. Whether they keep their mutual order is not visible
in this repository, hence the constant `OneOrder`: with order, confirmed chunks
are held by the client; without it, the weaker `HeldAccounted` still holds. A
client id that comes back is another player of the model.

### Block edits

`BlockEdits` adds to each action of delivery what it does to data, and one action:

| Action of `BlockEdits` | Code |
|---|---|
| `EditBlock` | `edit_world_block_raw` and `sync_world_block_change`: the column changes, and the change goes to every client that watches the chunk, at once, whether it has the chunk or not |
| with `OnPlayerMove`, `Teleport`: `UnloadCopies` | the client drops what it is told to |
| with `Compress`: `TakeSnapshot` | the task reads its column when it runs |
| with `UpdateChunksState`: `FreezeColumns` | a task that waits keeps a column alive that has left the map; no later edit reaches that one |
| with `FlushCompressedChunks`: `SendSnapshots` | what was compressed goes out, however old it is |

Changes and chunk data are messages of one type (`WorldInfo`) and keep their
order, so what a client will hold is decided when they are sent: `copy`.
`CopiesArrive` ties this to the transport of `ChunkDelivery`. An edit is lost to a
client if it falls between snapshot and send: the message overtakes the chunk,
finds nothing to change, and the chunk that follows is older. `missed` records
exactly these pairs, and those that hold a chunk they no longer watch;
`CopiesCurrent` says that nothing else is ever lost. That a column keeps its edits
while it is dropped and loaded again is `EditsKept` of `WorldChunks`.

### Columns of a world

| Action of `WorldChunks` | Code |
|---|---|
| `SpawnPlayer`, `MovePlayer`, `OnDisconnect` | tickets as above, a ghost's too, with the reset of the timers; the spawn event if the chunk is loaded |
| `OnChunkLoaded` | drains the channel, writes spawn events for connected players in those chunks |
| `OnPlayerSpawn` | handles the spawn events; panics if the entity has gone |
| `DrainLoadedChunks`, `UpdateChunksState` | the two halves of `update_world_chunks`: drains the channel and registers inventories, where a duplicate is a panic; ages, drops (with a save task) and creates (with a load task) columns |
| `LoadChunk`, `LoadFails`, `SaveChunk`, `SaveFails`, `SkipTask` | the tasks in the pool, which start in any order, may fail (which stops the server), and do nothing after the stop |
| `EditBlock`, `GetOrCreateInventory` | `ChunkMap::edit_block`, and the host function that puts an inventory into the data of a column; both panic on a column without data, the second on a duplicate too |
| `Stop`, `UpdateRuntime` | the stop; the system that then disconnects everybody and saves every column, in parallel: a column without data and an error of the storage are panics, with any part of the columns saved |

Which inventories are registered is the subject of `Inventories`; two places in the code
register (`update_world_chunks` and `get_or_create_inventory`), and of that
`WorldChunks` keeps only that either may end in the panic of a duplicate.

Systems exclude one another from a world through the guard of the `DashMap`.
Tasks do not take the world, so the model lets them end between the two halves
of `update_world_chunks`, which matters: a chunk that becomes loaded there is
in the channel although its column may be dropped in the same tick.
Reading the storage and setting the data of a column is one step; nobody looks
into a column that is loading, and a save in between is an overtaken save in
either order. The data of a chunk is the number of its last edit.

Two history variables serve the properties: `edits`, the last edit of each
chunk, and `lapsed`, the chunks that were loaded before a save task of theirs
ran, or lost such a task to a failure or to the stop. For these nothing is
claimed; the code gives no guarantee.

### Entity streaming

| Action of `EntityStreaming` | Code |
|---|---|
| `SpawnPlayer` | `SpawnPlayer::apply`: entity, tickets, index; a spawn event if the chunk is loaded; the client may have left before (`late`), and then others are shown an entity that nothing moves or despawns |
| `OnPlayerSpawn` | all spawn events: `send_entities_for_player` (the entities in the loaded chunks of the view) and `sync_entity_spawn` (to those that watch the chunk); panics on an event whose entity has gone |
| `OnPlayerMove`, `Teleport` | `move_player`: index and tickets, then `sync_player_move` (what the player comes to see and no longer sees) and `sync_entity_move` (who comes to see the player and who no longer does), by differences |
| `UpdatePlayerComponent` | the command for the skin: the component, then `sync_update_entity_component` to the watchers |
| `LoseConnection`, `OnDisconnect` | the transport; `sync_entity_despawn` and `despawn_player` |
| `LateEvent`, `EndTick` | the `Client` of a departed player still names its entity until the tick ends; what uses it there unwraps an entity that is gone, and panics |
| `UpdateWorldChunks`, `LoadChunk`, `OnChunkLoaded` | columns and the channel with two readers, as far as announcements see them |

Start, stop and component messages are all `ReliableOrdered`: what a client shows
when everything has arrived is decided when they are sent, and `view` is that.
`EntityMove` is unreliable and ignored for an entity the client does not know.
A player of the model is an entity number, which a later player may get again;
that is where a message too few would show a client someone else.

The code keeps no record of what it told whom: it sends differences of two views.
`ImplementsPresence` says that these differences add up: clients never show what is
out of their view, nor themselves. The converse fails in three ways the code
chooses, which the history variables name: players that were not announced yet
(`announced`), and pairs that `send_entities_for_player` skips because the chunk is
not loaded (`passed_over`), which nothing makes good until one of the two moves into
view. `AnnouncedSeen` says there is no fourth.

### Inventories

| Action of `Inventories` | Code |
|---|---|
| `OnConnectionInfo`, `SpawnPlayer`, `OnDisconnect` | player data and window; entity and skin; departure, with the late event of the same tick |
| `CreateColumn`, `LoadChunk`, `DespawnChunk` | the life of a column; the drop unregisters its inventories and their watchers |
| `RegisterLoadedChunks`, `OnChunkLoaded` | the two readers of the channel of loaded chunks; only the first registers |
| `GetOrCreateInventory`, `OpenInventory`, `PluginClosesInventory`, `AddItem` | host functions of plugins; `AddItem` is the command `give` as well |
| `CommandClear` | the console |
| `OnInventoryAction`: `Close`, `QuickAction`, `Drop`, `Move` | `on_inventory_action`: authorisation, `before_action`, the change, the broadcast, `after_inventory_modified` |

A handler holds the inventory manager, and the executor runs one system at a
time, so each handler is one step; a move takes its items out of one inventory
and puts them into another inside one step, and what the model keeps of the
order of these halves is their arithmetic (`Moved`): how much the target
accepts is computed before anything is taken.

`view` is what the client shows after all messages sent so far: the stream has
one reliable ordered type, and the client (external) does nothing but apply it.
`skin` is the component others see. `early` has the boxes of which a plugin asked for the
inventory while the notice of their chunk was in the channel: `ChannelUnregistered` says
that no other box is registered then, so that `get_or_create_inventory` is the only way to the
panic of a duplicate when the channel is drained. `unrefreshed`, `supply` and `cleared` are
history variables: after which changes nothing refreshes the skin, and what came
into and went out of all inventories. Two panics are states of the model
besides that of the registration: `get_or_create_inventory` on a column without
data, and the refresh of the skin of a player without an entity (between login
and spawn, and in the tick of its departure).

A player that spawns after its departure (see `Sessions`) is left out here: its entity has no
client in the container, opens nothing and acts on nothing.

Boxes have the slots of a player inventory. `add_item` and `can_stack_with` are
of a library: items of one kind stack, and a gift fills a slot that is empty or
has its kind, one item at a time. The quick action takes any of the slots that
the code would consider; the code takes the first.

### Sessions

| Action of `Sessions` | Code |
|---|---|
| `Drain` | `drain_network_system`: any part of the new connections, ended connections and handshake messages that have come become events; the end of a connection that is not in the container is skipped |
| `OnConnection`, `OnConnectionInfo`, `RefuseLogin`, `OnResourcesHasCache`, `OnMediaLoaded`, `OnSettingsLoaded`, `OnDisconnect` | the systems of `network/events/`, one event each; `RefuseLogin` is the early exits of `on_connection_info` (login in use, data unreadable) |
| `SpawnPlayer` | the queued command; it unwraps player data and login, and panics without them |
| `CommandKick` | the console; `Client::disconnect` takes the login away and closes the connection, the data stay |
| `ChangeData` | `with_player_data_mut`, by whatever handler |
| `SavePlayerData` | the host function `save_player_data_raw`: a plugin writes data it has read before, whatever sessions have |
| `Stop`, `UpdateRuntime` | the stop; `disconnect_all`, which empties the container |
| `ClientAnswers`, `Leave` | the client (external) |

A tick is: drain, then the systems in any order (most are unordered in the
schedule), then commands; the next begins when `Idle` holds, so events of a
tick never meet those of the next, but those of one tick meet in every order.
`departed` keeps the clients removed in this tick, whose other events still have
their `Client`. Most systems leave at once when the server does not run, and three
of them `return` inside their loop over events, after a refused login or after
sending a part of the archive. `returned` holds the systems that did: the rest of their channel
waits for the next tick. The iterator is of a library; the model takes it to
leave what it did not give out. If it dropped the rest, `HandshakeEnds` would not
hold: other clients of the tick would wait for ever.

A stop may come from a task or the console at any time, also between
`update_runtime` and the drain of a tick; server states `stopping` and `ending`
tell the two apart. Player data are the set of changes they include, numbered
per login (`made`). `lapsed` has the logins for which nothing is claimed, and
only these: data read while another client in the container still had them (a
kicked session is free for the next login before it is saved), a failed save, a
change in the tick of the departure that comes after the save, a plugin's write while no
session has the data (the next session reads what the plugin wrote), and the shutdown. A
plugin's write while a session has them is overwritten at its departure.
`late` has the clients whose entity was spawned after they left.

### The loop of the server

| Action of `ServerLoop` | Code |
|---|---|
| `InitServerStorage`, `SetupDefaultBlocks`, `RescanPlugins`, `RescanServerSettings`, `LoadWorlds` | the systems of the startup that load something: each looks first whether the server stops (but for `rescan_plugins`), and stops it if it fails; `After` is their order |
| `RunHandler`, `ActivateRuntime` | the other two, anywhere among them |
| `UpdateRuntime` | the first system of each update: goes on, or lets this update be the last |
| `HandlerConsoleInput`, `HandlerConsoleComplete`, `SendCompleteResponse` | drain and execute lines; drain requests; send the response to each, waiting for room |
| `Exit` | the end of the last update, and of the process |
| `EnterLine`, `Complete`, `TakeResponse`, `GiveUp`, `Interrupt` | the thread that reads: a line, a request for completions, its response or five seconds without, Ctrl-C |
| `Stop` | `RuntimePlugin::stop` from a task of the pool |

Three channels of `Capacity` (one) connect two threads that wait for each other:
the thread for room for its line or request and, at most five seconds, for a
response; the server, inside its update, for room for a response. A response that
comes too late stays in its channel and is taken for the next one:
`AnswersLag` says by how much, and the thread never catches up. After two such
requests both may be in the channel, one of them with the server waiting in
`send`; `Stuck` is when nobody takes them. If the thread then enters a second line
or a request that finds no room, each waits for the other for good, and Ctrl-C is not
read either. `StuckAfterTimeouts` says that nothing less leads there.

A panic in the loading of settings or resources ends the process and is left out.

`RunsLoaded` is about the order of start and failure: systems that fail stop the
server while others still run, `activate_runtime` among them, which must not cover up
the failure, and systems skip their work on the word of a state that another sets.
`StopEnds` is the end: wherever the stop falls, the loop ends, unless the server may be
stuck as above.

What the systems of an update do beside this is in the other modules, for which the
loop is the fairness of the systems; a stuck update is what they do not have.

## Runs

| Run | Instance | Question |
|---|---|---|
| `delivery_one_player` | `BlockEdits`: 1 player, row of 3 chunks, radius 1, queue of 2, ordered message types, 1 edit | Do tickets, lists, messages and the client's chunks agree at every step? Is the queue ever longer than its limit? Does an edit reach every copy, but for the ones named? Are the transitions of the README implemented? Is a settled player served? |
| `world_chunks` | 1 player, 2 chunks, radius 0, timer of 1 tick, 1 edit, 1 waiting save | Is any column dropped under a watcher, or left loading without a task, any entry of the channel without data? Do edits survive drops, loads and failures? Is a watched chunk loaded in the end? |
| `entities` | 2 players with 2 skins, row of 3 chunks, radius 1 | Is each client shown the entities in its view and no others, with their skins, in every order of announcements, moves and departures? |
| `inventories` | 2 players with an apple each, 1 box in 1 chunk, a hand and a head slot, 1 more apple or helmet | Are watchers, registry, channel, windows, skins and stacks right at every step? Is any item created or lost? Does anyone reach what it has not open? |
| `sessions` | 2 connections with one login, an archive of 2 parts, storage that may fail, 1 change | Is there one session per login, with data that lose nothing? Do entities belong to sessions? Does every handshake end? |
| `server_loop` | channels of 1 place, 2 lines, 4 requests, a start that may fail | Does nothing run half loaded? By how much do answers lag, and when does the server wait for the console? Does a stop end it? |
| `owed_is_sent`, `spawn_announced`, `shutdown_save`, `armor_swap`, `duplicate_inventory`, `saved_on_disconnect` | small | Violations, see the findings. |

Bounds. Three chunks in a row with radius 1 are the least in which a view of
a player can change in part, so that chunks are kept, abandoned and new at the
same time, and a queue of two is the least that can be partly full. One edit
(`MaxEdits`) falls before, between or after any two steps of a chunk's way. Players
of `BlockEdits` share columns and channels and nothing else; several players, and
messages that overtake one another, are covered by the theorems, which are for
any number and for both values of `OneOrder`. Two chunks
of radius 0 make every move abandon everything, which is what the columns need
to age; a timer of one tick lets a column be revisited before it is due, and the scan
leave one that is. Edits of all chunks and waiting saves in `WorldChunks` are bounded
by its `MaxEdits` and `MaxSaves`: one save waiting is enough for a load to overtake it.
Saves that overtake one another, and several players, are left to the theorems.
`DespawnTimer` caps the timers: beyond it, a larger timer changes nothing.

For entities, a pair is all that a message is about, so two players meet every
case, a third only meets them twice; three chunks with radius 1 let each of the two
leave, keep and enter the other's view; two skins tell a stale one.

For inventories, two players are needed for a second viewer, three items of one
kind for a merge that is accepted in part (stacks of apples have two), and the
head slot and the helmet for slot rules and swaps. `MaxItems` bounds what is
given. The run identifies states that differ only in windows which their player
does not watch (any more): no action reads such a window, a snapshot overwrites
it first (`InventoriesView`).

For sessions, two connections with one login are the least that can race for it,
and different logins share nothing but the systems' early returns, which the two
share as well. Two parts make a first and a last one. One change (`MaxChanges`)
is enough to be lost; the proofs are for any number.

For the loop, two lines are the least of which the second waits for room, and four
requests are two that time out, one that finds the server stuck and one that waits for
room.

Deadlock is not checked: players that left and a server that stopped are ends.

Fairness. The systems run every tick and the pool runs the tasks it is given:
weak fairness on each of them, and on the client's answers (the transport is
reliable while connected). `OnPlayerSpawn` and `OnChunkLoaded` need the world,
which `update_world_chunks` takes and gives back, so they are enabled again and
again rather than continuously: strong fairness, which a system that runs every
tick has. In `Sessions` the fairness is per client: a message that has come is drained, an
event is handled (the oldest of those that an early return leaves is the first
of the next tick), an open connection is answered. In `ServerLoop` the server runs, and the thread takes a response that is there;
nobody has to type, and a stuck update is no step that fairness could demand. Nothing is assumed of players: they need not move, stay or leave,
and the liveness properties speak of those that stay (`<>[]`).

Each property of a passing run comes with a mutation of the code that violates
it; the operators whose comment begins with "Mutation" serve only for that.

## Proofs

All theorems hold for any finite set of chunks, any set of players (finite for
delivery and inventories), any distances that are zero from a chunk to itself, any
radius, limits and timers. Assumptions: `GeometryAssumption`, `DeliveryAssumption`,
`EditsAssumption`, `WorldAssumption`, `StreamingAssumption`, those of inventories
(`FiniteAssumption`: finitely many players, boxes and slots, which the sums need)
and sessions, and `ConsoleAssumption`, each named where the constants are.

Besides the rest, four modules have theorems about progress, of two kinds. One
says, as an invariant, that somebody may always take the next step towards what a
liveness property promises (`...GoesOn`): it excludes the deadlocks and the silent
early exits that fairness cannot help. ENABLED being beyond the prover, each
such theorem states the guards of the steps it speaks of, which are those of
the actions. The other says, as an action property, that such steps are never
undone: a measure decreases (`StopGoesOn`, `HandshakeForward`, `WatchedForwardHolds`).
That the steps are taken is fairness, and stays with the runs.

`ChunkDeliveryProofs`:

- `TypeCorrect`, by cases on the actions.
- `TicketsMatchViewHolds`: inductive as it stands, with types. `TicketsChanged`
  says what one change does to both maps; each operation is such a change.
- `QueueConfirmedDisjointHolds`, `QueueWithinLimitHolds`: both lists together
  are inductive. The limit is an argument about cardinalities: what the spiral
  picks fits beside the queue (`PickedFits`), removal does not lengthen it.
- `DeliveryImplementsTransfer`: a step map. Spawning and moving map to
  `ChangeInterest`, sending to `Send`, an acknowledgement to `Confirm`, a
  departure to `Forget`, the rest to stuttering. It needs `TicketsMatchView`,
  since a player that spawns must have watched nothing.
- `DeliveryImplementsColumns`: only creation, loading and dropping touch columns.
- `DeliveryGoesOn`, the safety in `SettledPlayerServed`: a connected player in the
  world has a column to be loaded, or a chunk at some stage on its way, or
  `send_chunks` sends it one, or it misses no more chunks than are stale. The
  spiral always has a nearest chunk and fills any free place (`NearestExists`,
  `SpiralExists`, by the smallest of a family of finite sets). When the early exit
  of `chunks_sender.rs:82` is taken, nothing is queued and as many chunks are
  confirmed as are watched, so that each missing one is outweighed by a stale one.
- `QueuedOnceInFlightHolds`, for messages in any order of types, from `Flight`: a chunk on its way to a player is in the
  queue, and in one place: a task, the channel, the connection (once), or the
  client's acknowledgement. `StagesCounted` turns that into the count.
- `HeldAccountedHolds`, `ConfirmedHeldHolds` from `Holding`: a chunk that the client
  holds is in one of the lists or its removal is under way; and if messages keep
  their order, a chunk that is confirmed or acknowledged is held with no removal
  under way, and no removal comes behind the chunk that follows it.

`BlockEditsProofs`:

- `EditsImplementDelivery`: SpecEdits implies Spec, step by step, which lifts every
  theorem above to the composition; `EditsTypeCorrect`.
- `CopiesCurrentHolds` from `AllCurrent`: the same for snapshots that are made and not
  sent. A frozen snapshot is current or missed an edit, and sending it moves both.
- `CopiesArriveHolds`: inductive per pair, one step per way a message comes or goes;
  a removal is sent exactly when a copy is dropped.
- `EditsKeepDelivery`: what the composition inherits, in one statement.

`WorldChunksProofs`:

- `TypeCorrect`.
- `WorldImplementsColumns`. The scan looks only at timers, so the step map needs
  `WatchedAreFresh` (a watched column has timer 0), which holds because every
  operation that adds a ticket resets the timer, and `LoadingHasTask`.
- `LoadingHasTaskHolds`, `LoadedEntriesHaveDataHolds` from `LoadingInv`. The strengthening is
  `NewEntriesLoaded`: entries that appear while `update_world_chunks` runs name
  loaded columns, so a column created in its second half has no entry yet.
- `WatchedGoesOn`, `WatchedForwardHolds`, the safety in `WatchedGetsLoaded`: a watched
  column is loaded, or has a task, or is created by the next update, and no step
  takes it back (`WatchedAreFresh` again); so one update and one task are enough.
- `EditsKeptHolds`, `ExitSavesColumnsHolds` from `DataInv`: a chunk that has not
  lapsed is in memory with its last edit and no save waits; or it has exactly
  one save task, which holds its last edit; or none, and the storage has it.

`EntityStreamingProofs`, for any players, skins and geometry:

- `TypeCorrect`, `Invariance` of `IInv`: types, `Placed` (tickets are what is around the
  position, the index is where the entities are, who is not in the world is in
  nothing) and `PairsOK`, what holds of each pair of watcher and entity.
- `IndexMatchesPositionsHolds`, `SkinsCurrentHolds`, `AnnouncedSeenHolds`: conjuncts of it.
  `PairsOK` says of each pair in view that the watcher shows the entity, with its
  skin, unless the entity is not announced or was passed over.
- `StreamingImplementsPresence`: a step map; the moving player's own differences and
  those of its watchers together are the change of the view.
- `StreamingImplementsColumns`: what this model assumes of columns is what
  `WorldChunks` is proved to do.

`InventoriesProofs`, for any players, boxes, slots, kinds, stack sizes and rules:

- `LessProperties`, `MoreProperties`, `MovedProperties`: what a drop, a gift and a
  move do to amounts. A move conserves the amount of every kind whether it
  splits, merges in part, swaps or is refused, and overfills nothing.
- `TypeCorrect`; `MoveSlots`, `DropSlots` and `AddItemSlots` say what an action does
  to all slots and are what the other proofs use of it.
- `WatchersAccountedHolds` is inductive with types: the registry shrinks only
  together with the watchers.
- `RegisteredInMemoryHolds`, `ChannelUnregisteredHolds` from `RegistryInv`, strengthened by
  `EntriesLoaded`: the channel never names a column that is loading.
- `ViewsCurrentHolds` needs the watchers: who sees a box is in its audience, and a
  player that logs in has no box open (`BroadcastKeepsViews`).
- `ItemsConservedHolds`, about the amount of each kind in all slots of all players and
  boxes. `PlaceChange`: when one slot of one inventory changes, the total changes by
  as much; a move is two such changes. It rests on sums over finite sets
  (`SumRemove`: any element may be taken out of a sum; `SumChange`; `SumSupport`).
  They would be inductions, whose rules are out of reach, and look at a smallest
  subset for which they fail instead. `MovedProperties` then says
  that the two changes cancel, and slots that hold nothing of a kind do not count.
  `InventoriesImplementExchange` speaks of single moves and adds reach; this one is the
  account over whole behaviours, with what is given, dropped and cleared.
- `StacksBoundedHolds`, assuming that what was stored obeyed the same stack sizes
  (`StoredAssumption`); `SkinShowsArmorHolds`.
- `InventoriesImplementExchange`: a step map; moves map to `Exchange`, which demands
  reach and conservation, so it needs `WatchersAccounted` and `MovedProperties`.

`SessionsProofs`, for any clients, logins, parts and number of changes:

- `TypeCorrect`; `RegisteredInvariant` is the strengthening: who has not connected
  is in nothing, ended connections in the channel are of clients in the
  container, a login is that of its client.
- `OneSessionPerLoginHolds`, `LoggedInWhileOpenHolds`,
  `SettingsAfterResourcesHolds`, `EntitiesOfSessionsHolds`: inductive with it.
- `ChangesKeptHolds`: inductive with it too, because it speaks of the holders of the
  data and not of the logged-in; a kicked client holds data without a login,
  and a login that finds such a holder is where the property would break, so it
  lapses there.
- `HandshakeGoesOn`, the safety in `HandshakeEnds`: an open connection is in the world,
  or its client can answer, or an event waits that some system may handle, or the
  next drain brings it one. It needs two more invariants: parts come in order
  (`PartsInOrder`) and open connections are in the container (`OpenInContainer`).
  The early returns of the systems are in the third and fourth case: an event
  they leave is not forgotten.
- `HandshakeForward`: whatever others do, each step of a handshake leaves fewer, of
  at most three per part and thirteen (`StepsLeft`, `ForwardStep`).

`ServerLoopProofs`, for channels of any size:

- `TypeCorrect`, `StuckAfterTimeoutsHolds`, `AnswersLagHolds` from `InOrder`: the requests
  under way, in the response channel, in the hands of the server or in the request
  channel, are the latest ones in the order they were made, and exactly as many as have
  timed out, besides the one the thread waits for. More responses than the channel
  has places then means more timeouts than places, and the first response is as many
  behind as requests timed out.
- `RunsLoadedHolds` from `StopsOrLoads`: a system of the startup that has run has
  loaded, or the server stops.
- `ServerGoesOn`, the safety in `StopEnds`: until it has ended the server may step, or
  may once the thread has taken a response, or it is stuck, and then more requests
  timed out than the channel has places. It needs `PhaseSystems`: the systems that
  are left belong to the phase of the loop; then the order among them has a first.
- `StopGoesOn`: a step of a stopping server lowers (phases, systems, requests) in
  lexicographic order (`LessLeft`), and no other step raises it.

No run checks the theorems on progress as such, nor `DeliveryImplementsColumns`,
`StreamingImplementsColumns`, `CopiesArriveHolds` and `SettingsAfterResourcesHolds`, which speak
of lesser matters, or of what other properties rest on, nor the type invariants of
`ChunkDelivery`, `BlockEdits` and `WorldChunks`, which are proved.

Only model-checked: the four liveness properties (`SettledPlayerServed`,
`WatchedGetsLoaded`, `HandshakeEnds`, `StopEnds`), since fairness and ENABLED are beyond
the prover; the theorems on progress are the part of them that is safety. Every
invariant and every other temporal property of a passing run is proved. Induction
over data is beyond the prover too; sums and spirals, which would call for it, are
handled with smallest subsets, and no model here needs recursion.

## Where code and intentions differ

1. `owed_is_sent`. The repository's README says that a chunk is sent if it is in
   the view and in neither list (lines 25-27), and that the acknowledgement of a
   chunk that left the view in flight is ignored (lines 83-91).
   `Client::mark_chunks_as_recieved` confirms it, and it then counts in the early
   exit of `send_chunks` (`chunks_sender.rs:82`): a settled player may be owed a
   loaded chunk for ever. What does hold is `SettledPlayerServed`: no more chunks
   are missing than are stale.
2. `spawn_announced`. `update_world_chunks` and `on_chunk_loaded` drain the same
   channel; a player that waits for its chunk is announced only if the second
   one is faster. If it is, the inventories of the chunk are not registered.
3. `shutdown_save`. The save at shutdown panics on a column that is loading; a load that
   fails stops the server and leaves just such a column.
4. `armor_swap`. The slot rules look at the moved item only; a swap puts the other
   item into the armor slot, whatever it is (`hooks.rs:51`, `move_ops.rs:106`).
5. `duplicate_inventory`. `get_or_create_inventory` looks for its new random id
   instead of the id it found at the block; a second call, or a call before the
   chunk is registered, ends in the panic "duplicate world inventory id".

6. `saved_on_disconnect`. Player data are "saved on disconnect" (`client.rs:105`), but
   the shutdown empties the container before the ends of the connections are
   read, so nobody is saved. (A change that an event of the same tick makes after
   `on_disconnect` has saved is lost as well; `lapsed` has that case, the finding does not
   rest on it.)

`WorldChunks` also has panics that no finding is about:
an edit of a loading column, or a request for an inventory in it, an error of the storage in
the save at shutdown, and a spawn event of a player that has left. `EntityStreaming`
has the latter too, and `LateEvent`: a move, a teleport or a skin for a player whose
departure was handled earlier in the tick. `Sessions` has one: a kick that comes while the settings of that client are handled, before its
spawn.

## What is not modelled

Contents of chunks beyond the last edit, geometry of movement, rotation, animation;
message encoding; logging, spans and metrics; what the systems of the startup read;
plugin code (WASM), and the locks that plugins and their host functions take. The
pieces of the resource archive are counted (`Sessions`), not their bytes. Of the
console, parsing and output, and the completions that clients ask for
(`on_console_complete`), which are answered in the same call. Nothing in the
code takes a skin away or changes a tag, so those branches of
`sync_update_entity_component` are dead and left out. The files
`network/runtime_plugin.rs`, `network/clients_container.rs` and
`inventory/inventory_actions/operations.rs` belong to no module of the crate.
Several worlds: `update_world_chunks` treats each alone; what is shared between
them, entity numbers and the inventory registry, is planned below. The two
despawn limits of wall-clock time (`MAX_DESPAWN_DURATION`, ticks of any length)
are nondeterminism: the scan may drop any part of what is due.

## Plan

Done, in the order of importance: chunk delivery, columns, inventories, sessions,
entity streaming, block edits, the loop of the server and the console, each with its
proofs. Left:

1. One model of items with the saves of players and chunks and a crash between
   them, over `Inventories` and `WorldChunks`; boxes with fewer slots than a player.
2. `Resources`, and the locks that plugin code takes while it generates a chunk in
   the pool; permissions.
3. Several worlds at once: entity numbers and the inventory registry they share.

The violation runs show one finding each; those whose finding another model
covers may be merged when these come.
