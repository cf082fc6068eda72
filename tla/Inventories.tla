---------------------------- MODULE Inventories ----------------------------
(***************************************************************************)
(* Inventories of players and of blocks in a world: the registry of the    *)
(* inventories in memory and their watchers (InventoryManager), the        *)
(* actions of players on slots (inventory_actions), and the stream that    *)
(* keeps the windows of the clients up to date (sync_inventory.rs).        *)
(*                                                                         *)
(* Systems run one after the other, and each holds the inventory manager   *)
(* while it works on one event, so a handler is one step.  Only the tasks  *)
(* that load chunks run beside them.                                       *)
(*                                                                         *)
(* A box is a block that may have an inventory, and stands for the id of   *)
(* that inventory too: the id is drawn when the inventory is created and   *)
(* never changes.                                                          *)
(*                                                                         *)
(* Messages of the inventory stream have one reliable ordered type, and    *)
(* the client does nothing but apply them: view is what it shows once it   *)
(* has received all that was sent so far.                                  *)
(***************************************************************************)
EXTENDS InventorySlots

CONSTANTS
  Player,       \* players, who stand for the entity of their present session
  Box,          \* blocks that may have an inventory
  Chunk,        \* chunks
  ChunkOf,      \* the chunk of a box
  StoredSlots,  \* what the storage holds for each player at the start
  Closed,       \* a window that is not open
  MaxItems      \* bound on the items that are given

Holder == Player \cup Box

ASSUME InventoryAssumption ==
  /\ Player \cap Box = {}
  /\ ChunkOf \in [Box -> Chunk]
  /\ StoredSlots \in [Player -> Inventory]
  /\ Closed \notin Inventory
  /\ MaxItems \in Nat

\* What was stored was stored by this code, with the same stack sizes.
ASSUME StoredAssumption ==
  \A p \in Player, s \in Slot :
    StoredSlots[p][s] # NoItem =>
      StoredSlots[p][s].amount <= MaxStack[StoredSlots[p][s].kind]

\* The maps of the code are finite, and an inventory has a fixed number of slots.
ASSUME FiniteAssumption ==
  IsFiniteSet(Player) /\ IsFiniteSet(Box) /\ IsFiniteSet(Slot)

VARIABLES
  phase,          \* "gone", "lobby" (player data loaded), "world" (has an entity)
  column,         \* the column of each chunk
  loaded_chunks,  \* the channel of loaded chunks
  created,        \* boxes whose inventory exists, in memory or in the storage
  world_inventories,  \* InventoryState.world_inventories: the registered boxes
  early,          \* history: boxes that a plugin had registered before the notice
                  \* of their chunk was taken out of the channel
  by_inventory,   \* InventoryWatchers.by_inventory
  by_entity,      \* InventoryWatchers.by_entity
  slots,          \* the slots of every inventory
  view,           \* the windows of every client
  skin,           \* the EntitySkinComponent of each player in the world
  unrefreshed,    \* history: players whose slots a command or plugin changed since
  supply,         \* history: items of each kind that were given less those dropped
  cleared,        \* history: items of each kind that the console has cleared
  server          \* "active", or the panic that ended it

columns == <<column, loaded_chunks>>
registry == <<created, world_inventories, early>>
watchers == <<by_inventory, by_entity>>
skins == <<skin, unrefreshed>>
account == <<supply, cleared>>
vars == <<phase, columns, registry, watchers, slots, view, skins, account, server>>

Running == server = "active"

Init ==
  /\ phase = [p \in Player |-> "gone"]
  /\ column = [ch \in Chunk |-> "absent"]
  /\ loaded_chunks = {}
  /\ created = {}
  /\ world_inventories = {}
  /\ early = {}
  /\ by_inventory = [b \in Box |-> {}]
  /\ by_entity = [p \in Player |-> {}]
  /\ slots = [h \in Holder |-> IF h \in Player THEN StoredSlots[h] ELSE EmptyInventory]
  /\ view = [p \in Player |-> [h \in Holder |-> Closed]]
  /\ skin = [p \in Player |-> Worn(EmptyInventory)]
  /\ unrefreshed = {}
  /\ supply = [k \in Kind |-> 0]
  /\ cleared = [k \in Kind |-> 0]
  /\ server = "active"

-----------------------------------------------------------------------------
(* Watchers and windows.                                                   *)

\* remove_all_entity_tickets.
UnwatchEntity(p) ==
  /\ by_inventory' = [b \in Box |-> by_inventory[b] \ {p}]
  /\ by_entity' = [by_entity EXCEPT ![p] = {}]

\* Mutation: remove_all_inventory_tickets forgets the map by entity.
UnwatchInventories_KeepEntities(boxes) ==
  /\ by_inventory' = [b \in Box |-> IF b \in boxes THEN {} ELSE by_inventory[b]]
  /\ UNCHANGED by_entity

\* remove_all_inventory_tickets, for each of the boxes.
UnwatchInventories(boxes) ==
  /\ by_inventory' = [b \in Box |-> IF b \in boxes THEN {} ELSE by_inventory[b]]
  /\ by_entity' = [p \in Player |-> by_entity[p] \ boxes]

\* remove_ticket, and the message StopStream.
CloseInventory(p, b) ==
  /\ by_inventory' = [by_inventory EXCEPT ![b] = @ \ {p}]
  /\ by_entity' = [by_entity EXCEPT ![p] = @ \ {b}]
  /\ view' = [view EXCEPT ![p][b] = Closed]

\* The clients that are told of changes: broadcast_inventory_changes.
Audience(h) == IF h \in Player THEN {h} ELSE by_inventory[h]

\* Mutation: a move tells only the viewers of the place the items came from.
Broadcast_First(places) ==
  view' = [p \in Player |-> [h \in Holder |->
             IF p \in Audience(h) /\ view[p][h] # Closed
             THEN [s \in Slot |-> IF <<h, s>> = places[1] THEN slots'[h][s]
                                                          ELSE view[p][h][s]]
             ELSE view[p][h]]]

\* UpdateSlots for the slots at places; a client that has not the window open
\* ignores it.
Broadcast(places) ==
  view' = [p \in Player |-> [h \in Holder |->
             IF p \in Audience(h) /\ view[p][h] # Closed
             THEN [s \in Slot |-> IF \E i \in DOMAIN places : places[i] = <<h, s>>
                                  THEN slots'[h][s] ELSE view[p][h][s]]
             ELSE view[p][h]]]

\* Mutation: only the first changed slot is looked at.
ShownSlots_First(p, places) == {places[1]} \cap ({p} \X BodySlot)

\* The changed places that show on the player's body: armor_slot_changed.
ShownSlots(p, places) ==
  {places[i] : i \in DOMAIN places} \cap ({p} \X BodySlot)

\* after_inventory_modified: the skin of the acting player follows its own
\* inventory.  The command it queues panics if the player has no entity.
AfterInventoryModified(p, places) ==
  IF ShownSlots(p, places) = {}
  THEN UNCHANGED <<skins, server>>
  ELSE /\ skin' = [skin EXCEPT ![p] = Worn(slots'[p])]
       /\ unrefreshed' = unrefreshed \ {p}
       /\ server' = IF phase[p] = "world" THEN "active" ELSE "skin_panic"

-----------------------------------------------------------------------------
(* Sessions, as far as inventories are concerned.                          *)

\* on_connection_info: the player data are read and the own inventory is shown.
OnConnectionInfo(p) ==
  /\ Running
  /\ phase[p] = "gone"
  /\ phase' = [phase EXCEPT ![p] = "lobby"]
  /\ view' = [view EXCEPT ![p] =
       [h \in Holder |-> IF h = p THEN slots[p] ELSE Closed]]
  /\ UNCHANGED <<columns, registry, watchers, slots, account, skins, server>>

\* SpawnPlayer::apply: the entity gets the skin of its inventory.
SpawnPlayer(p) ==
  /\ Running
  /\ phase[p] = "lobby"
  /\ phase' = [phase EXCEPT ![p] = "world"]
  /\ skin' = [skin EXCEPT ![p] = Worn(slots[p])]
  /\ unrefreshed' = unrefreshed \ {p}
  /\ UNCHANGED <<columns, registry, watchers, slots, account, view, server>>

\* A change between these slots of the own inventory that shows.
ShownMove(p, s, t) ==
  /\ s # t /\ {s, t} \cap BodySlot # {}
  /\ slots[p][s] # NoItem
  /\ SlotAllows(slots[p][s], t)

\* on_disconnect: the player data are saved, the entity is despawned.  An event
\* of the same tick may be handled after that.  What it does to the inventory
\* in memory is lost, but the refresh of the skin panics: no entity.
OnDisconnect(p) ==
  /\ Running
  /\ phase[p] # "gone"
  /\ phase' = [phase EXCEPT ![p] = "gone"]
  /\ view' = [view EXCEPT ![p] = [h \in Holder |-> Closed]]
  /\ UnwatchEntity(p)
  /\ \/ UNCHANGED server
     \/ (\E s, t \in Slot : ShownMove(p, s, t)) /\ server' = "skin_panic"
  /\ UNCHANGED <<columns, registry, slots, account, skins>>

-----------------------------------------------------------------------------
(* Columns and the registry.  A column is created only when the channel    *)
(* has no entry for its chunk (LoadedEntriesHaveData of WorldChunks).      *)

CreateColumn(ch) ==
  /\ Running
  /\ column[ch] = "absent" /\ ch \notin loaded_chunks
  /\ column' = [column EXCEPT ![ch] = "loading"]
  /\ UNCHANGED <<phase, loaded_chunks, registry, watchers, slots, account, view, skins, server>>

\* The load task sets the data and writes to the channel.
LoadChunk(ch) ==
  /\ Running
  /\ column[ch] = "loading"
  /\ column' = [column EXCEPT ![ch] = "loaded"]
  /\ loaded_chunks' = loaded_chunks \cup {ch}
  /\ UNCHANGED <<phase, registry, watchers, slots, account, view, skins, server>>

\* The inventories in the chunks.
InventoriesOf(chunks) == {b \in created : ChunkOf[b] \in chunks}

\* register_chunk_inventories: register_world_inventory panics on an id it has.
Register(found) ==
  IF found \cap world_inventories = {}
  THEN world_inventories' = world_inventories \cup found /\ UNCHANGED server
  ELSE server' = "duplicate_panic" /\ UNCHANGED world_inventories

\* Mutation: the entries stay in the channel.
RegisterLoadedChunks_Peek ==
  /\ Running
  /\ loaded_chunks # {}
  /\ Register(InventoriesOf({ch \in loaded_chunks : column[ch] # "absent"}))
  /\ UNCHANGED <<phase, columns, created, early, watchers, slots, account, view, skins>>

\* update_world_chunks: registers for the loaded chunks that are still in the map.
RegisterLoadedChunks ==
  /\ Running
  /\ loaded_chunks # {}
  /\ loaded_chunks' = {}
  /\ Register(InventoriesOf({ch \in loaded_chunks : column[ch] # "absent"}))
  /\ early' = {}
  /\ UNCHANGED <<phase, column, created, watchers, slots, account, view, skins>>

\* on_chunk_loaded drains the same channel and registers nothing.
OnChunkLoaded ==
  /\ Running
  /\ loaded_chunks # {}
  /\ loaded_chunks' = {}
  /\ early' = {}
  /\ UNCHANGED <<phase, column, created, world_inventories, watchers, slots, account, view,
                 skins, server>>

\* Mutation: the inventories of a dropped column stay registered.
Unregister_WatchersOnly(boxes) ==
  UnwatchInventories(boxes) /\ UNCHANGED <<world_inventories, early>>

\* unregister_chunk_inventories.
Unregister(boxes) ==
  /\ UnwatchInventories(boxes)
  /\ world_inventories' = world_inventories \ boxes
  /\ early' = early \ boxes

\* update_chunks_state drops a column that nobody watches.  Players that have
\* one of its inventories open are not told.
DespawnChunk(ch) ==
  /\ Running
  /\ column[ch] = "loaded"
  /\ column' = [column EXCEPT ![ch] = "absent"]
  /\ Unregister(InventoriesOf({ch}))
  /\ UNCHANGED <<phase, loaded_chunks, created, slots, account, view, skins, server>>

\* get_or_create_inventory, called by a plugin.  It draws a new id and looks for
\* that id in the registry, so it registers the box whether or not it is
\* registered already.  A column without data makes it panic.
GetOrCreateInventory(b) ==
  /\ Running
  /\ column[ChunkOf[b]] # "absent"
  /\ IF column[ChunkOf[b]] = "loading"
     THEN server' = "storage_panic" /\ UNCHANGED registry
     ELSE /\ created' = created \cup {b}
          /\ IF b \in world_inventories
             THEN server' = "duplicate_panic" /\ UNCHANGED <<world_inventories, early>>
             ELSE /\ world_inventories' = world_inventories \cup {b}
                  /\ early' = IF ChunkOf[b] \in loaded_chunks THEN early \cup {b} ELSE early
                  /\ UNCHANGED server
  /\ UNCHANGED <<phase, columns, watchers, slots, account, view, skins>>

-----------------------------------------------------------------------------
(* Plugins and the console.                                                *)

\* The message StartStream: a snapshot of the box.
StartStream(p, b) == view' = [view EXCEPT ![p][b] = slots[b]]

\* open_inventory: insert_ticket, and the snapshot.  A box that the player has
\* open already is left as it is.
OpenInventory(p, b) ==
  /\ Running
  /\ phase[p] = "world"
  /\ b \in world_inventories
  /\ p \notin by_inventory[b]
  /\ by_inventory' = [by_inventory EXCEPT ![b] = @ \cup {p}]
  /\ by_entity' = [by_entity EXCEPT ![p] = @ \cup {b}]
  /\ StartStream(p, b)
  /\ UNCHANGED <<phase, columns, registry, slots, account, skins, server>>

\* close_inventory, called by a plugin for any box.
PluginClosesInventory(p, b) ==
  /\ Running
  /\ phase[p] = "world"
  /\ CloseInventory(p, b)
  /\ UNCHANGED <<phase, columns, registry, slots, account, skins, server>>

\* Inventory::add_item, of a library: it fills slots that are empty or hold the
\* same kind, here with one item.
\* add_inventory_item_raw and command_give tell the viewers of each changed slot.
AddItem(h, s, k) ==
  /\ Running
  /\ h \in Player => phase[h] # "gone"
  /\ h \in Box => h \in world_inventories
  /\ slots[h][s] # NoItem => slots[h][s].kind = k
  /\ Amount(slots[h][s], k) < MaxStack[k]
  /\ SumFunction(supply) < MaxItems
  /\ slots' = [slots EXCEPT ![h][s] = More(@, k, 1)]
  /\ supply' = [supply EXCEPT ![k] = @ + 1]
  /\ Broadcast(<< <<h, s>> >>)
  /\ unrefreshed' = unrefreshed \cup ({h} \cap Player)
  /\ UNCHANGED <<phase, columns, registry, watchers, skin, cleared, server>>

\* command_clear.
CommandClear(p) ==
  /\ Running
  /\ phase[p] # "gone"
  /\ slots' = [slots EXCEPT ![p] = EmptyInventory]
  /\ cleared' = [k \in Kind |-> cleared[k] + Held(slots[p], k)]
  /\ view' = [view EXCEPT ![p][p] = EmptyInventory]
  /\ unrefreshed' = unrefreshed \cup {p}
  /\ UNCHANGED <<phase, columns, registry, watchers, skin, supply, server>>

-----------------------------------------------------------------------------
(* Actions of players: on_inventory_action.                                *)

\* Mutation: any registered box may be used, open or not.
MayUse_Registered(p, h) == h = p \/ h \in world_inventories

\* authorize_inventory_target.
MayUse(p, h) == h = p \/ (h \in Box /\ phase[p] = "world" /\ p \in by_inventory[h])

\* apply_move, for a move that changes anything.
Move(p, from, from_slot, to, to_slot, n) ==
  LET source == slots[from][from_slot]
      target == slots[to][to_slot]
      places == << <<from, from_slot>>, <<to, to_slot>> >>
  IN
  /\ MayUse(p, from) /\ MayUse(p, to)
  /\ BeforeAction(source, to_slot, n)
  /\ places[1] # places[2]
  /\ slots' = [slots EXCEPT ![from][from_slot] = Moved(source, target, n).source,
                            ![to][to_slot] = Moved(source, target, n).target]
  /\ slots' # slots
  /\ Broadcast(places)
  /\ AfterInventoryModified(p, places)
  /\ UNCHANGED <<phase, columns, registry, watchers, account>>

\* drop_stack: the dropped items are gone.
Drop(p, h, s, n) ==
  /\ MayUse(p, h)
  /\ BeforeAction(slots[h][s], s, n)
  /\ slots' = [slots EXCEPT ![h][s] = Less(@, n)]
  /\ supply' = [supply EXCEPT ![slots[h][s].kind] = @ - n]
  /\ Broadcast(<< <<h, s>> >>)
  /\ AfterInventoryModified(p, << <<h, s>> >>)
  /\ UNCHANGED <<phase, columns, registry, watchers, cleared>>

\* apply_close; for the own inventory it does nothing.
Close(p, b) ==
  /\ b \in Box
  /\ MayUse(p, b)
  /\ CloseInventory(p, b)
  /\ UNCHANGED <<phase, columns, registry, slots, account, skins, server>>

\* resolve_quick_action: equip or take off an item, or close the window if the
\* slot is empty or there is no place for the item.
QuickAction(p, h, s) ==
  IF slots[h][s] # NoItem /\ QuickTargets(slots[h], s) # {}
  THEN \E to \in QuickTargets(slots[h], s) : Move(p, h, s, h, to, slots[h][s].amount)
  ELSE Close(p, h)

\* apply_action, for inventory h.
ApplyAction(p, h) ==
  \/ Close(p, h)
  \/ \E s \in Slot : slots[h][s] # NoItem /\
       \E n \in 1..slots[h][s].amount :
         \/ Drop(p, h, s, n)
         \/ \E to \in Holder, t \in Slot : Move(p, h, s, to, t, n)

OnInventoryAction(p) ==
  /\ Running
  /\ phase[p] # "gone"
  /\ \E h \in Holder : ApplyAction(p, h) \/ \E s \in Slot : QuickAction(p, h, s)

-----------------------------------------------------------------------------

PlayerStep(p) ==
  \/ OnConnectionInfo(p) \/ SpawnPlayer(p) \/ OnDisconnect(p)
  \/ OnInventoryAction(p) \/ CommandClear(p)
  \/ \E b \in Box : OpenInventory(p, b) \/ PluginClosesInventory(p, b)

Next ==
  \/ RegisterLoadedChunks \/ OnChunkLoaded
  \/ \E ch \in Chunk : CreateColumn(ch) \/ LoadChunk(ch) \/ DespawnChunk(ch)
  \/ \E p \in Player : PlayerStep(p)
  \/ \E b \in Box : GetOrCreateInventory(b)
  \/ \E h \in Holder, s \in Slot, k \in Kind : AddItem(h, s, k)

Spec == Init /\ [][Next]_vars

-----------------------------------------------------------------------------
(* Properties.                                                             *)

Panics == {"duplicate_panic", "storage_panic", "skin_panic"}

\* Every variable has its type.
TypeOK ==
  /\ phase \in [Player -> {"gone", "lobby", "world"}]
  /\ column \in [Chunk -> {"absent", "loading", "loaded"}]
  /\ loaded_chunks \in SUBSET Chunk
  /\ created \in SUBSET Box
  /\ world_inventories \in SUBSET Box
  /\ early \in SUBSET Box
  /\ by_inventory \in [Box -> SUBSET Player]
  /\ by_entity \in [Player -> SUBSET Box]
  /\ slots \in [Holder -> Inventory]
  /\ view \in [Player -> [Holder -> Inventory \cup {Closed}]]
  /\ skin \in [Player -> [BodySlot -> Kind \cup {NoItem}]]
  /\ unrefreshed \in SUBSET Player
  /\ supply \in [Kind -> Int]
  /\ cleared \in [Kind -> Int]
  /\ server \in {"active"} \cup Panics

\* Both maps of the watchers agree, through opening, closing, despawned chunks
\* and players that leave; who watches has an entity, and what is watched is
\* registered, so that an action always finds the slots it is allowed to use.
WatchersAccounted ==
  \A p \in Player, b \in Box :
    /\ p \in by_inventory[b] <=> b \in by_entity[p]
    /\ p \in by_inventory[b] => phase[p] = "world" /\ b \in world_inventories

\* A registered inventory is in the data of a column that is in memory: nothing
\* is registered for a chunk that was dropped, whoever emptied the channel.
RegisteredInMemory ==
  \A b \in world_inventories : b \in created /\ column[ChunkOf[b]] = "loaded"

\* What update_world_chunks is about to register is not registered already, over
\* any sequence of drops and loads of the chunk, but for what a plugin had
\* registered while the notice of the chunk was in the channel: that call alone
\* makes this system end in the panic of inventory_state.rs, line 59.
ChannelUnregistered ==
  \A b \in world_inventories : ChunkOf[b] \in loaded_chunks => b \in early

\* A client shows its own inventory and every box it watches as they are, up to
\* the messages on their way, whoever changed them.
ViewsCurrent ==
  \A p \in Player :
    phase[p] # "gone" => \A h \in {p} \cup by_entity[p] : view[p][h] = slots[h]

\* No stack exceeds the size that its kind allows.
StacksBounded ==
  \A h \in Holder, s \in Slot :
    slots[h][s] # NoItem => slots[h][s].amount <= MaxStack[slots[h][s].kind]

\* The skin others see is what the player wears, but for changes by the console
\* or a plugin, after which nothing refreshes it.
SkinShowsArmor ==
  \A p \in Player \ unrefreshed : phase[p] = "world" => skin[p] = Worn(slots[p])

\* No sequence of moves, swaps, merges, splits, openings and departures creates
\* or loses an item: all inventories together hold what was given and not
\* dropped or cleared, and what the players started with.
ItemsConserved ==
  \A k \in Kind :
    SumFunction([h \in Holder |-> Held(slots[h], k)])
      = SumFunction([p \in Player |-> Held(StoredSlots[p], k)])
          + supply[k] - cleared[k]

Exchange == INSTANCE ItemExchange WITH held <- slots, open <- by_entity

\* Items move only between inventories within reach of one player, and are
\* neither created nor lost by it.
ImplementsExchange == Exchange!Spec

\* Armor slots hold only what fits them: "move into head slot with non-armor
\* must be rejected" (inventory_actions/mod.rs, line 338).
ArmorSlotsFit ==
  \A h \in Holder, s \in ArmorSlot :
    slots[h][s] # NoItem => SlotAllows(slots[h][s], s)

\* No inventory is registered twice: the panic "duplicate world inventory id"
\* (inventory_state.rs, line 59) is never reached.
NoDuplicateInventory == server # "duplicate_panic"
=============================================================================
