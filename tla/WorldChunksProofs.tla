------------------------- MODULE WorldChunksProofs -------------------------
(***************************************************************************)
(* Theorems about WorldChunks, for any number of players and chunks, any   *)
(* geometry, any despawn timer and any bounds on edits and save tasks:     *)
(* columns, load tasks, the way of a watched chunk to its data, and that   *)
(* edits are kept.                                                         *)
(***************************************************************************)
EXTENDS WorldChunks, TicketLemmas

USE DEF tickets, players, columns, pool, spawning, history, vars

-----------------------------------------------------------------------------
(* The type invariant.                                                     *)

LEMMA InitTypeOK == Init => TypeOK
<1> SUFFICES ASSUME Init PROVE TypeOK
  OBVIOUS
<1>1. saves \in [Chunk -> Seq(Nat)]
  BY DEF Init
<1>2. TicketsTypeOK
  BY DEF Init, TicketsInit, TicketsTypeOK
<1>3. /\ despawn_timer \in [Chunk -> 0..DespawnTimer]
      /\ chunk_storage \in [Chunk -> Nat]
      /\ storage \in [Chunk -> Nat]
      /\ edits \in [Chunk -> Nat]
  BY WorldAssumption DEF Init
<1> QED
  BY <1>1, <1>2, <1>3, WorldAssumption DEF Init, TypeOK

LEMMA ResetTyped ==
  ASSUME TypeOK, NEW chunks, ResetTimers(chunks)
  PROVE  despawn_timer' \in [Chunk -> 0..DespawnTimer]
  BY WorldAssumption DEF ResetTimers, TypeOK

LEMMA PlayerStepTypeOK ==
  ASSUME TypeOK, NEW p \in Player, PlayerStep(p)
  PROVE  TypeOK'
<1>1. CASE SpawnPlayer(p)
  <2>1. TicketsTypeOK'
    BY <1>1, OperationsTyped DEF SpawnPlayer, TypeOK
  <2>2. spawn_events' \in SUBSET Player
    BY <1>1 DEF SpawnPlayer, TypeOK
  <2> QED
    BY <1>1, <2>1, <2>2, ResetTyped DEF SpawnPlayer, TypeOK
<1>2. ASSUME NEW to \in Chunk, MovePlayer(p, to) PROVE TypeOK'
  <2>1. TicketsTypeOK'
    BY <1>2, OperationsTyped DEF MovePlayer, TypeOK
  <2> QED
    BY <1>2, <2>1, ResetTyped DEF MovePlayer, TypeOK
<1>3. CASE LoseConnection(p)
  BY <1>3 DEF LoseConnection, TypeOK, TicketsTypeOK
<1>4. CASE OnDisconnect(p)
  <2>1. TicketsTypeOK'
    BY <1>4, OperationsTyped DEF OnDisconnect, TypeOK
  <2> QED
    BY <1>4, <2>1 DEF OnDisconnect, TypeOK
<1> QED
  BY <1>1, <1>2, <1>3, <1>4 DEF PlayerStep

LEMMA UpdateTypeOK ==
  ASSUME TypeOK, NEW despawned \in SUBSET Despawnable, UpdateChunksState(despawned)
  PROVE  TypeOK'
<1>1. \A ch \in Chunk : Aged(ch) \in 0..DespawnTimer
  BY WorldAssumption DEF Aged, TypeOK
<1>2. despawn_timer' \in [Chunk -> 0..DespawnTimer]
  BY <1>1, WorldAssumption DEF UpdateChunksState
<1>3. saves' \in [Chunk -> Seq(Nat)]
  <2>1. \A ch \in Chunk : saves[ch] \in Seq(Nat) /\ chunk_storage[ch] \in Nat
    BY DEF TypeOK
  <2>2. \A ch \in Chunk : Append(saves[ch], chunk_storage[ch]) \in Seq(Nat)
    BY <2>1
  <2> QED
    BY <2>1, <2>2 DEF UpdateChunksState, SpawnSaves
<1>4. /\ column' \in [Chunk -> {"absent", "loading", "loaded"}]
      /\ chunk_storage' \in [Chunk -> Nat]
      /\ loads' \in SUBSET Chunk
      /\ updating' \in BOOLEAN
  BY DEF UpdateChunksState, TypeOK
<1> QED
  BY <1>2, <1>3, <1>4 DEF UpdateChunksState, TypeOK, TicketsTypeOK

LEMMA TaskStepTypeOK ==
  ASSUME TypeOK, NEW ch \in Chunk, TaskStep(ch)
  PROVE  TypeOK'
<1>1. CASE LoadChunk(ch)
  BY <1>1 DEF LoadChunk, Stored, TypeOK, TicketsTypeOK
<1>2. CASE LoadFails(ch)
  BY <1>2 DEF LoadFails, TypeOK, TicketsTypeOK
<1>3. ASSUME NEW i \in DOMAIN saves[ch]
      PROVE  /\ saves[ch][i] \in Nat
             /\ [saves EXCEPT ![ch] = RemoveAt(@, i)] \in [Chunk -> Seq(Nat)]
  <2>1. saves \in [Chunk -> Seq(Nat)] /\ saves[ch] \in Seq(Nat) /\ i \in 1..Len(saves[ch])
    BY DEF TypeOK
  <2>2. RemoveAt(saves[ch], i) \in Seq(Nat)
    BY <2>1, RemoveAtType
  <2> QED
    BY <2>1, <2>2
<1>4. ASSUME NEW i, SaveChunk(ch, i) PROVE TypeOK'
  <2>1. saves' \in [Chunk -> Seq(Nat)] /\ saves[ch][i] \in Nat
    BY <1>3, <1>4 DEF SaveChunk
  <2> QED
    BY <1>4, <2>1 DEF SaveChunk, TypeOK, TicketsTypeOK
<1>5. ASSUME NEW i, SaveFails(ch, i) PROVE TypeOK'
  <2>1. saves' \in [Chunk -> Seq(Nat)]
    BY <1>3, <1>5 DEF SaveFails
  <2> QED
    BY <1>5, <2>1 DEF SaveFails, TypeOK, TicketsTypeOK
<1>6. CASE SkipTask(ch)
  <2>1. saves' \in [Chunk -> Seq(Nat)] /\ loads' \in SUBSET Chunk /\ lapsed' \in SUBSET Chunk
    <3>1. CASE loads' = loads \ {ch} /\ UNCHANGED <<saves, lapsed>>
      BY <3>1 DEF TypeOK
    <3>2. ASSUME NEW i \in DOMAIN saves[ch], saves' = [saves EXCEPT ![ch] = RemoveAt(@, i)],
                 lapsed' = lapsed \cup {ch}, UNCHANGED loads
          PROVE  saves' \in [Chunk -> Seq(Nat)] /\ loads' \in SUBSET Chunk /\ lapsed' \in SUBSET Chunk
      BY <1>3, <3>2 DEF TypeOK
    <3> QED
      BY <1>6, <3>1, <3>2 DEF SkipTask
  <2> QED
    BY <1>6, <2>1 DEF SkipTask, TypeOK, TicketsTypeOK
<1> QED
  BY <1>1, <1>2, <1>4, <1>5, <1>6 DEF TaskStep

\* What a plugin does to a column: a change of its data, or a panic.
LEMMA PluginStep ==
  ASSUME NEW ch, EditBlock(ch) \/ GetOrCreateInventory(ch)
  PROVE  \/ /\ column[ch] = "loaded"
            /\ edits' = [edits EXCEPT ![ch] = edits[ch] + 1]
            /\ chunk_storage' = [chunk_storage EXCEPT ![ch] = edits[ch] + 1]
            /\ UNCHANGED server
         \/ /\ server' \in {"edit_panic", "inventory_panic"}
            /\ UNCHANGED <<edits, chunk_storage>>
  BY Zenon DEF EditBlock, GetOrCreateInventory, ChangeData, Fails

LEMMA NextTypeOK == TypeOK /\ [Next]_vars => TypeOK'
<1> SUFFICES ASSUME TypeOK, [Next]_vars PROVE TypeOK'
  OBVIOUS
<1>1. CASE OnPlayerSpawn
  BY <1>1 DEF OnPlayerSpawn, TypeOK, TicketsTypeOK, Panics
<1>2. CASE OnChunkLoaded
  BY <1>2 DEF OnChunkLoaded, TypeOK, TicketsTypeOK
<1>3. CASE DrainLoadedChunks
  BY <1>3 DEF DrainLoadedChunks, TypeOK, TicketsTypeOK, Panics
<1>4. ASSUME NEW ch \in Chunk, EditBlock(ch) \/ GetOrCreateInventory(ch) PROVE TypeOK'
  <2>1. edits[ch] + 1 \in Nat
    BY DEF TypeOK
  <2>2. \/ /\ edits' = [edits EXCEPT ![ch] = edits[ch] + 1]
           /\ chunk_storage' = [chunk_storage EXCEPT ![ch] = edits[ch] + 1]
           /\ UNCHANGED server
        \/ /\ server' \in {"edit_panic", "inventory_panic"}
           /\ UNCHANGED <<edits, chunk_storage>>
    BY <1>4, PluginStep
  <2>3. /\ edits' \in [Chunk -> Nat]
        /\ chunk_storage' \in [Chunk -> Nat]
        /\ server' \in {"active", "stopping", "exited"} \cup Panics
    <3>1. /\ edits \in [Chunk -> Nat]
          /\ chunk_storage \in [Chunk -> Nat]
          /\ server \in {"active", "stopping", "exited"} \cup Panics
      BY DEF TypeOK
    <3> QED
      BY <2>1, <2>2, <3>1 DEF Panics
  <2> QED
    BY <1>4, <2>3 DEF EditBlock, GetOrCreateInventory, TypeOK, TicketsTypeOK
<1>5. CASE Stop
  BY <1>5 DEF Stop, TypeOK, TicketsTypeOK
<1>6. CASE UpdateRuntime
  <2>1. storage' \in [Chunk -> Nat]
    BY <1>6 DEF UpdateRuntime, SaveColumns, Saved, TypeOK
  <2>2. server' \in {"exited", "save_panic", "save_error"}
    BY <1>6 DEF UpdateRuntime
  <2> QED
    BY <1>6, <2>1, <2>2 DEF UpdateRuntime, TypeOK, TicketsTypeOK, Panics
<1>7. CASE UNCHANGED vars
  BY <1>7 DEF TypeOK, TicketsTypeOK
<1> QED
  BY <1>1, <1>2, <1>3, <1>4, <1>5, <1>6, <1>7, PlayerStepTypeOK, UpdateTypeOK, TaskStepTypeOK
  DEF Next

\* Every variable always has its type.
THEOREM TypeCorrect == Spec => []TypeOK
  BY InitTypeOK, NextTypeOK, PTL DEF Spec

-----------------------------------------------------------------------------
(* The timers and the columns.                                             *)

\* A watched column has a fresh timer: this is why the scan of
\* update_chunks_state, which looks only at timers, spares it.
WatchedAreFresh == \A ch \in Chunk : by_chunk[ch] # {} => despawn_timer[ch] = 0

\* Giving tickets to a player and resetting the timers of the added chunks
\* keeps watched columns fresh.
LEMMA AddedAreFresh ==
  ASSUME TypeOK, WatchedAreFresh, NEW p \in Player, NEW added, NEW removed,
         ChangeTickets(p, added, removed), ResetTimers(added)
  PROVE  WatchedAreFresh'
<1> SUFFICES ASSUME NEW ch \in Chunk, by_chunk'[ch] # {} PROVE despawn_timer'[ch] = 0
  BY DEF WatchedAreFresh
<1>1. CASE ch \in added
  BY <1>1 DEF ResetTimers
<1>2. CASE ch \notin added
  <2>1. by_chunk'[ch] \subseteq by_chunk[ch]
    BY <1>2 DEF ChangeTickets
  <2>2. despawn_timer'[ch] = despawn_timer[ch]
    BY <1>2 DEF ResetTimers
  <2> QED
    BY <2>1, <2>2 DEF WatchedAreFresh
<1> QED
  BY <1>1, <1>2

LEMMA NextFresh == TypeOK /\ WatchedAreFresh /\ [Next]_vars => WatchedAreFresh'
<1> SUFFICES ASSUME TypeOK, WatchedAreFresh, [Next]_vars PROVE WatchedAreFresh'
  OBVIOUS
<1>1. ASSUME NEW p \in Player, SpawnPlayer(p) PROVE WatchedAreFresh'
  BY <1>1, AddedAreFresh DEF SpawnPlayer, StartChunksRender
<1>2. ASSUME NEW p \in Player, NEW to, MovePlayer(p, to) PROVE WatchedAreFresh'
  BY <1>2, AddedAreFresh DEF MovePlayer, UpdateChunksRender
<1>3. ASSUME NEW p \in Player, OnDisconnect(p) PROVE WatchedAreFresh'
  <2>1. \A ch \in Chunk : by_chunk'[ch] \subseteq by_chunk[ch] /\ despawn_timer'[ch] = despawn_timer[ch]
    BY <1>3 DEF OnDisconnect, StopChunksRender, TypeOK, TicketsTypeOK
  <2> QED
    BY <2>1 DEF WatchedAreFresh
<1>4. ASSUME NEW despawned, UpdateChunksState(despawned) PROVE WatchedAreFresh'
  BY <1>4 DEF UpdateChunksState, Aged, WatchedAreFresh
<1>5. CASE UNCHANGED <<by_chunk, despawn_timer>>
  BY <1>5 DEF WatchedAreFresh
<1> QED
  BY <1>1, <1>2, <1>3, <1>4, <1>5
  DEF Next, PlayerStep, TaskStep, LoseConnection, OnPlayerSpawn, OnChunkLoaded,
      DrainLoadedChunks, LoadChunk, LoadFails, SaveChunk, SaveFails, SkipTask, EditBlock,
      GetOrCreateInventory, Stop, UpdateRuntime

LEMMA FreshHolds == Spec => []WatchedAreFresh
<1>1. Init => WatchedAreFresh
  BY DEF Init, TicketsInit, WatchedAreFresh
<1> QED
  BY <1>1, NextFresh, TypeCorrect, PTL DEF Spec

\* The chunks that somebody watches.
Watched == {ch \in Chunk : by_chunk[ch] # {}}

\* What the scan may drop is loaded, and nobody watches it.
LEMMA DespawnableUnwatched ==
  ASSUME WatchedAreFresh, NEW ch \in Despawnable
  PROVE  ch \in Chunk /\ column[ch] = "loaded" /\ ch \notin Watched
  BY WorldAssumption DEF Despawnable, Aged, Watched, WatchedAreFresh

LEMMA NextRefinesColumns ==
  TypeOK /\ WatchedAreFresh /\ LoadingHasTask /\ [Next]_vars
    => [Columns!Next]_<<Watched, column>>
<1> SUFFICES ASSUME TypeOK, WatchedAreFresh, LoadingHasTask, [Next]_vars
             PROVE  Columns!Next \/ UNCHANGED <<Watched, column>>
  BY DEF Watched
<1>1. ASSUME NEW despawned \in SUBSET Despawnable, UpdateChunksState(despawned)
      PROVE  Columns!Next
  <2> DEFINE created == {ch \in Chunk : Wanted(ch)}
  <2>1. \A ch \in created : column[ch] = "absent" /\ ch \in Watched
    BY DEF Wanted, Watched
  <2>2. \A ch \in despawned : column[ch] = "loaded" /\ ch \notin Watched
    BY DespawnableUnwatched
  <2>3. column' = [ch \in Chunk |-> IF ch \in created THEN "loading"
                                   ELSE IF ch \in despawned THEN "absent"
                                   ELSE column[ch]]
    BY <1>1, <2>1, <2>2 DEF UpdateChunksState
  <2>4. UNCHANGED Watched
    BY <1>1 DEF UpdateChunksState, Watched
  <2>5. created \in SUBSET Chunk /\ despawned \in SUBSET Chunk
    BY DEF Despawnable
  <2> QED
    BY <2>1, <2>2, <2>3, <2>4, <2>5 DEF Columns!Next, Columns!Update, Watched
<1>2. ASSUME NEW ch \in Chunk, LoadChunk(ch) PROVE Columns!Next
  <2>1. column[ch] = "loading"
    BY <1>2 DEF LoadChunk, LoadingHasTask
  <2> QED
    BY <1>2, <2>1 DEF LoadChunk, Columns!Next, Columns!Finish, Watched
<1>3. ASSUME UNCHANGED column PROVE Columns!Next
  BY <1>3 DEF Columns!Next, Columns!ChangeWatched, Watched
<1> QED
  BY <1>1, <1>2, <1>3
  DEF Next, PlayerStep, TaskStep, SpawnPlayer, MovePlayer, LoseConnection, OnDisconnect,
      OnPlayerSpawn, OnChunkLoaded, DrainLoadedChunks, LoadFails, SaveChunk, SaveFails,
      SkipTask, EditBlock, GetOrCreateInventory, Stop, UpdateRuntime

-----------------------------------------------------------------------------
(* The loading tasks and the channel of loaded chunks.                     *)

\* While update_world_chunks runs, what it has not read was loaded meanwhile
\* and is still there: so no column that it creates has an entry already.
NewEntriesLoaded == updating => \A ch \in loaded_chunks : column[ch] = "loaded"

LoadingInv ==
  /\ LoadingHasTask
  /\ LoadedEntriesHaveData
  /\ NewEntriesLoaded

LEMMA UpdateLoading ==
  ASSUME TypeOK, LoadingInv, NEW despawned \in SUBSET Despawnable, UpdateChunksState(despawned)
  PROVE  LoadingInv'
<1> USE DEF LoadingInv, LoadingHasTask, LoadedEntriesHaveData, NewEntriesLoaded
<1>1. \A ch \in despawned : ch \in Chunk /\ column[ch] = "loaded"
  BY DEF Despawnable
<1>2. /\ updating /\ ~updating'
      /\ loaded_chunks' = loaded_chunks
      /\ server' = server
      /\ loads' = loads \cup {ch \in Chunk : Wanted(ch)}
      /\ \A ch \in Chunk : column'[ch] = IF ch \in despawned THEN "absent"
                                        ELSE IF Wanted(ch) THEN "loading"
                                        ELSE column[ch]
  BY DEF UpdateChunksState
<1>3. \A ch \in Chunk : Wanted(ch) => column[ch] = "absent"
  BY DEF Wanted
<1>4. loads \subseteq Chunk /\ loaded_chunks \subseteq Chunk
  BY DEF TypeOK
<1>5. LoadingHasTask'
  BY <1>1, <1>2, <1>3, <1>4
<1>6. LoadedEntriesHaveData' /\ NewEntriesLoaded'
  BY <1>1, <1>2, <1>3, <1>4
<1> QED
  BY <1>5, <1>6

LEMMA NextLoading == TypeOK /\ LoadingInv /\ [Next]_vars => LoadingInv'
<1> SUFFICES ASSUME TypeOK, LoadingInv, [Next]_vars PROVE LoadingInv'
  OBVIOUS
<1> USE DEF LoadingInv, LoadingHasTask, LoadedEntriesHaveData, NewEntriesLoaded
<1>1. CASE OnChunkLoaded
  BY <1>1 DEF OnChunkLoaded
<1>2. CASE DrainLoadedChunks
  BY <1>2 DEF DrainLoadedChunks
<1>3. ASSUME NEW despawned \in SUBSET Despawnable, UpdateChunksState(despawned)
      PROVE  LoadingInv'
  BY <1>3, UpdateLoading
<1>4. ASSUME NEW ch \in Chunk, LoadChunk(ch) PROVE LoadingInv'
  <2>1. column[ch] = "loading"
    BY <1>4 DEF LoadChunk
  <2>2. /\ column' = [column EXCEPT ![ch] = "loaded"]
        /\ loads' = loads \ {ch}
        /\ loaded_chunks' = loaded_chunks \cup {ch}
        /\ UNCHANGED <<updating, server>>
    BY <1>4 DEF LoadChunk
  <2>3. column \in [Chunk -> {"absent", "loading", "loaded"}] /\ loads \subseteq Chunk
    BY DEF TypeOK
  <2> QED
    BY <2>1, <2>2, <2>3
<1>5. ASSUME NEW ch \in Chunk, LoadFails(ch) PROVE LoadingInv'
  BY <1>5 DEF LoadFails
<1>6. ASSUME NEW ch \in Chunk, SkipTask(ch) PROVE LoadingInv'
  BY <1>6 DEF SkipTask
<1>7. ASSUME UNCHANGED <<column, loads, loaded_chunks, updating>>,
             server' = "active" => server = "active"
      PROVE  LoadingInv'
  BY <1>7
<1>8. CASE Stop
  BY <1>7, <1>8 DEF Stop
<1>9. CASE UpdateRuntime
  BY <1>7, <1>9 DEF UpdateRuntime
<1>10. CASE OnPlayerSpawn
  BY <1>7, <1>10 DEF OnPlayerSpawn
<1>11. ASSUME NEW ch \in Chunk, EditBlock(ch) \/ GetOrCreateInventory(ch) PROVE LoadingInv'
  BY <1>7, <1>11, PluginStep DEF EditBlock, GetOrCreateInventory
<1>12. ASSUME NEW ch \in Chunk, NEW i, SaveChunk(ch, i) \/ SaveFails(ch, i) PROVE LoadingInv'
  BY <1>7, <1>12 DEF SaveChunk, SaveFails
<1>13. ASSUME NEW p \in Player, PlayerStep(p) PROVE LoadingInv'
  BY <1>7, <1>13 DEF PlayerStep, SpawnPlayer, MovePlayer, LoseConnection, OnDisconnect
<1>14. CASE UNCHANGED vars
  BY <1>7, <1>14
<1> QED
  BY <1>1, <1>2, <1>3, <1>4, <1>5, <1>6, <1>8, <1>9, <1>10, <1>11, <1>12, <1>13, <1>14
  DEF Next, TaskStep

LEMMA LoadingHolds == Spec => []LoadingInv
<1>1. Init => LoadingInv
  BY DEF Init, LoadingInv, LoadingHasTask, LoadedEntriesHaveData, NewEntriesLoaded
<1> QED
  BY <1>1, NextLoading, TypeCorrect, PTL DEF Spec

\* While the server is active every loading column has a task that will end
\* its loading, and only loading columns have one.
THEOREM LoadingHasTaskHolds == Spec => []LoadingHasTask
  BY LoadingHolds, PTL DEF LoadingInv

\* An entry of loaded_chunks never names a column without data, so that
\* update_world_chunks finds the storage it expects.
THEOREM LoadedEntriesHaveDataHolds == Spec => []LoadedEntriesHaveData
  BY LoadingHolds, PTL DEF LoadingInv

\* Columns are created only for watched chunks, end their loading once, and are
\* dropped only when nobody watches them.
THEOREM WorldImplementsColumns == Spec => ImplementsColumns
<1>1. Init => Columns!Init
  BY DEF Init, TicketsInit, Columns!Init
<1>2. TypeOK /\ WatchedAreFresh /\ LoadingHasTask /\ [Next]_vars
        => [Columns!Next]_<<{ch \in Chunk : by_chunk[ch] # {}}, column>>
  BY NextRefinesColumns DEF Watched
<1> QED
  BY <1>1, <1>2, TypeCorrect, FreshHolds, LoadingHasTaskHolds, PTL
  DEF Spec, ImplementsColumns, Columns!Spec

-----------------------------------------------------------------------------
(* The way of a watched column to its data.                                *)

\* How far a column is from being loaded.
Behind(state) ==
  CASE state = "loaded" -> 0
    [] state = "loading" -> 1
    [] OTHER -> 2

\* What can be done next for a watched chunk while the server is active:
\* nothing, if its column is loaded; its load task may run; or the next
\* update_chunks_state, which may run or else begin now, creates it.
WatchedMayGoOn(ch) ==
  \/ column[ch] = "loaded"
  \/ Running /\ ch \in loads
  \/ Wanted(ch) /\ Running /\ (updating \/ server = "active")

\* A chunk that somebody watches is never stuck while the server is active: its
\* column is loaded, or has a task that may run (load_chunk), or is one that
\* the next update of ChunkMap creates.
THEOREM WatchedGoesOn ==
  Spec => [](server = "active" => \A ch \in Watched : WatchedMayGoOn(ch))
<1>1. TypeOK /\ LoadingHasTask => (server = "active" => \A ch \in Watched : WatchedMayGoOn(ch))
  BY DEF TypeOK, LoadingHasTask, Watched, WatchedMayGoOn, Wanted, Running
<1> QED
  BY <1>1, TypeCorrect, LoadingHasTaskHolds, PTL

\* A step never takes a watched column further from its data.  An update leaves
\* none of them absent, and an end of the task of a column leaves it loaded, if
\* the server lives.
WatchedForward ==
  \A ch \in Watched :
    /\ Behind(column'[ch]) <= Behind(column[ch])
    /\ updating /\ ~updating' => column'[ch] # "absent"
    /\ server' = "active" /\ ch \in loads /\ ch \notin loads' => column'[ch] = "loaded"

\* Together with WatchedGoesOn: what a watched chunk waits for are one update
\* and one task, neither of which is ever undone, so that each of them has to be
\* run once only.
THEOREM WatchedForwardHolds == Spec => [][WatchedForward]_vars
<1>1. TypeOK /\ WatchedAreFresh /\ LoadingHasTask /\ [Next]_vars => [WatchedForward]_vars
  <2> SUFFICES ASSUME TypeOK, WatchedAreFresh, LoadingHasTask, [Next]_vars,
                      NEW ch \in Watched
               PROVE  /\ Behind(column'[ch]) <= Behind(column[ch])
                      /\ updating /\ ~updating' => column'[ch] # "absent"
                      /\ server' = "active" /\ ch \in loads /\ ch \notin loads'
                           => column'[ch] = "loaded"
    BY DEF WatchedForward
  <2>0. ch \in Chunk /\ column[ch] \in {"absent", "loading", "loaded"} /\ by_chunk[ch] # {}
    BY DEF TypeOK, Watched
  <2>1. ASSUME NEW despawned \in SUBSET Despawnable, UpdateChunksState(despawned)
        PROVE  /\ column'[ch] = IF column[ch] = "absent" THEN "loading" ELSE column[ch]
               /\ ch \in loads => ch \in loads'
    <3>1. ch \notin despawned
      BY DespawnableUnwatched
    <3> QED
      BY <2>0, <2>1, <3>1 DEF UpdateChunksState, Wanted
  <2>2. ASSUME NEW task \in Chunk, LoadChunk(task)
        PROVE  /\ column'[ch] = IF ch = task THEN "loaded" ELSE column[ch]
               /\ loads' = loads \ {task} /\ updating' = updating
    BY <2>0, <2>2 DEF LoadChunk, TypeOK
  <2>3. ASSUME NEW task \in Chunk, LoadFails(task) \/ SkipTask(task)
        PROVE  UNCHANGED <<column, updating>> /\ server' # "active"
    BY <2>3 DEF LoadFails, SkipTask
  <2>4. ASSUME ~ \E despawned \in SUBSET Despawnable : UpdateChunksState(despawned),
               ~ \E task \in Chunk : LoadChunk(task) \/ LoadFails(task) \/ SkipTask(task)
        PROVE  UNCHANGED <<column, loads>> /\ (updating => updating')
    BY <2>4
    DEF Next, PlayerStep, TaskStep, SpawnPlayer, MovePlayer, LoseConnection, OnDisconnect,
        OnPlayerSpawn, OnChunkLoaded, DrainLoadedChunks, SaveChunk, SaveFails, EditBlock,
        GetOrCreateInventory, Stop, UpdateRuntime
  <2> QED
    BY <2>0, <2>1, <2>2, <2>3, <2>4 DEF Behind
<1> QED
  BY <1>1, TypeCorrect, FreshHolds, LoadingHasTaskHolds, PTL DEF Spec

-----------------------------------------------------------------------------
(* The data of the chunks.                                                 *)

\* A chunk in memory has its last edit and no save task waits for it; any other
\* chunk has one save task with its last edit, or none and a storage that has it.
DataAt(ch) ==
  \/ column[ch] = "loaded" /\ chunk_storage[ch] = edits[ch] /\ saves[ch] = <<>>
  \/ column[ch] # "loaded" /\ storage[ch] = edits[ch] /\ saves[ch] = <<>>
  \/ column[ch] # "loaded" /\ saves[ch] = <<edits[ch]>>

DataInv ==
  /\ \A ch \in Chunk \ lapsed : DataAt(ch)
  /\ ExitSavesColumns

\* A step that keeps the invariant chunk by chunk and does not end the server.
LEMMA ChunkwiseData ==
  ASSUME DataInv, server' # "exited",
         \A ch \in Chunk : ch \notin lapsed' => ch \notin lapsed /\ (DataAt(ch) => DataAt(ch)')
  PROVE  DataInv'
  BY DEF DataInv, ExitSavesColumns

LEMMA UpdateData ==
  ASSUME TypeOK, DataInv, NEW despawned \in SUBSET Despawnable, UpdateChunksState(despawned)
  PROVE  DataInv'
<1>1. server' # "exited" /\ lapsed' = lapsed
  BY DEF UpdateChunksState, Running
<1>2. ASSUME NEW ch \in Chunk, ch \notin lapsed', DataAt(ch) PROVE DataAt(ch)'
  <2>1. edits'[ch] = edits[ch] /\ storage'[ch] = storage[ch]
    BY DEF UpdateChunksState
  <2>2. CASE ch \in despawned
    <3>1. column[ch] = "loaded"
      BY <2>2 DEF Despawnable
    <3>2. column'[ch] = "absent" /\ saves'[ch] = Append(saves[ch], chunk_storage[ch])
      BY <2>2 DEF UpdateChunksState, SpawnSaves
    <3>3. saves'[ch] = Append(<<>>, edits[ch])
      BY <1>2, <3>1, <3>2 DEF DataAt
    <3>4. Append(<<>>, edits[ch]) = <<edits[ch]>>
      BY DEF TypeOK
    <3> QED
      BY <2>1, <3>2, <3>3, <3>4 DEF DataAt
  <2>3. CASE ch \notin despawned
    <3>1. /\ saves'[ch] = saves[ch]
          /\ chunk_storage'[ch] = chunk_storage[ch]
          /\ column'[ch] = IF column[ch] = "absent" /\ by_chunk[ch] # {} THEN "loading"
                           ELSE column[ch]
      BY <2>3 DEF UpdateChunksState, SpawnSaves, Wanted
    <3>2. column'[ch] = "loaded" <=> column[ch] = "loaded"
      BY <3>1
    <3> QED
      BY <1>2, <2>1, <3>1, <3>2 DEF DataAt
  <2> QED
    BY <2>2, <2>3
<1> QED
  BY <1>1, <1>2, ChunkwiseData

LEMMA TaskData ==
  ASSUME TypeOK, LoadingHasTask, DataInv, NEW task \in Chunk, TaskStep(task)
  PROVE  DataInv'
<1>1. CASE LoadChunk(task)
  <2>1. server' # "exited"
    BY <1>1 DEF LoadChunk, Running
  <2>2. ASSUME NEW ch \in Chunk, ch \notin lapsed'
        PROVE  ch \notin lapsed /\ (DataAt(ch) => DataAt(ch)')
    <3>1. ch \notin lapsed
      BY <1>1, <2>2 DEF LoadChunk
    <3>2. CASE ch = task
      <4>1. saves[ch] = <<>> /\ column[ch] = "loading"
        BY <1>1, <2>2, <3>2 DEF LoadChunk, LoadingHasTask
      <4>2. /\ column'[ch] = "loaded" /\ chunk_storage'[ch] = storage[ch]
            /\ saves'[ch] = saves[ch] /\ edits'[ch] = edits[ch]
        BY <1>1, <3>2 DEF LoadChunk, Stored, TypeOK
      <4>3. <<>> # <<edits[ch]>>
        OBVIOUS
      <4> QED
        BY <3>1, <4>1, <4>2, <4>3 DEF DataAt
    <3>3. CASE ch # task
      BY <1>1, <3>1, <3>3 DEF LoadChunk, DataAt, TypeOK
    <3> QED
      BY <3>2, <3>3
  <2> QED
    BY <2>1, <2>2, ChunkwiseData
<1>2. CASE LoadFails(task)
  <2>1. /\ server' # "exited" /\ lapsed' = lapsed
        /\ \A ch \in Chunk : DataAt(ch) => DataAt(ch)'
    BY <1>2 DEF LoadFails, DataAt
  <2> QED
    BY <2>1, ChunkwiseData
<1>3. ASSUME NEW i, SaveChunk(task, i) PROVE DataInv'
  <2>1. server' # "exited" /\ lapsed' = lapsed
    BY <1>3 DEF SaveChunk, Running
  <2>2. ASSUME NEW ch \in Chunk, DataAt(ch) PROVE DataAt(ch)'
    <3>1. /\ column'[ch] = column[ch] /\ chunk_storage'[ch] = chunk_storage[ch]
          /\ edits'[ch] = edits[ch]
      BY <1>3 DEF SaveChunk
    <3>2. CASE ch = task
      <4>1. i \in DOMAIN saves[ch] /\ saves[ch] \in Seq(Nat) /\ edits[ch] \in Nat
        BY <1>3, <3>2 DEF SaveChunk, TypeOK
      <4>2. saves[ch] # <<>>
        BY <4>1
      <4>3. column[ch] # "loaded" /\ saves[ch] = <<edits[ch]>>
        BY <2>2, <4>2 DEF DataAt
      <4>4. saves'[ch] = RemoveAt(saves[ch], i) /\ storage'[ch] = saves[ch][i]
        BY <1>3, <3>2 DEF SaveChunk, TypeOK
      <4>5. RemoveAt(<<edits[ch]>>, i) = <<>>
        BY <4>1, <4>3, RemoveOnly
      <4>6. saves[ch][i] = edits[ch]
        BY <4>1, <4>3
      <4> QED
        BY <3>1, <4>3, <4>4, <4>5, <4>6 DEF DataAt
    <3>3. CASE ch # task
      <4>1. saves'[ch] = saves[ch] /\ storage'[ch] = storage[ch]
        BY <1>3, <3>3 DEF SaveChunk, TypeOK
      <4> QED
        BY <2>2, <3>1, <4>1 DEF DataAt
    <3> QED
      BY <3>2, <3>3
  <2> QED
    BY <2>1, <2>2, ChunkwiseData
<1>4. ASSUME server' # "exited", lapsed' = lapsed \cup {task},
             UNCHANGED <<column, chunk_storage, edits, storage>>,
             \A ch \in Chunk \ {task} : saves'[ch] = saves[ch]
      PROVE  DataInv'
  <2>1. \A ch \in Chunk : ch \notin lapsed' => ch \notin lapsed /\ (DataAt(ch) => DataAt(ch)')
    BY <1>4 DEF DataAt
  <2> QED
    BY <1>4, <2>1, ChunkwiseData
<1>5. ASSUME NEW i, SaveFails(task, i) PROVE DataInv'
  BY <1>4, <1>5 DEF SaveFails, TypeOK
<1>6. CASE SkipTask(task)
  <2>1. CASE UNCHANGED <<saves, lapsed>>
    <3>1. \A ch \in Chunk : DataAt(ch) => DataAt(ch)'
      BY <1>6, <2>1 DEF SkipTask, DataAt
    <3> QED
      BY <1>6, <2>1, <3>1, ChunkwiseData DEF SkipTask
  <2>2. ASSUME NEW i \in DOMAIN saves[task], saves' = [saves EXCEPT ![task] = RemoveAt(@, i)],
               lapsed' = lapsed \cup {task}
        PROVE  DataInv'
    BY <1>4, <1>6, <2>2 DEF SkipTask, TypeOK
  <2> QED
    BY <1>6, <2>1, <2>2 DEF SkipTask
<1> QED
  BY <1>1, <1>2, <1>3, <1>5, <1>6 DEF TaskStep

LEMMA PluginData ==
  ASSUME TypeOK, DataInv, NEW ch \in Chunk, EditBlock(ch) \/ GetOrCreateInventory(ch)
  PROVE  DataInv'
<1>1. server' # "exited" /\ lapsed' = lapsed
  BY PluginStep DEF EditBlock, GetOrCreateInventory, WorldFree, Running
<1>2. UNCHANGED <<column, saves, storage>>
  BY DEF EditBlock, GetOrCreateInventory
<1>3. CASE /\ column[ch] = "loaded"
           /\ edits' = [edits EXCEPT ![ch] = edits[ch] + 1]
           /\ chunk_storage' = [chunk_storage EXCEPT ![ch] = edits[ch] + 1]
  <2>1. \A c \in Chunk : DataAt(c) => DataAt(c)'
    BY <1>2, <1>3 DEF DataAt, TypeOK
  <2> QED
    BY <1>1, <2>1, ChunkwiseData
<1>4. CASE edits' = edits /\ chunk_storage' = chunk_storage
  <2>1. \A c \in Chunk : DataAt(c) => DataAt(c)'
    BY <1>2, <1>4 DEF DataAt
  <2> QED
    BY <1>1, <2>1, ChunkwiseData
<1> QED
  BY <1>3, <1>4, PluginStep

\* A save at the end of the server, of all the columns or of some.
LEMMA ExitData ==
  ASSUME TypeOK, DataInv, UpdateRuntime
  PROVE  DataInv'
<1>1. UNCHANGED <<column, chunk_storage, saves, edits, lapsed>>
  BY DEF UpdateRuntime
<1>2. ASSUME NEW saved \in SUBSET Chunk, SaveColumns(saved)
      PROVE  \A ch \in Chunk : DataAt(ch) => DataAt(ch)'
  <2>1. \A ch \in Chunk : column[ch] # "loaded" => storage'[ch] = storage[ch]
    BY <1>2 DEF SaveColumns, Saved
  <2> QED
    BY <1>1, <2>1 DEF DataAt
<1>3. CASE server' = "exited" /\ SaveColumns(Chunk)
  <2>1. \A ch \in Chunk : column[ch] = "loaded" => storage'[ch] = chunk_storage[ch]
    BY <1>3 DEF SaveColumns, Saved
  <2>2. ExitSavesColumns'
    BY <1>1, <2>1 DEF ExitSavesColumns, DataInv, DataAt
  <2> QED
    BY <1>1, <1>2, <1>3, <2>2 DEF DataInv
<1>4. ASSUME NEW saved \in SUBSET Chunk, SaveColumns(saved), server' # "exited"
      PROVE  DataInv'
  BY <1>1, <1>2, <1>4, ChunkwiseData
<1> QED
  BY <1>3, <1>4 DEF UpdateRuntime

LEMMA NextData == TypeOK /\ LoadingHasTask /\ DataInv /\ [Next]_vars => DataInv'
<1> SUFFICES ASSUME TypeOK, LoadingHasTask, DataInv, [Next]_vars PROVE DataInv'
  OBVIOUS
<1>1. ASSUME server' # "exited", UNCHANGED <<column, chunk_storage, saves, storage, edits, lapsed>>
      PROVE  DataInv'
  <2>1. \A ch \in Chunk : DataAt(ch) => DataAt(ch)'
    BY <1>1 DEF DataAt
  <2> QED
    BY <1>1, <2>1, ChunkwiseData
<1>2. ASSUME NEW p \in Player, PlayerStep(p) PROVE DataInv'
  BY <1>1, <1>2 DEF PlayerStep, SpawnPlayer, MovePlayer, LoseConnection, OnDisconnect, WorldFree,
                    Running
<1>3. CASE OnPlayerSpawn
  BY <1>1, <1>3 DEF OnPlayerSpawn, WorldFree, Running
<1>4. CASE OnChunkLoaded
  BY <1>1, <1>4 DEF OnChunkLoaded
<1>5. CASE DrainLoadedChunks
  BY <1>1, <1>5 DEF DrainLoadedChunks
<1>6. CASE Stop
  BY <1>1, <1>6 DEF Stop
<1>7. CASE UNCHANGED vars
  BY <1>7 DEF DataInv, DataAt, ExitSavesColumns
<1> QED
  BY <1>2, <1>3, <1>4, <1>5, <1>6, <1>7, UpdateData, TaskData, PluginData, ExitData
  DEF Next

LEMMA DataHolds == Spec => []DataInv
<1>1. Init => DataInv
  BY DEF Init, DataInv, DataAt, ExitSavesColumns
<1> QED
  BY <1>1, NextData, TypeCorrect, LoadingHasTaskHolds, PTL DEF Spec

\* The last edit of a chunk is in its column, in the save task that waits for
\* it, or in the storage, but for chunks whose save task was overtaken or lost.
THEOREM EditsKeptHolds == Spec => []EditsKept
<1>1. TypeOK /\ DataInv => EditsKept
  <2> SUFFICES ASSUME TypeOK, DataInv, NEW ch \in Chunk \ lapsed PROVE Current(ch) = edits[ch]
    BY DEF EditsKept
  <2>1. DataAt(ch) /\ edits[ch] \in Nat
    BY DEF DataInv, TypeOK
  <2>2. <<edits[ch]>> # <<>> /\ Last(<<edits[ch]>>) = edits[ch]
    BY <2>1 DEF Last
  <2> QED
    BY <2>1, <2>2 DEF DataAt, Current
<1> QED
  BY <1>1, TypeCorrect, DataHolds, PTL

\* An orderly end leaves the last edit of every chunk in memory in the storage,
\* with the same exception.
THEOREM ExitSavesColumnsHolds == Spec => []ExitSavesColumns
  BY DataHolds, PTL DEF DataInv
=============================================================================
