----------------------- MODULE EntityStreamingProofs -----------------------
(***************************************************************************)
(* Theorems about EntityStreaming, for any number of players, chunks and   *)
(* skins and any geometry.                                                 *)
(***************************************************************************)
EXTENDS EntityStreaming, TicketLemmas

USE DEF tickets, entities, columns, events, streams, vars

-----------------------------------------------------------------------------
(* The type invariant.                                                     *)

\* What is streamed keeps the type of view.
LEMMA StreamTyped ==
  ASSUME view \in [Player -> [Player -> Skin \cup {Unknown}]], skin \in [Player -> Skin],
         NEW started, NEW stopped, Stream(started, stopped)
  PROVE  view' \in [Player -> [Player -> Skin \cup {Unknown}]]
  BY DEF Stream

LEMMA PairsOf ==
  ASSUME TypeOK, NEW q \in Player
  PROVE  /\ \A ch \in Chunk : WatchersOf(q, ch) \subseteq Pairs
         /\ \A chunks \in SUBSET Chunk : EntitiesIn(q, chunks) \subseteq Pairs
<1>1. ASSUME NEW ch \in Chunk PROVE WatchersOf(q, ch) \subseteq Pairs
  <2>1. by_chunk[ch] \subseteq Player
    BY DEF TypeOK, TicketsTypeOK
  <2>2. ASSUME NEW p \in by_chunk[ch] \ {q} PROVE <<p, q>> \in Pairs
    BY <2>1, <2>2 DEF Pairs
  <2> QED
    BY <2>2, Zenon DEF WatchersOf
<1>2. ASSUME NEW chunks \in SUBSET Chunk PROVE EntitiesIn(q, chunks) \subseteq Pairs
  <2>1. \A ch \in chunks : chunks_entities[ch] \subseteq Player
    BY DEF TypeOK
  <2>2. UNION {chunks_entities[ch] : ch \in chunks} \subseteq Player
    BY <2>1
  <2>3. ASSUME NEW b \in (UNION {chunks_entities[ch] : ch \in chunks}) \ {q}
        PROVE  <<q, b>> \in Pairs
    BY <2>2, <2>3 DEF Pairs
  <2>4. ASSUME NEW pair \in EntitiesIn(q, chunks) PROVE pair \in Pairs
    <3>1. PICK b \in (UNION {chunks_entities[ch] : ch \in chunks}) \ {q} : pair = <<q, b>>
      BY <2>4 DEF EntitiesIn
    <3> QED
      BY <3>1, <2>3
  <2> QED
    BY <2>4
<1> QED
  BY <1>1, <1>2

LEMMA InitTypeOK == Init => TypeOK
<1> SUFFICES ASSUME Init PROVE TypeOK
  OBVIOUS
<1>1. TicketsTypeOK /\ position \in [Player -> Chunk] /\ skin \in [Player -> Skin]
  BY StreamingAssumption DEF Init, TicketsInit, TicketsTypeOK
<1>2. passed_over \in SUBSET Pairs /\ view \in [Player -> [Player -> Skin \cup {Unknown}]]
  BY DEF Init
<1> QED
  BY <1>1, <1>2 DEF Init, TypeOK

LEMMA PlayerStepTypeOK ==
  ASSUME TypeOK, NEW p \in Player, PlayerStep(p)
  PROVE  TypeOK'
<1> USE StreamingAssumption
<1>1. ASSUME NEW s \in Skin, SpawnPlayer(p, s) PROVE TypeOK'
  <2>1. TicketsTypeOK'
    BY <1>1, OperationsTyped DEF SpawnPlayer, TypeOK
  <2> QED
    BY <1>1, <2>1 DEF SpawnPlayer, TypeOK
<1>2. ASSUME NEW s \in Skin, UpdatePlayerComponent(p, s) PROVE TypeOK'
  BY <1>2 DEF UpdatePlayerComponent, TypeOK, TicketsTypeOK
<1>3. ASSUME NEW to \in Chunk, MovePlayer(p, to) PROVE TypeOK'
  <2>1. TicketsTypeOK'
    BY <1>3, OperationsTyped DEF MovePlayer, TypeOK
  <2>2. view' \in [Player -> [Player -> Skin \cup {Unknown}]]
    BY <1>3, StreamTyped DEF MovePlayer, TypeOK
  <2> QED
    BY <1>3, <2>1, <2>2 DEF MovePlayer, TypeOK
<1>4. CASE LoseConnection(p)
  BY <1>4 DEF LoseConnection, TypeOK, TicketsTypeOK
<1>5. CASE OnDisconnect(p)
  <2>1. TicketsTypeOK'
    BY <1>5, OperationsTyped DEF OnDisconnect, TypeOK
  <2>2. view' \in [Player -> [Player -> Skin \cup {Unknown}]]
    BY <1>5, StreamTyped DEF OnDisconnect, TypeOK
  <2> QED
    BY <1>5, <2>1, <2>2 DEF OnDisconnect, RemoveEntity, TypeOK
<1>6. CASE LateEvent(p)
  BY <1>6 DEF LateEvent, TypeOK, TicketsTypeOK
<1> QED
  BY <1>1, <1>2, <1>3, <1>4, <1>5, <1>6 DEF PlayerStep, OnPlayerMove, Teleport

LEMMA OnPlayerSpawnTypeOK ==
  ASSUME TypeOK, OnPlayerSpawn
  PROVE  TypeOK'
<1>1. view' \in [Player -> [Player -> Skin \cup {Unknown}]]
  BY StreamTyped DEF OnPlayerSpawn, TypeOK
<1>2. NotShown \subseteq Pairs
  <2>1. ASSUME NEW p \in spawn_events
        PROVE  EntitiesIn(p, {ch \in by_entity[p] : column[ch] # "loaded"}) \subseteq Pairs
    <3>1. p \in Player /\ by_entity[p] \subseteq Chunk
      BY DEF TypeOK, TicketsTypeOK
    <3> QED
      BY <3>1, PairsOf
  <2> QED
    BY <2>1 DEF NotShown
<1>3. passed_over' \in SUBSET Pairs
  BY <1>2 DEF OnPlayerSpawn, TypeOK
<1> QED
  BY <1>1, <1>3 DEF OnPlayerSpawn, TypeOK, TicketsTypeOK

LEMMA NextTypeOK == TypeOK /\ [Next]_vars => TypeOK'
<1> SUFFICES ASSUME TypeOK, [Next]_vars PROVE TypeOK'
  OBVIOUS
<1>1. CASE EndTick
  BY <1>1 DEF EndTick, TypeOK, TicketsTypeOK
<1>2. CASE UpdateWorldChunks
  BY <1>2 DEF UpdateWorldChunks, TypeOK, TicketsTypeOK
<1>3. ASSUME NEW ch \in Chunk, LoadChunk(ch) PROVE TypeOK'
  BY <1>3 DEF LoadChunk, TypeOK, TicketsTypeOK
<1>4. CASE OnChunkLoaded
  BY <1>4 DEF OnChunkLoaded, TypeOK, TicketsTypeOK
<1>5. CASE UNCHANGED vars
  BY <1>5 DEF TypeOK, TicketsTypeOK
<1> QED
  BY <1>1, <1>2, <1>3, <1>4, <1>5, PlayerStepTypeOK, OnPlayerSpawnTypeOK DEF Next

\* Every variable always has its type.
THEOREM TypeCorrect == Spec => []TypeOK
  BY InitTypeOK, NextTypeOK, PTL DEF Spec

-----------------------------------------------------------------------------
(* Tickets, positions and the index agree.                                 *)

\* A player in the world watches the chunks around its position.
Watching ==
  /\ TicketsMirror
  /\ \A p \in Player : by_entity[p] = IF p \in in_world THEN View(position[p]) ELSE {}

\* Players are announced while they have an entity.
AnnouncedInWorld == spawn_events \subseteq in_world /\ announced \subseteq in_world

Placed == Watching /\ IndexMatchesPositions /\ AnnouncedInWorld

LEMMA InitPlaced == Init => Placed
  BY DEF Init, Placed, Watching, IndexMatchesPositions, AnnouncedInWorld, TicketsInit,
         TicketsMirror

LEMMA PlayerStepWatching ==
  ASSUME TypeOK, Watching, NEW p \in Player, PlayerStep(p)
  PROVE  Watching'
<1> USE StreamingAssumption
<1>0. TicketsTypeOK /\ TicketsMirror
  BY DEF TypeOK, Watching
<1>1. ASSUME NEW s \in Skin, SpawnPlayer(p, s) PROVE Watching'
  <2>1. ChangeTickets(p, View(SpawnChunk), {})
    BY <1>1 DEF SpawnPlayer, StartChunksRender
  <2>2. TicketsMirror' /\ by_entity' = [by_entity EXCEPT ![p] = (@ \cup View(SpawnChunk)) \ {}]
    BY <1>0, <2>1, TicketsChanged, ViewChunks
  <2> QED
    BY <1>1, <2>2 DEF SpawnPlayer, Watching, TypeOK, TicketsTypeOK
<1>2. ASSUME NEW to \in Chunk, MovePlayer(p, to) PROVE Watching'
  <2>1. ChangeTickets(p, NewChunks(p, to), AbandonedChunks(p, to))
    BY <1>2 DEF MovePlayer, UpdateChunksRender
  <2>2. /\ NewChunks(p, to) \cap AbandonedChunks(p, to) = {}
        /\ NewChunks(p, to) \subseteq Chunk /\ AbandonedChunks(p, to) \subseteq Chunk
    BY <1>0, ViewChunks DEF NewChunks, AbandonedChunks, TicketsTypeOK
  <2>3. /\ TicketsMirror'
        /\ by_entity' = [by_entity EXCEPT ![p] =
                           (@ \cup NewChunks(p, to)) \ AbandonedChunks(p, to)]
    BY <1>0, <2>1, <2>2, TicketsChanged
  <2>4. by_entity'[p] = View(to)
    BY <1>0, <2>3 DEF NewChunks, AbandonedChunks, TicketsTypeOK
  <2> QED
    BY <1>2, <2>3, <2>4 DEF MovePlayer, Watching, TypeOK, TicketsTypeOK
<1>3. CASE OnDisconnect(p)
  <2>1. TicketsMirror'
    BY <1>0, <1>3 DEF OnDisconnect, StopChunksRender, TicketsMirror, TicketsTypeOK
  <2> QED
    BY <1>3, <2>1 DEF OnDisconnect, StopChunksRender, Watching, TypeOK, TicketsTypeOK
<1>4. CASE UNCHANGED <<tickets, in_world, position>>
  BY <1>4 DEF Watching, TicketsMirror
<1> QED
  BY <1>1, <1>2, <1>3, <1>4
  DEF PlayerStep, OnPlayerMove, Teleport, UpdatePlayerComponent, LoseConnection, LateEvent

LEMMA PlayerStepIndex ==
  ASSUME TypeOK, IndexMatchesPositions, AnnouncedInWorld, NEW p \in Player, PlayerStep(p)
  PROVE  IndexMatchesPositions' /\ AnnouncedInWorld'
<1> USE StreamingAssumption DEF IndexMatchesPositions, AnnouncedInWorld, TypeOK
<1>1. ASSUME NEW s \in Skin, SpawnPlayer(p, s) PROVE IndexMatchesPositions' /\ AnnouncedInWorld'
  BY <1>1 DEF SpawnPlayer
<1>2. ASSUME NEW to \in Chunk, MovePlayer(p, to)
      PROVE  IndexMatchesPositions' /\ AnnouncedInWorld'
  BY <1>2 DEF MovePlayer
<1>3. CASE OnDisconnect(p)
  BY <1>3 DEF OnDisconnect, RemoveEntity
<1>4. CASE UNCHANGED <<in_world, position, chunks_entities, spawn_events, announced>>
  BY <1>4
<1> QED
  BY <1>1, <1>2, <1>3, <1>4
  DEF PlayerStep, OnPlayerMove, Teleport, UpdatePlayerComponent, LoseConnection, LateEvent

LEMMA NextPlaced == TypeOK /\ Placed /\ [Next]_vars => Placed'
<1> SUFFICES ASSUME TypeOK, Placed, [Next]_vars PROVE Placed'
  OBVIOUS
<1>1. ASSUME NEW p \in Player, PlayerStep(p) PROVE Placed'
  BY <1>1, PlayerStepWatching, PlayerStepIndex DEF Placed
<1>2. CASE OnChunkLoaded
  BY <1>2 DEF OnChunkLoaded, Placed, Watching, TicketsMirror, IndexMatchesPositions,
              AnnouncedInWorld
<1>3. CASE OnPlayerSpawn
  BY <1>3 DEF OnPlayerSpawn, Placed, Watching, TicketsMirror, IndexMatchesPositions,
              AnnouncedInWorld
<1>4. CASE UNCHANGED <<tickets, entities, spawn_events, announced>>
  BY <1>4 DEF Placed, Watching, TicketsMirror, IndexMatchesPositions, AnnouncedInWorld
<1> QED
  BY <1>1, <1>2, <1>3, <1>4 DEF Next, EndTick, UpdateWorldChunks, LoadChunk

-----------------------------------------------------------------------------
(* Streaming, one pair of players at a time.                               *)

Sees(a, b) == view[a][b] # Unknown

Views(a, b) ==
  /\ a # b
  /\ a \in in_world /\ connected[a]
  /\ b \in in_world
  /\ position[b] \in by_entity[a]

\* What holds of client a and entity b.
PairOK(a, b) ==
  /\ Sees(a, b) => Views(a, b)
  /\ view[a][b] \in {Unknown, skin[b]}
  /\ Views(a, b) /\ a \in announced /\ b \in announced
       => Sees(a, b) \/ <<a, b>> \in passed_over

\* What a step does about a pair that stays in view.
PairKept(a, b) == Sees(a, b) /\ Views(a, b)' => Sees(a, b)'

PairsOK == \A a, b \in Player : PairOK(a, b)

IInv == TypeOK /\ Placed /\ PairsOK

LEMMA Streamed ==
  ASSUME NEW started, NEW stopped, Stream(started, stopped), NEW a \in Player, NEW b \in Player
  PROVE  view'[a][b] = IF ~connected[a] THEN view[a][b]
                       ELSE IF <<a, b>> \in started THEN skin[b]
                       ELSE IF <<a, b>> \in stopped THEN Unknown
                       ELSE view[a][b]
  BY DEF Stream

\* Which pairs the sets of recipients name.
LEMMA WatchersPair ==
  ASSUME IInv, NEW q \in Player, NEW ch \in Chunk, NEW a \in Player, NEW b \in Player
  PROVE  <<a, b>> \in WatchersOf(q, ch) <=> b = q /\ a # q /\ ch \in by_entity[a]
<1>1. <<a, b>> \in WatchersOf(q, ch) <=> b = q /\ a # q /\ a \in by_chunk[ch]
  BY DEF WatchersOf
<1> QED
  BY <1>1 DEF IInv, Placed, Watching, TicketsMirror

LEMMA EntitiesPair ==
  ASSUME IInv, NEW q \in Player, NEW chunks \in SUBSET Chunk, NEW a \in Player, NEW b \in Player
  PROVE  <<a, b>> \in EntitiesIn(q, chunks)
           <=> a = q /\ b # q /\ b \in in_world /\ position[b] \in chunks
<1>1. b \in UNION {chunks_entities[ch] : ch \in chunks}
        <=> b \in in_world /\ position[b] \in chunks
  BY DEF IInv, Placed, IndexMatchesPositions
<1>2. <<a, b>> \in EntitiesIn(q, chunks)
        <=> a = q /\ b # q /\ b \in UNION {chunks_entities[ch] : ch \in chunks}
  BY DEF EntitiesIn
<1> QED
  BY <1>1, <1>2

LEMMA SpawnPairs ==
  ASSUME IInv, NEW p \in Player, NEW s \in Skin, SpawnPlayer(p, s),
         NEW a \in Player, NEW b \in Player
  PROVE  PairOK(a, b)' /\ PairKept(a, b)
<1>1. PairOK(a, b) /\ Watching /\ Watching' /\ AnnouncedInWorld
  BY PlayerStepWatching DEF IInv, Placed, PairsOK, PlayerStep
<1>2. a # p => by_entity'[a] = by_entity[a]
  BY DEF SpawnPlayer, StartChunksRender, ChangeTickets, IInv, TypeOK, TicketsTypeOK
<1>3. a = p \/ b = p => ~Sees(a, b)
  BY <1>1 DEF PairOK, Views, SpawnPlayer
<1> QED
  BY <1>1, <1>2, <1>3
  DEF SpawnPlayer, PairOK, PairKept, Sees, Views, AnnouncedInWorld, IInv, TypeOK

LEMMA OnPlayerSpawnPairs ==
  ASSUME IInv, OnPlayerSpawn, NEW a \in Player, NEW b \in Player
  PROVE  PairOK(a, b)' /\ PairKept(a, b)
<1>1. PairOK(a, b) /\ AnnouncedInWorld /\ spawn_events \subseteq Player
  BY DEF IInv, Placed, PairsOK, TypeOK
<1>2. by_entity[a] \subseteq Chunk /\ position[b] \in Chunk
  BY DEF IInv, TypeOK, TicketsTypeOK
<1>3. <<a, b>> \in Shown <=> /\ a \in spawn_events /\ a # b
                             /\ b \in in_world
                             /\ position[b] \in by_entity[a] /\ column[position[b]] = "loaded"
  <2>1. ASSUME NEW p \in spawn_events
        PROVE  <<a, b>> \in EntitiesIn(p, {ch \in by_entity[p] : column[ch] = "loaded"})
                 <=> /\ a = p /\ b # p /\ b \in in_world
                     /\ position[b] \in {ch \in by_entity[p] : column[ch] = "loaded"}
    BY <1>1, EntitiesPair DEF IInv, TypeOK, TicketsTypeOK
  <2> QED
    BY <2>1 DEF Shown
<1>4. <<a, b>> \in NotShown <=> /\ a \in spawn_events /\ a # b
                                /\ b \in in_world
                                /\ position[b] \in by_entity[a] /\ column[position[b]] # "loaded"
  <2>1. ASSUME NEW p \in spawn_events
        PROVE  <<a, b>> \in EntitiesIn(p, {ch \in by_entity[p] : column[ch] # "loaded"})
                 <=> /\ a = p /\ b # p /\ b \in in_world
                     /\ position[b] \in {ch \in by_entity[p] : column[ch] # "loaded"}
    BY <1>1, EntitiesPair DEF IInv, TypeOK, TicketsTypeOK
  <2> QED
    BY <2>1 DEF NotShown
<1>5. <<a, b>> \in Presented <=> b \in spawn_events /\ a # b /\ position[b] \in by_entity[a]
  <2>1. ASSUME NEW p \in spawn_events
        PROVE  <<a, b>> \in WatchersOf(p, position[p])
                 <=> b = p /\ a # p /\ position[p] \in by_entity[a]
    BY <1>1, WatchersPair DEF IInv, TypeOK
  <2> QED
    BY <2>1 DEF Presented
<1>6. by_entity[a] # {} => a \in in_world
  BY DEF IInv, Placed, Watching
<1>7. skin[b] # Unknown
  BY StreamingAssumption DEF IInv, TypeOK
<1>8. view'[a][b] = IF ~connected[a] THEN view[a][b]
                    ELSE IF <<a, b>> \in Shown \cup Presented THEN skin[b]
                    ELSE view[a][b]
  BY Streamed DEF OnPlayerSpawn
<1>9. <<a, b>> \in passed_over' <=>
        <<a, b>> \in passed_over \cup NotShown /\ <<a, b>> \notin Shown \cup Presented
  BY DEF OnPlayerSpawn
<1>10. <<a, b>> \in Shown \cup Presented => a # b /\ a \in in_world /\ b \in in_world
                                            /\ position[b] \in by_entity[a]
  BY <1>1, <1>2, <1>3, <1>5, <1>6 DEF AnnouncedInWorld
<1>11. Views(a, b)' <=> Views(a, b)
  BY DEF OnPlayerSpawn, Views
<1>12. /\ Sees(a, b)' => Views(a, b)'
       /\ view'[a][b] \in {Unknown, skin'[b]}
       /\ PairKept(a, b)
  BY <1>1, <1>7, <1>8, <1>10, <1>11 DEF PairOK, PairKept, Sees, Views, OnPlayerSpawn
<1>13. Views(a, b)' /\ a \in announced' /\ b \in announced'
         => Sees(a, b)' \/ <<a, b>> \in passed_over'
  BY <1>1, <1>3, <1>4, <1>5, <1>7, <1>8, <1>9, <1>11 DEF PairOK, Sees, Views, OnPlayerSpawn
<1> QED
  BY <1>12, <1>13 DEF PairOK

LEMMA MovePairs ==
  ASSUME IInv, NEW p \in Player, NEW to \in Chunk, MovePlayer(p, to),
         NEW a \in Player, NEW b \in Player
  PROVE  PairOK(a, b)' /\ PairKept(a, b)
<1> DEFINE started == Discovered(p, to) \cup GotSight(p, to)
           stopped == LeftBehind(p, to) \cup LostSight(p, to)
<1>1. PairOK(a, b) /\ AnnouncedInWorld
  BY DEF IInv, Placed, PairsOK
<1>2. /\ by_entity[a] \subseteq Chunk /\ position[p] \in Chunk
      /\ View(to) \subseteq Chunk /\ p \in in_world
      /\ NewChunks(p, to) \subseteq Chunk /\ AbandonedChunks(p, to) \subseteq Chunk
      /\ by_entity[p] \subseteq Chunk
  BY ViewChunks DEF IInv, TypeOK, TicketsTypeOK, MovePlayer, NewChunks, AbandonedChunks
<1>3. by_entity' = [by_entity EXCEPT ![p] = View(to)]
  <2>1. by_entity'[p] = View(to)
    BY <1>2 DEF MovePlayer, UpdateChunksRender, ChangeTickets, NewChunks, AbandonedChunks,
                IInv, TypeOK, TicketsTypeOK
  <2> QED
    BY <2>1 DEF MovePlayer, UpdateChunksRender, ChangeTickets, IInv, TypeOK, TicketsTypeOK
<1>4. <<a, b>> \in started
        <=> \/ a = p /\ b # p /\ b \in in_world /\ position[b] \in View(to) \ by_entity[p]
            \/ b = p /\ a # p /\ to \in by_entity[a] /\ position[p] \notin by_entity[a]
  <2>1. <<a, b>> \in Discovered(p, to)
          <=> a = p /\ b # p /\ b \in in_world /\ position[b] \in View(to) \ by_entity[p]
    BY <1>2, EntitiesPair DEF Discovered, NewChunks
  <2>2. <<a, b>> \in GotSight(p, to)
          <=> b = p /\ a # p /\ to \in by_entity[a] /\ position[p] \notin by_entity[a]
    BY <1>2, WatchersPair DEF GotSight
  <2> QED
    BY <2>1, <2>2
<1>5. <<a, b>> \in stopped
        <=> \/ a = p /\ b # p /\ b \in in_world /\ position[b] \in by_entity[p] \ View(to)
            \/ b = p /\ a # p /\ position[p] \in by_entity[a] /\ to \notin by_entity[a]
  <2>1. <<a, b>> \in LeftBehind(p, to)
          <=> a = p /\ b # p /\ b \in in_world /\ position[b] \in by_entity[p] \ View(to)
    BY <1>2, EntitiesPair DEF LeftBehind, AbandonedChunks
  <2>2. <<a, b>> \in LostSight(p, to)
          <=> b = p /\ a # p /\ position[p] \in by_entity[a] /\ to \notin by_entity[a]
    BY <1>2, WatchersPair DEF LostSight
  <2> QED
    BY <2>1, <2>2
<1>6. view'[a][b] = IF ~connected[a] THEN view[a][b]
                    ELSE IF <<a, b>> \in started THEN skin[b]
                    ELSE IF <<a, b>> \in stopped THEN Unknown
                    ELSE view[a][b]
  BY Streamed DEF MovePlayer
<1>7. skin[b] # Unknown
  BY StreamingAssumption DEF IInv, TypeOK
<1>8. by_entity[a] # {} => a \in in_world
  BY DEF IInv, Placed, Watching
<1>9. Views(a, b)' <=> /\ a # b /\ a \in in_world /\ connected[a] /\ b \in in_world
                       /\ (IF b = p THEN to ELSE position[b])
                            \in (IF a = p THEN View(to) ELSE by_entity[a])
  BY <1>3 DEF MovePlayer, Views, IInv, TypeOK, TicketsTypeOK
<1>10. <<a, b>> \in passed_over'
         <=> <<a, b>> \in passed_over /\ <<a, b>> \notin started /\ <<a, b>> \notin stopped
  BY DEF MovePlayer
<1>11. announced' = announced /\ skin' = skin
  BY DEF MovePlayer
<1> HIDE DEF started, stopped
<1>12. /\ Sees(a, b)' => Views(a, b)'
       /\ view'[a][b] \in {Unknown, skin'[b]}
       /\ PairKept(a, b)
  BY <1>1, <1>2, <1>4, <1>5, <1>6, <1>7, <1>8, <1>9, <1>11 DEF PairOK, PairKept, Sees, Views
<1>13. Views(a, b)' /\ a \in announced' /\ b \in announced'
         => Sees(a, b)' \/ <<a, b>> \in passed_over'
  BY <1>1, <1>2, <1>4, <1>5, <1>6, <1>7, <1>8, <1>9, <1>10, <1>11 DEF PairOK, Sees, Views
<1> QED
  BY <1>12, <1>13 DEF PairOK

LEMMA UpdatePairs ==
  ASSUME IInv, NEW p \in Player, NEW s \in Skin, UpdatePlayerComponent(p, s),
         NEW a \in Player, NEW b \in Player
  PROVE  PairOK(a, b)' /\ PairKept(a, b)
<1>1. PairOK(a, b) /\ s # Unknown
  BY StreamingAssumption DEF IInv, PairsOK
<1>2. <<a, p>> \in Informed(p) <=> a # p /\ position[p] \in by_entity[a]
  BY WatchersPair DEF Informed, IInv, TypeOK
<1>3. view'[a][b] = IF b = p /\ <<a, p>> \in Informed(p) /\ connected[a] /\ Sees(a, b)
                    THEN s ELSE view[a][b]
  BY DEF UpdatePlayerComponent, Sees, IInv, TypeOK
<1>4. skin'[b] = IF b = p THEN s ELSE skin[b]
  BY DEF UpdatePlayerComponent, IInv, TypeOK
<1>5. /\ Views(a, b)' <=> Views(a, b)
      /\ announced' = announced /\ passed_over' = passed_over
  BY DEF UpdatePlayerComponent, Views
<1> QED
  BY <1>1, <1>2, <1>3, <1>4, <1>5 DEF PairOK, PairKept, Sees, Views

LEMMA LosePairs ==
  ASSUME IInv, NEW p \in Player, LoseConnection(p), NEW a \in Player, NEW b \in Player
  PROVE  PairOK(a, b)' /\ PairKept(a, b)
<1>1. PairOK(a, b)
  BY DEF IInv, PairsOK
<1>2. /\ view'[a][b] = IF a = p THEN Unknown ELSE view[a][b]
      /\ connected'[a] = IF a = p THEN FALSE ELSE connected[a]
  BY DEF LoseConnection, IInv, TypeOK
<1> QED
  BY <1>1, <1>2 DEF LoseConnection, PairOK, PairKept, Sees, Views

LEMMA DisconnectPairs ==
  ASSUME IInv, NEW p \in Player, OnDisconnect(p), NEW a \in Player, NEW b \in Player
  PROVE  PairOK(a, b)' /\ PairKept(a, b)
<1>1. PairOK(a, b) /\ PairOK(p, b)
  BY DEF IInv, PairsOK
<1>2. <<a, b>> \in Despawned(p) <=> b = p /\ a # p /\ position[p] \in by_entity[a]
  BY WatchersPair DEF Despawned, IInv, TypeOK
<1>3. view'[a][b] = IF connected[a] /\ <<a, b>> \in Despawned(p) THEN Unknown ELSE view[a][b]
  BY Streamed DEF OnDisconnect
<1>4. a # p => by_entity'[a] = by_entity[a]
  BY DEF OnDisconnect, StopChunksRender, IInv, TypeOK, TicketsTypeOK
<1>5. a = p => ~Sees(a, b) /\ ~Sees(a, b)'
  BY <1>1, <1>2, <1>3 DEF OnDisconnect, PairOK, Views, Sees
<1>6. b = p => ~Sees(a, b)'
  BY <1>1, <1>2, <1>3 DEF PairOK, Views, Sees
<1>7. a # p /\ b # p => /\ view'[a][b] = view[a][b]
                        /\ Views(a, b)' <=> Views(a, b)
                        /\ a \in announced' <=> a \in announced
                        /\ b \in announced' <=> b \in announced
                        /\ <<a, b>> \in passed_over' <=> <<a, b>> \in passed_over
  <2>1. ASSUME a # p, b # p PROVE Views(a, b)' <=> Views(a, b)
    BY <2>1, <1>4 DEF OnDisconnect, Views, IInv, TypeOK
  <2> QED
    BY <1>2, <1>3, <2>1 DEF OnDisconnect
<1>8. skin' = skin /\ p \notin in_world' /\ p \notin announced'
  BY DEF OnDisconnect
<1>9. CASE a # p /\ b # p
  BY <1>1, <1>7, <1>8, <1>9 DEF PairOK, PairKept, Sees
<1>10. CASE a = p \/ b = p
  BY <1>1, <1>5, <1>6, <1>8, <1>10 DEF PairOK, PairKept, Sees, Views
<1> QED
  BY <1>9, <1>10

LEMMA InitPairs == Init => PairsOK
  BY DEF Init, PairsOK, PairOK, Sees, Views

LEMMA NextPairs ==
  ASSUME IInv, [Next]_vars, NEW a \in Player, NEW b \in Player
  PROVE  PairOK(a, b)' /\ PairKept(a, b)
<1>1. ASSUME NEW p \in Player, PlayerStep(p) PROVE PairOK(a, b)' /\ PairKept(a, b)
  <2>1. CASE LateEvent(p)
    BY <2>1 DEF LateEvent, IInv, PairsOK, PairOK, PairKept, Sees, Views
  <2> QED
    BY <1>1, <2>1, SpawnPairs, MovePairs, UpdatePairs, LosePairs, DisconnectPairs
    DEF PlayerStep, OnPlayerMove, Teleport
<1>2. CASE UNCHANGED <<tickets, entities, streams>>
  BY <1>2 DEF IInv, PairsOK, PairOK, PairKept, Sees, Views
<1> QED
  BY <1>1, <1>2, OnPlayerSpawnPairs
  DEF Next, EndTick, UpdateWorldChunks, LoadChunk, OnChunkLoaded

LEMMA NextIInv == IInv /\ [Next]_vars => IInv'
  BY NextTypeOK, NextPlaced, NextPairs DEF IInv, PairsOK

THEOREM Invariance == Spec => []IInv
<1>1. Init => IInv
  BY InitTypeOK, InitPlaced, InitPairs DEF IInv
<1> QED
  BY <1>1, NextIInv, PTL DEF Spec

-----------------------------------------------------------------------------
(* The properties.                                                         *)

\* The index of entities by chunk always agrees with the Position components
\* and names only entities that exist.
THEOREM IndexMatchesPositionsHolds == Spec => []IndexMatchesPositions
<1>1. IInv => IndexMatchesPositions
  BY DEF IInv, Placed
<1> QED
  BY <1>1, Invariance, PTL

\* A client that shows an entity shows its present skin.
THEOREM SkinsCurrentHolds == Spec => []SkinsCurrent
<1>1. IInv => SkinsCurrent
  BY DEF IInv, PairsOK, PairOK, SkinsCurrent
<1> QED
  BY <1>1, Invariance, PTL

LEMMA InViewPair ==
  ASSUME NEW a \in Player, NEW b \in Player
  PROVE  /\ <<a, b>> \in InView <=> Views(a, b)
         /\ <<a, b>> \in Seen <=> Sees(a, b)
  BY DEF InView, Pairs, Views, Seen, Sees

\* An announced player is shown every announced player in its view that was
\* not passed over because of a chunk that was not loaded.
THEOREM AnnouncedSeenHolds == Spec => []AnnouncedSeen
<1>1. ASSUME IInv PROVE AnnouncedSeen
  <2> SUFFICES ASSUME NEW pair \in InView, {pair[1], pair[2]} \subseteq announced
               PROVE  pair \in Seen \cup passed_over
    BY DEF AnnouncedSeen
  <2>1. PICK a \in Player, b \in Player : pair = <<a, b>>
    BY DEF InView, Pairs
  <2>2. Views(a, b) /\ a \in announced /\ b \in announced
    BY <2>1, InViewPair
  <2>3. Sees(a, b) \/ <<a, b>> \in passed_over
    BY <1>1, <2>2 DEF IInv, PairsOK, PairOK
  <2> QED
    BY <2>1, <2>3, InViewPair
<1> QED
  BY <1>1, Invariance, PTL

\* Streaming implements EntityPresence: what a client shows is in its view,
\* and it forgets exactly what leaves its view, when it leaves.
THEOREM StreamingImplementsPresence == Spec => ImplementsPresence
<1>1. Init => Presence!Init
  BY DEF Init, Presence!Init, Seen, InView
<1>2. IInv /\ [Next]_vars => [Presence!Next]_Presence!vars
  <2> SUFFICES ASSUME IInv, [Next]_vars PROVE Presence!Next
    OBVIOUS
  <2>1. Seen' \subseteq InView'
    <3> SUFFICES ASSUME NEW a \in Player, NEW b \in Player, Sees(a, b)' PROVE Views(a, b)'
      BY DEF Seen, InView, Pairs, Sees, Views
    <3> QED
      BY NextPairs DEF PairOK
  <2>2. Seen \cap InView' \subseteq Seen'
    <3> SUFFICES ASSUME NEW a \in Player, NEW b \in Player, Sees(a, b), Views(a, b)'
                 PROVE  Sees(a, b)'
      BY DEF Seen, InView, Pairs, Sees, Views
    <3> QED
      BY NextPairs DEF PairKept
  <2> QED
    BY <2>1, <2>2 DEF Presence!Next
<1> QED
  BY <1>1, <1>2, Invariance, PTL DEF Spec, ImplementsPresence, Presence!Spec

\* As far as streaming uses them, columns are created only for watched chunks and
\* dropped only when nobody watches them (ChunkMap::update_chunks_state).
THEOREM StreamingImplementsColumns == Spec => ImplementsColumns
<1>1. Init => Columns!Init
  BY DEF Init, TicketsInit, Columns!Init, Watched
<1>2. [Next]_vars => [Columns!Next]_<<Watched, column>>
  <2> SUFFICES ASSUME [Next]_vars
               PROVE  Columns!Next \/ UNCHANGED <<Watched, column>>
    OBVIOUS
  <2>2. ASSUME UNCHANGED column PROVE Columns!Next
    BY <2>2 DEF Columns!Next, Columns!ChangeWatched, Watched
  <2>3. CASE UpdateWorldChunks
    <3>1. PICK despawned \in SUBSET Despawnable :
            column' = [ch \in Chunk |-> IF ch \in despawned THEN "absent"
                                        ELSE IF Wanted(ch) THEN "loading"
                                        ELSE column[ch]]
      BY <2>3 DEF UpdateWorldChunks
    <3> DEFINE created == {ch \in Chunk : Wanted(ch)}
    <3>2. /\ \A ch \in created : column[ch] = "absent" /\ ch \in Watched
          /\ \A ch \in despawned : column[ch] = "loaded" /\ ch \notin Watched
          /\ created \in SUBSET Chunk /\ despawned \in SUBSET Chunk
      BY DEF Wanted, Despawnable, Watched
    <3>3. column' = [ch \in Chunk |-> IF ch \in created THEN "loading"
                                     ELSE IF ch \in despawned THEN "absent"
                                     ELSE column[ch]]
      BY <3>1, <3>2
    <3>4. UNCHANGED Watched
      BY <2>3 DEF UpdateWorldChunks, Watched, tickets
    <3> QED
      BY <3>2, <3>3, <3>4 DEF Columns!Next, Columns!Update
  <2>4. ASSUME NEW ch \in Chunk, LoadChunk(ch) PROVE Columns!Next
    <3>1. UNCHANGED Watched
      BY <2>4 DEF LoadChunk, Watched, tickets
    <3> QED
      BY <2>4, <3>1 DEF LoadChunk, Columns!Next, Columns!Finish
  <2>5. CASE \/ \E p \in Player : PlayerStep(p)
             \/ OnPlayerSpawn \/ EndTick \/ OnChunkLoaded \/ UNCHANGED vars
    <3>1. UNCHANGED column
      <4>1. ASSUME NEW p \in Player, PlayerStep(p) PROVE UNCHANGED column
        BY <4>1 DEF PlayerStep, SpawnPlayer, UpdatePlayerComponent, OnPlayerMove, Teleport,
           MovePlayer, LoseConnection, OnDisconnect, LateEvent, columns
      <4>2. CASE OnPlayerSpawn \/ EndTick \/ OnChunkLoaded
        BY <4>2 DEF OnPlayerSpawn, EndTick, OnChunkLoaded, columns
      <4>3. CASE UNCHANGED vars
        BY <4>3 DEF columns, vars
      <4> QED
        BY <2>5, <4>1, <4>2, <4>3
    <3> QED
      BY <2>2, <3>1
  <2> QED
    BY <2>3, <2>4, <2>5 DEF Next
<1> QED
  BY <1>1, <1>2, PTL DEF Spec, ImplementsColumns, Columns!Spec
=============================================================================
