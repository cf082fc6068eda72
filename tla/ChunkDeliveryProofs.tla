------------------------ MODULE ChunkDeliveryProofs ------------------------
(***************************************************************************)
(* Theorems about ChunkDelivery, for any number of players and chunks, any *)
(* geometry, any queue limit and either ordering of message types: types,  *)
(* tickets, lists, the abstract specifications, and then the chunks that   *)
(* are under way, what the clients hold, and that delivery may go on.      *)
(***************************************************************************)
EXTENDS ChunkDelivery, TicketLemmas, FiniteSetTheorems

USE DEF delivery, tickets, vars, Known

-----------------------------------------------------------------------------
(* The type invariant.                                                     *)

LEMMA InitTypeOK == Init => TypeOK
<1> SUFFICES ASSUME Init PROVE TypeOK
  OBVIOUS
<1>1. wire \in [Player -> [Chunk -> Seq(Messages)]]
  BY DEF Init
<1> QED
  BY <1>1, DeliveryAssumption DEF Init, TypeOK, TicketsInit, TicketsTypeOK

LEMMA PlayerStepTypeOK ==
  ASSUME TypeOK, NEW p \in Player, PlayerStep(p)
  PROVE  TypeOK'
<1>1. CASE SpawnPlayer(p)
  BY <1>1, TicketsTyped, DeliveryAssumption
  DEF SpawnPlayer, StartChunksRender, View, TypeOK
<1>2. ASSUME NEW to \in Chunk, MovePlayer(p, to) PROVE TypeOK'
  <2>1. TicketsTypeOK'
    BY <1>2, TicketsTyped
    DEF MovePlayer, UpdateChunksRender, NewChunks, View, TypeOK
  <2>2. wire' \in [Player -> [Chunk -> Seq(Messages)]]
    BY <1>2 DEF MovePlayer, SendChunksToUnload, Post, TypeOK, Messages
  <2> QED
    BY <1>2, <2>1, <2>2 DEF MovePlayer, SendChunksToUnload, TypeOK
<1>3. CASE LoseConnection(p)
  <2>1. wire' \in [Player -> [Chunk -> Seq(Messages)]]
    BY <1>3 DEF LoseConnection, TypeOK
  <2> QED
    BY <1>3, <2>1 DEF LoseConnection, TypeOK, TicketsTypeOK
<1>4. CASE OnDisconnect(p)
  <2>1. TicketsTypeOK'
    BY <1>4 DEF OnDisconnect, StopChunksRender, TypeOK, TicketsTypeOK
  <2> QED
    BY <1>4, <2>1 DEF OnDisconnect, TypeOK
<1> QED
  BY <1>1, <1>2, <1>3, <1>4 DEF PlayerStep, OnPlayerMove, Teleport

LEMMA ServerStepTypeOK ==
  ASSUME TypeOK, NEW p \in Player, ServerStep(p)
  PROVE  TypeOK'
<1>1. ASSUME NEW picked, SendChunksToClient(p, picked) PROVE TypeOK'
  <2>1. picked \subseteq Chunk
    BY <1>1 DEF SendChunksToClient, SpiralPrefix, Sendable, View
  <2> QED
    BY <1>1, <2>1 DEF SendChunksToClient, TypeOK, TicketsTypeOK, Pipeline
<1>2. ASSUME NEW ch \in Chunk, Compress(p, ch) PROVE TypeOK'
  BY <1>2 DEF Compress, TypeOK, TicketsTypeOK, Pipeline
<1> QED
  BY <1>1, <1>2 DEF ServerStep, SendChunks

LEMMA ClientStepTypeOK ==
  ASSUME TypeOK, NEW p \in Player, ClientStep(p)
  PROVE  TypeOK'
<1>1. ASSUME NEW ch \in Chunk, NEW i \in DOMAIN wire[p][ch], ClientReceives(p, ch, i)
      PROVE  TypeOK'
  <2>1. wire[p][ch] \in Seq(Messages) /\ i \in 1..Len(wire[p][ch])
    BY <1>1 DEF ClientReceives, TypeOK
  <2>2. RemoveAt(wire[p][ch], i) \in Seq(Messages)
    BY <2>1, RemoveAtType
  <2>3. wire' \in [Player -> [Chunk -> Seq(Messages)]]
    BY <1>1, <2>2 DEF ClientReceives, TypeOK
  <2>4. held' \in [Player -> SUBSET Chunk] /\ acks' \in [Player -> SUBSET Chunk]
    <3>1. held \in [Player -> SUBSET Chunk] /\ acks \in [Player -> SUBSET Chunk]
      BY DEF TypeOK
    <3>2. \/ /\ held' = [held EXCEPT ![p] = held[p] \cup {ch}]
             /\ acks' = [acks EXCEPT ![p] = acks[p] \cup {ch}]
          \/ /\ held' = [held EXCEPT ![p] = held[p] \ {ch}]
             /\ acks' = acks
      BY <1>1, Zenon DEF ClientReceives
    <3> QED
      BY <3>1, <3>2
  <2> QED
    BY <1>1, <2>3, <2>4 DEF ClientReceives, TypeOK, TicketsTypeOK
<1>2. ASSUME NEW chunks \in SUBSET acks[p], ChunkRecieved(p, chunks) PROVE TypeOK'
  BY <1>2 DEF ChunkRecieved, MarkChunksAsRecieved, TypeOK, TicketsTypeOK
<1> QED
  BY <1>1, <1>2 DEF ClientStep

LEMMA NextTypeOK == TypeOK /\ [Next]_vars => TypeOK'
<1> SUFFICES ASSUME TypeOK, [Next]_vars PROVE TypeOK'
  OBVIOUS
<1>1. CASE UpdateWorldChunks
  BY <1>1 DEF UpdateWorldChunks, UpdateChunksState, TypeOK, TicketsTypeOK
<1>2. ASSUME NEW ch \in Chunk, LoadChunk(ch) PROVE TypeOK'
  BY <1>2 DEF LoadChunk, TypeOK, TicketsTypeOK
<1>3. CASE FlushCompressedChunks
  <2>1. wire' \in [Player -> [Chunk -> Seq(Messages)]]
    BY <1>3 DEF FlushCompressedChunks, TypeOK, Messages
  <2> QED
    BY <1>3, <2>1 DEF FlushCompressedChunks, TypeOK, TicketsTypeOK
<1>4. CASE UNCHANGED vars
  BY <1>4 DEF TypeOK, TicketsTypeOK
<1> QED
  BY <1>1, <1>2, <1>3, <1>4, PlayerStepTypeOK, ServerStepTypeOK, ClientStepTypeOK
  DEF Next

\* Every variable always has its type.
THEOREM TypeCorrect == Spec => []TypeOK
  BY InitTypeOK, NextTypeOK, PTL DEF Spec

-----------------------------------------------------------------------------
(* The tickets.                                                            *)

LEMMA PlayerStepTickets ==
  ASSUME TypeOK, TicketsMatchView, NEW p \in Player, PlayerStep(p)
  PROVE  TicketsMatchView'
<1> USE DEF TicketsMatchView
<1>1. CASE SpawnPlayer(p)
  <2>1. TicketsMirror' /\ by_entity' = [by_entity EXCEPT ![p] = (@ \cup View(SpawnChunk)) \ {}]
    <3>1. TicketsTypeOK /\ TicketsMirror /\ ChangeTickets(p, View(SpawnChunk), {})
      BY <1>1 DEF SpawnPlayer, StartChunksRender, TypeOK
    <3> QED
      BY <3>1, TicketsChanged, ViewChunks
  <2>2. by_entity[p] = {}
    BY <1>1 DEF SpawnPlayer
  <2>3. by_entity' = [by_entity EXCEPT ![p] = View(SpawnChunk)]
    BY <2>1, <2>2
  <2>4. ASSUME NEW q \in Player
        PROVE  by_entity'[q] = IF phase'[q] \in {"world", "ghost"} THEN View(position'[q]) ELSE {}
    BY <1>1, <2>3 DEF SpawnPlayer, TypeOK, TicketsTypeOK
  <2> QED
    BY <2>1, <2>4
<1>2. ASSUME NEW to \in Chunk, MovePlayer(p, to) PROVE TicketsMatchView'
  <2>1. by_entity[p] = View(position[p]) /\ by_entity[p] \subseteq Chunk
    BY <1>2 DEF MovePlayer, TypeOK, TicketsTypeOK
  <2>2. /\ TicketsMirror'
        /\ by_entity' = [by_entity EXCEPT ![p] = (@ \cup NewChunks(p, to)) \ AbandonedChunks(p, to)]
    <3>1. /\ TicketsTypeOK /\ TicketsMirror
          /\ ChangeTickets(p, NewChunks(p, to), AbandonedChunks(p, to))
      BY <1>2 DEF MovePlayer, UpdateChunksRender, TypeOK
    <3>2. /\ NewChunks(p, to) \cap AbandonedChunks(p, to) = {}
          /\ NewChunks(p, to) \subseteq Chunk
          /\ AbandonedChunks(p, to) \subseteq Chunk
      BY <2>1, ViewChunks DEF NewChunks, AbandonedChunks
    <3> QED
      BY <3>1, <3>2, TicketsChanged
  <2>3. (by_entity[p] \cup NewChunks(p, to)) \ AbandonedChunks(p, to) = View(to)
    BY DEF NewChunks, AbandonedChunks
  <2>4. by_entity' = [by_entity EXCEPT ![p] = View(to)]
    BY <2>2, <2>3
  <2>5. ASSUME NEW q \in Player
        PROVE  by_entity'[q] = IF phase'[q] \in {"world", "ghost"} THEN View(position'[q]) ELSE {}
    BY <1>2, <2>4 DEF MovePlayer, TypeOK, TicketsTypeOK
  <2> QED
    BY <2>2, <2>5
<1>3. CASE LoseConnection(p)
  BY <1>3 DEF LoseConnection, TicketsMirror
<1>4. CASE OnDisconnect(p)
  <2>1. /\ by_chunk' = [ch \in Chunk |-> by_chunk[ch] \ {p}]
        /\ by_entity' = [by_entity EXCEPT ![p] = {}]
        /\ phase' = [phase EXCEPT ![p] = "gone"]
        /\ position' = position
    BY <1>4 DEF OnDisconnect, StopChunksRender
  <2>2. /\ by_entity \in [Player -> SUBSET Chunk]
        /\ phase \in [Player -> {"lobby", "world", "gone", "ghost"}]
    BY DEF TypeOK, TicketsTypeOK
  <2>3. TicketsMirror'
    BY <2>1, <2>2 DEF TicketsMirror
  <2>4. ASSUME NEW q \in Player
        PROVE  by_entity'[q] = IF phase'[q] \in {"world", "ghost"} THEN View(position'[q]) ELSE {}
    BY <2>1, <2>2
  <2> QED
    BY <2>3, <2>4
<1> QED
  BY <1>1, <1>2, <1>3, <1>4 DEF PlayerStep, OnPlayerMove, Teleport

\* Nobody else touches the tickets, the phase or the position of a player.
LEMMA OthersLeaveTickets ==
  [Next]_vars => \/ \E p \in Player : PlayerStep(p)
                 \/ UNCHANGED <<by_chunk, by_entity, phase, position>>
  BY DEF Next, ServerStep, ClientStep, SendChunks, SendChunksToClient, Compress,
         ClientReceives, ChunkRecieved, UpdateWorldChunks, UpdateChunksState, LoadChunk,
         FlushCompressedChunks

\* Whatever the interleaving, the two ticket maps agree and a player in the
\* world watches exactly the chunks around its position.
THEOREM TicketsMatchViewHolds == Spec => []TicketsMatchView
<1>1. Init => TicketsMatchView
  BY DEF Init, TicketsInit, TicketsMatchView, TicketsMirror
<1>2. TypeOK /\ TicketsMatchView /\ [Next]_vars => TicketsMatchView'
  BY OthersLeaveTickets, PlayerStepTickets DEF TicketsMatchView, TicketsMirror
<1> QED
  BY <1>1, <1>2, TypeCorrect, PTL DEF Spec

-----------------------------------------------------------------------------
(* The queue and the confirmed chunks.                                     *)

\* Both lists of a client stay apart and the queue within its limit.
Lists == QueueConfirmedDisjoint /\ QueueWithinLimit

\* Adding what the spiral picks keeps the queue within its limit.
LEMMA PickedFits ==
  ASSUME TypeOK, NEW p \in Player, NEW picked, SpiralPrefix(p, picked)
  PROVE  Cardinality(send_chunk_queue[p] \cup picked) <= QueueLimit
<1>1. picked \subseteq Chunk /\ send_chunk_queue[p] \subseteq Chunk
  BY DEF SpiralPrefix, Sendable, View, TypeOK
<1>2. IsFiniteSet(picked) /\ IsFiniteSet(send_chunk_queue[p])
  BY <1>1, FS_Subset, GeometryAssumption
<1>3. /\ Cardinality(send_chunk_queue[p] \cup picked)
          = Cardinality(send_chunk_queue[p]) + Cardinality(picked)
            - Cardinality(send_chunk_queue[p] \cap picked)
      /\ IsFiniteSet(send_chunk_queue[p] \cap picked)
  BY <1>2, FS_Union, FS_Subset
<1>4. /\ Cardinality(picked) \in Nat
      /\ Cardinality(send_chunk_queue[p]) \in Nat
      /\ Cardinality(send_chunk_queue[p] \cap picked) \in Nat
  BY <1>2, <1>3, FS_CardinalityType
<1>5. Cardinality(picked) + Cardinality(send_chunk_queue[p]) <= QueueLimit
  BY DEF SpiralPrefix
<1> QED
  BY <1>3, <1>4, <1>5, DeliveryAssumption

\* Removing acknowledged chunks cannot lengthen the queue.
LEMMA RemovalFits ==
  ASSUME TypeOK, NEW p \in Player, NEW rest, rest \subseteq send_chunk_queue[p],
         Cardinality(send_chunk_queue[p]) <= QueueLimit
  PROVE  Cardinality(rest) <= QueueLimit
<1> send_chunk_queue[p] \in SUBSET Chunk
  BY DEF TypeOK
<1>1. IsFiniteSet(send_chunk_queue[p])
  BY FS_Subset, GeometryAssumption
<1>2. /\ Cardinality(rest) <= Cardinality(send_chunk_queue[p])
      /\ Cardinality(rest) \in Nat /\ Cardinality(send_chunk_queue[p]) \in Nat
  BY <1>1, FS_Subset, FS_CardinalityType
<1> QED
  BY <1>2, DeliveryAssumption

LEMMA NextLists == TypeOK /\ Lists /\ [Next]_vars => Lists'
<1> SUFFICES ASSUME TypeOK, Lists, [Next]_vars PROVE Lists'
  OBVIOUS
<1> USE DEF Lists, QueueConfirmedDisjoint, QueueWithinLimit
<1>1. ASSUME NEW p \in Player, NEW abandoned, SendChunksToUnload(p, abandoned) PROVE Lists'
  BY <1>1 DEF SendChunksToUnload, TypeOK
<1>2. ASSUME NEW p \in Player, OnDisconnect(p) PROVE Lists'
  <2>1. Cardinality({}) <= QueueLimit
    BY FS_EmptySet, DeliveryAssumption
  <2> QED
    BY <1>2, <2>1 DEF OnDisconnect, TypeOK
<1>3. ASSUME NEW p \in Player, NEW picked, SendChunksToClient(p, picked) PROVE Lists'
  <2>1. picked \cap confirmed_chunks[p] = {}
    BY <1>3 DEF SendChunksToClient, SpiralPrefix, Sendable, AlreadySended
  <2>2. Cardinality(send_chunk_queue[p] \cup picked) <= QueueLimit
    BY <1>3, PickedFits DEF SendChunksToClient
  <2> QED
    BY <1>3, <2>1, <2>2 DEF SendChunksToClient, TypeOK
<1>4. ASSUME NEW p \in Player, NEW chunks, MarkChunksAsRecieved(p, chunks) PROVE Lists'
  <2>1. Cardinality(send_chunk_queue[p] \ (chunks \cap send_chunk_queue[p])) <= QueueLimit
    BY RemovalFits
  <2> QED
    BY <1>4, <2>1 DEF MarkChunksAsRecieved, TypeOK
<1>5. CASE UNCHANGED <<send_chunk_queue, confirmed_chunks>>
  BY <1>5
<1> QED
  BY <1>1, <1>2, <1>3, <1>4, <1>5
  DEF Next, PlayerStep, ServerStep, ClientStep, SpawnPlayer, OnPlayerMove, Teleport,
      MovePlayer, LoseConnection, SendChunks, Compress, ClientReceives, ChunkRecieved,
      UpdateWorldChunks, UpdateChunksState, LoadChunk, FlushCompressedChunks

LEMMA ListsHold == Spec => []Lists
<1>1. Init => Lists
  BY FS_EmptySet, DeliveryAssumption
  DEF Init, Lists, QueueConfirmedDisjoint, QueueWithinLimit
<1> QED
  BY <1>1, NextLists, TypeCorrect, PTL DEF Spec

\* README.md, line 79: a chunk is never in both lists of a client.
THEOREM QueueConfirmedDisjointHolds == Spec => []QueueConfirmedDisjoint
  BY ListsHold, PTL DEF Lists

\* The queue of a client never outgrows SEND_CHUNK_QUEUE_LIMIT.
THEOREM QueueWithinLimitHolds == Spec => []QueueWithinLimit
  BY ListsHold, PTL DEF Lists

-----------------------------------------------------------------------------
(* The transitions of a chunk.                                             *)

\* A player enters the world or moves: ChangeInterest of the abstract module.
LEMMA InterestStep ==
  ASSUME TypeOK, NEW p \in Player, NEW view \in SUBSET Chunk,
         by_entity' = [by_entity EXCEPT ![p] = view],
         send_chunk_queue' = send_chunk_queue,
         confirmed_chunks' =
           [confirmed_chunks EXCEPT ![p] = @ \ ((by_entity[p] \ view) \cap confirmed_chunks[p])]
  PROVE  Transfer!ChangeInterest(p, view)
<1>1. ASSUME NEW q \in Player, NEW ch \in Chunk
      PROVE  Status'[q][ch] =
               IF q = p /\ Status[q][ch] = "confirmed" /\ ch \in by_entity[p] \ view
               THEN "idle" ELSE Status[q][ch]
  BY DEF Status, TypeOK
<1> DEFINE row == [ch \in Chunk |->
                    IF Status[p][ch] = "confirmed" /\ ch \in by_entity[p] \ view
                    THEN "idle" ELSE Status[p][ch]]
<1>2. Status' = [q \in Player |-> IF q = p THEN row ELSE Status[q]]
  BY <1>1 DEF Status
<1>3. Status' = [Status EXCEPT ![p] = row]
  BY <1>2 DEF Status
<1> HIDE DEF Status
<1> QED
  BY <1>3, Zenon DEF Transfer!ChangeInterest

\* Chunks are sent: Send of the abstract module.
LEMMA SendStep ==
  ASSUME TypeOK, NEW p \in Player, NEW picked, SendChunksToClient(p, picked)
  PROVE  picked \in SUBSET Chunk /\ Transfer!Send(p, picked)
<1>1. /\ picked \subseteq Chunk
      /\ picked \subseteq by_entity[p]
      /\ \A ch \in picked : ch \notin send_chunk_queue[p] /\ ch \notin confirmed_chunks[p]
  BY DEF SendChunksToClient, SpiralPrefix, Sendable, AlreadySended, View
<1>2. ASSUME NEW q \in Player, NEW ch \in Chunk
      PROVE  Status'[q][ch] =
               IF q = p /\ ch \in picked THEN "in_flight" ELSE Status[q][ch]
  BY <1>1 DEF SendChunksToClient, Status, TypeOK
<1>3. Status' = [Status EXCEPT ![p] =
        [ch \in Chunk |-> IF ch \in picked THEN "in_flight" ELSE @[ch]]]
  BY <1>2 DEF Status
<1>4. \A ch \in picked : Status[p][ch] = "idle"
  BY <1>1 DEF Status
<1>5. by_entity' = by_entity
  BY DEF SendChunksToClient
<1> QED
  BY <1>1, <1>3, <1>4, <1>5 DEF Transfer!Send

\* Chunks are acknowledged: Confirm of the abstract module.
LEMMA ConfirmStep ==
  ASSUME TypeOK, NEW p \in Player, NEW chunks, MarkChunksAsRecieved(p, chunks),
         by_entity' = by_entity
  PROVE  /\ chunks \cap send_chunk_queue[p] \in SUBSET Chunk
         /\ Transfer!Confirm(p, chunks \cap send_chunk_queue[p])
<1> DEFINE received == chunks \cap send_chunk_queue[p]
<1>1. received \subseteq Chunk /\ received \subseteq send_chunk_queue[p]
  BY DEF TypeOK
<1>2. ASSUME NEW q \in Player, NEW ch \in Chunk
      PROVE  Status'[q][ch] =
               IF q = p /\ ch \in received THEN "confirmed" ELSE Status[q][ch]
  BY DEF MarkChunksAsRecieved, Status, TypeOK
<1>3. Status' = [Status EXCEPT ![p] =
        [ch \in Chunk |-> IF ch \in received THEN "confirmed" ELSE @[ch]]]
  BY <1>2 DEF Status
<1>4. \A ch \in received : Status[p][ch] = "in_flight"
  BY <1>1 DEF Status
<1> QED
  BY <1>1, <1>3, <1>4 DEF Transfer!Confirm

\* A client leaves: Forget of the abstract module.
LEMMA ForgetStep ==
  ASSUME TypeOK, NEW p \in Player, OnDisconnect(p)
  PROVE  Transfer!Forget(p)
<1>1. ASSUME NEW q \in Player, NEW ch \in Chunk
      PROVE  Status'[q][ch] = IF q = p THEN "idle" ELSE Status[q][ch]
  BY DEF OnDisconnect, Status, TypeOK
<1>2. Status' = [Status EXCEPT ![p] = [ch \in Chunk |-> "idle"]]
  BY <1>1 DEF Status
<1>3. by_entity' = [by_entity EXCEPT ![p] = {}]
  BY DEF OnDisconnect, StopChunksRender
<1> QED
  BY <1>2, <1>3 DEF Transfer!Forget

LEMMA InitRefines == Init => Transfer!Init
<1> SUFFICES ASSUME Init PROVE Transfer!Init
  OBVIOUS
<1>1. Status = [p \in Player |-> [ch \in Chunk |-> "idle"]]
  BY DEF Init, Status
<1> QED
  BY <1>1 DEF Init, TicketsInit, Transfer!Init

LEMMA NextRefines ==
  TypeOK /\ TicketsMatchView /\ [Next]_vars
    => [Transfer!Next]_<<by_entity, Status>>
<1> SUFFICES ASSUME TypeOK, TicketsMatchView, [Next]_vars
             PROVE  Transfer!Next \/ UNCHANGED <<by_entity, Status>>
  OBVIOUS
<1>1. ASSUME NEW p \in Player, SpawnPlayer(p) PROVE Transfer!Next
  <2>1. by_entity[p] = {} /\ View(SpawnChunk) \in SUBSET Chunk
    BY <1>1, ViewChunks DEF SpawnPlayer, TicketsMatchView
  <2>2. by_entity' = [by_entity EXCEPT ![p] = View(SpawnChunk)]
    BY <1>1, <2>1 DEF SpawnPlayer, StartChunksRender, ChangeTickets
  <2>3. /\ send_chunk_queue' = send_chunk_queue
        /\ confirmed_chunks' = [confirmed_chunks EXCEPT ![p] =
             @ \ ((by_entity[p] \ View(SpawnChunk)) \cap confirmed_chunks[p])]
    BY <1>1, <2>1 DEF SpawnPlayer, TypeOK
  <2> QED
    BY <2>1, <2>2, <2>3, InterestStep DEF Transfer!Next
<1>2. ASSUME NEW p \in Player, NEW to \in Chunk, MovePlayer(p, to) PROVE Transfer!Next
  <2>1. View(to) \in SUBSET Chunk
    BY ViewChunks
  <2>2. by_entity' = [by_entity EXCEPT ![p] = View(to)]
    <3>1. (by_entity[p] \cup NewChunks(p, to)) \ AbandonedChunks(p, to) = View(to)
      BY DEF NewChunks, AbandonedChunks
    <3> QED
      BY <1>2, <3>1 DEF MovePlayer, UpdateChunksRender, ChangeTickets
  <2>3. /\ send_chunk_queue' = send_chunk_queue
        /\ confirmed_chunks' = [confirmed_chunks EXCEPT ![p] =
             @ \ ((by_entity[p] \ View(to)) \cap confirmed_chunks[p])]
    BY <1>2 DEF MovePlayer, SendChunksToUnload, AbandonedChunks
  <2> QED
    BY <2>1, <2>2, <2>3, InterestStep DEF Transfer!Next
<1>3. ASSUME NEW p \in Player, OnDisconnect(p) PROVE Transfer!Next
  BY <1>3, ForgetStep DEF Transfer!Next
<1>4. ASSUME NEW p \in Player, NEW picked, SendChunksToClient(p, picked) PROVE Transfer!Next
  BY <1>4, SendStep DEF Transfer!Next
<1>5. ASSUME NEW p \in Player, NEW chunks, ChunkRecieved(p, chunks) PROVE Transfer!Next
  <2>1. MarkChunksAsRecieved(p, chunks) /\ by_entity' = by_entity
    BY <1>5 DEF ChunkRecieved
  <2>2. \E received \in SUBSET Chunk : Transfer!Confirm(p, received)
    BY <2>1, ConfirmStep
  <2> QED
    BY <2>2 DEF Transfer!Next
<1>6. CASE UNCHANGED <<by_entity, send_chunk_queue, confirmed_chunks>>
  BY <1>6 DEF Status
<1> QED
  BY <1>1, <1>2, <1>3, <1>4, <1>5, <1>6
  DEF Next, PlayerStep, ServerStep, ClientStep, OnPlayerMove, Teleport,
      LoseConnection, SendChunks, Compress, ClientReceives,
      UpdateWorldChunks, UpdateChunksState, LoadChunk, FlushCompressedChunks

\* The delivery of chunks implements the transitions that the README states:
\* a chunk is sent only while it is needed and idle, confirmed only while it is
\* in flight, and never touched in flight except by the client's departure.
THEOREM DeliveryImplementsTransfer == Spec => ImplementsTransfer
  BY InitRefines, NextRefines, TypeCorrect, TicketsMatchViewHolds, PTL
  DEF Spec, ImplementsTransfer, Transfer!Spec

-----------------------------------------------------------------------------
(* The columns.                                                            *)

\* The chunks that somebody watches.
Watched == {ch \in Chunk : by_chunk[ch] # {}}

LEMMA NextRefinesColumns ==
  [Next]_vars => [Columns!Next]_<<Watched, column>>
<1> SUFFICES ASSUME [Next]_vars
             PROVE  Columns!Next \/ UNCHANGED <<Watched, column>>
  BY DEF Watched
<1>1. ASSUME NEW despawned \in SUBSET Despawnable, UpdateChunksState(despawned)
      PROVE  Columns!Next
  <2> DEFINE created == {ch \in Chunk : Wanted(ch)}
  <2>1. \A ch \in created : column[ch] = "absent" /\ ch \in Watched
    BY DEF Wanted, Watched
  <2>2. \A ch \in despawned : column[ch] = "loaded" /\ ch \notin Watched
    BY DEF Despawnable, Watched
  <2>3. column' = [ch \in Chunk |-> IF ch \in created THEN "loading"
                                   ELSE IF ch \in despawned THEN "absent"
                                   ELSE column[ch]]
    BY <1>1, <2>1, <2>2 DEF UpdateChunksState
  <2>4. UNCHANGED Watched
    BY <1>1 DEF UpdateChunksState, Watched
  <2>5. created \in SUBSET Chunk /\ despawned \in SUBSET Chunk
    BY DEF Despawnable
  <2> QED
    BY <2>1, <2>2, <2>3, <2>4, <2>5 DEF Columns!Next, Columns!Update, Watched
<1>2. ASSUME NEW ch \in Chunk, LoadChunk(ch) PROVE Columns!Next
  BY <1>2 DEF LoadChunk, Columns!Next, Columns!Finish, Watched
<1>3. ASSUME UNCHANGED column PROVE Columns!Next
  BY <1>3 DEF Columns!Next, Columns!ChangeWatched, Watched
<1> QED
  BY <1>1, <1>2, <1>3
  DEF Next, PlayerStep, ServerStep, ClientStep, SpawnPlayer, OnPlayerMove, Teleport,
      MovePlayer, LoseConnection, OnDisconnect, SendChunks, SendChunksToClient, Compress,
      ClientReceives, ChunkRecieved, UpdateWorldChunks, FlushCompressedChunks

\* As far as delivery uses them, columns are created only for watched chunks
\* and dropped only when nobody watches them (ColumnLifecycle).
THEOREM DeliveryImplementsColumns == Spec => ImplementsColumns
<1>1. Init => Columns!Init
  BY DEF Init, TicketsInit, Columns!Init
<1>2. [Next]_vars => [Columns!Next]_<<{ch \in Chunk : by_chunk[ch] # {}}, column>>
  BY NextRefinesColumns DEF Watched
<1> QED
  BY <1>1, <1>2, PTL DEF Spec, ImplementsColumns, Columns!Spec

-----------------------------------------------------------------------------
(* Messages about one chunk.                                               *)

Has(messages, m) == \E i \in DOMAIN messages : messages[i] = m
OneChunk(messages) ==
  \A i, j \in DOMAIN messages : messages[i] = "chunk" /\ messages[j] = "chunk" => i = j

\* What is in a sequence with a message more.
LEMMA AppendHas ==
  ASSUME NEW s \in Seq(Messages), NEW m \in Messages
  PROVE  /\ \A x : Has(Append(s, m), x) <=> Has(s, x) \/ x = m
         /\ m = "unload" /\ OneChunk(s) => OneChunk(Append(s, m))
         /\ ~Has(s, "chunk") => OneChunk(Append(s, m))
<1>1. /\ DOMAIN Append(s, m) = 1..(Len(s) + 1) /\ DOMAIN s = 1..Len(s)
      /\ \A i \in 1..Len(s) : Append(s, m)[i] = s[i]
      /\ Append(s, m)[Len(s) + 1] = m
      /\ Len(s) \in Nat
  OBVIOUS
<1>2. ASSUME NEW x PROVE Has(Append(s, m), x) <=> Has(s, x) \/ x = m
  BY <1>1 DEF Has
<1>3. m = "unload" /\ OneChunk(s) => OneChunk(Append(s, m))
  BY <1>1 DEF OneChunk
<1>4. ~Has(s, "chunk") => OneChunk(Append(s, m))
  BY <1>1 DEF OneChunk, Has
<1> QED
  BY <1>2, <1>3, <1>4

\* What is in a sequence with a message less.
LEMMA RemoveHas ==
  ASSUME NEW s \in Seq(Messages), NEW i \in DOMAIN s
  PROVE  LET r == RemoveAt(s, i)
         IN /\ Len(r) = Len(s) - 1
            /\ \A j \in DOMAIN r : r[j] = IF j < i THEN s[j] ELSE s[j + 1]
            /\ \A x : Has(r, x) => Has(s, x)
            /\ \A x : Has(s, x) /\ s[i] # x => Has(r, x)
            /\ OneChunk(s) => OneChunk(r)
            /\ OneChunk(s) /\ s[i] = "chunk" => ~Has(r, "chunk")
<1> DEFINE r == RemoveAt(s, i)
           head == SubSeq(s, 1, i - 1)
           tail == SubSeq(s, i + 1, Len(s))
<1>1. i \in 1..Len(s) /\ Len(s) \in Nat /\ DOMAIN s = 1..Len(s)
  OBVIOUS
<1>2. /\ head \in Seq(Messages) /\ Len(head) = i - 1
      /\ \A j \in 1..(i - 1) : head[j] = s[j]
  BY <1>1, SubSeqProperties
<1>3. /\ tail \in Seq(Messages) /\ Len(tail) = Len(s) - i
      /\ \A j \in 1..(Len(s) - i) : tail[j] = s[i + j]
  BY <1>1, SubSeqProperties
<1>4. /\ r \in Seq(Messages) /\ Len(r) = Len(s) - 1
      /\ \A j \in 1..(Len(s) - 1) : r[j] = IF j < i THEN s[j] ELSE s[j + 1]
  <2>1. r = head \o tail
    BY DEF RemoveAt
  <2> HIDE DEF r, head, tail
  <2>2. /\ r \in Seq(Messages) /\ Len(r) = Len(s) - 1
        /\ \A j \in 1..Len(r) : r[j] = IF j <= Len(head) THEN head[j] ELSE tail[j - Len(head)]
    <3>1. /\ head \o tail \in Seq(Messages)
          /\ Len(head \o tail) = Len(head) + Len(tail)
          /\ \A j \in 1..(Len(head) + Len(tail)) :
               (head \o tail)[j] = IF j <= Len(head) THEN head[j] ELSE tail[j - Len(head)]
      BY <1>2, <1>3, ConcatProperties
    <3>2. Len(head) + Len(tail) = Len(s) - 1
      BY <1>1, <1>2, <1>3
    <3> QED
      BY <2>1, <3>1, <3>2
  <2>3. ASSUME NEW j \in 1..(Len(s) - 1)
        PROVE  r[j] = IF j < i THEN s[j] ELSE s[j + 1]
    <3>1. CASE j < i
      BY <1>1, <1>2, <2>2, <2>3, <3>1
    <3>2. CASE j >= i
      <4>1. /\ r[j] = tail[j - (i - 1)]
            /\ j - (i - 1) \in 1..(Len(s) - i)
            /\ i + (j - (i - 1)) = j + 1
        BY <1>1, <1>2, <2>2, <2>3, <3>2
      <4> QED
        BY <1>1, <1>3, <4>1, <3>2
    <3> QED
      BY <1>1, <3>1, <3>2
  <2> QED
    BY <2>2, <2>3
<1>5. DOMAIN r = 1..(Len(s) - 1)
  BY <1>4, <1>1
<1> HIDE DEF r
<1>6. ASSUME NEW x, Has(r, x) PROVE Has(s, x)
  <2>1. PICK j \in DOMAIN r : r[j] = x
    BY <1>6 DEF Has
  <2>2. j \in DOMAIN s /\ j + 1 \in DOMAIN s /\ (s[j] = x \/ s[j + 1] = x)
    BY <1>1, <1>4, <1>5, <2>1
  <2> QED
    BY <2>2 DEF Has
<1>7. ASSUME NEW x, Has(s, x), s[i] # x PROVE Has(r, x)
  <2>1. PICK j \in 1..Len(s) : s[j] = x /\ j # i
    BY <1>1, <1>7 DEF Has
  <2>2. CASE j < i
    BY <1>1, <1>4, <1>5, <2>1, <2>2 DEF Has
  <2>3. CASE j > i
    <3>1. j - 1 \in DOMAIN r /\ r[j - 1] = x
      BY <1>1, <1>4, <1>5, <2>1, <2>3
    <3> QED
      BY <3>1 DEF Has
  <2> QED
    BY <1>1, <2>1, <2>2, <2>3
<1>8. OneChunk(s) => OneChunk(r)
  <2> SUFFICES ASSUME OneChunk(s), NEW j \in DOMAIN r, NEW k \in DOMAIN r,
                      r[j] = "chunk", r[k] = "chunk"
               PROVE  j = k
    BY DEF OneChunk
  <2> DEFINE from(n) == IF n < i THEN n ELSE n + 1
  <2>1. ASSUME NEW n \in DOMAIN r
        PROVE  n \in Int /\ from(n) \in DOMAIN s /\ s[from(n)] = r[n]
    BY <1>1, <1>4, <1>5
  <2>2. from(j) = from(k)
    <3> HIDE DEF from
    <3> QED
      BY <2>1 DEF OneChunk
  <2> QED
    BY <2>1, <2>2
<1>9. OneChunk(s) /\ s[i] = "chunk" => ~Has(r, "chunk")
  <2> SUFFICES ASSUME OneChunk(s), s[i] = "chunk", NEW n \in DOMAIN r, r[n] = "chunk"
               PROVE  FALSE
    BY DEF Has
  <2> DEFINE from == IF n < i THEN n ELSE n + 1
  <2>1. from \in DOMAIN s /\ s[from] = r[n] /\ from # i /\ i \in DOMAIN s
    BY <1>1, <1>4, <1>5
  <2> HIDE DEF from
  <2> QED
    BY <2>1 DEF OneChunk
<1> QED
  BY <1>4, <1>5, <1>6, <1>7, <1>8, <1>9 DEF r

-----------------------------------------------------------------------------
(* A chunk is under way at one place at a time.                            *)

Travels(p, ch) == Has(wire[p][ch], "chunk")

Exclusive(p, ch) ==
  /\ <<p, ch>> \in compressing =>
       <<p, ch>> \notin prepared /\ ~Travels(p, ch) /\ ch \notin acks[p]
  /\ <<p, ch>> \in prepared => ~Travels(p, ch) /\ ch \notin acks[p]
  /\ Travels(p, ch) => ch \notin acks[p]
  /\ OneChunk(wire[p][ch])

InFlight(p, ch) ==
  <<p, ch>> \in compressing \/ <<p, ch>> \in prepared \/ Travels(p, ch) \/ ch \in acks[p]

\* What is under way is in the queue, until the client is dropped, and while
\* the connection lasts what is in the queue is under way.
PairFlight(p, ch) ==
  /\ Exclusive(p, ch)
  /\ Known(p) /\ InFlight(p, ch) => ch \in send_chunk_queue[p]
  /\ connected[p] => Known(p) /\ (ch \in send_chunk_queue[p] => InFlight(p, ch))
  /\ ~connected[p] => wire[p][ch] = <<>>

Flight == \A p \in Player, ch \in Chunk : PairFlight(p, ch)


\* A message about a chunk of which none is under way, or an unload, is posted.
LEMMA PostFlight ==
  ASSUME TypeOK, NEW p \in Player, NEW chunks, Post(p, chunks, "unload"),
         NEW q \in Player, NEW ch \in Chunk, PairFlight(q, ch)
  PROVE  /\ wire'[q][ch] = IF q = p /\ connected[q] /\ ch \in chunks
                            THEN Append(wire[q][ch], "unload") ELSE wire[q][ch]
         /\ Travels(q, ch)' <=> Travels(q, ch)
         /\ OneChunk(wire'[q][ch])
<1>1. wire'[q][ch] = IF q = p /\ connected[q] /\ ch \in chunks
                     THEN Append(wire[q][ch], "unload") ELSE wire[q][ch]
  BY DEF Post, TypeOK
<1>2. wire[q][ch] \in Seq(Messages) /\ "unload" \in Messages
  BY DEF TypeOK, Messages
<1>3. OneChunk(wire[q][ch])
  BY DEF PairFlight, Exclusive
<1> QED
  BY <1>1, <1>2, <1>3, AppendHas DEF Travels

LEMMA PlayerStepFlight ==
  ASSUME TypeOK, Flight, NEW p \in Player, PlayerStep(p)
  PROVE  Flight'
<1> SUFFICES ASSUME NEW q \in Player, NEW ch \in Chunk PROVE PairFlight(q, ch)'
  BY DEF Flight
<1> PairFlight(q, ch)
  BY DEF Flight
<1> USE DEF PairFlight, Exclusive, InFlight
<1>1. CASE SpawnPlayer(p)
  BY <1>1 DEF SpawnPlayer, TypeOK, Travels
<1>2. ASSUME NEW to \in Chunk, MovePlayer(p, to) PROVE PairFlight(q, ch)'
  <2>1. SendChunksToUnload(p, AbandonedChunks(p, to))
    BY <1>2 DEF MovePlayer
  <2>2. /\ wire'[q][ch] = IF q = p /\ connected[q]
                              /\ ch \in AbandonedChunks(p, to) \cap confirmed_chunks[p]
                           THEN Append(wire[q][ch], "unload") ELSE wire[q][ch]
        /\ Travels(q, ch)' <=> Travels(q, ch)
        /\ OneChunk(wire'[q][ch])
    BY <2>1, PostFlight DEF SendChunksToUnload
  <2> QED
    BY <1>2, <2>1, <2>2 DEF MovePlayer, SendChunksToUnload
<1>3. CASE LoseConnection(p)
  <2>1. CASE q = p
    <3>1. wire'[q][ch] = <<>> /\ connected'[q] = FALSE
      BY <1>3, <2>1 DEF LoseConnection, TypeOK
    <3>2. ~Travels(q, ch)' /\ OneChunk(wire'[q][ch])
      BY <3>1 DEF Travels, Has, OneChunk
    <3> QED
      BY <1>3, <3>1, <3>2 DEF LoseConnection
  <2>2. CASE q # p
    BY <1>3, <2>2 DEF LoseConnection, TypeOK, Travels
  <2> QED
    BY <2>1, <2>2
<1>4. CASE OnDisconnect(p)
  <2>1. CASE q = p
    BY <1>4, <2>1 DEF OnDisconnect, TypeOK, Travels
  <2>2. CASE q # p
    BY <1>4, <2>2 DEF OnDisconnect, TypeOK, Travels
  <2> QED
    BY <2>1, <2>2
<1> QED
  BY <1>1, <1>2, <1>3, <1>4 DEF PlayerStep, OnPlayerMove, Teleport

LEMMA ServerStepFlight ==
  ASSUME TypeOK, Flight, NEW p \in Player, ServerStep(p)
  PROVE  Flight'
<1> SUFFICES ASSUME NEW q \in Player, NEW ch \in Chunk PROVE PairFlight(q, ch)'
  BY DEF Flight
<1> PairFlight(q, ch)
  BY DEF Flight
<1> USE DEF PairFlight, Exclusive, InFlight
<1>1. CASE SendChunks(p)
  <2>1. PICK picked \in SUBSET Sendable(p) : SendChunksToClient(p, picked)
    BY <1>1 DEF SendChunks
  <2>2. phase[p] = "world" /\ connected[p]
    BY <1>1 DEF SendChunks, MaySend
  <2>3. ch \in picked => ch \notin send_chunk_queue[p]
    BY <2>1 DEF Sendable, AlreadySended
  <2>4. CASE q = p /\ ch \in picked
    <3>1. ~InFlight(q, ch)
      BY <2>2, <2>3, <2>4
    <3> QED
      BY <2>1, <2>2, <2>4, <3>1 DEF SendChunksToClient, TypeOK, Travels
  <2>5. CASE ~(q = p /\ ch \in picked)
    <3>1. /\ ch \in send_chunk_queue'[q] <=> ch \in send_chunk_queue[q]
          /\ <<q, ch>> \in compressing' <=> <<q, ch>> \in compressing
      BY <2>1, <2>5 DEF SendChunksToClient, TypeOK
    <3> QED
      BY <2>1, <3>1 DEF SendChunksToClient, Travels
  <2> QED
    BY <2>4, <2>5
<1>2. ASSUME NEW c \in Chunk, Compress(p, c) PROVE PairFlight(q, ch)'
  <2>1. CASE <<q, ch>> = <<p, c>>
    BY <1>2, <2>1 DEF Compress, Travels
  <2>2. CASE <<q, ch>> # <<p, c>>
    BY <1>2, <2>2 DEF Compress, Travels
  <2> QED
    BY <2>1, <2>2
<1> QED
  BY <1>1, <1>2 DEF ServerStep

LEMMA ClientStepFlight ==
  ASSUME TypeOK, Lists, Flight, NEW p \in Player, ClientStep(p)
  PROVE  Flight'
<1> SUFFICES ASSUME NEW q \in Player, NEW ch \in Chunk PROVE PairFlight(q, ch)'
  BY DEF Flight
<1> PairFlight(q, ch)
  BY DEF Flight
<1> USE DEF PairFlight, Exclusive, InFlight
<1>1. ASSUME NEW c \in Chunk, NEW i \in DOMAIN wire[p][c], ClientReceives(p, c, i)
      PROVE  PairFlight(q, ch)'
  <2> DEFINE s == wire[p][c]
  <2>1. s \in Seq(Messages) /\ s[i] \in Messages
    BY DEF TypeOK
  <2>2. /\ \A x : Has(RemoveAt(s, i), x) => Has(s, x)
        /\ \A x : Has(s, x) /\ s[i] # x => Has(RemoveAt(s, i), x)
        /\ OneChunk(s) => OneChunk(RemoveAt(s, i))
        /\ OneChunk(s) /\ s[i] = "chunk" => ~Has(RemoveAt(s, i), "chunk")
    BY <2>1, RemoveHas
  <2>3. wire' = [wire EXCEPT ![p][c] = RemoveAt(wire[p][c], i)]
    BY <1>1 DEF ClientReceives
  <2>4. CASE <<q, ch>> = <<p, c>>
    <3>1. wire'[q][ch] = RemoveAt(s, i) /\ wire[q][ch] = s /\ q = p /\ ch = c
      BY <2>3, <2>4 DEF TypeOK
    <3>2. connected[q]
      BY <3>1
    <3>3. CASE s[i] = "chunk"
      <4>1. acks' = [acks EXCEPT ![p] = @ \cup {c}]
        BY <1>1, <3>3 DEF ClientReceives
      <4>2. ch \in acks'[q]
        BY <3>1, <4>1 DEF TypeOK
      <4>3. Travels(q, ch) /\ ~Travels(q, ch)' /\ OneChunk(wire'[q][ch])
        BY <2>2, <3>1, <3>3 DEF Travels, Has
      <4>4. UNCHANGED <<phase, connected, send_chunk_queue, compressing, prepared>>
        BY <1>1 DEF ClientReceives
      <4> QED
        BY <3>1, <3>2, <4>2, <4>3, <4>4
    <3>4. CASE s[i] # "chunk"
      <4>1. UNCHANGED acks
        BY <1>1, <3>4 DEF ClientReceives
      <4>2. (Travels(q, ch)' <=> Travels(q, ch)) /\ OneChunk(wire'[q][ch])
        BY <2>2, <3>1, <3>4 DEF Travels
      <4>3. UNCHANGED <<phase, connected, send_chunk_queue, compressing, prepared>>
        BY <1>1 DEF ClientReceives
      <4> QED
        BY <3>1, <3>2, <4>1, <4>2, <4>3
    <3> QED
      BY <3>3, <3>4
  <2>5. CASE <<q, ch>> # <<p, c>>
    <3>1. wire'[q][ch] = wire[q][ch]
      BY <2>3, <2>5 DEF TypeOK
    <3>2. \/ acks' = [acks EXCEPT ![p] = acks[p] \cup {c}]
          \/ acks' = acks
      BY <1>1, Zenon DEF ClientReceives
    <3>3. ch \in acks'[q] <=> ch \in acks[q]
      BY <2>5, <3>2 DEF TypeOK
    <3>4. UNCHANGED <<phase, connected, send_chunk_queue, compressing, prepared>>
      BY <1>1 DEF ClientReceives
    <3> QED
      BY <3>1, <3>3, <3>4 DEF Travels
  <2> QED
    BY <2>4, <2>5
<1>2. ASSUME NEW chunks \in SUBSET acks[p], ChunkRecieved(p, chunks)
      PROVE  PairFlight(q, ch)'
  <2>1. CASE q = p /\ ch \in chunks
    <3>1. ch \notin acks'[q] /\ ch \notin send_chunk_queue'[q]
      BY <1>2, <2>1 DEF ChunkRecieved, MarkChunksAsRecieved, TypeOK
    <3> QED
      BY <1>2, <2>1, <3>1 DEF ChunkRecieved, Travels
  <2>2. CASE ~(q = p /\ ch \in chunks)
    <3>1. /\ ch \in acks'[q] <=> ch \in acks[q]
          /\ ch \in send_chunk_queue'[q] <=> ch \in send_chunk_queue[q]
      BY <1>2, <2>2 DEF ChunkRecieved, MarkChunksAsRecieved, TypeOK
    <3> QED
      BY <1>2, <3>1 DEF ChunkRecieved, Travels
  <2> QED
    BY <2>1, <2>2
<1> QED
  BY <1>1, <1>2 DEF ClientStep

LEMMA FlushFlight ==
  ASSUME TypeOK, Flight, FlushCompressedChunks
  PROVE  Flight'
<1> SUFFICES ASSUME NEW q \in Player, NEW ch \in Chunk PROVE PairFlight(q, ch)'
  BY DEF Flight
<1> PairFlight(q, ch)
  BY DEF Flight
<1> USE DEF PairFlight, Exclusive, InFlight
<1>1. wire[q][ch] \in Seq(Messages) /\ "chunk" \in Messages
  BY DEF TypeOK, Messages
<1>2. CASE <<q, ch>> \in prepared /\ connected[q]
  <2>1. wire'[q][ch] = Append(wire[q][ch], "chunk")
    BY <1>2 DEF FlushCompressedChunks
  <2>2. ~Has(wire[q][ch], "chunk")
    BY <1>2 DEF Travels
  <2>3. Travels(q, ch)' /\ OneChunk(wire'[q][ch])
    BY <1>1, <2>1, <2>2, AppendHas DEF Travels
  <2> QED
    BY <1>2, <2>3 DEF FlushCompressedChunks
<1>3. CASE ~(<<q, ch>> \in prepared /\ connected[q])
  <2>1. wire'[q][ch] = wire[q][ch]
    BY <1>3 DEF FlushCompressedChunks
  <2> QED
    BY <1>3, <2>1 DEF FlushCompressedChunks, Travels
<1> QED
  BY <1>2, <1>3

LEMMA NextFlight == TypeOK /\ Lists /\ Flight /\ [Next]_vars => Flight'
<1> SUFFICES ASSUME TypeOK, Lists, Flight, [Next]_vars PROVE Flight'
  OBVIOUS
<1>1. ASSUME UNCHANGED <<phase, connected, send_chunk_queue, compressing, prepared, acks, wire>>
      PROVE  Flight'
  BY <1>1 DEF Flight, PairFlight, Exclusive, InFlight, Travels
<1> QED
  BY <1>1, PlayerStepFlight, ServerStepFlight, ClientStepFlight, FlushFlight
  DEF Next, UpdateWorldChunks, UpdateChunksState, LoadChunk

LEMMA FlightHolds == Spec => []Flight
<1>1. Init => Flight
  BY DEF Init, Flight, PairFlight, Exclusive, InFlight, Travels, Has, OneChunk
<1> QED
  BY <1>1, NextFlight, TypeCorrect, ListsHold, PTL DEF Spec

\* Stages counts what InFlight says.
LEMMA StagesCounted ==
  ASSUME NEW p \in Player, NEW ch \in Chunk, Exclusive(p, ch)
  PROVE  Stages(p, ch) = IF InFlight(p, ch) THEN 1 ELSE 0
<1>1. ASSUME NEW b \in BOOLEAN PROVE Cardinality({i \in {1} : b}) = IF b THEN 1 ELSE 0
  <2>1. CASE b
    <3>1. {i \in {1} : b} = {1}
      BY <2>1
    <3> QED
      BY <2>1, <3>1, FS_Singleton
  <2>2. CASE ~b
    <3>1. {i \in {1} : b} = {}
      BY <2>2
    <3> QED
      BY <2>2, <3>1, FS_EmptySet
  <2> QED
    BY <2>1, <2>2
<1>2. Cardinality({i \in DOMAIN wire[p][ch] : wire[p][ch][i] = "chunk"})
        = IF Travels(p, ch) THEN 1 ELSE 0
  <2> DEFINE S == {i \in DOMAIN wire[p][ch] : wire[p][ch][i] = "chunk"}
  <2>1. CASE Travels(p, ch)
    <3>1. PICK i \in DOMAIN wire[p][ch] : wire[p][ch][i] = "chunk"
      BY <2>1 DEF Travels, Has
    <3>2. S = {i}
      BY <3>1 DEF Exclusive, OneChunk
    <3> QED
      BY <2>1, <3>2, FS_Singleton
  <2>2. CASE ~Travels(p, ch)
    <3>1. S = {}
      BY <2>2 DEF Travels, Has
    <3> QED
      BY <2>2, <3>1, FS_EmptySet
  <2> QED
    BY <2>1, <2>2
<1>3. /\ Cardinality({i \in {1} : <<p, ch>> \in compressing})
          = IF <<p, ch>> \in compressing THEN 1 ELSE 0
      /\ Cardinality({i \in {1} : <<p, ch>> \in prepared})
          = IF <<p, ch>> \in prepared THEN 1 ELSE 0
      /\ Cardinality({i \in {1} : ch \in acks[p]}) = IF ch \in acks[p] THEN 1 ELSE 0
  BY <1>1
<1> QED
  BY <1>2, <1>3 DEF Stages, Exclusive, InFlight

\* While a client is connected, a chunk in its queue is at exactly one stage,
\* and no other chunk is at any.
THEOREM QueuedOnceInFlightHolds == Spec => []QueuedOnceInFlight
<1>1. Flight => QueuedOnceInFlight
  BY StagesCounted DEF Flight, PairFlight, QueuedOnceInFlight
<1> QED
  BY <1>1, FlightHolds, PTL

-----------------------------------------------------------------------------
(* What a client holds.                                                    *)

\* HeldAccounted, for one pair.
Accounted(p, ch) ==
  connected[p] /\ ch \in held[p] => ch \in AlreadySended(p) \/ Has(wire[p][ch], "unload")

AllAccounted == \A p \in Player, ch \in Chunk : Accounted(p, ch)

\* What the client has confirmed or acknowledged it holds, no unload of it is
\* under way, and an unload never follows the chunk that is under way.
Present(p, ch) ==
  /\ ch \in confirmed_chunks[p] \cup acks[p] =>
       ch \in held[p] /\ ~Has(wire[p][ch], "unload")
  /\ \A i \in DOMAIN wire[p][ch] : wire[p][ch][i] = "chunk" => i = Len(wire[p][ch])

AllPresent == OneOrder => \A p \in Player, ch \in Chunk : Present(p, ch)

Holding == AllAccounted /\ AllPresent

LEMMA PlayerStepHolding ==
  ASSUME TypeOK, Lists, Flight, Holding, NEW p \in Player, PlayerStep(p)
  PROVE  Holding'
<1> SUFFICES ASSUME NEW q \in Player, NEW ch \in Chunk
             PROVE  Accounted(q, ch)' /\ (OneOrder => Present(q, ch)')
  BY DEF Holding, AllAccounted, AllPresent
<1>a. PairFlight(q, ch) /\ Accounted(q, ch) /\ (OneOrder => Present(q, ch))
  BY DEF Flight, Holding, AllAccounted, AllPresent
<1>b. ch \in confirmed_chunks[q] => ch \notin send_chunk_queue[q]
  BY DEF Lists, QueueConfirmedDisjoint
<1> USE DEF Accounted, Present, AlreadySended
<1>1. CASE SpawnPlayer(p)
  BY <1>1, <1>a DEF SpawnPlayer
<1>2. ASSUME NEW to \in Chunk, MovePlayer(p, to)
      PROVE  Accounted(q, ch)' /\ (OneOrder => Present(q, ch)')
  <2> DEFINE unload == AbandonedChunks(p, to) \cap confirmed_chunks[p]
             gone == q = p /\ ch \in unload
  <2>1. SendChunksToUnload(p, AbandonedChunks(p, to)) /\ UNCHANGED connected
    BY <1>2 DEF MovePlayer
  <2>2. wire'[q][ch] = IF gone /\ connected[q]
                       THEN Append(wire[q][ch], "unload") ELSE wire[q][ch]
    BY <1>a, <2>1, PostFlight DEF SendChunksToUnload
  <2>3. /\ ch \in confirmed_chunks'[q] <=> ch \in confirmed_chunks[q] /\ ~gone
        /\ UNCHANGED <<send_chunk_queue, held, acks>>
    BY <2>1 DEF SendChunksToUnload, TypeOK
  <2>4. CASE gone /\ connected[q]
    <3>1. wire[q][ch] \in Seq(Messages) /\ "unload" \in Messages
      BY DEF TypeOK, Messages
    <3>2. Has(wire'[q][ch], "unload")
      BY <2>2, <2>4, <3>1, AppendHas
    <3>3. ~Has(wire[q][ch], "chunk") /\ ch \notin acks[q]
      BY <1>a, <1>b, <2>4 DEF PairFlight, InFlight, Travels
    <3>4. ~Has(wire'[q][ch], "chunk")
      BY <2>2, <2>4, <3>1, <3>3, AppendHas
    <3> QED
      BY <2>3, <2>4, <3>2, <3>3, <3>4 DEF Has
  <2>5. CASE gone /\ ~connected[q]
    BY <1>a, <2>1, <2>2, <2>3, <2>5
  <2>6. CASE ~gone
    BY <1>a, <2>1, <2>2, <2>3, <2>6
  <2> QED
    BY <2>4, <2>5, <2>6
<1>3. CASE LoseConnection(p)
  <2>1. CASE q = p
    <3>1. wire'[q][ch] = <<>> /\ connected'[q] = FALSE
      BY <1>3, <2>1 DEF LoseConnection, TypeOK
    <3>2. ~Has(wire'[q][ch], "unload") /\ DOMAIN wire'[q][ch] = {}
      BY <3>1 DEF Has
    <3> QED
      BY <1>3, <1>a, <3>1, <3>2 DEF LoseConnection
  <2>2. CASE q # p
    BY <1>3, <1>a, <2>2 DEF LoseConnection, TypeOK
  <2> QED
    BY <2>1, <2>2
<1>4. CASE OnDisconnect(p)
  <2>1. CASE q = p
    BY <1>4, <1>a, <2>1 DEF OnDisconnect, TypeOK
  <2>2. CASE q # p
    BY <1>4, <1>a, <2>2 DEF OnDisconnect, TypeOK
  <2> QED
    BY <2>1, <2>2
<1> QED
  BY <1>1, <1>2, <1>3, <1>4 DEF PlayerStep, OnPlayerMove, Teleport

LEMMA ClientStepHolding ==
  ASSUME TypeOK, Lists, Flight, Holding, NEW p \in Player, ClientStep(p)
  PROVE  Holding'
<1> SUFFICES ASSUME NEW q \in Player, NEW ch \in Chunk
             PROVE  Accounted(q, ch)' /\ (OneOrder => Present(q, ch)')
  BY DEF Holding, AllAccounted, AllPresent
<1>a. PairFlight(q, ch) /\ Accounted(q, ch) /\ (OneOrder => Present(q, ch))
  BY DEF Flight, Holding, AllAccounted, AllPresent
<1> USE DEF Accounted, Present, AlreadySended
<1>1. ASSUME NEW c \in Chunk, NEW i \in DOMAIN wire[p][c], ClientReceives(p, c, i)
      PROVE  Accounted(q, ch)' /\ (OneOrder => Present(q, ch)')
  <2>1. /\ wire' = [wire EXCEPT ![p][c] = RemoveAt(wire[p][c], i)]
        /\ UNCHANGED <<connected, send_chunk_queue, confirmed_chunks>>
    BY <1>1 DEF ClientReceives
  <2>2. CASE <<q, ch>> = <<p, c>>
    <3> DEFINE s == wire[p][c]
               r == RemoveAt(s, i)
    <3>1. s \in Seq(Messages) /\ s[i] \in Messages /\ i \in 1..Len(s) /\ Len(s) \in Nat
      BY DEF TypeOK
    <3>2. wire'[q][ch] = r /\ wire[q][ch] = s /\ q = p /\ ch = c
      BY <2>1, <2>2 DEF TypeOK
    <3>3. /\ Len(r) = Len(s) - 1
          /\ \A j \in DOMAIN r : r[j] = IF j < i THEN s[j] ELSE s[j + 1]
          /\ \A x : Has(r, x) => Has(s, x)
          /\ \A x : Has(s, x) /\ s[i] # x => Has(r, x)
      BY <3>1, RemoveHas
    <3>6. r \in Seq(Messages)
      BY <3>1, RemoveAtType
    <3> HIDE DEF r, s
    <3>4. CASE s[i] = "chunk"
      <4>1. /\ held' = [held EXCEPT ![p] = @ \cup {c}]
            /\ acks' = [acks EXCEPT ![p] = @ \cup {c}]
        BY <1>1, <3>4 DEF ClientReceives, s
      <4>2. ch \in held'[q] /\ ch \in send_chunk_queue[q]
        <5>1. Travels(q, ch) /\ connected[q]
          BY <1>a, <3>1, <3>2, <3>4 DEF PairFlight, Travels, Has
        <5> QED
          BY <1>a, <3>2, <4>1, <5>1 DEF PairFlight, InFlight, TypeOK
      <4>3. ASSUME OneOrder PROVE r = <<>>
        <5>1. i = 1 /\ i = Len(s)
          BY <1>1, <1>a, <3>1, <3>2, <3>4, <4>3 DEF ClientReceives
        <5> QED
          BY <3>1, <3>3, <3>6, <5>1, EmptySeq
      <4> QED
        BY <2>1, <3>2, <4>2, <4>3 DEF Has
    <3>5. CASE s[i] = "unload"
      <4>1. held' = [held EXCEPT ![p] = @ \ {c}] /\ UNCHANGED acks
        BY <1>1, <3>5 DEF ClientReceives, s
      <4>2. ch \notin held'[q]
        BY <3>2, <4>1 DEF TypeOK
      <4>3. ASSUME OneOrder PROVE ch \notin confirmed_chunks[q] \cup acks[q]
        BY <1>a, <3>1, <3>2, <3>5, <4>3 DEF Has
      <4>4. ASSUME OneOrder, NEW j \in DOMAIN r, r[j] = "chunk" PROVE j = Len(r)
        <5>1. i = 1 /\ j \in 1..Len(r)
          BY <1>1, <3>6, <4>4 DEF ClientReceives
        <5>2. j + 1 \in DOMAIN s /\ s[j + 1] = "chunk"
          BY <3>1, <3>3, <4>4, <5>1
        <5> QED
          BY <1>a, <3>1, <3>2, <3>3, <4>4, <5>1, <5>2
      <4> QED
        BY <2>1, <3>2, <4>1, <4>2, <4>3, <4>4
    <3> QED
      BY <3>1, <3>4, <3>5 DEF Messages
  <2>3. CASE <<q, ch>> # <<p, c>>
    <3>1. wire'[q][ch] = wire[q][ch]
      BY <2>1, <2>3 DEF TypeOK
    <3>2. \/ /\ held' = [held EXCEPT ![p] = held[p] \cup {c}]
             /\ acks' = [acks EXCEPT ![p] = acks[p] \cup {c}]
          \/ /\ held' = [held EXCEPT ![p] = held[p] \ {c}]
             /\ acks' = acks
      BY <1>1, Zenon DEF ClientReceives
    <3>3. /\ ch \in held'[q] <=> ch \in held[q]
          /\ ch \in acks'[q] <=> ch \in acks[q]
      BY <2>3, <3>2 DEF TypeOK
    <3> QED
      BY <1>a, <2>1, <3>1, <3>3
  <2> QED
    BY <2>2, <2>3
<1>2. ASSUME NEW chunks \in SUBSET acks[p], ChunkRecieved(p, chunks)
      PROVE  Accounted(q, ch)' /\ (OneOrder => Present(q, ch)')
  <2>1. UNCHANGED <<connected, wire, held>>
    BY <1>2 DEF ChunkRecieved
  <2>2. /\ ch \in AlreadySended(q)' <=> ch \in AlreadySended(q)
        /\ ch \in confirmed_chunks'[q] \cup acks'[q] => ch \in confirmed_chunks[q] \cup acks[q]
    BY <1>2 DEF ChunkRecieved, MarkChunksAsRecieved, TypeOK
  <2> QED
    BY <1>a, <2>1, <2>2
<1> QED
  BY <1>1, <1>2 DEF ClientStep

LEMMA FlushHolding ==
  ASSUME TypeOK, Lists, Flight, Holding, FlushCompressedChunks
  PROVE  Holding'
<1> SUFFICES ASSUME NEW q \in Player, NEW ch \in Chunk
             PROVE  Accounted(q, ch)' /\ (OneOrder => Present(q, ch)')
  BY DEF Holding, AllAccounted, AllPresent
<1>a. PairFlight(q, ch) /\ Accounted(q, ch) /\ (OneOrder => Present(q, ch))
  BY DEF Flight, Holding, AllAccounted, AllPresent
<1> USE DEF Accounted, Present, AlreadySended
<1>1. UNCHANGED <<connected, send_chunk_queue, confirmed_chunks, acks, held>>
  BY DEF FlushCompressedChunks
<1>2. CASE <<q, ch>> \in prepared /\ connected[q] /\ Known(q)
  <2>1. wire'[q][ch] = Append(wire[q][ch], "chunk")
    BY <1>2 DEF FlushCompressedChunks
  <2>2. wire[q][ch] \in Seq(Messages) /\ "chunk" \in Messages
    BY DEF TypeOK, Messages
  <2>3. Has(wire'[q][ch], "unload") <=> Has(wire[q][ch], "unload")
    BY <2>1, <2>2, AppendHas
  <2>4. ~Has(wire[q][ch], "chunk")
    BY <1>2, <1>a DEF PairFlight, Exclusive, Travels
  <2>5. \A i \in DOMAIN wire'[q][ch] : wire'[q][ch][i] = "chunk" => i = Len(wire'[q][ch])
    BY <2>1, <2>2, <2>4 DEF Has
  <2> QED
    BY <1>1, <1>a, <2>3, <2>5
<1>3. CASE ~(<<q, ch>> \in prepared /\ connected[q] /\ Known(q))
  <2>1. wire'[q][ch] = wire[q][ch]
    BY <1>3 DEF FlushCompressedChunks
  <2> QED
    BY <1>1, <1>a, <2>1
<1> QED
  BY <1>2, <1>3

LEMMA NextHolding == TypeOK /\ Lists /\ Flight /\ Holding /\ [Next]_vars => Holding'
<1> SUFFICES ASSUME TypeOK, Lists, Flight, Holding, [Next]_vars PROVE Holding'
  OBVIOUS
<1> USE DEF Holding, AllAccounted, AllPresent, Accounted, Present, AlreadySended
<1>1. ASSUME UNCHANGED <<connected, send_chunk_queue, confirmed_chunks, acks, wire, held>>
      PROVE  Holding'
  BY <1>1
<1>2. ASSUME NEW p \in Player, SendChunks(p) PROVE Holding'
  <2>1. PICK picked \in SUBSET Sendable(p) : SendChunksToClient(p, picked)
    BY <1>2 DEF SendChunks
  <2>2. /\ UNCHANGED <<connected, confirmed_chunks, acks, wire, held>>
        /\ \A q \in Player : send_chunk_queue[q] \subseteq send_chunk_queue'[q]
    BY <2>1 DEF SendChunksToClient, TypeOK
  <2> QED
    BY <2>2
<1> QED
  BY <1>1, <1>2, PlayerStepHolding, ClientStepHolding, FlushHolding
  DEF Next, ServerStep, Compress, UpdateWorldChunks, UpdateChunksState, LoadChunk

LEMMA HoldingHolds == Spec => []Holding
<1>1. Init => Holding
  BY DEF Init, Holding, AllAccounted, AllPresent, Accounted, Present, AlreadySended, Has
<1> QED
  BY <1>1, NextHolding, TypeCorrect, ListsHold, FlightHolds, PTL DEF Spec

\* The server accounts for every chunk a connected client holds: it is queued,
\* confirmed, or about to be unloaded.
THEOREM HeldAccountedHolds == Spec => []HeldAccounted
<1>1. TypeOK /\ Holding => HeldAccounted
  BY DEF Holding, AllAccounted, Accounted, HeldAccounted, Has, TypeOK
<1> QED
  BY <1>1, TypeCorrect, HoldingHolds, PTL

\* Confirmed chunks are present on the client, if messages about a chunk keep
\* their order.
THEOREM ConfirmedHeldHolds == Spec => []ConfirmedHeld
<1>1. TypeOK /\ Holding => ConfirmedHeld
  BY DEF Holding, AllPresent, Present, ConfirmedHeld, TypeOK
<1> QED
  BY <1>1, TypeCorrect, HoldingHolds, PTL

-----------------------------------------------------------------------------
(* What SettledPlayerServed rests on: until a player has been served there is *)
(* a step to take for it.  That these steps are taken at last is fairness,    *)
(* and stays with TLC.                                                        *)

\* A set of subsets of a finite set that is not empty has a smallest member.
LEMMA SmallestSubset ==
  ASSUME NEW S, IsFiniteSet(S), NEW C \in SUBSET (SUBSET S), C # {}
  PROVE  \E T \in C : \A U \in SUBSET T : U \in C => U = T
<1> DEFINE R == StrictSubsetOrdering(S)
<1>1. IsWellFoundedOn(R, SUBSET S)
  BY FS_StrictSubsetOrderingWellFounded, FS_FiniteSubsetsOfFinite
<1> HIDE DEF R
<1>2. PICK T \in C : \A U \in C : ~(<<U, T>> \in R)
  BY <1>1, WFMin
<1> QED
  BY <1>2 DEF R, StrictSubsetOrdering

\* One of finitely many things is the nearest.
LEMMA NearestExists ==
  ASSUME NEW S, IsFiniteSet(S), S # {}, NEW d, \A x \in S : d[x] \in Nat
  PROVE  \E x \in S : \A y \in S : d[x] <= d[y]
<1> DEFINE Within(y) == {x \in S : d[x] <= d[y]}
           C == {Within(y) : y \in S}
<1>1. C \in SUBSET (SUBSET S) /\ C # {}
  OBVIOUS
<1> HIDE DEF C
<1>2. PICK T \in C : \A U \in SUBSET T : U \in C => U = T
  BY <1>1, SmallestSubset
<1>3. PICK x \in S : T = Within(x)
  BY DEF C
<1>4. ASSUME NEW y \in S, ~(d[x] <= d[y]) PROVE FALSE
  <2>1. d[y] < d[x] /\ d[x] \in Nat /\ d[y] \in Nat
    BY <1>4
  <2>2. Within(y) \subseteq Within(x) /\ x \notin Within(y) /\ x \in Within(x)
    BY <2>1
  <2>3. Within(y) \in C
    BY DEF C
  <2> HIDE DEF Within
  <2> QED
    BY <1>2, <1>3, <2>2, <2>3
<1> QED
  BY <1>4

\* The spiral finds something to send if there is any and the queue has room: the
\* choice that send_chunks takes is never empty-handed.
LEMMA SpiralExists ==
  ASSUME TypeOK, NEW p \in Player, Sendable(p) # {},
         Cardinality(send_chunk_queue[p]) < QueueLimit
  PROVE  \E picked \in (SUBSET Sendable(p)) \ {{}} : SpiralPrefix(p, picked)
<1> DEFINE S == Sendable(p)
           d == Distance[position[p]]
           queued == Cardinality(send_chunk_queue[p])
           Fits(T) == /\ Cardinality(T) + queued <= QueueLimit
                      /\ \A near \in S \ T, far \in T : d[far] <= d[near]
           C == {S \ T : T \in {U \in SUBSET S : Fits(U)}}
<1>1. /\ IsFiniteSet(S) /\ \A ch \in S : d[ch] \in Nat
      /\ queued \in Nat /\ QueueLimit \in Nat
  <2>1. S \subseteq Chunk /\ send_chunk_queue[p] \subseteq Chunk /\ position[p] \in Chunk
    BY DEF Sendable, View, TypeOK
  <2> QED
    BY <2>1, FS_Subset, FS_CardinalityType, GeometryAssumption, DeliveryAssumption
<1> HIDE DEF S, d, queued
<1>2. C \in SUBSET (SUBSET S) /\ C # {}
  <2>1. Fits({})
    BY <1>1, FS_EmptySet DEF queued
  <2> QED
    BY <2>1
<1> HIDE DEF C
<1>3. PICK rest \in C : \A U \in SUBSET rest : U \in C => U = rest
  BY <1>1, <1>2, SmallestSubset
<1>4. PICK picked \in SUBSET S : Fits(picked) /\ rest = S \ picked
  BY DEF C
<1>5. IsFiniteSet(picked) /\ IsFiniteSet(rest) /\ Cardinality(picked) \in Nat
  BY <1>1, <1>4, FS_Subset, FS_CardinalityType
<1>6. picked = S \/ Cardinality(picked) + queued = QueueLimit
  <2> SUFFICES ASSUME rest # {}, Cardinality(picked) + queued # QueueLimit PROVE FALSE
    BY <1>4
  <2>1. PICK x \in rest : \A y \in rest : d[x] <= d[y]
    <3>1. \A y \in rest : d[y] \in Nat
      BY <1>1, <1>4
    <3> QED
      BY <1>5, <3>1, NearestExists
  <2> DEFINE more == picked \cup {x}
  <2>2. x \notin picked /\ more \in SUBSET S /\ S \ more = rest \ {x}
    BY <1>4, <2>1
  <2>3. Cardinality(more) = Cardinality(picked) + 1
    BY <1>5, <2>2, FS_AddElement
  <2>4. Cardinality(more) + queued <= QueueLimit
    <3>1. Cardinality(picked) + queued <= QueueLimit
      BY <1>4
    <3> QED
      BY <1>1, <1>5, <2>3, <3>1
  <2>5. \A near \in S \ more, far \in more : d[far] <= d[near]
    <3>1. \A near \in S \ picked, far \in picked : d[far] <= d[near]
      BY <1>4
    <3> QED
      BY <1>4, <2>1, <2>2, <3>1
  <2>6. rest \ {x} \in C
    BY <2>2, <2>4, <2>5 DEF C
  <2>7. rest \ {x} \in SUBSET rest /\ rest \ {x} # rest
    BY <2>1
  <2> HIDE DEF more, Fits
  <2> QED
    BY <1>3, <2>6, <2>7
<1>7. picked # {}
  BY <1>1, <1>6, FS_EmptySet DEF S, queued
<1>8. SpiralPrefix(p, picked)
  BY <1>4, <1>6 DEF SpiralPrefix, S, d, queued
<1>9. picked \in (SUBSET Sendable(p)) \ {{}}
  BY <1>4, <1>7 DEF S
<1> HIDE DEF Fits
<1> QED
  BY <1>8, <1>9

\* A column that the player watches is to be loaded: update_chunks_state or
\* load_chunk has something to do.
ToLoad(p) == \E ch \in by_entity[p] : Wanted(ch) \/ column[ch] = "loading"

\* A chunk is on its way: a task, flush_compressed_chunks, the client or its
\* acknowledgement has something to do.
UnderWay(p) == \E ch \in send_chunk_queue[p] : InFlight(p, ch)

\* send_chunks has something to do.
SendsSome(p) ==
  MaySend(p) /\ \E picked \in (SUBSET Sendable(p)) \ {{}} : SpiralPrefix(p, picked)

\* Nothing waits for what is not there: a connected player in the world has all that
\* SettledPlayerServed promises, or a column it watches is to be loaded, or a chunk
\* is on its way to it, or send_chunks sends it one.  The early exits of send_chunks
\* (chunks_sender.rs) do not keep a chunk back otherwise.
THEOREM DeliveryGoesOn ==
  Spec => [](\A p \in Player :
               phase[p] = "world" /\ connected[p] =>
                 \/ ToLoad(p)
                 \/ UnderWay(p)
                 \/ SendsSome(p)
                 \/ /\ send_chunk_queue[p] = {}
                    /\ Cardinality(Missing(p)) <= Cardinality(Stale(p)))
<1>1. ASSUME TypeOK, TicketsMatchView, Flight,
             NEW p \in Player, phase[p] = "world", connected[p],
             ~ToLoad(p), ~UnderWay(p), ~SendsSome(p)
      PROVE  /\ send_chunk_queue[p] = {}
             /\ Cardinality(Missing(p)) <= Cardinality(Stale(p))
  <2>1. send_chunk_queue[p] = {}
    BY <1>1 DEF Flight, PairFlight, UnderWay, TypeOK
  <2>2. \A ch \in by_entity[p] : column[ch] = "loaded"
    <3> SUFFICES ASSUME NEW ch \in by_entity[p] PROVE column[ch] = "loaded"
      OBVIOUS
    <3>1. ch \in Chunk /\ p \in by_chunk[ch] /\ column[ch] \in {"absent", "loading", "loaded"}
      BY <1>1 DEF TypeOK, TicketsTypeOK, TicketsMatchView, TicketsMirror
    <3> QED
      BY <1>1, <3>1 DEF ToLoad, Wanted
  <2>3. by_entity[p] = View(position[p])
    BY <1>1 DEF TicketsMatchView
  <2>4. Sendable(p) = Missing(p)
    BY <2>1, <2>2, <2>3 DEF Sendable, Missing, AlreadySended
  <2> DEFINE needed == by_entity[p]
             confirmed == confirmed_chunks[p]
             both == needed \cap confirmed
  <2>5. needed \subseteq Chunk /\ confirmed \subseteq Chunk
    BY <1>1 DEF TypeOK, TicketsTypeOK
  <2>6. IsFiniteSet(needed) /\ IsFiniteSet(confirmed)
    BY <2>5, FS_Subset, GeometryAssumption
  <2>7. /\ Cardinality(Missing(p)) = Cardinality(needed) - Cardinality(both)
        /\ Cardinality(Stale(p)) = Cardinality(confirmed) - Cardinality(confirmed \cap needed)
        /\ confirmed \cap needed = both
    BY <2>6, FS_Difference DEF Missing, Stale
  <2>8. /\ Cardinality(needed) \in Nat /\ Cardinality(confirmed) \in Nat
        /\ Cardinality(both) \in Nat /\ Cardinality(both) <= Cardinality(confirmed)
    BY <2>6, FS_Subset, FS_CardinalityType
  <2>9. Cardinality(send_chunk_queue[p]) = 0 /\ 0 < QueueLimit
    BY <2>1, FS_EmptySet, DeliveryAssumption
  <2>10. ASSUME ~(Cardinality(Missing(p)) <= Cardinality(Stale(p))) PROVE FALSE
    <3>4. /\ Cardinality(confirmed) < Cardinality(needed)
          /\ Cardinality(needed) # Cardinality(both)
      <4>1. Cardinality(Stale(p)) = Cardinality(confirmed) - Cardinality(both)
        BY <2>7
      <4> HIDE DEF needed, confirmed, both
      <4> QED
        BY <2>7, <2>8, <2>10, <4>1
    <3>1. Cardinality(confirmed) + Cardinality(send_chunk_queue[p]) < Cardinality(needed)
      BY <2>8, <2>9, <3>4
    <3>2. MaySend(p)
      BY <1>1, <2>9, <3>1 DEF MaySend
    <3>3. Sendable(p) # {}
      <4>1. Missing(p) # {}
        <5>1. Cardinality(Missing(p)) # 0
          <6> HIDE DEF needed, both
          <6> QED
            BY <2>7, <2>8, <3>4
        <5> QED
          BY <5>1, FS_EmptySet
      <4> QED
        BY <2>4, <4>1
    <3> QED
      BY <1>1, <2>9, <3>2, <3>3, SpiralExists DEF SendsSome
  <2> QED
    BY <2>1, <2>10
<1>2. TypeOK /\ TicketsMatchView /\ Flight =>
        \A p \in Player :
          phase[p] = "world" /\ connected[p] =>
            \/ ToLoad(p)
            \/ UnderWay(p)
            \/ SendsSome(p)
            \/ /\ send_chunk_queue[p] = {}
               /\ Cardinality(Missing(p)) <= Cardinality(Stale(p))
  BY <1>1
<1> QED
  BY <1>2, TypeCorrect, TicketsMatchViewHolds, FlightHolds, PTL
=============================================================================
