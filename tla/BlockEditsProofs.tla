-------------------------- MODULE BlockEditsProofs --------------------------
(***************************************************************************)
(* Theorems about BlockEdits: it implements ChunkDelivery, whose theorems  *)
(* it inherits, and the clients' copies show the edits of the chunks, for  *)
(* any number of players, chunks and edits.                                *)
(***************************************************************************)
EXTENDS BlockEdits, ChunkDeliveryProofs

USE DEF delivery, tickets, vars, data, allVars, Known

-----------------------------------------------------------------------------
(* Every step is a step of ChunkDelivery or leaves its variables alone.    *)

LEMMA NextEditsRefines == [NextEdits]_allVars => [Next]_vars
<1> SUFFICES ASSUME [NextEdits]_allVars PROVE [Next]_vars
  OBVIOUS
<1>1. ASSUME NEW p \in Player, EditsPlayerStep(p) PROVE PlayerStep(p)
  BY <1>1 DEF EditsPlayerStep, PlayerStep
<1>2. ASSUME NEW despawned \in SUBSET Despawnable, UpdateChunksState(despawned)
      PROVE  UpdateWorldChunks
  BY <1>2 DEF UpdateWorldChunks
<1>3. ASSUME NEW ch \in Chunk, EditBlock(ch) PROVE UNCHANGED vars
  BY <1>3 DEF EditBlock
<1>4. ASSUME NEW p \in Player, SendChunks(p) \/ \E ch \in Chunk : Compress(p, ch)
      PROVE  ServerStep(p)
  BY <1>4 DEF ServerStep
<1> QED
  BY <1>1, <1>2, <1>3, <1>4 DEF NextEdits, Next

\* What the server does with chunks does not depend on the edits: a behaviour
\* of BlockEdits is one of ChunkDelivery.
THEOREM EditsImplementDelivery == SpecEdits => Spec
<1>1. InitEdits => Init
  BY DEF InitEdits
<1> QED
  BY <1>1, NextEditsRefines, PTL DEF SpecEdits, Spec

-----------------------------------------------------------------------------
(* The type invariant.                                                     *)

DataTypeOK ==
  /\ edits \in [Chunk -> Nat]
  /\ total \in Nat
  /\ snapshot \in [Player -> [Chunk -> Nat \cup {None}]]
  /\ copy \in [Player -> [Chunk -> Nat \cup {None}]]
  /\ missed \in SUBSET Pipeline

LEMMA NextDataTypeOK == TypeOK /\ DataTypeOK /\ [NextEdits]_allVars => DataTypeOK'
<1> SUFFICES ASSUME TypeOK, DataTypeOK, [NextEdits]_allVars PROVE DataTypeOK'
  OBVIOUS
<1> USE DEF DataTypeOK
<1>1. ASSUME NEW ch \in Chunk, EditBlock(ch) PROVE DataTypeOK'
  <2>1. missed' \in SUBSET Pipeline
    BY <1>1 DEF EditBlock, Frozen, Unreached, Pipeline
  <2> QED
    BY <1>1, <2>1 DEF EditBlock
<1>2. ASSUME NEW p \in Player, NEW to \in Chunk, UnloadCopies(p, to) PROVE DataTypeOK'
  BY <1>2 DEF UnloadCopies
<1>3. ASSUME NEW p \in Player, DropCopies(p) PROVE DataTypeOK'
  BY <1>3 DEF DropCopies
<1>4. ASSUME NEW despawned \in SUBSET Despawnable, FreezeColumns(despawned) PROVE DataTypeOK'
  BY <1>4 DEF FreezeColumns
<1>5. ASSUME NEW p \in Player, NEW ch \in Chunk, TakeSnapshot(p, ch) PROVE DataTypeOK'
  BY <1>5 DEF TakeSnapshot
<1>6. CASE SendSnapshots
  BY <1>6 DEF SendSnapshots
<1>7. CASE UNCHANGED data
  BY <1>7
<1> QED
  BY <1>1, <1>2, <1>3, <1>4, <1>5, <1>6, <1>7 DEF NextEdits, EditsPlayerStep

\* Every variable always has its type.
THEOREM EditsTypeCorrect == SpecEdits => []EditsTypeOK
<1>1. InitEdits => DataTypeOK
  BY DEF InitEdits, DataTypeOK
<1>2. TypeOK /\ DataTypeOK <=> EditsTypeOK
  BY DEF DataTypeOK, EditsTypeOK
<1> QED
  BY <1>1, <1>2, NextDataTypeOK, EditsImplementDelivery, TypeCorrect, PTL DEF SpecEdits

-----------------------------------------------------------------------------
(* What the copies show.                                                   *)

\* A client without connection has no copies; a snapshot belongs to a chunk
\* that is being compressed or waits in the channel; snapshots and copies are
\* those of the last edit or are known to have missed it.
Current(p, ch) ==
  /\ ~connected[p] => copy[p][ch] = None
  /\ <<p, ch>> \in prepared => snapshot[p][ch] # None
  /\ snapshot[p][ch] # None => <<p, ch>> \in compressing \cup prepared
  /\ connected[p] => snapshot[p][ch] \in {None, edits[ch]} \/ <<p, ch>> \in missed
  /\ copy[p][ch] \in {None, edits[ch]} \/ <<p, ch>> \in missed

AllCurrent == \A p \in Player, ch \in Chunk : Current(p, ch)

LEMMA EditCurrent ==
  ASSUME TypeOK, DataTypeOK, AllCurrent, NEW ch \in Chunk, EditBlock(ch)
  PROVE  AllCurrent'
<1> SUFFICES ASSUME NEW q \in Player, NEW c \in Chunk PROVE Current(q, c)'
  BY DEF AllCurrent
<1>1. Current(q, c)
  BY DEF AllCurrent
<1>2. UNCHANGED <<connected, compressing, prepared, snapshot>>
  BY DEF EditBlock
<1>3. /\ edits'[c] = IF c = ch THEN total + 1 ELSE edits[c]
      /\ copy'[q][c] = IF c = ch /\ q \in Recipients(ch) /\ copy[q][c] # None
                       THEN total + 1 ELSE copy[q][c]
  BY DEF EditBlock, DataTypeOK
<1>4. CASE c = ch
  <2>1. snapshot[q][c] # None => <<q, c>> \in missed'
    BY <1>4 DEF EditBlock, Frozen
  <2>2. copy[q][c] # None /\ q \notin by_chunk[c] => <<q, c>> \in missed'
    BY <1>4 DEF EditBlock, Unreached
  <2>3. total + 1 # None
    BY EditsAssumption DEF DataTypeOK
  <2> QED
    BY <1>1, <1>2, <1>3, <1>4, <2>1, <2>2, <2>3 DEF Current, Recipients
<1>5. CASE c # ch
  <2>1. <<q, c>> \in missed => <<q, c>> \in missed'
    BY DEF EditBlock
  <2> QED
    BY <1>1, <1>2, <1>3, <1>5, <2>1 DEF Current
<1> QED
  BY <1>4, <1>5

LEMMA PlayerStepCurrent ==
  ASSUME TypeOK, DataTypeOK, Lists, Flight, AllCurrent,
         NEW p \in Player, EditsPlayerStep(p)
  PROVE  AllCurrent'
<1> SUFFICES ASSUME NEW q \in Player, NEW c \in Chunk PROVE Current(q, c)'
  BY DEF AllCurrent
<1>a. Current(q, c) /\ PairFlight(q, c)
  BY DEF AllCurrent, Flight
<1>1. CASE SpawnPlayer(p) /\ UNCHANGED data
  BY <1>a, <1>1 DEF SpawnPlayer, Current
<1>2. ASSUME NEW to \in Chunk, MovePlayer(p, to), UnloadCopies(p, to) PROVE Current(q, c)'
  <2> DEFINE unload == AbandonedChunks(p, to) \cap confirmed_chunks[p]
  <2>1. UNCHANGED <<connected, compressing, prepared, edits, snapshot>>
    BY <1>2 DEF MovePlayer, SendChunksToUnload, UnloadCopies
  <2>2. CASE q = p /\ c \in unload
    <3>1. c \notin send_chunk_queue[q]
      BY <2>2 DEF Lists, QueueConfirmedDisjoint
    <3>2. connected[q] => snapshot[q][c] = None
      BY <1>a, <3>1 DEF Current, PairFlight, InFlight
    <3>3. copy'[q][c] = None
      BY <1>2, <2>2 DEF UnloadCopies, DataTypeOK
    <3> QED
      BY <1>a, <2>1, <3>2, <3>3 DEF Current
  <2>3. CASE ~(q = p /\ c \in unload)
    <3>1. /\ copy'[q][c] = copy[q][c]
          /\ <<q, c>> \in missed' <=> <<q, c>> \in missed
      BY <1>2, <2>3 DEF UnloadCopies, DataTypeOK
    <3> QED
      BY <1>a, <2>1, <3>1 DEF Current
  <2> QED
    BY <2>2, <2>3
<1>3. CASE LoseConnection(p) /\ DropCopies(p)
  <2>1. UNCHANGED <<compressing, prepared, edits, snapshot>>
    BY <1>3 DEF LoseConnection, DropCopies
  <2>2. CASE q = p
    <3>1. copy'[q][c] = None /\ connected'[q] = FALSE
      BY <1>3, <2>2 DEF LoseConnection, DropCopies, TypeOK, DataTypeOK
    <3> QED
      BY <1>a, <2>1, <3>1 DEF Current
  <2>3. CASE q # p
    <3>1. /\ copy'[q][c] = copy[q][c] /\ connected'[q] = connected[q]
          /\ <<q, c>> \in missed' <=> <<q, c>> \in missed
      BY <1>3, <2>3 DEF LoseConnection, DropCopies, TypeOK, DataTypeOK
    <3> QED
      BY <1>a, <2>1, <3>1 DEF Current
  <2> QED
    BY <2>2, <2>3
<1>4. CASE OnDisconnect(p) /\ UNCHANGED data
  BY <1>a, <1>4 DEF OnDisconnect, Current
<1> QED
  BY <1>1, <1>2, <1>3, <1>4 DEF EditsPlayerStep, OnPlayerMove, Teleport

LEMMA CompressCurrent ==
  ASSUME TypeOK, DataTypeOK, AllCurrent, NEW p \in Player, NEW ch \in Chunk,
         Compress(p, ch), TakeSnapshot(p, ch)
  PROVE  AllCurrent'
<1> SUFFICES ASSUME NEW q \in Player, NEW c \in Chunk PROVE Current(q, c)'
  BY DEF AllCurrent
<1>1. Current(q, c)
  BY DEF AllCurrent
<1>2. UNCHANGED <<connected, edits, copy, missed>>
  BY DEF Compress, TakeSnapshot
<1>3. CASE <<q, c>> = <<p, ch>>
  <2>1. snapshot'[q][c] = IF snapshot[q][c] = None THEN edits[c] ELSE snapshot[q][c]
    BY <1>3 DEF TakeSnapshot, DataTypeOK
  <2>2. edits[c] # None
    BY EditsAssumption DEF DataTypeOK
  <2>3. <<q, c>> \in prepared'
    BY <1>3 DEF Compress
  <2> QED
    BY <1>1, <1>2, <2>1, <2>2, <2>3 DEF Current
<1>4. CASE <<q, c>> # <<p, ch>>
  <2>1. snapshot'[q][c] = snapshot[q][c]
    BY <1>4 DEF TakeSnapshot, DataTypeOK
  <2>2. /\ <<q, c>> \in prepared' <=> <<q, c>> \in prepared
        /\ <<q, c>> \in compressing' <=> <<q, c>> \in compressing
    BY <1>4 DEF Compress
  <2> QED
    BY <1>1, <1>2, <2>1, <2>2 DEF Current
<1> QED
  BY <1>3, <1>4

LEMMA FreezeCurrent ==
  ASSUME DataTypeOK, AllCurrent, NEW despawned,
         UpdateChunksState(despawned), FreezeColumns(despawned)
  PROVE  AllCurrent'
<1> SUFFICES ASSUME NEW q \in Player, NEW c \in Chunk PROVE Current(q, c)'
  BY DEF AllCurrent
<1>1. Current(q, c)
  BY DEF AllCurrent
<1>2. UNCHANGED <<connected, compressing, prepared, edits, copy, missed>>
  BY DEF UpdateChunksState, FreezeColumns
<1>3. \/ snapshot'[q][c] = snapshot[q][c]
      \/ /\ snapshot'[q][c] = edits[c] /\ snapshot[q][c] = None
         /\ <<q, c>> \in compressing
  BY DEF FreezeColumns
<1>4. edits[c] # None
  BY EditsAssumption DEF DataTypeOK
<1> QED
  BY <1>1, <1>2, <1>3, <1>4 DEF Current

LEMMA FlushCurrent ==
  ASSUME DataTypeOK, Flight, AllCurrent, FlushCompressedChunks, SendSnapshots
  PROVE  AllCurrent'
<1> SUFFICES ASSUME NEW q \in Player, NEW c \in Chunk PROVE Current(q, c)'
  BY DEF AllCurrent
<1>1. Current(q, c) /\ PairFlight(q, c)
  BY DEF AllCurrent, Flight
<1>2. UNCHANGED <<connected, compressing, edits, missed>> /\ prepared' = {}
  BY DEF FlushCompressedChunks, SendSnapshots
<1>3. /\ copy'[q][c] = IF <<q, c>> \in prepared /\ Known(q) /\ connected[q]
                       THEN snapshot[q][c] ELSE copy[q][c]
      /\ snapshot'[q][c] = IF <<q, c>> \in prepared THEN None ELSE snapshot[q][c]
  BY DEF SendSnapshots
<1> QED
  BY <1>1, <1>2, <1>3 DEF Current

LEMMA NextCurrent ==
  TypeOK /\ DataTypeOK /\ Lists /\ Flight /\ AllCurrent /\ [NextEdits]_allVars => AllCurrent'
<1> SUFFICES ASSUME TypeOK, DataTypeOK, Lists, Flight, AllCurrent, [NextEdits]_allVars
             PROVE  AllCurrent'
  OBVIOUS
<1>1. ASSUME UNCHANGED <<connected, compressing, prepared, data>> PROVE AllCurrent'
  BY <1>1 DEF AllCurrent, Current
<1>2. ASSUME NEW p \in Player, SendChunks(p), UNCHANGED data PROVE AllCurrent'
  <2>1. UNCHANGED <<connected, prepared>> /\ compressing \subseteq compressing'
    BY <1>2 DEF SendChunks, SendChunksToClient
  <2> QED
    BY <1>2, <2>1 DEF AllCurrent, Current
<1>3. ASSUME NEW p \in Player, ClientStep(p) PROVE UNCHANGED <<connected, compressing, prepared>>
  BY <1>3 DEF ClientStep, ClientReceives, ChunkRecieved
<1>4. ASSUME NEW ch \in Chunk, LoadChunk(ch) PROVE UNCHANGED <<connected, compressing, prepared>>
  BY <1>4 DEF LoadChunk
<1> QED
  BY <1>1, <1>2, <1>3, <1>4, EditCurrent, PlayerStepCurrent, CompressCurrent, FreezeCurrent,
     FlushCurrent
  DEF NextEdits

LEMMA CurrentHolds == SpecEdits => []AllCurrent
<1>1. InitEdits => AllCurrent
  BY DEF InitEdits, Init, AllCurrent, Current
<1>2. EditsTypeOK => TypeOK /\ DataTypeOK
  BY DEF EditsTypeOK, DataTypeOK
<1> QED
  BY <1>1, <1>2, NextCurrent, EditsTypeCorrect, EditsImplementDelivery, ListsHold, FlightHolds,
     PTL DEF SpecEdits

\* A copy shows the last edit of its chunk, unless the edit came while the
\* snapshot waited to be sent or the client did not watch the chunk.
THEOREM CopiesCurrentHolds == SpecEdits => []CopiesCurrent
<1>1. AllCurrent => CopiesCurrent
  BY DEF AllCurrent, Current, CopiesCurrent
<1> QED
  BY <1>1, CurrentHolds, PTL

-----------------------------------------------------------------------------
(* The copies arrive.                                                      *)

\* What the client holds of ch once the messages under way have arrived.
Arrives(p, ch) ==
  IF wire[p][ch] = <<>> THEN ch \in held[p] ELSE Last(wire[p][ch]) = "chunk"

PairArrives(p, ch) == connected[p] => (copy[p][ch] # None <=> Arrives(p, ch))

\* A message posted is the last one.
LEMMA AppendLast ==
  ASSUME NEW s \in Seq(Messages), NEW m \in Messages
  PROVE  Append(s, m) # <<>> /\ Last(Append(s, m)) = m
  BY DEF Last

\* Taking the first message leaves none or the same last one.
LEMMA FirstReceived ==
  ASSUME NEW s \in Seq(Messages), s # <<>>
  PROVE  /\ RemoveAt(s, 1) = <<>> <=> Len(s) = 1
         /\ RemoveAt(s, 1) # <<>> => Last(RemoveAt(s, 1)) = Last(s)
<1>1. Len(s) \in Nat /\ Len(s) >= 1 /\ 1 \in DOMAIN s /\ 1 \in 1..Len(s)
  BY EmptySeq
<1>2. PICK r : r = RemoveAt(s, 1)
  OBVIOUS
<1>3. r \in Seq(Messages)
  BY <1>1, <1>2, RemoveAtType
<1>4. /\ Len(r) = Len(s) - 1
      /\ \A j \in DOMAIN r : r[j] = IF j < 1 THEN s[j] ELSE s[j + 1]
  BY <1>1, <1>2, RemoveHas
<1>5. r = <<>> <=> Len(s) = 1
  BY <1>1, <1>3, <1>4, EmptySeq
<1>6. ASSUME r # <<>> PROVE Last(r) = Last(s)
  <2>1. Len(r) \in DOMAIN r /\ Len(r) >= 1 /\ Len(r) + 1 = Len(s)
    BY <1>1, <1>3, <1>4, <1>5, <1>6
  <2> QED
    BY <1>4, <2>1 DEF Last
<1> QED
  BY <1>2, <1>5, <1>6

LEMMA PlayerStepArrives ==
  ASSUME TypeOK, DataTypeOK, Flight, NEW p \in Player, EditsPlayerStep(p),
         NEW q \in Player, NEW ch \in Chunk, PairArrives(q, ch)
  PROVE  PairArrives(q, ch)'
<1> USE DEF PairArrives, Arrives
<1>1. CASE SpawnPlayer(p) /\ UNCHANGED data
  BY <1>1 DEF SpawnPlayer
<1>2. ASSUME NEW to \in Chunk, MovePlayer(p, to), UnloadCopies(p, to)
      PROVE  PairArrives(q, ch)'
  <2> DEFINE gone == q = p /\ ch \in AbandonedChunks(p, to) \cap confirmed_chunks[p]
  <2>1. UNCHANGED <<connected, held>>
    BY <1>2 DEF MovePlayer, SendChunksToUnload
  <2>2. wire'[q][ch] = IF gone /\ connected[q] THEN Append(wire[q][ch], "unload")
                       ELSE wire[q][ch]
    BY <1>2, PostFlight DEF MovePlayer, SendChunksToUnload, Flight
  <2>3. copy'[q][ch] = IF gone THEN None ELSE copy[q][ch]
    BY <1>2 DEF UnloadCopies, DataTypeOK
  <2>4. CASE gone /\ connected[q]
    <3>1. wire[q][ch] \in Seq(Messages) /\ "unload" \in Messages
      BY DEF TypeOK, Messages
    <3>2. wire'[q][ch] # <<>> /\ Last(wire'[q][ch]) = "unload"
      BY <2>2, <2>4, <3>1, AppendLast
    <3> QED
      BY <2>3, <2>4, <3>2
  <2> QED
    BY <2>1, <2>2, <2>3, <2>4
<1>3. CASE LoseConnection(p) /\ DropCopies(p)
  <2>1. CASE q = p
    BY <1>3, <2>1 DEF LoseConnection, TypeOK
  <2>2. CASE q # p
    BY <1>3, <2>2 DEF LoseConnection, DropCopies, TypeOK, DataTypeOK
  <2> QED
    BY <2>1, <2>2
<1>4. CASE OnDisconnect(p) /\ UNCHANGED data
  <2>1. CASE q = p
    BY <1>4, <2>1 DEF OnDisconnect
  <2>2. CASE q # p
    BY <1>4, <2>2 DEF OnDisconnect, TypeOK
  <2> QED
    BY <2>1, <2>2
<1> QED
  BY <1>1, <1>2, <1>3, <1>4 DEF EditsPlayerStep, OnPlayerMove, Teleport

LEMMA ClientStepArrives ==
  ASSUME TypeOK, OneOrder, NEW p \in Player, ClientStep(p), UNCHANGED data,
         NEW q \in Player, NEW ch \in Chunk, PairArrives(q, ch)
  PROVE  PairArrives(q, ch)'
<1> USE DEF PairArrives, Arrives
<1>1. ASSUME NEW c \in Chunk, NEW i \in DOMAIN wire[p][c], ClientReceives(p, c, i)
      PROVE  PairArrives(q, ch)'
  <2>1. /\ wire' = [wire EXCEPT ![p][c] = RemoveAt(wire[p][c], 1)]
        /\ i = 1 /\ UNCHANGED connected
    BY <1>1 DEF ClientReceives
  <2>2. CASE <<q, ch>> = <<p, c>>
    <3> DEFINE s == wire[p][c]
               r == RemoveAt(s, 1)
    <3>1. s \in Seq(Messages) /\ 1 \in DOMAIN s /\ s[1] \in Messages /\ s # <<>>
      BY <2>1 DEF TypeOK
    <3>2. wire'[q][ch] = r /\ wire[q][ch] = s /\ q = p /\ ch = c
      BY <2>1, <2>2 DEF TypeOK
    <3>3. (r = <<>> <=> Len(s) = 1) /\ (r # <<>> => Last(r) = Last(s))
      BY <3>1, FirstReceived
    <3>4. CASE r = <<>>
      <4>1. Last(s) = s[1]
        BY <3>3, <3>4 DEF Last
      <4>2. CASE s[1] = "chunk"
        <5>1. held' = [held EXCEPT ![p] = @ \cup {c}]
          BY <1>1, <2>1, <4>2 DEF ClientReceives
        <5>2. ch \in held'[q]
          BY <3>2, <5>1 DEF TypeOK
        <5> QED
          BY <2>1, <3>1, <3>2, <3>4, <4>1, <4>2, <5>2
      <4>3. CASE s[1] # "chunk"
        <5>1. held' = [held EXCEPT ![p] = @ \ {c}]
          BY <1>1, <2>1, <4>3 DEF ClientReceives
        <5>2. ch \notin held'[q]
          BY <3>2, <5>1 DEF TypeOK
        <5> QED
          BY <2>1, <3>1, <3>2, <3>4, <4>1, <4>3, <5>2
      <4> QED
        BY <4>2, <4>3
    <3>5. CASE r # <<>>
      <4>1. wire[q][ch] # <<>> /\ wire'[q][ch] # <<>> /\ Last(wire'[q][ch]) = Last(wire[q][ch])
        BY <3>1, <3>2, <3>3, <3>5
      <4> QED
        BY <2>1, <4>1
    <3> QED
      BY <3>4, <3>5
  <2>3. CASE <<q, ch>> # <<p, c>>
    <3>1. wire'[q][ch] = wire[q][ch]
      BY <2>1, <2>3 DEF TypeOK
    <3>2. \/ held' = [held EXCEPT ![p] = held[p] \cup {c}]
          \/ held' = [held EXCEPT ![p] = held[p] \ {c}]
      BY <1>1, Zenon DEF ClientReceives
    <3>3. ch \in held'[q] <=> ch \in held[q]
      BY <2>3, <3>2 DEF TypeOK
    <3> QED
      BY <2>1, <3>1, <3>3
  <2> QED
    BY <2>2, <2>3
<1>2. ASSUME NEW chunks \in SUBSET acks[p], ChunkRecieved(p, chunks)
      PROVE  PairArrives(q, ch)'
  BY <1>2 DEF ChunkRecieved
<1> QED
  BY <1>1, <1>2 DEF ClientStep

LEMMA FlushArrives ==
  ASSUME TypeOK, AllCurrent, FlushCompressedChunks, SendSnapshots,
         NEW q \in Player, NEW ch \in Chunk, PairArrives(q, ch)
  PROVE  PairArrives(q, ch)'
<1> USE DEF PairArrives, Arrives
<1>1. UNCHANGED <<connected, held>>
  BY DEF FlushCompressedChunks
<1>2. CASE <<q, ch>> \in prepared /\ Known(q) /\ connected[q]
  <2>1. wire[q][ch] \in Seq(Messages) /\ "chunk" \in Messages
    BY DEF TypeOK, Messages
  <2>2. wire'[q][ch] # <<>> /\ Last(wire'[q][ch]) = "chunk"
    BY <1>2, <2>1, AppendLast DEF FlushCompressedChunks
  <2>3. copy'[q][ch] # None
    BY <1>2 DEF SendSnapshots, AllCurrent, Current
  <2> QED
    BY <2>2, <2>3
<1>3. CASE ~(<<q, ch>> \in prepared /\ Known(q) /\ connected[q])
  <2>1. wire'[q][ch] = wire[q][ch] /\ copy'[q][ch] = copy[q][ch]
    BY <1>3 DEF FlushCompressedChunks, SendSnapshots
  <2> QED
    BY <1>1, <2>1
<1> QED
  BY <1>2, <1>3

LEMMA EditArrives ==
  ASSUME DataTypeOK, NEW c \in Chunk, EditBlock(c),
         NEW q \in Player, NEW ch \in Chunk, PairArrives(q, ch)
  PROVE  PairArrives(q, ch)'
<1>1. copy'[q][ch] = IF ch = c /\ q \in Recipients(c) /\ copy[q][ch] # None
                     THEN total + 1 ELSE copy[q][ch]
  BY DEF EditBlock, DataTypeOK
<1>2. total + 1 # None
  BY EditsAssumption DEF DataTypeOK
<1>3. UNCHANGED <<connected, wire, held>>
  BY DEF EditBlock
<1> QED
  BY <1>1, <1>2, <1>3 DEF PairArrives, Arrives

LEMMA NextArrives ==
  EditsTypeOK /\ Flight /\ AllCurrent /\ CopiesArrive /\ [NextEdits]_allVars => CopiesArrive'
<1> SUFFICES ASSUME TypeOK, DataTypeOK, Flight, AllCurrent, [NextEdits]_allVars, OneOrder,
                    NEW q \in Player, NEW ch \in Chunk, PairArrives(q, ch)
             PROVE  PairArrives(q, ch)'
  BY DEF CopiesArrive, PairArrives, Arrives, EditsTypeOK, DataTypeOK
<1>1. ASSUME UNCHANGED <<connected, wire, held, copy>> PROVE PairArrives(q, ch)'
  BY <1>1 DEF PairArrives, Arrives
<1> QED
  BY <1>1, PlayerStepArrives, ClientStepArrives, FlushArrives, EditArrives
  DEF NextEdits, SendChunks, SendChunksToClient, Compress, TakeSnapshot, UpdateChunksState,
      FreezeColumns, LoadChunk

\* The client ends with the copy that was decided when the messages were sent.
THEOREM CopiesArriveHolds == SpecEdits => []CopiesArrive
<1>1. InitEdits => CopiesArrive
  BY DEF InitEdits, Init, CopiesArrive
<1> QED
  BY <1>1, NextArrives, EditsTypeCorrect, CurrentHolds, EditsImplementDelivery, FlightHolds,
     PTL DEF SpecEdits

-----------------------------------------------------------------------------
(* What is inherited.                                                      *)

\* Edits and the copies of the clients disturb nothing that delivery promises: the
\* tickets, the lists of each client, what travels and what the clients hold are as
\* in ChunkDelivery, also while plugins edit the chunks (edit_world_block_raw).
THEOREM EditsKeepDelivery ==
  SpecEdits =>
    /\ [](/\ TicketsMatchView /\ QueueConfirmedDisjoint /\ QueueWithinLimit
          /\ QueuedOnceInFlight /\ ConfirmedHeld /\ HeldAccounted)
    /\ ImplementsTransfer
    /\ ImplementsColumns
<1>1. SpecEdits => Spec
  BY EditsImplementDelivery
<1> QED
  BY <1>1, TicketsMatchViewHolds, QueueConfirmedDisjointHolds, QueueWithinLimitHolds,
     QueuedOnceInFlightHolds, ConfirmedHeldHolds, HeldAccountedHolds,
     DeliveryImplementsTransfer, DeliveryImplementsColumns, PTL
=============================================================================
