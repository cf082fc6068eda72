---------------------------- MODULE TicketLemmas ----------------------------
(***************************************************************************)
(* Facts about ChunksLoadState and about the removal of an element from a  *)
(* sequence, for the proofs about the modules that use them.               *)
(***************************************************************************)
EXTENDS ChunksLoadState, Sequences, SequencesExt, SequenceTheorems, TLAPS

\* Removing an element leaves a sequence over the same set.
LEMMA RemoveAtType ==
  ASSUME NEW S, NEW s \in Seq(S), NEW i \in 1..Len(s)
  PROVE  RemoveAt(s, i) \in Seq(S)
<1>1. SubSeq(s, 1, i - 1) \in Seq(S)
  BY SubSeqProperties
<1>2. SubSeq(s, i + 1, Len(s)) \in Seq(S)
  BY SubSeqProperties
<1> QED
  BY <1>1, <1>2, ConcatProperties DEF RemoveAt

\* Removing the only element leaves the empty sequence.
LEMMA RemoveOnly ==
  ASSUME NEW S, NEW e \in S, NEW i \in DOMAIN <<e>>
  PROVE  RemoveAt(<<e>>, i) = <<>>
<1>1. i = 1 /\ Len(<<e>>) = 1 /\ <<e>> \in Seq(S)
  OBVIOUS
<1>2. SubSeq(<<e>>, 1, 0) = <<>> /\ SubSeq(<<e>>, 2, 1) = <<>>
  BY <1>1, SubSeqProperties, EmptySeq
<1> QED
  BY <1>1, <1>2 DEF RemoveAt

\* Changing the tickets of a player keeps their types.
LEMMA TicketsTyped ==
  ASSUME TicketsTypeOK, NEW p \in Player, NEW added \in SUBSET Chunk, NEW removed,
         ChangeTickets(p, added, removed)
  PROVE  TicketsTypeOK'
  BY DEF TicketsTypeOK, ChangeTickets

\* A view consists of chunks.
LEMMA ViewChunks == \A at : View(at) \subseteq Chunk
  BY DEF View

\* Each operation on the tickets keeps their types.
LEMMA OperationsTyped ==
  ASSUME TicketsTypeOK, NEW p \in Player, NEW to,
         StartChunksRender(p, to) \/ UpdateChunksRender(p, to) \/ StopChunksRender(p)
  PROVE  TicketsTypeOK'
<1>1. CASE StartChunksRender(p, to)
  BY <1>1, TicketsTyped, ViewChunks DEF StartChunksRender
<1>2. CASE UpdateChunksRender(p, to)
  <2>1. NewChunks(p, to) \in SUBSET Chunk
    BY ViewChunks DEF NewChunks
  <2> QED
    BY <1>2, <2>1, TicketsTyped DEF UpdateChunksRender
<1>3. CASE StopChunksRender(p)
  BY <1>3 DEF StopChunksRender, TicketsTypeOK
<1> QED
  BY <1>1, <1>2, <1>3

\* A change of tickets keeps the two maps in agreement, and the player ends
\* with the tickets it had, those added and none of those removed.
LEMMA TicketsChanged ==
  ASSUME TicketsTypeOK, TicketsMirror, NEW p \in Player, NEW added, NEW removed,
         added \cap removed = {}, added \subseteq Chunk, removed \subseteq Chunk,
         ChangeTickets(p, added, removed)
  PROVE  /\ TicketsMirror'
         /\ by_entity' = [by_entity EXCEPT ![p] = (@ \cup added) \ removed]
<1>1. by_entity' = [by_entity EXCEPT ![p] = (@ \cup added) \ removed]
  BY DEF ChangeTickets
<1>2. ASSUME NEW q \in Player, NEW ch \in Chunk
      PROVE  q \in by_chunk'[ch] <=> ch \in by_entity'[q]
  <2>1. q \in by_chunk[ch] <=> ch \in by_entity[q]
    BY DEF TicketsMirror
  <2>2. CASE q = p
    BY <2>1, <2>2 DEF ChangeTickets, TicketsTypeOK
  <2>3. CASE q # p
    BY <2>1, <2>3 DEF ChangeTickets, TicketsTypeOK
  <2> QED
    BY <2>2, <2>3
<1> QED
  BY <1>1, <1>2 DEF TicketsMirror
=============================================================================
