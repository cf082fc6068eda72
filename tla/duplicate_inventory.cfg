\* One player, one box, no items.
SPECIFICATION Spec
CONSTANTS
  p1 = p1
  Player = {p1}
  box = box
  Box = {box}
  chunk = chunk
  Chunk <- MCChunk
  ChunkOf <- MCChunkOf
  apple = apple
  helmet = helmet
  Kind <- MCKind
  hand = hand
  head = head
  Slot <- MCSlot
  ArmorSlot <- MCHead
  BodySlot <- MCHead
  GeneralSlot <- MCHand
  MaxStack <- MCMaxStack
  FitsSlot <- MCFitsSlot
  NoItem = NoItem
  Closed = Closed
  StoredSlots <- MCEmpty
  MaxItems = 0
INVARIANTS
  NoDuplicateInventory
CHECK_DEADLOCK FALSE
