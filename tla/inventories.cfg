\* Two players, each with an apple, and one box; one item more is given.
SPECIFICATION Spec
CONSTANTS
  p1 = p1
  p2 = p2
  Player = {p1, p2}
  box = box
  Box = {box}
  chunk = chunk
  Chunk <- MCChunk
  ChunkOf <- MCChunkOf
  apple = apple
  helmet = helmet
  Kind <- MCKind
  hand = hand
  head = head
  Slot <- MCSlot
  ArmorSlot <- MCHead
  BodySlot <- MCHead
  GeneralSlot <- MCHand
  MaxStack <- MCMaxStack
  FitsSlot <- MCFitsSlot
  NoItem = NoItem
  Closed = Closed
  StoredSlots <- MCStored
  MaxItems = 1
VIEW InventoriesView
SYMMETRY PlayerSymmetry
INVARIANTS
  TypeOK
  WatchersAccounted
  RegisteredInMemory
  ChannelUnregistered
  ViewsCurrent
  StacksBounded
  SkinShowsArmor
  ItemsConserved
PROPERTIES
  ImplementsExchange
CHECK_DEADLOCK FALSE
