\* A chunk that send_chunks owes to a settled player.
SPECIFICATION FairSpec
CONSTANTS
  p1 = p1
  Player = {p1}
  Length = 3
  Chunk <- MCChunk
  Distance <- MCDistance
  Radius = 1
  SpawnChunk = 1
  QueueLimit = 2
  OneOrder = TRUE
PROPERTIES
  OwedIsSent
CHECK_DEADLOCK FALSE
