\* A player that spawns in a chunk that is not loaded.
SPECIFICATION FairSpec
CONSTANTS
  p1 = p1
  Player = {p1}
  Length = 1
  Chunk <- MCChunk
  Distance <- MCDistance
  Radius = 0
  SpawnChunk = 1
  DespawnTimer = 2
  MaxEdits = 0
  MaxSaves = 1
PROPERTIES
  SpawnAnnounced
CHECK_DEADLOCK FALSE
