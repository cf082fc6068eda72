\* The server stops while a chunk is loading.
SPECIFICATION Spec
CONSTANTS
  p1 = p1
  Player = {p1}
  Length = 1
  Chunk <- MCChunk
  Distance <- MCDistance
  Radius = 0
  SpawnChunk = 1
  DespawnTimer = 2
  MaxEdits = 1
  MaxSaves = 1
INVARIANTS
  SaveFindsData
CHECK_DEADLOCK FALSE
