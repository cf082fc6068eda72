\* One player on a row of two chunks, seeing only its own chunk.
SPECIFICATION FairSpec
CONSTANTS
  p1 = p1
  Player = {p1}
  Length = 2
  Chunk <- MCChunk
  Distance <- MCDistance
  Radius = 0
  SpawnChunk = 1
  DespawnTimer = 1
  MaxEdits = 1
  MaxSaves = 1
INVARIANTS
  LoadingHasTask
  LoadedEntriesHaveData
  ExitSavesColumns
  EditsKept
PROPERTIES
  ImplementsColumns
  WatchedGetsLoaded
CHECK_DEADLOCK FALSE
