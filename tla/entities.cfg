\* Two players with two skins on a row of three chunks, seeing one chunk to
\* each side.
SPECIFICATION Spec
CONSTANTS
  p1 = p1
  p2 = p2
  Player = {p1, p2}
  Length = 3
  Chunk <- MCChunk
  Distance <- MCDistance
  Radius = 1
  SpawnChunk = 1
  s1 = s1
  s2 = s2
  Skin = {s1, s2}
  Unknown = Unknown
SYMMETRY StreamSymmetry
INVARIANTS
  TypeOK
  IndexMatchesPositions
  SkinsCurrent
  AnnouncedSeen
PROPERTIES
  ImplementsPresence
CHECK_DEADLOCK FALSE
