\* One player on a row of three chunks, seeing one chunk to each side, and an
\* edit of any of the chunks at any moment.
SPECIFICATION FairSpecEdits
CONSTANTS
  p1 = p1
  Player = {p1}
  Length = 3
  Chunk <- MCChunk
  Distance <- MCDistance
  Radius = 1
  SpawnChunk = 1
  QueueLimit = 2
  OneOrder = TRUE
  MaxEdits = 1
  None = None
INVARIANTS
  QueueWithinLimit
  CopiesCurrent
  TicketsMatchView
  QueueConfirmedDisjoint
  QueuedOnceInFlight
  ConfirmedHeld
  HeldAccounted
PROPERTIES
  ImplementsTransfer
  SettledPlayerServed
CHECK_DEADLOCK FALSE
