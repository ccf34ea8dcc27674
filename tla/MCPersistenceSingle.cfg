CONSTANTS
  Slugs = {s1}
  None = None
  MaxEvents = 2
  MaxHits = 5
  MaxStops = 2
SPECIFICATION Spec
INVARIANTS
  TypeOK
  FlushInvariant
  CleanIsSaved
  NoDuplicateRows
  BufferInOrder
  DeleteIsFinal
  NoOrphanRows
PROPERTIES
  GrowthStopsAtCap
  ImplementsDurableLog
