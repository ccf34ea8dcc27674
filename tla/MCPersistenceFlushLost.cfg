CONSTANTS
  Slugs = {s1}
  None = None
  MaxEvents = 2
  MaxHits = 3
  MaxStops = 0
SPECIFICATION Spec
INVARIANTS
  FlushPersistsNewEvents
