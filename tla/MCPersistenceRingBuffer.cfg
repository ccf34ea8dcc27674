CONSTANTS
  Slugs = {s1}
  None = None
  MaxEvents = 1
  MaxHits = 2
  MaxStops = 1
SPECIFICATION Spec
INVARIANTS
  RingBufferBound
