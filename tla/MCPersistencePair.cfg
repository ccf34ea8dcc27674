CONSTANTS
  Slugs = {s1, s2}
  None = None
  MaxEvents = 1
  MaxHits = 1
  MaxStops = 1
SYMMETRY SlugSymmetry
SPECIFICATION Spec
INVARIANTS
  CleanIsSaved
  FlushInvariant
