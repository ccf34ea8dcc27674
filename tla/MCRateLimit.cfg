CONSTANTS
  Keys = {k1, k2}
  Tiers <- TwoTiers
  MaxAge = 4
  MaxTime = 6
SPECIFICATION Spec
INVARIANTS
  TypeOK
  AdmissionBound
  NoUndueRefusal
PROPERTIES
  ImplementsTokenBucket
CHECK_DEADLOCK FALSE
