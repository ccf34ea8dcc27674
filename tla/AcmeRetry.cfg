CONSTANTS
  Lifetime = 5
  SelfSignedLife = 7
  RenewBefore = 3
  MaxOrders = 1
  MaxEnds = 0
SPECIFICATION Spec
PROPERTIES
  InitialFailureRetried
