CONSTANTS
  Lifetime = 5
  SelfSignedLife = 7
  RenewBefore = 3
  MaxOrders = 3
  MaxEnds = 2
SPECIFICATION Spec
INVARIANTS
  TypeOK
  ChallengesExact
  ExpiryTakesFailures
  RestartFindsServed
PROPERTIES
  AccountKeyKept
