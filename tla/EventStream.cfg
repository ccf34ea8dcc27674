CONSTANTS
  Streams = {a, b}
  ChanCap = 2
  MaxEvents = 2
  MaxHits = 4
SPECIFICATION FairSpec
INVARIANTS
  TypeOK
  SubscribersOpen
  NoSubscriberLeak
  StreamInOrder
  NothingSkipped
PROPERTIES
  RemovalEndsStreams
CHECK_DEADLOCK FALSE
