CONSTANTS
  Streams = {a}
  ChanCap = 1
  MaxEvents = 2
  MaxHits = 2
SPECIFICATION Spec
INVARIANTS
  ReplaysHistoryThenLive
CHECK_DEADLOCK FALSE
