CONSTANTS
  Slugs = {s1}
  None = None
  MaxEvents = 1
  MaxHits = 2
  MaxStops = 2
  MaxFaults = 1
  Users = {"alice", "bob"}
  Passwords = {"a", "b"}
  Auth <- MCAuth
  FileNames = {1, 2}
  ModTimes = {1, 2}
SPECIFICATION FairSystemSpec
INVARIANTS
  SystemTypeOK
  ZoneOnly
  CaseBlind
  OnlyTrackingIsOpen
  OthersSlugsInvisible
  StagesAgree
  NewestDatabaseWins
  AcmeAfterDns
  
  CleanExitFlushed
  GracefulExitSaves
PROPERTIES
  StopsOnceAsked
CHECK_DEADLOCK FALSE
