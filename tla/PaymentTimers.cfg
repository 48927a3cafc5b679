SPECIFICATION BridgeFairSpec
CONSTANTS
  Sessions = {s1, s2}
  Tasks = {t1, t2}
  None = None
INVARIANTS
  BridgeTypeOK
  OnlyTimer
  JobsFollow
PROPERTIES
  StopEnds
  PaysAgain
  WriterServed
