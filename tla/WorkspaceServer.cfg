SPECIFICATION FairSpec
CONSTANTS
  None = None
  Renters = {r1, r2}
  Busses = {b1}
  Viewers = {v1}
  Sessions = {s1}
INVARIANT
  TypeOK
PROPERTIES
  DesktopEnds
  StopEndsDesktop
  LockServed
