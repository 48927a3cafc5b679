SPECIFICATION FairSpec
CONSTANTS
  None = None
  Callers = {t1, t2}
  Threshold = 2
  Base = 1
  MaxTimeout = 2
  Outages = 2
PROPERTIES
  Recovers
  Trips
  ProbesAgain
