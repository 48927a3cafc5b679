SPECIFICATION FairSpec
CONSTANTS
  None = None
  Callers = {t1}
  Threshold = 3
  Base = 1
  MaxTimeout = 4
  Outages = 2
INVARIANTS
  TypeOK
  Settled
PROPERTIES
  AtomicSpec
