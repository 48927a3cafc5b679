SPECIFICATION Spec
CONSTANTS
  Callers = {c1, c2}
  Consecutive = 2
  Budget = 4
  Faults = {"stale", "readFails", "slow", "fail", "timeout"}
SYMMETRY Symmetry
INVARIANTS
  TypeOK
  OkMeansReached
  OneBadReadTolerated
