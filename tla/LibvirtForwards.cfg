SPECIFICATION FairSpec
CONSTANTS
  c1 = c1
  c2 = c2
  t1 = t1
  t10 = t10
  Callers <- MCCallers
  Names <- OneName
  Ports <- OnePort
  None = None
  Mentions <- DistinctOne
  Faults <- LibvirtFaults
  RestartRunning = FALSE
  MaxSpawns = 2
  MaxLate = 1
  MaxCrashes = 0
INVARIANTS
  NoRemovalMidStart
  ForwardsOwned
PROPERTIES
  StartPublishesLiveForward
  EveryCallReturns
