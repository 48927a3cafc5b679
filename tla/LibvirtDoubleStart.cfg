SPECIFICATION Spec
CONSTANTS
  c1 = c1
  c2 = c2
  t1 = t1
  t10 = t10
  Callers <- MCCallers
  Names <- MCNames
  Ports <- TwoPorts
  None = None
  Mentions <- Distinct
  Faults <- FailOnly
  RestartRunning = TRUE
  MaxSpawns = 2
  MaxLate = 0
  MaxCrashes = 0

INVARIANTS
  ForwardsOwned
