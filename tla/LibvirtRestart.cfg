SPECIFICATION Spec
CONSTANTS
  c1 = c1
  c2 = c2
  t1 = t1
  t10 = t10
  Callers <- MCCallers
  Names <- MCNames
  Ports <- OnePort
  None = None
  Mentions <- Distinct
  Faults <- FailAndKill
  RestartRunning = FALSE
  MaxSpawns = 1
  MaxLate = 1
  MaxCrashes = 1
SYMMETRY SymmetryAll
INVARIANTS
  TypeOK
  TrackedHasDisk
  PortsAccounted
PROPERTIES
  LeaseSpec
