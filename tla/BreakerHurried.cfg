SPECIFICATION Spec
CONSTANTS
  None = None
  Callers = {t1, t2}
  Threshold = 1
  Base = 1
  MaxTimeout = 2
  Outages = 1
SYMMETRY Symmetry
PROPERTY
  WaitsRecovery
