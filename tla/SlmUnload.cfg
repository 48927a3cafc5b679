SPECIFICATION Spec
CONSTANTS
  None = None
  big = big
  Tasks = {t1, t2}
  Models = {small, tiny, big}
  Mb <- Sizes
  RunMb <- Sizes
  Overlap = TRUE
  Limit = 2
  Ops = {"load", "unload"}
  Faults = {}
SYMMETRY Symmetry
INVARIANT
  ResidentFits
