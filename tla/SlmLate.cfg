SPECIFICATION Spec
CONSTANTS
  None = None
  big = big
  Tasks = {t1, t2}
  Models = {small, big}
  Mb <- Sizes
  RunMb <- Sizes
  Overlap = FALSE
  Limit = 2
  Ops = {"load"}
  Faults = {"generate"}
INVARIANT
  ResidentFits
