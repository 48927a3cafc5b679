SPECIFICATION FairSpec
CONSTANTS
  None = None
  big = big
  Tasks = {t1, t2}
  Models = {small, big}
  Mb <- Sizes
  RunMb <- ResidentSizes
  Overlap = FALSE
  Limit = 3
  Ops = {"load", "unload", "swap", "delete", "pull", "sync"}
  Faults = {"list", "generate", "evict", "timeout", "restart", "expire"}
PROPERTY
  EveryCallReturns
