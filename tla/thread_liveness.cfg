SPECIFICATION FairSpec
CONSTANTS
  c1 = c1
  Connection = {c1, c2}
  Fd = {f1, f2}
  NoFd = NoFd
  Shutdown = Shutdown
  Chunk = 1
  MaxSize = 1
  Loads <- LivenessLoads
  IdleLimit = 0
  RequireAuth = TRUE
PROPERTY EveryConnectionEnds
