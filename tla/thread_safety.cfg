SPECIFICATION Spec
CONSTANTS
  c1 = c1
  Connection = {c1, c2, c3}
  Fd = {f1, f2, f3}
  NoFd = NoFd
  Shutdown = Shutdown
  Chunk = 2
  MaxSize = 4
  Loads <- SafetyLoads
  IdleLimit = 0
  RequireAuth = FALSE
INVARIANT NetworkTypeOK
INVARIANT Streamed
INVARIANT ShareKept
INVARIANT SameOrder
PROPERTY WholeBody
PROPERTY NotMissedTwice
SYMMETRY ConnectionSymmetry
