SPECIFICATION ServerSpec
CONSTANTS
  Daemon = daemon
  Thread = {t1, t2}
  Address = {daemon, t1, t2}
  Network = network
  Channel = {network}
  Connection = {c1, c2, c3}
  NoConnection = NoConnection
  Limits = {2}
  Backgrounds = {FALSE, TRUE}
  All = All
  Nobody = Nobody
  NoTask = NoTask
  Expiry = 0
  Pauses = {FALSE}
  MaxMessages = 3
  MaxTime = 1
SYMMETRY ServerSymmetry
INVARIANT ServerTypeOK
INVARIANT OneOwner
INVARIANT LimitKept
INVARIANT HandedOver
CHECK_DEADLOCK FALSE
