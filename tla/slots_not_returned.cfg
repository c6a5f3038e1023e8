SPECIFICATION FairServerSpec
CONSTANTS
  Daemon = daemon
  Thread = {t1, t2}
  Address = {daemon, t1, t2}
  Network = network
  Channel = {network}
  Connection = {c1, c2}
  NoConnection = NoConnection
  Limits = {1}
  Backgrounds = {FALSE}
  All = All
  Nobody = Nobody
  NoTask = NoTask
  Expiry = 0
  Pauses = {FALSE}
  MaxMessages = 3
  MaxTime = 0
PROPERTY NextIsLetIn
CHECK_DEADLOCK FALSE
