SPECIFICATION FairServerSpec
CONSTANTS
  Daemon = daemon
  Thread = {t1, t2}
  Address = {daemon, t1, t2}
  Network = network
  Channel = {network}
  Connection = {c1, c2}
  NoConnection = NoConnection
  Limits = {2}
  Backgrounds = {FALSE, TRUE}
  All = All
  Nobody = Nobody
  NoTask = NoTask
  Expiry = 0
  Pauses = {FALSE}
  MaxMessages = 3
  MaxTime = 0
PROPERTY DaemonEnds
PROPERTY ThreadEnds
 
CHECK_DEADLOCK FALSE
