SPECIFICATION FairSpec
CONSTANTS
  Address = {m1, m2}
  Channel = {network}
  All = All
  Nobody = Nobody
  NoTask = NoTask
  Expiry = 0
  Pauses = {TRUE}
  MaxMessages = 2
  MaxTime = 1
PROPERTY ImplementsBoard
PROPERTY AwakeDistributesAll
PROPERTY TimedPauseEnds
