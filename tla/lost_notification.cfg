SPECIFICATION FairSpec
CONSTANTS
  Address = {m1, m2}
  Channel = {network}
  All = All
  Nobody = Nobody
  NoTask = NoTask
  Expiry = 0
  Pauses = {TRUE, FALSE}
  MaxMessages = 2
  MaxTime = 0
PROPERTY PauseEndsOnMessage
