SPECIFICATION Spec
CONSTANTS
  Address = {m1, m2, m3}
  Channel = {network}
  All = All
  Nobody = Nobody
  NoTask = NoTask
  Expiry = 0
  Pauses = {}
  MaxMessages = 2
  MaxTime = 1
SYMMETRY Symmetry
INVARIANT TypeOK
INVARIANT TakenAtMostOnce
INVARIANT InboxOrder
INVARIANT PendingCoversReaders
INVARIANT NoReaderLeftBehind
