SPECIFICATION FairSpec
CONSTANTS
  Client = {c1, c2}
  CommandLines <- MCCommandLines
  Unavailables <- MCUnavailables
  DefaultBackLog = 2
  DefaultPorts <- MCDefaultPorts
INVARIANT ListenersTypeOK
INVARIANT AcceptNeverWaits
INVARIANT NoFalseConflict
PROPERTY EverybodyServed
PROPERTY ShutdownHeard
CHECK_DEADLOCK FALSE
