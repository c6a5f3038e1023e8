SPECIFICATION Spec
CONSTANTS
  Thread = {t1, t2, t3}
  Runtime = Runtime
  Free = Free
INVARIANT HeldIsReleased
INVARIANT NoDeadlock
INVARIANT OnlyTwoRaces
