SPECIFICATION FairSpec
CONSTANTS
  w = w
  x = x
  Ops <- MCOps
  Window <- MCWindow
  MaxUses = 1
  MaxFaults = 1
  MaxCrashes = 1
INVARIANTS
  TypeOK
  ExecutedAtMostOnce
  RefusedNeverRan
  EffectIsCharged
  EffectsWithinLimit
  SuccessIsPaid
  NoOrphanRequest
PROPERTIES
  TerminalIsFinal
  OperationEnds
CHECK_DEADLOCK FALSE
