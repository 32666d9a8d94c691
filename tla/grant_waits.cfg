SPECIFICATION WaitSpec
CONSTANTS
  MaxGrants = 2
  UseIDs = {}
  Requests <- MCLogRequests
  DecisionKeys = {"d1"}
  Constraints <- MCNoConstraint
  PendingTimeout = 1
  DefaultDuration = 1
  MaxDuration = 2
  ReservationTimeout = 1
  MaxEvents = 2
  MaxPendingPerClient = 2
  MaxPendingGlobal = 2
  MaxTime = 1
  MaxUseRevision = 1
  MaxSequence = 0
  ClockMayStepBack = TRUE
INVARIANTS OneGrantPerKey OneVerdict LogCurrent
PROPERTIES WaitEnds
CHECK_DEADLOCK FALSE
