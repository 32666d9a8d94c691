SPECIFICATION Spec
CONSTANTS
  MaxGrants = 1
  UseIDs = {u1, u2}
  Requests <- MCUseRequests
  DecisionKeys = {"d1"}
  Constraints <- MCConstraints
  PendingTimeout = 1
  DefaultDuration = 1
  MaxDuration = 2
  ReservationTimeout = 1
  MaxEvents = 1
  MaxPendingPerClient = 1
  MaxPendingGlobal = 2
  MaxTime = 3
  MaxUseRevision = 3
  MaxSequence = 2
  ClockMayStepBack = FALSE
SYMMETRY Symmetry
INVARIANTS TypeOK StateLoads BudgetRespected NoStrandedReservation
PROPERTIES AuthorityIsFinal RevisionCoversChange ImplementsAuthority
CHECK_DEADLOCK FALSE
