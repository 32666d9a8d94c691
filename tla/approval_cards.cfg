SPECIFICATION BoundedSpec
CONSTANTS
  First = r1
  Requests = {r1, r2}
  MaxEvents = 1
  MaxClicks = 2
  MaxFaults = 1
INVARIANTS TypeOK DecidedAsClicked
PROPERTIES CardArrives CardSettles ClickAnswered
CHECK_DEADLOCK FALSE
