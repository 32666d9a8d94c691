SPECIFICATION Spec
CONSTANTS
  First = r1
  Requests = {r1}
  MaxEvents = 3
  MaxClicks = 1
  MaxFaults = 0
INVARIANT CardShowsRequest
CHECK_DEADLOCK FALSE
