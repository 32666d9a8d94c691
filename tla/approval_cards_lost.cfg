SPECIFICATION FairSpec
CONSTANTS
  First = r1
  Requests = {r1, r2}
  MaxEvents = 2
  MaxClicks = 0
  MaxFaults = 1
PROPERTY CardAfterReplacement
CHECK_DEADLOCK FALSE
