SPECIFICATION FairSpec
CONSTANTS
  Keys <- TwoKeys
  Contents = {x}
  MaxFiles = 2
  MaxOwnerFiles = 2
  Lifetimes = {1}
  MaxStreams = 1
  MaxTime = 2
  MaxFaults = 1
PROPERTY StreamsShortLived
CHECK_DEADLOCK FALSE
