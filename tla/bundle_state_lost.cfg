SPECIFICATION Spec
CONSTANTS
  A = A
  B = B
  C = C
  broker = broker
  frontend = frontend
  None = None
  Bundles = {A, B, C}
  Components = {broker, frontend}
  Has <- MCHas
  Format <- MCFormat
  Replace <- MCReplace
  ByFile = {broker, frontend}
  StateFiles <- TwoFiles
  MaxCalls = 3
  MaxFaults = 2
PROPERTY RestoresPrevious
CHECK_DEADLOCK FALSE
