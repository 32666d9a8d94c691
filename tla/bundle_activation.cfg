SPECIFICATION Spec
CONSTANTS
  A = A
  B = B
  C = C
  broker = broker
  frontend = frontend
  None = None
  Bundles = {A, B, C}
  Components = {broker, frontend}
  Has <- MCHas
  Format <- MCFormat
  Replace <- MCReplace
  ByFile = {frontend}
  StateFiles <- OneFile
  MaxCalls = 4
  MaxFaults = 2
INVARIANTS TypeOK RecordNamesCurrent RecoveryCanRead StateReachable
PROPERTIES StateKept CommitIsVerified
CHECK_DEADLOCK FALSE
