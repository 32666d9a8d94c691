SPECIFICATION FairSpec
CONSTANTS
  N = 4
  Recoverable = {3}
  Components = {2}
  Services = {3}
  Accounts = {1}
  Clients = {4}
  MaxFaults = 5
INVARIANTS TypeOK AllOrNothing BackupKept
PROPERTIES CommitIsFinal RecoveryEnds
