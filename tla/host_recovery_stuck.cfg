SPECIFICATION FairSpec
CONSTANTS
  N = 2
  Recoverable = {2}
  Components = {1}
  Services = {2}
  Accounts = {}
  Clients = {}
  MaxFaults = 2
PROPERTIES RecoveryCompletes
