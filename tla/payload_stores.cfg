SPECIFICATION StoresSpec
CONSTANTS
  o1 = o1
  o2 = o2
  Keys <- TwoOwners
  Contents = {x, y}
  MaxFiles = 2
  MaxOwnerFiles = 1
  Lifetimes = {1, 2}
  MaxStreams = 2
  MaxTime = 2
  MaxFaults = 1
  Uploads <- ThreeUploads
  Secrets = {s, t}
  SealedFiles = 2
  SealedOwnerFiles = 1
  PayloadLifetimes = {1, 2}
  MarkerRetention = 2
  MaxPayloads = 2
  MaxClock = 5
INVARIANTS StoresTypeOK OpenableUntilExpiry OneStreamPerRequest SecretRevealedOnce
SYMMETRY Symmetry
CHECK_DEADLOCK FALSE
