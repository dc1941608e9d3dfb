SPECIFICATION FairSpec
PROPERTIES EverySettles SlotComesBack
CONSTANTS
  JobIds = {j1, j2}
  Workers = {w1}
  Clients = {c1}
  Keys = {k1}
  Fingerprints = {f1}
  NoKey = NoKey
  NoRecord = NoRecord
  NoJob = NoJob
  MaxPending = 2
  MaxAttempts = 2
  MaxRevision = 0
  MaxCrashes = 0
  MaxIoFaults = 1
CHECK_DEADLOCK FALSE
