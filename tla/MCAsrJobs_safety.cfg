SPECIFICATION Spec
SYMMETRY Symmetry
INVARIANTS TypeOK AttemptsBounded OneRecordPerKey AttemptOwnsJob QueueBound NoJobStranded InputKept
  CancelIsFinal SweepSparesLiveJobs
PROPERTIES SettledOnlyRevised ImplementsLifecycle
CONSTANTS
  JobIds = {j1, j2}
  Workers = {w1, w2}
  Clients = {c1, c2}
  Keys = {k1}
  Fingerprints = {f1}
  NoKey = NoKey
  NoRecord = NoRecord
  NoJob = NoJob
  MaxPending = 1
  MaxAttempts = 2
  MaxRevision = 1
  MaxCrashes = 1
  MaxIoFaults = 1
CHECK_DEADLOCK FALSE
