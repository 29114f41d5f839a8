SPECIFICATION Spec
CONSTANTS
  j1 = j1
  j2 = j2
  w1 = w1
  w2 = w2
  Jobs = {j1}
  Workers = {w1}
  NoJob = NoJob
  Faults <- NoFaults
  CanCrash = {}
  CanDisconnect = {j1}
INVARIANT
  NoQueuedJobLeftBehind
