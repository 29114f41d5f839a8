SPECIFICATION DSpec
CONSTANTS
  j1 = j1
  w1 = w1
  w2 = w2
  Jobs = {j1}
  Workers = {w1, w2}
  NoJob = NoJob
  MaxRequeues = 2
  Faults <- WorkerFaults
  CanCrash = {"worker"}
  CanDisconnect = {}
  ApiEnvironments <- ApiSettings
  WorkerEnvironments <- WorkerSettings
  Confidences <- Tenths
SYMMETRY Symmetry
INVARIANTS
  DeploymentTypeOK
  OneCircuitPerJob
  RetryKeepsStatus
  PolicyOfTheWriter
PROPERTIES
  PersistsOnlyShared
  ImplementsRetriedLedger
