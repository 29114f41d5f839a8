SPECIFICATION RSpec
CONSTANTS
  j1 = j1
  w1 = w1
  w2 = w2
  Jobs = {j1}
  Workers = {w1, w2}
  NoJob = NoJob
  MaxRequeues = 1
  Faults <- NoFaults
  CanCrash = {"worker"}
  CanDisconnect = {}
INVARIANT
  NoDuplicateRevisions
