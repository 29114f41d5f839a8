SPECIFICATION SystemSpec
CONSTANTS
  j1 = j1
  w1 = w1
  r1 = r1
  r2 = r2
  Jobs = {j1}
  Workers = {w1}
  Reviewers = {r1, r2}
  NoJob = NoJob
  Faults <- NoFaults
  CanCrash = {}
  CanDisconnect = {}
INVARIANT
  ResolvedIsConflict
