SPECIFICATION FairSpec
CONSTANTS
  j1 = j1
  j2 = j2
  w1 = w1
  w2 = w2
  Jobs = {j1, j2}
  Workers = {w1, w2}
  NoJob = NoJob
  Faults <- ReportedFaults
  CanCrash = {}
  CanDisconnect = {}
PROPERTY
  AcceptedIsSettled
