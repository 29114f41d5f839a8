SPECIFICATION FairWorkbench
CONSTANTS
  j1 = j1
  w1 = w1
  r1 = r1
  r2 = r2
  b1 = b1
  b2 = b2
  Jobs = {j1}
  Workers = {w1}
  Reviewers = {r1, r2}
  Browsers = {b1, b2}
  NoJob = NoJob
  Faults <- ReviewFaults
  CanCrash = {}
  CanDisconnect = {}
INVARIANTS
  WorkbenchTypeOK
  BannerIsSaved
  StaleIsResolved
PROPERTY
  FormsSettle
