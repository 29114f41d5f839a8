SPECIFICATION FairSpec
CONSTANTS
  j1 = j1
  j2 = j2
  w1 = w1
  w2 = w2
  Jobs = {j1}
  Workers = {w1, w2}
  NoJob = NoJob
  Faults <- ClaimErrors
  CanCrash = {}
  CanDisconnect = {}
PROPERTY
  SurvivesTemporaryFailures
