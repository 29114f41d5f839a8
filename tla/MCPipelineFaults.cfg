SPECIFICATION Spec
CONSTANTS
  j1 = j1
  j2 = j2
  w1 = w1
  w2 = w2
  Jobs = {j1}
  Workers = {w1, w2}
  NoJob = NoJob
  Faults <- AllFaults
  CanCrash = {"api", "worker"}
  CanDisconnect = {j1}
SYMMETRY Symmetry
INVARIANTS
  RevisionInv
  TypeOK
  OneExtractor
  ClaimInv
  PayloadReleased
  AtMostOneAttempt
  ReadsWholeImage
PROPERTIES
  JobsMoveForward
  ImplementsClaimLedger
