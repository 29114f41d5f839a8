SPECIFICATION MemorySpec
CONSTANTS
  ws1 = ws1
  p1 = p1
  p2 = p2
  j1 = j1
  c1 = c1
  c2 = c2
  w1 = w1
  WorkspaceIds = {ws1}
  ProjectIds = {p1, p2}
  Jobs = {j1}
  Connections = {c1, c2}
  Workers = {w1}
  None = None
  MaxRevisions = 2
  MaxRetries = 1
SYMMETRY Symmetry
INVARIANTS
  MemoryInv
  MemoryTypeOK
  VerdictStands
  NoLooseObjects
  NoOrphans
PROPERTIES
  DecidedAtHome
  RacersGetConflict
  WritesOnlyByPost
  MemoryImplementsLedger
  MemoryImplementsClaims
