SPECIFICATION Spec
CONSTANTS
  Req = {r1, r2, r3}
  Requests <- DefaultRequests
  Streaming = TRUE
  MaxTasks = 3
  AppObjects = {}
  AppIds = {}
  States = {"running", "completed", "canceled", "auth-required"}
  InPlace = TRUE
SYMMETRY MCSymmetry
INVARIANTS
  SendAnswersEnded
  FinalEventTerminal
  ArtifactIdsUnique
