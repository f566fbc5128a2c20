SPECIFICATION Spec
CONSTANTS
  Req = {r1, r2, r3}
  Requests <- HookedRequests
  Streaming = FALSE
  MaxTasks = 3
  AppObjects = {}
  AppIds = {}
  States = {"running", "completed", "canceled", "auth-required"}
  InPlace = TRUE
SYMMETRY MCSymmetry
PROPERTIES
  NoRestart
  LifeSpec
