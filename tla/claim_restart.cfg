SPECIFICATION Spec
CONSTANTS
  Req = {r1, r2}
  Requests <- StreamRequests
  Streaming = TRUE
  MaxTasks = 3
  AppObjects = {}
  AppIds = {}
  States = {"running", "completed", "canceled", "auth-required"}
  InPlace = TRUE
PROPERTY NoRestart
