SPECIFICATION Spec
CONSTANTS
  Req = {r1, r2}
  Requests <- HookedRequests
  Streaming = FALSE
  MaxTasks = 3
  AppObjects = {}
  AppIds = {}
  States = {"running", "completed", "canceled", "auth-required"}
  InPlace = TRUE
INVARIANT HistoryAtRest
