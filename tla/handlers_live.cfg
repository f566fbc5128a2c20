SPECIFICATION FairSpec
CONSTANTS
  Req = {r1, r2}
  Requests <- ImplRequests
  Streaming = TRUE
  MaxTasks = 2
  AppObjects = {}
  AppIds = {}
  States = {"running", "completed", "canceled", "auth-required"}
  InPlace = TRUE
PROPERTIES
  TasksComeToRest
  Answered
  StreamsFinish
  CrewSpec
  CallersAreTold
  WorkShrinks
