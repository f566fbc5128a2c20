SPECIFICATION StoreSpec
CONSTANTS
  MaxTasks = 2
  a1 = a1
  a2 = a2
  AppObjects <- MCAppObjects
  AppIds <- MCAppIds
  States = {"running", "completed", "canceled"}
  InPlace = FALSE
  MaxHistory = 3
SYMMETRY MCSymmetry
CONSTRAINT HistoryBound
INVARIANTS
  StoreTypeOK
  KeyMatches
  IssuedStayBound
  HistoryCurrent
  HistoryOfTransitions
PROPERTY PastIsKept
