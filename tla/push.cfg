SPECIFICATION RestSpec
CONSTANTS
  TaskId <- MCTaskId
  Client = {ca, cb}
  ClientIds <- MCClientIds
  MaxSet = 3
  Policies <- MCPolicies
SYMMETRY MCSymmetry
INVARIANTS
  RestTypeOK
  OwedIsStored
  StoredIsOwed
  MintedOnce
  OnlyForKnownTasks
  ReachesWhatWasAsked
  OnlyBearersServed
PROPERTIES
  ConfigsSpec
