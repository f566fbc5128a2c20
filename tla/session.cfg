SPECIFICATION FairSpec
CONSTANTS
  c1 = c1
  c2 = c2
  Call <- MCCall
  Plans <- MCPlans
INVARIANTS
  SessionTypeOK
  OwnAnswer
  AnswerComes
PROPERTIES
  CallsReturn
  CallsAreServed
