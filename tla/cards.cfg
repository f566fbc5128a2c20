SPECIFICATION Spec
CONSTANTS
  Flag = {"streaming"}
  Client = {c1, c2}
  SSEBase <- OwnBase
SYMMETRY MCSymmetry
INVARIANTS
  DiscoveryTypeOK
  NotMisled
  NothingHidden
