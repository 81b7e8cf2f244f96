SPECIFICATION FairSpec
CONSTANTS
  u1 = u1
  u2 = u2
  Update <- Updates
  MaxInFlight = 4
  Faults = {"lose", "duplicate", "reorder"}
INVARIANTS TypeOK NoEchoToHost
PROPERTIES ImplementsAbstract ImplementsAbstractFair
