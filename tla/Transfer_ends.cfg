SPECIFICATION Spec
CONSTANTS
  f1 = f1
  f2 = f2
  f3 = f3
  Files = {f1}
  EmptyFiles = {}
  Concurrency = 1
  UserOps = {"pause", "accept", "shutdown"}
  Faults = {}
INVARIANTS
  SafetyInv
PROPERTIES
  TransferEnds
