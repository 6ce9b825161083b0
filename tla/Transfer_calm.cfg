SPECIFICATION Spec
CONSTANTS
  f1 = f1
  f2 = f2
  f3 = f3
  Files <- ThreeFiles
  EmptyFiles <- OneEmpty
  Concurrency = 2
  UserOps = {"accept"}
  Faults = {}
INVARIANTS
  RouteIsReady
PROPERTIES
  AgreedTransferCompletes
