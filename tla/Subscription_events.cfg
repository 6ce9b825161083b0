SPECIFICATION Spec
CONSTANTS
  f1 = f1
  f2 = f2
  w1 = w1
  w2 = w2
  s1 = s1
  Files <- TwoFiles
  Size = 2
  Writers <- TwoWriters
  Subscribers <- OneSubscriber
  Cap = 1
  MaxRevision = 3
  Droppable = {"progress"}
INVARIANTS
  NoStaleView
PROPERTIES
  NeverBackwards
  CaughtUp
CHECK_DEADLOCK FALSE
