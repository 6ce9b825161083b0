SPECIFICATION Spec
CONSTANTS
  t1 = t1
  t2 = t2
  task = task
  call = call
  None = None
  Transfers <- TwoTransfers
  Tasks = {task}
  Calls = {call}
  Statuses <- TwoStatuses
  MaxFinished = 1
  MaxStored = 1
  Failures = {"crash", "save"}
INVARIANTS
  DiskIsTruthful
  OnlyOldAreForgotten
PROPERTIES
  LastIsSaved
  WorkerEnds
