SPECIFICATION Spec
CONSTANTS
  t1 = t1
  t2 = t2
  task = task
  call = call
  None = None
  Transfers = {t1}
  Tasks = {task}
  Calls = {}
  Statuses <- OneStatuses
  MaxFinished = 1
  MaxStored = 1
  Failures = {}
INVARIANTS
  OutcomesArePersisted
