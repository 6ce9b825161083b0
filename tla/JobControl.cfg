SPECIFICATION Spec
CONSTANTS
  w1 = w1
  w2 = w2
  resumer = resumer
  canceller = canceller
  Waiters <- FileTasks
  Callers <- Calls
INVARIANTS
  NoLostWakeup
PROPERTIES
  WaitsEnd
  ResumeReleases
