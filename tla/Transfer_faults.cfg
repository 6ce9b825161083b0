SPECIFICATION Spec
CONSTANTS
  f1 = f1
  f2 = f2
  f3 = f3
  Files = {f1}
  EmptyFiles = {}
  Concurrency = 1
  UserOps = {"pause", "resume", "cancel", "accept", "reject"}
  Faults = {"connection", "io", "slow", "busy", "full", "long"}
INVARIANTS
  TypeOK
  CompletedMeansDelivered
  ConsentBeforeData
  NothingLeftBehind
  RouteIsReady
PROPERTIES
  OneMessageUnread
  ImplementsContract
