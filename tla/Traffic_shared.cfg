SPECIFICATION MCSpec
CONSTANTS
  t1 = t1
  t2 = t2
  f1 = f1
  f2 = f2
  s1 = s1
  s2 = s2
  n1 = n1
  n2 = n2
  Transfers = {t1, t2}
  FilesOf <- OneEach
  Files = {f1, f2}
  Names = {n1, n2}
  MaxIndex = 1
  Spot <- NumberedName
  UserPlaces <- FirstPlace
  Senders = {s1, s2}
  Ids = {1, 2}
  Concurrency = 1
  JobSlots = 2
  SendSlots = 1
  ReceiveSlots = 1
  Disturbed = {t1}
INVARIANTS
  TypeOK
  FilesWhereReported
  RoutesAreOwned
  StagingIsRemoved
PROPERTIES
  NothingIsReplaced
  
  TransfersEnd
CHECK_DEADLOCK FALSE
