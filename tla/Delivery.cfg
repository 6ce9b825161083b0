SPECIFICATION MCSpec
CONSTANTS
  FileCount = 3
  Keys = {1, 2, 3}
  MaxFileCount = 3
  MaxTotalBytes = 3
  MaxPreviewBytes = 2
  MaxTotalPreviewBytes = 4
  EntryLen = 1
  MaxControlFrameSize = 6
  Concurrency = 2
  OpenTimeout = 1
  FileTimeout = 3
  GrantTtl = 6
  MaxSize = 2
  MaxEdits = 1
CHECK_DEADLOCK FALSE
INVARIANTS
  TypeOK
  OnlyNamesAreRefused
  DeliveredAsOffered
  NoGrantExpires
PROPERTIES
  ReceivingEnds
