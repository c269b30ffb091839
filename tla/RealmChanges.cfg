CONSTANTS
  MaxSize = 2
  MaxIndex = 8
  MaxOther = 5
  OneChunk = TRUE
  MaxLen = 4
  MaxFound = 4
  MaxRow = 2
  MaxInOrder = 3
  MaxRowInOrder = 4
  Swaps = FALSE
  MaxOps = 5
  MaxTableOps = 5
  MaxRows = 3
  MaxLogs = 3
  ClearedLogs = 2
  SizeMax = 5
  MaxCallbacks = 3
  MaxToken = 3
  MaxVersion = 3
  MaxDepth = 2
  RowCount = 4
  Columns <- ListColumn
  PathSize = 3
  MaxLinks = 2
  Targets <- Chained
SPECIFICATION RealmSpec
VIEW StateView
INVARIANTS TypeOK Verified DeliveryTold MovesKept ModificationsTold NoStaleMoves MergeTold ChangesApply LinkedModificationFound NoFalseAlarm TokensInOrder CallbacksSeen AllDelivered ToldSinceFirst
PROPERTY ImplementsIndexSet
CHECK_DEADLOCK FALSE
