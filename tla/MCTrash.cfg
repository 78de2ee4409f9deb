\* Five documents of one or two units for a bin of three entries or four units: every number
\* of evictions occurs, for the count, for the bytes and for both.
CONSTANTS
  Count = 5
  Ids <- MCIds
  Size <- MCSize
  MaxEntries = 3
  MaxBytes = 4
  NoId = NoId
SPECIFICATION Spec
INVARIANTS
  NothingListedIsLost
  BinWithinLimits
  TransactionsAreUndoable
PROPERTY ImplementsTrashBin
