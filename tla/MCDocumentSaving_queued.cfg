\* A save may be requested while another one is running.
SPECIFICATION SavingSpec
CONSTANTS
  Texts = {empty, d1, d2}
  EmptyText = empty
  MaxRevision = 6
  MaxSaves = 2
SYMMETRY Symmetry
CHECK_DEADLOCK FALSE
INVARIANTS
  CleanMeansSaved
