\* A window is edited, saved, changed to other documents, crashes and recovers, in any order.
SPECIFICATION DraftsSpec
CONSTANTS
  Texts = {empty, d1, d2, d3}
  EmptyText = empty
  NoText = none
  MaxRevision = 7
  MaxSaves = 1
SYMMETRY Symmetry
INVARIANTS
  CleanMeansSaved
  UnsavedTextIsRecoverable
  NothingStaleIsOffered
