\* Saves of the user and of the scheduler, edits during both, and a page whose effects lag.
SPECIFICATION Spec
CONSTANTS
  Texts = {empty, d1}
  EmptyText = empty
  MaxRevision = 3
  MaxSaves = 1
CHECK_DEADLOCK FALSE
INVARIANTS
  TypeOK
  EditsAreNeverForgotten
PROPERTIES
  EveryEditIsAttempted
  FlushEnds
