\* Two closes, edits, changes of settings and renders at any moment.
SPECIFICATION Spec
CONSTANTS
  Attempts = {a1, a2}
  NoAttempt = none
  MaxEdits = 2
  MaxSaves = 1
  MaxVersion = 1
CHECK_DEADLOCK FALSE
INVARIANTS
  ClosedWorkIsKept
PROPERTIES
  AttemptsEnd
  UnreadSettingsAreKept
  FileNeverGoesBack
  ChangesAreSettled
