SPECIFICATION Spec
CONSTANTS
  Docs = {d1, d2}
  Images = {}
  None = None
  Gone = Gone
  MaxContents = 2
  MaxWrites = 1
  MaxFaults = 0
  MayRepeat = FALSE
  MaxOpens = 2
  MaxNews = 1
  MaxEdits = 1
  MaxSaves = 1
  MaxSyncs = 1
  MaxChoices = 1
  MaxLapses = 1
INVARIANTS TextIsOfItsDocument WritesAreAlone
PROPERTY UnsavedTextIsKept
SYMMETRY DocSymmetry
CHECK_DEADLOCK FALSE
