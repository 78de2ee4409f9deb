SPECIFICATION LiveSpec
CONSTANTS
  Docs = {d1, d2}
  Images = {}
  None = None
  Gone = Gone
  MaxContents = 2
  MaxWrites = 1
  MaxFaults = 1
  MayRepeat = FALSE
  MaxOpens = 2
  MaxNews = 0
  MaxEdits = 1
  MaxSaves = 0
  MaxSyncs = 0
  MaxChoices = 1
  MaxLapses = 0
PROPERTY ChangesAreNoticed
CHECK_DEADLOCK FALSE
