\* Two windows, three requests and a fence that holds one completion.
SPECIFICATION Spec
CONSTANTS
  Windows = {w1, w2}
  Keys = {f, g}
  MaxSequence = 4
  MaxAttempt = 5
  MaxFences = 1
  NoRecord = NoRecord
  NoRequest = NoRequest
  NoFile = NoFile
SYMMETRY Symmetry
INVARIANTS
  RegistryNeverWedges
  CrashForgetsOnlyApplications
  AttemptsAreFenced
PROPERTIES
  AttemptsAreKept
  ImplementsHandoff
