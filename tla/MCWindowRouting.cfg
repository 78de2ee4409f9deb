SPECIFICATION Spec
CONSTANTS
  Docs = {d1, d2}
  Startup = startup
  Secondary = {l1, l2}
  MaxLabel = 2
  StartFiles = 2
  LaunchFiles = 1
  MaxCrashes = 1
  Nobody = Nobody
SYMMETRY Symmetry
INVARIANTS
  RoutesAreComplete
  LabelsAreFresh
CHECK_DEADLOCK FALSE
