\* Two windows whose calls overlap; a link is retargeted between their lock regions.
SPECIFICATION Spec
CONSTANTS
  Windows = {w1, w2}
  SessionIds = {s1}
  OpIds = {o1}
  Keys = {a, f}
  Paths = {a, f}
  Aliases = {a}
  Threads = {r1, r2}
  MaxSequence = 3
  MaxGeneration = 2
  NoClaim = NoClaim
  NoToken = NoToken
  NoOp = NoOp
  NoSession = NoSession
  Absent = Absent
  Unreachable = Unreachable
  Idle = Idle
SYMMETRY Symmetry
INVARIANTS
  IndexConsistent
  IoStaysOnClaimedFile
  NoDocumentClaimedTwice
  OneDocumentPerWindow
PROPERTIES
  ImplementsOwnership
