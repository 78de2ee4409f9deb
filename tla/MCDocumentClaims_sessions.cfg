\* One window whose pages come and go: several sessions, duplicated operations.
SPECIFICATION Spec
CONSTANTS
  Windows = {w1}
  SessionIds = {s1, s2}
  OpIds = {o1, o2}
  Keys = {f, g}
  Paths = {f, g}
  Aliases = {}
  Threads = {r1, r2}
  MaxSequence = 4
  MaxGeneration = 4
  NoClaim = NoClaim
  NoToken = NoToken
  NoOp = NoOp
  NoSession = NoSession
  Absent = Absent
  Unreachable = Unreachable
  Idle = Idle
SYMMETRY Symmetry
INVARIANTS
  TypeOK
  SessionsFenceClaims
  TakeoversNameOneSession
PROPERTIES
  OwnershipSurvivesSessions
  ReleasedStaysReleased
