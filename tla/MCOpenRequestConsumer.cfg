\* Two requests and one thing that goes wrong, or one request and two.
SPECIFICATION Spec
CONSTANTS
  Requests = {r1, r2}
  NoAttempt = none
  MaxToken = 6
  MaxIncidents = 3
CHECK_DEADLOCK FALSE
INVARIANTS
  NothingDeliveredIsStranded
  OpenedExactlyOnce
PROPERTY
  EveryRequestIsHandled
