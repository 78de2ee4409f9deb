------------------------- MODULE OpenRequestHandoff -------------------------
(***************************************************************************)
(* What the durable open-request service promises the desktop: a file the  *)
(* shell accepted is opened by a window and then forgotten, exactly once,  *)
(* through crashes.  The one exception is a window that opened a file and  *)
(* could not get that saved: a crash before the next save offers the file  *)
(* again.                                                                  *)
(***************************************************************************)
EXTENDS Naturals

CONSTANT Requests   \* in the order in which they are accepted

VARIABLES
  stage,    \* request -> where it is on its way
  unsaved   \* the applied requests a crash would offer again

vars == <<stage, unsaved>>

Stages == {"unborn", "waiting", "applied", "done"}

Init ==
  /\ stage = [r \in Requests |-> "unborn"]
  /\ unsaved = {}

Moves(r, from, to) == stage[r] = from /\ stage' = [stage EXCEPT ![r] = to]

Accept(r) ==
  /\ Moves(r, "unborn", "waiting")
  /\ \A q \in Requests : q < r => stage[q] # "unborn"
  /\ unsaved' = {}

Apply(r) ==
  /\ Moves(r, "waiting", "applied")
  /\ unsaved' \in {{}, unsaved \cup {r}}

Finish(r) ==
  /\ Moves(r, "applied", "done")
  /\ unsaved' = {}

Save ==
  /\ unsaved' = {}
  /\ UNCHANGED stage

Crash ==
  /\ stage' = [r \in Requests |-> IF r \in unsaved THEN "waiting" ELSE stage[r]]
  /\ unsaved' = {}

Next ==
  \/ \E r \in Requests : Accept(r) \/ Apply(r) \/ Finish(r)
  \/ Save
  \/ Crash

Spec == Init /\ [][Next]_vars
=============================================================================
