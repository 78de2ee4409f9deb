-------------------------- MODULE DocumentOwnership --------------------------
(***************************************************************************)
(* What the document-claim registry promises, without sessions, tokens,    *)
(* operations, locks or symbolic links: a document is a set of path keys,  *)
(* a window may ask for documents nobody else has, it owns one document at *)
(* a time, and a document is given up before another window can get it.    *)
(***************************************************************************)
EXTENDS FiniteSets

CONSTANTS Windows, Keys

VARIABLES
  pending,   \* window -> documents it has asked for and may still commit
  owned      \* window -> the document open in it: no or one document

vars == <<pending, owned>>

Documents == {{k, l} : k \in Keys, l \in Keys}

TakenKeys == UNION UNION {pending[w] \cup owned[w] : w \in Windows}

Init ==
  /\ pending = [w \in Windows |-> {}]
  /\ owned = [w \in Windows |-> {}]

Request(w, d) ==
  /\ d \cap TakenKeys = {}
  /\ pending' = [pending EXCEPT ![w] = @ \cup {d}]
  /\ UNCHANGED owned

\* The document a window owned before is given up in the same step.
Confirm(w, d) ==
  /\ d \in pending[w]
  /\ pending' = [pending EXCEPT ![w] = @ \ {d}]
  /\ owned' = [owned EXCEPT ![w] = {d}]

Abandon(w, D) ==
  /\ D \subseteq pending[w] /\ D # {}
  /\ pending' = [pending EXCEPT ![w] = @ \ D]
  /\ UNCHANGED owned

Yield(w) ==
  /\ owned[w] # {}
  /\ owned' = [owned EXCEPT ![w] = {}]
  /\ UNCHANGED pending

Vanish(w) ==
  /\ pending' = [pending EXCEPT ![w] = {}]
  /\ owned' = [owned EXCEPT ![w] = {}]

Next == \E w \in Windows :
  \/ \E d \in Documents : Request(w, d)
  \/ \E d \in pending[w] : Confirm(w, d)
  \/ \E D \in SUBSET pending[w] : Abandon(w, D)
  \/ Yield(w)
  \/ Vanish(w)

Spec == Init /\ [][Next]_vars
=============================================================================
