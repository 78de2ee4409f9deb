------------------------------- MODULE TrashBin -------------------------------
(***************************************************************************)
(* What the trash promises: a document that was archived can be read back  *)
(* until it is removed, the bin is emptied, or newer documents need its    *)
(* place.  Every operation happens at once or not at all, and nothing that *)
(* left the bin comes back.                                                *)
(***************************************************************************)
EXTENDS Naturals, FiniteSets, FiniteSetsExt

CONSTANTS
  Ids,         \* entry identifiers, numbered by age: the creation time, then the identifier
  Size,        \* Size[id]: the bytes of a document
  MaxEntries,  \* TrashLimits.max_entries
  MaxBytes     \* TrashLimits.max_total_bytes

VARIABLES
  kept,  \* the documents that can be read back
  gone   \* the ones that left, and the ones whose archive failed

Bytes(ids) == MapThenSumSet(LAMBDA id : Size[id], ids)
Fits(ids)  == Cardinality(ids) <= MaxEntries /\ Bytes(ids) <= MaxBytes

Init == kept = {} /\ gone = {}

\* The oldest documents make room for a new one, and no more of them than must.
Archive(id) ==
  /\ id \notin kept \cup gone
  /\ \E evicted \in SUBSET kept :
       /\ \A old \in evicted, young \in kept \ evicted : old < young
       /\ Fits((kept \ evicted) \cup {id})
       /\ \A young \in evicted : (\A old \in evicted : old <= young)
            => ~Fits((kept \ evicted) \cup {id, young})
       /\ kept' = (kept \ evicted) \cup {id}
       /\ gone' = gone \cup evicted

Remove(id) ==
  /\ id \in kept
  /\ kept' = kept \ {id}
  /\ gone' = gone \cup {id}

EmptyBin ==
  /\ kept' = {}
  /\ gone' = gone \cup kept

\* An archive that fails drops nothing; its identifier is not used again.
Refuse(id) ==
  /\ id \notin kept \cup gone
  /\ gone' = gone \cup {id}
  /\ UNCHANGED kept

Next == EmptyBin \/ \E id \in Ids : Archive(id) \/ Remove(id) \/ Refuse(id)

Spec == Init /\ [][Next]_<<kept, gone>>
=============================================================================
