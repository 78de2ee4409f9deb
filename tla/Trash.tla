-------------------------------- MODULE Trash --------------------------------
(***************************************************************************)
(* The application's trash (src-tauri/src/services/trash_service.rs): a    *)
(* manifest file that lists the entries, and one content file per entry in *)
(* the directory items.  One mutex serialises the operations, and the      *)
(* manifest and a content file are each written atomically; but an         *)
(* operation touches several files, every step of it can fail, and the     *)
(* process can stop between any two steps.                                 *)
(*                                                                         *)
(* An operation that drops entries renames their contents to staged names, *)
(* writes the manifest without them, and deletes the staged files.  Every  *)
(* operation starts by reconciling the directory with the manifest, which  *)
(* is how an interrupted one is taken back or finished.                    *)
(***************************************************************************)
EXTENDS Naturals, FiniteSets, FiniteSetsExt

CONSTANTS
  Ids,         \* entry identifiers (UUIDs), numbered by creation time and then identifier
  Size,        \* Size[id]: the bytes of the document
  MaxEntries,  \* TrashLimits.max_entries
  MaxBytes,    \* TrashLimits.max_total_bytes
  NoId

ASSUME TrashAssumption ==
  /\ Ids \subseteq Nat
  /\ Size \in [Ids -> Nat]
  /\ MaxEntries \in Nat \ {0}
  /\ MaxBytes \in Nat \ {0}
  /\ NoId \notin Ids

VARIABLES
  manifest,  \* the entries listed in manifest.json
  content,   \* the entries with a file <id>.md
  staged,    \* the entries with a file .lm-delete-<id>-<uuid>
  used,      \* the identifiers that were ever generated
  op         \* the operation that holds the mutex, and the step it is at

files == <<manifest, content, staged>>
vars == <<manifest, content, staged, used, op>>

Kinds  == {"read", "archive", "remove", "empty"}
Phases == {"reconcile", "write", "stage", "unstage", "rollback", "undo", "cleanup"}

\* The entry it is about, the manifest it will write, and the files its loop has yet to treat.
Operation == [kind : Kinds, phase : Phases, id : Ids \cup {NoId},
              after : SUBSET Ids, left : SUBSET Ids]
Idle == [kind |-> "read", phase |-> "idle", id |-> NoId, after |-> {}, left |-> {}]

Init ==
  /\ manifest = {} /\ content = {} /\ staged = {}
  /\ used = {}
  /\ op = Idle

In(phase) == op.phase = phase
GoTo(phase) == op' = [op EXCEPT !.phase = phase]
Answer == op' = Idle

-----------------------------------------------------------------------------
(* Reconciling the directory with the manifest.                            *)

\* list, read and restore change nothing beyond the reconciliation and count as one kind.
Start(kind, id) ==
  /\ In("idle")
  /\ IF kind = "remove" THEN id \in Ids ELSE id = NoId
  /\ op' = [Idle EXCEPT !.kind = kind, !.phase = "reconcile", !.id = id]
  /\ UNCHANGED <<files, used>>

\* reconcile_content, one directory entry at a time.

\* MUTANT of RestoreStaged: what was on its way out is deleted, listed or not.
DeleteStaged(id) ==
  /\ id \in staged
  /\ staged' = staged \ {id}
  /\ UNCHANGED content

Wanted(id) == id \in manifest /\ id \notin content
RestoreStaged(id) ==
  /\ id \in staged
  /\ staged' = staged \ {id}
  /\ content' = IF Wanted(id) THEN content \cup {id} ELSE content

RemoveUnlisted(id) ==
  /\ id \in content \ manifest
  /\ content' = content \ {id}
  /\ UNCHANGED staged

Reconcile(id) ==
  /\ In("reconcile")
  /\ RestoreStaged(id) \/ RemoveUnlisted(id)
  /\ UNCHANGED <<manifest, used, op>>

\* load_manifest, a rename or a deletion fails, or the manifest lists what is not there.
ReconcileFails ==
  /\ In("reconcile")
  /\ Answer
  /\ UNCHANGED <<files, used>>

-----------------------------------------------------------------------------
(* The operations after the reconciliation.                                *)

\* ensure_manifest_content_exists
Reconciled == In("reconcile") /\ staged = {} /\ content = manifest

ReadAnswers ==
  /\ Reconciled /\ op.kind = "read"
  /\ Answer
  /\ UNCHANGED <<files, used>>

\* archive: its text fits the trash, or it was refused before.
ArchiveProceeds ==
  /\ Reconciled /\ op.kind = "archive"
  /\ GoTo("write")
  /\ UNCHANGED <<files, used>>

Bytes(ids) == MapThenSumSet(LAMBDA id : Size[id], ids)
Fits(ids)  == Cardinality(ids) <= MaxEntries /\ Bytes(ids) <= MaxBytes
OldestOf(ids, n) == {id \in ids : Cardinality({older \in ids : older < id}) < n}

\* MUTANTS of Evicted: the new entry is not protected, and the bytes are not counted.
EvictedUnprotected(ids, new) ==
  OldestOf(ids, CHOOSE n \in 0 .. Cardinality(ids) :
    /\ Fits(ids \ OldestOf(ids, n))
    /\ \A k \in 0 .. (n - 1) : ~Fits(ids \ OldestOf(ids, k)))
EvictedByCount(ids, new) ==
  IF Cardinality(ids) <= MaxEntries THEN {}
  ELSE OldestOf(ids \ {new}, Cardinality(ids) - MaxEntries)

\* enforce_limits: the fewest of the oldest other entries that make the rest fit.
Evicted(ids, new) ==
  LET others == ids \ {new}
      n == CHOOSE n \in 0 .. Cardinality(others) :
             /\ Fits(ids \ OldestOf(others, n))
             /\ \A k \in 0 .. (n - 1) : ~Fits(ids \ OldestOf(others, k))
  IN OldestOf(others, n)

\* The content is written first; `valid` is whether the evicted contents could be read and matched.
WriteContent(id, valid) ==
  LET evicted == Evicted(manifest \cup {id}, id)
  IN /\ In("write")
     /\ id \in Ids \ used /\ Size[id] <= MaxBytes
     /\ content' = content \cup {id}
     /\ used' = used \cup {id}
     /\ op' = [op EXCEPT !.id = id, !.after = (manifest \cup {id}) \ evicted,
                         !.left = evicted, !.phase = IF valid THEN "stage" ELSE "undo"]
     /\ UNCHANGED <<manifest, staged>>

WriteContentFails ==
  /\ In("write")
  /\ Answer
  /\ UNCHANGED <<files, used>>

\* remove and empty: an unknown entry, an empty bin or unreadable content changes nothing.
RemoveProceeds(valid) ==
  /\ Reconciled /\ op.kind = "remove"
  /\ IF op.id \in manifest /\ valid
     THEN op' = [op EXCEPT !.after = manifest \ {op.id}, !.left = {op.id}, !.phase = "stage"]
     ELSE Answer
  /\ UNCHANGED <<files, used>>

EmptyProceeds(valid) ==
  /\ Reconciled /\ op.kind = "empty"
  /\ IF manifest # {} /\ valid
     THEN op' = [op EXCEPT !.after = {}, !.left = manifest, !.phase = "stage"]
     ELSE Answer
  /\ UNCHANGED <<files, used>>

-----------------------------------------------------------------------------
(* Staging, the manifest, and what follows either outcome.                 *)

\* stage_entries, in any order.  A failure takes the renames back.
Stage(id, ok) ==
  /\ In("stage") /\ id \in op.left
  /\ IF ok THEN /\ content' = content \ {id}
                /\ staged' = staged \cup {id}
                /\ op' = [op EXCEPT !.left = @ \ {id}]
           ELSE GoTo("unstage") /\ UNCHANGED <<content, staged>>
  /\ UNCHANGED <<manifest, used>>

WriteManifest(ok) ==
  /\ In("stage") /\ op.left = {}
  /\ IF ok THEN manifest' = op.after /\ op' = [op EXCEPT !.phase = "cleanup", !.left = staged]
           ELSE GoTo("rollback") /\ UNCHANGED manifest
  /\ UNCHANGED <<content, staged, used>>

\* MUTANT of GiveUp: every operation deletes the content of the entry it is about.
GiveUpEntry == GoTo("undo")

\* An archive that failed deletes the content it wrote, if it can.
GiveUp == IF op.kind = "archive" THEN GoTo("undo") ELSE Answer

\* rollback_staged.  Where it fails after the manifest could not be written, the operation
\* returns at once; inside stage_entries an archive still deletes its content.
Unstage(id, ok) ==
  /\ op.phase \in {"unstage", "rollback"} /\ id \in staged
  /\ IF ok THEN /\ staged' = staged \ {id}
                /\ content' = content \cup {id}
                /\ UNCHANGED op
           ELSE /\ IF In("unstage") THEN GiveUp ELSE Answer
                /\ UNCHANGED <<content, staged>>
  /\ UNCHANGED <<manifest, used>>

Unstaged ==
  /\ op.phase \in {"unstage", "rollback"} /\ staged = {}
  /\ GiveUp
  /\ UNCHANGED <<files, used>>

Undo(ok) ==
  /\ In("undo")
  /\ content' = IF ok THEN content \ {op.id} ELSE content
  /\ Answer
  /\ UNCHANGED <<manifest, staged, used>>

\* cleanup_staged goes on when a file cannot be deleted.
Cleanup(id, ok) ==
  /\ In("cleanup") /\ id \in op.left
  /\ staged' = IF ok THEN staged \ {id} ELSE staged
  /\ op' = [op EXCEPT !.left = @ \ {id}]
  /\ UNCHANGED <<manifest, content, used>>

CleanedUp ==
  /\ In("cleanup") /\ op.left = {}
  /\ Answer
  /\ UNCHANGED <<files, used>>

\* The process stops; the files stay as they are.
Crash ==
  /\ ~In("idle")
  /\ Answer
  /\ UNCHANGED <<files, used>>

Next ==
  \/ \E kind \in Kinds, id \in Ids \cup {NoId} : Start(kind, id)
  \/ \E id \in Ids : Reconcile(id)
  \/ ReconcileFails \/ ReadAnswers \/ ArchiveProceeds \/ WriteContentFails
  \/ \E valid \in BOOLEAN : RemoveProceeds(valid) \/ EmptyProceeds(valid)
  \/ \E id \in Ids, valid \in BOOLEAN : WriteContent(id, valid)
  \/ \E id \in Ids, ok \in BOOLEAN : Stage(id, ok) \/ Unstage(id, ok) \/ Cleanup(id, ok)
  \/ \E ok \in BOOLEAN : WriteManifest(ok) \/ Undo(ok)
  \/ Unstaged \/ CleanedUp \/ Crash

Spec == Init /\ [][Next]_vars

-----------------------------------------------------------------------------
(* Properties.                                                             *)

\* The variables keep their types.
TypeOK ==
  /\ manifest \subseteq used /\ content \subseteq used /\ staged \subseteq used
  /\ used \subseteq Ids
  /\ op \in Operation \cup {Idle}

\* An entry the manifest lists has its content in the directory, under its own or a staged
\* name, whatever failed and wherever the process stopped: the next reconciliation finds it.
NothingListedIsLost == manifest \subseteq content \cup staged

\* The listed entries respect both limits at every step.
BinWithinLimits == Fits(manifest)

\* Until the manifest is written every file an operation touched is there to be put back, and
\* afterwards it deletes nothing that is listed: a failed step never costs a listed entry.
Before == {"stage", "unstage", "rollback"}
TransactionsAreUndoable ==
  /\ op.phase \in Before =>
       /\ op.left \cup staged \subseteq manifest \ op.after
       /\ op.after \subseteq content
  /\ In("stage") => staged \cap op.left = {} /\ manifest \ op.after = staged \cup op.left
  /\ In("write") => staged = {}
  /\ op.phase \in {"write", "cleanup"} => manifest \subseteq content
  /\ (op.kind = "archive" /\ op.phase \in Before) \/ In("undo") => op.id \notin manifest

\* The service implements the bin: each operation takes effect at once, when the manifest is
\* written, or not at all, and what left the bin never comes back.
Pending == IF op.kind = "archive" /\ In("stage") THEN {op.id} ELSE {}
Readable == manifest \cap (content \cup staged)
Bin == INSTANCE TrashBin WITH kept <- Readable, gone <- used \ (Readable \cup Pending)
ImplementsTrashBin == Bin!Spec
=============================================================================
