---------------------------- MODULE DocumentSaving ----------------------------
(***************************************************************************)
(* Saving the document of a window: the editor and its save point          *)
(* (editorApi.ts, createEditorState.ts), the dirty mark and revision of    *)
(* the store (appStore.ts), and the queued saves of the file workflow      *)
(* (saveCurrentFile in useFileWorkflow.ts, prepareCurrentFileSave in       *)
(* fileActions.ts, the queue in documentClaimWorkflowRuntime.ts).          *)
(*                                                                         *)
(* JavaScript runs one callback at a time: an action is what happens from  *)
(* one event to the next, with the promise reactions it sets off.  A save  *)
(* that finds the queue empty, or that reaches its head, begins in the     *)
(* same turn.                                                              *)
(***************************************************************************)
EXTENDS Naturals, Sequences

CONSTANTS
  Texts,        \* the texts the document may have
  EmptyText,    \* the one it is opened with
  MaxRevision,  \* bound of this model: how many dirty revisions there are
  MaxSaves      \* bound of this model: the user requests a save while fewer than this wait or run

ASSUME SavingAssumption ==
  /\ EmptyText \in Texts
  /\ MaxRevision \in Nat /\ MaxSaves \in Nat

VARIABLES
  text,       \* what the editor holds
  savepoint,  \* the text the editor regards as saved
  disk,       \* what the file holds
  dirty,      \* dirty of the store
  revision,   \* dirtyRevision of the store
  saves,      \* the queue of requested saves; the first one is running
  stage,      \* what the running save waits for
  started     \* saveStartedAtRevision of the running save

document == <<text, savepoint, disk, dirty, revision>>
queue == <<saves, stage, started>>
savingVars == <<document, queue>>

Requesters == {"user", "autosave"}
Revisions == 0 .. (MaxRevision + MaxSaves + 1)
Request == [snapshot : Texts, by : Requesters]

SavingInit ==
  /\ text = EmptyText /\ savepoint = EmptyText /\ disk = EmptyText
  /\ dirty = FALSE /\ revision = 0
  /\ saves = <<>> /\ stage = "idle" /\ started = 0

\* setDirty: only a dirty document advances the revision.
SetDirty(isDirty) ==
  /\ dirty' = isDirty
  /\ revision' = IF isDirty THEN revision + 1 ELSE revision

\* The user types, or returns to an earlier text; the editor reports whether it differs from
\* the save point.
Edit(new) ==
  /\ new # text /\ revision < MaxRevision
  /\ text' = new
  /\ SetDirty(new # savepoint)
  /\ UNCHANGED <<savepoint, disk, queue>>

-----------------------------------------------------------------------------
(* The queue of saves.                                                     *)

\* saveCurrentFile captures the snapshot when the save is requested.
NewRequest(by) == [snapshot |-> text, by |-> by]

\* The head of the queue begins: prepareCurrentFileSave reads the revision.
Begin(requests, atRevision) ==
  /\ saves' = requests
  /\ stage' = IF requests = <<>> THEN "idle" ELSE "writing"
  /\ started' = IF requests = <<>> THEN 0 ELSE atRevision

Enqueue(requests) ==
  IF stage = "idle" THEN Begin(requests, revision)
  ELSE saves' = saves \o requests /\ UNCHANGED <<stage, started>>

RequestSave(by) ==
  /\ Len(saves) < MaxSaves
  /\ Enqueue(<<NewRequest(by)>>)
  /\ UNCHANGED document

\* MUTANT of Applied: the revision is not compared.
AppliedAlways(snapshot) ==
  /\ savepoint' = snapshot
  /\ dirty' = FALSE
  /\ UNCHANGED revision

(* apply: the snapshot becomes the save point, which the editor reports when it changes whether *)
(* the text differs from it; then the store is clean when its revision is still that of the     *)
(* start.                                                                                       *)
EditorReports(snapshot) == (text # savepoint) # (text # snapshot)
Applied(snapshot) ==
  LET reported == EditorReports(snapshot)
      revised  == IF reported /\ text # snapshot THEN revision + 1 ELSE revision
  IN /\ savepoint' = snapshot
     /\ revision' = revised
     /\ dirty' = IF revised = started THEN FALSE
                 ELSE IF reported THEN text # snapshot ELSE dirty

\* The shell has written the file; its answer is on the way, and the user goes on typing.
WriteFile ==
  /\ stage = "writing"
  /\ disk' = Head(saves).snapshot
  /\ stage' = "written"
  /\ UNCHANGED <<text, savepoint, dirty, revision, saves, started>>

\* The answer is applied; the save goes on to reinstall the watch of the file.
ApplySave ==
  /\ stage = "written"
  /\ Applied(Head(saves).snapshot)
  /\ stage' = "watching"
  /\ UNCHANGED <<text, disk, saves, started>>

\* The save ends: its watch is installed, or it was refused or failed and changed nothing.
\* `more` are the saves requested in the same turn.
SaveEnds(more) ==
  /\ stage \in {"writing", "watching"}
  /\ Begin(Tail(saves) \o more, revision)
  /\ UNCHANGED document

-----------------------------------------------------------------------------
(* The document without autosave.                                          *)

SavingNext ==
  \/ \E new \in Texts : Edit(new)
  \/ RequestSave("user")
  \/ WriteFile \/ ApplySave
  \/ SaveEnds(<<>>)

SavingSpec == SavingInit /\ [][SavingNext]_savingVars

-----------------------------------------------------------------------------
(* Properties.                                                             *)

\* Every variable of the document and of the queue has its type.
SavingTypeOK ==
  /\ text \in Texts /\ savepoint \in Texts /\ disk \in Texts
  /\ dirty \in BOOLEAN /\ revision \in Revisions
  /\ saves \in Seq(Request) /\ Len(saves) <= MaxSaves + 1
  /\ stage \in {"idle", "writing", "written", "watching"} /\ (stage = "idle" <=> saves = <<>>)
  /\ started \in 0 .. revision

\* A document that is shown clean is the one on disk, except while the answer of a write is on
\* its way: no save result marks an edit clean that the save did not write.
CleanMeansSaved == ~dirty /\ stage # "written" => text = disk
=============================================================================
