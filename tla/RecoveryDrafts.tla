---------------------------- MODULE RecoveryDrafts ----------------------------
(***************************************************************************)
(* The recovery draft of a window (useRecoveryDraft.ts,                    *)
(* recoveryDraftScheduler.ts, draftStore.ts) around the document and the   *)
(* saves of DocumentSaving: the editor's reports schedule a draft or drop  *)
(* it, what opens, creates or saves a document drops it, and a page that   *)
(* starts after a crash offers the draft it finds.                         *)
(*                                                                         *)
(* An untitled document has no file and counts as one saved with an empty  *)
(* text.  The transitions of the file workflow lock the editor until their *)
(* result is applied, so each is one step up to there; the watch that      *)
(* follows is awaited unlocked.                                            *)
(***************************************************************************)
EXTENDS DocumentSaving

CONSTANT NoText  \* no draft, or no save point

ASSUME DraftAssumption == NoText \notin Texts

VARIABLES
  slot,      \* the draft in the window's local storage
  timer,     \* the scheduler's timer is set
  offered,   \* pendingRecoveryDraft: the draft the dialog asks about
  named,     \* the document has a path
  watching,  \* the transition whose watch is awaited: "none", "new", "open" or "as" (Save As)
  safeAt,    \* the revision at which the save, or the Save As, left the document clean
  exposed    \* history: New dropped the draft of a text that came after it, and no report followed

windowVars == <<offered, named, watching, safeAt>>
draft == <<slot, timer>>
draftsVars == <<savingVars, draft, windowVars, exposed>>

NoneSafe == [save |-> {}, as |-> {}]

DraftsInit ==
  /\ SavingInit
  /\ slot = NoText /\ timer = FALSE /\ offered = NoText
  /\ named = FALSE /\ watching = "none" /\ safeAt = NoneSafe
  /\ exposed = FALSE

-----------------------------------------------------------------------------
(* The draft.                                                              *)

Schedule == timer' = TRUE /\ UNCHANGED <<slot, offered>>

\* MUTANT of Drop: the timer is not cancelled.
DropStored == slot' = NoText /\ offered' = NoText /\ UNCHANGED timer

\* clearRecoveryDraft, which is also discardRecoveryDraft and onDocumentBecameSafe.
Drop == timer' = FALSE /\ slot' = NoText /\ offered' = NoText

KeepDraft == UNCHANGED <<slot, timer, offered>>

\* MUTANT of Reported: a draft is only scheduled when a clean document becomes dirty.
ReportedOnce(isDirty) ==
  /\ IF ~isDirty THEN Drop ELSE IF dirty THEN KeepDraft ELSE Schedule
  /\ exposed' = FALSE

\* onDocumentChanged, when the text or whether it differs from the save point has changed.
Reported(isDirty) ==
  /\ IF isDirty THEN Schedule ELSE Drop
  /\ exposed' = FALSE

NotReported == KeepDraft /\ UNCHANGED exposed

\* 500 ms without an edit: the draft is the text as it is now.
DraftTimerFires ==
  /\ timer
  /\ timer' = FALSE /\ slot' = text
  /\ UNCHANGED <<savingVars, windowVars, exposed>>

-----------------------------------------------------------------------------
(* Editing and saving.  The dialog is modal: it leaves only shortcuts.     *)

Type ==
  /\ offered = NoText
  /\ \E new \in Texts : Edit(new) /\ Reported(new # savepoint)
  /\ UNCHANGED <<named, watching, safeAt>>

\* A save of an untitled document, or during an open, returns at once.
Save ==
  /\ named /\ watching = "none"
  /\ RequestSave("user")
  /\ UNCHANGED <<draft, windowVars, exposed>>

Write == WriteFile /\ UNCHANGED <<draft, windowVars, exposed>>

Apply ==
  /\ ApplySave
  /\ IF EditorReports(Head(saves).snapshot) THEN Reported(text # Head(saves).snapshot) ELSE NotReported
  /\ safeAt' = [safeAt EXCEPT !.save = IF dirty' THEN {} ELSE {revision'}]
  /\ UNCHANGED <<named, watching>>

\* The document stayed clean since the result was applied.
StillSafe(revisions) == ~dirty /\ revision \in revisions

SaveReturns ==
  /\ SaveEnds(<<>>)
  /\ IF StillSafe(safeAt.save) THEN Drop ELSE KeepDraft
  /\ safeAt' = [safeAt EXCEPT !.save = {}]
  /\ UNCHANGED <<named, watching, exposed>>

-----------------------------------------------------------------------------
(* New, Open and Save As.  Each supersedes a save that awaits its watch.   *)

MayChange == watching = "none" /\ stage \in {"idle", "watching"}

\* The editor loads a saved text; it reports nothing when neither it nor the dirty mark changes.
Loaded(new) ==
  /\ text' = new /\ savepoint' = new /\ disk' = new
  /\ dirty' = FALSE /\ UNCHANGED revision
  /\ IF text # new \/ text # savepoint THEN Reported(FALSE) ELSE NotReported

\* createNewDocument, once the user gave up unsaved text.
New ==
  /\ MayChange
  /\ Loaded(EmptyText)
  /\ named' = FALSE /\ watching' = "new" /\ safeAt' = NoneSafe
  /\ UNCHANGED queue

\* openPath, from a shortcut, the menu or the restored session: any file, with any text.
Open ==
  /\ MayChange
  /\ \E new \in Texts : Loaded(new)
  /\ named' = TRUE /\ watching' = "open" /\ safeAt' = NoneSafe
  /\ UNCHANGED queue

SaveAs ==
  /\ MayChange
  /\ Loaded(text)
  /\ named' = TRUE /\ watching' = "as" /\ safeAt' = [save |-> {}, as |-> {revision}]
  /\ UNCHANGED queue

\* New drops the draft whatever was typed in the meantime.
NewEnds ==
  /\ watching = "new"
  /\ Drop
  /\ exposed' = (text # savepoint)

OpenEnds ==
  /\ watching = "open"
  /\ IF ~dirty /\ text = disk THEN Drop ELSE KeepDraft
  /\ UNCHANGED exposed

SaveAsEnds ==
  /\ watching = "as"
  /\ IF StillSafe(safeAt.as) THEN Drop ELSE KeepDraft
  /\ UNCHANGED exposed

Watched ==
  /\ NewEnds \/ OpenEnds \/ SaveAsEnds
  /\ watching' = "none" /\ safeAt' = [safeAt EXCEPT !.as = {}]
  /\ UNCHANGED <<savingVars, named>>

-----------------------------------------------------------------------------
(* Crash and recovery.                                                     *)

\* The process ends; the window's next page is ready with an untitled document and reads the slot.
Crash ==
  /\ text' = EmptyText /\ savepoint' = EmptyText /\ disk' = EmptyText
  /\ dirty' = FALSE /\ revision' = 0
  /\ saves' = <<>> /\ stage' = "idle" /\ started' = 0
  /\ timer' = FALSE /\ offered' = slot
  /\ named' = FALSE /\ watching' = "none" /\ safeAt' = NoneSafe
  /\ exposed' = FALSE
  /\ UNCHANGED slot

\* The draft becomes an untitled document without a save point, which the editor reports.
Restore ==
  /\ offered # NoText
  /\ text' = offered /\ savepoint' = NoText /\ disk' = EmptyText
  /\ dirty' = TRUE /\ revision' = revision + 1
  /\ slot' = offered /\ timer' = TRUE
  /\ offered' = NoText /\ named' = FALSE /\ exposed' = FALSE
  /\ UNCHANGED <<queue, watching, safeAt>>

DiscardDraft ==
  /\ offered # NoText
  /\ Drop
  /\ UNCHANGED <<savingVars, named, watching, safeAt, exposed>>

DraftsNext ==
  \/ Type \/ DraftTimerFires
  \/ Save \/ Write \/ Apply \/ SaveReturns
  \/ New \/ Open \/ SaveAs \/ Watched
  \/ Crash \/ Restore \/ DiscardDraft

DraftsSpec == DraftsInit /\ [][DraftsNext]_draftsVars

-----------------------------------------------------------------------------
(* Properties.                                                             *)

\* Whatever a crash takes: the text in the editor is the saved one, or in the draft, or younger
\* than the debounce; and what the dialog offers is still stored.  The code makes one exception:
\* text that is typed, or restored, while New awaits its watch (see the README).
UnsavedTextIsRecoverable ==
  IF offered # NoText THEN slot = offered
  ELSE text = savepoint \/ slot = text \/ timer \/ exposed

\* A document that is saved leaves no draft behind, nor a timer that would write one: no start
\* offers text that was saved, or an older version of it.
NothingStaleIsOffered == ~dirty /\ offered = NoText => slot = NoText /\ ~timer

-----------------------------------------------------------------------------
(* Properties the code does not have (see the README).                     *)

\* Only the user's answer, or a crash, takes an offer away; but New, Open and Save As drop the
\* draft of an offer that was not answered.
OffersAreAnswered ==
  [][offered # NoText /\ offered' = NoText => Restore \/ DiscardDraft]_draftsVars

\* The same without the exception.
TypedTextIsRecoverable == UnsavedTextIsRecoverable /\ ~exposed
=============================================================================
