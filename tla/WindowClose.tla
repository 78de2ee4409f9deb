----------------------------- MODULE WindowClose -----------------------------
(***************************************************************************)
(* Closing a window: the coordinator (app/controllers/appCloseCoordinator  *)
(* and useAppCloseCoordinator.ts), the guard and the dialog of a dirty     *)
(* document (features/file-actions/documentCloseGuard.ts and               *)
(* useDocumentCloseController.ts), over the settings store they flush.     *)
(*                                                                         *)
(* The guard is memoized on `bypass`, whose default is a new function in   *)
(* every render, and the coordinator on the guard: so every render makes   *)
(* a new guard and a new coordinator, with no close in flight, and         *)
(* replaces the listener of native close requests.                         *)
(*                                                                         *)
(* The document is a number of edits, so that no text comes back; its      *)
(* saves wait in the queue of DocumentSaving, whose writes and results are *)
(* one step here.  The guard reads the dirty flag of the store and nothing *)
(* else, and what a save marks clean it has not always written.            *)
(***************************************************************************)
EXTENDS SettingsStore, Sequences

CONSTANTS
  Attempts,   \* the close attempts
  MaxEdits,   \* bound of this model: the number of edits
  MaxSaves,   \* bound of this model: the page saves while fewer saves than this wait or run
  NoAttempt
ASSUME CloseAssumption ==
  /\ MaxEdits \in Nat /\ MaxSaves \in Nat
  \* what else `window`, `inFlight` and the queue of saves hold
  /\ {NoAttempt, "open", "native", "page"} \cap Attempts = {}

VARIABLES
  text,      \* how many edits the document has
  dirty,     \* dirty of the store, which getSession reads
  disk,      \* the version in the file
  trash,     \* the latest version in the trash
  saves,     \* the queue of requested saves; the first one is running
  stage,     \* how far the running save is; "revised": the document was edited since it began
  missed,    \* history: versions that a save marked clean and did not write
  phase,     \* what each attempt waits for, or how it ended
  decided,   \* the edits and the settings when the attempt was allowed to go on
  inFlight,  \* closeInFlight of the current coordinator
  asked,     \* the attempt whose prompt pendingChoice answers
  listener,  \* native close requests reach the page
  window     \* whether the window exists, or who destroyed it

queue == <<saves, stage>>
documentVars == <<text, dirty, disk, trash, missed, queue>>
closeVars == <<documentVars, phase, decided, inFlight, asked, listener, window>>
vars == <<settingsVars, closeVars>>

Ended == {"closed", "stopped"}
Waiting == {"flushing", "asked", "saving", "archiving", "settings", "destroying"}
Native == "native"  \* the shell closed the window by itself
Page == "page"      \* who asks for a save that no attempt waits for
Undecided == [text |-> 0, settings |-> 0]
Later(m, n) == IF m < n THEN n ELSE m
Open == window = "open"
\* The attempts whose prompt another one replaced: they are answered by nobody.
Overtaken == {a \in Attempts : phase[a] = "asked" /\ asked # a}

Init ==
  /\ SettingsInit
  /\ text = 0 /\ dirty = FALSE /\ disk = 0 /\ trash = 0 /\ missed = {}
  /\ saves = <<>> /\ stage = "idle"
  /\ phase = [a \in Attempts |-> "new"]
  /\ decided = [a \in Attempts |-> Undecided]
  /\ inFlight = NoAttempt /\ asked = NoAttempt
  /\ listener = FALSE /\ window = "open"

-----------------------------------------------------------------------------
(* The page.                                                               *)

\* The prompt is modal: nobody types while it is open.
Edit ==
  /\ Open /\ load \notin Hydrating /\ asked = NoAttempt /\ text < MaxEdits
  /\ text' = text + 1 /\ dirty' = TRUE
  /\ stage' = IF stage = "writing" THEN "revised" ELSE stage
  /\ UNCHANGED <<settingsVars, disk, trash, missed, saves, phase, decided, inFlight, asked,
                 listener, window>>

\* Every render, with its effects: a new coordinator, and the listener of the old one is removed.
Render ==
  /\ Open /\ load \notin Hydrating
  /\ inFlight' = NoAttempt /\ listener' = FALSE
  /\ UNCHANGED <<settingsVars, documentVars, phase, decided, asked, window>>

\* The registration of the new listener is answered.
ListenerRegistered ==
  /\ Open /\ ~listener /\ load \notin Hydrating
  /\ listener' = TRUE
  /\ UNCHANGED <<settingsVars, documentVars, phase, decided, inFlight, asked, window>>

-----------------------------------------------------------------------------
(* The saves.                                                              *)

\* The head of the queue begins: prepareCurrentFileSave reads the revision.
Begin(requests) ==
  /\ saves' = requests
  /\ stage' = IF requests = <<>> THEN "idle" ELSE "writing"

\* saveCurrentFile captures the text when the save is requested.
Enqueue(by) ==
  LET requests == Append(saves, [snapshot |-> text, by |-> by])
  IN IF saves = <<>> THEN Begin(requests) ELSE saves' = requests /\ UNCHANGED stage

\* The user saves, or the autosave does.
RequestSave ==
  /\ Open /\ load \notin Hydrating /\ Len(saves) < MaxSaves
  /\ Enqueue(Page)
  /\ UNCHANGED <<settingsVars, text, dirty, disk, trash, missed, phase, decided, inFlight, asked,
                 listener, window>>

\* The file is written and the result applied: the document is clean when its revision is that
\* of the save's begin, whatever the text was that the save captured before it waited.
SaveApplied ==
  /\ Open /\ stage \in {"writing", "revised"}
  /\ disk' = Head(saves).snapshot
  /\ dirty' = (dirty /\ stage = "revised")
  /\ missed' = IF ~dirty' /\ text # disk' THEN missed \cup {text} ELSE missed
  /\ stage' = "watching"
  /\ UNCHANGED <<settingsVars, text, trash, saves, phase, decided, inFlight, asked,
                 listener, window>>

-----------------------------------------------------------------------------
(* An attempt.                                                             *)

\* What the decision of an attempt is about.
Decide(a) == decided' = [decided EXCEPT ![a] = [text |-> text, settings |-> settings]]

\* An attempt ends with the window open; the coordinator that ran it may be asked again.
Ends(a, result) ==
  /\ phase' = [phase EXCEPT ![a] = result]
  /\ decided' = [decided EXCEPT ![a] = Undecided]
  /\ inFlight' = IF inFlight = a THEN NoAttempt ELSE inFlight

\* requestClose of the title bar or of a native request that reached the page: it joins the
\* attempt in flight, if the coordinator has one, or starts one.
RequestClose(a) ==
  /\ Open /\ load \notin Hydrating
  /\ phase[a] = "new"
  /\ IF inFlight # NoAttempt THEN UNCHANGED <<phase, inFlight>>
     ELSE phase' = [phase EXCEPT ![a] = "flushing"] /\ inFlight' = a
  /\ UNCHANGED <<settingsVars, documentVars, decided, asked, listener, window>>

\* The window is destroyed, and with its page all that waits there.
Destroyed(by) ==
  /\ window' = by
  /\ saves' = <<>> /\ stage' = "idle"
  /\ phase' = [a \in Attempts |-> "closed"] /\ inFlight' = NoAttempt /\ asked' = NoAttempt
  /\ decided' = [a \in Attempts |-> IF a = by THEN decided[a] ELSE Undecided]
  /\ listener' = FALSE

\* A native request while no listener is registered: the shell destroys the window.
NativeClose ==
  /\ Open /\ ~listener /\ load \notin Hydrating
  /\ Destroyed(Native)
  /\ UNCHANGED <<settingsVars, text, dirty, disk, trash, missed>>

\* flushSettings, joining the drain that runs or starting one; without either it is done at once.
FlushSettings(a) ==
  /\ FlushPending(pending)
  /\ phase' = [phase EXCEPT ![a] = IF blocked \/ writing' = {} THEN "destroying" ELSE "settings"]
  /\ UNCHANGED inFlight

\* The flush of autosave ended (WindowAutosave has its steps and the saves it makes): a clean
\* document is closed, any other is asked about.  The prompt has one resolver, and a later prompt
\* takes it.
AutosaveFlushed(a) ==
  /\ Open /\ phase[a] = "flushing"
  /\ IF ~dirty
     THEN Decide(a) /\ FlushSettings(a) /\ UNCHANGED asked
     ELSE /\ asked' = a /\ phase' = [phase EXCEPT ![a] = "asked"]
          /\ UNCHANGED <<settingsVars, decided, inFlight>>
  /\ UNCHANGED <<documentVars, listener, window>>

\* The user answers the prompt: settle answers the attempt that asked last.  Its save waits in
\* the queue; its text for the trash is read at once.
Choose(choice) ==
  /\ Open /\ asked # NoAttempt
  /\ asked' = NoAttempt
  /\ CASE choice = "cancel"  -> Ends(asked, "stopped") /\ UNCHANGED queue
       [] choice = "save"    -> /\ phase' = [phase EXCEPT ![asked] = "saving"]
                                /\ Enqueue(asked) /\ UNCHANGED <<decided, inFlight>>
       [] choice = "discard" -> /\ phase' = [phase EXCEPT ![asked] = "archiving"]
                                /\ Decide(asked) /\ UNCHANGED <<inFlight, queue>>
  /\ UNCHANGED <<settingsVars, text, dirty, disk, trash, missed, listener, window>>

\* MUTANT of Saved: an edit made during the save does not stop the close.
SavedOrSuperseded(a) == Decide(a) /\ FlushSettings(a)

\* saveVoidAsOutcome: the close goes on when the store says the document is clean after its
\* save; one that is dirty still, or again, stops it.
Saved(a) ==
  IF ~dirty THEN Decide(a) /\ FlushSettings(a)
  ELSE Ends(a, "stopped") /\ UNCHANGED settingsVars

\* A save ends, refused or failed or with its watch installed, and the next one begins; the
\* attempt that asked for it learns that it ended, or that it threw.
SaveEnds(thrown) ==
  /\ Open /\ stage \in {"writing", "revised", "watching"}
  /\ Begin(Tail(saves))
  /\ LET by == Head(saves).by
     IN CASE by \notin Attempts -> UNCHANGED <<settingsVars, phase, decided, inFlight>>
          [] by \in Attempts /\ ~thrown -> Saved(by)
          [] by \in Attempts /\ thrown -> Ends(by, "stopped") /\ UNCHANGED settingsVars
  /\ UNCHANGED <<text, dirty, disk, trash, missed, asked, listener, window>>

\* archiveDiscard is answered: the trash has the text of the moment it was called, or refused it.
Archived(a, ok) ==
  /\ Open /\ phase[a] = "archiving"
  /\ trash' = IF ok THEN Later(trash, decided[a].text) ELSE trash
  /\ IF ok THEN FlushSettings(a) /\ UNCHANGED decided ELSE Ends(a, "stopped") /\ UNCHANGED settingsVars
  /\ UNCHANGED <<text, dirty, disk, missed, queue, asked, listener, window>>

\* MUTANT of Resumed: a drain that fails does not tell those who joined it.
ResumedOnSuccess(p, next) ==
  [a \in Attempts |-> IF p[a] = "settings" /\ next # "stopped" THEN next ELSE p[a]]

\* The attempts that wait for the drain learn how it ended.
Resumed(p, next) == [a \in Attempts |-> IF p[a] = "settings" THEN next ELSE p[a]]

\* A write is answered; the drain ends when nothing is pending or when the write failed.
SettingsWritten ==
  /\ Open
  /\ SettingsAnswers
  /\ phase' = IF writing' # {} THEN phase
              ELSE Resumed(phase, IF shown' = "failed" THEN "stopped" ELSE "destroying")
  /\ inFlight' = IF inFlight # NoAttempt /\ phase'[inFlight] = "stopped" THEN NoAttempt ELSE inFlight
  /\ decided' = [a \in Attempts |-> IF phase'[a] = "stopped" THEN Undecided ELSE decided[a]]
  /\ UNCHANGED <<documentVars, asked, listener, window>>

\* markAcceptanceCloseEntered fails while the settings are flushed.
SignalFails(a) ==
  /\ Open /\ phase[a] = "settings"
  /\ Ends(a, "stopped")
  /\ UNCHANGED <<settingsVars, documentVars, asked, listener, window>>

\* destroy destroys the window, or reports that it cannot.
Destroy(a, ok) ==
  /\ Open /\ phase[a] = "destroying"
  /\ IF ok THEN Destroyed(a) ELSE Ends(a, "stopped") /\ UNCHANGED <<queue, asked, listener, window>>
  /\ UNCHANGED <<settingsVars, text, dirty, disk, trash, missed>>

Settings ==
  /\ Open
  /\ SettingsByItself \/ SettingsByUser
  /\ UNCHANGED closeVars

\* What an attempt does by itself, or with the answer of the shell.
Continue(a) == \E ok \in BOOLEAN : Archived(a, ok) \/ Destroy(a, ok)

\* What the saves do with the answers of the shell.
SaveStep == SaveApplied \/ \E thrown \in BOOLEAN : SaveEnds(thrown)

Next ==
  \/ Settings \/ SettingsWritten
  \/ Edit \/ Render \/ ListenerRegistered \/ NativeClose
  \/ RequestSave \/ SaveStep
  \/ \E choice \in {"save", "discard", "cancel"} : Choose(choice)
  \/ \E a \in Attempts : RequestClose(a) \/ AutosaveFlushed(a) \/ Continue(a) \/ SignalFails(a)

\* The shell answers what it is asked and timers fire; nobody has to answer the prompt.  A flush
\* of autosave ends when the saves do (WindowAutosave!FlushEnds).  That a save whose file is
\* written ends is not assumed: it waits for its watch, and when a reload supersedes that, for a
\* later mount of the component (FileWorkflow!OpensEnd).
Spec ==
  /\ Init /\ [][Next]_vars
  /\ WF_vars(Settings /\ SettingsByItself) /\ WF_vars(SettingsWritten)
  /\ WF_vars(SaveStep /\ stage # "watching")
  /\ \A a \in Attempts : WF_vars(Continue(a)) /\ WF_vars(AutosaveFlushed(a))

-----------------------------------------------------------------------------
(* Properties.                                                             *)

\* The document an attempt closes is kept: the text the user had when it was saved, discarded or
\* found clean is in the file or in the trash, in that version or a later one.  The guard takes
\* clean for written, so the one exception is a text that a save marked clean although it had
\* captured an older one before it waited in the queue (DocumentSaving!CleanMeansSaved).
ClosedDocumentIsKept ==
  \A a \in Attempts : window = a => \/ disk >= decided[a].text \/ trash >= decided[a].text
                                   \/ decided[a].text \in missed

\* An attempt destroys the window only when the settings of the moment it was decided are in
\* the file, unless the store may not write at all.
ClosedSettingsAreKept ==
  \A a \in Attempts : window = a /\ ~blocked => file >= decided[a].settings

\* What the user had when a close was decided outlives the window.
ClosedWorkIsKept == ClosedDocumentIsKept /\ ClosedSettingsAreKept

\* An attempt ends, or the user is asked about it: no answer is lost between the coordinator, the
\* guard, the queue of saves and the store.  What can stop it is a save that waits for its watch
\* forever, and the prompt of a later attempt, which takes its resolver.
AttemptsEnd ==
  []<>(stage # "watching") =>
    \A a \in Attempts : phase[a] \in Waiting ~>
      phase[a] \in Ended \/ asked = a \/ a \in Overtaken \/ ~Open

\* A change of the settings is written in the end, unless a write fails, which the store shows,
\* or the window goes.
ChangesAreSettled == Ready /\ settings # file ~> settings = file \/ shown = "failed" \/ ~Open

-----------------------------------------------------------------------------
(* Properties the code does not have (see the README).                     *)

\* One close runs at a time: a request made while another is underway joins it.
OneCloseAtATime == Cardinality({a \in Attempts : phase[a] \in Waiting}) <= 1

\* A native close request does not get past the coordinator: no window is destroyed with
\* settings that are still to be written.
DestroyedAfterFlush == window = Native => pending = None /\ writing = {}

\* Every attempt that asks is answered: no prompt takes the resolver of another.
NoPromptIsReplaced == Overtaken = {}

\* What is in the editor when the window is destroyed is kept: nothing is typed after the close
\* was allowed.
ClosedTextIsKept == window \in Attempts => disk >= text \/ trash >= text \/ text \in missed

\* What the guard takes for saved is in the file.
CleanIsWritten == ~dirty => disk = text
=============================================================================
