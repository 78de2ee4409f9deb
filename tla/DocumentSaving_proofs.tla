------------------------- MODULE DocumentSaving_proofs -------------------------
(***************************************************************************)
(* Proofs about the saving of a document, alone (DocumentSaving), with     *)
(* autosave (WindowAutosave) and with its recovery draft (RecoveryDrafts). *)
(*                                                                         *)
(* As long as a save is requested only when none is running, a document    *)
(* that is shown clean is on disk (the run MCDocumentSaving_queued shows   *)
(* that the assumption is needed), what a crash would lose can be          *)
(* recovered, and a document that is saved leaves no draft behind.         *)
(* Autosave never forgets an edit, however far the page is behind the      *)
(* store.                                                                  *)
(***************************************************************************)
EXTENDS WindowAutosave, RecoveryDrafts, TLAPS

-----------------------------------------------------------------------------
(* The document without autosave, one save at a time.                      *)

\* The inductive invariant.  The queue holds one save at most.  The document is dirty when it
\* differs from the save point, which is what is on disk but for a write that was not applied.
Typed ==
  /\ text \in Texts /\ savepoint \in Texts
  /\ dirty \in BOOLEAN /\ revision \in Nat
  /\ saves \in Seq(Request) /\ Len(saves) <= 1
  /\ stage \in {"idle", "writing", "written", "watching"} /\ (stage = "idle" <=> saves = <<>>)
  /\ started \in Nat /\ started <= revision

Honest ==
  /\ dirty <=> text # savepoint
  /\ IF stage = "written" THEN disk = saves[1].snapshot ELSE disk = savepoint

\* While nothing dirtied the document since the running save began, its text is the one being
\* written, or the user went back to the save point.
Untouched ==
  stage \in {"writing", "written"} /\ revision = started =>
    text = saves[1].snapshot \/ text = savepoint

Safe == Typed /\ Honest /\ Untouched

\* The invariant holds in the initial state: nothing is queued, the document is the one opened.
LEMMA SafeInitially == SavingInit => Safe
<1> SUFFICES ASSUME SavingInit PROVE Safe
  OBVIOUS
<1>1. Typed
  <2>1. <<>> \in Seq(Request) /\ Len(<<>>) = 0
    OBVIOUS
  <2>2. text \in Texts /\ savepoint \in Texts /\ dirty \in BOOLEAN
    BY SavingAssumption, Zenon DEF SavingInit
  <2>3. revision = 0 /\ started = 0 /\ saves = <<>> /\ stage = "idle"
    BY DEF SavingInit
  <2> QED
    BY <2>1, <2>2, <2>3 DEF Typed
<1>2. Honest /\ Untouched
  BY DEF SavingInit, Honest, Untouched
<1> QED
  BY <1>1, <1>2 DEF Safe

\* An edit advances the revision unless it goes back to the save point.
LEMMA EditIsSafe ==
  ASSUME NEW new \in Texts, Safe, Edit(new)
  PROVE  Safe'
<1>1. Typed'
  BY DEF Safe, Typed, Edit, SetDirty, queue
<1>2. Honest'
  BY DEF Safe, Honest, Edit, SetDirty, queue
<1>3. Untouched'
  BY DEF Safe, Typed, Untouched, Edit, SetDirty, queue
<1> QED
  BY <1>1, <1>2, <1>3 DEF Safe

\* A save that is requested while none runs begins at once, with the text it captured.
LEMMA RequestIsSafe ==
  ASSUME MaxSaves = 1, Safe, RequestSave("user")
  PROVE  Safe'
<1> DEFINE request == NewRequest("user")
<1>1. saves = <<>> /\ stage = "idle"
  BY DEF Safe, Typed, RequestSave
<1>2. request \in Request /\ request.snapshot = text
  BY DEF Safe, Typed, NewRequest, Request, Requesters
<1> HIDE DEF request
<1>3. Begin(<<request>>, revision)
  BY <1>1 DEF RequestSave, Enqueue, request
<1>4. /\ saves' = <<request>> /\ stage' = "writing" /\ started' = revision
      /\ UNCHANGED document
  BY <1>3 DEF Begin, RequestSave
<1>5. Typed'
  BY <1>2, <1>4 DEF Safe, Typed, document
<1>6. Honest' /\ Untouched'
  BY <1>1, <1>2, <1>4 DEF Safe, Honest, Untouched, document
<1> QED
  BY <1>5, <1>6 DEF Safe

\* The file is written: the save point follows when the answer is applied.
LEMMA WriteIsSafe ==
  ASSUME Safe, WriteFile
  PROVE  Safe'
<1>1. saves \in Seq(Request) /\ saves # <<>>
  BY DEF Safe, Typed, WriteFile
<1>2. Head(saves) = saves[1]
  BY <1>1
<1>3. Typed'
  BY DEF Safe, Typed, WriteFile
<1>4. Honest' /\ Untouched'
  BY <1>2 DEF Safe, Honest, Untouched, WriteFile
<1> QED
  BY <1>3, <1>4 DEF Safe

\* The answer is applied: it marks the document clean only when its text is on disk.
LEMMA ApplyIsSafe ==
  ASSUME Safe, ApplySave
  PROVE  Safe'
<1> DEFINE snapshot == saves[1].snapshot
<1>1. Head(saves).snapshot = snapshot /\ snapshot \in Texts
  <2>1. saves # <<>> /\ saves \in Seq(Request)
    BY DEF Safe, Typed, ApplySave
  <2>2. Head(saves) = saves[1] /\ saves[1] \in Request
    BY <2>1
  <2> QED
    BY <2>2 DEF Request
<1> HIDE DEF snapshot
<1>2. Applied(snapshot) /\ stage = "written" /\ stage' = "watching"
      /\ UNCHANGED <<text, disk, saves, started>>
  BY <1>1 DEF ApplySave
<1>3. savepoint' = snapshot
  BY <1>2 DEF Applied
<1>4. Typed'
  <2>1. dirty' \in BOOLEAN
    BY <1>2, Zenon DEF Applied, Safe, Typed
  <2>2. revision' = revision \/ revision' = revision + 1
    BY <1>2, Zenon DEF Applied
  <2>3. revision' \in Nat /\ started' <= revision'
    BY <1>2, <2>2 DEF Safe, Typed
  <2> QED
    BY <1>1, <1>2, <1>3, <2>1, <2>3 DEF Safe, Typed
<1>5. dirty' <=> text # snapshot
  <2>1. (revision = started) => (text = snapshot \/ text = savepoint)
    BY <1>2 DEF Safe, Untouched, snapshot
  <2>2. (dirty <=> text # savepoint) /\ revision \in Nat /\ started \in Nat /\ started <= revision
    BY DEF Safe, Typed, Honest
  <2>3. revision + 1 # started
    BY <2>2
  <2>4. CASE EditorReports(snapshot)
    <3>1. text # snapshot => revision' # started /\ dirty' = (text # snapshot)
      BY <1>2, <2>3, <2>4, Zenon DEF Applied
    <3>2. text = snapshot => dirty' = FALSE \/ dirty' = (text # snapshot)
      BY <1>2, <2>4, Zenon DEF Applied
    <3> QED
      BY <3>1, <3>2, Zenon
  <2>5. CASE ~EditorReports(snapshot)
    <3>1. (text # savepoint) <=> (text # snapshot)
      BY <2>5, Zenon DEF EditorReports
    <3>2. dirty' = IF revision = started THEN FALSE ELSE dirty
      BY <1>2, <2>5, Zenon DEF Applied
    <3> QED
      BY <2>1, <2>2, <3>1, <3>2, Zenon
  <2> QED
    BY <2>4, <2>5
<1>6. disk = snapshot
  BY <1>2 DEF Safe, Honest, snapshot
<1>7. Honest' /\ Untouched'
  BY <1>2, <1>3, <1>5, <1>6 DEF Honest, Untouched
<1> QED
  BY <1>4, <1>7 DEF Safe

\* The running save ends; nothing waited behind it.
LEMMA EndIsSafe ==
  ASSUME Safe, SaveEnds(<<>>)
  PROVE  Safe'
<1>1. saves \in Seq(Request) /\ saves # <<>> /\ Len(saves) <= 1
  BY DEF Safe, Typed, SaveEnds
<1>2. Tail(saves) \o <<>> = <<>>
  BY <1>1
<1>3. /\ saves' = <<>> /\ stage' = "idle" /\ started' = 0 /\ UNCHANGED document
      /\ stage # "written"
  BY <1>2 DEF SaveEnds, Begin
<1>4. Typed'
  BY <1>3 DEF Safe, Typed, document
<1>5. Honest' /\ Untouched'
  BY <1>3 DEF Safe, Honest, Untouched, document
<1> QED
  BY <1>4, <1>5 DEF Safe

\* As long as no save is requested while another runs, a document that is shown clean is the
\* one on disk, whatever is edited while the save is under way (saveCurrentFile,
\* prepareCurrentFileSave).
THEOREM UnqueuedSavesAreHonest ==
  ASSUME MaxSaves = 1
  PROVE  SavingSpec => []CleanMeansSaved
<1>1. Safe /\ [SavingNext]_savingVars => Safe'
  <2> SUFFICES ASSUME Safe, [SavingNext]_savingVars PROVE Safe'
    OBVIOUS
  <2>1. ASSUME NEW new \in Texts, Edit(new) PROVE Safe'
    BY <2>1, EditIsSafe
  <2>2. CASE RequestSave("user")
    BY <2>2, RequestIsSafe
  <2>3. CASE WriteFile
    BY <2>3, WriteIsSafe
  <2>4. CASE ApplySave
    BY <2>4, ApplyIsSafe
  <2>5. CASE SaveEnds(<<>>)
    BY <2>5, EndIsSafe
  <2>6. CASE UNCHANGED savingVars
    BY <2>6 DEF Safe, Typed, Honest, Untouched, savingVars, document, queue
  <2> QED
    BY <2>1, <2>2, <2>3, <2>4, <2>5, <2>6 DEF SavingNext
<1>2. Safe => CleanMeansSaved
  BY DEF Safe, Honest, CleanMeansSaved
<1> QED
  BY SafeInitially, <1>1, <1>2, PTL DEF SavingSpec

-----------------------------------------------------------------------------
(* The document with autosave, and any number of saves.                    *)

SavingTyped ==
  /\ text \in Texts /\ savepoint \in Texts /\ disk \in Texts
  /\ dirty \in BOOLEAN /\ revision \in Nat
  /\ saves \in Seq(Request)
  /\ stage \in {"idle", "writing", "written", "watching"} /\ (stage = "idle" <=> saves = <<>>)
  /\ started \in Nat /\ started <= revision

\* Beyond MaxRevision nothing is edited, and only the saves that captured another text before
\* can advance the revision, the first k that were not applied yet.
AlreadyApplied == IF stage = "watching" THEN 1 ELSE 0
Ends(from, requests, applied, last) ==
  \/ from < MaxRevision
  \/ \E k \in 0 .. (Len(requests) - applied) :
       /\ \A i \in 1 .. Len(requests) : i > applied + k => requests[i].snapshot = last
       /\ from + k <= MaxRevision + MaxSaves + 1
RevisionsEnd == Ends(revision, saves, AlreadyApplied, text)

\* The queue holds the save the scheduler takes for active, and MaxSaves others.
Autosaves(requests) == {i \in 1 .. Len(requests) : requests[i].by = "autosave"}
HoldsOne(requests, active) ==
  /\ IF active THEN \E i \in 1 .. Len(requests) : Autosaves(requests) = {i}
     ELSE Autosaves(requests) = {}
  /\ Len(requests) <= IF active THEN MaxSaves + 1 ELSE MaxSaves
OneAutosave == HoldsOne(saves, scheduler.active)

Schedulers == [enabled : BOOLEAN, timer : BOOLEAN, active : BOOLEAN, trailing : BOOLEAN,
               latest : Nat, attempting : Nat, attempted : Nat]
Sessions == [dirty : BOOLEAN, available : BOOLEAN, revision : Nat]
HookTyped ==
  /\ setting \in BOOLEAN /\ available \in BOOLEAN
  /\ page \in [values : Rendered, effects : BOOLEAN] /\ seen \in Rendered
  /\ session \in Sessions
  /\ scheduler \in Schedulers
  /\ flush \in {"none", "waiting"}

\* What the session and the scheduler know: the revision always, the rest from the effects that
\* ran last.
Informed ==
  /\ session.revision = revision /\ scheduler.latest = revision
  /\ scheduler.attempting = scheduler.attempted /\ scheduler.attempted <= revision
  /\ session.available = seen.available /\ scheduler.enabled = seen.setting
  /\ seen.dirty => session.dirty
  /\ ~page.effects => page.values = seen

\* A document the last effects found savable is taken care of.
Covered ==
  scheduler.timer \/ (scheduler.active /\ scheduler.trailing) \/ flush = "waiting"
Attended ==
  Unattempted /\ seen.dirty /\ seen.available /\ seen.setting => Covered

Careful ==
  /\ SavingTyped /\ RevisionsEnd /\ OneAutosave
  /\ HookTyped /\ Informed /\ Attended

-----------------------------------------------------------------------------
(* The queue.                                                              *)

\* What a save captures is a request.
LEMMA RequestsAreTyped ==
  ASSUME SavingTyped, NEW by \in Requesters
  PROVE  /\ NewRequest(by) \in Request
         /\ NewRequest(by).snapshot = text /\ NewRequest(by).by = by
BY DEF SavingTyped, NewRequest, Request

\* No request leaves the queue as it is.
LEMMA EnqueueNothing ==
  ASSUME SavingTyped, Enqueue(<<>>)
  PROVE  UNCHANGED <<saves, stage>> /\ started' \in Nat /\ started' <= started
<1>1. CASE stage = "idle"
  BY <1>1 DEF SavingTyped, Enqueue, Begin
<1>2. CASE stage # "idle"
  <2>1. saves' = saves \o <<>> /\ UNCHANGED <<stage, started>>
    BY <1>2 DEF Enqueue
  <2>2. saves \o <<>> = saves
    BY DEF SavingTyped
  <2> QED
    BY <2>1, <2>2 DEF SavingTyped
<1> QED
  BY <1>1, <1>2

\* A request is appended; in an empty queue it begins.
LEMMA EnqueueOne ==
  ASSUME SavingTyped, NEW request \in Request, Enqueue(<<request>>)
  PROVE  /\ saves' \in Seq(Request) /\ Len(saves') = Len(saves) + 1
         /\ \A i \in 1 .. Len(saves) : saves'[i] = saves[i]
         /\ saves'[Len(saves) + 1] = request
         /\ stage' = IF stage = "idle" THEN "writing" ELSE stage
         /\ started' \in Nat /\ started' <= revision
<1>1. saves \in Seq(Request) /\ started \in Nat /\ started <= revision /\ revision \in Nat
  BY DEF SavingTyped
<1>2. CASE stage = "idle"
  <2>1. saves = <<>> /\ saves' = <<request>> /\ stage' = "writing" /\ started' = revision
    BY <1>2 DEF SavingTyped, Enqueue, Begin
  <2> QED
    BY <2>1, <1>1, <1>2
<1>3. CASE stage # "idle"
  <2>1. saves' = saves \o <<request>> /\ UNCHANGED <<stage, started>>
    BY <1>3 DEF Enqueue
  <2>2. saves' = Append(saves, request)
    BY <2>1, <1>1
  <2> QED
    BY <2>1, <2>2, <1>1, <1>3
<1> QED
  BY <1>2, <1>3

\* The running save leaves the queue.
LEMMA EndOne ==
  ASSUME SavingTyped, SaveEnds(<<>>)
  PROVE  /\ saves # <<>> /\ saves' \in Seq(Request) /\ Len(saves') = Len(saves) - 1
         /\ \A i \in 1 .. (Len(saves) - 1) : saves'[i] = saves[i + 1]
         /\ stage' = IF saves' = <<>> THEN "idle" ELSE "writing"
         /\ started' \in Nat /\ started' <= revision
<1>1. saves \in Seq(Request) /\ revision \in Nat /\ saves # <<>>
  BY DEF SavingTyped, SaveEnds
<1>2. saves' = Tail(saves) \o <<>> /\ Tail(saves) \in Seq(Request)
  BY <1>1 DEF SaveEnds, Begin
<1>3. saves' = Tail(saves)
  BY <1>2
<1>4. /\ stage' = IF saves' = <<>> THEN "idle" ELSE "writing"
      /\ started' = IF saves' = <<>> THEN 0 ELSE revision
  BY DEF SaveEnds, Begin
<1> QED
  BY <1>1, <1>3, <1>4

\* The running save leaves the queue, and a trailing one joins it.
LEMMA EndAndTrail ==
  ASSUME SavingTyped, NEW request \in Request, SaveEnds(<<request>>)
  PROVE  /\ saves # <<>> /\ saves' \in Seq(Request) /\ Len(saves') = Len(saves)
         /\ \A i \in 1 .. (Len(saves) - 1) : saves'[i] = saves[i + 1]
         /\ saves'[Len(saves)] = request
         /\ stage' = "writing"
         /\ started' \in Nat /\ started' <= revision
<1>1. saves \in Seq(Request) /\ revision \in Nat /\ saves # <<>>
  BY DEF SavingTyped, SaveEnds
<1>2. saves' = Tail(saves) \o <<request>> /\ Tail(saves) \in Seq(Request)
  BY <1>1 DEF SaveEnds, Begin
<1>3. saves' = Append(Tail(saves), request)
  BY <1>2
<1>4. Len(Tail(saves)) = Len(saves) - 1 /\ Len(saves) \in Nat
  BY <1>1
<1>5. /\ saves' \in Seq(Request) /\ Len(saves') = Len(saves)
      /\ \A i \in 1 .. (Len(saves) - 1) : saves'[i] = saves[i + 1]
      /\ saves'[Len(saves)] = request
  <2>1. PICK tail \in Seq(Request) : tail = Tail(saves)
    BY <1>2
  <2>2. \A i \in 1 .. (Len(saves) - 1) : tail[i] = saves[i + 1]
    BY <1>1, <2>1
  <2>3. saves' = Append(tail, request) /\ Len(tail) = Len(saves) - 1 /\ Len(saves) \in Nat
    BY <1>3, <1>4, <2>1
  <2> QED
    BY <2>1, <2>2, <2>3
<1>6. saves' # <<>>
  BY <1>1, <1>5
<1>7. stage' = "writing" /\ started' = revision
  BY <1>6 DEF SaveEnds, Begin
<1> QED
  BY <1>1, <1>5, <1>7
-----------------------------------------------------------------------------
(* The document, its queue, and the revisions.                             *)

\* Up to MaxRevision, whatever is queued may still advance the revision.
LEMMA EndsFromHere ==
  ASSUME NEW from \in Nat, NEW requests \in Seq(Request), NEW applied \in {0, 1}, NEW last,
         applied <= Len(requests), Len(requests) <= MaxSaves + 1,
         from + Len(requests) - applied <= MaxRevision + MaxSaves + 1
  PROVE  Ends(from, requests, applied, last)
<1>1. Len(requests) \in Nat
  OBVIOUS
<1>2. PICK k \in Nat : k = Len(requests) - applied
  BY <1>1
<1>3. k \in 0 .. (Len(requests) - applied)
  BY <1>1, <1>2
<1>4. \A i \in 1 .. Len(requests) : ~(i > applied + k)
  BY <1>1, <1>2
<1>5. from + k <= MaxRevision + MaxSaves + 1
  BY <1>1, <1>2, SavingAssumption
<1> QED
  BY <1>3, <1>4, <1>5 DEF Ends

LEMMA AppliedIsZeroOrOne ==
  ASSUME SavingTyped
  PROVE  AlreadyApplied \in {0, 1} /\ AlreadyApplied <= Len(saves) /\ Len(saves) \in Nat
<1>1. saves \in Seq(Request) /\ (stage = "watching" => saves # <<>>)
  BY DEF SavingTyped
<1> QED
  BY <1>1 DEF AlreadyApplied

LEMMA EditKeepsSaving ==
  ASSUME SavingTyped, Len(saves) <= MaxSaves + 1, NEW new \in Texts, Edit(new)
  PROVE  SavingTyped' /\ RevisionsEnd'
<1>1. /\ text' = new /\ dirty' \in BOOLEAN
      /\ revision' = revision \/ revision' = revision + 1
      /\ revision < MaxRevision
      /\ UNCHANGED <<savepoint, disk, saves, stage, started>>
  BY DEF Edit, SetDirty, queue
<1>2. revision \in Nat /\ started \in Nat /\ started <= revision /\ saves \in Seq(Request)
  BY DEF SavingTyped
<1>3. revision' \in Nat /\ started <= revision'
  BY <1>1, <1>2
<1>4. SavingTyped'
  BY <1>1, <1>3 DEF SavingTyped
<1>5. RevisionsEnd'
  <2>1. AlreadyApplied' = AlreadyApplied
    BY <1>1 DEF AlreadyApplied
  <2>2. revision' + Len(saves) - AlreadyApplied <= MaxRevision + MaxSaves + 1
    BY <1>1, <1>2, AppliedIsZeroOrOne, SavingAssumption
  <2>3. Ends(revision', saves, AlreadyApplied, text')
    BY <1>2, <1>3, <2>2, AppliedIsZeroOrOne, EndsFromHere
  <2> QED
    BY <1>1, <2>1, <2>3 DEF RevisionsEnd
<1> QED
  BY <1>4, <1>5

\* A request captures the text, so that it cannot advance the revision when nothing is edited.
LEMMA RequestKeepsSaving ==
  ASSUME SavingTyped, RevisionsEnd, UNCHANGED document,
         NEW request \in Request, request.snapshot = text, Enqueue(<<request>>)
  PROVE  SavingTyped' /\ RevisionsEnd'
<1>1. UNCHANGED <<text, savepoint, disk, dirty, revision>>
  BY DEF document
<1>2. /\ saves' \in Seq(Request) /\ Len(saves') = Len(saves) + 1
      /\ \A i \in 1 .. Len(saves) : saves'[i] = saves[i]
      /\ saves'[Len(saves) + 1] = request
      /\ stage' = IF stage = "idle" THEN "writing" ELSE stage
      /\ started' \in Nat /\ started' <= revision
  BY EnqueueOne
<1>3. Len(saves) \in Nat /\ saves' # <<>>
  BY <1>2, AppliedIsZeroOrOne
<1>4. SavingTyped'
  BY <1>1, <1>2, <1>3 DEF SavingTyped
<1>5. AlreadyApplied' = AlreadyApplied /\ AlreadyApplied \in {0, 1}
  BY <1>2, AppliedIsZeroOrOne DEF AlreadyApplied
<1>6. Ends(revision, saves', AlreadyApplied, text)
  <2>1. CASE revision < MaxRevision
    BY <2>1 DEF Ends
  <2>2. CASE ~(revision < MaxRevision)
    <3>1. PICK k \in 0 .. (Len(saves) - AlreadyApplied) :
            /\ \A i \in 1 .. Len(saves) : i > AlreadyApplied + k => saves[i].snapshot = text
            /\ revision + k <= MaxRevision + MaxSaves + 1
      BY <2>2 DEF RevisionsEnd, Ends
    <3>2. k \in 0 .. (Len(saves') - AlreadyApplied)
      BY <1>2, <1>3, <1>5
    <3>3. ASSUME NEW i \in 1 .. Len(saves'), i > AlreadyApplied + k
          PROVE  saves'[i].snapshot = text
      <4>1. CASE i = Len(saves) + 1
        BY <4>1, <1>2
      <4>2. CASE i # Len(saves) + 1
        BY <4>2, <1>2, <1>3, <3>1, <3>3
      <4> QED
        BY <4>1, <4>2
    <3> QED
      BY <3>1, <3>2, <3>3 DEF Ends
  <2> QED
    BY <2>1, <2>2
<1> QED
  BY <1>1, <1>4, <1>5, <1>6 DEF RevisionsEnd

LEMMA WriteKeepsSaving ==
  ASSUME SavingTyped, RevisionsEnd, WriteFile
  PROVE  SavingTyped' /\ RevisionsEnd'
<1>1. /\ stage = "writing" /\ stage' = "written" /\ disk' = Head(saves).snapshot
      /\ UNCHANGED <<text, savepoint, dirty, revision, saves, started>>
  BY DEF WriteFile
<1>2. saves \in Seq(Request) /\ saves # <<>>
  BY <1>1 DEF SavingTyped
<1>3. Head(saves) \in Request
  BY <1>2
<1>4. disk' \in Texts
  BY <1>1, <1>3 DEF Request
<1>5. SavingTyped'
  BY <1>1, <1>4 DEF SavingTyped
<1>6. AlreadyApplied' = AlreadyApplied
  BY <1>1 DEF AlreadyApplied
<1> QED
  BY <1>1, <1>5, <1>6 DEF RevisionsEnd

\* What applying a save does to the document; only a save of another text advances the revision.
LEMMA ApplySteps ==
  ASSUME SavingTyped, ApplySave
  PROVE  /\ stage = "written" /\ stage' = "watching" /\ UNCHANGED <<text, disk, saves, started>>
         /\ saves # <<>> /\ savepoint' = saves[1].snapshot /\ savepoint' \in Texts
         /\ dirty' \in BOOLEAN
         /\ \/ revision' = revision /\ (dirty' => dirty)
            \/ revision' = revision + 1 /\ dirty' /\ saves[1].snapshot # text
<1>1. stage = "written" /\ stage' = "watching" /\ UNCHANGED <<text, disk, saves, started>>
  BY DEF ApplySave
<1>2. saves \in Seq(Request) /\ saves # <<>>
  BY <1>1 DEF SavingTyped
<1>3. Head(saves) = saves[1] /\ saves[1] \in Request
  BY <1>2
<1>4. PICK snapshot \in Texts : snapshot = saves[1].snapshot
  BY <1>3 DEF Request
<1>5. Applied(snapshot)
  BY <1>3, <1>4 DEF ApplySave
<1>6. savepoint' = snapshot
  BY <1>5 DEF Applied
<1>7. dirty \in BOOLEAN
  BY DEF SavingTyped
<1>8. started <= revision /\ started \in Nat /\ revision \in Nat
  BY DEF SavingTyped
<1>9. CASE EditorReports(snapshot) /\ text # snapshot
  <2>1. revision' = revision + 1
    BY <1>5, <1>9, Zenon DEF Applied
  <2>2. dirty' = IF revision + 1 = started THEN FALSE ELSE text # snapshot
    BY <1>5, <1>9, Zenon DEF Applied
  <2>3. revision + 1 # started
    BY <1>8
  <2>4. dirty' = TRUE
    BY <1>9, <2>2, <2>3, Zenon
  <2> QED
    BY <1>1, <1>2, <1>4, <1>6, <1>9, <2>1, <2>4
<1>10. CASE ~(EditorReports(snapshot) /\ text # snapshot)
  <2>1. revision' = revision
    BY <1>5, <1>10, Zenon DEF Applied
  <2>2. \/ dirty' = FALSE
        \/ dirty' = dirty
        \/ EditorReports(snapshot) /\ dirty' = (text # snapshot)
    BY <1>5, <1>10, Zenon DEF Applied
  <2>3. dirty' \in BOOLEAN /\ (dirty' => dirty)
    <3>1. CASE dirty' = FALSE
      BY <3>1, Zenon
    <3>2. CASE dirty' = dirty
      BY <3>2, <1>7, Zenon
    <3>3. CASE EditorReports(snapshot) /\ dirty' = (text # snapshot)
      <4>1. dirty' = FALSE
        BY <3>3, <1>10, Zenon
      <4> QED
        BY <4>1, Zenon
    <3> QED
      BY <2>2, <3>1, <3>2, <3>3, Zenon
  <2> QED
    BY <1>1, <1>2, <1>4, <1>6, <2>1, <2>3
<1> QED
  BY <1>9, <1>10

LEMMA ApplyKeepsSaving ==
  ASSUME SavingTyped, RevisionsEnd, Len(saves) <= MaxSaves + 1, ApplySave
  PROVE  SavingTyped' /\ RevisionsEnd'
<1>1. /\ stage = "written" /\ stage' = "watching" /\ UNCHANGED <<text, disk, saves, started>>
      /\ saves # <<>> /\ savepoint' \in Texts /\ dirty' \in BOOLEAN
      /\ \/ revision' = revision
         \/ revision' = revision + 1 /\ saves[1].snapshot # text
  BY ApplySteps
<1>2. /\ revision \in Nat /\ revision' \in Nat /\ started \in Nat /\ started <= revision'
      /\ saves \in Seq(Request) /\ Len(saves) \in Nat /\ Len(saves) >= 1
  BY <1>1 DEF SavingTyped
<1>3. SavingTyped'
  BY <1>1, <1>2 DEF SavingTyped
<1>4. AlreadyApplied = 0 /\ AlreadyApplied' = 1
  BY <1>1 DEF AlreadyApplied
<1>5. Ends(revision', saves, 1, text)
  <2>1. CASE revision < MaxRevision
    <3>1. revision' + Len(saves) - 1 <= MaxRevision + MaxSaves + 1
      BY <2>1, <1>1, <1>2, SavingAssumption
    <3> QED
      BY <3>1, <1>2, EndsFromHere
  <2>2. CASE ~(revision < MaxRevision)
    <3>1. PICK k \in 0 .. Len(saves) :
            /\ \A i \in 1 .. Len(saves) : i > k => saves[i].snapshot = text
            /\ revision + k <= MaxRevision + MaxSaves + 1
      BY <2>2, <1>2, <1>4 DEF RevisionsEnd, Ends
    <3>2. CASE k = 0
      <4>1. revision' = revision
        BY <3>1, <3>2, <1>1, <1>2
      <4>2. \A i \in 1 .. Len(saves) : i > 1 + 0 => saves[i].snapshot = text
        BY <3>1, <3>2
      <4>3. 0 \in 0 .. (Len(saves) - 1) /\ revision' + 0 <= MaxRevision + MaxSaves + 1
        BY <4>1, <3>1, <3>2, <1>2
      <4> QED
        BY <4>2, <4>3 DEF Ends
    <3>3. CASE k # 0
      <4>1. PICK n \in 0 .. (Len(saves) - 1) : n + 1 = k
        BY <3>3, <1>2
      <4>2. \A i \in 1 .. Len(saves) : i > 1 + n => saves[i].snapshot = text
        BY <4>1, <3>1
      <4>3. revision' + n <= MaxRevision + MaxSaves + 1
        <5>1. revision + (n + 1) <= MaxRevision + MaxSaves + 1
          BY <4>1, <3>1
        <5>2. revision' <= revision + 1
          BY <1>1, <1>2
        <5>3. n \in Nat /\ revision \in Nat /\ revision' \in Nat
          BY <1>2
        <5>4. MaxRevision + MaxSaves + 1 \in Nat
          BY SavingAssumption
        <5> QED
          BY <5>1, <5>2, <5>3, <5>4
      <4> QED
        BY <4>2, <4>3 DEF Ends
    <3> QED
      BY <3>2, <3>3
  <2> QED
    BY <2>1, <2>2
<1> QED
  BY <1>1, <1>3, <1>4, <1>5 DEF RevisionsEnd

\* The end of a save, with or without one that trails it; n saves remain or join the queue.
LEMMA EndKeepsSaving ==
  ASSUME SavingTyped, RevisionsEnd, UNCHANGED document, stage \in {"writing", "watching"},
         saves # <<>>, saves' \in Seq(Request),
         Len(saves') = Len(saves) - 1 \/ Len(saves') = Len(saves),
         \A i \in 1 .. (Len(saves) - 1) : saves'[i] = saves[i + 1],
         Len(saves') = Len(saves) => saves'[Len(saves)].snapshot = text,
         stage' = IF saves' = <<>> THEN "idle" ELSE "writing",
         started' \in Nat, started' <= revision
  PROVE  SavingTyped' /\ RevisionsEnd'
<1>1. UNCHANGED <<text, savepoint, disk, dirty, revision>>
  BY DEF document
<1>2. SavingTyped'
  BY <1>1 DEF SavingTyped
<1>3. AlreadyApplied \in {0, 1} /\ AlreadyApplied' = 0
  BY AppliedIsZeroOrOne DEF AlreadyApplied
<1>4. revision \in Nat /\ Len(saves) \in Nat /\ Len(saves) >= 1 /\ Len(saves') \in Nat
  BY DEF SavingTyped
<1>5. Ends(revision, saves', 0, text)
  <2>1. CASE revision < MaxRevision
    BY <2>1 DEF Ends
  <2>2. CASE ~(revision < MaxRevision)
    <3>1. PICK k \in 0 .. (Len(saves) - AlreadyApplied) :
            /\ \A i \in 1 .. Len(saves) : i > AlreadyApplied + k => saves[i].snapshot = text
            /\ revision + k <= MaxRevision + MaxSaves + 1
      BY <2>2 DEF RevisionsEnd, Ends
    <3>2. PICK n \in 0 .. Len(saves') : n <= k /\ n + 1 >= AlreadyApplied + k
      <4>1. CASE k = 0
        BY <4>1, <1>3, <1>4
      <4>2. CASE k # 0 /\ AlreadyApplied = 1
        <5>1. k \in 0 .. Len(saves')
          BY <4>2, <1>4
        <5> QED
          BY <5>1, <4>2
      <4>3. CASE k # 0 /\ AlreadyApplied = 0
        <5>1. k - 1 \in 0 .. Len(saves') /\ k - 1 <= k /\ (k - 1) + 1 >= k
          BY <4>3, <1>4
        <5> QED
          BY <5>1, <4>3
      <4> QED
        BY <4>1, <4>2, <4>3, <1>3
    <3>3. ASSUME NEW i \in 1 .. Len(saves'), i > 0 + n
          PROVE  saves'[i].snapshot = text
      <4>1. CASE i = Len(saves)
        BY <4>1, <1>4
      <4>2. CASE i # Len(saves)
        <5>1. i \in 1 .. (Len(saves) - 1) /\ i + 1 \in 1 .. Len(saves)
          BY <4>2, <1>4
        <5>2. i + 1 > AlreadyApplied + k
          BY <3>2, <3>3, <1>3
        <5> QED
          BY <5>1, <5>2, <3>1
      <4> QED
        BY <4>1, <4>2
    <3>4. n \in 0 .. (Len(saves') - 0) /\ revision + n <= MaxRevision + MaxSaves + 1
      BY <3>1, <3>2, <1>4, SavingAssumption
    <3> QED
      BY <3>3, <3>4 DEF Ends
  <2> QED
    BY <2>1, <2>2
<1> QED
  BY <1>1, <1>2, <1>3, <1>5 DEF RevisionsEnd

-----------------------------------------------------------------------------
(* The saves of the scheduler in the queue.                                *)

\* A queue that grows by one request.
LEMMA AppendHoldsOne ==
  ASSUME NEW requests \in Seq(Request), NEW more \in Seq(Request),
         NEW active \in BOOLEAN, HoldsOne(requests, active),
         Len(more) = Len(requests) + 1,
         \A i \in 1 .. Len(requests) : more[i] = requests[i],
         NEW request, more[Len(requests) + 1] = request
  PROVE  /\ request.by = "autosave" /\ ~active => HoldsOne(more, TRUE)
         /\ request.by # "autosave" /\ Len(requests) < MaxSaves => HoldsOne(more, active)
<1>1. Len(requests) \in Nat /\ MaxSaves \in Nat
  BY SavingAssumption
<1>2. PICK last \in Nat : last = Len(requests) + 1
  BY <1>1
<1>3. 1 .. Len(more) = (1 .. Len(requests)) \cup {last} /\ last \notin 1 .. Len(requests)
  BY <1>1, <1>2
<1>4. ASSUME request.by = "autosave", ~active
      PROVE  HoldsOne(more, TRUE)
  <2>1. Autosaves(requests) = {} /\ Len(requests) <= MaxSaves
    BY <1>4 DEF HoldsOne
  <2>2. Autosaves(more) = {last}
    BY <2>1, <1>2, <1>3, <1>4 DEF Autosaves
  <2>3. Len(more) <= MaxSaves + 1 /\ last \in 1 .. Len(more)
    BY <2>1, <1>1, <1>3
  <2> QED
    BY <2>2, <2>3 DEF HoldsOne
<1>5. ASSUME request.by # "autosave", Len(requests) < MaxSaves
      PROVE  HoldsOne(more, active)
  <2>1. Autosaves(more) = Autosaves(requests)
    BY <1>2, <1>3, <1>5 DEF Autosaves
  <2>2. Len(more) <= MaxSaves /\ Len(more) <= MaxSaves + 1
    BY <1>1, <1>5
  <2>3. CASE active
    <3>1. PICK i \in 1 .. Len(requests) : Autosaves(requests) = {i}
      BY <2>3 DEF HoldsOne
    <3>2. i \in 1 .. Len(more) /\ Autosaves(more) = {i}
      BY <3>1, <2>1, <1>3
    <3> QED
      BY <3>2, <2>2, <2>3 DEF HoldsOne
  <2>4. CASE ~active
    BY <2>4, <2>1, <2>2 DEF HoldsOne
  <2> QED
    BY <2>3, <2>4
<1> QED
  BY <1>4, <1>5

\* A queue that loses its first request.
LEMMA TailHoldsOne ==
  ASSUME NEW requests \in Seq(Request), NEW rest \in Seq(Request),
         NEW active \in BOOLEAN, HoldsOne(requests, active), requests # <<>>,
         Len(rest) = Len(requests) - 1,
         \A i \in 1 .. (Len(requests) - 1) : rest[i] = requests[i + 1]
  PROVE  /\ requests[1].by = "autosave" => active /\ HoldsOne(rest, FALSE)
         /\ requests[1].by # "autosave" => HoldsOne(rest, active)
<1>1. Len(requests) \in Nat /\ Len(requests) >= 1 /\ MaxSaves \in Nat /\ Len(rest) \in Nat
  BY SavingAssumption
<1>2. \A i \in 1 .. Len(rest) : i \in Autosaves(rest) <=> i + 1 \in Autosaves(requests)
  BY <1>1 DEF Autosaves
<1>3. Autosaves(rest) \subseteq 1 .. Len(rest)
  BY DEF Autosaves
<1>4. 1 \in Autosaves(requests) <=> requests[1].by = "autosave"
  BY <1>1 DEF Autosaves
<1>5. ASSUME requests[1].by = "autosave"
      PROVE  active /\ HoldsOne(rest, FALSE)
  <2>1. active /\ \E i \in 1 .. Len(requests) : Autosaves(requests) = {i}
    BY <1>4, <1>5 DEF HoldsOne
  <2>2. Autosaves(requests) = {1}
    BY <2>1, <1>4, <1>5
  <2>3. \A i \in 1 .. Len(rest) : i + 1 # 1
    BY <1>1
  <2>4. Autosaves(rest) = {}
    BY <2>2, <2>3, <1>2, <1>3
  <2>5. Len(requests) <= MaxSaves + 1
    BY <2>1 DEF HoldsOne
  <2>6. Len(rest) <= MaxSaves
    BY <2>5, <1>1
  <2> QED
    BY <2>1, <2>4, <2>6 DEF HoldsOne
<1>6. ASSUME requests[1].by # "autosave"
      PROVE  HoldsOne(rest, active)
  <2>1. CASE active
    <3>1. PICK i \in 1 .. Len(requests) : Autosaves(requests) = {i}
      BY <2>1 DEF HoldsOne
    <3>2. i # 1
      BY <3>1, <1>4, <1>6
    <3>3. PICK j \in 1 .. Len(rest) : j + 1 = i
      <4>1. i - 1 \in 1 .. Len(rest) /\ (i - 1) + 1 = i
        BY <3>2, <1>1
      <4> QED
        BY <4>1
    <3>4. \A n \in 1 .. Len(rest) : n + 1 = i <=> n = j
      BY <3>3, <1>1
    <3>5. Autosaves(rest) = {j}
      BY <3>1, <3>3, <3>4, <1>2, <1>3
    <3>6. Len(requests) <= MaxSaves + 1
      BY <2>1 DEF HoldsOne
    <3>7. Len(rest) <= MaxSaves + 1
      BY <3>6, <1>1
    <3> QED
      BY <2>1, <3>5, <3>7 DEF HoldsOne
  <2>2. CASE ~active
    <3>1. Autosaves(requests) = {} /\ Len(requests) <= MaxSaves
      BY <2>2 DEF HoldsOne
    <3>2. Autosaves(rest) = {} /\ Len(rest) <= MaxSaves
      BY <3>1, <1>1, <1>2, <1>3
    <3> QED
      BY <2>2, <3>2 DEF HoldsOne
  <2> QED
    BY <2>1, <2>2
<1> QED
  BY <1>5, <1>6
-----------------------------------------------------------------------------
(* The operations of the scheduler.                                        *)

LEMMA SchedulerFields ==
  ASSUME NEW s \in Schedulers
  PROVE  /\ s.enabled \in BOOLEAN /\ s.timer \in BOOLEAN
         /\ s.active \in BOOLEAN /\ s.trailing \in BOOLEAN
         /\ s.latest \in Nat /\ s.attempting \in Nat /\ s.attempted \in Nat
BY DEF Schedulers

LEMMA SessionFields ==
  ASSUME NEW x \in Sessions
  PROVE  x.dirty \in BOOLEAN /\ x.available \in BOOLEAN /\ x.revision \in Nat
BY DEF Sessions

LEMMA RunSteps ==
  ASSUME NEW s \in Schedulers, NEW x \in Sessions, NEW t, t = Run(s, x)
  PROVE  /\ t \in Schedulers
         /\ t.enabled = s.enabled /\ t.timer = s.timer /\ t.latest = s.latest
         /\ s.active => /\ t.active /\ t.trailing
                        /\ t.attempting = s.attempting /\ t.attempted = s.attempted
         /\ ~s.active /\ Savable(s, x) =>
              /\ t.active /\ t.attempting = Larger(s.latest, x.revision)
              /\ t.attempted = x.revision
         /\ ~s.active /\ ~Savable(s, x) => t = s
<1>1. CASE s.active
  <2>1. t = [s EXCEPT !.trailing = TRUE]
    BY <1>1 DEF Run, Trailing
  <2> QED
    BY <2>1, <1>1 DEF Schedulers
<1>2. CASE ~s.active /\ ~Savable(s, x)
  <2>1. t = s
    BY <1>2 DEF Run
  <2> QED
    BY <2>1, <1>2
<1>3. CASE ~s.active /\ Savable(s, x)
  <2>1. PICK n \in Nat : n = Larger(s.latest, x.revision)
    BY SchedulerFields, SessionFields DEF Larger
  <2>2. x.revision \in Nat
    BY SessionFields
  <2>3. t = [s EXCEPT !.active = TRUE, !.attempting = n, !.attempted = x.revision]
    BY <1>3, <2>1 DEF Run
  <2>4. /\ t \in Schedulers
        /\ t.enabled = s.enabled /\ t.timer = s.timer /\ t.latest = s.latest
        /\ t.active /\ t.attempting = n /\ t.attempted = x.revision
    BY <2>2, <2>3 DEF Schedulers
  <2> QED
    BY <2>1, <2>4, <1>3
<1> QED
  BY <1>1, <1>2, <1>3

LEMMA NotifySteps ==
  ASSUME NEW s \in Schedulers, NEW r \in Nat, NEW t, t = NotifyDirty(s, r)
  PROVE  /\ t \in Schedulers
         /\ t.enabled = s.enabled /\ t.active = s.active
         /\ t.attempting = s.attempting /\ t.attempted = s.attempted
         /\ t.latest = Larger(s.latest, r)
         /\ (s.timer => t.timer) /\ (s.trailing => t.trailing)
         /\ s.enabled => t.timer \/ (t.active /\ t.trailing)
<1>1. PICK n \in Nat : n = Larger(s.latest, r)
  BY SchedulerFields DEF Larger
<1>2. PICK noted \in Schedulers : noted = [s EXCEPT !.latest = n]
  BY <1>1 DEF Schedulers
<1>3. /\ noted.enabled = s.enabled /\ noted.active = s.active
      /\ noted.attempting = s.attempting /\ noted.attempted = s.attempted
      /\ noted.latest = n /\ noted.timer = s.timer /\ noted.trailing = s.trailing
  BY <1>2 DEF Schedulers
<1>4. t = IF ~s.enabled THEN noted
          ELSE IF s.active THEN [noted EXCEPT !.trailing = TRUE] ELSE [noted EXCEPT !.timer = TRUE]
  BY <1>1, <1>2 DEF NotifyDirty, Trailing, Scheduled
<1>5. CASE ~s.enabled
  BY <1>1, <1>3, <1>4, <1>5
<1>6. CASE s.enabled /\ s.active
  <2>1. t = [noted EXCEPT !.trailing = TRUE]
    BY <1>4, <1>6
  <2>2. /\ t \in Schedulers
        /\ t.enabled = noted.enabled /\ t.active = noted.active
        /\ t.attempting = noted.attempting /\ t.attempted = noted.attempted
        /\ t.latest = n /\ t.timer = noted.timer /\ t.trailing
    BY <2>1, <1>3 DEF Schedulers
  <2> QED
    BY <2>2, <1>1, <1>3, <1>6
<1>7. CASE s.enabled /\ ~s.active
  <2>1. t = [noted EXCEPT !.timer = TRUE]
    BY <1>4, <1>7
  <2>2. /\ t \in Schedulers
        /\ t.enabled = noted.enabled /\ t.active = noted.active
        /\ t.attempting = noted.attempting /\ t.attempted = noted.attempted
        /\ t.latest = n /\ t.trailing = noted.trailing /\ t.timer
    BY <2>1, <1>3 DEF Schedulers
  <2> QED
    BY <2>2, <1>1, <1>3, <1>7
<1> QED
  BY <1>5, <1>6, <1>7

\* The timer is cleared, when it fires or when the window is flushed.
LEMMA UnsetSteps ==
  ASSUME NEW s \in Schedulers, NEW t, t = [s EXCEPT !.timer = FALSE]
  PROVE  /\ t \in Schedulers /\ ~t.timer
         /\ t.enabled = s.enabled /\ t.active = s.active /\ t.trailing = s.trailing
         /\ t.latest = s.latest /\ t.attempting = s.attempting /\ t.attempted = s.attempted
BY DEF Schedulers

LEMMA SetEnabledSteps ==
  ASSUME NEW s \in Schedulers, NEW x \in Sessions, NEW enabled \in BOOLEAN,
         NEW t, t = SetEnabled(s, x, enabled), s.latest = x.revision
  PROVE  /\ t \in Schedulers
         /\ t.enabled = enabled /\ t.active = s.active /\ t.trailing = s.trailing
         /\ t.attempting = s.attempting /\ t.attempted = s.attempted /\ t.latest = s.latest
         /\ enabled /\ s.timer => t.timer
         /\ enabled /\ ~s.enabled /\ x.dirty /\ x.available => t.timer
<1>1. PICK set \in Schedulers : set = [s EXCEPT !.enabled = enabled]
  BY DEF Schedulers
<1>2. /\ set.enabled = enabled /\ set.active = s.active /\ set.trailing = s.trailing
      /\ set.attempting = s.attempting /\ set.attempted = s.attempted
      /\ set.latest = s.latest /\ set.timer = s.timer
  BY <1>1 DEF Schedulers
<1>3. CASE ~enabled
  <2>1. t = [set EXCEPT !.timer = FALSE]
    BY <1>1, <1>3 DEF SetEnabled
  <2> QED
    BY <2>1, <1>2, <1>3, UnsetSteps
<1>4. CASE enabled /\ ~s.enabled /\ Savable(set, x)
  <2>1. s.latest \in Nat
    BY SchedulerFields
  <2>2. Larger(set.latest, x.revision) = s.latest
    BY <1>2, <2>1 DEF Larger
  <2>3. t = [[set EXCEPT !.latest = s.latest] EXCEPT !.timer = TRUE]
    BY <1>1, <1>4, <2>2 DEF SetEnabled, Scheduled
  <2>4. /\ t \in Schedulers /\ t.timer
        /\ t.enabled = set.enabled /\ t.active = set.active /\ t.trailing = set.trailing
        /\ t.attempting = set.attempting /\ t.attempted = set.attempted /\ t.latest = s.latest
    BY <2>1, <2>3 DEF Schedulers
  <2> QED
    BY <2>4, <1>2
<1>5. CASE enabled /\ ~(~s.enabled /\ Savable(set, x))
  <2>1. t = set
    BY <1>1, <1>5 DEF SetEnabled
  <2>2. Savable(set, x) <=> enabled /\ x.dirty /\ x.available
    BY <1>2 DEF Savable
  <2> QED
    BY <2>1, <2>2, <1>2, <1>5
<1> QED
  BY <1>3, <1>4, <1>5
\* A scheduler that knows the revision, and what it attempted last.
Knows(s, x) ==
  /\ s \in Schedulers /\ s.latest = x.revision
  /\ s.attempting = s.attempted /\ s.attempted <= x.revision

\* A run attempts the revision of the session.
LEMMA RunKnows ==
  ASSUME NEW s, NEW x \in Sessions, Knows(s, x), NEW t, t = Run(s, x)
  PROVE  /\ Knows(t, x) /\ t.enabled = s.enabled /\ t.timer = s.timer
         /\ s.active => t.active /\ t.trailing
         /\ ~s.active /\ Savable(s, x) => t.active /\ t.attempted = x.revision
         /\ ~s.active /\ ~Savable(s, x) => t = s
<1>1. x.revision \in Nat /\ s \in Schedulers /\ s.active \in BOOLEAN
  BY SessionFields, SchedulerFields DEF Knows
<1>2. Larger(s.latest, x.revision) = x.revision
  BY <1>1 DEF Knows, Larger
<1> QED
  BY <1>1, <1>2, RunSteps DEF Knows

\* The end of a save: it is followed by a trailing one when the document changed since it began.
LEMMA SettledKnows ==
  ASSUME NEW s, NEW x \in Sessions, Knows(s, x), NEW t, t = Settled(s, x)
  PROVE  /\ Knows(t, x) /\ t.enabled = s.enabled /\ t.timer = s.timer
         /\ s.trailing /\ Savable(s, x) => t.attempted = x.revision
         /\ s.attempted = x.revision => t.attempted = x.revision
<1>1. PICK idle \in Schedulers : idle = [s EXCEPT !.active = FALSE, !.trailing = FALSE]
  BY DEF Knows, Schedulers
<1>2. /\ ~idle.active /\ idle.enabled = s.enabled /\ idle.timer = s.timer
      /\ idle.latest = s.latest /\ idle.attempting = s.attempting
      /\ idle.attempted = s.attempted
  BY <1>1 DEF Knows, Schedulers
<1>3. Knows(idle, x)
  BY <1>2 DEF Knows
<1>4. Savable(idle, x) <=> Savable(s, x)
  BY <1>2 DEF Savable
<1>5. CASE s.trailing /\ s.enabled /\ x.dirty /\ s.latest > s.attempting
  <2>1. t = Run(idle, x)
    BY <1>1, <1>5 DEF Settled
  <2> QED
    BY <2>1, <1>2, <1>3, <1>4, RunKnows
<1>6. CASE ~(s.trailing /\ s.enabled /\ x.dirty /\ s.latest > s.attempting)
  <2>1. t = idle
    BY <1>1, <1>6 DEF Settled
  <2>2. s.latest \in Nat /\ s.attempting \in Nat
    BY SchedulerFields DEF Knows
  <2>3. s.trailing /\ Savable(s, x) => s.attempted = x.revision
    BY <2>2, <1>6 DEF Savable, Knows
  <2> QED
    BY <2>1, <2>3, <1>2, <1>3
<1> QED
  BY <1>5, <1>6

\* A flush waits for a save that runs, or attempts what was not attempted yet.
LEMMA FlushedKnows ==
  ASSUME NEW s, NEW x \in Sessions, Knows(s, x), NEW t, t = Flushed(s, x)
  PROVE  /\ Knows(t, x) /\ t.enabled = s.enabled /\ t.timer = s.timer
         /\ s.active => t = s
         /\ ~s.active /\ Savable(s, x) => t.attempted = x.revision
         /\ s.attempted = x.revision => t.attempted = x.revision
<1>1. CASE FlushSaves(s, x)
  <2>1. t = Run(s, x) /\ ~s.active /\ Savable(s, x)
    BY <1>1 DEF Flushed, FlushSaves
  <2> QED
    BY <2>1, RunKnows
<1>2. CASE ~FlushSaves(s, x)
  BY <1>2 DEF Flushed, FlushSaves
<1> QED
  BY <1>1, <1>2

-----------------------------------------------------------------------------
(* Steps that change the document.                                         *)

\* What the invariant says of types, for short.
LEMMA CarefulFields ==
  ASSUME Careful
  PROVE  /\ Knows(scheduler, session) /\ session \in Sessions
         /\ scheduler \in Schedulers /\ scheduler.active \in BOOLEAN
         /\ saves \in Seq(Request) /\ Len(saves) \in Nat /\ Len(saves) <= MaxSaves + 1
         /\ revision \in Nat /\ session.revision = revision /\ dirty \in BOOLEAN
<1>1. scheduler \in Schedulers /\ session \in Sessions /\ session.revision = revision
  BY DEF Careful, HookTyped, Informed
<1>2. Knows(scheduler, session)
  BY <1>1 DEF Careful, Informed, Knows
<1>3. saves \in Seq(Request) /\ revision \in Nat /\ dirty \in BOOLEAN
  BY DEF Careful, SavingTyped
<1>4. Len(saves) \in Nat /\ MaxSaves \in Nat
  BY <1>3, SavingAssumption
<1>5. Len(saves) <= MaxSaves + 1
  BY <1>4 DEF Careful, OneAutosave, HoldsOne
<1>6. scheduler.active \in BOOLEAN
  BY <1>1, SchedulerFields
<1> QED
  BY <1>1, <1>2, <1>3, <1>4, <1>5, <1>6

\* The subscription: a document that became newer and dirty is noticed at once.
LEMMA SubscribedIsCareful ==
  ASSUME Careful, SavingTyped', RevisionsEnd', Subscribed,
         UNCHANGED <<hookVars, flush, saves>>,
         \/ revision' = revision /\ (dirty' => dirty)
         \/ revision' = revision + 1 /\ dirty'
  PROVE  Careful'
<1>1. UNCHANGED <<setting, available, page, seen, flush>>
  BY DEF hookVars
<1>2. revision' \in Nat /\ dirty' \in BOOLEAN
  BY DEF SavingTyped
<1>3. CASE revision' = revision
  <2>1. UNCHANGED <<session, scheduler>>
    BY <1>3 DEF Subscribed
  <2>2. HookTyped' /\ Informed' /\ OneAutosave'
    BY <1>1, <1>3, <2>1 DEF Careful, HookTyped, Informed, OneAutosave
  <2>3. dirty' => dirty
    BY <1>3, CarefulFields
  <2>4. Attended'
    BY <1>1, <1>3, <2>1, <2>3 DEF Careful, Attended, Unattempted, Covered
  <2> QED
    BY <2>2, <2>4 DEF Careful
<1>4. CASE revision' # revision
  <2>1. revision' = revision + 1 /\ dirty'
    BY <1>4
  <2>2. session' = [session EXCEPT !.dirty = TRUE, !.revision = revision']
    BY <1>4, <2>1 DEF Subscribed
  <2>3. scheduler' = NotifyDirty(scheduler, revision')
    BY <1>4, <2>1 DEF Subscribed
  <2>4. /\ session' \in Sessions /\ session'.dirty /\ session'.revision = revision'
        /\ session'.available = session.available
    <3>1. PICK n \in Nat : n = revision'
      BY <1>2
    <3>2. session' = [session EXCEPT !.dirty = TRUE, !.revision = n]
      BY <2>2, <3>1
    <3>3. session \in Sessions
      BY CarefulFields
    <3> QED
      BY <3>1, <3>2, <3>3 DEF Sessions
  <2>5. /\ scheduler' \in Schedulers
        /\ scheduler'.enabled = scheduler.enabled /\ scheduler'.active = scheduler.active
        /\ scheduler'.attempting = scheduler.attempting
        /\ scheduler'.attempted = scheduler.attempted
        /\ scheduler'.latest = Larger(scheduler.latest, revision')
        /\ scheduler.enabled => scheduler'.timer \/ (scheduler'.active /\ scheduler'.trailing)
    <3>1. PICK n \in Nat : n = revision'
      BY <1>2
    <3>2. PICK s \in Schedulers : s = scheduler
      BY CarefulFields
    <3>3. scheduler' = NotifyDirty(s, n)
      BY <2>3, <3>1, <3>2
    <3> QED
      BY <3>1, <3>2, <3>3, NotifySteps
  <2>6. scheduler'.latest = revision' /\ scheduler'.attempted <= revision'
    <3>1. scheduler.latest = revision /\ scheduler.attempted <= revision
          /\ scheduler.attempted \in Nat
      BY CarefulFields, SchedulerFields DEF Knows
    <3> QED
      BY <3>1, <2>1, <2>5, CarefulFields DEF Larger
  <2>7. HookTyped'
    BY <1>1, <2>4, <2>5 DEF Careful, HookTyped
  <2>8. Informed'
    BY <1>1, <2>4, <2>5, <2>6 DEF Careful, Informed
  <2>9. OneAutosave'
    BY <2>5 DEF Careful, OneAutosave
  <2>10. Attended'
    <3>1. scheduler.enabled = seen.setting
      BY DEF Careful, Informed
    <3> QED
      BY <3>1, <1>1, <2>5 DEF Attended, Covered
  <2> QED
    BY <2>7, <2>8, <2>9, <2>10 DEF Careful
<1> QED
  BY <1>3, <1>4

LEMMA EditIsCareful ==
  ASSUME Careful, NEW new \in Texts, EditDocument(new)
  PROVE  Careful'
<1>1. Edit(new) /\ Subscribed /\ UNCHANGED <<hookVars, flush>>
  BY DEF EditDocument
<1>2. SavingTyped' /\ RevisionsEnd'
  BY <1>1, CarefulFields, EditKeepsSaving DEF Careful
<1>3. \/ revision' = revision /\ (dirty' => dirty)
      \/ revision' = revision + 1 /\ dirty'
  BY <1>1 DEF Edit, SetDirty
<1>4. UNCHANGED saves
  BY <1>1 DEF Edit, queue
<1> QED
  BY <1>1, <1>2, <1>3, <1>4, SubscribedIsCareful

LEMMA SavedIsCareful ==
  ASSUME Careful, Saved
  PROVE  Careful'
<1>1. ApplySave /\ Subscribed /\ UNCHANGED <<hookVars, flush>>
  BY DEF Saved
<1>2. SavingTyped' /\ RevisionsEnd'
  BY <1>1, CarefulFields, ApplyKeepsSaving DEF Careful
<1>3. /\ UNCHANGED saves
      /\ \/ revision' = revision /\ (dirty' => dirty)
         \/ revision' = revision + 1 /\ dirty'
  BY <1>1, ApplySteps DEF Careful
<1> QED
  BY <1>1, <1>2, <1>3, SubscribedIsCareful

\* The file is written.
LEMMA FileWrittenIsCareful ==
  ASSUME Careful, FileWritten
  PROVE  Careful'
<1>1. WriteFile /\ UNCHANGED autosaveVars
  BY DEF FileWritten
<1>2. SavingTyped' /\ RevisionsEnd'
  BY <1>1, WriteKeepsSaving DEF Careful
<1>3. UNCHANGED <<saves, dirty, revision, setting, available, page, seen, session, scheduler, flush>>
  BY <1>1 DEF WriteFile, autosaveVars, hookVars
<1>4. OneAutosave' /\ HookTyped' /\ Informed'
  BY <1>3 DEF Careful, OneAutosave, HookTyped, Informed
<1>5. Attended'
  BY <1>3 DEF Careful, Attended, Unattempted, Covered
<1> QED
  BY <1>2, <1>4, <1>5 DEF Careful

\* The user requests a save.
LEMMA UserSaveIsCareful ==
  ASSUME Careful, UserSave
  PROVE  Careful'
<1> DEFINE request == NewRequest("user")
<1>1. request \in Request /\ request.snapshot = text /\ request.by = "user"
  BY RequestsAreTyped DEF Careful, Requesters
<1>2. Len(saves) < MaxSaves /\ Enqueue(<<request>>) /\ UNCHANGED document
      /\ UNCHANGED autosaveVars
  BY DEF UserSave, RequestSave
<1> HIDE DEF request
<1>3. SavingTyped' /\ RevisionsEnd'
  BY <1>1, <1>2, RequestKeepsSaving DEF Careful
<1>4. UNCHANGED <<dirty, revision, setting, available, page, seen, session, scheduler, flush>>
  BY <1>2 DEF document, autosaveVars, hookVars
<1>5. HoldsOne(saves', scheduler.active)
  <2>1. /\ saves' \in Seq(Request) /\ Len(saves') = Len(saves) + 1
        /\ \A i \in 1 .. Len(saves) : saves'[i] = saves[i]
        /\ saves'[Len(saves) + 1] = request
    BY <1>1, <1>2, EnqueueOne DEF Careful
  <2>2. HoldsOne(saves, scheduler.active) /\ saves \in Seq(Request) /\ scheduler.active \in BOOLEAN
    BY CarefulFields DEF Careful, OneAutosave
  <2> QED
    BY <1>1, <1>2, <2>1, <2>2, AppendHoldsOne
<1>6. OneAutosave' /\ HookTyped' /\ Informed'
  BY <1>4, <1>5 DEF Careful, OneAutosave, HookTyped, Informed
<1>7. Attended'
  BY <1>4 DEF Careful, Attended, Unattempted, Covered
<1> QED
  BY <1>3, <1>6, <1>7 DEF Careful

\* A save of the user ends.
LEMMA UserSaveEndsIsCareful ==
  ASSUME Careful, UserSaveEnds
  PROVE  Careful'
<1>1. /\ saves # <<>> /\ Head(saves).by = "user" /\ SaveEnds(<<>>)
      /\ UNCHANGED document /\ UNCHANGED autosaveVars /\ stage \in {"writing", "watching"}
  BY DEF UserSaveEnds, SavedBy, SaveEnds
<1>2. /\ saves' \in Seq(Request) /\ Len(saves') = Len(saves) - 1
      /\ \A i \in 1 .. (Len(saves) - 1) : saves'[i] = saves[i + 1]
      /\ stage' = IF saves' = <<>> THEN "idle" ELSE "writing"
      /\ started' \in Nat /\ started' <= revision
  BY <1>1, EndOne DEF Careful
<1>3. saves \in Seq(Request) /\ Len(saves) \in Nat
  BY CarefulFields
<1>4. Len(saves') # Len(saves)
  BY <1>2, <1>3
<1>5. SavingTyped' /\ RevisionsEnd'
  BY <1>1, <1>2, <1>4, EndKeepsSaving DEF Careful
<1>6. UNCHANGED <<dirty, revision, setting, available, page, seen, session, scheduler, flush>>
  BY <1>1 DEF document, autosaveVars, hookVars
<1>7. HoldsOne(saves', scheduler.active)
  <2>1. saves[1].by # "autosave"
    BY <1>1, <1>3
  <2>2. HoldsOne(saves, scheduler.active) /\ scheduler.active \in BOOLEAN
    BY CarefulFields DEF Careful, OneAutosave
  <2>3. PICK rest \in Seq(Request) : rest = saves'
    BY <1>2
  <2>4. /\ Len(rest) = Len(saves) - 1
        /\ \A i \in 1 .. (Len(saves) - 1) : rest[i] = saves[i + 1]
    BY <1>2, <2>3
  <2>5. saves # <<>>
    BY <1>1
  <2>6. HoldsOne(rest, scheduler.active)
    <3>1. PICK requests \in Seq(Request) : requests = saves
      BY <1>3
    <3>2. PICK active \in BOOLEAN : active = scheduler.active
      BY <2>2
    <3>3. /\ HoldsOne(requests, active) /\ requests # <<>> /\ Len(rest) = Len(requests) - 1
          /\ \A i \in 1 .. (Len(requests) - 1) : rest[i] = requests[i + 1]
          /\ requests[1].by # "autosave"
      BY <2>1, <2>2, <2>4, <2>5, <3>1, <3>2
    <3>4. HoldsOne(rest, active)
      BY <3>3, TailHoldsOne
    <3> QED
      BY <3>2, <3>4
  <2> QED
    BY <2>3, <2>6
<1>8. OneAutosave' /\ HookTyped' /\ Informed'
  BY <1>6, <1>7 DEF Careful, OneAutosave, HookTyped, Informed
<1>9. Attended'
  BY <1>6 DEF Careful, Attended, Unattempted, Covered
<1> QED
  BY <1>5, <1>8, <1>9 DEF Careful
-----------------------------------------------------------------------------
(* Steps of the scheduler.                                                 *)

\* A scheduler that becomes active has its save appended, any other leaves the queue as it is.
LEMMA QueueFollowsScheduler ==
  ASSUME Careful, UNCHANGED document, scheduler' \in Schedulers,
         scheduler.active => scheduler'.active,
         Enqueue(Requests(scheduler, scheduler'))
  PROVE  SavingTyped' /\ RevisionsEnd' /\ OneAutosave'
<1>1. UNCHANGED <<text, savepoint, disk, dirty, revision>>
  BY DEF document
<1>2. scheduler.active \in BOOLEAN /\ scheduler'.active \in BOOLEAN
  BY CarefulFields DEF Schedulers
<1>3. HoldsOne(saves, scheduler.active) /\ saves \in Seq(Request) /\ SavingTyped /\ RevisionsEnd
  BY CarefulFields DEF Careful, OneAutosave
<1>4. CASE ~scheduler.active /\ scheduler'.active
  <2>1. PICK request \in Request : /\ request = NewRequest("autosave")
                                   /\ request.snapshot = text /\ request.by = "autosave"
    BY <1>3, RequestsAreTyped DEF Requesters
  <2>2. Enqueue(<<request>>)
    BY <1>4, <2>1 DEF Requests
  <2>3. SavingTyped' /\ RevisionsEnd'
    BY <1>3, <2>1, <2>2, RequestKeepsSaving
  <2>4. PICK more \in Seq(Request) :
          /\ more = saves' /\ Len(more) = Len(saves) + 1
          /\ \A i \in 1 .. Len(saves) : more[i] = saves[i]
          /\ more[Len(saves) + 1] = request
    BY <1>3, <2>2, EnqueueOne
  <2>5. HoldsOne(more, TRUE)
    <3>1. HoldsOne(saves, FALSE)
      BY <1>2, <1>3, <1>4, Zenon
    <3> QED
      BY <1>3, <2>1, <2>4, <3>1, AppendHoldsOne
  <2>6. OneAutosave'
    <3>1. scheduler'.active = TRUE
      BY <1>2, <1>4
    <3> QED
      BY <2>4, <2>5, <3>1 DEF OneAutosave
  <2> QED
    BY <2>3, <2>6
<1>5. CASE ~(~scheduler.active /\ scheduler'.active)
  <2>1. Enqueue(<<>>)
    BY <1>5 DEF Requests
  <2>2. UNCHANGED <<saves, stage>> /\ started' \in Nat /\ started' <= started
    BY <1>3, <2>1, EnqueueNothing
  <2>3. started' <= revision
    BY <2>2 DEF Careful, SavingTyped
  <2>4. SavingTyped'
    BY <1>1, <1>3, <2>2, <2>3 DEF SavingTyped
  <2>5. RevisionsEnd'
    BY <1>1, <1>3, <2>2 DEF RevisionsEnd, AlreadyApplied
  <2>6. scheduler'.active = scheduler.active
    BY <1>2, <1>5
  <2>7. OneAutosave'
    BY <1>3, <2>2, <2>6 DEF OneAutosave
  <2> QED
    BY <2>4, <2>5, <2>7
<1> QED
  BY <1>4, <1>5

\* Whatever the scheduler does by itself, it knows what it knew.
LEMMA InformedByItself ==
  ASSUME Careful, UNCHANGED <<document, hookVars, session>>,
         NEW t, scheduler' = t, Knows(t, session), t.enabled = scheduler.enabled,
         flush' \in {"none", "waiting"}
  PROVE  HookTyped' /\ Informed'
<1>1. UNCHANGED <<revision, setting, available, page, seen, session>>
  BY DEF document, hookVars
<1>2. HookTyped'
  BY <1>1 DEF Careful, HookTyped, Knows
<1>3. session.revision = revision
  BY CarefulFields
<1>4. Informed'
  BY <1>1, <1>3 DEF Careful, Informed, Knows
<1> QED
  BY <1>2, <1>4

\* What the last effects found savable is savable for the scheduler.
LEMMA SeenIsSavable ==
  ASSUME Careful, seen.dirty, seen.available, seen.setting,
         NEW s, s.enabled = scheduler.enabled
  PROVE  Savable(s, session)
BY DEF Careful, Informed, Savable

LEMMA TimerFiresIsCareful ==
  ASSUME Careful, TimerFires
  PROVE  Careful'
<1>1. PICK unset \in Schedulers : unset = [scheduler EXCEPT !.timer = FALSE]
  BY CarefulFields, UnsetSteps
<1>2. /\ unset.enabled = scheduler.enabled /\ unset.active = scheduler.active
      /\ Knows(unset, session)
  BY <1>1, CarefulFields, UnsetSteps DEF Knows
<1>3. /\ scheduler' = IF Savable(unset, session) THEN Run(unset, session) ELSE unset
      /\ Enqueue(Requests(scheduler, scheduler'))
      /\ UNCHANGED <<document, hookVars, session, flush>>
  BY <1>1 DEF TimerFires
<1>4. PICK t : t = scheduler'
  OBVIOUS
<1>5. /\ Knows(t, session) /\ t.enabled = unset.enabled
      /\ unset.active => t.active
      /\ Savable(unset, session) => (t.active /\ t.trailing) \/ t.attempted = session.revision
  <2>1. CASE Savable(unset, session)
    <3>1. t = Run(unset, session)
      BY <1>3, <1>4, <2>1
    <3>2. session \in Sessions
      BY CarefulFields
    <3> QED
      BY <3>1, <3>2, <1>2, <2>1, RunKnows
  <2>2. CASE ~Savable(unset, session)
    BY <1>2, <1>3, <1>4, <2>2
  <2> QED
    BY <2>1, <2>2
<1>6. SavingTyped' /\ RevisionsEnd' /\ OneAutosave'
  <2>1. scheduler' \in Schedulers /\ (scheduler.active => scheduler'.active)
    BY <1>2, <1>4, <1>5 DEF Knows
  <2>2. UNCHANGED document
    BY <1>3
  <2> QED
    BY <1>3, <2>1, <2>2, QueueFollowsScheduler
<1>7. HookTyped' /\ Informed'
  <2>1. flush' \in {"none", "waiting"}
    BY <1>3 DEF Careful, HookTyped
  <2>2. UNCHANGED <<document, hookVars, session>>
    BY <1>3
  <2> QED
    BY <1>2, <1>4, <1>5, <2>1, <2>2, InformedByItself
<1>8. Attended'
  <2> SUFFICES ASSUME revision > t.attempted, seen.dirty, seen.available, seen.setting
               PROVE  t.active /\ t.trailing
    BY <1>3, <1>4 DEF Attended, Unattempted, Covered, document, hookVars
  <2>1. Savable(unset, session)
    BY <1>2, SeenIsSavable
  <2>2. t.attempted # session.revision
    <3>1. session.revision = revision /\ revision \in Nat /\ t.attempted \in Nat
      BY <1>5, CarefulFields, SchedulerFields DEF Knows
    <3> QED
      BY <3>1
  <2> QED
    BY <1>5, <2>1, <2>2
<1> QED
  BY <1>6, <1>7, <1>8 DEF Careful

LEMMA FlushIsCareful ==
  ASSUME Careful, Flush
  PROVE  Careful'
<1>1. PICK unset \in Schedulers : unset = [scheduler EXCEPT !.timer = FALSE]
  BY CarefulFields, UnsetSteps
<1>2. /\ unset.enabled = scheduler.enabled /\ unset.active = scheduler.active
      /\ Knows(unset, session)
  BY <1>1, CarefulFields, UnsetSteps DEF Knows
<1>3. /\ scheduler' = Flushed(unset, session)
      /\ flush' = FlushWaits(unset, session)
      /\ Enqueue(Requests(scheduler, scheduler'))
      /\ UNCHANGED <<document, hookVars, session>>
  BY <1>1 DEF Flush
<1>4. PICK t : t = scheduler'
  OBVIOUS
<1>5. /\ Knows(t, session) /\ t.enabled = unset.enabled
      /\ unset.active => t.active
      /\ ~unset.active /\ Savable(unset, session) => t.attempted = session.revision
  <2>1. t = Flushed(unset, session) /\ session \in Sessions
    BY <1>3, <1>4, CarefulFields
  <2> QED
    BY <2>1, <1>2, FlushedKnows
<1>6. SavingTyped' /\ RevisionsEnd' /\ OneAutosave'
  <2>1. scheduler' \in Schedulers /\ (scheduler.active => scheduler'.active)
    BY <1>2, <1>4, <1>5 DEF Knows
  <2>2. UNCHANGED document
    BY <1>3
  <2> QED
    BY <1>3, <2>1, <2>2, QueueFollowsScheduler
<1>7. flush' = IF t.active THEN "waiting" ELSE "none"
  BY <1>3, <1>4 DEF FlushWaits
<1>8. HookTyped' /\ Informed'
  <2>1. flush' \in {"none", "waiting"}
    BY <1>7
  <2>2. UNCHANGED <<document, hookVars, session>>
    BY <1>3
  <2> QED
    BY <1>2, <1>4, <1>5, <2>1, <2>2, InformedByItself
<1>9. Attended'
  <2> SUFFICES ASSUME revision > t.attempted, seen.dirty, seen.available, seen.setting
               PROVE  flush' = "waiting"
    BY <1>3, <1>4 DEF Attended, Unattempted, Covered, document, hookVars
  <2>1. Savable(unset, session)
    BY <1>2, SeenIsSavable
  <2>2. t.attempted # session.revision
    <3>1. session.revision = revision /\ revision \in Nat /\ t.attempted \in Nat
      BY <1>5, CarefulFields, SchedulerFields DEF Knows
    <3> QED
      BY <3>1
  <2> QED
    BY <1>5, <1>7, <2>1, <2>2
<1> QED
  BY <1>6, <1>8, <1>9 DEF Careful
\* The end of an autosave: what changed since it began is saved by the trailing one, or by the
\* flush that waited.
LEMMA AutosaveEndsIsCareful ==
  ASSUME Careful, AutosaveEnds
  PROVE  Careful'
<1>1. PICK settled : settled = Settled(scheduler, session)
  OBVIOUS
<1>2. PICK t : t = IF flush = "waiting" THEN Flushed(settled, session) ELSE settled
  OBVIOUS
<1>3. /\ saves # <<>> /\ Head(saves).by = "autosave"
      /\ SaveEnds(Requests([scheduler EXCEPT !.active = FALSE], t))
      /\ scheduler' = t
      /\ flush' = IF flush = "waiting" THEN FlushWaits(settled, session) ELSE flush
      /\ UNCHANGED <<hookVars, session>>
  BY <1>1, <1>2 DEF AutosaveEnds, SavedBy
<1>4. UNCHANGED document /\ stage \in {"writing", "watching"}
  BY <1>3 DEF SaveEnds
<1>5. UNCHANGED <<text, savepoint, disk, dirty, revision>>
  BY <1>4 DEF document
<1>6. /\ Knows(settled, session) /\ settled.enabled = scheduler.enabled
      /\ settled.timer = scheduler.timer
      /\ scheduler.trailing /\ Savable(scheduler, session) =>
           settled.attempted = session.revision
      /\ scheduler.attempted = session.revision => settled.attempted = session.revision
  BY <1>1, CarefulFields, SettledKnows
<1>7. /\ Knows(t, session) /\ t.enabled = settled.enabled /\ t.timer = settled.timer
      /\ settled.attempted = session.revision => t.attempted = session.revision
      /\ flush = "waiting" /\ settled.active => t = settled
      /\ flush = "waiting" /\ ~settled.active /\ Savable(settled, session) =>
           t.attempted = session.revision
  <2>1. CASE flush = "waiting"
    <3>1. t = Flushed(settled, session) /\ session \in Sessions
      BY <1>2, <2>1, CarefulFields
    <3> QED
      BY <3>1, <1>6, FlushedKnows
  <2>2. CASE flush # "waiting"
    BY <1>2, <1>6, <2>2
  <2> QED
    BY <2>1, <2>2
<1>8. saves \in Seq(Request) /\ Len(saves) \in Nat /\ Len(saves) >= 1
  BY <1>3, CarefulFields
<1>9. PICK rest \in Seq(Request) :
        /\ rest = Tail(saves) /\ Len(rest) = Len(saves) - 1
        /\ \A i \in 1 .. (Len(saves) - 1) : rest[i] = saves[i + 1]
  <2>1. saves # <<>>
    BY <1>3
  <2>2. Tail(saves) \in Seq(Request)
    BY <1>8, <2>1
  <2>3. PICK tail \in Seq(Request) : tail = Tail(saves)
    BY <2>2
  <2>4. Len(tail) = Len(saves) - 1
    BY <1>8, <2>1, <2>3
  <2>5. \A i \in 1 .. (Len(saves) - 1) : tail[i] = saves[i + 1]
    BY <1>8, <2>1, <2>3
  <2> QED
    BY <2>3, <2>4, <2>5
<1>10. HoldsOne(rest, FALSE)
  <2>1. PICK requests \in Seq(Request) : requests = saves
    BY <1>8
  <2>2. PICK active \in BOOLEAN : active = scheduler.active
    BY CarefulFields
  <2>3. /\ HoldsOne(requests, active) /\ requests # <<>> /\ Len(rest) = Len(requests) - 1
        /\ \A i \in 1 .. (Len(requests) - 1) : rest[i] = requests[i + 1]
        /\ requests[1].by = "autosave"
    BY <1>3, <1>8, <1>9, <2>1, <2>2 DEF Careful, OneAutosave
  <2> QED
    BY <2>3, TailHoldsOne
<1>11. t.active \in BOOLEAN
  BY <1>7 DEF Knows, Schedulers
<1>12. ~[scheduler EXCEPT !.active = FALSE].active
  BY CarefulFields DEF Schedulers
<1>13. SavingTyped' /\ RevisionsEnd' /\ OneAutosave'
  <2>1. CASE t.active
    <3>1. PICK request \in Request : /\ request = NewRequest("autosave")
                                     /\ request.snapshot = text /\ request.by = "autosave"
      BY RequestsAreTyped DEF Careful, Requesters
    <3>2. SaveEnds(<<request>>)
      BY <1>3, <1>12, <2>1, <3>1 DEF Requests
    <3>3. PICK more \in Seq(Request) :
            /\ more = saves' /\ Len(more) = Len(saves)
            /\ \A i \in 1 .. (Len(saves) - 1) : more[i] = saves[i + 1]
            /\ more[Len(saves)] = request
      BY <3>2, EndAndTrail DEF Careful
    <3>4. stage' = "writing" /\ started' \in Nat /\ started' <= revision
      BY <3>2, EndAndTrail DEF Careful
    <3>5. more # <<>>
      BY <1>8, <3>3
    <3>6. SavingTyped' /\ RevisionsEnd'
      BY <1>3, <1>4, <3>1, <3>3, <3>4, <3>5, EndKeepsSaving DEF Careful
    <3>7. /\ Len(more) = Len(rest) + 1
          /\ \A i \in 1 .. Len(rest) : more[i] = rest[i]
          /\ more[Len(rest) + 1] = request
      BY <1>8, <1>9, <3>3
    <3>8. HoldsOne(more, TRUE)
      BY <1>10, <3>1, <3>7, AppendHoldsOne
    <3>9. scheduler'.active = TRUE
      BY <1>3, <1>11, <2>1
    <3> QED
      BY <3>3, <3>6, <3>8, <3>9 DEF OneAutosave
  <2>2. CASE ~t.active
    <3>1. SaveEnds(<<>>)
      BY <1>3, <2>2 DEF Requests
    <3>2. /\ saves' \in Seq(Request) /\ Len(saves') = Len(saves) - 1
          /\ \A i \in 1 .. (Len(saves) - 1) : saves'[i] = saves[i + 1]
          /\ stage' = IF saves' = <<>> THEN "idle" ELSE "writing"
          /\ started' \in Nat /\ started' <= revision
      BY <3>1, EndOne DEF Careful
    <3>3. Len(saves') # Len(saves)
      BY <1>8, <3>2
    <3>4. SavingTyped' /\ RevisionsEnd'
      BY <1>3, <1>4, <3>2, <3>3, EndKeepsSaving DEF Careful
    <3>5. saves' = rest
      <4>1. saves' = Tail(saves) \o <<>> /\ Tail(saves) \in Seq(Request)
        BY <1>8, <3>1 DEF SaveEnds, Begin
      <4> QED
        BY <4>1, <1>9
    <3>6. scheduler'.active = FALSE
      BY <1>3, <1>11, <2>2
    <3> QED
      BY <1>10, <3>4, <3>5, <3>6 DEF OneAutosave
  <2> QED
    BY <2>1, <2>2
<1>14. HookTyped' /\ Informed'
  <2>1. flush' \in {"none", "waiting"}
    BY <1>3 DEF FlushWaits, Careful, HookTyped
  <2>2. UNCHANGED <<document, hookVars, session>>
    BY <1>3, <1>4
  <2>3. t.enabled = scheduler.enabled
    BY <1>6, <1>7
  <2> QED
    BY <1>3, <1>7, <2>1, <2>2, <2>3, InformedByItself
<1>15. Attended'
  <2> SUFFICES ASSUME dirty, revision > t.attempted, seen.dirty, seen.available, seen.setting
               PROVE  t.timer \/ flush' = "waiting"
    BY <1>3, <1>5 DEF Attended, Unattempted, Covered, hookVars
  <2>1. Savable(scheduler, session) /\ Savable(settled, session)
    BY <1>6, SeenIsSavable
  <2>2. session.revision = revision /\ t.attempted # session.revision
    <3>1. session.revision = revision /\ revision \in Nat /\ t.attempted \in Nat
      BY <1>7, CarefulFields, SchedulerFields DEF Knows
    <3> QED
      BY <3>1
  <2>3. settled.attempted # session.revision
    BY <1>7, <2>2
  <2>4. revision > scheduler.attempted
    <3>1. /\ scheduler.attempted # revision /\ scheduler.attempted <= revision
          /\ scheduler.attempted \in Nat /\ revision \in Nat
      BY <1>6, <2>2, <2>3, CarefulFields, SchedulerFields DEF Knows
    <3> QED
      BY <3>1
  <2>5. Covered
    BY <2>4 DEF Careful, Attended, Unattempted
  <2>6. CASE scheduler.timer
    BY <2>6, <1>6, <1>7
  <2>7. CASE scheduler.active /\ scheduler.trailing
    BY <2>7, <1>6, <2>1, <2>3
  <2>8. CASE flush = "waiting"
    <3>1. settled.active /\ t = settled
      BY <2>8, <1>7, <2>1, <2>2
    <3>2. Flushed(settled, session) = settled
      BY <1>2, <2>8, <3>1
    <3> QED
      BY <1>3, <2>8, <3>1, <3>2 DEF FlushWaits
  <2> QED
    BY <2>5, <2>6, <2>7, <2>8 DEF Covered
<1> QED
  BY <1>13, <1>14, <1>15 DEF Careful
-----------------------------------------------------------------------------
(* Steps of the page.                                                      *)

\* A notice of the revision a scheduler knows only adds to what it is going to do.
Busy(s) == s.timer \/ (s.active /\ s.trailing)
LEMMA NotifyKnows ==
  ASSUME NEW s, NEW x \in Sessions, Knows(s, x), NEW t, t = NotifyDirty(s, x.revision)
  PROVE  /\ Knows(t, x) /\ t.enabled = s.enabled /\ t.active = s.active
         /\ t.attempted = s.attempted
         /\ Busy(s) => Busy(t)
         /\ s.enabled => Busy(t)
<1>1. s \in Schedulers /\ x.revision \in Nat
  BY SessionFields DEF Knows
<1>2. Larger(s.latest, x.revision) = x.revision
  BY <1>1 DEF Knows, Larger
<1> QED
  BY <1>1, <1>2, NotifySteps DEF Knows, Busy

\* Two renders with the same values are the same.
LEMMA SameRendered ==
  ASSUME NEW a \in Rendered, NEW b \in Rendered,
         a.dirty = b.dirty, a.available = b.available, a.setting = b.setting
  PROVE  a = b
BY DEF Rendered

\* The effects of a render: whatever made the document savable is a reason to save.
LEMMA EffectsKnow ==
  ASSUME Careful, NEW x \in Sessions, Knows(scheduler, x), x.revision = revision,
         NEW values \in Rendered, NEW t, t = AfterEffects(x, values),
         x.dirty = values.dirty, x.available = values.available
  PROVE  /\ Knows(t, x) /\ t.enabled = values.setting /\ t.active = scheduler.active
         /\ t.attempted = scheduler.attempted
         /\ values.dirty /\ values.available /\ values.setting =>
              /\ Busy(scheduler) => Busy(t)
              /\ values # seen => Busy(t)
<1>1. /\ values.dirty \in BOOLEAN /\ values.available \in BOOLEAN /\ values.setting \in BOOLEAN
      /\ seen \in Rendered
  BY DEF Rendered, Careful, HookTyped
<1>2. scheduler.enabled = seen.setting /\ scheduler \in Schedulers /\ scheduler.latest = x.revision
  BY CarefulFields DEF Careful, Informed, Knows
<1>3. PICK s1 : s1 = IF values.setting # seen.setting
                     THEN SetEnabled(scheduler, x, values.setting) ELSE scheduler
  OBVIOUS
<1>4. /\ Knows(s1, x) /\ s1.enabled = values.setting /\ s1.active = scheduler.active
      /\ s1.attempted = scheduler.attempted
      /\ values.setting /\ Busy(scheduler) => Busy(s1)
      /\ values.dirty /\ values.available /\ values.setting /\ values.setting # seen.setting
           => Busy(s1)
  <2>1. CASE values.setting # seen.setting
    <3>1. s1 = SetEnabled(scheduler, x, values.setting)
      BY <1>3, <2>1
    <3>2. /\ s1 \in Schedulers
          /\ s1.enabled = values.setting /\ s1.active = scheduler.active
          /\ s1.trailing = scheduler.trailing
          /\ s1.attempting = scheduler.attempting /\ s1.attempted = scheduler.attempted
          /\ s1.latest = scheduler.latest
          /\ values.setting /\ scheduler.timer => s1.timer
          /\ values.setting /\ ~scheduler.enabled /\ x.dirty /\ x.available => s1.timer
      BY <1>1, <1>2, <3>1, SetEnabledSteps
    <3>3. values.setting => ~scheduler.enabled
      BY <1>1, <1>2, <2>1 DEF Rendered
    <3> QED
      BY <3>2, <3>3 DEF Knows, Busy
  <2>2. CASE values.setting = seen.setting
    BY <1>2, <1>3, <2>2
  <2> QED
    BY <2>1, <2>2
<1>5. PICK s2 : s2 = IF values.dirty /\ ~seen.dirty THEN NotifyDirty(s1, revision) ELSE s1
  OBVIOUS
<1>6. /\ Knows(s2, x) /\ s2.enabled = s1.enabled /\ s2.active = s1.active
      /\ s2.attempted = s1.attempted
      /\ Busy(s1) => Busy(s2)
      /\ values.dirty /\ ~seen.dirty /\ s1.enabled => Busy(s2)
  <2>1. CASE values.dirty /\ ~seen.dirty
    <3>1. s2 = NotifyDirty(s1, x.revision)
      BY <1>5, <2>1
    <3> QED
      BY <3>1, <1>4, NotifyKnows
  <2>2. CASE ~(values.dirty /\ ~seen.dirty)
    BY <1>4, <1>5, <2>2
  <2> QED
    BY <2>1, <2>2
<1>7. t = IF values.available # seen.available THEN NotifyAvailabilityChanged(s2, x) ELSE s2
  BY <1>3, <1>5 DEF AfterEffects
<1>8. /\ Knows(t, x) /\ t.enabled = s2.enabled /\ t.active = s2.active
      /\ t.attempted = s2.attempted
      /\ Busy(s2) => Busy(t)
      /\ values.available # seen.available /\ Savable(s2, x) => Busy(t)
  <2>1. CASE values.available # seen.available /\ Savable(s2, x)
    <3>1. t = NotifyDirty(s2, x.revision) /\ s2.enabled
      BY <1>7, <2>1 DEF NotifyAvailabilityChanged, Savable
    <3> QED
      BY <3>1, <1>6, NotifyKnows
  <2>2. CASE ~(values.available # seen.available /\ Savable(s2, x))
    <3>1. t = s2
      BY <1>7, <2>2 DEF NotifyAvailabilityChanged
    <3> QED
      BY <3>1, <1>6, <2>2
  <2> QED
    BY <2>1, <2>2
<1>9. ASSUME values.dirty, values.available, values.setting, values # seen
      PROVE  Busy(t)
  <2>1. \/ values.setting # seen.setting
        \/ values.dirty # seen.dirty
        \/ values.available # seen.available
    <3>1. values \in Rendered /\ seen \in Rendered
      BY <1>1
    <3> QED
      BY <3>1, <1>9, SameRendered
  <2>2. CASE values.setting # seen.setting
    BY <2>2, <1>4, <1>6, <1>8, <1>9
  <2>3. CASE values.dirty # seen.dirty
    <3>1. ~seen.dirty
      BY <1>1, <1>9, <2>3 DEF Rendered
    <3>2. s1.enabled
      BY <1>4, <1>9
    <3> QED
      BY <3>1, <3>2, <1>6, <1>8, <1>9
  <2>4. CASE values.available # seen.available
    <3>1. Savable(s2, x)
      BY <1>4, <1>6, <1>9 DEF Savable
    <3> QED
      BY <3>1, <2>4, <1>8
  <2> QED
    BY <2>1, <2>2, <2>3, <2>4
<1>10. ASSUME values.dirty, values.available, values.setting, Busy(scheduler)
       PROVE  Busy(t)
  BY <1>4, <1>6, <1>8, <1>10
<1> QED
  BY <1>4, <1>6, <1>8, <1>9, <1>10

LEMMA RunEffectsIsCareful ==
  ASSUME Careful, RunEffects
  PROVE  Careful'
<1>1. PICK values \in Rendered : values = page.values
  BY DEF Careful, HookTyped
<1>2. PICK x : x = [dirty |-> values.dirty, available |-> values.available, revision |-> revision]
  OBVIOUS
<1>3. /\ x \in Sessions /\ x.revision = revision
      /\ x.dirty = values.dirty /\ x.available = values.available
  BY <1>2, CarefulFields DEF Rendered, Sessions
<1>4. /\ session' = x /\ scheduler' = AfterEffects(x, values) /\ seen' = values
      /\ page' = [page EXCEPT !.effects = FALSE]
      /\ UNCHANGED <<savingVars, setting, available, flush>>
  BY <1>1, <1>2 DEF RunEffects
<1>5. UNCHANGED <<text, savepoint, disk, dirty, revision, saves, stage, started>>
  BY <1>4 DEF savingVars, document, queue
<1>6. PICK t : t = scheduler'
  OBVIOUS
<1>7. Knows(scheduler, x)
  BY <1>3, CarefulFields DEF Knows
<1>8. /\ Knows(t, x) /\ t.enabled = values.setting /\ t.active = scheduler.active
      /\ t.attempted = scheduler.attempted
      /\ values.dirty /\ values.available /\ values.setting =>
           /\ Busy(scheduler) => Busy(t)
           /\ values # seen => Busy(t)
  BY <1>3, <1>4, <1>6, <1>7, EffectsKnow
<1>9. SavingTyped' /\ RevisionsEnd'
  BY <1>5 DEF Careful, SavingTyped, RevisionsEnd, AlreadyApplied
<1>10. OneAutosave'
  BY <1>5, <1>6, <1>8 DEF Careful, OneAutosave
<1>11. /\ page' \in [values : Rendered, effects : BOOLEAN]
       /\ page'.values = values
  BY <1>1, <1>4 DEF Careful, HookTyped
<1>12. HookTyped'
  BY <1>3, <1>4, <1>6, <1>8, <1>11 DEF Careful, HookTyped, Knows
<1>13. Informed'
  BY <1>3, <1>4, <1>5, <1>6, <1>8, <1>11 DEF Informed, Knows
<1>14. Attended'
  <2> SUFFICES ASSUME dirty, revision > t.attempted,
                      values.dirty, values.available, values.setting
               PROVE  Busy(t) \/ flush = "waiting"
    BY <1>4, <1>5, <1>6 DEF Attended, Unattempted, Covered, Busy
  <2>1. CASE values # seen
    BY <2>1, <1>8
  <2>2. CASE values = seen
    <3>1. Covered
      BY <2>2, <1>8 DEF Careful, Attended, Unattempted
    <3> QED
      BY <3>1, <1>8 DEF Covered, Busy
  <2> QED
    BY <2>1, <2>2
<1> QED
  BY <1>9, <1>10, <1>12, <1>13, <1>14 DEF Careful

\* A render, a change of the setting or of the availability tells the scheduler nothing.
LEMMA PageIsCareful ==
  ASSUME Careful, Render \/ ChangeSetting \/ ChangeAvailability
  PROVE  Careful'
<1>1. UNCHANGED <<savingVars, seen, session, scheduler, flush>>
  BY DEF Render, ChangeSetting, ChangeAvailability
<1>2. UNCHANGED <<text, savepoint, disk, dirty, revision, saves, stage, started>>
  BY <1>1 DEF savingVars, document, queue
<1>3. SavingTyped' /\ RevisionsEnd' /\ OneAutosave'
  BY <1>1, <1>2 DEF Careful, SavingTyped, RevisionsEnd, AlreadyApplied, OneAutosave
<1>4. setting' \in BOOLEAN /\ available' \in BOOLEAN
  BY DEF Render, ChangeSetting, ChangeAvailability, Careful, HookTyped
<1>5. Current \in Rendered
  BY CarefulFields DEF Careful, HookTyped, Current, Rendered
<1>6. /\ page' \in [values : Rendered, effects : BOOLEAN]
      /\ page'.effects \/ page' = page
  <2>1. CASE Render
    <3>1. page' = [values |-> Current, effects |-> TRUE]
      BY <2>1 DEF Render
    <3> QED
      BY <1>5, <3>1
  <2>2. CASE ChangeSetting \/ ChangeAvailability
    BY <2>2 DEF ChangeSetting, ChangeAvailability, Careful, HookTyped
  <2> QED
    BY <2>1, <2>2
<1>7. HookTyped'
  BY <1>1, <1>4, <1>6 DEF Careful, HookTyped
<1>8. Informed'
  BY <1>1, <1>2, <1>6 DEF Careful, Informed
<1>9. Attended'
  BY <1>1, <1>2 DEF Careful, Attended, Unattempted, Covered
<1> QED
  BY <1>3, <1>7, <1>8, <1>9 DEF Careful
-----------------------------------------------------------------------------
(* The specification.                                                      *)

LEMMA CarefulInitially == Init => Careful
<1> SUFFICES ASSUME Init PROVE Careful
  OBVIOUS
<1>1. /\ text \in Texts /\ savepoint \in Texts /\ disk \in Texts
      /\ dirty = FALSE /\ revision = 0
      /\ saves = <<>> /\ stage = "idle" /\ started = 0
  BY SavingAssumption, Zenon DEF Init, SavingInit
<1>2. setting \in BOOLEAN /\ available \in BOOLEAN /\ flush = "none"
  BY DEF Init
<1>3. saves \in Seq(Request) /\ Len(saves) = 0
  BY <1>1
<1>4. MaxRevision \in Nat /\ MaxSaves \in Nat
  BY SavingAssumption
<1>5. SavingTyped
  <2>1. text \in Texts /\ savepoint \in Texts /\ disk \in Texts
    BY <1>1
  <2>2. dirty \in BOOLEAN
    BY <1>1
  <2>3. revision \in Nat /\ started \in Nat /\ started <= revision
    BY <1>1
  <2>4. stage \in {"idle", "writing", "written", "watching"} /\ (stage = "idle" <=> saves = <<>>)
    BY <1>1
  <2> QED
    BY <2>1, <2>2, <2>3, <2>4, <1>3 DEF SavingTyped
<1>6. RevisionsEnd
  <2>1. AlreadyApplied = 0 /\ 0 \in 0 .. (Len(saves) - 0)
    BY <1>1, <1>3 DEF AlreadyApplied
  <2>2. \A i \in 1 .. Len(saves) : i > 0 + 0 => saves[i].snapshot = text
    BY <1>3
  <2>3. revision + 0 <= MaxRevision + MaxSaves + 1
    BY <1>1, <1>4
  <2>4. Ends(revision, saves, 0, text)
    BY <2>1, <2>2, <2>3 DEF Ends
  <2> QED
    BY <2>1, <2>4 DEF RevisionsEnd
<1>7. /\ scheduler.active = FALSE /\ scheduler.timer = FALSE /\ scheduler.enabled = setting
      /\ scheduler.latest = 0 /\ scheduler.attempting = 0 /\ scheduler.attempted = 0
      /\ scheduler \in Schedulers
  BY <1>2 DEF Init, NoRevision, Schedulers
<1>8. OneAutosave
  <2>1. Autosaves(saves) = {}
    BY <1>3 DEF Autosaves
  <2> QED
    BY <2>1, <1>3, <1>4, <1>7 DEF OneAutosave, HoldsOne
<1>9. session \in Sessions /\ session.revision = 0 /\ session.available = available
  BY <1>2 DEF Init, Sessions
<1>10. /\ seen \in Rendered /\ seen.dirty = FALSE
       /\ seen.available = available /\ seen.setting = setting
  BY <1>1, <1>2 DEF Init, Current, Rendered
<1>11. page \in [values : Rendered, effects : BOOLEAN] /\ page.values = seen
  BY <1>10 DEF Init
<1>12. HookTyped
  BY <1>2, <1>7, <1>9, <1>10, <1>11 DEF HookTyped
<1>13. Informed
  BY <1>1, <1>7, <1>9, <1>10, <1>11 DEF Informed
<1>14. Attended
  BY <1>10 DEF Attended
<1> QED
  BY <1>5, <1>6, <1>8, <1>12, <1>13, <1>14 DEF Careful

LEMMA StepIsCareful == Careful /\ [Next]_vars => Careful'
<1> SUFFICES ASSUME Careful, [Next]_vars PROVE Careful'
  OBVIOUS
<1>1. ASSUME NEW new \in Texts, EditDocument(new) PROVE Careful'
  BY <1>1, EditIsCareful
<1>2. CASE UserSave
  BY <1>2, UserSaveIsCareful
<1>3. CASE FileWritten
  BY <1>3, FileWrittenIsCareful
<1>4. CASE Saved
  BY <1>4, SavedIsCareful
<1>5. CASE UserSaveEnds
  BY <1>5, UserSaveEndsIsCareful
<1>6. CASE AutosaveEnds
  BY <1>6, AutosaveEndsIsCareful
<1>7. CASE TimerFires
  BY <1>7, TimerFiresIsCareful
<1>8. CASE Flush
  BY <1>8, FlushIsCareful
<1>9. CASE RunEffects
  BY <1>9, RunEffectsIsCareful
<1>10. CASE Render \/ ChangeSetting \/ ChangeAvailability
  BY <1>10, PageIsCareful
<1>11. CASE UNCHANGED vars
  <2>1. UNCHANGED <<savingVars, hookVars, session, scheduler, flush>>
    BY <1>11 DEF vars, autosaveVars
  <2>2. /\ UNCHANGED <<text, savepoint, disk, dirty, revision, saves, stage, started>>
        /\ UNCHANGED <<setting, available, page, seen>>
    BY <2>1 DEF savingVars, document, queue, hookVars
  <2>3. SavingTyped' /\ RevisionsEnd' /\ OneAutosave'
    BY <2>1, <2>2 DEF Careful, SavingTyped, RevisionsEnd, AlreadyApplied, OneAutosave
  <2>4. HookTyped' /\ Informed'
    BY <2>1, <2>2 DEF Careful, HookTyped, Informed
  <2>5. Attended'
    BY <2>1, <2>2 DEF Careful, Attended, Unattempted, Covered
  <2> QED
    BY <2>3, <2>4, <2>5 DEF Careful
<1> QED
  BY <1>1, <1>2, <1>3, <1>4, <1>5, <1>6, <1>7, <1>8, <1>9, <1>10, <1>11 DEF Next

\* What the window knows of its document, and what it has left to do, is kept by every step of
\* the scheduler, the hook and the queue.
THEOREM InvariantHolds == Spec => []Careful
  BY CarefulInitially, StepIsCareful, PTL DEF Spec

\* The variables have their types: the session and the scheduler always know the revision of the
\* store, revisions end with the edits and the saves still in the queue, and the queue holds an
\* autosave exactly when the scheduler takes one for active (autosaveScheduler.ts,
\* useWindowAutosave.ts, documentClaimWorkflowRuntime.ts).
THEOREM AutosaveTyped == Spec => []TypeOK
<1>1. Careful => TypeOK
  <2> SUFFICES ASSUME Careful PROVE TypeOK
    OBVIOUS
  <2>1. /\ MaxRevision \in Nat /\ MaxSaves \in Nat
        /\ revision \in Nat /\ saves \in Seq(Request) /\ Len(saves) \in Nat
    BY SavingAssumption, CarefulFields
  <2>2. revision \in Revisions
    <3>1. revision <= MaxRevision + MaxSaves + 1
      <4>1. CASE revision < MaxRevision
        BY <4>1, <2>1
      <4>2. CASE ~(revision < MaxRevision)
        <5>1. PICK k \in 0 .. (Len(saves) - AlreadyApplied) :
                revision + k <= MaxRevision + MaxSaves + 1
          BY <4>2 DEF Careful, RevisionsEnd, Ends
        <5>2. k \in Nat
          BY <2>1 DEF AlreadyApplied
        <5> QED
          BY <5>1, <5>2, <2>1
      <4> QED
        BY <4>1, <4>2
    <3> QED
      BY <3>1, <2>1 DEF Revisions
  <2>3. SavingTypeOK
    <3>1. started \in 0 .. revision
      BY <2>1 DEF Careful, SavingTyped
    <3> QED
      BY <2>2, <3>1, CarefulFields DEF Careful, SavingTyped, SavingTypeOK
  <2>4. session \in Session /\ session.revision = revision
    <3>1. session \in Sessions /\ session.revision = revision
      BY DEF Careful, HookTyped, Informed
    <3> QED
      BY <3>1, <2>2 DEF Sessions, Session
  <2>5. scheduler \in Scheduler /\ scheduler.latest <= revision
    <3>1. /\ scheduler \in Schedulers
          /\ scheduler.latest = revision /\ scheduler.attempting = scheduler.attempted
          /\ scheduler.attempted <= revision
      BY DEF Careful, HookTyped, Informed
    <3>2. scheduler.attempted \in Nat
      BY <3>1 DEF Schedulers
    <3>3. scheduler.attempted \in Revisions
      BY <3>1, <3>2, <2>1, <2>2 DEF Revisions
    <3> QED
      BY <3>1, <3>3, <2>1, <2>2 DEF Schedulers, Scheduler
  <2>6. LET autosaves == {i \in DOMAIN saves : saves[i].by = "autosave"}
        IN IF scheduler.active THEN \E i \in DOMAIN saves : autosaves = {i}
           ELSE autosaves = {}
    <3>1. DOMAIN saves = 1 .. Len(saves)
      BY <2>1
    <3> QED
      BY <3>1, Zenon DEF Careful, OneAutosave, HoldsOne, Autosaves
  <2> QED
    BY <2>3, <2>4, <2>5, <2>6 DEF Careful, HookTyped, TypeOK
<1> QED
  BY InvariantHolds, <1>1, PTL

\* An edit that was not attempted is never left alone: when the document is savable, autosave is
\* on and the effects of the last render have run, the timer, the save underway or a flush will
\* look at it, whatever the session missed before (autosaveScheduler.ts, useWindowAutosave.ts).
THEOREM EditsAlwaysAttended == Spec => []EditsAreNeverForgotten
<1>1. Careful => EditsAreNeverForgotten
  <2> SUFFICES ASSUME Careful, Unattempted, setting, available, ~Behind, ~page.effects
               PROVE  Covered
    BY DEF EditsAreNeverForgotten, Covered
  <2>1. seen = Current
    BY DEF Behind, Careful, Informed
  <2>2. seen.dirty = dirty /\ seen.available = available /\ seen.setting = setting
    BY <2>1 DEF Current
  <2> QED
    BY <2>2 DEF Careful, Attended, Unattempted
<1> QED
  BY InvariantHolds, <1>1, PTL

-----------------------------------------------------------------------------
(* The document with its recovery draft, one save at a time.               *)

Stages == {"idle", "writing", "written", "watching"}
Transitions == {"none", "new", "open", "as"}
Drafts == Texts \cup {NoText}

\* The inductive invariant.  A restored document has no save point, so that what is on disk is
\* the save point only where there is one.
EditorTyped ==
  /\ text \in Texts /\ savepoint \in Drafts
  /\ dirty \in BOOLEAN /\ revision \in Nat
  /\ saves \in Seq(Request) /\ Len(saves) <= 1
  /\ stage \in Stages /\ (stage = "idle" <=> saves = <<>>)
  /\ started \in Nat /\ started <= revision

DraftTyped ==
  /\ slot \in Drafts /\ offered \in Drafts
  /\ timer \in BOOLEAN /\ named \in BOOLEAN /\ exposed \in BOOLEAN
  /\ watching \in Transitions
  /\ safeAt \in [save : SUBSET Nat, as : SUBSET Nat]

DraftHonest ==
  /\ dirty <=> text # savepoint
  /\ stage = "written" => disk = saves[1].snapshot
  /\ stage # "written" /\ savepoint # NoText => disk = savepoint

\* Until the offer is answered the document is a saved one and no save of it runs.  A document
\* that got a path meanwhile still awaits the watch whose end drops the offer.
Pending ==
  /\ stage = "idle" /\ ~timer /\ ~dirty
  /\ named => watching \in {"open", "as"}
  /\ watching = "open" => text = disk
  /\ watching = "as" => revision \in safeAt.as

Offer == offered # NoText => Pending

Promise == UnsavedTextIsRecoverable /\ NothingStaleIsOffered

DraftSafe == EditorTyped /\ DraftTyped /\ DraftHonest /\ Untouched /\ Offer /\ Promise

\* The invariant holds at the start: an untitled document and no draft.
LEMMA DraftSafeInitially == DraftsInit => DraftSafe
<1> SUFFICES ASSUME DraftsInit PROVE DraftSafe
  OBVIOUS
<1>1. /\ text = EmptyText /\ savepoint = EmptyText /\ disk = EmptyText /\ EmptyText \in Texts
      /\ dirty = FALSE /\ revision = 0 /\ saves = <<>> /\ stage = "idle" /\ started = 0
  BY SavingAssumption, Zenon DEF DraftsInit, SavingInit
<1>2. <<>> \in Seq(Request) /\ Len(<<>>) = 0
  OBVIOUS
<1>3. EditorTyped
  <2>1. text \in Texts /\ savepoint \in Drafts /\ dirty \in BOOLEAN
    BY <1>1, Zenon DEF Drafts
  <2>2. /\ revision \in Nat /\ started \in Nat /\ started <= revision
        /\ stage \in Stages /\ stage = "idle" /\ saves = <<>>
    BY <1>1 DEF Stages
  <2> QED
    BY <1>2, <2>1, <2>2 DEF EditorTyped
<1>4. DraftTyped
  BY DEF DraftsInit, DraftTyped, Drafts, Transitions, NoneSafe
<1>5. DraftHonest /\ Untouched
  BY <1>1 DEF DraftHonest, Untouched
<1>6. Offer /\ Promise
  BY <1>1 DEF DraftsInit, Offer, Promise, UnsavedTextIsRecoverable, NothingStaleIsOffered
<1> QED
  BY <1>3, <1>4, <1>5, <1>6 DEF DraftSafe

-----------------------------------------------------------------------------
(* The draft.                                                              *)

\* A report schedules a draft of an unsaved text and drops that of a saved one.
LEMMA ReportKeepsPromise ==
  ASSUME DraftTyped, NEW isDirty \in BOOLEAN, Reported(isDirty),
         offered' = NoText, dirty' = isDirty, ~isDirty => text' = savepoint'
  PROVE  Promise' /\ slot' \in Drafts /\ timer' \in BOOLEAN /\ exposed' \in BOOLEAN
<1>1. CASE isDirty
  BY <1>1 DEF Reported, Schedule, Promise, UnsavedTextIsRecoverable, NothingStaleIsOffered, DraftTyped
<1>2. CASE ~isDirty
  BY <1>2 DEF Reported, Drop, Promise, UnsavedTextIsRecoverable, NothingStaleIsOffered, DraftTyped, Drafts
<1> QED
  BY <1>1, <1>2

\* Typing is possible once the offer is answered, and is reported.
LEMMA TypeIsSafe ==
  ASSUME DraftSafe, Type
  PROVE  DraftSafe'
<1>1. PICK new \in Texts : Edit(new) /\ Reported(new # savepoint)
  BY DEF Type
<1>2. offered = NoText /\ UNCHANGED <<named, watching, safeAt>>
  BY DEF Type
<1>3. /\ text' = new /\ dirty' = (new # savepoint)
      /\ revision' = IF new # savepoint THEN revision + 1 ELSE revision
      /\ UNCHANGED <<savepoint, disk, saves, stage, started>>
  BY <1>1 DEF Edit, SetDirty, queue
<1>4. offered' = NoText
  BY <1>1, <1>2 DEF Reported, Schedule, Drop
<1>5. EditorTyped'
  BY <1>3 DEF DraftSafe, EditorTyped
<1>6. DraftHonest' /\ Untouched'
  <2>1. DraftHonest'
    BY <1>3 DEF DraftSafe, DraftHonest
  <2>2. Untouched'
    BY <1>3 DEF DraftSafe, EditorTyped, Untouched
  <2> QED
    BY <2>1, <2>2
<1>7. Promise' /\ slot' \in Drafts /\ timer' \in BOOLEAN /\ exposed' \in BOOLEAN
  BY <1>1, <1>3, <1>4, ReportKeepsPromise DEF DraftSafe
<1>8. DraftTyped'
  BY <1>2, <1>4, <1>7 DEF DraftSafe, DraftTyped, Drafts
<1>9. Offer'
  BY <1>4 DEF Offer
<1> QED
  BY <1>5, <1>6, <1>7, <1>8, <1>9 DEF DraftSafe

\* The timer runs only for a text whose report scheduled it.
LEMMA TimerIsSafe ==
  ASSUME DraftSafe, DraftTimerFires
  PROVE  DraftSafe'
<1>1. /\ timer /\ timer' = FALSE /\ slot' = text
      /\ UNCHANGED <<text, savepoint, disk, dirty, revision, saves, stage, started,
                     offered, named, watching, safeAt, exposed>>
  BY DEF DraftTimerFires, savingVars, document, queue, windowVars
<1>2. offered = NoText /\ dirty
  BY <1>1 DEF DraftSafe, EditorTyped, Offer, Pending, Promise, NothingStaleIsOffered
<1>3. EditorTyped' /\ DraftHonest' /\ Untouched'
  BY <1>1 DEF DraftSafe, EditorTyped, DraftHonest, Untouched
<1>4. DraftTyped'
  BY <1>1 DEF DraftSafe, EditorTyped, DraftTyped, Drafts
<1>5. Offer' /\ Promise'
  BY <1>1, <1>2 DEF Offer, Promise, UnsavedTextIsRecoverable, NothingStaleIsOffered
<1> QED
  BY <1>3, <1>4, <1>5 DEF DraftSafe

-----------------------------------------------------------------------------
(* Saves.                                                                  *)

\* A save that is requested while none runs begins at once, with the text it captured; the
\* end of the watch that is awaited while an offer is open excludes it.
LEMMA SaveIsSafe ==
  ASSUME MaxSaves = 1, DraftSafe, Save
  PROVE  DraftSafe'
<1> DEFINE request == NewRequest("user")
<1>1. saves = <<>> /\ stage = "idle" /\ named /\ watching = "none" /\ offered = NoText
  <2>1. Len(saves) < 1 /\ named /\ watching = "none"
    BY DEF Save, RequestSave
  <2> QED
    BY <2>1 DEF DraftSafe, EditorTyped, Offer, Pending
<1>2. request \in Request /\ request.snapshot = text
  BY DEF DraftSafe, EditorTyped, NewRequest, Request, Requesters
<1> HIDE DEF request
<1>3. Begin(<<request>>, revision) /\ UNCHANGED document
  BY <1>1 DEF Save, RequestSave, Enqueue, request
<1>4. /\ saves' = <<request>> /\ stage' = "writing" /\ started' = revision
      /\ UNCHANGED <<text, savepoint, disk, dirty, revision>>
  BY <1>3 DEF Begin, document
<1>5. UNCHANGED <<slot, timer, offered, named, watching, safeAt, exposed>>
  BY DEF Save, draft, windowVars
<1>6. EditorTyped'
  BY <1>2, <1>4 DEF DraftSafe, EditorTyped, Stages
<1>7. DraftHonest' /\ Untouched'
  BY <1>1, <1>2, <1>4 DEF DraftSafe, DraftHonest, Untouched
<1>8. DraftTyped'
  BY <1>5 DEF DraftSafe, DraftTyped
<1>9. Offer' /\ Promise'
  BY <1>1, <1>4, <1>5 DEF DraftSafe, Offer, Promise, UnsavedTextIsRecoverable, NothingStaleIsOffered
<1> QED
  BY <1>6, <1>7, <1>8, <1>9 DEF DraftSafe

\* The file is written: the save point follows when the answer is applied.
LEMMA DraftWriteIsSafe ==
  ASSUME DraftSafe, Write
  PROVE  DraftSafe'
<1>1. /\ stage = "writing" /\ disk' = Head(saves).snapshot /\ stage' = "written"
      /\ UNCHANGED <<text, savepoint, dirty, revision, saves, started,
                     slot, timer, offered, named, watching, safeAt, exposed>>
  BY DEF Write, WriteFile, draft, windowVars
<1>2. Head(saves) = saves[1] /\ offered = NoText
  BY <1>1 DEF DraftSafe, EditorTyped, Offer, Pending
<1>3. EditorTyped' /\ DraftHonest' /\ Untouched'
  BY <1>1, <1>2 DEF DraftSafe, EditorTyped, DraftHonest, Untouched, Stages
<1>4. DraftTyped'
  BY <1>1 DEF DraftSafe, DraftTyped
<1>5. Offer' /\ Promise'
  BY <1>1, <1>2 DEF DraftSafe, Offer, Promise, UnsavedTextIsRecoverable, NothingStaleIsOffered
<1> QED
  BY <1>3, <1>4, <1>5 DEF DraftSafe

\* The answer is applied: the text is clean only when it is what was written, and the editor
\* reports when that changes.
LEMMA DraftApplyIsSafe ==
  ASSUME DraftSafe, Apply
  PROVE  DraftSafe'
<1> DEFINE snapshot == saves[1].snapshot
<1>1. Head(saves).snapshot = snapshot /\ snapshot \in Texts
  <2>1. saves # <<>> /\ saves \in Seq(Request)
    BY DEF DraftSafe, EditorTyped, Apply, ApplySave
  <2>2. Head(saves) = saves[1] /\ saves[1] \in Request
    BY <2>1
  <2> QED
    BY <2>2 DEF Request
<1>0. disk = snapshot
  BY DEF DraftSafe, DraftHonest, Apply, ApplySave
<1>00. (stage = "written" /\ revision = started) => (text = snapshot \/ text = savepoint)
  BY DEF DraftSafe, Untouched
<1> HIDE DEF snapshot
<1>2. /\ Applied(snapshot) /\ stage = "written" /\ stage' = "watching"
      /\ UNCHANGED <<text, disk, saves, started, named, watching>>
      /\ IF EditorReports(snapshot) THEN Reported(text # snapshot) ELSE NotReported
      /\ safeAt' = [safeAt EXCEPT !.save = IF dirty' THEN {} ELSE {revision'}]
  BY <1>1 DEF Apply, ApplySave
<1>3. savepoint' = snapshot /\ offered = NoText
  BY <1>2 DEF Applied, DraftSafe, Offer, Pending
<1>4. revision' \in Nat /\ started' <= revision' /\ dirty' \in BOOLEAN
  <2>1. dirty' \in BOOLEAN
    BY <1>2, Zenon DEF Applied, DraftSafe, EditorTyped
  <2>2. revision' = revision \/ revision' = revision + 1
    BY <1>2, Zenon DEF Applied
  <2> QED
    BY <1>2, <2>1, <2>2 DEF DraftSafe, EditorTyped
<1>5. dirty' <=> text # snapshot
  <2>1. (dirty <=> text # savepoint) /\ revision \in Nat /\ started \in Nat /\ started <= revision
    BY DEF DraftSafe, EditorTyped, DraftHonest
  <2>2. revision + 1 # started
    BY <2>1
  <2>3. CASE EditorReports(snapshot)
    <3>1. text # snapshot => dirty' = (text # snapshot)
      BY <1>2, <2>2, <2>3, Zenon DEF Applied
    <3>2. text = snapshot => dirty' = FALSE \/ dirty' = (text # snapshot)
      BY <1>2, <2>3, Zenon DEF Applied
    <3> QED
      BY <3>1, <3>2, Zenon
  <2>4. CASE ~EditorReports(snapshot)
    <3>1. (text # savepoint) <=> (text # snapshot)
      BY <2>4, Zenon DEF EditorReports
    <3>2. dirty' = IF revision = started THEN FALSE ELSE dirty
      BY <1>2, <2>4, Zenon DEF Applied
    <3> QED
      BY <1>00, <1>2, <2>1, <3>1, <3>2, Zenon
  <2> QED
    BY <2>3, <2>4
<1>6. offered' = NoText
  BY <1>2, <1>3 DEF Reported, Schedule, Drop, NotReported, KeepDraft
<1>7. Promise' /\ slot' \in Drafts /\ timer' \in BOOLEAN /\ exposed' \in BOOLEAN
  <2>1. CASE EditorReports(snapshot)
    <3>1. (text # snapshot) \in BOOLEAN /\ Reported(text # snapshot) /\ DraftTyped
      BY <1>2, <2>1 DEF DraftSafe
    <3>2. dirty' = (text # snapshot) /\ (text = snapshot => text' = savepoint')
      BY <1>2, <1>3, <1>4, <1>5, Zenon
    <3> QED
      BY <1>6, <3>1, <3>2, ReportKeepsPromise
  <2>2. CASE ~EditorReports(snapshot)
    <3>1. (text # savepoint) <=> (text # snapshot)
      BY <2>2, Zenon DEF EditorReports
    <3>2. UNCHANGED <<slot, timer, exposed>>
      BY <1>2, <2>2 DEF NotReported, KeepDraft
    <3> QED
      BY <1>2, <1>3, <1>5, <1>6, <3>1, <3>2
      DEF DraftSafe, DraftTyped, DraftHonest, Promise, UnsavedTextIsRecoverable, NothingStaleIsOffered
  <2> QED
    BY <2>1, <2>2
<1>8. EditorTyped'
  BY <1>1, <1>2, <1>3, <1>4 DEF DraftSafe, EditorTyped, Stages, Drafts
<1>9. DraftHonest' /\ Untouched'
  BY <1>0, <1>2, <1>3, <1>5 DEF DraftHonest, Untouched
<1>10. DraftTyped'
  BY <1>2, <1>4, <1>6, <1>7 DEF DraftSafe, DraftTyped, Drafts
<1>11. Offer'
  BY <1>6 DEF Offer
<1> QED
  BY <1>7, <1>8, <1>9, <1>10, <1>11 DEF DraftSafe

\* The running save ends, and drops the draft of a document that stayed clean.
LEMMA SavedIsSafe ==
  ASSUME DraftSafe, SaveReturns
  PROVE  DraftSafe'
<1>1. saves \in Seq(Request) /\ saves # <<>> /\ Len(saves) <= 1 /\ stage \in {"writing", "watching"}
  BY DEF DraftSafe, EditorTyped, SaveReturns, SaveEnds
<1>2. Tail(saves) \o <<>> = <<>>
  BY <1>1
<1>3. /\ saves' = <<>> /\ stage' = "idle" /\ started' = 0
      /\ UNCHANGED <<text, savepoint, disk, dirty, revision>>
  BY <1>2 DEF SaveReturns, SaveEnds, Begin, document
<1>4. /\ IF StillSafe(safeAt.save) THEN Drop ELSE KeepDraft
      /\ safeAt' = [safeAt EXCEPT !.save = {}]
      /\ UNCHANGED <<named, watching, exposed>>
  BY DEF SaveReturns
<1>5. offered = NoText
  BY <1>1 DEF DraftSafe, Offer, Pending
<1>6. EditorTyped'
  BY <1>3 DEF DraftSafe, EditorTyped, Stages
<1>7. DraftHonest' /\ Untouched'
  BY <1>1, <1>3 DEF DraftSafe, DraftHonest, Untouched
<1>8. CASE StillSafe(safeAt.save)
  <2>1. ~dirty /\ slot' = NoText /\ offered' = NoText /\ timer' = FALSE
    BY <1>4, <1>8 DEF StillSafe, Drop
  <2>2. DraftTyped'
    BY <1>4, <2>1 DEF DraftSafe, DraftTyped, Drafts
  <2>3. Offer' /\ Promise'
    BY <1>3, <2>1 DEF DraftSafe, DraftHonest, Offer, Promise, UnsavedTextIsRecoverable, NothingStaleIsOffered
  <2> QED
    BY <1>6, <1>7, <2>2, <2>3 DEF DraftSafe
<1>9. CASE ~StillSafe(safeAt.save)
  <2>1. UNCHANGED <<slot, timer, offered>>
    BY <1>4, <1>9 DEF KeepDraft
  <2>2. DraftTyped'
    BY <1>4, <2>1 DEF DraftSafe, DraftTyped
  <2>3. Offer' /\ Promise'
    BY <1>3, <1>4, <1>5, <2>1 DEF DraftSafe, Offer, Promise, UnsavedTextIsRecoverable, NothingStaleIsOffered
  <2> QED
    BY <1>6, <1>7, <2>2, <2>3 DEF DraftSafe
<1> QED
  BY <1>8, <1>9

-----------------------------------------------------------------------------
(* New, Open and Save As.                                                  *)

\* The loaded text is saved.  A report drops the draft; without one the document was clean
\* already, and an offer stays open until the watch is installed.
LEMMA ChangeIsSafe ==
  ASSUME DraftSafe, MayChange, NEW new \in Texts, Loaded(new), UNCHANGED queue,
         named' \in BOOLEAN, watching' \in {"new", "open", "as"}, named' => watching' # "new",
         safeAt' \in [save : SUBSET Nat, as : SUBSET Nat],
         watching' = "as" => revision \in safeAt'.as
  PROVE  DraftSafe'
<1>1. /\ text' = new /\ savepoint' = new /\ disk' = new /\ dirty' = FALSE
      /\ UNCHANGED <<revision, saves, stage, started>>
  BY DEF Loaded, queue
<1>2. stage \notin {"writing", "written"}
  BY DEF MayChange
<1>3. EditorTyped'
  BY <1>1 DEF DraftSafe, EditorTyped, Drafts
<1>4. DraftHonest' /\ Untouched'
  BY <1>1, <1>2 DEF DraftHonest, Untouched
<1>5. CASE text # new \/ text # savepoint
  <2>1. slot' = NoText /\ offered' = NoText /\ timer' = FALSE /\ exposed' = FALSE
    BY <1>5 DEF Loaded, Reported, Drop
  <2>2. DraftTyped'
    BY <2>1 DEF DraftTyped, Drafts, Transitions
  <2>3. Offer' /\ Promise'
    BY <1>1, <2>1 DEF Offer, Promise, UnsavedTextIsRecoverable, NothingStaleIsOffered
  <2> QED
    BY <1>3, <1>4, <2>2, <2>3 DEF DraftSafe
<1>6. CASE text = new /\ text = savepoint
  <2>1. UNCHANGED <<slot, timer, offered, exposed>>
    BY <1>6 DEF Loaded, NotReported, KeepDraft
  <2>2. ~dirty
    BY <1>6 DEF DraftSafe, DraftHonest
  <2>3. DraftTyped'
    BY <2>1 DEF DraftSafe, DraftTyped, Transitions
  <2>4. Offer'
    BY <1>1, <2>1 DEF DraftSafe, Offer, Pending
  <2>5. Promise'
    BY <1>1, <2>1, <2>2 DEF DraftSafe, Promise, UnsavedTextIsRecoverable, NothingStaleIsOffered
  <2> QED
    BY <1>3, <1>4, <2>3, <2>4, <2>5 DEF DraftSafe
<1> QED
  BY <1>5, <1>6

\* The three transitions up to their watch.
LEMMA TransitionsAreSafe ==
  ASSUME DraftSafe, New \/ Open \/ SaveAs
  PROVE  DraftSafe'
<1>1. NoneSafe \in [save : SUBSET Nat, as : SUBSET Nat]
  BY DEF NoneSafe
<1>2. CASE New
  <2>1. /\ MayChange /\ Loaded(EmptyText) /\ UNCHANGED queue
        /\ named' = FALSE /\ watching' = "new" /\ safeAt' = NoneSafe
    BY <1>2 DEF New
  <2> QED
    BY <1>1, <2>1, ChangeIsSafe, SavingAssumption
<1>3. CASE Open
  <2>1. PICK new \in Texts : Loaded(new)
    BY <1>3 DEF Open
  <2>2. /\ MayChange /\ UNCHANGED queue
        /\ named' = TRUE /\ watching' = "open" /\ safeAt' = NoneSafe
    BY <1>3 DEF Open
  <2> QED
    BY <1>1, <2>1, <2>2, ChangeIsSafe
<1>4. CASE SaveAs
  <2>1. /\ MayChange /\ Loaded(text) /\ UNCHANGED queue
        /\ named' = TRUE /\ watching' = "as" /\ safeAt' = [save |-> {}, as |-> {revision}]
    BY <1>4 DEF SaveAs
  <2>2. safeAt' \in [save : SUBSET Nat, as : SUBSET Nat] /\ revision \in safeAt'.as
    BY <2>1 DEF DraftSafe, EditorTyped
  <2>3. text \in Texts
    BY DEF DraftSafe, EditorTyped
  <2> QED
    BY <2>1, <2>2, <2>3, ChangeIsSafe
<1> QED
  BY <1>2, <1>3, <1>4

\* The watch is installed.  An offer that is still open is dropped, for the document has not
\* changed since; otherwise the draft goes when the document is clean, and New's always.
LEMMA WatchedIsSafe ==
  ASSUME DraftSafe, Watched
  PROVE  DraftSafe'
<1>1. /\ watching' = "none" /\ safeAt' = [safeAt EXCEPT !.as = {}]
      /\ UNCHANGED <<text, savepoint, disk, dirty, revision, saves, stage, started, named>>
  BY DEF Watched, savingVars, document, queue
<1>2. EditorTyped' /\ DraftHonest' /\ Untouched'
  BY <1>1 DEF DraftSafe, EditorTyped, DraftHonest, Untouched
<1>3. safeAt' \in [save : SUBSET Nat, as : SUBSET Nat]
  BY <1>1 DEF DraftSafe, DraftTyped
<1>4. CASE Drop /\ ((UNCHANGED exposed /\ ~dirty) \/ exposed' = (text # savepoint))
  <2>1. slot' = NoText /\ offered' = NoText /\ timer' = FALSE
    BY <1>4 DEF Drop
  <2>2. exposed' \in BOOLEAN /\ (exposed' \/ text = savepoint)
    BY <1>4 DEF DraftSafe, DraftTyped, DraftHonest
  <2>3. DraftTyped'
    BY <1>1, <1>3, <2>1, <2>2 DEF DraftSafe, DraftTyped, Drafts, Transitions
  <2>4. Offer' /\ Promise'
    BY <1>1, <2>1, <2>2 DEF Offer, Promise, UnsavedTextIsRecoverable, NothingStaleIsOffered
  <2> QED
    BY <1>2, <2>3, <2>4 DEF DraftSafe
<1>5. CASE KeepDraft /\ UNCHANGED exposed /\ offered = NoText
  <2>1. UNCHANGED <<slot, timer, offered, exposed>>
    BY <1>5 DEF KeepDraft
  <2>2. DraftTyped'
    BY <1>1, <1>3, <2>1 DEF DraftSafe, DraftTyped, Transitions
  <2>3. Offer' /\ Promise'
    BY <1>1, <1>5, <2>1 DEF DraftSafe, Offer, Promise, UnsavedTextIsRecoverable, NothingStaleIsOffered
  <2> QED
    BY <1>2, <2>2, <2>3 DEF DraftSafe
<1>6. CASE NewEnds
  BY <1>4, <1>6 DEF NewEnds
<1>7. CASE OpenEnds
  <2>1. CASE ~dirty /\ text = disk
    BY <1>4, <1>7, <2>1 DEF OpenEnds
  <2>2. CASE ~(~dirty /\ text = disk)
    BY <1>5, <1>7, <2>2 DEF OpenEnds, DraftSafe, Offer, Pending
  <2> QED
    BY <2>1, <2>2
<1>8. CASE SaveAsEnds
  <2>1. CASE StillSafe(safeAt.as)
    BY <1>4, <1>8, <2>1 DEF SaveAsEnds, StillSafe
  <2>2. CASE ~StillSafe(safeAt.as)
    BY <1>5, <1>8, <2>2 DEF SaveAsEnds, StillSafe, DraftSafe, Offer, Pending
  <2> QED
    BY <2>1, <2>2
<1> QED
  BY <1>6, <1>7, <1>8 DEF Watched

-----------------------------------------------------------------------------
(* Crash and recovery.                                                     *)

\* The next page is a saved, untitled document, and offers what was stored.
LEMMA CrashIsSafe ==
  ASSUME DraftSafe, Crash
  PROVE  DraftSafe'
<1>1. /\ text' = EmptyText /\ savepoint' = EmptyText /\ disk' = EmptyText /\ EmptyText \in Texts
      /\ dirty' = FALSE /\ revision' = 0 /\ saves' = <<>> /\ stage' = "idle" /\ started' = 0
      /\ timer' = FALSE /\ offered' = slot /\ slot' = slot
      /\ named' = FALSE /\ watching' = "none" /\ safeAt' = NoneSafe /\ exposed' = FALSE
  BY SavingAssumption, Zenon DEF Crash
<1>2. <<>> \in Seq(Request) /\ Len(<<>>) = 0
  OBVIOUS
<1>3. EditorTyped'
  <2>1. text' \in Texts /\ savepoint' \in Drafts /\ dirty' \in BOOLEAN
    BY <1>1, Zenon DEF Drafts
  <2>2. /\ revision' \in Nat /\ started' \in Nat /\ started' <= revision'
        /\ stage' \in Stages /\ stage' = "idle" /\ saves' = <<>>
    BY <1>1 DEF Stages
  <2> QED
    BY <1>2, <2>1, <2>2 DEF EditorTyped
<1>4. DraftTyped'
  BY <1>1 DEF DraftSafe, DraftTyped, Drafts, Transitions, NoneSafe
<1>5. DraftHonest' /\ Untouched'
  BY <1>1 DEF DraftHonest, Untouched
<1>6. Offer' /\ Promise'
  BY <1>1 DEF Offer, Pending, Promise, UnsavedTextIsRecoverable, NothingStaleIsOffered
<1> QED
  BY <1>3, <1>4, <1>5, <1>6 DEF DraftSafe

\* The restored text is unsaved and scheduled again.
LEMMA RestoreIsSafe ==
  ASSUME DraftSafe, Restore
  PROVE  DraftSafe'
<1>1. /\ offered # NoText
      /\ text' = offered /\ savepoint' = NoText /\ disk' = EmptyText
      /\ dirty' = TRUE /\ revision' = revision + 1
      /\ slot' = offered /\ timer' = TRUE
      /\ offered' = NoText /\ named' = FALSE /\ exposed' = FALSE
      /\ UNCHANGED <<saves, stage, started, watching, safeAt>>
  BY DEF Restore, queue
<1>2. stage = "idle" /\ offered \in Texts
  BY <1>1 DEF DraftSafe, Offer, Pending, DraftTyped, Drafts
<1>3. EditorTyped'
  BY <1>1, <1>2 DEF DraftSafe, EditorTyped, Drafts
<1>4. DraftTyped'
  BY <1>1 DEF DraftSafe, DraftTyped, Drafts
<1>5. DraftHonest' /\ Untouched'
  BY <1>1, <1>2, DraftAssumption DEF DraftHonest, Untouched
<1>6. Offer' /\ Promise'
  BY <1>1 DEF Offer, Promise, UnsavedTextIsRecoverable, NothingStaleIsOffered
<1> QED
  BY <1>3, <1>4, <1>5, <1>6 DEF DraftSafe

\* The user gives the draft up: the document is still the saved one.
LEMMA DiscardIsSafe ==
  ASSUME DraftSafe, DiscardDraft
  PROVE  DraftSafe'
<1>1. /\ offered # NoText /\ slot' = NoText /\ offered' = NoText /\ timer' = FALSE
      /\ UNCHANGED <<text, savepoint, disk, dirty, revision, saves, stage, started,
                     named, watching, safeAt, exposed>>
  BY DEF DiscardDraft, Drop, savingVars, document, queue
<1>2. text = savepoint
  BY <1>1 DEF DraftSafe, Offer, Pending, DraftHonest
<1>3. EditorTyped' /\ DraftHonest' /\ Untouched'
  BY <1>1 DEF DraftSafe, EditorTyped, DraftHonest, Untouched
<1>4. DraftTyped'
  BY <1>1 DEF DraftSafe, DraftTyped, Drafts
<1>5. Offer' /\ Promise'
  BY <1>1, <1>2 DEF Offer, Promise, UnsavedTextIsRecoverable, NothingStaleIsOffered
<1> QED
  BY <1>3, <1>4, <1>5 DEF DraftSafe

-----------------------------------------------------------------------------
(* The theorems.                                                           *)

\* Every step preserves the invariant.
LEMMA SafeAlways ==
  ASSUME MaxSaves = 1
  PROVE  DraftsSpec => []DraftSafe
<1>1. DraftSafe /\ [DraftsNext]_draftsVars => DraftSafe'
  <2> SUFFICES ASSUME DraftSafe, [DraftsNext]_draftsVars PROVE DraftSafe'
    OBVIOUS
  <2>1. CASE Type
    BY <2>1, TypeIsSafe
  <2>2. CASE DraftTimerFires
    BY <2>2, TimerIsSafe
  <2>3. CASE Save
    BY <2>3, SaveIsSafe
  <2>4. CASE Write
    BY <2>4, DraftWriteIsSafe
  <2>5. CASE Apply
    BY <2>5, DraftApplyIsSafe
  <2>6. CASE SaveReturns
    BY <2>6, SavedIsSafe
  <2>7. CASE New \/ Open \/ SaveAs
    BY <2>7, TransitionsAreSafe
  <2>8. CASE Watched
    BY <2>8, WatchedIsSafe
  <2>9. CASE Crash
    BY <2>9, CrashIsSafe
  <2>10. CASE Restore
    BY <2>10, RestoreIsSafe
  <2>11. CASE DiscardDraft
    BY <2>11, DiscardIsSafe
  <2>12. CASE UNCHANGED draftsVars
    <3>1. UNCHANGED <<text, savepoint, disk, dirty, revision, saves, stage, started,
                      slot, timer, offered, named, watching, safeAt, exposed>>
      BY <2>12 DEF draftsVars, savingVars, document, queue, draft, windowVars
    <3>2. EditorTyped' /\ DraftHonest' /\ Untouched'
      BY <3>1 DEF DraftSafe, EditorTyped, DraftHonest, Untouched
    <3>3. DraftTyped' /\ Offer' /\ Promise'
      BY <3>1 DEF DraftSafe, DraftTyped, Offer, Pending, Promise, UnsavedTextIsRecoverable,
                  NothingStaleIsOffered
    <3> QED
      BY <3>2, <3>3 DEF DraftSafe
  <2> QED
    BY <2>1, <2>2, <2>3, <2>4, <2>5, <2>6, <2>7, <2>8, <2>9, <2>10, <2>11, <2>12 DEF DraftsNext
<1> QED
  BY DraftSafeInitially, <1>1, PTL DEF DraftsSpec

\* As long as no save is requested while another runs: whatever a crash takes, the text in the
\* editor is the saved one, or in the draft, or younger than the debounce, but for the text that
\* came while New awaited its watch; and an offered draft is still stored (useRecoveryDraft).
THEOREM DraftsRecover ==
  ASSUME MaxSaves = 1
  PROVE  DraftsSpec => []UnsavedTextIsRecoverable
<1>1. DraftSafe => UnsavedTextIsRecoverable
  BY DEF DraftSafe, Promise
<1> QED
  BY SafeAlways, <1>1, PTL

\* As long as no save is requested while another runs, a saved document leaves no draft behind,
\* nor a timer that would write one (clearRecoveryDraft, onDocumentBecameSafe).
THEOREM DraftsAreCurrent ==
  ASSUME MaxSaves = 1
  PROVE  DraftsSpec => []NothingStaleIsOffered
<1>1. DraftSafe => NothingStaleIsOffered
  BY DEF DraftSafe, Promise
<1> QED
  BY SafeAlways, <1>1, PTL

\* As long as no save is requested while another runs, opening, creating, renaming by Save As,
\* crashing and recovering keep a document that is shown clean the one on disk.
THEOREM RecoveryIsHonest ==
  ASSUME MaxSaves = 1
  PROVE  DraftsSpec => []CleanMeansSaved
<1>1. DraftSafe => CleanMeansSaved
  BY DraftAssumption DEF DraftSafe, EditorTyped, DraftHonest, CleanMeansSaved
<1> QED
  BY SafeAlways, <1>1, PTL
=============================================================================
