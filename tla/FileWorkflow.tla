----------------------------- MODULE FileWorkflow -----------------------------
(***************************************************************************)
(* The documents of one window (features/file-actions/useFileWorkflow.ts)  *)
(* and the watch on the open one (useExternalFileWatch.ts), over the       *)
(* window's file watcher.                                                  *)
(*                                                                         *)
(* Saves and reloads go through one queue, whose state outlives the        *)
(* component (documentClaimWorkflowRuntime.ts).  Opening a document and    *)
(* beginning an untitled one do not: operation numbers decide which is     *)
(* current, and the steps that cannot be taken back exclude one another.   *)
(* The component stays mounted; a text is saved as the editor holds it.    *)
(***************************************************************************)
EXTENDS FileWatchService

CONSTANTS
  MaxOpens,  \* bound of this model: documents the user opens or begins, or gives up opening
  MaxNews,   \* bound of this model: untitled documents the user begins
  MaxEdits,  \* bound of this model: edits
  MaxSaves,  \* bound of this model: saves the user asks for
  MaxSyncs,  \* bound of this model: times the images of the document are listed
  MaxChoices, \* bound of this model: times the user answers a conflict
  MaxLapses  \* bound of this model: claims and writes that fail, or of which nobody knows

ASSUME WorkflowAssumption ==
  /\ {MaxContents, MaxOpens, MaxNews, MaxEdits, MaxSaves, MaxSyncs, MaxChoices, MaxLapses} \subseteq Nat
  /\ None \notin Docs /\ None \notin [op : 1 .. MaxOpens, doc : Docs]

VARIABLES
  page,   \* the document in the editor: its path, text and save point, whether the store holds it
          \* dirty, the error shown
  hook,   \* the state of useExternalFileWatch
  flow,   \* the state of the claim workflow
  opens,  \* each call of openPath and createNewDocument
  queue,  \* the saves and reloads that wait; the first one runs
  run,    \* how far the running one is
  repl,   \* each call of replaceWatchedDocument, by the open or the save that made it
  calls,  \* the commands sent to the watcher
  left,   \* what is left of the bounds
  past    \* history: whose text each file holds, and whose a save wrote to another document

pageVars == <<page, hook, flow, opens, queue, run, repl, calls, left, past>>
vars == <<serviceVars, pageVars>>

OpenIds == 1 .. MaxOpens
TheSave == 0             \* the owner of the watch calls of a save
TheImages == MaxOpens + 1
Owners == {TheSave} \union OpenIds

Closed == [stage |-> "idle"]
\* The text of an untitled document.
Blank == [text |-> 0, origin |-> None]
NoOpen == [stage |-> "none", doc |-> None, base |-> None, seen |-> Blank]

Init ==
  /\ ServiceInit
  /\ page = [doc |-> None, text |-> 0, saved |-> 0, dirty |-> FALSE, rev |-> 0, error |-> FALSE, locked |-> 0,
             origin |-> None, known |-> {}, passed |-> FALSE, shown |-> [i \in Images |-> 0]]
  /\ hook = [watched |-> None, gen |-> 0, request |-> 0, latest |-> 0, ack |-> None, conflict |-> None]
  /\ flow = [op |-> 0, opening |-> FALSE, irreversible |-> 0, owned |-> None, blocked |-> FALSE]
  /\ opens = [i \in OpenIds |-> NoOpen]
  /\ queue = <<>> /\ run = Closed
  /\ repl = [o \in Owners |-> Closed]
  /\ calls = <<>>
  /\ left = [edits |-> MaxEdits, saves |-> MaxSaves, syncs |-> MaxSyncs, choices |-> MaxChoices, news |-> MaxNews,
             lapses |-> MaxLapses]
  /\ past = [whose |-> [d \in Docs |-> d], strays |-> {}]

\* What waits in an empty queue starts before the page does anything else.
Quiet == run # Closed \/ queue = <<>>

\* What an open compares before it applies its document.
Base == <<page.doc, page.text, page.dirty, page.rev>>
Owns(d) == flow.owned # None /\ flow.owned.doc = d

\* What a read of document d gives.
Seen(d) == [text |-> disk[d], origin |-> past.whose[d]]

\* loadText: a text that was read replaces the one in the editor, and is its save point.
Loaded(p, seen) ==
  [p EXCEPT !.text = seen.text, !.origin = seen.origin, !.saved = seen.text, !.known = {seen.text},
            !.dirty = FALSE, !.error = FALSE, !.passed = FALSE]
\* markUnsaved: nothing is the save point.
Unsaved(p) == [p EXCEPT !.saved = None, !.dirty = TRUE, !.rev = IF p.dirty THEN @ ELSE @ + 1]
Shown(p) == [p EXCEPT !.error = TRUE]
\* The file was read when it held c: the editor has it, or a conflict is shown.
Told(p, c) == [p EXCEPT !.known = @ \union {c}]
\* The input that operation id locked is free again.
Freed(p, id) == [p EXCEPT !.locked = IF @ = id THEN 0 ELSE @]

-----------------------------------------------------------------------------
(* Watching a document: replaceWatchedDocument.                            *)

Ended(f, id) == [f EXCEPT !.opening = IF f.op = id THEN FALSE ELSE @]

\* Watch path for owner, the state of the hook being h; it is done at once if it is watched.
StartReplace(owner, h, path, known) ==
  IF h.watched = path
  THEN hook' = [h EXCEPT !.request = @ + 1] /\ UNCHANGED <<repl, calls>>
  ELSE /\ hook' = [h EXCEPT !.request = @ + 1, !.gen = @ + 1, !.watched = None,
                            !.ack = None, !.conflict = None]
       /\ repl' = [repl EXCEPT ![owner] = [stage |-> "called", path |-> path, known |-> known,
                                           gen |-> h.gen + 1, doc |-> None]]
       /\ calls' = Append(calls, owner)

\* The watcher takes up the oldest command.
CallBegins ==
  /\ calls # <<>>
  /\ BeginUpdate(Head(calls), IF Head(calls) = TheImages THEN WithImages(Images)
                              ELSE WithDocument(repl[Head(calls)].doc))
  /\ calls' = Tail(calls)
  /\ UNCHANGED <<disk, fresh, changed, registry, pending, worker, wire, budget,
                 page, hook, flow, opens, queue, run, repl, left, past>>

Answered(owner, ok) ==
  repl' = IF owner = TheImages THEN repl
          ELSE [repl EXCEPT ![owner] =
                  [stage |-> "answered", ok |-> ok, path |-> @.path, known |-> @.known, gen |-> @.gen,
                   doc |-> @.doc, print |-> IF @.doc = None THEN None ELSE registry.print[@.doc]]]

CallEnds(owner) ==
  /\ \/ UpdateEnds(owner) /\ Answered(owner, TRUE) /\ UNCHANGED budget
     \/ UpdateFails(owner) /\ Answered(owner, FALSE) /\ UNCHANGED pending
  /\ UNCHANGED <<disk, fresh, changed, registry, worker, wire,
                 page, hook, flow, opens, queue, run, calls, left, past>>

\* The call is over, and with it the open or the save that made it; the page is p.
Finish(owner, p) ==
  /\ repl' = [repl EXCEPT ![owner] = Closed]
  /\ page' = Freed(p, owner)
  /\ IF owner = TheSave
     THEN run' = Closed /\ queue' = Tail(queue) /\ UNCHANGED <<opens, flow>>
     ELSE /\ opens' = [opens EXCEPT ![owner] = [NoOpen EXCEPT !.stage = "done"]]
          /\ flow' = Ended(IF opens[owner].stage = "recovering" THEN [flow EXCEPT !.irreversible = 0]
                           ELSE flow, owner)
          /\ UNCHANGED <<run, queue>>

\* A superseded call is made again when the component is mounted anew, and not before.
Superseded(owner) ==
  /\ repl' = [repl EXCEPT ![owner] = [stage |-> "superseded"]]
  /\ UNCHANGED <<run, queue, opens, flow, page>>

\* MUTANT of ReplaceContinues: what the page knew of the file is not compared.
ReplaceContinuesUnread(owner) ==
  /\ Quiet /\ repl[owner].stage = "answered"
  /\ LET r == repl[owner]
     IN IF r.gen # hook.gen THEN Superseded(owner) /\ UNCHANGED <<hook, calls>>
        ELSE IF ~r.ok THEN Finish(owner, Shown(page)) /\ UNCHANGED calls
                           /\ hook' = [hook EXCEPT !.request = @ + 1, !.watched = None]
        ELSE IF r.doc = r.path THEN Finish(owner, page) /\ UNCHANGED <<hook, calls>>
        ELSE /\ hook' = [hook EXCEPT !.watched = r.path]
             /\ repl' = [repl EXCEPT ![owner] = [r EXCEPT !.stage = "called", !.doc = r.path]]
             /\ calls' = Append(calls, owner)
             /\ UNCHANGED <<run, queue, opens, flow, page>>
  /\ UNCHANGED <<serviceVars, left, past>>

\* The watcher has answered: the document is watched next, or compared with what was opened.
ReplaceContinues(owner) ==
  /\ Quiet /\ repl[owner].stage = "answered"
  /\ LET r == repl[owner]
     IN IF r.gen # hook.gen THEN Superseded(owner) /\ UNCHANGED <<hook, calls>>
        ELSE IF ~r.ok THEN Finish(owner, Shown(page)) /\ UNCHANGED calls
                           /\ hook' = [hook EXCEPT !.request = @ + 1, !.watched = None]
        ELSE IF r.doc = r.path /\ (r.path = None \/ r.print = r.known)
             THEN Finish(owner, page) /\ UNCHANGED <<hook, calls>>
        ELSE IF r.doc = r.path
             THEN /\ hook' = [hook EXCEPT !.request = @ + 1]
                  /\ repl' = [repl EXCEPT ![owner] = [stage |-> "reading", path |-> r.path, gen |-> r.gen,
                                                      print |-> r.print, request |-> hook.request + 1]]
                  /\ UNCHANGED <<run, queue, opens, flow, calls, page>>
        ELSE /\ hook' = [hook EXCEPT !.watched = r.path]
             /\ repl' = [repl EXCEPT ![owner] = [r EXCEPT !.stage = "called", !.doc = r.path]]
             /\ calls' = Append(calls, owner)
             /\ UNCHANGED <<run, queue, opens, flow, page>>
  /\ UNCHANGED <<serviceVars, left, past>>

\* The three checks of a read that was awaited.
StillWanted(r) == r.request = hook.request /\ r.gen = hook.gen /\ r.path = hook.watched
Version(d, print) == [file |-> d, print |-> print]
\* Whether the claimed read of a document gives an error.
Fails(d) == ~Owns(d) \/ disk[d] = Gone

\* The file changed before it was watched, and is read again.
ReplaceReads(owner) ==
  /\ Quiet /\ repl[owner].stage = "reading"
  /\ LET r == repl[owner]
         conflicts == ~Fails(r.path) /\ disk[r.path] # page.text /\ page.dirty
     IN IF ~StillWanted(r) THEN Superseded(owner) /\ UNCHANGED hook
        ELSE /\ Finish(owner, IF Fails(r.path) THEN Shown(page)
                              ELSE IF disk[r.path] = page.text \/ page.dirty THEN Told(page, disk[r.path])
                              ELSE Loaded(page, Seen(r.path)))
             /\ hook' = IF conflicts THEN [hook EXCEPT !.conflict = Version(r.path, r.print)] ELSE hook
  /\ UNCHANGED <<serviceVars, calls, left, past>>

-----------------------------------------------------------------------------
(* Opening a document: openPath.                                           *)

\* What may begin an operation: no claim is in doubt and nothing goes on that cannot be taken back.
MayBegin == Quiet /\ flow.op < MaxOpens /\ ~flow.blocked /\ flow.irreversible = 0

\* An open that is not allowed to give up a dirty document returns at once; so a document that is
\* dirty here was given up by the user (allowDirty).
OpenPath(d) ==
  /\ MayBegin
  /\ flow' = [flow EXCEPT !.op = @ + 1, !.opening = TRUE]
  /\ opens' = [opens EXCEPT ![flow.op + 1] = [stage |-> "reserving", doc |-> d, base |-> Base, seen |-> Seen(d)]]
  /\ UNCHANGED <<serviceVars, page, hook, queue, run, repl, calls, left, past>>

\* supersedePendingOpen: the user goes elsewhere before the document is opened.
SupersedePendingOpen ==
  /\ Quiet /\ flow.opening /\ flow.irreversible = 0 /\ flow.op < MaxOpens
  /\ flow' = [flow EXCEPT !.op = @ + 1, !.opening = FALSE]
  /\ UNCHANGED <<serviceVars, page, hook, opens, queue, run, repl, calls, left, past>>

\* MUTANT of IsCurrent: what the editor holds now does not matter.
IsNewest(id) == flow.op = id

\* isCurrentRequest
IsCurrent(id) == flow.op = id /\ opens[id].base = Base

EndOpen(id, f) ==
  /\ opens' = [opens EXCEPT ![id] = [NoOpen EXCEPT !.stage = "done"]]
  /\ flow' = Ended(f, id)

\* The open is given up while its reservation is held, which is released before it ends.
GiveUp(id) == opens' = [opens EXCEPT ![id] = [NoOpen EXCEPT !.stage = "releasing"]] /\ UNCHANGED flow

Lapse == left.lapses > 0 /\ left' = [left EXCEPT !.lapses = @ - 1]
OpenUnchanged == UNCHANGED <<serviceVars, queue, run, past>>

\* The claim of the document is reserved; or it is not, as another window has it, or the window
\* itself, or the open is superseded.
ReserveAnswered(id) ==
  /\ Quiet /\ opens[id].stage = "reserving"
  /\ \/ EndOpen(id, flow)
     \/ IsCurrent(id) /\ Owns(opens[id].doc) /\ EndOpen(id, [flow EXCEPT !.owned.op = id])
     \/ ~IsCurrent(id) /\ GiveUp(id)
     \/ /\ IsCurrent(id) /\ ~Owns(opens[id].doc)
        /\ opens' = [opens EXCEPT ![id].stage = "reading"]
        /\ UNCHANGED flow
  /\ OpenUnchanged /\ UNCHANGED <<page, hook, repl, calls, left>>

\* It cannot be reserved, or the other window not focused.
ReserveFails(id) ==
  /\ Quiet /\ opens[id].stage = "reserving" /\ IsCurrent(id) /\ Lapse
  /\ EndOpen(id, flow) /\ page' = Shown(page)
  /\ OpenUnchanged /\ UNCHANGED <<hook, repl, calls>>

\* Nobody knows whether it is reserved: the window saves and opens no more.
ReserveUnknown(id) ==
  /\ Quiet /\ opens[id].stage = "reserving" /\ Lapse
  /\ EndOpen(id, [flow EXCEPT !.blocked = TRUE]) /\ page' = Shown(page)
  /\ OpenUnchanged /\ UNCHANGED <<hook, repl, calls>>

\* The reservation of an open that was given up is released, or nobody knows.
Released(id) ==
  /\ Quiet /\ opens[id].stage = "releasing"
  /\ \/ EndOpen(id, flow) /\ UNCHANGED <<page, left>>
     \/ Lapse /\ EndOpen(id, [flow EXCEPT !.blocked = TRUE]) /\ page' = Shown(page)
  /\ OpenUnchanged /\ UNCHANGED <<hook, repl, calls>>

\* The text was read between the call and now, and again if there was none: input is locked,
\* and the claim is committed, which cannot be taken back.
ReadAnswered(id) ==
  /\ Quiet /\ opens[id].stage = "reading"
  /\ \E seen \in {Seen(opens[id].doc), opens[id].seen} :
        \/ ~IsCurrent(id) /\ GiveUp(id) /\ UNCHANGED page
        \/ IsCurrent(id) /\ flow.irreversible # 0 /\ GiveUp(id) /\ UNCHANGED page
        \/ /\ IsCurrent(id) /\ seen.text = Gone /\ disk[opens[id].doc] = Gone
           /\ GiveUp(id) /\ page' = Shown(page)
        \/ /\ IsCurrent(id) /\ flow.irreversible = 0 /\ seen.text # Gone
           /\ opens' = [opens EXCEPT ![id].stage = "committing", ![id].seen = seen]
           /\ flow' = [flow EXCEPT !.irreversible = id]
           /\ page' = [page EXCEPT !.locked = id]
  /\ OpenUnchanged /\ UNCHANGED <<hook, repl, calls, left>>

\* The commit failed, and the reservation with it.
CommitFails(id) ==
  /\ Quiet /\ opens[id].stage = "committing" /\ Lapse
  /\ EndOpen(id, [flow EXCEPT !.irreversible = 0])
  /\ page' = Shown(Freed(page, id))
  /\ OpenUnchanged /\ UNCHANGED <<hook, repl, calls>>

\* The editor holds p, input is free, and the watch changes to path.
Applied(id, path, p, f, known) ==
  /\ page' = Freed(p, id)
  /\ opens' = [opens EXCEPT ![id] = [NoOpen EXCEPT !.stage = IF hook.watched = path THEN "done" ELSE "watching"]]
  /\ flow' = IF hook.watched = path THEN Ended([f EXCEPT !.irreversible = 0], id)
             ELSE [f EXCEPT !.irreversible = 0]
  /\ StartReplace(id, hook, path, known)

\* The claim changed and the document cannot be applied: p is what the window is left with.  It
\* watches nothing, and until it does so input stays locked and the transition goes on; finishes:
\* the transition ends then.
Recovered(id, p, f, finishes) ==
  /\ IF hook.watched = None
     THEN /\ EndOpen(id, IF finishes THEN [f EXCEPT !.irreversible = 0] ELSE f)
          /\ page' = Freed(p, id)
     ELSE /\ opens' = [opens EXCEPT ![id] = [NoOpen EXCEPT !.stage = IF finishes THEN "recovering" ELSE "watching"]]
          /\ flow' = f /\ page' = p
  /\ StartReplace(id, hook, None, Gone)

\* The document is applied: the editor, the state and the watch change to it.
OpenApplied(id) ==
  /\ Quiet /\ opens[id].stage = "committing" /\ IsCurrent(id)
  /\ LET d == opens[id].doc
     IN Applied(id, d, [Loaded(page, opens[id].seen) EXCEPT !.doc = d],
                [flow EXCEPT !.owned = [op |-> id, doc |-> d]], opens[id].seen.text)
  /\ OpenUnchanged /\ UNCHANGED left

\* What adoptCommittedPathFailClosed leaves of the page.
Adopted(id) == [Shown(Unsaved(page)) EXCEPT !.doc = opens[id].doc]
Claimed(id) == [flow EXCEPT !.owned = [op |-> id, doc |-> opens[id].doc]]

\* MUTANT of AdoptFailClosed: the document may be saved.
AdoptFailOpen(id) ==
  /\ Quiet /\ opens[id].stage = "committing"
  /\ \/ ~IsCurrent(id) /\ UNCHANGED left /\ Recovered(id, Adopted(id), Claimed(id), TRUE)
     \/ Lapse /\ Recovered(id, Adopted(id), Claimed(id), FALSE)
  /\ OpenUnchanged

\* adoptCommittedPathFailClosed: the claim is committed and the editor is no more what it was, or
\* nobody knows whether it is.  The window takes the path, keeps its text as unsaved, and saves
\* no more.
AdoptFailClosed(id) ==
  /\ Quiet /\ opens[id].stage = "committing"
  /\ LET f == [Claimed(id) EXCEPT !.blocked = TRUE]
     IN \/ ~IsCurrent(id) /\ UNCHANGED left /\ Recovered(id, Adopted(id), f, TRUE)
        \/ Lapse /\ Recovered(id, Adopted(id), f, FALSE)
  /\ OpenUnchanged

-----------------------------------------------------------------------------
(* Beginning an untitled document: createNewDocument.                      *)

Untitled == [Loaded(page, Blank) EXCEPT !.doc = None]

\* Input is locked; the claim of the document, if there is one, is released, which cannot be
\* taken back.  The user was asked before if the document is dirty (useNewDocumentConfirmation.ts).
New ==
  /\ MayBegin /\ left.news > 0
  /\ LET id == flow.op + 1
         f  == [flow EXCEPT !.op = id, !.opening = TRUE]
     IN IF page.doc = None THEN Applied(id, None, Untitled, f, Gone)
        ELSE /\ opens' = [opens EXCEPT ![id] = [stage |-> "leaving", doc |-> None, base |-> Base, seen |-> Blank]]
             /\ flow' = [f EXCEPT !.irreversible = id]
             /\ page' = [page EXCEPT !.locked = id]
             /\ UNCHANGED <<hook, repl, calls>>
  /\ left' = [left EXCEPT !.news = @ - 1]
  /\ UNCHANGED <<serviceVars, queue, run, past>>

\* Nobody knows whether the claim is released: the transition never ends.
LeaveUnknown(id) ==
  /\ Quiet /\ opens[id].stage = "leaving" /\ Lapse
  /\ EndOpen(id, [flow EXCEPT !.blocked = TRUE])
  /\ page' = Shown(Freed(page, id))
  /\ OpenUnchanged /\ UNCHANGED <<hook, repl, calls>>

NewApplied(id) ==
  /\ Quiet /\ opens[id].stage = "leaving" /\ opens[id].base = Base
  /\ Applied(id, None, Untitled, [flow EXCEPT !.owned = None], Gone)
  /\ OpenUnchanged /\ UNCHANGED left

\* recoverReleasedDocumentAsUntitled: the editor changed meanwhile, and keeps its text as unsaved.
NewRecovered(id) ==
  /\ Quiet /\ opens[id].stage = "leaving" /\ opens[id].base # Base
  /\ Recovered(id, [Shown(Unsaved(page)) EXCEPT !.doc = None, !.origin = None],
               [flow EXCEPT !.owned = None], TRUE)
  /\ OpenUnchanged /\ UNCHANGED left

-----------------------------------------------------------------------------
(* The queue: saves (saveCurrentFile) and reloads (useExternalFileWatch).  *)

RunEnds == run' = Closed /\ queue' = Tail(queue)

\* The text is captured when the user saves; which document it is saved to is read later.
RequestSave ==
  /\ Quiet /\ page.doc # None /\ left.saves > 0
  /\ queue' = Append(queue, [kind |-> "save", text |-> page.text, origin |-> page.origin])
  /\ left' = [left EXCEPT !.saves = @ - 1]
  /\ UNCHANGED <<serviceVars, page, hook, flow, opens, run, repl, calls, past>>

SaveStarts ==
  /\ queue # <<>> /\ Head(queue).kind = "save" /\ run = Closed
  /\ IF flow.blocked \/ flow.irreversible # 0 \/ flow.opening \/ page.doc = None
     THEN RunEnds
     ELSE /\ run' = [stage |-> "preparing", doc |-> page.doc, op |-> flow.op, owned |-> flow.owned,
                     rev |-> page.rev, text |-> Head(queue).text, origin |-> Head(queue).origin]
          /\ UNCHANGED queue
  /\ UNCHANGED <<serviceVars, page, hook, flow, opens, repl, calls, left, past>>

\* MUTANT of SavePrepared: an open that began meanwhile does not stop the save.
SavePreparedOver ==
  /\ run.stage = "preparing"
  /\ run' = [run EXCEPT !.stage = "writing"]
  /\ flow' = [flow EXCEPT !.irreversible = flow.op]
  /\ UNCHANGED <<serviceVars, page, hook, queue, opens, repl, calls, left, past>>

\* Nothing has come between since the save began (isCurrentRequest).
SaveIsCurrent == flow.op = run.op /\ page.doc = run.doc /\ flow.owned = run.owned

\* The text is prepared: unless an open began meanwhile, the write cannot be taken back.
SavePrepared ==
  /\ run.stage = "preparing"
  /\ IF flow.opening \/ ~SaveIsCurrent \/ flow.irreversible \notin {0, run.op}
     THEN RunEnds /\ UNCHANGED flow
     ELSE /\ run' = [run EXCEPT !.stage = "writing"]
          /\ flow' = [flow EXCEPT !.irreversible = run.op]
          /\ UNCHANGED queue
  /\ UNCHANGED <<serviceVars, page, hook, opens, repl, calls, left, past>>

\* The shell writes the file,
SaveWrites ==
  /\ run.stage = "writing"
  /\ disk' = [disk EXCEPT ![run.doc] = run.text]
  /\ changed' = changed \union {run.doc}
  /\ run' = [run EXCEPT !.stage = "recording"]
  /\ past' = [whose  |-> [past.whose EXCEPT ![run.doc] = run.origin],
              strays |-> past.strays \union ({<<run.doc, run.origin>>} \ {<<run.doc, run.doc>>})]
  /\ UNCHANGED <<fresh, registry, update, pending, worker, wire, budget,
                 page, hook, flow, opens, queue, repl, calls, left>>

\* and tells the watcher what it wrote.
SaveRecords ==
  /\ run.stage = "recording" /\ Unlocked
  /\ registry' = Recorded(registry, run.doc, run.text)
  /\ run' = [run EXCEPT !.stage = "written"]
  /\ UNCHANGED <<disk, fresh, changed, update, pending, worker, wire, budget,
                 page, hook, flow, opens, queue, repl, calls, left, past>>

SaveFails ==
  /\ run.stage = "writing" /\ Lapse
  /\ page' = Shown(page)
  /\ flow' = [flow EXCEPT !.irreversible = 0]
  /\ RunEnds
  /\ UNCHANGED <<serviceVars, hook, opens, repl, calls, past>>

\* The page when text, which it held at revision rev, is written: text is the save point, which
\* the editor reports when it changes whether its text differs from it; then the store is clean
\* when its revision is still rev.
Marked(p, text, rev) ==
  LET late     == p.text # text
      reported == (p.text # p.saved) # late
      revised  == IF reported /\ late THEN p.rev + 1 ELSE p.rev
      dirty    == IF revised = rev THEN FALSE ELSE IF reported THEN late ELSE p.dirty
  IN [p EXCEPT !.saved = text, !.rev = revised, !.dirty = dirty, !.passed = late /\ ~dirty,
               !.error = FALSE, !.known = {text}]

\* apply of prepareCurrentFileSave: what was written is applied, and the document watched.  A save
\* that is not current any more leaves the ownership of the document in doubt.
SaveApplied ==
  /\ run.stage = "written"
  /\ IF SaveIsCurrent
     THEN /\ page' = Marked(page, run.text, run.rev)
          /\ flow' = [flow EXCEPT !.irreversible = 0]
          /\ StartReplace(TheSave, hook, run.doc, run.text)
          /\ IF hook.watched = run.doc THEN RunEnds
             ELSE run' = [run EXCEPT !.stage = "watching"] /\ UNCHANGED queue
     ELSE /\ page' = Shown(page)
          /\ flow' = [flow EXCEPT !.irreversible = 0, !.blocked = TRUE]
          /\ RunEnds /\ UNCHANGED <<hook, repl, calls>>
  /\ UNCHANGED <<serviceVars, opens, left, past>>

\* A reload begins, for an event or because the user chose the file over the editor's text.
ReloadStarts ==
  /\ queue # <<>> /\ Head(queue).kind # "save" /\ run = Closed
  /\ LET op == Head(queue)
     IN IF hook.watched # op.version.file THEN RunEnds /\ UNCHANGED hook
        ELSE /\ hook' = [hook EXCEPT !.request = @ + 1,
                                     !.ack = IF op.kind = "event" THEN None ELSE @]
             /\ run' = [stage |-> "reloading", path |-> op.version.file, gen |-> hook.gen,
                        request |-> hook.request + 1, chosen |-> op.kind = "chosen",
                        version |-> op.version]
             /\ UNCHANGED queue
  /\ UNCHANGED <<serviceVars, page, flow, opens, repl, calls, left, past>>

\* Whether what was read replaces the text in the editor.
Overwrites(r) == r.chosen \/ ~page.dirty

\* The file is read; the document changes to it, or a conflict is shown.
ReloadEnds ==
  /\ run.stage = "reloading" /\ RunEnds
  /\ LET c == disk[run.path]
     IN IF ~StillWanted(run) THEN UNCHANGED <<page, hook>>
        ELSE IF Fails(run.path) THEN page' = Shown(page) /\ UNCHANGED hook
        ELSE IF c = page.text /\ ~run.chosen THEN page' = Told(page, c) /\ UNCHANGED hook
        ELSE IF ~Overwrites(run)
        THEN hook' = [hook EXCEPT !.conflict = run.version] /\ page' = Told(page, c)
        ELSE /\ page' = Loaded(page, Seen(run.path))
             /\ hook' = [hook EXCEPT !.ack = run.version,
                                     !.conflict = IF run.chosen THEN None ELSE @]
  /\ UNCHANGED <<serviceVars, flow, opens, repl, calls, left, past>>

ReloadFromDisk ==
  /\ Quiet /\ hook.conflict # None /\ left.choices > 0
  /\ queue' = Append(queue, [kind |-> "chosen", version |-> hook.conflict])
  /\ left' = [left EXCEPT !.choices = @ - 1]
  /\ UNCHANGED <<serviceVars, page, hook, flow, opens, run, repl, calls, past>>

KeepCurrentContent ==
  /\ Quiet /\ hook.conflict # None /\ left.choices > 0
  /\ hook' = [hook EXCEPT !.ack = hook.conflict, !.conflict = None]
  /\ left' = [left EXCEPT !.choices = @ - 1]
  /\ UNCHANGED <<serviceVars, page, flow, opens, queue, run, repl, calls, past>>

-----------------------------------------------------------------------------
(* The events of the watcher: handleChange.                                *)

Receive ==
  /\ Quiet /\ wire # <<>> /\ wire' = Tail(wire)
  /\ LET e == Head(wire)
         h == [hook EXCEPT !.latest = e.revision]
         here == e.file = hook.watched
     IN IF e.revision <= hook.latest THEN UNCHANGED <<page, hook, queue>>
        ELSE IF e.kind = "error"
        THEN /\ hook' = [h EXCEPT !.request = IF here \/ e.file = None THEN @ + 1 ELSE @]
             /\ page' = Shown(page) /\ UNCHANGED queue
        ELSE IF e.file \in Images
        THEN hook' = h /\ page' = [page EXCEPT !.shown[e.file] = disk[e.file]] /\ UNCHANGED queue
        ELSE IF here /\ e.kind = "removed"
        THEN /\ hook' = [h EXCEPT !.request = @ + 1, !.conflict = None]
             /\ page' = Shown(Unsaved(page)) /\ UNCHANGED queue
        ELSE /\ hook' = h /\ UNCHANGED page
             /\ queue' = IF ~here \/ hook.ack = Version(e.file, e.print) THEN queue
                         ELSE Append(queue, [kind |-> "event", version |-> Version(e.file, e.print)])
  /\ UNCHANGED <<disk, fresh, changed, registry, update, pending, worker, budget,
                 flow, opens, run, repl, calls, left, past>>

-----------------------------------------------------------------------------
(* The user, and the images the document shows.                            *)

Edit ==
  /\ Quiet /\ left.edits > 0 /\ page.locked = 0 /\ fresh <= MaxContents
  /\ page' = [page EXCEPT !.text = fresh, !.dirty = TRUE, !.rev = @ + 1, !.passed = FALSE]
  /\ fresh' = fresh + 1
  /\ left' = [left EXCEPT !.edits = @ - 1]
  /\ UNCHANGED <<disk, changed, registry, update, pending, worker, wire, budget,
                 hook, flow, opens, queue, run, repl, calls, past>>

SyncImages ==
  /\ left.syncs > 0
  /\ left' = [left EXCEPT !.syncs = @ - 1]
  /\ calls' = Append(calls, TheImages)
  /\ UNCHANGED <<serviceVars, page, hook, flow, opens, queue, run, repl, past>>

-----------------------------------------------------------------------------
Watcher == WatcherNext /\ UNCHANGED pageVars
Writer ==
  /\ \E f \in Files : \E c \in Contents \union {Gone} :
       /\ ExternalWrite(f, c)
       /\ past' = [past EXCEPT !.whose = [d \in Docs |-> IF d = f THEN d ELSE past.whose[d]]]
  /\ UNCHANGED <<page, hook, flow, opens, queue, run, repl, calls, left>>
WatchErrors == (WorkerGivesUp \/ NotifierFails) /\ UNCHANGED pageVars

Opening(id) ==
  \/ ReserveAnswered(id) \/ ReserveFails(id) \/ ReserveUnknown(id) \/ Released(id)
  \/ ReadAnswered(id) \/ CommitFails(id) \/ OpenApplied(id) \/ AdoptFailClosed(id)
  \/ LeaveUnknown(id) \/ NewApplied(id) \/ NewRecovered(id)
Replacing(owner) == CallEnds(owner) \/ ReplaceContinues(owner) \/ ReplaceReads(owner)
Queued ==
  \/ SaveStarts \/ SavePrepared \/ SaveWrites \/ SaveRecords \/ SaveFails \/ SaveApplied
  \/ ReloadStarts \/ ReloadEnds
User ==
  \/ New \/ SupersedePendingOpen \/ \E d \in Docs : OpenPath(d)
  \/ RequestSave \/ ReloadFromDisk \/ KeepCurrentContent \/ Edit \/ SyncImages

Next ==
  \/ Watcher \/ Writer \/ WatchErrors \/ Receive \/ User \/ Queued
  \/ CallBegins \/ CallEnds(TheImages)
  \/ \E id \in OpenIds : Opening(id)
  \/ \E owner \in Owners : Replacing(owner)

Spec == Init /\ [][Next]_vars

\* The watcher, the shell and the page go on; other programs and the user need not.
LiveSpec ==
  /\ Spec
  /\ WF_vars(Watcher) /\ WF_vars(Receive) /\ WF_vars(Queued)
  /\ WF_vars(CallBegins) /\ WF_vars(CallEnds(TheImages))
  /\ \A id \in OpenIds : WF_vars(Opening(id))
  /\ \A owner \in Owners : WF_vars(Replacing(owner))

-----------------------------------------------------------------------------
(* Properties.                                                             *)

\* Until a claim is in doubt, the window has the claim of the document whose path it shows, and
\* the text in the editor is that document's, opened, reloaded or typed there, unless a save has
\* written another document's text to that very file: the text of a save is captured when the
\* user asks for it and the path read when its turn comes, after another document may have been
\* opened (openPath, useExternalFileWatch.ts; SavesWriteTheirDocument below fails).
TextIsOfItsDocument ==
  flow.blocked \/ /\ page.origin = page.doc \/ <<page.doc, page.origin>> \in past.strays
                  /\ page.doc # None => Owns(page.doc)

\* While a save writes, no claim is committed or released, and neither the path nor the claim the
\* window has change: the answer of a write never finds another document, which would leave the
\* ownership in doubt (beginIrreversibleDocumentClaimTransition, isCurrentRequest of
\* saveCurrentFile).
WritesAreAlone ==
  run.stage \in {"writing", "recording", "written"} =>
    /\ page.doc = run.doc /\ flow.owned = run.owned
    /\ \A id \in OpenIds : opens[id].stage \notin {"committing", "leaving", "recovering"}

\* Text that is not what the editor last loaded or saved is only replaced when the user chose to:
\* by typing, by beginning another document or opening one when asked about that very text, or by
\* reloading the file (ADR 0005: `unsaved user input must never be silently overwritten`).  The
\* exception is text that a save which had waited marked clean without having written it
\* (passed): nobody is asked about that.
UnsavedTextIsKept ==
  [][page.text # page.saved /\ page'.text # page.text =>
       \/ page.passed
       \/ left'.edits # left.edits
       \/ page.dirty /\ left'.news # left.news
       \/ run.stage = "reloading" /\ run.chosen
       \/ \E id \in OpenIds :
            /\ opens[id].stage \in {"committing", "leaving"}
            /\ opens[id].base[2] = page.text /\ opens[id].base[3]]_vars

Noticed ==
  \/ page.doc = None \/ flow.blocked \/ page.error
  \/ disk[page.doc] \in page.known

\* What other programs write to the open document ends up in the editor, or the user is told:
\* by a conflict, or by an error (ADR 0005).
ChangesAreNoticed == <>[]Noticed

-----------------------------------------------------------------------------
(* Properties the code does not have (see the README).                     *)

\* A save writes the text of the document it writes to.
SavesWriteTheirDocument == run.stage = "writing" => run.origin = run.doc

\* A document whose claim is in doubt is not written.
DoubtedClaimsAreNotWritten == run.stage = "writing" => ~flow.blocked

\* A report that the open document holds something new is not passed over (handleChange).
ReportsCount ==
  [][wire # <<>> /\ wire' = Tail(wire) =>
       LET e == Head(wire)
       IN e.kind = "document" /\ e.file = hook.watched /\ e.revision > hook.latest =>
            e.print \in page.known \/ Len(queue') > Len(queue)]_vars

\* Events reach the page in the order of their revisions (dispatch_events, retry_invalidation).
RevisionsRise == \A i, j \in DOMAIN wire : i < j => wire[i].revision < wire[j].revision

\* What other programs write to an image of the document is shown, or the user is told.
ImagesAreNoticed == <>[](page.error \/ \A i \in Images : page.shown[i] = disk[i])

\* Every open ends, with a document or without.
OpensEnd == \A id \in OpenIds : opens[id].stage # "none" ~> opens[id].stage = "done"
=============================================================================
