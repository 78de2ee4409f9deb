---------------------------- MODULE WindowRouting ----------------------------
(***************************************************************************)
(* Routing the files the operating system asks the application to open     *)
(* (desktop_window_service.rs): to the window that owns the document, else *)
(* to the one that was asked for it before, else to a blank, shared or new *)
(* window.                                                                 *)
(*                                                                         *)
(* A launch is a worker thread.  It holds the routing lock for its whole   *)
(* batch of files, but each question it asks the claim registry, the       *)
(* open-request service and the window manager is a call of its own, and   *)
(* the pages, the user and the main thread act between any two of them.    *)
(* A path is the document it identifies.                                   *)
(***************************************************************************)
EXTENDS Naturals, Sequences, FiniteSets, FiniteSetsExt

CONSTANTS
  Docs,
  Startup,     \* the launch that starts the process
  Secondary,   \* launches of second instances, each of which hands its arguments over once
  MaxLabel,    \* u64::MAX of document-N: the last label
  StartFiles,  \* bound of this model: how many files the first start names at most
  LaunchFiles, \* bound of this model: how many a secondary launch, or a later start, does
  MaxCrashes,  \* bound of this model: how often the process ends
  Nobody

ASSUME RoutingAssumption ==
  /\ Startup \notin Secondary
  /\ MaxLabel \in Nat /\ StartFiles \in Nat /\ LaunchFiles \in Nat /\ MaxCrashes \in Nat

MainWindow == 0
Windows == 0 .. MaxLabel
ASSUME NobodyAssumption == Nobody \notin Windows

VARIABLES
  live,      \* webview_windows
  closing,   \* windows that are destroyed and still listed
  owner,     \* owner_for_path of each document
  retained,  \* the open requests that were not acknowledged, on disk
  applied,   \* those of them whose window has recorded that it handled them
  ready,     \* OpenRequestStateReadiness
  launches,  \* the worker of each launch
  unfilled,  \* history: windows a route made and has not given a request
  left,      \* history: windows that were closed, or that a route took back
  crashes    \* bound: how often the process ended

windows == <<live, closing>>
documents == <<owner, retained, applied>>
history == <<unfilled, left>>
vars == <<windows, documents, ready, launches, history, crashes>>

Launches == Secondary \cup {Startup}

\* The first of some labels: document-1, document-2, ..., main (up to document-9, as strings).
FirstLabel(labels) == IF labels = {MainWindow} THEN MainWindow ELSE Min(labels \ {MainWindow})

\* What a worker does next: "launched" waits for the readiness, "waiting" for the lock.
Worker(step, paths) ==
  [step |-> step, paths |-> paths, blank |-> FALSE, seen |-> {}, todo |-> {},
   target |-> Nobody, created |-> FALSE, fresh |-> FALSE]

Batches(most) == UNION {[1 .. n -> Docs] : n \in 0 .. most}

Init ==
  /\ live = {MainWindow} /\ closing = {}
  /\ owner = [d \in Docs |-> Nobody] /\ retained = {} /\ applied = {}
  /\ ready = FALSE
  /\ \E paths \in Batches(StartFiles) :
       launches = [l \in Launches |-> IF l = Startup THEN Worker("waiting", paths) ELSE Worker("unborn", <<>>)]
  /\ unfilled = {} /\ left = {} /\ crashes = 0

-----------------------------------------------------------------------------
(* Workers.                                                                *)

At(l, step) == launches[l].step = step
Document(l) == Head(launches[l].paths)
Become(l, worker) == launches' = [launches EXCEPT ![l] = worker]
Goto(l, step) == Become(l, [launches[l] EXCEPT !.step = step])

\* An error ends the launch with the rest of its batch; a failed start never becomes ready.
Fail(l) == Become(l, Worker("done", <<>>))

Outside == {"unborn", "launched", "waiting", "done"}
Unlocked == \A l \in Launches : launches[l].step \in Outside

Targets == {r[1] : r \in retained}
TargetsOf(d) == {w \in Windows : <<w, d>> \in retained}

\* The single-instance callback hands over; the worker waits for the start, for ten seconds.
Launch(l) ==
  /\ At(l, "unborn")
  /\ \E paths \in Batches(LaunchFiles) : Become(l, Worker("launched", paths))
  /\ UNCHANGED <<windows, documents, ready, history, crashes>>

TimeOut(l) == ~ready /\ Fail(l)
WaitUntilReady(l) ==
  /\ At(l, "launched")
  /\ \/ ready /\ Goto(l, "waiting")
     \/ TimeOut(l)
  /\ UNCHANGED <<windows, documents, ready, history, crashes>>

\* MUTANT of Locked: the routing lock is not taken.
LockNothing(l) == At(l, "waiting")

\* lock_route_serial
Locked(l) == At(l, "waiting") /\ Unlocked

\* route_tauri_os_args; the start recovers the retained targets first.  The blank main window
\* is the start's to use.
Acquire(l) ==
  /\ Locked(l)
  /\ Become(l, [launches[l] EXCEPT !.step = IF l = Startup THEN "recover" ELSE "look",
                                   !.blank = l = Startup])
  /\ UNCHANGED <<windows, documents, ready, history, crashes>>

\* create_from_main_config: a label that is listed cannot be used again.
Create(w) ==
  /\ w \notin live
  /\ live' = live \cup {w} /\ left' = left \ {w}
  /\ UNCHANGED closing

-----------------------------------------------------------------------------
(* recover_active_targets_locked.                                          *)

\* The windows and the targets that are without one of them, or only have to be told.
ReadTargets(l) ==
  /\ At(l, "recover")
  /\ Become(l, [launches[l] EXCEPT !.step = IF Targets = {} THEN "look" ELSE "revive",
                                   !.seen = live, !.todo = Targets])
  /\ UNCHANGED <<windows, documents, ready, history, crashes>>

\* MUTANT of Revived: only the first target is recovered.
RevivedFirst(l, w) == Become(l, [launches[l] EXCEPT !.step = "look", !.todo = {}])

Revived(l, w) ==
  LET rest == launches[l].todo \ {w}
  IN Become(l, IF rest = {} THEN [launches[l] EXCEPT !.step = "look", !.seen = {}, !.todo = {}]
               ELSE [launches[l] EXCEPT !.todo = rest])

\* The next target, in the order of the labels, gets its window and is notified.
Revive(l) ==
  LET w == FirstLabel(launches[l].todo)
  IN /\ At(l, "revive")
     /\ \/ /\ w \in launches[l].seen /\ w \in live
           /\ Revived(l, w)
           /\ UNCHANGED <<windows, history>>
        \/ /\ w \notin launches[l].seen
           /\ Create(w)
           /\ Revived(l, w) \/ Fail(l)
           /\ UNCHANGED unfilled
        \/ /\ Fail(l)
           /\ UNCHANGED <<windows, history>>
     /\ UNCHANGED <<documents, ready, crashes>>

-----------------------------------------------------------------------------
(* route_locked.                                                           *)

\* managed_live_windows
Look(l) ==
  /\ At(l, "look")
  /\ Become(l, [launches[l] EXCEPT !.step = IF launches[l].paths = <<>> THEN "activate" ELSE "owner",
                                   !.seen = live])
  /\ UNCHANGED <<windows, documents, ready, history, crashes>>

\* A window that was not listed is created, with its label.
Route(l, w, fresh) ==
  Become(l, [launches[l] EXCEPT !.step = IF w \in launches[l].seen THEN "enqueue" ELSE "create",
                                !.seen = {}, !.target = w, !.fresh = fresh])

\* owner_for_path
FindOwner(l) ==
  /\ At(l, "owner")
  /\ \/ /\ owner[Document(l)] = Nobody
        /\ Goto(l, "retained")
     \/ /\ owner[Document(l)] # Nobody
        /\ Route(l, owner[Document(l)], FALSE)
     \/ Fail(l)
  /\ UNCHANGED <<windows, documents, ready, history, crashes>>

\* target_window_for_active_path: two windows that retain a request for the file are an error.
FindTarget(l) ==
  /\ At(l, "retained")
  /\ \/ /\ TargetsOf(Document(l)) = {}
        /\ Goto(l, "place")
     \/ \E w \in Windows : TargetsOf(Document(l)) = {w} /\ Route(l, w, FALSE)
     \/ Cardinality(TargetsOf(Document(l))) > 1 /\ Fail(l)
  /\ UNCHANGED <<windows, documents, ready, history, crashes>>

\* focus_target_or_create_main
SharedWindow(seen) == IF MainWindow \in seen \/ seen = {} THEN MainWindow ELSE FirstLabel(seen)

UsedLabels(l) == launches[l].seen \cup Targets
FreeLabels(l) == (1 .. MaxLabel) \ UsedLabels(l)
MainIsBlank(l) == launches[l].blank /\ MainWindow \in launches[l].seen /\ MainWindow \notin Targets

\* The mode of the settings is read for each document that is nobody's.
Aggregate(l) == Route(l, SharedWindow(launches[l].seen), FALSE)
Separate(l) ==
  \/ MainIsBlank(l) /\ Route(l, MainWindow, FALSE)
  \/ ~MainIsBlank(l) /\ FreeLabels(l) # {} /\ Route(l, Min(FreeLabels(l)), TRUE)
  \/ ~MainIsBlank(l) /\ FreeLabels(l) = {} /\ Fail(l)
Place(l) ==
  /\ At(l, "place")
  /\ Aggregate(l) \/ Separate(l) \/ Fail(l)
  /\ UNCHANGED <<windows, documents, ready, history, crashes>>

\* ensure_window, and the windows of new documents
CreateWindow(l) ==
  /\ At(l, "create")
  /\ \/ /\ Create(launches[l].target)
        /\ unfilled' = unfilled \cup {launches[l].target}
        /\ Become(l, [launches[l] EXCEPT !.step = "enqueue", !.created = TRUE])
     \/ /\ Fail(l)
        /\ UNCHANGED <<windows, history>>
  /\ UNCHANGED <<documents, ready, crashes>>

EnqueueFails(l) == IF launches[l].created THEN Goto(l, "rollback") ELSE Fail(l)

\* enqueue_for_window: a window is asked for a file once.
Enqueue(l) ==
  LET w == launches[l].target
  IN /\ At(l, "enqueue")
     /\ \/ /\ retained' = retained \cup {<<w, Document(l)>>}
           /\ unfilled' = unfilled \ {w}
           /\ Become(l, [launches[l] EXCEPT !.step = "notify", !.created = FALSE, !.fresh = FALSE])
        \/ /\ EnqueueFails(l)
           /\ UNCHANGED <<retained, unfilled>>
     /\ UNCHANGED <<windows, owner, applied, ready, left, crashes>>

\* destroy_window: the window may be gone already, or refuse.
RollBack(l) ==
  LET w == launches[l].target
  IN /\ At(l, "rollback")
     /\ Fail(l)
     /\ \/ /\ w \in live \ closing
           /\ closing' = closing \cup {w} /\ left' = left \cup {w}
           /\ owner' = [d \in Docs |-> IF owner[d] = w THEN Nobody ELSE owner[d]]
           /\ UNCHANGED unfilled
        \/ /\ unfilled' = unfilled \ {w}
           /\ UNCHANGED <<closing, left, owner>>
     /\ UNCHANGED <<live, retained, applied, ready, crashes>>

\* The batch goes on with the next file, or the start is over and releases who waits for it.
NextFile(l) ==
  LET w == launches[l].target rest == Tail(launches[l].paths)
  IN IF rest = <<>>
     THEN Become(l, Worker("done", <<>>)) /\ ready' = (ready \/ l = Startup)
     ELSE /\ Become(l, [Worker("look", rest) EXCEPT !.blank = launches[l].blank /\ w # MainWindow])
          /\ UNCHANGED ready

\* notify_open_requests and restore_and_focus
Notify(l) ==
  /\ At(l, "notify")
  /\ \/ launches[l].target \in live /\ NextFile(l)
     \/ Fail(l) /\ UNCHANGED ready
  /\ UNCHANGED <<windows, documents, history, crashes>>

\* A launch without files brings a window to the front, and makes the main one when there is none.
Activated(l) == Become(l, Worker("done", <<>>)) /\ ready' = (ready \/ l = Startup)
Activate(l) ==
  LET w == SharedWindow(launches[l].seen)
  IN /\ At(l, "activate")
     /\ \/ /\ w \in launches[l].seen /\ w \in live
           /\ Activated(l)
           /\ UNCHANGED <<windows, left>>
        \/ /\ w \notin launches[l].seen
           /\ Create(w)
           /\ Activated(l) \/ (Fail(l) /\ UNCHANGED ready)
        \/ /\ Fail(l)
           /\ UNCHANGED <<windows, ready, left>>
     /\ UNCHANGED <<documents, unfilled, crashes>>

-----------------------------------------------------------------------------
(* The pages, the user, and the end of the process.                        *)

Open(w, d) ==
  owner' = [e \in Docs |-> IF e = d THEN w ELSE IF owner[e] = w THEN Nobody ELSE owner[e]]

\* The page of a window opens a file it was asked for, or brings the owner to the front.
OpenRequested(w, d) ==
  /\ w \in live \ closing /\ <<w, d>> \in retained \ applied
  /\ IF owner[d] = Nobody THEN Open(w, d) ELSE UNCHANGED owner
  /\ applied' = applied \cup {<<w, d>>}
  /\ UNCHANGED <<windows, retained, ready, launches, history, crashes>>

Acknowledge(w, d) ==
  /\ w \in live \ closing /\ <<w, d>> \in applied
  /\ retained' = retained \ {<<w, d>>} /\ applied' = applied \ {<<w, d>>}
  /\ UNCHANGED <<windows, owner, ready, launches, history, crashes>>

\* The user's choice, or the restored session.
OpenChosen(w, d) ==
  /\ w \in live \ closing /\ owner[d] = Nobody
  /\ Open(w, d)
  /\ UNCHANGED <<windows, retained, applied, ready, launches, history, crashes>>

\* The user closes a window: its claims are released before it is taken off the list.
Close(w) ==
  /\ w \in live \ closing
  /\ closing' = closing \cup {w} /\ left' = left \cup {w}
  /\ owner' = [d \in Docs |-> IF owner[d] = w THEN Nobody ELSE owner[d]]
  /\ UNCHANGED <<live, retained, applied, ready, launches, unfilled, crashes>>

Delist(w) ==
  /\ w \in closing
  /\ live' = live \ {w} /\ closing' = closing \ {w} /\ unfilled' = unfilled \ {w}
  /\ UNCHANGED <<documents, ready, launches, left, crashes>>

\* The process ends and is started again with any files; only the requests are on disk.
Crash ==
  /\ crashes < MaxCrashes
  /\ crashes' = crashes + 1
  /\ live' = {MainWindow} /\ closing' = {}
  /\ owner' = [d \in Docs |-> Nobody]
  /\ ready' = FALSE
  /\ \E paths \in Batches(LaunchFiles) :
       launches' = [l \in Launches |->
         IF l = Startup THEN Worker("waiting", paths)
         ELSE IF At(l, "unborn") THEN launches[l] ELSE Worker("done", <<>>)]
  /\ unfilled' = {} /\ left' = {}
  /\ UNCHANGED <<retained, applied>>

Work(l) ==
  \/ WaitUntilReady(l) \/ Acquire(l)
  \/ ReadTargets(l) \/ Revive(l)
  \/ Look(l) \/ FindOwner(l) \/ FindTarget(l) \/ Place(l)
  \/ CreateWindow(l) \/ Enqueue(l) \/ RollBack(l) \/ Notify(l) \/ Activate(l)

Next ==
  \/ \E l \in Secondary : Launch(l)
  \/ \E l \in Launches : Work(l)
  \/ \E w \in Windows, d \in Docs : OpenRequested(w, d) \/ Acknowledge(w, d) \/ OpenChosen(w, d)
  \/ \E w \in Windows : Close(w) \/ Delist(w)
  \/ Crash

Spec == Init /\ [][Next]_vars

-----------------------------------------------------------------------------
(* Properties.                                                             *)

\* Between launches, routing left nothing half done.  A file that was asked for waits in a window
\* that is listed or was closed since: after a start that succeeded, none is forgotten in a window
\* the process never had.  And a window that was made for a file got its request, or was taken
\* back, unless that failed too (recover_active_targets_locked, enqueue_notify_and_focus).
RoutesAreComplete ==
  Unlocked =>
    /\ ready => Targets \subseteq live \cup left
    /\ unfilled \subseteq closing

\* The label of a new document's window is nobody else's: no other launch makes the same one,
\* and no request that is retained for a closed window is opened in it
\* (allocate_document_window_label, the routing lock).
LabelsAreFresh ==
  \A l \in Launches :
    /\ At(l, "create") => launches[l].target \notin live
    /\ launches[l].fresh /\ (At(l, "create") \/ At(l, "enqueue")) =>
         launches[l].target \notin Targets

-----------------------------------------------------------------------------
(* Properties the code does not have (see the README).                     *)

\* A document has one window among its owner and the requests that are retained for it.
OneWindowPerDocument ==
  \A d \in Docs : Cardinality(TargetsOf(d) \cup ({owner[d]} \ {Nobody})) <= 1

\* The start gives its file to the main window as a blank one only if no document is open there.
BlankMainIsBlank ==
  \A l \in Launches, d \in Docs :
    At(l, "place") /\ MainIsBlank(l) => owner[d] # MainWindow

\* A window that is taken back has nothing open.
OnlyEmptyWindowsAreTakenBack ==
  \A l \in Launches, d \in Docs :
    At(l, "rollback") => owner[d] # launches[l].target
=============================================================================
