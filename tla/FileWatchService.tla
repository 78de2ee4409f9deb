--------------------------- MODULE FileWatchService ---------------------------
(***************************************************************************)
(* The file watcher of one window (services/file_watch_service.rs): which  *)
(* files it watches, what it last read of them, and the worker that reads  *)
(* a file again when the operating system reports a change.                *)
(*                                                                         *)
(* A content stands for its fingerprint.  Updates of the targets hold the  *)
(* lock of the registry while they read; the worker reads without it and   *)
(* compares the registry afterwards.                                       *)
(***************************************************************************)
EXTENDS Naturals, Sequences, FiniteSets, SequencesExt, FiniteSetsExt

CONSTANTS
  Docs,         \* the documents a window may watch
  Images,       \* the local images of the documents
  None,
  Gone,         \* the content of a file that does not exist
  MaxContents,  \* bound of this model: contents that exist
  MaxWrites,    \* bound of this model: changes by other programs
  MaxFaults,    \* bound of this model: reads and watches that fail
  MayRepeat     \* whether other programs write a content a second time

Files == Docs \union Images
Contents == 0 .. MaxContents

VARIABLES
  disk,      \* the content of each file
  fresh,     \* the first content nobody has written
  changed,   \* the files whose change was not reported yet
  registry,  \* the targets, what was last read of them, and the revision
  update,    \* the change of the targets underway
  pending,   \* what waits for the worker
  worker,    \* what the worker is doing
  wire,      \* the events on their way to the page
  budget     \* what is left of the bounds

serviceVars == <<disk, fresh, changed, registry, update, pending, worker, wire, budget>>

NoUpdate == [stage |-> "none"]
IdleWorker == [stage |-> "idle"]
Event == [kind : {"document", "image", "removed", "error"}, file : Files \union {None},
          print : Contents \union {Gone, None}, revision : Nat]

ServiceInit ==
  /\ disk = [f \in Files |-> 0]
  /\ fresh = 1
  /\ changed = {}
  /\ registry = [doc |-> None, images |-> Images, revision |-> 0,
                 print |-> [f \in Files |-> IF f \in Images THEN 0 ELSE None]]
  /\ update = NoUpdate
  /\ pending = [files |-> {}, events |-> {}]
  /\ worker = IdleWorker
  /\ wire = <<>>
  /\ budget = [writes |-> MaxWrites, faults |-> MaxFaults]

Targets(r) == r.images \union (IF r.doc = None THEN {} ELSE {r.doc})
Unlocked == update.stage # "reading"
InOrder(events) == SetToSortSeq(events, LAMBDA a, b : a.revision < b.revision)

\* invalidate_paths_in_place: the targets whose content changed are read, in any order
\* of the images after the document, and each gets an event.
Invalidated(r, files) ==
  LET differ == {f \in files \intersect Targets(r) : disk[f] # r.print[f]}
      order  == SetToSeq(differ \intersect Docs) \o SetToSeq(differ \intersect Images)
  IN [registry |-> [r EXCEPT !.print = [f \in Files |-> IF f \in differ THEN disk[f] ELSE @[f]],
                             !.revision = @ + Cardinality(differ)],
      events |-> {[kind |-> IF disk[order[i]] = Gone THEN "removed"
                            ELSE IF order[i] \in Docs THEN "document" ELSE "image",
                   file |-> order[i], print |-> disk[order[i]],
                   revision |-> r.revision + i] : i \in DOMAIN order}]

-----------------------------------------------------------------------------
(* The disk.                                                               *)

\* The contents another program may write to f.
Writable(f) == ({fresh} \intersect Contents) \union {Gone} \union (IF MayRepeat THEN 0 .. fresh - 1 ELSE {})

\* Another program writes or removes a file.
ExternalWrite(f, c) ==
  /\ budget.writes > 0
  /\ c \in Writable(f) \ {disk[f]}
  /\ disk' = [disk EXCEPT ![f] = c]
  /\ fresh' = IF c = fresh THEN fresh + 1 ELSE fresh
  /\ changed' = changed \union {f}
  /\ budget' = [budget EXCEPT !.writes = @ - 1]
  /\ UNCHANGED <<registry, update, pending, worker, wire>>

-----------------------------------------------------------------------------
(* The watcher.                                                            *)

\* The debounced report of a change: schedule_invalidation keeps the targets it concerns.
Notify(f) ==
  /\ f \in changed /\ Unlocked
  /\ changed' = changed \ {f}
  /\ pending' = [pending EXCEPT !.files = @ \union ({f} \intersect Targets(registry))]
  /\ UNCHANGED <<disk, fresh, registry, update, worker, wire, budget>>

\* The worker takes what is pending: it sends the events and reads the files without the lock.
WorkerTakes ==
  /\ worker.stage = "idle" /\ Unlocked
  /\ pending.files \union pending.events # {}
  /\ wire' = wire \o InOrder(pending.events)
  /\ pending' = [files |-> {}, events |-> {}]
  /\ worker' = IF pending.files = {} THEN IdleWorker
               ELSE [stage |-> "read", before |-> registry, files |-> pending.files,
                     result |-> Invalidated(registry, pending.files)]
  /\ UNCHANGED <<disk, fresh, changed, registry, update, budget>>

\* invalidate_registry_once: what was read counts only if the registry is as it was.
WorkerCommits ==
  /\ worker.stage = "read" /\ Unlocked
  /\ IF registry = worker.before
     THEN /\ registry' = worker.result.registry
          /\ wire' = wire \o InOrder(worker.result.events)
     ELSE UNCHANGED <<registry, wire>>
  /\ worker' = IdleWorker
  /\ UNCHANGED <<disk, fresh, changed, update, pending, budget>>

\* emit_invalidation_error: the page is told of an error with f, or with no file at all.
ErrorSent(f) ==
  /\ Unlocked /\ budget.faults > 0
  /\ registry' = [registry EXCEPT !.revision = @ + 1]
  /\ wire' = Append(wire, [kind |-> "error", file |-> f, print |-> None,
                           revision |-> registry.revision + 1])
  /\ worker' = IdleWorker
  /\ budget' = [budget EXCEPT !.faults = @ - 1]
  /\ UNCHANGED <<disk, fresh, changed, update, pending>>

\* The retries of retry_invalidation are exhausted.
WorkerGivesUp ==
  /\ worker.stage = "read"
  /\ \E f \in worker.files : ErrorSent(f)

\* The operating system reports an error to the notifier (schedule_error): the worker passes it
\* on at the end of a batch.
NotifierFails ==
  /\ worker.stage = "idle"
  /\ \E f \in Files \union {None} : ErrorSent(f)

-----------------------------------------------------------------------------
(* The commands of the page.                                               *)

\* update_registry takes the lock; a target that is new is read.
BeginUpdate(command, next) ==
  /\ update.stage = "none"
  /\ update' = [stage |-> "reading", command |-> command, next |-> next]

Read(r, files) == [r EXCEPT !.print = [f \in Files |-> IF f \in files THEN disk[f] ELSE @[f]]]
WithDocument(d) == Read([registry EXCEPT !.doc = d], {d} \ {None})
WithImages(images) == Read([registry EXCEPT !.images = images], images)

\* All targets are read again, and the registry is unlocked with the events still in hand.
UpdateReads ==
  /\ update.stage = "reading"
  /\ LET result == Invalidated(update.next, Targets(update.next))
     IN /\ registry' = result.registry
        /\ update' = [stage |-> "dispatching", command |-> update.command, events |-> result.events]
  /\ UNCHANGED <<disk, fresh, changed, pending, worker, wire, budget>>

\* dispatch_events: the worker sends the latest event of each file.
Dispatched ==
  LET all == pending.events \union update.events
  IN {e \in all : \A o \in all : o.file = e.file => o.revision <= e.revision}

\* The change of the targets ends; command is answered with the fingerprint or with an error.
UpdateEnds(command) ==
  /\ update.stage = "dispatching" /\ update.command = command
  /\ pending' = [pending EXCEPT !.events = Dispatched]
  /\ update' = NoUpdate

UpdateFails(command) ==
  /\ update.stage = "reading" /\ update.command = command /\ budget.faults > 0
  /\ budget' = [budget EXCEPT !.faults = @ - 1]
  /\ update' = NoUpdate

\* record_document_saved: what the window wrote itself is no change.
Recorded(r, d, c) == IF r.doc = d THEN [r EXCEPT !.print[d] = c] ELSE r

-----------------------------------------------------------------------------
WatcherNext ==
  \/ \E f \in changed : Notify(f)
  \/ WorkerTakes
  \/ WorkerCommits
  \/ UpdateReads
=============================================================================
