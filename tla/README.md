# LumaMark in TLA+

LumaMark is a desktop Markdown editor: a Tauri shell in Rust (`src/src-tauri`) whose windows each
run a React page (`src/src`).  This directory holds TLA+ models of the parts of it where several
actors meet, TLC configurations that check small instances of them, and proofs that hold for every
instance.  All paths below are relative to the repository root `src/`.

## The system

One process serves several windows.  A window has a page; a page can be reloaded, and the window
can be destroyed, at any time.  Pages talk to the shell by asynchronous commands that run on
blocking-pool threads, so several calls of one page, and of several pages, are in progress at once.
Everything that must survive a page lives in the shell; what must survive the process is in files
that are replaced atomically.

```
 operating system ──args──▶ window router ──▶ open-request service ──▶ open-requests.json
                                │   ▲                  ▲
                     owner of a path│                  │ claim, record applied, acknowledge, abandon
                                ▼   │                  │
                       document-claim registry ◀── page of a window ──▶ file reads and writes
                                                 (reserve, commit,      (validated against the
                                                  release)               page's claim)
```

| component | state | operations | what is hard | what makes it correct |
|---|---|---|---|---|
| document-claim registry (`src-tauri/src/services/document_claim_service.rs`) | claims, an index of path keys, operation records, one session per window, two counters | begin, take over and release a session; reserve, commit, release, yield a document; file I/O on a claimed document; window destroyed | paths are resolved outside the lock; links are retargeted; pages reload; calls are retried, overtaken and outlive their window | a file is never open in two windows; I/O stays on the claimed file; sessions fence each other; ownership survives reloads |
| path identity (`document_path_identity.rs`) | none | resolve a spelling to a pair of keys | a file system that changes | two spellings of one file overlap |
| open-request service (`open_request_service.rs`) | the image in memory, a dirty mark, one file | enqueue, claim, recover, record applied, acknowledge, abandon, window destroyed, start | writes fail, the process stops anywhere, two policies for a failed write | a request accepted is opened exactly once; the file always loads |
| open-request lifecycle (`open_request_lifecycle.rs`) | records, leases, tokens, fences, acknowledged ranges | the transitions of a request; validation of snapshots | stale answers, retries of completed work, out-of-order completion | tokens fence attempts; ranges lose nothing |
| window routing (`desktop_window_service.rs`, `lib.rs`) | live windows, a routing lock | route a file to a window, create it, restore targets at startup | two authorities asked one after the other, roll-back of a created window | a file goes to the window that owns it |
| open-request consumer (`src/app/controllers/useDesktopOpenRequests.ts`) | attempts in hand, a serial bridge, a local batch | synchronise, open, record, acknowledge, abandon, confirm or cancel a discard | answers across reloads, retries, dirty documents | every request is eventually opened or given up; none is opened twice |
| claim client and workflow (`documentClaimClient.ts`, `documentClaimWorkflowRuntime.ts`) | the page's session, its pending operations | bring every claim operation to a terminal answer | lost answers, doubt about what the registry holds | no operation is left half done |
| file workflow (`useFileWorkflow.ts`, `fileActions.ts`) | current document, queued saves, request numbers | open, new, save, save as, rename | three thousand lines of awaits; late results; claims in doubt | the text in the editor belongs to the document whose claim the window has; a write has the claim to itself; unsaved text is only given up by choice |
| autosave (`autosaveScheduler.ts`, `useWindowAutosave.ts`) | timer, active save, trailing mark, revisions, a session record that follows the store | edits, availability, enable, flush, dispose | edits during a save, blocked sessions, flush at close | every edit is eventually saved or reported |
| close (`appCloseCoordinator.ts`, `useDocumentCloseController.ts`) | a close in progress | close, cancel, retry | a close while a save is in progress | what the user had when a close was decided is in the file or in the trash |
| external file watch (`file_watch_service.rs`, `file_watch_session_hub.rs`, `useExternalFileWatch.ts`) | one watcher per window, generations | watch, unwatch, classify, own save | events of an older watch, own saves seen as foreign | a foreign change is reported, an own save is not |
| trash (`trash_service.rs`) | a manifest and one file per entry | archive, list, read, remove, empty | renames, a manifest write and deletes with a crash between any two | a listed document can be read; nothing listed is lost |
| settings (`settings_service.rs`, `settingsClient.ts`) | a revisioned document, pending writes | read, update, retry, flush | concurrent windows, failed writes | no update is lost or applied twice |
| recovery drafts (`draftStore.ts`, `recoveryDraftScheduler.ts`) | one draft, one timer | write, read, clear | a draft written after its document was saved | a draft exists only for unsaved text |
| automation host (`src-tauri/src/automation`) | jobs, renderer, idle timer | submit, cancel, finish, idle | the idle timeout against a new job | a job is answered once |
| the rest (workspace, recent files, assets, packages, export, updater, opener, editor capabilities, shell) | see `PROJECT.json` | | mostly sequential, or I/O | |

`PROJECT.json` lists every component with its sources, and the hazards of the code at the lines
where they bite.

## Modules

| module | what it is |
|---|---|
| `DocumentOwnership` | what the claim registry promises: exclusive ownership of documents, without sessions, tokens, locks or links |
| `DocumentClaims` | the claim registry; implements `DocumentOwnership` |
| `OpenRequestHandoff` | what the open-request service promises: every accepted file is opened and forgotten exactly once |
| `AcknowledgedRanges` | the sorted list of acknowledged ranges, its insertion and its binary search |
| `OpenRequests` | the open-request service with its lifecycle registry and its file; extends `AcknowledgedRanges`, implements `OpenRequestHandoff` |
| `TrashBin` | what the trash promises: a bounded bin whose operations happen at once or not at all |
| `Trash` | the trash service, one file operation per step; implements `TrashBin` |
| `DocumentSaving` | the document of a window: text, save point, dirty revision, file and the queue of saves |
| `RecoveryDrafts` | the recovery draft of a window, with New, Open, Save As, crashes and restarts; extends `DocumentSaving` |
| `WindowAutosave` | the autosave scheduler and its hook; extends `DocumentSaving` |
| `SettingsStore` | the settings of a page: hydration, debounced writes, retries |
| `WindowClose` | closing a window: coordinator, guard, prompt and native requests; extends `SettingsStore` |
| `OpenRequestConsumer` | the page's side of the open requests, over a shell reduced to what one window sees of it |
| `WindowRouting` | the router of files the operating system asks for, its launches, windows and restarts |
| `FileWatchService` | the file watcher of one window: targets, worker and events |
| `FileWorkflow` | the documents of a window: opens, new documents, saves, reloads and conflicts; extends `FileWatchService` |
| `MC*` | small instances for TLC |
| `*_proofs` | theorems and their proofs |

Definitions marked `MUTANT of X` are plausible faults of the definition `X` that follows them.  The
models do not use them: each is a fault that the property named for it in `PROJECT.json` finds.

### DocumentClaims

One action is one region under the registry's mutex or one read of the file system.  `reserve`,
`commit_operation`, `release_owned` (here *yield*) and `with_validated_operation_io` give the mutex
up, or read the file system under it, so each of their calls is a record in `calls` that says what
the thread has read so far; the other operations are one action.  `fs` maps a path key to the file it leads to,
and `Refit` changes it between any two steps, as links and renames outside the application do.  File
I/O makes its path canonical, resolves and checks it once more, and then opens it by name, all under the
mutex, which holds the registry still but not the file system: these are three actions, and `moved` is a
history mark of a call whose path was retargeted after its check.
Windows are destroyed and created again under the same label, with calls of the old window still
running.  A page whose `begin_session` was refused takes over with the generation it was told, at
any later time.

`MaxSequence` and `MaxGeneration` stand for the limits of the code (`u64::MAX` and the largest safe
integer of a page), with the same comparisons, so their boundary is reached in the runs.  A call
begins at its first lock region: what a page does between two calls is not constrained, so the model
contains every sequence of calls any page may make.  Left out: commit and release by token and
`validate_operation_path`, which only tests call; `owner_for_path`, which changes nothing; poisoned
locks; the spelling rules of each platform, for which a key is opaque.

### OpenRequests

One action is one transaction of the service: under its mutex it changes the image in memory,
validates it, and writes the file, or takes the change back when the write fails.  `record_applied`
and `release_window` keep the change and set the dirty mark instead.  `Restart` is a crash and a start: the image is what
`load_runtime` makes of the file.  `known` collects the attempts handed to pages since the start, and a page may answer for any
of them at any time, in any order, more than once.  Answers that change nothing, errors included,
are not steps.  A failed write leaves the old file, as the atomic replacement of the file does.

The code's leases end at `u64::MAX`, so they do not expire; a window only asks for the requests
that target it, so the lease's owner is the target; a batch has no bound a window could reach.
Whether a page ever answers is the page's business: the liveness of the handoff is
`OpenRequestConsumer`'s.

### Trash

`op` holds the operation under the mutex and the step it is at; each rename, deletion and write is
an action that may fail, and `Crash` ends the operation anywhere.  Entry identifiers are UUIDs; the
model numbers them by creation time and then identifier, the order in which `enforce_limits` evicts.
Directory entries are visited in any order.  `write_bytes_atomically` either replaces the file or
leaves it alone; the temporary file a crash may leave behind is not modelled, nor is damage done by
other programs beyond the refusal it leads to (`ReconcileFails`).  Texts that are larger than the
trash are refused before anything is touched.

### DocumentSaving and WindowAutosave

JavaScript runs one callback at a time, so an action is everything from one event to the next with
the promise reactions it sets off.  `Edit` is a transaction of the editor with the report to the store
it makes.  A save captures the text when it is requested, waits in the queue, begins
(`prepareCurrentFileSave` reads the dirty revision), writes (`WriteFile`, in the shell), is applied when the answer arrives
(`ApplySave`) and ends when the watch of the file is installed again.  A refused or failed save is
a step that changes nothing.  A text is a member of a small set: saving and comparing is all that
is done to it.  Left out: switching documents and what it does to a save under way, save-as, texts
changed by `prepareTextForSave`, and the other mutations in the queue.

`WindowAutosave` keeps what the hook keeps apart: the store, the values of the last render (`page`),
the values the effects ran with before (`seen`), the session record the scheduler reads, and the
scheduler's own variables.  `Render` copies the store, `RunEffects` runs the effects in the order
of the hook, and anything may happen in between.  The subscription to the store runs inside the change
that triggers it.  `setting` and `available` (a path, no open underway, no external conflict) change
at any time.  One flush is in progress at a time, as the close coordinator keeps one close in
flight.  `dispose` is left out: it ends the page.

### RecoveryDrafts

The editor reports every change of its text and of its dirty mark; a dirty report (re)starts the
timer (`Schedule`), a clean one drops the timer, the stored draft and the offer (`Drop`).  Whatever
makes a document safe drops them too: the end of a save (`SaveReturns`) and of Save As (`SaveAsEnds`) when
the document stayed clean, of an open (`OpenEnds`) when the text is the one that was read, and of New
(`NewEnds`) always.  New, Open and Save As hold the editor locked until their result is applied, so
each is one step up to there; the watch that follows is awaited unlocked, as `watching` says.
`Crash` leaves `slot` alone and takes everything else; the next page has an untitled document and
reads the slot.  An open may find any text, so the session restored at a start, another file, and a
file another program changed are all the same step.  The dialog of an offer is modal: nobody types,
but the shortcuts of the window still work.  A restored document has no save point (`NoText`) and no
path.  The save queue has one place in the run (`MaxSaves = 1`), since `saves_queued` shows what two
do.  A save may not begin while a Save As awaits its watch (a simplification: both would only read the
dirty mark).  Left out: a storage that refuses a write, and the migration of the old key.

### SettingsStore and WindowClose

A version of the settings is the number of changes made to them.  `Drain` is one turn of the loop of
`flushPending`; `writing` is a set because a mutant needs two writes at once.  The file may hold
something unreadable (`Foreign`) when the application starts.

In `WindowClose` an attempt is a call of `requestClose`, and `phase` is the await it is at.  The
coordinator and the guard are made anew by every render (`Render`), which forgets the attempt in flight and
unregisters the listener of native requests until the registration is answered
(`ListenerRegistered`).  A prompt that replaces another takes over its resolver (`asked`), and the other
attempt is answered by nobody (`Overtaken`).  The document is a count of edits, with the dirty mark of the
store beside it (`dirty`), which is all the guard reads.  Saves wait in `saves` with the text of their
request; what DocumentSaving does in several steps is one step here, `SaveApplied`, and it clears the mark
when no edit came since the save *began*.  A text that was marked clean and not written is in `missed`, a
history variable.  `Saved` is the outcome the guard sees.  `Destroy`, saves and every write may fail.

### OpenRequestConsumer

`shell` gives each request its state in the service (`absent`, `queued`, `processing`, `applied`,
`done`) with its token; `ShellAnswers` is the transaction of `OpenRequests` that a command runs, and
`Fault` one that cannot be written.  `bridge` is the serial chain of operations, `run` the
operation at its head, `call` and `answer` its command.  `page` is the runtime record that outlives the
component; `mount` counts the component's generations.  `Pump`, `OpenEnds` and the prompt's answers are the
opening of the local queue; the document is dirty or clean whenever `Pump` looks.  `page.errors` has the
sources of the errors, `page.muted` the operations underway whose ticket is void, because their last
error was dismissed or their attempt superseded: their failure is not shown.  `DismissError` may take any
error, the code the latest.  `Incident` counts everything that befalls the page, and `budget.declined` has
the requests the user declined or dismissed an error about.  `blocks` and `bootstrapped` are what the
start-up reads of the page; what it does with them is not modelled.

### WindowRouting

`launches` has a record for each worker: the step it is at, its batch of files and the locals of
`route_locked`.  `Acquire` takes the routing lock, which the worker has until its step is `done`, and
every action in between is one call of the authority or of the window manager, each of which may fail; a
failure ends the worker and drops the rest of its batch (`Fail`).  The mode of the settings is read for
each file, so `Place` may take either.  A window label is a number, 0 for `main`; the last one is
`MaxLabel`, where the code has `u64::MAX`.  A path is the document it identifies, and a reserved claim
counts as an owner, as it does for the router.  `ready` is the flag second instances wait for, and
their ten seconds may be over whenever it is not set.

Around the workers act the pages (a request is opened, recorded as applied and acknowledged), the user
(opens another file, closes a window) and the main thread: a destroyed window releases its claims at
once and is listed a while longer (`closing`, `Delist`).  `Crash` ends the process and starts it with any
files; only the requests survive.  `unfilled` and `left` are history variables: the windows a route made
and has not asked for a file, and those that were closed or taken back.  Notifying a window and
bringing it to the front are one step.

### FileWatchService and FileWorkflow

The contents of a file are numbers, and a fingerprint is the content.  The watcher's commands run in
order: a change of the targets has three steps (the lock, reading the new targets, handing the
events to the worker), and the worker has its debounced take, its read without the lock and its
commit, which fails when the registry changed meanwhile.  `wire` is the events on their way to the page.
An error event comes from the worker, when its retries are exhausted, or from the notifier
(`NotifierFails`), and names a file or none; in the page it supersedes a read that waits.

In `FileWorkflow` each call of `openPath` and of `createNewDocument` is a record in `opens` that says
which await it is at: reserve, speculative read, commit, the release of a reservation that was given
up (`releasing`), the release of the claim for a new document (`leaving`), the watch, or the watch of a
transition that could not be applied (`recovering`).  Every await may find the operation superseded,
by another one or by `SupersedePendingOpen`, and every claim call may fail or end in doubt, in which
case the window neither saves nor opens any more (`flow.blocked`).  An untitled document is edited like any
other.  Saves and reloads share one queue whose head runs (`run`).  `repl` is each call of
`replaceWatchedDocument`.  `flow` is the workflow runtime: the operation number, whether an open shows,
the irreversible transition underway, the claim owned and whether one is in doubt.

`page` has the store's dirty flag and its revision beside the editor's save point (`saved`), which are
not the same: a save that is applied makes the text it wrote the save point, the editor reports when
that changes whether its text differs, and then the store turns clean if its revision is still that of
the save's beginning (`Marked`).  History variables tell what neither knows: `page.origin` whose text
the editor has, `page.known` the contents of the file the editor was compared with, `page.passed` that
the text was marked clean without having been written, `past.whose` whose text each file holds and
`past.strays` where a save wrote a text that was another document's.

Left out: a component that is replaced while an operation runs (so `Superseded` waits for a mount
that does not come), renames and removals of the open document, Save As with its claims, a save that
has to claim its document anew (`resolveOwnedOperationForSave`), and text that `prepareTextForSave`
changes.  That a session is taken over is in `DocumentClaims`; here the page only sees that a claim call
fails or that nobody knows.

## Runs

| run | instance | what it shows |
|---|---|---|
| `claims` | two windows, two threads, one session and operation each, two keys, one link | two calls overlap between their lock regions while the link is retargeted: the index and the claims describe each other, I/O stays on the claimed file unless its path is retargeted between its check and its use, no document is claimed twice, no window owns two, and `DocumentOwnership` is implemented |
| `claims_sessions` | one window, two sessions, two operations, two threads | sessions fence each other and the window's ownership survives them, up to the limits of both counters |
| `requests` | two windows, two files, three requests, four attempts, one fence | failing writes and crashes anywhere: the file always loads, a crash forgets only unsaved applications, tokens fence attempts, the handoff is implemented |
| `trash` | five documents of one or two units, a bin of three entries and four units | every file operation may fail or be the last: nothing listed is lost, the limits hold, `TrashBin` is implemented |
| `saves_queued` | three texts, six revisions, two saves | **violated**, see Findings |
| `drafts` | four texts, seven revisions, one save at a time, crashes without bound | what is shown clean is on disk; unsaved text older than the debounce is in the draft; saved text leaves no draft |
| `autosave` | two texts, three revisions, one save of the user beside autosave | one autosave at a time; no edit is left to itself, every edit is attempted, a flush ends |
| `close` | two attempts, two edits, one save of the page beside those of the attempts, one change of the settings | a close keeps the settings it was decided on, and the text but for one that a save marked clean unwritten; an attempt ends unless a save never does or a later prompt takes its answer; the settings reach the file in order |
| `consumer` | two requests, six tokens, three incidents | no delivery is dropped, no request is opened twice, and while the editor keeps becoming free each is opened and acknowledged, or the user knows of this one |
| `routing` | two documents, a start with two files, two second instances with one, three labels, one restart | no request is left to a window the process never had; a window made for a file gets its request or is taken back; the label of a new window is nobody else's |
| `documents` | two documents, two operations (opens, one of which may be given up, or a new document), one save, edit, foreign write, conflict answer and list of images, and one claim or write that fails or ends in doubt | until a claim is in doubt the text in the editor is that of the window's document, unless a save that waited wrote another's there; a save writes beside no commit or release of a claim; unsaved text is replaced by choice, or after such a save marked it clean |
| `watch` | two documents, two opens, one edit, foreign write and conflict answer, and one command, read or notification of the watcher that fails | what the open file holds in the end was compared with the editor's text, or an error is shown |

Two windows are enough for exclusion, because every rule of the registry relates the caller to one
other holder; two threads for races, because a call only meets the registry as another call left
it.  The sessions need neither a second window nor a link.  Three requests give every merge of
acknowledged ranges and one completion more than the fences hold; four attempts let a request be
given up and handed out again next to another one.  In the trash a bin of three entries or four
units, with documents of one and two, needs zero, one or two evictions, by count, by bytes and by
both.  Two texts are enough for autosave, which only looks at revisions; three let a save write a
text that is neither the current nor the previous one.  `MaxRevision` bounds the edits and
`MaxSaves` the saves of the user; three edits are one before, one during and one after a save.
In `drafts` a crash resets the revision, so seven of them per page leave room for every report a
save can make twice over.

A close needs a second attempt to join, to replace or to be answered for the first, and a second
edit to come while the first is written.  A save of the page before that of an attempt lets a save wait in
the queue (`MaxSaves = 1` bounds only those of the page).  The first version of the settings is written too,
when they are repaired and the repair is tried again, so one change is enough to come beside a write.  `MaxIncidents` is
shared by new requests, failing commands, refused opens, declined prompts, unmounts and reloads:
with two requests there is one thing that goes wrong, with one request two, in every combination.  Six
tokens are more than three incidents can use.  In `documents` and `watch` two documents and two
operations let a late result of the one meet the other (`MaxOpens` counts opens, new documents and opens
given up, `MaxNews` those of the second kind).  What can go wrong is split between them: `documents` has one
claim or write that fails or ends in doubt (`MaxLapses`), anywhere, and `watch` one call, read or
notification of the watcher that fails (`MaxFaults`), anywhere; they bear on different properties.  `watch`
has no saves, because a save may make the worker drop what it read (see the counterexamples), and
no new document, which watches nothing.  Neither run has image files: `documents` changes the list of images,
so that a command of another kind waits before one of an open, and nothing is on it, because what happens to
changes of images is a counterexample too.

`routing` has as many labels as it takes for a new window beside `main` and a retained one, so that
they also run out; two second instances queue for the lock behind the start, and one restart finds
requests of every age on disk.

Symmetry is declared where windows, keys, sessions, operations, threads, launches, documents or texts are
interchangeable, and never in a run with a liveness property; the properties of the other runs are
safety properties (the refinements are `[][Next]_vars` without fairness).  Deadlock is checked in
the claims, requests, trash and drafts runs.  It is off in the others, where the bounds stop the model.

Fairness is assumed where code goes on by itself.  The shell answers every command, so the step an
operation waits for happens; a timer that stays set fires (a user who never stops typing resets it
forever, but only finitely often within the bounds); React renders a component whose state changed and
runs its effects; queues of promises go on.  In `OpenRequestConsumer` a component that was unmounted is
mounted again.  Nothing is
assumed of other programs, of what the user types, or of the outcome of a save or a write: it may fail
every time, which is why `EveryEditIsAttempted` promises an attempt and not a saved file, and
`ChangesAreSettled` and `EveryRequestIsHandled` admit an error that is shown.  Nobody has to answer the
prompt of a close: an attempt ends or waits for the user.  That a save or an open ends once its file is
written or claimed is *not* assumed: it waits for its watch, and when a reload supersedes that wait, for a
later mount of the component (`useFileWorkflow.ts:760-775`; the counterexample `FileWorkflow!OpensEnd`).
Such a save holds up the queue behind it.  `WindowClose!AttemptsEnd` is therefore
stated for behaviours in which no save waits for its watch forever (`[]<>(stage # "watching")`), and
`OpenRequestConsumer!EveryRequestIsHandled` for those in which the editor keeps becoming free
(`[]<>EditorIsFree`): it is ready, no prompt waits for the user forever and no open for its watch.  One
open that never ends leaves every later request of its window in the queue.
`WindowAutosave` leaves such a save out (`WF` on the end of its saves), and its liveness is about the others.

## Proofs

Proved for every value of the constants that satisfies the named assumptions.  Each component has
one module of proofs; `OpenRequests_proofs` also has those about `AcknowledgedRanges`, and
`DocumentSaving_proofs` has those about the document with its autosave (`WindowAutosave`) and with its
drafts (`RecoveryDrafts`).

**`DocumentClaims_proofs`.**  `TypeCorrect`, `IndexAlwaysConsistent`, `DocumentsAreExclusive` and
`WindowsOwnOneDocument` rest on the invariant `TypeOK /\ IndexConsistent /\ OneDocumentPerWindow`.
Exclusion is a consequence of the index: a key maps to one token, and a claim is found under both of
its keys, so two claims cannot share one.  It is therefore the index that has to be inductive, together
with the freshness of tokens, without which a grant could overwrite a claim.  The helpers that remove,
rebind and grant claims have a lemma each; an action combines them.  `OwnershipImplemented` shows the
refinement: every step is a step of `DocumentOwnership` or none, by the same lemmas.  The second
half is about sessions.  `SessionsAlwaysFence` makes `SessionsFenceClaims` inductive (`Fenced`) by what
the calls in progress remember: a call names an operation of a session that was once current
(`CallsNameOperations`), and no generation the registry will hand out was seen before
(`GenerationsAreFresh`).  From there follow `TakeoversAreExact`, `OwnershipOutlivesSessions` and
`ReleasedOperationsStay`.  `IoIsConfined` needs that a checked operation leads to a claimed file for as
long as its path is not retargeted (`IoWasChecked`), which lasts because the lock keeps every other call
from the registry until the operation has run.

**`OpenRequests_proofs`.**  `SearchIsCover` (the binary search answers what the ranges cover) and
`AcknowledgeAddsOne` (the insertion keeps the list sorted, disjoint and merged and adds exactly one
sequence) hold for lists of any length.  The invariant of the service is `Typed /\ Stored /\
KnownAreFenced`: the image and the file each pass validation, they differ by applications only, and
the token of an attempt that was handed out stands for nothing else in the image.  It gives
`RegistryAlwaysLoads`, `CrashesForgetLittle`, `AttemptsAlwaysFenced`, `AttemptsAlwaysKept` and the
refinement `HandoffImplemented`.  Validation is in the invariant because a transaction that left an
image the next start refuses would lose every request; the ranges' lemmas are what the step that
acknowledges needs.

**`Trash_proofs`.**  `NothingListedIsLost` is not inductive: a step that deletes a file is harmless
only because of what its operation has not done yet, which is what `TransactionsAreUndoable` records
for each phase (`ListedIsNeverLost`, `OperationsAreUndoable`).  `BinAlwaysWithinLimits` needs that the
list an operation will write fits from the step that chose its victims on (`Planned`); the sum of sizes
is a fold, and what it adds up to is shown by the least counterexample, since induction over an
operator is not available.  `BinImplemented` is the refinement of `TrashBin`: the list changes
in the step that replaces the manifest and in no other.

**`DocumentSaving_proofs`.**  The first half is about autosave.  `UnqueuedSavesAreHonest`: with one
save at a time, while nothing dirtied the document since the save began, its text is the one being
written or the one of the save point; an edit that returns to the save point does not advance the
revision, which is why the second case is needed.  The assumption `MaxSaves = 1` cannot be dropped:
`saves_queued` is its counterexample.  `AutosaveTyped` and `EditsAlwaysAttended` rest on `Careful`: the
scheduler's latest revision is the store's, what it attempts is what the session says is attempted, its
active save and the queue describe each other, and revisions end with the edits and saves that are
left.  That an edit is attended follows only after the effects of the last render ran, so the
invariant says what is owed before that.

The second half is about drafts: `DraftsRecover`, `DraftsAreCurrent` and `RecoveryIsHonest`, under
`MaxSaves = 1`, for any texts, edits, changes of document and crashes.  `UnsavedTextIsRecoverable` and
`NothingStaleIsOffered` are not inductive: a step that drops the draft is harmless because the
document is clean by then, and clean means saved, so the argument of `UnqueuedSavesAreHonest` is made
again for the larger set of actions (`DraftHonest`, `Untouched`).  What is new is `Offer`: until an
offer is answered the document is a saved one, no save runs, and a document that got a path still
awaits the watch whose end drops the offer.  The inductive invariant is `DraftSafe`, with these parts.

**`OpenRequestConsumer_proofs`.**  `DeliveriesAreKept` and `RequestsAreOpenedOnce` follow from one
invariant, `Consistent`, which `PageAndShellAgree` states.  That nothing seen is stranded (`Held`) is not
inductive.  An attempt leaves a set of the page when its answer arrives, and that loses nothing only
because the answer is still true of the shell by then (`Told`), because a command is about an attempt
the operation at the head of the bridge has still to do (`Chain`, `Sent`), and because the page knows no
token the shell has not handed out (`Past`).  That a request is opened once needs more, and has it only
while the first component of a page is mounted (`Fresh`): an attempt that waits is one the shell works on,
was not opened, is not on its way back, and waits in one place.  An unmount gives back attempts the
page may be opening, so `Fresh` ends there; what is left of it, that the one open under way is the first of
its request, is `Once`, and lasts until the next component is mounted (the known counterexamples
show what happens then).  Adopting a delivery, a recovery and a claim are folds over the set of
attempts the shell delivered.  `FoldsExist` and `FoldsKeep` show, by the least number of steps a
counterexample would take, that what each step of a fold keeps the fold keeps; `ClaimsKeep`
and `RecoveryKeeps` apply them to the runtime record.  `ConsumerAssumption` asks for a finite set of
requests and a `NoAttempt` that is none of the attempts.

**`WindowClose_proofs`.**  The invariant has three parts.  `Store` is about the settings of the page:
nothing is written before the file was read (`Hydration`), one write runs at a time (`OneWrite`), and the
newest version is pending, or else being written, or else in the file (`Newest`).  `Document` is about
the file and the queue of saves: texts wait in the order they were captured in, none older than the file
(`CapturedInOrder`), so the file never goes back; and a clean text is in the file or was missed by the save
that marked it (`CleanIsKept`).  `Closing` is about the attempts: one that has gone on to the settings has
the text of its decision kept (`DocumentsFirst`), and one that destroys the window has its settings on disk
too (`SettingsNext`).  It
gives `WorkOutlivesWindows`, `UnreadSettingsStay` and `FileGoesOnward`.

**`WindowRouting_proofs`.**  The invariant is `TypeOK` with `Exclusive` (one worker has the lock),
`LabelsLeave`, `WorkersAreCurrent` (windows and requests a worker read of may have gone meanwhile, but
none has come), `UnfilledIsHeld` (a window made for a file is in the hands of the worker that made it),
`TargetsAreKnown` (a retained request waits in a window the process had) and `StartComesFirst`.  That
the labels a worker read of are still all there are rests on the lock, and that the requests' are on the
start being over, which is why neither of `LabelsAlwaysFresh` and `RoutesAlwaysComplete` stands alone.

**`FileWorkflow_proofs`.**  The invariant is `Consistent`.  `Settled` says that the window has the claim of
the document it shows until a claim is in doubt.
`OpensAreSeen` and `SavesExclude` are why a write and a commit exclude each other although they are not
in one queue (`WritesStayAlone`): an operation that cannot be taken back is the newest and holds the
transition, an operation begins only while there is none, and a save goes on writing only if none
began since it started; then the path and the claim stay what they were.  A reservation whose outcome is
unknown, or its release, may block the window beside a write, so nothing is said of `flow.blocked`.
`ReplacementsAreAwaited` and `CommandsAreAwaited` say whose answer a call to the watcher waits for, without
which the end of a call could finish an open or a save that is elsewhere.

The other two theorems rest on `PageChanges`: every step leaves the text in the editor alone, is an
edit, reads the open file, applies an open, begins an untitled document, or keeps the text and marks it
unsaved.  For `TextsAreOfDocuments`, `Traced` follows a text on its way: what a file holds, what an open
has read, and what the editor shows is the document's own or that of a save recorded in
`past.strays`, which only grows; and doubt is never lifted (`DoubtStays`).  For `UnsavedTextStays`, `Truthful`
says that text which is not the save point is dirty, or was marked clean by a save that had waited
(`passed`), from which a step that replaces it must be one of the user's.  The watcher itself may do anything
its module allows.

Every invariant and action property the runs check is proved.  What is not proved is checked by TLC on
the instances above: the liveness properties (`EveryEditIsAttempted`, `FlushEnds`,
`EveryRequestIsHandled`, `ChangesAreNoticed`, `AttemptsEnd`, `ChangesAreSettled`), which need fairness and
with it are out of the prover's reach.

## Findings

* `saves_queued`: a save captures its text when it is requested and reads the dirty revision when it
  begins.  When it waited behind another save and the user typed meanwhile, its result marks the
  document clean although the edit was not written.

## Known counterexamples

The modules also state properties the code does not have, under a heading that says so.  No run
checks them; the constants below show each of them violated, with the specification named, and
everything that is not named set to zero, empty or `FALSE`.

| property | instance | what happens |
|---|---|---|
| `RecoveryDrafts!OffersAreAnswered` | that of `drafts` | The dialog of a found draft blocks the page, but not the shortcuts of the window (`useGlobalCommandShortcuts.ts:119`).  Ctrl+N, Ctrl+O or Ctrl+Shift+S changes the untitled document, `onDocumentBecameSafe` clears the draft, and the dialog is gone: the only copy of the text is lost without an answer.  ADR 0004 says the dialog `must not be dismissed via Escape or overlay click to skip the choice`. |
| `RecoveryDrafts!TypedTextIsRecoverable` | that of `drafts` | New drops the draft after it awaited the end of the old watch (`useFileWorkflow.ts:1710`), whatever was typed meanwhile; other than an open and a save it does not ask whether the document is still clean.  A crash before the next edit loses the text.  `UnsavedTextIsRecoverable` excepts this case by the history variable `exposed`. |
| `DocumentSaving!CleanMeansSaved` | `saves_queued` | See Findings. |
| `DocumentClaims!DestroyedWindowHoldsNothing` | `Spec`; one window, session, operation, key and thread, no alias, `MaxSequence = 4`, `MaxGeneration = 3` | `reserve` resolves its path without the lock and then begins a session for a window that has none (`document_claim_service.rs:410`).  When the window is destroyed meanwhile, the dead window ends up with a claim that nothing releases, and every other window is refused the document until a window of that label is made again. |
| `DocumentClaims!IoNeverLeavesTheClaim` | that of `claims` | The operation opens the canonical path by name after it was checked (`document_claim_service.rs:623-629`); when that path is made a link in between, it reads or writes a file no window claimed.  The doc comment of `with_validated_operation_io` says it runs "against the canonical target protected by an active claim". |
| `WindowRouting!OneWindowPerDocument` | that of `routing` | A file can wait in one window while another opens it from its dialog, and is then asked for again (`desktop_window_service.rs:224-240` looks at the owner first).  With requests retained for two windows the next launch of the file ends in `target_window_ambiguous` (`open_request_service.rs:239`) and the file is not opened.  DETAILED_ARCHITECTURE.md:667 says `The same validated identity may have only one window owner across claim, retained request, and concurrent launch`. |
| `WindowRouting!BlankMainIsBlank` | that of `routing` | The start gives its file to `main` unless a request is retained for it (`desktop_window_service.rs:268`), whatever claim `main` has: a document of the restored session, or one the user opened while the start was routing, is replaced.  ADR 0009 asks that `main` has no claim either. |
| `WindowRouting!OnlyEmptyWindowsAreTakenBack` | that of `routing` | A window whose enqueue failed is destroyed (`desktop_window_service.rs:506`) although its page may have opened a document since it was made.  DETAILED_ARCHITECTURE.md:671 says `destroy only that empty window`. |
| `FileWorkflow!SavesWriteTheirDocument` | `Spec`; two documents, one content, one write, two opens, one save | `saveCurrentFile` captures the text when it is called (`useFileWorkflow.ts:1963`) and reads the path when its turn comes (`:1980`); opens are not in the queue.  A save that waits behind a reload while another document is opened writes the first document's text to the second one's file.  `TextIsOfItsDocument` excepts what is read from such a file. |
| `FileWorkflow!DoubtedClaimsAreNotWritten` | `Spec`; two documents, one content, two opens, one save, one lapse | The reservation of an open that was superseded, or its release in `finally`, may end in doubt while a save writes (`useFileWorkflow.ts:1093-1099`, `:1392-1417`): it blocks the window, but the save has read the block before (`:1965`) and goes on. |
| `FileWorkflow!OpensEnd` | `LiveSpec`; one document, two contents and writes, one open | `replaceWatchedDocument` answers `superseded` when a reload overtakes its read (`useExternalFileWatch.ts:204`); the open then waits for a later mount of the component (`useFileWorkflow.ts:760-775`), which need not come, and every later save returns at once (`:1975`). |
| `FileWorkflow!ChangesAreNoticed` | `LiveSpec`; one document, two contents, one write, open, edit and save | `invalidate_registry_once` drops what the worker read when the registry changed meanwhile (`file_watch_service.rs:770`), also when it was `record_document_saved` that changed it: another program's write that races a save is never reported. |
| `FileWorkflow!ReportsCount` | `Spec`; `MayRepeat = TRUE`, one document, two contents and writes, one open, edit and save | The page remembers the last change it acknowledged (`useExternalFileWatch.ts:313`) across its own saves: when another program restores that content, the report is ignored and the editor stays clean over a different file. |
| `FileWorkflow!ImagesAreNoticed` | `LiveSpec`; one document and image, two contents, one write, open and list of images | `replace_images` reads the images that stay on the list again (`file_watch_service.rs:199`), so that a change not yet reported is taken for known. |
| `FileWorkflow!RevisionsRise` | `Spec`; one document and image, two contents and writes, one open | `update_registry` numbers its events under the lock and hands them to the worker after it (`file_watch_service.rs:709`); the worker may send later ones first, and the page drops the older (`useExternalFileWatch.ts:251`). |
| `OpenRequestConsumer!OpenedTwice` = {} across remounts | one request; an unmount and a mount | A claim answered after its component was unmounted gives back an attempt the page is opening (`useDesktopOpenRequests.ts:428`); the next component claims and opens it again. |
| `WindowClose!OneCloseAtATime` | two attempts, one edit, one change | Every render makes a new guard (`useDocumentCloseController.ts:26`, whose default `bypass` is a new function) and a new coordinator, so a second request does not join the first. |
| `WindowClose!ClosedTextIsKept` | that of `close` | Nothing keeps the user from typing while an allowed close awaits the settings and the destruction (`appCloseCoordinator.ts:54-64`): the edit goes with the window. |
| `WindowClose!CleanIsWritten` | that of `close` | A save that waited in the queue marks clean what it did not write (the finding of `saves_queued`), and the guard reads the mark alone (`documentCloseGuard.ts:32`, `documentSaveOutcome.ts:53`): the close goes on without asking.  `ClosedWorkIsKept` excepts exactly these texts. |
| `WindowClose!NoPromptIsReplaced` | that of `close` | For the same reason as `OneCloseAtATime`, a second attempt can ask while the first does, and `pendingChoice` has one place (`useDocumentCloseController.ts:66-70`): the first is never answered.  `AttemptsEnd` excepts it. |
| `WindowClose!DestroyedAfterFlush` | two attempts, one edit, one change | For the same reason every render removes the listener of native close requests until the new one is registered (`useAppCloseCoordinator.ts:49`); a native close in between destroys the window with settings or edits unsaved. |

## Plan

Modelled so far, in the order of what a fault would cost: the claim registry (two windows on one
file lose data), the durable open requests (a crash loses or repeats a file the user opened), the
trash (the last copy of a deleted document), saving and autosave (an edit that is taken for saved),
closing and the settings, the consumer of open requests, the file workflow with its watch, the recovery
drafts, and the window routing.  Next:

1. A component that is replaced while an operation runs, renames, removals and Save As in `FileWorkflow`.
2. The retries of `documentClaimClient.ts` over `DocumentClaims`.
3. The automation host's idle timeout; workspace mutations against claims; recent files.

Proofs, next: that the shell which `OpenRequestConsumer` assumes is what one window sees of
`OpenRequests`.

## What is not modelled

`PROJECT.json` gives the reason for each component.  In short: workspace mutations, recent files
and the automation host, which the plan names or which come after it; pipelines without state over
time (assets, packages, export, rendering); sequential text transformations of the editor; wiring,
menus, layout and diagnostics.
