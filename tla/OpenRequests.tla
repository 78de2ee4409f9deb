---------------------------- MODULE OpenRequests ----------------------------
(***************************************************************************)
(* The durable open-request service                                        *)
(* (src-tauri/src/services/open_request_service.rs) over the lifecycle it  *)
(* drives (open_request_lifecycle.rs).  A file the operating system asks   *)
(* the application to open becomes a request for one window; the page in   *)
(* that window claims it, opens the file, records that it did and          *)
(* acknowledges.                                                           *)
(*                                                                         *)
(* The registry is one image in memory behind a mutex and one file.  Every *)
(* operation is a transaction: it changes the image, writes the whole file *)
(* and, when the write fails, either takes its change back or keeps it in  *)
(* memory and marks the file as behind.  The process may stop between any  *)
(* two transactions; the file is replaced atomically.                      *)
(***************************************************************************)
EXTENDS AcknowledgedRanges, FiniteSets

CONSTANTS
  Windows,      \* window labels; the label is also the owner of its deliveries
  Keys,         \* path identity keys
  MaxSequence,  \* u64::MAX of the request sequence: never reached by a next value
  MaxAttempt,   \* u64::MAX of the attempt sequence
  MaxFences,    \* MAX_RECENT_COMPLETION_FENCES
  NoRecord, NoRequest, NoFile

ASSUME LimitAssumption ==
  /\ MaxSequence \in Nat /\ MaxSequence >= 2
  /\ MaxAttempt \in Nat /\ MaxAttempt >= 2
  /\ MaxFences \in Nat \ {0}

VARIABLES
  image,  \* OpenRequestRuntime without its dirty mark
  dirty,  \* persistence_dirty
  disk,   \* the document in open-requests.json, or NoFile
  known   \* the attempts that were handed to a page of this process

vars == <<image, dirty, disk, known>>

-----------------------------------------------------------------------------
(* Types.                                                                  *)

Sequences == 0 .. (MaxSequence - 2)
Attempts  == 0 .. (MaxAttempt - 2)

\* LifecycleRecord.  A record has its payload, which names the window, until it is applied.
Queued(w)        == [state |-> "queued", window |-> w]
Processing(w, t) == [state |-> "processing", window |-> w, token |-> t]
Applied(w, t)    == [state |-> "applied", window |-> w, token |-> t]

Record == {Queued(w) : w \in Windows}
            \cup {Processing(w, t) : w \in Windows, t \in Attempts}
            \cup {Applied(w, t) : w \in Windows, t \in Attempts}

\* The lexical and the resolved key of a path; they may be the same.
Identities == {{k, l} : k \in Keys, l \in Keys}

Request == [window : Windows, keys : Identities]
Fence   == [sequence : Sequences, window : Windows, token : Attempts]
Attempt == [window : Windows, sequence : Sequences, token : Attempts]

\* The lifecycle snapshot, retained_requests and next_request_id.
Image ==
  [records : [Sequences -> Record \cup {NoRecord}], ranges : Seq(AckRange),
   fences : Seq(Fence), retained : [Sequences -> Request \cup {NoRequest}],
   nextSequence : 0 .. (MaxSequence - 1), nextAttempt : 0 .. (MaxAttempt - 1),
   nextRequestId : 0 .. (MaxSequence - 1)]

ASSUME NullAssumption ==
  NoRecord \notin Record /\ NoRequest \notin Request /\ NoFile \notin Image

Empty ==
  [records |-> [s \in Sequences |-> NoRecord], ranges |-> <<>>, fences |-> <<>>,
   retained |-> [s \in Sequences |-> NoRequest],
   nextSequence |-> 0, nextAttempt |-> 0, nextRequestId |-> 0]

-----------------------------------------------------------------------------
(* Reading an image.                                                       *)

InState(d, s, state) == d.records[s] # NoRecord /\ d.records[s].state = state
Recorded(d) == {s \in Sequences : d.records[s] # NoRecord}
Retained(d) == {s \in Sequences : d.retained[s] # NoRequest}
Tried(d)    == {s \in Recorded(d) : d.records[s].state # "queued"}
FenceIds(d) == 1 .. Len(d.fences)

\* validate_snapshot: the records and the acknowledged ranges share out all sequences below
\* the next one, and no token stands for two attempts.
SequencesShared(d) ==
  /\ WellFormed(d.ranges)
  /\ \A i \in 1 .. Len(d.ranges) : d.ranges[i].end <= d.nextSequence
  /\ \A s \in Sequences :
       IF s < d.nextSequence THEN s \in Recorded(d) <=> ~IsAcknowledged(d.ranges, s)
                             ELSE s \notin Recorded(d)
TokensUnique(d) ==
  /\ \A s \in Tried(d) : d.records[s].token < d.nextAttempt
  /\ \A i \in FenceIds(d) : d.fences[i].token < d.nextAttempt
  /\ \A s, u \in Tried(d) : d.records[s].token = d.records[u].token => s = u
  /\ \A i, j \in FenceIds(d) : d.fences[i].token = d.fences[j].token => i = j
  /\ \A s \in Tried(d), i \in FenceIds(d) : d.records[s].token # d.fences[i].token
FencesValid(d) ==
  /\ Len(d.fences) <= MaxFences
  /\ \A i \in FenceIds(d) : IsAcknowledged(d.ranges, d.fences[i].sequence)
  /\ \A i, j \in FenceIds(d) : d.fences[i].sequence = d.fences[j].sequence => i = j
ValidSnapshot(d) ==
  /\ d.nextSequence # MaxSequence /\ d.nextAttempt # MaxAttempt
  /\ SequencesShared(d) /\ TokensUnique(d) /\ FencesValid(d)

\* MUTANT of Requeued: what a page had applied is offered again as well.
RequeuedTried(r) == IF r # NoRecord /\ r.state # "queued" THEN Queued(r.window) ELSE r

\* restore_cold: after a restart no page is working on anything.
Requeued(r) == IF r # NoRecord /\ r.state = "processing" THEN Queued(r.window) ELSE r
Cold(d) == [d EXCEPT !.records = [s \in Sequences |-> Requeued(d.records[s])]]

\* validate_loaded_runtime: the retained requests are exactly the recorded ones, for the same
\* window, and a window is asked for a file once.
RetainedValid(d) ==
  /\ d.nextRequestId = d.nextSequence
  /\ \A s \in Recorded(d) : s \in Retained(d) /\ d.retained[s].window = d.records[s].window
  /\ Retained(d) \subseteq Recorded(d)
  /\ \A s, u \in Retained(d) :
       s # u /\ d.retained[s].window = d.retained[u].window
         => d.retained[s].keys \cap d.retained[u].keys = {}
Loadable(d) == ValidSnapshot(d) /\ RetainedValid(Cold(d))

\* What the process starts from when it finds the file, or none.
Loaded(file) == IF file = NoFile THEN Empty ELSE Cold(file)

-----------------------------------------------------------------------------
(* Transactions.                                                           *)

\* MUTANT of RollBack: a change that could not be written stays in memory.
KeepInMemory(after) == image' = after /\ UNCHANGED <<dirty, disk>>

(* transaction_with_policy, for an operation that turns the image into `after`.  The backup it *)
(* takes is validated like a loaded snapshot.  Every operation reports a mutation exactly when *)
(* it changed the image.  `ok` is whether the file could be written.                           *)
RollBack(after)       == UNCHANGED <<image, dirty, disk>>
RetainMutation(after) == image' = after /\ dirty' = TRUE /\ UNCHANGED disk
Saved(after)          == image' = after /\ dirty' = FALSE /\ disk' = after

Writes(after) == after # image \/ dirty

Transaction(after, ok) ==
  /\ ValidSnapshot(image)
  /\ IF ~Writes(after) THEN ok /\ UNCHANGED <<image, dirty, disk>>
     ELSE IF ok THEN Saved(after) ELSE RollBack(after)

RetainingTransaction(after, ok) ==
  /\ ValidSnapshot(image)
  /\ IF ~Writes(after) THEN ok /\ UNCHANGED <<image, dirty, disk>>
     ELSE IF ok THEN Saved(after) ELSE RetainMutation(after)
-----------------------------------------------------------------------------
(* Operations.                                                             *)

Init ==
  /\ image = Empty
  /\ dirty = FALSE
  /\ disk = NoFile
  /\ known = {}

\* A window that retains a request for the file is not asked again, whatever its spelling.
Overlapping(w, keys) ==
  \E s \in Retained(image) : /\ image.retained[s].window = w
                             /\ image.retained[s].keys \cap keys # {}

Enqueued(w, keys) ==
  LET s == image.nextSequence
  IN [image EXCEPT !.records[s] = Queued(w),
                   !.retained[s] = [window |-> w, keys |-> keys],
                   !.nextSequence = s + 1,
                   !.nextRequestId = image.nextRequestId + 1]

\* enqueue_path_for_identity
Enqueue(w, keys, ok) ==
  /\ ~Overlapping(w, keys) => image.nextSequence + 1 # MaxSequence
  /\ Transaction(IF Overlapping(w, keys) THEN image ELSE Enqueued(w, keys), ok)
  /\ UNCHANGED known

\* claim_for_window.  Its leases end with the process, so recover_expired_leases finds none.
Waiting(w)  == {s \in Recorded(image) : image.records[s] = Queued(w)}
Underway(w) == {s \in Recorded(image) : InState(image, s, "processing")
                                          /\ image.records[s].window = w}

\* MUTANT of TokenFor: one token for the whole batch.
FirstToken(w, s) == image.nextAttempt

\* The queued requests get fresh tokens in the order of their sequences.
TokenFor(w, s) == image.nextAttempt + Cardinality({u \in Waiting(w) : u < s})
TokensLeft(w) == image.nextAttempt + Cardinality(Waiting(w)) < MaxAttempt
Claimed(w) ==
  [image EXCEPT
     !.records = [s \in Sequences |-> IF s \in Waiting(w) THEN Processing(w, TokenFor(w, s))
                                      ELSE image.records[s]],
     !.nextAttempt = image.nextAttempt + Cardinality(Waiting(w))]

\* The attempts a claim returns: the page's own again, with their tokens, and the new ones.
Deliveries(d, w) ==
  {[window |-> w, sequence |-> s, token |-> d.records[s].token] :
     s \in {u \in Recorded(d) : InState(d, u, "processing") /\ d.records[u].window = w}}

Claim(w, ok) ==
  /\ TokensLeft(w)
  /\ Transaction(Claimed(w), ok)
  /\ known' = IF ok THEN known \cup Deliveries(Claimed(w), w) ELSE known

\* recover_for_window: what the window applied and did not get acknowledged.
Recover(w) ==
  /\ known' = known \cup
       {[window |-> w, sequence |-> s, token |-> image.records[s].token] :
          s \in {u \in Recorded(image) : InState(image, u, "applied")
                                           /\ image.records[u].window = w}}
  /\ UNCHANGED <<image, dirty, disk>>

\* MUTANT of IsAttempt: any attempt at the request counts as the current one.
IsAnyAttempt(a, state) ==
  InState(image, a.sequence, state) /\ image.records[a.sequence].window = a.window

\* The owner and the token of a call must be those of the record.
IsAttempt(a, state) ==
  /\ InState(image, a.sequence, state)
  /\ image.records[a.sequence].window = a.window
  /\ image.records[a.sequence].token = a.token

\* A retry of what the lifecycle has completed: the recent fence must match, older sequences
\* only have to be acknowledged.
FencesOf(s) == {i \in FenceIds(image) : image.fences[i].sequence = s}
CompletedBefore(a) ==
  /\ a.sequence \notin Recorded(image)
  /\ IsAcknowledged(image.ranges, a.sequence)
  /\ \A i \in FencesOf(a.sequence) :
       image.fences[i].window = a.window /\ image.fences[i].token = a.token

WithRecord(s, r) == [image EXCEPT !.records[s] = r]

\* record_applied: an error is a call that changes nothing, so only accepted calls are steps.
RecordApplied(a, ok) ==
  /\ \/ /\ IsAttempt(a, "processing")
        /\ RetainingTransaction(WithRecord(a.sequence, Applied(a.window, a.token)), ok)
     \/ /\ IsAttempt(a, "applied") \/ CompletedBefore(a)
        /\ RetainingTransaction(image, ok)
  /\ UNCHANGED known

\* The oldest fence makes room.
Fenced(fences, f) ==
  IF Len(fences) = MaxFences THEN Append(Tail(fences), f) ELSE Append(fences, f)

Acknowledged(a) ==
  [image EXCEPT !.records[a.sequence] = NoRecord,
                !.retained[a.sequence] = NoRequest,
                !.ranges = Acknowledge(image.ranges, a.sequence),
                !.fences = Fenced(image.fences,
                  [sequence |-> a.sequence, window |-> a.window, token |-> a.token])]

\* acknowledge
AcknowledgeCompletion(a, ok) ==
  /\ \/ /\ IsAttempt(a, "applied")
        /\ a.sequence \in Retained(image)
        /\ Transaction(Acknowledged(a), ok)
     \/ /\ CompletedBefore(a)
        /\ Transaction(image, ok)
  /\ UNCHANGED known

\* abandon: a request that is queued again is left alone, whoever asks.
Abandon(a, ok) ==
  /\ \/ /\ IsAttempt(a, "processing")
        /\ Transaction(WithRecord(a.sequence, Queued(a.window)), ok)
     \/ /\ InState(image, a.sequence, "queued")
        /\ Transaction(image, ok)
  /\ UNCHANGED known

\* release_window, on the Destroyed event.
ReleaseWindow(w, ok) ==
  /\ RetainingTransaction(
       [image EXCEPT !.records = [s \in Sequences |->
          IF s \in Underway(w) THEN Queued(w) ELSE image.records[s]]], ok)
  /\ UNCHANGED known

\* The process stops and starts again; load_runtime refuses a file it cannot validate.
Restart ==
  /\ disk # NoFile => Loadable(disk)
  /\ image' = Loaded(disk)
  /\ dirty' = FALSE
  /\ known' = {}
  /\ UNCHANGED disk

Next ==
  \/ \E w \in Windows, keys \in Identities, ok \in BOOLEAN : Enqueue(w, keys, ok)
  \/ \E w \in Windows, ok \in BOOLEAN : Claim(w, ok) \/ ReleaseWindow(w, ok)
  \/ \E w \in Windows : Recover(w)
  \/ \E a \in known, ok \in BOOLEAN :
       RecordApplied(a, ok) \/ AcknowledgeCompletion(a, ok) \/ Abandon(a, ok)
  \/ Restart

Spec == Init /\ [][Next]_vars

-----------------------------------------------------------------------------
(* Properties.                                                             *)

\* The image passes the validation every transaction begins with, and the file the one the
\* process starts with: no sequence of calls, failed writes and crashes leaves the service
\* refusing everything or the application unable to start.
RegistryNeverWedges ==
  /\ Loadable(image)
  /\ disk # NoFile => Loadable(disk)

\* The file is behind the memory by no more than it says: nothing at all unless the image is
\* dirty, and then only by requests a window applied while the file still has them in hand.
ApplicationUnsaved(s) ==
  /\ InState(image, s, "applied")
  /\ disk # NoFile
  /\ InState(disk, s, "processing")
  /\ disk.records[s].token = image.records[s].token
CrashForgetsOnlyApplications ==
  LET loaded == Loaded(disk)
      now    == Cold(image)
  IN /\ [loaded EXCEPT !.records = now.records] = now
     /\ \A s \in Sequences : loaded.records[s] # now.records[s] => dirty /\ ApplicationUnsaved(s)

\* An attempt handed to a page is on disk before, so no later attempt of this or a later
\* process gets its token; and the token stands for that page and that request only.
AttemptsAreFenced ==
  \A a \in known :
    /\ a.token < Loaded(disk).nextAttempt
    /\ \A s \in Tried(image) : image.records[s].token = a.token
         => s = a.sequence /\ image.records[s].window = a.window
    /\ \A i \in FenceIds(image) : image.fences[i].token = a.token
         => image.fences[i].sequence = a.sequence /\ image.fences[i].window = a.window

\* A request keeps its attempt until it is queued again: a page that is reloaded and claims
\* again gets the same attempt back, and a late answer to an attempt that was given up is
\* never taken for an answer to the one that replaced it.
AttemptsAreKept ==
  [][\A s \in Tried(image) \cap Tried(image') :
       image'.records[s].token = image.records[s].token]_vars

\* The service implements the handoff it promises.
StageOf(s) ==
  IF IsAcknowledged(image.ranges, s) THEN "done"
  ELSE IF s \notin Recorded(image) THEN "unborn"
  ELSE IF image.records[s].state = "applied" THEN "applied" ELSE "waiting"
Handoff == INSTANCE OpenRequestHandoff WITH
  Requests <- Sequences,
  stage    <- [s \in Sequences |-> StageOf(s)],
  unsaved  <- {s \in Sequences : ApplicationUnsaved(s)}
ImplementsHandoff == Handoff!Spec
=============================================================================
