-------------------------- MODULE WindowClose_proofs --------------------------
(***************************************************************************)
(* Proofs about the closing of a window and the settings it flushes: the   *)
(* store never writes what it could not read and never goes back, and a    *)
(* window that an attempt destroyed had its document and its settings      *)
(* kept.                                                                   *)
(***************************************************************************)
EXTENDS WindowClose, TLAPS

-----------------------------------------------------------------------------
(* The settings store.                                                     *)

StoreTyped ==
  /\ load \in Hydrating \cup {"ready", "failed"}
  /\ blocked \in BOOLEAN /\ timer \in BOOLEAN
  /\ settings \in Nat
  /\ pending \in Nat \cup {None}
  /\ file \in Nat \cup {Foreign}

\* Nothing is written, and no timer runs, before the settings were read; a store that may not
\* write has no write underway.
Hydration ==
  /\ load = "reading" => /\ ~blocked /\ settings = 0 /\ writing = {}
                         /\ file \in {0, Foreign}
  /\ load \in {"repairing", "migrating"} => ~blocked /\ writing = {settings}
  /\ load \in Hydrating => ~timer /\ pending = None
  /\ file = Foreign => load = "reading" \/ blocked
  /\ blocked => writing = {}

\* One write runs at a time, of a version between the file's and the store's.
OneWrite ==
  /\ file <= settings
  /\ writing = {} \/ \E v \in Nat : writing = {v} /\ file <= v /\ v <= settings

\* The newest version is pending, or else being written, or else in the file.
Newest ==
  ~blocked /\ load # "reading" =>
    IF pending # None THEN pending = settings
    ELSE IF writing # {} THEN writing = {settings} ELSE file = settings

Store == StoreTyped /\ Hydration /\ OneWrite /\ Newest

\* The store as the page makes it.
LEMMA StoreInitially == SettingsInit => Store
<1> SUFFICES ASSUME SettingsInit PROVE Store
  OBVIOUS
<1>1. StoreTyped
  <2>1. load = "reading" /\ blocked = FALSE /\ timer = FALSE /\ settings = 0
    BY DEF SettingsInit
  <2>2. pending = None /\ file \in Nat \cup {Foreign}
    BY DEF SettingsInit
  <2> QED
    BY <2>1, <2>2 DEF StoreTyped, Hydrating
<1>2. Hydration /\ Newest
  BY DEF SettingsInit, Hydration, Newest, None, Foreign, Hydrating
<1>3. OneWrite
  BY DEF SettingsInit, OneWrite, Foreign
<1> QED
  BY <1>1, <1>2, <1>3 DEF Store

\* Hydration ends with the settings of the file, with what could not be written pending, or
\* with a store that may not write.
LEMMA HydrateKeepsStore ==
  ASSUME Store, Hydrate
  PROVE  Store'
<1> USE DEF None, Foreign, Hydrating
<1>1. CASE ReadSettings
  <2>1. StoreTyped' /\ Hydration'
    BY <1>1 DEF Store, StoreTyped, Hydration, ReadSettings
  <2>2. OneWrite'
    BY <1>1 DEF Store, StoreTyped, Hydration, OneWrite, ReadSettings
  <2>3. Newest'
    BY <1>1 DEF Store, StoreTyped, Hydration, Newest, ReadSettings
  <2> QED
    BY <2>1, <2>2, <2>3 DEF Store
<1>2. CASE ReadFails
  BY <1>2 DEF Store, StoreTyped, Hydration, OneWrite, Newest, ReadFails, Discard
<1>3. CASE MigrationFails
  BY <1>3 DEF Store, StoreTyped, Hydration, OneWrite, Newest, MigrationFails, Discard
<1>4. ASSUME NEW ok \in BOOLEAN, HydrationWrites(ok)
      PROVE  Store'
  <2>1. load \in {"repairing", "migrating"} /\ load' = "ready" /\ writing' = {}
    BY <1>4 DEF HydrationWrites
  <2>2. StoreTyped' /\ Hydration'
    BY <1>4, <2>1 DEF Store, StoreTyped, Hydration, HydrationWrites
  <2>3. OneWrite'
    BY <1>4, <2>1 DEF Store, StoreTyped, Hydration, OneWrite, HydrationWrites
  <2>4. Newest'
    BY <1>4, <2>1 DEF Store, StoreTyped, Hydration, Newest, HydrationWrites
  <2> QED
    BY <2>2, <2>3, <2>4 DEF Store
<1> QED
  BY <1>1, <1>2, <1>3, <1>4 DEF Hydrate

\* A flush starts the drain with what is pending, or leaves it to the drain that runs.
LEMMA FlushKeepsStore ==
  ASSUME NEW next, Store, FlushPending(next), load \notin Hydrating,
         next = pending \/ (pending = None /\ next = settings)
  PROVE  Store'
<1> USE DEF None, Foreign, Hydrating
<1>1. StoreTyped' /\ Hydration'
  BY DEF Store, StoreTyped, Hydration, FlushPending, Drain
<1>2. OneWrite'
  <2>1. CASE writing' = writing
    BY <2>1 DEF Store, OneWrite, FlushPending
  <2>2. CASE writing' # writing
    <3>1. ~blocked /\ writing = {} /\ next # None /\ writing' = {next}
      BY <2>2 DEF FlushPending, Drain
    <3>2. next \in Nat /\ next = settings
      BY <3>1 DEF Store, StoreTyped, Newest
    <3>3. file' = file /\ settings' = settings
      BY DEF FlushPending
    <3> QED
      BY <3>1, <3>2, <3>3 DEF Store, OneWrite
  <2> QED
    BY <2>1, <2>2
<1>3. Newest'
  BY DEF Store, StoreTyped, Hydration, OneWrite, Newest, FlushPending, Drain
<1> QED
  BY <1>1, <1>2, <1>3 DEF Store

\* A change makes a version that is pending.
LEMMA UpdateKeepsStore ==
  ASSUME Store, UpdateSettings
  PROVE  Store'
<1> USE DEF None, Foreign, Hydrating
<1>1. StoreTyped'
  <2>1. settings + 1 \in Nat /\ pending \in Nat \cup {None} /\ timer \in BOOLEAN
    BY DEF Store, StoreTyped
  <2>2. settings' = settings + 1
    BY DEF UpdateSettings
  <2>3. \/ pending' = settings + 1 /\ timer' = TRUE
        \/ pending' = pending /\ timer' = timer
    BY DEF UpdateSettings
  <2>4. load' = load /\ blocked' = blocked /\ file' = file
    BY DEF UpdateSettings
  <2> QED
    BY <2>1, <2>2, <2>3, <2>4 DEF Store, StoreTyped
<1>2. Hydration' /\ OneWrite'
  BY DEF Store, StoreTyped, Hydration, OneWrite, UpdateSettings
<1>3. Newest'
  BY DEF Store, StoreTyped, Newest, UpdateSettings
<1> QED
  BY <1>1, <1>2, <1>3 DEF Store

\* The drain goes on with the newest version, or leaves it in the file or pending.
LEMMA AnswerKeepsStore ==
  ASSUME Store, SettingsAnswers
  PROVE  Store'
<1> USE DEF None, Foreign, Hydrating
<1>1. PICK version \in writing : WriteSucceeds(version) \/ WriteFails(version)
  BY DEF SettingsAnswers
<1>2. ~blocked /\ load # "reading" /\ file # Foreign
  BY <1>1 DEF Store, Hydration
<1>3. version \in Nat /\ writing = {version} /\ file <= version /\ version <= settings
  BY <1>1 DEF Store, OneWrite
<1>4. writing \ {version} = {}
  BY <1>3
<1>5. file \in Nat /\ settings \in Nat /\ pending \in Nat \cup {None}
  BY <1>2 DEF Store, StoreTyped
<1>6. IF pending # None THEN pending = settings ELSE version = settings
  BY <1>2, <1>3 DEF Store, Newest
<1>7. load \notin Hydrating
  BY <1>1 DEF WriteSucceeds, WriteFails
<1>8. CASE WriteSucceeds(version) /\ pending = None
  <2>1. /\ file' = settings /\ writing' = {} /\ pending' = None
        /\ UNCHANGED <<load, blocked, settings, timer>>
    BY <1>4, <1>6, <1>8 DEF WriteSucceeds
  <2> QED
    BY <2>1, <1>2, <1>5, <1>7 DEF Store, StoreTyped, Hydration, OneWrite, Newest
<1>9. CASE WriteSucceeds(version) /\ pending # None
  <2>1. /\ file' = version /\ writing' = {settings} /\ pending' = None
        /\ UNCHANGED <<load, blocked, settings, timer>>
    BY <1>4, <1>6, <1>9 DEF WriteSucceeds
  <2> QED
    BY <2>1, <1>2, <1>3, <1>5, <1>7 DEF Store, StoreTyped, Hydration, OneWrite, Newest
<1>10. CASE WriteFails(version)
  <2>1. /\ writing' = {} /\ pending' = settings
        /\ UNCHANGED <<load, blocked, settings, timer, file>>
    BY <1>4, <1>6, <1>10 DEF WriteFails
  <2> QED
    BY <2>1, <1>2, <1>5, <1>7 DEF Store, StoreTyped, Hydration, OneWrite, Newest
<1> QED
  BY <1>1, <1>8, <1>9, <1>10

\* Every step of the store keeps it.
LEMMA StoreStep ==
  ASSUME Store, SettingsByItself \/ SettingsByUser
  PROVE  Store'
<1>1. CASE Hydrate
  BY <1>1, HydrateKeepsStore
<1>2. CASE WriteTimerFires
  <2>1. load \notin Hydrating
    BY <1>2 DEF Store, Hydration, WriteTimerFires
  <2> QED
    BY <1>2, <2>1, FlushKeepsStore DEF WriteTimerFires
<1>3. CASE UpdateSettings
  BY <1>3, UpdateKeepsStore
<1>4. CASE FlushPendingWrites
  BY <1>4, FlushKeepsStore DEF FlushPendingWrites
<1>5. CASE RetryPendingWrites
  BY <1>5, FlushKeepsStore DEF RetryPendingWrites
<1> QED
  BY <1>1, <1>2, <1>3, <1>4, <1>5 DEF SettingsByItself, SettingsByUser

-----------------------------------------------------------------------------
(* What a step of the store does to the file.                              *)

\* A version only grows, and the file never goes back.
Onward ==
  /\ settings' >= settings
  /\ file # Foreign => file' >= file
  /\ blocked \/ file = Foreign => UNCHANGED <<file, marked>>

LEMMA OnwardByHydration ==
  ASSUME Store, Hydrate
  PROVE  Onward
<1> USE DEF Foreign, Hydrating
<1>1. CASE ReadSettings
  BY <1>1 DEF Store, StoreTyped, Hydration, Onward, ReadSettings
<1>2. CASE ReadFails
  BY <1>2 DEF Store, StoreTyped, Onward, ReadFails
<1>3. CASE MigrationFails
  BY <1>3 DEF Store, StoreTyped, Onward, MigrationFails
<1>4. ASSUME NEW ok \in BOOLEAN, HydrationWrites(ok)
      PROVE  Onward
  BY <1>4 DEF Store, StoreTyped, Hydration, OneWrite, Onward, HydrationWrites
<1> QED
  BY <1>1, <1>2, <1>3, <1>4 DEF Hydrate

LEMMA OnwardByFlush ==
  ASSUME NEW next, Store, FlushPending(next)
  PROVE  Onward
BY DEF Store, StoreTyped, Onward, FlushPending, Foreign

LEMMA OnwardByItself ==
  ASSUME Store, SettingsByItself \/ SettingsByUser
  PROVE  Onward
<1>1. CASE Hydrate
  BY <1>1, OnwardByHydration
<1>2. CASE WriteTimerFires
  BY <1>2, OnwardByFlush DEF WriteTimerFires
<1>3. CASE UpdateSettings
  BY <1>3 DEF Store, StoreTyped, Onward, UpdateSettings, Foreign
<1>4. CASE FlushPendingWrites
  BY <1>4, OnwardByFlush DEF FlushPendingWrites
<1>5. CASE RetryPendingWrites
  BY <1>5, OnwardByFlush DEF RetryPendingWrites
<1> QED
  BY <1>1, <1>2, <1>3, <1>4, <1>5 DEF SettingsByItself, SettingsByUser

\* The version that is written is not older than the file's.
LEMMA OnwardByAnswer ==
  ASSUME Store, SettingsAnswers
  PROVE  Onward
<1>1. PICK version \in writing : WriteSucceeds(version) \/ WriteFails(version)
  BY DEF SettingsAnswers
<1>2. ~blocked /\ file # Foreign
  BY <1>1 DEF Store, Hydration
<1>3. version \in Nat /\ file <= version
  BY <1>1 DEF Store, OneWrite
<1>4. settings' = settings /\ settings \in Nat /\ file \in Nat
  BY <1>1, <1>2 DEF Store, StoreTyped, WriteSucceeds, WriteFails
<1>5. file' = version \/ file' = file
  BY <1>1 DEF WriteSucceeds, WriteFails
<1> QED
  BY <1>2, <1>3, <1>4, <1>5 DEF Onward

\* The store does not move.
LEMMA StoreStays ==
  ASSUME Store, UNCHANGED settingsVars
  PROVE  /\ Store' /\ Onward
         /\ UNCHANGED <<load, blocked, settings, file>>
<1>1. UNCHANGED <<load, blocked, settings, pending, timer, writing, shown, file, marked>>
  BY DEF settingsVars
<1>2. Store'
  <2>1. StoreTyped' /\ Hydration'
    BY <1>1 DEF Store, StoreTyped, Hydration
  <2>2. OneWrite' /\ Newest'
    BY <1>1 DEF Store, OneWrite, Newest
  <2> QED
    BY <2>1, <2>2 DEF Store
<1>3. Onward
  BY <1>1 DEF Onward, Store, StoreTyped, Foreign
<1> QED
  BY <1>1, <1>2, <1>3

-----------------------------------------------------------------------------
(* The document and the queue of its saves.                                *)

Requests == [snapshot : Nat, by : Attempts \cup {Page}]

DocumentTyped ==
  /\ text \in Nat /\ disk \in Nat /\ trash \in Nat /\ dirty \in BOOLEAN
  /\ saves \in Seq(Requests)
  /\ stage # "idle" => saves # <<>>

\* The file is not ahead of what waits to be written, what was requested first was captured first,
\* and nothing is ahead of the editor.
CapturedInOrder ==
  /\ disk <= text
  /\ \A i \in 1 .. Len(saves) :
       /\ disk <= saves[i].snapshot /\ saves[i].snapshot <= text
       /\ \A j \in 1 .. Len(saves) : i <= j => saves[i].snapshot <= saves[j].snapshot

\* What is marked clean is in the file, or was missed by the save that marked it.
CleanIsKept == ~dirty => disk = text \/ text \in missed

Document == DocumentTyped /\ CapturedInOrder /\ CleanIsKept

\* What a step may do to the document: nothing that is kept is lost.
Grows ==
  /\ text' >= text /\ disk' >= disk /\ trash' >= trash
  /\ missed \subseteq missed'

LEMMA DocumentStays ==
  ASSUME Document, UNCHANGED <<text, dirty, disk, missed, saves, stage>>,
         trash' \in Nat, trash' >= trash
  PROVE  Document' /\ Grows
<1>1. DocumentTyped' /\ CleanIsKept'
  BY DEF Document, DocumentTyped, CleanIsKept
<1>2. CapturedInOrder'
  BY DEF Document, CapturedInOrder
<1>3. Grows
  BY DEF Document, DocumentTyped, Grows
<1> QED
  BY <1>1, <1>2, <1>3 DEF Document

\* A request waits behind the others, with the text of now.
LEMMA EnqueueKeepsDocument ==
  ASSUME Document, NEW by \in Attempts \cup {Page}, Enqueue(by),
         UNCHANGED <<text, dirty, disk, trash, missed>>
  PROVE  Document' /\ Grows
<1> DEFINE request == [snapshot |-> text, by |-> by]
<1>1. request \in Requests /\ request.snapshot = text /\ text \in Nat
  BY DEF Document, DocumentTyped, Requests
<1>2. saves' = Append(saves, request) /\ saves \in Seq(Requests)
  BY DEF Enqueue, Begin, Document, DocumentTyped
<1> HIDE DEF request
<1>3. /\ saves' \in Seq(Requests) /\ Len(saves') = Len(saves) + 1 /\ Len(saves) \in Nat
      /\ \A i \in 1 .. Len(saves') : saves'[i] = IF i <= Len(saves) THEN saves[i] ELSE request
  BY <1>1, <1>2
<1>4. saves' # <<>>
  BY <1>3
<1>5. DocumentTyped' /\ CleanIsKept' /\ Grows
  BY <1>3, <1>4 DEF Document, DocumentTyped, CleanIsKept, Grows
<1>6. CapturedInOrder'
  <2> SUFFICES ASSUME NEW i \in 1 .. Len(saves'), NEW j \in 1 .. Len(saves'), i <= j
               PROVE  /\ disk <= saves'[i].snapshot /\ saves'[i].snapshot <= text
                      /\ saves'[i].snapshot <= saves'[j].snapshot
    BY <1>3 DEF CapturedInOrder, Document
  <2>1. disk <= text /\ disk \in Nat /\ text \in Nat
    BY DEF Document, DocumentTyped, CapturedInOrder
  <2>2. CASE j <= Len(saves)
    <3>1. saves'[i] = saves[i] /\ saves'[j] = saves[j] /\ i \in 1 .. Len(saves) /\ j \in 1 .. Len(saves)
      BY <1>3, <2>2
    <3> QED
      BY <3>1 DEF Document, CapturedInOrder
  <2>3. CASE ~(j <= Len(saves))
    <3>1. saves'[j] = request
      BY <1>3, <2>3
    <3>2. CASE i <= Len(saves)
      <4>1. saves'[i] = saves[i] /\ i \in 1 .. Len(saves)
        BY <1>3, <3>2
      <4> QED
        BY <1>1, <3>1, <4>1 DEF Document, CapturedInOrder
    <3>3. CASE ~(i <= Len(saves))
      <4>1. saves'[i] = request
        BY <1>3, <3>3
      <4> QED
        BY <1>1, <2>1, <3>1, <4>1
    <3> QED
      BY <3>2, <3>3
  <2> QED
    BY <2>2, <2>3
<1> QED
  BY <1>5, <1>6 DEF Document

\* The running save leaves the queue.
LEMMA BeginKeepsDocument ==
  ASSUME Document, stage # "idle", Begin(Tail(saves)),
         UNCHANGED <<text, dirty, disk, trash, missed>>
  PROVE  Document' /\ Grows
<1>1. saves \in Seq(Requests) /\ saves # <<>> /\ saves' = Tail(saves)
  BY DEF Document, DocumentTyped, Begin
<1>2. /\ saves' \in Seq(Requests) /\ Len(saves') = Len(saves) - 1 /\ Len(saves) \in Nat
      /\ \A i \in 1 .. Len(saves') : saves'[i] = saves[i + 1]
  BY <1>1
<1>3. DocumentTyped' /\ CleanIsKept' /\ Grows
  BY <1>2 DEF Begin, Document, DocumentTyped, CleanIsKept, Grows
<1>4. CapturedInOrder'
  <2> SUFFICES ASSUME NEW i \in 1 .. Len(saves'), NEW j \in 1 .. Len(saves'), i <= j
               PROVE  /\ disk <= saves'[i].snapshot /\ saves'[i].snapshot <= text
                      /\ saves'[i].snapshot <= saves'[j].snapshot
    BY DEF CapturedInOrder, Document
  <2>1. /\ i + 1 \in 1 .. Len(saves) /\ j + 1 \in 1 .. Len(saves) /\ i + 1 <= j + 1
        /\ saves'[i] = saves[i + 1] /\ saves'[j] = saves[j + 1]
    BY <1>2
  <2> QED
    BY <2>1 DEF Document, CapturedInOrder
<1> QED
  BY <1>3, <1>4 DEF Document

\* What the running save writes is not older than the file.  What it marks clean is written, or
\* it is missed.
LEMMA AppliedKeepsDocument ==
  ASSUME Document, SaveApplied
  PROVE  Document' /\ Grows
<1>1. saves \in Seq(Requests) /\ saves # <<>> /\ UNCHANGED <<text, trash, saves>>
  BY DEF Document, DocumentTyped, SaveApplied
<1>2. Len(saves) \in Nat /\ 1 \in 1 .. Len(saves) /\ Head(saves) = saves[1] /\ saves[1] \in Requests
  BY <1>1
<1>3. disk' = saves[1].snapshot /\ disk' \in Nat
  BY <1>2 DEF SaveApplied, Requests
<1>4. disk <= disk' /\ disk' <= text
  BY <1>2, <1>3 DEF Document, CapturedInOrder
<1>5. CapturedInOrder'
  BY <1>1, <1>2, <1>3, <1>4 DEF Document, CapturedInOrder
<1>6. DocumentTyped'
  BY <1>1, <1>3 DEF Document, DocumentTyped, SaveApplied
<1>7. CleanIsKept' /\ missed \subseteq missed'
  BY <1>1 DEF SaveApplied, CleanIsKept
<1> QED
  BY <1>1, <1>4, <1>5, <1>6, <1>7 DEF Document, DocumentTyped, Grows

\* An edit makes a text that is not clean.
LEMMA EditKeepsDocument ==
  ASSUME Document, Edit
  PROVE  Document' /\ Grows
<1>1. text' = text + 1 /\ dirty' = TRUE /\ UNCHANGED <<disk, trash, missed, saves>>
  BY DEF Edit
<1>2. \A i \in 1 .. Len(saves) : saves[i].snapshot \in Nat
  <2>1. \A i \in 1 .. Len(saves) : saves[i] \in Requests
    BY DEF Document, DocumentTyped
  <2> QED
    BY <2>1 DEF Requests
<1>3. CapturedInOrder'
  BY <1>1, <1>2 DEF Document, DocumentTyped, CapturedInOrder
<1>4. DocumentTyped' /\ CleanIsKept'
  BY <1>1 DEF Document, DocumentTyped, CleanIsKept, Edit
<1>5. Grows
  BY <1>1 DEF Document, DocumentTyped, Grows
<1> QED
  BY <1>3, <1>4, <1>5 DEF Document

\* The queue goes with the window.
LEMMA DestroyedKeepsDocument ==
  ASSUME Document, saves' = <<>>, stage' = "idle", UNCHANGED <<text, dirty, disk, trash, missed>>
  PROVE  Document' /\ Grows
<1>1. saves' \in Seq(Requests) /\ Len(saves') = 0
  OBVIOUS
<1>2. DocumentTyped' /\ CleanIsKept' /\ Grows
  BY <1>1 DEF Document, DocumentTyped, CleanIsKept, Grows
<1>3. CapturedInOrder'
  BY <1>1 DEF Document, CapturedInOrder
<1> QED
  BY <1>2, <1>3 DEF Document

-----------------------------------------------------------------------------
(* The attempts.                                                           *)

Phases == {"new"} \cup Waiting \cup Ended
Decided == [text : Nat, settings : Nat]

CloseTyped ==
  /\ phase \in [Attempts -> Phases]
  /\ decided \in [Attempts -> Decided]
  /\ asked \in Attempts \cup {NoAttempt}

\* No decision is ahead of what it was about.
Decisions == \A a \in Attempts : decided[a].text <= text /\ decided[a].settings <= settings

\* The application renders, and asks for nothing, before the store was hydrated.
NothingBeforeHydration ==
  load \in Hydrating => asked = NoAttempt /\ saves = <<>> /\ \A a \in Attempts : phase[a] = "new"

\* An attempt flushes the settings only when its document is kept, and destroys the window only
\* when its settings are.
Committed == {"settings", "destroying"}
Kept(version) == disk >= version \/ trash >= version \/ version \in missed
DocumentsFirst == \A a \in Attempts : phase[a] \in Committed \/ window = a => Kept(decided[a].text)
SettingsNext ==
  \A a \in Attempts : (phase[a] = "destroying" \/ window = a) /\ ~blocked
    => file >= decided[a].settings

Closing ==
  /\ CloseTyped /\ Decisions /\ NothingBeforeHydration
  /\ DocumentsFirst /\ SettingsNext
Safe == Store /\ Document /\ Closing

LEMMA ClosingInitially == Init => Safe
<1> SUFFICES ASSUME Init PROVE Safe
  OBVIOUS
<1>1. Store
  BY StoreInitially DEF Init
<1>2. /\ phase = [a \in Attempts |-> "new"] /\ asked = NoAttempt /\ window = "open"
      /\ decided = [a \in Attempts |-> Undecided] /\ saves = <<>>
  BY DEF Init
<1>3. Document
  <2>1. saves \in Seq(Requests) /\ Len(saves) = 0
    BY <1>2
  <2>2. text = 0 /\ disk = 0 /\ trash = 0 /\ dirty = FALSE /\ stage = "idle"
    BY DEF Init
  <2>3. DocumentTyped
    BY <2>1, <2>2 DEF DocumentTyped
  <2>4. CapturedInOrder
    BY <2>1, <2>2 DEF CapturedInOrder
  <2> QED
    BY <2>2, <2>3, <2>4 DEF Document, CleanIsKept
<1>4. CloseTyped
  BY <1>2 DEF CloseTyped, Phases, Decided, Undecided
<1>5. Decisions
  <2>1. settings = 0 /\ text = 0
    BY DEF Init, SettingsInit
  <2> QED
    BY <1>2, <2>1 DEF Decisions, Undecided
<1>6. NothingBeforeHydration
  BY <1>2 DEF NothingBeforeHydration
<1>7. \A a \in Attempts : phase[a] \notin Committed /\ window # a
  BY <1>2, CloseAssumption DEF Committed
<1>8. DocumentsFirst /\ SettingsNext
  BY <1>7 DEF DocumentsFirst, SettingsNext, Committed
<1> QED
  BY <1>1, <1>3, <1>4, <1>5, <1>6, <1>8 DEF Safe, Closing

\* The window is open until an attempt or the shell destroys it.
LEMMA OpenIsNobodys ==
  ASSUME Open, NEW a \in Attempts
  PROVE  window # a
BY CloseAssumption DEF Open

LEMMA NumbersTyped ==
  ASSUME Safe
  PROVE  /\ text \in Nat /\ disk \in Nat /\ trash \in Nat /\ disk <= text
         /\ settings \in Nat /\ file \in Nat \cup {Foreign}
         /\ asked \in Attempts \cup {NoAttempt}
BY DEF Safe, Closing, CloseTyped, Document, DocumentTyped, CapturedInOrder, Store, StoreTyped

LEMMA DecisionTyped ==
  ASSUME Safe, NEW a \in Attempts
  PROVE  /\ decided[a] \in Decided
         /\ decided[a].text \in Nat /\ decided[a].settings \in Nat
         /\ decided[a].text <= text /\ decided[a].settings <= settings
         /\ decided = [decided EXCEPT ![a] = decided[a]]
         /\ phase[a] \in Phases
BY DEF Safe, Closing, CloseTyped, Decisions, Decided

\* An attempt that was begun finds the store hydrated.
LEMMA Begun ==
  ASSUME Safe, NEW a \in Attempts, phase[a] # "new"
  PROVE  load \notin Hydrating
BY DEF Safe, Closing, NothingBeforeHydration

\* What was kept stays kept.
LEMMA KeptStays ==
  ASSUME Safe, Document', Grows, NEW version \in Nat, Kept(version)
  PROVE  Kept(version)'
<1>1. /\ disk \in Nat /\ trash \in Nat /\ disk' \in Nat /\ trash' \in Nat
      /\ disk' >= disk /\ trash' >= trash /\ missed \subseteq missed'
  BY NumbersTyped DEF Document, DocumentTyped, Grows
<1> QED
  BY <1>1 DEF Kept

\* What the file holds of the settings stays there.
LEMMA WrittenStays ==
  ASSUME Safe, Store', Onward, NEW version \in Nat, file >= version
  PROVE  file' >= version
<1>1. file \in Nat \cup {Foreign} /\ file' \in Nat \cup {Foreign}
  BY DEF Safe, Store, StoreTyped
<1>2. file # Foreign
  BY <1>1 DEF Foreign
<1>3. file' >= file
  BY <1>2 DEF Onward
<1> QED
  BY <1>1, <1>2, <1>3 DEF Foreign

\* A step that moves no attempt keeps what was decided.
LEMMA NobodyMoves ==
  ASSUME Safe, Store', Onward, Document', Grows, Open,
         UNCHANGED <<phase, decided, asked, window>>,
         (load \in Hydrating /\ UNCHANGED saves) \/ load' \notin Hydrating,
         blocked => blocked'
  PROVE  Closing'
<1>1. CloseTyped'
  BY DEF Safe, Closing, CloseTyped
<1>2. \A a \in Attempts : /\ decided[a].text \in Nat /\ decided[a].settings \in Nat
                          /\ decided'[a] = decided[a] /\ phase'[a] = phase[a]
  BY DecisionTyped
<1>3. text \in Nat /\ text' \in Nat /\ settings \in Nat /\ settings' \in Nat
  BY DEF Safe, Document, DocumentTyped, Store, StoreTyped
<1>4. Decisions'
  BY <1>2, <1>3 DEF Safe, Closing, Decisions, Onward, Grows
<1>5. NothingBeforeHydration'
  BY DEF Safe, Closing, NothingBeforeHydration
<1>6. \A a \in Attempts : window # a /\ window' # a
  BY OpenIsNobodys
<1>7. DocumentsFirst'
  <2> SUFFICES ASSUME NEW a \in Attempts, phase[a] \in Committed
               PROVE  Kept(decided[a].text)'
    BY <1>2, <1>6 DEF DocumentsFirst, Kept
  <2>1. Kept(decided[a].text)
    BY DEF Safe, Closing, DocumentsFirst
  <2> QED
    BY <1>2, <2>1, KeptStays DEF Kept
<1>8. SettingsNext'
  <2> SUFFICES ASSUME NEW a \in Attempts, phase[a] = "destroying", ~blocked
               PROVE  file' >= decided[a].settings
    BY <1>2, <1>6 DEF SettingsNext
  <2>1. file >= decided[a].settings
    BY DEF Safe, Closing, SettingsNext
  <2> QED
    BY <1>2, <2>1, WrittenStays
<1> QED
  BY <1>1, <1>4, <1>5, <1>7, <1>8 DEF Closing

\* A step that moves one attempt keeps the rest, and has to keep what it decides itself.
LEMMA OneMoves ==
  ASSUME Safe, Store', Onward, Document', Grows, Open,
         NEW m \in Attempts, NEW p \in Phases, NEW d \in Decided,
         phase' = [phase EXCEPT ![m] = p],
         decided' = [decided EXCEPT ![m] = d],
         asked' \in Attempts \cup {NoAttempt},
         text' = text, d.text <= text, d.settings <= settings,
         UNCHANGED <<settings, blocked, window>>, load' \notin Hydrating,
         p \in Committed => Kept(d.text)',
         p = "destroying" /\ ~blocked => file' >= d.settings
  PROVE  Closing'
<1>1. /\ phase'[m] = p /\ decided'[m] = d
      /\ \A a \in Attempts \ {m} : phase'[a] = phase[a] /\ decided'[a] = decided[a]
  BY DEF Safe, Closing, CloseTyped
<1>2. \A a \in Attempts : decided[a].text \in Nat /\ decided[a].settings \in Nat
  BY DecisionTyped
<1>3. CloseTyped'
  BY DEF Safe, Closing, CloseTyped
<1>4. Decisions'
  <2>1. ASSUME NEW a \in Attempts
        PROVE  decided'[a].text <= text /\ decided'[a].settings <= settings
    <3>1. CASE a = m
      BY <3>1, <1>1
    <3>2. CASE a # m
      BY <3>2, <1>1 DEF Safe, Closing, Decisions
    <3> QED
      BY <3>1, <3>2
  <2> QED
    BY <2>1 DEF Decisions
<1>5. NothingBeforeHydration'
  BY DEF NothingBeforeHydration
<1>6. \A a \in Attempts : window' # a
  BY OpenIsNobodys
<1>7. DocumentsFirst'
  <2> SUFFICES ASSUME NEW a \in Attempts, phase'[a] \in Committed
               PROVE  Kept(decided[a].text)'
    BY <1>6 DEF DocumentsFirst
  <2>1. CASE a = m
    BY <2>1, <1>1 DEF Kept
  <2>2. CASE a # m
    <3>1. phase[a] \in Committed /\ decided'[a] = decided[a]
      BY <2>2, <1>1
    <3>2. Kept(decided[a].text)
      BY <3>1 DEF Safe, Closing, DocumentsFirst
    <3> QED
      BY <3>1, <3>2, <1>2, KeptStays DEF Kept
  <2> QED
    BY <2>1, <2>2
<1>8. SettingsNext'
  <2> SUFFICES ASSUME NEW a \in Attempts, phase'[a] = "destroying", ~blocked
               PROVE  file' >= decided'[a].settings
    BY <1>6 DEF SettingsNext
  <2>1. CASE a = m
    BY <2>1, <1>1
  <2>2. CASE a # m
    <3>1. phase[a] = "destroying" /\ decided'[a] = decided[a]
      BY <2>2, <1>1
    <3>2. file >= decided[a].settings
      BY <3>1 DEF Safe, Closing, SettingsNext
    <3> QED
      BY <3>1, <3>2, <1>2, WrittenStays
  <2> QED
    BY <2>1, <2>2
<1> QED
  BY <1>3, <1>4, <1>5, <1>7, <1>8 DEF Closing

\* A flush of the settings leaves the attempt waiting for the drain, or ready to destroy the
\* window with the newest settings in the file.
LEMMA FlushCommits ==
  ASSUME Store, load \notin Hydrating, NEW a \in Attempts, FlushSettings(a)
  PROVE  /\ Store' /\ Onward
         /\ UNCHANGED <<load, blocked, settings, file>>
         /\ \E p \in Committed :
              /\ phase' = [phase EXCEPT ![a] = p]
              /\ p = "destroying" /\ ~blocked => file = settings
<1>1. FlushPending(pending)
  BY DEF FlushSettings
<1>2. Store' /\ Onward
  BY <1>1, FlushKeepsStore, OnwardByFlush
<1>3. UNCHANGED <<load, blocked, settings, file>>
  BY <1>1 DEF FlushPending
<1>4. ASSUME ~blocked, writing' = {}
      PROVE  file = settings
  <2>1. writing = {} /\ pending = None
    BY <1>1, <1>4 DEF FlushPending, Drain
  <2> QED
    BY <2>1, <1>4 DEF Store, Newest, Hydrating
<1>5. \E p \in Committed :
        /\ phase' = [phase EXCEPT ![a] = p]
        /\ p = "destroying" /\ ~blocked => file = settings
  <2>1. CASE blocked \/ writing' = {}
    <3>1. phase' = [phase EXCEPT ![a] = "destroying"]
      BY <2>1 DEF FlushSettings
    <3> QED
      BY <2>1, <3>1, <1>4 DEF Committed
  <2>2. CASE ~(blocked \/ writing' = {})
    <3>1. phase' = [phase EXCEPT ![a] = "settings"]
      BY <2>2 DEF FlushSettings
    <3> QED
      BY <3>1 DEF Committed
  <2> QED
    BY <2>1, <2>2
<1> QED
  BY <1>2, <1>3, <1>5

-----------------------------------------------------------------------------
(* The steps of an attempt.                                                *)

\* What the end of a flush of the document, of a save or of an archive have in common: the
\* document of a decision d is kept, and the settings are flushed.
LEMMA CommitIsSafe ==
  ASSUME Safe, Document', Grows, NEW a \in Attempts, Open, load \notin Hydrating,
         FlushSettings(a), NEW d \in Decided, decided' = [decided EXCEPT ![a] = d],
         d.text <= text, d.settings <= settings, Kept(d.text)',
         UNCHANGED <<text, window>>, asked' \in Attempts \cup {NoAttempt}
  PROVE  Safe'
<1>1. Store' /\ Onward /\ UNCHANGED <<load, blocked, settings, file>>
  BY FlushCommits DEF Safe
<1>2. PICK p \in Committed : /\ phase' = [phase EXCEPT ![a] = p]
                             /\ p = "destroying" /\ ~blocked => file = settings
  BY FlushCommits DEF Safe
<1>3. p \in Phases
  BY DEF Committed, Phases, Waiting
<1>4. p = "destroying" /\ ~blocked => file' >= d.settings
  BY <1>1, <1>2, NumbersTyped DEF Decided
<1>5. Closing'
  <2> HIDE DEF Phases, Committed
  <2> QED
    BY <1>1, <1>2, <1>3, <1>4, OneMoves
<1> QED
  BY <1>1, <1>5 DEF Safe

\* An attempt that goes no further, or waits for something else.
LEMMA WaitIsSafe ==
  ASSUME Safe, Document', Grows, NEW a \in Attempts, Open, load \notin Hydrating,
         UNCHANGED settingsVars,
         NEW p \in Phases \ Committed, phase' = [phase EXCEPT ![a] = p],
         NEW d \in Decided, decided' = [decided EXCEPT ![a] = d],
         d.text <= text, d.settings <= settings,
         UNCHANGED <<text, window>>, asked' \in Attempts \cup {NoAttempt}
  PROVE  Safe'
<1>1. Store' /\ Onward /\ UNCHANGED <<load, blocked, settings, file>>
  BY StoreStays DEF Safe
<1>2. p \in Phases /\ p \notin Committed /\ p # "destroying"
  BY DEF Committed
<1>3. Closing'
  <2> HIDE DEF Phases, Committed
  <2> QED
    BY <1>1, <1>2, OneMoves
<1> QED
  BY <1>1, <1>3 DEF Safe

\* What a decision of this moment records.
LEMMA DecidedNow ==
  ASSUME Safe, NEW a \in Attempts, Decide(a)
  PROVE  \E d \in Decided : /\ decided' = [decided EXCEPT ![a] = d]
                            /\ d.text = text /\ d.settings = settings
<1>1. PICK d \in Decided : d = [text |-> text, settings |-> settings]
  BY NumbersTyped DEF Decided
<1>2. d.text = text /\ d.settings = settings
  BY <1>1
<1> QED
  BY <1>1, <1>2 DEF Decide

LEMMA NothingDecided ==
  ASSUME Safe
  PROVE  Undecided \in Decided /\ Undecided.text <= text /\ Undecided.settings <= settings
BY NumbersTyped DEF Undecided, Decided

\* The document is clean, and the attempt goes on.
LEMMA CleanIsSafe ==
  ASSUME Safe, Document', Grows, NEW a \in Attempts, Open, load \notin Hydrating,
         ~dirty, Decide(a), FlushSettings(a),
         UNCHANGED <<text, disk, missed, window>>, asked' \in Attempts \cup {NoAttempt}
  PROVE  Safe'
<1>1. PICK d \in Decided : decided' = [decided EXCEPT ![a] = d] /\ d.text = text /\ d.settings = settings
  BY DecidedNow
<1>2. d.text <= text /\ d.settings <= settings
  BY <1>1, NumbersTyped
<1>3. Kept(d.text)'
  BY <1>1, NumbersTyped DEF Safe, Document, CleanIsKept, Kept
<1> QED
  BY <1>1, <1>2, <1>3, CommitIsSafe

\* The attempt is given up.
LEMMA StoppedIsSafe ==
  ASSUME Safe, Document', Grows, NEW a \in Attempts, Open, load \notin Hydrating,
         UNCHANGED settingsVars, Ends(a, "stopped"),
         UNCHANGED <<text, window>>, asked' \in Attempts \cup {NoAttempt}
  PROVE  Safe'
<1>1. "stopped" \in Phases \ Committed
  BY DEF Phases, Committed, Waiting, Ended
<1>2. phase' = [phase EXCEPT ![a] = "stopped"] /\ decided' = [decided EXCEPT ![a] = Undecided]
  BY DEF Ends
<1> HIDE DEF Phases, Committed
<1> QED
  BY <1>1, <1>2, NothingDecided, WaitIsSafe

\* An attempt waits for something else, with what was decided.
LEMMA GoesOnIsSafe ==
  ASSUME Safe, Document', Grows, NEW a \in Attempts, Open, load \notin Hydrating,
         UNCHANGED settingsVars, UNCHANGED decided,
         NEW p \in Phases \ Committed, phase' = [phase EXCEPT ![a] = p],
         UNCHANGED <<text, window>>, asked' \in Attempts \cup {NoAttempt}
  PROVE  Safe'
<1>1. PICK d \in Decided : d = decided[a]
  BY DecisionTyped
<1>2. d.text <= text /\ d.settings <= settings /\ decided' = [decided EXCEPT ![a] = d]
  BY <1>1, DecisionTyped
<1> HIDE DEF Phases, Committed
<1> QED
  BY <1>2, WaitIsSafe

\* A request starts an attempt.
LEMMA RequestIsSafe ==
  ASSUME Safe, NEW a \in Attempts, RequestClose(a)
  PROVE  Safe'
<1>1. /\ Open /\ load \notin Hydrating /\ UNCHANGED settingsVars
      /\ UNCHANGED <<text, dirty, disk, trash, missed, saves, stage, decided, asked, window>>
  BY DEF RequestClose, documentVars, queue
<1>2. Document' /\ Grows
  BY <1>1, DocumentStays, NumbersTyped DEF Safe
<1>3. asked' \in Attempts \cup {NoAttempt}
  BY <1>1, NumbersTyped
<1>4. CASE phase' = phase
  <2>1. Store' /\ Onward /\ UNCHANGED <<load, blocked, settings, file>>
    BY <1>1, StoreStays DEF Safe
  <2>2. Closing'
    BY <1>1, <1>2, <1>4, <2>1, NobodyMoves
  <2> QED
    BY <1>2, <2>1, <2>2 DEF Safe
<1>5. CASE phase' # phase
  <2>1. phase' = [phase EXCEPT ![a] = "flushing"]
    BY <1>5 DEF RequestClose
  <2>2. "flushing" \in Phases \ Committed
    BY DEF Phases, Waiting, Committed
  <2> HIDE DEF Phases, Committed
  <2> QED
    BY <1>1, <1>2, <1>3, <2>1, <2>2, GoesOnIsSafe
<1> QED
  BY <1>4, <1>5

\* The flush of the document ends; a document that is dirty is asked about.
LEMMA AutosaveFlushedIsSafe ==
  ASSUME Safe, NEW a \in Attempts, AutosaveFlushed(a)
  PROVE  Safe'
<1>1. /\ Open /\ phase[a] = "flushing"
      /\ UNCHANGED <<text, dirty, disk, trash, missed, saves, stage, window>>
  BY DEF AutosaveFlushed, documentVars, queue
<1>2. Document' /\ Grows
  BY <1>1, DocumentStays, NumbersTyped DEF Safe
<1>3. load \notin Hydrating
  BY <1>1, Begun
<1>4. CASE ~dirty
  <2>1. Decide(a) /\ FlushSettings(a) /\ asked' = asked
    BY <1>4 DEF AutosaveFlushed
  <2>2. asked' \in Attempts \cup {NoAttempt}
    BY <2>1, NumbersTyped
  <2> QED
    BY <1>1, <1>2, <1>3, <1>4, <2>1, <2>2, CleanIsSafe
<1>5. CASE dirty
  <2>1. /\ phase' = [phase EXCEPT ![a] = "asked"] /\ asked' = a
        /\ UNCHANGED settingsVars /\ UNCHANGED decided
    BY <1>5 DEF AutosaveFlushed
  <2>2. "asked" \in Phases \ Committed
    BY DEF Phases, Committed, Waiting
  <2>3. asked' \in Attempts \cup {NoAttempt}
    BY <2>1
  <2> HIDE DEF Phases, Committed
  <2> QED
    BY <1>1, <1>2, <1>3, <2>1, <2>2, <2>3, GoesOnIsSafe
<1> QED
  BY <1>4, <1>5

\* The user answers.
LEMMA ChooseIsSafe ==
  ASSUME Safe, NEW choice \in {"save", "discard", "cancel"}, Choose(choice)
  PROVE  Safe'
<1>1. /\ Open /\ asked # NoAttempt /\ asked' = NoAttempt
      /\ UNCHANGED settingsVars /\ UNCHANGED <<text, dirty, disk, trash, missed, window>>
  BY DEF Choose
<1>2. PICK a \in Attempts : a = asked
  BY <1>1, NumbersTyped
<1>3. load \notin Hydrating
  BY <1>1 DEF Safe, Closing, NothingBeforeHydration
<1>4. asked' \in Attempts \cup {NoAttempt}
  BY <1>1
<1>5. CASE choice = "cancel"
  <2>1. Ends(a, "stopped") /\ UNCHANGED queue
    BY <1>2, <1>5 DEF Choose
  <2>2. Document' /\ Grows
    BY <1>1, <2>1, DocumentStays, NumbersTyped DEF Safe, queue
  <2> QED
    BY <1>1, <1>3, <1>4, <2>1, <2>2, StoppedIsSafe
<1>6. CASE choice = "save"
  <2>1. phase' = [phase EXCEPT ![a] = "saving"] /\ Enqueue(a) /\ UNCHANGED decided
    BY <1>2, <1>6 DEF Choose
  <2>2. Document' /\ Grows
    BY <1>1, <2>1, EnqueueKeepsDocument DEF Safe
  <2>3. "saving" \in Phases \ Committed
    BY DEF Phases, Committed, Waiting
  <2> HIDE DEF Phases, Committed
  <2> QED
    BY <1>1, <1>3, <1>4, <2>1, <2>2, <2>3, GoesOnIsSafe
<1>7. CASE choice = "discard"
  <2>1. phase' = [phase EXCEPT ![a] = "archiving"] /\ Decide(a) /\ UNCHANGED queue
    BY <1>2, <1>7 DEF Choose
  <2>2. Document' /\ Grows
    BY <1>1, <2>1, DocumentStays, NumbersTyped DEF Safe, queue
  <2>3. "archiving" \in Phases \ Committed
    BY DEF Phases, Committed, Waiting
  <2>4. PICK d \in Decided : decided' = [decided EXCEPT ![a] = d] /\ d.text = text /\ d.settings = settings
    BY <2>1, DecidedNow
  <2>5. d.text <= text /\ d.settings <= settings
    BY <2>4, NumbersTyped
  <2> HIDE DEF Phases, Committed
  <2> QED
    BY <1>1, <1>3, <1>4, <2>1, <2>2, <2>3, <2>4, <2>5, WaitIsSafe
<1> QED
  BY <1>5, <1>6, <1>7

\* A save runs only when something waits in the queue, and so after the hydration.
LEMMA RunsHydrated ==
  ASSUME Safe, stage # "idle"
  PROVE  load \notin Hydrating
BY DEF Safe, Document, DocumentTyped, Closing, NothingBeforeHydration

\* The end of a save: an attempt that asked for it goes on only when the document is clean.
LEMMA SaveEndsIsSafe ==
  ASSUME Safe, NEW thrown \in BOOLEAN, SaveEnds(thrown)
  PROVE  Safe'
<1>1. /\ Open /\ stage # "idle" /\ Begin(Tail(saves))
      /\ UNCHANGED <<text, dirty, disk, trash, missed, asked, window>>
  BY DEF SaveEnds
<1>2. Document' /\ Grows
  BY <1>1, BeginKeepsDocument DEF Safe
<1>3. load \notin Hydrating
  BY <1>1, RunsHydrated
<1>4. asked' \in Attempts \cup {NoAttempt}
  BY <1>1, NumbersTyped
<1> DEFINE by == Head(saves).by
<1>5. CASE by \notin Attempts
  <2>1. UNCHANGED settingsVars /\ UNCHANGED <<phase, decided>>
    BY <1>5, CloseAssumption DEF SaveEnds
  <2>2. Store' /\ Onward /\ UNCHANGED <<load, blocked, settings, file>>
    BY <2>1, StoreStays DEF Safe
  <2>3. Closing'
    BY <1>1, <1>2, <1>3, <2>1, <2>2, NobodyMoves
  <2> QED
    BY <1>2, <2>2, <2>3 DEF Safe
<1>6. CASE by \in Attempts
  <2>1. \/ ~dirty /\ Decide(by) /\ FlushSettings(by)
        \/ Ends(by, "stopped") /\ UNCHANGED settingsVars
    BY <1>6 DEF SaveEnds, Saved
  <2> HIDE DEF by
  <2> QED
    BY <1>1, <1>2, <1>3, <1>4, <1>6, <2>1, CleanIsSafe, StoppedIsSafe
<1> QED
  BY <1>5, <1>6

\* The text of the moment the user discarded it is in the trash, or the attempt is stopped.
LEMMA ArchivedIsSafe ==
  ASSUME Safe, NEW a \in Attempts, NEW ok \in BOOLEAN, Archived(a, ok)
  PROVE  Safe'
<1>1. /\ Open /\ phase[a] = "archiving"
      /\ UNCHANGED <<text, dirty, disk, missed, saves, stage, asked, window>>
  BY DEF Archived, queue
<1>2. load \notin Hydrating /\ asked' \in Attempts \cup {NoAttempt}
  BY <1>1, Begun, NumbersTyped
<1>3. PICK d \in Decided : d = decided[a]
  BY DecisionTyped
<1>4. d.text <= text /\ d.settings <= settings /\ decided = [decided EXCEPT ![a] = d] /\ d.text \in Nat
  BY <1>3, DecisionTyped
<1>5. trash' \in Nat /\ trash' >= trash /\ (ok => trash' >= d.text)
  BY <1>3, <1>4, NumbersTyped DEF Archived, Later
<1>6. Document' /\ Grows
  BY <1>1, <1>5, DocumentStays DEF Safe
<1>7. CASE ok
  <2>1. FlushSettings(a) /\ decided' = [decided EXCEPT ![a] = d]
    BY <1>4, <1>7 DEF Archived
  <2>2. Kept(d.text)'
    BY <1>5, <1>7 DEF Kept
  <2> QED
    BY <1>1, <1>2, <1>4, <1>6, <2>1, <2>2, CommitIsSafe
<1>8. CASE ~ok
  <2>1. Ends(a, "stopped") /\ UNCHANGED settingsVars
    BY <1>8 DEF Archived
  <2> QED
    BY <1>1, <1>2, <1>6, <2>1, StoppedIsSafe
<1> QED
  BY <1>7, <1>8

\* The signal of the close cannot be given while the settings are flushed.
LEMMA SignalFailsIsSafe ==
  ASSUME Safe, NEW a \in Attempts, SignalFails(a)
  PROVE  Safe'
<1>1. /\ Open /\ phase[a] = "settings" /\ Ends(a, "stopped") /\ UNCHANGED settingsVars
      /\ UNCHANGED <<text, dirty, disk, trash, missed, saves, stage, asked, window>>
  BY DEF SignalFails, documentVars, queue
<1>2. Document' /\ Grows
  BY <1>1, DocumentStays, NumbersTyped DEF Safe
<1>3. load \notin Hydrating /\ asked' \in Attempts \cup {NoAttempt}
  BY <1>1, Begun, NumbersTyped
<1> QED
  BY <1>1, <1>2, <1>3, StoppedIsSafe

\* The window goes, with everything of its page; what the attempt that destroyed it decided is kept.
LEMMA DestroyedIsSafe ==
  ASSUME Safe, Open, load \notin Hydrating, NEW by, Destroyed(by),
         UNCHANGED settingsVars, UNCHANGED <<text, dirty, disk, trash, missed>>,
         by = Native \/ (by \in Attempts /\ phase[by] = "destroying")
  PROVE  Safe'
<1>1. Store' /\ Onward /\ UNCHANGED <<load, blocked, settings, file>>
  BY StoreStays DEF Safe
<1>2. Document' /\ Grows
  BY DestroyedKeepsDocument DEF Safe, Destroyed
<1>3. /\ phase' = [a \in Attempts |-> "closed"] /\ asked' = NoAttempt /\ window' = by
      /\ decided' = [a \in Attempts |-> IF a = by THEN decided[a] ELSE Undecided]
  BY DEF Destroyed
<1>4. CloseTyped'
  <2>1. "closed" \in Phases
    BY DEF Phases, Ended
  <2>2. decided' \in [Attempts -> Decided]
    BY <1>3, DecisionTyped, NothingDecided
  <2> QED
    BY <1>3, <2>1, <2>2 DEF CloseTyped
<1>5. Decisions'
  BY <1>1, <1>3, DecisionTyped, NothingDecided DEF Decisions
<1>6. NothingBeforeHydration'
  BY <1>1 DEF NothingBeforeHydration
<1>7. \A a \in Attempts : phase'[a] \notin Committed
  BY <1>3 DEF Committed
<1>8. ASSUME NEW a \in Attempts, window' = a
      PROVE  phase[a] = "destroying" /\ decided'[a] = decided[a]
  BY <1>3, <1>8, CloseAssumption DEF Native
<1>9. DocumentsFirst'
  <2> SUFFICES ASSUME NEW a \in Attempts, window' = a
               PROVE  Kept(decided[a].text)'
    BY <1>7 DEF DocumentsFirst
  <2>1. Kept(decided[a].text)
    BY <1>8 DEF Safe, Closing, DocumentsFirst, Committed
  <2> QED
    BY <1>8, <2>1 DEF Kept
<1>10. SettingsNext'
  <2> SUFFICES ASSUME NEW a \in Attempts, window' = a, ~blocked
               PROVE  file' >= decided'[a].settings
    BY <1>1, <1>7 DEF SettingsNext, Committed
  <2>1. file >= decided[a].settings
    BY <1>8 DEF Safe, Closing, SettingsNext
  <2> QED
    BY <1>1, <1>8, <2>1
<1> QED
  BY <1>1, <1>2, <1>4, <1>5, <1>6, <1>9, <1>10 DEF Safe, Closing

\* The window is destroyed by an attempt that kept its document and its settings, or by none.
LEMMA DestroyIsSafe ==
  ASSUME Safe, NEW a \in Attempts, NEW ok \in BOOLEAN, Destroy(a, ok)
  PROVE  Safe'
<1>1. /\ Open /\ phase[a] = "destroying" /\ UNCHANGED settingsVars
      /\ UNCHANGED <<text, dirty, disk, trash, missed>>
  BY DEF Destroy
<1>2. load \notin Hydrating
  BY <1>1, Begun
<1>3. CASE ok
  BY <1>1, <1>2, <1>3, DestroyedIsSafe DEF Destroy
<1>4. CASE ~ok
  <2>1. Ends(a, "stopped") /\ UNCHANGED <<saves, stage, asked, window>>
    BY <1>4 DEF Destroy, queue
  <2>2. Document' /\ Grows
    BY <1>1, <2>1, DocumentStays, NumbersTyped DEF Safe
  <2>3. asked' \in Attempts \cup {NoAttempt}
    BY <2>1, NumbersTyped
  <2> QED
    BY <1>1, <1>2, <2>1, <2>2, <2>3, StoppedIsSafe
<1> QED
  BY <1>3, <1>4

\* The drain ends for everybody who waits for it, and well only with the newest version written.
LEMMA SettingsWrittenIsSafe ==
  ASSUME Safe, SettingsWritten
  PROVE  Safe'
<1>1. /\ Open /\ SettingsAnswers
      /\ UNCHANGED <<text, dirty, disk, trash, missed, saves, stage, asked, window>>
  BY DEF SettingsWritten, documentVars, queue
<1>2. Store' /\ Onward
  BY <1>1, AnswerKeepsStore, OnwardByAnswer DEF Safe
<1>3. Document' /\ Grows
  BY <1>1, DocumentStays, NumbersTyped DEF Safe
<1>4. PICK version \in writing : WriteSucceeds(version) \/ WriteFails(version)
  BY <1>1 DEF SettingsAnswers
<1>5. load \notin Hydrating /\ ~blocked /\ UNCHANGED <<load, blocked, settings>>
  BY <1>4 DEF WriteSucceeds, WriteFails, Safe, Store, Hydration
<1>6. writing' = {} /\ shown' # "failed" => file' = settings'
  <2> SUFFICES ASSUME writing' = {}, shown' # "failed" PROVE file' = settings'
    OBVIOUS
  <2>1. pending' = None
    BY <1>4 DEF WriteSucceeds, WriteFails
  <2> QED
    BY <1>2, <1>5, <2>1 DEF Store, Newest, Hydrating
<1>7. \E next \in {"stopped", "destroying"} :
        /\ phase' = phase \/ phase' = Resumed(phase, next)
        /\ phase' # phase /\ next = "destroying" => file' = settings'
  <2>1. CASE writing' # {}
    BY <2>1 DEF SettingsWritten
  <2>2. CASE writing' = {} /\ shown' = "failed"
    BY <2>2 DEF SettingsWritten
  <2>3. CASE writing' = {} /\ shown' # "failed"
    BY <2>3, <1>6 DEF SettingsWritten
  <2> QED
    BY <2>1, <2>2, <2>3
<1>8. PICK next \in {"stopped", "destroying"} :
        /\ phase' = phase \/ phase' = Resumed(phase, next)
        /\ phase' # phase /\ next = "destroying" => file' = settings'
  BY <1>7
<1>9. next \in Phases
  BY DEF Phases, Waiting, Ended
<1>10. /\ phase' \in [Attempts -> Phases]
       /\ \A a \in Attempts :
            \/ phase'[a] = phase[a]
            \/ phase[a] = "settings" /\ phase'[a] = next /\ phase' = Resumed(phase, next)
  <2> HIDE DEF Phases
  <2>1. phase \in [Attempts -> Phases]
    BY DEF Safe, Closing, CloseTyped
  <2> QED
    BY <1>8, <1>9, <2>1 DEF Resumed
<1>11. \A a \in Attempts :
         /\ decided'[a] = decided[a] \/ decided'[a] = Undecided
         /\ phase'[a] # "stopped" => decided'[a] = decided[a]
  BY DEF SettingsWritten
<1>12. CloseTyped' /\ Decisions'
  <2>1. decided' \in [Attempts -> Decided]
    BY DecisionTyped, NothingDecided DEF SettingsWritten
  <2>2. CloseTyped'
    BY <1>1, <1>10, <2>1 DEF Safe, Closing, CloseTyped
  <2>3. Decisions'
    BY <1>1, <1>5, <1>11, NothingDecided DEF Safe, Closing, Decisions
  <2> QED
    BY <2>2, <2>3
<1>13. NothingBeforeHydration'
  BY <1>5 DEF NothingBeforeHydration
<1>14. \A a \in Attempts : window # a /\ window' # a
  BY <1>1, OpenIsNobodys
<1>15. DocumentsFirst'
  <2> SUFFICES ASSUME NEW a \in Attempts, phase'[a] \in Committed
               PROVE  Kept(decided[a].text)'
    BY <1>14 DEF DocumentsFirst
  <2>1. phase[a] \in Committed /\ decided'[a] = decided[a]
    BY <1>10, <1>11 DEF Committed
  <2>2. Kept(decided[a].text)
    BY <2>1 DEF Safe, Closing, DocumentsFirst
  <2> QED
    BY <1>1, <2>1, <2>2 DEF Kept
<1>16. SettingsNext'
  <2> SUFFICES ASSUME NEW a \in Attempts, phase'[a] = "destroying"
               PROVE  file' >= decided'[a].settings
    BY <1>14 DEF SettingsNext
  <2>1. decided'[a] = decided[a]
    BY <1>11
  <2>2. decided[a].settings \in Nat /\ decided[a].settings <= settings /\ settings \in Nat
    BY DecisionTyped, NumbersTyped
  <2>3. CASE phase[a] = "destroying"
    <3>1. file >= decided[a].settings
      BY <2>3, <1>5 DEF Safe, Closing, SettingsNext
    <3> QED
      BY <3>1, <2>1, <2>2, <1>2, WrittenStays
  <2>4. CASE phase[a] # "destroying"
    <3>1. phase' # phase /\ next = "destroying"
      BY <2>4, <1>10
    <3>2. file' = settings
      BY <3>1, <1>5, <1>8
    <3> QED
      BY <3>2, <2>1, <2>2
  <2> QED
    BY <2>3, <2>4
<1> QED
  BY <1>2, <1>3, <1>12, <1>13, <1>15, <1>16 DEF Safe, Closing

\* The page: editing, rendering, saving and the settings.
LEMMA PageIsSafe ==
  ASSUME Safe, Settings \/ Edit \/ Render \/ ListenerRegistered \/ RequestSave \/ SaveApplied
  PROVE  Safe'
<1>1. Open /\ UNCHANGED <<phase, decided, asked, window>>
  BY DEF Settings, Edit, Render, ListenerRegistered, RequestSave, SaveApplied, closeVars
<1>2. Document' /\ Grows
  <2>1. CASE Settings \/ Render \/ ListenerRegistered
    <3>1. UNCHANGED <<text, dirty, disk, trash, missed, saves, stage>>
      BY <2>1 DEF Settings, Render, ListenerRegistered, closeVars, documentVars, queue
    <3> QED
      BY <3>1, DocumentStays, NumbersTyped DEF Safe
  <2>2. CASE RequestSave
    BY <2>2, EnqueueKeepsDocument DEF Safe, RequestSave
  <2> QED
    BY <2>1, <2>2, EditKeepsDocument, AppliedKeepsDocument DEF Safe
<1>3. Store' /\ Onward
  <2>1. CASE Settings
    BY <2>1, StoreStep, OnwardByItself DEF Safe, Settings
  <2>2. CASE Edit \/ Render \/ ListenerRegistered \/ RequestSave \/ SaveApplied
    BY <2>2, StoreStays DEF Safe, Edit, Render, ListenerRegistered, RequestSave, SaveApplied
  <2> QED
    BY <2>1, <2>2
<1>4. ((load \in Hydrating /\ UNCHANGED saves) \/ load' \notin Hydrating) /\ (blocked => blocked')
  <2>1. CASE Edit \/ Render \/ ListenerRegistered \/ RequestSave \/ SaveApplied
    <3>1. load \notin Hydrating
      BY <2>1, RunsHydrated DEF Edit, Render, ListenerRegistered, RequestSave, SaveApplied
    <3>2. UNCHANGED <<load, blocked>>
      BY <2>1 DEF Edit, Render, ListenerRegistered, RequestSave, SaveApplied, settingsVars
    <3> QED
      BY <3>1, <3>2
  <2>2. CASE Settings
    <3>1. UNCHANGED saves
      BY <2>2 DEF Settings, closeVars, documentVars, queue
    <3>2. CASE Hydrate
      BY <3>1, <3>2 DEF Hydrate, ReadSettings, ReadFails, MigrationFails, HydrationWrites,
                  Hydrating, Safe, Store, Hydration
    <3>3. UNCHANGED <<load, blocked>> \/ Hydrate
      BY <2>2 DEF Settings, SettingsByItself, SettingsByUser, WriteTimerFires, UpdateSettings,
             FlushPendingWrites, RetryPendingWrites, FlushPending
    <3> QED
      BY <3>1, <3>2, <3>3
  <2> QED
    BY <2>1, <2>2
<1>5. Closing'
  BY <1>1, <1>2, <1>3, <1>4, NobodyMoves
<1> QED
  BY <1>2, <1>3, <1>5 DEF Safe

\* Every step keeps the invariant.
LEMMA StepIsSafe ==
  ASSUME Safe, [Next]_vars
  PROVE  Safe'
<1>1. CASE Next
  <2>1. CASE SettingsWritten
    BY <2>1, SettingsWrittenIsSafe
  <2>2. CASE Settings \/ Edit \/ Render \/ ListenerRegistered \/ RequestSave
    BY <2>2, PageIsSafe
  <2>3. CASE NativeClose
    BY <2>3, DestroyedIsSafe DEF NativeClose
  <2>4. CASE SaveStep
    BY <2>4, PageIsSafe, SaveEndsIsSafe DEF SaveStep
  <2>5. ASSUME NEW choice \in {"save", "discard", "cancel"}, Choose(choice)
        PROVE  Safe'
    BY <2>5, ChooseIsSafe
  <2>6. ASSUME NEW a \in Attempts, RequestClose(a) \/ AutosaveFlushed(a) \/ SignalFails(a)
        PROVE  Safe'
    BY <2>6, RequestIsSafe, AutosaveFlushedIsSafe, SignalFailsIsSafe
  <2>7. ASSUME NEW a \in Attempts, Continue(a)
        PROVE  Safe'
    BY <2>7, ArchivedIsSafe, DestroyIsSafe DEF Continue
  <2> QED
    BY <1>1, <2>1, <2>2, <2>3, <2>4, <2>5, <2>6, <2>7 DEF Next
<1>2. CASE UNCHANGED vars
  <2>1. UNCHANGED settingsVars /\ UNCHANGED <<phase, decided, asked, window>>
    BY <1>2 DEF vars, closeVars
  <2>2. UNCHANGED <<text, dirty, disk, trash, missed, saves, stage>>
    BY <1>2 DEF vars, closeVars, documentVars, queue
  <2>3. Store' /\ UNCHANGED <<load, blocked, settings, file>>
    BY <2>1, StoreStays DEF Safe
  <2>4. Document'
    BY <2>2, DocumentStays, NumbersTyped DEF Safe
  <2>5. CloseTyped' /\ Decisions' /\ NothingBeforeHydration'
    BY <2>1, <2>2, <2>3 DEF Safe, Closing, CloseTyped, Decisions, NothingBeforeHydration
  <2>6. DocumentsFirst' /\ SettingsNext'
    BY <2>1, <2>2, <2>3 DEF Safe, Closing, DocumentsFirst, SettingsNext, Kept
  <2> QED
    BY <2>3, <2>4, <2>5, <2>6 DEF Safe, Closing
<1> QED
  BY <1>1, <1>2

\* The invariant holds in every reachable state: what a window that an attempt destroyed had
\* when the close was decided is kept, because an attempt passes through these stages in order.
THEOREM InvariantHolds == Spec => []Safe
<1>1. Init => Safe
  BY ClosingInitially
<1>2. Safe /\ [Next]_vars => Safe'
  BY StepIsSafe
<1> QED
  BY <1>1, <1>2, PTL DEF Spec

\* What the user had when a close was decided outlives the window (runClose of
\* appCloseCoordinator.ts, documentCloseGuard.ts), but for a text that a save marked clean and
\* did not write.
THEOREM WorkOutlivesWindows == Spec => []ClosedWorkIsKept
<1>1. Safe => ClosedWorkIsKept
  <2> SUFFICES ASSUME Safe PROVE ClosedWorkIsKept
    OBVIOUS
  <2>1. ClosedDocumentIsKept
    BY DEF Safe, Closing, DocumentsFirst, Kept, ClosedDocumentIsKept
  <2>2. ClosedSettingsAreKept
    BY DEF Safe, Closing, SettingsNext, ClosedSettingsAreKept
  <2> QED
    BY <2>1, <2>2 DEF ClosedWorkIsKept
<1> QED
  BY <1>1, InvariantHolds, PTL

\* Every step of the system moves the store onward, or not at all.
LEMMA StepIsOnward ==
  ASSUME Safe, [Next]_vars
  PROVE  Onward \/ UNCHANGED settingsVars
<1>1. ASSUME NEW a \in Attempts, FlushSettings(a)
      PROVE  Onward
  BY <1>1, OnwardByFlush DEF FlushSettings, Safe
<1>2. CASE SettingsWritten
  BY <1>2, OnwardByAnswer DEF SettingsWritten, Safe
<1>3. CASE Settings
  BY <1>3, OnwardByItself DEF Settings, Safe
<1>4. CASE Edit \/ Render \/ ListenerRegistered \/ NativeClose \/ RequestSave \/ SaveApplied
  BY <1>4 DEF Edit, Render, ListenerRegistered, NativeClose, RequestSave, SaveApplied
<1>5. ASSUME NEW choice \in {"save", "discard", "cancel"}, Choose(choice)
      PROVE  UNCHANGED settingsVars
  BY <1>5 DEF Choose
<1>6. ASSUME NEW a \in Attempts, RequestClose(a) \/ SignalFails(a)
      PROVE  UNCHANGED settingsVars
  BY <1>6 DEF RequestClose, SignalFails
<1>7. ASSUME NEW a \in Attempts, NEW ok \in BOOLEAN,
             AutosaveFlushed(a) \/ Archived(a, ok) \/ Destroy(a, ok)
      PROVE  Onward \/ UNCHANGED settingsVars
  <2>1. FlushSettings(a) \/ UNCHANGED settingsVars
    BY <1>7 DEF AutosaveFlushed, Archived, Destroy
  <2> QED
    BY <1>1, <2>1
<1>8. ASSUME NEW thrown \in BOOLEAN, SaveEnds(thrown)
      PROVE  Onward \/ UNCHANGED settingsVars
  <2> DEFINE by == Head(saves).by
  <2>1. (by \in Attempts /\ FlushSettings(by)) \/ UNCHANGED settingsVars
    <3>1. CASE by \notin Attempts
      BY <1>8, <3>1, CloseAssumption DEF SaveEnds
    <3>2. CASE by \in Attempts
      BY <1>8, <3>2 DEF SaveEnds, Saved
    <3> QED
      BY <3>1, <3>2
  <2> HIDE DEF by
  <2> QED
    BY <1>1, <2>1
<1>9. CASE UNCHANGED vars
  BY <1>9 DEF vars
<1> QED
  BY <1>2, <1>3, <1>4, <1>5, <1>6, <1>7, <1>8, <1>9 DEF Next, Continue, SaveStep

\* Settings the store could not read, and legacy settings it could not migrate, are left as they
\* are (persistenceBlocked of settingsStore.ts).
THEOREM UnreadSettingsStay == Spec => UnreadSettingsAreKept
<1>1. Safe /\ [Next]_vars => [blocked \/ file = Foreign => UNCHANGED <<file, marked>>]_settingsVars
  BY StepIsOnward DEF Onward
<1> QED
  BY <1>1, InvariantHolds, PTL DEF Spec, UnreadSettingsAreKept

\* The file never returns to an earlier version (the loop of flushPending).
THEOREM FileGoesOnward == Spec => FileNeverGoesBack
<1>1. Safe /\ [Next]_vars => [file # Foreign => file' >= file]_settingsVars
  BY StepIsOnward DEF Onward
<1> QED
  BY <1>1, InvariantHolds, PTL DEF Spec, FileNeverGoesBack
=============================================================================
