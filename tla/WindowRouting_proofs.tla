------------------------- MODULE WindowRouting_proofs -------------------------
(***************************************************************************)
(* What holds of WindowRouting for any documents, labels and launches.     *)
(*                                                                         *)
(* The routing lock is what everything rests on: while one launch works    *)
(* through its files, no other moves (Exclusive), so only the pages and    *)
(* the user change the windows and the requests under it, and they only    *)
(* take some away.  What a launch read of the windows therefore stays an   *)
(* upper bound of those that are listed (WorkersAreCurrent), which is      *)
(* enough to make a window under a label that nobody has, and to leave     *)
(* each retained request in a window that is or was there.                 *)
(***************************************************************************)
EXTENDS WindowRouting, WellFoundedInduction, TLAPS

-----------------------------------------------------------------------------
(* Labels.                                                                 *)

\* The least of some numbers is one of them.
LEMMA MinIsIn ==
  ASSUME NEW S \in SUBSET Nat, S # {}
  PROVE  Min(S) \in S
<1> DEFINE Less == {pair \in Nat \X Nat : pair[1] < pair[2]}
<1>1. IsWellFoundedOn(Less, Nat)
  BY NatLessThanWellFounded DEF OpToRel
<1>2. \A a \in Nat, b \in Nat : a < b => <<a, b>> \in Less
  OBVIOUS
<1> HIDE DEF Less
<1>3. PICK x \in S : \A y \in S : <<y, x>> \notin Less
  BY <1>1, WFMin
<1>4. ASSUME NEW y \in S
      PROVE  x =< y
  <2>1. x \in Nat /\ y \in Nat
    OBVIOUS
  <2>2. <<y, x>> \notin Less
    BY <1>3
  <2>3. ~ (y < x)
    BY <1>2, <2>1, <2>2
  <2> QED
    BY <2>1, <2>3
<1> QED
  BY <1>4 DEF Min

LEMMA MainIsWindow == MainWindow \in Windows /\ Windows \subseteq Nat
  BY RoutingAssumption DEF MainWindow, Windows

\* The first of some labels is one of them (the BTreeSet of the targets, the sorted windows).
LEMMA FirstLabelIsIn ==
  ASSUME NEW labels \in SUBSET Windows, labels # {}
  PROVE  FirstLabel(labels) \in labels
<1>1. CASE labels = {MainWindow}
  BY <1>1 DEF FirstLabel
<1>2. CASE labels # {MainWindow}
  <2>1. labels \ {MainWindow} \in SUBSET Nat /\ labels \ {MainWindow} # {}
    BY <1>2, MainIsWindow
  <2>2. Min(labels \ {MainWindow}) \in labels \ {MainWindow}
    BY <2>1, MinIsIn
  <2> QED
    BY <1>2, <2>2 DEF FirstLabel
<1> QED
  BY <1>1, <1>2

\* focus_target_or_create_main picks a label the application may have.
LEMMA SharedIsWindow ==
  ASSUME NEW seen \in SUBSET Windows
  PROVE  SharedWindow(seen) \in Windows
BY FirstLabelIsIn, MainIsWindow DEF SharedWindow

\* allocate_document_window_label picks one that is neither listed nor asked for.
LEMMA FreeLabelIsFree ==
  ASSUME NEW l, FreeLabels(l) # {}
  PROVE  /\ Min(FreeLabels(l)) \in Windows
         /\ Min(FreeLabels(l)) \notin launches[l].seen
         /\ Min(FreeLabels(l)) \notin Targets
<1>1. FreeLabels(l) \in SUBSET Nat /\ FreeLabels(l) \subseteq Windows
  BY RoutingAssumption DEF FreeLabels, Windows
<1>2. Min(FreeLabels(l)) \in FreeLabels(l)
  BY <1>1, MinIsIn
<1> QED
  BY <1>1, <1>2 DEF FreeLabels, UsedLabels

-----------------------------------------------------------------------------
(* Types.                                                                  *)

Filing == {"owner", "retained", "place", "create", "enqueue", "rollback", "notify"}
Targeting == {"create", "enqueue", "rollback", "notify"}
Steps == Outside \cup Filing \cup {"recover", "revive", "look", "activate"}

Workers ==
  [step : Steps, paths : Seq(Docs), blank : BOOLEAN, seen : SUBSET Windows, todo : SUBSET Windows,
   target : Windows \cup {Nobody}, created : BOOLEAN, fresh : BOOLEAN]

\* A worker that is about a file has one, one that has chosen a window knows it, and one that
\* gives the retained targets their windows has some left.
Equipped(worker) ==
  /\ worker.step \in Filing => worker.paths # <<>>
  /\ worker.step \in Targeting => worker.target \in Windows
  /\ worker.step = "revive" => worker.todo # {}

TypeOK ==
  /\ live \in SUBSET Windows /\ closing \in SUBSET Windows
  /\ owner \in [Docs -> Windows \cup {Nobody}]
  /\ retained \in SUBSET (Windows \X Docs) /\ applied \in SUBSET (Windows \X Docs)
  /\ ready \in BOOLEAN
  /\ launches \in [Launches -> Workers]
  /\ \A l \in Launches : Equipped(launches[l])
  /\ unfilled \in SUBSET Windows /\ left \in SUBSET Windows

LEMMA NewWorkers ==
  ASSUME NEW step \in Outside \cup {"look"}, NEW paths \in Seq(Docs)
  PROVE  Worker(step, paths) \in Workers /\ Equipped(Worker(step, paths))
BY DEF Worker, Workers, Equipped, Steps, Filing, Targeting, Outside

LEMMA BatchesAreSequences ==
  ASSUME NEW most \in Nat, NEW paths \in Batches(most)
  PROVE  paths \in Seq(Docs)
BY DEF Batches

\* What a worker becomes is all that changes of the launches.
LEMMA Becoming ==
  ASSUME TypeOK, NEW l \in Launches, NEW worker \in Workers, Equipped(worker), Become(l, worker)
  PROVE  /\ launches' \in [Launches -> Workers]
         /\ \A m \in Launches : Equipped(launches'[m])
         /\ launches'[l] = worker
         /\ \A m \in Launches : m # l => launches'[m] = launches[m]
BY DEF TypeOK, Become

LEMMA Failing ==
  ASSUME TypeOK, NEW l \in Launches, Fail(l)
  PROVE  /\ Worker("done", <<>>) \in Workers /\ Equipped(Worker("done", <<>>))
         /\ Become(l, Worker("done", <<>>))
<1>1. "done" \in Outside \cup {"look"} /\ <<>> \in Seq(Docs)
  BY DEF Outside
<1> QED
  BY <1>1, NewWorkers DEF Fail

\* A worker that goes to a step it is equipped for.
LEMMA Going ==
  ASSUME NEW worker \in Workers, Equipped(worker), NEW step \in Steps,
         step \in Filing => worker.step \in Filing,
         step \in Targeting => worker.step \in Targeting,
         step # "revive"
  PROVE  LET moved == [worker EXCEPT !.step = step]
         IN moved \in Workers /\ Equipped(moved)
BY DEF Workers, Equipped

\* A worker that has chosen its window.
LEMMA Routing ==
  ASSUME NEW worker \in Workers, Equipped(worker), worker.step \in Filing,
         NEW w \in Windows, NEW fresh \in BOOLEAN
  PROVE  LET routed == [worker EXCEPT !.step = IF w \in worker.seen THEN "enqueue" ELSE "create",
                                      !.seen = {}, !.target = w, !.fresh = fresh]
         IN routed \in Workers /\ Equipped(routed)
BY DEF Workers, Equipped, Steps, Filing, Targeting
-----------------------------------------------------------------------------
(* Types: every step keeps them.                                           *)

\* A window that is made has a label of the application's.
LEMMA CreateTyped ==
  ASSUME TypeOK, NEW w \in Windows, Create(w)
  PROVE  live' \in SUBSET Windows /\ closing' \in SUBSET Windows /\ left' \in SUBSET Windows
BY DEF TypeOK, Create

\* A worker that becomes a worker keeps the types, if the rest of its step does.
LEMMA WorkerTyped ==
  ASSUME TypeOK, NEW l \in Launches, NEW worker \in Workers, Equipped(worker), Become(l, worker),
         live' \in SUBSET Windows, closing' \in SUBSET Windows, left' \in SUBSET Windows,
         owner' \in [Docs -> Windows \cup {Nobody}], applied' = applied,
         retained' \in SUBSET (Windows \X Docs), unfilled' \in SUBSET Windows, ready' \in BOOLEAN
  PROVE  TypeOK'
BY Becoming DEF TypeOK

LEMMA FailTyped ==
  ASSUME TypeOK, NEW l \in Launches, Fail(l),
         live' \in SUBSET Windows, closing' \in SUBSET Windows, left' \in SUBSET Windows,
         owner' \in [Docs -> Windows \cup {Nobody}], applied' = applied,
         retained' \in SUBSET (Windows \X Docs), unfilled' \in SUBSET Windows, ready' \in BOOLEAN
  PROVE  TypeOK'
BY Failing, WorkerTyped

\* The worker of a launch, by the step it is at.
LEMMA WorkerAt ==
  ASSUME TypeOK, NEW l \in Launches
  PROVE  /\ launches[l] \in Workers /\ Equipped(launches[l])
         /\ launches[l].step \in Filing => Document(l) \in Docs
BY DEF TypeOK, Workers, Equipped, Document

LEMMA LaunchTyped ==
  ASSUME TypeOK, NEW l \in Launches, Launch(l)
  PROVE  TypeOK'
<1>1. PICK paths \in Batches(LaunchFiles) : Become(l, Worker("launched", paths))
  BY DEF Launch
<1>2. paths \in Seq(Docs) /\ "launched" \in Outside \cup {"look"}
  BY <1>1, BatchesAreSequences, RoutingAssumption DEF Outside
<1>3. Worker("launched", paths) \in Workers /\ Equipped(Worker("launched", paths))
  BY <1>2, NewWorkers
<1> QED
  BY <1>1, <1>3, WorkerTyped DEF Launch, TypeOK, windows, documents, history

LEMMA WaitUntilReadyTyped ==
  ASSUME TypeOK, NEW l \in Launches, WaitUntilReady(l)
  PROVE  TypeOK'
<1> USE DEF WaitUntilReady, windows, documents, history
<1>1. CASE Fail(l)
  BY <1>1, FailTyped DEF TypeOK
<1>2. CASE Goto(l, "waiting")
  <2> DEFINE moved == [launches[l] EXCEPT !.step = "waiting"]
  <2>1. moved \in Workers /\ Equipped(moved)
    BY WorkerAt, Going DEF Steps, Outside, Filing, Targeting
  <2> QED
    BY <1>2, <2>1, WorkerTyped DEF Goto, TypeOK
<1> QED
  BY <1>1, <1>2 DEF TimeOut

LEMMA AcquireTyped ==
  ASSUME TypeOK, NEW l \in Launches, Acquire(l)
  PROVE  TypeOK'
<1> DEFINE moved == [launches[l] EXCEPT !.step = IF l = Startup THEN "recover" ELSE "look",
                                        !.blank = l = Startup]
<1>1. moved \in Workers /\ Equipped(moved)
  BY WorkerAt DEF Workers, Equipped, Steps, Outside, Filing, Targeting
<1> QED
  BY <1>1, WorkerTyped DEF Acquire, TypeOK, windows, documents, history

LEMMA ReadTargetsTyped ==
  ASSUME TypeOK, NEW l \in Launches, ReadTargets(l)
  PROVE  TypeOK'
<1> DEFINE moved == [launches[l] EXCEPT !.step = IF Targets = {} THEN "look" ELSE "revive",
                                        !.seen = live, !.todo = Targets]
<1>1. Targets \in SUBSET Windows /\ live \in SUBSET Windows
  BY DEF TypeOK, Targets
<1>2. moved \in Workers /\ Equipped(moved)
  BY <1>1, WorkerAt DEF Workers, Equipped, Steps, Outside, Filing, Targeting
<1> QED
  BY <1>2, WorkerTyped DEF ReadTargets, TypeOK, windows, documents, history

\* One target less, and on to the files when it was the last.
LEMMA RevivedTyped ==
  ASSUME TypeOK, NEW l \in Launches, At(l, "revive"), NEW w, Revived(l, w)
  PROVE  \E worker \in Workers : Equipped(worker) /\ Become(l, worker)
<1> DEFINE rest == launches[l].todo \ {w}
           over == [launches[l] EXCEPT !.step = "look", !.seen = {}, !.todo = {}]
           more == [launches[l] EXCEPT !.todo = rest]
<1>1. over \in Workers /\ Equipped(over)
  BY WorkerAt DEF Workers, Equipped, Steps, Outside, Filing, Targeting
<1>2. rest # {} => more \in Workers /\ Equipped(more)
  BY WorkerAt DEF Workers, Equipped, Steps, Outside, Filing, Targeting
<1>3. Become(l, IF rest = {} THEN over ELSE more)
  BY DEF Revived
<1> QED
  BY <1>1, <1>2, <1>3

LEMMA ReviveTyped ==
  ASSUME TypeOK, NEW l \in Launches, Revive(l)
  PROVE  TypeOK'
<1> DEFINE w == FirstLabel(launches[l].todo)
<1> USE DEF windows, documents, history
<1>1. At(l, "revive") /\ UNCHANGED <<documents, ready, crashes>> /\ unfilled' = unfilled
  BY DEF Revive
<1>2. w \in Windows
  <2>1. launches[l].todo \in SUBSET Windows /\ launches[l].todo # {}
    BY <1>1, WorkerAt DEF Workers, Equipped, At
  <2> QED
    BY <2>1, FirstLabelIsIn
<1>3. live' \in SUBSET Windows /\ closing' \in SUBSET Windows /\ left' \in SUBSET Windows
  BY <1>2, CreateTyped DEF Revive, TypeOK
<1>4. CASE Fail(l)
  BY <1>1, <1>3, <1>4, FailTyped DEF TypeOK
<1>5. CASE Revived(l, w)
  BY <1>1, <1>3, <1>5, RevivedTyped, WorkerTyped DEF TypeOK
<1> QED
  BY <1>4, <1>5 DEF Revive

LEMMA LookTyped ==
  ASSUME TypeOK, NEW l \in Launches, Look(l)
  PROVE  TypeOK'
<1> DEFINE moved == [launches[l] EXCEPT !.step = IF launches[l].paths = <<>> THEN "activate" ELSE "owner",
                                        !.seen = live]
<1>1. moved \in Workers /\ Equipped(moved)
  BY WorkerAt DEF TypeOK, Workers, Equipped, Steps, Outside, Filing, Targeting
<1> QED
  BY <1>1, WorkerTyped DEF Look, TypeOK, windows, documents, history

\* A worker that keeps its file and window goes on, chooses a window, or fails.
LEMMA ChoiceTyped ==
  ASSUME TypeOK, NEW l \in Launches, launches[l].step \in Filing,
         UNCHANGED <<windows, documents, ready, history>>,
         \/ Goto(l, "retained") \/ Goto(l, "place") \/ Fail(l)
         \/ \E w \in Windows, fresh \in BOOLEAN : Route(l, w, fresh)
  PROVE  TypeOK'
<1> USE DEF windows, documents, history
<1>1. launches[l] \in Workers /\ Equipped(launches[l])
  BY WorkerAt
<1>2. CASE Fail(l)
  BY <1>2, FailTyped DEF TypeOK
<1>3. ASSUME NEW step \in {"retained", "place"}, Goto(l, step)
      PROVE  TypeOK'
  <2> DEFINE moved == [launches[l] EXCEPT !.step = step]
  <2>1. step \in Steps /\ step \notin Targeting /\ step # "revive"
    BY DEF Steps, Filing, Targeting
  <2>2. moved \in Workers /\ Equipped(moved)
    BY <1>1, <2>1, Going
  <2> QED
    BY <1>3, <2>2, WorkerTyped DEF Goto, TypeOK
<1>4. ASSUME NEW w \in Windows, NEW fresh \in BOOLEAN, Route(l, w, fresh)
      PROVE  TypeOK'
  <2> DEFINE routed == [launches[l] EXCEPT !.step = IF w \in launches[l].seen THEN "enqueue" ELSE "create",
                                           !.seen = {}, !.target = w, !.fresh = fresh]
  <2>1. routed \in Workers /\ Equipped(routed)
    BY <1>1, Routing
  <2> QED
    BY <1>4, <2>1, WorkerTyped DEF Route, TypeOK
<1> QED
  BY <1>2, <1>3, <1>4

LEMMA FindOwnerTyped ==
  ASSUME TypeOK, NEW l \in Launches, FindOwner(l)
  PROVE  TypeOK'
<1>1. launches[l].step \in Filing
  BY DEF FindOwner, At, Filing
<1>2. owner[Document(l)] # Nobody => owner[Document(l)] \in Windows
  BY <1>1, WorkerAt DEF TypeOK
<1> QED
  BY <1>1, <1>2, ChoiceTyped DEF FindOwner

LEMMA FindTargetTyped ==
  ASSUME TypeOK, NEW l \in Launches, FindTarget(l)
  PROVE  TypeOK'
<1>1. launches[l].step \in Filing
  BY DEF FindTarget, At, Filing
<1> QED
  BY <1>1, ChoiceTyped DEF FindTarget

\* Place gives the document to a window that is listed or has a free label.
LEMMA PlaceChooses ==
  ASSUME TypeOK, NEW l \in Launches, Place(l)
  PROVE  Fail(l) \/ \E w \in Windows, fresh \in BOOLEAN : Route(l, w, fresh)
<1>1. launches[l].seen \in SUBSET Windows
  BY WorkerAt DEF Workers
<1>2. CASE Aggregate(l)
  BY <1>1, <1>2, SharedIsWindow DEF Aggregate
<1>3. CASE Separate(l)
  BY <1>3, FreeLabelIsFree, MainIsWindow DEF Separate
<1> QED
  BY <1>2, <1>3 DEF Place

LEMMA PlaceTyped ==
  ASSUME TypeOK, NEW l \in Launches, Place(l)
  PROVE  TypeOK'
<1>1. launches[l].step \in Filing
  BY DEF Place, At, Filing
<1> QED
  BY <1>1, PlaceChooses, ChoiceTyped DEF Place
LEMMA CreateWindowTyped ==
  ASSUME TypeOK, NEW l \in Launches, CreateWindow(l)
  PROVE  TypeOK'
<1> DEFINE w == launches[l].target
           moved == [launches[l] EXCEPT !.step = "enqueue", !.created = TRUE]
<1> USE DEF windows, documents, history
<1>1. At(l, "create") /\ UNCHANGED <<documents, ready, crashes>>
  BY DEF CreateWindow
<1>2. w \in Windows
  BY <1>1, WorkerAt DEF Equipped, Targeting, At
<1>3. CASE Fail(l) /\ UNCHANGED <<windows, history>>
  BY <1>1, <1>3, FailTyped DEF TypeOK
<1>4. CASE Create(w) /\ unfilled' = unfilled \cup {w} /\ Become(l, moved)
  <2>1. live' \in SUBSET Windows /\ closing' \in SUBSET Windows /\ left' \in SUBSET Windows
    BY <1>2, <1>4, CreateTyped
  <2>2. moved \in Workers /\ Equipped(moved)
    BY <1>1, <1>2, WorkerAt DEF Workers, Equipped, Steps, Outside, Filing, Targeting, At
  <2> QED
    BY <1>1, <1>2, <1>4, <2>1, <2>2, WorkerTyped DEF TypeOK
<1> QED
  BY <1>3, <1>4 DEF CreateWindow

LEMMA EnqueueTyped ==
  ASSUME TypeOK, NEW l \in Launches, Enqueue(l)
  PROVE  TypeOK'
<1> DEFINE w == launches[l].target
           served == [launches[l] EXCEPT !.step = "notify", !.created = FALSE, !.fresh = FALSE]
           undone == [launches[l] EXCEPT !.step = "rollback"]
<1> USE DEF windows
<1>1. At(l, "enqueue") /\ UNCHANGED <<windows, owner, applied, ready, left, crashes>>
  BY DEF Enqueue
<1>2. w \in Windows /\ Document(l) \in Docs
  BY <1>1, WorkerAt DEF Equipped, Targeting, Filing, At
<1>3. launches[l] \in Workers /\ Equipped(launches[l])
  BY WorkerAt
<1>4. CASE retained' = retained \cup {<<w, Document(l)>>} /\ unfilled' = unfilled \ {w} /\ Become(l, served)
  <2>1. served \in Workers /\ Equipped(served)
    BY <1>1, <1>3 DEF Workers, Equipped, Steps, Outside, Filing, Targeting, At
  <2> QED
    BY <1>1, <1>2, <1>4, <2>1, WorkerTyped DEF TypeOK
<1>5. CASE EnqueueFails(l) /\ UNCHANGED <<retained, unfilled>>
  <2>1. undone \in Workers /\ Equipped(undone)
    BY <1>1, <1>3 DEF Workers, Equipped, Steps, Outside, Filing, Targeting, At
  <2>2. CASE Become(l, undone)
    BY <1>1, <1>5, <2>1, <2>2, WorkerTyped DEF TypeOK
  <2>3. CASE Fail(l)
    BY <1>1, <1>5, <2>3, FailTyped DEF TypeOK
  <2> QED
    BY <1>5, <2>2, <2>3 DEF EnqueueFails, Goto
<1> QED
  BY <1>4, <1>5 DEF Enqueue

LEMMA RollBackTyped ==
  ASSUME TypeOK, NEW l \in Launches, RollBack(l)
  PROVE  TypeOK'
<1>1. At(l, "rollback") /\ Fail(l) /\ UNCHANGED <<live, retained, applied, ready, crashes>>
  BY DEF RollBack
<1>2. launches[l].target \in Windows
  BY <1>1, WorkerAt DEF Equipped, Targeting, At
<1>3. /\ closing' \in SUBSET Windows /\ left' \in SUBSET Windows /\ unfilled' \in SUBSET Windows
      /\ owner' \in [Docs -> Windows \cup {Nobody}]
  BY <1>2 DEF RollBack, TypeOK
<1> QED
  BY <1>1, <1>3, FailTyped DEF TypeOK

\* The next file, or the end of the batch.
LEMMA NextFileTyped ==
  ASSUME TypeOK, NEW l \in Launches, At(l, "notify"), NextFile(l)
  PROVE  /\ ready' \in BOOLEAN
         /\ \E worker \in Workers : Equipped(worker) /\ Become(l, worker)
<1> DEFINE rest == Tail(launches[l].paths)
           more == [Worker("look", rest) EXCEPT !.blank = launches[l].blank /\ launches[l].target # MainWindow]
<1>1. rest \in Seq(Docs)
  BY WorkerAt DEF Workers, Equipped, Filing, At
<1>2. Worker("done", <<>>) \in Workers /\ Equipped(Worker("done", <<>>))
  <2>1. "done" \in Outside \cup {"look"} /\ <<>> \in Seq(Docs)
    BY DEF Outside
  <2> QED
    BY <2>1, NewWorkers
<1>3. more \in Workers /\ Equipped(more)
  <2>1. Worker("look", rest) \in Workers /\ Equipped(Worker("look", rest))
    BY <1>1, NewWorkers
  <2> QED
    BY <2>1 DEF Workers, Equipped
<1>4. ready' \in BOOLEAN
  BY DEF NextFile, TypeOK
<1> QED
  BY <1>2, <1>3, <1>4 DEF NextFile

LEMMA NotifyTyped ==
  ASSUME TypeOK, NEW l \in Launches, Notify(l)
  PROVE  TypeOK'
<1> USE DEF Notify, windows, documents, history
<1>1. CASE NextFile(l)
  BY <1>1, NextFileTyped, WorkerTyped DEF TypeOK
<1>2. CASE Fail(l) /\ ready' = ready
  BY <1>2, FailTyped DEF TypeOK
<1> QED
  BY <1>1, <1>2

LEMMA ActivateTyped ==
  ASSUME TypeOK, NEW l \in Launches, Activate(l)
  PROVE  TypeOK'
<1> DEFINE w == SharedWindow(launches[l].seen)
<1> USE DEF windows, documents
<1>1. w \in Windows
  BY WorkerAt, SharedIsWindow DEF Workers
<1>2. live' \in SUBSET Windows /\ closing' \in SUBSET Windows /\ left' \in SUBSET Windows
  BY <1>1, CreateTyped DEF Activate, TypeOK
<1>3. Fail(l) /\ ready' \in BOOLEAN
  BY DEF Activate, Activated, Fail, TypeOK
<1> QED
  BY <1>2, <1>3, FailTyped DEF Activate, TypeOK

\* What the pages and the user do.
LEMMA PagesTyped ==
  ASSUME TypeOK, NEW w \in Windows, NEW d \in Docs,
         OpenRequested(w, d) \/ Acknowledge(w, d) \/ OpenChosen(w, d)
  PROVE  TypeOK'
<1> USE DEF windows, documents, history, TypeOK
<1>1. CASE OpenRequested(w, d)
  BY <1>1 DEF OpenRequested, Open
<1>2. CASE Acknowledge(w, d)
  BY <1>2 DEF Acknowledge
<1>3. CASE OpenChosen(w, d)
  BY <1>3 DEF OpenChosen, Open
<1> QED
  BY <1>1, <1>2, <1>3

\* The launches of a process that has just started.
LEMMA StartedTyped ==
  ASSUME NEW paths \in Seq(Docs)
  PROVE  /\ Worker("waiting", paths) \in Workers /\ Equipped(Worker("waiting", paths))
         /\ Worker("unborn", <<>>) \in Workers /\ Equipped(Worker("unborn", <<>>))
         /\ Worker("done", <<>>) \in Workers /\ Equipped(Worker("done", <<>>))
<1>1. {"waiting", "unborn", "done"} \subseteq Outside \cup {"look"} /\ <<>> \in Seq(Docs)
  BY DEF Outside
<1> QED
  BY <1>1, NewWorkers

LEMMA CrashTyped ==
  ASSUME TypeOK, Crash
  PROVE  TypeOK'
<1>1. PICK paths \in Batches(LaunchFiles) :
        launches' = [l \in Launches |->
          IF l = Startup THEN Worker("waiting", paths)
          ELSE IF At(l, "unborn") THEN launches[l] ELSE Worker("done", <<>>)]
  BY DEF Crash
<1>2. paths \in Seq(Docs)
  BY <1>1, BatchesAreSequences, RoutingAssumption
<1>3. launches' \in [Launches -> Workers] /\ \A l \in Launches : Equipped(launches'[l])
  <2>1. \A l \in Launches : launches[l] \in Workers /\ Equipped(launches[l])
    BY DEF TypeOK
  <2> QED
    BY <1>1, <1>2, <2>1, StartedTyped
<1> QED
  BY <1>3, MainIsWindow DEF Crash, TypeOK

LEMMA InitTyped == Init => TypeOK
<1> SUFFICES ASSUME Init PROVE TypeOK
  OBVIOUS
<1>1. PICK paths \in Batches(StartFiles) :
        launches = [l \in Launches |-> IF l = Startup THEN Worker("waiting", paths) ELSE Worker("unborn", <<>>)]
  BY DEF Init
<1>2. paths \in Seq(Docs)
  BY <1>1, BatchesAreSequences, RoutingAssumption
<1>3. launches \in [Launches -> Workers] /\ \A l \in Launches : Equipped(launches[l])
  BY <1>1, <1>2, StartedTyped
<1> QED
  BY <1>3, MainIsWindow DEF Init, TypeOK

LEMMA NextTyped == TypeOK /\ [Next]_vars => TypeOK'
<1> SUFFICES ASSUME TypeOK, [Next]_vars PROVE TypeOK'
  OBVIOUS
<1>1. ASSUME NEW l \in Secondary, Launch(l)
      PROVE  TypeOK'
  BY <1>1, LaunchTyped DEF Launches
<1>2. ASSUME NEW l \in Launches, Work(l)
      PROVE  TypeOK'
  BY <1>2, WaitUntilReadyTyped, AcquireTyped, ReadTargetsTyped, ReviveTyped, LookTyped, FindOwnerTyped,
     FindTargetTyped, PlaceTyped, CreateWindowTyped, EnqueueTyped, RollBackTyped, NotifyTyped,
     ActivateTyped DEF Work
<1>3. ASSUME NEW w \in Windows, NEW d \in Docs,
             OpenRequested(w, d) \/ Acknowledge(w, d) \/ OpenChosen(w, d)
      PROVE  TypeOK'
  BY <1>3, PagesTyped
<1>4. ASSUME NEW w \in Windows, Close(w) \/ Delist(w)
      PROVE  TypeOK'
  BY <1>4 DEF Close, Delist, TypeOK, windows, documents, history
<1>5. CASE Crash
  BY <1>5, CrashTyped
<1>6. CASE UNCHANGED vars
  BY <1>6 DEF vars, windows, documents, history, TypeOK
<1> QED
  BY <1>1, <1>2, <1>3, <1>4, <1>5, <1>6 DEF Next

\* Type correctness.
THEOREM TypeCorrect == Spec => []TypeOK
<1> QED
  BY InitTyped, NextTyped, PTL DEF Spec
-----------------------------------------------------------------------------
(* The invariant.                                                          *)

Inside(l) == launches[l].step \notin Outside

\* The routing lock.
Exclusive == \A l \in Launches, m \in Launches : Inside(l) /\ Inside(m) => l = m

\* A window that is being destroyed is still listed, and one that was closed is not forgotten.
LabelsLeave == closing \subseteq live \cap left

\* What a worker has read of the windows and the requests still holds of those that there are:
\* windows and requests may have gone, but none has come.
Current(worker) ==
  /\ worker.step \in {"owner", "retained", "place", "activate"} =>
       live \subseteq worker.seen /\ worker.seen \subseteq live \cup left
  /\ worker.step = "create" => worker.target \notin live
  /\ worker.step = "enqueue" => worker.target \in live \cup left
  /\ worker.fresh /\ worker.step \in {"create", "enqueue"} => worker.target \notin Targets

WorkersAreCurrent == \A l \in Launches : Current(launches[l])

\* A window without a request is still in the hands of the launch that made it, or is going.
Holds(worker, w) ==
  worker.step \in {"enqueue", "rollback"} /\ worker.created /\ worker.target = w

UnfilledIsHeld ==
  \A w \in unfilled : w \in closing \/ \E l \in Launches : Holds(launches[l], w)

\* The start leaves no target without a window, but those it has still to give one.
Recovered == Filing \cup {"look", "activate"}

StartRecovers(worker) ==
  /\ worker.step \in Recovered => Targets \subseteq live \cup left
  /\ worker.step = "revive" => Targets \ worker.todo \subseteq live \cup left

TargetsAreKnown ==
  /\ ready => Targets \subseteq live \cup left
  /\ StartRecovers(launches[Startup])

\* No other launch routes before the start is over.
StartComesFirst ==
  ~ready => \A l \in Secondary : launches[l].step \in {"unborn", "launched", "done"}

IInv ==
  /\ TypeOK
  /\ Exclusive
  /\ LabelsLeave
  /\ WorkersAreCurrent
  /\ UnfilledIsHeld
  /\ TargetsAreKnown
  /\ StartComesFirst

LEMMA StepsDiffer ==
  /\ Outside \cap {"recover", "revive", "look", "activate", "owner", "retained", "place", "create",
                   "enqueue", "rollback", "notify"} = {}
  /\ Outside = {"unborn", "launched", "waiting", "done"}
  /\ Recovered = {"look", "activate", "owner", "retained", "place", "create", "enqueue", "rollback", "notify"}
BY DEF Outside, Recovered, Filing

\* A worker outside is current, whatever happens to the windows.
LEMMA OutsideIsCurrent ==
  ASSUME NEW worker, worker.step \in Outside
  PROVE  Current(worker) /\ StartRecovers(worker) /\ \A w : ~Holds(worker, w)
BY StepsDiffer DEF Current, StartRecovers, Holds

\* The step of a worker inside: the others are outside, so only what it leaves behind counts.
LEMMA WorkerSteps ==
  ASSUME IInv, TypeOK', NEW l \in Launches, Inside(l),
         NEW worker \in Workers, Equipped(worker), Become(l, worker),
         worker.step \notin {"unborn", "launched", "waiting"},
         LabelsLeave', Current(worker)',
         \A w \in unfilled' : w \in closing' \/ Holds(worker, w),
         ready => ready',
         ready' => (Targets \subseteq live \cup left)',
         l = Startup => StartRecovers(worker)'
  PROVE  IInv'
<1>1. /\ launches'[l] = worker
      /\ \A m \in Launches : m # l => launches'[m] = launches[m]
  BY Becoming DEF IInv
<1>2. \A m \in Launches : m # l => launches[m].step \in Outside
  BY DEF IInv, Exclusive, Inside
<1>3. Exclusive'
  BY <1>1, <1>2 DEF Exclusive, Inside
<1>4. WorkersAreCurrent'
  <2> SUFFICES ASSUME NEW m \in Launches PROVE Current(launches[m])'
    BY DEF WorkersAreCurrent
  <2>1. CASE m = l
    BY <1>1, <2>1 DEF Current
  <2>2. CASE m # l
    <3>1. launches'[m].step \in Outside
      BY <1>1, <1>2, <2>2
    <3> QED
      BY <3>1, StepsDiffer DEF Current
  <2> QED
    BY <2>1, <2>2
<1>5. UnfilledIsHeld'
  BY <1>1 DEF UnfilledIsHeld, Holds
<1>6. TargetsAreKnown'
  <2>1. CASE l = Startup
    BY <1>1, <2>1 DEF TargetsAreKnown, StartRecovers
  <2>2. CASE l # Startup
    <3>1. launches'[Startup].step \in Outside
      BY <1>1, <1>2, <2>2 DEF Launches
    <3> QED
      BY <3>1, StepsDiffer DEF TargetsAreKnown, StartRecovers
  <2> QED
    BY <2>1, <2>2
<1>7. StartComesFirst'
  <2> SUFFICES ASSUME ~ready', NEW m \in Secondary
               PROVE  launches'[m].step \in {"unborn", "launched", "done"}
    BY DEF StartComesFirst
  <2>1. launches[m].step \in {"unborn", "launched", "done"} /\ m \in Launches
    BY DEF IInv, StartComesFirst, Launches
  <2>2. m # l
    BY <2>1, StepsDiffer DEF Inside
  <2> QED
    BY <1>1, <2>1, <2>2
<1> QED
  BY <1>3, <1>4, <1>5, <1>6, <1>7 DEF IInv

\* A worker that ends its launch and leaves the windows complete.
LEMMA WorkerFails ==
  ASSUME IInv, TypeOK', NEW l \in Launches, Inside(l), Fail(l),
         LabelsLeave', unfilled' \subseteq closing',
         ready => ready', ready' => (Targets \subseteq live \cup left)'
  PROVE  IInv'
<1> DEFINE worker == Worker("done", <<>>)
<1>1. worker \in Workers /\ Equipped(worker) /\ Become(l, worker)
  BY Failing DEF IInv
<1>2. worker.step = "done"
  BY DEF Worker
<1>3. Current(worker)' /\ StartRecovers(worker)'
  BY <1>2, StepsDiffer DEF Current, StartRecovers
<1> HIDE DEF worker
<1> QED
  BY <1>1, <1>2, <1>3, WorkerSteps

\* Nothing is unfilled that the worker inside does not hold.
LEMMA HeldByInside ==
  ASSUME IInv, NEW l \in Launches, Inside(l), NEW w \in unfilled
  PROVE  w \in closing \/ Holds(launches[l], w)
<1>1. ASSUME NEW m \in Launches, Holds(launches[m], w)
      PROVE  Holds(launches[l], w)
  <2>1. Inside(m)
    BY <1>1, StepsDiffer DEF Holds, Inside
  <2> QED
    BY <1>1, <2>1 DEF IInv, Exclusive
<1> QED
  BY <1>1 DEF IInv, UnfilledIsHeld
\* A worker that only changes itself.
LEMMA WorkerThinks ==
  ASSUME IInv, TypeOK', NEW l \in Launches, Inside(l),
         UNCHANGED <<windows, documents, ready, history>>,
         NEW worker \in Workers, Equipped(worker), Become(l, worker),
         worker.step \notin {"unborn", "launched", "waiting"},
         Current(worker),
         \A w \in unfilled : Holds(launches[l], w) => Holds(worker, w),
         l = Startup => StartRecovers(worker)
  PROVE  IInv'
<1> USE DEF windows, documents, history
<1>1. LabelsLeave'
  BY DEF IInv, LabelsLeave
<1>2. Current(worker)' /\ (l = Startup => StartRecovers(worker)')
  BY DEF Current, StartRecovers, Targets
<1>3. \A w \in unfilled' : w \in closing' \/ Holds(worker, w)
  BY HeldByInside
<1>4. ready' => (Targets \subseteq live \cup left)'
  BY DEF IInv, TargetsAreKnown, Targets
<1> QED
  BY <1>1, <1>2, <1>3, <1>4, WorkerSteps

\* A worker that made no window or gave it its request may fail at any step.
LEMMA WorkerGivesUp ==
  ASSUME IInv, TypeOK', NEW l \in Launches, Inside(l), Fail(l),
         UNCHANGED <<windows, documents, ready, history>>,
         \A w \in unfilled : ~Holds(launches[l], w)
  PROVE  IInv'
<1> USE DEF windows, documents, history
<1>1. LabelsLeave'
  BY DEF IInv, LabelsLeave
<1>2. unfilled' \subseteq closing'
  BY HeldByInside
<1>3. ready' => (Targets \subseteq live \cup left)'
  BY DEF IInv, TargetsAreKnown, Targets
<1> QED
  BY <1>1, <1>2, <1>3, WorkerFails

\* The start works on targets that have a window, once it has been through them.
LEMMA StartKnows ==
  ASSUME IInv, NEW l \in Launches, l = Startup \/ ready, launches[l].step \in Recovered
  PROVE  Targets \subseteq live \cup left
BY DEF IInv, TargetsAreKnown, StartRecovers

\* Whoever is inside is the start, or comes after it.
LEMMA InsideIsStarted ==
  ASSUME IInv, NEW l \in Launches, Inside(l)
  PROVE  l = Startup \/ ready
BY StepsDiffer DEF IInv, StartComesFirst, Inside, Launches

\* What makes a window: the label is new, and no longer one of a window that is gone.
LEMMA CreateKeeps ==
  ASSUME IInv, NEW w, Create(w)
  PROVE  /\ LabelsLeave' /\ closing' = closing
         /\ live' = live \cup {w}
         /\ live' \cup left' = live \cup left \cup {w}
BY DEF IInv, LabelsLeave, Create

LEMMA ReadTargetsKeeps ==
  ASSUME IInv, TypeOK', NEW l \in Launches, ReadTargets(l)
  PROVE  IInv'
<1>1. launches[l] \in Workers /\ Equipped(launches[l]) /\ At(l, "recover")
  BY WorkerAt DEF IInv, ReadTargets
<1>2. Inside(l) /\ (\A w : ~Holds(launches[l], w))
  BY <1>1, StepsDiffer DEF Inside, At, Holds
<1>3. Targets \in SUBSET Windows /\ live \in SUBSET Windows
  BY DEF IInv, TypeOK, Targets
<1>4. PICK worker : worker = [launches[l] EXCEPT !.step = IF Targets = {} THEN "look" ELSE "revive",
                                                 !.seen = live, !.todo = Targets]
  OBVIOUS
<1>5. worker \in Workers /\ Equipped(worker) /\ worker.todo = Targets
  BY <1>1, <1>3, <1>4 DEF Workers, Equipped, Steps, Outside, Filing, Targeting
<1>6. worker.step = (IF Targets = {} THEN "look" ELSE "revive")
  BY <1>1, <1>4 DEF Workers
<1>7. Current(worker) /\ StartRecovers(worker)
  BY <1>5, <1>6, StepsDiffer DEF Current, StartRecovers
<1>8. Become(l, worker)
  BY <1>4 DEF ReadTargets
<1> QED
  BY <1>2, <1>5, <1>6, <1>7, <1>8, WorkerThinks DEF ReadTargets

LEMMA ReviveKeeps ==
  ASSUME IInv, TypeOK', NEW l \in Launches, Revive(l)
  PROVE  IInv'
<1>1. launches[l] \in Workers /\ Equipped(launches[l]) /\ At(l, "revive") /\ UNCHANGED <<documents, ready, crashes>>
  BY WorkerAt DEF IInv, Revive
<1>2. Inside(l) /\ (\A u : ~Holds(launches[l], u))
  BY <1>1, StepsDiffer DEF Inside, At, Holds
<1>3. unfilled \subseteq closing
  BY <1>2, HeldByInside
<1>4. PICK w : w = FirstLabel(launches[l].todo)
  OBVIOUS
<1>5. l = Startup => Targets \ launches[l].todo \subseteq live \cup left
  BY <1>1 DEF IInv, TargetsAreKnown, StartRecovers, At
<1>6. /\ LabelsLeave' /\ closing' = closing /\ unfilled' = unfilled /\ Targets' = Targets
      /\ live \cup left \subseteq live' \cup left'
  BY CreateKeeps DEF Revive, IInv, LabelsLeave, Targets, windows, documents, history
<1>7. ready' = ready /\ (ready' => (Targets \subseteq live \cup left)')
  BY <1>1, <1>6 DEF IInv, TargetsAreKnown
<1>8. CASE Fail(l)
  BY <1>2, <1>3, <1>6, <1>7, <1>8, WorkerFails
<1>9. ASSUME Revived(l, w), w \in live' \cup left'
      PROVE  IInv'
  <2>1. PICK worker \in Workers :
          /\ Equipped(worker) /\ Become(l, worker)
          /\ \/ worker.step = "look" /\ launches[l].todo \ {w} = {}
             \/ worker.step = "revive" /\ worker.todo = launches[l].todo \ {w}
    <3> DEFINE rest == launches[l].todo \ {w}
               over == [launches[l] EXCEPT !.step = "look", !.seen = {}, !.todo = {}]
               more == [launches[l] EXCEPT !.todo = rest]
    <3>1. over \in Workers /\ Equipped(over) /\ over.step = "look"
      BY <1>1 DEF Workers, Equipped, Steps, Outside, Filing, Targeting
    <3>2. rest # {} => more \in Workers /\ Equipped(more) /\ more.step = "revive" /\ more.todo = rest
      BY <1>1 DEF Workers, Equipped, Steps, Outside, Filing, Targeting, At
    <3>3. Become(l, IF rest = {} THEN over ELSE more)
      BY <1>9 DEF Revived
    <3> QED
      BY <3>1, <3>2, <3>3
  <2>2. l = Startup => (Targets \ (launches[l].todo \ {w}) \subseteq live' \cup left')
    BY <1>5, <1>6, <1>9
  <2>3. Current(worker)'
    BY <2>1 DEF Current
  <2>4. l = Startup => StartRecovers(worker)'
    BY <1>6, <2>1, <2>2, StepsDiffer DEF StartRecovers
  <2>5. \A u \in unfilled' : u \in closing' \/ Holds(worker, u)
    BY <1>3, <1>6
  <2>6. worker.step \notin {"unborn", "launched", "waiting"}
    BY <2>1
  <2> QED
    BY <1>2, <1>6, <1>7, <2>1, <2>3, <2>4, <2>5, <2>6, WorkerSteps
<1>10. w \in live' \cup left' \/ Fail(l)
  BY <1>4, CreateKeeps DEF Revive, windows, history
<1> QED
  BY <1>4, <1>8, <1>9, <1>10 DEF Revive
LEMMA LookKeeps ==
  ASSUME IInv, TypeOK', NEW l \in Launches, Look(l)
  PROVE  IInv'
<1>1. launches[l] \in Workers /\ Equipped(launches[l]) /\ At(l, "look")
  BY WorkerAt DEF IInv, Look
<1>2. Inside(l) /\ (\A w : ~Holds(launches[l], w))
  BY <1>1, StepsDiffer DEF Inside, At, Holds
<1>3. PICK worker : worker = [launches[l] EXCEPT
                                !.step = IF launches[l].paths = <<>> THEN "activate" ELSE "owner", !.seen = live]
  OBVIOUS
<1>4. worker \in Workers /\ Equipped(worker) /\ worker.seen = live
  BY <1>1, <1>3 DEF IInv, TypeOK, Workers, Equipped, Steps, Outside, Filing, Targeting
<1>5. worker.step \in {"activate", "owner"}
  BY <1>1, <1>3 DEF Workers
<1>6. Current(worker)
  BY <1>4, <1>5 DEF Current
<1>7. l = Startup => StartRecovers(worker)
  BY <1>1, <1>5, StartKnows, StepsDiffer DEF StartRecovers, At
<1>8. Become(l, worker)
  BY <1>3 DEF Look
<1> QED
  BY <1>2, <1>4, <1>5, <1>6, <1>7, <1>8, WorkerThinks DEF Look

\* A worker that looks for a window of its document: the next question, or a window.  One that
\* is not in its list is not listed at all.
LEMMA ChoiceKeeps ==
  ASSUME IInv, TypeOK', NEW l \in Launches, launches[l].step \in {"owner", "retained", "place"},
         UNCHANGED <<windows, documents, ready, history>>,
         \/ Goto(l, "retained") \/ Goto(l, "place") \/ Fail(l)
         \/ \E w \in Windows, fresh \in BOOLEAN :
              Route(l, w, fresh) /\ (fresh => w \notin Targets)
  PROVE  IInv'
<1>1. launches[l] \in Workers /\ Equipped(launches[l]) /\ Current(launches[l]) /\ launches[l].step \in Filing
  BY WorkerAt DEF IInv, WorkersAreCurrent, Filing
<1>2. Inside(l) /\ (\A w : ~Holds(launches[l], w)) /\ launches[l].step \in Recovered
  BY StepsDiffer DEF Inside, Holds
<1>3. live \subseteq launches[l].seen /\ launches[l].seen \subseteq live \cup left
  BY <1>1 DEF Current
<1>4. l = Startup => Targets \subseteq live \cup left
  BY <1>2, StartKnows
<1>5. CASE Fail(l)
  BY <1>2, <1>5, WorkerGivesUp
<1>6. ASSUME NEW step \in {"retained", "place"}, Goto(l, step)
      PROVE  IInv'
  <2>1. PICK worker : worker = [launches[l] EXCEPT !.step = step]
    OBVIOUS
  <2>2. worker \in Workers /\ Equipped(worker) /\ worker.step = step /\ worker.seen = launches[l].seen
    BY <1>1, <2>1 DEF Workers, Equipped, Steps, Outside, Filing, Targeting
  <2>3. Current(worker) /\ (l = Startup => StartRecovers(worker))
    BY <1>3, <1>4, <2>2 DEF Current, StartRecovers
  <2>4. Become(l, worker)
    BY <1>6, <2>1 DEF Goto
  <2> QED
    BY <1>2, <2>2, <2>3, <2>4, WorkerThinks
<1>7. ASSUME NEW w \in Windows, NEW fresh \in BOOLEAN, Route(l, w, fresh), fresh => w \notin Targets
      PROVE  IInv'
  <2>1. PICK worker :
          worker = [launches[l] EXCEPT !.step = IF w \in launches[l].seen THEN "enqueue" ELSE "create",
                                       !.seen = {}, !.target = w, !.fresh = fresh]
    OBVIOUS
  <2>2. worker \in Workers /\ Equipped(worker)
    BY <1>1, <2>1, Routing
  <2>3. /\ worker.step = (IF w \in launches[l].seen THEN "enqueue" ELSE "create")
        /\ worker.target = w /\ worker.fresh = fresh
    BY <1>1, <2>1 DEF Workers
  <2>4. Current(worker)
    BY <1>3, <1>7, <2>3 DEF Current
  <2>5. l = Startup => StartRecovers(worker)
    BY <1>4, <2>3 DEF StartRecovers
  <2>6. Become(l, worker)
    BY <1>7, <2>1 DEF Route
  <2>7. worker.step \notin {"unborn", "launched", "waiting"}
    BY <2>3
  <2> QED
    BY <1>2, <2>2, <2>4, <2>5, <2>6, <2>7, WorkerThinks
<1> QED
  BY <1>5, <1>6, <1>7

LEMMA FindOwnerKeeps ==
  ASSUME IInv, TypeOK', NEW l \in Launches, FindOwner(l)
  PROVE  IInv'
<1>1. launches[l].step \in {"owner", "retained", "place"} /\ launches[l].step \in Filing
  BY DEF FindOwner, At, Filing
<1>2. owner[Document(l)] # Nobody => owner[Document(l)] \in Windows
  BY <1>1, WorkerAt DEF IInv, TypeOK
<1> QED
  BY <1>1, <1>2, ChoiceKeeps DEF FindOwner

LEMMA FindTargetKeeps ==
  ASSUME IInv, TypeOK', NEW l \in Launches, FindTarget(l)
  PROVE  IInv'
<1>1. launches[l].step \in {"owner", "retained", "place"}
  BY DEF FindTarget, At
<1> QED
  BY <1>1, ChoiceKeeps DEF FindTarget

LEMMA PlaceKeeps ==
  ASSUME IInv, TypeOK', NEW l \in Launches, Place(l)
  PROVE  IInv'
<1>1. launches[l].step \in {"owner", "retained", "place"} /\ launches[l].seen \in SUBSET Windows
  BY WorkerAt DEF Place, At, IInv, Workers
<1>2. CASE Aggregate(l)
  BY <1>1, <1>2, SharedIsWindow, ChoiceKeeps DEF Place, Aggregate
<1>3. CASE Separate(l)
  <2>1. MainIsBlank(l) => MainWindow \notin Targets
    BY DEF MainIsBlank
  <2> QED
    BY <1>1, <1>3, <2>1, FreeLabelIsFree, MainIsWindow, ChoiceKeeps DEF Place, Separate
<1>4. CASE Fail(l)
  BY <1>1, <1>4, ChoiceKeeps DEF Place
<1> QED
  BY <1>2, <1>3, <1>4 DEF Place

LEMMA CreateWindowKeeps ==
  ASSUME IInv, TypeOK', NEW l \in Launches, CreateWindow(l)
  PROVE  IInv'
<1>1. /\ launches[l] \in Workers /\ Equipped(launches[l]) /\ Current(launches[l])
      /\ At(l, "create") /\ UNCHANGED <<documents, ready, crashes>>
  BY WorkerAt DEF IInv, CreateWindow, WorkersAreCurrent
<1>2. Inside(l) /\ (\A u : ~Holds(launches[l], u)) /\ launches[l].step \in Recovered
  BY <1>1, StepsDiffer DEF Inside, At, Holds
<1>3. unfilled \subseteq closing
  BY <1>2, HeldByInside
<1>4. CASE Fail(l) /\ UNCHANGED <<windows, history>>
  BY <1>1, <1>2, <1>4, WorkerGivesUp
<1>5. PICK w : w = launches[l].target
  OBVIOUS
<1>6. PICK worker : worker = [launches[l] EXCEPT !.step = "enqueue", !.created = TRUE]
  OBVIOUS
<1>7. CASE Create(w) /\ unfilled' = unfilled \cup {w} /\ Become(l, worker)
  <2>1. /\ worker \in Workers /\ Equipped(worker)
        /\ worker.step = "enqueue" /\ worker.created /\ worker.target = w /\ worker.fresh = launches[l].fresh
    BY <1>1, <1>5, <1>6 DEF Workers, Equipped, Steps, Outside, Filing, Targeting, At
  <2>2. /\ LabelsLeave' /\ closing' = closing /\ Targets' = Targets
        /\ live' = live \cup {w} /\ live' \cup left' = live \cup left \cup {w}
    BY <1>1, <1>7, CreateKeeps DEF Targets, documents
  <2>3. worker.fresh => w \notin Targets
    BY <1>1, <1>5, <2>1 DEF Current, At
  <2>4. Current(worker)'
    BY <2>1, <2>2, <2>3 DEF Current
  <2>5. \A u \in unfilled' : u \in closing' \/ Holds(worker, u)
    BY <1>3, <1>7, <2>1, <2>2 DEF Holds
  <2>6. ready' = ready /\ (ready' => (Targets \subseteq live \cup left)')
    BY <1>1, <2>2 DEF IInv, TargetsAreKnown
  <2>7. l = Startup => StartRecovers(worker)'
    BY <1>2, <2>1, <2>2, StartKnows DEF StartRecovers
  <2> QED
    BY <1>2, <1>7, <2>1, <2>2, <2>4, <2>5, <2>6, <2>7, WorkerSteps
<1> QED
  BY <1>4, <1>5, <1>6, <1>7 DEF CreateWindow

LEMMA EnqueueKeeps ==
  ASSUME IInv, TypeOK', NEW l \in Launches, Enqueue(l)
  PROVE  IInv'
<1>1. /\ launches[l] \in Workers /\ Equipped(launches[l]) /\ Current(launches[l])
      /\ At(l, "enqueue") /\ UNCHANGED <<windows, owner, applied, ready, left, crashes>>
  BY WorkerAt DEF IInv, Enqueue, WorkersAreCurrent
<1>2. Inside(l) /\ launches[l].step \in Recovered /\ (l = Startup \/ ready)
  BY <1>1, StepsDiffer, InsideIsStarted DEF Inside, At
<1>3. PICK w : w = launches[l].target
  OBVIOUS
<1>4. w \in live \cup left /\ Targets \subseteq live \cup left
  BY <1>1, <1>2, <1>3, StartKnows DEF Current, At
<1>5. \A u \in unfilled : u \in closing \/ Holds(launches[l], u)
  BY <1>2, HeldByInside
<1>6. LabelsLeave' /\ live' = live /\ left' = left /\ closing' = closing /\ ready' = ready
  BY <1>1 DEF IInv, LabelsLeave, windows
<1>7. PICK worker : worker = [launches[l] EXCEPT !.step = "notify", !.created = FALSE, !.fresh = FALSE]
  OBVIOUS
<1>8. CASE retained' = retained \cup {<<w, Document(l)>>} /\ unfilled' = unfilled \ {w} /\ Become(l, worker)
  <2>1. worker \in Workers /\ Equipped(worker) /\ worker.step = "notify"
    BY <1>1, <1>7 DEF Workers, Equipped, Steps, Outside, Filing, Targeting, At
  <2>2. Targets' = Targets \cup {w}
    <3>1. Targets' = {r[1] : r \in retained'} /\ Targets = {r[1] : r \in retained}
      BY DEF Targets
    <3>2. <<w, Document(l)>>[1] = w
      OBVIOUS
    <3> QED
      BY <1>8, <3>1, <3>2
  <2>3. (Targets \subseteq live \cup left)'
    BY <1>4, <1>6, <2>2
  <2>4. Current(worker)' /\ StartRecovers(worker)'
    BY <2>1, <2>3 DEF Current, StartRecovers
  <2>5. \A u \in unfilled' : u \in closing' \/ Holds(worker, u)
    BY <1>3, <1>5, <1>6, <1>8 DEF Holds
  <2> QED
    BY <1>2, <1>6, <1>8, <2>1, <2>3, <2>4, <2>5, WorkerSteps
<1>9. CASE EnqueueFails(l) /\ UNCHANGED <<retained, unfilled>>
  <2>1. UNCHANGED <<retained, unfilled>> /\ Targets' = Targets
    BY <1>9 DEF Targets
  <2>2. (Targets \subseteq live \cup left)'
    BY <1>4, <1>6, <2>1
  <2>3. CASE ~launches[l].created
    <3>1. Fail(l) /\ (\A u \in unfilled : ~Holds(launches[l], u))
      BY <1>9, <2>3 DEF EnqueueFails, Holds
    <3>2. unfilled' \subseteq closing'
      BY <1>5, <1>6, <2>1, <3>1
    <3> QED
      BY <1>2, <1>6, <2>2, <3>1, <3>2, WorkerFails
  <2>4. CASE launches[l].created
    <3>1. PICK undone : undone = [launches[l] EXCEPT !.step = "rollback"]
      OBVIOUS
    <3>2. /\ undone \in Workers /\ Equipped(undone)
          /\ undone.step = "rollback" /\ undone.created /\ undone.target = launches[l].target
      BY <1>1, <2>4, <3>1 DEF Workers, Equipped, Steps, Outside, Filing, Targeting, At
    <3>3. Become(l, undone)
      BY <1>9, <2>4, <3>1 DEF EnqueueFails, Goto
    <3>4. Current(undone)' /\ StartRecovers(undone)'
      BY <2>2, <3>2 DEF Current, StartRecovers
    <3>5. \A u \in unfilled' : u \in closing' \/ Holds(undone, u)
      BY <1>5, <1>6, <2>1, <3>2 DEF Holds
    <3> QED
      BY <1>2, <1>6, <2>2, <3>2, <3>3, <3>4, <3>5, WorkerSteps
  <2> QED
    BY <2>3, <2>4
<1> QED
  BY <1>3, <1>7, <1>8, <1>9 DEF Enqueue

LEMMA RollBackKeeps ==
  ASSUME IInv, TypeOK', NEW l \in Launches, RollBack(l)
  PROVE  IInv'
<1>1. At(l, "rollback") /\ Fail(l) /\ UNCHANGED <<live, retained, applied, ready, crashes>>
  BY DEF RollBack
<1>2. Inside(l) /\ Targets' = Targets
  BY <1>1, StepsDiffer DEF Inside, At, Targets
<1>3. PICK w : w = launches[l].target
  OBVIOUS
<1>4. \A u \in unfilled : u \in closing \/ u = w
  BY <1>2, <1>3, HeldByInside DEF Holds
<1>5. /\ closing \subseteq closing' /\ left \subseteq left' /\ live' = live
      /\ LabelsLeave' /\ unfilled' \subseteq closing'
  BY <1>1, <1>3, <1>4 DEF RollBack, IInv, LabelsLeave
<1>6. ready' => (Targets \subseteq live \cup left)'
  BY <1>1, <1>2, <1>5 DEF IInv, TargetsAreKnown
<1> QED
  BY <1>1, <1>2, <1>5, <1>6, WorkerFails
LEMMA NotifyKeeps ==
  ASSUME IInv, TypeOK', NEW l \in Launches, Notify(l)
  PROVE  IInv'
<1>1. launches[l] \in Workers /\ Equipped(launches[l]) /\ At(l, "notify")
  BY WorkerAt DEF IInv, Notify
<1>2. /\ Inside(l) /\ (\A w : ~Holds(launches[l], w))
      /\ launches[l].step \in Recovered /\ (l = Startup \/ ready)
  BY <1>1, StepsDiffer, InsideIsStarted DEF Inside, At, Holds
<1>3. /\ LabelsLeave' /\ unfilled' \subseteq closing'
      /\ (Targets \subseteq live \cup left)'
  BY <1>2, HeldByInside, StartKnows DEF Notify, IInv, LabelsLeave, Targets, windows, documents, history
<1>4. CASE Fail(l)
  <2>1. ready => ready'
    BY DEF Notify, NextFile
  <2> QED
    BY <1>2, <1>3, <1>4, <2>1, WorkerFails
<1>5. CASE NextFile(l) /\ Tail(launches[l].paths) # <<>>
  <2> DEFINE rest == Tail(launches[l].paths)
  <2>1. PICK worker :
          worker = [Worker("look", rest) EXCEPT !.blank = launches[l].blank /\ launches[l].target # MainWindow]
    OBVIOUS
  <2>2. worker \in Workers /\ Equipped(worker) /\ worker.step = "look"
    <3>1. rest \in Seq(Docs)
      BY <1>1 DEF Workers, Equipped, Filing, At
    <3>2. Worker("look", rest) \in Workers /\ Equipped(Worker("look", rest)) /\ Worker("look", rest).step = "look"
      BY <3>1, NewWorkers DEF Worker
    <3> QED
      BY <2>1, <3>2 DEF Workers, Equipped
  <2>3. Become(l, worker) /\ ready' = ready
    BY <1>5, <2>1 DEF NextFile
  <2>4. Current(worker)' /\ StartRecovers(worker)'
    BY <1>3, <2>2 DEF Current, StartRecovers
  <2>5. \A u \in unfilled' : u \in closing' \/ Holds(worker, u)
    BY <1>3
  <2>6. worker.step \notin {"unborn", "launched", "waiting"}
    BY <2>2
  <2> QED
    BY <1>2, <1>3, <2>2, <2>3, <2>4, <2>5, <2>6, WorkerSteps
<1>6. CASE NextFile(l) /\ Tail(launches[l].paths) = <<>>
  <2>1. Fail(l) /\ (ready => ready')
    BY <1>6 DEF NextFile, Fail
  <2> QED
    BY <1>2, <1>3, <2>1, WorkerFails
<1> QED
  BY <1>4, <1>5, <1>6 DEF Notify

LEMMA ActivateKeeps ==
  ASSUME IInv, TypeOK', NEW l \in Launches, Activate(l)
  PROVE  IInv'
<1>1. At(l, "activate") /\ UNCHANGED <<documents, unfilled, crashes>>
  BY DEF Activate
<1>2. /\ Inside(l) /\ (\A w : ~Holds(launches[l], w))
      /\ launches[l].step \in Recovered /\ (l = Startup \/ ready)
  BY <1>1, StepsDiffer, InsideIsStarted DEF Inside, At, Holds
<1>3. Fail(l) /\ (ready => ready')
  <2>1. Fail(l)
    BY DEF Activate, Activated, Fail
  <2>2. ready => ready'
    BY DEF Activate, Activated
  <2> QED
    BY <2>1, <2>2
<1>4. LabelsLeave' /\ closing' = closing /\ live \cup left \subseteq live' \cup left'
  <2>1. PICK w : w = SharedWindow(launches[l].seen)
    OBVIOUS
  <2>2. CASE Create(w)
    BY <2>2, CreateKeeps
  <2>3. CASE UNCHANGED <<live, closing, left>>
    BY <2>3 DEF IInv, LabelsLeave
  <2> QED
    BY <2>1, <2>2, <2>3 DEF Activate, windows
<1>5. unfilled' \subseteq closing'
  BY <1>1, <1>2, <1>4, HeldByInside
<1>6. (Targets \subseteq live \cup left)'
  BY <1>1, <1>2, <1>4, StartKnows DEF Targets, documents
<1> QED
  BY <1>2, <1>3, <1>4, <1>5, <1>6, WorkerFails

\* The step of a worker outside, that leaves windows and documents alone.
LEMMA OutsiderSteps ==
  ASSUME IInv, TypeOK', NEW l \in Launches, ~Inside(l),
         UNCHANGED <<windows, documents, ready, history>>,
         NEW worker \in Workers, Equipped(worker), Become(l, worker),
         \/ worker.step \in Outside
         \/ Unlocked /\ (worker.step = "recover" \/ (l # Startup /\ worker.step = "look")),
         l \in Secondary => ready \/ worker.step \in {"unborn", "launched", "done"}
  PROVE  IInv'
<1> USE DEF windows, documents, history
<1>1. /\ launches'[l] = worker
      /\ \A m \in Launches : m # l => launches'[m] = launches[m]
  BY Becoming DEF IInv
<1>2. Exclusive'
  BY <1>1 DEF Exclusive, Inside, IInv, Unlocked
<1>3. LabelsLeave' /\ Targets' = Targets
  BY DEF IInv, LabelsLeave, Targets
<1>4. Current(worker) /\ (l = Startup => StartRecovers(worker)) /\ (\A w : ~Holds(launches[l], w))
  BY StepsDiffer, OutsideIsCurrent DEF Current, StartRecovers, Inside, Holds
<1>5. \A m \in Launches : Current(launches'[m])
  BY <1>1, <1>4 DEF IInv, WorkersAreCurrent
<1>6. WorkersAreCurrent'
  BY <1>3, <1>5 DEF WorkersAreCurrent, Current
<1>7. UnfilledIsHeld'
  <2> SUFFICES ASSUME NEW w \in unfilled, w \notin closing
               PROVE  \E m \in Launches : Holds(launches[m], w)'
    BY DEF UnfilledIsHeld
  <2>1. PICK m \in Launches : Holds(launches[m], w)
    BY DEF IInv, UnfilledIsHeld
  <2>2. m # l
    BY <1>4, <2>1
  <2> QED
    BY <1>1, <2>1, <2>2 DEF Holds
<1>8. StartRecovers(launches'[Startup])
  BY <1>1, <1>4 DEF IInv, TargetsAreKnown, Launches
<1>9. TargetsAreKnown'
  BY <1>3, <1>8 DEF TargetsAreKnown, StartRecovers, IInv
<1>10. StartComesFirst'
  <2> SUFFICES ASSUME ~ready, NEW m \in Secondary
               PROVE  launches'[m].step \in {"unborn", "launched", "done"}
    BY DEF StartComesFirst
  <2>1. launches[m].step \in {"unborn", "launched", "done"} /\ m \in Launches
    BY DEF IInv, StartComesFirst, Launches
  <2> QED
    BY <1>1, <2>1
<1> QED
  BY <1>2, <1>3, <1>6, <1>7, <1>9, <1>10 DEF IInv
LEMMA LaunchKeeps ==
  ASSUME IInv, TypeOK', NEW l \in Secondary, Launch(l)
  PROVE  IInv'
<1>1. PICK paths \in Batches(LaunchFiles) : Become(l, Worker("launched", paths))
  BY DEF Launch
<1>2. PICK worker : worker = Worker("launched", paths)
  OBVIOUS
<1>3. worker \in Workers /\ Equipped(worker) /\ worker.step = "launched" /\ worker.step \in Outside
  <2>1. paths \in Seq(Docs) /\ "launched" \in Outside \cup {"look"}
    BY <1>1, BatchesAreSequences, RoutingAssumption DEF Outside
  <2> QED
    BY <1>2, <2>1, NewWorkers, StepsDiffer DEF Worker
<1>4. l \in Launches /\ ~Inside(l)
  BY StepsDiffer DEF Launch, Launches, Inside, At
<1> QED
  BY <1>1, <1>2, <1>3, <1>4, OutsiderSteps DEF Launch

LEMMA WaitUntilReadyKeeps ==
  ASSUME IInv, TypeOK', NEW l \in Launches, WaitUntilReady(l)
  PROVE  IInv'
<1>1. launches[l] \in Workers /\ Equipped(launches[l]) /\ ~Inside(l)
  BY WorkerAt, StepsDiffer DEF IInv, WaitUntilReady, Inside, At
<1>2. CASE ready /\ Goto(l, "waiting")
  <2>1. PICK worker : worker = [launches[l] EXCEPT !.step = "waiting"]
    OBVIOUS
  <2>2. worker \in Workers /\ Equipped(worker) /\ worker.step = "waiting" /\ worker.step \in Outside
    BY <1>1, <2>1 DEF Workers, Equipped, Steps, Outside, Filing, Targeting
  <2> QED
    BY <1>1, <1>2, <2>1, <2>2, OutsiderSteps DEF WaitUntilReady, Goto
<1>3. CASE Fail(l)
  <2>1. PICK worker : worker = Worker("done", <<>>)
    OBVIOUS
  <2>2. worker \in Workers /\ Equipped(worker) /\ Become(l, worker)
    BY <1>3, <2>1, Failing DEF IInv
  <2>3. worker.step = "done" /\ worker.step \in Outside
    BY <2>1, StepsDiffer DEF Worker
  <2> QED
    BY <1>1, <1>3, <2>2, <2>3, OutsiderSteps DEF WaitUntilReady
<1> QED
  BY <1>2, <1>3 DEF WaitUntilReady, TimeOut

LEMMA AcquireKeeps ==
  ASSUME IInv, TypeOK', NEW l \in Launches, Acquire(l)
  PROVE  IInv'
<1>1. launches[l] \in Workers /\ Equipped(launches[l]) /\ ~Inside(l) /\ Unlocked /\ At(l, "waiting")
  BY WorkerAt, StepsDiffer DEF IInv, Acquire, Locked, Inside, At
<1>2. l \in Secondary => ready /\ l # Startup
  BY <1>1, RoutingAssumption DEF IInv, StartComesFirst, At
<1>3. PICK worker : worker = [launches[l] EXCEPT !.step = IF l = Startup THEN "recover" ELSE "look",
                                                 !.blank = l = Startup]
  OBVIOUS
<1>4. worker \in Workers /\ Equipped(worker)
  BY <1>1, <1>3 DEF Workers, Equipped, Steps, Outside, Filing, Targeting
<1>5. worker.step = (IF l = Startup THEN "recover" ELSE "look")
  BY <1>1, <1>3 DEF Workers
<1>6. Become(l, worker)
  BY <1>3 DEF Acquire
<1> QED
  BY <1>1, <1>2, <1>4, <1>5, <1>6, OutsiderSteps DEF Acquire

\* Pages and the user only take windows and requests away.
LEMMA PagesKeep ==
  ASSUME IInv, TypeOK', UNCHANGED <<launches, ready>>,
         live' \subseteq live, left \subseteq left', live \cup left \subseteq live' \cup left',
         retained' \subseteq retained,
         LabelsLeave', unfilled' \subseteq unfilled, unfilled' \cap closing \subseteq closing'
  PROVE  IInv'
<1>1. Targets' \subseteq Targets
  <2>1. Targets' = {r[1] : r \in retained'} /\ Targets = {r[1] : r \in retained}
    BY DEF Targets
  <2> QED
    BY <2>1
<1>2. Exclusive'
  BY DEF IInv, Exclusive, Inside
<1>3. WorkersAreCurrent'
  BY <1>1 DEF IInv, WorkersAreCurrent, Current
<1>4. UnfilledIsHeld'
  BY DEF IInv, UnfilledIsHeld, Holds
<1>5. TargetsAreKnown'
  BY <1>1 DEF IInv, TargetsAreKnown, StartRecovers
<1>6. StartComesFirst'
  BY DEF IInv, StartComesFirst
<1> QED
  BY <1>2, <1>3, <1>4, <1>5, <1>6 DEF IInv

LEMMA CrashKeeps ==
  ASSUME IInv, TypeOK', Crash
  PROVE  IInv'
<1>1. PICK paths \in Batches(LaunchFiles) :
        launches' = [l \in Launches |->
          IF l = Startup THEN Worker("waiting", paths)
          ELSE IF At(l, "unborn") THEN launches[l] ELSE Worker("done", <<>>)]
  BY DEF Crash
<1>2. \A l \in Launches : launches'[l].step \in Outside
  BY <1>1, StepsDiffer DEF Worker, At
<1>3. \A l \in Secondary : launches'[l].step \in {"unborn", "launched", "done"}
  BY <1>1, RoutingAssumption DEF Worker, At, Launches
<1>4. Exclusive' /\ WorkersAreCurrent'
  BY <1>2, StepsDiffer DEF Exclusive, Inside, WorkersAreCurrent, Current
<1>5. LabelsLeave' /\ UnfilledIsHeld'
  BY DEF Crash, LabelsLeave, UnfilledIsHeld
<1>6. TargetsAreKnown'
  BY <1>2, StepsDiffer DEF Crash, TargetsAreKnown, StartRecovers, Launches
<1>7. StartComesFirst'
  BY <1>3 DEF StartComesFirst
<1> QED
  BY <1>4, <1>5, <1>6, <1>7 DEF IInv

LEMMA InitKeeps == Init => IInv
<1> SUFFICES ASSUME Init PROVE IInv
  OBVIOUS
<1>1. \A l \in Launches : launches[l].step \in Outside
  BY StepsDiffer DEF Init, Worker
<1>2. \A l \in Secondary : launches[l].step \in {"unborn", "launched", "done"}
  BY RoutingAssumption DEF Init, Worker, Launches
<1>3. Exclusive /\ WorkersAreCurrent
  BY <1>1, OutsideIsCurrent DEF Exclusive, Inside, WorkersAreCurrent
<1>4. LabelsLeave /\ UnfilledIsHeld
  BY DEF Init, LabelsLeave, UnfilledIsHeld
<1>5. TargetsAreKnown
  BY <1>1, OutsideIsCurrent DEF Init, TargetsAreKnown, Launches
<1> QED
  BY <1>2, <1>3, <1>4, <1>5, InitTyped DEF IInv, StartComesFirst

LEMMA NextKeeps == IInv /\ [Next]_vars => IInv'
<1> SUFFICES ASSUME IInv, [Next]_vars PROVE IInv'
  OBVIOUS
<1>1. TypeOK'
  BY NextTyped DEF IInv
<1> USE DEF windows, documents, history
<1>2. ASSUME NEW l \in Secondary, Launch(l)
      PROVE  IInv'
  BY <1>1, <1>2, LaunchKeeps
<1>3. ASSUME NEW l \in Launches, Work(l)
      PROVE  IInv'
  BY <1>1, <1>3, WaitUntilReadyKeeps, AcquireKeeps, ReadTargetsKeeps, ReviveKeeps, LookKeeps, FindOwnerKeeps,
     FindTargetKeeps, PlaceKeeps, CreateWindowKeeps, EnqueueKeeps, RollBackKeeps, NotifyKeeps,
     ActivateKeeps DEF Work
<1>4. ASSUME NEW w \in Windows, NEW d \in Docs,
             OpenRequested(w, d) \/ Acknowledge(w, d) \/ OpenChosen(w, d)
      PROVE  IInv'
  <2>1. UNCHANGED <<live, closing, launches, ready, unfilled, left>> /\ retained' \subseteq retained
    BY <1>4 DEF OpenRequested, Acknowledge, OpenChosen
  <2> QED
    BY <1>1, <2>1, PagesKeep DEF IInv, LabelsLeave
<1>5. ASSUME NEW w \in Windows, Close(w) \/ Delist(w)
      PROVE  IInv'
  <2>1. /\ UNCHANGED <<launches, ready, retained>> /\ live' \subseteq live /\ left \subseteq left'
        /\ live \cup left \subseteq live' \cup left'
        /\ LabelsLeave' /\ unfilled' \subseteq unfilled /\ unfilled' \cap closing \subseteq closing'
    BY <1>5 DEF Close, Delist, IInv, LabelsLeave
  <2> QED
    BY <1>1, <2>1, PagesKeep
<1>6. CASE Crash
  BY <1>1, <1>6, CrashKeeps
<1>7. CASE UNCHANGED vars
  <2>1. UNCHANGED <<live, closing, launches, ready, unfilled, left, retained>>
    BY <1>7 DEF vars
  <2> QED
    BY <1>1, <2>1, PagesKeep DEF IInv, LabelsLeave
<1> QED
  BY <1>2, <1>3, <1>4, <1>5, <1>6, <1>7 DEF Next

THEOREM InvariantHolds == Spec => []IInv
<1> QED
  BY InitKeeps, NextKeeps, PTL DEF Spec

\* The label a launch makes a window under is nobody's, and no retained request waits for it: what
\* the launch read before it chose still bounds what there is, since it holds the lock.
THEOREM LabelsAlwaysFresh == Spec => []LabelsAreFresh
<1>1. IInv => LabelsAreFresh
  BY DEF IInv, WorkersAreCurrent, Current, LabelsAreFresh, At
<1> QED
  BY <1>1, InvariantHolds, PTL

\* Between launches every retained request is in a window that is or was there, once the start has
\* succeeded, and every window that was made for a file got its request or is being taken back.
THEOREM RoutesAlwaysComplete == Spec => []RoutesAreComplete
<1>1. ASSUME IInv, Unlocked
      PROVE  (ready => Targets \subseteq live \cup left) /\ unfilled \subseteq closing
  <2>1. \A l \in Launches, w \in unfilled : ~Holds(launches[l], w)
    BY <1>1, OutsideIsCurrent DEF Unlocked
  <2> QED
    BY <1>1, <2>1 DEF IInv, TargetsAreKnown, UnfilledIsHeld
<1>2. IInv => RoutesAreComplete
  BY <1>1 DEF RoutesAreComplete
<1> QED
  BY <1>2, InvariantHolds, PTL
=============================================================================
