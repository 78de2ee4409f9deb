---------------------------- MODULE WindowAutosave ----------------------------
(***************************************************************************)
(* Autosave in a window (services/autosave/autosaveScheduler.ts and the    *)
(* hook features/autosave/useWindowAutosave.ts) on top of the saving of    *)
(* its document.                                                           *)
(*                                                                         *)
(* The scheduler never reads the store.  It reads a session record, which  *)
(* the hook overwrites in an effect after every render with the values of  *)
(* that render, and which the subscription to the store updates in         *)
(* between.  So the session may be behind the store, in either direction.  *)
(***************************************************************************)
EXTENDS DocumentSaving

VARIABLES
  setting,    \* editor.autosaveEnabled of the settings store
  available,  \* the document has a path, no open is underway and no external conflict is shown
  page,       \* the values of the last render, and whether its effects are still to run
  seen,       \* the values the effects ran with before
  session,    \* sessionRef.current
  scheduler,  \* the variables of the closure createAutosaveScheduler
  flush       \* whether a flush is waiting for a save

hookVars == <<setting, available, page, seen>>
autosaveVars == <<hookVars, session, scheduler, flush>>
vars == <<savingVars, autosaveVars>>

NoRevision == 0  \* null of lastAttemptedSessionRevision; the first dirty revision is 1

Larger(a, b) == IF a < b THEN b ELSE a

\* Settled values of a render, and the session they make.
Rendered == [dirty : BOOLEAN, available : BOOLEAN, setting : BOOLEAN]
Current == [dirty |-> dirty, available |-> available, setting |-> setting]

Session == [dirty : BOOLEAN, available : BOOLEAN, revision : Revisions]
Scheduler == [enabled : BOOLEAN, timer : BOOLEAN, active : BOOLEAN, trailing : BOOLEAN,
              latest : Revisions, attempting : Revisions, attempted : Revisions]

Init ==
  /\ SavingInit
  /\ setting \in BOOLEAN /\ available \in BOOLEAN
  /\ seen = Current
  /\ page = [values |-> Current, effects |-> FALSE]
  /\ session = [dirty |-> FALSE, available |-> available, revision |-> 0]
  /\ scheduler = [enabled |-> setting, timer |-> FALSE, active |-> FALSE, trailing |-> FALSE,
                  latest |-> 0, attempting |-> 0, attempted |-> NoRevision]
  /\ flush = "none"

-----------------------------------------------------------------------------
(* The scheduler: each operation turns its variables s, with session x,    *)
(* into new ones.                                                          *)

Savable(s, x) == s.enabled /\ x.dirty /\ x.available

Scheduled(s) == [s EXCEPT !.timer = TRUE]
Trailing(s)  == [s EXCEPT !.trailing = TRUE]

\* runSave; a save is requested when it made the scheduler active.
Run(s, x) ==
  IF s.active THEN Trailing(s)
  ELSE IF ~Savable(s, x) THEN s
  ELSE [s EXCEPT !.active = TRUE, !.attempting = Larger(s.latest, x.revision),
                 !.attempted = x.revision]

\* MUTANT of NotifyDirty: an edit during a save leaves no trace.
NotifyDirtyIdle(s, r) ==
  LET noted == [s EXCEPT !.latest = Larger(@, r)]
  IN IF s.enabled /\ ~s.active THEN Scheduled(noted) ELSE noted

NotifyDirty(s, r) ==
  LET noted == [s EXCEPT !.latest = Larger(@, r)]
  IN IF ~s.enabled THEN noted ELSE IF s.active THEN Trailing(noted) ELSE Scheduled(noted)

NotifyAvailabilityChanged(s, x) ==
  IF Savable(s, x) THEN NotifyDirty(s, x.revision) ELSE s

SetEnabled(s, x, enabled) ==
  LET set == [s EXCEPT !.enabled = enabled]
  IN IF ~enabled THEN [set EXCEPT !.timer = FALSE]
     ELSE IF ~s.enabled /\ Savable(set, x)
     THEN Scheduled([set EXCEPT !.latest = Larger(@, x.revision)])
     ELSE set

\* The callback of a save that ended: one trailing save when there is something newer.
Settled(s, x) ==
  LET idle == [s EXCEPT !.active = FALSE, !.trailing = FALSE]
  IN IF s.trailing /\ s.enabled /\ x.dirty /\ s.latest > s.attempting THEN Run(idle, x) ELSE idle

\* MUTANT of FlushSaves: what was attempted without success is attempted again.
FlushSavesAgain(s, x) == ~s.active /\ Savable(s, x)

\* The loop of flush, from its start or after an await.  It saves what was not attempted yet.
FlushSaves(s, x) == ~s.active /\ Savable(s, x) /\ s.attempted # x.revision
Flushed(s, x) == IF FlushSaves(s, x) THEN Run(s, x) ELSE s
FlushWaits(s, x) == IF Flushed(s, x).active THEN "waiting" ELSE "none"

\* The save a step of the scheduler from s to t requests.
Requests(s, t) == IF ~s.active /\ t.active THEN <<NewRequest("autosave")>> ELSE <<>>

-----------------------------------------------------------------------------
(* Steps.                                                                  *)

\* MUTANT of Subscribed: the session waits for the next render.
SubscribedWithoutSession ==
  /\ UNCHANGED session
  /\ IF dirty' /\ revision' # revision THEN scheduler' = NotifyDirty(scheduler, revision')
     ELSE UNCHANGED scheduler

\* subscribeDirtyRevision runs inside a change of the store that left it dirty and newer.
Subscribed ==
  IF dirty' /\ revision' # revision
  THEN /\ session' = [session EXCEPT !.dirty = TRUE, !.revision = revision']
       /\ scheduler' = NotifyDirty(scheduler, revision')
  ELSE UNCHANGED <<session, scheduler>>

EditDocument(new) ==
  /\ Edit(new)
  /\ Subscribed
  /\ UNCHANGED <<hookVars, flush>>

UserSave ==
  /\ RequestSave("user")
  /\ UNCHANGED autosaveVars

FileWritten ==
  /\ WriteFile
  /\ UNCHANGED autosaveVars

Saved ==
  /\ ApplySave
  /\ Subscribed
  /\ UNCHANGED <<hookVars, flush>>

\* The end of an autosave settles the scheduler first and then resumes a flush that waits.
SavedBy(by) == saves # <<>> /\ Head(saves).by = by
UserSaveEnds ==
  /\ SavedBy("user")
  /\ SaveEnds(<<>>)
  /\ UNCHANGED autosaveVars

AutosaveEnds ==
  LET settled == Settled(scheduler, session)
      resumed == IF flush = "waiting" THEN Flushed(settled, session) ELSE settled
  IN /\ SavedBy("autosave")
     /\ SaveEnds(Requests([scheduler EXCEPT !.active = FALSE], resumed))
     /\ scheduler' = resumed
     /\ flush' = IF flush = "waiting" THEN FlushWaits(settled, session) ELSE flush
     /\ UNCHANGED <<hookVars, session>>

\* The debounce timer.
TimerFires ==
  LET unset == [scheduler EXCEPT !.timer = FALSE]
      after == IF Savable(unset, session) THEN Run(unset, session) ELSE unset
  IN /\ scheduler.timer
     /\ scheduler' = after
     /\ Enqueue(Requests(scheduler, after))
     /\ UNCHANGED <<document, hookVars, session, flush>>

\* flush, called when the window is to be closed.
Flush ==
  LET unset == [scheduler EXCEPT !.timer = FALSE]
  IN /\ flush = "none"
     /\ scheduler' = Flushed(unset, session)
     /\ flush' = FlushWaits(unset, session)
     /\ Enqueue(Requests(scheduler, Flushed(unset, session)))
     /\ UNCHANGED <<document, hookVars, session>>

\* React renders with what the stores hold, and runs the effects of that render later.
Render ==
  /\ ~page.effects
  /\ page' = [values |-> Current, effects |-> TRUE]
  /\ UNCHANGED <<savingVars, setting, available, seen, session, scheduler, flush>>

\* MUTANT of AfterEffects: nothing tells the scheduler that the document is savable again.
EffectsWithoutAvailability(x, values) ==
  LET s1 == IF values.setting # seen.setting THEN SetEnabled(scheduler, x, values.setting)
            ELSE scheduler
  IN IF values.dirty /\ ~seen.dirty THEN NotifyDirty(s1, revision) ELSE s1

\* The effects in the order of the hook: session, enabled, dirty, availability.
AfterEffects(x, values) ==
  LET s1 == IF values.setting # seen.setting THEN SetEnabled(scheduler, x, values.setting)
            ELSE scheduler
      s2 == IF values.dirty /\ ~seen.dirty THEN NotifyDirty(s1, revision) ELSE s1
  IN IF values.available # seen.available THEN NotifyAvailabilityChanged(s2, x) ELSE s2

RunEffects ==
  LET values == page.values
  IN /\ page.effects
     /\ session' = [dirty |-> values.dirty, available |-> values.available,
                    revision |-> revision]
     /\ scheduler' = AfterEffects(session', values)
     /\ seen' = values
     /\ page' = [page EXCEPT !.effects = FALSE]
     /\ UNCHANGED <<savingVars, setting, available, flush>>

\* The user changes the setting; an open, a conflict or its resolution changes availability.
ChangeSetting ==
  /\ setting' = ~setting
  /\ UNCHANGED <<savingVars, available, page, seen, session, scheduler, flush>>
ChangeAvailability ==
  /\ available' = ~available
  /\ UNCHANGED <<savingVars, setting, page, seen, session, scheduler, flush>>

Next ==
  \/ \E new \in Texts : EditDocument(new)
  \/ UserSave \/ FileWritten \/ Saved \/ UserSaveEnds \/ AutosaveEnds
  \/ TimerFires \/ Flush
  \/ Render \/ RunEffects
  \/ ChangeSetting \/ ChangeAvailability

\* Saves are answered, timers fire, and React renders what changed and runs effects.  A save that
\* waits for its watch forever (FileWorkflow!OpensEnd) is left out: this is about those that end.
Behind == page.values # Current
Fairness ==
  /\ WF_vars(FileWritten \/ Saved \/ UserSaveEnds \/ AutosaveEnds)
  /\ WF_vars(TimerFires)
  /\ WF_vars(Behind /\ Render)
  /\ WF_vars(RunEffects)

Spec == Init /\ [][Next]_vars /\ Fairness

-----------------------------------------------------------------------------
(* Properties.                                                             *)

\* The variables keep their types; the session and the scheduler know the revision of the store,
\* and the scheduler never has two saves in the queue and knows whether it has one.
TypeOK ==
  /\ SavingTypeOK
  /\ setting \in BOOLEAN /\ available \in BOOLEAN
  /\ page \in [values : Rendered, effects : BOOLEAN] /\ seen \in Rendered
  /\ session \in Session /\ session.revision = revision
  /\ scheduler \in Scheduler /\ scheduler.latest <= revision
  /\ LET autosaves == {i \in DOMAIN saves : saves[i].by = "autosave"}
     IN IF scheduler.active THEN \E i \in DOMAIN saves : autosaves = {i} ELSE autosaves = {}
  /\ flush \in {"none", "waiting"}

\* Once the effects of the last render have run, an edit that was not attempted yet is taken
\* care of by the timer, the save underway or a flush, however far the session was behind when a timer,
\* a flush or a save last looked at it.
Unattempted == dirty /\ revision > scheduler.attempted
EditsAreNeverForgotten ==
  (Unattempted /\ setting /\ available /\ ~Behind /\ ~page.effects)
    => scheduler.timer \/ (scheduler.active /\ scheduler.trailing) \/ flush = "waiting"

\* When autosave stays enabled and the document savable, every edit is attempted, or saved by
\* the user.
EveryEditIsAttempted == <>[](setting /\ available) => []<>(~Unattempted)

\* A flush comes to an end, so that a window can be closed.
FlushEnds == (flush = "waiting") ~> (flush = "none")
=============================================================================
