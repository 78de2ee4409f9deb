---------------------------- MODULE SettingsStore ----------------------------
(***************************************************************************)
(* The settings of a window: the store of features/settings/              *)
(* settingsStore.ts with its debounced writes, the client it writes        *)
(* through, and the hydration the application starts with.  A version of   *)
(* the settings is the number of changes made to it.                       *)
(*                                                                         *)
(* JavaScript runs one callback at a time: an action is what happens from  *)
(* one event or answer to the next.                                        *)
(***************************************************************************)
EXTENDS Integers, FiniteSets

CONSTANT MaxVersion  \* bound of this model: the number of changes
ASSUME SettingsAssumption == MaxVersion \in Nat

VARIABLES
  load,      \* how far hydrateFromClient is, and loadState in the end
  blocked,   \* persistenceBlocked
  settings,  \* the version the store holds
  pending,   \* pendingSettings
  timer,     \* writeTimer is set
  writing,   \* the calls of client.setSettings without an answer
  shown,     \* writeState.status
  file,      \* the version in settings.json
  marked     \* the marker of a completed legacy migration

settingsVars == <<load, blocked, settings, pending, timer, writing, shown, file, marked>>

None == -1      \* no pending settings
Foreign == -2   \* a file that cannot be read, or is of a future version
Versions == 0 .. MaxVersion
Hydrating == {"reading", "repairing", "migrating"}
Ready == load = "ready" /\ ~blocked

SettingsInit ==
  /\ load = "reading" /\ blocked = FALSE
  /\ settings = 0 /\ pending = None /\ timer = FALSE /\ writing = {} /\ shown = "idle"
  /\ file \in {0, Foreign} /\ marked = FALSE

-----------------------------------------------------------------------------
(* hydrateFromClient, which runs once, before the application renders.     *)

Discard == pending' = None /\ timer' = FALSE

\* The settings were read; they are used, repaired in the file, or replaced by migrated ones.
ReadSettings ==
  /\ load = "reading" /\ file # Foreign
  /\ load' \in {"ready", "repairing", "migrating"}
  /\ settings' = IF load' = "migrating" THEN 1 ELSE settings
  /\ writing' = IF load' = "ready" THEN {} ELSE {settings'}
  /\ UNCHANGED <<blocked, pending, timer, shown, file, marked>>

\* MUTANT of ReadFails: the store goes on as if the defaults had been read.
ReadFailsOpen ==
  /\ load = "reading"
  /\ load' = "failed"
  /\ Discard
  /\ UNCHANGED <<blocked, settings, writing, shown, file, marked>>

ReadFails ==
  /\ load = "reading"
  /\ load' = "failed" /\ blocked' = TRUE
  /\ Discard
  /\ UNCHANGED <<settings, writing, shown, file, marked>>

\* The repair or the migration ends; what could not be written stays pending.
HydrationWrites(ok) ==
  /\ load \in {"repairing", "migrating"}
  /\ load' = "ready" /\ writing' = {}
  /\ file' = IF ok THEN settings ELSE file
  /\ pending' = IF ok THEN pending ELSE settings
  /\ shown' = IF ok THEN "idle" ELSE "failed"
  /\ marked' = (ok /\ load = "migrating")
  /\ UNCHANGED <<blocked, settings, timer>>

\* The legacy storage cannot be read: nothing is written, so that a restart can migrate.
MigrationFails ==
  /\ load = "reading" /\ file # Foreign
  /\ load' = "ready" /\ blocked' = TRUE
  /\ Discard
  /\ shown' = "failed"
  /\ UNCHANGED <<settings, writing, file, marked>>

-----------------------------------------------------------------------------
(* Writes.                                                                 *)

\* MUTANT of Drain: nobody waits for the drain that runs.
DrainBeside(next) ==
  IF next = None THEN shown' = "idle" /\ pending' = None /\ UNCHANGED writing
  ELSE shown' = "saving" /\ pending' = None /\ writing' = writing \union {next}

\* One turn of the loop of flushPending, `next` being what is pending.
Drain(next) ==
  IF writing # {} THEN pending' = next /\ UNCHANGED <<shown, writing>>
  ELSE /\ pending' = None
       /\ writing' = IF next = None THEN {} ELSE {next}
       /\ shown' = IF next = None THEN "idle" ELSE "saving"

\* flushPending; `next` is what the caller leaves pending.
FlushPending(next) ==
  /\ timer' = FALSE
  /\ IF blocked THEN pending' = None /\ UNCHANGED <<shown, writing>> ELSE Drain(next)
  /\ UNCHANGED <<load, blocked, settings, file, marked>>

\* updateSettings and scheduleWrite.
UpdateSettings ==
  /\ load \notin Hydrating /\ settings < MaxVersion
  /\ settings' = settings + 1
  /\ IF blocked THEN UNCHANGED <<pending, timer, shown>>
     ELSE pending' = settings + 1 /\ timer' = TRUE /\ shown' = "pending"
  /\ UNCHANGED <<load, blocked, writing, file, marked>>

WriteTimerFires == timer /\ FlushPending(pending)

\* The settings dialog closes, or the component that holds it unmounts.
FlushPendingWrites == load \notin Hydrating /\ FlushPending(pending)

\* The user asks for the retry that the settings offer after a failure.
RetryPendingWrites ==
  /\ load \notin Hydrating /\ shown = "failed"
  /\ FlushPending(IF pending = None THEN settings ELSE pending)

\* MUTANT of WriteSucceeds: the drain ends with the first write.
WriteSucceedsOnce(version) ==
  /\ load \notin Hydrating /\ version \in writing
  /\ file' = version
  /\ writing' = writing \ {version} /\ shown' = "idle"
  /\ UNCHANGED <<load, blocked, settings, pending, timer, marked>>

\* The shell has written the file, and the drain goes on with what is pending now.
WriteSucceeds(version) ==
  /\ load \notin Hydrating /\ version \in writing
  /\ file' = version
  /\ IF pending = None
     THEN writing' = writing \ {version} /\ shown' = "idle" /\ UNCHANGED pending
     ELSE writing' = (writing \ {version}) \union {pending} /\ shown' = "saving" /\ pending' = None
  /\ UNCHANGED <<load, blocked, settings, timer, marked>>

\* A write fails: its settings stay pending, unless newer ones already are.
WriteFails(version) ==
  /\ load \notin Hydrating /\ version \in writing
  /\ writing' = writing \ {version}
  /\ pending' = IF pending = None THEN version ELSE pending
  /\ shown' = "failed"
  /\ UNCHANGED <<load, blocked, settings, timer, file, marked>>

Hydrate == ReadSettings \/ ReadFails \/ MigrationFails \/ \E ok \in BOOLEAN : HydrationWrites(ok)
SettingsAnswers == \E version \in writing : WriteSucceeds(version) \/ WriteFails(version)
SettingsByItself == Hydrate \/ WriteTimerFires
SettingsByUser == UpdateSettings \/ FlushPendingWrites \/ RetryPendingWrites

-----------------------------------------------------------------------------
(* Properties.                                                             *)

\* Settings the store could not read, and legacy settings it could not migrate, are left as they
\* are: nothing is written, and the migration is not marked as done.
UnreadSettingsAreKept == [][blocked \/ file = Foreign => UNCHANGED <<file, marked>>]_settingsVars

\* The file never returns to an earlier version: writes do not overtake one another.
FileNeverGoesBack == [][file # Foreign => file' >= file]_settingsVars
=============================================================================
