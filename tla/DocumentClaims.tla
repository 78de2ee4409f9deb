--------------------------- MODULE DocumentClaims ---------------------------
(***************************************************************************)
(* The document-claim registry of the desktop shell                        *)
(* (src-tauri/src/services/document_claim_service.rs).  Every window of    *)
(* the application asks this one registry for a document before it opens,  *)
(* saves or renames it, so that no file is ever edited in two windows.     *)
(*                                                                         *)
(* The registry sits behind one mutex, but its callers resolve document    *)
(* paths on the file system while they do not hold it: `reserve` and       *)
(* `commit_operation` lock, unlock, resolve and lock again, and symbolic   *)
(* links may be retargeted, sessions replaced and windows destroyed in     *)
(* between.  A call that is between two of its lock regions is a record in *)
(* `calls`; each action below is one lock region or one file-system read.  *)
(***************************************************************************)
EXTENDS Integers, FiniteSets

CONSTANTS
  Windows,        \* labels of the desktop windows
  SessionIds,     \* identifiers a page draws for its claim session
  OpIds,          \* operation identifiers of a session
  Keys,           \* path identity keys: what a spelling or a canonical path normalises to
  Paths,          \* the keys of the document paths the callers name, a subset of Keys
  Aliases,        \* the keys whose file may be retargeted or go away, a subset of Keys
  Threads,        \* blocking-pool threads that run the IPC commands
  MaxSequence,    \* u64::MAX of next_sequence: the last value is never a token
  MaxGeneration,  \* MAX_SAFE_SESSION_GENERATION
  NoClaim, NoToken, NoOp, NoSession, Absent, Unreachable, Idle

ASSUME SequenceAssumption   == MaxSequence \in Nat \ {0}
ASSUME GenerationAssumption == MaxGeneration \in Nat \ {0}
ASSUME KeyAssumption        == Paths \subseteq Keys /\ Aliases \subseteq Keys
VARIABLES
  claims,          \* token -> claim record, or NoClaim
  index,           \* identity_claims: key -> token, or NoToken
  operations,      \* operation_states: (window, session, operation) -> state, or Absent
  sessions,        \* active_sessions: window -> session and generation, or NoSession
  nextSequence,    \* next_sequence
  nextGeneration,  \* next_session_generation
  calls,           \* thread -> the call it is running between two steps, or Idle
  live,            \* windows that exist
  fs               \* the file system: key -> canonical key of the file there, or Unreachable

registry == <<claims, index, operations, sessions, nextSequence, nextGeneration>>
vars     == <<claims, index, operations, sessions, nextSequence, nextGeneration,
              calls, live, fs>>

-----------------------------------------------------------------------------
(* Types.                                                                  *)

Tokens   == 1 .. (MaxSequence - 1)
OpKeys   == Windows \X SessionIds \X OpIds

\* ClaimRecord: an identity and a state.  A reserved claim has an operation; an owned one
\* may have lost it when its window began another session.
Claim == [window : Windows, session : SessionIds, op : OpIds \cup {NoOp},
          lexical : Keys, resolved : Keys, owned : BOOLEAN]

OperationState == [status : {"active"}, claim : Tokens]
                    \cup [status : {"released"}, lexical : Keys]

ActiveSession == [id : SessionIds, generation : 1 .. MaxGeneration]

\* A call that names a document.  "resolve": its first lock region let it through;
\* "enter": it has resolved its path to `target` (the path itself until then) and is about to
\* take the lock (again);
\* "validate", "checked" and "ran" belong to file I/O, which keeps the lock over all three.
\* `moved` is history: the path the I/O was checked for was retargeted after the check.
DocumentCall ==
  [kind : {"reserve", "commit", "yield", "io"},
   step : {"resolve", "enter", "validate", "checked", "ran"},
   window : Windows, session : SessionIds, op : OpIds \cup {NoOp},
   path : Paths, target : Keys, moved : BOOLEAN]

\* A page whose begin_session was refused, about to take over the session it was told of.
\* `saw` is that session; the caller only knows the generation.
TakeoverCall ==
  [kind : {"takeover"}, step : {"enter"}, window : Windows, session : SessionIds,
   expected : 1 .. MaxGeneration, saw : SessionIds]

ASSUME NullAssumption ==
  /\ NoClaim \notin Claim /\ NoToken \notin Nat /\ NoOp \notin OpIds
  /\ NoSession \notin ActiveSession /\ Absent \notin OperationState
  /\ Unreachable \notin Keys /\ Idle \notin DocumentCall \cup TakeoverCall

-----------------------------------------------------------------------------
(* Helpers of the registry.                                                *)

KeysOf(c) == {c.lexical, c.resolved}
OpKeyOf(c) == <<c.window, c.session, c.op>>
Resolved(p, target) == [lexical |-> p, resolved |-> target]

Held == {t \in Tokens : claims[t] # NoClaim}
OwnedBy(w) == {t \in Held : claims[t].owned /\ claims[t].window = w}
\* MUTANT of PendingOf: a takeover that clears everything the window holds.
PendingOrOwned(w) == {t \in Held : claims[t].window = w}

PendingOf(w) == {t \in Held : ~claims[t].owned /\ claims[t].window = w}

Active(t)      == [status |-> "active", claim |-> t]
Released(k)    == [status |-> "released", lexical |-> k]
IsActive(o, t) == o # Absent /\ o.status = "active" /\ o.claim = t

\* MUTANTS of Found: a lookup by the resolved file alone, and by the alias alone.
FoundByFile(id)  == {index[id.resolved]} \ {NoToken}
FoundByAlias(id) == {index[id.lexical]} \ {NoToken}

\* claim_id_for_identity: no token, one token, or two (AmbiguousPathIdentity).
Found(id) == {index[id.lexical], index[id.resolved]} \ {NoToken}

IsCurrent(w, s) == sessions[w] # NoSession /\ sessions[w].id = s

\* remove_claim for a set T of held claims: the claims and the keys that name them go.
ClaimsWithout(T) == [t \in Tokens |-> IF t \in T THEN NoClaim ELSE claims[t]]

\* MUTANT of IndexWithout: the resolved key of a removed claim stays behind.
IndexWithoutAlias(T) == [k \in Keys |->
    IF \E t \in T : index[k] = t /\ k = claims[t].lexical THEN NoToken ELSE index[k]]

IndexWithout(T)  == [k \in Keys |->
    IF \E t \in T : index[k] = t /\ k \in KeysOf(claims[t]) THEN NoToken ELSE index[k]]

\* Their operations are forgotten (OperationDisposition::Remove) ...
OperationsOf(T) == {OpKeyOf(claims[t]) : t \in {u \in T : claims[u].op # NoOp}}
OperationsForgetting(T) ==
  [o \in OpKeys |-> IF o \in OperationsOf(T) THEN Absent ELSE operations[o]]

\* ... or remembered as released under the claim's alias (MarkReleased).
OperationsReleasing(T) ==
  [o \in OpKeys |->
     IF o \in OperationsOf(T)
       THEN Released(claims[CHOOSE t \in T : claims[t].op # NoOp /\ OpKeyOf(claims[t]) = o].lexical)
       ELSE operations[o]]

\* remove_operations_for_other_sessions
OfOneSession(ops, w, s) ==
  [o \in OpKeys |-> IF o[1] = w /\ o[2] # s THEN Absent ELSE ops[o]]

\* MUTANT of Rebound: the claim keeps the operation of the session it left.
ReboundWithOperation(cs, w, s) ==
  [t \in Tokens |-> IF cs[t] # NoClaim /\ cs[t].owned /\ cs[t].window = w
                      THEN [cs[t] EXCEPT !.session = s] ELSE cs[t]]

\* rebind_owned_session
Rebound(cs, w, s) ==
  [t \in Tokens |-> IF cs[t] # NoClaim /\ cs[t].owned /\ cs[t].window = w
                      THEN [cs[t] EXCEPT !.session = s, !.op = NoOp] ELSE cs[t]]

\* active_claim_for_operation and validate_operation_owner: the claim the tuple may act for.
MayActFor(w, s, o, t) ==
  /\ IsCurrent(w, s)
  /\ IsActive(operations[<<w, s, o>>], t)
  /\ claims[t] # NoClaim
  /\ OpKeyOf(claims[t]) = <<w, s, o>>

\* MUTANTS: one generation more than there is, and a generation that is not a new one.
GenerationOffByOne == nextGeneration <= MaxGeneration + 1
SameGeneration(w, s) == [id |-> s, generation |-> 1]

\* allocate_session_generation: it fails once the safe integers are used up.
GenerationAvailable == nextGeneration <= MaxGeneration
SessionGeneration(w, s) == [id |-> s, generation |-> nextGeneration]

\* Only file I/O holds the mutex from one step to the next.
LockFree == \A r \in Threads : calls[r] # Idle => calls[r].kind # "io"

Running(r, kind, step) ==
  calls[r] # Idle /\ calls[r].kind = kind /\ calls[r].step = step

Call(kind, step, w, s, o, p, target) ==
  [kind |-> kind, step |-> step, window |-> w, session |-> s, op |-> o,
   path |-> p, target |-> target, moved |-> FALSE]

Begin(r, call) == calls' = [calls EXCEPT ![r] = call]
Return(r)      == calls' = [calls EXCEPT ![r] = Idle]

\* Where each key's path leads: canonical paths lead to themselves.
FileSystems ==
  {f \in [Keys -> Keys \cup {Unreachable}] :
     /\ \A k \in Keys : f[k] # Unreachable => f[f[k]] = f[k]
     /\ \A k \in Keys \ Aliases : f[k] = k}

-----------------------------------------------------------------------------
(* Sessions.                                                               *)

Init ==
  /\ claims = [t \in Tokens |-> NoClaim]
  /\ index = [k \in Keys |-> NoToken]
  /\ operations = [o \in OpKeys |-> Absent]
  /\ sessions = [w \in Windows |-> NoSession]
  /\ nextSequence = 1
  /\ nextGeneration = 1
  /\ calls = [r \in Threads |-> Idle]
  /\ live = {}
  /\ fs \in FileSystems

\* begin_session with no active session.
BeginSession(w, s) ==
  /\ LockFree /\ w \in live
  /\ sessions[w] = NoSession /\ GenerationAvailable
  /\ sessions' = [sessions EXCEPT ![w] = SessionGeneration(w, s)]
  /\ nextGeneration' = nextGeneration + 1
  /\ operations' = OfOneSession(operations, w, s)
  /\ claims' = Rebound(claims, w, s)
  /\ UNCHANGED <<index, nextSequence, calls, live, fs>>

\* begin_session refused with the active generation; the page answers with a takeover.
RefuseSession(r, w, s) ==
  /\ LockFree /\ w \in live /\ calls[r] = Idle
  /\ sessions[w] # NoSession /\ sessions[w].id # s
  /\ Begin(r, [kind |-> "takeover", step |-> "enter", window |-> w, session |-> s,
               expected |-> sessions[w].generation, saw |-> sessions[w].id])
  /\ UNCHANGED <<registry, live, fs>>

\* takeover_session: refused unless the generation is still the active one.
TakeoverAllowed(c) ==
  /\ sessions[c.window] # NoSession
  /\ sessions[c.window].id # c.session
  /\ sessions[c.window].generation = c.expected
  /\ GenerationAvailable

TakeoverSession(r) ==
  /\ LockFree /\ Running(r, "takeover", "enter")
  /\ TakeoverAllowed(calls[r])
  /\ LET w == calls[r].window
         s == calls[r].session
     IN /\ claims' = Rebound(ClaimsWithout(PendingOf(w)), w, s)
        /\ index' = IndexWithout(PendingOf(w))
        /\ operations' = OfOneSession(OperationsForgetting(PendingOf(w)), w, s)
        /\ sessions' = [sessions EXCEPT ![w] = SessionGeneration(w, s)]
        /\ nextGeneration' = nextGeneration + 1
  /\ Return(r)
  /\ UNCHANGED <<nextSequence, live, fs>>

RefuseTakeover(r) ==
  /\ LockFree /\ Running(r, "takeover", "enter")
  /\ ~TakeoverAllowed(calls[r])
  /\ Return(r)
  /\ UNCHANGED <<registry, live, fs>>

\* release_session: the session's reservations go, what the window owns stays.
ReleaseSession(w, s) ==
  /\ LockFree /\ w \in live /\ IsCurrent(w, s)
  /\ LET pending == {t \in PendingOf(w) : claims[t].session = s}
     IN /\ claims' = ClaimsWithout(pending)
        /\ index' = IndexWithout(pending)
  /\ operations' = [o \in OpKeys |-> IF o[1] = w /\ o[2] = s THEN Absent ELSE operations[o]]
  /\ sessions' = [sessions EXCEPT ![w] = NoSession]
  /\ UNCHANGED <<nextSequence, nextGeneration, calls, live, fs>>

\* release_window, on the Destroyed event.  Calls the window has in flight go on.
DestroyWindow(w) ==
  /\ LockFree /\ w \in live
  /\ LET T == OwnedBy(w) \cup PendingOf(w)
     IN /\ claims' = ClaimsWithout(T)
        /\ index' = IndexWithout(T)
  /\ operations' = [o \in OpKeys |-> IF o[1] = w THEN Absent ELSE operations[o]]
  /\ sessions' = [sessions EXCEPT ![w] = NoSession]
  /\ live' = live \ {w}
  /\ UNCHANGED <<nextSequence, nextGeneration, calls, fs>>

CreateWindow(w) ==
  /\ w \notin live
  /\ live' = live \cup {w}
  /\ UNCHANGED <<registry, calls, fs>>

-----------------------------------------------------------------------------
(* Documents.                                                              *)

\* reserve, first lock region: a window with a session must name it, and an operation the
\* registry knows is answered from its record.
StartReserve(r, w, s, o, p) ==
  /\ LockFree /\ w \in live /\ calls[r] = Idle
  /\ sessions[w] # NoSession => /\ sessions[w].id = s
                                /\ operations[<<w, s, o>>] = Absent
  /\ Begin(r, Call("reserve", "resolve", w, s, o, p, p))
  /\ UNCHANGED <<registry, live, fs>>

\* commit_operation, first lock region.
CommitAllowed(w, s, o, p, t) ==
  /\ MayActFor(w, s, o, t)
  /\ claims[t].lexical = p
  /\ ~claims[t].owned

StartCommit(r, w, s, o, p) ==
  /\ LockFree /\ w \in live /\ calls[r] = Idle
  /\ \E t \in Tokens : CommitAllowed(w, s, o, p, t)
  /\ Begin(r, Call("commit", "resolve", w, s, o, p, p))
  /\ UNCHANGED <<registry, live, fs>>

\* release_owned resolves before it takes the lock for the first time.
StartYield(r, w, s, p) ==
  /\ w \in live /\ calls[r] = Idle
  /\ Begin(r, Call("yield", "resolve", w, s, NoOp, p, p))
  /\ UNCHANGED <<registry, live, fs>>

\* DocumentPathIdentity::resolve, outside the lock; it fails when the file is unreachable.
Resolve(r) ==
  /\ \E kind \in {"reserve", "commit", "yield"} : Running(r, kind, "resolve")
  /\ LET target == fs[calls[r].path]
     IN IF target = Unreachable THEN Return(r)
        ELSE Begin(r, [calls[r] EXCEPT !.step = "enter", !.target = target])
  /\ UNCHANGED <<registry, live, fs>>

(* reserve, second lock region.  It may have to begin the session first, and what it began *)
(* stays begun when the reservation is refused.                                            *)
SessionRefuses(w, s) ==
  IF sessions[w] = NoSession THEN ~GenerationAvailable ELSE sessions[w].id # s

EnsureSession(w, s) ==
  IF sessions[w] = NoSession
    THEN /\ sessions' = [sessions EXCEPT ![w] = SessionGeneration(w, s)]
         /\ nextGeneration' = nextGeneration + 1
    ELSE UNCHANGED <<sessions, nextGeneration>>

EnsuredClaims(w, s) == IF sessions[w] = NoSession THEN Rebound(claims, w, s) ELSE claims
EnsuredOperations(w, s) ==
  IF sessions[w] = NoSession THEN OfOneSession(operations, w, s) ELSE operations

\* A window meets its own committed claim: the operation takes it over from the previous one.
Bindable(cs, os, t, w, s) ==
  /\ cs[t] # NoClaim
  /\ cs[t].owned /\ cs[t].window = w /\ cs[t].session = s
  /\ cs[t].op # NoOp => IsActive(os[OpKeyOf(cs[t])], t)

\* MUTANT of Unknown: a released operation counts as unknown when its reserve comes back.
UnknownOrReleased(os, o) == IF os[o] = Absent THEN TRUE ELSE os[o].status = "released"

\* reserve_outcome_for_operation has no answer.
Unknown(os, o) == os[o] = Absent

RejectReserve(r) ==
  /\ LockFree /\ Running(r, "reserve", "enter")
  /\ SessionRefuses(calls[r].window, calls[r].session)
  /\ Return(r)
  /\ UNCHANGED <<registry, live, fs>>

\* Answered without a new claim: the operation is known, another claim (or two) stands in the
\* way, or the token space is used up.
AnswerReserve(r) ==
  /\ LockFree /\ Running(r, "reserve", "enter")
  /\ LET w  == calls[r].window
         s  == calls[r].session
         cs == EnsuredClaims(w, s)
         os == EnsuredOperations(w, s)
         id == Resolved(calls[r].path, calls[r].target)
     IN /\ ~SessionRefuses(w, s)
        /\ \/ ~Unknown(os, <<w, s, calls[r].op>>)
           \/ Cardinality(Found(id)) = 2
           \/ \E t \in Found(id) : ~Bindable(cs, os, t, w, s)
           \/ Found(id) = {} /\ nextSequence = MaxSequence
        /\ EnsureSession(w, s)
        /\ claims' = cs
        /\ operations' = os
  /\ Return(r)
  /\ UNCHANGED <<index, nextSequence, live, fs>>

BindReserve(r) ==
  /\ LockFree /\ Running(r, "reserve", "enter")
  /\ LET w  == calls[r].window
         s  == calls[r].session
         o  == calls[r].op
         cs == EnsuredClaims(w, s)
         os == EnsuredOperations(w, s)
     IN /\ ~SessionRefuses(w, s)
        /\ Unknown(os, <<w, s, o>>)
        /\ \E t \in Tokens :
             /\ Found(Resolved(calls[r].path, calls[r].target)) = {t}
             /\ Bindable(cs, os, t, w, s)
             /\ claims' = [cs EXCEPT ![t].op = o]
             /\ operations' = [k \in OpKeys |->
                  IF k = <<w, s, o>> THEN Active(t)
                  ELSE IF k = OpKeyOf(cs[t]) THEN Absent ELSE os[k]]
        /\ EnsureSession(w, s)
  /\ Return(r)
  /\ UNCHANGED <<index, nextSequence, live, fs>>

GrantReserve(r) ==
  /\ LockFree /\ Running(r, "reserve", "enter")
  /\ LET w  == calls[r].window
         s  == calls[r].session
         o  == calls[r].op
         id == Resolved(calls[r].path, calls[r].target)
     IN /\ ~SessionRefuses(w, s)
        /\ Unknown(EnsuredOperations(w, s), <<w, s, o>>)
        /\ Found(id) = {}
        /\ nextSequence < MaxSequence
        /\ EnsureSession(w, s)
        /\ claims' = [EnsuredClaims(w, s) EXCEPT ![nextSequence] =
             [window |-> w, session |-> s, op |-> o,
              lexical |-> id.lexical, resolved |-> id.resolved, owned |-> FALSE]]
        /\ index' = [k \in Keys |-> IF k \in KeysOf(id) THEN nextSequence ELSE index[k]]
        /\ operations' = [EnsuredOperations(w, s) EXCEPT ![<<w, s, o>>] = Active(nextSequence)]
  /\ nextSequence' = nextSequence + 1
  /\ Return(r)
  /\ UNCHANGED <<live, fs>>

\* commit_operation, second lock region: the tuple is checked again, and the path must still
\* resolve to exactly what was reserved.  What the window owned before is released.
CommitPasses(r, t) ==
  LET c == calls[r] IN
  /\ CommitAllowed(c.window, c.session, c.op, c.path, t)
  /\ Found(Resolved(c.path, c.target)) = {t}
  /\ claims[t].lexical = c.path /\ claims[t].resolved = c.target

\* MUTANT of Superseded: a commit leaves the window its previous document.
SupersedeNothing(w, t) == {}

\* remove_owned_for_window_except
Superseded(w, t) == OwnedBy(w) \ {t}

Commit(r) ==
  /\ LockFree /\ Running(r, "commit", "enter")
  /\ \E t \in Held :
       /\ CommitPasses(r, t)
       /\ LET previous == Superseded(calls[r].window, t)
          IN /\ claims' = [ClaimsWithout(previous) EXCEPT ![t].owned = TRUE]
             /\ index' = IndexWithout(previous)
             /\ operations' = OperationsReleasing(previous)
  /\ Return(r)
  /\ UNCHANGED <<sessions, nextSequence, nextGeneration, live, fs>>

RejectCommit(r) ==
  /\ LockFree /\ Running(r, "commit", "enter")
  /\ \A t \in Held : ~CommitPasses(r, t)
  /\ Return(r)
  /\ UNCHANGED <<registry, live, fs>>

\* release_operation: one lock region, on the alias alone.
ReleaseOperation(w, s, o, p) ==
  /\ LockFree /\ w \in live
  /\ \E t \in Held :
       /\ MayActFor(w, s, o, t)
       /\ claims[t].lexical = p
       /\ ~claims[t].owned
       /\ claims' = ClaimsWithout({t})
       /\ index' = IndexWithout({t})
       /\ operations' = OperationsReleasing({t})
  /\ UNCHANGED <<sessions, nextSequence, nextGeneration, calls, live, fs>>

\* release_owned, its lock region: only the window's own committed claim goes.
YieldPasses(r, t) ==
  LET c == calls[r] IN
  /\ IsCurrent(c.window, c.session)
  /\ Found(Resolved(c.path, c.target)) = {t}
  /\ claims[t].owned /\ claims[t].window = c.window /\ claims[t].session = c.session

YieldOwned(r) ==
  /\ LockFree /\ Running(r, "yield", "enter")
  /\ \E t \in Held :
       /\ YieldPasses(r, t)
       /\ claims' = ClaimsWithout({t})
       /\ index' = IndexWithout({t})
       /\ operations' = OperationsReleasing({t})
  /\ Return(r)
  /\ UNCHANGED <<sessions, nextSequence, nextGeneration, live, fs>>

RejectYield(r) ==
  /\ LockFree /\ Running(r, "yield", "enter")
  /\ \A t \in Held : ~YieldPasses(r, t)
  /\ Return(r)
  /\ UNCHANGED <<registry, live, fs>>

(* with_validated_operation_io: one lock region around three reads of the file system.  The *)
(* document's path is made canonical, the canonical path is resolved again and checked, and  *)
(* the operation opens it.  The lock holds the registry still, not the file system.          *)
(* `target` is the canonical path, and from "ran" on the file the operation opened.          *)
StartIo(r, w, s, o, p) ==
  /\ LockFree /\ w \in live /\ calls[r] = Idle
  /\ \E t \in Held : MayActFor(w, s, o, t) /\ claims[t].lexical = p
  /\ fs[p] # Unreachable
  /\ Begin(r, Call("io", "validate", w, s, o, p, fs[p]))
  /\ UNCHANGED <<registry, live, fs>>

\* MUTANT of IoPasses: the index is asked, the claim's own file is not compared.
IoPassesByIndex(c, file) ==
  /\ file # Unreachable
  /\ \E t \in Held :
       /\ IsActive(operations[<<c.window, c.session, c.op>>], t)
       /\ Found(Resolved(c.target, file)) = {t}

IoPasses(c, file) ==
  /\ file # Unreachable
  /\ \E t \in Held :
       /\ IsActive(operations[<<c.window, c.session, c.op>>], t)
       /\ Found(Resolved(c.target, file)) = {t}
       /\ claims[t].resolved = file

ValidateIo(r) ==
  /\ Running(r, "io", "validate")
  /\ IF IoPasses(calls[r], fs[calls[r].target])
       THEN Begin(r, [calls[r] EXCEPT !.step = "checked"])
       ELSE Return(r)
  /\ UNCHANGED <<registry, live, fs>>

\* The operation opens the canonical path by name; it fails when the path leads nowhere.
RunIo(r) ==
  /\ Running(r, "io", "checked")
  /\ LET file == fs[calls[r].target]
     IN IF file = Unreachable THEN Return(r)
        ELSE Begin(r, [calls[r] EXCEPT !.step = "ran", !.target = file])
  /\ UNCHANGED <<registry, live, fs>>

ReturnIo(r) ==
  /\ Running(r, "io", "ran")
  /\ Return(r)
  /\ UNCHANGED <<registry, live, fs>>

-----------------------------------------------------------------------------
(* The file system changes under the application: links are pointed at other files, files  *)
(* replace links, directories go offline.                                                  *)
Retargeted(r, after) ==
  Running(r, "io", "checked") /\ after[calls[r].target] # fs[calls[r].target]

Refit(after) ==
  /\ fs' = after
  /\ fs # after
  /\ calls' = [r \in Threads |->
                 IF Retargeted(r, after) THEN [calls[r] EXCEPT !.moved = TRUE] ELSE calls[r]]
  /\ UNCHANGED <<registry, live>>

SessionStep ==
  \/ \E w \in Windows : CreateWindow(w) \/ DestroyWindow(w)
  \/ \E w \in Windows, s \in SessionIds : BeginSession(w, s) \/ ReleaseSession(w, s)
  \/ \E r \in Threads, w \in Windows, s \in SessionIds : RefuseSession(r, w, s)
  \/ \E r \in Threads : TakeoverSession(r) \/ RefuseTakeover(r)

StartStep ==
  \/ \E r \in Threads, w \in Windows, s \in SessionIds, o \in OpIds, p \in Paths :
       StartReserve(r, w, s, o, p) \/ StartCommit(r, w, s, o, p) \/ StartIo(r, w, s, o, p)
  \/ \E r \in Threads, w \in Windows, s \in SessionIds, p \in Paths : StartYield(r, w, s, p)

ThreadStep(r) ==
  \/ Resolve(r)
  \/ RejectReserve(r) \/ AnswerReserve(r) \/ BindReserve(r) \/ GrantReserve(r)
  \/ Commit(r) \/ RejectCommit(r)
  \/ YieldOwned(r) \/ RejectYield(r)
  \/ ValidateIo(r) \/ RunIo(r) \/ ReturnIo(r)

Next ==
  \/ SessionStep
  \/ StartStep
  \/ \E r \in Threads : ThreadStep(r)
  \/ \E w \in Windows, s \in SessionIds, o \in OpIds, p \in Paths : ReleaseOperation(w, s, o, p)
  \/ \E after \in FileSystems : Refit(after)

Spec == Init /\ [][Next]_vars

-----------------------------------------------------------------------------
(* Properties.                                                             *)

\* Every variable keeps its type, so no counter passes the limit the code gives it.
TypeOK ==
  /\ claims \in [Tokens -> Claim \cup {NoClaim}]
  /\ index \in [Keys -> Tokens \cup {NoToken}]
  /\ operations \in [OpKeys -> OperationState \cup {Absent}]
  /\ sessions \in [Windows -> ActiveSession \cup {NoSession}]
  /\ nextSequence \in 1 .. MaxSequence
  /\ nextGeneration \in 1 .. (MaxGeneration + 1)
  /\ calls \in [Threads -> DocumentCall \cup TakeoverCall \cup {Idle}]
  /\ live \in SUBSET Windows
  /\ fs \in [Keys -> Keys \cup {Unreachable}]

\* The index and the claims describe each other: every claim is found under its alias and
\* under the file it resolved to, the index names only claims that have the key, and the next
\* token was never issued before.
\* A removal that forgets one of the two keys blocks a document for good.
ClaimsAreIndexed == \A t \in Held : \A k \in KeysOf(claims[t]) : index[k] = t
IndexIsExact     == \A k \in Keys : index[k] # NoToken =>
                      index[k] \in Held /\ k \in KeysOf(claims[index[k]])
TokensAreFresh   == \A t \in Held : t < nextSequence
IndexConsistent  == ClaimsAreIndexed /\ IndexIsExact /\ TokensAreFresh

\* No document has two claims, under any spelling and whatever the links did between the
\* lock regions of the calls that asked for it.
NoDocumentClaimedTwice ==
  \A t, u \in Held : t # u => KeysOf(claims[t]) \cap KeysOf(claims[u]) = {}

\* A window owns at most one document.
OneDocumentPerWindow ==
  \A t, u \in Held : claims[t].owned /\ claims[u].owned /\ claims[t].window = claims[u].window
                       => t = u

\* Sessions fence their claims: operation records exist only for active sessions, an active
\* operation and its claim name each other, a reservation never outlives its session, and an
\* owned claim of a window with a session has been bound to that session.
OperationsAreCurrent ==
  \A w \in Windows, s \in SessionIds, o \in OpIds :
    operations[<<w, s, o>>] # Absent => IsCurrent(w, s)
ActiveOperationsHaveClaims ==
  \A o \in OpKeys : operations[o] # Absent /\ operations[o].status = "active" =>
    operations[o].claim \in Held /\ OpKeyOf(claims[operations[o].claim]) = o
ReservationsAreCurrent ==
  \A t \in Held : ~claims[t].owned =>
    claims[t].op # NoOp /\ IsCurrent(claims[t].window, claims[t].session)
ClaimsKnowTheirOperation ==
  \A t \in Held : sessions[claims[t].window] # NoSession =>
    /\ IsCurrent(claims[t].window, claims[t].session)
    /\ claims[t].op # NoOp => IsActive(operations[OpKeyOf(claims[t])], t)
SessionsFenceClaims ==
  /\ OperationsAreCurrent
  /\ ActiveOperationsHaveClaims
  /\ ReservationsAreCurrent
  /\ ClaimsKnowTheirOperation

\* A takeover can only displace the session whose refusal it answers, however many sessions
\* have come and gone in the window since.
TakeoversNameOneSession ==
  \A r \in Threads : Running(r, "takeover", "enter") =>
    LET active == sessions[calls[r].window]
    IN active # NoSession /\ active.generation = calls[r].expected => active.id = calls[r].saw

\* File I/O reaches only a file its window has a claim on, even when the path it was given is
\* retargeted between canonicalisation and the check, and whatever the other calls do.  What
\* is left is the moment between the check and the operation: the operation opens the path by
\* name, so a path retargeted there leads it elsewhere.
OnClaimedFile(c) ==
  \E t \in Held : /\ claims[t].window = c.window
                  /\ claims[t].resolved = c.target
                  /\ index[c.target] = t
IoStaysOnClaimedFile ==
  \A r \in Threads : Running(r, "io", "ran") => calls[r].moved \/ OnClaimedFile(calls[r])

\* What a window owns survives the sessions of its pages (reload, takeover, release_session).
OwnershipSurvivesSessions ==
  [][\A w \in Windows : sessions'[w] # sessions[w] /\ w \in live' =>
       \A t \in OwnedBy(w) : /\ claims'[t] # NoClaim
                             /\ claims'[t].owned /\ claims'[t].window = w]_vars

\* An operation that was released stays released while its session lasts: a duplicate of its
\* reserve that was still resolving the path cannot bring the claim back.
ReleasedStaysReleased ==
  [][\A w \in Windows, s \in SessionIds, o \in OpIds :
       /\ operations[<<w, s, o>>] # Absent
       /\ operations[<<w, s, o>>].status = "released"
       /\ sessions'[w] = sessions[w]
       => operations'[<<w, s, o>>] = operations[<<w, s, o>>]]_vars

\* The registry implements the ownership it promises.
Ownership == INSTANCE DocumentOwnership WITH
  pending <- [w \in Windows |-> {KeysOf(claims[t]) : t \in PendingOf(w)}],
  owned   <- [w \in Windows |-> {KeysOf(claims[t]) : t \in OwnedBy(w)}]
ImplementsOwnership == Ownership!Spec

-----------------------------------------------------------------------------
(* Properties the code does not have (see the README).                     *)

\* lib.rs, destroyed_window_releases_only_its_document_claims: a destroyed window leaves its
\* documents to the other windows.
DestroyedWindowHoldsNothing ==
  \A w \in Windows \ live : OwnedBy(w) \cup PendingOf(w) = {}

\* The doc comment of with_validated_operation_io: one operation "against the canonical target
\* protected by an active claim".  The operation opens that target by its name once more.
IoNeverLeavesTheClaim ==
  \A r \in Threads : Running(r, "io", "ran") => OnClaimedFile(calls[r])
=============================================================================
