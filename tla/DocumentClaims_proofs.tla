----------------------- MODULE DocumentClaims_proofs -----------------------
(***************************************************************************)
(* Proofs about the document-claim registry, for any windows, sessions,    *)
(* operations, paths, links and threads.                                   *)
(***************************************************************************)
EXTENDS DocumentClaims, TLAPS

-----------------------------------------------------------------------------
(* What the helpers of the registry return.                                *)

\* Removing claims keeps the types of the claims and of the index.
LEMMA RemovalTypes ==
  ASSUME TypeOK, NEW T
  PROVE  /\ ClaimsWithout(T) \in [Tokens -> Claim \cup {NoClaim}]
         /\ IndexWithout(T) \in [Keys -> Tokens \cup {NoToken}]
         /\ OperationsForgetting(T) \in [OpKeys -> OperationState \cup {Absent}]
BY DEF TypeOK, ClaimsWithout, IndexWithout, OperationsForgetting

\* The operation of a removed claim is remembered under the alias of a claim.
LEMMA ReleasingTypes ==
  ASSUME TypeOK, NEW T \in SUBSET Held
  PROVE  OperationsReleasing(T) \in [OpKeys -> OperationState \cup {Absent}]
<1>1. SUFFICES ASSUME NEW o \in OpKeys
               PROVE  OperationsReleasing(T)[o] \in OperationState \cup {Absent}
  BY DEF OperationsReleasing
<1>2. CASE o \in OperationsOf(T)
  <2> DEFINE t == CHOOSE t \in T : claims[t].op # NoOp /\ OpKeyOf(claims[t]) = o
  <2>1. \E u \in T : claims[u].op # NoOp /\ OpKeyOf(claims[u]) = o
    BY <1>2 DEF OperationsOf
  <2>2. t \in T
    BY <2>1
  <2>3. claims[t] \in Claim
    BY <2>2 DEF TypeOK, Held
  <2>4. claims[t].lexical \in Keys
    BY <2>3 DEF Claim
  <2>5. Released(claims[t].lexical) \in OperationState
    BY <2>4 DEF Released, OperationState
  <2> QED
    BY <1>2, <2>5 DEF OperationsReleasing
<1>3. CASE o \notin OperationsOf(T)
  BY <1>3 DEF OperationsReleasing, TypeOK
<1> QED
  BY <1>2, <1>3

\* Leaving other sessions behind keeps the type of the operations.
LEMMA OfOneSessionType ==
  ASSUME NEW ops \in [OpKeys -> OperationState \cup {Absent}], NEW w, NEW s
  PROVE  OfOneSession(ops, w, s) \in [OpKeys -> OperationState \cup {Absent}]
BY DEF OfOneSession

\* Rebinding keeps the type of the claims ...
LEMMA ReboundType ==
  ASSUME NEW cs \in [Tokens -> Claim \cup {NoClaim}], NEW w, NEW s \in SessionIds
  PROVE  Rebound(cs, w, s) \in [Tokens -> Claim \cup {NoClaim}]
<1>1. SUFFICES ASSUME NEW t \in Tokens, cs[t] # NoClaim
               PROVE  [cs[t] EXCEPT !.session = s, !.op = NoOp] \in Claim
  BY DEF Rebound
<1>2. cs[t] \in Claim
  BY <1>1
<1> QED
  BY <1>2 DEF Claim

\* ... and everything of a claim except its session and its operation.
LEMMA ReboundKeeps ==
  ASSUME NEW cs \in [Tokens -> Claim \cup {NoClaim}], NEW w, NEW s \in SessionIds,
         NEW t \in Tokens
  PROVE  /\ (Rebound(cs, w, s)[t] = NoClaim) <=> (cs[t] = NoClaim)
         /\ cs[t] # NoClaim => /\ Rebound(cs, w, s)[t].lexical = cs[t].lexical
                               /\ Rebound(cs, w, s)[t].resolved = cs[t].resolved
                               /\ Rebound(cs, w, s)[t].window = cs[t].window
                               /\ Rebound(cs, w, s)[t].owned = cs[t].owned
<1>1. CASE cs[t] = NoClaim
  BY <1>1 DEF Rebound
<1>2. CASE cs[t] # NoClaim
  <2>1. cs[t] \in Claim
    BY <1>2
  <2>2. Rebound(cs, w, s)[t] \in Claim
    <3>1. Rebound(cs, w, s)[t] \in {cs[t], [cs[t] EXCEPT !.session = s, !.op = NoOp]}
      BY DEF Rebound
    <3> QED
      BY <2>1, <3>1 DEF Claim
  <2>3. NoClaim \notin Claim
    BY NullAssumption
  <2> QED
    BY <2>1, <2>2, <2>3 DEF Rebound, Claim
<1> QED
  BY <1>1, <1>2

\* A new session's record is one.
LEMMA SessionGenerationType ==
  ASSUME TypeOK, GenerationAvailable, NEW w \in Windows, NEW s \in SessionIds
  PROVE  /\ SessionGeneration(w, s) \in ActiveSession
         /\ nextGeneration + 1 \in 1 .. (MaxGeneration + 1)
BY GenerationAssumption DEF TypeOK, GenerationAvailable, SessionGeneration, ActiveSession

\* reserve's implicit session keeps the types.
LEMMA EnsureTypes ==
  ASSUME TypeOK, NEW w \in Windows, NEW s \in SessionIds,
         ~SessionRefuses(w, s), EnsureSession(w, s)
  PROVE  /\ sessions' \in [Windows -> ActiveSession \cup {NoSession}]
         /\ nextGeneration' \in 1 .. (MaxGeneration + 1)
         /\ EnsuredClaims(w, s) \in [Tokens -> Claim \cup {NoClaim}]
         /\ EnsuredOperations(w, s) \in [OpKeys -> OperationState \cup {Absent}]
<1>1. CASE sessions[w] = NoSession
  <2>1. GenerationAvailable
    BY <1>1 DEF SessionRefuses
  <2> QED
    BY <1>1, <2>1, SessionGenerationType, ReboundType, OfOneSessionType
    DEF TypeOK, EnsureSession, EnsuredClaims, EnsuredOperations
<1>2. CASE sessions[w] # NoSession
  BY <1>2 DEF TypeOK, EnsureSession, EnsuredClaims, EnsuredOperations
<1> QED
  BY <1>1, <1>2

\* Starting, advancing and finishing a call keep the type of the calls.
LEMMA CallTypes ==
  ASSUME TypeOK, NEW r \in Threads,
         \/ Return(r)
         \/ \E c \in DocumentCall \cup TakeoverCall : Begin(r, c)
  PROVE  calls' \in [Threads -> DocumentCall \cup TakeoverCall \cup {Idle}]
BY DEF TypeOK, Return, Begin

\* A running call other than a takeover names a document.
LEMMA RunningType ==
  ASSUME TypeOK, NEW r \in Threads, NEW kind \in {"reserve", "commit", "yield", "io"},
         NEW step, Running(r, kind, step)
  PROVE  calls[r] \in DocumentCall
BY DEF TypeOK, Running, TakeoverCall

-----------------------------------------------------------------------------
(* Type correctness.                                                       *)

\* The first state has the right types.
LEMMA InitType == Init => TypeOK
BY SequenceAssumption, GenerationAssumption DEF Init, TypeOK, FileSystems

\* Windows and sessions keep the types.
LEMMA SessionStepType == TypeOK /\ SessionStep => TypeOK'
<1> SUFFICES ASSUME TypeOK, SessionStep PROVE TypeOK'
  OBVIOUS
<1>1. ASSUME NEW w \in Windows, CreateWindow(w) PROVE TypeOK'
  BY <1>1 DEF CreateWindow, TypeOK, registry
<1>2. ASSUME NEW w \in Windows, DestroyWindow(w) PROVE TypeOK'
  BY <1>2, RemovalTypes DEF DestroyWindow, TypeOK
<1>3. ASSUME NEW w \in Windows, NEW s \in SessionIds, BeginSession(w, s) PROVE TypeOK'
  BY <1>3, SessionGenerationType, ReboundType, OfOneSessionType DEF BeginSession, TypeOK
<1>4. ASSUME NEW w \in Windows, NEW s \in SessionIds, ReleaseSession(w, s) PROVE TypeOK'
  BY <1>4, RemovalTypes DEF ReleaseSession, TypeOK
<1>5. ASSUME NEW r \in Threads, NEW w \in Windows, NEW s \in SessionIds, RefuseSession(r, w, s)
      PROVE  TypeOK'
  <2>1. sessions[w] \in ActiveSession
    BY <1>5 DEF RefuseSession, TypeOK
  <2>2. [kind |-> "takeover", step |-> "enter", window |-> w, session |-> s,
         expected |-> sessions[w].generation, saw |-> sessions[w].id] \in TakeoverCall
    BY <2>1 DEF ActiveSession, TakeoverCall
  <2>3. calls' \in [Threads -> DocumentCall \cup TakeoverCall \cup {Idle}]
    BY <1>5, <2>2, CallTypes DEF RefuseSession
  <2> QED
    BY <1>5, <2>3 DEF RefuseSession, TypeOK, registry
<1>6. ASSUME NEW r \in Threads, TakeoverSession(r) PROVE TypeOK'
  <2> DEFINE w == calls[r].window
             s == calls[r].session
  <2>1. calls[r] \in TakeoverCall
    BY <1>6 DEF TakeoverSession, Running, TypeOK, DocumentCall
  <2>2. w \in Windows /\ s \in SessionIds
    BY <2>1 DEF TakeoverCall
  <2>3. GenerationAvailable
    BY <1>6 DEF TakeoverSession, TakeoverAllowed
  <2>4. claims' \in [Tokens -> Claim \cup {NoClaim}]
    BY <1>6, <2>2, RemovalTypes, ReboundType DEF TakeoverSession
  <2>5. index' \in [Keys -> Tokens \cup {NoToken}]
    BY <1>6, RemovalTypes DEF TakeoverSession
  <2>6. operations' \in [OpKeys -> OperationState \cup {Absent}]
    BY <1>6, RemovalTypes, OfOneSessionType DEF TakeoverSession
  <2>7. /\ sessions' \in [Windows -> ActiveSession \cup {NoSession}]
        /\ nextGeneration' \in 1 .. (MaxGeneration + 1)
    BY <1>6, <2>2, <2>3, SessionGenerationType DEF TakeoverSession, TypeOK
  <2>8. calls' \in [Threads -> DocumentCall \cup TakeoverCall \cup {Idle}]
    BY <1>6, CallTypes DEF TakeoverSession
  <2> QED
    BY <1>6, <2>4, <2>5, <2>6, <2>7, <2>8 DEF TakeoverSession, TypeOK
<1>7. ASSUME NEW r \in Threads, RefuseTakeover(r) PROVE TypeOK'
  BY <1>7, CallTypes DEF RefuseTakeover, TypeOK, registry
<1> QED
  BY <1>1, <1>2, <1>3, <1>4, <1>5, <1>6, <1>7 DEF SessionStep

\* A call that starts is a document call; nothing else changes.
LEMMA StartStepType == TypeOK /\ StartStep => TypeOK'
<1> SUFFICES ASSUME TypeOK, StartStep PROVE TypeOK'
  OBVIOUS
<1>1. ASSUME NEW r \in Threads, NEW c \in DocumentCall, Begin(r, c),
             UNCHANGED <<registry, live, fs>>
      PROVE  TypeOK'
  BY <1>1, CallTypes DEF TypeOK, registry
<1>2. ASSUME NEW kind \in {"reserve", "commit", "yield", "io"},
             NEW step \in {"resolve", "enter", "validate", "checked", "ran"},
             NEW w \in Windows, NEW s \in SessionIds, NEW o \in OpIds \cup {NoOp},
             NEW p \in Paths, NEW target \in Keys
      PROVE  Call(kind, step, w, s, o, p, target) \in DocumentCall
  BY DEF Call, DocumentCall
<1>3. ASSUME NEW r \in Threads, NEW w \in Windows, NEW s \in SessionIds, NEW o \in OpIds,
             NEW p \in Paths, StartReserve(r, w, s, o, p)
      PROVE  TypeOK'
  BY <1>1, <1>2, <1>3, KeyAssumption DEF StartReserve
<1>4. ASSUME NEW r \in Threads, NEW w \in Windows, NEW s \in SessionIds, NEW o \in OpIds,
             NEW p \in Paths, StartCommit(r, w, s, o, p)
      PROVE  TypeOK'
  BY <1>1, <1>2, <1>4, KeyAssumption DEF StartCommit
<1>5. ASSUME NEW r \in Threads, NEW w \in Windows, NEW s \in SessionIds, NEW o \in OpIds,
             NEW p \in Paths, StartIo(r, w, s, o, p)
      PROVE  TypeOK'
  <2>1. fs[p] \in Keys
    BY <1>5, KeyAssumption DEF StartIo, TypeOK
  <2> QED
    BY <1>1, <1>2, <1>5, <2>1 DEF StartIo
<1>6. ASSUME NEW r \in Threads, NEW w \in Windows, NEW s \in SessionIds, NEW p \in Paths,
             StartYield(r, w, s, p)
      PROVE  TypeOK'
  BY <1>1, <1>2, <1>6, KeyAssumption DEF StartYield
<1> QED
  BY <1>3, <1>4, <1>5, <1>6 DEF StartStep

\* A step of a running call.
LEMMA ThreadStepType == TypeOK /\ (\E r \in Threads : ThreadStep(r)) => TypeOK'
<1> SUFFICES ASSUME TypeOK, NEW r \in Threads, ThreadStep(r) PROVE TypeOK'
  OBVIOUS
<1> DEFINE w == calls[r].window
           s == calls[r].session
           o == calls[r].op
<1>1. ASSUME Return(r), UNCHANGED <<registry, live, fs>> PROVE TypeOK'
  BY <1>1, CallTypes DEF TypeOK, registry
<1>2. ASSUME NEW step, Running(r, "reserve", step)
      PROVE  /\ calls[r] \in DocumentCall
             /\ w \in Windows /\ s \in SessionIds
  BY <1>2, RunningType DEF DocumentCall
<1>3. CASE Resolve(r)
  <2>1. calls[r] \in DocumentCall
    BY <1>3, RunningType DEF Resolve
  <2>2. CASE fs[calls[r].path] = Unreachable
    BY <1>1, <1>3, <2>2 DEF Resolve
  <2>3. CASE fs[calls[r].path] # Unreachable
    <3> DEFINE next == [calls[r] EXCEPT !.step = "enter", !.target = fs[calls[r].path]]
    <3>1. fs[calls[r].path] \in Keys
      BY <2>1, <2>3, KeyAssumption DEF TypeOK, DocumentCall
    <3>2. next \in DocumentCall
      BY <2>1, <3>1 DEF DocumentCall
    <3>3. Begin(r, next)
      BY <1>3, <2>3 DEF Resolve
    <3>4. calls' \in [Threads -> DocumentCall \cup TakeoverCall \cup {Idle}]
      BY <3>2, <3>3, CallTypes
    <3> QED
      BY <1>3, <3>4 DEF Resolve, TypeOK, registry
  <2> QED
    BY <2>2, <2>3
<1>4. CASE AnswerReserve(r)
  BY <1>2, <1>4, EnsureTypes, CallTypes DEF AnswerReserve, TypeOK
<1>5. CASE BindReserve(r)
  <2>1. calls[r] \in DocumentCall /\ w \in Windows /\ s \in SessionIds
    BY <1>2, <1>5 DEF BindReserve
  <2>2. ~SessionRefuses(w, s) /\ EnsureSession(w, s)
    BY <1>5 DEF BindReserve
  <2>3. PICK t \in Tokens :
          /\ Bindable(EnsuredClaims(w, s), EnsuredOperations(w, s), t, w, s)
          /\ claims' = [EnsuredClaims(w, s) EXCEPT ![t].op = o]
          /\ operations' = [k \in OpKeys |->
               IF k = <<w, s, o>> THEN Active(t)
               ELSE IF k = OpKeyOf(EnsuredClaims(w, s)[t]) THEN Absent
               ELSE EnsuredOperations(w, s)[k]]
    BY <1>5 DEF BindReserve
  <2>4. o \in OpIds \cup {NoOp}
    BY <2>1 DEF DocumentCall
  <2>5. claims' \in [Tokens -> Claim \cup {NoClaim}]
    <3>1. EnsuredClaims(w, s) \in [Tokens -> Claim \cup {NoClaim}]
      BY <2>1, <2>2, EnsureTypes
    <3>2. EnsuredClaims(w, s)[t] \in Claim
      <4>1. EnsuredClaims(w, s)[t] # NoClaim
        BY <2>3 DEF Bindable
      <4> QED
        BY <3>1, <4>1
    <3>3. [EnsuredClaims(w, s)[t] EXCEPT !.op = o] \in Claim
      BY <2>4, <3>2 DEF Claim
    <3> QED
      BY <2>3, <3>1, <3>3
  <2>6. operations' \in [OpKeys -> OperationState \cup {Absent}]
    BY <2>1, <2>2, <2>3, EnsureTypes DEF Active, OperationState
  <2> QED
    BY <1>5, <2>1, <2>2, <2>5, <2>6, EnsureTypes, CallTypes DEF BindReserve, TypeOK
<1>6. CASE GrantReserve(r)
  <2>1. calls[r] \in DocumentCall /\ w \in Windows /\ s \in SessionIds
    BY <1>2, <1>6 DEF GrantReserve
  <2>2. ~SessionRefuses(w, s) /\ EnsureSession(w, s)
    BY <1>6 DEF GrantReserve
  <2>3. nextSequence \in Tokens /\ nextSequence + 1 \in 1 .. MaxSequence
    BY <1>6, SequenceAssumption DEF GrantReserve, Tokens, TypeOK
  <2>4. Resolved(calls[r].path, calls[r].target).lexical \in Keys
        /\ Resolved(calls[r].path, calls[r].target).resolved \in Keys
    BY <2>1, KeyAssumption DEF Resolved, DocumentCall
  <2>5. claims' \in [Tokens -> Claim \cup {NoClaim}]
    <3>1. [window |-> w, session |-> s, op |-> o,
           lexical |-> Resolved(calls[r].path, calls[r].target).lexical,
           resolved |-> Resolved(calls[r].path, calls[r].target).resolved,
           owned |-> FALSE] \in Claim
      BY <2>1, <2>4 DEF Claim, DocumentCall
    <3> QED
      BY <1>6, <2>1, <2>2, <3>1, EnsureTypes DEF GrantReserve
  <2>6. index' \in [Keys -> Tokens \cup {NoToken}]
    BY <1>6, <2>3 DEF GrantReserve, TypeOK
  <2>7. operations' \in [OpKeys -> OperationState \cup {Absent}]
    BY <1>6, <2>1, <2>2, <2>3, EnsureTypes DEF GrantReserve, Active, OperationState
  <2> QED
    BY <1>6, <2>1, <2>2, <2>3, <2>5, <2>6, <2>7, EnsureTypes, CallTypes DEF GrantReserve, TypeOK
<1>7. CASE Commit(r)
  <2>1. PICK t \in Held :
          LET previous == Superseded(calls[r].window, t)
          IN /\ claims' = [ClaimsWithout(previous) EXCEPT ![t].owned = TRUE]
             /\ index' = IndexWithout(previous)
             /\ operations' = OperationsReleasing(previous)
    BY <1>7 DEF Commit
  <2>2. Superseded(calls[r].window, t) \in SUBSET Held
    BY DEF Superseded, OwnedBy
  <2>3. t \in Tokens /\ ClaimsWithout(Superseded(calls[r].window, t))[t] \in Claim
    BY DEF Superseded, ClaimsWithout, Held, TypeOK
  <2>4. claims' \in [Tokens -> Claim \cup {NoClaim}]
    BY <2>1, <2>3, RemovalTypes DEF Claim
  <2> QED
    BY <1>7, <2>1, <2>2, <2>4, RemovalTypes, ReleasingTypes, CallTypes DEF Commit, TypeOK
<1>8. CASE YieldOwned(r)
  <2>1. PICK t \in Held : /\ claims' = ClaimsWithout({t})
                          /\ index' = IndexWithout({t})
                          /\ operations' = OperationsReleasing({t})
    BY <1>8 DEF YieldOwned
  <2> QED
    BY <1>8, <2>1, RemovalTypes, ReleasingTypes, CallTypes DEF YieldOwned, TypeOK
<1>9. CASE ValidateIo(r) \/ RunIo(r)
  <2> DEFINE checked == [calls[r] EXCEPT !.step = "checked"]
             ran     == [calls[r] EXCEPT !.step = "ran", !.target = fs[calls[r].target]]
  <2>1. calls[r] \in DocumentCall
    BY <1>9, RunningType DEF ValidateIo, RunIo
  <2>2. ASSUME NEW c \in DocumentCall, Begin(r, c) PROVE TypeOK'
    BY <1>9, <2>2, CallTypes DEF ValidateIo, RunIo, TypeOK, registry
  <2>3. CASE ValidateIo(r)
    <3>1. checked \in DocumentCall
      BY <2>1 DEF DocumentCall
    <3> QED
      BY <1>1, <2>2, <2>3, <3>1 DEF ValidateIo
  <2>4. CASE RunIo(r)
    <3>1. fs[calls[r].target] # Unreachable => ran \in DocumentCall
      BY <2>1 DEF TypeOK, DocumentCall
    <3> QED
      BY <1>1, <2>2, <2>4, <3>1 DEF RunIo
  <2> QED
    BY <1>9, <2>3, <2>4
<1>10. CASE RejectReserve(r) \/ RejectCommit(r) \/ RejectYield(r) \/ ReturnIo(r)
  BY <1>1, <1>10 DEF RejectReserve, RejectCommit, RejectYield, ReturnIo
<1> QED
  BY <1>3, <1>4, <1>5, <1>6, <1>7, <1>8, <1>9, <1>10 DEF ThreadStep

\* Every step keeps the types.
LEMMA NextType == TypeOK /\ [Next]_vars => TypeOK'
<1> SUFFICES ASSUME TypeOK, [Next]_vars PROVE TypeOK'
  OBVIOUS
<1>1. ASSUME NEW w \in Windows, NEW s \in SessionIds, NEW o \in OpIds, NEW p \in Paths,
             ReleaseOperation(w, s, o, p)
      PROVE  TypeOK'
  <2>1. PICK t \in Held : /\ claims' = ClaimsWithout({t})
                          /\ index' = IndexWithout({t})
                          /\ operations' = OperationsReleasing({t})
    BY <1>1 DEF ReleaseOperation
  <2> QED
    BY <1>1, <2>1, RemovalTypes, ReleasingTypes DEF ReleaseOperation, TypeOK
<1>2. ASSUME NEW after \in FileSystems, Refit(after) PROVE TypeOK'
  <2>1. ASSUME NEW r \in Threads, Retargeted(r, after)
        PROVE  [calls[r] EXCEPT !.moved = TRUE] \in DocumentCall
    BY <2>1, RunningType DEF Retargeted, DocumentCall
  <2>2. calls' \in [Threads -> DocumentCall \cup TakeoverCall \cup {Idle}]
    BY <1>2, <2>1 DEF Refit, TypeOK
  <2> QED
    BY <1>2, <2>2 DEF Refit, FileSystems, TypeOK, registry
<1>3. CASE UNCHANGED vars
  BY <1>3 DEF vars, TypeOK
<1> QED
  BY <1>1, <1>2, <1>3, SessionStepType, StartStepType, ThreadStepType DEF Next

\* Every behaviour of the registry has the types, for every limit on tokens and generations.
THEOREM TypeCorrect == Spec => []TypeOK
<1>1. Init => TypeOK
  BY InitType
<1>2. TypeOK /\ [Next]_vars => TypeOK'
  BY NextType
<1> QED
  BY <1>1, <1>2, PTL DEF Spec

-----------------------------------------------------------------------------
(* The index.                                                              *)

\* The claims of T go and the others keep their keys.
Removes(T) ==
  /\ \A t \in Tokens : (claims'[t] = NoClaim) <=> (claims[t] = NoClaim \/ t \in T)
  /\ \A t \in Tokens : claims'[t] # NoClaim => /\ claims'[t].lexical = claims[t].lexical
                                               /\ claims'[t].resolved = claims[t].resolved
  /\ index' = IndexWithout(T)
  /\ UNCHANGED nextSequence

\* Removing claims with their keys leaves the index consistent.
LEMMA RemovalKeepsIndex ==
  ASSUME TypeOK, IndexConsistent, NEW T \in SUBSET Tokens, Removes(T)
  PROVE  IndexConsistent'
<1>1. Held' = Held \ T
  BY DEF Held, Removes
<1>2. \A t \in Held' : KeysOf(claims[t])' = KeysOf(claims[t])
  BY DEF Held, Removes, KeysOf
<1>3. \A t \in Held : claims[t].lexical \in Keys /\ claims[t].resolved \in Keys
  BY DEF Held, TypeOK, Claim
<1>4. ClaimsAreIndexed'
  <2>1. SUFFICES ASSUME NEW t \in Held \ T, NEW k \in KeysOf(claims[t])
                 PROVE  index'[k] = t
    BY <1>1, <1>2 DEF ClaimsAreIndexed
  <2>2. index[k] = t
    BY <2>1 DEF IndexConsistent, ClaimsAreIndexed
  <2>3. k \in Keys
    BY <1>3 DEF KeysOf
  <2> QED
    BY <2>2, <2>3 DEF Removes, IndexWithout
<1>5. IndexIsExact'
  <2>1. SUFFICES ASSUME NEW k \in Keys, index'[k] # NoToken
                 PROVE  index'[k] \in Held' /\ k \in KeysOf(claims'[index'[k]])
    BY DEF IndexIsExact, KeysOf
  <2>2. index'[k] = index[k] /\ ~\E t \in T : index[k] = t /\ k \in KeysOf(claims[t])
    BY <2>1 DEF Removes, IndexWithout
  <2>3. index[k] \in Held /\ k \in KeysOf(claims[index[k]])
    BY <2>1, <2>2 DEF IndexConsistent, IndexIsExact
  <2>4. index[k] \in Held'
    BY <1>1, <2>2, <2>3
  <2> QED
    BY <1>2, <2>2, <2>3, <2>4 DEF KeysOf
<1>6. TokensAreFresh'
  BY <1>1 DEF IndexConsistent, TokensAreFresh, Removes
<1> QED
  BY <1>4, <1>5, <1>6 DEF IndexConsistent

\* When no claim goes, it is enough that the claims keep their keys.
LEMMA UnchangedKeysKeepIndex ==
  ASSUME TypeOK, IndexConsistent, UNCHANGED <<index, nextSequence>>,
         \A t \in Tokens : (claims'[t] = NoClaim) <=> (claims[t] = NoClaim),
         \A t \in Tokens : claims'[t] # NoClaim => /\ claims'[t].lexical = claims[t].lexical
                                                   /\ claims'[t].resolved = claims[t].resolved
  PROVE  IndexConsistent'
<1>1. index = IndexWithout({})
  BY DEF TypeOK, IndexWithout
<1>2. Removes({})
  BY <1>1 DEF Removes
<1> QED
  BY <1>2, RemovalKeepsIndex

\* The claims reserve works on have the keys of the claims it found.
LEMMA EnsuredKeeps ==
  ASSUME TypeOK, NEW w, NEW s \in SessionIds, NEW t \in Tokens
  PROVE  /\ (EnsuredClaims(w, s)[t] = NoClaim) <=> (claims[t] = NoClaim)
         /\ claims[t] # NoClaim => /\ EnsuredClaims(w, s)[t].lexical = claims[t].lexical
                                   /\ EnsuredClaims(w, s)[t].resolved = claims[t].resolved
                                   /\ EnsuredClaims(w, s)[t].window = claims[t].window
                                   /\ EnsuredClaims(w, s)[t].owned = claims[t].owned
<1>1. claims \in [Tokens -> Claim \cup {NoClaim}]
  BY DEF TypeOK
<1> QED
  BY <1>1, ReboundKeeps DEF EnsuredClaims

\* A granted reservation gets a new token and two free keys.
LEMMA GrantKeepsIndex ==
  ASSUME TypeOK, IndexConsistent, NEW r \in Threads, GrantReserve(r)
  PROVE  IndexConsistent'
<1> DEFINE w  == calls[r].window
           s  == calls[r].session
           id == Resolved(calls[r].path, calls[r].target)
           n  == nextSequence
<1>1. calls[r] \in DocumentCall /\ w \in Windows /\ s \in SessionIds
  BY RunningType DEF GrantReserve, DocumentCall
<1>2. n \in Tokens /\ n \notin Held
  BY SequenceAssumption DEF GrantReserve, Tokens, TypeOK, IndexConsistent, TokensAreFresh
<1>3. id.lexical \in Keys /\ id.resolved \in Keys
  BY <1>1, KeyAssumption DEF Resolved, DocumentCall
<1>4. /\ index[id.lexical] = NoToken
      /\ index[id.resolved] = NoToken
  <2>1. Found(id) = {}
    BY DEF GrantReserve
  <2> QED
    BY <2>1 DEF Found
<1>5. index' = [k \in Keys |-> IF k \in KeysOf(id) THEN n ELSE index[k]]
  BY DEF GrantReserve
<1>6. /\ claims'[n] = [window |-> w, session |-> s, op |-> calls[r].op, lexical |-> id.lexical,
                       resolved |-> id.resolved, owned |-> FALSE]
      /\ \A t \in Tokens \ {n} : claims'[t] = EnsuredClaims(w, s)[t]
  <2>1. EnsuredClaims(w, s) \in [Tokens -> Claim \cup {NoClaim}]
    BY <1>1, EnsureTypes DEF GrantReserve
  <2> QED
    BY <1>2, <2>1 DEF GrantReserve
<1>7. claims'[n] # NoClaim
  <2>1. claims'[n] \in Claim
    BY <1>1, <1>3, <1>6 DEF Claim, DocumentCall
  <2> QED
    BY <2>1, NullAssumption
<1>8. Held' = Held \cup {n}
  BY <1>1, <1>2, <1>6, <1>7, EnsuredKeeps DEF Held
<1>9. KeysOf(claims'[n]) = KeysOf(id)
  BY <1>6 DEF KeysOf
<1>10. \A t \in Held : t \in Tokens /\ t # n /\ KeysOf(claims'[t]) = KeysOf(claims[t])
  BY <1>1, <1>2, <1>6, EnsuredKeeps DEF Held, KeysOf
<1>11. ClaimsAreIndexed'
  <2>1. SUFFICES ASSUME NEW t \in Held', NEW k \in KeysOf(claims'[t])
                 PROVE  index'[k] = t
    BY DEF ClaimsAreIndexed, KeysOf
  <2>2. CASE t = n
    BY <1>3, <1>5, <1>9, <2>1, <2>2 DEF KeysOf
  <2>3. CASE t \in Held
    <3>1. index[k] = t
      BY <1>10, <2>1, <2>3 DEF IndexConsistent, ClaimsAreIndexed
    <3>2. k \in Keys
      BY <1>10, <2>1, <2>3 DEF KeysOf, Held, TypeOK, Claim
    <3>3. k \notin KeysOf(id)
      BY <1>4, <2>3, <3>1, NullAssumption DEF KeysOf, Held, Tokens
    <3> QED
      BY <1>5, <3>1, <3>2, <3>3
  <2> QED
    BY <1>8, <2>2, <2>3
<1>12. IndexIsExact'
  <2>1. SUFFICES ASSUME NEW k \in Keys, index'[k] # NoToken
                 PROVE  index'[k] \in Held' /\ k \in KeysOf(claims'[index'[k]])
    BY DEF IndexIsExact, KeysOf
  <2>2. CASE k \in KeysOf(id)
    BY <1>5, <1>8, <1>9, <2>2
  <2>3. CASE k \notin KeysOf(id)
    <3>1. index'[k] = index[k]
      BY <1>5, <2>3
    <3>2. index[k] \in Held /\ k \in KeysOf(claims[index[k]])
      BY <2>1, <3>1 DEF IndexConsistent, IndexIsExact
    <3> QED
      BY <1>8, <1>10, <3>1, <3>2
  <2> QED
    BY <2>2, <2>3
<1>13. TokensAreFresh'
  <2>1. nextSequence' = n + 1
    BY DEF GrantReserve
  <2> QED
    BY <1>8, <2>1 DEF IndexConsistent, TokensAreFresh, Held, Tokens, TypeOK
<1> QED
  BY <1>11, <1>12, <1>13 DEF IndexConsistent

-----------------------------------------------------------------------------
(* Every step keeps the index consistent and windows with one document.    *)

Safe == TypeOK /\ IndexConsistent /\ OneDocumentPerWindow

\* No claim becomes owned, and none changes its window.
OwnsNoMore ==
  \A t \in Tokens : claims'[t] # NoClaim => /\ claims[t] # NoClaim
                                            /\ claims'[t].owned = claims[t].owned
                                            /\ claims'[t].window = claims[t].window

LEMMA OwnsNoMoreKeepsOne ==
  ASSUME OneDocumentPerWindow, OwnsNoMore
  PROVE  OneDocumentPerWindow'
BY DEF OneDocumentPerWindow, OwnsNoMore, Held

\* What ClaimsWithout and Rebound do, claim by claim.
LEMMA WithoutKeeps ==
  ASSUME TypeOK, NEW T, NEW t \in Tokens
  PROVE  /\ (ClaimsWithout(T)[t] = NoClaim) <=> (claims[t] = NoClaim \/ t \in T)
         /\ ClaimsWithout(T)[t] # NoClaim => ClaimsWithout(T)[t] = claims[t]
BY DEF TypeOK, ClaimsWithout

LEMMA SessionStepSafe == Safe /\ SessionStep => IndexConsistent' /\ OneDocumentPerWindow'
<1> SUFFICES ASSUME Safe, SessionStep PROVE IndexConsistent' /\ OneDocumentPerWindow'
  OBVIOUS
<1> USE DEF Safe
<1>1. ASSUME NEW T \in SUBSET Tokens, claims' = ClaimsWithout(T), index' = IndexWithout(T),
             UNCHANGED nextSequence
      PROVE  IndexConsistent' /\ OneDocumentPerWindow'
  <2>1. Removes(T) /\ OwnsNoMore
    BY <1>1, WithoutKeeps DEF Removes, OwnsNoMore
  <2> QED
    BY <2>1, RemovalKeepsIndex, OwnsNoMoreKeepsOne
<1>2. ASSUME UNCHANGED <<claims, index, nextSequence>>
      PROVE  IndexConsistent' /\ OneDocumentPerWindow'
  BY <1>2, UnchangedKeysKeepIndex, OwnsNoMoreKeepsOne DEF OwnsNoMore
<1>3. ASSUME NEW w \in Windows, CreateWindow(w) PROVE IndexConsistent' /\ OneDocumentPerWindow'
  BY <1>2, <1>3 DEF CreateWindow, registry
<1>4. ASSUME NEW w \in Windows, DestroyWindow(w) PROVE IndexConsistent' /\ OneDocumentPerWindow'
  <2>1. OwnedBy(w) \cup PendingOf(w) \in SUBSET Tokens
    BY DEF OwnedBy, PendingOf, Held
  <2> QED
    BY <1>1, <1>4, <2>1 DEF DestroyWindow
<1>5. ASSUME NEW w \in Windows, NEW s \in SessionIds, BeginSession(w, s)
      PROVE  IndexConsistent' /\ OneDocumentPerWindow'
  <2>1. claims \in [Tokens -> Claim \cup {NoClaim}]
    BY DEF TypeOK
  <2>2. claims' = Rebound(claims, w, s) /\ UNCHANGED <<index, nextSequence>>
    BY <1>5 DEF BeginSession
  <2>3. OwnsNoMore
    BY <2>1, <2>2, ReboundKeeps DEF OwnsNoMore
  <2>4. IndexConsistent'
    BY <2>1, <2>2, ReboundKeeps, UnchangedKeysKeepIndex
  <2> QED
    BY <2>3, <2>4, OwnsNoMoreKeepsOne
<1>6. ASSUME NEW w \in Windows, NEW s \in SessionIds, ReleaseSession(w, s)
      PROVE  IndexConsistent' /\ OneDocumentPerWindow'
  <2>1. {t \in PendingOf(w) : claims[t].session = s} \in SUBSET Tokens
    BY DEF PendingOf, Held
  <2> QED
    BY <1>1, <1>6, <2>1 DEF ReleaseSession
<1>7. ASSUME NEW r \in Threads, TakeoverSession(r) PROVE IndexConsistent' /\ OneDocumentPerWindow'
  <2> DEFINE w == calls[r].window
             s == calls[r].session
             T == PendingOf(w)
  <2>1. s \in SessionIds
    <3>1. calls[r] \in TakeoverCall
      BY <1>7 DEF TakeoverSession, Running, TypeOK, DocumentCall
    <3> QED
      BY <3>1 DEF TakeoverCall
  <2>2. ClaimsWithout(T) \in [Tokens -> Claim \cup {NoClaim}]
    BY RemovalTypes
  <2>3. claims' = Rebound(ClaimsWithout(T), w, s) /\ index' = IndexWithout(T)
        /\ UNCHANGED nextSequence
    BY <1>7 DEF TakeoverSession
  <2>4. T \in SUBSET Tokens
    BY DEF PendingOf, Held
  <2>5. \A t \in Tokens :
          /\ (claims'[t] = NoClaim) <=> (claims[t] = NoClaim \/ t \in T)
          /\ claims'[t] # NoClaim => /\ claims'[t].lexical = claims[t].lexical
                                     /\ claims'[t].resolved = claims[t].resolved
                                     /\ claims'[t].owned = claims[t].owned
                                     /\ claims'[t].window = claims[t].window
    BY <2>1, <2>2, <2>3, ReboundKeeps, WithoutKeeps
  <2>6. Removes(T) /\ OwnsNoMore
    BY <2>3, <2>5 DEF Removes, OwnsNoMore
  <2> QED
    BY <2>4, <2>6, RemovalKeepsIndex, OwnsNoMoreKeepsOne
<1>8. ASSUME NEW r \in Threads,
             RefuseTakeover(r) \/ \E w \in Windows, s \in SessionIds : RefuseSession(r, w, s)
      PROVE  IndexConsistent' /\ OneDocumentPerWindow'
  BY <1>2, <1>8 DEF RefuseTakeover, RefuseSession, registry
<1> QED
  BY <1>3, <1>4, <1>5, <1>6, <1>7, <1>8 DEF SessionStep

LEMMA ThreadStepSafe ==
  Safe /\ (\E r \in Threads : ThreadStep(r)) => IndexConsistent' /\ OneDocumentPerWindow'
<1> SUFFICES ASSUME Safe, NEW r \in Threads, ThreadStep(r)
             PROVE  IndexConsistent' /\ OneDocumentPerWindow'
  OBVIOUS
<1> USE DEF Safe
<1> DEFINE w == calls[r].window
           s == calls[r].session
<1>1. ASSUME NEW step, Running(r, "reserve", step) PROVE s \in SessionIds
  BY <1>1, RunningType DEF DocumentCall
<1>2. ASSUME UNCHANGED <<claims, index, nextSequence>>
      PROVE  IndexConsistent' /\ OneDocumentPerWindow'
  BY <1>2, UnchangedKeysKeepIndex, OwnsNoMoreKeepsOne DEF OwnsNoMore
<1>3. CASE AnswerReserve(r)
  <2>1. s \in SessionIds /\ claims' = EnsuredClaims(w, s) /\ UNCHANGED <<index, nextSequence>>
    BY <1>1, <1>3 DEF AnswerReserve
  <2>2. OwnsNoMore
    BY <2>1, EnsuredKeeps DEF OwnsNoMore
  <2>3. IndexConsistent'
    BY <2>1, EnsuredKeeps, UnchangedKeysKeepIndex
  <2> QED
    BY <2>2, <2>3, OwnsNoMoreKeepsOne
<1>4. CASE BindReserve(r)
  <2>1. s \in SessionIds /\ UNCHANGED <<index, nextSequence>>
    BY <1>1, <1>4 DEF BindReserve
  <2>2. PICK u \in Tokens : /\ claims' = [EnsuredClaims(w, s) EXCEPT ![u].op = calls[r].op]
                            /\ EnsuredClaims(w, s)[u] # NoClaim
    BY <1>4 DEF BindReserve, Bindable
  <2>3. w \in Windows /\ EnsuredClaims(w, s) \in [Tokens -> Claim \cup {NoClaim}]
    BY <1>4, RunningType, EnsureTypes DEF BindReserve, DocumentCall
  <2>4. claims'[u] # NoClaim
    <3>1. calls[r] \in DocumentCall /\ EnsuredClaims(w, s)[u] \in Claim
      BY <1>4, <2>2, <2>3, RunningType DEF BindReserve
    <3>2. claims'[u] \in Claim
      BY <2>2, <2>3, <3>1 DEF Claim, DocumentCall
    <3> QED
      BY <3>2, NullAssumption
  <2>5. \A t \in Tokens :
          /\ (claims'[t] = NoClaim) <=> (claims[t] = NoClaim)
          /\ claims'[t] # NoClaim => /\ claims'[t].lexical = claims[t].lexical
                                     /\ claims'[t].resolved = claims[t].resolved
                                     /\ claims'[t].owned = claims[t].owned
                                     /\ claims'[t].window = claims[t].window
    <3> SUFFICES ASSUME NEW t \in Tokens
                 PROVE  /\ (claims'[t] = NoClaim) <=> (claims[t] = NoClaim)
                        /\ claims'[t] # NoClaim => /\ claims'[t].lexical = claims[t].lexical
                                                   /\ claims'[t].resolved = claims[t].resolved
                                                   /\ claims'[t].owned = claims[t].owned
                                                   /\ claims'[t].window = claims[t].window
      OBVIOUS
    <3>1. CASE t = u
      <4>1. EnsuredClaims(w, s)[u] \in Claim
        BY <2>2, <2>3
      <4>2. /\ claims'[u].lexical = EnsuredClaims(w, s)[u].lexical
            /\ claims'[u].resolved = EnsuredClaims(w, s)[u].resolved
            /\ claims'[u].owned = EnsuredClaims(w, s)[u].owned
            /\ claims'[u].window = EnsuredClaims(w, s)[u].window
        BY <2>2, <2>3, <4>1 DEF Claim
      <4> QED
        BY <2>1, <2>2, <2>4, <3>1, <4>2, EnsuredKeeps
    <3>2. CASE t # u
      BY <2>1, <2>2, <2>3, <3>2, EnsuredKeeps
    <3> QED
      BY <3>1, <3>2
  <2>6. OwnsNoMore
    BY <2>5 DEF OwnsNoMore
  <2> QED
    BY <2>1, <2>5, <2>6, UnchangedKeysKeepIndex, OwnsNoMoreKeepsOne
<1>5. CASE GrantReserve(r)
  <2>1. IndexConsistent'
    BY <1>5, GrantKeepsIndex
  <2>2. /\ ~claims'[nextSequence].owned
        /\ \A t \in Tokens \ {nextSequence} : claims'[t] = EnsuredClaims(w, s)[t]
        /\ s \in SessionIds
    <3>1. EnsuredClaims(w, s) \in [Tokens -> Claim \cup {NoClaim}]
      BY <1>5, RunningType, EnsureTypes DEF GrantReserve, DocumentCall
    <3>2. nextSequence \in Tokens
      BY <1>5, SequenceAssumption DEF GrantReserve, Tokens, TypeOK
    <3> QED
      BY <1>1, <1>5, <3>1, <3>2 DEF GrantReserve
  <2>3. OneDocumentPerWindow'
    BY <2>2, EnsuredKeeps DEF OneDocumentPerWindow, Held
  <2> QED
    BY <2>1, <2>3
<1>6. CASE Commit(r)
  <2>1. PICK t \in Held :
          /\ CommitPasses(r, t)
          /\ claims' = [ClaimsWithout(Superseded(w, t)) EXCEPT ![t].owned = TRUE]
          /\ index' = IndexWithout(Superseded(w, t))
          /\ UNCHANGED nextSequence
    BY <1>6 DEF Commit
  <2> DEFINE T == Superseded(w, t)
  <2>2. T \in SUBSET Tokens /\ t \notin T
    BY DEF Superseded, OwnedBy, Held
  <2>3. t \in Tokens /\ claims[t] \in Claim /\ claims[t].window = w
    BY <2>1 DEF CommitPasses, CommitAllowed, MayActFor, OpKeyOf, Held, TypeOK
  <2>4. claims'[t] = [claims[t] EXCEPT !.owned = TRUE]
    BY <2>1, <2>2, <2>3, RemovalTypes DEF ClaimsWithout
  <2>5. /\ claims'[t] # NoClaim
        /\ claims'[t].lexical = claims[t].lexical
        /\ claims'[t].resolved = claims[t].resolved
        /\ claims'[t].window = w
    <3>1. claims'[t] \in Claim
      BY <2>3, <2>4 DEF Claim
    <3> QED
      BY <2>3, <2>4, <3>1, NullAssumption DEF Claim
  <2>6. \A u \in Tokens \ {t} : claims'[u] = ClaimsWithout(T)[u]
    BY <2>1, RemovalTypes
  <2>7. Removes(T)
    BY <2>1, <2>2, <2>3, <2>5, <2>6, WithoutKeeps DEF Removes, Held
  <2>8. OneDocumentPerWindow'
    <3>1. \A u \in Tokens \ {t} : claims'[u] # NoClaim =>
                                     u \in Held /\ claims'[u] = claims[u] /\ u \notin T
      BY <2>6, WithoutKeeps DEF Held
    <3>2. \A u \in Held \ {t} : u \notin T /\ claims[u].owned => claims[u].window # w
      BY DEF Superseded, OwnedBy
    <3>3. ASSUME NEW u \in Held', NEW v \in Held', claims'[u].owned, claims'[v].owned,
                 claims'[u].window = claims'[v].window
          PROVE  u = v
      BY <2>5, <3>1, <3>2, <3>3 DEF OneDocumentPerWindow, Held
    <3> QED
      BY <3>3 DEF OneDocumentPerWindow
  <2> QED
    BY <2>2, <2>7, <2>8, RemovalKeepsIndex
<1>7. CASE YieldOwned(r)
  <2>1. PICK t \in Held : claims' = ClaimsWithout({t}) /\ index' = IndexWithout({t})
    BY <1>7 DEF YieldOwned
  <2>2. {t} \in SUBSET Tokens /\ Removes({t}) /\ OwnsNoMore
    BY <1>7, <2>1, WithoutKeeps DEF YieldOwned, Removes, OwnsNoMore, Held
  <2> QED
    BY <2>2, RemovalKeepsIndex, OwnsNoMoreKeepsOne
<1>8. CASE \/ Resolve(r) \/ ValidateIo(r) \/ RunIo(r) \/ ReturnIo(r)
           \/ RejectReserve(r) \/ RejectCommit(r) \/ RejectYield(r)
  BY <1>2, <1>8 DEF Resolve, ValidateIo, RunIo, ReturnIo, RejectReserve, RejectCommit, RejectYield, registry
<1> QED
  BY <1>3, <1>4, <1>5, <1>6, <1>7, <1>8 DEF ThreadStep

LEMMA NextSafe == Safe /\ [Next]_vars => Safe'
<1> SUFFICES ASSUME Safe, [Next]_vars PROVE IndexConsistent' /\ OneDocumentPerWindow'
  BY NextType DEF Safe
<1> USE DEF Safe
<1>1. ASSUME UNCHANGED <<claims, index, nextSequence>>
      PROVE  IndexConsistent' /\ OneDocumentPerWindow'
  BY <1>1, UnchangedKeysKeepIndex, OwnsNoMoreKeepsOne DEF OwnsNoMore
<1>2. CASE StartStep
  <2>1. ASSUME NEW r \in Threads, NEW w \in Windows, NEW s \in SessionIds, NEW o \in OpIds,
               NEW p \in Paths,
               StartReserve(r, w, s, o, p) \/ StartCommit(r, w, s, o, p) \/ StartIo(r, w, s, o, p)
        PROVE  IndexConsistent' /\ OneDocumentPerWindow'
    BY <1>1, <2>1 DEF StartReserve, StartCommit, StartIo, registry
  <2>2. ASSUME NEW r \in Threads, NEW w \in Windows, NEW s \in SessionIds, NEW p \in Paths,
               StartYield(r, w, s, p)
        PROVE  IndexConsistent' /\ OneDocumentPerWindow'
    BY <1>1, <2>2 DEF StartYield, registry
  <2> QED
    BY <1>2, <2>1, <2>2 DEF StartStep
<1>3. ASSUME NEW w \in Windows, NEW s \in SessionIds, NEW o \in OpIds, NEW p \in Paths,
             ReleaseOperation(w, s, o, p)
      PROVE  IndexConsistent' /\ OneDocumentPerWindow'
  <2>1. PICK t \in Held : claims' = ClaimsWithout({t}) /\ index' = IndexWithout({t})
    BY <1>3 DEF ReleaseOperation
  <2>2. {t} \in SUBSET Tokens /\ Removes({t}) /\ OwnsNoMore
    BY <1>3, <2>1, WithoutKeeps DEF ReleaseOperation, Removes, OwnsNoMore, Held
  <2> QED
    BY <2>2, RemovalKeepsIndex, OwnsNoMoreKeepsOne
<1>4. ASSUME NEW after \in FileSystems, Refit(after)
      PROVE  IndexConsistent' /\ OneDocumentPerWindow'
  BY <1>1, <1>4 DEF Refit, registry
<1>5. CASE UNCHANGED vars
  BY <1>1, <1>5 DEF vars
<1> QED
  BY <1>2, <1>3, <1>4, <1>5, SessionStepSafe, ThreadStepSafe DEF Next

LEMMA InitSafe == Init => Safe
<1> SUFFICES ASSUME Init PROVE IndexConsistent /\ OneDocumentPerWindow
  BY InitType DEF Safe
<1>1. Held = {}
  BY DEF Init, Held
<1> QED
  BY <1>1 DEF Init, IndexConsistent, ClaimsAreIndexed, IndexIsExact, TokensAreFresh,
              OneDocumentPerWindow

LEMMA AlwaysSafe == Spec => []Safe
<1>1. Init => Safe
  BY InitSafe
<1>2. Safe /\ [Next]_vars => Safe'
  BY NextSafe
<1> QED
  BY <1>1, <1>2, PTL DEF Spec

-----------------------------------------------------------------------------
(* Results.                                                                *)

\* However calls overlap and links move, the index names every claim under both of its keys
\* and names nothing else.
THEOREM IndexAlwaysConsistent == Spec => []IndexConsistent
<1>1. Safe => IndexConsistent
  BY DEF Safe
<1> QED
  BY <1>1, AlwaysSafe, PTL

\* No two claims, of one window or of two, ever share a path key.
THEOREM DocumentsAreExclusive == Spec => []NoDocumentClaimedTwice
<1>1. Safe => NoDocumentClaimedTwice
  BY DEF Safe, IndexConsistent, ClaimsAreIndexed, NoDocumentClaimedTwice
<1> QED
  BY <1>1, AlwaysSafe, PTL

\* A window never owns two documents.
THEOREM WindowsOwnOneDocument == Spec => []OneDocumentPerWindow
<1>1. Safe => OneDocumentPerWindow
  BY DEF Safe
<1> QED
  BY <1>1, AlwaysSafe, PTL
-----------------------------------------------------------------------------
(* The registry implements DocumentOwnership: what a window asked for and what it owns.    *)

PendingDocuments == [w \in Windows |-> {KeysOf(claims[t]) : t \in PendingOf(w)}]
OwnedDocuments   == [w \in Windows |-> {KeysOf(claims[t]) : t \in OwnedBy(w)}]

\* The claims of T go; the others keep their document, their window and whether it owns them.
Keeps(T) ==
  /\ \A t \in Tokens : (claims'[t] = NoClaim) <=> (claims[t] = NoClaim \/ t \in T)
  /\ \A t \in Tokens : claims'[t] # NoClaim => /\ claims'[t].lexical = claims[t].lexical
                                               /\ claims'[t].resolved = claims[t].resolved
                                               /\ claims'[t].window = claims[t].window
                                               /\ claims'[t].owned = claims[t].owned

LEMMA KeepsClaims ==
  ASSUME NEW T, Keeps(T)
  PROVE  /\ \A w \in Windows : PendingOf(w)' = PendingOf(w) \ T /\ OwnedBy(w)' = OwnedBy(w) \ T
         /\ \A t \in Held \ T : KeysOf(claims'[t]) = KeysOf(claims[t])
<1>1. \A t \in Held \ T : KeysOf(claims'[t]) = KeysOf(claims[t])
  BY DEF Keeps, Held, KeysOf
<1>2. ASSUME NEW w \in Windows
      PROVE  PendingOf(w)' = PendingOf(w) \ T /\ OwnedBy(w)' = OwnedBy(w) \ T
  BY DEF Keeps, PendingOf, OwnedBy, Held
<1> QED
  BY <1>1, <1>2

\* Claims have a window, and two of them have different documents.
LEMMA ClaimsDiffer ==
  ASSUME Safe
  PROVE  /\ \A t \in Held : claims[t].window \in Windows /\ KeysOf(claims[t]) \subseteq Keys
         /\ \A t, u \in Held : KeysOf(claims[t]) = KeysOf(claims[u]) => t = u
<1>1. \A t \in Held : claims[t] \in Claim
  BY DEF Safe, TypeOK, Held
<1>2. \A t \in Held : claims[t].window \in Windows /\ KeysOf(claims[t]) \subseteq Keys
  BY <1>1 DEF Claim, KeysOf
<1>3. \A t \in Held : index[claims[t].lexical] = t
  BY DEF Safe, IndexConsistent, ClaimsAreIndexed, KeysOf
<1>4. ASSUME NEW t \in Held, NEW u \in Held, KeysOf(claims[t]) = KeysOf(claims[u])
      PROVE  t = u
  <2>1. claims[t].lexical \in KeysOf(claims[u])
    BY <1>4 DEF KeysOf
  <2>2. index[claims[t].lexical] = u
    BY <2>1 DEF Safe, IndexConsistent, ClaimsAreIndexed
  <2> QED
    BY <1>3, <2>2
<1> QED
  BY <1>2, <1>4

\* A step that removes no claim and moves none changes nothing that was promised.
LEMMA KeepingStutters ==
  ASSUME Keeps({})
  PROVE  UNCHANGED Ownership!vars
<1>1. \A w \in Windows : PendingOf(w)' = PendingOf(w) /\ OwnedBy(w)' = OwnedBy(w)
  BY KeepsClaims
<1>2. \A t \in Held : KeysOf(claims'[t]) = KeysOf(claims[t])
  BY KeepsClaims
<1>3. \A w \in Windows : PendingOf(w) \subseteq Held /\ OwnedBy(w) \subseteq Held
  BY DEF PendingOf, OwnedBy
<1>4. ASSUME NEW w \in Windows
      PROVE  /\ {KeysOf(claims[t]) : t \in PendingOf(w)}' = {KeysOf(claims[t]) : t \in PendingOf(w)}
             /\ {KeysOf(claims[t]) : t \in OwnedBy(w)}' = {KeysOf(claims[t]) : t \in OwnedBy(w)}
  BY <1>1, <1>2, <1>3 DEF KeysOf
<1>5. PendingDocuments' = PendingDocuments /\ OwnedDocuments' = OwnedDocuments
  BY <1>4 DEF PendingDocuments, OwnedDocuments
<1> QED
  BY <1>5 DEF Ownership!vars, PendingDocuments, OwnedDocuments

\* What removing claims of one window does to what was promised.
LEMMA RemovalDocuments ==
  ASSUME Safe, NEW w \in Windows, NEW T, T \subseteq PendingOf(w) \cup OwnedBy(w), Keeps(T)
  PROVE  /\ PendingDocuments' = [PendingDocuments EXCEPT ![w] =
                                   @ \ {KeysOf(claims[t]) : t \in T \cap PendingOf(w)}]
         /\ OwnedDocuments' = [OwnedDocuments EXCEPT ![w] =
                                   @ \ {KeysOf(claims[t]) : t \in T \cap OwnedBy(w)}]
<1>1. \A v \in Windows : PendingOf(v)' = PendingOf(v) \ T /\ OwnedBy(v)' = OwnedBy(v) \ T
  BY KeepsClaims
<1>2. \A t \in Held \ T : KeysOf(claims'[t]) = KeysOf(claims[t])
  BY KeepsClaims
<1>3. \A v \in Windows : PendingOf(v) \subseteq Held /\ OwnedBy(v) \subseteq Held
  BY DEF PendingOf, OwnedBy
<1>4. \A v \in Windows \ {w} : PendingOf(v) \cap T = {} /\ OwnedBy(v) \cap T = {}
  BY DEF PendingOf, OwnedBy
<1>5. \A t, u \in Held : KeysOf(claims[t]) = KeysOf(claims[u]) => t = u
  BY ClaimsDiffer
<1>6. ASSUME NEW v \in Windows
      PROVE  /\ PendingDocuments'[v] = {KeysOf(claims[t]) : t \in PendingOf(v) \ T}
             /\ OwnedDocuments'[v] = {KeysOf(claims[t]) : t \in OwnedBy(v) \ T}
  <2>1. /\ PendingDocuments'[v] = {KeysOf(claims'[t]) : t \in PendingOf(v)'}
        /\ OwnedDocuments'[v] = {KeysOf(claims'[t]) : t \in OwnedBy(v)'}
    BY DEF PendingDocuments, OwnedDocuments, KeysOf
  <2>2. /\ PendingDocuments'[v] = {KeysOf(claims'[t]) : t \in PendingOf(v) \ T}
        /\ OwnedDocuments'[v] = {KeysOf(claims'[t]) : t \in OwnedBy(v) \ T}
    BY <1>1, <2>1
  <2>3. /\ \A t \in PendingOf(v) \ T : KeysOf(claims'[t]) = KeysOf(claims[t])
        /\ \A t \in OwnedBy(v) \ T : KeysOf(claims'[t]) = KeysOf(claims[t])
    BY <1>2, <1>3
  <2>4. /\ {KeysOf(claims'[t]) : t \in PendingOf(v) \ T} = {KeysOf(claims[t]) : t \in PendingOf(v) \ T}
        /\ {KeysOf(claims'[t]) : t \in OwnedBy(v) \ T} = {KeysOf(claims[t]) : t \in OwnedBy(v) \ T}
    BY <2>3
  <2> QED
    BY <2>2, <2>4
<1>7. \A v \in Windows \ {w} : /\ PendingDocuments'[v] = PendingDocuments[v]
                               /\ OwnedDocuments'[v] = OwnedDocuments[v]
  <2> TAKE v \in Windows \ {w}
  <2>1. PendingOf(v) \ T = PendingOf(v) /\ OwnedBy(v) \ T = OwnedBy(v)
    BY <1>4
  <2> QED
    BY <1>6, <2>1 DEF PendingDocuments, OwnedDocuments
<1>8. PendingDocuments'[w] = PendingDocuments[w] \ {KeysOf(claims[t]) : t \in T \cap PendingOf(w)}
  <2>1. {KeysOf(claims[t]) : t \in PendingOf(w) \ T}
          = {KeysOf(claims[t]) : t \in PendingOf(w)}
              \ {KeysOf(claims[t]) : t \in T \cap PendingOf(w)}
    BY <1>3, <1>5
  <2> QED
    BY <1>6, <2>1 DEF PendingDocuments
<1>9. OwnedDocuments'[w] = OwnedDocuments[w] \ {KeysOf(claims[t]) : t \in T \cap OwnedBy(w)}
  <2>1. {KeysOf(claims[t]) : t \in OwnedBy(w) \ T}
          = {KeysOf(claims[t]) : t \in OwnedBy(w)}
              \ {KeysOf(claims[t]) : t \in T \cap OwnedBy(w)}
    BY <1>3, <1>5
  <2> QED
    BY <1>6, <2>1 DEF OwnedDocuments
<1> QED
  BY <1>7, <1>8, <1>9 DEF PendingDocuments, OwnedDocuments

\* Reservations that go are abandoned ...
LEMMA RemovalAbandons ==
  ASSUME Safe, NEW w \in Windows, NEW T, T \subseteq PendingOf(w), Keeps(T)
  PROVE  [Ownership!Next]_(Ownership!vars)
<1> DEFINE D == {KeysOf(claims[t]) : t \in T}
<1>1. CASE T = {}
  BY <1>1, KeepingStutters
<1>2. CASE T # {}
  <2>1. T \cap PendingOf(w) = T /\ T \cap OwnedBy(w) = {}
    BY DEF PendingOf, OwnedBy
  <2>2. /\ PendingDocuments' = [PendingDocuments EXCEPT ![w] = @ \ D]
        /\ OwnedDocuments' = [OwnedDocuments EXCEPT ![w] = @ \ {}]
    BY <2>1, RemovalDocuments
  <2>3. OwnedDocuments' = OwnedDocuments
    BY <2>2 DEF OwnedDocuments
  <2>4. D \subseteq PendingDocuments[w] /\ D # {}
    BY <1>2 DEF PendingDocuments
  <2>5. Ownership!Abandon(w, D)
    BY <2>2, <2>3, <2>4 DEF Ownership!Abandon, PendingDocuments, OwnedDocuments
  <2> QED
    BY <2>4, <2>5 DEF Ownership!Next, PendingDocuments
<1> QED
  BY <1>1, <1>2

\* ... the document a window owns is yielded ...
LEMMA RemovalYields ==
  ASSUME Safe, NEW w \in Windows, NEW t \in OwnedBy(w), Keeps({t})
  PROVE  Ownership!Next
<1> DEFINE T == {t}
<1>1. OwnedBy(w) = T
  BY DEF Safe, OneDocumentPerWindow, OwnedBy
<1>2. /\ T \cap PendingOf(w) = {} /\ T \cap OwnedBy(w) = OwnedBy(w)
      /\ T \subseteq PendingOf(w) \cup OwnedBy(w)
  BY <1>1 DEF PendingOf, OwnedBy
<1>3. /\ PendingDocuments' = [PendingDocuments EXCEPT ![w] = @ \ {}]
      /\ OwnedDocuments' = [OwnedDocuments EXCEPT ![w] =
                                 @ \ {KeysOf(claims[u]) : u \in OwnedBy(w)}]
  <2>1. Keeps(T)
    OBVIOUS
  <2> HIDE DEF T
  <2>2. /\ {KeysOf(claims[u]) : u \in T \cap PendingOf(w)} = {}
        /\ {KeysOf(claims[u]) : u \in T \cap OwnedBy(w)} = {KeysOf(claims[u]) : u \in OwnedBy(w)}
    BY <1>2
  <2> QED
    BY <1>2, <2>1, <2>2, RemovalDocuments
<1>4. OwnedDocuments[w] = {KeysOf(claims[u]) : u \in OwnedBy(w)} /\ OwnedDocuments[w] # {}
  BY <1>1 DEF OwnedDocuments
<1>5. PendingDocuments' = PendingDocuments /\ OwnedDocuments' = [OwnedDocuments EXCEPT ![w] = {}]
  BY <1>3, <1>4 DEF PendingDocuments, OwnedDocuments
<1>6. Ownership!Yield(w)
  BY <1>4, <1>5 DEF Ownership!Yield, PendingDocuments, OwnedDocuments
<1> QED
  BY <1>6 DEF Ownership!Next

\* ... and a window that is destroyed leaves everything.
LEMMA RemovalVanishes ==
  ASSUME Safe, NEW w \in Windows, Keeps(OwnedBy(w) \cup PendingOf(w))
  PROVE  Ownership!Next
<1> DEFINE T == OwnedBy(w) \cup PendingOf(w)
<1>1. T \cap PendingOf(w) = PendingOf(w) /\ T \cap OwnedBy(w) = OwnedBy(w)
  OBVIOUS
<1>2. /\ PendingDocuments' = [PendingDocuments EXCEPT ![w] =
                                 @ \ {KeysOf(claims[t]) : t \in PendingOf(w)}]
      /\ OwnedDocuments' = [OwnedDocuments EXCEPT ![w] =
                                 @ \ {KeysOf(claims[t]) : t \in OwnedBy(w)}]
  <2>1. T \subseteq PendingOf(w) \cup OwnedBy(w) /\ Keeps(T)
    OBVIOUS
  <2> HIDE DEF T
  <2> QED
    BY <1>1, <2>1, RemovalDocuments
<1>3. Ownership!Vanish(w)
  BY <1>2 DEF Ownership!Vanish, PendingDocuments, OwnedDocuments
<1> QED
  BY <1>3 DEF Ownership!Next
\* A granted reservation is a request for a document that nobody has.
LEMMA GrantRequests ==
  ASSUME Safe, NEW r \in Threads, GrantReserve(r)
  PROVE  Ownership!Next
<1> USE DEF Safe
<1>0. calls[r] \in DocumentCall
  BY RunningType DEF GrantReserve
<1>1. PICK w \in Windows, s \in SessionIds : w = calls[r].window /\ s = calls[r].session
  BY <1>0 DEF DocumentCall
<1> DEFINE id == Resolved(calls[r].path, calls[r].target)
           d  == KeysOf(id)
           n  == nextSequence
<1>2. n \in Tokens /\ n \notin Held
  BY SequenceAssumption DEF GrantReserve, Tokens, TypeOK, IndexConsistent, TokensAreFresh
<1>3. id.lexical \in Keys /\ id.resolved \in Keys /\ d = {id.lexical, id.resolved}
  BY <1>0, KeyAssumption DEF Resolved, DocumentCall, KeysOf
<1>4. index[id.lexical] = NoToken /\ index[id.resolved] = NoToken
  <2>1. Found(id) = {}
    BY DEF GrantReserve
  <2> QED
    BY <2>1 DEF Found
<1>5. /\ claims'[n] = [window |-> w, session |-> s, op |-> calls[r].op, lexical |-> id.lexical,
                       resolved |-> id.resolved, owned |-> FALSE]
      /\ \A t \in Tokens \ {n} : claims'[t] = EnsuredClaims(w, s)[t]
  <2>1. EnsuredClaims(w, s) \in [Tokens -> Claim \cup {NoClaim}]
    BY <1>1, EnsureTypes DEF GrantReserve
  <2> QED
    BY <1>1, <1>2, <2>1 DEF GrantReserve
<1>6. claims'[n] # NoClaim /\ ~claims'[n].owned /\ claims'[n].window = w
      /\ KeysOf(claims'[n]) = d
  <2>1. claims'[n] \in Claim
    BY <1>0, <1>1, <1>3, <1>5 DEF Claim, DocumentCall
  <2>2. claims'[n].lexical = id.lexical /\ claims'[n].resolved = id.resolved
    BY <1>5
  <2>3. KeysOf(claims'[n]) = d
    BY <1>3, <2>2 DEF KeysOf
  <2>4. claims'[n].window = w /\ ~claims'[n].owned
    BY <1>5
  <2> QED
    BY <2>1, <2>3, <2>4, NullAssumption
<1>7. \A t \in Tokens \ {n} : (claims'[t] = NoClaim) <=> (claims[t] = NoClaim)
  BY <1>1, <1>5, EnsuredKeeps
<1>8. \A t \in Held : /\ t # n
                      /\ claims'[t].window = claims[t].window
                      /\ claims'[t].owned = claims[t].owned
                      /\ KeysOf(claims'[t]) = KeysOf(claims[t])
  BY <1>1, <1>2, <1>5, EnsuredKeeps DEF Held, KeysOf
<1>9. ASSUME NEW v \in Windows
      PROVE  /\ PendingOf(v)' = PendingOf(v) \cup (IF v = w THEN {n} ELSE {})
             /\ OwnedBy(v)' = OwnedBy(v)
  BY <1>2, <1>6, <1>7, <1>8 DEF PendingOf, OwnedBy, Held
<1>10. \A v \in Windows : PendingOf(v) \subseteq Held /\ OwnedBy(v) \subseteq Held
  BY DEF PendingOf, OwnedBy
<1>11. OwnedDocuments' = OwnedDocuments
  <2>1. ASSUME NEW v \in Windows
        PROVE  {KeysOf(claims[t]) : t \in OwnedBy(v)}' = {KeysOf(claims[t]) : t \in OwnedBy(v)}
    <3>1. {KeysOf(claims[t]) : t \in OwnedBy(v)}' = {KeysOf(claims'[t]) : t \in OwnedBy(v)'}
      BY DEF KeysOf
    <3> QED
      BY <1>8, <1>9, <1>10, <3>1
  <2> QED
    BY <2>1 DEF OwnedDocuments
<1>12. PendingDocuments' = [PendingDocuments EXCEPT ![w] = @ \cup {d}]
  <2> HIDE DEF n, d
  <2>1. ASSUME NEW v \in Windows, v # w
        PROVE  {KeysOf(claims[t]) : t \in PendingOf(v)}' = {KeysOf(claims[t]) : t \in PendingOf(v)}
    <3>1. {KeysOf(claims[t]) : t \in PendingOf(v)}' = {KeysOf(claims'[t]) : t \in PendingOf(v)'}
      BY DEF KeysOf
    <3> QED
      BY <1>8, <1>9, <1>10, <2>1, <3>1
  <2>2. {KeysOf(claims[t]) : t \in PendingOf(w)}'
          = {KeysOf(claims[t]) : t \in PendingOf(w)} \cup {d}
    <3>1. PendingOf(w)' = PendingOf(w) \cup {n} /\ PendingOf(w) \subseteq Held
      BY <1>1, <1>9, <1>10
    <3>2. \A t \in PendingOf(w) : KeysOf(claims'[t]) = KeysOf(claims[t])
      BY <1>8, <3>1
    <3>3. {KeysOf(claims[t]) : t \in PendingOf(w)}' = {KeysOf(claims'[t]) : t \in PendingOf(w)'}
      BY DEF KeysOf
    <3> QED
      BY <1>6, <3>1, <3>2, <3>3
  <2> QED
    BY <1>1, <2>1, <2>2 DEF PendingDocuments
<1>13. d \cap Ownership!TakenKeys = {}
  <2> SUFFICES ASSUME NEW k \in d, k \in Ownership!TakenKeys PROVE FALSE
    OBVIOUS
  <2>0. PICK v \in Windows : \E t \in PendingOf(v) \cup OwnedBy(v) : k \in KeysOf(claims[t])
    BY DEF Ownership!TakenKeys
  <2>1. PICK t \in PendingOf(v) \cup OwnedBy(v) : k \in KeysOf(claims[t])
    BY <2>0
  <2>2. t \in Held
    BY <1>10
  <2>3. index[k] = t
    BY <2>1, <2>2 DEF IndexConsistent, ClaimsAreIndexed
  <2> QED
    BY <1>3, <1>4, <2>2, <2>3, NullAssumption DEF Held, Tokens
<1>14. Ownership!Request(w, d)
  BY <1>11, <1>12, <1>13 DEF Ownership!Request, PendingDocuments, OwnedDocuments
<1>15. d \in Ownership!Documents
  BY <1>3 DEF Ownership!Documents
<1> QED
  BY <1>1, <1>14, <1>15 DEF Ownership!Next

\* A commit confirms what was asked for and gives up what the window owned, in one step.
LEMMA CommitConfirms ==
  ASSUME Safe, NEW r \in Threads, Commit(r)
  PROVE  Ownership!Next
<1> USE DEF Safe
<1> DEFINE w == calls[r].window
<1>1. PICK t \in Held :
        /\ CommitPasses(r, t)
        /\ claims' = [ClaimsWithout(Superseded(w, t)) EXCEPT ![t].owned = TRUE]
  BY DEF Commit
<1> DEFINE T == Superseded(w, t)
           d == KeysOf(claims[t])
<1>2. t \in Tokens /\ claims[t] \in Claim /\ claims[t].window = w /\ ~claims[t].owned
      /\ w \in Windows
  BY <1>1 DEF CommitPasses, CommitAllowed, MayActFor, OpKeyOf, Held, TypeOK, Claim
<1>3. T = OwnedBy(w) /\ t \notin T /\ T \subseteq Held
  BY <1>2 DEF Superseded, OwnedBy
<1>4. /\ claims'[t] # NoClaim /\ claims'[t].owned /\ claims'[t].window = w
      /\ KeysOf(claims'[t]) = d
  <2>1. claims'[t] = [claims[t] EXCEPT !.owned = TRUE]
    BY <1>1, <1>2, <1>3, RemovalTypes DEF ClaimsWithout
  <2>2. claims'[t] \in Claim
    BY <1>2, <2>1 DEF Claim
  <2> QED
    BY <1>2, <2>1, <2>2, NullAssumption DEF Claim, KeysOf
<1>5. \A u \in Tokens \ {t} : claims'[u] = ClaimsWithout(T)[u]
  BY <1>1, RemovalTypes
<1>6. \A u \in Tokens \ {t} : (claims'[u] = NoClaim) <=> (claims[u] = NoClaim \/ u \in T)
  BY <1>5, WithoutKeeps
<1>7. \A u \in Tokens \ {t} : claims'[u] # NoClaim => claims'[u] = claims[u]
  BY <1>5, WithoutKeeps
<1> HIDE DEF T, d
<1>8. ASSUME NEW v \in Windows
      PROVE  /\ PendingOf(v)' = PendingOf(v) \ {t}
             /\ OwnedBy(v)' = IF v = w THEN {t} ELSE OwnedBy(v)
  <2>1. PendingOf(v)' = PendingOf(v) \ {t}
    BY <1>2, <1>3, <1>4, <1>6, <1>7 DEF PendingOf, OwnedBy, Held
  <2>2. OwnedBy(v)' = IF v = w THEN {t} ELSE OwnedBy(v)
    BY <1>2, <1>3, <1>4, <1>6, <1>7 DEF OwnedBy, Held
  <2> QED
    BY <2>1, <2>2
<1>9. \A u \in Held \ {t} : u \notin T => KeysOf(claims'[u]) = KeysOf(claims[u])
  BY <1>6, <1>7 DEF Held
<1>10. \A v \in Windows : PendingOf(v) \subseteq Held \ T
  BY <1>3 DEF PendingOf, OwnedBy
<1>11. \A v \in Windows \ {w} : OwnedBy(v) \subseteq Held \ T /\ t \notin OwnedBy(v)
  BY <1>2, <1>3 DEF OwnedBy
<1>12. t \in PendingOf(w) /\ \A v \in Windows \ {w} : t \notin PendingOf(v)
  BY <1>2 DEF PendingOf
<1>13. \A u, v \in Held : KeysOf(claims[u]) = KeysOf(claims[v]) => u = v
  BY ClaimsDiffer
<1>14. ASSUME NEW v \in Windows
       PROVE  {KeysOf(claims[u]) : u \in PendingOf(v)}' =
                IF v = w THEN {KeysOf(claims[u]) : u \in PendingOf(w)} \ {d}
                         ELSE {KeysOf(claims[u]) : u \in PendingOf(v)}
  <2>1. {KeysOf(claims[u]) : u \in PendingOf(v)}' = {KeysOf(claims'[u]) : u \in PendingOf(v) \ {t}}
    BY <1>8 DEF KeysOf
  <2>2. {KeysOf(claims'[u]) : u \in PendingOf(v) \ {t}}
          = {KeysOf(claims[u]) : u \in PendingOf(v) \ {t}}
    BY <1>9, <1>10
  <2>3. CASE v = w
    <3>1. {KeysOf(claims[u]) : u \in PendingOf(w) \ {t}}
            = {KeysOf(claims[u]) : u \in PendingOf(w)} \ {KeysOf(claims[t])}
      BY <1>2, <1>10, <1>12, <1>13
    <3> QED
      BY <2>1, <2>2, <2>3, <3>1 DEF d
  <2>4. CASE v # w
    BY <1>12, <2>1, <2>2, <2>4
  <2> QED
    BY <2>3, <2>4
<1>15. ASSUME NEW v \in Windows
       PROVE  {KeysOf(claims[u]) : u \in OwnedBy(v)}' =
                IF v = w THEN {d} ELSE {KeysOf(claims[u]) : u \in OwnedBy(v)}
  <2>1. {KeysOf(claims[u]) : u \in OwnedBy(v)}' = {KeysOf(claims'[u]) : u \in OwnedBy(v)'}
    BY DEF KeysOf
  <2>2. CASE v = w
    BY <1>4, <1>8, <2>1, <2>2
  <2>3. CASE v # w
    BY <1>8, <1>9, <1>11, <2>1, <2>3
  <2> QED
    BY <2>2, <2>3
<1>16. d \in PendingDocuments[w]
  BY <1>2, <1>12 DEF PendingDocuments, d
<1>17. /\ PendingDocuments' = [PendingDocuments EXCEPT ![w] = @ \ {d}]
       /\ OwnedDocuments' = [OwnedDocuments EXCEPT ![w] = {d}]
  BY <1>14, <1>15 DEF PendingDocuments, OwnedDocuments
<1>18. Ownership!Confirm(w, d)
  BY <1>16, <1>17 DEF Ownership!Confirm, PendingDocuments, OwnedDocuments
<1> QED
  BY <1>2, <1>16, <1>18 DEF Ownership!Next, PendingDocuments
LEMMA NextPromised == Safe /\ [Next]_vars => [Ownership!Next]_(Ownership!vars)
<1> SUFFICES ASSUME Safe, [Next]_vars PROVE [Ownership!Next]_(Ownership!vars)
  OBVIOUS
<1> USE DEF Safe
\* Most steps leave the documents where they are.
<1>1. ASSUME UNCHANGED claims PROVE UNCHANGED Ownership!vars
  <2>1. Keeps({})
    BY <1>1 DEF Keeps
  <2> QED
    BY <2>1, KeepingStutters
<1>2. ASSUME NEW T, claims' = ClaimsWithout(T) PROVE Keeps(T)
  BY <1>2, WithoutKeeps DEF Keeps
<1>3. ASSUME NEW w, NEW s \in SessionIds, claims' = EnsuredClaims(w, s)
      PROVE  UNCHANGED Ownership!vars
  <2>1. Keeps({})
    BY <1>3, EnsuredKeeps DEF Keeps
  <2> QED
    BY <2>1, KeepingStutters
<1>4. CASE SessionStep
  <2>1. ASSUME NEW w \in Windows, CreateWindow(w) PROVE UNCHANGED Ownership!vars
    BY <1>1, <2>1 DEF CreateWindow, registry
  <2>2. ASSUME NEW w \in Windows, DestroyWindow(w) PROVE Ownership!Next
    BY <1>2, <2>2, RemovalVanishes DEF DestroyWindow
  <2>3. ASSUME NEW w \in Windows, NEW s \in SessionIds, BeginSession(w, s)
        PROVE  UNCHANGED Ownership!vars
    BY <1>3, <2>3 DEF BeginSession, EnsuredClaims
  <2>4. ASSUME NEW w \in Windows, NEW s \in SessionIds, ReleaseSession(w, s)
        PROVE  [Ownership!Next]_(Ownership!vars)
    <3> DEFINE T == {t \in PendingOf(w) : claims[t].session = s}
    <3>1. T \subseteq PendingOf(w) /\ claims' = ClaimsWithout(T)
      BY <2>4 DEF ReleaseSession
    <3> HIDE DEF T
    <3> QED
      BY <1>2, <3>1, RemovalAbandons
  <2>5. ASSUME NEW r \in Threads, TakeoverSession(r) PROVE [Ownership!Next]_(Ownership!vars)
    <3>1. calls[r] \in TakeoverCall
      BY <2>5 DEF TakeoverSession, Running, TypeOK, DocumentCall
    <3>2. PICK w \in Windows, s \in SessionIds : w = calls[r].window /\ s = calls[r].session
      BY <3>1 DEF TakeoverCall
    <3>3. claims' = Rebound(ClaimsWithout(PendingOf(w)), w, s)
      BY <2>5, <3>2 DEF TakeoverSession
    <3>4. ClaimsWithout(PendingOf(w)) \in [Tokens -> Claim \cup {NoClaim}]
      BY RemovalTypes
    <3>5. Keeps(PendingOf(w))
      BY <3>3, <3>4, ReboundKeeps, WithoutKeeps DEF Keeps
    <3> QED
      BY <3>5, RemovalAbandons
  <2>6. ASSUME NEW r \in Threads,
               RefuseTakeover(r) \/ \E w \in Windows, s \in SessionIds : RefuseSession(r, w, s)
        PROVE  UNCHANGED Ownership!vars
    BY <1>1, <2>6 DEF RefuseTakeover, RefuseSession, registry
  <2> QED
    BY <1>4, <2>1, <2>2, <2>3, <2>4, <2>5, <2>6 DEF SessionStep
<1>5. CASE StartStep
  <2>1. ASSUME NEW r \in Threads, NEW w \in Windows, NEW s \in SessionIds, NEW o \in OpIds,
               NEW p \in Paths,
               StartReserve(r, w, s, o, p) \/ StartCommit(r, w, s, o, p) \/ StartIo(r, w, s, o, p)
        PROVE  UNCHANGED Ownership!vars
    BY <1>1, <2>1 DEF StartReserve, StartCommit, StartIo, registry
  <2>2. ASSUME NEW r \in Threads, NEW w \in Windows, NEW s \in SessionIds, NEW p \in Paths,
               StartYield(r, w, s, p)
        PROVE  UNCHANGED Ownership!vars
    BY <1>1, <2>2 DEF StartYield, registry
  <2> QED
    BY <1>5, <2>1, <2>2 DEF StartStep
<1>6. ASSUME NEW r \in Threads, ThreadStep(r) PROVE [Ownership!Next]_(Ownership!vars)
  <2> DEFINE w == calls[r].window
             s == calls[r].session
  <2>1. ASSUME NEW step, Running(r, "reserve", step) PROVE w \in Windows /\ s \in SessionIds
    BY <2>1, RunningType DEF DocumentCall
  <2>2. CASE AnswerReserve(r)
    BY <1>3, <2>1, <2>2 DEF AnswerReserve
  <2>3. CASE BindReserve(r)
    <3>1. w \in Windows /\ s \in SessionIds
      BY <2>1, <2>3 DEF BindReserve
    <3>2. PICK u \in Tokens : /\ claims' = [EnsuredClaims(w, s) EXCEPT ![u].op = calls[r].op]
                              /\ EnsuredClaims(w, s)[u] # NoClaim
      BY <2>3 DEF BindReserve, Bindable
    <3>3. EnsuredClaims(w, s) \in [Tokens -> Claim \cup {NoClaim}] /\ calls[r].op \in OpIds \cup {NoOp}
      BY <2>3, <3>1, RunningType, EnsureTypes DEF BindReserve, DocumentCall
    <3>4. EnsuredClaims(w, s)[u] \in Claim
      BY <3>2, <3>3
    <3>5. claims'[u] = [EnsuredClaims(w, s)[u] EXCEPT !.op = calls[r].op]
      BY <3>2, <3>3
    <3>6. /\ claims'[u] # NoClaim
          /\ claims'[u].lexical = EnsuredClaims(w, s)[u].lexical
          /\ claims'[u].resolved = EnsuredClaims(w, s)[u].resolved
          /\ claims'[u].window = EnsuredClaims(w, s)[u].window
          /\ claims'[u].owned = EnsuredClaims(w, s)[u].owned
      <4>1. claims'[u] \in Claim
        BY <3>3, <3>4, <3>5 DEF Claim
      <4> QED
        BY <3>4, <3>5, <4>1, NullAssumption DEF Claim
    <3>7. \A t \in Tokens \ {u} : claims'[t] = EnsuredClaims(w, s)[t]
      BY <3>2, <3>3
    <3>8. Keeps({})
      <4>1. ASSUME NEW t \in Tokens
            PROVE  /\ (claims'[t] = NoClaim) <=> (claims[t] = NoClaim)
                   /\ claims'[t] # NoClaim => /\ claims'[t].lexical = claims[t].lexical
                                              /\ claims'[t].resolved = claims[t].resolved
                                              /\ claims'[t].window = claims[t].window
                                              /\ claims'[t].owned = claims[t].owned
        <5>1. CASE t = u
          BY <3>1, <3>2, <3>6, <5>1, EnsuredKeeps
        <5>2. CASE t # u
          BY <3>1, <3>7, <5>2, EnsuredKeeps
        <5> QED
          BY <5>1, <5>2
      <4> QED
        BY <4>1 DEF Keeps
    <3> QED
      BY <3>8, KeepingStutters
  <2>4. CASE YieldOwned(r)
    <3>1. PICK t \in Held : YieldPasses(r, t) /\ claims' = ClaimsWithout({t})
      BY <2>4 DEF YieldOwned
    <3>2. PICK v \in Windows : v = claims[t].window
      BY ClaimsDiffer
    <3>3. t \in OwnedBy(v)
      BY <3>1, <3>2 DEF YieldPasses, OwnedBy
    <3>4. Keeps({t})
      BY <1>2, <3>1
    <3> QED
      BY <3>3, <3>4, RemovalYields
  <2>5. CASE \/ Resolve(r) \/ ValidateIo(r) \/ RunIo(r) \/ ReturnIo(r)
             \/ RejectReserve(r) \/ RejectCommit(r) \/ RejectYield(r)
    BY <1>1, <2>5 DEF Resolve, ValidateIo, RunIo, ReturnIo, RejectReserve, RejectCommit, RejectYield, registry
  <2> QED
    BY <1>6, <2>2, <2>3, <2>4, <2>5, GrantRequests, CommitConfirms DEF ThreadStep
<1>7. ASSUME NEW w \in Windows, NEW s \in SessionIds, NEW o \in OpIds, NEW p \in Paths,
             ReleaseOperation(w, s, o, p)
      PROVE  [Ownership!Next]_(Ownership!vars)
  <2>1. PICK t \in Held : ~claims[t].owned /\ claims' = ClaimsWithout({t})
    BY <1>7 DEF ReleaseOperation
  <2>2. PICK v \in Windows : v = claims[t].window
    BY ClaimsDiffer
  <2>3. {t} \subseteq PendingOf(v) /\ Keeps({t})
    BY <1>2, <2>1, <2>2 DEF PendingOf
  <2> QED
    BY <2>3, RemovalAbandons
<1>8. ASSUME NEW after \in FileSystems, Refit(after) PROVE UNCHANGED Ownership!vars
  BY <1>1, <1>8 DEF Refit, registry
<1>9. CASE UNCHANGED vars
  BY <1>1, <1>9 DEF vars
<1> QED
  BY <1>4, <1>5, <1>6, <1>7, <1>8, <1>9 DEF Next

LEMMA InitPromised == Init => Ownership!Init
<1> SUFFICES ASSUME Init PROVE Ownership!Init
  OBVIOUS
<1>1. \A w \in Windows : PendingOf(w) = {} /\ OwnedBy(w) = {}
  BY DEF Init, PendingOf, OwnedBy, Held
<1> QED
  BY <1>1 DEF Ownership!Init

\* Sessions, tokens, operations, links and overlapping calls change nothing about what the
\* registry promises: a window gets only documents nobody else has, owns one at a time, and
\* gives a document up before another window can get it.
THEOREM OwnershipImplemented == Spec => ImplementsOwnership
<1>1. Init => Ownership!Init
  BY InitPromised
<1>2. Safe /\ [Next]_vars => [Ownership!Next]_(Ownership!vars)
  BY NextPromised
<1> QED
  BY <1>1, <1>2, AlwaysSafe, PTL DEF Spec, ImplementsOwnership, Ownership!Spec

-----------------------------------------------------------------------------
(* Sessions: what fences a claim, what a takeover may displace, what file  *)
(* I/O may reach, and what outlives a page.                                *)

\* A call that acts for an operation names one.
CallsNameOperations ==
  \A r \in Threads : calls[r] # Idle /\ calls[r].kind \in {"reserve", "commit", "io"}
                       => calls[r].op \in OpIds

\* A generation in use, or remembered by a takeover that is on its way, was handed out before
\* the next one: a session that begins later can be mistaken for no earlier session.
GenerationsAreFresh ==
  /\ \A w \in Windows : sessions[w] # NoSession => sessions[w].generation < nextGeneration
  /\ \A r \in Threads : Running(r, "takeover", "enter") => calls[r].expected < nextGeneration

\* Checked file I/O leads to a file its window has a claim on, until its path is retargeted.
ClaimIn(cs, ix, c, file) ==
  \E t \in Tokens : /\ cs[t] # NoClaim /\ cs[t].window = c.window
                    /\ cs[t].resolved = file /\ ix[file] = t
IoWasChecked ==
  \A r \in Threads : Running(r, "io", "checked") =>
    calls[r].moved \/ ClaimIn(claims, index, calls[r], fs[calls[r].target])

Fenced ==
  /\ SessionsFenceClaims
  /\ CallsNameOperations
  /\ GenerationsAreFresh
  /\ TakeoversNameOneSession
  /\ IoStaysOnClaimedFile
  /\ IoWasChecked

-----------------------------------------------------------------------------
(* SessionsFenceClaims as a relation between claims, operations and sessions, so that the  *)
(* intermediate values inside one lock region can be spoken of.                            *)

CurrentIn(ss, w, s) == ss[w] # NoSession /\ ss[w].id = s

Fence(cs, os, ss) ==
  /\ \A o \in OpKeys : os[o] # Absent => CurrentIn(ss, o[1], o[2])
  /\ \A o \in OpKeys : os[o] # Absent /\ os[o].status = "active" =>
       /\ os[o].claim \in Tokens
       /\ cs[os[o].claim] # NoClaim
       /\ OpKeyOf(cs[os[o].claim]) = o
  /\ \A t \in Tokens : cs[t] # NoClaim /\ ~cs[t].owned =>
       cs[t].op # NoOp /\ CurrentIn(ss, cs[t].window, cs[t].session)
  /\ \A t \in Tokens : cs[t] # NoClaim /\ ss[cs[t].window] # NoSession =>
       /\ CurrentIn(ss, cs[t].window, cs[t].session)
       /\ cs[t].op # NoOp => IsActive(os[OpKeyOf(cs[t])], t)

ClaimsType     == [Tokens -> Claim \cup {NoClaim}]
OperationsType == [OpKeys -> OperationState \cup {Absent}]
SessionsType   == [Windows -> ActiveSession \cup {NoSession}]

\* The parts of an operation key, and the key of a claim that has an operation.
LEMMA OpKeyParts ==
  /\ \A o \in OpKeys : /\ o[1] \in Windows /\ o[2] \in SessionIds /\ o[3] \in OpIds
                        /\ o[3] # NoOp /\ o = <<o[1], o[2], o[3]>>
  /\ \A w \in Windows, s \in SessionIds, o \in OpIds : <<w, s, o>> \in OpKeys
BY NullAssumption DEF OpKeys

LEMMA ClaimKey ==
  ASSUME NEW c \in Claim
  PROVE  /\ c.window \in Windows /\ c.session \in SessionIds
         /\ OpKeyOf(c)[1] = c.window /\ OpKeyOf(c)[2] = c.session /\ OpKeyOf(c)[3] = c.op
         /\ c.op # NoOp => OpKeyOf(c) \in OpKeys
BY DEF Claim, OpKeyOf, OpKeys

\* Two claims of one window with a session have different operations.
LEMMA FenceSeparates ==
  ASSUME NEW cs \in ClaimsType, NEW os \in OperationsType, NEW ss \in SessionsType,
         Fence(cs, os, ss), NEW t \in Tokens, NEW u \in Tokens,
         cs[t] # NoClaim, cs[u] # NoClaim, cs[t].op # NoOp,
         OpKeyOf(cs[t]) = OpKeyOf(cs[u]), ss[cs[t].window] # NoSession
  PROVE  t = u
<1>1. cs[t] \in Claim /\ cs[u] \in Claim
  BY DEF ClaimsType
<1>2. cs[u].window = cs[t].window /\ cs[u].op = cs[t].op
  BY <1>1, ClaimKey
<1>3. IsActive(os[OpKeyOf(cs[t])], t) /\ IsActive(os[OpKeyOf(cs[u])], u)
  BY <1>2 DEF Fence
<1> QED
  BY <1>3 DEF IsActive

\* Rebinding a window without reservations to a session nobody has operations of.
LEMMA BegunFence ==
  ASSUME NEW cs \in ClaimsType, NEW os \in OperationsType, NEW ss \in SessionsType,
         Fence(cs, os, ss), NEW w \in Windows, NEW s \in SessionIds, NEW g \in ActiveSession,
         g.id = s, ~CurrentIn(ss, w, s),
         \A t \in Tokens : cs[t] # NoClaim /\ cs[t].window = w => cs[t].owned
  PROVE  Fence(Rebound(cs, w, s), OfOneSession(os, w, s), [ss EXCEPT ![w] = g])
<1> DEFINE cs2 == Rebound(cs, w, s)
           os2 == OfOneSession(os, w, s)
           ss2 == [ss EXCEPT ![w] = g]
<1>1. \A t \in Tokens :
        /\ (cs2[t] = NoClaim) <=> (cs[t] = NoClaim)
        /\ cs[t] # NoClaim /\ cs[t].window # w => cs2[t] = cs[t]
        /\ cs[t] # NoClaim /\ cs[t].window = w =>
             /\ cs2[t].window = w /\ cs2[t].owned /\ cs2[t].session = s /\ cs2[t].op = NoOp
  <2> TAKE t \in Tokens
  <2>1. cs \in [Tokens -> Claim \cup {NoClaim}]
    BY DEF ClaimsType
  <2>2. /\ (cs2[t] = NoClaim) <=> (cs[t] = NoClaim)
        /\ cs[t] # NoClaim => cs2[t].window = cs[t].window /\ cs2[t].owned = cs[t].owned
    BY <2>1, ReboundKeeps
  <2>3. cs[t] # NoClaim /\ cs[t].window = w => cs2[t].session = s /\ cs2[t].op = NoOp
    <3> SUFFICES ASSUME cs[t] # NoClaim, cs[t].window = w
                 PROVE  cs2[t].session = s /\ cs2[t].op = NoOp
      OBVIOUS
    <3>1. cs[t] \in Claim /\ cs[t].owned
      BY <2>1
    <3>2. cs2[t] = [cs[t] EXCEPT !.session = s, !.op = NoOp]
      BY <3>1 DEF Rebound
    <3> QED
      BY <3>1, <3>2 DEF Claim
  <2>4. cs[t] # NoClaim /\ cs[t].window # w => cs2[t] = cs[t]
    BY DEF Rebound
  <2> QED
    BY <2>2, <2>3, <2>4
<1>2. \A o \in OpKeys : os2[o] = IF o[1] = w THEN Absent ELSE os[o]
  BY OpKeyParts DEF OfOneSession, Fence, CurrentIn
<1>3. /\ \A v \in Windows \ {w} : ss2[v] = ss[v]
      /\ ss2[w] = g /\ g # NoSession
  BY NullAssumption DEF SessionsType
<1>4. \A t \in Tokens : cs[t] # NoClaim => cs[t] \in Claim
  BY DEF ClaimsType
<1>5. \A o \in OpKeys : os2[o] # Absent => CurrentIn(ss2, o[1], o[2])
  BY <1>2, <1>3, OpKeyParts DEF Fence, CurrentIn
<1>6. \A o \in OpKeys : os2[o] # Absent /\ os2[o].status = "active" =>
        os2[o].claim \in Tokens /\ cs2[os2[o].claim] # NoClaim /\ OpKeyOf(cs2[os2[o].claim]) = o
  <2> SUFFICES ASSUME NEW o \in OpKeys, os2[o] # Absent, os2[o].status = "active"
               PROVE  /\ os2[o].claim \in Tokens
                      /\ cs2[os2[o].claim] # NoClaim
                      /\ OpKeyOf(cs2[os2[o].claim]) = o
    OBVIOUS
  <2>1. o[1] # w /\ os2[o] = os[o]
    BY <1>2
  <2>2. os[o].claim \in Tokens /\ cs[os[o].claim] # NoClaim /\ OpKeyOf(cs[os[o].claim]) = o
    BY <2>1 DEF Fence
  <2>3. cs[os[o].claim].window # w
    BY <1>4, <2>1, <2>2, ClaimKey
  <2> QED
    BY <1>1, <2>1, <2>2, <2>3
<1>7. \A t \in Tokens : cs2[t] # NoClaim /\ ~cs2[t].owned =>
        cs2[t].op # NoOp /\ CurrentIn(ss2, cs2[t].window, cs2[t].session)
  BY <1>1, <1>3, <1>4, ClaimKey DEF Fence, CurrentIn
<1>8. \A t \in Tokens : cs2[t] # NoClaim /\ ss2[cs2[t].window] # NoSession =>
        /\ CurrentIn(ss2, cs2[t].window, cs2[t].session)
        /\ cs2[t].op # NoOp => IsActive(os2[OpKeyOf(cs2[t])], t)
  <2> SUFFICES ASSUME NEW t \in Tokens, cs2[t] # NoClaim, ss2[cs2[t].window] # NoSession
               PROVE  /\ CurrentIn(ss2, cs2[t].window, cs2[t].session)
                      /\ cs2[t].op # NoOp => IsActive(os2[OpKeyOf(cs2[t])], t)
    OBVIOUS
  <2>1. CASE cs[t].window = w
    BY <1>1, <1>3, <2>1 DEF CurrentIn
  <2>2. CASE cs[t].window # w
    <3>1. cs2[t] = cs[t] /\ cs[t] \in Claim
      BY <1>1, <1>4, <2>2
    <3>2. ss2[cs[t].window] = ss[cs[t].window]
      BY <1>3, <2>2, <3>1, ClaimKey
    <3>3. cs[t].op # NoOp => os2[OpKeyOf(cs[t])] = os[OpKeyOf(cs[t])]
      BY <1>2, <2>2, <3>1, ClaimKey
    <3> QED
      BY <3>1, <3>2, <3>3 DEF Fence, CurrentIn
  <2> QED
    BY <2>1, <2>2
<1> QED
  BY <1>5, <1>6, <1>7, <1>8 DEF Fence

\* Claims that go with their operations, whether these are forgotten or remembered as released.
LEMMA RemovedFence ==
  ASSUME TypeOK, Fence(claims, operations, sessions), NEW T, T \subseteq Held,
         \A t \in T : sessions[claims[t].window] # NoSession,
         NEW os \in OperationsType,
         \A o \in OpKeys : /\ o \notin OperationsOf(T) => os[o] = operations[o]
                           /\ o \in OperationsOf(T) /\ os[o] # Absent => os[o].status = "released"
  PROVE  Fence(ClaimsWithout(T), os, sessions)
<1> DEFINE cs == ClaimsWithout(T)
<1>0. \A t \in Tokens : (cs[t] = NoClaim) <=> (claims[t] = NoClaim \/ t \in T)
  BY WithoutKeeps
<1>1. \A t \in Tokens : cs[t] # NoClaim => cs[t] = claims[t]
  BY WithoutKeeps
<1>2. \A t \in Tokens : claims[t] # NoClaim => claims[t] \in Claim
  BY DEF TypeOK
<1>3. claims \in ClaimsType /\ operations \in OperationsType /\ sessions \in SessionsType
  BY DEF TypeOK, ClaimsType, OperationsType, SessionsType
<1>4. \A o \in OpKeys : os[o] # Absent => CurrentIn(sessions, o[1], o[2])
  <2> SUFFICES ASSUME NEW o \in OpKeys, os[o] # Absent PROVE CurrentIn(sessions, o[1], o[2])
    OBVIOUS
  <2>1. CASE o \notin OperationsOf(T)
    BY <2>1 DEF Fence
  <2>2. CASE o \in OperationsOf(T)
    <3>1. PICK t \in T : OpKeyOf(claims[t]) = o
      BY <2>2 DEF OperationsOf
    <3>2. CurrentIn(sessions, claims[t].window, claims[t].session) /\ claims[t] \in Claim
      BY <1>2 DEF Fence, Held
    <3> QED
      BY <3>1, <3>2, ClaimKey
  <2> QED
    BY <2>1, <2>2
<1>5. \A o \in OpKeys : os[o] # Absent /\ os[o].status = "active" =>
        os[o].claim \in Tokens /\ cs[os[o].claim] # NoClaim /\ OpKeyOf(cs[os[o].claim]) = o
  <2> SUFFICES ASSUME NEW o \in OpKeys, os[o] # Absent, os[o].status = "active"
               PROVE  /\ os[o].claim \in Tokens
                      /\ cs[os[o].claim] # NoClaim
                      /\ OpKeyOf(cs[os[o].claim]) = o
    OBVIOUS
  <2>1. o \notin OperationsOf(T) /\ os[o] = operations[o]
    OBVIOUS
  <2> DEFINE u == operations[o].claim
  <2>2. u \in Tokens /\ claims[u] # NoClaim /\ OpKeyOf(claims[u]) = o
    BY <2>1 DEF Fence
  <2>3. claims[u].op # NoOp
    BY <1>2, <2>2, ClaimKey, OpKeyParts
  <2>4. u \notin T
    BY <2>1, <2>2, <2>3 DEF OperationsOf
  <2> QED
    BY <1>0, <1>1, <2>1, <2>2, <2>4
<1>6. \A t \in Tokens : cs[t] # NoClaim /\ ~cs[t].owned =>
        cs[t].op # NoOp /\ CurrentIn(sessions, cs[t].window, cs[t].session)
  BY <1>1 DEF Fence
<1>7. \A t \in Tokens : cs[t] # NoClaim /\ sessions[cs[t].window] # NoSession =>
        /\ CurrentIn(sessions, cs[t].window, cs[t].session)
        /\ cs[t].op # NoOp => IsActive(os[OpKeyOf(cs[t])], t)
  <2> SUFFICES ASSUME NEW t \in Tokens, cs[t] # NoClaim, sessions[cs[t].window] # NoSession
               PROVE  /\ CurrentIn(sessions, cs[t].window, cs[t].session)
                      /\ cs[t].op # NoOp => IsActive(os[OpKeyOf(cs[t])], t)
    OBVIOUS
  <2>1. cs[t] = claims[t] /\ claims[t] # NoClaim /\ t \notin T
    BY <1>0, <1>1
  <2>2. ASSUME claims[t].op # NoOp PROVE OpKeyOf(claims[t]) \notin OperationsOf(T)
    <3> SUFFICES ASSUME NEW u \in T, claims[u].op # NoOp, OpKeyOf(claims[u]) = OpKeyOf(claims[t])
                 PROVE  FALSE
      BY DEF OperationsOf
    <3>1. u \in Tokens /\ claims[u] # NoClaim
      BY DEF Held
    <3>2. u = t
      BY <1>3, <2>1, <3>1, FenceSeparates
    <3> QED
      BY <2>1, <3>2
  <2>3. claims[t].op # NoOp => OpKeyOf(claims[t]) \in OpKeys
    BY <1>2, <2>1, ClaimKey
  <2> QED
    BY <2>1, <2>2, <2>3 DEF Fence
<1> QED
  BY <1>4, <1>5, <1>6, <1>7 DEF Fence
\* A window that ends its session keeps at most what it owns, and none of its operations.
LEMMA EndedFence ==
  ASSUME TypeOK, Fence(claims, operations, sessions), NEW w \in Windows, NEW T,
         T \subseteq Held, PendingOf(w) \subseteq T, \A t \in T : claims[t].window = w
  PROVE  Fence(ClaimsWithout(T), [o \in OpKeys |-> IF o[1] = w THEN Absent ELSE operations[o]],
               [sessions EXCEPT ![w] = NoSession])
<1> DEFINE cs == ClaimsWithout(T)
           os == [o \in OpKeys |-> IF o[1] = w THEN Absent ELSE operations[o]]
           ss == [sessions EXCEPT ![w] = NoSession]
<1>1. \A t \in Tokens : (cs[t] = NoClaim) <=> (claims[t] = NoClaim \/ t \in T)
  BY WithoutKeeps
<1>2. \A t \in Tokens : cs[t] # NoClaim => cs[t] = claims[t]
  BY WithoutKeeps
<1>3. \A t \in Tokens : claims[t] # NoClaim => claims[t] \in Claim
  BY DEF TypeOK
<1>4. \A v \in Windows : ss[v] = IF v = w THEN NoSession ELSE sessions[v]
  BY DEF TypeOK
<1>5. \A t \in Tokens : cs[t] # NoClaim /\ cs[t].window = w => cs[t].owned
  BY <1>1, <1>2 DEF PendingOf, Held
<1>6. \A o \in OpKeys : os[o] # Absent => CurrentIn(ss, o[1], o[2])
  BY <1>4, OpKeyParts DEF Fence, CurrentIn
<1>7. \A o \in OpKeys : os[o] # Absent /\ os[o].status = "active" =>
        os[o].claim \in Tokens /\ cs[os[o].claim] # NoClaim /\ OpKeyOf(cs[os[o].claim]) = o
  <2> SUFFICES ASSUME NEW o \in OpKeys, os[o] # Absent, os[o].status = "active"
               PROVE  /\ os[o].claim \in Tokens
                      /\ cs[os[o].claim] # NoClaim
                      /\ OpKeyOf(cs[os[o].claim]) = o
    OBVIOUS
  <2>1. o[1] # w /\ os[o] = operations[o]
    OBVIOUS
  <2>2. /\ operations[o].claim \in Tokens
        /\ claims[operations[o].claim] # NoClaim
        /\ OpKeyOf(claims[operations[o].claim]) = o
    BY <2>1 DEF Fence
  <2>3. operations[o].claim \notin T
    BY <1>3, <2>1, <2>2, ClaimKey
  <2> QED
    BY <1>1, <1>2, <2>1, <2>2, <2>3
<1>8. \A t \in Tokens : cs[t] # NoClaim /\ ~cs[t].owned =>
        cs[t].op # NoOp /\ CurrentIn(ss, cs[t].window, cs[t].session)
  BY <1>1, <1>2, <1>3, <1>4, <1>5, ClaimKey DEF Fence, CurrentIn
<1>9. \A t \in Tokens : cs[t] # NoClaim /\ ss[cs[t].window] # NoSession =>
        /\ CurrentIn(ss, cs[t].window, cs[t].session)
        /\ cs[t].op # NoOp => IsActive(os[OpKeyOf(cs[t])], t)
  <2> SUFFICES ASSUME NEW t \in Tokens, cs[t] # NoClaim, ss[cs[t].window] # NoSession
               PROVE  /\ CurrentIn(ss, cs[t].window, cs[t].session)
                      /\ cs[t].op # NoOp => IsActive(os[OpKeyOf(cs[t])], t)
    OBVIOUS
  <2>1. cs[t] = claims[t] /\ claims[t] # NoClaim /\ claims[t] \in Claim
    BY <1>1, <1>2, <1>3
  <2>2. claims[t].window # w /\ ss[claims[t].window] = sessions[claims[t].window]
    BY <1>4, <2>1, ClaimKey
  <2>3. claims[t].op # NoOp => os[OpKeyOf(claims[t])] = operations[OpKeyOf(claims[t])]
    BY <2>1, <2>2, ClaimKey
  <2> QED
    BY <2>1, <2>2, <2>3 DEF Fence, CurrentIn
<1> QED
  BY <1>6, <1>7, <1>8, <1>9 DEF Fence

\* The session reserve finds or begins is fenced, before the reservation itself is made.
LEMMA EnsuredFence ==
  ASSUME TypeOK, Fence(claims, operations, sessions), NEW w \in Windows, NEW s \in SessionIds,
         ~SessionRefuses(w, s), EnsureSession(w, s)
  PROVE  /\ Fence(EnsuredClaims(w, s), EnsuredOperations(w, s), sessions')
         /\ CurrentIn(sessions', w, s)
         /\ EnsuredClaims(w, s) \in ClaimsType
         /\ EnsuredOperations(w, s) \in OperationsType
         /\ sessions' \in SessionsType
<1>1. /\ EnsuredClaims(w, s) \in ClaimsType
      /\ EnsuredOperations(w, s) \in OperationsType
      /\ sessions' \in SessionsType
  BY EnsureTypes DEF ClaimsType, OperationsType, SessionsType
<1>2. CASE sessions[w] = NoSession
  <2> DEFINE g == SessionGeneration(w, s)
  <2>1. g \in ActiveSession /\ g.id = s
    BY <1>2, SessionGenerationType DEF SessionRefuses, SessionGeneration
  <2>2. claims \in ClaimsType /\ operations \in OperationsType /\ sessions \in SessionsType
    BY DEF TypeOK, ClaimsType, OperationsType, SessionsType
  <2>3. \A t \in Tokens : claims[t] # NoClaim /\ claims[t].window = w => claims[t].owned
    BY <1>2 DEF Fence, CurrentIn
  <2>4. ~CurrentIn(sessions, w, s)
    BY <1>2 DEF CurrentIn
  <2>5. sessions' = [sessions EXCEPT ![w] = g]
    BY <1>2 DEF EnsureSession
  <2>6. Fence(Rebound(claims, w, s), OfOneSession(operations, w, s), sessions')
    BY <2>1, <2>2, <2>3, <2>4, <2>5, BegunFence
  <2>7. CurrentIn(sessions', w, s)
    BY <2>1, <2>2, <2>5, NullAssumption DEF CurrentIn, SessionsType
  <2> QED
    BY <1>1, <1>2, <2>6, <2>7 DEF EnsuredClaims, EnsuredOperations
<1>3. CASE sessions[w] # NoSession
  BY <1>1, <1>3 DEF EnsureSession, SessionRefuses, EnsuredClaims, EnsuredOperations, CurrentIn
<1> QED
  BY <1>2, <1>3

\* A claim the window owns passes from the operation it had to one the registry did not know.
LEMMA BoundFence ==
  ASSUME NEW cs \in ClaimsType, NEW os \in OperationsType, NEW ss \in SessionsType,
         Fence(cs, os, ss), NEW t \in Tokens, NEW w \in Windows, NEW s \in SessionIds,
         NEW o \in OpIds, Bindable(cs, os, t, w, s), CurrentIn(ss, w, s),
         os[<<w, s, o>>] = Absent
  PROVE  Fence([cs EXCEPT ![t].op = o],
               [k \in OpKeys |-> IF k = <<w, s, o>> THEN Active(t)
                                 ELSE IF k = OpKeyOf(cs[t]) THEN Absent ELSE os[k]],
               ss)
<1> DEFINE n   == <<w, s, o>>
           cs2 == [cs EXCEPT ![t].op = o]
           os2 == [k \in OpKeys |-> IF k = n THEN Active(t)
                                    ELSE IF k = OpKeyOf(cs[t]) THEN Absent ELSE os[k]]
<1>1. n \in OpKeys /\ n[1] = w /\ n[2] = s
  BY OpKeyParts
<1>2. cs[t] \in Claim /\ cs[t].owned /\ cs[t].window = w /\ cs[t].session = s
  BY DEF Bindable, ClaimsType
<1>3. /\ cs2[t] \in Claim /\ cs2[t] # NoClaim
      /\ cs2[t].window = w /\ cs2[t].session = s /\ cs2[t].op = o /\ cs2[t].owned
  <2>1. cs2[t] = [cs[t] EXCEPT !.op = o]
    BY DEF ClaimsType
  <2> QED
    BY <1>2, <2>1, NullAssumption DEF Claim
<1>4. OpKeyOf(cs2[t]) = n
  BY <1>3 DEF OpKeyOf
<1>5. \A u \in Tokens \ {t} : cs2[u] = cs[u]
  BY DEF ClaimsType
<1>6. Active(t) # Absent /\ IsActive(Active(t), t) /\ Active(t).claim = t
  BY NullAssumption DEF Active, IsActive, OperationState
<1>7. \A k \in OpKeys : os2[k] # Absent => CurrentIn(ss, k[1], k[2])
  BY <1>1 DEF Fence
<1>8. \A k \in OpKeys : os2[k] # Absent /\ os2[k].status = "active" =>
        os2[k].claim \in Tokens /\ cs2[os2[k].claim] # NoClaim /\ OpKeyOf(cs2[os2[k].claim]) = k
  <2> SUFFICES ASSUME NEW k \in OpKeys, os2[k] # Absent, os2[k].status = "active"
               PROVE  /\ os2[k].claim \in Tokens
                      /\ cs2[os2[k].claim] # NoClaim
                      /\ OpKeyOf(cs2[os2[k].claim]) = k
    OBVIOUS
  <2>1. CASE k = n
    BY <1>3, <1>4, <1>6, <2>1
  <2>2. CASE k # n
    <3>1. os2[k] = os[k] /\ k # OpKeyOf(cs[t])
      BY <2>2
    <3>2. os[k].claim \in Tokens /\ cs[os[k].claim] # NoClaim /\ OpKeyOf(cs[os[k].claim]) = k
      BY <3>1 DEF Fence
    <3>3. os[k].claim # t
      BY <3>1, <3>2
    <3> QED
      BY <1>5, <3>1, <3>2, <3>3
  <2> QED
    BY <2>1, <2>2
<1>9. \A u \in Tokens : cs2[u] # NoClaim /\ ~cs2[u].owned =>
        cs2[u].op # NoOp /\ CurrentIn(ss, cs2[u].window, cs2[u].session)
  BY <1>3, <1>5 DEF Fence
<1>10. \A u \in Tokens : cs2[u] # NoClaim /\ ss[cs2[u].window] # NoSession =>
        /\ CurrentIn(ss, cs2[u].window, cs2[u].session)
        /\ cs2[u].op # NoOp => IsActive(os2[OpKeyOf(cs2[u])], u)
  <2> SUFFICES ASSUME NEW u \in Tokens, cs2[u] # NoClaim, ss[cs2[u].window] # NoSession
               PROVE  /\ CurrentIn(ss, cs2[u].window, cs2[u].session)
                      /\ cs2[u].op # NoOp => IsActive(os2[OpKeyOf(cs2[u])], u)
    OBVIOUS
  <2>1. CASE u = t
    BY <1>1, <1>3, <1>4, <1>6, <2>1
  <2>2. CASE u # t
    <3>1. cs2[u] = cs[u] /\ cs[u] \in Claim /\ cs[u] # NoClaim
      BY <1>5, <2>2 DEF ClaimsType
    <3>2. ASSUME cs[u].op # NoOp PROVE os2[OpKeyOf(cs[u])] = os[OpKeyOf(cs[u])]
      <4>1. OpKeyOf(cs[u]) \in OpKeys
        BY <3>1, <3>2, ClaimKey
      <4>2. IsActive(os[OpKeyOf(cs[u])], u)
        BY <3>1, <3>2 DEF Fence
      <4>3. OpKeyOf(cs[u]) # n
        BY <4>2 DEF IsActive
      <4>4. OpKeyOf(cs[u]) # OpKeyOf(cs[t])
        BY <1>2, <2>2, <3>1, <3>2, FenceSeparates, NullAssumption
      <4> QED
        BY <4>1, <4>3, <4>4
    <3> QED
      BY <3>1, <3>2 DEF Fence
  <2> QED
    BY <2>1, <2>2
<1> QED
  BY <1>7, <1>8, <1>9, <1>10 DEF Fence

\* A new reservation of an active session for an operation the registry did not know.
LEMMA GrantedFence ==
  ASSUME NEW cs \in ClaimsType, NEW os \in OperationsType, NEW ss \in SessionsType,
         Fence(cs, os, ss), NEW n \in Tokens, NEW c \in Claim, cs[n] = NoClaim,
         c.op # NoOp, CurrentIn(ss, c.window, c.session), os[OpKeyOf(c)] = Absent
  PROVE  Fence([cs EXCEPT ![n] = c], [os EXCEPT ![OpKeyOf(c)] = Active(n)], ss)
<1> DEFINE k   == OpKeyOf(c)
           cs2 == [cs EXCEPT ![n] = c]
           os2 == [os EXCEPT ![k] = Active(n)]
<1>1. k \in OpKeys /\ k[1] = c.window /\ k[2] = c.session
  BY ClaimKey
<1>2. cs2[n] = c /\ \A u \in Tokens \ {n} : cs2[u] = cs[u]
  BY DEF ClaimsType
<1>3. os2[k] = Active(n) /\ \A l \in OpKeys \ {k} : os2[l] = os[l]
  BY <1>1 DEF OperationsType
<1>4. c # NoClaim /\ Active(n) # Absent /\ IsActive(Active(n), n) /\ Active(n).claim = n
  BY NullAssumption DEF Active, IsActive, OperationState
<1>5. \A l \in OpKeys : os2[l] # Absent => CurrentIn(ss, l[1], l[2])
  BY <1>1, <1>3 DEF Fence
<1>6. \A l \in OpKeys : os2[l] # Absent /\ os2[l].status = "active" =>
        os2[l].claim \in Tokens /\ cs2[os2[l].claim] # NoClaim /\ OpKeyOf(cs2[os2[l].claim]) = l
  <2> SUFFICES ASSUME NEW l \in OpKeys, os2[l] # Absent, os2[l].status = "active"
               PROVE  /\ os2[l].claim \in Tokens
                      /\ cs2[os2[l].claim] # NoClaim
                      /\ OpKeyOf(cs2[os2[l].claim]) = l
    OBVIOUS
  <2>1. CASE l = k
    BY <1>2, <1>3, <1>4, <2>1
  <2>2. CASE l # k
    <3>1. os2[l] = os[l]
      BY <1>3, <2>2
    <3>2. os[l].claim \in Tokens /\ cs[os[l].claim] # NoClaim /\ OpKeyOf(cs[os[l].claim]) = l
      BY <3>1 DEF Fence
    <3> QED
      BY <1>2, <3>1, <3>2
  <2> QED
    BY <2>1, <2>2
<1>7. \A u \in Tokens : cs2[u] # NoClaim /\ ~cs2[u].owned =>
        cs2[u].op # NoOp /\ CurrentIn(ss, cs2[u].window, cs2[u].session)
  BY <1>2 DEF Fence
<1>8. \A u \in Tokens : cs2[u] # NoClaim /\ ss[cs2[u].window] # NoSession =>
        /\ CurrentIn(ss, cs2[u].window, cs2[u].session)
        /\ cs2[u].op # NoOp => IsActive(os2[OpKeyOf(cs2[u])], u)
  <2> SUFFICES ASSUME NEW u \in Tokens, cs2[u] # NoClaim, ss[cs2[u].window] # NoSession
               PROVE  /\ CurrentIn(ss, cs2[u].window, cs2[u].session)
                      /\ cs2[u].op # NoOp => IsActive(os2[OpKeyOf(cs2[u])], u)
    OBVIOUS
  <2>1. CASE u = n
    BY <1>2, <1>3, <1>4, <2>1
  <2>2. CASE u # n
    <3>1. cs2[u] = cs[u] /\ cs[u] \in Claim
      BY <1>2, <2>2 DEF ClaimsType
    <3>2. ASSUME cs[u].op # NoOp PROVE os2[OpKeyOf(cs[u])] = os[OpKeyOf(cs[u])]
      <4>1. IsActive(os[OpKeyOf(cs[u])], u) /\ OpKeyOf(cs[u]) \in OpKeys
        BY <3>1, <3>2, ClaimKey DEF Fence
      <4> QED
        BY <1>3, <4>1 DEF IsActive
    <3> QED
      BY <3>1, <3>2 DEF Fence
  <2> QED
    BY <2>1, <2>2
<1> QED
  BY <1>5, <1>6, <1>7, <1>8 DEF Fence

\* A reservation that becomes the document of its window.
LEMMA OwnedFence ==
  ASSUME NEW cs \in ClaimsType, NEW os \in OperationsType, NEW ss \in SessionsType,
         Fence(cs, os, ss), NEW t \in Tokens, cs[t] # NoClaim
  PROVE  Fence([cs EXCEPT ![t].owned = TRUE], os, ss)
<1> DEFINE cs2 == [cs EXCEPT ![t].owned = TRUE]
<1>1. \A u \in Tokens \ {t} : cs2[u] = cs[u]
  BY DEF ClaimsType
<1>2. /\ cs2[t] # NoClaim /\ cs2[t].owned
      /\ cs2[t].window = cs[t].window /\ cs2[t].session = cs[t].session /\ cs2[t].op = cs[t].op
  <2>1. cs[t] \in Claim /\ cs2[t] = [cs[t] EXCEPT !.owned = TRUE]
    BY DEF ClaimsType
  <2>2. cs2[t] \in Claim
    BY <2>1 DEF Claim
  <2> QED
    BY <2>1, <2>2, NullAssumption DEF Claim
<1>3. OpKeyOf(cs2[t]) = OpKeyOf(cs[t])
  BY <1>2 DEF OpKeyOf
<1>4. \A o \in OpKeys : os[o] # Absent /\ os[o].status = "active" =>
        os[o].claim \in Tokens /\ cs2[os[o].claim] # NoClaim /\ OpKeyOf(cs2[os[o].claim]) = o
  BY <1>1, <1>2, <1>3 DEF Fence
<1>5. \A u \in Tokens : cs2[u] # NoClaim /\ ~cs2[u].owned =>
        cs2[u].op # NoOp /\ CurrentIn(ss, cs2[u].window, cs2[u].session)
  BY <1>1, <1>2 DEF Fence
<1>6. \A u \in Tokens : cs2[u] # NoClaim /\ ss[cs2[u].window] # NoSession =>
        /\ CurrentIn(ss, cs2[u].window, cs2[u].session)
        /\ cs2[u].op # NoOp => IsActive(os[OpKeyOf(cs2[u])], u)
  BY <1>1, <1>2, <1>3 DEF Fence
<1> QED
  BY <1>4, <1>5, <1>6 DEF Fence
-----------------------------------------------------------------------------
(* Every step keeps the sessions' fence.                                   *)

\* The fence is the property it was made from, before a step and after it.
LEMMA FenceMeaning ==
  /\ SessionsFenceClaims => Fence(claims, operations, sessions)
  /\ Fence(claims', operations', sessions') => SessionsFenceClaims'
<1>1. SessionsFenceClaims => Fence(claims, operations, sessions)
  <2> SUFFICES ASSUME SessionsFenceClaims PROVE Fence(claims, operations, sessions)
    OBVIOUS
  <2>1. \A o \in OpKeys : operations[o] # Absent => CurrentIn(sessions, o[1], o[2])
    <3> SUFFICES ASSUME NEW o \in OpKeys, operations[o] # Absent
                 PROVE  CurrentIn(sessions, o[1], o[2])
      OBVIOUS
    <3>1. operations[<<o[1], o[2], o[3]>>] # Absent
      BY OpKeyParts
    <3> QED
      BY <3>1, OpKeyParts DEF SessionsFenceClaims, OperationsAreCurrent, IsCurrent, CurrentIn
  <2> QED
    BY <2>1 DEF SessionsFenceClaims, ActiveOperationsHaveClaims, ReservationsAreCurrent,
                ClaimsKnowTheirOperation, IsCurrent, CurrentIn, Held, Fence
<1>2. Fence(claims', operations', sessions') => SessionsFenceClaims'
  <2> SUFFICES ASSUME Fence(claims', operations', sessions') PROVE SessionsFenceClaims'
    OBVIOUS
  <2>1. OperationsAreCurrent'
    BY OpKeyParts DEF Fence, OperationsAreCurrent, IsCurrent, CurrentIn, OpKeys
  <2>2. ActiveOperationsHaveClaims' /\ ReservationsAreCurrent' /\ ClaimsKnowTheirOperation'
    BY DEF Fence, ActiveOperationsHaveClaims, ReservationsAreCurrent, ClaimsKnowTheirOperation,
           IsCurrent, CurrentIn, Held, OpKeyOf, IsActive
  <2> QED
    BY <2>1, <2>2 DEF SessionsFenceClaims
<1> QED
  BY <1>1, <1>2

\* The operations of a set of claims change as RemovedFence asks, remembered or forgotten.
LEMMA ForgettingOperations ==
  ASSUME TypeOK, NEW T, T \subseteq Held
  PROVE  /\ OperationsForgetting(T) \in OperationsType
         /\ OperationsReleasing(T) \in OperationsType
         /\ \A o \in OpKeys :
              /\ o \notin OperationsOf(T) => /\ OperationsForgetting(T)[o] = operations[o]
                                             /\ OperationsReleasing(T)[o] = operations[o]
              /\ o \in OperationsOf(T) => /\ OperationsForgetting(T)[o] = Absent
                                          /\ OperationsReleasing(T)[o].status = "released"
<1>1. OperationsForgetting(T) \in OperationsType /\ OperationsReleasing(T) \in OperationsType
  BY RemovalTypes, ReleasingTypes DEF OperationsType
<1> QED
  BY <1>1 DEF OperationsForgetting, OperationsReleasing, Released

\* Claims released one by one, by the window's own call.
LEMMA ReleasedFence ==
  ASSUME TypeOK, Fence(claims, operations, sessions), NEW T, T \subseteq Held,
         \A t \in T : sessions[claims[t].window] # NoSession
  PROVE  Fence(ClaimsWithout(T), OperationsReleasing(T), sessions)
BY ForgettingOperations, RemovedFence

LEMMA SessionStepFence ==
  TypeOK /\ SessionsFenceClaims /\ SessionStep => SessionsFenceClaims'
<1> SUFFICES ASSUME TypeOK, SessionsFenceClaims, SessionStep
             PROVE  Fence(claims', operations', sessions')
  BY FenceMeaning
<1>1. Fence(claims, operations, sessions)
  BY FenceMeaning
<1>2. claims \in ClaimsType /\ operations \in OperationsType /\ sessions \in SessionsType
  BY DEF TypeOK, ClaimsType, OperationsType, SessionsType
<1>3. ASSUME NEW w \in Windows, CreateWindow(w) PROVE Fence(claims', operations', sessions')
  BY <1>1, <1>3 DEF CreateWindow, registry
<1>4. ASSUME NEW w \in Windows, DestroyWindow(w) PROVE Fence(claims', operations', sessions')
  <2> DEFINE T == OwnedBy(w) \cup PendingOf(w)
  <2>1. T \subseteq Held /\ PendingOf(w) \subseteq T /\ \A t \in T : claims[t].window = w
    BY DEF OwnedBy, PendingOf
  <2> QED
    BY <1>1, <1>4, <2>1, EndedFence DEF DestroyWindow
<1>5. ASSUME NEW w \in Windows, NEW s \in SessionIds, BeginSession(w, s)
      PROVE  Fence(claims', operations', sessions')
  <2>1. \A t \in Tokens : claims[t] # NoClaim /\ claims[t].window = w => claims[t].owned
    BY <1>1, <1>5 DEF BeginSession, Fence, CurrentIn
  <2>2. SessionGeneration(w, s) \in ActiveSession /\ SessionGeneration(w, s).id = s
    BY <1>5, SessionGenerationType DEF BeginSession, SessionGeneration
  <2>3. ~CurrentIn(sessions, w, s)
    BY <1>5 DEF BeginSession, CurrentIn
  <2> QED
    BY <1>1, <1>2, <1>5, <2>1, <2>2, <2>3, BegunFence DEF BeginSession
<1>6. ASSUME NEW w \in Windows, NEW s \in SessionIds, ReleaseSession(w, s)
      PROVE  Fence(claims', operations', sessions')
  <2> DEFINE T == {t \in PendingOf(w) : claims[t].session = s}
  <2>1. CurrentIn(sessions, w, s)
    BY <1>6 DEF ReleaseSession, IsCurrent, CurrentIn
  <2>2. T = PendingOf(w)
    BY <1>1, <2>1 DEF PendingOf, Held, Fence, CurrentIn
  <2>3. T \subseteq Held /\ PendingOf(w) \subseteq T /\ \A t \in T : claims[t].window = w
    BY <2>2 DEF PendingOf
  <2>4. operations' = [o \in OpKeys |-> IF o[1] = w THEN Absent ELSE operations[o]]
    <3>1. \A o \in OpKeys : o[1] = w /\ o[2] # s => operations[o] = Absent
      BY <1>1, <2>1 DEF Fence, CurrentIn
    <3> QED
      BY <1>2, <1>6, <3>1 DEF ReleaseSession, OperationsType
  <2>5. claims' = ClaimsWithout(T) /\ sessions' = [sessions EXCEPT ![w] = NoSession]
    BY <1>6 DEF ReleaseSession
  <2> HIDE DEF T
  <2> QED
    BY <1>1, <2>3, <2>4, <2>5, EndedFence
<1>7. ASSUME NEW r \in Threads, TakeoverSession(r) PROVE Fence(claims', operations', sessions')
  <2> DEFINE w == calls[r].window
             s == calls[r].session
             T == PendingOf(w)
  <2>1. w \in Windows /\ s \in SessionIds
    <3>1. calls[r] \in TakeoverCall
      BY <1>7 DEF TakeoverSession, Running, TypeOK, DocumentCall
    <3> QED
      BY <3>1 DEF TakeoverCall
  <2>2. sessions[w] # NoSession /\ sessions[w].id # s /\ GenerationAvailable
    BY <1>7 DEF TakeoverSession, TakeoverAllowed
  <2>3. /\ claims' = Rebound(ClaimsWithout(T), w, s)
        /\ operations' = OfOneSession(OperationsForgetting(T), w, s)
        /\ sessions' = [sessions EXCEPT ![w] = SessionGeneration(w, s)]
    BY <1>7 DEF TakeoverSession
  <2>4. T \subseteq Held /\ \A t \in T : sessions[claims[t].window] # NoSession
    BY <2>2 DEF PendingOf
  <2>5. Fence(ClaimsWithout(T), OperationsForgetting(T), sessions)
    BY <1>1, <2>4, ForgettingOperations, RemovedFence
  <2>6. ClaimsWithout(T) \in ClaimsType /\ OperationsForgetting(T) \in OperationsType
    BY RemovalTypes DEF ClaimsType, OperationsType
  <2>7. \A t \in Tokens : ClaimsWithout(T)[t] # NoClaim /\ ClaimsWithout(T)[t].window = w
                            => ClaimsWithout(T)[t].owned
    BY DEF ClaimsWithout, PendingOf, Held
  <2>8. SessionGeneration(w, s) \in ActiveSession /\ SessionGeneration(w, s).id = s
    BY <2>1, <2>2, SessionGenerationType DEF SessionGeneration
  <2>9. ~CurrentIn(sessions, w, s)
    BY <2>2 DEF CurrentIn
  <2> QED
    BY <1>2, <2>1, <2>3, <2>5, <2>6, <2>7, <2>8, <2>9, BegunFence
<1>8. ASSUME NEW r \in Threads,
             RefuseTakeover(r) \/ \E w \in Windows, s \in SessionIds : RefuseSession(r, w, s)
      PROVE  Fence(claims', operations', sessions')
  BY <1>1, <1>8 DEF RefuseTakeover, RefuseSession, registry
<1> QED
  BY <1>3, <1>4, <1>5, <1>6, <1>7, <1>8 DEF SessionStep

LEMMA ThreadStepFence ==
  TypeOK /\ IndexConsistent /\ SessionsFenceClaims /\ CallsNameOperations
    /\ (\E r \in Threads : ThreadStep(r)) => SessionsFenceClaims'
<1> SUFFICES ASSUME TypeOK, IndexConsistent, SessionsFenceClaims, CallsNameOperations,
                    NEW r \in Threads, ThreadStep(r)
             PROVE  Fence(claims', operations', sessions')
  BY FenceMeaning
<1> DEFINE w == calls[r].window
           s == calls[r].session
           o == calls[r].op
<1>1. Fence(claims, operations, sessions)
  BY FenceMeaning
<1>2. claims \in ClaimsType /\ operations \in OperationsType /\ sessions \in SessionsType
  BY DEF TypeOK, ClaimsType, OperationsType, SessionsType
<1>3. ASSUME Running(r, "reserve", "enter"), ~SessionRefuses(w, s), EnsureSession(w, s)
      PROVE  /\ w \in Windows /\ s \in SessionIds /\ o \in OpIds
             /\ calls[r].path \in Keys /\ calls[r].target \in Keys
             /\ Fence(EnsuredClaims(w, s), EnsuredOperations(w, s), sessions')
             /\ CurrentIn(sessions', w, s)
             /\ EnsuredClaims(w, s) \in ClaimsType
             /\ EnsuredOperations(w, s) \in OperationsType
             /\ sessions' \in SessionsType
  <2>1. w \in Windows /\ s \in SessionIds /\ calls[r].path \in Keys /\ calls[r].target \in Keys
    BY <1>3, RunningType, KeyAssumption DEF DocumentCall
  <2>2. o \in OpIds
    BY <1>3 DEF Running, CallsNameOperations
  <2> QED
    BY <1>1, <1>3, <2>1, <2>2, EnsuredFence
<1>4. CASE AnswerReserve(r)
  BY <1>3, <1>4 DEF AnswerReserve
<1>5. CASE BindReserve(r)
  <2>1. Running(r, "reserve", "enter") /\ ~SessionRefuses(w, s) /\ EnsureSession(w, s)
    BY <1>5 DEF BindReserve
  <2>2. PICK t \in Tokens :
          /\ Bindable(EnsuredClaims(w, s), EnsuredOperations(w, s), t, w, s)
          /\ claims' = [EnsuredClaims(w, s) EXCEPT ![t].op = o]
          /\ operations' = [k \in OpKeys |->
               IF k = <<w, s, o>> THEN Active(t)
               ELSE IF k = OpKeyOf(EnsuredClaims(w, s)[t]) THEN Absent
               ELSE EnsuredOperations(w, s)[k]]
    BY <1>5 DEF BindReserve
  <2>3. EnsuredOperations(w, s)[<<w, s, o>>] = Absent
    BY <1>5 DEF BindReserve, Unknown
  <2> QED
    BY <1>3, <2>1, <2>2, <2>3, BoundFence
<1>6. CASE GrantReserve(r)
  <2> DEFINE c == [window |-> w, session |-> s, op |-> o,
                   lexical |-> calls[r].path, resolved |-> calls[r].target, owned |-> FALSE]
             cs == EnsuredClaims(w, s)
             os == EnsuredOperations(w, s)
             n  == nextSequence
  <2>1. Running(r, "reserve", "enter") /\ ~SessionRefuses(w, s) /\ EnsureSession(w, s)
    BY <1>6 DEF GrantReserve
  <2>2. c \in Claim /\ c.op # NoOp /\ OpKeyOf(c) = <<w, s, o>> /\ c.window = w /\ c.session = s
    BY <1>3, <2>1, NullAssumption DEF Claim, OpKeyOf
  <2>3. n \in Tokens /\ cs[n] = NoClaim
    <3>1. n \in Tokens /\ claims[n] = NoClaim
      BY <1>6, SequenceAssumption
      DEF GrantReserve, Tokens, TypeOK, IndexConsistent, TokensAreFresh, Held
    <3> QED
      BY <1>3, <2>1, <3>1, EnsuredKeeps
  <2>4. os[OpKeyOf(c)] = Absent
    BY <1>6, <2>2 DEF GrantReserve, Unknown
  <2>5. claims' = [cs EXCEPT ![n] = c] /\ operations' = [os EXCEPT ![OpKeyOf(c)] = Active(n)]
    BY <1>6, <2>2 DEF GrantReserve, Resolved
  <2>6. Fence(cs, os, sessions') /\ CurrentIn(sessions', c.window, c.session)
        /\ cs \in ClaimsType /\ os \in OperationsType /\ sessions' \in SessionsType
    BY <1>3, <2>1, <2>2
  <2> HIDE DEF c, cs, os, n
  <2> QED
    BY <2>2, <2>3, <2>4, <2>5, <2>6, GrantedFence
<1>7. CASE Commit(r)
  <2>1. PICK t \in Held :
          /\ CommitPasses(r, t)
          /\ claims' = [ClaimsWithout(Superseded(w, t)) EXCEPT ![t].owned = TRUE]
          /\ operations' = OperationsReleasing(Superseded(w, t))
          /\ UNCHANGED sessions
    BY <1>7 DEF Commit
  <2> DEFINE T == Superseded(w, t)
  <2>2. sessions[w] # NoSession
    BY <2>1 DEF CommitPasses, CommitAllowed, MayActFor, IsCurrent
  <2>3. T \subseteq Held /\ t \notin T /\ \A u \in T : claims[u].window = w
    BY DEF Superseded, OwnedBy
  <2>4. Fence(ClaimsWithout(T), OperationsReleasing(T), sessions)
    BY <1>1, <2>2, <2>3, ReleasedFence
  <2>5. /\ ClaimsWithout(T) \in ClaimsType /\ OperationsReleasing(T) \in OperationsType
        /\ t \in Tokens /\ ClaimsWithout(T)[t] # NoClaim
    BY <2>3, RemovalTypes, ForgettingOperations, WithoutKeeps DEF ClaimsType, Held
  <2> HIDE DEF T
  <2>6. Fence([ClaimsWithout(T) EXCEPT ![t].owned = TRUE], OperationsReleasing(T), sessions)
    BY <1>2, <2>4, <2>5, OwnedFence
  <2> QED
    BY <2>1, <2>6 DEF T
<1>8. CASE YieldOwned(r)
  <2>1. PICK t \in Held : /\ YieldPasses(r, t)
                          /\ claims' = ClaimsWithout({t})
                          /\ operations' = OperationsReleasing({t})
                          /\ UNCHANGED sessions
    BY <1>8 DEF YieldOwned
  <2>2. sessions[claims[t].window] # NoSession
    BY <2>1 DEF YieldPasses, IsCurrent
  <2>3. Fence(ClaimsWithout({t}), OperationsReleasing({t}), sessions)
    BY <1>1, <2>2, ReleasedFence
  <2> QED
    BY <2>1, <2>3
<1>9. CASE \/ Resolve(r) \/ ValidateIo(r) \/ RunIo(r) \/ ReturnIo(r)
           \/ RejectReserve(r) \/ RejectCommit(r) \/ RejectYield(r)
  BY <1>1, <1>9 DEF Resolve, ValidateIo, RunIo, ReturnIo, RejectReserve, RejectCommit, RejectYield, registry
<1> QED
  BY <1>4, <1>5, <1>6, <1>7, <1>8, <1>9 DEF ThreadStep

\* A call that starts leaves the registry alone.
LEMMA StartsLeaveRegistry == StartStep => UNCHANGED registry
<1>1. ASSUME NEW r \in Threads, NEW w \in Windows, NEW s \in SessionIds, NEW o \in OpIds,
             NEW p \in Paths,
             StartReserve(r, w, s, o, p) \/ StartCommit(r, w, s, o, p) \/ StartIo(r, w, s, o, p)
      PROVE  UNCHANGED registry
  BY <1>1 DEF StartReserve, StartCommit, StartIo, registry
<1>2. ASSUME NEW r \in Threads, NEW w \in Windows, NEW s \in SessionIds, NEW p \in Paths,
             StartYield(r, w, s, p)
      PROVE  UNCHANGED registry
  BY <1>2 DEF StartYield, registry
<1> QED
  BY <1>1, <1>2 DEF StartStep

LEMMA NextFence ==
  TypeOK /\ IndexConsistent /\ SessionsFenceClaims /\ CallsNameOperations /\ [Next]_vars
    => SessionsFenceClaims'
<1> SUFFICES ASSUME TypeOK, IndexConsistent, SessionsFenceClaims, CallsNameOperations, [Next]_vars
             PROVE  SessionsFenceClaims'
  OBVIOUS
<1>1. ASSUME UNCHANGED registry PROVE SessionsFenceClaims'
  BY <1>1, FenceMeaning DEF registry
<1>2. CASE StartStep
  BY <1>1, <1>2, StartsLeaveRegistry
<1>3. ASSUME NEW w \in Windows, NEW s \in SessionIds, NEW o \in OpIds, NEW p \in Paths,
             ReleaseOperation(w, s, o, p)
      PROVE  SessionsFenceClaims'
  <2>1. PICK t \in Held : /\ MayActFor(w, s, o, t)
                          /\ claims' = ClaimsWithout({t})
                          /\ operations' = OperationsReleasing({t})
                          /\ UNCHANGED sessions
    BY <1>3 DEF ReleaseOperation
  <2>2. sessions[claims[t].window] # NoSession
    BY <2>1 DEF MayActFor, IsCurrent, OpKeyOf
  <2> QED
    BY <2>1, <2>2, FenceMeaning, ReleasedFence
<1>4. ASSUME NEW after \in FileSystems, Refit(after) PROVE SessionsFenceClaims'
  BY <1>1, <1>4 DEF Refit
<1>5. CASE UNCHANGED vars
  BY <1>1, <1>5 DEF vars, registry
<1> QED
  BY <1>2, <1>3, <1>4, <1>5, SessionStepFence, ThreadStepFence DEF Next
-----------------------------------------------------------------------------
(* What a step may do to a running call, to a session and to a locked registry.            *)

\* File I/O goes on: it passes its check, it runs, or its path is retargeted between the two.
IoGoesOn(r) ==
  \/ /\ Running(r, "io", "validate")
     /\ IoPasses(calls[r], fs[calls[r].target])
     /\ calls'[r] = [calls[r] EXCEPT !.step = "checked"]
     /\ UNCHANGED fs
  \/ /\ Running(r, "io", "checked")
     /\ calls'[r] = [calls[r] EXCEPT !.step = "ran", !.target = fs[calls[r].target]]
  \/ /\ Running(r, "io", "checked")
     /\ calls'[r] = [calls[r] EXCEPT !.moved = TRUE]

\* A call that gets further leaves the registry alone: it is a takeover that answers a refusal,
\* file I/O that goes on, or a document call that is not file I/O yet to be checked.
LEMMA CallChanges ==
  ASSUME TypeOK, [Next]_vars, NEW r \in Threads, calls'[r] # calls[r], calls'[r] # Idle
  PROVE  /\ UNCHANGED registry
         /\ \/ \E w \in Windows, s \in SessionIds : RefuseSession(r, w, s)
            \/ IoGoesOn(r)
            \/ /\ calls'[r] \in DocumentCall
               /\ calls'[r].step \notin {"checked", "ran"}
               /\ \/ calls'[r].op \in OpIds
                  \/ calls'[r].kind = "yield"
                  \/ /\ calls[r] # Idle
                     /\ calls'[r].kind = calls[r].kind /\ calls'[r].op = calls[r].op
<1> DEFINE Further ==
      /\ calls'[r] \in DocumentCall
      /\ calls'[r].step \notin {"checked", "ran"}
      /\ \/ calls'[r].op \in OpIds
         \/ calls'[r].kind = "yield"
         \/ calls[r] # Idle /\ calls'[r].kind = calls[r].kind /\ calls'[r].op = calls[r].op
<1>1. ASSUME NEW q \in Threads, NEW c, Begin(q, c) PROVE q = r /\ calls'[r] = c
  BY <1>1 DEF Begin, TypeOK
<1>2. ASSUME NEW q \in Threads, Return(q) PROVE FALSE
  BY <1>2 DEF Return, TypeOK
<1>3. ASSUME UNCHANGED calls PROVE FALSE
  BY <1>3
<1>4. ASSUME NEW kind \in {"reserve", "commit", "yield", "io"},
             NEW step \in {"resolve", "validate"},
             NEW w \in Windows, NEW s \in SessionIds, NEW o \in OpIds \cup {NoOp},
             NEW p \in Paths, NEW target \in Keys,
             calls'[r] = Call(kind, step, w, s, o, p, target),
             o \in OpIds \/ kind = "yield"
      PROVE  Further
  BY <1>4 DEF Call, DocumentCall
<1>5. CASE SessionStep
  <2>1. ASSUME NEW w \in Windows, CreateWindow(w) \/ DestroyWindow(w) PROVE FALSE
    BY <1>3, <2>1 DEF CreateWindow, DestroyWindow
  <2>2. ASSUME NEW w \in Windows, NEW s \in SessionIds, BeginSession(w, s) \/ ReleaseSession(w, s)
        PROVE  FALSE
    BY <1>3, <2>2 DEF BeginSession, ReleaseSession
  <2>3. ASSUME NEW q \in Threads, NEW w \in Windows, NEW s \in SessionIds, RefuseSession(q, w, s)
        PROVE  q = r /\ UNCHANGED registry
    BY <1>1, <2>3 DEF RefuseSession
  <2>4. ASSUME NEW q \in Threads, TakeoverSession(q) \/ RefuseTakeover(q) PROVE FALSE
    BY <1>2, <2>4 DEF TakeoverSession, RefuseTakeover
  <2> QED
    BY <1>5, <2>1, <2>2, <2>3, <2>4 DEF SessionStep
<1>6. CASE StartStep
  <2>1. UNCHANGED registry
    BY <1>6, StartsLeaveRegistry
  <2>2. ASSUME NEW q \in Threads, NEW w \in Windows, NEW s \in SessionIds, NEW o \in OpIds,
               NEW p \in Paths, StartReserve(q, w, s, o, p) \/ StartCommit(q, w, s, o, p)
        PROVE  Further
    BY <1>1, <1>4, <2>2, KeyAssumption DEF StartReserve, StartCommit
  <2>3. ASSUME NEW q \in Threads, NEW w \in Windows, NEW s \in SessionIds, NEW o \in OpIds,
               NEW p \in Paths, StartIo(q, w, s, o, p)
        PROVE  Further
    <3>1. fs[p] \in Keys
      BY <2>3, KeyAssumption DEF StartIo, TypeOK
    <3> QED
      BY <1>1, <1>4, <2>3, <3>1 DEF StartIo
  <2>4. ASSUME NEW q \in Threads, NEW w \in Windows, NEW s \in SessionIds, NEW p \in Paths,
               StartYield(q, w, s, p)
        PROVE  Further
    BY <1>1, <1>4, <2>4, KeyAssumption DEF StartYield
  <2> QED
    BY <1>6, <2>1, <2>2, <2>3, <2>4 DEF StartStep
<1>7. ASSUME NEW q \in Threads, ThreadStep(q)
      PROVE  UNCHANGED registry /\ (Further \/ IoGoesOn(r))
  <2>1. CASE Resolve(q)
    <3>1. calls[q] \in DocumentCall /\ calls[q] # Idle
      BY <2>1, RunningType DEF Resolve, Running
    <3>2. CASE fs[calls[q].path] = Unreachable
      BY <1>2, <2>1, <3>2 DEF Resolve
    <3>3. CASE fs[calls[q].path] # Unreachable
      <4>1. q = r /\ calls'[r] = [calls[r] EXCEPT !.step = "enter", !.target = fs[calls[r].path]]
        BY <1>1, <2>1, <3>3 DEF Resolve
      <4>2. fs[calls[r].path] \in Keys
        BY <3>1, <3>3, <4>1, KeyAssumption DEF TypeOK, DocumentCall
      <4>3. Further
        BY <3>1, <4>1, <4>2 DEF DocumentCall
      <4> QED
        BY <2>1, <4>3 DEF Resolve
    <3> QED
      BY <3>2, <3>3
  <2>2. CASE ValidateIo(q) \/ RunIo(q)
    BY <1>1, <1>2, <2>2 DEF ValidateIo, RunIo, IoGoesOn
  <2>3. CASE \/ RejectReserve(q) \/ AnswerReserve(q) \/ BindReserve(q) \/ GrantReserve(q)
             \/ Commit(q) \/ RejectCommit(q) \/ YieldOwned(q) \/ RejectYield(q) \/ ReturnIo(q)
    BY <1>2, <2>3 DEF RejectReserve, AnswerReserve, BindReserve, GrantReserve, Commit,
                      RejectCommit, YieldOwned, RejectYield, ReturnIo
  <2> QED
    BY <1>7, <2>1, <2>2, <2>3 DEF ThreadStep
<1>8. ASSUME NEW w \in Windows, NEW s \in SessionIds, NEW o \in OpIds, NEW p \in Paths,
             ReleaseOperation(w, s, o, p)
      PROVE  FALSE
  BY <1>3, <1>8 DEF ReleaseOperation
<1>9. ASSUME NEW after \in FileSystems, Refit(after) PROVE UNCHANGED registry /\ IoGoesOn(r)
  BY <1>9 DEF Refit, Retargeted, IoGoesOn
<1>10. CASE UNCHANGED vars
  BY <1>3, <1>10 DEF vars
<1> QED
  BY <1>5, <1>6, <1>7, <1>8, <1>9, <1>10 DEF Next

\* A session stays, ends, or is a new one under the next generation.
SessionsMove ==
  \/ UNCHANGED <<sessions, nextGeneration>>
  \/ \E w \in Windows : /\ sessions' = [sessions EXCEPT ![w] = NoSession]
                        /\ UNCHANGED nextGeneration
  \/ \E w \in Windows, s \in SessionIds :
       /\ GenerationAvailable
       /\ sessions' = [sessions EXCEPT ![w] = SessionGeneration(w, s)]
       /\ nextGeneration' = nextGeneration + 1

LEMMA SessionChanges ==
  ASSUME TypeOK, [Next]_vars
  PROVE  SessionsMove
<1>1. CASE SessionStep
  <2>1. ASSUME NEW w \in Windows, CreateWindow(w) \/ DestroyWindow(w) PROVE SessionsMove
    BY <2>1 DEF CreateWindow, DestroyWindow, registry, SessionsMove
  <2>2. ASSUME NEW w \in Windows, NEW s \in SessionIds, BeginSession(w, s) \/ ReleaseSession(w, s)
        PROVE  SessionsMove
    BY <2>2 DEF BeginSession, ReleaseSession, SessionsMove
  <2>3. ASSUME NEW r \in Threads,
               RefuseTakeover(r) \/ \E w \in Windows, s \in SessionIds : RefuseSession(r, w, s)
        PROVE  SessionsMove
    BY <2>3 DEF RefuseTakeover, RefuseSession, registry, SessionsMove
  <2>4. ASSUME NEW r \in Threads, TakeoverSession(r) PROVE SessionsMove
    <3>1. calls[r].window \in Windows /\ calls[r].session \in SessionIds
      <4>1. calls[r] \in TakeoverCall
        BY <2>4 DEF TakeoverSession, Running, TypeOK, DocumentCall
      <4> QED
        BY <4>1 DEF TakeoverCall
    <3> QED
      BY <2>4, <3>1 DEF TakeoverSession, TakeoverAllowed, SessionsMove
  <2> QED
    BY <1>1, <2>1, <2>2, <2>3, <2>4 DEF SessionStep
<1>2. CASE StartStep
  BY <1>2, StartsLeaveRegistry DEF registry, SessionsMove
<1>3. ASSUME NEW r \in Threads, ThreadStep(r) PROVE SessionsMove
  <2> DEFINE w == calls[r].window
             s == calls[r].session
  <2>1. ASSUME Running(r, "reserve", "enter"), ~SessionRefuses(w, s), EnsureSession(w, s)
        PROVE  SessionsMove
    <3>1. w \in Windows /\ s \in SessionIds
      BY <2>1, RunningType DEF DocumentCall
    <3> QED
      BY <2>1, <3>1 DEF EnsureSession, SessionRefuses, SessionsMove
  <2>2. CASE AnswerReserve(r) \/ BindReserve(r) \/ GrantReserve(r)
    BY <2>1, <2>2 DEF AnswerReserve, BindReserve, GrantReserve
  <2>3. CASE Commit(r) \/ YieldOwned(r)
    BY <2>3 DEF Commit, YieldOwned, SessionsMove
  <2>4. CASE \/ Resolve(r) \/ ValidateIo(r) \/ RunIo(r) \/ ReturnIo(r)
             \/ RejectReserve(r) \/ RejectCommit(r) \/ RejectYield(r)
    BY <2>4 DEF Resolve, ValidateIo, RunIo, ReturnIo, RejectReserve, RejectCommit, RejectYield, registry,
                SessionsMove
  <2> QED
    BY <1>3, <2>2, <2>3, <2>4 DEF ThreadStep
<1>4. ASSUME NEW w \in Windows, NEW s \in SessionIds, NEW o \in OpIds, NEW p \in Paths,
             ReleaseOperation(w, s, o, p)
      PROVE  SessionsMove
  BY <1>4 DEF ReleaseOperation, SessionsMove
<1>5. ASSUME NEW after \in FileSystems, Refit(after) PROVE SessionsMove
  BY <1>5 DEF Refit, registry, SessionsMove
<1>6. CASE UNCHANGED vars
  BY <1>6 DEF vars, SessionsMove
<1> QED
  BY <1>1, <1>2, <1>3, <1>4, <1>5, <1>6 DEF Next

\* While file I/O has the lock nobody changes the registry.
LEMMA LockedRegistry ==
  ASSUME [Next]_vars, ~LockFree
  PROVE  UNCHANGED registry
<1>1. CASE SessionStep
  <2>1. ASSUME NEW w \in Windows, CreateWindow(w) \/ DestroyWindow(w) PROVE UNCHANGED registry
    BY <2>1 DEF CreateWindow, DestroyWindow
  <2>2. ASSUME NEW w \in Windows, NEW s \in SessionIds, BeginSession(w, s) \/ ReleaseSession(w, s)
        PROVE  UNCHANGED registry
    BY <2>2 DEF BeginSession, ReleaseSession
  <2>3. ASSUME NEW r \in Threads,
               \/ TakeoverSession(r) \/ RefuseTakeover(r)
               \/ \E w \in Windows, s \in SessionIds : RefuseSession(r, w, s)
        PROVE  UNCHANGED registry
    BY <2>3 DEF RefuseTakeover, TakeoverSession, RefuseSession
  <2> QED
    BY <1>1, <2>1, <2>2, <2>3 DEF SessionStep
<1>2. ASSUME NEW r \in Threads, ThreadStep(r) PROVE UNCHANGED registry
  BY <1>2 DEF ThreadStep, Resolve, RejectReserve, AnswerReserve, BindReserve, GrantReserve,
              Commit, RejectCommit, YieldOwned, RejectYield, ValidateIo, RunIo, ReturnIo
<1>3. ASSUME NEW w \in Windows, NEW s \in SessionIds, NEW o \in OpIds, NEW p \in Paths,
             ReleaseOperation(w, s, o, p)
      PROVE  UNCHANGED registry
  BY <1>3 DEF ReleaseOperation
<1>4. ASSUME NEW after \in FileSystems, Refit(after) PROVE UNCHANGED registry
  BY <1>4 DEF Refit
<1>5. CASE UNCHANGED vars
  BY <1>5 DEF vars, registry
<1> QED
  BY <1>1, <1>2, <1>3, <1>4, <1>5, StartsLeaveRegistry DEF Next
-----------------------------------------------------------------------------
(* Calls, generations and file I/O.                                        *)

LEMMA NextCallsNamed ==
  TypeOK /\ CallsNameOperations /\ [Next]_vars => CallsNameOperations'
<1> SUFFICES ASSUME TypeOK, CallsNameOperations, [Next]_vars, NEW r \in Threads,
                    calls'[r] # Idle, calls'[r].kind \in {"reserve", "commit", "io"}
             PROVE  calls'[r].op \in OpIds
  BY DEF CallsNameOperations
<1>1. CASE calls'[r] = calls[r]
  BY <1>1 DEF CallsNameOperations
<1>2. CASE calls'[r] # calls[r]
  <2>1. ASSUME NEW w \in Windows, NEW s \in SessionIds, RefuseSession(r, w, s) PROVE FALSE
    <3>1. calls'[r].kind = "takeover"
      BY <2>1 DEF RefuseSession, Begin, TypeOK
    <3> QED
      BY <3>1
  <2>2. ASSUME IoGoesOn(r) PROVE calls'[r].op \in OpIds
    <3>1. calls[r] \in DocumentCall /\ calls[r].op \in OpIds
      BY <2>2, RunningType DEF IoGoesOn, Running, CallsNameOperations
    <3> QED
      BY <2>2, <3>1 DEF IoGoesOn, DocumentCall
  <2>3. ASSUME calls[r] # Idle, calls'[r].kind = calls[r].kind, calls'[r].op = calls[r].op
        PROVE  calls'[r].op \in OpIds
    BY <2>3 DEF CallsNameOperations
  <2> QED
    BY <1>2, <2>1, <2>2, <2>3, CallChanges
<1> QED
  BY <1>1, <1>2

LEMMA NextGenerations ==
  TypeOK /\ GenerationsAreFresh /\ TakeoversNameOneSession /\ [Next]_vars
    => GenerationsAreFresh' /\ TakeoversNameOneSession'
<1> SUFFICES ASSUME TypeOK, GenerationsAreFresh, TakeoversNameOneSession, [Next]_vars
             PROVE  GenerationsAreFresh' /\ TakeoversNameOneSession'
  OBVIOUS
<1>1. nextGeneration \in Nat /\ nextGeneration' \in Nat /\ nextGeneration' >= nextGeneration
  BY SessionChanges DEF SessionsMove, TypeOK
\* An active session is an old one or has the generation that was the next one.
<1>2. ASSUME NEW w \in Windows, sessions'[w] # NoSession
      PROVE  /\ sessions'[w].generation < nextGeneration'
             /\ sessions'[w] = sessions[w] \/ sessions'[w].generation = nextGeneration
  <2>1. CASE UNCHANGED <<sessions, nextGeneration>>
    BY <1>2, <2>1 DEF GenerationsAreFresh
  <2>2. ASSUME NEW v \in Windows, sessions' = [sessions EXCEPT ![v] = NoSession],
               UNCHANGED nextGeneration
        PROVE  sessions'[w] = sessions[w] /\ sessions[w].generation < nextGeneration'
    BY <1>2, <2>2 DEF GenerationsAreFresh, TypeOK
  <2>3. ASSUME NEW v \in Windows, NEW s \in SessionIds,
               sessions' = [sessions EXCEPT ![v] = SessionGeneration(v, s)],
               nextGeneration' = nextGeneration + 1
        PROVE  /\ sessions'[w].generation < nextGeneration'
               /\ sessions'[w] = sessions[w] \/ sessions'[w].generation = nextGeneration
    <3>1. CASE w = v
      <4>1. sessions'[w].generation = nextGeneration
        BY <2>3, <3>1 DEF SessionGeneration, TypeOK
      <4> QED
        BY <1>1, <2>3, <4>1
    <3>2. CASE w # v
      <4>1. sessions'[w] = sessions[w]
        BY <2>3, <3>2 DEF TypeOK
      <4>2. sessions[w].generation < nextGeneration /\ sessions[w].generation \in Nat
        <5>1. sessions[w] \in ActiveSession
          BY <1>2, <4>1 DEF TypeOK
        <5> QED
          BY <1>2, <4>1, <5>1 DEF GenerationsAreFresh, ActiveSession
      <4> QED
        BY <1>1, <2>3, <4>1, <4>2
    <3> QED
      BY <3>1, <3>2
  <2> QED
    BY <2>1, <2>2, <2>3, SessionChanges DEF SessionsMove
\* A takeover that is on its way was on its way before, or has just read the session.
<1>3. ASSUME NEW r \in Threads, Running(r, "takeover", "enter")'
      PROVE  \/ calls'[r] = calls[r] /\ Running(r, "takeover", "enter")
             \/ \E w \in Windows, s \in SessionIds : RefuseSession(r, w, s)
  <2>1. CASE calls'[r] = calls[r]
    BY <1>3, <2>1 DEF Running
  <2>2. CASE calls'[r] # calls[r]
    <3>1. calls'[r] # Idle /\ calls'[r] \notin DocumentCall
      BY <1>3 DEF Running, DocumentCall
    <3>2. IoGoesOn(r) => calls'[r].kind = "io"
      BY RunningType DEF IoGoesOn, Running, DocumentCall
    <3>3. calls'[r].kind = "takeover"
      BY <1>3 DEF Running
    <3> QED
      BY <2>2, <3>1, <3>2, <3>3, CallChanges
  <2> QED
    BY <2>1, <2>2
<1>4. ASSUME NEW r \in Threads, Running(r, "takeover", "enter"), calls'[r] = calls[r]
      PROVE  /\ calls'[r].expected < nextGeneration'
             /\ LET active == sessions'[calls'[r].window]
                IN active # NoSession /\ active.generation = calls'[r].expected
                     => active.id = calls'[r].saw
  <2>1. calls[r] \in TakeoverCall
    BY <1>4 DEF Running, TypeOK, DocumentCall
  <2>2. calls[r].expected < nextGeneration /\ calls[r].expected \in Nat
    BY <1>4, <2>1 DEF GenerationsAreFresh, TakeoverCall
  <2>3. calls[r].window \in Windows
    BY <2>1 DEF TakeoverCall
  <2>4. ASSUME sessions'[calls[r].window] # NoSession,
               sessions'[calls[r].window].generation = calls[r].expected
        PROVE  sessions'[calls[r].window].id = calls[r].saw
    <3>1. sessions'[calls[r].window] = sessions[calls[r].window]
      BY <1>1, <1>2, <2>2, <2>3, <2>4
    <3> QED
      BY <1>4, <2>4, <3>1 DEF TakeoversNameOneSession
  <2> QED
    BY <1>1, <1>4, <2>2, <2>4
<1>5. ASSUME NEW r \in Threads, NEW w \in Windows, NEW s \in SessionIds, RefuseSession(r, w, s)
      PROVE  /\ calls'[r].expected < nextGeneration'
             /\ LET active == sessions'[calls'[r].window]
                IN active # NoSession /\ active.generation = calls'[r].expected
                     => active.id = calls'[r].saw
  <2>1. calls'[r] = [kind |-> "takeover", step |-> "enter", window |-> w, session |-> s,
                     expected |-> sessions[w].generation, saw |-> sessions[w].id]
    BY <1>5 DEF RefuseSession, Begin, TypeOK
  <2>2. sessions' = sessions /\ nextGeneration' = nextGeneration /\ sessions[w] # NoSession
    BY <1>5 DEF RefuseSession, registry
  <2> QED
    BY <2>1, <2>2 DEF GenerationsAreFresh
<1>6. GenerationsAreFresh'
  <2>1. \A w \in Windows : sessions'[w] # NoSession => sessions'[w].generation < nextGeneration'
    BY <1>2
  <2>2. \A r \in Threads : Running(r, "takeover", "enter")' => calls'[r].expected < nextGeneration'
    BY <1>3, <1>4, <1>5
  <2> QED
    BY <2>1, <2>2 DEF GenerationsAreFresh
<1>7. TakeoversNameOneSession'
  <2> SUFFICES ASSUME NEW r \in Threads, Running(r, "takeover", "enter")'
               PROVE  LET active == sessions'[calls'[r].window]
                      IN active # NoSession /\ active.generation = calls'[r].expected
                           => active.id = calls'[r].saw
    BY DEF TakeoversNameOneSession
  <2> QED
    BY <1>3, <1>4, <1>5
<1> QED
  BY <1>6, <1>7

\* The links move, or the file system stands still; calls that are checked learn of it.
LEMMA FileSystemChanges ==
  ASSUME [Next]_vars, fs' # fs
  PROVE  \E after \in FileSystems : Refit(after)
<1>1. ASSUME SessionStep PROVE FALSE
  BY <1>1 DEF SessionStep, CreateWindow, DestroyWindow, BeginSession, ReleaseSession,
              RefuseSession, TakeoverSession, RefuseTakeover
<1>2. ASSUME StartStep PROVE FALSE
  <2>1. ASSUME NEW r \in Threads, NEW w \in Windows, NEW s \in SessionIds, NEW o \in OpIds,
               NEW p \in Paths,
               StartReserve(r, w, s, o, p) \/ StartCommit(r, w, s, o, p) \/ StartIo(r, w, s, o, p)
        PROVE  FALSE
    BY <2>1 DEF StartReserve, StartCommit, StartIo
  <2>2. ASSUME NEW r \in Threads, NEW w \in Windows, NEW s \in SessionIds, NEW p \in Paths,
               StartYield(r, w, s, p)
        PROVE  FALSE
    BY <2>2 DEF StartYield
  <2> QED
    BY <1>2, <2>1, <2>2 DEF StartStep
<1>3. ASSUME NEW r \in Threads, ThreadStep(r) PROVE FALSE
  BY <1>3 DEF ThreadStep, Resolve, RejectReserve, AnswerReserve, BindReserve, GrantReserve,
              Commit, RejectCommit, YieldOwned, RejectYield, ValidateIo, RunIo, ReturnIo
<1>4. ASSUME NEW w \in Windows, NEW s \in SessionIds, NEW o \in OpIds, NEW p \in Paths,
             ReleaseOperation(w, s, o, p)
      PROVE  FALSE
  BY <1>4 DEF ReleaseOperation
<1> QED
  BY <1>1, <1>2, <1>3, <1>4 DEF Next, vars

\* A check that passes finds the claim.
LEMMA CheckFindsClaim ==
  ASSUME TypeOK, IndexConsistent, SessionsFenceClaims, CallsNameOperations,
         NEW r \in Threads, Running(r, "io", "validate"),
         IoPasses(calls[r], fs[calls[r].target])
  PROVE  ClaimIn(claims, index, calls[r], fs[calls[r].target])
<1> DEFINE c == calls[r]
           file == fs[calls[r].target]
<1>1. c \in DocumentCall /\ c.op \in OpIds
  BY RunningType DEF Running, CallsNameOperations
<1>2. PICK t \in Held : /\ IsActive(operations[<<c.window, c.session, c.op>>], t)
                        /\ claims[t].resolved = file
  BY DEF IoPasses
<1>3. claims[t].window = c.window
  <2>1. <<c.window, c.session, c.op>> \in OpKeys
    BY <1>1, OpKeyParts DEF DocumentCall
  <2>2. OpKeyOf(claims[t]) = <<c.window, c.session, c.op>>
    BY <1>2, <2>1 DEF SessionsFenceClaims, ActiveOperationsHaveClaims, IsActive
  <2> QED
    BY <2>2 DEF OpKeyOf
<1>4. index[file] = t
  BY <1>2 DEF IndexConsistent, ClaimsAreIndexed, KeysOf
<1> QED
  BY <1>2, <1>3, <1>4 DEF ClaimIn, Held

LEMMA NextIo ==
  ASSUME TypeOK, IndexConsistent, SessionsFenceClaims, CallsNameOperations,
         IoStaysOnClaimedFile, IoWasChecked, [Next]_vars
  PROVE  IoStaysOnClaimedFile' /\ IoWasChecked'
<1>1. IoStaysOnClaimedFile <=>
        \A r \in Threads : Running(r, "io", "ran") =>
          calls[r].moved \/ ClaimIn(claims, index, calls[r], calls[r].target)
  BY DEF IoStaysOnClaimedFile, OnClaimedFile, ClaimIn, Held
<1>2. IoStaysOnClaimedFile' <=>
        \A r \in Threads : Running(r, "io", "ran")' =>
          calls'[r].moved \/ ClaimIn(claims', index', calls'[r], calls'[r].target)
  BY DEF IoStaysOnClaimedFile, OnClaimedFile, ClaimIn, Held
<1>3. UNCHANGED registry => claims' = claims /\ index' = index
  BY DEF registry
<1>4. ASSUME NEW r \in Threads, Running(r, "io", "checked")' \/ Running(r, "io", "ran")',
             calls'[r] = calls[r]
      PROVE  UNCHANGED registry
  <2>1. ~LockFree
    BY <1>4 DEF Running, LockFree
  <2> QED
    BY <2>1, LockedRegistry
<1>5. ASSUME NEW r \in Threads, Running(r, "io", "checked")' \/ Running(r, "io", "ran")',
             calls'[r] # calls[r]
      PROVE  UNCHANGED registry /\ IoGoesOn(r)
  <2>1. ASSUME NEW w \in Windows, NEW s \in SessionIds, RefuseSession(r, w, s) PROVE FALSE
    <3>1. calls'[r].kind = "takeover"
      BY <2>1 DEF RefuseSession, Begin, TypeOK
    <3> QED
      BY <1>5, <3>1 DEF Running
  <2> QED
    BY <1>5, <2>1, CallChanges DEF Running
<1>6. ASSUME NEW r \in Threads, Running(r, "io", "checked")'
      PROVE  calls'[r].moved \/ ClaimIn(claims', index', calls'[r], fs'[calls'[r].target])
  <2>1. CASE calls'[r] = calls[r]
    <3>1. Running(r, "io", "checked")
      BY <1>6, <2>1 DEF Running
    <3>2. calls[r].moved \/ fs'[calls[r].target] = fs[calls[r].target]
      <4>1. calls[r] \in DocumentCall
        BY <3>1, RunningType
      <4>2. ASSUME NEW after \in FileSystems, Refit(after),
                   after[calls[r].target] # fs[calls[r].target]
            PROVE  calls[r].moved
        <5>1. calls'[r] = [calls[r] EXCEPT !.moved = TRUE]
          BY <3>1, <4>2 DEF Refit, Retargeted
        <5> QED
          BY <2>1, <4>1, <5>1 DEF DocumentCall
      <4> QED
        BY <4>2, FileSystemChanges DEF Refit
    <3> QED
      BY <1>3, <1>4, <1>6, <2>1, <3>1, <3>2 DEF IoWasChecked
  <2>2. CASE calls'[r] # calls[r]
    <3>1. UNCHANGED registry /\ IoGoesOn(r) /\ calls[r] \in DocumentCall
      BY <1>5, <1>6, <2>2, RunningType DEF IoGoesOn
    <3>2. CASE /\ Running(r, "io", "validate")
               /\ IoPasses(calls[r], fs[calls[r].target])
               /\ calls'[r] = [calls[r] EXCEPT !.step = "checked"]
               /\ UNCHANGED fs
      <4>1. calls'[r].window = calls[r].window /\ calls'[r].target = calls[r].target
        BY <3>1, <3>2 DEF DocumentCall
      <4>2. ClaimIn(claims, index, calls[r], fs[calls[r].target])
        BY <3>2, CheckFindsClaim
      <4> QED
        BY <1>3, <3>1, <3>2, <4>1, <4>2 DEF ClaimIn
    <3>3. CASE calls'[r] = [calls[r] EXCEPT !.step = "ran", !.target = fs[calls[r].target]]
      <4>1. calls'[r].step = "ran"
        BY <3>1, <3>3 DEF DocumentCall
      <4> QED
        BY <1>6, <4>1 DEF Running
    <3>4. CASE calls'[r] = [calls[r] EXCEPT !.moved = TRUE]
      BY <3>1, <3>4 DEF DocumentCall
    <3> QED
      BY <3>1, <3>2, <3>3, <3>4 DEF IoGoesOn
  <2> QED
    BY <2>1, <2>2
<1>7. ASSUME NEW r \in Threads, Running(r, "io", "ran")'
      PROVE  calls'[r].moved \/ ClaimIn(claims', index', calls'[r], calls'[r].target)
  <2>1. CASE calls'[r] = calls[r]
    <3>1. Running(r, "io", "ran")
      BY <1>7, <2>1 DEF Running
    <3> QED
      BY <1>1, <1>3, <1>4, <1>7, <2>1, <3>1
  <2>2. CASE calls'[r] # calls[r]
    <3>1. UNCHANGED registry /\ IoGoesOn(r) /\ calls[r] \in DocumentCall
      BY <1>5, <1>7, <2>2, RunningType DEF IoGoesOn
    <3>2. CASE calls'[r] = [calls[r] EXCEPT !.step = "checked"]
      <4>1. calls'[r].step = "checked"
        BY <3>1, <3>2 DEF DocumentCall
      <4> QED
        BY <1>7, <4>1 DEF Running
    <3>3. CASE /\ Running(r, "io", "checked")
               /\ calls'[r] = [calls[r] EXCEPT !.step = "ran", !.target = fs[calls[r].target]]
      <4>1. /\ calls'[r].window = calls[r].window /\ calls'[r].target = fs[calls[r].target]
            /\ calls'[r].moved = calls[r].moved
        BY <3>1, <3>3 DEF DocumentCall
      <4>2. calls[r].moved \/ ClaimIn(claims, index, calls[r], fs[calls[r].target])
        BY <3>3 DEF IoWasChecked
      <4> QED
        BY <1>3, <3>1, <4>1, <4>2 DEF ClaimIn
    <3>4. CASE Running(r, "io", "checked") /\ calls'[r] = [calls[r] EXCEPT !.moved = TRUE]
      <4>1. calls'[r].step = "checked"
        BY <3>1, <3>4 DEF DocumentCall, Running
      <4> QED
        BY <1>7, <4>1 DEF Running
    <3> QED
      BY <3>1, <3>2, <3>3, <3>4 DEF IoGoesOn
  <2> QED
    BY <2>1, <2>2
<1> QED
  BY <1>2, <1>6, <1>7 DEF IoWasChecked

-----------------------------------------------------------------------------
(* Results.                                                                *)

LEMMA InitFenced == Init => Fenced
<1> SUFFICES ASSUME Init PROVE Fenced
  OBVIOUS
<1>1. Held = {}
  BY DEF Init, Held
<1>2. SessionsFenceClaims
  BY <1>1, OpKeyParts DEF Init, SessionsFenceClaims, OperationsAreCurrent,
     ActiveOperationsHaveClaims, ReservationsAreCurrent, ClaimsKnowTheirOperation
<1>3. /\ CallsNameOperations /\ GenerationsAreFresh /\ TakeoversNameOneSession
      /\ IoStaysOnClaimedFile /\ IoWasChecked
  BY DEF Init, CallsNameOperations, GenerationsAreFresh, TakeoversNameOneSession,
         IoStaysOnClaimedFile, IoWasChecked, Running
<1> QED
  BY <1>2, <1>3 DEF Fenced

LEMMA NextFenced == Safe /\ Fenced /\ [Next]_vars => Fenced'
BY NextFence, NextCallsNamed, NextGenerations, NextIo DEF Safe, Fenced

LEMMA AlwaysFenced == Spec => []Fenced
<1>1. Init => Fenced
  BY InitFenced
<1>2. Safe /\ Fenced /\ [Next]_vars => Fenced'
  BY NextFenced
<1> QED
  BY <1>1, <1>2, AlwaysSafe, PTL DEF Spec

\* However pages, reservations and takeovers overlap, an operation record exists only for the
\* session its window has, an active operation and its claim name each other, a reservation
\* never outlives its session and an owned claim is bound to the session that followed.
THEOREM SessionsAlwaysFence == Spec => []SessionsFenceClaims
<1>1. Fenced => SessionsFenceClaims
  BY DEF Fenced
<1> QED
  BY <1>1, AlwaysFenced, PTL

\* A takeover displaces only the session whose refusal it answers, because the generation it
\* expects was handed out once and every later session has a greater one.
THEOREM TakeoversAreExact == Spec => []TakeoversNameOneSession
<1>1. Fenced => TakeoversNameOneSession
  BY DEF Fenced
<1> QED
  BY <1>1, AlwaysFenced, PTL

\* File I/O runs only on a file its own window has a claim on, whatever the links do until its
\* check and whatever every other call does until it has run, because the lock is held over
\* both.  Only a path that was retargeted between the check and the operation is left out: the
\* lock does not hold the file system.
THEOREM IoIsConfined == Spec => []IoStaysOnClaimedFile
<1>1. Fenced => IoStaysOnClaimedFile
  BY DEF Fenced
<1> QED
  BY <1>1, AlwaysFenced, PTL
-----------------------------------------------------------------------------
(* What a step may never do.                                               *)

LEMMA OwnedSurvivesStep ==
  ASSUME TypeOK, IndexConsistent, [Next]_vars, NEW w \in Windows, sessions'[w] # sessions[w],
         w \in live', NEW t \in OwnedBy(w)
  PROVE  claims'[t] # NoClaim /\ claims'[t].owned /\ claims'[t].window = w
<1>1. t \in Tokens /\ claims[t] # NoClaim /\ claims[t].owned /\ claims[t].window = w
  BY DEF OwnedBy, Held
<1>2. claims \in ClaimsType
  BY DEF TypeOK, ClaimsType
<1>3. ASSUME UNCHANGED sessions PROVE FALSE
  BY <1>3
\* Removing reservations alone.
<1>4. ASSUME NEW T, T \subseteq UNION {PendingOf(v) : v \in Windows}
      PROVE  ClaimsWithout(T)[t] = claims[t]
  <2>1. t \notin T
    BY <1>1, <1>4 DEF PendingOf
  <2> QED
    BY <1>1, <2>1 DEF ClaimsWithout
<1>5. ASSUME NEW cs \in ClaimsType, cs[t] = claims[t], NEW v, NEW s \in SessionIds
      PROVE  LET rebound == Rebound(cs, v, s)[t]
             IN rebound # NoClaim /\ rebound.owned /\ rebound.window = w
  BY <1>1, <1>5, ReboundKeeps DEF ClaimsType
<1>6. CASE SessionStep
  <2>1. ASSUME NEW v \in Windows, CreateWindow(v) PROVE FALSE
    BY <1>3, <2>1 DEF CreateWindow, registry
  <2>2. ASSUME NEW v \in Windows, DestroyWindow(v) PROVE FALSE
    BY <2>2 DEF DestroyWindow, TypeOK
  <2>3. ASSUME NEW v \in Windows, NEW s \in SessionIds, BeginSession(v, s)
        PROVE  claims'[t] # NoClaim /\ claims'[t].owned /\ claims'[t].window = w
    BY <1>2, <1>5, <2>3 DEF BeginSession
  <2>4. ASSUME NEW v \in Windows, NEW s \in SessionIds, ReleaseSession(v, s)
        PROVE  claims'[t] # NoClaim /\ claims'[t].owned /\ claims'[t].window = w
    BY <1>1, <1>4, <2>4 DEF ReleaseSession
  <2>5. ASSUME NEW r \in Threads, TakeoverSession(r)
        PROVE  claims'[t] # NoClaim /\ claims'[t].owned /\ claims'[t].window = w
    <3> DEFINE v == calls[r].window
    <3>1. v \in Windows /\ calls[r].session \in SessionIds
      <4>1. calls[r] \in TakeoverCall
        BY <2>5 DEF TakeoverSession, Running, TypeOK, DocumentCall
      <4> QED
        BY <4>1 DEF TakeoverCall
    <3>2. ClaimsWithout(PendingOf(v)) \in ClaimsType /\ ClaimsWithout(PendingOf(v))[t] = claims[t]
      BY <1>4, <3>1, RemovalTypes DEF ClaimsType
    <3>3. claims' = Rebound(ClaimsWithout(PendingOf(v)), v, calls[r].session)
      BY <2>5 DEF TakeoverSession
    <3> QED
      BY <1>5, <3>1, <3>2, <3>3
  <2>6. ASSUME NEW r \in Threads,
               RefuseTakeover(r) \/ \E v \in Windows, s \in SessionIds : RefuseSession(r, v, s)
        PROVE  FALSE
    BY <1>3, <2>6 DEF RefuseTakeover, RefuseSession, registry
  <2> QED
    BY <1>6, <2>1, <2>2, <2>3, <2>4, <2>5, <2>6 DEF SessionStep
<1>7. CASE StartStep
  BY <1>3, <1>7, StartsLeaveRegistry DEF registry
<1>8. ASSUME NEW r \in Threads, ThreadStep(r)
      PROVE  claims'[t] # NoClaim /\ claims'[t].owned /\ claims'[t].window = w
  <2> DEFINE v == calls[r].window
             s == calls[r].session
             cs == EnsuredClaims(v, s)
  <2>1. ASSUME Running(r, "reserve", "enter"), ~SessionRefuses(v, s), EnsureSession(v, s)
        PROVE  /\ cs \in ClaimsType /\ cs[t] # NoClaim /\ cs[t].owned /\ cs[t].window = w
               /\ calls[r].op \in OpIds \cup {NoOp}
    <3>1. v \in Windows /\ s \in SessionIds /\ calls[r].op \in OpIds \cup {NoOp}
      BY <2>1, RunningType DEF DocumentCall
    <3> QED
      BY <1>1, <2>1, <3>1, EnsureTypes, EnsuredKeeps DEF ClaimsType
  <2>2. CASE AnswerReserve(r)
    BY <2>1, <2>2 DEF AnswerReserve
  <2>3. CASE BindReserve(r)
    <3>1. PICK u \in Tokens : claims' = [cs EXCEPT ![u].op = calls[r].op]
      BY <2>3 DEF BindReserve
    <3>2. /\ cs \in ClaimsType /\ cs[t] # NoClaim /\ cs[t].owned /\ cs[t].window = w
          /\ calls[r].op \in OpIds \cup {NoOp}
      BY <2>1, <2>3 DEF BindReserve
    <3> HIDE DEF cs
    <3>3. cs[t] \in Claim /\ claims'[t] \in {cs[t], [cs[t] EXCEPT !.op = calls[r].op]}
      BY <1>1, <3>1, <3>2 DEF ClaimsType
    <3>4. claims'[t] \in Claim
      BY <3>2, <3>3 DEF Claim
    <3> QED
      BY <3>2, <3>3, <3>4, NullAssumption DEF Claim
  <2>4. CASE GrantReserve(r)
    <3>1. t # nextSequence
      BY <1>1 DEF IndexConsistent, TokensAreFresh, Held, TypeOK, Tokens
    <3>2. cs \in ClaimsType /\ cs[t] # NoClaim /\ cs[t].owned /\ cs[t].window = w
      BY <2>1, <2>4 DEF GrantReserve
    <3>3. claims'[t] = cs[t]
      BY <1>1, <2>4, <3>1, <3>2 DEF GrantReserve, ClaimsType
    <3> QED
      BY <3>2, <3>3
  <2>5. CASE \/ Resolve(r) \/ ValidateIo(r) \/ RunIo(r) \/ ReturnIo(r) \/ Commit(r) \/ YieldOwned(r)
             \/ RejectReserve(r) \/ RejectCommit(r) \/ RejectYield(r)
    BY <1>3, <2>5 DEF Resolve, ValidateIo, RunIo, ReturnIo, Commit, YieldOwned, RejectReserve, RejectCommit,
                      RejectYield, registry
  <2> QED
    BY <1>8, <2>2, <2>3, <2>4, <2>5 DEF ThreadStep
<1>9. ASSUME NEW v \in Windows, NEW s \in SessionIds, NEW o \in OpIds, NEW p \in Paths,
             ReleaseOperation(v, s, o, p)
      PROVE  FALSE
  BY <1>3, <1>9 DEF ReleaseOperation
<1>10. ASSUME NEW after \in FileSystems, Refit(after) PROVE FALSE
  BY <1>3, <1>10 DEF Refit, registry
<1>11. CASE UNCHANGED vars
  BY <1>3, <1>11 DEF vars
<1> QED
  BY <1>6, <1>7, <1>8, <1>9, <1>10, <1>11 DEF Next

LEMMA ReleasedSurvivesStep ==
  ASSUME TypeOK, Fenced, [Next]_vars, NEW w \in Windows, NEW s \in SessionIds, NEW o \in OpIds,
         operations[<<w, s, o>>] # Absent, operations[<<w, s, o>>].status = "released",
         sessions'[w] = sessions[w]
  PROVE  operations'[<<w, s, o>>] = operations[<<w, s, o>>]
<1> DEFINE k == <<w, s, o>>
<1>1. k \in OpKeys /\ k[1] = w /\ k[2] = s
  BY OpKeyParts
<1>2. Fence(claims, operations, sessions)
  BY FenceMeaning DEF Fenced
<1>3. CurrentIn(sessions, w, s) /\ sessions[w].generation < nextGeneration
      /\ sessions[w].generation \in Nat
  <2>1. CurrentIn(sessions, w, s)
    BY <1>1, <1>2 DEF Fence
  <2>2. sessions[w] \in ActiveSession
    BY <2>1 DEF CurrentIn, TypeOK
  <2> QED
    BY <2>1, <2>2 DEF Fenced, GenerationsAreFresh, CurrentIn, ActiveSession
<1>4. \A t \in Tokens : claims[t] # NoClaim => claims[t] \in Claim
  BY DEF TypeOK
\* No claim in a live session has the released operation: it would be active.
<1>5. ASSUME NEW T, T \subseteq Held PROVE k \notin OperationsOf(T)
  <2> SUFFICES ASSUME NEW t \in T, claims[t].op # NoOp, OpKeyOf(claims[t]) = k PROVE FALSE
    BY DEF OperationsOf
  <2>1. t \in Tokens /\ claims[t] # NoClaim /\ claims[t].window = w
    BY <1>5, OpKeyParts DEF Held, OpKeyOf
  <2>2. IsActive(operations[OpKeyOf(claims[t])], t)
    BY <1>2, <1>3, <2>1 DEF Fence, CurrentIn
  <2> QED
    BY <2>2 DEF IsActive
<1>6. ASSUME UNCHANGED operations PROVE operations'[k] = operations[k]
  BY <1>6
<1>7. CASE SessionStep
  <2>1. ASSUME NEW v \in Windows, CreateWindow(v) PROVE UNCHANGED operations
    BY <2>1 DEF CreateWindow, registry
  <2>2. ASSUME NEW v \in Windows, DestroyWindow(v) PROVE operations'[k] = operations[k]
    <3>1. v # w
      BY <1>3, <2>2 DEF DestroyWindow, CurrentIn, TypeOK
    <3> QED
      BY <1>1, <2>2, <3>1 DEF DestroyWindow
  <2>3. ASSUME NEW v \in Windows, NEW q \in SessionIds, BeginSession(v, q)
        PROVE  operations'[k] = operations[k]
    <3>1. v # w
      BY <1>3, <2>3 DEF BeginSession, CurrentIn
    <3> QED
      BY <1>1, <2>3, <3>1 DEF BeginSession, OfOneSession
  <2>4. ASSUME NEW v \in Windows, NEW q \in SessionIds, ReleaseSession(v, q)
        PROVE  operations'[k] = operations[k]
    <3>1. v # w
      BY <1>3, <2>4 DEF ReleaseSession, CurrentIn, TypeOK
    <3> QED
      BY <1>1, <2>4, <3>1 DEF ReleaseSession
  <2>5. ASSUME NEW r \in Threads, TakeoverSession(r) PROVE operations'[k] = operations[k]
    <3> DEFINE v == calls[r].window
               T == PendingOf(v)
    <3>1. v # w
      <4>1. SUFFICES ASSUME v = w PROVE FALSE
        OBVIOUS
      <4>2. sessions'[w].generation = nextGeneration
        BY <2>5, <4>1 DEF TakeoverSession, SessionGeneration, TypeOK
      <4> QED
        BY <1>3, <4>2 DEF TypeOK
    <3>2. operations' = OfOneSession(OperationsForgetting(T), v, calls[r].session)
      BY <2>5 DEF TakeoverSession
    <3>3. OperationsForgetting(T)[k] = operations[k]
      <4>1. T \subseteq Held
        BY DEF PendingOf
      <4> QED
        BY <1>1, <1>5, <4>1, ForgettingOperations
    <3> QED
      BY <1>1, <3>1, <3>2, <3>3 DEF OfOneSession
  <2>6. ASSUME NEW r \in Threads,
               RefuseTakeover(r) \/ \E v \in Windows, q \in SessionIds : RefuseSession(r, v, q)
        PROVE  UNCHANGED operations
    BY <2>6 DEF RefuseTakeover, RefuseSession, registry
  <2> QED
    BY <1>7, <2>1, <2>2, <2>3, <2>4, <2>5, <2>6 DEF SessionStep
<1>8. CASE StartStep
  BY <1>8, StartsLeaveRegistry DEF registry
<1>9. ASSUME NEW r \in Threads, ThreadStep(r) PROVE operations'[k] = operations[k]
  <2> DEFINE v == calls[r].window
             q == calls[r].session
             os == EnsuredOperations(v, q)
  <2>1. os[k] = operations[k]
    BY <1>1, <1>3 DEF EnsuredOperations, OfOneSession, CurrentIn
  <2>2. CASE AnswerReserve(r)
    BY <2>1, <2>2 DEF AnswerReserve
  <2>3. CASE BindReserve(r)
    <3>1. PICK t \in Tokens :
            /\ Bindable(EnsuredClaims(v, q), os, t, v, q)
            /\ operations' = [l \in OpKeys |->
                 IF l = <<v, q, calls[r].op>> THEN Active(t)
                 ELSE IF l = OpKeyOf(EnsuredClaims(v, q)[t]) THEN Absent ELSE os[l]]
      BY <2>3 DEF BindReserve
    <3>2. k # <<v, q, calls[r].op>>
      BY <2>1, <2>3 DEF BindReserve, Unknown
    <3>3. k # OpKeyOf(EnsuredClaims(v, q)[t])
      <4>1. SUFFICES ASSUME k = OpKeyOf(EnsuredClaims(v, q)[t]) PROVE FALSE
        OBVIOUS
      <4>2. EnsuredClaims(v, q)[t].op # NoOp
        BY <4>1, NullAssumption DEF OpKeyOf
      <4>3. IsActive(os[k], t)
        BY <3>1, <4>1, <4>2 DEF Bindable
      <4> QED
        BY <2>1, <4>3 DEF IsActive
    <3> QED
      BY <1>1, <2>1, <3>1, <3>2, <3>3
  <2>4. CASE GrantReserve(r)
    <3>1. k # <<v, q, calls[r].op>>
      BY <2>1, <2>4 DEF GrantReserve, Unknown
    <3>2. os \in OperationsType
      <4>1. v \in Windows /\ q \in SessionIds
        BY <2>4, RunningType DEF GrantReserve, DocumentCall
      <4> QED
        BY <2>4, <4>1, EnsureTypes DEF GrantReserve, OperationsType
    <3>3. operations' = [os EXCEPT ![<<v, q, calls[r].op>>] = Active(nextSequence)]
      BY <2>4 DEF GrantReserve
    <3> QED
      BY <1>1, <2>1, <3>1, <3>2, <3>3 DEF OperationsType
  <2>5. CASE Commit(r)
    <3>1. PICK t \in Held : operations' = OperationsReleasing(Superseded(v, t))
      BY <2>5 DEF Commit
    <3>2. Superseded(v, t) \subseteq Held
      BY DEF Superseded, OwnedBy
    <3> QED
      BY <1>1, <1>5, <3>1, <3>2, ForgettingOperations
  <2>6. CASE YieldOwned(r)
    <3>1. PICK t \in Held : operations' = OperationsReleasing({t})
      BY <2>6 DEF YieldOwned
    <3> QED
      BY <1>1, <1>5, <3>1, ForgettingOperations
  <2>7. CASE \/ Resolve(r) \/ ValidateIo(r) \/ RunIo(r) \/ ReturnIo(r)
             \/ RejectReserve(r) \/ RejectCommit(r) \/ RejectYield(r)
    BY <2>7 DEF Resolve, ValidateIo, RunIo, ReturnIo, RejectReserve, RejectCommit, RejectYield, registry
  <2> QED
    BY <1>9, <2>2, <2>3, <2>4, <2>5, <2>6, <2>7 DEF ThreadStep
<1>10. ASSUME NEW v \in Windows, NEW q \in SessionIds, NEW p \in OpIds, NEW path \in Paths,
              ReleaseOperation(v, q, p, path)
       PROVE  operations'[k] = operations[k]
  <2>1. PICK t \in Held : operations' = OperationsReleasing({t})
    BY <1>10 DEF ReleaseOperation
  <2> QED
    BY <1>1, <1>5, <2>1, ForgettingOperations
<1>11. ASSUME NEW after \in FileSystems, Refit(after) PROVE UNCHANGED operations
  BY <1>11 DEF Refit, registry
<1>12. CASE UNCHANGED vars
  BY <1>12 DEF vars
<1> QED
  BY <1>7, <1>8, <1>9, <1>10, <1>11, <1>12 DEF Next

\* A page that reloads, is taken over or ends its session never costs its window the document
\* the window owns.
THEOREM OwnershipOutlivesSessions == Spec => OwnershipSurvivesSessions
<1>1. Safe /\ [Next]_vars =>
        \A w \in Windows : sessions'[w] # sessions[w] /\ w \in live' =>
          \A t \in OwnedBy(w) : /\ claims'[t] # NoClaim
                                /\ claims'[t].owned /\ claims'[t].window = w
  BY OwnedSurvivesStep DEF Safe
<1> QED
  BY <1>1, AlwaysSafe, PTL DEF Spec, OwnershipSurvivesSessions

\* A reserve that was still resolving its path when its operation was released cannot bring the
\* claim back, and no other step of the session can.
THEOREM ReleasedOperationsStay == Spec => ReleasedStaysReleased
<1>1. Safe /\ Fenced /\ [Next]_vars =>
        \A w \in Windows, s \in SessionIds, o \in OpIds :
          /\ operations[<<w, s, o>>] # Absent
          /\ operations[<<w, s, o>>].status = "released"
          /\ sessions'[w] = sessions[w]
          => operations'[<<w, s, o>>] = operations[<<w, s, o>>]
  BY ReleasedSurvivesStep DEF Safe
<1> QED
  BY <1>1, AlwaysSafe, AlwaysFenced, PTL DEF Spec, ReleasedStaysReleased
=============================================================================
