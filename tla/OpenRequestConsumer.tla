-------------------------- MODULE OpenRequestConsumer --------------------------
(***************************************************************************)
(* The page that opens the documents a window is asked for                 *)
(* (app/controllers/useDesktopOpenRequests.ts), through the client of      *)
(* services/open-requests/openRequestClient.ts.  The shell keeps the       *)
(* requests (OpenRequests); here it is one window's part of it, one        *)
(* command at a time.                                                      *)
(*                                                                         *)
(* The runtime outlives the component that uses it: the component may be   *)
(* unmounted and mounted again with any call underway.  It does not        *)
(* outlive the page.  Every command of the page goes through one chain,    *)
(* the bridge; opening a document does not, and may end at any moment.     *)
(***************************************************************************)
EXTENDS Naturals, Sequences, FiniteSets, SequencesExt, FiniteSetsExt

CONSTANTS
  Requests,      \* the requests other processes make of the window
  NoAttempt,
  MaxToken,      \* bound of this model: attempt tokens of the shell
  MaxIncidents   \* bound of this model: what happens to the page, all together: requests,
                 \* failing commands, opens without a document, cancelled prompts, unmounts, reloads

ASSUME ConsumerAssumption ==
  /\ IsFiniteSet(Requests)
  /\ MaxToken \in Nat /\ MaxIncidents \in Nat
  /\ NoAttempt \notin [id : Requests, token : 1 .. MaxToken]

VARIABLES
  shell,    \* the state and token of each request in the shell
  hint,     \* a notification of the shell is on its way
  page,     \* the runtime
  mount,    \* the generation of the component, whether it is mounted, and listens
  bridge,   \* the operations on the bridge chain; the first one runs
  run,      \* how far the running operation is
  call,     \* the command it has sent to the shell
  answer,   \* the answer of the shell
  ready,    \* the editor is ready, and what the start recovers is decided
  budget,   \* the incidents that are left, and the requests whose document the user declined, or
            \* dismissed an error about, since the page was loaded
  opened    \* how often each request was opened: since the page was loaded, and ever

vars == <<shell, hint, page, mount, bridge, run, call, answer, ready, budget, opened>>
bridgeVars == <<bridge, run, call, answer>>

Attempt == [id : Requests, token : 1 .. MaxToken]
At(r) == [id |-> r, token |-> shell[r].token]
NoCall == [kind |-> "none"]
NoAnswer == [ok |-> FALSE, data |-> {}, here |-> FALSE]
Idle == [stage |-> "idle", todo |-> {}]

NewPage ==
  [current |-> [r \in Requests |-> 0], terminal |-> [r \in Requests |-> 0],
   queue |-> <<>>, pending |-> NoAttempt, active |-> NoAttempt, opening |-> FALSE,
   applied |-> {}, seen |-> {}, recording |-> {}, acknowledging |-> {}, abandoning |-> {},
   errors |-> {}, muted |-> {}, notified |-> FALSE, blocks |-> FALSE, bootstrapped |-> FALSE]

Init ==
  /\ shell = [r \in Requests |-> [state |-> "absent", token |-> 0]]
  /\ hint = FALSE
  /\ page = NewPage
  /\ mount = [generation |-> 1, mounted |-> TRUE, listening |-> FALSE, listens |-> TRUE]
  /\ bridge = <<>> /\ run = Idle /\ call = NoCall /\ answer = NoAnswer
  /\ ready = FALSE
  /\ budget = [left |-> MaxIncidents, declined |-> {}]
  /\ opened = [now |-> [r \in Requests |-> 0], ever |-> {}]

-----------------------------------------------------------------------------
(* The runtime: each operation turns the runtime p into a new one.         *)

IsCurrent(p, a) == p.current[a.id] = a.token
Completions(p) == p.recording \union p.acknowledging
Notified(p) == [p EXCEPT !.notified = TRUE]

\* An operation ends.  Its failure is not shown when the last error of its source was dismissed, or
\* its attempt was superseded, while it ran: its ticket is void.
Failed(p, source) ==
  IF source \in p.muted THEN [p EXCEPT !.muted = @ \ {source}]
  ELSE Notified([p EXCEPT !.errors = @ \union {source}])
Resolved(p, source) ==
  LET q == [p EXCEPT !.muted = @ \ {source}]
  IN IF source \in p.errors THEN Notified([q EXCEPT !.errors = @ \ {source}]) ELSE q

WithoutCompletion(p, a) == [p EXCEPT !.recording = @ \ {a}, !.acknowledging = @ \ {a}]

\* The queue without the attempts of a request.
Without(queue, id) ==
  FoldLeft(LAMBDA kept, b : IF b.id = id THEN kept ELSE Append(kept, b), <<>>, queue)

RemoveLocalRequest(p, id) ==
  Notified([p EXCEPT !.queue = Without(@, id),
                     !.pending = IF @ # NoAttempt /\ @.id = id THEN NoAttempt ELSE @])

\* cleanupTerminalAttempt
CleanupTerminal(p, a) ==
  LET gone == [WithoutCompletion(p, a) EXCEPT
                 !.terminal[a.id] = a.token, !.abandoning = @ \ {a},
                 !.applied = @ \ {a}, !.seen = @ \ {a}]
  IN IF IsCurrent(p, a) THEN RemoveLocalRequest([gone EXCEPT !.current[a.id] = 0], a.id)
     ELSE Notified(gone)

\* The request has a new attempt: what the old one applied only has to be recorded again.
Retarget(p, a, old) ==
  LET clean == [RemoveLocalRequest(WithoutCompletion(p, old), a.id) EXCEPT
                  !.seen = @ \ {old}, !.applied = @ \ {old}, !.current[a.id] = a.token,
                  !.errors = {e \in @ : e[2] # old},
                  !.muted = IF p.opening /\ p.active = old THEN @ \union {<<"apply", old>>} ELSE @]
  IN IF old \in p.applied
     THEN [page |-> [clean EXCEPT !.seen = @ \union {a}, !.applied = @ \union {a},
                                  !.recording = @ \union {a}],
           verdict |-> "retargeted"]
     ELSE [page |-> clean, verdict |-> "accepted"]

\* adoptAttempt
Adopt(p, a) ==
  LET fresh == [p EXCEPT !.terminal[a.id] = 0]
      known == [fresh EXCEPT !.abandoning = {b \in @ : b.id # a.id}]
      old   == [id |-> a.id, token |-> p.current[a.id]]
  IN IF p.terminal[a.id] = a.token THEN [page |-> p, verdict |-> "rejected"]
     ELSE IF a \in p.abandoning THEN [page |-> fresh, verdict |-> "rejected"]
     ELSE IF old.token \notin {0, a.token} THEN Retarget(known, a, old)
     ELSE [page |-> [known EXCEPT !.current[a.id] = a.token], verdict |-> "accepted"]

\* What recover answers was applied by this window: it is acknowledged and not opened again.
AdoptRecovered(a, p) ==
  LET adoption == Adopt([p EXCEPT !.abandoning = {b \in @ : b.id # a.id}], a)
      q == RemoveLocalRequest(adoption.page, a.id)
  IN IF adoption.verdict = "rejected" THEN adoption.page
     ELSE [q EXCEPT !.applied = @ \union {a}, !.recording = @ \ {a},
                    !.acknowledging = @ \union {a}]

\* MUTANT of AdoptClaimed: a delivery is queued however often it comes.
AdoptAgain(a, p) ==
  LET adoption == Adopt(p, a)
  IN IF adoption.verdict # "accepted" THEN adoption.page
     ELSE [adoption.page EXCEPT !.seen = @ \union {a}, !.queue = Append(@, a)]

\* A claimed attempt is queued unless the page has seen it.
AdoptClaimed(a, p) ==
  LET adoption == Adopt(p, a)
  IN IF a \in p.seen \union Completions(p) THEN p
     ELSE IF adoption.verdict # "accepted" THEN adoption.page
     ELSE [adoption.page EXCEPT !.seen = @ \union {a}, !.queue = Append(@, a)]

\* Terminal attempts the shell does not deliver any more are forgotten, then the claim is adopted.
AdoptClaim(p, data) ==
  LET forgotten == [p EXCEPT !.terminal =
                      [r \in Requests |-> IF [id |-> r, token |-> p.terminal[r]] \in data
                                          THEN p.terminal[r] ELSE 0]]
  IN Notified(FoldSet(AdoptClaimed, forgotten, data))
-----------------------------------------------------------------------------
(* The shell.  A command it executes gets an answer; a fault leaves the    *)
(* state as it was, except for the mark of an applied request.             *)

InState(state) == {r \in Requests : shell[r].state = state}
Set(r, state, token) == [shell EXCEPT ![r] = [state |-> state, token |-> token]]
LastToken == Max({shell[r].token : r \in Requests})

\* The queued requests are claimed with fresh tokens, one after the other.
Claimed ==
  LET order == SetToSeq(InState("queued"))
  IN [r \in Requests |->
        IF r \in InState("queued")
        THEN [state |-> "processing",
              token |-> LastToken + CHOOSE i \in DOMAIN order : order[i] = r]
        ELSE shell[r]]
Attempts(s, state) ==
  {[id |-> r, token |-> s[r].token] : r \in {q \in Requests : s[q].state = state}}

IsAttempt(a, state) == shell[a.id].state = state /\ shell[a.id].token = a.token

Answers(ok, data) == [ok |-> ok, data |-> data, here |-> TRUE]
Execute ==
  CASE call.kind = "recover" -> shell' = shell /\ answer' = Answers(TRUE, Attempts(shell, "applied"))
    [] call.kind = "claim" ->
         /\ LastToken + Cardinality(InState("queued")) <= MaxToken
         /\ shell' = Claimed /\ answer' = Answers(TRUE, Attempts(Claimed, "processing"))
    [] call.kind = "record" ->
         /\ shell' = IF IsAttempt(call.attempt, "processing")
                     THEN Set(call.attempt.id, "applied", call.attempt.token) ELSE shell
         /\ answer' = Answers(IsAttempt(call.attempt, "processing")
                                \/ IsAttempt(call.attempt, "applied")
                                \/ IsAttempt(call.attempt, "done"), {})
    [] call.kind = "ack" ->
         /\ shell' = IF IsAttempt(call.attempt, "applied")
                     THEN Set(call.attempt.id, "done", call.attempt.token) ELSE shell
         /\ answer' = Answers(IsAttempt(call.attempt, "applied")
                                \/ IsAttempt(call.attempt, "done"), {})
    [] call.kind = "abandon" ->
         /\ shell' = IF IsAttempt(call.attempt, "processing")
                     THEN Set(call.attempt.id, "queued", call.attempt.token) ELSE shell
         /\ answer' = Answers(IsAttempt(call.attempt, "processing")
                                \/ shell[call.attempt.id].state = "queued", {})

\* Something happens that the bound counts; the user may decline documents with it.
Incident(declined) ==
  /\ budget.left > 0
  /\ budget' = [left |-> budget.left - 1, declined |-> budget.declined \union declined]

Fault ==
  /\ Incident({})
  /\ answer' = Answers(FALSE, {})
  /\ shell' = IF call.kind = "record" /\ IsAttempt(call.attempt, "processing")
              THEN Set(call.attempt.id, "applied", call.attempt.token) ELSE shell

ShellAnswers ==
  /\ call # NoCall /\ ~answer.here
  /\ Execute /\ UNCHANGED budget
  /\ UNCHANGED <<hint, page, mount, bridge, run, call, ready, opened>>
ShellFails ==
  /\ call # NoCall /\ ~answer.here
  /\ Fault
  /\ UNCHANGED <<hint, page, mount, bridge, run, call, ready, opened>>

\* Somebody asks for a document: the request is kept, and the window gets a hint that may be lost.
Request(r) ==
  /\ shell[r].state = "absent"
  /\ shell' = Set(r, "queued", 0)
  /\ hint' = TRUE
  /\ Incident({})
  /\ UNCHANGED <<page, mount, bridgeVars, ready, opened>>

-----------------------------------------------------------------------------
(* The bridge.                                                             *)

Sync(generation) == [op |-> "sync", generation |-> generation, attempts |-> {}, opens |-> FALSE]
Complete(a)      == [op |-> "complete", generation |-> 0, attempts |-> {a}, opens |-> TRUE]
Abandon(S, opens) == [op |-> "abandon", generation |-> 0, attempts |-> S, opens |-> opens]

Live(generation) == mount.mounted /\ mount.generation = generation
Stale == Head(bridge).op = "sync" /\ ~Live(Head(bridge).generation)

Sends(kind, a) == call' = [kind |-> kind, attempt |-> a] /\ answer' = NoAnswer
SendsNothing == call' = NoCall /\ answer' = NoAnswer

\* MUTANT of EndOp: the end of an open does not make the page look at its queue.
EndOpQuietly(p) ==
  /\ bridge' = Tail(bridge) /\ run' = Idle /\ SendsNothing
  /\ page' = IF Head(bridge).opens THEN [p EXCEPT !.active = NoAttempt] ELSE p

\* The operation ends; the open that waited for it ends too.
EndOp(p) ==
  /\ bridge' = Tail(bridge) /\ run' = Idle /\ SendsNothing
  /\ page' = IF Head(bridge).opens THEN Notified([p EXCEPT !.active = NoAttempt]) ELSE p

Goes(stage, todo, p) ==
  /\ run' = [stage |-> stage, todo |-> todo] /\ SendsNothing /\ page' = p /\ UNCHANGED bridge

\* A notification, a mounted component and a retry of the user synchronize.
StartOp ==
  /\ bridge # <<>> /\ run = Idle
  /\ IF Stale THEN EndOp(page)
     ELSE CASE Head(bridge).op = "sync" ->
                 /\ run' = [stage |-> "recover", todo |-> {}]
                 /\ Sends("recover", NoAttempt) /\ UNCHANGED <<bridge, page>>
            [] Head(bridge).op = "complete" -> Goes("complete", Head(bridge).attempts, page)
            [] Head(bridge).op = "abandon" -> Goes("abandon", Head(bridge).attempts, page)
  /\ UNCHANGED <<shell, hint, mount, ready, budget, opened>>

Recovered ==
  /\ run.stage = "recover" /\ answer.here
  /\ LET p == IF answer.ok THEN Resolved(page, <<"recover", NoAttempt>>)
              ELSE Failed(page, <<"recover", NoAttempt>>)
         q == IF answer.data = {} THEN p ELSE [p EXCEPT !.blocks = TRUE]
         adopted == Notified(FoldSet(AdoptRecovered, q, answer.data))
     IN IF Stale \/ ~answer.ok THEN EndOp(p)
        ELSE Goes("complete", Completions(adopted), adopted)
  /\ UNCHANGED <<shell, hint, mount, ready, budget, opened>>

\* The next attempt to complete or to abandon.
Next1 == CHOOSE a \in run.todo : TRUE

\* The window has seen what it was asked for; what it found keeps it from restoring its last session.
Bootstrapped(p, found) == Notified([p EXCEPT !.bootstrapped = TRUE, !.blocks = @ \/ found])

\* What an operation goes on with when nothing is left to complete or to abandon.
Continue ==
  /\ run.stage \in {"complete", "abandon", "late", "retargeted"} /\ run.todo = {} /\ call = NoCall
  /\ IF run.stage = "retargeted" THEN EndOp(Bootstrapped(page, TRUE))
     ELSE IF Head(bridge).op # "sync" \/ Stale \/ run.stage = "late" THEN EndOp(page)
     ELSE IF run.stage = "complete" THEN Goes("abandon", page.abandoning, page)
     ELSE /\ run' = [stage |-> "claim", todo |-> {}]
          /\ Sends("claim", NoAttempt) /\ UNCHANGED <<bridge, page>>
  /\ UNCHANGED <<shell, hint, mount, ready, budget, opened>>

\* advanceCompletion sends the record or the acknowledgement of an attempt that is current.
SendCompletion ==
  /\ run.stage \in {"complete", "retargeted"} /\ run.todo # {} /\ call = NoCall
  /\ IF Next1 \in Completions(page) /\ IsCurrent(page, Next1)
     THEN /\ Sends(IF Next1 \in page.recording THEN "record" ELSE "ack", Next1)
          /\ UNCHANGED <<run, page, bridge>>
     ELSE Goes(run.stage, run.todo \ {Next1}, WithoutCompletion(page, Next1))
  /\ UNCHANGED <<shell, hint, mount, ready, budget, opened>>

Completed ==
  /\ call.kind \in {"record", "ack"} /\ answer.here
  /\ LET source == <<call.kind, call.attempt>>
         p == IF answer.ok THEN Resolved(page, source) ELSE Failed(page, source)
         rest == run.todo \ {call.attempt}
     IN IF ~answer.ok THEN Goes(run.stage, rest, p)
        ELSE IF call.kind = "record"
        THEN Goes(run.stage, run.todo, [p EXCEPT !.recording = @ \ {call.attempt},
                                                 !.acknowledging = @ \union {call.attempt}])
        ELSE Goes(run.stage, rest, CleanupTerminal(p, call.attempt))
  /\ UNCHANGED <<shell, hint, mount, ready, budget, opened>>

\* sendAbandon, for an attempt that is current or that a synchronization did not want.
SendAbandon ==
  /\ run.stage \in {"abandon", "late"} /\ run.todo # {} /\ call = NoCall
  /\ IF Head(bridge).op = "abandon" /\ ~IsCurrent(page, Next1)
     THEN Goes(run.stage, run.todo \ {Next1}, page)
     ELSE /\ Sends("abandon", Next1)
          /\ page' = [page EXCEPT !.abandoning = @ \union {Next1}]
          /\ UNCHANGED <<run, bridge>>
  /\ UNCHANGED <<shell, hint, mount, ready, budget, opened>>

\* MUTANT of Abandoned: an abandonment that failed is forgotten.
AbandonedOrForgotten ==
  /\ call.kind = "abandon" /\ answer.here
  /\ LET p == IF answer.ok THEN CleanupTerminal(page, call.attempt)
              ELSE [page EXCEPT !.abandoning = @ \ {call.attempt}]
     IN Goes(run.stage, run.todo \ {call.attempt}, p)
  /\ UNCHANGED <<shell, hint, mount, ready, budget, opened>>

Abandoned ==
  /\ call.kind = "abandon" /\ answer.here
  /\ LET source == <<"abandon", call.attempt>>
     IN Goes(run.stage, run.todo \ {call.attempt},
             IF answer.ok THEN CleanupTerminal(Resolved(page, source), call.attempt)
             ELSE Failed(page, source))
  /\ UNCHANGED <<shell, hint, mount, ready, budget, opened>>

\* The claim is adopted, or given back when its component is gone.
ClaimAnswered ==
  /\ run.stage = "claim" /\ answer.here
  /\ LET p == IF answer.ok THEN Resolved(page, <<"claim", NoAttempt>>)
              ELSE Failed(page, <<"claim", NoAttempt>>)
         adopted == AdoptClaim(p, answer.data)
     IN IF ~answer.ok THEN EndOp(p)
        ELSE IF Stale THEN Goes("late", answer.data, p)
        ELSE IF adopted.recording \ page.recording # {}
        THEN Goes("retargeted", Completions(adopted), adopted)
        ELSE EndOp(Bootstrapped(adopted, answer.data # {}))
  /\ UNCHANGED <<shell, hint, mount, ready, budget, opened>>

Bridge ==
  StartOp \/ Recovered \/ SendCompletion \/ Completed \/ SendAbandon \/ Abandoned
    \/ ClaimAnswered \/ Continue

-----------------------------------------------------------------------------
(* The component, the user and the editor.                                 *)

\* ensureListening is answered, and the component synchronizes with or without a listener.
Listen(listens) ==
  /\ mount.mounted /\ ~mount.listening
  /\ mount' = [mount EXCEPT !.listening = TRUE, !.listens = listens]
  /\ bridge' = Append(bridge, Sync(mount.generation))
  /\ page' = IF listens THEN Resolved(page, <<"listener", NoAttempt>>)
             ELSE Failed(page, <<"listener", NoAttempt>>)
  /\ UNCHANGED <<shell, hint, run, call, answer, ready, budget, opened>>

HintArrives ==
  /\ hint /\ hint' = FALSE
  /\ IF mount.mounted /\ mount.listening /\ mount.listens
     THEN bridge' = Append(bridge, Sync(mount.generation)) ELSE UNCHANGED bridge
  /\ UNCHANGED <<shell, page, mount, run, call, answer, ready, budget, opened>>

Unmount ==
  /\ mount.mounted /\ Incident({})
  /\ mount' = [mount EXCEPT !.mounted = FALSE]
  /\ UNCHANGED <<shell, hint, page, bridgeVars, ready, opened>>
Mount ==
  /\ ~mount.mounted
  /\ mount' = [generation |-> mount.generation + 1, mounted |-> TRUE, listening |-> FALSE,
               listens |-> TRUE]
  /\ page' = Notified([page EXCEPT !.muted = @ \ {<<"listener", NoAttempt>>}])  \* the effects run
  /\ UNCHANGED <<shell, hint, bridgeVars, ready, budget, opened>>

\* The page is reloaded: only the shell remembers, and a command it has may still be executed.
Reload ==
  /\ budget.left > 0 /\ budget' = [left |-> budget.left - 1, declined |-> {}]
  /\ page' = NewPage
  /\ mount' = [generation |-> 1, mounted |-> TRUE, listening |-> FALSE, listens |-> TRUE]
  /\ bridge' = <<>> /\ run' = Idle /\ SendsNothing
  /\ ready' = FALSE
  /\ opened' = [opened EXCEPT !.now = [r \in Requests |-> 0]]
  /\ UNCHANGED <<shell, hint>>

\* The user retries: a component that has no listener asks for one again, and synchronizes then.
RetrySynchronization ==
  /\ mount.mounted /\ mount.listening /\ page.errors # {} /\ bridge = <<>>
  /\ IF mount.listens
     THEN bridge' = Append(bridge, Sync(mount.generation)) /\ UNCHANGED mount
     ELSE mount' = [mount EXCEPT !.listening = FALSE, !.listens = TRUE] /\ UNCHANGED bridge
  /\ UNCHANGED <<shell, hint, page, run, call, answer, ready, budget, opened>>

\* The operations that hold a ticket for an error.
Underway ==
  (IF call = NoCall THEN {} ELSE {<<call.kind, call.attempt>>})
    \union (IF mount.listening THEN {} ELSE {<<"listener", NoAttempt>>})
    \union (IF page.opening THEN {<<"apply", page.active>>} ELSE {})

\* The requests an error is about.
About(source) == IF source[2] = NoAttempt THEN Requests ELSE {source[2].id}

\* dismissError, of the error that is shown; which one is the latest is left open.
DismissError(source) ==
  /\ mount.mounted /\ source \in page.errors
  /\ page' = Notified([page EXCEPT !.errors = @ \ {source},
                                   !.muted = @ \union ({source} \intersect Underway)])
  /\ budget' = [budget EXCEPT !.declined = @ \union About(source)]
  /\ UNCHANGED <<shell, hint, mount, bridgeVars, ready, opened>>

\* The editor becomes ready and recovery is decided.
BecomesReady ==
  /\ ~ready /\ ready' = TRUE
  /\ page' = Notified(page)
  /\ UNCHANGED <<shell, hint, mount, bridgeVars, budget, opened>>

Finished(p) == Notified([p EXCEPT !.active = NoAttempt])
Opening(p, a) == Notified([p EXCEPT !.active = a, !.opening = TRUE])

\* The effect that runs pump after a notification: attempts that are not current are skipped.  The
\* document may be dirty or clean: the user edits and saves it at any time.
Pump(dirty) ==
  /\ mount.mounted /\ page.notified
  /\ LET p == [page EXCEPT !.notified = FALSE]
         live == SelectInSeq(p.queue, LAMBDA a : IsCurrent(p, a))
         rest == IF live = 0 THEN <<>> ELSE SubSeq(p.queue, live + 1, Len(p.queue))
         q == [p EXCEPT !.queue = rest]
     IN page' = IF p.active # NoAttempt \/ p.pending # NoAttempt \/ ~ready THEN p
                ELSE IF live = 0 THEN q
                ELSE IF dirty THEN Notified([q EXCEPT !.pending = p.queue[live]])
                ELSE Opening(q, p.queue[live])
  /\ UNCHANGED <<shell, hint, mount, bridgeVars, ready, budget, opened>>

ConfirmDiscard ==
  /\ mount.mounted /\ page.pending # NoAttempt /\ IsCurrent(page, page.pending)
  /\ page' = Opening([page EXCEPT !.pending = NoAttempt], page.pending)
  /\ UNCHANGED <<shell, hint, mount, bridgeVars, ready, budget, opened>>

\* Cancelling drops all that is waiting, to be offered again another time.
CancelDiscard ==
  /\ mount.mounted /\ page.pending # NoAttempt
  /\ Incident({a.id : a \in {page.pending} \union ToSet(page.queue)})
  /\ page' = Notified([page EXCEPT !.pending = NoAttempt, !.queue = <<>>])
  /\ bridge' = Append(bridge, Abandon({page.pending} \union ToSet(page.queue), FALSE))
  /\ UNCHANGED <<shell, hint, mount, run, call, answer, ready, opened>>

\* An open that ended is recorded, or given back; the page waits for the bridge to do so.
Settles(a, p, outcome) ==
  IF outcome = "opened"
  THEN /\ page' = [p EXCEPT !.applied = @ \union {a}, !.recording = @ \union {a}]
       /\ bridge' = Append(bridge, Complete(a))
  ELSE /\ page' = p
       /\ bridge' = Append(bridge, Abandon({a}, TRUE))

\* openPath ends, with a document, without one, or with an exception.
OpenEnds(outcome) ==
  LET a == page.active
      ended == [page EXCEPT !.opening = FALSE]
      p == IF outcome = "threw" THEN Failed(ended, <<"apply", a>>)
           ELSE Resolved(ended, <<"apply", a>>)
  IN /\ a # NoAttempt /\ page.opening
     /\ IF outcome = "opened"
        THEN /\ opened' = [now |-> [opened.now EXCEPT ![a.id] = @ + 1],
                           ever |-> opened.ever \union {a.id}]
             /\ UNCHANGED budget
        ELSE Incident(IF outcome = "refused" THEN {a.id} ELSE {}) /\ UNCHANGED opened
     /\ IF ~IsCurrent(p, a) \/ (outcome # "threw" /\ a \in p.applied)
        THEN page' = Finished(p) /\ UNCHANGED bridge
        ELSE Settles(a, p, outcome)
     /\ UNCHANGED <<shell, hint, mount, run, call, answer, ready>>

Outcomes == {"opened", "refused", "threw"}

Next ==
  \/ \E r \in Requests : Request(r)
  \/ ShellAnswers \/ ShellFails \/ Bridge
  \/ \E listens \in BOOLEAN : Listen(listens)
  \/ HintArrives \/ Unmount \/ Mount \/ Reload \/ RetrySynchronization
  \/ \E source \in page.errors : DismissError(source)
  \/ BecomesReady \/ (\E dirty \in BOOLEAN : Pump(dirty)) \/ ConfirmDiscard \/ CancelDiscard
  \/ \E outcome \in Outcomes : OpenEnds(outcome)

\* Everything the page and the shell do by themselves happens.  Nothing is assumed of the user, nor
\* of an open: openPath may never return (FileWorkflow!OpensEnd).
Fairness ==
  /\ WF_vars(ShellAnswers) /\ WF_vars(Bridge) /\ WF_vars(\E dirty \in BOOLEAN : Pump(dirty)) /\ WF_vars(HintArrives)
  /\ WF_vars(\E listens \in BOOLEAN : Listen(listens)) /\ WF_vars(Mount)
Spec == Init /\ [][Next]_vars /\ Fairness
-----------------------------------------------------------------------------
(* Properties.                                                             *)

\* The attempts an operation of the bridge is still to look at.
OnBridge ==
  (UNION {bridge[i].attempts : i \in (IF run = Idle THEN 1 ELSE 2) .. Len(bridge)}) \union run.todo

\* An attempt the page has seen, and that the shell believes it works on, is in somebody's hands:
\* it is not dropped between the queue, the prompt, the open, its completion and its abandonment,
\* and the page either records it or acknowledges it.
NothingDeliveredIsStranded ==
  /\ page.recording \cap page.acknowledging = {}
  /\ \A r \in InState("processing") :
       At(r) \in page.seen =>
         At(r) \in ToSet(page.queue) \union {page.pending, page.active} \union Completions(page)
                   \union page.abandoning \union OnBridge

\* The shell only forgets a request whose document was opened, and a page opens the document of a
\* request once, whatever is delivered twice or answered late, as long as its component stays
\* mounted.  (After an unmount it may be opened again: see the README.)
DoneWasOpened == InState("done") \subseteq opened.ever
OpenedTwice == {r \in Requests : opened.now[r] > 1}
OpenedExactlyOnce == DoneWasOpened /\ (mount.generation = 1 => OpenedTwice = {})

\* Whenever the editor keeps being free - it is ready, prompts are answered, and opens end, which
\* they need not (FileWorkflow!OpensEnd) - a request is opened and acknowledged, or the user sees an
\* error that is about it, has dismissed one, or has declined it.
UserKnows(r) == r \in budget.declined \union UNION {About(source) : source \in page.errors}
EditorIsFree == ready /\ page.pending = NoAttempt /\ ~page.opening
EveryRequestIsHandled ==
  []<>EditorIsFree =>
    \A r \in Requests : shell[r].state = "queued" ~> shell[r].state = "done" \/ UserKnows(r)
=============================================================================
