-------------------------- MODULE FileWorkflow_proofs --------------------------
(***************************************************************************)
(* Proofs about the documents of a window, for any documents, images,      *)
(* contents, and any number of opens, edits, saves, reloads and faults:    *)
(* the text in the editor is its document's unless a save mixed them up, a *)
(* write excludes the commit and the release of a claim, and unsaved text  *)
(* is only given up by choice or after a save took it for written.         *)
(***************************************************************************)
EXTENDS FileWorkflow, TLAPS

-----------------------------------------------------------------------------
(* The inductive invariant.                                                *)

Stored == Contents \union {Gone}
Documents == Docs \union {None}
Pages == [doc : Documents, text : Contents, saved : Contents \union {None}, dirty : BOOLEAN, rev : Nat,
          error : BOOLEAN, locked : 0 .. MaxOpens, origin : Documents, known : SUBSET Contents,
          passed : BOOLEAN, shown : [Images -> Stored]]
Histories == [whose : [Docs -> Documents], strays : SUBSET (Docs \X Documents)]
Ownerships == [op : OpenIds, doc : Docs]
Flows == [op : 0 .. MaxOpens, opening : BOOLEAN, irreversible : 0 .. MaxOpens,
          owned : Ownerships \union {None}, blocked : BOOLEAN]

\* The stages of an open that cannot be taken back, those of one that names its document, and
\* those of one whose end frees the window for the next.
Final == {"committing", "leaving", "recovering"}
Asking == {"reserving", "reading", "committing"}
Claiming == {"reserving", "reading", "releasing"} \union Final
Bases == {<<d, t, b, n>> : d \in Documents, t \in Contents, b \in BOOLEAN, n \in Nat}
Readings == [text : Stored, origin : Documents]
Openings == [stage : Claiming \union {"none", "watching", "done"}, doc : Documents,
             base : Bases \union {None}, seen : Readings]
Opened(o) ==
  /\ o.stage \in Asking => o.doc \in Docs
  /\ o.stage = "committing" => o.seen.text \in Contents

Irreversible == {"writing", "recording", "written"}
SaveStages == {"preparing", "watching"} \union Irreversible
SaveRuns == [stage : SaveStages, doc : Docs, op : 0 .. MaxOpens, owned : Ownerships \union {None},
             rev : Nat, text : Contents, origin : Documents]
SaveRequests == [kind : {"save"}, text : Contents, origin : Documents]

\* A sequence, whatever its elements are.
IsSequence(q) == q \in Seq({q[i] : i \in 1 .. Len(q)})

PageTyped ==
  /\ disk \in [Files -> Stored] /\ fresh \in Nat
  /\ page \in Pages /\ flow \in Flows /\ past \in Histories
OpensTyped ==
  /\ opens \in [OpenIds -> Openings]
  /\ \A id \in OpenIds : Opened(opens[id])
QueueTyped ==
  /\ IsSequence(queue)
  /\ \A i \in 1 .. Len(queue) : queue[i].kind = "save" => queue[i] \in SaveRequests
  /\ run.stage \in {"idle", "reloading"} \union SaveStages
  /\ run.stage \in SaveStages => run \in SaveRuns
  /\ run.stage # "idle" => queue # <<>>
  /\ page.doc # None => flow.op # 0

\* What the store and the claim say of the document is the same.
Settled ==
  flow.blocked \/ /\ page.doc = None => flow.owned = None
                  /\ page.doc # None => Owns(page.doc)

\* Only the newest open commits, and while it goes on every save can see it.
OpensAreSeen ==
  \A id \in OpenIds :
    /\ id > flow.op => opens[id].stage = "none"
    /\ id = flow.op /\ opens[id].stage \in Claiming => flow.opening
    /\ opens[id].stage \in Final => flow.irreversible = id /\ flow.op = id

\* A save that goes on writing keeps opens from committing, and so its document stays.
SavesExclude ==
  /\ run.stage = "preparing" => run.op <= flow.op /\ (run.op = flow.op => ~flow.opening)
  /\ run.stage \in Irreversible =>
       /\ flow.irreversible = flow.op /\ flow.op # 0 /\ ~flow.opening
       /\ run.op = flow.op /\ page.doc = run.doc /\ flow.owned = run.owned

\* A call of replaceWatchedDocument is of an open or a save that waits for it,
ReplacementsAreAwaited ==
  /\ \A o \in Owners : "stage" \in DOMAIN repl[o]
  /\ DOMAIN repl = Owners
  /\ repl[TheSave].stage # "idle" => run.stage = "watching"
  /\ \A id \in OpenIds : repl[id].stage # "idle" => opens[id].stage \in {"watching", "recovering"}

\* and it has sent the watcher one command at most.
CommandsAreAwaited ==
  /\ calls \in Seq(Owners \union {TheImages})
  /\ \A i \in 1 .. Len(calls) : calls[i] \in Owners => repl[calls[i]].stage = "called"
  /\ \A i, j \in 1 .. Len(calls) : i < j /\ calls[i] = calls[j] => calls[i] \notin Owners
  /\ update.stage # "none" /\ update.command \in Owners =>
       /\ repl[update.command].stage = "called"
       /\ \A i \in 1 .. Len(calls) : calls[i] # update.command

Typed == PageTyped /\ OpensTyped /\ QueueTyped
Consistent ==
  /\ Typed /\ Settled /\ OpensAreSeen /\ SavesExclude
  /\ ReplacementsAreAwaited /\ CommandsAreAwaited
-----------------------------------------------------------------------------
(* Sequences and records.                                                  *)

LEMMA SequenceOfItself ==
  ASSUME NEW S, NEW q \in Seq(S)
  PROVE  IsSequence(q)
<1>1. Len(q) \in Nat /\ q \in [1 .. Len(q) -> S]
  OBVIOUS
<1> DEFINE T == {q[i] : i \in 1 .. Len(q)}
<1>2. q \in [1 .. Len(q) -> T]
  BY <1>1
<1>3. q \in Seq(T)
  BY <1>1, <1>2
<1> QED
  BY <1>3 DEF IsSequence

LEMMA AppendToSequence ==
  ASSUME NEW q, IsSequence(q), NEW e
  PROVE  /\ IsSequence(Append(q, e)) /\ Append(q, e) # <<>>
         /\ Len(q) \in Nat /\ Len(Append(q, e)) = Len(q) + 1
         /\ \A i \in 1 .. Len(q) : Append(q, e)[i] = q[i]
         /\ Append(q, e)[Len(q) + 1] = e
<1> DEFINE S == {q[i] : i \in 1 .. Len(q)}
           T == S \union {e}
<1>1. q \in Seq(S)
  BY DEF IsSequence
<1>2. S \subseteq T /\ e \in T
  OBVIOUS
<1> HIDE DEF S, T
<1>3. q \in Seq(T)
  BY <1>1, <1>2
<1>4. /\ Append(q, e) \in Seq(T) /\ Append(q, e) # <<>>
      /\ Len(q) \in Nat /\ Len(Append(q, e)) = Len(q) + 1
      /\ \A i \in 1 .. Len(q) : Append(q, e)[i] = q[i]
      /\ Append(q, e)[Len(q) + 1] = e
  BY <1>2, <1>3
<1> QED
  BY <1>4, SequenceOfItself

LEMMA TailOfSequence ==
  ASSUME NEW q, IsSequence(q), q # <<>>
  PROVE  /\ IsSequence(Tail(q))
         /\ Len(q) \in Nat \ {0} /\ Len(Tail(q)) = Len(q) - 1 /\ Head(q) = q[1]
         /\ \A i \in 1 .. Len(q) - 1 : Tail(q)[i] = q[i + 1]
<1> DEFINE S == {q[i] : i \in 1 .. Len(q)}
<1>1. q \in Seq(S)
  BY DEF IsSequence
<1> HIDE DEF S
<1>2. /\ Tail(q) \in Seq(S)
      /\ Len(q) \in Nat \ {0} /\ Len(Tail(q)) = Len(q) - 1 /\ Head(q) = q[1]
      /\ \A i \in 1 .. Len(q) - 1 : Tail(q)[i] = q[i + 1]
  BY <1>1
<1> QED
  BY <1>2, SequenceOfItself

\* What the operations on a page change.
LEMMA MarkedPages ==
  ASSUME NEW p \in Pages
  PROVE  /\ Shown(p) \in Pages
         /\ Shown(p).doc = p.doc /\ Shown(p).origin = p.origin /\ Shown(p).text = p.text
         /\ Shown(p).saved = p.saved /\ Shown(p).dirty = p.dirty /\ Shown(p).passed = p.passed
         /\ Unsaved(p) \in Pages /\ Unsaved(p).doc = p.doc /\ Unsaved(p).origin = p.origin
         /\ Unsaved(p).text = p.text /\ Unsaved(p).dirty = TRUE
<1>1. /\ Shown(p) \in Pages
      /\ Shown(p).doc = p.doc /\ Shown(p).origin = p.origin /\ Shown(p).text = p.text
      /\ Shown(p).saved = p.saved /\ Shown(p).dirty = p.dirty /\ Shown(p).passed = p.passed
  BY DEF Pages, Shown
<1>2. Unsaved(p) \in Pages /\ Unsaved(p).doc = p.doc /\ Unsaved(p).origin = p.origin
      /\ Unsaved(p).text = p.text /\ Unsaved(p).dirty = TRUE
  <2>1. p.rev \in Nat
    BY DEF Pages
  <2>2. PICK r \in Nat : r = IF p.dirty THEN p.rev ELSE p.rev + 1
    BY <2>1
  <2>3. Unsaved(p) = [p EXCEPT !.saved = None, !.dirty = TRUE, !.rev = r]
    BY <2>2 DEF Unsaved
  <2> QED
    BY <2>2, <2>3 DEF Pages
<1> QED
  BY <1>1, <1>2

LEMMA FreedPages ==
  ASSUME NEW p \in Pages, NEW id
  PROVE  /\ Freed(p, id) \in Pages
         /\ Freed(p, id).doc = p.doc /\ Freed(p, id).origin = p.origin /\ Freed(p, id).text = p.text
         /\ Freed(p, id).saved = p.saved /\ Freed(p, id).dirty = p.dirty
         /\ Freed(p, id).passed = p.passed
<1>1. p.locked \in 0 .. MaxOpens /\ 0 \in 0 .. MaxOpens
  BY WorkflowAssumption DEF Pages
<1>2. PICK n \in 0 .. MaxOpens : n = IF p.locked = id THEN 0 ELSE p.locked
  BY <1>1
<1>3. Freed(p, id) = [p EXCEPT !.locked = n]
  BY <1>2 DEF Freed
<1> QED
  BY <1>3 DEF Pages

LEMMA ReadPages ==
  ASSUME NEW p \in Pages, NEW c \in Contents, NEW seen \in Readings, seen.text = c
  PROVE  /\ Told(p, c) \in Pages /\ Told(p, c).doc = p.doc /\ Told(p, c).origin = p.origin
         /\ Told(p, c).text = p.text /\ Told(p, c).saved = p.saved /\ Told(p, c).dirty = p.dirty
         /\ Told(p, c).passed = p.passed
         /\ Loaded(p, seen) \in Pages /\ Loaded(p, seen).doc = p.doc
         /\ Loaded(p, seen).origin = seen.origin /\ Loaded(p, seen).text = Loaded(p, seen).saved
<1>1. /\ Told(p, c) \in Pages /\ Told(p, c).doc = p.doc /\ Told(p, c).origin = p.origin
      /\ Told(p, c).text = p.text /\ Told(p, c).saved = p.saved /\ Told(p, c).dirty = p.dirty
      /\ Told(p, c).passed = p.passed
  BY DEF Pages, Told
<1>2. PICK o \in Documents : o = seen.origin
  BY DEF Readings
<1>3. PICK k \in SUBSET Contents : k = {c}
  OBVIOUS
<1>4. Loaded(p, seen) = [p EXCEPT !.text = c, !.origin = o, !.saved = c, !.known = k, !.dirty = FALSE,
                                  !.error = FALSE, !.passed = FALSE]
  BY <1>2, <1>3 DEF Loaded
<1>5. /\ Loaded(p, seen) \in Pages /\ Loaded(p, seen).doc = p.doc
      /\ Loaded(p, seen).origin = o /\ Loaded(p, seen).text = c /\ Loaded(p, seen).saved = c
  BY <1>4 DEF Pages
<1> QED
  BY <1>1, <1>2, <1>5

\* The page after a write: what it says of its text is true, or it was passed.
LEMMA SavedPages ==
  ASSUME NEW p \in Pages, NEW text \in Contents, NEW rev
  PROVE  /\ Marked(p, text, rev) \in Pages
         /\ Marked(p, text, rev).doc = p.doc /\ Marked(p, text, rev).origin = p.origin
         /\ Marked(p, text, rev).text = p.text /\ Marked(p, text, rev).saved = text
         /\ Marked(p, text, rev).dirty \/ Marked(p, text, rev).passed \/ p.text = text
<1> DEFINE late     == p.text # text
           reported == (p.text # p.saved) # late
           revised  == IF reported /\ late THEN p.rev + 1 ELSE p.rev
           dirty    == IF revised = rev THEN FALSE ELSE IF reported THEN late ELSE p.dirty
           passed   == late /\ ~dirty
<1>1. PICK r \in Nat : r = revised
  BY DEF Pages
<1>2. PICK b \in BOOLEAN : b = dirty
  <2>1. p.dirty \in BOOLEAN
    BY DEF Pages
  <2> QED
    BY <2>1, Zenon
<1>3. PICK w \in BOOLEAN : w = passed
  BY Zenon
<1>4. PICK k \in SUBSET Contents : k = {text}
  OBVIOUS
<1>5. Marked(p, text, rev) = [p EXCEPT !.saved = text, !.rev = r, !.dirty = b, !.passed = w,
                                       !.error = FALSE, !.known = k]
  BY <1>1, <1>2, <1>3, <1>4, Zenon DEF Marked
<1>6. b \/ w \/ p.text = text
  BY <1>2, <1>3, Zenon
<1> HIDE DEF late, reported, revised, dirty, passed
<1>7. /\ Marked(p, text, rev) \in Pages
      /\ Marked(p, text, rev).doc = p.doc /\ Marked(p, text, rev).origin = p.origin
      /\ Marked(p, text, rev).text = p.text /\ Marked(p, text, rev).saved = text
      /\ Marked(p, text, rev).dirty = b /\ Marked(p, text, rev).passed = w
  BY <1>5 DEF Pages
<1> QED
  BY <1>6, <1>7, Zenon

LEMMA Flowing ==
  ASSUME NEW f \in Flows, NEW id \in OpenIds
  PROVE  /\ Ended(f, id) \in Flows
         /\ Ended(f, id).op = f.op /\ Ended(f, id).irreversible = f.irreversible
         /\ Ended(f, id).owned = f.owned /\ Ended(f, id).blocked = f.blocked
         /\ f.op # id => Ended(f, id).opening = f.opening
         /\ ~f.opening => ~Ended(f, id).opening
<1>1. PICK b \in BOOLEAN : b = IF f.op = id THEN FALSE ELSE f.opening
  BY DEF Flows
<1>2. Ended(f, id) = [f EXCEPT !.opening = b]
  BY <1>1 DEF Ended
<1>3. /\ Ended(f, id) \in Flows
      /\ Ended(f, id).op = f.op /\ Ended(f, id).irreversible = f.irreversible
      /\ Ended(f, id).owned = f.owned /\ Ended(f, id).blocked = f.blocked
      /\ Ended(f, id).opening = b
  BY <1>2 DEF Flows
<1> QED
  BY <1>1, <1>3, Zenon
-----------------------------------------------------------------------------
(* What a step leaves alone.                                               *)

\* Types, for short.
LEMMA ConsistentFields ==
  ASSUME Consistent
  PROVE  /\ disk \in [Files -> Stored] /\ fresh \in Nat /\ page \in Pages /\ flow \in Flows
         /\ past \in Histories /\ page.dirty \in BOOLEAN /\ page.doc \in Documents /\ page.text \in Contents
         /\ flow.op \in 0 .. MaxOpens /\ flow.opening \in BOOLEAN /\ flow.blocked \in BOOLEAN
         /\ flow.irreversible \in 0 .. MaxOpens
         /\ opens \in [OpenIds -> Openings]
         /\ IsSequence(queue) /\ QueueTyped /\ OpensTyped /\ SavesExclude
         /\ MaxContents \in Nat /\ MaxOpens \in Nat
<1>1. /\ disk \in [Files -> Stored] /\ fresh \in Nat /\ page \in Pages /\ flow \in Flows
      /\ past \in Histories
  BY DEF Consistent, Typed, PageTyped
<1>2. page.dirty \in BOOLEAN /\ page.doc \in Documents /\ page.text \in Contents
  BY <1>1 DEF Pages
<1>3. /\ flow.op \in 0 .. MaxOpens /\ flow.opening \in BOOLEAN /\ flow.blocked \in BOOLEAN
      /\ flow.irreversible \in 0 .. MaxOpens
  BY <1>1 DEF Flows
<1>4. opens \in [OpenIds -> Openings] /\ OpensTyped /\ IsSequence(queue) /\ QueueTyped
  BY DEF Consistent, Typed, OpensTyped, QueueTyped
<1> QED
  BY <1>1, <1>2, <1>3, <1>4, WorkflowAssumption DEF Consistent

LEMMA QueueStays ==
  ASSUME QueueTyped, UNCHANGED <<queue, run>>,
         page'.doc # None => flow'.op # 0
  PROVE  QueueTyped'
BY DEF QueueTyped

\* The running operation ends: the next one is at the head.
LEMMA RunIsOver ==
  ASSUME QueueTyped, queue # <<>>, RunEnds,
         page'.doc = page.doc, flow'.op = flow.op
  PROVE  QueueTyped' /\ run'.stage = "idle"
<1>1. run' = Closed /\ queue' = Tail(queue) /\ run'.stage = "idle"
  BY DEF RunEnds, Closed
<1>2. IsSequence(queue)
  BY DEF QueueTyped
<1>3. PICK q : q = queue'
  OBVIOUS
<1>4. /\ IsSequence(q) /\ Len(queue) \in Nat \ {0} /\ Len(q) = Len(queue) - 1
      /\ \A i \in 1 .. Len(queue) - 1 : q[i] = queue[i + 1]
  BY <1>1, <1>2, <1>3, TailOfSequence
<1>5. \A i \in 1 .. Len(q) : q[i].kind = "save" => q[i] \in SaveRequests
  <2> SUFFICES ASSUME NEW i \in 1 .. Len(q), q[i].kind = "save"
               PROVE  q[i] \in SaveRequests
    OBVIOUS
  <2>1. i + 1 \in 1 .. Len(queue) /\ q[i] = queue[i + 1]
    BY <1>4
  <2> QED
    BY <2>1 DEF QueueTyped
<1>6. page.doc # None => flow.op # 0
  BY DEF QueueTyped
<1>7. run'.stage \notin SaveStages
  BY <1>1 DEF SaveStages, Irreversible
<1> QED
  BY <1>1, <1>3, <1>4, <1>5, <1>6, <1>7 DEF QueueTyped

\* An operation is appended.
LEMMA RunWaits ==
  ASSUME QueueTyped, NEW e, queue' = Append(queue, e), UNCHANGED run,
         e.kind = "save" => e \in SaveRequests,
         page'.doc = page.doc, flow'.op = flow.op
  PROVE  QueueTyped'
<1>1. PICK q : q = queue'
  OBVIOUS
<1>2. /\ IsSequence(q) /\ q # <<>> /\ Len(queue) \in Nat /\ Len(q) = Len(queue) + 1
      /\ \A i \in 1 .. Len(queue) : q[i] = queue[i]
      /\ q[Len(queue) + 1] = e
  BY <1>1, AppendToSequence DEF QueueTyped
<1>3. \A i \in 1 .. Len(q) : q[i].kind = "save" => q[i] \in SaveRequests
  <2> SUFFICES ASSUME NEW i \in 1 .. Len(q), q[i].kind = "save"
               PROVE  q[i] \in SaveRequests
    OBVIOUS
  <2>1. CASE i \in 1 .. Len(queue)
    BY <1>2, <2>1 DEF QueueTyped
  <2>2. CASE i = Len(queue) + 1
    BY <1>2, <2>2
  <2> QED
    BY <1>2, <2>1, <2>2
<1> QED
  BY <1>1, <1>2, <1>3 DEF QueueTyped

LEMMA OpensStay ==
  ASSUME OpensAreSeen, UNCHANGED opens, flow'.op = flow.op, flow'.opening = flow.opening,
         flow'.irreversible = flow.irreversible
  PROVE  OpensAreSeen'
BY DEF OpensAreSeen

LEMMA SettledStays ==
  ASSUME Settled, page'.doc = page.doc, flow'.blocked \/ flow'.owned = flow.owned,
         flow.blocked => flow'.blocked
  PROVE  Settled'
BY DEF Settled, Owns

LEMMA ReplacementsStay ==
  ASSUME ReplacementsAreAwaited, UNCHANGED repl,
         run.stage = "watching" => run'.stage = "watching",
         \A id \in OpenIds : opens[id].stage \in {"watching", "recovering"} =>
                                opens'[id].stage \in {"watching", "recovering"}
  PROVE  ReplacementsAreAwaited'
BY DEF ReplacementsAreAwaited

LEMMA CommandsStay ==
  ASSUME CommandsAreAwaited, UNCHANGED <<repl, calls>>, \/ UNCHANGED update
                                                        \/ update'.stage = "none"
                                                        \/ /\ update.stage # "none"
                                                           /\ update'.command = update.command
  PROVE  CommandsAreAwaited'
BY DEF CommandsAreAwaited

\* Steps that change what is in the editor, and the wire, at most.
LEMMA QuietStep ==
  ASSUME Consistent, UNCHANGED <<flow, opens, queue, run, repl, calls, update>>,
         disk' \in [Files -> Stored], fresh' \in Nat, past' \in Histories, page' \in Pages,
         page'.doc = page.doc
  PROVE  Consistent'
<1>1. PageTyped' /\ OpensTyped'
  BY DEF Consistent, Typed, PageTyped, OpensTyped
<1>2. QueueTyped'
  BY ConsistentFields, QueueStays DEF QueueTyped
<1>3. Settled'
  BY DEF Consistent, Settled, Owns
<1>4. OpensAreSeen' /\ SavesExclude' /\ ReplacementsAreAwaited' /\ CommandsAreAwaited'
  BY DEF Consistent, OpensAreSeen, SavesExclude, ReplacementsAreAwaited, CommandsAreAwaited
<1> QED
  BY <1>1, <1>2, <1>3, <1>4 DEF Consistent, Typed

\* An open that runs takes a step.  While it has a claim in hand and is the newest, no save goes
\* on writing; so it may change the document, what is owned, and what cannot be taken back.
LEMMA OpenStep ==
  ASSUME Consistent, NEW id \in OpenIds, opens[id].stage # "none",
         NEW o \in Openings, Opened(o), opens' = [opens EXCEPT ![id] = o],
         flow' \in Flows, flow'.op = flow.op,
         flow.op # id => flow'.opening = flow.opening, ~flow.opening => ~flow'.opening,
         o.stage \in Claiming => flow'.opening = flow.opening /\ opens[id].stage \in Claiming,
         \/ flow'.irreversible = flow.irreversible
         \/ flow.irreversible \in {0, id} /\ flow.op = id /\ opens[id].stage \in Claiming,
         o.stage \in Final => flow'.irreversible = id /\ flow.op = id,
         \/ flow'.owned = flow.owned /\ page'.doc = page.doc
         \/ flow.op = id /\ opens[id].stage \in Claiming,
         page' \in Pages, UNCHANGED <<disk, fresh, past, queue, run>>,
         Settled', ReplacementsAreAwaited', CommandsAreAwaited'
  PROVE  Consistent'
<1>1. OpensAreSeen /\ SavesExclude
  BY DEF Consistent
<1>2. /\ opens' \in [OpenIds -> Openings] /\ opens'[id] = o
      /\ \A j \in OpenIds : j # id => opens'[j] = opens[j]
  BY ConsistentFields
<1>3. PageTyped' /\ OpensTyped'
  BY <1>2, ConsistentFields DEF PageTyped, OpensTyped
<1>4. id \in Nat \ {0} /\ flow.op \in Nat /\ id <= flow.op
  BY <1>1, WorkflowAssumption, ConsistentFields DEF OpensAreSeen, OpenIds
<1>5. QueueTyped'
  BY <1>4, ConsistentFields, QueueStays
<1>6. ASSUME NEW j \in OpenIds
      PROVE  /\ j > flow'.op => opens'[j].stage = "none"
             /\ j = flow'.op /\ opens'[j].stage \in Claiming => flow'.opening
             /\ opens'[j].stage \in Final => flow'.irreversible = j /\ flow'.op = j
  <2>1. CASE j = id
    BY <1>1, <1>2, <1>4, <2>1 DEF OpensAreSeen, Claiming
  <2>2. CASE j # id
    <3>1. opens'[j] = opens[j]
      BY <1>2, <2>2
    <3>2. j # 0
      BY WorkflowAssumption DEF OpenIds
    <3> QED
      BY <1>1, <2>2, <3>1, <3>2 DEF OpensAreSeen
  <2> QED
    BY <2>1, <2>2
<1>7. OpensAreSeen'
  BY <1>6 DEF OpensAreSeen
<1>8. flow.op = id /\ opens[id].stage \in Claiming => flow.opening
  BY <1>1 DEF OpensAreSeen
<1>9. SavesExclude'
  <2>1. run.stage = "preparing" => run.op <= flow'.op /\ (run.op = flow'.op => ~flow'.opening)
    BY <1>1 DEF SavesExclude
  <2>2. run.stage \in Irreversible =>
          /\ flow'.irreversible = flow'.op /\ flow'.op # 0 /\ ~flow'.opening
          /\ run.op = flow'.op /\ page'.doc = run.doc /\ flow'.owned = run.owned
    BY <1>1, <1>8 DEF SavesExclude
  <2> QED
    BY <2>1, <2>2 DEF SavesExclude
<1> QED
  BY <1>3, <1>5, <1>7, <1>9 DEF Consistent, Typed

\* A new operation begins: nothing that cannot be taken back goes on.
LEMMA OperationBegins ==
  ASSUME Consistent, flow.irreversible = 0, NEW id \in OpenIds, id = flow.op + 1,
         NEW o \in Openings, Opened(o), opens' = [opens EXCEPT ![id] = o],
         flow' \in Flows, flow'.op = id, o.stage \in Claiming => flow'.opening,
         o.stage \in Final => flow'.irreversible = id,
         page' \in Pages, UNCHANGED <<disk, fresh, past, queue, run>>,
         Settled', ReplacementsAreAwaited', CommandsAreAwaited'
  PROVE  Consistent'
<1>1. OpensAreSeen /\ SavesExclude
  BY DEF Consistent
<1>2. /\ opens' \in [OpenIds -> Openings] /\ opens'[id] = o
      /\ \A j \in OpenIds : j # id => opens'[j] = opens[j]
  BY ConsistentFields
<1>3. PageTyped' /\ OpensTyped'
  BY <1>2, ConsistentFields DEF PageTyped, OpensTyped
<1>4. id \in Nat \ {0} /\ flow.op \in Nat
  BY WorkflowAssumption, ConsistentFields DEF OpenIds
<1>5. QueueTyped'
  BY <1>4, ConsistentFields, QueueStays
<1>6. ASSUME NEW j \in OpenIds
      PROVE  /\ j > flow'.op => opens'[j].stage = "none"
             /\ j = flow'.op /\ opens'[j].stage \in Claiming => flow'.opening
             /\ opens'[j].stage \in Final => flow'.irreversible = j /\ flow'.op = j
  <2>1. CASE j = id
    BY <1>2, <1>4, <2>1
  <2>2. CASE j # id
    <3>1. opens'[j] = opens[j] /\ j \in Nat \ {0}
      BY <1>2, <2>2, WorkflowAssumption DEF OpenIds
    <3> QED
      BY <1>1, <1>4, <2>2, <3>1 DEF OpensAreSeen
  <2> QED
    BY <2>1, <2>2
<1>7. OpensAreSeen'
  BY <1>6 DEF OpensAreSeen
<1>8. SavesExclude'
  <2>1. run.stage \notin Irreversible
    BY <1>1 DEF SavesExclude
  <2>2. run.stage = "preparing" => run.op <= id /\ run.op # id
    <3> SUFFICES ASSUME run.stage = "preparing" PROVE run.op <= id /\ run.op # id
      OBVIOUS
    <3>1. run.op \in Nat
      BY ConsistentFields DEF QueueTyped, SaveStages, SaveRuns
    <3>2. run.op <= flow.op
      BY <1>1 DEF SavesExclude
    <3> QED
      BY <1>4, <3>1, <3>2
  <2> QED
    BY <2>1, <2>2 DEF SavesExclude
<1> QED
  BY <1>3, <1>5, <1>7, <1>8 DEF Consistent, Typed
-----------------------------------------------------------------------------
(* The watcher, other programs and the user.                               *)

LEMMA WatcherIsConsistent ==
  ASSUME Consistent, Watcher
  PROVE  Consistent'
<1>1. UNCHANGED <<disk, fresh, past, page, flow, opens, queue, run, repl, calls>>
  BY DEF Watcher, WatcherNext, Notify, WorkerTakes, WorkerCommits, UpdateReads, pageVars
<1>2. CASE UNCHANGED update
  BY <1>1, <1>2, ConsistentFields, QuietStep
<1>3. CASE UpdateReads
  <2>1. update.stage = "reading" /\ update'.command = update.command
    BY <1>3 DEF UpdateReads
  <2>2. CommandsAreAwaited'
    BY <1>1, <2>1, CommandsStay DEF Consistent
  <2>3. Typed' /\ Settled' /\ OpensAreSeen' /\ SavesExclude' /\ ReplacementsAreAwaited'
    BY <1>1 DEF Consistent, Typed, PageTyped, OpensTyped, QueueTyped, Settled, Owns, OpensAreSeen,
                SavesExclude, ReplacementsAreAwaited
  <2> QED
    BY <2>2, <2>3 DEF Consistent
<1> QED
  BY <1>2, <1>3 DEF Watcher, WatcherNext, Notify, WorkerTakes, WorkerCommits

LEMMA WriterIsConsistent ==
  ASSUME Consistent, Writer \/ WatchErrors
  PROVE  Consistent'
<1>1. UNCHANGED <<page, flow, opens, queue, run, repl, calls, update>>
  BY DEF Writer, ExternalWrite, WatchErrors, WorkerGivesUp, NotifierFails, ErrorSent, pageVars
<1>2. disk' \in [Files -> Stored] /\ fresh' \in Nat /\ past' \in Histories
  <2>1. CASE Writer
    <3>1. PICK f \in Files, c \in Stored :
            /\ ExternalWrite(f, c)
            /\ past' = [past EXCEPT !.whose = [d \in Docs |-> IF d = f THEN d ELSE past.whose[d]]]
      BY <2>1 DEF Writer, Stored
    <3>2. disk' = [disk EXCEPT ![f] = c] /\ fresh' \in {fresh, fresh + 1}
      BY <3>1 DEF ExternalWrite
    <3>3. past \in Histories
      BY ConsistentFields
    <3>4. PICK w \in [Docs -> Documents] : w = [d \in Docs |-> IF d = f THEN d ELSE past.whose[d]]
      BY <3>3 DEF Histories, Documents
    <3>5. past' \in Histories
      BY <3>1, <3>3, <3>4 DEF Histories
    <3> QED
      BY <3>2, <3>5, ConsistentFields
  <2>2. CASE WatchErrors
    BY <2>2, ConsistentFields DEF WatchErrors, WorkerGivesUp, NotifierFails, ErrorSent, pageVars
  <2> QED
    BY <2>1, <2>2
<1> QED
  BY <1>1, <1>2, ConsistentFields, QuietStep

LEMMA ReceiveIsConsistent ==
  ASSUME Consistent, Receive
  PROVE  Consistent'
<1>1. UNCHANGED <<disk, fresh, past, flow, opens, run, repl, calls, update>>
  BY DEF Receive
<1>2. PICK e : e = Head(wire)
  OBVIOUS
<1>3. CASE UNCHANGED queue /\ page' \in Pages /\ page'.doc = page.doc
  BY <1>1, <1>3, ConsistentFields, QuietStep
<1>4. CASE UNCHANGED page /\ ~UNCHANGED queue
  <2>1. PICK v : queue' = Append(queue, [kind |-> "event", version |-> v])
    BY <1>2, <1>4 DEF Receive
  <2>2. QueueTyped'
    <3>1. PICK op : op = [kind |-> "event", version |-> v]
      OBVIOUS
    <3>2. op.kind # "save" /\ queue' = Append(queue, op)
      BY <2>1, <3>1
    <3> QED
      BY <1>1, <1>4, <3>2, ConsistentFields, RunWaits
  <2>3. /\ PageTyped' /\ OpensTyped' /\ Settled' /\ OpensAreSeen' /\ SavesExclude'
        /\ ReplacementsAreAwaited' /\ CommandsAreAwaited'
    BY <1>1, <1>4 DEF Consistent, Typed, PageTyped, OpensTyped, Settled, Owns, OpensAreSeen,
                SavesExclude, ReplacementsAreAwaited, CommandsAreAwaited
  <2> QED
    BY <2>2, <2>3 DEF Consistent, Typed
<1>5. page' \in Pages /\ page'.doc = page.doc
  <2>1. CASE page' = Shown(page) \/ page' = Shown(Unsaved(page)) \/ page' = page
    <3>1. page \in Pages
      BY ConsistentFields
    <3>2. PICK p \in Pages : p = Unsaved(page) /\ p.doc = page.doc
      BY <3>1, MarkedPages
    <3> QED
      BY <2>1, <3>1, <3>2, MarkedPages
  <2>2. CASE e.file \in Images /\ page' = [page EXCEPT !.shown[e.file] = disk[e.file]]
    <3>1. e.file \in Images /\ e.file \in Files
      BY <2>2 DEF Files
    <3>2. disk[e.file] \in Stored
      BY <3>1, ConsistentFields
    <3>3. page.shown \in [Images -> Stored] /\ page \in Pages
      BY ConsistentFields DEF Pages
    <3>4. PICK s \in [Images -> Stored] : s = [page.shown EXCEPT ![e.file] = disk[e.file]]
      BY <3>1, <3>2, <3>3
    <3>5. page' = [page EXCEPT !.shown = s]
      BY <2>2, <3>4
    <3> QED
      BY <3>3, <3>5 DEF Pages
  <2> QED
    BY <1>2, <2>1, <2>2 DEF Receive
<1>6. UNCHANGED page \/ UNCHANGED queue
  BY <1>2 DEF Receive
<1> QED
  BY <1>3, <1>4, <1>5, <1>6

LEMMA UserIsConsistent ==
  ASSUME Consistent, RequestSave \/ ReloadFromDisk \/ KeepCurrentContent \/ Edit
  PROVE  Consistent'
<1>1. UNCHANGED <<disk, past, flow, opens, run, repl, calls, update>>
  BY DEF RequestSave, ReloadFromDisk, KeepCurrentContent, Edit, serviceVars
<1>2. CASE RequestSave \/ ReloadFromDisk
  <2>1. UNCHANGED <<page, fresh>>
    BY <1>2 DEF RequestSave, ReloadFromDisk, serviceVars
  <2>2. PICK op : /\ queue' = Append(queue, op)
                  /\ op.kind = "save" => op \in SaveRequests
    <3>1. CASE RequestSave
      <4>1. PICK op : op = [kind |-> "save", text |-> page.text, origin |-> page.origin]
        OBVIOUS
      <4>2. op \in SaveRequests
        BY <4>1, ConsistentFields DEF SaveRequests, Pages
      <4> QED
        BY <3>1, <4>1, <4>2 DEF RequestSave
    <3>2. CASE ReloadFromDisk
      <4>1. PICK op : op = [kind |-> "chosen", version |-> hook.conflict]
        OBVIOUS
      <4>2. op.kind # "save"
        BY <4>1
      <4> QED
        BY <3>2, <4>1, <4>2 DEF ReloadFromDisk
    <3> QED
      BY <1>2, <3>1, <3>2
  <2>3. QueueTyped'
    BY <1>1, <2>1, <2>2, ConsistentFields, RunWaits
  <2>4. /\ PageTyped' /\ OpensTyped' /\ Settled' /\ OpensAreSeen' /\ SavesExclude'
        /\ ReplacementsAreAwaited' /\ CommandsAreAwaited'
    BY <1>1, <2>1 DEF Consistent, Typed, PageTyped, OpensTyped, Settled, Owns, OpensAreSeen,
                SavesExclude, ReplacementsAreAwaited, CommandsAreAwaited
  <2> QED
    BY <2>3, <2>4 DEF Consistent, Typed
<1>3. CASE KeepCurrentContent
  <2>1. UNCHANGED <<page, fresh, queue>>
    BY <1>3 DEF KeepCurrentContent, serviceVars
  <2> QED
    BY <1>1, <2>1, ConsistentFields, QuietStep
<1>4. CASE Edit
  <2>1. /\ page' = [page EXCEPT !.text = fresh, !.dirty = TRUE, !.rev = page.rev + 1, !.passed = FALSE]
        /\ fresh' = fresh + 1 /\ fresh <= MaxContents /\ UNCHANGED queue
    BY <1>4 DEF Edit
  <2>2. fresh \in Contents /\ fresh' \in Nat
    BY <2>1, ConsistentFields DEF Contents
  <2>3. page.rev \in Nat
    BY ConsistentFields DEF Pages
  <2>4. PICK r \in Nat : r = page.rev + 1
    BY <2>3
  <2>5. page' \in Pages /\ page'.doc = page.doc
    BY <2>1, <2>2, <2>4, ConsistentFields DEF Pages
  <2> QED
    BY <1>1, <2>1, <2>2, <2>5, ConsistentFields, QuietStep
<1> QED
  BY <1>2, <1>3, <1>4
-----------------------------------------------------------------------------
(* Watching a document.                                                    *)

LEMMA OwnersAndImages ==
  /\ TheSave \in Owners /\ OpenIds \subseteq Owners /\ TheImages \notin Owners
  /\ \A id \in OpenIds : id # TheSave /\ id \in Nat
  /\ \A o \in Owners : o # TheSave => o \in OpenIds
BY WorkflowAssumption DEF TheSave, TheImages, Owners, OpenIds

\* A call that was answered has no command underway: what becomes of it concerns nothing else.
LEMMA AnsweredCallChanges ==
  ASSUME CommandsAreAwaited, DOMAIN repl = Owners,
         NEW owner \in Owners, repl[owner].stage # "called",
         NEW v, repl' = [repl EXCEPT ![owner] = v], UNCHANGED <<calls, update>>
  PROVE  CommandsAreAwaited'
<1>1. \A o \in Owners : o # owner => repl'[o] = repl[o]
  OBVIOUS
<1>2. \A i \in 1 .. Len(calls) : calls[i] # owner
  BY DEF CommandsAreAwaited
<1>3. update.stage # "none" => update.command # owner
  BY DEF CommandsAreAwaited
<1> QED
  BY <1>1, <1>2, <1>3 DEF CommandsAreAwaited

\* A command is sent for a call that has none underway.
LEMMA CommandIsSent ==
  ASSUME CommandsAreAwaited, DOMAIN repl = Owners,
         NEW owner \in Owners \union {TheImages}, owner \in Owners => repl[owner].stage # "called",
         calls' = Append(calls, owner), UNCHANGED update,
         \A o \in Owners : o # owner => repl'[o] = repl[o],
         owner \in Owners => repl'[owner].stage = "called"
  PROVE  CommandsAreAwaited'
<1>1. PICK q : q = calls'
  OBVIOUS
<1>2. calls \in Seq(Owners \union {TheImages})
  BY DEF CommandsAreAwaited
<1>3. /\ q \in Seq(Owners \union {TheImages}) /\ Len(calls) \in Nat
      /\ Len(q) = Len(calls) + 1 /\ q[Len(calls) + 1] = owner
      /\ \A i \in 1 .. Len(calls) : q[i] = calls[i]
  BY <1>1, <1>2
<1>4. owner \in Owners => /\ \A i \in 1 .. Len(calls) : calls[i] # owner
                          /\ update.stage # "none" => update.command # owner
  BY DEF CommandsAreAwaited
<1>5. \A i \in 1 .. Len(q) : q[i] \in Owners => repl'[q[i]].stage = "called"
  <2> SUFFICES ASSUME NEW i \in 1 .. Len(q), q[i] \in Owners
               PROVE  repl'[q[i]].stage = "called"
    OBVIOUS
  <2>1. CASE i = Len(calls) + 1
    BY <1>3, <2>1
  <2>2. CASE i \in 1 .. Len(calls)
    <3>1. q[i] = calls[i] /\ q[i] # owner
      BY <1>3, <1>4, <2>2
    <3> QED
      BY <3>1, <2>2 DEF CommandsAreAwaited
  <2> QED
    BY <1>3, <2>1, <2>2
<1>6. \A i, j \in 1 .. Len(q) : i < j /\ q[i] = q[j] => q[i] \notin Owners
  <2> SUFFICES ASSUME NEW i \in 1 .. Len(q), NEW j \in 1 .. Len(q), i < j, q[i] = q[j]
               PROVE  q[i] \notin Owners
    OBVIOUS
  <2>1. i \in 1 .. Len(calls) /\ q[i] = calls[i]
    BY <1>3
  <2>2. CASE j = Len(calls) + 1
    BY <1>3, <1>4, <2>1, <2>2
  <2>3. CASE j \in 1 .. Len(calls)
    BY <1>3, <2>1, <2>3 DEF CommandsAreAwaited
  <2> QED
    BY <1>3, <2>2, <2>3
<1>7. update.stage # "none" /\ update.command \in Owners =>
        /\ repl'[update.command].stage = "called"
        /\ \A i \in 1 .. Len(q) : q[i] # update.command
  <2> SUFFICES ASSUME update.stage # "none", update.command \in Owners
               PROVE  /\ repl'[update.command].stage = "called"
                      /\ \A i \in 1 .. Len(q) : q[i] # update.command
    OBVIOUS
  <2>1. update.command # owner
    BY <1>4
  <2>2. repl'[update.command].stage = "called"
    BY <2>1 DEF CommandsAreAwaited
  <2>3. ASSUME NEW i \in 1 .. Len(q) PROVE q[i] # update.command
    <3>1. CASE i = Len(calls) + 1
      BY <3>1, <2>1, <1>3
    <3>2. CASE i \in 1 .. Len(calls)
      BY <3>2, <1>3 DEF CommandsAreAwaited
    <3> QED
      BY <1>3, <3>1, <3>2
  <2> QED
    BY <2>2, <2>3
<1> QED
  BY <1>1, <1>3, <1>5, <1>6, <1>7 DEF CommandsAreAwaited

LEMMA StartOfReplace ==
  ASSUME Consistent, NEW owner \in Owners, repl[owner].stage = "idle",
         NEW h, NEW path, NEW known, StartReplace(owner, h, path, known), UNCHANGED update
  PROVE  /\ CommandsAreAwaited'
         /\ DOMAIN repl' = Owners /\ \A o \in Owners : "stage" \in DOMAIN repl'[o]
         /\ \A o \in Owners : o # owner => repl'[o] = repl[o]
         /\ h.watched = path => repl'[owner].stage = "idle"
<1>1. DOMAIN repl = Owners /\ CommandsAreAwaited /\ \A o \in Owners : "stage" \in DOMAIN repl[o]
  BY DEF Consistent, ReplacementsAreAwaited
<1>2. CASE h.watched = path
  <2>1. UNCHANGED <<repl, calls>>
    BY <1>2 DEF StartReplace
  <2> QED
    BY <1>1, <2>1, CommandsStay
<1>3. CASE h.watched # path
  <2>1. PICK v : /\ v = [stage |-> "called", path |-> path, known |-> known,
                         gen |-> h.gen + 1, doc |-> None]
                 /\ repl' = [repl EXCEPT ![owner] = v] /\ calls' = Append(calls, owner)
    BY <1>3 DEF StartReplace
  <2>2. v.stage = "called" /\ "stage" \in DOMAIN v
    BY <2>1
  <2>3. repl'[owner] = v /\ DOMAIN repl' = Owners /\ \A o \in Owners : o # owner => repl'[o] = repl[o]
    BY <1>1, <2>1
  <2>4. CommandsAreAwaited'
    BY <1>1, <2>1, <2>2, <2>3, CommandIsSent
  <2> QED
    BY <1>1, <1>3, <2>2, <2>3, <2>4
<1> QED
  BY <1>2, <1>3
\* The watcher takes a command up, or answers it.
LEMMA CallBeginsIsConsistent ==
  ASSUME Consistent, CallBegins \/ SyncImages
  PROVE  Consistent'
<1>1. UNCHANGED <<disk, fresh, past, page, flow, opens, queue, run, repl>>
  BY DEF CallBegins, SyncImages, serviceVars
<1>2. Typed' /\ Settled' /\ OpensAreSeen' /\ SavesExclude' /\ ReplacementsAreAwaited'
  BY <1>1 DEF Consistent, Typed, PageTyped, OpensTyped, QueueTyped, Settled, Owns, OpensAreSeen,
              SavesExclude, ReplacementsAreAwaited
<1>3. CASE SyncImages
  <2>1. calls' = Append(calls, TheImages) /\ UNCHANGED update
    BY <1>3 DEF SyncImages, serviceVars
  <2>2. DOMAIN repl = Owners /\ CommandsAreAwaited
    BY DEF Consistent, ReplacementsAreAwaited
  <2>3. CommandsAreAwaited'
    BY <1>1, <2>1, <2>2, OwnersAndImages, CommandIsSent
  <2> QED
    BY <1>2, <2>3 DEF Consistent
<1>4. CASE CallBegins
  <2>1. calls # <<>> /\ calls' = Tail(calls)
    BY <1>4 DEF CallBegins
  <2>2. PICK next : update' = [stage |-> "reading", command |-> Head(calls), next |-> next]
    BY <1>4 DEF CallBegins, BeginUpdate
  <2>3. update'.command = Head(calls)
    BY <2>2
  <2>4. CommandsAreAwaited
    BY DEF Consistent
  <2>5. calls \in Seq(Owners \union {TheImages})
    BY <2>4 DEF CommandsAreAwaited
  <2>6. PICK q : q = calls'
    OBVIOUS
  <2>7. /\ q \in Seq(Owners \union {TheImages}) /\ Len(calls) \in Nat \ {0}
        /\ Len(q) = Len(calls) - 1 /\ Head(calls) = calls[1]
        /\ \A i \in 1 .. Len(q) : q[i] = calls[i + 1]
    BY <2>1, <2>5, <2>6
  <2>8. \A i \in 1 .. Len(q) : i + 1 \in 1 .. Len(calls) /\ 1 < i + 1
    BY <2>7
  <2>9. \A i \in 1 .. Len(q) : q[i] \in Owners => repl[q[i]].stage = "called"
    BY <2>4, <2>7, <2>8 DEF CommandsAreAwaited
  <2>10. ASSUME NEW i \in 1 .. Len(q), NEW j \in 1 .. Len(q), i < j, q[i] = q[j]
         PROVE  q[i] \notin Owners
    <3>1. i + 1 < j + 1 /\ i + 1 \in 1 .. Len(calls) /\ j + 1 \in 1 .. Len(calls)
      BY <2>7, <2>10
    <3>2. calls[i + 1] = calls[j + 1]
      BY <2>7, <2>10
    <3>3. calls[i + 1] \notin Owners
      BY <2>4, <3>1, <3>2 DEF CommandsAreAwaited
    <3> QED
      BY <2>7, <3>3
  <2>11. 1 \in 1 .. Len(calls)
    BY <2>7
  <2>12. Head(calls) \in Owners => repl[Head(calls)].stage = "called"
    BY <2>4, <2>7, <2>11 DEF CommandsAreAwaited
  <2>13. Head(calls) \in Owners => \A i \in 1 .. Len(q) : q[i] # Head(calls)
    <3> SUFFICES ASSUME NEW i \in 1 .. Len(q), q[i] = calls[1] PROVE calls[1] \notin Owners
      BY <2>7
    <3>1. calls[1] = calls[i + 1]
      BY <2>7
    <3> QED
      BY <2>4, <2>8, <2>11, <3>1 DEF CommandsAreAwaited
  <2>14. CommandsAreAwaited'
    BY <1>1, <2>3, <2>6, <2>7, <2>9, <2>10, <2>12, <2>13 DEF CommandsAreAwaited
  <2> QED
    BY <1>2, <2>14 DEF Consistent
<1> QED
  BY <1>3, <1>4

LEMMA CallEndsIsConsistent ==
  ASSUME Consistent, NEW owner \in Owners \union {TheImages}, CallEnds(owner)
  PROVE  Consistent'
<1>1. UNCHANGED <<disk, fresh, past, page, flow, opens, queue, run, calls>>
  BY DEF CallEnds
<1>2. PageTyped' /\ OpensTyped' /\ QueueTyped' /\ Settled' /\ OpensAreSeen' /\ SavesExclude'
  BY <1>1 DEF Consistent, Typed, PageTyped, OpensTyped, QueueTyped, Settled, Owns, OpensAreSeen,
              SavesExclude
<1>3. /\ update.stage # "none" /\ update.command = owner /\ update'.stage = "none"
      /\ Answered(owner, TRUE) \/ Answered(owner, FALSE)
  <2>1. update' = NoUpdate /\ update.stage \in {"reading", "dispatching"} /\ update.command = owner
    BY DEF CallEnds, UpdateEnds, UpdateFails
  <2>2. Answered(owner, TRUE) \/ Answered(owner, FALSE)
    BY DEF CallEnds
  <2> QED
    BY <2>1, <2>2 DEF NoUpdate
<1>4. CommandsAreAwaited /\ ReplacementsAreAwaited
  BY DEF Consistent
<1>5. CASE owner = TheImages
  <2>1. repl' = repl
    BY <1>3, <1>5 DEF Answered
  <2>2. CommandsAreAwaited' /\ ReplacementsAreAwaited'
    BY <1>1, <1>3, <1>4, <2>1, CommandsStay, ReplacementsStay
  <2> QED
    BY <1>2, <2>2 DEF Consistent, Typed
<1>6. CASE owner # TheImages
  <2>1. owner \in Owners /\ DOMAIN repl = Owners
    BY <1>4, <1>6 DEF ReplacementsAreAwaited
  <2>2. PICK v : repl' = [repl EXCEPT ![owner] = v] /\ "stage" \in DOMAIN v /\ v.stage = "answered"
    <3>1. PICK ok \in BOOLEAN : Answered(owner, ok)
      BY <1>3
    <3>2. PICK v : /\ repl' = [repl EXCEPT ![owner] = v]
                   /\ v = [stage |-> "answered", ok |-> ok, path |-> repl[owner].path,
                           known |-> repl[owner].known, gen |-> repl[owner].gen,
                           doc |-> repl[owner].doc,
                           print |-> IF repl[owner].doc = None THEN None
                                     ELSE registry.print[repl[owner].doc]]
      BY <1>6, <3>1 DEF Answered
    <3>3. "stage" \in DOMAIN v /\ v.stage = "answered"
      BY <3>2
    <3> QED
      BY <3>2, <3>3
  <2>7. /\ repl'[owner] = v /\ DOMAIN repl' = Owners
        /\ \A o \in Owners : o # owner => repl'[o] = repl[o]
    BY <2>1, <2>2
  <2>8. repl[owner].stage = "called" /\ \A i \in 1 .. Len(calls) : calls[i] # owner
    BY <1>3, <1>4, <2>1 DEF CommandsAreAwaited
  <2>9. CommandsAreAwaited'
    BY <1>1, <1>3, <1>4, <2>7, <2>8 DEF CommandsAreAwaited
  <2>10. ReplacementsAreAwaited'
    <3>1. \A o \in Owners : "stage" \in DOMAIN repl'[o]
      BY <1>4, <2>2, <2>7 DEF ReplacementsAreAwaited
    <3>2. \A o \in Owners : repl'[o].stage # "idle" => repl[o].stage # "idle"
      BY <2>7, <2>8
    <3> QED
      BY <1>1, <1>4, <2>7, <3>1, <3>2, OwnersAndImages DEF ReplacementsAreAwaited
  <2> QED
    BY <1>2, <2>9, <2>10 DEF Consistent, Typed
<1> QED
  BY <1>5, <1>6
\* An open that names no document any more.
LEMMA NamelessOpen ==
  ASSUME NEW st \in {"releasing", "watching", "recovering", "done"}
  PROVE  /\ [NoOpen EXCEPT !.stage = st] \in Openings /\ Opened([NoOpen EXCEPT !.stage = st])
         /\ [NoOpen EXCEPT !.stage = st].stage = st
<1>1. 0 \in Stored /\ None \in Documents
  BY WorkflowAssumption DEF Stored, Contents, Documents
<1>2. Blank \in Readings
  BY <1>1 DEF Blank, Readings
<1>3. PICK b \in Readings : b = Blank
  BY <1>2
<1>4. [NoOpen EXCEPT !.stage = st] = [stage |-> st, doc |-> None, base |-> None, seen |-> b]
  BY <1>3 DEF NoOpen
<1>5. st \in Claiming \union {"none", "watching", "done"} /\ st \notin Asking /\ st # "committing"
  BY DEF Claiming, Asking, Final
<1> QED
  BY <1>1, <1>4, <1>5 DEF Openings, Opened

LEMMA FinishIsConsistent ==
  ASSUME Consistent, NEW owner \in Owners, repl[owner].stage \in {"answered", "reading"},
         NEW p \in Pages, p.doc = page.doc, Finish(owner, p),
         UNCHANGED <<disk, fresh, past, calls, update>>
  PROVE  Consistent'
<1>1. /\ DOMAIN repl = Owners /\ CommandsAreAwaited /\ ReplacementsAreAwaited
      /\ OpensAreSeen /\ SavesExclude /\ Settled
  BY DEF Consistent, ReplacementsAreAwaited
<1>2. repl[owner].stage # "called" /\ repl[owner].stage # "idle"
  OBVIOUS
<1>3. repl' = [repl EXCEPT ![owner] = Closed] /\ page' = Freed(p, owner)
  BY DEF Finish
<1>4. CommandsAreAwaited' /\ page' \in Pages /\ page'.doc = page.doc
  BY <1>1, <1>2, <1>3, AnsweredCallChanges, FreedPages
<1>5. Closed.stage = "idle" /\ "stage" \in DOMAIN Closed
  BY DEF Closed
<1>6. /\ DOMAIN repl' = Owners /\ repl'[owner].stage = "idle"
      /\ \A o \in Owners : "stage" \in DOMAIN repl'[o]
      /\ \A o \in Owners : o # owner => repl'[o] = repl[o]
  <2>1. repl'[owner] = Closed /\ DOMAIN repl' = Owners
    BY <1>1, <1>3
  <2>2. \A o \in Owners : o # owner => repl'[o] = repl[o]
    BY <1>1, <1>3
  <2> QED
    BY <1>1, <1>5, <2>1, <2>2 DEF ReplacementsAreAwaited
<1>7. CASE owner = TheSave
  <2>1. RunEnds /\ UNCHANGED <<opens, flow>>
    BY <1>7 DEF Finish, RunEnds
  <2>2. run.stage = "watching"
    BY <1>1, <1>2, <1>7 DEF ReplacementsAreAwaited
  <2>3. queue # <<>>
    BY <2>2, ConsistentFields DEF QueueTyped
  <2>4. QueueTyped' /\ run'.stage = "idle"
    BY <1>4, <2>1, <2>3, ConsistentFields, RunIsOver
  <2>5. PageTyped' /\ OpensTyped'
    BY <1>4, <2>1, ConsistentFields DEF PageTyped, OpensTyped
  <2>6. Settled' /\ OpensAreSeen'
    BY <1>1, <1>4, <2>1 DEF Settled, Owns, OpensAreSeen
  <2>7. SavesExclude'
    BY <2>4 DEF SavesExclude, Irreversible
  <2>8. ReplacementsAreAwaited'
    BY <1>1, <1>6, <1>7, <2>1, OwnersAndImages DEF ReplacementsAreAwaited
  <2> QED
    BY <1>4, <2>4, <2>5, <2>6, <2>7, <2>8 DEF Consistent, Typed
<1>8. CASE owner # TheSave
  <2>1. owner \in OpenIds /\ opens[owner].stage \in {"watching", "recovering"}
    BY <1>1, <1>2, <1>8, OwnersAndImages DEF ReplacementsAreAwaited
  <2>2. PICK n \in 0 .. MaxOpens :
          n = IF opens[owner].stage = "recovering" THEN 0 ELSE flow.irreversible
    BY WorkflowAssumption, ConsistentFields
  <2>3. PICK f : f = [flow EXCEPT !.irreversible = n]
    OBVIOUS
  <2>4. /\ f \in Flows /\ f.op = flow.op /\ f.opening = flow.opening /\ f.owned = flow.owned
        /\ f.blocked = flow.blocked /\ f.irreversible = n
    BY <2>3, ConsistentFields DEF Flows
  <2>5. PICK o : o = [NoOpen EXCEPT !.stage = "done"]
    OBVIOUS
  <2>6. o \in Openings /\ Opened(o) /\ o.stage = "done"
    BY <2>5, NamelessOpen
  <2>7. opens' = [opens EXCEPT ![owner] = o] /\ UNCHANGED <<run, queue>>
    BY <1>8, <2>5 DEF Finish
  <2>8. flow' = Ended(f, owner)
    <3>1. CASE opens[owner].stage = "recovering"
      BY <1>8, <2>2, <2>3, <3>1 DEF Finish
    <3>2. CASE opens[owner].stage # "recovering"
      <4>1. f = flow
        BY <2>2, <2>3, <3>2, ConsistentFields DEF Flows
      <4> QED
        BY <1>8, <3>2, <4>1 DEF Finish
    <3> QED
      BY <3>1, <3>2
  <2>9. /\ flow' \in Flows /\ flow'.op = flow.op /\ flow'.irreversible = n
        /\ flow'.owned = flow.owned /\ flow'.blocked = flow.blocked
        /\ flow.op # owner => flow'.opening = flow.opening
        /\ ~flow.opening => ~flow'.opening
    BY <2>1, <2>4, <2>8, Flowing
  <2>10. \/ flow'.irreversible = flow.irreversible
         \/ flow.irreversible \in {0, owner} /\ flow.op = owner /\ opens[owner].stage \in Claiming
    BY <1>1, <2>1, <2>2, <2>9 DEF OpensAreSeen, Final, Claiming
  <2>11. Settled'
    BY <1>1, <1>4, <2>9, SettledStays
  <2>12. /\ opens'[owner] = o
         /\ \A id \in OpenIds : id # owner => opens'[id] = opens[id]
    BY <2>1, <2>7, ConsistentFields
  <2>13. ReplacementsAreAwaited'
    BY <1>1, <1>6, <1>8, <2>7, <2>12, OwnersAndImages DEF ReplacementsAreAwaited
  <2>14. o.stage \notin Claiming /\ o.stage \notin Final
    BY <2>6 DEF Claiming, Final
  <2> QED
    BY <1>4, <2>1, <2>6, <2>7, <2>9, <2>10, <2>11, <2>13, <2>14, OpenStep
<1> QED
  BY <1>7, <1>8

\* The call of an owner that was answered is superseded, compares the file or is made again.
LEMMA AnotherStage ==
  ASSUME Consistent, NEW owner \in Owners, repl[owner].stage \in {"answered", "reading"},
         NEW v, "stage" \in DOMAIN v, repl' = [repl EXCEPT ![owner] = v],
         UNCHANGED <<disk, fresh, past, update, page, flow, opens, queue, run>>,
         \/ UNCHANGED calls
         \/ calls' = Append(calls, owner) /\ v.stage = "called"
  PROVE  Consistent'
<1>1. DOMAIN repl = Owners /\ CommandsAreAwaited /\ ReplacementsAreAwaited
  BY DEF Consistent, ReplacementsAreAwaited
<1>2. repl[owner].stage # "called" /\ repl[owner].stage # "idle"
  OBVIOUS
<1>3. /\ DOMAIN repl' = Owners /\ repl'[owner] = v
      /\ \A o \in Owners : o # owner => repl'[o] = repl[o]
  BY <1>1
<1>4. CommandsAreAwaited'
  <2>1. CASE UNCHANGED calls
    BY <1>1, <1>2, <2>1, AnsweredCallChanges
  <2>2. CASE calls' = Append(calls, owner) /\ v.stage = "called"
    BY <1>1, <1>2, <1>3, <2>2, CommandIsSent
  <2> QED
    BY <2>1, <2>2
<1>5. ReplacementsAreAwaited'
  BY <1>1, <1>2, <1>3, OwnersAndImages DEF ReplacementsAreAwaited
<1>6. Typed' /\ Settled' /\ OpensAreSeen' /\ SavesExclude'
  BY DEF Consistent, Typed, PageTyped, OpensTyped, QueueTyped, Settled, Owns, OpensAreSeen,
         SavesExclude
<1> QED
  BY <1>4, <1>5, <1>6 DEF Consistent

LEMMA SupersededIsConsistent ==
  ASSUME Consistent, NEW owner \in Owners, repl[owner].stage \in {"answered", "reading"},
         Superseded(owner), UNCHANGED <<disk, fresh, past, calls, update>>
  PROVE  Consistent'
<1>1. PICK v : v = [stage |-> "superseded"]
  OBVIOUS
<1>2. repl' = [repl EXCEPT ![owner] = v] /\ UNCHANGED <<flow, opens, queue, run, page>>
  BY <1>1 DEF Superseded
<1>3. "stage" \in DOMAIN v
  BY <1>1
<1> QED
  BY <1>2, <1>3, AnotherStage

LEMMA ReplaceContinuesIsConsistent ==
  ASSUME Consistent, NEW owner \in Owners, ReplaceContinues(owner)
  PROVE  Consistent'
<1>1. repl[owner].stage \in {"answered", "reading"} /\ UNCHANGED <<disk, fresh, past, update>>
  BY DEF ReplaceContinues, serviceVars
<1>2. CASE Superseded(owner) /\ UNCHANGED calls
  BY <1>1, <1>2, SupersededIsConsistent
<1>3. CASE (Finish(owner, page) \/ Finish(owner, Shown(page))) /\ UNCHANGED calls
  <2>1. page \in Pages /\ Shown(page) \in Pages /\ Shown(page).doc = page.doc
    BY ConsistentFields, MarkedPages
  <2> QED
    BY <1>1, <1>3, <2>1, FinishIsConsistent
<1>4. CASE /\ UNCHANGED <<run, queue, opens, flow, page>>
           /\ \/ /\ repl' = [repl EXCEPT ![owner] =
                               [stage |-> "reading", path |-> repl[owner].path, gen |-> repl[owner].gen,
                                print |-> repl[owner].print, request |-> hook.request + 1]]
                 /\ UNCHANGED calls
              \/ /\ repl' = [repl EXCEPT ![owner] = [repl[owner] EXCEPT !.stage = "called",
                                                                        !.doc = repl[owner].path]]
                 /\ calls' = Append(calls, owner)
  <2>1. CASE UNCHANGED calls
    <3>1. PICK v : v = [stage |-> "reading", path |-> repl[owner].path, gen |-> repl[owner].gen,
                        print |-> repl[owner].print, request |-> hook.request + 1]
      OBVIOUS
    <3>2. PICK u : u = [repl[owner] EXCEPT !.stage = "called", !.doc = repl[owner].path]
      OBVIOUS
    <3>3. "stage" \in DOMAIN v /\ "stage" \in DOMAIN u
      BY <3>1, <3>2 DEF Consistent, ReplacementsAreAwaited
    <3>4. repl' = [repl EXCEPT ![owner] = v] \/ repl' = [repl EXCEPT ![owner] = u]
      BY <1>4, <3>1, <3>2
    <3> QED
      BY <1>1, <1>4, <2>1, <3>3, <3>4, AnotherStage
  <2>2. CASE ~UNCHANGED calls
    <3>1. PICK v : v = [repl[owner] EXCEPT !.stage = "called", !.doc = repl[owner].path]
      OBVIOUS
    <3>2. "stage" \in DOMAIN v /\ v.stage = "called"
      BY <3>1 DEF Consistent, ReplacementsAreAwaited
    <3>3. repl' = [repl EXCEPT ![owner] = v] /\ calls' = Append(calls, owner)
      BY <1>4, <2>2, <3>1
    <3> QED
      BY <1>1, <1>4, <3>2, <3>3, AnotherStage
  <2> QED
    BY <2>1, <2>2
<1> QED
  BY <1>2, <1>3, <1>4, Zenon DEF ReplaceContinues

\* The claimed read of a document, when it gives no error.
LEMMA FileIsRead ==
  ASSUME Consistent, NEW path, ~Fails(path)
  PROVE  /\ path \in Docs /\ disk[path] \in Contents /\ Seen(path) \in Readings
         /\ Told(page, disk[path]) \in Pages /\ Told(page, disk[path]).doc = page.doc
         /\ Told(page, disk[path]).text = page.text /\ Told(page, disk[path]).saved = page.saved
         /\ Told(page, disk[path]).dirty = page.dirty /\ Told(page, disk[path]).passed = page.passed
         /\ Told(page, disk[path]).origin = page.origin
         /\ Loaded(page, Seen(path)) \in Pages /\ Loaded(page, Seen(path)).doc = page.doc
         /\ Loaded(page, Seen(path)).origin = past.whose[path]
         /\ Loaded(page, Seen(path)).text = Loaded(page, Seen(path)).saved
         /\ flow.blocked \/ path = page.doc
<1>1. Owns(path) /\ disk[path] # Gone
  BY DEF Fails
<1>2. path \in Docs /\ path \in Files
  BY <1>1, ConsistentFields DEF Owns, Flows, Ownerships, Files
<1>3. disk[path] \in Contents /\ disk[path] \in Stored
  BY <1>1, <1>2, ConsistentFields DEF Stored
<1>4. past.whose[path] \in Documents
  BY <1>2, ConsistentFields DEF Histories
<1>5. Seen(path) \in Readings /\ Seen(path).text = disk[path] /\ Seen(path).origin = past.whose[path]
  BY <1>3, <1>4 DEF Seen, Readings
<1>6. page \in Pages
  BY ConsistentFields
<1>7. PICK c \in Contents, seen \in Readings : c = disk[path] /\ seen = Seen(path)
  BY <1>3, <1>5
<1>8. flow.blocked \/ path = page.doc
  BY <1>1 DEF Consistent, Settled, Owns
<1> QED
  BY <1>2, <1>5, <1>6, <1>7, <1>8, ReadPages

LEMMA ReplaceReadsIsConsistent ==
  ASSUME Consistent, NEW owner \in Owners, ReplaceReads(owner)
  PROVE  Consistent'
<1>1. repl[owner].stage \in {"answered", "reading"} /\ UNCHANGED <<disk, fresh, past, update, calls>>
  BY DEF ReplaceReads, serviceVars
<1>2. CASE Superseded(owner)
  BY <1>1, <1>2, SupersededIsConsistent
<1>3. PICK path : path = repl[owner].path
  OBVIOUS
<1>4. CASE Finish(owner, IF Fails(path) THEN Shown(page)
                         ELSE IF disk[path] = page.text \/ page.dirty THEN Told(page, disk[path])
                         ELSE Loaded(page, Seen(path)))
  <2>1. PICK p : p = IF Fails(path) THEN Shown(page)
                     ELSE IF disk[path] = page.text \/ page.dirty THEN Told(page, disk[path])
                     ELSE Loaded(page, Seen(path))
    OBVIOUS
  <2>2. p \in Pages /\ p.doc = page.doc
    BY <2>1, ConsistentFields, MarkedPages, FileIsRead
  <2>3. Finish(owner, p)
    BY <1>4, <2>1
  <2> QED
    BY <1>1, <2>2, <2>3, FinishIsConsistent
<1> QED
  BY <1>2, <1>3, <1>4, Zenon DEF ReplaceReads
-----------------------------------------------------------------------------
(* Opening a document, and beginning an untitled one.                      *)

\* The newest open with something in hand, and one whose step cannot be taken back.
LEMMA FinalIsNewest ==
  ASSUME Consistent, NEW id \in OpenIds, opens[id].stage \in Final
  PROVE  /\ flow.op = id /\ flow.irreversible = id /\ flow.opening
         /\ opens[id].stage \in Claiming /\ opens[id].stage # "none"
         /\ id # 0 /\ id # TheSave /\ id \in Owners
<1>1. flow.op = id /\ flow.irreversible = id /\ opens[id].stage \in Claiming
  BY DEF Consistent, OpensAreSeen, Claiming
<1>2. flow.opening
  BY <1>1 DEF Consistent, OpensAreSeen
<1>3. opens[id].stage # "none"
  BY DEF Final
<1> QED
  BY <1>1, <1>2, <1>3, OwnersAndImages, WorkflowAssumption DEF OpenIds

\* An open ends without a document.
LEMMA OpenIsOver ==
  ASSUME Consistent, NEW id \in OpenIds, opens[id].stage \in Claiming, opens[id].stage # "recovering",
         NEW f \in Flows, EndOpen(id, f), f.op = flow.op, f.opening = flow.opening,
         flow.blocked => f.blocked,
         \/ f.owned = flow.owned
         \/ /\ flow.op = id
            /\ flow.owned # None /\ f.owned # None /\ f.owned.doc = flow.owned.doc,
         \/ f.irreversible = flow.irreversible
         \/ f.irreversible = 0 /\ opens[id].stage \in Final,
         page' \in Pages, page'.doc = page.doc,
         UNCHANGED <<disk, fresh, past, queue, run, repl, calls, update>>
  PROVE  Consistent'
<1>1. Settled /\ ReplacementsAreAwaited /\ CommandsAreAwaited
  BY DEF Consistent
<1>2. PICK o : o = [NoOpen EXCEPT !.stage = "done"]
  OBVIOUS
<1>3. /\ o \in Openings /\ Opened(o) /\ o.stage = "done"
      /\ o.stage \notin Claiming /\ o.stage \notin Final
  BY <1>2, NamelessOpen DEF Claiming, Final
<1>4. opens' = [opens EXCEPT ![id] = o] /\ flow' = Ended(f, id)
  BY <1>2 DEF EndOpen
<1>5. /\ flow' \in Flows /\ flow'.op = flow.op /\ flow'.irreversible = f.irreversible
      /\ flow'.owned = f.owned /\ flow'.blocked = f.blocked
      /\ flow.op # id => flow'.opening = flow.opening
      /\ ~flow.opening => ~flow'.opening
  BY <1>4, Flowing
<1>6. Settled'
  BY <1>1, <1>5 DEF Settled, Owns
<1>7. \A j \in OpenIds : j # id => opens'[j] = opens[j]
  BY <1>4, ConsistentFields
<1>8. ReplacementsAreAwaited'
  <2>1. opens[id].stage \notin {"watching", "recovering"}
    BY DEF Claiming, Final
  <2> QED
    BY <1>1, <1>7, <2>1, ReplacementsStay
<1>9. CommandsAreAwaited'
  BY <1>1, CommandsStay
<1>10. opens[id].stage # "none"
  BY DEF Claiming, Final
<1>11. \/ flow'.irreversible = flow.irreversible
       \/ flow.irreversible \in {0, id} /\ flow.op = id /\ opens[id].stage \in Claiming
  BY <1>5, FinalIsNewest
<1>12. \/ flow'.owned = flow.owned /\ page'.doc = page.doc
       \/ flow.op = id /\ opens[id].stage \in Claiming
  BY <1>5
<1> QED
  BY <1>3, <1>4, <1>5, <1>6, <1>8, <1>9, <1>10, <1>11, <1>12, OpenStep

\* It goes on to read, to release, or to commit, which nothing else does then.
LEMMA OpenGoesOn ==
  ASSUME Consistent, NEW id \in OpenIds, opens[id].stage \in Claiming, opens[id].stage # "recovering",
         NEW o \in Openings, Opened(o), opens' = [opens EXCEPT ![id] = o],
         \/ o.stage \in {"reading", "releasing"} /\ UNCHANGED flow
         \/ /\ o.stage = "committing" /\ flow.op = id /\ flow.irreversible = 0
            /\ flow' = [flow EXCEPT !.irreversible = id],
         page' \in Pages, page'.doc = page.doc,
         UNCHANGED <<disk, fresh, past, queue, run, repl, calls, update>>
  PROVE  Consistent'
<1>1. Settled /\ ReplacementsAreAwaited /\ CommandsAreAwaited /\ id \in 0 .. MaxOpens
  BY WorkflowAssumption DEF Consistent, OpenIds
<1>2. /\ flow' \in Flows /\ flow'.op = flow.op /\ flow'.opening = flow.opening
      /\ flow'.owned = flow.owned /\ flow'.blocked = flow.blocked
      /\ \/ flow'.irreversible = flow.irreversible /\ o.stage \notin Final
         \/ flow'.irreversible = id /\ flow.op = id /\ flow.irreversible = 0
  BY <1>1, ConsistentFields DEF Flows, Final
<1>3. o.stage \in Claiming /\ opens[id].stage # "none"
  BY DEF Claiming, Final
<1>4. Settled'
  BY <1>1, <1>2, SettledStays
<1>5. \A j \in OpenIds : j # id => opens'[j] = opens[j]
  BY ConsistentFields
<1>6. ReplacementsAreAwaited'
  <2>1. opens[id].stage \notin {"watching", "recovering"}
    BY DEF Claiming, Final
  <2> QED
    BY <1>1, <1>5, <2>1, ReplacementsStay
<1>7. CommandsAreAwaited'
  BY <1>1, CommandsStay
<1>8. flow.op # id => flow'.opening = flow.opening
  BY <1>2
<1>9. \/ flow'.irreversible = flow.irreversible
      \/ flow.irreversible \in {0, id} /\ flow.op = id /\ opens[id].stage \in Claiming
  BY <1>2
<1>10. o.stage \in Final => flow'.irreversible = id /\ flow.op = id
  BY <1>2
<1> QED
  BY <1>2, <1>3, <1>4, <1>6, <1>7, <1>8, <1>9, <1>10, OpenStep

LEMMA OpenIsGivenUp ==
  ASSUME Consistent, NEW id \in OpenIds, opens[id].stage \in Claiming, opens[id].stage # "recovering",
         GiveUp(id), page' \in Pages, page'.doc = page.doc,
         UNCHANGED <<disk, fresh, past, queue, run, repl, calls, update>>
  PROVE  Consistent'
<1>1. PICK o : o = [NoOpen EXCEPT !.stage = "releasing"]
  OBVIOUS
<1>2. o \in Openings /\ Opened(o) /\ o.stage = "releasing"
  BY <1>1, NamelessOpen
<1>3. opens' = [opens EXCEPT ![id] = o] /\ UNCHANGED flow
  BY <1>1 DEF GiveUp
<1> QED
  BY <1>2, <1>3, OpenGoesOn

LEMMA ReserveIsConsistent ==
  ASSUME Consistent, NEW id \in OpenIds, ReserveAnswered(id)
  PROVE  Consistent'
<1>1. /\ opens[id].stage = "reserving" /\ opens[id].stage \in Claiming /\ opens[id].stage # "recovering"
      /\ UNCHANGED <<disk, fresh, past, page, queue, run, repl, calls, update>>
  BY DEF ReserveAnswered, OpenUnchanged, serviceVars, Claiming
<1>2. page \in Pages /\ flow \in Flows /\ opens \in [OpenIds -> Openings]
  BY ConsistentFields
<1>3. CASE EndOpen(id, flow)
  BY <1>1, <1>2, <1>3, OpenIsOver
<1>4. CASE IsCurrent(id) /\ Owns(opens[id].doc) /\ EndOpen(id, [flow EXCEPT !.owned.op = id])
  <2>1. flow.owned # None /\ flow.owned \in Ownerships /\ flow.op = id
    BY <1>2, <1>4 DEF Owns, Flows, IsCurrent
  <2>2. PICK w : w = [flow.owned EXCEPT !.op = id]
    OBVIOUS
  <2>3. w \in Ownerships /\ w.doc = flow.owned.doc /\ w # None
    BY <2>1, <2>2, WorkflowAssumption DEF Ownerships, OpenIds
  <2>4. PICK f : f = [flow EXCEPT !.owned = w]
    OBVIOUS
  <2>5. /\ f \in Flows /\ f.owned = w /\ f.op = flow.op /\ f.blocked = flow.blocked
        /\ f.opening = flow.opening /\ f.irreversible = flow.irreversible
    BY <1>2, <2>3, <2>4 DEF Flows
  <2>6. EndOpen(id, f)
    BY <1>2, <1>4, <2>2, <2>4 DEF Flows
  <2> QED
    BY <1>1, <1>2, <2>1, <2>3, <2>5, <2>6, OpenIsOver
<1>5. CASE GiveUp(id)
  BY <1>1, <1>2, <1>5, OpenIsGivenUp
<1>6. CASE opens' = [opens EXCEPT ![id].stage = "reading"] /\ UNCHANGED flow
  <2>1. PICK o : o = [opens[id] EXCEPT !.stage = "reading"]
    OBVIOUS
  <2>2. opens[id].doc \in Docs
    BY <1>1, ConsistentFields DEF OpensTyped, Opened, Asking
  <2>3. o \in Openings /\ o.stage = "reading" /\ o.doc \in Docs
    BY <1>2, <2>1, <2>2 DEF Openings, Claiming
  <2>4. Opened(o)
    BY <2>3 DEF Opened
  <2>5. opens' = [opens EXCEPT ![id] = o]
    BY <1>2, <1>6, <2>1
  <2> QED
    BY <1>1, <1>2, <1>6, <2>3, <2>4, <2>5, OpenGoesOn
<1> QED
  BY <1>3, <1>4, <1>5, <1>6 DEF ReserveAnswered

\* The claim of an open fails, or nobody knows.
LEMMA FailuresAreConsistent ==
  ASSUME Consistent, NEW id \in OpenIds,
         ReserveFails(id) \/ ReserveUnknown(id) \/ Released(id) \/ CommitFails(id) \/ LeaveUnknown(id)
  PROVE  Consistent'
<1>1. /\ opens[id].stage \in {"reserving", "releasing", "committing", "leaving"}
      /\ UNCHANGED <<disk, fresh, past, queue, run, repl, calls, update>>
  BY DEF ReserveFails, ReserveUnknown, Released, CommitFails, LeaveUnknown, OpenUnchanged, serviceVars
<1>2. page \in Pages /\ flow \in Flows
  BY ConsistentFields
<1>3. opens[id].stage \in Claiming /\ opens[id].stage # "recovering"
  BY <1>1 DEF Claiming, Final
<1>4. page' \in Pages /\ page'.doc = page.doc
  <2>1. PICK p \in Pages : p = Freed(page, id) /\ p.doc = page.doc
    BY <1>2, FreedPages
  <2>2. page' \in {page, Shown(page), Shown(p)}
    BY <2>1 DEF ReserveFails, ReserveUnknown, Released, CommitFails, LeaveUnknown
  <2> QED
    BY <1>2, <2>1, <2>2, MarkedPages
<1>5. CASE EndOpen(id, flow)
  BY <1>1, <1>2, <1>3, <1>4, <1>5, OpenIsOver
<1>6. CASE EndOpen(id, [flow EXCEPT !.blocked = TRUE])
  <2>1. PICK f : f = [flow EXCEPT !.blocked = TRUE]
    OBVIOUS
  <2>2. /\ f \in Flows /\ f.op = flow.op /\ f.opening = flow.opening /\ f.owned = flow.owned
        /\ f.blocked /\ f.irreversible = flow.irreversible
    BY <1>2, <2>1 DEF Flows
  <2>3. EndOpen(id, f)
    BY <1>6, <2>1
  <2> QED
    BY <1>1, <1>3, <1>4, <2>2, <2>3, OpenIsOver
<1>7. CASE opens[id].stage = "committing" /\ EndOpen(id, [flow EXCEPT !.irreversible = 0])
  <2>1. PICK n \in 0 .. MaxOpens : n = 0
    BY WorkflowAssumption
  <2>2. PICK f : f = [flow EXCEPT !.irreversible = n]
    OBVIOUS
  <2>3. /\ f \in Flows /\ f.op = flow.op /\ f.opening = flow.opening /\ f.owned = flow.owned
        /\ f.blocked = flow.blocked /\ f.irreversible = 0
    BY <1>2, <2>1, <2>2 DEF Flows
  <2>4. EndOpen(id, f) /\ opens[id].stage \in Final
    BY <1>7, <2>1, <2>2 DEF Final
  <2> QED
    BY <1>1, <1>3, <1>4, <2>3, <2>4, OpenIsOver
<1> QED
  BY <1>5, <1>6, <1>7 DEF ReserveFails, ReserveUnknown, Released, CommitFails, LeaveUnknown

LEMMA ReadIsConsistent ==
  ASSUME Consistent, NEW id \in OpenIds, ReadAnswered(id)
  PROVE  Consistent'
<1>1. /\ opens[id].stage = "reading" /\ opens[id].stage \in Claiming /\ opens[id].stage # "recovering"
      /\ UNCHANGED <<disk, fresh, past, queue, run, repl, calls, update>>
  BY DEF ReadAnswered, OpenUnchanged, serviceVars, Claiming
<1>2. page \in Pages /\ flow \in Flows /\ opens \in [OpenIds -> Openings]
  BY ConsistentFields
<1>3. CASE GiveUp(id) /\ page' \in {page, Shown(page)}
  <2>1. page' \in Pages /\ page'.doc = page.doc
    BY <1>2, <1>3, MarkedPages
  <2> QED
    BY <1>1, <1>3, <2>1, OpenIsGivenUp
<1>4. CASE ~GiveUp(id)
  <2>1. PICK seen \in {Seen(opens[id].doc), opens[id].seen} :
          /\ IsCurrent(id) /\ flow.irreversible = 0 /\ seen.text # Gone
          /\ opens' = [opens EXCEPT ![id].stage = "committing", ![id].seen = seen]
          /\ flow' = [flow EXCEPT !.irreversible = id]
          /\ page' = [page EXCEPT !.locked = id]
    BY <1>4 DEF ReadAnswered
  <2>2. opens[id].doc \in Docs
    BY <1>1, ConsistentFields DEF OpensTyped, Opened, Asking
  <2>3. seen \in Readings
    <3>1. Seen(opens[id].doc) \in Readings
      BY <2>2, ConsistentFields DEF Seen, Readings, Files, Histories
    <3> QED
      BY <1>2, <2>1, <3>1 DEF Openings
  <2>4. seen.text \in Contents
    BY <2>1, <2>3 DEF Readings, Stored
  <2>5. PICK o : o = [opens[id] EXCEPT !.stage = "committing", !.seen = seen]
    OBVIOUS
  <2>6. /\ o \in Openings /\ o.stage = "committing" /\ o.doc \in Docs /\ o.seen.text \in Contents
    BY <1>2, <2>2, <2>3, <2>4, <2>5 DEF Openings, Claiming, Final
  <2>7. Opened(o)
    BY <2>6 DEF Opened
  <2>8. opens' = [opens EXCEPT ![id] = o]
    BY <1>2, <2>1, <2>5
  <2>9. page' \in Pages /\ page'.doc = page.doc
    <3>1. id \in 0 .. MaxOpens
      BY WorkflowAssumption DEF OpenIds
    <3> QED
      BY <1>2, <2>1, <3>1 DEF Pages
  <2>10. flow.op = id
    BY <2>1 DEF IsCurrent
  <2> QED
    BY <1>1, <2>1, <2>6, <2>7, <2>8, <2>9, <2>10, OpenGoesOn
<1>5. GiveUp(id) => page' \in {page, Shown(page)}
  <2>1. ASSUME GiveUp(id) PROVE opens'[id].stage = "releasing"
    BY <1>2, <2>1, NamelessOpen DEF GiveUp
  <2>2. ASSUME NEW seen, opens' = [opens EXCEPT ![id].stage = "committing", ![id].seen = seen]
        PROVE  opens'[id].stage # "releasing"
    BY <1>2, <2>2 DEF Openings
  <2> QED
    BY <2>1, <2>2 DEF ReadAnswered
<1> QED
  BY <1>3, <1>4, <1>5

\* The watch changes for operation id, which waits for it.
LEMMA WatchIsChanged ==
  ASSUME Consistent, NEW id \in OpenIds, repl[id].stage = "idle", UNCHANGED <<run, update>>,
         NEW path, NEW known, StartReplace(id, hook, path, known),
         NEW o, opens' = [opens EXCEPT ![id] = o],
         hook.watched # path => o.stage \in {"watching", "recovering"}
  PROVE  ReplacementsAreAwaited' /\ CommandsAreAwaited'
<1>1. ReplacementsAreAwaited /\ id \in Owners /\ id # TheSave
  BY OwnersAndImages DEF Consistent
<1>2. /\ CommandsAreAwaited'
      /\ DOMAIN repl' = Owners /\ \A w \in Owners : "stage" \in DOMAIN repl'[w]
      /\ \A w \in Owners : w # id => repl'[w] = repl[w]
      /\ hook.watched = path => repl'[id].stage = "idle"
  BY <1>1, StartOfReplace
<1>3. opens'[id] = o /\ \A j \in OpenIds : j # id => opens'[j] = opens[j]
  BY ConsistentFields
<1>4. ASSUME NEW j \in OpenIds, repl'[j].stage # "idle"
      PROVE  opens'[j].stage \in {"watching", "recovering"}
  <2>1. CASE j = id
    BY <1>2, <1>3, <1>4, <2>1
  <2>2. CASE j # id
    BY <1>1, <1>2, <1>3, <1>4, <2>2, OwnersAndImages DEF ReplacementsAreAwaited
  <2> QED
    BY <2>1, <2>2
<1>5. repl'[TheSave] = repl[TheSave]
  BY <1>1, <1>2, OwnersAndImages
<1> QED
  BY <1>1, <1>2, <1>4, <1>5 DEF ReplacementsAreAwaited

LEMMA AppliedChanges ==
  ASSUME Consistent, NEW id \in OpenIds, repl[id].stage = "idle", UNCHANGED <<run, update>>,
         NEW path, NEW p \in Pages, NEW f \in Flows, NEW known, Applied(id, path, p, f, known)
  PROVE  /\ page' \in Pages /\ page'.doc = p.doc /\ page'.origin = p.origin /\ page'.text = p.text
         /\ page'.saved = p.saved /\ page'.dirty = p.dirty /\ page'.passed = p.passed
         /\ flow' \in Flows /\ flow'.op = f.op /\ flow'.owned = f.owned /\ flow'.blocked = f.blocked
         /\ flow'.irreversible = 0
         /\ f.op # id => flow'.opening = f.opening
         /\ ~f.opening => ~flow'.opening
         /\ ReplacementsAreAwaited' /\ CommandsAreAwaited'
         /\ \E o \in Openings : /\ Opened(o) /\ o.stage \notin Claiming /\ o.stage \notin Final
                                /\ opens' = [opens EXCEPT ![id] = o]
<1>1. /\ page' \in Pages /\ page'.doc = p.doc /\ page'.origin = p.origin /\ page'.text = p.text
      /\ page'.saved = p.saved /\ page'.dirty = p.dirty /\ page'.passed = p.passed
  BY FreedPages DEF Applied
<1>2. PICK st \in {"done", "watching"} : st = IF hook.watched = path THEN "done" ELSE "watching"
  OBVIOUS
<1>3. PICK o : o = [NoOpen EXCEPT !.stage = st]
  OBVIOUS
<1>4. o \in Openings /\ Opened(o) /\ o.stage = st /\ o.stage \notin Claiming /\ o.stage \notin Final
  BY <1>3, NamelessOpen DEF Claiming, Final
<1>5. opens' = [opens EXCEPT ![id] = o] /\ StartReplace(id, hook, path, known)
  BY <1>2, <1>3 DEF Applied
<1>6. ReplacementsAreAwaited' /\ CommandsAreAwaited'
  BY <1>2, <1>4, <1>5, WatchIsChanged
<1>7. PICK n \in 0 .. MaxOpens : n = 0
  BY WorkflowAssumption
<1>8. PICK g : g = [f EXCEPT !.irreversible = n]
  OBVIOUS
<1>9. /\ g \in Flows /\ g.op = f.op /\ g.opening = f.opening /\ g.owned = f.owned
      /\ g.blocked = f.blocked /\ g.irreversible = 0
  BY <1>7, <1>8 DEF Flows
<1>10. flow' \in {g, Ended(g, id)}
  BY <1>7, <1>8 DEF Applied
<1>11. /\ flow' \in Flows /\ flow'.op = f.op /\ flow'.owned = f.owned /\ flow'.blocked = f.blocked
       /\ flow'.irreversible = 0
       /\ f.op # id => flow'.opening = f.opening
       /\ ~f.opening => ~flow'.opening
  BY <1>9, <1>10, Flowing
<1> QED
  BY <1>1, <1>4, <1>5, <1>6, <1>11

LEMMA RecoveredChanges ==
  ASSUME Consistent, NEW id \in OpenIds, repl[id].stage = "idle", UNCHANGED <<run, update>>,
         NEW p \in Pages, NEW f \in Flows, NEW finishes \in BOOLEAN, Recovered(id, p, f, finishes)
  PROVE  /\ page' \in Pages /\ page'.doc = p.doc /\ page'.origin = p.origin /\ page'.text = p.text
         /\ page'.saved = p.saved /\ page'.dirty = p.dirty /\ page'.passed = p.passed
         /\ flow' \in Flows /\ flow'.op = f.op /\ flow'.owned = f.owned /\ flow'.blocked = f.blocked
         /\ flow'.irreversible \in {0, f.irreversible}
         /\ f.op # id => flow'.opening = f.opening
         /\ ~f.opening => ~flow'.opening
         /\ ReplacementsAreAwaited' /\ CommandsAreAwaited'
         /\ \E o \in Openings : /\ Opened(o) /\ opens' = [opens EXCEPT ![id] = o]
                                /\ o.stage \notin Claiming \/ (o.stage = "recovering" /\ flow' = f)
<1>1. PICK b \in BOOLEAN : b = (hook.watched = None)
  OBVIOUS
<1>2. PICK st \in {"done", "recovering", "watching"} :
        st = IF b THEN "done" ELSE IF finishes THEN "recovering" ELSE "watching"
  OBVIOUS
<1>3. PICK o : o = [NoOpen EXCEPT !.stage = st]
  OBVIOUS
<1>4. o \in Openings /\ Opened(o) /\ o.stage = st /\ (st # "recovering" => o.stage \notin Claiming)
  BY <1>3, NamelessOpen DEF Claiming, Final
<1>5. opens' = [opens EXCEPT ![id] = o] /\ StartReplace(id, hook, None, Gone)
  BY <1>1, <1>2, <1>3 DEF Recovered, EndOpen
<1>6. ReplacementsAreAwaited' /\ CommandsAreAwaited'
  BY <1>1, <1>2, <1>4, <1>5, WatchIsChanged
<1>7. page' \in {p, Freed(p, id)}
  BY DEF Recovered
<1>8. /\ page' \in Pages /\ page'.doc = p.doc /\ page'.origin = p.origin /\ page'.text = p.text
      /\ page'.saved = p.saved /\ page'.dirty = p.dirty /\ page'.passed = p.passed
  BY <1>7, FreedPages
<1>9. PICK n \in 0 .. MaxOpens : n = 0
  BY WorkflowAssumption
<1>10. PICK g : g = [f EXCEPT !.irreversible = n]
  OBVIOUS
<1>11. /\ g \in Flows /\ g.op = f.op /\ g.opening = f.opening /\ g.owned = f.owned
       /\ g.blocked = f.blocked /\ g.irreversible = 0
  BY <1>9, <1>10 DEF Flows
<1>12. IF b THEN flow' \in {Ended(f, id), Ended(g, id)} ELSE flow' = f
  BY <1>1, <1>9, <1>10 DEF Recovered, EndOpen
<1>13. /\ flow' \in Flows /\ flow'.op = f.op /\ flow'.owned = f.owned /\ flow'.blocked = f.blocked
       /\ flow'.irreversible \in {0, f.irreversible}
       /\ f.op # id => flow'.opening = f.opening
       /\ ~f.opening => ~flow'.opening
  BY <1>11, <1>12, Flowing
<1>14. o.stage \notin Claiming \/ (o.stage = "recovering" /\ flow' = f)
  BY <1>2, <1>4, <1>12
<1> QED
  BY <1>4, <1>5, <1>6, <1>8, <1>13, <1>14

\* A claim that cannot be taken back is the window's: the document changes.
LEMMA DocumentIsOpened ==
  ASSUME Consistent, NEW id \in OpenIds, opens[id].stage \in {"committing", "leaving"},
         UNCHANGED <<disk, fresh, past, queue, run, update>>,
         NEW p \in Pages, NEW f \in Flows, f.op = flow.op, f.opening = flow.opening,
         f.irreversible = flow.irreversible,
         f.blocked \/ IF p.doc = None THEN f.owned = None ELSE f.owned # None /\ f.owned.doc = p.doc,
         \/ \E path, known : Applied(id, path, p, f, known)
         \/ \E finishes \in BOOLEAN : Recovered(id, p, f, finishes)
  PROVE  Consistent'
<1>1. opens[id].stage \in Final
  BY DEF Final
<1>2. /\ flow.op = id /\ flow.irreversible = id /\ flow.opening
      /\ opens[id].stage \in Claiming /\ opens[id].stage # "none"
  BY <1>1, FinalIsNewest
<1>3. repl[id].stage = "idle"
  BY DEF Consistent, ReplacementsAreAwaited
<1>4. /\ page' \in Pages /\ page'.doc = p.doc
      /\ flow' \in Flows /\ flow'.op = flow.op /\ flow'.owned = f.owned /\ flow'.blocked = f.blocked
      /\ ReplacementsAreAwaited' /\ CommandsAreAwaited'
      /\ \E o \in Openings : /\ Opened(o) /\ opens' = [opens EXCEPT ![id] = o]
                             /\ o.stage \notin Claiming \/ (o.stage = "recovering" /\ flow' = f)
  <2>1. CASE \E path, known : Applied(id, path, p, f, known)
    BY <1>3, <2>1, AppliedChanges
  <2>2. CASE \E finishes \in BOOLEAN : Recovered(id, p, f, finishes)
    BY <1>3, <2>2, RecoveredChanges
  <2> QED
    BY <2>1, <2>2
<1>5. PICK o \in Openings : /\ Opened(o) /\ opens' = [opens EXCEPT ![id] = o]
                            /\ o.stage \notin Claiming \/ (o.stage = "recovering" /\ flow' = f)
  BY <1>4
<1>6. Settled'
  BY <1>4 DEF Settled, Owns
<1>7. o.stage \in Final => flow'.irreversible = id /\ flow.op = id
  BY <1>2, <1>5 DEF Claiming
<1>8. o.stage \in Claiming => flow'.opening = flow.opening
  BY <1>5
<1> QED
  BY <1>2, <1>4, <1>5, <1>6, <1>7, <1>8, OpenStep

LEMMA AppliedIsConsistent ==
  ASSUME Consistent, NEW id \in OpenIds, OpenApplied(id)
  PROVE  Consistent'
<1>1. /\ opens[id].stage = "committing"
      /\ UNCHANGED <<disk, fresh, past, queue, run, update>>
  BY DEF OpenApplied, OpenUnchanged, serviceVars
<1>2. page \in Pages /\ flow \in Flows
  BY ConsistentFields
<1>3. PICK d, seen : d = opens[id].doc /\ seen = opens[id].seen
  OBVIOUS
<1>4. d \in Docs /\ d \in Documents /\ seen \in Readings /\ seen.text \in Contents
  BY <1>1, <1>3, ConsistentFields DEF OpensTyped, Opened, Openings, Asking, Documents
<1>5. PICK l : l = Loaded(page, seen)
  OBVIOUS
<1>6. l \in Pages
  BY <1>2, <1>4, <1>5, ReadPages
<1>7. PICK p : p = [l EXCEPT !.doc = d]
  OBVIOUS
<1>8. p \in Pages /\ p.doc = d /\ d # None
  BY <1>4, <1>6, <1>7, WorkflowAssumption DEF Pages
<1>9. PICK w : w = [op |-> id, doc |-> d]
  OBVIOUS
<1>10. w \in Ownerships /\ w.doc = d /\ w # None
  BY <1>4, <1>9, WorkflowAssumption DEF Ownerships, OpenIds
<1>11. PICK f : f = [flow EXCEPT !.owned = w]
  OBVIOUS
<1>12. /\ f \in Flows /\ f.op = flow.op /\ f.opening = flow.opening /\ f.owned = w
       /\ f.irreversible = flow.irreversible
  BY <1>2, <1>10, <1>11 DEF Flows
<1>13. Applied(id, d, p, f, seen.text)
  BY <1>3, <1>5, <1>7, <1>9, <1>11 DEF OpenApplied
<1>14. f.blocked \/ IF p.doc = None THEN f.owned = None ELSE f.owned # None /\ f.owned.doc = p.doc
  BY <1>8, <1>10, <1>12
<1>15. \E path, known : Applied(id, path, p, f, known)
  BY <1>13
<1>16. opens[id].stage \in {"committing", "leaving"}
  BY <1>1
<1> QED
  BY <1>1, <1>8, <1>12, <1>14, <1>15, <1>16, DocumentIsOpened

LEMMA AdoptedIsConsistent ==
  ASSUME Consistent, NEW id \in OpenIds, AdoptFailClosed(id)
  PROVE  Consistent'
<1>1. /\ opens[id].stage = "committing"
      /\ UNCHANGED <<disk, fresh, past, queue, run, update>>
  BY DEF AdoptFailClosed, OpenUnchanged, serviceVars
<1>2. page \in Pages /\ flow \in Flows
  BY ConsistentFields
<1>3. PICK d : d = opens[id].doc
  OBVIOUS
<1>4. d \in Docs /\ d \in Documents
  BY <1>1, <1>3, ConsistentFields DEF OpensTyped, Opened, Asking, Documents
<1>5. PICK s : s = Shown(Unsaved(page))
  OBVIOUS
<1>6. s \in Pages
  BY <1>2, <1>5, MarkedPages
<1>7. PICK p : p = Adopted(id)
  OBVIOUS
<1>8. p = [s EXCEPT !.doc = d]
  BY <1>3, <1>5, <1>7 DEF Adopted
<1>9. p \in Pages
  BY <1>4, <1>6, <1>8 DEF Pages
<1>10. PICK w : w = [op |-> id, doc |-> d]
  OBVIOUS
<1>11. w \in Ownerships
  BY <1>4, <1>10 DEF Ownerships
<1>12. PICK f : f = [Claimed(id) EXCEPT !.blocked = TRUE]
  OBVIOUS
<1>13. f = [flow EXCEPT !.owned = w, !.blocked = TRUE]
  BY <1>2, <1>3, <1>10, <1>12 DEF Claimed, Flows
<1>14. /\ f \in Flows /\ f.op = flow.op /\ f.opening = flow.opening /\ f.blocked
       /\ f.irreversible = flow.irreversible
  BY <1>2, <1>11, <1>13 DEF Flows
<1>15. \E finishes \in BOOLEAN : Recovered(id, p, f, finishes)
  BY <1>7, <1>12 DEF AdoptFailClosed
<1>16. opens[id].stage \in {"committing", "leaving"}
  BY <1>1
<1> QED
  BY <1>1, <1>9, <1>14, <1>15, <1>16, DocumentIsOpened

\* The page of an untitled document.
LEMMA UntitledPage ==
  ASSUME Consistent
  PROVE  /\ Untitled \in Pages /\ Untitled.doc = None /\ Untitled.origin = None
         /\ Untitled.text = Untitled.saved
<1>1. page \in Pages /\ 0 \in Contents /\ None \in Documents
  BY ConsistentFields DEF Contents, Documents
<1>2. PICK seen : seen = Blank
  OBVIOUS
<1>3. seen \in Readings /\ seen.text = 0 /\ seen.origin = None
  BY <1>1, <1>2 DEF Blank, Readings, Stored
<1>4. PICK l : l = Loaded(page, seen)
  OBVIOUS
<1>5. l \in Pages /\ l.origin = None /\ l.text = l.saved
  BY <1>1, <1>3, <1>4, ReadPages
<1>6. Untitled = [l EXCEPT !.doc = None]
  BY <1>2, <1>4 DEF Untitled
<1> QED
  BY <1>1, <1>5, <1>6 DEF Pages

LEMMA LeftIsConsistent ==
  ASSUME Consistent, NEW id \in OpenIds, NewApplied(id) \/ NewRecovered(id)
  PROVE  Consistent'
<1>1. /\ opens[id].stage \in {"committing", "leaving"}
      /\ UNCHANGED <<disk, fresh, past, queue, run, update>>
  BY DEF NewApplied, NewRecovered, OpenUnchanged, serviceVars
<1>2. page \in Pages /\ flow \in Flows /\ None \in Documents
  BY ConsistentFields DEF Documents
<1>3. PICK f : f = [flow EXCEPT !.owned = None]
  OBVIOUS
<1>4. /\ f \in Flows /\ f.op = flow.op /\ f.opening = flow.opening /\ f.owned = None
      /\ f.irreversible = flow.irreversible
  BY <1>2, <1>3 DEF Flows
<1>5. CASE NewApplied(id)
  <2>1. PICK p \in Pages : p = Untitled /\ p.doc = None
    BY UntitledPage
  <2>2. Applied(id, None, p, f, Gone)
    BY <1>3, <1>5, <2>1 DEF NewApplied
  <2>3. \E path, known : Applied(id, path, p, f, known)
    BY <2>2
  <2>4. f.blocked \/ IF p.doc = None THEN f.owned = None ELSE f.owned # None /\ f.owned.doc = p.doc
    BY <1>4, <2>1
  <2> QED
    BY <1>1, <1>4, <2>3, <2>4, DocumentIsOpened
<1>6. CASE NewRecovered(id)
  <2>1. PICK s \in Pages : s = Shown(Unsaved(page))
    BY <1>2, MarkedPages
  <2>2. PICK p : p = [s EXCEPT !.doc = None, !.origin = None]
    OBVIOUS
  <2>3. p \in Pages /\ p.doc = None
    BY <1>2, <2>1, <2>2 DEF Pages
  <2>4. Recovered(id, p, f, TRUE)
    BY <1>3, <1>6, <2>1, <2>2 DEF NewRecovered
  <2>5. \E finishes \in BOOLEAN : Recovered(id, p, f, finishes)
    BY <2>4
  <2>6. f.blocked \/ IF p.doc = None THEN f.owned = None ELSE f.owned # None /\ f.owned.doc = p.doc
    BY <1>4, <2>3
  <2> QED
    BY <1>1, <1>4, <2>3, <2>5, <2>6, DocumentIsOpened
<1> QED
  BY <1>5, <1>6

\* What an operation compares later.
LEMMA BaseIsTyped ==
  ASSUME Consistent
  PROVE  Base \in Bases
<1>1. page.rev \in Nat
  BY ConsistentFields DEF Pages
<1> QED
  BY <1>1, ConsistentFields DEF Base, Bases

LEMMA BeginsAreConsistent ==
  ASSUME Consistent, SupersedePendingOpen \/ New \/ \E d \in Docs : OpenPath(d)
  PROVE  Consistent'
<1>1. /\ flow.op < MaxOpens /\ flow.irreversible = 0
      /\ UNCHANGED <<disk, fresh, past, queue, run, update>>
  BY DEF SupersedePendingOpen, New, OpenPath, MayBegin, serviceVars
<1>2. PICK id : id = flow.op + 1
  OBVIOUS
<1>3. id \in OpenIds /\ id \in 0 .. MaxOpens /\ id # 0 /\ flow.op \in Nat /\ id > flow.op
  BY <1>1, <1>2, ConsistentFields DEF OpenIds
<1>4. /\ page \in Pages /\ flow \in Flows /\ opens \in [OpenIds -> Openings]
      /\ Settled /\ ReplacementsAreAwaited /\ CommandsAreAwaited /\ OpensAreSeen
  BY ConsistentFields DEF Consistent
<1>5. opens[id].stage = "none" /\ repl[id].stage = "idle"
  BY <1>3, <1>4 DEF OpensAreSeen, ReplacementsAreAwaited
<1>6. CASE SupersedePendingOpen
  <2>1. UNCHANGED <<page, opens, repl, calls>>
    BY <1>6 DEF SupersedePendingOpen
  <2>2. PICK o \in Openings : o = opens[id]
    BY <1>3, <1>4
  <2>3. opens' = [opens EXCEPT ![id] = o] /\ Opened(o) /\ o.stage = "none"
    BY <1>3, <1>4, <1>5, <2>1, <2>2, ConsistentFields DEF OpensTyped
  <2>4. /\ flow' \in Flows /\ flow'.op = id /\ flow'.owned = flow.owned /\ flow'.blocked = flow.blocked
    BY <1>2, <1>3, <1>4, <1>6 DEF SupersedePendingOpen, Flows
  <2>5. Settled' /\ ReplacementsAreAwaited' /\ CommandsAreAwaited'
    BY <1>1, <1>4, <2>1, <2>4, SettledStays, ReplacementsStay, CommandsStay
  <2>6. o.stage \notin Claiming /\ o.stage \notin Final
    BY <2>3 DEF Claiming, Final
  <2> QED
    BY <1>1, <1>2, <1>3, <1>4, <2>1, <2>3, <2>4, <2>5, <2>6, OperationBegins
<1>7. ASSUME NEW d \in Docs, OpenPath(d) PROVE Consistent'
  <2>1. UNCHANGED <<page, repl, calls>> /\ flow' = [flow EXCEPT !.op = id, !.opening = TRUE]
    BY <1>2, <1>7 DEF OpenPath
  <2>2. PICK o : o = [stage |-> "reserving", doc |-> d, base |-> Base, seen |-> Seen(d)]
    OBVIOUS
  <2>3. Seen(d) \in Readings /\ d \in Documents
    BY ConsistentFields DEF Seen, Readings, Files, Histories, Documents
  <2>4. o \in Openings /\ o.stage = "reserving" /\ o.doc = d
    BY <2>2, <2>3, BaseIsTyped DEF Openings, Claiming
  <2>5. Opened(o) /\ o.stage \notin Final
    BY <2>4 DEF Opened, Final
  <2>6. opens' = [opens EXCEPT ![id] = o]
    BY <1>2, <1>7, <2>2 DEF OpenPath
  <2>7. /\ flow' \in Flows /\ flow'.op = id /\ flow'.opening /\ flow'.owned = flow.owned
        /\ flow'.blocked = flow.blocked
    BY <1>3, <1>4, <2>1 DEF Flows
  <2>8. \A j \in OpenIds : j # id => opens'[j] = opens[j]
    BY <1>4, <2>6
  <2>9. Settled' /\ ReplacementsAreAwaited' /\ CommandsAreAwaited'
    BY <1>1, <1>4, <1>5, <2>1, <2>7, <2>8, SettledStays, ReplacementsStay, CommandsStay
  <2> QED
    BY <1>1, <1>2, <1>3, <1>4, <2>1, <2>4, <2>5, <2>6, <2>7, <2>9, OperationBegins
<1>8. CASE New
  <2>1. PICK f : f = [flow EXCEPT !.op = id, !.opening = TRUE]
    OBVIOUS
  <2>2. /\ f \in Flows /\ f.op = id /\ f.opening /\ f.owned = flow.owned /\ f.blocked = flow.blocked
    BY <1>3, <1>4, <2>1 DEF Flows
  <2>3. CASE page.doc = None /\ Applied(id, None, Untitled, f, Gone)
    <3>1. PICK p \in Pages : p = Untitled /\ p.doc = None
      BY UntitledPage
    <3>2. Applied(id, None, p, f, Gone)
      BY <2>3, <3>1
    <3>3. /\ page' \in Pages /\ page'.doc = None
          /\ flow' \in Flows /\ flow'.op = id /\ flow'.owned = flow.owned /\ flow'.blocked = flow.blocked
          /\ ReplacementsAreAwaited' /\ CommandsAreAwaited'
          /\ \E o \in Openings : /\ Opened(o) /\ o.stage \notin Claiming /\ o.stage \notin Final
                                 /\ opens' = [opens EXCEPT ![id] = o]
      BY <1>1, <1>3, <1>5, <2>2, <3>1, <3>2, AppliedChanges
    <3>4. Settled'
      BY <1>4, <2>3, <3>3, SettledStays
    <3> QED
      BY <1>1, <1>2, <1>3, <3>3, <3>4, OperationBegins
  <2>4. CASE /\ opens' = [opens EXCEPT ![id] = [stage |-> "leaving", doc |-> None, base |-> Base,
                                                seen |-> Blank]]
             /\ flow' = [f EXCEPT !.irreversible = id]
             /\ page' = [page EXCEPT !.locked = id]
             /\ UNCHANGED <<repl, calls>>
    <3>1. PICK o : o = [stage |-> "leaving", doc |-> None, base |-> Base, seen |-> Blank]
      OBVIOUS
    <3>2. Blank \in Readings /\ None \in Documents
      BY WorkflowAssumption DEF Blank, Readings, Stored, Contents, Documents
    <3>3. o \in Openings /\ o.stage = "leaving" /\ opens' = [opens EXCEPT ![id] = o]
      BY <2>4, <3>1, <3>2, BaseIsTyped DEF Openings, Claiming, Final
    <3>4. Opened(o)
      BY <3>3 DEF Opened, Asking
    <3>5. /\ flow' \in Flows /\ flow'.op = id /\ flow'.opening /\ flow'.irreversible = id
          /\ flow'.owned = flow.owned /\ flow'.blocked = flow.blocked
      BY <1>3, <2>2, <2>4 DEF Flows
    <3>6. page' \in Pages /\ page'.doc = page.doc
      BY <1>3, <1>4, <2>4 DEF Pages
    <3>7. \A j \in OpenIds : j # id => opens'[j] = opens[j]
      BY <1>4, <3>3
    <3>8. Settled' /\ ReplacementsAreAwaited' /\ CommandsAreAwaited'
      BY <1>1, <1>4, <1>5, <2>4, <3>5, <3>6, <3>7, SettledStays, ReplacementsStay, CommandsStay
    <3> QED
      BY <1>1, <1>2, <1>3, <3>3, <3>4, <3>5, <3>6, <3>8, OperationBegins
  <2> QED
    BY <1>2, <1>8, <2>1, <2>3, <2>4 DEF New
<1> QED
  BY <1>6, <1>7, <1>8

-----------------------------------------------------------------------------
(* The queue.                                                              *)

\* Nothing that cannot be taken back goes on while no operation is under way, as when a save writes.
LEMMA NothingCommits ==
  ASSUME Consistent, ~flow.opening
  PROVE  \A id \in OpenIds : opens[id].stage \notin Final
BY DEF Consistent, OpensAreSeen, Claiming

\* The running operation ends, and the transition of a save with it.
LEMMA RunEndsIsConsistent ==
  ASSUME Consistent, queue # <<>>, RunEnds, run.stage # "watching",
         UNCHANGED <<disk, fresh, past, opens, calls, repl, update>>,
         page' \in Pages, page'.doc = page.doc,
         \/ UNCHANGED flow
         \/ run.stage \in Irreversible /\ flow' = [flow EXCEPT !.irreversible = 0]
  PROVE  Consistent'
<1>1. /\ OpensAreSeen /\ SavesExclude /\ Settled /\ ReplacementsAreAwaited /\ CommandsAreAwaited
  BY DEF Consistent
<1>2. /\ flow' \in Flows /\ flow'.op = flow.op /\ flow'.opening = flow.opening
      /\ flow'.owned = flow.owned /\ flow'.blocked = flow.blocked
      /\ flow'.irreversible = flow.irreversible \/ run.stage \in Irreversible
  <2>1. PICK n \in 0 .. MaxOpens : n = 0
    BY WorkflowAssumption
  <2>2. UNCHANGED flow \/ (run.stage \in Irreversible /\ flow' = [flow EXCEPT !.irreversible = n])
    BY <2>1
  <2> QED
    BY <2>2, ConsistentFields DEF Flows
<1>3. QueueTyped' /\ run'.stage = "idle"
  BY <1>2, ConsistentFields, RunIsOver
<1>4. PageTyped' /\ OpensTyped'
  BY <1>2, ConsistentFields DEF PageTyped, OpensTyped
<1>5. Settled'
  BY <1>1, <1>2 DEF Settled, Owns
<1>6. run.stage \in Irreversible => \A id \in OpenIds : opens[id].stage \notin Final
  BY <1>1, NothingCommits DEF SavesExclude
<1>7. OpensAreSeen'
  BY <1>1, <1>2, <1>6 DEF OpensAreSeen
<1>8. SavesExclude'
  BY <1>3 DEF SavesExclude, Irreversible
<1>9. ReplacementsAreAwaited' /\ CommandsAreAwaited'
  BY <1>1, ReplacementsStay, CommandsStay
<1> QED
  BY <1>3, <1>4, <1>5, <1>7, <1>8, <1>9 DEF Consistent, Typed

\* The running operation goes on.
LEMMA RunGoesOn ==
  ASSUME Consistent, queue # <<>>, run.stage # "watching",
         UNCHANGED <<fresh, opens, queue, calls, repl, update, page>>,
         disk' \in [Files -> Stored], past' \in Histories,
         flow' \in Flows, flow'.op = flow.op, flow'.opening = flow.opening,
         flow'.owned = flow.owned, flow'.blocked = flow.blocked,
         flow'.irreversible = flow.irreversible \/ ~flow.opening,
         run'.stage \in {"reloading"} \union (SaveStages \ {"watching"}),
         run'.stage \in SaveStages => run' \in SaveRuns,
         SavesExclude'
  PROVE  Consistent'
<1>1. OpensAreSeen /\ Settled /\ ReplacementsAreAwaited /\ CommandsAreAwaited
  BY DEF Consistent
<1>2. PageTyped' /\ OpensTyped'
  BY ConsistentFields DEF PageTyped, OpensTyped
<1>3. QueueTyped'
  BY ConsistentFields DEF QueueTyped
<1>4. Settled'
  BY <1>1, SettledStays
<1>5. OpensAreSeen'
  BY <1>1, NothingCommits DEF OpensAreSeen
<1>6. ReplacementsAreAwaited' /\ CommandsAreAwaited'
  BY <1>1, ReplacementsStay, CommandsStay
<1> QED
  BY <1>2, <1>3, <1>4, <1>5, <1>6 DEF Consistent, Typed

LEMMA SaveStartsIsConsistent ==
  ASSUME Consistent, SaveStarts
  PROVE  Consistent'
<1>1. /\ queue # <<>> /\ Head(queue).kind = "save" /\ run.stage = "idle" /\ run.stage # "watching"
      /\ UNCHANGED <<disk, fresh, past, page, flow, opens, repl, calls, update>>
  BY DEF SaveStarts, serviceVars, Closed
<1>2. page \in Pages /\ flow \in Flows /\ past \in Histories /\ disk \in [Files -> Stored]
  BY ConsistentFields
<1>3. CASE RunEnds
  BY <1>1, <1>2, <1>3, RunEndsIsConsistent
<1>4. CASE /\ ~(flow.blocked \/ flow.irreversible # 0 \/ flow.opening \/ page.doc = None)
           /\ UNCHANGED queue
           /\ run' = [stage |-> "preparing", doc |-> page.doc, op |-> flow.op, owned |-> flow.owned,
                      rev |-> page.rev, text |-> Head(queue).text, origin |-> Head(queue).origin]
  <2>1. Head(queue) \in SaveRequests /\ page.doc # None
    <3>1. Len(queue) \in Nat \ {0} /\ Head(queue) = queue[1]
      BY <1>1, ConsistentFields, TailOfSequence
    <3> QED
      BY <1>1, <1>4, <3>1, ConsistentFields DEF QueueTyped
  <2>2. page.doc \in Docs /\ page.rev \in Nat
    BY <2>1, <1>2, ConsistentFields DEF Documents, Pages
  <2>3. /\ Head(queue).text \in Contents /\ Head(queue).origin \in Documents
        /\ flow.op \in 0 .. MaxOpens /\ flow.owned \in Ownerships \union {None}
    BY <2>1, <1>2 DEF SaveRequests, Flows
  <2>4. run' \in SaveRuns /\ run'.stage = "preparing" /\ run'.op = flow.op
    BY <1>4, <2>2, <2>3 DEF SaveRuns, SaveStages
  <2>5. "preparing" \in SaveStages \ {"watching"} /\ "preparing" \notin Irreversible
    BY DEF SaveStages, Irreversible
  <2>6. SavesExclude'
    BY <1>1, <1>4, <2>3, <2>4, <2>5, WorkflowAssumption DEF SavesExclude
  <2> QED
    BY <1>1, <1>2, <1>4, <2>4, <2>5, <2>6, ConsistentFields, RunGoesOn
<1> QED
  BY <1>3, <1>4 DEF SaveStarts

\* What a save writes, and what history keeps of it.
LEMMA SaveIsWritten ==
  ASSUME Consistent, SaveWrites
  PROVE  disk' \in [Files -> Stored] /\ past' \in Histories
<1>1. run.stage \in SaveStages
  BY DEF SaveWrites, SaveStages, Irreversible
<1>2. run \in SaveRuns
  BY <1>1, ConsistentFields DEF QueueTyped
<1>3. run.doc \in Docs /\ run.text \in Stored /\ run.origin \in Documents
  BY <1>2 DEF SaveRuns, Stored
<1>4. past.whose \in [Docs -> Documents] /\ past.strays \in SUBSET (Docs \X Documents)
  BY ConsistentFields DEF Histories
<1>5. PICK w \in [Docs -> Documents] : w = [past.whose EXCEPT ![run.doc] = run.origin]
  BY <1>3, <1>4
<1>6. PICK s \in SUBSET (Docs \X Documents) :
         s = past.strays \union ({<<run.doc, run.origin>>} \ {<<run.doc, run.doc>>})
  <2>1. PICK p \in Docs \X Documents : p = <<run.doc, run.origin>>
    BY <1>3
  <2>2. past.strays \union ({p} \ {<<run.doc, run.doc>>}) \in SUBSET (Docs \X Documents)
    BY <1>4, <2>1
  <2> QED
    BY <2>1, <2>2
<1>7. past' = [whose |-> w, strays |-> s]
  BY <1>5, <1>6 DEF SaveWrites
<1>8. disk' \in [Files -> Stored]
  BY <1>3, ConsistentFields DEF SaveWrites
<1> QED
  BY <1>7, <1>8 DEF Histories

LEMMA SaveGoesOnIsConsistent ==
  ASSUME Consistent, SavePrepared \/ SaveWrites \/ SaveRecords \/ SaveFails
  PROVE  Consistent'
<1>1. /\ run.stage \in SaveStages /\ run.stage # "watching" /\ run.stage # "idle"
      /\ UNCHANGED <<fresh, opens, repl, calls, update>>
  BY DEF SavePrepared, SaveWrites, SaveRecords, SaveFails, serviceVars, SaveStages, Irreversible
<1>2. queue # <<>> /\ run \in SaveRuns
  BY <1>1, ConsistentFields DEF QueueTyped
<1>3. /\ page \in Pages /\ flow \in Flows /\ SavesExclude /\ disk \in [Files -> Stored]
      /\ past \in Histories
  BY ConsistentFields
<1>4. CASE SavePrepared
  <2>1. UNCHANGED <<disk, page, past>> /\ run.stage = "preparing"
    BY <1>4 DEF SavePrepared, serviceVars
  <2>2. CASE RunEnds /\ UNCHANGED flow
    BY <1>1, <1>2, <1>3, <2>1, <2>2, RunEndsIsConsistent
  <2>3. CASE /\ ~flow.opening /\ SaveIsCurrent /\ UNCHANGED queue
             /\ run' = [run EXCEPT !.stage = "writing"]
             /\ flow' = [flow EXCEPT !.irreversible = run.op]
    <3>1. run.doc \in Docs /\ run.op \in 0 .. MaxOpens
      BY <1>2 DEF SaveRuns
    <3>2. flow.op = run.op /\ page.doc = run.doc /\ flow.owned = run.owned
      BY <2>3 DEF SaveIsCurrent
    <3>3. flow.op # 0
      BY <3>1, <3>2, WorkflowAssumption, ConsistentFields DEF QueueTyped
    <3>4. /\ flow' \in Flows /\ flow'.op = flow.op /\ flow'.opening = flow.opening
          /\ flow'.owned = flow.owned /\ flow'.blocked = flow.blocked /\ flow'.irreversible = flow.op
      BY <1>3, <2>3, <3>1, <3>2 DEF Flows
    <3>5. /\ run' \in SaveRuns /\ run'.stage = "writing" /\ run'.op = run.op /\ run'.doc = run.doc
          /\ run'.owned = run.owned
          /\ run'.stage \in {"reloading"} \union (SaveStages \ {"watching"})
      BY <1>2, <2>3 DEF SaveRuns, SaveStages, Irreversible
    <3>6. SavesExclude'
      BY <1>3, <2>1, <2>3, <3>2, <3>3, <3>4, <3>5 DEF SavesExclude
    <3> QED
      BY <1>1, <1>2, <1>3, <2>1, <2>3, <3>4, <3>5, <3>6, RunGoesOn
  <2> QED
    BY <1>4, <2>2, <2>3 DEF SavePrepared
<1>5. CASE SaveWrites \/ SaveRecords
  <2>1. UNCHANGED <<page, flow, queue>> /\ run.stage \in Irreversible
    BY <1>5 DEF SaveWrites, SaveRecords, Irreversible
  <2>2. disk' \in [Files -> Stored] /\ past' \in Histories
    BY <1>3, <1>5, SaveIsWritten DEF SaveRecords
  <2>3. PICK st \in Irreversible : run' = [run EXCEPT !.stage = st]
    BY <1>5 DEF SaveWrites, SaveRecords, Irreversible
  <2>4. /\ run' \in SaveRuns /\ run'.stage = st /\ run'.op = run.op /\ run'.doc = run.doc
        /\ run'.owned = run.owned
    BY <1>2, <2>3 DEF SaveRuns, SaveStages
  <2>5. run'.stage # "preparing" /\ run'.stage \in SaveStages \ {"watching"}
    BY <2>3, <2>4 DEF SaveStages, Irreversible
  <2>6. SavesExclude'
    BY <1>3, <2>1, <2>4, <2>5 DEF SavesExclude
  <2> QED
    BY <1>1, <1>2, <1>3, <2>1, <2>2, <2>4, <2>5, <2>6, RunGoesOn
<1>6. CASE SaveFails
  <2>1. /\ RunEnds /\ run.stage \in Irreversible /\ UNCHANGED <<disk, past>>
        /\ page' = Shown(page) /\ flow' = [flow EXCEPT !.irreversible = 0]
    BY <1>6 DEF SaveFails, Irreversible, serviceVars
  <2>2. page' \in Pages /\ page'.doc = page.doc
    BY <1>3, <2>1, MarkedPages
  <2> QED
    BY <1>1, <1>2, <2>1, <2>2, RunEndsIsConsistent
<1> QED
  BY <1>4, <1>5, <1>6

\* What was written is applied, and the document is watched again; no other document came between.
LEMMA SaveAppliedIsConsistent ==
  ASSUME Consistent, SaveApplied
  PROVE  Consistent'
<1>1. /\ run.stage = "written" /\ run.stage \in Irreversible /\ run.stage \in SaveStages
      /\ run.stage # "watching" /\ run.stage # "idle"
      /\ UNCHANGED <<disk, fresh, past, opens, update>>
  BY DEF SaveApplied, serviceVars, SaveStages, Irreversible
<1>2. page \in Pages /\ flow \in Flows /\ SavesExclude /\ queue # <<>> /\ run \in SaveRuns
  BY <1>1, ConsistentFields DEF QueueTyped
<1>3. SaveIsCurrent
  BY <1>1, <1>2 DEF SavesExclude, SaveIsCurrent
<1>4. /\ page' = Marked(page, run.text, run.rev)
      /\ flow' = [flow EXCEPT !.irreversible = 0]
      /\ StartReplace(TheSave, hook, run.doc, run.text)
      /\ IF hook.watched = run.doc THEN RunEnds
         ELSE run' = [run EXCEPT !.stage = "watching"] /\ UNCHANGED queue
  BY <1>3 DEF SaveApplied
<1>5. page' \in Pages /\ page'.doc = page.doc
  <2>1. run.text \in Contents
    BY <1>2 DEF SaveRuns
  <2> QED
    BY <1>2, <1>4, <2>1, SavedPages
<1>6. CASE hook.watched = run.doc
  <2>1. RunEnds /\ UNCHANGED <<repl, calls>>
    BY <1>4, <1>6 DEF StartReplace
  <2> QED
    BY <1>1, <1>2, <1>4, <1>5, <2>1, RunEndsIsConsistent
<1>7. CASE hook.watched # run.doc
  <2>1. run' = [run EXCEPT !.stage = "watching"] /\ UNCHANGED queue
    BY <1>4, <1>7
  <2>2. /\ run' \in SaveRuns /\ run'.stage = "watching" /\ "watching" \in SaveStages
        /\ "watching" \notin Irreversible
    BY <1>2, <2>1 DEF SaveRuns, SaveStages, Irreversible
  <2>3. /\ flow' \in Flows /\ flow'.op = flow.op /\ flow'.opening = flow.opening
        /\ flow'.owned = flow.owned /\ flow'.blocked = flow.blocked
    <3>1. PICK n \in 0 .. MaxOpens : n = 0
      BY WorkflowAssumption
    <3>2. flow' = [flow EXCEPT !.irreversible = n]
      BY <1>4, <3>1
    <3> QED
      BY <1>2, <3>2 DEF Flows
  <2>4. /\ OpensAreSeen /\ Settled /\ ReplacementsAreAwaited
        /\ \A id \in OpenIds : opens[id].stage \notin Final
    BY <1>1, <1>2, NothingCommits DEF Consistent, SavesExclude
  <2>5. PageTyped' /\ OpensTyped'
    BY <1>1, <1>5, <2>3, ConsistentFields DEF PageTyped, OpensTyped
  <2>6. QueueTyped'
    BY <1>2, <1>5, <2>1, <2>2, <2>3, ConsistentFields DEF QueueTyped
  <2>7. Settled'
    BY <1>5, <2>3, <2>4, SettledStays
  <2>8. OpensAreSeen'
    BY <1>1, <2>3, <2>4 DEF OpensAreSeen
  <2>9. SavesExclude'
    BY <2>2 DEF SavesExclude
  <2>10. TheSave \in Owners /\ repl[TheSave].stage = "idle"
    BY <1>1, <2>4, OwnersAndImages DEF ReplacementsAreAwaited
  <2>11. /\ CommandsAreAwaited'
         /\ DOMAIN repl' = Owners /\ \A o \in Owners : "stage" \in DOMAIN repl'[o]
         /\ \A o \in Owners : o # TheSave => repl'[o] = repl[o]
    BY <1>1, <1>4, <2>10, StartOfReplace
  <2>12. ReplacementsAreAwaited'
    BY <1>1, <2>2, <2>4, <2>11, OwnersAndImages DEF ReplacementsAreAwaited
  <2> QED
    BY <2>5, <2>6, <2>7, <2>8, <2>9, <2>11, <2>12 DEF Consistent, Typed
<1> QED
  BY <1>6, <1>7

\* A reload begins, and ends with the text of the file, or without.
LEMMA ReloadIsConsistent ==
  ASSUME Consistent, ReloadStarts \/ ReloadEnds
  PROVE  Consistent'
<1>1. UNCHANGED <<disk, fresh, past, flow, opens, repl, calls, update>>
  BY DEF ReloadStarts, ReloadEnds, serviceVars
<1>2. /\ page \in Pages /\ flow \in Flows /\ disk \in [Files -> Stored] /\ past \in Histories
      /\ run.stage # "watching"
  BY ConsistentFields DEF ReloadStarts, ReloadEnds, Closed
<1>3. CASE ReloadStarts /\ RunEnds
  <2>1. queue # <<>> /\ UNCHANGED page
    BY <1>3 DEF ReloadStarts
  <2> QED
    BY <1>1, <1>2, <1>3, <2>1, RunEndsIsConsistent
<1>4. CASE ReloadStarts /\ ~RunEnds
  <2>1. queue # <<>> /\ UNCHANGED <<queue, page>>
    BY <1>4 DEF ReloadStarts
  <2>2. run'.stage = "reloading"
    <3>1. PICK r : r = [stage |-> "reloading", path |-> Head(queue).version.file, gen |-> hook.gen,
                        request |-> hook.request + 1, chosen |-> Head(queue).kind = "chosen",
                        version |-> Head(queue).version]
      OBVIOUS
    <3>2. r.stage = "reloading"
      BY <3>1
    <3>3. run' = r
      BY <1>4, <3>1 DEF ReloadStarts
    <3> QED
      BY <3>2, <3>3
  <2>3. run'.stage \notin SaveStages /\ run'.stage \notin Irreversible /\ run'.stage # "preparing"
    BY <2>2 DEF SaveStages, Irreversible
  <2>4. SavesExclude'
    BY <2>3 DEF SavesExclude
  <2> QED
    BY <1>1, <1>2, <2>1, <2>2, <2>3, <2>4, RunGoesOn
<1>5. CASE ReloadEnds
  <2>1. RunEnds /\ run.stage = "reloading"
    BY <1>5 DEF ReloadEnds
  <2>2. queue # <<>>
    BY <2>1, ConsistentFields DEF QueueTyped
  <2>3. PICK path : path = run.path
    OBVIOUS
  <2>4. page' \in Pages /\ page'.doc = page.doc
    <3>1. CASE page' \in {page, Shown(page)}
      BY <1>2, <3>1, MarkedPages
    <3>2. CASE page' \notin {page, Shown(page)}
      <4>1. ~Fails(path) /\ page' \in {Told(page, disk[path]), Loaded(page, Seen(path))}
        BY <1>5, <2>3, <3>2 DEF ReloadEnds
      <4> QED
        BY <1>2, <4>1, FileIsRead
    <3> QED
      BY <3>1, <3>2
  <2> QED
    BY <1>1, <1>2, <2>1, <2>2, <2>4, RunEndsIsConsistent
<1> QED
  BY <1>3, <1>4, <1>5

-----------------------------------------------------------------------------
(* The invariant.                                                          *)

LEMMA InitIsConsistent == Init => Consistent
<1> SUFFICES ASSUME Init PROVE Consistent
  OBVIOUS
<1>1. /\ 0 \in Contents /\ MaxOpens \in Nat /\ None \in Documents /\ 0 \in 0 .. MaxOpens
      /\ \A d \in Docs : d \in Documents
  BY WorkflowAssumption DEF Contents, Documents
<1>2. disk \in [Files -> Stored] /\ fresh \in Nat /\ update.stage = "none"
  BY <1>1 DEF Init, ServiceInit, Stored, NoUpdate
<1>3. page \in Pages /\ page.doc = None
  <2>1. PICK s \in [Images -> Stored] : s = [i \in Images |-> 0]
    BY <1>1 DEF Stored
  <2>2. PICK k \in SUBSET Contents : k = {}
    OBVIOUS
  <2>3. page = [doc |-> None, text |-> 0, saved |-> 0, dirty |-> FALSE, rev |-> 0, error |-> FALSE,
                locked |-> 0, origin |-> None, known |-> k, passed |-> FALSE, shown |-> s]
    BY <2>1, <2>2 DEF Init
  <2> QED
    BY <1>1, <2>1, <2>2, <2>3 DEF Pages
<1>4. past \in Histories
  <2>1. PICK w \in [Docs -> Documents] : w = [d \in Docs |-> d]
    BY <1>1
  <2>2. PICK s \in SUBSET (Docs \X Documents) : s = {}
    OBVIOUS
  <2>3. past = [whose |-> w, strays |-> s]
    BY <2>1, <2>2 DEF Init
  <2> QED
    BY <2>3 DEF Histories
<1>5. flow \in Flows /\ flow.op = 0 /\ ~flow.opening /\ flow.owned = None
  BY <1>1 DEF Init, Flows
<1>6. /\ opens \in [OpenIds -> Openings]
      /\ \A id \in OpenIds : opens[id].stage = "none"
  <2>1. PICK b \in Readings : b = Blank
    BY <1>1 DEF Blank, Readings, Stored
  <2>2. NoOpen = [stage |-> "none", doc |-> None, base |-> None, seen |-> b]
    BY <2>1 DEF NoOpen
  <2>3. NoOpen \in Openings /\ NoOpen.stage = "none"
    BY <1>1, <2>2 DEF Openings
  <2> QED
    BY <2>3 DEF Init
<1>7. /\ queue = <<>> /\ calls = <<>> /\ run.stage = "idle"
      /\ DOMAIN repl = Owners
      /\ \A o \in Owners : repl[o].stage = "idle" /\ "stage" \in DOMAIN repl[o]
  <2>1. Closed.stage = "idle" /\ "stage" \in DOMAIN Closed
    BY DEF Closed
  <2> QED
    BY <2>1 DEF Init
<1>8. /\ "idle" \notin SaveStages /\ "idle" \notin Irreversible
      /\ "none" \notin Claiming /\ "none" \notin Final /\ "none" \notin Asking
  BY DEF SaveStages, Irreversible, Claiming, Final, Asking
<1>9. QueueTyped
  <2>1. IsSequence(queue) /\ Len(queue) = 0
    BY <1>7 DEF IsSequence
  <2>2. 1 .. Len(queue) = {}
    BY <2>1
  <2> QED
    BY <1>3, <1>7, <1>8, <2>1, <2>2 DEF QueueTyped
<1>10. PageTyped /\ OpensTyped
  BY <1>2, <1>3, <1>4, <1>5, <1>6, <1>8 DEF PageTyped, OpensTyped, Opened
<1>11. Settled /\ SavesExclude
  BY <1>3, <1>5, <1>7, <1>8 DEF Settled, SavesExclude
<1>12. OpensAreSeen
  BY <1>6, <1>8 DEF OpensAreSeen
<1>13. ReplacementsAreAwaited
  BY <1>7, OwnersAndImages DEF ReplacementsAreAwaited
<1>14. CommandsAreAwaited
  <2>1. calls \in Seq(Owners \union {TheImages}) /\ 1 .. Len(calls) = {}
    BY <1>7
  <2> QED
    BY <1>2, <2>1 DEF CommandsAreAwaited
<1> QED
  BY <1>9, <1>10, <1>11, <1>12, <1>13, <1>14 DEF Consistent, Typed

LEMMA NextIsConsistent == Consistent /\ [Next]_vars => Consistent'
<1> SUFFICES ASSUME Consistent, [Next]_vars PROVE Consistent'
  OBVIOUS
<1>1. CASE Watcher \/ Writer \/ WatchErrors \/ Receive
  BY <1>1, WatcherIsConsistent, WriterIsConsistent, ReceiveIsConsistent
<1>2. CASE User
  BY <1>2, UserIsConsistent, BeginsAreConsistent, CallBeginsIsConsistent DEF User
<1>3. CASE Queued
  BY <1>3, SaveStartsIsConsistent, SaveGoesOnIsConsistent, SaveAppliedIsConsistent,
     ReloadIsConsistent DEF Queued
<1>4. CASE CallBegins
  BY <1>4, CallBeginsIsConsistent
<1>5. CASE CallEnds(TheImages)
  <2>1. TheImages \in Owners \union {TheImages}
    OBVIOUS
  <2> QED
    BY <1>5, <2>1, CallEndsIsConsistent
<1>6. ASSUME NEW id \in OpenIds, Opening(id) PROVE Consistent'
  BY <1>6, ReserveIsConsistent, FailuresAreConsistent, ReadIsConsistent, AppliedIsConsistent,
     AdoptedIsConsistent, LeftIsConsistent DEF Opening
<1>7. ASSUME NEW owner \in Owners, Replacing(owner) PROVE Consistent'
  <2>1. owner \in Owners \union {TheImages}
    OBVIOUS
  <2> QED
    BY <1>7, <2>1, CallEndsIsConsistent, ReplaceContinuesIsConsistent, ReplaceReadsIsConsistent
       DEF Replacing
<1>8. CASE UNCHANGED vars
  <2>1. UNCHANGED <<disk, fresh, past, page, flow, opens, queue, run, repl, calls, update>>
    BY <1>8 DEF vars, serviceVars, pageVars
  <2> QED
    BY <2>1, ConsistentFields, QuietStep
<1> QED
  BY <1>1, <1>2, <1>3, <1>4, <1>5, <1>6, <1>7, <1>8 DEF Next

\* The claim workflow, the opens, the queue and the calls to the watcher agree with each other.
THEOREM InvariantHolds == Spec => []Consistent
<1> QED
  BY InitIsConsistent, NextIsConsistent, PTL DEF Spec

\* While a save writes, no claim is committed or released, and neither the path nor the claim the
\* window has change, also when opens begin, are given up or end in doubt meanwhile
\* (beginIrreversibleDocumentClaimTransition, isCurrentRequest of saveCurrentFile).
THEOREM WritesStayAlone == Spec => []WritesAreAlone
<1>1. Consistent => WritesAreAlone
  <2> SUFFICES ASSUME Consistent, run.stage \in Irreversible PROVE WritesAreAlone
    BY DEF WritesAreAlone, Irreversible
  <2>1. ~flow.opening /\ page.doc = run.doc /\ flow.owned = run.owned
    BY DEF Consistent, SavesExclude
  <2> QED
    BY <2>1, NothingCommits DEF WritesAreAlone, Final
<1> QED
  BY <1>1, InvariantHolds, PTL

-----------------------------------------------------------------------------
(* What a step does to the text in the editor.                             *)

\* The page knows that its text is not the one last loaded or saved, or a save passed it over.
Truthful == page.text = page.saved \/ page.dirty \/ page.passed

\* The text and the document it is of stay,
Stays ==
  /\ page'.doc = page.doc /\ page'.origin = page.origin /\ page'.text = page.text
  /\ Truthful => Truthful'
\* the user types,
Typing == Edit /\ page'.doc = page.doc /\ page'.origin = page.origin /\ page'.dirty = TRUE
\* the file of the document is read, when it is clean or the user chose so,
Reading ==
  /\ page'.text = page'.saved /\ page'.doc = page.doc
  /\ \E d \in Docs : (flow.blocked \/ d = page.doc) /\ page'.origin = past.whose[d]
  /\ ~page.dirty \/ (run.stage = "reloading" /\ run.chosen)
\* an open ends with its document,
Opens(id) ==
  /\ opens[id].stage = "committing" /\ opens[id].base = Base
  /\ page'.text = page'.saved /\ page'.doc = opens[id].doc /\ page'.origin = opens[id].seen.origin
\* an untitled document begins,
Begins ==
  /\ page'.text = page'.saved /\ page'.doc = None /\ page'.origin = None
  /\ \/ New
     \/ \E id \in OpenIds : opens[id].stage = "leaving" /\ opens[id].base = Base
\* or the text stays, as unsaved, with another document or none.
Keeps ==
  /\ page'.text = page.text /\ page'.dirty = TRUE
  /\ flow'.blocked \/ (page'.doc = None /\ page'.origin = None)

\* What a page says of itself besides its text.
LEMMA SamePage ==
  ASSUME NEW p \in Pages, p.doc = page.doc, p.origin = page.origin, p.text = page.text,
         p.saved = page.saved, p.dirty = page.dirty, p.passed = page.passed,
         \/ page' = p
         \/ page' = Shown(p)
         \/ \E w : page' \in {Freed(p, w), Shown(Freed(p, w))}
  PROVE  Stays
<1>1. ASSUME NEW q \in Pages, q.doc = page.doc, q.origin = page.origin, q.text = page.text,
             q.saved = page.saved, q.dirty = page.dirty, q.passed = page.passed,
             page' = q \/ page' = Shown(q)
      PROVE  Stays
  <2>1. /\ page'.doc = page.doc /\ page'.origin = page.origin /\ page'.text = page.text
        /\ page'.saved = page.saved /\ page'.dirty = page.dirty /\ page'.passed = page.passed
    <3>1. CASE page' = q
      BY <1>1, <3>1
    <3>2. CASE page' = Shown(q)
      BY <1>1, <3>2, MarkedPages
    <3> QED
      BY <1>1, <3>1, <3>2
  <2> QED
    BY <2>1 DEF Stays, Truthful
<1>2. CASE page' = p \/ page' = Shown(p)
  BY <1>1, <1>2
<1>3. ASSUME NEW w, page' = Freed(p, w) \/ page' = Shown(Freed(p, w)) PROVE Stays
  <2>1. PICK q \in Pages : /\ q = Freed(p, w)
                           /\ q.doc = p.doc /\ q.origin = p.origin /\ q.text = p.text
                           /\ q.saved = p.saved /\ q.dirty = p.dirty /\ q.passed = p.passed
    BY FreedPages
  <2> QED
    BY <1>1, <1>3, <2>1
<1> QED
  BY <1>2, <1>3

\* A file that was removed, and other events.
LEMMA EventsAreTold ==
  ASSUME Consistent, Receive
  PROVE  Stays
<1>1. page \in Pages
  BY ConsistentFields
<1>2. CASE page' \in {page, Shown(page)}
  BY <1>1, <1>2, SamePage
<1>3. CASE page' = Shown(Unsaved(page))
  <2>1. PICK q \in Pages : /\ q = Unsaved(page) /\ q.doc = page.doc /\ q.origin = page.origin
                           /\ q.text = page.text /\ q.dirty = TRUE
    BY <1>1, MarkedPages
  <2> QED
    BY <1>3, <2>1, MarkedPages DEF Stays, Truthful
<1>4. CASE page' = [page EXCEPT !.shown[Head(wire).file] = disk[Head(wire).file]]
  BY <1>1, <1>4 DEF Stays, Truthful, Pages
<1> QED
  BY <1>2, <1>3, <1>4 DEF Receive

\* The document is watched: a file that changed meanwhile is read.
LEMMA WatchesChangePage ==
  ASSUME Consistent, NEW owner \in Owners, Replacing(owner)
  PROVE  Stays \/ Reading
<1>1. page \in Pages
  BY ConsistentFields
<1>2. CASE UNCHANGED page
  BY <1>1, <1>2, SamePage
<1>3. CASE \E p : Finish(owner, p) /\ p \in {page, Shown(page)}
  <2>1. PICK p \in {page, Shown(page)} : Finish(owner, p)
    BY <1>3
  <2>2. page' = Freed(p, owner)
    BY <2>1 DEF Finish
  <2>3. /\ p \in Pages /\ p.doc = page.doc /\ p.origin = page.origin /\ p.text = page.text
        /\ p.saved = page.saved /\ p.dirty = page.dirty /\ p.passed = page.passed
    BY <1>1, <2>1, MarkedPages
  <2> QED
    BY <2>2, <2>3, SamePage
<1>4. CASE ReplaceReads(owner) /\ ~UNCHANGED page
  <2>1. PICK path : path = repl[owner].path
    OBVIOUS
  <2>2. CASE Fails(path)
    <3>1. Finish(owner, Shown(page))
      BY <1>4, <2>1, <2>2 DEF ReplaceReads, Superseded
    <3> QED
      BY <1>3, <3>1
  <2>3. CASE ~Fails(path)
    <3>1. PICK p : p = IF disk[path] = page.text \/ page.dirty THEN Told(page, disk[path])
                       ELSE Loaded(page, Seen(path))
      OBVIOUS
    <3>2. page' = Freed(p, owner)
      BY <1>4, <2>1, <2>3, <3>1 DEF ReplaceReads, Superseded, Finish
    <3>3. CASE p = Told(page, disk[path])
      <4>1. /\ p \in Pages /\ p.doc = page.doc /\ p.origin = page.origin /\ p.text = page.text
            /\ p.saved = page.saved /\ p.dirty = page.dirty /\ p.passed = page.passed
        BY <2>3, <3>3, FileIsRead
      <4> QED
        BY <3>2, <4>1, SamePage
    <3>4. CASE p = Loaded(page, Seen(path)) /\ ~page.dirty
      <4>1. /\ p \in Pages /\ p.doc = page.doc /\ p.origin = past.whose[path] /\ p.text = p.saved
            /\ path \in Docs /\ (flow.blocked \/ path = page.doc)
        BY <2>3, <3>4, FileIsRead
      <4>2. /\ page'.doc = p.doc /\ page'.origin = p.origin /\ page'.text = p.text
            /\ page'.saved = p.saved
        BY <3>2, <4>1, FreedPages
      <4> QED
        BY <3>4, <4>1, <4>2 DEF Reading
    <3> QED
      BY <3>1, <3>3, <3>4
  <2> QED
    BY <2>2, <2>3
<1>5. CASE ReplaceContinues(owner) /\ ~UNCHANGED page
  <2>1. Finish(owner, page) \/ Finish(owner, Shown(page))
    BY <1>5 DEF ReplaceContinues, Superseded
  <2> QED
    BY <1>3, <2>1
<1> QED
  BY <1>2, <1>4, <1>5 DEF Replacing, CallEnds

\* The queue: a reload reads the file, and a save marks what it wrote.
LEMMA QueueChangesPage ==
  ASSUME Consistent, Queued
  PROVE  Stays \/ Reading
<1>1. page \in Pages
  BY ConsistentFields
<1>2. CASE page' \in {page, Shown(page)}
  BY <1>1, <1>2, SamePage
<1>3. CASE SaveApplied /\ page' = Marked(page, run.text, run.rev)
  <2>1. run.stage \in SaveStages
    BY <1>3 DEF SaveApplied, SaveStages, Irreversible
  <2>2. run.text \in Contents
    BY <2>1, ConsistentFields DEF QueueTyped, SaveRuns
  <2> QED
    BY <1>1, <1>3, <2>2, SavedPages DEF Stays, Truthful
<1>4. CASE ReloadEnds /\ page' \notin {page, Shown(page)}
  <2>1. PICK path : path = run.path
    OBVIOUS
  <2>2. /\ ~Fails(path) /\ run.stage = "reloading"
        /\ \/ page' = Told(page, disk[path])
           \/ page' = Loaded(page, Seen(path)) /\ Overwrites(run)
    BY <1>4, <2>1 DEF ReloadEnds
  <2>3. CASE page' = Told(page, disk[path])
    BY <2>2, <2>3, FileIsRead DEF Stays, Truthful
  <2>4. CASE page' = Loaded(page, Seen(path)) /\ Overwrites(run)
    BY <2>2, <2>4, FileIsRead DEF Reading, Overwrites
  <2> QED
    BY <2>2, <2>3, <2>4
<1> QED
  BY <1>2, <1>3, <1>4 DEF Queued, SaveStarts, SavePrepared, SaveWrites, SaveRecords, SaveFails,
                          SaveApplied, ReloadStarts, ReloadEnds

\* The claim of an open is answered, committed, released or in doubt.
LEMMA OpensChangePage ==
  ASSUME Consistent, NEW id \in OpenIds, Opening(id)
  PROVE  Stays \/ Opens(id) \/ Begins \/ Keeps
<1>1. page \in Pages /\ flow \in Flows /\ UNCHANGED <<run, update>>
  BY ConsistentFields DEF Opening, ReserveAnswered, ReserveFails, ReserveUnknown, Released, ReadAnswered,
     CommitFails, OpenApplied, AdoptFailClosed, LeaveUnknown, NewApplied, NewRecovered, OpenUnchanged,
     serviceVars
<1>2. CASE page' \in {page, Shown(page), Shown(Freed(page, id))}
  BY <1>1, <1>2, SamePage
<1>3. CASE page' = [page EXCEPT !.locked = id]
  BY <1>1, <1>3 DEF Stays, Truthful, Pages
<1>4. opens[id].stage \in {"committing", "leaving"} => repl[id].stage = "idle"
  BY DEF Consistent, ReplacementsAreAwaited
<1>5. CASE OpenApplied(id)
  <2>1. opens[id].stage = "committing" /\ opens[id].base = Base
    BY <1>5 DEF OpenApplied, IsCurrent
  <2>2. PICK d, seen : d = opens[id].doc /\ seen = opens[id].seen
    OBVIOUS
  <2>3. d \in Docs /\ d \in Documents /\ seen \in Readings /\ seen.text \in Contents
    BY <2>1, <2>2, ConsistentFields DEF OpensTyped, Opened, Openings, Asking, Documents
  <2>4. PICK l \in Pages : l = Loaded(page, seen) /\ l.origin = seen.origin /\ l.text = l.saved
    BY <1>1, <2>3, ReadPages
  <2>5. PICK p : p = [l EXCEPT !.doc = d]
    OBVIOUS
  <2>6. p \in Pages /\ p.doc = d /\ p.origin = seen.origin /\ p.text = p.saved
    BY <2>3, <2>4, <2>5 DEF Pages
  <2>7. PICK w \in Ownerships : w = [op |-> id, doc |-> d]
    BY <2>3 DEF Ownerships
  <2>8. PICK f \in Flows : f = [flow EXCEPT !.owned = w]
    BY <1>1 DEF Flows
  <2>9. Applied(id, d, p, f, seen.text)
    BY <1>5, <2>2, <2>4, <2>5, <2>7, <2>8 DEF OpenApplied
  <2>10. /\ page'.doc = p.doc /\ page'.origin = p.origin /\ page'.text = p.text
         /\ page'.saved = p.saved
    BY <1>1, <1>4, <2>1, <2>6, <2>9, AppliedChanges
  <2> QED
    BY <2>1, <2>2, <2>6, <2>10 DEF Opens
<1>6. CASE AdoptFailClosed(id)
  <2>1. opens[id].stage = "committing"
    BY <1>6 DEF AdoptFailClosed
  <2>2. PICK d \in Documents : d = opens[id].doc /\ d \in Docs
    BY <2>1, ConsistentFields DEF OpensTyped, Opened, Asking, Documents
  <2>3. PICK u \in Pages : u = Unsaved(page) /\ u.text = page.text /\ u.dirty = TRUE
    BY <1>1, MarkedPages
  <2>4. PICK s \in Pages : s = Shown(u) /\ s.text = page.text /\ s.dirty = TRUE
    BY <2>3, MarkedPages
  <2>5. PICK p : p = [s EXCEPT !.doc = d]
    OBVIOUS
  <2>6. p \in Pages /\ p.text = page.text /\ p.dirty = TRUE
    BY <2>4, <2>5 DEF Pages
  <2>7. PICK w \in Ownerships : w = [op |-> id, doc |-> d]
    BY <2>2 DEF Ownerships
  <2>8. PICK f : f = [flow EXCEPT !.owned = w, !.blocked = TRUE] /\ f \in Flows /\ f.blocked
    <3>1. PICK f : f = [flow EXCEPT !.owned = w, !.blocked = TRUE]
      OBVIOUS
    <3>2. f \in Flows /\ f.blocked
      BY <1>1, <2>7, <3>1 DEF Flows
    <3> QED
      BY <3>1, <3>2
  <2>9. [Claimed(id) EXCEPT !.blocked = TRUE] = f
    BY <1>1, <2>2, <2>7, <2>8 DEF Claimed, Flows
  <2>10. PICK finishes \in BOOLEAN : Recovered(id, p, f, finishes)
    <3>1. p = Adopted(id)
      BY <2>2, <2>3, <2>4, <2>5 DEF Adopted
    <3>2. \E finishes \in BOOLEAN : Recovered(id, Adopted(id), [Claimed(id) EXCEPT !.blocked = TRUE], finishes)
      BY <1>6 DEF AdoptFailClosed
    <3> QED
      BY <2>9, <3>1, <3>2
  <2>11. page'.text = p.text /\ page'.dirty = p.dirty /\ flow'.blocked = f.blocked
    <3>1. p \in Pages /\ f \in Flows /\ repl[id].stage = "idle" /\ UNCHANGED <<run, update>>
      BY <1>1, <1>4, <2>1, <2>6, <2>8
    <3> QED
      BY <2>10, <3>1, RecoveredChanges
  <2> QED
    BY <2>6, <2>8, <2>11 DEF Keeps
<1>7. PICK g \in Flows : g = [flow EXCEPT !.owned = None]
  BY <1>1 DEF Flows
<1>8. CASE NewApplied(id)
  <2>1. opens[id].stage = "leaving" /\ opens[id].base = Base
    BY <1>8 DEF NewApplied
  <2>2. PICK p \in Pages : p = Untitled /\ p.doc = None /\ p.origin = None /\ p.text = p.saved
    BY UntitledPage
  <2>3. Applied(id, None, p, g, Gone)
    BY <1>7, <1>8, <2>2 DEF NewApplied
  <2>4. /\ page'.doc = p.doc /\ page'.origin = p.origin /\ page'.text = p.text
        /\ page'.saved = p.saved
    BY <1>1, <1>4, <2>1, <2>3, AppliedChanges
  <2> QED
    BY <2>1, <2>2, <2>4 DEF Begins
<1>9. CASE NewRecovered(id)
  <2>1. opens[id].stage = "leaving"
    BY <1>9 DEF NewRecovered
  <2>2. PICK u \in Pages : u = Unsaved(page) /\ u.text = page.text /\ u.dirty = TRUE
    BY <1>1, MarkedPages
  <2>3. PICK s \in Pages : s = Shown(u) /\ s.text = page.text /\ s.dirty = TRUE
    BY <2>2, MarkedPages
  <2>4. PICK p : p = [s EXCEPT !.doc = None, !.origin = None]
    OBVIOUS
  <2>5. p \in Pages /\ p.text = page.text /\ p.dirty = TRUE /\ p.doc = None /\ p.origin = None
    BY <2>3, <2>4 DEF Pages, Documents
  <2>6. Recovered(id, p, g, TRUE)
    BY <1>7, <1>9, <2>2, <2>3, <2>4 DEF NewRecovered
  <2>7. page'.text = p.text /\ page'.dirty = p.dirty /\ page'.doc = p.doc /\ page'.origin = p.origin
    BY <1>1, <1>4, <2>1, <2>5, <2>6, RecoveredChanges
  <2> QED
    BY <2>5, <2>7 DEF Keeps
<1> QED
  BY <1>2, <1>3, <1>5, <1>6, <1>8, <1>9 DEF Opening, ReserveAnswered, ReserveFails, ReserveUnknown,
     Released, ReadAnswered, CommitFails, LeaveUnknown

LEMMA UserChangesPage ==
  ASSUME Consistent, User
  PROVE  Stays \/ Typing \/ Begins
<1>1. page \in Pages /\ flow \in Flows
  BY ConsistentFields
<1>2. CASE UNCHANGED page
  BY <1>1, <1>2, SamePage
<1>3. CASE Edit
  BY <1>1, <1>3 DEF Edit, Typing, Pages
<1>4. CASE New
  <2>1. flow.op < MaxOpens /\ UNCHANGED <<run, update>>
    BY <1>4 DEF New, MayBegin, serviceVars
  <2>2. PICK id \in OpenIds : id = flow.op + 1 /\ id \in 0 .. MaxOpens /\ id > flow.op
    BY <2>1, ConsistentFields DEF OpenIds
  <2>3. CASE page' = [page EXCEPT !.locked = id]
    BY <1>1, <2>3 DEF Stays, Truthful, Pages
  <2>4. CASE Applied(id, None, Untitled, [flow EXCEPT !.op = id, !.opening = TRUE], Gone)
    <3>1. PICK p \in Pages : p = Untitled /\ p.doc = None /\ p.origin = None /\ p.text = p.saved
      BY UntitledPage
    <3>2. PICK f \in Flows : f = [flow EXCEPT !.op = id, !.opening = TRUE]
      BY <1>1, <2>2 DEF Flows
    <3>3. Applied(id, None, p, f, Gone)
      BY <2>4, <3>1, <3>2
    <3>4. opens[id].stage = "none" /\ repl[id].stage = "idle"
      BY <2>2 DEF Consistent, OpensAreSeen, ReplacementsAreAwaited
    <3>5. /\ page'.doc = p.doc /\ page'.origin = p.origin /\ page'.text = p.text
          /\ page'.saved = p.saved
      BY <2>1, <3>3, <3>4, AppliedChanges
    <3> QED
      BY <1>4, <3>1, <3>5 DEF Begins
  <2> QED
    BY <1>4, <2>2, <2>3, <2>4 DEF New
<1> QED
  BY <1>2, <1>3, <1>4 DEF User, SupersedePendingOpen, OpenPath, RequestSave, ReloadFromDisk,
     KeepCurrentContent, SyncImages

\* Every step.
LEMMA PageChanges ==
  ASSUME Consistent, [Next]_vars
  PROVE  Stays \/ Typing \/ Reading \/ Begins \/ Keeps \/ \E id \in OpenIds : Opens(id)
<1>1. CASE UNCHANGED page
  BY <1>1, ConsistentFields, SamePage
<1>2. Watcher \/ Writer \/ WatchErrors \/ CallBegins \/ CallEnds(TheImages) \/ UNCHANGED vars
        => UNCHANGED page
  BY DEF Watcher, Writer, WatchErrors, CallBegins, CallEnds, vars, pageVars
<1> QED
  BY <1>1, <1>2, EventsAreTold, UserChangesPage, QueueChangesPage, OpensChangePage, WatchesChangePage
     DEF Next

-----------------------------------------------------------------------------
(* Whose text is in the editor.                                            *)

Belongs(d, o) == o = d \/ <<d, o>> \in past.strays

\* The texts of the files, of the opens that have read one, and of the editor, until a claim is
\* in doubt.
FilesTraced == \A d \in Docs : Belongs(d, past.whose[d])
OpensTraced == \A id \in OpenIds : opens[id].stage \in Asking => Belongs(opens[id].doc, opens[id].seen.origin)
PageTraced == flow.blocked \/ Belongs(page.doc, page.origin)
Traced == FilesTraced /\ OpensTraced /\ PageTraced

\* A claim that is in doubt stays so.
LEMMA DoubtStays ==
  ASSUME Consistent, [Next]_vars, flow.blocked
  PROVE  flow'.blocked
<1>1. page \in Pages /\ flow \in Flows
  BY ConsistentFields
<1>2. CASE UNCHANGED flow
  BY <1>2
<1>3. ASSUME NEW f, "blocked" \in DOMAIN f, f.blocked, NEW id,
             flow' \in {f, [f EXCEPT !.irreversible = 0]} \/ flow' = Ended(f, id)
             \/ flow' = Ended([f EXCEPT !.irreversible = 0], id)
      PROVE  flow'.blocked
  BY <1>3 DEF Ended
<1>4. ASSUME NEW id \in OpenIds, Opening(id) PROVE flow'.blocked
  <2>1. PICK claimed : claimed = [flow EXCEPT !.owned = [op |-> id, doc |-> opens[id].doc]]
    OBVIOUS
  <2>2. PICK f : f = flow
    OBVIOUS
  <2>3. CASE OpenApplied(id)
    <3>1. "blocked" \in DOMAIN claimed /\ claimed.blocked
      BY <1>1, <2>1 DEF Flows
    <3>2. flow' \in {claimed, [claimed EXCEPT !.irreversible = 0]} \/ flow' = Ended(claimed, id)
          \/ flow' = Ended([claimed EXCEPT !.irreversible = 0], id)
      BY <2>1, <2>3 DEF OpenApplied, Applied
    <3> QED
      BY <1>3, <3>1, <3>2
  <2>4. CASE AdoptFailClosed(id)
    <3>1. PICK d : d = [claimed EXCEPT !.blocked = TRUE]
      OBVIOUS
    <3>2. "blocked" \in DOMAIN d /\ d.blocked
      BY <1>1, <2>1, <3>1 DEF Flows
    <3>3. flow' \in {d, [d EXCEPT !.irreversible = 0]} \/ flow' = Ended(d, id)
          \/ flow' = Ended([d EXCEPT !.irreversible = 0], id)
      BY <2>1, <2>4, <3>1 DEF AdoptFailClosed, Claimed, Recovered, EndOpen
    <3> QED
      BY <1>3, <3>2, <3>3
  <2>5. CASE NewApplied(id) \/ NewRecovered(id)
    <3>1. PICK d : d = [flow EXCEPT !.owned = None]
      OBVIOUS
    <3>2. "blocked" \in DOMAIN d /\ d.blocked
      BY <1>1, <3>1 DEF Flows
    <3>3. flow' \in {d, [d EXCEPT !.irreversible = 0]} \/ flow' = Ended(d, id)
          \/ flow' = Ended([d EXCEPT !.irreversible = 0], id)
      BY <2>5, <3>1 DEF NewApplied, NewRecovered, Applied, Recovered, EndOpen
    <3> QED
      BY <1>3, <3>2, <3>3
  <2>6. CASE \/ EndOpen(id, flow) \/ EndOpen(id, [flow EXCEPT !.irreversible = 0])
             \/ EndOpen(id, [flow EXCEPT !.blocked = TRUE])
             \/ EndOpen(id, [flow EXCEPT !.owned.op = id])
    <3>1. PICK d : /\ d \in {flow, [flow EXCEPT !.irreversible = 0], [flow EXCEPT !.blocked = TRUE],
                             [flow EXCEPT !.owned.op = id]}
                   /\ flow' = Ended(d, id)
      BY <2>6 DEF EndOpen
    <3>2. "blocked" \in DOMAIN d /\ d.blocked
      BY <1>1, <3>1 DEF Flows
    <3> QED
      BY <1>3, <3>1, <3>2
  <2>7. CASE flow' = [flow EXCEPT !.irreversible = id]
    BY <1>1, <2>7 DEF Flows
  <2> QED
    BY <1>2, <1>4, <2>3, <2>4, <2>5, <2>6, <2>7 DEF Opening, ReserveAnswered, ReserveFails,
       ReserveUnknown, Released, ReadAnswered, CommitFails, LeaveUnknown, GiveUp
<1>5. ASSUME NEW owner \in Owners, Replacing(owner) PROVE flow'.blocked
  <2>1. CASE \E p : Finish(owner, p)
    <3>1. UNCHANGED flow \/ \E f \in {flow, [flow EXCEPT !.irreversible = 0]} : flow' = Ended(f, owner)
      BY <2>1 DEF Finish
    <3>2. "blocked" \in DOMAIN flow
      BY <1>1 DEF Flows
    <3> QED
      BY <1>2, <1>3, <3>1, <3>2
  <2> QED
    BY <1>2, <1>5, <2>1 DEF Replacing, CallEnds, ReplaceContinues, ReplaceReads, Superseded
<1>6. CASE User
  <2>1. CASE New
    <3>1. ~flow.blocked
      BY <2>1 DEF New, MayBegin
    <3> QED
      BY <3>1
  <2>2. CASE SupersedePendingOpen \/ \E d \in Docs : OpenPath(d)
    BY <1>1, <2>2 DEF SupersedePendingOpen, OpenPath, Flows
  <2> QED
    BY <1>2, <1>6, <2>1, <2>2 DEF User, RequestSave, ReloadFromDisk, KeepCurrentContent, Edit, SyncImages
<1>7. CASE Queued
  <2>1. CASE \E n : flow' = [flow EXCEPT !.irreversible = n]
    BY <1>1, <2>1 DEF Flows
  <2>2. CASE flow' = [flow EXCEPT !.irreversible = 0, !.blocked = TRUE]
    BY <1>1, <2>2 DEF Flows
  <2> QED
    BY <1>2, <1>7, <2>1, <2>2 DEF Queued, SaveStarts, SavePrepared, SaveWrites, SaveRecords, SaveFails,
       SaveApplied, ReloadStarts, ReloadEnds
<1>8. Watcher \/ Writer \/ WatchErrors \/ Receive \/ CallBegins \/ CallEnds(TheImages) \/ UNCHANGED vars
        => UNCHANGED flow
  BY DEF Watcher, Writer, WatchErrors, Receive, CallBegins, CallEnds, vars, pageVars
<1> QED
  BY <1>2, <1>4, <1>5, <1>6, <1>7, <1>8 DEF Next

\* Saves stray, and other programs write what is theirs.
LEMMA FilesStayTraced ==
  ASSUME Consistent, FilesTraced, [Next]_vars
  PROVE  /\ FilesTraced'
         /\ past.strays \subseteq past'.strays
<1>1. CASE UNCHANGED past
  BY <1>1 DEF FilesTraced, Belongs
<1>2. CASE Writer
  BY <1>2, ConsistentFields DEF Writer, FilesTraced, Belongs, Histories
<1>3. CASE SaveWrites
  <2>1. run.stage \in SaveStages
    BY <1>3 DEF SaveWrites, SaveStages, Irreversible
  <2>2. run.doc \in Docs
    BY <2>1, ConsistentFields DEF QueueTyped, SaveRuns
  <2>3. past.whose \in [Docs -> Documents]
    BY ConsistentFields DEF Histories
  <2>4. /\ past'.whose = [past.whose EXCEPT ![run.doc] = run.origin]
        /\ past'.strays = past.strays \union ({<<run.doc, run.origin>>} \ {<<run.doc, run.doc>>})
    BY <1>3 DEF SaveWrites
  <2>5. run.origin = run.doc \/ <<run.doc, run.origin>> \in past'.strays
    BY <2>4
  <2>6. \A d \in Docs : past'.whose[d] = IF d = run.doc THEN run.origin ELSE past.whose[d]
    BY <2>2, <2>3, <2>4
  <2> QED
    BY <2>4, <2>5, <2>6 DEF FilesTraced, Belongs
<1>4. CASE Queued /\ ~SaveWrites
  <2>1. UNCHANGED past
    BY <1>4 DEF Queued, SaveStarts, SavePrepared, SaveRecords, SaveFails, SaveApplied, ReloadStarts,
       ReloadEnds
  <2> QED
    BY <1>1, <2>1
<1>5. ASSUME NEW id \in OpenIds, Opening(id) PROVE UNCHANGED past
  BY <1>5 DEF Opening, ReserveAnswered, ReserveFails, ReserveUnknown, Released, ReadAnswered,
     CommitFails, OpenApplied, AdoptFailClosed, LeaveUnknown, NewApplied, NewRecovered, OpenUnchanged
<1>6. ASSUME NEW owner \in Owners, Replacing(owner) PROVE UNCHANGED past
  BY <1>6 DEF Replacing, CallEnds, ReplaceContinues, ReplaceReads
<1>7. User => UNCHANGED past
  BY DEF User, New, SupersedePendingOpen, OpenPath, RequestSave, ReloadFromDisk, KeepCurrentContent,
     Edit, SyncImages
<1>8. Watcher \/ WatchErrors \/ Receive \/ CallBegins \/ CallEnds(TheImages) \/ UNCHANGED vars
        => UNCHANGED past
  BY DEF Watcher, WatchErrors, Receive, CallBegins, CallEnds, vars, pageVars
<1> QED
  BY <1>1, <1>2, <1>3, <1>4, <1>5, <1>6, <1>7, <1>8 DEF Next

\* What the opens have read.
LEMMA OpensStayTraced ==
  ASSUME Consistent, FilesTraced, OpensTraced, [Next]_vars
  PROVE  OpensTraced'
<1>1. past.strays \subseteq past'.strays /\ opens \in [OpenIds -> Openings]
  BY FilesStayTraced, ConsistentFields
<1>2. \A d, o : Belongs(d, o) => Belongs(d, o)'
  BY <1>1 DEF Belongs
<1>3. ASSUME NEW id \in OpenIds, NEW o, opens' = [opens EXCEPT ![id] = o],
             o.stage \in Asking => Belongs(o.doc, o.seen.origin)
      PROVE  OpensTraced'
  <2> SUFFICES ASSUME NEW j \in OpenIds, opens'[j].stage \in Asking
               PROVE  Belongs(opens[j].doc, opens[j].seen.origin)'
    BY DEF OpensTraced
  <2>1. CASE j = id
    <3>1. opens'[j] = o
      BY <1>1, <1>3, <2>1
    <3> QED
      BY <1>2, <1>3, <3>1
  <2>2. CASE j # id
    <3>1. opens'[j] = opens[j]
      BY <1>1, <1>3, <2>2
    <3>2. Belongs(opens[j].doc, opens[j].seen.origin)
      BY <3>1 DEF OpensTraced
    <3> QED
      BY <1>2, <3>1, <3>2
  <2> QED
    BY <2>1, <2>2
<1>4. ASSUME NEW id \in OpenIds,
             NEW st \in {"leaving", "releasing", "watching", "recovering", "done"},
             \/ opens' = [opens EXCEPT ![id] = [NoOpen EXCEPT !.stage = st]]
             \/ opens' = [opens EXCEPT ![id] = [stage |-> st, doc |-> None, base |-> Base, seen |-> Blank]]
      PROVE  OpensTraced'
  <2>1. PICK o : /\ o \in {[NoOpen EXCEPT !.stage = st],
                           [stage |-> st, doc |-> None, base |-> Base, seen |-> Blank]}
                 /\ opens' = [opens EXCEPT ![id] = o]
    BY <1>4
  <2>2. o.stage = st
    BY <2>1 DEF NoOpen
  <2>3. o.stage \notin Asking
    BY <2>2 DEF Asking
  <2> QED
    BY <1>3, <2>1, <2>3
<1>5. CASE UNCHANGED opens
  BY <1>2, <1>5 DEF OpensTraced
<1>6. ASSUME NEW id \in OpenIds, Opening(id) PROVE OpensTraced'
  <2>1. CASE \E st \in {"leaving", "releasing", "watching", "recovering", "done"} :
               opens' = [opens EXCEPT ![id] = [NoOpen EXCEPT !.stage = st]]
    BY <1>4, <2>1
  <2>2. CASE opens[id].stage = "reserving" /\ opens' = [opens EXCEPT ![id].stage = "reading"]
    <3>1. PICK o : o = [opens[id] EXCEPT !.stage = "reading"]
      OBVIOUS
    <3>2. o.doc = opens[id].doc /\ o.seen = opens[id].seen /\ opens' = [opens EXCEPT ![id] = o]
      BY <1>1, <2>2, <3>1 DEF Openings
    <3>3. Belongs(o.doc, o.seen.origin)
      BY <2>2, <3>2 DEF OpensTraced, Asking
    <3> QED
      BY <1>3, <3>2, <3>3
  <2>3. CASE /\ opens[id].stage = "reading"
             /\ \E seen \in {Seen(opens[id].doc), opens[id].seen} :
                  opens' = [opens EXCEPT ![id].stage = "committing", ![id].seen = seen]
    <3>1. PICK seen \in {Seen(opens[id].doc), opens[id].seen} :
            opens' = [opens EXCEPT ![id].stage = "committing", ![id].seen = seen]
      BY <2>3
    <3>2. PICK o : o = [opens[id] EXCEPT !.stage = "committing", !.seen = seen]
      OBVIOUS
    <3>3. o.doc = opens[id].doc /\ o.seen = seen /\ opens' = [opens EXCEPT ![id] = o]
      BY <1>1, <3>1, <3>2 DEF Openings
    <3>4. opens[id].doc \in Docs
      BY <2>3, ConsistentFields DEF OpensTyped, Opened, Asking
    <3>5. Belongs(opens[id].doc, seen.origin)
      BY <2>3, <3>1, <3>4 DEF OpensTraced, FilesTraced, Seen, Asking
    <3> QED
      BY <1>3, <3>3, <3>5
  <2> QED
    BY <1>6, <2>1, <2>2, <2>3 DEF Opening, ReserveAnswered, ReserveFails, ReserveUnknown, Released,
       ReadAnswered, CommitFails, OpenApplied, AdoptFailClosed, LeaveUnknown, NewApplied, NewRecovered,
       EndOpen, GiveUp, Applied, Recovered
<1>7. ASSUME NEW owner \in Owners, Replacing(owner) PROVE OpensTraced'
  <2>1. CASE \E p : Finish(owner, p)
    <3>1. CASE owner = TheSave
      BY <1>5, <2>1, <3>1 DEF Finish
    <3>2. CASE owner # TheSave
      <4>1. owner \in OpenIds
        BY <3>2, OwnersAndImages
      <4> QED
        BY <1>4, <2>1, <3>2, <4>1 DEF Finish
    <3> QED
      BY <3>1, <3>2
  <2> QED
    BY <1>5, <1>7, <2>1 DEF Replacing, CallEnds, ReplaceContinues, ReplaceReads, Superseded
<1>8. CASE User
  <2>1. ASSUME NEW d \in Docs, OpenPath(d) PROVE OpensTraced'
    <3>1. PICK id \in OpenIds : id = flow.op + 1
      BY <2>1, ConsistentFields DEF OpenPath, MayBegin, OpenIds
    <3>2. PICK o : o = [stage |-> "reserving", doc |-> d, base |-> Base, seen |-> Seen(d)]
      OBVIOUS
    <3>3. o.doc = d /\ o.seen.origin = past.whose[d] /\ opens' = [opens EXCEPT ![id] = o]
      BY <2>1, <3>1, <3>2 DEF OpenPath, Seen
    <3>4. Belongs(o.doc, o.seen.origin)
      BY <3>3 DEF FilesTraced
    <3> QED
      BY <1>3, <3>3, <3>4
  <2>2. CASE New
    <3>1. PICK id \in OpenIds : id = flow.op + 1
      BY <2>2, ConsistentFields DEF New, MayBegin, OpenIds
    <3> QED
      BY <1>4, <2>2, <3>1 DEF New, Applied
  <2> QED
    BY <1>5, <1>8, <2>1, <2>2 DEF User, SupersedePendingOpen, RequestSave, ReloadFromDisk,
       KeepCurrentContent, Edit, SyncImages
<1>9. Queued => UNCHANGED opens
  BY DEF Queued, SaveStarts, SavePrepared, SaveWrites, SaveRecords, SaveFails, SaveApplied,
     ReloadStarts, ReloadEnds
<1>10. Watcher \/ Writer \/ WatchErrors \/ Receive \/ CallBegins \/ CallEnds(TheImages) \/ UNCHANGED vars
        => UNCHANGED opens
  BY DEF Watcher, Writer, WatchErrors, Receive, CallBegins, CallEnds, vars, pageVars
<1> QED
  BY <1>5, <1>6, <1>7, <1>8, <1>9, <1>10 DEF Next

LEMMA NextIsTraced == Consistent /\ Traced /\ [Next]_vars => Traced'
<1> SUFFICES ASSUME Consistent, Traced, [Next]_vars PROVE Traced'
  OBVIOUS
<1>1. FilesTraced' /\ OpensTraced' /\ past.strays \subseteq past'.strays
  BY FilesStayTraced, OpensStayTraced DEF Traced
<1>2. \A d, o : Belongs(d, o) => Belongs(d, o)'
  BY <1>1 DEF Belongs
<1>3. flow.blocked => flow'.blocked
  BY DoubtStays
<1>4. CASE page'.doc = page.doc /\ page'.origin = page.origin
  BY <1>1, <1>2, <1>3, <1>4 DEF Traced, PageTraced
<1>5. CASE Reading
  BY <1>1, <1>2, <1>3, <1>5 DEF Reading, Traced, FilesTraced, PageTraced
<1>6. ASSUME NEW id \in OpenIds, Opens(id) PROVE Traced'
  <2>1. Belongs(page'.doc, page'.origin)
    BY <1>6 DEF Opens, Traced, OpensTraced, Asking
  <2> QED
    BY <1>1, <1>2, <2>1 DEF Traced, PageTraced
<1>7. CASE flow'.blocked \/ (page'.doc = None /\ page'.origin = None)
  BY <1>1, <1>7 DEF Traced, PageTraced, Belongs
<1> QED
  BY <1>4, <1>5, <1>6, <1>7, PageChanges DEF Stays, Typing, Begins, Keeps

\* Until a claim is in doubt, the window has the claim of the document whose path it shows, and the
\* text in the editor is what that document's file held, or was typed over it, unless a save wrote
\* another document's text to that very file (openPath, createNewDocument,
\* useExternalFileWatch.ts).
THEOREM TextsAreOfDocuments == Spec => []TextIsOfItsDocument
<1>1. Init => Traced
  <2> SUFFICES ASSUME Init PROVE Traced
    OBVIOUS
  <2>1. page.doc = page.origin
    BY DEF Init
  <2>2. \A d \in Docs : past.whose[d] = d
    BY DEF Init
  <2>3. \A id \in OpenIds : opens[id].stage \notin Asking
    BY DEF Init, NoOpen, Asking
  <2> QED
    BY <2>1, <2>2, <2>3 DEF Traced, FilesTraced, OpensTraced, PageTraced, Belongs
<1>2. Consistent /\ Traced => TextIsOfItsDocument
  BY DEF Consistent, Settled, Traced, PageTraced, Belongs, TextIsOfItsDocument
<1> QED
  BY <1>1, <1>2, InvariantHolds, NextIsTraced, PTL DEF Spec

-----------------------------------------------------------------------------
(* Unsaved text.                                                           *)

Lefts == [edits : Nat, saves : Nat, syncs : Nat, choices : Nat, news : Nat, lapses : Nat]
LeftTyped == left \in Lefts

\* A bound is used up by one at most.
LEMMA LeftIsUsed ==
  ASSUME LeftTyped, [Next]_vars
  PROVE  LeftTyped'
<1>1. left \in Lefts
  BY DEF LeftTyped
<1>2. CASE UNCHANGED left
  BY <1>1, <1>2 DEF LeftTyped
<1>3. CASE \/ left.edits > 0 /\ left' = [left EXCEPT !.edits = @ - 1]
           \/ left.saves > 0 /\ left' = [left EXCEPT !.saves = @ - 1]
           \/ left.syncs > 0 /\ left' = [left EXCEPT !.syncs = @ - 1]
           \/ left.choices > 0 /\ left' = [left EXCEPT !.choices = @ - 1]
           \/ left.news > 0 /\ left' = [left EXCEPT !.news = @ - 1]
           \/ Lapse
  BY <1>1, <1>3 DEF LeftTyped, Lefts, Lapse
<1>4. CASE User
  BY <1>2, <1>3, <1>4 DEF User, New, SupersedePendingOpen, OpenPath, RequestSave, ReloadFromDisk,
     KeepCurrentContent, Edit, SyncImages
<1>5. CASE Queued
  BY <1>2, <1>3, <1>5 DEF Queued, SaveStarts, SavePrepared, SaveWrites, SaveRecords, SaveFails,
     SaveApplied, ReloadStarts, ReloadEnds
<1>6. ASSUME NEW id \in OpenIds, Opening(id) PROVE LeftTyped'
  BY <1>2, <1>3, <1>6 DEF Opening, ReserveAnswered, ReserveFails, ReserveUnknown, Released,
     ReadAnswered, CommitFails, OpenApplied, AdoptFailClosed, LeaveUnknown, NewApplied, NewRecovered
<1>7. ASSUME NEW owner \in Owners, Replacing(owner) PROVE LeftTyped'
  BY <1>2, <1>7 DEF Replacing, CallEnds, ReplaceContinues, ReplaceReads
<1>8. Watcher \/ Writer \/ WatchErrors \/ Receive \/ CallBegins \/ CallEnds(TheImages) \/ UNCHANGED vars
        => UNCHANGED left
  BY DEF Watcher, Writer, WatchErrors, Receive, CallBegins, CallEnds, vars, pageVars
<1> QED
  BY <1>2, <1>4, <1>5, <1>6, <1>7, <1>8 DEF Next

LEMMA NextIsTruthful == Consistent /\ Truthful /\ [Next]_vars => Truthful'
<1> SUFFICES ASSUME Consistent, Truthful, [Next]_vars PROVE Truthful'
  OBVIOUS
<1> QED
  BY PageChanges DEF Stays, Typing, Reading, Begins, Keeps, Opens, Truthful

\* One step.
TextIsKept ==
  page.text # page.saved /\ page'.text # page.text =>
    \/ page.passed
    \/ left'.edits # left.edits
    \/ page.dirty /\ left'.news # left.news
    \/ run.stage = "reloading" /\ run.chosen
    \/ \E id \in OpenIds :
         /\ opens[id].stage \in {"committing", "leaving"}
         /\ opens[id].base[2] = page.text /\ opens[id].base[3]

LEMMA StepsKeepText == Consistent /\ Truthful /\ LeftTyped /\ [Next]_vars => TextIsKept
<1> SUFFICES ASSUME Consistent, Truthful, LeftTyped, [Next]_vars,
                    page.text # page.saved, page'.text # page.text, ~page.passed
             PROVE  TextIsKept
  BY DEF TextIsKept
<1>1. page.dirty
  BY DEF Truthful
<1>2. left.edits \in Nat /\ left.news \in Nat
  BY DEF LeftTyped, Lefts
<1>3. CASE Typing
  <2>1. left' = [left EXCEPT !.edits = left.edits - 1]
    BY <1>3 DEF Typing, Edit
  <2>2. left'.edits # left.edits
    BY <1>2, <2>1 DEF LeftTyped, Lefts
  <2> QED
    BY <2>2 DEF TextIsKept
<1>4. CASE New
  <2>1. left' = [left EXCEPT !.news = left.news - 1]
    BY <1>4 DEF New
  <2>2. left'.news # left.news
    BY <1>2, <2>1 DEF LeftTyped, Lefts
  <2> QED
    BY <1>1, <2>2 DEF TextIsKept
<1>5. CASE Reading
  BY <1>1, <1>5 DEF Reading, TextIsKept
<1>6. ASSUME NEW id \in OpenIds, opens[id].stage \in {"committing", "leaving"}, opens[id].base = Base
      PROVE  TextIsKept
  <2>1. opens[id].base[2] = page.text /\ opens[id].base[3] = page.dirty
    BY <1>6 DEF Base
  <2> QED
    BY <1>1, <1>6, <2>1 DEF TextIsKept
<1>7. ASSUME NEW id \in OpenIds, Opens(id) PROVE TextIsKept
  BY <1>6, <1>7 DEF Opens
<1>8. CASE Begins
  BY <1>4, <1>6, <1>8 DEF Begins
<1>9. ~Stays /\ ~Keeps
  BY DEF Stays, Keeps
<1> QED
  BY <1>3, <1>5, <1>7, <1>8, <1>9, PageChanges

\* Text that is not what the editor last loaded or saved is only replaced when the user chose to:
\* by typing, by beginning another document or opening one when asked about that very text, or by
\* reloading the file (openPath, createNewDocument, ADR 0005); or after a save which had waited
\* marked it clean without having written it (saveCurrentFile, fileActions.ts).
THEOREM UnsavedTextStays == Spec => UnsavedTextIsKept
<1>1. Init => Truthful /\ LeftTyped
  BY WorkflowAssumption DEF Init, Truthful, LeftTyped, Lefts
<1>2. LeftTyped /\ [Next]_vars => LeftTyped'
  BY LeftIsUsed
<1>3. Spec => [][TextIsKept]_vars
  BY <1>1, <1>2, InvariantHolds, NextIsTruthful, StepsKeepText, PTL DEF Spec
<1> QED
  BY <1>3 DEF UnsavedTextIsKept, TextIsKept
=============================================================================
