---------------------- MODULE OpenRequestConsumer_proofs ----------------------
(***************************************************************************)
(* Proofs about the page that opens the documents a window is asked for:   *)
(* nothing the shell delivered is dropped, a request is forgotten only     *)
(* when its document was opened, and one page opens it once.               *)
(*                                                                         *)
(* The predicates of the invariant take the states they are about as       *)
(* parameters, s for the shell, p for the runtime of the page, given for   *)
(* the attempts the bridge is to give back: the lemmas about the runtime   *)
(* are then about any two states.                                          *)
(***************************************************************************)
EXTENDS OpenRequestConsumer, FiniteSetTheorems, SequenceTheorems, WellFoundedInduction, TLAPS

-----------------------------------------------------------------------------
(* Types.                                                                  *)

AnyAttempt == Attempt \cup {NoAttempt}
Sources == {"recover", "claim", "record", "ack", "abandon", "apply", "listener"} \X AnyAttempt

Page ==
  [current : [Requests -> 0 .. MaxToken], terminal : [Requests -> 0 .. MaxToken],
   queue : Seq(Attempt), pending : AnyAttempt, active : AnyAttempt, opening : BOOLEAN,
   applied : SUBSET Attempt, seen : SUBSET Attempt, recording : SUBSET Attempt,
   acknowledging : SUBSET Attempt, abandoning : SUBSET Attempt,
   errors : SUBSET Sources, muted : SUBSET Sources,
   notified : BOOLEAN, blocks : BOOLEAN, bootstrapped : BOOLEAN]

Delivered == {"processing", "applied", "done"}
Shell == [Requests -> [state : {"absent", "queued"} \cup Delivered, token : 0 .. MaxToken]]
Operations == [op : {"sync", "complete", "abandon"}, generation : Nat, attempts : SUBSET Attempt,
               opens : BOOLEAN]
Stages == {"idle", "recover", "claim", "complete", "retargeted", "abandon", "late"}
Calls == {NoCall} \cup [kind : {"recover", "claim"}, attempt : {NoAttempt}]
                  \cup [kind : {"record", "ack", "abandon"}, attempt : Attempt]

Typed ==
  /\ shell \in Shell /\ page \in Page
  /\ mount \in [generation : Nat, mounted : BOOLEAN, listening : BOOLEAN, listens : BOOLEAN]
  /\ mount.generation > 0
  /\ bridge \in Seq(Operations)
  /\ run \in [stage : Stages, todo : SUBSET Attempt]
  /\ call \in Calls
  /\ answer \in [ok : BOOLEAN, data : SUBSET Attempt, here : BOOLEAN] /\ IsFiniteSet(answer.data)
  /\ opened \in [now : [Requests -> Nat], ever : SUBSET Requests]

-----------------------------------------------------------------------------
(* The invariant.                                                          *)

AttemptOf(s, r) == [id |-> r, token |-> s[r].token]
Stands(s, a, state) == s[a.id].state = state /\ s[a.id].token = a.token

\* Tokens count up from a first one, which a request gets when it is claimed.
Counted(s) ==
  \A r \in Requests : /\ s[r].state = "absent" => s[r].token = 0
                      /\ s[r].state \in Delivered => s[r].token > 0

\* What the runtime knows of an attempt agrees: it is current if it was seen or applied, it is
\* applied until it is acknowledged, and one document at a time is asked about or opened.
Coherent(p) ==
  /\ \A a \in p.seen \cup p.applied : IsCurrent(p, a)
  /\ p.applied = Completions(p)
  /\ p.recording \cap p.acknowledging = {}
  /\ p.pending # NoAttempt => p.active = NoAttempt
  /\ p.opening => p.active # NoAttempt

\* Where an attempt waits for the user or the editor.
Positions(p) ==
  ToSet(p.queue) \cup (IF p.pending = NoAttempt THEN {} ELSE {p.pending})
    \cup (IF p.opening THEN {p.active} ELSE {})

Past(s, p) == \A r \in Requests : p.current[r] <= s[r].token

Held(s, p, given) ==
  \A r \in Requests :
    s[r].state = "processing" /\ AttemptOf(s, r) \in p.seen =>
      AttemptOf(s, r) \in Positions(p) \cup p.applied \cup p.abandoning \cup given

Earned(p, ever) == \A a \in p.applied : a.id \in ever

Works(s, p, given, ever) == Coherent(p) /\ Past(s, p) /\ Held(s, p, given) /\ Earned(p, ever)

\* What the bridge is to give back.
Giving(b, r) ==
  (UNION {b[i].attempts : i \in {j \in (IF r = Idle THEN 1 ELSE 2) .. Len(b) : b[j].op = "abandon"}})
    \cup (IF r.stage \in {"abandon", "late"} THEN r.todo ELSE {})

\* While the first component of a page is mounted: an attempt that waits is one the shell works
\* on, that was not opened and is not being given back, and waits in one place.  A request was
\* opened only if it is acknowledged, or an attempt of it is applied, and neither is given back.
Fresh(s, p, given, now) ==
  /\ \A a \in Positions(p) :
       /\ Stands(s, a, "processing") /\ now[a.id] = 0
       /\ a \in p.seen /\ a \notin p.applied /\ a \notin p.abandoning \cup given
  /\ IsInjective(p.queue)
  /\ p.pending \notin ToSet(p.queue) /\ (p.opening => p.active \notin ToSet(p.queue))
  /\ \A r \in Requests : now[r] > 0 => s[r].state = "done" \/ \E a \in p.applied : a.id = r
  /\ (p.abandoning \cup given) \cap p.applied = {}
  /\ \A a \in p.abandoning \cup given :
       a.token <= s[a.id].token /\ (Stands(s, a, "processing") => a \in p.seen)
  /\ \A r \in Requests :
       s[r].state \in {"applied", "done"} =>
         /\ AttemptOf(s, r) \notin p.abandoning \cup given
         /\ AttemptOf(s, r) \in p.seen => AttemptOf(s, r) \in p.applied

First(m) == m.generation = 1 /\ m.mounted

\* How far an operation is, what it asks the shell, and which operation it can be.
Chain(b, r, c) ==
  /\ r # Idle => b # <<>>
  /\ r.stage = "idle" => r = Idle /\ c = NoCall
  /\ r.stage \in {"recover", "claim"} <=> c.kind \in {"recover", "claim"}
  /\ c.kind \in {"recover", "claim"} => c.kind = r.stage
  /\ c.kind \in {"record", "ack"} => r.stage \in {"complete", "retargeted"} /\ c.attempt \in r.todo
  /\ c.kind = "abandon" => r.stage \in {"abandon", "late"} /\ c.attempt \in r.todo
  /\ r.stage \in {"recover", "claim", "late", "retargeted"} => b[1].op = "sync"
  /\ r.stage = "complete" => b[1].op \in {"sync", "complete"}
  /\ r.stage = "abandon" => b[1].op \in {"sync", "abandon"}
  /\ \A i \in 1 .. Len(b) : b[i].op = "sync" => b[i].attempts = {} /\ ~b[i].opens

\* The open that an operation of the bridge ends is over, and it is the only one.
Waited(b, p) ==
  /\ \A i \in 1 .. Len(b) : b[i].opens => p.active # NoAttempt /\ ~p.opening
  /\ \A i, j \in 1 .. Len(b) : b[i].opens /\ b[j].opens => i = j

Sent(c, p) ==
  /\ c.kind = "abandon" => c.attempt \in p.abandoning
  /\ c.kind = "record" => c.attempt \in p.recording
  /\ c.kind = "ack" => c.attempt \in p.acknowledging

\* What an answer says is still so when it arrives.
Told(s, c, r) ==
  r.here /\ r.ok =>
    /\ c.kind = "recover" => \A a \in r.data : Stands(s, a, "applied")
    /\ c.kind = "claim" => \A a \in r.data : Stands(s, a, "processing")
    /\ c.kind = "ack" => s[c.attempt.id].state = "done"
    /\ c.kind = "abandon" => ~Stands(s, c.attempt, "processing")

Opened(s, ever) == \A r \in Requests : s[r].state \in {"applied", "done"} => r \in ever

\* The first component of a page opens a request once, even when it is unmounted meanwhile.
Once(m, b, p, now) ==
  m.generation = 1 =>
    /\ \A r \in Requests : now[r] <= 1
    /\ p.opening => now[p.active.id] = 0
    /\ \A i \in 1 .. Len(b) : b[i].op = "sync" => b[i].generation = 1

Consistent ==
  /\ Typed /\ Counted(shell)
  /\ Works(shell, page, Giving(bridge, run), opened.ever)
  /\ First(mount) => Fresh(shell, page, Giving(bridge, run), opened.now) /\ run.stage # "late"
  /\ Chain(bridge, run, call) /\ Waited(bridge, page)
  /\ Sent(call, page) /\ Told(shell, call, answer)
  /\ Opened(shell, opened.ever) /\ Once(mount, bridge, page, opened.now)

-----------------------------------------------------------------------------
(* Folds.  A fold over a finite set has a value, and what holds of its     *)
(* base and is kept by its step holds of the value.                        *)

LEMMA SmallestNumber ==
  ASSUME NEW S \in SUBSET Nat, S # {}
  PROVE  \E n \in S : \A m \in S : n <= m
<1> DEFINE Less == {pair \in Nat \X Nat : pair[1] < pair[2]}
<1>1. IsWellFoundedOn(Less, Nat)
  BY NatLessThanWellFounded DEF OpToRel
<1>2. \A a \in Nat, b \in Nat : a < b => <<a, b>> \in Less
  OBVIOUS
<1> HIDE DEF Less
<1>3. PICK n \in S : \A m \in S : <<m, n>> \notin Less
  BY <1>1, WFMin
<1>4. ASSUME NEW m \in S
      PROVE  n <= m
  <2>1. n \in Nat /\ m \in Nat
    OBVIOUS
  <2>2. ~(m < n)
    BY <1>2, <1>3, <2>1
  <2> QED
    BY <2>1, <2>2
<1> QED
  BY <1>4

\* What holds of 0 and of the successor of every number it holds of holds of every number.
LEMMA NumbersFollow ==
  ASSUME NEW G, 0 \in G, \A n \in Nat : n \in G => n + 1 \in G
  PROVE  \A n \in Nat : n \in G
<1> DEFINE bad == Nat \ G
<1>1. SUFFICES ASSUME bad # {} PROVE FALSE
  OBVIOUS
<1>2. PICK n \in bad : \A m \in bad : n <= m
  <2>1. bad \in SUBSET Nat
    OBVIOUS
  <2> HIDE DEF bad
  <2> QED
    BY <1>1, <2>1, SmallestNumber
<1>3. n # 0 /\ n - 1 \in Nat /\ ~(n <= n - 1)
  BY <1>2
<1>4. n - 1 \in G /\ (n - 1) + 1 = n
  BY <1>2, <1>3
<1> QED
  BY <1>2, <1>3, <1>4

\* A fold: choose says which element of a set the step takes last.
IsFold(f, S, base, step, choose) ==
  \A s \in SUBSET S :
    f[s] = IF s = {} THEN base ELSE step[<<choose[s], f[s \ {choose[s]}]>>]
Chooses(choose, S) == \A s \in SUBSET S : s # {} => choose[s] \in s

LEMMA FoldsExist ==
  ASSUME NEW S, IsFiniteSet(S), NEW D, NEW base \in D, NEW step \in [S \X D -> D],
         NEW choose, Chooses(choose, S)
  PROVE  \E f \in [SUBSET S -> D] : IsFold(f, S, base, step, choose)
<1> DEFINE Sets(n) == {s \in SUBSET S : Cardinality(s) <= n}
           Folds(f, n) == \A s \in Sets(n) :
                            f[s] = IF s = {} THEN base ELSE step[<<choose[s], f[s \ {choose[s]}]>>]
           G == {n \in Nat : \E f \in [Sets(n) -> D] : Folds(f, n)}
<1>1. \A s \in SUBSET S : IsFiniteSet(s) /\ Cardinality(s) \in Nat /\ (Cardinality(s) = 0 <=> s = {})
  BY FS_Subset, FS_CardinalityType, FS_EmptySet
<1>2. ASSUME NEW s \in SUBSET S, s # {}
      PROVE  /\ choose[s] \in s /\ choose[s] \in S /\ s \ {choose[s]} \in SUBSET S
             /\ Cardinality(s \ {choose[s]}) = Cardinality(s) - 1
  BY <1>1, <1>2, FS_RemoveElement DEF Chooses
<1>3. 0 \in G
  <2>1. \A s \in Sets(0) : s = {}
    BY <1>1
  <2>2. [s \in Sets(0) |-> base] \in [Sets(0) -> D] /\ Folds([s \in Sets(0) |-> base], 0)
    BY <2>1
  <2> QED
    BY <2>2
<1>4. ASSUME NEW n \in Nat, n \in G
      PROVE  n + 1 \in G
  <2>1. PICK f \in [Sets(n) -> D] : Folds(f, n)
    BY <1>4
  <2> DEFINE g == [s \in Sets(n + 1) |->
                     IF Cardinality(s) <= n THEN f[s] ELSE step[<<choose[s], f[s \ {choose[s]}]>>]]
  <2>2. ASSUME NEW s \in Sets(n + 1), ~(Cardinality(s) <= n)
        PROVE  s # {} /\ choose[s] \in S /\ s \ {choose[s]} \in Sets(n)
    <3>1. s \in SUBSET S /\ Cardinality(s) = n + 1 /\ s # {}
      BY <1>1, <2>2
    <3> QED
      BY <1>2, <3>1
  <2>3. ASSUME NEW s \in Sets(n), s # {}
        PROVE  s \in Sets(n + 1) /\ s \ {choose[s]} \in Sets(n)
    <3>1. s \in SUBSET S /\ Cardinality(s) <= n /\ Cardinality(s) \in Nat
      BY <1>1, <2>3
    <3> QED
      BY <1>2, <2>3, <3>1
  <2>4. g \in [Sets(n + 1) -> D]
    <3>1. ASSUME NEW s \in Sets(n + 1)
          PROVE  (IF Cardinality(s) <= n THEN f[s] ELSE step[<<choose[s], f[s \ {choose[s]}]>>]) \in D
      <4>1. CASE Cardinality(s) <= n
        <5>1. s \in Sets(n)
          BY <4>1
        <5> QED
          BY <4>1, <5>1
      <4>2. CASE ~(Cardinality(s) <= n)
        <5>1. choose[s] \in S /\ s \ {choose[s]} \in Sets(n)
          BY <2>2, <4>2
        <5>2. f[s \ {choose[s]}] \in D
          BY <5>1
        <5> QED
          BY <4>2, <5>1, <5>2
      <4> QED
        BY <4>1, <4>2
    <3> QED
      BY <3>1
  <2>5. \A s \in Sets(n) : s \in Sets(n + 1) /\ g[s] = f[s]
    <3>1. ASSUME NEW s \in Sets(n)
          PROVE  s \in Sets(n + 1) /\ Cardinality(s) <= n
      BY <1>1
    <3> QED
      BY <3>1
  <2>6. ASSUME NEW s \in Sets(n + 1)
        PROVE  g[s] = IF s = {} THEN base ELSE step[<<choose[s], g[s \ {choose[s]}]>>]
    <3>1. CASE Cardinality(s) <= n
      <4>1. s \in Sets(n) /\ g[s] = f[s]
        BY <2>5, <3>1
      <4>2. CASE s # {}
        <5>1. g[s \ {choose[s]}] = f[s \ {choose[s]}]
          BY <2>3, <2>5, <4>1, <4>2
        <5> HIDE DEF g
        <5> QED
          BY <2>1, <4>1, <4>2, <5>1
      <4>3. CASE s = {}
        <5> HIDE DEF g
        <5> QED
          BY <2>1, <4>1, <4>3
      <4> QED
        BY <4>2, <4>3
    <3>2. CASE ~(Cardinality(s) <= n)
      <4>1. s # {} /\ s \ {choose[s]} \in Sets(n)
        BY <2>2, <3>2
      <4>2. g[s] = step[<<choose[s], f[s \ {choose[s]}]>>]
        BY <3>2
      <4> HIDE DEF g
      <4> QED
        BY <2>5, <4>1, <4>2
    <3> QED
      BY <3>1, <3>2
  <2> HIDE DEF g
  <2>7. Folds(g, n + 1)
    BY <2>6
  <2>8. \E h \in [Sets(n + 1) -> D] : Folds(h, n + 1)
    <3> HIDE DEF Sets, Folds
    <3> QED
      BY <2>4, <2>7
  <2> HIDE DEF Sets, Folds
  <2> QED
    BY <2>8
<1>5. Cardinality(S) \in G
  <2> HIDE DEF G
  <2> QED
    BY <1>1, <1>3, <1>4, NumbersFollow
<1>6. PICK f \in [Sets(Cardinality(S)) -> D] : Folds(f, Cardinality(S))
  BY <1>5
<1>7. Sets(Cardinality(S)) = SUBSET S
  BY FS_Subset
<1> QED
  BY <1>6, <1>7 DEF IsFold

\* Good relates the elements that were taken to the value.
LEMMA FoldsKeep ==
  ASSUME NEW S, IsFiniteSet(S), NEW choose, Chooses(choose, S), NEW f, NEW Good,
         <<{}, f[{}]>> \in Good,
         \A s \in SUBSET S :
           s # {} /\ <<s \ {choose[s]}, f[s \ {choose[s]}]>> \in Good => <<s, f[s]>> \in Good
  PROVE  <<S, f[S]>> \in Good
<1> DEFINE G == {n \in Nat : \A s \in SUBSET S : Cardinality(s) <= n => <<s, f[s]>> \in Good}
<1>1. \A s \in SUBSET S : IsFiniteSet(s) /\ Cardinality(s) \in Nat /\ (Cardinality(s) = 0 <=> s = {})
  BY FS_Subset, FS_CardinalityType, FS_EmptySet
<1>2. 0 \in G
  <2>1. ASSUME NEW s \in SUBSET S, Cardinality(s) <= 0
        PROVE  <<s, f[s]>> \in Good
    <3>1. s = {}
      BY <1>1, <2>1
    <3> QED
      BY <3>1
  <2> QED
    BY <2>1
<1>3. ASSUME NEW n \in Nat, n \in G
      PROVE  n + 1 \in G
  <2>1. ASSUME NEW s \in SUBSET S, Cardinality(s) <= n + 1
        PROVE  <<s, f[s]>> \in Good
    <3>1. CASE s # {}
      <4>1. choose[s] \in s
        BY <3>1 DEF Chooses
      <4>2. Cardinality(s \ {choose[s]}) = Cardinality(s) - 1
        BY <1>1, <4>1, FS_RemoveElement
      <4>3. s \ {choose[s]} \in SUBSET S /\ Cardinality(s \ {choose[s]}) <= n
        BY <1>1, <2>1, <4>2
      <4>4. <<s \ {choose[s]}, f[s \ {choose[s]}]>> \in Good
        BY <1>3, <4>3
      <4> QED
        BY <3>1, <4>4
    <3>2. CASE s = {}
      BY <3>2
    <3> QED
      BY <3>1, <3>2
  <2> QED
    BY <2>1
<1>4. Cardinality(S) \in G
  <2> HIDE DEF G
  <2> QED
    BY <1>1, <1>2, <1>3, NumbersFollow
<1> QED
  BY <1>1, <1>4

\* The same where Good is about the value alone.
LEMMA FoldsStay ==
  ASSUME NEW S, IsFiniteSet(S), NEW choose, Chooses(choose, S), NEW f, NEW Good, f[{}] \in Good,
         \A s \in SUBSET S : s # {} /\ f[s \ {choose[s]}] \in Good => f[s] \in Good
  PROVE  f[S] \in Good
<1> DEFINE Kept == (SUBSET S) \X Good
<1>1. <<{}, f[{}]>> \in Kept
  OBVIOUS
<1>2. ASSUME NEW s \in SUBSET S, s # {}, <<s \ {choose[s]}, f[s \ {choose[s]}]>> \in Kept
      PROVE  <<s, f[s]>> \in Kept
  <2>1. f[s] \in Good
    BY <1>2
  <2> QED
    BY <2>1
<1>3. <<S, f[S]>> \in Kept
  <2> HIDE DEF Kept
  <2> QED
    BY <1>1, <1>2, FoldsKeep
<1> QED
  BY <1>3

\* What each adoption of a claimed attempt keeps, the adoption of a claim keeps.
ClaimingKeeps(data, Good) == \A a \in data : \A q \in Good : AdoptClaimed(a, q) \in Good

LEMMA ClaimsKeep ==
  ASSUME NEW data, IsFiniteSet(data), NEW Good, NEW p \in Good,
         ClaimingKeeps(data, Good)
  PROVE  FoldSet(AdoptClaimed, p, data) \in Good
<1> DEFINE first == [s \in SUBSET data |-> CHOOSE x \in s : TRUE]
           step == [x \in data \X Good |-> AdoptClaimed(x[1], x[2])]
           Value(g) == g = [s \in SUBSET data |->
                              IF s = {} THEN p
                              ELSE AdoptClaimed(CHOOSE x \in s : TRUE, g[s \ {CHOOSE x \in s : TRUE}])]
<1>1. FoldSet(AdoptClaimed, p, data) = (CHOOSE g : Value(g))[data]
  BY DEF FoldSet, MapThenFoldSet
<1>2. Chooses(first, data) /\ step \in [data \X Good -> Good]
  BY DEF Chooses, ClaimingKeeps
<1>3. PICK f \in [SUBSET data -> Good] : IsFold(f, data, p, step, first)
  <2> HIDE DEF first, step
  <2> QED
    BY <1>2, FoldsExist
<1>4. Value(f)
  <2>1. ASSUME NEW s \in SUBSET data
        PROVE  f[s] = IF s = {} THEN p
                      ELSE AdoptClaimed(CHOOSE x \in s : TRUE, f[s \ {CHOOSE x \in s : TRUE}])
    <3>1. f[s] = IF s = {} THEN p ELSE step[<<first[s], f[s \ {first[s]}]>>]
      BY <1>3 DEF IsFold
    <3>2. first[s] = CHOOSE x \in s : TRUE
      OBVIOUS
    <3>3. CASE s # {}
      <4>1. first[s] \in data /\ f[s \ {first[s]}] \in Good
        BY <1>2, <3>3 DEF Chooses
      <4>2. step[<<first[s], f[s \ {first[s]}]>>] = AdoptClaimed(first[s], f[s \ {first[s]}])
        <5> HIDE DEF first
        <5> QED
          BY <4>1
      <4> HIDE DEF first, step
      <4> QED
        BY <3>1, <3>2, <3>3, <4>2
    <3> QED
      BY <3>1, <3>3
  <2> QED
    BY <2>1
<1>5. PICK g : g = CHOOSE h : Value(h)
  OBVIOUS
<1>6. Value(g)
  <2> HIDE DEF Value
  <2> QED
    BY <1>4, <1>5
<1>7. g[{}] \in Good
  BY <1>6
<1>8. ASSUME NEW s \in SUBSET data, s # {}, g[s \ {first[s]}] \in Good
      PROVE  g[s] \in Good
  <2>1. first[s] \in data /\ first[s] = CHOOSE x \in s : TRUE
    BY <1>2, <1>8 DEF Chooses
  <2>2. g[s] = AdoptClaimed(first[s], g[s \ {first[s]}])
    BY <1>6, <1>8, <2>1
  <2> HIDE DEF first
  <2> QED
    BY <1>8, <2>1, <2>2 DEF ClaimingKeeps
<1>9. g[data] \in Good
  <2> HIDE DEF first, Value
  <2> QED
    BY <1>2, <1>7, <1>8, FoldsStay
<1> QED
  BY <1>1, <1>5, <1>9


\* The same of what a window applied before.
RecoveringKeeps(data, Good) == \A a \in data : \A q \in Good : AdoptRecovered(a, q) \in Good

LEMMA RecoveryKeeps ==
  ASSUME NEW data, IsFiniteSet(data), NEW Good, NEW p \in Good,
         RecoveringKeeps(data, Good)
  PROVE  FoldSet(AdoptRecovered, p, data) \in Good
<1> DEFINE first == [s \in SUBSET data |-> CHOOSE x \in s : TRUE]
           step == [x \in data \X Good |-> AdoptRecovered(x[1], x[2])]
           Value(g) == g = [s \in SUBSET data |->
                              IF s = {} THEN p
                              ELSE AdoptRecovered(CHOOSE x \in s : TRUE, g[s \ {CHOOSE x \in s : TRUE}])]
<1>1. FoldSet(AdoptRecovered, p, data) = (CHOOSE g : Value(g))[data]
  BY DEF FoldSet, MapThenFoldSet
<1>2. Chooses(first, data) /\ step \in [data \X Good -> Good]
  BY DEF Chooses, RecoveringKeeps
<1>3. PICK f \in [SUBSET data -> Good] : IsFold(f, data, p, step, first)
  <2> HIDE DEF first, step
  <2> QED
    BY <1>2, FoldsExist
<1>4. Value(f)
  <2>1. ASSUME NEW s \in SUBSET data
        PROVE  f[s] = IF s = {} THEN p
                      ELSE AdoptRecovered(CHOOSE x \in s : TRUE, f[s \ {CHOOSE x \in s : TRUE}])
    <3>1. f[s] = IF s = {} THEN p ELSE step[<<first[s], f[s \ {first[s]}]>>]
      BY <1>3 DEF IsFold
    <3>2. first[s] = CHOOSE x \in s : TRUE
      OBVIOUS
    <3>3. CASE s # {}
      <4>1. first[s] \in data /\ f[s \ {first[s]}] \in Good
        BY <1>2, <3>3 DEF Chooses
      <4>2. step[<<first[s], f[s \ {first[s]}]>>] = AdoptRecovered(first[s], f[s \ {first[s]}])
        <5> HIDE DEF first
        <5> QED
          BY <4>1
      <4> HIDE DEF first, step
      <4> QED
        BY <3>1, <3>2, <3>3, <4>2
    <3> QED
      BY <3>1, <3>3
  <2> QED
    BY <2>1
<1>5. PICK g : g = CHOOSE h : Value(h)
  OBVIOUS
<1>6. Value(g)
  <2> HIDE DEF Value
  <2> QED
    BY <1>4, <1>5
<1>7. g[{}] \in Good
  BY <1>6
<1>8. ASSUME NEW s \in SUBSET data, s # {}, g[s \ {first[s]}] \in Good
      PROVE  g[s] \in Good
  <2>1. first[s] \in data /\ first[s] = CHOOSE x \in s : TRUE
    BY <1>2, <1>8 DEF Chooses
  <2>2. g[s] = AdoptRecovered(first[s], g[s \ {first[s]}])
    BY <1>6, <1>8, <2>1
  <2> HIDE DEF first
  <2> QED
    BY <1>8, <2>1, <2>2 DEF RecoveringKeeps
<1>9. g[data] \in Good
  <2> HIDE DEF first, Value
  <2> QED
    BY <1>2, <1>7, <1>8, FoldsStay
<1> QED
  BY <1>1, <1>5, <1>9

-----------------------------------------------------------------------------
(* Numbers and sequences.                                                  *)

LEMMA MaxIsLargest ==
  ASSUME NEW S \in SUBSET Nat, S # {}, NEW n \in Nat, \A m \in S : m <= n
  PROVE  Max(S) \in S /\ \A m \in S : m <= Max(S)
<1> DEFINE below == {n - m : m \in S}
<1>1. below \in SUBSET Nat /\ below # {}
  <2>1. \A m \in S : n - m \in Nat
    OBVIOUS
  <2> QED
    BY <2>1
<1>2. PICK k \in below : \A l \in below : k <= l
  <2> HIDE DEF below
  <2> QED
    BY <1>1, SmallestNumber
<1>3. PICK x \in S : k = n - x
  OBVIOUS
<1>4. \A m \in S : x >= m
  BY <1>2, <1>3
<1>5. Max(S) \in S /\ \A m \in S : Max(S) >= m
  BY <1>4 DEF Max
<1> QED
  BY <1>5

LEMMA MinIsSmallest ==
  ASSUME NEW S \in SUBSET Nat, S # {}
  PROVE  Min(S) \in S /\ \A m \in S : Min(S) <= m
<1>1. PICK x \in S : \A m \in S : x <= m
  BY SmallestNumber
<1> QED
  BY <1>1 DEF Min

LEMMA ElementsTyped ==
  ASSUME NEW T, NEW q \in Seq(T)
  PROVE  ToSet(q) \in SUBSET T /\ \A x : x \in ToSet(q) <=> \E i \in 1 .. Len(q) : q[i] = x
BY DEF ToSet

LEMMA AttemptsAreSome ==
  ASSUME NEW q \in Seq(Attempt)
  PROVE  NoAttempt \notin ToSet(q)
<1>1. ToSet(q) \in SUBSET Attempt
  BY ElementsTyped
<1>2. NoAttempt \notin Attempt
  BY ConsumerAssumption DEF Attempt
<1> QED
  BY <1>1, <1>2

LEMMA AppendAdds ==
  ASSUME NEW T, NEW q \in Seq(T), NEW x \in T
  PROVE  /\ Append(q, x) \in Seq(T) /\ ToSet(Append(q, x)) = ToSet(q) \cup {x}
         /\ IsInjective(q) /\ x \notin ToSet(q) => IsInjective(Append(q, x))
<1>1. PICK r : r = Append(q, x)
  OBVIOUS
<1>2. /\ r \in Seq(T) /\ Len(r) = Len(q) + 1 /\ Len(q) \in Nat /\ r[Len(q) + 1] = x
      /\ \A i \in 1 .. Len(q) : r[i] = q[i]
  BY <1>1
<1>3. DOMAIN q = 1 .. Len(q) /\ DOMAIN r = 1 .. (Len(q) + 1)
  BY <1>2
<1>4. ToSet(r) = ToSet(q) \cup {x}
  <2>1. ASSUME NEW y \in ToSet(r)
        PROVE  y \in ToSet(q) \cup {x}
    <3>1. PICK i \in 1 .. (Len(q) + 1) : y = r[i]
      BY <1>3 DEF ToSet
    <3> QED
      BY <1>2, <1>3, <3>1 DEF ToSet
  <2>2. ASSUME NEW y \in ToSet(q)
        PROVE  y \in ToSet(r)
    <3>1. PICK i \in 1 .. Len(q) : y = q[i]
      BY <1>3 DEF ToSet
    <3>2. i \in 1 .. (Len(q) + 1) /\ y = r[i]
      BY <1>2, <3>1
    <3> QED
      BY <1>3, <3>2 DEF ToSet
  <2>3. x \in ToSet(r)
    BY <1>2, <1>3 DEF ToSet
  <2> QED
    BY <2>1, <2>2, <2>3
<1>5. ASSUME IsInjective(q), x \notin ToSet(q)
      PROVE  IsInjective(r)
  <2>1. ASSUME NEW i \in 1 .. (Len(q) + 1), NEW j \in 1 .. (Len(q) + 1), r[i] = r[j]
        PROVE  i = j
    <3>1. \A k \in 1 .. Len(q) : q[k] # x
      BY <1>3, <1>5 DEF ToSet
    <3>2. \A k, l \in 1 .. Len(q) : q[k] = q[l] => k = l
      BY <1>3, <1>5 DEF IsInjective
    <3>3. i \in 1 .. Len(q) \/ i = Len(q) + 1
      BY <1>2
    <3>4. j \in 1 .. Len(q) \/ j = Len(q) + 1
      BY <1>2
    <3> QED
      BY <1>2, <2>1, <3>1, <3>2, <3>3, <3>4
  <2> QED
    BY <1>3, <2>1 DEF IsInjective
<1> QED
  BY <1>1, <1>2, <1>4, <1>5

\* The filter keeps what is of other requests, each once.
LEMMA WithoutDrops ==
  ASSUME NEW q \in Seq(Attempt), NEW id
  PROVE  /\ Without(q, id) \in Seq(Attempt)
         /\ ToSet(Without(q, id)) = {b \in ToSet(q) : b.id # id}
         /\ IsInjective(q) => IsInjective(Without(q, id))
<1> DEFINE S == 1 .. Len(q)
           last == [s \in SUBSET S |-> Max(s)]
           step == [x \in S \X Seq(Attempt) |->
                      IF q[x[1]].id = id THEN x[2] ELSE Append(x[2], q[x[1]])]
           Value(g) == g = [s \in SUBSET S |->
                              IF s = {} THEN <<>>
                              ELSE IF q[Max(s)].id = id THEN g[s \ {Max(s)}]
                              ELSE Append(g[s \ {Max(s)}], q[Max(s)])]
           Others(s) == {q[i] : i \in {j \in s : q[j].id # id}}
           Good == {pair \in (SUBSET S) \X Seq(Attempt) :
                      /\ ToSet(pair[2]) = Others(pair[1])
                      /\ IsInjective(q) => IsInjective(pair[2])}
<1>1. Len(q) \in Nat /\ DOMAIN q = S /\ IsFiniteSet(S) /\ \A i \in S : q[i] \in Attempt
  BY FS_Interval
<1>2. Without(q, id) = (CHOOSE g : Value(g))[S]
  BY <1>1 DEF Without, FoldLeft, MapThenFoldSet
<1>3. ASSUME NEW s \in SUBSET S, s # {}
      PROVE  Max(s) \in s
  <2>1. s \in SUBSET Nat /\ \A m \in s : m <= Len(q)
    BY <1>1
  <2> QED
    BY <1>1, <1>3, <2>1, MaxIsLargest
<1>4. Chooses(last, S) /\ \A s \in SUBSET S : last[s] = Max(s)
  BY <1>3 DEF Chooses
<1>5. /\ step \in [S \X Seq(Attempt) -> Seq(Attempt)]
      /\ \A i \in S, d \in Seq(Attempt) :
           step[<<i, d>>] = IF q[i].id = id THEN d ELSE Append(d, q[i])
  BY <1>1
<1>6. PICK f \in [SUBSET S -> Seq(Attempt)] : IsFold(f, S, <<>>, step, last)
  <2> HIDE DEF S, last, step
  <2>1. <<>> \in Seq(Attempt)
    OBVIOUS
  <2> QED
    BY <1>1, <1>4, <1>5, <2>1, FoldsExist
<1>7. Value(f)
  <2>1. ASSUME NEW s \in SUBSET S
        PROVE  f[s] = IF s = {} THEN <<>>
                      ELSE IF q[Max(s)].id = id THEN f[s \ {Max(s)}]
                      ELSE Append(f[s \ {Max(s)}], q[Max(s)])
    <3> HIDE DEF S, last, step
    <3>1. f[s] = IF s = {} THEN <<>> ELSE step[<<Max(s), f[s \ {Max(s)}]>>]
      BY <1>4, <1>6 DEF IsFold
    <3>2. CASE s # {}
      <4>1. Max(s) \in S /\ f[s \ {Max(s)}] \in Seq(Attempt)
        BY <1>3, <3>2
      <4> QED
        BY <1>5, <3>1, <3>2, <4>1
    <3> QED
      BY <3>1, <3>2
  <2> QED
    BY <2>1
<1>8. PICK g : g = CHOOSE h : Value(h)
  OBVIOUS
<1>9. Value(g)
  <2> HIDE DEF Value
  <2> QED
    BY <1>7, <1>8
<1>10. <<{}, g[{}]>> \in Good
  <2>1. g[{}] = <<>> /\ <<>> \in Seq(Attempt) /\ ToSet(<<>>) = {} /\ IsInjective(<<>>)
    BY <1>9 DEF ToSet, IsInjective
  <2> QED
    BY <2>1
<1>11. ASSUME NEW s \in SUBSET S, s # {}, <<s \ {last[s]}, g[s \ {last[s]}]>> \in Good
       PROVE  <<s, g[s]>> \in Good
  <2>1. PICK m \in s : m = Max(s) /\ last[s] = m /\ q[m] \in Attempt
    BY <1>1, <1>3, <1>4, <1>11
  <2>2. PICK d \in Seq(Attempt) : /\ d = g[s \ {m}] /\ ToSet(d) = Others(s \ {m})
                                  /\ IsInjective(q) => IsInjective(d)
    <3> HIDE DEF last
    <3> QED
      BY <1>11, <2>1
  <2>3. g[s] = IF q[m].id = id THEN d ELSE Append(d, q[m])
    BY <1>9, <1>11, <2>1, <2>2
  <2>4. Others(s) = IF q[m].id = id THEN Others(s \ {m}) ELSE Others(s \ {m}) \cup {q[m]}
    OBVIOUS
  <2>5. IsInjective(q) => q[m] \notin Others(s \ {m})
    <3>1. ASSUME IsInjective(q), q[m] \in Others(s \ {m})
          PROVE  FALSE
      <4>1. PICK i \in s \ {m} : q[i] = q[m]
        BY <3>1
      <4> QED
        BY <1>1, <3>1, <4>1 DEF IsInjective
    <3> QED
      BY <3>1
  <2> HIDE DEF Others
  <2>6. PICK e : e = Append(d, q[m])
    OBVIOUS
  <2>7. /\ e \in Seq(Attempt) /\ ToSet(e) = ToSet(d) \cup {q[m]}
        /\ IsInjective(d) /\ q[m] \notin ToSet(d) => IsInjective(e)
    BY <2>1, <2>6, AppendAdds
  <2>8. g[s] = IF q[m].id = id THEN d ELSE e
    BY <2>3, <2>6
  <2>9. g[s] \in Seq(Attempt) /\ ToSet(g[s]) = Others(s) /\ (IsInjective(q) => IsInjective(g[s]))
    BY <2>2, <2>4, <2>5, <2>7, <2>8
  <2> QED
    BY <2>9
<1>12. <<S, g[S]>> \in Good
  <2> HIDE DEF Good, S, last, Value
  <2> QED
    BY <1>1, <1>4, <1>10, <1>11, FoldsKeep
<1>13. Others(S) = {b \in ToSet(q) : b.id # id}
  BY <1>1 DEF ToSet
<1>14. g[S] \in Seq(Attempt) /\ ToSet(g[S]) = Others(S) /\ (IsInjective(q) => IsInjective(g[S]))
  <2> HIDE DEF Others
  <2> QED
    BY <1>12
<1> HIDE DEF S, Others, Value
<1> QED
  BY <1>2, <1>8, <1>13, <1>14

-----------------------------------------------------------------------------
(* The runtime: what each operation leaves of the attempts it knows.       *)

\* Only the errors, the forgotten attempts, the mark of a notification or what the start reads
\* differ.
Alike(p, q) ==
  /\ q.current = p.current /\ q.queue = p.queue /\ q.pending = p.pending
  /\ q.active = p.active /\ q.opening = p.opening
  /\ q.applied = p.applied /\ q.seen = p.seen /\ q.recording = p.recording
  /\ q.acknowledging = p.acknowledging /\ q.abandoning = p.abandoning

LEMMA AlikeWorks ==
  ASSUME NEW p, NEW q, Alike(p, q), NEW s, NEW given
  PROVE  /\ \A ever : Works(s, p, given, ever) => Works(s, q, given, ever)
         /\ \A now : Fresh(s, p, given, now) => Fresh(s, q, given, now)
         /\ Positions(q) = Positions(p)
BY DEF Alike, Works, Coherent, IsCurrent, Completions, Past, Held, Positions, Earned, Fresh

LEMMA ReportsAreAlike ==
  ASSUME NEW p \in Page, NEW source \in Sources
  PROVE  /\ Notified(p) \in Page /\ Alike(p, Notified(p))
         /\ Failed(p, source) \in Page /\ Alike(p, Failed(p, source))
         /\ Resolved(p, source) \in Page /\ Alike(p, Resolved(p, source))
<1>1. Notified(p) \in Page /\ Alike(p, Notified(p))
  BY DEF Page, Notified, Alike
<1>2. Failed(p, source) \in Page /\ Alike(p, Failed(p, source))
  <2>1. CASE source \in p.muted
    BY <2>1 DEF Page, Failed, Alike
  <2>2. CASE source \notin p.muted
    BY <2>2 DEF Page, Notified, Failed, Alike
  <2> QED
    BY <2>1, <2>2
<1>3. Resolved(p, source) \in Page /\ Alike(p, Resolved(p, source))
  <2>1. PICK q : q = [p EXCEPT !.muted = @ \ {source}]
    OBVIOUS
  <2>2. q \in Page /\ Alike(p, q)
    BY <2>1 DEF Page, Alike
  <2>3. Resolved(p, source) \in {q, Notified([q EXCEPT !.errors = @ \ {source}])}
    BY <2>1 DEF Resolved
  <2>4. /\ Notified([q EXCEPT !.errors = @ \ {source}]) \in Page
        /\ Alike(p, Notified([q EXCEPT !.errors = @ \ {source}]))
    BY <2>2 DEF Page, Notified, Alike
  <2> QED
    BY <2>2, <2>3, <2>4
<1> QED
  BY <1>1, <1>2, <1>3

LEMMA RemovalDrops ==
  ASSUME NEW p \in Page, NEW id, NEW q, q = RemoveLocalRequest(p, id)
  PROVE  /\ q \in Page
         /\ q.current = p.current /\ q.terminal = p.terminal
         /\ q.active = p.active /\ q.opening = p.opening
         /\ q.applied = p.applied /\ q.seen = p.seen /\ q.recording = p.recording
         /\ q.acknowledging = p.acknowledging /\ q.abandoning = p.abandoning /\ q.errors = p.errors
         /\ ToSet(q.queue) = {b \in ToSet(p.queue) : b.id # id}
         /\ IsInjective(p.queue) => IsInjective(q.queue)
         /\ q.pending = IF p.pending # NoAttempt /\ p.pending.id = id THEN NoAttempt ELSE p.pending
<1>1. PICK queue : queue = Without(p.queue, id)
  OBVIOUS
<1>2. p.queue \in Seq(Attempt)
  BY DEF Page
<1>3. /\ queue \in Seq(Attempt) /\ ToSet(queue) = {b \in ToSet(p.queue) : b.id # id}
      /\ IsInjective(p.queue) => IsInjective(queue)
  BY <1>1, <1>2, WithoutDrops
<1>4. q = Notified([p EXCEPT !.queue = queue,
                             !.pending = IF @ # NoAttempt /\ @.id = id THEN NoAttempt ELSE @])
  BY <1>1 DEF RemoveLocalRequest
<1>5. q.queue = queue /\ q.pending = IF p.pending # NoAttempt /\ p.pending.id = id THEN NoAttempt ELSE p.pending
  BY <1>4 DEF Page, Notified
<1>6. q \in Page
  BY <1>3, <1>4 DEF Page, Notified, AnyAttempt
<1>7. /\ q.current = p.current /\ q.terminal = p.terminal
      /\ q.active = p.active /\ q.opening = p.opening
      /\ q.applied = p.applied /\ q.seen = p.seen /\ q.recording = p.recording
      /\ q.acknowledging = p.acknowledging /\ q.abandoning = p.abandoning /\ q.errors = p.errors
  BY <1>4 DEF Page, Notified
<1> QED
  BY <1>3, <1>5, <1>6, <1>7

\* An adoption makes an attempt the current one of its request: of the others of this request
\* nothing is left, unless it waits or is opened already.
Kept(S, a) == {b \in S : b.id # a.id \/ b = a}

Moved(p, q, a) ==
  /\ q.current = [p.current EXCEPT ![a.id] = a.token]
  /\ q.active = p.active /\ q.opening = p.opening
  /\ ToSet(q.queue) \in SUBSET ToSet(p.queue)
  /\ \A b \in ToSet(p.queue) : b.id # a.id => b \in ToSet(q.queue)
  /\ IsInjective(p.queue) => IsInjective(q.queue)
  /\ q.pending = p.pending \/ (q.pending = NoAttempt /\ p.pending.id = a.id)
  /\ q.abandoning = {b \in p.abandoning : b.id # a.id}

Accepted(p, q, a) ==
  /\ Moved(p, q, a)
  /\ q.seen = Kept(p.seen, a) /\ q.applied = Kept(p.applied, a)
  /\ q.recording = Kept(p.recording, a) /\ q.acknowledging = Kept(p.acknowledging, a)

Retargeted(p, q, a) ==
  /\ Moved(p, q, a)
  /\ \E old \in p.applied : old.id = a.id /\ old # a
  /\ q.seen = Kept(p.seen, a) \cup {a} /\ q.applied = Kept(p.applied, a) \cup {a}
  /\ q.recording = Kept(p.recording, a) \cup {a} /\ q.acknowledging = Kept(p.acknowledging, a)

\* Of a request nothing but the current attempt was seen or applied.
LEMMA CurrentIsAlone ==
  ASSUME NEW p \in Page, Coherent(p), NEW a \in Attempt, NEW b \in p.seen \cup p.applied, b.id = a.id
  PROVE  b \in Attempt /\ b.token = p.current[a.id] /\ (b = a <=> p.current[a.id] = a.token)
<1>1. b \in Attempt /\ b.token = p.current[a.id]
  BY DEF Page, Coherent, IsCurrent
<1> QED
  BY <1>1 DEF Attempt

LEMMA CompletionsAreApplied ==
  ASSUME NEW p, Coherent(p)
  PROVE  /\ p.recording \in SUBSET p.applied /\ p.acknowledging \in SUBSET p.applied
         /\ \A a : a \in p.applied <=> a \in p.recording \/ a \in p.acknowledging
BY DEF Coherent, Completions

LEMMA TokensTyped ==
  ASSUME NEW f \in [Requests -> 0 .. MaxToken], NEW a \in Attempt
  PROVE  /\ [f EXCEPT ![a.id] = a.token] \in [Requests -> 0 .. MaxToken]
         /\ [f EXCEPT ![a.id] = 0] \in [Requests -> 0 .. MaxToken]
         /\ a.id \in Requests /\ a.token \in 1 .. MaxToken
<1>1. a.id \in Requests /\ a.token \in 1 .. MaxToken
  BY DEF Attempt
<1>2. a.token \in 0 .. MaxToken /\ 0 \in 0 .. MaxToken
  BY <1>1, ConsumerAssumption
<1> QED
  BY <1>1, <1>2

\* What adoptAttempt makes of the runtime, by its verdict.
LEMMA AdoptionIs ==
  ASSUME NEW p \in Page, Coherent(p), NEW a \in Attempt, NEW r, r = Adopt(p, a)
  PROVE  /\ r.page \in Page
         /\ r.verdict = "rejected" => Alike(p, r.page)
         /\ r.verdict = "accepted" => Accepted(p, r.page, a) /\ r.page.applied = p.applied
         /\ r.verdict = "retargeted" => Retargeted(p, r.page, a)
         /\ r.verdict \in {"rejected", "accepted", "retargeted"}
<1> DEFINE fresh == [p EXCEPT !.terminal[a.id] = 0]
           known == [fresh EXCEPT !.abandoning = {b \in @ : b.id # a.id}]
           old == [id |-> a.id, token |-> p.current[a.id]]
<1>1. a.id \in Requests /\ a.token \in 1 .. MaxToken /\ a = [id |-> a.id, token |-> a.token]
  BY DEF Attempt
<1>2. fresh \in Page /\ Alike(p, fresh) /\ fresh.errors = p.errors
  <2>1. PICK v \in [Requests -> 0 .. MaxToken] : v = [p.terminal EXCEPT ![a.id] = 0]
    <3>1. p.terminal \in [Requests -> 0 .. MaxToken]
      BY DEF Page
    <3> QED
      BY <3>1, TokensTyped
  <2>2. fresh = [p EXCEPT !.terminal = v]
    BY <2>1
  <2> HIDE DEF fresh
  <2> QED
    BY <2>2 DEF Page, Alike
<1>3. /\ known \in Page /\ known.abandoning = {b \in p.abandoning : b.id # a.id}
      /\ known.current = p.current /\ known.queue = p.queue /\ known.pending = p.pending
      /\ known.active = p.active /\ known.opening = p.opening
      /\ known.applied = p.applied /\ known.seen = p.seen /\ known.recording = p.recording
      /\ known.acknowledging = p.acknowledging /\ known.errors = p.errors
  <2>1. PICK v \in SUBSET Attempt : v = {b \in p.abandoning : b.id # a.id}
    BY DEF Page
  <2>2. fresh.abandoning = p.abandoning
    BY <1>2 DEF Alike
  <2>3. known = [fresh EXCEPT !.abandoning = v]
    BY <2>1, <2>2
  <2> HIDE DEF fresh, known
  <2> QED
    BY <1>2, <2>1, <2>3 DEF Page, Alike
<1>4. r = IF p.terminal[a.id] = a.token THEN [page |-> p, verdict |-> "rejected"]
          ELSE IF a \in p.abandoning THEN [page |-> fresh, verdict |-> "rejected"]
          ELSE IF old.token \notin {0, a.token} THEN Retarget(known, a, old)
          ELSE [page |-> [known EXCEPT !.current[a.id] = a.token], verdict |-> "accepted"]
  BY DEF Adopt
<1>5. \A b \in p.seen \cup p.applied :
        b.id = a.id => b \in Attempt /\ b.token = p.current[a.id] /\ (b = a <=> p.current[a.id] = a.token)
  BY CurrentIsAlone
<1>6. /\ p.seen \in SUBSET Attempt /\ p.applied \in SUBSET Attempt
      /\ p.recording \in SUBSET p.applied /\ p.acknowledging \in SUBSET p.applied
      /\ p.current \in [Requests -> 0 .. MaxToken] /\ p.queue \in Seq(Attempt)
  BY CompletionsAreApplied DEF Page
<1> HIDE DEF fresh, known
<1>7. CASE p.terminal[a.id] = a.token \/ a \in p.abandoning
  <2>1. Alike(p, p)
    BY DEF Alike
  <2>2. r = [page |-> p, verdict |-> "rejected"] \/ r = [page |-> fresh, verdict |-> "rejected"]
    BY <1>4, <1>7
  <2> QED
    BY <1>2, <2>1, <2>2
<1>8. CASE ~(p.terminal[a.id] = a.token \/ a \in p.abandoning) /\ p.current[a.id] \in {0, a.token}
  <2>1. r = [page |-> [known EXCEPT !.current[a.id] = a.token], verdict |-> "accepted"]
    BY <1>4, <1>8
  <2>2. PICK q : q = [known EXCEPT !.current[a.id] = a.token]
    OBVIOUS
  <2>8. PICK v \in [Requests -> 0 .. MaxToken] : v = [p.current EXCEPT ![a.id] = a.token]
    BY <1>6, TokensTyped
  <2>9. q = [known EXCEPT !.current = v]
    BY <1>3, <2>2, <2>8
  <2>3. /\ q \in Page /\ q.current = [p.current EXCEPT ![a.id] = a.token]
        /\ q.abandoning = {b \in p.abandoning : b.id # a.id}
        /\ q.queue = p.queue /\ q.pending = p.pending /\ q.active = p.active /\ q.opening = p.opening
        /\ q.applied = p.applied /\ q.seen = p.seen /\ q.recording = p.recording
        /\ q.acknowledging = p.acknowledging
    BY <1>3, <2>8, <2>9 DEF Page
  <2>4. Moved(p, q, a)
    BY <2>3 DEF Moved
  <2>5. \A b \in p.seen \cup p.applied : b.id = a.id => b = a
    BY <1>1, <1>5, <1>8 DEF Attempt
  <2>6. \A S \in SUBSET (p.seen \cup p.applied) : Kept(S, a) = S
    BY <2>5 DEF Kept
  <2>7. Accepted(p, q, a)
    BY <1>6, <2>3, <2>4, <2>6 DEF Accepted
  <2>10. q \in Page /\ q.applied = p.applied
    BY <2>3
  <2>11. r = [page |-> q, verdict |-> "accepted"]
    BY <2>1, <2>2
  <2> QED
    BY <2>7, <2>10, <2>11
<1>9. CASE ~(p.terminal[a.id] = a.token \/ a \in p.abandoning) /\ p.current[a.id] \notin {0, a.token}
  <2>1. r = Retarget(known, a, old) /\ old \in Attempt /\ old.id = a.id /\ old # a
    <3>1. p.current[a.id] \in 1 .. MaxToken
      BY <1>1, <1>6, <1>9, ConsumerAssumption
    <3> QED
      BY <1>1, <1>4, <1>9, <3>1 DEF Attempt
  <2> HIDE DEF old
  <2>2. PICK w : w = WithoutCompletion(known, old)
    OBVIOUS
  <2>3. /\ w \in Page /\ w.abandoning = {b \in p.abandoning : b.id # a.id}
        /\ w.current = p.current /\ w.queue = p.queue /\ w.pending = p.pending
        /\ w.active = p.active /\ w.opening = p.opening
        /\ w.applied = p.applied /\ w.seen = p.seen /\ w.recording = p.recording \ {old}
        /\ w.acknowledging = p.acknowledging \ {old} /\ w.errors = p.errors
    BY <1>3, <2>2 DEF WithoutCompletion, Page
  <2>4. PICK q : q = RemoveLocalRequest(w, a.id)
    OBVIOUS
  <2>5. /\ q \in Page
        /\ q.current = w.current /\ q.active = w.active /\ q.opening = w.opening
        /\ q.applied = w.applied /\ q.seen = w.seen /\ q.recording = w.recording
        /\ q.acknowledging = w.acknowledging /\ q.abandoning = w.abandoning
        /\ ToSet(q.queue) = {b \in ToSet(w.queue) : b.id # a.id}
        /\ IsInjective(w.queue) => IsInjective(q.queue)
        /\ q.pending = IF w.pending # NoAttempt /\ w.pending.id = a.id THEN NoAttempt ELSE w.pending
    BY <2>3, <2>4, RemovalDrops
  <2>6. PICK c : c = [q EXCEPT !.seen = @ \ {old}, !.applied = @ \ {old}, !.current[a.id] = a.token,
                               !.errors = {e \in @ : e[2] # old},
                               !.muted = IF known.opening /\ known.active = old
                                         THEN @ \cup {<<"apply", old>>} ELSE @]
    OBVIOUS
  <2>7. /\ c \in Page /\ c.current = [p.current EXCEPT ![a.id] = a.token]
        /\ c.active = p.active /\ c.opening = p.opening /\ c.queue = q.queue /\ c.pending = q.pending
        /\ c.applied = p.applied \ {old} /\ c.seen = p.seen \ {old}
        /\ c.recording = p.recording \ {old} /\ c.acknowledging = p.acknowledging \ {old}
        /\ c.abandoning = {b \in p.abandoning : b.id # a.id}
    <3>3. PICK v \in [Requests -> 0 .. MaxToken] : v = [q.current EXCEPT ![a.id] = a.token]
      <4>1. q.current \in [Requests -> 0 .. MaxToken]
        BY <2>5 DEF Page
      <4> QED
        BY <4>1, TokensTyped
    <3>4. PICK e \in SUBSET Sources : e = {x \in q.errors : x[2] # old}
      BY <2>5 DEF Page
    <3>6. <<"apply", old>> \in Sources
      BY <2>1 DEF Sources, AnyAttempt
    <3>7. PICK m \in SUBSET Sources :
            m = IF known.opening /\ known.active = old THEN q.muted \cup {<<"apply", old>>} ELSE q.muted
      BY <2>5, <3>6 DEF Page
    <3>5. c = [q EXCEPT !.seen = q.seen \ {old}, !.applied = q.applied \ {old}, !.current = v,
                        !.errors = e, !.muted = m]
      BY <2>5, <2>6, <3>3, <3>4, <3>7 DEF Page
    <3>1. c \in Page
      BY <2>5, <3>3, <3>4, <3>5 DEF Page
    <3>2. /\ c.current = [q.current EXCEPT ![a.id] = a.token]
          /\ c.active = q.active /\ c.opening = q.opening /\ c.queue = q.queue /\ c.pending = q.pending
          /\ c.applied = q.applied \ {old} /\ c.seen = q.seen \ {old}
          /\ c.recording = q.recording /\ c.acknowledging = q.acknowledging
          /\ c.abandoning = q.abandoning
      BY <2>5, <3>3, <3>5 DEF Page
    <3> QED
      BY <2>3, <2>5, <3>1, <3>2
  <2>8. Moved(p, c, a)
    BY <2>3, <2>5, <2>7 DEF Moved
  <2>9. \A b \in p.seen \cup p.applied : b.id = a.id => b = old /\ b # a
    BY <1>1, <1>5, <1>9 DEF Attempt, old
  <2>10. \A S \in SUBSET (p.seen \cup p.applied) : S \ {old} = Kept(S, a)
    BY <2>1, <2>9 DEF Kept
  <2>11. Accepted(p, c, a)
    BY <1>6, <2>7, <2>8, <2>10 DEF Accepted
  <2>12. CASE old \in p.applied
    <3>1. r = [page |-> [c EXCEPT !.seen = @ \cup {a}, !.applied = @ \cup {a}, !.recording = @ \cup {a}],
               verdict |-> "retargeted"]
      BY <1>3, <2>1, <2>2, <2>4, <2>6, <2>12 DEF Retarget
    <3>2. PICK d : d = [c EXCEPT !.seen = @ \cup {a}, !.applied = @ \cup {a}, !.recording = @ \cup {a}]
      OBVIOUS
    <3>3. /\ d \in Page /\ d.current = c.current /\ d.active = c.active /\ d.opening = c.opening
          /\ d.queue = c.queue /\ d.pending = c.pending /\ d.abandoning = c.abandoning
          /\ d.applied = c.applied \cup {a} /\ d.seen = c.seen \cup {a}
          /\ d.recording = c.recording \cup {a} /\ d.acknowledging = c.acknowledging
      BY <2>7, <3>2 DEF Page
    <3>4. Moved(p, d, a)
      BY <2>8, <3>3 DEF Moved
    <3>5. Retargeted(p, d, a)
      BY <2>1, <2>11, <2>12, <3>3, <3>4 DEF Accepted, Retargeted
    <3> QED
      BY <3>1, <3>2, <3>3, <3>5
  <2>13. CASE old \notin p.applied
    <3>1. r = [page |-> c, verdict |-> "accepted"]
      BY <1>3, <2>1, <2>2, <2>4, <2>6, <2>13 DEF Retarget
    <3>2. c.applied = p.applied
      BY <2>7, <2>13
    <3> QED
      BY <2>7, <2>11, <3>1, <3>2
  <2> QED
    BY <2>12, <2>13
<1> QED
  BY <1>7, <1>8, <1>9-----------------------------------------------------------------------------
(* What adoptions keep of the invariant.                                   *)

\* The adopted attempt is queued.
Queued(p, q, a) ==
  /\ q.current = [p.current EXCEPT ![a.id] = a.token]
  /\ q.active = p.active /\ q.opening = p.opening
  /\ ToSet(q.queue) \in SUBSET (ToSet(p.queue) \cup {a}) /\ a \in ToSet(q.queue)
  /\ \A b \in ToSet(p.queue) : b.id # a.id => b \in ToSet(q.queue)
  /\ IsInjective(p.queue) /\ a \notin ToSet(p.queue) => IsInjective(q.queue)
  /\ q.pending = p.pending \/ (q.pending = NoAttempt /\ p.pending.id = a.id)
  /\ q.abandoning = {b \in p.abandoning : b.id # a.id}
  /\ q.seen = Kept(p.seen, a) \cup {a}
  /\ q.applied = p.applied /\ q.applied = Kept(p.applied, a)
  /\ q.recording = Kept(p.recording, a) /\ q.acknowledging = Kept(p.acknowledging, a)

\* The adopted attempt was applied: by an earlier attempt of its request, or before a reload.
Taken(p, q, a) ==
  /\ Moved(p, q, a)
  /\ q.seen \in {Kept(p.seen, a), Kept(p.seen, a) \cup {a}}
  /\ q.applied = Kept(p.applied, a) \cup {a}
  /\ q.applied = Completions(q) /\ q.recording \cap q.acknowledging = {}

\* The adoption is rejected, and the request is not given back any more.
Purged(p, q, a) ==
  /\ q.current = p.current /\ q.queue = p.queue /\ q.pending = p.pending
  /\ q.active = p.active /\ q.opening = p.opening
  /\ q.applied = p.applied /\ q.seen = p.seen /\ q.recording = p.recording
  /\ q.acknowledging = p.acknowledging
  /\ q.abandoning = {b \in p.abandoning : b.id # a.id}

LEMMA ClaimIs ==
  ASSUME NEW p \in Page, Coherent(p), NEW a \in Attempt, NEW q, q = AdoptClaimed(a, p)
  PROVE  /\ q \in Page /\ q.active = p.active /\ q.opening = p.opening
         /\ \/ Alike(p, q)
            \/ a \notin p.seen \cup p.applied /\ Queued(p, q, a)
            \/ /\ a \notin p.seen \cup p.applied /\ Taken(p, q, a)
               /\ \E old \in p.applied : old.id = a.id
<1>1. PICK r : r = Adopt(p, a)
  OBVIOUS
<1>2. /\ r.page \in Page
      /\ r.verdict = "rejected" => Alike(p, r.page)
      /\ r.verdict = "accepted" => Accepted(p, r.page, a) /\ r.page.applied = p.applied
      /\ r.verdict = "retargeted" => Retargeted(p, r.page, a)
      /\ r.verdict \in {"rejected", "accepted", "retargeted"}
  BY <1>1, AdoptionIs
<1>3. q = IF a \in p.seen \cup Completions(p) THEN p
          ELSE IF r.verdict # "accepted" THEN r.page
          ELSE [r.page EXCEPT !.seen = @ \cup {a}, !.queue = Append(@, a)]
  BY <1>1 DEF AdoptClaimed
<1>4. Completions(p) = p.applied
  BY DEF Coherent
<1>5. CASE a \in p.seen \cup Completions(p)
  BY <1>3, <1>5 DEF Alike
<1>6. CASE a \notin p.seen \cup Completions(p) /\ r.verdict = "rejected"
  BY <1>2, <1>3, <1>6 DEF Alike
<1>7. CASE a \notin p.seen \cup Completions(p) /\ r.verdict = "retargeted"
  <2>1. q = r.page /\ Retargeted(p, q, a)
    BY <1>2, <1>3, <1>7
  <2>2. q.applied = Completions(q) /\ q.recording \cap q.acknowledging = {}
    BY <1>4, <1>7, <2>1, CompletionsAreApplied DEF Coherent, Retargeted, Kept, Completions
  <2>3. Taken(p, q, a)
    BY <2>1, <2>2 DEF Retargeted, Taken
  <2> QED
    BY <1>2, <1>4, <1>7, <2>1, <2>3 DEF Retargeted, Moved
<1>8. CASE a \notin p.seen \cup Completions(p) /\ r.verdict = "accepted"
  <2>1. PICK m \in Page : m = r.page
    BY <1>2
  <2>2. Accepted(p, m, a) /\ m.applied = p.applied
    BY <1>2, <1>8, <2>1
  <2>3. PICK queue : queue = Append(m.queue, a)
    OBVIOUS
  <2>4. m.queue \in Seq(Attempt) /\ m.seen \in SUBSET Attempt
    BY DEF Page
  <2>5. /\ queue \in Seq(Attempt) /\ ToSet(queue) = ToSet(m.queue) \cup {a}
        /\ IsInjective(m.queue) /\ a \notin ToSet(m.queue) => IsInjective(queue)
    BY <2>3, <2>4, AppendAdds
  <2>9. PICK seen \in SUBSET Attempt : seen = m.seen \cup {a}
    BY <2>4
  <2>6. q = [m EXCEPT !.seen = seen, !.queue = queue]
    BY <1>3, <1>8, <2>1, <2>3, <2>9
  <2>7. /\ q \in Page /\ q.current = m.current /\ q.active = m.active /\ q.opening = m.opening
        /\ q.queue = queue /\ q.pending = m.pending /\ q.abandoning = m.abandoning
        /\ q.seen = m.seen \cup {a} /\ q.applied = m.applied
        /\ q.recording = m.recording /\ q.acknowledging = m.acknowledging
    BY <2>5, <2>6, <2>9 DEF Page
  <2>8. Queued(p, q, a)
    <3>1. /\ ToSet(queue) \in SUBSET (ToSet(p.queue) \cup {a}) /\ a \in ToSet(queue)
          /\ \A b \in ToSet(p.queue) : b.id # a.id => b \in ToSet(queue)
          /\ IsInjective(p.queue) /\ a \notin ToSet(p.queue) => IsInjective(queue)
      BY <2>2, <2>5 DEF Accepted, Moved
    <3> QED
      BY <2>2, <2>7, <3>1 DEF Queued, Accepted, Moved
  <2> QED
    BY <1>4, <1>8, <2>7, <2>8 DEF Queued
<1> QED
  BY <1>2, <1>5, <1>6, <1>7, <1>8

LEMMA RecoveredIs ==
  ASSUME NEW p \in Page, Coherent(p), NEW a \in Attempt, NEW q, q = AdoptRecovered(a, p)
  PROVE  q \in Page /\ (Purged(p, q, a) \/ Taken(p, q, a))
<1>1. PICK abandoning \in SUBSET Attempt : abandoning = {b \in p.abandoning : b.id # a.id}
  BY DEF Page
<1>2. PICK o : o = [p EXCEPT !.abandoning = abandoning]
  OBVIOUS
<1>3. o \in Page /\ Purged(p, o, a)
  BY <1>1, <1>2 DEF Page, Purged
<1>4. Coherent(o)
  BY <1>3 DEF Coherent, Purged, IsCurrent, Completions
<1>5. PICK r : r = Adopt(o, a)
  OBVIOUS
<1>6. /\ r.page \in Page
      /\ r.verdict = "rejected" => Alike(o, r.page)
      /\ r.verdict = "accepted" => Accepted(o, r.page, a)
      /\ r.verdict = "retargeted" => Retargeted(o, r.page, a)
      /\ r.verdict \in {"rejected", "accepted", "retargeted"}
  BY <1>4, <1>3, <1>5, AdoptionIs
<1>7. PICK m : m = RemoveLocalRequest(r.page, a.id)
  OBVIOUS
<1>8. q = IF r.verdict = "rejected" THEN r.page
          ELSE [m EXCEPT !.applied = @ \cup {a}, !.recording = @ \ {a}, !.acknowledging = @ \cup {a}]
  BY <1>1, <1>2, <1>5, <1>7 DEF AdoptRecovered
<1>9. CASE r.verdict = "rejected"
  BY <1>3, <1>6, <1>8, <1>9 DEF Alike, Purged
<1>10. CASE r.verdict # "rejected"
  <2>1. PICK n \in Page : n = r.page
    BY <1>6
  <2>2. /\ m \in Page
        /\ m.current = n.current /\ m.active = n.active /\ m.opening = n.opening
        /\ m.applied = n.applied /\ m.seen = n.seen /\ m.recording = n.recording
        /\ m.acknowledging = n.acknowledging /\ m.abandoning = n.abandoning
        /\ ToSet(m.queue) = {b \in ToSet(n.queue) : b.id # a.id}
        /\ IsInjective(n.queue) => IsInjective(m.queue)
        /\ m.pending = IF n.pending # NoAttempt /\ n.pending.id = a.id THEN NoAttempt ELSE n.pending
    BY <1>7, <2>1, RemovalDrops
  <2>3. q = [m EXCEPT !.applied = @ \cup {a}, !.recording = @ \ {a}, !.acknowledging = @ \cup {a}]
    BY <1>8, <1>10
  <2>4. /\ q \in Page /\ q.current = m.current /\ q.active = m.active /\ q.opening = m.opening
        /\ q.queue = m.queue /\ q.pending = m.pending /\ q.abandoning = m.abandoning
        /\ q.seen = m.seen /\ q.applied = m.applied \cup {a}
        /\ q.recording = m.recording \ {a} /\ q.acknowledging = m.acknowledging \cup {a}
    <3>1. m.applied \cup {a} \in SUBSET Attempt /\ m.recording \ {a} \in SUBSET Attempt
          /\ m.acknowledging \cup {a} \in SUBSET Attempt
      BY <2>2 DEF Page
    <3>2. PICK v1 \in SUBSET Attempt : v1 = m.applied \cup {a}
      BY <3>1
    <3>3. PICK v2 \in SUBSET Attempt : v2 = m.recording \ {a}
      BY <3>1
    <3>4. PICK v3 \in SUBSET Attempt : v3 = m.acknowledging \cup {a}
      BY <3>1
    <3>5. q = [m EXCEPT !.applied = v1, !.recording = v2, !.acknowledging = v3]
      BY <2>3, <3>2, <3>3, <3>4
    <3> QED
      BY <2>2, <3>2, <3>3, <3>4, <3>5 DEF Page
  <2>5. /\ Moved(o, n, a) /\ n.seen \in {Kept(o.seen, a), Kept(o.seen, a) \cup {a}}
        /\ n.applied \cup {a} = Kept(o.applied, a) \cup {a}
        /\ n.recording \ {a} = Kept(o.recording, a) \ {a} /\ n.acknowledging = Kept(o.acknowledging, a)
    BY <1>6, <1>10, <2>1 DEF Accepted, Retargeted
  <2>6. q.applied = Kept(o.applied, a) \cup {a}
    BY <2>2, <2>4, <2>5
  <2>7. q.recording = Kept(o.recording, a) \ {a} /\ q.acknowledging = Kept(o.acknowledging, a) \cup {a}
    BY <2>2, <2>4, <2>5
  <2>8. q.applied = Completions(q) /\ q.recording \cap q.acknowledging = {}
    BY <1>4, <2>6, <2>7 DEF Coherent, Kept, Completions
  <2>9. Moved(o, q, a)
    BY <2>2, <2>4, <2>5 DEF Moved
  <2>10. Moved(p, q, a)
    BY <1>3, <2>9 DEF Moved, Purged
  <2>11. q.seen \in {Kept(p.seen, a), Kept(p.seen, a) \cup {a}} /\ q.applied = Kept(p.applied, a) \cup {a}
    BY <1>3, <2>2, <2>4, <2>5, <2>6 DEF Purged
  <2>12. Taken(p, q, a)
    BY <2>8, <2>10, <2>11 DEF Taken
  <2> QED
    BY <2>4, <2>12
<1> QED
  BY <1>9, <1>10

\* The attempt an answer names is the one of its request.
LEMMA StandingIsTheOne ==
  ASSUME NEW s, NEW a \in Attempt, NEW state, Stands(s, a, state)
  PROVE  /\ AttemptOf(s, a.id) = a /\ a.id \in Requests /\ s[a.id].state = state
         /\ \A r \in Requests : AttemptOf(s, r).id = r
         /\ \A other : \A b \in Attempt : Stands(s, b, other) /\ b.id = a.id => b = a
BY DEF Attempt, Stands, AttemptOf

LEMMA TakenWorks ==
  ASSUME NEW s \in Shell, NEW p \in Page, NEW a \in Attempt, NEW q, Taken(p, q, a),
         NEW given, NEW ever, Works(s, p, given, ever), NEW state, Stands(s, a, state),
         a.id \in ever
  PROVE  Works(s, q, given, ever)
<1>1. /\ AttemptOf(s, a.id) = a /\ a.id \in Requests
      /\ \A r \in Requests : AttemptOf(s, r).id = r
      /\ p.current \in [Requests -> 0 .. MaxToken]
      /\ p.seen \in SUBSET Attempt /\ p.applied \in SUBSET Attempt
  BY StandingIsTheOne DEF Page
<1>2. Coherent(p)
  BY DEF Works
<1>3. Coherent(q)
  <2>1. \A b \in q.seen \cup q.applied : IsCurrent(q, b)
    <3>1. ASSUME NEW b \in q.seen \cup q.applied
          PROVE  b = a \/ (b \in p.seen \cup p.applied /\ b.id # a.id)
      BY DEF Taken, Kept
    <3> QED
      BY <1>1, <1>2, <3>1 DEF Coherent, Taken, Moved, IsCurrent, Attempt
  <2> QED
    BY <1>2, <2>1 DEF Coherent, Taken, Moved
<1>4. Past(s, q)
  BY <1>1 DEF Works, Past, Taken, Moved, Stands, Shell, Attempt
<1>5. Held(s, q, given)
  <2>1. ASSUME NEW r \in Requests, s[r].state = "processing", AttemptOf(s, r) \in q.seen
        PROVE  AttemptOf(s, r) \in Positions(q) \cup q.applied \cup q.abandoning \cup given
    <3>1. CASE r = a.id
      BY <1>1, <3>1 DEF Taken
    <3>2. CASE r # a.id
      <4>1. AttemptOf(s, r) \in p.seen /\ AttemptOf(s, r).id # a.id
        BY <1>1, <2>1, <3>2 DEF Taken, Kept
      <4>2. AttemptOf(s, r) \in Positions(p) \cup p.applied \cup p.abandoning \cup given
        BY <2>1, <4>1 DEF Works, Held
      <4> QED
        BY <4>1, <4>2 DEF Taken, Moved, Kept, Positions
    <3> QED
      BY <3>1, <3>2
  <2> QED
    BY <2>1 DEF Held
<1>6. Earned(q, ever)
  BY DEF Works, Earned, Taken, Kept
<1> QED
  BY <1>3, <1>4, <1>5, <1>6 DEF Works

\* An adopted attempt did not wait yet, and it is not being given back.
LEMMA TakenFresh ==
  ASSUME NEW s \in Shell, NEW p \in Page, NEW a \in Attempt, NEW q \in Page, Taken(p, q, a),
         NEW given \in SUBSET Attempt, NEW ever, Works(s, p, given, ever),
         NEW now, Fresh(s, p, given, now),
         Stands(s, a, "applied") \/ (Stands(s, a, "processing") /\ a \notin p.seen)
  PROVE  Fresh(s, q, given, now)
<1>1. /\ AttemptOf(s, a.id) = a /\ a.id \in Requests
      /\ \A r \in Requests : AttemptOf(s, r).id = r
      /\ \A other : \A b \in Attempt : Stands(s, b, other) /\ b.id = a.id => b = a
      /\ p.queue \in Seq(Attempt) /\ q.queue \in Seq(Attempt) /\ p.pending \in AnyAttempt
      /\ p.active \in AnyAttempt /\ p.abandoning \in SUBSET Attempt
      /\ p.seen \in SUBSET Attempt /\ p.applied \in SUBSET Attempt
  BY StandingIsTheOne DEF Page
<1>2. Positions(p) \in SUBSET Attempt /\ Positions(q) \in SUBSET Positions(p)
  <2>1. ToSet(p.queue) \in SUBSET Attempt
    BY <1>1, ElementsTyped
  <2>2. p.opening => p.active \in Attempt
    BY <1>1 DEF Works, Coherent, AnyAttempt
  <2>3. p.pending # NoAttempt => p.pending \in Attempt
    BY <1>1 DEF AnyAttempt
  <2> QED
    BY <2>1, <2>2, <2>3 DEF Positions, Taken, Moved
<1>3. ASSUME NEW b \in Positions(p)
      PROVE  b.id # a.id /\ Stands(s, b, "processing") /\ b \in p.seen
  <2>1. Stands(s, b, "processing") /\ b \in p.seen /\ b \in Attempt
    BY <1>2 DEF Fresh
  <2>2. b.id = a.id => b = a
    BY <1>1, <2>1
  <2> QED
    BY <2>1, <2>2 DEF Stands
<1>4. /\ a \notin p.abandoning \cup given
      /\ \A b \in q.abandoning \cup given :
           b \in p.abandoning \cup given /\ b \in Attempt
  <2>1. a \notin p.abandoning \cup given
    BY <1>1 DEF Fresh, Stands
  <2> QED
    BY <1>1, <2>1 DEF Taken, Moved
<1>5. ASSUME NEW b \in Positions(q)
      PROVE  /\ Stands(s, b, "processing") /\ now[b.id] = 0
             /\ b \in q.seen /\ b \notin q.applied /\ b \notin q.abandoning \cup given
  <2>1. b \in Positions(p) /\ b.id # a.id /\ Stands(s, b, "processing") /\ b \in p.seen
    BY <1>2, <1>3
  <2>2. now[b.id] = 0 /\ b \notin p.applied /\ b \notin p.abandoning \cup given
    BY <2>1 DEF Fresh
  <2> QED
    BY <1>4, <2>1, <2>2 DEF Taken, Kept
<1>6. /\ IsInjective(q.queue)
      /\ q.pending \notin ToSet(q.queue) /\ (q.opening => q.active \notin ToSet(q.queue))
  <2>1. NoAttempt \notin ToSet(q.queue)
    BY <1>1, AttemptsAreSome
  <2> QED
    BY <2>1 DEF Fresh, Taken, Moved
<1>7. \A r \in Requests : now[r] > 0 => s[r].state = "done" \/ \E b \in q.applied : b.id = r
  <2>1. ASSUME NEW r \in Requests, now[r] > 0, s[r].state # "done"
        PROVE  \E b \in q.applied : b.id = r
    <3>1. PICK b \in p.applied : b.id = r
      BY <2>1 DEF Fresh
    <3>2. a \in q.applied /\ (b.id # a.id => b \in q.applied)
      BY DEF Taken, Kept
    <3> QED
      BY <3>1, <3>2
  <2> QED
    BY <2>1
<1>8. (q.abandoning \cup given) \cap q.applied = {}
  BY <1>4 DEF Fresh, Taken, Kept
<1>9. ASSUME NEW b \in q.abandoning \cup given
      PROVE  b.token <= s[b.id].token /\ (Stands(s, b, "processing") => b \in q.seen)
  <2>1. b \in p.abandoning \cup given /\ b \in Attempt
    BY <1>4
  <2>2. b.token <= s[b.id].token /\ (Stands(s, b, "processing") => b \in p.seen)
    BY <2>1 DEF Fresh
  <2>3. Stands(s, b, "processing") => b.id # a.id
    BY <1>1, <1>4, <2>1
  <2> QED
    BY <2>2, <2>3 DEF Taken, Kept
<1>10. ASSUME NEW r \in Requests, s[r].state \in {"applied", "done"}
       PROVE  /\ AttemptOf(s, r) \notin q.abandoning \cup given
              /\ AttemptOf(s, r) \in q.seen => AttemptOf(s, r) \in q.applied
  <2>1. /\ AttemptOf(s, r) \notin p.abandoning \cup given
        /\ AttemptOf(s, r) \in p.seen => AttemptOf(s, r) \in p.applied
    BY <1>10 DEF Fresh
  <2> QED
    BY <1>4, <2>1 DEF Taken, Kept
<1> QED
  BY <1>5, <1>6, <1>7, <1>8, <1>9, <1>10 DEF Fresh

LEMMA QueuedWorks ==
  ASSUME NEW s \in Shell, NEW p \in Page, NEW a \in Attempt, NEW q, Queued(p, q, a),
         NEW given, NEW ever, Works(s, p, given, ever), NEW state, Stands(s, a, state)
  PROVE  Works(s, q, given, ever)
<1>1. /\ AttemptOf(s, a.id) = a /\ a.id \in Requests
      /\ \A r \in Requests : AttemptOf(s, r).id = r
      /\ p.current \in [Requests -> 0 .. MaxToken]
      /\ p.seen \in SUBSET Attempt /\ p.applied \in SUBSET Attempt
  BY StandingIsTheOne DEF Page
<1>2. Coherent(p)
  BY DEF Works
<1>3. Coherent(q)
  <2>1. \A b \in q.seen \cup q.applied : IsCurrent(q, b)
    <3>1. ASSUME NEW b \in q.seen \cup q.applied
          PROVE  b = a \/ (b \in p.seen \cup p.applied /\ b.id # a.id)
      BY DEF Queued, Kept
    <3> QED
      BY <1>1, <1>2, <3>1 DEF Coherent, Queued, IsCurrent, Attempt
  <2>2. q.applied = Completions(q) /\ q.recording \cap q.acknowledging = {}
    BY <1>2 DEF Coherent, Queued, Kept, Completions
  <2> QED
    BY <1>2, <2>1, <2>2 DEF Coherent, Queued
<1>4. Past(s, q)
  BY <1>1 DEF Works, Past, Queued, Stands, Shell, Attempt
<1>5. Held(s, q, given)
  <2>1. ASSUME NEW r \in Requests, s[r].state = "processing", AttemptOf(s, r) \in q.seen
        PROVE  AttemptOf(s, r) \in Positions(q) \cup q.applied \cup q.abandoning \cup given
    <3>1. CASE r = a.id
      BY <1>1, <3>1 DEF Queued, Positions
    <3>2. CASE r # a.id
      <4>1. AttemptOf(s, r) \in p.seen /\ AttemptOf(s, r).id # a.id
        BY <1>1, <2>1, <3>2 DEF Queued, Kept
      <4>2. AttemptOf(s, r) \in Positions(p) \cup p.applied \cup p.abandoning \cup given
        BY <2>1, <4>1 DEF Works, Held
      <4> QED
        BY <4>1, <4>2 DEF Queued, Positions
    <3> QED
      BY <3>1, <3>2
  <2> QED
    BY <2>1 DEF Held
<1>6. Earned(q, ever)
  BY DEF Works, Earned, Queued
<1> QED
  BY <1>3, <1>4, <1>5, <1>6 DEF Works

LEMMA QueuedFresh ==
  ASSUME NEW s \in Shell, NEW p \in Page, NEW a \in Attempt, NEW q \in Page, Queued(p, q, a),
         NEW given \in SUBSET Attempt, NEW ever, Works(s, p, given, ever),
         NEW now \in [Requests -> Nat], Fresh(s, p, given, now),
         Stands(s, a, "processing"), a \notin p.seen \cup p.applied
  PROVE  Fresh(s, q, given, now)
<1>1. /\ AttemptOf(s, a.id) = a /\ a.id \in Requests /\ s[a.id].state = "processing"
      /\ \A r \in Requests : AttemptOf(s, r).id = r
      /\ \A other : \A b \in Attempt : Stands(s, b, other) /\ b.id = a.id => b = a
      /\ p.queue \in Seq(Attempt) /\ q.queue \in Seq(Attempt) /\ p.pending \in AnyAttempt
      /\ p.active \in AnyAttempt /\ p.abandoning \in SUBSET Attempt
      /\ p.seen \in SUBSET Attempt /\ p.applied \in SUBSET Attempt
  BY StandingIsTheOne DEF Page
<1>2. Positions(p) \in SUBSET Attempt /\ Positions(q) \in SUBSET (Positions(p) \cup {a})
  <2>1. ToSet(p.queue) \in SUBSET Attempt
    BY <1>1, ElementsTyped
  <2>2. p.opening => p.active \in Attempt
    BY <1>1 DEF Works, Coherent, AnyAttempt
  <2>3. p.pending # NoAttempt => p.pending \in Attempt
    BY <1>1 DEF AnyAttempt
  <2> QED
    BY <2>1, <2>2, <2>3 DEF Positions, Queued
<1>3. ASSUME NEW b \in Positions(p)
      PROVE  b.id # a.id /\ Stands(s, b, "processing") /\ b \in p.seen
  <2>1. Stands(s, b, "processing") /\ b \in p.seen /\ b \in Attempt
    BY <1>2 DEF Fresh
  <2>2. b.id = a.id => b = a
    BY <1>1, <2>1
  <2> QED
    BY <2>1, <2>2
<1>4. /\ a \notin p.abandoning \cup given
      /\ \A b \in q.abandoning \cup given :
           b \in p.abandoning \cup given /\ b \in Attempt
  <2>1. a \notin p.abandoning \cup given
    BY DEF Fresh
  <2> QED
    BY <1>1, <2>1 DEF Queued

\* None was opened: it would be applied, and the attempt would have been retargeted.
<1>5. now[a.id] = 0
  <2>1. ASSUME now[a.id] > 0
        PROVE  FALSE
    <3>1. PICK b \in p.applied : b.id = a.id
      BY <1>1, <2>1 DEF Fresh
    <3> QED
      BY <3>1 DEF Queued, Kept
  <2>2. now[a.id] \in Nat
    BY <1>1
  <2> QED
    BY <2>1, <2>2
<1>6. ASSUME NEW b \in Positions(q)
      PROVE  /\ Stands(s, b, "processing") /\ now[b.id] = 0
             /\ b \in q.seen /\ b \notin q.applied /\ b \notin q.abandoning \cup given
  <2>1. CASE b # a
    <3>1. b \in Positions(p) /\ b.id # a.id /\ Stands(s, b, "processing") /\ b \in p.seen
      BY <1>2, <1>3, <2>1
    <3>2. now[b.id] = 0 /\ b \notin p.applied /\ b \notin p.abandoning \cup given
      BY <3>1 DEF Fresh
    <3> QED
      BY <1>4, <3>1, <3>2 DEF Queued, Kept
  <2>2. CASE b = a
    BY <1>4, <1>5, <2>2 DEF Queued
  <2> QED
    BY <2>1, <2>2
<1>7. /\ IsInjective(q.queue)
      /\ q.pending \notin ToSet(q.queue) /\ (q.opening => q.active \notin ToSet(q.queue))
  <2>1. NoAttempt \notin ToSet(q.queue)
    BY <1>1, AttemptsAreSome
  <2>2. a \notin ToSet(p.queue) /\ (p.opening => p.active # a)
        /\ (p.pending # NoAttempt => p.pending # a)
    BY <1>3 DEF Positions
  <2> QED
    BY <2>1, <2>2 DEF Fresh, Queued
<1>8. \A r \in Requests : now[r] > 0 => s[r].state = "done" \/ \E b \in q.applied : b.id = r
  BY DEF Fresh, Queued
<1>9. (q.abandoning \cup given) \cap q.applied = {}
  BY <1>4 DEF Fresh, Queued
<1>10. ASSUME NEW b \in q.abandoning \cup given
       PROVE  b.token <= s[b.id].token /\ (Stands(s, b, "processing") => b \in q.seen)
  <2>1. b \in p.abandoning \cup given /\ b \in Attempt
    BY <1>4
  <2>2. b.token <= s[b.id].token /\ (Stands(s, b, "processing") => b \in p.seen)
    BY <2>1 DEF Fresh
  <2>3. Stands(s, b, "processing") => b.id # a.id
    BY <1>1, <1>4, <2>1
  <2> QED
    BY <2>2, <2>3 DEF Queued, Kept
<1>11. ASSUME NEW r \in Requests, s[r].state \in {"applied", "done"}
       PROVE  /\ AttemptOf(s, r) \notin q.abandoning \cup given
              /\ AttemptOf(s, r) \in q.seen => AttemptOf(s, r) \in q.applied
  <2>1. /\ AttemptOf(s, r) \notin p.abandoning \cup given
        /\ AttemptOf(s, r) \in p.seen => AttemptOf(s, r) \in p.applied
    BY <1>11 DEF Fresh
  <2>2. AttemptOf(s, r) # a
    BY <1>1, <1>11
  <2> QED
    BY <1>4, <2>1, <2>2 DEF Queued, Kept
<1> QED
  BY <1>6, <1>7, <1>8, <1>9, <1>10, <1>11 DEF Fresh

LEMMA PurgedKeeps ==
  ASSUME NEW s \in Shell, NEW p \in Page, NEW a \in Attempt, NEW q, Purged(p, q, a), NEW given,
         Stands(s, a, "applied")
  PROVE  /\ \A ever : Works(s, p, given, ever) => Works(s, q, given, ever)
         /\ \A now : Fresh(s, p, given, now) => Fresh(s, q, given, now)
<1>1. q.abandoning \in SUBSET p.abandoning /\ Positions(q) = Positions(p)
  BY DEF Purged, Positions
<1>2. ASSUME NEW ever, Works(s, p, given, ever)
      PROVE  Works(s, q, given, ever)
  <2>1. Coherent(q) /\ Past(s, q) /\ Earned(q, ever)
    BY <1>2 DEF Works, Coherent, Past, Earned, Purged, IsCurrent, Completions
  <2>2. Held(s, q, given)
    <3>1. ASSUME NEW r \in Requests, s[r].state = "processing", AttemptOf(s, r) \in q.seen
          PROVE  AttemptOf(s, r) \in Positions(q) \cup q.applied \cup q.abandoning \cup given
      <4>1. AttemptOf(s, r) \in Positions(p) \cup p.applied \cup p.abandoning \cup given
        BY <1>2, <3>1 DEF Works, Held, Purged
      <4>2. AttemptOf(s, r).id # a.id
        BY <3>1 DEF AttemptOf, Stands
      <4> QED
        BY <1>1, <4>1, <4>2 DEF Purged
    <3> QED
      BY <3>1 DEF Held
  <2> QED
    BY <2>1, <2>2 DEF Works
<1>3. ASSUME NEW now, Fresh(s, p, given, now)
      PROVE  Fresh(s, q, given, now)
  BY <1>1, <1>3 DEF Fresh, Purged
<1> QED
  BY <1>2, <1>3

\* The adoption of a claimed attempt, for any first or later component of the page.
LEMMA ClaimKeeps ==
  ASSUME NEW s \in Shell, NEW p \in Page, NEW a \in Attempt, NEW q, q = AdoptClaimed(a, p),
         NEW given \in SUBSET Attempt, NEW ever, Works(s, p, given, ever), Stands(s, a, "processing")
  PROVE  /\ q \in Page /\ Works(s, q, given, ever) /\ q.active = p.active /\ q.opening = p.opening
         /\ \A now \in [Requests -> Nat] : Fresh(s, p, given, now) => Fresh(s, q, given, now)
<1>1. Coherent(p)
  BY DEF Works
<1>2. /\ q \in Page /\ q.active = p.active /\ q.opening = p.opening
      /\ \/ Alike(p, q)
         \/ a \notin p.seen \cup p.applied /\ Queued(p, q, a)
         \/ /\ a \notin p.seen \cup p.applied /\ Taken(p, q, a)
            /\ \E old \in p.applied : old.id = a.id
  BY <1>1, ClaimIs
<1>3. CASE Alike(p, q)
  BY <1>2, <1>3, AlikeWorks
<1>4. CASE a \notin p.seen \cup p.applied /\ Queued(p, q, a)
  <2>1. Works(s, q, given, ever)
    BY <1>4, QueuedWorks
  <2>2. \A now \in [Requests -> Nat] : Fresh(s, p, given, now) => Fresh(s, q, given, now)
    BY <1>2, <1>4, QueuedFresh
  <2> QED
    BY <1>2, <2>1, <2>2
<1>5. CASE /\ a \notin p.seen \cup p.applied /\ Taken(p, q, a)
           /\ \E old \in p.applied : old.id = a.id
  <2>1. a.id \in ever
    BY <1>5 DEF Works, Earned
  <2>2. Works(s, q, given, ever)
    BY <1>5, <2>1, TakenWorks
  <2>3. \A now \in [Requests -> Nat] : Fresh(s, p, given, now) => Fresh(s, q, given, now)
    BY <1>2, <1>5, TakenFresh
  <2> QED
    BY <1>2, <2>2, <2>3
<1> QED
  BY <1>2, <1>3, <1>4, <1>5

LEMMA RecoveredKeeps ==
  ASSUME NEW s \in Shell, NEW p \in Page, NEW a \in Attempt, NEW q, q = AdoptRecovered(a, p),
         NEW given \in SUBSET Attempt, NEW ever, Works(s, p, given, ever), Stands(s, a, "applied"),
         a.id \in ever
  PROVE  /\ q \in Page /\ Works(s, q, given, ever) /\ q.active = p.active /\ q.opening = p.opening
         /\ \A now \in [Requests -> Nat] : Fresh(s, p, given, now) => Fresh(s, q, given, now)
<1>1. Coherent(p)
  BY DEF Works
<1>2. q \in Page /\ (Purged(p, q, a) \/ Taken(p, q, a))
  BY <1>1, RecoveredIs
<1>3. q.active = p.active /\ q.opening = p.opening
  BY <1>2 DEF Purged, Taken, Moved
<1>4. CASE Purged(p, q, a)
  BY <1>2, <1>3, <1>4, PurgedKeeps
<1>5. CASE Taken(p, q, a)
  <2>1. Works(s, q, given, ever)
    BY <1>5, TakenWorks
  <2>2. \A now \in [Requests -> Nat] : Fresh(s, p, given, now) => Fresh(s, q, given, now)
    BY <1>2, <1>5, TakenFresh
  <2> QED
    BY <1>2, <1>3, <2>1, <2>2
<1> QED
  BY <1>2, <1>4, <1>5

\* What the runtime is while an answer is adopted, with m for the component.
InHand(s, given, ever, now, m, active, opening) ==
  {q \in Page : /\ Works(s, q, given, ever) /\ (First(m) => Fresh(s, q, given, now))
                /\ q.active = active /\ q.opening = opening}

LEMMA ClaimIsAdopted ==
  ASSUME NEW s \in Shell, NEW p \in Page, NEW data \in SUBSET Attempt, IsFiniteSet(data),
         \A a \in data : Stands(s, a, "processing"),
         NEW given \in SUBSET Attempt, NEW ever, Works(s, p, given, ever),
         NEW now \in [Requests -> Nat], NEW m, First(m) => Fresh(s, p, given, now),
         NEW q, q = AdoptClaim(p, data)
  PROVE  /\ q \in Page /\ Works(s, q, given, ever) /\ (First(m) => Fresh(s, q, given, now))
         /\ q.active = p.active /\ q.opening = p.opening
<1>1. PICK v : v = [r \in Requests |-> IF [id |-> r, token |-> p.terminal[r]] \in data
                                       THEN p.terminal[r] ELSE 0]
  OBVIOUS
<1>2. v \in [Requests -> 0 .. MaxToken]
  BY <1>1, ConsumerAssumption DEF Page
<1>3. PICK o : o = [p EXCEPT !.terminal = v]
  OBVIOUS
<1>4. o \in Page /\ Alike(p, o)
  BY <1>2, <1>3 DEF Page, Alike
<1>5. PICK Good : Good = InHand(s, given, ever, now, m, p.active, p.opening)
  OBVIOUS
<1>6. o \in Good
  BY <1>4, <1>5, AlikeWorks DEF InHand, Alike
<1>7. ClaimingKeeps(data, Good)
  <2>1. ASSUME NEW a \in data, NEW n \in Good
        PROVE  AdoptClaimed(a, n) \in Good
    <3>1. PICK k : k = AdoptClaimed(a, n)
      OBVIOUS
    <3>2. n \in Page /\ Works(s, n, given, ever) /\ (First(m) => Fresh(s, n, given, now))
          /\ n.active = p.active /\ n.opening = p.opening /\ a \in Attempt
      BY <1>5 DEF InHand
    <3>3. /\ k \in Page /\ Works(s, k, given, ever) /\ k.active = n.active /\ k.opening = n.opening
          /\ Fresh(s, n, given, now) => Fresh(s, k, given, now)
      BY <3>1, <3>2, ClaimKeeps
    <3> QED
      BY <1>5, <3>1, <3>2, <3>3 DEF InHand
  <2> QED
    BY <2>1 DEF ClaimingKeeps
<1>8. PICK n : n = FoldSet(AdoptClaimed, o, data)
  OBVIOUS
<1>9. n \in Good
  BY <1>6, <1>7, <1>8, ClaimsKeep
<1>10. q = Notified(n)
  BY <1>1, <1>3, <1>8 DEF AdoptClaim
<1>11. /\ n \in Page /\ Works(s, n, given, ever) /\ (First(m) => Fresh(s, n, given, now))
       /\ n.active = p.active /\ n.opening = p.opening
  BY <1>5, <1>9 DEF InHand
<1>12. q \in Page /\ Alike(n, q)
  BY <1>10, <1>11 DEF Page, Notified, Alike
<1> QED
  BY <1>11, <1>12, AlikeWorks DEF Alike

LEMMA RecoveryIsAdopted ==
  ASSUME NEW s \in Shell, NEW p \in Page, NEW data \in SUBSET Attempt, IsFiniteSet(data),
         \A a \in data : Stands(s, a, "applied"),
         NEW given \in SUBSET Attempt, NEW ever, Works(s, p, given, ever), Opened(s, ever),
         NEW now \in [Requests -> Nat], NEW m, First(m) => Fresh(s, p, given, now),
         NEW q, q = Notified(FoldSet(AdoptRecovered, p, data))
  PROVE  /\ q \in Page /\ Works(s, q, given, ever) /\ (First(m) => Fresh(s, q, given, now))
         /\ q.active = p.active /\ q.opening = p.opening
<1>1. PICK Good : Good = InHand(s, given, ever, now, m, p.active, p.opening)
  OBVIOUS
<1>2. p \in Good
  BY <1>1 DEF InHand
<1>3. RecoveringKeeps(data, Good)
  <2>1. ASSUME NEW a \in data, NEW n \in Good
        PROVE  AdoptRecovered(a, n) \in Good
    <3>1. PICK k : k = AdoptRecovered(a, n)
      OBVIOUS
    <3>2. n \in Page /\ Works(s, n, given, ever) /\ (First(m) => Fresh(s, n, given, now))
          /\ n.active = p.active /\ n.opening = p.opening /\ a \in Attempt
      BY <1>1 DEF InHand
    <3>3. a.id \in ever
      BY <3>2 DEF Opened, Stands, Attempt
    <3>4. /\ k \in Page /\ Works(s, k, given, ever) /\ k.active = n.active /\ k.opening = n.opening
          /\ Fresh(s, n, given, now) => Fresh(s, k, given, now)
      BY <3>1, <3>2, <3>3, RecoveredKeeps
    <3> QED
      BY <1>1, <3>1, <3>2, <3>4 DEF InHand
  <2> QED
    BY <2>1 DEF RecoveringKeeps
<1>4. PICK n : n = FoldSet(AdoptRecovered, p, data)
  OBVIOUS
<1>5. n \in Good
  BY <1>2, <1>3, <1>4, RecoveryKeeps
<1>6. /\ n \in Page /\ Works(s, n, given, ever) /\ (First(m) => Fresh(s, n, given, now))
      /\ n.active = p.active /\ n.opening = p.opening
  BY <1>1, <1>5 DEF InHand
<1>7. q \in Page /\ Alike(n, q)
  BY <1>4, <1>6 DEF Page, Notified, Alike
<1> QED
  BY <1>6, <1>7, AlikeWorks DEF Alike

\* What is left of an attempt that is acknowledged or given back.
Cleaned(p, q, a) ==
  /\ q.current = IF IsCurrent(p, a) THEN [p.current EXCEPT ![a.id] = 0] ELSE p.current
  /\ q.active = p.active /\ q.opening = p.opening
  /\ ToSet(q.queue) \in SUBSET ToSet(p.queue)
  /\ IsInjective(p.queue) => IsInjective(q.queue)
  /\ \A b \in ToSet(p.queue) : b.id # a.id \/ ~IsCurrent(p, a) => b \in ToSet(q.queue)
  /\ q.pending = p.pending \/ (q.pending = NoAttempt /\ p.pending.id = a.id /\ IsCurrent(p, a))
  /\ q.seen = p.seen \ {a} /\ q.applied = p.applied \ {a} /\ q.recording = p.recording \ {a}
  /\ q.acknowledging = p.acknowledging \ {a} /\ q.abandoning = p.abandoning \ {a}

LEMMA CleanupIs ==
  ASSUME NEW p \in Page, NEW a \in Attempt, NEW q, q = CleanupTerminal(p, a)
  PROVE  q \in Page /\ Cleaned(p, q, a)
<1>1. PICK gone : gone = [WithoutCompletion(p, a) EXCEPT
                            !.terminal[a.id] = a.token, !.abandoning = @ \ {a},
                            !.applied = @ \ {a}, !.seen = @ \ {a}]
  OBVIOUS
<1>2. /\ p.terminal \in [Requests -> 0 .. MaxToken] /\ p.current \in [Requests -> 0 .. MaxToken]
      /\ p.abandoning \in SUBSET Attempt /\ p.applied \in SUBSET Attempt
      /\ p.seen \in SUBSET Attempt /\ p.recording \in SUBSET Attempt
      /\ p.acknowledging \in SUBSET Attempt
  BY DEF Page
<1>3. PICK v \in [Requests -> 0 .. MaxToken] : v = [p.terminal EXCEPT ![a.id] = a.token]
  BY <1>2, TokensTyped
<1>4. gone = [p EXCEPT !.recording = p.recording \ {a}, !.acknowledging = p.acknowledging \ {a},
                       !.terminal = v, !.abandoning = p.abandoning \ {a},
                       !.applied = p.applied \ {a}, !.seen = p.seen \ {a}]
  BY <1>1, <1>3 DEF WithoutCompletion, Page
<1>5. /\ gone \in Page /\ gone.current = p.current /\ gone.active = p.active
      /\ gone.opening = p.opening /\ gone.queue = p.queue /\ gone.pending = p.pending
      /\ gone.seen = p.seen \ {a} /\ gone.applied = p.applied \ {a}
      /\ gone.recording = p.recording \ {a} /\ gone.acknowledging = p.acknowledging \ {a}
      /\ gone.abandoning = p.abandoning \ {a}
  BY <1>2, <1>3, <1>4 DEF Page
<1>6. PICK w \in [Requests -> 0 .. MaxToken] : w = [p.current EXCEPT ![a.id] = 0]
  BY <1>2, TokensTyped
<1>7. PICK m : m = [gone EXCEPT !.current = w]
  OBVIOUS
<1>8. /\ m \in Page /\ m.current = w /\ m.active = p.active
      /\ m.opening = p.opening /\ m.queue = p.queue /\ m.pending = p.pending
      /\ m.seen = p.seen \ {a} /\ m.applied = p.applied \ {a}
      /\ m.recording = p.recording \ {a} /\ m.acknowledging = p.acknowledging \ {a}
      /\ m.abandoning = p.abandoning \ {a}
  BY <1>5, <1>6, <1>7 DEF Page
<1>9. q = IF IsCurrent(p, a) THEN RemoveLocalRequest(m, a.id) ELSE Notified(gone)
  <2>1. m = [gone EXCEPT !.current[a.id] = 0]
    BY <1>5, <1>6, <1>7
  <2> QED
    BY <1>1, <2>1 DEF CleanupTerminal
<1>10. CASE IsCurrent(p, a)
  <2>1. q = RemoveLocalRequest(m, a.id)
    BY <1>9, <1>10
  <2>2. /\ q \in Page /\ q.current = m.current /\ q.active = m.active /\ q.opening = m.opening
        /\ q.applied = m.applied /\ q.seen = m.seen /\ q.recording = m.recording
        /\ q.acknowledging = m.acknowledging /\ q.abandoning = m.abandoning
        /\ ToSet(q.queue) = {b \in ToSet(m.queue) : b.id # a.id}
        /\ IsInjective(m.queue) => IsInjective(q.queue)
        /\ q.pending = IF m.pending # NoAttempt /\ m.pending.id = a.id THEN NoAttempt ELSE m.pending
    BY <1>8, <2>1, RemovalDrops
  <2> QED
    BY <1>6, <1>8, <1>10, <2>2 DEF Cleaned
<1>11. CASE ~IsCurrent(p, a)
  <2>1. q \in Page /\ Alike(gone, q)
    BY <1>5, <1>9, <1>11 DEF Page, Notified, Alike
  <2> QED
    BY <1>5, <1>11, <2>1 DEF Cleaned, Alike
<1> QED
  BY <1>10, <1>11

LEMMA CleanedWorks ==
  ASSUME NEW s \in Shell, NEW p \in Page, NEW a \in Attempt, NEW q, Cleaned(p, q, a),
         NEW given, NEW left, \A b \in given : b = a \/ b \in left,
         NEW ever, Works(s, p, given, ever)
  PROVE  Works(s, q, left, ever)
<1>1. /\ p.current \in [Requests -> 0 .. MaxToken] /\ a.id \in Requests
      /\ p.seen \in SUBSET Attempt /\ p.applied \in SUBSET Attempt
  BY DEF Page, Attempt
<1>2. Coherent(p)
  BY DEF Works
<1>3. Coherent(q)
  <2>1. ASSUME NEW b \in q.seen \cup q.applied
        PROVE  IsCurrent(q, b)
    <3>1. b \in p.seen \cup p.applied /\ b # a /\ b \in Attempt
      BY <1>1 DEF Cleaned
    <3>2. IsCurrent(p, b)
      BY <1>2, <3>1 DEF Coherent
    <3>3. b.id = a.id => ~IsCurrent(p, a)
      BY <3>1, <3>2 DEF IsCurrent, Attempt
    <3> QED
      BY <1>1, <3>1, <3>2, <3>3 DEF Cleaned, IsCurrent, Attempt
  <2>2. q.applied = Completions(q) /\ q.recording \cap q.acknowledging = {}
    BY <1>2 DEF Coherent, Cleaned, Completions
  <2> QED
    BY <1>2, <2>1, <2>2 DEF Coherent, Cleaned
<1>4. Past(s, q)
  <2>1. \A r \in Requests : p.current[r] <= s[r].token /\ s[r].token \in Nat
    BY DEF Works, Past, Shell
  <2> QED
    BY <1>1, <2>1 DEF Past, Cleaned
<1>5. Held(s, q, left)
  <2>1. ASSUME NEW r \in Requests, s[r].state = "processing", AttemptOf(s, r) \in q.seen
        PROVE  AttemptOf(s, r) \in Positions(q) \cup q.applied \cup q.abandoning \cup left
    <3>1. PICK b : b = AttemptOf(s, r)
      OBVIOUS
    <3>2. b \in p.seen /\ b # a /\ b \in Attempt
      BY <1>1, <2>1, <3>1 DEF Cleaned
    <3>3. b \in Positions(p) \cup p.applied \cup p.abandoning \cup given
      BY <2>1, <3>1, <3>2 DEF Works, Held
    <3>4. IsCurrent(p, b)
      BY <1>2, <3>2 DEF Coherent
    <3>5. b.id # a.id \/ ~IsCurrent(p, a)
      BY <3>2, <3>4 DEF IsCurrent, Attempt
    <3>6. b \in Positions(p) => b \in Positions(q)
      BY <3>5 DEF Positions, Cleaned
    <3> QED
      BY <3>1, <3>2, <3>3, <3>6 DEF Cleaned
  <2> QED
    BY <2>1 DEF Held
<1>6. Earned(q, ever)
  BY DEF Works, Earned, Cleaned
<1> QED
  BY <1>3, <1>4, <1>5, <1>6 DEF Works

LEMMA CleanedFresh ==
  ASSUME NEW s \in Shell, NEW p \in Page, NEW a \in Attempt, NEW q \in Page, Cleaned(p, q, a),
         NEW given \in SUBSET Attempt, NEW left \in SUBSET given, NEW now, Fresh(s, p, given, now),
         ~Stands(s, a, "processing"), s[a.id].state = "done" \/ a \notin p.applied
  PROVE  Fresh(s, q, left, now)
<1>1. /\ q.abandoning \cup left \in SUBSET (p.abandoning \cup given)
      /\ q.applied \in SUBSET p.applied
      /\ q.queue \in Seq(Attempt)
  BY DEF Cleaned, Page
<1>2. Positions(q) \in SUBSET Positions(p)
  BY DEF Positions, Cleaned
<1>3. ASSUME NEW b \in Positions(q)
      PROVE  /\ Stands(s, b, "processing") /\ now[b.id] = 0
             /\ b \in q.seen /\ b \notin q.applied /\ b \notin q.abandoning \cup left
  <2>1. b \in Positions(p)
    BY <1>2
  <2>2. /\ Stands(s, b, "processing") /\ now[b.id] = 0
        /\ b \in p.seen /\ b \notin p.applied /\ b \notin p.abandoning \cup given
    BY <2>1 DEF Fresh
  <2>3. b # a
    BY <2>2
  <2> QED
    BY <1>1, <2>2, <2>3 DEF Cleaned
<1>4. /\ IsInjective(q.queue)
      /\ q.pending \notin ToSet(q.queue) /\ (q.opening => q.active \notin ToSet(q.queue))
  <2>1. NoAttempt \notin ToSet(q.queue)
    BY <1>1, AttemptsAreSome
  <2> QED
    BY <2>1 DEF Fresh, Cleaned
<1>5. ASSUME NEW r \in Requests, now[r] > 0, s[r].state # "done"
      PROVE  \E b \in q.applied : b.id = r
  <2>1. PICK b \in p.applied : b.id = r
    BY <1>5 DEF Fresh
  <2>2. b # a
    BY <1>5, <2>1
  <2> QED
    BY <2>1, <2>2 DEF Cleaned
<1>6. (q.abandoning \cup left) \cap q.applied = {}
  BY <1>1 DEF Fresh
<1>7. ASSUME NEW b \in q.abandoning \cup left
      PROVE  b.token <= s[b.id].token /\ (Stands(s, b, "processing") => b \in q.seen)
  <2>1. b \in p.abandoning \cup given
    BY <1>1
  <2>2. b.token <= s[b.id].token /\ (Stands(s, b, "processing") => b \in p.seen)
    BY <2>1 DEF Fresh
  <2>3. Stands(s, b, "processing") => b # a
    OBVIOUS
  <2> QED
    BY <2>2, <2>3 DEF Cleaned
<1>8. ASSUME NEW r \in Requests, s[r].state \in {"applied", "done"}
      PROVE  /\ AttemptOf(s, r) \notin q.abandoning \cup left
             /\ AttemptOf(s, r) \in q.seen => AttemptOf(s, r) \in q.applied
  <2>1. /\ AttemptOf(s, r) \notin p.abandoning \cup given
        /\ AttemptOf(s, r) \in p.seen => AttemptOf(s, r) \in p.applied
    BY <1>8 DEF Fresh
  <2> QED
    BY <1>1, <2>1 DEF Cleaned
<1> QED
  BY <1>3, <1>4, <1>5, <1>6, <1>7, <1>8 DEF Fresh

\* A completion that is dropped was none, or its attempt is not current any more.
LEMMA DroppedCompletions ==
  ASSUME NEW p \in Page, Coherent(p), NEW a \in Attempt, ~(a \in Completions(p) /\ IsCurrent(p, a))
  PROVE  WithoutCompletion(p, a) \in Page /\ Alike(p, WithoutCompletion(p, a))
<1>1. a \notin p.applied
  BY DEF Coherent
<1>2. p.recording \ {a} = p.recording /\ p.acknowledging \ {a} = p.acknowledging
  BY <1>1, CompletionsAreApplied
<1> QED
  BY <1>2 DEF WithoutCompletion, Page, Alike

-----------------------------------------------------------------------------
(* What a step of the shell leaves of the invariant.                       *)

Steps == {<<"absent", "queued">>, <<"processing", "applied">>, <<"applied", "done">>,
          <<"processing", "queued">>}
Stepped(s, r, to) == [s EXCEPT ![r] = [state |-> to, token |-> s[r].token]]

LEMMA ShellSteps ==
  ASSUME NEW s \in Shell, NEW r \in Requests, NEW to, <<s[r].state, to>> \in Steps,
         NEW z, z = Stepped(s, r, to),
         NEW p \in Page, Positions(p) \in SUBSET Attempt, NEW given \in SUBSET Attempt
  PROVE  /\ z \in Shell
         /\ \A ever : Works(s, p, given, ever) => Works(z, p, given, ever)
         /\ \A now :
              /\ Fresh(s, p, given, now)
              /\ s[r].state = "processing" /\ to = "applied" => AttemptOf(s, r) \in p.applied
              /\ s[r].state = "processing" /\ to = "queued" => AttemptOf(s, r) \in p.abandoning
              => Fresh(z, p, given, now)
<1>1. /\ \A o \in Requests : z[o].token = s[o].token /\ AttemptOf(z, o) = AttemptOf(s, o)
      /\ \A o \in Requests : o # r => z[o].state = s[o].state
      /\ z[r].state = to /\ to # "processing" /\ s[r].state # "done"
  BY DEF Shell, AttemptOf, Steps, Stepped
<1>2. z \in Shell
  BY DEF Shell, Steps, Stepped, Delivered
<1>3. ASSUME NEW ever, Works(s, p, given, ever)
      PROVE  Works(z, p, given, ever)
  <2>1. Past(z, p)
    BY <1>1, <1>3 DEF Works, Past
  <2>2. Held(z, p, given)
    BY <1>1, <1>3 DEF Works, Held
  <2> QED
    BY <1>3, <2>1, <2>2 DEF Works
<1>4. ASSUME NEW now, Fresh(s, p, given, now),
             s[r].state = "processing" /\ to = "applied" => AttemptOf(s, r) \in p.applied,
             s[r].state = "processing" /\ to = "queued" => AttemptOf(s, r) \in p.abandoning
      PROVE  Fresh(z, p, given, now)
  <2>1. ASSUME NEW b \in Positions(p)
        PROVE  Stands(z, b, "processing")
    <3>1. /\ Stands(s, b, "processing") /\ b \notin p.applied /\ b \notin p.abandoning
          /\ b \in Attempt
      BY <1>4 DEF Fresh
    <3>2. b.id = r => AttemptOf(s, r) = b /\ s[r].state = "processing"
      BY <3>1, StandingIsTheOne
    <3>3. b.id # r
      BY <1>4, <3>1, <3>2 DEF Steps
    <3> QED
      BY <1>1, <3>1, <3>3 DEF Stands, Attempt
  <2>2. \A o \in Requests : now[o] > 0 => z[o].state = "done" \/ \E b \in p.applied : b.id = o
    BY <1>1, <1>4 DEF Fresh
  <2>3. ASSUME NEW b \in p.abandoning \cup given
        PROVE  b.token <= z[b.id].token /\ (Stands(z, b, "processing") => b \in p.seen)
    <3>1. b.token <= s[b.id].token /\ (Stands(s, b, "processing") => b \in p.seen)
      BY <1>4 DEF Fresh
    <3>2. b.id \in Requests
      BY <1>4 DEF Page, Attempt
    <3> QED
      BY <1>1, <3>1, <3>2 DEF Stands
  <2>4. ASSUME NEW o \in Requests, z[o].state \in {"applied", "done"}
        PROVE  /\ AttemptOf(z, o) \notin p.abandoning \cup given
               /\ AttemptOf(z, o) \in p.seen => AttemptOf(z, o) \in p.applied
    <3>1. CASE s[o].state \in {"applied", "done"}
      BY <1>1, <1>4, <3>1 DEF Fresh
    <3>2. CASE s[o].state \notin {"applied", "done"}
      <4>1. AttemptOf(s, o) \in p.applied
        BY <1>1, <1>4, <2>4, <3>2 DEF Steps
      <4> QED
        BY <1>1, <1>4, <4>1 DEF Fresh
    <3> QED
      BY <3>1, <3>2
  <2> QED
    BY <1>4, <2>1, <2>2, <2>3, <2>4 DEF Fresh
<1> QED
  BY <1>2, <1>3, <1>4-----------------------------------------------------------------------------
(* The bridge: what it is to give back, and how it stays a chain.          *)

\* What waits behind the first operation to be given back.
Behind(b) == UNION {b[i].attempts : i \in {j \in 2 .. Len(b) : b[j].op = "abandon"}}

LEMMA GivingIs ==
  ASSUME NEW b \in Seq(Operations), NEW r
  PROVE  /\ r # Idle => Giving(b, r) = Behind(b) \cup (IF r.stage \in {"abandon", "late"} THEN r.todo ELSE {})
         /\ b # <<>> /\ b[1].op # "abandon" => Giving(b, Idle) = Behind(b)
         /\ b # <<>> /\ b[1].op = "abandon" => Giving(b, Idle) = Behind(b) \cup b[1].attempts
<1>1. Len(b) \in Nat /\ (b # <<>> => Len(b) > 0)
  OBVIOUS
<1>2. ASSUME r # Idle
      PROVE  Giving(b, r) = Behind(b) \cup (IF r.stage \in {"abandon", "late"} THEN r.todo ELSE {})
  <2>1. PICK from : from = IF r = Idle THEN 1 ELSE 2
    OBVIOUS
  <2>2. Giving(b, r) = (UNION {b[i].attempts : i \in {j \in from .. Len(b) : b[j].op = "abandon"}})
                         \cup (IF r.stage \in {"abandon", "late"} THEN r.todo ELSE {})
    BY <2>1 DEF Giving
  <2>3. from = 2
    BY <1>2, <2>1
  <2> QED
    BY <2>2, <2>3 DEF Behind
<1>3. Idle.stage = "idle"
  BY DEF Idle
<1>4. Giving(b, Idle) = UNION {b[i].attempts : i \in {j \in 1 .. Len(b) : b[j].op = "abandon"}}
  BY <1>3 DEF Giving
<1>5. \A i \in 1 .. Len(b) : i = 1 \/ i \in 2 .. Len(b)
  BY <1>1
<1>6. \A i \in 2 .. Len(b) : i \in 1 .. Len(b)
  BY <1>1
<1>7. ASSUME b # <<>>, b[1].op # "abandon"
      PROVE  Giving(b, Idle) = Behind(b)
  <2>1. {j \in 1 .. Len(b) : b[j].op = "abandon"} = {j \in 2 .. Len(b) : b[j].op = "abandon"}
    BY <1>5, <1>6, <1>7
  <2> QED
    BY <1>4, <2>1 DEF Behind
<1>8. ASSUME b # <<>>, b[1].op = "abandon"
      PROVE  Giving(b, Idle) = Behind(b) \cup b[1].attempts
  <2>1. 1 \in 1 .. Len(b)
    BY <1>1, <1>8
  <2>2. {j \in 1 .. Len(b) : b[j].op = "abandon"} = {j \in 2 .. Len(b) : b[j].op = "abandon"} \cup {1}
    BY <1>5, <1>6, <1>8, <2>1
  <2> QED
    BY <1>4, <2>2 DEF Behind
<1> QED
  BY <1>2, <1>7, <1>8

LEMMA GivingTyped ==
  ASSUME NEW b \in Seq(Operations), NEW r \in [stage : Stages, todo : SUBSET Attempt]
  PROVE  Giving(b, r) \in SUBSET Attempt /\ Behind(b) \in SUBSET Attempt
<1>1. \A i \in 1 .. Len(b) : b[i].attempts \in SUBSET Attempt
  <2>1. \A i \in 1 .. Len(b) : b[i] \in Operations
    OBVIOUS
  <2> QED
    BY <2>1 DEF Operations
<1>2. Len(b) \in Nat
  OBVIOUS
<1>3. \A i \in 2 .. Len(b) : i \in 1 .. Len(b)
  BY <1>2
<1>4. Behind(b) \in SUBSET Attempt
  BY <1>1, <1>3 DEF Behind
<1>5. CASE r # Idle
  BY <1>4, <1>5, GivingIs
<1>6. CASE r = Idle
  <2>1. Giving(b, r) = UNION {b[i].attempts : i \in {j \in 1 .. Len(b) : b[j].op = "abandon"}}
    BY <1>6 DEF Giving, Idle
  <2> QED
    BY <1>1, <1>4, <2>1
<1> QED
  BY <1>4, <1>5, <1>6

\* An operation is put at the end of the chain.
Entered(b, o, r, d) ==
  /\ d \in Seq(Operations) /\ d # <<>>
  /\ Len(d) = Len(b) + 1 /\ d[Len(b) + 1] = o /\ \A i \in 1 .. Len(b) : d[i] = b[i]
  /\ Giving(d, r) = Giving(b, r) \cup (IF o.op = "abandon" THEN o.attempts ELSE {})

LEMMA Enqueued ==
  ASSUME NEW b \in Seq(Operations), NEW o \in Operations, o.op = "sync" => o.attempts = {} /\ ~o.opens,
         NEW r, NEW c, Chain(b, r, c), NEW d, d = Append(b, o)
  PROVE  Entered(b, o, r, d) /\ Chain(d, r, c)
<1>1. /\ d \in Seq(Operations) /\ d # <<>>
      /\ Len(d) = Len(b) + 1 /\ d[Len(b) + 1] = o /\ \A i \in 1 .. Len(b) : d[i] = b[i]
      /\ Len(b) \in Nat /\ (b # <<>> => Len(b) > 0)
  OBVIOUS
<1>2. Giving(d, r) = Giving(b, r) \cup (IF o.op = "abandon" THEN o.attempts ELSE {})
  <2> DEFINE from == IF r = Idle THEN 1 ELSE 2
  <2>0. r # Idle => b # <<>>
    BY DEF Chain
  <2>1. Len(b) + 1 \in from .. Len(d)
    BY <1>1, <2>0
  <2>2. \A i \in from .. Len(d) : i \in from .. Len(b) \/ i = Len(b) + 1
    BY <1>1
  <2>3. \A i \in from .. Len(b) : i \in from .. Len(d) /\ d[i] = b[i]
    BY <1>1
  <2> HIDE DEF from
  <2>4. UNION {d[i].attempts : i \in {j \in from .. Len(d) : d[j].op = "abandon"}}
          = (UNION {b[i].attempts : i \in {j \in from .. Len(b) : b[j].op = "abandon"}})
              \cup (IF o.op = "abandon" THEN o.attempts ELSE {})
    <3>1. PICK G : G = UNION {d[i].attempts : i \in {j \in from .. Len(d) : d[j].op = "abandon"}}
      OBVIOUS
    <3>2. PICK H : H = UNION {b[i].attempts : i \in {j \in from .. Len(b) : b[j].op = "abandon"}}
      OBVIOUS
    <3>3. \A x : x \in G <=> \E i \in from .. Len(d) : d[i].op = "abandon" /\ x \in d[i].attempts
      BY <3>1
    <3>4. \A x : x \in H <=> \E i \in from .. Len(b) : b[i].op = "abandon" /\ x \in b[i].attempts
      BY <3>2
    <3>5. ASSUME NEW x \in G
          PROVE  x \in H \/ (o.op = "abandon" /\ x \in o.attempts)
      <4>1. PICK i \in from .. Len(d) : d[i].op = "abandon" /\ x \in d[i].attempts
        BY <3>3
      <4>2. CASE i \in from .. Len(b)
        BY <2>3, <3>4, <4>1, <4>2
      <4>3. CASE i = Len(b) + 1
        BY <1>1, <4>1, <4>3
      <4> QED
        BY <2>2, <4>2, <4>3
    <3>6. ASSUME NEW x \in H
          PROVE  x \in G
      <4>1. PICK i \in from .. Len(b) : b[i].op = "abandon" /\ x \in b[i].attempts
        BY <3>4
      <4> QED
        BY <2>3, <3>3, <4>1
    <3>7. ASSUME NEW x \in o.attempts, o.op = "abandon"
          PROVE  x \in G
      BY <1>1, <2>1, <3>3, <3>7
    <3>8. G = H \cup (IF o.op = "abandon" THEN o.attempts ELSE {})
      BY <3>5, <3>6, <3>7
    <3> QED
      BY <3>1, <3>2, <3>8
  <2> QED
    BY <2>4 DEF Giving, from
<1>3. Chain(d, r, c)
  <2>1. r.stage # "idle" => d[1] = b[1]
    <3>1. Idle.stage = "idle"
      BY DEF Idle
    <3> QED
      BY <1>1, <3>1 DEF Chain
  <2>2. \A i \in 1 .. Len(d) : d[i].op = "sync" => d[i].attempts = {} /\ ~d[i].opens
    <3>1. \A i \in 1 .. Len(d) : i \in 1 .. Len(b) \/ i = Len(b) + 1
      BY <1>1
    <3> QED
      BY <1>1, <3>1 DEF Chain
  <2> QED
    BY <1>1, <2>1, <2>2 DEF Chain
<1> QED
  BY <1>1, <1>2, <1>3 DEF Entered

\* The first operation of the chain ends.
LEMMA Dequeued ==
  ASSUME NEW b \in Seq(Operations), b # <<>>, NEW d, d = Tail(b), NEW r, NEW c, Chain(b, r, c)
  PROVE  /\ d \in Seq(Operations) /\ Len(d) = Len(b) - 1 /\ Len(b) \in Nat /\ Len(b) > 0
         /\ \A i \in 1 .. Len(d) : d[i] = b[i + 1] /\ i + 1 \in 1 .. Len(b)
         /\ Giving(d, Idle) = Behind(b)
         /\ Chain(d, Idle, NoCall)
<1>1. /\ d \in Seq(Operations) /\ Len(d) = Len(b) - 1 /\ Len(b) \in Nat /\ Len(b) > 0
      /\ \A i \in 1 .. Len(d) : d[i] = b[i + 1] /\ i + 1 \in 1 .. Len(b)
  OBVIOUS
<1>2. Giving(d, Idle) = Behind(b)
  <2>1. \A i \in 1 .. Len(d) : i + 1 \in 2 .. Len(b) /\ d[i] = b[i + 1]
    BY <1>1
  <2>2. \A i \in 2 .. Len(b) : i - 1 \in 1 .. Len(d) /\ d[i - 1] = b[i]
    BY <1>1
  <2>3. Giving(d, Idle) = UNION {d[i].attempts : i \in {j \in 1 .. Len(d) : d[j].op = "abandon"}}
    BY DEF Giving, Idle
  <2>4. \A x : x \in Giving(d, Idle) <=> \E i \in 1 .. Len(d) : d[i].op = "abandon" /\ x \in d[i].attempts
    BY <2>3
  <2>5. \A x : x \in Behind(b) <=> \E i \in 2 .. Len(b) : b[i].op = "abandon" /\ x \in b[i].attempts
    BY DEF Behind
  <2>6. ASSUME NEW x \in Giving(d, Idle)
        PROVE  x \in Behind(b)
    <3>1. PICK i \in 1 .. Len(d) : d[i].op = "abandon" /\ x \in d[i].attempts
      BY <2>4
    <3> QED
      BY <2>1, <2>5, <3>1
  <2>7. ASSUME NEW x \in Behind(b)
        PROVE  x \in Giving(d, Idle)
    <3>1. PICK i \in 2 .. Len(b) : b[i].op = "abandon" /\ x \in b[i].attempts
      BY <2>5
    <3> QED
      BY <2>2, <2>4, <3>1
  <2> QED
    BY <2>6, <2>7
<1>3. Chain(d, Idle, NoCall)
  <2>1. \A i \in 1 .. Len(d) : d[i].op = "sync" => d[i].attempts = {} /\ ~d[i].opens
    BY <1>1 DEF Chain
  <2> QED
    BY <2>1 DEF Chain, Idle, NoCall
<1> QED
  BY <1>1, <1>2, <1>3

\* More is given back: nothing gets lost.
LEMMA MoreIsGiven ==
  ASSUME NEW s, NEW p, NEW given, NEW more, given \in SUBSET more, NEW ever, Works(s, p, given, ever)
  PROVE  Works(s, p, more, ever)
BY DEF Works, Held

-----------------------------------------------------------------------------
(* How the steps of the bridge end.                                        *)

\* The document that was opened is not active any more: nothing waits in its place.
LEMMA InactiveKeeps ==
  ASSUME NEW s, NEW p \in Page, ~p.opening, NEW given, NEW q, q = Notified([p EXCEPT !.active = NoAttempt])
  PROVE  /\ q \in Page /\ q.active = NoAttempt /\ q.opening = FALSE
         /\ q.recording = p.recording /\ q.acknowledging = p.acknowledging
         /\ q.abandoning = p.abandoning
         /\ \A ever : Works(s, p, given, ever) => Works(s, q, given, ever)
         /\ \A now : Fresh(s, p, given, now) => Fresh(s, q, given, now)
<1>1. /\ q \in Page /\ q.current = p.current /\ q.queue = p.queue /\ q.pending = p.pending
      /\ q.active = NoAttempt /\ q.opening = FALSE
      /\ q.applied = p.applied /\ q.seen = p.seen /\ q.recording = p.recording
      /\ q.acknowledging = p.acknowledging /\ q.abandoning = p.abandoning
  BY DEF Page, Notified, AnyAttempt
<1>2. Positions(q) = Positions(p)
  BY <1>1 DEF Positions
<1>3. ASSUME NEW ever, Works(s, p, given, ever)
      PROVE  Works(s, q, given, ever)
  <2>1. Coherent(q)
    BY <1>1, <1>3 DEF Works, Coherent, IsCurrent, Completions
  <2> QED
    BY <1>1, <1>2, <1>3, <2>1 DEF Works, Past, Held, Earned
<1>4. ASSUME NEW now, Fresh(s, p, given, now)
      PROVE  Fresh(s, q, given, now)
  BY <1>1, <1>2, <1>4 DEF Fresh
<1> QED
  BY <1>1, <1>3, <1>4

LEMMA EndOpKeeps ==
  ASSUME Consistent, NEW p \in Page, EndOp(p), UNCHANGED <<shell, hint, mount, ready, budget, opened>>,
         bridge # <<>>, p.active = page.active, p.opening = page.opening,
         Works(shell, p, Behind(bridge), opened.ever),
         First(mount) => Fresh(shell, p, Behind(bridge), opened.now)
  PROVE  Consistent'
<1>1. /\ Typed /\ Counted(shell) /\ Chain(bridge, run, call) /\ Waited(bridge, page)
      /\ Opened(shell, opened.ever) /\ Once(mount, bridge, page, opened.now)
      /\ bridge \in Seq(Operations)
  BY DEF Consistent, Typed
<1>2. /\ bridge' = Tail(bridge) /\ run' = Idle /\ call' = NoCall /\ answer' = NoAnswer
      /\ page' = IF Head(bridge).opens THEN Notified([p EXCEPT !.active = NoAttempt]) ELSE p
      /\ Head(bridge) = bridge[1]
  BY <1>1 DEF EndOp, SendsNothing
<1>3. /\ bridge' \in Seq(Operations) /\ Len(bridge') = Len(bridge) - 1
      /\ Len(bridge) \in Nat /\ Len(bridge) > 0
      /\ \A i \in 1 .. Len(bridge') : bridge'[i] = bridge[i + 1] /\ i + 1 \in 1 .. Len(bridge)
      /\ Giving(bridge', Idle) = Behind(bridge)
      /\ Chain(bridge', Idle, NoCall)
  BY <1>1, <1>2, Dequeued
<1>4. /\ page' \in Page /\ page'.opening = page.opening
      /\ (bridge[1].opens => page'.active = NoAttempt /\ ~page.opening)
      /\ (~bridge[1].opens => page'.active = page.active)
      /\ Works(shell, page', Behind(bridge), opened.ever)
      /\ First(mount) => Fresh(shell, page', Behind(bridge), opened.now)
  <2>1. CASE bridge[1].opens
    <3>1. ~p.opening
      BY <1>1, <1>3, <2>1 DEF Waited
    <3>2. PICK m : m = Notified([p EXCEPT !.active = NoAttempt])
      OBVIOUS
    <3>3. /\ m \in Page /\ m.active = NoAttempt /\ m.opening = FALSE
          /\ Works(shell, m, Behind(bridge), opened.ever)
          /\ Fresh(shell, p, Behind(bridge), opened.now) => Fresh(shell, m, Behind(bridge), opened.now)
      BY <3>1, <3>2, InactiveKeeps
    <3>4. page' = m /\ page.opening = FALSE
      BY <1>1, <1>2, <2>1, <3>1, <3>2 DEF Typed, Page
    <3> QED
      BY <2>1, <3>3, <3>4
  <2>2. CASE ~bridge[1].opens
    BY <1>2, <2>2
  <2> QED
    BY <2>1, <2>2
<1>5. Typed'
  <2>1. /\ NoCall \in Calls /\ NoAnswer \in [ok : BOOLEAN, data : SUBSET Attempt, here : BOOLEAN]
        /\ IsFiniteSet(NoAnswer.data) /\ Idle \in [stage : Stages, todo : SUBSET Attempt]
    BY FS_EmptySet DEF Calls, NoAnswer, Idle, Stages
  <2> QED
    BY <1>1, <1>2, <1>3, <1>4, <2>1 DEF Typed
<1>6. Waited(bridge', page')
  <2>1. ASSUME NEW i \in 1 .. Len(bridge'), bridge'[i].opens
        PROVE  page'.active # NoAttempt /\ ~page'.opening
    <3>1. bridge[i + 1].opens /\ i + 1 \in 1 .. Len(bridge) /\ i + 1 # 1
      BY <1>3, <2>1
    <3>2. ~bridge[1].opens
      BY <1>1, <1>3, <3>1 DEF Waited
    <3> QED
      BY <1>1, <1>4, <3>1, <3>2 DEF Waited
  <2>2. ASSUME NEW i \in 1 .. Len(bridge'), NEW j \in 1 .. Len(bridge'),
               bridge'[i].opens, bridge'[j].opens
        PROVE  i = j
    <3>1. /\ bridge[i + 1].opens /\ i + 1 \in 1 .. Len(bridge)
          /\ bridge[j + 1].opens /\ j + 1 \in 1 .. Len(bridge)
      BY <1>3, <2>2
    <3>2. i + 1 = j + 1
      BY <1>1, <3>1 DEF Waited
    <3> QED
      BY <3>2
  <2> QED
    BY <2>1, <2>2 DEF Waited
<1>7. Sent(call', page') /\ Told(shell', call', answer')
  BY <1>2 DEF Sent, Told, NoCall, NoAnswer
<1>8. Once(mount', bridge', page', opened'.now)
  BY <1>1, <1>3, <1>4 DEF Once, Waited
<1>9. run'.stage # "late"
  BY <1>2 DEF Idle
<1> QED
  BY <1>1, <1>2, <1>3, <1>4, <1>5, <1>6, <1>7, <1>8, <1>9 DEF Consistent

LEMMA GoesKeeps ==
  ASSUME Consistent, NEW stage \in {"complete", "retargeted", "abandon", "late"},
         NEW todo \in SUBSET Attempt, NEW p \in Page, Goes(stage, todo, p),
         UNCHANGED <<shell, hint, mount, ready, budget, opened>>,
         bridge # <<>>, p.active = page.active, p.opening = page.opening,
         NEW given, given = Behind(bridge) \cup (IF stage \in {"abandon", "late"} THEN todo ELSE {}),
         Works(shell, p, given, opened.ever),
         First(mount) => Fresh(shell, p, given, opened.now) /\ stage # "late",
         stage \in {"late", "retargeted"} => bridge[1].op = "sync",
         stage = "complete" => bridge[1].op \in {"sync", "complete"},
         stage = "abandon" => bridge[1].op \in {"sync", "abandon"}
  PROVE  Consistent'
<1>1. /\ Typed /\ Counted(shell) /\ Chain(bridge, run, call) /\ Waited(bridge, page)
      /\ Opened(shell, opened.ever) /\ Once(mount, bridge, page, opened.now)
      /\ bridge \in Seq(Operations)
  BY DEF Consistent, Typed
<1>2. /\ run' = [stage |-> stage, todo |-> todo] /\ call' = NoCall /\ answer' = NoAnswer
      /\ page' = p /\ bridge' = bridge
  BY DEF Goes, SendsNothing
<1>3. run' # Idle /\ run'.stage = stage /\ run'.todo = todo
  BY <1>2 DEF Idle
<1>4. Giving(bridge', run') = given
  BY <1>1, <1>2, <1>3, GivingIs
<1>5. Typed'
  <2>1. /\ NoCall \in Calls /\ NoAnswer \in [ok : BOOLEAN, data : SUBSET Attempt, here : BOOLEAN]
        /\ IsFiniteSet(NoAnswer.data) /\ run' \in [stage : Stages, todo : SUBSET Attempt]
    BY <1>2, FS_EmptySet DEF Calls, NoAnswer, Stages
  <2> QED
    BY <1>1, <1>2, <2>1 DEF Typed
<1>6. Chain(bridge', run', call')
  BY <1>1, <1>2, <1>3 DEF Chain, NoCall
<1>7. Waited(bridge', page')
  BY <1>1, <1>2 DEF Waited
<1>8. Sent(call', page') /\ Told(shell', call', answer')
  BY <1>2 DEF Sent, Told, NoCall, NoAnswer
<1>9. Once(mount', bridge', page', opened'.now)
  BY <1>1, <1>2 DEF Once
<1> QED
  BY <1>1, <1>2, <1>3, <1>4, <1>5, <1>6, <1>7, <1>8, <1>9 DEF Consistent

\* A command is sent, by the stage it is part of.
LEMMA SendsKeeps ==
  ASSUME Consistent, NEW kind, NEW a, Sends(kind, a),
         UNCHANGED <<shell, hint, mount, ready, budget, opened, bridge>>, bridge # <<>>,
         run' \in [stage : Stages, todo : SUBSET Attempt], run' # Idle, run'.stage # "idle",
         page' \in Page, page'.active = page.active, page'.opening = page.opening,
         Works(shell, page', Giving(bridge, run'), opened.ever),
         First(mount) => Fresh(shell, page', Giving(bridge, run'), opened.now) /\ run'.stage # "late",
         [kind |-> kind, attempt |-> a] \in Calls,
         Chain(bridge, run', [kind |-> kind, attempt |-> a]),
         Sent([kind |-> kind, attempt |-> a], page')
  PROVE  Consistent'
<1>1. /\ Typed /\ Counted(shell) /\ Waited(bridge, page)
      /\ Opened(shell, opened.ever) /\ Once(mount, bridge, page, opened.now)
  BY DEF Consistent
<1>2. call' = [kind |-> kind, attempt |-> a] /\ answer' = NoAnswer
  BY DEF Sends
<1>3. Typed'
  <2>1. /\ NoAnswer \in [ok : BOOLEAN, data : SUBSET Attempt, here : BOOLEAN]
        /\ IsFiniteSet(NoAnswer.data)
    BY FS_EmptySet DEF NoAnswer
  <2> QED
    BY <1>1, <1>2, <2>1 DEF Typed
<1>4. Waited(bridge', page') /\ Once(mount', bridge', page', opened'.now)
  BY <1>1 DEF Waited, Once
<1>5. Told(shell', call', answer')
  BY <1>2 DEF Told, NoAnswer
<1> QED
  BY <1>1, <1>2, <1>3, <1>4, <1>5 DEF Consistent

\* An attempt is not given back any more: it is abandoned already, or it is not current.
LEMMA LessIsGiven ==
  ASSUME NEW s, NEW p \in Page, NEW given, NEW left \in SUBSET given, NEW a \in Attempt,
         a \in p.abandoning \/ ~IsCurrent(p, a), \A b \in given : b = a \/ b \in left
  PROVE  /\ \A ever : Works(s, p, given, ever) => Works(s, p, left, ever)
         /\ \A now : Fresh(s, p, given, now) => Fresh(s, p, left, now)
<1>1. ASSUME NEW ever, Works(s, p, given, ever)
      PROVE  Works(s, p, left, ever)
  <2>1. a \in p.seen => a \in p.abandoning
    BY <1>1 DEF Works, Coherent
  <2> QED
    BY <1>1, <2>1 DEF Works, Held
<1>2. ASSUME NEW now, Fresh(s, p, given, now)
      PROVE  Fresh(s, p, left, now)
  BY <1>2 DEF Fresh
<1> QED
  BY <1>1, <1>2

\* What is abandoned is given back.
LEMMA AbandonedIsGiven ==
  ASSUME NEW s, NEW p, NEW given, NEW more, more = given \cup p.abandoning
  PROVE  /\ \A ever : Works(s, p, given, ever) => Works(s, p, more, ever)
         /\ \A now : Fresh(s, p, given, now) => Fresh(s, p, more, now)
<1>1. p.abandoning \cup more = p.abandoning \cup given
  OBVIOUS
<1>2. \A ever : Works(s, p, given, ever) => Works(s, p, more, ever)
  BY DEF Works, Held
<1>3. \A now : Fresh(s, p, given, now) => Fresh(s, p, more, now)
  BY <1>1 DEF Fresh
<1> QED
  BY <1>2, <1>3

\* An attempt that is given back is abandoned.
GiveBack(p, a) == [p EXCEPT !.abandoning = @ \cup {a}]

LEMMA GivenIsAbandoned ==
  ASSUME NEW p \in Page, NEW given, NEW a \in Attempt, a \in given,
         NEW q, q = GiveBack(p, a)
  PROVE  /\ q \in Page /\ q.active = p.active /\ q.opening = p.opening /\ a \in q.abandoning
         /\ \A s, ever : Works(s, p, given, ever) => Works(s, q, given, ever)
         /\ \A s, now : Fresh(s, p, given, now) => Fresh(s, q, given, now)
<1>1. PICK v \in SUBSET Attempt : v = p.abandoning \cup {a}
  BY DEF Page
<1>2. q = [p EXCEPT !.abandoning = v]
  BY <1>1 DEF GiveBack
<1>3. /\ q \in Page /\ q.current = p.current /\ q.queue = p.queue /\ q.pending = p.pending
      /\ q.active = p.active /\ q.opening = p.opening
      /\ q.applied = p.applied /\ q.seen = p.seen /\ q.recording = p.recording
      /\ q.acknowledging = p.acknowledging /\ q.abandoning = p.abandoning \cup {a}
  BY <1>1, <1>2 DEF Page
<1>4. Positions(q) = Positions(p) /\ q.abandoning \cup given = p.abandoning \cup given
  BY <1>3 DEF Positions
<1>5. ASSUME NEW s, NEW ever, Works(s, p, given, ever)
      PROVE  Works(s, q, given, ever)
  <2>1. Coherent(q)
    BY <1>3, <1>5 DEF Works, Coherent, IsCurrent, Completions
  <2> QED
    BY <1>3, <1>4, <1>5, <2>1 DEF Works, Past, Held, Earned
<1>6. ASSUME NEW s, NEW now, Fresh(s, p, given, now)
      PROVE  Fresh(s, q, given, now)
  BY <1>3, <1>4, <1>6 DEF Fresh
<1> QED
  BY <1>3, <1>5, <1>6

\* A recorded attempt is to be acknowledged.
Recorded(p, a) == [p EXCEPT !.recording = @ \ {a}, !.acknowledging = @ \cup {a}]

LEMMA RecordedKeeps ==
  ASSUME NEW s, NEW p \in Page, NEW given, NEW a \in p.recording,
         NEW q, q = Recorded(p, a)
  PROVE  /\ q \in Page /\ q.active = p.active /\ q.opening = p.opening
         /\ \A ever : Works(s, p, given, ever) => Works(s, q, given, ever)
         /\ \A now : Fresh(s, p, given, now) => Fresh(s, q, given, now)
<1>1. PICK v \in SUBSET Attempt : v = p.recording \ {a}
  BY DEF Page
<1>2. PICK w \in SUBSET Attempt : w = p.acknowledging \cup {a}
  BY DEF Page
<1>3. q = [p EXCEPT !.recording = v, !.acknowledging = w]
  BY <1>1, <1>2 DEF Recorded
<1>4. /\ q \in Page /\ q.current = p.current /\ q.queue = p.queue /\ q.pending = p.pending
      /\ q.active = p.active /\ q.opening = p.opening
      /\ q.applied = p.applied /\ q.seen = p.seen /\ q.abandoning = p.abandoning
      /\ q.recording = p.recording \ {a} /\ q.acknowledging = p.acknowledging \cup {a}
  BY <1>1, <1>2, <1>3 DEF Page
<1>5. Positions(q) = Positions(p)
  BY <1>4 DEF Positions
<1>6. ASSUME NEW ever, Works(s, p, given, ever)
      PROVE  Works(s, q, given, ever)
  <2>1. Coherent(q)
    BY <1>4, <1>6 DEF Works, Coherent, IsCurrent, Completions
  <2> QED
    BY <1>4, <1>5, <1>6, <2>1 DEF Works, Past, Held, Earned
<1>7. ASSUME NEW now, Fresh(s, p, given, now)
      PROVE  Fresh(s, q, given, now)
  BY <1>4, <1>5, <1>7 DEF Fresh
<1> QED
  BY <1>4, <1>6, <1>7

-----------------------------------------------------------------------------
(* The steps of the bridge.                                                *)

\* What the invariant says of the running operation.
LEMMA Running ==
  ASSUME Consistent
  PROVE  /\ shell \in Shell /\ page \in Page /\ bridge \in Seq(Operations)
         /\ run \in [stage : Stages, todo : SUBSET Attempt] /\ call \in Calls
         /\ opened.now \in [Requests -> Nat]
         /\ bridge # <<>> => bridge[1] \in Operations /\ Head(bridge) = bridge[1]
         /\ run # Idle <=> run.stage # "idle"
         /\ run # Idle => bridge # <<>>
         /\ run = Idle => call = NoCall
         /\ Behind(bridge) \in SUBSET Attempt /\ Giving(bridge, run) \in SUBSET Attempt
         /\ run # Idle =>
              Giving(bridge, run) = Behind(bridge) \cup (IF run.stage \in {"abandon", "late"} THEN run.todo ELSE {})
         /\ Works(shell, page, Giving(bridge, run), opened.ever)
         /\ First(mount) => Fresh(shell, page, Giving(bridge, run), opened.now) /\ run.stage # "late"
<1>1. Typed /\ Chain(bridge, run, call)
  BY DEF Consistent
<1>2. shell \in Shell /\ page \in Page /\ bridge \in Seq(Operations)
      /\ run \in [stage : Stages, todo : SUBSET Attempt] /\ call \in Calls
      /\ opened.now \in [Requests -> Nat]
  BY <1>1 DEF Typed
<1>3. bridge # <<>> => bridge[1] \in Operations /\ Head(bridge) = bridge[1]
  BY <1>2
<1>4. run # Idle <=> run.stage # "idle"
  BY <1>1 DEF Chain, Idle
<1>5. run # Idle => bridge # <<>>
  BY <1>1 DEF Chain
<1>6. run = Idle => call = NoCall
  BY <1>1 DEF Chain, Idle
<1>7. Behind(bridge) \in SUBSET Attempt /\ Giving(bridge, run) \in SUBSET Attempt
  BY <1>2, GivingTyped
<1>8. run # Idle =>
        Giving(bridge, run) = Behind(bridge) \cup (IF run.stage \in {"abandon", "late"} THEN run.todo ELSE {})
  BY <1>2, GivingIs
<1> QED
  BY <1>2, <1>3, <1>4, <1>5, <1>6, <1>7, <1>8 DEF Consistent

LEMMA StartOpKeeps ==
  ASSUME Consistent, StartOp
  PROVE  Consistent'
<1>1. bridge # <<>> /\ run = Idle /\ UNCHANGED <<shell, hint, mount, ready, budget, opened>>
  BY DEF StartOp
<1>2. /\ shell \in Shell /\ page \in Page /\ bridge \in Seq(Operations)
      /\ bridge[1] \in Operations /\ Head(bridge) = bridge[1]
      /\ Works(shell, page, Giving(bridge, Idle), opened.ever)
      /\ First(mount) => Fresh(shell, page, Giving(bridge, Idle), opened.now)
  BY <1>1, Running
<1>3. /\ bridge[1].op # "abandon" => Giving(bridge, Idle) = Behind(bridge)
      /\ bridge[1].op = "abandon" => Giving(bridge, Idle) = Behind(bridge) \cup bridge[1].attempts
      /\ bridge[1].attempts \in SUBSET Attempt /\ bridge[1].op \in {"sync", "complete", "abandon"}
  BY <1>1, <1>2, GivingIs DEF Operations
<1>4. CASE Stale
  <2>1. bridge[1].op = "sync" /\ EndOp(page)
    BY <1>1, <1>2, <1>4 DEF StartOp, Stale
  <2> QED
    BY <1>1, <1>2, <1>3, <2>1, EndOpKeeps
<1>5. CASE ~Stale /\ bridge[1].op = "sync"
  <2>1. run' = [stage |-> "recover", todo |-> {}] /\ Sends("recover", NoAttempt) /\ UNCHANGED <<bridge, page>>
    BY <1>2, <1>5 DEF StartOp
  <2>2. /\ run' \in [stage : Stages, todo : SUBSET Attempt] /\ run'.stage = "recover"
        /\ run' # Idle
    BY <2>1 DEF Stages, Idle
  <2>3. Giving(bridge, run') = Behind(bridge)
    BY <1>2, <2>2, GivingIs
  <2>4. /\ [kind |-> "recover", attempt |-> NoAttempt] \in Calls
        /\ Sent([kind |-> "recover", attempt |-> NoAttempt], page')
    BY DEF Calls, Sent
  <2>5. Chain(bridge, run', [kind |-> "recover", attempt |-> NoAttempt])
    BY <1>1, <1>5, <2>2 DEF Consistent, Chain
  <2> QED
    BY <1>1, <1>2, <1>3, <1>5, <2>1, <2>2, <2>3, <2>4, <2>5, SendsKeeps
<1>6. CASE bridge[1].op = "complete"
  <2>1. Goes("complete", bridge[1].attempts, page)
    BY <1>2, <1>6 DEF StartOp, Stale
  <2> QED
    BY <1>1, <1>2, <1>3, <1>6, <2>1, GoesKeeps
<1>7. CASE bridge[1].op = "abandon"
  <2>1. Goes("abandon", bridge[1].attempts, page)
    BY <1>2, <1>7 DEF StartOp, Stale
  <2> QED
    BY <1>1, <1>2, <1>3, <1>7, <2>1, GoesKeeps
<1> QED
  BY <1>3, <1>4, <1>5, <1>6, <1>7

\* The window has seen what it was asked for.
LEMMA BootstrapIsAlike ==
  ASSUME NEW p \in Page, NEW found \in BOOLEAN
  PROVE  Bootstrapped(p, found) \in Page /\ Alike(p, Bootstrapped(p, found))
BY DEF Page, Notified, Bootstrapped, Alike

LEMMA RecoveredIsKept ==
  ASSUME Consistent, Recovered
  PROVE  Consistent'
<1>1. /\ run.stage = "recover" /\ answer.here
      /\ UNCHANGED <<shell, hint, mount, ready, budget, opened>>
  BY DEF Recovered
<1>2. /\ shell \in Shell /\ page \in Page /\ bridge \in Seq(Operations) /\ bridge # <<>>
      /\ Head(bridge) = bridge[1] /\ run # Idle
      /\ Behind(bridge) \in SUBSET Attempt /\ Giving(bridge, run) = Behind(bridge)
      /\ Works(shell, page, Behind(bridge), opened.ever)
      /\ First(mount) => Fresh(shell, page, Behind(bridge), opened.now)
      /\ opened.now \in [Requests -> Nat]
  BY <1>1, Running
<1>3. bridge[1].op = "sync" /\ call.kind = "recover"
  BY <1>1 DEF Consistent, Chain
<1>4. /\ answer.data \in SUBSET Attempt /\ IsFiniteSet(answer.data) /\ Opened(shell, opened.ever)
      /\ answer.ok => \A a \in answer.data : Stands(shell, a, "applied")
  BY <1>1, <1>3 DEF Consistent, Typed, Told
<1>5. <<"recover", NoAttempt>> \in Sources
  BY DEF Sources, AnyAttempt
<1>6. PICK p : p = IF answer.ok THEN Resolved(page, <<"recover", NoAttempt>>)
                   ELSE Failed(page, <<"recover", NoAttempt>>)
  OBVIOUS
<1>7. p \in Page /\ Alike(page, p)
  BY <1>2, <1>5, <1>6, ReportsAreAlike
<1>8. /\ p.active = page.active /\ p.opening = page.opening
      /\ Works(shell, p, Behind(bridge), opened.ever)
      /\ First(mount) => Fresh(shell, p, Behind(bridge), opened.now)
  BY <1>2, <1>7, AlikeWorks DEF Alike
<1>12. PICK b : b = IF answer.data = {} THEN p ELSE [p EXCEPT !.blocks = TRUE]
  OBVIOUS
<1>13. b \in Page /\ Alike(p, b)
  BY <1>7, <1>12 DEF Page, Alike
<1>14. /\ b.active = page.active /\ b.opening = page.opening
       /\ Works(shell, b, Behind(bridge), opened.ever)
       /\ First(mount) => Fresh(shell, b, Behind(bridge), opened.now)
  BY <1>8, <1>13, AlikeWorks DEF Alike
<1>9. PICK q : q = Notified(FoldSet(AdoptRecovered, b, answer.data))
  OBVIOUS
<1>10. CASE Stale \/ ~answer.ok
  <2>1. EndOp(p)
    BY <1>6, <1>10 DEF Recovered
  <2> QED
    BY <1>1, <1>2, <1>7, <1>8, <2>1, EndOpKeeps
<1>11. CASE ~(Stale \/ ~answer.ok)
  <2>1. Goes("complete", Completions(q), q)
    <3>1. answer.ok /\ ~Stale /\ p = Resolved(page, <<"recover", NoAttempt>>)
      BY <1>6, <1>11
    <3> QED
      BY <1>9, <1>12, <3>1 DEF Recovered
  <2>2. /\ q \in Page /\ Works(shell, q, Behind(bridge), opened.ever)
        /\ First(mount) => Fresh(shell, q, Behind(bridge), opened.now)
        /\ q.active = page.active /\ q.opening = page.opening
    <3>1. /\ shell \in Shell /\ Behind(bridge) \in SUBSET Attempt /\ b \in Page
          /\ opened.now \in [Requests -> Nat]
          /\ answer.data \in SUBSET Attempt /\ IsFiniteSet(answer.data)
          /\ \A a \in answer.data : Stands(shell, a, "applied")
      BY <1>2, <1>4, <1>11, <1>13
    <3>2. /\ q \in Page /\ Works(shell, q, Behind(bridge), opened.ever)
          /\ First(mount) => Fresh(shell, q, Behind(bridge), opened.now)
          /\ q.active = b.active /\ q.opening = b.opening
      BY <1>4, <1>9, <1>14, <3>1, RecoveryIsAdopted
    <3> QED
      BY <1>14, <3>2
  <2>3. Completions(q) \in SUBSET Attempt
    BY <2>2 DEF Completions, Page
  <2> QED
    BY <1>1, <1>2, <1>3, <2>1, <2>2, <2>3, GoesKeeps
<1> QED
  BY <1>10, <1>11

LEMMA ContinueKeeps ==
  ASSUME Consistent, Continue
  PROVE  Consistent'
<1>1. /\ run.stage \in {"complete", "abandon", "late", "retargeted"} /\ run.todo = {}
      /\ UNCHANGED <<shell, hint, mount, ready, budget, opened>>
  BY DEF Continue
<1>2. /\ shell \in Shell /\ page \in Page /\ bridge \in Seq(Operations) /\ bridge # <<>>
      /\ Head(bridge) = bridge[1]
      /\ Behind(bridge) \in SUBSET Attempt /\ Giving(bridge, run) = Behind(bridge)
      /\ Works(shell, page, Behind(bridge), opened.ever)
      /\ First(mount) => Fresh(shell, page, Behind(bridge), opened.now)
  BY <1>1, Running
<1>6. CASE run.stage = "retargeted"
  <2>1. PICK q : q = Bootstrapped(page, TRUE)
    OBVIOUS
  <2>2. EndOp(q)
    BY <1>6, <2>1 DEF Continue
  <2>3. q \in Page /\ Alike(page, q)
    BY <1>2, <2>1, BootstrapIsAlike
  <2>4. /\ q.active = page.active /\ q.opening = page.opening
        /\ Works(shell, q, Behind(bridge), opened.ever)
        /\ First(mount) => Fresh(shell, q, Behind(bridge), opened.now)
    BY <1>2, <2>3, AlikeWorks DEF Alike
  <2> QED
    BY <1>1, <1>2, <2>2, <2>3, <2>4, EndOpKeeps
<1>3. CASE run.stage # "retargeted" /\ (Head(bridge).op # "sync" \/ Stale \/ run.stage = "late")
  <2>1. EndOp(page)
    BY <1>3 DEF Continue
  <2> QED
    BY <1>1, <1>2, <2>1, EndOpKeeps
<1>4. CASE ~(Head(bridge).op # "sync" \/ Stale) /\ run.stage = "complete"
  <2>1. Goes("abandon", page.abandoning, page)
    BY <1>4 DEF Continue
  <2>2. PICK given : given = Behind(bridge) \cup page.abandoning
    OBVIOUS
  <2>3. /\ Works(shell, page, given, opened.ever)
        /\ First(mount) => Fresh(shell, page, given, opened.now)
    BY <1>2, <2>2, AbandonedIsGiven
  <2>4. page.abandoning \in SUBSET Attempt
    BY <1>2 DEF Page
  <2> QED
    BY <1>1, <1>2, <1>4, <2>1, <2>2, <2>3, <2>4, GoesKeeps
<1>5. CASE ~(Head(bridge).op # "sync" \/ Stale) /\ run.stage = "abandon"
  <2>1. run' = [stage |-> "claim", todo |-> {}] /\ Sends("claim", NoAttempt) /\ UNCHANGED <<bridge, page>>
    BY <1>5 DEF Continue
  <2>2. /\ run' \in [stage : Stages, todo : SUBSET Attempt] /\ run'.stage = "claim"
        /\ run' # Idle
    BY <2>1 DEF Stages, Idle
  <2>3. Giving(bridge, run') = Behind(bridge)
    BY <1>2, <2>2, GivingIs
  <2>4. /\ [kind |-> "claim", attempt |-> NoAttempt] \in Calls
        /\ Sent([kind |-> "claim", attempt |-> NoAttempt], page')
    BY DEF Calls, Sent
  <2>5. Chain(bridge, run', [kind |-> "claim", attempt |-> NoAttempt])
    BY <1>2, <1>5, <2>2 DEF Consistent, Chain
  <2> QED
    BY <1>1, <1>2, <2>1, <2>2, <2>3, <2>4, <2>5, SendsKeeps
<1> QED
  BY <1>1, <1>3, <1>4, <1>5, <1>6

LEMMA SendCompletionKeeps ==
  ASSUME Consistent, SendCompletion
  PROVE  Consistent'
<1>1. /\ run.stage \in {"complete", "retargeted"} /\ run.todo # {}
      /\ UNCHANGED <<shell, hint, mount, ready, budget, opened>>
  BY DEF SendCompletion
<1>2. /\ shell \in Shell /\ page \in Page /\ bridge \in Seq(Operations) /\ bridge # <<>>
      /\ run \in [stage : Stages, todo : SUBSET Attempt] /\ run # Idle
      /\ Giving(bridge, run) = Behind(bridge)
      /\ Works(shell, page, Behind(bridge), opened.ever)
      /\ First(mount) => Fresh(shell, page, Behind(bridge), opened.now)
  BY <1>1, Running
<1>3. PICK a \in run.todo : a = Next1
  BY <1>1 DEF Next1
<1>4. a \in Attempt
  BY <1>2
<1>5. CASE Next1 \in Completions(page) /\ IsCurrent(page, Next1)
  <2>1. PICK kind \in {"record", "ack"} : kind = IF a \in page.recording THEN "record" ELSE "ack"
    OBVIOUS
  <2>2. Sends(kind, a) /\ UNCHANGED <<run, page, bridge>>
    BY <1>3, <1>5, <2>1 DEF SendCompletion
  <2>3. [kind |-> kind, attempt |-> a] \in Calls
    BY <1>4, <2>1 DEF Calls
  <2>4. Sent([kind |-> kind, attempt |-> a], page)
    BY <1>3, <1>5, <2>1 DEF Sent, Completions
  <2>5. Chain(bridge, run, [kind |-> kind, attempt |-> a])
    BY <1>1, <1>3 DEF Consistent, Chain
  <2> QED
    BY <1>1, <1>2, <2>2, <2>3, <2>4, <2>5, SendsKeeps
<1>6. CASE ~(Next1 \in Completions(page) /\ IsCurrent(page, Next1))
  <2>1. PICK p : p = WithoutCompletion(page, a)
    OBVIOUS
  <2>2. Goes(run.stage, run.todo \ {a}, p)
    BY <1>3, <1>6, <2>1 DEF SendCompletion
  <2>3. p \in Page /\ Alike(page, p)
    BY <1>2, <1>3, <1>4, <1>6, <2>1, DroppedCompletions DEF Works
  <2>4. /\ p.active = page.active /\ p.opening = page.opening
        /\ Works(shell, p, Behind(bridge), opened.ever)
        /\ First(mount) => Fresh(shell, p, Behind(bridge), opened.now)
    BY <1>2, <2>3, AlikeWorks DEF Alike
  <2>5. /\ run.stage = "retargeted" => bridge[1].op = "sync"
        /\ run.stage = "complete" => bridge[1].op \in {"sync", "complete"}
    BY DEF Consistent, Chain
  <2>6. run.todo \ {a} \in SUBSET Attempt
    BY <1>2
  <2> QED
    BY <1>1, <1>2, <2>2, <2>3, <2>4, <2>5, <2>6, GoesKeeps
<1> QED
  BY <1>5, <1>6

LEMMA CompletedKeeps ==
  ASSUME Consistent, Completed
  PROVE  Consistent'
<1>1. /\ call.kind \in {"record", "ack"} /\ answer.here
      /\ UNCHANGED <<shell, hint, mount, ready, budget, opened>>
  BY DEF Completed
<1>2. run.stage \in {"complete", "retargeted"} /\ call.attempt \in run.todo
  BY <1>1 DEF Consistent, Chain
<1>3. /\ shell \in Shell /\ page \in Page /\ bridge \in Seq(Operations) /\ bridge # <<>>
      /\ run \in [stage : Stages, todo : SUBSET Attempt] /\ run # Idle
      /\ Giving(bridge, run) = Behind(bridge) /\ Behind(bridge) \in SUBSET Attempt
      /\ Works(shell, page, Behind(bridge), opened.ever)
      /\ First(mount) => Fresh(shell, page, Behind(bridge), opened.now)
  BY <1>2, Running
<1>4. PICK a \in Attempt : a = call.attempt
  BY <1>2, <1>3
<1>5. /\ call.kind = "record" => a \in page.recording
      /\ call.kind = "ack" /\ answer.ok => shell[a.id].state = "done"
  BY <1>1, <1>4 DEF Consistent, Sent, Told
<1>6. /\ run.stage = "retargeted" => bridge[1].op = "sync"
      /\ run.stage = "complete" => bridge[1].op \in {"sync", "complete"}
  BY DEF Consistent, Chain
<1>7. PICK source \in Sources : source = <<call.kind, call.attempt>>
  BY <1>1, <1>4 DEF Sources, AnyAttempt
<1>8. PICK p : p = IF answer.ok THEN Resolved(page, source) ELSE Failed(page, source)
  OBVIOUS
<1>9. p \in Page /\ Alike(page, p)
  BY <1>3, <1>8, ReportsAreAlike
<1>10. /\ p.active = page.active /\ p.opening = page.opening /\ p.recording = page.recording
       /\ Works(shell, p, Behind(bridge), opened.ever)
       /\ First(mount) => Fresh(shell, p, Behind(bridge), opened.now)
  BY <1>3, <1>9, AlikeWorks DEF Alike
<1>11. run.todo \ {a} \in SUBSET Attempt /\ run.todo \in SUBSET Attempt
  BY <1>3
<1>12. CASE ~answer.ok
  <2>1. Goes(run.stage, run.todo \ {a}, p)
    BY <1>4, <1>7, <1>8, <1>12 DEF Completed
  <2> QED
    BY <1>1, <1>2, <1>3, <1>6, <1>9, <1>10, <1>11, <2>1, GoesKeeps
<1>13. CASE answer.ok /\ call.kind = "record"
  <2>1. PICK q : q = Recorded(p, a)
    OBVIOUS
  <2>2. Goes(run.stage, run.todo, q)
    BY <1>4, <1>7, <1>8, <1>13, <2>1 DEF Completed, Recorded
  <2>3. /\ q \in Page /\ q.active = p.active /\ q.opening = p.opening
        /\ Works(shell, q, Behind(bridge), opened.ever)
        /\ First(mount) => Fresh(shell, q, Behind(bridge), opened.now)
    <3>1. a \in p.recording
      BY <1>5, <1>10, <1>13
    <3>2. p \in Page
      BY <1>9
    <3>3. /\ q \in Page /\ q.active = p.active /\ q.opening = p.opening
          /\ \A ever : Works(shell, p, Behind(bridge), ever) => Works(shell, q, Behind(bridge), ever)
          /\ \A now : Fresh(shell, p, Behind(bridge), now) => Fresh(shell, q, Behind(bridge), now)
      BY <2>1, <3>1, <3>2, RecordedKeeps
    <3> QED
      BY <1>10, <3>3
  <2> QED
    BY <1>1, <1>2, <1>3, <1>6, <1>10, <1>11, <2>2, <2>3, GoesKeeps
<1>14. CASE answer.ok /\ call.kind = "ack"
  <2>1. PICK q : q = CleanupTerminal(p, a)
    OBVIOUS
  <2>2. Goes(run.stage, run.todo \ {a}, q)
    BY <1>4, <1>7, <1>8, <1>14, <2>1 DEF Completed
  <2>3. q \in Page /\ Cleaned(p, q, a)
    BY <1>9, <2>1, CleanupIs
  <2>4. q.active = page.active /\ q.opening = page.opening
    BY <1>10, <2>3 DEF Cleaned
  <2>5. Works(shell, q, Behind(bridge), opened.ever)
    BY <1>3, <1>9, <1>10, <2>3, CleanedWorks
  <2>6. First(mount) => Fresh(shell, q, Behind(bridge), opened.now)
    <3>1. ~Stands(shell, a, "processing") /\ shell[a.id].state = "done"
      BY <1>5, <1>14 DEF Stands
    <3> QED
      BY <1>3, <1>9, <1>10, <2>3, <3>1, CleanedFresh
  <2> QED
    BY <1>1, <1>2, <1>3, <1>6, <1>11, <2>2, <2>3, <2>4, <2>5, <2>6, GoesKeeps
<1> QED
  BY <1>1, <1>12, <1>13, <1>14

LEMMA SendAbandonKeeps ==
  ASSUME Consistent, SendAbandon
  PROVE  Consistent'
<1>1. /\ run.stage \in {"abandon", "late"} /\ run.todo # {}
      /\ UNCHANGED <<shell, hint, mount, ready, budget, opened>>
  BY DEF SendAbandon
<1>2. /\ shell \in Shell /\ page \in Page /\ bridge \in Seq(Operations) /\ bridge # <<>>
      /\ run \in [stage : Stages, todo : SUBSET Attempt] /\ run # Idle
      /\ Giving(bridge, run) = Behind(bridge) \cup run.todo
      /\ Works(shell, page, Giving(bridge, run), opened.ever)
      /\ First(mount) => Fresh(shell, page, Giving(bridge, run), opened.now) /\ run.stage # "late"
  BY <1>1, Running
<1>3. PICK a \in Attempt : a \in run.todo /\ a = Next1
  <2>1. Next1 \in run.todo
    BY <1>1 DEF Next1
  <2> QED
    BY <1>2, <2>1
<1>4. a \in Giving(bridge, run)
  BY <1>2, <1>3
<1>5. CASE Head(bridge).op = "abandon" /\ ~IsCurrent(page, Next1)
  <2>1. Goes(run.stage, run.todo \ {a}, page)
    BY <1>3, <1>5 DEF SendAbandon
  <2>2. PICK left : left = Behind(bridge) \cup (run.todo \ {a})
    OBVIOUS
  <2>3. /\ Works(shell, page, left, opened.ever)
        /\ First(mount) => Fresh(shell, page, left, opened.now)
    <3>1. left \in SUBSET Giving(bridge, run) /\ \A b \in Giving(bridge, run) : b = a \/ b \in left
      BY <1>2, <2>2
    <3>2. ~IsCurrent(page, a)
      BY <1>3, <1>5
    <3>3. PICK given : given = Giving(bridge, run)
      OBVIOUS
    <3> QED
      BY <1>2, <1>4, <3>1, <3>2, <3>3, LessIsGiven
  <2>4. run.stage = "late" => bridge[1].op = "sync"
    BY DEF Consistent, Chain
  <2>5. run.stage = "abandon" => bridge[1].op \in {"sync", "abandon"}
    BY DEF Consistent, Chain
  <2>6. run.todo \ {a} \in SUBSET Attempt
    BY <1>2
  <2> QED
    BY <1>1, <1>2, <2>1, <2>2, <2>3, <2>4, <2>5, <2>6, GoesKeeps
<1>6. CASE ~(Head(bridge).op = "abandon" /\ ~IsCurrent(page, Next1))
  <2>1. PICK q : q = GiveBack(page, a)
    OBVIOUS
  <2>2. Sends("abandon", a) /\ page' = q /\ UNCHANGED <<run, bridge>>
    BY <1>3, <1>6, <2>1 DEF SendAbandon, GiveBack
  <2>3. PICK given : given = Giving(bridge, run)
    OBVIOUS
  <2>4. /\ q \in Page /\ q.active = page.active /\ q.opening = page.opening /\ a \in q.abandoning
        /\ Works(shell, q, given, opened.ever)
        /\ First(mount) => Fresh(shell, q, given, opened.now)
    <3>1. a \in given /\ page \in Page
      BY <1>2, <1>4, <2>3
    <3>2. /\ q \in Page /\ q.active = page.active /\ q.opening = page.opening /\ a \in q.abandoning
          /\ \A s, ever : Works(s, page, given, ever) => Works(s, q, given, ever)
          /\ \A s, now : Fresh(s, page, given, now) => Fresh(s, q, given, now)
      BY <2>1, <3>1, GivenIsAbandoned
    <3> QED
      BY <1>2, <2>3, <3>2
  <2>5. [kind |-> "abandon", attempt |-> a] \in Calls
    BY <1>4 DEF Calls
  <2>6. Sent([kind |-> "abandon", attempt |-> a], q)
    BY <2>4 DEF Sent
  <2>7. Chain(bridge, run, [kind |-> "abandon", attempt |-> a])
    BY <1>1, <1>3 DEF Consistent, Chain
  <2>8. run.stage # "idle"
    BY <1>1
  <2> QED
    BY <1>1, <1>2, <2>2, <2>3, <2>4, <2>5, <2>6, <2>7, <2>8, SendsKeeps
<1> QED
  BY <1>5, <1>6

LEMMA AbandonedKeeps ==
  ASSUME Consistent, Abandoned
  PROVE  Consistent'
<1>1. /\ call.kind = "abandon" /\ answer.here
      /\ UNCHANGED <<shell, hint, mount, ready, budget, opened>>
  BY DEF Abandoned
<1>2. run.stage \in {"abandon", "late"} /\ call.attempt \in run.todo
  BY <1>1 DEF Consistent, Chain
<1>3. /\ shell \in Shell /\ page \in Page /\ bridge \in Seq(Operations) /\ bridge # <<>>
      /\ run \in [stage : Stages, todo : SUBSET Attempt] /\ run # Idle
      /\ Giving(bridge, run) = Behind(bridge) \cup run.todo
      /\ Giving(bridge, run) \in SUBSET Attempt
      /\ Works(shell, page, Giving(bridge, run), opened.ever)
      /\ First(mount) => Fresh(shell, page, Giving(bridge, run), opened.now) /\ run.stage # "late"
  BY <1>2, Running
<1>4. PICK a \in Attempt : a = call.attempt
  BY <1>2, <1>3
<1>5. a \in page.abandoning /\ (answer.ok => ~Stands(shell, a, "processing"))
  BY <1>1, <1>4 DEF Consistent, Sent, Told
<1>6. /\ run.stage = "late" => bridge[1].op = "sync"
      /\ run.stage = "abandon" => bridge[1].op \in {"sync", "abandon"}
  BY DEF Consistent, Chain
<1>7. PICK source \in Sources : source = <<"abandon", call.attempt>>
  BY <1>1, <1>4 DEF Sources, AnyAttempt
<1>8. PICK p : p = IF answer.ok THEN Resolved(page, source) ELSE Failed(page, source)
  OBVIOUS
<1>9. p \in Page /\ Alike(page, p)
  BY <1>3, <1>8, ReportsAreAlike
<1>10. PICK given : given = Giving(bridge, run)
  OBVIOUS
<1>11. /\ p.active = page.active /\ p.opening = page.opening /\ a \in p.abandoning
       /\ Works(shell, p, given, opened.ever)
       /\ First(mount) => Fresh(shell, p, given, opened.now)
  BY <1>3, <1>5, <1>9, <1>10, AlikeWorks DEF Alike
<1>12. PICK left : left = Behind(bridge) \cup (run.todo \ {a})
  OBVIOUS
<1>13. /\ run.todo \ {a} \in SUBSET Attempt /\ left \in SUBSET given /\ given \in SUBSET Attempt
       /\ \A b \in given : b = a \/ b \in left
  BY <1>3, <1>10, <1>12
<1>14. CASE ~answer.ok
  <2>1. Goes(run.stage, run.todo \ {a}, p)
    BY <1>4, <1>7, <1>8, <1>14 DEF Abandoned
  <2>2. /\ Works(shell, p, left, opened.ever)
        /\ First(mount) => Fresh(shell, p, left, opened.now)
    BY <1>9, <1>11, <1>13, LessIsGiven
  <2> QED
    BY <1>1, <1>2, <1>3, <1>6, <1>9, <1>11, <1>12, <1>13, <2>1, <2>2, GoesKeeps
<1>15. CASE answer.ok
  <2>1. PICK q : q = CleanupTerminal(p, a)
    OBVIOUS
  <2>2. Goes(run.stage, run.todo \ {a}, q)
    BY <1>4, <1>7, <1>8, <1>15, <2>1 DEF Abandoned
  <2>3. q \in Page /\ Cleaned(p, q, a)
    BY <1>9, <2>1, CleanupIs
  <2>4. q.active = page.active /\ q.opening = page.opening
    BY <1>11, <2>3 DEF Cleaned
  <2>5. Works(shell, q, left, opened.ever)
    BY <1>3, <1>9, <1>11, <1>13, <2>3, CleanedWorks
  <2>6. First(mount) => Fresh(shell, q, left, opened.now)
    <3>1. Fresh(shell, p, given, opened.now) => a \notin p.applied
      BY <1>11 DEF Fresh
    <3> QED
      BY <1>3, <1>5, <1>9, <1>11, <1>13, <1>15, <2>3, <3>1, CleanedFresh
  <2> QED
    BY <1>1, <1>2, <1>3, <1>6, <1>12, <1>13, <2>2, <2>3, <2>4, <2>5, <2>6, GoesKeeps
<1> QED
  BY <1>14, <1>15

LEMMA ClaimAnsweredKeeps ==
  ASSUME Consistent, ClaimAnswered
  PROVE  Consistent'
<1>1. /\ run.stage = "claim" /\ answer.here
      /\ UNCHANGED <<shell, hint, mount, ready, budget, opened>>
  BY DEF ClaimAnswered
<1>2. /\ shell \in Shell /\ page \in Page /\ bridge \in Seq(Operations) /\ bridge # <<>>
      /\ Head(bridge) = bridge[1] /\ run # Idle
      /\ Behind(bridge) \in SUBSET Attempt /\ Giving(bridge, run) = Behind(bridge)
      /\ Works(shell, page, Behind(bridge), opened.ever)
      /\ First(mount) => Fresh(shell, page, Behind(bridge), opened.now)
      /\ opened.now \in [Requests -> Nat]
  BY <1>1, Running
<1>3. bridge[1].op = "sync" /\ call.kind = "claim"
  BY <1>1 DEF Consistent, Chain
<1>4. /\ answer.data \in SUBSET Attempt /\ IsFiniteSet(answer.data)
      /\ answer.ok => \A a \in answer.data : Stands(shell, a, "processing")
  BY <1>1, <1>3 DEF Consistent, Typed, Told
<1>5. <<"claim", NoAttempt>> \in Sources
  BY DEF Sources, AnyAttempt
<1>6. PICK p : p = IF answer.ok THEN Resolved(page, <<"claim", NoAttempt>>)
                   ELSE Failed(page, <<"claim", NoAttempt>>)
  OBVIOUS
<1>7. p \in Page /\ Alike(page, p)
  BY <1>2, <1>5, <1>6, ReportsAreAlike
<1>8. /\ p.active = page.active /\ p.opening = page.opening
      /\ Works(shell, p, Behind(bridge), opened.ever)
      /\ First(mount) => Fresh(shell, p, Behind(bridge), opened.now)
  BY <1>2, <1>7, AlikeWorks DEF Alike
<1>9. PICK q : q = AdoptClaim(p, answer.data)
  OBVIOUS
<1>10. answer.ok =>
         /\ q \in Page /\ Works(shell, q, Behind(bridge), opened.ever)
         /\ First(mount) => Fresh(shell, q, Behind(bridge), opened.now)
         /\ q.active = page.active /\ q.opening = page.opening
  <2>1. ASSUME answer.ok
        PROVE  /\ q \in Page /\ Works(shell, q, Behind(bridge), opened.ever)
               /\ First(mount) => Fresh(shell, q, Behind(bridge), opened.now)
               /\ q.active = p.active /\ q.opening = p.opening
    <3>1. \A a \in answer.data : Stands(shell, a, "processing")
      BY <1>4, <2>1
    <3>2. answer.data \in SUBSET Attempt /\ IsFiniteSet(answer.data)
      BY <1>4
    <3>3. shell \in Shell /\ Behind(bridge) \in SUBSET Attempt /\ opened.now \in [Requests -> Nat]
      BY <1>2
    <3> QED
      BY <1>7, <1>8, <1>9, <3>1, <3>2, <3>3, ClaimIsAdopted
  <2> QED
    BY <1>8, <2>1
<1>11. CASE ~answer.ok
  <2>1. EndOp(p)
    BY <1>6, <1>11 DEF ClaimAnswered
  <2> QED
    BY <1>1, <1>2, <1>7, <1>8, <2>1, EndOpKeeps
<1>12. CASE answer.ok /\ Stale
  <2>1. Goes("late", answer.data, p)
    BY <1>6, <1>12 DEF ClaimAnswered
  <2>2. PICK given : given = Behind(bridge) \cup answer.data
    OBVIOUS
  <2>3. Works(shell, p, given, opened.ever)
    BY <1>8, <2>2, MoreIsGiven
  <2>4. ~First(mount)
    <3>1. ASSUME First(mount)
          PROVE  FALSE
      <4>1. bridge[1].generation = 1
        BY <1>2, <1>3, <3>1 DEF Consistent, Once, First
      <4> QED
        BY <1>2, <1>12, <3>1, <4>1 DEF Stale, Live, First
    <3> QED
      BY <3>1
  <2> QED
    BY <1>1, <1>2, <1>3, <1>4, <1>7, <1>8, <2>1, <2>2, <2>3, <2>4, GoesKeeps
<1>13. CASE answer.ok /\ ~Stale /\ q.recording \ page.recording # {}
  <2>1. Goes("retargeted", Completions(q), q)
    BY <1>6, <1>9, <1>13 DEF ClaimAnswered
  <2>2. Completions(q) \in SUBSET Attempt
    BY <1>10, <1>13 DEF Completions, Page
  <2> QED
    BY <1>1, <1>2, <1>3, <1>10, <1>13, <2>1, <2>2, GoesKeeps
<1>14. CASE answer.ok /\ ~Stale /\ q.recording \ page.recording = {}
  <2>1. PICK b : b = Bootstrapped(q, answer.data # {})
    OBVIOUS
  <2>2. EndOp(b)
    BY <1>6, <1>9, <1>14, <2>1 DEF ClaimAnswered
  <2>3. b \in Page /\ Alike(q, b)
    BY <1>10, <1>14, <2>1, BootstrapIsAlike
  <2>4. /\ b.active = page.active /\ b.opening = page.opening
        /\ Works(shell, b, Behind(bridge), opened.ever)
        /\ First(mount) => Fresh(shell, b, Behind(bridge), opened.now)
    BY <1>10, <1>14, <2>3, AlikeWorks DEF Alike
  <2> QED
    BY <1>1, <1>2, <2>2, <2>3, <2>4, EndOpKeeps
<1> QED
  BY <1>11, <1>12, <1>13, <1>14

-----------------------------------------------------------------------------
(* The steps of the shell.                                                 *)

LEMMA AttemptsAre ==
  ASSUME NEW s \in Shell, Counted(s), NEW state \in Delivered
  PROVE  /\ Attempts(s, state) \in SUBSET Attempt /\ IsFiniteSet(Attempts(s, state))
         /\ \A a \in Attempts(s, state) : Stands(s, a, state)
<1> DEFINE S == {r \in Requests : s[r].state = state}
           f == [r \in S |-> [id |-> r, token |-> s[r].token]]
<1>1. Attempts(s, state) = {[id |-> r, token |-> s[r].token] : r \in S}
  BY DEF Attempts
<1>2. ASSUME NEW r \in S
      PROVE  /\ [id |-> r, token |-> s[r].token] \in Attempt
             /\ Stands(s, [id |-> r, token |-> s[r].token], state)
  BY ConsumerAssumption DEF Counted, Shell, Attempt, Stands
<1>3. IsFiniteSet(S)
  BY FS_Subset, ConsumerAssumption
<1>4. f \in Surjection(S, Attempts(s, state))
  BY <1>1 DEF Surjection
<1>5. IsFiniteSet(Attempts(s, state))
  <2> HIDE DEF S, f
  <2> QED
    BY <1>3, <1>4, FS_Surjection
<1> QED
  BY <1>1, <1>2, <1>5

\* The requests are claimed with tokens above all the others.
LEMMA ClaimedIs ==
  ASSUME shell \in Shell, LastToken + Cardinality(InState("queued")) <= MaxToken
  PROVE  /\ Claimed \in Shell
         /\ \A r \in Requests :
              /\ shell[r].state # "queued" => Claimed[r] = shell[r]
              /\ shell[r].state = "queued" =>
                   /\ Claimed[r].state = "processing"
                   /\ Claimed[r].token > shell[r].token
<1> DEFINE Q == InState("queued")
           order == SetToSeq(Q)
           Tokens == {shell[r].token : r \in Requests}
<1>1. IsFiniteSet(Q) /\ Q \in SUBSET Requests /\ Cardinality(Q) \in Nat
  <2>1. Q \in SUBSET Requests
    BY DEF InState
  <2>2. IsFiniteSet(Q)
    BY <2>1, FS_Subset, ConsumerAssumption
  <2> HIDE DEF Q
  <2> QED
    BY <2>1, <2>2, FS_CardinalityType
<1>2. order \in [1 .. Cardinality(Q) -> Q] /\ IsInjective(order)
  <2>1. PICK f : f \in Bijection(1 .. Cardinality(Q), Q)
    <3> HIDE DEF Q
    <3> QED
      BY <1>1, FS_CardinalityType DEF ExistsBijection
  <2>2. f \in [1 .. Cardinality(Q) -> Q] /\ IsInjective(f)
    BY <2>1 DEF Bijection, Injection
  <2> HIDE DEF Q
  <2> QED
    BY <2>2 DEF SetToSeq
<1>3. order \in Surjection(1 .. Cardinality(Q), Q)
  <2>1. order \in Injection(1 .. Cardinality(Q), Q)
    BY <1>2 DEF Injection
  <2>2. Cardinality(1 .. Cardinality(Q)) = Cardinality(Q)
    BY <1>1, FS_Interval
  <2> HIDE DEF Q, order
  <2> QED
    BY <1>1, <2>1, <2>2, FS_Injection
<1>4. ASSUME NEW r \in Q
      PROVE  LET i == CHOOSE j \in DOMAIN order : order[j] = r
             IN  i \in 1 .. Cardinality(Q)
  <2>1. DOMAIN order = 1 .. Cardinality(Q)
    BY <1>2
  <2>2. \E j \in 1 .. Cardinality(Q) : order[j] = r
    BY <1>3 DEF Surjection
  <2> HIDE DEF Q, order
  <2> QED
    BY <2>1, <2>2
<1>5. ASSUME NEW r \in Requests
      PROVE  LastToken \in Nat /\ shell[r].token <= LastToken
  <2>1. Tokens \in SUBSET Nat /\ \A n \in Tokens : n <= MaxToken
    BY ConsumerAssumption DEF Shell
  <2>2. shell[r].token \in Tokens /\ MaxToken \in Nat
    BY ConsumerAssumption
  <2>3. Max(Tokens) \in Tokens /\ \A n \in Tokens : n <= Max(Tokens)
    <3> HIDE DEF Tokens
    <3> QED
      BY <2>1, <2>2, MaxIsLargest
  <2>4. LastToken = Max(Tokens)
    BY DEF LastToken
  <2> HIDE DEF Tokens
  <2> QED
    BY <2>1, <2>2, <2>3, <2>4
<1>6. Claimed = [r \in Requests |->
                   IF r \in Q
                   THEN [state |-> "processing",
                         token |-> LastToken + CHOOSE i \in DOMAIN order : order[i] = r]
                   ELSE shell[r]]
  BY DEF Claimed
<1>7. \A r \in Requests : r \in Q <=> shell[r].state = "queued"
  BY DEF InState
<1> HIDE DEF Q, order
<1>8. ASSUME NEW r \in Requests, r \in Q
      PROVE  /\ Claimed[r] \in [state : {"processing"}, token : 0 .. MaxToken]
             /\ Claimed[r].token > shell[r].token
  <2>1. PICK i : i = CHOOSE j \in DOMAIN order : order[j] = r
    OBVIOUS
  <2>2. i \in 1 .. Cardinality(Q)
    BY <1>4, <1>8, <2>1
  <2>3. Claimed[r] = [state |-> "processing", token |-> LastToken + i]
    BY <1>6, <1>8, <2>1
  <2>4. LastToken \in Nat /\ shell[r].token <= LastToken /\ shell[r].token \in Nat
    BY <1>5 DEF Shell
  <2>5. LastToken + Cardinality(Q) <= MaxToken
    BY DEF Q
  <2>6. LastToken + i \in 0 .. MaxToken /\ LastToken + i > shell[r].token
    BY <1>1, <2>2, <2>4, <2>5, ConsumerAssumption
  <2> QED
    BY <2>3, <2>6
<1>9. \A r \in Requests : r \notin Q => Claimed[r] = shell[r]
  BY <1>6
<1>10. Claimed \in Shell
  <2>1. \A r \in Requests : Claimed[r] \in [state : {"absent", "queued"} \cup Delivered, token : 0 .. MaxToken]
    BY <1>8, <1>9 DEF Shell, Delivered
  <2> QED
    BY <1>6, <2>1 DEF Shell
<1> QED
  BY <1>7, <1>8, <1>9, <1>10

\* A new answer, or a request that was made.
LEMMA ShellKeeps ==
  ASSUME Consistent, UNCHANGED <<page, mount, bridge, run, call, opened>>,
         shell' \in Shell, Counted(shell'),
         Works(shell', page, Giving(bridge, run), opened.ever),
         First(mount) => Fresh(shell', page, Giving(bridge, run), opened.now),
         answer' \in [ok : BOOLEAN, data : SUBSET Attempt, here : BOOLEAN], IsFiniteSet(answer'.data),
         Told(shell', call, answer'), Opened(shell', opened.ever)
  PROVE  Consistent'
<1>1. Typed'
  BY DEF Consistent, Typed
<1> QED
  BY <1>1 DEF Consistent

\* One request goes one step further.
LEMMA RequestSteps ==
  ASSUME Consistent, NEW r \in Requests, NEW to, <<shell[r].state, to>> \in Steps,
         NEW z, z = Stepped(shell, r, to),
         to = "applied" => AttemptOf(shell, r) \in page.applied,
         shell[r].state = "processing" /\ to = "queued" => AttemptOf(shell, r) \in page.abandoning
  PROVE  /\ z \in Shell /\ Counted(z) /\ Opened(z, opened.ever)
         /\ Works(z, page, Giving(bridge, run), opened.ever)
         /\ First(mount) => Fresh(z, page, Giving(bridge, run), opened.now)
<1>1. /\ shell \in Shell /\ page \in Page /\ Giving(bridge, run) \in SUBSET Attempt
      /\ Works(shell, page, Giving(bridge, run), opened.ever)
      /\ First(mount) => Fresh(shell, page, Giving(bridge, run), opened.now)
  BY Running
<1>2. Counted(shell) /\ Opened(shell, opened.ever)
  BY DEF Consistent
<1>3. Positions(page) \in SUBSET Attempt
  <2>1. page.queue \in Seq(Attempt) /\ page.pending \in AnyAttempt /\ page.active \in AnyAttempt
    BY <1>1 DEF Page
  <2>2. page.opening => page.active # NoAttempt
    BY <1>1 DEF Works, Coherent
  <2>3. ToSet(page.queue) \in SUBSET Attempt
    BY <2>1, ElementsTyped
  <2> QED
    BY <2>1, <2>2, <2>3 DEF Positions, AnyAttempt
<1>4. PICK given \in SUBSET Attempt : given = Giving(bridge, run)
  BY <1>1
<1>5. /\ z \in Shell
      /\ Works(z, page, given, opened.ever)
      /\ First(mount) => Fresh(z, page, given, opened.now)
  <2>1. /\ z \in Shell
        /\ \A ever : Works(shell, page, given, ever) => Works(z, page, given, ever)
        /\ \A now : Fresh(shell, page, given, now) => Fresh(z, page, given, now)
    BY <1>1, <1>3, ShellSteps
  <2> QED
    BY <1>1, <1>4, <2>1
<1>6. /\ \A o \in Requests : z[o].token = shell[o].token
      /\ \A o \in Requests : o # r => z[o].state = shell[o].state
      /\ z[r].state = to
  BY <1>1 DEF Shell, Stepped
<1>7. Counted(z)
  BY <1>2, <1>6 DEF Counted, Steps, Delivered
<1>8. Opened(z, opened.ever)
  <2>1. to = "applied" => r \in opened.ever
    BY <1>1 DEF Works, Earned, AttemptOf
  <2> QED
    BY <1>2, <1>6, <2>1 DEF Opened, Steps
<1> QED
  BY <1>4, <1>5, <1>7, <1>8

LEMMA RequestKeeps ==
  ASSUME Consistent, NEW r \in Requests, Request(r)
  PROVE  Consistent'
<1>1. /\ shell[r].state = "absent" /\ shell' = [shell EXCEPT ![r] = [state |-> "queued", token |-> 0]]
      /\ UNCHANGED <<page, mount, bridge, run, call, answer, opened>>
  BY DEF Request, Set, bridgeVars
<1>2. shell[r].token = 0 /\ Typed
  BY <1>1 DEF Consistent, Counted
<1>3. <<shell[r].state, "queued">> \in Steps /\ shell' = Stepped(shell, r, "queued")
  BY <1>1, <1>2 DEF Steps, Stepped
<1>4. /\ shell' \in Shell /\ Counted(shell') /\ Opened(shell', opened.ever)
      /\ Works(shell', page, Giving(bridge, run), opened.ever)
      /\ First(mount) => Fresh(shell', page, Giving(bridge, run), opened.now)
  BY <1>1, <1>2, <1>3, RequestSteps
<1>5. Told(shell', call, answer)
  <2>1. Told(shell, call, answer) /\ call \in Calls /\ answer.data \in SUBSET Attempt
    BY <1>2 DEF Consistent, Typed
  <2>2. ASSUME NEW a \in Attempt
        PROVE  /\ \A state \in Delivered : Stands(shell, a, state) => Stands(shell', a, state)
               /\ shell[a.id].state = "done" => shell'[a.id].state = "done"
               /\ Stands(shell', a, "processing") => Stands(shell, a, "processing")
    BY <1>1, <1>2 DEF Typed, Shell, Stands, Attempt, Delivered
  <2>3. "applied" \in Delivered /\ "processing" \in Delivered
    BY DEF Delivered
  <2>4. call.kind \in {"ack", "abandon"} => call.attempt \in Attempt
    BY <2>1 DEF Calls, NoCall
  <2> QED
    BY <2>1, <2>2, <2>3, <2>4 DEF Told
<1> QED
  BY <1>1, <1>2, <1>4, <1>5, ShellKeeps DEF Typed

\* The shell as it is, with another answer to the command.
LEMMA AnswerKeeps ==
  ASSUME Consistent, UNCHANGED <<page, mount, bridge, run, call, opened, shell>>,
         NEW ok \in BOOLEAN, NEW data \in SUBSET Attempt, IsFiniteSet(data), answer' = Answers(ok, data),
         Told(shell, call, Answers(ok, data))
  PROVE  Consistent'
<1>1. Answers(ok, data) \in [ok : BOOLEAN, data : SUBSET Attempt, here : BOOLEAN]
      /\ Answers(ok, data).data = data
  BY DEF Answers
<1>2. /\ shell \in Shell /\ Works(shell, page, Giving(bridge, run), opened.ever)
      /\ First(mount) => Fresh(shell, page, Giving(bridge, run), opened.now)
  BY Running
<1>3. Counted(shell) /\ Opened(shell, opened.ever)
  BY DEF Consistent
<1> QED
  BY <1>1, <1>2, <1>3, ShellKeeps

\* The shell has taken one request a step further.
LEMMA SteppedKeeps ==
  ASSUME Consistent, UNCHANGED <<page, mount, bridge, run, call, opened>>,
         NEW r \in Requests, NEW to, <<shell[r].state, to>> \in Steps, shell' = Stepped(shell, r, to),
         to = "applied" => AttemptOf(shell, r) \in page.applied,
         shell[r].state = "processing" /\ to = "queued" => AttemptOf(shell, r) \in page.abandoning,
         NEW ok \in BOOLEAN, answer' = Answers(ok, {}), Told(shell', call, Answers(ok, {}))
  PROVE  Consistent'
<1>1. /\ Answers(ok, {}) \in [ok : BOOLEAN, data : SUBSET Attempt, here : BOOLEAN]
      /\ IsFiniteSet(Answers(ok, {}).data)
  BY FS_EmptySet DEF Answers
<1>2. /\ shell' \in Shell /\ Counted(shell') /\ Opened(shell', opened.ever)
      /\ Works(shell', page, Giving(bridge, run), opened.ever)
      /\ First(mount) => Fresh(shell', page, Giving(bridge, run), opened.now)
  BY RequestSteps
<1> QED
  BY <1>1, <1>2, ShellKeeps

\* An attempt that is recorded is applied by the page, whether the answer arrives or not.
LEMMA RecordKeeps ==
  ASSUME Consistent, UNCHANGED <<page, mount, bridge, run, call, opened>>,
         call.kind = "record", NEW ok \in BOOLEAN, answer' = Answers(ok, {}),
         shell' = IF IsAttempt(call.attempt, "processing")
                  THEN Set(call.attempt.id, "applied", call.attempt.token) ELSE shell
  PROVE  Consistent'
<1>1. PICK a \in Attempt : a = call.attempt
  BY DEF Consistent, Typed, Calls, NoCall
<1>2. \A s : Told(s, call, Answers(ok, {}))
  BY DEF Told, Answers
<1>3. a \in page.applied
  BY <1>1, CompletionsAreApplied DEF Consistent, Sent, Works
<1>4. CASE IsAttempt(call.attempt, "processing")
  <2>1. Stands(shell, a, "processing")
    BY <1>1, <1>4 DEF IsAttempt, Stands
  <2>2. AttemptOf(shell, a.id) = a /\ a.id \in Requests /\ shell[a.id].state = "processing"
    BY <2>1, StandingIsTheOne
  <2>3. shell' = Stepped(shell, a.id, "applied")
    BY <1>1, <1>4, <2>1 DEF Set, Stepped, Stands
  <2>4. <<shell[a.id].state, "applied">> \in Steps
    BY <2>2 DEF Steps
  <2> QED
    BY <1>2, <1>3, <2>2, <2>3, <2>4, SteppedKeeps
<1>5. CASE ~IsAttempt(call.attempt, "processing")
  <2>1. shell' = shell /\ IsFiniteSet({})
    BY <1>5, FS_EmptySet
  <2> QED
    BY <1>2, <2>1, AnswerKeeps
<1> QED
  BY <1>4, <1>5

LEMMA ShellFailsKeeps ==
  ASSUME Consistent, ShellFails
  PROVE  Consistent'
<1>1. /\ UNCHANGED <<page, mount, bridge, run, call, opened>> /\ answer' = Answers(FALSE, {})
      /\ shell' = IF call.kind = "record" /\ IsAttempt(call.attempt, "processing")
                  THEN Set(call.attempt.id, "applied", call.attempt.token) ELSE shell
  BY DEF ShellFails, Fault
<1>2. CASE call.kind = "record"
  BY <1>1, <1>2, RecordKeeps
<1>3. CASE call.kind # "record"
  <2>1. shell' = shell /\ IsFiniteSet({})
    BY <1>1, <1>3, FS_EmptySet
  <2>2. Told(shell, call, Answers(FALSE, {}))
    BY DEF Told, Answers
  <2> QED
    BY <1>1, <2>1, <2>2, AnswerKeeps
<1> QED
  BY <1>2, <1>3

\* No claimed attempt is one the page has seen, or is giving back: its token is new.
LEMMA ClaimKeepsShell ==
  ASSUME Consistent, LastToken + Cardinality(InState("queued")) <= MaxToken, NEW z, z = Claimed
  PROVE  /\ z \in Shell /\ Counted(z) /\ Opened(z, opened.ever)
         /\ Works(z, page, Giving(bridge, run), opened.ever)
         /\ First(mount) => Fresh(z, page, Giving(bridge, run), opened.now)
<1>1. /\ shell \in Shell /\ page \in Page /\ Giving(bridge, run) \in SUBSET Attempt
      /\ Works(shell, page, Giving(bridge, run), opened.ever)
      /\ First(mount) => Fresh(shell, page, Giving(bridge, run), opened.now)
  BY Running
<1>2. Counted(shell) /\ Opened(shell, opened.ever)
  BY DEF Consistent
<1>3. z \in Shell
  BY <1>1, ClaimedIs
<1>4. ASSUME NEW r \in Requests
      PROVE  /\ shell[r].state # "queued" => z[r] = shell[r]
             /\ shell[r].state = "queued" => z[r].state = "processing" /\ z[r].token > shell[r].token
             /\ z[r].token \in Nat /\ shell[r].token \in Nat
  BY <1>1, <1>3, ClaimedIs DEF Shell
<1>5. \A r \in Requests : shell[r].token <= z[r].token
  <2>1. ASSUME NEW r \in Requests
        PROVE  shell[r].token <= z[r].token
    BY <1>4
  <2> QED
    BY <2>1
<1>6. Counted(z)
  BY <1>2, <1>4 DEF Counted
<1>7. Opened(z, opened.ever)
  BY <1>2, <1>4 DEF Opened
<1>8. PICK given \in SUBSET Attempt : given = Giving(bridge, run)
  BY <1>1
<1>9. Works(z, page, given, opened.ever)
  <2>1. Coherent(page) /\ Earned(page, opened.ever) /\ page.seen \in SUBSET Attempt
        /\ page.current \in [Requests -> 0 .. MaxToken]
    BY <1>1 DEF Works, Page
  <2>2. Past(z, page)
    <3>1. ASSUME NEW r \in Requests
          PROVE  page.current[r] <= z[r].token
      <4>1. page.current[r] <= shell[r].token /\ page.current[r] \in Nat
        BY <1>1, <2>1 DEF Works, Past
      <4> QED
        BY <1>4, <1>5, <4>1
    <3> QED
      BY <3>1 DEF Past
  <2>3. Held(z, page, given)
    <3>1. ASSUME NEW r \in Requests, z[r].state = "processing", AttemptOf(z, r) \in page.seen
          PROVE  AttemptOf(z, r) \in Positions(page) \cup page.applied \cup page.abandoning \cup given
      <4>1. page.current[r] = z[r].token
        BY <2>1, <3>1 DEF Coherent, IsCurrent, AttemptOf
      <4>2. page.current[r] <= shell[r].token
        BY <1>1 DEF Works, Past
      <4>3. shell[r].state # "queued"
        BY <1>4, <4>1, <4>2
      <4>4. z[r] = shell[r] /\ AttemptOf(z, r) = AttemptOf(shell, r)
        BY <1>4, <4>3 DEF AttemptOf
      <4> QED
        BY <1>1, <1>8, <3>1, <4>4 DEF Works, Held
    <3> QED
      BY <3>1 DEF Held
  <2> QED
    BY <2>1, <2>2, <2>3 DEF Works
<1>10. ASSUME First(mount)
       PROVE  Fresh(z, page, given, opened.now)
  <2>1. Fresh(shell, page, given, opened.now)
    BY <1>1, <1>8, <1>10
  <2>2. Positions(page) \in SUBSET Attempt
    <3>1. page.queue \in Seq(Attempt) /\ page.pending \in AnyAttempt /\ page.active \in AnyAttempt
      BY <1>1 DEF Page
    <3>2. page.opening => page.active # NoAttempt
      BY <1>1 DEF Works, Coherent
    <3>3. ToSet(page.queue) \in SUBSET Attempt
      BY <3>1, ElementsTyped
    <3> QED
      BY <3>1, <3>2, <3>3 DEF Positions, AnyAttempt
  <2>3. ASSUME NEW b \in Attempt, Stands(shell, b, "processing")
        PROVE  Stands(z, b, "processing")
    <3>1. b.id \in Requests /\ shell[b.id].state # "queued"
      BY <2>3 DEF Stands, Attempt
    <3> QED
      BY <1>4, <2>3, <3>1 DEF Stands
  <2>4. \A r \in Requests : opened.now[r] > 0 => z[r].state = "done" \/ \E b \in page.applied : b.id = r
    BY <1>4, <2>1 DEF Fresh
  <2>5. ASSUME NEW b \in page.abandoning \cup given
        PROVE  b.token <= z[b.id].token /\ (Stands(z, b, "processing") => b \in page.seen)
    <3>1. b \in Attempt /\ b.id \in Requests /\ b.token \in Nat
      BY <1>1 DEF Page, Attempt
    <3>2. b.token <= shell[b.id].token /\ (Stands(shell, b, "processing") => b \in page.seen)
      BY <2>1 DEF Fresh
    <3>3. b.token <= z[b.id].token
      BY <1>4, <1>5, <3>1, <3>2
    <3>4. ASSUME Stands(z, b, "processing")
          PROVE  Stands(shell, b, "processing")
      <4>1. shell[b.id].state # "queued"
        BY <1>4, <3>1, <3>2, <3>4 DEF Stands
      <4> QED
        BY <1>4, <3>1, <3>4, <4>1 DEF Stands
    <3> QED
      BY <3>2, <3>3, <3>4
  <2>6. ASSUME NEW r \in Requests, z[r].state \in {"applied", "done"}
        PROVE  /\ AttemptOf(z, r) \notin page.abandoning \cup given
               /\ AttemptOf(z, r) \in page.seen => AttemptOf(z, r) \in page.applied
    <3>1. z[r] = shell[r] /\ AttemptOf(z, r) = AttemptOf(shell, r)
      BY <1>4, <2>6 DEF AttemptOf
    <3> QED
      BY <2>1, <2>6, <3>1 DEF Fresh
  <2>7. ASSUME NEW b \in Positions(page)
        PROVE  Stands(z, b, "processing")
    BY <2>1, <2>2, <2>3 DEF Fresh
  <2> QED
    BY <2>1, <2>4, <2>5, <2>6, <2>7 DEF Fresh
<1> QED
  BY <1>3, <1>6, <1>7, <1>8, <1>9, <1>10

LEMMA ShellAnswersKeeps ==
  ASSUME Consistent, ShellAnswers
  PROVE  Consistent'
<1>1. call # NoCall /\ Execute /\ UNCHANGED <<page, mount, bridge, run, call, opened>>
  BY DEF ShellAnswers
<1>2. /\ shell \in Shell /\ Counted(shell) /\ call \in Calls
  BY DEF Consistent, Typed
<1>3. call.kind \in {"recover", "claim", "record", "ack", "abandon"}
  BY <1>1, <1>2 DEF Calls
<1>4. call.kind \in {"record", "ack", "abandon"} => call.attempt \in Attempt
  BY <1>2 DEF Calls, NoCall
<1>5. CASE call.kind = "recover"
  <2>1. shell' = shell /\ answer' = Answers(TRUE, Attempts(shell, "applied"))
    BY <1>1, <1>5 DEF Execute
  <2>2. /\ Attempts(shell, "applied") \in SUBSET Attempt /\ IsFiniteSet(Attempts(shell, "applied"))
        /\ \A a \in Attempts(shell, "applied") : Stands(shell, a, "applied")
    BY <1>2, AttemptsAre DEF Delivered
  <2>3. Told(shell, call, Answers(TRUE, Attempts(shell, "applied")))
    BY <1>5, <2>2 DEF Told, Answers
  <2> QED
    BY <1>1, <2>1, <2>2, <2>3, AnswerKeeps
<1>6. CASE call.kind = "claim"
  <2>1. /\ LastToken + Cardinality(InState("queued")) <= MaxToken
        /\ shell' = Claimed /\ answer' = Answers(TRUE, Attempts(Claimed, "processing"))
    BY <1>1, <1>6 DEF Execute
  <2>2. /\ shell' \in Shell /\ Counted(shell') /\ Opened(shell', opened.ever)
        /\ Works(shell', page, Giving(bridge, run), opened.ever)
        /\ First(mount) => Fresh(shell', page, Giving(bridge, run), opened.now)
    BY <2>1, ClaimKeepsShell
  <2>3. PICK data : data = Attempts(shell', "processing")
    OBVIOUS
  <2>4. /\ data \in SUBSET Attempt /\ IsFiniteSet(data)
        /\ \A a \in data : Stands(shell', a, "processing")
    BY <2>2, <2>3, AttemptsAre DEF Delivered
  <2>5. answer' = Answers(TRUE, data)
    BY <2>1, <2>3
  <2>6. Told(shell', call, answer')
    BY <1>6, <2>4, <2>5 DEF Told, Answers
  <2>7. /\ answer' \in [ok : BOOLEAN, data : SUBSET Attempt, here : BOOLEAN]
        /\ IsFiniteSet(answer'.data)
    BY <2>4, <2>5 DEF Answers
  <2> QED
    BY <1>1, <2>2, <2>6, <2>7, ShellKeeps
<1>7. CASE call.kind = "record"
  <2>1. PICK ok \in BOOLEAN : ok = (\/ IsAttempt(call.attempt, "processing")
                                    \/ IsAttempt(call.attempt, "applied")
                                    \/ IsAttempt(call.attempt, "done"))
    OBVIOUS
  <2>2. /\ shell' = IF IsAttempt(call.attempt, "processing")
                    THEN Set(call.attempt.id, "applied", call.attempt.token) ELSE shell
        /\ answer' = Answers(ok, {})
    BY <1>1, <1>7, <2>1 DEF Execute
  <2> QED
    BY <1>1, <1>7, <2>2, RecordKeeps
<1>8. CASE call.kind = "ack"
  <2>1. PICK a \in Attempt : a = call.attempt
    BY <1>4, <1>8
  <2>2. PICK ok \in BOOLEAN : ok = (\/ IsAttempt(a, "applied")
                                    \/ IsAttempt(a, "done"))
    OBVIOUS
  <2>3. /\ shell' = IF IsAttempt(a, "applied") THEN Set(a.id, "done", a.token) ELSE shell
        /\ answer' = Answers(ok, {})
    BY <1>1, <1>8, <2>1, <2>2 DEF Execute
  <2>4. CASE IsAttempt(a, "applied")
    <3>1. Stands(shell, a, "applied")
      BY <2>4 DEF IsAttempt, Stands
    <3>2. AttemptOf(shell, a.id) = a /\ a.id \in Requests /\ shell[a.id].state = "applied"
      BY <3>1, StandingIsTheOne
    <3>3. shell' = Stepped(shell, a.id, "done")
      BY <2>3, <2>4, <3>1 DEF Set, Stepped, Stands
    <3>4. <<shell[a.id].state, "done">> \in Steps
      BY <3>2 DEF Steps
    <3>5. Told(shell', call, Answers(ok, {}))
      BY <1>2, <1>8, <2>1, <3>2, <3>3 DEF Told, Answers, Stepped, Shell
    <3> QED
      BY <1>1, <2>3, <3>2, <3>3, <3>4, <3>5, SteppedKeeps
  <2>5. CASE ~IsAttempt(a, "applied")
    <3>1. shell' = shell /\ IsFiniteSet({})
      BY <2>3, <2>5, FS_EmptySet
    <3>2. Told(shell, call, Answers(ok, {}))
      BY <1>8, <2>1, <2>2, <2>5 DEF Told, Answers, IsAttempt
    <3> QED
      BY <1>1, <2>3, <3>1, <3>2, AnswerKeeps
  <2> QED
    BY <2>4, <2>5
<1>9. CASE call.kind = "abandon"
  <2>1. PICK a \in Attempt : a = call.attempt
    BY <1>4, <1>9
  <2>2. PICK ok \in BOOLEAN : ok = (IsAttempt(a, "processing") \/ shell[a.id].state = "queued")
    OBVIOUS
  <2>3. /\ shell' = IF IsAttempt(a, "processing") THEN Set(a.id, "queued", a.token) ELSE shell
        /\ answer' = Answers(ok, {})
    BY <1>1, <1>9, <2>1, <2>2 DEF Execute
  <2>4. CASE IsAttempt(a, "processing")
    <3>1. Stands(shell, a, "processing")
      BY <2>4 DEF IsAttempt, Stands
    <3>2. AttemptOf(shell, a.id) = a /\ a.id \in Requests /\ shell[a.id].state = "processing"
      BY <3>1, StandingIsTheOne
    <3>3. shell' = Stepped(shell, a.id, "queued")
      BY <2>3, <2>4, <3>1 DEF Set, Stepped, Stands
    <3>4. <<shell[a.id].state, "queued">> \in Steps
      BY <3>2 DEF Steps
    <3>5. Told(shell', call, Answers(ok, {}))
      BY <1>2, <1>9, <2>1, <3>2, <3>3 DEF Told, Answers, Stepped, Stands, Shell
    <3>6. a \in page.abandoning
      BY <1>9, <2>1 DEF Consistent, Sent
    <3> QED
      BY <1>1, <2>3, <3>2, <3>3, <3>4, <3>5, <3>6, SteppedKeeps
  <2>5. CASE ~IsAttempt(a, "processing")
    <3>1. shell' = shell /\ IsFiniteSet({})
      BY <2>3, <2>5, FS_EmptySet
    <3>2. Told(shell, call, Answers(ok, {}))
      BY <1>9, <2>1, <2>2, <2>5 DEF Told, Answers, IsAttempt, Stands
    <3> QED
      BY <1>1, <2>3, <3>1, <3>2, AnswerKeeps
  <2> QED
    BY <2>4, <2>5
<1> QED
  BY <1>3, <1>5, <1>6, <1>7, <1>8, <1>9

-----------------------------------------------------------------------------
(* The steps of the component, the user and the editor.                    *)

\* Only the runtime changes.
LEMMA PageKeeps ==
  ASSUME Consistent, UNCHANGED <<shell, mount, bridge, run, call, answer, opened>>, page' \in Page,
         Works(shell, page', Giving(bridge, run), opened.ever),
         First(mount) => Fresh(shell, page', Giving(bridge, run), opened.now),
         Waited(bridge, page'), Sent(call, page'), Once(mount, bridge, page', opened.now)
  PROVE  Consistent'
<1>1. Typed'
  BY DEF Consistent, Typed
<1> QED
  BY <1>1 DEF Consistent

\* What is said of the bridge and the calls is about these parts of the runtime.
LEMMA AlikeWaits ==
  ASSUME NEW p, NEW q, Alike(p, q), NEW m, NEW b, NEW c, NEW now
  PROVE  /\ Waited(b, p) => Waited(b, q)
         /\ Sent(c, p) => Sent(c, q)
         /\ Once(m, b, p, now) => Once(m, b, q, now)
BY DEF Alike, Waited, Sent, Once

LEMMA AlikeKeeps ==
  ASSUME Consistent, UNCHANGED <<shell, mount, bridge, run, call, answer, opened>>,
         NEW q \in Page, page' = q, Alike(page, q)
  PROVE  Consistent'
<1>1. /\ Works(shell, page, Giving(bridge, run), opened.ever)
      /\ First(mount) => Fresh(shell, page, Giving(bridge, run), opened.now)
  BY Running
<1>2. /\ Works(shell, q, Giving(bridge, run), opened.ever)
      /\ First(mount) => Fresh(shell, q, Giving(bridge, run), opened.now)
  BY <1>1, AlikeWorks
<1>3. Waited(bridge, page) /\ Sent(call, page) /\ Once(mount, bridge, page, opened.now)
  BY DEF Consistent
<1>4. Waited(bridge, q) /\ Sent(call, q) /\ Once(mount, bridge, q, opened.now)
  BY <1>3, AlikeWaits
<1> QED
  BY <1>2, <1>4, PageKeeps

\* The component synchronizes once more.
LEMMA SyncKeeps ==
  ASSUME Consistent, UNCHANGED <<shell, run, call, answer, opened>>,
         bridge' = Append(bridge, Sync(mount.generation)),
         mount' \in [generation : Nat, mounted : BOOLEAN, listening : BOOLEAN, listens : BOOLEAN],
         mount'.generation = mount.generation, mount'.mounted = mount.mounted,
         NEW q \in Page, page' = q, Alike(page, q)
  PROVE  Consistent'
<1>1. /\ bridge \in Seq(Operations)
      /\ run # Idle => bridge # <<>>
      /\ Works(shell, page, Giving(bridge, run), opened.ever)
      /\ First(mount) => Fresh(shell, page, Giving(bridge, run), opened.now) /\ run.stage # "late"
  BY Running
<1>2. PICK o \in Operations : /\ o = Sync(mount.generation) /\ o.op = "sync" /\ o.attempts = {}
                              /\ ~o.opens /\ o.generation = mount.generation
  <2>1. mount.generation \in Nat
    BY DEF Consistent, Typed
  <2>2. /\ Sync(mount.generation) \in Operations
        /\ Sync(mount.generation).op = "sync" /\ Sync(mount.generation).attempts = {}
        /\ Sync(mount.generation).opens = FALSE /\ Sync(mount.generation).generation = mount.generation
    BY <2>1 DEF Operations, Sync
  <2> QED
    BY <2>2
<1>3. Typed /\ Chain(bridge, run, call) /\ Waited(bridge, page) /\ Sent(call, page)
      /\ Once(mount, bridge, page, opened.now)
  BY DEF Consistent
<1>4. /\ bridge' \in Seq(Operations)
      /\ Len(bridge') = Len(bridge) + 1 /\ bridge'[Len(bridge) + 1] = o
      /\ \A i \in 1 .. Len(bridge) : bridge'[i] = bridge[i]
      /\ Giving(bridge', run) = Giving(bridge, run) \cup (IF o.op = "abandon" THEN o.attempts ELSE {})
      /\ Chain(bridge', run, call)
  <2>1. PICK d : d = bridge'
    OBVIOUS
  <2>2. d = Append(bridge, o)
    BY <1>2, <2>1
  <2>3. bridge \in Seq(Operations) /\ (o.op = "sync" => o.attempts = {} /\ ~o.opens)
    BY <1>1, <1>2
  <2>4. Chain(bridge, run, call)
    BY <1>3
  <2>5. Entered(bridge, o, run, d) /\ Chain(d, run, call)
    BY <2>2, <2>3, <2>4, Enqueued
  <2> QED
    BY <2>1, <2>5 DEF Entered
<1>5. Giving(bridge', run) = Giving(bridge, run) /\ Chain(bridge', run, call)
  BY <1>2, <1>3, <1>4
<1>6. /\ Works(shell, q, Giving(bridge, run), opened.ever)
      /\ First(mount) => Fresh(shell, q, Giving(bridge, run), opened.now)
  BY <1>1, AlikeWorks
<1>7. Waited(bridge, q) /\ Sent(call, q) /\ Once(mount, bridge, q, opened.now)
  BY <1>3, AlikeWaits
<1>8. \A i \in 1 .. Len(bridge') : (i \in 1 .. Len(bridge) /\ bridge'[i] = bridge[i]) \/ bridge'[i] = o
  <2>1. Len(bridge) \in Nat
    BY <1>1
  <2> QED
    BY <1>4, <2>1
<1>9. Waited(bridge', q)
  BY <1>2, <1>7, <1>8 DEF Waited
<1>10. Once(mount', bridge', q, opened.now)
  BY <1>2, <1>7, <1>8 DEF Once
<1>11. Typed'
  BY <1>3, <1>4 DEF Typed
<1>12. First(mount') <=> First(mount)
  BY DEF First
<1> QED
  BY <1>1, <1>5, <1>6, <1>7, <1>9, <1>10, <1>11, <1>12 DEF Consistent

LEMMA ListenKeeps ==
  ASSUME Consistent, NEW listens \in BOOLEAN, Listen(listens)
  PROVE  Consistent'
<1>1. /\ mount' = [mount EXCEPT !.listening = TRUE, !.listens = listens]
      /\ bridge' = Append(bridge, Sync(mount.generation))
      /\ UNCHANGED <<shell, run, call, answer, opened>>
      /\ page' = IF listens THEN Resolved(page, <<"listener", NoAttempt>>)
                 ELSE Failed(page, <<"listener", NoAttempt>>)
  BY DEF Listen
<1>2. /\ mount' \in [generation : Nat, mounted : BOOLEAN, listening : BOOLEAN, listens : BOOLEAN]
      /\ mount'.generation = mount.generation /\ mount'.mounted = mount.mounted
  BY <1>1 DEF Consistent, Typed
<1>3. page \in Page /\ <<"listener", NoAttempt>> \in Sources
  BY DEF Consistent, Typed, Sources, AnyAttempt
<1>4. PICK q : q = page'
  OBVIOUS
<1>5. q \in Page /\ Alike(page, q)
  BY <1>1, <1>3, <1>4, ReportsAreAlike
<1> QED
  BY <1>1, <1>2, <1>4, <1>5, SyncKeeps

LEMMA SyncingKeeps ==
  ASSUME Consistent, HintArrives \/ RetrySynchronization
  PROVE  Consistent'
<1>1. page \in Page /\ Alike(page, page)
      /\ mount \in [generation : Nat, mounted : BOOLEAN, listening : BOOLEAN, listens : BOOLEAN]
  BY DEF Consistent, Typed, Alike
<1>2. UNCHANGED <<shell, page, run, call, answer, opened>>
  BY DEF HintArrives, RetrySynchronization
<1>3. \/ bridge' = Append(bridge, Sync(mount.generation)) /\ UNCHANGED mount
      \/ UNCHANGED <<bridge, mount>>
      \/ UNCHANGED bridge /\ mount' = [mount EXCEPT !.listening = FALSE, !.listens = TRUE]
  BY DEF HintArrives, RetrySynchronization
<1>4. CASE bridge' = Append(bridge, Sync(mount.generation)) /\ UNCHANGED mount
  BY <1>1, <1>2, <1>4, SyncKeeps
<1>5. CASE UNCHANGED <<bridge, mount>>
  BY <1>1, <1>2, <1>5, AlikeKeeps
<1>6. CASE UNCHANGED bridge /\ mount' = [mount EXCEPT !.listening = FALSE, !.listens = TRUE]
  <2>1. /\ mount' \in [generation : Nat, mounted : BOOLEAN, listening : BOOLEAN, listens : BOOLEAN]
        /\ mount'.generation = mount.generation /\ mount'.mounted = mount.mounted
    BY <1>1, <1>6
  <2>2. Typed' /\ (First(mount') <=> First(mount))
    BY <1>2, <1>6, <2>1 DEF Consistent, Typed, First
  <2>3. Once(mount', bridge', page', opened'.now)
    BY <1>2, <1>6, <2>1 DEF Consistent, Once
  <2> QED
    BY <1>2, <1>6, <2>2, <2>3 DEF Consistent
<1> QED
  BY <1>3, <1>4, <1>5, <1>6

LEMMA UnmountKeeps ==
  ASSUME Consistent, Unmount
  PROVE  Consistent'
<1>1. mount' = [mount EXCEPT !.mounted = FALSE] /\ UNCHANGED <<shell, page, bridge, run, call, answer, opened>>
  BY DEF Unmount, bridgeVars
<1>2. /\ mount' \in [generation : Nat, mounted : BOOLEAN, listening : BOOLEAN, listens : BOOLEAN]
      /\ mount'.generation = mount.generation /\ mount'.mounted = FALSE
  BY <1>1 DEF Consistent, Typed
<1>3. Typed' /\ ~First(mount')
  BY <1>1, <1>2 DEF Consistent, Typed, First
<1>4. Once(mount', bridge', page', opened'.now)
  BY <1>1, <1>2 DEF Consistent, Once
<1> QED
  BY <1>1, <1>3, <1>4 DEF Consistent

LEMMA MountKeeps ==
  ASSUME Consistent, Mount
  PROVE  Consistent'
<1>1. /\ mount' = [generation |-> mount.generation + 1, mounted |-> TRUE, listening |-> FALSE,
                   listens |-> TRUE]
      /\ page' = Notified([page EXCEPT !.muted = @ \ {<<"listener", NoAttempt>>}])
      /\ UNCHANGED <<shell, bridge, run, call, answer, opened>>
  BY DEF Mount, bridgeVars
<1>2. /\ mount' \in [generation : Nat, mounted : BOOLEAN, listening : BOOLEAN, listens : BOOLEAN]
      /\ mount'.generation > 0 /\ mount'.generation # 1
  BY <1>1 DEF Consistent, Typed
<1>3. PICK q : q = Notified([page EXCEPT !.muted = @ \ {<<"listener", NoAttempt>>}])
  OBVIOUS
<1>4. q \in Page /\ Alike(page, q)
  BY <1>3 DEF Consistent, Typed, Page, Notified, Alike
<1>5. Works(shell, q, Giving(bridge, run), opened.ever)
  BY <1>4, AlikeWorks DEF Consistent
<1>6. Waited(bridge, q) /\ Sent(call, q)
  BY <1>4, AlikeWaits DEF Consistent
<1>7. Typed' /\ ~First(mount') /\ Once(mount', bridge', page', opened'.now)
  BY <1>1, <1>2, <1>3, <1>4 DEF Consistent, Typed, First, Once
<1> QED
  BY <1>1, <1>3, <1>5, <1>6, <1>7 DEF Consistent

\* A new page: it has seen nothing, and the bridge is empty.
LEMMA NewPageWorks ==
  ASSUME NEW s \in Shell
  PROVE  /\ NewPage \in Page /\ ~NewPage.opening /\ Giving(<<>>, Idle) = {}
         /\ \A ever : Works(s, NewPage, {}, ever)
         /\ Fresh(s, NewPage, {}, [r \in Requests |-> 0])
<1>1. /\ NewPage.current = [r \in Requests |-> 0] /\ NewPage.queue = <<>>
      /\ NewPage.pending = NoAttempt /\ NewPage.active = NoAttempt /\ NewPage.opening = FALSE
      /\ NewPage.applied = {} /\ NewPage.seen = {} /\ NewPage.recording = {}
      /\ NewPage.acknowledging = {} /\ NewPage.abandoning = {}
  BY DEF NewPage
<1>2. NewPage \in Page
  <2>1. [r \in Requests |-> 0] \in [Requests -> 0 .. MaxToken]
    BY ConsumerAssumption
  <2>2. <<>> \in Seq(Attempt) /\ NoAttempt \in AnyAttempt
    BY DEF AnyAttempt
  <2> QED
    BY <2>1, <2>2 DEF NewPage, Page
<1>3. ToSet(<<>>) = {} /\ IsInjective(<<>>)
  BY DEF ToSet, IsInjective
<1>4. Positions(NewPage) = {}
  BY <1>1, <1>3 DEF Positions
<1>5. Past(s, NewPage)
  BY <1>1 DEF Past, Shell
<1>6. \A ever : Works(s, NewPage, {}, ever)
  BY <1>1, <1>5 DEF Works, Coherent, Held, Earned, Completions
<1>7. Fresh(s, NewPage, {}, [r \in Requests |-> 0])
  BY <1>1, <1>3, <1>4 DEF Fresh
<1>8. Giving(<<>>, Idle) = {}
  BY DEF Giving, Idle
<1> QED
  BY <1>1, <1>2, <1>6, <1>7, <1>8

\* A page that is loaded: what the shell knows is consistent with it.
LEMMA LoadedPage ==
  ASSUME NEW s \in Shell, NEW m, m.generation = 1, NEW ever
  PROVE  /\ Works(s, NewPage, Giving(<<>>, Idle), ever)
         /\ Fresh(s, NewPage, Giving(<<>>, Idle), [r \in Requests |-> 0])
         /\ Chain(<<>>, Idle, NoCall) /\ Waited(<<>>, NewPage) /\ Sent(NoCall, NewPage)
         /\ Told(s, NoCall, NoAnswer) /\ Once(m, <<>>, NewPage, [r \in Requests |-> 0])
         /\ <<>> \in Seq(Operations) /\ Idle \in [stage : Stages, todo : SUBSET Attempt]
         /\ NoCall \in Calls /\ NoAnswer \in [ok : BOOLEAN, data : SUBSET Attempt, here : BOOLEAN]
         /\ IsFiniteSet(NoAnswer.data) /\ Idle.stage # "late" /\ NewPage \in Page
<1>1. /\ NewPage \in Page /\ ~NewPage.opening /\ Giving(<<>>, Idle) = {}
      /\ Works(s, NewPage, {}, ever)
      /\ Fresh(s, NewPage, {}, [r \in Requests |-> 0])
  BY NewPageWorks
<1>2. Chain(<<>>, Idle, NoCall) /\ Waited(<<>>, NewPage) /\ Sent(NoCall, NewPage)
  BY DEF Chain, Idle, NoCall, Waited, Sent
<1>3. Told(s, NoCall, NoAnswer) /\ Once(m, <<>>, NewPage, [r \in Requests |-> 0])
  BY <1>1 DEF Told, NoAnswer, Once
<1>4. /\ <<>> \in Seq(Operations) /\ Idle \in [stage : Stages, todo : SUBSET Attempt]
      /\ NoCall \in Calls /\ NoAnswer \in [ok : BOOLEAN, data : SUBSET Attempt, here : BOOLEAN]
      /\ IsFiniteSet(NoAnswer.data) /\ Idle.stage # "late"
  BY FS_EmptySet DEF Idle, Stages, Calls, NoAnswer
<1> QED
  BY <1>1, <1>2, <1>3, <1>4

LEMMA ReloadKeeps ==
  ASSUME Consistent, Reload
  PROVE  Consistent'
<1>1. /\ page' = NewPage /\ bridge' = <<>> /\ run' = Idle /\ call' = NoCall /\ answer' = NoAnswer
      /\ mount' = [generation |-> 1, mounted |-> TRUE, listening |-> FALSE, listens |-> TRUE]
      /\ opened' = [opened EXCEPT !.now = [r \in Requests |-> 0]] /\ UNCHANGED shell
  BY DEF Reload, SendsNothing
<1>2. PICK zero : zero = [r \in Requests |-> 0]
  OBVIOUS
<1>3. /\ zero \in [Requests -> Nat]
      /\ opened' = [opened EXCEPT !.now = zero]
  BY <1>1, <1>2
<1>4. opened'.ever = opened.ever /\ opened'.now = zero
      /\ opened' \in [now : [Requests -> Nat], ever : SUBSET Requests]
  BY <1>3 DEF Consistent, Typed
<1>5. /\ Works(shell, NewPage, Giving(<<>>, Idle), opened.ever)
      /\ Fresh(shell, NewPage, Giving(<<>>, Idle), zero)
      /\ Chain(<<>>, Idle, NoCall) /\ Waited(<<>>, NewPage) /\ Sent(NoCall, NewPage)
      /\ Told(shell, NoCall, NoAnswer) /\ Once(mount', <<>>, NewPage, zero)
      /\ <<>> \in Seq(Operations) /\ Idle \in [stage : Stages, todo : SUBSET Attempt]
      /\ NoCall \in Calls /\ NoAnswer \in [ok : BOOLEAN, data : SUBSET Attempt, here : BOOLEAN]
      /\ IsFiniteSet(NoAnswer.data) /\ Idle.stage # "late" /\ NewPage \in Page
  <2>1. shell \in Shell
    BY DEF Consistent, Typed
  <2>2. PICK m : m = mount'
    OBVIOUS
  <2>3. m.generation = 1
    BY <1>1, <2>2
  <2> QED
    BY <1>2, <2>1, <2>2, <2>3, LoadedPage
<1>6. Typed'
  <2>1. mount'.generation > 0
        /\ mount' \in [generation : Nat, mounted : BOOLEAN, listening : BOOLEAN, listens : BOOLEAN]
    BY <1>1
  <2>2. shell' \in Shell
    BY <1>1 DEF Consistent, Typed
  <2> QED
    BY <1>1, <1>4, <1>5, <2>1, <2>2 DEF Typed
<1>7. Counted(shell) /\ Opened(shell, opened.ever)
  BY DEF Consistent
<1> QED
  BY <1>1, <1>4, <1>5, <1>6, <1>7 DEF Consistent

LEMMA BecomesReadyKeeps ==
  ASSUME Consistent, BecomesReady
  PROVE  Consistent'
<1>1. page' = Notified(page) /\ UNCHANGED <<shell, mount, bridge, run, call, answer, opened>>
  BY DEF BecomesReady, bridgeVars
<1>2. PICK q : q = Notified(page)
  OBVIOUS
<1>3. q \in Page /\ Alike(page, q)
  BY <1>2 DEF Consistent, Typed, Page, Notified, Alike
<1> QED
  BY <1>1, <1>2, <1>3, AlikeKeeps

LEMMA DismissErrorKeeps ==
  ASSUME Consistent, NEW source \in page.errors, DismissError(source)
  PROVE  Consistent'
<1>1. PICK m : m = page.muted \cup ({source} \cap Underway)
  OBVIOUS
<1>2. /\ page' = Notified([page EXCEPT !.errors = @ \ {source}, !.muted = m])
      /\ UNCHANGED <<shell, mount, bridge, run, call, answer, opened>>
  BY <1>1 DEF DismissError, bridgeVars
<1>3. PICK q : q = page'
  OBVIOUS
<1>4. page \in Page /\ source \in Sources /\ m \in SUBSET Sources
  BY <1>1 DEF Consistent, Typed, Page
<1>5. q \in Page /\ Alike(page, q)
  BY <1>2, <1>3, <1>4 DEF Page, Notified, Alike
<1> QED
  BY <1>2, <1>3, <1>5, AlikeKeeps

-----------------------------------------------------------------------------
(* What waits for the user and the editor.                                 *)

\* The runtime goes on with what waits: nothing that is current is left behind.
Waits(p, q) ==
  /\ q.current = p.current /\ q.applied = p.applied /\ q.seen = p.seen
  /\ q.recording = p.recording /\ q.acknowledging = p.acknowledging
  /\ q.abandoning = p.abandoning
  /\ Positions(q) \in SUBSET Positions(p)
  /\ \A b \in Positions(p) : IsCurrent(p, b) => b \in Positions(q)
  /\ q.pending # NoAttempt => q.active = NoAttempt
  /\ q.opening => q.active # NoAttempt

\* An attempt waits in one place.
Lined(p) ==
  /\ IsInjective(p.queue) /\ p.pending \notin ToSet(p.queue)
  /\ p.opening => p.active \notin ToSet(p.queue)

LEMMA WaitsWorks ==
  ASSUME NEW s, NEW p, NEW q, Waits(p, q), NEW given
  PROVE  /\ \A ever : Works(s, p, given, ever) => Works(s, q, given, ever)
         /\ \A now : Fresh(s, p, given, now) /\ Lined(q) => Fresh(s, q, given, now)
<1>1. ASSUME NEW ever, Works(s, p, given, ever)
      PROVE  Works(s, q, given, ever)
  <2>1. Coherent(q)
    BY <1>1 DEF Works, Waits, Coherent, Completions, IsCurrent
  <2>2. Past(s, q) /\ Earned(q, ever)
    BY <1>1 DEF Works, Waits, Past, Earned
  <2>3. ASSUME NEW r \in Requests, s[r].state = "processing", AttemptOf(s, r) \in q.seen
        PROVE  AttemptOf(s, r) \in Positions(q) \cup q.applied \cup q.abandoning \cup given
    <3>1. IsCurrent(p, AttemptOf(s, r))
      BY <1>1, <2>3 DEF Works, Coherent, Waits
    <3>2. AttemptOf(s, r) \in Positions(p) \cup p.applied \cup p.abandoning \cup given
      BY <1>1, <2>3 DEF Works, Held, Waits
    <3> QED
      BY <3>1, <3>2 DEF Waits
  <2>4. Held(s, q, given)
    BY <2>3 DEF Held
  <2> QED
    BY <2>1, <2>2, <2>4 DEF Works
<1>2. ASSUME NEW now, Fresh(s, p, given, now), Lined(q)
      PROVE  Fresh(s, q, given, now)
  <2>1. \A a \in Positions(q) :
          /\ Stands(s, a, "processing") /\ now[a.id] = 0
          /\ a \in q.seen /\ a \notin q.applied /\ a \notin q.abandoning \cup given
    BY <1>2 DEF Fresh, Waits
  <2> QED
    BY <1>2, <2>1 DEF Fresh, Waits, Lined
<1> QED
  BY <1>1, <1>2

LEMMA WaitsKeeps ==
  ASSUME Consistent, mount.mounted, page.active = NoAttempt,
         UNCHANGED <<shell, mount, bridge, run, call, answer, opened>>,
         NEW q \in Page, page' = q, Waits(page, q), Lined(page) => Lined(q)
  PROVE  Consistent'
<1>1. /\ Works(shell, page, Giving(bridge, run), opened.ever)
      /\ First(mount) => Fresh(shell, page, Giving(bridge, run), opened.now)
  BY Running
<1>2. First(mount) => Lined(page)
  BY <1>1 DEF Fresh, Lined
<1>3. /\ Works(shell, q, Giving(bridge, run), opened.ever)
      /\ First(mount) => Fresh(shell, q, Giving(bridge, run), opened.now)
  BY <1>1, <1>2, WaitsWorks
<1>4. Waited(bridge, q)
  BY DEF Consistent, Waited
<1>5. Sent(call, q)
  BY DEF Consistent, Sent, Waits
<1>6. mount.generation = 1 /\ q.opening => opened.now[q.active.id] = 0
  <2>1. q.opening => q.active \in Positions(q)
    BY DEF Positions
  <2>2. mount.generation = 1 => First(mount)
    BY DEF First
  <2> QED
    BY <1>3, <2>1, <2>2 DEF Fresh
<1>7. Once(mount, bridge, q, opened.now)
  BY <1>6 DEF Consistent, Once
<1> QED
  BY <1>3, <1>4, <1>5, <1>7, PageKeeps

\* The first attempt of the queue that is current.
LEMMA FirstCurrent ==
  ASSUME NEW p \in Page, NEW live, live = SelectInSeq(p.queue, LAMBDA a : IsCurrent(p, a))
  PROVE  \/ live = 0 /\ \A i \in 1 .. Len(p.queue) : ~IsCurrent(p, p.queue[i])
         \/ /\ live \in 1 .. Len(p.queue) /\ live # 0 /\ IsCurrent(p, p.queue[live])
            /\ \A i \in 1 .. Len(p.queue) : IsCurrent(p, p.queue[i]) => live <= i
<1> DEFINE I == {i \in 1 .. Len(p.queue) : IsCurrent(p, p.queue[i])}
<1>1. live = IF I # {} THEN Min(I) ELSE 0
  BY DEF SelectInSeq
<1>2. I \in SUBSET Nat
  OBVIOUS
<1>3. I # {} => Min(I) \in I /\ \A m \in I : Min(I) <= m
  <2> HIDE DEF I
  <2> QED
    BY <1>2, MinIsSmallest
<1>4. CASE I = {}
  <2>1. \A i \in 1 .. Len(p.queue) : ~IsCurrent(p, p.queue[i])
    BY <1>4
  <2>2. live = 0
    <3> HIDE DEF I
    <3> QED
      BY <1>1, <1>4
  <2> QED
    BY <2>1, <2>2
<1>5. CASE I # {}
  <2>1. live \in I /\ \A m \in I : live <= m
    <3> HIDE DEF I
    <3> QED
      BY <1>1, <1>3, <1>5
  <2>2. live \in 1 .. Len(p.queue) /\ live # 0 /\ IsCurrent(p, p.queue[live])
    BY <2>1
  <2>3. \A i \in 1 .. Len(p.queue) : IsCurrent(p, p.queue[i]) => i \in I
    OBVIOUS
  <2> HIDE DEF I
  <2> QED
    BY <2>1, <2>2, <2>3
<1> QED
  BY <1>4, <1>5

\* What is behind an attempt of the queue.
IsRest(q, n, rest) ==
  /\ rest \in Seq(Attempt) /\ q[n] \in Attempt /\ q[n] \in ToSet(q)
  /\ ToSet(rest) \in SUBSET ToSet(q)
  /\ \A i \in 1 .. Len(q) : n <= i => q[i] \in ToSet(rest) \cup {q[n]}
  /\ IsInjective(q) => IsInjective(rest) /\ q[n] \notin ToSet(rest)

LEMMA RestOfQueue ==
  ASSUME NEW q \in Seq(Attempt), NEW n \in 1 .. Len(q), NEW rest, rest = SubSeq(q, n + 1, Len(q))
  PROVE  IsRest(q, n, rest)
<1>1. /\ Len(q) \in Nat /\ n \in Nat /\ n <= Len(q) /\ n > 0
      /\ \A i \in 1 .. Len(q) : q[i] \in Attempt
  OBVIOUS
<1>2. /\ rest \in Seq(Attempt) /\ Len(rest) = Len(q) - n
      /\ \A i \in 1 .. Len(q) - n : rest[i] = q[n + i]
  <2> DEFINE m == n + 1
             l == Len(q)
  <2>1. /\ m \in Int /\ l \in Int /\ l - m + 1 = Len(q) - n
        /\ (IF m <= l THEN l - m + 1 ELSE 0) = Len(q) - n
        /\ \A i \in m .. l : q[i] \in Attempt
    BY <1>1
  <2>2. \A i \in 1 .. Len(q) - n : m + i - 1 = n + i
    BY <1>1
  <2>3. rest = SubSeq(q, m, l)
    OBVIOUS
  <2> HIDE DEF m, l
  <2>4. /\ SubSeq(q, m, l) \in Seq(Attempt)
        /\ Len(SubSeq(q, m, l)) = IF m <= l THEN l - m + 1 ELSE 0
        /\ \A i \in 1 .. l - m + 1 : SubSeq(q, m, l)[i] = q[m + i - 1]
    BY <2>1, SubSeqProperties
  <2> QED
    BY <2>1, <2>2, <2>3, <2>4
<1>3. ASSUME NEW i \in 1 .. Len(rest)
      PROVE  n + i \in 1 .. Len(q) /\ n + i # n /\ rest[i] = q[n + i]
  BY <1>1, <1>2
<1>4. \A x : x \in ToSet(q) <=> \E i \in 1 .. Len(q) : q[i] = x
  BY ElementsTyped
<1>5. \A x : x \in ToSet(rest) <=> \E i \in 1 .. Len(rest) : rest[i] = x
  <2>1. \A r \in Seq(Attempt) : \A x : x \in ToSet(r) <=> \E i \in 1 .. Len(r) : r[i] = x
    BY ElementsTyped
  <2> QED
    BY <1>2, <2>1
<1>6. ToSet(rest) \in SUBSET ToSet(q) /\ q[n] \in ToSet(q)
  BY <1>3, <1>4, <1>5
<1>7. ASSUME NEW i \in 1 .. Len(q), n <= i
      PROVE  q[i] \in ToSet(rest) \cup {q[n]}
  <2>1. CASE i = n
    BY <2>1
  <2>2. CASE i # n
    <3>1. i - n \in 1 .. Len(rest) /\ n + (i - n) = i
      BY <1>1, <1>2, <1>7, <2>2
    <3>2. rest[i - n] = q[i]
      BY <1>3, <3>1
    <3> QED
      BY <1>5, <3>1, <3>2
  <2> QED
    BY <2>1, <2>2
<1>8. ASSUME IsInjective(q)
      PROVE  IsInjective(rest) /\ q[n] \notin ToSet(rest)
  <2>1. \A i, j \in 1 .. Len(q) : q[i] = q[j] => i = j
    BY <1>8 DEF IsInjective
  <2>2. ASSUME NEW i \in 1 .. Len(rest), NEW j \in 1 .. Len(rest), rest[i] = rest[j]
        PROVE  i = j
    <3>1. n + i = n + j
      BY <1>3, <2>1, <2>2
    <3> QED
      BY <1>1, <1>2, <3>1
  <2>3. IsInjective(rest)
    <3>1. DOMAIN rest = 1 .. Len(rest)
      BY <1>2
    <3> QED
      BY <2>2, <3>1 DEF IsInjective
  <2>4. q[n] \notin ToSet(rest)
    <3>1. ASSUME NEW i \in 1 .. Len(rest), rest[i] = q[n]
          PROVE  FALSE
      BY <1>1, <1>3, <2>1, <3>1
    <3> QED
      BY <1>5, <3>1
  <2> QED
    BY <2>3, <2>4
<1> QED
  BY <1>1, <1>2, <1>6, <1>7, <1>8 DEF IsRest

\* The runtime goes on with the first attempt a of the queue that is current: rest is left.
GoesOnWith(p, a, rest) ==
  /\ a \in Attempt /\ a # NoAttempt /\ rest \in Seq(Attempt)
  /\ ToSet(rest) \cup {a} \in SUBSET ToSet(p.queue)
  /\ \A b \in ToSet(p.queue) : IsCurrent(p, b) => b \in ToSet(rest) \cup {a}
  /\ IsInjective(p.queue) => IsInjective(rest) /\ a \notin ToSet(rest)
  /\ NoAttempt \notin ToSet(rest)

LEMMA QueueGoesOn ==
  ASSUME NEW p \in Page, NEW live, live = SelectInSeq(p.queue, LAMBDA a : IsCurrent(p, a))
  PROVE  /\ live = 0 => \A b \in ToSet(p.queue) : ~IsCurrent(p, b)
         /\ live # 0 => GoesOnWith(p, p.queue[live], SubSeq(p.queue, live + 1, Len(p.queue)))
<1>1. p.queue \in Seq(Attempt)
  BY DEF Page
<1>2. \/ live = 0 /\ \A i \in 1 .. Len(p.queue) : ~IsCurrent(p, p.queue[i])
      \/ /\ live \in 1 .. Len(p.queue) /\ live # 0 /\ IsCurrent(p, p.queue[live])
         /\ \A i \in 1 .. Len(p.queue) : IsCurrent(p, p.queue[i]) => live <= i
  BY FirstCurrent
<1>3. \A x : x \in ToSet(p.queue) <=> \E i \in 1 .. Len(p.queue) : p.queue[i] = x
  BY <1>1, ElementsTyped
<1>4. ASSUME live = 0
      PROVE  \A b \in ToSet(p.queue) : ~IsCurrent(p, b)
  BY <1>2, <1>3, <1>4
<1>5. ASSUME live # 0
      PROVE  GoesOnWith(p, p.queue[live], SubSeq(p.queue, live + 1, Len(p.queue)))
  <2>1. live \in 1 .. Len(p.queue) /\ \A i \in 1 .. Len(p.queue) : IsCurrent(p, p.queue[i]) => live <= i
    BY <1>2, <1>5
  <2>2. PICK rest : rest = SubSeq(p.queue, live + 1, Len(p.queue))
    OBVIOUS
  <2>3. PICK a : a = p.queue[live]
    OBVIOUS
  <2>4. /\ rest \in Seq(Attempt) /\ p.queue[live] \in Attempt /\ p.queue[live] \in ToSet(p.queue)
        /\ ToSet(rest) \in SUBSET ToSet(p.queue)
        /\ \A i \in 1 .. Len(p.queue) : live <= i => p.queue[i] \in ToSet(rest) \cup {p.queue[live]}
        /\ IsInjective(p.queue) => IsInjective(rest) /\ p.queue[live] \notin ToSet(rest)
    <3>1. live \in 1 .. Len(p.queue)
      BY <2>1
    <3>2. IsRest(p.queue, live, rest)
      BY <1>1, <2>2, <3>1, RestOfQueue
    <3> QED
      BY <3>2 DEF IsRest
  <2>5. \A b \in ToSet(p.queue) : IsCurrent(p, b) => b \in ToSet(rest) \cup {a}
    BY <1>3, <2>1, <2>3, <2>4
  <2>6. a # NoAttempt /\ NoAttempt \notin ToSet(rest)
    <3>1. NoAttempt \notin Attempt
      BY ConsumerAssumption DEF Attempt
    <3> QED
      BY <2>3, <2>4, <3>1, AttemptsAreSome
  <2>7. GoesOnWith(p, a, rest)
    BY <2>3, <2>4, <2>5, <2>6 DEF GoesOnWith
  <2> QED
    BY <2>2, <2>3, <2>7
<1> QED
  BY <1>4, <1>5

\* Nobody waits for the user or the editor: the attempt is asked about, or opened.
LEMMA QueueWaits ==
  ASSUME NEW p \in Page, p.active = NoAttempt, p.pending = NoAttempt, ~p.opening,
         NEW a, NEW rest, GoesOnWith(p, a, rest),
         NEW q, q \in {Notified([p EXCEPT !.queue = rest, !.pending = a]),
                       Notified([p EXCEPT !.queue = rest, !.active = a, !.opening = TRUE])}
  PROVE  q \in Page /\ Waits(p, q) /\ (Lined(p) => Lined(q))
<1>1. a \in Attempt /\ a # NoAttempt /\ rest \in Seq(Attempt) /\ a \in AnyAttempt
  BY DEF GoesOnWith, AnyAttempt
<1>2. q \in Page
  BY <1>1 DEF Page, Notified
<1>3. /\ q.current = p.current /\ q.applied = p.applied /\ q.seen = p.seen
      /\ q.recording = p.recording /\ q.acknowledging = p.acknowledging
      /\ q.abandoning = p.abandoning /\ q.queue = rest
      /\ \/ q.pending = a /\ q.active = NoAttempt /\ q.opening = FALSE
         \/ q.pending = NoAttempt /\ q.active = a /\ q.opening = TRUE
  BY DEF Page, Notified
<1>4. Positions(p) = ToSet(p.queue) /\ Positions(q) = ToSet(rest) \cup {a}
  BY <1>1, <1>3 DEF Positions
<1>5. Waits(p, q)
  BY <1>1, <1>3, <1>4 DEF Waits, GoesOnWith
<1>6. Lined(p) => Lined(q)
  BY <1>1, <1>3 DEF Lined, GoesOnWith
<1> QED
  BY <1>2, <1>5, <1>6

LEMMA PumpKeeps ==
  ASSUME Consistent, NEW dirty \in BOOLEAN, Pump(dirty)
  PROVE  Consistent'
<1>1. PICK p : p = [page EXCEPT !.notified = FALSE]
  OBVIOUS
<1>2. PICK live : live = SelectInSeq(p.queue, LAMBDA a : IsCurrent(p, a))
  OBVIOUS
<1>3. PICK a : a = p.queue[live]
  OBVIOUS
<1>4. PICK rest : rest = SubSeq(p.queue, live + 1, Len(p.queue))
  OBVIOUS
<1>5. /\ page' = IF p.active # NoAttempt \/ p.pending # NoAttempt \/ ~ready THEN p
                 ELSE IF live = 0 THEN [p EXCEPT !.queue = <<>>]
                 ELSE IF dirty THEN Notified([[p EXCEPT !.queue = rest] EXCEPT !.pending = a])
                 ELSE Opening([p EXCEPT !.queue = rest], a)
      /\ mount.mounted /\ UNCHANGED <<shell, mount, bridge, run, call, answer, opened>>
  BY <1>1, <1>2, <1>3, <1>4 DEF Pump, bridgeVars
<1>6. p \in Page /\ Alike(page, p)
  BY <1>1 DEF Consistent, Typed, Page, Alike
<1>7. /\ live = 0 => \A b \in ToSet(p.queue) : ~IsCurrent(p, b)
      /\ live # 0 => GoesOnWith(p, a, rest)
  BY <1>2, <1>3, <1>4, <1>6, QueueGoesOn
<1>8. \A q : Waits(p, q) => Waits(page, q)
  BY <1>6 DEF Alike, Waits, Positions, IsCurrent
<1>9. Lined(page) => Lined(p)
  BY <1>6 DEF Alike, Lined
<1>10. CASE p.active # NoAttempt \/ p.pending # NoAttempt \/ ~ready
  <2>1. page' = p
    BY <1>5, <1>10
  <2> QED
    BY <1>5, <1>6, <2>1, AlikeKeeps
<1>11. CASE ~(p.active # NoAttempt \/ p.pending # NoAttempt \/ ~ready)
  <2>1. page.active = NoAttempt /\ p.active = NoAttempt /\ p.pending = NoAttempt
    BY <1>6, <1>11 DEF Alike
  <2>2. ~p.opening
    BY <1>6, <2>1 DEF Consistent, Works, Coherent, Alike
  <2>3. PICK q : q = page'
    OBVIOUS
  <2>4. q \in Page /\ Waits(p, q) /\ (Lined(p) => Lined(q))
    <3>1. CASE live = 0
      <4>1. q = [p EXCEPT !.queue = <<>>]
        BY <1>5, <1>11, <2>3, <3>1
      <4>2. <<>> \in Seq(Attempt) /\ ToSet(<<>>) = {} /\ IsInjective(<<>>)
        BY DEF ToSet, IsInjective
      <4>3. q \in Page /\ q.queue = <<>>
        BY <1>6, <4>1, <4>2 DEF Page
      <4>4. /\ q.current = p.current /\ q.applied = p.applied /\ q.seen = p.seen
            /\ q.recording = p.recording /\ q.acknowledging = p.acknowledging
            /\ q.abandoning = p.abandoning
            /\ q.pending = NoAttempt /\ q.active = NoAttempt /\ ~q.opening
        BY <1>6, <2>1, <2>2, <4>1 DEF Page
      <4>5. Positions(p) = ToSet(p.queue) /\ Positions(q) = {}
        BY <2>1, <2>2, <4>2, <4>3, <4>4 DEF Positions
      <4>6. Waits(p, q)
        BY <1>7, <3>1, <4>4, <4>5 DEF Waits
      <4> QED
        BY <4>2, <4>3, <4>4, <4>6 DEF Lined
    <3>2. CASE live # 0
      <4>1. q \in {Notified([[p EXCEPT !.queue = rest] EXCEPT !.pending = a]), Opening([p EXCEPT !.queue = rest], a)}
        BY <1>5, <1>11, <2>3, <3>2
      <4>2. /\ [[p EXCEPT !.queue = rest] EXCEPT !.pending = a] = [p EXCEPT !.queue = rest, !.pending = a]
            /\ Opening([p EXCEPT !.queue = rest], a)
                 = Notified([p EXCEPT !.queue = rest, !.active = a, !.opening = TRUE])
        BY DEF Opening
      <4>3. q \in {Notified([p EXCEPT !.queue = rest, !.pending = a]),
                   Notified([p EXCEPT !.queue = rest, !.active = a, !.opening = TRUE])}
        BY <4>1, <4>2
      <4> QED
        BY <1>6, <1>7, <2>1, <2>2, <3>2, <4>3, QueueWaits
    <3> QED
      BY <3>1, <3>2
  <2>5. q \in Page /\ Waits(page, q) /\ (Lined(page) => Lined(q))
    BY <1>8, <1>9, <2>4
  <2> QED
    BY <1>5, <2>1, <2>3, <2>5, WaitsKeeps
<1> QED
  BY <1>10, <1>11

LEMMA ConfirmDiscardKeeps ==
  ASSUME Consistent, ConfirmDiscard
  PROVE  Consistent'
<1>1. /\ mount.mounted /\ page.pending # NoAttempt
      /\ page' = Notified([page EXCEPT !.pending = NoAttempt, !.active = page.pending, !.opening = TRUE])
      /\ UNCHANGED <<shell, mount, bridge, run, call, answer, opened>>
  BY DEF ConfirmDiscard, bridgeVars, Opening
<1>2. PICK q : q = page'
  OBVIOUS
<1>3. page \in Page /\ page.active = NoAttempt /\ ~page.opening
  BY <1>1 DEF Consistent, Typed, Works, Coherent
<1>4. page.pending \in AnyAttempt /\ NoAttempt \in AnyAttempt
  BY <1>3 DEF Page, AnyAttempt
<1>5. q \in Page
  BY <1>1, <1>2, <1>3, <1>4 DEF Page, Notified
<1>6. /\ q.current = page.current /\ q.applied = page.applied /\ q.seen = page.seen
      /\ q.recording = page.recording /\ q.acknowledging = page.acknowledging
      /\ q.abandoning = page.abandoning /\ q.queue = page.queue
      /\ q.pending = NoAttempt /\ q.active = page.pending /\ q.opening = TRUE
  BY <1>1, <1>2, <1>3 DEF Page, Notified
<1>7. Positions(q) = Positions(page)
  BY <1>1, <1>3, <1>6 DEF Positions
<1>8. Waits(page, q)
  BY <1>1, <1>6, <1>7 DEF Waits
<1>9. NoAttempt \notin ToSet(page.queue)
  <2>1. page.queue \in Seq(Attempt)
    BY <1>3 DEF Page
  <2> QED
    BY <2>1, AttemptsAreSome
<1>10. Lined(page) => Lined(q)
  BY <1>6, <1>9 DEF Lined
<1> QED
  BY <1>1, <1>2, <1>3, <1>5, <1>8, <1>10, WaitsKeeps
\* An operation that is not a synchronization is put at the end of the chain.
LEMMA BridgeGrows ==
  ASSUME Consistent, UNCHANGED <<shell, mount, run, call, answer>>,
         NEW o \in Operations, o.op # "sync", bridge' = Append(bridge, o),
         NEW q \in Page, page' = q,
         \A i \in 1 .. Len(bridge) : ~bridge[i].opens, o.opens => q.active # NoAttempt /\ ~q.opening,
         opened' \in [now : [Requests -> Nat], ever : SUBSET Requests],
         NEW given, given = Giving(bridge, run) \cup (IF o.op = "abandon" THEN o.attempts ELSE {}),
         Works(shell, q, given, opened'.ever),
         First(mount) => Fresh(shell, q, given, opened'.now),
         Sent(call, q), Once(mount, bridge, q, opened'.now), Opened(shell, opened'.ever)
  PROVE  Consistent'
<1>1. bridge \in Seq(Operations) /\ Len(bridge) \in Nat /\ Chain(bridge, run, call) /\ Typed
  BY DEF Consistent, Typed
<1>2. PICK d : d = bridge'
  OBVIOUS
<1>3. Entered(bridge, o, run, d) /\ Chain(d, run, call)
  <2>1. d = Append(bridge, o) /\ (o.op = "sync" => o.attempts = {} /\ ~o.opens)
    BY <1>2
  <2>2. bridge \in Seq(Operations) /\ Chain(bridge, run, call)
    BY <1>1
  <2> QED
    BY <2>1, <2>2, Enqueued
<1>4. /\ d \in Seq(Operations) /\ Giving(d, run) = given
      /\ Len(d) = Len(bridge) + 1 /\ d[Len(bridge) + 1] = o
      /\ \A i \in 1 .. Len(bridge) : d[i] = bridge[i]
  BY <1>3 DEF Entered
<1>5. \A i \in 1 .. Len(d) : (i \in 1 .. Len(bridge) /\ d[i] = bridge[i]) \/ (i = Len(bridge) + 1 /\ d[i] = o)
  BY <1>1, <1>4
<1>6. Waited(d, q)
  BY <1>5 DEF Waited
<1>7. Once(mount, d, q, opened'.now)
  BY <1>5 DEF Once
<1>8. Typed'
  BY <1>1, <1>2, <1>4 DEF Typed
<1>9. First(mount) => run.stage # "late"
  BY DEF Consistent
<1>10. Counted(shell) /\ Told(shell, call, answer)
  BY DEF Consistent
<1> QED
  BY <1>2, <1>3, <1>4, <1>6, <1>7, <1>8, <1>9, <1>10 DEF Consistent

\* The attempts of S do not wait any more.
GivesUp(p, q, S) ==
  /\ q.current = p.current /\ q.applied = p.applied /\ q.seen = p.seen
  /\ q.recording = p.recording /\ q.acknowledging = p.acknowledging
  /\ q.abandoning = p.abandoning
  /\ S \in SUBSET Positions(p) /\ Positions(q) \in SUBSET Positions(p)
  /\ Positions(p) \in SUBSET (Positions(q) \cup S)
  /\ q.pending # NoAttempt => q.active = NoAttempt
  /\ q.opening => q.active # NoAttempt

LEMMA GivesUpWorks ==
  ASSUME NEW s, NEW p, NEW q, NEW S \in SUBSET Attempt, GivesUp(p, q, S), NEW given, NEW more, more = given \cup S
  PROVE  /\ \A ever : Works(s, p, given, ever) => Works(s, q, more, ever)
         /\ \A now : Fresh(s, p, given, now) /\ Lined(q) /\ Positions(q) \cap S = {} => Fresh(s, q, more, now)
<1>1. ASSUME NEW ever, Works(s, p, given, ever)
      PROVE  Works(s, q, more, ever)
  <2>1. Coherent(q)
    BY <1>1 DEF Works, GivesUp, Coherent, Completions, IsCurrent
  <2>2. Past(s, q) /\ Earned(q, ever)
    BY <1>1 DEF Works, GivesUp, Past, Earned
  <2>3. Held(s, q, more)
    <3>1. Held(s, p, given)
      BY <1>1 DEF Works
    <3> QED
      BY <3>1 DEF Held, GivesUp
  <2> QED
    BY <2>1, <2>2, <2>3 DEF Works
<1>2. ASSUME NEW now, Fresh(s, p, given, now), Lined(q), Positions(q) \cap S = {}
      PROVE  Fresh(s, q, more, now)
  <2>1. \A a \in Positions(p) :
          /\ Stands(s, a, "processing") /\ now[a.id] = 0
          /\ a \in p.seen /\ a \notin p.applied /\ a \notin p.abandoning \cup given
    BY <1>2 DEF Fresh
  <2>2. \A a \in Positions(q) :
          /\ Stands(s, a, "processing") /\ now[a.id] = 0
          /\ a \in q.seen /\ a \notin q.applied /\ a \notin q.abandoning \cup more
    BY <1>2, <2>1 DEF GivesUp
  <2>3. (q.abandoning \cup more) \cap q.applied = {}
    BY <1>2, <2>1 DEF GivesUp, Fresh
  <2>4. ASSUME NEW a \in q.abandoning \cup more
        PROVE  a.token <= s[a.id].token /\ (Stands(s, a, "processing") => a \in q.seen)
    <3>1. CASE a \in S
      <4>1. Stands(s, a, "processing") /\ a \in q.seen
        BY <2>1, <3>1 DEF GivesUp
      <4>2. s[a.id].token = a.token /\ a.token \in Nat
        BY <3>1, <4>1, ConsumerAssumption DEF Stands, Attempt
      <4> QED
        BY <4>1, <4>2 DEF Stands
    <3>2. CASE a \in p.abandoning \cup given
      BY <1>2, <3>2 DEF Fresh, GivesUp
    <3> QED
      BY <2>4, <3>1, <3>2 DEF GivesUp
  <2>5. ASSUME NEW r \in Requests, s[r].state \in {"applied", "done"}
        PROVE  /\ AttemptOf(s, r) \notin q.abandoning \cup more
               /\ AttemptOf(s, r) \in q.seen => AttemptOf(s, r) \in q.applied
    <3>1. AttemptOf(s, r) \notin S
      <4>1. AttemptOf(s, r).id = r
        BY DEF AttemptOf
      <4> QED
        BY <2>1, <2>5, <4>1 DEF GivesUp, Stands
    <3> QED
      BY <1>2, <2>5, <3>1 DEF Fresh, GivesUp
  <2>6. \A r \in Requests : now[r] > 0 => s[r].state = "done" \/ \E a \in q.applied : a.id = r
    BY <1>2 DEF Fresh, GivesUp
  <2>7. /\ IsInjective(q.queue)
        /\ q.pending \notin ToSet(q.queue) /\ (q.opening => q.active \notin ToSet(q.queue))
    BY <1>2 DEF Lined
  <2> QED
    BY <2>2, <2>3, <2>4, <2>5, <2>6, <2>7 DEF Fresh
<1> QED
  BY <1>1, <1>2
LEMMA CancelDiscardKeeps ==
  ASSUME Consistent, CancelDiscard
  PROVE  Consistent'
<1> DEFINE S == {page.pending} \cup ToSet(page.queue)
<1>1. /\ page.pending # NoAttempt
      /\ page' = Notified([page EXCEPT !.pending = NoAttempt, !.queue = <<>>])
      /\ bridge' = Append(bridge, Abandon(S, FALSE))
      /\ UNCHANGED <<shell, mount, run, call, answer, opened>>
  BY DEF CancelDiscard
<1>2. page \in Page /\ page.active = NoAttempt /\ ~page.opening
  BY <1>1 DEF Consistent, Typed, Works, Coherent
<1>3. S \in SUBSET Attempt
  <2>1. page.queue \in Seq(Attempt) /\ page.pending \in Attempt
    BY <1>1, <1>2 DEF Page, AnyAttempt
  <2>2. ToSet(page.queue) \in SUBSET Attempt
    BY <2>1, ElementsTyped
  <2> QED
    BY <2>1, <2>2
<1>4. PICK q : q = page'
  OBVIOUS
<1>5. /\ q.current = page.current /\ q.applied = page.applied /\ q.seen = page.seen
      /\ q.recording = page.recording /\ q.acknowledging = page.acknowledging
      /\ q.abandoning = page.abandoning
      /\ q.queue = <<>> /\ q.pending = NoAttempt /\ q.active = NoAttempt /\ ~q.opening
  BY <1>1, <1>2, <1>4 DEF Page, Notified
<1>6. q \in Page
  <2>1. <<>> \in Seq(Attempt) /\ NoAttempt \in AnyAttempt
    BY DEF AnyAttempt
  <2> QED
    BY <1>1, <1>2, <1>4, <2>1 DEF Page, Notified
<1>7. ToSet(<<>>) = {} /\ IsInjective(<<>>)
  BY DEF ToSet, IsInjective
<1>8. Positions(page) = S /\ Positions(q) = {} /\ Lined(q)
  BY <1>1, <1>2, <1>5, <1>7 DEF Positions, Lined
<1>9. PICK T \in SUBSET Attempt : T = S
  BY <1>3
<1>10. GivesUp(page, q, T)
  <2> HIDE DEF S
  <2> QED
    BY <1>5, <1>8, <1>9 DEF GivesUp
<1>11. PICK given : given = Giving(bridge, run) \cup T
  OBVIOUS
<1>12. /\ Works(shell, q, given, opened.ever)
       /\ First(mount) => Fresh(shell, q, given, opened.now)
  <2>1. /\ Works(shell, page, Giving(bridge, run), opened.ever)
        /\ First(mount) => Fresh(shell, page, Giving(bridge, run), opened.now)
    BY Running
  <2>2. Lined(q) /\ Positions(q) \cap T = {}
    BY <1>8
  <2> QED
    BY <1>10, <1>11, <2>1, <2>2, GivesUpWorks
<1>13. PICK o \in Operations : /\ o = Abandon(T, FALSE) /\ o.op = "abandon" /\ o.attempts = T
                               /\ o.opens = FALSE
  <2>1. /\ Abandon(T, FALSE) \in Operations /\ Abandon(T, FALSE).op = "abandon"
        /\ Abandon(T, FALSE).attempts = T /\ Abandon(T, FALSE).opens = FALSE
    BY DEF Operations, Abandon
  <2> QED
    BY <2>1
<1>14. bridge' = Append(bridge, o)
  BY <1>1, <1>9, <1>13
<1>15. \A i \in 1 .. Len(bridge) : ~bridge[i].opens
  BY <1>2 DEF Consistent, Waited
<1>16. Sent(call, q) /\ Once(mount, bridge, q, opened.now)
  BY <1>5 DEF Consistent, Sent, Once
<1>17. /\ opened \in [now : [Requests -> Nat], ever : SUBSET Requests]
       /\ Opened(shell, opened.ever) /\ opened' = opened
  BY <1>1 DEF Consistent, Typed
<1>18. given = Giving(bridge, run) \cup (IF o.op = "abandon" THEN o.attempts ELSE {})
  BY <1>11, <1>13
<1>19. o.op # "sync" /\ ~o.opens
  BY <1>13
<1> HIDE DEF S
<1> QED
  BY <1>1, <1>4, <1>6, <1>12, <1>14, <1>15, <1>16, <1>17, <1>18, <1>19, BridgeGrows

\* What the end of an open leaves: nothing is asked about, and no operation ends another open.
LEMMA OpenIsAlone ==
  ASSUME Consistent, page.opening
  PROVE  /\ page \in Page /\ page.active \in Attempt /\ page.pending = NoAttempt
         /\ Positions(page) = ToSet(page.queue) \cup {page.active}
         /\ \A i \in 1 .. Len(bridge) : ~bridge[i].opens
         /\ mount.generation = 1 => opened.now[page.active.id] = 0
         /\ page.active \in page.seen \cup page.applied => IsCurrent(page, page.active)
<1>1. page \in Page /\ page.active # NoAttempt /\ page.pending = NoAttempt
  BY DEF Consistent, Typed, Works, Coherent
<1>2. page.active \in Attempt
  BY <1>1 DEF Page, AnyAttempt
<1>3. Positions(page) = ToSet(page.queue) \cup {page.active}
  BY <1>1 DEF Positions
<1>4. \A i \in 1 .. Len(bridge) : ~bridge[i].opens
  BY DEF Consistent, Waited
<1>5. mount.generation = 1 => opened.now[page.active.id] = 0
  BY DEF Consistent, Once
<1>6. page.active \in page.seen \cup page.applied => IsCurrent(page, page.active)
  BY DEF Consistent, Works, Coherent
<1> QED
  BY <1>1, <1>2, <1>3, <1>4, <1>5, <1>6
\* An open is counted for its request, and only once while the first component is mounted.
LEMMA OpenIsCounted ==
  ASSUME Consistent, NEW outcome \in Outcomes, OpenEnds(outcome), NEW a, a = page.active
  PROVE  /\ opened' \in [now : [Requests -> Nat], ever : SUBSET Requests]
         /\ opened.ever \in SUBSET opened'.ever /\ Opened(shell, opened'.ever)
         /\ \A r \in Requests : r # a.id => opened'.now[r] = opened.now[r]
         /\ outcome = "opened" => a.id \in opened'.ever
         /\ outcome # "opened" => opened' = opened
         /\ \A q \in Page : ~q.opening => Once(mount, bridge, q, opened'.now)
<1>1. page.opening /\ UNCHANGED <<shell, hint, mount, run, call, answer, ready>>
      /\ IF outcome = "opened"
         THEN opened' = [now |-> [opened.now EXCEPT ![a.id] = @ + 1], ever |-> opened.ever \union {a.id}]
         ELSE UNCHANGED opened
  BY DEF OpenEnds
<1>2. a \in Attempt /\ a.id \in Requests /\ (mount.generation = 1 => opened.now[a.id] = 0)
  <2>1. a \in Attempt /\ (mount.generation = 1 => opened.now[a.id] = 0)
    BY <1>1, OpenIsAlone
  <2> QED
    BY <2>1 DEF Attempt
<1>3. opened \in [now : [Requests -> Nat], ever : SUBSET Requests] /\ Opened(shell, opened.ever)
  BY DEF Consistent, Typed
<1>4. mount.generation = 1 =>
        /\ \A r \in Requests : opened.now[r] <= 1
        /\ \A i \in 1 .. Len(bridge) : bridge[i].op = "sync" => bridge[i].generation = 1
  BY DEF Consistent, Once
<1>5. CASE outcome = "opened"
  <2>1. PICK now : now = [opened.now EXCEPT ![a.id] = @ + 1]
    OBVIOUS
  <2>2. /\ now \in [Requests -> Nat] /\ now[a.id] = opened.now[a.id] + 1
        /\ \A r \in Requests : r # a.id => now[r] = opened.now[r]
    <3>1. PICK old \in [Requests -> Nat] : old = opened.now
      BY <1>3
    <3>2. now = [old EXCEPT ![a.id] = @ + 1]
      BY <2>1, <3>1
    <3> QED
      BY <1>2, <3>1, <3>2
  <2>3. opened'.now = now /\ opened'.ever = opened.ever \cup {a.id}
        /\ opened' = [now |-> now, ever |-> opened.ever \cup {a.id}]
    BY <1>1, <1>5, <2>1
  <2>4. opened' \in [now : [Requests -> Nat], ever : SUBSET Requests]
    BY <1>2, <1>3, <2>2, <2>3
  <2>5. Opened(shell, opened'.ever)
    BY <1>3, <2>3 DEF Opened
  <2>6. mount.generation = 1 => \A r \in Requests : now[r] <= 1
    BY <1>2, <1>4, <2>2
  <2>7. \A q \in Page : ~q.opening => Once(mount, bridge, q, now)
    BY <1>4, <2>6 DEF Once
  <2> QED
    BY <1>5, <2>2, <2>3, <2>4, <2>5, <2>7
<1>6. CASE outcome # "opened"
  <2>1. opened' = opened
    BY <1>1, <1>6
  <2>2. \A q \in Page : ~q.opening => Once(mount, bridge, q, opened.now)
    BY <1>4 DEF Once
  <2> QED
    BY <1>3, <1>6, <2>1, <2>2
<1> QED
  BY <1>5, <1>6

\* The attempt changed hands while its document was opened, or it is applied: only after an unmount.
LEMMA OpenEndsSkipped ==
  ASSUME Consistent, NEW outcome \in Outcomes, OpenEnds(outcome),
         ~IsCurrent(page, page.active) \/ page.active \in page.applied,
         NEW e, e = [page EXCEPT !.opening = FALSE], NEW p \in Page, Alike(e, p),
         page' = Finished(p), UNCHANGED bridge
  PROVE  Consistent'
<1>1. page.opening /\ UNCHANGED <<shell, mount, run, call, answer>>
  BY DEF OpenEnds
<1>2. PICK a : a = page.active
  OBVIOUS
<1>3. /\ page \in Page /\ a \in Attempt /\ page.pending = NoAttempt
      /\ Positions(page) = ToSet(page.queue) \cup {a}
      /\ \A i \in 1 .. Len(bridge) : ~bridge[i].opens
      /\ a \in page.seen \cup page.applied => IsCurrent(page, a)
  BY <1>1, <1>2, OpenIsAlone
<1>4. /\ opened' \in [now : [Requests -> Nat], ever : SUBSET Requests]
      /\ opened.ever \in SUBSET opened'.ever /\ Opened(shell, opened'.ever)
      /\ \A q \in Page : ~q.opening => Once(mount, bridge, q, opened'.now)
  BY <1>2, OpenIsCounted
<1>5. PICK q : q = page'
  OBVIOUS
<1>6. /\ q \in Page
      /\ q.current = page.current /\ q.applied = page.applied /\ q.seen = page.seen
      /\ q.recording = page.recording /\ q.acknowledging = page.acknowledging
      /\ q.abandoning = page.abandoning
      /\ q.queue = page.queue /\ q.pending = NoAttempt /\ q.active = NoAttempt /\ q.opening = FALSE
  <2>1. NoAttempt \in AnyAttempt
    BY DEF AnyAttempt
  <2>2. /\ p.current = page.current /\ p.applied = page.applied /\ p.seen = page.seen
        /\ p.recording = page.recording /\ p.acknowledging = page.acknowledging
        /\ p.abandoning = page.abandoning
        /\ p.queue = page.queue /\ p.pending = NoAttempt /\ p.opening = FALSE
    BY <1>3 DEF Page, Alike
  <2> QED
    BY <1>5, <2>1, <2>2 DEF Page, Notified, Finished
<1>7. /\ Works(shell, page, Giving(bridge, run), opened.ever)
      /\ First(mount) => Fresh(shell, page, Giving(bridge, run), opened.now) /\ run.stage # "late"
  BY Running
<1>8. ~First(mount)
  <2>1. ASSUME First(mount)
        PROVE  FALSE
    <3>1. a \in page.seen /\ a \notin page.applied
      BY <1>3, <1>7, <2>1 DEF Fresh
    <3> QED
      BY <1>2, <1>3, <3>1
  <2> QED
    BY <2>1
<1>9. Works(shell, q, Giving(bridge, run), opened'.ever)
  <2>1. Coherent(q)
    BY <1>6, <1>7 DEF Works, Coherent, Completions, IsCurrent
  <2>2. Past(shell, q) /\ Earned(q, opened'.ever)
    BY <1>4, <1>6, <1>7 DEF Works, Past, Earned
  <2>3. Positions(q) = ToSet(page.queue)
    BY <1>6 DEF Positions
  <2>4. a \in page.seen => a \in page.applied
    BY <1>2, <1>3
  <2>5. Held(shell, page, Giving(bridge, run))
    BY <1>7 DEF Works
  <2>6. Held(shell, q, Giving(bridge, run))
    BY <1>3, <1>6, <2>3, <2>4, <2>5 DEF Held
  <2> QED
    BY <2>1, <2>2, <2>6 DEF Works
<1>10. Waited(bridge, q) /\ Sent(call, q) /\ Once(mount, bridge, q, opened'.now)
  BY <1>3, <1>4, <1>6 DEF Consistent, Waited, Sent
<1>11. Typed'
  BY <1>1, <1>4, <1>5, <1>6 DEF Consistent, Typed
<1> QED
  BY <1>1, <1>4, <1>5, <1>8, <1>9, <1>10, <1>11 DEF Consistent

\* The open ended without a document: the attempt is given back.
LEMMA OpenEndsGivenBack ==
  ASSUME Consistent, NEW outcome \in Outcomes, OpenEnds(outcome), outcome # "opened",
         NEW p, p = [page EXCEPT !.opening = FALSE],
         NEW q \in Page, Alike(p, q), page' = q, bridge' = Append(bridge, Abandon({page.active}, TRUE))
  PROVE  Consistent'
<1>1. page.opening /\ UNCHANGED <<shell, mount, run, call, answer>>
  BY DEF OpenEnds
<1>2. PICK a : a = page.active
  OBVIOUS
<1>3. /\ page \in Page /\ a \in Attempt /\ page.pending = NoAttempt
      /\ Positions(page) = ToSet(page.queue) \cup {a}
      /\ \A i \in 1 .. Len(bridge) : ~bridge[i].opens
  BY <1>1, <1>2, OpenIsAlone
<1>4. /\ opened \in [now : [Requests -> Nat], ever : SUBSET Requests]
      /\ Opened(shell, opened.ever) /\ opened' = opened
      /\ Once(mount, bridge, q, opened.now)
  <2>1. /\ opened' \in [now : [Requests -> Nat], ever : SUBSET Requests]
        /\ Opened(shell, opened'.ever) /\ opened' = opened
        /\ \A z \in Page : ~z.opening => Once(mount, bridge, z, opened'.now)
    BY <1>2, OpenIsCounted
  <2>2. ~q.opening
    BY <1>3 DEF Page, Alike
  <2> QED
    BY <2>1, <2>2
<1>5. /\ q.current = page.current /\ q.applied = page.applied /\ q.seen = page.seen
      /\ q.recording = page.recording /\ q.acknowledging = page.acknowledging
      /\ q.abandoning = page.abandoning
      /\ q.queue = page.queue /\ q.pending = NoAttempt /\ q.active = a /\ q.opening = FALSE
  BY <1>2, <1>3 DEF Page, Alike
<1>6. PICK T \in SUBSET Attempt : T = {a}
  BY <1>3
<1>7. Positions(q) = ToSet(page.queue)
  BY <1>5 DEF Positions
<1>8. GivesUp(page, q, T)
  BY <1>3, <1>5, <1>6, <1>7 DEF GivesUp
<1>9. PICK given : given = Giving(bridge, run) \cup T
  OBVIOUS
<1>10. /\ Works(shell, page, Giving(bridge, run), opened.ever)
       /\ First(mount) => Fresh(shell, page, Giving(bridge, run), opened.now)
  BY Running
<1>11. First(mount) => Lined(q) /\ Positions(q) \cap T = {}
  <2>1. NoAttempt \notin ToSet(page.queue)
    <3>1. page.queue \in Seq(Attempt)
      BY <1>3 DEF Page
    <3> QED
      BY <3>1, AttemptsAreSome
  <2>2. First(mount) => IsInjective(page.queue) /\ a \notin ToSet(page.queue)
    BY <1>1, <1>2, <1>10 DEF Fresh
  <2> QED
    BY <1>5, <1>6, <1>7, <2>1, <2>2 DEF Lined
<1>12. /\ Works(shell, q, given, opened.ever)
       /\ First(mount) => Fresh(shell, q, given, opened.now)
  BY <1>8, <1>9, <1>10, <1>11, GivesUpWorks
<1>13. PICK o \in Operations : /\ o = Abandon(T, TRUE) /\ o.op = "abandon" /\ o.attempts = T
                               /\ o.opens = TRUE
  <2>1. /\ Abandon(T, TRUE) \in Operations /\ Abandon(T, TRUE).op = "abandon"
        /\ Abandon(T, TRUE).attempts = T /\ Abandon(T, TRUE).opens = TRUE
    BY DEF Operations, Abandon
  <2> QED
    BY <2>1
<1>14. bridge' = Append(bridge, o)
  BY <1>2, <1>6, <1>13
<1>15. Sent(call, q)
  BY <1>5 DEF Consistent, Sent
<1>16. given = Giving(bridge, run) \cup (IF o.op = "abandon" THEN o.attempts ELSE {})
  BY <1>9, <1>13
<1>17. o.op # "sync" /\ (o.opens => q.active # NoAttempt /\ ~q.opening)
  <2>1. NoAttempt \notin Attempt
    BY ConsumerAssumption DEF Attempt
  <2> QED
    BY <1>3, <1>5, <1>13, <2>1
<1> QED
  BY <1>1, <1>3, <1>4, <1>12, <1>14, <1>15, <1>16, <1>17, BridgeGrows
\* The document was opened: its attempt is applied, and to be recorded.
Applied(p, q, a) ==
  /\ q.current = p.current /\ q.seen = p.seen /\ q.acknowledging = p.acknowledging
  /\ q.abandoning = p.abandoning /\ q.queue = p.queue
  /\ q.pending = p.pending /\ q.active = p.active /\ q.opening = FALSE
  /\ q.applied = p.applied \cup {a} /\ q.recording = p.recording \cup {a}

LEMMA AppliedWorks ==
  ASSUME NEW s, NEW p \in Page, p.opening, NEW a, a = p.active, p.pending = NoAttempt,
         IsCurrent(p, a), a \notin p.applied, NEW q, Applied(p, q, a), NEW given, NEW ever,
         Works(s, p, given, ever), NEW more, ever \in SUBSET more, a.id \in more
  PROVE  Works(s, q, given, more)
<1>1. Coherent(p) /\ Past(s, p) /\ Held(s, p, given) /\ Earned(p, ever)
  BY DEF Works
<1>2. Coherent(q)
  <2>1. a \notin p.acknowledging
    BY <1>1 DEF Coherent, Completions
  <2>2. \A b \in q.seen \cup q.applied : IsCurrent(q, b)
    BY <1>1 DEF Coherent, Applied, IsCurrent
  <2>3. q.applied = Completions(q) /\ q.recording \cap q.acknowledging = {}
    BY <1>1, <2>1 DEF Coherent, Applied, Completions
  <2> QED
    BY <1>1, <2>2, <2>3 DEF Coherent, Applied
<1>3. Past(s, q) /\ Earned(q, more)
  BY <1>1 DEF Past, Earned, Applied
<1>4. Positions(p) \in SUBSET (Positions(q) \cup {a})
  BY DEF Positions, Applied
<1>5. Held(s, q, given)
  BY <1>1, <1>4 DEF Held, Applied
<1> QED
  BY <1>2, <1>3, <1>5 DEF Works

LEMMA AppliedFresh ==
  ASSUME NEW s, NEW p \in Page, p.opening, NEW a \in Attempt, a = p.active, p.pending = NoAttempt,
         NEW q, Applied(p, q, a), NEW given, NEW now, Fresh(s, p, given, now),
         NEW more, \A r \in Requests : r # a.id => more[r] = now[r]
  PROVE  Fresh(s, q, given, more)
<1>1. /\ \A b \in Positions(p) :
           /\ Stands(s, b, "processing") /\ now[b.id] = 0
           /\ b \in p.seen /\ b \notin p.applied /\ b \notin p.abandoning \cup given
      /\ IsInjective(p.queue) /\ a \notin ToSet(p.queue)
  BY DEF Fresh
<1>2. p.queue \in Seq(Attempt) /\ ToSet(p.queue) \in SUBSET Attempt /\ NoAttempt \notin ToSet(p.queue)
  <2>1. p.queue \in Seq(Attempt)
    BY DEF Page
  <2> QED
    BY <2>1, ElementsTyped, AttemptsAreSome
<1>3. a \in Positions(p) /\ ToSet(p.queue) \in SUBSET Positions(p) /\ Positions(q) = ToSet(p.queue)
  BY DEF Positions, Applied
<1>4. ASSUME NEW b \in Positions(q)
      PROVE  /\ Stands(s, b, "processing") /\ more[b.id] = 0
             /\ b \in q.seen /\ b \notin q.applied /\ b \notin q.abandoning \cup given
  <2>1. /\ b \in Attempt /\ b # a /\ b \in Positions(p)
    BY <1>1, <1>2, <1>3, <1>4
  <2>2. Stands(s, b, "processing") /\ Stands(s, a, "processing") /\ now[b.id] = 0
    BY <1>1, <1>3, <2>1
  <2>3. b.id # a.id /\ b.id \in Requests
    BY <2>1, <2>2 DEF Stands, Attempt
  <2> QED
    BY <1>1, <2>1, <2>2, <2>3 DEF Applied
<1>5. (q.abandoning \cup given) \cap q.applied = {}
  BY <1>1, <1>3 DEF Fresh, Applied
<1>6. \A r \in Requests : more[r] > 0 => s[r].state = "done" \/ \E b \in q.applied : b.id = r
  BY DEF Fresh, Applied
<1>7. \A b \in q.abandoning \cup given :
        b.token <= s[b.id].token /\ (Stands(s, b, "processing") => b \in q.seen)
  BY DEF Fresh, Applied
<1>8. \A r \in Requests :
        s[r].state \in {"applied", "done"} =>
          /\ AttemptOf(s, r) \notin q.abandoning \cup given
          /\ AttemptOf(s, r) \in q.seen => AttemptOf(s, r) \in q.applied
  BY DEF Fresh, Applied
<1>9. IsInjective(q.queue) /\ q.pending \notin ToSet(q.queue) /\ (q.opening => q.active \notin ToSet(q.queue))
  BY <1>1, <1>2 DEF Applied
<1> QED
  BY <1>4, <1>5, <1>6, <1>7, <1>8, <1>9 DEF Fresh

LEMMA OpenEndsRecorded ==
  ASSUME Consistent, OpenEnds("opened"), IsCurrent(page, page.active), page.active \notin page.applied,
         NEW e, e = [page EXCEPT !.opening = FALSE], NEW p \in Page, Alike(e, p),
         page' = [p EXCEPT !.applied = @ \union {page.active}, !.recording = @ \union {page.active}],
         bridge' = Append(bridge, Complete(page.active))
  PROVE  Consistent'
<1>1. page.opening /\ UNCHANGED <<shell, mount, run, call, answer>>
  BY DEF OpenEnds
<1>2. PICK a : a = page.active
  OBVIOUS
<1>3. /\ page \in Page /\ a \in Attempt /\ page.pending = NoAttempt
      /\ \A i \in 1 .. Len(bridge) : ~bridge[i].opens
  BY <1>1, <1>2, OpenIsAlone
<1>4. /\ opened' \in [now : [Requests -> Nat], ever : SUBSET Requests]
      /\ opened.ever \in SUBSET opened'.ever /\ Opened(shell, opened'.ever)
      /\ \A r \in Requests : r # a.id => opened'.now[r] = opened.now[r]
      /\ a.id \in opened'.ever
      /\ \A q \in Page : ~q.opening => Once(mount, bridge, q, opened'.now)
  <2>1. "opened" \in Outcomes
    BY DEF Outcomes
  <2> QED
    BY <1>2, <2>1, OpenIsCounted
<1>5. PICK q : q = page'
  OBVIOUS
<1>6. q = [p EXCEPT !.applied = @ \union {a}, !.recording = @ \union {a}]
  BY <1>2, <1>5
<1>7. q \in Page
  <2>1. p.applied \cup {a} \in SUBSET Attempt /\ p.recording \cup {a} \in SUBSET Attempt
    BY <1>3 DEF Page
  <2> QED
    BY <1>6, <2>1 DEF Page
<1>8. Applied(page, q, a)
  <2>1. /\ p.current = page.current /\ p.applied = page.applied /\ p.seen = page.seen
        /\ p.recording = page.recording /\ p.acknowledging = page.acknowledging
        /\ p.abandoning = page.abandoning /\ p.active = page.active
        /\ p.queue = page.queue /\ p.pending = page.pending /\ p.opening = FALSE
    BY <1>3 DEF Page, Alike
  <2> QED
    BY <1>6, <2>1 DEF Page, Applied
<1>9. /\ Works(shell, page, Giving(bridge, run), opened.ever)
      /\ First(mount) => Fresh(shell, page, Giving(bridge, run), opened.now)
  BY Running
<1>10. Works(shell, q, Giving(bridge, run), opened'.ever)
  BY <1>1, <1>2, <1>3, <1>4, <1>8, <1>9, AppliedWorks
<1>11. First(mount) => Fresh(shell, q, Giving(bridge, run), opened'.now)
  BY <1>1, <1>2, <1>3, <1>4, <1>8, <1>9, AppliedFresh
<1>12. PICK o \in Operations : o = Complete(a) /\ o.op = "complete" /\ o.opens = TRUE
  <2>1. Complete(a) \in Operations /\ Complete(a).op = "complete" /\ Complete(a).opens = TRUE
    BY <1>3 DEF Operations, Complete
  <2> QED
    BY <2>1
<1>13. bridge' = Append(bridge, o)
  BY <1>2, <1>12
<1>14. Sent(call, q) /\ Once(mount, bridge, q, opened'.now)
  BY <1>4, <1>7, <1>8 DEF Consistent, Sent, Applied
<1>15. PICK given : given = Giving(bridge, run) \cup (IF o.op = "abandon" THEN o.attempts ELSE {})
  OBVIOUS
<1>16. given = Giving(bridge, run)
  BY <1>12, <1>15
<1>17. /\ Works(shell, q, given, opened'.ever)
       /\ First(mount) => Fresh(shell, q, given, opened'.now)
  BY <1>10, <1>11, <1>16
<1>18. o.op # "sync" /\ (o.opens => q.active # NoAttempt /\ ~q.opening)
  <2>1. NoAttempt \notin Attempt
    BY ConsumerAssumption DEF Attempt
  <2> QED
    BY <1>2, <1>3, <1>8, <1>12, <2>1 DEF Applied
<1> QED
  BY <1>1, <1>3, <1>4, <1>5, <1>7, <1>13, <1>14, <1>15, <1>17, <1>18, BridgeGrows

LEMMA OpenEndsKeeps ==
  ASSUME Consistent, NEW outcome \in Outcomes, OpenEnds(outcome)
  PROVE  Consistent'
<1>1. PICK e : e = [page EXCEPT !.opening = FALSE]
  OBVIOUS
<1>2. PICK p : p = IF outcome = "threw" THEN Failed(e, <<"apply", page.active>>)
                   ELSE Resolved(e, <<"apply", page.active>>)
  OBVIOUS
<1>3. page \in Page /\ page.opening /\ page.active \in Attempt
  BY OpenIsAlone DEF OpenEnds
<1>4. e \in Page /\ e.current = page.current /\ e.applied = page.applied
  BY <1>1, <1>3 DEF Page
<1>5. p \in Page /\ Alike(e, p)
  <2>1. <<"apply", page.active>> \in Sources
    BY <1>3 DEF Sources, AnyAttempt
  <2> QED
    BY <1>2, <1>4, <2>1, ReportsAreAlike
<1>6. p.current = page.current /\ p.applied = page.applied
  BY <1>4, <1>5 DEF Alike
<1>7. IF ~IsCurrent(p, page.active) \/ (outcome # "threw" /\ page.active \in p.applied)
      THEN page' = Finished(p) /\ UNCHANGED bridge
      ELSE Settles(page.active, p, outcome)
  BY <1>1, <1>2 DEF OpenEnds
<1>8. IsCurrent(p, page.active) <=> IsCurrent(page, page.active)
  BY <1>6 DEF IsCurrent
<1>9. CASE ~IsCurrent(p, page.active) \/ (outcome # "threw" /\ page.active \in p.applied)
  <2>1. page' = Finished(p) /\ UNCHANGED bridge
    BY <1>7, <1>9
  <2>2. ~IsCurrent(page, page.active) \/ page.active \in page.applied
    BY <1>6, <1>8, <1>9
  <2> QED
    BY <1>1, <1>5, <2>1, <2>2, OpenEndsSkipped
<1>10. CASE ~(~IsCurrent(p, page.active) \/ (outcome # "threw" /\ page.active \in p.applied))
  <2>1. Settles(page.active, p, outcome)
    BY <1>7, <1>10
  <2>2. CASE outcome = "opened"
    <3>1. /\ page' = [p EXCEPT !.applied = @ \union {page.active}, !.recording = @ \union {page.active}]
          /\ bridge' = Append(bridge, Complete(page.active))
      BY <2>1, <2>2 DEF Settles
    <3>2. IsCurrent(page, page.active) /\ page.active \notin page.applied
      BY <1>6, <1>8, <1>10, <2>2
    <3> QED
      BY <1>1, <1>5, <2>2, <3>1, <3>2, OpenEndsRecorded
  <2>3. CASE outcome # "opened"
    <3>1. page' = p /\ bridge' = Append(bridge, Abandon({page.active}, TRUE))
      BY <2>1, <2>3 DEF Settles
    <3> QED
      BY <1>1, <1>5, <2>3, <3>1, OpenEndsGivenBack
  <2> QED
    BY <2>2, <2>3
<1> QED
  BY <1>9, <1>10
-----------------------------------------------------------------------------
(* The theorems.                                                           *)

LEMMA ConsistentInitially == Init => Consistent
<1>1. SUFFICES ASSUME Init PROVE Consistent
  OBVIOUS
<1>2. PICK zero : zero = [r \in Requests |-> 0]
  OBVIOUS
<1>3. /\ shell = [r \in Requests |-> [state |-> "absent", token |-> 0]]
      /\ page = NewPage /\ bridge = <<>> /\ run = Idle /\ call = NoCall /\ answer = NoAnswer
      /\ mount = [generation |-> 1, mounted |-> TRUE, listening |-> FALSE, listens |-> TRUE]
      /\ opened = [now |-> zero, ever |-> {}]
  BY <1>1, <1>2 DEF Init
<1>4. shell \in Shell /\ Counted(shell) /\ Opened(shell, {})
  <2>1. 0 \in 0 .. MaxToken
    BY ConsumerAssumption
  <2> QED
    BY <1>3, <2>1 DEF Shell, Counted, Opened, Delivered
<1>5. /\ mount \in [generation : Nat, mounted : BOOLEAN, listening : BOOLEAN, listens : BOOLEAN]
      /\ mount.generation = 1
  BY <1>3
<1>6. zero \in [Requests -> Nat] /\ opened.now = zero /\ opened.ever = {}
      /\ opened \in [now : [Requests -> Nat], ever : SUBSET Requests]
  BY <1>2, <1>3
<1>7. /\ Works(shell, NewPage, Giving(<<>>, Idle), {})
      /\ Fresh(shell, NewPage, Giving(<<>>, Idle), zero)
      /\ Chain(<<>>, Idle, NoCall) /\ Waited(<<>>, NewPage) /\ Sent(NoCall, NewPage)
      /\ Told(shell, NoCall, NoAnswer) /\ Once(mount, <<>>, NewPage, zero)
      /\ <<>> \in Seq(Operations) /\ Idle \in [stage : Stages, todo : SUBSET Attempt]
      /\ NoCall \in Calls /\ NoAnswer \in [ok : BOOLEAN, data : SUBSET Attempt, here : BOOLEAN]
      /\ IsFiniteSet(NoAnswer.data) /\ Idle.stage # "late" /\ NewPage \in Page
  BY <1>2, <1>4, <1>5, LoadedPage
<1>8. Typed
  BY <1>3, <1>4, <1>5, <1>6, <1>7 DEF Typed
<1> QED
  BY <1>3, <1>4, <1>6, <1>7, <1>8 DEF Consistent

LEMMA StutterKeeps ==
  ASSUME Consistent, UNCHANGED vars
  PROVE  Consistent'
<1>1. page \in Page /\ Alike(page, page) /\ UNCHANGED <<shell, page, mount, bridge, run, call, answer, opened>>
  BY DEF Consistent, Typed, Alike, vars
<1> QED
  BY <1>1, AlikeKeeps

LEMMA StepsKeep == Consistent /\ [Next]_vars => Consistent'
<1>1. SUFFICES ASSUME Consistent, [Next]_vars PROVE Consistent'
  OBVIOUS
<1>2. ASSUME NEW r \in Requests, Request(r) PROVE Consistent'
  BY <1>1, <1>2, RequestKeeps
<1>3. CASE ShellAnswers \/ ShellFails
  BY <1>1, <1>3, ShellAnswersKeeps, ShellFailsKeeps
<1>4. CASE Bridge
  <2>1. CASE StartOp \/ Recovered \/ Continue
    BY <1>1, <2>1, StartOpKeeps, RecoveredIsKept, ContinueKeeps
  <2>2. CASE SendCompletion \/ Completed
    BY <1>1, <2>2, SendCompletionKeeps, CompletedKeeps
  <2>3. CASE SendAbandon \/ Abandoned
    BY <1>1, <2>3, SendAbandonKeeps, AbandonedKeeps
  <2>4. CASE ClaimAnswered
    BY <1>1, <2>4, ClaimAnsweredKeeps
  <2> QED
    BY <1>4, <2>1, <2>2, <2>3, <2>4 DEF Bridge
<1>5. ASSUME NEW listens \in BOOLEAN, Listen(listens) PROVE Consistent'
  BY <1>1, <1>5, ListenKeeps
<1>6. CASE HintArrives \/ RetrySynchronization
  BY <1>1, <1>6, SyncingKeeps
<1>7. CASE Unmount \/ Mount
  BY <1>1, <1>7, UnmountKeeps, MountKeeps
<1>8. CASE Reload \/ BecomesReady
  BY <1>1, <1>8, ReloadKeeps, BecomesReadyKeeps
<1>9. ASSUME NEW dirty \in BOOLEAN, Pump(dirty) PROVE Consistent'
  BY <1>1, <1>9, PumpKeeps
<1>13. CASE ConfirmDiscard
  BY <1>1, <1>13, ConfirmDiscardKeeps
<1>14. ASSUME NEW source \in page.errors, DismissError(source) PROVE Consistent'
  BY <1>1, <1>14, DismissErrorKeeps
<1>10. CASE CancelDiscard
  BY <1>1, <1>10, CancelDiscardKeeps
<1>11. ASSUME NEW outcome \in Outcomes, OpenEnds(outcome) PROVE Consistent'
  BY <1>1, <1>11, OpenEndsKeeps
<1>12. CASE UNCHANGED vars
  BY <1>1, <1>12, StutterKeeps
<1> QED
  BY <1>1, <1>2, <1>3, <1>4, <1>5, <1>6, <1>7, <1>8, <1>9, <1>10, <1>11, <1>12, <1>13, <1>14 DEF Next

\* The runtime, the bridge and the shell agree, whatever happens to the page, and with the first
\* component of a page an attempt waits in one place until it is opened (the runtime refs of
\* useDesktopOpenRequests.ts against the records of the shell).
THEOREM PageAndShellAgree == Spec => []Consistent
<1>1. Init => Consistent
  BY ConsistentInitially
<1>2. Consistent /\ [Next]_vars => Consistent'
  BY StepsKeep
<1> QED
  BY <1>1, <1>2, PTL DEF Spec

LEMMA ConsistentStrandsNothing == Consistent => NothingDeliveredIsStranded
<1>1. SUFFICES ASSUME Consistent PROVE NothingDeliveredIsStranded
  OBVIOUS
<1>2. Coherent(page) /\ Held(shell, page, Giving(bridge, run))
  BY <1>1 DEF Consistent, Works
<1>3. Giving(bridge, run) \in SUBSET OnBridge
  BY DEF Giving, OnBridge
<1>4. Positions(page) \in SUBSET (ToSet(page.queue) \cup {page.pending, page.active})
  BY DEF Positions
<1>5. page.applied = Completions(page) /\ page.recording \cap page.acknowledging = {}
  BY <1>2 DEF Coherent
<1>6. ASSUME NEW r \in InState("processing"), At(r) \in page.seen
      PROVE  At(r) \in ToSet(page.queue) \union {page.pending, page.active} \union Completions(page)
                         \union page.abandoning \union OnBridge
  <2>1. r \in Requests /\ shell[r].state = "processing" /\ At(r) = AttemptOf(shell, r)
    BY DEF InState, At, AttemptOf
  <2>2. At(r) \in Positions(page) \cup page.applied \cup page.abandoning \cup Giving(bridge, run)
    BY <1>2, <1>6, <2>1 DEF Held
  <2> QED
    BY <1>3, <1>4, <1>5, <2>2
<1> QED
  BY <1>5, <1>6 DEF NothingDeliveredIsStranded

LEMMA ConsistentOpensOnce == Consistent => OpenedExactlyOnce
<1>1. SUFFICES ASSUME Consistent PROVE OpenedExactlyOnce
  OBVIOUS
<1>2. DoneWasOpened
  BY <1>1 DEF Consistent, Opened, DoneWasOpened, InState
<1>3. ASSUME mount.generation = 1
      PROVE  OpenedTwice = {}
  <2>1. opened.now \in [Requests -> Nat] /\ \A r \in Requests : opened.now[r] <= 1
    BY <1>1, <1>3 DEF Consistent, Typed, Once
  <2>2. \A r \in Requests : ~(opened.now[r] > 1)
    BY <2>1
  <2> QED
    BY <2>2 DEF OpenedTwice
<1> QED
  BY <1>2, <1>3 DEF OpenedExactlyOnce

\* An attempt the page has seen, and that the shell believes it works on, is in the queue, the
\* prompt, the open, the completions, the abandonments or an operation of the bridge: whatever is
\* delivered again, answered late, cancelled, unmounted or refused, it is not dropped.
THEOREM DeliveriesAreKept == Spec => []NothingDeliveredIsStranded
<1>1. Consistent => NothingDeliveredIsStranded
  BY ConsistentStrandsNothing
<1> QED
  BY <1>1, PageAndShellAgree, PTL

\* The shell forgets a request only when its document was opened, and while the first component of
\* a page exists its document is opened once, even when the open ends after an unmount.
THEOREM RequestsAreOpenedOnce == Spec => []OpenedExactlyOnce
<1>1. Consistent => OpenedExactlyOnce
  BY ConsistentOpensOnce
<1> QED
  BY <1>1, PageAndShellAgree, PTL
=============================================================================
