----------------------------- MODULE Trash_proofs -----------------------------
(***************************************************************************)
(* Proofs about the trash: whichever steps of its operations fail, and     *)
(* wherever the process stops, no listed document loses its content, the   *)
(* limits hold, and the service is the bin that TrashBin promises.         *)
(***************************************************************************)
EXTENDS Trash, FiniteSetTheorems, TLAPS

\* The inductive invariant.  That nothing listed is lost depends on what an operation may
\* still put back, and that on where it is.
Safe == TypeOK /\ NothingListedIsLost /\ TransactionsAreUndoable

\* Only entries other than the new one are evicted.
LEMMA EvictedAreOthers ==
  ASSUME NEW ids, NEW new
  PROVE  Evicted(ids, new) \subseteq ids \ {new}
BY DEF Evicted, OldestOf

\* The empty trash satisfies the invariant.
LEMMA SafeInitially == Init => Safe
BY TrashAssumption DEF Init, Safe, TypeOK, NothingListedIsLost, TransactionsAreUndoable,
  Idle, Operation, In, Before

\* Every step of every operation, its failures and a crash preserve the invariant.
LEMMA SafePreserved == Safe /\ [Next]_vars => Safe'
<1> SUFFICES ASSUME Safe, [Next]_vars PROVE Safe'
  OBVIOUS
<1> USE TrashAssumption
<1> USE DEF Safe, TypeOK, NothingListedIsLost, TransactionsAreUndoable, Operation, Idle,
            Kinds, Phases, Before, In, GoTo, Answer, files
<1>1. ASSUME NEW kind \in Kinds, NEW id \in Ids \cup {NoId}, Start(kind, id) PROVE Safe'
  BY <1>1 DEF Start
<1>2. ASSUME NEW id \in Ids, Reconcile(id) PROVE Safe'
  BY <1>2 DEF Reconcile, RestoreStaged, RemoveUnlisted, Wanted
<1>3. CASE ReconcileFails
  BY <1>3 DEF ReconcileFails
<1>4. CASE ReadAnswers
  BY <1>4 DEF ReadAnswers
<1>5. CASE ArchiveProceeds
  BY <1>5 DEF ArchiveProceeds, Reconciled
<1>6. CASE WriteContentFails
  BY <1>6 DEF WriteContentFails
<1>7. ASSUME NEW valid \in BOOLEAN, RemoveProceeds(valid) PROVE Safe'
  <2>1. CASE op.id \in manifest /\ valid
    <3>1. /\ op \in Operation /\ staged = {} /\ content = manifest /\ op.kind = "remove"
          /\ op' = [op EXCEPT !.after = manifest \ {op.id}, !.left = {op.id}, !.phase = "stage"]
          /\ UNCHANGED <<files, used>>
      BY <1>7, <2>1 DEF RemoveProceeds, Reconciled
    <3>2. /\ op' \in Operation /\ op'.kind = "remove" /\ op'.phase = "stage"
          /\ op'.after = manifest \ {op.id} /\ op'.left = {op.id}
      BY <3>1, <2>1
    <3> QED
      BY <3>1, <3>2, <2>1
  <2>2. CASE ~(op.id \in manifest /\ valid)
    BY <1>7, <2>2 DEF RemoveProceeds
  <2> QED
    BY <2>1, <2>2
<1>8. ASSUME NEW valid \in BOOLEAN, EmptyProceeds(valid) PROVE Safe'
  <2>1. CASE manifest # {} /\ valid
    <3>1. /\ op \in Operation /\ staged = {} /\ content = manifest /\ op.kind = "empty"
          /\ op' = [op EXCEPT !.after = {}, !.left = manifest, !.phase = "stage"]
          /\ UNCHANGED <<files, used>>
      BY <1>8, <2>1 DEF EmptyProceeds, Reconciled
    <3>2. /\ op' \in Operation /\ op'.kind = "empty" /\ op'.phase = "stage"
          /\ op'.after = {} /\ op'.left = manifest
      BY <3>1
    <3> QED
      BY <3>1, <3>2
  <2>2. CASE ~(manifest # {} /\ valid)
    BY <1>8, <2>2 DEF EmptyProceeds
  <2> QED
    BY <2>1, <2>2
<1>9. ASSUME NEW id \in Ids, NEW valid \in BOOLEAN, WriteContent(id, valid) PROVE Safe'
  <2> DEFINE evicted == Evicted(manifest \cup {id}, id)
  <2>1. evicted \subseteq manifest /\ id \notin evicted
    BY EvictedAreOthers
  <2> HIDE DEF evicted
  <2>2. /\ In("write") /\ id \in Ids \ used
        /\ content' = content \cup {id} /\ used' = used \cup {id}
        /\ op' = [op EXCEPT !.id = id, !.after = (manifest \cup {id}) \ evicted,
                            !.left = evicted, !.phase = IF valid THEN "stage" ELSE "undo"]
        /\ UNCHANGED <<manifest, staged>>
    BY <1>9 DEF WriteContent, evicted
  <2>3. /\ op \in Operation /\ staged = {} /\ manifest \subseteq content /\ id \notin manifest
    BY <2>2
  <2>4. /\ op' \in Operation /\ op'.id = id /\ op'.phase \in {"stage", "undo"}
        /\ op'.after = (manifest \cup {id}) \ evicted /\ op'.left = evicted
    BY <2>1, <2>2, <2>3
  <2>5. TypeOK' /\ NothingListedIsLost'
    BY <2>2, <2>4
  <2>6. /\ op'.left \cup staged' \subseteq manifest' \ op'.after
        /\ op'.after \subseteq content'
        /\ staged' \cap op'.left = {}
        /\ manifest' \ op'.after = staged' \cup op'.left
        /\ op'.id \notin manifest'
    BY <2>1, <2>2, <2>3, <2>4
  <2> QED
    BY <2>4, <2>5, <2>6
<1>10. ASSUME NEW id \in Ids, NEW ok \in BOOLEAN, Stage(id, ok) PROVE Safe'
  BY <1>10 DEF Stage
<1>11. ASSUME NEW id \in Ids, NEW ok \in BOOLEAN, Unstage(id, ok) PROVE Safe'
  BY <1>11 DEF Unstage, GiveUp
<1>12. ASSUME NEW id \in Ids, NEW ok \in BOOLEAN, Cleanup(id, ok) PROVE Safe'
  BY <1>12 DEF Cleanup
<1>13. ASSUME NEW ok \in BOOLEAN, WriteManifest(ok) PROVE Safe'
  <2>1. CASE ok
    <3>1. /\ op \in Operation /\ op.phase = "stage" /\ manifest' = op.after
          /\ op' = [op EXCEPT !.phase = "cleanup", !.left = staged]
          /\ UNCHANGED <<content, staged, used>>
      BY <1>13, <2>1 DEF WriteManifest
    <3>2. /\ op' \in Operation /\ op'.phase = "cleanup"
      BY <3>1
    <3>3. manifest' \subseteq content'
      BY <3>1
    <3> QED
      BY <3>1, <3>2, <3>3
  <2>2. CASE ~ok
    BY <1>13, <2>2 DEF WriteManifest
  <2> QED
    BY <2>1, <2>2
<1>14. ASSUME NEW ok \in BOOLEAN, Undo(ok) PROVE Safe'
  <2>1. op \in Operation /\ op.phase = "undo"
    BY <1>14 DEF Undo
  <2>2. op' = Idle /\ UNCHANGED <<manifest, staged, used>>
    BY <1>14 DEF Undo
  <2>3. content' \in {content, content \ {op.id}}
    BY <1>14 DEF Undo
  <2>4. NothingListedIsLost'
    BY <2>1, <2>2, <2>3
  <2> QED
    BY <2>2, <2>3, <2>4
<1>15. CASE Unstaged
  BY <1>15 DEF Unstaged, GiveUp
<1>16. CASE CleanedUp
  BY <1>16 DEF CleanedUp
<1>17. CASE Crash
  BY <1>17 DEF Crash
<1>18. CASE UNCHANGED vars
  BY <1>18 DEF vars
<1> QED
  BY <1>1, <1>2, <1>3, <1>4, <1>5, <1>6, <1>7, <1>8, <1>9, <1>10, <1>11, <1>12, <1>13,
     <1>14, <1>15, <1>16, <1>17, <1>18 DEF Next

\* The inductive invariant holds in every state.
LEMMA AlwaysSafe == Spec => []Safe
BY SafeInitially, SafePreserved, PTL DEF Spec

\* Every listed entry has its content in the directory at every step, for every set of
\* documents, all limits and every pattern of failures and crashes.
THEOREM ListedIsNeverLost == Spec => []NothingListedIsLost
BY AlwaysSafe, PTL DEF Safe

\* Until the manifest is written an operation can be put back, and afterwards it deletes
\* nothing that is listed.
THEOREM OperationsAreUndoable == Spec => []TransactionsAreUndoable
BY AlwaysSafe, PTL DEF Safe

-----------------------------------------------------------------------------
(* The smallest of some naturals, and of some finite sets.                 *)

LEMMA SmallestNumber ==
  ASSUME NEW S \in SUBSET Nat, S # {}
  PROVE  \E n \in S : \A m \in S : n <= m
<1> DEFINE Less == {pair \in Nat \X Nat : pair[1] < pair[2]}
<1>1. IsWellFoundedOn(Less, Nat)
  BY NatLessThanWellFounded DEF OpToRel
<1>2. \A a \in Nat, b \in Nat : a < b => <<a, b>> \in Less
  OBVIOUS
<1> HIDE DEF Less
<1>3. PICK n \in S : \A m \in S : <<m, n>> \notin Less
  BY <1>1, WFMin
<1>4. ASSUME NEW m \in S
      PROVE  n <= m
  <2>1. n \in Nat /\ m \in Nat
    OBVIOUS
  <2>2. ~(m < n)
    BY <1>2, <1>3, <2>1
  <2> QED
    BY <2>1, <2>2
<1> QED
  BY <1>4

\* Whatever fails for a finite set fails for one all of whose smaller sets it holds of.
LEMMA SmallestSet ==
  ASSUME NEW bad, bad # {}, \A T \in bad : IsFiniteSet(T)
  PROVE  \E T \in bad : \A U \in bad : Cardinality(T) <= Cardinality(U)
<1> DEFINE sizes == {Cardinality(T) : T \in bad}
<1>1. sizes \in SUBSET Nat /\ sizes # {}
  BY FS_CardinalityType
<1>2. PICK n \in sizes : \A m \in sizes : n <= m
  <2> HIDE DEF sizes
  <2> QED
    BY <1>1, SmallestNumber
<1>3. PICK T \in bad : n = Cardinality(T)
  OBVIOUS
<1>4. \A U \in bad : n <= Cardinality(U)
  BY <1>2
<1> QED
  BY <1>3, <1>4

LEMMA OneLess ==
  ASSUME NEW T, IsFiniteSet(T), NEW x \in T
  PROVE  /\ IsFiniteSet(T \ {x}) /\ Cardinality(T \ {x}) < Cardinality(T)
         /\ \A U \in SUBSET (T \ {x}) : IsFiniteSet(U) /\ Cardinality(U) < Cardinality(T)
<1>1. IsFiniteSet(T \ {x}) /\ Cardinality(T \ {x}) = Cardinality(T) - 1 /\ Cardinality(T) \in Nat
  BY FS_RemoveElement, FS_CardinalityType
<1>2. ASSUME NEW U \in SUBSET (T \ {x})
      PROVE  IsFiniteSet(U) /\ Cardinality(U) < Cardinality(T)
  <2>1. IsFiniteSet(U) /\ Cardinality(U) <= Cardinality(T \ {x}) /\ Cardinality(U) \in Nat
    BY <1>1, FS_Subset, FS_CardinalityType
  <2> QED
    BY <1>1, <2>1
<1> QED
  BY <1>1, <1>2

-----------------------------------------------------------------------------
(* Bytes: the recursion of the fold has a solution, and the order in which *)
(* it takes the entries makes no difference.                               *)

FirstOf(s) == CHOOSE x \in s : TRUE

IsSum(f, S) ==
  f = [s \in SUBSET S |-> IF s = {} THEN 0 ELSE Size[FirstOf(s)] + f[s \ {FirstOf(s)}]]

LEMMA BytesIsSum ==
  ASSUME NEW S
  PROVE  Bytes(S) = (CHOOSE f : IsSum(f, S))[S]
<1>1. Bytes(S) =
        LET iter[s \in SUBSET S] ==
              IF s = {} THEN 0
              ELSE LET x == CHOOSE x \in s : TRUE
                   IN  Size[x] + iter[s \ {x}]
        IN  iter[S]
  BY DEF Bytes, MapThenSumSet, MapThenFoldSet
<1> QED
  BY <1>1 DEF IsSum, FirstOf

LEMMA FirstIsIn ==
  ASSUME NEW s, s # {}
  PROVE  FirstOf(s) \in s
BY DEF FirstOf

LEMMA SumsAt ==
  ASSUME NEW f, NEW S, IsSum(f, S), NEW s \in SUBSET S
  PROVE  f[s] = (IF s = {} THEN 0 ELSE Size[FirstOf(s)] + f[s \ {FirstOf(s)}])
BY DEF IsSum

\* Two solutions agree where both are defined.
LEMMA SumsAgree ==
  ASSUME NEW f, NEW S, IsSum(f, S), NEW g, NEW T, IsSum(g, T),
         NEW s, s \in SUBSET S, s \in SUBSET T, IsFiniteSet(s)
  PROVE  f[s] = g[s]
<1> DEFINE bad == {u \in SUBSET s : f[u] # g[u]}
<1>1. SUFFICES ASSUME bad # {} PROVE FALSE
  OBVIOUS
<1>2. \A u \in bad : IsFiniteSet(u)
  BY FS_Subset
<1>3. PICK u \in bad : \A v \in bad : Cardinality(u) <= Cardinality(v)
  <2> HIDE DEF bad
  <2> QED
    BY <1>1, <1>2, SmallestSet
<1>4. u \in SUBSET S /\ u \in SUBSET T /\ IsFiniteSet(u) /\ f[u] # g[u]
  BY <1>2
<1>5. CASE u = {}
  BY <1>4, <1>5, SumsAt
<1>6. CASE u # {}
  <2>1. PICK x \in u : x = FirstOf(u)
    BY <1>6, FirstIsIn
  <2>2. Cardinality(u \ {x}) < Cardinality(u) /\ Cardinality(u) \in Nat /\ Cardinality(u \ {x}) \in Nat
    BY <1>4, OneLess, FS_CardinalityType
  <2>3. u \ {x} \notin bad
    <3> HIDE DEF bad
    <3> QED
      BY <1>3, <2>2
  <2>4. f[u \ {x}] = g[u \ {x}]
    BY <2>3
  <2>5. f[u] = Size[x] + f[u \ {x}] /\ g[u] = Size[x] + g[u \ {x}]
    BY <1>4, <1>6, <2>1, SumsAt
  <2> QED
    BY <1>4, <2>4, <2>5
<1> QED
  BY <1>5, <1>6

\* Where there is a solution it is the bytes.
LEMMA SumsAreBytes ==
  ASSUME NEW f, NEW S, IsSum(f, S), NEW s \in SUBSET S, IsFiniteSet(s), \E g : IsSum(g, s)
  PROVE  Bytes(s) = f[s]
<1>1. PICK g : g = (CHOOSE h : IsSum(h, s))
  OBVIOUS
<1>2. IsSum(g, s)
  BY <1>1
<1>3. f[s] = g[s]
  BY <1>2, SumsAgree
<1> QED
  BY <1>1, <1>3, BytesIsSum

LEMMA SumsExist ==
  ASSUME NEW S, IsFiniteSet(S)
  PROVE  \E f : IsSum(f, S)
<1> DEFINE bad == {T \in SUBSET S : ~\E f : IsSum(f, T)}
<1>1. SUFFICES ASSUME bad # {} PROVE FALSE
  OBVIOUS
<1>2. \A T \in bad : IsFiniteSet(T)
  BY FS_Subset
<1>3. PICK T \in bad : \A U \in bad : Cardinality(T) <= Cardinality(U)
  <2> HIDE DEF bad
  <2> QED
    BY <1>1, <1>2, SmallestSet
<1>4. IsFiniteSet(T) /\ T \in SUBSET S /\ Cardinality(T) \in Nat
  BY <1>2, FS_CardinalityType
<1>5. ASSUME NEW x \in T, NEW u \in SUBSET (T \ {x})
      PROVE  IsFiniteSet(u) /\ \E f : IsSum(f, u)
  <2>1. IsFiniteSet(u) /\ Cardinality(u) < Cardinality(T) /\ Cardinality(u) \in Nat
    BY <1>4, OneLess, FS_CardinalityType
  <2>2. u \notin bad
    <3> HIDE DEF bad
    <3> QED
      BY <1>3, <1>4, <2>1
  <2> QED
    BY <1>4, <2>1, <2>2
<1> DEFINE f == [s \in SUBSET T |-> IF s = {} THEN 0 ELSE Size[FirstOf(s)] + Bytes(s \ {FirstOf(s)})]
<1>6. ASSUME NEW s \in SUBSET T, s # {}
      PROVE  f[s \ {FirstOf(s)}] = Bytes(s \ {FirstOf(s)})
  <2>1. PICK x \in T : x = FirstOf(s) /\ x \in s
    BY <1>6, FirstIsIn
  <2>2. PICK u \in SUBSET (T \ {x}) : u = s \ {x}
    OBVIOUS
  <2>3. IsFiniteSet(u) /\ \E g : IsSum(g, u)
    BY <1>5
  <2>4. PICK g : IsSum(g, u)
    BY <2>3
  <2>5. Bytes(u) = g[u]
    BY <2>3, <2>4, SumsAreBytes
  <2>6. CASE u = {}
    <3>1. g[u] = 0
      BY <2>4, <2>6, SumsAt
    <3>2. f[u] = 0
      BY <2>6
    <3> QED
      BY <2>1, <2>2, <2>5, <3>1, <3>2
  <2>7. CASE u # {}
    <3>1. PICK y \in u : y = FirstOf(u)
      BY <2>7, FirstIsIn
    <3>2. g[u] = Size[y] + g[u \ {y}]
      BY <2>4, <2>7, <3>1, SumsAt
    <3>3. IsFiniteSet(u \ {y}) /\ \E h : IsSum(h, u \ {y})
      BY <1>5
    <3>4. Bytes(u \ {y}) = g[u \ {y}]
      BY <2>4, <3>3, SumsAreBytes
    <3>5. f[u] = Size[y] + Bytes(u \ {y})
      BY <2>7, <3>1
    <3> QED
      BY <2>1, <2>2, <2>5, <3>2, <3>4, <3>5
  <2> QED
    BY <2>6, <2>7
<1>7. IsSum(f, T)
  <2>1. f = [s \in SUBSET T |-> IF s = {} THEN 0 ELSE Size[FirstOf(s)] + f[s \ {FirstOf(s)}]]
    BY <1>6
  <2> HIDE DEF f
  <2> QED
    BY <2>1 DEF IsSum
<1> HIDE DEF f
<1> QED
  BY <1>7

\* The bytes of a finite set: those of one entry and of the rest.
LEMMA BytesOfFirst ==
  /\ Bytes({}) = 0
  /\ \A S : IsFiniteSet(S) /\ S # {} => Bytes(S) = Size[FirstOf(S)] + Bytes(S \ {FirstOf(S)})
<1>1. Bytes({}) = 0
  <2>1. PICK f : IsSum(f, {})
    BY SumsExist, FS_EmptySet
  <2>2. Bytes({}) = f[{}]
    BY <2>1, SumsAreBytes, FS_EmptySet
  <2> QED
    BY <2>1, <2>2, SumsAt
<1>2. ASSUME NEW S, IsFiniteSet(S), S # {}
      PROVE  Bytes(S) = Size[FirstOf(S)] + Bytes(S \ {FirstOf(S)})
  <2>1. PICK x \in S : x = FirstOf(S)
    BY <1>2, FirstIsIn
  <2>2. PICK f : IsSum(f, S)
    BY <1>2, SumsExist
  <2>3. IsFiniteSet(S \ {x})
    BY <1>2, FS_RemoveElement
  <2>4. Bytes(S \ {x}) = f[S \ {x}]
    BY <2>2, <2>3, SumsExist, SumsAreBytes
  <2>5. Bytes(S) = f[S]
    BY <1>2, <2>2, SumsAreBytes
  <2>6. f[S] = Size[x] + f[S \ {x}]
    BY <1>2, <2>1, <2>2, SumsAt
  <2> QED
    BY <2>1, <2>4, <2>5, <2>6
<1> QED
  BY <1>1, <1>2

LEMMA BytesIsNat ==
  ASSUME NEW S \in SUBSET Ids, IsFiniteSet(S)
  PROVE  Bytes(S) \in Nat
<1> DEFINE bad == {T \in SUBSET S : Bytes(T) \notin Nat}
<1>1. SUFFICES ASSUME bad # {} PROVE FALSE
  OBVIOUS
<1>2. \A T \in bad : IsFiniteSet(T)
  BY FS_Subset
<1>3. PICK T \in bad : \A U \in bad : Cardinality(T) <= Cardinality(U)
  <2> HIDE DEF bad
  <2> QED
    BY <1>1, <1>2, SmallestSet
<1>4. IsFiniteSet(T) /\ T \in SUBSET S /\ Bytes(T) \notin Nat /\ Cardinality(T) \in Nat
  BY <1>2, FS_CardinalityType
<1>5. T # {}
  BY <1>4, BytesOfFirst
<1>6. PICK x \in T : x = FirstOf(T)
  BY <1>5, FirstIsIn
<1>7. Cardinality(T \ {x}) < Cardinality(T) /\ Cardinality(T \ {x}) \in Nat
  BY <1>4, OneLess, FS_CardinalityType
<1>8. T \ {x} \notin bad
  <2> HIDE DEF bad
  <2> QED
    BY <1>3, <1>4, <1>7
<1>9. Bytes(T \ {x}) \in Nat /\ Size[x] \in Nat
  BY <1>4, <1>8, TrashAssumption
<1>10. Bytes(T) = Size[x] + Bytes(T \ {x})
  BY <1>4, <1>5, <1>6, BytesOfFirst
<1> QED
  BY <1>4, <1>9, <1>10

\* Any entry may be the first.
LEMMA BytesOfOne ==
  ASSUME NEW S \in SUBSET Ids, IsFiniteSet(S), NEW x \in S
  PROVE  Bytes(S) = Size[x] + Bytes(S \ {x})
<1> DEFINE bad == {T \in SUBSET S : \E y \in T : Bytes(T) # Size[y] + Bytes(T \ {y})}
<1>1. SUFFICES ASSUME bad # {} PROVE FALSE
  OBVIOUS
<1>2. \A T \in bad : IsFiniteSet(T)
  BY FS_Subset
<1>3. PICK T \in bad : \A U \in bad : Cardinality(T) <= Cardinality(U)
  <2> HIDE DEF bad
  <2> QED
    BY <1>1, <1>2, SmallestSet
<1>4. IsFiniteSet(T) /\ T \in SUBSET S /\ Cardinality(T) \in Nat
  BY <1>2, FS_CardinalityType
<1>5. PICK y \in T : Bytes(T) # Size[y] + Bytes(T \ {y})
  OBVIOUS
<1>6. PICK x1 \in T : x1 = FirstOf(T)
  BY FirstIsIn
<1>7. Bytes(T) = Size[x1] + Bytes(T \ {x1})
  BY <1>4, <1>6, BytesOfFirst
<1>8. x1 # y
  BY <1>5, <1>7
<1>9. ASSUME NEW z \in T, NEW u \in T \ {z}
      PROVE  Bytes(T \ {z}) = Size[u] + Bytes((T \ {z}) \ {u})
  <2>1. Cardinality(T \ {z}) < Cardinality(T) /\ Cardinality(T \ {z}) \in Nat
    BY <1>4, OneLess, FS_CardinalityType
  <2>2. T \ {z} \notin bad
    <3> HIDE DEF bad
    <3> QED
      BY <1>3, <1>4, <2>1
  <2> QED
    BY <1>4, <2>2
<1>10. Bytes(T \ {x1}) = Size[y] + Bytes((T \ {x1}) \ {y})
  BY <1>8, <1>9
<1>11. Bytes(T \ {y}) = Size[x1] + Bytes((T \ {y}) \ {x1})
  BY <1>8, <1>9
<1>12. PICK rest : rest = (T \ {x1}) \ {y} /\ rest = (T \ {y}) \ {x1}
  OBVIOUS
<1>13. Bytes(rest) \in Nat /\ Size[x1] \in Nat /\ Size[y] \in Nat
  <2>1. IsFiniteSet(rest) /\ rest \in SUBSET Ids
    BY <1>4, <1>12, FS_Subset
  <2> QED
    BY <1>4, <2>1, BytesIsNat, TrashAssumption
<1>14. Bytes(T \ {x1}) = Size[y] + Bytes(rest) /\ Bytes(T \ {y}) = Size[x1] + Bytes(rest)
  BY <1>10, <1>11, <1>12
<1> QED
  BY <1>5, <1>7, <1>13, <1>14
-----------------------------------------------------------------------------
(* Making room.                                                            *)

\* What is left of the listed entries and the new one: it fits, what had to go is older than
\* what stayed, and with the youngest of what went it would not have fitted.
Room(ids, new, after) ==
  /\ after \subseteq ids /\ new \in after
  /\ Fits(after)
  /\ \A old \in ids \ after, young \in after \ {new} : old < young
  /\ \A young \in ids \ after :
       (\A old \in ids \ after : old <= young) => ~Fits(after \cup {young})

LEMMA OlderAreFewer ==
  ASSUME NEW ids \in SUBSET Ids, IsFiniteSet(ids), NEW old \in ids, NEW young \in ids, old < young
  PROVE  /\ Cardinality({x \in ids : x < old}) \in Nat /\ Cardinality({x \in ids : x < young}) \in Nat
         /\ Cardinality({x \in ids : x < old}) < Cardinality({x \in ids : x < young})
<1> DEFINE a == {x \in ids : x < old}
           b == {x \in ids : x < young}
<1>1. ids \subseteq Nat
  BY TrashAssumption
<1>2. a \in SUBSET (b \ {old}) /\ old \in b
  <2>1. ASSUME NEW x \in ids, x < old
        PROVE  x < young /\ x # old
    <3>1. x \in Nat /\ old \in Nat /\ young \in Nat
      BY <1>1
    <3> QED
      BY <2>1, <3>1
  <2> QED
    BY <2>1
<1>3. IsFiniteSet(b)
  <2>1. b \in SUBSET ids
    OBVIOUS
  <2> HIDE DEF b
  <2> QED
    BY <2>1, FS_Subset
<1> HIDE DEF a, b
<1>4. IsFiniteSet(a) /\ Cardinality(a) < Cardinality(b)
  BY <1>2, <1>3, OneLess
<1> QED
  BY <1>3, <1>4, FS_CardinalityType DEF a, b

LEMMA OlderAreCounted ==
  ASSUME NEW ids \in SUBSET Ids, IsFiniteSet(ids), NEW id \in ids
  PROVE  /\ Cardinality({x \in ids : x < id}) \in Nat
         /\ Cardinality({x \in ids : x < id}) < Cardinality(ids)
<1>1. ids \subseteq Nat
  BY TrashAssumption
<1>2. {x \in ids : x < id} \in SUBSET (ids \ {id})
  BY <1>1
<1>3. IsFiniteSet({x \in ids : x < id}) /\ Cardinality({x \in ids : x < id}) < Cardinality(ids)
  BY <1>2, OneLess
<1> QED
  BY <1>3, FS_CardinalityType

LEMMA OneFits ==
  ASSUME NEW id \in Ids, Size[id] <= MaxBytes
  PROVE  Fits({id})
<1>1. IsFiniteSet({id}) /\ Cardinality({id}) = 1
  BY FS_Singleton
<1>2. Bytes({id}) = Size[id] + Bytes({id} \ {id})
  BY <1>1, BytesOfOne
<1>3. {id} \ {id} = {} /\ Bytes({}) = 0 /\ Size[id] \in Nat
  BY BytesOfFirst, TrashAssumption
<1>4. Bytes({id}) = Size[id]
  BY <1>2, <1>3
<1>5. 1 <= MaxEntries
  BY TrashAssumption
<1> QED
  BY <1>1, <1>4, <1>5 DEF Fits

\* The choice in enforce_limits exists: without every other entry the new one fits.
LEMMA EvictedNumber ==
  ASSUME NEW ids \in SUBSET Ids, IsFiniteSet(ids), NEW new \in ids, Size[new] <= MaxBytes
  PROVE  \E n \in 0 .. Cardinality(ids \ {new}) :
           /\ Evicted(ids, new) = OldestOf(ids \ {new}, n)
           /\ Fits(ids \ OldestOf(ids \ {new}, n))
           /\ \A k \in 0 .. (n - 1) : ~Fits(ids \ OldestOf(ids \ {new}, k))
<1> DEFINE others == ids \ {new}
           count == Cardinality(others)
           enough == {n \in 0 .. count : Fits(ids \ OldestOf(others, n))}
           Fewest(n) == /\ Fits(ids \ OldestOf(others, n))
                        /\ \A k \in 0 .. (n - 1) : ~Fits(ids \ OldestOf(others, k))
<1>1. IsFiniteSet(others) /\ count \in Nat /\ others \in SUBSET Ids
  BY FS_RemoveElement, FS_CardinalityType
<1>2. OldestOf(others, count) = others
  BY <1>1, OlderAreCounted DEF OldestOf
<1>3. ids \ others = {new}
  OBVIOUS
<1>4. count \in enough
  <2>1. ids \ OldestOf(others, count) = {new}
    BY <1>2, <1>3
  <2>2. Fits({new})
    BY OneFits
  <2>3. count \in 0 .. count
    BY <1>1
  <2> QED
    BY <2>1, <2>2, <2>3
<1>5. PICK n \in enough : \A m \in enough : n <= m
  <2>1. enough \in SUBSET Nat /\ enough # {}
    <3>1. 0 .. count \subseteq Nat
      BY <1>1
    <3> HIDE DEF count
    <3> QED
      BY <1>4, <3>1
  <2> HIDE DEF enough
  <2> QED
    BY <2>1, SmallestNumber
<1>6. n \in 0 .. count /\ Fewest(n)
  <2>1. n \in 0 .. count /\ Fits(ids \ OldestOf(others, n))
    BY <1>5
  <2>2. ASSUME NEW k \in 0 .. (n - 1)
        PROVE  ~Fits(ids \ OldestOf(others, k))
    <3>1. k \in 0 .. count /\ ~(n <= k)
      BY <1>1, <2>1
    <3> QED
      BY <1>5, <3>1
  <2> QED
    BY <2>1, <2>2
<1>7. PICK m : m = CHOOSE k \in 0 .. count : Fewest(k)
  OBVIOUS
<1>8. m \in 0 .. count /\ Fewest(m)
  <2> HIDE DEF count, Fewest
  <2> QED
    BY <1>6, <1>7
<1>9. Evicted(ids, new) = OldestOf(others, m)
  BY <1>7 DEF Evicted
<1> QED
  BY <1>8, <1>9

LEMMA EvictionMakesRoom ==
  ASSUME NEW ids \in SUBSET Ids, IsFiniteSet(ids), NEW new \in ids, Size[new] <= MaxBytes
  PROVE  Room(ids, new, ids \ Evicted(ids, new))
<1> DEFINE others == ids \ {new}
           Rank(x) == Cardinality({older \in others : older < x})
<1>1. PICK n \in 0 .. Cardinality(others) :
        /\ Evicted(ids, new) = OldestOf(others, n)
        /\ Fits(ids \ OldestOf(others, n))
        /\ \A k \in 0 .. (n - 1) : ~Fits(ids \ OldestOf(others, k))
  BY EvictedNumber
<1>2. IsFiniteSet(others) /\ others \in SUBSET Ids /\ others \subseteq Nat
  BY FS_RemoveElement, TrashAssumption
<1>3. n \in Nat
  BY <1>1, <1>2, FS_CardinalityType
<1>4. \A x \in others : Rank(x) \in Nat
  BY <1>2, OlderAreCounted
<1>5. \A x \in others, y \in others : x < y => Rank(x) < Rank(y)
  BY <1>2, OlderAreFewer
<1>6. \A k : OldestOf(others, k) = {x \in others : Rank(x) < k}
  BY DEF OldestOf
<1>7. PICK gone : gone = Evicted(ids, new)
  OBVIOUS
<1> HIDE DEF Rank
<1>8. gone = {x \in others : Rank(x) < n}
  BY <1>1, <1>6, <1>7
<1>9. ids \ (ids \ gone) = gone /\ (ids \ gone) \ {new} = others \ gone
  BY <1>8
<1>10. ASSUME NEW old \in gone, NEW young \in others \ gone
       PROVE  old < young
  <2>1. old \in others /\ Rank(old) < n /\ ~(Rank(young) < n)
    BY <1>8
  <2>2. old # young /\ ~(young < old)
    BY <1>3, <1>4, <1>5, <2>1
  <2> QED
    BY <1>2, <2>1, <2>2
<1>11. ASSUME NEW young \in gone, \A old \in gone : old <= young
       PROVE  ~Fits((ids \ gone) \cup {young})
  <2>1. young \in others /\ Rank(young) < n /\ Rank(young) \in Nat
    BY <1>4, <1>8
  <2>2. n - 1 \in 0 .. (n - 1) /\ n - 1 \in Nat
    BY <1>3, <2>1
  <2>3. ~Fits(ids \ OldestOf(others, n - 1))
    BY <1>1, <2>2
  <2>4. PICK fewer : fewer = OldestOf(others, n - 1)
    OBVIOUS
  <2>5. fewer = {x \in others : Rank(x) < n - 1}
    BY <1>6, <2>4
  <2>6. ASSUME NEW x \in gone, x # young
        PROVE  x \in fewer
    <3>1. x \in others /\ x < young
      BY <1>2, <1>8, <1>11, <2>1, <2>6
    <3>2. Rank(x) < Rank(young) /\ Rank(x) \in Nat
      BY <1>4, <1>5, <2>1, <3>1
    <3>3. Rank(x) < n - 1
      BY <1>3, <2>1, <3>2
    <3> QED
      BY <2>5, <3>1, <3>3
  <2>7. fewer \subseteq gone
    <3>1. \A x \in others : Rank(x) < n - 1 => Rank(x) < n
      BY <1>3, <1>4
    <3> QED
      BY <1>8, <2>5, <3>1
  <2>8. young \notin fewer
    <3> SUFFICES ASSUME young \in fewer PROVE FALSE
      OBVIOUS
    <3>1. fewer = gone
      BY <2>6, <2>7
    <3> QED
      BY <1>1, <1>7, <2>3, <2>4, <3>1
  <2>9. ids \ fewer = (ids \ gone) \cup {young}
    BY <2>1, <2>6, <2>7, <2>8
  <2> QED
    BY <2>3, <2>4, <2>9
<1>12. new \in ids \ gone /\ Fits(ids \ gone)
  BY <1>1, <1>7, <1>8
<1> QED
  BY <1>7, <1>9, <1>10, <1>11, <1>12 DEF Room
-----------------------------------------------------------------------------
(* The limits, and the bin.                                                *)

\* What the manifest to be written will be.  The limits of the manifest follow only because an
\* operation settles what it keeps before it stages the rest, and nothing changes the manifest
\* in between.
Planned ==
  /\ IsFiniteSet(manifest) /\ BinWithinLimits
  /\ In("write") => op.kind = "archive"
  /\ In("stage") =>
       \/ op.kind = "archive" /\ op.id \in Ids /\ Room(manifest \cup {op.id}, op.id, op.after)
       \/ op.kind = "remove" /\ op.id \in manifest /\ op.after = manifest \ {op.id}
       \/ op.kind = "empty" /\ op.after = {}

LEMMA NothingFits == Fits({})
BY FS_EmptySet, BytesOfFirst, TrashAssumption DEF Fits

\* Fewer entries fit as well.
LEMMA FewerFit ==
  ASSUME NEW ids \in SUBSET Ids, IsFiniteSet(ids), Fits(ids), NEW id \in ids
  PROVE  Fits(ids \ {id})
<1>1. /\ IsFiniteSet(ids \ {id}) /\ Cardinality(ids \ {id}) < Cardinality(ids)
      /\ Cardinality(ids \ {id}) \in Nat /\ Cardinality(ids) \in Nat
  BY OneLess, FS_CardinalityType
<1>2. Bytes(ids) = Size[id] + Bytes(ids \ {id}) /\ Size[id] \in Nat
  BY BytesOfOne, TrashAssumption
<1>3. Bytes(ids \ {id}) \in Nat
  BY <1>1, BytesIsNat
<1> QED
  BY <1>1, <1>2, <1>3, TrashAssumption DEF Fits

\* What an operation plans fits.
LEMMA PlansFit ==
  ASSUME Safe, Planned, In("stage")
  PROVE  IsFiniteSet(op.after) /\ Fits(op.after) /\ op.after \subseteq used
<1>1. manifest \subseteq Ids /\ IsFiniteSet(manifest) /\ Fits(manifest)
  BY DEF Safe, TypeOK, Planned, BinWithinLimits
<1>2. op.after \subseteq used
  BY DEF Safe, TypeOK, TransactionsAreUndoable, In, Before
<1>3. CASE op.kind = "archive" /\ op.id \in Ids /\ Room(manifest \cup {op.id}, op.id, op.after)
  <2>1. op.after \in SUBSET (manifest \cup {op.id}) /\ IsFiniteSet(manifest \cup {op.id})
    BY <1>1, <1>3, FS_AddElement DEF Room
  <2> QED
    BY <1>2, <1>3, <2>1, FS_Subset DEF Room
<1>4. CASE op.id \in manifest /\ op.after = manifest \ {op.id}
  BY <1>1, <1>2, <1>4, FewerFit, FS_RemoveElement
<1>5. CASE op.after = {}
  BY <1>2, <1>5, NothingFits, FS_EmptySet
<1> QED
  BY <1>3, <1>4, <1>5 DEF Planned

LEMMA PlannedInitially == Init => Planned
BY NothingFits, FS_EmptySet DEF Init, Planned, BinWithinLimits, In, Idle

\* Where the manifest stays as it is and nothing new is planned, the plan stays as well.
LEMMA PlansStay ==
  ASSUME Planned, manifest' = manifest,
         In("write")' => op'.kind = "archive",
         In("stage")' => In("stage") /\ op'.kind = op.kind /\ op'.id = op.id /\ op'.after = op.after
  PROVE  Planned'
<1>1. IsFiniteSet(manifest') /\ BinWithinLimits'
  BY DEF Planned, BinWithinLimits
<1>2. ASSUME In("stage")'
      PROVE  \/ op'.kind = "archive" /\ op'.id \in Ids /\ Room(manifest' \cup {op'.id}, op'.id, op'.after)
             \/ op'.kind = "remove" /\ op'.id \in manifest' /\ op'.after = manifest' \ {op'.id}
             \/ op'.kind = "empty" /\ op'.after = {}
  BY <1>2 DEF Planned
<1> QED
  BY <1>1, <1>2 DEF Planned

LEMMA PlannedPreserved == Safe /\ Planned /\ [Next]_vars => Planned'
<1> SUFFICES ASSUME Safe, Planned, [Next]_vars PROVE Planned'
  OBVIOUS
<1>0. op \in Operation \cup {Idle} /\ manifest \subseteq Ids /\ manifest \subseteq used
  BY DEF Safe, TypeOK
<1> USE DEF In, GoTo, Answer, files, Operation, Idle
<1>1. ASSUME NEW kind \in Kinds, NEW id \in Ids \cup {NoId}, Start(kind, id) PROVE Planned'
  BY <1>1, PlansStay DEF Start
<1>2. ASSUME NEW id \in Ids, Reconcile(id) PROVE Planned'
  BY <1>2, PlansStay DEF Reconcile
<1>3. CASE ReconcileFails \/ ReadAnswers \/ WriteContentFails \/ CleanedUp \/ Crash
  BY <1>3, PlansStay DEF ReconcileFails, ReadAnswers, WriteContentFails, CleanedUp, Crash
<1>4. CASE ArchiveProceeds
  <2>1. op.kind = "archive" /\ op'.kind = "archive" /\ op'.phase = "write" /\ manifest' = manifest
    BY <1>0, <1>4 DEF ArchiveProceeds, Reconciled
  <2> QED
    BY <2>1, PlansStay
<1>5. ASSUME NEW valid \in BOOLEAN, RemoveProceeds(valid) PROVE Planned'
  <2>1. CASE op.id \in manifest /\ valid
    <3>1. /\ op'.kind = "remove" /\ op'.phase = "stage" /\ op'.id = op.id
          /\ op'.after = manifest \ {op.id} /\ manifest' = manifest
      BY <1>0, <1>5, <2>1 DEF RemoveProceeds, Reconciled
    <3>2. IsFiniteSet(manifest') /\ BinWithinLimits'
      BY <3>1 DEF Planned, BinWithinLimits
    <3> QED
      BY <2>1, <3>1, <3>2 DEF Planned
  <2>2. CASE ~(op.id \in manifest /\ valid)
    BY <1>5, <2>2, PlansStay DEF RemoveProceeds
  <2> QED
    BY <2>1, <2>2
<1>6. ASSUME NEW valid \in BOOLEAN, EmptyProceeds(valid) PROVE Planned'
  <2>1. CASE manifest # {} /\ valid
    <3>1. /\ op'.kind = "empty" /\ op'.phase = "stage" /\ op'.after = {} /\ manifest' = manifest
      BY <1>0, <1>6, <2>1 DEF EmptyProceeds, Reconciled
    <3>2. IsFiniteSet(manifest') /\ BinWithinLimits'
      BY <3>1 DEF Planned, BinWithinLimits
    <3> QED
      BY <3>1, <3>2 DEF Planned
  <2>2. CASE ~(manifest # {} /\ valid)
    BY <1>6, <2>2, PlansStay DEF EmptyProceeds
  <2> QED
    BY <2>1, <2>2
<1>7. ASSUME NEW id \in Ids, NEW valid \in BOOLEAN, WriteContent(id, valid) PROVE Planned'
  <2> DEFINE evicted == Evicted(manifest \cup {id}, id)
  <2>1. Room(manifest \cup {id}, id, (manifest \cup {id}) \ evicted)
    <3>1. IsFiniteSet(manifest \cup {id}) /\ manifest \cup {id} \in SUBSET Ids /\ id \in manifest \cup {id}
      BY <1>0, FS_AddElement DEF Planned
    <3>2. Size[id] <= MaxBytes
      BY <1>7 DEF WriteContent
    <3> QED
      BY <3>1, <3>2, EvictionMakesRoom
  <2>2. evicted \subseteq (manifest \cup {id}) \ {id}
    BY EvictedAreOthers
  <2> HIDE DEF evicted
  <2>3. /\ op.phase = "write" /\ manifest' = manifest
        /\ op' = [op EXCEPT !.id = id, !.after = (manifest \cup {id}) \ evicted,
                            !.left = evicted, !.phase = IF valid THEN "stage" ELSE "undo"]
    BY <1>7 DEF WriteContent, evicted
  <2>4. op.kind = "archive"
    BY <2>3 DEF Planned
  <2>5. /\ op'.kind = "archive" /\ op'.id = id /\ op'.after = (manifest \cup {id}) \ evicted
        /\ op'.phase # "write"
    BY <1>0, <2>3, <2>4
  <2>6. IsFiniteSet(manifest') /\ BinWithinLimits'
    BY <2>3 DEF Planned, BinWithinLimits
  <2> QED
    BY <2>1, <2>3, <2>5, <2>6 DEF Planned
<1>8. ASSUME NEW id \in Ids, NEW ok \in BOOLEAN, Stage(id, ok) PROVE Planned'
  BY <1>0, <1>8, PlansStay DEF Stage
<1>9. ASSUME NEW id \in Ids, NEW ok \in BOOLEAN, Unstage(id, ok) \/ Cleanup(id, ok) PROVE Planned'
  BY <1>0, <1>9, PlansStay DEF Unstage, Cleanup, GiveUp
<1>10. CASE Unstaged
  BY <1>0, <1>10, PlansStay DEF Unstaged, GiveUp
<1>11. ASSUME NEW ok \in BOOLEAN, WriteManifest(ok) PROVE Planned'
  <2>1. CASE ok
    <3>1. /\ op.phase = "stage" /\ manifest' = op.after /\ op'.phase = "cleanup"
      BY <1>0, <1>11, <2>1 DEF WriteManifest
    <3>2. IsFiniteSet(manifest') /\ BinWithinLimits'
      BY <3>1, PlansFit DEF BinWithinLimits
    <3> QED
      BY <3>1, <3>2 DEF Planned
  <2>2. CASE ~ok
    BY <1>0, <1>11, <2>2, PlansStay DEF WriteManifest
  <2> QED
    BY <2>1, <2>2
<1>12. ASSUME NEW ok \in BOOLEAN, Undo(ok) PROVE Planned'
  BY <1>12, PlansStay DEF Undo
<1>13. CASE UNCHANGED vars
  <2>1. manifest' = manifest /\ op' = op
    BY <1>13 DEF vars
  <2> QED
    BY <2>1, PlansStay DEF Planned
<1> QED
  BY <1>1, <1>2, <1>3, <1>4, <1>5, <1>6, <1>7, <1>8, <1>9, <1>10, <1>11, <1>12, <1>13 DEF Next

LEMMA AlwaysPlanned == Spec => [](Safe /\ Planned)
BY SafeInitially, SafePreserved, PlannedInitially, PlannedPreserved, PTL DEF Spec

\* The manifest never lists more entries or more bytes than the limits allow, at no step of an
\* operation, whatever the sizes and however many old entries one new one has to push out.
THEOREM BinAlwaysWithinLimits == Spec => []BinWithinLimits
<1>1. Planned => BinWithinLimits
  BY DEF Planned
<1> QED
  BY <1>1, AlwaysPlanned, PTL
-----------------------------------------------------------------------------
(* The bin.                                                                *)

Gone == used \ (Readable \cup Pending)

\* What TrashBin may do next, for these two.
BinSteps ==
  \/ UNCHANGED <<Readable, Gone>>
  \/ /\ Readable' = {}
     /\ Gone' = Gone \cup Readable
  \/ \E id \in Ids :
       /\ id \notin Readable \cup Gone
       /\ \E evicted \in SUBSET Readable :
            /\ \A old \in evicted, young \in Readable \ evicted : old < young
            /\ Fits((Readable \ evicted) \cup {id})
            /\ \A young \in evicted : (\A old \in evicted : old <= young)
                 => ~Fits((Readable \ evicted) \cup {id, young})
            /\ Readable' = (Readable \ evicted) \cup {id}
            /\ Gone' = Gone \cup evicted
  \/ \E id \in Ids : id \in Readable /\ Readable' = Readable \ {id} /\ Gone' = Gone \cup {id}
  \/ \E id \in Ids : id \notin Readable \cup Gone /\ Gone' = Gone \cup {id} /\ UNCHANGED Readable

\* What can be read back is what is listed.
LEMMA ReadableIsListed ==
  ASSUME Safe
  PROVE  Readable = manifest
BY DEF Safe, NothingListedIsLost, Readable

\* An operation that does not write the manifest changes nothing, or gives up an archive.
LEMMA QuietSteps ==
  ASSUME Safe, Planned, Safe', UNCHANGED <<manifest, used>>, Pending' \in {Pending, {}}
  PROVE  BinSteps
<1>1. Readable = manifest /\ Readable' = manifest
  BY ReadableIsListed DEF Safe, NothingListedIsLost, Readable
<1>2. CASE Pending' = Pending
  BY <1>1, <1>2 DEF BinSteps, Gone
<1>3. CASE Pending' = {} /\ Pending # {}
  <2>1. op.kind = "archive" /\ In("stage") /\ Pending = {op.id}
    BY <1>3 DEF Pending
  <2>2. op.id \in Ids /\ op.id \in op.after /\ op.after \subseteq used
    BY <2>1, PlansFit DEF Planned, Room
  <2>3. op.id \notin manifest
    BY <2>1 DEF Safe, TransactionsAreUndoable, In, Before
  <2>4. op.id \notin Readable \cup Gone
    BY <1>1, <2>1, <2>3 DEF Gone
  <2>5. Gone' = Gone \cup {op.id} /\ Readable' = Readable
    BY <1>1, <1>3, <2>1, <2>2, <2>3 DEF Gone
  <2> QED
    BY <2>2, <2>4, <2>5 DEF BinSteps
<1> QED
  BY <1>2, <1>3

\* Writing the content of a new entry spends its identifier, and is nothing else yet.
LEMMA ContentSteps ==
  ASSUME Safe, Planned, Safe', NEW id \in Ids, NEW valid \in BOOLEAN, WriteContent(id, valid)
  PROVE  BinSteps
<1>1. Readable = manifest /\ Readable' = manifest' /\ manifest' = manifest
  BY ReadableIsListed DEF Safe, NothingListedIsLost, Readable, WriteContent
<1>2. /\ id \notin used /\ used' = used \cup {id} /\ op.phase = "write" /\ manifest \subseteq used
      /\ op \in Operation /\ op'.id = id /\ op'.kind = op.kind
      /\ op'.phase = IF valid THEN "stage" ELSE "undo"
  BY DEF WriteContent, In, Safe, TypeOK, Operation, Idle
<1>3. op.kind = "archive" /\ Pending = {}
  BY <1>2 DEF Planned, In, Pending
<1>4. CASE valid
  <2>1. Pending' = {id}
    BY <1>2, <1>3, <1>4 DEF Pending, In
  <2> QED
    BY <1>1, <1>2, <1>3, <2>1 DEF BinSteps, Gone
<1>5. CASE ~valid
  <2>1. Pending' = {}
    BY <1>2, <1>5 DEF Pending, In
  <2>2. id \notin Readable \cup Gone /\ Gone' = Gone \cup {id} /\ Readable' = Readable
    BY <1>1, <1>2, <1>3, <2>1 DEF Gone
  <2> QED
    BY <2>2 DEF BinSteps
<1> QED
  BY <1>4, <1>5

\* The manifest is where every operation takes effect.
LEMMA ManifestSteps ==
  ASSUME Safe, Planned, Safe', WriteManifest(TRUE)
  PROVE  BinSteps
<1>1. /\ Readable = manifest /\ Readable' = manifest'
      /\ op.phase = "stage" /\ manifest' = op.after /\ used' = used
      /\ op'.phase = "cleanup" /\ manifest \subseteq used /\ manifest \subseteq Ids
  <2>1. Readable = manifest /\ Readable' = manifest'
    BY ReadableIsListed DEF Safe, NothingListedIsLost, Readable
  <2>2. op \in Operation \cup {Idle} /\ manifest \subseteq used /\ manifest \subseteq Ids
    BY DEF Safe, TypeOK
  <2>3. /\ op.phase = "stage" /\ manifest' = op.after /\ used' = used
        /\ op' = [op EXCEPT !.phase = "cleanup", !.left = staged]
    BY DEF WriteManifest, In
  <2>4. op'.phase = "cleanup"
    BY <2>2, <2>3 DEF Operation, Idle
  <2> QED
    BY <2>1, <2>2, <2>3, <2>4
<1>2. Pending' = {}
  BY <1>1 DEF Pending, In
<1>3. Readable' \subseteq used
  BY <1>1, PlansFit DEF In
<1>4. CASE op.kind = "archive" /\ op.id \in Ids /\ Room(manifest \cup {op.id}, op.id, op.after)
  <2>1. PICK id \in Ids : id = op.id
    BY <1>4
  <2>2. id \notin manifest /\ id \in used /\ Pending = {id} /\ id \in op.after
    BY <1>1, <1>3, <1>4, <2>1 DEF Safe, TransactionsAreUndoable, In, Before, Pending, Room
  <2>3. PICK evicted \in SUBSET manifest : evicted = (manifest \cup {id}) \ op.after
    BY <2>2
  <2>4. op.after = (manifest \ evicted) \cup {id}
    BY <1>4, <2>1, <2>2, <2>3 DEF Room
  <2>5. op.after \ {id} = manifest \ evicted
    BY <2>2, <2>4
  <2>6. \A young : op.after \cup {young} = (manifest \ evicted) \cup {id, young}
    BY <2>4
  <2>7. \A old \in evicted, young \in manifest \ evicted : old < young
    BY <1>4, <2>1, <2>3, <2>5 DEF Room
  <2>8. \A young \in evicted : (\A old \in evicted : old <= young)
          => ~Fits((manifest \ evicted) \cup {id, young})
    BY <1>4, <2>1, <2>3, <2>6 DEF Room
  <2>9. Fits((manifest \ evicted) \cup {id})
    BY <1>4, <2>4 DEF Room
  <2>10. id \notin Readable \cup Gone
    BY <1>1, <2>2 DEF Gone
  <2>11. Gone' = Gone \cup evicted
    BY <1>1, <1>2, <2>2, <2>3, <2>4 DEF Gone
  <2> QED
    BY <1>1, <2>4, <2>7, <2>8, <2>9, <2>10, <2>11 DEF BinSteps
<1>5. CASE op.kind = "remove" /\ op.id \in manifest /\ op.after = manifest \ {op.id}
  <2>1. Pending = {}
    BY <1>5 DEF Pending
  <2>2. Gone' = Gone \cup {op.id} /\ Readable' = Readable \ {op.id} /\ op.id \in Readable /\ op.id \in Ids
    BY <1>1, <1>2, <1>5, <2>1 DEF Gone
  <2> QED
    BY <2>2 DEF BinSteps
<1>6. CASE op.kind = "empty" /\ op.after = {}
  <2>1. Pending = {}
    BY <1>6 DEF Pending
  <2>2. Gone' = Gone \cup Readable /\ Readable' = {}
    BY <1>1, <1>2, <1>6, <2>1 DEF Gone
  <2> QED
    BY <2>2 DEF BinSteps
<1> QED
  BY <1>1, <1>4, <1>5, <1>6 DEF Planned, In

LEMMA StepsOfBin ==
  ASSUME Safe, Planned, Safe', [Next]_vars
  PROVE  BinSteps
<1>0. op \in Operation \cup {Idle}
  BY DEF Safe, TypeOK
<1>1. ASSUME NEW id \in Ids, NEW valid \in BOOLEAN, WriteContent(id, valid) PROVE BinSteps
  BY <1>1, ContentSteps
<1>2. ASSUME WriteManifest(TRUE) PROVE BinSteps
  BY <1>2, ManifestSteps
<1> USE DEF In, GoTo, Answer, files, Operation, Idle, Pending
<1>3. ASSUME NEW kind \in Kinds, NEW id \in Ids \cup {NoId}, Start(kind, id) PROVE BinSteps
  BY <1>3, QuietSteps DEF Start
<1>4. ASSUME NEW id \in Ids, Reconcile(id) PROVE BinSteps
  BY <1>4, QuietSteps DEF Reconcile
<1>5. CASE ReconcileFails \/ ReadAnswers \/ WriteContentFails \/ CleanedUp \/ Crash
  BY <1>5, QuietSteps DEF ReconcileFails, ReadAnswers, WriteContentFails, CleanedUp, Crash
<1>6. CASE ArchiveProceeds
  <2>1. op'.phase = "write" /\ UNCHANGED <<manifest, used>>
    BY <1>0, <1>6 DEF ArchiveProceeds, Reconciled
  <2> QED
    BY <2>1, QuietSteps
<1>7. ASSUME NEW valid \in BOOLEAN, RemoveProceeds(valid) \/ EmptyProceeds(valid) PROVE BinSteps
  <2>1. op.kind \in {"remove", "empty"} /\ UNCHANGED <<manifest, used>>
    BY <1>7 DEF RemoveProceeds, EmptyProceeds, Reconciled
  <2>2. \/ op' = Idle
        \/ \E after, left : op' = [op EXCEPT !.after = after, !.left = left, !.phase = "stage"]
    BY <1>7, Zenon DEF RemoveProceeds, EmptyProceeds
  <2>3. ASSUME NEW after, NEW left, op' = [op EXCEPT !.after = after, !.left = left, !.phase = "stage"]
        PROVE  op'.kind = op.kind
    BY <1>0, <2>3
  <2>4. op'.kind # "archive"
    <3>1. CASE op' = Idle
      BY <3>1
    <3>2. CASE op'.kind = op.kind
      BY <2>1, <3>2
    <3> HIDE DEF Idle
    <3> QED
      BY <2>2, <2>3, <3>1, <3>2
  <2> QED
    BY <2>1, <2>4, QuietSteps
<1>8. ASSUME NEW id \in Ids, NEW ok \in BOOLEAN, Stage(id, ok) PROVE BinSteps
  <2>1. /\ UNCHANGED <<manifest, used>> /\ op.phase = "stage"
        /\ op'.phase \in {"stage", "unstage"} /\ op'.kind = op.kind /\ op'.id = op.id
    BY <1>0, <1>8 DEF Stage
  <2> QED
    BY <2>1, QuietSteps
<1>9. ASSUME NEW id \in Ids, NEW ok \in BOOLEAN, Unstage(id, ok) \/ Cleanup(id, ok) PROVE BinSteps
  <2>1. UNCHANGED <<manifest, used>> /\ op.phase # "stage"
    BY <1>9 DEF Unstage, Cleanup
  <2>2. op'.phase # "stage"
    BY <1>0, <1>9 DEF Unstage, Cleanup, GiveUp
  <2> QED
    BY <2>1, <2>2, QuietSteps
<1>10. CASE Unstaged
  <2>1. UNCHANGED <<manifest, used>> /\ op.phase # "stage" /\ op'.phase # "stage"
    BY <1>0, <1>10 DEF Unstaged, GiveUp
  <2> QED
    BY <2>1, QuietSteps
<1>11. ASSUME NEW ok \in BOOLEAN, WriteManifest(ok) PROVE BinSteps
  <2>1. CASE ok = TRUE
    BY <1>2, <1>11, <2>1
  <2>2. CASE ok = FALSE
    <3>1. UNCHANGED <<manifest, used>> /\ op'.phase = "rollback"
      BY <1>0, <1>11, <2>2 DEF WriteManifest
    <3> QED
      BY <3>1, QuietSteps
  <2> QED
    BY <2>1, <2>2
<1>12. ASSUME NEW ok \in BOOLEAN, Undo(ok) PROVE BinSteps
  BY <1>12, QuietSteps DEF Undo
<1>13. CASE UNCHANGED vars
  <2>1. UNCHANGED <<manifest, used, op>>
    BY <1>13 DEF vars
  <2> QED
    BY <2>1, QuietSteps
<1> QED
  BY <1>1, <1>3, <1>4, <1>5, <1>6, <1>7, <1>8, <1>9, <1>10, <1>11, <1>12, <1>13 DEF Next

LEMMA SameFits ==
  ASSUME NEW ids
  PROVE  Bin!Fits(ids) <=> Fits(ids)
<1>1. Bin!Cardinality(ids) = Cardinality(ids)
  BY DEF Bin!Cardinality, Cardinality
<1>2. Bin!Bytes(ids) = Bytes(ids)
  BY DEF Bin!Bytes, Bytes, Bin!MapThenSumSet, MapThenSumSet, Bin!MapThenFoldSet, MapThenFoldSet
<1> QED
  BY <1>1, <1>2 DEF Bin!Fits, Fits

\* The service is the bin it promises, through failures and crashes: every operation happens
\* when its manifest is written or not at all, the oldest documents make room and no more of
\* them than must, and nothing that left the bin comes back.
THEOREM BinImplemented == Spec => ImplementsTrashBin
<1>1. Init => Bin!Init
  BY DEF Init, Bin!Init, Readable
<1>2. (Safe /\ Planned) /\ (Safe /\ Planned)' /\ [Next]_vars => [Bin!Next]_<<Readable, Gone>>
  <2> SUFFICES ASSUME BinSteps PROVE [Bin!Next]_<<Readable, Gone>>
    BY StepsOfBin
  <2> QED
    BY SameFits DEF BinSteps, Gone, Bin!Next, Bin!EmptyBin, Bin!Archive, Bin!Remove, Bin!Refuse
<1> QED
  BY <1>1, <1>2, AlwaysPlanned, PTL DEF Spec, ImplementsTrashBin, Bin!Spec, Gone
=============================================================================
