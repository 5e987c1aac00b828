--------------------------- MODULE StateStoreProofs ----------------------------
(***************************************************************************)
(* Laws of state differences (vm/src/state.rs) and the invariance theorems *)
(* of StateStore, for any sets of addresses and accounts.                  *)
(***************************************************************************)
EXTENDS StateStore, TLAPS

\* The diff operations produce diffs.
LEMMA DiffOpsType ==
  ASSUME NEW d \in Diff, NEW e \in Diff, NEW a \in Addr, NEW acc \in Account
  PROVE  /\ EmptyDiff \in Diff
         /\ DiffSet(d, a, acc) \in Diff
         /\ DiffRemove(d, a) \in Diff
         /\ Merge(d, e) \in Diff
  BY DEF Diff, MaybeAccount, EmptyDiff, DiffSet, DiffRemove, Merge, Upserted

\* InMemoryStateStore::apply produces a store.
LEMMA StoreApplyType ==
  ASSUME NEW s \in Store, NEW d \in Diff
  PROVE  StoreApply(s, d) \in Store
  BY DEF Diff, Store, MaybeAccount, StoreApply

\* A default diff changes no store.
LEMMA ApplyEmpty ==
  ASSUME NEW s \in Store
  PROVE  StoreApply(s, EmptyDiff) = s
  BY DEF Store, StoreApply, EmptyDiff

(***************************************************************************)
(* The law StateDiff::merge documents (state.rs:46-48): applying the merge *)
(* is applying the two diffs one after the other, on any store, and even   *)
(* for diffs whose upserts and deletes overlap.                            *)
(***************************************************************************)
THEOREM MergeLaw ==
  ASSUME NEW s \in Store, NEW d \in Diff, NEW e \in Diff
  PROVE  StoreApply(s, Merge(d, e)) = StoreApply(StoreApply(s, d), e)
<1> DEFINE l == StoreApply(s, Merge(d, e))
           r == StoreApply(StoreApply(s, d), e)
<1>1. SUFFICES ASSUME NEW a \in Addr
               PROVE  l[a] = r[a]
  BY DEF StoreApply
<1>2. CASE a \in e.deletes
  BY <1>2 DEF StoreApply, Merge
<1>3. CASE a \notin e.deletes /\ e.upserts[a] # NoAccount
  BY <1>3 DEF StoreApply, Merge, Upserted
<1>4. CASE a \notin e.deletes /\ e.upserts[a] = NoAccount
  BY <1>4 DEF StoreApply, Merge, Upserted
<1> QED BY <1>2, <1>3, <1>4

\* Merge keeps upserts and deletes apart when the newer diff does.
LEMMA MergeDisjoint ==
  ASSUME NEW d \in Diff, NEW e \in Diff,
         Upserted(d) \cap d.deletes = {},
         Upserted(e) \cap e.deletes = {}
  PROVE  Upserted(Merge(d, e)) \cap Merge(d, e).deletes = {}
  BY DEF Upserted, Merge

\* StateDiff::merge is associative, so the grouping in which per-transaction
\* diffs are merged into a block's diff does not matter.
THEOREM MergeAssociative ==
  ASSUME NEW d \in Diff, NEW e \in Diff, NEW f \in Diff,
         Upserted(e) \cap e.deletes = {}
  PROVE  Merge(Merge(d, e), f) = Merge(d, Merge(e, f))
<1> DEFINE l == Merge(Merge(d, e), f)
           r == Merge(d, Merge(e, f))
<1>1. l.upserts = r.upserts
  <2>1. SUFFICES ASSUME NEW a \in Addr
                 PROVE  l.upserts[a] = r.upserts[a]
    BY DEF Merge
  <2> QED BY DEF Merge, Upserted
<1>2. l.deletes = r.deletes
  <2>1. ASSUME NEW a \in Addr
        PROVE  a \in l.deletes <=> a \in r.deletes
    BY DEF Merge, Upserted
  <2>2. l.deletes \subseteq Addr /\ r.deletes \subseteq Addr
    BY DEF Merge, Upserted, Diff
  <2> QED BY <2>1, <2>2
<1> QED BY <1>1, <1>2 DEF Merge

--------------------------------------------------------------------------------
\* Every reachable state of the store machine is well typed.
THEOREM TypeCorrect == Spec => []TypeOK
<1>1. Init => TypeOK
  BY DiffOpsType DEF Init, TypeOK, EmptyDiff, Diff, MaybeAccount
<1>2. TypeOK /\ [Next]_vars => TypeOK'
  <2> SUFFICES ASSUME TypeOK, [Next]_vars PROVE TypeOK'
    OBVIOUS
  <2>1. ASSUME NEW a \in Addr, NEW acc \in Account, Set(a, acc) PROVE TypeOK'
    BY <2>1, DiffOpsType DEF TypeOK, Set
  <2>2. ASSUME NEW a \in Addr, Remove(a) PROVE TypeOK'
    BY <2>2 DEF TypeOK, Remove, DiffRemove, Diff, MaybeAccount
  <2>3. CASE Apply
    BY <2>3, StoreApplyType
       DEF TypeOK, Apply, EmptyDiff, Diff, Merge, Upserted, MaybeAccount
  <2>4. CASE UNCHANGED vars
    BY <2>4 DEF TypeOK, vars
  <2> QED BY <2>1, <2>2, <2>3, <2>4 DEF Next
<1> QED BY <1>1, <1>2, PTL DEF Spec

\* However diffs are built and merged, none both upserts and deletes an address.
THEOREM DisjointInvariant == Spec => []UpsertsDeletesDisjoint
<1>1. Init => UpsertsDeletesDisjoint
  BY DEF Init, UpsertsDeletesDisjoint, EmptyDiff, Upserted
<1>2. TypeOK /\ UpsertsDeletesDisjoint /\ [Next]_vars
        => UpsertsDeletesDisjoint'
  <2> SUFFICES ASSUME TypeOK, UpsertsDeletesDisjoint, [Next]_vars
               PROVE  UpsertsDeletesDisjoint'
    OBVIOUS
  <2>1. ASSUME NEW a \in Addr, NEW acc \in Account, Set(a, acc)
        PROVE  UpsertsDeletesDisjoint'
    BY <2>1 DEF UpsertsDeletesDisjoint, TypeOK, Diff, Set, DiffSet, Upserted
  <2>2. ASSUME NEW a \in Addr, Remove(a)
        PROVE  UpsertsDeletesDisjoint'
    BY <2>2 DEF UpsertsDeletesDisjoint, TypeOK, Diff, Remove, DiffRemove, Upserted
  <2>3. CASE Apply
    <3>1. Upserted(merged') \cap (merged').deletes = {}
      BY <2>3, MergeDisjoint DEF Apply, TypeOK, UpsertsDeletesDisjoint
    <3>2. Upserted(diff') \cap (diff').deletes = {}
      BY <2>3 DEF Apply, EmptyDiff, Upserted
    <3> QED BY <3>1, <3>2 DEF UpsertsDeletesDisjoint, Upserted
  <2>4. CASE UNCHANGED vars
    BY <2>4 DEF UpsertsDeletesDisjoint, Upserted, vars
  <2> QED BY <2>1, <2>2, <2>3, <2>4 DEF Next
<1> QED BY <1>1, <1>2, TypeCorrect, PTL DEF Spec

\* The merged diff replays, on the first store, the whole history of diffs.
THEOREM MergeInvariant == Spec => []MergeIsConsecutiveApply
<1>1. Init => MergeIsConsecutiveApply
  BY ApplyEmpty DEF Init, MergeIsConsecutiveApply
<1>2. TypeOK /\ MergeIsConsecutiveApply /\ [Next]_vars
        => MergeIsConsecutiveApply'
  <2> SUFFICES ASSUME TypeOK, MergeIsConsecutiveApply, [Next]_vars
               PROVE  MergeIsConsecutiveApply'
    OBVIOUS
  <2>1. CASE Apply
    BY <2>1, MergeLaw DEF MergeIsConsecutiveApply, TypeOK, Apply
  <2>2. CASE UNCHANGED <<genesis, store, merged>>
    BY <2>2 DEF MergeIsConsecutiveApply
  <2> QED BY <2>1, <2>2 DEF Next, Set, Remove, vars
<1> QED BY <1>1, <1>2, TypeCorrect, PTL DEF Spec

\* Off the deleted addresses, a reader through Overlayed sees the full state.
THEOREM OverlayInvariant == Spec => []OverlayExactOffDeletes
<1>1. TypeOK /\ MergeIsConsecutiveApply => OverlayExactOffDeletes
  BY DEF TypeOK, MergeIsConsecutiveApply, OverlayExactOffDeletes,
         OverlayGet, DiffGet, StoreApply, Store
<1> QED BY <1>1, TypeCorrect, MergeInvariant, PTL
================================================================================
