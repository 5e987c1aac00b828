------------------------------ MODULE StateStore -------------------------------
(***************************************************************************)
(* The life of a state store: diffs are built one change at a time (the    *)
(* outputs of a transaction), then applied to the store and accumulated in *)
(* one merged diff (vm/src/state.rs; the two uses are Tree::run, which     *)
(* reads through an Overlayed of the start state and the accumulated diff, *)
(* and BlockStateBuilder::consume, which applies the merged diff).         *)
(***************************************************************************)
EXTENDS StateDiff

VARIABLES genesis,  \* the store when accumulation began
          store,    \* the store every finished diff was applied to, in order
          merged,   \* the finished diffs merged into one
          diff      \* the diff under construction

vars == <<genesis, store, merged, diff>>

Init ==
  /\ genesis \in Store
  /\ store = genesis
  /\ merged = EmptyDiff
  /\ diff = EmptyDiff

\* StateDiff::set on the diff under construction
Set(a, acc) ==
  /\ diff' = DiffSet(diff, a, acc)
  /\ UNCHANGED <<genesis, store, merged>>

\* StateDiff::remove on the diff under construction
Remove(a) ==
  /\ diff' = DiffRemove(diff, a)
  /\ UNCHANGED <<genesis, store, merged>>

\* The finished diff is applied to the store and, as StateDiff::apply does,
\* merged into the accumulated one.
Apply ==
  /\ store' = StoreApply(store, diff)
  /\ merged' = Merge(merged, diff)
  /\ diff' = EmptyDiff
  /\ UNCHANGED genesis

Next ==
  \/ \E a \in Addr, acc \in Account : Set(a, acc)
  \/ \E a \in Addr : Remove(a)
  \/ Apply

Spec == Init /\ [][Next]_vars

--------------------------------------------------------------------------------
\* Type invariant.
TypeOK ==
  /\ genesis \in Store
  /\ store \in Store
  /\ merged \in Diff
  /\ diff \in Diff

(***************************************************************************)
(* "Applying the resulting diff is equivalent to applyting the two merged  *)
(* diff consecutively on any state store" (state.rs:46-48), over any       *)
(* number of diffs: the merged diff applied to the first store gives the   *)
(* store that saw every diff in turn.                                      *)
(***************************************************************************)
MergeIsConsecutiveApply == store = StoreApply(genesis, merged)

(***************************************************************************)
(* No address is both upserted and deleted by a diff, however it was built *)
(* and merged: otherwise StateDiff::iter would report both changes, and    *)
(* InMemoryStateStore::apply (deletes last) and StateDiff::get (upserts    *)
(* only) would disagree about the account.                                 *)
(***************************************************************************)
UpsertsDeletesDisjoint ==
  /\ Upserted(diff) \cap diff.deletes = {}
  /\ Upserted(merged) \cap merged.deletes = {}

(***************************************************************************)
(* What an Overlayed reader may rely on (state.rs:116-123): an account the *)
(* accumulated diff did not delete reads as in the store that has every    *)
(* diff applied.                                                           *)
(***************************************************************************)
OverlayExactOffDeletes ==
  \A a \in Addr \ merged.deletes : OverlayGet(genesis, merged, a) = store[a]

================================================================================
