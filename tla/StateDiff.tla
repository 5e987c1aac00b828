------------------------------- MODULE StateDiff -------------------------------
(***************************************************************************)
(* State differences and the stores they are applied to, translated from   *)
(* vm/src/state.rs.                                                        *)
(*                                                                         *)
(* A diff is a record of upserts (a map, here a function to NoAccount      *)
(* where the map has no key) and deletes (a set of addresses).  A store is *)
(* a function from addresses to accounts or NoAccount.                     *)
(***************************************************************************)
CONSTANTS Addr,       \* addresses
          Account,    \* account contents: state and predicates
          NoAccount   \* Option::None of State::get

ASSUME NoAccountAssumption == NoAccount \notin Account

MaybeAccount == Account \cup {NoAccount}

Store == [Addr -> MaybeAccount]
Diff  == [upserts : [Addr -> MaybeAccount], deletes : SUBSET Addr]

\* StateDiff::default()
EmptyDiff == [upserts |-> [a \in Addr |-> NoAccount], deletes |-> {}]

Upserted(d) == {a \in Addr : d.upserts[a] # NoAccount}

\* StateDiff::set
DiffSet(d, addr, acc) ==
  [upserts |-> [d.upserts EXCEPT ![addr] = acc],
   deletes |-> d.deletes \ {addr}]

\* StateDiff::remove
DiffRemove(d, addr) ==
  [upserts |-> [d.upserts EXCEPT ![addr] = NoAccount],
   deletes |-> d.deletes \cup {addr}]

\* Mutant: a newer upsert does not cancel an older delete (no deletes.remove)
MergeKeepsDelete(d, newer) ==
  [upserts |-> [a \in Addr |->
                  IF a \in newer.deletes THEN NoAccount
                  ELSE IF newer.upserts[a] # NoAccount THEN newer.upserts[a]
                  ELSE d.upserts[a]],
   deletes |-> d.deletes \cup newer.deletes]

\* Mutant: a newer delete leaves the older upsert in place (no upserts.remove)
MergeKeepsUpsert(d, newer) ==
  [upserts |-> [a \in Addr |->
                  IF newer.upserts[a] # NoAccount THEN newer.upserts[a]
                  ELSE d.upserts[a]],
   deletes |-> (d.deletes \ Upserted(newer)) \cup newer.deletes]

\* StateDiff::merge: the newer upserts first, then the newer deletes.
Merge(d, newer) ==
  [upserts |-> [a \in Addr |->
                  IF a \in newer.deletes THEN NoAccount
                  ELSE IF newer.upserts[a] # NoAccount THEN newer.upserts[a]
                  ELSE d.upserts[a]],
   deletes |-> (d.deletes \ Upserted(newer)) \cup newer.deletes]

\* StateDiff::get sees upserts only: a deleted address reads as an absent one.
DiffGet(d, addr) == d.upserts[addr]

\* InMemoryStateStore::apply: all upserts, then all deletes.
StoreApply(s, d) ==
  [a \in Addr |->
     IF a \in d.deletes THEN NoAccount
     ELSE IF d.upserts[a] # NoAccount THEN d.upserts[a]
     ELSE s[a]]

\* Mutant: the base is asked first
OverlayGetBaseFirst(base, overlay, addr) ==
  IF base[addr] # NoAccount THEN base[addr] ELSE DiffGet(overlay, addr)

\* Overlayed::get: the overlay's account if it has one, else the base's.
OverlayGet(base, overlay, addr) ==
  IF DiffGet(overlay, addr) = NoAccount THEN base[addr]
  ELSE DiffGet(overlay, addr)

\* An overlay as the store it looks like to its readers.
OverlayView(base, overlay) == [a \in Addr |-> OverlayGet(base, overlay, a)]

================================================================================
