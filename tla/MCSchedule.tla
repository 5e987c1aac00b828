------------------------------ MODULE MCSchedule -------------------------------
(***************************************************************************)
(* Instances of Schedule.  Accounts a, b and c; /a/x is a child of a.      *)
(* States 0 and 1; state 1 is also a loadable module.                      *)
(***************************************************************************)
EXTENDS Schedule, TLC

MCAncestors == [x \in {"a", "b", "c", "a/x"} |-> IF x = "a/x" THEN {"a"} ELSE {}]
MCAddr == DOMAIN MCAncestors

AcceptsAny == Pred(Inline, Param("Inline", Inline), 0)
Wants(x, v) == Pred(Inline, Param("AccountRef", x), v)
Proposes(x, v) == Pred(Inline, Param("ProposalRef", x), v)
CodeOf(x) == Pred(x, Param("Inline", Inline), 0)

Acc(s, preds) == [state |-> s, preds |-> preds]

MCAccount == {Acc(s, ps) : s \in {0, 1},
                 ps \in {{}, {Wants("b", 0)}, {CodeOf("c")}, {Wants("b", 1)}}}

Tx(props, intents) == [proposals |-> props, intents |-> intents]
Put(x, v) == x :> ReplaceState(v)

\* a is free, b is free, c holds code, the child a/x does not exist yet.
MCGenesis == [x \in MCAddr |-> CASE x = "a/x" -> NoAccount
                                 [] x = "c"   -> Acc(1, {})
                                 [] OTHER     -> Acc(0, {})]

\* Transactions of every kind.
TxA1  == Tx(Put("a", 1), {})
TxB1  == Tx(Put("b", 1), {})
TxAB  == Tx(Put("a", 0) @@ Put("b", 0), {})
TxAifB == Tx(Put("a", 1), {Wants("b", 1), Proposes("a", 1)})
TxGuard == Tx("a" :> ReplacePredicates({Wants("b", 0)}), {})
TxChild == Tx("a/x" :> CreateAccount(Acc(0, {CodeOf("c")})), {})
TxChild1 == Tx(Put("a/x", 1), {})
TxCode0  == Tx(Put("c", 0), {})
TxDel   == Tx("b" :> DeleteAccount, {})
TxAny   == Tx(Put("b", 0), {AcceptsAny, Proposes("a", 0)})

AllTxs == {TxA1, TxB1, TxAB, TxAifB, TxGuard, TxChild, TxChild1, TxCode0, TxDel, TxAny}

\* Blocks of up to three transactions of every kind, and longer ones with
\* chains of dependencies.
MCBlocks == UNION {[1..n -> AllTxs] : n \in 1..3}
              \cup [1..4 -> {TxA1, TxB1, TxAB, TxAifB}]

\* Two earlier transactions that a third depends on.
TwoDependencies == {<<TxB1, TxA1, TxAifB>>, <<TxB1, TxA1, TxAB>>}

================================================================================
