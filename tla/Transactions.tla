----------------------------- MODULE Transactions ------------------------------
(***************************************************************************)
(* What one transaction reads, writes and yields: vm/src/collect.rs,       *)
(* execute of vm/src/execution.rs and TransactionRefs of                   *)
(* vm/src/schedule.rs, as operators on a view of the accounts.             *)
(*                                                                         *)
(* Abstractions.  A predicate tree is a set of predicates that must all    *)
(* hold (the connectives and the parallel evaluation are the subject of    *)
(* PredicateEval).  A predicate takes its code inline or from an account,  *)
(* and one parameter; it accepts when the value bound to the parameter is  *)
(* the one it wants, a stand-in for any program whose answer depends on    *)
(* what it reads.  Calldata and inline parameters do not depend on the     *)
(* state: they are the parameter kind "Inline", which always accepts.      *)
(* The reasons of failures are not told apart: Failed.                     *)
(***************************************************************************)
EXTENDS StateDiff, FiniteSets

CONSTANTS Inline,     \* Code::Inline and Param::Inline: no address
          Ancestors,  \* Address::ancestors: [Addr -> SUBSET Addr]
          Wasm,       \* the account states that are loadable modules
          Failed      \* Err(_) as the result of a transaction

Param(kind, addr) == [kind |-> kind, addr |-> addr]

\* A predicate: code reference, parameter and the value it accepts.
Pred(code, param, want) == [code |-> code, param |-> param, want |-> want]

\* The changes a transaction may propose for an account (AccountChange).
CreateAccount(acc)       == [op |-> "CreateAccount", acc |-> acc]
ReplaceState(s)          == [op |-> "ReplaceState", state |-> s]
ReplacePredicates(preds) == [op |-> "ReplacePredicates", preds |-> preds]
DeleteAccount            == [op |-> "DeleteAccount"]

Writes(tx) == DOMAIN tx.proposals

Exists(view, a) == view[a] # NoAccount

\* collect::outputs refuses to create an account that exists and to change one
\* that does not.
OutputsOk(tx, view) ==
  \A a \in Writes(tx) :
    Exists(view, a) <=> tx.proposals[a].op # "CreateAccount"

\* The account an accepted change leaves behind.
Changed(change, acc) ==
  CASE change.op = "CreateAccount"     -> change.acc
    [] change.op = "ReplaceState"      -> [acc EXCEPT !.state = change.state]
    [] change.op = "ReplacePredicates" -> [acc EXCEPT !.preds = change.preds]
    [] change.op = "DeleteAccount"     -> NoAccount

\* collect::outputs: the diff that is applied if every predicate accepts.
Outputs(tx, view) ==
  [upserts |-> [a \in Addr |->
                  IF a \in Writes(tx) THEN Changed(tx.proposals[a], view[a])
                  ELSE NoAccount],
   deletes |-> {a \in Writes(tx) : tx.proposals[a].op = "DeleteAccount"}]

\* The accounts of which the predicates guard a mutation of addr.
Guards(addr) == {addr} \cup Ancestors[addr]

\* collect::accounts_predicates and collect::intents_predicates
PredicatesOf(tx, view) ==
  (UNION {view[a].preds :
            a \in {b \in UNION {Guards(w) : w \in Writes(tx)} : Exists(view, b)}})
    \cup tx.intents

\* The state a proposal would leave, as a predicate sees it in its context
\* (collect::expand_account_change).
Proposed(change) ==
  CASE change.op = "CreateAccount" -> {change.acc.state}
    [] change.op = "ReplaceState"  -> {change.state}
    [] OTHER                       -> {}

\* collect::expand_predicate_tree resolves every reference of the predicate (a
\* missing account or proposal is an error), then invoke runs it.
Accepts(p, tx, view) ==
  /\ p.code # Inline => Exists(view, p.code) /\ view[p.code].state \in Wasm
  /\ p.param.kind = "AccountRef" =>
       Exists(view, p.param.addr) /\ view[p.param.addr].state = p.want
  /\ p.param.kind = "ProposalRef" =>
       p.param.addr \in Writes(tx) /\ p.want \in Proposed(tx.proposals[p.param.addr])

\* execution::execute: the outputs if every predicate of every mutated account,
\* of its ancestors and of every intent accepts.
Execute(tx, view) ==
  IF OutputsOk(tx, view) /\ \A p \in PredicatesOf(tx, view) : Accepts(p, tx, view)
  THEN Outputs(tx, view)
  ELSE Failed

--------------------------------------------------------------------------------
\* The accounts a set of predicates refers to, as code or as parameter.
AccountRefs(preds) ==
  {p.code : p \in {q \in preds : q.code # Inline}}
    \cup {p.param.addr : p \in {q \in preds : q.param.kind = "AccountRef"}}

\* A transaction as its type has it: it names addresses, and its changes leave
\* accounts.
WellFormed(tx) ==
  /\ Writes(tx) \subseteq Addr
  /\ AccountRefs(tx.intents) \subseteq Addr
  /\ \A a \in Writes(tx) :
       LET change == tx.proposals[a]
       IN \/ change.op = "CreateAccount" /\ change.acc \in Account
          \/ change.op = "DeleteAccount"
          \/ /\ change.op \in {"ReplaceState", "ReplacePredicates"}
             /\ \A acc \in Account : Changed(change, acc) \in Account

\* TransactionRefs::new: the predicates are those of the state before the
\* block, and those of ancestors count only if the mutated account exists.
Refs(tx, state) ==
  LET guards == UNION {Guards(a) : a \in {w \in Writes(tx) : Exists(state, w)}}
      preds  == UNION {state[b].preds : b \in {g \in guards : Exists(state, g)}}
  IN [reads  |-> AccountRefs(preds \cup tx.intents) \ Writes(tx),
      writes |-> Writes(tx)]

\* TransactionRefs::depends_on: read-after-write and write-after-write.
DependsOn(r, other) == (r.reads \cup r.writes) \cap other.writes # {}

\* Every address execute asks the view for.
Touched(tx, view) ==
  (UNION {Guards(w) : w \in Writes(tx)}) \cup AccountRefs(PredicatesOf(tx, view))
================================================================================
