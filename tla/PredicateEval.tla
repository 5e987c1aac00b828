---------------------------- MODULE PredicateEval ------------------------------
(***************************************************************************)
(* parallel_invoke_predicates of vm/src/execution.rs: the predicate trees  *)
(* of a transaction are evaluated in parallel, each by one worker, leaf    *)
(* by leaf, with a shared flag that a crashing predicate sets to cancel    *)
(* the rest; each tree is then reduced with not, and, or, and the trees    *)
(* with and.                                                               *)
(*                                                                         *)
(* A tree is a sequence of nodes in post-order, its root last: leaves      *)
(* (op "id") and inner nodes that name their operands by position.  The    *)
(* results of a predicate are Ok, Rejected (it returned false), Crashed    *)
(* (invoke returned an error) and Cancelled.                               *)
(***************************************************************************)
EXTENDS Naturals, Sequences

CONSTANTS Forests   \* the forests that may be evaluated: sequences of trees

Operands(node) == CASE node.op = "id"  -> {}
                    [] node.op = "not" -> {node.l}
                    [] OTHER           -> {node.l, node.r}

\* Operands come before their node, and every node but the root is one.
IsTree(tree) ==
  /\ tree \in Seq([op : {"id", "not", "and", "or"}, l : Nat, r : Nat])
  /\ Len(tree) > 0
  /\ \A n \in 1..Len(tree) : Operands(tree[n]) \subseteq 1..(n - 1)
  /\ \A n \in 1..(Len(tree) - 1) : \E m \in 1..Len(tree) : n \in Operands(tree[m])

ASSUME ForestsAssumption ==
  \A f \in Forests :
    /\ Len(f) \in Nat /\ DOMAIN f = 1..Len(f)
    /\ \A t \in DOMAIN f : IsTree(f[t])

Answers == {"true", "false", "crash"}
Errors  == {"Rejected", "Crashed", "Cancelled"}
Results == {"Ok"} \cup Errors

VARIABLES forest,     \* the trees, in the order of the parallel iterator
          answer,     \* what each leaf's program does when it is run
          worker,     \* per tree: "waiting", "running" or "done"
          invoking,   \* per tree: the leaf being run, or 0
          leaf,       \* per tree and leaf: its result, or "None"
          value,      \* per tree: the reduced result, or "None"
          cancelled,  \* the AtomicBool
          verdict     \* the result of the call, or "None"

vars == <<forest, answer, worker, invoking, leaf, value, cancelled, verdict>>

Leaves(tree) == {n \in DOMAIN tree : tree[n].op = "id"}

\* The leaves of all trees of the forest.
LeafIds == UNION {{<<t, n>> : n \in Leaves(forest[t])} : t \in DOMAIN forest}

--------------------------------------------------------------------------------
(* The connectives on results (not, and, or of execution.rs).              *)

Not(a) == CASE a = "Ok"       -> "Rejected"
            [] a = "Rejected" -> "Ok"
            [] OTHER          -> a

\* Two results of which one is an error: the first error that is not Cancelled.
FirstError(a, b) ==
  IF a = "Ok" \/ (a = "Cancelled" /\ b # "Ok") THEN b ELSE a

\* Mutant: cancellation hides the error it stems from
AndCancelledWins(a, b) ==
  IF a = "Cancelled" \/ b = "Cancelled" THEN "Cancelled" ELSE FirstError(a, b)

And(a, b) == FirstError(a, b)

Or(a, b) ==
  IF {a, b} \subseteq {"Ok", "Rejected"}
  THEN (IF a = "Ok" \/ b = "Ok" THEN "Ok" ELSE "Rejected")
  ELSE FirstError(a, b)

\* ExpressionTree::reduce, given the results of a node's operands.
Combine(tree, res, red, n) ==
  CASE tree[n].op = "id"  -> res[n]
    [] tree[n].op = "not" -> Not(red[tree[n].l])
    [] tree[n].op = "and" -> And(red[tree[n].l], red[tree[n].r])
    [] tree[n].op = "or"  -> Or(red[tree[n].l], red[tree[n].r])

Reduce(tree, res) ==
  LET red[n \in DOMAIN tree] == Combine(tree, res, red, n)
  IN red[Len(tree)]

\* reduce_with(and).unwrap_or(Ok): And is associative (AndAssociative), so the
\* grouping rayon chooses does not matter.
ReduceAll(vals) ==
  LET red[n \in 0..Len(vals)] ==
        IF n = 0 THEN "Ok" ELSE And(red[n - 1], vals[n])
  IN red[Len(vals)]

--------------------------------------------------------------------------------
Init ==
  /\ forest \in Forests
  /\ answer \in [LeafIds -> Answers]
  /\ worker = [t \in DOMAIN forest |-> "waiting"]
  /\ invoking = [t \in DOMAIN forest |-> 0]
  /\ leaf = [t \in DOMAIN forest |-> [n \in Leaves(forest[t]) |-> "None"]]
  /\ value = [t \in DOMAIN forest |-> "None"]
  /\ cancelled = FALSE
  /\ verdict = "None"

\* A worker picks up a tree; a raised flag cancels the tree as a whole.
StartTree(t) ==
  /\ worker[t] = "waiting"
  /\ IF cancelled
     THEN /\ worker' = [worker EXCEPT ![t] = "done"]
          /\ value' = [value EXCEPT ![t] = "Cancelled"]
     ELSE /\ worker' = [worker EXCEPT ![t] = "running"]
          /\ UNCHANGED value
  /\ UNCHANGED <<forest, answer, invoking, leaf, cancelled, verdict>>

\* ExpressionTree::map reaches leaf n: all leaves before it have results.
NextLeaf(t, n) ==
  /\ worker[t] = "running" /\ invoking[t] = 0
  /\ leaf[t][n] = "None"
  /\ \A m \in Leaves(forest[t]) : m < n => leaf[t][m] # "None"

\* Mutant: a cancelled leaf is left without a result
CheckLeafStops(t, n) ==
  /\ NextLeaf(t, n) /\ ~cancelled
  /\ invoking' = [invoking EXCEPT ![t] = n]
  /\ UNCHANGED <<forest, answer, worker, leaf, value, cancelled, verdict>>

\* The flag is loaded before the predicate is invoked.
CheckLeaf(t, n) ==
  /\ NextLeaf(t, n)
  /\ IF cancelled
     THEN leaf' = [leaf EXCEPT ![t][n] = "Cancelled"] /\ UNCHANGED invoking
     ELSE invoking' = [invoking EXCEPT ![t] = n] /\ UNCHANGED leaf
  /\ UNCHANGED <<forest, answer, worker, value, cancelled, verdict>>

Outcome(a) == CASE a = "true"  -> "Ok"
                [] a = "false" -> "Rejected"
                [] a = "crash" -> "Crashed"

\* Mutant: a rejection cancels the other predicates too
InvokeLeafRejectCancels(t) ==
  /\ invoking[t] # 0
  /\ LET a == answer[<<t, invoking[t]>>]
     IN /\ leaf' = [leaf EXCEPT ![t][invoking[t]] = Outcome(a)]
        /\ cancelled' = (cancelled \/ a # "true")
  /\ invoking' = [invoking EXCEPT ![t] = 0]
  /\ UNCHANGED <<forest, answer, worker, value, verdict>>

\* The program returns, or crashes and raises the flag.
InvokeLeaf(t) ==
  /\ invoking[t] # 0
  /\ LET a == answer[<<t, invoking[t]>>]
     IN /\ leaf' = [leaf EXCEPT ![t][invoking[t]] = Outcome(a)]
        /\ cancelled' = (cancelled \/ a = "crash")
  /\ invoking' = [invoking EXCEPT ![t] = 0]
  /\ UNCHANGED <<forest, answer, worker, value, verdict>>

\* All leaves have results: the tree is reduced to one.
ReduceTree(t) ==
  /\ worker[t] = "running" /\ invoking[t] = 0
  /\ \A n \in Leaves(forest[t]) : leaf[t][n] # "None"
  /\ value' = [value EXCEPT ![t] = Reduce(forest[t], leaf[t])]
  /\ worker' = [worker EXCEPT ![t] = "done"]
  /\ UNCHANGED <<forest, answer, invoking, leaf, cancelled, verdict>>

\* All trees are done: their results are combined and the call returns.
Return ==
  /\ verdict = "None"
  /\ \A t \in DOMAIN forest : worker[t] = "done"
  /\ verdict' = ReduceAll(value)
  /\ UNCHANGED <<forest, answer, worker, invoking, leaf, value, cancelled>>

Next ==
  \/ \E t \in DOMAIN forest : StartTree(t)
  \/ \E t \in DOMAIN forest : \E n \in Leaves(forest[t]) : CheckLeaf(t, n)
  \/ \E t \in DOMAIN forest : InvokeLeaf(t)
  \/ \E t \in DOMAIN forest : ReduceTree(t)
  \/ Return

\* rayon's workers keep running and every program invoked terminates.
Fairness == WF_vars(Next)

Spec == Init /\ [][Next]_vars /\ Fairness

--------------------------------------------------------------------------------
\* Some predicate of the transaction crashed.
SomeCrash ==
  \E t \in DOMAIN forest : \E n \in Leaves(forest[t]) : leaf[t][n] = "Crashed"

(***************************************************************************)
(* Nothing is cancelled unless a predicate crashed (execution.rs:155-158   *)
(* raises the flag on Err(e) only), neither a leaf nor a whole tree: a     *)
(* rejection, for one, never cancels.                                      *)
(***************************************************************************)
NoSpuriousCancel ==
  /\ cancelled => SomeCrash
  /\ \A t \in DOMAIN forest : \A n \in Leaves(forest[t]) :
       /\ leaf[t][n] = "Cancelled" => SomeCrash
       /\ worker[t] = "done" /\ leaf[t][n] = "None" => SomeCrash

(***************************************************************************)
(* Trees in which a crash cannot hide: not applies to single predicates,   *)
(* and what follows an or is a single predicate, negated or not.  In other *)
(* trees a rejection may stand for a crash to its right (and(false, crash) *)
(* is Rejected) and then be turned into Ok.                                *)
(***************************************************************************)
Unmasked(tree) ==
  LET single(n, m) == \/ n = m /\ tree[n].op = "id"
                      \/ tree[n].op = "not" /\ tree[n].l = m /\ tree[m].op = "id"
  IN \A n \in DOMAIN tree :
       /\ tree[n].op = "not" => tree[tree[n].l].op = "id"
       /\ tree[n].op = "or"  => \E m \in (tree[n].l + 1)..n : single(tree[n].r, m)

\* The truth of node n of a tree, given that of its operands.
NodeTruth(t, val, n) ==
  LET node == forest[t][n]
  IN \/ node.op = "id" /\ answer[<<t, n>>] = "true"
     \/ node.op = "not" /\ ~val[node.l]
     \/ node.op = "and" /\ val[node.l] /\ val[node.r]
     \/ node.op = "or" /\ (val[node.l] \/ val[node.r])

\* The truth of a tree whose leaves all answered.
Truth(t) ==
  LET val[n \in DOMAIN forest[t]] == NodeTruth(t, val, n)
  IN val[Len(forest[t])]

\* No predicate crashes when run, and every tree is true.
AllTrue ==
  /\ \A x \in DOMAIN answer : answer[x] # "crash"
  /\ \A t \in DOMAIN forest : Truth(t)

(***************************************************************************)
(* A failed call reports why: never "Cancelled", which only says that some *)
(* other predicate failed (the order of the arms of and/or,                *)
(* execution.rs:265-287, is there for this).                               *)
(***************************************************************************)
FailureHasReason == verdict # "Cancelled"

\* The call implements what its documentation promises.
Promise ==
  INSTANCE PredicateVerdict
    WITH valid   <- AllTrue,
         verdict <- IF verdict \in Errors THEN "Err" ELSE verdict

(***************************************************************************)
(* Whatever the interleaving of workers and the moment the flag is raised, *)
(* the call returns, once, with Ok exactly when every tree is true and no  *)
(* predicate crashes: so two nodes never disagree about a transaction.     *)
(***************************************************************************)
ImplementsVerdict == Promise!Spec
================================================================================
