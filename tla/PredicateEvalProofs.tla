------------------------- MODULE PredicateEvalProofs ---------------------------
(***************************************************************************)
(* Laws of the connectives of vm/src/execution.rs, and for every set of    *)
(* forests and any timing: no cancellation without a crash, no failure     *)
(* without a reason, and the verdict that PredicateVerdict promises.       *)
(*                                                                         *)
(* The last two are by induction over the nodes of a tree, which are       *)
(* numbered with operands before their connectives: what a tree reduces to *)
(* is a function of the answers of its leaves as long as none was          *)
(* cancelled, and a tree with a cancelled or crashed leaf is never         *)
(* accepted, provided no crash can hide behind a connective (Unmasked).    *)
(***************************************************************************)
EXTENDS PredicateEval, SequenceTheorems, WellFoundedInduction, TLAPS

(***************************************************************************)
(* and (execution.rs:265-275) is associative: ParallelIterator::reduce_with *)
(* (execution.rs:164) may group the trees as it likes.                     *)
(***************************************************************************)
THEOREM AndAssociative ==
  ASSUME NEW a \in Results, NEW b \in Results, NEW c \in Results
  PROVE  And(And(a, b), c) = And(a, And(b, c))
  BY DEF Results, Errors, And, FirstError

\* A conjunction is accepted exactly when both operands are: neither a crash nor
\* a cancellation of one operand is ever accepted.
THEOREM AndAcceptsBoth ==
  ASSUME NEW a \in Results, NEW b \in Results
  PROVE  And(a, b) = "Ok" <=> a = "Ok" /\ b = "Ok"
  BY DEF Results, Errors, And, FirstError

\* A disjunction is accepted only if no operand crashed or was cancelled.
THEOREM OrAcceptsCleanly ==
  ASSUME NEW a \in Results, NEW b \in Results, Or(a, b) = "Ok"
  PROVE  /\ a \in {"Ok", "Rejected"} /\ b \in {"Ok", "Rejected"}
         /\ a = "Ok" \/ b = "Ok"
  BY DEF Results, Errors, Or, FirstError

--------------------------------------------------------------------------------
\* The shape of the per-tree state, enough to update it.
ShapeOK ==
  /\ forest \in Forests
  /\ worker \in [DOMAIN forest -> {"waiting", "running", "done"}]
  /\ invoking \in [DOMAIN forest -> Nat]
  /\ DOMAIN leaf = DOMAIN forest
  /\ \A t \in DOMAIN forest :
       /\ leaf[t] \in [Leaves(forest[t]) -> Results \cup {"None"}]
       /\ invoking[t] # 0 => /\ invoking[t] \in Leaves(forest[t])
                             /\ leaf[t][invoking[t]] = "None"
                             /\ worker[t] = "running"
  /\ \A t \in DOMAIN forest : \A n \in Leaves(forest[t]) :
       answer[<<t, n>>] \in Answers
  /\ cancelled \in BOOLEAN

\* The inductive invariant: the shape and the property itself.
IInv == ShapeOK /\ NoSpuriousCancel

\* Before any worker runs, no leaf has a result and the flag is clear.
LEMMA InitIInv == Init => IInv
<1> SUFFICES ASSUME Init PROVE IInv
  OBVIOUS
<1>1. ShapeOK
  <2>1. ASSUME NEW t \in DOMAIN forest, NEW n \in Leaves(forest[t])
        PROVE  answer[<<t, n>>] \in Answers
    <3>1. <<t, n>> \in LeafIds
      BY DEF LeafIds
    <3> QED BY <3>1 DEF Init
  <2> QED BY <2>1 DEF Init, ShapeOK, Results
<1>2. NoSpuriousCancel
  BY DEF Init, NoSpuriousCancel
<1> QED BY <1>1, <1>2 DEF IInv

\* A crash, once recorded, stays recorded by a step that keeps crashed leaves.
LEMMA CrashStays ==
  ASSUME SomeCrash, forest' = forest,
         \A t \in DOMAIN forest : \A n \in Leaves(forest[t]) :
            leaf[t][n] = "Crashed" => leaf'[t][n] = "Crashed"
  PROVE  SomeCrash'
  BY DEF SomeCrash, Leaves

\* A worker that takes up a tree leaves the leaves of all trees as they are.
LEMMA StartTreeIInv ==
  ASSUME IInv, NEW t \in DOMAIN forest, StartTree(t)
  PROVE  IInv'
<1> USE DEF IInv
<1>1. ShapeOK'
  BY DEF ShapeOK, StartTree
<1>2. SomeCrash' = SomeCrash
  BY DEF SomeCrash, StartTree, Leaves
<1>3. NoSpuriousCancel'
  BY <1>2 DEF NoSpuriousCancel, ShapeOK, StartTree, Leaves
<1> QED BY <1>1, <1>3

\* Loading the flag cancels a leaf only when a crash has set it.
LEMMA CheckLeafIInv ==
  ASSUME IInv, NEW t \in DOMAIN forest, NEW n \in Leaves(forest[t]),
         CheckLeaf(t, n)
  PROVE  IInv'
<1> USE DEF IInv
<1>0. n \in Nat \ {0} /\ forest' = forest
  BY ForestsAssumption DEF ShapeOK, Leaves, CheckLeaf, IsTree
<1>1. CASE cancelled
  <2>1. /\ leaf' = [leaf EXCEPT ![t] = [leaf[t] EXCEPT ![n] = "Cancelled"]]
        /\ UNCHANGED <<worker, invoking, answer, cancelled, forest>>
        /\ leaf[t][n] = "None" /\ invoking[t] = 0
    BY <1>1 DEF CheckLeaf, NextLeaf
  <2>2. ShapeOK'
    BY <2>1 DEF ShapeOK, Results, Errors
  <2>3. SomeCrash
    BY <1>1 DEF NoSpuriousCancel
  <2>4. SomeCrash'
    <3>1. \A u \in DOMAIN forest : \A m \in Leaves(forest[u]) :
             leaf[u][m] = "Crashed" => leaf'[u][m] = "Crashed"
      BY <2>1 DEF ShapeOK
    <3> QED BY <3>1, <2>3, <1>0, CrashStays
  <2> QED BY <2>2, <2>4 DEF NoSpuriousCancel
<1>2. CASE ~cancelled
  <2>1. /\ invoking' = [invoking EXCEPT ![t] = n]
        /\ UNCHANGED <<worker, leaf, answer, cancelled, forest>>
        /\ leaf[t][n] = "None" /\ worker[t] = "running"
    BY <1>2 DEF CheckLeaf, NextLeaf
  <2>2. ShapeOK'
    BY <2>1, <1>0 DEF ShapeOK
  <2>3. SomeCrash' = SomeCrash
    BY <2>1 DEF SomeCrash, Leaves
  <2>4. NoSpuriousCancel'
    BY <2>1, <2>3 DEF NoSpuriousCancel, Leaves
  <2> QED BY <2>2, <2>4
<1> QED BY <1>1, <1>2

\* An invocation writes the result of its own leaf only, and sets the flag only
\* when it crashes.
LEMMA InvokeLeafIInv ==
  ASSUME IInv, NEW t \in DOMAIN forest, InvokeLeaf(t)
  PROVE  IInv'
<1> USE DEF IInv
<1> DEFINE n == invoking[t]
           a == answer[<<t, n>>]
<1>1. /\ n \in Leaves(forest[t]) /\ leaf[t][n] = "None"
      /\ worker[t] = "running" /\ a \in Answers
  BY DEF ShapeOK, InvokeLeaf
<1>2. /\ leaf' = [leaf EXCEPT ![t] = [leaf[t] EXCEPT ![n] = Outcome(a)]]
      /\ cancelled' = (cancelled \/ a = "crash")
      /\ invoking' = [invoking EXCEPT ![t] = 0]
      /\ UNCHANGED <<forest, answer, worker>>
  BY DEF InvokeLeaf
<1>3. Outcome(a) \in {"Ok", "Rejected", "Crashed"}
  BY <1>1 DEF Outcome, Answers
<1>4. ShapeOK'
  BY <1>1, <1>2, <1>3 DEF ShapeOK, Results, Errors
<1>5. SomeCrash => SomeCrash'
  <2>1. \A u \in DOMAIN forest : \A m \in Leaves(forest[u]) :
           leaf[u][m] = "Crashed" => leaf'[u][m] = "Crashed"
    BY <1>1, <1>2 DEF ShapeOK
  <2> QED BY <2>1, <1>2, CrashStays
<1>6. a = "crash" => SomeCrash'
  <2> SUFFICES ASSUME a = "crash" PROVE leaf'[t][n] = "Crashed"
    BY <1>1, <1>2 DEF SomeCrash, Leaves
  <2> QED BY <1>1, <1>2 DEF ShapeOK, Outcome
<1>7. NoSpuriousCancel'
  <2>1. cancelled' => SomeCrash'
    BY <1>2, <1>5, <1>6 DEF NoSpuriousCancel
  <2>2. ASSUME NEW u \in DOMAIN forest', NEW m \in (Leaves(forest[u]))'
        PROVE  /\ leaf'[u][m] = "Cancelled" => SomeCrash'
               /\ worker'[u] = "done" /\ leaf'[u][m] = "None" => SomeCrash'
    BY <1>1, <1>2, <1>3, <1>5 DEF NoSpuriousCancel, ShapeOK, Leaves
  <2> QED BY <2>1, <2>2 DEF NoSpuriousCancel
<1> QED BY <1>4, <1>7

\* Reducing a finished tree changes no leaf.
LEMMA ReduceTreeIInv ==
  ASSUME IInv, NEW t \in DOMAIN forest, ReduceTree(t)
  PROVE  IInv'
<1> USE DEF IInv
<1>1. ShapeOK'
  BY DEF ShapeOK, ReduceTree
<1>2. SomeCrash' = SomeCrash
  BY DEF SomeCrash, ReduceTree, Leaves
<1>3. NoSpuriousCancel'
  BY <1>2 DEF NoSpuriousCancel, ShapeOK, ReduceTree, Leaves
<1> QED BY <1>1, <1>3

\* Return and stuttering leave alone everything the invariant mentions.
LEMMA IdleIInv ==
  ASSUME IInv, UNCHANGED <<forest, answer, worker, invoking, leaf, cancelled>>
  PROVE  IInv'
  BY DEF IInv, ShapeOK, NoSpuriousCancel, SomeCrash

(***************************************************************************)
(* In every forest and every interleaving, a leaf or a tree is cancelled   *)
(* only after some predicate crashed.                                      *)
(***************************************************************************)
THEOREM CancelHasCause == Spec => []NoSpuriousCancel
<1>1. IInv /\ [Next]_vars => IInv'
  <2> SUFFICES ASSUME IInv, [Next]_vars PROVE IInv'
    OBVIOUS
  <2>1. CASE \E t \in DOMAIN forest : StartTree(t)
    BY <2>1, StartTreeIInv
  <2>2. CASE \E t \in DOMAIN forest : \E n \in Leaves(forest[t]) : CheckLeaf(t, n)
    BY <2>2, CheckLeafIInv
  <2>3. CASE \E t \in DOMAIN forest : InvokeLeaf(t)
    BY <2>3, InvokeLeafIInv
  <2>4. CASE \E t \in DOMAIN forest : ReduceTree(t)
    BY <2>4, ReduceTreeIInv
  <2>5. CASE Return
    BY <2>5, IdleIInv DEF Return
  <2>6. CASE UNCHANGED vars
    BY <2>6, IdleIInv DEF vars
  <2> QED BY <2>1, <2>2, <2>3, <2>4, <2>5, <2>6 DEF Next
<1>2. IInv => NoSpuriousCancel
  BY DEF IInv
<1> QED BY <1>1, <1>2, InitIInv, PTL DEF Spec

--------------------------------------------------------------------------------
(* Recursion and induction over the nodes of a tree.                       *)

\* Every set of naturals that has an element has a least one.
LEMMA LeastNatural ==
  ASSUME NEW T, T \subseteq Nat, T # {}
  PROVE  \E x \in T : \A y \in T : x <= y
<1> DEFINE R == {ss \in Nat \X Nat : ss[1] < ss[2]}
<1>1. IsWellFoundedOn(R, Nat)
  BY NatLessThanWellFounded DEF OpToRel
<1>2. \A x, y \in Nat : y < x => <<y, x>> \in R
  OBVIOUS
<1> HIDE DEF R
<1>3. PICK x \in T : \A y \in T : <<y, x>> \notin R
  BY <1>1, WFMin
<1>4. ASSUME NEW y \in T PROVE x <= y
  <2>1. x \in Nat /\ y \in Nat
    OBVIOUS
  <2>2. ~(y < x)
    BY <1>2, <1>3, <2>1
  <2> QED  BY <2>1, <2>2
<1> QED  BY <1>4

\* A set that has each natural below which it has all has all of them.
LEMMA StrongInduction ==
  ASSUME NEW S, \A n \in Nat : (\A m \in 0..(n - 1) : m \in S) => n \in S
  PROVE  \A n \in Nat : n \in S
<1> DEFINE T == Nat \ S
<1> SUFFICES ASSUME T # {} PROVE FALSE
  OBVIOUS
<1>1. T \subseteq Nat
  OBVIOUS
<1>2. PICK x \in T : \A y \in T : x <= y
  <2> HIDE DEF T
  <2> QED  BY <1>1, LeastNatural
<1>3. x \in Nat /\ x \notin S
  BY <1>2
<1>4. \A m \in 0..(x - 1) : m \in S
  BY <1>2, <1>3
<1> QED  BY <1>3, <1>4

\* The same for the numbers from 1 to N.
LEMMA NodeInduction ==
  ASSUME NEW N \in Nat, NEW S, \A n \in 1..N : (\A m \in 1..(n - 1) : m \in S) => n \in S
  PROVE  \A n \in 1..N : n \in S
<1> DEFINE Q == {n \in Nat : n \in 1..N => n \in S}
<1>1. ASSUME NEW n \in Nat, \A m \in 0..(n - 1) : m \in Q PROVE n \in Q
  <2> SUFFICES ASSUME n \in 1..N PROVE n \in S
    OBVIOUS
  <2>1. \A m \in 1..(n - 1) : m \in 0..(n - 1) /\ m \in 1..N
    OBVIOUS
  <2>2. \A m \in 1..(n - 1) : m \in S
    BY <1>1, <2>1
  <2> QED  BY <2>2
<1>2. \A n \in Nat : n \in Q
  <2> HIDE DEF Q
  <2> QED  BY <1>1, StrongInduction
<1> QED  BY <1>2

\* D gives the value of a function from I to V at n from its values before n.  (D
\* is itself a function, not an operator, so that the lemma can be cited.)
Progressive(D, I, V) ==
  /\ D \in [[I -> V] \X I -> V]
  /\ \A f, g \in [I -> V], n \in I :
       (\A i \in I : i < n => f[i] = g[i]) => D[<<f, n>>] = D[<<g, n>>]

\* A function that has these values.
Solution(D, I, V, f) == f \in [I -> V] /\ \A n \in I : f[n] = D[<<f, n>>]

LEMMA RecursiveFunction ==
  ASSUME NEW N \in Nat, NEW I, I \subseteq 0..N, NEW V, V # {},
         NEW D, Progressive(D, I, V)
  PROVE  \E f : Solution(D, I, V, f)
<1> DEFINE P(k) == \E f \in [I -> V] : \A n \in I : n < k => f[n] = D[<<f, n>>]
           S == {k \in Nat : P(k)}
<1>0. \A n \in I : n \in Nat
  OBVIOUS
<1>1. ASSUME NEW k \in Nat, \A m \in 0..(k - 1) : m \in S PROVE k \in S
  <2>1. CASE k = 0
    <3>1. PICK v \in V : TRUE
      OBVIOUS
    <3>2. PICK f \in [I -> V] : TRUE
      <4>1. [i \in I |-> v] \in [I -> V]
        OBVIOUS
      <4> QED  BY <4>1
    <3>3. \A n \in I : ~(n < k)
      BY <1>0, <2>1
    <3> QED  BY <3>2, <3>3
  <2>2. CASE k # 0
    <3>1. k - 1 \in Nat /\ k - 1 \in 0..(k - 1)
      BY <2>2
    <3>2. PICK f \in [I -> V] : \A n \in I : n < k - 1 => f[n] = D[<<f, n>>]
      BY <1>1, <3>1
    <3>3. CASE k - 1 \notin I
      <4>1. \A n \in I : n < k => n < k - 1
        BY <3>1, <3>3
      <4> QED  BY <3>2, <4>1
    <3>4. CASE k - 1 \in I
      <4>1. PICK g \in [I -> V] : /\ g[k - 1] = D[<<f, k - 1>>]
                                  /\ \A i \in I : i # k - 1 => g[i] = f[i]
        <5>1. [f EXCEPT ![k - 1] = D[<<f, k - 1>>]] \in [I -> V]
          <6>1. D[<<f, k - 1>>] \in V
            BY <3>4 DEF Progressive
          <6> QED  BY <6>1
        <5> QED  BY <3>4, <5>1
      <4>2. ASSUME NEW n \in I, n < k PROVE g[n] = D[<<g, n>>]
        <5>0. \A i \in I : i < n => i # k - 1
          BY <3>1, <4>2
        <5>1. \A i \in I : i < n => g[i] = f[i]
          BY <4>1, <5>0
        <5>2. D[<<g, n>>] = D[<<f, n>>]
          BY <5>1 DEF Progressive
        <5>3. CASE n = k - 1
          BY <4>1, <5>2, <5>3
        <5>4. CASE n # k - 1
          <6>1. n < k - 1
            BY <1>0, <3>1, <4>2, <5>4
          <6> QED  BY <3>2, <4>1, <5>2, <5>4, <6>1
        <5> QED  BY <5>3, <5>4
      <4> QED  BY <4>2
    <3> QED  BY <3>3, <3>4
  <2> QED  BY <2>1, <2>2
<1>2. \A k \in Nat : k \in S
  <2> HIDE DEF S
  <2> QED  BY <1>1, StrongInduction
<1>3. P(N + 1)
  <2>1. N + 1 \in S
    <3> HIDE DEF S
    <3> QED  BY <1>2
  <2> HIDE DEF P
  <2> QED  BY <2>1
<1>4. \A n \in I : n < N + 1
  OBVIOUS
<1> QED  BY <1>3, <1>4 DEF Solution

--------------------------------------------------------------------------------
(* What reducing a tree yields.                                            *)

\* The connectives yield results.
LEMMA ConnectiveTypes ==
  /\ \A a \in Results : Not(a) \in Results
  /\ \A a, b \in Results : And(a, b) \in Results /\ Or(a, b) \in Results
BY DEF Results, Errors, Not, And, Or, FirstError

\* Operands of a node of a tree.
LEMMA TreeShape ==
  ASSUME NEW tree, IsTree(tree)
  PROVE  /\ Len(tree) \in Nat /\ Len(tree) \in 1..Len(tree)
         /\ DOMAIN tree = 1..Len(tree) /\ Leaves(tree) \subseteq 1..Len(tree)
         /\ \A n \in 1..Len(tree) :
              /\ tree[n].op \in {"id", "not", "and", "or"}
              /\ tree[n].op = "id" <=> n \in Leaves(tree)
              /\ tree[n].op # "id" => tree[n].l \in 1..(n - 1) /\ tree[n].l \in 1..Len(tree)
              /\ tree[n].op \in {"and", "or"}
                   => tree[n].r \in 1..(n - 1) /\ tree[n].r \in 1..Len(tree)
<1>1. Len(tree) \in Nat /\ DOMAIN tree = 1..Len(tree) /\ Len(tree) \in 1..Len(tree)
  BY DEF IsTree
<1>2. ASSUME NEW n \in 1..Len(tree)
      PROVE  /\ tree[n].op \in {"id", "not", "and", "or"}
             /\ tree[n].op # "id" => tree[n].l \in 1..(n - 1)
             /\ tree[n].op \in {"and", "or"} => tree[n].r \in 1..(n - 1)
  <2>1. tree[n] \in [op : {"id", "not", "and", "or"}, l : Nat, r : Nat]
    <3> DEFINE R == [op : {"id", "not", "and", "or"}, l : Nat, r : Nat]
    <3>1. tree \in Seq(R)
      BY DEF IsTree
    <3> HIDE DEF R
    <3>2. tree[n] \in R
      BY <3>1, ElementOfSeq
    <3> QED  BY <3>2 DEF R
  <2>2. Operands(tree[n]) \subseteq 1..(n - 1)
    BY DEF IsTree
  <2> QED  BY <2>1, <2>2 DEF Operands
<1>3. \A n \in 1..Len(tree) : 1..(n - 1) \subseteq 1..Len(tree)
  BY <1>1
<1> QED  BY <1>1, <1>2, <1>3 DEF Leaves

\* The reduction by nodes.
Reduction(tree, res, red) ==
  /\ red \in [1..Len(tree) -> Results]
  /\ \A n \in 1..Len(tree) : red[n] = Combine(tree, res, red, n)

LEMMA ReductionExists ==
  ASSUME NEW tree, IsTree(tree), NEW res \in [Leaves(tree) -> Results]
  PROVE  \E red : Reduction(tree, res, red) /\ Reduce(tree, res) = red[Len(tree)]
<1> DEFINE N == Len(tree)
           I == 1..N
           V == Results
<1>0. /\ N \in Nat /\ DOMAIN tree = I /\ I \subseteq 0..N /\ V # {}
      /\ \A n \in I : n \in Nat
  BY TreeShape DEF Results
<1>1. ASSUME NEW f \in [I -> V], NEW n \in I PROVE Combine(tree, res, f, n) \in V
  BY TreeShape, ConnectiveTypes DEF Combine
<1>2. ASSUME NEW f, NEW g, NEW n \in I, \A i \in I : i < n => f[i] = g[i]
      PROVE  Combine(tree, res, f, n) = Combine(tree, res, g, n)
  <2>1. /\ tree[n].op # "id" => f[tree[n].l] = g[tree[n].l]
        /\ tree[n].op \in {"and", "or"} => f[tree[n].r] = g[tree[n].r]
    BY <1>0, <1>2, TreeShape
  <2>2. tree[n].op \in {"id", "not", "and", "or"}
    BY TreeShape
  <2> QED  BY <2>1, <2>2 DEF Combine
<1> DEFINE D == [p \in [I -> V] \X I |-> Combine(tree, res, p[1], p[2])]
<1> HIDE DEF N, I, V
<1>3. D \in [[I -> V] \X I -> V]
  BY <1>1
<1>4. \A f \in [I -> V], n \in I : D[<<f, n>>] = Combine(tree, res, f, n)
  OBVIOUS
<1> HIDE DEF D
<1>5. PICK f \in [I -> V] : \A n \in I : f[n] = D[<<f, n>>]
  <2>1. Progressive(D, I, V)
    BY <1>2, <1>3, <1>4 DEF Progressive
  <2>2. PICK f : Solution(D, I, V, f)
    BY <1>0, <2>1, RecursiveFunction
  <2> QED  BY <2>2 DEF Solution
<1>6. f = [n \in I |-> Combine(tree, res, f, n)]
  BY <1>4, <1>5
<1> DEFINE red == CHOOSE h : h = [n \in DOMAIN tree |-> Combine(tree, res, h, n)]
<1>7. red = [n \in I |-> Combine(tree, res, red, n)]
  BY <1>0, <1>6
<1>8. Reduce(tree, res) = red[N]
  BY DEF Reduce, N
<1> HIDE DEF red
<1>9. \A n \in I : red[n] = Combine(tree, res, red, n)
  BY <1>7
<1>10. \A n \in I : red[n] = f[n]
  <2> DEFINE S == {n \in I : red[n] = f[n]}
  <2>1. ASSUME NEW n \in I, \A m \in 1..(n - 1) : m \in S PROVE n \in S
    <3>1. \A i \in I : i < n => red[i] = f[i]
      <4>1. \A i \in I : i < n => i \in 1..(n - 1)
        BY <1>0 DEF I
      <4> QED  BY <2>1, <4>1
    <3>2. Combine(tree, res, red, n) = Combine(tree, res, f, n)
      BY <1>2, <3>1
    <3>3. f[n] = Combine(tree, res, f, n)
      BY <1>4, <1>5
    <3> QED  BY <1>9, <3>2, <3>3
  <2>2. \A n \in I : n \in S
    <3> HIDE DEF S
    <3> QED  BY <1>0, <2>1, NodeInduction DEF I
  <2> QED  BY <2>2
<1>11. red \in [I -> V]
  BY <1>7, <1>10
<1> QED  BY <1>8, <1>9, <1>11 DEF Reduction, N, I, V

\* The leaves below each node.
Below(tree, under) ==
  /\ under \in [1..Len(tree) -> SUBSET (1..Len(tree))]
  /\ \A n \in 1..Len(tree) :
       under[n] = IF tree[n].op = "id" THEN {n}
                  ELSE IF tree[n].op = "not" THEN under[tree[n].l]
                  ELSE under[tree[n].l] \cup under[tree[n].r]

LEMMA BelowExists ==
  ASSUME NEW tree, IsTree(tree)
  PROVE  \E under : Below(tree, under)
<1> DEFINE N == Len(tree)
           I == 1..N
           V == SUBSET I
           U(f, n) == IF tree[n].op = "id" THEN {n}
                      ELSE IF tree[n].op = "not" THEN f[tree[n].l]
                      ELSE f[tree[n].l] \cup f[tree[n].r]
<1>0. /\ N \in Nat /\ I \subseteq 0..N /\ V # {} /\ \A n \in I : n \in Nat
  BY TreeShape
<1>1. ASSUME NEW f \in [I -> V], NEW n \in I PROVE U(f, n) \in V
  BY TreeShape
<1>2. ASSUME NEW f, NEW g, NEW n \in I, \A i \in I : i < n => f[i] = g[i]
      PROVE  U(f, n) = U(g, n)
  <2>1. /\ tree[n].op # "id" => f[tree[n].l] = g[tree[n].l]
        /\ tree[n].op \in {"and", "or"} => f[tree[n].r] = g[tree[n].r]
    BY <1>0, <1>2, TreeShape
  <2>2. tree[n].op \in {"id", "not", "and", "or"}
    BY TreeShape
  <2> QED  BY <2>1, <2>2
<1> DEFINE D == [p \in [I -> V] \X I |-> U(p[1], p[2])]
<1> HIDE DEF N, I, V, U
<1>3. D \in [[I -> V] \X I -> V]
  BY <1>1
<1>4. \A f \in [I -> V], n \in I : D[<<f, n>>] = U(f, n)
  OBVIOUS
<1> HIDE DEF D
<1>5. PICK f \in [I -> V] : \A n \in I : f[n] = D[<<f, n>>]
  <2>1. Progressive(D, I, V)
    BY <1>2, <1>3, <1>4 DEF Progressive
  <2>2. PICK f : Solution(D, I, V, f)
    BY <1>0, <2>1, RecursiveFunction
  <2> QED  BY <2>2 DEF Solution
<1>6. \A n \in I : f[n] = U(f, n)
  BY <1>4, <1>5
<1> QED  BY <1>6 DEF Below, N, I, V, U

\* The truth of the nodes of a tree.
Valuation(t, val) ==
  /\ val \in [1..Len(forest[t]) -> BOOLEAN]
  /\ \A n \in 1..Len(forest[t]) : val[n] = NodeTruth(t, val, n)

\* The equation of Truth has a solution.
LEMMA ValuationExists ==
  ASSUME NEW t, IsTree(forest[t])
  PROVE  \E val : Valuation(t, val) /\ Truth(t) = val[Len(forest[t])]
<1> DEFINE tree == forest[t]
           N == Len(tree)
           I == 1..N
           V == BOOLEAN
<1>0. /\ N \in Nat /\ DOMAIN tree = I /\ I \subseteq 0..N /\ V # {}
      /\ \A n \in I : n \in Nat
  <2>1. N \in Nat /\ DOMAIN tree = I
    BY TreeShape
  <2>2. V # {}
    BY TRUE \in V, Zenon
  <2>3. I \subseteq 0..N /\ \A n \in I : n \in Nat
    BY <2>1
  <2> QED  BY <2>1, <2>2, <2>3
<1>1. \A f, n : NodeTruth(t, f, n) \in V
  BY DEF NodeTruth
<1>2. ASSUME NEW f, NEW g, NEW n \in I, \A i \in I : i < n => f[i] = g[i]
      PROVE  NodeTruth(t, f, n) = NodeTruth(t, g, n)
  <2>1. /\ tree[n].op # "id" => f[tree[n].l] = g[tree[n].l]
        /\ tree[n].op \in {"and", "or"} => f[tree[n].r] = g[tree[n].r]
    BY <1>0, <1>2, TreeShape
  <2> QED  BY <2>1, Zenon DEF NodeTruth
<1> DEFINE D == [p \in [I -> V] \X I |-> NodeTruth(t, p[1], p[2])]
<1> HIDE DEF N, I, V
<1>3. D \in [[I -> V] \X I -> V]
  BY <1>1
<1>4. \A f \in [I -> V], n \in I : D[<<f, n>>] = NodeTruth(t, f, n)
  OBVIOUS
<1> HIDE DEF D
<1>5. PICK f \in [I -> V] : \A n \in I : f[n] = D[<<f, n>>]
  <2>1. Progressive(D, I, V)
    BY <1>2, <1>3, <1>4 DEF Progressive
  <2>2. PICK f : Solution(D, I, V, f)
    BY <1>0, <2>1, RecursiveFunction
  <2> QED  BY <2>2 DEF Solution
<1>6. f = [n \in I |-> NodeTruth(t, f, n)]
  BY <1>4, <1>5
<1> DEFINE val == CHOOSE h : h = [n \in DOMAIN tree |-> NodeTruth(t, h, n)]
<1>7. val = [n \in I |-> NodeTruth(t, val, n)]
  BY <1>0, <1>6
<1>8. Truth(t) = val[N]
  BY DEF Truth, N
<1> HIDE DEF val
<1>9. \A n \in I : val[n] = NodeTruth(t, val, n)
  BY <1>7
<1>10. val \in [I -> V]
  BY <1>1, <1>7
<1> QED  BY <1>8, <1>9, <1>10 DEF Valuation, N, I, V

\* Every leaf is below the root, and what is below a node is a leaf that comes no
\* later.
LEMMA LeavesBelow ==
  ASSUME NEW tree, IsTree(tree), NEW under, Below(tree, under)
  PROVE  /\ \A n \in 1..Len(tree) : \A m \in under[n] : m \in Leaves(tree) /\ m <= n
         /\ \A n \in Leaves(tree) : n \in under[Len(tree)]
<1> DEFINE N == Len(tree)
<1>0. N \in Nat /\ N \in 1..N
  BY TreeShape
<1>1. \A n \in 1..N : \A m \in under[n] : m \in Leaves(tree) /\ m <= n
  <2> DEFINE S == {n \in 1..N : \A m \in under[n] : m \in Leaves(tree) /\ m <= n}
  <2>1. ASSUME NEW n \in 1..N, \A m \in 1..(n - 1) : m \in S PROVE n \in S
    <3>1. \A i \in 1..(n - 1) : \A m \in under[i] : m \in Leaves(tree) /\ m \in 1..N /\ m <= n
      <4>1. \A i \in 1..(n - 1) : i \in 1..N
        BY <1>0
      <4>2. \A i \in 1..N : \A m \in under[i] : m \in 1..N
        BY DEF Below
      <4> QED  BY <2>1, <4>1, <4>2
    <3>2. under[n] = IF tree[n].op = "id" THEN {n}
                     ELSE IF tree[n].op = "not" THEN under[tree[n].l]
                     ELSE under[tree[n].l] \cup under[tree[n].r]
      BY DEF Below
    <3>3. /\ tree[n].op \in {"id", "not", "and", "or"}
          /\ tree[n].op = "id" => n \in Leaves(tree)
          /\ tree[n].op # "id" => tree[n].l \in 1..(n - 1)
          /\ tree[n].op \in {"and", "or"} => tree[n].r \in 1..(n - 1)
      BY TreeShape
    <3>4. \A m \in under[n] : m \in Leaves(tree) /\ m <= n
      BY <3>1, <3>2, <3>3
    <3> QED  BY <3>4
  <2>2. \A n \in 1..N : n \in S
    <3> HIDE DEF S, N
    <3> QED  BY <1>0, <2>1, NodeInduction
  <2> QED  BY <2>2
<1>2. \A n \in 1..N : under[n] \subseteq under[N]
  <2> DEFINE P(n) == under[n] \subseteq under[N]
             S == {k \in 1..N : P(N + 1 - k)}
  <2>1. ASSUME NEW k \in 1..N, \A j \in 1..(k - 1) : j \in S PROVE k \in S
    <3> DEFINE n == N + 1 - k
    <3>0. n \in 1..N
      BY <1>0
    <3>1. CASE n = N
      BY <3>1
    <3>2. CASE n # N
      <4>1. n \in 1..(N - 1)
        BY <1>0, <3>0, <3>2
      <4>2. PICK m \in 1..N : n \in Operands(tree[m])
        BY <4>1 DEF IsTree
      <4>3. Operands(tree[m]) \subseteq 1..(m - 1)
        BY DEF IsTree
      <4>4. n < m
        BY <1>0, <4>2, <4>3
      <4>5. N + 1 - m \in 1..(k - 1) /\ N + 1 - (N + 1 - m) = m
        BY <1>0, <3>0, <4>4
      <4>6. N + 1 - m \in S
        BY <2>1, <4>5
      <4>7. under[m] \subseteq under[N]
        BY <4>5, <4>6
      <4>8. under[n] \subseteq under[m]
        <5>1. under[m] = IF tree[m].op = "id" THEN {m}
                         ELSE IF tree[m].op = "not" THEN under[tree[m].l]
                         ELSE under[tree[m].l] \cup under[tree[m].r]
          BY DEF Below
        <5>2. tree[m].op \in {"id", "not", "and", "or"}
          BY TreeShape
        <5> QED  BY <4>2, <5>1, <5>2 DEF Operands
      <4> QED  BY <4>7, <4>8
    <3> QED  BY <3>1, <3>2
  <2>2. \A k \in 1..N : k \in S
    <3> HIDE DEF S, N
    <3> QED  BY <1>0, <2>1, NodeInduction
  <2>3. ASSUME NEW n \in 1..N PROVE P(n)
    <3>1. N + 1 - n \in 1..N /\ N + 1 - (N + 1 - n) = n
      BY <1>0
    <3>2. P(N + 1 - (N + 1 - n))
      BY <2>2, <3>1
    <3> HIDE DEF P
    <3> QED  BY <3>1, <3>2
  <2> QED  BY <2>3
<1>3. ASSUME NEW n \in Leaves(tree) PROVE n \in under[N]
  <2>1. n \in 1..N /\ tree[n].op = "id"
    BY TreeShape
  <2>2. under[n] = {n}
    BY <2>1 DEF Below
  <2> QED  BY <1>2, <2>1, <2>2
<1> QED  BY <1>1, <1>3

Dirty == {"Crashed", "Cancelled"}

\* The flag is never cleared: after a crash or a cancellation, the later leaves of
\* the tree are cancelled.
Ordered(tree, res) ==
  \A m, n \in Leaves(tree) : m < n /\ res[m] \in Dirty => res[n] = "Cancelled"

\* A node is not Ok when a leaf below it crashed or was cancelled, it tells of a
\* crash by an error of its own, and it is Cancelled only if a leaf below it is.
Telling(res, S, v) ==
  /\ (\E m \in S : res[m] \in Dirty) => v # "Ok"
  /\ (\E m \in S : res[m] = "Crashed") => v \in {"Rejected", "Crashed"}
  /\ v = "Cancelled" => \E m \in S : res[m] = "Cancelled"

\* Conjunction keeps this.
LEMMA AndTells ==
  ASSUME NEW res, NEW S, NEW T, NEW a \in Results, NEW b \in Results,
         Telling(res, S, a), Telling(res, T, b)
  PROVE  Telling(res, S \cup T, And(a, b))
<1> DEFINE v == And(a, b)
<1>1. /\ v = "Ok" => a = "Ok" /\ b = "Ok"
      /\ a \in {"Rejected", "Crashed"} => v = a
      /\ b \in {"Rejected", "Crashed"} => v \in {"Rejected", "Crashed"}
      /\ v = "Cancelled" => a = "Cancelled" \/ b = "Cancelled"
  BY DEF And, FirstError, Results, Errors
<1> HIDE DEF v
<1>2. (\E m \in S \cup T : res[m] \in Dirty) => v # "Ok"
  BY <1>1 DEF Telling
<1>3. (\E m \in S \cup T : res[m] = "Crashed") => v \in {"Rejected", "Crashed"}
  BY <1>1 DEF Telling
<1>4. v = "Cancelled" => \E m \in S \cup T : res[m] = "Cancelled"
  BY <1>1 DEF Telling
<1> QED  BY <1>2, <1>3, <1>4 DEF Telling, v

\* Disjunction keeps it when its second operand, like the leaf below it, is dirty
\* whenever a leaf below the first is.
LEMMA OrTells ==
  ASSUME NEW res, NEW S, NEW T, NEW a \in Results, NEW b \in Results,
         Telling(res, S, a), Telling(res, T, b),
         (\E m \in S : res[m] \in Dirty) => b = "Cancelled",
         (\E m \in T : res[m] \in Dirty) => b \in Dirty
  PROVE  Telling(res, S \cup T, Or(a, b))
<1> DEFINE v == Or(a, b)
<1>1. /\ b \in Dirty => v # "Ok"
      /\ a \in {"Rejected", "Crashed"} /\ b = "Cancelled" => v = a
      /\ b = "Crashed" => v \in {"Rejected", "Crashed"}
      /\ v = "Cancelled" => a = "Cancelled" \/ b = "Cancelled"
  BY DEF Or, FirstError, Results, Errors, Dirty
<1> HIDE DEF v
<1>2. (\E m \in S \cup T : res[m] \in Dirty) => v # "Ok"
  BY <1>1 DEF Dirty
<1>3. (\E m \in S \cup T : res[m] = "Crashed") => v \in {"Rejected", "Crashed"}
  <2>1. ASSUME NEW m \in S, res[m] = "Crashed" PROVE v \in {"Rejected", "Crashed"}
    BY <1>1, <2>1 DEF Telling, Dirty
  <2>2. ASSUME NEW m \in T, res[m] = "Crashed" PROVE v \in {"Rejected", "Crashed"}
    BY <1>1, <2>2 DEF Telling, Dirty
  <2> QED  BY <2>1, <2>2
<1>4. v = "Cancelled" => \E m \in S \cup T : res[m] = "Cancelled"
  BY <1>1 DEF Telling
<1> QED  BY <1>2, <1>3, <1>4 DEF Telling, v

\* So every node of a tree in which a crash cannot hide tells.
LEMMA NodesTell ==
  ASSUME NEW tree, IsTree(tree), Unmasked(tree),
         NEW res \in [Leaves(tree) -> Results], Ordered(tree, res),
         NEW red, Reduction(tree, res, red), NEW under, Below(tree, under)
  PROVE  \A n \in 1..Len(tree) : Telling(res, under[n], red[n])
<1> DEFINE N == Len(tree)
           S == {n \in 1..N : Telling(res, under[n], red[n])}
<1>0. N \in Nat /\ DOMAIN tree = 1..N
  BY TreeShape
<1>1. ASSUME NEW n \in 1..N, tree[n].op = "id"
      PROVE  n \in Leaves(tree) /\ red[n] = res[n] /\ under[n] = {n}
  BY <1>1, TreeShape DEF Reduction, Combine, Below
<1>2. ASSUME NEW n \in 1..N, tree[n].op = "not"
      PROVE  /\ tree[n].l \in 1..(n - 1) /\ tree[n].l \in 1..N
             /\ tree[tree[n].l].op = "id" /\ tree[n].l \in Leaves(tree)
             /\ red[n] = Not(res[tree[n].l]) /\ under[n] = {tree[n].l}
  <2>1. tree[n].l \in 1..(n - 1) /\ tree[n].l \in 1..N
    BY <1>2, TreeShape
  <2>2. tree[tree[n].l].op = "id"
    BY <1>0, <1>2 DEF Unmasked
  <2>3. red[n] = Not(red[tree[n].l]) /\ under[n] = under[tree[n].l]
    BY <1>2 DEF Reduction, Combine, Below
  <2> QED  BY <1>1, <2>1, <2>2, <2>3
<1>3. ASSUME NEW n \in 1..N, \A m \in 1..(n - 1) : m \in S PROVE n \in S
  <2>0. tree[n].op \in {"id", "not", "and", "or"}
    BY TreeShape
  <2>1. CASE tree[n].op = "id"
    <3>1. Telling(res, {n}, res[n])
      BY DEF Telling, Dirty
    <3> QED  BY <1>1, <2>1, <3>1
  <2>2. CASE tree[n].op = "not"
    <3> DEFINE m == tree[n].l
    <3>1. Telling(res, {m}, Not(res[m]))
      BY DEF Telling, Not, Dirty
    <3> QED  BY <1>2, <2>2, <3>1
  <2>3. CASE tree[n].op \in {"and", "or"}
    <3> DEFINE l == tree[n].l
               r == tree[n].r
    <3>1. l \in 1..(n - 1) /\ l \in 1..N /\ r \in 1..(n - 1) /\ r \in 1..N
      BY <2>3, TreeShape
    <3>2. red[l] \in Results /\ red[r] \in Results
      BY <3>1 DEF Reduction
    <3>3. Telling(res, under[l], red[l]) /\ Telling(res, under[r], red[r])
      BY <1>3, <3>1
    <3>4. under[n] = under[l] \cup under[r]
      BY <2>3 DEF Below
    <3>5. CASE tree[n].op = "and"
      <4>1. red[n] = And(red[l], red[r])
        BY <3>5 DEF Reduction, Combine
      <4>2. Telling(res, under[l] \cup under[r], And(red[l], red[r]))
        BY <3>2, <3>3, AndTells
      <4> QED  BY <3>4, <4>1, <4>2
    <3>6. CASE tree[n].op = "or"
      <4>1. red[n] = Or(red[l], red[r])
        BY <3>6 DEF Reduction, Combine
      <4>2. PICK m \in (l + 1)..n :
               \/ r = m /\ tree[r].op = "id"
               \/ tree[r].op = "not" /\ tree[r].l = m /\ tree[m].op = "id"
        BY <1>0, <3>6 DEF Unmasked
      <4>3. /\ m \in Leaves(tree) /\ under[r] = {m}
            /\ red[r] \in {res[m], Not(res[m])}
        BY <1>1, <1>2, <3>1, <4>2
      <4>4. res[m] \in Dirty => red[r] = res[m]
        BY <4>3 DEF Not, Dirty
      <4>5. (\E i \in under[l] : res[i] \in Dirty) => red[r] = "Cancelled"
        <5> SUFFICES ASSUME NEW i \in under[l], res[i] \in Dirty
                     PROVE  red[r] = "Cancelled"
          OBVIOUS
        <5>1. i \in Leaves(tree) /\ i <= l
          BY <3>1, LeavesBelow
        <5>2. i < m
          <6>1. i \in Nat /\ l \in Nat /\ m \in Nat
            BY <3>1, <4>2, <5>1, TreeShape
          <6> QED  BY <4>2, <5>1, <6>1
        <5>3. res[m] = "Cancelled"
          BY <4>3, <5>1, <5>2 DEF Ordered
        <5> QED  BY <4>4, <5>3 DEF Dirty
      <4>6. (\E i \in under[r] : res[i] \in Dirty) => red[r] \in Dirty
        BY <4>3, <4>4
      <4>7. Telling(res, under[l] \cup under[r], Or(red[l], red[r]))
        BY <3>2, <3>3, <4>5, <4>6, OrTells
      <4> QED  BY <3>4, <4>1, <4>7
    <3> QED  BY <2>3, <3>5, <3>6
  <2> QED  BY <2>0, <2>1, <2>2, <2>3
<1>4. \A n \in 1..N : n \in S
  <2> HIDE DEF S, N
  <2> QED  BY <1>0, <1>3, NodeInduction
<1> QED  BY <1>4

\* Leaves that all answered reduce to the truth of each node.
LEMMA NodesTrue ==
  ASSUME NEW t, IsTree(forest[t]), NEW res,
         \A n \in Leaves(forest[t]) :
           \/ res[n] = "Ok" /\ answer[<<t, n>>] = "true"
           \/ res[n] = "Rejected" /\ answer[<<t, n>>] # "true",
         NEW red, Reduction(forest[t], res, red), NEW val, Valuation(t, val)
  PROVE  \A n \in 1..Len(forest[t]) : /\ red[n] \in {"Ok", "Rejected"}
                                      /\ red[n] = "Ok" <=> val[n] = TRUE
<1> DEFINE tree == forest[t]
           N == Len(tree)
           P(n) == red[n] \in {"Ok", "Rejected"} /\ (red[n] = "Ok" <=> val[n] = TRUE)
           S == {n \in 1..N : P(n)}
<1>0. N \in Nat
  BY TreeShape
<1>1. ASSUME NEW n \in 1..N, \A m \in 1..(n - 1) : m \in S PROVE n \in S
  <2>0. /\ tree[n].op \in {"id", "not", "and", "or"}
        /\ tree[n].op = "id" => n \in Leaves(tree)
        /\ tree[n].op # "id" => tree[n].l \in 1..(n - 1)
        /\ tree[n].op \in {"and", "or"} => tree[n].r \in 1..(n - 1)
    BY TreeShape
  <2>1. red[n] = Combine(tree, res, red, n)
    BY DEF Reduction
  <2>2. val[n] = NodeTruth(t, val, n) /\ \A i \in 1..N : val[i] \in BOOLEAN
    BY Zenon DEF Valuation
  <2>3. \A m \in 1..(n - 1) : m \in 1..N /\ P(m)
    BY <1>1
  <2>4. CASE tree[n].op = "id"
    <3>1. red[n] = res[n]
      BY <2>1, <2>4 DEF Combine
    <3>2. val[n] = TRUE <=> answer[<<t, n>>] = "true"
      BY <2>2, <2>4 DEF NodeTruth
    <3> QED  BY <2>0, <2>4, <3>1, <3>2
  <2>5. CASE tree[n].op = "not"
    <3>1. red[n] = Not(red[tree[n].l])
      BY <2>1, <2>5 DEF Combine
    <3>2. val[n] = TRUE <=> ~(val[tree[n].l] = TRUE)
      BY <2>0, <2>2, <2>3, <2>5 DEF NodeTruth
    <3>3. P(tree[n].l)
      BY <2>0, <2>3, <2>5
    <3> QED  BY <3>1, <3>2, <3>3 DEF Not
  <2>6. CASE tree[n].op = "and"
    <3>1. red[n] = And(red[tree[n].l], red[tree[n].r])
      BY <2>1, <2>6 DEF Combine
    <3>2. val[n] = TRUE <=> val[tree[n].l] = TRUE /\ val[tree[n].r] = TRUE
      BY <2>0, <2>2, <2>3, <2>6 DEF NodeTruth
    <3>3. P(tree[n].l) /\ P(tree[n].r)
      BY <2>0, <2>3, <2>6
    <3> QED  BY <3>1, <3>2, <3>3 DEF And, FirstError
  <2>7. CASE tree[n].op = "or"
    <3>1. red[n] = Or(red[tree[n].l], red[tree[n].r])
      BY <2>1, <2>7 DEF Combine
    <3>2. val[n] = TRUE <=> val[tree[n].l] = TRUE \/ val[tree[n].r] = TRUE
      BY <2>0, <2>2, <2>3, <2>7 DEF NodeTruth
    <3>3. P(tree[n].l) /\ P(tree[n].r)
      BY <2>0, <2>3, <2>7
    <3> QED  BY <3>1, <3>2, <3>3 DEF Or
  <2> QED  BY <2>0, <2>4, <2>5, <2>6, <2>7
<1>2. \A n \in 1..N : n \in S
  <2> HIDE DEF S, N
  <2> QED  BY <1>0, <1>1, NodeInduction
<1> QED  BY <1>2

\* The result of a tree, in terms of those of its leaves.
LEMMA TreeResult ==
  ASSUME NEW t, IsTree(forest[t]), Unmasked(forest[t]),
         NEW res \in [Leaves(forest[t]) -> Results], Ordered(forest[t], res)
  PROVE  /\ Reduce(forest[t], res) \in Results
         /\ Telling(res, Leaves(forest[t]), Reduce(forest[t], res))
         /\ (\A n \in Leaves(forest[t]) :
               \/ res[n] = "Ok" /\ answer[<<t, n>>] = "true"
               \/ res[n] = "Rejected" /\ answer[<<t, n>>] # "true")
            => (Reduce(forest[t], res) = "Ok" <=> Truth(t))
<1> DEFINE tree == forest[t]
<1>1. PICK red : Reduction(tree, res, red) /\ Reduce(tree, res) = red[Len(tree)]
  BY ReductionExists
<1>2. PICK under : Below(tree, under)
  BY BelowExists
<1>3. PICK val : Valuation(t, val) /\ Truth(t) = val[Len(tree)]
  BY ValuationExists
<1>4. Len(tree) \in 1..Len(tree)
  BY TreeShape
<1>5. Reduce(tree, res) \in Results
  BY <1>1, <1>4 DEF Reduction
<1>6. Telling(res, Leaves(tree), Reduce(tree, res))
  <2>1. Telling(res, under[Len(tree)], red[Len(tree)])
    BY <1>1, <1>2, <1>4, NodesTell
  <2>2. \A m : m \in under[Len(tree)] <=> m \in Leaves(tree)
    BY <1>2, <1>4, LeavesBelow
  <2> QED  BY <1>1, <2>1, <2>2 DEF Telling
<1>7. ASSUME \A n \in Leaves(tree) :
               \/ res[n] = "Ok" /\ answer[<<t, n>>] = "true"
               \/ res[n] = "Rejected" /\ answer[<<t, n>>] # "true"
      PROVE  Reduce(tree, res) = "Ok" <=> Truth(t)
  <2>1. red[Len(tree)] = "Ok" <=> val[Len(tree)] = TRUE
    BY <1>1, <1>3, <1>4, <1>7, NodesTrue
  <2>2. val[Len(tree)] \in BOOLEAN
    BY <1>3, <1>4 DEF Valuation
  <2> QED  BY <1>1, <1>3, <2>1, <2>2
<1> QED  BY <1>5, <1>6, <1>7

\* The result of the trees together.
LEMMA ForestResult ==
  ASSUME NEW k \in Nat, NEW vals \in [1..k -> Results]
  PROVE  /\ ReduceAll(vals) \in Results
         /\ ReduceAll(vals) = "Ok" <=> \A n \in 1..k : vals[n] = "Ok"
         /\ ReduceAll(vals) = "Cancelled"
              => /\ \E n \in 1..k : vals[n] = "Cancelled"
                 /\ \A n \in 1..k : vals[n] \in {"Ok", "Cancelled"}
<1>0. Len(vals) = k
  OBVIOUS
<1> DEFINE B(f, n) == IF n = 0 THEN "Ok" ELSE And(f[n - 1], vals[n])
           I == 0..k
           V == Results
           D == [p \in [I -> V] \X I |-> B(p[1], p[2])]
<1>1. ASSUME NEW f \in [I -> V], NEW n \in I PROVE B(f, n) \in V
  <2>1. n # 0 => f[n - 1] \in Results /\ vals[n] \in Results
    OBVIOUS
  <2>2. "Ok" \in Results
    BY DEF Results
  <2> QED  BY <2>1, <2>2, ConnectiveTypes
<1>2. ASSUME NEW f, NEW g, NEW n \in I, \A i \in I : i < n => f[i] = g[i]
      PROVE  B(f, n) = B(g, n)
  <2>1. n # 0 => n - 1 \in I /\ n - 1 < n
    OBVIOUS
  <2> QED  BY <1>2, <2>1
<1>3. I \subseteq 0..k /\ V # {} /\ \A n \in I : n \in Nat
  BY DEF Results
<1> HIDE DEF B, I, V
<1>4. D \in [[I -> V] \X I -> V]
  BY <1>1
<1>5. \A f \in [I -> V], n \in I : D[<<f, n>>] = B(f, n)
  OBVIOUS
<1> HIDE DEF D
<1>6. PICK f \in [I -> V] : \A n \in I : f[n] = D[<<f, n>>]
  <2>1. Progressive(D, I, V)
    BY <1>2, <1>4, <1>5 DEF Progressive
  <2>2. PICK f : Solution(D, I, V, f)
    BY <1>3, <2>1, RecursiveFunction
  <2> QED  BY <2>2 DEF Solution
<1>7. f = [n \in I |-> B(f, n)]
  BY <1>5, <1>6
<1> DEFINE red == CHOOSE h : h = [n \in I |-> B(h, n)]
<1>8. red = [n \in I |-> B(red, n)]
  BY <1>7
<1>9. ReduceAll(vals) = red[k]
  BY <1>0 DEF ReduceAll, I, B
<1> HIDE DEF red
<1>10. \A n \in I : red[n] = B(red, n)
  BY <1>8
<1> DEFINE P(n) == /\ red[n] \in Results
                   /\ red[n] = "Ok" <=> \A i \in 1..n : vals[i] = "Ok"
                   /\ red[n] = "Cancelled"
                        => /\ \E i \in 1..n : vals[i] = "Cancelled"
                           /\ \A i \in 1..n : vals[i] \in {"Ok", "Cancelled"}
           S == {n \in Nat : n \in I => P(n)}
<1>11. ASSUME NEW n \in Nat, \A m \in 0..(n - 1) : m \in S PROVE n \in S
  <2> SUFFICES ASSUME n \in I PROVE P(n)
    OBVIOUS
  <2>1. CASE n = 0
    <3>1. red[n] = "Ok"
      BY <1>10, <2>1 DEF B
    <3> QED  BY <2>1, <3>1 DEF Results
  <2>2. CASE n # 0
    <3>1. red[n] = And(red[n - 1], vals[n])
      BY <1>10, <2>2 DEF B
    <3>2. n - 1 \in 0..(n - 1) /\ n - 1 \in I /\ n \in 1..k
      BY <2>2 DEF I
    <3>3. P(n - 1) /\ vals[n] \in Results
      BY <1>11, <3>2
    <3>4. \A i : i \in 1..n <=> i \in 1..(n - 1) \/ i = n
      BY <2>2
    <3>5. /\ red[n] \in Results
          /\ red[n] = "Ok" <=> red[n - 1] = "Ok" /\ vals[n] = "Ok"
          /\ red[n] = "Cancelled"
               => \/ red[n - 1] = "Cancelled" /\ vals[n] \in {"Ok", "Cancelled"}
                  \/ red[n - 1] = "Ok" /\ vals[n] = "Cancelled"
      BY <3>1, <3>3 DEF And, FirstError, Results, Errors
    <3> QED  BY <3>3, <3>4, <3>5
  <2> QED  BY <2>1, <2>2
<1>12. \A n \in Nat : n \in S
  <2> HIDE DEF S
  <2> QED  BY <1>11, StrongInduction
<1>13. P(k)
  <2>1. k \in I
    BY DEF I
  <2> QED  BY <1>12, <2>1
<1> QED  BY <1>9, <1>13

--------------------------------------------------------------------------------
(* What the state records about each tree.                                 *)

\* Leaf n of tree t has its program's outcome or is cancelled; the leaves have
\* results in order; from the first crash or cancellation on they are cancelled,
\* and the flag is up; only what follows answers is invoked.
LeavesOK(t) ==
  /\ \A n \in Leaves(forest[t]) :
       /\ leaf[t][n] \in {"None", "Cancelled", Outcome(answer[<<t, n>>])}
       /\ leaf[t][n] \in Dirty => cancelled
  /\ \A m, n \in Leaves(forest[t]) : m < n =>
       /\ leaf[t][n] # "None" => leaf[t][m] # "None"
       /\ leaf[t][m] \in Dirty => leaf[t][n] \in {"None", "Cancelled"}
       /\ n = invoking[t] => leaf[t][m] \in {"Ok", "Rejected"}
  /\ worker[t] = "waiting" => \A n \in Leaves(forest[t]) : leaf[t][n] = "None"

\* A tree is done when it has a value: it was cancelled as a whole, or its leaves
\* have results and were reduced.
DoneOK(t) ==
  /\ worker[t] # "done" => value[t] = "None"
  /\ worker[t] = "done" =>
       \/ /\ value[t] = "Cancelled" /\ cancelled
          /\ \A n \in Leaves(forest[t]) : leaf[t][n] = "None"
       \/ /\ value[t] = Reduce(forest[t], leaf[t])
          /\ \A n \in Leaves(forest[t]) : leaf[t][n] # "None"

\* The inductive invariant behind the verdict.
TInv ==
  /\ IInv
  /\ value \in [DOMAIN forest -> Results \cup {"None"}] /\ DOMAIN answer = LeafIds
  /\ \A t \in DOMAIN forest : LeavesOK(t) /\ DoneOK(t)
  /\ verdict # "None" => /\ \A t \in DOMAIN forest : worker[t] = "done"
                         /\ verdict = ReduceAll(value)

\* Nothing has happened yet.
LEMMA InitTInv == Init => TInv
<1> SUFFICES ASSUME Init PROVE TInv
  OBVIOUS
<1>1. IInv
  BY InitIInv
<1>2. value \in [DOMAIN forest -> Results \cup {"None"}] /\ DOMAIN answer = LeafIds
  BY DEF Init
<1>3. ASSUME NEW t \in DOMAIN forest PROVE LeavesOK(t) /\ DoneOK(t)
  <2>1. /\ worker[t] = "waiting" /\ value[t] = "None" /\ invoking[t] = 0
        /\ \A n \in Leaves(forest[t]) : leaf[t][n] = "None" /\ n # 0
    BY ForestsAssumption DEF Init, Leaves, IsTree
  <2> QED  BY <2>1 DEF LeavesOK, DoneOK, Dirty
<1>4. verdict = "None"
  BY DEF Init
<1> QED  BY <1>1, <1>2, <1>3, <1>4 DEF TInv

\* What a step of tree t leaves alone for the others: the flag only rises.
LEMMA OtherTree ==
  ASSUME NEW u, LeavesOK(u), DoneOK(u), cancelled => cancelled',
         UNCHANGED <<forest, answer>>, worker'[u] = worker[u],
         leaf'[u] = leaf[u], value'[u] = value[u], invoking'[u] = invoking[u]
  PROVE  LeavesOK(u)' /\ DoneOK(u)'
<1>1. LeavesOK(u)'
  BY DEF LeavesOK, Leaves
<1>2. DoneOK(u)'
  <2>1. (Reduce(forest[u], leaf[u]))' = Reduce(forest[u], leaf[u])
    BY DEF Reduce, Combine
  <2>2. worker'[u] # "done" => value'[u] = "None"
    BY DEF DoneOK
  <2> QED  BY <2>1, <2>2 DEF DoneOK, Leaves
<1> QED  BY <1>1, <1>2

\* The trees' part of the invariant is a matter of the tree that moves.
LEMMA OneTree ==
  ASSUME TInv, IInv', UNCHANGED <<forest, answer, verdict>>, NEW t \in DOMAIN forest,
         worker[t] # "done", value' \in [DOMAIN forest -> Results \cup {"None"}],
         cancelled => cancelled',
         \A u \in DOMAIN forest \ {t} :
           /\ worker'[u] = worker[u] /\ leaf'[u] = leaf[u]
           /\ value'[u] = value[u] /\ invoking'[u] = invoking[u],
         LeavesOK(t)', DoneOK(t)'
  PROVE  TInv'
<1>1. verdict' = "None"
  BY DEF TInv
<1>2. ASSUME NEW u \in DOMAIN forest' PROVE LeavesOK(u)' /\ DoneOK(u)'
  <2>1. CASE u = t
    BY <2>1
  <2>2. CASE u # t
    <3>1. LeavesOK(u) /\ DoneOK(u)
      BY DEF TInv
    <3> QED  BY <2>2, <3>1, OtherTree
  <2> QED  BY <2>1, <2>2
<1>3. /\ value' \in [DOMAIN forest' -> Results \cup {"None"}]
      /\ DOMAIN answer' = LeafIds'
  BY DEF TInv, LeafIds, Leaves
<1> QED  BY <1>1, <1>2, <1>3 DEF TInv

\* A tree taken up has no results yet, or is cancelled as a whole.
LEMMA StartTreeTInv ==
  ASSUME TInv, NEW t \in DOMAIN forest, StartTree(t)
  PROVE  TInv'
<1>0. IInv /\ LeavesOK(t) /\ DoneOK(t) /\ ShapeOK
  BY DEF TInv, IInv
<1>1. IInv'
  BY <1>0, StartTreeIInv
<1>2. /\ worker[t] = "waiting" /\ DOMAIN worker = DOMAIN forest
      /\ value \in [DOMAIN forest -> Results \cup {"None"}]
      /\ UNCHANGED <<forest, answer, invoking, leaf, cancelled, verdict>>
  BY <1>0 DEF StartTree, ShapeOK, TInv
<1>3. \/ cancelled /\ worker'[t] = "done" /\ value'[t] = "Cancelled"
      \/ worker'[t] = "running" /\ value'[t] = value[t]
  BY <1>2 DEF StartTree
<1>4. /\ value' \in [DOMAIN forest -> Results \cup {"None"}]
      /\ \A u \in DOMAIN forest \ {t} : worker'[u] = worker[u] /\ value'[u] = value[u]
  BY <1>2 DEF StartTree, Results, Errors
<1>5. LeavesOK(t)'
  BY <1>0, <1>2, <1>3 DEF LeavesOK, Leaves
<1>6. DoneOK(t)'
  BY <1>0, <1>2, <1>3 DEF LeavesOK, DoneOK, Leaves
<1> QED  BY <1>1, <1>2, <1>4, <1>5, <1>6, OneTree

\* A leaf is cancelled when the flag is up, after all leaves before it got their
\* results; it is invoked when the flag is down, so all these answered.
LEMMA CheckLeafTInv ==
  ASSUME TInv, NEW t \in DOMAIN forest, NEW n \in Leaves(forest[t]),
         CheckLeaf(t, n)
  PROVE  TInv'
<1>0. IInv /\ LeavesOK(t) /\ DoneOK(t) /\ ShapeOK
  BY DEF TInv, IInv
<1>1. IInv'
  BY <1>0, CheckLeafIInv
<1>2. /\ worker[t] = "running" /\ invoking[t] = 0 /\ leaf[t][n] = "None"
      /\ \A m \in Leaves(forest[t]) : m < n => leaf[t][m] # "None"
      /\ UNCHANGED <<forest, answer, worker, value, cancelled, verdict>>
      /\ value \in [DOMAIN forest -> Results \cup {"None"}]
  BY DEF CheckLeaf, NextLeaf, TInv
<1>3. \A m \in Leaves(forest[t]) : m \in Nat /\ m # 0
  BY <1>0, ForestsAssumption DEF ShapeOK, Leaves, IsTree
<1>4. /\ DOMAIN leaf = DOMAIN forest /\ DOMAIN invoking = DOMAIN forest
      /\ leaf[t] \in [Leaves(forest[t]) -> Results \cup {"None"}]
  BY <1>0 DEF ShapeOK
<1>5. DoneOK(t)'
  BY <1>0, <1>2 DEF DoneOK
<1>6. CASE cancelled
  <2>1. leaf' = [leaf EXCEPT ![t] = [leaf[t] EXCEPT ![n] = "Cancelled"]] /\ UNCHANGED invoking
    BY <1>6 DEF CheckLeaf
  <2>2. /\ leaf'[t][n] = "Cancelled"
        /\ \A m \in Leaves(forest[t]) \ {n} : leaf'[t][m] = leaf[t][m]
        /\ \A u \in DOMAIN forest \ {t} : leaf'[u] = leaf[u]
    BY <1>4, <2>1
  <2>3. \A m \in Leaves(forest[t]) : n < m => leaf[t][m] = "None"
    BY <1>0, <1>2 DEF LeavesOK
  <2>4. ASSUME NEW m \in Leaves(forest[t])
        PROVE  /\ leaf'[t][m] \in {"None", "Cancelled", Outcome(answer[<<t, m>>])}
               /\ leaf'[t][m] \in Dirty => cancelled
    BY <1>0, <1>6, <2>2 DEF LeavesOK
  <2>5. ASSUME NEW m \in Leaves(forest[t]), NEW k \in Leaves(forest[t]), m < k
        PROVE  /\ leaf'[t][k] # "None" => leaf'[t][m] # "None"
               /\ leaf'[t][m] \in Dirty => leaf'[t][k] \in {"None", "Cancelled"}
    <3>1. CASE m = n
      BY <2>2, <2>3, <2>5, <3>1, <1>3
    <3>2. CASE k = n
      BY <1>2, <1>3, <2>2, <2>5, <3>2
    <3>3. CASE m # n /\ k # n
      BY <1>0, <2>2, <2>5, <3>3 DEF LeavesOK
    <3> QED  BY <3>1, <3>2, <3>3
  <2>6. LeavesOK(t)'
    BY <1>2, <1>3, <2>1, <2>4, <2>5 DEF LeavesOK, Leaves
  <2> QED  BY <1>1, <1>2, <1>5, <2>1, <2>2, <2>6, OneTree
<1>7. CASE ~cancelled
  <2>1. invoking' = [invoking EXCEPT ![t] = n] /\ UNCHANGED leaf
    BY <1>7 DEF CheckLeaf
  <2>2. invoking'[t] = n /\ \A u \in DOMAIN forest \ {t} : invoking'[u] = invoking[u]
    BY <1>4, <2>1
  <2>3. ASSUME NEW m \in Leaves(forest[t]), m < n
        PROVE  leaf[t][m] \in {"Ok", "Rejected"}
    <3>1. leaf[t][m] \notin Dirty /\ leaf[t][m] # "None"
      BY <1>0, <1>2, <1>7, <2>3 DEF LeavesOK
    <3> QED  BY <1>4, <3>1 DEF Results, Errors, Dirty
  <2>4. LeavesOK(t)'
    BY <1>0, <1>2, <2>1, <2>2, <2>3 DEF LeavesOK, Leaves
  <2> QED  BY <1>1, <1>2, <1>5, <2>1, <2>2, <2>4, OneTree
<1> QED  BY <1>6, <1>7

\* An invocation gives its leaf the program's outcome, and raises the flag with it
\* when that is a crash.
LEMMA InvokeLeafTInv ==
  ASSUME TInv, NEW t \in DOMAIN forest, InvokeLeaf(t)
  PROVE  TInv'
<1>0. IInv /\ LeavesOK(t) /\ DoneOK(t) /\ ShapeOK
  BY DEF TInv, IInv
<1>1. IInv'
  BY <1>0, InvokeLeafIInv
<1> DEFINE n == invoking[t]
           a == answer[<<t, n>>]
<1>2. /\ n \in Leaves(forest[t]) /\ leaf[t][n] = "None" /\ worker[t] = "running"
      /\ a \in Answers
      /\ DOMAIN leaf = DOMAIN forest /\ DOMAIN invoking = DOMAIN forest
      /\ leaf[t] \in [Leaves(forest[t]) -> Results \cup {"None"}]
      /\ value \in [DOMAIN forest -> Results \cup {"None"}]
  BY <1>0 DEF ShapeOK, InvokeLeaf, TInv
<1>3. /\ leaf' = [leaf EXCEPT ![t] = [leaf[t] EXCEPT ![n] = Outcome(a)]]
      /\ cancelled' = (cancelled \/ a = "crash")
      /\ invoking' = [invoking EXCEPT ![t] = 0]
      /\ UNCHANGED <<forest, answer, worker, value, verdict>>
  BY DEF InvokeLeaf
<1>4. \A m \in Leaves(forest[t]) : m \in Nat /\ m # 0
  BY <1>0, ForestsAssumption DEF ShapeOK, Leaves, IsTree
<1>5. Outcome(a) \in {"Ok", "Rejected", "Crashed"} /\ (Outcome(a) = "Crashed" => a = "crash")
  BY <1>2 DEF Outcome, Answers
<1>6. /\ leaf'[t][n] = Outcome(a) /\ invoking'[t] = 0
      /\ \A m \in Leaves(forest[t]) \ {n} : leaf'[t][m] = leaf[t][m]
      /\ \A u \in DOMAIN forest \ {t} : leaf'[u] = leaf[u] /\ invoking'[u] = invoking[u]
  BY <1>2, <1>3
<1> HIDE DEF n
<1>7. DoneOK(t)'
  BY <1>0, <1>2, <1>3 DEF DoneOK
<1>8. \A m \in Leaves(forest[t]) :
        /\ n < m => leaf[t][m] = "None"
        /\ m < n => leaf[t][m] \in {"Ok", "Rejected"}
  BY <1>0, <1>2 DEF LeavesOK, n
<1>9. ASSUME NEW m \in Leaves(forest[t])
      PROVE  /\ leaf'[t][m] \in {"None", "Cancelled", Outcome(answer[<<t, m>>])}
             /\ leaf'[t][m] \in Dirty => cancelled'
  <2>1. CASE m = n
    BY <1>3, <1>5, <1>6, <2>1 DEF Dirty
  <2>2. CASE m # n
    BY <1>0, <1>3, <1>6, <2>2 DEF LeavesOK
  <2> QED  BY <2>1, <2>2
<1>10. ASSUME NEW m \in Leaves(forest[t]), NEW k \in Leaves(forest[t]), m < k
       PROVE  /\ leaf'[t][k] # "None" => leaf'[t][m] # "None"
              /\ leaf'[t][m] \in Dirty => leaf'[t][k] \in {"None", "Cancelled"}
  <2>1. CASE m = n
    BY <1>4, <1>6, <1>8, <1>10, <2>1
  <2>2. CASE k = n
    BY <1>4, <1>6, <1>8, <1>10, <2>2 DEF Dirty
  <2>3. CASE m # n /\ k # n
    BY <1>0, <1>6, <1>10, <2>3 DEF LeavesOK
  <2> QED  BY <2>1, <2>2, <2>3
<1>11. LeavesOK(t)'
  BY <1>2, <1>3, <1>4, <1>6, <1>9, <1>10 DEF LeavesOK, Leaves
<1> QED  BY <1>1, <1>2, <1>3, <1>6, <1>7, <1>11, OneTree

\* A reduced tree keeps its leaves.
LEMMA ReduceTreeTInv ==
  ASSUME TInv, NEW t \in DOMAIN forest, ReduceTree(t)
  PROVE  TInv'
<1>0. IInv /\ LeavesOK(t) /\ DoneOK(t) /\ ShapeOK
  BY DEF TInv, IInv
<1>1. IInv'
  BY <1>0, ReduceTreeIInv
<1>2. /\ worker[t] = "running" /\ \A n \in Leaves(forest[t]) : leaf[t][n] # "None"
      /\ DOMAIN worker = DOMAIN forest
      /\ value \in [DOMAIN forest -> Results \cup {"None"}]
      /\ UNCHANGED <<forest, answer, invoking, leaf, cancelled, verdict>>
      /\ value' = [value EXCEPT ![t] = Reduce(forest[t], leaf[t])]
      /\ worker' = [worker EXCEPT ![t] = "done"]
  BY <1>0 DEF ReduceTree, ShapeOK, TInv
<1>3. /\ worker'[t] = "done" /\ value'[t] = Reduce(forest[t], leaf[t])
      /\ value' \in [DOMAIN forest -> Results \cup {"None"}]
      /\ \A u \in DOMAIN forest \ {t} : worker'[u] = worker[u] /\ value'[u] = value[u]
  <2>1. IsTree(forest[t]) /\ leaf[t] \in [Leaves(forest[t]) -> Results]
    <3>1. IsTree(forest[t])
      BY <1>0, ForestsAssumption DEF ShapeOK
    <3>2. leaf[t] \in [Leaves(forest[t]) -> Results \cup {"None"}]
      BY <1>0 DEF ShapeOK
    <3> QED  BY <1>2, <3>1, <3>2
  <2>2. Reduce(forest[t], leaf[t]) \in Results
    BY <2>1, ReductionExists, TreeShape DEF Reduction
  <2> QED  BY <1>2, <2>2
<1>4. LeavesOK(t)'
  BY <1>0, <1>2, <1>3 DEF LeavesOK, Leaves
<1>5. DoneOK(t)'
  <2>1. (Reduce(forest[t], leaf[t]))' = Reduce(forest[t], leaf[t])
    BY <1>2 DEF Reduce, Combine
  <2> QED  BY <1>2, <1>3, <2>1 DEF DoneOK, Leaves
<1> QED  BY <1>1, <1>2, <1>3, <1>4, <1>5, OneTree

\* The call returns when all trees are done; a stuttering step changes nothing.
LEMMA ReturnTInv ==
  ASSUME TInv, Return \/ UNCHANGED vars
  PROVE  TInv'
<1>1. UNCHANGED <<forest, answer, worker, invoking, leaf, value, cancelled>>
  BY DEF Return, vars
<1>2. IInv'
  BY <1>1, IdleIInv DEF TInv
<1>3. ASSUME NEW u \in DOMAIN forest' PROVE LeavesOK(u)' /\ DoneOK(u)'
  BY <1>1, OtherTree DEF TInv
<1>4. /\ value' \in [DOMAIN forest' -> Results \cup {"None"}]
      /\ DOMAIN answer' = LeafIds'
  BY <1>1 DEF TInv, LeafIds, Leaves
<1>5. verdict' # "None" => /\ \A t \in DOMAIN forest' : worker'[t] = "done"
                           /\ verdict' = (ReduceAll(value))'
  <2>1. (ReduceAll(value))' = ReduceAll(value)
    BY <1>1 DEF ReduceAll, And, FirstError
  <2> QED  BY <1>1, <2>1 DEF Return, vars, TInv
<1> QED  BY <1>2, <1>3, <1>4, <1>5 DEF TInv

\* So the invariant is kept by every step.
LEMMA NextTInv == TInv /\ [Next]_vars => TInv'
<1> SUFFICES ASSUME TInv, [Next]_vars PROVE TInv'
  OBVIOUS
<1>1. CASE \E t \in DOMAIN forest : StartTree(t)
  BY <1>1, StartTreeTInv
<1>2. CASE \E t \in DOMAIN forest : \E n \in Leaves(forest[t]) : CheckLeaf(t, n)
  BY <1>2, CheckLeafTInv
<1>3. CASE \E t \in DOMAIN forest : InvokeLeaf(t)
  BY <1>3, InvokeLeafTInv
<1>4. CASE \E t \in DOMAIN forest : ReduceTree(t)
  BY <1>4, ReduceTreeTInv
<1>5. CASE Return \/ UNCHANGED vars
  BY <1>5, ReturnTInv
<1> QED  BY <1>1, <1>2, <1>3, <1>4, <1>5 DEF Next

--------------------------------------------------------------------------------
(* What the verdict says.                                                  *)

\* In no tree that may be evaluated can a crash hide.
NothingMasked == \A f \in Forests : \A t \in DOMAIN f : Unmasked(f[t])

\* What the result of a tree that is done says about its leaves.
LEMMA DoneTree ==
  ASSUME TInv, NothingMasked, NEW t \in DOMAIN forest, worker[t] = "done",
         \A n \in Leaves(forest[t]) : leaf[t][n] # "None",
         value[t] = Reduce(forest[t], leaf[t])
  PROVE  /\ value[t] \in Results
         /\ Telling(leaf[t], Leaves(forest[t]), value[t])
         /\ (\A n \in Leaves(forest[t]) : leaf[t][n] \notin Dirty)
              => (value[t] = "Ok" <=> Truth(t))
<1>1. IsTree(forest[t]) /\ Unmasked(forest[t])
  BY ForestsAssumption DEF TInv, IInv, ShapeOK, NothingMasked
<1>2. leaf[t] \in [Leaves(forest[t]) -> Results]
  BY DEF TInv, IInv, ShapeOK
<1>3. LeavesOK(t)
  BY DEF TInv
<1>4. Ordered(forest[t], leaf[t])
  BY <1>3 DEF LeavesOK, Ordered
<1>5. ASSUME NEW n \in Leaves(forest[t]), leaf[t][n] \notin Dirty
      PROVE  \/ leaf[t][n] = "Ok" /\ answer[<<t, n>>] = "true"
             \/ leaf[t][n] = "Rejected" /\ answer[<<t, n>>] # "true"
  <2>1. answer[<<t, n>>] \in Answers
    BY DEF TInv, IInv, ShapeOK
  <2>2. leaf[t][n] = Outcome(answer[<<t, n>>])
    BY <1>3, <1>5 DEF LeavesOK, Dirty
  <2> QED  BY <1>5, <2>1, <2>2 DEF Outcome, Answers, Dirty
<1> QED  BY <1>1, <1>2, <1>4, <1>5, TreeResult

\* The verdict is a result other than Cancelled, and Ok exactly when every tree is
\* true and no predicate crashes.
LEMMA VerdictTells ==
  ASSUME TInv, NothingMasked, \A t \in DOMAIN forest : worker[t] = "done"
  PROVE  /\ ReduceAll(value) \in Results /\ ReduceAll(value) # "Cancelled"
         /\ ReduceAll(value) = "Ok" <=> AllTrue
<1> DEFINE k == Len(forest)
           Whole(t) == /\ value[t] = "Cancelled" /\ cancelled
                       /\ \A n \in Leaves(forest[t]) : leaf[t][n] = "None"
           Reduced(t) == /\ value[t] = Reduce(forest[t], leaf[t])
                         /\ \A n \in Leaves(forest[t]) : leaf[t][n] # "None"
<1>1. k \in Nat /\ DOMAIN forest = 1..k /\ \A t \in 1..k : IsTree(forest[t])
  BY ForestsAssumption DEF TInv, IInv, ShapeOK
<1>2. \A t \in 1..k : Whole(t) \/ Reduced(t)
  BY <1>1 DEF TInv, DoneOK
<1>3. \A t \in 1..k : Reduced(t)
        => /\ value[t] \in Results
           /\ Telling(leaf[t], Leaves(forest[t]), value[t])
           /\ (\A n \in Leaves(forest[t]) : leaf[t][n] \notin Dirty)
                => (value[t] = "Ok" <=> Truth(t))
  BY <1>1, DoneTree
<1>4. cancelled => \E t \in 1..k : \E n \in Leaves(forest[t]) : leaf[t][n] = "Crashed"
  BY <1>1 DEF TInv, IInv, NoSpuriousCancel, SomeCrash
<1>5. \A t \in 1..k : \A n \in Leaves(forest[t]) :
        /\ leaf[t][n] \in {"None", "Cancelled", Outcome(answer[<<t, n>>])}
        /\ leaf[t][n] \in Dirty => cancelled
        /\ answer[<<t, n>>] \in Answers
  BY <1>1 DEF TInv, LeavesOK, IInv, ShapeOK
<1>6. \A x : x \in DOMAIN answer <=> \E t \in 1..k : \E n \in Leaves(forest[t]) : x = <<t, n>>
  BY <1>1 DEF TInv, LeafIds
<1>7. value \in [1..k -> Results]
  <2>1. \A t \in 1..k : value[t] \in Results
    BY <1>2, <1>3 DEF Results, Errors
  <2> QED  BY <1>1, <2>1 DEF TInv
<1>8. /\ ReduceAll(value) \in Results
      /\ ReduceAll(value) = "Ok" <=> \A n \in 1..k : value[n] = "Ok"
      /\ ReduceAll(value) = "Cancelled"
           => /\ \E n \in 1..k : value[n] = "Cancelled"
              /\ \A n \in 1..k : value[n] \in {"Ok", "Cancelled"}
  BY <1>1, <1>7, ForestResult
<1> HIDE DEF k, Whole, Reduced
\* A crashed leaf is in a tree that was reduced, to another error.
<1>9. cancelled => \E t \in 1..k : value[t] \in {"Rejected", "Crashed"}
  <2> SUFFICES ASSUME cancelled PROVE \E t \in 1..k : value[t] \in {"Rejected", "Crashed"}
    OBVIOUS
  <2>1. PICK t \in 1..k : \E n \in Leaves(forest[t]) : leaf[t][n] = "Crashed"
    BY <1>4
  <2>2. Reduced(t)
    BY <1>2, <2>1 DEF Whole
  <2> QED  BY <1>3, <2>1, <2>2 DEF Telling
<1>10. \A t \in 1..k : value[t] = "Cancelled" => cancelled
  <2> SUFFICES ASSUME NEW t \in 1..k, value[t] = "Cancelled" PROVE cancelled
    OBVIOUS
  <2>1. CASE Whole(t)
    BY <2>1 DEF Whole
  <2>2. CASE Reduced(t)
    <3>1. \E n \in Leaves(forest[t]) : leaf[t][n] = "Cancelled"
      BY <1>3, <2>2 DEF Telling
    <3> QED  BY <1>5, <3>1 DEF Dirty
  <2> QED  BY <1>2, <2>1, <2>2
<1>11. ReduceAll(value) # "Cancelled"
  BY <1>8, <1>9, <1>10
<1>12. (\A t \in 1..k : value[t] = "Ok") => AllTrue
  <2> SUFFICES ASSUME \A t \in 1..k : value[t] = "Ok" PROVE AllTrue
    OBVIOUS
  <2>1. \A t \in 1..k : Reduced(t)
    BY <1>2 DEF Whole
  <2>2. \A t \in 1..k : \A n \in Leaves(forest[t]) : leaf[t][n] \notin Dirty /\ leaf[t][n] # "None"
    BY <1>3, <2>1 DEF Telling, Reduced
  <2>3. \A t \in 1..k : Truth(t)
    BY <1>3, <2>1, <2>2
  <2>4. \A t \in 1..k : \A n \in Leaves(forest[t]) : answer[<<t, n>>] # "crash"
    BY <1>5, <2>2 DEF Outcome, Dirty
  <2> QED  BY <1>1, <1>6, <2>3, <2>4 DEF AllTrue, k
<1>13. AllTrue => \A t \in 1..k : value[t] = "Ok"
  <2> SUFFICES ASSUME AllTrue, NEW t \in 1..k PROVE value[t] = "Ok"
    OBVIOUS
  <2>1. \A u \in 1..k : \A n \in Leaves(forest[u]) : answer[<<u, n>>] # "crash"
    BY <1>6 DEF AllTrue
  <2>2. \A u \in 1..k : \A n \in Leaves(forest[u]) : leaf[u][n] # "Crashed"
    <3>1. \A a \in Answers : a # "crash" => Outcome(a) # "Crashed"
      BY DEF Outcome, Answers
    <3> QED  BY <1>5, <2>1, <3>1
  <2>3. ~cancelled
    BY <1>4, <2>2
  <2>4. Reduced(t)
    BY <1>2, <2>3 DEF Whole
  <2>5. \A n \in Leaves(forest[t]) : leaf[t][n] \notin Dirty
    BY <1>5, <2>3
  <2>6. Truth(t)
    BY <1>1 DEF AllTrue, k
  <2> QED  BY <1>3, <2>4, <2>5, <2>6
<1> QED  BY <1>8, <1>11, <1>12, <1>13

LEMMA TInvHolds == Spec => []TInv
<1> QED  BY InitTInv, NextTInv, PTL DEF Spec

(***************************************************************************)
(* However many trees and workers there are and whenever the flag is       *)
(* raised, a call that fails says why: parallel_invoke_predicates          *)
(* (execution.rs:133-167) never returns Error::Cancelled, for forests in   *)
(* which a crash cannot hide behind a rejection.                           *)
(***************************************************************************)
THEOREM FailuresHaveReason == NothingMasked => (Spec => []FailureHasReason)
<1> SUFFICES ASSUME NothingMasked PROVE Spec => []FailureHasReason
  OBVIOUS
<1>1. TInv => FailureHasReason
  BY VerdictTells DEF TInv, FailureHasReason
<1> QED  BY <1>1, TInvHolds, PTL

(***************************************************************************)
(* For the same forests the call implements its promise, but for returning *)
(* at all: it returns at most once, and Ok exactly when every tree is true *)
(* and no predicate crashes, so the verdict does not depend on timing.     *)
(***************************************************************************)
THEOREM VerdictIsTheTruth == NothingMasked => (Spec => Promise!Safety)
<1> SUFFICES ASSUME NothingMasked PROVE Spec => Promise!Safety
  OBVIOUS
<1> DEFINE bar == IF verdict \in Errors THEN "Err" ELSE verdict
<1>1. Init => Promise!Init
  <2> SUFFICES ASSUME Init PROVE AllTrue \in BOOLEAN /\ bar = "None"
    BY DEF Promise!Init
  <2>1. AllTrue \in BOOLEAN
    BY DEF AllTrue
  <2>2. bar = "None"
    BY DEF Init, Errors
  <2> QED  BY <2>1, <2>2
<1>2. ASSUME TInv, [Next]_vars PROVE [Promise!Decide]_<<AllTrue, bar>>
  <2>1. UNCHANGED <<forest, answer>>
    BY <1>2 DEF Next, StartTree, CheckLeaf, InvokeLeaf, ReduceTree, Return, vars
  <2>2. AllTrue' = AllTrue
    BY <2>1 DEF AllTrue, Truth, NodeTruth
  <2>3. CASE UNCHANGED verdict
    BY <2>2, <2>3
  <2>4. CASE Return
    <3>1. ReduceAll(value) \in Results /\ (ReduceAll(value) = "Ok" <=> AllTrue)
      BY <1>2, <2>4, VerdictTells DEF Return
    <3>2. verdict = "None" /\ verdict' = ReduceAll(value)
      BY <2>4 DEF Return
    <3>3. bar = "None" /\ bar' = IF AllTrue THEN "Ok" ELSE "Err"
      BY <3>1, <3>2 DEF Results, Errors
    <3> QED  BY <2>2, <3>3 DEF Promise!Decide
  <2> QED  BY <1>2, <2>3, <2>4
           DEF Next, StartTree, CheckLeaf, InvokeLeaf, ReduceTree, vars
<1> QED  BY <1>1, <1>2, TInvHolds, PTL DEF Spec, Promise!Safety
================================================================================
