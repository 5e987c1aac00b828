------------------------------- MODULE Schedule --------------------------------
(***************************************************************************)
(* execute_many of vm/src/schedule.rs and the use BlockStateBuilder makes  *)
(* of it (sdk/offchain/src/builder.rs, consume): the transactions of a     *)
(* block are arranged in dependency trees, the trees run in parallel, the  *)
(* transactions in one row of a tree run in parallel against the state     *)
(* before the block overlaid with the diffs of the earlier rows, and the   *)
(* diffs of the successful ones are merged in block order and applied.     *)
(***************************************************************************)
EXTENDS Transactions, Naturals, Sequences, SequencesExt

CONSTANTS Genesis,    \* the first state
          Blocks,     \* the blocks that may arrive: sequences of transactions
          MaxHeight,  \* bound on the number of blocks
          Pending     \* a transaction without a result yet

ASSUME ScheduleAssumption ==
  /\ Genesis \in Store
  /\ Failed # Pending /\ Failed \notin Diff /\ Pending \notin Diff
  /\ \A a \in Addr : Ancestors[a] \subseteq Addr
  /\ \A acc \in Account : AccountRefs(acc.preds) \subseteq Addr
  /\ \A b \in Blocks : /\ Len(b) \in Nat /\ DOMAIN b = 1..Len(b)
                       /\ \A i \in DOMAIN b : WellFormed(b[i])

VARIABLES state,    \* BlockStateBuilder.state
          height,   \* number of blocks consumed
          block,    \* the transactions being executed, or <<>>
          graph,    \* Schedule.graph: the edges between positions
          trees,    \* per root of Schedule.roots: the rows of its tree
          cell,     \* Schedule.graph nodes: the transactions not yet taken
          row,      \* per tree root: the row being executed, as positions
          acc,      \* per tree root: Tree::run's acc_state
          result,   \* per transaction: its execution result
          panicked  \* an expect() of schedule.rs failed

vars == <<state, height, block, graph, trees, cell, row, acc, result, panicked>>

--------------------------------------------------------------------------------
(* The dependency graph of a block (Schedule::new).                        *)

EarlierDeps(b, s, i) ==
  {j \in 1..(i - 1) : DependsOn(Refs(b[i], s), Refs(b[j], s))}

\* Mutant: an edge from every dependency (no break 'inner)
EdgesToAll(b, s) ==
  UNION {{<<j, i>> : j \in EarlierDeps(b, s, i)} : i \in DOMAIN b}

\* An edge from the closest earlier transaction that i depends on.
Edges(b, s) ==
  UNION {{<<j, i>> : j \in {k \in EarlierDeps(b, s, i) :
                              \A m \in EarlierDeps(b, s, i) : m <= k}} :
           i \in DOMAIN b}

\* Mutant: every transaction starts a tree of its own
RootsAll(n, g) == 1..n

\* The nodes connected with i (union-find over the edges).
Component(n, g, i) ==
  LET linked[k \in 0..n] ==
        IF k = 0 THEN {i}
        ELSE LET S == linked[k - 1]
             IN {j \in 1..n : j \in S \/ \E m \in S : {<<j, m>>, <<m, j>>} \cap g # {}}
  IN linked[n]

\* From i up along incoming edges until there is none.
Topmost(n, g, i) ==
  LET up[m \in 1..n] ==
        LET sources == {j \in 1..n : <<j, m>> \in g}
        IN IF sources = {} THEN m ELSE up[Max(sources)]
  IN up[i]

\* Schedule::roots: one node per connected component, moved up.
Roots(n, g) == {Topmost(n, g, Min(Component(n, g, i))) : i \in 1..n}

\* The successors of node i that are not discovered yet, in the order of the graph.
Successors(n, g, i, seen) ==
  LET succ[m \in 0..n] ==
        IF m = 0 THEN <<>>
        ELSE IF <<i, m>> \in g /\ m \notin seen THEN Append(succ[m - 1], m)
        ELSE succ[m - 1]
  IN succ[n]

\* The row after r, in the order of the queue.
NextRow(n, g, r, seen) ==
  LET out[m \in 0..Len(r)] ==
        IF m = 0 THEN <<>>
        ELSE out[m - 1] \o Successors(n, g, r[m], seen \cup ToSet(out[m - 1]))
  IN out[Len(r)]

\* BfsRows: the nodes at each distance from the root, and empty rows behind them.
Rows(n, g, root) ==
  LET rows[k \in 1..(n + 1)] ==
        IF k = 1 THEN <<root>>
        ELSE NextRow(n, g, rows[k - 1], UNION {ToSet(rows[j]) : j \in 1..(k - 1)})
  IN rows

--------------------------------------------------------------------------------
Init ==
  /\ state = Genesis
  /\ height = 0
  /\ block = <<>>
  /\ graph = {}
  /\ trees = <<>>
  /\ cell = {}
  /\ row = <<>>
  /\ acc = <<>>
  /\ result = <<>>
  /\ panicked = FALSE

Idle == block = <<>>

\* BlockStateBuilder::consume accepts a block and execute_many schedules it.
StartBlock(b) ==
  /\ Idle /\ ~panicked /\ height < MaxHeight
  /\ block' = b
  /\ cell' = DOMAIN b
  /\ graph' = Edges(b, state)
  /\ trees' = [r \in Roots(Len(b), graph') |-> Rows(Len(b), graph', r)]
  /\ row' = [r \in DOMAIN trees' |-> [ix |-> 0, txs |-> {}]]
  /\ acc' = [r \in DOMAIN trees' |-> EmptyDiff]
  /\ result' = [i \in DOMAIN b |-> Pending]
  /\ UNCHANGED <<state, height, panicked>>

\* BfsRows::next returned None: the row is empty.
TreeDone(r) == row[r].ix > 0 /\ trees[r][row[r].ix] = <<>>

\* Tree::run takes the transactions of the next row out of the graph; taking
\* one twice panics ("transaction visited more than once").
TakeRow(r) ==
  /\ ~panicked
  /\ row[r].txs = {} /\ ~TreeDone(r)
  /\ LET ix  == row[r].ix + 1
         txs == ToSet(trees[r][ix])
     IN /\ panicked' = ~(txs \subseteq cell /\ IsInjective(trees[r][ix]))
        /\ cell' = cell \ txs
        /\ row' = [row EXCEPT ![r] = [ix |-> ix, txs |-> txs]]
  /\ UNCHANGED <<state, height, block, graph, trees, acc, result>>

\* One transaction of the row is executed by some worker, against the state
\* before the block overlaid with what the tree has accumulated.
RunTx(r, i) ==
  /\ ~panicked
  /\ i \in row[r].txs /\ result[i] = Pending
  /\ result' = [result EXCEPT ![i] = Execute(block[i], OverlayView(state, acc[r]))]
  /\ UNCHANGED <<state, height, block, graph, trees, cell, row, acc, panicked>>

\* The successful diffs of positions ixs, merged in that order.
MergeOk(d, ixs) ==
  LET merged[n \in 0..Len(ixs)] ==
        IF n = 0 THEN d
        ELSE IF result[ixs[n]] = Failed THEN merged[n - 1]
        ELSE Merge(merged[n - 1], result[ixs[n]])
  IN merged[Len(ixs)]

\* Mutant: the rows of a tree do not see each other
FinishRowForgets(r) ==
  /\ ~panicked
  /\ row[r].txs # {} /\ \A i \in row[r].txs : result[i] # Pending
  /\ row' = [row EXCEPT ![r].txs = {}]
  /\ UNCHANGED <<state, height, block, graph, trees, cell, acc, result, panicked>>

\* Mutant: a row waits for the whole block
FinishRowAfterBlock(r) ==
  /\ ~panicked
  /\ row[r].txs # {} /\ \A i \in DOMAIN block : result[i] # Pending
  /\ acc' = [acc EXCEPT ![r] = MergeOk(@, trees[r][row[r].ix])]
  /\ row' = [row EXCEPT ![r].txs = {}]
  /\ UNCHANGED <<state, height, block, graph, trees, cell, result, panicked>>

\* When the row's transactions have all returned, their diffs join acc_state.
FinishRow(r) ==
  /\ ~panicked
  /\ row[r].txs # {} /\ \A i \in row[r].txs : result[i] # Pending
  /\ acc' = [acc EXCEPT ![r] = MergeOk(@, trees[r][row[r].ix])]
  /\ row' = [row EXCEPT ![r].txs = {}]
  /\ UNCHANGED <<state, height, block, graph, trees, cell, result, panicked>>

\* Mutant: results merged as the trees return them (no sort_by)
BlockDiffByTree ==
  MergeOk(EmptyDiff, FlattenSeq([k \in 1..Cardinality(DOMAIN trees) |->
            FlattenSeq(trees[SetToSortSeq(DOMAIN trees, >)[k]])]))

\* The block's diff: results sorted by position, the successful ones merged.
BlockDiff == MergeOk(EmptyDiff, [i \in DOMAIN block |-> i])

\* Every tree has run: consume applies the merged diff to the state.
Commit ==
  /\ ~panicked /\ ~Idle
  /\ \A r \in DOMAIN row : TreeDone(r)
  /\ state' = StoreApply(state, BlockDiff)
  /\ height' = height + 1
  /\ block' = <<>>
  /\ graph' = {} /\ trees' = <<>>
  /\ cell' = {} /\ row' = <<>> /\ acc' = <<>> /\ result' = <<>>
  /\ UNCHANGED panicked

Next ==
  \/ \E b \in Blocks : StartBlock(b)
  \/ \E r \in DOMAIN row : TakeRow(r)
  \/ \E r \in DOMAIN row : \E i \in row[r].txs : RunTx(r, i)
  \/ \E r \in DOMAIN row : FinishRow(r)
  \/ Commit

\* rayon's workers and the block loop keep running.
Fairness ==
  /\ WF_vars(\E r \in DOMAIN row : TakeRow(r))
  /\ WF_vars(\E r \in DOMAIN row : \E i \in row[r].txs : RunTx(r, i))
  /\ WF_vars(\E r \in DOMAIN row : FinishRow(r))
  /\ WF_vars(Commit)

Spec == Init /\ [][Next]_vars /\ Fairness

--------------------------------------------------------------------------------
\* Every tree of the block has run: execute_many returns.
AllRun == ~Idle /\ \A r \in DOMAIN row : TreeDone(r)

(***************************************************************************)
(* "transaction visited more than once" (schedule.rs:88) is unreachable:   *)
(* the trees handed to the workers share no transaction.                   *)
(***************************************************************************)
NeverVisitedTwice == ~panicked

(***************************************************************************)
(* execute_many returns one result per transaction (schedule.rs:34-36):    *)
(* no transaction of the block is left out of the trees.                   *)
(***************************************************************************)
EveryTxHasResult == AllRun => \A i \in DOMAIN block : result[i] # Pending

\* Executing the block one transaction after the other, the reference.
SerialRun(b, s) ==
  LET run[i \in 0..Len(b)] ==
        IF i = 0 THEN [st |-> s, res |-> <<>>]
        ELSE LET r == Execute(b[i], run[i - 1].st)
             IN [st  |-> IF r = Failed THEN run[i - 1].st
                         ELSE StoreApply(run[i - 1].st, r),
                 res |-> Append(run[i - 1].res, r)]
  IN run

(***************************************************************************)
(* "Runs multiple transactions in parallel, while preserving read/write    *)
(* dependency ordering" (schedule.rs:30-36): the results are those of the  *)
(* block executed in order.                                                *)
(***************************************************************************)
Serializable == AllRun => result = SerialRun(block, state)[Len(block)].res

\* The transactions above i in its tree.
Above(i) ==
  LET up[k \in DOMAIN block] ==
        UNION {{j} \cup up[j] : j \in {m \in DOMAIN block : <<m, k>> \in graph}}
  IN up[i]

SameTree(i, j) == ({i} \cup Above(i)) \cap ({j} \cup Above(j)) # {}

\* The schedule accounts for every conflict of the block: what a transaction
\* looks at was last written, without deletes, by transactions above it in its
\* tree, and is not overwritten in an earlier row by a later transaction.
Covered ==
  LET run == SerialRun(block, state)
      res == run[Len(block)].res
      depth(i) == Cardinality(Above(i))
  IN \A i, j \in DOMAIN block :
       LET seen == Writes(block[j]) \cap Touched(block[i], run[i - 1].st)
       IN i # j /\ seen # {} /\ res[j] # Failed
          => \/ j < i /\ j \in Above(i) /\ seen \cap res[j].deletes = {}
             \/ j > i /\ ~(SameTree(i, j) /\ depth(j) < depth(i))

(***************************************************************************)
(* What execute_many does guarantee: a block of which the schedule covers  *)
(* every conflict has exactly the results, and leaves exactly the state,   *)
(* of its execution in order, whatever the interleaving of the workers.    *)
(***************************************************************************)
SerializableWhenCovered ==
  AllRun /\ Covered =>
    LET serial == SerialRun(block, state)[Len(block)]
    IN /\ result = serial.res
       /\ StoreApply(state, BlockDiff) = serial.st

(***************************************************************************)
(* For every block, covered or not: an account the block changes ends as   *)
(* its last successful writer in block order left it (schedule.rs:163 sorts *)
(* the results before builder.rs:114-118 merges them).                     *)
(***************************************************************************)
LastWriterWins ==
  AllRun =>
    \A a \in Addr :
      LET writers == {i \in DOMAIN block :
                        /\ result[i] \notin {Failed, Pending}
                        /\ a \in Writes(block[i])}
      IN writers # {} =>
           StoreApply(state, BlockDiff)[a] = result[Max(writers)].upserts[a]

(***************************************************************************)
(* A block whose execution began is committed: rows never wait for each    *)
(* other in a cycle.                                                       *)
(***************************************************************************)
EveryBlockCommits == ~Idle ~> Idle
================================================================================
