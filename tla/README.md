# TLA+ models of anoma-alpha

This directory models the parts of anoma-alpha in which several threads, tasks
or machines have to agree: the execution of a block, the chain as its followers
see it, the peer-to-peer layer from the overlay down to a connection, and a token
governed by predicates and signed intents. Paths below are relative to the root of the
repository.

## The system

Clients send *intents* and *transactions* over a gossip network. A producer
(`sdk/devnode`) collects the transactions in blocks, executes them and gossips
the blocks; every follower (`sdk/offchain`) executes the same blocks to keep a
state of its own. A transaction proposes changes of accounts; it is accepted if
the predicates of the accounts, of their ancestors and of its intents are all
true.

| Component | State | Operations | What is hard about it |
|---|---|---|---|
| State diffs and stores (`vm/src/state.rs`) | upserts, deletes; the accounts | set, remove, merge, get, apply, overlay | an upsert and a delete of the same address meeting in one diff |
| Execution of a transaction (`vm/src/execution.rs`, `collect.rs`) | none | outputs, collection and expansion of predicates | what is read depends on the state |
| Predicate evaluation (`execution.rs`, `primitives/src/predicate.rs`) | results per tree, cancellation flag | map, invoke, not/and/or, reduce | parallel workers, cancellation while others run |
| Block scheduler (`vm/src/schedule.rs`) | dependency graph, accumulated diffs | edges, roots, rows, run | parallel trees and rows, conflicts between transactions |
| Block state builder (`sdk/offchain/src/builder.rs`) | state, recent blocks | consume | blocks lost, repeated, reordered |
| Watcher (`sdk/offchain/src/watcher.rs`) | watchlist | await_intent/_transaction/_account_change, signal | a waiter that registers too late, two waiters for a key |
| Producer (`sdk/devnode`) | mempool | consume, produce | must never refuse its own block |
| Topic (`network/src/topic.rs`) | active and passive view, operations in flight | nine handlers, maintenance tick | late effects of disconnects, several connections per peer, expiry, views at their limits |
| Network and muxer (`network/src/network.rs`, `muxer.rs`) | requested and ongoing dials, connections with and without a topic, deduplication history | begin/complete connect and disconnect, accept message, tick | several topics dialling one host, dials that outlive their entry |
| Expiring collections (`network/src/cache.rs`) | entries with a time | insert, get, remove, prune | expired entries that are still stored |
| Substreams, behaviour, run loop (`network/src/stream.rs`, `behaviour.rs`, `runloop.rs`) | queues of events, disconnects and messages; inbound and outbound substream, keep_alive | poll, inject, the commands | three queues with priorities, two ends that break at different times, messages the codec refuses |
| Intents (`primitives/src/intent.rs`) and queries (`sdk/offchain/src/query.rs`) | the hash cache | hash, signing_hash, matches | one cache for two hashes, which serialization skips |
| Standard predicates (`stdpred`), token (`sdk/predicates/examples/token.rs`), funding example (`sdk/examples/pgqf`) | balances and total supply | mint, transfer, donate; any transaction made of the intents | transactions nobody intended, stale and repeated intents, 64-bit sums |

How they interact: `Chain` is the outermost view (producer, gossip, followers);
its execution of a block is `Schedule`, which executes each transaction with
`Transactions` on views built by `StateDiff`, and within a transaction evaluates
predicates as in `PredicateEval`. Gossip itself is one `Topic` per topic and
node, on top of the `Network` task that multiplexes connections; `Connection` is one
of these, and each of its directions implements a `Pipe`. `TokenLedger` is what the
predicates of accounts and intents mean for one token, over any history of
transactions; its intents and the predicates in them are in `Intents`.

## Modules

| Module | Models | Actions and the code they stand for |
|---|---|---|
| `StateDiff` | `vm/src/state.rs` | operators `DiffSet`, `DiffRemove`, `Merge`, `StoreApply`, `OverlayGet` |
| `StateStore` | a store under a sequence of diffs | `Set`, `Remove`, `Apply` |
| `Transactions` | `collect.rs`, `execute`, `TransactionRefs` | operators `Execute`, `Refs`, `DependsOn` |
| `Schedule` | `execute_many`, and `consume` around it | `StartBlock` (graph, roots, rows), `TakeRow`, `RunTx`, `FinishRow`, `Commit` |
| `PredicateEval` | `parallel_invoke_predicates` | `StartTree`, `CheckLeaf`, `InvokeLeaf`, `ReduceTree`, `Return` |
| `PredicateVerdict` | what its documentation promises | `Decide` |
| `Chain` | mempool, builder, watcher, clients | `Send`, `Await`, `ReceiveTx`, `Produce`, `StartFollower`, `Receive`, `Consume` |
| `Topic` | `topic.rs`, one node | one action per event and message kind, and expiry |
| `Network` | `network.rs`, `muxer.rs`, one node | `BeginConnect`, `CompleteDial`, `AcceptConnection`, `DialFails`, `AcceptMessage`, `CompleteDisconnect`, `Tick`, expiry |
| `Connection` | `stream.rs`, `behaviour.rs`, the commands of `runloop.rs`; both ends | `Send`, `Disconnect`, `BanPeer`; `ForwardEvent`, `CloseConnection`, `NotifyHandler` (`Behaviour::poll`); negotiation; one action per outcome of `process_inbound_poll` and per turn of the loop of `process_outbound_poll` |
| `Pipe` | what a connection promises in one direction | `Put`, `Get`, `End` |
| `Intents` | `intent.rs`, `query.rs`, `arithmetic.rs`, `signature.rs`, the builders of intents | operators `Hash`, `SigningHash`, `Sign`, `Gossiped`, `Arithmetic`, `Matches`, `Claim`, `MintIntent`, `TransferIntent`, `PoolIntent`, `DonationIntent` |
| `TokenLedger` | `token.rs` with `collect.rs` and `execute` | `Mint`, `Transfer`, `DonateToPool`, `DonateToProject` (a client signs an intent), `Execute` (any changes with any of the intents) |
| `*Proofs` | theorems about the module of that name | |
| `MC*` | finite instances for TLC | |

Abstractions, each stated in the header of its module:

- *Predicates* in `Transactions` are comparisons of one value with the one
  wanted; in `PredicateEval` their answer is chosen. Calldata and inline
  parameters do not depend on the state and are one kind. The code cache of
  `invoke` is addressed by the hash of the code, so it cannot change a result.
- *Hashes*: a block is its own hash, a message its own hash.
- *Gossip* in `Chain` is reliable and ordered, or (`Unreliable`) may repeat and
  reorder, and loses up to `MaxLost` blocks (a failed `gossip` is only logged).
- *Peers* in `Topic` send anything the handlers accept, at any time, on any open
  connection; connections open and close at any time. What holds there holds in
  every overlay.
- *Time* is not modelled: an entry of an expiring collection may leave at any
  moment. In `Network` the entry of a dial may so expire while the swarm is still
  dialling; `late` remembers the hosts at which that happened.
- *Addresses* in `Topic` are chosen, whenever a peer is mentioned, from the lists of
  addresses it may be known by (`Hosts`). A list may be empty: a node starts with no
  address (`network/src/network.rs:150`), local ones are filtered out
  (`network/src/behaviour.rs:146`), and no handler asks for one.
- *Named* peers: FORWARDJOIN and SHUFFLE may be about any node; `Named` says which ones
  an instance tries. The theorems leave it arbitrary.
- *The swarm* in `Connection` is external: it negotiates substreams or fails to, polls
  the handler until it returns Pending, then looks at `connection_keep_alive`, and
  drops the handler when a connection ends. The arm of `process_outbound_poll` for a
  closing substream is never polled, because it only follows a returned `Close`.
- *Numbers* in `TokenLedger` have `Modulus` values; sums in predicates wrap, as in the
  release build of the wasm. A hash is the tuple of what was hashed, a signature a key
  with the hash it signs, and the key of an owner is the address of the wallet.
- *Amounts* are not 0: `uint_less_than_by` with a difference of 0 is true whenever the
  first argument is larger, because of `saturating_sub` (`stdpred/src/arithmetic.rs:94`,
  `:111`), so a signed donation of 0 to the pool, whose operands are reversed (below),
  accepts any loss of the donor.
- *The token's predicates*: `token.rs:43` and `vm/tests/token_mint.rs:95-111` have
  `immutable_predicates` as the second conjunct, while `create_usdx_token`
  (`vm/tests/common/mod.rs:115-121`) and the client put `constant(false)` there, with
  which no transaction of the token is accepted. `Frozen` chooses; the run uses the
  first, the theorems hold for both.

## Runs

Passing runs (state counts are distinct states):

| Run | Bounds | Shows |
|---|---|---|
| `MCStateStore` | 2 addresses, 2 contents, any genesis; 2,304 states | merged diffs equal consecutive ones; an overlay is exact off the deletes |
| `MCSchedule` | all blocks of up to 3 of 10 kinds of transactions, and of 4 of 4 kinds; 61,556 states | no transaction is taken twice or left out; a block of which the schedule covers the conflicts has the serial results; the last writer wins; every block commits |
| `PredicateEval` | forests of 0 to 2 of 5 trees, one of 3; all answers; 233,348 states | the verdict is the promised one whatever the timing, and has a reason |
| `Chain` | 1 follower, 2 transactions, 2 calls on one key, gossip that repeats and reorders, 1 lost block, 1 repeated transaction, 2 empty blocks, history of 2; 109,629 states | a builder's state is that of the blocks since its start; the producer never panics; the watchlist holds exactly the waiters; a timely waiter is released unless a block is lost |
| `TopicOverlay` | 2 peers, 2 connections, active view of 1, passive view of 1, walk of 2, shuffles of any content; a peer that may be known by no address; 357,108 states | bounds of the passive view, links behind the active view, messages backed by what the node knows, no eviction without closing; a node without peers dials again, unless it took up a peer without addresses |
| `NetworkMux` | 2 topics, 2 peers on one host, 3 dials, 2 connections, dials that outlive their entry; 508,999 states | topics are told the truth; dials are tracked and announced to the topic that asked, and the network task does not panic, except after a late dial; a dial that has to wait is made some time |
| `Connection` | 3 messages one way, the first too large for the codec, 1 fault and 1 disconnect or ban at any moment, on either side; 141,667 states | no message is lost while both ends are up; events are bracketed by established and closed; each direction implements a `Pipe`; what fits is delivered unless the connection ends; the end is noticed on both sides |
| `TokenLedger` | 2 wallets, 3 numbers, amounts 1 and 2, 2 intents, any transaction made of them, executed where they were signed or after gossip; 10,060 states | a wallet loses tokens only to a transfer its owner signed; tokens appear and disappear only with the mint authority and the supply follows; the solver's patterns recognise the clients' donations and nothing else |

Why the bounds are enough to be interesting: views of size one are full with one
peer and overfull with two, so every limit is met; two connections, which may both
belong to one peer, are needed, and enough, for the confusion of connections; in
`TopicOverlay` the messages name one peer and the node itself (`Named`), the peer being
the one with more lists of addresses; two topics and one host
make the multiplexer serialise dials; three transactions make a tree and a
bystander, four make two rows with two predecessors; three messages have one between two others,
and with one too large one is refused while others wait; three numbers are enough for
sums of two balances to wrap. `MaxHeight = 1`: a block
starts from one genesis state that has every kind of account. Deadlock is not
checked where the bounds make the model stop (`Chain`, `Network`, `TokenLedger`), or
where the system really ends (an evaluation, a block, a connection).

Runs that end in a counterexample each state a sentence of the documentation, of
a comment or of an assertion, and show that the code does otherwise; the sentence
is quoted in `PROJECT.json`.

| Run | What happens |
|---|---|
| `TwoDependencies` | a transaction depends on two earlier ones, only the closest gets an edge, and the effects of the other one are missed |
| `LostConfirmation` | the block arrives before the waiter is registered, which then waits for ever |
| `LateDial` | `ongoing_dials` forgets a dial after `pending_timeout` whatever the dial does; the connection is established later, and the network task runs into the `unreachable!()` of `network/src/network.rs:251` |
| `SignedIntent` | `hash` and `signing_hash` share a cache that serialization skips: the signature of a gossiped intent is checked against another hash than was signed |

Each is paired with what does hold: `SerializableWhenCovered` with
`Serializable`; `TimelyWaiterReleased` with `SentIsConfirmed`; `OnlyLateDialsPanic` with
`NoPanic`; `SpendingSigned` and
`MintingSigned`, which say that signatures are never too weak, with
`SignedIntentVerifies`, which says that they are accepted.

Other places where the code does something else than its comments say. The models
follow the code there; no run is spent on them:

- `and` returns the left error when both sides fail, so `not(and(false, crash))` and
  `or(true, and(false, crash))` are accepted although a predicate crashed, and whether
  they are depends on which worker is cancelled first (`vm/src/execution.rs:265-275`
  against `:128-132`). `ImplementsVerdict` and `FailureHasReason` are checked, and
  proved, for trees in which a crash cannot hide (`Unmasked`): `not` applies to single
  predicates, and so does the right side of `or`.
- A late dial (run `LateDial`) that finds the entry of a newer dial of its host takes
  that entry, and its connection is announced to the topic of the newer one
  (`network/src/network.rs:231-251`). `AnnouncedToDialer` excepts hosts with a late dial.
- JOIN, FORWARDJOIN and SHUFFLE put peers without any address into the passive view
  (`network/src/topic.rs:475-487`, `:560`). If `try_stabilize_active_view` picks one
  (`topic.rs:638-652`) it dials nobody, and it does not fall back to the bootstrap
  addresses because the passive view is not empty: a node without active peers may
  stay so. `IsolatedNodeDials` excepts nodes that took up such a peer.
- The donation to the matching pool (`sdk/examples/pgqf/src/client.rs:414-437`) has its
  operands the wrong way round: it asks that the donor's balance grow and the
  treasury's shrink. The solver's pattern has the same order, so it is recognised.
- The solver's pattern for projects matches no intent that the client builds.
- The client creates wallets below `/token/usdc` and the token at `/token/usdx`
  (`client.rs:538`, `:598`), so the token's predicate does not govern the wallets.
- The token predicate accepts any change of the supply account, its deletion
  included, if the sums of the proposed wallets are equal (`token.rs:129-134`).
  `MintingSigned` speaks of steps in which the token exists.
- `require_ed25519_signature` (`stdpred/src/signature.rs:21`) answers with the first
  signature it finds for the key, while `token.rs:298` looks on for one that verifies.
  `SignedBy` asks for any that verifies, for both, so the model accepts
  whatever the code does and more, which the safety properties allow.
- `recent_blockhash` of an intent is documented as an expiry (`intent.rs:19-23`), and
  nothing reads it: an intent can be used again. `SpendingSigned` bounds each use.
- The watcher signals a caller before it consumes the block
  (`sdk/offchain/src/watcher.rs:114`): a caller that reads the state at once may read
  the one before its transaction. It removes the waiters of a block key by key, which
  `Receive` does in one step; a caller that gave up, and a `gossip` that fails for
  another reason than a lack of peers, are left out of `Chain`. No property is about them.
- `Overlayed::get` (`vm/src/state.rs:118`) reads a deleted account from the base, so
  within a block a transaction may use an account deleted before it.
  `OverlayExactOffDeletes` is what holds.
- `depends_on` (`vm/src/schedule.rs:239`) knows no write-after-read, and
  `TransactionRefs::new` (`:264`) uses the predicates from before the block.
  `SerializableWhenCovered` excludes the blocks in which this matters.
- A client starts with an empty state at the first block it sees
  (`sdk/examples/pgqf/src/client.rs:69`), and after a lost block refuses all later
  ones (`sdk/offchain/src/builder.rs:85`). `StateSinceStart` is what holds.
- `consume_neighbor` (`network/src/topic.rs:887`) tests the active view again right
  after it asked for a disconnect that takes effect later, so a high-priority
  neighbour is refused all the same.
- `consume_shuffle_reply` (`topic.rs:1082`) takes its set difference the other way
  round, and a reply adds no peer to the passive view.
- `try_stabilize_active_view` is called only when the view is not full
  (`topic.rs:428`), so its branch for a view that is too large does not run.
- If the only passive peer is also active, a starved node dials nobody
  (`topic.rs:641`); `IsolatedNodeDials` is about a node without any active peer.
- `pending_disconnects` is keyed by peer (`topic.rs:462`): the refusal of a
  neighbour on a second connection is dropped while the first one closes. The end of
  any connection of a peer removes the peer from the active view (`topic.rs:407`);
  `ActiveLossHasCause` is what holds.
- `disconnect` (`network/src/muxer.rs:68`) leaves the unassigned connection of a peer
  that also has an assigned one in the map.
- A first message that repeats a recent one is dropped before it assigns the
  connection (`network/src/network.rs:319`).
- After a connection, the queued request for another address of the host is answered
  by dialling the connected address (`network.rs:238`).

## Fairness

- `Schedule`, `PredicateEval`: rayon's workers run what is ready, and a
  predicate's program terminates. The latter is an assumption about programs: the
  code sets no limit on their running time.
- `Chain`: every task is scheduled again; the producer's interval keeps ticking; gossip,
  however often it repeats old blocks, delivers the new ones it did not lose (strong
  fairness of `ReceiveNews`).
- `Topic`: the maintenance tick is periodic, and pending neighbours and JOINs
  expire. Nothing is assumed of the peers or of the closing of connections; these
  three are also needed (without any of them the property fails).
- `Network`: the interval ticks, `pending_timeout` passes, and the swarm ends every dial
  with a connection or a failure, which the network task is not told.
- `Connection`: both tasks of a node are scheduled again; a negotiation ends, one way or
  the other, since libp2p bounds it by a timeout; a connection whose other end is gone
  fails; and a read, write or flush that is retried again and again is ready some time
  (strong fairness of their disjunction, one per side). Nothing is assumed of the
  faults, nor that a substream that is closing ever finishes.
- `TokenLedger`: safety only; nobody is bound to execute anything.

## Proofs

Every invariant and action property that a passing run checks is also a theorem, for
every value of the constants that the assumptions allow; liveness is not (below).

| Theorem | Statement | Inductive invariant |
|---|---|---|
| `MergeLaw`, `MergeAssociative` | algebra of diffs, on any store; associativity needs the middle diff to be disjoint | none |
| `DisjointInvariant`, `MergeInvariant`, `OverlayInvariant` (`StateStoreProofs`) | the invariants of `StateStore` for any addresses and accounts | each with `TypeOK`; the overlay follows from the merge invariant |
| `NoTxVisitedTwice`, `EveryTxGetsResult`, `LastWriterDecides` (`ScheduleProofs`) | for blocks of any length and any interleaving: no panic, one result per transaction, the last writer in block order wins | `IInv`: the trees partition the block, what is still to come is in the graph, what was taken has its result |
| `CoveredBlocksSerializable` | a covered block has the results and the state of its execution in order | `SInv`: what a tree accumulated is what its rows wrote, and each result is that of executing on such a view |
| `AndAssociative`, `AndAcceptsBoth`, `OrAcceptsCleanly` | the connectives on all results; grouping does not matter | none |
| `CancelHasCause` | `PredicateEval`: no cancellation without a crash, for any forests | the shape of the per-tree state: a leaf being invoked has no result yet, so its result is not overwritten |
| `FailuresHaveReason`, `VerdictIsTheTruth` | a failed call has a reason; the safety part of `ImplementsVerdict`; for forests in which a crash cannot hide | `TInv`: a finished tree holds what its leaves reduce to |
| `StatesSinceStart`, `HistoriesAreChains`, `ProducerDoesNotPanic` (`ChainProofs`) | whatever gossip loses, repeats or reorders | `ChainInv`: the blocks in circulation are well formed, the producer always has a block and a follower takes one from its stream only once it has one, what a builder applied is the transactions of the blocks since its start, histories are chains, and nothing panicked |
| `WatchlistsMatchWaiters` | a call is on the watchlist exactly while it waits | `WatchInv`: with the types of the watchlists |
| `TypeCorrect`, `PassiveViewBounded`, `ActiveViewLinked`, `MessagesBacked`, `LossesHaveCause` (`TopicProofs`) | for any finite set of peers, any limits and any messages | the passive view holds only nodes and fits; active peers are peers with an open link |
| `TypeCorrect`, `TopicsAlwaysTold` (`NetworkProofs`) | for any topics, peers, addresses and messages | a topic is told of a connection when it is assigned and when it is dropped, and connections are open, unassigned or assigned consistently |
| `DialsAlwaysTracked`, `OnlyLateDialsReachPanic`, `DialledConnsAnnounced` | late dials included: what is excepted is a host with a late dial | every dial in progress is recorded under its host, alone, or its host has a late dial; while the task runs, every open connection is assigned or unassigned |
| `TypeCorrect`, `EventsAreBracketed`, `NothingIsLostWhileUp` (`ConnectionProofs`) | for any messages, commands and faults | `TypeInv`; `LogOK`: "closed" is the last event exactly when the link is closed; `PipeOK`: where each accepted message is |
| `ConnectionImplementsPipe` | each direction implements `Pipe` | the same; every step is a step of the pipe or a stutter |
| `TypeCorrect`, `SpendingIsSigned`, `MintingIsSigned`, `DonationsRecognised` (`TokenLedgerProofs`) | `TokenLedger`: for any wallets, modulus and amounts, any number of intents and any transactions | balances are numbers or absent, and every intent is one a builder made (`IntentForms`) |

*Assumptions.* They are the named `ASSUME`s of the modules, which TLC evaluates on
every instance: types of the parameters; peers and wallets are finitely many; the
blocks of `Schedule` are sequences of transactions whose references are addresses
(`ScheduleAssumption`), the forests of `PredicateEval` are sequences of trees
(`ForestsAssumption`). The theorems on the verdicts of `PredicateEval` have a hypothesis
besides, `NothingMasked` (no tree in which a crash can hide, see above). Without it they
are false of the code.

*Induction over data.* The library's induction theorems take an operator, which the
provers cannot instantiate. Each module therefore proves, from the well-foundedness of
the naturals (`LeastNatural`), an induction rule that takes a *set*
(`StrongInduction`, `NodeInduction`, `SubsetInduction`), and that a recursion whose
value at n depends on values before n has a solution (`RecursiveFunction`, where the
step of the recursion is a function; `AddsSolved` for sums over sets). With these, what
`Rows`, `Roots`, `MergeOk`, `SerialRun`, `Reduce` or `SumFunction` compute is proved
for every input.

*Schedule.* `NeverVisitedTwice` alone is not inductive: it depends on what the trees
contain. Every transaction has at most one incoming edge, from an earlier one, so the
graph is a forest (`IsForest`); one root per component then gives trees that partition
the block (`TreesPlanned`), and rows that are the transactions at one distance from the
root (`TreesLinked`). For serializability, `ExecuteLocal` says that a result
depends on the view only at the addresses the execution touches, and `TouchedInAddr`
that these are addresses. What a tree accumulated at an address is what the last of its
transactions so far wrote there (`AccMerge`); what the execution in order has there is
what the last earlier transaction wrote (`SerialAt`). `Covered` makes them the same
(`SameView`), and the results follow by induction over the block (`ResultsInOrder`).

*Predicate evaluation.* Nodes are numbered with operands first, so the reduction of a
tree is a recursion over node numbers. A tree whose leaves were all answered reduces to
its truth. In one with a crash the flag is never cleared, so the leaves after a
crashed or cancelled one are cancelled (`Ordered`); a node is then not Ok when a leaf
below it crashed or was cancelled, it tells of a crash by an error of its own, and it is
Cancelled only if a leaf below it is (`Telling`), and the `and` over all trees prefers
the error of the tree that crashed to the cancellations it caused (`VerdictTells`).

*Network.* `OnlyLateDialsPanic` alone is not inductive: the panic of `complete_connect`
needs a dial without its entry, which only a late dial leaves behind (`DialsTracked`);
the one of `accept_message` is avoided because an open connection is known to the muxer (`OpenKnown`).

*Connection.* Most steps move nothing (`Quiet`); those that move a message or an event
(`Moves`) keep the concatenation of what was told, is queued as an event, is in
transit, is being written and waits, which is what was accepted and fits. The
refinement of `Pipe` reads off this equation.

*Token.* `SpendingSigned` is about one step, but what a step may do depends on all intents ever
made, hence `IntentForms`. The argument: a step that lowers a wallet, or deletes it, is
accepted only with a signature of its owner (`WalletAccepts`); that signature is in an
intent of one of four forms with that key. A mint is signed by the token, a donation to
a project by nobody; a transfer asks for exactly its amount (`TransferExpects`, where
the amount must not be 0); and a donation to the pool asks that the donor's balance
grow (`PoolExpects`), which contradicts the step. For `MintingSigned`, wallet by wallet,
what it holds after a step plus what `sum_balances` counts before is what it held plus
what is counted after (`WalletTerms`); this adds up over any finite set of wallets
(`SumsBalance`) and survives the wrapping of the sums (`WrappedSums`). A signature that was
gossiped never verifies, so the signed intent is one the transaction carries as it was
made. `SolverRecognises` follows from `IntentForms` by comparing the four trees with
the three patterns.

Only model-checked: liveness under fairness, which the prover does not handle
(`EveryBlockCommits`, `TimelyWaiterReleased`, `IsolatedNodeDials`, `RequestsServed`,
`DeliveredUnlessClosed`, `EndIsNoticed`, and that the call of `ImplementsVerdict`
returns at all).

## Not modelled

- wasm instantiation, memory and system calls; the predicate SDK and its macros;
- `await_block_height` and `stop` of the watcher, which are `todo!()`;
- learning of peer addresses and local address discovery (a peer is known by one of the
  lists of addresses given for it, at any time); joining a topic (`runloop`
  takes the network, so topics are joined before it runs, and are the constant
  `Topic`); messages of topics the node has not joined, which only close the
  connection;
- the framing of the codec, the negotiation of the protocol name, listening;
- the predicates on bytes, maps and sets; the accounts of the funding campaign, and
  the solver beyond its patterns, which are `todo!()`;
- `vm/src/syncell.rs`, of which only exclusive borrows happen, once per transaction;
- several `Topic` nodes together. Each handler is checked against peers that send
  anything. What a composition would add, agreement of the two ends of a link, does
  not hold of this code (see `topic.rs:462` above).

## Plan

Done: state diffs, transactions and the scheduler; predicate evaluation and its
refinement; the chain; one node of the overlay and its multiplexer; a connection and
its refinement; intents, queries and the token; a theorem for every safety property of
these.

Left, in this order:

1. A theorem for what an uncovered block still guarantees within one tree.
2. Insertion, expiry and pruning of the expiring collections with a clock, which
   would replace "may leave at any time".
