--------------------------------- MODULE Chain ---------------------------------
(***************************************************************************)
(* From transaction to confirmation: a block producer (sdk/devnode:        *)
(* Mempool and the main loop), gossip of transactions and blocks, and      *)
(* followers that watch the chain (sdk/offchain: BlockchainWatcher around  *)
(* a BlockStateBuilder) on behalf of callers that send a transaction and   *)
(* await a key of it (sdk/examples/pgqf/src/io.rs).                        *)
(*                                                                         *)
(* Abstractions.  A block is its height, its parent and its transactions;  *)
(* the hash of a block is the block itself (Sha3 without collisions).  A   *)
(* state is the sequence of transactions executed to build it: what a      *)
(* block's execution does to accounts is the subject of Schedule.          *)
(***************************************************************************)
EXTENDS Naturals, Sequences, SequencesExt

CONSTANTS Tx,          \* transactions
          Key,         \* what can be awaited: transaction, intent or account
          KeysOf,      \* [Tx -> SUBSET Key]: the keys a transaction signals
          Follower,    \* nodes with a BlockchainWatcher
          Call,        \* calls that send a transaction and await a key
          CallNode, CallTx, CallKey,  \* node, transaction and key of a call
          HistoryLen,  \* BlockStateBuilder.history_len
          Unreliable,  \* whether gossip may repeat and reorder messages
          MaxLost,     \* bound on the number of blocks gossip loses
          MaxEmpty,    \* bound on the number of blocks without transactions
          MaxRepeat,   \* bound on repeated deliveries of transactions
          None

ASSUME ChainAssumption ==
  /\ HistoryLen \in Nat \ {0} /\ MaxEmpty \in Nat /\ MaxRepeat \in Nat /\ MaxLost \in Nat
  /\ Unreliable \in BOOLEAN
  /\ CallNode \in [Call -> Follower] /\ CallTx \in [Call -> Tx]
  /\ CallKey \in [Call -> Key] /\ KeysOf \in [Tx -> SUBSET Key]
  /\ None \notin Call /\ "producer" \notin Follower

VARIABLES mempool,   \* Mempool.txs
          recent,    \* per builder (producer and followers): recent, newest first
          applied,   \* per builder: the transactions its state was built from
          start,     \* per builder: the block its state was started from
          txwire,    \* transactions gossiped to the producer
          wire,      \* per follower: its stream of blocks
          taken,     \* per follower: the block signalled but not yet consumed
          watch,     \* per follower: watchlist, [Key -> Call or None]
          call,      \* per call: "idle", "sent", "waiting", "ok" or "err"
          seen,      \* per follower: keys of all blocks received (history)
          empties, repeats, lost,  \* counters for the bounds
          panicked   \* Mempool::produce's expect() failed

vars == <<mempool, recent, applied, start, txwire, wire, taken, watch, call,
          seen, empties, repeats, lost, panicked>>

Producer == "producer"
Builder  == Follower \cup {Producer}

--------------------------------------------------------------------------------
(* Blocks and the block state builder.                                     *)

Zero == [height |-> 0, parent |-> None, txs |-> <<>>]

\* Mutant: Block::new copies the parent's height
NewBlockSameHeight(parent, txs) ==
  [height |-> parent.height, parent |-> parent, txs |-> txs]

\* Block::new
NewBlock(parent, txs) ==
  [height |-> parent.height + 1, parent |-> parent, txs |-> txs]

BlockKeys(b) == UNION {KeysOf[b.txs[i]] : i \in DOMAIN b.txs}

LastBlock(b) == Head(recent[b])

\* The checks of BlockStateBuilder::consume.
Accepts(b, block) ==
  /\ block.parent = LastBlock(b)
  /\ block.height = LastBlock(b).height + 1

\* Mutant: the history is never trimmed
PushUnbounded(history, block) == <<block>> \o history

\* push_front, then at most one pop_back.
Push(history, block) ==
  LET longer == <<block>> \o history
  IN IF Len(longer) > HistoryLen THEN Front(longer) ELSE longer

\* Mutant: the transactions are executed before the block is checked
ConsumeBlockUnchecked(b, block) ==
  /\ recent' = [recent EXCEPT ![b] = IF Accepts(b, block) THEN Push(@, block) ELSE @]
  /\ applied' = [applied EXCEPT ![b] = @ \o block.txs]

\* BlockStateBuilder::consume: an accepted block joins the history and its
\* transactions are executed; a refused one changes nothing.
ConsumeBlock(b, block) ==
  IF Accepts(b, block)
  THEN /\ recent' = [recent EXCEPT ![b] = Push(@, block)]
       /\ applied' = [applied EXCEPT ![b] = @ \o block.txs]
  ELSE UNCHANGED <<recent, applied>>

--------------------------------------------------------------------------------
Init ==
  /\ mempool = <<>>
  /\ recent = [b \in Builder |-> IF b = Producer THEN <<Zero>> ELSE <<>>]
  /\ applied = [b \in Builder |-> <<>>]
  /\ start = [b \in Builder |-> IF b = Producer THEN Zero ELSE None]
  /\ txwire = <<>>
  /\ wire = [f \in Follower |-> <<>>]
  /\ taken = [f \in Follower |-> None]
  /\ watch = [f \in Follower |-> [k \in Key |-> None]]
  /\ call = [c \in Call |-> "idle"]
  /\ seen = [f \in Follower |-> {}]
  /\ empties = 0 /\ repeats = 0 /\ lost = 0
  /\ panicked = FALSE

Started(f) == recent[f] # <<>>

\* send_and_confirm_*: the loop that gossips until it succeeds.  (An error other
\* than NoConnectedPeers ends the call before anything is sent or awaited.)
Send(c) ==
  /\ call[c] = "idle" /\ Started(CallNode[c])
  /\ call' = [call EXCEPT ![c] = "sent"]
  /\ txwire' = Append(txwire, CallTx[c])
  /\ UNCHANGED <<mempool, recent, applied, start, wire, taken, watch, seen,
                 empties, repeats, lost, panicked>>

\* Mutant: the displaced call is not told
DisplacedNone(f, k) == None

\* HashMap::insert: the call that was there under the key, or None.
Displaced(f, k) == watch[f][k]

\* await_*: the call puts itself on the watchlist.  A call already there under
\* the same key is dropped, and its oneshot receiver fails.
Await(c) ==
  LET f == CallNode[c]
      k == CallKey[c]
  IN /\ call[c] = "sent"
     /\ call' = [d \in Call |-> IF d = c THEN "waiting"
                                ELSE IF d = Displaced(f, k) THEN "err" ELSE call[d]]
     /\ watch' = [watch EXCEPT ![f][k] = c]
     /\ UNCHANGED <<mempool, recent, applied, start, txwire, wire, taken, seen,
                    empties, repeats, lost, panicked>>

\* The devnode's loop: a transaction arrives and Mempool::consume queues it.
ReceiveTx ==
  /\ txwire # <<>>
  /\ mempool' = Append(mempool, Head(txwire))
  /\ \/ txwire' = Tail(txwire) /\ UNCHANGED repeats
     \/ Unreliable /\ repeats < MaxRepeat /\ repeats' = repeats + 1 /\ UNCHANGED txwire
  /\ UNCHANGED <<recent, applied, start, wire, taken, watch, call, seen, empties, lost,
                 panicked>>

\* The devnode's loop: the interval ticks, Mempool::produce makes a block of the
\* whole mempool and consumes it, and the block is gossiped.  A failed gossip
\* is only logged.
Produce ==
  /\ ~panicked
  /\ mempool # <<>> \/ empties < MaxEmpty
  /\ LET block == NewBlock(LastBlock(Producer), mempool)
     IN /\ panicked' = ~Accepts(Producer, block)
        /\ ConsumeBlock(Producer, block)
        /\ \/ wire' = [f \in Follower |-> Append(wire[f], block)] /\ UNCHANGED lost
           \/ lost < MaxLost /\ lost' = lost + 1 /\ UNCHANGED wire
  /\ empties' = IF mempool = <<>> THEN empties + 1 ELSE empties
  /\ mempool' = <<>>
  /\ UNCHANGED <<start, txwire, taken, watch, call, seen, repeats>>

\* The next block of a stream: in order and once, or, if gossip is unreliable,
\* any block at all, which may come again.
FromStream(f, i) ==
  /\ i \in DOMAIN wire[f]
  /\ wire' = [wire EXCEPT ![f] = IF Unreliable THEN @ ELSE Tail(@)]
  /\ ~Unreliable => i = 1

\* A client joins at any time, takes the first block it then sees as its recent
\* history and starts the watcher with an empty state.
StartFollower(f, i) ==
  /\ ~Started(f)
  /\ i \in DOMAIN wire[f]
  /\ wire' = [wire EXCEPT ![f] = IF Unreliable THEN @
                                 ELSE SubSeq(@, i + 1, Len(@))]
  /\ recent' = [recent EXCEPT ![f] = <<wire[f][i]>>]
  /\ start' = [start EXCEPT ![f] = wire[f][i]]
  /\ UNCHANGED <<mempool, applied, txwire, taken, watch, call, seen, empties,
                 repeats, lost, panicked>>

\* Mutant: only transaction keys are signalled
SignalledTxOnly(f, block) == {k \in Key : k \in BlockKeys(block) /\ k \in Tx}

\* The watched keys a block signals.
Signalled(f, block) == {k \in BlockKeys(block) : watch[f][k] # None}

\* The watcher's task: the waiters of the block's keys are signalled ...  The code
\* takes them from the concurrent map one key at a time.  A call waits for one key,
\* so a registration in between comes before or after the step, as far as its key
\* goes; only if two transactions of the block change the account it awaits, the
\* code may release it by the second of them where here it waits for a later
\* block.  A signal to a caller that gave up is logged, and callers do not here.
Receive(f, i) ==
  /\ Started(f) /\ taken[f] = None
  /\ FromStream(f, i)
  /\ LET block == wire[f][i]
         keys  == Signalled(f, block)
     IN /\ call' = [c \in Call |-> IF \E k \in keys : watch[f][k] = c THEN "ok"
                                   ELSE call[c]]
        /\ watch' = [watch EXCEPT ![f] = [k \in Key |-> IF k \in keys THEN None
                                                        ELSE @[k]]]
        /\ taken' = [taken EXCEPT ![f] = block]
        /\ seen' = [seen EXCEPT ![f] = @ \cup BlockKeys(block)]
  /\ UNCHANGED <<mempool, recent, applied, start, txwire, empties, repeats, lost, panicked>>

\* ... and then, with the write lock, the block is consumed; a refusal is
\* logged.
Consume(f) ==
  /\ taken[f] # None
  /\ ConsumeBlock(f, taken[f])
  /\ taken' = [taken EXCEPT ![f] = None]
  /\ UNCHANGED <<mempool, start, txwire, wire, watch, call, seen, empties, repeats,
                 lost, panicked>>

Next ==
  \/ \E c \in Call : Send(c)
  \/ \E c \in Call : Await(c)
  \/ ReceiveTx
  \/ Produce
  \/ \E f \in Follower : \E i \in DOMAIN wire[f] : StartFollower(f, i)
  \/ \E f \in Follower : \E i \in DOMAIN wire[f] : Receive(f, i)
  \/ \E f \in Follower : Consume(f)

\* The next block a follower receives tells it of keys it has not seen.
ReceiveNews(f) ==
  \E i \in DOMAIN wire[f] : ~(BlockKeys(wire[f][i]) \subseteq seen[f]) /\ Receive(f, i)

\* Every task is scheduled again and again; the interval keeps ticking; gossip,
\* however often it repeats old blocks, delivers the new ones it did not lose.
Fairness ==
  /\ \A c \in Call : WF_vars(Send(c)) /\ WF_vars(Await(c))
  /\ WF_vars(ReceiveTx)
  /\ WF_vars(Produce)
  /\ \A f \in Follower :
       /\ WF_vars(\E i \in DOMAIN wire[f] : StartFollower(f, i))
       /\ WF_vars(\E i \in DOMAIN wire[f] : Receive(f, i))
       /\ WF_vars(Consume(f))
       /\ SF_vars(ReceiveNews(f))

Spec == Init /\ [][Next]_vars /\ Fairness

--------------------------------------------------------------------------------
\* The block at height n on the chain that ends in b.
AtHeight(b, n) ==
  LET up[m \in n..b.height] == IF m = b.height THEN b ELSE up[m + 1].parent
  IN up[n]

\* The transactions of the chain after block s up to block b.
TxsSince(s, b) ==
  FlattenSeq([i \in 1..(b.height - s.height) |-> AtHeight(b, s.height + i).txs])

(***************************************************************************)
(* Whatever the network loses, repeats or reorders, the state of a builder *)
(* is exactly that of the blocks from the one it started with to its last, *)
(* each executed once and in order (builder.rs:81-123).                    *)
(***************************************************************************)
StateSinceStart ==
  \A b \in Builder :
    recent[b] # <<>> => applied[b] = TxsSince(start[b], LastBlock(b))

(***************************************************************************)
(* recent() is a gapless suffix of one chain, newest first, no longer than *)
(* history_len.                                                            *)
(***************************************************************************)
RecentIsChain ==
  \A b \in Builder :
    /\ Len(recent[b]) <= HistoryLen
    /\ \A i \in 1..(Len(recent[b]) - 1) : recent[b][i].parent = recent[b][i + 1]

(***************************************************************************)
(* "height and parent verified here" (mempool.rs:30): the producer never   *)
(* refuses its own block.                                                  *)
(***************************************************************************)
ProducerNeverPanics == ~panicked

(***************************************************************************)
(* A call is on the watchlist exactly while it waits: no signal is sent to *)
(* a finished call, and no waiting call has been forgotten by the list.    *)
(***************************************************************************)
WatchlistMatchesWaiters ==
  \A c \in Call :
    call[c] = "waiting" <=> watch[CallNode[c]][CallKey[c]] = c

(***************************************************************************)
(* A call that is on the watchlist before the first block with its key     *)
(* arrives is released (watcher.rs:66-118), with the awaited value or,     *)
(* displaced by a later call for the same key, with an error: in whatever  *)
(* order blocks come and however often, unless gossip loses one.           *)
(***************************************************************************)
TimelyWaiterReleased ==
  \A c \in Call :
    (call[c] = "waiting" /\ CallKey[c] \notin seen[CallNode[c]])
      ~> (call[c] \in {"ok", "err"} \/ lost > 0)

(***************************************************************************)
(* "Gossips a transaction through p2p to validators and awaits a produced  *)
(* block containing the transaction" (io.rs:70-71): a sent transaction is  *)
(* confirmed to its sender.                                                *)
(***************************************************************************)
SentIsConfirmed == \A c \in Call : call[c] = "sent" ~> call[c] = "ok"

================================================================================
