CONSTANTS
  Tx <- MCTx
  Key <- MCKey
  KeysOf <- MCKeysOf
  Follower <- OneNode
  Call <- TwoCalls
  CallNode <- TwoCallNode
  CallTx <- TwoCallTx
  CallKey <- SameKey
  HistoryLen = 2
  Unreliable = TRUE
  MaxLost = 1
  MaxEmpty = 2
  MaxRepeat = 1
  None = None
SPECIFICATION Spec
INVARIANTS StateSinceStart RecentIsChain ProducerNeverPanics WatchlistMatchesWaiters
PROPERTY TimelyWaiterReleased
CHECK_DEADLOCK FALSE
