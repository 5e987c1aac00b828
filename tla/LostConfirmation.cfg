CONSTANTS
  Tx <- MCTx
  Key <- MCKey
  KeysOf <- MCKeysOf
  Follower <- OneNode
  Call <- TwoCalls
  CallNode <- TwoCallNode
  CallTx <- TwoCallTx
  CallKey <- TwoCallKey
  HistoryLen = 2
  Unreliable = FALSE
  MaxLost = 0
  MaxEmpty = 2
  MaxRepeat = 1
  None = None
SPECIFICATION Spec
PROPERTY SentIsConfirmed
CHECK_DEADLOCK FALSE
