CONSTANTS
  Addr <- MCAddr
  Account <- MCAccount
  NoAccount = NoAccount
  Inline = Inline
  Ancestors <- MCAncestors
  Wasm = {1}
  Failed = Failed
  Pending = Pending
  Genesis <- MCGenesis
  Blocks <- MCBlocks
  MaxHeight = 1
SPECIFICATION Spec
INVARIANTS NeverVisitedTwice EveryTxHasResult SerializableWhenCovered LastWriterWins
PROPERTY EveryBlockCommits
CHECK_DEADLOCK FALSE
