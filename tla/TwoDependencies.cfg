CONSTANTS
  Addr <- MCAddr
  Account <- MCAccount
  NoAccount = NoAccount
  Inline = Inline
  Ancestors <- MCAncestors
  Wasm = {1}
  Failed = Failed
  Pending = Pending
  Genesis <- MCGenesis
  Blocks <- TwoDependencies
  MaxHeight = 1
SPECIFICATION Spec
INVARIANT Serializable
CHECK_DEADLOCK FALSE
