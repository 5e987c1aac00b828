CONSTANTS
  Token = token
  Wallet = {alice, bob}
  Modulus = 3
  Frozen = FALSE
  Amount = {1, 2}
  MaxIntents = 2
  None = None
SPECIFICATION Spec
INVARIANTS TypeOK SolverRecognises
PROPERTIES SpendingSigned MintingSigned
CHECK_DEADLOCK FALSE
