CONSTANTS
  Token = token
  Wallet = {alice, bob}
  Modulus = 3
  Frozen = FALSE
  Amount = {1, 2}
  MaxIntents = 2
  None = None
SPECIFICATION Spec
INVARIANT SignedIntentVerifies
CHECK_DEADLOCK FALSE
