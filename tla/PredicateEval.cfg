CONSTANTS
  Forests <- PlainForests
SPECIFICATION Spec
INVARIANTS NoSpuriousCancel FailureHasReason
PROPERTY ImplementsVerdict
CHECK_DEADLOCK FALSE
