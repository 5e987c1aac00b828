CONSTANTS
  MaxSend <- MCMaxSend
  Oversized <- MCOversized
  MaxFaults = 1
  MaxClose = 1
SPECIFICATION FairSpec
INVARIANTS TypeOK NothingLostWhileUp EventsBracketed
PROPERTIES ImplementsPipe DeliveredUnlessClosed EndIsNoticed
CHECK_DEADLOCK FALSE
