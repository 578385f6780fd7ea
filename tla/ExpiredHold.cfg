SPECIFICATION FairSpec
CONSTANTS
  Handlers = {h1}
  Sweeper = sweeper
  Refs = {1}
  MaxOps = 1
  MaxFaults = 1
  AmountKobo = 3
  FeeKobo = 1
PROPERTY AbandonedHoldReleased
CHECK_DEADLOCK FALSE
