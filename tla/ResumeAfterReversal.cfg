SPECIFICATION FairSpec
CONSTANTS
  Handlers = {h1}
  Sweeper = sweeper
  Refs = {1}
  MaxOps = 2
  MaxFaults = 2
  AmountKobo = 3
  FeeKobo = 1
INVARIANT SettledKeepsLevy
CHECK_DEADLOCK FALSE
