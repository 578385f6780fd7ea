SPECIFICATION FairSpec
CONSTANTS
  Handlers = {h1, h2}
  Sweeper = sweeper
  Refs = {1}
  MaxOps = 3
  MaxFaults = 0
  AmountKobo = 3
  FeeKobo = 1
PROPERTY NeverDowngraded
CHECK_DEADLOCK FALSE
