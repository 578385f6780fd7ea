SPECIFICATION RecoverySpec
CONSTANTS
  Handlers = {h1}
  Sweeper = sweeper
  Refs = {1, 2}
  MaxOps = 4
  MaxFaults = 2
  AmountKobo = 3
  FeeKobo = 1
  p1 = p1
  k1 = k1
  left = left
  NoSource = NoSource
  PayoutFaults = 1
INVARIANT MoneyAgreement
PROPERTIES
  SagaResolves
  HoldReleased
  RefundLands
  InFlightResolves

CHECK_DEADLOCK FALSE
