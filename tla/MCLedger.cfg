SPECIFICATION Spec
CONSTANTS
  payer = payer
  float = float
  reserve = reserve
  other = other
  Accounts <- MCAccounts
  Seeds = {s1, s2}
  MaxAmount = 2
  DebitCapped <- MCDebitCapped
  CreditCapped <- MCCreditCapped
  DirectDebits <- MCDirectDebits
  LedgerOf <- MCLedgerOf
INVARIANTS
  TypeOK
  PostedWithinFlags
  HeldFundsReserved
  HoldConsumedOnce
  PendingMatchesHolds
  PostedMatchesRecords
SYMMETRY MCSymmetry
PROPERTY HistoryKept
CHECK_DEADLOCK FALSE
