SPECIFICATION Spec
CONSTANTS
  Handlers = {h1, h2}
  Sweeper = sweeper
  Refs = {1}
  MaxOps = 4
  MaxFaults = 1
  AmountKobo = 3
  FeeKobo = 1
SYMMETRY MCSymmetry
INVARIANTS
  TypeOK
  CertificateBacked
  ReversalBacked
  CapturedHasProof
  TerminalStatusTrue
PROPERTY LedgerSteps
CHECK_DEADLOCK FALSE
