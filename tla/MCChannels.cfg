SPECIFICATION Spec
CONSTANTS
  a = a  b = b  c = c  office = office  top = top  deb = deb  f1 = f1  f2 = f2  f3 = f3
  ref = ref  c1 = c1  c2 = c2  c3 = c3
  HAgents = {a, b, c}  TenantOf <- MCTenantOf  HRoot = root  MaxDepth = 1
  Replicas = {r1, r2}  Vetters = {v1}  Vetted = {b}
  Offices = {office}  OfficeTenant <- MCOfficeTenant  MaxActive = 2
  FAgents = {a}  FTreasury = treasury  Funding = 2  Moves = {top, deb}  KindOf <- MCKindOf
  FCalls = {f1, f2, f3}  MoveOf <- MCMoveOf  FAgentOf <- MCFAgentOf  AmountOf <- MCAmountOf
  Sweeper = sweeper  FMaxAmount = 2  FFaults = 2
  CAgents = {a, b}  CRoot = root  Upline <- MCUpline  CPool = pool  Offset = offset  Refs = {ref}
  MaxLevel = 2  RateOf <- MCRateOf  CCalls = {c1, c2, c3}  CAgentOf <- MCCAgentOf
  RefOf <- MCRefOf  BaseOf <- MCBaseOf  Clawer = clawer  CMaxAmount = 3  CFaults = 1  MaxMoves = 1
  SAgents = {a}  SPool = pool  STreasury = offset  SWorkers = {w1, w2}
  MaxCount = 2  MaxTries = 2  MaxRuns = 3  SFaults = 2
  Dials = {dial1, dial2}  Phone = phone  UWorkers = {u1, u2}
  MaxStrikes = 2  MaxInputs = 3  MaxRequests = 5
SYMMETRY Sym
INVARIANTS
  OneProcessForest
  CrossAttachSerialised
  MovementBacked
  RecordBacked
  PoolCovered
  PaidOnce
  GuessesBounded
CHECK_DEADLOCK FALSE
