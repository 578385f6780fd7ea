SPECIFICATION Spec
CONSTANTS
  a = a  b = b  ref = ref  c1 = c1  c2 = c2
  Agents = {a, b}  Root = root  Upline <- MCUpline  Pool = pool  Offset = offset  Refs = {ref}
  MaxLevel = 2  RateOf <- MCRateOf  Calls = {c1, c2}  AgentOf <- MCAgentOf
  RefOf <- MCRefOf  BaseOf <- MCBaseOf  Clawer = clawer  MaxAmount = 4  MaxFaults = 0  MaxMoves = 1
INVARIANTS
  HoldsFunded
CHECK_DEADLOCK FALSE
