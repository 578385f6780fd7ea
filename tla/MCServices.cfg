SPECIFICATION Spec
CONSTANTS
  OpIds = {o1}  RunIds = {q1}  BatchKeys = {key1}  DocIds = {doc1}  OpWorkers = {w1, w2}
  MaxTries = 2  MaxItems = 1  MaxCalls = 3  OpFaults = 1
  Events = {e1}  Consumers = {k1, k2}  MaxSends = 2  DedupFaults = 3
  Nonces = {n1, n2}  Tolerance = 1  TTL = 3  SweepAt = 1  GuardTime = 6
  Replicas = {device, server}  Elements = {ref}  MaxWall = 2  MaxCount = 4  MaxOps = 3
  DocumentIds = {id1, id2}  Values = {x, y}  None = none  Blank = blank  StoreFaults = 2
  Callers = {b1, b2, b3}  Threshold = 2  Cooldown = 2  Attempts = 2  BreakerTime = 5
SYMMETRY Sym
INVARIANTS
  TINVouched
  EffectsAccounted
  AcceptedOnce
  Converges
  CopiesAgree
  OpenShields
CHECK_DEADLOCK FALSE
