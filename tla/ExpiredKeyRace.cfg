SPECIFICATION FairSpec
CONSTANTS
  r1 = r1
  r2 = r2
  r3 = r3
  r4 = r4
  k1 = k1
  b1 = b1
  b2 = b2
  s1 = s1
  s2 = s2
  left = left
  right = right
  NoKey = NoKey
  Requests = {r1, r2, r3}
  Keys = {k1}
  Bodies = {b1, b2}
  Slots = {s1, s2}
  Replicas = {left, right}
  KeyOf <- MCKeyOf
  BodyOf <- MCBodyOf
  SlotOf <- MCSlotOf
  ReplicaOf <- MCReplicaOf
  Stale = {}
  UniqueIndex = TRUE
  MaxExpiries = 1
  MaxFaultKinds = 0
INVARIANT OnePaymentPerWindow
CHECK_DEADLOCK FALSE
