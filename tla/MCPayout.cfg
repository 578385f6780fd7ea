SPECIFICATION MCSpec
CONSTANTS
  p1 = p1
  f1 = f1
  p2 = p2
  p3 = p3
  p4 = p4
  p5 = p5
  k1 = k1
  k2 = k2
  k3 = k3
  operator = operator
  left = left
  east = east
  west = west
  NoSource = NoSource
  Requests = {p1, f1, p2, p3, p4, p5}
  Keys = {k1, k2, k3}
  KeyOf <- MCKeyOf
  AmountOf <- MCAmountOf
  SourceOf <- MCSourceOf
  ReplicaOf <- MCReplicaOf
  Replicas = {left, east, west}
  Operators = {operator}
  MaxFaults = 1
  MaxExpiries = 1
INVARIANTS
  PostedMoved
  DispatchRecorded
  OneDispatchPerKey
CHECK_DEADLOCK FALSE
