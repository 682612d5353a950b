SPECIFICATION Spec
CONSTANTS
  s1 = s1
  s2 = s2
  k1 = k1
  k2 = k2
  n1 = n1
  n2 = n2
  w1 = w1
  r1 = r1
  r2 = r2
  None = None
  Slots = {s1, s2}
  Notes = {n1, n2}
  Keys = {k1, k2}
  Sockets = {w1}
  Requests = {r1, r2}
  Capacity = 2
  Workloads <- MCWorkloads
INVARIANTS
  ImagesKept
  NoLeak
  NothingMissed
  ClosedOut
PROPERTIES
  PushArrives
