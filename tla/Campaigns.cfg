SPECIFICATION Spec
CONSTANTS
  u1 = u1
  u2 = u2
  c1 = c1
  a1 = a1
  a2 = a2
  r1 = r1
  r2 = r2
  None = None
  Users = {u1, u2}
  Admins = {u1}
  Leader = u2
  Members = {u2}
  Campaigns = {c1}
  Actions = {a1, a2}
  Nested = {{a1}}
  Targets = {"PRIVATE"}
  Requests = {r1, r2}
  Ops = {"read", "create", "propose", "approve", "reject", "start", "finish", "patch", "join", "mission"}
  Windows <- MCWindows
  Day = 1
  MaxNow = 2
INVARIANTS
  LifecycleAgrees
  NoticedOnce
PROPERTIES
  BoardRefined
SYMMETRY MCSymmetry
