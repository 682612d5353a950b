\* Who belongs: four ways into a clan against the cap.
SPECIFICATION Spec
CONSTANTS
  None = None
  Users = {u1, u2, u3}
  Clans = {c1, c2}
  Codes = {i1}
  Requests = {r1, r2}
  Ops = {"create", "join", "accept", "edit", "invite", "redeem"}
  MaxPrivate = 1
  MaxCodes = 1
  TTL = 1
  Retention = 0
  MaxNow = 0
SYMMETRY Symmetry
INVARIANTS CapKept DecisionsNeverCross
PROPERTIES InviteOnlyGate
