\* Invite codes from creation to purge, and every request answered.
SPECIFICATION FairSpec
CONSTANTS
  None = None
  Users = {u1, u2}
  Clans = {c1}
  Codes = {i1, i2}
  Requests = {r1, r2}
  Ops = {"create", "join", "invite", "revoke", "redeem"}
  MaxPrivate = 1
  MaxCodes = 1
  TTL = 1
  Retention = 0
  MaxNow = 2
INVARIANTS CodeLimitKept
PROPERTIES CodesSingleUse RequestsFinish
