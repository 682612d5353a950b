\* Who leads and decides: founding, requests, transfers, expulsions, dissolution, deactivation.
SPECIFICATION Spec
CONSTANTS
  None = None
  Users = {u1, u2}
  Clans = {c1, c2}
  Codes = {}
  Requests = {r1, r2}
  Ops = {"create", "join", "leave", "reject", "select", "transfer", "kick", "dissolve", "deactivate", "login"}
  MaxPrivate = 2
  MaxCodes = 1
  TTL = 1
  Retention = 0
  MaxNow = 0
SYMMETRY Symmetry
INVARIANTS EveryClanLed OneLeadership
PROPERTIES HistoryKept ByCurrentLeader DeactivatedHasNoClans
