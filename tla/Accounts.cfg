SPECIFICATION Spec
CONSTANTS
  r1 = r1
  r2 = r2
  None = None
  Users = {1, 2, 3}
  Tokens <- MCTokens
  Domain = {"e1", "e2", "e3", "e4"}
  StaffEmails = {"e4"}
  Careers = {"c1", "c2"}
  Slots = {1, 2}
  Requests = {r1, r2}
  Workloads <- MCWorkloads
  FirstRows <- MCRows
  MaxResets = 1
INVARIANTS
  ResetHolds
  PendingFresh
PROPERTIES
  AdminsRemain
  AdminsAudited
  CreditKept
  InstitutionKept
SYMMETRY MCSymmetry
