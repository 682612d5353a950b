\* Points of one user around midnight: submissions and their retries, audits,
\* purchases, nickname changes and catalog edits.
SPECIFICATION Spec
CONSTANTS
  None = None
  a1 = a1
  Users = {u1}
  Actions = {a1}
  Keys = {k1, k2}
  InstClans = {i1}
  PrivClans = {}
  Items = {x1}
  Badges = {b1}
  Missions = {}
  Names = {n1, n2}
  Requests = {r1, r2}
  Entries <- AnyEntry
  DailyLimit <- LimitOne
  Prices <- CheapPrice
  BadgeAt <- AtFourPoints
  MissionAction <- MissionOnFirst
  MissionTarget <- TargetTwo
  MissionStart <- FromDayOne
  MissionEnd <- UntilDayTwo
  Enrolled <- NobodyEnrolled
  NicknameCost = 2
  StreakWindow = 400
  Extras <- SharedOnly
  MaxLogs = 2
  MaxDay = 2
  MaxRenames = 1
SYMMETRY RequestSymmetry
INVARIANTS
  TypeOK
  BalanceExact
  NeverOverdrawn
  BadgesComplete
  DailyLimitKept
  ReplayNeverCollides
