\* Audits: administrators who audit the logs of one user at the same time,
\* with a mission that needs two of them; every request ends.
SPECIFICATION FairSpec
CONSTANTS
  None = None
  a1 = a1
  Users = {u1}
  Actions = {a1}
  Keys = {k1, k2}
  InstClans = {i1}
  PrivClans = {}
  Items = {}
  Badges = {}
  Missions = {m1}
  Names = {n1}
  Requests = {r1, r2}
  Entries <- Repriced
  DailyLimit <- LimitMany
  Prices <- NoPrices
  BadgeAt <- AtFourPoints
  MissionAction <- MissionOnFirst
  MissionTarget <- TargetTwo
  MissionStart <- FromDayOne
  MissionEnd <- UntilDayTwo
  Enrolled <- Everyone
  NicknameCost = 2
  StreakWindow = 400
  Extras <- BareOrEvidence
  MaxLogs = 2
  MaxDay = 2
  MaxRenames = 0
INVARIANTS
  MissionProgressExact
PROPERTIES
  AuditsOneWay
  StreakFollowsCredit
  RequestsFinish
