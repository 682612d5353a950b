\* Clans: two users whose logs credit the same institutional and private
\* clan, while their memberships and the catalog change.
SPECIFICATION Spec
CONSTANTS
  None = None
  a1 = a1
  Users = {u1, u2}
  Actions = {a1}
  Keys = {k1}
  InstClans = {i1, i2}
  PrivClans = {p1}
  Items = {}
  Badges = {}
  Missions = {}
  Names = {n1}
  Requests = {r1, r2}
  Entries <- Repriced
  DailyLimit <- LimitMany
  Prices <- NoPrices
  BadgeAt <- AtFourPoints
  MissionAction <- MissionOnFirst
  MissionTarget <- TargetTwo
  MissionStart <- FromDayOne
  MissionEnd <- UntilDayTwo
  Enrolled <- NobodyEnrolled
  NicknameCost = 2
  StreakWindow = 400
  Extras <- EvidenceOnly
  MaxLogs = 2
  MaxDay = 1
  MaxRenames = 0
SYMMETRY ClanSymmetry
INVARIANTS
  ClanTotalsExact
  NoDeadlock
