\* StreakRace: rejecting a pending log races the approval of another one.
SPECIFICATION Spec
CONSTANTS
  None = None
  a1 = a1
  Users = {u1}
  Actions = {a1}
  Keys = {k1, k2}
  InstClans = {i1}
  PrivClans = {}
  Items = {}
  Badges = {}
  Missions = {}
  Names = {n1}
  Requests = {r1, r2}
  Entries <- PhotoOnly
  DailyLimit <- LimitMany
  Prices <- NoPrices
  BadgeAt <- AtFourPoints
  MissionAction <- MissionOnFirst
  MissionTarget <- TargetTwo
  MissionStart <- FromDayOne
  MissionEnd <- UntilDayTwo
  Enrolled <- NobodyEnrolled
  NicknameCost = 2
  StreakWindow = 400
  Extras <- EvidenceOnly
  MaxLogs = 2
  MaxDay = 1
  MaxRenames = 0
SYMMETRY RequestSymmetry
INVARIANTS
  LastActionDateExact
