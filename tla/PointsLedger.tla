------------------------------ MODULE PointsLedger ------------------------------
(***************************************************************************)
(* The points ledger of GreenITESO: how submitted actions, audits, store   *)
(* purchases and paid nickname changes move points between action logs,    *)
(* user profiles, clans, badges and mission progress while several HTTP    *)
(* requests run at once.                                                   *)
(*                                                                         *)
(* Every handler is one PostgreSQL transaction under READ COMMITTED.  A    *)
(* request slot r runs at most one handler.  The handler takes row locks   *)
(* (held[r]) in the order of its statements and waits while another        *)
(* request holds the row; what it reads goes to its private snapshot       *)
(* snap[r]; its writes become visible in one commit step that also         *)
(* releases its locks.  An exception or a lost connection rolls it back at *)
(* any point before that (Abort).                                          *)
(*                                                                         *)
(* Only locks that can conflict are recorded.  All of them are exclusive:  *)
(* NO KEY UPDATE on the user row (submissions, nickname changes), FOR      *)
(* UPDATE on the log row (audits), FOR UPDATE or the lock of an UPDATE on  *)
(* the profile row, and the lock of an UPDATE on a clan row.  The KEY      *)
(* SHARE locks of foreign-key inserts do not conflict with a NO KEY UPDATE *)
(* and no handler here locks a user or clan row more strongly.  The FOR    *)
(* UPDATE on a mission progress row is taken only by handlers that already *)
(* hold the profile row of the same user, which excludes the others first. *)
(***************************************************************************)
EXTENDS Integers, Sequences, FiniteSets, FiniteSetsExt, Sums

CONSTANTS
  Users, Actions, Keys,        \* accounts, catalog actions, idempotency keys
  InstClans, PrivClans,        \* institutional and private clans
  Items, Badges, Missions,     \* store items, badges, campaign missions
  Names,                       \* nicknames
  Requests,                    \* request slots: transactions that may overlap
  Entries,                     \* values a catalog row may hold
  DailyLimit,                  \* ActionMaster.daily_limit of every action
  Prices,                      \* values ExchangeableItem.points_cost may hold
  BadgeAt,                     \* Badge.points_required
  MissionAction, MissionTarget,\* Mission.action, Mission.target_count
  MissionStart, MissionEnd,    \* campaign window [start, end) in days
  Enrolled,                    \* CampaignParticipant rows, as user-mission pairs
  NicknameCost,                \* NICKNAME_CHANGE_COST_POINTS
  StreakWindow,                \* STREAK_WINDOW_DAYS
  Extras,                      \* optional parts of a submission a client sends
  None,                        \* SQL NULL
  MaxLogs, MaxDay, MaxRenames  \* bounds on rows, days and nickname changes

ASSUME LedgerAssumption ==
  /\ \A e \in Entries : /\ DOMAIN e = {"points", "photo", "active"}
                        /\ e.points \in Nat \ {0}
                        /\ e.photo \in BOOLEAN
                        /\ e.active \in BOOLEAN
  /\ DailyLimit \in [Actions -> Nat \ {0}]
  /\ Prices \subseteq Nat \ {0}
  /\ BadgeAt \in [Badges -> Nat]
  /\ MissionAction \in [Missions -> Actions]
  /\ MissionTarget \in [Missions -> Nat \ {0}]
  /\ MissionStart \in [Missions -> Nat]
  /\ MissionEnd \in [Missions -> Nat]
  /\ Enrolled \subseteq Users \X Missions
  /\ NicknameCost \in Nat
  /\ StreakWindow \in Nat
  /\ Extras \subseteq SUBSET {"evidence", "shared"}
  /\ None \notin InstClans \cup PrivClans \cup Badges \cup Missions
  /\ InstClans \cap PrivClans = {}
  /\ MaxLogs \in Nat /\ MaxDay \in Nat \ {0} /\ MaxRenames \in Nat

VARIABLES
  catalog,     \* ActionMaster rows: points, photo validation, is_active
  shop,        \* ExchangeableItem rows: points_cost, or 0 when inactive
  today,       \* the calendar day in America/Mexico_City
  home,        \* UserProfile.institutional_clan
  favourite,   \* the clan of the membership flagged is_active_private
  logs,        \* ActionLog rows with their mission contributions, oldest first
  profile,     \* UserProfile: points, cosmetics, nickname changes, streak
  nickname,    \* User.nickname
  clanPoints,  \* Clan.total_points
  badges,      \* UserBadge rows
  progress,    \* UserMissionProgress.current_count
  inbox,       \* Notification rows
  feed,        \* SHARED_EVIDENCE posts, by the log they publish
  spent,       \* auxiliary: points charged to each user so far
  pc, input, snap, held  \* the running requests

environment == <<catalog, shop, today, home, favourite>>
ledger == <<logs, profile, nickname, clanPoints, badges, progress, inbox, feed,
            spent>>
vars == <<environment, ledger, pc, input, snap, held>>

--------------------------------------------------------------------------------
(* Rows, inputs and snapshots. *)

NoDay == 0
Days == 1..MaxDay
Clans == InstClans \cup PrivClans
Statuses == {"PENDING_AUDIT", "APPROVED", "REJECTED"}

LogRows == [user : Users, action : Actions, key : Keys,
            inst : InstClans, priv : PrivClans \cup {None},
            points : Nat, day : Days, status : Statuses,
            missions : SUBSET Missions]

ProfileRows == [total : Int, available : Int, items : SUBSET Items,
                renames : Nat, streak : Nat, last : Nat]

EmptyProfile == [total |-> 0, available |-> 0, items |-> {}, renames |-> 0,
                 streak |-> 0, last |-> NoDay]

(* A lockable row of the database. *)
UserRow(u) == <<"user", u>>
LogRow(l) == <<"log", l>>
ProfileRow(u) == <<"profile", u>>
ClanRow(c) == <<"clan", c>>

Submissions == [op : {"submit"}, user : Users, action : Actions, key : Keys,
                extras : Extras]
Audits == [op : {"approve", "reject"}, log : 1..MaxLogs]
Purchases == [op : {"redeem"}, user : Users, item : Items]
Renames == [op : {"rename"}, user : Users, name : Names]
NoInput == [op |-> "none"]

(* What a handler remembers between statements: the catalog or log values  *)
(* it credits, the profile instance it loaded, and the results it derived. *)
Blank == [points |-> 0, photo |-> FALSE, inst |-> None, priv |-> None,
          day |-> NoDay, was |-> "PENDING_AUDIT", row |-> EmptyProfile,
          cost |-> 0, award |-> {}, touched |-> {},
          counts |-> [m \in Missions |-> 0], streak |-> 0, last |-> NoDay]

LogIds == 1..Len(logs)

(* The account a running request works for. *)
UserOf(r) == IF input[r].op \in {"approve", "reject"}
               THEN logs[input[r].log].user
               ELSE input[r].user

--------------------------------------------------------------------------------
(* What the handlers compute. *)

(* count_user_action_logs_for_local_day: every status counts. *)
LogsOfDay(u, a, d) ==
  {l \in LogIds : logs[l].user = u /\ logs[l].action = a /\ logs[l].day = d}

(* Missions a log of u for action a created on day d counts toward. *)
EligibleMissions(u, a, d) ==
  {m \in Missions : /\ MissionAction[m] = a
                    /\ MissionStart[m] <= d /\ d < MissionEnd[m]
                    /\ <<u, m>> \in Enrolled}

(* Approved contributions of u to m in the log table ls, clamped. *)
MissionCount(ls, u, m) ==
  LET valid == {l \in 1..Len(ls) : /\ ls[l].user = u
                                   /\ ls[l].status = "APPROVED"
                                   /\ m \in ls[l].missions}
  IN  IF Cardinality(valid) < MissionTarget[m]
        THEN Cardinality(valid) ELSE MissionTarget[m]

(* Days on which u has an approved log, within the streak window. *)
ActiveDays(ls, u, d) ==
  {ls[l].day : l \in {k \in 1..Len(ls) : /\ ls[k].user = u
                                         /\ ls[k].status = "APPROVED"
                                         /\ ls[k].day >= d - StreakWindow}}

(* The consecutive active days that end today or yesterday. *)
StreakLength(days, d) ==
  LET cursor == IF d \in days THEN d ELSE d - 1
  IN  CHOOSE n \in 0..MaxDay :
        /\ \A i \in 0..n - 1 : cursor - i \in days
        /\ cursor - n \notin days

LastDay(days) == IF days = {} THEN NoDay ELSE Max(days)

(* nickname_change_cost *)
RenameCost(row) == IF row.renames = 0 THEN 0 ELSE NicknameCost

(* Mutant: the threshold itself does not qualify. *)
NewBadgesAboveOnly(u, total) == {b \in Badges : BadgeAt[b] < total} \ badges[u]

(* Badges check_and_award_badges still has to give at a total. *)
NewBadges(u, total) == {b \in Badges : BadgeAt[b] <= total} \ badges[u]

(* The log table as the transaction of r sees it after its own write to    *)
(* it, and as its commit leaves it.                                        *)
OwnLogs(r, touched) ==
  LET in == input[r]
      s == snap[r]
  IN  CASE in.op = "submit" ->
             Append(logs,
               [user |-> in.user, action |-> in.action, key |-> in.key,
                inst |-> s.inst, priv |-> s.priv,
                points |-> s.points, day |-> s.day,
                status |-> IF s.photo THEN "PENDING_AUDIT" ELSE "APPROVED",
                missions |-> touched])
        [] in.op = "approve" ->
             [logs EXCEPT ![in.log].status = "APPROVED",
                          ![in.log].missions = @ \cup touched]
        [] in.op = "reject" ->
             [logs EXCEPT ![in.log].status = "REJECTED"]
        [] OTHER -> logs

--------------------------------------------------------------------------------
(* Transactions: locks, early returns and rollback. *)

Free(r, row) == \A q \in Requests \ {r} : row \notin held[q]

Take(r, row) == /\ Free(r, row)
                /\ held' = [held EXCEPT ![r] = @ \cup {row}]

Goto(r, label) == pc' = [pc EXCEPT ![r] = label]

Remember(r, values) == snap' = [snap EXCEPT ![r] = values]

(* Mutant: the transaction is left open and keeps its locks. *)
EndKeepsLocks(r) == /\ pc' = [pc EXCEPT ![r] = "idle"]
                    /\ input' = [input EXCEPT ![r] = NoInput]
                    /\ snap' = [snap EXCEPT ![r] = Blank]
                    /\ UNCHANGED held

(* The transaction ends, its locks are released and the slot is free. *)
End(r) == /\ pc' = [pc EXCEPT ![r] = "idle"]
          /\ input' = [input EXCEPT ![r] = NoInput]
          /\ snap' = [snap EXCEPT ![r] = Blank]
          /\ held' = [held EXCEPT ![r] = {}]

(* An early return: nothing was written. *)
Refuse(r) == End(r) /\ UNCHANGED <<environment, ledger>>

(* An exception, a statement timeout or a lost connection: rollback. *)
Abort(r) == pc[r] # "idle" /\ Refuse(r)

(* Log rows the submissions under way may still add. *)
Submitting == {r \in Requests : input[r].op = "submit"}

FirstLabel(in) == CASE in.op \in {"submit", "rename"} -> "user"
                    [] in.op \in {"approve", "reject"} -> "log"
                    [] in.op = "redeem" -> "profile"

(* A request arrives.  The guards are the bounds of the model. *)
Start(r) ==
  /\ pc[r] = "idle"
  /\ \E in \in Submissions \cup Audits \cup Purchases \cup Renames :
       /\ in.op = "submit" => Len(logs) + Cardinality(Submitting) < MaxLogs
       /\ in.op \in {"approve", "reject"} => in.log \in LogIds
       /\ in.op = "rename" => profile[in.user].renames < MaxRenames
       /\ input' = [input EXCEPT ![r] = in]
       /\ Goto(r, FirstLabel(in))
  /\ UNCHANGED <<environment, ledger, snap, held>>

--------------------------------------------------------------------------------
(* Submitting an action: ActionLogCreateView._create_action_log *)

(* Mutant: the user row is read without locking it. *)
LockUserPlainRead(r) ==
  /\ pc[r] = "user"
  /\ Goto(r, IF input[r].op = "submit" THEN "check" ELSE "profile")
  /\ UNCHANGED <<environment, ledger, input, snap, held>>

(* The user row is locked first, by submissions and nickname changes. *)
LockUser(r) ==
  /\ pc[r] = "user"
  /\ Take(r, UserRow(input[r].user))
  /\ Goto(r, IF input[r].op = "submit" THEN "check" ELSE "profile")
  /\ UNCHANGED <<environment, ledger, input, snap>>

(* The idempotency key was used by this user before. *)
KeyUsed(u, k) == \E l \in LogIds : logs[l].user = u /\ logs[l].key = k

(* Mutant: no early return for a user without an institutional clan. *)
SubmittableAnyHome(in) ==
  LET entry == catalog[in.action]
  IN  /\ ~KeyUsed(in.user, in.key)
      /\ entry.active
      /\ entry.photo => "evidence" \in in.extras
      /\ Cardinality(LogsOfDay(in.user, in.action, today))
           < DailyLimit[in.action]

(* The conditions under which the request goes on to create a log. *)
Submittable(in) ==
  LET entry == catalog[in.action]
  IN  /\ ~KeyUsed(in.user, in.key)
      /\ entry.active
      /\ entry.photo => "evidence" \in in.extras
      /\ Cardinality(LogsOfDay(in.user, in.action, today))
           < DailyLimit[in.action]
      /\ home[in.user] # None

CheckSubmission(r) ==
  LET in == input[r]
      entry == catalog[in.action]
  IN  /\ pc[r] = "check"
      /\ \/ ~Submittable(in) /\ Refuse(r)
         \/ /\ Submittable(in)
            /\ Remember(r, [snap[r] EXCEPT !.points = entry.points,
                                           !.photo = entry.photo,
                                           !.inst = home[in.user],
                                           !.priv = favourite[in.user]])
            /\ Goto(r, "insert")
            /\ UNCHANGED <<environment, ledger, input, held>>

(* The INSERT stamps created_at; a log that needs no audit is credited. *)
InsertLog(r) ==
  /\ pc[r] = "insert"
  /\ Remember(r, [snap[r] EXCEPT !.day = today])
  /\ Goto(r, IF snap[r].photo THEN "commit" ELSE "profile")
  /\ UNCHANGED <<environment, ledger, input, held>>

--------------------------------------------------------------------------------
(* Auditing a log: ActionLogAuditView.patch *)

Auditable(op) == IF op = "reject" THEN {"PENDING_AUDIT", "APPROVED"}
                                  ELSE {"PENDING_AUDIT"}

(* Mutant: the user's current private clan instead of the recorded one. *)
LogWithCurrentClan(r, log) ==
  [snap[r] EXCEPT !.points = log.points, !.inst = log.inst,
                  !.priv = favourite[log.user], !.day = log.day,
                  !.was = log.status]

(* The values frozen on the log, kept with the status it was found in. *)
LogValues(r, log) ==
  [snap[r] EXCEPT !.points = log.points, !.inst = log.inst,
                  !.priv = log.priv, !.day = log.day, !.was = log.status]

(* Points move unless the rejected log was still pending. *)
AfterLog(r, log) == IF input[r].op = "approve" \/ log.status = "APPROVED"
                      THEN "profile" ELSE "derive"

(* Mutant: the log is selected without FOR UPDATE. *)
LockLogPlainRead(r) ==
  LET log == logs[input[r].log]
  IN  /\ pc[r] = "log"
      /\ \/ log.status \notin Auditable(input[r].op) /\ Refuse(r)
         \/ /\ log.status \in Auditable(input[r].op)
            /\ Remember(r, LogValues(r, log))
            /\ Goto(r, AfterLog(r, log))
            /\ UNCHANGED <<environment, ledger, input, held>>

(* SELECT ... FOR UPDATE with the status filter, evaluated again after a   *)
(* wait: a log that is no longer auditable answers 404.                    *)
LockLog(r) ==
  LET log == logs[input[r].log]
  IN  /\ pc[r] = "log"
      /\ \/ log.status \notin Auditable(input[r].op) /\ Refuse(r)
         \/ /\ log.status \in Auditable(input[r].op)
            /\ Take(r, LogRow(input[r].log))
            /\ Remember(r, LogValues(r, log))
            /\ Goto(r, AfterLog(r, log))
            /\ UNCHANGED <<environment, ledger, input>>

--------------------------------------------------------------------------------
(* The profile row, where all movements of one user's points serialize. *)

(* UPDATE ... SET total = total + points: waits for the row, reads nothing. *)
LockProfileForCredit(r) ==
  /\ pc[r] = "profile" /\ input[r].op \in {"submit", "approve"}
  /\ Take(r, ProfileRow(UserOf(r)))
  /\ Goto(r, "inst")
  /\ UNCHANGED <<environment, ledger, input, snap>>

(* Mutant: spent points are revoked all the same. *)
LockProfileUnchecked(r) ==
  /\ pc[r] = "profile" /\ input[r].op = "reject"
  /\ Take(r, ProfileRow(UserOf(r)))
  /\ Goto(r, "inst")
  /\ UNCHANGED <<environment, ledger, input, snap>>

(* revoke_awarded_points: SELECT ... FOR UPDATE, then the balance check. *)
LockProfileForRevocation(r) ==
  LET u == UserOf(r)
  IN  /\ pc[r] = "profile" /\ input[r].op = "reject"
      /\ Free(r, ProfileRow(u))
      /\ \/ profile[u].available < snap[r].points /\ Refuse(r)
         \/ /\ profile[u].available >= snap[r].points
            /\ Take(r, ProfileRow(u))
            /\ Goto(r, "inst")
            /\ UNCHANGED <<environment, ledger, input, snap>>

(* The item is on sale, not yet owned and affordable. *)
Redeemable(in) == /\ shop[in.item] # 0
                  /\ in.item \notin profile[in.user].items
                  /\ profile[in.user].available >= shop[in.item]

(* Mutant: the profile is loaded without select_for_update. *)
RedeemPlainRead(r) ==
  LET in == input[r]
  IN  /\ pc[r] = "profile" /\ in.op = "redeem"
      /\ \/ ~Redeemable(in) /\ Refuse(r)
         \/ /\ Redeemable(in)
            /\ Remember(r, [snap[r] EXCEPT !.row = profile[in.user],
                                           !.cost = shop[in.item]])
            /\ Goto(r, "commit")
            /\ UNCHANGED <<environment, ledger, input, held>>

(* redeem_exchangeable: the item is read after the profile row is locked. *)
LockProfileForRedeem(r) ==
  LET in == input[r]
  IN  /\ pc[r] = "profile" /\ in.op = "redeem"
      /\ Free(r, ProfileRow(in.user))
      /\ \/ ~Redeemable(in) /\ Refuse(r)
         \/ /\ Redeemable(in)
            /\ Take(r, ProfileRow(in.user))
            /\ Remember(r, [snap[r] EXCEPT !.row = profile[in.user],
                                           !.cost = shop[in.item]])
            /\ Goto(r, "commit")
            /\ UNCHANGED <<environment, ledger, input>>

(* The nickname is a new one and the balance covers the change. *)
Renamable(in) ==
  /\ in.name # nickname[in.user]
  /\ profile[in.user].available >= RenameCost(profile[in.user])

(* change_nickname: the nickname is read again under the lock. *)
LockProfileForRename(r) ==
  LET in == input[r]
  IN  /\ pc[r] = "profile" /\ in.op = "rename"
      /\ Free(r, ProfileRow(in.user))
      /\ \/ ~Renamable(in) /\ Refuse(r)
         \/ /\ Renamable(in)
            /\ Take(r, ProfileRow(in.user))
            /\ Remember(r, [snap[r] EXCEPT
                              !.row = profile[in.user],
                              !.cost = RenameCost(profile[in.user])])
            /\ Goto(r, "commit")
            /\ UNCHANGED <<environment, ledger, input>>

(* Mutant: a revocation visits the clans in the opposite order. *)
ClanOrderByPlan(r) == IF input[r].op = "reject" /\ snap[r].priv # None
                        THEN <<snap[r].priv, snap[r].inst>>
                        ELSE <<snap[r].inst, snap[r].priv>>

(* The institutional clan is updated before the private one. *)
ClanOrder(r) == <<snap[r].inst, snap[r].priv>>

LockInstClan(r) ==
  /\ pc[r] = "inst"
  /\ Take(r, ClanRow(ClanOrder(r)[1]))
  /\ Goto(r, IF snap[r].priv = None THEN "derive" ELSE "priv")
  /\ UNCHANGED <<environment, ledger, input, snap>>

LockPrivClan(r) ==
  /\ pc[r] = "priv"
  /\ Take(r, ClanRow(ClanOrder(r)[2]))
  /\ Goto(r, "derive")
  /\ UNCHANGED <<environment, ledger, input, snap>>

--------------------------------------------------------------------------------
(* What follows a change of status: badges, missions and the streak. *)

(* Missions whose progress the log's new status recalculates. *)
TouchedMissions(r) ==
  LET in == input[r]
  IN  IF in.op = "reject" THEN logs[in.log].missions
      ELSE EligibleMissions(UserOf(r),
             IF in.op = "submit" THEN in.action ELSE logs[in.log].action,
             snap[r].day)

(* What badges, missions and the streak come to for the log table the      *)
(* handler sees.  The points are already added to the profile row, and     *)
(* refreshed from it, when the badges are computed; a rejection awards     *)
(* none.                                                                   *)
Derived(r, table) ==
  LET u == UserOf(r)
      days == ActiveDays(table, u, today)
  IN  [snap[r] EXCEPT
        !.award = IF input[r].op = "reject" THEN {}
                  ELSE NewBadges(u, profile[u].total + snap[r].points),
        !.touched = TouchedMissions(r),
        !.counts = [m \in Missions |-> MissionCount(table, u, m)],
        !.streak = StreakLength(days, today),
        !.last = LastDay(days)]

(* The profile row is not locked yet: no points moved. *)
RejectsPending(r) == input[r].op = "reject" /\ snap[r].was = "PENDING_AUDIT"

(* Mutant: the recalculation runs before the new status is saved. *)
DeriveTooEarly(r) ==
  /\ pc[r] = "derive"
  /\ Remember(r, Derived(r, logs))
  /\ Goto(r, IF RejectsPending(r) THEN "streak" ELSE "commit")
  /\ UNCHANGED <<environment, ledger, input, held>>

(* The missions and the day set of recalculate_streak are counted after    *)
(* the new status and the contributions of this log are written.           *)
Derive(r) ==
  /\ pc[r] = "derive"
  /\ Remember(r, Derived(r, OwnLogs(r, TouchedMissions(r))))
  /\ Goto(r, IF RejectsPending(r) THEN "streak" ELSE "commit")
  /\ UNCHANGED <<environment, ledger, input, held>>

(* After the rejection of a pending log the stored streak is read without  *)
(* a lock, and only a different one is written.                            *)
CompareStreak(r) ==
  LET row == profile[UserOf(r)]
  IN  /\ pc[r] = "streak"
      /\ Goto(r, IF row.streak = snap[r].streak /\ row.last = snap[r].last
                   THEN "commit" ELSE "save")
      /\ UNCHANGED <<environment, ledger, input, snap, held>>

SaveStreak(r) ==
  /\ pc[r] = "save"
  /\ Take(r, ProfileRow(UserOf(r)))
  /\ Goto(r, "commit")
  /\ UNCHANGED <<environment, ledger, input, snap>>

--------------------------------------------------------------------------------
(* Commits: the writes of a transaction become visible together. *)

SaveProfile(u, row) == profile' = [profile EXCEPT ![u] = row]

(* F() updates add to the value the row has when it is locked. *)
AddPoints(r, u, n) ==
  /\ SaveProfile(u, [profile[u] EXCEPT !.total = @ + n, !.available = @ + n,
                                       !.streak = snap[r].streak,
                                       !.last = snap[r].last])
  /\ clanPoints' = [c \in Clans |->
       IF c \in {snap[r].inst, snap[r].priv} THEN clanPoints[c] + n
                                            ELSE clanPoints[c]]

(* The progress rows of the touched missions take the recalculated count. *)
SaveProgress(r, u) ==
  progress' = [progress EXCEPT ![u] =
                 [m \in Missions |-> IF m \in snap[r].touched
                                       THEN snap[r].counts[m] ELSE @[m]]]

Note(type, l, about) == [type |-> type, log |-> l, about |-> about]

(* Missions whose progress flips to completed. *)
Completed(r, u) ==
  {m \in snap[r].touched : /\ progress[u][m] < MissionTarget[m]
                           /\ snap[r].counts[m] >= MissionTarget[m]}

(* Notifications of badges and missions caused by the credit of log l. *)
RewardNotes(r, u, l) ==
  {Note("BADGE_EARNED", l, b) : b \in snap[r].award}
    \cup {Note("MISSION_COMPLETED", l, m) : m \in Completed(r, u)}

(* A photo log waits for its audit: nothing is credited. *)
CommitPending(r) ==
  /\ pc[r] = "commit" /\ input[r].op = "submit" /\ snap[r].photo
  /\ logs' = OwnLogs(r, {})
  /\ feed' = feed \cup {l \in {Len(logs) + 1} : "shared" \in input[r].extras}
  /\ End(r)
  /\ UNCHANGED <<environment, profile, nickname, clanPoints, badges, progress,
                 inbox, spent>>

(* A log that needs no audit is credited in the transaction that adds it. *)
CommitCredited(r) ==
  LET u == input[r].user
      l == Len(logs) + 1
  IN  /\ pc[r] = "commit" /\ input[r].op = "submit" /\ ~snap[r].photo
      /\ logs' = OwnLogs(r, snap[r].touched)
      /\ feed' = feed \cup {k \in {l} : "shared" \in input[r].extras}
      /\ AddPoints(r, u, snap[r].points)
      /\ badges' = [badges EXCEPT ![u] = @ \cup snap[r].award]
      /\ SaveProgress(r, u)
      /\ inbox' = inbox \cup RewardNotes(r, u, l)
      /\ End(r)
      /\ UNCHANGED <<environment, nickname, spent>>

CommitApproval(r) ==
  LET u == UserOf(r)
      l == input[r].log
  IN  /\ pc[r] = "commit" /\ input[r].op = "approve"
      /\ logs' = OwnLogs(r, snap[r].touched)
      /\ AddPoints(r, u, snap[r].points)
      /\ badges' = [badges EXCEPT ![u] = @ \cup snap[r].award]
      /\ SaveProgress(r, u)
      /\ inbox' = inbox \cup RewardNotes(r, u, l)
                         \cup {Note("AUDIT_APPROVED", l, None)}
      /\ End(r)
      /\ UNCHANGED <<environment, nickname, feed, spent>>

(* An approved log is rejected: the credit is taken back. *)
CommitRevocation(r) ==
  LET u == UserOf(r)
      l == input[r].log
  IN  /\ pc[r] = "commit" /\ input[r].op = "reject" /\ snap[r].was = "APPROVED"
      /\ logs' = OwnLogs(r, {})
      /\ AddPoints(r, u, -snap[r].points)
      /\ SaveProgress(r, u)
      /\ inbox' = inbox \cup RewardNotes(r, u, l)
                         \cup {Note("AUDIT_REJECT", l, None)}
      /\ End(r)
      /\ UNCHANGED <<environment, nickname, badges, feed, spent>>

(* A pending log is rejected: only the streak may have been recalculated,  *)
(* and it is written when the profile row was locked for it.               *)
CommitRejection(r) ==
  LET u == UserOf(r)
      l == input[r].log
  IN  /\ pc[r] = "commit" /\ RejectsPending(r)
      /\ logs' = OwnLogs(r, {})
      /\ SaveProfile(u, IF ProfileRow(u) \in held[r]
                          THEN [profile[u] EXCEPT !.streak = snap[r].streak,
                                                  !.last = snap[r].last]
                          ELSE profile[u])
      /\ SaveProgress(r, u)
      /\ inbox' = inbox \cup RewardNotes(r, u, l)
                         \cup {Note("AUDIT_REJECT", l, None)}
      /\ End(r)
      /\ UNCHANGED <<environment, nickname, clanPoints, badges, feed, spent>>

(* The loaded profile instance is saved with the fields it changed. *)
CommitRedeem(r) ==
  LET in == input[r]
      s == snap[r]
  IN  /\ pc[r] = "commit" /\ in.op = "redeem"
      /\ SaveProfile(in.user,
           [profile[in.user] EXCEPT !.available = s.row.available - s.cost,
                                    !.items = s.row.items \cup {in.item}])
      /\ spent' = [spent EXCEPT ![in.user] = @ + s.cost]
      /\ End(r)
      /\ UNCHANGED <<environment, logs, nickname, clanPoints, badges, progress,
                     inbox, feed>>

CommitRename(r) ==
  LET in == input[r]
      s == snap[r]
  IN  /\ pc[r] = "commit" /\ in.op = "rename"
      /\ SaveProfile(in.user,
           [profile[in.user] EXCEPT !.available = s.row.available - s.cost,
                                    !.renames = s.row.renames + 1])
      /\ nickname' = [nickname EXCEPT ![in.user] = in.name]
      /\ spent' = [spent EXCEPT ![in.user] = @ + s.cost]
      /\ End(r)
      /\ UNCHANGED <<environment, logs, clanPoints, badges, progress, inbox,
                     feed>>

--------------------------------------------------------------------------------
(* What changes around the ledger. *)

(* Midnight in Mexico City. *)
Tick == /\ today < MaxDay
        /\ today' = today + 1
        /\ UNCHANGED <<catalog, shop, home, favourite, ledger, pc, input, snap,
                       held>>

(* An administrator or a catalog release edits an action. *)
EditAction(a) ==
  /\ \E e \in Entries : catalog' = [catalog EXCEPT ![a] = e]
  /\ UNCHANGED <<shop, today, home, favourite, ledger, pc, input, snap, held>>

(* An administrator edits the price of an item or takes it off the shop. *)
EditItem(i) ==
  /\ \E p \in Prices \cup {0} : shop' = [shop EXCEPT ![i] = p]
  /\ UNCHANGED <<catalog, today, home, favourite, ledger, pc, input, snap, held>>

(* Onboarding assigns the institutional clan, and assigns another one when *)
(* it is run again with another career.  Its UPDATE waits for the profile  *)
(* row.                                                                    *)
AssignHome(u) ==
  /\ \A r \in Requests : ProfileRow(u) \notin held[r]
  /\ \E c \in InstClans : home' = [home EXCEPT ![u] = c]
  /\ UNCHANGED <<catalog, shop, today, favourite, ledger, pc, input, snap, held>>

(* The active private clan changes: the user selects one, which locks the  *)
(* user row, or loses it when the clan is left or dissolved.               *)
SetFavourite(u) ==
  /\ \E c \in PrivClans \cup {None} :
       /\ c # None => \A r \in Requests : UserRow(u) \notin held[r]
       /\ favourite' = [favourite EXCEPT ![u] = c]
  /\ UNCHANGED <<catalog, shop, today, home, ledger, pc, input, snap, held>>

--------------------------------------------------------------------------------

Init ==
  /\ catalog \in [Actions -> Entries]
  /\ shop \in [Items -> Prices \cup {0}]
  /\ today = 1
  /\ home \in [Users -> InstClans \cup {None}]
  /\ favourite = [u \in Users |-> None]
  /\ logs = <<>>
  /\ profile = [u \in Users |-> EmptyProfile]
  /\ nickname \in [Users -> Names]
  /\ clanPoints = [c \in Clans |-> 0]
  /\ badges = [u \in Users |-> {}]
  /\ progress = [u \in Users |-> [m \in Missions |-> 0]]
  /\ inbox = {}
  /\ feed = {}
  /\ spent = [u \in Users |-> 0]
  /\ pc = [r \in Requests |-> "idle"]
  /\ input = [r \in Requests |-> NoInput]
  /\ snap = [r \in Requests |-> Blank]
  /\ held = [r \in Requests |-> {}]

(* The statements of a running handler, commit included. *)
Step(r) ==
  \/ LockUser(r) \/ CheckSubmission(r) \/ InsertLog(r) \/ LockLog(r)
  \/ LockProfileForCredit(r) \/ LockProfileForRevocation(r)
  \/ LockProfileForRedeem(r) \/ LockProfileForRename(r)
  \/ LockInstClan(r) \/ LockPrivClan(r)
  \/ Derive(r) \/ CompareStreak(r) \/ SaveStreak(r)
  \/ CommitPending(r) \/ CommitCredited(r) \/ CommitApproval(r)
  \/ CommitRevocation(r) \/ CommitRejection(r)
  \/ CommitRedeem(r) \/ CommitRename(r)

Environment ==
  \/ Tick
  \/ \E a \in Actions : EditAction(a)
  \/ \E i \in Items : EditItem(i)
  \/ \E u \in Users : AssignHome(u) \/ SetFavourite(u)

Next == (\E r \in Requests : Start(r) \/ Step(r) \/ Abort(r)) \/ Environment

Spec == Init /\ [][Next]_vars

(* A waiting statement is granted its lock when it is its turn in the      *)
(* row's queue, and a handler that may run is scheduled.                   *)
FairSpec == Spec /\ \A r \in Requests : SF_vars(Step(r))

--------------------------------------------------------------------------------
(* Properties. *)

Labels == {"idle", "user", "check", "insert", "log", "profile", "inst", "priv",
           "derive", "streak", "save", "commit"}

Snapshots == [points : Nat, photo : BOOLEAN,
              inst : InstClans \cup {None}, priv : PrivClans \cup {None},
              day : Nat, was : Statuses, row : ProfileRows, cost : Nat,
              award : SUBSET Badges, touched : SUBSET Missions,
              counts : [Missions -> Nat], streak : Nat, last : Nat]

Rows == {UserRow(u) : u \in Users} \cup {LogRow(l) : l \in 1..MaxLogs}
          \cup {ProfileRow(u) : u \in Users} \cup {ClanRow(c) : c \in Clans}

Notes == [type : {"BADGE_EARNED", "MISSION_COMPLETED", "AUDIT_APPROVED",
                  "AUDIT_REJECT"},
          log : Nat, about : Badges \cup Missions \cup {None}]

Inputs == Submissions \cup Audits \cup Purchases \cup Renames \cup {NoInput}

TablesOK ==
  /\ catalog \in [Actions -> Entries]
  /\ shop \in [Items -> Prices \cup {0}]
  /\ today \in Days
  /\ home \in [Users -> InstClans \cup {None}]
  /\ favourite \in [Users -> PrivClans \cup {None}]
  /\ logs \in Seq(LogRows)
  /\ profile \in [Users -> ProfileRows]
  /\ nickname \in [Users -> Names]
  /\ clanPoints \in [Clans -> Int]
  /\ badges \in [Users -> SUBSET Badges]
  /\ progress \in [Users -> [Missions -> Nat]]
  /\ inbox \subseteq Notes
  /\ feed \subseteq Nat
  /\ spent \in [Users -> Nat]

(* Every variable has its type: the columns of the tables behind the       *)
(* handlers of actions/views.py and the locals of a running request.       *)
TypeOK ==
  /\ TablesOK
  /\ pc \in [Requests -> Labels]
  /\ input \in [Requests -> Inputs]
  /\ snap \in [Requests -> Snapshots]
  /\ held \in [Requests -> SUBSET Rows]

(* What each log contributes to the total of user u, and of clan c. *)
CreditToUser(u) ==
  [l \in LogIds |-> IF logs[l].status = "APPROVED" /\ logs[l].user = u
                      THEN logs[l].points ELSE 0]

CreditToClan(c) ==
  [l \in LogIds |-> IF logs[l].status = "APPROVED"
                        /\ c \in {logs[l].inst, logs[l].priv}
                      THEN logs[l].points ELSE 0]

(* The denormalised profile totals never drift from the logs: total_points *)
(* is the sum of the user's approved logs and available_points is that sum *)
(* less everything the user was charged, however submissions, audits,      *)
(* purchases and nickname changes overlap (F() updates of actions/views.py *)
(* against the read-modify-write of redeem_exchangeable/change_nickname).  *)
BalanceExact ==
  \A u \in Users :
    /\ profile[u].total = Sum(CreditToUser(u), Len(logs))
    /\ profile[u].available = profile[u].total - spent[u]

(* No interleaving of revocations, purchases and nickname changes drives   *)
(* the spendable balance below zero, which the CHECK constraint            *)
(* profile_available_points_nonnegative would turn into a server error.    *)
NeverOverdrawn == \A u \in Users : profile[u].available >= 0

(* A clan's total is the sum of the approved logs that recorded it as      *)
(* their institutional or credited private clan: a revocation undoes the   *)
(* credit in the clans of the log, whatever the user's clans and the       *)
(* catalog's points have become (revoke_awarded_points).                   *)
ClanTotalsExact ==
  \A c \in Clans : clanPoints[c] = Sum(CreditToClan(c), Len(logs))

(* The daily limit holds for every user, action and calendar day, also     *)
(* for a submission counted before midnight and inserted after it: the     *)
(* user row lock serialises the user's submissions.                        *)
DailyLimitKept ==
  \A u \in Users, a \in Actions, d \in Days :
    Cardinality(LogsOfDay(u, a, d)) <= DailyLimit[a]

(* A submission that passed the idempotency check never meets another log  *)
(* with its key: a concurrent duplicate is answered by the check, never by *)
(* the unique constraint on (user, idempotency_key).                       *)
ReplayNeverCollides ==
  \A r \in Requests :
    (/\ input[r].op = "submit"
     /\ pc[r] \in {"insert", "profile", "inst", "priv", "derive", "commit"})
      => ~KeyUsed(input[r].user, input[r].key)

(* Stored mission progress equals the clamped number of approved           *)
(* contributions after every commit, approvals and revocations of the same *)
(* user's logs by several administrators included.                         *)
MissionProgressExact ==
  \A u \in Users, m \in Missions : progress[u][m] = MissionCount(logs, u, m)

(* The notifications of type t about x that user u received. *)
NotesAbout(u, t, x) ==
  {n \in inbox : n.type = t /\ n.about = x /\ logs[n.log].user = u}

(* A user with points owns every badge whose threshold the total reaches,  *)
(* although each credit computes the badges on its own, and every owned    *)
(* badge was announced exactly once (check_and_award_badges).  A badge     *)
(* that requires 0 points, the default, comes with the first credit.       *)
BadgesComplete ==
  \A u \in Users, b \in Badges :
    /\ profile[u].total > 0 /\ BadgeAt[b] <= profile[u].total => b \in badges[u]
    /\ Cardinality(NotesAbout(u, "BADGE_EARNED", b))
         = IF b \in badges[u] THEN 1 ELSE 0

(* What a log keeps from its submission on. *)
Frozen(log) == <<log.user, log.action, log.key, log.inst, log.priv, log.points,
                 log.day>>

(* A step changes only the status of a log, along the verdicts, and the    *)
(* missions it contributes to.                                             *)
VerdictStep ==
  \A l \in LogIds :
    /\ l \in DOMAIN logs'
    /\ <<logs[l].status, logs'[l].status>> \in
         {<<"PENDING_AUDIT", "APPROVED">>, <<"PENDING_AUDIT", "REJECTED">>,
          <<"APPROVED", "REJECTED">>} \cup {<<s, s>> : s \in Statuses}
    /\ Frozen(logs'[l]) = Frozen(logs[l])

(* Two administrators who audit one log at once never both get their       *)
(* verdict recorded on the same state: a log is approved at most once and  *)
(* a rejection is final, and the row keeps what it froze at submission.    *)
AuditsOneWay == [][VerdictStep]_vars

(* Whenever points move, the same commit leaves the streak and the last    *)
(* action date that the committed logs yield on a day of the transaction:  *)
(* recalculate_streak runs after the new status is saved, under the        *)
(* profile lock.                                                           *)
StreakFollowsCredit ==
  [][\A u \in Users :
       profile'[u].total # profile[u].total =>
         \E d \in 1..today :
           LET days == ActiveDays(logs', u, d)
           IN  /\ profile'[u].streak = StreakLength(days, d)
               /\ profile'[u].last = LastDay(days)]_vars

(* The rows a request waits for. *)
Wanted(r) ==
  CASE pc[r] = "user" -> {UserRow(input[r].user)}
    [] pc[r] = "log" -> {LogRow(input[r].log)}
    [] pc[r] \in {"profile", "save"} -> {ProfileRow(UserOf(r))}
    [] pc[r] = "inst" -> {ClanRow(ClanOrder(r)[1])}
    [] pc[r] = "priv" -> {ClanRow(ClanOrder(r)[2])}
    [] OTHER -> {}

(* No set of handlers waits for each other's rows: submissions, audits,    *)
(* purchases and nickname changes agree on the order user, log, profile,   *)
(* institutional clan, private clan.                                       *)
NoDeadlock ==
  \A S \in (SUBSET Requests) \ {{}} :
    \E r \in S : \A q \in S \ {r} : Wanted(r) \cap held[q] = {}

(* Every request is answered. *)
RequestsFinish == \A r \in Requests : pc[r] # "idle" ~> pc[r] = "idle"

(* With no request under way, the stored last action date is the latest    *)
(* day on which the user has an approved log.                              *)
LastActionDateExact ==
  (\A r \in Requests : pc[r] = "idle") =>
    \A u \in Users :
      profile[u].last = LastDay({logs[l].day : l \in
        {k \in LogIds : logs[k].user = u /\ logs[k].status = "APPROVED"}})

================================================================================
