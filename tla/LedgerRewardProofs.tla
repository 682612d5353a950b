--------------------------- MODULE LedgerRewardProofs ---------------------------
(***************************************************************************)
(* Badges, mission progress and the streak for any number of overlapping   *)
(* requests.  Each of them is derived from the approved logs of one user   *)
(* before the transaction commits, and is still right at the commit:       *)
(* whoever changes which logs of the user are approved holds the user's    *)
(* profile row (RewardsOK).                                                *)
(***************************************************************************)
EXTENDS LedgerMoneyProofs

(* The approved logs of v are the same rows in both tables. *)
SameApproved(ls, new, v) ==
  /\ Approved(new, v) = Approved(ls, v)
  /\ \A l \in Approved(ls, v) : new[l] = ls[l]

(* Progress and active days are functions of the approved logs. *)
LEMMA FromApproved ==
  ASSUME NEW ls, NEW u
  PROVE  /\ \A m : MissionCount(ls, u, m) = Clamp(m, Cardinality(CountSet(ls, u, m)))
         /\ \A d : ActiveDays(ls, u, d) = DaysOf(ls, Approved(ls, u), d)
<1>1. ASSUME NEW m
      PROVE  MissionCount(ls, u, m) = Clamp(m, Cardinality(CountSet(ls, u, m)))
  <2>1. CountSet(ls, u, m) = {l \in 1..Len(ls) : /\ ls[l].user = u
                                                /\ ls[l].status = "APPROVED"
                                                /\ m \in ls[l].missions}
    BY DEF CountSet, Approved
  <2>. QED
    BY <2>1 DEF MissionCount, Clamp
<1>2. ASSUME NEW d PROVE ActiveDays(ls, u, d) = DaysOf(ls, Approved(ls, u), d)
  <2>1. {k \in 1..Len(ls) : /\ ls[k].user = u /\ ls[k].status = "APPROVED"
                            /\ ls[k].day >= d - StreakWindow}
          = {k \in Approved(ls, u) : ls[k].day >= d - StreakWindow}
    BY DEF Approved
  <2>. QED
    BY <2>1 DEF ActiveDays, DaysOf
<1>. QED
  BY <1>1, <1>2

(* The same approved logs give the same progress. *)
LEMMA SameProgress ==
  ASSUME NEW ls, NEW new, NEW v, SameApproved(ls, new, v)
  PROVE  /\ \A m : CountSet(new, v, m) = CountSet(ls, v, m)
         /\ \A m : MissionCount(new, v, m) = MissionCount(ls, v, m)
<1>1. \A m : CountSet(new, v, m) = CountSet(ls, v, m)
  BY DEF SameApproved, CountSet
<1>. QED
  BY <1>1, FromApproved

(* And the same days. *)
LEMMA SameDays ==
  ASSUME NEW ls, NEW new, NEW S, \A l \in S : new[l] = ls[l]
  PROVE  \A d : DaysOf(new, S, d) = DaysOf(ls, S, d)
<1>1. ASSUME NEW d PROVE DaysOf(new, S, d) = DaysOf(ls, S, d)
  <2>1. {k \in S : new[k].day >= d - StreakWindow} = {k \in S : ls[k].day >= d - StreakWindow}
    OBVIOUS
  <2>. QED
    BY <2>1 DEF DaysOf
<1>. QED
  BY <1>1

(* The counted logs are finitely many. *)
LEMMA CountFinite ==
  ASSUME TablesOK, NEW u, NEW m
  PROVE  /\ IsFiniteSet(CountSet(logs, u, m))
         /\ Cardinality(CountSet(logs, u, m)) \in Nat
         /\ Len(logs) + 1 \notin CountSet(logs, u, m)
<1>1. Len(logs) \in Nat
  BY DEF TablesOK
<1>2. IsFiniteSet(1..Len(logs))
  BY <1>1, FS_Interval
<1>3. CountSet(logs, u, m) \subseteq 1..Len(logs)
  BY DEF CountSet, Approved
<1>4. IsFiniteSet(CountSet(logs, u, m))
  BY <1>2, <1>3, FS_Subset
<1>5. Cardinality(CountSet(logs, u, m)) \in Nat
  BY <1>4, FS_CardinalityType
<1>. QED
  BY <1>1, <1>3, <1>4, <1>5

--------------------------------------------------------------------------------
(* What the table a request sees holds besides the committed logs. *)

(* The request has locked the profile row and changes which logs count. *)
Moving(r) == /\ pc[r] \in {"derive", "commit"} /\ MovesPoints(r)
             /\ input[r].op \in {"submit", "approve", "reject"}

(* The count and the days of the table r sees, from the committed logs. *)
OwnTable(r, t) ==
  /\ \A m \in Missions :
       MissionCount(OwnLogs(r, t), UserOf(r), m)
         = Clamp(m, Cardinality(CountSet(logs, UserOf(r), m)) + Shift(r, t, m))
  /\ \A d : ActiveDays(OwnLogs(r, t), UserOf(r), d) = OwnDays(r, d)

(* A credited submission is one more approved log. *)
LEMMA SubmittedTable ==
  ASSUME Inv1, NEW r \in Requests, Moving(r), input[r].op = "submit", NEW t
  PROVE  OwnTable(r, t)
<1>. DEFINE u == UserOf(r)
            new == OwnLogs(r, t)
            n == Len(logs)
<1>1. TablesOK /\ logs \in Seq(LogRows) /\ n \in Nat /\ u = input[r].user
  BY DEF Inv1, TypeOK, TablesOK, UserOf
<1>2. ~snap[r].photo
  BY DEF Moving, MovesPoints
<1>3. PICK x : /\ new = Append(logs, x) /\ x.user = u /\ x.day = snap[r].day
               /\ x.status = "APPROVED" /\ x.missions = t
  <2>. DEFINE y == [user |-> input[r].user, action |-> input[r].action,
                    key |-> input[r].key, inst |-> snap[r].inst,
                    priv |-> snap[r].priv, points |-> snap[r].points,
                    day |-> snap[r].day,
                    status |-> IF snap[r].photo THEN "PENDING_AUDIT" ELSE "APPROVED",
                    missions |-> t]
  <2>1. new = Append(logs, y)
    BY DEF OwnLogs
  <2>2. /\ y.user = u /\ y.day = snap[r].day /\ y.status = "APPROVED"
        /\ y.missions = t
    BY <1>1, <1>2
  <2>. QED
    BY <2>1, <2>2
<1>4. /\ Len(new) = n + 1 /\ new[n + 1] = x
      /\ \A l \in 1..n : new[l] = logs[l]
  BY <1>1, <1>3
<1>. HIDE DEF n, new, u
<1>5. 1..n + 1 = (1..n) \cup {n + 1} /\ n + 1 \notin 1..n
  BY <1>1
<1>6. Approved(new, u) = Approved(logs, u) \cup {n + 1}
  BY <1>3, <1>4, <1>5 DEF Approved, n
<1>7. Approved(logs, u) \subseteq 1..n
  BY DEF Approved, n
<1>8. ASSUME NEW m \in Missions
      PROVE  MissionCount(new, u, m)
               = Clamp(m, Cardinality(CountSet(logs, u, m)) + Shift(r, t, m))
  <2>1. CountSet(new, u, m) = CountSet(logs, u, m) \cup
          (IF m \in t THEN {n + 1} ELSE {})
    BY <1>3, <1>4, <1>6, <1>7 DEF CountSet
  <2>2. /\ IsFiniteSet(CountSet(logs, u, m)) /\ n + 1 \notin CountSet(logs, u, m)
        /\ Cardinality(CountSet(logs, u, m)) \in Nat
    BY <1>1, CountFinite DEF n
  <2>3. CASE m \in t
    <3>1. CountSet(new, u, m) = CountSet(logs, u, m) \cup {n + 1}
      BY <2>1, <2>3
    <3>2. Cardinality(CountSet(new, u, m)) = Cardinality(CountSet(logs, u, m)) + 1
      BY <2>2, <3>1, FS_AddElement
    <3>3. Shift(r, t, m) = 1
      BY <2>3 DEF Shift
    <3>. QED
      BY <3>2, <3>3, FromApproved
  <2>4. CASE m \notin t
    <3>1. CountSet(new, u, m) = CountSet(logs, u, m) \cup {}
      BY <2>1, <2>4
    <3>2. CountSet(new, u, m) = CountSet(logs, u, m)
      BY <3>1
    <3>3. Shift(r, t, m) = 0
      BY <2>4 DEF Shift
    <3>4. Cardinality(CountSet(logs, u, m)) + 0 = Cardinality(CountSet(logs, u, m))
      BY <2>2
    <3>. QED
      BY <3>2, <3>3, <3>4, FromApproved
  <2>. QED
    BY <2>3, <2>4
<1>9. ASSUME NEW d PROVE ActiveDays(new, u, d) = OwnDays(r, d)
  <2>1. ActiveDays(new, u, d) = DaysOf(new, Approved(logs, u) \cup {n + 1}, d)
    BY <1>6, FromApproved
  <2>2. DaysOf(new, Approved(logs, u) \cup {n + 1}, d)
          = DaysOf(logs, Approved(logs, u), d)
              \cup {y \in {snap[r].day} : y >= d - StreakWindow}
    BY <1>3, <1>4, <1>7 DEF DaysOf
  <2>. QED
    BY <2>1, <2>2 DEF OwnDays, u
<1>. QED
  BY <1>8, <1>9 DEF OwnTable, u, new

(* The row an audit rewrites. *)
LEMMA VerdictRow ==
  ASSUME Inv1, NEW r \in Requests, input[r].op \in {"approve", "reject"}, NEW t
  PROVE  LET j == input[r].log
             new == OwnLogs(r, t)
         IN  /\ j \in 1..Len(logs) /\ Len(new) = Len(logs)
             /\ \A l \in 1..Len(logs) : l # j => new[l] = logs[l]
             /\ new[j].user = logs[j].user /\ new[j].day = logs[j].day
             /\ new[j].status = IF input[r].op = "approve" THEN "APPROVED"
                                                           ELSE "REJECTED"
             /\ new[j].missions = IF input[r].op = "approve"
                                    THEN logs[j].missions \cup t ELSE logs[j].missions
<1>. DEFINE j == input[r].log
            new == OwnLogs(r, t)
<1>1. logs \in Seq(LogRows) /\ Len(logs) \in Nat
  BY DEF Inv1, TypeOK, TablesOK
<1>2. j \in 1..Len(logs)
  BY RequestTypes DEF LogExists, LogIds
<1>3. logs[j] \in LogRows
  BY <1>1, <1>2
<1>4. PICK x : /\ new = [logs EXCEPT ![j] = x]
               /\ x = IF input[r].op = "approve"
                        THEN [logs[j] EXCEPT !.status = "APPROVED",
                                             !.missions = @ \cup t]
                        ELSE [logs[j] EXCEPT !.status = "REJECTED"]
  BY <1>1, <1>2 DEF OwnLogs
<1>5. /\ x.user = logs[j].user /\ x.day = logs[j].day
      /\ x.status = IF input[r].op = "approve" THEN "APPROVED" ELSE "REJECTED"
      /\ x.missions = IF input[r].op = "approve" THEN logs[j].missions \cup t
                                                ELSE logs[j].missions
  BY <1>3, <1>4 DEF LogRows
<1>. HIDE DEF new, j
<1>6. new = [logs EXCEPT ![j] = x]
  BY <1>4
<1>7. new[j] = x /\ Len(new) = Len(logs)
  BY <1>1, <1>2, <1>6
<1>8. \A l \in 1..Len(logs) : l # j => new[l] = logs[l]
  BY <1>1, <1>2, <1>6
<1>. QED
  BY <1>2, <1>5, <1>7, <1>8 DEF new, j

(* An approved log joins the approved logs, a revoked one leaves them. *)
LEMMA ApprovedTable ==
  ASSUME Inv1, NEW r \in Requests, LogFresh(r), PendingOK, Moving(r),
         input[r].op = "approve", NEW t
  PROVE  OwnTable(r, t)
<1>. DEFINE u == UserOf(r)
            new == OwnLogs(r, t)
            j == input[r].log
<1>1. TablesOK /\ u = logs[j].user
  BY DEF Inv1, TypeOK, UserOf
<1>2. /\ j \in 1..Len(logs) /\ Len(new) = Len(logs)
      /\ \A l \in 1..Len(logs) : l # j => new[l] = logs[l]
      /\ new[j].user = u /\ new[j].day = logs[j].day
      /\ new[j].status = "APPROVED" /\ new[j].missions = logs[j].missions \cup t
  BY <1>1, VerdictRow
<1>3. logs[j].status = "PENDING_AUDIT" /\ snap[r].day = logs[j].day
  BY DEF LogFresh, Auditing, Moving, Auditable
<1>4. logs[j].missions = {}
  BY <1>2, <1>3 DEF PendingOK, LogIds
<1>. HIDE DEF u, new, j
<1>5. Approved(new, u) = Approved(logs, u) \cup {j} /\ j \notin Approved(logs, u)
  BY <1>2, <1>3 DEF Approved
<1>6. \A l \in Approved(logs, u) : new[l] = logs[l]
  BY <1>2, <1>5 DEF Approved
<1>7. ASSUME NEW m \in Missions
      PROVE  MissionCount(new, u, m)
               = Clamp(m, Cardinality(CountSet(logs, u, m)) + Shift(r, t, m))
  <2>1. CountSet(new, u, m) = CountSet(logs, u, m) \cup (IF m \in t THEN {j} ELSE {})
    BY <1>2, <1>4, <1>5, <1>6 DEF CountSet
  <2>2. /\ IsFiniteSet(CountSet(logs, u, m)) /\ j \notin CountSet(logs, u, m)
        /\ Cardinality(CountSet(logs, u, m)) \in Nat
    BY <1>1, <1>5, CountFinite DEF CountSet
  <2>3. CASE m \in t
    <3>1. CountSet(new, u, m) = CountSet(logs, u, m) \cup {j}
      BY <2>1, <2>3
    <3>2. Cardinality(CountSet(new, u, m)) = Cardinality(CountSet(logs, u, m)) + 1
      BY <2>2, <3>1, FS_AddElement
    <3>3. Shift(r, t, m) = 1
      BY <2>3 DEF Shift
    <3>. QED
      BY <3>2, <3>3, FromApproved
  <2>4. CASE m \notin t
    <3>1. CountSet(new, u, m) = CountSet(logs, u, m) \cup {}
      BY <2>1, <2>4
    <3>2. CountSet(new, u, m) = CountSet(logs, u, m)
      BY <3>1
    <3>3. Shift(r, t, m) = 0
      BY <2>4 DEF Shift
    <3>4. Cardinality(CountSet(logs, u, m)) + 0 = Cardinality(CountSet(logs, u, m))
      BY <2>2
    <3>. QED
      BY <3>2, <3>3, <3>4, FromApproved
  <2>. QED
    BY <2>3, <2>4
<1>8. ASSUME NEW d PROVE ActiveDays(new, u, d) = OwnDays(r, d)
  <2>1. ActiveDays(new, u, d) = DaysOf(new, Approved(logs, u) \cup {j}, d)
    BY <1>5, FromApproved
  <2>2. DaysOf(new, Approved(logs, u) \cup {j}, d)
          = DaysOf(logs, Approved(logs, u), d)
              \cup {y \in {snap[r].day} : y >= d - StreakWindow}
    BY <1>2, <1>3, <1>6 DEF DaysOf
  <2>. QED
    BY <2>1, <2>2 DEF OwnDays, u
<1>. QED
  BY <1>7, <1>8 DEF OwnTable, u, new

LEMMA RevokedTable ==
  ASSUME Inv1, NEW r \in Requests, LogFresh(r), Moving(r), input[r].op = "reject", NEW t
  PROVE  OwnTable(r, t)
<1>. DEFINE u == UserOf(r)
            new == OwnLogs(r, t)
            j == input[r].log
<1>1. TablesOK /\ u = logs[j].user
  BY DEF Inv1, TypeOK, UserOf
<1>2. /\ j \in 1..Len(logs) /\ Len(new) = Len(logs)
      /\ \A l \in 1..Len(logs) : l # j => new[l] = logs[l]
      /\ new[j].status = "REJECTED"
  BY <1>1, VerdictRow
<1>3. logs[j].status = "APPROVED"
  BY DEF LogFresh, Auditing, Moving, MovesPoints
<1>. HIDE DEF u, new, j
<1>5. Approved(new, u) = Approved(logs, u) \ {j} /\ j \in Approved(logs, u)
  BY <1>1, <1>2, <1>3 DEF Approved
<1>6. \A l \in Approved(logs, u) \ {j} : new[l] = logs[l]
  BY <1>2 DEF Approved
<1>7. ASSUME NEW m \in Missions
      PROVE  MissionCount(new, u, m)
               = Clamp(m, Cardinality(CountSet(logs, u, m)) + Shift(r, t, m))
  <2>1. CountSet(new, u, m) = CountSet(logs, u, m) \ {j}
    BY <1>5, <1>6 DEF CountSet
  <2>2. /\ IsFiniteSet(CountSet(logs, u, m))
        /\ Cardinality(CountSet(logs, u, m)) \in Nat
    BY <1>1, CountFinite
  <2>3. j \in CountSet(logs, u, m) <=> m \in logs[j].missions
    BY <1>5 DEF CountSet
  <2>4. Cardinality(CountSet(new, u, m)) = IF m \in logs[j].missions
          THEN Cardinality(CountSet(logs, u, m)) - 1 ELSE Cardinality(CountSet(logs, u, m))
    BY <2>1, <2>2, <2>3, FS_RemoveElement
  <2>5. Shift(r, t, m) = IF m \in logs[j].missions THEN -1 ELSE 0
    BY DEF Shift, j
  <2>6. Cardinality(CountSet(new, u, m))
          = Cardinality(CountSet(logs, u, m)) + Shift(r, t, m)
    BY <2>2, <2>4, <2>5
  <2>. QED
    BY <2>6, FromApproved
<1>8. ASSUME NEW d PROVE ActiveDays(new, u, d) = OwnDays(r, d)
  <2>1. ActiveDays(new, u, d) = DaysOf(new, Approved(logs, u) \ {j}, d)
    BY <1>5, FromApproved
  <2>2. DaysOf(new, Approved(logs, u) \ {j}, d) = DaysOf(logs, Approved(logs, u) \ {j}, d)
    BY <1>6, SameDays
  <2>. QED
    BY <2>1, <2>2 DEF OwnDays, u, j
<1>. QED
  BY <1>7, <1>8 DEF OwnTable, u, new

(* All of them. *)
LEMMA MovingTable ==
  ASSUME Inv1, NEW r \in Requests, LogFresh(r), PendingOK, Moving(r), NEW t
  PROVE  OwnTable(r, t)
<1>1. input[r].op \in {"submit", "approve", "reject"}
  BY DEF Moving
<1>. QED
  BY <1>1, SubmittedTable, ApprovedTable, RevokedTable

--------------------------------------------------------------------------------
(* What a step changes for which user. *)

(* Nothing that badges, missions or the streak of v depend on changes. *)
Untouched(v) ==
  /\ SameApproved(logs, logs', v)
  /\ profile'[v].total = profile[v].total
  /\ badges'[v] = badges[v]
  /\ progress'[v] = progress[v]
  /\ \A b : NotesAbout(v, "BADGE_EARNED", b)' = NotesAbout(v, "BADGE_EARNED", b)

(* A row that is not an approved log of v may be added or rewritten. *)
LEMMA AppendOther ==
  ASSUME TablesOK, NEW x, NEW v, ~(x.user = v /\ x.status = "APPROVED")
  PROVE  SameApproved(logs, Append(logs, x), v)
<1>. DEFINE new == Append(logs, x)
            n == Len(logs)
<1>1. n \in Nat /\ Len(new) = n + 1 /\ new[n + 1] = x
      /\ \A l \in 1..n : new[l] = logs[l]
  BY DEF TablesOK
<1>. HIDE DEF new, n
<1>2. 1..n + 1 = (1..n) \cup {n + 1}
  BY <1>1
<1>3. Approved(new, v) = Approved(logs, v)
  BY <1>1, <1>2 DEF Approved, n
<1>4. \A l \in Approved(logs, v) : new[l] = logs[l]
  BY <1>1 DEF Approved, n
<1>. QED
  BY <1>3, <1>4 DEF SameApproved, new

LEMMA UpdateOther ==
  ASSUME NEW new, NEW j, NEW v, Len(new) = Len(logs),
         \A l \in 1..Len(logs) : l # j => new[l] = logs[l],
         ~(logs[j].user = v /\ logs[j].status = "APPROVED"),
         ~(new[j].user = v /\ new[j].status = "APPROVED")
  PROVE  SameApproved(logs, new, v)
<1>1. Approved(new, v) = Approved(logs, v)
  BY DEF Approved
<1>2. \A l \in Approved(logs, v) : new[l] = logs[l]
  BY DEF Approved
<1>. QED
  BY <1>1, <1>2 DEF SameApproved

(* The badges of v are announced in the same notifications. *)
LEMMA NotesKept ==
  ASSUME FrozenKept, NotesOK, NEW v, inbox \subseteq inbox',
         \A n \in inbox' \ inbox : n.type = "BADGE_EARNED" => logs'[n.log].user # v
  PROVE  \A b : NotesAbout(v, "BADGE_EARNED", b)' = NotesAbout(v, "BADGE_EARNED", b)
<1>1. \A n \in inbox : logs'[n.log].user = logs[n.log].user
  BY DEF NotesOK, FrozenKept
<1>. QED
  BY <1>1 DEF NotesAbout

(* The notifications that are not about badges. *)
OtherNotes(N, l) == \A n \in N : n.type # "BADGE_EARNED" /\ n.log = l

(* The commit of r moves n points for log l and saves what r derived. *)
Effects(r, n, l) ==
  /\ logs' = OwnLogs(r, snap[r].touched)
  /\ AddPoints(r, UserOf(r), n)
  /\ badges' = [badges EXCEPT ![UserOf(r)] = @ \cup snap[r].award]
  /\ SaveProgress(r, UserOf(r))
  /\ \E N : OtherNotes(N, l) /\ inbox' = inbox \cup RewardNotes(r, UserOf(r), l) \cup N
  /\ l \in LogIds' /\ logs'[l].user = UserOf(r)

(* The commits that move points, and no others, have these effects. *)
LEMMA CreditEffects ==
  ASSUME Inv2, NEW r \in Requests, DerivedFresh(r), Credits(r),
         Start(r) \/ Step(r) \/ Abort(r), ~Refuse(r)
  PROVE  \E l : Effects(r, IF input[r].op = "reject" THEN -snap[r].points
                                                     ELSE snap[r].points, l)
<1>1. Inv1 /\ TablesOK /\ pc[r] = "commit" /\ MovesPoints(r)
      /\ input[r].op \in {"submit", "approve", "reject"}
      /\ snap[r] \in Snapshots /\ input[r] \in Inputs
  BY RequestTypes DEF Inv2, Inv1, TypeOK, Credits
<1>2. CASE input[r].op = "submit"
  <2>1. CommitCredited(r)
    BY <1>1, <1>2 DEF Start, Step, Abort, LockUser, CheckSubmission, InsertLog, LockLog,
       LockProfileForCredit, LockProfileForRevocation, LockProfileForRedeem,
       LockProfileForRename, LockInstClan, LockPrivClan, Derive, CompareStreak,
       SaveStreak, CommitPending, CommitApproval, CommitRevocation, CommitRejection,
       CommitRedeem, CommitRename, MovesPoints, RejectsPending
  <2>. DEFINE l == Len(logs) + 1
  <2>2. UserOf(r) = input[r].user
    BY <1>2 DEF UserOf
  <2>3. PICK x : logs' = Append(logs, x) /\ x.user = UserOf(r)
    BY <1>1, <1>2, <2>1, <2>2, SubmittedRow DEF CommitCredited
  <2>4. l \in LogIds' /\ logs'[l].user = UserOf(r)
    BY <1>1, <2>3 DEF TablesOK, LogIds
  <2>5. OtherNotes({}, l) /\ inbox' = inbox \cup RewardNotes(r, UserOf(r), l) \cup {}
    BY <2>1, <2>2 DEF CommitCredited, OtherNotes
  <2>6. Effects(r, snap[r].points, l)
    BY <2>1, <2>2, <2>4, <2>5 DEF Effects, CommitCredited
  <2>. QED
    BY <1>2, <2>6
<1>3. CASE input[r].op = "approve"
  <2>1. CommitApproval(r)
    BY <1>1, <1>3 DEF Start, Step, Abort, LockUser, CheckSubmission, InsertLog, LockLog,
       LockProfileForCredit, LockProfileForRevocation, LockProfileForRedeem,
       LockProfileForRename, LockInstClan, LockPrivClan, Derive, CompareStreak,
       SaveStreak, CommitPending, CommitCredited, CommitRevocation, CommitRejection,
       CommitRedeem, CommitRename, MovesPoints, RejectsPending
  <2>. DEFINE l == input[r].log
              N == {Note("AUDIT_APPROVED", l, None)}
  <2>2. l \in LogIds' /\ logs'[l].user = UserOf(r)
    BY <1>1, <1>3, <2>1, VerdictRow DEF CommitApproval, LogIds, UserOf
  <2>3. OtherNotes(N, l) /\ inbox' = inbox \cup RewardNotes(r, UserOf(r), l) \cup N
    BY <2>1 DEF CommitApproval, OtherNotes, Note
  <2>. HIDE DEF N, l
  <2>4. Effects(r, snap[r].points, l)
    BY <2>1, <2>2, <2>3 DEF Effects, CommitApproval
  <2>. QED
    BY <1>3, <2>4
<1>4. CASE input[r].op = "reject"
  <2>1. CommitRevocation(r)
    BY <1>1, <1>4 DEF Start, Step, Abort, LockUser, CheckSubmission, InsertLog, LockLog,
       LockProfileForCredit, LockProfileForRevocation, LockProfileForRedeem,
       LockProfileForRename, LockInstClan, LockPrivClan, Derive, CompareStreak,
       SaveStreak, CommitPending, CommitCredited, CommitApproval, CommitRejection,
       CommitRedeem, CommitRename, MovesPoints, RejectsPending
  <2>. DEFINE l == input[r].log
              N == {Note("AUDIT_REJECT", l, None)}
  <2>2. l \in LogIds' /\ logs'[l].user = UserOf(r)
    BY <1>1, <1>4, <2>1, VerdictRow DEF CommitRevocation, LogIds, UserOf
  <2>3. OtherNotes(N, l) /\ inbox' = inbox \cup RewardNotes(r, UserOf(r), l) \cup N
    BY <2>1 DEF CommitRevocation, OtherNotes, Note
  <2>4. snap[r].award = {}
    BY <1>1, <1>4 DEF DerivedFresh
  <2>5. UserOf(r) \in Users
    BY <1>1, UserOfType
  <2>6. badges' = [badges EXCEPT ![UserOf(r)] = @ \cup snap[r].award]
    BY <1>1, <2>1, <2>4, <2>5 DEF CommitRevocation, TablesOK
  <2>7. logs' = OwnLogs(r, snap[r].touched)
    BY <1>4, <2>1 DEF CommitRevocation, OwnLogs
  <2>. HIDE DEF N, l
  <2>8. Effects(r, -snap[r].points, l)
    BY <2>1, <2>2, <2>3, <2>6, <2>7 DEF Effects, CommitRevocation
  <2>. QED
    BY <1>4, <2>8
<1>. QED
  BY <1>1, <1>2, <1>3, <1>4

(* A commit that moves points touches its own user only. *)
LEMMA EffectsOthers ==
  ASSUME Inv1, FrozenKept, NotesOK, NEW r \in Requests, Credits(r), NEW n, NEW l,
         Effects(r, n, l), NEW v \in Users, v # UserOf(r)
  PROVE  Untouched(v)
<1>1. TablesOK /\ pc[r] # "idle" /\ input[r].op \in {"submit", "approve", "reject"}
  BY DEF Inv1, TypeOK, Credits
<1>2. UserOf(r) \in Users
  BY <1>1, UserOfType
<1>3. /\ profile'[v] = profile[v] /\ badges'[v] = badges[v]
      /\ progress'[v] = progress[v]
  BY <1>1, <1>2 DEF Effects, AddPoints, SaveProfile, SaveProgress, TablesOK
<1>4. SameApproved(logs, logs', v)
  <2>. DEFINE t == snap[r].touched
  <2>1. logs' = OwnLogs(r, t)
    BY DEF Effects
  <2>. HIDE DEF t
  <2>2. CASE input[r].op = "submit"
    <3>1. PICK x : OwnLogs(r, t) = Append(logs, x) /\ x.user = UserOf(r)
      BY <1>1, <2>2, SubmittedRow DEF UserOf
    <3>. QED
      BY <1>1, <2>1, <3>1, AppendOther
  <2>3. CASE input[r].op \in {"approve", "reject"}
    <3>. DEFINE j == input[r].log
    <3>1. /\ Len(logs') = Len(logs) /\ \A k \in 1..Len(logs) : k # j => logs'[k] = logs[k]
          /\ logs'[j].user = logs[j].user
      BY <2>1, <2>3, VerdictRow
    <3>2. logs[j].user # v
      BY <2>3 DEF UserOf
    <3>. HIDE DEF j
    <3>. QED
      BY <3>1, <3>2, UpdateOther
  <2>. QED
    BY <1>1, <2>2, <2>3
<1>5. PICK N : OtherNotes(N, l) /\ inbox' = inbox \cup RewardNotes(r, UserOf(r), l) \cup N
  BY DEF Effects
<1>6. inbox \subseteq inbox'
  BY <1>5
<1>7. ASSUME NEW x \in inbox' \ inbox, x.type = "BADGE_EARNED"
      PROVE  logs'[x.log].user # v
  <2>1. x \in RewardNotes(r, UserOf(r), l)
    BY <1>5, <1>7 DEF OtherNotes
  <2>2. x.log = l
    BY <2>1 DEF RewardNotes, Note
  <2>. QED
    BY <2>2 DEF Effects
<1>8. \A b : NotesAbout(v, "BADGE_EARNED", b)' = NotesAbout(v, "BADGE_EARNED", b)
  BY <1>6, <1>7, NotesKept
<1>. QED
  BY <1>3, <1>4, <1>8 DEF Untouched

(* A log that waits for its audit counts for nothing yet. *)
LEMMA PendingUntouched ==
  ASSUME Inv1, FrozenKept, NotesOK, NEW r \in Requests, CommitPending(r), NEW v \in Users
  PROVE  Untouched(v)
<1>1. TablesOK /\ UNCHANGED <<profile, badges, progress, inbox>>
      /\ input[r].op = "submit" /\ snap[r].photo /\ logs' = OwnLogs(r, {})
  BY DEF Inv1, TypeOK, CommitPending
<1>2. PICK x : OwnLogs(r, {}) = Append(logs, x) /\ x.status = "PENDING_AUDIT"
  BY <1>1, SubmittedRow
<1>3. SameApproved(logs, logs', v)
  BY <1>1, <1>2, AppendOther
<1>4. \A b : NotesAbout(v, "BADGE_EARNED", b)' = NotesAbout(v, "BADGE_EARNED", b)
  BY <1>1, NotesKept
<1>. QED
  BY <1>1, <1>3, <1>4 DEF Untouched

(* A rejected log that was pending never counted: the progress and the     *)
(* badges it saves without the profile lock are none.                      *)
LEMMA RejectionUntouched ==
  ASSUME Inv2, FrozenKept, NotesOK, PendingOK, NEW r \in Requests, DerivedFresh(r),
         CommitRejection(r), NEW v \in Users
  PROVE  Untouched(v)
<1>. DEFINE j == input[r].log
            u == UserOf(r)
<1>1. /\ Inv1 /\ TablesOK /\ pc[r] = "commit" /\ input[r].op = "reject"
      /\ snap[r].was = "PENDING_AUDIT" /\ LogFresh(r)
  BY DEF Inv2, Inv1, TypeOK, FreshOK, CommitRejection, RejectsPending
<1>2. u \in Users
  BY <1>1, UserOfType
<1>3. j \in LogIds /\ logs[j].status = "PENDING_AUDIT"
  BY <1>1, RequestTypes DEF LogFresh, Auditing, LogExists
<1>4. snap[r].touched = {} /\ snap[r].award = {}
  BY <1>1, <1>3 DEF PendingOK, DerivedFresh
<1>5. SameApproved(logs, logs', v)
  <2>1. /\ Len(logs') = Len(logs) /\ \A k \in 1..Len(logs) : k # j => logs'[k] = logs[k]
        /\ logs'[j].status = "REJECTED"
    BY <1>1, VerdictRow DEF CommitRejection
  <2>. HIDE DEF j
  <2>. QED
    BY <1>3, <2>1, UpdateOther
<1>6. progress'[v] = progress[v]
  <2>1. progress' = [progress EXCEPT ![u] = [m \in Missions |-> progress[u][m]]]
    BY <1>4 DEF CommitRejection, SaveProgress
  <2>2. [m \in Missions |-> progress[u][m]] = progress[u]
    BY <1>1, <1>2 DEF TablesOK
  <2>. QED
    BY <1>1, <1>2, <2>1, <2>2 DEF TablesOK
<1>7. profile'[v].total = profile[v].total
  <2>1. [profile[u] EXCEPT !.streak = snap[r].streak, !.last = snap[r].last].total
          = profile[u].total
    BY <1>1, <1>2 DEF TablesOK, ProfileRows
  <2>2. PICK x : profile' = [profile EXCEPT ![u] = x] /\ x.total = profile[u].total
    BY <2>1 DEF CommitRejection, SaveProfile
  <2>. QED
    BY <1>1, <1>2, <2>2 DEF TablesOK
<1>8. badges' = badges
  BY DEF CommitRejection
<1>9. inbox' = inbox \cup {Note("AUDIT_REJECT", j, None)}
  BY <1>4 DEF CommitRejection, RewardNotes, Completed
<1>10. \A x \in inbox' \ inbox : x.type = "BADGE_EARNED" => logs'[x.log].user # v
  BY <1>9 DEF Note
<1>11. \A b : NotesAbout(v, "BADGE_EARNED", b)' = NotesAbout(v, "BADGE_EARNED", b)
  BY <1>9, <1>10, NotesKept
<1>. QED
  BY <1>5, <1>6, <1>7, <1>8, <1>11 DEF Untouched

(* Purchases and nickname changes leave the total alone. *)
LEMMA SpendUntouched ==
  ASSUME Inv1, FrozenKept, NotesOK, NEW r \in Requests,
         CommitRedeem(r) \/ CommitRename(r), NEW v \in Users
  PROVE  Untouched(v)
<1>. DEFINE u == input[r].user
            s == snap[r]
<1>1. /\ TablesOK /\ UNCHANGED <<logs, badges, progress, inbox>>
      /\ input[r] \in Inputs /\ input[r].op \in {"redeem", "rename"}
  BY RequestTypes DEF Inv1, TypeOK, CommitRedeem, CommitRename
<1>2. u \in Users
  BY <1>1, InputFields
<1>3. ASSUME NEW a, NEW x
      PROVE  /\ [profile[u] EXCEPT !.available = a, !.items = x].total = profile[u].total
             /\ [profile[u] EXCEPT !.available = a, !.renames = x].total = profile[u].total
  BY <1>1, <1>2 DEF TablesOK, ProfileRows
<1>4. PICK y : profile' = [profile EXCEPT ![u] = y] /\ y.total = profile[u].total
  <2>1. CASE CommitRedeem(r)
    <3>. DEFINE z == [profile[u] EXCEPT !.available = s.row.available - s.cost,
                                        !.items = s.row.items \cup {input[r].item}]
    <3>1. profile' = [profile EXCEPT ![u] = z]
      BY <2>1 DEF CommitRedeem, SaveProfile
    <3>2. z.total = profile[u].total
      BY <1>3
    <3>. HIDE DEF z
    <3>. QED
      BY <3>1, <3>2
  <2>2. CASE CommitRename(r)
    <3>. DEFINE z == [profile[u] EXCEPT !.available = s.row.available - s.cost,
                                        !.renames = s.row.renames + 1]
    <3>1. profile' = [profile EXCEPT ![u] = z]
      BY <2>2 DEF CommitRename, SaveProfile
    <3>2. z.total = profile[u].total
      BY <1>3
    <3>. HIDE DEF z
    <3>. QED
      BY <3>1, <3>2
  <2>. QED
    BY <2>1, <2>2
<1>5. profile'[v].total = profile[v].total
  BY <1>1, <1>2, <1>4 DEF TablesOK
<1>6. SameApproved(logs, logs', v)
  BY <1>1 DEF SameApproved
<1>7. \A b : NotesAbout(v, "BADGE_EARNED", b)' = NotesAbout(v, "BADGE_EARNED", b)
  BY <1>1, NotesKept
<1>. QED
  BY <1>1, <1>5, <1>6, <1>7 DEF Untouched

(* Steps that write no table. *)
LEMMA QuietUntouched ==
  ASSUME UNCHANGED <<logs, profile, badges, progress, inbox>>, NEW v
  PROVE  Untouched(v)
<1>1. SameApproved(logs, logs', v)
  BY DEF SameApproved
<1>2. \A b : NotesAbout(v, "BADGE_EARNED", b)' = NotesAbout(v, "BADGE_EARNED", b)
  BY DEF NotesAbout
<1>. QED
  BY <1>1, <1>2 DEF Untouched

(* The step of r commits a movement of points. *)
MovesNow(r) == Credits(r) /\ (Step(r) /\ ~UNCHANGED <<logs, profile, badges, progress, inbox>>)

(* A step touches the user whose points it moves and no other. *)
LEMMA OthersUntouched ==
  ASSUME Inv2, FrozenKept, RewardsOK, NEW r \in Requests,
         Start(r) \/ Step(r) \/ Abort(r), NEW v \in Users,
         ~(MovesNow(r) /\ v = UserOf(r))
  PROVE  Untouched(v)
<1>1. CASE UNCHANGED <<logs, profile, badges, progress, inbox>>
  BY <1>1, QuietUntouched
<1>2. CASE ~UNCHANGED <<logs, profile, badges, progress, inbox>>
  <2>1. \/ CommitPending(r) \/ CommitRejection(r) \/ CommitRedeem(r) \/ CommitRename(r)
        \/ CommitCredited(r) \/ CommitApproval(r) \/ CommitRevocation(r)
    BY <1>2 DEF ledger, Start, Step, Abort, Refuse, LockUser,
      CheckSubmission, InsertLog, LockLog, LockProfileForCredit,
      LockProfileForRevocation, LockProfileForRedeem, LockProfileForRename,
      LockInstClan, LockPrivClan, Derive, CompareStreak, SaveStreak
  <2>2. CASE CommitCredited(r) \/ CommitApproval(r) \/ CommitRevocation(r)
    <3>1. Credits(r) /\ Step(r) /\ ~Refuse(r)
      BY <1>2, <2>2 DEF Credits, MovesPoints, CommitCredited, CommitApproval,
         CommitRevocation, Step, Refuse, ledger
    <3>2. v # UserOf(r)
      BY <1>2, <3>1 DEF MovesNow
    <3>3. PICK n, l : Effects(r, n, l)
      BY <3>1, CreditEffects DEF RewardsOK
    <3>. QED
      BY <3>1, <3>2, <3>3, EffectsOthers DEF Inv2, RewardsOK
  <2>3. CASE CommitPending(r)
    BY <2>3, PendingUntouched DEF Inv2, RewardsOK
  <2>4. CASE CommitRejection(r)
    BY <2>4, RejectionUntouched DEF RewardsOK
  <2>5. CASE CommitRedeem(r) \/ CommitRename(r)
    BY <2>5, SpendUntouched DEF Inv2, RewardsOK
  <2>. QED
    BY <2>1, <2>2, <2>3, <2>4, <2>5
<1>. QED
  BY <1>1, <1>2

--------------------------------------------------------------------------------
(* What requests derived stays true until they commit. *)

(* The log an audit holds is not rewritten by another request. *)
LEMMA HeldLogKept ==
  ASSUME Inv2, NEW r \in Requests, Start(r) \/ Step(r) \/ Abort(r),
         NEW q \in Requests \ {r}, Auditing(q)
  PROVE  logs'[input[q].log] = logs[input[q].log]
<1>. DEFINE j == input[q].log
<1>1. /\ Inv1 /\ TablesOK /\ Holding(q) /\ Holding(r) /\ held[q] \cap held[r] = {}
      /\ LogExists(input[q]) /\ LogExists(input[r])
  BY RequestTypes DEF Inv2, Inv1, TypeOK, LocksOK, Exclusive
<1>2. j \in 1..Len(logs) /\ LogRow(j) \in held[q]
  BY <1>1 DEF Auditing, LogExists, LogIds, Holding
<1>3. CASE logs' = logs
  BY <1>3
<1>4. CASE logs' # logs
  <2>1. CommitPending(r) \/ CommitCredited(r) \/ CommitApproval(r)
        \/ CommitRevocation(r) \/ CommitRejection(r)
    BY <1>4 DEF ledger, Start, Step, Abort, Refuse, LockUser,
      CheckSubmission, InsertLog, LockLog, LockProfileForCredit,
      LockProfileForRevocation, LockProfileForRedeem, LockProfileForRename,
      LockInstClan, LockPrivClan, Derive, CompareStreak, SaveStreak,
      CommitRedeem, CommitRename
  <2>2. PICK t : logs' = OwnLogs(r, t)
    BY <2>1 DEF CommitPending, CommitCredited, CommitApproval, CommitRevocation,
                CommitRejection
  <2>3. pc[r] = "commit" /\ input[r].op \in {"submit", "approve", "reject"}
    BY <2>1 DEF CommitPending, CommitCredited, CommitApproval, CommitRevocation,
                CommitRejection, RejectsPending
  <2>4. CASE input[r].op = "submit"
    <3>1. PICK x : logs' = Append(logs, x)
      BY <1>1, <2>2, <2>4, SubmittedRow
    <3>. QED
      BY <1>1, <1>2, <3>1 DEF TablesOK
  <2>5. CASE input[r].op \in {"approve", "reject"}
    <3>1. LogRow(input[r].log) \in held[r]
      BY <1>1, <2>3, <2>5 DEF Holding, Auditing
    <3>2. j # input[r].log
      BY <1>1, <1>2, <3>1
    <3>. QED
      BY <1>1, <1>2, <2>2, <2>5, <3>2, VerdictRow
  <2>. QED
    BY <2>3, <2>4, <2>5
<1>. QED
  BY <1>3, <1>4

(* Whoever moves the points of a user holds the user's profile row, so     *)
(* that no other request is past deriving for that user.                   *)
LEMMA OthersDerived ==
  ASSUME Inv2, FrozenKept, RewardsOK, NEW r \in Requests, Others(r),
         Start(r) \/ Step(r) \/ Abort(r), today' = today, NEW q \in Requests \ {r}
  PROVE  DerivedFresh(q)'
<1>. DEFINE u == UserOf(q)
            j == input[q].log
<1>1. /\ pc'[q] = pc[q] /\ input'[q] = input[q] /\ snap'[q] = snap[q]
      /\ Inv1 /\ DerivedFresh(q) /\ LogExists(input[q])
  BY RequestTypes DEF Others, Inv2, RewardsOK
<1>2. UserOf(q)' = u
  BY <1>1 DEF UserOf, FrozenKept, LogExists
<1>3. Credits(q)' <=> Credits(q)
  BY <1>1 DEF Credits, MovesPoints
<1>4. Auditing(q) => logs'[j] = logs[j]
  BY HeldLogKept
<1>5. input[q].op = "reject" /\ pc[q] \in {"streak", "save", "commit"}
        => logs'[j] = logs[j]
  BY <1>4 DEF Auditing
<1>6. ASSUME Credits(q)
      PROVE  /\ \A m \in Missions :
                  snap'[q].counts[m] = Clamp(m, Cardinality(CountSet(logs', u, m))
                                                  + Shift(q, snap[q].touched, m)')
             /\ \E d \in 1..today : /\ snap'[q].streak = StreakLength(OwnDays(q, d)', d)
                                    /\ snap'[q].last = LastDay(OwnDays(q, d)')
             /\ input[q].op # "reject" =>
                  snap'[q].award = NewBadges(u, profile[u].total + snap[q].points)'
  <2>1. /\ pc[q] = "commit" /\ ProfileRow(u) \in held[q]
        /\ input[q].op \in {"submit", "approve", "reject"}
    BY <1>6 DEF Credits, Inv2, LocksOK, Holding
  <2>2. u \in Users
    BY <1>1, <2>1, UserOfType
  <2>3. ~(MovesNow(r) /\ u = UserOf(r))
    <3>1. Credits(r) => ProfileRow(UserOf(r)) \in held[r]
      BY DEF Credits, Inv2, LocksOK, Holding
    <3>2. held[q] \cap held[r] = {}
      BY DEF Inv2, LocksOK, Exclusive
    <3>. QED
      BY <2>1, <3>1, <3>2 DEF MovesNow
  <2>4. Untouched(u)
    BY <2>2, <2>3, OthersUntouched
  <2>5. ASSUME NEW m \in Missions
        PROVE  /\ CountSet(logs', u, m) = CountSet(logs, u, m)
               /\ Shift(q, snap[q].touched, m)' = Shift(q, snap[q].touched, m)
    <3>1. CountSet(logs', u, m) = CountSet(logs, u, m)
      BY <2>4, SameProgress DEF Untouched
    <3>2. input[q].op = "reject" => logs'[j] = logs[j]
      BY <1>5, <2>1
    <3>. QED
      BY <1>1, <3>1, <3>2 DEF Shift
  <2>6. ASSUME NEW d PROVE OwnDays(q, d)' = OwnDays(q, d)
    <3>1. Approved(logs', u) = Approved(logs, u)
          /\ \A l \in Approved(logs, u) : logs'[l] = logs[l]
      BY <2>4 DEF Untouched, SameApproved
    <3>2. /\ DaysOf(logs', Approved(logs, u), d) = DaysOf(logs, Approved(logs, u), d)
          /\ DaysOf(logs', Approved(logs, u) \ {j}, d)
               = DaysOf(logs, Approved(logs, u) \ {j}, d)
      BY <3>1, SameDays
    <3>. HIDE DEF u
    <3>. QED
      BY <1>1, <1>2, <3>1, <3>2 DEF OwnDays, u
  <2>7. profile'[u].total = profile[u].total /\ badges'[u] = badges[u]
    BY <2>4 DEF Untouched
  <2>8. NewBadges(u, profile[u].total + snap[q].points)'
          = NewBadges(u, profile[u].total + snap[q].points)
    BY <1>1, <1>2, <2>7 DEF NewBadges
  <2>. QED
    BY <1>1, <1>6, <2>5, <2>6, <2>8 DEF DerivedFresh
<1>. QED
  BY <1>1, <1>2, <1>3, <1>5, <1>6 DEF DerivedFresh

(* What the statement Derive computes is true when it is remembered. *)
LEMMA DeriveFresh ==
  ASSUME Inv2, RewardsOK, NEW r \in Requests, Derive(r)
  PROVE  DerivedFresh(r)'
<1>. DEFINE t == TouchedMissions(r)
            u == UserOf(r)
            table == OwnLogs(r, t)
<1>1. /\ Inv1 /\ TablesOK /\ LogFresh(r) /\ PendingOK /\ snap[r] \in Snapshots
      /\ ControlAt("derive", input[r], snap[r])
  BY RequestTypes DEF Inv2, Inv1, TypeOK, FreshOK, RewardsOK, Derive
<1>2. /\ UNCHANGED <<logs, profile, badges, today, input>> /\ pc[r] = "derive"
      /\ pc'[r] = (IF RejectsPending(r) THEN "streak" ELSE "commit")
      /\ snap'[r] = Derived(r, table)
  BY <1>1 DEF Derive, Goto, Remember, Inv1, TypeOK, ledger, environment
<1>3. UserOf(r)' = u
  BY <1>2 DEF UserOf
<1>. HIDE DEF table
<1>4. /\ snap'[r].award = IF input[r].op = "reject" THEN {}
                          ELSE NewBadges(u, profile[u].total + snap[r].points)
      /\ snap'[r].touched = t
      /\ snap'[r].counts = [m \in Missions |-> MissionCount(table, u, m)]
      /\ snap'[r].streak = StreakLength(ActiveDays(table, u, today), today)
      /\ snap'[r].last = LastDay(ActiveDays(table, u, today))
      /\ snap'[r].points = snap[r].points /\ snap'[r].day = snap[r].day
      /\ snap'[r].was = snap[r].was /\ snap'[r].photo = snap[r].photo
  BY <1>1, <1>2 DEF Derived, Snapshots
<1>5. input[r].op = "reject" => t = logs[input[r].log].missions
  BY DEF TouchedMissions
<1>6. Credits(r)' => Moving(r)
  BY <1>1, <1>2, <1>4 DEF Credits, Moving, MovesPoints
<1>7. ASSUME Moving(r)
      PROVE  /\ \A m \in Missions :
                  snap'[r].counts[m] = Clamp(m, Cardinality(CountSet(logs', u, m))
                                                  + Shift(r, snap[r].touched, m)')
             /\ snap'[r].streak = StreakLength(OwnDays(r, today)', today)
             /\ snap'[r].last = LastDay(OwnDays(r, today)')
  <2>1. OwnTable(r, t)
    BY <1>1, <1>7, MovingTable
  <2>2. ASSUME NEW m \in Missions
        PROVE  snap'[r].counts[m] = Clamp(m, Cardinality(CountSet(logs', u, m))
                                               + Shift(r, snap[r].touched, m)')
    <3>1. snap'[r].counts[m] = MissionCount(table, u, m)
      BY <1>4
    <3>2. Shift(r, snap[r].touched, m)' = Shift(r, t, m)
      BY <1>2, <1>4 DEF Shift
    <3>. QED
      BY <1>2, <2>1, <3>1, <3>2 DEF OwnTable, table
  <2>3. \A d : OwnDays(r, d)' = OwnDays(r, d)
    BY <1>2, <1>3, <1>4 DEF OwnDays
  <2>4. ActiveDays(table, u, today) = OwnDays(r, today)
    BY <2>1 DEF OwnTable, table
  <2>. QED
    BY <1>2, <1>4, <2>2, <2>3, <2>4
<1>8. NewBadges(u, profile[u].total + snap[r].points)'
        = NewBadges(u, profile[u].total + snap[r].points)
  BY <1>2, <1>3, <1>4 DEF NewBadges
<1>9. today \in 1..today
  BY DEF Inv2, Inv1, TypeOK, TablesOK, Days
<1>. HIDE DEF t, u
<1>10. Credits(r)' =>
         /\ \A m \in Missions :
              snap'[r].counts[m] = Clamp(m, Cardinality(CountSet(logs', u, m))
                                              + Shift(r, snap[r].touched, m)')
         /\ \E d \in 1..today' : /\ snap'[r].streak = StreakLength(OwnDays(r, d)', d)
                                 /\ snap'[r].last = LastDay(OwnDays(r, d)')
         /\ input'[r].op # "reject" =>
              snap'[r].award = NewBadges(UserOf(r), profile[UserOf(r)].total
                                                      + snap[r].points)'
  BY <1>2, <1>4, <1>6, <1>7, <1>8, <1>9 DEF u
<1>11. input'[r].op = "reject"
         => snap'[r].touched = logs'[input'[r].log].missions /\ snap'[r].award = {}
  BY <1>2, <1>4, <1>5
<1>. QED
  BY <1>3, <1>10, <1>11 DEF DerivedFresh

(* A request's own statements. *)
LEMMA OwnDerived ==
  ASSUME Inv2, RewardsOK, NEW r \in Requests, Start(r) \/ Step(r) \/ Abort(r)
  PROVE  DerivedFresh(r)'
<1>. DEFINE in == input[r]
<1>c. /\ ControlAt(pc[r], in, snap[r]) /\ Inv1 /\ DerivedFresh(r)
  BY RequestTypes DEF Inv2, RewardsOK
<1>e. CASE End(r)
  <2>1. pc'[r] = "idle"
    BY <1>c, <1>e DEF Inv1, TypeOK, End
  <2>. QED
    BY <2>1 DEF DerivedFresh, Credits
<1>q. CASE pc'[r] \notin {"streak", "save", "commit"}
  BY <1>q DEF DerivedFresh, Credits
<1>1. CASE Start(r)
  <2>1. PICK x \in Submissions \cup Audits \cup Purchases \cup Renames :
          pc'[r] = FirstLabel(x)
    BY <1>c, <1>1 DEF Start, Goto, Inv1, TypeOK
  <2>2. x.op \in {"submit", "approve", "reject", "redeem", "rename"}
    BY DEF Submissions, Audits, Purchases, Renames
  <2>3. pc'[r] \in {"user", "log", "profile"}
    BY <2>1, <2>2 DEF FirstLabel
  <2>. QED
    BY <1>q, <2>3
<1>2. CASE Abort(r)
  BY <1>2, <1>e DEF Abort, Refuse
<1>3. CASE LockUser(r) \/ CheckSubmission(r) \/ LockLog(r) \/ LockProfileForCredit(r)
           \/ LockProfileForRevocation(r) \/ LockInstClan(r) \/ LockPrivClan(r)
  <2>1. End(r) \/ pc'[r] \in {"check", "profile", "insert", "derive", "inst", "priv"}
    BY <1>c, <1>3 DEF LockUser, CheckSubmission, LockLog, LockProfileForCredit,
       LockProfileForRevocation, LockInstClan, LockPrivClan, Refuse, Goto, AfterLog,
       Inv1, TypeOK
  <2>. QED
    BY <1>e, <1>q, <2>1
<1>4. CASE InsertLog(r)
  <2>1. /\ input' = input /\ pc[r] = "insert" /\ snap'[r] = [snap[r] EXCEPT !.day = today]
        /\ pc'[r] = IF snap[r].photo THEN "commit" ELSE "profile"
    BY <1>c, <1>4 DEF InsertLog, Goto, Remember, Inv1, TypeOK
  <2>2. in.op = "submit" /\ snap'[r].photo = snap[r].photo
    BY <1>c, <2>1, RequestTypes DEF ControlAt, Snapshots
  <2>. QED
    BY <2>1, <2>2 DEF DerivedFresh, Credits, MovesPoints
<1>5. CASE (LockProfileForRedeem(r) \/ LockProfileForRename(r)) /\ ~End(r)
  <2>1. input' = input /\ in.op \in {"redeem", "rename"}
    BY <1>5 DEF LockProfileForRedeem, LockProfileForRename, Refuse
  <2>. QED
    BY <2>1 DEF DerivedFresh, Credits
<1>6. CASE Derive(r)
  BY <1>6, DeriveFresh
<1>7. CASE CompareStreak(r) \/ SaveStreak(r)
  <2>1. /\ input' = input /\ snap' = snap /\ logs' = logs /\ pc[r] \in {"streak", "save"}
    BY <1>7 DEF CompareStreak, SaveStreak, ledger
  <2>2. in.op = "reject" /\ snap[r].was = "PENDING_AUDIT"
    BY <1>c, <2>1 DEF ControlAt
  <2>. QED
    BY <1>c, <2>1, <2>2 DEF DerivedFresh, Credits, MovesPoints
<1>8. CASE CommitPending(r) \/ CommitCredited(r) \/ CommitApproval(r)
           \/ CommitRevocation(r) \/ CommitRejection(r) \/ CommitRedeem(r)
           \/ CommitRename(r)
  BY <1>8, <1>e DEF CommitPending, CommitCredited, CommitApproval,
     CommitRevocation, CommitRejection, CommitRedeem, CommitRename
<1>. QED
  BY <1>e, <1>1, <1>2, <1>3, <1>4, <1>5, <1>6, <1>7, <1>8 DEF Step

--------------------------------------------------------------------------------
(* The stored results. *)

(* A log gains its missions with its approval. *)
LEMMA PendingNext ==
  ASSUME Inv1, PendingOK, NEW r \in Requests, Start(r) \/ Step(r) \/ Abort(r)
  PROVE  PendingOK'
<1>1. TablesOK /\ logs \in Seq(LogRows) /\ Len(logs) \in Nat
  BY DEF Inv1, TypeOK, TablesOK
<1>2. CASE logs' = logs
  BY <1>2 DEF PendingOK, LogIds
<1>3. CASE CommitPending(r) \/ CommitCredited(r)
  <2>1. PICK t : /\ logs' = OwnLogs(r, t) /\ input[r].op = "submit"
                 /\ snap[r].photo => t = {}
    BY <1>3 DEF CommitPending, CommitCredited
  <2>. DEFINE y == [user |-> input[r].user, action |-> input[r].action,
                    key |-> input[r].key, inst |-> snap[r].inst,
                    priv |-> snap[r].priv, points |-> snap[r].points,
                    day |-> snap[r].day,
                    status |-> IF snap[r].photo THEN "PENDING_AUDIT" ELSE "APPROVED",
                    missions |-> t]
  <2>2. logs' = Append(logs, y)
    BY <2>1 DEF OwnLogs
  <2>3. y.status = "PENDING_AUDIT" => y.missions = {}
    BY <2>1
  <2>. HIDE DEF y
  <2>4. /\ Len(logs') = Len(logs) + 1 /\ logs'[Len(logs) + 1] = y
        /\ \A l \in 1..Len(logs) : logs'[l] = logs[l]
    BY <1>1, <2>2
  <2>5. ASSUME NEW l \in LogIds', logs'[l].status = "PENDING_AUDIT"
        PROVE  logs'[l].missions = {}
    <3>1. l = Len(logs) + 1 \/ l \in 1..Len(logs)
      BY <1>1, <2>4 DEF LogIds
    <3>. QED
      BY <2>3, <2>4, <2>5, <3>1 DEF PendingOK, LogIds
  <2>. QED
    BY <2>5 DEF PendingOK
<1>4. CASE CommitApproval(r) \/ CommitRevocation(r) \/ CommitRejection(r)
  <2>1. PICK t : logs' = OwnLogs(r, t) /\ input[r].op \in {"approve", "reject"}
    BY <1>4 DEF CommitApproval, CommitRevocation, CommitRejection, RejectsPending
  <2>. DEFINE j == input[r].log
  <2>2. /\ Len(logs') = Len(logs) /\ \A k \in 1..Len(logs) : k # j => logs'[k] = logs[k]
        /\ logs'[j].status # "PENDING_AUDIT"
    BY <2>1, VerdictRow
  <2>. HIDE DEF j
  <2>. QED
    BY <2>2 DEF PendingOK, LogIds
<1>. QED
  BY <1>2, <1>3, <1>4 DEF ledger, Start, Step, Abort, Refuse, LockUser,
      CheckSubmission, InsertLog, LockLog, LockProfileForCredit,
      LockProfileForRevocation, LockProfileForRedeem, LockProfileForRename,
      LockInstClan, LockPrivClan, Derive, CompareStreak, SaveStreak,
      CommitRedeem, CommitRename

(* The badges, their notifications and the progress of v are right. *)
BadgesRight(v) ==
  \A b \in Badges :
    /\ profile[v].total > 0 /\ BadgeAt[b] <= profile[v].total => b \in badges[v]
    /\ b \in badges[v] => \E n \in inbox : NotesAbout(v, "BADGE_EARNED", b) = {n}
    /\ b \notin badges[v] => NotesAbout(v, "BADGE_EARNED", b) = {}

ProgressRight(v) == \A m \in Missions : progress[v][m] = MissionCount(logs, v, m)

(* A user whom a step leaves alone keeps them. *)
LEMMA UntouchedRight ==
  ASSUME NEW v, Untouched(v), BadgesRight(v), ProgressRight(v)
  PROVE  BadgesRight(v)' /\ ProgressRight(v)'
<1>1. ASSUME NEW b \in Badges, b \in badges'[v]
      PROVE  \E n \in inbox' : NotesAbout(v, "BADGE_EARNED", b)' = {n}
  <2>1. PICK n : NotesAbout(v, "BADGE_EARNED", b)' = {n}
    BY <1>1 DEF Untouched, BadgesRight
  <2>2. n \in inbox'
    BY <2>1 DEF NotesAbout
  <2>. QED
    BY <2>1, <2>2
<1>2. BadgesRight(v)'
  BY <1>1 DEF BadgesRight, Untouched
<1>3. \A m : MissionCount(logs', v, m) = MissionCount(logs, v, m)
  BY SameProgress DEF Untouched
<1>4. ProgressRight(v)'
  BY <1>3 DEF ProgressRight, Untouched
<1>. QED
  BY <1>2, <1>4

(* The user whose points move has the progress of the new log table.       *)
LEMMA EffectsProgress ==
  ASSUME Inv2, PendingOK, NEW r \in Requests, DerivedFresh(r), Credits(r), NEW n, NEW l,
         Effects(r, n, l), NEW u, u = UserOf(r), ProgressRight(u)
  PROVE  ProgressRight(u)'
<1>. DEFINE t == snap[r].touched
<1>1. /\ Inv1 /\ TablesOK /\ LogFresh(r) /\ Moving(r) /\ pc[r] = "commit"
      /\ snap[r] \in Snapshots
  BY RequestTypes DEF Inv2, Inv1, TypeOK, FreshOK, Credits, Moving
<1>2. u \in Users
  BY <1>1, UserOfType
<1>3. OwnTable(r, t) /\ logs' = OwnLogs(r, t)
  BY <1>1, MovingTable DEF Effects
<1>4. \A m \in Missions : progress'[u][m] = IF m \in t THEN snap[r].counts[m]
                                                      ELSE progress[u][m]
  BY <1>1, <1>2 DEF Effects, SaveProgress, TablesOK
<1>. DEFINE k(m) == Cardinality(CountSet(logs, u, m))
<1>5. ASSUME NEW m \in Missions PROVE progress'[u][m] = MissionCount(logs', u, m)
  <2>1. MissionCount(logs', u, m) = Clamp(m, k(m) + Shift(r, t, m))
    BY <1>3 DEF OwnTable
  <2>2. CASE m \in t
    BY <1>4, <2>1, <2>2 DEF DerivedFresh
  <2>3. CASE m \notin t
    <3>1. Shift(r, t, m) = 0
      <4>1. input[r].op = "reject" => t = logs[input[r].log].missions
        BY <1>1 DEF DerivedFresh
      <4>. QED
        BY <2>3, <4>1 DEF Shift
    <3>2. k(m) \in Nat
      BY <1>1, CountFinite
    <3>. HIDE DEF k, t
    <3>3. k(m) + Shift(r, t, m) = k(m)
      BY <3>1, <3>2
    <3>4. MissionCount(logs, u, m) = Clamp(m, k(m))
      BY FromApproved DEF k
    <3>. QED
      BY <1>4, <2>1, <2>3, <3>3, <3>4 DEF ProgressRight
  <2>. QED
    BY <2>2, <2>3
<1>. QED
  BY <1>5 DEF ProgressRight

(* The user whose points move owns the badges of the new total, and each   *)
(* new one is announced by one notification.                               *)
LEMMA EffectsBadges ==
  ASSUME Inv2, FrozenKept, NotesOK, NEW r \in Requests, DerivedFresh(r), Credits(r),
         NEW n, n = (IF input[r].op = "reject" THEN -snap[r].points ELSE snap[r].points),
         NEW l, Effects(r, n, l), NEW u, u = UserOf(r), BadgesRight(u)
  PROVE  BadgesRight(u)'
<1>. DEFINE new == snap[r].award
<1>1. /\ Inv1 /\ TablesOK /\ pc[r] = "commit" /\ snap[r] \in Snapshots
      /\ input[r].op \in {"submit", "approve", "reject"}
  BY RequestTypes DEF Inv2, Inv1, TypeOK, Credits
<1>2. u \in Users /\ snap[r].points \in Nat /\ n \in Int
  BY <1>1, UserOfType DEF Snapshots
<1>3. badges'[u] = badges[u] \cup new
  BY <1>1, <1>2 DEF Effects, TablesOK
<1>4. profile'[u].total = profile[u].total + n /\ profile[u].total \in Int
  <2>. DEFINE z == [profile[u] EXCEPT !.total = @ + n, !.available = @ + n,
                                      !.streak = snap[r].streak,
                                      !.last = snap[r].last]
  <2>1. profile[u] \in ProfileRows
    BY <1>1, <1>2 DEF TablesOK
  <2>2. z.total = profile[u].total + n /\ profile[u].total \in Int
    BY <2>1 DEF ProfileRows
  <2>3. profile' = [profile EXCEPT ![u] = z]
    BY DEF Effects, AddPoints, SaveProfile
  <2>. HIDE DEF z
  <2>. QED
    BY <1>1, <1>2, <2>2, <2>3 DEF TablesOK
<1>5. PICK N : OtherNotes(N, l) /\ inbox' = inbox \cup RewardNotes(r, u, l) \cup N
  BY DEF Effects
<1>6. logs'[l].user = u /\ \A x \in inbox : logs'[x.log].user = logs[x.log].user
  BY DEF Effects, NotesOK, FrozenKept
<1>7. \A b \in Badges : BadgeAt[b] \in Nat
  BY LedgerAssumption
<1>8. new \cap badges[u] = {}
  BY DEF DerivedFresh, NewBadges, Credits
<1>9. ASSUME NEW b \in Badges, profile'[u].total > 0, BadgeAt[b] <= profile'[u].total
      PROVE  b \in badges'[u]
  <2>1. CASE input[r].op = "reject"
    <3>1. n <= 0
      BY <1>2, <2>1
    <3>2. profile[u].total > 0 /\ BadgeAt[b] <= profile[u].total
      BY <1>2, <1>4, <1>7, <1>9, <3>1
    <3>. QED
      BY <1>3, <3>2 DEF BadgesRight
  <2>2. CASE input[r].op # "reject"
    <3>1. new = NewBadges(u, profile'[u].total)
      BY <1>4, <2>2 DEF DerivedFresh
    <3>. QED
      BY <1>3, <1>9, <3>1 DEF NewBadges
  <2>. QED
    BY <2>1, <2>2
<1>10. ASSUME NEW b \in Badges
       PROVE  NotesAbout(u, "BADGE_EARNED", b)' = NotesAbout(u, "BADGE_EARNED", b)
                \cup (IF b \in new THEN {Note("BADGE_EARNED", l, b)} ELSE {})
  <2>1. ASSUME NEW x
        PROVE  x \in NotesAbout(u, "BADGE_EARNED", b)' <=>
                 \/ x \in NotesAbout(u, "BADGE_EARNED", b)
                 \/ b \in new /\ x = Note("BADGE_EARNED", l, b)
    <3>1. x \in NotesAbout(u, "BADGE_EARNED", b)' <=>
            x \in inbox' /\ x.type = "BADGE_EARNED" /\ x.about = b /\ logs'[x.log].user = u
      BY DEF NotesAbout
    <3>2. x \in NotesAbout(u, "BADGE_EARNED", b) <=>
            x \in inbox /\ x.type = "BADGE_EARNED" /\ x.about = b /\ logs[x.log].user = u
      BY DEF NotesAbout
    <3>3. x \in N => x.type # "BADGE_EARNED"
      BY <1>5 DEF OtherNotes
    <3>4. x \in RewardNotes(r, u, l) /\ x.type = "BADGE_EARNED" /\ x.about = b
            => b \in new /\ x = Note("BADGE_EARNED", l, b)
      BY DEF RewardNotes, Note
    <3>5. b \in new /\ x = Note("BADGE_EARNED", l, b)
            => x \in RewardNotes(r, u, l) /\ x.type = "BADGE_EARNED" /\ x.about = b
               /\ x.log = l
      BY DEF RewardNotes, Note
    <3>. QED
      BY <1>5, <1>6, <3>1, <3>2, <3>3, <3>4, <3>5
  <2>. QED
    BY <2>1
<1>11. ASSUME NEW b \in Badges, b \in badges'[u]
       PROVE  \E x \in inbox' : NotesAbout(u, "BADGE_EARNED", b)' = {x}
  <2>1. PICK x : NotesAbout(u, "BADGE_EARNED", b)' = {x}
    <3>1. CASE b \in new
      <4>1. NotesAbout(u, "BADGE_EARNED", b) = {}
        BY <1>8, <3>1 DEF BadgesRight
      <4>. QED
        BY <1>10, <3>1, <4>1
    <3>2. CASE b \notin new
      <4>1. PICK x : NotesAbout(u, "BADGE_EARNED", b) = {x}
        BY <1>3, <1>11, <3>2 DEF BadgesRight
      <4>2. NotesAbout(u, "BADGE_EARNED", b)' = {x} \cup {}
        BY <1>10, <3>2, <4>1
      <4>. QED
        BY <4>2
    <3>. QED
      BY <3>1, <3>2
  <2>2. x \in inbox'
    BY <2>1 DEF NotesAbout
  <2>. QED
    BY <2>1, <2>2
<1>12. ASSUME NEW b \in Badges, b \notin badges'[u]
       PROVE  NotesAbout(u, "BADGE_EARNED", b)' = {}
  <2>1. b \notin new /\ NotesAbout(u, "BADGE_EARNED", b) = {}
    BY <1>3, <1>12 DEF BadgesRight
  <2>2. NotesAbout(u, "BADGE_EARNED", b)' = {} \cup {}
    BY <1>10, <2>1
  <2>. QED
    BY <2>2
<1>. QED
  BY <1>9, <1>11, <1>12 DEF BadgesRight

--------------------------------------------------------------------------------
(* The invariant and what it shows. *)

(* New notifications are about logs of the new table. *)
LEMMA NotesRefer ==
  ASSUME Inv2, FrozenKept, RewardsOK, NEW r \in Requests,
         Start(r) \/ Step(r) \/ Abort(r)
  PROVE  \A n \in inbox' : n.log \in LogIds'
<1>1. \A n \in inbox : n.log \in LogIds'
  BY DEF RewardsOK, NotesOK, FrozenKept
<1>2. CASE inbox' = inbox
  BY <1>1, <1>2
<1>3. CASE inbox' # inbox /\ Credits(r)
  <2>1. ~Refuse(r)
    BY <1>3 DEF Refuse, ledger
  <2>2. PICK n, l : Effects(r, n, l)
    BY <1>3, <2>1, CreditEffects DEF RewardsOK
  <2>3. PICK N : OtherNotes(N, l) /\ inbox' = inbox \cup RewardNotes(r, UserOf(r), l) \cup N
    BY <2>2 DEF Effects
  <2>4. \A x \in RewardNotes(r, UserOf(r), l) : x.log = l
    BY DEF RewardNotes, Note
  <2>5. \A x \in N : x.log = l
    BY <2>3 DEF OtherNotes
  <2>. QED
    BY <1>1, <2>2, <2>3, <2>4, <2>5 DEF Effects
<1>4. CASE inbox' # inbox /\ ~Credits(r)
  <2>1. CommitRejection(r)
    BY <1>4 DEF ledger, Start, Step, Abort, Refuse, LockUser,
      CheckSubmission, InsertLog, LockLog, LockProfileForCredit,
      LockProfileForRevocation, LockProfileForRedeem, LockProfileForRename,
      LockInstClan, LockPrivClan, Derive, CompareStreak, SaveStreak, CommitPending,
      CommitCredited, CommitApproval, CommitRevocation, CommitRedeem, CommitRename,
      Credits, MovesPoints
  <2>. DEFINE j == input[r].log
  <2>2. j \in LogIds'
    BY <2>1, RequestTypes DEF Inv2, CommitRejection, RejectsPending, LogExists, FrozenKept
  <2>3. inbox' = inbox \cup RewardNotes(r, UserOf(r), j) \cup {Note("AUDIT_REJECT", j, None)}
    BY <2>1 DEF CommitRejection
  <2>4. \A x \in RewardNotes(r, UserOf(r), j) \cup {Note("AUDIT_REJECT", j, None)} : x.log = j
    BY DEF RewardNotes, Note
  <2>. QED
    BY <1>1, <2>2, <2>3, <2>4
<1>. QED
  BY <1>2, <1>3, <1>4

(* Every step of a request keeps the badges and the progress right. *)
LEMMA RightNext ==
  ASSUME Inv2, FrozenKept, RewardsOK, NEW r \in Requests,
         Start(r) \/ Step(r) \/ Abort(r), NEW v \in Users
  PROVE  BadgesRight(v)' /\ ProgressRight(v)'
<1>1. BadgesRight(v) /\ ProgressRight(v) /\ NotesOK /\ PendingOK /\ DerivedFresh(r)
  BY DEF RewardsOK, BadgesRight, ProgressRight, NotesOK, BadgesOwned, MissionProgressExact
<1>2. CASE MovesNow(r) /\ v = UserOf(r)
  <2>1. Credits(r) /\ ~Refuse(r)
    BY <1>2 DEF MovesNow, Refuse, ledger
  <2>2. PICK n, l : /\ n = IF input[r].op = "reject" THEN -snap[r].points ELSE snap[r].points
                    /\ Effects(r, n, l)
    BY <1>1, <2>1, CreditEffects
  <2>. QED
    BY <1>1, <1>2, <2>1, <2>2, EffectsProgress, EffectsBadges
<1>3. CASE ~(MovesNow(r) /\ v = UserOf(r))
  BY <1>1, <1>3, OthersUntouched, UntouchedRight
<1>. QED
  BY <1>2, <1>3

(* Only midnight changes the day. *)
LEMMA SameDay ==
  ASSUME NEW r \in Requests, Start(r) \/ Step(r) \/ Abort(r)
  PROVE  today' = today
  BY DEF environment, Start, Step, Abort, Refuse, LockUser,
      CheckSubmission, InsertLog, LockLog, LockProfileForCredit,
      LockProfileForRevocation, LockProfileForRedeem, LockProfileForRename,
      LockInstClan, LockPrivClan, Derive, CompareStreak, SaveStreak, CommitPending,
      CommitCredited, CommitApproval, CommitRevocation, CommitRejection, CommitRedeem,
      CommitRename

LEMMA RewardsNext == Inv2 /\ RewardsOK /\ [Next]_vars => RewardsOK'
<1>. SUFFICES ASSUME Inv2, RewardsOK, [Next]_vars PROVE RewardsOK'
  OBVIOUS
<1>1. FrozenKept /\ Inv1
  BY LogsFrozen DEF Inv2
<1>2. CASE UNCHANGED vars \/ Environment
  <2>1. UNCHANGED <<logs, profile, badges, progress, inbox, pc, input, snap>>
    BY <1>2 DEF vars, ledger, Environment, Tick, EditAction, EditItem, AssignHome,
                SetFavourite
  <2>2. 1..today \subseteq 1..today'
    <3>1. today \in Nat
      BY DEF Inv2, Inv1, TypeOK, TablesOK, Days
    <3>2. today' \in {today, today + 1}
      BY <1>2 DEF vars, environment, Environment, Tick, EditAction, EditItem, AssignHome,
                  SetFavourite
    <3>. QED
      BY <3>1, <3>2
  <2>3. ASSUME NEW r \in Requests PROVE DerivedFresh(r)'
    <3>1. /\ Credits(r)' <=> Credits(r)
          /\ UserOf(r)' = UserOf(r)
          /\ \A d : OwnDays(r, d)' = OwnDays(r, d)
          /\ \A m : Shift(r, snap[r].touched, m)' = Shift(r, snap[r].touched, m)
      BY <2>1 DEF Credits, MovesPoints, UserOf, OwnDays, Shift
    <3>2. NewBadges(UserOf(r), profile[UserOf(r)].total + snap[r].points)'
            = NewBadges(UserOf(r), profile[UserOf(r)].total + snap[r].points)
      BY <2>1, <3>1 DEF NewBadges
    <3>3. DerivedFresh(r)
      BY DEF RewardsOK
    <3>. QED
      BY <2>1, <2>2, <3>1, <3>2, <3>3 DEF DerivedFresh
  <2>4. NotesOK'
    BY <2>1 DEF RewardsOK, NotesOK, NotesAbout, LogIds
  <2>5. PendingOK' /\ BadgesOwned' /\ MissionProgressExact'
    BY <2>1 DEF RewardsOK, PendingOK, BadgesOwned, MissionProgressExact, LogIds
  <2>. QED
    BY <2>3, <2>4, <2>5 DEF RewardsOK
<1>3. ASSUME NEW r \in Requests, Start(r) \/ Step(r) \/ Abort(r) PROVE RewardsOK'
  <2>1. Others(r) /\ today' = today
    BY <1>1, <1>3, OthersKept, SameDay
  <2>2. \A q \in Requests : DerivedFresh(q)'
    BY <1>1, <1>3, <2>1, OthersDerived, OwnDerived
  <2>3. PendingOK'
    BY <1>1, <1>3, PendingNext DEF RewardsOK
  <2>4. \A v \in Users : BadgesRight(v)' /\ ProgressRight(v)'
    BY <1>1, <1>3, RightNext
  <2>5. \A n \in inbox' : n.log \in LogIds'
    BY <1>1, <1>3, NotesRefer
  <2>6. NotesOK' /\ BadgesOwned'
    BY <2>4, <2>5 DEF NotesOK, BadgesOwned, BadgesRight
  <2>7. MissionProgressExact'
    BY <2>4 DEF MissionProgressExact, ProgressRight
  <2>. QED
    BY <2>2, <2>3, <2>6, <2>7 DEF RewardsOK
<1>. QED
  BY <1>2, <1>3 DEF Next

(* Nothing is logged, owned or counted at first, and no target is 0.       *)
LEMMA RewardsInit == Init => RewardsOK
<1>. SUFFICES ASSUME Init PROVE RewardsOK
  OBVIOUS
<1>1. /\ logs = <<>> /\ inbox = {}
      /\ \A u \in Users : badges[u] = {}
      /\ \A u \in Users : profile[u].total = 0
      /\ \A u \in Users, m \in Missions : progress[u][m] = 0
  BY DEF Init, EmptyProfile
<1>2. \A r \in Requests : pc[r] = "idle"
  BY DEF Init
<1>3. \A r \in Requests : DerivedFresh(r)
  BY <1>2 DEF DerivedFresh, Credits
<1>4. PendingOK
  BY <1>1 DEF PendingOK, LogIds
<1>5. NotesOK
  BY <1>1 DEF NotesOK, NotesAbout
<1>6. BadgesOwned
  BY <1>1 DEF BadgesOwned
<1>7. ASSUME NEW u \in Users, NEW m \in Missions PROVE MissionCount(logs, u, m) = 0
  <2>1. CountSet(logs, u, m) = {}
    BY <1>1 DEF CountSet, Approved
  <2>2. Cardinality(CountSet(logs, u, m)) = 0
    BY <2>1, FS_EmptySet
  <2>3. MissionTarget[m] \in Nat \ {0}
    BY LedgerAssumption
  <2>4. Clamp(m, 0) = 0
    BY <2>3 DEF Clamp
  <2>. QED
    BY <2>2, <2>4, FromApproved
<1>8. MissionProgressExact
  BY <1>1, <1>7 DEF MissionProgressExact
<1>. QED
  BY <1>3, <1>4, <1>5, <1>6, <1>8 DEF RewardsOK

(* What the remembered values show of the badges. *)
LEMMA RightfulBadges == RewardsOK => BadgesComplete
<1>. SUFFICES ASSUME RewardsOK, NEW u \in Users, NEW b \in Badges
              PROVE  /\ profile[u].total > 0 /\ BadgeAt[b] <= profile[u].total
                          => b \in badges[u]
                     /\ Cardinality(NotesAbout(u, "BADGE_EARNED", b))
                          = IF b \in badges[u] THEN 1 ELSE 0
  BY DEF BadgesComplete
<1>1. CASE b \in badges[u]
  <2>1. PICK n : NotesAbout(u, "BADGE_EARNED", b) = {n}
    BY <1>1 DEF RewardsOK, NotesOK
  <2>2. Cardinality({n}) = 1
    BY FS_Singleton
  <2>. QED
    BY <1>1, <2>1, <2>2
<1>2. CASE b \notin badges[u]
  <2>1. NotesAbout(u, "BADGE_EARNED", b) = {}
    BY <1>2 DEF RewardsOK, NotesOK
  <2>2. Cardinality({}) = 0
    BY FS_EmptySet
  <2>3. ~(profile[u].total > 0 /\ BadgeAt[b] <= profile[u].total)
    BY <1>2 DEF RewardsOK, BadgesOwned
  <2>. QED
    BY <1>2, <2>1, <2>2, <2>3
<1>. QED
  BY <1>1, <1>2

(* The streak of u is the one that the committed logs yield on a day of    *)
(* the transaction.                                                        *)
StreakRight(u) == \E d \in 1..today :
  /\ profile'[u].streak = StreakLength(ActiveDays(logs', u, d), d)
  /\ profile'[u].last = LastDay(ActiveDays(logs', u, d))

(* A commit that moves points saves the streak of the logs it commits.     *)
LEMMA EffectsStreak ==
  ASSUME Inv2, PendingOK, NEW r \in Requests, DerivedFresh(r), Credits(r), NEW n, NEW l,
         Effects(r, n, l), NEW u, u = UserOf(r)
  PROVE  StreakRight(u)
<1>1. /\ Inv1 /\ TablesOK /\ LogFresh(r) /\ Moving(r) /\ pc[r] = "commit"
      /\ snap[r] \in Snapshots
  BY RequestTypes DEF Inv2, Inv1, TypeOK, FreshOK, Credits, Moving
<1>2. u \in Users
  BY <1>1, UserOfType
<1>3. OwnTable(r, snap[r].touched) /\ logs' = OwnLogs(r, snap[r].touched)
  BY <1>1, MovingTable DEF Effects
<1>4. \A d : ActiveDays(logs', u, d) = OwnDays(r, d)
  BY <1>3 DEF OwnTable
<1>5. profile'[u].streak = snap[r].streak /\ profile'[u].last = snap[r].last
  <2>. DEFINE z == [profile[u] EXCEPT !.total = @ + n, !.available = @ + n,
                                      !.streak = snap[r].streak,
                                      !.last = snap[r].last]
  <2>1. profile[u] \in ProfileRows
    BY <1>1, <1>2 DEF TablesOK
  <2>2. z.streak = snap[r].streak /\ z.last = snap[r].last
    BY <2>1 DEF ProfileRows
  <2>3. profile' = [profile EXCEPT ![u] = z]
    BY DEF Effects, AddPoints, SaveProfile
  <2>. HIDE DEF z
  <2>. QED
    BY <1>1, <1>2, <2>2, <2>3 DEF TablesOK
<1>6. PICK d \in 1..today : /\ snap[r].streak = StreakLength(OwnDays(r, d), d)
                            /\ snap[r].last = LastDay(OwnDays(r, d))
  BY DEF DerivedFresh
<1>7. ActiveDays(logs', u, d) = OwnDays(r, d)
  BY <1>4
<1>8. /\ profile'[u].streak = StreakLength(ActiveDays(logs', u, d), d)
      /\ profile'[u].last = LastDay(ActiveDays(logs', u, d))
  BY <1>5, <1>6, <1>7
<1>. QED
  BY <1>8 DEF StreakRight

(* Every step that changes a total leaves the streak right.                *)
LEMMA StreakNext ==
  ASSUME Inv2, RewardsOK, [Next]_vars, NEW v \in Users,
         profile'[v].total # profile[v].total
  PROVE  StreakRight(v)
<1>1. PICK r \in Requests : Start(r) \/ Step(r) \/ Abort(r)
  BY DEF Next, vars, ledger, Environment, Tick, EditAction, EditItem, AssignHome,
         SetFavourite
<1>2. FrozenKept
  BY LogsFrozen DEF Inv2
<1>3. MovesNow(r) /\ v = UserOf(r)
  <2>. SUFFICES ASSUME ~(MovesNow(r) /\ v = UserOf(r)) PROVE FALSE
    OBVIOUS
  <2>1. Untouched(v)
    BY <1>1, <1>2, OthersUntouched
  <2>. QED
    BY <2>1 DEF Untouched
<1>4. Credits(r) /\ ~Refuse(r)
  BY <1>3 DEF MovesNow, Refuse, ledger
<1>5. PICK n, l : Effects(r, n, l)
  BY <1>1, <1>4, CreditEffects DEF RewardsOK
<1>. QED
  BY <1>3, <1>4, <1>5, EffectsStreak DEF RewardsOK

--------------------------------------------------------------------------------

LEMMA RewardsInvariant == Spec => [](Inv2 /\ RewardsOK)
<1>1. Init => Inv2 /\ RewardsOK
  BY Inv2Init, RewardsInit
<1>2. Inv2 /\ RewardsOK /\ [Next]_vars => (Inv2 /\ RewardsOK)'
  BY Inv2Next, RewardsNext
<1>. QED
  BY <1>1, <1>2, PTL DEF Spec

(* Stored mission progress is the clamped number of approved contributions *)
(* after every commit: approvals of several administrators and submissions *)
(* of the same user derive it one after the other, under the profile lock. *)
THEOREM MissionsExact == Spec => []MissionProgressExact
<1>1. RewardsOK => MissionProgressExact
  BY DEF RewardsOK
<1>. QED
  BY <1>1, RewardsInvariant, PTL

(* A user owns the badges of the total, and each of them was announced by  *)
(* exactly one notification (check_and_award_badges).                      *)
THEOREM BadgesRightful == Spec => []BadgesComplete
  BY RightfulBadges, RewardsInvariant, PTL

(* Whenever points move, the same commit leaves the streak and the last    *)
(* action date of the committed logs (recalculate_streak).                 *)
THEOREM StreaksFollow == Spec => StreakFollowsCredit
<1>1. Inv2 /\ RewardsOK /\ [Next]_vars =>
        [\A u \in Users :
           profile'[u].total # profile[u].total =>
             \E d \in 1..today :
               LET days == ActiveDays(logs', u, d)
               IN  /\ profile'[u].streak = StreakLength(days, d)
                   /\ profile'[u].last = LastDay(days)]_vars
  BY StreakNext DEF StreakRight
<1>. QED
  BY <1>1, RewardsInvariant, PTL DEF Spec, StreakFollowsCredit

================================================================================
