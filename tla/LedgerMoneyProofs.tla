---------------------------- MODULE LedgerMoneyProofs ----------------------------
(***************************************************************************)
(* The totals of profiles and clans equal the sums over the log table, for *)
(* any number of users, clans, logs and overlapping requests.  A commit    *)
(* moves points in the stored totals (PointsMove) and in the sums over the *)
(* logs (CreditMove); both move the same points because the handler holds  *)
(* the rows it computed them from (FreshOK).                               *)
(*                                                                         *)
(* Then the daily limit, the idempotency key and the one-way life of a     *)
(* log: a submission past its checks keeps room for its log and its key    *)
(* unused (RoomOK) because it holds the row of its user, and midnight only *)
(* moves it to a day without logs.                                         *)
(***************************************************************************)
EXTENDS PointsLedgerProofs

(* What one log row is worth to a user and to a clan. *)
WorthToUser(x, u) == IF x.status = "APPROVED" /\ x.user = u THEN x.points ELSE 0
WorthToClan(x, c) == IF x.status = "APPROVED" /\ c \in {x.inst, x.priv}
                       THEN x.points ELSE 0

(* The sums over the log table that the stored totals must equal. *)
UserSum(u) == Sum(CreditToUser(u), Len(logs))
ClanSum(c) == Sum(CreditToClan(c), Len(logs))

(* Every log row is worth a natural number and the sums are integers. *)
LEMMA WorthTypes ==
  ASSUME TablesOK, NEW v
  PROVE  /\ Len(logs) \in Nat
         /\ \A l \in 1..Len(logs) :
              /\ CreditToUser(v)[l] = WorthToUser(logs[l], v)
              /\ CreditToClan(v)[l] = WorthToClan(logs[l], v)
              /\ WorthToUser(logs[l], v) \in Nat
              /\ WorthToClan(logs[l], v) \in Nat
         /\ UserSum(v) \in Int /\ ClanSum(v) \in Int
<1>1. Len(logs) \in Nat
  BY DEF TablesOK
<1>2. ASSUME NEW l \in 1..Len(logs)
      PROVE  /\ CreditToUser(v)[l] = WorthToUser(logs[l], v)
             /\ CreditToClan(v)[l] = WorthToClan(logs[l], v)
             /\ WorthToUser(logs[l], v) \in Nat
             /\ WorthToClan(logs[l], v) \in Nat
  <2>1. logs[l].points \in Nat
    BY LogTypes DEF LogIds
  <2>. QED
    BY <2>1 DEF CreditToUser, CreditToClan, WorthToUser, WorthToClan, LogIds
<1>3. UserSum(v) \in Nat
  BY <1>1, <1>2, SumType DEF UserSum
<1>4. ClanSum(v) \in Nat
  BY <1>1, <1>2, SumType DEF ClanSum
<1>. QED
  BY <1>1, <1>2, <1>3, <1>4

(* A new row adds its worth. *)
LEMMA AppendCredit ==
  ASSUME TablesOK, TablesOK', NEW x, logs' = Append(logs, x), NEW v
  PROVE  /\ UserSum(v)' = UserSum(v) + WorthToUser(x, v)
         /\ ClanSum(v)' = ClanSum(v) + WorthToClan(x, v)
<1>. DEFINE n == Len(logs)
<1>1. n \in Nat /\ Len(logs') = n + 1 /\ logs'[n + 1] = x
      /\ \A l \in 1..n : logs'[l] = logs[l]
  BY DEF TablesOK
<1>. HIDE DEF n
<1>2. LogIds' = 1..n + 1 /\ LogIds = 1..n /\ Len(logs) = n
  BY <1>1 DEF LogIds, n
<1>3. /\ \A l \in 1..n : CreditToUser(v)'[l] = CreditToUser(v)[l]
      /\ CreditToUser(v)'[n + 1] = WorthToUser(x, v)
  BY <1>1, <1>2 DEF CreditToUser, WorthToUser
<1>4. /\ \A l \in 1..n : CreditToClan(v)'[l] = CreditToClan(v)[l]
      /\ CreditToClan(v)'[n + 1] = WorthToClan(x, v)
  BY <1>1, <1>2 DEF CreditToClan, WorthToClan
<1>. DEFINE f == CreditToUser(v)
            g == CreditToUser(v)'
            h == CreditToClan(v)
            k == CreditToClan(v)'
<1>5. UserSum(v) = Sum(f, n) /\ UserSum(v)' = Sum(g, n + 1)
      /\ ClanSum(v) = Sum(h, n) /\ ClanSum(v)' = Sum(k, n + 1)
  BY <1>1, <1>2 DEF UserSum, ClanSum
<1>6. /\ \A l \in 1..n : f[l] = g[l] /\ h[l] = k[l]
      /\ g[n + 1] = WorthToUser(x, v) /\ k[n + 1] = WorthToClan(x, v)
  BY <1>3, <1>4
<1>. HIDE DEF f, g, h, k
<1>7. Sum(g, n + 1) = Sum(g, n) + g[n + 1] /\ Sum(k, n + 1) = Sum(k, n) + k[n + 1]
  BY <1>1, SumStep
<1>8. Sum(g, n) = Sum(f, n)
  BY <1>1, <1>6, SumCongruence
<1>9. Sum(k, n) = Sum(h, n)
  BY <1>1, <1>6, SumCongruence
<1>. QED
  BY <1>5, <1>6, <1>7, <1>8, <1>9

(* A changed row adds the difference of its worth. *)
LEMMA UpdateCredit ==
  ASSUME TablesOK, TablesOK', NEW j \in LogIds, Len(logs') = Len(logs),
         \A l \in LogIds : l # j => logs'[l] = logs[l], NEW v
  PROVE  /\ UserSum(v)' = UserSum(v)
                          + (WorthToUser(logs'[j], v) - WorthToUser(logs[j], v))
         /\ ClanSum(v)' = ClanSum(v)
                          + (WorthToClan(logs'[j], v) - WorthToClan(logs[j], v))
<1>. DEFINE n == Len(logs)
            f == CreditToUser(v)
            g == CreditToUser(v)'
            h == CreditToClan(v)
            k == CreditToClan(v)'
<1>1. n \in Nat /\ j \in 1..n /\ Len(logs') = n
  BY DEF TablesOK, LogIds
<1>2. \A l \in 1..n : /\ f[l] = WorthToUser(logs[l], v) /\ f[l] \in Nat
                      /\ h[l] = WorthToClan(logs[l], v) /\ h[l] \in Nat
  BY WorthTypes
<1>3. \A l \in 1..Len(logs)' :
        /\ CreditToUser(v)'[l] = WorthToUser(logs[l], v)'
        /\ CreditToClan(v)'[l] = WorthToClan(logs[l], v)'
        /\ WorthToUser(logs[l], v)' \in Nat
        /\ WorthToClan(logs[l], v)' \in Nat
  <2>1. ASSUME NEW l \in LogIds'
        PROVE  logs'[l].points \in Nat
    <3>1. logs' \in Seq(LogRows)
      BY DEF TablesOK
    <3>2. logs'[l] \in LogRows
      BY <3>1 DEF LogIds
    <3>. QED
      BY <3>2 DEF LogRows
  <2>. QED
    BY <2>1 DEF CreditToUser, CreditToClan, WorthToUser, WorthToClan, LogIds
<1>4. \A l \in 1..n : /\ g[l] = WorthToUser(logs'[l], v) /\ g[l] \in Nat
                      /\ k[l] = WorthToClan(logs'[l], v) /\ k[l] \in Nat
  BY <1>1, <1>3 DEF WorthToUser, WorthToClan
<1>5. \A l \in 1..n : l # j => f[l] = g[l] /\ h[l] = k[l]
  BY <1>2, <1>4 DEF LogIds
<1>6. UserSum(v) = Sum(f, n) /\ UserSum(v)' = Sum(g, n)
      /\ ClanSum(v) = Sum(h, n) /\ ClanSum(v)' = Sum(k, n)
  BY <1>1 DEF UserSum, ClanSum
<1>. HIDE DEF n, f, g, h, k
<1>7. Sum(g, n) = Sum(f, n) + (g[j] - f[j])
  <2>1. \A i \in 1..n : f[i] \in Nat /\ g[i] \in Nat
    BY <1>2, <1>4
  <2>2. \A i \in 1..n : i # j => f[i] = g[i]
    BY <1>5
  <2>3. n \in Nat /\ j \in 1..n
    BY <1>1
  <2>. QED
    BY <2>1, <2>2, <2>3, SumUpdate, ZenonT(60)
<1>8. Sum(k, n) = Sum(h, n) + (k[j] - h[j])
  <2>1. \A i \in 1..n : h[i] \in Nat /\ k[i] \in Nat
    BY <1>2, <1>4
  <2>2. \A i \in 1..n : i # j => h[i] = k[i]
    BY <1>5
  <2>3. n \in Nat /\ j \in 1..n
    BY <1>1
  <2>. QED
    BY <2>1, <2>2, <2>3, SumUpdate, ZenonT(60)
<1>. QED
  BY <1>1, <1>2, <1>4, <1>6, <1>7, <1>8

--------------------------------------------------------------------------------
(* Moving points. *)

(* The stored totals of user u and of the clans S move by n points. *)
PointsMove(u, n, S) ==
  /\ \A v \in Users :
       /\ profile'[v].total = profile[v].total + (IF v = u THEN n ELSE 0)
       /\ profile'[v].available = profile[v].available + (IF v = u THEN n ELSE 0)
       /\ spent'[v] = spent[v]
  /\ \A c \in Clans :
       clanPoints'[c] = clanPoints[c] + (IF c \in S THEN n ELSE 0)

(* The sums over the log table move by n points. *)
CreditMove(u, n, S) ==
  /\ \A v \in Users : UserSum(v)' = UserSum(v) + (IF v = u THEN n ELSE 0)
  /\ \A c \in Clans : ClanSum(c)' = ClanSum(c) + (IF c \in S THEN n ELSE 0)

(* The properties in terms of the sums. *)
LEMMA MoneyInSums ==
  /\ BalanceExact <=> \A u \in Users :
       /\ profile[u].total = UserSum(u)
       /\ profile[u].available = profile[u].total - spent[u]
  /\ ClanTotalsExact <=> \A c \in Clans : clanPoints[c] = ClanSum(c)
  BY DEF BalanceExact, ClanTotalsExact, UserSum, ClanSum

(* Totals and sums that move together stay equal. *)
LEMMA MoveKeepsExact ==
  ASSUME TablesOK, BalanceExact, ClanTotalsExact, NEW u, NEW n \in Int, NEW S,
         PointsMove(u, n, S), CreditMove(u, n, S)
  PROVE  BalanceExact' /\ ClanTotalsExact'
<1>1. ASSUME NEW v \in Users
      PROVE  /\ profile'[v].total = UserSum(v)'
             /\ profile'[v].available = profile'[v].total - spent'[v]
  <2>1. profile[v].total = UserSum(v)
        /\ profile[v].available = profile[v].total - spent[v]
    BY MoneyInSums
  <2>2. profile[v].total \in Int /\ profile[v].available \in Int /\ spent[v] \in Int
    BY DEF TablesOK, ProfileRows
  <2>. QED
    BY <2>1, <2>2 DEF PointsMove, CreditMove
<1>2. ASSUME NEW c \in Clans PROVE clanPoints'[c] = ClanSum(c)'
  <2>1. clanPoints[c] = ClanSum(c) /\ clanPoints[c] \in Int
    BY MoneyInSums DEF TablesOK
  <2>. QED
    BY <2>1 DEF PointsMove, CreditMove
<1>3. BalanceExact'
  BY <1>1 DEF BalanceExact, UserSum
<1>4. ClanTotalsExact'
  BY <1>2 DEF ClanTotalsExact, ClanSum
<1>. QED
  BY <1>3, <1>4

(* AddPoints moves the stored totals. *)
LEMMA AddPointsMoves ==
  ASSUME TablesOK, NEW r \in Requests, NEW u \in Users, NEW n \in Int,
         AddPoints(r, u, n), spent' = spent
  PROVE  PointsMove(u, n, {snap[r].inst, snap[r].priv})
<1>. DEFINE row == [profile[u] EXCEPT !.total = @ + n, !.available = @ + n,
                                      !.streak = snap[r].streak,
                                      !.last = snap[r].last]
<1>1. profile \in [Users -> ProfileRows] /\ clanPoints \in [Clans -> Int]
  BY DEF TablesOK
<1>2. profile[u] \in ProfileRows
  BY <1>1
<1>3. row.total = profile[u].total + n /\ row.available = profile[u].available + n
  BY <1>2 DEF ProfileRows
<1>4. profile' = [profile EXCEPT ![u] = row]
  BY <1>1 DEF AddPoints, SaveProfile
<1>. HIDE DEF row
<1>5. ASSUME NEW v \in Users
      PROVE  /\ profile'[v].total = profile[v].total + (IF v = u THEN n ELSE 0)
             /\ profile'[v].available
                  = profile[v].available + (IF v = u THEN n ELSE 0)
  <2>1. profile[v].total \in Int /\ profile[v].available \in Int
    BY <1>1 DEF ProfileRows
  <2>2. CASE v = u
    BY <1>1, <1>3, <1>4, <2>2
  <2>3. CASE v # u
    BY <1>1, <1>4, <2>1, <2>3
  <2>. QED
    BY <2>2, <2>3
<1>6. ASSUME NEW c \in Clans
      PROVE  clanPoints'[c] = clanPoints[c]
               + (IF c \in {snap[r].inst, snap[r].priv} THEN n ELSE 0)
  BY <1>1 DEF AddPoints
<1>. QED
  BY <1>5, <1>6 DEF PointsMove

(* The rows of the log table after a submission and after an audit. *)
LEMMA SubmittedRow ==
  ASSUME TablesOK, NEW r \in Requests, input[r].op = "submit", NEW t
  PROVE  \E x : /\ OwnLogs(r, t) = Append(logs, x)
                /\ x.user = input[r].user /\ x.points = snap[r].points
                /\ x.inst = snap[r].inst /\ x.priv = snap[r].priv
                /\ x.action = input[r].action /\ x.key = input[r].key
                /\ x.day = snap[r].day
                /\ x.status = IF snap[r].photo THEN "PENDING_AUDIT" ELSE "APPROVED"
<1>. DEFINE x == [user |-> input[r].user, action |-> input[r].action,
                  key |-> input[r].key, inst |-> snap[r].inst,
                  priv |-> snap[r].priv, points |-> snap[r].points,
                  day |-> snap[r].day,
                  status |-> IF snap[r].photo THEN "PENDING_AUDIT" ELSE "APPROVED",
                  missions |-> t]
<1>1. OwnLogs(r, t) = Append(logs, x)
  BY DEF OwnLogs
<1>2. /\ x.user = input[r].user /\ x.points = snap[r].points
      /\ x.inst = snap[r].inst /\ x.priv = snap[r].priv
      /\ x.action = input[r].action /\ x.key = input[r].key
      /\ x.day = snap[r].day
      /\ x.status = IF snap[r].photo THEN "PENDING_AUDIT" ELSE "APPROVED"
  OBVIOUS
<1>. QED
  BY <1>1, <1>2

(* An audit rewrites the status of its own log and nothing that is frozen. *)
LEMMA AuditedRow ==
  ASSUME Inv1, NEW r \in Requests, input[r].op \in {"approve", "reject"}, NEW t
  PROVE  LET j == input[r].log
             new == OwnLogs(r, t)
         IN  /\ j \in LogIds /\ Len(new) = Len(logs)
             /\ \A l \in LogIds : l # j => new[l] = logs[l]
             /\ new[j].user = logs[j].user /\ new[j].points = logs[j].points
             /\ new[j].inst = logs[j].inst /\ new[j].priv = logs[j].priv
             /\ new[j].status = IF input[r].op = "approve" THEN "APPROVED"
                                                           ELSE "REJECTED"
<1>. DEFINE j == input[r].log
            new == OwnLogs(r, t)
<1>1. logs \in Seq(LogRows) /\ Len(logs) \in Nat
  BY DEF Inv1, TypeOK, TablesOK
<1>2. j \in LogIds /\ j \in 1..Len(logs)
  BY RequestTypes DEF LogExists, LogIds
<1>3. logs[j] \in LogRows
  BY <1>1, <1>2
<1>4. PICK x : /\ new = [logs EXCEPT ![j] = x]
               /\ x = IF input[r].op = "approve"
                        THEN [logs[j] EXCEPT !.status = "APPROVED",
                                             !.missions = @ \cup t]
                        ELSE [logs[j] EXCEPT !.status = "REJECTED"]
  BY <1>1, <1>2 DEF OwnLogs
<1>5. /\ x.user = logs[j].user /\ x.points = logs[j].points
      /\ x.inst = logs[j].inst /\ x.priv = logs[j].priv
      /\ x.status = IF input[r].op = "approve" THEN "APPROVED" ELSE "REJECTED"
  BY <1>3, <1>4 DEF LogRows
<1>. HIDE DEF new, j
<1>6. /\ Len(new) = Len(logs) /\ new[j] = x
      /\ \A l \in LogIds : l # j => new[l] = logs[l]
  <2>1. new = [logs EXCEPT ![j] = x]
    BY <1>4
  <2>2. new[j] = x
    BY <1>1, <1>2, <2>1
  <2>3. Len(new) = Len(logs)
    BY <1>1, <1>2, <2>1
  <2>4. \A l \in 1..Len(logs) : l # j => new[l] = logs[l]
    BY <1>1, <1>2, <2>1
  <2>. QED
    BY <2>2, <2>3, <2>4 DEF LogIds
<1>. QED
  BY <1>2, <1>5, <1>6 DEF new, j

--------------------------------------------------------------------------------
(* The commits. *)

(* A submission adds its points to the sums only when it is approved. *)
LEMMA SubmissionCredit ==
  ASSUME Inv1, Inv1', NEW r \in Requests, input[r].op = "submit", NEW t,
         logs' = OwnLogs(r, t)
  PROVE  CreditMove(input[r].user, IF snap[r].photo THEN 0 ELSE snap[r].points,
                    {snap[r].inst, snap[r].priv})
<1>1. TablesOK /\ TablesOK'
  BY DEF Inv1, TypeOK
<1>2. PICK x : /\ logs' = Append(logs, x)
               /\ x.user = input[r].user /\ x.points = snap[r].points
               /\ x.inst = snap[r].inst /\ x.priv = snap[r].priv
               /\ x.status = IF snap[r].photo THEN "PENDING_AUDIT" ELSE "APPROVED"
  BY <1>1, SubmittedRow
<1>3. ASSUME NEW v
      PROVE  /\ UserSum(v)' = UserSum(v) + WorthToUser(x, v)
             /\ ClanSum(v)' = ClanSum(v) + WorthToClan(x, v)
  BY <1>1, <1>2, AppendCredit
<1>4. \A v : UserSum(v)' = UserSum(v)
        + (IF v = input[r].user
             THEN IF snap[r].photo THEN 0 ELSE snap[r].points ELSE 0)
  BY <1>2, <1>3 DEF WorthToUser
<1>5. \A c : ClanSum(c)' = ClanSum(c)
        + (IF c \in {snap[r].inst, snap[r].priv}
             THEN IF snap[r].photo THEN 0 ELSE snap[r].points ELSE 0)
  BY <1>2, <1>3 DEF WorthToClan
<1>. QED
  BY <1>4, <1>5 DEF CreditMove

(* An audit moves the points of the log when it changes whether the log is *)
(* approved.                                                               *)
LEMMA AuditCredit ==
  ASSUME Inv1, Inv1', NEW r \in Requests, LogFresh(r), pc[r] = "commit",
         input[r].op \in {"approve", "reject"}, NEW t, logs' = OwnLogs(r, t)
  PROVE  CreditMove(UserOf(r),
           IF input[r].op = "approve" THEN snap[r].points
           ELSE IF snap[r].was = "APPROVED" THEN -snap[r].points ELSE 0,
           {snap[r].inst, snap[r].priv})
<1>. DEFINE j == input[r].log
            n == IF input[r].op = "approve" THEN snap[r].points
                 ELSE IF snap[r].was = "APPROVED" THEN -snap[r].points ELSE 0
<1>1. TablesOK /\ TablesOK'
  BY DEF Inv1, TypeOK
<1>2. /\ j \in LogIds /\ Len(logs') = Len(logs)
      /\ \A l \in LogIds : l # j => logs'[l] = logs[l]
      /\ logs'[j].user = logs[j].user /\ logs'[j].points = logs[j].points
      /\ logs'[j].inst = logs[j].inst /\ logs'[j].priv = logs[j].priv
      /\ logs'[j].status = IF input[r].op = "approve" THEN "APPROVED" ELSE "REJECTED"
  BY AuditedRow
<1>3. /\ snap[r].was = logs[j].status /\ snap[r].was \in Auditable(input[r].op)
      /\ snap[r].points = logs[j].points /\ snap[r].inst = logs[j].inst
      /\ snap[r].priv = logs[j].priv
  BY DEF LogFresh, Auditing
<1>4. logs[j].points \in Nat /\ UserOf(r) = logs[j].user
  BY <1>1, <1>2, LogTypes DEF UserOf
<1>5. ASSUME NEW v
      PROVE  /\ UserSum(v)' = UserSum(v)
                  + (WorthToUser(logs'[j], v) - WorthToUser(logs[j], v))
             /\ ClanSum(v)' = ClanSum(v)
                  + (WorthToClan(logs'[j], v) - WorthToClan(logs[j], v))
  BY <1>1, <1>2, UpdateCredit
<1>6. /\ input[r].op = "approve" => logs[j].status = "PENDING_AUDIT"
      /\ input[r].op = "reject" => logs[j].status \in {"PENDING_AUDIT", "APPROVED"}
  BY <1>3 DEF Auditable
<1>7. ASSUME NEW v
      PROVE  /\ WorthToUser(logs'[j], v) - WorthToUser(logs[j], v)
                  = IF v = UserOf(r) THEN n ELSE 0
             /\ WorthToClan(logs'[j], v) - WorthToClan(logs[j], v)
                  = IF v \in {snap[r].inst, snap[r].priv} THEN n ELSE 0
  BY <1>2, <1>3, <1>4, <1>6 DEF WorthToUser, WorthToClan
<1>. HIDE DEF n, j
<1>8. \A v : UserSum(v)' = UserSum(v) + (IF v = UserOf(r) THEN n ELSE 0)
  BY <1>5, <1>7
<1>9. \A c : ClanSum(c)' = ClanSum(c)
        + (IF c \in {snap[r].inst, snap[r].priv} THEN n ELSE 0)
  BY <1>5, <1>7
<1>. QED
  BY <1>8, <1>9 DEF CreditMove, n

(* The totals and the sums agree, and no balance is negative. *)
Money == BalanceExact /\ NeverOverdrawn /\ ClanTotalsExact

(* Points that do not leave a negative balance keep Money. *)
LEMMA MoveKeepsMoney ==
  ASSUME TablesOK, Money, NEW u \in Users, NEW n \in Int, NEW S,
         PointsMove(u, n, S), CreditMove(u, n, S), profile[u].available + n >= 0
  PROVE  Money'
<1>1. ASSUME NEW v \in Users PROVE profile'[v].available >= 0
  <2>1. profile[v].available \in Int /\ profile[v].available >= 0
    BY DEF Money, NeverOverdrawn, TablesOK, ProfileRows
  <2>2. profile'[v].available = profile[v].available + (IF v = u THEN n ELSE 0)
    BY DEF PointsMove
  <2>. QED
    BY <2>1, <2>2
<1>. QED
  BY <1>1, MoveKeepsExact DEF Money, NeverOverdrawn

(* A log that waits for its audit is worth nothing yet. *)
LEMMA CommitPendingMoney ==
  ASSUME Inv1, Inv1', Money, NEW r \in Requests, CommitPending(r)
  PROVE  Money'
<1>. DEFINE u == input[r].user
            S == {snap[r].inst, snap[r].priv}
<1>1. TablesOK /\ input[r] \in Inputs /\ input[r].op = "submit" /\ snap[r].photo
  BY RequestTypes DEF Inv1, TypeOK, CommitPending
<1>2. u \in Users
  BY <1>1, InputFields
<1>3. CreditMove(u, 0, S)
  BY <1>1, SubmissionCredit DEF CommitPending
<1>4. PointsMove(u, 0, S)
  BY <1>1 DEF CommitPending, PointsMove, TablesOK, ProfileRows
<1>5. profile[u].available + 0 >= 0
  BY <1>1, <1>2 DEF Money, NeverOverdrawn, TablesOK, ProfileRows
<1>. QED
  BY <1>1, <1>2, <1>3, <1>4, <1>5, MoveKeepsMoney

(* An unaudited log is credited with what it records. *)
LEMMA CommitCreditedMoney ==
  ASSUME Inv1, Inv1', Money, NEW r \in Requests, CommitCredited(r)
  PROVE  Money'
<1>. DEFINE u == input[r].user
            n == snap[r].points
            S == {snap[r].inst, snap[r].priv}
<1>1. TablesOK /\ input[r] \in Inputs /\ input[r].op = "submit" /\ ~snap[r].photo
      /\ snap[r] \in Snapshots
  BY RequestTypes DEF Inv1, TypeOK, CommitCredited
<1>2. u \in Users /\ n \in Nat
  BY <1>1, InputFields DEF Snapshots
<1>3. CreditMove(u, n, S)
  BY <1>1, SubmissionCredit DEF CommitCredited
<1>4. PointsMove(u, n, S)
  BY <1>1, <1>2, AddPointsMoves DEF CommitCredited
<1>5. profile[u].available \in Int /\ profile[u].available >= 0
  BY <1>1, <1>2 DEF Money, NeverOverdrawn, TablesOK, ProfileRows
<1>6. profile[u].available + n >= 0 /\ n \in Int
  BY <1>2, <1>5
<1>. HIDE DEF u, n, S
<1>. QED
  BY <1>1, <1>2, <1>3, <1>4, <1>6, MoveKeepsMoney

(* An approval credits the points frozen on the pending log. *)
LEMMA CommitApprovalMoney ==
  ASSUME Inv2, Inv1', Money, NEW r \in Requests, CommitApproval(r)
  PROVE  Money'
<1>. DEFINE u == UserOf(r)
            n == snap[r].points
            S == {snap[r].inst, snap[r].priv}
<1>1. /\ Inv1 /\ TablesOK /\ LogFresh(r) /\ snap[r] \in Snapshots
      /\ pc[r] = "commit" /\ input[r].op = "approve"
  BY RequestTypes DEF Inv2, Inv1, TypeOK, FreshOK, CommitApproval
<1>2. u \in Users /\ n \in Nat
  BY <1>1, UserOfType DEF Snapshots
<1>3. CreditMove(u, n, S)
  BY <1>1, AuditCredit DEF CommitApproval
<1>4. PointsMove(u, n, S)
  BY <1>1, <1>2, AddPointsMoves DEF CommitApproval
<1>5. profile[u].available \in Int /\ profile[u].available >= 0
  BY <1>1, <1>2 DEF Money, NeverOverdrawn, TablesOK, ProfileRows
<1>6. profile[u].available + n >= 0 /\ n \in Int
  BY <1>2, <1>5
<1>. HIDE DEF u, n, S
<1>. QED
  BY <1>1, <1>2, <1>3, <1>4, <1>6, MoveKeepsMoney

(* A revocation takes back what the balance was checked to hold. *)
LEMMA CommitRevocationMoney ==
  ASSUME Inv2, Inv1', Money, NEW r \in Requests, CommitRevocation(r)
  PROVE  Money'
<1>. DEFINE u == UserOf(r)
            n == -snap[r].points
            S == {snap[r].inst, snap[r].priv}
<1>1. /\ Inv1 /\ TablesOK /\ LogFresh(r) /\ BalanceFresh(r) /\ snap[r] \in Snapshots
      /\ pc[r] = "commit" /\ input[r].op = "reject" /\ snap[r].was = "APPROVED"
  BY RequestTypes DEF Inv2, Inv1, TypeOK, FreshOK, CommitRevocation
<1>2. u \in Users /\ n \in Int /\ snap[r].points \in Nat
  BY <1>1, UserOfType DEF Snapshots
<1>3. CreditMove(u, n, S)
  BY <1>1, AuditCredit DEF CommitRevocation
<1>4. PointsMove(u, n, S)
  BY <1>1, <1>2, AddPointsMoves DEF CommitRevocation
<1>5. profile[u].available \in Int /\ profile[u].available >= snap[r].points
  BY <1>1, <1>2 DEF BalanceFresh, MovesPoints, TablesOK, ProfileRows
<1>6. profile[u].available + n >= 0
  BY <1>2, <1>5
<1>. HIDE DEF u, n, S
<1>. QED
  BY <1>1, <1>2, <1>3, <1>4, <1>6, MoveKeepsMoney

(* The rejection of a pending log moves no points. *)
LEMMA CommitRejectionMoney ==
  ASSUME Inv2, Inv1', Money, NEW r \in Requests, CommitRejection(r)
  PROVE  Money'
<1>. DEFINE u == UserOf(r)
            S == {snap[r].inst, snap[r].priv}
            row == [profile[u] EXCEPT !.streak = snap[r].streak,
                                      !.last = snap[r].last]
<1>1. /\ Inv1 /\ TablesOK /\ LogFresh(r) /\ snap[r] \in Snapshots
      /\ pc[r] = "commit" /\ input[r].op = "reject"
      /\ snap[r].was = "PENDING_AUDIT"
  BY RequestTypes DEF Inv2, Inv1, TypeOK, FreshOK, CommitRejection, RejectsPending
<1>2. u \in Users /\ profile \in [Users -> ProfileRows]
  BY <1>1, UserOfType DEF TablesOK
<1>3. CreditMove(u, 0, S)
  BY <1>1, AuditCredit DEF CommitRejection
<1>4. row.total = profile[u].total /\ row.available = profile[u].available
  BY <1>2 DEF ProfileRows
<1>5. profile' \in {profile, [profile EXCEPT ![u] = row]}
  BY <1>2 DEF CommitRejection, SaveProfile
<1>6. clanPoints' = clanPoints /\ spent' = spent
  BY DEF CommitRejection
<1>. HIDE DEF u, S, row
<1>7. ASSUME NEW v \in Users
      PROVE  /\ profile'[v].total = profile[v].total
             /\ profile'[v].available = profile[v].available
  BY <1>2, <1>4, <1>5
<1>8. PointsMove(u, 0, S)
  BY <1>1, <1>6, <1>7 DEF PointsMove, TablesOK, ProfileRows
<1>9. profile[u].available + 0 >= 0
  BY <1>1, <1>2 DEF Money, NeverOverdrawn, TablesOK, ProfileRows
<1>. QED
  BY <1>1, <1>2, <1>3, <1>8, <1>9, MoveKeepsMoney

(* A purchase or a nickname change is charged to the balance it was        *)
(* checked against.                                                        *)
LEMMA CommitSpendMoney ==
  ASSUME Inv2, Inv1', Money, NEW r \in Requests, CommitRedeem(r) \/ CommitRename(r)
  PROVE  Money'
<1>. DEFINE u == input[r].user
            n == snap[r].cost
<1>1. /\ Inv1 /\ TablesOK /\ BalanceFresh(r) /\ snap[r] \in Snapshots
      /\ input[r] \in Inputs
      /\ pc[r] = "commit" /\ input[r].op \in {"redeem", "rename"}
  BY RequestTypes DEF Inv2, Inv1, TypeOK, FreshOK, CommitRedeem, CommitRename
<1>2. u \in Users /\ profile \in [Users -> ProfileRows] /\ profile[u] \in ProfileRows
      /\ spent \in [Users -> Nat] /\ n \in Nat
  BY <1>1, InputFields DEF TablesOK, Snapshots
<1>3. snap[r].row.available = profile[u].available /\ n <= profile[u].available
  BY <1>1 DEF BalanceFresh
<1>4. PICK row : /\ profile' = [profile EXCEPT ![u] = row]
                 /\ row.total = profile[u].total
                 /\ row.available = profile[u].available - n
  <2>1. CASE CommitRedeem(r)
    <3>. DEFINE x == [profile[u] EXCEPT !.available = snap[r].row.available - n,
                                        !.items = snap[r].row.items \cup {input[r].item}]
    <3>1. profile' = [profile EXCEPT ![u] = x]
      BY <2>1 DEF CommitRedeem, SaveProfile
    <3>2. x.total = profile[u].total /\ x.available = profile[u].available - n
      BY <1>2, <1>3 DEF ProfileRows
    <3>. QED
      BY <3>1, <3>2
  <2>2. CASE CommitRename(r)
    <3>. DEFINE x == [profile[u] EXCEPT !.available = snap[r].row.available - n,
                                        !.renames = snap[r].row.renames + 1]
    <3>1. profile' = [profile EXCEPT ![u] = x]
      BY <2>2 DEF CommitRename, SaveProfile
    <3>2. x.total = profile[u].total /\ x.available = profile[u].available - n
      BY <1>2, <1>3 DEF ProfileRows
    <3>. QED
      BY <3>1, <3>2
  <2>. QED
    BY <2>1, <2>2
<1>5. spent' = [spent EXCEPT ![u] = @ + n] /\ logs' = logs /\ clanPoints' = clanPoints
  BY DEF CommitRedeem, CommitRename
<1>6. \A v : UserSum(v)' = UserSum(v) /\ ClanSum(v)' = ClanSum(v)
  BY <1>5 DEF UserSum, ClanSum, CreditToUser, CreditToClan, LogIds
<1>. HIDE DEF u, n
<1>7. ASSUME NEW v \in Users
      PROVE  /\ profile'[v].total = UserSum(v)'
             /\ profile'[v].available = profile'[v].total - spent'[v]
             /\ profile'[v].available >= 0
  <2>1. /\ profile[v].total = UserSum(v) /\ profile[v].available >= 0
        /\ profile[v].available = profile[v].total - spent[v]
    BY MoneyInSums DEF Money, NeverOverdrawn
  <2>2. profile[v].total \in Int /\ profile[v].available \in Int /\ spent[v] \in Nat
    BY <1>2 DEF ProfileRows
  <2>3. CASE v = u
    <3>1. /\ profile'[v].total = profile[v].total /\ spent'[v] = spent[v] + n
          /\ profile'[v].available = profile[v].available - n
      BY <1>2, <1>4, <1>5, <2>3
    <3>. QED
      BY <1>2, <1>3, <1>6, <2>1, <2>2, <2>3, <3>1
  <2>4. CASE v # u
    BY <1>2, <1>4, <1>5, <1>6, <2>1, <2>4
  <2>. QED
    BY <2>3, <2>4
<1>8. BalanceExact' /\ NeverOverdrawn'
  BY <1>7 DEF BalanceExact, NeverOverdrawn, UserSum
<1>9. ClanTotalsExact'
  BY <1>5, <1>6 DEF Money, ClanTotalsExact, ClanSum
<1>. QED
  BY <1>8, <1>9 DEF Money

(* The inductive invariant of the money. *)
Inv3 == Inv2 /\ Money

(* Nothing is logged and every total is zero. *)
LEMMA Inv3Init == Init => Inv3
<1>. SUFFICES ASSUME Init PROVE Inv3
  OBVIOUS
<1>1. \A f : Sum(f, 0) = 0
  BY SumStep
<1>2. Len(logs) = 0
  BY DEF Init
<1>3. \A u \in Users : profile[u].total = 0 /\ profile[u].available = 0 /\ spent[u] = 0
  BY DEF Init, EmptyProfile
<1>4. \A c \in Clans : clanPoints[c] = 0
  BY DEF Init
<1>5. Money
  BY <1>1, <1>2, <1>3, <1>4 DEF Money, BalanceExact, NeverOverdrawn, ClanTotalsExact
<1>. QED
  BY <1>5, Inv2Init DEF Inv3

(* Only commits touch the totals, and each one keeps them exact. *)
LEMMA Inv3Next == Inv3 /\ [Next]_vars => Inv3'
<1>. SUFFICES ASSUME Inv3, [Next]_vars PROVE Inv3'
  OBVIOUS
<1>1. Inv2 /\ Money /\ Inv2'
  BY Inv2Next DEF Inv3
<1>2. Inv1 /\ Inv1'
  BY <1>1 DEF Inv2
<1>3. CASE UNCHANGED <<logs, profile, clanPoints, spent>>
  BY <1>1, <1>3 DEF Inv3, Money, BalanceExact, NeverOverdrawn, ClanTotalsExact,
     CreditToUser, CreditToClan, LogIds
<1>4. CASE ~UNCHANGED <<logs, profile, clanPoints, spent>>
  <2>1. PICK r \in Requests : CommitPending(r) \/ CommitCredited(r)
          \/ CommitApproval(r) \/ CommitRevocation(r) \/ CommitRejection(r)
          \/ CommitRedeem(r) \/ CommitRename(r)
    BY <1>4, ZenonT(60) DEF Next, vars, environment, ledger, Environment, Tick, EditAction, EditItem,
      AssignHome, SetFavourite, Start, Step, Abort, Refuse, LockUser,
      CheckSubmission, InsertLog, LockLog, LockProfileForCredit,
      LockProfileForRevocation, LockProfileForRedeem, LockProfileForRename,
      LockInstClan, LockPrivClan, Derive, CompareStreak, SaveStreak
  <2>2. Money'
    BY <1>1, <1>2, <2>1, CommitPendingMoney, CommitCreditedMoney,
       CommitApprovalMoney, CommitRevocationMoney, CommitRejectionMoney,
       CommitSpendMoney
  <2>. QED
    BY <1>1, <2>2 DEF Inv3
<1>. QED
  BY <1>3, <1>4

(* Stored balances never drift from the logs and the charges, whatever     *)
(* submissions, audits, purchases and nickname changes overlap.            *)
THEOREM BalancesExact == Spec => []BalanceExact
<1>1. Inv3 => BalanceExact
  BY DEF Inv3, Money
<1>. QED
  BY <1>1, Inv3Init, Inv3Next, PTL DEF Spec

(* No balance is ever negative: revoke_awarded_points, redeem_exchangeable *)
(* and change_nickname check it under the lock they write under.           *)
THEOREM BalancesCovered == Spec => []NeverOverdrawn
<1>1. Inv3 => NeverOverdrawn
  BY DEF Inv3, Money
<1>. QED
  BY <1>1, Inv3Init, Inv3Next, PTL DEF Spec

(* Clan totals equal the approved logs that recorded the clan, so that a   *)
(* revocation takes the points from the clans that received them.          *)
THEOREM ClanTotalsCorrect == Spec => []ClanTotalsExact
<1>1. Inv3 => ClanTotalsExact
  BY DEF Inv3, Money
<1>. QED
  BY <1>1, Inv3Init, Inv3Next, PTL DEF Spec

--------------------------------------------------------------------------------
(* Limits, keys and verdicts. *)

(* Commits that keep the rows keep the counts and the keys. *)
LEMMA SameRows ==
  ASSUME TablesOK, FrozenKept, Len(logs') = Len(logs), NEW u
  PROVE  /\ \A a, d : LogsOfDay(u, a, d)' = LogsOfDay(u, a, d)
         /\ \A k : KeyUsed(u, k)' <=> KeyUsed(u, k)
<1>1. LogIds' = LogIds
  BY DEF LogIds
<1>2. \A l \in LogIds : /\ logs'[l].user = logs[l].user /\ logs'[l].day = logs[l].day
                        /\ logs'[l].action = logs[l].action
                        /\ logs'[l].key = logs[l].key
  BY DEF FrozenKept
<1>. QED
  BY <1>1, <1>2 DEF LogsOfDay, KeyUsed

(* A new row counts on its day only, and uses its key. *)
LEMMA NewRow ==
  ASSUME TablesOK, NEW x, logs' = Append(logs, x), NEW u
  PROVE  /\ \A a, d : LogsOfDay(u, a, d)' = LogsOfDay(u, a, d) \cup
              (IF x.user = u /\ x.action = a /\ x.day = d
                 THEN {Len(logs) + 1} ELSE {})
         /\ \A k : KeyUsed(u, k)' <=> KeyUsed(u, k) \/ (x.user = u /\ x.key = k)
<1>. DEFINE n == Len(logs)
<1>1. n \in Nat /\ Len(logs') = n + 1 /\ logs'[n + 1] = x
      /\ \A l \in 1..n : logs'[l] = logs[l]
  BY DEF TablesOK
<1>2. LogIds' = 1..n + 1 /\ LogIds = 1..n
  BY <1>1 DEF LogIds
<1>. HIDE DEF n
<1>3. 1..n + 1 = (1..n) \cup {n + 1}
  BY <1>1
<1>4. ASSUME NEW a, NEW d
      PROVE  LogsOfDay(u, a, d)' = LogsOfDay(u, a, d) \cup
               (IF x.user = u /\ x.action = a /\ x.day = d THEN {n + 1} ELSE {})
  BY <1>1, <1>2, <1>3 DEF LogsOfDay
<1>5. ASSUME NEW k
      PROVE  KeyUsed(u, k)' <=> KeyUsed(u, k) \/ (x.user = u /\ x.key = k)
  BY <1>1, <1>2, <1>3 DEF KeyUsed
<1>. QED
  BY <1>4, <1>5 DEF n

(* The logs of a day are finitely many. *)
LEMMA DayCount ==
  ASSUME TablesOK, NEW u, NEW a, NEW d
  PROVE  /\ IsFiniteSet(LogsOfDay(u, a, d))
         /\ Cardinality(LogsOfDay(u, a, d)) \in Nat
         /\ Len(logs) + 1 \notin LogsOfDay(u, a, d)
<1>1. Len(logs) \in Nat
  BY DEF TablesOK
<1>2. IsFiniteSet(1..Len(logs))
  BY <1>1, FS_Interval
<1>3. LogsOfDay(u, a, d) \subseteq 1..Len(logs)
  BY DEF LogsOfDay, LogIds
<1>4. IsFiniteSet(LogsOfDay(u, a, d))
  BY <1>2, <1>3, FS_Subset
<1>5. Cardinality(LogsOfDay(u, a, d)) \in Nat
  BY <1>4, FS_CardinalityType
<1>. QED
  BY <1>1, <1>3, <1>4, <1>5

(* The submission of r is past its checks, and what RoomOK says of it. *)
Admitted(r) == input[r].op = "submit" /\ pc[r] \notin {"user", "check"}

Room(r) ==
  /\ ~KeyUsed(input[r].user, input[r].key)
  /\ CountedDay(r) <= today
  /\ Cardinality(LogsOfDay(input[r].user, input[r].action, CountedDay(r)))
       < DailyLimit[input[r].action]

(* RoomOK, request by request. *)
LEMMA RoomByRequest ==
  RoomOK <=> /\ \A l \in LogIds : logs[l].day <= today
             /\ \A r \in Requests : Admitted(r) => Room(r)
  BY DEF RoomOK, Admitted, Room

(* Midnight: the new day has no logs. *)
LEMMA TickRoom ==
  ASSUME Inv1, RoomOK, Tick
  PROVE  RoomOK'
<1>1. /\ today \in Nat /\ today' = today + 1 /\ logs' = logs
      /\ pc' = pc /\ input' = input /\ snap' = snap
  BY LedgerAssumption DEF Tick, ledger, Inv1, TypeOK, TablesOK, Days
<1>2. TablesOK
  BY DEF Inv1, TypeOK
<1>3. \A l \in LogIds : logs[l].day \in Nat
  BY <1>2, LogTypes, LedgerAssumption DEF Days
<1>4. \A l \in LogIds : logs[l].day <= today'
  BY <1>1, <1>3 DEF RoomOK
<1>5. ASSUME NEW r \in Requests, Admitted(r)' PROVE Room(r)'
  <2>1. Admitted(r) /\ input[r] \in Inputs /\ ControlAt(pc[r], input[r], snap[r])
    BY <1>1, <1>5, RequestTypes DEF Admitted
  <2>2. Room(r)
    BY <2>1, RoomByRequest
  <2>3. DailyLimit[input[r].action] \in Nat \ {0}
    BY <2>1, InputFields, LedgerAssumption DEF Admitted
  <2>4. CASE pc[r] = "insert"
    <3>1. LogsOfDay(input[r].user, input[r].action, today + 1) = {}
      BY <1>1, <1>3 DEF RoomOK, LogsOfDay
    <3>2. Cardinality({}) = 0
      BY FS_EmptySet
    <3>3. CountedDay(r)' = today + 1
      BY <1>1, <2>4 DEF CountedDay
    <3>4. LogsOfDay(input[r].user, input[r].action, CountedDay(r))' = {}
      BY <1>1, <3>1, <3>3 DEF LogsOfDay, LogIds
    <3>5. ~KeyUsed(input[r].user, input[r].key)'
      BY <1>1, <2>2 DEF Room, KeyUsed, LogIds
    <3>6. 0 < DailyLimit[input'[r].action] /\ CountedDay(r)' <= today'
      BY <1>1, <2>3, <3>3
    <3>. QED
      BY <3>2, <3>4, <3>5, <3>6 DEF Room
  <2>5. CASE pc[r] # "insert"
    <3>1. snap[r].day \in Nat /\ CountedDay(r) = snap[r].day
          /\ CountedDay(r)' = snap[r].day
      BY <1>1, <2>1, <2>5, RequestTypes DEF CountedDay, Snapshots
    <3>. QED
      BY <1>1, <2>2, <3>1 DEF Room, KeyUsed, LogsOfDay, LogIds
  <2>. QED
    BY <2>4, <2>5
<1>6. LogIds' = LogIds
  BY <1>1 DEF LogIds
<1>. QED
  BY <1>1, <1>4, <1>5, <1>6 DEF RoomOK, Admitted, Room

(* A request admitted after a step was admitted before it or has just      *)
(* passed its checks, and is counted on the same day.                      *)
LEMMA OwnRoom ==
  ASSUME Inv1, RoomOK, NEW r \in Requests, Start(r) \/ Step(r) \/ Abort(r),
         Admitted(r)'
  PROVE  /\ input'[r] = input[r] /\ logs' = logs /\ today' = today
         /\ IF pc[r] = "check" THEN Submittable(input[r]) ELSE Room(r)
         /\ CountedDay(r)' = IF pc[r] = "check" THEN today ELSE CountedDay(r)
<1>. DEFINE in == input[r]
<1>c. /\ ControlAt(pc[r], in, snap[r]) /\ in \in Inputs /\ snap[r] \in Snapshots
      /\ pc[r] \in Labels
  BY RequestTypes
<1>e. ~End(r)
  <2>1. End(r) => input'[r] = NoInput
    BY DEF Inv1, TypeOK, End
  <2>. QED
    BY <2>1 DEF Admitted, NoInput
<1>f. Admitted(r) => Room(r)
  BY RoomByRequest
<1>1. CASE Start(r)
  <2>1. PICK x \in Submissions \cup Audits \cup Purchases \cup Renames :
          input'[r] = x /\ pc'[r] = FirstLabel(x)
    BY <1>1 DEF Start, Goto, Inv1, TypeOK
  <2>. QED
    BY <2>1 DEF Admitted, FirstLabel
<1>2. CASE Abort(r)
  BY <1>2, <1>e DEF Abort, Refuse
<1>3. CASE LockUser(r)
  <2>1. input' = input /\ pc'[r] = IF in.op = "submit" THEN "check" ELSE "profile"
    BY <1>3 DEF LockUser, Goto, Inv1, TypeOK
  <2>. QED
    BY <2>1 DEF Admitted
<1>4. CASE CheckSubmission(r)
  <2>1. /\ input' = input /\ logs' = logs /\ today' = today /\ pc'[r] = "insert"
        /\ pc[r] = "check" /\ Submittable(in)
    BY <1>4, <1>e DEF CheckSubmission, Refuse, Goto, Inv1, TypeOK, ledger, environment
  <2>. QED
    BY <2>1 DEF CountedDay
<1>5. CASE InsertLog(r)
  <2>1. /\ input' = input /\ logs' = logs /\ today' = today /\ pc[r] = "insert"
        /\ pc'[r] \in {"commit", "profile"}
        /\ snap'[r] = [snap[r] EXCEPT !.day = today]
    BY <1>5 DEF InsertLog, Remember, Goto, Inv1, TypeOK, ledger, environment
  <2>2. snap'[r].day = today
    BY <1>c, <2>1 DEF Snapshots
  <2>3. in.op = "submit"
    BY <1>c, <2>1 DEF ControlAt
  <2>. QED
    BY <1>f, <2>1, <2>2, <2>3 DEF CountedDay, Admitted
<1>6. CASE /\ UNCHANGED <<environment, ledger, input>>
           /\ pc[r] \notin {"user", "check", "insert"}
           /\ pc'[r] # "insert" /\ snap'[r].day = snap[r].day
  BY <1>6, <1>f DEF CountedDay, Admitted, ledger, environment
<1>7. CASE LockLog(r)
  <2>1. input' = input /\ in.op \in {"approve", "reject"}
    BY <1>7, <1>e, <1>c DEF LockLog, Refuse, ControlAt
  <2>. QED
    BY <2>1 DEF Admitted
<1>8. CASE LockProfileForCredit(r)
  BY <1>6, <1>8 DEF LockProfileForCredit, Goto, Inv1, TypeOK
<1>9. CASE LockProfileForRevocation(r) \/ LockProfileForRedeem(r)
           \/ LockProfileForRename(r)
  <2>1. input' = input /\ in.op # "submit"
    BY <1>9, <1>e DEF LockProfileForRevocation, LockProfileForRedeem,
       LockProfileForRename, Refuse
  <2>. QED
    BY <2>1 DEF Admitted
<1>10. CASE LockInstClan(r) \/ LockPrivClan(r)
  BY <1>6, <1>10 DEF LockInstClan, LockPrivClan, Goto, Inv1, TypeOK
<1>11. CASE Derive(r)
  <2>. DEFINE table == OwnLogs(r, TouchedMissions(r))
  <2>1. /\ UNCHANGED <<environment, ledger, input>> /\ pc[r] = "derive"
        /\ pc'[r] \in {"streak", "commit"} /\ snap'[r] = Derived(r, table)
    BY <1>11 DEF Derive, Goto, Remember, Inv1, TypeOK
  <2>. HIDE DEF table
  <2>2. snap'[r].day = snap[r].day
    BY <1>c, <2>1 DEF Derived, Snapshots
  <2>. QED
    BY <1>6, <2>1, <2>2
<1>12. CASE CompareStreak(r) \/ SaveStreak(r)
  <2>1. /\ UNCHANGED <<environment, ledger, input>> /\ pc[r] \in {"streak", "save"}
        /\ pc'[r] \in {"save", "commit"} /\ snap'[r] = snap[r]
    BY <1>12 DEF CompareStreak, SaveStreak, Goto, Inv1, TypeOK
  <2>. QED
    BY <1>6, <2>1
<1>13. CASE CommitPending(r) \/ CommitCredited(r) \/ CommitApproval(r)
            \/ CommitRevocation(r) \/ CommitRejection(r) \/ CommitRedeem(r)
            \/ CommitRename(r)
  BY <1>13, <1>e DEF CommitPending, CommitCredited, CommitApproval,
     CommitRevocation, CommitRejection, CommitRedeem, CommitRename
<1>. QED
  BY <1>1, <1>2, <1>3, <1>4, <1>5, <1>7, <1>8, <1>9, <1>10, <1>11, <1>12, <1>13
     DEF Step

(* Commits that add a log. *)
Adds(r) == CommitPending(r) \/ CommitCredited(r)

(* Every other step of a request keeps the rows of the log table. *)
LEMMA RowsKept ==
  ASSUME Inv1, NEW r \in Requests, Start(r) \/ Step(r) \/ Abort(r), ~Adds(r)
  PROVE  Len(logs') = Len(logs) /\ today' = today
<1>1. CASE CommitApproval(r) \/ CommitRevocation(r) \/ CommitRejection(r)
  <2>1. today' = today /\ input[r].op \in {"approve", "reject"}
        /\ \E t : logs' = OwnLogs(r, t)
    BY <1>1 DEF CommitApproval, CommitRevocation, CommitRejection, RejectsPending,
                environment
  <2>. QED
    BY <2>1, AuditedRow
<1>2. CASE ~(CommitApproval(r) \/ CommitRevocation(r) \/ CommitRejection(r))
  BY <1>2 DEF Adds, environment, ledger, Start, Step, Abort, Refuse, LockUser,
      CheckSubmission, InsertLog, LockLog, LockProfileForCredit,
      LockProfileForRevocation, LockProfileForRedeem, LockProfileForRename,
      LockInstClan, LockPrivClan, Derive, CompareStreak, SaveStreak,
      CommitRedeem, CommitRename
<1>. QED
  BY <1>1, <1>2

(* A submission that passed the checks has room. *)
LEMMA CheckedRoom ==
  ASSUME Inv1, NEW r \in Requests, Submittable(input[r])
  PROVE  /\ ~KeyUsed(input[r].user, input[r].key)
         /\ Cardinality(LogsOfDay(input[r].user, input[r].action, today))
              < DailyLimit[input[r].action]
  BY DEF Submittable

(* What is left to show of a request's room after a step. *)
LEMMA RoomAfter ==
  ASSUME NEW q, NEW u, NEW a, NEW k, NEW d,
         input'[q].user = u, input'[q].action = a, input'[q].key = k,
         CountedDay(q)' = d, d <= today', ~KeyUsed(u, k)',
         Cardinality(LogsOfDay(u, a, d)') < DailyLimit[a]
  PROVE  Room(q)'
<1>1. LogsOfDay(input[q].user, input[q].action, CountedDay(q))' = LogsOfDay(u, a, d)'
  BY DEF LogsOfDay
<1>2. ~KeyUsed(input[q].user, input[q].key)'
  BY DEF KeyUsed
<1>. QED
  BY <1>1, <1>2 DEF Room

(* Steps that add no log keep every submission's room. *)
LEMMA KeepRoom ==
  ASSUME Inv1, RoomOK, FrozenKept, NEW r \in Requests, Others(r),
         Start(r) \/ Step(r) \/ Abort(r), ~Adds(r)
  PROVE  RoomOK' /\ (DailyLimitKept => DailyLimitKept')
<1>1. Len(logs') = Len(logs) /\ today' = today
  BY RowsKept
<1>2. TablesOK
  BY DEF Inv1, TypeOK
<1>3. \A u : /\ \A a, d : LogsOfDay(u, a, d)' = LogsOfDay(u, a, d)
             /\ \A k : KeyUsed(u, k)' <=> KeyUsed(u, k)
  BY <1>1, <1>2, SameRows
<1>4. \A l \in LogIds' : logs'[l].day <= today'
  BY <1>1 DEF LogIds, FrozenKept, RoomOK
<1>5. ASSUME NEW q \in Requests, Admitted(q)' PROVE Room(q)'
  <2>1. CASE q = r
    <3>1. /\ input'[r] = input[r]
          /\ IF pc[r] = "check" THEN Submittable(input[r]) ELSE Room(r)
          /\ CountedDay(r)' = IF pc[r] = "check" THEN today ELSE CountedDay(r)
      BY <1>5, <2>1, OwnRoom
    <3>2. CASE pc[r] = "check"
      <4>1. CountedDay(r)' = today /\ today <= today
        BY <3>1, <3>2 DEF CountedDay, Inv1, TypeOK, TablesOK, Days
      <4>2. /\ ~KeyUsed(input[r].user, input[r].key)
            /\ Cardinality(LogsOfDay(input[r].user, input[r].action, today))
                 < DailyLimit[input[r].action]
        BY <3>1, <3>2, CheckedRoom
      <4>. QED
        BY <1>1, <1>3, <2>1, <3>1, <4>1, <4>2, RoomAfter
    <3>3. CASE pc[r] # "check"
      <4>1. Room(r) /\ CountedDay(r)' = CountedDay(r)
        BY <3>1, <3>3
      <4>. QED
        BY <1>1, <1>3, <2>1, <3>1, <4>1, RoomAfter DEF Room
    <3>. QED
      BY <3>2, <3>3
  <2>2. CASE q # r
    <3>1. pc'[q] = pc[q] /\ input'[q] = input[q] /\ snap'[q] = snap[q]
      BY <2>2 DEF Others
    <3>2. Room(q) /\ CountedDay(q)' = CountedDay(q)
      BY <1>1, <1>5, <3>1, RoomByRequest DEF Admitted, CountedDay
    <3>. QED
      BY <1>1, <1>3, <3>1, <3>2, RoomAfter DEF Room
  <2>. QED
    BY <2>1, <2>2
<1>6. RoomOK'
  BY <1>4, <1>5 DEF RoomOK, Admitted, Room
<1>7. DailyLimitKept => DailyLimitKept'
  BY <1>3 DEF DailyLimitKept
<1>. QED
  BY <1>6, <1>7

(* A committed submission takes the room it kept, and none of the others':  *)
(* two admitted submissions belong to different users.                      *)
LEMMA AddRoom ==
  ASSUME Inv1, LocksOK, RoomOK, NEW r \in Requests, Others(r), Adds(r)
  PROVE  RoomOK' /\ (DailyLimitKept => DailyLimitKept')
<1>. DEFINE in == input[r]
            n == Len(logs)
<1>1. /\ TablesOK /\ pc[r] = "commit" /\ in.op = "submit" /\ today' = today
      /\ in \in Inputs /\ snap[r] \in Snapshots /\ Holding(r)
      /\ \E t : logs' = OwnLogs(r, t)
  BY RequestTypes DEF Inv1, TypeOK, Adds, CommitPending, CommitCredited, environment,
                      LocksOK
<1>2. PICK x : /\ logs' = Append(logs, x) /\ x.user = in.user
               /\ x.action = in.action /\ x.key = in.key /\ x.day = snap[r].day
  BY <1>1, SubmittedRow
<1>3. Room(r) /\ CountedDay(r) = snap[r].day
  BY <1>1, RoomByRequest DEF Admitted, CountedDay
<1>4. ASSUME NEW u
      PROVE  /\ \A a, d : LogsOfDay(u, a, d)' = LogsOfDay(u, a, d) \cup
                  (IF x.user = u /\ x.action = a /\ x.day = d THEN {n + 1} ELSE {})
             /\ \A k : KeyUsed(u, k)' <=> KeyUsed(u, k) \/ (x.user = u /\ x.key = k)
  BY <1>1, <1>2, NewRow
<1>5. ASSUME NEW l \in LogIds' PROVE logs'[l].day <= today'
  <2>1. n \in Nat /\ Len(logs') = n + 1 /\ logs'[n + 1] = x
        /\ \A k \in 1..n : logs'[k] = logs[k]
    BY <1>1, <1>2 DEF TablesOK
  <2>2. l = n + 1 \/ l \in 1..n
    BY <2>1 DEF LogIds
  <2>. QED
    BY <1>1, <1>2, <1>3, <2>1, <2>2 DEF RoomOK, Room, LogIds
<1>6. ASSUME NEW q \in Requests, Admitted(q)' PROVE Room(q)'
  <2>1. q # r
    <3>1. input'[r] = NoInput
      BY DEF Adds, CommitPending, CommitCredited, End, Inv1, TypeOK
    <3>. QED
      BY <1>6, <3>1 DEF Admitted, NoInput
  <2>2. pc'[q] = pc[q] /\ input'[q] = input[q] /\ snap'[q] = snap[q]
    BY <2>1 DEF Others
  <2>3. Admitted(q) /\ Room(q) /\ CountedDay(q)' = CountedDay(q)
    BY <1>1, <1>6, <2>2, RoomByRequest DEF Admitted, CountedDay
  <2>4. input[q].user # in.user
    <3>1. Holding(q) /\ held[q] \cap held[r] = {}
      BY <2>1 DEF LocksOK, Exclusive
    <3>2. UserRow(input[q].user) \in held[q] /\ UserRow(in.user) \in held[r]
      BY <1>1, <2>3, <3>1 DEF Holding, Admitted
    <3>. QED
      BY <3>1, <3>2
  <2>5. ASSUME NEW u, u # in.user
        PROVE  /\ \A a, d : LogsOfDay(u, a, d)' = LogsOfDay(u, a, d)
               /\ \A k : KeyUsed(u, k)' <=> KeyUsed(u, k)
    <3>1. x.user # u
      BY <1>2, <2>5
    <3>2. ASSUME NEW a, NEW d PROVE LogsOfDay(u, a, d)' = LogsOfDay(u, a, d)
      <4>1. LogsOfDay(u, a, d)' = LogsOfDay(u, a, d) \cup {}
        BY <1>4, <3>1
      <4>. QED
        BY <4>1
    <3>3. \A k : KeyUsed(u, k)' <=> KeyUsed(u, k)
      BY <1>2, <1>4, <2>5
    <3>. QED
      BY <3>2, <3>3
  <2>. QED
    BY <1>1, <2>2, <2>3, <2>4, <2>5, RoomAfter DEF Room
<1>7. RoomOK'
  BY <1>5, <1>6 DEF RoomOK, Admitted, Room
<1>8. ASSUME DailyLimitKept, NEW u \in Users, NEW a \in Actions, NEW d \in Days
      PROVE  Cardinality(LogsOfDay(u, a, d)') <= DailyLimit[a]
  <2>1. DailyLimit[a] \in Nat
    BY LedgerAssumption
  <2>2. /\ IsFiniteSet(LogsOfDay(u, a, d)) /\ n + 1 \notin LogsOfDay(u, a, d)
        /\ Cardinality(LogsOfDay(u, a, d)) \in Nat
    BY <1>1, DayCount
  <2>3. CASE x.user = u /\ x.action = a /\ x.day = d
    <3>1. Cardinality(LogsOfDay(u, a, d)) < DailyLimit[a]
      BY <1>2, <1>3, <2>3 DEF Room
    <3>2. Cardinality(LogsOfDay(u, a, d) \cup {n + 1})
            = Cardinality(LogsOfDay(u, a, d)) + 1
      BY <2>2, FS_AddElement
    <3>3. LogsOfDay(u, a, d)' = LogsOfDay(u, a, d) \cup {n + 1}
      BY <1>4, <2>3
    <3>. QED
      BY <2>1, <2>2, <3>1, <3>2, <3>3
  <2>4. CASE ~(x.user = u /\ x.action = a /\ x.day = d)
    <3>1. LogsOfDay(u, a, d)' = LogsOfDay(u, a, d) \cup {}
      BY <1>4, <2>4
    <3>2. LogsOfDay(u, a, d)' = LogsOfDay(u, a, d)
      BY <3>1
    <3>. QED
      BY <1>8, <3>2 DEF DailyLimitKept
  <2>. QED
    BY <2>3, <2>4
<1>9. DailyLimitKept => DailyLimitKept'
  BY <1>8 DEF DailyLimitKept
<1>. QED
  BY <1>7, <1>9

(* The whole inductive invariant of LedgerInvariant. *)
LEMMA IInvInit == Init => IInv
<1>. SUFFICES ASSUME Init PROVE IInv
  OBVIOUS
<1>1. LogIds = {}
  BY DEF Init, LogIds
<1>2. RoomOK
  BY <1>1 DEF Init, RoomOK, NoInput
<1>3. ASSUME NEW u \in Users, NEW a \in Actions, NEW d \in Days
      PROVE  Cardinality(LogsOfDay(u, a, d)) <= DailyLimit[a]
  <2>1. LogsOfDay(u, a, d) = {}
    BY <1>1 DEF LogsOfDay
  <2>2. DailyLimit[a] \in Nat
    BY LedgerAssumption
  <2>. QED
    BY <2>1, <2>2, FS_EmptySet
<1>4. DailyLimitKept
  BY <1>3 DEF DailyLimitKept
<1>. QED
  BY <1>2, <1>4, Inv3Init DEF IInv, Inv3, Inv2, Inv1, Money

(* Every step keeps the inductive invariant. *)
LEMMA IInvNext == IInv /\ [Next]_vars => IInv'
<1>. SUFFICES ASSUME IInv, [Next]_vars PROVE IInv'
  OBVIOUS
<1>1. Inv3 /\ RoomOK /\ DailyLimitKept
  BY DEF IInv, Inv3, Inv2, Inv1, Money
<1>2. Inv3' /\ Inv1 /\ LocksOK /\ FrozenKept
  BY <1>1, Inv3Next, LogsFrozen DEF Inv3, Inv2
<1>3. ASSUME UNCHANGED <<logs, today, pc, input, snap>>
      PROVE  RoomOK' /\ DailyLimitKept'
  BY <1>1, <1>3, ZenonT(60) DEF RoomOK, DailyLimitKept, KeyUsed, CountedDay, LogsOfDay, LogIds
<1>4. ASSUME Tick PROVE RoomOK' /\ DailyLimitKept'
  <2>1. logs' = logs
    BY <1>4 DEF Tick, ledger
  <2>. QED
    BY <1>1, <1>2, <1>4, <2>1, TickRoom DEF DailyLimitKept, LogsOfDay, LogIds
<1>5. ASSUME NEW r \in Requests, Start(r) \/ Step(r) \/ Abort(r)
      PROVE  RoomOK' /\ DailyLimitKept'
  <2>1. Others(r)
    BY <1>2, <1>5, OthersKept
  <2>. QED
    BY <1>1, <1>2, <1>5, <2>1, KeepRoom, AddRoom
<1>6. RoomOK' /\ DailyLimitKept'
  <2>1. CASE UNCHANGED vars \/ Environment
    BY <1>3, <1>4, <2>1 DEF vars, environment, ledger, Environment, EditAction, EditItem,
       AssignHome, SetFavourite
  <2>. QED
    BY <1>5, <2>1 DEF Next
<1>. QED
  BY <1>2, <1>6 DEF IInv, Inv3, Inv2, Inv1, Money

(* The inductive invariant holds in every reachable state. *)
THEOREM Invariance == Spec => []IInv
  BY IInvInit, IInvNext, PTL DEF Spec

(* No user logs an action more often than its daily limit on any calendar  *)
(* day, also when a submission is counted before midnight and inserted     *)
(* after it (count_user_action_logs_for_local_day under the user lock).    *)
THEOREM LimitKept == Spec => []DailyLimitKept
<1>1. IInv => DailyLimitKept
  BY DEF IInv
<1>. QED
  BY <1>1, Invariance, PTL

(* A replayed idempotency key is always met by the check and never by the  *)
(* unique constraint.                                                      *)
THEOREM ReplaysDetected == Spec => []ReplayNeverCollides
<1>1. IInv => ReplayNeverCollides
  BY DEF IInv, RoomOK, ReplayNeverCollides
<1>. QED
  BY <1>1, Invariance, PTL

--------------------------------------------------------------------------------
(* The life of a log. *)

(* A verdict is recorded only on the status it was given for. *)
LEMMA VerdictNext == Inv2 /\ Inv2' /\ [Next]_vars => VerdictStep
<1>. SUFFICES ASSUME Inv2, Inv2', [Next]_vars, NEW l \in LogIds
              PROVE  /\ l \in DOMAIN logs'
                     /\ <<logs[l].status, logs'[l].status>> \in
                          {<<"PENDING_AUDIT", "APPROVED">>,
                           <<"PENDING_AUDIT", "REJECTED">>,
                           <<"APPROVED", "REJECTED">>} \cup {<<s, s>> : s \in Statuses}
                     /\ Frozen(logs'[l]) = Frozen(logs[l])
  BY DEF VerdictStep
<1>1. Inv1 /\ TablesOK /\ TablesOK' /\ FrozenKept
  BY LogsFrozen DEF Inv2, Inv1, TypeOK
<1>2. l \in DOMAIN logs' /\ logs[l] \in LogRows /\ logs'[l] \in LogRows
  <2>1. l \in LogIds' /\ logs' \in Seq(LogRows)
    BY <1>1 DEF FrozenKept, TablesOK
  <2>. QED
    BY <1>1, <2>1, LogTypes DEF LogIds
<1>3. Frozen(logs'[l]) = Frozen(logs[l])
  BY <1>1 DEF FrozenKept, Frozen
<1>4. logs[l].status \in Statuses
  BY <1>2 DEF LogRows
<1>5. \/ logs'[l].status = logs[l].status
      \/ logs[l].status = "PENDING_AUDIT" /\ logs'[l].status = "APPROVED"
      \/ logs[l].status \in {"PENDING_AUDIT", "APPROVED"}
         /\ logs'[l].status = "REJECTED"
  <2>1. CASE logs' = logs
    BY <2>1
  <2>2. CASE logs' # logs
    <3>1. PICK r \in Requests : CommitPending(r) \/ CommitCredited(r)
            \/ CommitApproval(r) \/ CommitRevocation(r) \/ CommitRejection(r)
      BY <2>2, ZenonT(60) DEF Next, vars, environment, ledger, Environment, Tick, EditAction,
        EditItem, AssignHome, SetFavourite, Start, Step, Abort, Refuse, LockUser,
        CheckSubmission, InsertLog, LockLog, LockProfileForCredit,
        LockProfileForRevocation, LockProfileForRedeem, LockProfileForRename,
        LockInstClan, LockPrivClan, Derive, CompareStreak, SaveStreak,
        CommitRedeem, CommitRename
    <3>2. CASE CommitPending(r) \/ CommitCredited(r)
      <4>1. \E t : logs' = OwnLogs(r, t) /\ input[r].op = "submit"
        BY <3>2 DEF CommitPending, CommitCredited
      <4>2. PICK x : logs' = Append(logs, x)
        BY <1>1, <4>1, SubmittedRow
      <4>. QED
        BY <1>1, <4>2 DEF TablesOK, LogIds
    <3>3. CASE CommitApproval(r) \/ CommitRevocation(r) \/ CommitRejection(r)
      <4>. DEFINE j == input[r].log
      <4>1. /\ pc[r] = "commit" /\ input[r].op \in {"approve", "reject"}
            /\ \E t : logs' = OwnLogs(r, t)
        BY <3>3 DEF CommitApproval, CommitRevocation, CommitRejection, RejectsPending
      <4>2. /\ \A k \in LogIds : k # j => logs'[k] = logs[k]
            /\ logs'[j].status = IF input[r].op = "approve" THEN "APPROVED"
                                                           ELSE "REJECTED"
        BY <1>1, <4>1, AuditedRow
      <4>3. logs[j].status \in Auditable(input[r].op)
        BY <4>1 DEF Inv2, FreshOK, LogFresh, Auditing
      <4>. QED
        BY <4>1, <4>2, <4>3 DEF Auditable
    <3>. QED
      BY <3>1, <3>2, <3>3
  <2>. QED
    BY <2>1, <2>2
<1>. QED
  BY <1>2, <1>3, <1>4, <1>5

(* Two administrators never record two verdicts on the same state of a log *)
(* (select_for_update in ActionLogAuditView.patch).                        *)
THEOREM VerdictsFinal == Spec => AuditsOneWay
<1>1. Inv2 /\ Inv2' /\ [Next]_vars => [VerdictStep]_vars
  BY VerdictNext
<1>. QED
  BY <1>1, Inv2Init, Inv2Next, PTL DEF Spec, AuditsOneWay

================================================================================
