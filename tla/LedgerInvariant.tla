----------------------------- MODULE LedgerInvariant -----------------------------
(***************************************************************************)
(* The inductive invariant behind the safety properties of PointsLedger:   *)
(* which statement of which handler a request can be at, which rows it     *)
(* holds there, and which of the values it remembers are still those of    *)
(* the database because it holds the row they came from.                   *)
(***************************************************************************)
EXTENDS PointsLedger

(* The statements a request with input in and memory s can be at. *)
ControlAt(label, in, s) ==
  /\ label = "idle" <=> in.op = "none"
  /\ label = "user" => in.op \in {"submit", "rename"}
  /\ label \in {"check", "insert"} => in.op = "submit"
  /\ label = "log" => in.op \in {"approve", "reject"}
  /\ label \in {"inst", "priv", "derive"} => in.op \in {"submit", "approve", "reject"}
  /\ label \in {"streak", "save"} => in.op = "reject" /\ s.was = "PENDING_AUDIT"
  /\ label \in {"profile", "inst", "priv"} /\ in.op = "reject" => s.was = "APPROVED"
  /\ label \in {"profile", "inst", "priv"} /\ in.op \in {"approve", "reject"}
       => s.inst \in InstClans
  /\ label = "priv" => s.priv # None
  /\ in.op = "submit" =>
       /\ label \in {"user", "check", "insert", "profile", "inst", "priv",
                     "derive", "commit"}
       /\ label \in {"profile", "inst", "priv", "derive"} => ~s.photo
       /\ label \notin {"user", "check"} => s.inst \in InstClans
       /\ label \notin {"user", "check", "insert"} => s.day \in Days
  /\ in.op \in {"redeem", "rename"} => label \in {"user", "profile", "commit"}

(* An audit works on a log that exists. *)
LogExists(in) == in.op \in {"approve", "reject"} => in.log \in LogIds

ControlOK ==
  \A r \in Requests : ControlAt(pc[r], input[r], snap[r]) /\ LogExists(input[r])

Auditing(r) == input[r].op \in {"approve", "reject"} /\ pc[r] # "log"

(* The request is past the statement that locks the profile row. *)
MovesPoints(r) ==
  \/ pc[r] \in {"inst", "priv"}
  \/ pc[r] \in {"derive", "commit"} /\ input[r].op = "submit" /\ ~snap[r].photo
  \/ pc[r] \in {"derive", "commit"} /\ input[r].op = "approve"
  \/ pc[r] \in {"derive", "commit"} /\ input[r].op = "reject"
       /\ snap[r].was = "APPROVED"
  \/ pc[r] = "commit" /\ input[r].op \in {"redeem", "rename"}

(* A row has one holder. *)
Exclusive == \A q, r \in Requests : q # r => held[q] \cap held[r] = {}

(* A request holds the rows its handler has locked. *)
Holding(r) ==
  /\ input[r].op = "submit" /\ pc[r] # "user" => UserRow(input[r].user) \in held[r]
  /\ Auditing(r) => LogRow(input[r].log) \in held[r]
  /\ MovesPoints(r) => ProfileRow(UserOf(r)) \in held[r]

LocksOK == Exclusive /\ \A r \in Requests : Holding(r)

(* The log an audit holds is still as it was read. *)
LogFresh(r) ==
  Auditing(r) =>
    LET log == logs[input[r].log]
    IN  /\ snap[r].was = log.status
        /\ snap[r].was \in Auditable(input[r].op)
        /\ snap[r].points = log.points
        /\ snap[r].inst = log.inst
        /\ snap[r].priv = log.priv
        /\ snap[r].day = log.day

(* The balance a request checked is still the balance of the profile. *)
BalanceFresh(r) ==
  /\ pc[r] = "commit" /\ input[r].op \in {"redeem", "rename"} =>
       /\ snap[r].row.available = profile[input[r].user].available
       /\ snap[r].cost <= profile[input[r].user].available
  /\ MovesPoints(r) /\ input[r].op = "reject"
       => profile[UserOf(r)].available >= snap[r].points

FreshOK == \A r \in Requests : LogFresh(r) /\ BalanceFresh(r)

(* The day a submission is counted on: today until created_at is stamped. *)
CountedDay(r) == IF pc[r] = "insert" THEN today ELSE snap[r].day

(* A submission past its checks can still be inserted: its key is unused   *)
(* and there is room on the day it counts on, also when that day has begun *)
(* after the checks.  No log is dated in the future.                       *)
RoomOK ==
  /\ \A l \in LogIds : logs[l].day <= today
  /\ \A r \in Requests :
       input[r].op = "submit" /\ pc[r] \notin {"user", "check"} =>
         /\ ~KeyUsed(input[r].user, input[r].key)
         /\ CountedDay(r) <= today
         /\ Cardinality(LogsOfDay(input[r].user, input[r].action, CountedDay(r)))
              < DailyLimit[input[r].action]

(* The inductive invariant: control, locks and remembered values agree     *)
(* with the tables at every statement of every handler.                    *)
IInv == /\ TypeOK /\ ControlOK /\ LocksOK /\ FreshOK /\ RoomOK
        /\ BalanceExact /\ NeverOverdrawn /\ ClanTotalsExact /\ DailyLimitKept

--------------------------------------------------------------------------------
(* Deadlock freedom: rows have a place in one order, and a request that    *)
(* may still wait holds only rows before the next one it can wait for.     *)

(* The place of a row in the order in which handlers lock. *)
Rank(row) == IF row[1] = "user" THEN 1
             ELSE IF row[1] = "log" THEN 2
             ELSE IF row[1] = "profile" THEN 3
             ELSE IF row[2] \in InstClans THEN 4 ELSE 5

(* The place of the next row a request at a statement can wait for, where  *)
(* the rejection of a pending log has the profile row still ahead of it.   *)
LevelAt(label, pending) ==
  CASE label \in {"idle", "user"} -> 1
    [] label = "log" -> 2
    [] label \in {"check", "insert", "profile", "streak", "save"} -> 3
    [] label = "derive" -> IF pending THEN 3 ELSE 6
    [] label = "inst" -> 4
    [] label = "priv" -> 5
    [] label = "commit" -> 6

Level(r) == LevelAt(pc[r], RejectsPending(r))

OrderOK == \A r \in Requests : \A row \in held[r] : Rank(row) < Level(r)

--------------------------------------------------------------------------------
(* Badges, missions and the streak: what a request derived under the       *)
(* profile lock is still what the tables yield when it commits.            *)

(* The request is about to move points. *)
Credits(r) == /\ pc[r] = "commit" /\ MovesPoints(r)
              /\ input[r].op \in {"submit", "approve", "reject"}

(* The approved logs of u in a log table, those that count for m, and the  *)
(* stored count of k of them.                                              *)
Approved(ls, u) == {l \in 1..Len(ls) : ls[l].user = u /\ ls[l].status = "APPROVED"}

CountSet(ls, u, m) == {l \in Approved(ls, u) : m \in ls[l].missions}

Clamp(m, k) == IF k < MissionTarget[m] THEN k ELSE MissionTarget[m]

(* The days of the rows of a set of logs, within the streak window. *)
DaysOf(ls, S, d) == {ls[l].day : l \in {k \in S : ls[k].day >= d - StreakWindow}}

(* How much the log of r adds to the contributions of its user to m, when  *)
(* a credit links it to the missions t.                                    *)
Shift(r, t, m) ==
  IF input[r].op = "reject"
    THEN IF m \in logs[input[r].log].missions THEN -1 ELSE 0
    ELSE IF m \in t THEN 1 ELSE 0

(* The active days that r sees: its own log is approved or revoked.        *)
OwnDays(r, d) ==
  IF input[r].op = "reject"
    THEN DaysOf(logs, Approved(logs, UserOf(r)) \ {input[r].log}, d)
    ELSE DaysOf(logs, Approved(logs, UserOf(r)), d)
           \cup {x \in {snap[r].day} : x >= d - StreakWindow}

(* The remembered counts, streak and badges are those of the approved logs *)
(* in the tables, with the log of r added to them or taken away.           *)
DerivedFresh(r) ==
  /\ input[r].op = "reject" /\ pc[r] \in {"streak", "save", "commit"} =>
       snap[r].touched = logs[input[r].log].missions /\ snap[r].award = {}
  /\ Credits(r) =>
       /\ \A m \in Missions :
            snap[r].counts[m] = Clamp(m, Cardinality(CountSet(logs, UserOf(r), m))
                                           + Shift(r, snap[r].touched, m))
       /\ \E d \in 1..today : /\ snap[r].streak = StreakLength(OwnDays(r, d), d)
                              /\ snap[r].last = LastDay(OwnDays(r, d))
       /\ input[r].op # "reject" =>
            snap[r].award
              = NewBadges(UserOf(r), profile[UserOf(r)].total + snap[r].points)

(* A log that waits for its audit contributes to no mission yet. *)
PendingOK == \A l \in LogIds : logs[l].status = "PENDING_AUDIT" => logs[l].missions = {}

(* Notifications are about logs that exist, and a badge is announced once  *)
(* when it is owned and not before.                                        *)
NotesOK ==
  /\ \A n \in inbox : n.log \in LogIds
  /\ \A u \in Users, b \in Badges :
       /\ b \in badges[u] => \E n \in inbox : NotesAbout(u, "BADGE_EARNED", b) = {n}
       /\ b \notin badges[u] => NotesAbout(u, "BADGE_EARNED", b) = {}

(* A user with points owns the badges of the total. *)
BadgesOwned ==
  \A u \in Users, b \in Badges :
    profile[u].total > 0 /\ BadgeAt[b] <= profile[u].total => b \in badges[u]

RewardsOK == /\ \A r \in Requests : DerivedFresh(r)
             /\ PendingOK /\ NotesOK /\ BadgesOwned /\ MissionProgressExact

================================================================================
