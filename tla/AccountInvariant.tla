---------------------------- MODULE AccountInvariant ----------------------------
(***************************************************************************)
(* The inductive invariant behind the safety properties of                 *)
(* AccountLifecycle: which statement of which handler a request can be at, *)
(* which rows it has locked there, and what it read under a lock that no   *)
(* other request can have changed since.                                   *)
(***************************************************************************)
EXTENDS AccountLifecycle

(* What a request brings, field by field. *)
InputAt(in) ==
  /\ in.op \in AllOps \cup {None}
  /\ in.op # None => in.user \in Users
  /\ in.op = "login" => in.login \in ExternalIdentity
  /\ in.op \in {"role", "form"} => in.role \in Roles
  /\ in.op = "form" => in.active \in BOOLEAN
  /\ in.op = "onboard" => in.career \in Careers /\ in.named \in BOOLEAN
  /\ in.op \in {"submit", "approve", "revoke"} => in.slot \in Slots

Snapshots == [row : AccountRows \cup {NoAccount}, profile : Profiles,
              todo : SUBSET Users, seen : SUBSET Users, attempt : {1, 2},
              gone : SUBSET Careers, period : Nat, on : Users \cup {None}]

(* The statements of each handler. *)
ControlAt(label, in) ==
  /\ label = "idle" <=> in.op = None
  /\ label \in {"oid", "email", "save", "sync", "write", "conflict", "error"}
       => in.op = "login"
  /\ label \in {"admins", "lock"} => in.op \in {"role", "deactivate"}
  /\ label = "role" => in.op = "role"
  /\ label \in {"wipe", "logs", "reset"} => in.op = "deactivate"
  /\ label \in {"load", "store"} => in.op = "form"
  /\ label \in {"read", "assign", "member"} => in.op = "onboard"
  /\ label = "submit" => in.op = "submit"
  /\ label \in {"log", "points", "award"} => in.op \in {"approve", "revoke"}
  /\ label = "redeem" => in.op = "redeem"

RequestsOK ==
  /\ DOMAIN input = Requests /\ DOMAIN held = Requests
  /\ snap \in [Requests -> Snapshots]
  /\ \A r \in Requests :
       /\ InputAt(input[r])
       /\ ControlAt(pc[r], input[r])
       /\ input[r].op \notin {None, "login"} => Exists(input[r].user)

(* Transactions that hold the same row hold it in modes that agree. *)
Compatible ==
  \A q, r \in Requests : q # r =>
    \A l \in held[q], k \in held[r] : l[1] = k[1] => ~Conflict(l[2], k[2])

(* A sign-in that will save a user row: of an account it has locked, or of  *)
(* one it creates, whose key nobody else was given.  Neither makes an ADMIN *)
(* nor unmakes one.  What the profile it read is worth has not changed.     *)
Saving(r) == pc[r] \in {"save", "sync", "write"}

Worth(p) == p.points + (IF p.item THEN 1 ELSE 0)

SavingOK(r) ==
  Saving(r) =>
    LET u == snap[r].on
        row == snap[r].row
    IN  /\ u \in Users
        /\ Exists(u) => <<UserRow(u), "update">> \in held[r]
        /\ row \in AccountRows /\ row.active
        /\ row.role = "ADMIN" <=> account[u].role = "ADMIN"
        /\ pc[r] = "write" => Worth(snap[r].profile) = Worth(profile[u])

(* Two sign-ins do not save the same account. *)
KeysApart ==
  \A q, r \in Requests : q # r /\ Saving(q) /\ Saving(r) => snap[q].on # snap[r].on

(* A role change or deactivation: the administrators it has seen are locked *)
(* and therefore still active, and so is the account itself once it is out  *)
(* of the rows to come.                                                     *)
Counting(r) == pc[r] \in {"lock", "role", "wipe", "logs", "reset"}

CountingOK(r) ==
  /\ pc[r] = "admins" => snap[r].seen = {}
  /\ Counting(r) =>
       LET u == input[r].user IN
       /\ pc[r] = "lock" <=> snap[r].todo # {}
       /\ \A a \in snap[r].seen :
            a \in ActiveAdmins /\ <<UserRow(a), LockMode(r)>> \in held[r]
       /\ u \notin snap[r].todo => /\ snap[r].row.role = account[u].role
                                   /\ <<UserRow(u), LockMode(r)>> \in held[r]
       /\ pc[r] \in {"logs", "reset"} => ~LastAdmin(r)
       /\ pc[r] = "reset" => \A s \in Pending(u) : <<LogRow(u, s), "nokey">> \in held[r]

(* The row the admin form will save. *)
FormOK(r) == pc[r] = "store" => snap[r].row \in AccountRows

(* An audit: the log it has locked keeps its status, the profile its        *)
(* balance.  An onboarding has locked the profile too.                      *)
Wanted(in) == IF in.op = "approve" THEN "PENDING" ELSE "APPROVED"

AuditOK(r) ==
  LET u == input[r].user
      s == input[r].slot
  IN  /\ pc[r] \in {"points", "award"} =>
           /\ <<LogRow(u, s), "update">> \in held[r]
           /\ logs[u][s].status = Wanted(input[r])
      /\ pc[r] = "award" /\ input[r].op = "revoke" => profile[u].points >= 1
      /\ pc[r] \in {"award", "member"} => <<ProfileRow(u), "nokey">> \in held[r]

HandlersOK ==
  \A r \in Requests : SavingOK(r) /\ CountingOK(r) /\ FormOK(r) /\ AuditOK(r)

(* Logs belong to a period of the account that has begun. *)
PeriodsOK == \A u \in Users : \A s \in Slots : logs[u][s].period <= resets[u]

(* An account that is not active and that the admin form never touched has  *)
(* nothing left to spend or to approve, whoever saved its row last.         *)
IdleOK ==
  \A u \in Users : ~Active(u) /\ formed[u] = "never" =>
    profile[u].points = 0 /\ Pending(u) = {}

(* The inductive invariant. *)
IInv == /\ TypeOK /\ RequestsOK /\ Compatible /\ KeysApart /\ HandlersOK
        /\ PeriodsOK /\ PendingFresh /\ IdleOK

================================================================================
