---------------------------- MODULE AccountLifecycle ----------------------------
(***************************************************************************)
(* Accounts of GreenITESO: Microsoft sign-in, roles and the last           *)
(* administrator, deactivation and return, onboarding, the profile, and    *)
(* the Django admin form of a user (accounts/services.py, admin.py,        *)
(* clans/services.py), against the submissions and audits that credit the  *)
(* same profile.                                                           *)
(*                                                                         *)
(* A handler is one PostgreSQL transaction under READ COMMITTED.  Rows are *)
(* locked in three modes: "update" (select_for_update), "nokey"            *)
(* (select_for_update(no_key=True) and any UPDATE) and "share", the KEY    *)
(* SHARE lock a foreign key takes on the user it points to.  The unique    *)
(* indexes of microsoft_oid and email are rows too: an uncommitted entry   *)
(* makes another INSERT of the same key wait.                              *)
(***************************************************************************)
EXTENDS Integers, Sequences, FiniteSets, FiniteSetsExt

CONSTANTS
  Users,       \* primary keys of accounts, in their order
  Tokens,      \* the pairs of tokens a person signs in with
  Domain,      \* e-mails of the institution
  StaffEmails, \* e-mails that are staff whatever the directory says
  Careers,     \* institutional clans
  Slots,       \* action logs of a user
  Requests,    \* request slots
  Workloads,   \* sets of pairs: an operation, the account it is about
  FirstRows,   \* the accounts that exist at first
  None,        \* SQL NULL; a job title the directory did not deliver
  MaxResets    \* bound on the deactivations of an account

AllOps == {"login", "deactivate", "role", "form", "onboard", "submit",
           "approve", "revoke", "redeem"}
Roles == {"STUDENT", "STAFF", "ADMIN"}

(* What a pair of tokens proves: the ID token is signed for this client and *)
(* tenant, and Graph, when it answers, describes the same object id.        *)
Verified(t) == t.ours
SameUser(t) == t.graph # None => t.graph.id = t.oid

(* Graph's e-mail and title; without Graph the claim, and no title. *)
authenticate(t) ==
  IF t.graph = None THEN [oid |-> t.oid, email |-> t.claim, title |-> None]
  ELSE [oid |-> t.oid, email |-> t.graph.mail, title |-> t.graph.title]

is_institutional_email(e) == e \in Domain

Sessions(u) == {t \in Tokens[u] : Verified(t) /\ SameUser(t)
                                 /\ is_institutional_email(authenticate(t).email)}

AllTokens == UNION {Tokens[u] : u \in Users}
Oids == {t.oid : t \in AllTokens} \cup {FirstRows[u].oid : u \in DOMAIN FirstRows}
Emails == Domain \cup {FirstRows[u].email : u \in DOMAIN FirstRows}
Titles == {t.graph.title : t \in {t \in AllTokens : t.graph # None}}
ExternalIdentity == [oid : Oids, email : Emails, title : Titles \cup {None}]
AccountRows == [oid : Oids \cup {None}, email : Emails, role : Roles,
                active : BOOLEAN, left : BOOLEAN]

ASSUME AccountAssumption ==
  /\ Users \subseteq Nat /\ IsFiniteSet(Users) /\ IsFiniteSet(Slots)
  /\ None \notin Roles \cup AllOps
  /\ \A w \in Workloads : w \subseteq AllOps \X Users
  /\ DOMAIN FirstRows \subseteq Users
  /\ \A u \in DOMAIN FirstRows : FirstRows[u] \in AccountRows
  /\ \A u, v \in DOMAIN FirstRows :
       u # v => /\ FirstRows[u].email # FirstRows[v].email
                /\ FirstRows[u].oid = FirstRows[v].oid => FirstRows[u].oid = None
  /\ MaxResets \in Nat

VARIABLES
  account,   \* User rows; left: deactivated_at is set
  profile,   \* UserProfile: available_points, a cosmetic, institutional_clan
  members,   \* institutional ClanMembership rows of a user
  logs,      \* ActionLog: status and the period it was requested in
  resets,    \* progress_reset_at: how often the account was wiped
  formed,    \* history: whether the admin form last enabled or disabled it
  mix,       \* the workload of this behaviour
  pc, input, snap, held   \* the running requests and their row locks

tables == <<account, profile, members, logs, resets, formed>>
vars == <<tables, mix, pc, input, snap, held>>

--------------------------------------------------------------------------------
(* Rows and locks. *)

NoAccount == [role |-> None]
Profiles == [points : Int, clan : Careers \cup {None}, item : BOOLEAN]
NewProfile == [points |-> 0, clan |-> None, item |-> FALSE]
NoLog == [status |-> "NONE", period |-> 0]
Logs == [status : {"NONE", "PENDING", "APPROVED", "REJECTED"}, period : Nat]

Exists(u) == account[u] # NoAccount
Active(u) == Exists(u) /\ account[u].active
IsAdmin(row) == row.role = "ADMIN" /\ row.active
ActiveAdmins == {u \in Users : Exists(u) /\ IsAdmin(account[u])}

UserRow(u) == <<"user", u>>
ProfileRow(u) == <<"profile", u>>
LogRow(u, s) == <<"log", u, s>>
OidKey(o) == <<"oid", o>>
EmailKey(e) == <<"email", e>>

Conflict(m, n) == \/ m = "update" \/ n = "update"
                  \/ m = "nokey" /\ n = "nokey"

Free(r, row, mode) ==
  \A q \in Requests \ {r} : \A l \in held[q] :
    l[1] = row => ~Conflict(l[2], mode)

Take(r, locks) == held' = [held EXCEPT ![r] = @ \cup locks]

NoInput == [op |-> None]
Blank == [row |-> NoAccount, profile |-> NewProfile, todo |-> {}, seen |-> {},
          attempt |-> 1, gone |-> {}, period |-> 0, on |-> None]

Goto(r, label) == pc' = [pc EXCEPT ![r] = label] /\ UNCHANGED <<mix, input>>
Remember(r, values) == snap' = [snap EXCEPT ![r] = values]

End(r) ==
  /\ pc' = [pc EXCEPT ![r] = "idle"]
  /\ input' = [input EXCEPT ![r] = NoInput]
  /\ snap' = [snap EXCEPT ![r] = Blank]
  /\ held' = [held EXCEPT ![r] = {}]
  /\ UNCHANGED mix

(* An error response: the transaction is rolled back, the client is told. *)
Fail(r, label) ==
  /\ Goto(r, label)
  /\ held' = [held EXCEPT ![r] = {}]
  /\ UNCHANGED <<tables, snap>>

--------------------------------------------------------------------------------
(* Requests.  Authentication looks at the account once, when it begins. *)

First(op) == CASE op = "login" -> "oid"
               [] op \in {"deactivate", "role"} -> "admins"
               [] op = "form" -> "load"
               [] op = "onboard" -> "read"
               [] op \in {"approve", "revoke"} -> "log"
               [] OTHER -> op

LoginInputs(u) == [op : {"login"}, user : {u},
                   login : {authenticate(t) : t \in Sessions(u)}]
RoleInputs(u) == [op : {"role"}, user : {u}, role : Roles]
FormInputs(u) == [op : {"form"}, user : {u}, active : BOOLEAN, role : Roles]
OnboardInputs(u) == [op : {"onboard"}, user : {u}, career : Careers,
                     named : BOOLEAN]
LogInputs(op, u) == [op : {op}, user : {u}, slot : Slots]
PlainInputs(op, u) == [op : {op}, user : {u}]

Inputs(op, u) ==
  CASE op = "login" -> LoginInputs(u)
    [] op = "role" -> RoleInputs(u)
    [] op = "form" -> FormInputs(u)
    [] op = "onboard" -> OnboardInputs(u)
    [] op \in {"submit", "approve", "revoke"} -> LogInputs(op, u)
    [] OTHER -> PlainInputs(op, u)

Begin(r) ==
  /\ pc[r] = "idle"
  /\ \E op \in AllOps, u \in Users : \E i \in Inputs(op, u) :
       /\ <<op, u>> \in mix
       /\ op # "login" => Exists(u)
       /\ op \in {"deactivate", "onboard", "submit", "redeem"} => Active(u)
       /\ op = "deactivate" => resets[u] < MaxResets
       /\ op \in {"approve", "revoke"} => ActiveAdmins # {}
       /\ input' = [input EXCEPT ![r] = i]
       /\ pc' = [pc EXCEPT ![r] = First(op)]
       /\ Remember(r, [Blank EXCEPT !.period = resets[u]])
  /\ UNCHANGED <<tables, mix, held>>

(* A cancelled statement, a lost connection or a dead worker: rollback. *)
Abort(r) == pc[r] # "idle" /\ End(r) /\ UNCHANGED tables

(* The error response is sent. *)
Answer(r) == pc[r] \in {"conflict", "error"} /\ End(r) /\ UNCHANGED tables

--------------------------------------------------------------------------------
(* login_with_microsoft *)

determine_initial_role(l) ==
  IF l.email \in StaffEmails \/ l.title = "PROFESOR" THEN "STAFF" ELSE "STUDENT"

ByOid(o) == {u \in Users : Exists(u) /\ account[u].oid = o}
ByEmail(e) == {u \in Users : Exists(u) /\ account[u].email = e}

(* Mutant: the directory's role replaces an administrator's. *)
LoggedInDemotes(u, l) ==
  [account[u] EXCEPT
     !.oid = l.oid, !.active = TRUE, !.left = FALSE,
     !.role = IF l.title = None THEN @ ELSE determine_initial_role(l)]

(* The account as the login will save it: back if its owner left it, with   *)
(* the directory's role unless it is an ADMIN or the directory is unknown,  *)
(* and with the directory's e-mail unless another account has it.           *)
LoggedIn(u, l) ==
  LET row == account[u] IN
  [row EXCEPT
     !.oid = l.oid,
     !.active = TRUE,
     !.left = IF row.active THEN @ ELSE FALSE,
     !.role = IF @ = "ADMIN" \/ l.title = None THEN @
              ELSE determine_initial_role(l),
     !.email = IF ByEmail(l.email) \ {u} = {} THEN l.email ELSE @]

(* Mutant: select_for_update(no_key=True), as in deactivate_account. *)
LockedNoKey(r, u) ==
  LET l == input[r].login IN
  /\ Free(r, UserRow(u), "nokey")
  /\ IF account[u].active \/ account[u].left
     THEN /\ Take(r, {<<UserRow(u), "nokey">>})
          /\ Remember(r, [snap[r] EXCEPT !.row = LoggedIn(u, l), !.on = u])
          /\ Goto(r, "save")
     ELSE End(r)
  /\ UNCHANGED tables

(* _reactivate_if_self_deactivated refuses an account an admin disabled. *)
Locked(r, u) ==
  LET l == input[r].login IN
  /\ Free(r, UserRow(u), "update")
  /\ IF account[u].active \/ account[u].left
     THEN /\ Take(r, {<<UserRow(u), "update">>})
          /\ Remember(r, [snap[r] EXCEPT !.row = LoggedIn(u, l), !.on = u])
          /\ Goto(r, "save")
     ELSE End(r)
  /\ UNCHANGED tables

FindByOid(r) ==
  /\ pc[r] = "oid"
  /\ \/ \E u \in ByOid(input[r].login.oid) : Locked(r, u)
     \/ /\ ByOid(input[r].login.oid) = {}
        /\ Goto(r, "email")
        /\ UNCHANGED <<tables, snap, held>>

(* A second SELECT, by e-mail; a new account needs the directory. *)
FindByEmail(r) ==
  LET l == input[r].login IN
  /\ pc[r] = "email"
  /\ \/ \E u \in ByEmail(l.email) :
          \/ account[u].oid = None /\ Locked(r, u)
          \/ /\ account[u].oid # None /\ Free(r, UserRow(u), "update")
             /\ Fail(r, "conflict")
     \/ /\ ByEmail(l.email) = {} /\ l.title = None
        /\ End(r) /\ UNCHANGED tables
     \/ /\ ByEmail(l.email) = {} /\ l.title # None
        /\ \E u \in Users :
             /\ ~Exists(u) /\ \A q \in Requests : snap[q].on # u
             /\ Remember(r, [snap[r] EXCEPT !.on = u, !.row =
                  [oid |-> l.oid, email |-> l.email, active |-> TRUE,
                   left |-> FALSE, role |-> determine_initial_role(l)]])
        /\ Goto(r, "save")
        /\ UNCHANGED <<tables, held>>

(* user.save(): the unique indexes wait for uncommitted entries and refuse  *)
(* committed ones; _upsert_user tries once more after an IntegrityError.    *)
Taken(u, row) == (ByOid(row.oid) \cup ByEmail(row.email)) \ {u} # {}

SaveUser(r) ==
  LET row == snap[r].row  u == snap[r].on IN
  /\ pc[r] = "save"
  /\ Free(r, OidKey(row.oid), "update") /\ Free(r, EmailKey(row.email), "update")
  /\ \/ /\ ~Taken(u, row)
        /\ Take(r, {<<OidKey(row.oid), "update">>, <<EmailKey(row.email), "update">>})
        /\ Goto(r, "sync")
        /\ UNCHANGED <<tables, snap>>
     \/ /\ Taken(u, row) /\ snap[r].attempt = 1
        /\ Goto(r, "oid")
        /\ Remember(r, [Blank EXCEPT !.attempt = 2])
        /\ held' = [held EXCEPT ![r] = {}]
        /\ UNCHANGED tables
     \/ Taken(u, row) /\ snap[r].attempt = 2 /\ Fail(r, "error")

(* _sync_profile reads the profile without a lock and saves all of it. *)
ReadProfile(r) ==
  /\ pc[r] = "sync"
  /\ Remember(r, [snap[r] EXCEPT !.profile = profile[snap[r].on]])
  /\ Goto(r, "write")
  /\ UNCHANGED <<tables, held>>

CommitLogin(r) ==
  LET u == snap[r].on IN
  /\ pc[r] = "write"
  /\ Free(r, ProfileRow(u), "nokey")
  /\ account' = [account EXCEPT ![u] = snap[r].row]
  /\ profile' = [profile EXCEPT ![u] = snap[r].profile]
  /\ End(r)
  /\ UNCHANGED <<members, logs, resets, formed>>

--------------------------------------------------------------------------------
(* The row set of deactivate_account and update_user_role: the active       *)
(* admins and the account itself, locked in the order of their keys.  A row *)
(* that stopped matching while it was awaited is skipped; one that started  *)
(* to match is not noticed.                                                 *)

ListAdmins(r) ==
  /\ pc[r] = "admins"
  /\ Remember(r, [snap[r] EXCEPT !.todo = ActiveAdmins \cup {input[r].user}])
  /\ Goto(r, "lock")
  /\ UNCHANGED <<tables, held>>

(* Mutant: the administrators are counted without locking them. *)
LockModeNone(r) == "share"

LockMode(r) == IF input[r].op = "role" THEN "update" ELSE "nokey"

LockNext(r) ==
  LET u == Min(snap[r].todo)
      rest == snap[r].todo \ {u}
  IN  /\ pc[r] = "lock"
      /\ Free(r, UserRow(u), LockMode(r))
      /\ Take(r, {<<UserRow(u), LockMode(r)>>})
      /\ Remember(r, [snap[r] EXCEPT
           !.todo = rest,
           !.seen = IF IsAdmin(account[u]) THEN @ \cup {u} ELSE @,
           !.row = IF u = input[r].user THEN account[u] ELSE @])
      /\ Goto(r, IF rest # {} THEN "lock"
                 ELSE IF input[r].op = "role" THEN "role" ELSE "wipe")
      /\ UNCHANGED tables

LastAdmin(r) == snap[r].row.role = "ADMIN" /\ Cardinality(snap[r].seen) <= 1

(* update_user_role: the role and its UserRoleAudit row. *)
RoleAudit(r) == [user |-> input[r].user, previous_role |-> snap[r].row.role,
                 new_role |-> input[r].role]

ChangeRole(r) ==
  LET u == input[r].user  new == input[r].role IN
  /\ pc[r] = "role"
  /\ account' = IF (LastAdmin(r) /\ new # "ADMIN") \/ snap[r].row.role = new
                THEN account ELSE [account EXCEPT ![u].role = new]
  /\ End(r)
  /\ UNCHANGED <<profile, members, logs, resets, formed>>

(* deactivate_account, statement by statement: the rows it deletes are the  *)
(* ones it sees, the pending logs it rejects may have to be awaited, and    *)
(* the profile is read and saved last.                                      *)
Wipe(r) ==
  LET u == input[r].user IN
  /\ pc[r] = "wipe"
  /\ IF LastAdmin(r)
     THEN End(r)
     ELSE /\ Remember(r, [snap[r] EXCEPT !.gone = members[u]])
          /\ Goto(r, "logs")
          /\ UNCHANGED held
  /\ UNCHANGED tables

Pending(u) == {s \in Slots : logs[u][s].status = "PENDING"}

(* Mutant: pending logs are left for a later approval. *)
RejectPendingSkipped(r) ==
  /\ pc[r] = "logs"
  /\ Goto(r, "reset")
  /\ UNCHANGED <<tables, snap, held>>

RejectPending(r) ==
  LET u == input[r].user IN
  /\ pc[r] = "logs"
  /\ \A s \in Pending(u) : Free(r, LogRow(u, s), "nokey")
  /\ Take(r, {<<LogRow(u, s), "nokey">> : s \in Pending(u)})
  /\ Goto(r, "reset")
  /\ UNCHANGED <<tables, snap>>

CommitDeactivation(r) ==
  LET u == input[r].user
      rejects == {s \in Slots : <<LogRow(u, s), "nokey">> \in held[r]}
  IN  /\ pc[r] = "reset"
      /\ Free(r, ProfileRow(u), "nokey")
      /\ account' = [account EXCEPT ![u].active = FALSE, ![u].left = TRUE]
      /\ profile' = [profile EXCEPT ![u] = NewProfile]
      /\ members' = [members EXCEPT ![u] = @ \ snap[r].gone]
      /\ logs' = [logs EXCEPT ![u] = [s \in Slots |->
                    IF s \in rejects THEN [logs[u][s] EXCEPT !.status = "REJECTED"]
                    ELSE logs[u][s]]]
      /\ resets' = [resets EXCEPT ![u] = @ + 1]
      /\ End(r)
      /\ UNCHANGED formed

--------------------------------------------------------------------------------
(* UserAdmin: the form's POST loads the row, overwrites what the page shows *)
(* (the role may be the page's old one) and save_model saves all of it; an  *)
(* account it leaves active is no longer marked as left by its owner.       *)

FormLoad(r) ==
  LET u == input[r].user  row == account[u] IN
  /\ pc[r] = "load"
  /\ Remember(r, [snap[r] EXCEPT !.row =
       [row EXCEPT !.active = input[r].active,
                   !.role = input[r].role,
                   !.left = IF input[r].active THEN FALSE ELSE @]])
  /\ Goto(r, "store")
  /\ UNCHANGED <<tables, held>>

FormStore(r) ==
  LET u == input[r].user  row == snap[r].row IN
  /\ pc[r] = "store"
  /\ Free(r, UserRow(u), "nokey")
  /\ account' = [account EXCEPT ![u] = row]
  /\ formed' = [formed EXCEPT ![u] = IF row.active THEN "enabled"
                                     ELSE IF account[u].active THEN "disabled" ELSE @]
  /\ End(r)
  /\ UNCHANGED <<profile, members, logs, resets>>

--------------------------------------------------------------------------------
(* complete_onboarding / assign_institutional_clan *)

(* A nickname locks the user row first; without one nothing does. *)
ReadCareer(r) ==
  /\ pc[r] = "read"
  /\ input[r].named => Free(r, UserRow(input[r].user), "update")
  /\ Take(r, IF input[r].named THEN {<<UserRow(input[r].user), "update">>} ELSE {})
  /\ Remember(r, [snap[r] EXCEPT !.profile = profile[input[r].user]])
  /\ Goto(r, "assign")
  /\ UNCHANGED tables

(* The UPDATE of the profile holds its row until the membership is there;   *)
(* the membership's foreign key needs the user row not to be locked FOR     *)
(* UPDATE.                                                                  *)
AssignClan(r) ==
  /\ pc[r] = "assign"
  /\ Free(r, ProfileRow(input[r].user), "nokey")
  /\ Take(r, {<<ProfileRow(input[r].user), "nokey">>})
  /\ Goto(r, "member")
  /\ UNCHANGED <<tables, snap>>

(* Mutant: only the first choice of a career creates a membership. *)
CommitOnboardingFirstOnly(r) ==
  LET u == input[r].user
      c == input[r].career
      old == snap[r].profile.clan
  IN  /\ pc[r] = "member"
      /\ c \in members[u] \/ Free(r, UserRow(u), "share")
      /\ profile' = [profile EXCEPT ![u].clan = c]
      /\ members' = [members EXCEPT ![u] =
                       IF old = None THEN @ \cup {c} ELSE @ \ ({old} \ {c})]
      /\ End(r)
      /\ UNCHANGED <<account, logs, resets, formed>>

CommitOnboarding(r) ==
  LET u == input[r].user
      c == input[r].career
      old == snap[r].profile.clan
  IN  /\ pc[r] = "member"
      /\ c \in members[u] \/ Free(r, UserRow(u), "share")
      /\ profile' = [profile EXCEPT ![u].clan = c]
      /\ members' = [members EXCEPT ![u] = (@ \ ({old} \ {c})) \cup {c}]
      /\ End(r)
      /\ UNCHANGED <<account, logs, resets, formed>>

--------------------------------------------------------------------------------
(* What moves points: a photo action is submitted, an admin approves it or  *)
(* revokes it later, and the user spends them.  All amounts are one.        *)

(* Mutant: a request from before the last reset is accepted. *)
SubmitStale(r) ==
  LET u == input[r].user  s == input[r].slot IN
  /\ pc[r] = "submit"
  /\ Free(r, UserRow(u), "nokey")
  /\ logs' = IF account[u].active /\ logs[u][s] = NoLog
             THEN [logs EXCEPT ![u][s] = [status |-> "PENDING",
                                          period |-> snap[r].period]]
             ELSE logs
  /\ End(r)
  /\ UNCHANGED <<account, profile, members, resets, formed>>

(* The user row is locked, and ensure_account_writable refuses an inactive  *)
(* account and a request made before the last reset.                        *)
Submit(r) ==
  LET u == input[r].user  s == input[r].slot IN
  /\ pc[r] = "submit"
  /\ Free(r, UserRow(u), "nokey")
  /\ logs' = IF /\ account[u].active
                /\ resets[u] = snap[r].period
                /\ logs[u][s] = NoLog
             THEN [logs EXCEPT ![u][s] = [status |-> "PENDING",
                                          period |-> snap[r].period]]
             ELSE logs
  /\ End(r)
  /\ UNCHANGED <<account, profile, members, resets, formed>>

(* select_for_update on a log of the audited status, checked after a wait. *)
LockLog(r) ==
  LET u == input[r].user  s == input[r].slot
      wanted == IF input[r].op = "approve" THEN "PENDING" ELSE "APPROVED"
  IN  /\ pc[r] = "log"
      /\ Free(r, LogRow(u, s), "update")
      /\ IF logs[u][s].status = wanted
         THEN /\ Take(r, {<<LogRow(u, s), "update">>})
              /\ Goto(r, "points") /\ UNCHANGED snap
         ELSE End(r)
      /\ UNCHANGED tables

(* The F() update of the balance; a revocation checks the balance first. *)
LockProfile(r) ==
  LET u == input[r].user IN
  /\ pc[r] = "points"
  /\ Free(r, ProfileRow(u), "nokey")
  /\ IF input[r].op = "approve" \/ profile[u].points >= 1
     THEN /\ Take(r, {<<ProfileRow(u), "nokey">>})
          /\ Goto(r, "award") /\ UNCHANGED snap
     ELSE End(r)
  /\ UNCHANGED tables

(* The badge and the notification point to the user: their foreign keys     *)
(* wait for a sign-in that holds the user row.                              *)
CommitAudit(r) ==
  LET u == input[r].user  s == input[r].slot
      approved == input[r].op = "approve"
  IN  /\ pc[r] = "award"
      /\ Free(r, UserRow(u), "share")
      /\ profile' = [profile EXCEPT ![u].points = IF approved THEN @ + 1 ELSE @ - 1]
      /\ logs' = [logs EXCEPT ![u][s].status =
                    IF approved THEN "APPROVED" ELSE "REJECTED"]
      /\ End(r)
      /\ UNCHANGED <<account, members, resets, formed>>

(* redeem_exchangeable locks the profile, and only the profile. *)
Redeem(r) ==
  LET u == input[r].user IN
  /\ pc[r] = "redeem"
  /\ Free(r, ProfileRow(u), "update")
  /\ profile' = IF ~profile[u].item /\ profile[u].points >= 1
                THEN [profile EXCEPT ![u].points = @ - 1, ![u].item = TRUE]
                ELSE profile
  /\ End(r)
  /\ UNCHANGED <<account, members, logs, resets, formed>>

--------------------------------------------------------------------------------
Init ==
  /\ account = [u \in Users |-> IF u \in DOMAIN FirstRows THEN FirstRows[u]
                                ELSE NoAccount]
  /\ profile = [u \in Users |-> NewProfile]
  /\ members = [u \in Users |-> {}]
  /\ logs = [u \in Users |-> [s \in Slots |-> NoLog]]
  /\ resets = [u \in Users |-> 0]
  /\ formed = [u \in Users |-> "never"]
  /\ mix \in Workloads
  /\ pc = [r \in Requests |-> "idle"]
  /\ input = [r \in Requests |-> NoInput]
  /\ snap = [r \in Requests |-> Blank]
  /\ held = [r \in Requests |-> {}]

Step(r) ==
  \/ FindByOid(r) \/ FindByEmail(r) \/ SaveUser(r) \/ ReadProfile(r)
  \/ CommitLogin(r)
  \/ ListAdmins(r) \/ LockNext(r) \/ ChangeRole(r)
  \/ Wipe(r) \/ RejectPending(r) \/ CommitDeactivation(r)
  \/ FormLoad(r) \/ FormStore(r)
  \/ ReadCareer(r) \/ AssignClan(r) \/ CommitOnboarding(r)
  \/ Submit(r) \/ LockLog(r) \/ LockProfile(r) \/ CommitAudit(r)
  \/ Redeem(r) \/ Answer(r)

Next == \E r \in Requests : Begin(r) \/ Step(r) \/ Abort(r)

Spec == Init /\ [][Next]_vars

--------------------------------------------------------------------------------
(* Properties. *)

Labels == {"idle", "conflict", "error", "oid", "email", "save", "sync", "write",
           "admins", "lock", "role", "wipe", "logs", "reset", "load", "store",
           "read", "assign", "member", "submit", "log", "points", "award", "redeem"}

(* The rows and the locals of a request have their types. *)
TypeOK ==
  /\ account \in [Users -> AccountRows \cup {NoAccount}]
  /\ profile \in [Users -> Profiles]
  /\ members \in [Users -> SUBSET Careers]
  /\ logs \in [Users -> [Slots -> Logs]]
  /\ resets \in [Users -> Nat]
  /\ formed \in [Users -> {"never", "enabled", "disabled"}]
  /\ mix \in Workloads
  /\ pc \in [Requests -> Labels]
  /\ \A r \in Requests :
       input[r].op = "login" => input[r].login \in ExternalIdentity
  /\ \A r \in Requests : pc[r] = "idle" => held[r] = {}

(* update_user_role and deactivate_account count the administrators under    *)
(* row locks: however role changes, deactivations and sign-ins interleave,   *)
(* only the save of the admin form can take the last active administrator    *)
(* away.                                                                     *)
AdminsRemain ==
  [][ActiveAdmins # {} /\ ActiveAdmins' = {} => \E r \in Requests : FormStore(r)]_vars

(* Outside the admin form an account becomes or stops being an ADMIN only    *)
(* together with a UserRoleAudit that names the role it really had before:   *)
(* a sign-in that read the row earlier neither demotes nor restores one.     *)
AdminsAudited ==
  [][\A u \in Users :
       Exists(u) /\ (account[u].role = "ADMIN") # (account'[u].role = "ADMIN") =>
         \/ \E r \in Requests : FormStore(r) /\ input[r].user = u
         \/ \E r \in Requests : ChangeRole(r) /\
              RoleAudit(r) = [user |-> u, previous_role |-> account[u].role,
                              new_role |-> account'[u].role]]_vars

Away(u) == Exists(u) /\ ~account[u].active /\ account[u].left

(* The wipe of deactivate_account holds while the account is away: an audit  *)
(* or submission under way at the same time leaves neither points nor a      *)
(* pending log behind.                                                       *)
ResetHolds ==
  /\ TypeOK
  /\ \A u \in Users : Away(u) /\ formed[u] = "never" =>
       profile[u].points = 0 /\ Pending(u) = {}

(* No request made for the old account leaves a log to approve in the new    *)
(* one (ensure_account_writable's requested_at).                             *)
PendingFresh ==
  \A u \in Users : \A s \in Pending(u) : logs[u][s].period = resets[u]

Earned(u) == Cardinality({s \in Slots :
               logs[u][s] = [status |-> "APPROVED", period |-> resets[u]]})

Balanced(u) == profile[u].points + (IF profile[u].item THEN 1 ELSE 0) = Earned(u)

RevokesOldLog(r, u) ==
  /\ pc[r] = "award" /\ input[r].op = "revoke" /\ input[r].user = u
  /\ logs[u][input[r].slot].period # resets[u]

(* The balance is what was earned since the last reset and not spent.  A     *)
(* sign-in saves the profile row it read without a lock, but the user row it *)
(* holds makes an audit wait; the one step that breaks the balance is the    *)
(* revocation of a log approved before the account was reset.                *)
CreditKept ==
  [][\A u \in Users : Balanced(u) /\ ~Balanced(u)' =>
       \E r \in Requests : RevokesOldLog(r, u) /\ CommitAudit(r)]_vars

(* redeem_exchangeable "guards against race conditions using                 *)
(* select_for_update on UserProfile": a purchase is only undone by a reset.  *)
PurchasesKept ==
  [][\A u \in Users : profile[u].item /\ ~profile'[u].item => resets'[u] # resets[u]]_vars

Backed(u) == profile[u].clan # None => profile[u].clan \in members[u]

(* The career a profile shows is backed by a membership of its clan: racing  *)
(* onboardings, whose reads of the previous career may be old, and a         *)
(* deactivation do not undo half of each other.  Only the whole-row save of  *)
(* a sign-in can bring a career back whose membership is gone.               *)
InstitutionKept ==
  [][\A u \in Users : Backed(u) /\ ~Backed(u)' =>
       \E r \in Requests : CommitLogin(r) /\ snap[r].on = u]_vars

================================================================================
