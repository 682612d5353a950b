----------------------------- MODULE ClanMembership -----------------------------
(***************************************************************************)
(* Private clans of GreenITESO: founding, joining, join requests, invite   *)
(* codes, leadership, expulsion, dissolution and the selection of the clan *)
(* whose score a user feeds, against deactivation and login, while several *)
(* HTTP requests run at once (clans/services.py, clans/views.py).          *)
(*                                                                         *)
(* A handler is one PostgreSQL transaction under READ COMMITTED: the view  *)
(* fetches the clan without a lock, the service locks clan and user rows   *)
(* and checks again, and its writes become visible in one commit step.     *)
(*                                                                         *)
(* Rows are locked in three modes: "update" (select_for_update), "nokey"   *)
(* (select_for_update(no_key=True)) and "share", the KEY SHARE lock that   *)
(* the foreign keys of an INSERT take on the rows they point to: a         *)
(* membership on its clan, a notification on its recipient, an invitation  *)
(* on its creator.  Membership and invitation rows are not locked here:    *)
(* two handlers that change the same one already share the lock of its     *)
(* clan or of its user, or notice at the commit that the row is gone.      *)
(***************************************************************************)
EXTENDS Integers, Sequences, FiniteSets

CONSTANTS
  Users, Clans, Codes,  \* accounts, private clans and invitation rows
  Requests,             \* request slots: transactions that may overlap
  Ops,                  \* the operations clients use
  MaxPrivate,           \* MAX_PRIVATE_CLAN_MEMBERSHIPS_PER_USER
  MaxCodes,             \* MAX_ACTIVE_INVITATIONS_PER_CLAN
  TTL, Retention,       \* INVITATION_TTL, INVITATION_RETENTION
  None,                 \* SQL NULL
  MaxNow                \* bound on the clock

CodeOps == {"revoke", "redeem"}
AccountOps == {"deactivate", "login"}
AllOps == {"create", "join", "leave", "select", "accept", "reject", "transfer",
           "kick", "dissolve", "edit", "invite"} \cup CodeOps \cup AccountOps

ASSUME ClanAssumption ==
  /\ Ops \subseteq AllOps
  /\ MaxPrivate \in Nat \ {0}
  /\ MaxCodes \in Nat \ {0}
  /\ TTL \in Nat \ {0} /\ Retention \in Nat
  /\ None \notin Users \cup Clans
  /\ IsFiniteSet(Clans) /\ IsFiniteSet(Codes)
  /\ MaxNow \in Nat

VARIABLES
  phase,     \* Clan: not created yet, alive, or dissolved (deleted_at set)
  privacy,   \* Clan.privacy
  standing,  \* ClanMembership.status by user and clan, or no row
  leaders,   \* users whose row in the clan has the role LEADER
  selected,  \* clans whose row of the user is flagged is_active_private
  codes,     \* ClanInvitation rows
  active,    \* User.is_active
  now,       \* the clock that ages invitations
  pc, input, snap, held  \* the running requests

tables == <<phase, privacy, standing, leaders, selected, codes, active>>
vars == <<tables, now, pc, input, snap, held>>

--------------------------------------------------------------------------------
(* Rows, inputs and snapshots. *)

Privacies == {"PUBLIC", "PRIVATE_INVITE"}
Phases == {"absent", "alive", "dissolved"}
Standings == {"NONE", "PENDING", "ACCEPTED", "REJECTED"}

Invitations == [clan : Clans, expires : Nat, redeemed : Users \cup {None},
                revoked : BOOLEAN]
NoCode == [clan |-> None]

UserRow(u) == <<"user", u>>
ClanRow(c) == <<"clan", c>>
Rows == {UserRow(u) : u \in Users} \cup {ClanRow(c) : c \in Clans}
Modes == {"update", "nokey", "share"}

(* Which modes two transactions cannot hold on one row. *)
Conflict(m, n) == \/ m = "update" \/ n = "update"
                  \/ m = "nokey" /\ n = "nokey"

(* What the endpoints take: a clan of the caller's choice, for some of them *)
(* another account, a privacy or a code.                                    *)
CreateInputs == [op : {"create"}, user : Users, privacy : Privacies]
EntryInputs == [op : {"join", "leave"}, user : Users, clan : Clans]
SelectInputs == [op : {"select"}, user : Users, clan : Clans]
DecisionInputs == [op : {"accept", "reject"}, user : Users, clan : Clans, other : Users]
TransferInputs == [op : {"transfer"}, user : Users, clan : Clans, other : Users]
KickInputs == [op : {"kick"}, user : Users, clan : Clans, other : Users]
DissolveInputs == [op : {"dissolve"}, user : Users, clan : Clans]
EditInputs == [op : {"edit"}, user : Users, clan : Clans, privacy : Privacies]
InviteInputs == [op : {"invite"}, user : Users, clan : Clans]
CodeInputs == [op : CodeOps, user : Users, clan : Clans, code : Codes]
AccountInputs == [op : AccountOps, user : Users]

Inputs ==
  {i \in CreateInputs \cup EntryInputs \cup SelectInputs \cup DecisionInputs
           \cup TransferInputs \cup KickInputs \cup DissolveInputs \cup EditInputs
           \cup InviteInputs \cup CodeInputs \cup AccountInputs : i.op \in Ops}
NoInput == [op |-> "none"]

(* What a handler remembers: the privacy of the clan instance the view     *)
(* fetched, the time it read, the users whose selection it clears and the  *)
(* users it still has to notify.                                           *)
Blank == [privacy |-> "PUBLIC", at |-> 0, clears |-> {}, tell |-> {}]

--------------------------------------------------------------------------------
(* What the handlers read. *)

Member(u, c) == standing[u][c] = "ACCEPTED"

(* _is_clan_leader *)
Leads(u, c) == u \in leaders[c] /\ Member(u, c)

(* _is_already_leading_a_clan: dissolved clans do not count. *)
LeadsSome(u) == \E c \in Clans : phase[c] = "alive" /\ Leads(u, c)

(* _count_private_clan_memberships *)
ClansOf(u) == {c \in Clans : phase[c] = "alive" /\ Member(u, c)}

(* _ensure_private_clan_capacity *)
HasCapacity(u) == Cardinality(ClansOf(u)) < MaxPrivate

(* A code that is neither used nor revoked and expires after time t. *)
Usable(i, t) == /\ codes[i] # NoCode
                /\ codes[i].redeemed = None
                /\ ~codes[i].revoked
                /\ codes[i].expires > t

(* list_active_clan_invitations *)
ActiveCodes(c, t) == {i \in Codes : Usable(i, t) /\ codes[i].clan = c}

(* _leader_of, _members_of: only active accounts are told. *)
LeaderOf(c) == {v \in Users : Leads(v, c) /\ active[v]}
MembersOf(c) == {v \in Users : Member(v, c) /\ active[v]}

--------------------------------------------------------------------------------
(* Transactions: locks, early returns and rollback. *)

Free(r, row, mode) ==
  \A q \in Requests \ {r}, m \in Modes : Conflict(m, mode) => <<row, m>> \notin held[q]

Take(r, row, mode) == /\ Free(r, row, mode)
                      /\ held' = [held EXCEPT ![r] = @ \cup {<<row, mode>>}]

Goto(r, label) == pc' = [pc EXCEPT ![r] = label]

Remember(r, values) == snap' = [snap EXCEPT ![r] = values]

(* Mutant: the transaction is left open and keeps its locks. *)
EndKeepsLocks(r) == /\ pc' = [pc EXCEPT ![r] = "idle"]
                    /\ input' = [input EXCEPT ![r] = NoInput]
                    /\ snap' = [snap EXCEPT ![r] = Blank]
                    /\ UNCHANGED held

(* The transaction ends, its locks are released and the slot is free. *)
End(r) == /\ pc' = [pc EXCEPT ![r] = "idle"]
          /\ input' = [input EXCEPT ![r] = NoInput]
          /\ snap' = [snap EXCEPT ![r] = Blank]
          /\ held' = [held EXCEPT ![r] = {}]

(* An early return or a rollback: nothing was written. *)
Refuse(r) == End(r) /\ UNCHANGED <<tables, now>>

(* An exception, a lost connection or PostgreSQL's choice of a victim. *)
Abort(r) == pc[r] # "idle" /\ Refuse(r)

--------------------------------------------------------------------------------
(* The order of a handler's statements. *)

(* Mutant: a code is redeemed with the user row locked first. *)
LockOrderUserFirst(in) ==
  CASE in.op \in {"accept", "transfer"} -> <<"clan", "user">>
    [] in.op = "redeem" -> <<"user", "clan">>
    [] in.op \in {"create", "join", "select", "deactivate", "login"} -> <<"user">>
    [] OTHER -> <<"clan">>

(* The rows the operation locks before it writes. *)
LockOrder(in) ==
  CASE in.op \in {"accept", "transfer", "redeem"} -> <<"clan", "user">>
    [] in.op \in {"create", "join", "select", "deactivate", "login"} -> <<"user">>
    [] OTHER -> <<"clan">>

(* Whom the operation notifies before it commits.  The applicant of an     *)
(* accepted request is notified too, on a row that is locked already.      *)
Audience(in) ==
  CASE in.op \in {"reject", "kick"} -> {in.other}
    [] in.op \in {"join", "leave", "redeem"} -> LeaderOf(in.clan) \ {in.user}
    [] in.op = "dissolve" -> MembersOf(in.clan) \ {in.user}
    [] in.op = "transfer" -> MembersOf(in.clan)
    [] OTHER -> {}

Notifying(in) == IF Audience(in) = {} THEN "commit" ELSE "notify"

(* The statement after the locks.  A new membership row of join_clan waits *)
(* for its clan and an invitation for its creator; the other inserts point *)
(* to rows the transaction has locked.                                     *)
Writing(in) ==
  IF in.op = "invite" \/ (in.op = "join" /\ standing[in.user][in.clan] = "NONE")
    THEN "insert" ELSE Notifying(in)

(* The statement after the lock taken at a label. *)
After(in, label) ==
  IF Len(LockOrder(in)) = 2 /\ LockOrder(in)[1] = label
    THEN LockOrder(in)[2] ELSE Writing(in)

(* The requests under way that will add a row of a bounded table. *)
Running(op) == {r \in Requests : input[r].op = op}

(* A global administrator gets no bypass. *)
IsClanLeader(u, c) == Leads(u, c)

(* What the view requires before any lock: get_queryset, IsClanLeader and  *)
(* the unlocked lookup of a code's clan.                                   *)
Visible(in) ==
  \/ /\ in.op = "redeem"
     /\ codes[in.code] # NoCode
     /\ codes[in.code].clan = in.clan
  \/ /\ phase[in.clan] = "alive"
     /\ \/ in.op = "join"
        \/ in.op \in {"kick", "invite", "revoke"} /\ IsClanLeader(in.user, in.clan)
        \/ /\ in.op \in {"accept", "reject", "transfer", "leave", "select",
                         "dissolve", "edit"}
           /\ privacy[in.clan] = "PUBLIC" \/ Member(in.user, in.clan)

(* join hands the clan instance of the view to the service.               *)
Fetched(in) == IF in.op = "join" THEN privacy[in.clan] ELSE Blank.privacy

(* A request arrives and its view runs, without locks.  Only an active     *)
(* account is authenticated; a request the view refuses changes nothing.   *)
(* The guards on create and invite are the bounds on clans and codes.      *)
Start(r) ==
  /\ pc[r] = "idle"
  /\ \E in \in Inputs :
       /\ in.op # "login" => active[in.user]
       /\ in.op = "create" =>
            Cardinality({c \in Clans : phase[c] = "absent"})
              > Cardinality(Running("create"))
       /\ in.op = "invite" =>
            Cardinality({i \in Codes : codes[i] = NoCode})
              > Cardinality(Running("invite"))
       /\ in.op \notin AccountOps \cup {"create"} => Visible(in)
       /\ input' = [input EXCEPT ![r] = in]
       /\ Remember(r, [Blank EXCEPT !.privacy = Fetched(in)])
       /\ Goto(r, LockOrder(in)[1])
  /\ UNCHANGED <<tables, now, held>>

--------------------------------------------------------------------------------
(* Operations that lock the clan row first. *)

LeaderOps == {"accept", "reject", "transfer", "dissolve", "edit", "invite",
              "revoke", "kick"}

(* What the service checks of the request once it holds the clan row. *)
RowsAllow(in) ==
  LET c == in.clan
  IN  /\ in.op \in LeaderOps => Leads(in.user, c)
      /\ in.op = "reject" => standing[in.other][c] = "PENDING"
      /\ in.op = "leave" => Member(in.user, c) /\ in.user \notin leaders[c]
      /\ in.op = "transfer" => in.other # in.user /\ Member(in.other, c)
      /\ in.op = "kick" => /\ in.other # in.user
                           /\ Member(in.other, c)
                           /\ in.other \notin leaders[c]
      /\ in.op = "edit" => in.privacy # privacy[c]
      /\ in.op = "invite" => /\ privacy[c] = "PRIVATE_INVITE"
                             /\ Cardinality(ActiveCodes(c, now)) < MaxCodes
      /\ in.op = "revoke" => codes[in.code] # NoCode /\ codes[in.code].clan = c
      /\ in.op = "redeem" => Usable(in.code, now) /\ codes[in.code].clan = c

(* Mutant: the checks do not ask whether the clan was dissolved. *)
ClanAllowsDissolved(in) == RowsAllow(in)

(* Nothing is done in a clan that was dissolved while waiting for its row. *)
ClanAllows(in) == phase[in.clan] = "alive" /\ RowsAllow(in)

(* The members whose selection dissolve_clan will clear. *)
Clears(in) ==
  {v \in Users : in.op = "dissolve" /\ in.clan \in selected[v]}

(* Mutant: the clan row is read without locking it. *)
LockClanPlainRead(r) ==
  LET in == input[r]
  IN  /\ pc[r] = "clan"
      /\ \/ ~ClanAllows(in) /\ Refuse(r)
         \/ /\ ClanAllows(in)
            /\ Remember(r, [snap[r] EXCEPT !.at = now, !.tell = Audience(in),
                                            !.clears = Clears(in)])
            /\ Goto(r, After(in, "clan"))
            /\ UNCHANGED <<tables, now, input, held>>

(* SELECT ... FOR UPDATE on the clan, then the checks on the locked row. *)
LockClan(r) ==
  LET in == input[r]
  IN  /\ pc[r] = "clan"
      /\ Free(r, ClanRow(in.clan), "update")
      /\ \/ ~ClanAllows(in) /\ Refuse(r)
         \/ /\ ClanAllows(in)
            /\ Take(r, ClanRow(in.clan), "update")
            /\ Remember(r, [snap[r] EXCEPT !.at = now, !.tell = Audience(in),
                                            !.clears = Clears(in)])
            /\ Goto(r, After(in, "clan"))
            /\ UNCHANGED <<tables, now, input>>

--------------------------------------------------------------------------------
(* Operations that lock a user row. *)

(* The account an operation locks: the applicant, the successor or the     *)
(* caller.                                                                 *)
Subject(in) == IF in.op \in {"accept", "transfer"} THEN in.other ELSE in.user

(* Mutant: accepting a request does not check the applicant's cap. *)
UserAllowsNoRecheck(in, seen) ==
  /\ in.op = "create" => ~LeadsSome(in.user) /\ HasCapacity(in.user)
  /\ in.op = "join" =>
       /\ standing[in.user][in.clan] \in {"NONE", "REJECTED"}
       /\ seen = "PUBLIC" => HasCapacity(in.user)
  /\ in.op = "accept" => standing[in.other][in.clan] = "PENDING"
  /\ in.op = "transfer" => ~LeadsSome(in.other)
  /\ in.op = "select" => Member(in.user, in.clan)
  /\ in.op = "redeem" => ~Member(in.user, in.clan) /\ HasCapacity(in.user)
  /\ in.op = "deactivate" => ~LeadsSome(in.user)

(* What the service checks once it holds the user row. *)
UserAllows(in, seen) ==
  /\ in.op = "create" => ~LeadsSome(in.user) /\ HasCapacity(in.user)
  /\ in.op = "join" =>
       /\ standing[in.user][in.clan] \in {"NONE", "REJECTED"}
       /\ seen = "PUBLIC" => HasCapacity(in.user)
  /\ in.op = "accept" => /\ standing[in.other][in.clan] = "PENDING"
                         /\ HasCapacity(in.other)
  /\ in.op = "transfer" => ~LeadsSome(in.other)
  /\ in.op = "select" => Member(in.user, in.clan)
  /\ in.op = "redeem" => ~Member(in.user, in.clan) /\ HasCapacity(in.user)
  /\ in.op = "deactivate" => ~LeadsSome(in.user)

UserMode(in) == IF in.op = "deactivate" THEN "nokey" ELSE "update"

(* Mutant: the user row is read without locking it. *)
LockUserPlainRead(r) ==
  LET in == input[r]
  IN  /\ pc[r] = "user"
      /\ \/ ~UserAllows(in, snap[r].privacy) /\ Refuse(r)
         \/ /\ UserAllows(in, snap[r].privacy)
            /\ Remember(r, [snap[r] EXCEPT !.tell = Audience(in)])
            /\ Goto(r, After(in, "user"))
            /\ UNCHANGED <<tables, now, input, held>>

LockUser(r) ==
  LET in == input[r]
  IN  /\ pc[r] = "user"
      /\ Free(r, UserRow(Subject(in)), UserMode(in))
      /\ \/ ~UserAllows(in, snap[r].privacy) /\ Refuse(r)
         \/ /\ UserAllows(in, snap[r].privacy)
            /\ Take(r, UserRow(Subject(in)), UserMode(in))
            /\ Remember(r, [snap[r] EXCEPT !.tell = Audience(in)])
            /\ Goto(r, After(in, "user"))
            /\ UNCHANGED <<tables, now, input>>

--------------------------------------------------------------------------------
(* Inserts wait for the rows their foreign keys point to. *)

InsertMembership(r) ==
  /\ pc[r] = "insert" /\ input[r].op = "join"
  /\ Take(r, ClanRow(input[r].clan), "share")
  /\ Remember(r, [snap[r] EXCEPT !.tell = Audience(input[r])])
  /\ Goto(r, Notifying(input[r]))
  /\ UNCHANGED <<tables, now, input>>

InsertInvitation(r) ==
  /\ pc[r] = "insert" /\ input[r].op = "invite"
  /\ Take(r, UserRow(input[r].user), "share")
  /\ Goto(r, "commit")
  /\ UNCHANGED <<tables, now, input, snap>>

(* notify, notify_many: one notification row per recipient. *)
Notify(r) ==
  /\ pc[r] = "notify"
  /\ \E v \in snap[r].tell :
       /\ Take(r, UserRow(v), "share")
       /\ Remember(r, [snap[r] EXCEPT !.tell = @ \ {v}])
       /\ Goto(r, IF snap[r].tell = {v} THEN "commit" ELSE "notify")
  /\ UNCHANGED <<tables, now, input>>

--------------------------------------------------------------------------------
(* Commits. *)

Committing(r, op) == pc[r] = "commit" /\ input[r].op = op

SetStanding(u, c, s) == standing' = [standing EXCEPT ![u][c] = s]

(* DELETE of the membership row of u in c. *)
DeleteRow(u, c) ==
  /\ SetStanding(u, c, "NONE")
  /\ leaders' = [leaders EXCEPT ![c] = @ \ {u}]
  /\ selected' = [selected EXCEPT ![u] = @ \ {c}]

CommitCreate(r) ==
  /\ Committing(r, "create")
  /\ \E c \in Clans :
       /\ phase[c] = "absent"
       /\ phase' = [phase EXCEPT ![c] = "alive"]
       /\ privacy' = [privacy EXCEPT ![c] = input[r].privacy]
       /\ SetStanding(input[r].user, c, "ACCEPTED")
       /\ leaders' = [leaders EXCEPT ![c] = {input[r].user}]
  /\ End(r)
  /\ UNCHANGED <<selected, codes, active, now>>

(* Mutant: an invite-only clan takes everyone who asks. *)
CommitJoinAtOnce(r) ==
  /\ Committing(r, "join")
  /\ SetStanding(input[r].user, input[r].clan, "ACCEPTED")
  /\ End(r)
  /\ UNCHANGED <<phase, privacy, leaders, selected, codes, active, now>>

(* The privacy the view saw decides between membership and a request. *)
CommitJoin(r) ==
  /\ Committing(r, "join")
  /\ SetStanding(input[r].user, input[r].clan,
                 IF snap[r].privacy = "PUBLIC" THEN "ACCEPTED" ELSE "PENDING")
  /\ End(r)
  /\ UNCHANGED <<phase, privacy, leaders, selected, codes, active, now>>

CommitAccept(r) ==
  /\ Committing(r, "accept")
  /\ SetStanding(input[r].other, input[r].clan, "ACCEPTED")
  /\ End(r)
  /\ UNCHANGED <<phase, privacy, leaders, selected, codes, active, now>>

(* The applicant's row may be gone by now: the UPDATE that finds no row is *)
(* an error and rolls back.                                                *)
CommitReject(r) ==
  LET in == input[r]
  IN  /\ Committing(r, "reject")
      /\ \/ standing[in.other][in.clan] = "NONE" /\ Refuse(r)
         \/ /\ standing[in.other][in.clan] # "NONE"
            /\ SetStanding(in.other, in.clan, "REJECTED")
            /\ End(r)
            /\ UNCHANGED <<phase, privacy, leaders, selected, codes, active, now>>

CommitLeave(r) ==
  /\ Committing(r, "leave")
  /\ DeleteRow(input[r].user, input[r].clan)
  /\ End(r)
  /\ UNCHANGED <<phase, privacy, codes, active, now>>

CommitKick(r) ==
  /\ Committing(r, "kick")
  /\ DeleteRow(input[r].other, input[r].clan)
  /\ End(r)
  /\ UNCHANGED <<phase, privacy, codes, active, now>>

(* The actor is demoted, then assign_leader promotes the successor unless  *)
(* the clan has another leader or the successor's row is gone.             *)
Promotable(in) ==
  /\ standing[in.other][in.clan] # "NONE"
  /\ \A v \in leaders[in.clan] \ {in.user, in.other} : ~Member(v, in.clan)

CommitTransfer(r) ==
  LET in == input[r]
  IN  /\ Committing(r, "transfer")
      /\ \/ ~Promotable(in) /\ Refuse(r)
         \/ /\ Promotable(in)
            /\ leaders' = [leaders EXCEPT ![in.clan] =
                             (@ \ {in.user}) \cup {in.other}]
            /\ End(r)
            /\ UNCHANGED <<phase, privacy, standing, selected, codes, active,
                           now>>

(* The previous selection is cleared and the row of the clan is flagged,   *)
(* if it still exists.                                                     *)
CommitSelect(r) ==
  LET in == input[r]
  IN  /\ Committing(r, "select")
      /\ \/ ~Member(in.user, in.clan) /\ Refuse(r)
         \/ /\ Member(in.user, in.clan)
            /\ selected' = [selected EXCEPT ![in.user] = {in.clan}]
            /\ End(r)
            /\ UNCHANGED <<phase, privacy, standing, leaders, codes, active, now>>

CommitDissolve(r) ==
  LET c == input[r].clan
  IN  /\ Committing(r, "dissolve")
      /\ phase' = [phase EXCEPT ![c] = "dissolved"]
      /\ selected' = [v \in Users |-> IF v \in snap[r].clears
                                        THEN selected[v] \ {c} ELSE selected[v]]
      /\ End(r)
      /\ UNCHANGED <<privacy, standing, leaders, codes, active, now>>

(* update_clan; name and description are left out. *)
CommitEdit(r) ==
  /\ Committing(r, "edit")
  /\ privacy' = [privacy EXCEPT ![input[r].clan] = input[r].privacy]
  /\ End(r)
  /\ UNCHANGED <<phase, standing, leaders, selected, codes, active, now>>

(* Codes of the clan that expired longer ago than the retention. *)
Purgeable(c, t) == {i \in Codes : /\ codes[i] # NoCode
                                  /\ codes[i].clan = c
                                  /\ codes[i].expires < t - Retention}

CommitInvite(r) ==
  LET c == input[r].clan
      kept == [i \in Codes |-> IF i \in Purgeable(c, snap[r].at)
                                 THEN NoCode ELSE codes[i]]
  IN  /\ Committing(r, "invite")
      /\ \E i \in Codes :
           /\ codes[i] = NoCode
           /\ codes' = [kept EXCEPT ![i] =
                [clan |-> c, expires |-> snap[r].at + TTL, redeemed |-> None,
                 revoked |-> FALSE]]
      /\ End(r)
      /\ UNCHANGED <<phase, privacy, standing, leaders, selected, active, now>>

(* Revoking a used or revoked code changes nothing. *)
CommitRevoke(r) ==
  LET i == input[r].code
  IN  /\ Committing(r, "revoke")
      /\ codes' = [codes EXCEPT ![i].revoked = @ \/ codes[i].redeemed = None]
      /\ End(r)
      /\ UNCHANGED <<phase, privacy, standing, leaders, selected, active, now>>

CommitRedeem(r) ==
  LET in == input[r]
  IN  /\ Committing(r, "redeem")
      /\ SetStanding(in.user, in.clan, "ACCEPTED")
      /\ codes' = [codes EXCEPT ![in.code].redeemed = in.user]
      /\ End(r)
      /\ UNCHANGED <<phase, privacy, leaders, selected, active, now>>

(* Mutant: only the memberships in clans that still exist are deleted. *)
CommitDeactivateAliveOnly(r) ==
  LET u == input[r].user
  IN  /\ Committing(r, "deactivate")
      /\ standing' = [standing EXCEPT ![u] = [c \in Clans |->
                        IF phase[c] = "alive" THEN "NONE" ELSE @[c]]]
      /\ leaders' = [c \in Clans |-> leaders[c] \ {u}]
      /\ selected' = [selected EXCEPT ![u] = {}]
      /\ active' = [active EXCEPT ![u] = FALSE]
      /\ End(r)
      /\ UNCHANGED <<phase, privacy, codes, now>>

(* deactivate_account, as far as clans see it: every membership row of the *)
(* account is deleted, those in dissolved clans included.                  *)
CommitDeactivate(r) ==
  LET u == input[r].user
  IN  /\ Committing(r, "deactivate")
      /\ standing' = [standing EXCEPT ![u] = [c \in Clans |-> "NONE"]]
      /\ leaders' = [c \in Clans |-> leaders[c] \ {u}]
      /\ selected' = [selected EXCEPT ![u] = {}]
      /\ active' = [active EXCEPT ![u] = FALSE]
      /\ End(r)
      /\ UNCHANGED <<phase, privacy, codes, now>>

(* Signing in again reactivates the account. *)
CommitLogin(r) ==
  /\ Committing(r, "login")
  /\ active' = [active EXCEPT ![input[r].user] = TRUE]
  /\ End(r)
  /\ UNCHANGED <<phase, privacy, standing, leaders, selected, codes, now>>

Tick == /\ now < MaxNow
        /\ now' = now + 1
        /\ UNCHANGED <<tables, pc, input, snap, held>>

--------------------------------------------------------------------------------

Init ==
  /\ phase = [c \in Clans |-> "absent"]
  /\ privacy = [c \in Clans |-> "PUBLIC"]
  /\ standing = [u \in Users |-> [c \in Clans |-> "NONE"]]
  /\ leaders = [c \in Clans |-> {}]
  /\ selected = [u \in Users |-> {}]
  /\ codes = [i \in Codes |-> NoCode]
  /\ active = [u \in Users |-> TRUE]
  /\ now = 0
  /\ pc = [r \in Requests |-> "idle"]
  /\ input = [r \in Requests |-> NoInput]
  /\ snap = [r \in Requests |-> Blank]
  /\ held = [r \in Requests |-> {}]

Commit(r) ==
  \/ CommitCreate(r) \/ CommitJoin(r) \/ CommitAccept(r) \/ CommitReject(r)
  \/ CommitLeave(r) \/ CommitKick(r) \/ CommitTransfer(r) \/ CommitSelect(r)
  \/ CommitDissolve(r) \/ CommitEdit(r) \/ CommitInvite(r) \/ CommitRevoke(r)
  \/ CommitRedeem(r) \/ CommitDeactivate(r) \/ CommitLogin(r)

(* The statements of a running handler. *)
Step(r) ==
  \/ LockClan(r) \/ LockUser(r)
  \/ InsertMembership(r) \/ InsertInvitation(r) \/ Notify(r)
  \/ Commit(r)

Next == (\E r \in Requests : Start(r) \/ Step(r) \/ Abort(r)) \/ Tick

Spec == Init /\ [][Next]_vars

(* The lock a request waits for, on any of these rows. *)
Wanted(r) ==
  CASE pc[r] = "clan" -> {<<ClanRow(input[r].clan), "update">>}
    [] pc[r] = "user" -> {<<UserRow(Subject(input[r])), UserMode(input[r])>>}
    [] pc[r] = "insert" -> {<<IF input[r].op = "join"
                                THEN ClanRow(input[r].clan)
                                ELSE UserRow(input[r].user), "share">>}
    [] pc[r] = "notify" -> {<<UserRow(v), "share">> : v \in snap[r].tell}
    [] OTHER -> {}

WaitsFor(r, q) ==
  /\ Wanted(r) # {}
  /\ \A w \in Wanted(r) : ~Free(r, w[1], w[2])
  /\ \E w \in Wanted(r), m \in Modes :
       Conflict(m, w[2]) /\ <<w[1], m>> \in held[q]

(* r is on a cycle of waiting transactions. *)
Deadlocked(r) ==
  \E S \in SUBSET Requests :
    /\ r \in S
    /\ \A p \in S : /\ \E q \in S \ {p} : WaitsFor(p, q)
                    /\ \E q \in S \ {p} : WaitsFor(q, p)

(* PostgreSQL finds the cycle and cancels one of its transactions. *)
Cancel(r) == Deadlocked(r) /\ Abort(r)

(* A waiting statement gets its turn, a handler that may run is scheduled  *)
(* and deadlock_timeout breaks every cycle.                                *)
FairSpec == Spec /\ \A r \in Requests : SF_vars(Step(r)) /\ WF_vars(Cancel(r))

--------------------------------------------------------------------------------
(* Properties. *)

Labels == {"idle", "clan", "user", "insert", "notify", "commit"}

(* Every variable has its type, and only an existing membership row has a  *)
(* role or the is_active_private flag: the tables behind clans/services.py *)
(* and the locals of a running request.                                    *)
TypeOK ==
  /\ phase \in [Clans -> Phases]
  /\ privacy \in [Clans -> Privacies]
  /\ standing \in [Users -> [Clans -> Standings]]
  /\ leaders \in [Clans -> SUBSET Users]
  /\ selected \in [Users -> SUBSET Clans]
  /\ codes \in [Codes -> Invitations \cup {NoCode}]
  /\ active \in [Users -> BOOLEAN]
  /\ now \in Nat
  /\ pc \in [Requests -> Labels]
  /\ input \in [Requests -> Inputs \cup {NoInput}]
  /\ snap \in [Requests -> [privacy : Privacies, at : Nat,
                            clears : SUBSET Users, tell : SUBSET Users]]
  /\ held \in [Requests -> SUBSET (Rows \X Modes)]
  /\ \A u \in Users, c \in Clans :
       u \in leaders[c] \/ c \in selected[u] => standing[u][c] # "NONE"

(* Every clan that is not dissolved has exactly one accepted leader,       *)
(* although transfers, departures, expulsions, deactivations and new       *)
(* clans overlap: leave_clan promises that a clan is never left without a  *)
(* leader and assign_leader that it never has two; every row keeps its     *)
(* type.                                                                   *)
EveryClanLed ==
  /\ TypeOK
  /\ \A c \in Clans :
       phase[c] = "alive" => \E u \in Users : {v \in Users : Leads(v, c)} = {u}

(* BR-04: nobody leads two clans at once, founding a clan while being made *)
(* the successor in another one included (create_private_clan,             *)
(* transfer_leadership).                                                   *)
OneLeadership ==
  \A u \in Users : \A c, d \in Clans :
    /\ phase[c] = "alive" /\ Leads(u, c)
    /\ phase[d] = "alive" /\ Leads(u, d)
    => c = d

(* BR-04: nobody belongs to more than MaxPrivate clans, although founding, *)
(* joining, an accepted request and a redeemed code count separately.      *)
CapKept == \A u \in Users : Cardinality(ClansOf(u)) <= MaxPrivate

(* The commit of request r in this step changes a table. *)
Writes(r) == pc[r] = "commit" /\ pc'[r] = "idle" /\ tables' # tables

(* What a leader's request writes is written while that user still leads   *)
(* the clan: a leader demoted by a concurrent transfer cannot accept,      *)
(* reject, expel, invite, edit or dissolve any more.                       *)
ByCurrentLeader ==
  [][\A r \in Requests :
       Writes(r) /\ input[r].op \in LeaderOps
         => Leads(input[r].user, input[r].clan)]_vars

(* A code admits one user: once redeemed or revoked, its row never changes *)
(* until it is purged, however two redemptions and a revocation overlap    *)
(* (redeem_clan_invitation, revoke_clan_invitation).                       *)
CodesSingleUse ==
  [][\A i \in Codes :
       codes[i] # NoCode /\ (codes[i].redeemed # None \/ codes[i].revoked)
         => codes'[i] \in {codes[i], NoCode}]_vars

(* A clan never has more usable codes than MAX_ACTIVE_INVITATIONS_PER_CLAN *)
(* although the check and the insert are separate statements.              *)
CodeLimitKept ==
  \A c \in Clans : Cardinality(ActiveCodes(c, now)) <= MaxCodes

(* The history of a dissolved clan stays: nobody is expelled from it,      *)
(* leaves it or changes its leader, also when that request was under way   *)
(* at the dissolution.  Only a deactivation deletes the account's own rows *)
(* (dissolve_clan).                                                        *)
HistoryKept ==
  [][\A u \in Users, c \in Clans :
       phase[c] = "dissolved" /\ Member(u, c) =>
         /\ phase'[c] = "dissolved"
         /\ \/ \E r \in Requests : Committing(r, "deactivate") /\ input[r].user = u
            \/ /\ standing'[u][c] = "ACCEPTED"
               /\ u \in leaders'[c] <=> u \in leaders[c]]_vars

(* An accepted request and a redeemed code never wait for each other, as   *)
(* redeem_clan_invitation says: both lock the clan before the user.        *)
DecisionsNeverCross ==
  \A r, q \in Requests :
    input[r].op = "accept" /\ input[q].op = "redeem"
      => ~(WaitsFor(r, q) /\ WaitsFor(q, r))

(* Every request is answered, deadlocks included. *)
RequestsFinish == \A r \in Requests : pc[r] # "idle" ~> pc[r] = "idle"

(* An invite-only clan gets a member only by its leader's decision, an     *)
(* accepted request or a redeemed code, or through a join whose view still *)
(* saw the clan open.                                                      *)
InviteOnlyGate ==
  [][\A u \in Users, c \in Clans :
       (/\ phase[c] = "alive" /\ privacy[c] = "PRIVATE_INVITE"
        /\ ~Member(u, c) /\ standing'[u][c] = "ACCEPTED")
         => \/ standing[u][c] = "PENDING"
            \/ \E i \in Codes : codes'[i] # codes[i] /\ codes'[i].redeemed = u
            \/ \E r \in Requests : /\ Committing(r, "join") /\ input[r].user = u
                                  /\ snap[r].privacy = "PUBLIC"]_vars

(* A deactivated account belongs to no clan: nothing leaves it a           *)
(* membership but a join, a founding or a redeemed code of its own that    *)
(* waited for its row.                                                     *)
DeactivatedHasNoClans ==
  [][\A u \in Users, c \in Clans :
       (~active'[u] /\ standing'[u][c] # "NONE" /\ (active[u] \/ standing[u][c] = "NONE"))
         => \E r \in Requests, op \in {"join", "create", "redeem"} :
              Committing(r, op) /\ input[r].user = u]_vars

================================================================================
