--------------------------- MODULE CampaignLifecycle ---------------------------
(***************************************************************************)
(* Campaigns of GreenITESO: proposals and their review, creation, edits,   *)
(* the lazy date-driven status, explicit start and finish, enrolment and   *)
(* missions (campaigns/services.py, views.py, serializers.py), with the    *)
(* notifications they send.                                                *)
(*                                                                         *)
(* Every view first runs sync_campaign_statuses, two UPDATEs that commit   *)
(* on their own.  A view then checks what it fetched without a lock;       *)
(* reviews, transitions and edits lock the campaign row and check again;   *)
(* joining and adding a mission only INSERT a row.  The foreign key of     *)
(* that row makes the INSERT wait for a campaign that is locked FOR        *)
(* UPDATE, and for nothing else.                                           *)
(***************************************************************************)
EXTENDS Integers

CONSTANTS
  Users, Admins,    \* accounts and those with the role ADMIN
  Leader, Members,  \* the private clan's leader and accepted members
  Campaigns,        \* campaign rows
  Actions,          \* catalog actions, at most one mission each
  Nested,           \* the missions clients nest in a new campaign
  Targets,          \* scopes of the campaigns that are created
  Requests,         \* request slots
  Ops,              \* the operations clients use
  Windows,          \* start and end dates clients submit to an operation
  Day,              \* clock ticks of a day, MIN_CAMPAIGN_DURATION
  None,             \* SQL NULL
  MaxNow            \* bound on the clock

ReviewOps == {"approve", "reject"}
TransitionOps == {"start", "finish"}
RowOps == ReviewOps \cup TransitionOps \cup {"patch"}
ManagerOps == TransitionOps \cup {"patch", "mission"}
NewOps == {"create", "propose"}
AllOps == RowOps \cup NewOps \cup {"read", "join", "mission"}

Scopes == {"GLOBAL", "PRIVATE", "INSTITUTIONAL"}
Approvals == {"PENDING", "APPROVED", "REJECTED"}
Statuses == {"PROMOTION", "IN_PROGRESS", "FINISHED"}
Kinds == {"INVITE", "APPROVED", "REJECTED", "STARTED", "FINISHED"}

ASSUME CampaignAssumption ==
  /\ Admins \subseteq Users /\ Members \subseteq Users /\ Leader \in Members
  /\ Ops \subseteq AllOps /\ Targets \subseteq Scopes
  /\ None \notin Users \cup Campaigns \cup Actions \cup Requests \cup Int
  /\ None \notin Scopes \cup AllOps
  /\ \A op \in NewOps : Windows[op] \subseteq Nat \X Nat
  /\ Windows["patch"] \subseteq (Nat \cup {None}) \X (Nat \cup {None})
  /\ Nested \subseteq (SUBSET Actions) \ {{}}
  /\ Day \in Nat \ {0} /\ MaxNow \in Nat

VARIABLES
  campaign,      \* Campaign rows
  missions,      \* actions with a Mission row, by campaign
  participants,  \* CampaignParticipant rows, by campaign
  inbox,         \* notifications sent: none, one or more (0, 1, 2)
  alive,         \* the private clan is not soft-deleted
  now,           \* timezone.now()
  pc, input, snap, lock  \* the running requests and the row locks

tables == <<campaign, missions, participants, inbox, alive>>
vars == <<tables, now, pc, input, snap, lock>>

--------------------------------------------------------------------------------
(* Rows, inputs and snapshots. *)

Dates == Nat
CampaignRows ==
  {row \in [scope : Scopes, creator : Users, approval : Approvals,
            status : Statuses, start : Dates, end : Dates] :
     /\ row.end > row.start
     /\ row.scope # "GLOBAL" => row.approval = "APPROVED"}
(* Unique constraints: one mission per action, one enrolment per user. *)
MissionRows == SUBSET Actions
ParticipantRows == SUBSET Users
NoRow == [scope |-> None]
Exists(c) == campaign[c] # NoRow

NoInput == [op |-> None]
NoSnap == [row |-> NoRow, clock |-> 0, audience |-> {}]

Row(r) == campaign[input[r].campaign]
Sent == [kind : Kinds, user : Users]

(* The rows have the columns of campaigns/models.py. *)
TypeOK ==
  /\ campaign \in [Campaigns -> CampaignRows \cup {NoRow}]
  /\ missions \in [Campaigns -> MissionRows]
  /\ participants \in [Campaigns -> ParticipantRows]
  /\ inbox \in [Campaigns -> [Sent -> 0 .. 2]]
  /\ alive \in BOOLEAN
  /\ now \in 0 .. MaxNow
  /\ pc \in [Requests -> {"idle", "finish", "start", "view", "lock", "save",
                          "commit", "insert"}]
  /\ \A r \in Requests : (pc[r] = "idle") <=> (input[r] = NoInput)
  /\ \A r \in Requests : snap[r].row \in CampaignRows \cup {NoRow}
  /\ lock \in [Campaigns -> Requests \cup {None}]

--------------------------------------------------------------------------------
(* The services' rules. *)

compute_campaign_status(start, end, t) ==
  CASE t < start -> "PROMOTION"
    [] t >= start /\ t < end -> "IN_PROGRESS"
    [] OTHER -> "FINISHED"

earliest_allowed_start(t) == ((t \div Day) + 1) * Day

ensure_campaign_dates_allowed(start, end, checkStart) ==
  /\ end >= start + Day
  /\ end > now
  /\ checkStart => start >= earliest_allowed_start(now)

(* Who creates campaigns of a scope and manages them; a dissolved clan has *)
(* no leader.                                                              *)
Manages(u, scope) == IF scope = "PRIVATE" THEN u = Leader ELSE u \in Admins

can_create_campaign(u, scope) ==
  Manages(u, scope) /\ (scope = "PRIVATE" => alive)

can_manage_campaign(u, row) == can_create_campaign(u, row.scope)

(* _visible_campaigns *)
Visible(u, row) ==
  /\ row # NoRow
  /\ row.approval = "APPROVED"
  /\ row.scope = "PRIVATE" => alive /\ u \in Admins \cup Members

Open(row) == row.approval = "APPROVED" /\ row.status = "PROMOTION"

(* The users a new or newly approved campaign invites. *)
InviteRecipients(row) ==
  (IF row.scope = "PRIVATE" THEN Members ELSE Users) \ {row.creator}

(* Adds one notification of a kind for every user of a set. *)
Notified(box, kind, us) ==
  [n \in Sent |-> IF n.kind = kind /\ n.user \in us /\ box[n] < 2
                  THEN box[n] + 1 ELSE box[n]]

--------------------------------------------------------------------------------
(* Requests. *)

Begun(c) == \E r \in Requests : pc[r] # "idle" /\ input[r].campaign = c

(* What clients send: new rows get a fresh key, the rest name a campaign. *)
Sends(op, scopes, windows, given) ==
  [op : {op}, user : Users, campaign : Campaigns, scope : scopes,
   window : windows, actions : given]

NoWindow == {<<None, None>>}

ReadInputs == Sends("read", {"GLOBAL"}, NoWindow, {{}})
CreateInputs == Sends("create", Targets, Windows["create"], Nested)
ProposalInputs == Sends("propose", {"GLOBAL"}, Windows["propose"], Nested)
EditInputs == Sends("patch", {"GLOBAL"}, Windows["patch"], {{}})
MissionInputs == Sends("mission", {"GLOBAL"}, NoWindow, {{a} : a \in Actions})
KeyInputs(op) == Sends(op, {"GLOBAL"}, NoWindow, {{}})

Inputs(op) ==
  CASE op = "read" -> ReadInputs
    [] op = "create" -> CreateInputs
    [] op = "propose" -> ProposalInputs
    [] op = "patch" -> EditInputs
    [] op = "mission" -> MissionInputs
    [] OTHER -> KeyInputs(op)

End(r) ==
  /\ pc' = [pc EXCEPT ![r] = "idle"]
  /\ input' = [input EXCEPT ![r] = NoInput]
  /\ snap' = [snap EXCEPT ![r] = NoSnap]
  /\ lock' = [c \in Campaigns |-> IF lock[c] = r THEN None ELSE lock[c]]

Goto(r, label) ==
  /\ pc' = [pc EXCEPT ![r] = label]
  /\ UNCHANGED input

(* Only administrators review; only the others propose. *)
ReviewPermitted(u) == u \in Admins
ProposalPermitted(u) == u \notin Admins

(* Authentication, then the status sync reads the clock once.  Roles and    *)
(* leadership do not change here, so a request they refuse only syncs, and  *)
(* is a "read".                                                             *)
Begin(r) ==
  /\ pc[r] = "idle"
  /\ \E op \in Ops : \E i \in Inputs(op) :
       /\ op \in NewOps => ~Exists(i.campaign) /\ ~Begun(i.campaign)
       /\ op \notin NewOps => Exists(i.campaign)
       /\ op = "read" => i.user = Leader
       /\ op \in ReviewOps => ReviewPermitted(i.user)
       /\ op = "propose" => ProposalPermitted(i.user)
       /\ op = "create" => Manages(i.user, i.scope)
       /\ op \in ManagerOps => Manages(i.user, campaign[i.campaign].scope)
       /\ input' = [input EXCEPT ![r] = i]
       /\ pc' = [pc EXCEPT ![r] = "finish"]
  /\ snap' = [snap EXCEPT ![r].clock = now]
  /\ UNCHANGED <<tables, now, lock>>

(* The first UPDATE of sync_campaign_statuses. *)
Overdue(c, t) ==
  /\ Exists(c)
  /\ campaign[c].status \in {"PROMOTION", "IN_PROGRESS"}
  /\ campaign[c].approval = "APPROVED"
  /\ campaign[c].end <= t

SyncFinish(r) ==
  LET due == {c \in Campaigns : Overdue(c, snap[r].clock)} IN
  /\ pc[r] = "finish"
  /\ \A c \in due : lock[c] = None
  /\ campaign' = [c \in Campaigns |->
                    IF c \in due THEN [campaign[c] EXCEPT !.status = "FINISHED"]
                    ELSE campaign[c]]
  /\ Goto(r, "start")
  /\ UNCHANGED <<missions, participants, inbox, alive, now, snap, lock>>

(* Mutant: the sync also starts pending proposals. *)
DuePending(c, t) ==
  /\ Exists(c)
  /\ campaign[c].status = "PROMOTION"
  /\ campaign[c].start <= t
  /\ campaign[c].end > t

(* The second one; a request that only reads then answers. *)
Due(c, t) ==
  /\ Exists(c)
  /\ Open(campaign[c])
  /\ campaign[c].start <= t
  /\ campaign[c].end > t

SyncStart(r) ==
  LET due == {c \in Campaigns : Due(c, snap[r].clock)} IN
  /\ pc[r] = "start"
  /\ \A c \in due : lock[c] = None
  /\ campaign' = [c \in Campaigns |->
                    IF c \in due
                    THEN [campaign[c] EXCEPT !.status = "IN_PROGRESS"]
                    ELSE campaign[c]]
  /\ IF input[r].op = "read" THEN End(r)
     ELSE /\ snap' = [snap EXCEPT ![r] = NoSnap]
          /\ Goto(r, "view") /\ UNCHANGED lock
  /\ UNCHANGED <<missions, participants, inbox, alive, now>>

(* What the views and serializers check on rows they fetched without a     *)
(* lock, by endpoint.                                                      *)
CreateAllowed(i) ==
  /\ ensure_campaign_dates_allowed(i.window[1], i.window[2], TRUE)
  /\ can_create_campaign(i.user, i.scope)
  /\ i.actions # {}

ProposalAllowed(i) ==
  /\ ensure_campaign_dates_allowed(i.window[1], i.window[2], TRUE)
  /\ i.actions # {}

ManageAllowed(i) ==
  LET row == campaign[i.campaign]
  IN  Visible(i.user, row) /\ can_manage_campaign(i.user, row)

MissionAllowed(i) ==
  /\ ManageAllowed(i)
  /\ campaign[i.campaign].status = "PROMOTION"
  /\ i.actions \cap missions[i.campaign] = {}

JoinAllowed(i) ==
  LET row == campaign[i.campaign] IN
  /\ Open(row)
  /\ row.scope = "PRIVATE" => alive /\ i.user \in Members
  /\ i.user \notin participants[i.campaign]

ViewAllows(i) ==
  CASE i.op = "create" -> CreateAllowed(i)
    [] i.op = "propose" -> ProposalAllowed(i)
    [] i.op = "mission" -> MissionAllowed(i)
    [] i.op = "join" -> JoinAllowed(i)
    [] i.op \in TransitionOps \cup {"patch"} -> ManageAllowed(i)
    [] OTHER -> TRUE

View(r) ==
  /\ pc[r] = "view"
  /\ IF ViewAllows(input[r])
     THEN /\ Goto(r, IF input[r].op \in RowOps THEN "lock" ELSE "insert")
          /\ UNCHANGED <<snap, lock>>
     ELSE End(r)
  /\ UNCHANGED <<tables, now>>

--------------------------------------------------------------------------------
(* Reviews, transitions and edits: lock, check, save and notify, commit. *)

(* CampaignUpdateSerializer.validate drops a date equal to the stored one. *)
NewDate(given, stored) == IF given = None THEN stored ELSE given

EditAllowed(w, row) ==
  LET start == NewDate(w[1], row.start)
      end == NewDate(w[2], row.end)
  IN  (start # row.start \/ end # row.end) =>
        ensure_campaign_dates_allowed(start, end, start # row.start)

(* Mutant: a transition trusts the view and does not check the locked row. *)
RowAllowsUnchecked(i, row) ==
  /\ i.op \in ReviewOps => row.approval = "PENDING"
  /\ i.op = "patch" => row.status = "PROMOTION" /\ EditAllowed(i.window, row)

RowAllows(i, row) ==
  /\ i.op \in ReviewOps => row.approval = "PENDING"
  /\ i.op = "approve" => /\ row.end > now
                         /\ row.start >= earliest_allowed_start(now)
  /\ i.op = "start" => Open(row)
  /\ i.op = "finish" => row.approval = "APPROVED" /\ row.status = "IN_PROGRESS"
  /\ i.op = "patch" => row.status = "PROMOTION" /\ EditAllowed(i.window, row)

LockRow(r) ==
  /\ pc[r] = "lock"
  /\ lock[input[r].campaign] = None
  /\ IF RowAllows(input[r], Row(r))
     THEN /\ lock' = [lock EXCEPT ![input[r].campaign] = r]
          /\ snap' = [snap EXCEPT ![r].row = Row(r), ![r].clock = now]
          /\ Goto(r, "save")
     ELSE End(r)
  /\ UNCHANGED <<tables, now>>

approve_campaign(row, t) ==
  [row EXCEPT !.approval = "APPROVED",
              !.status = compute_campaign_status(row.start, row.end, t)]

reject_campaign(row) == [row EXCEPT !.approval = "REJECTED"]

start_campaign(row) == [row EXCEPT !.start = now, !.status = "IN_PROGRESS"]

finish_campaign(row) ==
  [row EXCEPT !.end = IF now > row.start THEN now ELSE row.start + 1,
              !.status = "FINISHED"]

(* CampaignUpdateSerializer.update *)
EditCampaign(row, w) ==
  LET start == NewDate(w[1], row.start)
      end == NewDate(w[2], row.end)
  IN  [row EXCEPT !.start = start, !.end = end,
                  !.status = compute_campaign_status(start, end, now)]

SavedRow(i, row, t) ==
  CASE i.op = "approve" -> approve_campaign(row, t)
    [] i.op = "reject" -> reject_campaign(row)
    [] i.op = "start" -> start_campaign(row)
    [] i.op = "finish" -> finish_campaign(row)
    [] i.op = "patch" -> EditCampaign(row, i.window)

(* Whom the handler notifies of what, with the rows it reads for it. *)
Audience(i, row, us) ==
  CASE i.op = "approve" ->
         [kind : {"APPROVED"}, user : {row.creator} \ {i.user}]
           \cup [kind : {"INVITE"},
                 user : IF Open(row) THEN InviteRecipients(row) ELSE {}]
    [] i.op = "reject" -> [kind : {"REJECTED"}, user : {row.creator} \ {i.user}]
    [] i.op = "start" -> [kind : {"STARTED"}, user : us]
    [] i.op = "finish" -> [kind : {"FINISHED"}, user : us]
    [] OTHER -> {}

(* The UPDATE, which the check constraint on the dates may refuse, and the *)
(* queries for the recipients.                                             *)
Save(r) ==
  /\ pc[r] = "save"
  /\ LET i == input[r]
         row == SavedRow(i, snap[r].row, snap[r].clock)
     IN  IF row.end > row.start
         THEN /\ snap' = [snap EXCEPT ![r].row = row,
                            ![r].audience =
                              Audience(i, row, participants[i.campaign])]
              /\ Goto(r, "commit")
              /\ UNCHANGED lock
         ELSE End(r)
  /\ UNCHANGED <<tables, now>>

Commit(r) ==
  LET c == input[r].campaign IN
  /\ pc[r] = "commit"
  /\ campaign' = [campaign EXCEPT ![c] = snap[r].row]
  /\ inbox' = [inbox EXCEPT ![c] =
                 [n \in Sent |-> IF n \in snap[r].audience /\ @[n] < 2
                                 THEN @[n] + 1 ELSE @[n]]]
  /\ End(r)
  /\ UNCHANGED <<missions, participants, alive, now>>

--------------------------------------------------------------------------------
(* Handlers that only insert. *)

(* create_campaign_with_missions, then CampaignListCreateView.perform_create *)
NewRow(i) ==
  [scope |-> i.scope, creator |-> i.user, start |-> i.window[1],
   end |-> i.window[2],
   approval |-> IF i.op = "propose" THEN "PENDING" ELSE "APPROVED",
   status |-> IF i.op = "propose" THEN "PROMOTION"
              ELSE compute_campaign_status(i.window[1], i.window[2], now)]

InsertCampaign(r) ==
  LET i == input[r]  c == i.campaign  row == NewRow(i)
      enrolled == IF i.scope = "PRIVATE" /\ alive /\ i.user = Leader
                  THEN {i.user} ELSE {}
  IN  /\ pc[r] = "insert" /\ i.op \in NewOps
      /\ campaign' = [campaign EXCEPT ![c] = row]
      /\ missions' = [missions EXCEPT ![c] = i.actions]
      /\ participants' = [participants EXCEPT ![c] = enrolled]
      /\ inbox' = IF Open(row)
                  THEN [inbox EXCEPT ![c] =
                          Notified(@, "INVITE", InviteRecipients(row))]
                  ELSE inbox
      /\ End(r)
      /\ UNCHANGED <<alive, now>>

(* Mutant: the INSERT does not wait for the campaign row. *)
InsertParticipantAtOnce(r) ==
  LET i == input[r]  c == i.campaign IN
  /\ pc[r] = "insert" /\ i.op = "join"
  /\ participants' = [participants EXCEPT ![c] = @ \cup {i.user}]
  /\ End(r)
  /\ UNCHANGED <<campaign, missions, inbox, alive, now>>

(* The unique constraint turns a second enrolment into an error.  The row  *)
(* points to the campaign, so a campaign locked FOR UPDATE delays it.      *)
InsertParticipant(r) ==
  LET i == input[r]  c == i.campaign IN
  /\ pc[r] = "insert" /\ i.op = "join"
  /\ lock[c] = None
  /\ participants' = [participants EXCEPT ![c] = @ \cup {i.user}]
  /\ End(r)
  /\ UNCHANGED <<campaign, missions, inbox, alive, now>>

InsertMission(r) ==
  LET i == input[r]  c == i.campaign IN
  /\ pc[r] = "insert" /\ i.op = "mission"
  /\ lock[c] = None
  /\ missions' = [missions EXCEPT ![c] = @ \cup i.actions]
  /\ End(r)
  /\ UNCHANGED <<campaign, participants, inbox, alive, now>>

--------------------------------------------------------------------------------
(* A worker that dies is rolled back by the database. *)
Abort(r) ==
  /\ pc[r] # "idle"
  /\ End(r)
  /\ UNCHANGED <<tables, now>>

(* Time passes; the leader dissolves the clan. *)
Tick ==
  /\ now < MaxNow
  /\ now' = now + 1
  /\ UNCHANGED <<tables, pc, input, snap, lock>>

Dissolve ==
  /\ alive
  /\ alive' = FALSE
  /\ UNCHANGED <<campaign, missions, participants, inbox, now, pc, input, snap,
                 lock>>

Init ==
  /\ campaign = [c \in Campaigns |-> NoRow]
  /\ missions = [c \in Campaigns |-> {}]
  /\ participants = [c \in Campaigns |-> {}]
  /\ inbox = [c \in Campaigns |-> [n \in Sent |-> 0]]
  /\ alive = TRUE
  /\ now = 0
  /\ pc = [r \in Requests |-> "idle"]
  /\ input = [r \in Requests |-> NoInput]
  /\ snap = [r \in Requests |-> NoSnap]
  /\ lock = [c \in Campaigns |-> None]

Step(r) ==
  \/ SyncFinish(r) \/ SyncStart(r) \/ View(r)
  \/ LockRow(r) \/ Save(r) \/ Commit(r)
  \/ InsertCampaign(r) \/ InsertParticipant(r) \/ InsertMission(r)

Next ==
  \/ \E r \in Requests : Begin(r) \/ Step(r) \/ Abort(r)
  \/ Tick
  \/ Dissolve

Spec == Init /\ [][Next]_vars

--------------------------------------------------------------------------------
(* Properties. *)

(* Status, approval and dates agree although the sync, edits and transitions *)
(* read their clocks at different moments: only an approved campaign leaves  *)
(* promotion (the sync excludes pending proposals), a running one has begun, *)
(* and a finished one is over, at most one tick after the clock when         *)
(* finish_campaign keeps its end after its start; every column has its type. *)
LifecycleAgrees ==
  /\ TypeOK
  /\ \A c \in {d \in Campaigns : Exists(d)} :
       LET row == campaign[c] IN
       /\ row.status # "PROMOTION" => row.approval = "APPROVED"
       /\ row.status = "IN_PROGRESS" => row.start <= now
       /\ row.status = "FINISHED" => row.end <= now + 1

(* However reviews, starts and finishes overlap, nobody is notified twice of *)
(* the same event of a campaign, and no author hears both verdicts           *)
(* (approve_campaign, reject_campaign, start_campaign, finish_campaign).     *)
NoticedOnce ==
  \A c \in Campaigns :
    /\ \A n \in Sent : inbox[c][n] <= 1
    /\ \A u \in Users : \/ inbox[c][[kind |-> "APPROVED", user |-> u]] = 0
                        \/ inbox[c][[kind |-> "REJECTED", user |-> u]] = 0

StageOf(c) ==
  IF ~Exists(c) THEN "absent"
  ELSE CASE campaign[c].approval = "PENDING" -> "pending"
         [] campaign[c].approval = "REJECTED" -> "rejected"
         [] Open(campaign[c]) -> "promotion"
         [] OTHER -> IF campaign[c].status = "IN_PROGRESS" THEN "running" ELSE "finished"

Board == INSTANCE CampaignBoard
           WITH stage <- [c \in Campaigns |-> StageOf(c)],
                enrolled <- participants, told <- inbox

(* Every behaviour of the endpoints is one of the abstract board, in which a *)
(* request is a single step: statuses only move forward, and exactly the     *)
(* users enrolled at that moment hear of an explicit start or finish.        *)
BoardRefined == Board!Spec

================================================================================
