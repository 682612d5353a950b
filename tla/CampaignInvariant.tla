---------------------------- MODULE CampaignInvariant ----------------------------
(***************************************************************************)
(* The inductive invariant behind CampaignLifecycle: which statement each  *)
(* handler can be at, what it remembers there, and which facts about the   *)
(* campaign it locked cannot change before its commit.                     *)
(***************************************************************************)
EXTENDS CampaignLifecycle

(* What clients send, whatever the operation. *)
InputRows ==
  [op : AllOps, user : Users, campaign : Campaigns, scope : Scopes,
   window : (Nat \cup {None}) \X (Nat \cup {None}), actions : SUBSET Actions]

SnapRows == [row : CampaignRows \cup {NoRow}, clock : Nat, audience : SUBSET Sent]

ShapeOK ==
  /\ input \in [Requests -> InputRows \cup {NoInput}]
  /\ snap \in [Requests -> SnapRows]

Running(r) == input[r] # NoInput

(* The statements a request with input i can be at. *)
ControlAt(label, i) ==
  /\ label = "view" => i.op # "read"
  /\ label \in {"lock", "save", "commit"} => i.op \in RowOps
  /\ label = "insert" => i.op \in NewOps \cup {"join", "mission"}
  /\ i.op \in NewOps => i.window \in Nat \X Nat
  /\ i.op = "propose" => i.scope = "GLOBAL"

(* A new campaign belongs to one request until it is inserted; any other   *)
(* request works on a campaign that exists, and on an approved one once    *)
(* its view has checked that.                                              *)
FlowAt(r) ==
  LET i == input[r]
      c == i.campaign
  IN  /\ ControlAt(pc[r], i)
      /\ i.op \notin NewOps => Exists(c)
      /\ i.op \in NewOps =>
           ~Exists(c) /\ \A q \in Requests \ {r} : Running(q) => input[q].campaign # c
      /\ pc[r] = "insert" /\ i.op \in NewOps => i.window[2] >= i.window[1] + Day
      /\ pc[r] \in {"lock", "save", "commit", "insert"}
           /\ i.op \in ManagerOps \cup {"join"} => campaign[c].approval = "APPROVED"
      /\ snap[r].clock <= now

FlowOK == \A r \in Requests : Running(r) => FlowAt(r)

(* A campaign is locked by the request that is about to save or commit it. *)
Locks(r, c) == Running(r) /\ pc[r] \in {"save", "commit"} /\ input[r].campaign = c

LockOK == \A c \in Campaigns, r \in Requests : lock[c] = r <=> Locks(r, c)

(* Where a campaign must be for an operation to commit. *)
From(op, row) ==
  /\ op \in ReviewOps => row.approval = "PENDING"
  /\ op \in {"start", "patch"} => Open(row)
  /\ op = "finish" => row.approval = "APPROVED" /\ row.status = "IN_PROGRESS"

(* The row that was read under the lock is the row of the table. *)
SaveOK(r) ==
  Running(r) /\ pc[r] = "save" =>
    /\ snap[r].row = Row(r)
    /\ From(input[r].op, Row(r))
    /\ input[r].op = "approve" => Row(r).start > snap[r].clock

(* Status, approval and dates of one row agree. *)
Agrees(row) ==
  /\ row.status # "PROMOTION" => row.approval = "APPROVED"
  /\ row.status = "IN_PROGRESS" => row.start <= now
  /\ row.status = "FINISHED" => row.end <= now + 1

(* What an operation leaves. *)
To(op, row) ==
  /\ row.approval = IF op = "reject" THEN "REJECTED" ELSE "APPROVED"
  /\ op = "approve" => row.status = "PROMOTION"
  /\ op = "start" => row.status = "IN_PROGRESS"
  /\ op = "finish" => row.status = "FINISHED"

(* The row to be committed is a step ahead of the one in the table, and    *)
(* its notifications are for those enrolled now.                           *)
CommitOK(r) ==
  Running(r) /\ pc[r] = "commit" =>
    /\ snap[r].row \in CampaignRows /\ Agrees(snap[r].row)
    /\ From(input[r].op, Row(r)) /\ To(input[r].op, snap[r].row)
    /\ snap[r].audience = Audience(input[r], snap[r].row, participants[input[r].campaign])

(* A kind of notification that was not sent at a stage of the board. *)
Unsent(stage) ==
  CASE stage \in {"absent", "pending"} -> Kinds
    [] stage = "rejected" -> Kinds \ {"REJECTED"}
    [] stage = "promotion" -> {"REJECTED", "STARTED", "FINISHED"}
    [] stage = "running" -> {"REJECTED", "FINISHED"}
    [] OTHER -> {"REJECTED"}

InboxOK ==
  \A c \in Campaigns, n \in Sent :
    inbox[c][n] <= (IF n.kind \in Unsent(StageOf(c)) THEN 0 ELSE 1)

(* Nobody is enrolled in a campaign that does not exist yet. *)
EmptyOK == \A c \in Campaigns : ~Exists(c) => participants[c] = {}

(* The inductive invariant. *)
IInv == /\ TypeOK /\ ShapeOK /\ FlowOK /\ LockOK
        /\ \A r \in Requests : SaveOK(r) /\ CommitOK(r)
        /\ \A c \in Campaigns : Exists(c) => Agrees(campaign[c])

================================================================================
