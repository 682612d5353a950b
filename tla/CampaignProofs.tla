----------------------------- MODULE CampaignProofs -----------------------------
(***************************************************************************)
(* The life of a campaign for every number of users, campaigns and         *)
(* overlapping requests: status, approval and dates agree, the endpoints   *)
(* implement the abstract board, and from the board that nobody is told    *)
(* the same thing twice.                                                   *)
(***************************************************************************)
EXTENDS CampaignInvariant, TLAPS

Labels == {"idle", "finish", "start", "view", "lock", "save", "commit", "insert"}

(* The types of the tables, the part of TypeOK that is not about requests. *)
TablesOK ==
  /\ campaign \in [Campaigns -> CampaignRows \cup {NoRow}]
  /\ missions \in [Campaigns -> MissionRows]
  /\ participants \in [Campaigns -> ParticipantRows]
  /\ inbox \in [Campaigns -> [Sent -> 0 .. 2]]
  /\ alive \in BOOLEAN
  /\ now \in 0 .. MaxNow

AgreesOK == \A c \in Campaigns : Exists(c) => Agrees(campaign[c])

(* The columns of a campaign row. *)
LEMMA RowTypes ==
  ASSUME NEW row \in CampaignRows
  PROVE  /\ row # NoRow
         /\ row.scope \in Scopes /\ row.creator \in Users /\ row.approval \in Approvals
         /\ row.status \in Statuses /\ row.start \in Nat /\ row.end \in Nat
         /\ row.end > row.start
         /\ row.scope # "GLOBAL" => row.approval = "APPROVED"
  BY CampaignAssumption DEF CampaignRows, NoRow, Dates

(* The fields of an input. *)
LEMMA InputFields ==
  ASSUME NEW i \in InputRows
  PROVE  /\ i.op \in AllOps /\ i.user \in Users /\ i.campaign \in Campaigns
         /\ i.scope \in Scopes /\ i.actions \subseteq Actions
         /\ i.window[1] \in Nat \cup {None} /\ i.window[2] \in Nat \cup {None}
         /\ i # NoInput
  BY CampaignAssumption DEF InputRows, NoInput

(* What an endpoint takes is an input of its operation. *)
LEMMA InputTypes ==
  ASSUME NEW op \in Ops, NEW i \in Inputs(op)
  PROVE  /\ i \in InputRows /\ i.op = op
         /\ ControlAt("finish", i)
<1>1. op \in AllOps
  BY CampaignAssumption
<1>. USE DEF Inputs, Sends, InputRows, ControlAt, NoWindow
<1>2. "GLOBAL" \in Scopes /\ Targets \subseteq Scopes
  BY CampaignAssumption DEF Scopes
<1>3. <<None, None>> \in (Nat \cup {None}) \X (Nat \cup {None})
  OBVIOUS
<1>4. /\ Windows["create"] \subseteq Nat \X Nat /\ Windows["propose"] \subseteq Nat \X Nat
      /\ Windows["patch"] \subseteq (Nat \cup {None}) \X (Nat \cup {None})
      /\ \A A \in Nested : A \subseteq Actions
  BY CampaignAssumption DEF NewOps
<1>5. CASE op = "read"
  BY <1>1, <1>2, <1>3, <1>5 DEF ReadInputs, NewOps
<1>6. CASE op = "create"
  BY <1>1, <1>2, <1>4, <1>6 DEF CreateInputs, NewOps
<1>7. CASE op = "propose"
  BY <1>1, <1>2, <1>4, <1>7 DEF ProposalInputs, NewOps
<1>8. CASE op = "patch"
  BY <1>1, <1>2, <1>4, <1>8 DEF EditInputs, NewOps
<1>9. CASE op = "mission"
  BY <1>1, <1>2, <1>3, <1>9 DEF MissionInputs, NewOps
<1>10. CASE op \notin {"read", "create", "propose", "patch", "mission"}
  BY <1>1, <1>2, <1>3, <1>10 DEF KeyInputs, NewOps
<1>. QED
  BY <1>5, <1>6, <1>7, <1>8, <1>9, <1>10

(* What the types say of one request. *)
LEMMA RequestTypes ==
  ASSUME IInv, NEW r \in Requests
  PROVE  /\ pc[r] \in Labels /\ snap[r] \in SnapRows
         /\ pc[r] = "idle" <=> ~Running(r)
         /\ Running(r) => input[r] \in InputRows /\ FlowAt(r)
         /\ SaveOK(r) /\ CommitOK(r)
  BY DEF IInv, TypeOK, ShapeOK, FlowOK, Running, Labels

--------------------------------------------------------------------------------
(* What a step of one request means for the others. *)

(* A step of r leaves what the other requests remember alone. *)
Apart(r) ==
  \A q \in Requests \ {r} :
    pc'[q] = pc[q] /\ input'[q] = input[q] /\ snap'[q] = snap[q]

(* A step of r removes no campaign and withdraws no approval, inserts only *)
(* a campaign of its own, and leaves one that another request has locked,  *)
(* and who is enrolled in it, alone.                                       *)
Guarantee(r) ==
  /\ \A c \in Campaigns :
       /\ Exists(c) => Exists(c)'
       /\ Exists(c) /\ campaign[c].approval = "APPROVED"
            => campaign'[c].approval = "APPROVED"
       /\ ~Exists(c) => \/ campaign'[c] = campaign[c]
                        \/ Running(r) /\ input[r].campaign = c
       /\ lock[c] \notin {None, r} => /\ campaign'[c] = campaign[c]
                                      /\ participants'[c] = participants[c]
  /\ now' \in Nat /\ now <= now'

(* No other request is inserting the campaign r works on. *)
KeepsOut(r) ==
  Running(r)' => \A q \in Requests \ {r} :
    Running(q) /\ input[q].op \in NewOps => input'[r].campaign # input[q].campaign

(* What was known of the other requests still is. *)
LEMMA OthersOK ==
  ASSUME IInv, NEW r \in Requests, Apart(r), Guarantee(r), KeepsOut(r),
         NEW q \in Requests, q # r
  PROVE  /\ Running(q)' => FlowAt(q)'
         /\ SaveOK(q)' /\ CommitOK(q)'
<1>1. pc'[q] = pc[q] /\ input'[q] = input[q] /\ snap'[q] = snap[q]
  BY DEF Apart
<1>2. CASE ~Running(q)
  <2>1. ~Running(q)'
    BY <1>1, <1>2 DEF Running
  <2>. QED
    BY <2>1 DEF SaveOK, CommitOK
<1>3. CASE Running(q)
  <2>1. PICK i \in InputRows : i = input[q]
    BY <1>3, RequestTypes
  <2>2. PICK c \in Campaigns : c = i.campaign
    BY InputFields
  <2>3. FlowAt(q) /\ SaveOK(q) /\ CommitOK(q) /\ snap[q] \in SnapRows
    BY <1>3, RequestTypes
  <2>4. now \in Nat /\ now' \in Nat /\ now <= now' /\ snap[q].clock \in Nat
    BY <2>3, CampaignAssumption DEF Guarantee, IInv, TypeOK, SnapRows
  <2>5. i.op \in NewOps =>
           /\ ~Exists(c)'
           /\ \A p \in Requests \ {q} : Running(p)' => input'[p].campaign # c
    <3>1. SUFFICES ASSUME i.op \in NewOps
                   PROVE  /\ ~Exists(c)'
                          /\ \A p \in Requests \ {q} : Running(p)' => input'[p].campaign # c
      OBVIOUS
    <3>2. /\ ~Exists(c)
          /\ \A p \in Requests \ {q} : Running(p) => input[p].campaign # c
      BY <2>1, <2>2, <2>3, <3>1 DEF FlowAt
    <3>3. campaign'[c] = campaign[c]
      BY <3>2 DEF Guarantee
    <3>4. Running(r)' => input'[r].campaign # c
      BY <1>3, <2>1, <2>2, <3>1 DEF KeepsOut
    <3>. QED
      BY <3>2, <3>3, <3>4 DEF Exists, Apart, Running
  <2>6. FlowAt(q)'
    <3>1. i.op \notin NewOps => Exists(c) /\ Exists(c)'
      BY <2>1, <2>2, <2>3 DEF FlowAt, Guarantee
    <3>2. pc[q] \in {"lock", "save", "commit", "insert"} /\ i.op \in ManagerOps \cup {"join"}
             => campaign'[c].approval = "APPROVED"
      <4>1. i.op \in ManagerOps \cup {"join"} => i.op \notin NewOps
        BY DEF ManagerOps, TransitionOps, NewOps
      <4>. QED
        BY <2>1, <2>2, <2>3, <3>1, <4>1 DEF FlowAt, Guarantee
    <3>. QED
      BY <1>1, <2>1, <2>2, <2>3, <2>4, <2>5, <3>1, <3>2 DEF FlowAt
  <2>7. pc[q] \in {"save", "commit"} =>
           campaign'[c] = campaign[c] /\ participants'[c] = participants[c]
    <3>1. pc[q] \in {"save", "commit"} => lock[c] = q
      BY <1>3, <2>1, <2>2 DEF IInv, LockOK, Locks
    <3>2. q # None
      BY CampaignAssumption
    <3>. QED
      BY <3>1, <3>2 DEF Guarantee
  <2>8. SaveOK(q)'
    BY <1>1, <1>3, <2>1, <2>2, <2>3, <2>7 DEF SaveOK, Row, Running
  <2>9. CommitOK(q)'
    <3>. SUFFICES ASSUME pc[q] = "commit" PROVE CommitOK(q)'
      BY <1>1 DEF CommitOK
    <3>1. /\ snap[q].row \in CampaignRows /\ Agrees(snap[q].row)
          /\ From(i.op, campaign[c]) /\ To(i.op, snap[q].row)
          /\ snap[q].audience = Audience(i, snap[q].row, participants[c])
      BY <1>3, <2>1, <2>2, <2>3 DEF CommitOK, Row
    <3>2. Agrees(snap[q].row)'
      BY <1>1, <2>4, <3>1, RowTypes DEF Agrees
    <3>. QED
      BY <1>1, <2>1, <2>2, <2>7, <3>1, <3>2 DEF CommitOK, Row
  <2>. QED
    BY <2>6, <2>8, <2>9
<1>. QED
  BY <1>2, <1>3

(* A free slot remembers nothing. *)
LEMMA NoSnapType == NoSnap \in SnapRows
  BY DEF NoSnap, SnapRows

(* The end of a request keeps the invariant if what it writes keeps the    *)
(* part of it that is about the tables.                                    *)
LEMMA EndStep ==
  ASSUME IInv, NEW r \in Requests, End(r), TablesOK', AgreesOK', Guarantee(r)
  PROVE  IInv'
<1>1. Apart(r)
  BY DEF Apart, IInv, TypeOK, ShapeOK, End
<1>2. pc'[r] = "idle" /\ input'[r] = NoInput /\ ~Running(r)'
  BY DEF IInv, TypeOK, ShapeOK, End, Running
<1>3. /\ pc' \in [Requests -> Labels]
      /\ lock' \in [Campaigns -> Requests \cup {None}]
      /\ ShapeOK'
  BY NoSnapType DEF IInv, TypeOK, ShapeOK, End, Labels
<1>4. \A q \in Requests : (pc'[q] = "idle") <=> (input'[q] = NoInput)
  BY <1>1, <1>2 DEF IInv, TypeOK, Apart
<1>5. \A q \in Requests : snap'[q].row \in CampaignRows \cup {NoRow}
  BY <1>3 DEF ShapeOK, SnapRows
<1>6. TypeOK'
  BY <1>3, <1>4, <1>5 DEF TypeOK, TablesOK, Labels
<1>7. KeepsOut(r)
  BY <1>2 DEF KeepsOut
<1>8. \A q \in Requests : (Running(q)' => FlowAt(q)') /\ SaveOK(q)' /\ CommitOK(q)'
  BY <1>1, <1>2, <1>7, OthersOK DEF SaveOK, CommitOK
<1>9. LockOK'
  <2>1. ASSUME NEW c \in Campaigns, NEW q \in Requests
        PROVE  lock'[c] = q <=> Locks(q, c)'
    <3>1. lock'[c] = IF lock[c] = r THEN None ELSE lock[c]
      BY DEF End
    <3>2. q # None
      BY CampaignAssumption
    <3>3. CASE q = r
      BY <1>2, <3>1, <3>2, <3>3 DEF Locks
    <3>4. CASE q # r
      <4>1. Locks(q, c)' <=> Locks(q, c)
        BY <1>1, <3>4 DEF Locks, Running, Apart
      <4>. QED
        BY <3>1, <3>2, <3>4, <4>1 DEF IInv, LockOK
    <3>. QED
      BY <3>3, <3>4
  <2>. QED
    BY <2>1 DEF LockOK
<1>. QED
  BY <1>3, <1>6, <1>8, <1>9 DEF IInv, FlowOK, AgreesOK

(* A statement of a request that goes on keeps the invariant if it keeps   *)
(* what the invariant says of that request and of the tables.              *)
LEMMA MoveStep ==
  ASSUME IInv, NEW r \in Requests, TablesOK', AgreesOK', Guarantee(r), KeepsOut(r),
         NEW label \in Labels \ {"idle"}, NEW i \in InputRows, NEW s \in SnapRows,
         pc' = [pc EXCEPT ![r] = label], input' = [input EXCEPT ![r] = i],
         snap' = [snap EXCEPT ![r] = s],
         lock' \in [Campaigns -> Requests \cup {None}], LockOK',
         FlowAt(r)', SaveOK(r)', CommitOK(r)'
  PROVE  IInv'
<1>1. Apart(r)
  BY DEF Apart, IInv, TypeOK, ShapeOK
<1>2. pc'[r] = label /\ input'[r] = i
  BY DEF IInv, TypeOK, ShapeOK
<1>3. pc' \in [Requests -> Labels] /\ ShapeOK'
  BY DEF IInv, TypeOK, ShapeOK, Labels
<1>4. \A q \in Requests : (pc'[q] = "idle") <=> (input'[q] = NoInput)
  BY <1>1, <1>2, InputFields DEF IInv, TypeOK, Apart
<1>5. \A q \in Requests : snap'[q].row \in CampaignRows \cup {NoRow}
  BY <1>3 DEF ShapeOK, SnapRows
<1>6. TypeOK'
  BY <1>3, <1>4, <1>5 DEF TypeOK, TablesOK, Labels
<1>7. \A q \in Requests : (Running(q)' => FlowAt(q)') /\ SaveOK(q)' /\ CommitOK(q)'
  BY <1>1, OthersOK
<1>. QED
  BY <1>3, <1>6, <1>7 DEF IInv, FlowOK, AgreesOK

(* A step that writes no table. *)
LEMMA SameTables ==
  ASSUME IInv, NEW r \in Requests, UNCHANGED <<tables, now>>
  PROVE  TablesOK' /\ AgreesOK' /\ Guarantee(r)
<1>1. now \in Nat
  BY CampaignAssumption DEF IInv, TypeOK
<1>2. TablesOK' /\ AgreesOK'
  BY DEF IInv, TypeOK, TablesOK, AgreesOK, Agrees, Exists, tables
<1>. QED
  BY <1>1, <1>2 DEF Guarantee, Exists, tables

(* A refusal, a rollback or an answer without a change. *)
LEMMA RefuseStep ==
  ASSUME IInv, NEW r \in Requests, End(r), UNCHANGED <<tables, now>>
  PROVE  IInv'
  BY SameTables, EndStep

(* A request that goes on with the input it has keeps the others out. *)
LEMMA SameInput ==
  ASSUME IInv, NEW r \in Requests, Running(r), input' = input
  PROVE  KeepsOut(r) /\ Running(r)'
<1>1. ASSUME NEW q \in Requests \ {r}, Running(q), input[q].op \in NewOps
      PROVE  input[r].campaign # input[q].campaign
  BY <1>1 DEF IInv, FlowOK, FlowAt
<1>. QED
  BY <1>1 DEF KeepsOut, Running

(* Locks stay as they are while nobody enters or leaves the statements     *)
(* that hold one.                                                          *)
LEMMA SameLocks ==
  ASSUME IInv, NEW r \in Requests, lock' = lock, Apart(r),
         \A c \in Campaigns : Locks(r, c)' <=> Locks(r, c)
  PROVE  lock' \in [Campaigns -> Requests \cup {None}] /\ LockOK'
<1>1. ASSUME NEW c \in Campaigns, NEW q \in Requests, q # r
      PROVE  Locks(q, c)' <=> Locks(q, c)
  BY <1>1 DEF Apart, Locks, Running
<1>. QED
  BY <1>1 DEF IInv, TypeOK, LockOK

(* A request arrives. *)
LEMMA BeginStep ==
  ASSUME IInv, NEW r \in Requests, Begin(r)
  PROVE  IInv'
<1>1. PICK op \in Ops : \E j \in Inputs(op) :
        /\ op \in NewOps => ~Exists(j.campaign) /\ ~Begun(j.campaign)
        /\ op \notin NewOps => Exists(j.campaign)
        /\ input' = [input EXCEPT ![r] = j]
        /\ pc' = [pc EXCEPT ![r] = "finish"]
  BY DEF Begin
<1>2. PICK i \in Inputs(op) :
        /\ op \in NewOps => ~Exists(i.campaign) /\ ~Begun(i.campaign)
        /\ op \notin NewOps => Exists(i.campaign)
        /\ input' = [input EXCEPT ![r] = i]
        /\ pc' = [pc EXCEPT ![r] = "finish"]
  BY <1>1
<1>3. /\ pc[r] = "idle" /\ snap' = [snap EXCEPT ![r].clock = now]
      /\ UNCHANGED <<tables, now, lock>>
  BY DEF Begin
<1>4. i \in InputRows /\ i.op = op /\ ControlAt("finish", i)
  BY InputTypes
<1>5. ~Running(r)
  BY <1>3, RequestTypes
<1>6. now \in Nat
  BY CampaignAssumption DEF IInv, TypeOK
<1>7. PICK s \in SnapRows : s = [snap[r] EXCEPT !.clock = now]
  BY <1>6, RequestTypes DEF SnapRows
<1>8. snap' = [snap EXCEPT ![r] = s]
  BY <1>3, <1>7
<1>9. /\ pc'[r] = "finish" /\ input'[r] = i /\ snap'[r] = s /\ s.clock = now
  BY <1>2, <1>7, <1>8, RequestTypes DEF IInv, TypeOK, ShapeOK, SnapRows
<1>10. Apart(r)
  BY <1>2, <1>8 DEF Apart, IInv, TypeOK, ShapeOK
<1>11. ASSUME NEW q \in Requests \ {r}, Running(q)
       PROVE  /\ op \in NewOps => input[q].campaign # i.campaign
              /\ input[q].op \in NewOps => i.campaign # input[q].campaign
  <2>1. op \in NewOps => input[q].campaign # i.campaign
    BY <1>2, <1>11, RequestTypes DEF Begun
  <2>2. input[q].op \in NewOps => ~Exists(input[q].campaign)
    BY <1>11, RequestTypes DEF FlowAt
  <2>. QED
    BY <1>2, <2>1, <2>2
<1>12. KeepsOut(r)
  BY <1>9, <1>11 DEF KeepsOut
<1>13. FlowAt(r)'
  <2>1. \A q \in Requests \ {r} : Running(q)' /\ op \in NewOps => input'[q].campaign # i.campaign
    BY <1>10, <1>11 DEF Apart, Running
  <2>2. now' = now /\ s.clock <= now'
    BY <1>3, <1>6, <1>9
  <2>. QED
    BY <1>2, <1>3, <1>4, <1>9, <2>1, <2>2 DEF FlowAt, Exists, tables
<1>14. SaveOK(r)' /\ CommitOK(r)'
  BY <1>9 DEF SaveOK, CommitOK
<1>15. lock' \in [Campaigns -> Requests \cup {None}] /\ LockOK'
  <2>1. \A c \in Campaigns : Locks(r, c)' <=> Locks(r, c)
    BY <1>3, <1>9 DEF Locks
  <2>. QED
    BY <1>3, <1>10, <2>1, SameLocks
<1>16. "finish" \in Labels \ {"idle"}
  BY DEF Labels
<1>. QED
  BY <1>2, <1>3, <1>4, <1>8, <1>12, <1>13, <1>14, <1>15, <1>16, SameTables, MoveStep

--------------------------------------------------------------------------------
(* The statements before the commit. *)

(* What a request that goes on must show of its next statement. *)
LEMMA OwnFlow ==
  ASSUME IInv, NEW r \in Requests, Running(r), Guarantee(r), input' = input,
         ControlAt(pc'[r], input[r]),
         input[r].op \in NewOps => campaign'[input[r].campaign] = campaign[input[r].campaign],
         pc'[r] = "insert" /\ input[r].op \in NewOps
           => input[r].window[2] >= input[r].window[1] + Day,
         pc'[r] \in {"lock", "save", "commit", "insert"}
           /\ input[r].op \in ManagerOps \cup {"join"}
           => campaign'[input[r].campaign].approval = "APPROVED",
         snap'[r].clock <= now'
  PROVE  FlowAt(r)'
<1>1. FlowAt(r) /\ input[r] \in InputRows
  BY RequestTypes
<1>2. PICK c \in Campaigns : c = input[r].campaign
  BY <1>1, InputFields
<1>3. input[r].op \notin NewOps => Exists(c)'
  BY <1>1, <1>2 DEF FlowAt, Guarantee
<1>4. input[r].op \in NewOps =>
        /\ ~Exists(c)'
        /\ \A q \in Requests \ {r} : Running(q)' => input'[q].campaign # c
  BY <1>1, <1>2 DEF FlowAt, Exists, Running
<1>. QED
  BY <1>1, <1>2, <1>3, <1>4 DEF FlowAt

(* A sync moves approved campaigns whose date has come and that nobody has *)
(* locked.                                                                 *)
LEMMA SyncTables ==
  ASSUME IInv, NEW r \in Requests, NEW status \in {"IN_PROGRESS", "FINISHED"}, NEW due,
         \A c \in due : /\ Exists(c) /\ campaign[c].approval = "APPROVED" /\ lock[c] = None
                        /\ status = "IN_PROGRESS" => campaign[c].start <= now
                        /\ status = "FINISHED" => campaign[c].end <= now,
         campaign' = [c \in Campaigns |->
                        IF c \in due THEN [campaign[c] EXCEPT !.status = status]
                        ELSE campaign[c]],
         UNCHANGED <<missions, participants, inbox, alive, now>>
  PROVE  /\ TablesOK' /\ AgreesOK' /\ Guarantee(r)
         /\ \A c \in Campaigns : ~Exists(c) => campaign'[c] = campaign[c]
<1>1. now \in Nat
  BY CampaignAssumption DEF IInv, TypeOK
<1>2. ASSUME NEW c \in Campaigns
      PROVE  /\ campaign'[c] = campaign[c]
                \/ (/\ c \in due /\ campaign'[c] \in CampaignRows
                    /\ campaign'[c].status = status
                    /\ campaign'[c].approval = "APPROVED"
                    /\ campaign'[c].start = campaign[c].start
                    /\ campaign'[c].end = campaign[c].end)
  <2>1. CASE c \in due
    <3>1. campaign[c] \in CampaignRows
      BY <2>1 DEF Exists, IInv, TypeOK
    <3>2. campaign'[c] = [campaign[c] EXCEPT !.status = status]
      BY <2>1
    <3>. QED
      BY <2>1, <3>1, <3>2 DEF CampaignRows, Statuses
  <2>2. CASE c \notin due
    BY <2>2
  <2>. QED
    BY <2>1, <2>2
<1>3. campaign' \in [Campaigns -> CampaignRows \cup {NoRow}]
  <2>1. campaign \in [Campaigns -> CampaignRows \cup {NoRow}]
    BY DEF IInv, TypeOK
  <2>2. \A c \in Campaigns : campaign'[c] \in CampaignRows \cup {NoRow}
    BY <1>2, <2>1
  <2>. QED
    BY <2>2
<1>4. TablesOK'
  BY <1>3 DEF IInv, TypeOK, TablesOK
<1>5. AgreesOK'
  <2>1. ASSUME NEW c \in Campaigns, Exists(c)'
        PROVE  Agrees(campaign[c])'
    <3>1. CASE campaign'[c] = campaign[c]
      <4>1. Exists(c) /\ Agrees(campaign[c])
        BY <2>1, <3>1 DEF IInv, Exists
      <4>. QED
        BY <3>1, <4>1 DEF Agrees
    <3>2. CASE campaign'[c] # campaign[c]
      <4>1. /\ c \in due /\ campaign'[c] \in CampaignRows /\ campaign'[c].status = status
            /\ campaign'[c].approval = "APPROVED"
            /\ campaign'[c].start = campaign[c].start
            /\ campaign'[c].end = campaign[c].end
        BY <1>2, <3>2
      <4>2. campaign'[c].end \in Nat
        BY <4>1, RowTypes
      <4>. QED
        BY <1>1, <4>1, <4>2 DEF Agrees
    <3>. QED
      BY <3>1, <3>2
  <2>. QED
    BY <2>1 DEF AgreesOK
<1>6. \A c \in Campaigns : ~Exists(c) => campaign'[c] = campaign[c]
  BY <1>2 DEF Exists
<1>7. Guarantee(r)
  <2>1. ASSUME NEW c \in Campaigns, Exists(c) PROVE Exists(c)'
    BY <1>2, <2>1, RowTypes DEF Exists
  <2>2. \A c \in Campaigns : lock[c] # None => campaign'[c] = campaign[c]
    BY <1>2
  <2>. QED
    BY <1>1, <1>2, <1>6, <2>1, <2>2 DEF Guarantee
<1>. QED
  BY <1>4, <1>5, <1>6, <1>7

(* The first UPDATE of the sync. *)
LEMMA SyncFinishStep ==
  ASSUME IInv, NEW r \in Requests, SyncFinish(r)
  PROVE  IInv'
<1>1. PICK due : due = {c \in Campaigns : Overdue(c, snap[r].clock)}
  OBVIOUS
<1>2. /\ pc[r] = "finish" /\ \A c \in due : lock[c] = None
      /\ campaign' = [c \in Campaigns |->
                        IF c \in due THEN [campaign[c] EXCEPT !.status = "FINISHED"]
                        ELSE campaign[c]]
      /\ pc' = [pc EXCEPT ![r] = "start"] /\ input' = input
      /\ UNCHANGED <<missions, participants, inbox, alive, now, snap, lock>>
  BY <1>1 DEF SyncFinish, Goto
<1>3. Running(r) /\ input[r] \in InputRows /\ FlowAt(r) /\ snap[r] \in SnapRows
  BY <1>2, RequestTypes
<1>4. /\ now \in Nat /\ snap[r].clock \in Nat /\ snap[r].clock <= now
  BY <1>3, CampaignAssumption DEF IInv, TypeOK, FlowAt, SnapRows
<1>5. \A c \in due : /\ Exists(c) /\ campaign[c].approval = "APPROVED" /\ lock[c] = None
                     /\ campaign[c].end <= now
  <2>1. ASSUME NEW c \in due PROVE campaign[c].end \in Nat
    BY <1>1, RowTypes DEF Overdue, Exists, IInv, TypeOK
  <2>. QED
    BY <1>1, <1>2, <1>4, <2>1 DEF Overdue
<1>6. /\ TablesOK' /\ AgreesOK' /\ Guarantee(r)
      /\ \A c \in Campaigns : ~Exists(c) => campaign'[c] = campaign[c]
  BY <1>2, <1>5, SyncTables
<1>7. /\ pc'[r] = "start" /\ input' = [input EXCEPT ![r] = input[r]]
      /\ snap' = [snap EXCEPT ![r] = snap[r]]
  BY <1>2 DEF IInv, TypeOK, ShapeOK
<1>8. KeepsOut(r)
  BY <1>2, <1>3, SameInput
<1>9. FlowAt(r)'
  <2>1. ControlAt("start", input[r])
    BY <1>3 DEF FlowAt, ControlAt
  <2>2. input[r].op \in NewOps => campaign'[input[r].campaign] = campaign[input[r].campaign]
    BY <1>3, <1>6, InputFields DEF FlowAt
  <2>3. snap'[r].clock <= now'
    BY <1>2, <1>4
  <2>. QED
    BY <1>2, <1>3, <1>6, <1>7, <2>1, <2>2, <2>3, OwnFlow
<1>10. SaveOK(r)' /\ CommitOK(r)'
  BY <1>7 DEF SaveOK, CommitOK
<1>11. Apart(r)
  BY <1>2 DEF Apart, IInv, TypeOK
<1>12. lock' \in [Campaigns -> Requests \cup {None}] /\ LockOK'
  <2>1. \A c \in Campaigns : Locks(r, c)' <=> Locks(r, c)
    BY <1>2, <1>7 DEF Locks
  <2>. QED
    BY <1>2, <1>11, <2>1, SameLocks
<1>13. "start" \in Labels \ {"idle"}
  BY DEF Labels
<1>. QED
  BY <1>2, <1>3, <1>6, <1>7, <1>8, <1>9, <1>10, <1>12, <1>13, MoveStep

(* The second UPDATE of the sync. *)
LEMMA SyncStartStep ==
  ASSUME IInv, NEW r \in Requests, SyncStart(r)
  PROVE  IInv'
<1>1. PICK due : due = {c \in Campaigns : Due(c, snap[r].clock)}
  OBVIOUS
<1>2. /\ pc[r] = "start" /\ \A c \in due : lock[c] = None
      /\ campaign' = [c \in Campaigns |->
                        IF c \in due THEN [campaign[c] EXCEPT !.status = "IN_PROGRESS"]
                        ELSE campaign[c]]
      /\ UNCHANGED <<missions, participants, inbox, alive, now>>
  BY <1>1 DEF SyncStart
<1>3. Running(r) /\ input[r] \in InputRows /\ FlowAt(r) /\ snap[r] \in SnapRows
  BY <1>2, RequestTypes
<1>4. now \in Nat /\ snap[r].clock \in Nat /\ snap[r].clock <= now
  BY <1>3, CampaignAssumption DEF IInv, TypeOK, FlowAt, SnapRows
<1>5. \A c \in due : /\ Exists(c) /\ campaign[c].approval = "APPROVED" /\ lock[c] = None
                     /\ campaign[c].start <= now
  <2>1. ASSUME NEW c \in due PROVE campaign[c].start \in Nat
    BY <1>1, RowTypes DEF Due, Exists, IInv, TypeOK
  <2>. QED
    BY <1>1, <1>2, <1>4, <2>1 DEF Due, Open
<1>6. /\ TablesOK' /\ AgreesOK' /\ Guarantee(r)
      /\ \A c \in Campaigns : ~Exists(c) => campaign'[c] = campaign[c]
  BY <1>2, <1>5, SyncTables
<1>7. CASE input[r].op = "read"
  BY <1>6, <1>7, EndStep DEF SyncStart
<1>8. CASE input[r].op # "read"
  <2>1. /\ snap' = [snap EXCEPT ![r] = NoSnap] /\ pc' = [pc EXCEPT ![r] = "view"]
        /\ input' = input /\ lock' = lock
    BY <1>8 DEF SyncStart, Goto
  <2>2. /\ pc'[r] = "view" /\ input' = [input EXCEPT ![r] = input[r]]
        /\ snap'[r] = NoSnap
    BY <2>1 DEF IInv, TypeOK, ShapeOK
  <2>3. KeepsOut(r)
    BY <1>3, <2>1, SameInput
  <2>4. FlowAt(r)'
    <3>1. ControlAt("view", input[r])
      BY <1>3, <1>8 DEF FlowAt, ControlAt
    <3>2. input[r].op \in NewOps => campaign'[input[r].campaign] = campaign[input[r].campaign]
      BY <1>3, <1>6, InputFields DEF FlowAt
    <3>3. snap'[r].clock <= now'
      BY <1>2, <1>4, <2>2 DEF NoSnap
    <3>. QED
      BY <1>3, <1>6, <2>1, <2>2, <3>1, <3>2, <3>3, OwnFlow
  <2>5. SaveOK(r)' /\ CommitOK(r)'
    BY <2>2 DEF SaveOK, CommitOK
  <2>6. Apart(r)
    BY <2>1 DEF Apart, IInv, TypeOK, ShapeOK
  <2>7. lock' \in [Campaigns -> Requests \cup {None}] /\ LockOK'
    <3>1. \A c \in Campaigns : Locks(r, c)' <=> Locks(r, c)
      BY <1>2, <2>2 DEF Locks
    <3>. QED
      BY <2>1, <2>6, <3>1, SameLocks
  <2>8. "view" \in Labels \ {"idle"}
    BY DEF Labels
  <2>. QED
    BY <1>3, <1>6, <2>1, <2>2, <2>3, <2>4, <2>5, <2>7, <2>8, NoSnapType, MoveStep
<1>. QED
  BY <1>7, <1>8

(* What the views check of the rows they fetched. *)
LEMMA ViewFacts ==
  ASSUME IInv, NEW r \in Requests, View(r), ViewAllows(input[r])
  PROVE  /\ input[r].op \in NewOps => input[r].window[2] >= input[r].window[1] + Day
         /\ input[r].op \in ManagerOps \cup {"join"} => Row(r).approval = "APPROVED"
<1>1. pc[r] = "view"
  BY DEF View
<1>2. PICK i \in InputRows : i = input[r]
  BY <1>1, RequestTypes
<1>3. i.op \in AllOps
  BY InputFields
<1>. USE <1>2 DEF ViewAllows, Row
<1>4. CASE i.op = "create"
  BY <1>4 DEF CreateAllowed, ensure_campaign_dates_allowed, ManagerOps, TransitionOps
<1>5. CASE i.op = "propose"
  BY <1>5 DEF ProposalAllowed, ensure_campaign_dates_allowed, ManagerOps, TransitionOps
<1>6. CASE i.op = "mission"
  BY <1>6 DEF MissionAllowed, ManageAllowed, Visible, NewOps
<1>7. CASE i.op = "join"
  <2>1. JoinAllowed(i)
    BY <1>7 DEF TransitionOps
  <2>. QED
    BY <1>7, <2>1 DEF JoinAllowed, Open, NewOps
<1>8. CASE i.op \in TransitionOps \cup {"patch"}
  BY <1>8 DEF ManageAllowed, Visible, NewOps, TransitionOps
<1>9. CASE i.op \in ReviewOps \cup {"read"}
  BY <1>9 DEF ReviewOps, NewOps, ManagerOps, TransitionOps
<1>. QED
  BY <1>3, <1>4, <1>5, <1>6, <1>7, <1>8, <1>9 DEF AllOps, RowOps, NewOps, ReviewOps

(* The view. *)
LEMMA ViewStep ==
  ASSUME IInv, NEW r \in Requests, View(r)
  PROVE  IInv'
<1>1. pc[r] = "view" /\ UNCHANGED <<tables, now>>
  BY DEF View
<1>2. CASE ~ViewAllows(input[r])
  BY <1>1, <1>2, RefuseStep DEF View
<1>3. CASE ViewAllows(input[r])
  <2>1. PICK label \in {"lock", "insert"} :
          label = IF input[r].op \in RowOps THEN "lock" ELSE "insert"
    OBVIOUS
  <2>2. /\ pc' = [pc EXCEPT ![r] = label] /\ input' = input /\ snap' = snap /\ lock' = lock
    BY <1>3, <2>1 DEF View, Goto
  <2>3. Running(r) /\ input[r] \in InputRows /\ FlowAt(r) /\ snap[r] \in SnapRows
    BY <1>1, RequestTypes
  <2>4. /\ pc'[r] = label /\ input' = [input EXCEPT ![r] = input[r]]
        /\ snap' = [snap EXCEPT ![r] = snap[r]]
    BY <2>2 DEF IInv, TypeOK, ShapeOK
  <2>5. TablesOK' /\ AgreesOK' /\ Guarantee(r)
    BY <1>1, SameTables
  <2>6. KeepsOut(r)
    BY <2>2, <2>3, SameInput
  <2>7. FlowAt(r)'
    <3>1. ControlAt(label, input[r])
      <4>1. input[r].op \in AllOps /\ input[r].op # "read"
        BY <1>1, <2>3, InputFields DEF FlowAt, ControlAt
      <4>. QED
        BY <2>1, <2>3, <4>1 DEF FlowAt, ControlAt, AllOps
    <3>2. snap'[r].clock <= now'
      BY <1>1, <2>2, <2>3 DEF FlowAt
    <3>3. campaign' = campaign
      BY <1>1 DEF tables
    <3>4. /\ input[r].op \in NewOps => input[r].window[2] >= input[r].window[1] + Day
          /\ input[r].op \in ManagerOps \cup {"join"}
               => campaign'[input[r].campaign].approval = "APPROVED"
      BY <1>3, <3>3, ViewFacts DEF Row
    <3>. QED
      BY <2>2, <2>3, <2>4, <2>5, <3>1, <3>2, <3>3, <3>4, OwnFlow
  <2>8. SaveOK(r)' /\ CommitOK(r)'
    BY <2>4 DEF SaveOK, CommitOK
  <2>9. Apart(r)
    BY <2>2 DEF Apart, IInv, TypeOK
  <2>10. lock' \in [Campaigns -> Requests \cup {None}] /\ LockOK'
    <3>1. \A c \in Campaigns : Locks(r, c)' <=> Locks(r, c)
      BY <1>1, <2>4 DEF Locks
    <3>. QED
      BY <2>2, <2>9, <3>1, SameLocks
  <2>11. label \in Labels \ {"idle"}
    BY DEF Labels
  <2>. QED
    BY <2>2, <2>3, <2>4, <2>5, <2>6, <2>7, <2>8, <2>10, <2>11, MoveStep
<1>. QED
  BY <1>2, <1>3

(* What the checks on the locked row say of it. *)
LEMMA RowFacts ==
  ASSUME IInv, NEW r \in Requests, LockRow(r), RowAllows(input[r], Row(r))
  PROVE  /\ From(input[r].op, Row(r))
         /\ input[r].op = "approve" => Row(r).start > now
<1>1. pc[r] = "lock"
  BY DEF LockRow
<1>2. PICK i \in InputRows : i = input[r]
  BY <1>1, RequestTypes
<1>3. /\ FlowAt(r) /\ i.op \in RowOps
  BY <1>1, <1>2, RequestTypes DEF FlowAt, ControlAt
<1>4. Exists(i.campaign) /\ Row(r) \in CampaignRows
  <2>1. i.op \notin NewOps
    BY <1>3 DEF RowOps, NewOps, ReviewOps, TransitionOps
  <2>. QED
    BY <1>2, <1>3, <2>1, InputFields DEF FlowAt, Exists, Row, IInv, TypeOK
<1>5. i.op = "patch" => Row(r).approval = "APPROVED"
  BY <1>1, <1>2, <1>3 DEF FlowAt, ManagerOps, Row
<1>6. From(i.op, Row(r))
  BY <1>2, <1>5 DEF RowAllows, From, Open
<1>7. i.op = "approve" => Row(r).start > now
  <2>1. now \in Nat
    BY CampaignAssumption DEF IInv, TypeOK
  <2>2. earliest_allowed_start(now) \in Nat /\ earliest_allowed_start(now) > now
    BY <2>1, CampaignAssumption DEF earliest_allowed_start
  <2>3. Row(r).start \in Nat
    BY <1>4, RowTypes
  <2>4. i.op = "approve" => Row(r).start >= earliest_allowed_start(now)
    BY <1>2 DEF RowAllows
  <2>. QED
    BY <2>1, <2>2, <2>3, <2>4
<1>. QED
  BY <1>2, <1>6, <1>7

(* SELECT FOR UPDATE and the checks on the row it returns. *)
LEMMA LockRowStep ==
  ASSUME IInv, NEW r \in Requests, LockRow(r)
  PROVE  IInv'
<1>1. pc[r] = "lock" /\ lock[input[r].campaign] = None /\ UNCHANGED <<tables, now>>
  BY DEF LockRow
<1>2. CASE ~RowAllows(input[r], Row(r))
  BY <1>1, <1>2, RefuseStep DEF LockRow
<1>3. CASE RowAllows(input[r], Row(r))
  <2>1. Running(r) /\ input[r] \in InputRows /\ FlowAt(r) /\ snap[r] \in SnapRows
    BY <1>1, RequestTypes
  <2>2. PICK c \in Campaigns : c = input[r].campaign
    BY <2>1, InputFields
  <2>3. now \in Nat /\ campaign[c] \in CampaignRows \cup {NoRow}
    BY CampaignAssumption DEF IInv, TypeOK
  <2>4. PICK s \in SnapRows : s = [snap[r] EXCEPT !.row = campaign[c], !.clock = now]
    BY <2>1, <2>3 DEF SnapRows
  <2>5. s.row = campaign[c] /\ s.clock = now
    BY <2>1, <2>4 DEF SnapRows
  <2>6. /\ pc' = [pc EXCEPT ![r] = "save"] /\ input' = input
        /\ snap' = [snap EXCEPT ![r] = s] /\ lock' = [lock EXCEPT ![c] = r]
    BY <1>3, <2>2, <2>4 DEF LockRow, Goto, Row, IInv, ShapeOK
  <2>7. /\ pc'[r] = "save" /\ input' = [input EXCEPT ![r] = input[r]] /\ snap'[r] = s
    BY <2>6 DEF IInv, TypeOK, ShapeOK
  <2>8. TablesOK' /\ AgreesOK' /\ Guarantee(r)
    BY <1>1, SameTables
  <2>9. KeepsOut(r)
    BY <2>1, <2>6, SameInput
  <2>10. campaign' = campaign /\ now' = now
    BY <1>1 DEF tables
  <2>11. FlowAt(r)'
    <3>1. ControlAt("save", input[r])
      BY <1>1, <2>1 DEF FlowAt, ControlAt
    <3>2. snap'[r].clock <= now'
      BY <2>3, <2>5, <2>7, <2>10
    <3>3. input[r].op \in ManagerOps \cup {"join"} => campaign[c].approval = "APPROVED"
      BY <1>1, <2>1, <2>2 DEF FlowAt
    <3>. QED
      BY <2>1, <2>2, <2>6, <2>7, <2>8, <2>10, <3>1, <3>2, <3>3, OwnFlow
  <2>12. SaveOK(r)' /\ CommitOK(r)'
    <3>1. /\ From(input[r].op, campaign[c])
          /\ input[r].op = "approve" => campaign[c].start > now
      BY <1>3, <2>2, RowFacts DEF Row
    <3>. QED
      BY <2>2, <2>5, <2>6, <2>7, <2>10, <3>1 DEF SaveOK, CommitOK, Row
  <2>13. Apart(r)
    BY <2>6 DEF Apart, IInv, TypeOK, ShapeOK
  <2>14. lock' \in [Campaigns -> Requests \cup {None}]
    BY <2>6 DEF IInv, TypeOK
  <2>15. LockOK'
    <3>1. ASSUME NEW d \in Campaigns, NEW q \in Requests
          PROVE  lock'[d] = q <=> Locks(q, d)'
      <4>1. lock'[d] = IF d = c THEN r ELSE lock[d]
        BY <2>6 DEF IInv, TypeOK
      <4>2. q # None
        BY CampaignAssumption
      <4>3. lock[d] = q <=> Locks(q, d)
        BY DEF IInv, LockOK
      <4>4. CASE q = r
        <5>1. ~Locks(r, d)
          BY <1>1 DEF Locks
        <5>2. Locks(r, d)' <=> d = c
          BY <2>1, <2>2, <2>6, <2>7 DEF Locks, Running
        <5>. QED
          BY <4>1, <4>3, <4>4, <5>1, <5>2
      <4>5. CASE q # r
        <5>1. Locks(q, d)' <=> Locks(q, d)
          BY <2>13, <4>5 DEF Locks, Running, Apart
        <5>2. lock[c] = None
          BY <1>1, <2>2
        <5>. QED
          BY <4>1, <4>2, <4>3, <4>5, <5>1, <5>2
      <4>. QED
        BY <4>4, <4>5
    <3>. QED
      BY <3>1 DEF LockOK
  <2>16. "save" \in Labels \ {"idle"}
    BY DEF Labels
  <2>. QED
    BY <2>1, <2>4, <2>6, <2>7, <2>8, <2>9, <2>11, <2>12, <2>14, <2>15, <2>16, MoveStep
<1>. QED
  BY <1>2, <1>3

(* What a handler saves: a row of the table that agrees with the clock. *)
LEMMA SavedFacts ==
  ASSUME NEW i \in InputRows, i.op \in RowOps, NEW row \in CampaignRows, NEW t \in Nat,
         now \in Nat, From(i.op, row), Agrees(row), i.op = "approve" => row.start > t,
         NEW new, new = SavedRow(i, row, t), new.end > new.start
  PROVE  new \in CampaignRows /\ Agrees(new) /\ To(i.op, new)
<1>1. /\ row.scope \in Scopes /\ row.creator \in Users /\ row.approval \in Approvals
      /\ row.status \in Statuses /\ row.start \in Nat /\ row.end \in Nat
      /\ row.end > row.start
      /\ row.scope # "GLOBAL" => row.approval = "APPROVED"
  BY RowTypes
<1>2. row = [scope |-> row.scope, creator |-> row.creator, approval |-> row.approval,
             status |-> row.status, start |-> row.start, end |-> row.end]
  BY DEF CampaignRows
<1>3. CASE i.op = "approve"
  <2>1. new = [row EXCEPT !.approval = "APPROVED",
                          !.status = compute_campaign_status(row.start, row.end, t)]
    BY <1>3 DEF SavedRow, approve_campaign
  <2>2. compute_campaign_status(row.start, row.end, t) = "PROMOTION"
    BY <1>1, <1>3 DEF compute_campaign_status
  <2>3. /\ new.scope = row.scope /\ new.creator = row.creator /\ new.approval = "APPROVED"
        /\ new.status = "PROMOTION" /\ new.start = row.start /\ new.end = row.end
        /\ new \in [scope : Scopes, creator : Users, approval : Approvals,
                    status : Statuses, start : Dates, end : Dates]
    BY <1>1, <1>2, <2>1, <2>2 DEF Approvals, Statuses, Dates
  <2>. QED
    BY <1>1, <1>3, <2>3 DEF CampaignRows, Agrees, To
<1>4. CASE i.op = "reject"
  <2>1. row.approval = "PENDING" /\ row.status = "PROMOTION" /\ row.scope = "GLOBAL"
    BY <1>1, <1>4 DEF From, ReviewOps, Agrees
  <2>2. new = [row EXCEPT !.approval = "REJECTED"]
    BY <1>4 DEF SavedRow, reject_campaign
  <2>3. /\ new.scope = row.scope /\ new.creator = row.creator /\ new.approval = "REJECTED"
        /\ new.status = "PROMOTION" /\ new.start = row.start /\ new.end = row.end
        /\ new \in [scope : Scopes, creator : Users, approval : Approvals,
                    status : Statuses, start : Dates, end : Dates]
    BY <1>1, <1>2, <2>1, <2>2 DEF Approvals, Dates
  <2>. QED
    BY <1>1, <1>4, <2>1, <2>3 DEF CampaignRows, Agrees, To
<1>5. CASE i.op = "start"
  <2>1. row.approval = "APPROVED"
    BY <1>5 DEF From, Open
  <2>2. new = [row EXCEPT !.start = now, !.status = "IN_PROGRESS"]
    BY <1>5 DEF SavedRow, start_campaign
  <2>3. /\ new.approval = "APPROVED" /\ new.status = "IN_PROGRESS" /\ new.start = now
        /\ new \in [scope : Scopes, creator : Users, approval : Approvals,
                    status : Statuses, start : Dates, end : Dates]
    BY <1>1, <1>2, <2>1, <2>2 DEF Statuses, Dates
  <2>. QED
    BY <1>5, <2>3 DEF CampaignRows, Agrees, To
<1>6. CASE i.op = "finish"
  <2>1. row.approval = "APPROVED" /\ row.start <= now
    BY <1>6 DEF From, Agrees
  <2>2. PICK end \in Nat : end = IF now > row.start THEN now ELSE row.start + 1
    BY <1>1
  <2>3. new = [row EXCEPT !.end = end, !.status = "FINISHED"]
    BY <1>6, <2>2 DEF SavedRow, finish_campaign
  <2>4. /\ new.approval = "APPROVED" /\ new.status = "FINISHED" /\ new.end = end
        /\ new \in [scope : Scopes, creator : Users, approval : Approvals,
                    status : Statuses, start : Dates, end : Dates]
    BY <1>1, <1>2, <2>1, <2>3 DEF Statuses, Dates
  <2>5. end <= now + 1
    BY <1>1, <2>1, <2>2
  <2>. QED
    BY <1>6, <2>4, <2>5 DEF CampaignRows, Agrees, To
<1>7. CASE i.op = "patch"
  <2>1. row.approval = "APPROVED"
    BY <1>7 DEF From, Open
  <2>2. PICK start \in Nat : start = NewDate(i.window[1], row.start)
    BY <1>1, InputFields DEF NewDate
  <2>3. PICK end \in Nat : end = NewDate(i.window[2], row.end)
    BY <1>1, InputFields DEF NewDate
  <2>4. PICK status \in Statuses : status = compute_campaign_status(start, end, now)
    BY DEF compute_campaign_status, Statuses
  <2>5. new = [row EXCEPT !.start = start, !.end = end, !.status = status]
    BY <1>7, <2>2, <2>3, <2>4 DEF SavedRow, EditCampaign
  <2>6. /\ new.approval = "APPROVED" /\ new.status = status /\ new.start = start
        /\ new.end = end
        /\ new \in [scope : Scopes, creator : Users, approval : Approvals,
                    status : Statuses, start : Dates, end : Dates]
    BY <1>1, <1>2, <2>1, <2>5 DEF Dates
  <2>7. (status = "IN_PROGRESS" => start <= now) /\ (status = "FINISHED" => end <= now + 1)
    BY <2>4 DEF compute_campaign_status
  <2>. QED
    BY <1>7, <2>6, <2>7 DEF CampaignRows, Agrees, To
<1>. QED
  BY <1>3, <1>4, <1>5, <1>6, <1>7 DEF RowOps, ReviewOps, TransitionOps

(* Notifications are for accounts. *)
LEMMA AudienceType ==
  ASSUME NEW i \in InputRows, i.op \in RowOps, NEW row \in CampaignRows,
         NEW us \in SUBSET Users
  PROVE  Audience(i, row, us) \subseteq Sent
<1>1. row.creator \in Users /\ InviteRecipients(row) \subseteq Users
  BY RowTypes, CampaignAssumption DEF InviteRecipients
<1>. QED
  BY <1>1 DEF Audience, Sent, Kinds, RowOps, ReviewOps, TransitionOps

(* The UPDATE, not committed yet. *)
LEMMA SaveStep ==
  ASSUME IInv, NEW r \in Requests, Save(r)
  PROVE  IInv'
<1>1. pc[r] = "save" /\ UNCHANGED <<tables, now>>
  BY DEF Save
<1>2. PICK new : new = SavedRow(input[r], snap[r].row, snap[r].clock)
  OBVIOUS
<1>3. CASE ~(new.end > new.start)
  BY <1>1, <1>2, <1>3, RefuseStep DEF Save
<1>4. CASE new.end > new.start
  <2>1. PICK i \in InputRows : i = input[r]
    BY <1>1, RequestTypes
  <2>2. Running(r) /\ FlowAt(r) /\ snap[r] \in SnapRows /\ i.op \in RowOps
    BY <1>1, <2>1, RequestTypes DEF FlowAt, ControlAt
  <2>3. PICK c \in Campaigns : c = i.campaign
    BY InputFields
  <2>4. now \in Nat /\ snap[r].clock \in Nat /\ participants[c] \in SUBSET Users
    BY <2>2, CampaignAssumption DEF IInv, TypeOK, SnapRows, ParticipantRows
  <2>5. /\ snap[r].row = campaign[c] /\ From(i.op, campaign[c])
        /\ i.op = "approve" => campaign[c].start > snap[r].clock
    BY <1>1, <2>1, <2>2, <2>3, RequestTypes DEF SaveOK, Row
  <2>6. campaign[c] \in CampaignRows /\ Agrees(campaign[c])
    <3>1. Exists(c)
      BY <2>1, <2>2, <2>3 DEF FlowAt, RowOps, NewOps, ReviewOps, TransitionOps
    <3>. QED
      BY <3>1 DEF Exists, IInv, TypeOK
  <2>7. new \in CampaignRows /\ Agrees(new) /\ To(i.op, new)
    BY <1>2, <1>4, <2>1, <2>2, <2>4, <2>5, <2>6, SavedFacts
  <2>8. PICK sent \in SUBSET Sent : sent = Audience(i, new, participants[c])
    BY <2>2, <2>4, <2>7, AudienceType
  <2>9. PICK s \in SnapRows : s = [snap[r] EXCEPT !.row = new, !.audience = sent]
    BY <2>2, <2>7 DEF SnapRows
  <2>10. s.row = new /\ s.audience = sent /\ s.clock = snap[r].clock
    BY <2>2, <2>9 DEF SnapRows
  <2>11. /\ pc' = [pc EXCEPT ![r] = "commit"] /\ input' = input /\ lock' = lock
         /\ snap' = [snap EXCEPT ![r].row = new, ![r].audience = sent]
    BY <1>2, <1>4, <2>1, <2>3, <2>8 DEF Save, Goto
  <2>12. snap' = [snap EXCEPT ![r] = s]
    BY <2>9, <2>11 DEF IInv, ShapeOK
  <2>13. /\ pc'[r] = "commit" /\ input' = [input EXCEPT ![r] = i] /\ snap'[r] = s
    BY <2>1, <2>11, <2>12 DEF IInv, TypeOK, ShapeOK
  <2>14. TablesOK' /\ AgreesOK' /\ Guarantee(r)
    BY <1>1, SameTables
  <2>15. KeepsOut(r) /\ Running(r)'
    BY <2>2, <2>11, SameInput
  <2>16. campaign' = campaign /\ participants' = participants /\ now' = now
    BY <1>1 DEF tables
  <2>17. FlowAt(r)'
    <3>1. ControlAt("commit", i)
      BY <1>1, <2>1, <2>2 DEF FlowAt, ControlAt
    <3>2. snap'[r].clock <= now'
      BY <2>2, <2>10, <2>13, <2>16 DEF FlowAt
    <3>3. i.op \in ManagerOps \cup {"join"} => campaign[c].approval = "APPROVED"
      BY <1>1, <2>1, <2>2, <2>3 DEF FlowAt
    <3>. QED
      BY <2>1, <2>2, <2>3, <2>11, <2>13, <2>14, <2>16, <3>1, <3>2, <3>3, OwnFlow
  <2>18. SaveOK(r)'
    BY <2>13 DEF SaveOK
  <2>19. CommitOK(r)'
    <3>1. Agrees(new)'
      BY <2>7, <2>16 DEF Agrees
    <3>. QED
      BY <2>1, <2>3, <2>5, <2>7, <2>8, <2>10, <2>11, <2>13, <2>16, <3>1 DEF CommitOK, Row
  <2>20. Apart(r)
    BY <2>11, <2>12 DEF Apart, IInv, TypeOK, ShapeOK
  <2>21. lock' \in [Campaigns -> Requests \cup {None}] /\ LockOK'
    <3>1. \A d \in Campaigns : Locks(r, d)' <=> Locks(r, d)
      BY <1>1, <2>2, <2>11, <2>13, <2>15 DEF Locks
    <3>. QED
      BY <2>11, <2>20, <3>1, SameLocks
  <2>22. "commit" \in Labels \ {"idle"}
    BY DEF Labels
  <2>. QED
    BY <2>11, <2>12, <2>13, <2>14, <2>15, <2>17, <2>18, <2>19, <2>21, <2>22, MoveStep
<1>. QED
  BY <1>3, <1>4

--------------------------------------------------------------------------------
(* The steps that write. *)

(* A request writes the row of its own campaign. *)
LEMMA RowWritten ==
  ASSUME IInv, NEW r \in Requests, Running(r), NEW c \in Campaigns,
         c = input[r].campaign, lock[c] \in {None, r}, NEW row \in CampaignRows, Agrees(row),
         Exists(c) /\ campaign[c].approval = "APPROVED" => row.approval = "APPROVED",
         campaign' = [campaign EXCEPT ![c] = row], now' = now,
         \A d \in Campaigns \ {c} : participants'[d] = participants[d]
  PROVE  /\ campaign' \in [Campaigns -> CampaignRows \cup {NoRow}]
         /\ AgreesOK' /\ Guarantee(r)
<1>1. campaign \in [Campaigns -> CampaignRows \cup {NoRow}] /\ now \in Nat
  BY CampaignAssumption DEF IInv, TypeOK
<1>2. campaign'[c] = row /\ \A d \in Campaigns \ {c} : campaign'[d] = campaign[d]
  BY <1>1
<1>3. campaign' \in [Campaigns -> CampaignRows \cup {NoRow}]
  BY <1>1
<1>4. AgreesOK'
  <2>1. ASSUME NEW d \in Campaigns, Exists(d)' PROVE Agrees(campaign[d])'
    <3>1. CASE d = c
      BY <1>2, <3>1 DEF Agrees
    <3>2. CASE d # c
      <4>1. Exists(d) /\ campaign'[d] = campaign[d]
        BY <1>2, <2>1, <3>2 DEF Exists
      <4>. QED
        BY <4>1 DEF IInv, Agrees
    <3>. QED
      BY <3>1, <3>2
  <2>. QED
    BY <2>1 DEF AgreesOK
<1>5. Exists(c)'
  BY <1>2, RowTypes DEF Exists
<1>6. Guarantee(r)
  BY <1>1, <1>2, <1>5 DEF Guarantee, Exists
<1>. QED
  BY <1>3, <1>4, <1>6

(* The commit of a review, a transition or an edit. *)
LEMMA CommitStep ==
  ASSUME IInv, NEW r \in Requests, Commit(r)
  PROVE  IInv'
<1>1. pc[r] = "commit"
  BY DEF Commit
<1>2. PICK i \in InputRows : i = input[r]
  BY <1>1, RequestTypes
<1>3. PICK c \in Campaigns : c = i.campaign
  BY InputFields
<1>4. PICK row : row = snap[r].row
  OBVIOUS
<1>5. /\ campaign' = [campaign EXCEPT ![c] = row]
      /\ inbox' = [inbox EXCEPT ![c] =
                     [n \in Sent |-> IF n \in snap[r].audience /\ inbox[c][n] < 2
                                     THEN inbox[c][n] + 1 ELSE inbox[c][n]]]
      /\ End(r) /\ UNCHANGED <<missions, participants, alive, now>>
  BY <1>2, <1>3, <1>4 DEF Commit, IInv, TypeOK
<1>6. Running(r) /\ FlowAt(r) /\ i.op \in RowOps /\ CommitOK(r)
  BY <1>1, <1>2, RequestTypes DEF FlowAt, ControlAt
<1>7. /\ row \in CampaignRows /\ Agrees(row)
      /\ From(i.op, campaign[c]) /\ To(i.op, row)
  BY <1>1, <1>2, <1>3, <1>4, <1>6 DEF CommitOK, Row
<1>8. lock[c] = r
  BY <1>1, <1>2, <1>3, <1>6 DEF IInv, LockOK, Locks
<1>9. campaign[c].approval = "APPROVED" => row.approval = "APPROVED"
  BY <1>7 DEF From, To, ReviewOps
<1>10. /\ campaign' \in [Campaigns -> CampaignRows \cup {NoRow}]
       /\ AgreesOK' /\ Guarantee(r)
  BY <1>2, <1>3, <1>5, <1>6, <1>7, <1>8, <1>9, RowWritten
<1>11. inbox' \in [Campaigns -> [Sent -> 0 .. 2]]
  BY <1>5 DEF IInv, TypeOK
<1>12. TablesOK'
  BY <1>5, <1>10, <1>11 DEF TablesOK, IInv, TypeOK
<1>. QED
  BY <1>5, <1>10, <1>12, EndStep

(* The row of a new campaign. *)
LEMMA NewFacts ==
  ASSUME NEW i \in InputRows, i.op \in NewOps, i.window \in Nat \X Nat, now \in Nat,
         i.op = "propose" => i.scope = "GLOBAL", i.window[2] >= i.window[1] + Day
  PROVE  /\ NewRow(i) \in CampaignRows /\ Agrees(NewRow(i))
         /\ i.op = "propose" => NewRow(i).approval = "PENDING"
         /\ i.op = "create" => NewRow(i).approval = "APPROVED"
<1>1. i.scope \in Scopes /\ i.user \in Users
  BY InputFields
<1>2. i.window[1] \in Nat /\ i.window[2] \in Nat /\ i.window[2] > i.window[1]
  BY CampaignAssumption
<1>3. PICK status \in Statuses : status = compute_campaign_status(i.window[1], i.window[2], now)
  BY DEF compute_campaign_status, Statuses
<1>4. /\ (status = "IN_PROGRESS" => i.window[1] <= now)
      /\ (status = "FINISHED" => i.window[2] <= now + 1)
  BY <1>2, <1>3 DEF compute_campaign_status
<1>5. CASE i.op = "propose"
  <2>1. NewRow(i) = [scope |-> i.scope, creator |-> i.user, start |-> i.window[1],
                     end |-> i.window[2], approval |-> "PENDING", status |-> "PROMOTION"]
    BY <1>5 DEF NewRow
  <2>. QED
    BY <1>1, <1>2, <1>5, <2>1 DEF CampaignRows, Agrees, Approvals, Statuses, Dates
<1>6. CASE i.op = "create"
  <2>1. NewRow(i) = [scope |-> i.scope, creator |-> i.user, start |-> i.window[1],
                     end |-> i.window[2], approval |-> "APPROVED", status |-> status]
    BY <1>3, <1>6 DEF NewRow
  <2>. QED
    BY <1>1, <1>2, <1>4, <1>6, <2>1 DEF CampaignRows, Agrees, Approvals, Dates
<1>. QED
  BY <1>5, <1>6 DEF NewOps

(* What the insertion of a campaign finds and writes. *)
LEMMA InsertFacts ==
  ASSUME IInv, NEW r \in Requests, InsertCampaign(r), NEW i \in InputRows, i = input[r],
         NEW c \in Campaigns, c = i.campaign
  PROVE  /\ Running(r) /\ i.op \in NewOps /\ ~Exists(c) /\ lock[c] \in {None, r}
         /\ NewRow(i) \in CampaignRows /\ Agrees(NewRow(i))
         /\ i.op = "propose" => NewRow(i).approval = "PENDING" /\ i.scope = "GLOBAL"
         /\ i.op = "create" => NewRow(i).approval = "APPROVED"
         /\ campaign' = [campaign EXCEPT ![c] = NewRow(i)]
<1>1. pc[r] = "insert" /\ i.op \in NewOps /\ campaign' = [campaign EXCEPT ![c] = NewRow(i)]
  BY DEF InsertCampaign
<1>2. Running(r) /\ FlowAt(r)
  BY <1>1, RequestTypes
<1>3. /\ i.window \in Nat \X Nat
      /\ i.op = "propose" => i.scope = "GLOBAL"
      /\ i.window[2] >= i.window[1] + Day
      /\ ~Exists(c)
      /\ \A q \in Requests \ {r} : Running(q) => input[q].campaign # c
  BY <1>1, <1>2 DEF FlowAt, ControlAt
<1>4. lock[c] \in {None, r}
  <2>1. \A q \in Requests \ {r} : lock[c] # q
    BY <1>3 DEF IInv, LockOK, Locks
  <2>. QED
    BY <2>1 DEF IInv, TypeOK
<1>5. now \in Nat
  BY CampaignAssumption DEF IInv, TypeOK
<1>. QED
  BY <1>1, <1>2, <1>3, <1>4, <1>5, NewFacts

(* A new campaign, its missions, its first participant and the invitations. *)
LEMMA InsertCampaignStep ==
  ASSUME IInv, NEW r \in Requests, InsertCampaign(r)
  PROVE  IInv'
<1>1. PICK i \in InputRows : i = input[r]
  BY RequestTypes DEF InsertCampaign
<1>2. PICK c \in Campaigns : c = i.campaign
  BY InputFields
<1>3. PICK us : us = IF i.scope = "PRIVATE" /\ alive /\ i.user = Leader THEN {i.user} ELSE {}
  OBVIOUS
<1>4. /\ missions' = [missions EXCEPT ![c] = i.actions]
      /\ participants' = [participants EXCEPT ![c] = us]
      /\ inbox' = IF Open(NewRow(i))
                  THEN [inbox EXCEPT ![c] =
                          Notified(inbox[c], "INVITE", InviteRecipients(NewRow(i)))]
                  ELSE inbox
      /\ End(r) /\ UNCHANGED <<alive, now>>
  BY <1>1, <1>2, <1>3 DEF InsertCampaign, IInv, TypeOK
<1>5. us \in SUBSET Users /\ i.actions \in SUBSET Actions
  BY <1>3, InputFields
<1>6. /\ Running(r) /\ ~Exists(c) /\ lock[c] \in {None, r}
      /\ NewRow(i) \in CampaignRows /\ Agrees(NewRow(i))
      /\ campaign' = [campaign EXCEPT ![c] = NewRow(i)]
  BY <1>1, <1>2, InsertFacts
<1>7. \A d \in Campaigns \ {c} : participants'[d] = participants[d]
  BY <1>4 DEF IInv, TypeOK
<1>8. /\ campaign' \in [Campaigns -> CampaignRows \cup {NoRow}]
      /\ AgreesOK' /\ Guarantee(r)
  BY <1>1, <1>2, <1>4, <1>6, <1>7, RowWritten
<1>9. inbox' \in [Campaigns -> [Sent -> 0 .. 2]]
  BY <1>4 DEF IInv, TypeOK, Notified
<1>10. /\ missions' \in [Campaigns -> MissionRows]
       /\ participants' \in [Campaigns -> ParticipantRows]
  BY <1>4, <1>5 DEF IInv, TypeOK, MissionRows, ParticipantRows
<1>11. TablesOK'
  BY <1>4, <1>8, <1>9, <1>10 DEF TablesOK, IInv, TypeOK
<1>. QED
  BY <1>4, <1>8, <1>11, EndStep

(* An enrolment waits for whoever has locked the campaign. *)
LEMMA InsertParticipantStep ==
  ASSUME IInv, NEW r \in Requests, InsertParticipant(r)
  PROVE  IInv'
<1>1. PICK i \in InputRows : i = input[r]
  BY RequestTypes DEF InsertParticipant
<1>2. PICK c \in Campaigns : c = i.campaign
  BY InputFields
<1>3. /\ lock[c] = None /\ End(r)
      /\ participants' = [participants EXCEPT ![c] = participants[c] \cup {i.user}]
      /\ UNCHANGED <<campaign, missions, inbox, alive, now>>
  BY <1>1, <1>2 DEF InsertParticipant, IInv, TypeOK
<1>4. participants' \in [Campaigns -> ParticipantRows]
  BY <1>3, InputFields DEF IInv, TypeOK, ParticipantRows
<1>5. TablesOK' /\ AgreesOK'
  BY <1>3, <1>4 DEF TablesOK, AgreesOK, IInv, TypeOK, Exists, Agrees
<1>6. \A d \in Campaigns \ {c} : participants'[d] = participants[d]
  BY <1>3 DEF IInv, TypeOK
<1>7. now \in Nat
  BY CampaignAssumption DEF IInv, TypeOK
<1>8. Guarantee(r)
  BY <1>3, <1>6, <1>7 DEF Guarantee, Exists
<1>. QED
  BY <1>3, <1>5, <1>8, EndStep

(* So does a new mission. *)
LEMMA InsertMissionStep ==
  ASSUME IInv, NEW r \in Requests, InsertMission(r)
  PROVE  IInv'
<1>1. PICK i \in InputRows : i = input[r]
  BY RequestTypes DEF InsertMission
<1>2. PICK c \in Campaigns : c = i.campaign
  BY InputFields
<1>3. /\ End(r) /\ missions' = [missions EXCEPT ![c] = missions[c] \cup i.actions]
      /\ UNCHANGED <<campaign, participants, inbox, alive, now>>
  BY <1>1, <1>2 DEF InsertMission, IInv, TypeOK
<1>4. missions' \in [Campaigns -> MissionRows]
  BY <1>3, InputFields DEF IInv, TypeOK, MissionRows
<1>5. TablesOK' /\ AgreesOK'
  BY <1>3, <1>4 DEF TablesOK, AgreesOK, IInv, TypeOK, Exists, Agrees
<1>6. now \in Nat
  BY CampaignAssumption DEF IInv, TypeOK
<1>7. Guarantee(r)
  BY <1>3, <1>6 DEF Guarantee, Exists
<1>. QED
  BY <1>3, <1>5, <1>7, EndStep

(* Time passes, or the private clan is dissolved. *)
LEMMA WorldStep ==
  ASSUME IInv, Tick \/ Dissolve
  PROVE  IInv'
<1>1. /\ UNCHANGED <<campaign, missions, participants, inbox, pc, input, snap, lock>>
      /\ now' \in 0 .. MaxNow /\ now \in Nat /\ now <= now' /\ alive' \in BOOLEAN
  <2>1. now \in 0 .. MaxNow /\ now \in Nat /\ MaxNow \in Nat
    BY CampaignAssumption DEF IInv, TypeOK
  <2>2. alive' \in BOOLEAN
    BY Zenon DEF Tick, Dissolve, tables, IInv, TypeOK
  <2>3. UNCHANGED <<campaign, missions, participants, inbox, pc, input, snap, lock>>
    BY DEF Tick, Dissolve, tables
  <2>4. now' \in 0 .. MaxNow /\ now <= now'
    BY <2>1 DEF Tick, Dissolve
  <2>. QED
    BY <2>1, <2>2, <2>3, <2>4
<1>2. TypeOK' /\ ShapeOK' /\ LockOK'
  BY <1>1 DEF IInv, TypeOK, ShapeOK, LockOK, Locks, Running
<1>3. now' \in Nat
  BY <1>1, CampaignAssumption
<1>4. \A c \in Campaigns : Exists(c)' => Agrees(campaign[c])'
  <2>1. ASSUME NEW c \in Campaigns, Exists(c)' PROVE Agrees(campaign[c])'
    <3>1. campaign[c] \in CampaignRows /\ Agrees(campaign[c]) /\ campaign'[c] = campaign[c]
      BY <1>1, <2>1 DEF IInv, TypeOK, Exists
    <3>. QED
      BY <1>1, <1>3, <3>1, RowTypes DEF Agrees
  <2>. QED
    BY <2>1
<1>5. ASSUME NEW r \in Requests PROVE (Running(r)' => FlowAt(r)') /\ SaveOK(r)' /\ CommitOK(r)'
  <2>1. Running(r)' => FlowAt(r)'
    <3>. SUFFICES ASSUME Running(r) PROVE FlowAt(r)'
      BY <1>1 DEF Running
    <3>1. FlowAt(r) /\ snap[r].clock \in Nat
      BY RequestTypes DEF SnapRows
    <3>2. snap[r].clock <= now'
      BY <1>1, <1>3, <3>1 DEF FlowAt
    <3>. QED
      BY <1>1, <3>1, <3>2 DEF FlowAt, Exists, Running
  <2>2. SaveOK(r)'
    BY <1>1, RequestTypes DEF SaveOK, Row, Running
  <2>3. CommitOK(r)'
    <3>. SUFFICES ASSUME Running(r), pc[r] = "commit" PROVE CommitOK(r)'
      BY <1>1 DEF CommitOK, Running
    <3>1. /\ snap[r].row \in CampaignRows /\ Agrees(snap[r].row)
          /\ From(input[r].op, Row(r)) /\ To(input[r].op, snap[r].row)
          /\ snap[r].audience = Audience(input[r], snap[r].row, participants[input[r].campaign])
      BY RequestTypes DEF CommitOK
    <3>2. Agrees(snap[r].row)'
      BY <1>1, <1>3, <3>1, RowTypes DEF Agrees
    <3>. QED
      BY <1>1, <3>1, <3>2 DEF CommitOK, Row
  <2>. QED
    BY <2>1, <2>2, <2>3
<1>. QED
  BY <1>2, <1>4, <1>5 DEF IInv, FlowOK

(* The invariant holds of an empty table. *)
LEMMA InitInv ==
  ASSUME Init
  PROVE  IInv
<1>1. ShapeOK /\ \A r \in Requests : snap[r].row \in CampaignRows \cup {NoRow}
  BY NoSnapType DEF Init, ShapeOK, NoSnap
<1>2. /\ inbox \in [Campaigns -> [Sent -> 0 .. 2]] /\ now \in 0 .. MaxNow
      /\ campaign \in [Campaigns -> CampaignRows \cup {NoRow}]
      /\ missions \in [Campaigns -> MissionRows]
      /\ participants \in [Campaigns -> ParticipantRows]
      /\ lock \in [Campaigns -> Requests \cup {None}]
  BY CampaignAssumption DEF Init, MissionRows, ParticipantRows
<1>3. \A r \in Requests : input[r] = NoInput /\ pc[r] = "idle"
  BY DEF Init
<1>4. pc \in [Requests -> {"idle", "finish", "start", "view", "lock", "save",
                          "commit", "insert"}]
  BY DEF Init
<1>5. alive \in BOOLEAN
  BY Zenon DEF Init
<1>6. TypeOK
  BY <1>1, <1>2, <1>3, <1>4, <1>5 DEF TypeOK
<1>7. \A r \in Requests : ~Running(r) /\ pc[r] = "idle"
  BY DEF Init, Running
<1>8. \A c \in Campaigns : ~Exists(c) /\ lock[c] = None
  BY DEF Init, Exists
<1>9. LockOK
  BY <1>7, <1>8, CampaignAssumption DEF LockOK, Locks
<1>. QED
  BY <1>1, <1>6, <1>7, <1>8, <1>9 DEF IInv, FlowOK, SaveOK, CommitOK

(* Every step keeps it. *)
LEMMA InvStep ==
  ASSUME IInv, [Next]_vars
  PROVE  IInv'
<1>1. CASE Next
  <2>1. ASSUME NEW r \in Requests, Begin(r) \/ Step(r) \/ Abort(r)
        PROVE  IInv'
    BY <2>1, BeginStep, SyncFinishStep, SyncStartStep, ViewStep, LockRowStep, SaveStep,
       CommitStep, InsertCampaignStep, InsertParticipantStep, InsertMissionStep,
       RefuseStep DEF Step, Abort
  <2>. QED
    BY <1>1, <2>1, WorldStep DEF Next
<1>2. CASE UNCHANGED vars
  <2>1. UNCHANGED <<campaign, missions, participants, inbox, alive, now, pc, input, snap, lock>>
    BY <1>2 DEF vars, tables
  <2>. QED
    BY <2>1 DEF IInv, TypeOK, ShapeOK, FlowOK, FlowAt, LockOK, Locks, SaveOK, CommitOK,
                Agrees, Exists, Row, Running
<1>. QED
  BY <1>1, <1>2

(* The inductive invariant holds in every state. *)
LEMMA Invariance == Spec => []IInv
  BY InitInv, InvStep, PTL DEF Spec

(* Status, approval and dates of every campaign agree in every state, for  *)
(* any number of overlapping edits, reviews, transitions and syncs.        *)
THEOREM LifecycleAgreesHolds == Spec => []LifecycleAgrees
<1>1. IInv => LifecycleAgrees
  BY DEF IInv, LifecycleAgrees, Agrees
<1>. QED
  BY <1>1, Invariance, PTL

--------------------------------------------------------------------------------
(* The endpoints implement the board. *)

(* The stage of a row. *)
RowStage(row) ==
  IF row = NoRow THEN "absent"
  ELSE CASE row.approval = "PENDING" -> "pending"
         [] row.approval = "REJECTED" -> "rejected"
         [] Open(row) -> "promotion"
         [] OTHER -> IF row.status = "IN_PROGRESS" THEN "running" ELSE "finished"

(* The stage of a campaign is that of its row, before and after a step. *)
LEMMA StageRows ==
  \A c \in Campaigns : /\ StageOf(c) = RowStage(campaign[c])
                       /\ StageOf(c)' = RowStage(campaign'[c])
  BY DEF StageOf, RowStage, Exists

(* Approval and status fix the stage. *)
LEMMA StageCases ==
  ASSUME NEW row \in CampaignRows
  PROVE  /\ row.approval = "PENDING" => RowStage(row) = "pending"
         /\ row.approval = "REJECTED" => RowStage(row) = "rejected"
         /\ row.approval = "APPROVED" /\ row.status = "PROMOTION" => RowStage(row) = "promotion"
         /\ row.approval = "APPROVED" /\ row.status = "IN_PROGRESS" => RowStage(row) = "running"
         /\ row.approval = "APPROVED" /\ row.status = "FINISHED" => RowStage(row) = "finished"
<1>1. row # NoRow
  BY RowTypes
<1>. QED
  BY <1>1 DEF RowStage, Open

(* A row, or none, has a stage of the board. *)
LEMMA StageTypes ==
  ASSUME NEW row \in CampaignRows \cup {NoRow}
  PROVE  RowStage(row) \in Board!Stages
  BY DEF RowStage, Board!Stages

(* No row is the stage "absent". *)
LEMMA StageAbsent == RowStage(NoRow) = "absent"
  BY DEF RowStage

(* A step that writes neither rows nor participants nor notifications is   *)
(* invisible on the board.                                                 *)
LEMMA Quiet ==
  ASSUME UNCHANGED <<campaign, participants, inbox>>
  PROVE  UNCHANGED Board!board
<1>1. [c \in Campaigns |-> StageOf(c)]' = [c \in Campaigns |-> StageOf(c)]
  BY StageRows
<1>. QED
  BY <1>1 DEF Board!board

(* One campaign moves. *)
LEMMA Moves ==
  ASSUME IInv, NEW c \in Campaigns, NEW row \in CampaignRows,
         campaign' = [campaign EXCEPT ![c] = row],
         NEW to, to = RowStage(row), NEW from, RowStage(campaign[c]) \in from
  PROVE  Board!Move(c, from, to)
<1>1. campaign'[c] = row /\ \A d \in Campaigns \ {c} : campaign'[d] = campaign[d]
  BY DEF IInv, TypeOK
<1>2. \A d \in Campaigns : StageOf(d)' = IF d = c THEN to ELSE StageOf(d)
  BY <1>1, StageRows
<1>3. [d \in Campaigns |-> StageOf(d)]' = [[d \in Campaigns |-> StageOf(d)] EXCEPT ![c] = to]
  BY <1>2
<1>4. [d \in Campaigns |-> StageOf(d)][c] \in from
  BY StageRows
<1>. QED
  BY <1>3, <1>4 DEF Board!Move

(* The date-driven moves of a sync, or of an edit, age the board. *)
LEMMA Ages ==
  ASSUME IInv, campaign' \in [Campaigns -> CampaignRows \cup {NoRow}],
         UNCHANGED <<participants, inbox>>,
         \A c \in Campaigns : RowStage(campaign'[c]) \in Board!Later(RowStage(campaign[c]))
  PROVE  Board!Age
<1>1. \A c \in Campaigns : StageOf(c)' \in Board!Stages
  BY StageRows, StageTypes
<1>2. \A c \in Campaigns : StageOf(c)' \in Board!Later(StageOf(c))
  BY StageRows
<1>3. [c \in Campaigns |-> StageOf(c)]' \in [Campaigns -> Board!Stages]
  BY <1>1
<1>. QED
  BY <1>2, <1>3 DEF Board!Age

(* A stage may stay, and dates move one forward. *)
LEMMA LaterFacts ==
  /\ \A row \in CampaignRows \cup {NoRow} : RowStage(row) \in Board!Later(RowStage(row))
  /\ {"running", "finished"} \subseteq Board!Later("promotion")
  /\ "finished" \in Board!Later("running")
  BY DEF RowStage, Board!Later

(* Both UPDATEs of the sync. *)
LEMMA SyncBoard ==
  ASSUME IInv, IInv', NEW r \in Requests, SyncFinish(r) \/ SyncStart(r)
  PROVE  Board!Age
<1>1. UNCHANGED <<participants, inbox>> /\ campaign' \in [Campaigns -> CampaignRows \cup {NoRow}]
  BY DEF SyncFinish, SyncStart, IInv, TypeOK
<1>2. ASSUME NEW c \in Campaigns
      PROVE  RowStage(campaign'[c]) \in Board!Later(RowStage(campaign[c]))
  <2>1. campaign[c] \in CampaignRows \cup {NoRow} /\ campaign'[c] \in CampaignRows \cup {NoRow}
    BY <1>1 DEF IInv, TypeOK
  <2>2. CASE campaign'[c] = campaign[c]
    BY <2>1, <2>2, LaterFacts
  <2>3. CASE campaign'[c] # campaign[c]
    <3>1. PICK status \in {"IN_PROGRESS", "FINISHED"} :
            /\ Exists(c) /\ campaign[c].approval = "APPROVED"
            /\ campaign'[c] = [campaign[c] EXCEPT !.status = status]
            /\ campaign[c].status \in {"PROMOTION", "IN_PROGRESS"}
            /\ status = "IN_PROGRESS" => campaign[c].status = "PROMOTION"
      <4>1. CASE SyncFinish(r)
        BY <2>3, <4>1 DEF SyncFinish, Overdue
      <4>2. CASE SyncStart(r)
        BY <2>3, <4>2 DEF SyncStart, Due, Open
      <4>. QED
        BY <4>1, <4>2
    <3>2. campaign[c] \in CampaignRows
      BY <2>1, <3>1 DEF Exists
    <3>3. /\ campaign'[c].approval = "APPROVED" /\ campaign'[c].status = status
          /\ campaign'[c] \in CampaignRows
      BY <2>1, <3>1, <3>2 DEF CampaignRows, Statuses
    <3>. QED
      BY <3>1, <3>2, <3>3, StageCases, LaterFacts
  <2>. QED
    BY <2>2, <2>3
<1>. QED
  BY <1>1, <1>2, Ages

(* The commit of an approval. *)
LEMMA ApproveBoard ==
  ASSUME IInv, NEW c \in Campaigns, NEW i \in InputRows, i.op = "approve",
         NEW row \in CampaignRows, From(i.op, campaign[c]), To(i.op, row), Exists(c),
         campaign' = [campaign EXCEPT ![c] = row], participants' = participants,
         Board!Tell(c, Audience(i, row, participants[c]))
  PROVE  Board!Approve(c)
<1>1. campaign[c] \in CampaignRows
  BY DEF IInv, TypeOK, Exists
<1>2. RowStage(campaign[c]) = "pending" /\ RowStage(row) = "promotion"
  BY <1>1, StageCases DEF From, To, ReviewOps
<1>3. Board!Move(c, {"pending"}, "promotion")
  BY <1>2, Moves
<1>4. PICK author \in SUBSET Users : author = {row.creator} \ {i.user}
  BY RowTypes
<1>5. PICK invited \in SUBSET Users : invited = IF Open(row) THEN InviteRecipients(row) ELSE {}
  BY CampaignAssumption DEF InviteRecipients
<1>6. Board!AtMostOne(author)
  BY <1>4 DEF Board!AtMostOne
<1>7. Audience(i, row, participants[c])
        = Board!To("INVITE", invited) \cup Board!To("APPROVED", author)
  BY <1>4, <1>5 DEF Audience, Board!To
<1>8. Board!Tell(c, Board!To("INVITE", invited) \cup Board!To("APPROVED", author))
  BY <1>7
<1>9. \E us, who \in SUBSET Users :
        /\ Board!AtMostOne(who)
        /\ Board!Tell(c, Board!To("INVITE", us) \cup Board!To("APPROVED", who))
  BY <1>6, <1>8
<1>. QED
  BY <1>3, <1>9, Zenon DEF Board!Approve

(* The commit of a rejection. *)
LEMMA RejectBoard ==
  ASSUME IInv, NEW c \in Campaigns, NEW i \in InputRows, i.op = "reject",
         NEW row \in CampaignRows, From(i.op, campaign[c]), To(i.op, row), Exists(c),
         campaign' = [campaign EXCEPT ![c] = row], participants' = participants,
         Board!Tell(c, Audience(i, row, participants[c]))
  PROVE  Board!Reject(c)
<1>1. campaign[c] \in CampaignRows
  BY DEF IInv, TypeOK, Exists
<1>2. RowStage(campaign[c]) = "pending" /\ RowStage(row) = "rejected"
  BY <1>1, StageCases DEF From, To, ReviewOps
<1>3. Board!Move(c, {"pending"}, "rejected")
  BY <1>2, Moves
<1>4. PICK author \in SUBSET Users : author = {row.creator} \ {i.user}
  BY RowTypes
<1>5. Board!AtMostOne(author)
  BY <1>4 DEF Board!AtMostOne
<1>6. Audience(i, row, participants[c]) = Board!To("REJECTED", author)
  BY <1>4 DEF Audience, Board!To
<1>7. Board!Tell(c, Board!To("REJECTED", author))
  BY <1>6
<1>8. \E who \in SUBSET Users :
        Board!AtMostOne(who) /\ Board!Tell(c, Board!To("REJECTED", who))
  BY <1>5, <1>7
<1>. QED
  BY <1>3, <1>8, Zenon DEF Board!Reject

(* The commit of an explicit start or finish tells those who are enrolled. *)
LEMMA TransitionBoard ==
  ASSUME IInv, NEW c \in Campaigns, NEW i \in InputRows, i.op \in TransitionOps,
         NEW row \in CampaignRows, From(i.op, campaign[c]), To(i.op, row), Exists(c),
         campaign' = [campaign EXCEPT ![c] = row], participants' = participants,
         Board!Tell(c, Audience(i, row, participants[c]))
  PROVE  Board!Start(c) \/ Board!Finish(c)
<1>1. campaign[c] \in CampaignRows
  BY DEF IInv, TypeOK, Exists
<1>2. CASE i.op = "start"
  <2>1. RowStage(campaign[c]) = "promotion" /\ RowStage(row) = "running"
    BY <1>1, <1>2, StageCases DEF From, To, Open
  <2>2. Board!Move(c, {"promotion"}, "running")
    BY <2>1, Moves
  <2>3. Audience(i, row, participants[c]) = Board!To("STARTED", participants[c])
    BY <1>2 DEF Audience, Board!To
  <2>4. Board!Tell(c, Board!To("STARTED", participants[c]))
    BY <2>3
  <2>. QED
    BY <2>2, <2>4 DEF Board!Start
<1>3. CASE i.op = "finish"
  <2>1. RowStage(campaign[c]) = "running" /\ RowStage(row) = "finished"
    BY <1>1, <1>3, StageCases DEF From, To
  <2>2. Board!Move(c, {"running"}, "finished")
    BY <2>1, Moves
  <2>3. Audience(i, row, participants[c]) = Board!To("FINISHED", participants[c])
    BY <1>3 DEF Audience, Board!To
  <2>4. Board!Tell(c, Board!To("FINISHED", participants[c]))
    BY <2>3
  <2>. QED
    BY <2>2, <2>4 DEF Board!Finish
<1>. QED
  BY <1>2, <1>3 DEF TransitionOps

(* An edit moves a campaign by its new dates and tells nobody. *)
LEMMA PatchBoard ==
  ASSUME IInv, NEW c \in Campaigns, NEW i \in InputRows, i.op = "patch",
         NEW row \in CampaignRows, From(i.op, campaign[c]), To(i.op, row), Exists(c),
         campaign' = [campaign EXCEPT ![c] = row], participants' = participants,
         inbox' = inbox
  PROVE  Board!Age
<1>1. campaign[c] \in CampaignRows /\ campaign \in [Campaigns -> CampaignRows \cup {NoRow}]
  BY DEF IInv, TypeOK, Exists
<1>2. RowStage(campaign[c]) = "promotion"
  BY <1>1, StageCases DEF From, Open
<1>3. RowStage(row) \in {"promotion", "running", "finished"}
  BY RowTypes, StageCases DEF To, Statuses
<1>4. ASSUME NEW d \in Campaigns
      PROVE  RowStage(campaign'[d]) \in Board!Later(RowStage(campaign[d]))
  <2>1. CASE d = c
    BY <1>1, <1>2, <1>3, <2>1, LaterFacts DEF Board!Later
  <2>2. CASE d # c
    BY <1>1, <2>2, LaterFacts
  <2>. QED
    BY <2>1, <2>2
<1>5. campaign' \in [Campaigns -> CampaignRows \cup {NoRow}]
  BY <1>1
<1>. QED
  BY <1>4, <1>5, Ages

(* A commit is a step of the board. *)
LEMMA CommitBoard ==
  ASSUME IInv, NEW r \in Requests, Commit(r)
  PROVE  Board!Next
<1>1. pc[r] = "commit"
  BY DEF Commit
<1>2. PICK i \in InputRows : i = input[r]
  BY <1>1, RequestTypes
<1>3. PICK c \in Campaigns : c = i.campaign
  BY InputFields
<1>4. PICK row : row = snap[r].row
  OBVIOUS
<1>5. Running(r) /\ FlowAt(r) /\ i.op \in RowOps /\ CommitOK(r)
  BY <1>1, <1>2, RequestTypes DEF FlowAt, ControlAt
<1>6. /\ row \in CampaignRows /\ From(i.op, campaign[c]) /\ To(i.op, row)
      /\ snap[r].audience = Audience(i, row, participants[c])
  BY <1>1, <1>2, <1>3, <1>4, <1>5 DEF CommitOK, Row
<1>7. /\ campaign' = [campaign EXCEPT ![c] = row] /\ participants' = participants
      /\ inbox' = [inbox EXCEPT ![c] =
                     [n \in Sent |-> IF n \in snap[r].audience /\ inbox[c][n] < 2
                                     THEN inbox[c][n] + 1 ELSE inbox[c][n]]]
  BY <1>2, <1>3, <1>4 DEF Commit, IInv, TypeOK
<1>8. Exists(c)
  BY <1>2, <1>3, <1>5 DEF FlowAt, RowOps, NewOps, ReviewOps, TransitionOps
<1>9. Board!Tell(c, Audience(i, row, participants[c]))
  BY <1>6, <1>7 DEF Board!Tell, Board!Sent, Sent, IInv, TypeOK
<1>10. CASE i.op \in ReviewOps
  BY <1>6, <1>7, <1>8, <1>9, <1>10, ApproveBoard, RejectBoard DEF ReviewOps, Board!Next
<1>11. CASE i.op \in TransitionOps
  BY <1>6, <1>7, <1>8, <1>9, <1>11, TransitionBoard DEF Board!Next
<1>12. CASE i.op = "patch"
  <2>1. snap[r].audience = {}
    BY <1>6, <1>12 DEF Audience
  <2>2. inbox' = inbox
    <3>1. inbox \in [Campaigns -> [Sent -> 0 .. 2]]
      BY DEF IInv, TypeOK
    <3>2. [n \in Sent |-> IF n \in snap[r].audience /\ inbox[c][n] < 2
                          THEN inbox[c][n] + 1 ELSE inbox[c][n]] = inbox[c]
      BY <2>1, <3>1
    <3>. QED
      BY <1>7, <3>1, <3>2
  <2>. QED
    BY <1>6, <1>7, <1>8, <1>12, <2>2, PatchBoard DEF Board!Next
<1>. QED
  BY <1>5, <1>10, <1>11, <1>12 DEF RowOps

(* Nobody is enrolled in a campaign before it exists: a campaign is never  *)
(* deleted, and joining one takes a view that found it.                    *)
LEMMA EmptyStep ==
  ASSUME IInv, IInv', EmptyOK, [Next]_vars
  PROVE  EmptyOK'
<1>1. ASSUME NEW c \in Campaigns, ~Exists(c)' PROVE participants'[c] = {}
  <2>1. CASE UNCHANGED <<campaign, participants>>
    BY <1>1, <2>1 DEF EmptyOK, Exists
  <2>2. ASSUME NEW r \in Requests, SyncFinish(r) \/ SyncStart(r)
        PROVE  participants'[c] = {}
    <3>1. Board!Age
      BY <2>2, SyncBoard
    <3>2. StageOf(c)' = "absent" /\ StageOf(c)' \in Board!Later(StageOf(c))
      BY <1>1, <3>1 DEF StageOf, Board!Age
    <3>3. ~Exists(c)
      BY <3>2 DEF StageOf, Board!Later
    <3>. QED
      BY <2>2, <3>3 DEF EmptyOK, SyncFinish, SyncStart
  <2>3. ASSUME NEW r \in Requests, Commit(r) PROVE participants'[c] = {}
    <3>1. Running(r) /\ CommitOK(r)
      BY <2>3, RequestTypes DEF Commit
    <3>2. snap[r].row # NoRow
      BY <2>3, <3>1, RowTypes DEF CommitOK, Commit
    <3>3. ~Exists(c) /\ participants' = participants
      BY <1>1, <2>3, <3>2 DEF Commit, Exists, IInv, TypeOK
    <3>. QED
      BY <3>3 DEF EmptyOK
  <2>4. ASSUME NEW r \in Requests, InsertCampaign(r) PROVE participants'[c] = {}
    <3>1. PICK i \in InputRows : i = input[r]
      BY <2>4, RequestTypes DEF InsertCampaign
    <3>2. PICK d \in Campaigns : d = i.campaign
      BY InputFields
    <3>3. NewRow(i) \in CampaignRows /\ campaign' = [campaign EXCEPT ![d] = NewRow(i)]
      BY <2>4, <3>1, <3>2, InsertFacts
    <3>4. c # d /\ ~Exists(c)
      BY <1>1, <3>3, RowTypes DEF Exists, IInv, TypeOK
    <3>. QED
      BY <2>4, <3>1, <3>2, <3>4 DEF InsertCampaign, EmptyOK, IInv, TypeOK
  <2>5. ASSUME NEW r \in Requests, InsertParticipant(r) PROVE participants'[c] = {}
    <3>1. Running(r) /\ FlowAt(r)
      BY <2>5, RequestTypes DEF InsertParticipant
    <3>2. Exists(input[r].campaign)
      BY <2>5, <3>1 DEF FlowAt, InsertParticipant, NewOps
    <3>. QED
      BY <1>1, <2>5, <3>2 DEF InsertParticipant, EmptyOK, Exists, IInv, TypeOK
  <2>6. CASE UNCHANGED vars \/ Tick \/ Dissolve
    BY <2>1, <2>6 DEF vars, tables, Tick, Dissolve
  <2>7. ASSUME NEW r \in Requests,
               Begin(r) \/ View(r) \/ LockRow(r) \/ Save(r) \/ InsertMission(r) \/ Abort(r)
        PROVE  participants'[c] = {}
    BY <2>1, <2>7 DEF Begin, View, LockRow, Save, InsertMission, Abort, tables
  <2>. QED
    BY <2>2, <2>3, <2>4, <2>5, <2>6, <2>7 DEF Next, Step
<1>. QED
  BY <1>1 DEF EmptyOK

(* So it holds in every state. *)
LEMMA EmptyInv == Spec => []EmptyOK
<1>1. Init => EmptyOK
  BY DEF Init, EmptyOK
<1>. QED
  BY <1>1, EmptyStep, Invariance, PTL DEF Spec

(* A new campaign is a step of the board. *)
LEMMA InsertBoard ==
  ASSUME IInv, EmptyOK, NEW r \in Requests, InsertCampaign(r)
  PROVE  Board!Next
<1>1. PICK i \in InputRows : i = input[r]
  BY RequestTypes DEF InsertCampaign
<1>2. PICK c \in Campaigns : c = i.campaign
  BY InputFields
<1>3. PICK row : row = NewRow(i)
  OBVIOUS
<1>4. PICK us : us = IF i.scope = "PRIVATE" /\ alive /\ i.user = Leader THEN {i.user} ELSE {}
  OBVIOUS
<1>5. /\ participants' = [participants EXCEPT ![c] = us]
      /\ inbox' = IF Open(row)
                  THEN [inbox EXCEPT ![c] = Notified(inbox[c], "INVITE", InviteRecipients(row))]
                  ELSE inbox
  BY <1>1, <1>2, <1>3, <1>4 DEF InsertCampaign, IInv, TypeOK
<1>6. us \in SUBSET Users /\ Board!AtMostOne(us)
  BY <1>4, InputFields DEF Board!AtMostOne
<1>7. /\ i.op \in NewOps /\ ~Exists(c) /\ row \in CampaignRows
      /\ i.op = "propose" => row.approval = "PENDING" /\ i.scope = "GLOBAL"
      /\ i.op = "create" => row.approval = "APPROVED"
      /\ campaign' = [campaign EXCEPT ![c] = row]
  BY <1>1, <1>2, <1>3, InsertFacts
<1>8. RowStage(campaign[c]) = "absent"
  BY <1>7, StageAbsent DEF Exists
<1>9. CASE i.op = "propose"
  <2>1. RowStage(row) = "pending"
    BY <1>7, <1>9, StageCases
  <2>2. Board!Move(c, {"absent"}, "pending")
    BY <1>7, <1>8, <2>1, Moves
  <2>3. inbox' = inbox
    BY <1>5, <1>7, <1>9 DEF Open
  <2>4. participants' = participants
    <3>1. participants[c] = {}
      BY <1>7 DEF EmptyOK
    <3>. QED
      BY <1>4, <1>5, <1>7, <1>9, <3>1 DEF IInv, TypeOK
  <2>. QED
    BY <2>2, <2>3, <2>4 DEF Board!Propose, Board!Next
<1>10. CASE i.op = "create"
  <2>1. PICK invited \in SUBSET Users : invited = InviteRecipients(row)
    BY CampaignAssumption DEF InviteRecipients
  <2>2. CASE row.status = "PROMOTION"
    <3>1. Open(row) /\ RowStage(row) = "promotion"
      BY <1>7, <1>10, <2>2, StageCases DEF Open
    <3>2. Board!Move(c, {"absent"}, "promotion")
      BY <1>7, <1>8, <3>1, Moves
    <3>3. \A n \in Sent : n \in Board!To("INVITE", invited) <=> n.kind = "INVITE" /\ n.user \in invited
      BY DEF Board!To, Sent
    <3>4. Board!Tell(c, Board!To("INVITE", invited))
      BY <1>5, <2>1, <3>1, <3>3 DEF Board!Tell, Board!Sent, Sent, Notified, IInv, TypeOK
    <3>5. Board!Publish(c)
      BY <1>5, <1>6, <3>2, <3>4, Zenon DEF Board!Publish
    <3>. QED
      BY <3>5, Zenon DEF Board!Next
  <2>3. CASE row.status # "PROMOTION"
    <3>1. RowStage(row) \in {"running", "finished"}
      BY <1>7, <1>10, <2>3, RowTypes, StageCases DEF Statuses
    <3>2. PICK late \in {"running", "finished"} : Board!Move(c, {"absent"}, late)
      BY <1>7, <1>8, <3>1, Moves
    <3>3. inbox' = inbox
      BY <1>5, <2>3 DEF Open
    <3>4. Board!Publish(c)
      BY <1>5, <1>6, <3>2, <3>3, Zenon DEF Board!Publish
    <3>. QED
      BY <3>4, Zenon DEF Board!Next
  <2>. QED
    BY <2>2, <2>3
<1>. QED
  BY <1>7, <1>9, <1>10 DEF NewOps

(* An enrolment is a step of the board. *)
LEMMA EnrolBoard ==
  ASSUME IInv, NEW r \in Requests, InsertParticipant(r)
  PROVE  Board!Next
<1>1. pc[r] = "insert" /\ input[r].op = "join"
  BY DEF InsertParticipant
<1>2. PICK i \in InputRows : i = input[r]
  BY <1>1, RequestTypes
<1>3. PICK c \in Campaigns : c = i.campaign
  BY InputFields
<1>4. PICK u \in Users : u = i.user
  BY InputFields
<1>5. /\ participants' = [participants EXCEPT ![c] = participants[c] \cup {u}]
      /\ UNCHANGED <<campaign, inbox>>
  BY <1>2, <1>3, <1>4 DEF InsertParticipant, IInv, TypeOK
<1>6. Exists(c) /\ campaign[c].approval = "APPROVED"
  <2>1. FlowAt(r)
    BY <1>1, RequestTypes
  <2>. QED
    BY <1>1, <1>2, <1>3, <2>1 DEF FlowAt, NewOps
<1>7. campaign[c] \in CampaignRows
  BY <1>6 DEF Exists, IInv, TypeOK
<1>8. StageOf(c) \in Board!Published
  BY <1>6, <1>7, RowTypes, StageCases, StageRows DEF Statuses, Board!Published
<1>9. [d \in Campaigns |-> StageOf(d)]' = [d \in Campaigns |-> StageOf(d)]
  BY <1>5, StageRows
<1>. QED
  BY <1>5, <1>8, <1>9 DEF Board!Enrol, Board!Next

(* Every step of the endpoints is a step of the board, or none. *)
LEMMA BoardStep ==
  ASSUME IInv, IInv', EmptyOK, [Next]_vars
  PROVE  [Board!Next]_(Board!board)
<1>1. CASE Next
  <2>1. ASSUME NEW r \in Requests, Begin(r) \/ Step(r) \/ Abort(r)
        PROVE  [Board!Next]_(Board!board)
    <3>1. CASE SyncFinish(r) \/ SyncStart(r)
      BY <3>1, SyncBoard DEF Board!Next
    <3>2. CASE Commit(r) \/ InsertCampaign(r) \/ InsertParticipant(r)
      BY <3>2, CommitBoard, InsertBoard, EnrolBoard
    <3>3. CASE Begin(r) \/ View(r) \/ LockRow(r) \/ Save(r) \/ InsertMission(r) \/ Abort(r)
      <4>1. UNCHANGED <<campaign, participants, inbox>>
        BY <3>3 DEF Begin, View, LockRow, Save, InsertMission, Abort, tables
      <4>. QED
        BY <4>1, Quiet
    <3>. QED
      BY <2>1, <3>1, <3>2, <3>3 DEF Step
  <2>2. CASE Tick \/ Dissolve
    <3>1. UNCHANGED <<campaign, participants, inbox>>
      BY <2>2 DEF Tick, Dissolve, tables
    <3>. QED
      BY <3>1, Quiet
  <2>. QED
    BY <1>1, <2>1, <2>2 DEF Next
<1>2. CASE UNCHANGED vars
  <2>1. UNCHANGED <<campaign, participants, inbox>>
    BY <1>2 DEF vars, tables
  <2>. QED
    BY <2>1, Quiet
<1>. QED
  BY <1>1, <1>2

(* The endpoints start from the empty board. *)
LEMMA BoardInit ==
  ASSUME Init
  PROVE  Board!Init
<1>1. \A c \in Campaigns : StageOf(c) = "absent"
  BY DEF Init, StageOf, Exists
<1>. QED
  BY <1>1 DEF Init, Board!Init, Sent, Board!Sent

(* Every behaviour of the campaign endpoints, however the requests overlap *)
(* and abort, is a behaviour of the board in which a request is one step.  *)
THEOREM BoardRefinedHolds == Spec => BoardRefined
<1>1. Init => Board!Init
  BY BoardInit
<1>2. IInv /\ IInv' /\ EmptyOK /\ [Next]_vars => [Board!Next]_(Board!board)
  BY BoardStep
<1>. QED
  BY <1>1, <1>2, Invariance, EmptyInv, PTL DEF Spec, BoardRefined, Board!Spec

--------------------------------------------------------------------------------
(* Nobody is told the same thing twice. *)

(* The kinds that were not sent become fewer as a campaign ages. *)
LEMMA UnsentFacts ==
  /\ \A s \in Board!Stages : \A t \in Board!Later(s) : Unsent(t) \subseteq Unsent(s)
  /\ \A s \in Board!Stages : Unsent(s) \subseteq Kinds
  /\ Unsent("absent") = Kinds /\ Unsent("pending") = Kinds
  /\ Unsent("rejected") = Kinds \ {"REJECTED"}
  /\ Unsent("promotion") = {"REJECTED", "STARTED", "FINISHED"}
  /\ Unsent("running") = {"REJECTED", "FINISHED"}
  /\ Unsent("finished") = {"REJECTED"}
  BY DEF Unsent, Board!Stages, Board!Later, Kinds

(* A campaign moves to a stage at which what is sent with the move counts  *)
(* as sent and had not been sent before.                                   *)
LEMMA TellKeeps ==
  ASSUME IInv, InboxOK, NEW c \in Campaigns, NEW from, NEW to, NEW ns,
         Board!Move(c, {from}, to), Board!Tell(c, ns), Unsent(to) \subseteq Unsent(from),
         \A n \in Sent : n \in ns => n.kind \in Unsent(from) \ Unsent(to)
  PROVE  InboxOK'
<1>1. ASSUME NEW d \in Campaigns, NEW n \in Sent
      PROVE  inbox'[d][n] <= (IF n.kind \in Unsent(StageOf(d)') THEN 0 ELSE 1)
  <2>1. StageOf(c) = from /\ StageOf(d)' = IF d = c THEN to ELSE StageOf(d)
    BY DEF Board!Move
  <2>2. inbox \in [Campaigns -> [Sent -> 0 .. 2]]
    BY DEF IInv, TypeOK
  <2>3. inbox'[d][n] = IF d = c /\ n \in ns /\ inbox[d][n] < 2 THEN inbox[d][n] + 1 ELSE inbox[d][n]
    BY <2>2 DEF Board!Tell, Board!Sent, Sent
  <2>4. inbox[d][n] \in 0 .. 2 /\ inbox[d][n] <= (IF n.kind \in Unsent(StageOf(d)) THEN 0 ELSE 1)
    BY <2>2 DEF InboxOK
  <2>5. CASE d = c /\ n \in ns
    BY <2>1, <2>3, <2>4, <2>5
  <2>6. CASE ~(d = c /\ n \in ns)
    BY <2>1, <2>3, <2>4, <2>6
  <2>. QED
    BY <2>5, <2>6
<1>. QED
  BY <1>1 DEF InboxOK

(* A move that tells nobody. *)
LEMMA SilentKeeps ==
  ASSUME IInv, InboxOK, inbox' = inbox,
         \A c \in Campaigns : Unsent(StageOf(c)') \subseteq Unsent(StageOf(c))
  PROVE  InboxOK'
<1>1. ASSUME NEW c \in Campaigns, NEW n \in Sent
      PROVE  inbox'[c][n] <= (IF n.kind \in Unsent(StageOf(c)') THEN 0 ELSE 1)
  <2>1. inbox[c][n] \in 0 .. 2
    BY DEF IInv, TypeOK
  <2>. QED
    BY <2>1 DEF InboxOK
<1>. QED
  BY <1>1 DEF InboxOK

(* A silent move of one campaign. *)
LEMMA SilentMove ==
  ASSUME IInv, InboxOK, inbox' = inbox, NEW c \in Campaigns, NEW from, NEW to,
         Board!Move(c, {from}, to), Unsent(to) \subseteq Unsent(from)
  PROVE  InboxOK'
<1>1. \A d \in Campaigns : StageOf(d)' = IF d = c THEN to ELSE StageOf(d)
  BY DEF Board!Move
<1>2. StageOf(c) = from
  BY DEF Board!Move
<1>. QED
  BY <1>1, <1>2, SilentKeeps

(* Every step of the board keeps the account of what was sent. *)
LEMMA InboxStep ==
  ASSUME IInv, InboxOK, [Board!Next]_(Board!board)
  PROVE  InboxOK'
<1>1. \A c \in Campaigns : StageOf(c) \in Board!Stages
  BY StageRows, StageTypes DEF IInv, TypeOK
<1>2. CASE UNCHANGED Board!board
  <2>1. [c \in Campaigns |-> StageOf(c)]' = [c \in Campaigns |-> StageOf(c)] /\ inbox' = inbox
    BY <1>2 DEF Board!board
  <2>2. \A c \in Campaigns : StageOf(c)' = StageOf(c)
    BY <2>1
  <2>. QED
    BY <2>1, <2>2, SilentKeeps
<1>3. CASE Board!Age
  <2>1. inbox' = inbox /\ \A c \in Campaigns : StageOf(c)' \in Board!Later(StageOf(c))
    BY <1>3 DEF Board!Age
  <2>. QED
    BY <1>1, <2>1, UnsentFacts, SilentKeeps
<1>4. ASSUME NEW c \in Campaigns, Board!Publish(c) PROVE InboxOK'
  <2>1. CASE \E us \in SUBSET Users :
               Board!Move(c, {"absent"}, "promotion") /\ Board!Tell(c, Board!To("INVITE", us))
    <3>1. PICK us \in SUBSET Users :
            Board!Move(c, {"absent"}, "promotion") /\ Board!Tell(c, Board!To("INVITE", us))
      BY <2>1
    <3>2. \A n \in Sent : n \in Board!To("INVITE", us) => n.kind = "INVITE"
      BY DEF Board!To
    <3>3. \A n \in Sent : n \in Board!To("INVITE", us)
             => n.kind \in Unsent("absent") \ Unsent("promotion")
      BY <3>2, UnsentFacts DEF Kinds
    <3>4. Unsent("promotion") \subseteq Unsent("absent")
      BY UnsentFacts DEF Kinds
    <3>. QED
      BY <3>1, <3>3, <3>4, TellKeeps
  <2>2. CASE \E late \in {"running", "finished"} :
               Board!Move(c, {"absent"}, late) /\ inbox' = inbox
    <3>1. \A late \in {"running", "finished"} : Unsent(late) \subseteq Unsent("absent")
      BY UnsentFacts DEF Kinds
    <3>. QED
      BY <2>2, <3>1, SilentMove
  <2>. QED
    BY <1>4, <2>1, <2>2 DEF Board!Publish
<1>5. ASSUME NEW c \in Campaigns, Board!Propose(c) PROVE InboxOK'
  BY <1>5, UnsentFacts, SilentMove DEF Board!Propose
<1>6. ASSUME NEW c \in Campaigns, Board!Approve(c) PROVE InboxOK'
  <2>1. PICK us, who \in SUBSET Users :
          Board!Tell(c, Board!To("INVITE", us) \cup Board!To("APPROVED", who))
    BY <1>6 DEF Board!Approve
  <2>2. \A n \in Sent : n \in Board!To("INVITE", us) \cup Board!To("APPROVED", who)
           => n.kind \in {"INVITE", "APPROVED"}
    BY DEF Board!To
  <2>3. \A n \in Sent : n \in Board!To("INVITE", us) \cup Board!To("APPROVED", who)
           => n.kind \in Unsent("pending") \ Unsent("promotion")
    BY <2>2, UnsentFacts DEF Kinds
  <2>4. Unsent("promotion") \subseteq Unsent("pending")
    BY UnsentFacts DEF Kinds
  <2>. QED
    BY <1>6, <2>1, <2>3, <2>4, TellKeeps DEF Board!Approve
<1>7. ASSUME NEW c \in Campaigns, Board!Reject(c) PROVE InboxOK'
  <2>1. PICK who \in SUBSET Users : Board!Tell(c, Board!To("REJECTED", who))
    BY <1>7 DEF Board!Reject
  <2>2. \A n \in Sent : n \in Board!To("REJECTED", who) => n.kind = "REJECTED"
    BY DEF Board!To
  <2>3. \A n \in Sent : n \in Board!To("REJECTED", who)
           => n.kind \in Unsent("pending") \ Unsent("rejected")
    BY <2>2, UnsentFacts DEF Kinds
  <2>4. Unsent("rejected") \subseteq Unsent("pending")
    BY UnsentFacts
  <2>. QED
    BY <1>7, <2>1, <2>3, <2>4, TellKeeps DEF Board!Reject
<1>8. ASSUME NEW c \in Campaigns, Board!Start(c) PROVE InboxOK'
  <2>1. \A n \in Sent : n \in Board!To("STARTED", participants[c]) => n.kind = "STARTED"
    BY DEF Board!To
  <2>2. \A n \in Sent : n \in Board!To("STARTED", participants[c])
           => n.kind \in Unsent("promotion") \ Unsent("running")
    BY <2>1, UnsentFacts
  <2>3. Unsent("running") \subseteq Unsent("promotion")
    BY UnsentFacts
  <2>. QED
    BY <1>8, <2>2, <2>3, TellKeeps DEF Board!Start
<1>9. ASSUME NEW c \in Campaigns, Board!Finish(c) PROVE InboxOK'
  <2>1. \A n \in Sent : n \in Board!To("FINISHED", participants[c]) => n.kind = "FINISHED"
    BY DEF Board!To
  <2>2. \A n \in Sent : n \in Board!To("FINISHED", participants[c])
           => n.kind \in Unsent("running") \ Unsent("finished")
    BY <2>1, UnsentFacts
  <2>3. Unsent("finished") \subseteq Unsent("running")
    BY UnsentFacts
  <2>. QED
    BY <1>9, <2>2, <2>3, TellKeeps DEF Board!Finish
<1>10. ASSUME NEW c \in Campaigns, Board!Enrol(c) PROVE InboxOK'
  <2>1. [d \in Campaigns |-> StageOf(d)]' = [d \in Campaigns |-> StageOf(d)] /\ inbox' = inbox
    BY <1>10 DEF Board!Enrol
  <2>2. \A d \in Campaigns : StageOf(d)' = StageOf(d)
    BY <2>1
  <2>. QED
    BY <2>1, <2>2, SilentKeeps
<1>. QED
  BY <1>2, <1>3, <1>4, <1>5, <1>6, <1>7, <1>8, <1>9, <1>10 DEF Board!Next

(* However reviews, starts, finishes and syncs overlap, nobody is notified *)
(* twice of one event of a campaign and no author hears both verdicts.     *)
THEOREM NoticedOnceHolds == Spec => []NoticedOnce
<1>1. Init => InboxOK
  BY DEF Init, InboxOK
<1>2. IInv /\ IInv' /\ EmptyOK /\ InboxOK /\ [Next]_vars => InboxOK'
  BY BoardStep, InboxStep
<1>3. IInv /\ InboxOK => NoticedOnce
  <2>. SUFFICES ASSUME IInv, InboxOK, NEW c \in Campaigns
                PROVE  /\ \A n \in Sent : inbox[c][n] <= 1
                       /\ \A u \in Users : \/ inbox[c][[kind |-> "APPROVED", user |-> u]] = 0
                                           \/ inbox[c][[kind |-> "REJECTED", user |-> u]] = 0
    BY DEF NoticedOnce
  <2>1. \A n \in Sent : inbox[c][n] \in 0 .. 2
    BY DEF IInv, TypeOK
  <2>2. \A n \in Sent : inbox[c][n] <= (IF n.kind \in Unsent(StageOf(c)) THEN 0 ELSE 1)
    BY DEF InboxOK
  <2>3. "APPROVED" \in Unsent(StageOf(c)) \/ "REJECTED" \in Unsent(StageOf(c))
    <3>1. StageOf(c) \in Board!Stages
      BY StageRows, StageTypes DEF IInv, TypeOK
    <3>. QED
      BY <3>1, UnsentFacts DEF Board!Stages, Kinds
  <2>4. ASSUME NEW u \in Users
        PROVE  /\ [kind |-> "APPROVED", user |-> u] \in Sent
               /\ [kind |-> "REJECTED", user |-> u] \in Sent
    BY DEF Sent, Kinds
  <2>. QED
    BY <2>1, <2>2, <2>3, <2>4
<1>. QED
  BY <1>1, <1>2, <1>3, Invariance, EmptyInv, PTL DEF Spec

================================================================================
