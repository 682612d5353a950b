------------------------------ MODULE AfterCommit ------------------------------
(***************************************************************************)
(* What a PostgreSQL rollback does not undo: the image files of profiles,  *)
(* clans and action logs, and the live notifications of one user.          *)
(* (core/image_storage.py, actions/evidence.py, accounts/services.py,      *)
(* clans/services.py, actions/views.py, and notifications/services.py,     *)
(* views.py and consumers.py)                                              *)
(*                                                                         *)
(* A request writes a new file inside its transaction and leaves deletions *)
(* and pushes to transaction.on_commit: callbacks that run one by one after *)
(* the commit, and are dropped when the worker dies, when the answer to    *)
(* COMMIT is lost, or when an earlier callback raises.  A consumer handles *)
(* one message at a time, so what its group receives while it authenticates *)
(* waits in its mailbox.                                                   *)
(***************************************************************************)
EXTENDS Naturals, Sequences, SequencesExt

CONSTANTS
  Slots,      \* action logs of the user
  Notes,      \* notification rows of the user
  Keys,       \* object keys, a fresh uuid each
  Sockets,    \* WebSocket connections of the user
  Requests,   \* request slots
  Workloads,  \* sets of operations, logs and object keys a behaviour may use
  Capacity,   \* events a channel holds, 100 in InMemoryChannelLayer
  None

Owners == {"profile", "clan"}
AuditOps == {"approve", "reject"}
ClientOps == {"socket", "inbox"}   \* what an open page does besides
AllOps == Owners \cup AuditOps \cup ClientOps \cup
            {"link", "submit", "deactivate", "patch", "login"}

ASSUME AfterCommitAssumption ==
  /\ \A w \in Workloads : w \subseteq AllOps \cup Slots \cup Keys
  /\ None \notin Keys \cup Notes \cup Requests
  /\ IsFiniteSet(Slots) /\ Slots \cap {"user", "profile", "clan"} = {}
  /\ Capacity \in Nat \ {0}

VARIABLES
  active,   \* User.is_active
  avatar,   \* avatar_object_key of the profile and of the clan the user leads
  logs,     \* ActionLog: status and evidence_object_key
  notes,    \* Notification rows
  files,    \* objects in the bucket or under MEDIA_ROOT
  state, base, got, mail,   \* NotificationConsumer, and what its client knows
  lost,     \* history: notifications whose push missed a socket
  late,     \* history: sockets that joined after the account was deactivated
  unclosed, \* history: sockets of the group whose closing a fault dropped
  doubt,    \* history: evidence deleted although its COMMIT took effect
  raced,    \* history: evidence of a log audited while a deactivation waited
  orphans,  \* history: object keys whose deletion a fault dropped
  patched,  \* history: notifications a PATCH wrote whole
  used,     \* history: object keys and notifications handed out
  mix,      \* the workload of this behaviour
  pc, input, snap, held, after  \* requests, their row locks and callbacks

rows == <<active, avatar, logs, notes>>
sockets == <<state, base, got, mail, lost, late, unclosed>>
faults == <<doubt, raced, orphans, patched>>
request == <<pc, input, snap, held, after>>
vars == <<rows, files, sockets, faults, used, mix, request>>

--------------------------------------------------------------------------------
(* Rows, locks and requests. *)

(* A notification is hidden by its deleted_at; the default manager returns  *)
(* the others.                                                             *)
NoteStates == {"none", "unread", "read", "hidden"}
Alive(n) == notes[n] \in {"unread", "read"}
Unread == {n \in Notes : notes[n] = "unread"}

NoLog == [status |-> "NONE", key |-> None]
LogKeys == {logs[s].key : s \in Slots} \ {None}
NoInput == [op |-> None]
Blank == [key |-> None, keys |-> {}, doomed |-> {}, stale |-> FALSE]

OwnerRow(op) == IF op = "clan" THEN {"clan"} ELSE {"user", "profile"}
Free(r, locks) == \A q \in Requests \ {r} : held[q] \cap locks = {}

Idle == \A r \in Requests : pc[r] = "idle"
Busy(r) == pc[r] \notin {"idle", "after"}

Goto(r, label) ==
  /\ pc' = [pc EXCEPT ![r] = label]
  /\ UNCHANGED <<mix, input, after>>

Remember(r, values) == snap' = [snap EXCEPT ![r] = values]

Leave(r) ==
  /\ pc' = [pc EXCEPT ![r] = "idle"]
  /\ input' = [input EXCEPT ![r] = NoInput]
  /\ held' = [held EXCEPT ![r] = {}]
  /\ after' = [after EXCEPT ![r] = <<>>]
  /\ UNCHANGED mix

End(r) == Leave(r) /\ Remember(r, Blank)

Refuse(r) == End(r) /\ UNCHANGED <<rows, files, sockets, faults, used>>

First(op) == CASE op \in AuditOps -> "log"
               [] op \in {"login", "patch"} -> op
               [] OTHER -> "lock"

(* A file of at most 5 MB with the signature of its declared image type, or *)
(* another one; None removes the photo.                                     *)
Uploads == {"image", "other"}
validate_image(upload) == upload = "image"
validate_evidence_upload(upload) == upload = "image"

AvatarInputs(op) == [op : {op}, upload : Uploads \cup {None}]

(* A submission brings its image, or names an object already stored: one    *)
(* that a log names, or (None) one elsewhere, which this code never deletes. *)
EvidenceInputs ==
  [op : {"submit"}, slot : Slots \cap mix, named : {None},
   upload : {u \in Uploads : validate_evidence_upload(u)}]
    \cup [op : {"submit"}, slot : Slots \cap mix, named : LogKeys \cup {None},
          upload : {None}]
PatchInputs == [op : {"patch"}, note : {n \in Notes : Alive(n)},
                to : {"unread", "read"}]

Inputs(op) ==
  CASE op \in Owners -> AvatarInputs(op)
    [] op = "submit" -> EvidenceInputs
    [] op = "patch" -> PatchInputs
    [] op \in AuditOps -> [op : {op}, slot : Slots \cap mix]
    [] OTHER -> [op : {op}]

(* Authentication looks at is_active once, the serializers at the body; an  *)
(* administrator audits.                                                    *)
Begin(r) ==
  /\ pc[r] = "idle"
  /\ \E op \in (mix \cap AllOps) \ ClientOps : \E i \in Inputs(op) :
       /\ op \notin AuditOps \cup {"login"} => active
       /\ pc' = [pc EXCEPT ![r] = First(op)]
       /\ input' = [input EXCEPT ![r] = i]
  /\ UNCHANGED <<rows, files, sockets, faults, used, mix, snap, held, after>>

--------------------------------------------------------------------------------
(* Uploads: set_profile_avatar, set_clan_avatar and the evidence of a log.  *)

(* ensure_account_writable, the leader check and _create_action_log's       *)
(* early returns; deactivate_account removes the notifications it sees.     *)
ensure_account_writable(r, requested) ==
  active /\ (requested => ~snap[r].stale)

LockRows(r) ==
  LET op == input[r].op
      locks == IF op \in Owners THEN OwnerRow(op) ELSE {"user"}
  IN  /\ pc[r] = "lock" /\ op # "link"
      /\ Free(r, locks)
      /\ IF /\ op # "clan" /\ op # "deactivate" =>
                 ensure_account_writable(r, op = "submit")
            /\ op = "submit" => logs[input[r].slot] = NoLog
         THEN /\ held' = [held EXCEPT ![r] = locks]
              /\ Goto(r, CASE op = "deactivate" -> "collect"
                           [] op # "deactivate" /\ input[r].upload = None -> "commit"
                           [] OTHER -> "store")
              /\ Remember(r, [snap[r] EXCEPT !.doomed =
                   IF op = "deactivate" THEN {n \in Notes : notes[n] # "none"}
                   ELSE {}])
              /\ UNCHANGED <<rows, files, sockets, faults, used>>
         ELSE Refuse(r)

(* A pasted link replaces the photo; only the user row is locked. *)
update_profile(r) ==
  /\ pc[r] = "lock" /\ input[r].op = "link"
  /\ Free(r, {"user"})
  /\ IF ensure_account_writable(r, FALSE)
     THEN /\ held' = [held EXCEPT ![r] = {"user"}]
          /\ Goto(r, "commit")
          /\ UNCHANGED <<rows, files, sockets, faults, used, snap>>
     ELSE Refuse(r)

NewKeys ==
  LET fresh == (Keys \cap mix) \ used IN {k \in fresh : k = CHOOSE x \in fresh : TRUE}

(* Mutant: the photo being replaced is deleted at once. *)
StoredReplacing(r, k) ==
  LET old == IF input[r].op \in Owners THEN {avatar[input[r].op]} ELSE {} IN
  /\ files' = (files \ old) \cup {k}
  /\ used' = used \cup {k}
  /\ Remember(r, [snap[r] EXCEPT !.key = k])
  /\ Goto(r, "commit")
  /\ UNCHANGED <<rows, sockets, faults, held>>

(* The file exists before the row that names it. *)
Stored(r, k) ==
  /\ files' = files \cup {k}
  /\ used' = used \cup {k}
  /\ Remember(r, [snap[r] EXCEPT !.key = k])
  /\ Goto(r, "commit")
  /\ UNCHANGED <<rows, sockets, faults, held>>

save_image(r) ==
  /\ pc[r] = "store" /\ input[r].op \in Owners
  /\ IF validate_image(input[r].upload)
     THEN \E k \in NewKeys : Stored(r, k)
     ELSE Refuse(r)

save_action_evidence(r) ==
  /\ pc[r] = "store" /\ input[r].op = "submit"
  /\ \E k \in NewKeys : Stored(r, k)

(* The upload raises: rollback; a part of the object may stay behind. *)
UploadFails(r) ==
  /\ pc[r] = "store"
  /\ \E left \in {{}} \cup {{k} : k \in NewKeys} :
       /\ files' = files \cup left
       /\ used' = used \cup left
       /\ orphans' = orphans \cup left
  /\ End(r)
  /\ UNCHANGED <<rows, sockets, doubt, raced, patched>>

--------------------------------------------------------------------------------
(* Audits lock a log of an auditable status; deactivate_account reads the   *)
(* evidence of the pending logs and then waits for them to reject them.     *)

Auditable(op) == IF op = "approve" THEN {"PENDING"} ELSE {"PENDING", "APPROVED"}

LockLog(r) ==
  LET s == input[r].slot IN
  /\ pc[r] = "log"
  /\ Free(r, {s})
  /\ IF logs[s].status \in Auditable(input[r].op)
     THEN /\ held' = [held EXCEPT ![r] = {s}]
          /\ Goto(r, "commit")
          /\ UNCHANGED <<rows, files, sockets, faults, used, snap>>
     ELSE Refuse(r)

Pending == {s \in Slots : logs[s].status = "PENDING"}

CollectEvidence(r) ==
  /\ pc[r] = "collect"
  /\ Remember(r, [snap[r] EXCEPT !.keys = {logs[s].key : s \in Pending} \ {None}])
  /\ Goto(r, "reject")
  /\ UNCHANGED <<rows, files, sockets, faults, used, held>>

RejectPending(r) ==
  /\ pc[r] = "reject"
  /\ Free(r, Pending)
  /\ held' = [held EXCEPT ![r] = @ \cup Pending]
  /\ Goto(r, "commit")
  /\ UNCHANGED <<rows, files, sockets, faults, used, snap>>

--------------------------------------------------------------------------------
(* The commit: the rows change, and the callbacks are due. *)

(* The object a submission's log names. *)
EvidenceKey(r) == IF input[r].upload = None THEN input[r].named ELSE snap[r].key

(* The rows a request changes; an audit's notification gets the key n. *)
Apply(r, n) ==
  LET i == input[r]  dropped == Slots \cap held[r] IN
  /\ active' = (active /\ i.op # "deactivate")
  /\ avatar' = CASE i.op \in Owners -> [avatar EXCEPT ![i.op] = snap[r].key]
                 [] i.op \in {"link", "deactivate"} ->
                      [avatar EXCEPT !["profile"] = None]
                 [] OTHER -> avatar
  /\ logs' = CASE i.op = "submit" ->
                    [logs EXCEPT ![i.slot] = [status |-> "PENDING", key |-> EvidenceKey(r)]]
               [] i.op = "approve" -> [logs EXCEPT ![i.slot].status = "APPROVED"]
               [] i.op = "reject" -> [logs EXCEPT ![i.slot].status = "REJECTED"]
               [] i.op = "deactivate" ->
                    [s \in Slots |-> IF s \in dropped
                                     THEN [logs[s] EXCEPT !.status = "DROPPED"]
                                     ELSE logs[s]]
               [] OTHER -> logs
  /\ notes' = [m \in Notes |-> CASE m = n -> "unread"
                                 [] m \in snap[r].doomed -> "none"
                                 [] OTHER -> notes[m]]
  /\ UNCHANGED patched
  /\ used' = used \cup ({n} \ {None})
  /\ raced' = raced \cup (snap[r].keys \ {logs[s].key : s \in dropped})

NewNotes(op) ==
  IF op \notin AuditOps THEN {None}
  ELSE {n \in Notes \ used : n = CHOOSE m \in Notes \ used : TRUE}

(* Mutant: a removed or replaced photo is left in storage. *)
PreviousFileKept(k) == <<>>

PreviousFile(k) == IF k = None THEN <<>> ELSE << <<"file", k>> >>

(* Mutant: deactivation leaves the sockets to expire. *)
CallbacksNoClose(r, n) ==
  LET op == input[r].op IN
  CASE op \in Owners -> PreviousFile(avatar[op])
    [] op = "link" -> PreviousFile(avatar["profile"])
    [] op \in AuditOps -> << <<"push", n>> >>
    [] op = "deactivate" -> SetToSeq({"evidence"} \X snap[r].keys)
                              \o PreviousFile(avatar["profile"])
    [] OTHER -> <<>>

(* Mutant: a rejection stores its notification without notify(). *)
CallbacksSilentReject(r, n) ==
  LET op == input[r].op IN
  CASE op \in Owners -> PreviousFile(avatar[op])
    [] op = "link" -> PreviousFile(avatar["profile"])
    [] op = "approve" -> << <<"push", n>> >>
    [] op = "deactivate" -> SetToSeq({"evidence"} \X snap[r].keys)
                              \o PreviousFile(avatar["profile"])
                              \o << <<"close", None>> >>
    [] OTHER -> <<>>

(* transaction.on_commit, in the order of registration. *)
Callbacks(r, n) ==
  LET op == input[r].op IN
  CASE op \in Owners -> PreviousFile(avatar[op])
    [] op = "link" -> PreviousFile(avatar["profile"])
    [] op \in AuditOps -> << <<"push", n>> >>
    [] op = "deactivate" -> SetToSeq({"evidence"} \X snap[r].keys)
                              \o PreviousFile(avatar["profile"])
                              \o << <<"close", None>> >>
    [] OTHER -> <<>>

(* What the transaction still waits for: the profile row an audit credits,  *)
(* a deactivation resets and update_profile writes.                         *)
CanCommit(r) ==
  /\ pc[r] = "commit"
  /\ input[r].op \in AuditOps \cup {"deactivate", "link"} => Free(r, {"profile"})

(* A deactivation's progress_reset_at is later than the start of every      *)
(* request under way.                                                       *)
Outdate(r) ==
  snap' = [q \in Requests |->
             IF q = r THEN Blank
             ELSE IF input[r].op = "deactivate" /\ Busy(q)
             THEN [snap[q] EXCEPT !.stale = TRUE] ELSE snap[q]]

Commit(r) ==
  /\ CanCommit(r)
  /\ \E n \in NewNotes(input[r].op) :
       /\ Apply(r, n)
       /\ after' = [after EXCEPT ![r] = Callbacks(r, n)]
  /\ pc' = [pc EXCEPT ![r] = "after"]
  /\ held' = [held EXCEPT ![r] = {}]
  /\ Outdate(r)
  /\ UNCHANGED <<files, sockets, doubt, orphans, mix, input>>

(* A sign-in locks the user row and takes a deactivated account back. *)
Login(r) ==
  /\ pc[r] = "login"
  /\ Free(r, {"user"})
  /\ active' = TRUE
  /\ End(r)
  /\ UNCHANGED <<avatar, logs, notes, files, sockets, faults, used>>

--------------------------------------------------------------------------------
(* The user's inbox.  Writes wait for rows a deactivation has deleted and    *)
(* not yet committed.                                                        *)

Writable(ns) == \A q \in Requests : snap[q].doomed \cap ns = {}

(* PATCH loads the row with its authentication and saves all of it: a row    *)
(* hidden meanwhile is shown again, one deleted meanwhile inserted again.    *)
update_notification(r) ==
  LET n == input[r].note IN
  /\ pc[r] = "patch"
  /\ Writable({n})
  /\ notes' = [notes EXCEPT ![n] = input[r].to]
  /\ patched' = patched \cup {n}
  /\ End(r)
  /\ UNCHANGED <<active, avatar, logs, files, sockets, doubt, raced, orphans, used>>

Inbox(rowsOf) ==
  /\ "inbox" \in mix /\ active
  /\ Writable({n \in Notes : rowsOf[n] # notes[n]})
  /\ notes' = rowsOf
  /\ UNCHANGED <<active, avatar, logs, files, sockets, faults, used, mix, request>>

(* DELETE hides the row: only deleted_at is saved. *)
perform_destroy(n) == Alive(n) /\ Inbox([notes EXCEPT ![n] = "hidden"])

mark_all_read ==
  /\ Unread # {}
  /\ Inbox([n \in Notes |-> IF n \in Unread THEN "read" ELSE notes[n]])

--------------------------------------------------------------------------------
(* Callbacks.  The channel layer hands an event to the sockets of the group, *)
(* silently not to one whose queue is full, and to none when it fails.       *)

(* Mutant: the unread notifications are counted before the group is joined. *)
InGroupLate(s) == state[s] = "open"

InGroup(s) == state[s] \in {"joined", "counted", "open"}

Group == {s \in Sockets : InGroup(s)}
Room == {s \in Group : Len(mail[s]) < Capacity}

Mailed(S, event) ==
  [s \in Sockets |-> IF s \in S THEN Append(mail[s], event) ELSE mail[s]]

Missed(S, ns) ==
  [s \in Sockets |-> IF s \in S THEN lost[s] \cup ns ELSE lost[s]]

Running(r, kinds) == pc[r] = "after" /\ after[r] # <<>> /\ Head(after[r])[1] \in kinds

Popped(r) ==
  /\ after' = [after EXCEPT ![r] = Tail(@)]
  /\ UNCHANGED <<mix, pc, input, snap, held>>

DeleteFile(r) ==
  /\ Running(r, {"file", "evidence"})
  /\ files' = files \ {Head(after[r])[2]}
  /\ Popped(r)
  /\ UNCHANGED <<rows, sockets, faults, used>>

push_notification(r) ==
  LET n == Head(after[r])[2] IN
  /\ Running(r, {"push"})
  /\ \E heard \in {Room, {}} :
       /\ mail' = Mailed(heard, n)
       /\ lost' = Missed(Group \ heard, {n})
  /\ Popped(r)
  /\ UNCHANGED <<rows, files, state, base, got, late, unclosed, faults, used>>

close_user_sockets(r) ==
  /\ Running(r, {"close"})
  /\ mail' = Mailed(Room, None)
  /\ unclosed' = Group \ Room
  /\ Popped(r)
  /\ UNCHANGED <<rows, files, state, base, got, lost, late, faults, used>>

(* History: what a fault leaves undone when it drops these callbacks.       *)
LeaveUndone(entries, left) ==
  /\ orphans' = orphans \cup left \cup
       {k \in Keys : {<<"file", k>>, <<"evidence", k>>} \cap entries # {}}
  /\ unclosed' = IF <<"close", None>> \in entries THEN unclosed \cup Group ELSE unclosed
  /\ lost' = Missed(Sockets, {n \in Notes : <<"push", n>> \in entries})

(* A failed deletion of a photo and a failed event are logged; a failed     *)
(* deletion of evidence raises, and the rest of the callbacks is dropped.   *)
FailCallback(r) ==
  /\ Running(r, {"file", "evidence", "close"})
  /\ IF Head(after[r])[1] = "evidence"
     THEN LeaveUndone(Range(after[r]), {}) /\ End(r)
     ELSE LeaveUndone({Head(after[r])}, {}) /\ Popped(r)
  /\ UNCHANGED <<rows, files, state, base, got, mail, late, doubt, raced, patched, used>>

Answer(r) == pc[r] = "after" /\ after[r] = <<>> /\ Refuse(r)

--------------------------------------------------------------------------------
(* Faults of a request. *)

(* A statement fails: rollback, and the handler deletes the new file. *)
DbError(r) ==
  /\ Busy(r)
  /\ files' = files \ {snap[r].key}
  /\ End(r)
  /\ UNCHANGED <<rows, sockets, faults, used>>

(* The worker dies: rollback, no clean-up and no callbacks. *)
Crash(r) ==
  /\ pc[r] # "idle"
  /\ LeaveUndone(Range(after[r]), {snap[r].key} \ {None})
  /\ End(r)
  /\ UNCHANGED <<rows, files, state, base, got, mail, late, doubt, raced, patched, used>>

(* COMMIT takes effect but its answer is lost: an exception reaches the     *)
(* handler, which runs no callbacks, and post() deletes the evidence.       *)
LoseAnswer(r) ==
  LET evidence == IF input[r].op = "submit" THEN {snap[r].key} \ {None} ELSE {} IN
  /\ CanCommit(r)
  /\ \E n \in NewNotes(input[r].op) :
       /\ Apply(r, n)
       /\ LeaveUndone(Range(Callbacks(r, n)), {})
  /\ files' = files \ evidence
  /\ doubt' = doubt \cup evidence
  /\ Leave(r) /\ Outdate(r)
  /\ UNCHANGED <<state, base, got, mail, late>>

--------------------------------------------------------------------------------
(* NotificationConsumer *)

Fresh(s, label) ==
  /\ state' = [state EXCEPT ![s] = label]
  /\ base' = [base EXCEPT ![s] = {}]
  /\ got' = [got EXCEPT ![s] = {}]
  /\ mail' = [mail EXCEPT ![s] = <<>>]
  /\ lost' = [lost EXCEPT ![s] = {}]
  /\ late' = late \ {s}
  /\ unclosed' = unclosed \ {s}
  /\ UNCHANGED <<rows, files, faults, used, mix, request>>

Turn(s, label) ==
  /\ state' = [state EXCEPT ![s] = label]
  /\ UNCHANGED <<rows, files, got, mail, lost, unclosed, faults, used, mix, request>>

Connect(s) == "socket" \in mix /\ state[s] = "closed" /\ Fresh(s, "waiting")

(* The first frame: a valid token, or anything else. *)
Frames == {"token", "junk"}
resolve_user(frame) == frame = "token" /\ active

receive_json(s) ==
  /\ state[s] = "waiting"
  /\ \E frame \in Frames :
       IF resolve_user(frame) THEN Turn(s, "resolved") /\ UNCHANGED <<base, late>>
       ELSE Fresh(s, "closed")

(* group_add, then _unread_count, then auth.ok. *)
Join(s) ==
  /\ state[s] = "resolved"
  /\ Turn(s, "joined")
  /\ late' = IF active THEN late ELSE late \cup {s}
  /\ UNCHANGED base

Count(s) ==
  /\ state[s] = "joined"
  /\ Turn(s, "counted")
  /\ base' = [base EXCEPT ![s] = Unread]
  /\ UNCHANGED late

SendAuthOk(s) ==
  /\ state[s] = "counted"
  /\ Turn(s, "open")
  /\ UNCHANGED <<base, late>>

(* notification_created sends; account_deactivated closes. *)
Deliver(s) ==
  /\ state[s] = "open" /\ mail[s] # <<>>
  /\ IF Head(mail[s]) = None THEN Fresh(s, "closed")
     ELSE /\ got' = [got EXCEPT ![s] = @ \cup {Head(mail[s])}]
          /\ mail' = [mail EXCEPT ![s] = Tail(@)]
          /\ UNCHANGED <<rows, files, state, base, lost, late, unclosed, faults, used,
                         mix, request>>

(* The client leaves, or the timer of the authentication or the token ends. *)
disconnect(s) == state[s] # "closed" /\ Fresh(s, "closed")

close_after(s) == state[s] \in {"waiting", "open"} /\ Fresh(s, "closed")

--------------------------------------------------------------------------------
Init ==
  /\ active = TRUE
  /\ avatar = [o \in Owners |-> None]
  /\ logs = [s \in Slots |-> NoLog]
  /\ notes = [n \in Notes |-> "none"]
  /\ files = {}
  /\ state = [s \in Sockets |-> "closed"]
  /\ base = [s \in Sockets |-> {}]
  /\ got = [s \in Sockets |-> {}]
  /\ mail = [s \in Sockets |-> <<>>]
  /\ lost = [s \in Sockets |-> {}]
  /\ late = {} /\ unclosed = {}
  /\ doubt = {} /\ raced = {} /\ orphans = {} /\ patched = {}
  /\ used = {}
  /\ mix \in Workloads
  /\ pc = [r \in Requests |-> "idle"]
  /\ input = [r \in Requests |-> NoInput]
  /\ snap = [r \in Requests |-> Blank]
  /\ held = [r \in Requests |-> {}]
  /\ after = [r \in Requests |-> <<>>]

Callback(r) ==
  DeleteFile(r) \/ push_notification(r) \/ close_user_sockets(r) \/ FailCallback(r)

Step(r) ==
  \/ LockRows(r) \/ update_profile(r) \/ save_image(r) \/ save_action_evidence(r)
  \/ LockLog(r) \/ CollectEvidence(r) \/ RejectPending(r) \/ update_notification(r)
  \/ Commit(r) \/ Login(r) \/ Callback(r) \/ Answer(r)

Fault(r) == UploadFails(r) \/ DbError(r) \/ Crash(r) \/ LoseAnswer(r)

Consumer(s) ==
  Connect(s) \/ receive_json(s) \/ Join(s) \/ Count(s) \/ SendAuthOk(s) \/ Deliver(s)
    \/ disconnect(s) \/ close_after(s)

Next ==
  \/ \E r \in Requests : Begin(r) \/ Step(r) \/ Fault(r)
  \/ \E s \in Sockets : Consumer(s)
  \/ \E n \in Notes : perform_destroy(n)
  \/ mark_all_read

(* A worker runs its callbacks and the event loop serves every consumer. *)
Fairness ==
  /\ \A r \in Requests : WF_vars(Callback(r))
  /\ \A s \in Sockets : WF_vars(Deliver(s))

Spec == Init /\ [][Next]_vars /\ Fairness

--------------------------------------------------------------------------------
(* Properties. *)

(* Rows, files, sockets and callbacks have their types. *)
TypeOK ==
  /\ active \in BOOLEAN
  /\ avatar \in [Owners -> Keys \cup {None}]
  /\ logs \in [Slots -> [status : {"NONE", "PENDING", "APPROVED", "REJECTED", "DROPPED"},
                         key : Keys \cup {None}]]
  /\ notes \in [Notes -> NoteStates]
  /\ files \subseteq Keys /\ doubt \subseteq Keys /\ raced \subseteq Keys
  /\ state \in [Sockets -> {"closed", "waiting", "resolved", "joined", "counted", "open"}]
  /\ \A s \in Sockets : mail[s] \in Seq(Notes \cup {None})
  /\ \A r \in Requests : pc[r] \in {"idle", "after"} => held[r] = {}
  /\ \A r \in Requests : pc[r] # "after" => after[r] = <<>>

(* Evidence that a deactivation deletes with the pending log it rejects. *)
DroppedKeys == {logs[s].key : s \in {t \in Slots : logs[t].status = "DROPPED"}}

(* Whatever fails and whenever, a photo that is shown and the evidence of a  *)
(* pending or approved log are in storage.  Three exceptions are named: the  *)
(* evidence post() deletes after a COMMIT whose answer was lost, the         *)
(* evidence deactivate_account collected from a log that an administrator    *)
(* audited before it could be rejected, and an object that a log it did      *)
(* reject names as well.  An object stored elsewhere is not this storage's.  *)
ImagesKept ==
  /\ TypeOK
  /\ \A o \in Owners : avatar[o] # None => avatar[o] \in files
  /\ \A s \in Slots : logs[s].status \in {"PENDING", "APPROVED"} =>
       logs[s].key \in files \cup doubt \cup raced \cup DroppedKeys \cup {None}

(* Storage keeps nothing no row uses: replaced photos, the evidence of       *)
(* refused submissions and that of logs a deactivation rejected are gone     *)
(* once the requests have answered.  Excepted, file by file, are those whose *)
(* own deletion a fault dropped: the deletion failed, an evidence deletion   *)
(* before it raised, the worker died, or the answer to COMMIT was lost; and  *)
(* what an upload that raised left behind.                                   *)
NoLeak ==
  Idle =>
    files \subseteq orphans \cup {avatar[o] : o \in Owners} \cup
      {logs[s].key : s \in {t \in Slots : logs[t].status # "DROPPED"}}

InFlight(n) == \E r \in Requests : <<"push", n>> \in Range(after[r])

(* The client of an open socket hears of every unread notification: it was   *)
(* counted in auth.ok, was delivered, or is on its way; only a push the      *)
(* channel layer or a fault dropped, and a row the user marked unread, are   *)
(* left to the list (NotificationConsumer joins its group before it counts). *)
NothingMissed ==
  \A s \in Sockets, n \in Unread \ patched : state[s] = "open" =>
    \/ n \in base[s] \cup got[s] \cup lost[s] \cup Range(mail[s])
    \/ InFlight(n)

(* After a deactivation no socket of the account stays in its group without  *)
(* having been told to close (close_user_sockets).  Excepted, socket by      *)
(* socket, are one whose user was resolved before the deactivation and that  *)
(* joined after it, and one whose closing a fault dropped: its channel was   *)
(* full, the channel layer failed, an evidence deletion raised before the    *)
(* closing was reached, the worker died, or the answer to COMMIT was lost.   *)
ClosedOut ==
  ~active /\ Idle =>
    \A s \in Sockets : InGroup(s) => s \in late \cup unclosed \/ None \in Range(mail[s])

(* A push that nothing dropped arrives while the socket stays open, unless   *)
(* the notification is read, hidden or deleted first (push_notification).    *)
PushArrives ==
  \A s \in Sockets, n \in Notes :
    (state[s] = "open" /\ n \in Unread \ (base[s] \cup patched)) ~>
      (n \in got[s] \cup lost[s] \cup patched \/ state[s] # "open" \/ n \notin Unread)

================================================================================
