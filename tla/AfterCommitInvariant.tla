-------------------------- MODULE AfterCommitInvariant --------------------------
(***************************************************************************)
(* The inductive invariant behind the safety properties of AfterCommit:    *)
(* what a request has checked under its locks, that every object key has   *)
(* one use at a time, and who still owes a deletion, a push or a closing   *)
(* of sockets.                                                             *)
(***************************************************************************)
EXTENDS AfterCommit

Snaps == [key : Keys \cup {None}, keys : SUBSET Keys, doomed : SUBSET Notes,
          stale : BOOLEAN]
Entries == ({"file", "evidence"} \X Keys) \cup ({"push"} \X Notes)
             \cup {<<"close", None>>}
Labels == {"idle", "lock", "store", "log", "collect", "reject", "commit", "after",
           "patch", "login"}

(* The rows and files, the sockets and the requests have their types. *)
RowsOK ==
  /\ active \in BOOLEAN
  /\ avatar \in [Owners -> Keys \cup {None}]
  /\ logs \in [Slots -> [status : {"NONE", "PENDING", "APPROVED", "REJECTED", "DROPPED"},
                         key : Keys \cup {None}]]
  /\ \A s \in Slots : logs[s].status = "NONE" => logs[s] = NoLog
  /\ notes \in [Notes -> NoteStates]
  /\ files \subseteq Keys /\ doubt \subseteq Keys /\ raced \subseteq Keys

SocketsOK ==
  /\ state \in [Sockets -> {"closed", "waiting", "resolved", "joined", "counted", "open"}]
  /\ base \in [Sockets -> SUBSET Notes] /\ got \in [Sockets -> SUBSET Notes]
  /\ lost \in [Sockets -> SUBSET Notes] /\ mail \in [Sockets -> Seq(Notes \cup {None})]

RequestsOK ==
  /\ mix \in Workloads
  /\ pc \in [Requests -> Labels] /\ snap \in [Requests -> Snaps]
  /\ after \in [Requests -> Seq(Entries)]
  /\ held = [r \in Requests |-> held[r]] /\ input = [r \in Requests |-> input[r]]
  /\ \A r \in Requests : IsFiniteSet(snap[r].keys)

(* Which request stands at which statement, with which rows locked. *)
ControlOK(r) ==
  LET op == input[r].op
      at == pc[r]
  IN  /\ at # "after" => after[r] = <<>>
      /\ at \in {"idle", "lock", "log", "patch", "login", "after"} => held[r] = {}
      /\ at = "lock" => op \in Owners \cup {"link", "submit", "deactivate"}
      /\ at = "store" => op \in Owners \cup {"submit"}
      /\ at = "log" => op \in AuditOps
      /\ at \in {"collect", "reject"} => op = "deactivate" /\ held[r] = {"user"}
      /\ at = "commit" => op \in Owners \cup AuditOps \cup {"link", "submit", "deactivate"}
      /\ at = "patch" => input[r].note \in Notes /\ input[r].to \in {"unread", "read"}
      /\ at \in {"lock", "store", "log", "commit"} /\ op \in AuditOps \cup {"submit"}
           => input[r].slot \in Slots
      /\ at \in {"store", "collect", "reject", "commit"} /\ op \in {"submit", "deactivate"}
           => "user" \in held[r]
      /\ snap[r].key # None => at = "commit" /\ op \in Owners \cup {"submit"}
      /\ at = "store" /\ op = "submit" => input[r].upload # None
      /\ at = "commit" /\ op = "submit" => (input[r].upload = None <=> snap[r].key = None)
      /\ snap[r].keys # {} => at \in {"reject", "commit"} /\ op = "deactivate"

(* What a request has read of the logs is still so, since it holds the user *)
(* row, on which a submission waits, or the log's.                          *)
ReadOK(r) ==
  LET op == input[r].op
      at == pc[r]
  IN  /\ op = "submit" /\ at \in {"store", "commit"} => logs[input[r].slot] = NoLog
      /\ op = "submit" /\ at \in {"lock", "store", "commit"} =>
           input[r].named \in LogKeys \cup {None}
      /\ op \in AuditOps /\ at = "commit" =>
           input[r].slot \in held[r] /\ logs[input[r].slot].status \in Auditable(op)
      /\ at = "reject" => \A s \in Pending : logs[s].key \in snap[r].keys \cup {None}
      /\ at = "commit" /\ op = "deactivate" =>
           \A s \in Slots \cap held[r] :
             logs[s].status = "PENDING" /\ logs[s].key \in snap[r].keys \cup {None}
      /\ snap[r].keys \subseteq LogKeys

LocksOK == \A r, q \in Requests : r # q => held[r] \cap held[q] = {}

(* The deletions that a request still has to run. *)
Owed(r, kind) == {k \in Keys : <<kind, k>> \in Range(after[r])}

(* A key is a photo, the evidence of logs, a file not yet committed or one  *)
(* to be deleted: never two of them.                                        *)
KeysOK ==
  /\ files \subseteq used /\ LogKeys \subseteq used
  /\ \A o \in Owners : avatar[o] \in used \cup {None} /\ avatar[o] \notin LogKeys
  /\ avatar["profile"] = avatar["clan"] => avatar["clan"] = None
  /\ \A r \in Requests : LET k == snap[r].key IN k # None =>
       /\ k \in files /\ k \notin LogKeys /\ \A o \in Owners : avatar[o] # k
       /\ \A q \in Requests : k \notin Owed(q, "file") /\ (q # r => snap[q].key # k)
  /\ \A r \in Requests : /\ Owed(r, "file") \subseteq used \ LogKeys
                         /\ \A o \in Owners : avatar[o] \notin Owed(r, "file")
                         /\ Owed(r, "evidence") \subseteq LogKeys

(* The rows' files are there, and only the evidence of logs a deactivation *)
(* rejected, or meant to, is about to be deleted.                           *)
ImagesOK ==
  /\ \A o \in Owners : avatar[o] # None => avatar[o] \in files
  /\ LogKeys \subseteq files \cup doubt \cup raced \cup DroppedKeys
  /\ \A r \in Requests : Owed(r, "evidence") \subseteq raced \cup DroppedKeys

(* Every file has a row, a request that will store one, a deletion, or had *)
(* a deletion that a fault dropped.                                         *)
LeakOK ==
  \A k \in files :
    \/ k \in orphans
    \/ \E o \in Owners : avatar[o] = k
    \/ \E s \in Slots : logs[s].key = k /\ logs[s].status # "DROPPED"
    \/ \E r \in Requests : k = snap[r].key \/ k \in Owed(r, "file") \cup Owed(r, "evidence")

(* A counted socket has heard of every unread notification, or will. *)
HeardOK ==
  \A s \in Sockets, n \in Unread \ patched : state[s] \in {"counted", "open"} =>
    \/ n \in base[s] \cup got[s] \cup lost[s] \cup Range(mail[s])
    \/ InFlight(n)

(* A socket in the group of a deactivated account was told to close, or     *)
(* will be, or would have been without a fault.                             *)
ClosedOK ==
  ~active =>
    \A s \in Sockets : InGroup(s) =>
      \/ s \in late \cup unclosed \/ None \in Range(mail[s])
      \/ \E r \in Requests : <<"close", None>> \in Range(after[r])

(* The inductive invariant. *)
IInv ==
  /\ RowsOK /\ SocketsOK /\ RequestsOK /\ LocksOK
  /\ \A r \in Requests : ControlOK(r) /\ ReadOK(r)
  /\ KeysOK /\ ImagesOK /\ LeakOK /\ HeardOK /\ ClosedOK

================================================================================
