--------------------------- MODULE AfterCommitProofs ---------------------------
(***************************************************************************)
(* The safety properties of AfterCommit, proved for every set of logs,     *)
(* notifications, keys, sockets and requests, every workload and every     *)
(* capacity of the channel layer.                                          *)
(***************************************************************************)
EXTENDS AfterCommitInvariant, FiniteSetTheorems, TLAPS

--------------------------------------------------------------------------------
(* Callback lists and mailboxes. *)

LEMMA RangeEmpty == Range(<<>>) = {}
BY DEF Range

LEMMA RangeTail ==
  ASSUME NEW S, NEW q \in Seq(S), q # <<>>
  PROVE  /\ Head(q) \in S /\ Tail(q) \in Seq(S)
         /\ Range(q) = {Head(q)} \cup Range(Tail(q))
<1>1. Len(q) \in Nat /\ Len(q) # 0 /\ DOMAIN q = 1..Len(q)
      /\ Head(q) = q[1] /\ q[1] \in S
  OBVIOUS
<1>2. Tail(q) \in Seq(S) /\ DOMAIN Tail(q) = 1..(Len(q) - 1)
  BY <1>1
<1>3. \A i \in 1..(Len(q) - 1) : Tail(q)[i] = q[i + 1]
  BY <1>1
<1>4. \A i \in DOMAIN q : i = 1 \/ i - 1 \in 1..(Len(q) - 1)
  BY <1>1
<1>5. \A e \in Range(q) : e \in {Head(q)} \cup Range(Tail(q))
  <2> SUFFICES ASSUME NEW i \in DOMAIN q
               PROVE  q[i] = Head(q) \/ q[i] \in Range(Tail(q))
    BY DEF Range
  <2> CASE i = 1
    BY <1>1
  <2> CASE i # 1
    <3>1. i - 1 \in DOMAIN Tail(q) /\ (i - 1) + 1 = i
      BY <1>1, <1>2, <1>4
    <3>2. Tail(q)[i - 1] = q[i]
      BY <3>1, <1>2, <1>3
    <3> QED BY <3>1, <3>2 DEF Range
  <2> QED OBVIOUS
<1>6. \A e \in Range(Tail(q)) : e \in Range(q)
  <2> SUFFICES ASSUME NEW i \in DOMAIN Tail(q) PROVE Tail(q)[i] \in Range(q)
    BY DEF Range
  <2>1. i + 1 \in DOMAIN q /\ Tail(q)[i] = q[i + 1]
    BY <1>1, <1>2, <1>3
  <2> QED BY <2>1 DEF Range
<1>7. Head(q) \in Range(q)
  <2>1. 1 \in DOMAIN q
    BY <1>1
  <2> QED BY <2>1, <1>1 DEF Range
<1> QED BY <1>1, <1>2, <1>5, <1>6, <1>7

LEMMA RangeConcat ==
  ASSUME NEW S, NEW p \in Seq(S), NEW q \in Seq(S)
  PROVE  p \o q \in Seq(S) /\ Range(p \o q) = Range(p) \cup Range(q)
<1>1. /\ p \o q \in Seq(S) /\ DOMAIN (p \o q) = 1..(Len(p) + Len(q))
      /\ Len(p) \in Nat /\ Len(q) \in Nat
      /\ DOMAIN p = 1..Len(p) /\ DOMAIN q = 1..Len(q)
  OBVIOUS
<1>2. \A i \in 1..Len(p) : (p \o q)[i] = p[i]
  BY <1>1
<1>3. \A i \in 1..Len(q) : (p \o q)[Len(p) + i] = q[i]
  BY <1>1
<1>4. \A i \in DOMAIN (p \o q) : i \in 1..Len(p) \/
        (i - Len(p) \in 1..Len(q) /\ Len(p) + (i - Len(p)) = i)
  BY <1>1
<1>5. \A i \in DOMAIN (p \o q) : (p \o q)[i] \in Range(p) \cup Range(q)
  <2> SUFFICES ASSUME NEW i \in DOMAIN (p \o q)
               PROVE  (p \o q)[i] \in Range(p) \cup Range(q)
    OBVIOUS
  <2>1. CASE i \in 1..Len(p)
    BY <2>1, <1>1, <1>2 DEF Range
  <2>2. CASE i - Len(p) \in 1..Len(q) /\ Len(p) + (i - Len(p)) = i
    <3>1. PICK j \in 1..Len(q) : Len(p) + j = i
      BY <2>2
    <3>2. (p \o q)[i] = q[j]
      BY <3>1, <1>3
    <3> QED BY <3>2, <1>1 DEF Range
  <2> QED BY <2>1, <2>2, <1>4
<1>6. \A i \in DOMAIN p : p[i] \in Range(p \o q)
  <2> TAKE i \in DOMAIN p
  <2>1. i \in DOMAIN (p \o q) /\ (p \o q)[i] = p[i]
    BY <1>1, <1>2
  <2> QED BY <2>1 DEF Range
<1>7. \A i \in DOMAIN q : q[i] \in Range(p \o q)
  <2> TAKE i \in DOMAIN q
  <2>1. Len(p) + i \in DOMAIN (p \o q) /\ (p \o q)[Len(p) + i] = q[i]
    BY <1>1, <1>3
  <2> QED BY <2>1 DEF Range
<1>8. \A e \in Range(p \o q) : e \in Range(p) \cup Range(q)
  BY <1>5 DEF Range
<1>9. \A e \in Range(p) \cup Range(q) : e \in Range(p \o q)
  BY <1>6, <1>7 DEF Range
<1> QED BY <1>1, <1>8, <1>9

LEMMA RangeSingle ==
  ASSUME NEW S, NEW e \in S
  PROVE  <<e>> \in Seq(S) /\ Range(<<e>>) = {e}
<1>1. <<e>> \in Seq(S) /\ DOMAIN <<e>> = 1..1 /\ <<e>>[1] = e
  OBVIOUS
<1> QED BY <1>1 DEF Range

LEMMA RangeAppend ==
  ASSUME NEW S, NEW q \in Seq(S), NEW e \in S
  PROVE  Append(q, e) \in Seq(S) /\ Range(Append(q, e)) = Range(q) \cup {e}
<1>1. Append(q, e) = q \o <<e>> /\ <<e>> \in Seq(S)
  OBVIOUS
<1>2. Range(<<e>>) = {e}
  BY RangeSingle
<1>3. q \o <<e>> \in Seq(S) /\ Range(q \o <<e>>) = Range(q) \cup Range(<<e>>)
  BY <1>1, RangeConcat
<1> QED BY <1>1, <1>2, <1>3

(* SetToSeq lists every element of a finite set. *)
LEMMA RangeSetToSeq ==
  ASSUME NEW S, IsFiniteSet(S)
  PROVE  SetToSeq(S) \in Seq(S) /\ Range(SetToSeq(S)) = S
<1> DEFINE D == 1..Cardinality(S)
           f == SetToSeq(S)
<1>1. Cardinality(S) \in Nat /\ ExistsBijection(D, S)
  BY FS_CardinalityType
<1>2. \E g \in [D -> S] : IsInjective(g)
  BY <1>1 DEF ExistsBijection, Bijection, Injection, IsInjective
<1>3. f \in [D -> S] /\ IsInjective(f)
  BY <1>2 DEF SetToSeq
<1> HIDE DEF f
<1>4. IsFiniteSet(D) /\ Cardinality(D) = Cardinality(S)
  BY <1>1, FS_Interval
<1>5. f \in Injection(D, S)
  BY <1>3 DEF Injection, IsInjective
<1>6. f \in Surjection(D, S)
  BY <1>4, <1>5, FS_Injection
<1>7. f \in Seq(S)
  BY <1>1, <1>3
<1>8. \A t \in S : \E i \in D : f[i] = t
  BY <1>6 DEF Surjection
<1>9. DOMAIN f = D
  BY <1>3
<1>10. Range(f) = S
  BY <1>3, <1>8, <1>9 DEF Range
<1> QED BY <1>7, <1>10 DEF f

--------------------------------------------------------------------------------
(* What a step may leave alone. *)

(* A request whose place, input, locks and callbacks a step leaves alone. *)
Untouched(q) ==
  /\ pc'[q] = pc[q] /\ input'[q] = input[q] /\ held'[q] = held[q]
  /\ after'[q] = after[q]
  /\ snap'[q].key = snap[q].key /\ snap'[q].keys = snap[q].keys

(* What a step of r may do to a log: a submission writes it under the user  *)
(* row's lock, an audit or a deactivation moves it on under its own.        *)
LogStep(r, s) ==
  \/ logs'[s] = logs[s]
  \/ logs[s] = NoLog /\ "user" \in held[r]
  \/ /\ s \in held[r] /\ logs[s].status \notin {"NONE", "DROPPED"}
     /\ logs'[s].key = logs[s].key /\ logs'[s].status \notin {"NONE", "PENDING"}

(* A key that logs name stays one, and so does one of a log rejected by a   *)
(* deactivation.                                                            *)
LEMMA KeysStay ==
  ASSUME NEW r \in Requests, \A s \in Slots : LogStep(r, s)
  PROVE  LogKeys \subseteq LogKeys' /\ DroppedKeys \subseteq DroppedKeys'
<1>1. \A s \in Slots : logs[s].key # None => logs'[s].key = logs[s].key
  BY DEF LogStep, NoLog
<1>2. \A s \in Slots : logs[s].status = "DROPPED" => logs'[s] = logs[s]
  BY DEF LogStep, NoLog
<1> QED BY <1>1, <1>2 DEF LogKeys, DroppedKeys

LEMMA OthersKept ==
  ASSUME IInv, NEW r \in Requests, NEW q \in Requests, q # r,
         Untouched(q), \A s \in Slots : LogStep(r, s)
  PROVE  ControlOK(q)' /\ ReadOK(q)'
<1>1. ControlOK(q) /\ ReadOK(q) /\ held[q] \cap held[r] = {}
  BY DEF IInv, LocksOK
<1>2. ControlOK(q)'
  BY <1>1 DEF ControlOK, Untouched
<1>4. \A k \in LogKeys : k \in LogKeys'
  BY KeysStay
<1>5. /\ snap'[q].keys \subseteq LogKeys'
      /\ input[q].op = "submit" /\ pc[q] \in {"lock", "store", "commit"} =>
           input[q].named \in LogKeys' \cup {None}
  BY <1>1, <1>4 DEF ReadOK, Untouched
<1>6. "user" \in held[q] => \A s \in Slots :
        \/ logs'[s] = logs[s]
        \/ /\ s \in held[r] /\ logs[s].status # "NONE"
           /\ logs'[s].status \notin {"NONE", "PENDING"}
  BY <1>1 DEF LogStep
<1>7. \A s \in Slots : s \in held[q] /\ logs[s].status # "NONE" => logs'[s] = logs[s]
  BY <1>1 DEF LogStep, NoLog
<1>8. input[q].op = "submit" /\ pc[q] \in {"store", "commit"} =>
        logs'[input[q].slot] = NoLog
  BY <1>1, <1>6 DEF ControlOK, ReadOK, NoLog
<1>9. input[q].op \in AuditOps /\ pc[q] = "commit" =>
        /\ input[q].slot \in held[q]
        /\ logs'[input[q].slot].status \in Auditable(input[q].op)
  BY <1>1, <1>7 DEF ControlOK, ReadOK, Auditable
<1>10. pc[q] = "reject" => \A s \in Slots : logs'[s].status = "PENDING" =>
         logs'[s].key \in snap[q].keys \cup {None}
  <2> SUFFICES ASSUME pc[q] = "reject", NEW s \in Slots, logs'[s].status = "PENDING"
               PROVE  logs'[s].key \in snap[q].keys \cup {None}
    OBVIOUS
  <2>1. "user" \in held[q]
    BY <1>1 DEF ControlOK
  <2>2. logs'[s] = logs[s]
    BY <2>1, <1>6
  <2> QED BY <2>2, <1>1 DEF ReadOK, Pending
<1>11. pc[q] = "commit" /\ input[q].op = "deactivate" =>
         \A s \in Slots \cap held[q] :
           logs'[s].status = "PENDING" /\ logs'[s].key \in snap[q].keys \cup {None}
  BY <1>1, <1>7 DEF ReadOK
<1>12. ReadOK(q)'
  BY <1>5, <1>8, <1>9, <1>10, <1>11 DEF ReadOK, Untouched, Pending, Auditable
<1> QED BY <1>2, <1>12

(* Which variables each part of the invariant is about. *)
LEMMA RowsFrame ==
  ASSUME RowsOK, UNCHANGED <<rows, files, doubt, raced>>
  PROVE  RowsOK'
BY DEF RowsOK, rows, NoLog

LEMMA SocketsFrame ==
  ASSUME SocketsOK, UNCHANGED <<state, base, got, lost, mail>>
  PROVE  SocketsOK'
BY DEF SocketsOK

LEMMA KeysFrame ==
  ASSUME KeysOK, UNCHANGED <<avatar, logs, files, used, after>>,
         \A q \in Requests : snap'[q].key = snap[q].key
  PROVE  KeysOK'
<1>1. LogKeys' = LogKeys
  BY DEF LogKeys
<1>2. \A q \in Requests : /\ Owed(q, "file")' = Owed(q, "file")
                         /\ Owed(q, "evidence")' = Owed(q, "evidence")
  BY DEF Owed
<1> QED BY <1>1, <1>2 DEF KeysOK

LEMMA ImagesFrame ==
  ASSUME ImagesOK, UNCHANGED <<avatar, logs, files, doubt, raced, after>>
  PROVE  ImagesOK'
BY DEF ImagesOK, Owed, LogKeys, DroppedKeys

LEMMA LeakFrame ==
  ASSUME LeakOK, UNCHANGED <<avatar, logs, files, orphans, after>>,
         \A q \in Requests : snap'[q].key = snap[q].key
  PROVE  LeakOK'
BY DEF LeakOK, Owed

LEMMA HeardFrame ==
  ASSUME HeardOK, UNCHANGED <<notes, patched, state, base, got, lost, mail, after>>
  PROVE  HeardOK'
BY DEF HeardOK, Unread, InFlight

LEMMA ClosedFrame ==
  ASSUME ClosedOK, UNCHANGED <<active, state, late, unclosed, mail, after>>
  PROVE  ClosedOK'
BY DEF ClosedOK, InGroup

--------------------------------------------------------------------------------
(* A step of one request. *)

(* The new place, input, memory, locks and callbacks of r. *)
Moves(r, a, i, z, h, t) ==
  /\ pc' = [pc EXCEPT ![r] = a] /\ input' = [input EXCEPT ![r] = i]
  /\ snap' = [snap EXCEPT ![r] = z] /\ held' = [held EXCEPT ![r] = h]
  /\ after' = [after EXCEPT ![r] = t]

(* The other requests are untouched, and the step leaves r's own state. *)
Alone(r) == RequestsOK' /\ LocksOK' /\ \A q \in Requests \ {r} : Untouched(q)

LEMMA RequestStep ==
  ASSUME RequestsOK, LocksOK, NEW r \in Requests, NEW a \in Labels, NEW i,
         NEW z \in Snaps, IsFiniteSet(z.keys), NEW h, Free(r, h),
         NEW t \in Seq(Entries), Moves(r, a, i, z, h, t),
         mix' = mix
  PROVE  /\ Alone(r)
         /\ pc'[r] = a /\ input'[r] = i /\ snap'[r] = z /\ held'[r] = h /\ after'[r] = t
<1>1. /\ pc' \in [Requests -> Labels] /\ snap' \in [Requests -> Snaps]
      /\ after' \in [Requests -> Seq(Entries)]
  BY DEF RequestsOK, Moves
<1>2. held' = [q \in Requests |-> held'[q]] /\ input' = [q \in Requests |-> input'[q]]
  BY DEF RequestsOK, Moves
<1>3. pc'[r] = a /\ input'[r] = i /\ snap'[r] = z /\ held'[r] = h /\ after'[r] = t
  BY DEF RequestsOK, Moves
<1>4. \A q \in Requests \ {r} :
        /\ pc'[q] = pc[q] /\ input'[q] = input[q] /\ snap'[q] = snap[q]
        /\ held'[q] = held[q] /\ after'[q] = after[q]
  BY DEF RequestsOK, Moves
<1>5. \A q \in Requests : IsFiniteSet(snap'[q].keys)
  BY <1>3, <1>4 DEF RequestsOK
<1>6. RequestsOK'
  BY <1>1, <1>2, <1>5 DEF RequestsOK
<1>7. LocksOK'
  BY <1>3, <1>4 DEF LocksOK, Free
<1>8. \A q \in Requests \ {r} : Untouched(q)
  BY <1>4 DEF Untouched
<1> QED BY <1>3, <1>6, <1>7, <1>8 DEF Alone

LEMMA BlankOK == Blank \in Snaps /\ IsFiniteSet(Blank.keys) /\ Blank.key = None
                 /\ Blank.keys = {}
BY FS_EmptySet DEF Blank, Snaps

(* A request that ends leaves no trace of its own. *)
LEMMA EndStep ==
  ASSUME IInv, NEW r \in Requests, End(r)
  PROVE  /\ Alone(r) /\ ControlOK(r)' /\ ReadOK(r)'
         /\ snap'[r].key = None /\ after' = [after EXCEPT ![r] = <<>>]
<1>1. Moves(r, "idle", NoInput, Blank, {}, <<>>) /\ mix' = mix
  BY DEF End, Leave, Remember, Moves
<1>2. Free(r, {}) /\ "idle" \in Labels /\ <<>> \in Seq(Entries)
  BY DEF Free, Labels
<1>3. /\ Alone(r)
      /\ pc'[r] = "idle" /\ snap'[r] = Blank /\ held'[r] = {} /\ after'[r] = <<>>
      /\ input'[r] = NoInput
  BY <1>1, <1>2, BlankOK, RequestStep DEF IInv
<1>4. NoInput.op = None
  BY DEF NoInput
<1>5. ControlOK(r)'
  BY <1>3, BlankOK DEF ControlOK
<1>6. ReadOK(r)'
  BY <1>3, BlankOK DEF ReadOK, AuditOps
<1> QED BY <1>1, <1>3, <1>5, <1>6, BlankOK DEF Moves

(* A step that only moves r, and keeps its file and its callbacks. *)
LEMMA QuietStep ==
  ASSUME IInv, NEW r \in Requests, Alone(r), ControlOK(r)', ReadOK(r)',
         snap'[r].key = snap[r].key,
         UNCHANGED <<rows, files, sockets, faults, used, after>>
  PROVE  IInv'
<1>1. \A q \in Requests : snap'[q].key = snap[q].key
  BY DEF Alone, Untouched
<1>2. \A s \in Slots : LogStep(r, s)
  BY DEF LogStep, rows
<1>3. \A q \in Requests \ {r} : ControlOK(q)' /\ ReadOK(q)'
  BY <1>2, OthersKept DEF Alone
<1>4. \A q \in Requests : ControlOK(q)' /\ ReadOK(q)'
  BY <1>3
<1>5. RowsOK' /\ SocketsOK'
  BY RowsFrame, SocketsFrame DEF IInv, faults, sockets
<1>6. KeysOK' /\ ImagesOK'
  BY <1>1, KeysFrame, ImagesFrame DEF IInv, rows, faults
<1>7. LeakOK' /\ HeardOK'
  BY <1>1, LeakFrame, HeardFrame DEF IInv, rows, faults, sockets
<1>8. ClosedOK'
  BY ClosedFrame DEF IInv, rows, faults, sockets
<1> QED BY <1>4, <1>5, <1>6, <1>7, <1>8 DEF IInv, Alone

LEMMA RefuseStep ==
  ASSUME IInv, NEW r \in Requests, Refuse(r), snap[r].key = None, after[r] = <<>>
  PROVE  IInv'
<1>1. End(r) /\ UNCHANGED <<rows, files, sockets, faults, used>>
  BY DEF Refuse
<1>2. /\ Alone(r) /\ ControlOK(r)' /\ ReadOK(r)'
      /\ snap'[r].key = None /\ after' = [after EXCEPT ![r] = <<>>]
  BY <1>1, EndStep
<1>3. after' = after
  BY <1>2 DEF IInv, RequestsOK
<1> QED BY <1>1, <1>2, <1>3, QuietStep

--------------------------------------------------------------------------------
(* Requests up to their commit. *)

LEMMA InputsOK ==
  ASSUME NEW op \in AllOps \ ClientOps, NEW i \in Inputs(op)
  PROVE  /\ i.op = op
         /\ op \in AuditOps \cup {"submit"} => i.slot \in Slots
         /\ op = "submit" => i.named \in LogKeys \cup {None}
         /\ op = "patch" => i.note \in Notes /\ i.to \in {"unread", "read"}
<1>1. CASE op \in Owners
  BY <1>1 DEF Inputs, AvatarInputs, Owners, AuditOps
<1>2. CASE op = "submit"
  BY <1>2 DEF Inputs, EvidenceInputs, Owners, AuditOps
<1>3. CASE op = "patch"
  BY <1>3 DEF Inputs, PatchInputs, Owners, AuditOps
<1>4. CASE op \in AuditOps
  BY <1>4 DEF Inputs, Owners, AuditOps
<1>5. CASE op \in {"link", "deactivate", "login"}
  BY <1>5 DEF Inputs, Owners, AuditOps
<1> QED BY <1>1, <1>2, <1>3, <1>4, <1>5 DEF AllOps, ClientOps, Owners, AuditOps

LEMMA BeginStep ==
  ASSUME IInv, NEW r \in Requests, Begin(r)
  PROVE  IInv'
<1>1. PICK op \in (mix \cap AllOps) \ ClientOps : \E i \in Inputs(op) :
        /\ pc' = [pc EXCEPT ![r] = First(op)]
        /\ input' = [input EXCEPT ![r] = i]
  BY DEF Begin
<1>2. PICK i \in Inputs(op) : /\ pc' = [pc EXCEPT ![r] = First(op)]
                              /\ input' = [input EXCEPT ![r] = i]
  BY <1>1
<1>3. UNCHANGED <<rows, files, sockets, faults, used, mix, snap, held, after>>
      /\ pc[r] = "idle"
  BY DEF Begin
<1>4. op \in AllOps \ ClientOps
  BY <1>1
<1>5. /\ i.op = op
      /\ op \in AuditOps \cup {"submit"} => i.slot \in Slots
      /\ op = "submit" => i.named \in LogKeys \cup {None}
      /\ op = "patch" => i.note \in Notes /\ i.to \in {"unread", "read"}
  BY <1>4, InputsOK
<1>6. ControlOK(r) /\ snap[r] \in Snaps /\ IsFiniteSet(snap[r].keys)
  BY DEF IInv, RequestsOK
<1>7. held[r] = {} /\ after[r] = <<>> /\ snap[r].key = None /\ snap[r].keys = {}
  BY <1>3, <1>6 DEF ControlOK
<1>8. Moves(r, First(op), i, snap[r], {}, <<>>)
  BY <1>2, <1>3, <1>7 DEF Moves, IInv, RequestsOK
<1>9. First(op) \in Labels /\ Free(r, {}) /\ <<>> \in Seq(Entries)
  BY DEF First, Labels, Free
<1>11. /\ Alone(r)
       /\ pc'[r] = First(op) /\ input'[r] = i /\ snap'[r] = snap[r] /\ held'[r] = {}
       /\ after'[r] = <<>>
  BY <1>3, <1>6, <1>8, <1>9, RequestStep DEF IInv
<1>12. ControlOK(r)'
  BY <1>4, <1>5, <1>7, <1>11
     DEF ControlOK, First, AllOps, ClientOps, Owners, AuditOps
<1>13. First(op) \in {"lock", "log", "login", "patch"}
  BY DEF First
<1>14. ReadOK(r)'
  <2>1. LogKeys' = LogKeys
    BY <1>3 DEF rows, LogKeys
  <2> QED BY <1>5, <1>7, <1>11, <1>13, <2>1 DEF ReadOK
<1> QED BY <1>3, <1>11, <1>12, <1>14, QuietStep

LEMMA LockRowsStep ==
  ASSUME IInv, NEW r \in Requests, LockRows(r)
  PROVE  IInv'
<1> DEFINE op == input[r].op
           locks == IF op \in Owners THEN OwnerRow(op) ELSE {"user"}
           goal == CASE op = "deactivate" -> "collect"
                     [] op # "deactivate" /\ input[r].upload = None -> "commit"
                     [] OTHER -> "store"
           z == [snap[r] EXCEPT !.doomed =
                   IF op = "deactivate" THEN {n \in Notes : notes[n] # "none"} ELSE {}]
<1>1. /\ pc[r] = "lock" /\ op # "link" /\ Free(r, locks)
      /\ \/ /\ op = "submit" => logs[input[r].slot] = NoLog
            /\ held' = [held EXCEPT ![r] = locks]
            /\ Goto(r, goal) /\ Remember(r, z)
            /\ UNCHANGED <<rows, files, sockets, faults, used>>
         \/ Refuse(r)
  BY DEF LockRows
<1>2. ControlOK(r) /\ ReadOK(r) /\ snap[r] \in Snaps /\ IsFiniteSet(snap[r].keys)
  BY DEF IInv, RequestsOK
<1>3. /\ after[r] = <<>> /\ snap[r].key = None /\ snap[r].keys = {}
      /\ op \in Owners \cup {"submit", "deactivate"}
      /\ op = "submit" => input[r].slot \in Slots /\ input[r].named \in LogKeys \cup {None}
  BY <1>1, <1>2 DEF ControlOK, ReadOK, Owners
<1>4. CASE Refuse(r)
  BY <1>4, <1>3, RefuseStep
<1>5. CASE /\ op = "submit" => logs[input[r].slot] = NoLog
           /\ held' = [held EXCEPT ![r] = locks]
           /\ Goto(r, goal) /\ Remember(r, z)
           /\ UNCHANGED <<rows, files, sockets, faults, used>>
  <2>1. z \in Snaps /\ z.key = None /\ z.keys = {} /\ IsFiniteSet(z.keys)
    BY <1>2, <1>3, FS_EmptySet DEF Snaps
  <2>2. goal \in Labels
    BY DEF Labels
  <2>3. goal \in {"collect", "commit", "store"}
        /\ (goal = "collect" <=> op = "deactivate")
        /\ (op = "submit" => (goal = "commit" <=> input[r].upload = None))
    BY DEF Owners
  <2>4. op \in {"submit", "deactivate"} => locks = {"user"}
    BY DEF Owners
  <2> HIDE DEF goal, z, locks
  <2>5. Moves(r, goal, input[r], z, locks, <<>>) /\ mix' = mix
    BY <1>3, <1>5 DEF Moves, Goto, Remember, IInv, RequestsOK
  <2>6. <<>> \in Seq(Entries)
    BY <1>5 DEF faults, IInv, RequestsOK
  <2>7. /\ Alone(r)
        /\ pc'[r] = goal /\ input'[r] = input[r] /\ snap'[r] = z /\ held'[r] = locks
        /\ after'[r] = <<>>
    BY <1>1, <2>1, <2>2, <2>5, <2>6, RequestStep DEF IInv
  <2>8. ControlOK(r)'
    BY <1>3, <2>1, <2>3, <2>4, <2>7 DEF ControlOK, AuditOps, Owners
  <2>9. logs' = logs /\ after' = after /\ LogKeys' = LogKeys
    BY <1>3, <1>5, <2>5 DEF rows, Moves, Goto, LogKeys
  <2>10. ReadOK(r)'
    BY <1>3, <1>5, <2>1, <2>3, <2>7, <2>9 DEF ReadOK, AuditOps, Owners, NoLog
  <2> QED BY <1>3, <1>5, <2>1, <2>7, <2>8, <2>9, <2>10, QuietStep
<1> QED BY <1>1, <1>4, <1>5

LEMMA update_profileStep ==
  ASSUME IInv, NEW r \in Requests, update_profile(r)
  PROVE  IInv'
<1>1. ControlOK(r) /\ snap[r] \in Snaps /\ IsFiniteSet(snap[r].keys)
  BY DEF IInv, RequestsOK
<1>2. pc[r] = "lock" /\ input[r].op = "link" /\ Free(r, {"user"})
  BY DEF update_profile
<1>3. after[r] = <<>> /\ snap[r].key = None /\ snap[r].keys = {}
  BY <1>1, <1>2 DEF ControlOK
<1>4. CASE Refuse(r)
  BY <1>4, <1>3, RefuseStep
<1>5. CASE /\ held' = [held EXCEPT ![r] = {"user"}] /\ Goto(r, "commit")
           /\ UNCHANGED <<rows, files, sockets, faults, used, snap>>
  <2>1. Moves(r, "commit", input[r], snap[r], {"user"}, <<>>) /\ mix' = mix
    BY <1>3, <1>5 DEF Moves, Goto, IInv, RequestsOK
  <2>2. <<>> \in Seq(Entries) /\ "commit" \in Labels
    BY <1>5 DEF faults, IInv, RequestsOK, Labels
  <2>3. /\ Alone(r)
        /\ pc'[r] = "commit" /\ input'[r] = input[r] /\ snap'[r] = snap[r]
        /\ held'[r] = {"user"} /\ after'[r] = <<>>
    BY <1>1, <1>2, <2>1, <2>2, RequestStep DEF IInv
  <2>4. ControlOK(r)'
    BY <1>2, <1>3, <2>3 DEF ControlOK, AuditOps, Owners
  <2>5. ReadOK(r)'
    BY <1>2, <1>3, <2>3 DEF ReadOK, AuditOps
  <2> QED BY <1>5, <2>3, <2>4, <2>5, QuietStep DEF Goto
<1> QED BY <1>4, <1>5 DEF update_profile

LEMMA LockLogStep ==
  ASSUME IInv, NEW r \in Requests, LockLog(r)
  PROVE  IInv'
<1> DEFINE s == input[r].slot
<1>1. ControlOK(r) /\ snap[r] \in Snaps /\ IsFiniteSet(snap[r].keys)
  BY DEF IInv, RequestsOK
<1>2. pc[r] = "log" /\ Free(r, {s})
  BY DEF LockLog
<1>3. /\ after[r] = <<>> /\ snap[r].key = None /\ snap[r].keys = {}
      /\ input[r].op \in AuditOps /\ s \in Slots
  BY <1>1, <1>2 DEF ControlOK
<1>4. CASE Refuse(r)
  BY <1>4, <1>3, RefuseStep
<1> HIDE DEF s
<1>5. CASE /\ logs[s].status \in Auditable(input[r].op)
           /\ held' = [held EXCEPT ![r] = {s}] /\ Goto(r, "commit")
           /\ UNCHANGED <<rows, files, sockets, faults, used, snap>>
  <2>1. Moves(r, "commit", input[r], snap[r], {s}, <<>>) /\ mix' = mix
    BY <1>3, <1>5 DEF Moves, Goto, IInv, RequestsOK
  <2>2. <<>> \in Seq(Entries) /\ "commit" \in Labels
    BY <1>5 DEF faults, IInv, RequestsOK, Labels
  <2>3. /\ Alone(r)
        /\ pc'[r] = "commit" /\ input'[r] = input[r] /\ snap'[r] = snap[r]
        /\ held'[r] = {s} /\ after'[r] = <<>>
    BY <1>1, <1>2, <2>1, <2>2, RequestStep DEF IInv
  <2>4. ControlOK(r)'
    BY <1>3, <2>3 DEF ControlOK, AuditOps, Owners, s
  <2>5. logs' = logs
    BY <1>5 DEF rows
  <2>6. ReadOK(r)'
    BY <1>3, <1>5, <2>3, <2>5 DEF ReadOK, AuditOps, Auditable, s
  <2> QED BY <1>5, <2>3, <2>4, <2>6, QuietStep DEF Goto
<1> QED BY <1>4, <1>5 DEF LockLog, s

(* The keys a deactivation collects: one at most per pending log. *)
LEMMA CollectedFinite ==
  ASSUME RowsOK, NEW S \in SUBSET Slots
  PROVE  IsFiniteSet({logs[s].key : s \in S} \ {None})
<1> DEFINE T == {logs[s].key : s \in S}
           f == [s \in S |-> logs[s].key]
<1>1. f \in Surjection(S, T)
  BY DEF Surjection
<1>2. IsFiniteSet(S)
  BY AfterCommitAssumption, FS_Subset
<1> HIDE DEF f, T
<1>3. IsFiniteSet(T)
  BY <1>1, <1>2, FS_Surjection
<1>4. IsFiniteSet(T \ {None})
  BY <1>3, FS_Subset
<1> QED BY <1>4 DEF T

LEMMA CollectEvidenceStep ==
  ASSUME IInv, NEW r \in Requests, CollectEvidence(r)
  PROVE  IInv'
<1> DEFINE ks == {logs[s].key : s \in Pending} \ {None}
           z == [snap[r] EXCEPT !.keys = ks]
<1>1. ControlOK(r) /\ snap[r] \in Snaps
  BY DEF IInv, RequestsOK
<1>2. /\ pc[r] = "collect" /\ Remember(r, z) /\ Goto(r, "reject")
      /\ UNCHANGED <<rows, files, sockets, faults, used, held>>
  BY DEF CollectEvidence
<1>3. /\ after[r] = <<>> /\ snap[r].key = None /\ input[r].op = "deactivate"
      /\ held[r] = {"user"}
  BY <1>1, <1>2 DEF ControlOK, Owners
<1>4. \A s \in Pending : s \in Slots /\ logs[s].key \in Keys \cup {None}
  BY DEF IInv, RowsOK, Pending
<1>5. ks \subseteq LogKeys /\ ks \subseteq Keys
  BY <1>4, AfterCommitAssumption DEF LogKeys
<1>6. IsFiniteSet(ks)
  BY CollectedFinite DEF Pending, IInv
<1>7. \A s \in Pending : logs[s].key \in ks \cup {None}
  OBVIOUS
<1> HIDE DEF ks
<1>8. z \in Snaps /\ z.key = None /\ z.keys = ks
  BY <1>1, <1>3, <1>5 DEF Snaps
<1> HIDE DEF z
<1>9. Moves(r, "reject", input[r], z, held[r], <<>>) /\ mix' = mix
  BY <1>2, <1>3 DEF Moves, Goto, Remember, IInv, RequestsOK
<1>10. /\ <<>> \in Seq(Entries) /\ "reject" \in Labels
       /\ Free(r, held[r])
  BY <1>2 DEF faults, IInv, RequestsOK, Labels, Free, LocksOK
<1>11. /\ Alone(r)
       /\ pc'[r] = "reject" /\ input'[r] = input[r] /\ snap'[r] = z
       /\ held'[r] = held[r] /\ after'[r] = <<>>
  <2>1. RequestsOK /\ LocksOK /\ IsFiniteSet(z.keys)
    BY <1>6, <1>8 DEF IInv
  <2> QED BY <1>8, <1>9, <1>10, <2>1, RequestStep
<1>12. ControlOK(r)'
  BY <1>3, <1>8, <1>11 DEF ControlOK, AuditOps, Owners
<1>13. logs' = logs
  BY <1>2 DEF rows
<1>14. ReadOK(r)'
  BY <1>3, <1>5, <1>7, <1>8, <1>11, <1>13 DEF ReadOK, AuditOps, Pending, LogKeys
<1> QED BY <1>2, <1>3, <1>8, <1>11, <1>12, <1>14, QuietStep DEF Goto

LEMMA RejectPendingStep ==
  ASSUME IInv, NEW r \in Requests, RejectPending(r)
  PROVE  IInv'
<1> DEFINE h == held[r] \cup Pending
<1>1. ControlOK(r) /\ ReadOK(r) /\ snap[r] \in Snaps /\ IsFiniteSet(snap[r].keys)
  BY DEF IInv, RequestsOK
<1>2. /\ pc[r] = "reject" /\ Free(r, Pending) /\ Goto(r, "commit")
      /\ held' = [held EXCEPT ![r] = h]
      /\ UNCHANGED <<rows, files, sockets, faults, used, snap>>
  BY DEF RejectPending
<1>3. /\ after[r] = <<>> /\ snap[r].key = None /\ input[r].op = "deactivate"
      /\ "user" \in held[r]
  BY <1>1, <1>2 DEF ControlOK, Owners
<1>4. Free(r, h)
  BY <1>2 DEF Free, IInv, LocksOK
<1>5. Moves(r, "commit", input[r], snap[r], h, <<>>) /\ mix' = mix
  BY <1>2, <1>3 DEF Moves, Goto, IInv, RequestsOK
<1>6. <<>> \in Seq(Entries) /\ "commit" \in Labels
  BY <1>2 DEF faults, IInv, RequestsOK, Labels
<1>7. /\ Alone(r)
      /\ pc'[r] = "commit" /\ input'[r] = input[r] /\ snap'[r] = snap[r]
      /\ held'[r] = h /\ after'[r] = <<>>
  <2>1. RequestsOK /\ LocksOK
    BY DEF IInv
  <2> QED BY <1>1, <1>4, <1>5, <1>6, <2>1, RequestStep DEF Moves
<1>8. ControlOK(r)'
  BY <1>1, <1>2, <1>3, <1>7 DEF ControlOK, AuditOps, Owners
<1>9. logs' = logs
  BY <1>2 DEF rows
<1>10. snap'[r].keys \subseteq LogKeys'
  BY <1>1, <1>7, <1>9 DEF ReadOK, LogKeys
<1>11. \A s \in Slots \cap h :
         logs'[s].status = "PENDING" /\ logs'[s].key \in snap'[r].keys \cup {None}
  <2>1. \A s \in Pending : logs[s].key \in snap[r].keys \cup {None}
    BY <1>1, <1>2 DEF ReadOK
  <2>2. Slots \cap held[r] = {}
    BY <1>1, <1>2, AfterCommitAssumption DEF ControlOK
  <2> QED BY <1>7, <1>9, <2>1, <2>2 DEF Pending
<1>12. ReadOK(r)'
  BY <1>3, <1>7, <1>10, <1>11 DEF ReadOK, AuditOps
<1> QED BY <1>2, <1>7, <1>8, <1>12, QuietStep DEF Goto

LEMMA AnswerStep ==
  ASSUME IInv, NEW r \in Requests, Answer(r)
  PROVE  IInv'
<1>1. ControlOK(r) /\ pc[r] = "after" /\ after[r] = <<>> /\ Refuse(r)
  BY DEF IInv, Answer
<1>2. snap[r].key = None
  BY <1>1 DEF ControlOK
<1> QED BY <1>1, <1>2, RefuseStep

(* The parts of the invariant after a step of r, put together. *)
LEMMA Assemble ==
  ASSUME IInv, NEW r \in Requests, Alone(r), ControlOK(r)', ReadOK(r)',
         \A s \in Slots : LogStep(r, s), RowsOK', SocketsOK', KeysOK', ImagesOK',
         LeakOK', HeardOK', ClosedOK'
  PROVE  IInv'
<1>1. \A q \in Requests \ {r} : ControlOK(q)' /\ ReadOK(q)'
  BY OthersKept DEF Alone
<1>2. \A q \in Requests : ControlOK(q)' /\ ReadOK(q)'
  BY <1>1
<1> QED BY <1>2 DEF IInv, Alone

(* New objects in storage: one the request will commit, or what a failed    *)
(* upload left behind.                                                      *)
LEMMA NewFiles ==
  ASSUME IInv, NEW r \in Requests, Alone(r), ControlOK(r)', ReadOK(r)',
         NEW new \in SUBSET (Keys \ used), snap[r].key = None,
         snap'[r].key \in new \cup {None},
         files' = files \cup new, used' = used \cup new,
         orphans \subseteq orphans', new \subseteq orphans' \cup {snap'[r].key},
         UNCHANGED <<rows, sockets, doubt, raced, patched, after>>
  PROVE  IInv'
<1>1. UNCHANGED <<active, avatar, logs, notes, state, base, got, mail, lost, late, unclosed>>
  BY DEF rows, sockets
<1>2. LogKeys' = LogKeys
  BY <1>1 DEF LogKeys
<1>3. \A q \in Requests : /\ Owed(q, "file")' = Owed(q, "file")
                          /\ Owed(q, "evidence")' = Owed(q, "evidence")
  BY DEF Owed
<1>4. \A q \in Requests \ {r} : snap'[q].key = snap[q].key
  BY DEF Alone, Untouched
<1>5. KeysOK /\ None \notin Keys /\ new \cap used = {} /\ None \notin new
  BY AfterCommitAssumption DEF IInv
<1>6. /\ files' \subseteq used' /\ LogKeys' \subseteq used'
      /\ \A o \in Owners : avatar'[o] \in used' \cup {None} /\ avatar'[o] \notin LogKeys'
      /\ avatar'["profile"] = avatar'["clan"] => avatar'["clan"] = None
  BY <1>1, <1>2, <1>5 DEF KeysOK
<1>7. \A q \in Requests : LET k == snap'[q].key IN k # None =>
        /\ k \in files' /\ k \notin LogKeys' /\ \A o \in Owners : avatar'[o] # k
        /\ \A p \in Requests : k \notin Owed(p, "file")' /\ (p # q => snap'[p].key # k)
  <2>1. \A q \in Requests : snap[q].key # None => snap[q].key \in used
    BY <1>5 DEF KeysOK
  <2>2. \A k \in new : /\ k \notin LogKeys /\ \A o \in Owners : avatar[o] # k
                       /\ \A p \in Requests : k \notin Owed(p, "file") /\ snap[p].key # k
    BY <1>5, <2>1 DEF KeysOK
  <2>3. \A q \in Requests : LET k == snap[q].key IN k # None =>
          /\ k \in files /\ k \notin LogKeys /\ \A o \in Owners : avatar[o] # k
          /\ \A p \in Requests : k \notin Owed(p, "file") /\ (p # q => snap[p].key # k)
    BY <1>5 DEF KeysOK
  <2> QED BY <1>1, <1>2, <1>3, <1>4, <1>5, <2>2, <2>3
<1>8. \A q \in Requests : /\ Owed(q, "file")' \subseteq used' \ LogKeys'
                          /\ \A o \in Owners : avatar'[o] \notin Owed(q, "file")'
                          /\ Owed(q, "evidence")' \subseteq LogKeys'
  BY <1>1, <1>2, <1>3, <1>5 DEF KeysOK
<1>9. KeysOK'
  BY <1>6, <1>7, <1>8 DEF KeysOK
<1>10. RowsOK'
  BY <1>1 DEF IInv, RowsOK, NoLog
<1>11. ImagesOK'
  BY <1>1, <1>2, <1>3 DEF IInv, ImagesOK, DroppedKeys
<1>12. LeakOK'
  <2> SUFFICES ASSUME NEW k \in files' \ orphans'
               PROVE  \/ \E o \in Owners : avatar'[o] = k
                      \/ \E s \in Slots : logs'[s].key = k /\ logs'[s].status # "DROPPED"
                      \/ \E q \in Requests : k = snap'[q].key \/
                           k \in Owed(q, "file")' \cup Owed(q, "evidence")'
    BY DEF LeakOK
  <2>1. CASE k \in new
    BY <2>1
  <2>2. CASE k \in files
    <3>1. k # None
      BY <2>2, <1>5 DEF IInv, RowsOK
    <3>2. \/ \E o \in Owners : avatar[o] = k
          \/ \E s \in Slots : logs[s].key = k /\ logs[s].status # "DROPPED"
          \/ \E q \in Requests : k = snap[q].key \/
               k \in Owed(q, "file") \cup Owed(q, "evidence")
      BY <2>2 DEF IInv, LeakOK
    <3> QED BY <3>1, <3>2, <1>1, <1>3, <1>4
  <2> QED BY <2>1, <2>2
<1>13. SocketsOK' /\ HeardOK'
  BY <1>1, SocketsFrame, HeardFrame DEF IInv
<1>14. ClosedOK'
  BY <1>1 DEF IInv, ClosedOK, InGroup
<1>15. \A s \in Slots : LogStep(r, s)
  BY <1>1 DEF LogStep
<1> QED BY <1>9, <1>10, <1>11, <1>12, <1>13, <1>14, <1>15, Assemble

LEMMA StoredStep ==
  ASSUME IInv, NEW r \in Requests, pc[r] = "store", NEW k \in NewKeys, Stored(r, k)
  PROVE  IInv'
<1> DEFINE z == [snap[r] EXCEPT !.key = k]
<1>1. ControlOK(r) /\ ReadOK(r) /\ snap[r] \in Snaps /\ RequestsOK /\ LocksOK
  BY DEF IInv, RequestsOK
<1>2. k \in Keys \ used /\ k # None
  BY AfterCommitAssumption DEF NewKeys
<1>3. /\ after[r] = <<>> /\ snap[r].key = None /\ snap[r].keys = {}
      /\ input[r].op \in Owners \cup {"submit"}
  BY <1>1 DEF ControlOK
<1>4. z \in Snaps /\ z.key = k /\ z.keys = {} /\ IsFiniteSet(z.keys)
  BY <1>1, <1>2, <1>3, FS_EmptySet DEF Snaps
<1>5. Remember(r, z) /\ Goto(r, "commit") /\ held' = held
  BY DEF Stored
<1> HIDE DEF z
<1>6. Moves(r, "commit", input[r], z, held[r], <<>>) /\ mix' = mix
  BY <1>3, <1>5 DEF Moves, Goto, Remember, IInv, RequestsOK
<1>7. <<>> \in Seq(Entries) /\ "commit" \in Labels
      /\ Free(r, held[r])
  BY DEF Stored, faults, IInv, RequestsOK, Labels, Free, LocksOK
<1>8. /\ Alone(r)
      /\ pc'[r] = "commit" /\ input'[r] = input[r] /\ snap'[r] = z
      /\ held'[r] = held[r] /\ after'[r] = <<>>
  BY <1>1, <1>4, <1>6, <1>7, RequestStep DEF Moves
<1>9. ControlOK(r)'
  BY <1>1, <1>2, <1>3, <1>4, <1>8 DEF ControlOK, AuditOps, Owners
<1>10. logs' = logs /\ LogKeys' = LogKeys
  BY DEF Stored, rows, LogKeys
<1>11. ReadOK(r)'
  BY <1>1, <1>3, <1>4, <1>8, <1>10 DEF ReadOK, AuditOps, Owners
<1>12. {k} \in SUBSET (Keys \ used) /\ files' = files \cup {k} /\ used' = used \cup {k}
  BY <1>2 DEF Stored
<1>13. UNCHANGED <<rows, sockets, doubt, raced, patched, after>> /\ orphans' = orphans
  BY DEF Stored, faults, Goto
<1>14. snap'[r].key = k
  BY <1>4, <1>8
<1> QED BY <1>3, <1>8, <1>9, <1>11, <1>12, <1>13, <1>14, NewFiles

LEMMA save_imageStep ==
  ASSUME IInv, NEW r \in Requests, save_image(r)
  PROVE  IInv'
<1>1. pc[r] = "store" /\ ControlOK(r)
  BY DEF save_image, IInv
<1>2. after[r] = <<>> /\ snap[r].key = None
  BY <1>1 DEF ControlOK
<1>3. CASE Refuse(r)
  BY <1>2, <1>3, RefuseStep
<1>4. CASE \E k \in NewKeys : Stored(r, k)
  BY <1>1, <1>4, StoredStep
<1> QED BY <1>3, <1>4 DEF save_image

LEMMA save_action_evidenceStep ==
  ASSUME IInv, NEW r \in Requests, save_action_evidence(r)
  PROVE  IInv'
BY StoredStep DEF save_action_evidence

LEMMA UploadFailsStep ==
  ASSUME IInv, NEW r \in Requests, UploadFails(r)
  PROVE  IInv'
<1>1. PICK left \in {{}} \cup {{k} : k \in NewKeys} :
        /\ files' = files \cup left /\ used' = used \cup left
        /\ orphans' = orphans \cup left
  BY DEF UploadFails
<1>2. left \in SUBSET (Keys \ used)
  BY DEF NewKeys
<1>3. pc[r] = "store" /\ ControlOK(r) /\ End(r)
  BY <1>1 DEF UploadFails, IInv
<1>4. after[r] = <<>> /\ snap[r].key = None
  BY <1>3 DEF ControlOK
<1>5. /\ Alone(r) /\ ControlOK(r)' /\ ReadOK(r)'
      /\ snap'[r].key = None /\ after' = [after EXCEPT ![r] = <<>>]
  BY <1>3, EndStep
<1>6. after' = after
  BY <1>4, <1>5 DEF IInv, RequestsOK
<1>7. UNCHANGED <<rows, sockets, doubt, raced, patched, after>>
  BY <1>6 DEF UploadFails
<1>8. orphans \subseteq orphans' /\ left \subseteq orphans' \cup {snap'[r].key}
  BY <1>1
<1> QED BY <1>1, <1>2, <1>4, <1>5, <1>7, <1>8, NewFiles

LEMMA LoginStep ==
  ASSUME IInv, NEW r \in Requests, Login(r)
  PROVE  IInv'
<1>1. /\ pc[r] = "login" /\ ControlOK(r) /\ End(r) /\ active' = TRUE
      /\ UNCHANGED <<avatar, logs, notes, files, sockets, faults, used>>
  BY DEF Login, IInv
<1>2. after[r] = <<>> /\ snap[r].key = None
  BY <1>1 DEF ControlOK
<1>4. /\ Alone(r) /\ ControlOK(r)' /\ ReadOK(r)'
      /\ snap'[r].key = None /\ after' = [after EXCEPT ![r] = <<>>]
  BY <1>1, EndStep
<1>5. after' = after
  BY <1>2, <1>4 DEF IInv, RequestsOK
<1>6. \A q \in Requests : snap'[q].key = snap[q].key
  BY <1>2, <1>4 DEF Alone, Untouched
<1>7. RowsOK'
  BY <1>1 DEF IInv, RowsOK, NoLog, faults
<1>8. SocketsOK' /\ HeardOK'
  BY <1>1, <1>5, SocketsFrame, HeardFrame DEF IInv, sockets, faults
<1>9. KeysOK' /\ LeakOK' /\ ImagesOK'
  BY <1>1, <1>5, <1>6, KeysFrame, LeakFrame, ImagesFrame DEF IInv, faults
<1>10. ClosedOK'
  BY <1>1 DEF ClosedOK
<1>11. \A s \in Slots : LogStep(r, s)
  BY <1>1 DEF LogStep
<1> QED BY <1>4, <1>7, <1>8, <1>9, <1>10, <1>11, Assemble

LEMMA update_notificationStep ==
  ASSUME IInv, NEW r \in Requests, update_notification(r)
  PROVE  IInv'
<1> DEFINE n == input[r].note
<1>1. /\ pc[r] = "patch" /\ ControlOK(r) /\ End(r)
      /\ notes' = [notes EXCEPT ![n] = input[r].to] /\ patched' = patched \cup {n}
      /\ UNCHANGED <<active, avatar, logs, files, sockets, doubt, raced, orphans, used>>
  BY DEF update_notification, IInv
<1>2. /\ after[r] = <<>> /\ snap[r].key = None
      /\ n \in Notes /\ input[r].to \in {"unread", "read"}
  BY <1>1 DEF ControlOK
<1>4. /\ Alone(r) /\ ControlOK(r)' /\ ReadOK(r)'
      /\ snap'[r].key = None /\ after' = [after EXCEPT ![r] = <<>>]
  BY <1>1, EndStep
<1>5. after' = after
  BY <1>2, <1>4 DEF IInv, RequestsOK
<1>6. \A q \in Requests : snap'[q].key = snap[q].key
  BY <1>2, <1>4 DEF Alone, Untouched
<1>7. RowsOK'
  <2>1. notes' \in [Notes -> NoteStates]
    BY <1>1, <1>2 DEF IInv, RowsOK, NoteStates
  <2> QED BY <1>1, <2>1 DEF IInv, RowsOK, NoLog
<1>8. SocketsOK' /\ ClosedOK'
  BY <1>1, <1>5, SocketsFrame, ClosedFrame DEF IInv, sockets
<1>9. KeysOK' /\ LeakOK' /\ ImagesOK'
  BY <1>1, <1>5, <1>6, KeysFrame, LeakFrame, ImagesFrame DEF IInv
<1>10. \A m \in Unread' \ patched' : m \in Unread \ patched
  BY <1>1, <1>2 DEF Unread, IInv, RowsOK
<1>11. HeardOK'
  BY <1>1, <1>5, <1>10 DEF HeardOK, IInv, sockets, InFlight
<1>12. \A s \in Slots : LogStep(r, s)
  BY <1>1 DEF LogStep
<1> QED BY <1>4, <1>7, <1>8, <1>9, <1>11, <1>12, Assemble

LEMMA DbErrorStep ==
  ASSUME IInv, NEW r \in Requests, DbError(r)
  PROVE  IInv'
<1> DEFINE k == snap[r].key
<1>1. /\ Busy(r) /\ ControlOK(r) /\ End(r) /\ files' = files \ {k}
      /\ UNCHANGED <<rows, sockets, faults, used>>
  BY DEF DbError, IInv
<1>2. after[r] = <<>>
  BY <1>1 DEF ControlOK, Busy
<1>4. /\ Alone(r) /\ ControlOK(r)' /\ ReadOK(r)'
      /\ snap'[r].key = None /\ after' = [after EXCEPT ![r] = <<>>]
  BY <1>1, EndStep
<1>5. after' = after
  BY <1>2, <1>4 DEF IInv, RequestsOK
<1>6. \A q \in Requests \ {r} : snap'[q].key = snap[q].key
  BY <1>4 DEF Alone, Untouched
<1>7. UNCHANGED <<active, avatar, logs, notes, state, base, got, mail, lost, late, unclosed>>
      /\ UNCHANGED <<doubt, raced, orphans, patched, used>>
  BY <1>1 DEF rows, sockets, faults
<1>8. LogKeys' = LogKeys
  BY <1>7 DEF LogKeys
<1>9. \A q \in Requests : /\ Owed(q, "file")' = Owed(q, "file")
                          /\ Owed(q, "evidence")' = Owed(q, "evidence")
  BY <1>5 DEF Owed
<1>10. KeysOK /\ None \notin Keys /\ None \notin files
  BY AfterCommitAssumption DEF IInv, RowsOK
<1>11. \A q \in Requests \ {r} : snap[q].key # None =>
         snap[q].key \in files /\ snap[q].key # k
  BY <1>10 DEF KeysOK
<1>12. KeysOK'
  <2>1. /\ files' \subseteq used' /\ LogKeys' \subseteq used'
        /\ \A o \in Owners : avatar'[o] \in used' \cup {None} /\ avatar'[o] \notin LogKeys'
        /\ avatar'["profile"] = avatar'["clan"] => avatar'["clan"] = None
    BY <1>1, <1>7, <1>8, <1>10 DEF KeysOK
  <2>2. \A q \in Requests : LET x == snap'[q].key IN x # None =>
          /\ x \in files' /\ x \notin LogKeys' /\ \A o \in Owners : avatar'[o] # x
          /\ \A p \in Requests : x \notin Owed(p, "file")' /\ (p # q => snap'[p].key # x)
    <3>1. \A q \in Requests : LET x == snap[q].key IN x # None =>
            /\ x \in files /\ x \notin LogKeys /\ \A o \in Owners : avatar[o] # x
            /\ \A p \in Requests : x \notin Owed(p, "file") /\ (p # q => snap[p].key # x)
      BY <1>10 DEF KeysOK
    <3> QED BY <1>1, <1>4, <1>6, <1>7, <1>8, <1>9, <1>11, <3>1
  <2>3. \A q \in Requests : /\ Owed(q, "file")' \subseteq used' \ LogKeys'
                            /\ \A o \in Owners : avatar'[o] \notin Owed(q, "file")'
                            /\ Owed(q, "evidence")' \subseteq LogKeys'
    BY <1>7, <1>8, <1>9, <1>10 DEF KeysOK
  <2> QED BY <2>1, <2>2, <2>3 DEF KeysOK
<1>13. k # None => k \notin LogKeys /\ \A o \in Owners : avatar[o] # k
  BY <1>10 DEF KeysOK
<1>15. ImagesOK'
  <2>1. ImagesOK /\ RowsOK /\ None \notin LogKeys
    BY DEF IInv, LogKeys
  <2>2. DroppedKeys' = DroppedKeys
    BY <1>7 DEF DroppedKeys
  <2> HIDE DEF k
  <2> QED BY <1>1, <1>7, <1>8, <1>9, <1>13, <2>1, <2>2 DEF ImagesOK
<1>16. LeakOK'
  <2> SUFFICES ASSUME NEW x \in files' \ orphans'
               PROVE  \/ \E o \in Owners : avatar'[o] = x
                      \/ \E s \in Slots : logs'[s].key = x /\ logs'[s].status # "DROPPED"
                      \/ \E q \in Requests : x = snap'[q].key \/
                           x \in Owed(q, "file")' \cup Owed(q, "evidence")'
    BY DEF LeakOK
  <2>1. x \in files \ orphans /\ x # k
    BY <1>1, <1>7
  <2>2. \/ \E o \in Owners : avatar[o] = x
        \/ \E s \in Slots : logs[s].key = x /\ logs[s].status # "DROPPED"
        \/ \E q \in Requests : x = snap[q].key \/
             x \in Owed(q, "file") \cup Owed(q, "evidence")
    BY <2>1 DEF IInv, LeakOK
  <2> QED BY <2>1, <2>2, <1>6, <1>7, <1>9
<1>17. RowsOK'
  BY <1>1, <1>7 DEF IInv, RowsOK, NoLog
<1>18. SocketsOK' /\ HeardOK' /\ ClosedOK'
  BY <1>5, <1>7, SocketsFrame, HeardFrame, ClosedFrame DEF IInv
<1>19. \A s \in Slots : LogStep(r, s)
  BY <1>7 DEF LogStep
<1> QED BY <1>4, <1>12, <1>15, <1>16, <1>17, <1>18, <1>19, Assemble

--------------------------------------------------------------------------------
(* The consumers and the inbox. *)

(* A step that leaves the rows' photos and logs, the files and the requests. *)
LEMMA ClientStep ==
  ASSUME IInv, UNCHANGED <<avatar, logs, files, doubt, raced, orphans, used, mix, request>>,
         RowsOK', SocketsOK', HeardOK', ClosedOK'
  PROVE  IInv'
<1>1. UNCHANGED <<pc, input, snap, held, after>>
  BY DEF request
<1>2. KeysOK' /\ ImagesOK' /\ LeakOK'
  BY <1>1, KeysFrame, ImagesFrame, LeakFrame DEF IInv
<1>3. RequestsOK' /\ LocksOK'
  BY <1>1 DEF IInv, RequestsOK, LocksOK
<1>4. \A r \in Requests : ControlOK(r)' /\ ReadOK(r)'
  BY <1>1 DEF IInv, ControlOK, ReadOK, Pending, LogKeys
<1> QED BY <1>2, <1>3, <1>4 DEF IInv

LEMMA FreshStep ==
  ASSUME IInv, NEW s \in Sockets, NEW label \in {"closed", "waiting"}, Fresh(s, label)
  PROVE  IInv'
<1>1. /\ state' = [state EXCEPT ![s] = label] /\ base' = [base EXCEPT ![s] = {}]
      /\ got' = [got EXCEPT ![s] = {}] /\ mail' = [mail EXCEPT ![s] = <<>>]
      /\ lost' = [lost EXCEPT ![s] = {}] /\ late' = late \ {s}
      /\ unclosed' = unclosed \ {s}
      /\ UNCHANGED <<rows, files, faults, used, mix, request>>
  BY DEF Fresh
<1>2. SocketsOK'
  BY <1>1 DEF IInv, SocketsOK
<1>3. /\ state'[s] = label
      /\ \A t \in Sockets \ {s} :
           /\ state'[t] = state[t] /\ base'[t] = base[t] /\ got'[t] = got[t]
           /\ mail'[t] = mail[t] /\ lost'[t] = lost[t]
  BY <1>1 DEF IInv, SocketsOK
<1>4. UNCHANGED <<active, avatar, logs, notes, doubt, raced, orphans, patched, after>>
  BY <1>1 DEF rows, faults, request
<1>5. HeardOK'
  BY <1>3, <1>4 DEF IInv, HeardOK, Unread, InFlight
<1>6. ClosedOK'
  BY <1>1, <1>3, <1>4 DEF IInv, ClosedOK, InGroup
<1>7. RowsOK'
  BY <1>1, <1>4, RowsFrame DEF IInv
<1> QED BY <1>1, <1>2, <1>4, <1>5, <1>6, <1>7, ClientStep

LEMMA ConsumerStep ==
  ASSUME IInv, NEW s \in Sockets, Consumer(s)
  PROVE  IInv'
<1> USE DEF Turn
<1>1. CASE Connect(s)
  BY <1>1, FreshStep DEF Connect
<1>2. CASE \E label \in {"closed", "waiting"} : Fresh(s, label)
  BY <1>2, FreshStep
<1>3. ASSUME NEW label \in {"resolved", "joined", "counted", "open"}, Turn(s, label),
             base' = [base EXCEPT ![s] = IF label = "counted" THEN Unread ELSE @],
             late' = IF label = "joined" /\ ~active THEN late \cup {s} ELSE late,
             label = "resolved" => state[s] = "waiting",
             label = "joined" => state[s] = "resolved",
             label = "counted" => state[s] = "joined",
             label = "open" => state[s] = "counted",
             label = "resolved" => active
      PROVE  IInv'
  <2>1. /\ UNCHANGED <<active, avatar, logs, notes, files, got, mail, lost, unclosed, doubt, raced>>
        /\ UNCHANGED <<orphans, patched, used, mix, request, after>>
    BY <1>3 DEF rows, faults, request
  <2>2. /\ state'[s] = label
        /\ base'[s] = IF label = "counted" THEN Unread ELSE base[s]
        /\ \A t \in Sockets \ {s} : state'[t] = state[t] /\ base'[t] = base[t]
    BY <1>3 DEF IInv, SocketsOK
  <2>3. SocketsOK'
    <3>1. /\ state' \in [Sockets -> {"closed", "waiting", "resolved", "joined", "counted",
                                     "open"}]
          /\ base' \in [Sockets -> SUBSET Notes]
      BY <1>3 DEF IInv, SocketsOK, Unread
    <3> QED BY <2>1, <3>1 DEF IInv, SocketsOK
  <2>4. HeardOK'
    <3> SUFFICES ASSUME NEW t \in Sockets, NEW n \in Unread \ patched,
                        state'[t] \in {"counted", "open"}
                 PROVE  \/ n \in base'[t] \cup got[t] \cup lost[t] \cup Range(mail[t])
                        \/ InFlight(n)
      BY <2>1 DEF HeardOK, Unread, InFlight
    <3>1. CASE t = s /\ label = "counted"
      BY <3>1, <2>2
    <3>2. CASE ~(t = s /\ label = "counted")
      <4>1. state[t] \in {"counted", "open"} /\ base'[t] = base[t]
        BY <3>2, <1>3, <2>2
      <4> QED BY <4>1 DEF IInv, HeardOK
    <3> QED BY <3>1, <3>2
  <2>5. ClosedOK'
    <3> SUFFICES ASSUME ~active, NEW t \in Sockets, InGroup(t)'
                 PROVE  \/ t \in late' \cup unclosed \/ None \in Range(mail[t])
                        \/ \E r \in Requests : <<"close", None>> \in Range(after[r])
      BY <2>1 DEF ClosedOK
    <3>1. CASE t = s /\ label = "joined"
      BY <3>1, <1>3
    <3>2. CASE ~(t = s /\ label = "joined")
      <4>1. InGroup(t)
        BY <3>2, <1>3, <2>2 DEF InGroup
      <4>2. late \subseteq late'
        BY <1>3
      <4> QED BY <4>1, <4>2 DEF IInv, ClosedOK
    <3> QED BY <3>1, <3>2
  <2>6. RowsOK'
    BY <2>1 DEF IInv, RowsOK, NoLog
  <2> QED BY <2>1, <2>3, <2>4, <2>5, <2>6, ClientStep
<1>4. base = [base EXCEPT ![s] = base[s]]
  BY DEF IInv, SocketsOK
<1>5. CASE receive_json(s)
  <2>1. CASE \E label \in {"closed", "waiting"} : Fresh(s, label)
    BY <1>2, <2>1
  <2>2. CASE state[s] = "waiting" /\ active /\ Turn(s, "resolved") /\ UNCHANGED <<base, late>>
    BY <2>2, <1>3, <1>4
  <2> QED BY <1>5, <2>1, <2>2 DEF receive_json, resolve_user
<1>6. CASE Join(s)
  BY <1>6, <1>3, <1>4 DEF Join
<1>7. CASE Count(s)
  BY <1>7, <1>3 DEF Count
<1>8. CASE SendAuthOk(s)
  BY <1>8, <1>3, <1>4 DEF SendAuthOk
<1>9. CASE Deliver(s)
  <2>1. CASE \E label \in {"closed", "waiting"} : Fresh(s, label)
    BY <1>2, <2>1
  <2>2. CASE /\ Head(mail[s]) # None
             /\ got' = [got EXCEPT ![s] = @ \cup {Head(mail[s])}]
             /\ mail' = [mail EXCEPT ![s] = Tail(@)]
             /\ UNCHANGED <<rows, files, state, base, lost, late, unclosed, faults, used,
                            mix, request>>
    <3>1. mail[s] \in Seq(Notes \cup {None}) /\ mail[s] # <<>>
      BY <1>9 DEF Deliver, IInv, SocketsOK
    <3>2. /\ Head(mail[s]) \in Notes \cup {None} /\ Tail(mail[s]) \in Seq(Notes \cup {None})
          /\ Range(mail[s]) = {Head(mail[s])} \cup Range(Tail(mail[s]))
      BY <3>1, RangeTail
    <3>3. SocketsOK'
      BY <2>2, <3>2 DEF IInv, SocketsOK
    <3>4. \A t \in Sockets : got[t] \cup Range(mail[t]) \subseteq got'[t] \cup Range(mail'[t])
      BY <2>2, <3>2 DEF IInv, SocketsOK
    <3>5. \A t \in Sockets : None \in Range(mail[t]) => None \in Range(mail'[t])
      BY <2>2, <3>2 DEF IInv, SocketsOK
    <3>6. UNCHANGED <<active, avatar, logs, notes, doubt, raced, orphans, patched, after>>
      BY <2>2 DEF rows, faults, request
    <3>7. HeardOK'
      <4> SUFFICES ASSUME NEW t \in Sockets, NEW n \in Unread \ patched,
                          state[t] \in {"counted", "open"}
                   PROVE  \/ n \in base[t] \cup got'[t] \cup lost[t] \cup Range(mail'[t])
                          \/ InFlight(n)
        BY <2>2, <3>6 DEF HeardOK, Unread, InFlight
      <4>1. \/ n \in base[t] \cup got[t] \cup lost[t] \cup Range(mail[t])
            \/ InFlight(n)
        BY DEF IInv, HeardOK
      <4> QED BY <4>1, <3>4
    <3>8. ClosedOK'
      BY <2>2, <3>5, <3>6 DEF IInv, ClosedOK, InGroup
    <3>9. RowsOK'
      BY <2>2, <3>6, RowsFrame DEF IInv
    <3> QED BY <2>2, <3>3, <3>6, <3>7, <3>8, <3>9, ClientStep
  <2> QED BY <1>9, <2>1, <2>2 DEF Deliver
<1>10. CASE disconnect(s) \/ close_after(s)
  BY <1>2, <1>10 DEF disconnect, close_after
<1> QED BY <1>1, <1>5, <1>6, <1>7, <1>8, <1>9, <1>10 DEF Consumer

LEMMA InboxStep ==
  ASSUME IInv, NEW rowsOf \in [Notes -> NoteStates], Inbox(rowsOf),
         \A n \in Notes : rowsOf[n] = "unread" => notes[n] = "unread"
  PROVE  IInv'
<1>1. /\ notes' = rowsOf
      /\ UNCHANGED <<active, avatar, logs, files, sockets, faults, used, mix, request>>
  BY DEF Inbox
<1>2. UNCHANGED <<state, base, got, mail, lost, late, unclosed, doubt, raced, orphans, patched, after>>
  BY <1>1 DEF sockets, faults, request
<1>3. RowsOK'
  BY <1>1, <1>2 DEF IInv, RowsOK, NoLog
<1>4. SocketsOK' /\ ClosedOK'
  BY <1>1, <1>2, SocketsFrame, ClosedFrame DEF IInv
<1>5. Unread' \subseteq Unread
  BY <1>1 DEF Unread
<1>6. HeardOK'
  BY <1>2, <1>5 DEF IInv, HeardOK, InFlight
<1> QED BY <1>1, <1>2, <1>3, <1>4, <1>6, ClientStep

LEMMA InboxSteps ==
  ASSUME IInv, mark_all_read \/ \E n \in Notes : perform_destroy(n)
  PROVE  IInv'
<1>1. notes \in [Notes -> NoteStates]
  BY DEF IInv, RowsOK
<1>2. CASE mark_all_read
  <2> DEFINE f == [n \in Notes |-> IF n \in Unread THEN "read" ELSE notes[n]]
  <2>1. f \in [Notes -> NoteStates] /\ \A n \in Notes : f[n] = "unread" => notes[n] = "unread"
    BY <1>1 DEF NoteStates
  <2>2. Inbox(f)
    BY <1>2 DEF mark_all_read
  <2> HIDE DEF f
  <2> QED BY <2>1, <2>2, InboxStep
<1>3. CASE \E n \in Notes : perform_destroy(n)
  <2>1. PICK n \in Notes : perform_destroy(n)
    BY <1>3
  <2> DEFINE f == [notes EXCEPT ![n] = "hidden"]
  <2>2. f \in [Notes -> NoteStates] /\ \A m \in Notes : f[m] = "unread" => notes[m] = "unread"
    BY <1>1 DEF NoteStates
  <2>3. Inbox(f)
    BY <2>1 DEF perform_destroy
  <2> HIDE DEF f
  <2> QED BY <2>2, <2>3, InboxStep
<1> QED BY <1>2, <1>3

--------------------------------------------------------------------------------
(* Callbacks, and a worker that dies. *)

LEMMA EntryOK ==
  ASSUME NEW e \in Entries
  PROVE  /\ e[1] \in {"file", "evidence", "push", "close"} /\ e = <<e[1], e[2]>>
         /\ e[1] \in {"file", "evidence"} => e[2] \in Keys
         /\ e[1] = "push" => e[2] \in Notes
         /\ e[1] = "close" => e[2] = None
BY DEF Entries

(* Fewer callbacks are due and the files deleted are ones that were due. *)
LEMMA FewerCallbacks ==
  ASSUME IInv, UNCHANGED <<avatar, logs, used, doubt, raced>>, files' \subseteq files,
         \A q \in Requests : /\ Range(after'[q]) \subseteq Range(after[q])
                             /\ snap'[q].key \in {snap[q].key, None},
         \A k \in files \ files' :
           \E q \in Requests : k \in Owed(q, "file") \cup Owed(q, "evidence")
  PROVE  KeysOK' /\ ImagesOK' /\ \A s \in Slots, r \in Requests : LogStep(r, s)
<1>1. KeysOK /\ ImagesOK
  BY DEF IInv
<1>2. LogKeys' = LogKeys
  BY DEF LogKeys
<1>3. \A q \in Requests : /\ Owed(q, "file")' \subseteq Owed(q, "file")
                          /\ Owed(q, "evidence")' \subseteq Owed(q, "evidence")
  BY DEF Owed
<1>4. \A k \in files \ files' : k \in LogKeys \/ \E q \in Requests : k \in Owed(q, "file")
  BY <1>1 DEF KeysOK
<1>5. KeysOK'
  <2>1. /\ files' \subseteq used' /\ LogKeys' \subseteq used'
        /\ \A o \in Owners : avatar'[o] \in used' \cup {None} /\ avatar'[o] \notin LogKeys'
        /\ avatar'["profile"] = avatar'["clan"] => avatar'["clan"] = None
    BY <1>1, <1>2 DEF KeysOK
  <2>2. \A q \in Requests : LET x == snap'[q].key IN x # None =>
          /\ x \in files' /\ x \notin LogKeys' /\ \A o \in Owners : avatar'[o] # x
          /\ \A p \in Requests : x \notin Owed(p, "file")' /\ (p # q => snap'[p].key # x)
    <3>1. \A q \in Requests : LET x == snap[q].key IN x # None =>
            /\ x \in files /\ x \notin LogKeys /\ \A o \in Owners : avatar[o] # x
            /\ \A p \in Requests : x \notin Owed(p, "file") /\ (p # q => snap[p].key # x)
      BY <1>1 DEF KeysOK
    <3> QED BY <1>2, <1>3, <1>4, <3>1
  <2>3. \A q \in Requests : /\ Owed(q, "file")' \subseteq used' \ LogKeys'
                            /\ \A o \in Owners : avatar'[o] \notin Owed(q, "file")'
                            /\ Owed(q, "evidence")' \subseteq LogKeys'
    BY <1>1, <1>2, <1>3 DEF KeysOK
  <2> QED BY <2>1, <2>2, <2>3 DEF KeysOK
<1>6. ImagesOK'
  <2>1. \A o \in Owners : avatar[o] # None => avatar[o] \in files'
    BY <1>1, <1>4 DEF KeysOK, ImagesOK
  <2>3. LogKeys \subseteq files' \cup doubt \cup raced \cup DroppedKeys
    <3> SUFFICES ASSUME NEW k \in LogKeys, k \in files \ files'
                 PROVE  k \in raced \cup DroppedKeys
      BY <1>1 DEF ImagesOK
    <3>1. PICK q \in Requests : k \in Owed(q, "file") \cup Owed(q, "evidence")
      OBVIOUS
    <3>2. k \in Owed(q, "evidence")
      BY <3>1, <1>1 DEF KeysOK
    <3> QED BY <3>2, <1>1 DEF ImagesOK
  <2>4. DroppedKeys' = DroppedKeys
    BY DEF DroppedKeys
  <2> QED BY <1>1, <1>2, <1>3, <2>1, <2>3, <2>4 DEF ImagesOK
<1> QED BY <1>5, <1>6 DEF LogStep

(* One callback has run. *)
LEMMA PoppedStep ==
  ASSUME IInv, NEW r \in Requests, NEW kinds, Running(r, kinds), Popped(r),
         logs' = logs
  PROVE  /\ Alone(r) /\ ControlOK(r)' /\ ReadOK(r)' /\ snap' = snap
         /\ Head(after[r]) \in Entries
         /\ Range(after[r]) = {Head(after[r])} \cup Range(after'[r])
         /\ \A q \in Requests \ {r} : after'[q] = after[q]
<1>1. ControlOK(r) /\ ReadOK(r) /\ RequestsOK /\ LocksOK
  BY DEF IInv
<1>2. after[r] \in Seq(Entries) /\ after[r] # <<>> /\ pc[r] = "after"
  BY <1>1 DEF RequestsOK, Running
<1>3. /\ Head(after[r]) \in Entries /\ Tail(after[r]) \in Seq(Entries)
      /\ Range(after[r]) = {Head(after[r])} \cup Range(Tail(after[r]))
  BY <1>2, RangeTail
<1>4. Moves(r, "after", input[r], snap[r], held[r], Tail(after[r])) /\ mix' = mix
  BY <1>1, <1>2 DEF Popped, Moves, RequestsOK
<1>5. /\ "after" \in Labels /\ snap[r] \in Snaps /\ IsFiniteSet(snap[r].keys)
      /\ Free(r, held[r])
  BY <1>1 DEF Labels, RequestsOK, LocksOK, Free
<1>6. /\ Alone(r)
      /\ pc'[r] = "after" /\ input'[r] = input[r] /\ snap'[r] = snap[r]
      /\ held'[r] = held[r] /\ after'[r] = Tail(after[r])
  BY <1>1, <1>3, <1>4, <1>5, RequestStep DEF Moves
<1>7. ControlOK(r)'
  BY <1>1, <1>2, <1>6 DEF ControlOK
<1>8. ReadOK(r)'
  BY <1>1, <1>2, <1>6 DEF ReadOK, LogKeys
<1> QED BY <1>3, <1>6, <1>7, <1>8 DEF Popped, Alone, Untouched

LEMMA DeleteFileStep ==
  ASSUME IInv, NEW r \in Requests, DeleteFile(r)
  PROVE  IInv'
<1> DEFINE e == Head(after[r])
<1>1. /\ Running(r, {"file", "evidence"}) /\ files' = files \ {e[2]} /\ Popped(r)
      /\ UNCHANGED <<rows, sockets, faults, used>>
  BY DEF DeleteFile
<1>2. UNCHANGED <<active, avatar, logs, notes, state, base, got, mail, lost, late, unclosed>>
      /\ UNCHANGED <<doubt, raced, orphans, patched, used>>
  BY <1>1 DEF rows, sockets, faults
<1>3. /\ Alone(r) /\ ControlOK(r)' /\ ReadOK(r)' /\ snap' = snap /\ e \in Entries
      /\ Range(after[r]) = {e} \cup Range(after'[r])
      /\ \A q \in Requests \ {r} : after'[q] = after[q]
  BY <1>1, <1>2, PoppedStep
<1>4. e[1] \in {"file", "evidence"}
  BY <1>1 DEF Running
<1>5. e = <<e[1], e[2]>> /\ e[2] \in Keys
  BY <1>3, <1>4, EntryOK
<1> HIDE DEF e
<1>6. \A k \in files \ files' :
        \E q \in Requests : k \in Owed(q, "file") \cup Owed(q, "evidence")
  <2>1. e[2] \in Owed(r, "file") \cup Owed(r, "evidence")
    BY <1>3, <1>4, <1>5 DEF Owed
  <2> QED BY <1>1, <2>1
<1>7. \A q \in Requests : Range(after'[q]) \subseteq Range(after[q])
  BY <1>3
<1>8. KeysOK' /\ ImagesOK' /\ \A s \in Slots : LogStep(r, s)
  BY <1>1, <1>2, <1>3, <1>6, <1>7, FewerCallbacks
<1>9. LeakOK'
  <2>1. \A q \in Requests, k \in files' :
          /\ k \in Owed(q, "file") => k \in Owed(q, "file")'
          /\ k \in Owed(q, "evidence") => k \in Owed(q, "evidence")'
    BY <1>1, <1>3, <1>5 DEF Owed
  <2> QED BY <1>1, <1>2, <1>3, <2>1 DEF LeakOK, IInv
<1>10. \A q \in Requests : \A n :
         (<<"push", n>> \in Range(after[q]) => <<"push", n>> \in Range(after'[q]))
         /\ (<<"close", n>> \in Range(after[q]) => <<"close", n>> \in Range(after'[q]))
  BY <1>3, <1>4, <1>5
<1>11. HeardOK'
  BY <1>2, <1>10 DEF HeardOK, IInv, Unread, InFlight
<1>12. ClosedOK'
  BY <1>2, <1>10 DEF ClosedOK, IInv, InGroup
<1>13. RowsOK' /\ SocketsOK'
  BY <1>1, <1>2, SocketsFrame DEF IInv, RowsOK, NoLog
<1> QED BY <1>3, <1>8, <1>9, <1>11, <1>12, <1>13, Assemble

(* An event handed to some sockets is in their mailboxes. *)
LEMMA MailedOK ==
  ASSUME SocketsOK, NEW S \in SUBSET Sockets, NEW event \in Notes \cup {None}
  PROVE  /\ Mailed(S, event) \in [Sockets -> Seq(Notes \cup {None})]
         /\ \A s \in Sockets : Range(mail[s]) \subseteq Range(Mailed(S, event)[s])
         /\ \A s \in S : event \in Range(Mailed(S, event)[s])
<1>1. \A s \in Sockets :
        /\ Append(mail[s], event) \in Seq(Notes \cup {None})
        /\ Range(Append(mail[s], event)) = Range(mail[s]) \cup {event}
  BY RangeAppend DEF SocketsOK
<1> QED BY <1>1 DEF Mailed, SocketsOK

LEMMA push_notificationStep ==
  ASSUME IInv, NEW r \in Requests, push_notification(r)
  PROVE  IInv'
<1> DEFINE e == Head(after[r])
           n == e[2]
<1>1. /\ Running(r, {"push"}) /\ Popped(r)
      /\ \E heard \in {Room, {}} : mail' = Mailed(heard, n)
                                   /\ lost' = Missed(Group \ heard, {n})
      /\ UNCHANGED <<rows, files, state, base, got, late, unclosed, faults, used>>
  BY DEF push_notification
<1>2. PICK heard \in {Room, {}} : mail' = Mailed(heard, n)
                                  /\ lost' = Missed(Group \ heard, {n})
  BY <1>1
<1>3. UNCHANGED <<active, avatar, logs, notes, files, state, base, got, late, unclosed>>
      /\ UNCHANGED <<doubt, raced, orphans, patched, used>>
  BY <1>1 DEF rows, faults
<1>4. /\ Alone(r) /\ ControlOK(r)' /\ ReadOK(r)' /\ snap' = snap /\ e \in Entries
      /\ Range(after[r]) = {e} \cup Range(after'[r])
      /\ \A q \in Requests \ {r} : after'[q] = after[q]
  BY <1>1, <1>3, PoppedStep
<1>5. e[1] = "push"
  BY <1>1 DEF Running
<1>6. e = <<"push", n>> /\ n \in Notes
  BY <1>4, <1>5, EntryOK
<1> HIDE DEF e, n
<1>7. heard \subseteq Group /\ Group \subseteq Sockets /\ SocketsOK
  BY <1>2 DEF Room, Group, IInv
<1>8. /\ mail' \in [Sockets -> Seq(Notes \cup {None})]
      /\ \A s \in Sockets : Range(mail[s]) \subseteq Range(mail'[s])
      /\ \A s \in heard : n \in Range(mail'[s])
  BY <1>2, <1>6, <1>7, MailedOK
<1>9. /\ lost' \in [Sockets -> SUBSET Notes]
      /\ \A s \in Sockets : lost[s] \subseteq lost'[s]
      /\ \A s \in Group \ heard : n \in lost'[s]
  BY <1>2, <1>6, <1>7 DEF Missed, SocketsOK
<1>10. SocketsOK'
  BY <1>3, <1>7, <1>8, <1>9 DEF SocketsOK
<1>11. \A q \in Requests : Range(after'[q]) \subseteq Range(after[q])
  BY <1>4
<1>12. KeysOK' /\ ImagesOK' /\ \A s \in Slots : LogStep(r, s)
  BY <1>3, <1>4, <1>11, FewerCallbacks
<1>13. LeakOK'
  <2>1. \A q \in Requests : Owed(q, "file") \subseteq Owed(q, "file")'
                            /\ Owed(q, "evidence") \subseteq Owed(q, "evidence")'
    BY <1>4, <1>6 DEF Owed
  <2> QED BY <1>3, <1>4, <2>1 DEF LeakOK, IInv
<1>14. HeardOK'
  <2> SUFFICES ASSUME NEW s \in Sockets, NEW m \in Unread \ patched,
                      state[s] \in {"counted", "open"}
               PROVE  \/ m \in base[s] \cup got[s] \cup lost'[s] \cup Range(mail'[s])
                      \/ InFlight(m)'
    BY <1>3 DEF HeardOK, Unread
  <2>1. \/ m \in base[s] \cup got[s] \cup lost[s] \cup Range(mail[s])
        \/ InFlight(m)
    BY DEF HeardOK, IInv
  <2>2. CASE m = n
    <3>1. s \in Group
      BY DEF Group, InGroup
    <3> QED BY <2>2, <3>1, <1>8, <1>9
  <2>3. CASE m # n
    <3>1. InFlight(m) => InFlight(m)'
      BY <2>3, <1>4, <1>6 DEF InFlight
    <3> QED BY <2>1, <3>1, <1>8, <1>9
  <2> QED BY <2>2, <2>3
<1>15. ClosedOK'
  <2>1. \A q \in Requests :
          <<"close", None>> \in Range(after[q]) => <<"close", None>> \in Range(after'[q])
    BY <1>4, <1>6
  <2> QED BY <1>3, <1>8, <2>1 DEF ClosedOK, IInv, InGroup
<1>16. RowsOK'
  BY <1>1, <1>3, RowsFrame DEF IInv
<1> QED BY <1>4, <1>10, <1>12, <1>13, <1>14, <1>15, <1>16, Assemble

LEMMA close_user_socketsStep ==
  ASSUME IInv, NEW r \in Requests, close_user_sockets(r)
  PROVE  IInv'
<1> DEFINE e == Head(after[r])
<1>1. /\ Running(r, {"close"}) /\ Popped(r) /\ mail' = Mailed(Room, None)
      /\ unclosed' = Group \ Room
      /\ UNCHANGED <<rows, files, state, base, got, lost, late, faults, used>>
  BY DEF close_user_sockets
<1>2. UNCHANGED <<active, avatar, logs, notes, files, state, base, got, lost, late>>
      /\ UNCHANGED <<doubt, raced, orphans, patched, used>>
  BY <1>1 DEF rows, faults
<1>3. /\ Alone(r) /\ ControlOK(r)' /\ ReadOK(r)' /\ snap' = snap /\ e \in Entries
      /\ Range(after[r]) = {e} \cup Range(after'[r])
      /\ \A q \in Requests \ {r} : after'[q] = after[q]
  BY <1>1, <1>2, PoppedStep
<1>4. e[1] = "close"
  BY <1>1 DEF Running
<1>5. e = <<"close", None>>
  BY <1>3, <1>4, EntryOK
<1> HIDE DEF e
<1>6. Room \subseteq Group /\ Group \subseteq Sockets /\ SocketsOK
  BY DEF Room, Group, IInv
<1>7. /\ mail' \in [Sockets -> Seq(Notes \cup {None})]
      /\ \A s \in Sockets : Range(mail[s]) \subseteq Range(mail'[s])
      /\ \A s \in Room : None \in Range(mail'[s])
  BY <1>1, <1>6, MailedOK
<1>8. SocketsOK'
  BY <1>2, <1>6, <1>7 DEF SocketsOK
<1>9. \A q \in Requests : Range(after'[q]) \subseteq Range(after[q])
  BY <1>3
<1>10. KeysOK' /\ ImagesOK' /\ \A s \in Slots : LogStep(r, s)
  BY <1>2, <1>3, <1>9, FewerCallbacks
<1>11. LeakOK'
  <2>1. \A q \in Requests : Owed(q, "file") \subseteq Owed(q, "file")'
                            /\ Owed(q, "evidence") \subseteq Owed(q, "evidence")'
    BY <1>3, <1>5 DEF Owed
  <2> QED BY <1>1, <1>2, <1>3, <2>1 DEF LeakOK, IInv
<1>12. HeardOK'
  <2> SUFFICES ASSUME NEW s \in Sockets, NEW m \in Unread \ patched,
                      state[s] \in {"counted", "open"}
               PROVE  \/ m \in base[s] \cup got[s] \cup lost[s] \cup Range(mail'[s])
                      \/ InFlight(m)'
    BY <1>2 DEF HeardOK, Unread
  <2>1. \/ m \in base[s] \cup got[s] \cup lost[s] \cup Range(mail[s])
        \/ InFlight(m)
    BY DEF HeardOK, IInv
  <2>2. InFlight(m) => InFlight(m)'
    BY <1>3, <1>5 DEF InFlight
  <2> QED BY <2>1, <2>2, <1>7
<1>13. ClosedOK'
  <2> SUFFICES ASSUME NEW s \in Sockets, InGroup(s)'
               PROVE  s \in unclosed' \/ None \in Range(mail'[s])
    BY DEF ClosedOK
  <2>1. s \in Group
    BY <1>2 DEF Group, InGroup
  <2> QED BY <2>1, <1>1, <1>7
<1>14. RowsOK'
  BY <1>1, <1>2, RowsFrame DEF IInv
<1> QED BY <1>3, <1>8, <1>10, <1>11, <1>12, <1>13, <1>14, Assemble

(* A fault drops callbacks of r, or the clean-up of its new file.           *)
LEMMA FaultStep ==
  ASSUME IInv, NEW r \in Requests, Alone(r), ControlOK(r)', ReadOK(r)',
         NEW entries, NEW left, LeaveUndone(entries, left),
         snap'[r].key \in {snap[r].key, None},
         {snap[r].key} \ {snap'[r].key, None} \subseteq left,
         Range(after'[r]) \subseteq Range(after[r]),
         Range(after[r]) \subseteq Range(after'[r]) \cup entries,
         UNCHANGED <<rows, files, state, base, got, mail, late, doubt, raced, patched, used>>
  PROVE  IInv'
<1>1. UNCHANGED <<active, avatar, logs, notes, files, state, base, got, mail, late>>
      /\ UNCHANGED <<doubt, raced, patched, used>>
  BY DEF rows
<1>2. \A q \in Requests : /\ snap'[q].key \in {snap[q].key, None}
                          /\ Range(after'[q]) \subseteq Range(after[q])
                          /\ Range(after[q]) \subseteq Range(after'[q]) \cup entries
                          /\ {snap[q].key} \ {snap'[q].key, None} \subseteq left
  BY DEF Alone, Untouched
<1>3. KeysOK' /\ ImagesOK' /\ \A s \in Slots : LogStep(r, s)
  BY <1>1, <1>2, FewerCallbacks
<1>4. LeakOK'
  <2> SUFFICES ASSUME NEW k \in files \ orphans'
               PROVE  \/ \E o \in Owners : avatar[o] = k
                      \/ \E s \in Slots : logs[s].key = k /\ logs[s].status # "DROPPED"
                      \/ \E q \in Requests : k = snap'[q].key \/
                           k \in Owed(q, "file")' \cup Owed(q, "evidence")'
    BY <1>1 DEF LeakOK
  <2>1. k \in Keys /\ k # None /\ k \notin orphans \cup left
        /\ <<"file", k>> \notin entries /\ <<"evidence", k>> \notin entries
    BY AfterCommitAssumption DEF LeaveUndone, IInv, RowsOK
  <2>2. \/ \E o \in Owners : avatar[o] = k
        \/ \E s \in Slots : logs[s].key = k /\ logs[s].status # "DROPPED"
        \/ \E q \in Requests : k = snap[q].key \/ k \in Owed(q, "file") \cup Owed(q, "evidence")
    BY <2>1 DEF IInv, LeakOK
  <2>3. ASSUME NEW q \in Requests,
               k = snap[q].key \/ k \in Owed(q, "file") \cup Owed(q, "evidence")
        PROVE  k = snap'[q].key \/ k \in Owed(q, "file")' \cup Owed(q, "evidence")'
    BY <1>2, <2>1, <2>3 DEF Owed
  <2> QED BY <2>2, <2>3
<1>5. \A s \in Sockets : lost'[s] = lost[s] \cup {n \in Notes : <<"push", n>> \in entries}
  BY DEF LeaveUndone, Missed
<1>6. lost' \in [Sockets -> SUBSET Notes]
  BY <1>5 DEF LeaveUndone, Missed, IInv, SocketsOK
<1>7. RowsOK' /\ SocketsOK'
  BY <1>1, <1>6, RowsFrame DEF IInv, SocketsOK
<1>8. HeardOK'
  <2> SUFFICES ASSUME NEW s \in Sockets, NEW m \in Unread \ patched,
                      state[s] \in {"counted", "open"}
               PROVE  \/ m \in base[s] \cup got[s] \cup lost'[s] \cup Range(mail[s])
                      \/ InFlight(m)'
    BY <1>1 DEF HeardOK, Unread
  <2>1. \/ m \in base[s] \cup got[s] \cup lost[s] \cup Range(mail[s])
        \/ InFlight(m)
    BY DEF HeardOK, IInv
  <2>2. InFlight(m) => InFlight(m)' \/ <<"push", m>> \in entries
    BY <1>2 DEF InFlight
  <2>3. m \in Notes
    BY DEF Unread
  <2> QED BY <2>1, <2>2, <2>3, <1>5
<1>9. ClosedOK'
  <2> SUFFICES ASSUME ~active, NEW s \in Sockets, InGroup(s)
               PROVE  \/ s \in late \cup unclosed' \/ None \in Range(mail[s])
                      \/ \E q \in Requests : <<"close", None>> \in Range(after'[q])
    BY <1>1 DEF ClosedOK, InGroup
  <2>1. \/ s \in late \cup unclosed \/ None \in Range(mail[s])
        \/ \E q \in Requests : <<"close", None>> \in Range(after[q])
    BY DEF ClosedOK, IInv
  <2>2. unclosed \subseteq unclosed' /\ (<<"close", None>> \in entries => s \in unclosed')
    BY DEF LeaveUndone, Group
  <2> QED BY <2>1, <2>2, <1>2
<1> QED BY <1>3, <1>4, <1>7, <1>8, <1>9, Assemble

LEMMA FailCallbackStep ==
  ASSUME IInv, NEW r \in Requests, FailCallback(r)
  PROVE  IInv'
<1> DEFINE e == Head(after[r])
<1>1. /\ Running(r, {"file", "evidence", "close"})
      /\ IF e[1] = "evidence" THEN LeaveUndone(Range(after[r]), {}) /\ End(r)
                              ELSE LeaveUndone({e}, {}) /\ Popped(r)
      /\ UNCHANGED <<rows, files, state, base, got, mail, late, doubt, raced, patched, used>>
  BY DEF FailCallback
<1>2. logs' = logs /\ ControlOK(r) /\ pc[r] = "after"
  BY <1>1 DEF rows, IInv, Running
<1>3. snap[r].key = None
  BY <1>2 DEF ControlOK
<1>4. CASE e[1] = "evidence"
  <2>1. /\ Alone(r) /\ ControlOK(r)' /\ ReadOK(r)'
        /\ snap'[r].key = None /\ after' = [after EXCEPT ![r] = <<>>]
    BY <1>1, <1>4, EndStep
  <2>2. Range(after'[r]) = {}
    BY <2>1, RangeEmpty DEF IInv, RequestsOK
  <2> QED BY <1>1, <1>3, <1>4, <2>1, <2>2, FaultStep
<1>5. CASE e[1] # "evidence"
  <2>1. /\ Alone(r) /\ ControlOK(r)' /\ ReadOK(r)' /\ snap' = snap
        /\ Range(after[r]) = {e} \cup Range(after'[r])
    BY <1>1, <1>2, <1>5, PoppedStep
  <2> HIDE DEF e
  <2> QED BY <1>1, <1>5, <2>1, FaultStep
<1> QED BY <1>4, <1>5

LEMMA CrashStep ==
  ASSUME IInv, NEW r \in Requests, Crash(r)
  PROVE  IInv'
<1>1. LeaveUndone(Range(after[r]), {snap[r].key} \ {None}) /\ End(r)
      /\ UNCHANGED <<rows, files, state, base, got, mail, late, doubt, raced, patched, used>>
  BY DEF Crash
<1>2. /\ Alone(r) /\ ControlOK(r)' /\ ReadOK(r)'
      /\ snap'[r].key = None /\ after' = [after EXCEPT ![r] = <<>>]
  BY <1>1, EndStep
<1>3. Range(after'[r]) = {}
  BY <1>2, RangeEmpty DEF IInv, RequestsOK
<1> QED BY <1>1, <1>2, <1>3, FaultStep

--------------------------------------------------------------------------------
(* The commit, whether or not its answer arrives. *)

(* The photo that the commit of r replaces or removes. *)
Due(r) ==
  (CASE input[r].op \in Owners -> {avatar[input[r].op]}
     [] input[r].op \in {"link", "deactivate"} -> {avatar["profile"]}
     [] OTHER -> {}) \ {None}

(* What the rows become, photo by photo and log by log. *)
AvatarsChanged(r) ==
  /\ avatar' \in [Owners -> Keys \cup {None}]
  /\ \A o \in Owners :
       /\ avatar'[o] \in {avatar[o], None} \/ (input[r].op = o /\ avatar'[o] = snap[r].key)
       /\ avatar[o] # None /\ avatar'[o] # avatar[o] => avatar[o] \in Due(r)
       /\ avatar'[o] \notin Due(r)
  /\ \A k \in Due(r) : \E o \in Owners : avatar[o] = k
  /\ avatar'["profile"] = avatar'["clan"] => avatar'["clan"] = None

Submitted(r, s) ==
  /\ input[r].op = "submit" /\ s = input[r].slot /\ logs[s] = NoLog
  /\ logs'[s] = [status |-> "PENDING", key |-> EvidenceKey(r)] /\ "user" \in held[r]

Audited(r, s) ==
  /\ s \in held[r] /\ logs[s].status \in {"PENDING", "APPROVED"}
  /\ input[r].op \in AuditOps /\ logs'[s].key = logs[s].key
  /\ logs'[s].status \in {"APPROVED", "REJECTED"}

Dropped(r, s) ==
  /\ s \in held[r] /\ logs[s].status = "PENDING" /\ logs[s].key \in snap[r].keys \cup {None}
  /\ input[r].op = "deactivate" /\ logs'[s].key = logs[s].key
  /\ logs'[s].status = "DROPPED"

LogsChanged(r) ==
  /\ logs' \in [Slots -> [status : {"NONE", "PENDING", "APPROVED", "REJECTED", "DROPPED"},
                          key : Keys \cup {None}]]
  /\ \A s \in Slots :
       logs'[s] = logs[s] \/ Submitted(r, s) \/ Audited(r, s) \/ Dropped(r, s)

(* What r knows when it commits. *)
LEMMA CommitReady ==
  ASSUME IInv, NEW r \in Requests, CanCommit(r)
  PROVE  /\ pc[r] = "commit" /\ after[r] = <<>>
         /\ input[r].op \in Owners \cup AuditOps \cup {"link", "submit", "deactivate"}
         /\ input[r].op \in AuditOps \cup {"submit"} => input[r].slot \in Slots
         /\ snap[r] \in Snaps
         /\ snap[r].key # None => /\ input[r].op \in Owners \cup {"submit"}
                                  /\ snap[r].key \in files \ LogKeys
                                  /\ \A o \in Owners : avatar[o] # snap[r].key
         /\ input[r].op = "submit" =>
              IF snap[r].key = None THEN EvidenceKey(r) \in LogKeys \cup {None}
                                    ELSE EvidenceKey(r) = snap[r].key
         /\ LogKeys \subseteq Keys
         /\ snap[r].keys # {} => input[r].op = "deactivate"
         /\ IsFiniteSet(snap[r].keys) /\ snap[r].keys \subseteq LogKeys
         /\ None \notin Keys
<1>1. ControlOK(r) /\ ReadOK(r) /\ KeysOK /\ pc[r] = "commit"
  BY DEF IInv, CanCommit
<1>2. snap[r].key # None => /\ input[r].op \in Owners \cup {"submit"}
                            /\ snap[r].key \in files \ LogKeys
                            /\ \A o \in Owners : avatar[o] # snap[r].key
  BY <1>1 DEF ControlOK, KeysOK
<1>3. snap[r] \in Snaps /\ IsFiniteSet(snap[r].keys)
  BY DEF IInv, RequestsOK
<1>4. input[r].op = "submit" =>
        IF snap[r].key = None THEN EvidenceKey(r) \in LogKeys \cup {None}
                              ELSE EvidenceKey(r) = snap[r].key
  BY <1>1 DEF ControlOK, ReadOK, EvidenceKey
<1>5. LogKeys \subseteq Keys
  BY DEF LogKeys, IInv, RowsOK
<1> QED BY <1>1, <1>2, <1>3, <1>4, <1>5, AfterCommitAssumption DEF ControlOK, ReadOK

LEMMA ApplyAvatars ==
  ASSUME IInv, NEW r \in Requests, CanCommit(r), NEW n, Apply(r, n)
  PROVE  AvatarsChanged(r)
<1> DEFINE op == input[r].op
           k == snap[r].key
<1>1. /\ op \in Owners \cup AuditOps \cup {"link", "submit", "deactivate"}
      /\ k \in Keys \cup {None} /\ None \notin Keys
      /\ k # None => \A o \in Owners : avatar[o] # k
  BY CommitReady DEF Snaps
<1>2. avatar' = CASE op \in Owners -> [avatar EXCEPT ![op] = k]
                  [] op \in {"link", "deactivate"} -> [avatar EXCEPT !["profile"] = None]
                  [] OTHER -> avatar
  BY DEF Apply
<1>3. /\ avatar \in [Owners -> Keys \cup {None}]
      /\ avatar["profile"] = avatar["clan"] => avatar["clan"] = None
      /\ "profile" \in Owners /\ "clan" \in Owners
  BY DEF IInv, RowsOK, KeysOK, Owners
<1>4. CASE op \in Owners
  <2>1. avatar' = [avatar EXCEPT ![op] = k] /\ Due(r) = {avatar[op]} \ {None}
    <3>1. op \notin {"link", "deactivate"}
      BY <1>4 DEF Owners
    <3> QED BY <1>2, <1>4, <3>1 DEF Due
  <2>2. op = "profile" \/ op = "clan"
    BY <1>4 DEF Owners
  <2> QED BY <1>1, <1>3, <1>4, <2>1, <2>2 DEF AvatarsChanged, Owners
<1>5. CASE op \in {"link", "deactivate"}
  <2>1. op \notin Owners
    BY <1>5 DEF Owners
  <2>2. avatar' = [avatar EXCEPT !["profile"] = None]
        /\ Due(r) = {avatar["profile"]} \ {None}
    BY <1>2, <1>5, <2>1 DEF Due
  <2> QED BY <1>3, <2>2 DEF AvatarsChanged, Owners
<1>6. CASE op \in AuditOps \cup {"submit"}
  <2>1. op \notin Owners \cup {"link", "deactivate"}
    BY <1>6 DEF Owners, AuditOps
  <2>2. avatar' = avatar /\ Due(r) = {}
    BY <1>2, <2>1 DEF Due
  <2> QED BY <1>3, <2>2 DEF AvatarsChanged
<1> QED BY <1>1, <1>4, <1>5, <1>6

LEMMA ApplyLogs ==
  ASSUME IInv, NEW r \in Requests, CanCommit(r), NEW n, Apply(r, n)
  PROVE  LogsChanged(r)
<1> DEFINE op == input[r].op
           t == input[r].slot
           k == EvidenceKey(r)
           L == [status : {"NONE", "PENDING", "APPROVED", "REJECTED", "DROPPED"},
                 key : Keys \cup {None}]
<1>1. /\ op \in Owners \cup AuditOps \cup {"link", "submit", "deactivate"}
      /\ op \in AuditOps \cup {"submit"} => t \in Slots
      /\ op = "submit" => k \in Keys \cup {None}
  BY CommitReady DEF Snaps
<1>2. /\ logs \in [Slots -> L] /\ ReadOK(r) /\ ControlOK(r) /\ pc[r] = "commit"
  BY DEF IInv, RowsOK, CanCommit
<1>3. CASE op = "submit"
  <2>1. logs' = [logs EXCEPT ![t] = [status |-> "PENDING", key |-> k]]
    BY <1>3 DEF Apply
  <2>2. logs[t] = NoLog /\ "user" \in held[r]
    BY <1>2, <1>3 DEF ReadOK, ControlOK
  <2>3. [status |-> "PENDING", key |-> k] \in L
    BY <1>1, <1>3
  <2>4. logs' \in [Slots -> L]
    BY <1>2, <2>1, <2>3
  <2>5. \A s \in Slots : logs'[s] = logs[s] \/ Submitted(r, s)
    BY <1>1, <1>2, <1>3, <2>1, <2>2 DEF Submitted
  <2> QED BY <2>4, <2>5 DEF LogsChanged
<1>4. CASE op \in AuditOps
  <2>1. PICK st \in {"APPROVED", "REJECTED"} : logs' = [logs EXCEPT ![t].status = st]
    BY <1>4 DEF Apply, AuditOps
  <2>2. t \in held[r] /\ logs[t].status \in {"PENDING", "APPROVED"} /\ t \in Slots
    BY <1>1, <1>2, <1>4 DEF ReadOK, Auditable
  <2>3. [logs[t] EXCEPT !.status = st] \in L
    BY <1>2, <2>2
  <2>4. logs' \in [Slots -> L]
    BY <1>2, <2>1, <2>3
  <2>5. logs'[t].key = logs[t].key /\ logs'[t].status = st
    BY <1>2, <2>1, <2>2
  <2>6. \A s \in Slots \ {t} : logs'[s] = logs[s]
    BY <1>2, <2>1, <2>2
  <2>7. Audited(r, t)
    BY <1>4, <2>2, <2>5 DEF Audited
  <2> QED BY <2>4, <2>6, <2>7 DEF LogsChanged
<1>5. CASE op = "deactivate"
  <2> DEFINE D == Slots \cap held[r]
  <2>1. logs' = [s \in Slots |-> IF s \in D THEN [logs[s] EXCEPT !.status = "DROPPED"]
                                            ELSE logs[s]]
    BY <1>5 DEF Apply
  <2>2. \A s \in D : logs[s].status = "PENDING" /\ logs[s].key \in snap[r].keys \cup {None}
    BY <1>2, <1>5 DEF ReadOK
  <2>3. \A s \in Slots : [logs[s] EXCEPT !.status = "DROPPED"] \in L
    BY <1>2
  <2>4. logs' \in [Slots -> L]
    BY <1>2, <2>1, <2>3
  <2>5. \A s \in D : logs'[s].key = logs[s].key /\ logs'[s].status = "DROPPED"
    BY <1>2, <2>1
  <2>6. \A s \in Slots \ D : logs'[s] = logs[s]
    BY <2>1
  <2>7. \A s \in D : Dropped(r, s)
    BY <1>5, <2>2, <2>5 DEF Dropped
  <2> QED BY <2>4, <2>6, <2>7 DEF LogsChanged
<1>6. CASE op \in Owners \cup {"link"}
  <2>1. logs' = logs
    BY <1>6 DEF Apply, Owners
  <2> QED BY <1>2, <2>1 DEF LogsChanged
<1> QED BY <1>1, <1>3, <1>4, <1>5, <1>6

(* Notifications and histories: only an audit's own notification is new. *)
LEMMA ApplyRest ==
  ASSUME IInv, NEW r \in Requests, CanCommit(r), NEW n \in NewNotes(input[r].op),
         Apply(r, n)
  PROVE  /\ active' = (active /\ input[r].op # "deactivate") /\ patched' = patched
         /\ used' = used \cup ({n} \ {None})
         /\ notes' \in [Notes -> NoteStates]
         /\ \A m \in Unread' : m \in Unread \/ m = n
         /\ IF input[r].op \in AuditOps THEN n \in Notes ELSE n = None
         /\ raced \subseteq raced' /\ raced' \subseteq Keys
         /\ \A k \in snap[r].keys : k \in raced' \/ \E s \in Slots \cap held[r] : logs[s].key = k
<1>1. /\ active' = (active /\ input[r].op # "deactivate") /\ patched' = patched
      /\ used' = used \cup ({n} \ {None})
      /\ raced' = raced \cup (snap[r].keys \ {logs[s].key : s \in Slots \cap held[r]})
      /\ notes' = [m \in Notes |-> CASE m = n -> "unread"
                                     [] m \in snap[r].doomed -> "none"
                                     [] OTHER -> notes[m]]
  BY DEF Apply
<1>2. IF input[r].op \in AuditOps THEN n \in Notes ELSE n = None
  BY DEF NewNotes
<1>3. \A m \in Notes : notes'[m] \in {"unread", "none", notes[m]}
                       /\ (notes'[m] = "unread" => m = n \/ notes[m] = "unread")
  <2> TAKE m \in Notes
  <2>1. CASE m = n
    BY <1>1, <2>1
  <2>2. CASE m # n /\ m \in snap[r].doomed
    BY <1>1, <2>2
  <2>3. CASE m # n /\ m \notin snap[r].doomed
    BY <1>1, <2>3
  <2> QED BY <2>1, <2>2, <2>3
<1>4. notes' = [m \in Notes |-> notes'[m]]
  BY <1>1
<1>5. notes' \in [Notes -> NoteStates]
  BY <1>3, <1>4 DEF IInv, RowsOK, NoteStates
<1>6. \A m \in Unread' : m \in Unread \/ m = n
  BY <1>3 DEF Unread
<1>7. raced \subseteq Keys /\ snap[r].keys \subseteq Keys
  BY CommitReady DEF IInv, RowsOK, Snaps
<1>8. \A k \in snap[r].keys : k \in raced' \/ \E s \in Slots \cap held[r] : logs[s].key = k
  BY <1>1
<1>9. raced \subseteq raced' /\ raced' \subseteq Keys
  BY <1>1, <1>7
<1> QED BY <1>1, <1>2, <1>5, <1>6, <1>8, <1>9

(* The request itself after its commit, and the others. *)
LEMMA OutdateStep ==
  ASSUME IInv, NEW r \in Requests, Outdate(r), NEW a \in {"idle", "after"}, NEW i,
         NEW t \in Seq(Entries), a = "idle" => t = <<>>,
         pc' = [pc EXCEPT ![r] = a], input' = [input EXCEPT ![r] = i],
         held' = [held EXCEPT ![r] = {}], after' = [after EXCEPT ![r] = t],
         mix' = mix
  PROVE  /\ Alone(r) /\ ControlOK(r)' /\ ReadOK(r)' /\ snap'[r].key = None
         /\ after'[r] = t
         /\ \A q \in Requests \ {r} : snap'[q].key = snap[q].key /\ after'[q] = after[q]
<1>1. RequestsOK /\ LocksOK
  BY DEF IInv
<1>2. snap'[r] = Blank /\ snap' = [q \in Requests |-> snap'[q]]
  BY DEF Outdate
<1>3. \A q \in Requests \ {r} :
        /\ snap'[q] \in Snaps /\ snap'[q].key = snap[q].key /\ snap'[q].keys = snap[q].keys
  <2> TAKE q \in Requests \ {r}
  <2>1. snap[q] \in Snaps
    BY <1>1 DEF RequestsOK
  <2>2. snap'[q] = [snap[q] EXCEPT !.stale = TRUE] \/ snap'[q] = snap[q]
    BY DEF Outdate
  <2> QED BY <2>1, <2>2 DEF Snaps
<1>4. snap' \in [Requests -> Snaps] /\ \A q \in Requests : IsFiniteSet(snap'[q].keys)
  BY <1>1, <1>2, <1>3, BlankOK DEF RequestsOK
<1>5. /\ pc'[r] = a /\ input'[r] = i /\ held'[r] = {} /\ after'[r] = t
      /\ \A q \in Requests \ {r} : /\ pc'[q] = pc[q] /\ input'[q] = input[q]
                                   /\ held'[q] = held[q] /\ after'[q] = after[q]
  BY <1>1 DEF RequestsOK
<1>6. /\ pc' \in [Requests -> Labels] /\ after' \in [Requests -> Seq(Entries)]
      /\ held' = [q \in Requests |-> held'[q]] /\ input' = [q \in Requests |-> input'[q]]
  BY <1>1 DEF RequestsOK, Labels
<1>7. RequestsOK'
  BY <1>1, <1>4, <1>6 DEF RequestsOK
<1>8. LocksOK'
  BY <1>1, <1>5 DEF LocksOK
<1>9. \A q \in Requests \ {r} : Untouched(q)
  BY <1>3, <1>5 DEF Untouched
<1>10. ControlOK(r)'
  BY <1>2, <1>5, BlankOK DEF ControlOK
<1>11. ReadOK(r)'
  BY <1>2, <1>5, BlankOK DEF ReadOK
<1> QED BY <1>2, <1>3, <1>5, <1>7, <1>8, <1>9, <1>10, <1>11, BlankOK DEF Alone

(* The callbacks of a commit, in terms of what it replaced. *)
LEMMA PreviousFileOK ==
  ASSUME NEW k \in Keys \cup {None}
  PROVE  /\ PreviousFile(k) \in Seq(Entries)
         /\ Range(PreviousFile(k)) = {"file"} \X ({k} \ {None})
<1>1. CASE k = None
  <2>1. PreviousFile(k) = <<>>
    BY <1>1 DEF PreviousFile
  <2> QED BY <1>1, <2>1, RangeEmpty
<1>2. CASE k # None
  <2>1. PreviousFile(k) = << <<"file", k>> >> /\ <<"file", k>> \in Entries
    BY <1>2 DEF PreviousFile, Entries
  <2>2. << <<"file", k>> >> \in Seq(Entries) /\ Range(<< <<"file", k>> >>) = {<<"file", k>>}
    BY <2>1, RangeSingle
  <2>3. {"file"} \X ({k} \ {None}) = {<<"file", k>>}
    BY <1>2
  <2> QED BY <2>1, <2>2, <2>3
<1> QED BY <1>1, <1>2

LEMMA CallbacksOK ==
  ASSUME IInv, NEW r \in Requests, CanCommit(r), NEW n \in NewNotes(input[r].op)
  PROVE  /\ Callbacks(r, n) \in Seq(Entries)
         /\ Range(Callbacks(r, n)) =
              ({"file"} \X Due(r)) \cup ({"evidence"} \X snap[r].keys)
              \cup (IF input[r].op \in AuditOps THEN {<<"push", n>>} ELSE {})
              \cup (IF input[r].op = "deactivate" THEN {<<"close", None>>} ELSE {})
<1> DEFINE op == input[r].op
           C == Callbacks(r, n)
<1>1. /\ op \in Owners \cup AuditOps \cup {"link", "submit", "deactivate"}
      /\ snap[r].keys # {} => op = "deactivate"
      /\ IsFiniteSet(snap[r].keys) /\ snap[r].keys \subseteq Keys
  BY CommitReady DEF Snaps
<1>2. \A o \in Owners : avatar[o] \in Keys \cup {None}
  BY DEF IInv, RowsOK
<1>3. "profile" \in Owners
  BY DEF Owners
<1>4. CASE op \in Owners \cup {"link"}
  <2>1. PICK o \in Owners : C = PreviousFile(avatar[o]) /\ Due(r) = {avatar[o]} \ {None}
    <3>1. CASE op \in Owners
      <4>1. op \notin AuditOps /\ op \notin {"link", "deactivate"}
        BY <3>1 DEF Owners, AuditOps
      <4>2. C = PreviousFile(avatar[op]) /\ Due(r) = {avatar[op]} \ {None}
        BY <3>1, <4>1 DEF Callbacks, Due
      <4> QED BY <3>1, <4>2
    <3>2. CASE op = "link"
      <4>1. op \notin AuditOps /\ op \notin Owners
        BY <3>2 DEF Owners, AuditOps
      <4>2. C = PreviousFile(avatar["profile"]) /\ Due(r) = {avatar["profile"]} \ {None}
        BY <3>2, <4>1 DEF Callbacks, Due
      <4> QED BY <1>3, <4>2
    <3> QED BY <1>4, <3>1, <3>2
  <2>2. op # "deactivate" /\ op \notin AuditOps /\ snap[r].keys = {}
    BY <1>1, <1>4 DEF Owners, AuditOps
  <2>3. C \in Seq(Entries) /\ Range(C) = {"file"} \X Due(r)
    BY <1>2, <2>1, PreviousFileOK
  <2> QED BY <2>2, <2>3
<1>5. CASE op \in AuditOps
  <2>1. op \notin Owners /\ op # "link" /\ op # "deactivate"
    BY <1>5 DEF Owners, AuditOps
  <2>2. n \in Notes /\ C = << <<"push", n>> >> /\ Due(r) = {} /\ snap[r].keys = {}
    BY <1>1, <1>5, <2>1 DEF NewNotes, Callbacks, Due
  <2>3. <<"push", n>> \in Entries
    BY <2>2 DEF Entries
  <2>4. C \in Seq(Entries) /\ Range(C) = {<<"push", n>>}
    BY <2>2, <2>3, RangeSingle
  <2> QED BY <1>5, <2>1, <2>2, <2>4
<1>6. CASE op = "deactivate"
  <2> DEFINE E == {"evidence"} \X snap[r].keys
             P == PreviousFile(avatar["profile"])
  <2>1. op \notin Owners /\ op \notin AuditOps
    BY <1>6 DEF Owners, AuditOps
  <2>2. C = SetToSeq(E) \o P \o << <<"close", None>> >> /\ Due(r) = {avatar["profile"]} \ {None}
    BY <1>6, <2>1 DEF Callbacks, Due
  <2>3. IsFiniteSet(E)
    BY <1>1, FS_Singleton, FS_Product
  <2>4. SetToSeq(E) \in Seq(E) /\ Range(SetToSeq(E)) = E
    BY <2>3, RangeSetToSeq
  <2>5. E \subseteq Entries
    BY <1>1 DEF Entries
  <2>6. SetToSeq(E) \in Seq(Entries)
    <3> HIDE DEF E
    <3> QED BY <2>4, <2>5
  <2>7. P \in Seq(Entries) /\ Range(P) = {"file"} \X Due(r)
    BY <1>2, <1>3, <2>2, PreviousFileOK
  <2>8. <<"close", None>> \in Entries
    BY DEF Entries
  <2>9. /\ << <<"close", None>> >> \in Seq(Entries)
        /\ Range(<< <<"close", None>> >>) = {<<"close", None>>}
    BY <2>8, RangeSingle
  <2>10. SetToSeq(E) \o P \in Seq(Entries) /\ Range(SetToSeq(E) \o P) = E \cup Range(P)
    <3> HIDE DEF E, P
    <3> QED BY <2>4, <2>6, <2>7, RangeConcat
  <2>11. C \in Seq(Entries) /\ Range(C) = E \cup Range(P) \cup {<<"close", None>>}
    <3> DEFINE A == SetToSeq(E) \o P
               B == << <<"close", None>> >>
    <3>1. A \in Seq(Entries) /\ B \in Seq(Entries) /\ C = A \o B
      BY <2>2, <2>9, <2>10
    <3> HIDE DEF A, B
    <3>2. A \o B \in Seq(Entries) /\ Range(A \o B) = Range(A) \cup Range(B)
      BY <3>1, RangeConcat
    <3> QED BY <3>1, <3>2, <2>9, <2>10 DEF A, B
  <2> HIDE DEF P, C
  <2> QED BY <1>6, <2>1, <2>7, <2>11 DEF C
<1>7. CASE op = "submit"
  <2>1. C = <<>> /\ Due(r) = {} /\ snap[r].keys = {} /\ op \notin AuditOps
    BY <1>1, <1>7 DEF Callbacks, Due, Owners, AuditOps
  <2>2. Range(C) = {} /\ C \in Seq(Entries)
    BY <2>1, RangeEmpty
  <2> QED BY <1>7, <2>1, <2>2
<1> QED BY <1>1, <1>4, <1>5, <1>6, <1>7

(* The rows and files of a commit: gone is the evidence that post() deletes *)
(* when the answer to its COMMIT is lost.                                   *)
LEMMA CommitParts ==
  ASSUME IInv, NEW r \in Requests, CanCommit(r), NEW n \in NewNotes(input[r].op),
         Apply(r, n), NEW gone \in SUBSET {snap[r].key}, None \notin gone,
         input[r].op # "submit" => gone = {},
         files' = files \ gone, doubt' = doubt \cup gone, snap'[r].key = None,
         \A q \in Requests \ {r} : snap'[q].key = snap[q].key /\ after'[q] = after[q],
         Owed(r, "file")' \subseteq Due(r), Owed(r, "evidence")' \subseteq snap[r].keys
  PROVE  RowsOK' /\ KeysOK' /\ ImagesOK' /\ \A s \in Slots : LogStep(r, s)
<1> DEFINE op == input[r].op
           k == snap[r].key
           mine == IF op = "submit" THEN {k} \ {None} ELSE {}
<1>1. /\ RowsOK /\ KeysOK /\ ImagesOK /\ None \notin Keys /\ k \in Keys \cup {None}
      /\ k # None => k \in files \ LogKeys /\ \A o \in Owners : avatar[o] # k
      /\ op = "submit" => EvidenceKey(r) \in LogKeys \cup {None, k}
      /\ snap[r].keys \subseteq LogKeys
  BY CommitReady DEF IInv, Snaps
<1>2. AvatarsChanged(r) /\ LogsChanged(r)
  BY ApplyAvatars, ApplyLogs
<1>3. /\ active' = (active /\ op # "deactivate") /\ used' = used \cup ({n} \ {None})
      /\ notes' \in [Notes -> NoteStates]
      /\ raced \subseteq raced' /\ raced' \subseteq Keys
      /\ \A x \in snap[r].keys : x \in raced' \/ \E s \in Slots \cap held[r] : logs[s].key = x
  BY ApplyRest
<1>4. \A s \in Slots : LogStep(r, s)
  BY <1>2 DEF LogsChanged, LogStep, Submitted, Audited, Dropped
<1>5. \A s \in Slots : \/ logs'[s].key = logs[s].key
                       \/ /\ op = "submit" /\ logs[s].key = None
                          /\ logs'[s].key \in LogKeys \cup {None, k}
  BY <1>1, <1>2 DEF LogsChanged, Submitted, Audited, Dropped, NoLog
<1>6. LogKeys \subseteq LogKeys' /\ LogKeys' \subseteq LogKeys \cup mine
  BY <1>5 DEF LogKeys
<1>7. mine \subseteq {k} /\ (mine # {} => op = "submit" /\ k # None) /\ None \notin mine
  OBVIOUS
<1>8. RowsOK'
  <2>1. \A s \in Slots : logs'[s].status = "NONE" => logs'[s] = NoLog
    <3> TAKE s \in Slots
    <3>1. CASE logs'[s] = logs[s]
      BY <3>1, <1>1 DEF RowsOK
    <3>2. CASE Submitted(r, s)
      BY <3>2, <1>1 DEF Submitted
    <3>3. CASE Audited(r, s) \/ Dropped(r, s)
      BY <3>3, <1>1 DEF Audited, Dropped, RowsOK
    <3> QED BY <3>1, <3>2, <3>3, <1>2 DEF LogsChanged
  <2>2. files' \subseteq Keys /\ doubt' \subseteq Keys /\ active' \in BOOLEAN
    BY <1>1, <1>3 DEF RowsOK
  <2>3. /\ avatar' \in [Owners -> Keys \cup {None}]
        /\ logs' \in [Slots -> [status : {"NONE", "PENDING", "APPROVED", "REJECTED",
                                          "DROPPED"}, key : Keys \cup {None}]]
    BY <1>2 DEF AvatarsChanged, LogsChanged
  <2> QED BY <1>3, <2>1, <2>2, <2>3 DEF RowsOK, NoLog
<1>9. \A q \in Requests \ {r} : /\ Owed(q, "file")' = Owed(q, "file")
                                /\ Owed(q, "evidence")' = Owed(q, "evidence")
  BY DEF Owed
<1>10. \A q \in Requests : LET x == snap[q].key IN x # None =>
         /\ x \in files /\ x \notin LogKeys /\ \A o \in Owners : avatar[o] # x
         /\ \A p \in Requests : x \notin Owed(p, "file") /\ (p # q => snap[p].key # x)
  BY <1>1 DEF KeysOK
<1>11. \A o \in Owners :
         /\ avatar'[o] \in {avatar[o], None} \/ (op = o /\ avatar'[o] = k)
         /\ avatar[o] # None /\ avatar'[o] # avatar[o] => avatar[o] \in Due(r)
         /\ avatar'[o] \notin Due(r)
  BY <1>2 DEF AvatarsChanged
<1>12. \A x \in Due(r) : x # None /\ \E o \in Owners : avatar[o] = x
  BY <1>2 DEF AvatarsChanged, Due
<1>13. \A o \in Owners : /\ avatar[o] \in used \cup {None} /\ avatar[o] \notin LogKeys
                         /\ \A q \in Requests : avatar[o] \notin Owed(q, "file")
  BY <1>1 DEF KeysOK
<1>14. "submit" \notin Owners
  BY DEF Owners
<1> HIDE DEF mine
<1>15. KeysOK'
  <2>1. files' \subseteq used' /\ LogKeys' \subseteq used'
    BY <1>1, <1>3, <1>6, <1>7 DEF KeysOK
  <2>2. \A o \in Owners : avatar'[o] \in used' \cup {None} /\ avatar'[o] \notin LogKeys'
    <3> TAKE o \in Owners
    <3>1. None \notin LogKeys'
      BY DEF LogKeys
    <3>2. CASE avatar'[o] = None
      BY <3>1, <3>2
    <3>3. CASE avatar'[o] = avatar[o] /\ avatar[o] # None
      BY <3>3, <1>1, <1>3, <1>6, <1>7, <1>13
    <3>4. CASE op = o /\ avatar'[o] = k /\ k # None
      BY <3>4, <1>1, <1>3, <1>6, <1>7, <1>14 DEF KeysOK
    <3> QED BY <3>2, <3>3, <3>4, <1>11
  <2>3. avatar'["profile"] = avatar'["clan"] => avatar'["clan"] = None
    BY <1>2 DEF AvatarsChanged
  <2>5. \A q \in Requests : LET x == snap'[q].key IN x # None =>
          /\ x \in files' /\ x \notin LogKeys' /\ \A o \in Owners : avatar'[o] # x
          /\ \A p \in Requests : x \notin Owed(p, "file")' /\ (p # q => snap'[p].key # x)
    <3> SUFFICES ASSUME NEW q \in Requests \ {r}, snap[q].key # None
                 PROVE  LET x == snap[q].key IN
                        /\ x \in files' /\ x \notin LogKeys'
                        /\ \A o \in Owners : avatar'[o] # x
                        /\ \A p \in Requests : x \notin Owed(p, "file")'
                                               /\ (p # q => snap'[p].key # x)
      OBVIOUS
    <3> DEFINE x == snap[q].key
    <3>1. /\ x \in files /\ x \notin LogKeys /\ \A o \in Owners : avatar[o] # x
          /\ \A p \in Requests : x \notin Owed(p, "file") /\ (p # q => snap[p].key # x)
      BY <1>10
    <3>2. x # k
      BY <3>1
    <3> HIDE DEF x
    <3>3. x # None
      BY DEF x
    <3>4. x \in files' /\ x \notin LogKeys' /\ \A o \in Owners : avatar'[o] # x
      BY <3>1, <3>2, <3>3, <1>6, <1>7, <1>11
    <3>5. \A p \in Requests : x \notin Owed(p, "file")' /\ (p # q => snap'[p].key # x)
      BY <3>1, <3>3, <1>9, <1>12
    <3> QED BY <3>4, <3>5 DEF x
  <2>6. \A q \in Requests : Owed(q, "file")' \subseteq used' \ LogKeys'
    <3> SUFFICES ASSUME NEW q \in Requests, NEW x \in Owed(q, "file")'
                 PROVE  x \in used' /\ x \notin LogKeys'
      OBVIOUS
    <3>1. CASE q = r
      <4>1. x # None /\ \E o \in Owners : avatar[o] = x
        BY <3>1, <1>12
      <4> QED BY <4>1, <1>1, <1>3, <1>6, <1>7, <1>13
    <3>2. CASE q # r
      <4>1. x \in Owed(q, "file") /\ x \in used \ LogKeys
        BY <3>2, <1>1, <1>9 DEF KeysOK
      <4>2. k # None => x # k
        BY <4>1, <1>10
      <4> QED BY <4>1, <4>2, <1>3, <1>6, <1>7
    <3> QED BY <3>1, <3>2
  <2>7. \A q \in Requests : \A o \in Owners : avatar'[o] \notin Owed(q, "file")'
    <3> SUFFICES ASSUME NEW q \in Requests \ {r}, NEW o \in Owners
                 PROVE  avatar'[o] \notin Owed(q, "file")
      BY <1>9, <1>11
    <3>1. None \notin Owed(q, "file")
      BY <1>1 DEF Owed
    <3>2. k \notin Owed(q, "file")
      BY <3>1, <1>10
    <3> QED BY <3>1, <3>2, <1>11, <1>13
  <2>8. \A q \in Requests : Owed(q, "evidence")' \subseteq LogKeys'
    BY <1>1, <1>6, <1>9 DEF KeysOK
  <2> QED BY <2>1, <2>2, <2>3, <2>5, <2>6, <2>7, <2>8 DEF KeysOK
<1>16. ImagesOK'
  <2>1. \A o \in Owners : avatar'[o] # None => avatar'[o] \in files'
    <3> SUFFICES ASSUME NEW o \in Owners, avatar'[o] # None PROVE avatar'[o] \in files'
      OBVIOUS
    <3>1. CASE avatar'[o] = avatar[o]
      <4>1. avatar[o] \in files /\ avatar[o] # k
        BY <3>1, <1>1 DEF ImagesOK
      <4> QED BY <3>1, <4>1
    <3>2. CASE op = o /\ avatar'[o] = k
      <4>1. gone = {}
        BY <3>2, <1>14
      <4> QED BY <3>2, <4>1, <1>1
    <3> QED BY <3>1, <3>2, <1>11
  <2>2. DroppedKeys \subseteq DroppedKeys'
    BY <1>4, KeysStay
  <2>3. LogKeys' \subseteq files' \cup doubt' \cup raced' \cup DroppedKeys'
    <3>1. LogKeys \subseteq files \cup doubt \cup raced \cup DroppedKeys
      BY <1>1 DEF ImagesOK
    <3>2. mine \subseteq files
      BY <1>1, <1>7
    <3> QED BY <3>1, <3>2, <2>2, <1>3, <1>6
  <2>4. \A x \in snap[r].keys : x \in raced' \cup DroppedKeys'
    <3> SUFFICES ASSUME NEW x \in snap[r].keys, NEW s \in Slots \cap held[r],
                        logs[s].key = x
                 PROVE  x \in DroppedKeys'
      BY <1>3
    <3>1. op = "deactivate"
      BY CommitReady
    <3>2. logs' = [t \in Slots |-> IF t \in Slots \cap held[r]
                                   THEN [logs[t] EXCEPT !.status = "DROPPED"] ELSE logs[t]]
      BY <3>1 DEF Apply
    <3>3. logs'[s].status = "DROPPED" /\ logs'[s].key = x
      BY <3>2, <1>1 DEF RowsOK
    <3> QED BY <3>3 DEF DroppedKeys
  <2>5. \A q \in Requests : Owed(q, "evidence")' \subseteq raced' \cup DroppedKeys'
    <3> TAKE q \in Requests
    <3>1. CASE q = r
      BY <3>1, <2>4
    <3>2. CASE q # r
      BY <3>2, <2>2, <1>1, <1>3, <1>9 DEF ImagesOK
    <3> QED BY <3>1, <3>2
  <2> QED BY <2>1, <2>3, <2>5 DEF ImagesOK
<1> QED BY <1>4, <1>8, <1>15, <1>16

(* Where a file is after a commit: in a row, or among the deletions it owes. *)
LEMMA CommitLeak ==
  ASSUME IInv, NEW r \in Requests, CanCommit(r), NEW n \in NewNotes(input[r].op),
         Apply(r, n), NEW x \in files \ orphans
  PROVE  \/ \E o \in Owners : avatar'[o] = x
         \/ \E s \in Slots : logs'[s].key = x /\ logs'[s].status # "DROPPED"
         \/ x \in Due(r) \cup snap[r].keys
         \/ \E q \in Requests \ {r} : x = snap[q].key \/
              x \in Owed(q, "file") \cup Owed(q, "evidence")
<1> DEFINE op == input[r].op
<1>1. \/ \E o \in Owners : avatar[o] = x
      \/ \E s \in Slots : logs[s].key = x /\ logs[s].status # "DROPPED"
      \/ \E q \in Requests : x = snap[q].key \/
           x \in Owed(q, "file") \cup Owed(q, "evidence")
  BY DEF LeakOK, IInv
<1>2. x # None /\ AvatarsChanged(r) /\ LogsChanged(r)
  BY AfterCommitAssumption, ApplyAvatars, ApplyLogs DEF IInv, RowsOK
<1>3. CASE \E o \in Owners : avatar[o] = x
  BY <1>2, <1>3 DEF AvatarsChanged
<1>4. CASE \E s \in Slots : logs[s].key = x /\ logs[s].status # "DROPPED"
  <2>1. PICK s \in Slots : logs[s].key = x /\ logs[s].status # "DROPPED"
    BY <1>4
  <2>2. CASE logs'[s] = logs[s]
    BY <2>1, <2>2
  <2>3. CASE Submitted(r, s)
    BY <1>2, <2>1, <2>3 DEF Submitted, NoLog
  <2>4. CASE Audited(r, s)
    BY <2>1, <2>4 DEF Audited
  <2>5. CASE Dropped(r, s)
    BY <1>2, <2>1, <2>5 DEF Dropped
  <2> QED BY <1>2, <2>2, <2>3, <2>4, <2>5 DEF LogsChanged
<1>5. CASE x = snap[r].key
  <2>1. op \in Owners \cup {"submit"}
    BY <1>2, <1>5, CommitReady
  <2>2. CASE op \in Owners
    <3>1. op \notin {"link", "deactivate"}
      BY <2>2 DEF Owners
    <3>2. avatar' = [avatar EXCEPT ![op] = snap[r].key]
      BY <2>2, <3>1 DEF Apply
    <3> QED BY <1>5, <2>2, <3>2 DEF IInv, RowsOK
  <2>3. CASE op = "submit"
    <3>1. input[r].slot \in Slots
      BY <2>3, CommitReady
    <3>2. logs' = [logs EXCEPT ![input[r].slot] =
                     [status |-> "PENDING", key |-> snap[r].key]]
      BY <2>3, <1>2, <1>5, CommitReady DEF Apply
    <3>3. logs'[input[r].slot] = [status |-> "PENDING", key |-> snap[r].key]
      BY <3>1, <3>2 DEF IInv, RowsOK
    <3> QED BY <1>5, <3>1, <3>3
  <2> QED BY <2>1, <2>2, <2>3
<1>6. CASE \E q \in Requests \ {r} : x = snap[q].key \/
             x \in Owed(q, "file") \cup Owed(q, "evidence")
  BY <1>6
<1>7. Owed(r, "file") = {} /\ Owed(r, "evidence") = {}
  BY CommitReady, RangeEmpty DEF Owed
<1> QED BY <1>1, <1>3, <1>4, <1>5, <1>6, <1>7

LEMMA CommitStep ==
  ASSUME IInv, NEW r \in Requests, Commit(r)
  PROVE  IInv'
<1> DEFINE op == input[r].op
<1>1. CanCommit(r)
  BY DEF Commit
<1>2. PICK n \in NewNotes(op) : Apply(r, n) /\ after' = [after EXCEPT ![r] = Callbacks(r, n)]
  BY DEF Commit
<1>3. /\ pc' = [pc EXCEPT ![r] = "after"] /\ held' = [held EXCEPT ![r] = {}] /\ Outdate(r)
      /\ UNCHANGED <<files, sockets, doubt, orphans, mix, input>>
  BY DEF Commit
<1>4. Callbacks(r, n) \in Seq(Entries)
      /\ Range(Callbacks(r, n)) =
           ({"file"} \X Due(r)) \cup ({"evidence"} \X snap[r].keys)
           \cup (IF op \in AuditOps THEN {<<"push", n>>} ELSE {})
           \cup (IF op = "deactivate" THEN {<<"close", None>>} ELSE {})
  BY <1>1, CallbacksOK
<1>5. input' = [input EXCEPT ![r] = input[r]]
  BY <1>3 DEF IInv, RequestsOK
<1>6. /\ Alone(r) /\ ControlOK(r)' /\ ReadOK(r)' /\ snap'[r].key = None
      /\ after'[r] = Callbacks(r, n)
      /\ \A q \in Requests \ {r} : snap'[q].key = snap[q].key /\ after'[q] = after[q]
  BY <1>2, <1>3, <1>4, <1>5, OutdateStep
<1>7. Due(r) \subseteq Keys /\ snap[r].keys \subseteq Keys
  <2>1. AvatarsChanged(r) /\ \A o \in Owners : avatar[o] \in Keys \cup {None}
    BY <1>1, <1>2, ApplyAvatars DEF IInv, RowsOK
  <2>2. None \notin Due(r)
    BY DEF Due
  <2> QED BY <1>1, <2>1, <2>2, CommitReady DEF AvatarsChanged, Snaps
<1>8. Owed(r, "file")' = Due(r) /\ Owed(r, "evidence")' = snap[r].keys
  BY <1>4, <1>6, <1>7 DEF Owed
<1>9. {} \in SUBSET {snap[r].key} /\ files' = files \ {} /\ doubt' = doubt \cup {}
  BY <1>3
<1>10. RowsOK' /\ KeysOK' /\ ImagesOK' /\ \A s \in Slots : LogStep(r, s)
  BY <1>1, <1>2, <1>6, <1>8, <1>9, CommitParts
<1>11. /\ active' = (active /\ op # "deactivate") /\ patched' = patched
       /\ \A m \in Unread' : m \in Unread \/ m = n
       /\ IF op \in AuditOps THEN n \in Notes ELSE n = None
  BY <1>1, <1>2, ApplyRest
<1>12. UNCHANGED <<state, base, got, mail, lost, late, unclosed>> /\ None \notin Notes
  BY <1>3, AfterCommitAssumption DEF sockets
<1>13. SocketsOK'
  BY <1>12, SocketsFrame DEF IInv
<1>14. after[r] = <<>> /\ Range(after[r]) = {}
  BY <1>1, CommitReady, RangeEmpty
<1>15. HeardOK'
  <2> SUFFICES ASSUME NEW s \in Sockets, NEW m \in Unread' \ patched,
                      state[s] \in {"counted", "open"}
               PROVE  \/ m \in base[s] \cup got[s] \cup lost[s] \cup Range(mail[s])
                      \/ InFlight(m)'
    BY <1>11, <1>12 DEF HeardOK
  <2>1. CASE m = n
    <3>1. m \in Notes
      BY DEF Unread
    <3>2. <<"push", n>> \in Range(after'[r])
      BY <2>1, <3>1, <1>4, <1>6, <1>11, <1>12
    <3> QED BY <2>1, <3>2 DEF InFlight
  <2>2. CASE m \in Unread
    <3>1. \/ m \in base[s] \cup got[s] \cup lost[s] \cup Range(mail[s])
          \/ InFlight(m)
      BY <2>2 DEF HeardOK, IInv
    <3>2. InFlight(m) => InFlight(m)'
      BY <1>6, <1>14 DEF InFlight
    <3> QED BY <3>1, <3>2
  <2> QED BY <2>1, <2>2, <1>11
<1>16. ClosedOK'
  <2> SUFFICES ASSUME ~active', NEW s \in Sockets, InGroup(s)'
               PROVE  \/ s \in late \cup unclosed \/ None \in Range(mail[s])
                      \/ \E q \in Requests : <<"close", None>> \in Range(after'[q])
    BY <1>12 DEF ClosedOK
  <2>1. CASE op = "deactivate"
    BY <2>1, <1>4, <1>6
  <2>2. CASE op # "deactivate"
    <3>1. ~active /\ InGroup(s)
      BY <2>2, <1>3, <1>11, <1>12 DEF InGroup
    <3>2. \/ s \in late \cup unclosed \/ None \in Range(mail[s])
          \/ \E q \in Requests : <<"close", None>> \in Range(after[q])
      BY <3>1 DEF ClosedOK, IInv
    <3> QED BY <3>2, <1>6, <1>14
  <2> QED BY <2>1, <2>2
<1>17. LeakOK'
  <2> SUFFICES ASSUME NEW x \in files \ orphans
               PROVE  \/ \E o \in Owners : avatar'[o] = x
                      \/ \E s \in Slots : logs'[s].key = x /\ logs'[s].status # "DROPPED"
                      \/ \E q \in Requests : x = snap'[q].key \/
                           x \in Owed(q, "file")' \cup Owed(q, "evidence")'
    BY <1>3 DEF LeakOK
  <2>1. \/ \E o \in Owners : avatar'[o] = x
        \/ \E s \in Slots : logs'[s].key = x /\ logs'[s].status # "DROPPED"
        \/ x \in Due(r) \cup snap[r].keys
        \/ \E q \in Requests \ {r} : x = snap[q].key \/
             x \in Owed(q, "file") \cup Owed(q, "evidence")
    BY <1>1, <1>2, CommitLeak
  <2>2. \A q \in Requests \ {r} : Owed(q, "file")' = Owed(q, "file")
                                  /\ Owed(q, "evidence")' = Owed(q, "evidence")
    BY <1>6 DEF Owed
  <2> QED BY <2>1, <2>2, <1>6, <1>8
<1> QED BY <1>6, <1>10, <1>13, <1>15, <1>16, <1>17, Assemble

LEMMA LoseAnswerStep ==
  ASSUME IInv, NEW r \in Requests, LoseAnswer(r)
  PROVE  IInv'
<1> DEFINE op == input[r].op
           gone == IF op = "submit" THEN {snap[r].key} \ {None} ELSE {}
<1>1. /\ CanCommit(r) /\ files' = files \ gone /\ doubt' = doubt \cup gone
      /\ Leave(r) /\ Outdate(r) /\ UNCHANGED <<state, base, got, mail, late>>
  BY DEF LoseAnswer
<1>2. PICK n \in NewNotes(op) : Apply(r, n) /\ LeaveUndone(Range(Callbacks(r, n)), {})
  BY DEF LoseAnswer
<1>3. <<>> \in Seq(Entries)
  OBVIOUS
<1>4. /\ Alone(r) /\ ControlOK(r)' /\ ReadOK(r)' /\ snap'[r].key = None
      /\ after'[r] = <<>>
      /\ \A q \in Requests \ {r} : snap'[q].key = snap[q].key /\ after'[q] = after[q]
  BY <1>1, <1>3, OutdateStep DEF Leave
<1>5. Owed(r, "file")' = {} /\ Owed(r, "evidence")' = {}
  BY <1>4, RangeEmpty DEF Owed
<1>6. gone \in SUBSET {snap[r].key} /\ None \notin gone /\ (op # "submit" => gone = {})
  OBVIOUS
<1>7. RowsOK' /\ KeysOK' /\ ImagesOK' /\ \A s \in Slots : LogStep(r, s)
  <2> HIDE DEF gone
  <2> QED BY <1>1, <1>2, <1>4, <1>5, <1>6, CommitParts
<1>8. /\ patched' = patched /\ active' = (active /\ op # "deactivate")
      /\ \A m \in Unread' : m \in Unread \/ m = n
      /\ IF op \in AuditOps THEN n \in Notes ELSE n = None
  BY <1>1, <1>2, ApplyRest
<1>8a. Range(Callbacks(r, n)) =
         ({"file"} \X Due(r)) \cup ({"evidence"} \X snap[r].keys)
         \cup (IF op \in AuditOps THEN {<<"push", n>>} ELSE {})
         \cup (IF op = "deactivate" THEN {<<"close", None>>} ELSE {})
  BY <1>1, CallbacksOK
<1>9. /\ \A s \in Sockets : lost'[s] = lost[s] \cup ({n} \ {None})
      /\ lost' = [s \in Sockets |-> lost'[s]]
  <2>1. {m \in Notes : <<"push", m>> \in Range(Callbacks(r, n))} = {n} \ {None}
    BY <1>8, <1>8a, AfterCommitAssumption
  <2> QED BY <1>2, <2>1 DEF LeaveUndone, Missed
<1>10. SocketsOK'
  <2>1. lost' \in [Sockets -> SUBSET Notes]
    BY <1>8, <1>9 DEF IInv, SocketsOK
  <2> QED BY <1>1, <2>1 DEF IInv, SocketsOK
<1>11. after[r] = <<>> /\ Range(after[r]) = {} /\ None \notin Notes
  BY <1>1, CommitReady, RangeEmpty, AfterCommitAssumption
<1>12. HeardOK'
  <2> SUFFICES ASSUME NEW s \in Sockets, NEW m \in Unread' \ patched,
                      state[s] \in {"counted", "open"}
               PROVE  \/ m \in base[s] \cup got[s] \cup lost'[s] \cup Range(mail[s])
                      \/ InFlight(m)'
    BY <1>1, <1>8 DEF HeardOK
  <2>1. CASE m = n
    <3>1. m \in Notes
      BY DEF Unread
    <3> QED BY <2>1, <3>1, <1>9, <1>11
  <2>2. CASE m \in Unread
    <3>1. \/ m \in base[s] \cup got[s] \cup lost[s] \cup Range(mail[s])
          \/ InFlight(m)
      BY <2>2 DEF HeardOK, IInv
    <3>2. InFlight(m) => InFlight(m)'
      BY <1>4, <1>11 DEF InFlight
    <3> QED BY <3>1, <3>2, <1>9
  <2> QED BY <2>1, <2>2, <1>8
<1>13. LeakOK'
  <2> SUFFICES ASSUME NEW x \in files' \ orphans'
               PROVE  \/ \E o \in Owners : avatar'[o] = x
                      \/ \E s \in Slots : logs'[s].key = x /\ logs'[s].status # "DROPPED"
                      \/ \E q \in Requests : x = snap'[q].key \/
                           x \in Owed(q, "file")' \cup Owed(q, "evidence")'
    BY DEF LeakOK
  <2>1. x \in files \ orphans /\ x \in Keys
        /\ <<"file", x>> \notin Range(Callbacks(r, n))
        /\ <<"evidence", x>> \notin Range(Callbacks(r, n))
    BY <1>1, <1>2 DEF LeaveUndone, IInv, RowsOK
  <2>2. x \notin Due(r) \cup snap[r].keys
    BY <1>8a, <2>1
  <2>3. \/ \E o \in Owners : avatar'[o] = x
        \/ \E s \in Slots : logs'[s].key = x /\ logs'[s].status # "DROPPED"
        \/ \E q \in Requests \ {r} : x = snap[q].key \/
             x \in Owed(q, "file") \cup Owed(q, "evidence")
    BY <1>1, <1>2, <2>1, <2>2, CommitLeak
  <2>4. \A q \in Requests \ {r} : Owed(q, "file")' = Owed(q, "file")
                                  /\ Owed(q, "evidence")' = Owed(q, "evidence")
    BY <1>4 DEF Owed
  <2> QED BY <2>3, <2>4, <1>4
<1>14. ClosedOK'
  <2> SUFFICES ASSUME ~active', NEW s \in Sockets, InGroup(s)
               PROVE  \/ s \in late \cup unclosed' \/ None \in Range(mail[s])
                      \/ \E q \in Requests : <<"close", None>> \in Range(after'[q])
    BY <1>1 DEF ClosedOK, InGroup
  <2>1. /\ unclosed \subseteq unclosed'
        /\ op = "deactivate" => s \in unclosed'
    BY <1>2, <1>8a DEF LeaveUndone, Group
  <2>2. CASE op # "deactivate"
    <3>1. ~active
      BY <2>2, <1>8
    <3>2. \/ s \in late \cup unclosed \/ None \in Range(mail[s])
          \/ \E q \in Requests : <<"close", None>> \in Range(after[q])
      BY <3>1 DEF ClosedOK, IInv
    <3> QED BY <3>2, <2>1, <1>4, <1>11
  <2> QED BY <2>1, <2>2
<1> QED BY <1>4, <1>7, <1>10, <1>12, <1>13, <1>14, Assemble

--------------------------------------------------------------------------------
(* The theorems. *)

LEMMA InitIInv == Init => IInv
<1> SUFFICES ASSUME Init PROVE IInv
  OBVIOUS
<1>1. RowsOK
  BY DEF Init, RowsOK, NoLog, NoteStates
<1>2. SocketsOK
  BY DEF Init, SocketsOK
<1>3. RequestsOK
  <2>1. held = [r \in Requests |-> held[r]] /\ input = [r \in Requests |-> input[r]]
    BY DEF Init
  <2>2. pc \in [Requests -> Labels] /\ after \in [Requests -> Seq(Entries)]
    BY DEF Init, Labels
  <2>3. snap \in [Requests -> Snaps] /\ \A r \in Requests : IsFiniteSet(snap[r].keys)
    BY BlankOK DEF Init
  <2>4. mix \in Workloads
    BY DEF Init
  <2> QED BY <2>1, <2>2, <2>3, <2>4 DEF RequestsOK
<1>4. LocksOK
  BY DEF Init, LocksOK
<1>5. LogKeys = {}
  BY DEF Init, LogKeys, NoLog
<1>6. \A r \in Requests : ControlOK(r) /\ ReadOK(r)
  BY BlankOK DEF Init, ControlOK, ReadOK
<1>7. \A r \in Requests : Range(after[r]) = {} /\ snap[r].key = None
  BY RangeEmpty, BlankOK DEF Init
<1>8. \A r \in Requests : Owed(r, "file") = {} /\ Owed(r, "evidence") = {}
  BY <1>7 DEF Owed
<1>9. KeysOK
  <2>1. \A o \in Owners : avatar[o] = None
    BY DEF Init
  <2>2. \A s \in Slots : logs[s].key = None
    BY DEF Init, NoLog
  <2>3. "clan" \in Owners /\ files = {}
    BY DEF Owners, Init
  <2> QED BY <2>1, <2>2, <2>3, <1>5, <1>7, <1>8 DEF KeysOK
<1>10. ImagesOK /\ LeakOK
  BY <1>5, <1>8 DEF Init, ImagesOK, LeakOK
<1>11. HeardOK /\ ClosedOK
  BY DEF Init, HeardOK, ClosedOK
<1> QED BY <1>1, <1>2, <1>3, <1>4, <1>6, <1>9, <1>10, <1>11 DEF IInv

LEMMA StutterIInv ==
  ASSUME IInv, UNCHANGED vars
  PROVE  IInv'
<1>1. UNCHANGED <<active, avatar, logs, notes, files, state, base, got, mail, lost, late, unclosed>>
      /\ UNCHANGED <<doubt, raced, orphans, patched, used, mix, request, rows>>
  BY DEF vars, rows, sockets, faults
<1>2. RowsOK' /\ SocketsOK'
  BY <1>1, RowsFrame, SocketsFrame DEF IInv
<1>3. HeardOK' /\ ClosedOK'
  BY <1>1, HeardFrame, ClosedFrame DEF IInv, request
<1> QED BY <1>1, <1>2, <1>3, ClientStep

LEMMA NextIInv == IInv /\ [Next]_vars => IInv'
<1> SUFFICES ASSUME IInv, [Next]_vars PROVE IInv'
  OBVIOUS
<1>1. CASE UNCHANGED vars
  BY <1>1, StutterIInv
<1>2. ASSUME NEW r \in Requests, Begin(r) PROVE IInv'
  BY <1>2, BeginStep
<1>3. ASSUME NEW r \in Requests, Step(r) PROVE IInv'
  <2>1. CASE LockRows(r) \/ update_profile(r) \/ save_image(r) \/ save_action_evidence(r)
    BY <2>1, LockRowsStep, update_profileStep, save_imageStep, save_action_evidenceStep
  <2>2. CASE LockLog(r) \/ CollectEvidence(r) \/ RejectPending(r) \/ update_notification(r)
    BY <2>2, LockLogStep, CollectEvidenceStep, RejectPendingStep, update_notificationStep
  <2>3. CASE Commit(r) \/ Login(r) \/ Answer(r)
    BY <2>3, CommitStep, LoginStep, AnswerStep
  <2>4. CASE Callback(r)
    BY <2>4, DeleteFileStep, push_notificationStep, close_user_socketsStep, FailCallbackStep
       DEF Callback
  <2> QED BY <1>3, <2>1, <2>2, <2>3, <2>4 DEF Step
<1>4. ASSUME NEW r \in Requests, Fault(r) PROVE IInv'
  BY <1>4, UploadFailsStep, DbErrorStep, CrashStep, LoseAnswerStep DEF Fault
<1>5. ASSUME NEW s \in Sockets, Consumer(s) PROVE IInv'
  BY <1>5, ConsumerStep
<1>6. CASE mark_all_read \/ \E n \in Notes : perform_destroy(n)
  BY <1>6, InboxSteps
<1> QED BY <1>1, <1>2, <1>3, <1>4, <1>5, <1>6 DEF Next

(* The inductive invariant holds in every reachable state, whatever fails. *)
THEOREM AfterCommitInvariantHolds == Spec => []IInv
<1> QED BY InitIInv, NextIInv, PTL DEF Spec

LEMMA IInvTypeOK == IInv => TypeOK
<1> SUFFICES ASSUME IInv PROVE TypeOK
  OBVIOUS
<1>1. \A r \in Requests : (pc[r] \in {"idle", "after"} => held[r] = {})
                          /\ (pc[r] # "after" => after[r] = <<>>)
  BY DEF IInv, ControlOK
<1>2. \A s \in Sockets : mail[s] \in Seq(Notes \cup {None})
  BY DEF IInv, SocketsOK
<1> QED BY <1>1, <1>2 DEF IInv, RowsOK, SocketsOK, TypeOK

(* A shown photo and the evidence of a pending or approved log are in        *)
(* storage whatever fails and whenever: set_profile_avatar, set_clan_avatar, *)
(* update_profile and deactivate_account delete only what no row uses any    *)
(* more, but for the evidence that post() deletes after a COMMIT in doubt,   *)
(* that of a log audited while a deactivation waited for it, and that which  *)
(* a log rejected by a deactivation names as well.                           *)
THEOREM ImagesKeptHolds == Spec => []ImagesKept
<1>1. IInv => ImagesKept
  BY IInvTypeOK DEF IInv, ImagesOK, ImagesKept, LogKeys
<1> QED BY <1>1, AfterCommitInvariantHolds, PTL

(* An idle request owes nothing. *)
LEMMA IdleOwesNothing ==
  ASSUME IInv, Idle, NEW r \in Requests
  PROVE  /\ snap[r].key = None /\ Range(after[r]) = {}
         /\ Owed(r, "file") = {} /\ Owed(r, "evidence") = {}
<1>1. pc[r] = "idle" /\ ControlOK(r)
  BY DEF Idle, IInv
<1>2. snap[r].key = None /\ Range(after[r]) = {}
  BY <1>1, RangeEmpty DEF ControlOK
<1> QED BY <1>2 DEF Owed

(* Storage holds no file but those of rows once the requests have answered:  *)
(* every replaced photo, every refused upload and the evidence of every log  *)
(* a deactivation rejected was deleted by a callback or by the handler of    *)
(* the error, except a file whose own deletion a fault dropped.              *)
THEOREM NoLeakHolds == Spec => []NoLeak
<1>1. IInv => NoLeak
  <2> SUFFICES ASSUME IInv, Idle, NEW k \in files \ orphans
               PROVE  \/ \E o \in Owners : avatar[o] = k
                      \/ \E s \in Slots : logs[s].key = k /\ logs[s].status # "DROPPED"
    BY DEF NoLeak
  <2>1. k # None
    BY AfterCommitAssumption DEF IInv, RowsOK
  <2>2. \/ \E o \in Owners : avatar[o] = k
        \/ \E s \in Slots : logs[s].key = k /\ logs[s].status # "DROPPED"
        \/ \E r \in Requests : k = snap[r].key \/ k \in Owed(r, "file") \cup Owed(r, "evidence")
    BY DEF IInv, LeakOK
  <2> QED BY <2>1, <2>2, IdleOwesNothing
<1> QED BY <1>1, AfterCommitInvariantHolds, PTL

(* NotificationConsumer joins its group before it counts: the client of an   *)
(* open socket was told of every unread notification in auth.ok or by an     *)
(* event, or the event is on its way, unless a fault dropped it or a PATCH   *)
(* wrote the row.                                                            *)
THEOREM NothingMissedHolds == Spec => []NothingMissed
<1>1. IInv => NothingMissed
  BY DEF IInv, HeardOK, NothingMissed
<1> QED BY <1>1, AfterCommitInvariantHolds, PTL

(* close_user_sockets reaches every socket in the group of a deactivated     *)
(* account, except one that joined after the deactivation and one whose      *)
(* closing was dropped: by its full channel, the channel layer, an evidence  *)
(* deletion that raised first, a worker's death or a lost COMMIT answer.     *)
THEOREM ClosedOutHolds == Spec => []ClosedOut
<1>1. IInv => ClosedOut
  <2> SUFFICES ASSUME IInv, ~active, Idle, NEW s \in Sockets, InGroup(s)
               PROVE  s \in late \cup unclosed \/ None \in Range(mail[s])
    BY DEF ClosedOut
  <2>1. \/ s \in late \cup unclosed \/ None \in Range(mail[s])
        \/ \E r \in Requests : <<"close", None>> \in Range(after[r])
    BY DEF IInv, ClosedOK
  <2> QED BY <2>1, IdleOwesNothing
<1> QED BY <1>1, AfterCommitInvariantHolds, PTL

================================================================================
