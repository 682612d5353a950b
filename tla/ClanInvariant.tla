------------------------------ MODULE ClanInvariant ------------------------------
(***************************************************************************)
(* The inductive invariant behind the safety properties of ClanMembership: *)
(* which statement of which handler a request can be at, which rows it     *)
(* holds there, and which of the facts its service checked still hold      *)
(* because nobody else can write the rows they were read from.             *)
(***************************************************************************)
EXTENDS ClanMembership

(* The operations that lock the clan row, and those that lock a user row. *)
ClanOps == LeaderOps \cup {"leave", "redeem"}
UserOps == {"create", "join", "select", "accept", "transfer", "redeem",
            "deactivate", "login"}

(* The statements a request with input in can be at. *)
ControlAt(label, in) ==
  /\ label = "idle" <=> in.op = "none"
  /\ label = "clan" => in.op \in ClanOps
  /\ label = "user" => in.op \in UserOps
  /\ label = "insert" => in.op \in {"join", "invite"}
  /\ label = "notify" => in.op # "accept"

ControlOK == \A r \in Requests : ControlAt(pc[r], input[r])

(* The request is past the statement that locks the clan, or the user. *)
HasClan(r) == input[r].op \in ClanOps /\ pc[r] # "clan"
HasUser(r) == input[r].op \in UserOps /\ pc[r] \notin {"clan", "user"}

ClanLock(c) == <<ClanRow(c), "update">>
UserLock(in) == <<UserRow(Subject(in)), UserMode(in)>>

(* Transactions that hold the same row hold it in modes that agree. *)
Compatible ==
  \A q, r \in Requests : q # r =>
    \A row \in Rows, m, n \in Modes :
      <<row, m>> \in held[q] /\ <<row, n>> \in held[r] => ~Conflict(m, n)

(* A request holds the rows its handler has locked, and nothing before. *)
Holding(r) ==
  /\ pc[r] \in {"idle", "clan"} => held[r] = {}
  /\ input[r].op = "accept" /\ pc[r] = "user" => held[r] = {ClanLock(input[r].clan)}
  /\ HasClan(r) => ClanLock(input[r].clan) \in held[r]
  /\ HasUser(r) => UserLock(input[r]) \in held[r]

LocksOK == Compatible /\ \A r \in Requests : Holding(r)

(* Nobody is on the rolls of a clan that was not founded; leaders are      *)
(* accepted members and a clan that is not dissolved has one.              *)
RollsOK ==
  \A c \in Clans :
    /\ phase[c] = "absent" => \A u \in Users : standing[u][c] = "NONE"
    /\ \A u \in leaders[c] : standing[u][c] = "ACCEPTED"
    /\ phase[c] = "alive" => \E u \in Users : leaders[c] = {u}

(* What was checked with the clan row locked still holds, except that a    *)
(* deactivation, which does not lock clans, may have deleted the row of a  *)
(* member or an applicant.                                                 *)
ClanFresh(r) ==
  HasClan(r) =>
    LET in == input[r]
        c == in.clan
    IN  /\ phase[c] = "alive"
        /\ in.op \in LeaderOps => in.user \in leaders[c]
        /\ in.op = "leave" => /\ standing[in.user][c] \in {"ACCEPTED", "NONE"}
                              /\ in.user \notin leaders[c]
        /\ in.op = "reject" => standing[in.other][c] \in {"PENDING", "NONE"}
        /\ in.op = "transfer" => /\ in.other # in.user
                                 /\ standing[in.other][c] \in {"ACCEPTED", "NONE"}
        /\ in.op = "kick" => /\ standing[in.other][c] \in {"ACCEPTED", "NONE"}
                             /\ in.other \notin leaders[c]
        /\ in.op = "invite" => /\ snap[r].at <= now
                               /\ Cardinality(ActiveCodes(c, now)) < MaxCodes
        /\ in.op \in CodeOps => codes[in.code] # NoCode /\ codes[in.code].clan = c
        /\ in.op = "redeem" => codes[in.code].redeemed = None /\ ~codes[in.code].revoked

(* What was checked with the user row locked still holds.  A join that was *)
(* refused before updates that row and needs no lock on the clan.          *)
UserFresh(r) ==
  HasUser(r) =>
    LET in == input[r]
    IN  /\ in.op = "create" => ~LeadsSome(in.user) /\ HasCapacity(in.user)
        /\ in.op = "join" =>
             /\ snap[r].privacy = "PUBLIC" => HasCapacity(in.user)
             /\ \/ standing[in.user][in.clan] = "REJECTED" /\ pc[r] # "insert"
                \/ /\ standing[in.user][in.clan] = "NONE"
                   /\ pc[r] # "insert" => <<ClanRow(in.clan), "share">> \in held[r]
        /\ in.op = "accept" => /\ standing[in.other][in.clan] = "PENDING"
                               /\ HasCapacity(in.other)
        /\ in.op = "transfer" => ~LeadsSome(in.other)
        /\ in.op = "redeem" => ~Member(in.user, in.clan) /\ HasCapacity(in.user)
        /\ in.op = "deactivate" => ~LeadsSome(in.user)

(* The clan somebody asks to join exists: the view saw it. *)
JoinSeen(r) == input[r].op = "join" => phase[input[r].clan] # "absent"

FreshOK == \A r \in Requests : ClanFresh(r) /\ UserFresh(r) /\ JoinSeen(r)

(* The inductive invariant. *)
IInv == /\ TypeOK /\ ControlOK /\ LocksOK /\ RollsOK /\ FreshOK
        /\ OneLeadership /\ CapKept /\ CodeLimitKept

================================================================================
