------------------------------- MODULE ClanProofs -------------------------------
(***************************************************************************)
(* The safety of clan memberships for every number of users, clans, codes  *)
(* and overlapping requests.  The argument is rely and guarantee: a step   *)
(* of one request changes a clan or a membership only under the lock of    *)
(* the clan or of the user (ClanGuarantee, UserGuarantee), so what another *)
(* request checked under that lock still holds when it commits.            *)
(***************************************************************************)
EXTENDS ClanInvariant, TLAPS, FiniteSetTheorems

Snapshots == [privacy : Privacies, at : Nat, clears : SUBSET Users, tell : SUBSET Users]

(* The fields each kind of input has. *)
LEMMA InputFields ==
  ASSUME NEW in \in Inputs
  PROVE  /\ in.op \in AllOps /\ in.op # "none" /\ in.user \in Users
         /\ in.op \notin AccountOps \cup {"create"} => in.clan \in Clans
         /\ in.op \in {"accept", "reject", "transfer", "kick"} => in.other \in Users
         /\ in.op \in {"create", "edit"} => in.privacy \in Privacies
         /\ in.op \in CodeOps => in.code \in Codes
  BY ClanAssumption DEF Inputs, CreateInputs, EntryInputs, SelectInputs, DecisionInputs, TransferInputs,
     KickInputs, DissolveInputs, EditInputs, InviteInputs, CodeInputs, AccountInputs,
     AllOps, CodeOps, AccountOps

(* Rows of different accounts and clans are different rows. *)
LEMMA RowsDiffer ==
  /\ \A u, v : UserRow(u) = UserRow(v) => u = v
  /\ \A c, d : ClanRow(c) = ClanRow(d) => c = d
  /\ \A u, c : UserRow(u) # ClanRow(c)
  BY DEF UserRow, ClanRow

(* Locks are on rows of the database. *)
LEMMA RowTypes ==
  /\ \A u \in Users : UserRow(u) \in Rows
  /\ \A c \in Clans : ClanRow(c) \in Rows
  BY DEF Rows

(* What the types say of one request. *)
LEMMA RequestTypes ==
  ASSUME TypeOK, ControlOK, NEW r \in Requests
  PROVE  /\ pc[r] \in Labels
         /\ input[r] \in Inputs \cup {NoInput}
         /\ snap[r] \in Snapshots
         /\ held[r] \subseteq Rows \X Modes
         /\ ControlAt(pc[r], input[r])
  BY DEF TypeOK, ControlOK, Snapshots

(* A request that runs has an input of some endpoint. *)
LEMMA RunningInput ==
  ASSUME TypeOK, ControlOK, NEW r \in Requests, pc[r] # "idle"
  PROVE  input[r] \in Inputs
<1>1. input[r] \in Inputs \cup {NoInput} /\ ControlAt(pc[r], input[r])
  BY RequestTypes
<1>. QED
  BY <1>1 DEF ControlAt, NoInput

(* The statement a handler begins with. *)
LEMMA FirstLabel ==
  ASSUME NEW in \in Inputs
  PROVE  /\ LockOrder(in)[1] \in {"clan", "user"}
         /\ LockOrder(in)[1] = "clan" <=> in.op \in ClanOps
         /\ LockOrder(in)[1] = "user" => in.op \in UserOps
         /\ ControlAt(LockOrder(in)[1], in)
<1>1. in.op \in AllOps /\ in.op # "none"
  BY InputFields
<1>2. CASE in.op \in {"accept", "transfer", "redeem"}
  <2>1. LockOrder(in) = <<"clan", "user">>
    BY <1>2 DEF LockOrder
  <2>. QED
    BY <1>1, <1>2, <2>1 DEF ControlAt, ClanOps, LeaderOps, UserOps
<1>3. CASE in.op \in {"create", "join", "select", "deactivate", "login"}
  <2>1. LockOrder(in) = <<"user">>
    BY <1>3 DEF LockOrder
  <2>. QED
    BY <1>1, <1>3, <2>1 DEF ControlAt, ClanOps, LeaderOps, UserOps
<1>4. CASE in.op \notin {"accept", "transfer", "redeem", "create", "join", "select", "deactivate", "login"}
  <2>1. LockOrder(in) = <<"clan">>
    BY <1>4 DEF LockOrder
  <2>. QED
    BY <1>1, <1>4, <2>1 DEF ControlAt, ClanOps, LeaderOps, UserOps, AllOps, CodeOps, AccountOps
<1>. QED
  BY <1>2, <1>3, <1>4

(* The statement after a lock. *)
LEMMA NextLabel ==
  ASSUME NEW in \in Inputs, NEW label \in {"clan", "user"},
         label = "clan" => in.op \in ClanOps
  PROVE  /\ in.op \in {"accept", "transfer", "redeem"} /\ label = "clan"
              => After(in, label) = "user"
         /\ ~(in.op \in {"accept", "transfer", "redeem"} /\ label = "clan")
              => After(in, label) = Writing(in)
<1>2. CASE in.op \in {"accept", "transfer", "redeem"}
  <2>1. LockOrder(in) = <<"clan", "user">>
    BY <1>2 DEF LockOrder
  <2>. QED
    BY <1>2, <2>1 DEF After
<1>3. CASE in.op \in {"create", "join", "select", "deactivate", "login"}
  <2>1. LockOrder(in) = <<"user">>
    BY <1>3 DEF LockOrder
  <2>2. Len(LockOrder(in)) # 2
    BY <2>1
  <2>. QED
    BY <1>3, <2>2 DEF After
<1>4. CASE in.op \notin {"accept", "transfer", "redeem", "create", "join", "select", "deactivate", "login"}
  <2>1. LockOrder(in) = <<"clan">>
    BY <1>4 DEF LockOrder
  <2>2. Len(LockOrder(in)) # 2
    BY <2>1
  <2>. QED
    BY <1>4, <2>2 DEF After
<1>. QED
  BY <1>2, <1>3, <1>4

(* Who is notified has an account, and nobody is by accept, create,        *)
(* select, edit, invite, revoke, deactivate or login.                      *)
LEMMA AudienceType ==
  ASSUME TypeOK, NEW in \in Inputs
  PROVE  /\ Audience(in) \subseteq Users
         /\ in.op \in {"accept", "create", "select", "edit", "invite", "revoke",
                       "deactivate", "login"} => Audience(in) = {}
<1>1. in.op \in {"reject", "kick"} => in.other \in Users
  BY InputFields
<1>. QED
  BY <1>1 DEF Audience, LeaderOf, MembersOf

(* The statement a handler writes at, when it has its locks. *)
LEMMA WritingLabel ==
  ASSUME TypeOK, NEW in \in Inputs
  PROVE  /\ Writing(in) \in {"insert", "notify", "commit"}
         /\ ControlAt(Writing(in), in)
         /\ Notifying(in) \in {"notify", "commit"}
         /\ ControlAt(Notifying(in), in)
         /\ Writing(in) = "insert" <=>
              in.op = "invite" \/ (in.op = "join" /\ standing[in.user][in.clan] = "NONE")
<1>1. in.op # "none" /\ (in.op = "accept" => Audience(in) = {})
  BY InputFields, AudienceType
<1>2. Notifying(in) \in {"notify", "commit"} /\ (in.op = "accept" => Notifying(in) = "commit")
  BY <1>1 DEF Notifying
<1>. QED
  BY <1>1, <1>2 DEF Writing, ControlAt

--------------------------------------------------------------------------------
(* What a step of one request means for the others. *)

(* A step of r leaves what the other requests remember and hold alone. *)
Apart(r) ==
  \A q \in Requests \ {r} : /\ pc'[q] = pc[q] /\ input'[q] = input[q]
                            /\ snap'[q] = snap[q] /\ held'[q] = held[q]

(* A step of r that does not hold a clan's row leaves that clan, its       *)
(* leader and its codes alone; at most a deactivation deletes a membership *)
(* row, and a request that was rejected is renewed.                        *)
ClanGuarantee(r) ==
  \A c \in Clans :
    /\ phase[c] # "absent" => phase'[c] # "absent"
    /\ phase[c] = "alive" /\ (\A m \in Modes : <<ClanRow(c), m>> \notin held[r]) =>
         /\ phase'[c] = "alive"
         /\ leaders'[c] = leaders[c]
         /\ \A u \in Users : \/ standing'[u][c] \in {standing[u][c], "NONE"}
                            \/ standing[u][c] = "REJECTED"
         /\ \A i \in Codes : codes[i].clan = c \/ codes'[i].clan = c
                              => codes'[i] = codes[i]

(* A step of r that does not hold a user's row gives that user no          *)
(* membership, no leadership and no request: at most it rejects one or     *)
(* ends a membership.                                                      *)
UserGuarantee(r) ==
  \A u \in Users :
    <<UserRow(u), "update">> \notin held[r] /\ <<UserRow(u), "nokey">> \notin held[r] =>
      /\ \A c \in Clans : \/ standing'[u][c] = standing[u][c]
                          \/ standing[u][c] = "PENDING" /\ standing'[u][c] = "REJECTED"
                          \/ standing[u][c] = "ACCEPTED" /\ standing'[u][c] = "NONE"
      /\ \A c \in Clans : phase'[c] = "alive" /\ u \in leaders'[c]
                           => phase[c] = "alive" /\ u \in leaders[c]
      /\ \A c \in Clans : phase'[c] = "alive" /\ standing'[u][c] = "ACCEPTED"
                           => phase[c] = "alive" /\ standing[u][c] = "ACCEPTED"

(* An invitation names a clan; a free slot names none. *)
LEMMA CodeTypes ==
  ASSUME TypeOK, NEW i \in Codes
  PROVE  /\ codes[i] = NoCode => codes[i].clan = None /\ codes[i].clan \notin Clans
         /\ codes[i] # NoCode => /\ codes[i] \in Invitations
                                /\ codes[i].clan \in Clans /\ codes[i].expires \in Nat
                                /\ codes[i].redeemed \in Users \cup {None}
                                /\ codes[i].revoked \in BOOLEAN
  BY ClanAssumption DEF TypeOK, Invitations, NoCode

(* A user who gains no membership keeps the room for one. *)
LEMMA CapacityKept ==
  ASSUME NEW u \in Users,
         \A c \in Clans : phase'[c] = "alive" /\ standing'[u][c] = "ACCEPTED"
                           => phase[c] = "alive" /\ standing[u][c] = "ACCEPTED"
  PROVE  /\ HasCapacity(u) => HasCapacity(u)'
         /\ Cardinality(ClansOf(u)) <= MaxPrivate => Cardinality(ClansOf(u)') <= MaxPrivate
<1>1. ClansOf(u)' \subseteq ClansOf(u) /\ ClansOf(u) \subseteq Clans
  BY DEF ClansOf, Member
<1>2. IsFiniteSet(ClansOf(u))
  BY <1>1, FS_Subset, ClanAssumption
<1>3. /\ Cardinality(ClansOf(u)) \in Nat /\ Cardinality(ClansOf(u)') \in Nat
      /\ Cardinality(ClansOf(u)') <= Cardinality(ClansOf(u))
  BY <1>1, <1>2, FS_Subset, FS_CardinalityType
<1>4. MaxPrivate \in Nat
  BY ClanAssumption
<1>. QED
  BY <1>3, <1>4 DEF HasCapacity

(* Who gains no leadership still leads nothing. *)
LEMMA LeadsNothingKept ==
  ASSUME NEW u \in Users, RollsOK, ~LeadsSome(u),
         \A c \in Clans : phase'[c] = "alive" /\ u \in leaders'[c]
                           => phase[c] = "alive" /\ u \in leaders[c]
  PROVE  ~LeadsSome(u)'
  BY DEF LeadsSome, Leads, Member, RollsOK

(* A clan that gains no usable code keeps its number of usable codes low. *)
LEMMA CodesKept ==
  ASSUME NEW c \in Clans, ActiveCodes(c, now)' \subseteq ActiveCodes(c, now)
  PROVE  /\ Cardinality(ActiveCodes(c, now)) \in Nat
         /\ Cardinality(ActiveCodes(c, now)') \in Nat
         /\ Cardinality(ActiveCodes(c, now)') <= Cardinality(ActiveCodes(c, now))
<1>1. ActiveCodes(c, now) \subseteq Codes
  BY DEF ActiveCodes
<1>2. IsFiniteSet(ActiveCodes(c, now))
  BY <1>1, FS_Subset, ClanAssumption
<1>. QED
  BY <1>2, FS_Subset, FS_CardinalityType

(* Of two requests, one with the lock of a clan and the other with any     *)
(* lock on it cannot both be there.                                        *)
LEMMA ClanLockAlone ==
  ASSUME Compatible, NEW q \in Requests, NEW r \in Requests, q # r,
         NEW c \in Clans, ClanLock(c) \in held[q]
  PROVE  \A m \in Modes : <<ClanRow(c), m>> \notin held[r]
<1>1. ClanRow(c) \in Rows /\ "update" \in Modes
  BY RowTypes DEF Modes
<1>. QED
  BY <1>1 DEF Compatible, Conflict, ClanLock

(* The lock of a user excludes the other writers of that user's rows. *)
LEMMA UserLockAlone ==
  ASSUME Compatible, NEW q \in Requests, NEW r \in Requests, q # r,
         NEW u \in Users, NEW m \in {"update", "nokey"}, <<UserRow(u), m>> \in held[q]
  PROVE  <<UserRow(u), "update">> \notin held[r] /\ <<UserRow(u), "nokey">> \notin held[r]
<1>1. UserRow(u) \in Rows /\ "update" \in Modes /\ "nokey" \in Modes /\ m \in Modes
  BY RowTypes DEF Modes
<1>. QED
  BY <1>1 DEF Compatible, Conflict

(* The account an operation locks. *)
LEMMA SubjectType ==
  ASSUME NEW in \in Inputs
  PROVE  Subject(in) \in Users /\ UserMode(in) \in {"update", "nokey"}
  BY InputFields DEF Subject, UserMode

(* What another request checked under the lock of its clan still holds     *)
(* after a step of r.                                                      *)
LEMMA OthersClanFresh ==
  ASSUME IInv, NEW r \in Requests, Apart(r), now' = now, ClanGuarantee(r), TypeOK',
         NEW q \in Requests, q # r
  PROVE  ClanFresh(q)'
<1>1. pc'[q] = pc[q] /\ input'[q] = input[q] /\ snap'[q] = snap[q]
  BY DEF Apart
<1>. SUFFICES ASSUME HasClan(q)
             PROVE  ClanFresh(q)'
  BY <1>1 DEF ClanFresh, HasClan
<1>2. PICK in \in Inputs : in = input[q] /\ in.op \in ClanOps
  <2>1. input[q].op \in ClanOps
    BY DEF HasClan
  <2>2. input[q] # NoInput
    BY <2>1 DEF NoInput, ClanOps, LeaderOps
  <2>. QED
    BY <2>1, <2>2, RequestTypes DEF IInv
<1>3. PICK c \in Clans : c = in.clan
  BY <1>2, InputFields DEF ClanOps, LeaderOps, AccountOps
<1>4. ClanLock(c) \in held[q]
  BY <1>2, <1>3 DEF IInv, LocksOK, Holding
<1>5. phase[c] = "alive" /\ ClanFresh(q)
  BY <1>2, <1>3 DEF IInv, FreshOK, ClanFresh
<1>6. /\ phase'[c] = "alive" /\ leaders'[c] = leaders[c]
      /\ \A u \in Users : \/ standing'[u][c] \in {standing[u][c], "NONE"}
                         \/ standing[u][c] = "REJECTED"
      /\ \A i \in Codes : codes[i].clan = c \/ codes'[i].clan = c
                           => codes'[i] = codes[i]
  <2>1. \A m \in Modes : <<ClanRow(c), m>> \notin held[r]
    BY <1>3, <1>4, ClanLockAlone DEF IInv, LocksOK
  <2>. QED
    BY <1>3, <1>5, <2>1 DEF ClanGuarantee
<1>7. ActiveCodes(c, now)' = ActiveCodes(c, now)
  BY <1>6 DEF ActiveCodes, Usable
<1>8. in.op \in {"reject", "transfer", "kick"} => in.other \in Users
  BY <1>2, InputFields
<1>9. in.op \in CodeOps => in.code \in Codes
  BY <1>2, InputFields
<1>10. ASSUME in.op \in CodeOps
       PROVE  codes'[in.code] = codes[in.code]
  BY <1>2, <1>3, <1>5, <1>6, <1>9, <1>10 DEF ClanFresh
<1>11. in.user \in Users
  BY InputFields
<1>. QED
  BY <1>1, <1>2, <1>3, <1>5, <1>6, <1>7, <1>8, <1>9, <1>10, <1>11 DEF ClanFresh, CodeOps

(* What another request checked under the lock of its user still holds     *)
(* after a step of r.                                                      *)
LEMMA OthersUserFresh ==
  ASSUME IInv, NEW r \in Requests, Apart(r), ClanGuarantee(r), UserGuarantee(r),
         NEW q \in Requests, q # r
  PROVE  UserFresh(q)'
<1>1. pc'[q] = pc[q] /\ input'[q] = input[q] /\ snap'[q] = snap[q] /\ held'[q] = held[q]
  BY DEF Apart
<1>. SUFFICES ASSUME HasUser(q)
             PROVE  UserFresh(q)'
  BY <1>1 DEF UserFresh, HasUser
<1>2. PICK in \in Inputs : in = input[q] /\ in.op \in UserOps
  <2>1. input[q].op \in UserOps
    BY DEF HasUser
  <2>2. input[q] # NoInput
    BY <2>1 DEF NoInput, UserOps
  <2>. QED
    BY <2>1, <2>2, RequestTypes DEF IInv
<1>3. PICK u \in Users : u = Subject(in)
  BY SubjectType
<1>4. UserLock(in) \in held[q]
  BY <1>2 DEF IInv, LocksOK, Holding
<1>5. <<UserRow(u), "update">> \notin held[r] /\ <<UserRow(u), "nokey">> \notin held[r]
  BY <1>2, <1>3, <1>4, SubjectType, UserLockAlone DEF IInv, LocksOK, UserLock
<1>6. /\ \A c \in Clans : \/ standing'[u][c] = standing[u][c]
                          \/ standing[u][c] = "PENDING" /\ standing'[u][c] = "REJECTED"
                          \/ standing[u][c] = "ACCEPTED" /\ standing'[u][c] = "NONE"
      /\ \A c \in Clans : phase'[c] = "alive" /\ u \in leaders'[c]
                           => phase[c] = "alive" /\ u \in leaders[c]
      /\ \A c \in Clans : phase'[c] = "alive" /\ standing'[u][c] = "ACCEPTED"
                           => phase[c] = "alive" /\ standing[u][c] = "ACCEPTED"
  BY <1>3, <1>5 DEF UserGuarantee
<1>7. UserFresh(q)
  BY DEF IInv, FreshOK
<1>8. HasCapacity(u) => HasCapacity(u)'
  BY <1>3, <1>6, CapacityKept
<1>9. ~LeadsSome(u) => ~LeadsSome(u)'
  BY <1>3, <1>6, LeadsNothingKept DEF IInv
<1>10. in.op \in {"join", "accept", "redeem"} => in.clan \in Clans
  BY <1>2, InputFields DEF AccountOps
<1>11. ASSUME in.op = "accept"
       PROVE  standing'[u][in.clan] = "PENDING"
  <2>1. HasClan(q)
    BY <1>2, <1>11 DEF HasClan, HasUser, ClanOps, LeaderOps
  <2>2. ClanLock(in.clan) \in held[q]
    BY <1>2, <2>1 DEF IInv, LocksOK, Holding
  <2>3. phase[in.clan] = "alive"
    BY <1>2, <2>1 DEF IInv, FreshOK, ClanFresh
  <2>4. \A m \in Modes : <<ClanRow(in.clan), m>> \notin held[r]
    BY <1>10, <1>11, <2>2, ClanLockAlone DEF IInv, LocksOK
  <2>5. \/ standing'[u][in.clan] \in {standing[u][in.clan], "NONE"}
        \/ standing[u][in.clan] = "REJECTED"
    BY <1>3, <1>10, <1>11, <2>3, <2>4 DEF ClanGuarantee
  <2>6. standing[u][in.clan] = "PENDING"
    BY <1>2, <1>3, <1>7, <1>11 DEF UserFresh, Subject
  <2>7. standing'[u][in.clan] \in {"PENDING", "REJECTED"}
    BY <1>6, <1>10, <1>11, <2>6
  <2>. QED
    BY <2>5, <2>6, <2>7
<1>12. in.op \in {"accept", "transfer"} => u = in.other
  BY <1>3 DEF Subject
<1>13. in.op \notin {"accept", "transfer"} => u = in.user
  BY <1>3 DEF Subject
<1>. QED
  BY <1>1, <1>2, <1>6, <1>7, <1>8, <1>9, <1>10, <1>11, <1>12, <1>13 DEF UserFresh, Member

(* The types of the tables, the part of TypeOK that commits touch. *)
TablesOK ==
  /\ phase \in [Clans -> Phases]
  /\ privacy \in [Clans -> Privacies]
  /\ standing \in [Users -> [Clans -> Standings]]
  /\ leaders \in [Clans -> SUBSET Users]
  /\ selected \in [Users -> SUBSET Clans]
  /\ codes \in [Codes -> Invitations \cup {NoCode}]
  /\ active \in [Users -> BOOLEAN]
  /\ \A u \in Users, c \in Clans :
       u \in leaders[c] \/ c \in selected[u] => standing[u][c] # "NONE"

(* The clan somebody asks to join does not disappear. *)
LEMMA OthersJoinSeen ==
  ASSUME IInv, NEW r \in Requests, Apart(r), ClanGuarantee(r), NEW q \in Requests, q # r
  PROVE  JoinSeen(q)'
<1>1. input'[q] = input[q] /\ JoinSeen(q)
  BY DEF Apart, IInv, FreshOK
<1>2. input[q].op = "join" => input[q] \in Inputs /\ input[q] # NoInput
  BY RequestTypes DEF IInv, NoInput
<1>3. input[q].op = "join" => input[q].clan \in Clans
  BY <1>2, InputFields DEF AccountOps
<1>. QED
  BY <1>1, <1>3 DEF JoinSeen, ClanGuarantee

(* The other requests hold what they held. *)
LEMMA OthersHolding ==
  ASSUME IInv, NEW r \in Requests, Apart(r), NEW q \in Requests, q # r
  PROVE  Holding(q)'
<1>1. pc'[q] = pc[q] /\ input'[q] = input[q] /\ held'[q] = held[q]
  BY DEF Apart
<1>2. Holding(q)
  BY DEF IInv, LocksOK
<1>. QED
  BY <1>1, <1>2 DEF Holding, HasClan, HasUser

(* A statement that writes no table keeps the invariant if it keeps what   *)
(* the invariant says of its own request.                                  *)
LEMMA MoveStep ==
  ASSUME IInv, NEW r \in Requests, UNCHANGED <<tables, now>>,
         NEW in \in Inputs, NEW label \in Labels, NEW s \in Snapshots,
         NEW rows \in SUBSET (Rows \X Modes),
         pc' = [pc EXCEPT ![r] = label], input' = [input EXCEPT ![r] = in],
         snap' = [snap EXCEPT ![r] = s], held' = [held EXCEPT ![r] = rows],
         ControlAt(label, in), Compatible',
         Holding(r)', ClanFresh(r)', UserFresh(r)', JoinSeen(r)'
  PROVE  IInv'
<1>1. Apart(r)
  BY DEF Apart, IInv, TypeOK
<1>2. TypeOK'
  BY DEF IInv, TypeOK, tables, Snapshots
<1>3. ControlOK'
  <2>1. ASSUME NEW q \in Requests PROVE ControlAt(pc'[q], input'[q])
    <3>1. CASE q = r
      BY <3>1 DEF IInv, TypeOK
    <3>2. CASE q # r
      BY <1>1, <3>2 DEF IInv, ControlOK, Apart
    <3>. QED
      BY <3>1, <3>2
  <2>. QED
    BY <2>1 DEF ControlOK
<1>4. ClanGuarantee(r) /\ UserGuarantee(r)
  BY DEF ClanGuarantee, UserGuarantee, tables
<1>5. LocksOK'
  BY <1>1, OthersHolding DEF LocksOK
<1>6. FreshOK'
  BY <1>1, <1>2, <1>4, OthersClanFresh, OthersUserFresh, OthersJoinSeen DEF FreshOK
<1>7. RollsOK' /\ OneLeadership' /\ CapKept'
  BY DEF IInv, RollsOK, OneLeadership, CapKept, ClansOf, Leads, Member, tables
<1>8. CodeLimitKept'
  BY DEF IInv, CodeLimitKept, ActiveCodes, Usable, tables
<1>. QED
  BY <1>2, <1>3, <1>5, <1>6, <1>7, <1>8 DEF IInv

(* The end of a transaction keeps the invariant if what it writes keeps    *)
(* the part of it that is about the tables.                                *)
LEMMA EndStep ==
  ASSUME IInv, NEW r \in Requests, End(r), now' = now, TablesOK',
         ClanGuarantee(r), UserGuarantee(r),
         RollsOK', OneLeadership', CapKept', CodeLimitKept'
  PROVE  IInv'
<1>1. Apart(r)
  BY DEF Apart, IInv, TypeOK, End
<1>2. pc'[r] = "idle" /\ input'[r] = NoInput /\ held'[r] = {}
  BY DEF IInv, TypeOK, End
<1>3. TypeOK'
  <2>1. NoInput \in Inputs \cup {NoInput} /\ "idle" \in Labels
    BY DEF Labels
  <2>2. Blank \in [privacy : Privacies, at : Nat, clears : SUBSET Users, tell : SUBSET Users]
    BY DEF Blank, Privacies
  <2>. QED
    BY <2>1, <2>2 DEF IInv, TypeOK, TablesOK, End
<1>4. ControlOK'
  <2>1. ASSUME NEW q \in Requests PROVE ControlAt(pc'[q], input'[q])
    <3>1. CASE q = r
      BY <1>2, <3>1 DEF ControlAt, NoInput
    <3>2. CASE q # r
      BY <1>1, <3>2 DEF IInv, ControlOK, Apart
    <3>. QED
      BY <3>1, <3>2
  <2>. QED
    BY <2>1 DEF ControlOK
<1>5. HasClan(r)' = FALSE /\ HasUser(r)' = FALSE
  BY <1>2 DEF HasClan, HasUser, NoInput, ClanOps, LeaderOps, UserOps
<1>6. Compatible'
  <2>1. ASSUME NEW p \in Requests, NEW q \in Requests, p # q, NEW row \in Rows,
               NEW m \in Modes, NEW n \in Modes,
               <<row, m>> \in held'[p], <<row, n>> \in held'[q]
        PROVE  ~Conflict(m, n)
    <3>1. p # r /\ q # r
      BY <1>2, <2>1
    <3>2. held'[p] = held[p] /\ held'[q] = held[q]
      BY <1>1, <3>1 DEF Apart
    <3>. QED
      BY <2>1, <3>2 DEF IInv, LocksOK, Compatible
  <2>. QED
    BY <2>1 DEF Compatible
<1>7. LocksOK'
  <2>1. Holding(r)'
    BY <1>2, <1>5 DEF Holding, NoInput
  <2>. QED
    BY <1>1, <1>6, <2>1, OthersHolding DEF LocksOK
<1>8. FreshOK'
  <2>1. ClanFresh(r)' /\ UserFresh(r)' /\ JoinSeen(r)'
    BY <1>2, <1>5 DEF ClanFresh, UserFresh, JoinSeen, NoInput
  <2>. QED
    BY <1>1, <1>3, <2>1, OthersClanFresh, OthersUserFresh, OthersJoinSeen DEF FreshOK
<1>. QED
  BY <1>3, <1>4, <1>7, <1>8 DEF IInv

(* An early return or a rollback. *)
LEMMA RefuseStep ==
  ASSUME IInv, NEW r \in Requests, Refuse(r)
  PROVE  IInv'
<1>1. End(r) /\ UNCHANGED <<tables, now>>
  BY DEF Refuse
<1>2. TablesOK'
  BY <1>1 DEF IInv, TypeOK, TablesOK, tables
<1>3. ClanGuarantee(r) /\ UserGuarantee(r)
  BY <1>1 DEF ClanGuarantee, UserGuarantee, tables
<1>4. RollsOK' /\ OneLeadership' /\ CapKept'
  BY <1>1 DEF IInv, RollsOK, OneLeadership, CapKept, ClansOf, Leads, Member, tables
<1>5. CodeLimitKept'
  BY <1>1 DEF IInv, CodeLimitKept, ActiveCodes, Usable, tables
<1>. QED
  BY <1>1, <1>2, <1>3, <1>4, <1>5, EndStep

--------------------------------------------------------------------------------
(* The statements before the commit. *)

(* A lock that was free agrees with the locks of the others. *)
LEMMA TakeCompatible ==
  ASSUME IInv, NEW r \in Requests, NEW row \in Rows, NEW mode \in Modes, Take(r, row, mode)
  PROVE  Compatible'
<1>1. \A q \in Requests : held'[q] = IF q = r THEN held[r] \cup {<<row, mode>>} ELSE held[q]
  BY DEF IInv, TypeOK, Take
<1>2. \A q \in Requests \ {r}, m \in Modes :
         Conflict(m, mode) => <<row, m>> \notin held[q]
  BY DEF Take, Free
<1>3. \A m, n : Conflict(m, n) <=> Conflict(n, m)
  BY DEF Conflict
<1>4. ASSUME NEW p \in Requests, NEW q \in Requests, p # q, NEW l \in Rows,
             NEW m \in Modes, NEW n \in Modes,
             <<l, m>> \in held'[p], <<l, n>> \in held'[q]
      PROVE  ~Conflict(m, n)
  <2>1. CASE <<l, m>> \in held[p] /\ <<l, n>> \in held[q]
    BY <1>4, <2>1 DEF IInv, LocksOK, Compatible
  <2>2. CASE <<l, m>> \notin held[p]
    <3>1. p = r /\ l = row /\ m = mode /\ <<l, n>> \in held[q] /\ q \in Requests \ {r}
      BY <1>1, <1>4, <2>2
    <3>. QED
      BY <1>2, <1>3, <3>1
  <2>3. CASE <<l, n>> \notin held[q]
    <3>1. q = r /\ l = row /\ n = mode /\ <<l, m>> \in held[p] /\ p \in Requests \ {r}
      BY <1>1, <1>4, <2>3
    <3>. QED
      BY <1>2, <3>1
  <2>. QED
    BY <2>1, <2>2, <2>3
<1>. QED
  BY <1>4 DEF Compatible

(* A request arrives: it holds nothing and has checked nothing yet. *)
LEMMA StartStep ==
  ASSUME IInv, NEW r \in Requests, Start(r)
  PROVE  IInv'
<1>1. PICK in \in Inputs :
        /\ in.op \notin AccountOps \cup {"create"} => Visible(in)
        /\ input' = [input EXCEPT ![r] = in]
        /\ Remember(r, [Blank EXCEPT !.privacy = Fetched(in)])
        /\ Goto(r, LockOrder(in)[1])
  BY DEF Start
<1>2. pc[r] = "idle" /\ UNCHANGED <<tables, now, held>>
  BY DEF Start
<1>3. held[r] = {} /\ Compatible
  BY <1>2 DEF IInv, LocksOK, Holding
<1>. DEFINE label == LockOrder(in)[1]
            s == [Blank EXCEPT !.privacy = Fetched(in)]
<1>4. /\ label \in {"clan", "user"} /\ ControlAt(label, in)
      /\ label = "clan" <=> in.op \in ClanOps
      /\ label = "user" => in.op \in UserOps
  BY FirstLabel
<1>5. s \in Snapshots
  <2>1. in.op = "join" => in.clan \in Clans
    BY InputFields DEF AccountOps
  <2>2. Fetched(in) \in Privacies
    BY <2>1 DEF Fetched, Blank, IInv, TypeOK, Privacies
  <2>. QED
    BY <2>2 DEF Blank, Snapshots
<1>6. /\ pc' = [pc EXCEPT ![r] = label] /\ snap' = [snap EXCEPT ![r] = s]
      /\ held' = [held EXCEPT ![r] = {}]
  BY <1>1, <1>2, <1>3 DEF Goto, Remember, IInv, TypeOK
<1>. HIDE DEF s, label
<1>7. pc'[r] = label /\ input'[r] = in /\ snap'[r] = s /\ held'[r] = {}
  BY <1>1, <1>6 DEF IInv, TypeOK
<1>8. HasClan(r)' = FALSE /\ HasUser(r)' = FALSE
  BY <1>4, <1>7 DEF HasClan, HasUser
<1>9. Compatible'
  BY <1>2, <1>3 DEF Compatible
<1>10. Holding(r)' /\ ClanFresh(r)' /\ UserFresh(r)'
  <2>1. in.op = "accept" => label = "clan"
    BY <1>4 DEF ClanOps, LeaderOps
  <2>. QED
    BY <1>7, <1>8, <2>1 DEF Holding, ClanFresh, UserFresh
<1>11. JoinSeen(r)'
  <2>1. in.op = "join" => phase[in.clan] = "alive"
    BY <1>1 DEF Visible, AccountOps
  <2>. QED
    BY <1>2, <1>7, <2>1 DEF JoinSeen, tables
<1>12. label \in Labels /\ {} \in SUBSET (Rows \X Modes)
  BY <1>4 DEF Labels
<1>. QED
  BY <1>1, <1>2, <1>4, <1>5, <1>6, <1>9, <1>10, <1>11, <1>12, MoveStep

(* The clan is locked and the service's checks have passed. *)
LEMMA LockClanStep ==
  ASSUME IInv, NEW r \in Requests, LockClan(r)
  PROVE  IInv'
<1>1. PICK in \in Inputs : in = input[r] /\ pc[r] = "clan" /\ in.op \in ClanOps
  BY RunningInput, RequestTypes DEF IInv, LockClan, ControlAt
<1>2. CASE Refuse(r)
  BY <1>2, RefuseStep
<1>3. CASE ~Refuse(r)
  <2>1. /\ phase[in.clan] = "alive" /\ RowsAllow(in)
        /\ Take(r, ClanRow(in.clan), "update")
        /\ Remember(r, [snap[r] EXCEPT !.at = now, !.tell = Audience(in),
                                        !.clears = Clears(in)])
        /\ Goto(r, After(in, "clan"))
        /\ UNCHANGED <<tables, now, input>>
    BY <1>1, <1>3 DEF LockClan, ClanAllows
  <2>2. PICK c \in Clans : c = in.clan
    BY <1>1, InputFields DEF ClanOps, LeaderOps, AccountOps
  <2>3. PICK label : label = After(in, "clan")
    OBVIOUS
  <2>4. /\ label \in {"user", "insert", "notify", "commit"} /\ ControlAt(label, in)
        /\ in.op \in UserOps => label = "user"
    <3>1. CASE in.op \in {"accept", "transfer", "redeem"}
      BY <1>1, <2>3, <3>1, NextLabel, InputFields DEF ControlAt, UserOps
    <3>2. CASE in.op \notin {"accept", "transfer", "redeem"}
      BY <1>1, <2>3, <3>2, NextLabel, WritingLabel DEF UserOps, ClanOps, LeaderOps, IInv
    <3>. QED
      BY <3>1, <3>2
  <2>5. PICK s : s = [snap[r] EXCEPT !.at = now, !.tell = Audience(in),
                                      !.clears = Clears(in)]
    OBVIOUS
  <2>6. s \in Snapshots /\ s.at = now /\ s.privacy = snap[r].privacy
    <3>1. Audience(in) \subseteq Users /\ Clears(in) \subseteq Users
      BY AudienceType DEF IInv, Clears
    <3>2. snap[r] \in Snapshots /\ now \in Nat
      BY RequestTypes DEF IInv, TypeOK
    <3>. QED
      BY <2>5, <3>1, <3>2 DEF Snapshots
  <2>7. held[r] = {}
    BY <1>1 DEF IInv, LocksOK, Holding
  <2>8. /\ pc' = [pc EXCEPT ![r] = label] /\ input' = [input EXCEPT ![r] = in]
        /\ snap' = [snap EXCEPT ![r] = s] /\ held' = [held EXCEPT ![r] = {ClanLock(c)}]
    BY <1>1, <2>1, <2>2, <2>3, <2>5, <2>7 DEF Goto, Remember, Take, IInv, TypeOK, ClanLock
  <2>9. pc'[r] = label /\ input'[r] = in /\ snap'[r] = s /\ held'[r] = {ClanLock(c)}
    BY <2>8 DEF IInv, TypeOK
  <2>10. ClanRow(c) \in Rows /\ "update" \in Modes /\ {ClanLock(c)} \in SUBSET (Rows \X Modes)
    BY RowTypes DEF Modes, ClanLock
  <2>11. Compatible'
    BY <2>1, <2>2, <2>10, TakeCompatible
  <2>12. HasUser(r)' = FALSE
    BY <2>4, <2>9 DEF HasUser
  <2>13. Holding(r)' /\ UserFresh(r)'
    BY <1>1, <2>2, <2>4, <2>9, <2>12 DEF Holding, UserFresh
  <2>14. JoinSeen(r)'
    BY <1>1, <2>9 DEF JoinSeen, ClanOps, LeaderOps
  <2>15. ActiveCodes(c, now)' = ActiveCodes(c, now)
    BY <2>1 DEF ActiveCodes, Usable, tables
  <2>16. now' <= now' /\ now' = now
    BY <2>1 DEF IInv, TypeOK
  <2>17. ClanFresh(r)'
    BY <2>1, <2>2, <2>6, <2>9, <2>15, <2>16
       DEF ClanFresh, RowsAllow, Leads, Member, Usable, CodeOps, tables
  <2>18. label \in Labels
    BY <2>4 DEF Labels
  <2>. QED
    BY <2>1, <2>4, <2>6, <2>8, <2>10, <2>11, <2>13, <2>14, <2>17, <2>18, MoveStep
<1>. QED
  BY <1>2, <1>3

(* What a handler reads depends on the tables only. *)
LEMMA SameReads ==
  ASSUME UNCHANGED <<tables, now>>
  PROVE  /\ \A u \in Users : HasCapacity(u)' = HasCapacity(u) /\ LeadsSome(u)' = LeadsSome(u)
         /\ \A c \in Clans : ActiveCodes(c, now)' = ActiveCodes(c, now)
<1>1. ASSUME NEW u \in Users
      PROVE  ClansOf(u)' = ClansOf(u) /\ LeadsSome(u)' = LeadsSome(u)
  BY DEF ClansOf, LeadsSome, Leads, Member, tables
<1>2. ASSUME NEW c \in Clans
      PROVE  ActiveCodes(c, now)' = ActiveCodes(c, now)
  BY DEF ActiveCodes, Usable, tables
<1>. QED
  BY <1>1, <1>2 DEF HasCapacity

(* A statement that keeps the input and what was read keeps what was       *)
(* checked under the clan's lock.                                          *)
LEMMA SameClanFresh ==
  ASSUME IInv, NEW r \in Requests, UNCHANGED <<tables, now>>, input'[r] = input[r],
         pc[r] # "clan", snap'[r].at = snap[r].at
  PROVE  ClanFresh(r)'
<1>. SUFFICES ASSUME HasClan(r)' PROVE ClanFresh(r)'
  BY DEF ClanFresh
<1>1. HasClan(r) /\ ClanFresh(r)
  BY DEF HasClan, IInv, FreshOK
<1>2. PICK in \in Inputs : in = input[r] /\ in.op \in ClanOps
  <2>1. input[r] # NoInput
    BY <1>1 DEF HasClan, NoInput, ClanOps, LeaderOps
  <2>. QED
    BY <1>1, <2>1, RequestTypes DEF IInv, HasClan
<1>3. PICK c \in Clans : c = in.clan
  BY <1>2, InputFields DEF ClanOps, LeaderOps, AccountOps
<1>4. ActiveCodes(c, now)' = ActiveCodes(c, now)
  BY SameReads
<1>. QED
  BY <1>1, <1>2, <1>3, <1>4 DEF ClanFresh, tables

(* The user is locked and the service's checks have passed. *)
LEMMA LockUserStep ==
  ASSUME IInv, NEW r \in Requests, LockUser(r)
  PROVE  IInv'
<1>1. PICK in \in Inputs : in = input[r] /\ pc[r] = "user" /\ in.op \in UserOps
  BY RunningInput, RequestTypes DEF IInv, LockUser, ControlAt
<1>2. CASE Refuse(r)
  BY <1>2, RefuseStep
<1>3. CASE ~Refuse(r)
  <2>1. /\ UserAllows(in, snap[r].privacy)
        /\ Take(r, UserRow(Subject(in)), UserMode(in))
        /\ Remember(r, [snap[r] EXCEPT !.tell = Audience(in)])
        /\ Goto(r, After(in, "user"))
        /\ UNCHANGED <<tables, now, input>>
    BY <1>1, <1>3 DEF LockUser
  <2>2. PICK u \in Users : u = Subject(in)
    BY SubjectType
  <2>3. PICK label : label = After(in, "user")
    OBVIOUS
  <2>4. /\ label \in {"insert", "notify", "commit"} /\ ControlAt(label, in)
        /\ label = "insert" <=>
             in.op = "invite" \/ (in.op = "join" /\ standing[in.user][in.clan] = "NONE")
    BY <2>3, NextLabel, WritingLabel DEF IInv
  <2>5. PICK s : s = [snap[r] EXCEPT !.tell = Audience(in)]
    OBVIOUS
  <2>6. s \in Snapshots /\ s.at = snap[r].at /\ s.privacy = snap[r].privacy
    <3>1. Audience(in) \subseteq Users
      BY AudienceType DEF IInv
    <3>2. snap[r] \in Snapshots
      BY RequestTypes DEF IInv
    <3>. QED
      BY <2>5, <3>1, <3>2 DEF Snapshots
  <2>7. PICK rows : rows = held[r] \cup {UserLock(in)}
    OBVIOUS
  <2>8. /\ pc' = [pc EXCEPT ![r] = label] /\ input' = [input EXCEPT ![r] = in]
        /\ snap' = [snap EXCEPT ![r] = s] /\ held' = [held EXCEPT ![r] = rows]
    BY <1>1, <2>1, <2>3, <2>5, <2>7 DEF Goto, Remember, Take, IInv, TypeOK, UserLock
  <2>9. pc'[r] = label /\ input'[r] = in /\ snap'[r] = s /\ held'[r] = rows
    BY <2>8 DEF IInv, TypeOK
  <2>10. UserRow(u) \in Rows /\ UserMode(in) \in Modes
    BY RowTypes, SubjectType DEF Modes
  <2>11. rows \in SUBSET (Rows \X Modes)
    BY <2>2, <2>7, <2>10, RequestTypes DEF IInv, UserLock
  <2>12. Compatible'
    BY <2>1, <2>2, <2>10, TakeCompatible
  <2>13. Holding(r)'
    <3>1. in.op \in ClanOps => ClanLock(in.clan) \in held[r]
      BY <1>1 DEF IInv, LocksOK, Holding, HasClan
    <3>. QED
      BY <2>4, <2>7, <2>9, <3>1 DEF Holding, HasClan, HasUser
  <2>14. JoinSeen(r)'
    BY <1>1, <2>1, <2>9 DEF JoinSeen, IInv, FreshOK, tables
  <2>15. ClanFresh(r)'
    BY <1>1, <2>1, <2>6, <2>9, SameClanFresh
  <2>16. in.user \in Users /\ (in.op \in {"accept", "transfer"} => in.other \in Users)
    BY InputFields
  <2>17. \A v \in Users : HasCapacity(v)' = HasCapacity(v) /\ LeadsSome(v)' = LeadsSome(v)
    BY <2>1, SameReads
  <2>18. standing' = standing
    BY <2>1 DEF tables
  <2>19. ASSUME in.op = "join"
         PROVE  \/ standing[in.user][in.clan] = "REJECTED" /\ label # "insert"
                \/ standing[in.user][in.clan] = "NONE" /\ label = "insert"
    BY <2>1, <2>4, <2>19 DEF UserAllows
  <2>20. UserFresh(r)'
    BY <2>1, <2>6, <2>9, <2>16, <2>17, <2>18, <2>19 DEF UserFresh, UserAllows, Member
  <2>21. label \in Labels
    BY <2>4 DEF Labels
  <2>. QED
    BY <2>1, <2>4, <2>6, <2>8, <2>11, <2>12, <2>13, <2>14, <2>15, <2>20, <2>21, MoveStep
<1>. QED
  BY <1>2, <1>3

(* A later statement adds a share lock and keeps what was checked. *)
LEMMA ShareStep ==
  ASSUME IInv, NEW r \in Requests, UNCHANGED <<tables, now, input>>,
         pc[r] \in {"insert", "notify"}, NEW row \in Rows, Take(r, row, "share"),
         NEW label \in {"notify", "commit"}, ControlAt(label, input[r]), Goto(r, label),
         NEW s \in Snapshots, snap' = [snap EXCEPT ![r] = s],
         s.at = snap[r].at, s.privacy = snap[r].privacy,
         pc[r] = "insert" /\ input[r].op = "join" => row = ClanRow(input[r].clan)
  PROVE  IInv'
<1>1. PICK in \in Inputs : in = input[r]
  BY RunningInput DEF IInv
<1>2. PICK rows : rows = held[r] \cup {<<row, "share">>}
  OBVIOUS
<1>3. /\ pc' = [pc EXCEPT ![r] = label] /\ input' = [input EXCEPT ![r] = in]
      /\ held' = [held EXCEPT ![r] = rows]
  BY <1>1, <1>2 DEF Goto, Take, IInv, TypeOK
<1>4. pc'[r] = label /\ input'[r] = in /\ snap'[r] = s /\ held'[r] = rows
  BY <1>3 DEF IInv, TypeOK
<1>5. "share" \in Modes
  BY DEF Modes
<1>6. rows \in SUBSET (Rows \X Modes)
  BY <1>2, <1>5, RequestTypes DEF IInv
<1>7. Compatible'
  BY <1>5, TakeCompatible
<1>8. Holding(r)'
  <2>1. Holding(r)
    BY DEF IInv, LocksOK
  <2>. QED
    BY <1>1, <1>2, <1>4, <2>1 DEF Holding, HasClan, HasUser
<1>9. JoinSeen(r)'
  BY <1>1, <1>4 DEF JoinSeen, IInv, FreshOK, tables
<1>10. ClanFresh(r)'
  BY <1>1, <1>4, SameClanFresh
<1>11. UserFresh(r)'
  <2>1. UserFresh(r)
    BY DEF IInv, FreshOK
  <2>2. HasUser(r)' => HasUser(r)
    BY <1>1, <1>4 DEF HasUser
  <2>3. in.user \in Users /\ (in.op \in {"accept", "transfer"} => in.other \in Users)
    BY InputFields
  <2>4. \A v \in Users : HasCapacity(v)' = HasCapacity(v) /\ LeadsSome(v)' = LeadsSome(v)
    BY SameReads
  <2>5. standing' = standing
    BY DEF tables
  <2>. QED
    BY <1>1, <1>2, <1>4, <2>1, <2>2, <2>3, <2>4, <2>5 DEF UserFresh, Member
<1>12. label \in Labels
  BY DEF Labels
<1>. QED
  BY <1>1, <1>3, <1>6, <1>7, <1>8, <1>9, <1>10, <1>11, <1>12, MoveStep

(* The new membership of join_clan waits for its clan. *)
LEMMA InsertMembershipStep ==
  ASSUME IInv, NEW r \in Requests, InsertMembership(r)
  PROVE  IInv'
<1>1. PICK in \in Inputs : in = input[r] /\ pc[r] = "insert" /\ in.op = "join"
  BY RunningInput DEF IInv, InsertMembership
<1>2. ClanRow(in.clan) \in Rows
  BY <1>1, InputFields, RowTypes DEF AccountOps
<1>3. PICK s : s = [snap[r] EXCEPT !.tell = Audience(in)]
  OBVIOUS
<1>4. s \in Snapshots /\ s.at = snap[r].at /\ s.privacy = snap[r].privacy
  <2>1. Audience(in) \subseteq Users /\ snap[r] \in Snapshots
    BY AudienceType, RequestTypes DEF IInv
  <2>. QED
    BY <1>3, <2>1 DEF Snapshots
<1>5. Notifying(in) \in {"notify", "commit"} /\ ControlAt(Notifying(in), in)
  BY WritingLabel DEF IInv
<1>. QED
  BY <1>1, <1>2, <1>3, <1>4, <1>5, ShareStep DEF InsertMembership, Remember

(* The new invitation waits for its creator. *)
LEMMA InsertInvitationStep ==
  ASSUME IInv, NEW r \in Requests, InsertInvitation(r)
  PROVE  IInv'
<1>1. PICK in \in Inputs : in = input[r] /\ pc[r] = "insert" /\ in.op = "invite"
  BY RunningInput DEF IInv, InsertInvitation
<1>2. UserRow(in.user) \in Rows
  BY <1>1, InputFields, RowTypes
<1>3. snap' = [snap EXCEPT ![r] = snap[r]] /\ snap[r] \in Snapshots
  BY RequestTypes DEF IInv, TypeOK, InsertInvitation
<1>4. ControlAt("commit", in)
  BY <1>1 DEF ControlAt
<1>. QED
  BY <1>1, <1>2, <1>3, <1>4, ShareStep DEF InsertInvitation

(* One notification is inserted. *)
LEMMA NotifyStep ==
  ASSUME IInv, NEW r \in Requests, Notify(r)
  PROVE  IInv'
<1>1. PICK in \in Inputs : in = input[r] /\ pc[r] = "notify"
  BY RunningInput DEF IInv, Notify
<1>2. PICK v \in snap[r].tell :
        /\ Take(r, UserRow(v), "share")
        /\ Remember(r, [snap[r] EXCEPT !.tell = @ \ {v}])
        /\ Goto(r, IF snap[r].tell = {v} THEN "commit" ELSE "notify")
  BY DEF Notify
<1>3. snap[r] \in Snapshots
  BY RequestTypes DEF IInv
<1>4. UserRow(v) \in Rows
  BY <1>3, RowTypes DEF Snapshots
<1>5. PICK s : s = [snap[r] EXCEPT !.tell = @ \ {v}]
  OBVIOUS
<1>6. s \in Snapshots /\ s.at = snap[r].at /\ s.privacy = snap[r].privacy
  BY <1>3, <1>5 DEF Snapshots
<1>7. PICK label \in {"notify", "commit"} :
         label = IF snap[r].tell = {v} THEN "commit" ELSE "notify"
  OBVIOUS
<1>8. ControlAt(label, in)
  BY <1>1, RequestTypes DEF ControlAt, IInv
<1>9. UNCHANGED <<tables, now, input>>
  BY DEF Notify
<1>. QED
  BY <1>1, <1>2, <1>4, <1>5, <1>6, <1>7, <1>8, <1>9, ShareStep DEF Remember

(* Time passes: codes only expire. *)
LEMMA TickStep ==
  ASSUME IInv, Tick
  PROVE  IInv'
<1>1. UNCHANGED <<tables, pc, input, snap, held>> /\ now' = now + 1 /\ now \in Nat
  BY DEF Tick, IInv, TypeOK
<1>2. ASSUME NEW c \in Clans
      PROVE  ActiveCodes(c, now)' \subseteq ActiveCodes(c, now)
  <2>1. ASSUME NEW i \in Codes, Usable(i, now)'
        PROVE  Usable(i, now)
    BY <1>1, <2>1, CodeTypes DEF Usable, tables, IInv
  <2>. QED
    BY <1>1, <2>1 DEF ActiveCodes, tables
<1>3. TypeOK' /\ ControlOK' /\ LocksOK'
  BY <1>1 DEF IInv, TypeOK, ControlOK, LocksOK, Compatible, Holding, HasClan, HasUser, tables
<1>4. RollsOK' /\ OneLeadership' /\ CapKept'
  BY <1>1 DEF IInv, RollsOK, OneLeadership, CapKept, ClansOf, Leads, Member, tables
<1>5. MaxCodes \in Nat
  BY ClanAssumption
<1>6. CodeLimitKept'
  BY <1>2, <1>5, CodesKept DEF IInv, CodeLimitKept
<1>7. FreshOK'
  <2>1. ASSUME NEW r \in Requests PROVE ClanFresh(r)'
    <3>. SUFFICES ASSUME HasClan(r)' PROVE ClanFresh(r)'
      BY DEF ClanFresh
    <3>1. HasClan(r) /\ ClanFresh(r)
      BY <1>1 DEF HasClan, IInv, FreshOK
    <3>2. PICK in \in Inputs : in = input[r] /\ in.op \in ClanOps
      <4>1. input[r] # NoInput
        BY <3>1 DEF HasClan, NoInput, ClanOps, LeaderOps
      <4>. QED
        BY <3>1, <4>1, RequestTypes DEF IInv, HasClan
    <3>3. PICK c \in Clans : c = in.clan
      BY <3>2, InputFields DEF ClanOps, LeaderOps, AccountOps
    <3>4. Cardinality(ActiveCodes(c, now)) < MaxCodes
            => Cardinality(ActiveCodes(c, now)') < MaxCodes
      BY <1>2, <1>5, CodesKept
    <3>5. snap[r].at \in Nat
      BY RequestTypes DEF IInv, Snapshots
    <3>. QED
      BY <1>1, <3>1, <3>2, <3>3, <3>4, <3>5 DEF ClanFresh, tables
  <2>2. ASSUME NEW r \in Requests PROVE UserFresh(r)'
    <3>1. UserFresh(r)
      BY DEF IInv, FreshOK
    <3>. QED
      BY <1>1, <3>1 DEF UserFresh, HasUser, LeadsSome, HasCapacity, ClansOf, Leads, Member, tables
  <2>3. ASSUME NEW r \in Requests PROVE JoinSeen(r)'
    BY <1>1 DEF JoinSeen, IInv, FreshOK, tables
  <2>. QED
    BY <2>1, <2>2, <2>3 DEF FreshOK
<1>. QED
  BY <1>3, <1>4, <1>6, <1>7 DEF IInv

--------------------------------------------------------------------------------
(* Commits, by what they write. *)

(* A step of r changes the codes of a clan only under a lock on the clan. *)
CodesGuarantee(r) ==
  \A c \in Clans : (\A m \in Modes : <<ClanRow(c), m>> \notin held[r]) =>
    \A i \in Codes : codes[i].clan = c \/ codes'[i].clan = c => codes'[i] = codes[i]

(* What is known of a handler at its commit. *)
LEMMA AtCommit ==
  ASSUME IInv, NEW r \in Requests, NEW op, Committing(r, op)
  PROVE  /\ input[r] \in Inputs /\ input[r].op = op
         /\ op \in ClanOps =>
              /\ HasClan(r) /\ ClanFresh(r) /\ input[r].clan \in Clans
              /\ phase[input[r].clan] = "alive"
              /\ ClanLock(input[r].clan) \in held[r]
         /\ op \in UserOps =>
              /\ HasUser(r) /\ UserFresh(r) /\ UserLock(input[r]) \in held[r]
<1>1. input[r] \in Inputs /\ input[r].op = op /\ pc[r] = "commit"
  BY RunningInput DEF IInv, Committing
<1>2. Holding(r) /\ ClanFresh(r) /\ UserFresh(r)
  BY DEF IInv, LocksOK, FreshOK
<1>3. op \in ClanOps => HasClan(r) /\ input[r].clan \in Clans
  BY <1>1, InputFields DEF HasClan, ClanOps, LeaderOps, AccountOps
<1>4. op \in UserOps => HasUser(r)
  BY <1>1 DEF HasUser
<1>. QED
  BY <1>1, <1>2, <1>3, <1>4 DEF Holding, ClanFresh

(* If clans that are not dissolved get no new leaders, nobody gets a       *)
(* second one.                                                             *)
LEMMA NoNewLeaders ==
  ASSUME IInv, \A c \in Clans : phase'[c] = "alive" => phase[c] = "alive" /\ leaders'[c] \subseteq leaders[c]
  PROVE  OneLeadership'
<1>1. ASSUME NEW u \in Users, NEW c \in Clans, phase'[c] = "alive", Leads(u, c)'
      PROVE  phase[c] = "alive" /\ Leads(u, c)
  BY <1>1 DEF Leads, Member, IInv, RollsOK
<1>. QED
  BY <1>1 DEF OneLeadership, IInv

(* If nobody gains a membership, the cap is kept. *)
LEMMA NoNewMembers ==
  ASSUME IInv, \A u \in Users, c \in Clans :
                  phase'[c] = "alive" /\ standing'[u][c] = "ACCEPTED"
                    => phase[c] = "alive" /\ standing[u][c] = "ACCEPTED"
  PROVE  CapKept'
<1>1. ASSUME NEW u \in Users PROVE Cardinality(ClansOf(u)') <= MaxPrivate
  BY CapacityKept DEF IInv, CapKept
<1>. QED
  BY <1>1 DEF CapKept

(* One more element is at most one more. *)
LEMMA OneMore ==
  ASSUME NEW S, IsFiniteSet(S), NEW x
  PROVE  /\ IsFiniteSet(S \cup {x}) /\ Cardinality(S \cup {x}) \in Nat
         /\ Cardinality(S) \in Nat /\ Cardinality(S \cup {x}) <= Cardinality(S) + 1
<1>1. Cardinality(S) \in Nat
  BY FS_CardinalityType
<1>2. /\ IsFiniteSet(S \cup {x})
      /\ Cardinality(S \cup {x}) = IF x \in S THEN Cardinality(S) ELSE Cardinality(S) + 1
  BY FS_AddElement
<1>. QED
  BY <1>1, <1>2

(* If one user with room gains one membership, the cap is kept. *)
LEMMA OneNewMember ==
  ASSUME IInv, NEW w \in Users, NEW c \in Clans, HasCapacity(w),
         \A u \in Users, d \in Clans :
           phase'[d] = "alive" /\ standing'[u][d] = "ACCEPTED"
             => \/ phase[d] = "alive" /\ standing[u][d] = "ACCEPTED"
                \/ u = w /\ d = c
  PROVE  CapKept'
<1>1. ASSUME NEW u \in Users, u # w PROVE Cardinality(ClansOf(u)') <= MaxPrivate
  BY <1>1, CapacityKept DEF IInv, CapKept
<1>2. Cardinality(ClansOf(w)') <= MaxPrivate
  <2>1. ClansOf(w)' \subseteq ClansOf(w) \cup {c} /\ ClansOf(w) \subseteq Clans
    BY DEF ClansOf, Member
  <2>2. IsFiniteSet(ClansOf(w))
    BY <2>1, FS_Subset, ClanAssumption
  <2>3. /\ IsFiniteSet(ClansOf(w) \cup {c})
        /\ Cardinality(ClansOf(w) \cup {c}) <= Cardinality(ClansOf(w)) + 1
    BY <2>2, OneMore
  <2>4. /\ Cardinality(ClansOf(w)') <= Cardinality(ClansOf(w) \cup {c})
        /\ Cardinality(ClansOf(w)') \in Nat /\ Cardinality(ClansOf(w)) \in Nat
        /\ Cardinality(ClansOf(w) \cup {c}) \in Nat
    BY <2>1, <2>2, <2>3, FS_Subset, FS_CardinalityType
  <2>5. MaxPrivate \in Nat /\ Cardinality(ClansOf(w)) < MaxPrivate
    BY ClanAssumption DEF HasCapacity
  <2>. QED
    BY <2>3, <2>4, <2>5
<1>. QED
  BY <1>1, <1>2 DEF CapKept

(* If no code changes, the number of usable codes does not. *)
LEMMA NoNewCodes ==
  ASSUME IInv, UNCHANGED <<codes, now>>
  PROVE  CodeLimitKept'
  BY DEF IInv, CodeLimitKept, ActiveCodes, Usable

(* A commit that touches neither memberships nor codes. *)
LEMMA QuietCommit ==
  ASSUME IInv, NEW r \in Requests, End(r), TablesOK',
         UNCHANGED <<phase, standing, leaders, codes, now>>
  PROVE  IInv'
<1>1. ClanGuarantee(r) /\ UserGuarantee(r)
  BY DEF ClanGuarantee, UserGuarantee
<1>2. RollsOK' /\ OneLeadership' /\ CapKept'
  BY DEF IInv, RollsOK, OneLeadership, CapKept, ClansOf, Leads, Member
<1>. QED
  BY <1>1, <1>2, NoNewCodes, EndStep

(* A commit that writes codes only. *)
LEMMA CodesCommit ==
  ASSUME IInv, NEW r \in Requests, End(r), codes' \in [Codes -> Invitations \cup {NoCode}],
         UNCHANGED <<phase, privacy, standing, leaders, selected, active, now>>,
         CodesGuarantee(r), CodeLimitKept'
  PROVE  IInv'
<1>1. ClanGuarantee(r) /\ UserGuarantee(r)
  BY DEF ClanGuarantee, UserGuarantee, CodesGuarantee
<1>2. RollsOK' /\ OneLeadership' /\ CapKept'
  BY DEF IInv, RollsOK, OneLeadership, CapKept, ClansOf, Leads, Member
<1>3. TablesOK'
  BY DEF IInv, TypeOK, TablesOK
<1>. QED
  BY <1>1, <1>2, <1>3, EndStep

(* A commit that sets one membership row of a user who is no member.       *)
LEMMA StandingCommit ==
  ASSUME IInv, NEW r \in Requests, End(r),
         NEW w \in Users, NEW c \in Clans, NEW s \in {"PENDING", "ACCEPTED", "REJECTED"},
         SetStanding(w, c, s),
         UNCHANGED <<phase, privacy, leaders, selected, active, now>>,
         codes' \in [Codes -> Invitations \cup {NoCode}],
         CodesGuarantee(r), CodeLimitKept',
         phase[c] # "absent", standing[w][c] # "ACCEPTED",
         s = "ACCEPTED" => HasCapacity(w),
         \/ standing[w][c] = "REJECTED"
         \/ \E m \in Modes : <<ClanRow(c), m>> \in held[r],
         \/ standing[w][c] = "PENDING" /\ s = "REJECTED"
         \/ <<UserRow(w), "update">> \in held[r]
  PROVE  IInv'
<1>1. standing' \in [Users -> [Clans -> Standings]]
  BY DEF IInv, TypeOK, SetStanding, Standings
<1>2. \A u \in Users, d \in Clans :
        standing'[u][d] = IF u = w /\ d = c THEN s ELSE standing[u][d]
  BY DEF IInv, TypeOK, SetStanding
<1>3. TablesOK'
  BY <1>1, <1>2 DEF IInv, TypeOK, TablesOK
<1>4. ClanGuarantee(r)
  BY <1>2 DEF ClanGuarantee, CodesGuarantee
<1>5. UserGuarantee(r)
  BY <1>2 DEF UserGuarantee
<1>6. w \notin leaders[c]
  BY DEF IInv, RollsOK
<1>7. RollsOK'
  <2>1. ASSUME NEW d \in Clans
        PROVE  /\ phase[d] = "absent" => \A u \in Users : standing'[u][d] = "NONE"
               /\ \A u \in leaders[d] : standing'[u][d] = "ACCEPTED"
    <3>1. leaders[d] \subseteq Users
      BY DEF IInv, TypeOK
    <3>. QED
      BY <1>2, <1>6, <3>1 DEF IInv, RollsOK
  <2>. QED
    BY <2>1 DEF RollsOK, IInv
<1>8. OneLeadership'
  BY NoNewLeaders
<1>9. CapKept'
  <2>1. CASE s = "ACCEPTED"
    BY <1>2, <2>1, OneNewMember
  <2>2. CASE s # "ACCEPTED"
    BY <1>2, <2>2, NoNewMembers
  <2>. QED
    BY <2>1, <2>2
<1>. QED
  BY <1>3, <1>4, <1>5, <1>7, <1>8, <1>9, EndStep

(* A commit that deletes the row of a member who does not lead the clan,   *)
(* or finds it deleted.                                                    *)
LEMMA DeleteCommit ==
  ASSUME IInv, NEW r \in Requests, End(r),
         NEW w \in Users, NEW c \in Clans, DeleteRow(w, c),
         UNCHANGED <<phase, privacy, codes, active, now>>,
         ClanLock(c) \in held[r], standing[w][c] \in {"ACCEPTED", "NONE"},
         w \notin leaders[c]
  PROVE  IInv'
<1>1. standing' \in [Users -> [Clans -> Standings]]
  BY DEF IInv, TypeOK, DeleteRow, SetStanding, Standings
<1>2. \A u \in Users, d \in Clans :
        standing'[u][d] = IF u = w /\ d = c THEN "NONE" ELSE standing[u][d]
  BY DEF IInv, TypeOK, DeleteRow, SetStanding
<1>3. leaders' = leaders
  BY DEF IInv, TypeOK, DeleteRow
<1>4. /\ selected' \in [Users -> SUBSET Clans]
      /\ \A u \in Users, d \in Clans : d \in selected'[u]
           => d \in selected[u] /\ ~(u = w /\ d = c)
  BY DEF IInv, TypeOK, DeleteRow
<1>5. TablesOK'
  BY <1>1, <1>2, <1>3, <1>4 DEF IInv, TypeOK, TablesOK
<1>6. <<ClanRow(c), "update">> \in held[r] /\ "update" \in Modes
  BY DEF ClanLock, Modes
<1>7. ClanGuarantee(r)
  BY <1>2, <1>3, <1>6 DEF ClanGuarantee
<1>8. UserGuarantee(r)
  BY <1>2, <1>3 DEF UserGuarantee
<1>9. RollsOK'
  <2>1. ASSUME NEW d \in Clans
        PROVE  /\ phase[d] = "absent" => \A u \in Users : standing'[u][d] = "NONE"
               /\ \A u \in leaders[d] : standing'[u][d] = "ACCEPTED"
    <3>1. leaders[d] \subseteq Users
      BY DEF IInv, TypeOK
    <3>. QED
      BY <1>2, <3>1 DEF IInv, RollsOK
  <2>. QED
    BY <1>3, <2>1 DEF RollsOK, IInv
<1>10. OneLeadership' /\ CapKept' /\ CodeLimitKept'
  BY <1>2, <1>3, NoNewLeaders, NoNewMembers, NoNewCodes
<1>. QED
  BY <1>5, <1>7, <1>8, <1>9, <1>10, EndStep

--------------------------------------------------------------------------------
(* The commits. *)

(* Codes that do not change keep their guarantee. *)
LEMMA SameCodes ==
  ASSUME IInv, NEW r \in Requests, UNCHANGED <<codes, now>>
  PROVE  /\ codes' \in [Codes -> Invitations \cup {NoCode}]
         /\ CodesGuarantee(r) /\ CodeLimitKept'
  BY NoNewCodes DEF IInv, TypeOK, CodesGuarantee

(* A membership or a request to join is committed. *)
LEMMA CommitJoinStep ==
  ASSUME IInv, NEW r \in Requests, CommitJoin(r)
  PROVE  IInv'
<1>1. PICK in \in Inputs : in = input[r] /\ in.op = "join" /\ pc[r] = "commit"
  BY AtCommit DEF CommitJoin, Committing
<1>2. HasUser(r) /\ UserFresh(r) /\ UserLock(in) \in held[r] /\ JoinSeen(r)
  BY <1>1, AtCommit DEF CommitJoin, UserOps, IInv, FreshOK
<1>3. in.user \in Users /\ in.clan \in Clans
  BY <1>1, InputFields DEF AccountOps
<1>4. <<UserRow(in.user), "update">> \in held[r]
  BY <1>1, <1>2 DEF UserLock, Subject, UserMode
<1>5. PICK s \in {"PENDING", "ACCEPTED", "REJECTED"} :
         s = IF snap[r].privacy = "PUBLIC" THEN "ACCEPTED" ELSE "PENDING"
  OBVIOUS
<1>6. /\ End(r) /\ SetStanding(in.user, in.clan, s)
      /\ UNCHANGED <<phase, privacy, leaders, selected, codes, active, now>>
  BY <1>1, <1>5 DEF CommitJoin
<1>7. s = "ACCEPTED" => HasCapacity(in.user)
  BY <1>1, <1>2, <1>5 DEF UserFresh
<1>8. phase[in.clan] # "absent"
  BY <1>1, <1>2 DEF JoinSeen
<1>9. /\ standing[in.user][in.clan] # "ACCEPTED"
      /\ \/ standing[in.user][in.clan] = "REJECTED"
         \/ \E m \in Modes : <<ClanRow(in.clan), m>> \in held[r]
  BY <1>1, <1>2 DEF UserFresh, Modes
<1>10. /\ codes' \in [Codes -> Invitations \cup {NoCode}]
       /\ CodesGuarantee(r) /\ CodeLimitKept'
  BY <1>6, SameCodes
<1>. QED
  BY <1>3, <1>4, <1>6, <1>7, <1>8, <1>9, <1>10, StandingCommit

(* A request to join is accepted. *)
LEMMA CommitAcceptStep ==
  ASSUME IInv, NEW r \in Requests, CommitAccept(r)
  PROVE  IInv'
<1>1. PICK in \in Inputs : in = input[r] /\ in.op = "accept" /\ pc[r] = "commit"
  BY AtCommit DEF CommitAccept, Committing
<1>2. /\ HasUser(r) /\ UserFresh(r) /\ UserLock(in) \in held[r]
      /\ in.clan \in Clans /\ phase[in.clan] = "alive" /\ ClanLock(in.clan) \in held[r]
  BY <1>1, AtCommit DEF CommitAccept, UserOps, ClanOps, LeaderOps
<1>3. in.other \in Users
  BY <1>1, InputFields
<1>4. <<UserRow(in.other), "update">> \in held[r]
  BY <1>1, <1>2 DEF UserLock, Subject, UserMode
<1>5. \E m \in Modes : <<ClanRow(in.clan), m>> \in held[r]
  BY <1>2 DEF ClanLock, Modes
<1>6. /\ End(r) /\ SetStanding(in.other, in.clan, "ACCEPTED")
      /\ UNCHANGED <<phase, privacy, leaders, selected, codes, active, now>>
  BY <1>1 DEF CommitAccept
<1>7. HasCapacity(in.other) /\ standing[in.other][in.clan] = "PENDING"
  BY <1>1, <1>2 DEF UserFresh
<1>8. /\ codes' \in [Codes -> Invitations \cup {NoCode}]
      /\ CodesGuarantee(r) /\ CodeLimitKept'
  BY <1>6, SameCodes
<1>. QED
  BY <1>2, <1>3, <1>4, <1>5, <1>6, <1>7, <1>8, StandingCommit

(* A request to join is rejected. *)
LEMMA CommitRejectStep ==
  ASSUME IInv, NEW r \in Requests, CommitReject(r)
  PROVE  IInv'
<1>1. PICK in \in Inputs : in = input[r] /\ in.op = "reject" /\ pc[r] = "commit"
  BY AtCommit DEF CommitReject, Committing
<1>2. /\ HasClan(r) /\ ClanFresh(r)
      /\ in.clan \in Clans /\ phase[in.clan] = "alive" /\ ClanLock(in.clan) \in held[r]
  BY <1>1, AtCommit DEF CommitReject, ClanOps, LeaderOps
<1>3. in.other \in Users
  BY <1>1, InputFields
<1>4. CASE Refuse(r)
  BY <1>4, RefuseStep
<1>5. CASE ~Refuse(r)
  <2>1. /\ standing[in.other][in.clan] # "NONE"
        /\ SetStanding(in.other, in.clan, "REJECTED") /\ End(r)
        /\ UNCHANGED <<phase, privacy, leaders, selected, codes, active, now>>
    BY <1>1, <1>5 DEF CommitReject
  <2>2. standing[in.other][in.clan] = "PENDING"
    BY <1>1, <1>2, <2>1 DEF ClanFresh
  <2>3. \E m \in Modes : <<ClanRow(in.clan), m>> \in held[r]
    BY <1>2 DEF ClanLock, Modes
  <2>4. /\ codes' \in [Codes -> Invitations \cup {NoCode}]
        /\ CodesGuarantee(r) /\ CodeLimitKept'
    BY <2>1, SameCodes
  <2>. QED
    BY <1>2, <1>3, <2>1, <2>2, <2>3, <2>4, StandingCommit
<1>. QED
  BY <1>4, <1>5

(* A member leaves. *)
LEMMA CommitLeaveStep ==
  ASSUME IInv, NEW r \in Requests, CommitLeave(r)
  PROVE  IInv'
<1>1. PICK in \in Inputs : in = input[r] /\ in.op = "leave"
  BY AtCommit DEF CommitLeave
<1>2. /\ HasClan(r) /\ ClanFresh(r) /\ in.clan \in Clans /\ ClanLock(in.clan) \in held[r]
  BY <1>1, AtCommit DEF CommitLeave, ClanOps, LeaderOps
<1>3. in.user \in Users
  BY <1>1, InputFields
<1>4. standing[in.user][in.clan] \in {"ACCEPTED", "NONE"} /\ in.user \notin leaders[in.clan]
  BY <1>1, <1>2 DEF ClanFresh
<1>. QED
  BY <1>1, <1>2, <1>3, <1>4, DeleteCommit DEF CommitLeave

(* A member is expelled. *)
LEMMA CommitKickStep ==
  ASSUME IInv, NEW r \in Requests, CommitKick(r)
  PROVE  IInv'
<1>1. PICK in \in Inputs : in = input[r] /\ in.op = "kick"
  BY AtCommit DEF CommitKick
<1>2. /\ HasClan(r) /\ ClanFresh(r) /\ in.clan \in Clans /\ ClanLock(in.clan) \in held[r]
  BY <1>1, AtCommit DEF CommitKick, ClanOps, LeaderOps
<1>3. in.other \in Users
  BY <1>1, InputFields
<1>4. standing[in.other][in.clan] \in {"ACCEPTED", "NONE"} /\ in.other \notin leaders[in.clan]
  BY <1>1, <1>2 DEF ClanFresh
<1>. QED
  BY <1>1, <1>2, <1>3, <1>4, DeleteCommit DEF CommitKick

(* The leadership changes hands. *)
LEMMA CommitTransferStep ==
  ASSUME IInv, NEW r \in Requests, CommitTransfer(r)
  PROVE  IInv'
<1>1. PICK in \in Inputs : in = input[r] /\ in.op = "transfer"
  BY AtCommit DEF CommitTransfer
<1>2. /\ HasClan(r) /\ ClanFresh(r) /\ HasUser(r) /\ UserFresh(r)
      /\ UserLock(in) \in held[r] /\ phase[in.clan] = "alive"
      /\ ClanLock(in.clan) \in held[r]
  BY <1>1, AtCommit DEF CommitTransfer, ClanOps, LeaderOps, UserOps
<1>3. PICK w \in Users : w = in.other
  BY <1>1, InputFields
<1>4. PICK c \in Clans : c = in.clan
  BY <1>1, InputFields DEF AccountOps
<1>5. CASE Refuse(r)
  BY <1>5, RefuseStep
<1>6. CASE ~Refuse(r)
  <2>1. /\ standing[w][c] # "NONE" /\ End(r)
        /\ leaders' = [leaders EXCEPT ![c] = (leaders[c] \ {in.user}) \cup {w}]
        /\ UNCHANGED <<phase, privacy, standing, selected, codes, active, now>>
    BY <1>1, <1>3, <1>4, <1>6 DEF CommitTransfer, Promotable
  <2>2. standing[w][c] = "ACCEPTED" /\ in.user \in leaders[c]
    BY <1>1, <1>2, <1>3, <1>4, <2>1 DEF ClanFresh, LeaderOps
  <2>3. leaders[c] = {in.user}
    <3>1. PICK x \in Users : leaders[c] = {x}
      BY <1>2, <1>4 DEF IInv, RollsOK
    <3>. QED
      BY <2>2, <3>1
  <2>4. \A d \in Clans : leaders'[d] = IF d = c THEN {w} ELSE leaders[d]
    BY <2>1, <2>3 DEF IInv, TypeOK
  <2>5. ~LeadsSome(w)
    BY <1>1, <1>2, <1>3 DEF UserFresh
  <2>6. leaders' \in [Clans -> SUBSET Users]
    <3>1. leaders \in [Clans -> SUBSET Users]
      BY DEF IInv, TypeOK
    <3>2. (leaders[c] \ {in.user}) \cup {w} \in SUBSET Users
      BY <2>3
    <3>. QED
      BY <2>1, <3>1, <3>2
  <2>7. TablesOK'
    BY <2>1, <2>2, <2>4, <2>6 DEF IInv, TypeOK, TablesOK
  <2>8. /\ \E m \in Modes : <<ClanRow(c), m>> \in held[r]
        /\ <<UserRow(w), "update">> \in held[r]
    BY <1>1, <1>2, <1>3, <1>4 DEF ClanLock, UserLock, Subject, UserMode, Modes
  <2>9. ClanGuarantee(r)
    BY <2>1, <2>4, <2>8 DEF ClanGuarantee
  <2>10. UserGuarantee(r)
    BY <2>1, <2>4, <2>8 DEF UserGuarantee
  <2>11. RollsOK'
    BY <2>1, <2>2, <2>4 DEF IInv, RollsOK
  <2>12. OneLeadership'
    <3>1. ASSUME NEW u \in Users, NEW d \in Clans, phase'[d] = "alive", Leads(u, d)'
          PROVE  \/ d # c /\ Leads(u, d) /\ phase[d] = "alive" /\ u # w
                 \/ d = c /\ u = w
      <4>1. phase[d] = "alive" /\ u \in leaders'[d] /\ standing[u][d] = "ACCEPTED"
        BY <2>1, <3>1 DEF Leads, Member
      <4>2. CASE d = c
        BY <2>4, <4>1, <4>2
      <4>3. CASE d # c
        <5>1. Leads(u, d)
          BY <2>4, <4>1, <4>3 DEF Leads, Member
        <5>. QED
          BY <2>5, <4>1, <4>3, <5>1 DEF LeadsSome
      <4>. QED
        BY <4>2, <4>3
    <3>. QED
      BY <3>1 DEF OneLeadership, IInv
  <2>13. CapKept' /\ CodeLimitKept'
    BY <2>1, NoNewMembers, NoNewCodes
  <2>. QED
    BY <2>1, <2>7, <2>9, <2>10, <2>11, <2>12, <2>13, EndStep
<1>. QED
  BY <1>5, <1>6

(* The selection, the privacy or the activity of an account changes. *)
LEMMA CommitQuietStep ==
  ASSUME IInv, NEW r \in Requests, CommitSelect(r) \/ CommitEdit(r) \/ CommitLogin(r)
  PROVE  IInv'
<1>1. CASE CommitSelect(r)
  <2>1. PICK in \in Inputs : in = input[r] /\ in.op = "select"
    BY <1>1, AtCommit DEF CommitSelect
  <2>2. in.user \in Users /\ in.clan \in Clans
    BY <2>1, InputFields DEF AccountOps
  <2>3. CASE Refuse(r)
    BY <2>3, RefuseStep
  <2>4. CASE ~Refuse(r)
    <3>1. /\ standing[in.user][in.clan] = "ACCEPTED" /\ End(r)
          /\ selected' = [selected EXCEPT ![in.user] = {in.clan}]
          /\ UNCHANGED <<phase, privacy, standing, leaders, codes, active, now>>
      BY <1>1, <2>1, <2>4 DEF CommitSelect, Member
    <3>2. TablesOK'
      BY <2>2, <3>1 DEF IInv, TypeOK, TablesOK
    <3>. QED
      BY <3>1, <3>2, QuietCommit
  <2>. QED
    BY <2>3, <2>4
<1>2. CASE CommitEdit(r)
  <2>1. PICK in \in Inputs : in = input[r] /\ in.op = "edit"
    BY <1>2, AtCommit DEF CommitEdit
  <2>2. in.clan \in Clans /\ in.privacy \in Privacies
    BY <2>1, InputFields DEF AccountOps
  <2>3. TablesOK'
    BY <1>2, <2>1, <2>2 DEF IInv, TypeOK, TablesOK, CommitEdit
  <2>. QED
    BY <1>2, <2>3, QuietCommit DEF CommitEdit
<1>3. CASE CommitLogin(r)
  <2>1. TablesOK'
    BY <1>3 DEF IInv, TypeOK, TablesOK, CommitLogin
  <2>. QED
    BY <1>3, <2>1, QuietCommit DEF CommitLogin
<1>. QED
  BY <1>1, <1>2, <1>3

(* A clan is founded. *)
LEMMA CommitCreateStep ==
  ASSUME IInv, NEW r \in Requests, CommitCreate(r)
  PROVE  IInv'
<1>1. PICK in \in Inputs : in = input[r] /\ in.op = "create"
  BY AtCommit DEF CommitCreate
<1>2. HasUser(r) /\ UserFresh(r) /\ UserLock(in) \in held[r]
  BY <1>1, AtCommit DEF CommitCreate, UserOps
<1>3. PICK w \in Users : w = in.user
  BY <1>1, InputFields
<1>4. ~LeadsSome(w) /\ HasCapacity(w) /\ <<UserRow(w), "update">> \in held[r]
  BY <1>1, <1>2, <1>3 DEF UserFresh, UserLock, Subject, UserMode
<1>5. PICK c \in Clans :
        /\ phase[c] = "absent"
        /\ phase' = [phase EXCEPT ![c] = "alive"]
        /\ privacy' = [privacy EXCEPT ![c] = in.privacy]
        /\ SetStanding(w, c, "ACCEPTED")
        /\ leaders' = [leaders EXCEPT ![c] = {w}]
  BY <1>1, <1>3 DEF CommitCreate
<1>6. End(r) /\ UNCHANGED <<selected, codes, active, now>>
  BY DEF CommitCreate
<1>7. /\ \A d \in Clans : phase'[d] = IF d = c THEN "alive" ELSE phase[d]
      /\ \A d \in Clans : leaders'[d] = IF d = c THEN {w} ELSE leaders[d]
      /\ \A u \in Users, d \in Clans :
           standing'[u][d] = IF u = w /\ d = c THEN "ACCEPTED" ELSE standing[u][d]
  BY <1>5 DEF IInv, TypeOK, SetStanding
<1>8. TablesOK'
  <2>1. in.privacy \in Privacies
    BY <1>1, InputFields
  <2>2. /\ phase' \in [Clans -> Phases] /\ privacy' \in [Clans -> Privacies]
        /\ leaders' \in [Clans -> SUBSET Users]
        /\ standing' \in [Users -> [Clans -> Standings]]
    BY <1>5, <2>1 DEF IInv, TypeOK, SetStanding, Phases, Standings
  <2>. QED
    BY <1>6, <1>7, <2>2 DEF IInv, TypeOK, TablesOK
<1>9. \A u \in Users : standing[u][c] = "NONE"
  BY <1>5 DEF IInv, RollsOK
<1>10. ClanGuarantee(r)
  BY <1>5, <1>6, <1>7 DEF ClanGuarantee
<1>11. UserGuarantee(r)
  BY <1>4, <1>7, <1>9 DEF UserGuarantee
<1>12. RollsOK'
  <2>1. ASSUME NEW d \in Clans
        PROVE  /\ phase'[d] = "absent" => \A u \in Users : standing'[u][d] = "NONE"
               /\ \A u \in leaders'[d] : standing'[u][d] = "ACCEPTED"
               /\ phase'[d] = "alive" => \E u \in Users : leaders'[d] = {u}
    <3>1. CASE d = c
      BY <1>7, <3>1
    <3>2. CASE d # c
      <4>1. leaders[d] \subseteq Users
        BY DEF IInv, TypeOK
      <4>. QED
        BY <1>7, <3>2, <4>1 DEF IInv, RollsOK
    <3>. QED
      BY <3>1, <3>2
  <2>. QED
    BY <2>1 DEF RollsOK
<1>13. OneLeadership'
  <2>1. ASSUME NEW u \in Users, NEW d \in Clans, phase'[d] = "alive", Leads(u, d)'
        PROVE  \/ d # c /\ Leads(u, d) /\ phase[d] = "alive" /\ u # w
               \/ d = c /\ u = w
    <3>1. CASE d = c
      BY <1>7, <2>1, <3>1 DEF Leads
    <3>2. CASE d # c
      <4>1. Leads(u, d) /\ phase[d] = "alive"
        BY <1>7, <2>1, <3>2 DEF Leads, Member
      <4>. QED
        BY <1>4, <3>2, <4>1 DEF LeadsSome
    <3>. QED
      BY <3>1, <3>2
  <2>. QED
    BY <2>1 DEF OneLeadership, IInv
<1>14. CapKept'
  <2>1. \A u \in Users, d \in Clans :
          phase'[d] = "alive" /\ standing'[u][d] = "ACCEPTED"
            => \/ phase[d] = "alive" /\ standing[u][d] = "ACCEPTED"
               \/ u = w /\ d = c
    BY <1>7, <1>9
  <2>. QED
    BY <1>4, <2>1, OneNewMember
<1>15. CodeLimitKept'
  BY <1>6, NoNewCodes
<1>. QED
  BY <1>6, <1>8, <1>10, <1>11, <1>12, <1>13, <1>14, <1>15, EndStep

(* A clan is dissolved; its rows stay. *)
LEMMA CommitDissolveStep ==
  ASSUME IInv, NEW r \in Requests, CommitDissolve(r)
  PROVE  IInv'
<1>1. PICK c \in Clans : c = input[r].clan
  BY AtCommit DEF CommitDissolve, ClanOps, LeaderOps
<1>2. /\ phase[c] = "alive" /\ \E m \in Modes : <<ClanRow(c), m>> \in held[r]
  BY <1>1, AtCommit DEF CommitDissolve, ClanOps, LeaderOps, ClanLock, Modes
<1>3. /\ phase' = [phase EXCEPT ![c] = "dissolved"]
      /\ selected' = [v \in Users |-> IF v \in snap[r].clears
                                        THEN selected[v] \ {c} ELSE selected[v]]
      /\ End(r) /\ UNCHANGED <<privacy, standing, leaders, codes, active, now>>
  BY <1>1 DEF CommitDissolve
<1>4. \A d \in Clans : phase'[d] = IF d = c THEN "dissolved" ELSE phase[d]
  BY <1>3 DEF IInv, TypeOK
<1>5. TablesOK'
  <2>1. phase' \in [Clans -> Phases]
    BY <1>3 DEF IInv, TypeOK, Phases
  <2>2. /\ selected' \in [Users -> SUBSET Clans]
        /\ \A u \in Users : selected'[u] \subseteq selected[u]
    BY <1>3 DEF IInv, TypeOK
  <2>. QED
    BY <1>3, <2>1, <2>2 DEF IInv, TypeOK, TablesOK
<1>6. ClanGuarantee(r)
  BY <1>2, <1>3, <1>4 DEF ClanGuarantee
<1>7. UserGuarantee(r)
  BY <1>3, <1>4 DEF UserGuarantee
<1>8. RollsOK'
  BY <1>3, <1>4 DEF IInv, RollsOK
<1>9. OneLeadership' /\ CapKept' /\ CodeLimitKept'
  BY <1>3, <1>4, NoNewLeaders, NoNewMembers, NoNewCodes
<1>. QED
  BY <1>3, <1>5, <1>6, <1>7, <1>8, <1>9, EndStep

(* An account is deactivated and loses its memberships. *)
LEMMA CommitDeactivateStep ==
  ASSUME IInv, NEW r \in Requests, CommitDeactivate(r)
  PROVE  IInv'
<1>1. PICK in \in Inputs : in = input[r] /\ in.op = "deactivate"
  BY AtCommit DEF CommitDeactivate
<1>2. HasUser(r) /\ UserFresh(r) /\ UserLock(in) \in held[r]
  BY <1>1, AtCommit DEF CommitDeactivate, UserOps
<1>3. PICK w \in Users : w = in.user
  BY <1>1, InputFields
<1>4. ~LeadsSome(w) /\ <<UserRow(w), "nokey">> \in held[r]
  BY <1>1, <1>2, <1>3 DEF UserFresh, UserLock, Subject, UserMode
<1>5. /\ standing' = [standing EXCEPT ![w] = [c \in Clans |-> "NONE"]]
      /\ leaders' = [c \in Clans |-> leaders[c] \ {w}]
      /\ selected' = [selected EXCEPT ![w] = {}]
      /\ active' = [active EXCEPT ![w] = FALSE]
      /\ End(r) /\ UNCHANGED <<phase, privacy, codes, now>>
  BY <1>1, <1>3 DEF CommitDeactivate
<1>6. /\ \A u \in Users, d \in Clans :
           standing'[u][d] = IF u = w THEN "NONE" ELSE standing[u][d]
      /\ \A d \in Clans : leaders'[d] = leaders[d] \ {w}
      /\ \A u \in Users : selected'[u] = IF u = w THEN {} ELSE selected[u]
  BY <1>5 DEF IInv, TypeOK
<1>7. ASSUME NEW d \in Clans, phase[d] = "alive"
      PROVE  leaders'[d] = leaders[d]
  <2>1. w \notin leaders[d]
    BY <1>4, <1>7 DEF LeadsSome, Leads, Member, IInv, RollsOK
  <2>2. leaders[d] \ {w} = leaders[d]
    BY <2>1
  <2>. QED
    BY <1>6, <2>2, Zenon
<1>8. TablesOK'
  <2>1. /\ standing' \in [Users -> [Clans -> Standings]]
        /\ leaders' \in [Clans -> SUBSET Users] /\ selected' \in [Users -> SUBSET Clans]
        /\ active' \in [Users -> BOOLEAN]
    BY <1>5 DEF IInv, TypeOK, Standings
  <2>. QED
    BY <1>5, <1>6, <2>1 DEF IInv, TypeOK, TablesOK
<1>9. ClanGuarantee(r)
  BY <1>5, <1>6, <1>7 DEF ClanGuarantee
<1>10. UserGuarantee(r)
  BY <1>4, <1>5, <1>6 DEF UserGuarantee
<1>11. RollsOK'
  <2>1. ASSUME NEW d \in Clans
        PROVE  /\ phase'[d] = "absent" => \A u \in Users : standing'[u][d] = "NONE"
               /\ \A u \in leaders'[d] : standing'[u][d] = "ACCEPTED"
               /\ phase'[d] = "alive" => \E u \in Users : leaders'[d] = {u}
    <3>1. leaders[d] \subseteq Users
      BY DEF IInv, TypeOK
    <3>. QED
      BY <1>5, <1>6, <1>7, <3>1 DEF IInv, RollsOK
  <2>. QED
    BY <2>1 DEF RollsOK
<1>12. OneLeadership' /\ CapKept' /\ CodeLimitKept'
  BY <1>5, <1>6, NoNewLeaders, NoNewMembers, NoNewCodes
<1>. QED
  BY <1>5, <1>8, <1>9, <1>10, <1>11, <1>12, EndStep

(* What keeps or shrinks the usable codes of every clan keeps the limit. *)
LEMMA FewerCodes ==
  ASSUME IInv, \A c \in Clans : ActiveCodes(c, now)' \subseteq ActiveCodes(c, now)
  PROVE  CodeLimitKept'
<1>1. MaxCodes \in Nat
  BY ClanAssumption
<1>. QED
  BY <1>1, CodesKept DEF IInv, CodeLimitKept

(* An invitation is created and old ones are purged. *)
LEMMA CommitInviteStep ==
  ASSUME IInv, NEW r \in Requests, CommitInvite(r)
  PROVE  IInv'
<1>1. PICK c \in Clans : c = input[r].clan /\ input[r].op = "invite"
  BY AtCommit DEF CommitInvite, ClanOps, LeaderOps
<1>2. /\ HasClan(r) /\ ClanFresh(r) /\ \E m \in Modes : <<ClanRow(c), m>> \in held[r]
  BY <1>1, AtCommit DEF CommitInvite, ClanOps, LeaderOps, ClanLock, Modes
<1>3. Cardinality(ActiveCodes(c, now)) < MaxCodes
  BY <1>1, <1>2 DEF ClanFresh
<1>4. PICK kept, new :
        /\ kept = [i \in Codes |-> IF i \in Purgeable(c, snap[r].at)
                                      THEN NoCode ELSE codes[i]]
        /\ new = [clan |-> c, expires |-> snap[r].at + TTL, redeemed |-> None,
                  revoked |-> FALSE]
  OBVIOUS
<1>5. PICK x \in Codes : codes[x] = NoCode /\ codes' = [kept EXCEPT ![x] = new]
  BY <1>1, <1>4 DEF CommitInvite
<1>6. End(r) /\ UNCHANGED <<phase, privacy, standing, leaders, selected, active, now>>
  BY DEF CommitInvite
<1>7. new \in Invitations
  <2>1. snap[r].at \in Nat /\ TTL \in Nat
    BY RequestTypes, ClanAssumption DEF IInv, Snapshots
  <2>. QED
    BY <1>4, <2>1 DEF Invitations
<1>8. kept \in [Codes -> Invitations \cup {NoCode}]
  BY <1>4 DEF IInv, TypeOK
<1>9. codes' \in [Codes -> Invitations \cup {NoCode}]
  BY <1>5, <1>7, <1>8
<1>10. \A i \in Codes : codes'[i] = IF i = x THEN new
                                    ELSE IF i \in Purgeable(c, snap[r].at) THEN NoCode
                                    ELSE codes[i]
  BY <1>4, <1>5
<1>11. new.clan = c /\ NoCode.clan = None /\ None \notin Clans
  BY <1>4, ClanAssumption DEF NoCode
<1>12. \A i \in Codes : i \in Purgeable(c, snap[r].at) => codes[i].clan = c
  BY DEF Purgeable
<1>13. CodesGuarantee(r)
  <2>1. ASSUME NEW d \in Clans, d # c, NEW i \in Codes, codes[i].clan = d \/ codes'[i].clan = d
        PROVE  codes'[i] = codes[i]
    <3>1. CASE i = x
      BY <1>5, <1>10, <1>11, <2>1, <3>1
    <3>2. CASE i # x /\ i \in Purgeable(c, snap[r].at)
      BY <1>10, <1>11, <1>12, <2>1, <3>2
    <3>3. CASE i # x /\ i \notin Purgeable(c, snap[r].at)
      BY <1>10, <3>3
    <3>. QED
      BY <3>1, <3>2, <3>3
  <2>. QED
    BY <1>2, <2>1 DEF CodesGuarantee
<1>14. CodeLimitKept'
  <2>1. ASSUME NEW d \in Clans
        PROVE  ActiveCodes(d, now)' \subseteq ActiveCodes(d, now) \cup (IF d = c THEN {x} ELSE {})
    <3>1. ASSUME NEW i \in Codes, Usable(i, now)', codes'[i].clan = d
          PROVE  (i = x /\ d = c) \/ codes'[i] = codes[i]
      BY <1>10, <1>11, <3>1 DEF Usable
    <3>. QED
      BY <1>6, <3>1 DEF ActiveCodes, Usable
  <2>2. ASSUME NEW d \in Clans, d # c
        PROVE  Cardinality(ActiveCodes(d, now)') <= MaxCodes
    <3>1. ActiveCodes(d, now)' \subseteq ActiveCodes(d, now)
      BY <2>1, <2>2
    <3>2. MaxCodes \in Nat
      BY ClanAssumption
    <3>. QED
      BY <3>1, <3>2, CodesKept DEF IInv, CodeLimitKept
  <2>3. Cardinality(ActiveCodes(c, now)') <= MaxCodes
    <3>1. ActiveCodes(c, now)' \subseteq ActiveCodes(c, now) \cup {x}
      BY <2>1
    <3>2. IsFiniteSet(ActiveCodes(c, now))
      <4>1. ActiveCodes(c, now) \subseteq Codes
        BY DEF ActiveCodes
      <4>. QED
        BY <4>1, FS_Subset, ClanAssumption
    <3>3. /\ IsFiniteSet(ActiveCodes(c, now) \cup {x})
          /\ Cardinality(ActiveCodes(c, now)) \in Nat
          /\ Cardinality(ActiveCodes(c, now) \cup {x}) \in Nat
          /\ Cardinality(ActiveCodes(c, now) \cup {x}) <= Cardinality(ActiveCodes(c, now)) + 1
      BY <3>2, OneMore
    <3>4. /\ Cardinality(ActiveCodes(c, now)') <= Cardinality(ActiveCodes(c, now) \cup {x})
          /\ Cardinality(ActiveCodes(c, now)') \in Nat
      BY <3>1, <3>3, FS_Subset, FS_CardinalityType
    <3>5. MaxCodes \in Nat
      BY ClanAssumption
    <3>. QED
      BY <1>3, <3>3, <3>4, <3>5
  <2>. QED
    BY <2>2, <2>3 DEF CodeLimitKept
<1>. QED
  BY <1>6, <1>9, <1>13, <1>14, CodesCommit

(* A code is revoked. *)
LEMMA CommitRevokeStep ==
  ASSUME IInv, NEW r \in Requests, CommitRevoke(r)
  PROVE  IInv'
<1>1. PICK in \in Inputs : in = input[r] /\ in.op = "revoke"
  BY AtCommit DEF CommitRevoke
<1>2. /\ HasClan(r) /\ ClanFresh(r) /\ in.clan \in Clans
      /\ \E m \in Modes : <<ClanRow(in.clan), m>> \in held[r]
  BY <1>1, AtCommit DEF CommitRevoke, ClanOps, LeaderOps, ClanLock, Modes
<1>3. PICK x \in Codes : x = in.code
  BY <1>1, InputFields DEF CodeOps
<1>4. codes[x] # NoCode /\ codes[x].clan = in.clan
  BY <1>1, <1>2, <1>3 DEF ClanFresh, CodeOps
<1>5. PICK new : new = [codes[x] EXCEPT !.revoked = codes[x].revoked \/ codes[x].redeemed = None]
  OBVIOUS
<1>6. codes' = [codes EXCEPT ![x] = new]
  BY <1>1, <1>3, <1>5 DEF CommitRevoke
<1>7. End(r) /\ UNCHANGED <<phase, privacy, standing, leaders, selected, active, now>>
  BY DEF CommitRevoke
<1>8. codes[x] \in Invitations
  BY <1>4, CodeTypes DEF IInv
<1>9. /\ new \in Invitations /\ new.clan = in.clan /\ new.expires = codes[x].expires
      /\ new.redeemed = codes[x].redeemed /\ (codes[x].revoked => new.revoked)
  BY <1>4, <1>5, <1>8 DEF Invitations
<1>10. codes' \in [Codes -> Invitations \cup {NoCode}]
  BY <1>6, <1>9 DEF IInv, TypeOK
<1>11. \A i \in Codes : codes'[i] = IF i = x THEN new ELSE codes[i]
  BY <1>6 DEF IInv, TypeOK
<1>12. CodesGuarantee(r)
  BY <1>2, <1>4, <1>9, <1>11 DEF CodesGuarantee
<1>13. CodeLimitKept'
  <2>1. ASSUME NEW d \in Clans
        PROVE  ActiveCodes(d, now)' \subseteq ActiveCodes(d, now)
    BY <1>4, <1>7, <1>9, <1>11 DEF ActiveCodes, Usable
  <2>. QED
    BY <2>1, FewerCodes
<1>. QED
  BY <1>7, <1>10, <1>12, <1>13, CodesCommit

(* A code is redeemed. *)
LEMMA CommitRedeemStep ==
  ASSUME IInv, NEW r \in Requests, CommitRedeem(r)
  PROVE  IInv'
<1>1. PICK in \in Inputs : in = input[r] /\ in.op = "redeem"
  BY AtCommit DEF CommitRedeem
<1>2. /\ HasClan(r) /\ ClanFresh(r) /\ in.clan \in Clans /\ phase[in.clan] = "alive"
      /\ \E m \in Modes : <<ClanRow(in.clan), m>> \in held[r]
      /\ HasUser(r) /\ UserFresh(r) /\ UserLock(in) \in held[r]
  BY <1>1, AtCommit DEF CommitRedeem, ClanOps, UserOps, LeaderOps, ClanLock, Modes
<1>3. PICK x \in Codes : x = in.code
  BY <1>1, InputFields DEF CodeOps
<1>4. codes[x] # NoCode /\ codes[x].clan = in.clan
  BY <1>1, <1>2, <1>3 DEF ClanFresh, CodeOps
<1>5. in.user \in Users
  BY InputFields
<1>6. PICK new : new = [codes[x] EXCEPT !.redeemed = in.user]
  OBVIOUS
<1>7. /\ codes' = [codes EXCEPT ![x] = new] /\ End(r)
      /\ SetStanding(in.user, in.clan, "ACCEPTED")
      /\ UNCHANGED <<phase, privacy, leaders, selected, active, now>>
  BY <1>1, <1>3, <1>6 DEF CommitRedeem
<1>8. codes[x] \in Invitations
  BY <1>4, CodeTypes DEF IInv
<1>9. new \in Invitations /\ new.clan = in.clan /\ new.redeemed # None
  BY <1>4, <1>5, <1>6, <1>8, ClanAssumption DEF Invitations
<1>10. codes' \in [Codes -> Invitations \cup {NoCode}]
  BY <1>7, <1>9 DEF IInv, TypeOK
<1>11. \A i \in Codes : codes'[i] = IF i = x THEN new ELSE codes[i]
  BY <1>7 DEF IInv, TypeOK
<1>12. CodesGuarantee(r)
  BY <1>2, <1>4, <1>9, <1>11 DEF CodesGuarantee
<1>13. CodeLimitKept'
  <2>1. ASSUME NEW d \in Clans
        PROVE  ActiveCodes(d, now)' \subseteq ActiveCodes(d, now)
    BY <1>7, <1>9, <1>11 DEF ActiveCodes, Usable
  <2>. QED
    BY <2>1, FewerCodes
<1>14. HasCapacity(in.user) /\ standing[in.user][in.clan] # "ACCEPTED"
  BY <1>1, <1>2 DEF UserFresh, Member
<1>15. <<UserRow(in.user), "update">> \in held[r]
  BY <1>1, <1>2 DEF UserLock, Subject, UserMode
<1>. QED
  BY <1>2, <1>5, <1>7, <1>10, <1>12, <1>13, <1>14, <1>15, StandingCommit

--------------------------------------------------------------------------------
(* The theorems. *)

(* The tables are empty and nobody runs. *)
LEMMA InitInv == Init => IInv
<1>. SUFFICES ASSUME Init PROVE IInv
  OBVIOUS
<1>1. TypeOK
  <2>1. /\ "absent" \in Phases /\ "PUBLIC" \in Privacies /\ "NONE" \in Standings
        /\ "idle" \in Labels
        /\ Blank \in [privacy : Privacies, at : Nat, clears : SUBSET Users, tell : SUBSET Users]
    BY DEF Phases, Privacies, Standings, Labels, Blank
  <2>. QED
    BY <2>1 DEF Init, TypeOK
<1>2. ControlOK /\ LocksOK /\ FreshOK
  BY DEF Init, ControlOK, ControlAt, NoInput, LocksOK, Compatible, Holding, FreshOK,
         ClanFresh, UserFresh, JoinSeen, HasClan, HasUser, ClanOps, LeaderOps, UserOps
<1>3. RollsOK /\ OneLeadership
  BY DEF Init, RollsOK, OneLeadership
<1>4. CapKept
  <2>1. \A u \in Users : ClansOf(u) = {}
    BY DEF Init, ClansOf
  <2>. QED
    BY <2>1, FS_EmptySet, ClanAssumption DEF CapKept
<1>5. CodeLimitKept
  <2>1. \A c \in Clans : ActiveCodes(c, now) = {}
    BY DEF Init, ActiveCodes, Usable
  <2>. QED
    BY <2>1, FS_EmptySet, ClanAssumption DEF CodeLimitKept
<1>. QED
  BY <1>1, <1>2, <1>3, <1>4, <1>5 DEF IInv

(* Every commit keeps the invariant. *)
LEMMA CommitStep ==
  ASSUME IInv, NEW r \in Requests, Commit(r)
  PROVE  IInv'
  BY CommitCreateStep, CommitJoinStep, CommitAcceptStep, CommitRejectStep,
     CommitLeaveStep, CommitKickStep, CommitTransferStep, CommitQuietStep,
     CommitDissolveStep, CommitInviteStep, CommitRevokeStep, CommitRedeemStep,
     CommitDeactivateStep DEF Commit

(* A step in which nothing changes. *)
LEMMA StutterStep ==
  ASSUME IInv, UNCHANGED vars
  PROVE  IInv'
<1>1. TypeOK' /\ ControlOK' /\ LocksOK'
  BY DEF IInv, TypeOK, ControlOK, LocksOK, Compatible, Holding, HasClan, HasUser, tables, vars
<1>2. RollsOK' /\ OneLeadership' /\ CapKept' /\ CodeLimitKept'
  BY DEF IInv, RollsOK, OneLeadership, CapKept, CodeLimitKept, ActiveCodes, Usable,
         ClansOf, Leads, Member, tables, vars
<1>3. ASSUME NEW r \in Requests PROVE ClanFresh(r)' /\ JoinSeen(r)'
  <2>1. ClanFresh(r) /\ JoinSeen(r)
    BY DEF IInv, FreshOK
  <2>. QED
    BY <2>1 DEF ClanFresh, JoinSeen, HasClan, ActiveCodes, Usable, tables, vars
<1>4. ASSUME NEW r \in Requests PROVE UserFresh(r)'
  <2>1. UserFresh(r)
    BY DEF IInv, FreshOK
  <2>. QED
    BY <2>1 DEF UserFresh, HasUser, LeadsSome, HasCapacity, ClansOf, Leads, Member,
                tables, vars
<1>5. FreshOK'
  BY <1>3, <1>4 DEF FreshOK
<1>. QED
  BY <1>1, <1>2, <1>5 DEF IInv

(* Every step keeps the invariant. *)
LEMMA InvStep == IInv /\ [Next]_vars => IInv'
<1>. SUFFICES ASSUME IInv, [Next]_vars PROVE IInv'
  OBVIOUS
<1>1. ASSUME NEW r \in Requests, Start(r) \/ Step(r) \/ Abort(r)
      PROVE  IInv'
  <2>1. CASE Start(r)
    BY <2>1, StartStep
  <2>2. CASE Abort(r)
    BY <2>2, RefuseStep DEF Abort
  <2>3. CASE Step(r)
    BY <2>3, LockClanStep, LockUserStep, InsertMembershipStep, InsertInvitationStep,
       NotifyStep, CommitStep DEF Step
  <2>. QED
    BY <1>1, <2>1, <2>2, <2>3
<1>2. CASE Tick
  BY <1>2, TickStep
<1>3. CASE UNCHANGED vars
  BY <1>3, StutterStep
<1>. QED
  BY <1>1, <1>2, <1>3 DEF Next

(* The invariant holds in every reachable state. *)
LEMMA Invariance == Spec => []IInv
  BY InitInv, InvStep, PTL DEF Spec

(* Every clan that is not dissolved has exactly one leader, and every row  *)
(* its type, whatever requests overlap.                                    *)
THEOREM EveryClanLedHolds == Spec => []EveryClanLed
<1>1. IInv => EveryClanLed
  <2>. SUFFICES ASSUME IInv, NEW c \in Clans, phase[c] = "alive"
               PROVE  \E u \in Users : {v \in Users : Leads(v, c)} = {u}
    BY DEF EveryClanLed, IInv
  <2>1. PICK u \in Users : leaders[c] = {u}
    BY DEF IInv, RollsOK
  <2>2. {v \in Users : Leads(v, c)} = {u}
    BY <2>1 DEF IInv, RollsOK, Leads, Member
  <2>. QED
    BY <2>2
<1>. QED
  BY <1>1, Invariance, PTL

(* Nobody leads two clans (BR-04). *)
THEOREM OneLeadershipHolds == Spec => []OneLeadership
<1>1. IInv => OneLeadership
  BY DEF IInv
<1>. QED
  BY <1>1, Invariance, PTL

(* Nobody belongs to more private clans than allowed (BR-04). *)
THEOREM CapKeptHolds == Spec => []CapKept
<1>1. IInv => CapKept
  BY DEF IInv
<1>. QED
  BY <1>1, Invariance, PTL

(* A clan never has more usable codes than allowed. *)
THEOREM CodeLimitHolds == Spec => []CodeLimitKept
<1>1. IInv => CodeLimitKept
  BY DEF IInv
<1>. QED
  BY <1>1, Invariance, PTL

--------------------------------------------------------------------------------
(* What the steps may never do. *)

(* Only a commit changes a table. *)
LEMMA OnlyCommits ==
  ASSUME [Next]_vars
  PROVE  UNCHANGED tables \/ \E r \in Requests : Commit(r)
<1>1. ASSUME NEW r \in Requests, Start(r) \/ Step(r) \/ Abort(r), ~Commit(r)
      PROVE  UNCHANGED tables
  BY <1>1 DEF Start, Step, Abort, Refuse, LockClan, LockUser, InsertMembership,
              InsertInvitation, Notify
<1>. QED
  BY <1>1 DEF Next, Tick, vars

(* How a commit of r can change the row of u in c. *)
Effect(r, u, c) ==
  \/ /\ standing'[u][c] = standing[u][c] /\ (u \in leaders'[c] <=> u \in leaders[c])
  \/ Committing(r, "create") /\ input[r].user = u /\ phase[c] = "absent"
  \/ /\ Committing(r, "join") /\ input[r].user = u
     /\ standing[u][c] \in {"NONE", "REJECTED"}
     /\ standing'[u][c] = "ACCEPTED" => snap[r].privacy = "PUBLIC"
  \/ standing[u][c] = "PENDING" /\ phase[c] = "alive"
  \/ /\ Committing(r, "redeem") /\ input[r].user = u /\ phase[c] = "alive"
     /\ \E i \in Codes : codes'[i] # codes[i] /\ codes'[i].redeemed = u
  \/ standing'[u][c] = "NONE" /\ phase[c] = "alive"
  \/ standing'[u][c] = standing[u][c] /\ phase[c] = "alive"
  \/ Committing(r, "deactivate") /\ input[r].user = u /\ standing'[u][c] = "NONE"

(* Every commit changes membership rows in one of those ways, brings no    *)
(* clan back and deactivates an account only where that was asked for.     *)
LEMMA CommitEffect ==
  ASSUME IInv, NEW r \in Requests, Commit(r), NEW u \in Users, NEW c \in Clans
  PROVE  /\ Effect(r, u, c)
         /\ phase[c] = "dissolved" => phase'[c] = "dissolved"
         /\ active[u] /\ ~active'[u] => Committing(r, "deactivate") /\ input[r].user = u
<1>. USE DEF Effect
<1>1. ASSUME UNCHANGED <<phase, standing, leaders, active>>
      PROVE  Effect(r, u, c) /\ phase'[c] = phase[c] /\ active'[u] = active[u]
  BY <1>1
<1>2. ASSUME Refuse(r)
      PROVE  Effect(r, u, c) /\ phase'[c] = phase[c] /\ active'[u] = active[u]
  BY <1>2 DEF Refuse, tables
<1>3. CASE CommitCreate(r)
  <2>1. PICK d \in Clans :
           /\ phase[d] = "absent" /\ phase' = [phase EXCEPT ![d] = "alive"]
           /\ standing' = [standing EXCEPT ![input[r].user][d] = "ACCEPTED"]
           /\ leaders' = [leaders EXCEPT ![d] = {input[r].user}]
    BY <1>3 DEF CommitCreate, SetStanding
  <2>2. active' = active /\ Committing(r, "create")
    BY <1>3 DEF CommitCreate
  <2>3. c = d /\ u # input[r].user => u \notin leaders[c] /\ u \notin leaders'[c]
    BY <2>1 DEF IInv, RollsOK, TypeOK
  <2>4. CASE c = d /\ u = input[r].user
    BY <2>1, <2>2, <2>4 DEF IInv, TypeOK
  <2>5. CASE c # d \/ u # input[r].user
    BY <2>1, <2>2, <2>3, <2>5 DEF IInv, TypeOK
  <2>. QED
    BY <2>4, <2>5
<1>4. CASE CommitJoin(r)
  <2>1. UserFresh(r) /\ HasUser(r) /\ input[r].op = "join"
    BY <1>4, AtCommit DEF CommitJoin, UserOps
  <2>2. standing[input[r].user][input[r].clan] \in {"NONE", "REJECTED"}
    BY <2>1 DEF UserFresh
  <2>. QED
    BY <1>4, <2>2 DEF CommitJoin, SetStanding, IInv, TypeOK
<1>5. CASE CommitAccept(r)
  <2>1. /\ UserFresh(r) /\ HasUser(r) /\ input[r].op = "accept"
        /\ phase[input[r].clan] = "alive"
    BY <1>5, AtCommit DEF CommitAccept, UserOps, ClanOps, LeaderOps
  <2>2. standing[input[r].other][input[r].clan] = "PENDING"
    BY <2>1 DEF UserFresh
  <2>. QED
    BY <1>5, <2>1, <2>2 DEF CommitAccept, SetStanding, IInv, TypeOK
<1>6. CASE CommitReject(r)
  <2>1. /\ ClanFresh(r) /\ HasClan(r) /\ input[r].op = "reject"
        /\ phase[input[r].clan] = "alive"
    BY <1>6, AtCommit DEF CommitReject, ClanOps, LeaderOps
  <2>2. standing[input[r].other][input[r].clan] \in {"PENDING", "NONE"}
    BY <2>1 DEF ClanFresh
  <2>3. CASE ~Refuse(r)
    <3>1. /\ standing[input[r].other][input[r].clan] = "PENDING"
          /\ SetStanding(input[r].other, input[r].clan, "REJECTED")
          /\ UNCHANGED <<phase, leaders, active>>
      BY <1>6, <2>2, <2>3 DEF CommitReject
    <3>. QED
      BY <2>1, <3>1 DEF SetStanding, IInv, TypeOK
  <2>. QED
    BY <1>2, <2>3
<1>7. CASE CommitLeave(r)
  <2>1. phase[input[r].clan] = "alive" /\ input[r].clan \in Clans
    BY <1>7, AtCommit DEF CommitLeave, ClanOps
  <2>. QED
    BY <1>7, <2>1 DEF CommitLeave, DeleteRow, SetStanding, IInv, TypeOK
<1>8. CASE CommitKick(r)
  <2>1. phase[input[r].clan] = "alive" /\ input[r].clan \in Clans
    BY <1>8, AtCommit DEF CommitKick, ClanOps, LeaderOps
  <2>. QED
    BY <1>8, <2>1 DEF CommitKick, DeleteRow, SetStanding, IInv, TypeOK
<1>9. CASE CommitTransfer(r)
  <2>1. phase[input[r].clan] = "alive" /\ input[r].clan \in Clans
    BY <1>9, AtCommit DEF CommitTransfer, ClanOps, LeaderOps
  <2>. QED
    BY <1>2, <1>9, <2>1 DEF CommitTransfer, IInv, TypeOK
<1>10. CASE CommitSelect(r)
  BY <1>1, <1>2, <1>10 DEF CommitSelect
<1>11. CASE CommitDissolve(r)
  <2>1. phase[input[r].clan] = "alive" /\ input[r].clan \in Clans
    BY <1>11, AtCommit DEF CommitDissolve, ClanOps, LeaderOps
  <2>. QED
    BY <1>11, <2>1 DEF CommitDissolve, IInv, TypeOK
<1>12. CASE CommitEdit(r)
  BY <1>1, <1>12 DEF CommitEdit
<1>13. CASE CommitInvite(r)
  BY <1>1, <1>13 DEF CommitInvite
<1>14. CASE CommitRevoke(r)
  BY <1>1, <1>14 DEF CommitRevoke
<1>15. CASE CommitRedeem(r)
  <2>1. /\ ClanFresh(r) /\ HasClan(r) /\ input[r].op = "redeem" /\ input[r] \in Inputs
        /\ phase[input[r].clan] = "alive"
    BY <1>15, AtCommit DEF CommitRedeem, ClanOps
  <2>2. /\ input[r].code \in Codes /\ input[r].user \in Users
        /\ codes[input[r].code] # NoCode /\ codes[input[r].code].redeemed = None
    BY <2>1, InputFields DEF ClanFresh, CodeOps
  <2>3. codes[input[r].code] \in Invitations
    BY <2>2, CodeTypes DEF IInv
  <2>4. codes'[input[r].code] = [codes[input[r].code] EXCEPT !.redeemed = input[r].user]
    BY <1>15, <2>2 DEF CommitRedeem, IInv, TypeOK
  <2>5. codes'[input[r].code].redeemed = input[r].user /\ input[r].user # None
    BY <2>2, <2>3, <2>4, ClanAssumption DEF Invitations
  <2>. QED
    BY <1>15, <2>1, <2>2, <2>5 DEF CommitRedeem, SetStanding, IInv, TypeOK
<1>16. CASE CommitDeactivate(r)
  BY <1>16 DEF CommitDeactivate, IInv, TypeOK
<1>17. CASE CommitLogin(r)
  BY <1>17 DEF CommitLogin, IInv, TypeOK
<1>. QED
  BY <1>3, <1>4, <1>5, <1>6, <1>7, <1>8, <1>9, <1>10, <1>11, <1>12, <1>13, <1>14, <1>15,
     <1>16, <1>17 DEF Commit

(* What a leader's request writes is written while that user leads. *)
THEOREM ByCurrentLeaderHolds == Spec => ByCurrentLeader
<1>1. IInv /\ [Next]_vars =>
        [\A r \in Requests : Writes(r) /\ input[r].op \in LeaderOps
                               => Leads(input[r].user, input[r].clan)]_vars
  <2>. SUFFICES ASSUME IInv, NEW r \in Requests, pc[r] = "commit", input[r].op \in LeaderOps
               PROVE  Leads(input[r].user, input[r].clan)
    BY DEF Writes
  <2>1. /\ input[r].clan \in Clans /\ input[r] \in Inputs
        /\ ClanFresh(r) /\ HasClan(r)
    BY AtCommit DEF Committing, ClanOps
  <2>. QED
    BY <2>1, InputFields DEF ClanFresh, Leads, Member, IInv, RollsOK
<1>. QED
  BY <1>1, Invariance, PTL DEF Spec, ByCurrentLeader

(* The rows of a dissolved clan stay, but for those of an account that is  *)
(* deactivated.                                                            *)
THEOREM HistoryKeptHolds == Spec => HistoryKept
<1>1. IInv /\ [Next]_vars =>
        [\A u \in Users, c \in Clans :
           phase[c] = "dissolved" /\ Member(u, c) =>
             /\ phase'[c] = "dissolved"
             /\ \/ \E r \in Requests : Committing(r, "deactivate") /\ input[r].user = u
                \/ /\ standing'[u][c] = "ACCEPTED"
                   /\ u \in leaders'[c] <=> u \in leaders[c]]_vars
  <2>. SUFFICES ASSUME IInv, [Next]_vars, NEW u \in Users, NEW c \in Clans,
                      phase[c] = "dissolved", standing[u][c] = "ACCEPTED"
               PROVE  /\ phase'[c] = "dissolved"
                      /\ \/ \E r \in Requests : Committing(r, "deactivate") /\ input[r].user = u
                         \/ /\ standing'[u][c] = "ACCEPTED"
                            /\ u \in leaders'[c] <=> u \in leaders[c]
    BY DEF Member
  <2>1. CASE UNCHANGED tables
    BY <2>1 DEF tables
  <2>2. ASSUME NEW r \in Requests, Commit(r)
        PROVE  /\ phase'[c] = "dissolved"
               /\ \/ Committing(r, "deactivate") /\ input[r].user = u
                  \/ /\ standing'[u][c] = "ACCEPTED"
                     /\ u \in leaders'[c] <=> u \in leaders[c]
    BY <2>2, CommitEffect DEF Effect
  <2>. QED
    BY <2>1, <2>2, OnlyCommits
<1>. QED
  BY <1>1, Invariance, PTL DEF Spec, HistoryKept

(* An invite-only clan gets members only by a decision of its leader or by *)
(* a join that was under way when it closed.                               *)
THEOREM InviteOnlyGateHolds == Spec => InviteOnlyGate
<1>1. IInv /\ [Next]_vars =>
        [\A u \in Users, c \in Clans :
           (/\ phase[c] = "alive" /\ privacy[c] = "PRIVATE_INVITE"
            /\ ~Member(u, c) /\ standing'[u][c] = "ACCEPTED")
             => \/ standing[u][c] = "PENDING"
                \/ \E i \in Codes : codes'[i] # codes[i] /\ codes'[i].redeemed = u
                \/ \E r \in Requests : /\ Committing(r, "join") /\ input[r].user = u
                                      /\ snap[r].privacy = "PUBLIC"]_vars
  <2>. SUFFICES ASSUME IInv, [Next]_vars, NEW u \in Users, NEW c \in Clans,
                      phase[c] = "alive", standing[u][c] # "ACCEPTED",
                      standing'[u][c] = "ACCEPTED"
               PROVE  \/ standing[u][c] = "PENDING"
                      \/ \E i \in Codes : codes'[i] # codes[i] /\ codes'[i].redeemed = u
                      \/ \E r \in Requests : /\ Committing(r, "join") /\ input[r].user = u
                                            /\ snap[r].privacy = "PUBLIC"
    BY DEF Member
  <2>1. PICK r \in Requests : Commit(r)
    BY OnlyCommits DEF tables
  <2>. QED
    BY <2>1, CommitEffect DEF Effect
<1>. QED
  BY <1>1, Invariance, PTL DEF Spec, InviteOnlyGate

(* A deactivated account gets a membership only by an operation of its own *)
(* that was under way.                                                     *)
THEOREM DeactivatedHolds == Spec => DeactivatedHasNoClans
<1>1. IInv /\ [Next]_vars =>
        [\A u \in Users, c \in Clans :
           (~active'[u] /\ standing'[u][c] # "NONE" /\ (active[u] \/ standing[u][c] = "NONE"))
             => \E r \in Requests, op \in {"join", "create", "redeem"} :
                  Committing(r, op) /\ input[r].user = u]_vars
  <2>. SUFFICES ASSUME IInv, [Next]_vars, NEW u \in Users, NEW c \in Clans,
                      ~active'[u], standing'[u][c] # "NONE",
                      active[u] \/ standing[u][c] = "NONE"
               PROVE  \E r \in Requests, op \in {"join", "create", "redeem"} :
                        Committing(r, op) /\ input[r].user = u
    OBVIOUS
  <2>1. PICK r \in Requests : Commit(r)
    BY OnlyCommits DEF tables
  <2>2. /\ Effect(r, u, c)
        /\ active[u] => Committing(r, "deactivate") /\ input[r].user = u
    BY <2>1, CommitEffect
  <2>3. active[u] => standing'[u][c] = "NONE"
    BY <2>1, <2>2 DEF Commit, Committing, CommitCreate, CommitJoin, CommitAccept, CommitReject,
       CommitLeave, CommitKick, CommitTransfer, CommitSelect, CommitDissolve, CommitEdit,
       CommitInvite, CommitRevoke, CommitRedeem, CommitDeactivate, CommitLogin, IInv, TypeOK
  <2>4. standing[u][c] = "NONE"
    BY <2>3
  <2>. QED
    BY <2>2, <2>4 DEF Effect
<1>. QED
  BY <1>1, Invariance, PTL DEF Spec, DeactivatedHasNoClans

(* A code that was redeemed or revoked changes only by being purged. *)
THEOREM CodesSingleUseHolds == Spec => CodesSingleUse
<1>1. IInv /\ [Next]_vars =>
        [\A i \in Codes :
           codes[i] # NoCode /\ (codes[i].redeemed # None \/ codes[i].revoked)
             => codes'[i] \in {codes[i], NoCode}]_vars
  <2>. SUFFICES ASSUME IInv, [Next]_vars, NEW i \in Codes, codes[i] # NoCode,
                      codes[i].redeemed # None \/ codes[i].revoked
               PROVE  codes'[i] \in {codes[i], NoCode}
    OBVIOUS
  <2>1. CASE UNCHANGED tables
    BY <2>1 DEF tables
  <2>2. ASSUME NEW r \in Requests, CommitInvite(r)
        PROVE  codes'[i] \in {codes[i], NoCode}
    <3>1. PICK kept, new :
            /\ kept = [j \in Codes |-> IF j \in Purgeable(input[r].clan, snap[r].at)
                                          THEN NoCode ELSE codes[j]]
            /\ new = [clan |-> input[r].clan, expires |-> snap[r].at + TTL,
                      redeemed |-> None, revoked |-> FALSE]
      OBVIOUS
    <3>2. PICK x \in Codes : codes[x] = NoCode /\ codes' = [kept EXCEPT ![x] = new]
      BY <2>2, <3>1 DEF CommitInvite
    <3>3. codes'[i] = kept[i]
      BY <3>1, <3>2
    <3>. QED
      BY <3>1, <3>3
  <2>3. ASSUME NEW r \in Requests, CommitRevoke(r)
        PROVE  codes'[i] = codes[i]
    <3>1. CASE i = input[r].code
      <4>1. codes'[i] = [codes[i] EXCEPT !.revoked = codes[i].revoked \/ codes[i].redeemed = None]
        BY <2>3, <3>1 DEF CommitRevoke, IInv, TypeOK
      <4>2. codes[i] \in Invitations
        BY CodeTypes DEF IInv
      <4>3. (codes[i].revoked \/ codes[i].redeemed = None) = codes[i].revoked
        BY <4>2 DEF Invitations
      <4>. QED
        BY <4>1, <4>2, <4>3 DEF Invitations
    <3>2. CASE i # input[r].code
      BY <2>3, <3>2 DEF CommitRevoke, IInv, TypeOK
    <3>. QED
      BY <3>1, <3>2
  <2>4. ASSUME NEW r \in Requests, CommitRedeem(r)
        PROVE  codes'[i] = codes[i]
    <3>1. ClanFresh(r) /\ HasClan(r) /\ input[r].op = "redeem"
      BY <2>4, AtCommit DEF CommitRedeem, ClanOps
    <3>2. i # input[r].code
      BY <3>1 DEF ClanFresh
    <3>. QED
      BY <2>4, <3>2 DEF CommitRedeem, IInv, TypeOK
  <2>5. ASSUME NEW r \in Requests, Commit(r), ~CommitInvite(r), ~CommitRevoke(r), ~CommitRedeem(r)
        PROVE  codes' = codes
    BY <2>5 DEF Commit, CommitCreate, CommitJoin, CommitAccept, CommitReject, CommitLeave,
       CommitKick, CommitTransfer, CommitSelect, CommitDissolve, CommitEdit,
       CommitDeactivate, CommitLogin, Refuse, tables
  <2>. QED
    BY <2>1, <2>2, <2>3, <2>4, <2>5, OnlyCommits
<1>. QED
  BY <1>1, Invariance, PTL DEF Spec, CodesSingleUse

(* An accepted request and a redeemed code never wait for each other. *)
THEOREM DecisionsNeverCrossHolds == Spec => []DecisionsNeverCross
<1>1. IInv => DecisionsNeverCross
  <2>. SUFFICES ASSUME IInv, NEW r \in Requests, NEW q \in Requests,
                      input[r].op = "accept", input[q].op = "redeem",
                      WaitsFor(r, q), WaitsFor(q, r)
               PROVE  FALSE
    BY DEF DecisionsNeverCross
  <2>1. held[r] # {} /\ held[q] # {}
    BY DEF WaitsFor
  <2>2. pc[r] \in Labels /\ pc[q] \in Labels /\ ControlAt(pc[r], input[r]) /\ ControlAt(pc[q], input[q])
    BY RequestTypes DEF IInv
  <2>3. Holding(r) /\ Holding(q)
    BY DEF IInv, LocksOK
  <2>4. pc[r] = "user"
    <3>1. pc[r] \notin {"idle", "clan"}
      BY <2>1, <2>3 DEF Holding
    <3>2. pc[r] \notin {"insert", "notify"}
      BY <2>2 DEF ControlAt
    <3>3. pc[r] # "commit"
      <4>1. pc[r] = "commit" => Wanted(r) = {}
        BY DEF Wanted
      <4>. QED
        BY <4>1 DEF WaitsFor
    <3>. QED
      BY <2>2, <3>1, <3>2, <3>3 DEF Labels
  <2>5. held[r] = {<<ClanRow(input[r].clan), "update">>}
    BY <2>3, <2>4 DEF Holding, ClanLock
  <2>6. PICK w \in Wanted(q) : w[1] = ClanRow(input[r].clan)
    BY <2>5 DEF WaitsFor
  <2>7. pc[q] \in {"user", "notify"}
    <3>1. pc[q] \notin {"idle", "clan"}
      BY <2>1, <2>3 DEF Holding
    <3>2. pc[q] # "insert"
      BY <2>2 DEF ControlAt
    <3>3. pc[q] # "commit"
      <4>1. pc[q] = "commit" => Wanted(q) = {}
        BY DEF Wanted
      <4>. QED
        BY <2>6, <4>1
    <3>. QED
      BY <2>2, <3>1, <3>2, <3>3 DEF Labels
  <2>8. \E v : w[1] = UserRow(v)
    BY <2>6, <2>7 DEF Wanted
  <2>. QED
    BY <2>6, <2>8, RowsDiffer
<1>. QED
  BY <1>1, Invariance, PTL

================================================================================
