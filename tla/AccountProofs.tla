----------------------------- MODULE AccountProofs -----------------------------
(***************************************************************************)
(* The safety of accounts for every number of users, logs and overlapping  *)
(* requests.  As for clans the argument is rely and guarantee: what one    *)
(* request read from a row it has locked is out of the reach of every step *)
(* of the others (Rely), so it still holds when the request commits.       *)
(***************************************************************************)
EXTENDS AccountInvariant, TLAPS, FiniteSetTheorems, WellFoundedInduction

(* A nonempty set of account keys has a least element. *)
LEMMA LeastKey ==
  ASSUME NEW T, T \subseteq Users, T # {}
  PROVE  Min(T) \in T
<1>1. IsWellFoundedOn(OpToRel(<, Nat), Nat)
  BY NatLessThanWellFounded
<1>2. T \subseteq Nat
  BY AccountAssumption
<1>3. PICK x \in T : \A y \in T : ~ (<<y, x>> \in OpToRel(<, Nat))
  BY <1>1, <1>2, WFMin
<1>4. \A y \in T : x <= y
  <2>1. SUFFICES ASSUME NEW y \in T, y < x PROVE FALSE
    BY <1>2
  <2>2. <<y, x>> \in OpToRel(<, Nat)
    BY <1>2, <2>1 DEF OpToRel
  <2>. QED
    BY <1>3, <2>2
<1>. QED
  BY <1>4 DEF Min

(* Rows of different accounts, profiles and logs are different rows. *)
LEMMA RowsDiffer ==
  /\ \A u, v : UserRow(u) = UserRow(v) => u = v
  /\ \A u, v : ProfileRow(u) = ProfileRow(v) => u = v
  /\ \A u, v, s, t : LogRow(u, s) = LogRow(v, t) => u = v /\ s = t
  BY DEF UserRow, ProfileRow, LogRow

(* What somebody signs in with is an identity of the directory. *)
LEMMA IdentityType ==
  ASSUME NEW u \in Users, NEW t \in Sessions(u)
  PROVE  authenticate(t) \in ExternalIdentity
<1>1. t \in AllTokens /\ t \in Tokens[u]
  BY DEF Sessions, AllTokens
<1>2. t.oid \in Oids
  BY <1>1 DEF Oids
<1>3. authenticate(t).email \in Emails
  BY DEF Sessions, is_institutional_email, Emails
<1>4. t.graph # None => t.graph.title \in Titles
  BY <1>1 DEF Titles
<1>. QED
  BY <1>2, <1>3, <1>4 DEF authenticate, ExternalIdentity

(* The input of an operation about an account. *)
LEMMA InputType ==
  ASSUME NEW op \in AllOps, NEW u \in Users, NEW in \in Inputs(op, u)
  PROVE  InputAt(in) /\ in.op = op /\ in.user = u
<1>1. CASE op = "login"
  <2>1. in \in LoginInputs(u)
    BY <1>1 DEF Inputs
  <2>2. in.op = "login" /\ in.user = u /\ in.login \in {authenticate(t) : t \in Sessions(u)}
    BY <2>1 DEF LoginInputs
  <2>. QED
    BY <1>1, <2>2, IdentityType DEF InputAt, AllOps
<1>2. CASE op = "role"
  <2>1. in \in RoleInputs(u)
    BY <1>2 DEF Inputs
  <2>. QED
    BY <1>2, <2>1 DEF RoleInputs, InputAt, AllOps
<1>3. CASE op = "form"
  <2>1. in \in FormInputs(u)
    BY <1>3 DEF Inputs
  <2>. QED
    BY <1>3, <2>1 DEF FormInputs, InputAt, AllOps
<1>4. CASE op = "onboard"
  <2>1. in \in OnboardInputs(u)
    BY <1>4 DEF Inputs
  <2>. QED
    BY <1>4, <2>1 DEF OnboardInputs, InputAt, AllOps
<1>5. CASE op \in {"submit", "approve", "revoke"}
  <2>1. in \in LogInputs(op, u)
    BY <1>5 DEF Inputs
  <2>. QED
    BY <1>5, <2>1 DEF LogInputs, InputAt, AllOps
<1>6. CASE op \in {"deactivate", "redeem"}
  <2>1. in \in PlainInputs(op, u)
    BY <1>6 DEF Inputs
  <2>. QED
    BY <1>6, <2>1 DEF PlainInputs, InputAt, AllOps
<1>. QED
  BY <1>1, <1>2, <1>3, <1>4, <1>5, <1>6 DEF AllOps

(* The statement a handler begins with. *)
LEMMA FirstLabel ==
  ASSUME NEW op \in AllOps, NEW in, in.op = op
  PROVE  /\ First(op) \in Labels /\ ControlAt(First(op), in)
         /\ First(op) \in {"oid", "admins", "load", "read", "log", "submit", "redeem"}
  BY AccountAssumption DEF First, AllOps, ControlAt, Labels

--------------------------------------------------------------------------------
(* What a step of one request means for the others. *)

(* A step of r leaves what the other requests remember and hold alone. *)
Apart(r) ==
  /\ pc' \in [Requests -> Labels] /\ snap' \in [Requests -> Snapshots]
  /\ DOMAIN input' = Requests /\ DOMAIN held' = Requests /\ mix' = mix
  /\ \A q \in Requests \ {r} : /\ pc'[q] = pc[q] /\ input'[q] = input[q]
                               /\ snap'[q] = snap[q] /\ held'[q] = held[q]

(* The user row is locked against changes, or about to be inserted. *)
Owns(q, u) == \/ Exists(u) /\ (\E m \in {"update", "nokey"} : <<UserRow(u), m>> \in held[q])
              \/ Saving(q) /\ snap[q].on = u

(* What the other requests rely on in a step of r. *)
Rely(r) ==
  /\ \A u \in Users : Exists(u) => Exists(u)'
  /\ \A q \in Requests \ {r} : \A u \in Users :
       /\ Owns(q, u) => account'[u] = account[u] /\ Pending(u)' \subseteq Pending(u)
       /\ Saving(q) /\ snap[q].on = u => Worth(profile'[u]) = Worth(profile[u])
       /\ <<ProfileRow(u), "nokey">> \in held[q] => profile'[u].points = profile[u].points
       /\ \A s \in Slots : <<LogRow(u, s), "update">> \in held[q]
                           /\ logs[u][s].status # "NONE" => logs'[u][s] = logs[u][s]

(* A step that changes no table disturbs nobody. *)
LEMMA RelyOnLocal ==
  ASSUME NEW r \in Requests, UNCHANGED tables
  PROVE  Rely(r)
  BY DEF tables, Rely, Exists, Pending

(* What the types say of one request. *)
LEMMA RequestTypes ==
  ASSUME IInv, NEW r \in Requests
  PROVE  /\ pc[r] \in Labels /\ snap[r] \in Snapshots
         /\ InputAt(input[r]) /\ ControlAt(pc[r], input[r])
         /\ pc[r] # "idle" => input[r].op \in AllOps /\ input[r].user \in Users
         /\ pc[r] # "idle" /\ input[r].op # "login" => Exists(input[r].user)
  BY DEF IInv, TypeOK, RequestsOK, InputAt, ControlAt

(* An account that exists has a row of the table. *)
LEMMA RowType ==
  ASSUME IInv, NEW u \in Users
  PROVE  /\ Exists(u) => /\ account[u] \in AccountRows /\ account[u].role \in Roles
                         /\ account[u].active \in BOOLEAN /\ account[u].left \in BOOLEAN
         /\ ~Exists(u) => account[u] = NoAccount /\ account[u].role = None
         /\ account[u].role = "ADMIN" => Exists(u)
  BY AccountAssumption DEF IInv, TypeOK, Exists, AccountRows, NoAccount, Roles

(* A row of the table is an account. *)
LEMMA RowExists ==
  ASSUME NEW row \in AccountRows
  PROVE  row # NoAccount
  BY AccountAssumption DEF AccountRows, NoAccount, Roles

(* What a sign-in of another request keeps. *)
LEMMA SavingKept ==
  ASSUME IInv, NEW r \in Requests, Apart(r), Rely(r), NEW q \in Requests \ {r}
  PROVE  SavingOK(q)'
<1>1. /\ pc'[q] = pc[q] /\ input'[q] = input[q] /\ snap'[q] = snap[q] /\ held'[q] = held[q]
  BY DEF Apart
<1>2. SavingOK(q)
  BY DEF IInv, HandlersOK
<1>3. SUFFICES ASSUME Saving(q) PROVE SavingOK(q)'
  BY <1>1 DEF SavingOK, Saving
<1>. DEFINE u == snap[q].on
<1>4. u \in Users /\ Owns(q, u)
  BY <1>2, <1>3 DEF SavingOK, Owns
<1>5. account'[u] = account[u] /\ Worth(profile'[u]) = Worth(profile[u])
  BY <1>3, <1>4 DEF Rely
<1>. QED
  BY <1>1, <1>2, <1>3, <1>4, <1>5 DEF SavingOK, Saving, Exists, Worth

(* What a role change or a deactivation of another request keeps. *)
LEMMA CountingKept ==
  ASSUME IInv, NEW r \in Requests, Apart(r), Rely(r), NEW q \in Requests \ {r}
  PROVE  CountingOK(q)'
<1>1. /\ pc'[q] = pc[q] /\ input'[q] = input[q] /\ snap'[q] = snap[q] /\ held'[q] = held[q]
  BY DEF Apart
<1>2. CountingOK(q)
  BY DEF IInv, HandlersOK
<1>3. SUFFICES ASSUME Counting(q) PROVE CountingOK(q)'
  BY <1>1, <1>2 DEF CountingOK, Counting
<1>0. PICK u : u = input[q].user
  OBVIOUS
<1>4. u \in Users /\ snap[q].seen \subseteq Users /\ LockMode(q) \in {"update", "nokey"}
  <2>1. pc[q] # "idle" /\ snap[q] \in Snapshots
    BY <1>3, RequestTypes DEF Counting
  <2>. QED
    BY <1>0, <2>1, RequestTypes DEF Snapshots, LockMode
<1>5. LockMode(q)' = LockMode(q) /\ LastAdmin(q)' = LastAdmin(q)
  BY <1>1 DEF LockMode, LastAdmin
<1>6. ASSUME NEW a \in snap[q].seen
      PROVE  a \in ActiveAdmins' /\ <<UserRow(a), LockMode(q)>> \in held[q]
  <2>1. a \in ActiveAdmins /\ <<UserRow(a), LockMode(q)>> \in held[q] /\ a \in Users
    BY <1>2, <1>3, <1>4 DEF CountingOK
  <2>2. account'[a] = account[a]
    BY <1>4, <2>1 DEF Owns, Rely, ActiveAdmins
  <2>. QED
    BY <2>1, <2>2 DEF ActiveAdmins, Exists, IsAdmin
<1>7. ASSUME u \notin snap[q].todo
      PROVE  /\ snap[q].row.role = account'[u].role /\ <<UserRow(u), LockMode(q)>> \in held[q]
             /\ Pending(u)' \subseteq Pending(u)
  <2>1. snap[q].row.role = account[u].role /\ <<UserRow(u), LockMode(q)>> \in held[q]
    BY <1>0, <1>2, <1>3, <1>7 DEF CountingOK
  <2>2. Owns(q, u)
    <3>1. Exists(u)
      BY <1>0, <1>3, RequestTypes DEF Counting, ControlAt
    <3>. QED
      BY <1>4, <2>1, <3>1 DEF Owns
  <2>. QED
    BY <1>4, <2>1, <2>2 DEF Rely
<1>8. pc[q] = "lock" <=> snap[q].todo # {}
  BY <1>2, <1>3 DEF CountingOK
<1>9. pc[q] \in {"logs", "reset"} => ~LastAdmin(q)
  BY <1>2, <1>3 DEF CountingOK
<1>10. ASSUME pc[q] = "reset", NEW s \in Pending(u)'
       PROVE  <<LogRow(u, s), "nokey">> \in held[q]
  <2>1. u \notin snap[q].todo
    BY <1>8, <1>10
  <2>2. s \in Pending(u)
    BY <1>7, <1>10, <2>1
  <2>. QED
    BY <1>0, <1>2, <1>3, <1>10, <2>2 DEF CountingOK
<1>. QED
  BY <1>0, <1>1, <1>2, <1>5, <1>6, <1>7, <1>8, <1>9, <1>10 DEF CountingOK

(* What an audit, an onboarding or the form of another request keeps. *)
LEMMA AuditKept ==
  ASSUME IInv, NEW r \in Requests, Apart(r), Rely(r), NEW q \in Requests \ {r}
  PROVE  AuditOK(q)' /\ FormOK(q)'
<1>1. /\ pc'[q] = pc[q] /\ input'[q] = input[q] /\ snap'[q] = snap[q] /\ held'[q] = held[q]
  BY DEF Apart
<1>2. AuditOK(q) /\ FormOK(q)
  BY DEF IInv, HandlersOK
<1>. DEFINE u == input[q].user
            s == input[q].slot
<1>3. ASSUME pc[q] \in {"points", "award"} PROVE logs'[u][s] = logs[u][s]
  <2>1. u \in Users /\ s \in Slots
    BY <1>3, RequestTypes DEF ControlAt, InputAt
  <2>2. <<LogRow(u, s), "update">> \in held[q] /\ logs[u][s].status # "NONE"
    BY <1>2, <1>3 DEF AuditOK, Wanted
  <2>. QED
    BY <2>1, <2>2 DEF Rely
<1>4. ASSUME pc[q] = "award" PROVE profile'[u].points = profile[u].points
  <2>1. u \in Users
    BY <1>4, RequestTypes
  <2>2. <<ProfileRow(u), "nokey">> \in held[q]
    BY <1>2, <1>4 DEF AuditOK
  <2>. QED
    BY <2>1, <2>2 DEF Rely
<1>5. FormOK(q)'
  BY <1>1, <1>2 DEF FormOK
<1>6. AuditOK(q)'
  BY <1>1, <1>2, <1>3, <1>4 DEF AuditOK
<1>. QED
  BY <1>5, <1>6

--------------------------------------------------------------------------------
(* How a step is put together. *)

(* The locks of r grow by rows nobody holds in a conflicting mode. *)
LEMMA TakeCompatible ==
  ASSUME IInv, NEW r \in Requests, Apart(r), NEW locks, held'[r] \subseteq held[r] \cup locks,
         \A l \in locks : Free(r, l[1], l[2])
  PROVE  Compatible'
<1>1. SUFFICES ASSUME NEW p \in Requests, NEW q \in Requests, p # q,
                      NEW l \in held'[p], NEW k \in held'[q], l[1] = k[1]
               PROVE  ~Conflict(l[2], k[2])
  BY DEF Compatible, Conflict
<1>2. \A n \in Requests \ {r} : held'[n] = held[n]
  BY DEF Apart
<1>3. \A n, m \in Requests : n # m =>
        \A i \in held[n], j \in held[m] : i[1] = j[1] => ~Conflict(i[2], j[2])
  BY DEF IInv, Compatible
<1>4. \A n \in Requests \ {r} : \A i \in held[n], j \in locks :
        i[1] = j[1] => ~Conflict(i[2], j[2])
  BY DEF Free
<1>5. \A m, n : Conflict(m, n) <=> Conflict(n, m)
  BY DEF Conflict
<1>6. CASE p = r
  BY <1>1, <1>2, <1>3, <1>4, <1>5, <1>6
<1>7. CASE q = r
  BY <1>1, <1>2, <1>3, <1>4, <1>5, <1>7
<1>8. CASE p # r /\ q # r
  BY <1>1, <1>2, <1>3, <1>8
<1>. QED
  BY <1>6, <1>7, <1>8

(* The tables have their types. *)
TablesOK ==
  /\ account \in [Users -> AccountRows \cup {NoAccount}]
  /\ profile \in [Users -> Profiles]
  /\ members \in [Users -> SUBSET Careers]
  /\ logs \in [Users -> [Slots -> Logs]]
  /\ resets \in [Users -> Nat]
  /\ formed \in [Users -> {"never", "enabled", "disabled"}]

LEMMA TablesTyped ==
  IInv => TablesOK
  BY DEF IInv, TypeOK, TablesOK

(* The part of the invariant that is about the request itself. *)
OwnOK(r) ==
  /\ InputAt(input[r]) /\ ControlAt(pc[r], input[r])
  /\ input[r].op \notin {None, "login"} => Exists(input[r].user)
  /\ pc[r] = "idle" => held[r] = {}
  /\ SavingOK(r) /\ CountingOK(r) /\ FormOK(r) /\ AuditOK(r)

(* A step of r that keeps what r and the others rely on. *)
LEMMA Combine ==
  ASSUME IInv, NEW r \in Requests, Apart(r), Rely(r), TablesOK', Compatible', KeysApart',
         OwnOK(r)', PeriodsOK', PendingFresh', IdleOK'
  PROVE  IInv'
<1>1. \A q \in Requests \ {r} :
        /\ pc'[q] = pc[q] /\ input'[q] = input[q] /\ held'[q] = held[q]
  BY DEF Apart
<1>2. ASSUME NEW q \in Requests
      PROVE  /\ InputAt(input'[q]) /\ ControlAt(pc'[q], input'[q])
             /\ input'[q].op \notin {None, "login"} => Exists(input[q].user)'
             /\ pc'[q] = "idle" => held'[q] = {}
  <2>1. CASE q = r
    BY <2>1 DEF OwnOK
  <2>2. CASE q # r
    <3>1. /\ InputAt(input[q]) /\ ControlAt(pc[q], input[q])
          /\ input[q].op \notin {None, "login"} => Exists(input[q].user)
          /\ pc[q] = "idle" => held[q] = {}
      BY DEF IInv, RequestsOK, TypeOK
    <3>2. input[q].op # None => input[q].user \in Users
      BY <3>1 DEF InputAt
    <3>3. PICK u : u = input[q].user
      OBVIOUS
    <3>4. u \in Users /\ Exists(u) => Exists(u)'
      BY DEF Rely
    <3>. QED
      BY <1>1, <2>2, <3>1, <3>2, <3>3, <3>4 DEF Exists
  <2>. QED
    BY <2>1, <2>2
<1>3. RequestsOK'
  BY <1>2 DEF RequestsOK, Apart, Exists
<1>4. mix' \in Workloads
  BY DEF IInv, TypeOK, Apart
<1>5. \A q \in Requests : input'[q].op = "login" => input'[q].login \in ExternalIdentity
  BY <1>2 DEF InputAt
<1>6. TypeOK'
  BY <1>2, <1>4, <1>5 DEF TypeOK, TablesOK, Apart
<1>7. HandlersOK'
  BY SavingKept, CountingKept, AuditKept DEF HandlersOK, OwnOK
<1>. QED
  BY <1>3, <1>6, <1>7 DEF IInv

(* A step that changes no table. *)
LEMMA LocalStep ==
  ASSUME IInv, NEW r \in Requests, Apart(r), UNCHANGED tables, Compatible', KeysApart', OwnOK(r)'
  PROVE  IInv'
<1>1. Rely(r) /\ TablesOK'
  BY RelyOnLocal, TablesTyped DEF TablesOK, tables
<1>2. PeriodsOK' /\ PendingFresh' /\ IdleOK'
  BY DEF IInv, PeriodsOK, PendingFresh, IdleOK, Pending, Active, Exists, tables
<1>. QED
  BY <1>1, <1>2, Combine

(* Only a request that begins to save can save an account another saves. *)
LEMMA KeysKept ==
  ASSUME IInv, NEW r \in Requests, Apart(r),
         pc'[r] \in {"save", "sync", "write"} =>
           \A q \in Requests \ {r} : Saving(q) => snap[q].on # snap'[r].on
  PROVE  KeysApart'
<1>1. \A q \in Requests \ {r} : pc'[q] = pc[q] /\ snap'[q] = snap[q]
  BY DEF Apart
<1>2. \A p, q \in Requests : p # q /\ Saving(p) /\ Saving(q) => snap[p].on # snap[q].on
  BY DEF IInv, KeysApart
<1>. QED
  BY <1>1, <1>2 DEF KeysApart, Saving

LEMMA BlankTyped ==
  Blank \in Snapshots
  BY DEF Blank, Snapshots, Profiles, NewProfile

(* A transaction that ends keeps nothing and holds nothing. *)
LEMMA Ended ==
  ASSUME IInv, NEW r \in Requests, End(r)
  PROVE  Apart(r) /\ OwnOK(r)' /\ Compatible' /\ KeysApart'
<1>1. Blank \in Snapshots
  BY BlankTyped
<1>2. /\ pc \in [Requests -> Labels] /\ snap \in [Requests -> Snapshots]
      /\ DOMAIN input = Requests /\ DOMAIN held = Requests
  BY DEF IInv, TypeOK, RequestsOK
<1>3. Apart(r)
  BY <1>1, <1>2 DEF Apart, End, Labels
<1>4. pc'[r] = "idle" /\ input'[r] = NoInput /\ held'[r] = {}
  BY <1>2 DEF End
<1>5. InputAt(NoInput) /\ ControlAt("idle", NoInput) /\ NoInput.op = None
  BY AccountAssumption DEF InputAt, ControlAt, NoInput, AllOps
<1>6. OwnOK(r)'
  BY <1>4, <1>5 DEF OwnOK, SavingOK, Saving, CountingOK, Counting, FormOK, AuditOK
<1>7. Compatible'
  BY <1>3, <1>4, TakeCompatible
<1>8. KeysApart'
  BY <1>3, <1>4, KeysKept
<1>. QED
  BY <1>3, <1>6, <1>7, <1>8

(* A transaction that ends without a change: refused, rolled back, done. *)
LEMMA EndOnly ==
  ASSUME IInv, NEW r \in Requests, End(r), UNCHANGED tables
  PROVE  IInv'
  BY Ended, LocalStep

(* The locals and the locks of r become these; new ones nobody else holds. *)
SnapTo(r, s) ==
  /\ s \in Snapshots
  /\ snap' = [snap EXCEPT ![r] = s] \/ (snap' = snap /\ s = snap[r])

LocksTo(r, locks, new) ==
  /\ held' = [held EXCEPT ![r] = locks] \/ (held' = held /\ locks = held[r])
  /\ locks \subseteq held[r] \cup new
  /\ \A l \in new : Free(r, l[1], l[2])

(* A step from one statement of a handler to the next. *)
LEMMA Advance ==
  ASSUME IInv, NEW r \in Requests, pc[r] # "idle",
         NEW label \in Labels \ {"idle"}, Goto(r, label), ControlAt(label, input[r]),
         NEW s, SnapTo(r, s), NEW locks, NEW new, LocksTo(r, locks, new),
         label \in {"save", "sync", "write"} =>
           \A q \in Requests \ {r} : Saving(q) => snap[q].on # s.on,
         UNCHANGED tables,
         /\ Apart(r) /\ pc'[r] = label /\ input'[r] = input[r] /\ snap'[r] = s /\ held'[r] = locks
           => SavingOK(r)' /\ CountingOK(r)' /\ FormOK(r)' /\ AuditOK(r)'
  PROVE  IInv'
<1>1. /\ pc \in [Requests -> Labels] /\ snap \in [Requests -> Snapshots]
      /\ DOMAIN input = Requests /\ DOMAIN held = Requests
  BY DEF IInv, TypeOK, RequestsOK
<1>2. /\ pc' = [pc EXCEPT ![r] = label] /\ mix' = mix /\ input' = input
  BY DEF Goto
<1>3. /\ pc' \in [Requests -> Labels] /\ snap' \in [Requests -> Snapshots]
      /\ DOMAIN input' = Requests /\ DOMAIN held' = Requests
  BY <1>1, <1>2 DEF SnapTo, LocksTo
<1>4. \A q \in Requests \ {r} : /\ pc'[q] = pc[q] /\ input'[q] = input[q]
                                /\ snap'[q] = snap[q] /\ held'[q] = held[q]
  BY <1>1, <1>2 DEF SnapTo, LocksTo
<1>5. Apart(r)
  BY <1>2, <1>3, <1>4 DEF Apart
<1>6. pc'[r] = label /\ input'[r] = input[r] /\ snap'[r] = s /\ held'[r] = locks
  BY <1>1, <1>2 DEF SnapTo, LocksTo
<1>7. SavingOK(r)' /\ CountingOK(r)' /\ FormOK(r)' /\ AuditOK(r)'
  BY <1>5, <1>6
<1>8. OwnOK(r)'
  <2>1. InputAt(input[r]) /\ (input[r].op \notin {None, "login"} => Exists(input[r].user))
    BY DEF IInv, RequestsOK
  <2>2. account' = account
    BY DEF tables
  <2>. QED
    BY <1>6, <1>7, <2>1, <2>2 DEF OwnOK, Exists
<1>9. Compatible'
  <2>1. held'[r] \subseteq held[r] \cup new /\ \A l \in new : Free(r, l[1], l[2])
    BY <1>6 DEF LocksTo
  <2>. QED
    BY <1>5, <2>1, TakeCompatible
<1>10. KeysApart'
  BY <1>5, <1>6, KeysKept
<1>. QED
  BY <1>5, <1>8, <1>9, <1>10, LocalStep

(* A label that asks nothing of its request. *)
LEMMA PlainLabel ==
  ASSUME NEW r \in Requests,
         pc'[r] \in {"oid", "email", "conflict", "error", "admins", "load", "read", "assign",
                     "submit", "log", "redeem"},
         pc'[r] = "admins" => snap'[r].seen = {}
  PROVE  SavingOK(r)' /\ CountingOK(r)' /\ FormOK(r)' /\ AuditOK(r)'
  BY DEF SavingOK, Saving, CountingOK, Counting, FormOK, AuditOK

--------------------------------------------------------------------------------
(* Requests begin and end. *)

LEMMA BeginStep ==
  ASSUME IInv, NEW r \in Requests, Begin(r)
  PROVE  IInv'
<1>1. PICK op \in AllOps, u \in Users : \E i \in Inputs(op, u) :
        /\ op # "login" => Exists(u)
        /\ input' = [input EXCEPT ![r] = i]
        /\ pc' = [pc EXCEPT ![r] = First(op)]
        /\ Remember(r, [Blank EXCEPT !.period = resets[u]])
  BY DEF Begin
<1>2. PICK i \in Inputs(op, u) :
        /\ op # "login" => Exists(u)
        /\ input' = [input EXCEPT ![r] = i]
        /\ pc' = [pc EXCEPT ![r] = First(op)]
        /\ Remember(r, [Blank EXCEPT !.period = resets[u]])
  BY <1>1
<1>3. InputAt(i) /\ i.op = op /\ i.user = u
  BY <1>2, InputType
<1>4. /\ First(op) \in Labels /\ ControlAt(First(op), i)
      /\ First(op) \in {"oid", "admins", "load", "read", "log", "submit", "redeem"}
  BY <1>3, FirstLabel
<1>5. /\ pc \in [Requests -> Labels] /\ snap \in [Requests -> Snapshots]
      /\ DOMAIN input = Requests /\ DOMAIN held = Requests /\ resets[u] \in Nat
  BY DEF IInv, TypeOK, RequestsOK
<1>6. [Blank EXCEPT !.period = resets[u]] \in Snapshots
  BY <1>5, BlankTyped DEF Snapshots
<1>7. UNCHANGED <<tables, mix, held>>
  BY DEF Begin
<1>8. Apart(r)
  BY <1>2, <1>4, <1>5, <1>6, <1>7 DEF Apart, Remember
<1>9. pc'[r] = First(op) /\ input'[r] = i /\ held'[r] = held[r] /\ snap'[r].seen = {}
  BY <1>2, <1>5, <1>7 DEF Remember, Blank
<1>10. SavingOK(r)' /\ CountingOK(r)' /\ FormOK(r)' /\ AuditOK(r)'
  BY <1>4, <1>9, PlainLabel
<1>11. OwnOK(r)'
  <2>1. account' = account
    BY <1>7 DEF tables
  <2>2. pc'[r] # "idle" /\ (input'[r].op \notin {None, "login"} => Exists(u))
    BY <1>2, <1>3, <1>4, <1>9
  <2>. QED
    BY <1>3, <1>4, <1>9, <1>10, <2>1, <2>2 DEF OwnOK, Exists
<1>12. Compatible'
  <2>1. \A q \in Requests : held'[q] = held[q]
    BY <1>8, <1>9 DEF Apart
  <2>. QED
    BY <2>1 DEF IInv, Compatible
<1>13. KeysApart'
  BY <1>4, <1>8, <1>9, KeysKept
<1>. QED
  BY <1>7, <1>8, <1>11, <1>12, <1>13, LocalStep

LEMMA AbortStep ==
  ASSUME IInv, NEW r \in Requests, Abort(r) \/ Answer(r)
  PROVE  IInv'
  BY EndOnly DEF Abort, Answer

(* An error response keeps the locals and drops the locks. *)
LEMMA FailStep ==
  ASSUME IInv, NEW r \in Requests, pc[r] \in {"email", "save"},
         NEW label \in {"conflict", "error"}, Fail(r, label)
  PROVE  IInv'
<1>1. /\ Goto(r, label) /\ held' = [held EXCEPT ![r] = {}] /\ snap' = snap /\ UNCHANGED tables
  BY DEF Fail
<1>2. ControlAt(label, input[r]) /\ snap[r] \in Snapshots
  BY RequestTypes, AccountAssumption DEF ControlAt, AllOps
<1>3. label \in Labels \ {"idle"}
  BY DEF Labels
<1>4. pc'[r] = label => SavingOK(r)' /\ CountingOK(r)' /\ FormOK(r)' /\ AuditOK(r)'
  BY PlainLabel
<1>5. SnapTo(r, snap[r]) /\ LocksTo(r, {}, {})
  BY <1>1, <1>2 DEF SnapTo, LocksTo
<1>. QED
  BY <1>1, <1>2, <1>3, <1>4, <1>5, Advance

--------------------------------------------------------------------------------
(* login_with_microsoft. *)

(* What a sign-in will save of an account: an active row that is an ADMIN's *)
(* exactly if the account is.                                               *)
LEMMA LoggedInRow ==
  ASSUME IInv, NEW u \in Users, Exists(u), NEW l \in ExternalIdentity
  PROVE  /\ LoggedIn(u, l) \in AccountRows
         /\ LoggedIn(u, l).active
         /\ LoggedIn(u, l).role = "ADMIN" <=> account[u].role = "ADMIN"
<1>1. account[u] \in AccountRows
  BY RowType
<1>2. /\ account[u].oid \in Oids \cup {None} /\ account[u].email \in Emails
      /\ account[u].role \in Roles /\ account[u].left \in BOOLEAN
      /\ account[u] = [oid |-> account[u].oid, email |-> account[u].email,
                       role |-> account[u].role, active |-> account[u].active,
                       left |-> account[u].left]
  BY <1>1 DEF AccountRows
<1>3. l.oid \in Oids /\ l.email \in Emails
  BY DEF ExternalIdentity
<1>4. determine_initial_role(l) \in {"STAFF", "STUDENT"}
  BY DEF determine_initial_role
<1>5. PICK left \in BOOLEAN : left = IF account[u].active THEN account[u].left ELSE FALSE
  BY <1>2
<1>6. PICK role \in Roles : role = IF account[u].role = "ADMIN" \/ l.title = None
                                   THEN account[u].role ELSE determine_initial_role(l)
  BY <1>2, <1>4 DEF Roles
<1>7. PICK email \in Emails : email = IF ByEmail(l.email) \ {u} = {} THEN l.email
                                      ELSE account[u].email
  BY <1>2, <1>3
<1>8. LoggedIn(u, l) = [account[u] EXCEPT !.oid = l.oid, !.active = TRUE, !.left = left,
                                         !.role = role, !.email = email]
  BY <1>5, <1>6, <1>7 DEF LoggedIn
<1>9. LoggedIn(u, l) = [oid |-> l.oid, email |-> email, role |-> role,
                        active |-> TRUE, left |-> left]
  BY <1>2, <1>8
<1>10. role = "ADMIN" <=> account[u].role = "ADMIN"
  BY <1>4, <1>6
<1>. QED
  BY <1>3, <1>9, <1>10 DEF AccountRows

(* A sign-in locks the account it found, or is refused. *)
LEMMA LockedStep ==
  ASSUME IInv, NEW r \in Requests, pc[r] \in {"oid", "email"},
         NEW u \in Users, Exists(u), Locked(r, u)
  PROVE  IInv'
<1>1. CASE ~(account[u].active \/ account[u].left)
  BY <1>1, EndOnly DEF Locked
<1>2. CASE account[u].active \/ account[u].left
  <2>1. PICK l : l = input[r].login
    OBVIOUS
  <2>2. input[r].op = "login" /\ l \in ExternalIdentity
    BY <2>1, RequestTypes DEF ControlAt, InputAt
  <2>3. PICK row : row = LoggedIn(u, l)
    OBVIOUS
  <2>4. row \in AccountRows /\ row.active /\ (row.role = "ADMIN" <=> account[u].role = "ADMIN")
    BY <2>2, <2>3, LoggedInRow
  <2>5. PICK s : s = [snap[r] EXCEPT !.row = row, !.on = u]
    OBVIOUS
  <2>6. PICK locks : locks = held[r] \cup {<<UserRow(u), "update">>}
    OBVIOUS
  <2>7. /\ Free(r, UserRow(u), "update") /\ held' = [held EXCEPT ![r] = locks]
        /\ snap' = [snap EXCEPT ![r] = s] /\ Goto(r, "save") /\ UNCHANGED tables
    BY <1>2, <2>1, <2>3, <2>5, <2>6 DEF Locked, Take, Remember
  <2>8. s \in Snapshots /\ s.row = row /\ s.on = u
    BY <2>4, <2>5, RequestTypes DEF Snapshots
  <2>9. SnapTo(r, s) /\ LocksTo(r, locks, {<<UserRow(u), "update">>})
    BY <2>6, <2>7, <2>8 DEF SnapTo, LocksTo
  <2>10. "save" \in Labels \ {"idle"} /\ ControlAt("save", input[r]) /\ pc[r] # "idle"
    BY <2>2, AccountAssumption DEF Labels, ControlAt, AllOps
  <2>11. ASSUME NEW q \in Requests \ {r}, Saving(q) PROVE snap[q].on # s.on
    <3>1. SUFFICES ASSUME snap[q].on = u PROVE FALSE
      BY <2>8
    <3>2. <<UserRow(u), "update">> \in held[q]
      BY <2>11, <3>1 DEF IInv, HandlersOK, SavingOK
    <3>. QED
      BY <2>7, <3>2 DEF Free, Conflict
  <2>12. ASSUME pc'[r] = "save", snap'[r] = s, held'[r] = locks
         PROVE  SavingOK(r)' /\ CountingOK(r)' /\ FormOK(r)' /\ AuditOK(r)'
    <3>1. account' = account
      BY <2>7 DEF tables
    <3>2. SavingOK(r)'
      BY <2>4, <2>6, <2>8, <2>12, <3>1 DEF SavingOK, Exists
    <3>. QED
      BY <2>12, <3>2 DEF CountingOK, Counting, FormOK, AuditOK
  <2>. QED
    BY <2>7, <2>9, <2>10, <2>11, <2>12, Advance
<1>. QED
  BY <1>1, <1>2

LEMMA FindByOidStep ==
  ASSUME IInv, NEW r \in Requests, FindByOid(r)
  PROVE  IInv'
<1>1. CASE \E u \in ByOid(input[r].login.oid) : Locked(r, u)
  BY <1>1, LockedStep DEF FindByOid, ByOid
<1>2. CASE Goto(r, "email") /\ UNCHANGED <<tables, snap, held>>
  <2>1. pc[r] = "oid"
    BY DEF FindByOid
  <2>2. "email" \in Labels \ {"idle"} /\ ControlAt("email", input[r]) /\ snap[r] \in Snapshots
    BY <2>1, RequestTypes, AccountAssumption DEF Labels, ControlAt, AllOps
  <2>3. SnapTo(r, snap[r]) /\ LocksTo(r, held[r], {})
    BY <1>2, <2>2 DEF SnapTo, LocksTo
  <2>4. pc'[r] = "email" => SavingOK(r)' /\ CountingOK(r)' /\ FormOK(r)' /\ AuditOK(r)'
    BY PlainLabel
  <2>. QED
    BY <1>2, <2>1, <2>2, <2>3, <2>4, Advance
<1>. QED
  BY <1>1, <1>2 DEF FindByOid

(* A new account gets a key nobody else is about to insert. *)
LEMMA NewAccountStep ==
  ASSUME IInv, NEW r \in Requests, pc[r] = "email", NEW u \in Users,
         ~Exists(u), \A q \in Requests : snap[q].on # u,
         NEW l, l = input[r].login,
         Remember(r, [snap[r] EXCEPT !.on = u, !.row =
                  [oid |-> l.oid, email |-> l.email, active |-> TRUE,
                   left |-> FALSE, role |-> determine_initial_role(l)]]),
         Goto(r, "save"), UNCHANGED <<tables, held>>
  PROVE  IInv'
<1>1. input[r].op = "login" /\ l \in ExternalIdentity
  BY RequestTypes DEF ControlAt, InputAt
<1>2. PICK row : row = [oid |-> l.oid, email |-> l.email, active |-> TRUE,
                        left |-> FALSE, role |-> determine_initial_role(l)]
  OBVIOUS
<1>3. row \in AccountRows /\ row.active /\ row.role # "ADMIN"
  BY <1>1, <1>2 DEF AccountRows, ExternalIdentity, determine_initial_role, Roles
<1>4. PICK s : s = [snap[r] EXCEPT !.on = u, !.row = row]
  OBVIOUS
<1>5. s \in Snapshots /\ s.row = row /\ s.on = u /\ snap' = [snap EXCEPT ![r] = s]
  BY <1>2, <1>3, <1>4, RequestTypes DEF Snapshots, Remember
<1>6. SnapTo(r, s) /\ LocksTo(r, held[r], {})
  BY <1>5 DEF SnapTo, LocksTo
<1>7. "save" \in Labels \ {"idle"} /\ ControlAt("save", input[r]) /\ pc[r] # "idle"
  BY <1>1, AccountAssumption DEF Labels, ControlAt, AllOps
<1>8. account[u].role # "ADMIN"
  BY RowType
<1>9. ASSUME pc'[r] = "save", snap'[r] = s
      PROVE  SavingOK(r)' /\ CountingOK(r)' /\ FormOK(r)' /\ AuditOK(r)'
  <2>1. account' = account
    BY DEF tables
  <2>2. SavingOK(r)'
    BY <1>3, <1>5, <1>8, <1>9, <2>1 DEF SavingOK, Exists
  <2>. QED
    BY <1>9, <2>2 DEF CountingOK, Counting, FormOK, AuditOK
<1>. QED
  BY <1>5, <1>6, <1>7, <1>9, Advance

LEMMA FindByEmailStep ==
  ASSUME IInv, NEW r \in Requests, FindByEmail(r)
  PROVE  IInv'
<1>1. PICK l : l = input[r].login
  OBVIOUS
<1>2. pc[r] = "email"
  BY DEF FindByEmail
<1>3. CASE \E u \in ByEmail(l.email) : Locked(r, u)
  BY <1>2, <1>3, LockedStep DEF ByEmail
<1>4. CASE Fail(r, "conflict")
  BY <1>2, <1>4, FailStep
<1>5. CASE End(r) /\ UNCHANGED tables
  BY <1>5, EndOnly
<1>6. CASE /\ \E u \in Users :
                /\ ~Exists(u) /\ \A q \in Requests : snap[q].on # u
                /\ Remember(r, [snap[r] EXCEPT !.on = u, !.row =
                     [oid |-> l.oid, email |-> l.email, active |-> TRUE,
                      left |-> FALSE, role |-> determine_initial_role(l)]])
           /\ Goto(r, "save") /\ UNCHANGED <<tables, held>>
  BY <1>1, <1>2, <1>6, NewAccountStep
<1>. QED
  BY <1>1, <1>3, <1>4, <1>5, <1>6 DEF FindByEmail

(* The saves that are under way are of different accounts. *)
LEMMA SavingApart ==
  ASSUME IInv, NEW r \in Requests, Saving(r)
  PROVE  \A q \in Requests \ {r} : Saving(q) => snap[q].on # snap[r].on
  BY DEF IInv, KeysApart

LEMMA SaveUserStep ==
  ASSUME IInv, NEW r \in Requests, SaveUser(r)
  PROVE  IInv'
<1>1. pc[r] = "save" /\ Saving(r) /\ input[r].op = "login" /\ snap[r] \in Snapshots
  BY RequestTypes DEF SaveUser, Saving, ControlAt
<1>2. PICK row : row = snap[r].row
  OBVIOUS
<1>3. PICK new : new = {<<OidKey(row.oid), "update">>, <<EmailKey(row.email), "update">>}
  OBVIOUS
<1>4. \A l \in new : Free(r, l[1], l[2])
  BY <1>2, <1>3 DEF SaveUser
<1>5. CASE Take(r, new) /\ Goto(r, "sync") /\ UNCHANGED <<tables, snap>>
  <2>1. "sync" \in Labels \ {"idle"} /\ ControlAt("sync", input[r])
    BY <1>1, AccountAssumption DEF Labels, ControlAt, AllOps
  <2>2. PICK locks : locks = held[r] \cup new
    OBVIOUS
  <2>3. SnapTo(r, snap[r]) /\ LocksTo(r, locks, new)
    BY <1>1, <1>4, <1>5, <2>2 DEF SnapTo, LocksTo, Take
  <2>4. ASSUME pc'[r] = "sync", snap'[r] = snap[r], held'[r] = locks
        PROVE  SavingOK(r)' /\ CountingOK(r)' /\ FormOK(r)' /\ AuditOK(r)'
    <3>1. account' = account /\ SavingOK(r)
      BY <1>5 DEF tables, IInv, HandlersOK
    <3>2. SavingOK(r)'
      BY <1>1, <2>2, <2>4, <3>1 DEF SavingOK, Exists
    <3>. QED
      BY <2>4, <3>2 DEF CountingOK, Counting, FormOK, AuditOK
  <2>. QED
    BY <1>1, <1>5, <2>1, <2>3, <2>4, SavingApart, Advance
<1>6. CASE /\ Goto(r, "oid") /\ Remember(r, [Blank EXCEPT !.attempt = 2])
           /\ held' = [held EXCEPT ![r] = {}] /\ UNCHANGED tables
  <2>1. "oid" \in Labels \ {"idle"} /\ ControlAt("oid", input[r])
    BY <1>1, AccountAssumption DEF Labels, ControlAt, AllOps
  <2>2. PICK s : s = [Blank EXCEPT !.attempt = 2]
    OBVIOUS
  <2>3. s \in Snapshots
    BY <2>2, BlankTyped DEF Snapshots
  <2>4. SnapTo(r, s) /\ LocksTo(r, {}, {})
    BY <1>6, <2>2, <2>3 DEF SnapTo, LocksTo, Remember
  <2>5. pc'[r] = "oid" => SavingOK(r)' /\ CountingOK(r)' /\ FormOK(r)' /\ AuditOK(r)'
    BY PlainLabel
  <2>. QED
    BY <1>1, <1>6, <2>1, <2>4, <2>5, Advance
<1>7. CASE Fail(r, "error")
  BY <1>1, <1>7, FailStep
<1>. QED
  BY <1>2, <1>3, <1>5, <1>6, <1>7 DEF SaveUser

LEMMA ReadProfileStep ==
  ASSUME IInv, NEW r \in Requests, ReadProfile(r)
  PROVE  IInv'
<1>1. pc[r] = "sync" /\ Saving(r) /\ input[r].op = "login" /\ snap[r] \in Snapshots
  BY RequestTypes DEF ReadProfile, Saving, ControlAt
<1>2. PICK u : u = snap[r].on
  OBVIOUS
<1>3. u \in Users /\ profile[u] \in Profiles
  BY <1>1, <1>2, TablesTyped DEF IInv, HandlersOK, SavingOK, TablesOK
<1>4. PICK s : s = [snap[r] EXCEPT !.profile = profile[u]]
  OBVIOUS
<1>5. s \in Snapshots /\ s.on = u /\ s.row = snap[r].row /\ s.profile = profile[u]
  BY <1>1, <1>2, <1>3, <1>4 DEF Snapshots
<1>6. "write" \in Labels \ {"idle"} /\ ControlAt("write", input[r])
  BY <1>1, AccountAssumption DEF Labels, ControlAt, AllOps
<1>7. snap' = [snap EXCEPT ![r] = s] /\ Goto(r, "write") /\ UNCHANGED <<tables, held>>
  BY <1>2, <1>4 DEF ReadProfile, Remember
<1>8. SnapTo(r, s) /\ LocksTo(r, held[r], {})
  BY <1>5, <1>7 DEF SnapTo, LocksTo
<1>9. ASSUME pc'[r] = "write", snap'[r] = s, held'[r] = held[r]
      PROVE  SavingOK(r)' /\ CountingOK(r)' /\ FormOK(r)' /\ AuditOK(r)'
  <2>1. account' = account /\ profile' = profile /\ SavingOK(r)
    BY <1>7 DEF tables, IInv, HandlersOK
  <2>2. SavingOK(r)'
    BY <1>1, <1>2, <1>5, <1>9, <2>1 DEF SavingOK, Exists
  <2>. QED
    BY <1>9, <2>2 DEF CountingOK, Counting, FormOK, AuditOK
<1>. QED
  BY <1>1, <1>2, <1>5, <1>6, <1>7, <1>8, <1>9, SavingApart, Advance

--------------------------------------------------------------------------------
(* Role changes and deactivations before they commit. *)

LEMMA ListAdminsStep ==
  ASSUME IInv, NEW r \in Requests, ListAdmins(r)
  PROVE  IInv'
<1>1. /\ pc[r] = "admins" /\ input[r].op \in {"role", "deactivate"} /\ snap[r] \in Snapshots
      /\ input[r].user \in Users
  BY RequestTypes DEF ListAdmins, ControlAt
<1>2. PICK s : s = [snap[r] EXCEPT !.todo = ActiveAdmins \cup {input[r].user}]
  OBVIOUS
<1>3. snap[r].seen = {}
  BY <1>1 DEF IInv, HandlersOK, CountingOK
<1>4. ActiveAdmins \subseteq Users
  BY DEF ActiveAdmins
<1>5. s \in Snapshots /\ s.seen = {} /\ input[r].user \in s.todo
  BY <1>1, <1>2, <1>3, <1>4 DEF Snapshots
<1>6. "lock" \in Labels \ {"idle"} /\ ControlAt("lock", input[r])
  BY <1>1, AccountAssumption DEF Labels, ControlAt, AllOps
<1>7. snap' = [snap EXCEPT ![r] = s] /\ Goto(r, "lock") /\ UNCHANGED <<tables, held>>
  BY <1>2 DEF ListAdmins, Remember
<1>8. SnapTo(r, s) /\ LocksTo(r, held[r], {})
  BY <1>5, <1>7 DEF SnapTo, LocksTo
<1>9. ASSUME pc'[r] = "lock", input'[r] = input[r], snap'[r] = s
      PROVE  SavingOK(r)' /\ CountingOK(r)' /\ FormOK(r)' /\ AuditOK(r)'
  <2>1. CountingOK(r)'
    BY <1>5, <1>9 DEF CountingOK
  <2>. QED
    BY <1>9, <2>1 DEF SavingOK, Saving, FormOK, AuditOK
<1>. QED
  BY <1>1, <1>6, <1>7, <1>8, <1>9, Advance

LEMMA LockNextStep ==
  ASSUME IInv, NEW r \in Requests, LockNext(r)
  PROVE  IInv'
<1>1. /\ pc[r] = "lock" /\ input[r].op \in {"role", "deactivate"} /\ snap[r] \in Snapshots
      /\ input[r].user \in Users
  BY RequestTypes DEF LockNext, ControlAt
<1>2. snap[r].todo \subseteq Users /\ snap[r].todo # {} /\ snap[r].seen \subseteq Users
  BY <1>1 DEF IInv, HandlersOK, CountingOK, Counting, Snapshots
<1>3. PICK u : u = Min(snap[r].todo)
  OBVIOUS
<1>4. u \in snap[r].todo /\ u \in Users
  BY <1>2, <1>3, LeastKey
<1>5. PICK rest : rest = snap[r].todo \ {u}
  OBVIOUS
<1>6. PICK row : row = IF u = input[r].user THEN account[u] ELSE snap[r].row
  OBVIOUS
<1>7. PICK seen : seen = IF IsAdmin(account[u]) THEN snap[r].seen \cup {u} ELSE snap[r].seen
  OBVIOUS
<1>8. PICK s : s = [snap[r] EXCEPT !.todo = rest, !.seen = seen, !.row = row]
  OBVIOUS
<1>9. PICK mode : mode = LockMode(r)
  OBVIOUS
<1>10. PICK label : label = IF rest # {} THEN "lock"
                            ELSE IF input[r].op = "role" THEN "role" ELSE "wipe"
  OBVIOUS
<1>11. PICK locks : locks = held[r] \cup {<<UserRow(u), mode>>}
  OBVIOUS
<1>12. /\ Free(r, UserRow(u), mode) /\ held' = [held EXCEPT ![r] = locks]
       /\ snap' = [snap EXCEPT ![r] = s] /\ Goto(r, label) /\ UNCHANGED tables
  BY <1>3, <1>5, <1>6, <1>7, <1>8, <1>9, <1>10, <1>11 DEF LockNext, Take, Remember
<1>13. /\ s \in Snapshots /\ s.todo = rest /\ s.seen = seen /\ s.row = row
  <2>1. row \in AccountRows \cup {NoAccount}
    BY <1>1, <1>4, <1>6, TablesTyped DEF Snapshots, TablesOK
  <2>2. rest \in SUBSET Users /\ seen \in SUBSET Users
    BY <1>2, <1>4, <1>5, <1>7
  <2>. QED
    BY <1>1, <1>8, <2>1, <2>2 DEF Snapshots
<1>14. SnapTo(r, s) /\ LocksTo(r, locks, {<<UserRow(u), mode>>})
  BY <1>11, <1>12, <1>13 DEF SnapTo, LocksTo
<1>15. /\ label \in Labels \ {"idle"} /\ ControlAt(label, input[r])
       /\ label \in {"lock", "role", "wipe"}
  BY <1>1, <1>10, AccountAssumption DEF Labels, ControlAt, AllOps
<1>16. ASSUME pc'[r] = label, input'[r] = input[r], snap'[r] = s, held'[r] = locks
       PROVE  SavingOK(r)' /\ CountingOK(r)' /\ FormOK(r)' /\ AuditOK(r)'
  <2>1. account' = account /\ LockMode(r)' = mode
    BY <1>9, <1>12, <1>16 DEF tables, LockMode
  <2>2. CountingOK(r)
    BY DEF IInv, HandlersOK
  <2>3. ASSUME NEW a \in seen PROVE a \in ActiveAdmins' /\ <<UserRow(a), mode>> \in locks
    <3>1. CASE a \in snap[r].seen
      BY <1>1, <1>9, <1>11, <2>1, <2>2, <3>1 DEF CountingOK, Counting, ActiveAdmins, Exists, IsAdmin
    <3>2. CASE a \notin snap[r].seen
      <4>1. a = u /\ IsAdmin(account[u])
        BY <1>7, <2>3, <3>2
      <4>2. Exists(u)
        BY <1>4, <4>1, RowType DEF IsAdmin
      <4>. QED
        BY <1>4, <1>11, <2>1, <4>1, <4>2 DEF ActiveAdmins, Exists, IsAdmin
    <3>. QED
      BY <3>1, <3>2
  <2>4. ASSUME input[r].user \notin rest
        PROVE  /\ row.role = account[input[r].user].role
               /\ <<UserRow(input[r].user), mode>> \in locks
    <3>1. CASE input[r].user = u
      BY <1>6, <1>11, <3>1
    <3>2. CASE input[r].user # u
      <4>1. input[r].user \notin snap[r].todo
        BY <1>5, <2>4, <3>2
      <4>. QED
        BY <1>1, <1>6, <1>9, <1>11, <2>2, <3>2, <4>1 DEF CountingOK, Counting
    <3>. QED
      BY <3>1, <3>2
  <2>5. label = "lock" <=> rest # {}
    BY <1>10
  <2>6. CountingOK(r)'
    BY <1>13, <1>15, <1>16, <2>1, <2>3, <2>4, <2>5 DEF CountingOK
  <2>. QED
    BY <1>15, <1>16, <2>6 DEF SavingOK, Saving, FormOK, AuditOK
<1>. QED
  BY <1>1, <1>12, <1>14, <1>15, <1>16, Advance

LEMMA WipeStep ==
  ASSUME IInv, NEW r \in Requests, Wipe(r)
  PROVE  IInv'
<1>1. /\ pc[r] = "wipe" /\ input[r].op = "deactivate" /\ snap[r] \in Snapshots
      /\ input[r].user \in Users
  BY RequestTypes DEF Wipe, ControlAt
<1>2. CASE LastAdmin(r)
  BY <1>2, EndOnly DEF Wipe
<1>3. CASE ~LastAdmin(r)
  <2>1. PICK s : s = [snap[r] EXCEPT !.gone = members[input[r].user]]
    OBVIOUS
  <2>2. s \in Snapshots /\ s.seen = snap[r].seen /\ s.todo = snap[r].todo /\ s.row = snap[r].row
    BY <1>1, <2>1, TablesTyped DEF Snapshots, TablesOK
  <2>3. "logs" \in Labels \ {"idle"} /\ ControlAt("logs", input[r])
    BY <1>1, AccountAssumption DEF Labels, ControlAt, AllOps
  <2>4. /\ snap' = [snap EXCEPT ![r] = s] /\ Goto(r, "logs") /\ UNCHANGED held
        /\ UNCHANGED tables
    BY <1>3, <2>1 DEF Wipe, Remember
  <2>5. SnapTo(r, s) /\ LocksTo(r, held[r], {})
    BY <2>2, <2>4 DEF SnapTo, LocksTo
  <2>6. ASSUME pc'[r] = "logs", input'[r] = input[r], snap'[r] = s, held'[r] = held[r]
        PROVE  SavingOK(r)' /\ CountingOK(r)' /\ FormOK(r)' /\ AuditOK(r)'
    <3>1. account' = account /\ LockMode(r)' = LockMode(r) /\ ~LastAdmin(r)'
      BY <1>3, <2>2, <2>4, <2>6 DEF tables, LockMode, LastAdmin
    <3>2. ActiveAdmins' = ActiveAdmins
      BY <3>1 DEF ActiveAdmins, Exists
    <3>3. CountingOK(r)
      BY DEF IInv, HandlersOK
    <3>4. CountingOK(r)'
      BY <1>1, <2>2, <2>6, <3>1, <3>2, <3>3 DEF CountingOK, Counting
    <3>. QED
      BY <2>6, <3>4 DEF SavingOK, Saving, FormOK, AuditOK
  <2>. QED
    BY <1>1, <2>3, <2>4, <2>5, <2>6, Advance
<1>. QED
  BY <1>2, <1>3

LEMMA RejectPendingStep ==
  ASSUME IInv, NEW r \in Requests, RejectPending(r)
  PROVE  IInv'
<1>1. /\ pc[r] = "logs" /\ input[r].op = "deactivate" /\ snap[r] \in Snapshots
      /\ input[r].user \in Users
  BY RequestTypes DEF RejectPending, ControlAt
<1>2. PICK u : u = input[r].user
  OBVIOUS
<1>3. PICK new : new = {<<LogRow(u, s), "nokey">> : s \in Pending(u)}
  OBVIOUS
<1>4. PICK locks : locks = held[r] \cup new
  OBVIOUS
<1>5. /\ held' = [held EXCEPT ![r] = locks] /\ Goto(r, "reset") /\ UNCHANGED <<tables, snap>>
      /\ \A s \in Pending(u) : Free(r, LogRow(u, s), "nokey")
  BY <1>2, <1>3, <1>4 DEF RejectPending, Take
<1>6. \A l \in new : Free(r, l[1], l[2])
  <2>1. SUFFICES ASSUME NEW s \in Pending(u)
                 PROVE  Free(r, <<LogRow(u, s), "nokey">>[1], <<LogRow(u, s), "nokey">>[2])
    BY <1>3
  <2>. QED
    BY <1>5
<1>7. SnapTo(r, snap[r]) /\ LocksTo(r, locks, new)
  BY <1>1, <1>4, <1>5, <1>6 DEF SnapTo, LocksTo
<1>8. "reset" \in Labels \ {"idle"} /\ ControlAt("reset", input[r])
  BY <1>1, AccountAssumption DEF Labels, ControlAt, AllOps
<1>9. ASSUME pc'[r] = "reset", input'[r] = input[r], snap'[r] = snap[r], held'[r] = locks
      PROVE  SavingOK(r)' /\ CountingOK(r)' /\ FormOK(r)' /\ AuditOK(r)'
  <2>1. /\ account' = account /\ logs' = logs /\ LockMode(r)' = LockMode(r)
        /\ LastAdmin(r)' = LastAdmin(r)
    BY <1>5, <1>9 DEF tables, LockMode, LastAdmin
  <2>2. ActiveAdmins' = ActiveAdmins /\ Pending(u)' = Pending(u)
    BY <2>1 DEF ActiveAdmins, Exists, Pending
  <2>3. CountingOK(r)
    BY DEF IInv, HandlersOK
  <2>4. \A s \in Pending(u)' : <<LogRow(u, s), "nokey">> \in locks
    BY <1>3, <1>4, <2>2
  <2>5. CountingOK(r)'
    BY <1>1, <1>2, <1>4, <1>9, <2>1, <2>2, <2>3, <2>4 DEF CountingOK, Counting
  <2>. QED
    BY <1>9, <2>5 DEF SavingOK, Saving, FormOK, AuditOK
<1>. QED
  BY <1>1, <1>5, <1>7, <1>8, <1>9, Advance

--------------------------------------------------------------------------------
(* The form, onboardings and audits before they commit. *)

LEMMA FormLoadStep ==
  ASSUME IInv, NEW r \in Requests, FormLoad(r)
  PROVE  IInv'
<1>1. /\ pc[r] = "load" /\ input[r].op = "form" /\ snap[r] \in Snapshots
      /\ input[r].user \in Users /\ Exists(input[r].user)
      /\ input[r].active \in BOOLEAN /\ input[r].role \in Roles
  BY RequestTypes DEF FormLoad, ControlAt, InputAt
<1>2. PICK u : u = input[r].user
  OBVIOUS
<1>3. account[u] \in AccountRows /\ account[u].left \in BOOLEAN
  BY <1>1, <1>2, RowType
<1>4. PICK left \in BOOLEAN : left = IF input[r].active THEN FALSE ELSE account[u].left
  BY <1>3
<1>5. PICK row : row = [account[u] EXCEPT !.active = input[r].active, !.role = input[r].role,
                                          !.left = left]
  OBVIOUS
<1>6. row \in AccountRows
  BY <1>1, <1>3, <1>5 DEF AccountRows
<1>7. PICK s : s = [snap[r] EXCEPT !.row = row]
  OBVIOUS
<1>8. s \in Snapshots /\ s.row = row
  BY <1>1, <1>6, <1>7 DEF Snapshots
<1>9. snap' = [snap EXCEPT ![r] = s] /\ Goto(r, "store") /\ UNCHANGED <<tables, held>>
  BY <1>2, <1>4, <1>5, <1>7 DEF FormLoad, Remember
<1>10. SnapTo(r, s) /\ LocksTo(r, held[r], {})
  BY <1>8, <1>9 DEF SnapTo, LocksTo
<1>11. "store" \in Labels \ {"idle"} /\ ControlAt("store", input[r])
  BY <1>1, AccountAssumption DEF Labels, ControlAt, AllOps
<1>12. pc'[r] = "store" /\ snap'[r] = s => SavingOK(r)' /\ CountingOK(r)' /\ FormOK(r)' /\ AuditOK(r)'
  BY <1>6, <1>8 DEF SavingOK, Saving, CountingOK, Counting, FormOK, AuditOK
<1>. QED
  BY <1>1, <1>9, <1>10, <1>11, <1>12, Advance

LEMMA ReadCareerStep ==
  ASSUME IInv, NEW r \in Requests, ReadCareer(r)
  PROVE  IInv'
<1>1. /\ pc[r] = "read" /\ input[r].op = "onboard" /\ snap[r] \in Snapshots
      /\ input[r].user \in Users /\ input[r].named \in BOOLEAN
  BY RequestTypes DEF ReadCareer, ControlAt, InputAt
<1>2. PICK new : new = IF input[r].named THEN {<<UserRow(input[r].user), "update">>} ELSE {}
  OBVIOUS
<1>3. PICK locks : locks = held[r] \cup new
  OBVIOUS
<1>4. PICK s : s = [snap[r] EXCEPT !.profile = profile[input[r].user]]
  OBVIOUS
<1>5. s \in Snapshots
  BY <1>1, <1>4, TablesTyped DEF Snapshots, TablesOK
<1>6. /\ snap' = [snap EXCEPT ![r] = s] /\ held' = [held EXCEPT ![r] = locks]
      /\ Goto(r, "assign") /\ UNCHANGED tables
      /\ input[r].named => Free(r, UserRow(input[r].user), "update")
  BY <1>2, <1>3, <1>4 DEF ReadCareer, Remember, Take
<1>7. \A l \in new : Free(r, l[1], l[2])
  BY <1>1, <1>2, <1>6
<1>8. SnapTo(r, s) /\ LocksTo(r, locks, new)
  BY <1>3, <1>5, <1>6, <1>7 DEF SnapTo, LocksTo
<1>9. "assign" \in Labels \ {"idle"} /\ ControlAt("assign", input[r])
  BY <1>1, AccountAssumption DEF Labels, ControlAt, AllOps
<1>10. pc'[r] = "assign" => SavingOK(r)' /\ CountingOK(r)' /\ FormOK(r)' /\ AuditOK(r)'
  BY PlainLabel
<1>. QED
  BY <1>1, <1>6, <1>8, <1>9, <1>10, Advance

LEMMA AssignClanStep ==
  ASSUME IInv, NEW r \in Requests, AssignClan(r)
  PROVE  IInv'
<1>1. /\ pc[r] = "assign" /\ input[r].op = "onboard" /\ snap[r] \in Snapshots
  BY RequestTypes DEF AssignClan, ControlAt
<1>2. PICK u : u = input[r].user
  OBVIOUS
<1>3. PICK locks : locks = held[r] \cup {<<ProfileRow(u), "nokey">>}
  OBVIOUS
<1>4. /\ held' = [held EXCEPT ![r] = locks] /\ Goto(r, "member") /\ UNCHANGED <<tables, snap>>
      /\ Free(r, ProfileRow(u), "nokey")
  BY <1>2, <1>3 DEF AssignClan, Take
<1>5. SnapTo(r, snap[r]) /\ LocksTo(r, locks, {<<ProfileRow(u), "nokey">>})
  BY <1>1, <1>3, <1>4 DEF SnapTo, LocksTo
<1>6. "member" \in Labels \ {"idle"} /\ ControlAt("member", input[r])
  BY <1>1, AccountAssumption DEF Labels, ControlAt, AllOps
<1>7. pc'[r] = "member" /\ input'[r] = input[r] /\ held'[r] = locks
        => SavingOK(r)' /\ CountingOK(r)' /\ FormOK(r)' /\ AuditOK(r)'
  BY <1>2, <1>3 DEF SavingOK, Saving, CountingOK, Counting, FormOK, AuditOK
<1>. QED
  BY <1>1, <1>4, <1>5, <1>6, <1>7, Advance

LEMMA LockLogStep ==
  ASSUME IInv, NEW r \in Requests, LockLog(r)
  PROVE  IInv'
<1>1. /\ pc[r] = "log" /\ input[r].op \in {"approve", "revoke"} /\ snap[r] \in Snapshots
  BY RequestTypes DEF LockLog, ControlAt
<1>2. PICK u : u = input[r].user
  OBVIOUS
<1>3. PICK s : s = input[r].slot
  OBVIOUS
<1>4. CASE logs[u][s].status # Wanted(input[r])
  BY <1>2, <1>3, <1>4, EndOnly DEF LockLog, Wanted
<1>5. CASE logs[u][s].status = Wanted(input[r])
  <2>1. PICK locks : locks = held[r] \cup {<<LogRow(u, s), "update">>}
    OBVIOUS
  <2>2. /\ held' = [held EXCEPT ![r] = locks] /\ Goto(r, "points") /\ UNCHANGED snap
        /\ UNCHANGED tables /\ Free(r, LogRow(u, s), "update")
    BY <1>2, <1>3, <1>5, <2>1 DEF LockLog, Take, Wanted
  <2>3. SnapTo(r, snap[r]) /\ LocksTo(r, locks, {<<LogRow(u, s), "update">>})
    BY <1>1, <2>1, <2>2 DEF SnapTo, LocksTo
  <2>4. "points" \in Labels \ {"idle"} /\ ControlAt("points", input[r])
    BY <1>1, AccountAssumption DEF Labels, ControlAt, AllOps
  <2>5. logs' = logs
    BY <2>2 DEF tables
  <2>6. pc'[r] = "points" /\ input'[r] = input[r] /\ held'[r] = locks
          => SavingOK(r)' /\ CountingOK(r)' /\ FormOK(r)' /\ AuditOK(r)'
    BY <1>2, <1>3, <1>5, <2>1, <2>5 DEF SavingOK, Saving, CountingOK, Counting, FormOK, AuditOK, Wanted
  <2>. QED
    BY <1>1, <2>2, <2>3, <2>4, <2>6, Advance
<1>. QED
  BY <1>4, <1>5

LEMMA LockProfileStep ==
  ASSUME IInv, NEW r \in Requests, LockProfile(r)
  PROVE  IInv'
<1>1. /\ pc[r] = "points" /\ input[r].op \in {"approve", "revoke"} /\ snap[r] \in Snapshots
  BY RequestTypes DEF LockProfile, ControlAt
<1>2. PICK u : u = input[r].user
  OBVIOUS
<1>3. CASE ~(input[r].op = "approve" \/ profile[u].points >= 1)
  BY <1>2, <1>3, EndOnly DEF LockProfile
<1>4. CASE input[r].op = "approve" \/ profile[u].points >= 1
  <2>1. PICK locks : locks = held[r] \cup {<<ProfileRow(u), "nokey">>}
    OBVIOUS
  <2>2. /\ held' = [held EXCEPT ![r] = locks] /\ Goto(r, "award") /\ UNCHANGED snap
        /\ UNCHANGED tables /\ Free(r, ProfileRow(u), "nokey")
    BY <1>2, <1>4, <2>1 DEF LockProfile, Take
  <2>3. SnapTo(r, snap[r]) /\ LocksTo(r, locks, {<<ProfileRow(u), "nokey">>})
    BY <1>1, <2>1, <2>2 DEF SnapTo, LocksTo
  <2>4. "award" \in Labels \ {"idle"} /\ ControlAt("award", input[r])
    BY <1>1, AccountAssumption DEF Labels, ControlAt, AllOps
  <2>5. logs' = logs /\ profile' = profile /\ AuditOK(r)
    BY <2>2 DEF tables, IInv, HandlersOK
  <2>6. pc'[r] = "award" /\ input'[r] = input[r] /\ held'[r] = locks => AuditOK(r)'
    BY <1>1, <1>2, <1>4, <2>1, <2>5 DEF AuditOK, Wanted
  <2>7. pc'[r] = "award" /\ input'[r] = input[r] /\ held'[r] = locks
          => SavingOK(r)' /\ CountingOK(r)' /\ FormOK(r)' /\ AuditOK(r)'
    BY <2>6 DEF SavingOK, Saving, CountingOK, Counting, FormOK
  <2>. QED
    BY <1>1, <2>2, <2>3, <2>4, <2>7, Advance
<1>. QED
  BY <1>3, <1>4

--------------------------------------------------------------------------------
(* The steps that change the tables: each ends its transaction. *)

LEMMA EndStep ==
  ASSUME IInv, NEW r \in Requests, End(r), Rely(r), TablesOK', PeriodsOK', PendingFresh', IdleOK'
  PROVE  IInv'
  BY Ended, Combine

(* Who updates the row of an account has it to itself. *)
LEMMA NotOwned ==
  ASSUME IInv, NEW r \in Requests, NEW q \in Requests \ {r}, NEW u \in Users, Exists(u),
         \/ Free(r, UserRow(u), "nokey")
         \/ \E m \in {"update", "nokey"} : <<UserRow(u), m>> \in held[r]
  PROVE  ~Owns(q, u)
<1>1. SUFFICES ASSUME Owns(q, u) PROVE FALSE
  OBVIOUS
<1>2. PICK n \in {"update", "nokey"} : <<UserRow(u), n>> \in held[q]
  <2>1. CASE Saving(q) /\ snap[q].on = u
    BY <2>1 DEF IInv, HandlersOK, SavingOK
  <2>. QED
    BY <1>1, <2>1 DEF Owns
<1>3. CASE Free(r, UserRow(u), "nokey")
  BY <1>2, <1>3 DEF Free, Conflict
<1>4. CASE \E m \in {"update", "nokey"} : <<UserRow(u), m>> \in held[r]
  <2>1. PICK m \in {"update", "nokey"} : <<UserRow(u), m>> \in held[r]
    BY <1>4
  <2>2. PICK l \in held[q] : l = <<UserRow(u), n>>
    BY <1>2
  <2>3. PICK k \in held[r] : k = <<UserRow(u), m>>
    BY <2>1
  <2>4. l[1] = k[1] => ~Conflict(l[2], k[2])
    BY DEF IInv, Compatible
  <2>. QED
    BY <1>2, <2>1, <2>2, <2>3, <2>4 DEF Conflict
<1>. QED
  BY <1>3, <1>4

(* A sign-in that has locked an account keeps foreign keys waiting. *)
LEMMA NotSaved ==
  ASSUME IInv, NEW r \in Requests, NEW q \in Requests \ {r}, NEW u \in Users, Exists(u),
         Free(r, UserRow(u), "share")
  PROVE  ~(Saving(q) /\ snap[q].on = u)
<1>1. SUFFICES ASSUME Saving(q), snap[q].on = u PROVE FALSE
  OBVIOUS
<1>2. <<UserRow(u), "update">> \in held[q]
  BY <1>1 DEF IInv, HandlersOK, SavingOK
<1>. QED
  BY <1>2 DEF Free, Conflict

(* Who updates a profile has it to itself. *)
LEMMA NotHeld ==
  ASSUME IInv, NEW r \in Requests, NEW q \in Requests \ {r}, NEW u,
         \/ Free(r, ProfileRow(u), "nokey") \/ Free(r, ProfileRow(u), "update")
         \/ <<ProfileRow(u), "nokey">> \in held[r]
  PROVE  <<ProfileRow(u), "nokey">> \notin held[q]
<1>1. SUFFICES ASSUME <<ProfileRow(u), "nokey">> \in held[q] PROVE FALSE
  OBVIOUS
<1>2. PICK l \in held[q] : l = <<ProfileRow(u), "nokey">>
  BY <1>1
<1>3. CASE <<ProfileRow(u), "nokey">> \in held[r]
  <2>1. PICK k \in held[r] : k = <<ProfileRow(u), "nokey">>
    BY <1>3
  <2>2. l[1] = k[1] => ~Conflict(l[2], k[2])
    BY DEF IInv, Compatible
  <2>. QED
    BY <1>2, <2>1, <2>2 DEF Conflict
<1>. QED
  BY <1>2, <1>3 DEF Free, Conflict

(* The same for a log that an audit has locked. *)
LEMMA LogNotHeld ==
  ASSUME IInv, NEW r \in Requests, NEW q \in Requests \ {r}, NEW u, NEW s,
         \E m \in {"update", "nokey"} : <<LogRow(u, s), m>> \in held[r]
  PROVE  <<LogRow(u, s), "update">> \notin held[q]
<1>1. SUFFICES ASSUME <<LogRow(u, s), "update">> \in held[q] PROVE FALSE
  OBVIOUS
<1>2. PICK l \in held[q] : l = <<LogRow(u, s), "update">>
  BY <1>1
<1>3. PICK m \in {"update", "nokey"} : <<LogRow(u, s), m>> \in held[r]
  OBVIOUS
<1>4. PICK k \in held[r] : k = <<LogRow(u, s), m>>
  BY <1>3
<1>5. l[1] = k[1] => ~Conflict(l[2], k[2])
  BY DEF IInv, Compatible
<1>. QED
  BY <1>2, <1>4, <1>5 DEF Conflict

LEMMA CommitLoginStep ==
  ASSUME IInv, NEW r \in Requests, CommitLogin(r)
  PROVE  IInv'
<1>1. PICK u : u = snap[r].on
  OBVIOUS
<1>2. PICK row : row = snap[r].row
  OBVIOUS
<1>3. Saving(r) /\ pc[r] = "write" /\ snap[r] \in Snapshots
  BY RequestTypes DEF CommitLogin, Saving
<1>4. /\ u \in Users /\ row \in AccountRows /\ row.active /\ row # NoAccount
      /\ Exists(u) => <<UserRow(u), "update">> \in held[r]
  BY <1>1, <1>2, <1>3, RowExists DEF IInv, HandlersOK, SavingOK
<1>5. /\ Free(r, ProfileRow(u), "nokey") /\ End(r)
      /\ account' = [account EXCEPT ![u] = row]
      /\ profile' = [profile EXCEPT ![u] = snap[r].profile]
      /\ members' = members /\ logs' = logs /\ resets' = resets /\ formed' = formed
  BY <1>1, <1>2 DEF CommitLogin
<1>6. TablesOK
  BY TablesTyped
<1>7. TablesOK'
  BY <1>3, <1>4, <1>5, <1>6 DEF TablesOK, Snapshots
<1>8. /\ account'[u] = row /\ \A v \in Users \ {u} : account'[v] = account[v]
      /\ \A v \in Users \ {u} : profile'[v] = profile[v]
      /\ \A v \in Users : Pending(v)' = Pending(v)
  BY <1>4, <1>5, <1>6 DEF TablesOK, Pending
<1>9. Rely(r)
  <2>1. \A v \in Users : Exists(v) => Exists(v)'
    BY <1>4, <1>8 DEF Exists
  <2>2. ASSUME NEW q \in Requests \ {r} PROVE ~Owns(q, u)
    <3>1. CASE Exists(u)
      BY <1>4, <3>1, NotOwned
    <3>2. CASE ~Exists(u)
      BY <1>1, <1>3, <3>2 DEF Owns, IInv, KeysApart
    <3>. QED
      BY <3>1, <3>2
  <2>3. \A q \in Requests \ {r} : <<ProfileRow(u), "nokey">> \notin held[q]
    BY <1>5, NotHeld
  <2>4. \A q \in Requests \ {r} : ~(Saving(q) /\ snap[q].on = u)
    BY <2>2 DEF Owns
  <2>. QED
    BY <1>5, <1>8, <2>1, <2>2, <2>3, <2>4 DEF Rely
<1>10. PeriodsOK' /\ PendingFresh'
  BY <1>5, <1>8 DEF IInv, PeriodsOK, PendingFresh
<1>11. IdleOK'
  <2>1. Active(u)'
    BY <1>4, <1>8 DEF Active, Exists
  <2>2. \A v \in Users \ {u} : Active(v)' <=> Active(v)
    BY <1>8 DEF Active, Exists
  <2>. QED
    BY <1>5, <1>8, <2>1, <2>2 DEF IInv, IdleOK
<1>. QED
  BY <1>5, <1>7, <1>9, <1>10, <1>11, EndStep

(* A role change or deactivation that has all its locks. *)
LEMMA Counted ==
  ASSUME IInv, NEW r \in Requests, pc[r] \in {"role", "wipe", "logs", "reset"}
  PROVE  /\ input[r].user \in Users /\ Exists(input[r].user)
         /\ snap[r].row.role = account[input[r].user].role
         /\ \E m \in {"update", "nokey"} : <<UserRow(input[r].user), m>> \in held[r]
         /\ snap[r].seen \subseteq ActiveAdmins
<1>1. input[r].op \in {"role", "deactivate"} /\ input[r].user \in Users /\ Exists(input[r].user)
  BY RequestTypes DEF ControlAt
<1>2. CountingOK(r) /\ Counting(r)
  BY DEF IInv, HandlersOK, Counting
<1>3. snap[r].todo = {}
  BY <1>2 DEF CountingOK
<1>4. LockMode(r) \in {"update", "nokey"}
  BY DEF LockMode
<1>. QED
  BY <1>1, <1>2, <1>3, <1>4 DEF CountingOK

LEMMA ChangeRoleStep ==
  ASSUME IInv, NEW r \in Requests, ChangeRole(r)
  PROVE  IInv'
<1>1. PICK u : u = input[r].user
  OBVIOUS
<1>2. PICK new : new = input[r].role
  OBVIOUS
<1>3. pc[r] = "role" /\ new \in Roles
  BY <1>2, RequestTypes DEF ChangeRole, ControlAt, InputAt
<1>4. /\ u \in Users /\ Exists(u) /\ account[u] \in AccountRows
      /\ \E m \in {"update", "nokey"} : <<UserRow(u), m>> \in held[r]
  BY <1>1, <1>3, Counted, RowType
<1>5. /\ account' = account \/ account' = [account EXCEPT ![u].role = new]
      /\ End(r) /\ profile' = profile /\ members' = members /\ logs' = logs
      /\ resets' = resets /\ formed' = formed
  BY <1>1, <1>2 DEF ChangeRole
<1>6. TablesOK
  BY TablesTyped
<1>7. /\ account'[u] \in AccountRows /\ account'[u].active = account[u].active
      /\ \A v \in Users \ {u} : account'[v] = account[v]
  BY <1>3, <1>4, <1>5, <1>6 DEF TablesOK, AccountRows
<1>8. TablesOK'
  BY <1>4, <1>5, <1>6, <1>7 DEF TablesOK
<1>9. account'[u] # NoAccount
  BY <1>7, RowExists
<1>10. Rely(r)
  <2>1. \A v \in Users : Exists(v) => Exists(v)'
    BY <1>7, <1>9 DEF Exists
  <2>2. \A q \in Requests \ {r} : ~Owns(q, u)
    BY <1>4, NotOwned
  <2>3. \A v \in Users : Pending(v)' = Pending(v)
    BY <1>5 DEF Pending
  <2>. QED
    BY <1>5, <1>7, <2>1, <2>2, <2>3 DEF Rely
<1>11. PeriodsOK' /\ PendingFresh'
  BY <1>5 DEF IInv, PeriodsOK, PendingFresh, Pending
<1>12. IdleOK'
  <2>1. \A v \in Users : Active(v)' <=> Active(v)
    BY <1>4, <1>7, <1>9 DEF Active, Exists
  <2>. QED
    BY <1>5, <2>1 DEF IInv, IdleOK, Pending
<1>. QED
  BY <1>5, <1>8, <1>10, <1>11, <1>12, EndStep

LEMMA FormStoreStep ==
  ASSUME IInv, NEW r \in Requests, FormStore(r)
  PROVE  IInv'
<1>1. PICK u : u = input[r].user
  OBVIOUS
<1>2. PICK row : row = snap[r].row
  OBVIOUS
<1>3. pc[r] = "store" /\ u \in Users /\ Exists(u)
  BY <1>1, RequestTypes DEF FormStore, ControlAt
<1>4. row \in AccountRows /\ row # NoAccount /\ row.active \in BOOLEAN
  <2>1. row \in AccountRows
    BY <1>2, <1>3 DEF IInv, HandlersOK, FormOK
  <2>. QED
    BY <2>1, RowExists DEF AccountRows
<1>5. account[u].active \in BOOLEAN /\ account[u] # NoAccount
  BY <1>3, RowType DEF Exists
<1>6. PICK f : f = IF row.active THEN "enabled"
                   ELSE IF account[u].active THEN "disabled" ELSE formed[u]
  OBVIOUS
<1>7. /\ Free(r, UserRow(u), "nokey") /\ End(r)
      /\ account' = [account EXCEPT ![u] = row] /\ formed' = [formed EXCEPT ![u] = f]
      /\ profile' = profile /\ members' = members /\ logs' = logs /\ resets' = resets
  BY <1>1, <1>2, <1>6 DEF FormStore
<1>8. TablesOK
  BY TablesTyped
<1>9. f \in {"never", "enabled", "disabled"}
  BY <1>3, <1>6, <1>8 DEF TablesOK
<1>10. TablesOK'
  BY <1>3, <1>4, <1>7, <1>8, <1>9 DEF TablesOK
<1>11. /\ account'[u] = row /\ formed'[u] = f
       /\ \A v \in Users \ {u} : account'[v] = account[v] /\ formed'[v] = formed[v]
       /\ \A v \in Users : Pending(v)' = Pending(v)
  BY <1>3, <1>7, <1>8 DEF TablesOK, Pending
<1>12. Rely(r)
  <2>1. \A v \in Users : Exists(v) => Exists(v)'
    BY <1>4, <1>11 DEF Exists
  <2>2. \A q \in Requests \ {r} : ~Owns(q, u)
    BY <1>3, <1>7, NotOwned
  <2>. QED
    BY <1>7, <1>11, <2>1, <2>2 DEF Rely
<1>13. PeriodsOK' /\ PendingFresh'
  BY <1>7, <1>11 DEF IInv, PeriodsOK, PendingFresh
<1>14. IdleOK'
  <2>1. SUFFICES ASSUME NEW v \in Users, ~Active(v)', formed'[v] = "never"
                 PROVE  ~Active(v) /\ formed[v] = "never"
    BY <1>7, <1>11 DEF IInv, IdleOK
  <2>2. CASE v # u
    BY <1>11, <2>1, <2>2 DEF Active, Exists
  <2>3. CASE v = u
    <3>1. ~row.active
      BY <1>4, <1>11, <2>1, <2>3 DEF Active, Exists
    <3>. QED
      BY <1>5, <1>6, <1>11, <2>1, <2>3, <3>1 DEF Active
  <2>. QED
    BY <2>2, <2>3
<1>. QED
  BY <1>7, <1>10, <1>12, <1>13, <1>14, EndStep

LEMMA CommitDeactivationStep ==
  ASSUME IInv, NEW r \in Requests, CommitDeactivation(r)
  PROVE  IInv'
<1>1. PICK u : u = input[r].user
  OBVIOUS
<1>2. PICK rejects : rejects = {s \in Slots : <<LogRow(u, s), "nokey">> \in held[r]}
  OBVIOUS
<1>3. pc[r] = "reset" /\ u \in Users /\ Exists(u) /\ account[u] \in AccountRows
  BY <1>1, RequestTypes, RowType DEF CommitDeactivation, ControlAt
<1>4. \E m \in {"update", "nokey"} : <<UserRow(u), m>> \in held[r]
  BY <1>1, <1>3, Counted
<1>5. Pending(u) \subseteq rejects
  <2>1. CountingOK(r) /\ Counting(r)
    BY <1>3 DEF IInv, HandlersOK, Counting
  <2>. QED
    BY <1>1, <1>2, <1>3, <2>1 DEF CountingOK, Pending
<1>6. /\ Free(r, ProfileRow(u), "nokey") /\ End(r)
      /\ account' = [account EXCEPT ![u].active = FALSE, ![u].left = TRUE]
      /\ profile' = [profile EXCEPT ![u] = NewProfile]
      /\ members' = [members EXCEPT ![u] = @ \ snap[r].gone]
      /\ logs' = [logs EXCEPT ![u] = [s \in Slots |->
                    IF s \in rejects THEN [logs[u][s] EXCEPT !.status = "REJECTED"]
                    ELSE logs[u][s]]]
      /\ resets' = [resets EXCEPT ![u] = @ + 1]
      /\ formed' = formed
  BY <1>1, <1>2 DEF CommitDeactivation
<1>7. TablesOK
  BY TablesTyped
<1>8. /\ account'[u] = [account[u] EXCEPT !.active = FALSE, !.left = TRUE]
      /\ account' = [account EXCEPT ![u] = account'[u]]
  BY <1>3, <1>6, <1>7 DEF TablesOK
<1>9. account'[u] \in AccountRows /\ ~account'[u].active /\ account'[u] # NoAccount
  BY <1>3, <1>8, RowExists DEF AccountRows
<1>10. \A v \in Users \ {u} : /\ account'[v] = account[v] /\ profile'[v] = profile[v]
                              /\ logs'[v] = logs[v] /\ resets'[v] = resets[v]
  BY <1>6, <1>7, <1>8 DEF TablesOK
<1>11. /\ profile'[u] = NewProfile /\ resets'[u] = resets[u] + 1
       /\ logs'[u] = [s \in Slots |->
                    IF s \in rejects THEN [logs[u][s] EXCEPT !.status = "REJECTED"]
                    ELSE logs[u][s]]
  BY <1>3, <1>6, <1>7 DEF TablesOK
<1>12. ASSUME NEW s \in Slots
       PROVE  /\ logs'[u][s] \in Logs /\ logs'[u][s].period = logs[u][s].period
              /\ s \notin rejects => logs'[u][s] = logs[u][s]
              /\ s \in rejects => logs'[u][s].status = "REJECTED"
  <2>1. logs[u][s] \in Logs
    BY <1>3, <1>7 DEF TablesOK
  <2>. QED
    BY <1>11, <2>1 DEF Logs
<1>13. TablesOK'
  <2>1. logs'[u] \in [Slots -> Logs]
    BY <1>11, <1>12
  <2>2. logs' \in [Users -> [Slots -> Logs]]
    BY <1>3, <1>6, <1>7, <2>1 DEF TablesOK
  <2>3. account' \in [Users -> AccountRows \cup {NoAccount}]
    BY <1>3, <1>7, <1>8, <1>9 DEF TablesOK
  <2>4. NewProfile \in Profiles
    BY DEF NewProfile, Profiles
  <2>5. profile' \in [Users -> Profiles] /\ resets' \in [Users -> Nat]
    BY <1>3, <1>6, <1>7, <2>4 DEF TablesOK
  <2>6. members' \in [Users -> SUBSET Careers]
    BY <1>3, <1>6, <1>7 DEF TablesOK
  <2>. QED
    BY <1>6, <1>7, <2>2, <2>3, <2>5, <2>6 DEF TablesOK
<1>14. \A v \in Users : Pending(v)' \subseteq Pending(v)
  BY <1>10, <1>12 DEF Pending
<1>15. Pending(u)' = {}
  BY <1>5, <1>12, <1>14 DEF Pending
<1>16. Rely(r)
  <2>1. \A v \in Users : Exists(v) => Exists(v)'
    BY <1>9, <1>10 DEF Exists
  <2>2. \A q \in Requests \ {r} : ~Owns(q, u) /\ ~(Saving(q) /\ snap[q].on = u)
    BY <1>3, <1>4, NotOwned DEF Owns
  <2>3. \A q \in Requests \ {r} : <<ProfileRow(u), "nokey">> \notin held[q]
    BY <1>6, NotHeld
  <2>4. ASSUME NEW q \in Requests \ {r}, NEW s \in Slots, <<LogRow(u, s), "update">> \in held[q]
        PROVE  logs'[u][s] = logs[u][s]
    <3>1. s \notin rejects
      BY <1>2, <2>4, LogNotHeld
    <3>. QED
      BY <1>12, <3>1
  <2>. QED
    BY <1>10, <1>14, <2>1, <2>2, <2>3, <2>4 DEF Rely
<1>17. PeriodsOK'
  <2>1. SUFFICES ASSUME NEW v \in Users, NEW s \in Slots PROVE logs'[v][s].period <= resets'[v]
    BY DEF PeriodsOK
  <2>2. logs[v][s].period <= resets[v] /\ logs[v][s].period \in Nat /\ resets[v] \in Nat
    BY <1>7 DEF IInv, PeriodsOK, TablesOK, Logs
  <2>3. CASE v = u
    <3>1. logs'[v][s].period = logs[v][s].period /\ resets'[v] = resets[v] + 1
      BY <1>11, <1>12, <2>3
    <3>. QED
      BY <2>2, <3>1
  <2>4. CASE v # u
    BY <1>10, <2>2, <2>4
  <2>. QED
    BY <2>3, <2>4
<1>18. PendingFresh'
  BY <1>10, <1>14, <1>15 DEF IInv, PendingFresh
<1>19. IdleOK'
  <2>1. \A v \in Users \ {u} : Active(v)' <=> Active(v)
    BY <1>10 DEF Active, Exists
  <2>2. profile'[u].points = 0
    BY <1>11 DEF NewProfile
  <2>. QED
    BY <1>6, <1>10, <1>14, <1>15, <2>1, <2>2 DEF IInv, IdleOK
<1>. QED
  BY <1>6, <1>13, <1>16, <1>17, <1>18, <1>19, EndStep

LEMMA CommitOnboardingStep ==
  ASSUME IInv, NEW r \in Requests, CommitOnboarding(r)
  PROVE  IInv'
<1>1. PICK u : u = input[r].user
  OBVIOUS
<1>2. PICK c : c = input[r].career
  OBVIOUS
<1>3. pc[r] = "member" /\ u \in Users /\ c \in Careers
  BY <1>1, <1>2, RequestTypes DEF CommitOnboarding, ControlAt, InputAt
<1>4. PICK old : old = snap[r].profile.clan
  OBVIOUS
<1>5. /\ End(r) /\ profile' = [profile EXCEPT ![u].clan = c]
      /\ members' = [members EXCEPT ![u] = (@ \ ({old} \ {c})) \cup {c}]
      /\ account' = account /\ logs' = logs /\ resets' = resets /\ formed' = formed
  BY <1>1, <1>2, <1>4 DEF CommitOnboarding
<1>6. TablesOK
  BY TablesTyped
<1>7. \A v \in Users : profile[v] \in Profiles
  BY <1>6 DEF TablesOK
<1>8. /\ profile' \in [Users -> Profiles] /\ members' \in [Users -> SUBSET Careers]
      /\ \A v \in Users : /\ profile'[v].points = profile[v].points
                          /\ profile'[v].item = profile[v].item
  BY <1>3, <1>5, <1>6, <1>7 DEF TablesOK, Profiles
<1>9. TablesOK'
  BY <1>5, <1>6, <1>8 DEF TablesOK
<1>10. /\ \A v \in Users : Pending(v)' = Pending(v) /\ (Active(v)' <=> Active(v))
       /\ \A v \in Users : Exists(v)' <=> Exists(v)
  BY <1>5 DEF Pending, Active, Exists
<1>11. Rely(r)
  BY <1>5, <1>8, <1>10 DEF Rely, Worth
<1>12. PeriodsOK' /\ PendingFresh'
  BY <1>5, <1>10 DEF IInv, PeriodsOK, PendingFresh
<1>13. IdleOK'
  BY <1>5, <1>8, <1>10 DEF IInv, IdleOK
<1>. QED
  BY <1>5, <1>9, <1>11, <1>12, <1>13, EndStep

LEMMA SubmitStep ==
  ASSUME IInv, NEW r \in Requests, Submit(r)
  PROVE  IInv'
<1>1. PICK u : u = input[r].user
  OBVIOUS
<1>2. PICK s : s = input[r].slot
  OBVIOUS
<1>3. /\ pc[r] = "submit" /\ u \in Users /\ s \in Slots /\ Exists(u)
      /\ snap[r] \in Snapshots
  BY <1>1, <1>2, RequestTypes DEF Submit, ControlAt, InputAt
<1>4. /\ Free(r, UserRow(u), "nokey") /\ End(r) /\ account' = account /\ profile' = profile
      /\ members' = members /\ resets' = resets /\ formed' = formed
  BY <1>1 DEF Submit
<1>5. CASE logs' = logs
  BY <1>4, <1>5, EndOnly DEF tables
<1>6. CASE logs' # logs
  <2>1. /\ account[u].active /\ resets[u] = snap[r].period /\ logs[u][s] = NoLog
        /\ logs' = [logs EXCEPT ![u][s] = [status |-> "PENDING", period |-> snap[r].period]]
    BY <1>1, <1>2, <1>6 DEF Submit
  <2>2. TablesOK
    BY TablesTyped
  <2>3. PICK log : log = [status |-> "PENDING", period |-> snap[r].period]
    OBVIOUS
  <2>4. log \in Logs /\ log.status = "PENDING" /\ log.period = resets[u]
    BY <1>3, <2>1, <2>3 DEF Logs, Snapshots
  <2>5. /\ logs' \in [Users -> [Slots -> Logs]] /\ logs'[u][s] = log
        /\ \A v \in Users, t \in Slots : v # u \/ t # s => logs'[v][t] = logs[v][t]
    BY <1>3, <2>1, <2>2, <2>3, <2>4 DEF TablesOK
  <2>6. TablesOK'
    BY <1>4, <2>2, <2>5 DEF TablesOK
  <2>7. \A v \in Users \ {u} : Pending(v)' = Pending(v)
    BY <2>5 DEF Pending
  <2>8. \A v \in Users : (Active(v)' <=> Active(v)) /\ (Exists(v)' <=> Exists(v))
    BY <1>4 DEF Active, Exists
  <2>9. Rely(r)
    <3>1. \A q \in Requests \ {r} : ~Owns(q, u)
      BY <1>3, <1>4, NotOwned
    <3>2. logs[u][s].status = "NONE"
      BY <2>1 DEF NoLog
    <3>. QED
      BY <1>4, <2>5, <2>7, <2>8, <3>1, <3>2 DEF Rely
  <2>10. PeriodsOK' /\ PendingFresh'
    <3>1. resets[u] \in Nat
      BY <1>3, <2>2 DEF TablesOK
    <3>2. PeriodsOK'
      BY <1>4, <2>4, <2>5, <3>1 DEF IInv, PeriodsOK
    <3>3. PendingFresh'
      BY <1>4, <2>4, <2>5 DEF IInv, PendingFresh, Pending
    <3>. QED
      BY <3>2, <3>3
  <2>11. IdleOK'
    <3>1. Active(u)
      BY <1>3, <2>1 DEF Active
    <3>. QED
      BY <1>4, <2>7, <2>8, <3>1 DEF IInv, IdleOK
  <2>. QED
    BY <1>4, <2>6, <2>9, <2>10, <2>11, EndStep
<1>. QED
  BY <1>5, <1>6

(* What an audit writes: the log it has locked, and one point. *)
AuditWrote(r, u, s) ==
  /\ pc[r] = "award" /\ u \in Users /\ s \in Slots /\ Exists(u)
  /\ input[r].op \in {"approve", "revoke"}
  /\ logs[u][s].status = Wanted(input[r])
  /\ <<LogRow(u, s), "update">> \in held[r] /\ <<ProfileRow(u), "nokey">> \in held[r]
  /\ input[r].op = "revoke" => profile[u].points >= 1
  /\ logs' \in [Users -> [Slots -> Logs]] /\ profile' \in [Users -> Profiles]
  /\ input[r].op = "approve" => logs'[u][s].status = "APPROVED"
  /\ input[r].op = "revoke" => logs'[u][s].status = "REJECTED"
  /\ logs'[u][s].period = logs[u][s].period
  /\ \A v \in Users, t \in Slots : v # u \/ t # s => logs'[v][t] = logs[v][t]
  /\ input[r].op = "approve" => profile'[u].points = profile[u].points + 1
  /\ input[r].op = "revoke" => profile'[u].points = profile[u].points - 1
  /\ profile'[u].item = profile[u].item
  /\ \A v \in Users \ {u} : profile'[v] = profile[v]

LEMMA AuditWrites ==
  ASSUME IInv, NEW r \in Requests, CommitAudit(r),
         NEW u, u = input[r].user, NEW s, s = input[r].slot
  PROVE  AuditWrote(r, u, s)
<1>1. /\ pc[r] = "award" /\ u \in Users /\ s \in Slots /\ Exists(u)
      /\ input[r].op \in {"approve", "revoke"}
  BY RequestTypes DEF CommitAudit, ControlAt, InputAt
<1>2. AuditOK(r) /\ TablesOK
  BY TablesTyped DEF IInv, HandlersOK
<1>3. PICK status : status = IF input[r].op = "approve" THEN "APPROVED" ELSE "REJECTED"
  OBVIOUS
<1>4. PICK points : points = IF input[r].op = "approve" THEN profile[u].points + 1
                             ELSE profile[u].points - 1
  OBVIOUS
<1>5. /\ logs' = [logs EXCEPT ![u][s].status = status]
      /\ profile' = [profile EXCEPT ![u].points = points]
  BY <1>3, <1>4 DEF CommitAudit
<1>6. logs[u][s] \in Logs /\ profile[u] \in Profiles
  BY <1>1, <1>2 DEF TablesOK
<1>7. status \in {"APPROVED", "REJECTED"} /\ points \in Int
  BY <1>3, <1>4, <1>6 DEF Profiles
<1>8. PICK log : log = [logs[u][s] EXCEPT !.status = status]
  OBVIOUS
<1>9. log \in Logs /\ log = [status |-> status, period |-> logs[u][s].period]
  BY <1>6, <1>7, <1>8 DEF Logs
<1>10. logs' = [logs EXCEPT ![u] = [logs[u] EXCEPT ![s] = log]]
  BY <1>5, <1>8
<1>11. /\ logs' \in [Users -> [Slots -> Logs]] /\ logs'[u][s] = log
       /\ \A v \in Users, t \in Slots : v # u \/ t # s => logs'[v][t] = logs[v][t]
  BY <1>1, <1>2, <1>9, <1>10 DEF TablesOK
<1>12. PICK p : p = [profile[u] EXCEPT !.points = points]
  OBVIOUS
<1>13. p \in Profiles /\ p.points = points /\ p.item = profile[u].item
  BY <1>6, <1>7, <1>12 DEF Profiles
<1>14. profile' = [profile EXCEPT ![u] = p]
  BY <1>5, <1>12
<1>15. /\ profile' \in [Users -> Profiles] /\ profile'[u] = p
       /\ \A v \in Users \ {u} : profile'[v] = profile[v]
  BY <1>1, <1>2, <1>13, <1>14 DEF TablesOK
<1>16. /\ logs[u][s].status = Wanted(input[r])
       /\ <<LogRow(u, s), "update">> \in held[r] /\ <<ProfileRow(u), "nokey">> \in held[r]
       /\ input[r].op = "revoke" => profile[u].points >= 1
  BY <1>1, <1>2 DEF AuditOK
<1>. QED
  BY <1>1, <1>3, <1>4, <1>9, <1>11, <1>13, <1>15, <1>16 DEF AuditWrote

LEMMA CommitAuditStep ==
  ASSUME IInv, NEW r \in Requests, CommitAudit(r)
  PROVE  IInv'
<1>1. PICK u : u = input[r].user
  OBVIOUS
<1>2. PICK s : s = input[r].slot
  OBVIOUS
<1>3. AuditWrote(r, u, s)
  BY <1>1, <1>2, AuditWrites
<1>5. logs'[u][s].status # "PENDING" /\ logs'[u][s].period = logs[u][s].period
  BY <1>3 DEF AuditWrote
<1>6. /\ Free(r, UserRow(u), "share") /\ End(r) /\ account' = account
      /\ members' = members /\ resets' = resets /\ formed' = formed
  BY <1>1 DEF CommitAudit
<1>7. TablesOK'
  BY <1>3, <1>6, TablesTyped DEF AuditWrote, TablesOK
<1>8. /\ \A v \in Users : Pending(v)' \subseteq Pending(v)
      /\ \A v \in Users : (Active(v)' <=> Active(v)) /\ (Exists(v)' <=> Exists(v))
  BY <1>3, <1>5, <1>6 DEF AuditWrote, Pending, Active, Exists
<1>9. Rely(r)
  <2>1. \A q \in Requests \ {r} : ~(Saving(q) /\ snap[q].on = u)
    BY <1>3, <1>6, NotSaved DEF AuditWrote
  <2>2. \A q \in Requests \ {r} : <<ProfileRow(u), "nokey">> \notin held[q]
    BY <1>3, NotHeld DEF AuditWrote
  <2>3. \A q \in Requests \ {r} : <<LogRow(u, s), "update">> \notin held[q]
    BY <1>3, LogNotHeld DEF AuditWrote
  <2>. QED
    BY <1>3, <1>6, <1>8, <2>1, <2>2, <2>3 DEF AuditWrote, Rely
<1>10. PeriodsOK'
  BY <1>3, <1>5, <1>6 DEF AuditWrote, IInv, PeriodsOK
<1>11. PendingFresh'
  <2>1. \A v \in Users : \A t \in Pending(v)' : t \in Pending(v) /\ logs'[v][t].period = logs[v][t].period
    BY <1>3, <1>5, <1>8 DEF AuditWrote, Pending
  <2>. QED
    BY <1>6, <2>1 DEF IInv, PendingFresh
<1>12. IdleOK'
  <2>1. ~(~Active(u) /\ formed[u] = "never")
    <3>1. CASE input[r].op = "approve"
      <4>1. s \in Pending(u)
        BY <1>3, <3>1 DEF AuditWrote, Wanted, Pending
      <4>. QED
        BY <1>3, <4>1 DEF AuditWrote, IInv, IdleOK
    <3>2. CASE input[r].op = "revoke"
      <4>1. profile[u].points # 0
        BY <1>3, <3>2 DEF AuditWrote
      <4>. QED
        BY <1>3, <4>1 DEF AuditWrote, IInv, IdleOK
    <3>. QED
      BY <1>3, <3>1, <3>2 DEF AuditWrote
  <2>. QED
    BY <1>3, <1>6, <1>8, <2>1 DEF AuditWrote, IInv, IdleOK
<1>. QED
  BY <1>6, <1>7, <1>9, <1>10, <1>11, <1>12, EndStep

(* What a purchase writes: the item for a point, or nothing. *)
LEMMA RedeemWrites ==
  ASSUME IInv, NEW r \in Requests, Redeem(r), NEW u, u = input[r].user, profile' # profile
  PROVE  /\ u \in Users /\ ~profile[u].item /\ profile[u].points >= 1
         /\ profile' \in [Users -> Profiles]
         /\ profile'[u].points = profile[u].points - 1 /\ profile'[u].item
         /\ Worth(profile'[u]) = Worth(profile[u])
         /\ \A v \in Users \ {u} : profile'[v] = profile[v]
<1>1. u \in Users
  BY RequestTypes DEF Redeem
<1>2. /\ ~profile[u].item /\ profile[u].points >= 1
      /\ profile' = [profile EXCEPT ![u].points = @ - 1, ![u].item = TRUE]
  BY DEF Redeem
<1>3. profile \in [Users -> Profiles] /\ profile[u] \in Profiles
  BY <1>1, TablesTyped DEF TablesOK
<1>0. PICK points : points = profile[u].points - 1
  OBVIOUS
<1>4. PICK p : p = [profile[u] EXCEPT !.points = points, !.item = TRUE]
  OBVIOUS
<1>5. p \in Profiles /\ p.points = profile[u].points - 1 /\ p.item
  <2>1. points \in Int
    BY <1>0, <1>3 DEF Profiles
  <2>. QED
    BY <1>0, <1>3, <1>4, <2>1 DEF Profiles
<1>6. profile' = [profile EXCEPT ![u] = p]
  BY <1>0, <1>1, <1>2, <1>3, <1>4
<1>7. profile'[u] = p /\ profile' \in [Users -> Profiles]
      /\ \A v \in Users \ {u} : profile'[v] = profile[v]
  BY <1>1, <1>3, <1>5, <1>6
<1>8. Worth(p) = Worth(profile[u])
  BY <1>2, <1>3, <1>5 DEF Worth, Profiles
<1>. QED
  BY <1>1, <1>2, <1>5, <1>7, <1>8

LEMMA RedeemStep ==
  ASSUME IInv, NEW r \in Requests, Redeem(r)
  PROVE  IInv'
<1>1. PICK u : u = input[r].user
  OBVIOUS
<1>2. /\ Free(r, ProfileRow(u), "update") /\ End(r) /\ account' = account
      /\ members' = members /\ logs' = logs /\ resets' = resets /\ formed' = formed
  BY <1>1 DEF Redeem
<1>3. CASE profile' = profile
  BY <1>2, <1>3, EndOnly DEF tables
<1>4. CASE profile' # profile
  <2>1. /\ u \in Users /\ profile[u].points >= 1 /\ profile' \in [Users -> Profiles]
        /\ Worth(profile'[u]) = Worth(profile[u])
        /\ \A v \in Users \ {u} : profile'[v] = profile[v]
    BY <1>1, <1>4, RedeemWrites
  <2>2. TablesOK'
    BY <1>2, <2>1, TablesTyped DEF TablesOK
  <2>3. \A v \in Users : /\ Pending(v)' = Pending(v) /\ (Active(v)' <=> Active(v))
                         /\ Exists(v)' <=> Exists(v)
    BY <1>2 DEF Pending, Active, Exists
  <2>4. Rely(r)
    <3>1. \A q \in Requests \ {r} : <<ProfileRow(u), "nokey">> \notin held[q]
      BY <1>2, NotHeld
    <3>. QED
      BY <1>2, <2>1, <2>3, <3>1 DEF Rely
  <2>5. PeriodsOK' /\ PendingFresh'
    BY <1>2, <2>3 DEF IInv, PeriodsOK, PendingFresh
  <2>6. IdleOK'
    <3>1. profile[u].points # 0
      BY <2>1
    <3>. QED
      BY <1>2, <2>1, <2>3, <3>1 DEF IInv, IdleOK
  <2>. QED
    BY <1>2, <2>2, <2>4, <2>5, <2>6, EndStep
<1>. QED
  BY <1>3, <1>4

--------------------------------------------------------------------------------
(* The invariant is inductive. *)

LEMMA InitInv ==
  Init => IInv
<1>1. SUFFICES ASSUME Init PROVE IInv
  OBVIOUS
<1>2. TablesOK /\ mix \in Workloads
  <2>1. NewProfile \in Profiles /\ NoLog \in Logs
    BY DEF NewProfile, Profiles, NoLog, Logs
  <2>2. account \in [Users -> AccountRows \cup {NoAccount}]
    BY <1>1, AccountAssumption DEF Init
  <2>. QED
    BY <1>1, <2>1, <2>2 DEF Init, TablesOK
<1>3. \A r \in Requests : pc[r] = "idle" /\ input[r] = NoInput /\ held[r] = {}
  BY <1>1 DEF Init
<1>4. pc \in [Requests -> Labels] /\ snap \in [Requests -> Snapshots]
      /\ DOMAIN input = Requests /\ DOMAIN held = Requests
  BY <1>1, BlankTyped DEF Init, Labels
<1>5. InputAt(NoInput) /\ ControlAt("idle", NoInput) /\ NoInput.op = None
  BY AccountAssumption DEF InputAt, ControlAt, NoInput, AllOps
<1>6. RequestsOK
  BY <1>3, <1>4, <1>5 DEF RequestsOK
<1>7. TypeOK
  <2>1. \A r \in Requests : input[r].op = "login" => input[r].login \in ExternalIdentity
    BY <1>3, <1>5 DEF InputAt
  <2>. QED
    BY <1>2, <1>3, <1>4, <2>1 DEF TypeOK, TablesOK
<1>8. Compatible /\ KeysApart
  BY <1>3 DEF Compatible, KeysApart, Saving
<1>9. HandlersOK
  BY <1>3 DEF HandlersOK, SavingOK, Saving, CountingOK, Counting, FormOK, AuditOK
<1>10. \A u \in Users : /\ \A s \in Slots : logs[u][s] = NoLog
                        /\ resets[u] = 0 /\ profile[u] = NewProfile
  BY <1>1 DEF Init
<1>11. \A u \in Users : Pending(u) = {}
  BY <1>10 DEF Pending, NoLog
<1>12. PeriodsOK /\ PendingFresh /\ IdleOK
  BY <1>10, <1>11 DEF PeriodsOK, PendingFresh, IdleOK, NoLog, NewProfile
<1>. QED
  BY <1>6, <1>7, <1>8, <1>9, <1>12 DEF IInv

LEMMA NextInv ==
  IInv /\ [Next]_vars => IInv'
<1>1. SUFFICES ASSUME IInv, [Next]_vars PROVE IInv'
  OBVIOUS
<1>2. CASE UNCHANGED vars
  <2>1. /\ UNCHANGED tables
        /\ pc' = pc /\ input' = input /\ snap' = snap /\ held' = held /\ mix' = mix
    BY <1>2 DEF vars
  <2>2. /\ account' = account /\ profile' = profile /\ members' = members /\ logs' = logs
        /\ resets' = resets /\ formed' = formed
    BY <2>1 DEF tables
  <2>3. TypeOK' /\ RequestsOK' /\ Compatible' /\ KeysApart'
    BY <1>1, <2>1, <2>2 DEF IInv, TypeOK, RequestsOK, Compatible, KeysApart, Saving, Exists
  <2>4. HandlersOK'
    BY <1>1, <2>1, <2>2 DEF IInv, HandlersOK, SavingOK, Saving, CountingOK, Counting, FormOK,
       AuditOK, Wanted, Worth, Exists, ActiveAdmins, IsAdmin, LockMode, LastAdmin, Pending
  <2>5. PeriodsOK' /\ PendingFresh' /\ IdleOK'
    BY <1>1, <2>1, <2>2 DEF IInv, PeriodsOK, PendingFresh, IdleOK, Pending, Active, Exists
  <2>. QED
    BY <2>3, <2>4, <2>5 DEF IInv
<1>3. ASSUME NEW r \in Requests, Begin(r) \/ Abort(r) PROVE IInv'
  BY <1>1, <1>3, BeginStep, AbortStep
<1>4. ASSUME NEW r \in Requests, Step(r) PROVE IInv'
  <2>1. CASE FindByOid(r) \/ FindByEmail(r) \/ SaveUser(r) \/ ReadProfile(r) \/ CommitLogin(r)
    BY <1>1, <2>1, FindByOidStep, FindByEmailStep, SaveUserStep, ReadProfileStep, CommitLoginStep
  <2>2. CASE ListAdmins(r) \/ LockNext(r) \/ ChangeRole(r)
    BY <1>1, <2>2, ListAdminsStep, LockNextStep, ChangeRoleStep
  <2>3. CASE Wipe(r) \/ RejectPending(r) \/ CommitDeactivation(r)
    BY <1>1, <2>3, WipeStep, RejectPendingStep, CommitDeactivationStep
  <2>4. CASE FormLoad(r) \/ FormStore(r)
    BY <1>1, <2>4, FormLoadStep, FormStoreStep
  <2>5. CASE ReadCareer(r) \/ AssignClan(r) \/ CommitOnboarding(r)
    BY <1>1, <2>5, ReadCareerStep, AssignClanStep, CommitOnboardingStep
  <2>6. CASE Submit(r) \/ LockLog(r) \/ LockProfile(r) \/ CommitAudit(r)
    BY <1>1, <2>6, SubmitStep, LockLogStep, LockProfileStep, CommitAuditStep
  <2>7. CASE Redeem(r) \/ Answer(r)
    BY <1>1, <2>7, RedeemStep, AbortStep
  <2>. QED
    BY <1>4, <2>1, <2>2, <2>3, <2>4, <2>5, <2>6, <2>7 DEF Step
<1>. QED
  BY <1>1, <1>2, <1>3, <1>4 DEF Next

(* The invariant holds in every reachable state. *)
LEMMA InvHolds ==
  Spec => []IInv
<1>1. Init => IInv
  BY InitInv
<1>2. IInv /\ [Next]_vars => IInv'
  BY NextInv
<1>. QED
  BY <1>1, <1>2, PTL DEF Spec

(* Only eight statements write the tables. *)
LEMMA WritingSteps ==
  ASSUME [Next]_vars, ~UNCHANGED tables
  PROVE  \E r \in Requests :
           \/ CommitLogin(r) \/ ChangeRole(r) \/ CommitDeactivation(r) \/ FormStore(r)
           \/ CommitOnboarding(r) \/ Submit(r) \/ CommitAudit(r) \/ Redeem(r)
<1>1. ~UNCHANGED vars
  BY DEF vars
<1>2. PICK r \in Requests : Begin(r) \/ Step(r) \/ Abort(r)
  BY <1>1 DEF Next
<1>3. ~Begin(r) /\ ~Abort(r) /\ ~Answer(r)
  BY DEF Begin, Abort, Answer
<1>4. ~FindByOid(r) /\ ~FindByEmail(r) /\ ~SaveUser(r) /\ ~ReadProfile(r)
  BY DEF FindByOid, FindByEmail, SaveUser, ReadProfile, Locked, Fail
<1>5. ~ListAdmins(r) /\ ~LockNext(r) /\ ~Wipe(r) /\ ~RejectPending(r)
  BY DEF ListAdmins, LockNext, Wipe, RejectPending
<1>6. ~FormLoad(r) /\ ~ReadCareer(r) /\ ~AssignClan(r) /\ ~LockLog(r) /\ ~LockProfile(r)
  BY DEF FormLoad, ReadCareer, AssignClan, LockLog, LockProfile
<1>. QED
  BY <1>2, <1>3, <1>4, <1>5, <1>6 DEF Step

--------------------------------------------------------------------------------
(* The theorems. *)

(* The tables and the requests have their types, and the wipe of           *)
(* deactivate_account holds while the account is away: no audit or         *)
(* submission under way at the same time leaves points or a pending log.   *)
THEOREM ResetHoldsHolds ==
  Spec => []ResetHolds
<1>1. IInv => ResetHolds
  BY DEF IInv, ResetHolds, IdleOK, Away, Active
<1>. QED
  BY <1>1, InvHolds, PTL

(* No request made before a deactivation leaves a log to approve after it: *)
(* ensure_account_writable compares the request with the last reset.       *)
THEOREM PendingFreshHolds ==
  Spec => []PendingFresh
<1>1. IInv => PendingFresh
  BY DEF IInv
<1>. QED
  BY <1>1, InvHolds, PTL

(* A set inside a singleton has at most one element. *)
LEMMA AtMostOne ==
  ASSUME NEW u, NEW T, T \subseteq {u}
  PROVE  Cardinality(T) <= 1
<1>1. T = {} \/ T = {u}
  OBVIOUS
<1>2. Cardinality({}) = 0 /\ Cardinality({u}) = 1
  BY FS_EmptySet, FS_Singleton
<1>. QED
  BY <1>1, <1>2

(* An account that stays as it was, or stays an active ADMIN, remains. *)
LEMMA AdminKept ==
  ASSUME NEW a \in ActiveAdmins,
         \/ account'[a] = account[a]
         \/ account'[a] \in AccountRows /\ IsAdmin(account'[a])
  PROVE  ActiveAdmins' # {}
<1>1. account'[a] \in AccountRows => account'[a] # NoAccount
  BY RowExists
<1>2. a \in ActiveAdmins'
  BY <1>1 DEF ActiveAdmins, Exists, IsAdmin
<1>. QED
  BY <1>2

(* The last administrator is taken away only by the form. *)
LEMMA AdminsRemainStep ==
  ASSUME IInv, [Next]_vars, ActiveAdmins # {}, ActiveAdmins' = {}
  PROVE  \E r \in Requests : FormStore(r)
<1>1. PICK a : a \in ActiveAdmins
  OBVIOUS
<1>2. account'[a] # account[a] /\ a \in Users /\ account[a].role = "ADMIN" /\ account[a].active
  BY <1>1, AdminKept DEF ActiveAdmins, IsAdmin
<1>3. ~UNCHANGED tables
  BY <1>2 DEF tables
<1>4. PICK r \in Requests :
        \/ CommitLogin(r) \/ ChangeRole(r) \/ CommitDeactivation(r) \/ FormStore(r)
        \/ CommitOnboarding(r) \/ Submit(r) \/ CommitAudit(r) \/ Redeem(r)
  BY <1>3, WritingSteps
<1>5. ~CommitOnboarding(r) /\ ~Submit(r) /\ ~CommitAudit(r) /\ ~Redeem(r)
  BY <1>2 DEF CommitOnboarding, Submit, CommitAudit, Redeem
<1>6. account \in [Users -> AccountRows \cup {NoAccount}]
  BY TablesTyped DEF TablesOK
<1>7. ASSUME CommitLogin(r) PROVE FALSE
  <2>1. Saving(r) /\ SavingOK(r)
    BY <1>7 DEF CommitLogin, Saving, IInv, HandlersOK
  <2>2. account' = [account EXCEPT ![snap[r].on] = snap[r].row]
    BY <1>7 DEF CommitLogin
  <2>3. a = snap[r].on /\ account'[a] = snap[r].row
    BY <1>2, <1>6, <2>2
  <2>4. account'[a] \in AccountRows /\ IsAdmin(account'[a])
    BY <1>2, <2>1, <2>3 DEF SavingOK, IsAdmin
  <2>. QED
    BY <1>1, <2>4, AdminKept
<1>8. ASSUME \A b \in ActiveAdmins : b = a, pc[r] \in {"role", "reset"}, a = input[r].user,
             ~LastAdmin(r)
      PROVE  FALSE
  <2>1. snap[r].seen \subseteq {a} /\ snap[r].row.role = "ADMIN"
    BY <1>2, <1>8, Counted
  <2>2. Cardinality(snap[r].seen) <= 1
    BY <2>1, AtMostOne
  <2>. QED
    BY <1>8, <2>1, <2>2 DEF LastAdmin
<1>9. ASSUME ChangeRole(r) PROVE FALSE
  <2>1. pc[r] = "role" /\ input[r].user \in Users /\ input[r].role \in Roles
    BY <1>9, RequestTypes DEF ChangeRole, ControlAt, InputAt
  <2>2. PICK u : u = input[r].user
    OBVIOUS
  <2>3. /\ account' = [account EXCEPT ![u].role = input[r].role]
        /\ ~(LastAdmin(r) /\ input[r].role # "ADMIN")
    BY <1>2, <1>9, <2>2 DEF ChangeRole
  <2>4. \A v \in Users \ {u} : account'[v] = account[v]
    BY <1>6, <2>3
  <2>5. a = u /\ \A b \in ActiveAdmins : b = a
    BY <1>2, <2>4, AdminKept DEF ActiveAdmins
  <2>6. account[a] \in AccountRows
    BY <1>2, RowType
  <2>7. account'[a] = [account[a] EXCEPT !.role = input[r].role]
    BY <1>2, <1>6, <2>3, <2>5
  <2>8. input[r].role # "ADMIN"
    <3>1. SUFFICES ASSUME input[r].role = "ADMIN" PROVE FALSE
      OBVIOUS
    <3>2. account'[a] \in AccountRows /\ IsAdmin(account'[a])
      BY <1>2, <2>1, <2>6, <2>7, <3>1 DEF AccountRows, IsAdmin
    <3>. QED
      BY <1>1, <3>2, AdminKept
  <2>. QED
    BY <1>8, <2>1, <2>2, <2>3, <2>5, <2>8
<1>10. ASSUME CommitDeactivation(r) PROVE FALSE
  <2>1. pc[r] = "reset" /\ input[r].user \in Users
    BY <1>10, RequestTypes DEF CommitDeactivation
  <2>2. PICK u : u = input[r].user
    OBVIOUS
  <2>3. account' = [account EXCEPT ![u].active = FALSE, ![u].left = TRUE]
    BY <1>10, <2>2 DEF CommitDeactivation
  <2>4. \A v \in Users \ {u} : account'[v] = account[v]
    BY <1>6, <2>3
  <2>5. a = u /\ \A b \in ActiveAdmins : b = a
    BY <1>2, <2>4, AdminKept DEF ActiveAdmins
  <2>6. ~LastAdmin(r)
    BY <2>1 DEF IInv, HandlersOK, CountingOK, Counting
  <2>. QED
    BY <1>8, <2>1, <2>2, <2>5, <2>6
<1>. QED
  BY <1>4, <1>5, <1>7, <1>9, <1>10

(* Only the save of the admin form can take the last active administrator  *)
(* away: update_user_role and deactivate_account count the administrators  *)
(* under the locks of their rows, and a sign-in keeps an ADMIN.            *)
THEOREM AdminsRemainHolds ==
  Spec => AdminsRemain
<1>1. IInv /\ [Next]_vars
        => [ActiveAdmins # {} /\ ActiveAdmins' = {} => \E r \in Requests : FormStore(r)]_vars
  BY AdminsRemainStep
<1>. QED
  BY <1>1, InvHolds, PTL DEF Spec, AdminsRemain

(* A step that makes or unmakes an ADMIN. *)
LEMMA AdminsAuditedStep ==
  ASSUME IInv, [Next]_vars, NEW u \in Users, Exists(u),
         (account[u].role = "ADMIN") # (account'[u].role = "ADMIN")
  PROVE  \/ \E r \in Requests : FormStore(r) /\ input[r].user = u
         \/ \E r \in Requests : ChangeRole(r) /\
              RoleAudit(r) = [user |-> u, previous_role |-> account[u].role,
                              new_role |-> account'[u].role]
<1>1. account'[u] # account[u]
  OBVIOUS
<1>2. ~UNCHANGED tables
  BY <1>1 DEF tables
<1>3. PICK r \in Requests :
        \/ CommitLogin(r) \/ ChangeRole(r) \/ CommitDeactivation(r) \/ FormStore(r)
        \/ CommitOnboarding(r) \/ Submit(r) \/ CommitAudit(r) \/ Redeem(r)
  BY <1>2, WritingSteps
<1>4. ~CommitOnboarding(r) /\ ~Submit(r) /\ ~CommitAudit(r) /\ ~Redeem(r)
  BY <1>1 DEF CommitOnboarding, Submit, CommitAudit, Redeem
<1>5. account \in [Users -> AccountRows \cup {NoAccount}] /\ account[u] \in AccountRows
  BY TablesTyped, RowType DEF TablesOK
<1>6. ASSUME CommitLogin(r) PROVE FALSE
  <2>1. Saving(r) /\ SavingOK(r)
    BY <1>6 DEF CommitLogin, Saving, IInv, HandlersOK
  <2>2. account' = [account EXCEPT ![snap[r].on] = snap[r].row]
    BY <1>6 DEF CommitLogin
  <2>3. u = snap[r].on /\ account'[u] = snap[r].row
    BY <1>1, <1>5, <2>2
  <2>. QED
    BY <2>1, <2>3 DEF SavingOK
<1>7. ASSUME CommitDeactivation(r) PROVE FALSE
  <2>1. PICK v : v = input[r].user
    OBVIOUS
  <2>2. account' = [account EXCEPT ![v].active = FALSE, ![v].left = TRUE]
    BY <1>7, <2>1 DEF CommitDeactivation
  <2>3. account'[u].role = account[u].role
    BY <1>5, <2>2 DEF AccountRows
  <2>. QED
    BY <2>3
<1>8. ASSUME FormStore(r) PROVE input[r].user = u
  BY <1>1, <1>5, <1>8 DEF FormStore
<1>9. ASSUME ChangeRole(r)
      PROVE  RoleAudit(r) = [user |-> u, previous_role |-> account[u].role,
                             new_role |-> account'[u].role]
  <2>1. PICK v : v = input[r].user
    OBVIOUS
  <2>2. account' = [account EXCEPT ![v].role = input[r].role]
    BY <1>1, <1>9, <2>1 DEF ChangeRole
  <2>3. v = u
    BY <1>1, <1>5, <2>2
  <2>4. account'[u].role = input[r].role
    BY <1>5, <2>2, <2>3 DEF AccountRows
  <2>5. snap[r].row.role = account[u].role
    <3>1. pc[r] = "role"
      BY <1>9 DEF ChangeRole
    <3>2. snap[r].row.role = account[input[r].user].role
      BY <3>1, Counted
    <3>. QED
      BY <2>1, <2>3, <3>2
  <2>. QED
    BY <2>1, <2>3, <2>4, <2>5 DEF RoleAudit
<1>. QED
  BY <1>3, <1>4, <1>6, <1>7, <1>8, <1>9

(* Outside the admin form an account becomes or stops being an ADMIN only  *)
(* in update_user_role, with a UserRoleAudit that names the role it really *)
(* had: sign-ins and deactivations never change who is an administrator.   *)
THEOREM AdminsAuditedHolds ==
  Spec => AdminsAudited
<1>1. IInv /\ [Next]_vars =>
        [\A u \in Users :
           Exists(u) /\ (account[u].role = "ADMIN") # (account'[u].role = "ADMIN") =>
             \/ \E r \in Requests : FormStore(r) /\ input[r].user = u
             \/ \E r \in Requests : ChangeRole(r) /\
                  RoleAudit(r) = [user |-> u, previous_role |-> account[u].role,
                                  new_role |-> account'[u].role]]_vars
  BY AdminsAuditedStep
<1>. QED
  BY <1>1, InvHolds, PTL DEF Spec, AdminsAudited

--------------------------------------------------------------------------------
(* Points and careers. *)

(* The logs that count for the balance of an account. *)
Counts(u, s) == logs[u][s] = [status |-> "APPROVED", period |-> resets[u]]

(* What was earned is the number of logs that count. *)
LEMMA EarnedCounts ==
  ASSUME NEW u
  PROVE  /\ Earned(u) = Cardinality({s \in Slots : Counts(u, s)})
         /\ IsFiniteSet({s \in Slots : Counts(u, s)}) /\ Earned(u) \in Nat
<1>1. Earned(u) = Cardinality({s \in Slots : Counts(u, s)})
  BY DEF Earned, Counts
<1>2. IsFiniteSet({s \in Slots : Counts(u, s)})
  BY AccountAssumption, FS_Subset
<1>. QED
  BY <1>1, <1>2, FS_CardinalityType

(* A log counts if it is approved in the current period. *)
LEMMA CountsFields ==
  ASSUME TablesOK, NEW u \in Users, NEW s \in Slots
  PROVE  Counts(u, s) <=> logs[u][s].status = "APPROVED" /\ logs[u][s].period = resets[u]
<1>1. logs[u][s] \in Logs
  BY DEF TablesOK
<1>. QED
  BY <1>1 DEF Counts, Logs

(* A balance moves with what was earned and what the profile is worth. *)
LEMMA BalancedWorth ==
  ASSUME NEW u
  PROVE  Balanced(u) <=> Worth(profile[u]) = Earned(u)
  BY DEF Balanced, Worth

LEMMA WorthType ==
  ASSUME NEW p \in Profiles
  PROVE  Worth(p) \in Int
  BY DEF Worth, Profiles

(* Nothing earned and nothing of value changed. *)
LEMMA BalanceSame ==
  ASSUME NEW u, Worth(profile'[u]) = Worth(profile[u]),
         \A s \in Slots : Counts(u, s)' <=> Counts(u, s), Balanced(u)
  PROVE  Balanced(u)'
<1>1. {s \in Slots : Counts(u, s)'} = {s \in Slots : Counts(u, s)}
  OBVIOUS
<1>2. Earned(u)' = Cardinality({s \in Slots : Counts(u, s)'})
  BY DEF Earned, Counts
<1>3. Earned(u)' = Earned(u)
  BY <1>1, <1>2, EarnedCounts
<1>4. Worth(profile[u]) = Earned(u)
  BY BalancedWorth
<1>5. Worth(profile'[u]) = Earned(u)'
  BY <1>3, <1>4
<1>. QED
  BY <1>5 DEF Balanced, Worth

(* An approval earns the point it credits; the revocation of a log of this *)
(* period takes both back.                                                 *)
LEMMA AuditBalanced ==
  ASSUME IInv, NEW r \in Requests, CommitAudit(r), NEW u \in Users, Balanced(u),
         ~RevokesOldLog(r, u)
  PROVE  Balanced(u)'
<1>1. PICK v : v = input[r].user
  OBVIOUS
<1>2. PICK s : s = input[r].slot
  OBVIOUS
<1>3. AuditWrote(r, v, s)
  BY <1>1, <1>2, AuditWrites
<1>4. resets' = resets /\ account' = account /\ members' = members /\ formed' = formed
  BY DEF CommitAudit
<1>5. TablesOK /\ TablesOK'
  BY <1>3, <1>4, TablesTyped DEF AuditWrote, TablesOK
<1>6. \A w \in Users, t \in Slots : w # v \/ t # s => (Counts(w, t)' <=> Counts(w, t))
  BY <1>3, <1>4 DEF AuditWrote, Counts
<1>7. CASE u # v
  BY <1>3, <1>6, <1>7, BalanceSame DEF AuditWrote
<1>8. CASE u = v
  <2>1. PICK S : S = {t \in Slots : Counts(u, t)}
    OBVIOUS
  <2>2. PICK T : T = {t \in Slots : Counts(u, t)'}
    OBVIOUS
  <2>3. IsFiniteSet(S) /\ Earned(u) = Cardinality(S) /\ Cardinality(S) \in Nat
    BY <2>1, EarnedCounts
  <2>4. Earned(u)' = Cardinality(T)
    BY <2>2 DEF Earned, Counts
  <2>5. profile[u].points + (IF profile[u].item THEN 1 ELSE 0) = Cardinality(S)
    BY <2>3 DEF Balanced
  <2>6. profile[u] \in Profiles /\ profile[u].points \in Int
    BY <1>5 DEF TablesOK, Profiles
  <2>7. Counts(u, s) <=> logs[u][s].status = "APPROVED" /\ logs[u][s].period = resets[u]
    BY <1>3, <1>5, CountsFields DEF AuditWrote
  <2>8. Counts(u, s)' <=> logs'[u][s].status = "APPROVED" /\ logs'[u][s].period = resets'[u]
    <3>1. logs'[u][s] \in Logs
      BY <1>3 DEF AuditWrote
    <3>. QED
      BY <3>1 DEF Counts, Logs
  <2>9. CASE input[r].op = "approve"
    <3>1. s \in Pending(u)
      BY <1>3, <1>8, <2>9 DEF AuditWrote, Wanted, Pending
    <3>2. logs[u][s].period = resets[u]
      BY <3>1 DEF IInv, PendingFresh
    <3>3. ~Counts(u, s) /\ Counts(u, s)'
      BY <1>3, <1>4, <1>8, <2>7, <2>8, <2>9, <3>2 DEF AuditWrote, Wanted
    <3>4. T = S \cup {s} /\ s \notin S
      BY <1>3, <1>6, <1>8, <2>1, <2>2, <3>3 DEF AuditWrote
    <3>5. Cardinality(T) = Cardinality(S) + 1
      BY <2>3, <3>4, FS_AddElement
    <3>6. profile'[u].points = profile[u].points + 1 /\ profile'[u].item = profile[u].item
      BY <1>3, <1>8, <2>9 DEF AuditWrote
    <3>7. profile'[u].points + (IF profile'[u].item THEN 1 ELSE 0) = Cardinality(T)
      BY <2>3, <2>5, <2>6, <3>5, <3>6
    <3>. QED
      BY <2>4, <3>7 DEF Balanced
  <2>10. CASE input[r].op = "revoke"
    <3>1. logs[u][s].period = resets[u]
      BY <1>1, <1>2, <1>3, <1>8, <2>10 DEF AuditWrote, RevokesOldLog
    <3>2. Counts(u, s) /\ ~Counts(u, s)'
      BY <1>3, <1>8, <2>7, <2>8, <2>10, <3>1 DEF AuditWrote, Wanted
    <3>3. T = S \ {s} /\ s \in S
      BY <1>3, <1>6, <1>8, <2>1, <2>2, <3>2 DEF AuditWrote
    <3>4. Cardinality(T) = Cardinality(S) - 1
      BY <2>3, <3>3, FS_RemoveElement
    <3>5. profile'[u].points = profile[u].points - 1 /\ profile'[u].item = profile[u].item
      BY <1>3, <1>8, <2>10 DEF AuditWrote
    <3>6. profile'[u].points + (IF profile'[u].item THEN 1 ELSE 0) = Cardinality(T)
      BY <2>3, <2>5, <2>6, <3>4, <3>5
    <3>. QED
      BY <2>4, <3>6 DEF Balanced
  <2>. QED
    BY <1>3, <2>9, <2>10 DEF AuditWrote
<1>. QED
  BY <1>7, <1>8

(* After a reset nothing counts: no log is of a period that only begins. *)
LEMMA ResetBalanced ==
  ASSUME IInv, NEW r \in Requests, CommitDeactivation(r), NEW u \in Users, u = input[r].user
  PROVE  Balanced(u)'
<1>1. TablesOK
  BY TablesTyped
<1>2. profile'[u] = NewProfile /\ resets'[u] = resets[u] + 1 /\ resets[u] \in Nat
  BY <1>1 DEF CommitDeactivation, TablesOK
<1>3. PICK rejects : rejects = {s \in Slots : <<LogRow(u, s), "nokey">> \in held[r]}
  OBVIOUS
<1>4. logs'[u] = [s \in Slots |->
                    IF s \in rejects THEN [logs[u][s] EXCEPT !.status = "REJECTED"]
                    ELSE logs[u][s]]
  BY <1>1, <1>3 DEF CommitDeactivation, TablesOK
<1>5. ASSUME NEW s \in Slots PROVE ~Counts(u, s)'
  <2>1. logs[u][s] \in Logs /\ logs[u][s].period <= resets[u] /\ logs[u][s].period \in Nat
    BY <1>1 DEF TablesOK, IInv, PeriodsOK, Logs
  <2>2. logs'[u][s].period = logs[u][s].period
    BY <1>4, <2>1 DEF Logs
  <2>3. logs'[u][s].period # resets'[u]
    BY <1>2, <2>1, <2>2
  <2>. QED
    BY <2>3 DEF Counts
<1>6. {s \in Slots : Counts(u, s)'} = {}
  BY <1>5
<1>7. Earned(u)' = 0
  BY <1>6, FS_EmptySet DEF Earned, Counts
<1>. QED
  BY <1>2, <1>7 DEF Balanced, NewProfile

(* The step that breaks a balance revokes a log of an earlier period. *)
LEMMA CreditKeptStep ==
  ASSUME IInv, [Next]_vars, NEW u \in Users, Balanced(u), ~Balanced(u)'
  PROVE  \E r \in Requests : RevokesOldLog(r, u) /\ CommitAudit(r)
<1>1. TablesOK
  BY TablesTyped
<1>2. ASSUME Worth(profile'[u]) = Worth(profile[u]), logs'[u] = logs[u], resets'[u] = resets[u]
      PROVE  FALSE
  <2>1. \A s \in Slots : Counts(u, s)' <=> Counts(u, s)
    BY <1>2 DEF Counts
  <2>. QED
    BY <1>2, <2>1, BalanceSame
<1>3. ~UNCHANGED tables
  BY <1>2 DEF tables
<1>4. PICK r \in Requests :
        \/ CommitLogin(r) \/ ChangeRole(r) \/ CommitDeactivation(r) \/ FormStore(r)
        \/ CommitOnboarding(r) \/ Submit(r) \/ CommitAudit(r) \/ Redeem(r)
  BY <1>3, WritingSteps
<1>5. ~ChangeRole(r) /\ ~FormStore(r)
  BY <1>2 DEF ChangeRole, FormStore
<1>6. ASSUME CommitLogin(r) PROVE FALSE
  <2>1. Saving(r) /\ SavingOK(r) /\ pc[r] = "write"
    BY <1>6 DEF CommitLogin, Saving, IInv, HandlersOK
  <2>2. /\ profile' = [profile EXCEPT ![snap[r].on] = snap[r].profile]
        /\ logs' = logs /\ resets' = resets
    BY <1>6 DEF CommitLogin
  <2>3. Worth(snap[r].profile) = Worth(profile[snap[r].on])
    BY <2>1 DEF SavingOK
  <2>4. Worth(profile'[u]) = Worth(profile[u])
    BY <1>1, <2>2, <2>3 DEF TablesOK
  <2>. QED
    BY <1>2, <2>2, <2>4
<1>7. ASSUME CommitDeactivation(r) PROVE FALSE
  <2>1. CASE u = input[r].user
    BY <1>7, <2>1, ResetBalanced
  <2>2. CASE u # input[r].user
    <3>1. profile'[u] = profile[u] /\ logs'[u] = logs[u] /\ resets'[u] = resets[u]
      BY <1>1, <1>7, <2>2 DEF CommitDeactivation, TablesOK
    <3>. QED
      BY <1>2, <3>1
  <2>. QED
    BY <2>1, <2>2
<1>8. ASSUME CommitOnboarding(r) PROVE FALSE
  <2>1. PICK v : v = input[r].user
    OBVIOUS
  <2>2. /\ profile' = [profile EXCEPT ![v].clan = input[r].career]
        /\ logs' = logs /\ resets' = resets
    BY <1>8, <2>1 DEF CommitOnboarding
  <2>3. profile'[u].points = profile[u].points /\ profile'[u].item = profile[u].item
    BY <1>1, <2>2 DEF TablesOK, Profiles
  <2>. QED
    BY <1>2, <2>2, <2>3 DEF Worth
<1>9. ASSUME Submit(r) PROVE FALSE
  <2>1. PICK v : v = input[r].user
    OBVIOUS
  <2>2. PICK s : s = input[r].slot
    OBVIOUS
  <2>3. v \in Users /\ s \in Slots
    BY <1>9, <2>1, <2>2, RequestTypes DEF Submit, ControlAt, InputAt
  <2>4. profile' = profile /\ resets' = resets
    BY <1>9 DEF Submit
  <2>5. CASE logs' = logs
    BY <1>2, <2>4, <2>5
  <2>6. CASE logs' # logs
    <3>1. /\ logs[v][s] = NoLog
          /\ logs' = [logs EXCEPT ![v][s] = [status |-> "PENDING", period |-> snap[r].period]]
      BY <1>9, <2>1, <2>2, <2>6 DEF Submit
    <3>2. /\ logs'[v][s] = [status |-> "PENDING", period |-> snap[r].period]
          /\ \A w \in Users, t \in Slots : w # v \/ t # s => logs'[w][t] = logs[w][t]
      BY <1>1, <2>3, <3>1 DEF TablesOK
    <3>3. ~Counts(v, s) /\ ~Counts(v, s)'
      BY <3>1, <3>2 DEF Counts, NoLog
    <3>4. \A t \in Slots : Counts(u, t)' <=> Counts(u, t)
      BY <2>4, <3>2, <3>3 DEF Counts
    <3>. QED
      BY <2>4, <3>4, BalanceSame
  <2>. QED
    BY <2>5, <2>6
<1>10. ASSUME Redeem(r) PROVE FALSE
  <2>1. logs' = logs /\ resets' = resets
    BY <1>10 DEF Redeem
  <2>2. PICK v : v = input[r].user
    OBVIOUS
  <2>3. CASE profile' = profile
    BY <1>2, <2>1, <2>3
  <2>4. CASE profile' # profile
    <3>1. /\ Worth(profile'[v]) = Worth(profile[v])
          /\ \A w \in Users \ {v} : profile'[w] = profile[w]
      BY <1>10, <2>2, <2>4, RedeemWrites
    <3>2. Worth(profile'[u]) = Worth(profile[u])
      BY <3>1
    <3>. QED
      BY <1>2, <2>1, <3>2
  <2>. QED
    BY <2>3, <2>4
<1>11. ASSUME CommitAudit(r) PROVE RevokesOldLog(r, u)
  BY <1>11, AuditBalanced
<1>. QED
  BY <1>4, <1>5, <1>6, <1>7, <1>8, <1>9, <1>10, <1>11

(* The balance is what was earned since the last reset and not spent.  The *)
(* profile a sign-in read without a lock is worth as much when it is saved *)
(* (audits wait for the user row, a purchase trades a point for an item);  *)
(* only the revocation of a log from before a reset breaks the balance.    *)
THEOREM CreditKeptHolds ==
  Spec => CreditKept
<1>1. IInv /\ [Next]_vars =>
        [\A u \in Users : Balanced(u) /\ ~Balanced(u)' =>
           \E r \in Requests : RevokesOldLog(r, u) /\ CommitAudit(r)]_vars
  BY CreditKeptStep
<1>. QED
  BY <1>1, InvHolds, PTL DEF Spec, CreditKept

(* A step that leaves a career without its membership. *)
LEMMA InstitutionKeptStep ==
  ASSUME IInv, [Next]_vars, NEW u \in Users, Backed(u), ~Backed(u)'
  PROVE  \E r \in Requests : CommitLogin(r) /\ snap[r].on = u
<1>1. TablesOK
  BY TablesTyped
<1>2. ASSUME profile'[u].clan = profile[u].clan, members'[u] = members[u] PROVE FALSE
  BY <1>2 DEF Backed
<1>3. ~UNCHANGED tables
  BY <1>2 DEF tables
<1>4. PICK r \in Requests :
        \/ CommitLogin(r) \/ ChangeRole(r) \/ CommitDeactivation(r) \/ FormStore(r)
        \/ CommitOnboarding(r) \/ Submit(r) \/ CommitAudit(r) \/ Redeem(r)
  BY <1>3, WritingSteps
<1>5. ~ChangeRole(r) /\ ~FormStore(r) /\ ~Submit(r)
  BY <1>2 DEF ChangeRole, FormStore, Submit
<1>6. profile[u] \in Profiles
  BY <1>1 DEF TablesOK
<1>7. ~CommitAudit(r) /\ ~Redeem(r)
  <2>1. ASSUME CommitAudit(r) PROVE FALSE
    <3>1. profile'[u].clan = profile[u].clan /\ members' = members
      BY <1>1, <1>6, <2>1 DEF CommitAudit, TablesOK, Profiles
    <3>. QED
      BY <1>2, <3>1
  <2>2. ASSUME Redeem(r) PROVE FALSE
    <3>1. profile'[u].clan = profile[u].clan /\ members' = members
      BY <1>1, <1>6, <2>2 DEF Redeem, TablesOK, Profiles
    <3>. QED
      BY <1>2, <3>1
  <2>. QED
    BY <2>1, <2>2
<1>8. ASSUME CommitDeactivation(r) PROVE FALSE
  <2>1. CASE u = input[r].user
    <3>1. profile'[u].clan = None
      BY <1>1, <1>8, <2>1 DEF CommitDeactivation, TablesOK, NewProfile
    <3>. QED
      BY <3>1 DEF Backed
  <2>2. CASE u # input[r].user
    <3>1. profile'[u] = profile[u] /\ members'[u] = members[u]
      BY <1>1, <1>8, <2>2 DEF CommitDeactivation, TablesOK
    <3>. QED
      BY <1>2, <3>1
  <2>. QED
    BY <2>1, <2>2
<1>9. ASSUME CommitOnboarding(r) PROVE FALSE
  <2>1. CASE u = input[r].user
    <3>1. profile'[u].clan = input[r].career /\ input[r].career \in members'[u]
      BY <1>1, <1>6, <1>9, <2>1 DEF CommitOnboarding, TablesOK, Profiles
    <3>. QED
      BY <3>1 DEF Backed
  <2>2. CASE u # input[r].user
    <3>1. profile'[u] = profile[u] /\ members'[u] = members[u]
      BY <1>1, <1>9, <2>2 DEF CommitOnboarding, TablesOK
    <3>. QED
      BY <1>2, <3>1
  <2>. QED
    BY <2>1, <2>2
<1>10. ASSUME CommitLogin(r) PROVE snap[r].on = u
  <2>1. SUFFICES ASSUME snap[r].on # u PROVE FALSE
    OBVIOUS
  <2>2. profile'[u] = profile[u] /\ members'[u] = members[u]
    BY <1>1, <1>10, <2>1 DEF CommitLogin, TablesOK
  <2>. QED
    BY <1>2, <2>2
<1>. QED
  BY <1>4, <1>5, <1>7, <1>8, <1>9, <1>10

(* Only a sign-in's save of the profile it read earlier can show a career  *)
(* whose membership is gone; onboardings and deactivations keep the two    *)
(* together however they overlap.                                          *)
THEOREM InstitutionKeptHolds ==
  Spec => InstitutionKept
<1>1. IInv /\ [Next]_vars =>
        [\A u \in Users : Backed(u) /\ ~Backed(u)' =>
           \E r \in Requests : CommitLogin(r) /\ snap[r].on = u]_vars
  BY InstitutionKeptStep
<1>. QED
  BY <1>1, InvHolds, PTL DEF Spec, InstitutionKept

================================================================================
