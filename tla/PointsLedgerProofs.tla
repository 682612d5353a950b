--------------------------- MODULE PointsLedgerProofs ---------------------------
(***************************************************************************)
(* Types, locks and remembered values of PointsLedger for every value of   *)
(* its constants.  Types alone are not inductive: what a handler writes    *)
(* has its type only because of the statements it has passed, so the       *)
(* invariant also says which inputs and remembered values occur at which   *)
(* statement (ControlOK).  The rows a handler has locked are its own       *)
(* (LocksOK), what it read from them is still true when it commits         *)
(* (FreshOK), and rows are locked in one order (OrderOK), which excludes   *)
(* deadlock.                                                               *)
(***************************************************************************)
EXTENDS LedgerInvariant, FiniteSetTheorems, WellFoundedInduction, TLAPS

--------------------------------------------------------------------------------
(* Facts about Sum: its value step by step, its type, that it depends only  *)
(* on the summed values, and what changing one value does to it.  Induction *)
(* is by sets of naturals, since the library's schemas take an operator     *)
(* that the provers cannot instantiate.                                     *)

(* A nonempty set of naturals has a least element. *)
LEMMA LeastNatural ==
  ASSUME NEW T, T \subseteq Nat, T # {}
  PROVE  \E x \in T : \A y \in T : x <= y
<1>1. PICK x \in T : \A y \in T : ~ (<<y, x>> \in OpToRel(<, Nat))
  <2>1. IsWellFoundedOn(OpToRel(<, Nat), Nat)
    BY NatLessThanWellFounded
  <2>. QED
    BY <2>1, WFMin
<1>2. ASSUME NEW y \in T PROVE x <= y
  <2>1. SUFFICES ASSUME y < x PROVE FALSE
    OBVIOUS
  <2>2. <<y, x>> \in OpToRel(<, Nat)
    BY <2>1 DEF OpToRel
  <2>. QED
    BY <1>1, <2>2
<1>. QED
  BY <1>2

(* A nonempty set of naturals with an upper bound has a greatest element. *)
LEMMA GreatestNatural ==
  ASSUME NEW N \in Nat, NEW T, T \subseteq 0..N, T # {}
  PROVE  \E x \in T : \A y \in T : y <= x
<1>. DEFINE U == {N - x : x \in T}
<1>1. PICK k \in U : \A y \in U : k <= y
  <2>1. \A x \in T : N - x \in Nat
    OBVIOUS
  <2>2. U \subseteq Nat
    BY <2>1
  <2>3. U # {}
    OBVIOUS
  <2>. HIDE DEF U
  <2>. QED
    BY <2>2, <2>3, LeastNatural
<1>2. PICK x \in T : k = N - x
  BY <1>1
<1>3. \A y \in T : N - y \in U
  OBVIOUS
<1>4. ASSUME NEW y \in T PROVE y <= x
  <2>1. N - x <= N - y
    BY <1>1, <1>2, <1>3
  <2>. QED
    BY <2>1
<1>. QED
  BY <1>4

(* A set with 0 and closed under successor holds every natural number. *)
LEMMA SetInduction ==
  ASSUME NEW S, 0 \in S, \A n \in Nat : n \in S => n + 1 \in S
  PROVE  \A n \in Nat : n \in S
<1>. DEFINE T == Nat \ S
<1>1. SUFFICES ASSUME T # {} PROVE FALSE
  OBVIOUS
<1>2. PICK x \in T : \A y \in T : x <= y
  BY <1>1, LeastNatural
<1>3. x # 0 /\ x - 1 \in Nat /\ ~(x <= x - 1) /\ (x - 1) + 1 = x
  OBVIOUS
<1>4. x - 1 \in S
  BY <1>2, <1>3
<1>. QED
  BY <1>3, <1>4

(* The equation that defines the partial sums of f up to n. *)
IsPartial(p, f, n) ==
  p = [i \in 0..n |-> IF i = 0 THEN 0 ELSE p[i - 1] + f[i]]

(* Partial sums exist up to any length. *)
LEMMA PartialExists ==
  ASSUME NEW f
  PROVE  \A n \in Nat : \E p : IsPartial(p, f, n)
<1>. DEFINE S == {n \in Nat : \E p : IsPartial(p, f, n)}
<1>1. 0 \in S
  <2>. DEFINE p == [i \in 0..0 |-> 0]
  <2>1. IsPartial(p, f, 0)
    BY DEF IsPartial
  <2>. QED
    BY <2>1
<1>2. ASSUME NEW n \in Nat, n \in S PROVE n + 1 \in S
  <2>1. PICK p : IsPartial(p, f, n)
    BY <1>2
  <2>. DEFINE q == [i \in 0..n + 1 |-> IF i = n + 1 THEN p[n] + f[n + 1] ELSE p[i]]
  <2>2. ASSUME NEW i \in 0..n + 1
        PROVE  q[i] = IF i = 0 THEN 0 ELSE q[i - 1] + f[i]
    <3>1. CASE i = n + 1
      BY <3>1
    <3>2. CASE i \in 0..n
      <4>1. p[i] = IF i = 0 THEN 0 ELSE p[i - 1] + f[i]
        BY <2>1, <3>2 DEF IsPartial
      <4>2. i # 0 => q[i - 1] = p[i - 1]
        BY <3>2
      <4>. QED
        BY <3>2, <4>1, <4>2
    <3>. QED
      BY <3>1, <3>2
  <2>3. IsPartial(q, f, n + 1)
    BY <2>2 DEF IsPartial
  <2>. QED
    BY <2>3
<1>. HIDE DEF S
<1>3. \A n \in Nat : n \in S
  BY <1>1, <1>2, SetInduction
<1>. QED
  BY <1>3 DEF S

(* Partial sums are determined by the function. *)
LEMMA PartialUnique ==
  ASSUME NEW f, NEW m \in Nat, NEW n \in Nat, m <= n,
         NEW p, NEW q, IsPartial(p, f, m), IsPartial(q, f, n)
  PROVE  \A i \in 0..m : p[i] = q[i]
<1>. DEFINE S == {i \in Nat : i \in 0..m => p[i] = q[i]}
<1>1. 0 \in S
  BY DEF IsPartial
<1>2. ASSUME NEW i \in Nat, i \in S PROVE i + 1 \in S
  <2>1. SUFFICES ASSUME i + 1 \in 0..m PROVE p[i + 1] = q[i + 1]
    OBVIOUS
  <2>2. p[i] = q[i]
    BY <1>2, <2>1
  <2>3. p[i + 1] = p[(i + 1) - 1] + f[i + 1]
    BY <2>1 DEF IsPartial
  <2>4. i + 1 \in 0..n
    BY <2>1
  <2>5. q[i + 1] = q[(i + 1) - 1] + f[i + 1]
    BY <2>4 DEF IsPartial
  <2>6. (i + 1) - 1 = i
    OBVIOUS
  <2>. QED
    BY <2>2, <2>3, <2>5, <2>6
<1>. HIDE DEF S
<1>3. \A i \in Nat : i \in S
  BY <1>1, <1>2, SetInduction
<1>. QED
  BY <1>3 DEF S

(* Sum is the last partial sum. *)
LEMMA SumIsPartial ==
  ASSUME NEW f, NEW n \in Nat, NEW p, IsPartial(p, f, n)
  PROVE  Sum(f, n) = p[n]
<1>. DEFINE c == CHOOSE q : q = [i \in 0..n |-> IF i = 0 THEN 0 ELSE q[i - 1] + f[i]]
<1>1. IsPartial(c, f, n)
  BY DEF IsPartial
<1>2. Sum(f, n) = c[n]
  BY DEF Sum
<1>3. \A i \in 0..n : c[i] = p[i]
  BY <1>1, PartialUnique
<1>. QED
  BY <1>2, <1>3

(* The defining equations of a sum. *)
LEMMA SumStep ==
  ASSUME NEW f
  PROVE  /\ Sum(f, 0) = 0
         /\ \A n \in Nat : Sum(f, n + 1) = Sum(f, n) + f[n + 1]
<1>1. Sum(f, 0) = 0
  <2>1. PICK p : IsPartial(p, f, 0)
    BY PartialExists
  <2>2. p[0] = 0
    BY <2>1 DEF IsPartial
  <2>. QED
    BY <2>1, <2>2, SumIsPartial
<1>2. ASSUME NEW n \in Nat PROVE Sum(f, n + 1) = Sum(f, n) + f[n + 1]
  <2>1. PICK p : IsPartial(p, f, n)
    BY PartialExists
  <2>2. PICK q : IsPartial(q, f, n + 1)
    BY PartialExists
  <2>3. q[n + 1] = q[(n + 1) - 1] + f[n + 1]
    BY <2>2 DEF IsPartial
  <2>4. p[n] = q[n]
    BY <2>1, <2>2, PartialUnique
  <2>5. Sum(f, n) = p[n]
    BY <2>1, SumIsPartial
  <2>6. Sum(f, n + 1) = q[n + 1]
    BY <2>2, SumIsPartial
  <2>7. (n + 1) - 1 = n
    OBVIOUS
  <2>. QED
    BY <2>3, <2>4, <2>5, <2>6, <2>7
<1>. QED
  BY <1>1, <1>2

(* A sum of naturals is a natural, and depends only on the summed values. *)
LEMMA SumType ==
  ASSUME NEW n \in Nat, NEW f, \A i \in 1..n : f[i] \in Nat
  PROVE  Sum(f, n) \in Nat
<1>. DEFINE S == {k \in Nat : k <= n => Sum(f, k) \in Nat}
<1>1. 0 \in S
  BY SumStep
<1>2. ASSUME NEW k \in Nat, k \in S PROVE k + 1 \in S
  <2>1. Sum(f, k + 1) = Sum(f, k) + f[k + 1]
    BY SumStep
  <2>. QED
    BY <1>2, <2>1
<1>. HIDE DEF S
<1>3. \A k \in Nat : k \in S
  BY <1>1, <1>2, SetInduction
<1>. QED
  BY <1>3 DEF S

(* Functions that agree have the same sum. *)
LEMMA SumCongruence ==
  ASSUME NEW n \in Nat, NEW f, NEW g, \A i \in 1..n : f[i] = g[i]
  PROVE  Sum(f, n) = Sum(g, n)
<1>. DEFINE S == {k \in Nat : k <= n => Sum(f, k) = Sum(g, k)}
<1>1. 0 \in S
  BY SumStep
<1>2. ASSUME NEW k \in Nat, k \in S PROVE k + 1 \in S
  <2>1. Sum(f, k + 1) = Sum(f, k) + f[k + 1]
    BY SumStep
  <2>2. Sum(g, k + 1) = Sum(g, k) + g[k + 1]
    BY SumStep
  <2>. QED
    BY <1>2, <2>1, <2>2
<1>. HIDE DEF S
<1>3. \A k \in Nat : k \in S
  BY <1>1, <1>2, SetInduction
<1>. QED
  BY <1>3 DEF S

(* A sum whose values differ at one index differs by that difference. *)
LEMMA SumUpdate ==
  ASSUME NEW n \in Nat, NEW f, NEW g, NEW j \in 1..n,
         \A i \in 1..n : f[i] \in Nat /\ g[i] \in Nat,
         \A i \in 1..n : i # j => f[i] = g[i]
  PROVE  Sum(g, n) = Sum(f, n) + (g[j] - f[j])
<1>. DEFINE S == {k \in Nat : k <= n =>
                    Sum(g, k) = Sum(f, k) + (IF j <= k THEN g[j] - f[j] ELSE 0)}
<1>1. 0 \in S
  BY SumStep
<1>2. ASSUME NEW k \in Nat, k \in S PROVE k + 1 \in S
  <2>1. SUFFICES ASSUME k + 1 <= n
                 PROVE  Sum(g, k + 1) = Sum(f, k + 1)
                          + (IF j <= k + 1 THEN g[j] - f[j] ELSE 0)
    OBVIOUS
  <2>2. Sum(f, k + 1) = Sum(f, k) + f[k + 1]
    BY SumStep
  <2>3. Sum(g, k + 1) = Sum(g, k) + g[k + 1]
    BY SumStep
  <2>4. Sum(f, k) \in Nat /\ Sum(g, k) \in Nat
    BY <2>1, SumType
  <2>5. f[k + 1] \in Nat /\ g[k + 1] \in Nat /\ f[j] \in Nat /\ g[j] \in Nat
    BY <2>1
  <2>6. Sum(g, k) = Sum(f, k) + (IF j <= k THEN g[j] - f[j] ELSE 0)
    BY <1>2, <2>1
  <2>7. CASE j = k + 1
    BY <2>2, <2>3, <2>4, <2>5, <2>6, <2>7
  <2>8. CASE j # k + 1
    <3>1. f[k + 1] = g[k + 1]
      BY <2>1, <2>8
    <3>2. (j <= k + 1) <=> (j <= k)
      BY <2>8
    <3>. QED
      BY <2>2, <2>3, <2>4, <2>5, <2>6, <3>1, <3>2
  <2>. QED
    BY <2>7, <2>8
<1>. HIDE DEF S
<1>3. \A k \in Nat : k \in S
  BY <1>1, <1>2, SetInduction
<1>. QED
  BY <1>3 DEF S

--------------------------------------------------------------------------------
(* Inputs and types. *)

(* The fields each kind of input has. *)
LEMMA InputFields ==
  ASSUME NEW in \in Inputs
  PROVE  /\ in.op = "submit" => /\ in.user \in Users /\ in.action \in Actions
                                /\ in.key \in Keys /\ in.extras \in Extras
         /\ in.op \in {"approve", "reject"} => in.log \in 1..MaxLogs
         /\ in.op = "redeem" => in.user \in Users /\ in.item \in Items
         /\ in.op = "rename" => in.user \in Users /\ in.name \in Names
         /\ in.op \in {"none", "submit", "approve", "reject", "redeem", "rename"}
  BY DEF Inputs, Submissions, Audits, Purchases, Renames, NoInput

(* Mission progress is a natural number. *)
LEMMA MissionCountType ==
  ASSUME NEW ls \in Seq(LogRows), NEW u, NEW m \in Missions
  PROVE  MissionCount(ls, u, m) \in Nat
<1>. DEFINE valid == {l \in 1..Len(ls) : /\ ls[l].user = u
                                   /\ ls[l].status = "APPROVED"
                                   /\ m \in ls[l].missions}
<1>1. IsFiniteSet(1..Len(ls))
  BY FS_Interval
<1>2. IsFiniteSet(valid)
  BY <1>1, FS_Subset
<1>3. Cardinality(valid) \in Nat
  BY <1>2, FS_CardinalityType
<1>4. MissionTarget[m] \in Nat
  BY LedgerAssumption
<1>. QED
  BY <1>3, <1>4 DEF MissionCount

(* Active days are days. *)
LEMMA ActiveDaysType ==
  ASSUME NEW ls \in Seq(LogRows), NEW u, NEW d
  PROVE  ActiveDays(ls, u, d) \subseteq Days
<1>1. ASSUME NEW l \in 1..Len(ls) PROVE ls[l].day \in Days
  <2>1. ls[l] \in LogRows
    OBVIOUS
  <2>. QED
    BY <2>1 DEF LogRows
<1>. QED
  BY <1>1 DEF ActiveDays

(* The walk back from today ends within the calendar. *)
LEMMA StreakLengthType ==
  ASSUME NEW days, days \subseteq Days, NEW d \in Days
  PROVE  StreakLength(days, d) \in Nat
<1>. DEFINE cursor == IF d \in days THEN d ELSE d - 1
            T == {n \in Nat : cursor - n \notin days}
<1>0. cursor \in 0..MaxDay /\ MaxDay \in Nat
  BY LedgerAssumption DEF Days
<1>. HIDE DEF cursor
<1>1. MaxDay \in T
  BY <1>0 DEF Days
<1>2. PICK n \in T : \A y \in T : n <= y
  <2>1. T \subseteq Nat /\ T # {}
    BY <1>1
  <2>. HIDE DEF T
  <2>. QED
    BY <2>1, LeastNatural
<1>3. n \in 0..MaxDay
  BY <1>0, <1>1, <1>2
<1>4. ASSUME NEW i \in 0..n - 1 PROVE cursor - i \in days
  <2>1. i \in Nat /\ ~(n <= i)
    BY <1>3, <1>0
  <2>. QED
    BY <1>2, <2>1
<1>5. \E k \in 0..MaxDay : /\ \A i \in 0..k - 1 : cursor - i \in days
                           /\ cursor - k \notin days
  BY <1>2, <1>3, <1>4
<1>6. StreakLength(days, d) \in 0..MaxDay
  BY <1>5 DEF StreakLength, cursor
<1>. QED
  BY <1>0, <1>6

(* The last action date is a day or NoDay. *)
LEMMA LastDayType ==
  ASSUME NEW days, days \subseteq Days
  PROVE  LastDay(days) \in Nat
<1>1. CASE days = {}
  BY <1>1 DEF LastDay, NoDay
<1>2. CASE days # {}
  <2>1. MaxDay \in Nat /\ days \subseteq 0..MaxDay
    BY LedgerAssumption DEF Days
  <2>2. \E x \in days : \A y \in days : y <= x
    BY <1>2, <2>1, GreatestNatural
  <2>3. \E x \in days : \A y \in days : x >= y
    BY <2>1, <2>2
  <2>4. Max(days) \in days
    BY <2>3 DEF Max
  <2>5. Max(days) \in 0..MaxDay
    BY <2>1, <2>4, Zenon
  <2>6. \A x \in 0..MaxDay : x \in Nat
    BY <2>1
  <2>7. Max(days) \in Nat
    BY <2>5, <2>6, Zenon
  <2>. QED
    BY <1>2, <2>7 DEF LastDay
<1>. QED
  BY <1>1, <1>2

Inv1 == TypeOK /\ ControlOK

(* A free slot remembers nothing. *)
LEMMA BlankType == Blank \in Snapshots
  BY LedgerAssumption DEF Blank, Snapshots, Statuses, ProfileRows, EmptyProfile, NoDay

(* What the invariant says of one request. *)
LEMMA RequestTypes ==
  ASSUME Inv1, NEW r \in Requests
  PROVE  /\ pc[r] \in Labels /\ input[r] \in Inputs /\ snap[r] \in Snapshots
         /\ held[r] \in SUBSET Rows
         /\ ControlAt(pc[r], input[r], snap[r])
         /\ LogExists(input[r])
  BY DEF Inv1, TypeOK, ControlOK

(* The columns of one log. *)
LEMMA LogTypes ==
  ASSUME TablesOK, NEW l \in LogIds
  PROVE  /\ logs[l] \in LogRows
         /\ logs[l].user \in Users /\ logs[l].action \in Actions
         /\ logs[l].inst \in InstClans /\ logs[l].priv \in PrivClans \cup {None}
         /\ logs[l].points \in Nat /\ logs[l].day \in Days
         /\ logs[l].status \in Statuses /\ logs[l].missions \in SUBSET Missions
<1>1. logs[l] \in LogRows
  BY DEF TablesOK, LogIds
<1>. QED
  BY <1>1 DEF LogRows

(* A running request works for an account. *)
LEMMA UserOfType ==
  ASSUME Inv1, NEW r \in Requests, pc[r] # "idle"
  PROVE  UserOf(r) \in Users
<1>1. input[r] \in Inputs /\ ControlAt(pc[r], input[r], snap[r]) /\ LogExists(input[r])
  BY RequestTypes
<1>2. input[r].op # "none"
  BY <1>1 DEF ControlAt
<1>3. CASE input[r].op \in {"approve", "reject"}
  BY <1>1, <1>3, LogTypes DEF LogExists, UserOf, Inv1, TypeOK
<1>4. CASE input[r].op \in {"submit", "redeem", "rename"}
  BY <1>1, <1>4, InputFields DEF UserOf
<1>. QED
  BY <1>1, <1>2, <1>3, <1>4, InputFields

(* A statement that changes no table. *)
LEMMA LocalStep ==
  ASSUME Inv1, NEW r \in Requests, UNCHANGED <<environment, ledger, input>>,
         NEW label \in Labels, NEW s \in Snapshots, NEW rows \in SUBSET Rows,
         pc' = [pc EXCEPT ![r] = label], snap' = [snap EXCEPT ![r] = s],
         held' = [held EXCEPT ![r] = rows], ControlAt(label, input[r], s)
  PROVE  Inv1'
<1>1. TablesOK'
  BY DEF Inv1, TypeOK, TablesOK, environment, ledger, LogIds
<1>2. TypeOK'
  BY <1>1 DEF Inv1, TypeOK
<1>3. ASSUME NEW q \in Requests
      PROVE  ControlAt(pc'[q], input'[q], snap'[q]) /\ LogExists(input[q])'
  <2>1. ControlAt(pc[q], input[q], snap[q]) /\ LogExists(input[q])
    BY RequestTypes
  <2>2. LogExists(input[q])'
    BY <2>1 DEF LogExists, LogIds, ledger
  <2>3. CASE q = r
    BY <2>2, <2>3 DEF Inv1, TypeOK
  <2>4. CASE q # r
    BY <2>1, <2>2, <2>4 DEF Inv1, TypeOK
  <2>. QED
    BY <2>3, <2>4
<1>4. ControlOK'
  BY <1>3 DEF ControlOK
<1>. QED
  BY <1>2, <1>4 DEF Inv1

(* The end of a transaction, whatever it leaves in the tables. *)
LEMMA EndStep ==
  ASSUME Inv1, NEW r \in Requests, End(r), TablesOK', Len(logs') >= Len(logs)
  PROVE  Inv1'
<1>1. NoInput \in Inputs /\ "idle" \in Labels
  BY DEF Inputs, Labels
<1>2. TypeOK'
  BY <1>1, BlankType DEF Inv1, TypeOK, End
<1>3. ASSUME NEW q \in Requests
      PROVE  ControlAt(pc'[q], input'[q], snap'[q]) /\ LogExists(input[q])'
  <2>1. ControlAt(pc[q], input[q], snap[q]) /\ LogExists(input[q])
    BY RequestTypes
  <2>3. CASE q = r
    <3>1. pc'[q] = "idle" /\ input'[q] = NoInput
      BY <2>3 DEF Inv1, TypeOK, End
    <3>. QED
      BY <3>1 DEF ControlAt, LogExists, NoInput
  <2>4. CASE q # r
    <3>1. pc'[q] = pc[q] /\ input'[q] = input[q] /\ snap'[q] = snap[q]
      BY <2>4 DEF Inv1, TypeOK, End
    <3>2. Len(logs) \in Nat /\ Len(logs') \in Nat
      BY DEF Inv1, TypeOK, TablesOK
    <3>3. LogIds \subseteq LogIds'
      BY <3>2 DEF LogIds
    <3>. QED
      BY <2>1, <3>1, <3>3 DEF LogExists
  <2>. QED
    BY <2>3, <2>4
<1>4. ControlOK'
  BY <1>3 DEF ControlOK
<1>. QED
  BY <1>2, <1>4 DEF Inv1

(* An early return or a rollback writes nothing. *)
LEMMA RefuseStep ==
  ASSUME Inv1, NEW r \in Requests, Refuse(r)
  PROVE  Inv1'
<1>1. TablesOK' /\ Len(logs') >= Len(logs)
  BY DEF Refuse, Inv1, TypeOK, TablesOK, environment, ledger
<1>. QED
  BY <1>1, EndStep DEF Refuse

(* Rows that handlers lock are rows of the database. *)
LEMMA RowTypes ==
  /\ \A u \in Users : UserRow(u) \in Rows /\ ProfileRow(u) \in Rows
  /\ \A l \in 1..MaxLogs : LogRow(l) \in Rows
  /\ \A c \in Clans : ClanRow(c) \in Rows
  BY DEF Rows

(* A request that arrives is at the first statement of its handler. *)
LEMMA StartStep ==
  ASSUME Inv1, NEW r \in Requests, Start(r)
  PROVE  Inv1'
<1>1. PICK in \in Submissions \cup Audits \cup Purchases \cup Renames :
         /\ in.op \in {"approve", "reject"} => in.log \in LogIds
         /\ input' = [input EXCEPT ![r] = in]
         /\ Goto(r, FirstLabel(in))
  BY DEF Start
<1>2. in \in Inputs /\ in.op # "none"
  BY DEF Inputs, Submissions, Audits, Purchases, Renames
<1>3. FirstLabel(in) \in {"user", "log", "profile"}
      /\ (in.op \in {"submit", "rename"} => FirstLabel(in) = "user")
      /\ (in.op \in {"approve", "reject"} => FirstLabel(in) = "log")
      /\ (in.op = "redeem" => FirstLabel(in) = "profile")
  BY <1>2, InputFields DEF FirstLabel
<1>4. ControlAt(FirstLabel(in), in, snap[r])
  BY <1>2, <1>3, InputFields DEF ControlAt
<1>5. UNCHANGED <<environment, ledger, snap, held>>
  BY DEF Start
<1>6. TablesOK'
  BY <1>5 DEF Inv1, TypeOK, TablesOK, environment, ledger
<1>7. FirstLabel(in) \in Labels
  BY <1>3 DEF Labels
<1>8. TypeOK'
  BY <1>1, <1>2, <1>5, <1>6, <1>7 DEF Inv1, TypeOK, Goto
<1>9. ASSUME NEW q \in Requests
      PROVE  ControlAt(pc'[q], input'[q], snap'[q]) /\ LogExists(input[q])'
  <2>1. ControlAt(pc[q], input[q], snap[q]) /\ LogExists(input[q])
    BY RequestTypes
  <2>2. LogIds' = LogIds
    BY <1>5 DEF LogIds, ledger
  <2>3. CASE q = r
    <3>1. pc'[q] = FirstLabel(in) /\ input'[q] = in /\ snap'[q] = snap[r]
      BY <1>1, <1>5, <2>3 DEF Inv1, TypeOK, Goto
    <3>. QED
      BY <1>1, <1>4, <2>2, <3>1 DEF LogExists
  <2>4. CASE q # r
    <3>1. pc'[q] = pc[q] /\ input'[q] = input[q] /\ snap'[q] = snap[q]
      BY <1>1, <1>5, <2>4 DEF Inv1, TypeOK, Goto
    <3>. QED
      BY <2>1, <2>2, <3>1 DEF LogExists
  <2>. QED
    BY <2>3, <2>4
<1>10. ControlOK'
  BY <1>9 DEF ControlOK
<1>. QED
  BY <1>8, <1>10 DEF Inv1

(* A statement that only waits for a row and moves on. *)
LEMMA LockStep ==
  ASSUME Inv1, NEW r \in Requests, NEW row \in Rows, NEW label \in Labels,
         Take(r, row), Goto(r, label),
         UNCHANGED <<environment, ledger, input, snap>>,
         ControlAt(label, input[r], snap[r])
  PROVE  Inv1'
<1>. DEFINE rows == held[r] \cup {row}
<1>1. rows \in SUBSET Rows /\ snap[r] \in Snapshots
  BY RequestTypes
<1>2. held' = [held EXCEPT ![r] = rows]
  BY DEF Take
<1>3. snap' = [snap EXCEPT ![r] = snap[r]]
  BY DEF Inv1, TypeOK
<1>4. pc' = [pc EXCEPT ![r] = label]
  BY DEF Goto
<1>. HIDE DEF rows
<1>. QED
  BY <1>1, <1>2, <1>3, <1>4, LocalStep

(* A statement that takes no lock and updates what the request remembers. *)
LEMMA ReadStep ==
  ASSUME Inv1, NEW r \in Requests, NEW s \in Snapshots, NEW label \in Labels,
         Remember(r, s), Goto(r, label),
         UNCHANGED <<environment, ledger, input, held>>,
         ControlAt(label, input[r], s)
  PROVE  Inv1'
<1>1. held[r] \in SUBSET Rows
  BY RequestTypes
<1>2. held' = [held EXCEPT ![r] = held[r]]
  BY DEF Inv1, TypeOK
<1>. QED
  BY <1>1, <1>2, LocalStep DEF Remember, Goto

(* Locking the user row keeps types and control. *)
LEMMA LockUserStep ==
  ASSUME Inv1, NEW r \in Requests, LockUser(r)
  PROVE  Inv1'
<1>1. /\ input[r] \in Inputs /\ ControlAt("user", input[r], snap[r])
      /\ pc[r] = "user"
  BY RequestTypes DEF LockUser
<1>2. input[r].op \in {"submit", "rename"}
  BY <1>1 DEF ControlAt
<1>3. UserRow(input[r].user) \in Rows
  BY <1>1, <1>2, InputFields, RowTypes
<1>4. CASE input[r].op = "submit"
  <2>1. "check" \in Labels /\ ControlAt("check", input[r], snap[r])
    BY <1>4 DEF Labels, ControlAt
  <2>. QED
    BY <1>3, <1>4, <2>1, LockStep DEF LockUser
<1>5. CASE input[r].op = "rename"
  <2>1. "profile" \in Labels /\ ControlAt("profile", input[r], snap[r])
    BY <1>5 DEF Labels, ControlAt
  <2>. QED
    BY <1>3, <1>5, <2>1, LockStep DEF LockUser
<1>. QED
  BY <1>2, <1>4, <1>5

(* A submission past its checks remembers an institutional clan. *)
LEMMA CheckSubmissionStep ==
  ASSUME Inv1, NEW r \in Requests, CheckSubmission(r)
  PROVE  Inv1'
<1>. DEFINE in == input[r]
            entry == catalog[in.action]
            s == [snap[r] EXCEPT !.points = entry.points, !.photo = entry.photo,
                                 !.inst = home[in.user],
                                 !.priv = favourite[in.user]]
<1>1. /\ in \in Inputs /\ ControlAt("check", in, snap[r]) /\ snap[r] \in Snapshots
      /\ pc[r] = "check"
  BY RequestTypes DEF CheckSubmission
<1>2. in.op = "submit"
  BY <1>1 DEF ControlAt
<1>3. in.user \in Users /\ in.action \in Actions
  BY <1>1, <1>2, InputFields
<1>4. CASE ~Submittable(in)
  BY <1>4, RefuseStep DEF CheckSubmission
<1>5. CASE Submittable(in)
  <2>1. entry \in Entries /\ home[in.user] \in InstClans
        /\ favourite[in.user] \in PrivClans \cup {None}
    BY <1>3, <1>5 DEF Submittable, Inv1, TypeOK, TablesOK
  <2>2. entry.points \in Nat /\ entry.photo \in BOOLEAN
    BY <2>1, LedgerAssumption
  <2>3. s \in Snapshots /\ s.inst \in InstClans
    BY <1>1, <2>1, <2>2 DEF Snapshots
  <2>4. "insert" \in Labels /\ ControlAt("insert", in, s)
    BY <1>2, <2>3 DEF Labels, ControlAt
  <2>5. Remember(r, s) /\ Goto(r, "insert")
        /\ UNCHANGED <<environment, ledger, input, held>>
    BY <1>5 DEF CheckSubmission
  <2>. HIDE DEF s, in
  <2>. QED
    BY <2>3, <2>4, <2>5, ReadStep DEF in
<1>. QED
  BY <1>4, <1>5

(* The inserted log is dated on a day of the calendar. *)
LEMMA InsertLogStep ==
  ASSUME Inv1, NEW r \in Requests, InsertLog(r)
  PROVE  Inv1'
<1>. DEFINE s == [snap[r] EXCEPT !.day = today]
            label == IF snap[r].photo THEN "commit" ELSE "profile"
<1>1. ControlAt("insert", input[r], snap[r]) /\ snap[r] \in Snapshots
      /\ pc[r] = "insert"
  BY RequestTypes DEF InsertLog
<1>2. input[r].op = "submit" /\ snap[r].inst \in InstClans
  BY <1>1 DEF ControlAt
<1>3. today \in Days /\ today \in Nat
  BY LedgerAssumption DEF Inv1, TypeOK, TablesOK, Days
<1>4. s \in Snapshots /\ s.day \in Days /\ s.inst \in InstClans
      /\ s.photo = snap[r].photo
  BY <1>1, <1>2, <1>3 DEF Snapshots
<1>5. label \in Labels /\ ControlAt(label, input[r], s)
  BY <1>2, <1>4 DEF Labels, ControlAt
<1>6. Remember(r, s) /\ Goto(r, label)
      /\ UNCHANGED <<environment, ledger, input, held>>
  BY DEF InsertLog
<1>. HIDE DEF s, label
<1>. QED
  BY <1>4, <1>5, <1>6, ReadStep

(* A statement that locks a row and remembers what it read from it. *)
LEMMA FetchStep ==
  ASSUME Inv1, NEW r \in Requests, NEW row \in Rows, NEW s \in Snapshots,
         NEW label \in Labels, Take(r, row), Remember(r, s), Goto(r, label),
         UNCHANGED <<environment, ledger, input>>,
         ControlAt(label, input[r], s)
  PROVE  Inv1'
<1>. DEFINE rows == held[r] \cup {row}
<1>1. rows \in SUBSET Rows
  BY RequestTypes
<1>2. held' = [held EXCEPT ![r] = rows]
  BY DEF Take
<1>. HIDE DEF rows
<1>. QED
  BY <1>1, <1>2, LocalStep DEF Remember, Goto

(* An audit copies well-typed values from a log that exists. *)
LEMMA LockLogStep ==
  ASSUME Inv1, NEW r \in Requests, LockLog(r)
  PROVE  Inv1'
<1>. DEFINE log == logs[input[r].log]
            s == LogValues(r, log)
            label == AfterLog(r, log)
<1>1. /\ input[r] \in Inputs /\ ControlAt("log", input[r], snap[r])
      /\ snap[r] \in Snapshots /\ LogExists(input[r]) /\ pc[r] = "log"
  BY RequestTypes DEF LockLog
<1>2. input[r].op \in {"approve", "reject"}
  BY <1>1 DEF ControlAt
<1>3. input[r].log \in LogIds /\ input[r].log \in 1..MaxLogs
  BY <1>1, <1>2, InputFields DEF LogExists
<1>4. LogRow(input[r].log) \in Rows
  BY <1>3, RowTypes
<1>5. CASE log.status \notin Auditable(input[r].op)
  BY <1>5, RefuseStep DEF LockLog
<1>6. CASE log.status \in Auditable(input[r].op)
  <2>1. /\ log.inst \in InstClans /\ log.priv \in PrivClans \cup {None}
        /\ log.points \in Nat /\ log.day \in Nat /\ log.status \in Statuses
    BY <1>3, LogTypes, LedgerAssumption DEF Inv1, TypeOK, Days
  <2>2. s \in Snapshots /\ s.was = log.status /\ s.inst \in InstClans
    BY <1>1, <2>1 DEF LogValues, Snapshots
  <2>3. label \in Labels /\ ControlAt(label, input[r], s)
    BY <1>2, <2>1, <2>2 DEF Labels, ControlAt, AfterLog, Statuses
  <2>4. /\ Take(r, LogRow(input[r].log)) /\ Remember(r, s) /\ Goto(r, label)
        /\ UNCHANGED <<environment, ledger, input>>
    BY <1>6 DEF LockLog
  <2>. HIDE DEF s, label
  <2>. QED
    BY <1>4, <2>2, <2>3, <2>4, FetchStep
<1>. QED
  BY <1>5, <1>6

(* The profile row of a credit or a revocation is locked. *)
LEMMA LockProfileStep ==
  ASSUME Inv1, NEW r \in Requests,
         LockProfileForCredit(r) \/ LockProfileForRevocation(r)
  PROVE  Inv1'
<1>1. /\ ControlAt("profile", input[r], snap[r]) /\ pc[r] = "profile"
      /\ input[r].op \in {"submit", "approve", "reject"}
  BY RequestTypes DEF LockProfileForCredit, LockProfileForRevocation
<1>2. UserOf(r) \in Users
  BY <1>1, UserOfType
<1>3. ProfileRow(UserOf(r)) \in Rows
  BY <1>2, RowTypes
<1>4. "inst" \in Labels /\ ControlAt("inst", input[r], snap[r])
  BY <1>1 DEF Labels, ControlAt
<1>5. CASE Refuse(r)
  BY <1>5, RefuseStep
<1>6. CASE ~Refuse(r)
  <2>1. /\ Take(r, ProfileRow(UserOf(r))) /\ Goto(r, "inst")
        /\ UNCHANGED <<environment, ledger, input, snap>>
    BY <1>6 DEF LockProfileForCredit, LockProfileForRevocation
  <2>. QED
    BY <1>3, <1>4, <2>1, LockStep
<1>. QED
  BY <1>5, <1>6

(* A purchase remembers a profile row and a price. *)
LEMMA LockProfileForRedeemStep ==
  ASSUME Inv1, NEW r \in Requests, LockProfileForRedeem(r)
  PROVE  Inv1'
<1>. DEFINE in == input[r]
            s == [snap[r] EXCEPT !.row = profile[in.user], !.cost = shop[in.item]]
<1>1. /\ in \in Inputs /\ in.op = "redeem" /\ snap[r] \in Snapshots
  BY RequestTypes DEF LockProfileForRedeem
<1>2. in.user \in Users /\ in.item \in Items
  BY <1>1, InputFields
<1>3. profile[in.user] \in ProfileRows /\ shop[in.item] \in Nat
  <2>1. profile[in.user] \in ProfileRows /\ shop[in.item] \in Prices \cup {0}
    BY <1>2 DEF Inv1, TypeOK, TablesOK
  <2>2. \A n \in Prices \cup {0} : n \in Nat
    BY LedgerAssumption
  <2>. QED
    BY <2>1, <2>2, Zenon
<1>4. s \in Snapshots
  BY <1>1, <1>3 DEF Snapshots
<1>5. "commit" \in Labels /\ ControlAt("commit", in, s)
  BY <1>1 DEF Labels, ControlAt
<1>6. ProfileRow(in.user) \in Rows
  BY <1>2, RowTypes
<1>7. CASE ~Redeemable(in)
  BY <1>7, RefuseStep DEF LockProfileForRedeem
<1>8. CASE Redeemable(in)
  <2>1. /\ Take(r, ProfileRow(in.user)) /\ Remember(r, s) /\ Goto(r, "commit")
        /\ UNCHANGED <<environment, ledger, input>>
    BY <1>8 DEF LockProfileForRedeem
  <2>. HIDE DEF s
  <2>. QED
    BY <1>4, <1>5, <1>6, <2>1, FetchStep
<1>. QED
  BY <1>7, <1>8

(* A nickname change remembers a profile row and its cost. *)
LEMMA LockProfileForRenameStep ==
  ASSUME Inv1, NEW r \in Requests, LockProfileForRename(r)
  PROVE  Inv1'
<1>. DEFINE in == input[r]
            s == [snap[r] EXCEPT !.row = profile[in.user],
                                 !.cost = RenameCost(profile[in.user])]
<1>1. /\ in \in Inputs /\ in.op = "rename" /\ snap[r] \in Snapshots
  BY RequestTypes DEF LockProfileForRename
<1>2. in.user \in Users
  BY <1>1, InputFields
<1>3. profile[in.user] \in ProfileRows /\ RenameCost(profile[in.user]) \in Nat
  BY <1>2, LedgerAssumption DEF Inv1, TypeOK, TablesOK, RenameCost
<1>4. s \in Snapshots
  BY <1>1, <1>3 DEF Snapshots
<1>5. "commit" \in Labels /\ ControlAt("commit", in, s)
  BY <1>1 DEF Labels, ControlAt
<1>6. ProfileRow(in.user) \in Rows
  BY <1>2, RowTypes
<1>7. CASE ~Renamable(in)
  BY <1>7, RefuseStep DEF LockProfileForRename
<1>8. CASE Renamable(in)
  <2>1. /\ Take(r, ProfileRow(in.user)) /\ Remember(r, s) /\ Goto(r, "commit")
        /\ UNCHANGED <<environment, ledger, input>>
    BY <1>8 DEF LockProfileForRename
  <2>. HIDE DEF s
  <2>. QED
    BY <1>4, <1>5, <1>6, <2>1, FetchStep
<1>. QED
  BY <1>7, <1>8

(* The clans to update are clans. *)
LEMMA LockClanStep ==
  ASSUME Inv1, NEW r \in Requests, LockInstClan(r) \/ LockPrivClan(r)
  PROVE  Inv1'
<1>. DEFINE s == snap[r]
<1>1. ControlAt(pc[r], input[r], s) /\ s \in Snapshots
  BY RequestTypes
<1>2. CASE LockInstClan(r)
  <2>1. s.inst \in InstClans /\ input[r].op \in {"submit", "approve", "reject"}
    BY <1>1, <1>2 DEF LockInstClan, ControlAt
  <2>2. ClanRow(s.inst) \in Rows
    BY <2>1, RowTypes DEF Clans
  <2>3. CASE s.priv = None
    <3>1. "derive" \in Labels /\ ControlAt("derive", input[r], s)
      BY <1>1, <1>2, <2>1 DEF LockInstClan, Labels, ControlAt
    <3>. QED
      BY <1>2, <2>2, <2>3, <3>1, LockStep DEF LockInstClan, ClanOrder
  <2>4. CASE s.priv # None
    <3>1. "priv" \in Labels /\ ControlAt("priv", input[r], s)
      BY <1>1, <1>2, <2>1, <2>4 DEF LockInstClan, Labels, ControlAt
    <3>. QED
      BY <1>2, <2>2, <2>4, <3>1, LockStep DEF LockInstClan, ClanOrder
  <2>. QED
    BY <2>3, <2>4
<1>3. CASE LockPrivClan(r)
  <2>1. s.priv # None /\ pc[r] = "priv"
    BY <1>1, <1>3 DEF LockPrivClan, ControlAt
  <2>2. s.priv \in PrivClans
    BY <1>1, <2>1 DEF Snapshots
  <2>3. ClanRow(s.priv) \in Rows
    BY <2>2, RowTypes DEF Clans
  <2>4. "derive" \in Labels /\ ControlAt("derive", input[r], s)
    BY <1>1, <2>1 DEF Labels, ControlAt
  <2>. QED
    BY <1>3, <2>3, <2>4, LockStep DEF LockPrivClan, ClanOrder
<1>. QED
  BY <1>2, <1>3

(* The log table a handler sees is well formed and loses no row. *)
LEMMA OwnLogsType ==
  ASSUME Inv1, NEW r \in Requests, pc[r] \in {"derive", "commit"},
         NEW touched \in SUBSET Missions
  PROVE  /\ OwnLogs(r, touched) \in Seq(LogRows)
         /\ Len(OwnLogs(r, touched)) >= Len(logs)
<1>. DEFINE in == input[r]
            s == snap[r]
<1>1. /\ in \in Inputs /\ ControlAt(pc[r], in, s) /\ s \in Snapshots
      /\ LogExists(in)
  BY RequestTypes
<1>2. logs \in Seq(LogRows) /\ Len(logs) \in Nat
  BY DEF Inv1, TypeOK, TablesOK
<1>3. CASE in.op = "submit"
  <2>. DEFINE new == [user |-> in.user, action |-> in.action, key |-> in.key,
                      inst |-> s.inst, priv |-> s.priv,
                      points |-> s.points, day |-> s.day,
                      status |-> IF s.photo THEN "PENDING_AUDIT" ELSE "APPROVED",
                      missions |-> touched]
  <2>1. in.user \in Users /\ in.action \in Actions /\ in.key \in Keys
    BY <1>1, <1>3, InputFields
  <2>2. s.inst \in InstClans /\ s.day \in Days
    BY <1>1, <1>3 DEF ControlAt
  <2>3. s.priv \in PrivClans \cup {None} /\ s.points \in Nat
    BY <1>1 DEF Snapshots
  <2>4. new \in LogRows
    BY <2>1, <2>2, <2>3 DEF LogRows, Statuses
  <2>5. OwnLogs(r, touched) = Append(logs, new)
    BY <1>3 DEF OwnLogs
  <2>. HIDE DEF new
  <2>. QED
    BY <1>2, <2>4, <2>5
<1>4. CASE in.op \in {"approve", "reject"}
  <2>1. in.log \in 1..Len(logs)
    BY <1>1, <1>4 DEF LogExists, LogIds
  <2>2. logs[in.log] \in LogRows
    BY <1>2, <2>1
  <2>. DEFINE a == [logs[in.log] EXCEPT !.status = "APPROVED",
                                        !.missions = @ \cup touched]
              b == [logs[in.log] EXCEPT !.status = "REJECTED"]
  <2>3. a \in LogRows /\ b \in LogRows
    BY <2>2 DEF LogRows, Statuses
  <2>4. CASE in.op = "approve"
    <3>1. OwnLogs(r, touched) = [logs EXCEPT ![in.log] = a]
      BY <1>2, <2>1, <2>4 DEF OwnLogs
    <3>. HIDE DEF a
    <3>. QED
      BY <1>2, <2>1, <2>3, <3>1
  <2>5. CASE in.op = "reject"
    <3>1. OwnLogs(r, touched) = [logs EXCEPT ![in.log] = b]
      BY <1>2, <2>1, <2>5 DEF OwnLogs
    <3>. HIDE DEF b
    <3>. QED
      BY <1>2, <2>1, <2>3, <3>1
  <2>. QED
    BY <1>4, <2>4, <2>5
<1>5. CASE in.op \notin {"submit", "approve", "reject"}
  <2>1. OwnLogs(r, touched) = logs
    BY <1>5 DEF OwnLogs
  <2>. QED
    BY <1>2, <2>1
<1>. QED
  BY <1>3, <1>4, <1>5

(* The missions a verdict recalculates are missions. *)
LEMMA TouchedType ==
  ASSUME Inv1, NEW r \in Requests
  PROVE  TouchedMissions(r) \in SUBSET Missions
<1>1. LogExists(input[r])
  BY RequestTypes
<1>2. input[r].op = "reject" => logs[input[r].log].missions \in SUBSET Missions
  BY <1>1, LogTypes DEF LogExists, Inv1, TypeOK
<1>. QED
  BY <1>2 DEF TouchedMissions, EligibleMissions

(* Badges, progress and streak have their types. *)
LEMMA DeriveStep ==
  ASSUME Inv1, NEW r \in Requests, Derive(r)
  PROVE  Inv1'
<1>. DEFINE u == UserOf(r)
            table == OwnLogs(r, TouchedMissions(r))
            s == Derived(r, table)
            label == IF RejectsPending(r) THEN "streak" ELSE "commit"
<1>1. ControlAt("derive", input[r], snap[r]) /\ snap[r] \in Snapshots
      /\ pc[r] = "derive"
  BY RequestTypes DEF Derive
<1>2. table \in Seq(LogRows) /\ u \in Users
  BY <1>1, OwnLogsType, TouchedType, UserOfType
<1>3. today \in Days
  BY DEF Inv1, TypeOK, TablesOK
<1>4. ActiveDays(table, u, today) \subseteq Days
  BY <1>2, ActiveDaysType
<1>5. /\ StreakLength(ActiveDays(table, u, today), today) \in Nat
      /\ LastDay(ActiveDays(table, u, today)) \in Nat
  BY <1>3, <1>4, StreakLengthType, LastDayType
<1>6. [m \in Missions |-> MissionCount(table, u, m)] \in [Missions -> Nat]
  BY <1>2, MissionCountType
<1>7. NewBadges(u, profile[u].total + snap[r].points) \in SUBSET Badges
  BY DEF NewBadges
<1>8. TouchedMissions(r) \in SUBSET Missions
  BY TouchedType
<1>. HIDE DEF table, u
<1>9. s \in Snapshots /\ s.was = snap[r].was /\ s.photo = snap[r].photo
      /\ s.inst = snap[r].inst /\ s.day = snap[r].day
  <2>1. s = [snap[r] EXCEPT
               !.award = IF input[r].op = "reject" THEN {}
                         ELSE NewBadges(u, profile[u].total + snap[r].points),
               !.touched = TouchedMissions(r),
               !.counts = [m \in Missions |-> MissionCount(table, u, m)],
               !.streak = StreakLength(ActiveDays(table, u, today), today),
               !.last = LastDay(ActiveDays(table, u, today))]
    BY DEF Derived, u
  <2>. HIDE DEF s
  <2>. QED
    BY <1>1, <1>5, <1>6, <1>7, <1>8, <2>1 DEF Snapshots
<1>10. label \in Labels /\ ControlAt(label, input[r], s)
  BY <1>1, <1>9 DEF Labels, ControlAt, RejectsPending
<1>11. Remember(r, s) /\ Goto(r, label)
       /\ UNCHANGED <<environment, ledger, input, held>>
  BY DEF Derive, table, u
<1>. HIDE DEF s, label
<1>. QED
  BY <1>9, <1>10, <1>11, ReadStep

(* Comparing and saving the streak changes only control and locks. *)
LEMMA StreakStep ==
  ASSUME Inv1, NEW r \in Requests, CompareStreak(r) \/ SaveStreak(r)
  PROVE  Inv1'
<1>1. ControlAt(pc[r], input[r], snap[r]) /\ snap[r] \in Snapshots
      /\ pc[r] \in {"streak", "save"}
  BY RequestTypes DEF CompareStreak, SaveStreak
<1>2. input[r].op = "reject" /\ snap[r].was = "PENDING_AUDIT"
  BY <1>1 DEF ControlAt
<1>3. \A label \in {"save", "commit"} :
        label \in Labels /\ ControlAt(label, input[r], snap[r])
  BY <1>2 DEF Labels, ControlAt
<1>4. CASE CompareStreak(r)
  <2>1. PICK label \in {"save", "commit"} : Goto(r, label)
    BY <1>4 DEF CompareStreak
  <2>2. Remember(r, snap[r])
    BY <1>4 DEF CompareStreak, Remember, Inv1, TypeOK
  <2>3. UNCHANGED <<environment, ledger, input, held>>
    BY <1>4 DEF CompareStreak
  <2>. QED
    BY <1>1, <1>3, <2>1, <2>2, <2>3, ReadStep
<1>5. CASE SaveStreak(r)
  <2>1. UserOf(r) \in Users
    BY <1>1, UserOfType
  <2>2. ProfileRow(UserOf(r)) \in Rows
    BY <2>1, RowTypes
  <2>. QED
    BY <1>3, <1>5, <2>2, LockStep DEF SaveStreak
<1>. QED
  BY <1>4, <1>5

(* A profile row with new totals and streak is a profile row. *)
LEMMA ProfileUpdate ==
  ASSUME NEW row \in ProfileRows, NEW t \in Int, NEW a \in Int,
         NEW s \in Nat, NEW d \in Nat
  PROVE  [row EXCEPT !.total = t, !.available = a, !.streak = s, !.last = d]
           \in ProfileRows
  BY DEF ProfileRows

(* The profile row a movement of n points saves. *)
LEMMA AddPointsType ==
  ASSUME Inv1, NEW r \in Requests, NEW u \in Users, NEW n \in Int, AddPoints(r, u, n)
  PROVE  profile' \in [Users -> ProfileRows] /\ clanPoints' \in [Clans -> Int]
<1>. DEFINE row == [profile[u] EXCEPT !.total = @ + n, !.available = @ + n,
                                      !.streak = snap[r].streak,
                                      !.last = snap[r].last]
<1>1. profile[u] \in ProfileRows /\ profile \in [Users -> ProfileRows]
      /\ clanPoints \in [Clans -> Int]
  BY DEF Inv1, TypeOK, TablesOK
<1>2. snap[r].streak \in Nat /\ snap[r].last \in Nat
  BY RequestTypes DEF Snapshots
<1>3. row \in ProfileRows
  <2>1. profile[u].total + n \in Int /\ profile[u].available + n \in Int
    BY <1>1 DEF ProfileRows
  <2>. QED
    BY <1>1, <1>2, <2>1, ProfileUpdate
<1>4. profile' = [profile EXCEPT ![u] = row]
  BY DEF AddPoints, SaveProfile
<1>. HIDE DEF row
<1>5. profile' \in [Users -> ProfileRows]
  BY <1>1, <1>3, <1>4
<1>6. clanPoints' \in [Clans -> Int]
  BY <1>1 DEF AddPoints
<1>. QED
  BY <1>5, <1>6

(* Saved progress is a table of natural numbers. *)
LEMMA SaveProgressType ==
  ASSUME Inv1, NEW r \in Requests, NEW u \in Users, SaveProgress(r, u)
  PROVE  progress' \in [Users -> [Missions -> Nat]]
<1>1. snap[r].counts \in [Missions -> Nat]
  BY RequestTypes DEF Snapshots
<1>2. progress \in [Users -> [Missions -> Nat]]
  BY DEF Inv1, TypeOK, TablesOK
<1>. QED
  BY <1>1, <1>2 DEF SaveProgress

(* Notifications have the columns of their table. *)
LEMMA RewardNotesType ==
  ASSUME Inv1, NEW r \in Requests, NEW u \in Users, NEW l \in Nat
  PROVE  /\ RewardNotes(r, u, l) \subseteq Notes
         /\ Note("AUDIT_APPROVED", l, None) \in Notes
         /\ Note("AUDIT_REJECT", l, None) \in Notes
<1>1. snap[r].award \subseteq Badges /\ snap[r].touched \subseteq Missions
  BY RequestTypes DEF Snapshots
<1>. QED
  BY <1>1 DEF RewardNotes, Completed, Note, Notes

(* The commit of a log that waits for its audit. *)
LEMMA CommitPendingStep ==
  ASSUME Inv1, NEW r \in Requests, CommitPending(r)
  PROVE  Inv1'
<1>1. pc[r] = "commit"
  BY DEF CommitPending
<1>2. logs' \in Seq(LogRows) /\ Len(logs') >= Len(logs)
  BY <1>1, OwnLogsType DEF CommitPending
<1>3. feed' \subseteq Nat
  <2>1. feed \subseteq Nat /\ Len(logs) + 1 \in Nat
    BY DEF Inv1, TypeOK, TablesOK
  <2>. QED
    BY <2>1 DEF CommitPending
<1>4. TablesOK'
  BY <1>2, <1>3 DEF CommitPending, Inv1, TypeOK, TablesOK, environment
<1>. QED
  BY <1>2, <1>4, EndStep DEF CommitPending

(* The commit of a log that is credited at once. *)
LEMMA CommitCreditedStep ==
  ASSUME Inv1, NEW r \in Requests, CommitCredited(r)
  PROVE  Inv1'
<1>. DEFINE u == input[r].user
            l == Len(logs) + 1
<1>1. pc[r] = "commit" /\ input[r].op = "submit" /\ snap[r] \in Snapshots
      /\ input[r] \in Inputs
  BY RequestTypes DEF CommitCredited
<1>2. u \in Users /\ l \in Nat
  BY <1>1, InputFields DEF Inv1, TypeOK, TablesOK
<1>3. snap[r].touched \in SUBSET Missions /\ snap[r].points \in Int
      /\ snap[r].award \in SUBSET Badges
  BY <1>1 DEF Snapshots
<1>4. logs' \in Seq(LogRows) /\ Len(logs') >= Len(logs)
  BY <1>1, <1>3, OwnLogsType DEF CommitCredited
<1>5. profile' \in [Users -> ProfileRows] /\ clanPoints' \in [Clans -> Int]
  BY <1>2, <1>3, AddPointsType DEF CommitCredited
<1>6. progress' \in [Users -> [Missions -> Nat]]
  BY <1>2, SaveProgressType DEF CommitCredited
<1>7. inbox' \subseteq Notes
  BY <1>2, RewardNotesType DEF CommitCredited, Inv1, TypeOK, TablesOK
<1>8. feed' \subseteq Nat
  BY <1>2 DEF CommitCredited, Inv1, TypeOK, TablesOK
<1>9. badges' \in [Users -> SUBSET Badges]
  BY <1>2, <1>3 DEF CommitCredited, Inv1, TypeOK, TablesOK
<1>10. TablesOK'
  BY <1>4, <1>5, <1>6, <1>7, <1>8, <1>9
     DEF CommitCredited, Inv1, TypeOK, TablesOK, environment
<1>. QED
  BY <1>4, <1>10, EndStep DEF CommitCredited

(* The commits of approvals, revocations and rejections. *)
LEMMA CommitAuditStep ==
  ASSUME Inv1, NEW r \in Requests,
         CommitApproval(r) \/ CommitRevocation(r) \/ CommitRejection(r)
  PROVE  Inv1'
<1>. DEFINE u == UserOf(r)
            l == input[r].log
<1>1. pc[r] = "commit" /\ input[r].op \in {"approve", "reject"}
      /\ snap[r] \in Snapshots /\ input[r] \in Inputs
  BY RequestTypes DEF CommitApproval, CommitRevocation, CommitRejection,
                      RejectsPending
<1>2. u \in Users /\ l \in Nat
  BY <1>1, UserOfType, InputFields
<1>3. /\ snap[r].touched \in SUBSET Missions /\ snap[r].points \in Int
      /\ -snap[r].points \in Int /\ snap[r].award \in SUBSET Badges
      /\ snap[r].streak \in Nat /\ snap[r].last \in Nat /\ {} \in SUBSET Missions
  BY <1>1 DEF Snapshots
<1>4. logs' \in Seq(LogRows) /\ Len(logs') >= Len(logs)
  BY <1>1, <1>3, OwnLogsType DEF CommitApproval, CommitRevocation, CommitRejection
<1>5. profile' \in [Users -> ProfileRows] /\ clanPoints' \in [Clans -> Int]
  <2>1. CASE CommitApproval(r)
    BY <1>2, <1>3, <2>1, AddPointsType DEF CommitApproval
  <2>2. CASE CommitRevocation(r)
    BY <1>2, <1>3, <2>2, AddPointsType DEF CommitRevocation
  <2>3. CASE CommitRejection(r)
    <3>1. profile[u] \in ProfileRows
      BY <1>2 DEF Inv1, TypeOK, TablesOK
    <3>2. [profile[u] EXCEPT !.streak = snap[r].streak, !.last = snap[r].last]
            \in ProfileRows
      BY <1>3, <3>1 DEF ProfileRows
    <3>3. PICK row \in ProfileRows : SaveProfile(u, row)
      BY <2>3, <3>1, <3>2 DEF CommitRejection
    <3>4. profile' \in [Users -> ProfileRows]
      BY <3>3 DEF SaveProfile, Inv1, TypeOK, TablesOK
    <3>. QED
      BY <2>3, <3>4 DEF CommitRejection, Inv1, TypeOK, TablesOK
  <2>. QED
    BY <2>1, <2>2, <2>3
<1>6. progress' \in [Users -> [Missions -> Nat]]
  BY <1>2, SaveProgressType DEF CommitApproval, CommitRevocation, CommitRejection
<1>7. inbox' \subseteq Notes
  <2>1. inbox \subseteq Notes /\ RewardNotes(r, u, l) \subseteq Notes
        /\ Note("AUDIT_APPROVED", l, None) \in Notes
        /\ Note("AUDIT_REJECT", l, None) \in Notes
    BY <1>2, RewardNotesType DEF Inv1, TypeOK, TablesOK
  <2>2. inbox' \in {inbox \cup RewardNotes(r, u, l) \cup {Note("AUDIT_APPROVED", l, None)},
                   inbox \cup RewardNotes(r, u, l) \cup {Note("AUDIT_REJECT", l, None)}}
    BY DEF CommitApproval, CommitRevocation, CommitRejection
  <2>. QED
    BY <2>1, <2>2
<1>8. badges' \in [Users -> SUBSET Badges]
  BY <1>2, <1>3
     DEF CommitApproval, CommitRevocation, CommitRejection, Inv1, TypeOK, TablesOK
<1>9. UNCHANGED <<environment, nickname, feed, spent>> /\ End(r)
  BY DEF CommitApproval, CommitRevocation, CommitRejection
<1>10. TablesOK'
  BY <1>4, <1>5, <1>6, <1>7, <1>8, <1>9 DEF Inv1, TypeOK, TablesOK, environment
<1>. QED
  BY <1>4, <1>9, <1>10, EndStep

(* The commits of purchases and nickname changes. *)
LEMMA CommitSpendStep ==
  ASSUME Inv1, NEW r \in Requests, CommitRedeem(r) \/ CommitRename(r)
  PROVE  Inv1'
<1>. DEFINE in == input[r]
            u == in.user
            s == snap[r]
<1>1. pc[r] = "commit" /\ in.op \in {"redeem", "rename"}
      /\ s \in Snapshots /\ in \in Inputs
  BY RequestTypes DEF CommitRedeem, CommitRename
<1>2. u \in Users /\ (in.op = "redeem" => in.item \in Items)
      /\ (in.op = "rename" => in.name \in Names)
  BY <1>1, InputFields
<1>3. s.row \in ProfileRows /\ s.cost \in Nat
  BY <1>1 DEF Snapshots
<1>4. s.row.available - s.cost \in Int /\ s.row.items \in SUBSET Items
      /\ s.row.renames + 1 \in Nat
  BY <1>3 DEF ProfileRows
<1>5. profile[u] \in ProfileRows
  BY <1>2 DEF Inv1, TypeOK, TablesOK
<1>6. ASSUME NEW a \in Int, NEW x \in SUBSET Items, NEW k \in Nat
      PROVE  /\ [profile[u] EXCEPT !.available = a, !.items = x] \in ProfileRows
             /\ [profile[u] EXCEPT !.available = a, !.renames = k] \in ProfileRows
  BY <1>5 DEF ProfileRows
<1>7. PICK row \in ProfileRows : SaveProfile(u, row)
  <2>1. CASE CommitRedeem(r)
    <3>1. s.row.items \cup {in.item} \in SUBSET Items
      BY <1>2, <1>4, <2>1 DEF CommitRedeem
    <3>. QED
      BY <1>4, <1>6, <2>1, <3>1 DEF CommitRedeem
  <2>2. CASE CommitRename(r)
    BY <1>4, <1>6, <2>2 DEF CommitRename
  <2>. QED
    BY <2>1, <2>2
<1>8. profile' \in [Users -> ProfileRows]
  BY <1>7 DEF SaveProfile, Inv1, TypeOK, TablesOK
<1>9. nickname' \in [Users -> Names]
  BY <1>2 DEF CommitRedeem, CommitRename, Inv1, TypeOK, TablesOK
<1>10. spent' \in [Users -> Nat]
  <2>1. spent \in [Users -> Nat] /\ spent[u] + s.cost \in Nat
    BY <1>2, <1>3 DEF Inv1, TypeOK, TablesOK
  <2>2. spent' = [spent EXCEPT ![u] = spent[u] + s.cost]
    BY DEF CommitRedeem, CommitRename
  <2>. QED
    BY <1>2, <2>1, <2>2
<1>11. UNCHANGED <<environment, logs, clanPoints, badges, progress, inbox, feed>>
       /\ End(r)
  BY DEF CommitRedeem, CommitRename
<1>12. TablesOK'
  BY <1>8, <1>9, <1>10, <1>11 DEF Inv1, TypeOK, TablesOK, environment
<1>13. Len(logs') >= Len(logs)
  BY <1>11 DEF Inv1, TypeOK, TablesOK
<1>. QED
  BY <1>11, <1>12, <1>13, EndStep

(* The clock, the administrators and the clan handlers. *)
LEMMA EnvironmentStep ==
  ASSUME Inv1, Environment
  PROVE  Inv1'
<1>1. UNCHANGED <<ledger, pc, input, snap, held>>
  BY DEF Environment, Tick, EditAction, EditItem, AssignHome, SetFavourite
<1>2. /\ catalog' \in [Actions -> Entries] /\ shop' \in [Items -> Prices \cup {0}]
      /\ home' \in [Users -> InstClans \cup {None}]
      /\ favourite' \in [Users -> PrivClans \cup {None}]
  BY DEF Environment, Tick, EditAction, EditItem, AssignHome, SetFavourite,
         Inv1, TypeOK, TablesOK
<1>3. today' \in Days
  BY LedgerAssumption
     DEF Environment, Tick, EditAction, EditItem, AssignHome, SetFavourite,
         Inv1, TypeOK, TablesOK, Days
<1>4. TypeOK'
  BY <1>1, <1>2, <1>3 DEF Inv1, TypeOK, TablesOK, ledger
<1>5. ControlOK'
  BY <1>1 DEF Inv1, ControlOK, ControlAt, LogExists, LogIds, ledger
<1>. QED
  BY <1>4, <1>5 DEF Inv1

(* The empty database is well typed. *)
LEMMA Inv1Init == Init => Inv1
<1>. SUFFICES ASSUME Init PROVE Inv1
  OBVIOUS
<1>1. EmptyProfile \in ProfileRows
  BY DEF EmptyProfile, ProfileRows, NoDay
<1>2. 1 \in Days
  BY LedgerAssumption DEF Days
<1>3. TablesOK
  BY <1>1, <1>2 DEF Init, TablesOK
<1>4. NoInput \in Inputs /\ "idle" \in Labels
  BY DEF Inputs, Labels
<1>5. TypeOK
  BY <1>3, <1>4, BlankType DEF Init, TypeOK
<1>6. ASSUME NEW r \in Requests
      PROVE  ControlAt(pc[r], input[r], snap[r]) /\ LogExists(input[r])
  BY DEF Init, ControlAt, LogExists, NoInput
<1>. QED
  BY <1>5, <1>6 DEF Inv1, ControlOK

(* Every step keeps types and control. *)
LEMMA Inv1Next == Inv1 /\ [Next]_vars => Inv1'
<1>. SUFFICES ASSUME Inv1, [Next]_vars PROVE Inv1'
  OBVIOUS
<1>1. CASE UNCHANGED vars
  BY <1>1 DEF vars, environment, ledger, Inv1, TypeOK, TablesOK, ControlOK,
              ControlAt, LogExists, LogIds
<1>2. CASE Environment
  BY <1>2, EnvironmentStep
<1>3. ASSUME NEW r \in Requests, Start(r) PROVE Inv1'
  BY <1>3, StartStep
<1>4. ASSUME NEW r \in Requests, Abort(r) PROVE Inv1'
  BY <1>4, RefuseStep DEF Abort
<1>5. ASSUME NEW r \in Requests, Step(r) PROVE Inv1'
  <2>1. CASE LockUser(r) \/ CheckSubmission(r) \/ InsertLog(r)
    BY <2>1, LockUserStep, CheckSubmissionStep, InsertLogStep
  <2>2. CASE LockLog(r)
    BY <2>2, LockLogStep
  <2>3. CASE LockProfileForCredit(r) \/ LockProfileForRevocation(r)
    BY <2>3, LockProfileStep
  <2>4. CASE LockProfileForRedeem(r) \/ LockProfileForRename(r)
    BY <2>4, LockProfileForRedeemStep, LockProfileForRenameStep
  <2>5. CASE LockInstClan(r) \/ LockPrivClan(r)
    BY <2>5, LockClanStep
  <2>6. CASE Derive(r) \/ CompareStreak(r) \/ SaveStreak(r)
    BY <2>6, DeriveStep, StreakStep
  <2>7. CASE CommitPending(r) \/ CommitCredited(r)
    BY <2>7, CommitPendingStep, CommitCreditedStep
  <2>8. CASE CommitApproval(r) \/ CommitRevocation(r) \/ CommitRejection(r)
    BY <2>8, CommitAuditStep
  <2>9. CASE CommitRedeem(r) \/ CommitRename(r)
    BY <2>9, CommitSpendStep
  <2>. QED
    BY <1>5, <2>1, <2>2, <2>3, <2>4, <2>5, <2>6, <2>7, <2>8, <2>9 DEF Step
<1>. QED
  BY <1>1, <1>2, <1>3, <1>4, <1>5 DEF Next

(* Every reachable state is well typed, for every number of users, logs,   *)
(* clans, items, missions and overlapping requests.                        *)
THEOREM TypeCorrect == Spec => []TypeOK
<1>1. Inv1 => TypeOK
  BY DEF Inv1
<1>. QED
  BY <1>1, Inv1Init, Inv1Next, PTL DEF Spec

--------------------------------------------------------------------------------
(* What a handler has locked stays its own, so what it read from those     *)
(* rows is still true when it commits.                                     *)

(* A step of r leaves the other requests alone. *)
Others(r) == \A q \in Requests \ {r} : /\ pc'[q] = pc[q] /\ input'[q] = input[q]
                                       /\ snap'[q] = snap[q] /\ held'[q] = held[q]

(* Rows of the log table are never removed, nor what they froze changed. *)
FrozenKept ==
  \A l \in LogIds :
    /\ l \in LogIds'
    /\ logs'[l].user = logs[l].user /\ logs'[l].action = logs[l].action
    /\ logs'[l].key = logs[l].key /\ logs'[l].points = logs[l].points
    /\ logs'[l].inst = logs[l].inst /\ logs'[l].priv = logs[l].priv
    /\ logs'[l].day = logs[l].day

(* No statement writes the locals of another request. *)
LEMMA OthersKept ==
  ASSUME Inv1, NEW r \in Requests, Start(r) \/ Step(r) \/ Abort(r)
  PROVE  Others(r)
<1>. USE DEF Others, Inv1, TypeOK
<1>1. CASE Start(r)
  BY <1>1 DEF Start, Goto
<1>2. CASE Refuse(r)
  BY <1>2 DEF Refuse, End
<1>3. CASE Abort(r)
  BY <1>2, <1>3 DEF Abort
<1>4. CASE LockUser(r)
  BY <1>4 DEF LockUser, Take, Goto
<1>5. CASE CheckSubmission(r)
  BY <1>2, <1>5 DEF CheckSubmission, Remember, Goto
<1>6. CASE InsertLog(r)
  BY <1>6 DEF InsertLog, Remember, Goto
<1>7. CASE LockLog(r)
  BY <1>2, <1>7 DEF LockLog, Take, Remember, Goto
<1>8. CASE LockProfileForCredit(r) \/ LockProfileForRevocation(r)
  BY <1>2, <1>8 DEF LockProfileForCredit, LockProfileForRevocation, Take, Goto
<1>9. CASE LockProfileForRedeem(r)
  BY <1>2, <1>9 DEF LockProfileForRedeem, Take, Remember, Goto
<1>10. CASE LockProfileForRename(r)
  BY <1>2, <1>10 DEF LockProfileForRename, Take, Remember, Goto
<1>11. CASE LockInstClan(r) \/ LockPrivClan(r)
  BY <1>11 DEF LockInstClan, LockPrivClan, Take, Goto
<1>12. CASE Derive(r)
  BY <1>12 DEF Derive, Remember, Goto
<1>13. CASE CompareStreak(r) \/ SaveStreak(r)
  BY <1>13 DEF CompareStreak, SaveStreak, Take, Goto
<1>14. CASE CommitPending(r) \/ CommitCredited(r) \/ CommitApproval(r)
            \/ CommitRevocation(r) \/ CommitRejection(r) \/ CommitRedeem(r)
            \/ CommitRename(r)
  BY <1>14 DEF CommitPending, CommitCredited, CommitApproval, CommitRevocation,
               CommitRejection, CommitRedeem, CommitRename, End
<1>. QED
  BY <1>1, <1>3, <1>4, <1>5, <1>6, <1>7, <1>8, <1>9, <1>10, <1>11, <1>12, <1>13,
     <1>14 DEF Step

(* What the commits write to the log table. *)
LEMMA OwnLogsFrozen ==
  ASSUME Inv1, NEW r \in Requests, NEW t, logs' = OwnLogs(r, t)
  PROVE  FrozenKept
<1>. DEFINE in == input[r]
<1>1. logs \in Seq(LogRows) /\ Len(logs) \in Nat
  BY DEF Inv1, TypeOK, TablesOK
<1>2. LogExists(in)
  BY RequestTypes
<1>3. CASE in.op = "submit"
  <2>1. PICK x : logs' = Append(logs, x)
    BY <1>3 DEF OwnLogs
  <2>2. Len(logs') = Len(logs) + 1 /\ \A l \in 1..Len(logs) : logs'[l] = logs[l]
    BY <1>1, <2>1
  <2>. QED
    BY <1>1, <2>2 DEF FrozenKept, LogIds
<1>4. CASE in.op \in {"approve", "reject"}
  <2>1. in.log \in 1..Len(logs)
    BY <1>2, <1>4 DEF LogExists, LogIds
  <2>2. logs[in.log] \in LogRows
    BY <1>1, <2>1
  <2>3. PICK x : /\ logs' = [logs EXCEPT ![in.log] = x]
                 /\ x \in {[logs[in.log] EXCEPT !.status = "APPROVED", !.missions = @ \cup t],
                           [logs[in.log] EXCEPT !.status = "REJECTED"]}
    BY <1>1, <1>4, <2>1 DEF OwnLogs
  <2>4. /\ x.user = logs[in.log].user /\ x.action = logs[in.log].action
        /\ x.key = logs[in.log].key /\ x.points = logs[in.log].points
        /\ x.inst = logs[in.log].inst /\ x.priv = logs[in.log].priv
        /\ x.day = logs[in.log].day
    BY <2>2, <2>3 DEF LogRows
  <2>5. Len(logs') = Len(logs) /\ \A l \in 1..Len(logs) : l # in.log => logs'[l] = logs[l]
    BY <1>1, <2>1, <2>3
  <2>6. logs'[in.log] = x
    BY <1>1, <2>1, <2>3
  <2>. QED
    BY <2>4, <2>5, <2>6 DEF FrozenKept, LogIds
<1>5. CASE in.op \notin {"submit", "approve", "reject"}
  BY <1>5 DEF OwnLogs, FrozenKept, LogIds
<1>. QED
  BY <1>3, <1>4, <1>5

(* No step removes a log or changes what it froze. *)
LEMMA LogsFrozen ==
  ASSUME Inv1, [Next]_vars
  PROVE  FrozenKept
<1>1. CASE logs' = logs
  BY <1>1 DEF FrozenKept, LogIds
<1>2. CASE logs' # logs
  <2>1. PICK r \in Requests : CommitPending(r) \/ CommitCredited(r)
          \/ CommitApproval(r) \/ CommitRevocation(r) \/ CommitRejection(r)
    BY <1>2, ZenonT(60) DEF Next, vars, environment, ledger, Environment, Tick, EditAction, EditItem,
      AssignHome, SetFavourite, Start, Step, Abort, Refuse, LockUser,
      CheckSubmission, InsertLog, LockLog, LockProfileForCredit,
      LockProfileForRevocation, LockProfileForRedeem, LockProfileForRename,
      LockInstClan, LockPrivClan, Derive, CompareStreak, SaveStreak,
      CommitRedeem, CommitRename
  <2>2. \E t : logs' = OwnLogs(r, t)
    BY <2>1 DEF CommitPending, CommitCredited, CommitApproval, CommitRevocation,
                CommitRejection
  <2>. QED
    BY <2>2, OwnLogsFrozen
<1>. QED
  BY <1>1, <1>2

--------------------------------------------------------------------------------
(* Locks. *)

(* Requests other than the one that steps keep what they hold. *)
LEMMA OthersHolding ==
  ASSUME Inv1, FrozenKept, NEW r \in Requests, Others(r),
         NEW q \in Requests \ {r}, Holding(q)
  PROVE  Holding(q)'
<1>1. pc'[q] = pc[q] /\ input'[q] = input[q] /\ snap'[q] = snap[q]
      /\ held'[q] = held[q] /\ LogExists(input[q])
  BY RequestTypes DEF Others
<1>2. UserOf(q)' = UserOf(q)
  BY <1>1 DEF UserOf, FrozenKept, LogExists
<1>3. (MovesPoints(q)' <=> MovesPoints(q)) /\ (Auditing(q)' <=> Auditing(q))
  BY <1>1 DEF MovesPoints, Auditing
<1>. QED
  BY <1>1, <1>2, <1>3 DEF Holding

(* A step takes free rows only and leaves its request holding its rows. *)
LEMMA LocksStep ==
  ASSUME Inv1, LocksOK, FrozenKept, NEW r \in Requests, Others(r),
         \A row \in held'[r] \ held[r] : Free(r, row), Holding(r)'
  PROVE  LocksOK'
<1>1. ASSUME NEW q \in Requests PROVE Holding(q)'
  BY OthersHolding DEF LocksOK
<1>2. ASSUME NEW q \in Requests \ {r} PROVE held'[q] \cap held'[r] = {}
  <2>1. held'[q] = held[q] /\ held[q] \cap held[r] = {}
    BY DEF Others, LocksOK, Exclusive
  <2>. QED
    BY <2>1 DEF Free
<1>3. Exclusive'
  BY <1>2 DEF Exclusive, LocksOK, Others
<1>. QED
  BY <1>1, <1>3 DEF LocksOK

(* A request that ends holds nothing. *)
LEMMA EndLocks ==
  ASSUME Inv1, LocksOK, FrozenKept, NEW r \in Requests, Others(r), End(r)
  PROVE  LocksOK'
<1>1. pc'[r] = "idle" /\ input'[r] = NoInput /\ held'[r] = {}
  BY DEF Inv1, TypeOK, End
<1>2. Holding(r)'
  BY <1>1 DEF Holding, Auditing, MovesPoints, NoInput
<1>. QED
  BY <1>1, <1>2, LocksStep

(* A statement that keeps the input, and the row it locks, if any. *)
LEMMA TakeLocks ==
  ASSUME Inv1, LocksOK, FrozenKept, NEW r \in Requests, Others(r), NEW row,
         Take(r, row), input' = input, Holding(r)'
  PROVE  LocksOK'
<1>1. held'[r] = held[r] \cup {row} /\ Free(r, row)
  BY DEF Take, Inv1, TypeOK
<1>. QED
  BY <1>1, LocksStep

(* Every statement takes only free rows and has locked what its label      *)
(* implies.                                                                *)
LEMMA LocksInvariantStep ==
  ASSUME Inv1, LocksOK, NEW r \in Requests, Start(r) \/ Step(r) \/ Abort(r)
  PROVE  LocksOK'
<1>. DEFINE in == input[r]
<1>a. FrozenKept
  BY LogsFrozen DEF Next
<1>b. Others(r)
  BY OthersKept
<1>c. /\ ControlAt(pc[r], in, snap[r]) /\ Holding(r) /\ in \in Inputs
      /\ snap[r] \in Snapshots /\ pc[r] \in Labels /\ LogExists(in)
  BY RequestTypes DEF LocksOK
<1>d. in.op \in {"none", "submit", "approve", "reject", "redeem", "rename"}
  BY <1>c, InputFields
<1>e. CASE End(r)
  BY <1>a, <1>b, <1>e, EndLocks
<1>1. CASE Start(r)
  <2>1. PICK x \in Submissions \cup Audits \cup Purchases \cup Renames :
          input'[r] = x /\ pc'[r] = FirstLabel(x)
    BY <1>1 DEF Start, Goto, Inv1, TypeOK
  <2>2. x.op \in {"submit", "approve", "reject", "redeem", "rename"}
    BY DEF Submissions, Audits, Purchases, Renames
  <2>3. held'[r] = held[r]
    BY <1>1 DEF Start
  <2>4. Holding(r)'
    BY <2>1, <2>2 DEF Holding, Auditing, MovesPoints, FirstLabel
  <2>. QED
    BY <1>a, <1>b, <2>3, <2>4, LocksStep
<1>2. CASE Abort(r)
  BY <1>2, <1>e DEF Abort, Refuse
<1>3. CASE LockUser(r)
  <2>1. /\ held'[r] = held[r] \cup {UserRow(in.user)} /\ input' = input
        /\ pc'[r] \in {"check", "profile"} /\ in.op \in {"submit", "rename"}
        /\ Take(r, UserRow(in.user))
    BY <1>3, <1>c DEF LockUser, Take, Goto, Inv1, TypeOK, ControlAt
  <2>2. Holding(r)'
    BY <2>1 DEF Holding, Auditing, MovesPoints
  <2>. QED
    BY <1>a, <1>b, <2>1, <2>2, TakeLocks
<1>4. CASE (CheckSubmission(r) \/ InsertLog(r)) /\ ~End(r)
  <2>1. in.op = "submit" /\ pc[r] \in {"check", "insert"}
    BY <1>4, <1>c DEF CheckSubmission, InsertLog, ControlAt
  <2>2. /\ held' = held /\ input' = input
        /\ pc'[r] \in {"insert", "profile", "commit"}
        /\ pc'[r] = "commit" => snap'[r].photo
    BY <1>4, <1>c DEF CheckSubmission, InsertLog, Refuse, Goto, Remember, Inv1,
                      TypeOK, Snapshots
  <2>3. Holding(r)'
    BY <1>c, <2>1, <2>2 DEF Holding, Auditing, MovesPoints
  <2>. QED
    BY <1>a, <1>b, <2>2, <2>3, LocksStep
<1>5. CASE LockLog(r) /\ ~End(r)
  <2>. DEFINE log == logs[in.log]
  <2>1. /\ Take(r, LogRow(in.log)) /\ input' = input
        /\ held'[r] = held[r] \cup {LogRow(in.log)}
        /\ pc'[r] = AfterLog(r, log) /\ snap'[r] = LogValues(r, log)
        /\ log.status \in Auditable(in.op)
        /\ in.op \in {"approve", "reject"}
    BY <1>5, <1>c DEF LockLog, Refuse, Take, Goto, Remember, Inv1, TypeOK, ControlAt
  <2>2. snap'[r].was = log.status
    BY <1>c, <2>1 DEF LogValues, Snapshots
  <2>3. pc'[r] = "profile" \/ (pc'[r] = "derive" /\ in.op = "reject"
                                /\ snap'[r].was # "APPROVED")
    BY <2>1, <2>2 DEF AfterLog
  <2>4. Holding(r)'
    BY <2>1, <2>3 DEF Holding, Auditing, MovesPoints
  <2>. QED
    BY <1>a, <1>b, <2>1, <2>4, TakeLocks
<1>6. CASE (LockProfileForCredit(r) \/ LockProfileForRevocation(r)) /\ ~End(r)
  <2>1. /\ Take(r, ProfileRow(UserOf(r))) /\ input' = input /\ logs' = logs
        /\ held'[r] = held[r] \cup {ProfileRow(UserOf(r))}
        /\ pc[r] = "profile" /\ pc'[r] = "inst" /\ snap' = snap
    BY <1>6 DEF LockProfileForCredit, LockProfileForRevocation, Refuse, Take, Goto,
                Inv1, TypeOK, ledger
  <2>2. UserOf(r)' = UserOf(r)
    BY <2>1 DEF UserOf
  <2>3. Holding(r)'
    BY <1>c, <2>1, <2>2 DEF Holding, Auditing
  <2>. QED
    BY <1>a, <1>b, <2>1, <2>3, TakeLocks
<1>7. CASE (LockProfileForRedeem(r) \/ LockProfileForRename(r)) /\ ~End(r)
  <2>1. /\ Take(r, ProfileRow(in.user)) /\ input' = input
        /\ held'[r] = held[r] \cup {ProfileRow(in.user)}
        /\ in.op \in {"redeem", "rename"}
    BY <1>7 DEF LockProfileForRedeem, LockProfileForRename, Refuse, Take,
                Inv1, TypeOK
  <2>2. UserOf(r)' = in.user
    BY <2>1 DEF UserOf
  <2>3. Holding(r)'
    BY <2>1, <2>2 DEF Holding, Auditing
  <2>. QED
    BY <1>a, <1>b, <2>1, <2>3, TakeLocks
<1>8. CASE LockInstClan(r) \/ LockPrivClan(r)
  <2>1. PICK row : /\ Take(r, row) /\ input' = input /\ logs' = logs
                   /\ held'[r] = held[r] \cup {row} /\ snap' = snap
                   /\ pc[r] \in {"inst", "priv"} /\ pc'[r] \in {"priv", "derive"}
    BY <1>8 DEF LockInstClan, LockPrivClan, Take, Goto, Inv1, TypeOK, ledger
  <2>2. UserOf(r)' = UserOf(r)
    BY <2>1 DEF UserOf
  <2>3. Holding(r)'
    BY <1>c, <2>1, <2>2 DEF Holding, Auditing, MovesPoints
  <2>. QED
    BY <1>a, <1>b, <2>1, <2>3, TakeLocks
<1>9. CASE Derive(r)
  <2>. DEFINE table == OwnLogs(r, TouchedMissions(r))
  <2>1. /\ held' = held /\ input' = input /\ logs' = logs /\ pc[r] = "derive"
        /\ pc'[r] = (IF RejectsPending(r) THEN "streak" ELSE "commit")
        /\ snap'[r] = Derived(r, table)
    BY <1>9 DEF Derive, Goto, Remember, Inv1, TypeOK, ledger
  <2>. HIDE DEF table
  <2>2. snap'[r].was = snap[r].was /\ snap'[r].photo = snap[r].photo
    BY <1>c, <2>1 DEF Derived, Snapshots
  <2>3. UserOf(r)' = UserOf(r)
    BY <2>1 DEF UserOf
  <2>4. in.op \in {"submit", "approve", "reject"}
    BY <1>c, <2>1 DEF ControlAt
  <2>5. Holding(r)'
    BY <1>c, <2>1, <2>2, <2>3, <2>4 DEF Holding, Auditing, MovesPoints, RejectsPending
  <2>. QED
    BY <1>a, <1>b, <2>1, <2>5, LocksStep
<1>10. CASE CompareStreak(r) \/ SaveStreak(r)
  <2>1. /\ input' = input /\ logs' = logs /\ snap' = snap
        /\ pc[r] \in {"streak", "save"} /\ pc'[r] \in {"save", "commit"}
        /\ held[r] \subseteq held'[r]
        /\ \A row \in held'[r] \ held[r] : Free(r, row)
    BY <1>10 DEF CompareStreak, SaveStreak, Take, Goto, Inv1, TypeOK, ledger
  <2>2. in.op = "reject" /\ snap[r].was = "PENDING_AUDIT"
    BY <1>c, <2>1 DEF ControlAt
  <2>3. Holding(r)'
    BY <1>c, <2>1, <2>2 DEF Holding, Auditing, MovesPoints
  <2>. QED
    BY <1>a, <1>b, <2>1, <2>3, LocksStep
<1>11. CASE CommitPending(r) \/ CommitCredited(r) \/ CommitApproval(r)
            \/ CommitRevocation(r) \/ CommitRejection(r) \/ CommitRedeem(r)
            \/ CommitRename(r)
  BY <1>11, <1>e DEF CommitPending, CommitCredited, CommitApproval,
     CommitRevocation, CommitRejection, CommitRedeem, CommitRename
<1>. QED
  BY <1>e, <1>1, <1>2, <1>3, <1>4, <1>5, <1>6, <1>7, <1>8, <1>9, <1>10, <1>11
     DEF Step

(* Locks stay exclusive and held where the handlers need them. *)
LEMMA LocksNext == Inv1 /\ LocksOK /\ [Next]_vars => LocksOK'
<1>. SUFFICES ASSUME Inv1, LocksOK, [Next]_vars PROVE LocksOK'
  OBVIOUS
<1>1. CASE UNCHANGED vars \/ Environment
  <2>1. UNCHANGED <<logs, pc, input, snap, held>>
    BY <1>1 DEF vars, environment, ledger, Environment, Tick, EditAction, EditItem,
                AssignHome, SetFavourite
  <2>. QED
    BY <2>1 DEF LocksOK, Exclusive, Holding, Auditing, MovesPoints, UserOf
<1>2. ASSUME NEW r \in Requests, Start(r) \/ Step(r) \/ Abort(r) PROVE LocksOK'
  BY <1>2, LocksInvariantStep
<1>. QED
  BY <1>1, <1>2 DEF Next

(* No row is locked at the start. *)
LEMMA LocksInit == Init => LocksOK
  BY DEF Init, LocksOK, Exclusive, Holding, Auditing, MovesPoints, NoInput

--------------------------------------------------------------------------------
(* What a request remembers of the rows it holds is still true. *)

(* A step changes the status of a log only when it holds the log's row, and *)
(* the balance of a user only when it holds the user's profile row.         *)
OwnRowsOnly(r) ==
  /\ \A l \in LogIds : logs'[l].status # logs[l].status => LogRow(l) \in held[r]
  /\ \A u \in Users : profile'[u].available # profile[u].available
                        => ProfileRow(u) \in held[r]

(* A commit changes the status of the log its request holds only. *)
LEMMA OwnLogsOwnRow ==
  ASSUME Inv1, NEW r \in Requests, Holding(r), pc[r] = "commit", NEW t,
         logs' = OwnLogs(r, t), NEW l \in LogIds, logs'[l].status # logs[l].status
  PROVE  LogRow(l) \in held[r]
<1>1. logs \in Seq(LogRows) /\ Len(logs) \in Nat /\ l \in 1..Len(logs)
  BY DEF Inv1, TypeOK, TablesOK, LogIds
<1>2. LogExists(input[r])
  BY RequestTypes
<1>3. CASE input[r].op = "submit"
  <2>1. PICK x : logs' = Append(logs, x)
    BY <1>3 DEF OwnLogs
  <2>. QED
    BY <1>1, <2>1
<1>4. CASE input[r].op \in {"approve", "reject"}
  <2>1. LogRow(input[r].log) \in held[r]
    BY <1>4 DEF Holding, Auditing
  <2>2. input[r].log \in 1..Len(logs)
    BY <1>2, <1>4 DEF LogExists, LogIds
  <2>3. l # input[r].log => logs'[l] = logs[l]
    BY <1>1, <1>4, <2>2 DEF OwnLogs
  <2>. QED
    BY <2>1, <2>3
<1>5. CASE input[r].op \notin {"submit", "approve", "reject"}
  BY <1>5 DEF OwnLogs
<1>. QED
  BY <1>3, <1>4, <1>5

(* Every write to a status or a balance is made under the lock of its row. *)
LEMMA WritesOwnRows ==
  ASSUME Inv1, LocksOK, NEW r \in Requests, Start(r) \/ Step(r) \/ Abort(r)
  PROVE  OwnRowsOnly(r)
<1>1. CASE UNCHANGED <<logs, profile>>
  BY <1>1 DEF OwnRowsOnly
<1>2. CASE ~UNCHANGED <<logs, profile>>
  <2>1. CommitPending(r) \/ CommitCredited(r) \/ CommitApproval(r)
        \/ CommitRevocation(r) \/ CommitRejection(r) \/ CommitRedeem(r)
        \/ CommitRename(r)
    BY <1>2 DEF ledger, Start, Step, Abort, Refuse, LockUser,
      CheckSubmission, InsertLog, LockLog, LockProfileForCredit,
      LockProfileForRevocation, LockProfileForRedeem, LockProfileForRename,
      LockInstClan, LockPrivClan, Derive, CompareStreak, SaveStreak
  <2>2. Holding(r) /\ pc[r] = "commit"
    BY <2>1 DEF LocksOK, CommitPending, CommitCredited, CommitApproval,
       CommitRevocation, CommitRejection, CommitRedeem, CommitRename
  <2>3. ASSUME NEW l \in LogIds, logs'[l].status # logs[l].status
        PROVE  LogRow(l) \in held[r]
    <3>1. \E t : logs' = OwnLogs(r, t)
      BY <2>1, <2>3 DEF CommitPending, CommitCredited, CommitApproval,
         CommitRevocation, CommitRejection, CommitRedeem, CommitRename
    <3>. QED
      BY <2>2, <2>3, <3>1, OwnLogsOwnRow
  <2>4. ASSUME NEW u \in Users, profile'[u].available # profile[u].available
        PROVE  ProfileRow(u) \in held[r]
    <3>1. profile \in [Users -> ProfileRows]
      BY DEF Inv1, TypeOK, TablesOK
    <3>2. CASE MovesPoints(r)
      <4>1. ProfileRow(UserOf(r)) \in held[r]
        BY <2>2, <3>2 DEF Holding
      <4>2. u # UserOf(r) => profile'[u] = profile[u]
        BY <2>1, <3>1 DEF CommitPending, CommitCredited, CommitApproval,
           CommitRevocation, CommitRejection, CommitRedeem, CommitRename,
           AddPoints, SaveProfile, UserOf, RejectsPending
      <4>. QED
        BY <2>4, <4>1, <4>2
    <3>3. CASE CommitPending(r)
      BY <2>4, <3>3 DEF CommitPending
    <3>4. CASE CommitRejection(r)
      <4>. DEFINE x == [profile[UserOf(r)] EXCEPT !.streak = snap[r].streak,
                                                  !.last = snap[r].last]
      <4>1. UserOf(r) \in Users
        BY <2>2, UserOfType
      <4>2. x.available = profile[UserOf(r)].available
        BY <3>1, <4>1 DEF ProfileRows
      <4>3. profile' \in {profile, [profile EXCEPT ![UserOf(r)] = x]}
        BY <3>1, <3>4, <4>1 DEF CommitRejection, SaveProfile
      <4>. HIDE DEF x
      <4>. QED
        BY <2>4, <3>1, <4>1, <4>2, <4>3
    <3>. QED
      BY <2>1, <2>2, <3>2, <3>3, <3>4 DEF MovesPoints, CommitCredited,
         CommitApproval, CommitRevocation, CommitRedeem, CommitRename
  <2>. QED
    BY <2>3, <2>4 DEF OwnRowsOnly
<1>. QED
  BY <1>1, <1>2

(* What the other requests remember of their rows stays true. *)
LEMMA OthersFresh ==
  ASSUME Inv1, LocksOK, FrozenKept, NEW r \in Requests, Others(r), OwnRowsOnly(r),
         NEW q \in Requests \ {r}, LogFresh(q), BalanceFresh(q)
  PROVE  LogFresh(q)' /\ BalanceFresh(q)'
<1>1. pc'[q] = pc[q] /\ input'[q] = input[q] /\ snap'[q] = snap[q]
      /\ held[q] \cap held[r] = {} /\ Holding(q)
      /\ LogExists(input[q]) /\ input[q] \in Inputs
  BY RequestTypes DEF Others, LocksOK, Exclusive
<1>2. UserOf(q)' = UserOf(q)
  BY <1>1 DEF UserOf, FrozenKept, LogExists
<1>3. (MovesPoints(q)' <=> MovesPoints(q)) /\ (Auditing(q)' <=> Auditing(q))
  BY <1>1 DEF MovesPoints, Auditing
<1>4. LogFresh(q)'
  <2>1. SUFFICES ASSUME Auditing(q) PROVE LogFresh(q)'
    BY <1>3 DEF LogFresh
  <2>. DEFINE l == input[q].log
  <2>2. l \in LogIds /\ LogRow(l) \notin held[r]
    BY <1>1, <2>1 DEF Auditing, LogExists, Holding
  <2>3. /\ logs'[l].status = logs[l].status /\ logs'[l].points = logs[l].points
        /\ logs'[l].inst = logs[l].inst /\ logs'[l].priv = logs[l].priv
        /\ logs'[l].day = logs[l].day
    BY <2>2 DEF OwnRowsOnly, FrozenKept
  <2>. QED
    BY <1>1, <2>1, <2>3 DEF LogFresh
<1>5. BalanceFresh(q)'
  <2>1. CASE MovesPoints(q)
    <3>1. pc[q] # "idle"
      BY <2>1 DEF MovesPoints
    <3>2. UserOf(q) \in Users /\ ProfileRow(UserOf(q)) \notin held[r]
      BY <1>1, <2>1, <3>1, UserOfType DEF Holding
    <3>3. profile'[UserOf(q)].available = profile[UserOf(q)].available
      BY <3>2 DEF OwnRowsOnly
    <3>4. input[q].op \in {"redeem", "rename"} => UserOf(q) = input[q].user
      BY DEF UserOf
    <3>. QED
      BY <1>1, <1>2, <1>3, <3>3, <3>4 DEF BalanceFresh
  <2>2. CASE ~MovesPoints(q)
    BY <1>1, <1>3, <2>2 DEF BalanceFresh, MovesPoints
  <2>. QED
    BY <2>1, <2>2
<1>. QED
  BY <1>4, <1>5

(* What a statement reads under its lock is true when it is remembered. *)
LEMMA OwnFresh ==
  ASSUME Inv1, LocksOK, NEW r \in Requests, Start(r) \/ Step(r) \/ Abort(r),
         LogFresh(r), BalanceFresh(r)
  PROVE  LogFresh(r)' /\ BalanceFresh(r)'
<1>. DEFINE in == input[r]
<1>c. /\ ControlAt(pc[r], in, snap[r]) /\ in \in Inputs
      /\ snap[r] \in Snapshots /\ pc[r] \in Labels /\ LogExists(in)
  BY RequestTypes
<1>e. CASE End(r)
  <2>1. pc'[r] = "idle" /\ input'[r] = NoInput
    BY <1>e DEF Inv1, TypeOK, End
  <2>. QED
    BY <2>1 DEF LogFresh, BalanceFresh, Auditing, MovesPoints, NoInput
<1>1. CASE Start(r)
  <2>1. PICK x \in Submissions \cup Audits \cup Purchases \cup Renames :
          input'[r] = x /\ pc'[r] = FirstLabel(x)
    BY <1>1 DEF Start, Goto, Inv1, TypeOK
  <2>2. x.op \in {"submit", "approve", "reject", "redeem", "rename"}
    BY DEF Submissions, Audits, Purchases, Renames
  <2>. QED
    BY <2>1, <2>2 DEF LogFresh, BalanceFresh, Auditing, MovesPoints, FirstLabel
<1>2. CASE Abort(r)
  BY <1>2, <1>e DEF Abort, Refuse
<1>3. CASE LockUser(r)
  <2>1. /\ input' = input /\ pc'[r] \in {"check", "profile"}
        /\ in.op \in {"submit", "rename"}
    BY <1>3, <1>c DEF LockUser, Take, Goto, Inv1, TypeOK, ControlAt
  <2>. QED
    BY <2>1 DEF LogFresh, BalanceFresh, Auditing, MovesPoints
<1>4. CASE (CheckSubmission(r) \/ InsertLog(r)) /\ ~End(r)
  <2>1. in.op = "submit" /\ input' = input
    BY <1>4, <1>c DEF CheckSubmission, InsertLog, ControlAt, Refuse
  <2>. QED
    BY <2>1 DEF LogFresh, BalanceFresh, Auditing
<1>5. CASE LockLog(r) /\ ~End(r)
  <2>. DEFINE log == logs[in.log]
  <2>1. /\ input' = input /\ logs' = logs /\ log.status \in Auditable(in.op)
        /\ pc'[r] = AfterLog(r, log) /\ snap'[r] = LogValues(r, log)
        /\ in.op \in {"approve", "reject"}
    BY <1>5, <1>c DEF LockLog, Refuse, Take, Goto, Remember, Inv1, TypeOK, ControlAt,
                      ledger
  <2>2. /\ snap'[r].was = log.status /\ snap'[r].points = log.points
        /\ snap'[r].inst = log.inst /\ snap'[r].priv = log.priv
        /\ snap'[r].day = log.day
    BY <1>c, <2>1 DEF LogValues, Snapshots
  <2>3. pc'[r] = "profile" \/ (pc'[r] = "derive" /\ in.op = "reject"
                                /\ snap'[r].was # "APPROVED")
    BY <2>1, <2>2 DEF AfterLog
  <2>4. LogFresh(r)'
    BY <2>1, <2>2 DEF LogFresh
  <2>5. BalanceFresh(r)'
    BY <2>1, <2>3 DEF BalanceFresh, MovesPoints
  <2>. QED
    BY <2>4, <2>5
<1>6. CASE (LockProfileForCredit(r) \/ LockProfileForRevocation(r)) /\ ~End(r)
  <2>1. /\ input' = input /\ logs' = logs /\ profile' = profile /\ snap' = snap
        /\ pc[r] = "profile" /\ pc'[r] = "inst"
        /\ in.op = "reject" => profile[UserOf(r)].available >= snap[r].points
        /\ in.op \in {"submit", "approve", "reject"}
    BY <1>6 DEF LockProfileForCredit, LockProfileForRevocation, Refuse, Take, Goto,
                Inv1, TypeOK, ledger
  <2>2. UserOf(r)' = UserOf(r)
    BY <2>1 DEF UserOf
  <2>3. LogFresh(r)'
    BY <2>1 DEF LogFresh, Auditing
  <2>. QED
    BY <2>1, <2>2, <2>3 DEF BalanceFresh
<1>7. CASE (LockProfileForRedeem(r) \/ LockProfileForRename(r)) /\ ~End(r)
  <2>1. PICK cost : /\ input' = input /\ profile' = profile
                    /\ in.op \in {"redeem", "rename"}
                    /\ snap'[r] = [snap[r] EXCEPT !.row = profile[in.user],
                                                  !.cost = cost]
                    /\ profile[in.user].available >= cost
                    /\ (in.op = "redeem" => cost = shop[in.item])
                    /\ (in.op = "rename" => cost = RenameCost(profile[in.user]))
    BY <1>7 DEF LockProfileForRedeem, LockProfileForRename, Refuse, Remember,
                Redeemable, Renamable, Inv1, TypeOK, ledger
  <2>2. in.user \in Users /\ (in.op = "redeem" => in.item \in Items)
    BY <1>c, <2>1, InputFields
  <2>3. cost \in Nat
    <3>1. in.op = "redeem" => shop[in.item] \in Prices \cup {0}
      BY <2>2 DEF Inv1, TypeOK, TablesOK
    <3>2. \A n \in Prices \cup {0} : n \in Nat
      BY LedgerAssumption
    <3>3. RenameCost(profile[in.user]) \in Nat
      BY LedgerAssumption DEF RenameCost
    <3>. QED
      BY <2>1, <3>1, <3>2, <3>3, Zenon
  <2>4. profile[in.user].available \in Int
    BY <2>2 DEF Inv1, TypeOK, TablesOK, ProfileRows
  <2>5. snap'[r].row = profile[in.user] /\ snap'[r].cost = cost
    BY <1>c, <2>1 DEF Snapshots
  <2>. QED
    BY <2>1, <2>3, <2>4, <2>5 DEF LogFresh, BalanceFresh, Auditing
<1>8. CASE LockInstClan(r) \/ LockPrivClan(r)
  <2>1. /\ input' = input /\ logs' = logs /\ snap' = snap /\ profile' = profile
        /\ pc[r] \in {"inst", "priv"} /\ pc'[r] \in {"priv", "derive"}
    BY <1>8 DEF LockInstClan, LockPrivClan, Take, Goto, Inv1, TypeOK, ledger
  <2>2. UserOf(r)' = UserOf(r)
    BY <2>1 DEF UserOf
  <2>. QED
    BY <2>1, <2>2 DEF LogFresh, BalanceFresh, Auditing, MovesPoints
<1>9. CASE Derive(r)
  <2>. DEFINE table == OwnLogs(r, TouchedMissions(r))
  <2>1. /\ input' = input /\ logs' = logs /\ profile' = profile /\ pc[r] = "derive"
        /\ pc'[r] = (IF RejectsPending(r) THEN "streak" ELSE "commit")
        /\ snap'[r] = Derived(r, table)
    BY <1>9 DEF Derive, Goto, Remember, Inv1, TypeOK, ledger
  <2>. HIDE DEF table
  <2>2. /\ snap'[r].was = snap[r].was /\ snap'[r].photo = snap[r].photo
        /\ snap'[r].points = snap[r].points /\ snap'[r].inst = snap[r].inst
        /\ snap'[r].priv = snap[r].priv /\ snap'[r].day = snap[r].day
    BY <1>c, <2>1 DEF Derived, Snapshots
  <2>3. UserOf(r)' = UserOf(r)
    BY <2>1 DEF UserOf
  <2>4. in.op \in {"submit", "approve", "reject"}
    BY <1>c, <2>1 DEF ControlAt
  <2>5. LogFresh(r)'
    BY <2>1, <2>2 DEF LogFresh, Auditing
  <2>6. BalanceFresh(r)'
    BY <2>1, <2>2, <2>3, <2>4 DEF BalanceFresh, MovesPoints, RejectsPending
  <2>. QED
    BY <2>5, <2>6
<1>10. CASE CompareStreak(r) \/ SaveStreak(r)
  <2>1. /\ input' = input /\ logs' = logs /\ snap' = snap
        /\ pc[r] \in {"streak", "save"} /\ pc'[r] \in {"save", "commit"}
    BY <1>10 DEF CompareStreak, SaveStreak, Take, Goto, Inv1, TypeOK, ledger
  <2>2. in.op = "reject" /\ snap[r].was = "PENDING_AUDIT"
    BY <1>c, <2>1 DEF ControlAt
  <2>. QED
    BY <2>1, <2>2 DEF LogFresh, BalanceFresh, Auditing, MovesPoints
<1>11. CASE CommitPending(r) \/ CommitCredited(r) \/ CommitApproval(r)
            \/ CommitRevocation(r) \/ CommitRejection(r) \/ CommitRedeem(r)
            \/ CommitRename(r)
  BY <1>11, <1>e DEF CommitPending, CommitCredited, CommitApproval,
     CommitRevocation, CommitRejection, CommitRedeem, CommitRename
<1>. QED
  BY <1>e, <1>1, <1>2, <1>3, <1>4, <1>5, <1>6, <1>7, <1>8, <1>9, <1>10, <1>11
     DEF Step

(* Locks and remembered values, on top of types and control. *)
Inv2 == Inv1 /\ LocksOK /\ FreshOK

(* No request runs at the start. *)
LEMMA Inv2Init == Init => Inv2
<1>1. Init => FreshOK
  BY DEF Init, FreshOK, LogFresh, BalanceFresh, Auditing, MovesPoints, NoInput
<1>. QED
  BY <1>1, Inv1Init, LocksInit DEF Inv2

(* Remembered values stay those of the rows that are held. *)
LEMMA Inv2Next == Inv2 /\ [Next]_vars => Inv2'
<1>. SUFFICES ASSUME Inv2, [Next]_vars PROVE Inv2'
  OBVIOUS
<1>. USE DEF Inv2
<1>1. Inv1' /\ LocksOK'
  BY Inv1Next, LocksNext
<1>2. CASE UNCHANGED vars \/ Environment
  <2>1. UNCHANGED <<logs, profile, pc, input, snap, held>>
    BY <1>2 DEF vars, environment, ledger, Environment, Tick, EditAction, EditItem,
                AssignHome, SetFavourite
  <2>. QED
    BY <1>1, <2>1 DEF FreshOK, LogFresh, BalanceFresh, Auditing, MovesPoints, UserOf
<1>3. ASSUME NEW r \in Requests, Start(r) \/ Step(r) \/ Abort(r) PROVE Inv2'
  <2>1. FrozenKept /\ Others(r) /\ OwnRowsOnly(r)
    BY <1>3, LogsFrozen, OthersKept, WritesOwnRows
  <2>2. ASSUME NEW q \in Requests PROVE LogFresh(q)' /\ BalanceFresh(q)'
    BY <1>3, <2>1, OthersFresh, OwnFresh DEF FreshOK
  <2>. QED
    BY <1>1, <2>2 DEF FreshOK
<1>. QED
  BY <1>2, <1>3 DEF Next

--------------------------------------------------------------------------------
(* The order of the locks. *)

(* The places of rows and statements. *)
LEMMA RankOf ==
  /\ \A u : Rank(UserRow(u)) = 1 /\ Rank(ProfileRow(u)) = 3
  /\ \A l : Rank(LogRow(l)) = 2
  /\ \A c \in InstClans : Rank(ClanRow(c)) = 4
  /\ \A c \in PrivClans : Rank(ClanRow(c)) = 5
  /\ \A row : Rank(row) \in 1..5
  BY LedgerAssumption DEF Rank, UserRow, ProfileRow, LogRow, ClanRow

LEMMA LevelOf ==
  ASSUME NEW p
  PROVE  /\ LevelAt("idle", p) = 1 /\ LevelAt("user", p) = 1 /\ LevelAt("log", p) = 2
         /\ LevelAt("check", p) = 3 /\ LevelAt("insert", p) = 3
         /\ LevelAt("profile", p) = 3 /\ LevelAt("streak", p) = 3
         /\ LevelAt("save", p) = 3 /\ LevelAt("inst", p) = 4
         /\ LevelAt("priv", p) = 5 /\ LevelAt("commit", p) = 6
         /\ LevelAt("derive", p) = IF p THEN 3 ELSE 6
         /\ \A label \in Labels : LevelAt(label, p) \in 1..6
<1>1. /\ LevelAt("idle", p) = 1 /\ LevelAt("user", p) = 1 /\ LevelAt("log", p) = 2
      /\ LevelAt("check", p) = 3 /\ LevelAt("insert", p) = 3
      /\ LevelAt("profile", p) = 3 /\ LevelAt("streak", p) = 3
      /\ LevelAt("save", p) = 3 /\ LevelAt("inst", p) = 4
      /\ LevelAt("priv", p) = 5 /\ LevelAt("commit", p) = 6
      /\ LevelAt("derive", p) = IF p THEN 3 ELSE 6
  BY DEF LevelAt
<1>. QED
  BY <1>1 DEF Labels

(* A step leaves its request below the level it has reached. *)
LEMMA OrderStep ==
  ASSUME Inv1, OrderOK, NEW r \in Requests, Others(r),
         \A row \in held'[r] : Rank(row) < Level(r)'
  PROVE  OrderOK'
<1>1. ASSUME NEW q \in Requests \ {r} PROVE \A row \in held'[q] : Rank(row) < Level(q)'
  <2>1. pc'[q] = pc[q] /\ input'[q] = input[q] /\ snap'[q] = snap[q]
        /\ held'[q] = held[q]
    BY DEF Others
  <2>2. Level(q)' = Level(q)
    BY <2>1 DEF Level, RejectsPending
  <2>. QED
    BY <2>1, <2>2 DEF OrderOK
<1>. QED
  BY <1>1 DEF OrderOK

(* A statement locks the row of its level and goes on to a higher one, or  *)
(* locks nothing and does not go back.                                     *)
LEMMA ClimbStep ==
  ASSUME Inv1, OrderOK, NEW r \in Requests, Others(r), pc'[r] \in Labels, NEW row,
         \/ Take(r, row) /\ Rank(row) < Level(r)' /\ Level(r) <= Level(r)'
         \/ held' = held /\ Level(r) <= Level(r)'
  PROVE  OrderOK'
<1>1. /\ \A x : Rank(x) \in 1..5
      /\ Level(r) \in 1..6
      /\ Level(r)' \in 1..6
  BY RankOf, LevelOf, RequestTypes DEF Level
<1>2. \A x \in held[r] : Rank(x) < Level(r)
  BY DEF OrderOK
<1>3. held'[r] \subseteq held[r] \cup {row} /\ (Take(r, row) \/ held'[r] = held[r])
  BY DEF Take, Inv1, TypeOK
<1>4. \A x \in held'[r] : Rank(x) < Level(r)'
  BY <1>1, <1>2, <1>3
<1>. QED
  BY <1>4, OrderStep

(* Every statement keeps the order. *)
LEMMA OrderNext == Inv1 /\ OrderOK /\ [Next]_vars => OrderOK'
<1>. SUFFICES ASSUME Inv1, OrderOK, [Next]_vars PROVE OrderOK'
  OBVIOUS
<1>a. Inv1'
  BY Inv1Next
<1>b. CASE UNCHANGED vars \/ Environment
  <2>1. UNCHANGED <<pc, input, snap, held>>
    BY <1>b DEF vars, Environment, Tick, EditAction, EditItem, AssignHome, SetFavourite
  <2>. QED
    BY <2>1 DEF OrderOK, Level, RejectsPending
<1>1. ASSUME NEW r \in Requests, Start(r) \/ Step(r) \/ Abort(r) PROVE OrderOK'
  <2>. DEFINE in == input[r]
  <2>a. Others(r) /\ pc'[r] \in Labels
    BY <1>a, <1>1, OthersKept DEF Inv1, TypeOK
  <2>b. /\ ControlAt(pc[r], in, snap[r]) /\ in \in Inputs
        /\ snap[r] \in Snapshots /\ pc[r] \in Labels
    BY RequestTypes
  <2>e. CASE End(r)
    <3>1. held'[r] = {}
      BY <2>e DEF End, Inv1, TypeOK
    <3>. QED
      BY <2>a, <3>1, OrderStep
  <2>1. CASE Start(r)
    <3>1. held' = held /\ Level(r) = 1
      BY <2>1, LevelOf DEF Start, Level
    <3>2. Level(r)' \in 1..6
      BY <2>a, LevelOf DEF Level
    <3>. QED
      BY <2>a, <3>1, <3>2, ClimbStep
  <2>2. CASE Abort(r)
    BY <2>2, <2>e DEF Abort, Refuse
  <2>3. CASE LockUser(r)
    <3>1. Take(r, UserRow(in.user)) /\ pc[r] = "user" /\ pc'[r] \in {"check", "profile"}
      BY <2>3 DEF LockUser, Goto, Inv1, TypeOK
    <3>2. Level(r) = 1 /\ Level(r)' = 3 /\ Rank(UserRow(in.user)) = 1
      BY <3>1, LevelOf, RankOf DEF Level
    <3>. QED
      BY <2>a, <3>1, <3>2, ClimbStep
  <2>4. CASE (CheckSubmission(r) \/ InsertLog(r)) /\ ~End(r)
    <3>1. /\ held' = held /\ pc[r] \in {"check", "insert"}
          /\ pc'[r] \in {"insert", "commit", "profile"}
      BY <2>4 DEF CheckSubmission, InsertLog, Refuse, Goto, Inv1, TypeOK
    <3>2. Level(r) = 3 /\ Level(r)' \in {3, 6}
      BY <3>1, LevelOf DEF Level
    <3>. QED
      BY <2>a, <3>1, <3>2, ClimbStep
  <2>5. CASE LockLog(r) /\ ~End(r)
    <3>1. /\ Take(r, LogRow(in.log)) /\ pc[r] = "log" /\ pc'[r] \in {"profile", "derive"}
      BY <2>5 DEF LockLog, Refuse, Goto, AfterLog, Inv1, TypeOK
    <3>2. Level(r) = 2 /\ Level(r)' \in {3, 6} /\ Rank(LogRow(in.log)) = 2
      BY <3>1, LevelOf, RankOf DEF Level
    <3>. QED
      BY <2>a, <3>1, <3>2, ClimbStep
  <2>6. CASE (LockProfileForCredit(r) \/ LockProfileForRevocation(r)
              \/ LockProfileForRedeem(r) \/ LockProfileForRename(r)
              \/ SaveStreak(r)) /\ ~End(r)
    <3>1. PICK u : /\ Take(r, ProfileRow(u)) /\ pc[r] \in {"profile", "save"}
                   /\ pc'[r] \in {"inst", "commit"}
      BY <2>6 DEF LockProfileForCredit, LockProfileForRevocation, LockProfileForRedeem,
         LockProfileForRename, SaveStreak, Refuse, Goto, Inv1, TypeOK
    <3>2. Level(r) = 3 /\ Level(r)' \in {4, 6} /\ Rank(ProfileRow(u)) = 3
      BY <3>1, LevelOf, RankOf DEF Level
    <3>. QED
      BY <2>a, <3>1, <3>2, ClimbStep
  <2>7. CASE LockInstClan(r)
    <3>1. /\ Take(r, ClanRow(snap[r].inst)) /\ pc[r] = "inst"
          /\ pc'[r] \in {"derive", "priv"} /\ input' = input /\ snap' = snap
      BY <2>7 DEF LockInstClan, ClanOrder, Goto, Inv1, TypeOK
    <3>2. snap[r].inst \in InstClans
      BY <2>b, <3>1, InputFields DEF ControlAt
    <3>3. ~RejectsPending(r)
      BY <2>b, <3>1 DEF ControlAt, RejectsPending
    <3>4. ~RejectsPending(r)'
      BY <3>1, <3>3 DEF RejectsPending
    <3>5. Level(r) = 4 /\ Level(r)' \in {5, 6} /\ Rank(ClanRow(snap[r].inst)) = 4
      BY <3>1, <3>2, <3>4, LevelOf, RankOf DEF Level
    <3>. QED
      BY <2>a, <3>1, <3>5, ClimbStep
  <2>8. CASE LockPrivClan(r)
    <3>1. /\ Take(r, ClanRow(snap[r].priv)) /\ pc[r] = "priv"
          /\ pc'[r] = "derive" /\ input' = input /\ snap' = snap
      BY <2>8 DEF LockPrivClan, ClanOrder, Goto, Inv1, TypeOK
    <3>2. snap[r].priv \in PrivClans
      BY <2>b, <3>1 DEF ControlAt, Snapshots
    <3>3. ~RejectsPending(r)
      BY <2>b, <3>1 DEF ControlAt, RejectsPending
    <3>4. ~RejectsPending(r)'
      BY <3>1, <3>3 DEF RejectsPending
    <3>5. Level(r) = 5 /\ Level(r)' = 6 /\ Rank(ClanRow(snap[r].priv)) = 5
      BY <3>1, <3>2, <3>4, LevelOf, RankOf DEF Level
    <3>. QED
      BY <2>a, <3>1, <3>5, ClimbStep
  <2>9. CASE Derive(r)
    <3>1. /\ held' = held /\ pc[r] = "derive"
          /\ pc'[r] = IF RejectsPending(r) THEN "streak" ELSE "commit"
      BY <2>9 DEF Derive, Goto, Inv1, TypeOK
    <3>2. Level(r) = (IF RejectsPending(r) THEN 3 ELSE 6)
          /\ Level(r)' = IF RejectsPending(r) THEN 3 ELSE 6
      BY <3>1, LevelOf DEF Level
    <3>. QED
      BY <2>a, <3>1, <3>2, ClimbStep
  <2>10. CASE CompareStreak(r)
    <3>1. held' = held /\ pc[r] = "streak" /\ pc'[r] \in {"commit", "save"}
      BY <2>10 DEF CompareStreak, Goto, Inv1, TypeOK
    <3>2. Level(r) = 3 /\ Level(r)' \in {3, 6}
      BY <3>1, LevelOf DEF Level
    <3>. QED
      BY <2>a, <3>1, <3>2, ClimbStep
  <2>11. CASE CommitPending(r) \/ CommitCredited(r) \/ CommitApproval(r)
              \/ CommitRevocation(r) \/ CommitRejection(r) \/ CommitRedeem(r)
              \/ CommitRename(r)
    BY <2>11, <2>e DEF CommitPending, CommitCredited, CommitApproval,
       CommitRevocation, CommitRejection, CommitRedeem, CommitRename
  <2>. QED
    BY <1>1, <2>e, <2>1, <2>2, <2>3, <2>4, <2>5, <2>6, <2>7, <2>8, <2>9, <2>10, <2>11
       DEF Step
<1>. QED
  BY <1>b, <1>1 DEF Next

(* The row a request waits for is the one of its level. *)
LEMMA WantedRank ==
  ASSUME Inv1, NEW r \in Requests, NEW row \in Wanted(r)
  PROVE  Rank(row) = Level(r)
<1>1. /\ ControlAt(pc[r], input[r], snap[r]) /\ input[r] \in Inputs
      /\ snap[r] \in Snapshots
  BY RequestTypes
<1>2. CASE pc[r] = "user"
  BY <1>2, RankOf, LevelOf DEF Wanted, Level
<1>3. CASE pc[r] = "log"
  BY <1>3, RankOf, LevelOf DEF Wanted, Level
<1>4. CASE pc[r] \in {"profile", "save"}
  BY <1>4, RankOf, LevelOf DEF Wanted, Level
<1>5. CASE pc[r] = "inst"
  <2>1. snap[r].inst \in InstClans
    BY <1>1, <1>5, InputFields DEF ControlAt
  <2>. QED
    BY <1>5, <2>1, RankOf, LevelOf DEF Wanted, Level, ClanOrder
<1>6. CASE pc[r] = "priv"
  <2>1. snap[r].priv \in PrivClans
    BY <1>1, <1>6 DEF ControlAt, Snapshots
  <2>. QED
    BY <1>6, <2>1, RankOf, LevelOf DEF Wanted, Level, ClanOrder
<1>7. CASE pc[r] \notin {"user", "log", "profile", "save", "inst", "priv"}
  BY <1>7 DEF Wanted
<1>. QED
  BY <1>2, <1>3, <1>4, <1>5, <1>6, <1>7

(* The request that has got furthest waits for none of the others. *)
LEMMA FurthestGoesOn == Inv1 /\ OrderOK => NoDeadlock
<1>. SUFFICES ASSUME Inv1, OrderOK, NEW S \in (SUBSET Requests) \ {{}}
              PROVE  \E r \in S : \A q \in S \ {r} : Wanted(r) \cap held[q] = {}
  BY DEF NoDeadlock
<1>. DEFINE T == {Level(r) : r \in S}
<1>1. \A r \in S : r \in Requests /\ Level(r) \in 1..6
  BY LevelOf, RequestTypes DEF Level
<1>2. T \subseteq 0..6 /\ T # {}
  <2>1. \A r \in S : Level(r) \in 0..6
    BY <1>1
  <2>2. \E r : r \in S
    OBVIOUS
  <2>. QED
    BY <2>1, <2>2, Zenon
<1>. HIDE DEF T
<1>3. PICK top \in T : \A y \in T : y <= top
  <2>1. 6 \in Nat
    OBVIOUS
  <2>. QED
    BY <1>2, <2>1, GreatestNatural, Zenon
<1>4. PICK r \in S : Level(r) = top
  BY <1>3 DEF T
<1>5. ASSUME NEW q \in S \ {r}, NEW row \in Wanted(r), row \in held[q] PROVE FALSE
  <2>1. Rank(row) = Level(r)
    BY <1>1, <1>5, WantedRank
  <2>2. Rank(row) < Level(q)
    BY <1>1, <1>5 DEF OrderOK
  <2>3. Level(q) <= top
    BY <1>3, <1>5 DEF T
  <2>. QED
    BY <1>1, <1>4, <2>1, <2>2, <2>3
<1>. QED
  BY <1>5

(* No set of overlapping submissions, audits, purchases and nickname       *)
(* changes ever waits in a circle: the handlers of actions/views.py, the   *)
(* store and change_nickname lock rows in one order.                       *)
THEOREM DeadlockFree == Spec => []NoDeadlock
<1>1. Init => OrderOK
  BY DEF Init, OrderOK
<1>. QED
  BY <1>1, Inv1Init, Inv1Next, OrderNext, FurthestGoesOn, PTL DEF Spec

================================================================================
