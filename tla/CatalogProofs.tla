------------------------------ MODULE CatalogProofs ------------------------------
(***************************************************************************)
(* The catalog commands keep their promises for any files, any number of   *)
(* overlapping runs and any edits of administrators.  The argument: rows   *)
(* that are committed or inserted never collide (ApartOK), so the rows a   *)
(* release has found or inserted stay there until an administrator writes  *)
(* to them (LandedOK), and a rerun of it finds exactly what it left.       *)
(***************************************************************************)
EXTENDS CatalogInvariant, TLAPS

(* What the validation of a file says of the rows it describes. *)
LEMMA ItemRow ==
  ASSUME NEW file, Accepted(file), NEW i \in DOMAIN file.items
  PROVE  LET item == file.items[i]
             row == NewRow(item)
         IN  /\ RowOK(row) /\ CodeHeld(row)
             /\ item.kind = "clan" => row.value.type = "INSTITUTIONAL"
                                      /\ row.value.privacy = "PUBLIC" /\ row.value.alive
             /\ item.kind # "clan" => item.key = item.code
<1>. DEFINE item == file.items[i]
            v == item.value
<1>1. /\ item.kind \in Kinds
      /\ item.kind # "clan" => item.key = item.code
      /\ item.kind # "action" => item.ref = Blank
      /\ item.kind = "category" => CategoryColumns(v)
      /\ item.kind = "action" => ActionColumns(v)
      /\ item.kind = "clan" => ClanColumns(v)
  BY CatalogAssumption DEF Accepted, Kinds
<1>. HIDE DEF item
<1>2. CASE item.kind = "category"
  <2>1. v.name \in Words /\ v.text \in Words \cup {Blank}
    BY <1>2 DEF Accepted, ValidateCatalog, ValidCategories, ItemsOf, Text, OptionalText, item
  <2>2. v \in CategoryValues
    BY <1>1, <1>2, <2>1 DEF CategoryColumns, CategoryValues
  <2>. QED
    BY <1>1, <1>2, <2>2 DEF RowOK, NewRow, StableId, CodeHeld, ValuesOf, item
<1>3. CASE item.kind = "action"
  <2>1. /\ v.type \in {"NONE", "PHOTO"} /\ v.name \in Words /\ v.text \in Words
        /\ v.points > 0 /\ v.limit > 0 /\ v.factor >= 0
    BY <1>3 DEF Accepted, ValidateCatalog, ValidActions, ItemsOf, Text, PositiveInt,
                Factor, item
  <2>2. v.points \in Nat \ {0} /\ v.limit \in Nat \ {0} /\ v.factor \in Nat
    BY <1>1, <1>3, <2>1 DEF ActionColumns
  <2>3. v \in ActionValues
    BY <1>1, <1>3, <2>1, <2>2 DEF ActionColumns, ActionValues
  <2>. QED
    BY <1>1, <1>3, <2>3 DEF RowOK, NewRow, StableId, CodeHeld, ValuesOf, item
<1>4. CASE item.kind = "clan"
  <2>1. /\ v.type = "INSTITUTIONAL" /\ v.privacy = "PUBLIC"
        /\ v.text[1] \in Words \cup {Blank} /\ v.text[2] \in Words
    BY <1>4 DEF Accepted, ValidateCatalog, ValidClans, ItemsOf, Text, OptionalText, item
  <2>2. v.alive = TRUE
    BY <1>1, <1>4 DEF ClanColumns
  <2>3. <<v.text[1], v.text[2]>> \in (Words \cup {Blank}) \X (Words \cup {Blank})
    BY <2>1
  <2>4. PICK t \in (Words \cup {Blank}) \X (Words \cup {Blank}) :
          v = [text |-> t, type |-> "INSTITUTIONAL", privacy |-> "PUBLIC", alive |-> TRUE]
    BY <1>1, <1>4, <2>1, <2>3 DEF ClanColumns
  <2>5. v \in ClanValues
    BY <2>4 DEF ClanValues
  <2>. QED
    BY <1>1, <1>4, <2>1, <2>2, <2>5 DEF RowOK, NewRow, StableId, CodeHeld, ValuesOf, item
<1>. QED
  BY <1>1, <1>2, <1>3, <1>4 DEF Kinds, item

(* A file has one item of a kind with a key. *)
LEMMA OneItem ==
  ASSUME NEW file, Accepted(file), NEW i \in DOMAIN file.items,
         NEW j \in DOMAIN file.items, file.items[i].kind = file.items[j].kind,
         file.items[i].key = file.items[j].key
  PROVE  i = j
<1>1. file.items[i].kind \in Kinds
  BY CatalogAssumption DEF Accepted
<1>. QED
  BY <1>1 DEF Accepted, ValidateCatalog, ValidCategories, ValidActions, ValidClans,
              NoDuplicates, ItemsOf, Kinds

LEMMA CollideBothWays == \A a, b : Collide(a, b) <=> Collide(b, a)
  BY DEF Collide

(* What stands as an item says collides with what the item's row does. *)
LEMMA StandsCollides ==
  ASSUME NEW row, NEW item, NEW W, Stands(row, item, W)
  PROVE  /\ row.kind = item.kind /\ row.id = StableId(item) /\ row.code = item.code
         /\ row.value = item.value
         /\ CodeHeld(row) <=> CodeHeld(NewRow(item))
         /\ \A b : /\ Collide(row, b) <=> Collide(NewRow(item), b)
                  /\ Collide(b, row) <=> Collide(b, NewRow(item))
<1>1. /\ row.kind = item.kind /\ row.id = StableId(item) /\ row.code = item.code
      /\ row.value = item.value
  BY DEF Stands
<1>2. CodeHeld(row) <=> CodeHeld(NewRow(item))
  BY <1>1 DEF CodeHeld, NewRow
<1>. QED
  BY <1>1, <1>2 DEF Collide, NewRow

(* An item that nobody wrote to stands as it would be inserted, where its   *)
(* category was left alone too.                                             *)
LEMMA StandsWhole ==
  ASSUME NEW file, Accepted(file), NEW i \in DOMAIN file.items, NEW row, RowOK(row),
         NEW W, Stands(row, file.items[i], W),
         file.items[i].kind = "action" => <<"category", file.items[i].ref>> \notin W
  PROVE  row = NewRow(file.items[i])
<1>. DEFINE item == file.items[i]
<1>1. RowOK(NewRow(item)) /\ NewRow(item).kind = item.kind /\ NewRow(item).ref = item.ref
  BY ItemRow DEF NewRow
<1>. HIDE DEF item
<1>2. row.kind = item.kind
  BY DEF Stands, item
<1>3. row.ref = item.ref
  BY <1>1, <1>2 DEF Stands, RowOK, item
<1>. QED
  BY <1>3 DEF Stands, NewRow, item

(* The category an action names is an item of its file, and comes before it. *)
LEMMA CategoryItem ==
  ASSUME NEW file, Accepted(file), NEW i \in DOMAIN file.items,
         file.items[i].kind = "action"
  PROVE  \E j \in DOMAIN file.items :
           /\ file.items[j].kind = "category" /\ j < i
           /\ file.items[j].code = file.items[i].ref
           /\ StableId(file.items[j]) = file.items[i].ref
           /\ Touched(file.items[j]) <=> <<"category", file.items[i].ref>> \in touched
<1>1. PICK j \in ItemsOf(file, "category") : file.items[j].code = file.items[i].ref
  BY DEF Accepted, ValidateCatalog, ValidActions, ItemsOf
<1>2. j \in DOMAIN file.items /\ file.items[j].kind = "category"
  BY <1>1 DEF ItemsOf
<1>3. j < i /\ file.items[j].key = file.items[j].code
  BY <1>2, CatalogAssumption DEF Accepted
<1>. QED
  BY <1>1, <1>2, <1>3 DEF StableId, Touched

(* A row a command has inserted is the row of an item of its file. *)
LEMMA OwnRow ==
  ASSUME NEW r \in Requests, CommandOK(r), NEW row \in own[r]
  PROVE  /\ Accepted(run[r].file) /\ RowOK(row) /\ CodeHeld(row)
         /\ \E i \in DOMAIN run[r].file.items : row = NewRow(run[r].file.items[i])
<1>1. run[r].pc # "idle"
  BY DEF CommandOK
<1>2. Accepted(run[r].file) /\ own[r] \subseteq RowsOf(run[r].file)
  BY <1>1 DEF CommandOK
<1>3. PICK i \in DOMAIN run[r].file.items : row = NewRow(run[r].file.items[i])
  BY <1>2 DEF RowsOf
<1>. QED
  BY <1>2, <1>3, ItemRow

(* Rows that a command sees and that collide are the same row. *)
LEMMA SameRow ==
  ASSUME ApartOK, NEW r \in Requests, NEW a \in Visible(r), NEW b \in Visible(r),
         Collide(a, b)
  PROVE  a = b
  BY CollideBothWays DEF ApartOK, Visible

--------------------------------------------------------------------------------
(* What a release learns from the statements of its transaction. *)

(* The import found the item's row or inserted it. *)
LEMMA FoundItem ==
  ASSUME NEW r \in Requests, NEW item,
         \E row \in Matches(r, item) : Preserved(item, row)
  PROVE  Present(Visible(r), item)
<1>1. PICK row \in Matches(r, item) : Preserved(item, row)
  OBVIOUS
<1>. QED
  BY <1>1 DEF Matches, Preserved, Present, RowsWithCode, RowsWithId

(* A present item that does not drift is as approved. *)
LEMMA CheckedItem ==
  ASSUME TableOK, ApartOK, NEW r \in Requests, CommandOK(r), run[r].pc # "idle",
         ReleaseOK(r), run[r].pc = "recheck", run[r].file.status = "APPROVED",
         run[r].at \in DOMAIN run[r].file.items, NEW i, i = run[r].at,
         Present(Visible(r), run[r].file.items[i]),
         ~Drifts(r, run[r].file.items[i])
  PROVE  AsApproved(Visible(r), run[r].file.items[i], touched)
<1>. DEFINE file == run[r].file
            item == file.items[i]
            new == NewRow(item)
<1>1. Accepted(file)
  BY DEF CommandOK
<1>2. /\ RowOK(new) /\ new.kind = item.kind /\ new.id = item.key /\ new.code = item.code
      /\ new.ref = item.ref /\ new.value = item.value
      /\ item.kind # "clan" => item.key = item.code
  BY <1>1, ItemRow DEF NewRow, StableId
<1>3. PICK found \in RowsWithId(r, item) : TRUE
  BY DEF Present, RowsWithId
<1>4. \A row \in Visible(r) : RowOK(row)
  BY OwnRow DEF TableOK, Visible
<1>9. Stands(new, item, touched)
  BY DEF Stands, NewRow
<1>10. ASSUME item.kind = "action", <<"category", item.ref>> \notin touched,
              NEW c \in Visible(r), c.kind = "category", c.code = item.ref
       PROVE  c.id = item.ref
  <2>1. PICK j \in DOMAIN file.items :
          /\ file.items[j].kind = "category" /\ j < i
          /\ file.items[j].code = item.ref /\ StableId(file.items[j]) = item.ref
          /\ ~Touched(file.items[j])
    BY <1>1, <1>10, CategoryItem
  <2>2. Rechecked(r, j)
    BY <2>1 DEF Rechecked
  <2>3. AsApproved(Visible(r), file.items[j], touched)
    BY <2>1, <2>2 DEF ReleaseOK
  <2>. QED
    BY <1>10, <2>1, <2>3 DEF AsApproved
<1>. HIDE DEF new, item, file
<1>5. CASE item.kind = "category"
  <2>1. ~CategoryDrifts(r, item)
    BY <1>5 DEF Drifts, item, file
  <2>2. \A row \in RowsWithCode(r, item) : row.id = item.key /\ row.value = item.value
    BY <2>1 DEF CategoryDrifts, StableId
  <2>3. PICK row \in RowsWithCode(r, item) : TRUE
    BY <1>3, <2>1 DEF CategoryDrifts
  <2>4. row \in Visible(r) /\ row.kind = item.kind /\ row.code = item.code /\ RowOK(row)
    BY <1>4, <2>3 DEF RowsWithCode
  <2>5. row = new
    BY <1>2, <1>5, <2>2, <2>3, <2>4 DEF RowOK
  <2>. QED
    BY <1>9, <2>2, <2>4, <2>5 DEF AsApproved, RowsWithCode, StableId, item, file
<1>6. CASE item.kind = "action"
  <2>1. ~ActionDrifts(r, item)
    BY <1>6 DEF Drifts, item, file
  <2>2. \A row \in RowsWithCode(r, item) :
          /\ row.id = item.key /\ row.value = item.value
          /\ \A c \in Visible(r) : c.kind = "category" /\ c.id = row.ref
                                     => c.code = item.ref
    BY <2>1 DEF ActionDrifts, StableId
  <2>3. PICK row \in RowsWithCode(r, item) : TRUE
    BY <1>3, <2>1 DEF ActionDrifts
  <2>4. row \in Visible(r) /\ row.kind = item.kind /\ row.code = item.code /\ RowOK(row)
    BY <1>4, <2>3 DEF RowsWithCode
  <2>5. CASE row \in own[r]
    <3>1. PICK j \in DOMAIN file.items : row = NewRow(file.items[j])
      BY <2>5, OwnRow DEF file
    <3>2. file.items[j].kind = item.kind /\ file.items[j].key = item.key
      BY <2>2, <2>3, <2>4, <3>1 DEF NewRow, StableId
    <3>3. j = i
      BY <1>1, <3>1, <3>2, OneItem DEF item, file
    <3>4. row = new
      BY <3>1, <3>3 DEF new, item
    <3>. QED
      BY <1>9, <2>2, <2>4, <3>4 DEF AsApproved, RowsWithCode, StableId, item, file
  <2>6. CASE row \in table
    <3>1. PICK c \in table : c.kind = "category" /\ c.id = row.ref
      BY <1>6, <2>4, <2>6 DEF TableOK, RefersTo
    <3>2. c.code = item.ref /\ c \in Visible(r)
      BY <2>2, <2>3, <3>1 DEF Visible
    <3>3. row.ref # item.ref => <<"category", item.ref>> \in touched
      BY <1>6, <1>10, <3>1, <3>2
    <3>4. Stands(row, item, touched)
      BY <2>2, <2>3, <2>4, <3>3 DEF Stands, StableId, RowOK
    <3>. QED
      BY <2>2, <2>4, <3>4 DEF AsApproved, RowsWithCode, StableId, item, file
  <2>. QED
    BY <2>4, <2>5, <2>6 DEF Visible
<1>7. CASE item.kind = "clan"
  <2>1. ~ClanDrifts(r, item)
    BY <1>7 DEF Drifts, item, file
  <2>2. /\ found \in Visible(r) /\ found.kind = item.kind /\ found.id = item.key
        /\ RowOK(found)
    BY <1>3, <1>4 DEF RowsWithId, StableId
  <2>3. found.code = item.code /\ found.value = item.value
    BY <1>3, <2>1 DEF ClanDrifts
  <2>4. found = new
    BY <1>2, <1>7, <2>2, <2>3 DEF RowOK
  <2>5. \A row \in RowsWithCode(r, item) : row \in RowsWithId(r, item)
    BY <2>1 DEF ClanDrifts
  <2>. QED
    BY <1>9, <2>2, <2>4, <2>5
       DEF AsApproved, RowsWithCode, RowsWithId, StableId, item, file
<1>8. item.kind \in Kinds
  BY <1>2 DEF RowOK
<1>. QED
  BY <1>5, <1>6, <1>7, <1>8 DEF Kinds

(* A rerun whose rows nobody wrote to sees exactly what it left. *)
LEMMA RerunRows ==
  ASSUME TableOK, ApartOK, LandedOK, NEW r \in Requests, CommandOK(r), run[r].pc # "idle",
         run[r].rerun, run[r].file.status = "APPROVED",
         \A i \in DOMAIN run[r].file.items : ~Touched(run[r].file.items[i])
  PROVE  /\ own[r] = {}
         /\ \A i \in DOMAIN run[r].file.items :
              LET item == run[r].file.items[i]
              IN  /\ NewRow(item) \in table
                  /\ \A row \in Visible(r) :
                       row.kind = item.kind
                         /\ (row.id = StableId(item) \/ row.code = item.code)
                         => row = NewRow(item)
<1>. DEFINE file == run[r].file
<1>1. Accepted(file) /\ file \in landed
  BY DEF CommandOK
<1>2. \A i \in DOMAIN file.items : AsApproved(table, file.items[i], touched)
  BY <1>1 DEF LandedOK
<1>5. ASSUME NEW i \in DOMAIN file.items
      PROVE  NewRow(file.items[i]) \in table
  <2>1. PICK row \in table : Stands(row, file.items[i], touched)
    BY <1>2 DEF AsApproved
  <2>2. file.items[i].kind = "action" => <<"category", file.items[i].ref>> \notin touched
    BY <1>1, CategoryItem
  <2>. QED
    BY <1>1, <2>1, <2>2, StandsWhole DEF TableOK
<1>3. own[r] = {}
  <2>. SUFFICES ASSUME NEW row \in own[r] PROVE FALSE
    OBVIOUS
  <2>1. PICK i \in DOMAIN file.items : row = NewRow(file.items[i])
    BY OwnRow
  <2>2. row \in table
    BY <1>5, <2>1
  <2>3. Collide(row, row)
    BY DEF Collide
  <2>. QED
    BY <2>2, <2>3 DEF ApartOK
<1>4. ASSUME NEW i \in DOMAIN file.items, NEW row \in Visible(r),
             row.kind = file.items[i].kind,
             row.id = StableId(file.items[i]) \/ row.code = file.items[i].code
      PROVE  row = NewRow(file.items[i])
  <2>1. row \in table /\ NewRow(file.items[i]) \in table
    BY <1>3, <1>5 DEF Visible
  <2>2. row.id = StableId(file.items[i])
    BY <1>2, <1>4, <2>1 DEF AsApproved
  <2>3. Collide(row, NewRow(file.items[i]))
    BY <1>4, <2>2 DEF Collide, NewRow
  <2>. QED
    BY <2>1, <2>3 DEF ApartOK
<1>. QED
  BY <1>3, <1>4, <1>5

--------------------------------------------------------------------------------
(* What a step leaves alone. *)

(* The invariant says more than the types. *)
LEMMA Typed ==
  ASSUME TableOK, ApartOK, \A r \in Requests : CommandOK(r)
  PROVE  TypeOK
<1>1. \A row \in table : /\ row.kind \in Kinds /\ row.value \in ValuesOf(row.kind)
                         /\ RefersTo(table, row)
                         /\ \A other \in table \ {row} : ~Collide(row, other)
  BY DEF TableOK, RowOK, ApartOK
<1>2. \A r \in Requests :
        run[r].pc \in {"idle", "preflight", "find", "insert", "recheck", "commit"}
  BY DEF CommandOK
<1>. QED
  BY <1>1, <1>2 DEF TypeOK, TableOK, Accepted

(* Where every row comes from, and why a rerun is refused. *)
Traced(row) ==
  \/ row.id \in RandomIds
  \/ <<row.kind, row.id>> \in touched
  \/ \E file \in landed : \E i \in DOMAIN file.items : NewRow(file.items[i]) = row

RefusalOK(r) ==
  run[r].refused /\ run[r].file.status = "APPROVED" =>
    \E i \in DOMAIN run[r].file.items : Touched(run[r].file.items[i])

Core == /\ TableOK /\ ApartOK /\ LandedOK
        /\ \A r \in Requests : CommandOK(r) /\ ReleaseOK(r) /\ RefusalOK(r)
        /\ \A row \in table : Traced(row)

LEMMA Parts == IInv <=> Core
  BY Typed DEF IInv, Core, NothingHalf, RerunsAccepted, Traced, RefusalOK

ItemsIn(file) == {file.items[i] : i \in DOMAIN file.items}

(* A command that a step does not concern. *)
LEMMA Bystander ==
  ASSUME NEW q \in Requests, CommandOK(q), ReleaseOK(q), RefusalOK(q),
         run'[q] = run[q], own'[q] = own[q], landed \subseteq landed',
         touched \subseteq touched',
         \A item \in ItemsIn(run[q].file) : ~Touched(item)' =>
           /\ Present(Visible(q), item) => Present(Visible(q)', item)
           /\ run[q].pc # "idle" /\ AsApproved(Visible(q), item, touched)
                => AsApproved(Visible(q)', item, touched')
  PROVE  CommandOK(q)' /\ ReleaseOK(q)' /\ RefusalOK(q)'
<1>1. CommandOK(q)'
  BY DEF CommandOK, Accepted
<1>2. \A item : Touched(item) => Touched(item)'
  BY DEF Touched
<1>. PICK c : c = run[q]
  OBVIOUS
<1>3. (Visible(q) = table \cup own[q]) /\ (Visible(q)' = table' \cup own[q])
  BY DEF Visible
<1>4. \A i : (Imported(q, i)' <=> Imported(q, i)) /\ (Rechecked(q, i)' <=> Rechecked(q, i))
  BY DEF Imported, Rechecked
<1>5. ASSUME c.pc # "idle", c.file.status = "APPROVED", NEW i \in DOMAIN c.file.items,
             ~Touched(c.file.items[i])'
      PROVE  /\ Imported(q, i) => Present(Visible(q)', c.file.items[i])
             /\ Rechecked(q, i) => AsApproved(Visible(q)', c.file.items[i], touched')
  <2>1. ~Touched(c.file.items[i]) /\ c.file.items[i] \in ItemsIn(c.file)
    BY <1>2, <1>5 DEF ItemsIn
  <2>2. /\ Imported(q, i) => Present(Visible(q), c.file.items[i])
        /\ Rechecked(q, i) => AsApproved(Visible(q), c.file.items[i], touched)
    BY <1>5, <2>1 DEF ReleaseOK
  <2>. QED
    BY <1>5, <2>1, <2>2
<1>6. ReleaseOK(q)'
  BY <1>4, <1>5 DEF ReleaseOK
<1>7. RefusalOK(q)'
  BY <1>2 DEF RefusalOK
<1>. QED
  BY <1>1, <1>6, <1>7

(* A step of r that writes at most its own inserted rows. *)
LEMMA Quiet ==
  ASSUME Core, NEW r \in Requests, NEW c, NEW S, run' = [run EXCEPT ![r] = c],
         own' = [own EXCEPT ![r] = S], UNCHANGED <<site, table, edits, touched, landed>>,
         CommandOK(r)', ReleaseOK(r)', RefusalOK(r)', ApartOK'
  PROVE  Core'
<1>. USE DEF Core
<1>1. ASSUME NEW q \in Requests \ {r} PROVE CommandOK(q)' /\ ReleaseOK(q)' /\ RefusalOK(q)'
  <2>1. run'[q] = run[q] /\ own'[q] = own[q]
    BY DEF TableOK
  <2>2. Visible(q)' = Visible(q)
    BY <2>1 DEF Visible
  <2>. QED
    BY <2>1, <2>2, Bystander
<1>2. TableOK'
  <2>1. run' = [q \in Requests |-> run'[q]] /\ own' = [q \in Requests |-> own'[q]]
    BY DEF TableOK
  <2>. QED
    BY <2>1 DEF TableOK, Accepted
<1>3. LandedOK' /\ \A row \in table' : Traced(row)'
  BY DEF LandedOK, Touched, Traced
<1>4. \A q \in Requests : CommandOK(q)' /\ ReleaseOK(q)' /\ RefusalOK(q)'
  BY <1>1
<1>. QED
  BY <1>2, <1>3, <1>4

(* A command that ends or dies leaves no row. *)
LEMMA Dropped ==
  ASSUME Core, NEW r \in Requests, Fail(r) \/ Crash(r), run[r].pc # "idle",
         Fail(r) /\ run[r].rerun /\ run[r].file.status = "APPROVED" =>
           \E i \in DOMAIN run[r].file.items : Touched(run[r].file.items[i])
  PROVE  Core'
<1>1. TableOK /\ ApartOK /\ CommandOK(r)
  BY DEF Core
<1>2. PICK c : /\ run' = [run EXCEPT ![r] = c]
               /\ c = Idle \/ (Fail(r) /\ c = Refused(run[r]))
  BY DEF Fail, Crash
<1>3. /\ own' = [own EXCEPT ![r] = {}]
      /\ UNCHANGED <<site, table, edits, touched, landed>>
  BY DEF Fail, Crash
<1>4. run'[r] = c /\ own'[r] = {} /\ \A q \in Requests \ {r} : own'[q] = own[q]
  BY <1>1, <1>2, <1>3 DEF TableOK
<1>5. /\ c = [pc |-> "idle", file |-> c.file, at |-> 0, rerun |-> FALSE,
              refused |-> c.refused]
      /\ c.refused => Fail(r) /\ run[r].rerun /\ c.file = run[r].file
  BY <1>2 DEF Idle, Refused
<1>6. CommandOK(r)'
  BY <1>4, <1>5 DEF CommandOK
<1>7. ReleaseOK(r)'
  BY <1>4, <1>5 DEF ReleaseOK
<1>8. RefusalOK(r)'
  BY <1>3, <1>4, <1>5 DEF RefusalOK, Touched
<1>9. ApartOK'
  BY <1>1, <1>3, <1>4 DEF ApartOK
<1>. QED
  BY <1>2, <1>3, <1>6, <1>7, <1>8, <1>9, Quiet

--------------------------------------------------------------------------------
(* The statements of a command. *)

(* The item at hand is an item of the file. *)
LEMMA ItemHere ==
  ASSUME NEW r \in Requests, CommandOK(r), run[r].pc # "idle",
         run[r].at <= Len(run[r].file.items)
  PROVE  run[r].at \in DOMAIN run[r].file.items
         /\ Item(r) = run[r].file.items[run[r].at]
<1>1. run[r].file.items \in Seq({run[r].file.items[i] : i \in DOMAIN run[r].file.items})
  BY CatalogAssumption DEF CommandOK, Accepted
<1>2. run[r].at \in Nat \ {0}
  BY DEF CommandOK
<1>3. DOMAIN run[r].file.items = 1..Len(run[r].file.items)
      /\ Len(run[r].file.items) \in Nat
  BY <1>1
<1>. QED
  BY <1>2, <1>3 DEF Item

(* A rerun has no reason to fail at an item while nobody wrote to its rows. *)
LEMMA NoReason ==
  ASSUME Core, NEW r \in Requests, run[r].pc # "idle",
         run[r].rerun, run[r].file.status = "APPROVED",
         \A i \in DOMAIN run[r].file.items : ~Touched(run[r].file.items[i]),
         NEW i \in DOMAIN run[r].file.items
  PROVE  LET item == run[r].file.items[i]
         IN  /\ ~Drifts(r, item) /\ ~NameTaken(r, item)
             /\ \A row \in Matches(r, item) : Preserved(item, row)
             /\ \E row \in Matches(r, item) : Preserved(item, row)
<1>. DEFINE item == run[r].file.items[i]
            new == NewRow(item)
<1>1. Accepted(run[r].file)
  BY DEF Core, CommandOK
<1>2. /\ RowOK(new) /\ new.kind = item.kind /\ new.id = item.key /\ new.code = item.code
      /\ new.ref = item.ref /\ new.value = item.value
      /\ item.kind = "clan" => new.value.type = "INSTITUTIONAL"
                               /\ new.value.privacy = "PUBLIC" /\ new.value.alive
  BY <1>1, ItemRow DEF NewRow, StableId
<1>3. /\ new \in Visible(r)
      /\ \A row \in Visible(r) :
           row.kind = item.kind /\ (row.id = StableId(item) \/ row.code = item.code)
             => row = new
  BY RerunRows DEF Core, Visible
<1>4. \A row \in table : RowOK(row)
  BY DEF Core, TableOK
<1>5. own[r] = {}
  BY RerunRows DEF Core
<1>6. new \in table
  BY <1>3, <1>5 DEF Visible
<1>7a. ASSUME item.kind = "action"
       PROVE  \A c \in Visible(r) : c.kind = "category" /\ c.id = item.ref => c.code = item.ref
  <2>1. PICK file : file = run[r].file
    OBVIOUS
  <2>2. Accepted(file) /\ i \in DOMAIN file.items /\ file.items[i].kind = "action"
    BY <1>1, <1>7a, <2>1
  <2>3. PICK j \in DOMAIN file.items :
          /\ file.items[j].kind = "category" /\ j < i
          /\ file.items[j].code = file.items[i].ref
          /\ StableId(file.items[j]) = file.items[i].ref
          /\ Touched(file.items[j]) <=> <<"category", file.items[i].ref>> \in touched
    BY <2>2, CategoryItem
  <2>4. \A c \in Visible(r) : c.kind = "category" /\ c.id = StableId(file.items[j])
          => c = NewRow(file.items[j])
    BY <2>1, <2>3, RerunRows DEF Core
  <2>. QED
    BY <2>1, <2>3, <2>4 DEF NewRow
<1>. HIDE DEF new, item
<1>7. RowsWithCode(r, item) = {new} /\ RowsWithId(r, item) = {new}
  BY <1>2, <1>3 DEF RowsWithCode, RowsWithId, StableId
<1>8. Matches(r, item) = {new} /\ Preserved(item, new)
  BY <1>2, <1>7 DEF Matches, Preserved, StableId
<1>9. ~NameTaken(r, item)
  BY <1>7 DEF NameTaken
<1>10. ~CategoryDrifts(r, item)
  BY <1>2, <1>7 DEF CategoryDrifts, StableId
<1>11. ASSUME item.kind = "action" PROVE ~ActionDrifts(r, item)
  <2>1. \A c \in Visible(r) : c.kind = "category" /\ c.id = new.ref => c.code = item.ref
    BY <1>2, <1>11, <1>7a
  <2>. QED
    BY <1>2, <1>7, <2>1 DEF ActionDrifts, StableId
<1>12. ASSUME item.kind = "clan" PROVE ~ClanDrifts(r, item)
  BY <1>2, <1>7, <1>12 DEF ClanDrifts
<1>13. item.kind \in Kinds
  BY <1>2 DEF RowOK
<1>14. ~Drifts(r, item)
  BY <1>10, <1>11, <1>12, <1>13 DEF Drifts, Kinds
<1>. QED
  BY <1>8, <1>9, <1>14 DEF item

(* Nor at its commit or in a deadlock: it has inserted nothing. *)
LEMMA NothingInserted ==
  ASSUME Core, NEW r \in Requests, run[r].pc # "idle",
         run[r].rerun, run[r].file.status = "APPROVED",
         \A i \in DOMAIN run[r].file.items : ~Touched(run[r].file.items[i])
  PROVE  own[r] = {}
  BY RerunRows DEF Core

(* What a release has to know when it goes on to statement p of item n. *)
Knows(r, p, n) ==
  \A i \in DOMAIN run[r].file.items :
    run[r].file.status = "APPROVED" /\ ~Touched(run[r].file.items[i]) =>
      /\ p = "recheck" \/ (p \in {"find", "insert"} /\ i < n)
           => Present(Visible(r), run[r].file.items[i])
      /\ p = "commit" \/ (p = "recheck" /\ i < n)
           => AsApproved(Visible(r), run[r].file.items[i], touched)

(* A command that goes on to another statement. *)
LEMMA Moved ==
  ASSUME Core, NEW r \in Requests, run[r].pc # "idle", NEW p, NEW n \in Nat \ {0},
         p \in {"find", "insert", "recheck", "commit", "preflight"},
         run' = [run EXCEPT ![r].pc = p, ![r].at = n],
         UNCHANGED <<site, table, own, edits, touched, landed>>,
         p = "insert" => n <= Len(run[r].file.items),
         Knows(r, p, n)
  PROVE  Core'
<1>. DEFINE c == [run[r] EXCEPT !.pc = p, !.at = n]
<1>1. TableOK /\ ApartOK /\ CommandOK(r)
  BY DEF Core
<1>2. run[r] = [pc |-> run[r].pc, file |-> run[r].file, at |-> run[r].at,
                rerun |-> run[r].rerun, refused |-> run[r].refused]
  BY <1>1 DEF CommandOK
<1>3. /\ c = [pc |-> c.pc, file |-> c.file, at |-> c.at, rerun |-> c.rerun,
              refused |-> c.refused]
      /\ c.pc = p /\ c.at = n /\ c.file = run[r].file /\ c.rerun = run[r].rerun
      /\ c.refused = run[r].refused
  <2>1. PICK f, a, u, x, y : run[r] \in [pc : {x}, file : {f}, at : {y}, rerun : {a},
                                         refused : {u}]
    BY <1>2
  <2>2. c \in [pc : {p}, file : {f}, at : {n}, rerun : {a}, refused : {u}]
    BY <2>1
  <2>. HIDE DEF c
  <2>3. c = [pc |-> p, file |-> f, at |-> n, rerun |-> a, refused |-> u]
    BY <2>2
  <2>. QED
    BY <2>1, <2>3
<1>4. run' = [run EXCEPT ![r] = c]
  OBVIOUS
<1>. HIDE DEF c
<1>5. run'[r] = c
  BY <1>1, <1>4 DEF TableOK
<1>6. own' = [own EXCEPT ![r] = own[r]]
  BY <1>1 DEF TableOK
<1>7. CommandOK(r)'
  <2>1. /\ Accepted(run[r].file) /\ own[r] \subseteq RowsOf(run[r].file)
        /\ run[r].rerun => run[r].file \in landed
        /\ ~run[r].refused
    BY <1>1 DEF CommandOK
  <2>2. /\ c.pc \in {"idle", "preflight", "find", "insert", "recheck", "commit"}
        /\ c.pc # "idle" /\ c.at \in Nat \ {0}
        /\ c.pc = "insert" => c.at <= Len(c.file.items)
    BY <1>3
  <2>3. /\ Accepted(c.file) /\ own'[r] \subseteq RowsOf(c.file)
        /\ c.rerun => c.file \in landed'
        /\ ~c.refused
    BY <1>3, <2>1
  <2>4. PICK d : d = c
    OBVIOUS
  <2>. QED
    BY <1>3, <1>5, <2>2, <2>3, <2>4 DEF CommandOK
<1>8. Visible(r)' = Visible(r) /\ \A item : Touched(item)' <=> Touched(item)
  BY DEF Visible, Touched
<1>9. ReleaseOK(r)'
  BY <1>3, <1>5, <1>8 DEF ReleaseOK, Imported, Rechecked, Knows
<1>10. RefusalOK(r)'
  BY <1>1, <1>3, <1>5 DEF RefusalOK, CommandOK
<1>11. ApartOK'
  BY <1>1 DEF ApartOK
<1>. QED
  BY <1>4, <1>6, <1>7, <1>9, <1>10, <1>11, Quiet

(* The three ways to go on. *)
LEMMA Moves ==
  ASSUME TableOK, NEW r \in Requests, CommandOK(r), NEW p
  PROVE  /\ NextItem(r, p) => run' = [run EXCEPT ![r].pc = p, ![r].at = run[r].at + 1]
         /\ FirstItem(r, p) => run' = [run EXCEPT ![r].pc = p, ![r].at = 1]
         /\ Goto(r, p) => run' = [run EXCEPT ![r].pc = p, ![r].at = run[r].at]
<1>1. run[r] = [pc |-> run[r].pc, file |-> run[r].file, at |-> run[r].at,
                rerun |-> run[r].rerun, refused |-> run[r].refused]
  BY DEF CommandOK
<1>2. [run[r] EXCEPT !.pc = p] = [run[r] EXCEPT !.pc = p, !.at = run[r].at]
  <2>1. PICK f, a, u, x, y : run[r] \in [pc : {x}, file : {f}, at : {y}, rerun : {a},
                                         refused : {u}]
    BY <1>1
  <2>. QED
    BY <2>1
<1>. QED
  BY <1>2 DEF NextItem, FirstItem, Goto

(* An item of a file that is neither before nor at the end of its prefix.  *)
LEMMA Positions ==
  ASSUME NEW r \in Requests, CommandOK(r), run[r].pc # "idle",
         NEW i \in DOMAIN run[r].file.items
  PROVE  /\ i \in Nat \ {0} /\ run[r].at \in Nat \ {0}
         /\ i < run[r].at + 1 <=> i < run[r].at \/ i = run[r].at
         /\ run[r].at > Len(run[r].file.items) => i < run[r].at
<1>1. run[r].file.items \in Seq({run[r].file.items[k] : k \in DOMAIN run[r].file.items})
  BY CatalogAssumption DEF CommandOK, Accepted
<1>2. run[r].at \in Nat \ {0}
  BY DEF CommandOK
<1>3. DOMAIN run[r].file.items = 1..Len(run[r].file.items)
      /\ Len(run[r].file.items) \in Nat
  BY <1>1
<1>. QED
  BY <1>2, <1>3

(* The import goes on from an item it has found. *)
LEMMA FoundStep ==
  ASSUME Core, NEW r \in Requests, run[r].pc \in {"find", "insert"},
         run[r].at <= Len(run[r].file.items), NextItem(r, "find"),
         UNCHANGED <<site, table, own, edits, touched, landed>>,
         \E row \in Matches(r, Item(r)) : Preserved(Item(r), row)
  PROVE  Core'
<1>1. TableOK /\ CommandOK(r) /\ ReleaseOK(r)
  BY DEF Core
<1>2. run' = [run EXCEPT ![r].pc = "find", ![r].at = run[r].at + 1]
      /\ run[r].at + 1 \in Nat \ {0}
  BY <1>1, Moves DEF CommandOK
<1>3. /\ run[r].at \in DOMAIN run[r].file.items
      /\ Present(Visible(r), run[r].file.items[run[r].at])
  BY <1>1, ItemHere, FoundItem
<1>4. ASSUME NEW i \in DOMAIN run[r].file.items, run[r].file.status = "APPROVED",
             ~Touched(run[r].file.items[i]), i < run[r].at + 1
      PROVE  Present(Visible(r), run[r].file.items[i])
  <2>1. CASE i = run[r].at
    BY <1>3, <2>1
  <2>2. CASE i < run[r].at
    BY <1>1, <1>4, <2>2 DEF ReleaseOK, Imported
  <2>. QED
    BY <1>1, <1>4, <2>1, <2>2, Positions
<1>5. Knows(r, "find", run[r].at + 1)
  BY <1>4 DEF Knows
<1>. QED
  BY <1>2, <1>5, Moved

(* A failure of a statement at an item. *)
LEMMA FailStep ==
  ASSUME Core, NEW r \in Requests, run[r].pc # "idle", Fail(r),
         run[r].at <= Len(run[r].file.items),
         \/ Drifts(r, Item(r)) \/ NameTaken(r, Item(r))
         \/ \E row \in Matches(r, Item(r)) : ~Preserved(Item(r), row)
         \/ ~\E row \in Matches(r, Item(r)) : Preserved(Item(r), row)
  PROVE  Core'
<1>1. /\ run[r].at \in DOMAIN run[r].file.items
      /\ Item(r) = run[r].file.items[run[r].at]
  BY ItemHere DEF Core
<1>2. ASSUME run[r].rerun, run[r].file.status = "APPROVED",
             \A i \in DOMAIN run[r].file.items : ~Touched(run[r].file.items[i])
      PROVE  FALSE
  BY <1>1, <1>2, NoReason
<1>. QED
  BY <1>2, Dropped

(* A failure of a command that has inserted a row. *)
LEMMA InsertedFails ==
  ASSUME Core, NEW r \in Requests, run[r].pc # "idle", Fail(r), own[r] # {}
  PROVE  Core'
  BY NothingInserted, Dropped

(* A check for drift, before the import or after it. *)
LEMMA CheckStep ==
  ASSUME Core, NEW r \in Requests,
         RejectDrift(r, "preflight", "find") \/ RejectDrift(r, "recheck", "commit")
  PROVE  Core'
<1>1. TableOK /\ ApartOK /\ CommandOK(r) /\ ReleaseOK(r) /\ run[r].pc # "idle"
  BY DEF Core, RejectDrift, Stage, Finished
<1>. PICK p, after : /\ RejectDrift(r, p, after)
                     /\ \/ p = "preflight" /\ after = "find"
                        \/ p = "recheck" /\ after = "commit"
  OBVIOUS
<1>2. CASE Stage(r, p) /\ Drifts(r, Item(r)) /\ Fail(r)
  BY <1>1, <1>2, FailStep DEF Stage
<1>3. CASE /\ Stage(r, p) /\ ~Drifts(r, Item(r)) /\ NextItem(r, p)
           /\ UNCHANGED <<site, table, own, edits, touched, landed>>
  <2>1. run' = [run EXCEPT ![r].pc = p, ![r].at = run[r].at + 1]
        /\ run[r].at + 1 \in Nat \ {0}
    BY <1>1, <1>3, Moves DEF CommandOK
  <2>2. ASSUME NEW i \in DOMAIN run[r].file.items, run[r].file.status = "APPROVED",
               ~Touched(run[r].file.items[i])
        PROVE  /\ p = "recheck" => Present(Visible(r), run[r].file.items[i])
               /\ p = "recheck" /\ i < run[r].at + 1
                    => AsApproved(Visible(r), run[r].file.items[i], touched)
    <3>1. p = "recheck" => Present(Visible(r), run[r].file.items[i])
      BY <1>1, <1>3, <2>2 DEF ReleaseOK, Imported, Stage
    <3>2. p = "recheck" /\ i = run[r].at
            => AsApproved(Visible(r), run[r].file.items[i], touched)
      BY <1>1, <1>3, <2>2, <3>1, CheckedItem DEF Stage, Item
    <3>3. p = "recheck" /\ i < run[r].at
            => AsApproved(Visible(r), run[r].file.items[i], touched)
      BY <1>1, <1>3, <2>2 DEF ReleaseOK, Rechecked, Stage
    <3>. QED
      BY <1>1, <3>1, <3>2, <3>3, Positions
  <2>3. Knows(r, p, run[r].at + 1)
    BY <2>2 DEF Knows
  <2>4. UNCHANGED <<site, table, own, edits, touched, landed>> /\ p # "insert"
        /\ p \in {"find", "insert", "recheck", "commit", "preflight"}
    BY <1>3
  <2>. QED
    BY <1>1, <2>1, <2>3, <2>4, Moved
<1>4. CASE /\ Finished(r, p) /\ FirstItem(r, after)
           /\ UNCHANGED <<site, table, own, edits, touched, landed>>
  <2>1. run' = [run EXCEPT ![r].pc = after, ![r].at = 1]
    BY <1>1, <1>4, Moves
  <2>2. ASSUME NEW i \in DOMAIN run[r].file.items, run[r].file.status = "APPROVED",
               ~Touched(run[r].file.items[i])
        PROVE  /\ ~(i < 1)
               /\ p = "recheck" => AsApproved(Visible(r), run[r].file.items[i], touched)
    <3>1. i < run[r].at /\ ~(i < 1)
      BY <1>1, <1>4, Positions DEF Finished
    <3>. QED
      BY <1>1, <1>4, <2>2, <3>1 DEF ReleaseOK, Rechecked, Finished
  <2>3. Knows(r, after, 1)
    BY <2>2 DEF Knows
  <2>4. UNCHANGED <<site, table, own, edits, touched, landed>> /\ after # "insert"
        /\ after \in {"find", "insert", "recheck", "commit", "preflight"}
        /\ 1 \in Nat \ {0}
    BY <1>4
  <2>. QED
    BY <1>1, <2>1, <2>3, <2>4, Moved
<1>. QED
  BY <1>2, <1>3, <1>4 DEF RejectDrift

(* A command starts with a file that has passed every check. *)
LEMMA StartStep ==
  ASSUME Core, NEW r \in Requests, Start(r)
  PROVE  Core'
<1>1. TableOK /\ ApartOK /\ CommandOK(r) /\ run[r].pc = "idle"
  BY DEF Core, Start
<1>2. PICK file \in Deliveries :
        /\ ReleaseAllowed(file) \/ DraftAllowed(file)
        /\ run' = [run EXCEPT ![r] =
             [pc |-> IF file.status = "APPROVED" THEN "preflight" ELSE "find",
              file |-> file, at |-> 1, rerun |-> file \in landed, refused |-> FALSE]]
  BY DEF Start
<1>3. Accepted(file)
  BY <1>2 DEF ReleaseAllowed, LoadApprovedCatalog, DraftAllowed, Accepted,
              ValidateCatalog, PayloadParts
<1>4. PICK c : /\ run' = [run EXCEPT ![r] = c]
               /\ c = [pc |-> IF file.status = "APPROVED" THEN "preflight" ELSE "find",
                       file |-> file, at |-> 1, rerun |-> file \in landed,
                       refused |-> FALSE]
  BY <1>2
<1>5. UNCHANGED <<site, table, own, edits, touched, landed>>
  BY DEF Start
<1>6. run'[r] = c /\ own' = [own EXCEPT ![r] = own[r]]
  BY <1>1, <1>4, <1>5 DEF TableOK
<1>7. own'[r] = {}
  BY <1>1, <1>5 DEF CommandOK
<1>8. CommandOK(r)'
  <2>1. /\ c = [pc |-> c.pc, file |-> c.file, at |-> c.at, rerun |-> c.rerun,
                refused |-> c.refused]
        /\ c.pc \in {"preflight", "find"} /\ c.file = file /\ c.at = 1
        /\ c.rerun = (file \in landed) /\ c.refused = FALSE
    BY <1>4
  <2>2. /\ c.pc \in {"idle", "preflight", "find", "insert", "recheck", "commit"}
        /\ c.pc # "idle" /\ c.pc # "insert" /\ c.at \in Nat \ {0} /\ Accepted(c.file)
        /\ ~c.refused
    BY <1>3, <2>1
  <2>3. own'[r] \subseteq RowsOf(c.file)
    BY <1>7
  <2>4. c.rerun => c.file \in landed'
    BY <1>5, <2>1
  <2>5. PICK d : d = c
    OBVIOUS
  <2>. QED
    BY <1>6, <2>1, <2>2, <2>3, <2>4, <2>5 DEF CommandOK
<1>9. ReleaseOK(r)'
  BY <1>4, <1>6 DEF ReleaseOK, Imported, Rechecked
<1>10. RefusalOK(r)'
  BY <1>4, <1>6 DEF RefusalOK
<1>11. ApartOK'
  BY <1>1, <1>5 DEF ApartOK
<1>. QED
  BY <1>4, <1>5, <1>6, <1>8, <1>9, <1>10, <1>11, Quiet

(* The lookup of get_or_create. *)
LEMMA FindStep ==
  ASSUME Core, NEW r \in Requests, Find(r)
  PROVE  Core'
<1>1. TableOK /\ CommandOK(r) /\ ReleaseOK(r) /\ run[r].pc = "find"
      /\ run[r].at \in Nat \ {0}
  BY DEF Core, Find, Stage, Finished, CommandOK
<1>2. CASE /\ Stage(r, "find") /\ Goto(r, "insert")
           /\ UNCHANGED <<site, table, own, edits, touched, landed>>
  <2>1. run' = [run EXCEPT ![r].pc = "insert", ![r].at = run[r].at]
    BY <1>1, <1>2, Moves
  <2>2. Knows(r, "insert", run[r].at)
    BY <1>1 DEF Knows, ReleaseOK, Imported
  <2>3. run[r].at <= Len(run[r].file.items)
    BY <1>2 DEF Stage
  <2>. QED
    BY <1>1, <1>2, <2>1, <2>2, <2>3, Moved
<1>3. CASE /\ Stage(r, "find") /\ NextItem(r, "find")
           /\ \E row \in Matches(r, Item(r)) : Preserved(Item(r), row)
           /\ UNCHANGED <<site, table, own, edits, touched, landed>>
  BY <1>1, <1>3, FoundStep DEF Stage
<1>4. CASE /\ Stage(r, "find") /\ Fail(r)
           /\ \/ NameTaken(r, Item(r))
              \/ \E row \in Matches(r, Item(r)) : ~Preserved(Item(r), row)
  BY <1>1, <1>4, FailStep DEF Stage
<1>5. CASE /\ Finished(r, "find") /\ FirstItem(r, AfterImport(run[r].file))
           /\ UNCHANGED <<site, table, own, edits, touched, landed>>
  <2>. PICK p : p = AfterImport(run[r].file)
    OBVIOUS
  <2>1. run' = [run EXCEPT ![r].pc = p, ![r].at = 1]
    BY <1>1, <1>5, Moves
  <2>2. p \in {"find", "insert", "recheck", "commit", "preflight"} /\ p # "insert"
        /\ 1 \in Nat \ {0}
    BY DEF AfterImport
  <2>3. ASSUME NEW i \in DOMAIN run[r].file.items, run[r].file.status = "APPROVED",
               ~Touched(run[r].file.items[i])
        PROVE  p = "recheck" /\ ~(i < 1) /\ Present(Visible(r), run[r].file.items[i])
    <3>1. i < run[r].at /\ ~(i < 1)
      BY <1>1, <1>5, Positions DEF Finished
    <3>. QED
      BY <1>1, <2>3, <3>1 DEF ReleaseOK, Imported, AfterImport
  <2>4. Knows(r, p, 1)
    BY <2>3 DEF Knows
  <2>. QED
    BY <1>1, <1>5, <2>1, <2>2, <2>4, Moved
<1>. QED
  BY <1>2, <1>3, <1>4, <1>5 DEF Find

(* An inserted row collides with none, as the INSERT waited. *)
LEMMA NewRowStep ==
  ASSUME Core, NEW r \in Requests, run[r].pc = "insert", NEW row,
         row = NewRow(Item(r)), ~HeldByOthers(r, row),
         ~\E old \in Visible(r) : Collide(old, row),
         own' = [own EXCEPT ![r] = @ \cup {row}], NextItem(r, "find"),
         UNCHANGED <<site, table, edits, touched, landed>>
  PROVE  Core'
<1>1. TableOK /\ ApartOK /\ CommandOK(r) /\ ReleaseOK(r) /\ run[r].at \in Nat \ {0}
  BY DEF Core, CommandOK
<1>2. /\ run[r].at \in DOMAIN run[r].file.items
      /\ Item(r) = run[r].file.items[run[r].at]
  BY <1>1, ItemHere DEF CommandOK
<1>. DEFINE z == [run[r] EXCEPT !.pc = "find", !.at = run[r].at + 1]
<1>3. PICK c : /\ run' = [run EXCEPT ![r] = c]
               /\ c = [pc |-> "find", file |-> run[r].file, at |-> run[r].at + 1,
                       rerun |-> run[r].rerun, refused |-> run[r].refused]
  <2>1. run[r] = [pc |-> run[r].pc, file |-> run[r].file, at |-> run[r].at,
                  rerun |-> run[r].rerun, refused |-> run[r].refused]
    BY <1>1 DEF CommandOK
  <2>2. PICK f, a, u, x, y : run[r] \in [pc : {x}, file : {f}, at : {y}, rerun : {a},
                                         refused : {u}]
    BY <2>1
  <2>3. run' = [run EXCEPT ![r] = z]
    <3>1. run' = [run EXCEPT ![r].pc = "find", ![r].at = run[r].at + 1]
      BY <1>1, Moves
    <3>. QED
      BY <3>1
  <2>4. z \in [pc : {"find"}, file : {f}, at : {run[r].at + 1}, rerun : {a},
               refused : {u}]
    BY <2>2
  <2>. HIDE DEF z
  <2>5. z = [pc |-> "find", file |-> run[r].file, at |-> run[r].at + 1,
             rerun |-> run[r].rerun, refused |-> run[r].refused]
    BY <2>2, <2>4
  <2>. QED
    BY <2>3, <2>5
<1>4. run'[r] = c /\ own'[r] = own[r] \cup {row}
      /\ \A q \in Requests \ {r} : own'[q] = own[q]
  BY <1>1, <1>3 DEF TableOK
<1>5. own' = [own EXCEPT ![r] = own[r] \cup {row}]
  BY <1>1 DEF TableOK
<1>6. CommandOK(r)'
  <2>1. own'[r] \subseteq RowsOf(run[r].file)
    BY <1>1, <1>2, <1>4 DEF CommandOK, RowsOf
  <2>2. /\ Accepted(run[r].file) /\ ~run[r].refused
        /\ run[r].rerun => run[r].file \in landed
    BY <1>1 DEF CommandOK
  <2>3. /\ c = [pc |-> c.pc, file |-> c.file, at |-> c.at, rerun |-> c.rerun,
                refused |-> c.refused]
        /\ c.pc = "find" /\ c.file = run[r].file /\ c.at = run[r].at + 1
        /\ c.rerun = run[r].rerun /\ c.refused = run[r].refused
    BY <1>3
  <2>4. /\ c.at \in Nat \ {0} /\ Accepted(c.file) /\ ~c.refused
        /\ own'[r] \subseteq RowsOf(c.file)
        /\ c.rerun => c.file \in landed'
    BY <1>1, <2>1, <2>2, <2>3
  <2>5. PICK d : d = c
    OBVIOUS
  <2>. QED
    BY <1>4, <2>3, <2>4, <2>5 DEF CommandOK
<1>7. /\ Visible(r)' = Visible(r) \cup {row}
      /\ \A item : Touched(item)' <=> Touched(item)
  BY <1>4 DEF Visible, Touched
<1>8. ASSUME NEW i \in DOMAIN run[r].file.items, run[r].file.status = "APPROVED",
             ~Touched(run[r].file.items[i]), i < run[r].at + 1
      PROVE  Present(Visible(r)', run[r].file.items[i])
  <2>1. CASE i = run[r].at
    <3>1. /\ row \in Visible(r)' /\ row.kind = run[r].file.items[i].kind
          /\ row.id = StableId(run[r].file.items[i])
      BY <1>2, <1>7, <2>1 DEF NewRow
    <3>. QED
      BY <3>1 DEF Present
  <2>2. CASE i < run[r].at
    <3>1. Present(Visible(r), run[r].file.items[i])
      BY <1>1, <1>8, <2>2 DEF ReleaseOK, Imported
    <3>. QED
      BY <1>7, <3>1 DEF Present
  <2>. QED
    BY <1>1, <1>8, <2>1, <2>2, Positions
<1>9. ReleaseOK(r)'
  BY <1>3, <1>4, <1>7, <1>8 DEF ReleaseOK, Imported, Rechecked
<1>10. RefusalOK(r)'
  BY <1>1, <1>3, <1>4 DEF RefusalOK, CommandOK
<1>11. ApartOK'
  <2>1. \A old \in table \cup own[r] : ~Collide(old, row) /\ ~Collide(row, old)
    BY CollideBothWays DEF Visible
  <2>2. \A q \in Requests \ {r} : \A o \in own[q] : ~Collide(o, row) /\ ~Collide(row, o)
    BY CollideBothWays DEF HeldByOthers
  <2>. QED
    BY <1>1, <1>4, <2>1, <2>2 DEF ApartOK
<1>. QED
  BY <1>3, <1>5, <1>6, <1>9, <1>10, <1>11, Quiet

(* The INSERT of get_or_create. *)
LEMMA InsertStep ==
  ASSUME Core, NEW r \in Requests, Insert(r)
  PROVE  Core'
<1>1. run[r].pc = "insert" /\ run[r].at <= Len(run[r].file.items)
  BY DEF Core, CommandOK, Insert
<1>. PICK row : row = NewRow(Item(r))
  OBVIOUS
<1>2. CASE /\ ~\E old \in Visible(r) : Collide(old, row)
           /\ own' = [own EXCEPT ![r] = @ \cup {row}] /\ NextItem(r, "find")
           /\ UNCHANGED <<site, table, edits, touched, landed>>
  BY <1>1, <1>2, NewRowStep DEF Insert
<1>3. CASE /\ \E old \in Matches(r, Item(r)) : Preserved(Item(r), old)
           /\ NextItem(r, "find")
           /\ UNCHANGED <<site, table, own, edits, touched, landed>>
  BY <1>1, <1>3, FoundStep
<1>4. CASE /\ ~\E old \in Matches(r, Item(r)) : Preserved(Item(r), old)
           /\ Fail(r)
  BY <1>1, <1>4, FailStep
<1>. QED
  BY <1>2, <1>3, <1>4 DEF Insert

(* A foreign key that fails at COMMIT, or the deadlock detector. *)
LEMMA AbortStep ==
  ASSUME Core, NEW r \in Requests, CommitRefused(r) \/ Deadlocked(r) \/ Crash(r)
  PROVE  Core'
<1>1. CASE CommitRefused(r) \/ Deadlocked(r)
  <2>1. run[r].pc # "idle" /\ Fail(r)
    BY <1>1 DEF CommitRefused, Deadlocked
  <2>2. own[r] # {}
    BY <1>1 DEF CommitRefused, Deadlocked
  <2>. QED
    BY <2>1, <2>2, InsertedFails
<1>2. CASE Crash(r) /\ ~(Fail(r) /\ run[r].rerun)
  BY <1>2, Dropped DEF Crash
<1>3. CASE Crash(r) /\ Fail(r) /\ run[r].rerun
  <2>1. run' = [run EXCEPT ![r] = Idle] /\ run' = [run EXCEPT ![r] = Refused(run[r])]
    BY <1>3 DEF Crash, Fail
  <2>2. Idle = Refused(run[r])
    BY <2>1 DEF Core, TableOK
  <2>3. Idle.refused # Refused(run[r]).refused
    BY <1>3 DEF Idle, Refused
  <2>. QED
    BY <2>2, <2>3
<1>. QED
  BY <1>1, <1>2, <1>3

--------------------------------------------------------------------------------
(* The writes that others see. *)

(* Rows as approved stay so among new rows that collide with none of them. *)
LEMMA StaysApproved ==
  ASSUME NEW S, NEW T, S \subseteq T, NEW file, Accepted(file),
         NEW i \in DOMAIN file.items, NEW W, AsApproved(S, file.items[i], W),
         \A row \in T \ S : CodeHeld(row) /\ ~Collide(row, NewRow(file.items[i]))
  PROVE  AsApproved(T, file.items[i], W)
<1>1. CodeHeld(NewRow(file.items[i]))
  BY ItemRow
<1>. QED
  BY <1>1 DEF AsApproved, Collide, NewRow

(* A commit publishes a whole catalog. *)
LEMMA CommitStep ==
  ASSUME Core, NEW r \in Requests, Commit(r)
  PROVE  Core'
<1>1. /\ TableOK /\ ApartOK /\ LandedOK
      /\ \A q \in Requests : CommandOK(q) /\ ReleaseOK(q) /\ RefusalOK(q)
      /\ \A row \in table : Traced(row)
  BY DEF Core
<1>2. /\ run[r].pc = "commit" /\ run' = [run EXCEPT ![r] = Idle]
      /\ own' = [own EXCEPT ![r] = {}] /\ table' = table \cup own[r]
      /\ landed' = landed \cup {run[r].file} /\ UNCHANGED <<site, edits, touched>>
      /\ \A row \in own[r] : RefersTo(table', row)
  BY DEF Commit
<1>3. /\ run'[r] = Idle /\ own'[r] = {}
      /\ \A q \in Requests \ {r} : run'[q] = run[q] /\ own'[q] = own[q]
  BY <1>1, <1>2 DEF TableOK
<1>4. Accepted(run[r].file) /\ own[r] \subseteq RowsOf(run[r].file)
  BY <1>1, <1>2 DEF CommandOK
<1>5. \A row \in own[r] : RowOK(row) /\ CodeHeld(row)
  BY <1>1, OwnRow
<1>6. table' = Visible(r) /\ \A item : Touched(item)' <=> Touched(item)
  BY <1>2 DEF Visible, Touched
<1>7. TableOK'
  <2>1. \A row \in table : RefersTo(table', row)
    BY <1>1, <1>2 DEF TableOK, RefersTo
  <2>2. \A row \in table' : RowOK(row) /\ RefersTo(table', row)
    BY <1>1, <1>2, <1>5, <2>1 DEF TableOK
  <2>3. \A file \in landed' : Accepted(file)
    BY <1>1, <1>2, <1>4 DEF TableOK
  <2>4. run' = [q \in Requests |-> run'[q]] /\ own' = [q \in Requests |-> own'[q]]
    BY <1>1, <1>2 DEF TableOK
  <2>. QED
    BY <1>1, <1>2, <2>2, <2>3, <2>4 DEF TableOK, Accepted
<1>8. ApartOK'
  <2>1. \A a, b \in table' : a # b => ~Collide(a, b)
    BY <1>1, <1>6, SameRow
  <2>2. ASSUME NEW q \in Requests \ {r}, NEW a \in own[q], NEW b \in table'
        PROVE  ~Collide(a, b)
    BY <1>1, <1>2, <2>2 DEF ApartOK
  <2>. QED
    BY <1>1, <1>3, <2>1, <2>2 DEF ApartOK
<1>9. CommandOK(r)' /\ ReleaseOK(r)' /\ RefusalOK(r)'
  BY <1>3 DEF CommandOK, ReleaseOK, RefusalOK, Idle
<1>10. ASSUME NEW q \in Requests \ {r}
       PROVE  CommandOK(q)' /\ ReleaseOK(q)' /\ RefusalOK(q)'
  <2>1. Visible(q)' = Visible(q) \cup own[r]
    BY <1>2, <1>3 DEF Visible
  <2>2. ASSUME NEW i \in DOMAIN run[q].file.items, run[q].pc # "idle",
               AsApproved(Visible(q), run[q].file.items[i], touched)
        PROVE  AsApproved(Visible(q)', run[q].file.items[i], touched')
    <3>1. Accepted(run[q].file)
      BY <1>1, <2>2 DEF CommandOK
    <3>2. PICK s \in table \cup own[q] : Stands(s, run[q].file.items[i], touched)
      BY <2>2 DEF AsApproved, Visible
    <3>3. \A row \in own[r] : ~Collide(row, NewRow(run[q].file.items[i]))
      BY <1>1, <3>2, StandsCollides DEF ApartOK
    <3>4. PICK S, T, W : S = Visible(q) /\ T = Visible(q)' /\ W = touched
      OBVIOUS
    <3>5. AsApproved(T, run[q].file.items[i], W)
      BY <1>5, <2>1, <2>2, <3>1, <3>3, <3>4, StaysApproved
    <3>. QED
      BY <1>2, <3>4, <3>5
  <2>3. \A item : Present(Visible(q), item) => Present(Visible(q)', item)
    BY <2>1 DEF Present
  <2>. QED
    BY <1>1, <1>2, <1>3, <2>2, <2>3, Bystander DEF ItemsIn
<1>11. LandedOK'
  <2>1. ASSUME NEW file \in landed, file.status = "APPROVED", NEW i \in DOMAIN file.items,
               ~Touched(file.items[i])
        PROVE  AsApproved(table', file.items[i], touched')
    <3>1. Accepted(file) /\ AsApproved(table, file.items[i], touched)
      BY <1>1, <2>1 DEF TableOK, LandedOK
    <3>2. PICK s \in table : Stands(s, file.items[i], touched)
      BY <3>1 DEF AsApproved
    <3>3. \A row \in own[r] : ~Collide(row, NewRow(file.items[i]))
      BY <1>1, <3>2, StandsCollides DEF ApartOK
    <3>4. PICK T, W : T = table' /\ W = touched
      OBVIOUS
    <3>5. AsApproved(T, file.items[i], W)
      BY <1>2, <1>5, <3>1, <3>3, <3>4, StaysApproved
    <3>. QED
      BY <1>2, <3>4, <3>5
  <2>2. ASSUME run[r].file.status = "APPROVED", NEW i \in DOMAIN run[r].file.items,
               ~Touched(run[r].file.items[i])
        PROVE  AsApproved(table', run[r].file.items[i], touched')
    BY <1>1, <1>2, <1>6, <2>2 DEF ReleaseOK, Rechecked
  <2>. QED
    BY <1>2, <1>6, <2>1, <2>2 DEF LandedOK
<1>12. \A row \in table' : Traced(row)'
  <2>1. ASSUME NEW row \in table PROVE Traced(row)'
    BY <1>1, <1>2 DEF Traced
  <2>2. ASSUME NEW row \in own[r] PROVE Traced(row)'
    BY <1>2, <1>4 DEF Traced, RowsOf
  <2>. QED
    BY <1>2, <2>1, <2>2
<1>. QED
  BY <1>7, <1>8, <1>9, <1>10, <1>11, <1>12 DEF Core

(* A write of anyone else replaces the rows D by the rows A: it has written *)
(* to each row it removes or the row is a private clan, and a new row has   *)
(* no code that others have, unless it was written to.                      *)
Rewrites(D, A) ==
  /\ table' = (table \ D) \cup A /\ D \subseteq table
  /\ UNCHANGED <<site, run, own, landed>>
  /\ edits' \in 0..MaxEdits /\ touched \subseteq touched'
  /\ \A row \in A : RowOK(row) /\ Traced(row)'
  /\ \A row \in table' : RefersTo(table', row)
  /\ \A a, b \in A : a = b
  /\ \A a \in A : /\ \A b \in table \ D : ~Collide(a, b)
                  /\ \A q \in Requests : \A o \in own[q] : ~Collide(o, a)
  /\ \A d \in D : \/ <<d.kind, d.id>> \in touched'
                  \/ /\ d.kind = "clan" /\ d.value.type = "PRIVATE"
                     /\ \E a \in A : a.kind = d.kind /\ a.id = d.id
  /\ \A a \in A : \/ <<a.kind, a.code>> \in touched'
                  \/ \E d \in D : d.kind = a.kind /\ d.code = a.code /\ d.id = a.id
                  \/ CodeHeld(a)

(* What such a write leaves of the rows of an untouched item. *)
LEMMA Undisturbed ==
  ASSUME Core, NEW D, NEW A, Rewrites(D, A), NEW O, NEW S, NEW T,
         S = table \cup O, T = table' \cup O,
         \A o \in O : \A a \in A : ~Collide(o, a), NEW item, ~Touched(item)',
         NEW W, NEW X, W = touched, X = touched'
  PROVE  /\ Present(S, item) => Present(T, item)
         /\ \A file : \A i \in DOMAIN file.items :
              Accepted(file) /\ item = file.items[i] /\ AsApproved(S, item, W)
                => AsApproved(T, item, X)
<1>1. table' = (table \ D) \cup A /\ D \subseteq table
  BY DEF Rewrites
<1>2. <<item.kind, item.key>> \notin touched' /\ <<item.kind, item.code>> \notin touched'
  BY DEF Touched
<1>3. ASSUME Present(S, item) PROVE Present(T, item)
  <2>1. PICK row \in S : row.kind = item.kind /\ row.id = item.key
    BY <1>3 DEF Present, StableId
  <2>2. CASE row \in D
    <3>1. PICK a \in A : a.kind = row.kind /\ a.id = row.id
      BY <1>2, <2>1, <2>2 DEF Rewrites
    <3>2. a \in T /\ a.kind = item.kind /\ a.id = item.key
      BY <1>1, <2>1, <3>1
    <3>. QED
      BY <3>2 DEF Present, StableId
  <2>3. CASE row \notin D
    <3>1. row \in T
      BY <1>1, <2>1, <2>3
    <3>. QED
      BY <2>1, <3>1 DEF Present, StableId
  <2>. QED
    BY <2>2, <2>3
<1>4. ASSUME NEW file, NEW i \in DOMAIN file.items, Accepted(file), item = file.items[i],
             AsApproved(S, item, W)
      PROVE  AsApproved(T, item, X)
  <2>2. PICK new \in S : Stands(new, item, W)
    BY <1>4 DEF AsApproved
  <2>1. /\ CodeHeld(new) /\ new.kind = item.kind /\ new.id = item.key
        /\ new.code = item.code
        /\ item.kind = "clan" => new.value.type = "INSTITUTIONAL"
    <3>1. /\ new.kind = item.kind /\ new.id = StableId(item) /\ new.code = item.code
          /\ new.value = item.value /\ (CodeHeld(new) <=> CodeHeld(NewRow(item)))
      BY <2>2, StandsCollides
    <3>2. /\ CodeHeld(NewRow(item))
          /\ item.kind = "clan" => NewRow(item).value.type = "INSTITUTIONAL"
      BY <1>4, ItemRow
    <3>. QED
      BY <3>1, <3>2 DEF NewRow, StableId
  <2>3. new \notin D
    BY <1>2, <2>1 DEF Rewrites
  <2>4. new \in T /\ Stands(new, item, X)
    BY <1>1, <2>2, <2>3 DEF Stands, Rewrites
  <2>5. ASSUME NEW a \in A, a.kind = item.kind, a.code = item.code
        PROVE  a.id = item.key
    <3>1. CASE \E d \in D : d.kind = a.kind /\ d.code = a.code /\ d.id = a.id
      <4>1. PICK d \in D : d.kind = a.kind /\ d.code = a.code /\ d.id = a.id
        BY <3>1
      <4>2. d \in S
        BY <1>1, <4>1
      <4>. QED
        BY <1>4, <2>5, <4>1, <4>2 DEF AsApproved, StableId
    <3>2. CASE CodeHeld(a)
      <4>1. Collide(a, new) /\ Collide(new, a)
        BY <2>1, <2>5, <3>2 DEF Collide
      <4>2. new \in O \/ new \in table \ D
        BY <2>2, <2>3
      <4>. QED
        BY <4>1, <4>2 DEF Rewrites
    <3>. QED
      BY <1>2, <2>5, <3>1, <3>2 DEF Rewrites
  <2>6. \A row \in T : row \in S \/ row \in A
    BY <1>1
  <2>. QED
    BY <1>4, <2>4, <2>5, <2>6 DEF AsApproved, StableId
<1>. QED
  BY <1>3, <1>4

LEMMA WriteStep ==
  ASSUME Core, NEW D, NEW A, Rewrites(D, A)
  PROVE  Core'
<1>1. /\ TableOK /\ ApartOK /\ LandedOK
      /\ \A q \in Requests : CommandOK(q) /\ ReleaseOK(q) /\ RefusalOK(q)
      /\ \A row \in table : Traced(row)
  BY DEF Core
<1>2. /\ table' = (table \ D) \cup A /\ D \subseteq table
      /\ UNCHANGED <<site, run, own, landed>>
      /\ edits' \in 0..MaxEdits /\ touched \subseteq touched'
  BY DEF Rewrites
<1>3. TableOK'
  <2>1. \A row \in table' : RowOK(row) /\ RefersTo(table', row)
    BY <1>1, <1>2 DEF TableOK, Rewrites
  <2>2. run' = [q \in Requests |-> run'[q]] /\ own' = [q \in Requests |-> own'[q]]
    BY <1>1, <1>2 DEF TableOK
  <2>. QED
    BY <1>1, <1>2, <2>1, <2>2 DEF TableOK, Accepted
<1>4. ApartOK'
  <2>1. ASSUME NEW a \in table', NEW b \in table', a # b PROVE ~Collide(a, b)
    <3>1. CASE a \in table \ D /\ b \in table \ D
      BY <1>1, <2>1, <3>1 DEF ApartOK
    <3>2. CASE a \in A /\ b \in table \ D
      BY <3>2 DEF Rewrites
    <3>3. CASE a \in table \ D /\ b \in A
      BY <3>3, CollideBothWays DEF Rewrites
    <3>4. CASE a \in A /\ b \in A
      BY <2>1, <3>4 DEF Rewrites
    <3>. QED
      BY <1>2, <3>1, <3>2, <3>3, <3>4
  <2>2. ASSUME NEW q \in Requests, NEW a \in own[q], NEW b \in table'
        PROVE  ~Collide(a, b)
    BY <1>1, <1>2, <2>2 DEF ApartOK, Rewrites
  <2>. QED
    BY <1>1, <1>2, <2>1, <2>2 DEF ApartOK
<1>5. ASSUME NEW q \in Requests
      PROVE  CommandOK(q)' /\ ReleaseOK(q)' /\ RefusalOK(q)'
  <2>1. (Visible(q) = table \cup own[q]) /\ (Visible(q)' = table' \cup own[q])
    BY <1>2 DEF Visible
  <2>2. \A o \in own[q] : \A a \in A : ~Collide(o, a)
    BY DEF Rewrites
  <2>3. ASSUME NEW item \in ItemsIn(run[q].file), ~Touched(item)'
        PROVE  /\ Present(Visible(q), item) => Present(Visible(q)', item)
               /\ run[q].pc # "idle" /\ AsApproved(Visible(q), item, touched)
                    => AsApproved(Visible(q)', item, touched')
    <3>1. PICK S, T, O, W, X : /\ S = Visible(q) /\ T = Visible(q)' /\ O = own[q]
                               /\ W = touched /\ X = touched'
      OBVIOUS
    <3>2. S = table \cup O /\ T = table' \cup O
      BY <2>1, <3>1
    <3>3. /\ Present(S, item) => Present(T, item)
          /\ \A file : \A i \in DOMAIN file.items :
               Accepted(file) /\ item = file.items[i] /\ AsApproved(S, item, W)
                 => AsApproved(T, item, X)
      BY <2>2, <2>3, <3>1, <3>2, Undisturbed
    <3>4. PICK i \in DOMAIN run[q].file.items : item = run[q].file.items[i]
      BY DEF ItemsIn
    <3>5. run[q].pc # "idle" => Accepted(run[q].file)
      BY <1>1 DEF CommandOK
    <3>. QED
      BY <3>1, <3>3, <3>4, <3>5
  <2>4. run'[q] = run[q] /\ own'[q] = own[q] /\ landed \subseteq landed'
    BY <1>2
  <2>. QED
    BY <1>1, <1>2, <2>3, <2>4, Bystander
<1>6. LandedOK'
  <2>1. ASSUME NEW file \in landed, file.status = "APPROVED", NEW i \in DOMAIN file.items,
               ~Touched(file.items[i])'
        PROVE  AsApproved(table', file.items[i], touched')
    <3>1. ~Touched(file.items[i])
      BY <1>2, <2>1 DEF Touched
    <3>2. Accepted(file) /\ AsApproved(table, file.items[i], touched)
      BY <1>1, <2>1, <3>1 DEF TableOK, LandedOK
    <3>3. PICK item, S, T, O, W, X :
            /\ item = file.items[i] /\ S = table /\ T = table' /\ O = {}
            /\ W = touched /\ X = touched'
      OBVIOUS
    <3>4. /\ S = table \cup O /\ T = table' \cup O
          /\ \A o \in O : \A a \in A : ~Collide(o, a)
      BY <3>3
    <3>5. ~Touched(item)'
      BY <2>1, <3>3 DEF Touched
    <3>6. Accepted(file) /\ item = file.items[i] /\ AsApproved(S, item, W)
            => AsApproved(T, item, X)
      BY <3>3, <3>4, <3>5, Undisturbed
    <3>. QED
      BY <3>2, <3>3, <3>6
  <2>. QED
    BY <1>2, <2>1 DEF LandedOK
<1>7. \A row \in table' : Traced(row)'
  <2>1. ASSUME NEW row \in table PROVE Traced(row)'
    BY <1>1, <1>2 DEF Traced
  <2>. QED
    BY <1>2, <2>1 DEF Rewrites
<1>. QED
  BY <1>3, <1>4, <1>5, <1>6, <1>7 DEF Core

(* What a form turns a row into: one column is another. *)
LEMMA EditedRow ==
  ASSUME NEW row, RowOK(row), NEW new \in Edited(row)
  PROVE  /\ RowOK(new) /\ new.kind = row.kind /\ new.id = row.id
         /\ \/ new.ref = row.ref
            \/ row.kind = "action" /\ new.ref \in CategoryIds
<1>1. PICK k, d, c, f, u : /\ row = [kind |-> k, id |-> d, code |-> c, ref |-> f,
                                     value |-> u]
                           /\ k \in Kinds /\ u \in ValuesOf(k)
                           /\ k # "action" => f = Blank
  BY DEF RowOK
<1>2. row.kind = k /\ row.id = d /\ row.code = c /\ row.ref = f /\ row.value = u
  BY <1>1
<1>3. ASSUME NEW w, new = [row EXCEPT !.code = w]
      PROVE  new = [kind |-> k, id |-> d, code |-> w, ref |-> f, value |-> u]
  BY <1>1, <1>3
<1>4. ASSUME NEW v, new = [row EXCEPT !.value = v]
      PROVE  new = [kind |-> k, id |-> d, code |-> c, ref |-> f, value |-> v]
  BY <1>1, <1>4
<1>5. CASE \E w \in Words : new = [row EXCEPT !.code = w]
  BY <1>1, <1>2, <1>3, <1>5 DEF RowOK
<1>6. CASE k = "action" /\ \E b \in CategoryIds : new = [row EXCEPT !.ref = b]
  <2>1. PICK b \in CategoryIds : new = [row EXCEPT !.ref = b]
    BY <1>6
  <2>2. new = [kind |-> k, id |-> d, code |-> c, ref |-> b, value |-> u]
    BY <1>1, <2>1
  <2>. QED
    BY <1>1, <1>2, <1>6, <2>1, <2>2 DEF RowOK
<1>7. ASSUME NEW v \in ValuesOf(k), new = [row EXCEPT !.value = v]
      PROVE  RowOK(new) /\ new.kind = row.kind /\ new.id = row.id /\ new.ref = row.ref
  BY <1>1, <1>2, <1>4, <1>7 DEF RowOK
<1>8. CASE /\ k = "category"
           /\ \E w \in Words : new = [row EXCEPT !.value.name = w]
  <2>1. PICK w \in Words : new = [row EXCEPT !.value.name = w]
    BY <1>8
  <2>2. PICK v \in CategoryValues : v = [u EXCEPT !.name = w]
    BY <1>1, <1>8 DEF ValuesOf, CategoryValues
  <2>. QED
    BY <1>2, <1>7, <1>8, <2>1, <2>2 DEF ValuesOf
<1>9. CASE /\ k = "action"
           /\ \/ \E n \in 1..MaxPoints : new = [row EXCEPT !.value.points = n]
              \/ new = [row EXCEPT !.value.active = ~@]
  <2>1. u \in ActionValues
    BY <1>1, <1>9 DEF ValuesOf
  <2>2. PICK v \in ActionValues : new = [row EXCEPT !.value = v]
    <3>1. CASE \E n \in 1..MaxPoints : new = [row EXCEPT !.value.points = n]
      <4>1. PICK n \in 1..MaxPoints : new = [row EXCEPT !.value.points = n]
        BY <3>1
      <4>2. n \in Nat \ {0}
        OBVIOUS
      <4>3. [u EXCEPT !.points = n] \in ActionValues
        BY <2>1, <4>2 DEF ActionValues
      <4>. QED
        BY <1>2, <4>1, <4>3
    <3>2. CASE new = [row EXCEPT !.value.active = ~@]
      <4>1. [u EXCEPT !.active = ~u.active] \in ActionValues
        BY <2>1 DEF ActionValues
      <4>. QED
        BY <1>2, <3>2, <4>1
    <3>. QED
      BY <1>9, <3>1, <3>2
  <2>. QED
    BY <1>7, <1>9, <2>2 DEF ValuesOf
<1>10. CASE /\ k = "clan"
            /\ \/ new = [row EXCEPT !.value.alive = ~@]
               \/ \E p \in {"PUBLIC", "PRIVATE_INVITE"} :
                    new = [row EXCEPT !.value.privacy = p]
  <2>1. u \in ClanValues
    BY <1>1, <1>10 DEF ValuesOf
  <2>2. PICK v \in ClanValues : new = [row EXCEPT !.value = v]
    <3>1. CASE new = [row EXCEPT !.value.alive = ~@]
      <4>1. [u EXCEPT !.alive = ~u.alive] \in ClanValues
        BY <2>1 DEF ClanValues
      <4>. QED
        BY <1>2, <3>1, <4>1
    <3>2. CASE \E p \in {"PUBLIC", "PRIVATE_INVITE"} : new = [row EXCEPT !.value.privacy = p]
      <4>1. PICK p \in {"PUBLIC", "PRIVATE_INVITE"} : new = [row EXCEPT !.value.privacy = p]
        BY <3>2
      <4>2. [u EXCEPT !.privacy = p] \in ClanValues
        BY <2>1 DEF ClanValues
      <4>. QED
        BY <1>2, <4>1, <4>2
    <3>. QED
      BY <1>10, <3>1, <3>2
  <2>. QED
    BY <1>7, <1>10, <2>2 DEF ValuesOf
<1>11. \/ \E w \in Words : new = [row EXCEPT !.code = w]
       \/ k = "action" /\ \E b \in CategoryIds : new = [row EXCEPT !.ref = b]
       \/ k = "category" /\ \E w \in Words : new = [row EXCEPT !.value.name = w]
       \/ /\ k = "action"
          /\ \/ \E n \in 1..MaxPoints : new = [row EXCEPT !.value.points = n]
             \/ new = [row EXCEPT !.value.active = ~@]
       \/ /\ k = "clan"
          /\ \/ new = [row EXCEPT !.value.alive = ~@]
             \/ \E p \in {"PUBLIC", "PRIVATE_INVITE"} :
                  new = [row EXCEPT !.value.privacy = p]
  BY <1>1, <1>2 DEF Edited, Kinds
<1>. QED
  BY <1>5, <1>6, <1>7, <1>8, <1>9, <1>10, <1>11

(* One write more. *)
LEMMA OneWrite ==
  ASSUME TableOK, NEW rows, NEW keys, Write(rows, keys)
  PROVE  /\ table' = rows /\ touched' = touched \cup keys
         /\ edits' \in 0..MaxEdits /\ UNCHANGED <<site, run, own, landed>>
<1>1. edits \in 0..MaxEdits /\ edits < MaxEdits /\ edits' = edits + 1
  BY DEF TableOK, Write
<1>2. edits' \in 0..MaxEdits
  BY <1>1, BoundsAssumption
<1>. QED
  BY <1>2 DEF Write

(* An administrator saves a changed row. *)
LEMMA EditStep ==
  ASSUME Core, EditRow
  PROVE  Core'
<1>1. TableOK
  BY DEF Core
<1>. PICK row \in table : \E new \in Edited(row) :
       /\ Storable(new, table \ {row})
       /\ Write((table \ {row}) \cup {new},
                {<<row.kind, row.id>>, <<row.kind, new.code>>})
  BY DEF EditRow
<1>2. PICK new \in Edited(row) :
        /\ Storable(new, table \ {row})
        /\ Write((table \ {row}) \cup {new},
                 {<<row.kind, row.id>>, <<row.kind, new.code>>})
  OBVIOUS
<1>3. /\ table' = (table \ {row}) \cup {new} /\ edits' \in 0..MaxEdits
      /\ touched' = touched \cup {<<row.kind, row.id>>, <<row.kind, new.code>>}
      /\ UNCHANGED <<site, run, own, landed>>
  BY <1>1, <1>2, OneWrite
<1>4. /\ RowOK(new) /\ new.kind = row.kind /\ new.id = row.id
      /\ \/ new.ref = row.ref
         \/ row.kind = "action" /\ new.ref \in CategoryIds
  BY <1>1, EditedRow DEF TableOK
<1>5. Traced(new)'
  BY <1>3, <1>4 DEF Traced
<1>6. \A b \in table' : RefersTo(table', b)
  <2>1. \A b \in table : RefersTo(table, b)
    BY <1>1 DEF TableOK
  <2>2. \A b \in table : RefersTo(table', b)
    BY <1>3, <1>4, <2>1 DEF RefersTo
  <2>3. RefersTo(table', new)
    <3>1. CASE new.ref = row.ref
      BY <1>4, <2>2, <3>1 DEF RefersTo
    <3>2. CASE row.kind = "action" /\ new.ref \in CategoryIds
      <4>1. PICK c \in table : c.kind = "category" /\ c.id = new.ref
        BY <3>2 DEF CategoryIds
      <4>2. c \in table'
        BY <1>3, <3>2, <4>1
      <4>. QED
        BY <4>1, <4>2 DEF RefersTo
    <3>. QED
      BY <1>4, <3>1, <3>2
  <2>. QED
    BY <1>3, <2>2, <2>3
<1>7. /\ \A b \in table \ {row} : ~Collide(new, b)
      /\ \A q \in Requests : \A o \in own[q] : ~Collide(o, new)
  BY <1>2, CollideBothWays DEF Storable
<1>8. Rewrites({row}, {new})
  BY <1>3, <1>4, <1>5, <1>6, <1>7 DEF Rewrites
<1>. QED
  BY <1>8, WriteStep

(* An administrator deletes a row nothing refers to. *)
LEMMA DeleteStep ==
  ASSUME Core, DeleteRow
  PROVE  Core'
<1>1. TableOK
  BY DEF Core
<1>2. PICK row \in table :
        /\ row.kind = "category" =>
             \A a \in table : a.kind = "action" => a.ref # row.id
        /\ Write(table \ {row}, {<<row.kind, row.id>>, <<row.kind, row.code>>})
  BY DEF DeleteRow
<1>3. /\ table' = (table \ {row}) \cup {} /\ edits' \in 0..MaxEdits
      /\ touched' = touched \cup {<<row.kind, row.id>>, <<row.kind, row.code>>}
      /\ UNCHANGED <<site, run, own, landed>>
  BY <1>1, <1>2, OneWrite
<1>4. \A b \in table' : RefersTo(table', b)
  BY <1>1, <1>2, <1>3 DEF TableOK, RefersTo
<1>5. Rewrites({row}, {})
  BY <1>3, <1>4 DEF Rewrites
<1>. QED
  BY <1>5, WriteStep

(* A row with a random identifier and a free code. *)
LEMMA AddStep ==
  ASSUME Core, NEW row, RowOK(row), CodeHeld(row), row.id \in RandomIds,
         RefersTo(table, row), Storable(row, table), Write(table \cup {row}, {})
  PROVE  Core'
<1>1. TableOK
  BY DEF Core
<1>2. /\ table' = (table \ {}) \cup {row} /\ edits' \in 0..MaxEdits
      /\ touched' = touched /\ UNCHANGED <<site, run, own, landed>>
  BY <1>1, OneWrite
<1>3. \A b \in table' : RefersTo(table', b)
  BY <1>1, <1>2 DEF TableOK, RefersTo
<1>4. /\ \A b \in table : ~Collide(row, b)
      /\ \A q \in Requests : \A o \in own[q] : ~Collide(o, row)
  BY CollideBothWays DEF Storable
<1>5. Traced(row)'
  BY DEF Traced
<1>6. Rewrites({}, {row})
  BY <1>2, <1>3, <1>4, <1>5 DEF Rewrites
<1>. QED
  BY <1>6, WriteStep

LEMMA AddCategoryStep ==
  ASSUME Core, AddCategory
  PROVE  Core'
<1>1. PICK id \in RandomIds, code \in Words :
        LET row == [kind |-> "category", id |-> id, code |-> code, ref |-> Blank,
                    value |-> [name |-> code, text |-> Blank]]
        IN Storable(row, table) /\ Write(table \cup {row}, {})
  BY DEF AddCategory
<1>2. PICK v \in CategoryValues : v = [name |-> code, text |-> Blank]
  BY DEF CategoryValues
<1>3. PICK row : /\ row = [kind |-> "category", id |-> id, code |-> code, ref |-> Blank,
                           value |-> v]
                 /\ Storable(row, table) /\ Write(table \cup {row}, {})
  BY <1>1, <1>2
<1>4. RowOK(row) /\ CodeHeld(row) /\ row.id \in RandomIds
  BY <1>3 DEF RowOK, CodeHeld, ValuesOf, Kinds
<1>5. RefersTo(table, row)
  BY <1>3 DEF RefersTo
<1>. QED
  BY <1>3, <1>4, <1>5, AddStep

LEMMA AddActionStep ==
  ASSUME Core, AddAction
  PROVE  Core'
<1>1. PICK id \in RandomIds, code \in Words, c \in table :
        /\ c.kind = "category"
        /\ LET row == [kind |-> "action", id |-> id, code |-> code, ref |-> c.id,
                       value |-> [name |-> code, text |-> code, points |-> 1,
                                  limit |-> 1, type |-> "NONE", factor |-> 0,
                                  active |-> TRUE]]
           IN Storable(row, table) /\ Write(table \cup {row}, {})
  BY DEF AddAction
<1>2. PICK v \in ActionValues :
        v = [name |-> code, text |-> code, points |-> 1, limit |-> 1, type |-> "NONE",
             factor |-> 0, active |-> TRUE]
  <2>1. [name |-> code, text |-> code, points |-> 1, limit |-> 1, type |-> "NONE",
         factor |-> 0, active |-> TRUE] \in ActionValues
    BY DEF ActionValues
  <2>. QED
    BY <2>1
<1>3. PICK row : /\ row = [kind |-> "action", id |-> id, code |-> code, ref |-> c.id,
                           value |-> v]
                 /\ Storable(row, table) /\ Write(table \cup {row}, {})
  BY <1>1, <1>2
<1>4. RowOK(row) /\ CodeHeld(row) /\ row.id \in RandomIds
  BY <1>3 DEF RowOK, CodeHeld, ValuesOf, Kinds
<1>5. RefersTo(table, row)
  BY <1>1, <1>3 DEF RefersTo
<1>. QED
  BY <1>3, <1>4, <1>5, AddStep

LEMMA CreateClanStep ==
  ASSUME Core, CreateClan
  PROVE  Core'
<1>1. PICK id \in RandomIds, name \in Words, type \in {"INSTITUTIONAL", "PRIVATE"} :
        LET row == [kind |-> "clan", id |-> id, code |-> name, ref |-> Blank,
                    value |-> [text |-> <<Blank, Blank>>, type |-> type,
                               privacy |-> "PUBLIC", alive |-> TRUE]]
        IN Storable(row, table) /\ Write(table \cup {row}, {})
  BY DEF CreateClan
<1>2. PICK t \in (Words \cup {Blank}) \X (Words \cup {Blank}) : t = <<Blank, Blank>>
  OBVIOUS
<1>3. PICK v \in ClanValues :
        v = [text |-> t, type |-> type, privacy |-> "PUBLIC", alive |-> TRUE]
  BY DEF ClanValues
<1>4. PICK row : /\ row = [kind |-> "clan", id |-> id, code |-> name, ref |-> Blank,
                           value |-> v]
                 /\ Storable(row, table) /\ Write(table \cup {row}, {})
  BY <1>1, <1>2, <1>3
<1>5. RowOK(row) /\ CodeHeld(row) /\ row.id \in RandomIds
  BY <1>3, <1>4 DEF RowOK, CodeHeld, ValuesOf, Kinds
<1>6. RefersTo(table, row)
  BY <1>4 DEF RefersTo
<1>. QED
  BY <1>4, <1>5, <1>6, AddStep

(* A private clan gives its name up; it is no row of a catalog. *)
LEMMA DissolveStep ==
  ASSUME Core, DissolveClan
  PROVE  Core'
<1>1. TableOK /\ ApartOK /\ \A row \in table : Traced(row)
  BY DEF Core
<1>2. PICK row \in table :
        /\ row.kind = "clan" /\ row.value.type = "PRIVATE" /\ row.value.alive
        /\ Write((table \ {row}) \cup {[row EXCEPT !.value.alive = FALSE]}, {})
  BY DEF DissolveClan
<1>3. PICK new : new = [row EXCEPT !.value.alive = FALSE]
  OBVIOUS
<1>4. /\ table' = (table \ {row}) \cup {new} /\ edits' \in 0..MaxEdits
      /\ touched' = touched /\ UNCHANGED <<site, run, own, landed>>
  BY <1>1, <1>2, <1>3, OneWrite
<1>5. /\ RowOK(new) /\ new.kind = row.kind /\ new.id = row.id /\ new.ref = row.ref
      /\ new.code = row.code /\ ~new.value.alive
  <2>1. PICK d, c : row \in [kind : {"clan"}, id : {d}, code : {c}, ref : {Blank},
                             value : ClanValues]
    BY <1>1, <1>2 DEF TableOK, RowOK, ValuesOf
  <2>2. PICK v \in ClanValues : v = [row.value EXCEPT !.alive = FALSE] /\ ~v.alive
    <3>1. row.value \in ClanValues
      BY <2>1
    <3>2. /\ [row.value EXCEPT !.alive = FALSE] \in ClanValues
          /\ [row.value EXCEPT !.alive = FALSE].alive = FALSE
      BY <3>1 DEF ClanValues
    <3>. QED
      BY <3>2
  <2>3. new = [row EXCEPT !.value = v]
    BY <1>3, <2>2
  <2>4. new = [kind |-> "clan", id |-> d, code |-> c, ref |-> Blank, value |-> v]
    BY <2>1, <2>3
  <2>. QED
    BY <2>1, <2>2, <2>4 DEF RowOK, ValuesOf, Kinds
<1>6. Traced(new)'
  <2>1. ASSUME NEW file \in landed, NEW i \in DOMAIN file.items
        PROVE  NewRow(file.items[i]) # row
    <3>1. Accepted(file)
      BY <1>1 DEF TableOK
    <3>. QED
      BY <1>2, <3>1, ItemRow DEF NewRow
  <2>2. row.id \in RandomIds \/ <<row.kind, row.id>> \in touched
    BY <1>1, <2>1 DEF Traced
  <2>. QED
    BY <1>4, <1>5, <2>2 DEF Traced
<1>7. \A b \in table' : RefersTo(table', b)
  <2>1. \A b \in table : RefersTo(table, b)
    BY <1>1 DEF TableOK
  <2>2. \A b \in table : RefersTo(table', b)
    BY <1>4, <1>5, <2>1 DEF RefersTo
  <2>. QED
    BY <1>4, <1>5, <2>2 DEF RefersTo
<1>8. \A b : Collide(new, b) => Collide(row, b)
  BY <1>2, <1>5 DEF Collide, CodeHeld
<1>9. /\ \A b \in table \ {row} : ~Collide(new, b)
      /\ \A q \in Requests : \A o \in own[q] : ~Collide(o, new)
  BY <1>1, <1>8, CollideBothWays DEF ApartOK
<1>10. Rewrites({row}, {new})
  BY <1>2, <1>4, <1>5, <1>6, <1>7, <1>9 DEF Rewrites
<1>. QED
  BY <1>10, WriteStep

--------------------------------------------------------------------------------
(* The invariant and the theorems. *)

LEMMA CoreInit == Init => Core
<1>. SUFFICES ASSUME Init PROVE Core
  OBVIOUS
<1>1. /\ site \in Sites /\ table = {} /\ edits = 0 /\ touched = {} /\ landed = {}
      /\ run = [r \in Requests |-> Idle] /\ own = [r \in Requests |-> {}]
  BY DEF Init
<1>2. \A r \in Requests : run[r] = Idle /\ own[r] = {}
  BY <1>1
<1>3. TableOK
  <2>1. edits \in 0..MaxEdits
    BY <1>1, BoundsAssumption
  <2>. QED
    BY <1>1, <2>1 DEF TableOK
<1>4. ApartOK /\ LandedOK
  BY <1>1, <1>2 DEF ApartOK, LandedOK
<1>5. \A r \in Requests : CommandOK(r) /\ ReleaseOK(r) /\ RefusalOK(r)
  <2>1. /\ Idle = [pc |-> Idle.pc, file |-> Idle.file, at |-> Idle.at,
                   rerun |-> Idle.rerun, refused |-> Idle.refused]
        /\ Idle.pc = "idle" /\ Idle.refused = FALSE
    BY DEF Idle
  <2>2. PICK c : c = Idle
    OBVIOUS
  <2>. QED
    BY <1>2, <2>1, <2>2 DEF CommandOK, ReleaseOK, RefusalOK
<1>. QED
  BY <1>1, <1>3, <1>4, <1>5 DEF Core

LEMMA CoreStep == Core /\ [Next]_vars => Core'
<1>. SUFFICES ASSUME Core, [Next]_vars PROVE Core'
  OBVIOUS
<1>1. CASE UNCHANGED vars
  BY <1>1 DEF vars, Core, TableOK, ApartOK, LandedOK, CommandOK, ReleaseOK, RefusalOK,
              Traced, Visible, Touched, Imported, Rechecked
<1>2. ASSUME NEW r \in Requests, Refuse(r) \/ Start(r) \/ Step(r) \/ Crash(r)
      PROVE  Core'
  <2>1. CASE Refuse(r)
    BY <1>1, <2>1 DEF Refuse
  <2>2. CASE Step(r)
    BY <2>2, CheckStep, FindStep, InsertStep, CommitStep, AbortStep DEF Step
  <2>. QED
    BY <1>2, <2>1, <2>2, StartStep, AbortStep
<1>. QED
  BY <1>1, <1>2, EditStep, DeleteStep, AddCategoryStep, AddActionStep, CreateClanStep,
     DissolveStep
     DEF Next

(* The inductive invariant holds of every file, every number of commands    *)
(* and every edit.                                                          *)
THEOREM CatalogInvariantHolds == Spec => []IInv
<1>1. Init => IInv
  BY CoreInit, Parts
<1>2. IInv /\ [Next]_vars => IInv'
  <2>1. Core' => IInv'
    BY Parts, PTL
  <2>. QED
    BY <2>1, CoreStep, Parts
<1>. QED
  BY <1>1, <1>2, PTL DEF Spec

(* release_catalog: once a release has committed, its rows are there        *)
(* exactly as approved until an administrator writes to them, whichever     *)
(* other releases, drafts and clan owners write in between, and however     *)
(* administrators move codes between the rows; only the category of an      *)
(* action is not held where an administrator wrote to the approved one.     *)
THEOREM ReleasesHoldHolds == Spec => []ReleasesHold
<1>1. IInv => ReleasesHold
  BY DEF IInv, LandedOK, AsApproved, ReleasesHold
<1>. QED
  BY <1>1, CatalogInvariantHolds, PTL

(* load_catalog and release_catalog: a failed or crashed command leaves no  *)
(* row behind, and the rows keep their types, keys and references.          *)
THEOREM NothingHalfHolds == Spec => []NothingHalf
<1>1. IInv => NothingHalf
  BY DEF IInv
<1>. QED
  BY <1>1, CatalogInvariantHolds, PTL

(* release_catalog: a release of a catalog that already landed is refused   *)
(* only where an administrator wrote to one of its rows.                    *)
THEOREM RerunsAcceptedHolds == Spec => []RerunsAccepted
<1>1. IInv => RerunsAccepted
  BY DEF IInv
<1>. QED
  BY <1>1, CatalogInvariantHolds, PTL

================================================================================
