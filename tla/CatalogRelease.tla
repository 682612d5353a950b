--------------------------- MODULE CatalogRelease ---------------------------
(* The reference catalog: categories, actions and institutional clans, loaded
   by `load_catalog` (a local DRAFT) or `release_catalog` (an APPROVED fixture
   in a deployed environment), each in one transaction of several statements,
   while administrators edit rows, careers create clans on first use and
   members create and dissolve private clans.

   A row is identified by a primary key, which for a catalog row is derived
   from its key (stable_reference_id), and by a unique code (for a clan: its
   name, unique among the clans that are alive). PostgreSQL runs at READ
   COMMITTED: a statement sees the rows committed before it and its own; an
   INSERT whose key another transaction holds uncommitted waits for it. *)
EXTENDS Integers, Sequences

CONSTANTS Requests,    \* runs of the two commands, one transaction each
          Deliveries,  \* catalog files a command may be started with
          Sites,       \* environments: what settings and connection report
          RandomIds,   \* primary keys uuid4 draws
          Words,       \* acceptable texts
          Blank,       \* a text that is empty once stripped
          MaxPoints,   \* bound of the integers administrators enter
          MaxEdits     \* bound on the writes of everyone but the commands

ASSUME BoundsAssumption == MaxPoints \in Nat /\ MaxEdits \in Nat

VARIABLES site,     \* the environment, fixed
          table,    \* the committed rows
          run,      \* each command: where it is in its transaction
          own,      \* the rows a command inserted and has not committed
          edits,    \* writes so far of everyone but the commands
          touched,  \* keys and codes administrators wrote to
          landed    \* the catalogs whose transaction committed

vars == <<site, table, run, own, edits, touched, landed>>

Kinds == {"category", "action", "clan"}

Nothing == [items |-> <<>>]
Idle == [pc |-> "idle", file |-> Nothing, at |-> 0, rerun |-> FALSE,
         refused |-> FALSE]

(***************************************************************************)
(* Rows.                                                                   *)
(***************************************************************************)

(* Non-key columns, by kind; factors in thousandths. *)
CategoryValues == [name : Words, text : Words \cup {Blank}]
ActionValues == [name : Words, text : Words, points : Nat \ {0},
                 limit : Nat \ {0}, type : {"NONE", "PHOTO"}, factor : Nat,
                 active : BOOLEAN]
ClanValues == [text : (Words \cup {Blank}) \X (Words \cup {Blank}),
               type : {"INSTITUTIONAL", "PRIVATE"},
               privacy : {"PUBLIC", "PRIVATE_INVITE"}, alive : BOOLEAN]
ValuesOf(kind) == CASE kind = "category" -> CategoryValues
                    [] kind = "action" -> ActionValues
                    [] kind = "clan" -> ClanValues

(* stable_reference_id: a key's identifier, the same in every environment. *)
StableId(item) == item.key

(* What the rows of a file have in common whatever it says: categories and
   actions have no key besides their code (load_catalog_data), and only an
   action refers to another row. The categories are a list of their own, worked
   through before the others. A clan is imported alive. A value of another
   JSON type fails validation as a file that does not parse does. *)
CategoryColumns(v) == v = [name |-> v.name, text |-> v.text]
ActionColumns(v) ==
    /\ v = [name |-> v.name, text |-> v.text, points |-> v.points,
            limit |-> v.limit, type |-> v.type, factor |-> v.factor,
            active |-> v.active]
    /\ {v.points, v.limit, v.factor} \subseteq Int
    /\ v.active \in BOOLEAN
ClanColumns(v) ==
    v = [text |-> <<v.text[1], v.text[2]>>, type |-> v.type,
         privacy |-> v.privacy, alive |-> TRUE]

ASSUME CatalogAssumption ==
    \A file \in Deliveries :
        /\ file.items \in Seq({file.items[i] : i \in DOMAIN file.items})
        /\ \A i, j \in DOMAIN file.items :
             file.items[i].kind = "category" /\ file.items[j].kind # "category"
               => i < j
        /\ \A i \in DOMAIN file.items : LET item == file.items[i] IN
             /\ item.kind \in Kinds
             /\ item.kind # "clan" => item.key = item.code
             /\ item.kind # "action" => item.ref = Blank
             /\ CASE item.kind = "category" -> CategoryColumns(item.value)
                  [] item.kind = "action" -> ActionColumns(item.value)
                  [] item.kind = "clan" -> ClanColumns(item.value)

(* The unique code counts for a clan only while it is alive. *)
CodeHeld(row) == row.kind = "clan" => row.value.alive
Collide(a, b) ==
    /\ a.kind = b.kind
    /\ a.id = b.id \/ (a.code = b.code /\ CodeHeld(a) /\ CodeHeld(b))

(* What the statements of command r see; what an INSERT of r waits for. *)
Visible(r) == table \cup own[r]
HeldByOthers(r, row) == \E q \in Requests \ {r} : \E o \in own[q] : Collide(o, row)

(***************************************************************************)
(* Validation of a file, before any database access.                       *)
(***************************************************************************)

Text(v) == v \in Words
OptionalText(v) == v \in Words \cup {Blank}
Code(v) == v \in Words
PositiveInt(v) == v > 0
Factor(v) == v >= 0

ItemsOf(file, kind) == {i \in DOMAIN file.items : file.items[i].kind = kind}
NoDuplicates(file, items) ==
    \A i, j \in items : file.items[i].key = file.items[j].key => i = j

(* The envelope: the expected status and, when approved, the approval. *)
PayloadParts(file, status) ==
    /\ file.parsed
    /\ file.status = status
    /\ status = "APPROVED" => file.approval

ValidCategories(file) == LET categories == ItemsOf(file, "category") IN
    /\ NoDuplicates(file, categories)
    /\ \A i \in categories :
         /\ Code(file.items[i].code)
         /\ Text(file.items[i].value.name)
         /\ OptionalText(file.items[i].value.text)

ValidActions(file) == LET actions == ItemsOf(file, "action") IN
    /\ NoDuplicates(file, actions)
    /\ \A i \in actions : LET v == file.items[i].value IN
         /\ Code(file.items[i].code)
         /\ \E c \in ItemsOf(file, "category") :
               file.items[c].code = file.items[i].ref
         /\ v.type \in {"NONE", "PHOTO"}
         /\ Text(v.name) /\ Text(v.text)
         /\ PositiveInt(v.points) /\ PositiveInt(v.limit)
         /\ Factor(v.factor)

ValidClans(file, requireDetails) == LET clans == ItemsOf(file, "clan") IN
    /\ NoDuplicates(file, clans)
    /\ \A i \in clans : LET v == file.items[i].value IN
         /\ Code(file.items[i].key) /\ Text(file.items[i].code)
         /\ v.type = "INSTITUTIONAL" /\ v.privacy = "PUBLIC"
         /\ IF requireDetails THEN Text(v.text[1]) ELSE OptionalText(v.text[1])
         /\ Text(v.text[2])

ValidateCatalog(file, status) ==
    /\ PayloadParts(file, status)
    /\ ValidCategories(file)
    /\ ValidActions(file)
    /\ ValidClans(file, status = "APPROVED")

(***************************************************************************)
(* Where each command may write.                                           *)
(***************************************************************************)

ConnectionTls(encrypted) == site.tls = encrypted

EnsureLocalDatabase == site.local /\ ConnectionTls(FALSE)

EnsureReleaseTarget ==
    site.deployed /\ site.canonical /\ site.role = "app" /\ site.verified

(* The fixture must match the digest pinned outside the repository. *)
LoadApprovedCatalog(file) == file.pinned /\ ValidateCatalog(file, "APPROVED")

ReleaseAllowed(file) ==
    EnsureReleaseTarget /\ LoadApprovedCatalog(file) /\ ConnectionTls(TRUE)
DraftAllowed(file) ==
    ValidateCatalog(file, "DRAFT") /\ ~site.deployed /\ EnsureLocalDatabase

(***************************************************************************)
(* The transaction of a command.                                           *)
(***************************************************************************)

(* A failed rerun is remembered until the next command of r. *)
Refused(c) ==
    IF c.rerun THEN [pc |-> "idle", file |-> c.file, at |-> 0, rerun |-> FALSE,
                     refused |-> TRUE]
               ELSE Idle

(* Mutant: of the rows a failing command wrote, those inserted before the
   failing statement stay (no transaction around the import). *)
FailKeepingRows(r) ==
    /\ run' = [run EXCEPT ![r] = Refused(run[r])]
    /\ table' = table \cup own[r]
    /\ own' = [own EXCEPT ![r] = {}]
    /\ UNCHANGED <<site, edits, touched, landed>>

(* CommandError or IntegrityError: everything is rolled back. *)
Fail(r) ==
    /\ run' = [run EXCEPT ![r] = Refused(run[r])]
    /\ own' = [own EXCEPT ![r] = {}]
    /\ UNCHANGED <<site, table, edits, touched, landed>>

(* A file or an environment that neither command accepts leaves no trace. *)
Refuse(r) ==
    /\ run[r].pc = "idle"
    /\ \E file \in Deliveries : ~ReleaseAllowed(file) /\ ~DraftAllowed(file)
    /\ UNCHANGED vars

(* One of the commands is started: a release checks for drift first, a draft
   is loaded at once. *)
Start(r) ==
    /\ run[r].pc = "idle"
    /\ \E file \in Deliveries :
         /\ ReleaseAllowed(file) \/ DraftAllowed(file)
         /\ run' = [run EXCEPT ![r] =
                [pc |-> IF file.status = "APPROVED" THEN "preflight" ELSE "find",
                 file |-> file, at |-> 1, rerun |-> file \in landed,
                 refused |-> FALSE]]
    /\ UNCHANGED <<site, table, own, edits, touched, landed>>

Item(r) == run[r].file.items[run[r].at]
Stage(r, pc) == run[r].pc = pc /\ run[r].at <= Len(run[r].file.items)
Finished(r, pc) == run[r].pc = pc /\ run[r].at > Len(run[r].file.items)
Goto(r, pc) == run' = [run EXCEPT ![r].pc = pc]
NextItem(r, pc) == run' = [run EXCEPT ![r].pc = pc, ![r].at = @ + 1]
FirstItem(r, pc) == run' = [run EXCEPT ![r].pc = pc, ![r].at = 1]

RowsWithCode(r, item) == {row \in Visible(r) : row.kind = item.kind /\ row.code = item.code}
RowsWithId(r, item) == {row \in Visible(r) : row.kind = item.kind /\ row.id = StableId(item)}

CategoryDrifts(r, item) ==
    IF RowsWithCode(r, item) # {}
    THEN \E row \in RowsWithCode(r, item) :
           row.id # StableId(item) \/ row.value # item.value
    ELSE RowsWithId(r, item) # {}

ActionDrifts(r, item) ==
    IF RowsWithCode(r, item) # {}
    THEN \E row \in RowsWithCode(r, item) :
           \/ row.id # StableId(item) \/ row.value # item.value
           \/ \E c \in Visible(r) : c.kind = "category" /\ c.id = row.ref
                                    /\ c.code # item.ref
    ELSE RowsWithId(r, item) # {}

ClanDrifts(r, item) ==
    \/ \E row \in RowsWithId(r, item) :
         ~row.value.alive \/ row.code # item.code \/ row.value # item.value
    \/ RowsWithCode(r, item) \ RowsWithId(r, item) # {}

Drifts(r, item) == CASE item.kind = "category" -> CategoryDrifts(r, item)
                     [] item.kind = "action" -> ActionDrifts(r, item)
                     [] item.kind = "clan" -> ClanDrifts(r, item)

(* reject_existing_drift, one item's queries per step. *)
RejectDrift(r, pc, after) ==
    \/ /\ Stage(r, pc) /\ Drifts(r, Item(r))
       /\ Fail(r)
    \/ /\ Stage(r, pc) /\ ~Drifts(r, Item(r))
       /\ NextItem(r, pc)
       /\ UNCHANGED <<site, table, own, edits, touched, landed>>
    \/ /\ Finished(r, pc)
       /\ FirstItem(r, after)
       /\ UNCHANGED <<site, table, own, edits, touched, landed>>

(* The row get_or_create would insert; an action points at the category row
   found or created for its code. *)
NewRow(item) == [kind |-> item.kind, id |-> StableId(item), code |-> item.code,
                 ref |-> item.ref, value |-> item.value]

(* get_or_create looks up categories and actions by code, clans by key. *)
Matches(r, item) ==
    IF item.kind = "clan" THEN RowsWithId(r, item) ELSE RowsWithCode(r, item)

(* An existing row is preserved, whatever its other columns hold, unless it
   is not the catalog's row. *)
Preserved(item, row) ==
    IF item.kind = "clan"
    THEN row.value.alive /\ row.value.type = "INSTITUTIONAL"
         /\ row.value.privacy = "PUBLIC"
    ELSE row.id = StableId(item)

NameTaken(r, item) ==
    item.kind = "clan" /\ RowsWithCode(r, item) \ RowsWithId(r, item) # {}

(* Mutant: a release commits what the import left, without the recheck. *)
AfterImportCommit(file) == "commit"

(* A release checks for drift once more: a concurrent one may have won. *)
AfterImport(file) == IF file.status = "APPROVED" THEN "recheck" ELSE "commit"

(* The lookup half of get_or_create, with the clans' name check before it and
   the identity check after it. *)
Find(r) ==
    \/ /\ Stage(r, "find") /\ ~NameTaken(r, Item(r)) /\ Matches(r, Item(r)) = {}
       /\ Goto(r, "insert")
       /\ UNCHANGED <<site, table, own, edits, touched, landed>>
    \/ /\ Stage(r, "find") /\ ~NameTaken(r, Item(r))
       /\ \E row \in Matches(r, Item(r)) : Preserved(Item(r), row)
       /\ NextItem(r, "find")
       /\ UNCHANGED <<site, table, own, edits, touched, landed>>
    \/ /\ Stage(r, "find")
       /\ \/ NameTaken(r, Item(r))
          \/ \E row \in Matches(r, Item(r)) : ~Preserved(Item(r), row)
       /\ Fail(r)
    \/ /\ Finished(r, "find")
       /\ FirstItem(r, AfterImport(run[r].file))
       /\ UNCHANGED <<site, table, own, edits, touched, landed>>

(* The INSERT half: it waits for a transaction holding its key; when that one
   has committed the key, the row is looked up again and checked like one
   found at first. *)
Insert(r) == LET row == NewRow(Item(r)) IN
    /\ run[r].pc = "insert"
    /\ ~HeldByOthers(r, row)
    /\ \/ /\ ~\E old \in Visible(r) : Collide(old, row)
          /\ own' = [own EXCEPT ![r] = @ \cup {row}]
          /\ NextItem(r, "find")
          /\ UNCHANGED <<site, table, edits, touched, landed>>
       \/ /\ \E old \in Visible(r) : Collide(old, row)
          /\ \E old \in Matches(r, Item(r)) : Preserved(Item(r), old)
          /\ NextItem(r, "find")
          /\ UNCHANGED <<site, table, own, edits, touched, landed>>
       \/ /\ \E old \in Visible(r) : Collide(old, row)
          /\ ~\E old \in Matches(r, Item(r)) : Preserved(Item(r), old)
          /\ Fail(r)

(* Foreign keys are checked at COMMIT. *)
RefersTo(rows, row) ==
    row.kind = "action" => \E c \in rows : c.kind = "category" /\ c.id = row.ref

Commit(r) ==
    /\ run[r].pc = "commit"
    /\ \A row \in own[r] : RefersTo(table \cup own[r], row)
    /\ table' = table \cup own[r]
    /\ own' = [own EXCEPT ![r] = {}]
    /\ landed' = landed \cup {run[r].file}
    /\ run' = [run EXCEPT ![r] = Idle]
    /\ UNCHANGED <<site, edits, touched>>

(* The category of a new action was deleted since it was found. *)
CommitRefused(r) ==
    /\ run[r].pc = "commit"
    /\ ~\A row \in own[r] : RefersTo(table \cup own[r], row)
    /\ Fail(r)

(* A lost connection or a killed process: PostgreSQL rolls back. *)
Crash(r) ==
    /\ run[r].pc # "idle"
    /\ run' = [run EXCEPT ![r] = Idle]
    /\ own' = [own EXCEPT ![r] = {}]
    /\ UNCHANGED <<site, table, edits, touched, landed>>

(***************************************************************************)
(* Everyone else who writes these tables.                                  *)
(***************************************************************************)

(* A write that would break a unique constraint is refused, or waits. *)
Storable(row, rows) ==
    /\ ~\E old \in rows : Collide(old, row)
    /\ ~\E q \in Requests : \E o \in own[q] : Collide(o, row)

Write(rows, keys) ==
    /\ edits < MaxEdits
    /\ edits' = edits + 1
    /\ table' = rows
    /\ touched' = touched \cup keys
    /\ UNCHANGED <<site, run, own, landed>>

(* The admin forms have no read-only column but the identifier
   (actions/admin.py, ClanAdmin): one column changes at a time, and the name
   stands for the columns nothing else looks at. *)
CategoryIds == {row.id : row \in {c \in table : c.kind = "category"}}

Edited(row) ==
    {[row EXCEPT !.code = w] : w \in Words} \cup
    CASE row.kind = "category" ->
           {[row EXCEPT !.value.name = w] : w \in Words}
      [] row.kind = "action" ->
           {[row EXCEPT !.value.points = n] : n \in 1..MaxPoints}
           \cup {[row EXCEPT !.value.active = ~@]}
           \cup {[row EXCEPT !.ref = c] : c \in CategoryIds}
      [] row.kind = "clan" ->
           {[row EXCEPT !.value.alive = ~@]}
           \cup {[row EXCEPT !.value.privacy = p] : p \in {"PUBLIC", "PRIVATE_INVITE"}}

EditRow == \E row \in table : \E new \in Edited(row) :
    /\ new # row
    /\ Storable(new, table \ {row})
    /\ Write((table \ {row}) \cup {new},
             {<<row.kind, row.id>>, <<row.kind, new.code>>})

(* Deletion is refused while another row refers to the row. *)
DeleteRow == \E row \in table :
    /\ row.kind = "category" =>
         \A a \in table : a.kind = "action" => a.ref # row.id
    /\ Write(table \ {row}, {<<row.kind, row.id>>, <<row.kind, row.code>>})

(* The admin site adds a category or an action: a random identifier, any
   free code. *)
AddCategory == \E id \in RandomIds, code \in Words :
    LET row == [kind |-> "category", id |-> id, code |-> code, ref |-> Blank,
                value |-> [name |-> code, text |-> Blank]]
    IN Storable(row, table) /\ Write(table \cup {row}, {})

AddAction == \E id \in RandomIds, code \in Words, c \in table :
    /\ c.kind = "category"
    /\ LET row == [kind |-> "action", id |-> id, code |-> code, ref |-> c.id,
                   value |-> [name |-> code, text |-> code, points |-> 1,
                              limit |-> 1, type |-> "NONE", factor |-> 0,
                              active |-> TRUE]]
       IN Storable(row, table) /\ Write(table \cup {row}, {})

(* A clan named by a member, or created for a career on first use. *)
CreateClan == \E id \in RandomIds, name \in Words, type \in {"INSTITUTIONAL", "PRIVATE"} :
    LET row == [kind |-> "clan", id |-> id, code |-> name, ref |-> Blank,
                value |-> [text |-> <<Blank, Blank>>, type |-> type,
                           privacy |-> "PUBLIC", alive |-> TRUE]]
    IN Storable(row, table) /\ Write(table \cup {row}, {})

(* A leader dissolves a private clan; its name becomes free. *)
DissolveClan == \E row \in table :
    /\ row.kind = "clan" /\ row.value.type = "PRIVATE" /\ row.value.alive
    /\ Write((table \ {row}) \cup {[row EXCEPT !.value.alive = FALSE]}, {})

Init ==
    /\ site \in Sites
    /\ table = {}
    /\ run = [r \in Requests |-> Idle]
    /\ own = [r \in Requests |-> {}]
    /\ edits = 0
    /\ touched = {}
    /\ landed = {}

(* PostgreSQL's deadlock detector aborts one of two commands that wait for
   each other's keys. *)
Deadlocked(r) ==
    /\ run[r].pc = "insert"
    /\ \E q \in Requests \ {r} :
         /\ run[q].pc = "insert"
         /\ \E o \in own[q] : Collide(o, NewRow(Item(r)))
         /\ \E o \in own[r] : Collide(o, NewRow(Item(q)))
    /\ Fail(r)

Step(r) ==
    \/ RejectDrift(r, "preflight", "find")
    \/ Find(r)
    \/ Insert(r)
    \/ RejectDrift(r, "recheck", "commit")
    \/ Commit(r) \/ CommitRefused(r) \/ Deadlocked(r)

Next ==
    \/ \E r \in Requests : Refuse(r) \/ Start(r) \/ Step(r) \/ Crash(r)
    \/ EditRow \/ DeleteRow \/ AddCategory \/ AddAction \/ CreateClan \/ DissolveClan

Spec == Init /\ [][Next]_vars

(***************************************************************************)
(* Properties.                                                             *)
(***************************************************************************)

(* Type: the committed rows have acceptable columns, distinct keys and
   categories that exist (models.py constraints; load_catalog.validate_catalog). *)
TypeOK ==
    /\ site \in Sites
    /\ \A row \in table :
         /\ row.kind \in Kinds /\ row.value \in ValuesOf(row.kind)
         /\ RefersTo(table, row)
         /\ \A other \in table \ {row} : ~Collide(row, other)
    /\ \A r \in Requests :
         run[r].pc \in {"idle", "preflight", "find", "insert", "recheck", "commit"}
    /\ edits \in 0..MaxEdits
    /\ landed \subseteq Deliveries

Touched(item) == {<<item.kind, item.key>>, <<item.kind, item.code>>} \cap touched # {}

(* A row stands as an item says: key, code and columns. An action may be in
   another category only where an administrator wrote to the one approved. *)
Stands(row, item, writes) ==
    /\ row = [kind |-> item.kind, id |-> StableId(item), code |-> item.code,
              ref |-> row.ref, value |-> item.value]
    /\ row.ref # item.ref => <<"category", item.ref>> \in writes

(* release_catalog: once a release has committed, every row of its catalog is
   in the database exactly as approved, except where an administrator wrote
   since; in particular two racing releases of different catalogs never both
   succeed with one of them silently keeping the other's rows. The recheck
   compares an action's category by code (row.category.code), and a code can be
   moved to another category between two of its statements: the category of an
   action is as approved while nobody wrote to the approved one. *)
ReleasesHold ==
    \A file \in landed : file.status = "APPROVED" =>
        \A i \in DOMAIN file.items :
            ~Touched(file.items[i]) =>
                \E row \in table : Stands(row, file.items[i], touched)

(* load_catalog and release_catalog: a row with a catalog identifier was put
   there by a command that committed as a whole (or an administrator changed
   it); a failed or crashed command leaves no row behind. *)
NothingHalf ==
    /\ TypeOK
    /\ \A row \in table :
           \/ row.id \in RandomIds
           \/ <<row.kind, row.id>> \in touched
           \/ \E file \in landed : \E i \in DOMAIN file.items :
                NewRow(file.items[i]) = row

(* release_catalog, "Allow exact reruns": a release of a catalog that already
   landed is refused only when an administrator wrote to one of its rows. *)
RerunsAccepted ==
    \A r \in Requests :
        (run[r].refused /\ run[r].file.status = "APPROVED") =>
            \E i \in DOMAIN run[r].file.items : Touched(run[r].file.items[i])
=============================================================================
