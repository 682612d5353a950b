---------------------------- MODULE CatalogInvariant ----------------------------
(***************************************************************************)
(* The inductive invariant behind the safety properties of CatalogRelease: *)
(* which rows a command has inserted, that no two of them can meet, and    *)
(* what a release knows of the rows of its catalog at every statement.     *)
(***************************************************************************)
EXTENDS CatalogRelease

(* A row has five columns; only actions refer to a row.                    *)
RowOK(row) ==
  /\ row = [kind |-> row.kind, id |-> row.id, code |-> row.code, ref |-> row.ref,
            value |-> row.value]
  /\ row.kind \in Kinds /\ row.value \in ValuesOf(row.kind)
  /\ row.kind # "action" => row.ref = Blank

(* The catalogs a command works with have passed every check. *)
Accepted(file) == file \in Deliveries /\ ValidateCatalog(file, file.status)

RowsOf(file) == {NewRow(file.items[i]) : i \in DOMAIN file.items}

(* Where a command is, and what it has inserted. *)
CommandOK(r) ==
  LET c == run[r]
  IN  /\ c = [pc |-> c.pc, file |-> c.file, at |-> c.at, rerun |-> c.rerun,
              refused |-> c.refused]
      /\ c.pc \in {"idle", "preflight", "find", "insert", "recheck", "commit"}
      /\ c.pc = "idle" => own[r] = {}
      /\ c.pc # "idle" => /\ Accepted(c.file) /\ c.at \in Nat \ {0}
                          /\ own[r] \subseteq RowsOf(c.file)
                          /\ c.rerun => c.file \in landed
                          /\ ~c.refused
      /\ c.pc = "insert" => c.at <= Len(c.file.items)

(* Committed and inserted rows never collide, since an INSERT waits.       *)
ApartOK ==
  /\ \A a, b \in table : a # b => ~Collide(a, b)
  /\ \A r \in Requests :
       /\ \A a \in own[r], b \in table : ~Collide(a, b)
       /\ \A a, b \in own[r] : a # b => ~Collide(a, b)
       /\ \A q \in Requests \ {r} : \A a \in own[r], b \in own[q] : ~Collide(a, b)

TableOK == /\ \A row \in table : RowOK(row) /\ RefersTo(table, row)
           /\ \A file \in landed : Accepted(file)
           /\ site \in Sites /\ edits \in 0..MaxEdits
           /\ run = [r \in Requests |-> run[r]] /\ own = [r \in Requests |-> own[r]]

(* Rows hold a row with the identifier of an item; and they hold the item  *)
(* as approved, while nothing else bears its code.                         *)
Present(rows, item) ==
  \E row \in rows : row.kind = item.kind /\ row.id = StableId(item)

AsApproved(rows, item, writes) ==
  /\ \E row \in rows : Stands(row, item, writes)
  /\ \A row \in rows : row.kind = item.kind /\ row.code = item.code
                         => row.id = StableId(item)

(* A release has imported an item, and has checked it again. *)
Imported(r, i) == \/ run[r].pc = "recheck"
                  \/ run[r].pc \in {"find", "insert"} /\ i < run[r].at
Rechecked(r, i) == \/ run[r].pc = "commit"
                   \/ run[r].pc = "recheck" /\ i < run[r].at

(* What it has imported is there, and what it has checked again is as      *)
(* approved, unless an administrator wrote to it.                          *)
ReleaseOK(r) ==
  run[r].pc # "idle" /\ run[r].file.status = "APPROVED" =>
    \A i \in DOMAIN run[r].file.items :
      LET item == run[r].file.items[i]
      IN  ~Touched(item) =>
            /\ Imported(r, i) => Present(Visible(r), item)
            /\ Rechecked(r, i) => AsApproved(Visible(r), item, touched)

(* And so they stay after the commit. *)
LandedOK ==
  \A file \in landed : file.status = "APPROVED" =>
    \A i \in DOMAIN file.items :
      ~Touched(file.items[i]) => AsApproved(table, file.items[i], touched)

(* The inductive invariant. *)
IInv == /\ TableOK /\ ApartOK
        /\ \A r \in Requests : CommandOK(r) /\ ReleaseOK(r)
        /\ LandedOK /\ NothingHalf /\ RerunsAccepted

================================================================================
