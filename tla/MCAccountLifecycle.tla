--------------------------- MODULE MCAccountLifecycle ---------------------------
(***************************************************************************)
(* Small instances of the accounts for TLC.                                *)
(***************************************************************************)
EXTENDS AccountLifecycle, TLC

(* An administrator, and a student the seed created without a Microsoft id. *)
MCRows == [u \in {1, 2} |->
  IF u = 1 THEN [oid |-> "o1", email |-> "e1", role |-> "ADMIN",
                 active |-> TRUE, left |-> FALSE]
  ELSE [oid |-> None, email |-> "e2", role |-> "STUDENT",
        active |-> TRUE, left |-> FALSE]]

(* A sign-in with and without an answer of Graph. *)
Pair(o, e, g) == [ours |-> TRUE, oid |-> o, claim |-> e, graph |-> g]
GraphAnswer(o, e, t) == [id |-> o, mail |-> e, title |-> t]

(* The student signs in with and without the directory's answer; a newcomer  *)
(* signs in, under a second e-mail too, and someone else gets the first one. *)
(* The last three are refused: another tenant's token, an access token of    *)
(* somebody else, an e-mail from outside.                                    *)
MCTokens ==
  <<{},
    {Pair("o2", "e2", p) : p \in {GraphAnswer("o2", "e2", "PROFESOR"), None}},
    {Pair("o3", "e3", p) : p \in {GraphAnswer("o3", "e3", "PROFESOR"), None}}
      \cup {Pair("o3", "e3", GraphAnswer("o3", "e4", "ALUMNO")),
             Pair("o4", "e3", GraphAnswer("o4", "e3", "ALUMNO")),
             [Pair("o3", "e3", None) EXCEPT !.ours = FALSE],
             Pair("o4", "e4", GraphAnswer("o3", "e4", "ALUMNO")),
             Pair("o4", "outside", None)}>>

(* Administrators come and go; an account is used, left and used again; a   *)
(* career is chosen and changed; a newcomer signs in twice at once.         *)
MCWorkloads ==
  {{"role", "deactivate"} \X {1, 2} \cup {"login"} \X {2},
   {"form", "login", "deactivate"} \X {2} \cup {"role"} \X {1},
   {"login", "deactivate", "submit", "approve", "revoke", "redeem"} \X {2},
   {"login", "deactivate", "onboard"} \X {2},
   {"login", "deactivate"} \X {3}}

(* Request slots are interchangeable. *)
MCSymmetry == Permutations(Requests)

================================================================================
