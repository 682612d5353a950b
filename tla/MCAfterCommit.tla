----------------------------- MODULE MCAfterCommit -----------------------------
(***************************************************************************)
(* A small instance of the side effects for TLC.                           *)
(***************************************************************************)
EXTENDS AfterCommitInvariant

CONSTANTS s1, s2, k1, k2

(* Photos against links, deactivation and return; evidence against audits   *)
(* and deactivation; two logs that name one object; live notifications of   *)
(* audits, read, hidden and patched; a full channel; and sockets that       *)
(* connect while the account is left and taken back.  A workload without    *)
(* keys has only objects stored elsewhere.                                  *)
MCWorkloads ==
  {{k1, k2, "profile", "clan", "link", "deactivate", "login"},
   {s1, k1, k2, "profile", "submit", "approve", "deactivate", "login"},
   {s1, s2, k1, "submit", "approve", "deactivate"},
   {s1, k1, "submit", "approve", "reject", "socket"},
   {s1, k1, "submit", "approve", "patch", "inbox", "socket"},
   {s1, k1, "submit", "approve", "deactivate", "socket"},
   {s1, "submit", "approve", "reject", "deactivate", "socket"},
   {"deactivate", "login", "socket"}}

================================================================================
