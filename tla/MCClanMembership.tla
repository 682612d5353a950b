---------------------------- MODULE MCClanMembership ----------------------------
(***************************************************************************)
(* Small instances of the clan memberships for TLC.  A configuration picks *)
(* the operations that run against each other.                             *)
(***************************************************************************)
EXTENDS ClanMembership, TLC

(* Users, clans, codes and request slots are interchangeable. *)
Symmetry == Permutations(Users) \cup Permutations(Clans)
              \cup Permutations(Codes) \cup Permutations(Requests)
================================================================================
