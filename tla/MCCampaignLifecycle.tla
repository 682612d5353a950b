-------------------------- MODULE MCCampaignLifecycle --------------------------
(***************************************************************************)
(* A small instance of the campaigns for TLC; a tick of its clock is a day. *)
(***************************************************************************)
EXTENDS CampaignLifecycle, TLC

(* The dates clients submit: edits move both dates or leave the start out. *)
MCWindows == [create |-> {<<1, 2>>}, propose |-> {<<1, 3>>},
              patch |-> {<<2, 3>>, <<None, 3>>}]

(* Request slots are interchangeable. *)
MCSymmetry == Permutations(Requests)

================================================================================
