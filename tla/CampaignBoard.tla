----------------------------- MODULE CampaignBoard -----------------------------
(***************************************************************************)
(* What the campaign endpoints promise, with every request a single step:  *)
(* a campaign moves forward through its stages, whoever is enrolled when a *)
(* manager starts or finishes it is told in that same step, a reviewed     *)
(* proposal is decided once, and dates move a campaign on silently.        *)
(***************************************************************************)
EXTENDS Integers

CONSTANTS Users, Campaigns, Kinds

VARIABLES stage, enrolled, told

board == <<stage, enrolled, told>>

Stages == {"absent", "pending", "rejected", "promotion", "running", "finished"}
Published == {"promotion", "running", "finished"}
Sent == [kind : Kinds, user : Users]

Init ==
  /\ stage = [c \in Campaigns |-> "absent"]
  /\ enrolled = [c \in Campaigns |-> {}]
  /\ told = [c \in Campaigns |-> [n \in Sent |-> 0]]

Move(c, from, to) == stage[c] \in from /\ stage' = [stage EXCEPT ![c] = to]

(* One more notification of each kind and user of ns, "more" counting as 2. *)
Tell(c, ns) ==
  told' = [told EXCEPT ![c] =
             [n \in Sent |-> IF n \in ns /\ @[n] < 2 THEN @[n] + 1 ELSE @[n]]]

To(kind, us) == [kind : {kind}, user : us]

AtMostOne(us) == \A u, v \in us : u = v

Publish(c) ==
  \E invited \in SUBSET Users, us \in SUBSET Users :
    /\ \/ Move(c, {"absent"}, "promotion") /\ Tell(c, To("INVITE", invited))
       \/ \E late \in {"running", "finished"} : Move(c, {"absent"}, late)
          /\ UNCHANGED told
    /\ AtMostOne(us)
    /\ enrolled' = [enrolled EXCEPT ![c] = us]

Propose(c) == Move(c, {"absent"}, "pending") /\ UNCHANGED <<enrolled, told>>

Approve(c) ==
  /\ Move(c, {"pending"}, "promotion")
  /\ \E invited, author \in SUBSET Users :
       /\ AtMostOne(author)
       /\ Tell(c, To("INVITE", invited) \cup To("APPROVED", author))
  /\ UNCHANGED enrolled

Reject(c) ==
  /\ Move(c, {"pending"}, "rejected")
  /\ \E author \in SUBSET Users :
       AtMostOne(author) /\ Tell(c, To("REJECTED", author))
  /\ UNCHANGED enrolled

Start(c) ==
  /\ Move(c, {"promotion"}, "running")
  /\ Tell(c, To("STARTED", enrolled[c]))
  /\ UNCHANGED enrolled

Finish(c) ==
  /\ Move(c, {"running"}, "finished")
  /\ Tell(c, To("FINISHED", enrolled[c]))
  /\ UNCHANGED enrolled

Enrol(c) ==
  /\ stage[c] \in Published
  /\ \E u \in Users : enrolled' = [enrolled EXCEPT ![c] = @ \cup {u}]
  /\ UNCHANGED <<stage, told>>

(* The dates of some published campaigns have come. *)
Later(s) == CASE s = "promotion" -> {"promotion", "running", "finished"}
              [] s = "running" -> {"running", "finished"}
              [] OTHER -> {s}

Age ==
  /\ stage' \in [Campaigns -> Stages]
  /\ \A c \in Campaigns : stage'[c] \in Later(stage[c])
  /\ UNCHANGED <<enrolled, told>>

Next ==
  \/ Age
  \/ \E c \in Campaigns :
       \/ Publish(c) \/ Propose(c) \/ Approve(c) \/ Reject(c)
       \/ Start(c) \/ Finish(c) \/ Enrol(c)

Spec == Init /\ [][Next]_board

================================================================================
