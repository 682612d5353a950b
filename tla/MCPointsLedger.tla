----------------------------- MODULE MCPointsLedger -----------------------------
(***************************************************************************)
(* Small instances of the points ledger for TLC.  A configuration picks    *)
(* the value of each CONSTANT from the definitions below.                  *)
(***************************************************************************)
EXTENDS LedgerInvariant, TLC

CONSTANT a1  \* the action that missions count

(* Request slots are interchangeable. *)
RequestSymmetry == Permutations(Requests)

(* So are users without a mission and institutional clans. *)
ClanSymmetry == Permutations(Requests) \cup Permutations(Users)
                  \cup Permutations(InstClans)

(* Catalog values: worth 2 or 3 points, credited at once or after a photo  *)
(* audit, or withdrawn.                                                    *)
Auto(n) == [points |-> n, photo |-> FALSE, active |-> TRUE]
Photo(n) == [points |-> n, photo |-> TRUE, active |-> TRUE]
Withdrawn == [points |-> 2, photo |-> FALSE, active |-> FALSE]

AutoOnly == {Auto(2)}
PhotoOnly == {Photo(2)}
AutoAndPhoto == {Auto(2), Photo(2)}
Repriced == {Auto(2), Photo(3)}
AnyEntry == {Auto(2), Photo(3), Withdrawn}

LimitOne == [a \in Actions |-> 1]
LimitTwo == [a \in Actions |-> 2]
LimitMany == [a \in Actions |-> MaxLogs]

NoExtras == {{}}
EvidenceOnly == {{"evidence"}}
SharedOnly == {{"evidence", "shared"}}
BareOrEvidence == {{}, {"evidence"}}

AtTwoPoints == [b \in Badges |-> 2]
AtFourPoints == [b \in Badges |-> 4]

MissionOnFirst == [m \in Missions |-> a1]
TargetOne == [m \in Missions |-> 1]
TargetTwo == [m \in Missions |-> 2]
FromDayOne == [m \in Missions |-> 1]
UntilDayTwo == [m \in Missions |-> 2]
UntilDayThree == [m \in Missions |-> 3]
Everyone == Users \X Missions
NobodyEnrolled == {}

NoPrices == {}
CheapPrice == {1}
TwoPrices == {1, 2}
================================================================================
