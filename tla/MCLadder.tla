------------------------------ MODULE MCLadder ------------------------------
(***************************************************************************)
(* The instance of Ladder that TLC checks: three members, of whom one is   *)
(* unrated, policies that between them have every movement, validation and *)
(* consequence, and the refinement of LadderStanding.  A ladder of three   *)
(* with two challenges is explored as far as a second time item of each,   *)
(* one of p1 and p2 with a single challenge as far as MaxItems of them.    *)
(***************************************************************************)
EXTENDS Ladder, TLC

CONSTANTS p1, p2, p3, m1, m2

MCRating == [p \in Participants |-> CASE p = p1 -> 1 [] p = p2 -> 2 [] OTHER -> 0]

Forfeit ==
  [movement |-> "SWAP", challengeRange |-> 2, acceptanceDays |-> 1, playByDays |-> 1,
   resultValidation |-> "EITHER", entryPlacement |-> "BOTTOM", allowance |-> 0,
   window |-> "ROLLING", windowDays |-> 0, countsAsLapse |-> LapseKinds,
   consequence |-> "FORFEIT_POSITION", dropPositions |-> 1]

Drop ==
  [Forfeit EXCEPT !.movement = "INSERTION", !.resultValidation = "PEER",
   !.entryPlacement = "BY_RATING", !.consequence = "DROP", !.window = "CONSECUTIVE",
   !.dropPositions = 2]

Remove ==
  [Forfeit EXCEPT !.resultValidation = "OPERATOR", !.consequence = "REMOVE",
   !.window = "SEASON", !.allowance = 1, !.challengeRange = 1,
   !.countsAsLapse = {"DECLINE", "UNPLAYED"}]

MCPolicies == {Forfeit, Drop, Remove}

Explored ==
  \/ \A m \in DOMAIN matchUp : Len(matchUp[m].timeItems) <= 2
  \/ /\ p3 \notin Seated \cup removed /\ rankScale[p3] = 0
     /\ Cardinality(DOMAIN matchUp) <= 1

ChallengesAlike == Permutations({m1, m2})
=============================================================================
