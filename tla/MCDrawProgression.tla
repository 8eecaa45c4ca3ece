-------------------------- MODULE MCDrawProgression --------------------------
(***************************************************************************)
(* The instances of DrawProgression that TLC checks: eight positions,      *)
(* three of them BYEs.  A first-round matchUp, the semifinal that awaits   *)
(* its winner, the final and the play-off are called with many kinds of    *)
(* outcome; the other semifinal is decided and cleared; a BYE is cancelled *)
(* and cleared.                                                            *)
(***************************************************************************)
EXTENDS DrawProgression

MCBye == {4, 6, 7}

Give(status, winner, score) == [status |-> status, winner |-> winner, score |-> score]

Wins == {Give(status, side, NoScore) : status \in {None, "COMPLETED", "WALKOVER", "AWAITING_RESULT"}, side \in 1 .. 2}
Scored == {Give("COMPLETED", 1, 1), Give(None, 2, 2), Give("COMPLETED", 1, 2), Give("RETIRED", 2, Partial)}
Unfinished ==
  {Give(status, NoWinner, Partial) : status \in {None, "IN_PROGRESS", "ABANDONED", "TO_BE_PLAYED"}}
Bare ==
  {Give(status, NoWinner, NoScore) :
     status \in {None, "COMPLETED", "IN_PROGRESS", "CANCELLED", "NOT_PLAYED", "TO_BE_PLAYED"}}

Cleared == Give("TO_BE_PLAYED", NoWinner, NoScore)

\* Of a decided final it blanks the winner, whom no other matchUp awaits.
Unnamed == Give("WALKOVER", NoWinner, NoScore)

MCCall ==
       {<<1, 1>>} \X (Wins \cup Scored \cup Unfinished \cup Bare)
  \cup {<<2, 1>>} \X (Scored \cup Unfinished \cup Bare \cup {Give("WALKOVER", 1, NoScore), Give(None, 2, NoScore)})
  \cup {<<3, 1>>} \X
         {Give("COMPLETED", 1, 1), Give("RETIRED", 2, Partial), Give("IN_PROGRESS", NoWinner, Partial), Unnamed, Cleared}
  \cup {Playoff} \X {Give("COMPLETED", 1, 1), Give(None, NoWinner, Partial), Cleared}
  \cup {<<2, 2>>} \X {Give(None, 1, NoScore), Give(None, 2, NoScore), Cleared}
  \cup {<<1, 2>>} \X {Give("CANCELLED", NoWinner, NoScore), Cleared}

\* The same, and WALKOVER without a winner.
MCRelabelCall == MCCall \cup Match \X {Unnamed}
=============================================================================
