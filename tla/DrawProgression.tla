--------------------------- MODULE DrawProgression ---------------------------
(***************************************************************************)
(* How the results of a single elimination draw advance its participants   *)
(* (setMatchUpStatus, and under it mutate/matchUps and                     *)
(* mutate/drawDefinitions/matchUpGovernor): a call gives a matchUp a       *)
(* status, a winning side, a score, or some of the three; the winner is    *)
(* placed in the next matchUp and the loser of a semifinal is seated in    *)
(* the play-off; a result taken back takes both of them back, and a        *)
(* corrected winner changes places with the other one there.               *)
(*                                                                         *)
(* Two structures: the main one, of Rounds rounds, and a play-off for      *)
(* third place that a LOSER link from the semifinals feeds, TOP_DOWN.      *)
(* Draw positions are numbers, of the main structure 1 .. 2^Rounds, where  *)
(* a BYE may hold one, opposite a participant; a participant is named by   *)
(* its main position.  A matchUp's sides are its positions in ascending    *)
(* order.  The calls are made one at a time and none of them awaits: a     *)
(* call is one step.                                                       *)
(*                                                                         *)
(* Left out: team matchUps, double exits, exits entered before the second  *)
(* participant has arrived, BYE as an entered status, propagateExitStatus, *)
(* seeds, links with a condition and BYEs in what they feed, the policies  *)
(* that waive a check, and blank score objects (the toBePlayed fixture's   *)
(* is dealt with as no score).                                             *)
(***************************************************************************)
EXTENDS Integers, FiniteSets

CONSTANTS
  Rounds, \* rounds of the main structure
  Bye,    \* the positions that BYEs hold
  Call    \* the calls that are made: pairs of a matchUp and an outcome

Position == 1 .. 2^Rounds
Round == 1 .. Rounds

\* <<r, i>> is the i-th matchUp of round r; the play-off stands beside the final.
Main == UNION {{<<r, i>> : i \in 1 .. 2^(Rounds - r)} : r \in Round}
Playoff == <<Rounds, 2>>
Match == Main \cup {Playoff}

\* The draw positions of the play-off, and an assignment of one that names nobody.
Seat == 1 .. 2
Nobody == 0

Live == {"IN_PROGRESS", "SUSPENDED"}
Exit == {"WALKOVER", "DEFAULTED", "RETIRED"}
Directing == Exit \cup {"BYE", "COMPLETED"}
Ended == Exit \cup {"CANCELLED", "ABANDONED", "COMPLETED"}
NonDirecting ==
  Live \cup {"ABANDONED", "AWAITING_RESULT", "CANCELLED", "INCOMPLETE", "NOT_PLAYED", "TO_BE_PLAYED"}
Status == Directing \cup NonDirecting

\* An attribute that a call does not give.
None == "none"

\* A score is for side 1 or 2 when it is one that decides the matchUp.
NoScore == 0
Partial == 3
Score == 0 .. 3

NoWinner == 0
WinningSide == 0 .. 2

ASSUME RoundsAssumption == Rounds \in Nat \ {0, 1}
ASSUME ByeAssumption ==
  /\ Bye \subseteq Position
  /\ Rounds = 2 => Bye = {} \* a semifinal has a loser
  /\ \A i \in 1 .. 2^(Rounds - 1) : ~ {2 * i - 1, 2 * i} \subseteq Bye
VARIABLES
  draw,  \* the matchUps, and who is assigned to the play-off's positions
  reply  \* what the last call returned

vars == <<draw, reply>>

-----------------------------------------------------------------------------

MatchUp == [at : SUBSET Position, status : Status, winner : WinningSide, score : Score]
Outcome == [status : (Status \ {"BYE"}) \cup {None}, winner : WinningSide, score : Score]

Draw == [matchUps : [Match -> MatchUp], seats : [Seat -> Position \cup {Nobody}]]

ASSUME CallAssumption == Call \subseteq Match \X Outcome

HasWinnerMatchUp(m) == m[1] < Rounds
WinnerMatchUp(m) == <<m[1] + 1, (m[2] + 1) \div 2>>
FeedsPlayoff(m) == m[1] = Rounds - 1

\* The matchUps that the participants of m could come to play in.
Below(m) ==
  {n \in Main : n[1] > m[1] /\ n[2] = ((m[2] - 1) \div 2^(n[1] - m[1])) + 1}
    \cup IF HasWinnerMatchUp(m) THEN {Playoff} ELSE {}

\* The position on a side of a matchUp, as a set of at most one.
OnSide(x, side) ==
  {p \in x.at : side = IF \E q \in x.at : q < p THEN 2 ELSE 1}
WinnerOf(x) == OnSide(x, x.winner)
LoserOf(x) == IF x.winner = NoWinner THEN {} ELSE OnSide(x, 3 - x.winner)

Feeders(n) == {m \in Main : HasWinnerMatchUp(m) /\ WinnerMatchUp(m) = n}

\* Who a matchUp sends on: its winner, or the participant opposite its BYE.
Sent(x) == WinnerOf(x) \cup IF x.at \cap Bye # {} THEN x.at \ Bye ELSE {}

\* The participants of a matchUp.
Players(d, m) ==
  IF m = Playoff THEN {d.seats[i] : i \in Seat} \ {Nobody} ELSE d.matchUps[m].at \ Bye

TwoParticipants(d, m) == Cardinality(Players(d, m)) = 2

Generated(at, status) == [at |-> at, status |-> status, winner |-> NoWinner, score |-> NoScore]
FirstRoundMatchUp(i) ==
  Generated({2 * i - 1, 2 * i}, IF {2 * i - 1, 2 * i} \cap Bye # {} THEN "BYE" ELSE "TO_BE_PLAYED")

\* Generation has advanced the participants whose opponents are BYEs.
Init ==
  /\ draw = [matchUps |-> [m \in Match |->
                IF m = Playoff THEN Generated(Seat, "TO_BE_PLAYED")
                ELSE IF m[1] = 1 THEN FirstRoundMatchUp(m[2])
                ELSE Generated(UNION {Sent(FirstRoundMatchUp(k[2])) : k \in {l \in Feeders(m) : l[1] = 1}}, "TO_BE_PLAYED")],
              seats |-> [i \in Seat |-> Nobody]]
  /\ reply = "none"

-----------------------------------------------------------------------------
(* The writers.                                                            *)

\* Faulty: the call's status is written also when it gives none.
WrittenBlankStatus(x, o, removeScore, removeWinningSide) ==
  LET blank == o.status = "WALKOVER" \/ removeScore
  IN [x EXCEPT !.status = o.status,
               !.score = IF blank THEN NoScore ELSE IF o.score # NoScore THEN o.score ELSE @,
               !.winner = IF removeWinningSide THEN NoWinner ELSE IF o.winner # NoWinner THEN o.winner ELSE @]

\* modifyMatchUpScore: removeScore blanks the matchUp, removeWinningSide its winner.
Written(x, o, removeScore, removeWinningSide) ==
  LET blank == o.status = "WALKOVER" \/ removeScore
      score == IF blank THEN NoScore ELSE IF o.score # NoScore THEN o.score ELSE x.score
      status == IF o.status # None THEN o.status ELSE IF blank THEN "TO_BE_PLAYED" ELSE x.status
      winner == IF removeWinningSide THEN NoWinner
                ELSE IF o.winner # NoWinner THEN o.winner
                ELSE IF blank THEN NoWinner ELSE x.winner
      inProgress ==
        /\ o.status # None /\ winner = NoWinner /\ score # NoScore
        /\ o.status \notin Ended \cup {"AWAITING_RESULT", "SUSPENDED", "INCOMPLETE"}
  IN [at |-> x.at, status |-> IF inProgress THEN "IN_PROGRESS" ELSE status, winner |-> winner, score |-> score]

Accept(d) == [draw |-> d, refused |-> FALSE]
Refuse(d) == [draw |-> d, refused |-> TRUE]

Modify(d, m, o, removeScore) == Accept([d EXCEPT !.matchUps[m] = Written(@, o, removeScore, FALSE)])

\* assignMatchUpDrawPosition: an exit still short of a participant is kept.
Arrived(x, p) ==
  LET at == x.at \cup {p}
      kept == x.status \in Exit /\ Cardinality(at) < 2
  IN [x EXCEPT !.at = at, !.winner = NoWinner, !.status = IF kept THEN @ ELSE "TO_BE_PLAYED"]

\* directWinner, after the source is written: an error here takes nothing back.
DirectWinner(d, m) ==
  LET n == WinnerMatchUp(m)
      p == CHOOSE q \in WinnerOf(d.matchUps[m]) : TRUE
  IN IF ~ HasWinnerMatchUp(m) \/ p \in d.matchUps[n].at THEN Accept(d)
     ELSE IF Cardinality(d.matchUps[n].at) = 2 THEN Refuse(d)
     ELSE Accept([d EXCEPT !.matchUps[n] = Arrived(@, p)])

\* directLoser: to the position the link names, or else to one of that matchUp that is empty.
DirectLoser(d, m) ==
  LET p == CHOOSE q \in LoserOf(d.matchUps[m]) : TRUE
      free == {i \in Seat : d.seats[i] = Nobody}
      seat == IF m[2] \in free THEN m[2] ELSE CHOOSE i \in free : TRUE
  IN IF ~ FeedsPlayoff(m) \/ p \in Players(d, Playoff) THEN Accept(d)
     ELSE IF free = {} THEN Refuse(d)
     ELSE Accept([d EXCEPT !.seats[seat] = p])

\* removeDrawPosition: the result goes with the participant, an exit's status stays.
Vacated(x, ps) ==
  Generated(x.at \ ps, IF x.status \in Exit THEN x.status ELSE "TO_BE_PLAYED")

\* Faulty: the loser keeps the seat.
LeftSeated(d, m) == d.seats

\* removeDirectedLoser
Unseated(d, m) ==
  [i \in Seat |-> IF FeedsPlayoff(m) /\ d.seats[i] \in LoserOf(d.matchUps[m]) THEN Nobody ELSE d.seats[i]]

\* removeDirectedParticipants, and removeSubsequentRoundsParticipant for its winner.
RemoveDirected(d, m, o, removeScore) ==
  LET clear == [o EXCEPT !.status = IF @ = None THEN "TO_BE_PLAYED" ELSE @]
      x == d.matchUps
      won == WinnerOf(x[m])
  IN [matchUps |-> [n \in Match |->
        IF n = m THEN Written(x[m], clear, removeScore, TRUE)
        ELSE IF n \in Main /\ n[1] > m[1] /\ x[n].at \cap won # {} THEN Vacated(x[n], won)
        ELSE x[n]],
      seats |-> Unseated(d, m)]

\* Faulty: the exchange stays in the structure.
ExchangedInStructure(d, m) ==
  LET at == d.matchUps[m].at
      swap(p) == IF p \in at THEN CHOOSE q \in at : q # p ELSE p
  IN [d EXCEPT !.matchUps = [n \in Match |->
        IF n \in Main /\ n[1] > m[1] THEN [@[n] EXCEPT !.at = {swap(p) : p \in @}] ELSE @[n]]]

\* exchangePathPositions and the relabelling of what the later rounds feed: the two sides of m
\* change places.  Both stand on the same side of whoever else comes there, so winners stay.
Exchanged(d, m) ==
  LET at == d.matchUps[m].at
      swap(p) == IF p \in at THEN CHOOSE q \in at : q # p ELSE p
  IN [matchUps |-> [n \in Match |->
        IF n \in Main /\ n[1] > m[1] THEN [d.matchUps[n] EXCEPT !.at = {swap(p) : p \in @}] ELSE d.matchUps[n]],
      seats |-> [i \in Seat |-> IF HasWinnerMatchUp(m) THEN swap(d.seats[i]) ELSE d.seats[i]]]

\* swapWinnerLoser: a call without a status leaves the stored one.
SwapWinnerLoser(d, m, o) == Modify(Exchanged(d, m), m, o, FALSE)

-----------------------------------------------------------------------------
(* What a call comes to.                                                   *)

\* directParticipants, as attemptToModifyScore, directWinner and directLoser.
DirectParticipants(d, m, o) ==
  LET status == IF o.status \in Directing THEN o.status ELSE "COMPLETED"
      given == [o EXCEPT !.status = status]
      directed == DirectWinner([d EXCEPT !.matchUps[m] = Written(@, given, FALSE, FALSE)], m)
  IN IF ~ TwoParticipants(d, m) THEN Refuse(d)
     ELSE IF directed.refused THEN directed
     ELSE DirectLoser(directed.draw, m)

AttemptToSetWinningSide(d, m, o) ==
  IF d.matchUps[m].winner \notin {NoWinner, o.winner}
  THEN DirectParticipants(RemoveDirected(d, m, o, FALSE), m, o)
  ELSE DirectParticipants(d, m, o)

AttemptToSetMatchUpStatus(d, m, o) ==
  IF o.status \in Directing
  THEN IF d.matchUps[m].winner # NoWinner THEN Modify(d, m, o, FALSE) ELSE Refuse(d)
  ELSE IF d.matchUps[m].winner # NoWinner THEN Accept(RemoveDirected(d, m, o, FALSE))
  ELSE Modify(d, m, o, o.status = "CANCELLED")

NoDownstreamDependencies(d, m, o) ==
  LET removeScore == o.status \notin {None, "INCOMPLETE", "ABANDONED"}
      scoreWithNoWinningSide ==
        o.score # NoScore /\ o.status \notin Live \cup {"CANCELLED", "ABANDONED", "INCOMPLETE"}
  IN IF o.winner # NoWinner THEN AttemptToSetWinningSide(d, m, o)
     ELSE IF scoreWithNoWinningSide THEN Accept(RemoveDirected(d, m, o, removeScore))
     ELSE IF o.status \notin {None, "TO_BE_PLAYED"} THEN AttemptToSetMatchUpStatus(d, m, o)
     ELSE IF d.matchUps[m].winner # NoWinner /\ o.score = NoScore THEN Accept(RemoveDirected(d, m, o, removeScore))
     ELSE Modify(d, m, o, TRUE)

\* applyMatchUpValues
ApplyMatchUpValues(d, m, o) ==
  Modify(d, m, [o EXCEPT !.status = IF @ = None THEN "COMPLETED" ELSE @], o.status = "CANCELLED")

InPlay(x) ==
  /\ x.winner = NoWinner /\ x.status \notin Exit \cup {"BYE"}
  /\ x.status \in Live \cup {"AWAITING_RESULT", "INCOMPLETE"} \/ x.score # NoScore

Decided(x) == x.winner # NoWinner /\ Cardinality(x.at) = 2

\* Faulty: the play-off is not asked about.
ActiveForWinner(d, m) ==
  \E n \in Below(m) \ {Playoff} : Decided(d.matchUps[n]) \/ InPlay(d.matchUps[n])

\* isActiveDownstream: a result, or play, where the participants of m could come to.
ActiveDownstream(d, m) == \E n \in Below(m) : Decided(d.matchUps[n]) \/ InPlay(d.matchUps[n])

ClearsABye(x, o) ==
  /\ x.status = "BYE" /\ o.winner = NoWinner /\ o.score = NoScore
  /\ o.status \in {None, "TO_BE_PLAYED"}

ApplyOutcome(d, m, o) ==
  IF ClearsABye(d.matchUps[m], o) THEN Accept(d)
  ELSE IF ~ ActiveDownstream(d, m) \/ d.matchUps[m].winner = NoWinner THEN NoDownstreamDependencies(d, m, o)
  ELSE IF o.winner = d.matchUps[m].winner \/ (o.winner = NoWinner /\ o.status \in Directing)
       THEN ApplyMatchUpValues(d, m, o)
  ELSE Refuse(d)

-----------------------------------------------------------------------------
(* What a call is refused for before anything is written.                  *)

\* resolveRotatingPartnerOutcome, validateMatchUpStateInputs
Contradictory(x, o) ==
  \/ /\ o.status = "COMPLETED" /\ o.winner = NoWinner
     /\ o.score # NoScore \/ x.winner = NoWinner
  \/ o.winner # NoWinner /\ o.status \in {"CANCELLED", "INCOMPLETE", "ABANDONED", "TO_BE_PLAYED"}

\* resolveMatchUpAndContext
DecidesABye(x, o) == x.status = "BYE" /\ (x.winner # NoWinner \/ o.winner # NoWinner)

\* checkCompletedRevertGuard: the stored score is the stored winner's.
Reverts(x, o) ==
  /\ o.status \in Live /\ o.winner = NoWinner /\ o.score = NoScore
  /\ x.status = "COMPLETED" /\ x.winner # NoWinner /\ x.score = x.winner

\* checkImpliedCompletionGuard
ImpliesCompletion(o) == o.status \in Live /\ (o.winner # NoWinner \/ o.score \in 1 .. 2)

\* validateScore; only an exit is won without a decisive score.
InvalidScore(x, o) ==
  LET status == IF o.status = None THEN x.status ELSE o.status
  IN /\ o.score # NoScore
     /\ IF o.winner = NoWinner
        THEN o.score # Partial \/ status \in Exit \cup {"COMPLETED"}
        ELSE o.score # o.winner /\ status \notin Exit

\* checkParticipants
MissesParticipants(d, m, o) ==
  /\ ~ TwoParticipants(d, m)
  /\ IF o.status = None THEN o.winner # NoWinner
     ELSE o.status \in Live \cup Exit \cup {"AWAITING_RESULT", "COMPLETED", "INCOMPLETE"}

\* checkDownstreamCompatibility
Incompatible(d, m, o) ==
  /\ o.status \in NonDirecting
  /\ \/ o.winner = NoWinner /\ ActiveDownstream(d, m)
     \/ o.winner # NoWinner /\ o.winner = d.matchUps[m].winner

\* A walkover has no score, whatever the call says.
Given(o) == IF o.status = "WALKOVER" THEN [o EXCEPT !.score = NoScore] ELSE o

Refused(d, m, o) ==
  \/ Contradictory(d.matchUps[m], o)
  \/ DecidesABye(d.matchUps[m], o)
  \/ Reverts(d.matchUps[m], o)
  \/ ImpliesCompletion(o)
  \/ InvalidScore(d.matchUps[m], o)
  \/ MissesParticipants(d, m, o)
  \/ Incompatible(d, m, o)

-----------------------------------------------------------------------------

\* An exit may be entered before the second participant has arrived: left out.
EarlyExit(m, o) == o.status \in {"WALKOVER", "DEFAULTED"} /\ Cardinality(Players(draw, m)) = 1

Return(result) ==
  /\ draw' = result.draw
  /\ reply' = IF result.refused THEN "refused" ELSE "done"

\* setMatchUpStatus
SetMatchUpStatus(m, o) ==
  /\ ~ EarlyExit(m, o)
  /\ Return(IF Refused(draw, m, Given(o)) THEN Refuse(draw) ELSE ApplyOutcome(draw, m, Given(o)))

\* setMatchUpStatus with allowChangePropagation, for another winner.
CorrectWinner(m, o) ==
  /\ ~ EarlyExit(m, o)
  /\ o.winner # NoWinner /\ draw.matchUps[m].winner \notin {NoWinner, o.winner}
  /\ Return(IF Refused(draw, m, Given(o)) THEN Refuse(draw) ELSE SwapWinnerLoser(draw, m, Given(o)))

SomeCall == \E call \in Call : SetMatchUpStatus(call[1], call[2]) \/ CorrectWinner(call[1], call[2])

Spec == Init /\ [][SomeCall]_vars

-----------------------------------------------------------------------------

\* The state is what its variables are said to be.
TypeOK ==
  /\ draw \in Draw
  /\ reply \in {"none", "done", "refused"}

\* The participants of a later matchUp are those its two feeders send, the winner of a decided one
\* and whoever stands opposite a BYE, and each seat of the play-off is held by the loser of its
\* semifinal.  No sequence of results, corrections and removals leaves somebody there who was sent
\* by no result, or holds somebody back who was (directWinner, directLoser, removeDirectedWinner,
\* removeDirectedLoser, swapWinnerLoser).
PlacesFollowResults ==
  /\ \A n \in Main : n[1] > 1 => draw.matchUps[n].at = UNION {Sent(draw.matchUps[m]) : m \in Feeders(n)}
  /\ \A i \in Seat : {draw.seats[i]} \ {Nobody} = LoserOf(draw.matchUps[<<Rounds - 1, i>>])

\* A refused call leaves the draw as it was, also when it is refused late: by
\* directWinner or directLoser, after the source's result is written and an
\* earlier winner is taken back.
RefusedChangesNothing == [][reply' = "refused" => draw' = draw]_vars

\* A call changes the result of no matchUp but its own that two participants
\* have decided or are playing: what was played stands, with the same side
\* ahead, whatever is corrected, removed or relabelled in the matchUps before
\* it, and nobody is taken out of it but for the one they change places with
\* (isActiveDownstream guards the removals, swapWinnerLoser only exchanges).
OtherResultsStand ==
  [][\E m \in Match : \A n \in Match \ {m} :
       (Decided(draw.matchUps[n]) \/ InPlay(draw.matchUps[n])) /\ TwoParticipants(draw, n) =>
         /\ [draw'.matchUps[n] EXCEPT !.at = {}] = [draw.matchUps[n] EXCEPT !.at = {}]
         /\ TwoParticipants(draw, n)']_vars

=============================================================================
