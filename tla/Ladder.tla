------------------------------- MODULE Ladder -------------------------------
(***************************************************************************)
(* A ladder draw under RANK ordering (mutate/ladder, query/ladder): the    *)
(* standing kept in positionAssignments, its history kept as RANKING scale *)
(* items, and the challenges, kept as matchUps with dated time items.      *)
(*                                                                         *)
(* Engine calls run one at a time, so an action is a call.  A call that is *)
(* refused before it writes is no step.  Every instant is supplied by the  *)
(* caller, whose clock may lag behind.  The policy stays as attached.      *)
(* Left out: RATING ordering, and writes of other governors to the draw.   *)
(***************************************************************************)
EXTENDS Integers, FiniteSets, Sequences, FiniteSetsExt

CONSTANTS
  Participants,
  Nobody,        \* an absent participantId
  MatchUps,      \* matchUpIds that challenges may get
  Policies,      \* policies that may be attached to the draw
  Rating,        \* the rating a newcomer is placed by, more is better; 0: unrated
  LastDay,       \* bound: the last instant
  MaxLag,        \* bound: how far behind a caller's clock may be
  MaxItems,      \* bound: time items of a matchUp
  MaxRemoved     \* bound: members an operator removes

LapseKinds == {"DECLINE", "EXPIRY", "UNPLAYED"}

LadderPolicy ==
  [movement : {"SWAP", "INSERTION"}, challengeRange : Nat, acceptanceDays : Nat,
   playByDays : Nat, resultValidation : {"PEER", "OPERATOR", "EITHER"},
   entryPlacement : {"BOTTOM", "BY_RATING"}, allowance : Nat,
   window : {"SEASON", "ROLLING", "CONSECUTIVE"}, windowDays : Nat,
   countsAsLapse : SUBSET LapseKinds,
   consequence : {"NONE", "FORFEIT_POSITION", "DROP", "REMOVE"}, dropPositions : Nat]

ASSUME ParticipantAssumption ==
  IsFiniteSet(Participants) /\ Nobody \notin Participants
ASSUME PolicyAssumption == Policies \subseteq LadderPolicy
ASSUME RatingAssumption == Rating \in [Participants -> Nat]
ASSUME BoundAssumption == {LastDay, MaxLag, MaxItems, MaxRemoved} \subseteq Nat

VARIABLES
  policy,         \* the policy in force
  drawPosition,   \* the rank of each member: positionAssignments
  removed,        \* members that LADDER_PARTICIPANT_REMOVED time items name
  rankScale,      \* the latest RANKING scale value of each participant; 0: none
  matchUp,        \* the challenges issued
  today           \* the time

standing == <<drawPosition, removed, rankScale>>
vars == <<policy, standing, matchUp, today>>

Seated == DOMAIN drawPosition
Instants == {at \in 0 .. LastDay : at <= today /\ today - at <= MaxLag}

ItemTypes == {"ISSUED", "ACCEPTED", "DECLINED", "SUBMITTED", "CONFIRMED", "DISPUTED"}
TimeItem == [itemType : ItemTypes, by : Participants \cup {Nobody},
             operator : BOOLEAN, itemDate : 0 .. LastDay]
Statuses == {"CHALLENGED", "TO_BE_PLAYED", "AWAITING_RESULT", "COMPLETED"}
Challenge == [challenger : Participants, defender : Participants, matchUpStatus : Statuses,
              winningSide : 0 .. 2, timeItems : Seq(TimeItem)]

TypeOK ==
  /\ policy \in Policies
  /\ \E seated \in SUBSET Participants :
       drawPosition \in [seated -> 1 .. Cardinality(Participants)]
  /\ removed \subseteq Participants
  /\ rankScale \in [Participants -> 0 .. Cardinality(Participants)]
  /\ \E issued \in SUBSET MatchUps : matchUp \in [issued -> Challenge]
  /\ today \in 0 .. LastDay

-----------------------------------------------------------------------------
(* Time items: the last one written of a type need not be its latest one.  *)

Item(type, by, operator, at) ==
  [itemType |-> type, by |-> by, operator |-> operator, itemDate |-> at]

AddTimeItem(mu, item) == [mu EXCEPT !.timeItems = Append(@, item)]
HasRoom(m) == Len(matchUp[m].timeItems) < MaxItems

Written(mu, type) == {i \in DOMAIN mu.timeItems : mu.timeItems[i].itemType = type}
Has(mu, type) == Written(mu, type) # {}

Latest(mu, type) ==
  LET date(i) == mu.timeItems[i].itemDate
  IN  mu.timeItems[CHOOSE i \in Written(mu, type) : \A j \in Written(mu, type) :
                     date(j) < date(i) \/ (date(j) = date(i) /\ j <= i)]

LatestDate(mu, type) == Latest(mu, type).itemDate
Sides(mu) == {mu.challenger, mu.defender}

ExpiresAt(mu) == LatestDate(mu, "ISSUED") + policy.acceptanceDays

ChallengeState(mu, asOf) ==
  CASE Has(mu, "DECLINED")   -> "DECLINED"
    [] ~Has(mu, "DECLINED") /\ Has(mu, "ACCEPTED") -> "ACCEPTED"
    [] OTHER -> IF asOf >= ExpiresAt(mu) THEN "EXPIRED" ELSE "PENDING"

DisputeStands(mu) ==
  /\ Has(mu, "DISPUTED")
  /\ Has(mu, "CONFIRMED") => LatestDate(mu, "DISPUTED") > LatestDate(mu, "CONFIRMED")

\* getResultAttestation: whether a submitted score has become a result.
Attested(mu) ==
  /\ ~DisputeStands(mu) /\ Has(mu, "SUBMITTED") /\ Has(mu, "CONFIRMED")
  /\ LET submitted == Latest(mu, "SUBMITTED")
         confirmed == Latest(mu, "CONFIRMED")
     IN  /\ confirmed.by # submitted.by \/ confirmed.operator
         /\ policy.resultValidation = "OPERATOR" => confirmed.operator
         /\ policy.resultValidation = "PEER" => confirmed.by # Nobody

-----------------------------------------------------------------------------
(* Lapses of a defender, in the state ms of the matchUps.                  *)

Played(mu) == mu.matchUpStatus \in {"COMPLETED", "AWAITING_RESULT"}
Defended(ms, p) == {m \in DOMAIN ms : ms[m].defender = p}

\* The instant at which a challenge became a lapse, in a set: empty when it is none.
LapseAt(mu, asOf) ==
  LET counts(kind) == kind \in policy.countsAsLapse
      dueBy == LatestDate(mu, "ACCEPTED") + policy.playByDays
  IN  IF Has(mu, "DECLINED") /\ counts("DECLINE") THEN {LatestDate(mu, "DECLINED")}
      ELSE IF mu.matchUpStatus = "CHALLENGED" /\ counts("EXPIRY")
      THEN {at \in {ExpiresAt(mu)} : ChallengeState(mu, asOf) = "EXPIRED"}
      ELSE IF mu.matchUpStatus = "TO_BE_PLAYED" /\ counts("UNPLAYED")
      THEN {at \in {dueBy} : asOf >= dueBy}
      ELSE {}

\* CONSECUTIVE forgives what came before the last challenge the defender played.
LastPlayed(ms, p) ==
  LET date(mu) == LatestDate(mu, IF Has(mu, "ACCEPTED") THEN "ACCEPTED" ELSE "ISSUED")
  IN  {date(ms[m]) : m \in {m \in Defended(ms, p) : Played(ms[m])}}

InWindow(ms, p, at, asOf) ==
  CASE policy.window = "SEASON"      -> TRUE
    [] policy.window = "ROLLING"     -> at >= asOf - policy.windowDays
    [] policy.window = "CONSECUTIVE" -> \A played \in LastPlayed(ms, p) : at > played

Lapses(ms, p, asOf) ==
  {m \in Defended(ms, p) : \E at \in LapseAt(ms[m], asOf) : InWindow(ms, p, at, asOf)}

Exceeded(ms, p, asOf) ==
  policy.consequence # "NONE" /\ Cardinality(Lapses(ms, p, asOf)) > policy.allowance

-----------------------------------------------------------------------------
(* The standing: each operator is the drawPositions a call leaves.         *)

\* Faulty: an empty ladder is filled from rank 0.
BottomFromZero == IF Seated = {} THEN 0 ELSE Max({drawPosition[p] : p \in Seated}) + 1

Bottom == IF Seated = {} THEN 1 ELSE Max({drawPosition[p] : p \in Seated}) + 1

IsRankedBelow(c, d) == {c, d} \subseteq Seated /\ drawPosition[d] < drawPosition[c]

Swapped(c, d) ==
  [drawPosition EXCEPT ![c] = drawPosition[d], ![d] = drawPosition[c]]

\* The ranks from first to last shift by one place, and p takes rank `to`.
Shifted(p, first, last, by, to) ==
  [q \in Seated |-> IF q = p THEN to
                    ELSE IF drawPosition[q] \in first .. last THEN drawPosition[q] + by
                    ELSE drawPosition[q]]

Inserted(c, d) ==
  Shifted(c, drawPosition[d], drawPosition[c] - 1, 1, drawPosition[d])

\* Faulty: whatever the policy says, the two exchange places.
OvertakenBySwap(c, d) == Swapped(c, d)

Overtaken(c, d) == IF policy.movement = "INSERTION" THEN Inserted(c, d) ELSE Swapped(c, d)

Dropped(p) ==
  LET to == Min({drawPosition[p] + policy.dropPositions, Bottom - 1})
  IN  Shifted(p, drawPosition[p] + 1, to, -1, to)

\* Faulty: the ladder does not close up.
WithoutClosing(p) == [q \in Seated \ {p} |-> drawPosition[q]]

Without(p) ==
  [q \in Seated \ {p} |->
     IF drawPosition[q] > drawPosition[p] THEN drawPosition[q] - 1 ELSE drawPosition[q]]

\* BY_RATING: the best rank whose rated holder the newcomer outranks.
EntryRank(p) ==
  LET outranked == {q \in Seated : Rating[q] # 0 /\ Rating[p] > Rating[q]}
  IN  IF policy.entryPlacement = "BOTTOM" \/ Rating[p] = 0 \/ outranked = {} THEN Bottom
      ELSE Min({drawPosition[q] : q \in outranked})

SeatedAt(p, rank) ==
  [q \in Seated \cup {p} |->
     IF q = p THEN rank
     ELSE IF drawPosition[q] >= rank THEN drawPosition[q] + 1 ELSE drawPosition[q]]

\* Faulty: only those who gain a rank are mirrored.
MirrorGainers(positions) ==
  [p \in Participants |->
     IF p \in Seated \cap DOMAIN positions /\ positions[p] < drawPosition[p]
     THEN positions[p] ELSE rankScale[p]]

\* The touched assignments are those of members whose rank changes; a newcomer's is not.
MirrorStandingToScale(positions) ==
  [p \in Participants |->
     IF p \in Seated \cap DOMAIN positions /\ positions[p] # drawPosition[p]
     THEN positions[p] ELSE rankScale[p]]

Rearrange(positions) ==
  /\ drawPosition' = positions
  /\ rankScale' = MirrorStandingToScale(positions)

TakeOff(p) ==
  /\ p \in Seated
  /\ Rearrange(Without(p))
  /\ removed' = removed \cup {p}

ChallengerPrevails(c, d) ==
  /\ IsRankedBelow(c, d)
  /\ Rearrange(Overtaken(c, d))
  /\ UNCHANGED removed

-----------------------------------------------------------------------------
(* The calls.                                                              *)

Init ==
  /\ policy \in Policies
  /\ drawPosition = [p \in {} |-> 0]
  /\ removed = {}
  /\ rankScale = [p \in Participants |-> 0]
  /\ matchUp = [m \in {} |-> 0]
  /\ today = 0

IssueChallenge(m, c, d, at) ==
  /\ m \notin DOMAIN matchUp
  /\ IsRankedBelow(c, d)
  /\ drawPosition[c] - drawPosition[d] <= policy.challengeRange
  /\ LET issued == [challenger |-> c, defender |-> d, matchUpStatus |-> "CHALLENGED",
                    winningSide |-> 0,
                    timeItems |-> <<Item("ISSUED", c, FALSE, at)>>]
     IN  matchUp' = [n \in DOMAIN matchUp \cup {m} |-> IF n = m THEN issued ELSE matchUp[n]]
  /\ UNCHANGED <<policy, standing, today>>

\* Faulty: only an expired challenge is refused.
AcceptUnlessExpired(m, at) ==
  LET mu == matchUp[m]
  IN  /\ HasRoom(m)
      /\ mu.matchUpStatus = "CHALLENGED"
      /\ ChallengeState(mu, at) # "EXPIRED"
      /\ matchUp' = [matchUp EXCEPT ![m] =
           [AddTimeItem(mu, Item("ACCEPTED", Nobody, FALSE, at))
              EXCEPT !.matchUpStatus = "TO_BE_PLAYED"]]
      /\ UNCHANGED <<policy, standing, today>>

AcceptChallenge(m, at) ==
  LET mu == matchUp[m]
  IN  /\ HasRoom(m)
      /\ mu.matchUpStatus = "CHALLENGED"
      /\ ChallengeState(mu, at) = "PENDING"
      /\ matchUp' = [matchUp EXCEPT ![m] =
           [AddTimeItem(mu, Item("ACCEPTED", Nobody, FALSE, at))
              EXCEPT !.matchUpStatus = "TO_BE_PLAYED"]]
      /\ UNCHANGED <<policy, standing, today>>

\* Why the consequence of a lapse returns an error, or does nothing.
ConsequenceFails(p, challenger) ==
  CASE policy.consequence \in {"REMOVE", "DROP"} -> p \notin Seated
    [] policy.consequence = "FORFEIT_POSITION"   -> ~IsRankedBelow(challenger, p)

ApplyLapseConsequence(p, challenger) ==
  \/ policy.consequence = "REMOVE" /\ TakeOff(p)
  \/ policy.consequence = "FORFEIT_POSITION" /\ ChallengerPrevails(challenger, p)
  \/ policy.consequence = "DROP" /\ p \in Seated /\ Rearrange(Dropped(p)) /\ UNCHANGED removed
  \/ ConsequenceFails(p, challenger) /\ UNCHANGED standing

\* Faulty: lapses are counted before the decline is recorded.
DeclineCountedLate(m, at) ==
  LET mu == matchUp[m]
  IN  /\ HasRoom(m)
      /\ mu.matchUpStatus = "CHALLENGED"
      /\ ChallengeState(mu, at) \in {"PENDING", "EXPIRED"}
      /\ matchUp' = [matchUp EXCEPT ![m] =
           AddTimeItem(mu, Item("DECLINED", Nobody, FALSE, at))]
      /\ IF Exceeded(matchUp, mu.defender, at)
         THEN ApplyLapseConsequence(mu.defender, mu.challenger)
         ELSE UNCHANGED standing
      /\ UNCHANGED <<policy, today>>

\* The decline stays recorded when the consequence fails.
DeclineChallenge(m, at) ==
  LET mu == matchUp[m]
      declined == [matchUp EXCEPT ![m] = AddTimeItem(mu, Item("DECLINED", Nobody, FALSE, at))]
  IN  /\ HasRoom(m)
      /\ mu.matchUpStatus = "CHALLENGED"
      /\ ChallengeState(mu, at) \in {"PENDING", "EXPIRED"}
      /\ matchUp' = declined
      /\ IF Exceeded(declined, mu.defender, at)
         THEN ApplyLapseConsequence(mu.defender, mu.challenger)
         ELSE UNCHANGED standing
      /\ UNCHANGED <<policy, today>>

SubmitResult(m, p, winningSide, at) ==
  LET mu == matchUp[m]
  IN  /\ HasRoom(m)
      /\ mu.matchUpStatus \in {"TO_BE_PLAYED", "AWAITING_RESULT"}
      /\ p \in Sides(mu)
      /\ matchUp' = [matchUp EXCEPT ![m] =
           [AddTimeItem(mu, Item("SUBMITTED", p, FALSE, at))
              EXCEPT !.winningSide = winningSide, !.matchUpStatus = "AWAITING_RESULT"]]
      /\ UNCHANGED <<policy, standing, today>>

\* An operator may name a participant or none, a peer names itself.
ConfirmResult(m, p, operator, at) ==
  LET mu == matchUp[m]
      confirmed == AddTimeItem(mu, Item("CONFIRMED", p, operator, at))
  IN  /\ HasRoom(m)
      /\ mu.matchUpStatus = "AWAITING_RESULT"
      /\ operator \/ p \in Sides(mu)
      /\ matchUp' = [matchUp EXCEPT ![m] =
           IF Attested(confirmed)
           THEN [confirmed EXCEPT !.matchUpStatus = "COMPLETED"] ELSE confirmed]
      /\ UNCHANGED <<policy, standing, today>>

\* Faulty: a disputed result stays completed.
DisputeKeepingStatus(m, p, at) ==
  LET mu == matchUp[m]
  IN  /\ HasRoom(m)
      /\ Played(mu)
      /\ p \in Sides(mu)
      /\ matchUp' = [matchUp EXCEPT ![m] = AddTimeItem(mu, Item("DISPUTED", p, FALSE, at))]
      /\ UNCHANGED <<policy, standing, today>>

DisputeResult(m, p, at) ==
  LET mu == matchUp[m]
  IN  /\ HasRoom(m)
      /\ Played(mu)
      /\ p \in Sides(mu)
      /\ matchUp' = [matchUp EXCEPT ![m] =
           [AddTimeItem(mu, Item("DISPUTED", p, FALSE, at))
              EXCEPT !.matchUpStatus = "AWAITING_RESULT"]]
      /\ UNCHANGED <<policy, standing, today>>

\* A result the defender won moves nothing, and is no step.
ApplyResult(m) ==
  /\ Attested(matchUp[m]) /\ matchUp[m].matchUpStatus = "COMPLETED"
  /\ matchUp[m].winningSide = 1
  /\ ChallengerPrevails(matchUp[m].challenger, matchUp[m].defender)
  /\ UNCHANGED <<policy, matchUp, today>>

\* The governor takes FORFEIT with any two participants.
ApplyForfeit(c, d) ==
  /\ ChallengerPrevails(c, d)
  /\ UNCHANGED <<policy, matchUp, today>>

AddLadderParticipant(p) ==
  /\ p \notin Seated
  /\ Rearrange(SeatedAt(p, EntryRank(p)))
  /\ UNCHANGED <<policy, removed, matchUp, today>>

RemoveLadderParticipant(p) ==
  /\ Cardinality(removed \cup {p}) <= MaxRemoved
  /\ TakeOff(p)
  /\ UNCHANGED <<policy, matchUp, today>>

Tick ==
  /\ today < LastDay
  /\ today' = today + 1
  /\ UNCHANGED <<policy, standing, matchUp>>

Next ==
  \/ Tick
  \/ \E p \in Participants : AddLadderParticipant(p) \/ RemoveLadderParticipant(p)
  \/ \E c, d \in Participants : ApplyForfeit(c, d)
  \/ \E m \in MatchUps, c, d \in Participants, at \in Instants : IssueChallenge(m, c, d, at)
  \/ \E m \in DOMAIN matchUp :
       \/ ApplyResult(m)
       \/ \E at \in Instants :
            \/ AcceptChallenge(m, at)
            \/ DeclineChallenge(m, at)
            \/ \E p \in Participants, side \in 1 .. 2 : SubmitResult(m, p, side, at)
            \/ \E p \in Participants : ConfirmResult(m, p, FALSE, at)
            \/ \E p \in Sides(matchUp[m]) \cup {Nobody} : ConfirmResult(m, p, TRUE, at)
            \/ \E p \in Participants : DisputeResult(m, p, at)

Spec == Init /\ [][Next]_vars

-----------------------------------------------------------------------------
(* Properties.                                                             *)

\* The ranks of the members are 1 to their number, each held once: joining, leaving,
\* winning from any distance and falling leave no hole and no tie
\* (removeLadderParticipant: "a ladder with a hole in it is not a ranking").
StandingIsARanking ==
  {drawPosition[p] : p \in Seated} = 1 .. Cardinality(Seated)

\* A challenge is answered once, and accepted only inside its window, judged at the
\* instant of the answer: no job ever stores that a challenge expired
\* (acceptChallenge, declineChallenge, getChallengeState).
AnsweredOnceInTime ==
  \A m \in DOMAIN matchUp :
    /\ Cardinality(Written(matchUp[m], "ACCEPTED") \cup Written(matchUp[m], "DECLINED")) <= 1
    /\ Has(matchUp[m], "ACCEPTED") =>
         LatestDate(matchUp[m], "ACCEPTED") < ExpiresAt(matchUp[m])

LastWritten(mu, type) == Max(Written(mu, type))

\* The score of a completed matchUp is one its last reporter did not confirm alone: the
\* last confirmation written is an operator's or another participant's.
NobodyConfirmsTheirOwnScore ==
  \A m \in DOMAIN matchUp :
    LET mu == matchUp[m]
        reporter == mu.timeItems[LastWritten(mu, "SUBMITTED")]
        attestor == mu.timeItems[LastWritten(mu, "CONFIRMED")]
    IN  mu.matchUpStatus = "COMPLETED" => attestor.operator \/ attestor.by # reporter.by

\* A completed matchUp was confirmed by someone else after its score was last reported,
\* and nobody has disputed it since, in whatever order reports, confirmations and
\* disputes came (reportResult, getResultAttestation).
CompletedIsAgreed ==
  /\ NobodyConfirmsTheirOwnScore
  /\ \A m \in DOMAIN matchUp :
       LET mu == matchUp[m]
       IN  mu.matchUpStatus = "COMPLETED" =>
             \A i \in Written(mu, "SUBMITTED") \cup Written(mu, "DISPUTED") :
               i < LastWritten(mu, "CONFIRMED")

\* The scale that a member's rank history is read from shows the rank the member holds,
\* however the member came to move, unless the member was taken off the ladder before
\* (mirrorStandingToScale: "so that the snapshot and the series cannot drift apart").
RankHistoryFollows ==
  \A p \in Seated \ removed : rankScale[p] \in {0, drawPosition[p]}

Declined(ms, p) == {m \in Defended(ms, p) : Has(ms[m], "DECLINED")}

\* With a decline just recorded, p's declines alone pass the allowance.
PastAllowance(ms, p) ==
  /\ policy.consequence # "NONE" /\ "DECLINE" \in policy.countsAsLapse
  /\ \/ policy.window = "SEASON" /\ Cardinality(Declined(ms, p)) > policy.allowance
     \/ policy.window = "ROLLING" /\ policy.allowance = 0
     \/ policy.window = "CONSECUTIVE" /\ policy.allowance = 0 /\ LastPlayed(ms, p) = {}

\* Declining past the allowance costs the defender the rank held, whatever else happened
\* before: the decline itself counts (declineChallenge: "one free decline forever").
\* The defender who holds no rank, or drops from the last one, has none to lose, and a
\* forfeited rank needs a challenger ranked below to take it.
DeclineCostsTheRank ==
  [][\A m \in DOMAIN matchUp :
       LET p == matchUp[m].defender
           c == matchUp[m].challenger
       IN  /\ ~Has(matchUp[m], "DECLINED") /\ Has(matchUp'[m], "DECLINED")
           /\ PastAllowance(matchUp', p)
           /\ p \in Seated
           /\ policy.consequence = "DROP" =>
                drawPosition[p] < Bottom - 1 /\ policy.dropPositions > 0
           /\ policy.consequence = "FORFEIT_POSITION" => IsRankedBelow(c, p)
           =>
           p \notin DOMAIN drawPosition' \/ drawPosition'[p] > drawPosition[p]]_vars

-----------------------------------------------------------------------------
(* What a ladder promises.                                                 *)

\* The members in the order of their ranks: the ladder as LadderStanding sees it.
Ranking ==
  [rank \in 1 .. Cardinality(Seated) |-> CHOOSE p \in Seated : drawPosition[p] = rank]

Standing == INSTANCE LadderStanding WITH ranking <- Ranking

\* Every call rearranges the standing in one of the ways LadderStanding allows.
ImplementsStanding == Standing!Spec
=============================================================================
