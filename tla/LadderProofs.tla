---------------------------- MODULE LadderProofs ----------------------------
(***************************************************************************)
(* Theorems of Ladder, for any number of participants and challenges and   *)
(* any policies.  A standing is a ranking when it is a bijection from the  *)
(* members to 1 .. n; each way a call rearranges it keeps it one.  The     *)
(* last part shows that Ladder implements LadderStanding.                  *)
(***************************************************************************)
EXTENDS Ladder, TLAPS, FiniteSetTheorems, SequenceTheorems, WellFoundedInduction

\* f gives the ranks 1 to n, each to one member.
IsRanking(f, n) ==
  /\ f \in [DOMAIN f -> 1 .. n]
  /\ \A p, q \in DOMAIN f : f[p] = f[q] => p = q
  /\ \A i \in 1 .. n : \E p \in DOMAIN f : f[p] = i

\* A ranking has as many ranks as members.
LEMMA RanksCountMembers ==
  ASSUME NEW f, NEW n \in Nat, IsRanking(f, n)
  PROVE  IsFiniteSet(DOMAIN f) /\ Cardinality(DOMAIN f) = n
<1>1. f \in Injection(DOMAIN f, 1 .. n) /\ f \in Surjection(DOMAIN f, 1 .. n)
  BY DEF IsRanking, Injection, Surjection, IsInjective
<1>2. IsFiniteSet(1 .. n) /\ Cardinality(1 .. n) = n
  BY FS_Interval
<1>3. /\ IsFiniteSet(DOMAIN f)
      /\ Cardinality(DOMAIN f) = Cardinality(1 .. n) <=> f \in Surjection(DOMAIN f, 1 .. n)
  BY <1>1, <1>2, FS_Injection
<1> QED
  BY <1>1, <1>2, <1>3

\* The least element of a set of numbers, as Min names it.
LEMMA MinIsLeast ==
  ASSUME NEW S \in SUBSET Nat, S # {}
  PROVE  Min(S) \in S /\ \A y \in S : Min(S) <= y
<1> DEFINE Below == {0 .. k : k \in S}
<1>1. Below # {} /\ Below \subseteq FiniteSubsetsOf(Nat)
  <2>1. \A k \in S : 0 .. k \in SUBSET Nat /\ IsFiniteSet(0 .. k)
    BY FS_Interval
  <2> QED
    BY <2>1 DEF FiniteSubsetsOf
<1>2. PICK low \in Below : \A b \in Below : ~ (<<b, low>> \in StrictSubsetOrdering(Nat))
  <2>1. IsWellFoundedOn(StrictSubsetOrdering(Nat), FiniteSubsetsOf(Nat))
    BY FS_StrictSubsetOrderingWellFounded
  <2> QED
    BY <1>1, <2>1, WFMin
<1>3. PICK x \in S : low = 0 .. x
  BY <1>2
<1>4. ASSUME NEW y \in S
      PROVE  x <= y
  <2>1. 0 .. y \in Below /\ 0 .. y \subseteq Nat /\ 0 .. x \subseteq Nat
    OBVIOUS
  <2>2. ~ (0 .. y \subseteq 0 .. x /\ 0 .. y # 0 .. x)
    BY <1>2, <1>3, <2>1 DEF StrictSubsetOrdering
  <2>3. CASE y < x
    <3>1. x \in 0 .. x /\ x \notin 0 .. y /\ 0 .. y \subseteq 0 .. x
      BY <2>3
    <3> QED
      BY <2>2, <3>1
  <2> QED
    BY <2>3
<1> QED
  BY <1>4 DEF Min

-----------------------------------------------------------------------------
(* What a call leaves of a ranking is a ranking.                           *)

LEMMA BottomIsNext ==
  ASSUME NEW n \in Nat, IsRanking(drawPosition, n)
  PROVE  Bottom = n + 1
<1> DEFINE R == {drawPosition[p] : p \in Seated}
<1>1. R = 1 .. n
  BY DEF IsRanking, Seated
<1>2. CASE n = 0
  <2>1. Seated = {}
    BY <1>1, <1>2
  <2> QED
    BY <2>1, <1>2 DEF Bottom
<1>3. CASE n # 0
  <2>1. n \in R /\ \A y \in R : n >= y
    BY <1>1, <1>3
  <2>2. Max(R) = n
    BY <1>1, <2>1 DEF Max
  <2>3. Seated # {}
    BY <2>1
  <2> QED
    BY <2>2, <2>3 DEF Bottom
<1> QED
  BY <1>2, <1>3

LEMMA SwappedIsRanking ==
  ASSUME NEW n \in Nat, IsRanking(drawPosition, n),
         NEW c, NEW d, IsRankedBelow(c, d)
  PROVE  /\ IsRanking(Swapped(c, d), n)
         /\ DOMAIN Swapped(c, d) = Seated
<1> DEFINE f == drawPosition
           g == Swapped(c, d)
<1>1. /\ c \in Seated /\ d \in Seated /\ c # d
      /\ \A q \in Seated : f[q] \in 1 .. n
  BY DEF IsRanking, IsRankedBelow, Seated
<1>2. DOMAIN g = Seated
  BY DEF Swapped, Seated
<1>3. \A q \in Seated : g[q] = IF q = c THEN f[d] ELSE IF q = d THEN f[c] ELSE f[q]
  BY <1>1 DEF Swapped, Seated
<1>4. g \in [Seated -> 1 .. n]
  BY <1>1, <1>2, <1>3 DEF Swapped, Seated
<1>5. \A p, q \in Seated : g[p] = g[q] => p = q
  BY <1>1, <1>3 DEF IsRanking, Seated
<1>6. \A i \in 1 .. n : \E p \in Seated : g[p] = i
  BY <1>1, <1>3 DEF IsRanking, Seated
<1> QED
  BY <1>2, <1>4, <1>5, <1>6 DEF IsRanking

LEMMA InsertedIsRanking ==
  ASSUME NEW n \in Nat, IsRanking(drawPosition, n),
         NEW c, NEW d, IsRankedBelow(c, d)
  PROVE  /\ IsRanking(Inserted(c, d), n)
         /\ DOMAIN Inserted(c, d) = Seated
<1> DEFINE f == drawPosition
           g == Inserted(c, d)
<1>1. /\ c \in Seated /\ d \in Seated /\ f[d] < f[c]
      /\ \A q \in Seated : f[q] \in 1 .. n
      /\ \A p, q \in Seated : f[p] = f[q] => p = q
      /\ \A i \in 1 .. n : \E p \in Seated : f[p] = i
  BY DEF IsRanking, IsRankedBelow, Seated
<1>2. g = [q \in Seated |-> IF q = c THEN f[d]
                            ELSE IF f[q] \in f[d] .. f[c] - 1 THEN f[q] + 1 ELSE f[q]]
  BY DEF Inserted, Shifted
<1>3. \A q \in Seated : q # c => f[q] # f[c]
  BY <1>1
<1>4. g \in [Seated -> 1 .. n]
  BY <1>1, <1>2
<1>5. \A p, q \in Seated : g[p] = g[q] => p = q
  <2> SUFFICES ASSUME NEW p \in Seated, NEW q \in Seated, g[p] = g[q]
               PROVE  p = q
    OBVIOUS
  <2>1. CASE p = c \/ q = c
    BY <1>1, <1>2, <1>3, <2>1
  <2>2. CASE p # c /\ q # c
    BY <1>1, <1>2, <1>3, <2>2
  <2> QED
    BY <2>1, <2>2
<1>6. ASSUME NEW i \in 1 .. n
      PROVE  \E p \in Seated : g[p] = i
  <2>1. CASE i = f[d]
    BY <1>1, <1>2, <2>1
  <2>2. CASE i > f[d] /\ i <= f[c]
    <3>1. PICK p \in Seated : f[p] = i - 1
      BY <1>1, <2>2
    <3> QED
      BY <1>1, <1>2, <2>2, <3>1
  <2>3. CASE i < f[d] \/ i > f[c]
    <3>1. PICK p \in Seated : f[p] = i
      BY <1>1
    <3> QED
      BY <1>1, <1>2, <2>3, <3>1
  <2> QED
    BY <1>1, <2>1, <2>2, <2>3
<1> QED
  BY <1>2, <1>4, <1>5, <1>6 DEF IsRanking

LEMMA DroppedIsRanking ==
  ASSUME NEW n \in Nat, IsRanking(drawPosition, n),
         NEW p \in Seated, policy.dropPositions \in Nat
  PROVE  /\ IsRanking(Dropped(p), n)
         /\ DOMAIN Dropped(p) = Seated
<1> DEFINE f == drawPosition
           g == Dropped(p)
           to == Min({f[p] + policy.dropPositions, Bottom - 1})
<1>1. /\ \A q \in Seated : f[q] \in 1 .. n
      /\ \A r, q \in Seated : f[r] = f[q] => r = q
      /\ \A i \in 1 .. n : \E q \in Seated : f[q] = i
  BY DEF IsRanking, Seated
<1>2. to \in f[p] .. n
  <2>1. Bottom - 1 = n
    BY BottomIsNext
  <2>2. /\ to \in {f[p] + policy.dropPositions, n}
        /\ \A y \in {f[p] + policy.dropPositions, n} : to <= y
    BY <1>1, <2>1, MinIsLeast
  <2> QED
    BY <1>1, <2>2
<1> HIDE DEF to
<1>3. g = [q \in Seated |-> IF q = p THEN to
                            ELSE IF f[q] \in f[p] + 1 .. to THEN f[q] + (-1) ELSE f[q]]
  BY DEF Dropped, Shifted, to
<1>4. \A q \in Seated : q # p => f[q] # f[p]
  BY <1>1
<1>5. g \in [Seated -> 1 .. n]
  BY <1>1, <1>2, <1>3
<1>6. \A r, q \in Seated : g[r] = g[q] => r = q
  <2> SUFFICES ASSUME NEW r \in Seated, NEW q \in Seated, g[r] = g[q]
               PROVE  r = q
    OBVIOUS
  <2>1. CASE r = p \/ q = p
    BY <1>1, <1>2, <1>3, <1>4, <2>1
  <2>2. CASE r # p /\ q # p
    BY <1>1, <1>2, <1>3, <1>4, <2>2
  <2> QED
    BY <2>1, <2>2
<1>7. ASSUME NEW i \in 1 .. n
      PROVE  \E q \in Seated : g[q] = i
  <2>1. CASE i = to
    BY <1>3, <2>1
  <2>2. CASE i >= f[p] /\ i < to
    <3>1. PICK q \in Seated : f[q] = i + 1
      BY <1>1, <1>2, <2>2
    <3> QED
      BY <1>1, <1>2, <1>3, <2>2, <3>1
  <2>3. CASE i < f[p] \/ i > to
    <3>1. PICK q \in Seated : f[q] = i
      BY <1>1
    <3> QED
      BY <1>1, <1>2, <1>3, <2>3, <3>1
  <2> QED
    BY <1>1, <1>2, <2>1, <2>2, <2>3
<1> QED
  BY <1>3, <1>5, <1>6, <1>7 DEF IsRanking

LEMMA WithoutIsRanking ==
  ASSUME NEW n \in Nat, IsRanking(drawPosition, n), NEW p \in Seated
  PROVE  /\ n - 1 \in Nat /\ IsRanking(Without(p), n - 1)
         /\ DOMAIN Without(p) = Seated \ {p}
<1> DEFINE f == drawPosition
           g == Without(p)
<1>1. /\ \A q \in Seated : f[q] \in 1 .. n
      /\ \A r, q \in Seated : f[r] = f[q] => r = q
      /\ \A i \in 1 .. n : \E q \in Seated : f[q] = i
  BY DEF IsRanking, Seated
<1>2. g = [q \in Seated \ {p} |-> IF f[q] > f[p] THEN f[q] - 1 ELSE f[q]]
  BY DEF Without
<1>3. \A q \in Seated \ {p} : f[q] # f[p]
  BY <1>1
<1>4. g \in [Seated \ {p} -> 1 .. n - 1]
  BY <1>1, <1>2, <1>3
<1>5. \A r, q \in Seated \ {p} : g[r] = g[q] => r = q
  BY <1>1, <1>2, <1>3
<1>6. ASSUME NEW i \in 1 .. n - 1
      PROVE  \E q \in Seated \ {p} : g[q] = i
  <2>1. CASE i < f[p]
    BY <1>1, <1>2, <2>1
  <2>2. CASE i >= f[p]
    <3>1. PICK q \in Seated : f[q] = i + 1
      BY <1>1
    <3> QED
      BY <1>1, <1>2, <2>2, <3>1
  <2> QED
    BY <1>1, <2>1, <2>2
<1> QED
  BY <1>1, <1>2, <1>4, <1>5, <1>6 DEF IsRanking

LEMMA SeatedAtIsRanking ==
  ASSUME NEW n \in Nat, IsRanking(drawPosition, n),
         NEW p, p \notin Seated, NEW rank \in 1 .. n + 1
  PROVE  /\ IsRanking(SeatedAt(p, rank), n + 1)
         /\ DOMAIN SeatedAt(p, rank) = Seated \cup {p}
<1> DEFINE f == drawPosition
           g == SeatedAt(p, rank)
<1>1. /\ \A q \in Seated : f[q] \in 1 .. n /\ q # p
      /\ \A r, q \in Seated : f[r] = f[q] => r = q
      /\ \A i \in 1 .. n : \E q \in Seated : f[q] = i
  BY DEF IsRanking, Seated
<1>2. g = [q \in Seated \cup {p} |-> IF q = p THEN rank
                                     ELSE IF f[q] >= rank THEN f[q] + 1 ELSE f[q]]
  BY DEF SeatedAt
<1>3. g \in [Seated \cup {p} -> 1 .. n + 1]
  BY <1>1, <1>2
<1>4. \A r, q \in Seated \cup {p} : g[r] = g[q] => r = q
  BY <1>1, <1>2
<1>5. ASSUME NEW i \in 1 .. n + 1
      PROVE  \E q \in Seated \cup {p} : g[q] = i
  <2>1. CASE i = rank
    BY <1>2, <2>1
  <2>2. CASE i < rank
    BY <1>1, <1>2, <2>2
  <2>3. CASE i > rank
    <3>1. PICK q \in Seated : f[q] = i - 1
      BY <1>1, <2>3
    <3> QED
      BY <1>1, <1>2, <2>3, <3>1
  <2> QED
    BY <2>1, <2>2, <2>3
<1> QED
  BY <1>2, <1>3, <1>4, <1>5 DEF IsRanking

LEMMA EntryRankInRange ==
  ASSUME NEW n \in Nat, IsRanking(drawPosition, n), NEW p
  PROVE  EntryRank(p) \in 1 .. n + 1
<1> DEFINE outranked == {q \in Seated : Rating[q] # 0 /\ Rating[p] > Rating[q]}
           R == {drawPosition[q] : q \in outranked}
<1>1. Bottom = n + 1
  BY BottomIsNext
<1>2. R \subseteq 1 .. n
  BY DEF IsRanking, Seated
<1>3. CASE outranked = {}
  BY <1>1, <1>3 DEF EntryRank
<1>4. CASE outranked # {}
  <2>1. R # {} /\ R \in SUBSET Nat
    BY <1>2, <1>4
  <2>2. Min(R) \in 1 .. n
    BY <1>2, <2>1, MinIsLeast
  <2>3. EntryRank(p) \in {Bottom, Min(R)}
    BY DEF EntryRank
  <2> QED
    BY <1>1, <2>2, <2>3
<1> QED
  BY <1>3, <1>4

LEMMA OvertakenIsRanking ==
  ASSUME NEW n \in Nat, IsRanking(drawPosition, n),
         NEW c, NEW d, IsRankedBelow(c, d)
  PROVE  /\ IsRanking(Overtaken(c, d), n)
         /\ DOMAIN Overtaken(c, d) = Seated
BY SwappedIsRanking, InsertedIsRanking DEF Overtaken

-----------------------------------------------------------------------------
(* What every step does to the standing.                                   *)

IsStanding(f) ==
  /\ DOMAIN f \subseteq Participants
  /\ \E n \in Nat : IsRanking(f, n)

\* The standing stays one, its changes are mirrored, and who leaves it is recorded.
StandingStep ==
  /\ IsStanding(drawPosition')
  /\ rankScale' = MirrorStandingToScale(drawPosition')
  /\ removed \subseteq removed' /\ removed' \subseteq Participants
  /\ Seated \ removed' \subseteq Seated'

StandingInv == TypeOK /\ IsStanding(drawPosition)

LEMMA UnchangedStanding ==
  ASSUME StandingInv, UNCHANGED standing
  PROVE  StandingStep
<1>1. rankScale = MirrorStandingToScale(drawPosition)
  BY DEF StandingInv, TypeOK, MirrorStandingToScale, Seated
<1> QED
  BY <1>1 DEF StandingStep, StandingInv, TypeOK, standing, Seated

LEMMA TakeOffStep ==
  ASSUME StandingInv, NEW p, TakeOff(p)
  PROVE  StandingStep
<1>1. PICK n \in Nat : IsRanking(drawPosition, n)
  BY DEF StandingInv, IsStanding
<1>2. IsRanking(Without(p), n - 1) /\ n - 1 \in Nat /\ DOMAIN Without(p) = Seated \ {p}
  BY <1>1, WithoutIsRanking DEF TakeOff
<1>3. /\ drawPosition' = Without(p) /\ rankScale' = MirrorStandingToScale(Without(p))
      /\ removed' = removed \cup {p} /\ p \in Participants
      /\ removed \subseteq Participants /\ Seated \subseteq Participants
  BY DEF TakeOff, Rearrange, StandingInv, TypeOK, IsStanding, Seated
<1> QED
  BY <1>2, <1>3 DEF StandingStep, IsStanding, Seated

LEMMA ChallengerPrevailsStep ==
  ASSUME StandingInv, NEW c, NEW d, ChallengerPrevails(c, d)
  PROVE  StandingStep
<1>1. PICK n \in Nat : IsRanking(drawPosition, n)
  BY DEF StandingInv, IsStanding
<1>2. IsRanking(Overtaken(c, d), n) /\ DOMAIN Overtaken(c, d) = Seated
  BY <1>1, OvertakenIsRanking DEF ChallengerPrevails
<1>3. /\ drawPosition' = Overtaken(c, d)
      /\ rankScale' = MirrorStandingToScale(Overtaken(c, d))
      /\ removed' = removed
      /\ removed \subseteq Participants /\ Seated \subseteq Participants
  BY DEF ChallengerPrevails, Rearrange, StandingInv, TypeOK, IsStanding, Seated
<1> QED
  BY <1>1, <1>2, <1>3 DEF StandingStep, IsStanding, Seated

LEMMA DropStep ==
  ASSUME StandingInv, NEW p \in Seated, Rearrange(Dropped(p)), UNCHANGED removed
  PROVE  StandingStep
<1>1. PICK n \in Nat : IsRanking(drawPosition, n)
  BY DEF StandingInv, IsStanding
<1>2. policy.dropPositions \in Nat
  BY PolicyAssumption DEF StandingInv, TypeOK, LadderPolicy
<1>3. IsRanking(Dropped(p), n) /\ DOMAIN Dropped(p) = Seated
  BY <1>1, <1>2, DroppedIsRanking
<1>4. /\ drawPosition' = Dropped(p)
      /\ rankScale' = MirrorStandingToScale(Dropped(p))
      /\ removed' = removed
      /\ removed \subseteq Participants /\ Seated \subseteq Participants
  BY DEF Rearrange, StandingInv, TypeOK, IsStanding, Seated
<1> QED
  BY <1>1, <1>3, <1>4 DEF StandingStep, IsStanding, Seated

LEMMA AddStep ==
  ASSUME StandingInv, NEW p \in Participants, AddLadderParticipant(p)
  PROVE  StandingStep
<1>1. PICK n \in Nat : IsRanking(drawPosition, n)
  BY DEF StandingInv, IsStanding
<1> DEFINE joined == SeatedAt(p, EntryRank(p))
<1>2. EntryRank(p) \in 1 .. n + 1
  BY <1>1, EntryRankInRange
<1>3. IsRanking(joined, n + 1) /\ DOMAIN joined = Seated \cup {p}
  BY <1>1, <1>2, SeatedAtIsRanking DEF AddLadderParticipant
<1>4. /\ drawPosition' = joined
      /\ rankScale' = MirrorStandingToScale(joined)
      /\ removed' = removed
      /\ removed \subseteq Participants /\ Seated \subseteq Participants
  BY DEF AddLadderParticipant, Rearrange, StandingInv, TypeOK, IsStanding, Seated
<1> QED
  BY <1>1, <1>3, <1>4 DEF StandingStep, IsStanding, Seated

LEMMA DeclineStep ==
  ASSUME StandingInv, NEW m, NEW at, DeclineChallenge(m, at)
  PROVE  StandingStep
<1> DEFINE p == matchUp[m].defender
           c == matchUp[m].challenger
<1>1. UNCHANGED standing \/ ApplyLapseConsequence(p, c)
  BY DEF DeclineChallenge
<1>2. CASE UNCHANGED standing
  BY <1>2, UnchangedStanding
<1>3. CASE ApplyLapseConsequence(p, c)
  <2>1. \/ TakeOff(p)
        \/ ChallengerPrevails(c, p)
        \/ p \in Seated /\ Rearrange(Dropped(p)) /\ UNCHANGED removed
        \/ UNCHANGED standing
    BY <1>3 DEF ApplyLapseConsequence
  <2> QED
    BY <2>1, TakeOffStep, ChallengerPrevailsStep, DropStep, UnchangedStanding
<1> QED
  BY <1>1, <1>2, <1>3

LEMMA EveryStepIsAStandingStep ==
  ASSUME StandingInv, [Next]_vars
  PROVE  StandingStep
<1>1. CASE UNCHANGED vars
  BY <1>1, UnchangedStanding DEF vars
<1>2. CASE Tick
  BY <1>2, UnchangedStanding DEF Tick
<1>3. ASSUME NEW p \in Participants, AddLadderParticipant(p)
      PROVE  StandingStep
  BY <1>3, AddStep
<1>4. ASSUME NEW p \in Participants, RemoveLadderParticipant(p)
      PROVE  StandingStep
  BY <1>4, TakeOffStep DEF RemoveLadderParticipant
<1>5. ASSUME NEW c, NEW d, ApplyForfeit(c, d)
      PROVE  StandingStep
  BY <1>5, ChallengerPrevailsStep DEF ApplyForfeit
<1>6. ASSUME NEW m, NEW c, NEW d, NEW at, IssueChallenge(m, c, d, at)
      PROVE  StandingStep
  BY <1>6, UnchangedStanding DEF IssueChallenge
<1>7. ASSUME NEW m, ApplyResult(m)
      PROVE  StandingStep
  BY <1>7, ChallengerPrevailsStep DEF ApplyResult
<1>8. ASSUME NEW m, NEW at, DeclineChallenge(m, at)
      PROVE  StandingStep
  BY <1>8, DeclineStep
<1>9. ASSUME NEW m, NEW at, NEW p, NEW side,
             \/ AcceptChallenge(m, at) \/ SubmitResult(m, p, side, at)
             \/ ConfirmResult(m, p, FALSE, at) \/ ConfirmResult(m, p, TRUE, at)
             \/ DisputeResult(m, p, at)
      PROVE  StandingStep
  BY <1>9, UnchangedStanding DEF AcceptChallenge, SubmitResult, ConfirmResult, DisputeResult
<1> QED
  BY <1>1, <1>2, <1>3, <1>4, <1>5, <1>6, <1>7, <1>8, <1>9 DEF Next

-----------------------------------------------------------------------------
(* What every step does to the challenges.                                 *)

NewlyIssued(mu) ==
  /\ mu.matchUpStatus = "CHALLENGED"
  /\ \E c \in Participants, at \in Instants : mu.timeItems = <<Item("ISSUED", c, FALSE, at)>>

\* mu becomes nu by a call that writes one time item.
Extends(mu, nu) ==
  \E item \in TimeItem :
    /\ item.itemDate \in Instants /\ item.itemType # "ISSUED"
    /\ nu.timeItems = Append(mu.timeItems, item)
    /\ item.itemType = "ACCEPTED" => ChallengeState(mu, item.itemDate) = "PENDING"
    /\ item.itemType = "DECLINED" => ChallengeState(mu, item.itemDate) \in {"PENDING", "EXPIRED"}
    /\ nu.matchUpStatus = "COMPLETED" =>
         item.itemType = "CONFIRMED" /\ Attested(AddTimeItem(mu, item))

MatchUpStep ==
  /\ \E issued \in SUBSET MatchUps : matchUp' \in [issued -> Challenge]
  /\ \A m \in DOMAIN matchUp' :
       \/ m \in DOMAIN matchUp /\ matchUp'[m] = matchUp[m]
       \/ NewlyIssued(matchUp'[m])
       \/ m \in DOMAIN matchUp /\ Extends(matchUp[m], matchUp'[m])

LEMMA ItemType ==
  ASSUME NEW type \in ItemTypes, NEW by \in Participants \cup {Nobody},
         NEW operator \in BOOLEAN, NEW at \in Instants
  PROVE  /\ Item(type, by, operator, at) \in TimeItem
         /\ Item(type, by, operator, at).itemType = type
         /\ Item(type, by, operator, at).itemDate = at
BY DEF Item, TimeItem, Instants

\* A call that replaces one challenge by one with a time item more.
LEMMA OneChallengeChanges ==
  ASSUME TypeOK, NEW m \in DOMAIN matchUp, NEW nu \in Challenge,
         matchUp' = [matchUp EXCEPT ![m] = nu], Extends(matchUp[m], nu)
  PROVE  MatchUpStep
<1>1. PICK issued \in SUBSET MatchUps : matchUp \in [issued -> Challenge]
  BY DEF TypeOK
<1>2. /\ matchUp' \in [issued -> Challenge] /\ DOMAIN matchUp' = DOMAIN matchUp
      /\ matchUp'[m] = nu /\ \A n \in DOMAIN matchUp \ {m} : matchUp'[n] = matchUp[n]
  BY <1>1
<1> QED
  BY <1>2 DEF MatchUpStep

LEMMA AppendedItem ==
  ASSUME NEW mu \in Challenge, NEW item \in TimeItem
  PROVE  /\ AddTimeItem(mu, item) \in Challenge
         /\ AddTimeItem(mu, item).timeItems = Append(mu.timeItems, item)
         /\ \A status \in Statuses :
              LET nu == [AddTimeItem(mu, item) EXCEPT !.matchUpStatus = status]
              IN  /\ nu \in Challenge /\ nu.matchUpStatus = status
                  /\ nu.timeItems = Append(mu.timeItems, item)
<1>1. Append(mu.timeItems, item) \in Seq(TimeItem)
  BY DEF Challenge
<1> QED
  BY <1>1 DEF Challenge, AddTimeItem

LEMMA UnchangedMatchUps ==
  ASSUME TypeOK, UNCHANGED matchUp
  PROVE  MatchUpStep
BY DEF TypeOK, MatchUpStep

LEMMA IssueStep ==
  ASSUME TypeOK, Seated \subseteq Participants, NEW m \in MatchUps, NEW c, NEW d,
         NEW at \in Instants, IssueChallenge(m, c, d, at)
  PROVE  MatchUpStep
<1> DEFINE item == Item("ISSUED", c, FALSE, at)
           mu == [challenger |-> c, defender |-> d, matchUpStatus |-> "CHALLENGED",
                  winningSide |-> 0, timeItems |-> <<item>>]
<1>1. PICK issued \in SUBSET MatchUps : matchUp \in [issued -> Challenge]
  BY DEF TypeOK
<1>2. c \in Participants /\ d \in Participants
  BY DEF IssueChallenge, IsRankedBelow
<1>3. item \in TimeItem
  BY <1>2, ItemType DEF ItemTypes
<1>4. mu \in Challenge
  <2> HIDE DEF item
  <2>1. <<item>> \in Seq(TimeItem)
    BY <1>3
  <2> QED
    BY <1>2, <2>1 DEF Challenge, Statuses
<1>5. NewlyIssued(mu)
  BY <1>2 DEF NewlyIssued
<1>6. matchUp' = [n \in DOMAIN matchUp \cup {m} |-> IF n = m THEN mu ELSE matchUp[n]]
  BY DEF IssueChallenge
<1>7. matchUp' \in [issued \cup {m} -> Challenge] /\ issued \cup {m} \in SUBSET MatchUps
  BY <1>1, <1>4, <1>6
<1>8. \A n \in DOMAIN matchUp' :
        \/ n \in DOMAIN matchUp /\ matchUp'[n] = matchUp[n]
        \/ NewlyIssued(matchUp'[n])
  BY <1>5, <1>6
<1> QED
  BY <1>7, <1>8 DEF MatchUpStep

LEMMA AcceptStep ==
  ASSUME TypeOK, NEW m \in DOMAIN matchUp, NEW at \in Instants, AcceptChallenge(m, at)
  PROVE  MatchUpStep
<1> DEFINE mu == matchUp[m]
           item == Item("ACCEPTED", Nobody, FALSE, at)
           nu == [AddTimeItem(mu, item) EXCEPT !.matchUpStatus = "TO_BE_PLAYED"]
<1>1. mu \in Challenge
  BY DEF TypeOK
<1>2. item \in TimeItem /\ item.itemType = "ACCEPTED" /\ item.itemDate = at
  BY DEF Item, TimeItem, ItemTypes, Instants
<1>3. /\ nu \in Challenge /\ nu.matchUpStatus = "TO_BE_PLAYED"
      /\ nu.timeItems = Append(mu.timeItems, item)
  BY <1>1, <1>2, AppendedItem DEF Statuses
<1>4. ChallengeState(mu, at) = "PENDING" /\ matchUp' = [matchUp EXCEPT ![m] = nu]
  BY DEF AcceptChallenge
<1> HIDE DEF nu, item
<1>5. Extends(mu, nu)
  BY <1>2, <1>3, <1>4 DEF Extends
<1> QED
  BY <1>3, <1>4, <1>5, OneChallengeChanges

LEMMA DeclineMatchUpStep ==
  ASSUME TypeOK, NEW m \in DOMAIN matchUp, NEW at \in Instants, DeclineChallenge(m, at)
  PROVE  MatchUpStep
<1> DEFINE mu == matchUp[m]
           item == Item("DECLINED", Nobody, FALSE, at)
           nu == AddTimeItem(mu, item)
<1>1. mu \in Challenge
  BY DEF TypeOK
<1>2. item \in TimeItem /\ item.itemType = "DECLINED" /\ item.itemDate = at
  BY DEF Item, TimeItem, ItemTypes, Instants
<1>3. nu \in Challenge /\ nu.timeItems = Append(mu.timeItems, item)
  BY <1>1, <1>2, AppendedItem
<1>4. /\ ChallengeState(mu, at) \in {"PENDING", "EXPIRED"} /\ mu.matchUpStatus = "CHALLENGED"
      /\ matchUp' = [matchUp EXCEPT ![m] = nu]
  BY DEF DeclineChallenge
<1>5. nu.matchUpStatus = "CHALLENGED"
  BY <1>1, <1>4 DEF Challenge, AddTimeItem
<1> HIDE DEF nu, item
<1>6. Extends(mu, nu)
  BY <1>2, <1>3, <1>4, <1>5 DEF Extends
<1> QED
  BY <1>3, <1>4, <1>6, OneChallengeChanges

LEMMA SubmitStep ==
  ASSUME TypeOK, NEW m \in DOMAIN matchUp, NEW at \in Instants, NEW p \in Participants,
         NEW side \in 1 .. 2, SubmitResult(m, p, side, at)
  PROVE  MatchUpStep
<1> DEFINE mu == matchUp[m]
           item == Item("SUBMITTED", p, FALSE, at)
           nu == [AddTimeItem(mu, item)
                    EXCEPT !.winningSide = side, !.matchUpStatus = "AWAITING_RESULT"]
<1>1. mu \in Challenge
  BY DEF TypeOK
<1>2. item \in TimeItem /\ item.itemType = "SUBMITTED" /\ item.itemDate = at
  BY DEF Item, TimeItem, ItemTypes, Instants
<1>3. /\ nu \in Challenge /\ nu.matchUpStatus = "AWAITING_RESULT"
      /\ nu.timeItems = Append(mu.timeItems, item)
  <2> HIDE DEF item
  <2>1. /\ AddTimeItem(mu, item) \in Challenge
        /\ AddTimeItem(mu, item).timeItems = Append(mu.timeItems, item)
    BY <1>1, <1>2, AppendedItem
  <2> DEFINE base == AddTimeItem(mu, item)
  <2> HIDE DEF base
  <2>2. /\ base \in Challenge /\ base.timeItems = Append(mu.timeItems, item)
        /\ nu = [base EXCEPT !.winningSide = side, !.matchUpStatus = "AWAITING_RESULT"]
    BY <2>1 DEF base
  <2> HIDE DEF nu
  <2>3. side \in 0 .. 2 /\ "AWAITING_RESULT" \in Statuses
    BY DEF Statuses
  <2> QED
    BY <2>2, <2>3 DEF Challenge
<1>4. matchUp' = [matchUp EXCEPT ![m] = nu]
  BY DEF SubmitResult
<1> HIDE DEF nu, item
<1>5. Extends(mu, nu)
  BY <1>2, <1>3 DEF Extends
<1> QED
  BY <1>3, <1>4, <1>5, OneChallengeChanges

LEMMA ConfirmStep ==
  ASSUME TypeOK, NEW m \in DOMAIN matchUp, NEW at \in Instants,
         NEW p \in Participants \cup {Nobody}, NEW operator \in BOOLEAN,
         ConfirmResult(m, p, operator, at)
  PROVE  MatchUpStep
<1> DEFINE mu == matchUp[m]
           item == Item("CONFIRMED", p, operator, at)
           confirmed == AddTimeItem(mu, item)
           nu == IF Attested(confirmed)
                 THEN [confirmed EXCEPT !.matchUpStatus = "COMPLETED"] ELSE confirmed
<1>1. mu \in Challenge /\ mu.matchUpStatus = "AWAITING_RESULT"
  BY DEF TypeOK, ConfirmResult
<1>2. item \in TimeItem /\ item.itemType = "CONFIRMED" /\ item.itemDate = at
  BY DEF Item, TimeItem, ItemTypes, Instants
<1>3. matchUp' = [matchUp EXCEPT ![m] = nu]
  BY DEF ConfirmResult
<1> HIDE DEF item
<1>4. /\ nu \in Challenge /\ nu.timeItems = Append(mu.timeItems, item)
      /\ nu.matchUpStatus = "COMPLETED" => Attested(confirmed)
  <2>1. CASE Attested(confirmed)
    BY <1>1, <1>2, <2>1, AppendedItem DEF Statuses
  <2>2. CASE ~Attested(confirmed)
    <3>1. confirmed.matchUpStatus = "AWAITING_RESULT"
      BY <1>1 DEF Challenge, AddTimeItem
    <3> QED
      BY <1>1, <1>2, <2>2, <3>1, AppendedItem
  <2> QED
    BY <2>1, <2>2
<1> HIDE DEF nu
<1>5. Extends(mu, nu)
  BY <1>2, <1>4 DEF Extends
<1> QED
  BY <1>3, <1>4, <1>5, OneChallengeChanges

LEMMA DisputeStep ==
  ASSUME TypeOK, NEW m \in DOMAIN matchUp, NEW at \in Instants, NEW p \in Participants,
         DisputeResult(m, p, at)
  PROVE  MatchUpStep
<1> DEFINE mu == matchUp[m]
           item == Item("DISPUTED", p, FALSE, at)
           nu == [AddTimeItem(mu, item) EXCEPT !.matchUpStatus = "AWAITING_RESULT"]
<1>1. mu \in Challenge
  BY DEF TypeOK
<1>2. item \in TimeItem /\ item.itemType = "DISPUTED" /\ item.itemDate = at
  BY DEF Item, TimeItem, ItemTypes, Instants
<1>3. /\ nu \in Challenge /\ nu.matchUpStatus = "AWAITING_RESULT"
      /\ nu.timeItems = Append(mu.timeItems, item)
  BY <1>1, <1>2, AppendedItem DEF Statuses
<1>4. matchUp' = [matchUp EXCEPT ![m] = nu]
  BY DEF DisputeResult
<1> HIDE DEF nu, item
<1>5. Extends(mu, nu)
  BY <1>2, <1>3 DEF Extends
<1> QED
  BY <1>3, <1>4, <1>5, OneChallengeChanges

LEMMA EveryStepIsAMatchUpStep ==
  ASSUME StandingInv, [Next]_vars
  PROVE  MatchUpStep
<1>0. /\ TypeOK /\ Seated \subseteq Participants
      /\ \A m \in DOMAIN matchUp : Sides(matchUp[m]) \subseteq Participants
  BY DEF StandingInv, IsStanding, TypeOK, Sides, Challenge, Seated
<1>1. CASE UNCHANGED matchUp
  BY <1>0, <1>1, UnchangedMatchUps
<1>2. ASSUME NEW m \in MatchUps, NEW c, NEW d, NEW at \in Instants, IssueChallenge(m, c, d, at)
      PROVE  MatchUpStep
  BY <1>0, <1>2, IssueStep
<1>3. ASSUME NEW m \in DOMAIN matchUp, NEW at \in Instants,
             AcceptChallenge(m, at) \/ DeclineChallenge(m, at)
      PROVE  MatchUpStep
  BY <1>0, <1>3, AcceptStep, DeclineMatchUpStep
<1>4. ASSUME NEW m \in DOMAIN matchUp, NEW at \in Instants, NEW p \in Participants,
             NEW side \in 1 .. 2, SubmitResult(m, p, side, at)
      PROVE  MatchUpStep
  BY <1>0, <1>4, SubmitStep
<1>5. ASSUME NEW m \in DOMAIN matchUp, NEW at \in Instants, NEW p \in Participants,
             ConfirmResult(m, p, FALSE, at) \/ DisputeResult(m, p, at)
      PROVE  MatchUpStep
  BY <1>0, <1>5, ConfirmStep, DisputeStep
<1>6. ASSUME NEW m \in DOMAIN matchUp, NEW at \in Instants,
             NEW p \in Sides(matchUp[m]) \cup {Nobody}, ConfirmResult(m, p, TRUE, at)
      PROVE  MatchUpStep
  BY <1>0, <1>6, ConfirmStep
<1>7. ASSUME \/ Tick
             \/ \E p \in Participants : AddLadderParticipant(p) \/ RemoveLadderParticipant(p)
             \/ \E c, d \in Participants : ApplyForfeit(c, d)
             \/ \E m \in DOMAIN matchUp : ApplyResult(m)
             \/ UNCHANGED vars
      PROVE  UNCHANGED matchUp
  BY <1>7 DEF Tick, AddLadderParticipant, RemoveLadderParticipant, ApplyForfeit, ApplyResult, vars
<1> QED
  BY <1>1, <1>2, <1>3, <1>4, <1>5, <1>6, <1>7 DEF Next

-----------------------------------------------------------------------------
(* The standing.                                                           *)

LEMMA StandingInit == Init => StandingInv
<1> SUFFICES ASSUME Init PROVE StandingInv
  OBVIOUS
<1>1. DOMAIN drawPosition = {} /\ DOMAIN matchUp = {}
  BY DEF Init
<1>2. IsRanking(drawPosition, 0)
  BY <1>1 DEF Init, IsRanking
<1>3. Cardinality(Participants) \in Nat
  BY ParticipantAssumption, FS_CardinalityType
<1>4. /\ drawPosition \in [{} -> 1 .. Cardinality(Participants)]
      /\ matchUp \in [{} -> Challenge]
      /\ rankScale \in [Participants -> 0 .. Cardinality(Participants)]
  BY <1>3 DEF Init
<1>5. TypeOK
  <2>1. \E seated \in SUBSET Participants :
          drawPosition \in [seated -> 1 .. Cardinality(Participants)]
    BY <1>4
  <2>2. \E issued \in SUBSET MatchUps : matchUp \in [issued -> Challenge]
    BY <1>4
  <2>3. today \in 0 .. LastDay
    BY BoundAssumption DEF Init
  <2> QED
    BY <1>4, <2>1, <2>2, <2>3 DEF Init, TypeOK
<1> QED
  BY <1>1, <1>2, <1>5 DEF StandingInv, IsStanding

\* Ranks are bounded by the number of participants, because they count members.
LEMMA StandingStepTypes ==
  ASSUME StandingInv, StandingStep
  PROVE  /\ \E seated \in SUBSET Participants :
              drawPosition' \in [seated -> 1 .. Cardinality(Participants)]
         /\ rankScale' \in [Participants -> 0 .. Cardinality(Participants)]
<1> DEFINE N == Cardinality(Participants)
<1>1. PICK n \in Nat : IsRanking(drawPosition', n)
  BY DEF StandingStep, IsStanding
<1>2. N \in Nat /\ n <= N
  <2>1. N \in Nat
    BY ParticipantAssumption, FS_CardinalityType
  <2>2. Cardinality(DOMAIN drawPosition') = n
    BY <1>1, RanksCountMembers
  <2>3. DOMAIN drawPosition' \in SUBSET Participants
    BY DEF StandingStep, IsStanding
  <2> QED
    BY <2>1, <2>2, <2>3, ParticipantAssumption, FS_Subset
<1>3. drawPosition' \in [DOMAIN drawPosition' -> 1 .. N]
  BY <1>1, <1>2 DEF IsRanking
<1>4. rankScale' \in [Participants -> 0 .. N]
  <2>1. rankScale' = [p \in Participants |->
          IF p \in Seated \cap DOMAIN drawPosition' /\ drawPosition'[p] # drawPosition[p]
          THEN drawPosition'[p] ELSE rankScale[p]]
    BY DEF StandingStep, MirrorStandingToScale
  <2>2. rankScale \in [Participants -> 0 .. N]
    BY DEF StandingInv, TypeOK
  <2> QED
    BY <1>2, <1>3, <2>1, <2>2
<1> QED
  BY <1>3, <1>4 DEF StandingStep, IsStanding

\* No call changes the policy or the time.
LEMMA PolicyAndTime ==
  ASSUME [Next]_vars
  PROVE  policy' = policy /\ (today' = today \/ Tick)
<1> DEFINE Kept == policy' = policy /\ today' = today
<1>1. CASE UNCHANGED vars
  BY <1>1 DEF vars
<1>2. CASE Tick
  BY <1>2 DEF Tick
<1>3. ASSUME NEW p, AddLadderParticipant(p) \/ RemoveLadderParticipant(p)
      PROVE  Kept
  BY <1>3 DEF AddLadderParticipant, RemoveLadderParticipant
<1>4. ASSUME NEW c, NEW d, ApplyForfeit(c, d)
      PROVE  Kept
  BY <1>4 DEF ApplyForfeit
<1>5. ASSUME NEW m, NEW c, NEW d, NEW at, IssueChallenge(m, c, d, at)
      PROVE  Kept
  BY <1>5 DEF IssueChallenge
<1>6. ASSUME NEW m, NEW at, \/ ApplyResult(m) \/ AcceptChallenge(m, at)
                            \/ DeclineChallenge(m, at)
      PROVE  Kept
  BY <1>6 DEF ApplyResult, AcceptChallenge, DeclineChallenge
<1>7. ASSUME NEW m, NEW at, NEW p, NEW side,
             \/ SubmitResult(m, p, side, at)
             \/ ConfirmResult(m, p, FALSE, at) \/ ConfirmResult(m, p, TRUE, at)
             \/ DisputeResult(m, p, at)
      PROVE  Kept
  BY <1>7 DEF SubmitResult, ConfirmResult, DisputeResult
<1> QED
  BY <1>1, <1>2, <1>3, <1>4, <1>5, <1>6, <1>7 DEF Next

LEMMA StandingPreserved == StandingInv /\ [Next]_vars => StandingInv'
<1> SUFFICES ASSUME StandingInv, [Next]_vars PROVE StandingInv'
  OBVIOUS
<1>1. StandingStep /\ MatchUpStep
  BY EveryStepIsAStandingStep, EveryStepIsAMatchUpStep
<1>2. policy' = policy /\ (today' = today \/ Tick)
  BY PolicyAndTime
<1>3. policy' \in Policies /\ today' \in 0 .. LastDay
  BY <1>2, BoundAssumption DEF StandingInv, TypeOK, Tick
<1>4. TypeOK'
  BY <1>1, <1>2, <1>3, StandingStepTypes DEF TypeOK, StandingStep, MatchUpStep
<1> QED
  BY <1>1, <1>4 DEF StandingInv, StandingStep

LEMMA StandingAlways == Spec => []StandingInv
BY StandingInit, StandingPreserved, PTL DEF Spec

\* Type correctness: every reachable state of a ladder is well typed; in particular no rank
\* passes the number of participants.
THEOREM TypeCorrect == Spec => []TypeOK
<1>1. StandingInv => TypeOK
  BY DEF StandingInv
<1> QED
  BY <1>1, StandingAlways, PTL

\* However members join, leave, overtake and fall, their ranks are 1 to their number, each
\* held once.
THEOREM StandingStaysARanking == Spec => []StandingIsARanking
<1>1. ASSUME StandingInv PROVE StandingIsARanking
  <2>1. PICK n \in Nat : IsRanking(drawPosition, n)
    BY <1>1 DEF StandingInv, IsStanding
  <2>2. Cardinality(Seated) = n
    BY <2>1, RanksCountMembers DEF Seated
  <2>3. {drawPosition[p] : p \in Seated} = 1 .. n
    BY <2>1 DEF IsRanking, Seated
  <2> QED
    BY <2>2, <2>3 DEF StandingIsARanking
<1> QED
  BY <1>1, StandingAlways, PTL

-----------------------------------------------------------------------------
(* The rank history.                                                       *)

\* Who has never held a rank has no history: only leaving ends membership, and it is recorded.
HistoryInv ==
  /\ RankHistoryFollows
  /\ \A p \in Participants \ (Seated \cup removed) : rankScale[p] = 0

LEMMA HistoryPreserved ==
  ASSUME StandingInv, StandingStep, HistoryInv
  PROVE  HistoryInv'
<1>1. \A p \in Participants : rankScale'[p] =
        IF p \in Seated \cap Seated' /\ drawPosition'[p] # drawPosition[p]
        THEN drawPosition'[p] ELSE rankScale[p]
  BY DEF StandingStep, MirrorStandingToScale, Seated
<1>2. Seated' \subseteq Participants /\ removed \subseteq removed' /\ Seated \ removed' \subseteq Seated'
  BY DEF StandingStep, IsStanding, Seated
<1>3. ASSUME NEW p \in Seated' \ removed'
      PROVE  rankScale'[p] \in {0, drawPosition'[p]}
  <2>1. CASE p \in Seated
    BY <1>1, <1>2, <1>3, <2>1 DEF HistoryInv, RankHistoryFollows
  <2>2. CASE p \notin Seated
    BY <1>1, <1>2, <1>3, <2>2 DEF HistoryInv
  <2> QED
    BY <2>1, <2>2
<1>4. ASSUME NEW p \in Participants \ (Seated' \cup removed')
      PROVE  rankScale'[p] = 0
  BY <1>1, <1>2, <1>4 DEF HistoryInv
<1> QED
  BY <1>3, <1>4 DEF HistoryInv, RankHistoryFollows

\* The rank a member's history shows last is the rank the member holds, unless the member
\* was taken off the ladder before.
THEOREM HistoryFollowsStanding == Spec => []RankHistoryFollows
<1>1. Init => HistoryInv
  BY DEF Init, HistoryInv, RankHistoryFollows, Seated
<1>2. StandingInv /\ HistoryInv /\ [Next]_vars => HistoryInv'
  BY HistoryPreserved, EveryStepIsAStandingStep
<1>3. HistoryInv => RankHistoryFollows
  BY DEF HistoryInv
<1> QED
  BY <1>1, <1>2, <1>3, StandingAlways, PTL DEF Spec

-----------------------------------------------------------------------------
(* Time items.                                                             *)

\* The time items of nu are those of mu and, in the last place, item.
HasOneMore(mu, nu, item, last) ==
  /\ \A type : Written(nu, type) =
       IF item.itemType = type THEN Written(mu, type) \cup {last} ELSE Written(mu, type)
  /\ \A type : Written(mu, type) \subseteq 1 .. last - 1
  /\ \A i \in 1 .. last - 1 : nu.timeItems[i] = mu.timeItems[i]
  /\ nu.timeItems[last] = item /\ last \in Nat
  /\ DOMAIN mu.timeItems = 1 .. last - 1 /\ DOMAIN nu.timeItems = 1 .. last

LEMMA WrittenByOneMore ==
  ASSUME NEW mu, NEW nu, NEW item \in TimeItem,
         mu.timeItems \in Seq(TimeItem), nu.timeItems = Append(mu.timeItems, item)
  PROVE  HasOneMore(mu, nu, item, Len(mu.timeItems) + 1)
<1> DEFINE last == Len(mu.timeItems) + 1
<1>1. /\ DOMAIN mu.timeItems = 1 .. last - 1 /\ DOMAIN nu.timeItems = 1 .. last
      /\ last \in Nat /\ nu.timeItems[last] = item
      /\ \A i \in 1 .. last - 1 : nu.timeItems[i] = mu.timeItems[i]
  OBVIOUS
<1>2. ASSUME NEW type
      PROVE  /\ Written(nu, type) =
                  IF item.itemType = type THEN Written(mu, type) \cup {last}
                                          ELSE Written(mu, type)
             /\ Written(mu, type) \subseteq 1 .. last - 1
  BY <1>1 DEF Written
<1> HIDE DEF last
<1>3. HasOneMore(mu, nu, item, last)
  BY <1>1, <1>2 DEF HasOneMore
<1> QED
  BY <1>3 DEF last

LEMMA SoleIsLatest ==
  ASSUME NEW mu, NEW type, NEW i, Written(mu, type) = {i}, mu.timeItems \in Seq(TimeItem)
  PROVE  Latest(mu, type) = mu.timeItems[i]
<1>1. i \in Nat /\ mu.timeItems[i].itemDate \in Nat
  <2>1. i \in DOMAIN mu.timeItems
    BY DEF Written
  <2>2. mu.timeItems[i] \in TimeItem /\ i \in Nat
    BY <2>1
  <2> QED
    BY <2>2, BoundAssumption DEF TimeItem
<1> QED
  BY <1>1 DEF Latest

\* An open challenge is unanswered, and pending is not past its window.
LEMMA OpenIsUnanswered ==
  ASSUME NEW mu, NEW at, ChallengeState(mu, at) \in {"PENDING", "EXPIRED"}
  PROVE  /\ Written(mu, "ACCEPTED") = {} /\ Written(mu, "DECLINED") = {}
         /\ ChallengeState(mu, at) = "PENDING" => ~ (at >= ExpiresAt(mu))
BY DEF ChallengeState, Has

-----------------------------------------------------------------------------
(* Answers.                                                                *)

AnsweredRight(mu) ==
  /\ Written(mu, "ISSUED") = {1}
  /\ \A i, j \in Written(mu, "ACCEPTED") \cup Written(mu, "DECLINED") : i = j
  /\ \A i \in Written(mu, "ACCEPTED") :
       mu.timeItems[i].itemDate < mu.timeItems[1].itemDate + policy.acceptanceDays

AnswerInv == \A m \in DOMAIN matchUp : AnsweredRight(matchUp[m])

LEMMA NewlyIssuedIsUnanswered ==
  ASSUME NEW mu, NewlyIssued(mu)
  PROVE  AnsweredRight(mu)
<1>1. PICK c \in Participants, at \in Instants : mu.timeItems = <<Item("ISSUED", c, FALSE, at)>>
  BY DEF NewlyIssued
<1>2. DOMAIN mu.timeItems = {1} /\ mu.timeItems[1].itemType = "ISSUED"
  BY <1>1 DEF Item
<1> QED
  BY <1>2 DEF AnsweredRight, Written

LEMMA AnsweredRightPreserved ==
  ASSUME NEW mu \in Challenge, NEW nu, Extends(mu, nu), AnsweredRight(mu),
         policy \in LadderPolicy
  PROVE  AnsweredRight(nu)
<1>1. PICK item \in TimeItem :
        /\ item.itemType # "ISSUED"
        /\ nu.timeItems = Append(mu.timeItems, item)
        /\ item.itemType = "ACCEPTED" => ChallengeState(mu, item.itemDate) = "PENDING"
        /\ item.itemType = "DECLINED" =>
             ChallengeState(mu, item.itemDate) \in {"PENDING", "EXPIRED"}
  BY DEF Extends
<1>2. mu.timeItems \in Seq(TimeItem)
  BY DEF Challenge
<1>3. PICK last : HasOneMore(mu, nu, item, last)
  BY <1>1, <1>2, WrittenByOneMore
<1>4. Written(nu, "ISSUED") = {1} /\ nu.timeItems[1] = mu.timeItems[1]
  BY <1>1, <1>3 DEF AnsweredRight, HasOneMore
<1>5. CASE item.itemType \notin {"ACCEPTED", "DECLINED"}
  <2>1. /\ Written(nu, "ACCEPTED") = Written(mu, "ACCEPTED")
        /\ Written(nu, "DECLINED") = Written(mu, "DECLINED")
    BY <1>3, <1>5 DEF HasOneMore
  <2> QED
    BY <1>3, <1>4, <2>1 DEF AnsweredRight, HasOneMore
<1>6. CASE item.itemType = "DECLINED"
  <2>1. Written(nu, "ACCEPTED") = {} /\ Written(nu, "DECLINED") = {last}
    BY <1>1, <1>3, <1>6, OpenIsUnanswered DEF HasOneMore
  <2> QED
    BY <1>4, <2>1 DEF AnsweredRight
<1>7. CASE item.itemType = "ACCEPTED"
  <2>1. /\ Written(nu, "ACCEPTED") = {last} /\ Written(nu, "DECLINED") = {}
        /\ ~ (item.itemDate >= ExpiresAt(mu))
    BY <1>1, <1>3, <1>7, OpenIsUnanswered DEF HasOneMore
  <2>2. ExpiresAt(mu) = mu.timeItems[1].itemDate + policy.acceptanceDays
    BY <1>2, SoleIsLatest DEF AnsweredRight, ExpiresAt, LatestDate
  <2>3. mu.timeItems[1] \in TimeItem
    BY <1>2 DEF AnsweredRight, Written
  <2>4. /\ mu.timeItems[1].itemDate \in Int /\ item.itemDate \in Int
        /\ policy.acceptanceDays \in Int
    BY <2>3, BoundAssumption DEF TimeItem, LadderPolicy
  <2>5. item.itemDate < nu.timeItems[1].itemDate + policy.acceptanceDays
    BY <1>4, <2>1, <2>2, <2>4
  <2> QED
    BY <1>3, <1>4, <2>1, <2>5 DEF AnsweredRight, HasOneMore
<1> QED
  BY <1>5, <1>6, <1>7

LEMMA AnswerPreserved ==
  ASSUME StandingInv, [Next]_vars, AnswerInv
  PROVE  AnswerInv'
<1>1. MatchUpStep /\ policy' = policy /\ policy \in LadderPolicy
  BY EveryStepIsAMatchUpStep, PolicyAndTime, PolicyAssumption DEF StandingInv, TypeOK
<1>2. \A m \in DOMAIN matchUp : matchUp[m] \in Challenge
  BY DEF StandingInv, TypeOK
<1>3. ASSUME NEW m \in DOMAIN matchUp'
      PROVE  AnsweredRight(matchUp'[m])
  BY <1>1, <1>2, NewlyIssuedIsUnanswered, AnsweredRightPreserved DEF MatchUpStep, AnswerInv
<1>4. ASSUME NEW mu, AnsweredRight(mu)
      PROVE  /\ Written(mu, "ISSUED") = {1}
             /\ \A i, j \in Written(mu, "ACCEPTED") \cup Written(mu, "DECLINED") : i = j
             /\ \A i \in Written(mu, "ACCEPTED") :
                  mu.timeItems[i].itemDate < mu.timeItems[1].itemDate + policy'.acceptanceDays
  BY <1>1, <1>4 DEF AnsweredRight
<1> QED
  BY <1>3, <1>4 DEF AnswerInv, AnsweredRight, Written

\* A challenge is answered once, and accepted only inside its window, whatever clocks the
\* callers have.
THEOREM AnswersOnceInTime == Spec => []AnsweredOnceInTime
<1>1. Init => AnswerInv
  BY DEF Init, AnswerInv
<1>2. StandingInv /\ AnswerInv /\ [Next]_vars => AnswerInv'
  BY AnswerPreserved
<1>3. ASSUME StandingInv, AnswerInv
      PROVE  AnsweredOnceInTime
  <2> SUFFICES ASSUME NEW m \in DOMAIN matchUp
               PROVE  LET mu == matchUp[m]
                          W == Written(mu, "ACCEPTED") \cup Written(mu, "DECLINED")
                      IN  /\ Cardinality(W) <= 1
                          /\ Has(mu, "ACCEPTED") => LatestDate(mu, "ACCEPTED") < ExpiresAt(mu)
    BY DEF AnsweredOnceInTime
  <2> DEFINE mu == matchUp[m]
             W == Written(mu, "ACCEPTED") \cup Written(mu, "DECLINED")
  <2>1. AnsweredRight(mu) /\ mu.timeItems \in Seq(TimeItem)
    BY <1>3 DEF AnswerInv, StandingInv, TypeOK, Challenge
  <2>2. Cardinality(W) <= 1
    <3>1. CASE W = {}
      BY <3>1, FS_EmptySet
    <3>2. CASE W # {}
      <4>1. PICK i \in W : \A j \in W : i = j
        BY <2>1, <3>2 DEF AnsweredRight
      <4>2. W = {i}
        BY <4>1
      <4>3. Cardinality({i}) = 1
        BY FS_Singleton
      <4> QED
        BY <4>2, <4>3
    <3> QED
      BY <3>1, <3>2
  <2>3. ASSUME Has(mu, "ACCEPTED")
        PROVE  LatestDate(mu, "ACCEPTED") < ExpiresAt(mu)
    <3>1. PICK i \in Written(mu, "ACCEPTED") : Written(mu, "ACCEPTED") = {i}
      BY <2>1, <2>3 DEF Has, AnsweredRight
    <3>2. Latest(mu, "ACCEPTED") = mu.timeItems[i]
      BY <2>1, <3>1, SoleIsLatest
    <3>3. Latest(mu, "ISSUED") = mu.timeItems[1]
      BY <2>1, SoleIsLatest DEF AnsweredRight
    <3> QED
      BY <2>1, <3>1, <3>2, <3>3 DEF AnsweredRight, LatestDate, ExpiresAt
  <2> QED
    BY <2>2, <2>3
<1> QED
  BY <1>1, <1>2, <1>3, StandingAlways, PTL DEF Spec

-----------------------------------------------------------------------------
(* Declines.                                                               *)

FiniteInv == IsFiniteSet(DOMAIN matchUp)

\* What a step may do to the challenges, but for a decline: issue one, or add to one an item
\* of another kind.
Issues ==
  \E m : /\ DOMAIN matchUp' = DOMAIN matchUp \cup {m}
         /\ \A n \in DOMAIN matchUp : matchUp'[n] = matchUp[n]

ContinuesUndeclined ==
  \E m \in DOMAIN matchUp, item \in TimeItem :
    /\ item.itemType # "DECLINED"
    /\ DOMAIN matchUp' = DOMAIN matchUp
    /\ \A n \in DOMAIN matchUp \ {m} : matchUp'[n] = matchUp[n]
    /\ matchUp'[m].timeItems = Append(matchUp[m].timeItems, item)

LEMMA Continues ==
  ASSUME TypeOK, NEW m \in DOMAIN matchUp, NEW item \in TimeItem, item.itemType # "DECLINED",
         NEW nu, nu.timeItems = Append(matchUp[m].timeItems, item),
         matchUp' = [matchUp EXCEPT ![m] = nu]
  PROVE  ContinuesUndeclined
<1>1. /\ DOMAIN matchUp' = DOMAIN matchUp /\ matchUp'[m] = nu
      /\ \A n \in DOMAIN matchUp \ {m} : matchUp'[n] = matchUp[n]
  BY DEF TypeOK
<1> QED
  BY <1>1 DEF ContinuesUndeclined

LEMMA KindsOfStep ==
  ASSUME StandingInv, [Next]_vars
  PROVE  \/ UNCHANGED matchUp
         \/ Issues
         \/ ContinuesUndeclined
         \/ \E m \in DOMAIN matchUp, at \in Instants : DeclineChallenge(m, at)
<1> DEFINE Declines == \E m \in DOMAIN matchUp, at \in Instants : DeclineChallenge(m, at)
           Goal == UNCHANGED matchUp \/ Issues \/ ContinuesUndeclined \/ Declines
<1>1. TypeOK /\ \A m \in DOMAIN matchUp : matchUp[m] \in Challenge
  BY DEF StandingInv, TypeOK
<1>2. ASSUME NEW m \in DOMAIN matchUp, NEW at \in Instants, AcceptChallenge(m, at)
      PROVE  ContinuesUndeclined
  <2> DEFINE item == Item("ACCEPTED", Nobody, FALSE, at)
             nu == [AddTimeItem(matchUp[m], item) EXCEPT !.matchUpStatus = "TO_BE_PLAYED"]
  <2>1. item \in TimeItem /\ item.itemType = "ACCEPTED"
    BY DEF Item, TimeItem, ItemTypes, Instants
  <2>2. matchUp' = [matchUp EXCEPT ![m] = nu]
    BY <1>2 DEF AcceptChallenge
  <2>3. nu.timeItems = Append(matchUp[m].timeItems, item)
    <3> HIDE DEF item
    <3> QED
      BY <1>1, <2>1, AppendedItem DEF Statuses
  <2> HIDE DEF item, nu
  <2> QED
    BY <1>1, <2>1, <2>2, <2>3, Continues
<1>3. ASSUME NEW m \in DOMAIN matchUp, NEW at \in Instants, NEW p \in Participants,
             NEW side \in 1 .. 2, SubmitResult(m, p, side, at)
      PROVE  ContinuesUndeclined
  <2> DEFINE item == Item("SUBMITTED", p, FALSE, at)
             nu == [AddTimeItem(matchUp[m], item)
                      EXCEPT !.winningSide = side, !.matchUpStatus = "AWAITING_RESULT"]
  <2>1. item \in TimeItem /\ item.itemType = "SUBMITTED"
    BY DEF Item, TimeItem, ItemTypes, Instants
  <2>2. matchUp' = [matchUp EXCEPT ![m] = nu]
    BY <1>3 DEF SubmitResult
  <2>3. nu.timeItems = Append(matchUp[m].timeItems, item)
    <3> HIDE DEF item
    <3>1. /\ AddTimeItem(matchUp[m], item) \in Challenge
          /\ AddTimeItem(matchUp[m], item).timeItems = Append(matchUp[m].timeItems, item)
      BY <1>1, <2>1, AppendedItem
    <3> QED
      BY <3>1 DEF Challenge
  <2> HIDE DEF item, nu
  <2> QED
    BY <1>1, <2>1, <2>2, <2>3, Continues
<1>4. ASSUME NEW m \in DOMAIN matchUp, NEW at \in Instants, NEW p \in Participants \cup {Nobody},
             NEW operator \in BOOLEAN, ConfirmResult(m, p, operator, at)
      PROVE  ContinuesUndeclined
  <2> DEFINE item == Item("CONFIRMED", p, operator, at)
             confirmed == AddTimeItem(matchUp[m], item)
             nu == IF Attested(confirmed)
                   THEN [confirmed EXCEPT !.matchUpStatus = "COMPLETED"] ELSE confirmed
  <2>1. item \in TimeItem /\ item.itemType = "CONFIRMED"
    BY DEF Item, TimeItem, ItemTypes, Instants
  <2>2. matchUp' = [matchUp EXCEPT ![m] = nu]
    BY <1>4 DEF ConfirmResult
  <2>3. nu.timeItems = Append(matchUp[m].timeItems, item)
    <3> HIDE DEF item
    <3> QED
      BY <1>1, <2>1, AppendedItem DEF Statuses
  <2> HIDE DEF item, confirmed, nu
  <2> QED
    BY <1>1, <2>1, <2>2, <2>3, Continues
<1>5. ASSUME NEW m \in DOMAIN matchUp, NEW at \in Instants, NEW p \in Participants,
             DisputeResult(m, p, at)
      PROVE  ContinuesUndeclined
  <2> DEFINE item == Item("DISPUTED", p, FALSE, at)
             nu == [AddTimeItem(matchUp[m], item) EXCEPT !.matchUpStatus = "AWAITING_RESULT"]
  <2>1. item \in TimeItem /\ item.itemType = "DISPUTED"
    BY DEF Item, TimeItem, ItemTypes, Instants
  <2>2. matchUp' = [matchUp EXCEPT ![m] = nu]
    BY <1>5 DEF DisputeResult
  <2>3. nu.timeItems = Append(matchUp[m].timeItems, item)
    <3> HIDE DEF item
    <3> QED
      BY <1>1, <2>1, AppendedItem DEF Statuses
  <2> HIDE DEF item, nu
  <2> QED
    BY <1>1, <2>1, <2>2, <2>3, Continues
<1>6. ASSUME NEW m, NEW c, NEW d, NEW at, IssueChallenge(m, c, d, at)
      PROVE  Issues
  BY <1>6 DEF IssueChallenge, Issues
<1>7. ASSUME NEW m \in DOMAIN matchUp, NEW at \in Instants,
             \/ AcceptChallenge(m, at)
             \/ DeclineChallenge(m, at)
             \/ \E p \in Participants, side \in 1 .. 2 : SubmitResult(m, p, side, at)
             \/ \E p \in Participants : ConfirmResult(m, p, FALSE, at)
             \/ \E p \in Sides(matchUp[m]) \cup {Nobody} : ConfirmResult(m, p, TRUE, at)
             \/ \E p \in Participants : DisputeResult(m, p, at)
      PROVE  Goal
  <2>1. Sides(matchUp[m]) \subseteq Participants
    BY <1>1 DEF Sides, Challenge
  <2>2. CASE \E p \in Participants : ConfirmResult(m, p, FALSE, at)
    BY <1>4, <2>2
  <2>3. CASE \E p \in Sides(matchUp[m]) \cup {Nobody} : ConfirmResult(m, p, TRUE, at)
    BY <1>4, <2>1, <2>3
  <2>4. CASE DeclineChallenge(m, at)
    BY <2>4
  <2> QED
    BY <1>2, <1>3, <1>5, <1>7, <2>2, <2>3, <2>4
<1>8. ASSUME \/ UNCHANGED vars \/ Tick
             \/ \E p \in Participants : AddLadderParticipant(p) \/ RemoveLadderParticipant(p)
             \/ \E c, d \in Participants : ApplyForfeit(c, d)
             \/ \E m \in DOMAIN matchUp : ApplyResult(m)
      PROVE  UNCHANGED matchUp
  BY <1>8 DEF vars, Tick, AddLadderParticipant, RemoveLadderParticipant, ApplyForfeit, ApplyResult
<1> HIDE DEF Goal
<1>9. Issues \/ UNCHANGED matchUp => Goal
  BY DEF Goal
<1>10. Goal
  BY <1>6, <1>7, <1>8, <1>9 DEF Next
<1> QED
  BY <1>10 DEF Goal

LEMMA FinitePreserved ==
  ASSUME StandingInv, [Next]_vars, FiniteInv
  PROVE  FiniteInv'
<1>1. CASE UNCHANGED matchUp
  BY <1>1 DEF FiniteInv
<1>2. CASE Issues
  BY <1>2, FS_AddElement DEF FiniteInv, Issues
<1>3. CASE ContinuesUndeclined
  BY <1>3 DEF FiniteInv, ContinuesUndeclined
<1>4. CASE \E m \in DOMAIN matchUp, at \in Instants : DeclineChallenge(m, at)
  BY <1>4 DEF FiniteInv, DeclineChallenge
<1> QED
  BY <1>1, <1>2, <1>3, <1>4, KindsOfStep

\* A challenge that is declined by a step is declined by DeclineChallenge.
LEMMA OnlyDecliningDeclines ==
  ASSUME StandingInv, [Next]_vars, NEW m \in DOMAIN matchUp,
         ~ Has(matchUp[m], "DECLINED"), Has(matchUp'[m], "DECLINED")
  PROVE  \E at \in Instants : DeclineChallenge(m, at)
<1>1. CASE UNCHANGED matchUp \/ Issues
  BY <1>1 DEF Issues
<1>2. CASE ContinuesUndeclined
  <2>1. PICK n \in DOMAIN matchUp, item \in TimeItem :
          /\ item.itemType # "DECLINED"
          /\ \A k \in DOMAIN matchUp \ {n} : matchUp'[k] = matchUp[k]
          /\ matchUp'[n].timeItems = Append(matchUp[n].timeItems, item)
    BY <1>2 DEF ContinuesUndeclined
  <2>2. m = n
    BY <2>1
  <2>3. matchUp[m].timeItems \in Seq(TimeItem)
    BY DEF StandingInv, TypeOK, Challenge
  <2>4. PICK last : HasOneMore(matchUp[m], matchUp'[m], item, last)
    BY <2>1, <2>2, <2>3, WrittenByOneMore
  <2> QED
    BY <2>1, <2>4 DEF HasOneMore, Has
<1>3. CASE \E n \in DOMAIN matchUp, at \in Instants : DeclineChallenge(n, at)
  <2>1. PICK n \in DOMAIN matchUp, at \in Instants : DeclineChallenge(n, at)
    BY <1>3
  <2>2. CASE n # m
    <3>1. matchUp'[m] = matchUp[m]
      BY <2>1, <2>2 DEF DeclineChallenge, StandingInv, TypeOK
    <3> QED
      BY <3>1
  <2> QED
    BY <2>1, <2>2
<1> QED
  BY <1>1, <1>2, <1>3, KindsOfStep

\* What was declined counts against the defender at once.
LEMMA DeclineExceeds ==
  ASSUME StandingInv, FiniteInv, NEW m \in DOMAIN matchUp, NEW at \in Instants,
         DeclineChallenge(m, at), PastAllowance(matchUp', matchUp[m].defender)
  PROVE  Exceeded(matchUp', matchUp[m].defender, at)
<1> DEFINE p == matchUp[m].defender
           ms == matchUp'
           mu == matchUp[m]
           item == Item("DECLINED", Nobody, FALSE, at)
<1>1. matchUp \in [DOMAIN matchUp -> Challenge] /\ policy \in LadderPolicy
  BY PolicyAssumption DEF StandingInv, TypeOK
<1>2. item \in TimeItem /\ item.itemType = "DECLINED" /\ item.itemDate = at
  BY DEF Item, TimeItem, ItemTypes, Instants
<1>3. /\ DOMAIN ms = DOMAIN matchUp
      /\ ms[m].timeItems = Append(mu.timeItems, item) /\ ms[m].defender = p
      /\ ChallengeState(mu, at) \in {"PENDING", "EXPIRED"}
  <2> HIDE DEF item
  <2>1. ms = [matchUp EXCEPT ![m] = AddTimeItem(mu, item)]
    BY DEF DeclineChallenge, item
  <2>2. /\ AddTimeItem(mu, item).timeItems = Append(mu.timeItems, item)
        /\ AddTimeItem(mu, item).defender = p
    BY <1>1 DEF AddTimeItem, Challenge
  <2> QED
    BY <1>1, <2>1, <2>2 DEF DeclineChallenge
<1> HIDE DEF item
<1>4. PICK last : HasOneMore(mu, ms[m], item, last)
  BY <1>1, <1>2, <1>3, WrittenByOneMore DEF Challenge
<1>5. Written(ms[m], "DECLINED") = {last} /\ ms[m].timeItems[last] = item
  BY <1>2, <1>3, <1>4, OpenIsUnanswered DEF HasOneMore
<1>6. LatestDate(ms[m], "DECLINED") = at
  <2>1. ms[m].timeItems \in Seq(TimeItem)
    BY <1>1, <1>2, <1>3 DEF Challenge
  <2> QED
    BY <1>2, <1>5, <2>1, SoleIsLatest DEF LatestDate
<1>7. /\ policy.consequence # "NONE" /\ "DECLINE" \in policy.countsAsLapse
      /\ \/ policy.window = "SEASON" /\ Cardinality(Declined(ms, p)) > policy.allowance
         \/ policy.window = "ROLLING" /\ policy.allowance = 0
         \/ policy.window = "CONSECUTIVE" /\ policy.allowance = 0 /\ LastPlayed(ms, p) = {}
  BY DEF PastAllowance
<1> HIDE DEF ms, mu
<1>8. \A n \in Declined(ms, p) :
        LapseAt(ms[n], at) = {LatestDate(ms[n], "DECLINED")} /\ n \in Defended(ms, p)
  BY <1>7 DEF LapseAt, Declined
<1>9. IsFiniteSet(Lapses(ms, p, at)) /\ Cardinality(Lapses(ms, p, at)) \in Nat
  <2>1. Lapses(ms, p, at) \subseteq DOMAIN matchUp
    BY <1>3 DEF Lapses, Defended
  <2> QED
    BY <2>1, FS_Subset, FS_CardinalityType DEF FiniteInv
<1>10. CASE policy.window = "SEASON"
  <2>1. \A d : InWindow(ms, p, d, at)
    BY <1>10 DEF InWindow
  <2>2. Declined(ms, p) \subseteq Lapses(ms, p, at)
    BY <1>8, <2>1 DEF Lapses
  <2>3. Cardinality(Declined(ms, p)) <= Cardinality(Lapses(ms, p, at))
    BY <1>9, <2>2, FS_Subset
  <2>4. IsFiniteSet(Declined(ms, p)) /\ Cardinality(Declined(ms, p)) \in Nat
    BY <1>9, <2>2, FS_Subset, FS_CardinalityType
  <2>5. policy.allowance \in Nat /\ Cardinality(Declined(ms, p)) > policy.allowance
    BY <1>1, <1>7, <1>10 DEF LadderPolicy
  <2>6. Cardinality(Lapses(ms, p, at)) > policy.allowance
    BY <1>9, <2>3, <2>4, <2>5
  <2> QED
    BY <1>7, <2>6 DEF Exceeded, ms
<1>11. CASE policy.window # "SEASON"
  <2>1. m \in Declined(ms, p)
    BY <1>3, <1>5 DEF Declined, Defended, Has
  <2>2. InWindow(ms, p, at, at)
    <3>1. CASE policy.window = "ROLLING"
      <4>1. at \in Int /\ policy.windowDays \in Nat
        BY <1>1, BoundAssumption DEF LadderPolicy, Instants
      <4>2. at >= at - policy.windowDays
        BY <4>1
      <4> QED
        BY <3>1, <4>2 DEF InWindow
    <3>2. CASE policy.window = "CONSECUTIVE"
      BY <1>7, <3>2 DEF InWindow
    <3> QED
      BY <1>7, <1>11, <3>1, <3>2
  <2>3. m \in Lapses(ms, p, at)
    BY <1>6, <1>8, <2>1, <2>2 DEF Lapses
  <2>4. Cardinality(Lapses(ms, p, at)) # 0
    BY <1>9, <2>3, FS_EmptySet
  <2>5. policy.allowance = 0
    BY <1>7, <1>11
  <2>6. Cardinality(Lapses(ms, p, at)) > policy.allowance
    BY <1>9, <2>4, <2>5
  <2> QED
    BY <1>7, <2>6 DEF Exceeded, ms
<1> QED
  BY <1>10, <1>11 DEF ms

\* Each consequence costs the rank, if there is one to lose.
LEMMA ConsequenceCosts ==
  ASSUME StandingInv, policy.consequence # "NONE", NEW p \in Seated, NEW c,
         ApplyLapseConsequence(p, c),
         policy.consequence = "DROP" => drawPosition[p] < Bottom - 1 /\ policy.dropPositions > 0,
         policy.consequence = "FORFEIT_POSITION" => IsRankedBelow(c, p)
  PROVE  p \notin DOMAIN drawPosition' \/ drawPosition'[p] > drawPosition[p]
<1>1. PICK n \in Nat : IsRanking(drawPosition, n)
  BY DEF StandingInv, IsStanding
<1>2. policy \in LadderPolicy
  BY PolicyAssumption DEF StandingInv, TypeOK
<1>3. drawPosition \in [Seated -> 1 .. n] /\ Bottom = n + 1
  BY <1>1, BottomIsNext DEF IsRanking, Seated
<1>4. CASE policy.consequence = "REMOVE"
  <2>1. TakeOff(p)
    BY <1>4 DEF ApplyLapseConsequence, ConsequenceFails
  <2> QED
    BY <2>1 DEF TakeOff, Rearrange, Without
<1>5. CASE policy.consequence = "FORFEIT_POSITION"
  <2>1. ChallengerPrevails(c, p) /\ IsRankedBelow(c, p)
    BY <1>5 DEF ApplyLapseConsequence, ConsequenceFails
  <2>2. /\ drawPosition' = Overtaken(c, p) /\ c \in Seated /\ c # p
        /\ drawPosition[p] \in Nat /\ drawPosition[c] \in Nat
        /\ drawPosition[p] < drawPosition[c]
    BY <1>3, <2>1 DEF ChallengerPrevails, Rearrange, IsRankedBelow
  <2>3. Swapped(c, p)[p] = drawPosition[c]
    BY <1>3, <2>2 DEF Swapped
  <2>4. Inserted(c, p)[p] = drawPosition[p] + 1
    <3>1. drawPosition[p] \in drawPosition[p] .. drawPosition[c] - 1
      BY <2>2
    <3> QED
      BY <2>2, <3>1 DEF Inserted, Shifted
  <2> QED
    BY <2>2, <2>3, <2>4 DEF Overtaken
<1>6. CASE policy.consequence = "DROP"
  <2>1. drawPosition' = Dropped(p)
    BY <1>6 DEF ApplyLapseConsequence, ConsequenceFails, Rearrange
  <2> DEFINE falls == drawPosition[p] + policy.dropPositions
             to == Min({falls, Bottom - 1})
  <2>2. /\ drawPosition[p] \in Nat /\ falls \in Nat /\ Bottom - 1 \in Nat
        /\ falls > drawPosition[p] /\ Bottom - 1 > drawPosition[p]
    BY <1>2, <1>3, <1>6 DEF LadderPolicy
  <2> HIDE DEF falls
  <2>3. to \in {falls, Bottom - 1}
    <3>1. {falls, Bottom - 1} \in SUBSET Nat /\ {falls, Bottom - 1} # {}
      BY <2>2
    <3> QED
      BY <3>1, MinIsLeast
  <2>4. Dropped(p)[p] = to
    BY DEF Dropped, Shifted, falls
  <2> QED
    BY <2>1, <2>2, <2>3, <2>4
<1> QED
  BY <1>2, <1>4, <1>5, <1>6 DEF LadderPolicy

\* Whatever happened before, a decline past the allowance costs the defender the rank held in
\* the call that records it.
THEOREM DeclinesCost == Spec => DeclineCostsTheRank
<1>1. Init => FiniteInv
  BY FS_EmptySet DEF Init, FiniteInv
<1>2. StandingInv /\ FiniteInv /\ [Next]_vars => FiniteInv'
  BY FinitePreserved
<1>3. ASSUME StandingInv, FiniteInv, [Next]_vars, NEW m \in DOMAIN matchUp,
             ~ Has(matchUp[m], "DECLINED"), Has(matchUp'[m], "DECLINED"),
             PastAllowance(matchUp', matchUp[m].defender),
             matchUp[m].defender \in Seated,
             policy.consequence = "DROP" =>
               drawPosition[matchUp[m].defender] < Bottom - 1 /\ policy.dropPositions > 0,
             policy.consequence = "FORFEIT_POSITION" =>
               IsRankedBelow(matchUp[m].challenger, matchUp[m].defender)
      PROVE  \/ matchUp[m].defender \notin DOMAIN drawPosition'
             \/ drawPosition'[matchUp[m].defender] > drawPosition[matchUp[m].defender]
  <2>1. PICK at \in Instants : DeclineChallenge(m, at)
    BY <1>3, OnlyDecliningDeclines
  <2>2. Exceeded(matchUp', matchUp[m].defender, at)
    BY <1>3, <2>1, DeclineExceeds
  <2>3. ApplyLapseConsequence(matchUp[m].defender, matchUp[m].challenger)
    BY <2>1, <2>2 DEF DeclineChallenge
  <2>4. policy.consequence # "NONE"
    BY <1>3 DEF PastAllowance
  <2> QED
    BY <1>3, <2>3, <2>4, ConsequenceCosts
<1> DEFINE Costs ==
      \A m \in DOMAIN matchUp :
        LET p == matchUp[m].defender
            c == matchUp[m].challenger
        IN  /\ ~Has(matchUp[m], "DECLINED") /\ Has(matchUp'[m], "DECLINED")
            /\ PastAllowance(matchUp', p)
            /\ p \in Seated
            /\ policy.consequence = "DROP" =>
                 drawPosition[p] < Bottom - 1 /\ policy.dropPositions > 0
            /\ policy.consequence = "FORFEIT_POSITION" => IsRankedBelow(c, p)
            =>
            p \notin DOMAIN drawPosition' \/ drawPosition'[p] > drawPosition[p]
<1>4. StandingInv /\ FiniteInv /\ [Next]_vars => [Costs]_vars
  BY <1>3
<1> HIDE DEF Costs
<1>5. Spec => [][Costs]_vars
  BY <1>1, <1>2, <1>4, StandingAlways, PTL DEF Spec
<1> QED
  BY <1>5 DEF DeclineCostsTheRank, Costs

-----------------------------------------------------------------------------
(* Results, as long as a matchUp's time items are dated in the order they  *)
(* were written: always so when callers agree on the time, MaxLag = 0.     *)

LEMMA MaxIsGreatest ==
  ASSUME NEW n \in Nat, NEW S \in SUBSET (1 .. n), S # {}
  PROVE  Max(S) \in S /\ \A y \in S : y <= Max(S)
<1> DEFINE T == {n - k : k \in S}
<1>1. T \in SUBSET Nat /\ T # {}
  <2>1. \A k \in S : n - k \in Nat
    OBVIOUS
  <2>2. PICK k \in S : TRUE
    OBVIOUS
  <2>3. n - k \in T
    BY <2>2
  <2> QED
    BY <2>1, <2>3
<1>2. Min(T) \in T /\ \A y \in T : Min(T) <= y
  BY <1>1, MinIsLeast
<1>3. PICK x \in S : Min(T) = n - x
  BY <1>2
<1>4. \A y \in S : x >= y
  <2> SUFFICES ASSUME NEW y \in S PROVE x >= y
    OBVIOUS
  <2>1. n - x <= n - y
    BY <1>2, <1>3
  <2> QED
    BY <2>1
<1>5. Max(S) \in S /\ \A y \in S : Max(S) >= y
  BY <1>4 DEF Max
<1> QED
  BY <1>5

\* The time items of a matchUp carry instants in the order of writing ...
DatesInOrder(mu) ==
  \A i, j \in DOMAIN mu.timeItems :
    i <= j => mu.timeItems[i].itemDate <= mu.timeItems[j].itemDate

\* ... and none in the future.
InOrder(mu) ==
  /\ DatesInOrder(mu)
  /\ \A i \in DOMAIN mu.timeItems : mu.timeItems[i].itemDate <= today

ItemsInOrder == \A m \in DOMAIN matchUp : DatesInOrder(matchUp[m])

OrderInv == \A m \in DOMAIN matchUp : InOrder(matchUp[m])

LEMMA LastWrittenIsLast ==
  ASSUME NEW mu, NEW type, mu.timeItems \in Seq(TimeItem), Has(mu, type)
  PROVE  /\ LastWritten(mu, type) \in Written(mu, type)
         /\ \A i \in Written(mu, type) : i <= LastWritten(mu, type)
<1>1. /\ Written(mu, type) \in SUBSET (1 .. Len(mu.timeItems))
      /\ Written(mu, type) # {} /\ Len(mu.timeItems) \in Nat
  BY DEF Written, Has
<1> QED
  BY <1>1, MaxIsGreatest DEF LastWritten

LEMMA LatestIsLastWritten ==
  ASSUME NEW mu, NEW type, mu.timeItems \in Seq(TimeItem), DatesInOrder(mu), Has(mu, type)
  PROVE  Latest(mu, type) = mu.timeItems[LastWritten(mu, type)]
<1> DEFINE date(i) == mu.timeItems[i].itemDate
           IsLatest(i) == \A j \in Written(mu, type) :
                            date(j) < date(i) \/ (date(j) = date(i) /\ j <= i)
           last == LastWritten(mu, type)
           latest == CHOOSE i \in Written(mu, type) : IsLatest(i)
<1>1. last \in Written(mu, type) /\ \A i \in Written(mu, type) : i <= last
  BY LastWrittenIsLast
<1>2. \A i \in Written(mu, type) : i \in DOMAIN mu.timeItems /\ i \in Nat /\ date(i) \in Nat
  <2> SUFFICES ASSUME NEW i \in Written(mu, type)
               PROVE  i \in DOMAIN mu.timeItems /\ i \in Nat /\ date(i) \in Nat
    OBVIOUS
  <2>1. i \in DOMAIN mu.timeItems
    BY DEF Written
  <2>2. mu.timeItems[i] \in TimeItem /\ i \in Nat
    BY <2>1
  <2> QED
    BY <2>1, <2>2, BoundAssumption DEF TimeItem
<1> HIDE DEF last, date
<1>3. \A i \in Written(mu, type) : date(i) <= date(last)
  BY <1>1, <1>2 DEF DatesInOrder, date
<1>4. IsLatest(last)
  BY <1>1, <1>2, <1>3
<1>5. latest \in Written(mu, type) /\ IsLatest(latest)
  BY <1>1, <1>4
<1> HIDE DEF latest
<1>6. latest = last
  BY <1>1, <1>2, <1>3, <1>5
<1> QED
  BY <1>6 DEF Latest, last, latest, date

Agreed(mu) ==
  LET reporter == mu.timeItems[LastWritten(mu, "SUBMITTED")]
      attestor == mu.timeItems[LastWritten(mu, "CONFIRMED")]
  IN  mu.matchUpStatus = "COMPLETED" =>
        /\ attestor.operator \/ attestor.by # reporter.by
        /\ \A i \in Written(mu, "SUBMITTED") \cup Written(mu, "DISPUTED") :
             i < LastWritten(mu, "CONFIRMED")

AgreedInv == \A m \in DOMAIN matchUp : Agreed(matchUp[m])

LEMMA OnlyTheCurrentInstant ==
  ASSUME MaxLag = 0, StandingInv
  PROVE  Instants \subseteq {today} /\ today \in Nat
BY BoundAssumption DEF StandingInv, TypeOK, Instants

LEMMA OrderPreserved ==
  ASSUME MaxLag = 0, StandingInv, [Next]_vars, OrderInv
  PROVE  OrderInv'
<1>1. MatchUpStep /\ (today' = today \/ Tick)
  BY EveryStepIsAMatchUpStep, PolicyAndTime
<1>2. Instants \subseteq {today} /\ today \in Nat /\ today <= today'
  BY <1>1, OnlyTheCurrentInstant DEF Tick
<1>3. \A m \in DOMAIN matchUp : matchUp[m].timeItems \in Seq(TimeItem)
  BY DEF StandingInv, TypeOK, Challenge
<1>4. ASSUME NEW item \in TimeItem
      PROVE  item.itemDate \in Nat
  BY BoundAssumption DEF TimeItem
<1> DEFINE Ordered(mu) ==
      /\ \A i, j \in DOMAIN mu.timeItems :
           i <= j => mu.timeItems[i].itemDate <= mu.timeItems[j].itemDate
      /\ \A i \in DOMAIN mu.timeItems : mu.timeItems[i].itemDate <= today'
<1>5. ASSUME NEW mu, mu.timeItems \in Seq(TimeItem), InOrder(mu)
      PROVE  Ordered(mu)
  <2>1. ASSUME NEW i \in DOMAIN mu.timeItems
        PROVE  mu.timeItems[i].itemDate <= today'
    <3>1. mu.timeItems[i] \in TimeItem
      BY <1>5
    <3>2. mu.timeItems[i].itemDate \in Nat /\ mu.timeItems[i].itemDate <= today
      BY <1>4, <1>5, <3>1 DEF InOrder
    <3>3. today' \in Nat
      BY <1>1, <1>2 DEF Tick
    <3> QED
      BY <1>2, <3>2, <3>3
  <2> QED
    BY <1>5, <2>1 DEF InOrder, DatesInOrder
<1>6. ASSUME NEW mu, NewlyIssued(mu)
      PROVE  Ordered(mu)
  <2>1. PICK c \in Participants, at \in Instants :
          mu.timeItems = <<Item("ISSUED", c, FALSE, at)>>
    BY <1>6 DEF NewlyIssued
  <2>2. DOMAIN mu.timeItems = {1} /\ mu.timeItems[1].itemDate = today
    BY <1>2, <2>1 DEF Item
  <2> QED
    BY <1>2, <2>2
<1>7. ASSUME NEW mu, NEW nu, mu.timeItems \in Seq(TimeItem), InOrder(mu), Extends(mu, nu)
      PROVE  Ordered(nu)
  <2>1. PICK item \in TimeItem :
          item.itemDate \in Instants /\ nu.timeItems = Append(mu.timeItems, item)
    BY <1>7 DEF Extends
  <2>2. item.itemDate = today
    BY <1>2, <2>1
  <2>3. PICK last : HasOneMore(mu, nu, item, last)
    BY <1>7, <2>1, WrittenByOneMore
  <2>4. /\ Ordered(mu) /\ last \in Nat /\ nu.timeItems[last] = item
        /\ \A i \in 1 .. last - 1 :
             nu.timeItems[i] = mu.timeItems[i] /\ nu.timeItems[i].itemDate <= today
    BY <1>5, <1>7, <2>3 DEF InOrder, HasOneMore
  <2>5. ASSUME NEW i \in 1 .. last, NEW j \in 1 .. last, i <= j
        PROVE  nu.timeItems[i].itemDate <= nu.timeItems[j].itemDate
    <3>1. CASE j = last
      BY <1>2, <2>2, <2>4, <3>1
    <3>2. CASE j # last
      <4>1. i \in 1 .. last - 1 /\ j \in 1 .. last - 1
        BY <2>3, <2>5, <3>2 DEF HasOneMore
      <4>2. mu.timeItems[i].itemDate <= mu.timeItems[j].itemDate
        BY <2>3, <2>4, <2>5, <4>1 DEF HasOneMore
      <4> QED
        BY <2>3, <4>1, <4>2 DEF HasOneMore
    <3> QED
      BY <3>1, <3>2
  <2>6. ASSUME NEW i \in 1 .. last
        PROVE  nu.timeItems[i].itemDate <= today'
    <3>1. CASE i = last
      BY <1>2, <2>2, <2>4, <3>1
    <3>2. CASE i # last
      <4>1. nu.timeItems[i] = mu.timeItems[i] /\ i \in DOMAIN mu.timeItems
        BY <2>3, <2>4, <2>6, <3>2 DEF HasOneMore
      <4> QED
        BY <2>4, <4>1
    <3> QED
      BY <3>1, <3>2
  <2> QED
    BY <2>3, <2>5, <2>6 DEF HasOneMore
<1>8. \A m \in DOMAIN matchUp' : Ordered(matchUp'[m])
  BY <1>1, <1>3, <1>5, <1>6, <1>7 DEF MatchUpStep, OrderInv
<1> QED
  BY <1>8 DEF OrderInv, InOrder, DatesInOrder

\* A confirmation that completes a matchUp attests its last report, and comes last.
LEMMA ConfirmationAgrees ==
  ASSUME NEW mu \in Challenge, NEW nu, DatesInOrder(nu), Extends(mu, nu)
  PROVE  Agreed(nu)
<1> SUFFICES ASSUME nu.matchUpStatus = "COMPLETED" PROVE Agreed(nu)
  BY DEF Agreed
<1>1. PICK item \in TimeItem :
        /\ item.itemType = "CONFIRMED"
        /\ nu.timeItems = Append(mu.timeItems, item)
        /\ Attested(AddTimeItem(mu, item))
  BY DEF Extends
<1> DEFINE conf == AddTimeItem(mu, item)
<1>2. /\ mu.timeItems \in Seq(TimeItem) /\ nu.timeItems \in Seq(TimeItem)
      /\ nu.timeItems = Append(mu.timeItems, item)
  BY <1>1 DEF Challenge
<1>3. conf.timeItems = nu.timeItems /\ Attested(conf)
  BY <1>1 DEF Challenge, AddTimeItem
<1>4. PICK last : HasOneMore(mu, nu, item, last)
  BY <1>2, WrittenByOneMore
<1> HIDE DEF conf
<1>5. Has(nu, "SUBMITTED") /\ Has(nu, "CONFIRMED")
  BY <1>3 DEF Attested, Has, Written
<1>6. /\ Latest(conf, "SUBMITTED") = Latest(nu, "SUBMITTED")
      /\ Latest(conf, "CONFIRMED") = Latest(nu, "CONFIRMED")
  BY <1>3 DEF Latest, Written
<1>7. /\ Latest(nu, "SUBMITTED") = nu.timeItems[LastWritten(nu, "SUBMITTED")]
      /\ Latest(nu, "CONFIRMED") = nu.timeItems[LastWritten(nu, "CONFIRMED")]
  BY <1>2, <1>5, LatestIsLastWritten
<1>8. LastWritten(nu, "CONFIRMED") = last
  <2>1. /\ Written(nu, "CONFIRMED") = Written(mu, "CONFIRMED") \cup {last} /\ last \in Nat
        /\ Written(mu, "CONFIRMED") \subseteq 1 .. last - 1
    BY <1>1, <1>4 DEF HasOneMore
  <2>2. /\ LastWritten(nu, "CONFIRMED") \in Written(nu, "CONFIRMED")
        /\ \A i \in Written(nu, "CONFIRMED") : i <= LastWritten(nu, "CONFIRMED")
    BY <1>2, <1>5, LastWrittenIsLast
  <2> QED BY <2>1, <2>2
<1>9. \A i \in Written(nu, "SUBMITTED") \cup Written(nu, "DISPUTED") : i < last
  BY <1>1, <1>4 DEF HasOneMore
<1>10. Latest(nu, "CONFIRMED").by # Latest(nu, "SUBMITTED").by \/ Latest(nu, "CONFIRMED").operator
  BY <1>3, <1>6 DEF Attested
<1> QED
  BY <1>7, <1>8, <1>9, <1>10 DEF Agreed

LEMMA AgreedPreserved ==
  ASSUME StandingInv, [Next]_vars, AgreedInv, ItemsInOrder'
  PROVE  AgreedInv'
<1>1. MatchUpStep
  BY EveryStepIsAMatchUpStep
<1>2. \A m \in DOMAIN matchUp : matchUp[m] \in Challenge
  BY DEF StandingInv, TypeOK
<1>3. \A m \in DOMAIN matchUp' : DatesInOrder(matchUp'[m])
  BY DEF ItemsInOrder, DatesInOrder
<1>4. ASSUME NEW m \in DOMAIN matchUp'
      PROVE  Agreed(matchUp'[m])
  <2>1. CASE m \in DOMAIN matchUp /\ matchUp'[m] = matchUp[m]
    BY <2>1 DEF AgreedInv
  <2>2. CASE NewlyIssued(matchUp'[m])
    BY <2>2 DEF NewlyIssued, Agreed
  <2>3. CASE m \in DOMAIN matchUp /\ Extends(matchUp[m], matchUp'[m])
    BY <1>2, <1>3, <2>3, ConfirmationAgrees
  <2> QED
    BY <1>1, <2>1, <2>2, <2>3 DEF MatchUpStep
<1> QED
  BY <1>4 DEF AgreedInv, Agreed

\* Whatever clocks callers have, as long as the time items of a matchUp come to be dated in the
\* order they were written, a completed matchUp was confirmed by someone other than its last
\* reporter after that report, and nobody has disputed it since.
THEOREM OrderedItemsAgree == Spec /\ []ItemsInOrder => []CompletedIsAgreed
<1>1. Init => AgreedInv
  BY DEF Init, AgreedInv
<1>2. StandingInv /\ AgreedInv /\ [Next]_vars /\ ItemsInOrder' => AgreedInv'
  BY AgreedPreserved
<1>3. AgreedInv => CompletedIsAgreed
  BY DEF AgreedInv, Agreed, CompletedIsAgreed, NobodyConfirmsTheirOwnScore
<1> QED
  BY <1>1, <1>2, <1>3, StandingAlways, PTL DEF Spec

\* When callers agree on the time, a completed matchUp was confirmed by someone other than
\* its last reporter after that report, and nobody has disputed it since.
THEOREM CompletedWasAgreed == ASSUME MaxLag = 0 PROVE Spec => []CompletedIsAgreed
<1>1. Init => OrderInv
  BY DEF Init, OrderInv
<1>2. StandingInv /\ OrderInv /\ [Next]_vars => OrderInv'
  BY OrderPreserved
<1>3. OrderInv => ItemsInOrder
  BY DEF OrderInv, InOrder, ItemsInOrder
<1> QED
  BY <1>1, <1>2, <1>3, StandingAlways, OrderedItemsAgree, PTL DEF Spec

-----------------------------------------------------------------------------
(* The refinement: a ranking of drawPositions is one list of members, and  *)
(* each way a call rearranges the ranks is a way to rearrange the list.    *)

-----------------------------------------------------------------------------
(* Lists of which an element is taken out or put in.                       *)

LEMMA RemovedAt ==
  ASSUME NEW S, NEW s \in Seq(S), NEW i \in 1 .. Len(s)
  PROVE  /\ Standing!RemoveAt(s, i) \in Seq(S)
         /\ Len(Standing!RemoveAt(s, i)) = Len(s) - 1
         /\ \A k \in 1 .. Len(s) - 1 : Standing!RemoveAt(s, i)[k] = IF k < i THEN s[k] ELSE s[k + 1]
<1> DEFINE before == SubSeq(s, 1, i - 1)
           after == SubSeq(s, i + 1, Len(s))
<1>1. Len(s) \in Nat /\ i \in Nat /\ i >= 1 /\ i <= Len(s)
  OBVIOUS
<1>2. /\ before \in Seq(S) /\ Len(before) = i - 1
      /\ \A k \in 1 .. i - 1 : before[k] = s[k]
  BY <1>1
<1>3. /\ after \in Seq(S) /\ Len(after) = Len(s) - i
      /\ \A k \in 1 .. Len(s) - i : after[k] = s[i + k]
  BY <1>1
<1>4. Standing!RemoveAt(s, i) = before \o after
  BY DEF Standing!RemoveAt
<1> HIDE DEF before, after
<1>5. before \o after \in Seq(S) /\ Len(before \o after) = Len(s) - 1
  <2>1. before \o after \in Seq(S) /\ Len(before \o after) = Len(before) + Len(after)
    BY <1>2, <1>3, ConcatProperties
  <2> QED BY <1>1, <1>2, <1>3, <2>1
<1>6. \A k \in 1 .. Len(s) - 1 : (before \o after)[k] = IF k < i THEN s[k] ELSE s[k + 1]
  BY <1>1, <1>2, <1>3
<1> QED BY <1>4, <1>5, <1>6

\* t is s with e put in at i.
IsWith(s, i, e, t) ==
  /\ Len(t) = Len(s) + 1
  /\ \A k \in 1 .. Len(s) + 1 : t[k] = IF k < i THEN s[k] ELSE IF k = i THEN e ELSE s[k - 1]

LEMMA InsertedAt ==
  ASSUME NEW S, NEW s \in Seq(S), NEW i \in 1 .. Len(s) + 1, NEW e \in S
  PROVE  Standing!InsertAt(s, i, e) \in Seq(S) /\ IsWith(s, i, e, Standing!InsertAt(s, i, e))
<1> DEFINE before == SubSeq(s, 1, i - 1)
           after == SubSeq(s, i, Len(s))
<1>1. Len(s) \in Nat /\ i \in Nat /\ i >= 1 /\ i <= Len(s) + 1
  OBVIOUS
<1>2. /\ before \in Seq(S) /\ Len(before) = i - 1
      /\ \A k \in 1 .. i - 1 : before[k] = s[k]
  BY <1>1
<1>3. /\ after \in Seq(S) /\ Len(after) = Len(s) + 1 - i
      /\ \A k \in 1 .. Len(s) + 1 - i : after[k] = s[i + k - 1]
  BY <1>1
<1>4. Standing!InsertAt(s, i, e) = before \o <<e>> \o after
  BY DEF Standing!InsertAt
<1> HIDE DEF before, after
<1> DEFINE front == before \o <<e>>
<1>5. /\ front \in Seq(S) /\ Len(front) = i
      /\ \A k \in 1 .. i : front[k] = IF k < i THEN s[k] ELSE e
  BY <1>1, <1>2
<1> HIDE DEF front
<1>6. front \o after \in Seq(S) /\ Len(front \o after) = Len(s) + 1
  BY <1>1, <1>3, <1>5
<1>7. \A k \in 1 .. Len(s) + 1 : (front \o after)[k] = IF k < i THEN s[k] ELSE IF k = i THEN e ELSE s[k - 1]
  BY <1>1, <1>3, <1>5, SMTT(30)
<1> QED BY <1>4, <1>6, <1>7 DEF front, IsWith

-----------------------------------------------------------------------------
(* The list of a ranking.                                                  *)

Listed(f) == [rank \in 1 .. Cardinality(DOMAIN f) |-> CHOOSE p \in DOMAIN f : f[p] = rank]

LEMMA ListOfRanking ==
  ASSUME NEW f, NEW n \in Nat, IsRanking(f, n)
  PROVE  /\ Listed(f) \in Seq(DOMAIN f) /\ Len(Listed(f)) = n /\ DOMAIN Listed(f) = 1 .. n
         /\ \A i \in 1 .. n : Listed(f)[i] \in DOMAIN f /\ f[Listed(f)[i]] = i
         /\ \A p \in DOMAIN f : f[p] \in 1 .. n /\ Listed(f)[f[p]] = p
<1>1. Cardinality(DOMAIN f) = n
  BY RanksCountMembers
<1>2. \A i \in 1 .. n : \E p \in DOMAIN f : f[p] = i
  BY DEF IsRanking
<1>3. DOMAIN Listed(f) = 1 .. n /\ \A i \in 1 .. n : Listed(f)[i] = CHOOSE p \in DOMAIN f : f[p] = i
  BY <1>1 DEF Listed
<1>4. \A i \in 1 .. n : Listed(f)[i] \in DOMAIN f /\ f[Listed(f)[i]] = i
  BY <1>2, <1>3
<1>5. Listed(f) \in [1 .. n -> DOMAIN f]
  BY <1>1, <1>3, <1>4 DEF Listed
<1>6. Listed(f) \in Seq(DOMAIN f) /\ Len(Listed(f)) = n
  BY <1>5
<1>7. \A p \in DOMAIN f : f[p] \in 1 .. n /\ Listed(f)[f[p]] = p
  BY <1>4 DEF IsRanking
<1> QED BY <1>3, <1>4, <1>6, <1>7

\* A list that has every member at its rank is the list of the ranking.
LEMMA OnlyListOfRanking ==
  ASSUME NEW f, NEW n \in Nat, IsRanking(f, n),
         NEW S, NEW s \in Seq(S), Len(s) = n, \A i \in 1 .. n : s[i] \in DOMAIN f /\ f[s[i]] = i
  PROVE  s = Listed(f)
<1>1. \A i \in 1 .. n : s[i] = Listed(f)[i]
  BY ListOfRanking DEF IsRanking
<1>2. Listed(f) \in Seq(DOMAIN f) /\ Len(Listed(f)) = n
  BY ListOfRanking
<1> QED BY <1>1, <1>2

-----------------------------------------------------------------------------
(* Each way to rearrange the ranks rearranges the list.                    *)

\* t is s with the element at i taken to j.
IsTaken(s, i, j, t) ==
  /\ Len(t) = Len(s)
  /\ \A k \in 1 .. Len(s) : t[k] = IF k = j THEN s[i]
                                  ELSE IF j < k /\ k <= i THEN s[k - 1]
                                  ELSE IF i <= k /\ k < j THEN s[k + 1]
                                  ELSE s[k]

LEMMA MovedTo ==
  ASSUME NEW S, NEW s \in Seq(S), NEW i \in 1 .. Len(s), NEW j \in 1 .. Len(s), NEW e, e = s[i],
         NEW moved, moved = Standing!InsertAt(Standing!RemoveAt(s, i), j, e)
  PROVE  moved \in Seq(S) /\ IsTaken(s, i, j, moved)
<1> DEFINE rest == Standing!RemoveAt(s, i)
<1>1. /\ rest \in Seq(S) /\ Len(rest) = Len(s) - 1
      /\ \A k \in 1 .. Len(s) - 1 : rest[k] = IF k < i THEN s[k] ELSE s[k + 1]
  BY RemovedAt
<1>2. Len(s) \in Nat /\ e \in S /\ moved = Standing!InsertAt(rest, j, e) /\ j \in 1 .. Len(rest) + 1 /\ Len(rest) + 1 = Len(s)
  BY <1>1
<1> HIDE DEF rest
<1>3. /\ moved \in Seq(S) /\ Len(moved) = Len(s)
      /\ \A k \in 1 .. Len(s) : moved[k] = IF k < j THEN rest[k] ELSE IF k = j THEN e ELSE rest[k - 1]
  <2>1. rest \in Seq(S) /\ j \in 1 .. Len(rest) + 1 /\ e \in S
    BY <1>1, <1>2
  <2>2. moved \in Seq(S) /\ IsWith(rest, j, e, moved)
    BY <1>2, <2>1, InsertedAt
  <2> QED BY <1>2, <2>2 DEF IsWith
<1>4. ASSUME NEW k \in 1 .. Len(s)
      PROVE  moved[k] = IF k = j THEN e
                        ELSE IF j < k /\ k <= i THEN s[k - 1]
                        ELSE IF i <= k /\ k < j THEN s[k + 1]
                        ELSE s[k]
  <2>1. CASE k < j
    BY <1>1, <1>2, <1>3, <2>1
  <2>2. CASE k = j
    BY <1>3, <2>2
  <2>3. CASE k > j
    <3>1. k - 1 \in 1 .. Len(s) - 1 /\ moved[k] = rest[k - 1]
      BY <1>2, <1>3, <2>3
    <3> QED BY <1>1, <2>3, <3>1
  <2> QED BY <2>1, <2>2, <2>3
<1> QED BY <1>3, <1>4 DEF IsTaken

LEMMA ListOfSwapped ==
  ASSUME NEW n \in Nat, IsRanking(drawPosition, n), NEW c, NEW d, IsRankedBelow(c, d)
  PROVE  LET s == Listed(drawPosition)
             i == drawPosition[c]
             j == drawPosition[d]
         IN  Listed(Swapped(c, d)) = [s EXCEPT ![i] = s[j], ![j] = s[i]]
<1> DEFINE f == drawPosition
           s == Listed(f)
           t == [s EXCEPT ![f[c]] = s[f[d]], ![f[d]] = s[f[c]]]
           g == Swapped(c, d)
<1>1. /\ s \in Seq(Seated) /\ Len(s) = n /\ DOMAIN s = 1 .. n
      /\ \A i \in 1 .. n : s[i] \in Seated /\ f[s[i]] = i
      /\ \A p \in Seated : f[p] \in 1 .. n /\ s[f[p]] = p
  BY ListOfRanking DEF Seated
<1>2. c \in Seated /\ d \in Seated /\ f[c] # f[d]
  BY <1>1 DEF IsRankedBelow
<1>3. IsRanking(g, n) /\ DOMAIN g = Seated
  BY SwappedIsRanking
<1>4. \A q \in Seated : g[q] = IF q = c THEN f[d] ELSE IF q = d THEN f[c] ELSE f[q]
  BY <1>2 DEF Swapped, Seated
<1> HIDE DEF s, g
<1>5. /\ t \in Seq(Seated) /\ Len(t) = n
      /\ \A i \in 1 .. n : t[i] = IF i = f[d] THEN c ELSE IF i = f[c] THEN d ELSE s[i]
  BY <1>1, <1>2
<1> HIDE DEF t
<1>6. \A i \in 1 .. n : t[i] \in Seated /\ g[t[i]] = i
  BY <1>1, <1>2, <1>4, <1>5
<1>7. t = Listed(g)
  BY <1>3, <1>5, <1>6, OnlyListOfRanking
<1> QED BY <1>7 DEF t, s, g

\* The list in which the member p, at rank i, is taken to rank j.
Taken(f, i, j) == Standing!InsertAt(Standing!RemoveAt(Listed(f), i), j, Listed(f)[i])

LEMMA ListOfInserted ==
  ASSUME NEW n \in Nat, IsRanking(drawPosition, n), NEW c, NEW d, IsRankedBelow(c, d)
  PROVE  Listed(Inserted(c, d)) = Taken(drawPosition, drawPosition[c], drawPosition[d])
<1> DEFINE f == drawPosition
           s == Listed(f)
           i == f[c]
           j == f[d]
           t == Taken(f, i, j)
           g == Inserted(c, d)
<1>1. /\ s \in Seq(Seated) /\ Len(s) = n
      /\ \A k \in 1 .. n : s[k] \in Seated /\ f[s[k]] = k
      /\ \A p \in Seated : f[p] \in 1 .. n /\ s[f[p]] = p
  BY ListOfRanking DEF Seated
<1>2. c \in Seated /\ d \in Seated /\ j < i /\ i \in 1 .. n /\ j \in 1 .. n
  BY <1>1 DEF IsRankedBelow
<1>3. IsRanking(g, n) /\ DOMAIN g = Seated
  BY InsertedIsRanking
<1>4. \A q \in Seated : g[q] = IF q = c THEN j ELSE IF f[q] \in j .. i - 1 THEN f[q] + 1 ELSE f[q]
  BY DEF Inserted, Shifted
<1>5. /\ t \in Seq(Seated) /\ Len(t) = n
      /\ \A k \in 1 .. n : t[k] = IF k = j THEN s[i]
                                  ELSE IF j < k /\ k <= i THEN s[k - 1]
                                  ELSE IF i <= k /\ k < j THEN s[k + 1]
                                  ELSE s[k]
  <2> HIDE DEF s
  <2>1. i \in 1 .. Len(s) /\ j \in 1 .. Len(s)
    BY <1>1, <1>2
  <2>2. PICK e : e = s[i]
    OBVIOUS
  <2>3. t = Standing!InsertAt(Standing!RemoveAt(s, i), j, e)
    BY <2>2 DEF Taken, s
  <2> HIDE DEF t
  <2>4. t \in Seq(Seated) /\ IsTaken(s, i, j, t)
    <3>1. s \in Seq(Seated)
      BY <1>1
    <3> QED BY <2>1, <2>2, <2>3, <3>1, MovedTo
  <2> QED BY <1>1, <2>4 DEF IsTaken
<1> HIDE DEF s, g, t
<1>6. ASSUME NEW k \in 1 .. n PROVE t[k] \in Seated /\ g[t[k]] = k
  <2>1. CASE k = j
    BY <1>1, <1>2, <1>4, <1>5, <2>1
  <2>2. CASE j < k /\ k <= i
    <3>1. k - 1 \in 1 .. n /\ t[k] = s[k - 1]
      BY <1>2, <1>5, <2>2
    <3> QED BY <1>1, <1>2, <1>4, <2>2, <3>1
  <2>3. CASE k < j \/ k > i
    <3>1. t[k] = s[k]
      BY <1>2, <1>5, <2>3
    <3> QED BY <1>1, <1>2, <1>4, <2>3, <3>1
  <2> QED BY <1>2, <2>1, <2>2, <2>3
<1>7. t = Listed(g)
  BY <1>3, <1>5, <1>6, OnlyListOfRanking
<1> QED BY <1>7 DEF t, g

LEMMA ListOfDropped ==
  ASSUME NEW n \in Nat, IsRanking(drawPosition, n), NEW p \in Seated, policy.dropPositions \in Nat
  PROVE  \E to \in drawPosition[p] .. n : Listed(Dropped(p)) = Taken(drawPosition, drawPosition[p], to)
<1> DEFINE f == drawPosition
           s == Listed(f)
           i == f[p]
           j == Min({f[p] + policy.dropPositions, Bottom - 1})
           t == Taken(f, i, j)
           g == Dropped(p)
<1>1. /\ s \in Seq(Seated) /\ Len(s) = n
      /\ \A k \in 1 .. n : s[k] \in Seated /\ f[s[k]] = k
      /\ \A q \in Seated : f[q] \in 1 .. n /\ s[f[q]] = q
  BY ListOfRanking DEF Seated
<1>2. j \in i .. n
  <2>1. Bottom - 1 = n
    BY BottomIsNext
  <2>2. {f[p] + policy.dropPositions, n} \in SUBSET Nat
    BY <1>1
  <2>3. /\ j \in {f[p] + policy.dropPositions, n}
        /\ \A y \in {f[p] + policy.dropPositions, n} : j <= y
    BY <2>1, <2>2, MinIsLeast
  <2> QED BY <1>1, <2>3
<1> HIDE DEF j
<1>3. IsRanking(g, n) /\ DOMAIN g = Seated
  BY DroppedIsRanking
<1>4. \A q \in Seated : g[q] = IF q = p THEN j ELSE IF f[q] \in i + 1 .. j THEN f[q] + (-1) ELSE f[q]
  BY DEF Dropped, Shifted, j
<1>5. i \in 1 .. n /\ j \in 1 .. n
  BY <1>1, <1>2
<1>6. /\ t \in Seq(Seated) /\ Len(t) = n
      /\ \A k \in 1 .. n : t[k] = IF k = j THEN s[i]
                                  ELSE IF j < k /\ k <= i THEN s[k - 1]
                                  ELSE IF i <= k /\ k < j THEN s[k + 1]
                                  ELSE s[k]
  <2> HIDE DEF s
  <2>1. i \in 1 .. Len(s) /\ j \in 1 .. Len(s)
    BY <1>1, <1>5
  <2>2. PICK e : e = s[i]
    OBVIOUS
  <2>3. t = Standing!InsertAt(Standing!RemoveAt(s, i), j, e)
    BY <2>2 DEF Taken, s
  <2> HIDE DEF t
  <2>4. t \in Seq(Seated) /\ IsTaken(s, i, j, t)
    <3>1. s \in Seq(Seated)
      BY <1>1
    <3> QED BY <2>1, <2>2, <2>3, <3>1, MovedTo
  <2> QED BY <1>1, <2>4 DEF IsTaken
<1> HIDE DEF s, g, t
<1>7. ASSUME NEW k \in 1 .. n PROVE t[k] \in Seated /\ g[t[k]] = k
  <2>1. CASE k = j
    BY <1>1, <1>4, <1>6, <2>1
  <2>2. CASE i <= k /\ k < j
    <3>1. k + 1 \in 1 .. n /\ t[k] = s[k + 1]
      BY <1>2, <1>5, <1>6, <2>2
    <3> QED BY <1>1, <1>4, <1>5, <2>2, <3>1, SMTT(30)
  <2>3. CASE k < i \/ k > j
    <3>1. t[k] = s[k]
      BY <1>2, <1>5, <1>6, <2>3
    <3> QED BY <1>1, <1>2, <1>4, <1>5, <2>3, <3>1
  <2> QED BY <1>2, <1>5, <2>1, <2>2, <2>3
<1>8. t = Listed(g)
  BY <1>3, <1>6, <1>7, OnlyListOfRanking
<1> QED BY <1>2, <1>8 DEF t, g

LEMMA ListOfWithout ==
  ASSUME NEW n \in Nat, IsRanking(drawPosition, n), NEW p \in Seated
  PROVE  Listed(Without(p)) = Standing!RemoveAt(Listed(drawPosition), drawPosition[p])
<1> DEFINE f == drawPosition
           s == Listed(f)
           i == f[p]
           t == Standing!RemoveAt(s, i)
           g == Without(p)
<1>1. /\ s \in Seq(Seated) /\ Len(s) = n
      /\ \A k \in 1 .. n : s[k] \in Seated /\ f[s[k]] = k
      /\ \A q \in Seated : f[q] \in 1 .. n /\ s[f[q]] = q
  BY ListOfRanking DEF Seated
<1>2. n - 1 \in Nat /\ IsRanking(g, n - 1) /\ DOMAIN g = Seated \ {p}
  BY WithoutIsRanking
<1>3. \A q \in Seated \ {p} : g[q] = IF f[q] > i THEN f[q] - 1 ELSE f[q]
  BY DEF Without
<1>4. /\ t \in Seq(Seated) /\ Len(t) = n - 1
      /\ \A k \in 1 .. n - 1 : t[k] = IF k < i THEN s[k] ELSE s[k + 1]
  <2>1. s \in Seq(Seated) /\ i \in 1 .. Len(s)
    BY <1>1
  <2> HIDE DEF s, i
  <2>2. /\ t \in Seq(Seated) /\ Len(t) = Len(s) - 1
        /\ \A k \in 1 .. Len(s) - 1 : t[k] = IF k < i THEN s[k] ELSE s[k + 1]
    BY <2>1, RemovedAt
  <2> QED BY <1>1, <2>2
<1> HIDE DEF s, g, t
<1>5. ASSUME NEW k \in 1 .. n - 1 PROVE t[k] \in Seated \ {p} /\ g[t[k]] = k
  <2>1. CASE k < i
    BY <1>1, <1>3, <1>4, <2>1
  <2>2. CASE k >= i
    <3>1. k + 1 \in 1 .. n /\ t[k] = s[k + 1]
      BY <1>1, <1>4, <2>2
    <3> QED BY <1>1, <1>3, <2>2, <3>1, SMTT(30)
  <2> QED BY <1>1, <2>1, <2>2
<1>6. t = Listed(g)
  BY <1>2, <1>4, <1>5, OnlyListOfRanking
<1> QED BY <1>6 DEF t, s, g

LEMMA ListOfSeatedAt ==
  ASSUME NEW n \in Nat, IsRanking(drawPosition, n), NEW p, p \notin Seated, NEW rank \in 1 .. n + 1
  PROVE  Listed(SeatedAt(p, rank)) = Standing!InsertAt(Listed(drawPosition), rank, p)
<1> DEFINE f == drawPosition
           s == Listed(f)
           t == Standing!InsertAt(s, rank, p)
           g == SeatedAt(p, rank)
           S == Seated \cup {p}
<1>1. /\ s \in Seq(Seated) /\ Len(s) = n
      /\ \A k \in 1 .. n : s[k] \in Seated /\ f[s[k]] = k
      /\ \A q \in Seated : f[q] \in 1 .. n /\ s[f[q]] = q
  BY ListOfRanking DEF Seated
<1>2. IsRanking(g, n + 1) /\ DOMAIN g = S
  BY SeatedAtIsRanking
<1>3. \A q \in S : g[q] = IF q = p THEN rank ELSE IF f[q] >= rank THEN f[q] + 1 ELSE f[q]
  BY DEF SeatedAt
<1>4. s \in Seq(S)
  BY <1>1
<1>5. /\ t \in Seq(S) /\ Len(t) = n + 1
      /\ \A k \in 1 .. n + 1 : t[k] = IF k < rank THEN s[k] ELSE IF k = rank THEN p ELSE s[k - 1]
  <2> HIDE DEF s
  <2>1. rank \in 1 .. Len(s) + 1 /\ p \in S
    BY <1>1
  <2>2. t \in Seq(S) /\ IsWith(s, rank, p, t)
    BY <1>4, <2>1, InsertedAt
  <2> HIDE DEF t
  <2> QED BY <1>1, <2>2 DEF IsWith
<1> HIDE DEF s, g, t
<1>6. ASSUME NEW k \in 1 .. n + 1 PROVE t[k] \in S /\ g[t[k]] = k
  <2>1. CASE k < rank
    BY <1>1, <1>3, <1>5, <2>1
  <2>2. CASE k = rank
    BY <1>3, <1>5, <2>2
  <2>3. CASE k > rank
    <3>1. k - 1 \in 1 .. n /\ t[k] = s[k - 1]
      BY <1>5, <2>3
    <3> QED BY <1>1, <1>3, <2>3, <3>1
  <2> QED BY <2>1, <2>2, <2>3
<1>7. t = Listed(g)
  BY <1>2, <1>5, <1>6, OnlyListOfRanking
<1> QED BY <1>7 DEF t, s, g

-----------------------------------------------------------------------------
(* What every call does to the list.                                       *)

\* The list is as it was, or rearranged in one of the ways LadderStanding allows.
Promised == Ranking' = Ranking \/ Standing!Rearrange

LEMMA RankingIsListed == Ranking = Listed(drawPosition) /\ Ranking' = Listed(drawPosition')
BY DEF Ranking, Listed, Seated

\* The ranks of the members are the places of the list.
LEMMA MembersHavePlaces ==
  ASSUME NEW n \in Nat, IsRanking(drawPosition, n)
  PROVE  /\ Standing!Places = 1 .. n /\ Len(Ranking) = n
         /\ \A p \in Seated : drawPosition[p] \in Standing!Places
         /\ Standing!ToSet(Ranking) = Seated
<1>1. /\ Ranking = Listed(drawPosition) /\ Len(Ranking) = n /\ DOMAIN Ranking = 1 .. n
      /\ \A i \in 1 .. n : Ranking[i] \in Seated
      /\ \A p \in Seated : drawPosition[p] \in 1 .. n /\ Ranking[drawPosition[p]] = p
  BY ListOfRanking, RankingIsListed DEF Seated
<1>2. Standing!ToSet(Ranking) = {Ranking[i] : i \in DOMAIN Ranking}
  BY DEF Standing!ToSet
<1> QED BY <1>1, <1>2 DEF Standing!Places

LEMMA UnchangedIsPromised ==
  ASSUME UNCHANGED standing
  PROVE  Promised
BY RankingIsListed DEF standing, Promised

LEMMA TakeOffIsPromised ==
  ASSUME StandingInv, NEW p, TakeOff(p)
  PROVE  Promised
<1>1. PICK n \in Nat : IsRanking(drawPosition, n)
  BY DEF StandingInv, IsStanding
<1>2. p \in Seated /\ drawPosition' = Without(p)
  BY DEF TakeOff, Rearrange
<1>3. Ranking' = Standing!RemoveAt(Ranking, drawPosition[p])
  BY <1>1, <1>2, RankingIsListed, ListOfWithout
<1>4. drawPosition[p] \in Standing!Places
  BY <1>1, <1>2, MembersHavePlaces
<1> QED BY <1>3, <1>4 DEF Promised, Standing!Rearrange, Standing!Leave

LEMMA ChallengerPrevailsIsPromised ==
  ASSUME StandingInv, NEW c, NEW d, ChallengerPrevails(c, d)
  PROVE  Promised
<1> DEFINE i == drawPosition[c]
           j == drawPosition[d]
<1>1. PICK n \in Nat : IsRanking(drawPosition, n)
  BY DEF StandingInv, IsStanding
<1>2. IsRankedBelow(c, d) /\ drawPosition' = Overtaken(c, d)
  BY DEF ChallengerPrevails, Rearrange
<1>3. i \in Standing!Places /\ j \in Standing!Places /\ j < i
  BY <1>1, <1>2, MembersHavePlaces DEF IsRankedBelow
<1>4. policy.movement \in {"SWAP", "INSERTION"}
  BY PolicyAssumption DEF StandingInv, TypeOK, LadderPolicy
<1>5. CASE policy.movement = "INSERTION"
  <2>1. Ranking' = Standing!Moved(i, j)
    BY <1>1, <1>2, <1>5, RankingIsListed, ListOfInserted DEF Overtaken, Taken, Standing!Moved
  <2>2. Standing!Rise(i, j)
    BY <1>3, <1>5, <2>1 DEF Standing!Rise
  <2> QED BY <1>3, <2>2 DEF Promised, Standing!Rearrange
<1>6. CASE policy.movement = "SWAP"
  <2>1. drawPosition' = Swapped(c, d)
    BY <1>2, <1>6 DEF Overtaken
  <2>2. Ranking' = [Ranking EXCEPT ![i] = Ranking[j], ![j] = Ranking[i]]
    BY <1>1, <1>2, <2>1, RankingIsListed, ListOfSwapped
  <2>3. Standing!Exchange(i, j)
    BY <1>3, <1>6, <2>2 DEF Standing!Exchange
  <2> QED BY <1>3, <2>3 DEF Promised, Standing!Rearrange
<1> QED BY <1>4, <1>5, <1>6

LEMMA DropIsPromised ==
  ASSUME StandingInv, NEW p \in Seated, Rearrange(Dropped(p)), policy.consequence = "DROP"
  PROVE  Promised
<1> DEFINE i == drawPosition[p]
<1>1. PICK n \in Nat : IsRanking(drawPosition, n)
  BY DEF StandingInv, IsStanding
<1>2. policy.dropPositions \in Nat
  BY PolicyAssumption DEF StandingInv, TypeOK, LadderPolicy
<1>3. PICK to \in i .. n : Listed(Dropped(p)) = Taken(drawPosition, i, to)
  BY <1>1, <1>2, ListOfDropped
<1>4. Ranking' = Standing!Moved(i, to)
  BY <1>3, RankingIsListed DEF Rearrange, Taken, Standing!Moved
<1>5. i \in 1 .. n /\ Standing!Places = 1 .. n
  BY <1>1, MembersHavePlaces
<1>6. CASE i < to
  <2>1. Standing!Fall(i, to)
    BY <1>4, <1>6 DEF Standing!Fall
  <2>2. i \in Standing!Places /\ to \in Standing!Places
    BY <1>5
  <2> QED BY <2>1, <2>2 DEF Promised, Standing!Rearrange
<1>7. CASE i = to
  <2> DEFINE t == Taken(drawPosition, i, i)
  <2>1. Ranking \in Seq(Seated) /\ Len(Ranking) = n
    BY <1>1, ListOfRanking, RankingIsListed DEF Seated
  <2>2. PICK e : e = Ranking[i]
    OBVIOUS
  <2>3. t = Standing!InsertAt(Standing!RemoveAt(Ranking, i), i, e)
    BY <2>2, RankingIsListed DEF Taken
  <2> HIDE DEF t
  <2>4. t \in Seq(Seated) /\ IsTaken(Ranking, i, i, t)
    <3>1. i \in 1 .. Len(Ranking)
      BY <1>5, <2>1
    <3> QED BY <2>1, <2>2, <2>3, <3>1, MovedTo
  <2>5. Len(t) = n /\ \A k \in 1 .. n : t[k] = Ranking[k]
    BY <1>5, <2>1, <2>4 DEF IsTaken
  <2>6. t = Ranking
    BY <2>1, <2>4, <2>5
  <2> QED BY <1>3, <1>7, <2>6, RankingIsListed DEF t, Rearrange, Promised
<1> QED BY <1>3, <1>5, <1>6, <1>7

LEMMA AddIsPromised ==
  ASSUME StandingInv, NEW p \in Participants, AddLadderParticipant(p)
  PROVE  Promised
<1> DEFINE rank == EntryRank(p)
<1>1. PICK n \in Nat : IsRanking(drawPosition, n)
  BY DEF StandingInv, IsStanding
<1>2. p \notin Seated /\ drawPosition' = SeatedAt(p, rank)
  BY DEF AddLadderParticipant, Rearrange
<1>3. rank \in 1 .. n + 1
  BY <1>1, EntryRankInRange
<1>4. Ranking' = Standing!InsertAt(Ranking, rank, p)
  BY <1>1, <1>2, <1>3, RankingIsListed, ListOfSeatedAt
<1>5. rank = n + 1 \/ policy.entryPlacement = "BY_RATING"
  <2>1. policy.entryPlacement \in {"BOTTOM", "BY_RATING"}
    BY PolicyAssumption DEF StandingInv, TypeOK, LadderPolicy
  <2>2. Bottom = n + 1
    BY <1>1, BottomIsNext
  <2> QED BY <2>1, <2>2 DEF EntryRank
<1>6. Standing!Join(p, rank) /\ rank \in 1 .. Len(Ranking) + 1
  BY <1>1, <1>2, <1>3, <1>4, <1>5, MembersHavePlaces DEF Standing!Join
<1> QED BY <1>6 DEF Promised, Standing!Rearrange

LEMMA DeclineIsPromised ==
  ASSUME StandingInv, NEW m, NEW at, DeclineChallenge(m, at)
  PROVE  Promised
<1> DEFINE p == matchUp[m].defender
           c == matchUp[m].challenger
<1>1. UNCHANGED standing \/ ApplyLapseConsequence(p, c)
  BY DEF DeclineChallenge
<1>2. CASE ApplyLapseConsequence(p, c)
  <2>1. \/ TakeOff(p)
        \/ ChallengerPrevails(c, p)
        \/ p \in Seated /\ Rearrange(Dropped(p)) /\ policy.consequence = "DROP"
        \/ UNCHANGED standing
    BY <1>2 DEF ApplyLapseConsequence
  <2> QED
    BY <2>1, TakeOffIsPromised, ChallengerPrevailsIsPromised, DropIsPromised, UnchangedIsPromised
<1> QED
  BY <1>1, <1>2, UnchangedIsPromised

LEMMA EveryStepIsPromised ==
  ASSUME StandingInv, [Next]_vars
  PROVE  Promised
<1>1. CASE UNCHANGED vars
  BY <1>1, UnchangedIsPromised DEF vars
<1>2. CASE Tick
  BY <1>2, UnchangedIsPromised DEF Tick
<1>3. ASSUME NEW p \in Participants, AddLadderParticipant(p) \/ RemoveLadderParticipant(p)
      PROVE  Promised
  BY <1>3, AddIsPromised, TakeOffIsPromised DEF RemoveLadderParticipant
<1>4. ASSUME NEW c, NEW d, ApplyForfeit(c, d)
      PROVE  Promised
  BY <1>4, ChallengerPrevailsIsPromised DEF ApplyForfeit
<1>5. ASSUME NEW m, NEW c, NEW d, NEW at, IssueChallenge(m, c, d, at)
      PROVE  Promised
  BY <1>5, UnchangedIsPromised DEF IssueChallenge
<1>6. ASSUME NEW m, ApplyResult(m)
      PROVE  Promised
  BY <1>6, ChallengerPrevailsIsPromised DEF ApplyResult
<1>7. ASSUME NEW m, NEW at, DeclineChallenge(m, at)
      PROVE  Promised
  BY <1>7, DeclineIsPromised
<1>8. ASSUME NEW m, NEW at, NEW p, NEW side,
             \/ AcceptChallenge(m, at) \/ SubmitResult(m, p, side, at)
             \/ ConfirmResult(m, p, FALSE, at) \/ ConfirmResult(m, p, TRUE, at)
             \/ DisputeResult(m, p, at)
      PROVE  Promised
  BY <1>8, UnchangedIsPromised DEF AcceptChallenge, SubmitResult, ConfirmResult, DisputeResult
<1> QED
  BY <1>1, <1>2, <1>3, <1>4, <1>5, <1>6, <1>7, <1>8 DEF Next

\* Ladder implements LadderStanding: every call rearranges the standing in one of the ways a
\* ladder promises, or leaves it alone.
THEOREM LadderImplementsStanding == Spec => ImplementsStanding
<1>1. Init => Standing!Init
  <2> SUFFICES ASSUME Init PROVE Ranking = << >>
    BY DEF Standing!Init
  <2>1. Seated = {}
    BY DEF Init, Seated
  <2>2. Cardinality(Seated) = 0
    BY <2>1, FS_EmptySet
  <2> QED BY <2>2 DEF Ranking
<1>2. StandingInv /\ [Next]_vars => [Standing!Next]_(Standing!vars)
  <2> SUFFICES ASSUME StandingInv, [Next]_vars PROVE [Standing!Next]_(Standing!vars)
    OBVIOUS
  <2>1. Promised /\ policy' = policy
    BY EveryStepIsPromised, PolicyAndTime
  <2> QED BY <2>1 DEF Promised, Standing!Next, Standing!vars
<1> QED BY <1>1, <1>2, StandingAlways, PTL DEF Spec, ImplementsStanding, Standing!Spec
=============================================================================
