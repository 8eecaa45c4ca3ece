SPECIFICATION Spec
CONSTANTS
  p1 = p1
  p2 = p2
  p3 = p3
  m1 = m1
  m2 = m2
  Participants = {p1, p2, p3}
  Nobody = Nobody
  MatchUps = {m1, m2}
  Policies <- MCPolicies
  Rating <- MCRating
  LastDay = 1
  MaxLag = 0
  MaxItems = 5
  MaxRemoved = 1
SYMMETRY ChallengesAlike
CONSTRAINT Explored
CHECK_DEADLOCK FALSE
INVARIANTS
  TypeOK
  StandingIsARanking
  RankHistoryFollows
  CompletedIsAgreed
  AnsweredOnceInTime
PROPERTIES
  DeclineCostsTheRank
  ImplementsStanding
