SPECIFICATION Spec
CONSTANTS
  p1 = p1
  p2 = p2
  p3 = p3
  m1 = m1
  m2 = m2
  Participants = {p1, p2}
  Nobody = Nobody
  MatchUps = {m1}
  Policies <- MCPolicies
  Rating <- MCRating
  LastDay = 1
  MaxLag = 1
  MaxItems = 6
  MaxRemoved = 1
CHECK_DEADLOCK FALSE
INVARIANT
  NobodyConfirmsTheirOwnScore
