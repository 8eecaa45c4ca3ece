SPECIFICATION Spec
CONSTANTS
  tournament = tournament
  draw = draw
  score = score
  reset = reset
  schedule = schedule
  SCORING = SCORING
  SCHEDULING = SCHEDULING
  Element = {tournament, draw}
  Path <- MCPath
  Token = {a, b}
  NoToken = NoToken
  Method = {score, reset, schedule}
  Scope = {SCORING, SCHEDULING}
  ScopeOf <- MCScopeOf
  AllMethods = AllMethods
  Request <- MCRequest
  Never = Never
  MaxTime = 2
  MaxLocks = 2
CHECK_DEADLOCK FALSE
INVARIANT OneHolder
