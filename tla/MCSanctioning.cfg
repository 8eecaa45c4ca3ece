SPECIFICATION Spec
CONSTANTS
  date = date
  size = size
  closes = closes
  event = event
  profile = profile
  e1 = e1
  noPolicy = noPolicy
  usta = usta
  itf = itf
  Field = {date, size, closes}
  ProfileField = {closes}
  Value = {0, 1}
  Path = {date, size, event, profile}
  Under <- MCUnder
  FirstProposal <- MCFirstProposal
  Change <- MCChange
  Event = {e1}
  ClientId = {9}
  Endorser = {usta, itf}
  Policy <- MCPolicy
  NoPolicy = noPolicy
  Weeks <- MCWeeks
  MaxConditions = 1
  MaxAmendments = 1
  MaxOpenings = 2
INVARIANTS
  TypeOK
  EndorsementsAsAnswered
  SubstantialChangesReviewed
  RegistrationSurvives
CONSTRAINT Explored
SYMMETRY Symmetry
CHECK_DEADLOCK FALSE
