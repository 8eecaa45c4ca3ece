SPECIFICATION Spec
CONSTANTS
  deletedDrawIds = deletedDrawIds
  modifyMatchUp = modifyMatchUp
  Tournament = {t1}
  NoTournament = NoTournament
  Unnamed = Unnamed
  Topic = {deletedDrawIds, modifyMatchUp}
  Key = {}
  NoKey = NoKey
  MaxWrites = 2
  MaxCalls = 3
  Rank <- MCRank
  LastRank = 3
  QueueLength = {2}
CONSTRAINT Explored
CHECK_DEADLOCK FALSE
INVARIANTS
  TypeOK
  InstantHasOneOwner
  KeptAsAnswered
  DeliveredAsAnswered
  LeftoversAreExplained
