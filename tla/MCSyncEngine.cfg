SPECIFICATION Spec
CONSTANTS
  k1 = k1
  deletedDrawIds = deletedDrawIds
  modifyMatchUp = modifyMatchUp
  Tournament = {t1, t2}
  NoTournament = NoTournament
  Unnamed = Unnamed
  Topic = {deletedDrawIds, modifyMatchUp}
  Key = {k1}
  NoKey = NoKey
  MaxWrites = 2
  MaxCalls = 3
  Rank <- MCRank
  LastRank = 3
  Silent = Silent
  Announcement <- MCAnnouncement
  MaxDepth = 2
  QueueLength = {2}
SYMMETRY Symmetry
CHECK_DEADLOCK FALSE
INVARIANTS
  TypeOK
  OneInstant
  RefusedDeliveredOnlyByNested
  KeptWritesStamped
  StampsNameTheirCall
  NoSilentLoss
  IdleIsClean
PROPERTIES
  SelectionRestored
  ImplementsAtomic
