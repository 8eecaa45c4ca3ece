SPECIFICATION Spec
CONSTANTS
  Tournament = {t1, t2}
  Request = {r1, r2}
  Missing = Missing
  Torn = Torn
  MaxWrites = 2
CHECK_DEADLOCK FALSE
INVARIANTS
  TypeOK
  RefusedPersistsNothing
  WholeOrNothing
  OldCopyStaysHidden
PROPERTIES
  LostOnlyToOverlap
  EveryRequestEnds
