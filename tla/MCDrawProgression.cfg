SPECIFICATION Spec
CONSTANTS
  Rounds = 3
  Bye <- MCBye
  Call <- MCCall
CHECK_DEADLOCK FALSE
INVARIANTS
  TypeOK
  PlacesFollowResults
PROPERTIES
  RefusedChangesNothing
  OtherResultsStand
