SPECIFICATION Spec
CONSTANTS
  Rounds = 3
  Bye <- MCBye
  Call <- MCRelabelCall
CHECK_DEADLOCK FALSE
INVARIANT PlacesFollowResults
