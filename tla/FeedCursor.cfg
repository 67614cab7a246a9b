\* Two sends and one reader at each door.
SPECIFICATION Spec
CONSTANTS
  Msg = {m1, m2}
  Limit = 2
  MaxTime = 2
  None = None
CHECK_DEADLOCK FALSE
PROPERTY
  PageFollowsCursor
