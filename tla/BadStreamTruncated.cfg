SPECIFICATION Spec
CONSTANTS
  Clients = {c1}
  Writers = {w1}
  Page = 4
  MaxEvents = 4
  MaxDrops = 0
INVARIANT FollowedToTheEnd
CHECK_DEADLOCK FALSE
