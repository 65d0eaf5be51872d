SPECIFICATION FairDeviceSpec
CONSTANTS
  Tasks = {t1, t2}
  Keys = {k1, k2, k3, k4}
  Sessions = {s1}
  Offered = {"create", "update", "start", "delete"}
  CleanUps = {}
  MaxDay = 0
  None = None
  PageSize = 2
INVARIANTS CaughtUpIsCurrent FeedIsCurrent
PROPERTIES NeverGoesBack Converges
CHECK_DEADLOCK FALSE
