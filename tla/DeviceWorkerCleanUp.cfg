SPECIFICATION DeviceSpec
CONSTANTS
  Tasks = {t1}
  Keys = {k1, k2, k3}
  Sessions = {s1}
  Offered = {"create", "complete", "delete"}
  CleanUps = {"worker"}
  MaxDay = 1
  None = None
  PageSize = 2
PROPERTY NeverGoesBack
CHECK_DEADLOCK FALSE
