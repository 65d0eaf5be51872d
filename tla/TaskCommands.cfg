SPECIFICATION Spec
CONSTANTS
  Tasks = {t1, t2}
  Keys = {k1, k2, k3, k4}
  Sessions = {s1, s2}
  Offered = {"create", "update", "delete", "start", "pause", "resume", "complete", "defer"}
  CleanUps = {"worker", "page"}
  MaxDay = 1
  None = None
SYMMETRY Symmetry
INVARIANTS OneWinnerPerVersion TimerFollowsStatus
PROPERTIES ResponsesAreFinal LegalSteps
CHECK_DEADLOCK FALSE
