SPECIFICATION Spec
CONSTANTS
  Plans = {p1}
  Tasks = {t1, t2}
  Slots = {a, b}
  Unplaced = Unplaced
  Unborn = Unborn
  Gone = Gone
  Sessions = {s1, s2}
  Ops = {o1, o2}
  Kinds = {"replace", "move", "start"}
  MaxRevision = 6
SYMMETRY Symmetry
PROPERTY StartAbortsMove
CHECK_DEADLOCK FALSE
