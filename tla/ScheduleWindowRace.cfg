SPECIFICATION Spec
CONSTANTS
  Plans = {p1, p2}
  Tasks = {t1, t2}
  Slots = {a, b}
  Unplaced = Unplaced
  Unborn = Unborn
  Gone = Gone
  Sessions = {s1, s2}
  Ops = {o1, o2}
  Kinds = {"replace", "window", "defer"}
  MaxRevision = 6
SYMMETRY Symmetry
PROPERTY ContentIsVersioned
CHECK_DEADLOCK FALSE
