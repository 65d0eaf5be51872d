SPECIFICATION Spec
CONSTANTS
  Plans = {p1, p2}
  Tasks = {t1, t2}
  Slots = {a}
  Unplaced = Unplaced
  Unborn = Unborn
  Gone = Gone
  Sessions = {s1, s2}
  Ops = {o1, o2}
  Kinds = {"future", "undo_future", "window"}
  MaxRevision = 3
SYMMETRY Symmetry
PROPERTIES EventNamesItsRevision ImplementsPlanStore
CHECK_DEADLOCK FALSE
