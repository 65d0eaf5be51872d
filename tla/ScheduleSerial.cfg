SPECIFICATION Spec
CONSTANTS
  Plans = {p1, p2}
  Tasks = {t1, t2}
  Slots = {a}
  Unplaced = Unplaced
  Unborn = Unborn
  Gone = Gone
  Sessions = {s1}
  Ops = {o1, o2}
  Kinds = {"replace", "add", "undo", "future", "undo_future", "delete", "defer", "start"}
  MaxRevision = 4
SYMMETRY Symmetry
PROPERTIES ImplementsPlanStore
CHECK_DEADLOCK FALSE
