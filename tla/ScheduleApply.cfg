SPECIFICATION Spec
CONSTANTS
  Plans = {p1}
  Tasks = {t1, t2}
  Slots = {a, b}
  Unplaced = Unplaced
  Unborn = Unborn
  Gone = Gone
  Sessions = {s1, s2}
  Ops = {o1, o2}
  Kinds = {"replace", "move", "add", "create", "edit", "window", "delete", "start"}
  MaxRevision = 4
SYMMETRY Symmetry
INVARIANT LinearHistory
PROPERTIES ContentIsVersioned
CHECK_DEADLOCK FALSE
