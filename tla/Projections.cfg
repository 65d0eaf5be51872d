SPECIFICATION Spec
CONSTANTS
  Flexible = {a}
  Imported = {i}
  Windows = {"w1", "w2"}
  Unplaced = "unplaced"
  NoEvent = NoEvent
  MaxCommands = 3
  MaxFaults = 2
  PlanTasks = {ta, tb}
  NotPlaced = NotPlaced
  Over = Over
  Configs = {on1, off}
  Off = {off}
  Revisions = {0, 1, 2}
  ConfigChanges = 2
INVARIANTS CalendarFollows RemindersFollow
PROPERTIES ForeignIsUntouched
CHECK_DEADLOCK FALSE
