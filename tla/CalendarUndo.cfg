SPECIFICATION ExportSpec
CONSTANTS
  Flexible = {a}
  Imported = {}
  Windows = {"w1"}
  Unplaced = "unplaced"
  NoEvent = NoEvent
  MaxCommands = 2
  MaxFaults = 0
INVARIANT NoStrayEventsAfterUndo
CHECK_DEADLOCK FALSE
