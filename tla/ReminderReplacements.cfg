SPECIFICATION ReminderSpec
CONSTANTS
  PlanTasks = {ta}
  NotPlaced = NotPlaced
  Over = Over
  Configs = {on1, off}
  Off = {off}
  Revisions = {0, 1, 2}
  ConfigChanges = 2
PROPERTIES ReplacementsAreQueued
CHECK_DEADLOCK FALSE
