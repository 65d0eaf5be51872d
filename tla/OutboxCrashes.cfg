SPECIFICATION MCSpec
CONSTANTS
  Events = {r, x}
  Reminders = {r}
  Endings = {x}
  Workers = {w1, w2}
  NoWorker = NoWorker
  MaxAttempts = 2
  SlowWorkers = FALSE
  MaxFaults = 1
  DaySlots = 6
  EventOf <- MCEventOf
  Settings <- MCSettings
  InboxWorkers = {u1, u2}
  InboxPage = 1
  InboxHorizon = 6
  MaxEvents = 2
  MaxSaves = 1
  MaxTouches = 1
INVARIANTS WorkIsLeased InboxIsCurrent NoticesAreTimely NoticesAreSpaced
PROPERTIES ImplementsQueue EveryEventSettles
CHECK_DEADLOCK FALSE
