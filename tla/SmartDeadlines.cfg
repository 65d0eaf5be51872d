SPECIFICATION Spec
CONSTANTS
  Ids = {1, 2, 3}
  DayEnd = 1439
  Never = 9999
  Catalogue <- MCCatalogue
  Calendars <- MCLateCalendars
  WorkStart = 480
  Starts = {540, 900}
  MaxOps = 2
  Tasks = {1, 2, 3}
  LastDay = 2
  FutureStart = 1200
  FutureEnd = 1439
  NoDate = 9999
  Pages = {p1}
  PerSecond = 2
  Minute = 2
  DayOver = 4
  TimerHorizon = 6
  Estimate = 2
  MaxPauses = 2
  NoTime = NoTime
  Items = {1, 2, 3}
  FixedItems = {3}
  Minutes <- MCMinutes
  Recommended = 2
  WarnFrom = 3
  Trusted = TRUE
  Usual = 2
  LastDate = 1
  MaxFaults = 1
  NoPlan = NoPlan
  Titles = {a}
  Scopes = {x1, x2}
  MaxRevision = 2
  Nothing = Nothing
  Tabs = {s1, s2, s3}
  a1 = a1
  a2 = a2
  Account <- MCAccount
  Nil = Nil
  MaxClicks = 3
SYMMETRY Symmetry
PROPERTY RunsMeetDeadlines
CHECK_DEADLOCK FALSE
