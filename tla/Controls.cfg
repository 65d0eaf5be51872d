SPECIFICATION Spec
CONSTANTS
  MaxDepth = 2
  MaxWrites = 4
  Requests = {r1, r2, r3}
  MaxRequests = 2
  Window = 2
  Horizon = 5
  Admissions = 5
  Threads = {t1, t2, t3}
  Threshold = 2
  CallAttempts = 2
  MaxFailures = 6
  Users = {u1, u2}
  States = {s1, s2}
  Callbacks = {c1, c2}
  NoGrant = NoGrant
  Ttl = 1
  AccountHorizon = 1
  StaleAfter = 2
  MaxMisses = 2
  SyncRequests = {q1, q2}
  Ranges = {g1}
  NoRange = NoRange
  CalendarWorkers = {c1, c2}
  Nobody = Nobody
  SyncAttempts = 2
  MaxVersion = 2
  SyncFaults = 1
  Notices = {n1}
  Devices = {d1, d2}
  PushWorkers = {w1, w2}
  NoPusher = NoPusher
  PushAttempts = 2
  Reinstalled = {d1}
  PushFaults = 1
  Subjects = {p1}
  LocalIds = {l1, l2}
  Emails = {e1}
  EmailOf <- MCEmailOf
  Callers = {a1, a2}
  Somebody = Somebody
  MaxCrashes = 2
  Chats = {x1, x2}
  MaxRounds = 2
  SendAttempts = 2
  ChatLimit = 1
  LastMinute = 1
  MaxMessages = 2
INVARIANTS UsageIsBounded OneProbePerOpening StateServesOnce FreshIsRecent RepeatsNeedFaults
PROPERTIES BlockIsAtomic SilenceIsNoticed ImplementsCalendarQueue EveryQueueSettles EveryPrincipalGetsIn
CHECK_DEADLOCK FALSE
