SPECIFICATION BackgroundSpec
CONSTANTS
  e1 = e1
  Employers = {e1}
  Submissions = {s1}
  Requests = {r1, r2}
  Owner <- OneOwner
  Purchases = {p1}
  Buyer <- OneBuyer
  PackCredits <- SingleCredit
  BonusAmounts = {0}
  NoEmployer = NoEmployer
  NoSubmission = NoSubmission
  Viewers = {"guest", "candidate"}
  Embedded = {"candidate"}
  Queries <- NotApplied
  Clients = {"client"}
  MaxVersion = 2
  Candidates = {"candidate"}
  Fits <- FitsAll
  MinPerCandidate = 1
  MaxPerCandidate = 1
  Passes <- ThreePasses
  MaxTime = 2
  Visitors = {"visitor"}
  Pings = {"ping"}
  LastDay = 2
  MaxPings = 2
  MaxSyncs = 2
  DayKeyDays = 1
  RollingWindow = 1
  ChartedDays = 2
  MonthLength = 1
  YearMonths = 2
  Watchers = {"watcher"}
  LastStage = 2
  MaxRuns = 2
  Emails = {"invite", "test"}
  Blocked = {"test"}
  MaxAttempts = 3
  MaxStalls = 1
CHECK_DEADLOCK FALSE
INVARIANTS
  BackgroundTypeOK
  ReportIsExact
  BoardIsCurrent
  NobodyIsToldTwice
  EveryActivationIsCovered
PROPERTIES
  EventuallyCredited
  WatcherLearnsTheEnd
  EmailIsSentOrGivenUp
