SPECIFICATION Spec
CONSTANTS
  t1 = t1
  t2 = t2
  Submissions = {s1}
  Tasks = {t1, t2}
  Gradable <- BothTasks
  Workers = {w1}
  NoWorker = NoWorker
  NoSubmission = NoSubmission
  MaxAttempts = 1
  MaxStalledCount = 0
  MaxStallRecoveries = 0
  MaxVersions = 2
  MaxDecisions = 0
  MaxMishaps = 0
  LockLoss = FALSE
  Stuck = FALSE
  MaxPending = 2
CHECK_DEADLOCK FALSE
CONSTRAINT FewPending
PROPERTIES
  FailedMeansNoAttemptsLeft
