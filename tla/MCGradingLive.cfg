SPECIFICATION FairSpec
CONSTANTS
  t1 = t1
  t2 = t2
  Submissions = {s1}
  Tasks = {t1, t2}
  Gradable <- NothingFirst
  Workers = {w1}
  NoWorker = NoWorker
  NoSubmission = NoSubmission
  MaxAttempts = 1
  MaxStalledCount = 0
  MaxStallRecoveries = 1
  MaxVersions = 2
  MaxDecisions = 1
  MaxMishaps = 1
  LockLoss = FALSE
  Stuck = TRUE
  MaxPending = 99
CHECK_DEADLOCK FALSE
PROPERTIES
  SubmittedLeavesGrading
