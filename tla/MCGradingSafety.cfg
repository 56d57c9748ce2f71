SPECIFICATION Spec
CONSTANTS
  t1 = t1
  t2 = t2
  Submissions = {s1}
  Tasks = {t1, t2}
  Gradable <- FirstTaskFirst
  Workers = {w1, w2}
  NoWorker = NoWorker
  NoSubmission = NoSubmission
  MaxAttempts = 2
  MaxStalledCount = 1
  MaxStallRecoveries = 1
  MaxVersions = 2
  MaxDecisions = 1
  MaxMishaps = 2
  LockLoss = TRUE
  Stuck = TRUE
  MaxPending = 2
CHECK_DEADLOCK FALSE
SYMMETRY WorkerSymmetry
CONSTRAINT FewPending
  FewTroubles
INVARIANTS
  TypeOK
  OneRunPerSubmission
  ResultIsExplained
  ResultIsComplete
PROPERTIES
  ImplementsLifecycle
