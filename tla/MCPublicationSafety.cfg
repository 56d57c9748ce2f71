SPECIFICATION Spec
CONSTANTS
  Slots = 1
  MaxTasks = 2
  Admins = {h1, h2}
  Clients = {c1, c2}
  MaxRuns = 2
  MaxCalls = 2
  MaxEdits = 1
  MaxStalledCount = 0
  MaxCrashes = 0
  Faults = {"run"}
  AdminStatuses = {"DRAFT", "GENERATING", "ACTIVE", "CLOSED", "GENERATION_FAILED"}
CHECK_DEADLOCK FALSE
SYMMETRY Interchangeable
INVARIANTS
  TaskIdsAreUnique
  ServedIsApproved
  LastResolutionIsAnnounced
