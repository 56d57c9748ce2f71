SPECIFICATION Spec
CONSTANTS
  Slots = 2
  MaxTasks = 2
  Admins = {h1, h2}
  Clients = {c1}
  MaxRuns = 1
  MaxCalls = 1
  MaxEdits = 0
  MaxStalledCount = 0
  MaxCrashes = 0
  Faults = {}
  AdminStatuses = {}
CHECK_DEADLOCK FALSE
INVARIANTS
  ApprovedTaskIsServed
