SPECIFICATION FairSpec
CONSTANTS
  Slots = 1
  MaxTasks = 1
  Admins = {h1}
  Clients = {c1}
  MaxRuns = 3
  MaxCalls = 2
  MaxEdits = 0
  MaxStalledCount = 1
  MaxCrashes = 1
  Faults = {"run", "approval"}
  AdminStatuses = {"DRAFT", "GENERATING", "ACTIVE", "CLOSED", "GENERATION_FAILED"}
CHECK_DEADLOCK FALSE
PROPERTIES
  GenerationEnds
