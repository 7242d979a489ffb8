SPECIFICATION Spec
CONSTANTS
  None = None
  Runs = {1, 2}
  Scheduled = {2}
  Replicated = {}
  Inventory <- MCInventory
  LogChunks = 1
  BatchSize = 2
  SaveMayFail = {"log"}
  RestartsAfterFailedSetup = FALSE
  MaxProgress = 1
  MaxCopyFailures = 0
  MaxGenerations = 2
  MaxCrashes = 0
  MaxSaveFailures = 0
  MaxRejections = 1
INVARIANTS TypeOK BatchIsPrefix GapStaysMarked
PROPERTIES DurableUntilAccepted ForgottenWhenReported
CHECK_DEADLOCK FALSE
