SPECIFICATION FairSpec
CONSTANTS
  None = None
  Runs = {1}
  Scheduled = {}
  Replicated = {1}
  Inventory <- MCBackup
  LogChunks = 2
  BatchSize = 3
  SaveMayFail = {"finish", "report"}
  RestartsAfterFailedSetup = FALSE
  MaxProgress = 2
  MaxCopyFailures = 3
  MaxGenerations = 2
  MaxCrashes = 1
  MaxSaveFailures = 1
  MaxRejections = 0
INVARIANTS LogWhole LogFileKept
PROPERTY OutcomeArrives
CHECK_DEADLOCK FALSE
