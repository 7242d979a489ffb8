SPECIFICATION FairSpec
CONSTANTS
  u1 = u1
  None = None
  Updates = {u1}
  Target <- MCTarget
  InitialVersions = {1, 2, 3}
  MaxCrashes = 1
  MaxUpdaterFailures = 1
  MaxSaveFailures = 1
  MaxFileFailures = 1
  MaxStops = 12
INVARIANT RollbackIsKnown
PROPERTIES ReportedVersionRuns ChangesWhileDrained ImplementsRunControl RequestAnswered UndisturbedWorkResumes
CHECK_DEADLOCK FALSE
