SPECIFICATION Spec
CONSTANTS
  b1 = b1
  m1 = m1
  s1 = s1
  u1 = u1
  i1 = i1
  j1 = j1
  p1 = p1
  r1 = r1
  None = None
  Scheduled = {m1}
  Commands = {b1, m1, s1}
  Jobs = {j1}
  Repositories = {p1, r1}
  Kind <- MCKind
  Trigger <- MCTrigger
  Deferred <- MCDeferred
  JobOf <- MCJobOf
  Primary <- MCPrimary
  Replicas <- MCReplicas
  Setups <- MCSetups
  SyncTarget <- MCSyncTarget
  MaxCrashes = 1
  MaxSaveFailures = 0
  MaxConfigs = 1
INVARIANTS RepositoryExclusion BusyMeansHeld OneTransferPerJob MaintenanceAfterReplication
CHECK_DEADLOCK FALSE
