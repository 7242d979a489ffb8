SPECIFICATION FairSpec
CONSTANTS
  b1 = b1
  m1 = m1
  s1 = s1
  u1 = u1
  i1 = i1
  j1 = j1
  p1 = p1
  r1 = r1
  None = None
  Scheduled = {b1, m1}
  Commands = {b1, m1, u1}
  Jobs = {j1}
  Repositories = {p1, r1}
  Kind <- MCKind
  Trigger <- MCTrigger
  Deferred <- MCDeferred
  JobOf <- MCJobOf
  Primary <- MCPrimary
  Replicas <- MCReplicas
  Setups <- MCSetups
  SyncTarget <- MCSyncTarget
  MaxCrashes = 0
  MaxSaveFailures = 0
  MaxConfigs = 0
PROPERTY QueuedWorkEnds
CHECK_DEADLOCK FALSE
