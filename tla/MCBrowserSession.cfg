CONSTANTS
  m1 = m1  m2 = m2
  Matches <- TwoMatches
  Deployments <- DeploymentsDef
  Faulty <- FaultyDef
  MaxTick <- TicksDef
  MaxQueue = 2
  Stale = Stale
  None = None
SPECIFICATION FairSpec
INVARIANTS OneMatchHoldsAll
PROPERTIES AdmittedRetires PauseIsAnswered
CHECK_DEADLOCK FALSE
