CONSTANTS
  m1 = m1  m2 = m2
  Matches <- TwoMatches
  Deployments <- OneDeployment
  Faulty <- AllOfThem
  MaxTick <- OneTick
  MaxQueue = 2
  Stale = Stale
  None = None
SPECIFICATION Spec
INVARIANTS
  EveryMatchIsServed
CHECK_DEADLOCK FALSE
