CONSTANTS
  c1 = c1  c2 = c2  c3 = c3
  w1 = w1  w2 = w2
  Ids <- IdsDef
  Workers <- WorkersDef
  HasSuccessor = TRUE
  MaxTick = 2
  MaxIndex = 1
  None = None
SPECIFICATION FairSpec
INVARIANTS SettledOnce StatusIsTrue
PROPERTIES NobodyLeftBehind
CHECK_DEADLOCK FALSE
