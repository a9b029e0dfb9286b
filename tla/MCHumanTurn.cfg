CONSTANTS
  red = red  blue = blue  c1 = c1  c2 = c2  fire = fire  vent = vent
  Sides <- BothSides
  Commands <- TwoCommands
  PlayerActions <- ActionsDef
  MaxTick = 2
  MaxSent = 2
  None = None
SPECIFICATION FairSpec
INVARIANTS PlayedAsAnswered OneVerdict PromptKeptUntilDecided
PROPERTIES NobodyLeftWaiting
CHECK_DEADLOCK FALSE
