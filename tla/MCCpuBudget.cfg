SPECIFICATION FairSpec
CONSTANTS
  Cpus = {c1, c2}
  NoCpu = NoCpu
  Depth = 2
  RollOrder <- MCRollOrder
  Budget <- MCBudget
  MaxWindow = 1
  MaxCarry = 0
  Width = 8
PROPERTIES Whole DecisionEnds
