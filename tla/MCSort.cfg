CONSTANTS
  Elems <- MCElems
  Rank <- MCRank
  Ties <- MCTies
  Junk = Junk
  Inputs <- MCInputs
  QuickSmall = 4
  QuickMedian = 6
  MergeSmall = 3
  Ranks = {0, 1, 2}
  MaxSize = 7
SPECIFICATION FairSpec
INVARIANTS AssertionsHold SortsOnReturn LoopInv
PROPERTY CallsReturn
