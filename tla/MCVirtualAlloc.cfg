CONSTANTS
  Bases = {0, 6}
  Sizes = {0, 1, 3}
  Aligns = {0, 1, 4}
  ReserveSizes = {5, 9}
  DefaultAligns = {2}
  GrowSizes = {0, 3}
  PageSizes = {0, 2}
  Neighbours = {0, 4}
  SIZE_MAX = 63
  MaxSpace = 16
  MaxLive = 3
  MaxMarks = 2
SPECIFICATION Spec
INVARIANTS BlocksAccessible BlocksAligned IInv
PROPERTY Implements
