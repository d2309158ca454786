CONSTANTS
  BufIds = {b1, b2, b3, b4}
  Bases = {0}
  Sizes = {1, 3}
  Aligns = {1}
  InitialSizes = {0, 3}
  MaxGrows = {0}
  DefaultAligns = {2}
  PageSizes = {0}
  FallbackSize = 1
  FallbackAlign = 2
  HDR = 1
  SIZE_MAX = 63
  MaxHeap = 20
  MaxLive = 3
  MaxMarks = 1
SPECIFICATION Spec
INVARIANT FreeReleasesAll
