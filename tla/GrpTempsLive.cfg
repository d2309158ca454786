CONSTANTS
  BufIds = {b1, b2, b3}
  Bases = {0, 1}
  Sizes = {0, 1, 3}
  Aligns = {0}
  InitialSizes = {0, 3}
  MaxGrows = {0}
  DefaultAligns = {2}
  PageSizes = {0}
  FallbackSize = 1
  FallbackAlign = 2
  HDR = 1
  SIZE_MAX = 63
  MaxHeap = 12
  MaxLive = 3
  MaxMarks = 1
SPECIFICATION Spec
PROPERTIES Implements LeakOnlyByCompaction CallsReturn
