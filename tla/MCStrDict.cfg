CONSTANTS
  a = a
  b = b
  c = c
  d = d
  e = e
  NULL = NULL
  Keys = {a, b, c, d, e}
  Nodes = {n1, n2, n3, n4}
  Values = {v, w}
  IKey <- MCIKey
  NB = 2
  Width = 2
SPECIFICATION Spec
SYMMETRY Symmetry
INVARIANTS IInv DetachedClean HeightBounded EnumReadsLive
PROPERTIES LeavesFirst EnumComplete CallsAdvance Implements
