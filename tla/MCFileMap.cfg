CONSTANTS
  Clients = {c1, c2}
  Size = 2
SPECIFICATION Spec
SYMMETRY Symmetry
INVARIANT IInv
PROPERTIES StableWhileMapped MappedAsAsked
