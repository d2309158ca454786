CONSTANTS
  Clients = {c1}
  Size = 2
SPECIFICATION Spec
PROPERTY DumpSucceeds
