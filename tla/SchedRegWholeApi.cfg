SPECIFICATION Spec
CONSTANTS
  Entries = {e1, e2, e3, e4}
  QueueSize = 1
  RegistryMax = 3
  TypeBase = 3072
  None = None
SYMMETRY EntrySymmetry
INVARIANTS
  TypeOK
  TypesMatchPositions
