SPECIFICATION NodeSpec
CONSTANTS
  Entries = {0, 1, 2, 3, 4}
  NumOf = 4
  MaxSensors = 4
  QueueSize = 4
  RegistryMax = 255
  TypeBase = 3072
  None = None
INVARIANT
  RegisteredIsScheduled
