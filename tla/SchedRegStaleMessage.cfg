SPECIFICATION Spec
CONSTANTS
  Entries = {e1, e2}
  QueueSize = 2
  RegistryMax = 255
  TypeBase = 3072
  None = None
PROPERTY
  RunsSendersCallback
