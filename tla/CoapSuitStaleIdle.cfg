SPECIFICATION Spec
CONSTANTS
  QueueSize = 4
  Cycle = 2
  Sizes = {1, 3}
  None = None
PROPERTY
  IdleOnlyFromError
