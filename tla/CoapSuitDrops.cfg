SPECIFICATION Spec
CONSTANTS
  QueueSize = 1
  Cycle = 2
  Sizes = {1, 2}
  None = None
INVARIANTS
  TypeOK
  ErrorHasExit
  StatusFollowsUpdate
  ProgressHasSize
PROPERTY
  ErrorIsLeft
