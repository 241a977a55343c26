SPECIFICATION Spec
CONSTANTS
  QueueSize = 1
  Sizes = {1, 2}
  None = None
INVARIANTS
  TypeOK
  FieldsOfOneImage
PROPERTY
  BarFillsUp
