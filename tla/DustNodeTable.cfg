SPECIFICATION Spec
CONSTANTS
  NumOf = 1
  SampleTime = 2
  MaxAge = 3
  Toggling = {}
  SizeMod = 65536
  Inverted = TRUE
INVARIANT
  ResourcesAreFound
