SPECIFICATION Spec
CONSTANTS
  NumOf = 3
  SampleTime = 2
  MaxAge = 3
  Toggling <- SmallPins
  SizeMod = 65536
  Inverted = TRUE
INVARIANTS
  DevTypeOK
  PulseNotStretched
  AnswersAreSampled
  ContentIsReading
PROPERTY
  LowTimeIsSampled
