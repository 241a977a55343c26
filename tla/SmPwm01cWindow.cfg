SPECIFICATION Spec
CONSTANTS
  Channels = {"tsp"}
  SampleTime = 2
  MaxPulse = 2
  ClockMod = 6
  BufferLen = 2
  MovingAverage = TRUE
  ExpWeight = 5
  WordMod = 1048576
INVARIANTS
  TypeOK
  LowTimeIsCounted
  SampleHoldsLowTime
PROPERTIES
  SampledForEver
  ImplementsDustSensor
