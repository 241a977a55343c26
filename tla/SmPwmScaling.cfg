SPECIFICATION SteadySpec
CONSTANTS
  SampleTime = 2500
  ExpWeight = 5
  WordMod = 33554432
INVARIANT
  ScalingKeepsCurve
