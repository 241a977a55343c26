------------------------------ MODULE SteadyAir -----------------------------
(***************************************************************************)
(* A sensor whose pin is low for the same time in every sample, from a     *)
(* clean start or from the worst air: the arithmetic of SmPwmCurve over    *)
(* every occupancy of a sample, and the exponential average that follows.  *)
(***************************************************************************)
EXTENDS SmPwmCurve

VARIABLES steadyLpo,   \* the time the pin is low in each sample
          steadyData   \* the average, dev->values.data

steadyVars == <<steadyLpo, steadyData>>

Worst == DustCons(100 * LPO_SCALING)

\* sm_pwm_01c_start clears the average; the worst air has left it at its highest.
SteadyInit == steadyLpo \in 0 .. SampleTime /\ steadyData \in {0, Worst}

\* _sample_timer_cb, once per sample. It clears the low time, and the pulses of the
\* next sample fill it again to the same: that is abstracted to a low time that stays.
SteadySample ==
  /\ steadyData' = ExpAverage(Concentration(steadyLpo), steadyData)
  /\ UNCHANGED steadyLpo

SteadySpec == SteadyInit /\ [][SteadySample]_steadyVars /\ WF_steadyVars(SteadySample)

-----------------------------------------------------------------------------
\* A pin that is low for no longer than the sample has its true occupancy, in
\* hundredths of a per cent: the 32-bit product and the 16-bit result do not wrap.
OccupancyIsExact == IsExact(Occupancy(steadyLpo), steadyLpo)

\* More dust is not reported as less, except where the second line of the
\* approximation meets the first too low, at 2 per cent.
CurveRises ==
  steadyLpo < SampleTime /\ Occupancy(steadyLpo) # 2 * LPO_SCALING
    => Concentration(steadyLpo) <= Concentration(steadyLpo + 1)

\* The average moves towards the concentration and never past it.
AverageApproaches == [][Approaches(steadyData, steadyData', Concentration(steadyLpo))]_steadyVars

\* The average of constant air settles: on its concentration when it comes from
\* above, less than ExpWeight below it when it comes from below.
AverageSettles ==
  LET goal == Concentration(steadyLpo) IN <>[](steadyData \in goal - (ExpWeight - 1) .. goal)

\* Every average fits the 16 bits of a phydat_t as it is, so that the text of a
\* reply or report has the prefix of micrograms and the right number, and the
\* test application's bar is a percentage.
ReadingIsReported ==
  Text(ReadMc(steadyData)) = <<steadyData, "u">> /\ BarValue(steadyData) \in 0 .. 100

\* "Scaling value to get 1/100 of a % resolution" (sm_pwm_01c.c:33): at a whole
\* per cent the scaled curve is the unscaled one.
ScalingKeepsCurve ==
  LET percent == Occupancy(steadyLpo) \div LPO_SCALING IN
    Occupancy(steadyLpo) = percent * LPO_SCALING
      => DustCons(Occupancy(steadyLpo)) = DustConsAt(percent, 1)
=============================================================================
