----------------------------- MODULE SmPwmCurve -----------------------------
(***************************************************************************)
(* The arithmetic of drivers/sm_pwm_01c: from the time a pin was low in a  *)
(* sample to an occupancy, to a dust concentration, to the exponential     *)
(* average.  uint32_t and uint16_t wrap; C's int does not overflow here.   *)
(***************************************************************************)
EXTENDS Integers

CONSTANTS SampleTime,  \* CONFIG_SM_PWM_01C_SAMPLE_TIME
          ExpWeight,   \* CONFIG_SM_PWM_01C_EXP_WEIGHT
          WordMod      \* 2^32, the values of a uint32_t

ASSUME CurveConstants ==
  /\ SampleTime \in Nat \ {0} /\ ExpWeight \in Nat \ {0} /\ WordMod \in Nat \ {0}

LPO_SCALING == 100

Uint16(n) == n % 65536

\* Mutant: the occupancy is rounded before it is scaled.
Occupancy_RoundsFirst(lpo) == Uint16(100 * LPO_SCALING * (lpo \div SampleTime))

\* The cast to uint64_t comes after the multiplication in 32 bits.
Occupancy(lpo) == Uint16(((100 * LPO_SCALING * lpo) % WordMod) \div SampleTime)

\* Mutant: the products are computed in 16 bits.
DustConsAt_Narrow(lpo, scaling) ==
  CASE lpo <= 2 * scaling                        -> Uint16(143 * lpo) \div (2 * scaling)
    [] lpo > 2 * scaling /\ lpo <= 4 * scaling   -> Uint16(208 * lpo + 130) \div (3 * scaling)
    [] lpo > 4 * scaling /\ lpo <= 15 * scaling  -> Uint16(1155 * lpo - 1572) \div (10 * scaling)
    [] lpo > 15 * scaling                        -> Uint16(2354 * lpo - 19560) \div (10 * scaling)

\* Mutant: the divisor of the last line is not scaled.
DustConsAt_Steep(lpo, scaling) ==
  Uint16(
    CASE lpo <= 2 * scaling                        -> (143 * lpo) \div (2 * scaling)
      [] lpo > 2 * scaling /\ lpo <= 4 * scaling   -> (208 * lpo + 130) \div (3 * scaling)
      [] lpo > 4 * scaling /\ lpo <= 15 * scaling  -> (1155 * lpo - 1572) \div (10 * scaling)
      [] lpo > 15 * scaling                        -> (2354 * lpo - 19560) \div scaling)

\* _lpo_to_dust_cons, for a scaling of the occupancy: four straight lines.
DustConsAt(lpo, scaling) ==
  Uint16(
    CASE lpo <= 2 * scaling                        -> (143 * lpo) \div (2 * scaling)
      [] lpo > 2 * scaling /\ lpo <= 4 * scaling   -> (208 * lpo + 130) \div (3 * scaling)
      [] lpo > 4 * scaling /\ lpo <= 15 * scaling  -> (1155 * lpo - 1572) \div (10 * scaling)
      [] lpo > 15 * scaling                        -> (2354 * lpo - 19560) \div (10 * scaling))

DustCons(lpo) == DustConsAt(lpo, LPO_SCALING)

Concentration(lpo) == DustCons(Occupancy(lpo))

\* Mutant: the old value has the weight of ExpWeight samples.
ExpAverage_Heavy(sample, old) == Uint16(((sample + ExpWeight * old) % WordMod) \div ExpWeight)

\* The exponential average after one more sample.
ExpAverage(sample, old) ==
  Uint16(((sample + (ExpWeight - 1) * old) % WordMod) \div ExpWeight)

-----------------------------------------------------------------------------
(* What becomes of a reading.                                              *)

\* phydat_fit of one 16-bit value that is not negative: if it does not fit in a
\* signed one, its last digit goes into the scale, a power of ten.
Fits(value) == value <= 32767
PhydatFit(value, scale) ==
  IF Fits(value) THEN [val |-> value, scale |-> scale]
                 ELSE [val |-> value \div 10, scale |-> scale + 1]

\* read_mc_pm_2p5 and read_mc_pm_10: micrograms, in grams per cubic metre.
ReadMc(value) == PhydatFit(value, -6)

\* The number in _read_saul_data_str's text of a reading in g/m3, and the prefix
\* of its unit: phydat_prefix_from_scale has one for -6, micro, and none for -5.
Text(phydat) == <<phydat.val, IF phydat.scale = -6 THEN "u" ELSE "">>

\* The bar of the driver's test application, in per cent of 3000.
BarValue(value) == IF value > 3000 THEN 100 ELSE (value * 100) \div 3000

-----------------------------------------------------------------------------
\* o is the share of the sample that the pin was low, rounded down, in
\* hundredths of a per cent.
IsExact(o, lpo) ==
  /\ o \in 0 .. 100 * LPO_SCALING
  /\ o * SampleTime <= 100 * LPO_SCALING * lpo
  /\ 100 * LPO_SCALING * lpo < (o + 1) * SampleTime

\* new lies between old and its goal.
Approaches(old, new, goal) ==
  /\ old <= goal => old <= new /\ new <= goal
  /\ old >= goal => goal <= new /\ new <= old
=============================================================================
