---------------------------- MODULE CusumDetector ----------------------------
(***************************************************************************)
(* The change point detector of backend/app/detection/cpd.py: a one-sided  *)
(* CUSUM over the entropies of a prompt's tokens.                          *)
(*                                                                         *)
(* The z-scores are small integers here, the allowance K and the threshold *)
(* too, and the tokens are counted from 1, with 0 for "none".  Medians and *)
(* floating point are left out: nothing below depends on them.             *)
(***************************************************************************)
EXTENDS Integers, Sequences, FiniteSetsExt

CONSTANTS K,      \* k, the drift the detector allows
          H       \* h, the alarm threshold of the calibration profile

(* What CalibrationProfile asks of them; assumed where they get their values.*)
CusumAssumption == K \in Nat /\ H \in Nat \ {0}

(* A slip beside the step: the sum is not kept from falling below zero.     *)
StepUnclamped(before, z) == before + z - K
Step(before, z) == Max({0, before + z - K})

AlarmsAt(value, h) == value >= h

(* cumulative_value after each token, before and after a possible reset.    *)
Kept(z, h, reset) ==
  LET kept[i \in 0..Len(z)] ==
        IF i = 0 THEN 0
        ELSE LET value == Step(kept[i - 1], z[i])
             IN  IF reset /\ AlarmsAt(value, h) THEN 0 ELSE value
  IN  kept

Sums(z, h, reset) ==
  [i \in 1..Len(z) |-> Step(Kept(z, h, reset)[i - 1], z[i])]

(* segment_start at token i: where the sum last left zero.                  *)
SegmentStart(z, h, reset, i) ==
  Max({j \in 1..i : /\ Kept(z, h, reset)[j - 1] = 0
                        /\ Sums(z, h, reset)[j] > 0})

(* run_cpd: the score, the alarms, and the onset of the first of them.      *)
RunCpd(z, h, reset) ==
  LET sums   == Sums(z, h, reset)
      alarms == {i \in 1..Len(z) : AlarmsAt(sums[i], h)}
  IN  [score  |-> Max({0} \cup {sums[i] : i \in 1..Len(z)}),
       alarms |-> alarms,
       alarm  |-> IF alarms = {} THEN 0 ELSE Min(alarms),
       onset  |-> IF alarms = {} THEN 0
                  ELSE SegmentStart(z, h, reset, Min(alarms))]
=============================================================================
