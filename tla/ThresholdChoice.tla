--------------------------- MODULE ThresholdChoice ---------------------------
(***************************************************************************)
(* How an alarm threshold is chosen from labelled scores: the entropy      *)
(* calibration of backend/app/detection/calibrator.py, which fits one      *)
(* threshold for every allowance k and keeps the candidate that does best  *)
(* on the development split, and the window method of evaluation/methods.py*)
(* that does the same for every window size and then asks for a second     *)
(* threshold of a low false positive rate.                                 *)
(*                                                                         *)
(* Scores are small integers, counted by sample; rates are fractions.      *)
(***************************************************************************)
EXTENDS Rates, FiniteSetsExt

CONSTANTS Sample,       \* indices of the samples of a split
          MaxScore,     \* bound: the largest score
          Parameter,    \* the allowances k, or the window sizes: integers
          MaxFpr        \* max_fpr of the low rate threshold, a fraction

ThresholdAssumption ==
  /\ IsFiniteSet(Sample) /\ MaxScore \in Nat
  /\ IsFiniteSet(Parameter) /\ Parameter # {} /\ Parameter \subseteq Int
  /\ MaxFpr \in Nat \X (Nat \ {0})

VARIABLES method,       \* "entropy" or "window_nll"
          stage,        \* "calibration", "read", "dev", then "done"
          labels,       \* of the samples of this stage, TRUE for an attack
          scores,       \* of the samples, by parameter
          fitted,       \* the threshold of each parameter
          profile       \* what is kept

vars == <<method, stage, labels, scores, fitted, profile>>

Labels == {l \in [Sample -> BOOLEAN] : {l[i] : i \in Sample} = BOOLEAN}
Scores == [Parameter -> [Sample -> 0..MaxScore]]

NoProfile == [parameter |-> 0, h |-> 0, low |-> 0]

Init ==
  /\ method \in {"entropy", "window_nll"}
  /\ stage = "calibration"
  /\ labels \in Labels /\ scores \in Scores
  /\ fitted = [p \in Parameter |-> 0]
  /\ profile = NoProfile
-----------------------------------------------------------------------------
(* F1, recall and false positive rate of a threshold.                       *)
Count(lab, score, threshold, flagged, attack) ==
  Cardinality({i \in DOMAIN score : /\ (score[i] >= threshold) = flagged
                                    /\ lab[i] = attack})

Quality(lab, score, threshold) ==
  LET tp == Count(lab, score, threshold, TRUE, TRUE)
      fp == Count(lab, score, threshold, TRUE, FALSE)
      fn == Count(lab, score, threshold, FALSE, TRUE)
      tn == Count(lab, score, threshold, FALSE, FALSE)
  IN  [f1     |-> Fraction(2 * tp, 2 * tp + fp + fn),
       recall |-> Fraction(tp, tp + fn),
       fpr    |-> Fraction(fp, fp + tn)]

(* The positive scores and one above all of them.  A slip: that one only    *)
(* where there is no other.                                                 *)
CandidatesOnlySeen(score) ==
  LET positive == {score[i] : i \in DOMAIN score} \ {0}
  IN  IF positive = {} THEN {1} ELSE positive
Candidates(score) ==
  ({score[i] : i \in DOMAIN score} \ {0})
    \cup {Max({score[i] : i \in DOMAIN score}) + 1}

SelectF1(lab, score) ==
  Best([t \in Candidates(score) |->
          LET q == Quality(lab, score, t) IN <<q.f1, Negated(q.fpr), Whole(t)>>])

SelectAtMaxFpr(lab, score, maxFpr) ==
  LET quality(t) == Quality(lab, score, t)
      allowed    == {t \in Candidates(score) : ~Below(maxFpr, quality(t).fpr)}
  IN  Best([t \in allowed |-> <<quality(t).recall, quality(t).f1, Whole(t)>>])
-----------------------------------------------------------------------------
(* calibrate_entropy for every k, fit_window_nll's loop over its sizes: the *)
(* scores of the calibration split are not looked at again.                 *)
Fit ==
  /\ stage = "calibration" /\ stage' = "read"
  /\ fitted' = [p \in Parameter |-> SelectF1(labels, scores[p])]
  /\ labels' = [i \in Sample |-> FALSE]
  /\ scores' = [p \in Parameter |-> [i \in Sample |-> 0]]
  /\ UNCHANGED <<method, profile>>

(* The development split is another set of samples.                         *)
ReadDev ==
  /\ stage = "read" /\ stage' = "dev"
  /\ labels' \in Labels /\ scores' \in Scores
  /\ UNCHANGED <<method, fitted, profile>>

(* The best F1 on the development split, then the lowest rate; of equals    *)
(* the calibration keeps the smallest k, the window method the largest      *)
(* window.                                                                  *)
BestParameter ==
  Best([p \in Parameter |->
          LET q == Quality(labels, scores[p], fitted[p])
          IN  <<q.f1, Negated(q.fpr), Whole(IF method = "entropy" THEN -p ELSE p)>>])

Pick ==
  /\ stage = "dev" /\ stage' = "done"
  /\ LET best == BestParameter IN
     profile' = [parameter |-> best, h |-> fitted[best],
                 low |-> IF method = "entropy" THEN 0
                         ELSE SelectAtMaxFpr(labels, scores[best], MaxFpr)]
  /\ UNCHANGED <<method, labels, scores, fitted>>

Done == stage = "done" /\ UNCHANGED vars

Next == Fit \/ ReadDev \/ Pick \/ Done

Spec == Init /\ [][Next]_vars
-----------------------------------------------------------------------------
(* The few candidates tried are enough: no positive threshold, seen as a    *)
(* score or not, has a better F1 on the calibration split than the one kept *)
(* for a parameter, or the same F1 at a lower rate; no parameter does       *)
(* better on the development split; and the low rate threshold keeps the    *)
(* rate it promises and misses no attack that any other would catch at it.  *)
Threshold == 1..(MaxScore + 2)

Outranks(lab, score, t, h) ==
  LET q == Quality(lab, score, t) r == Quality(lab, score, h) IN
  \/ Below(r.f1, q.f1)
  \/ ~Below(q.f1, r.f1) /\ Below(q.fpr, r.fpr)

LowRate(lab, score, t) == ~Below(MaxFpr, Quality(lab, score, t).fpr)

ChosenIsBest ==
  [][/\ stage = "calibration" =>
          \A p \in Parameter, t \in Threshold :
            ~Outranks(labels, scores[p], t, fitted'[p])
     /\ stage = "dev" =>
          LET best == profile'.parameter IN
          /\ profile'.h = fitted[best]
          /\ \A p \in Parameter :
               ~Below(Quality(labels, scores[best], fitted[best]).f1,
                      Quality(labels, scores[p], fitted[p]).f1)
          /\ method = "window_nll" =>
               /\ LowRate(labels, scores[best], profile'.low)
               /\ \A t \in Threshold :
                    LowRate(labels, scores[best], t) =>
                      ~Below(Quality(labels, scores[best], profile'.low).recall,
                             Quality(labels, scores[best], t).recall)]_vars
=============================================================================
