--------------------------- MODULE AblationProfiles ---------------------------
(***************************************************************************)
(* The frozen ablation of backend/app/evaluation/ablation.py: the choice   *)
(* of an operating profile for each method from the development            *)
(* observations, and the report of those profiles on the test observations.*)
(*                                                                         *)
(* The file of observations at hand is the one the program has read; it is *)
(* sorted by sample id, which is the order of the sequence here.  Latency, *)
(* families and localization are left out.                                 *)
(***************************************************************************)
EXTENDS Rates, FusionPolicy, FiniteSetsExt, SequencesExt

CONSTANTS DevDomain,    \* bound: the domains of the development rows
          MaxDev,       \* bound: development rows
          MaxTest,      \* bound: test rows
          MaxScore,     \* bound: the largest detector score
          DevAlarm,     \* bound: deployed alarms of the development rows
          Limit         \* the FPR limit of each constrained operating point

AblationAssumption ==
  /\ MaxDev \in Nat /\ MaxTest \in Nat /\ MaxScore \in Nat
  /\ DevAlarm \subseteq BOOLEAN
  /\ "production" \notin DOMAIN Limit
  /\ \A point \in DOMAIN Limit : Limit[point] \in Nat \X (Nat \ {0})

VARIABLES stage,         \* "select", "read", "evaluate", then "done"
          observations,  \* the rows of the file at hand
          profiles,      \* the frozen profile of each method and point
          report         \* the counts of each of them on the test rows

vars == <<stage, observations, profiles, report>>

Benign == {"benign_plain", "benign_shift"}
Domain == Benign \cup {"semantic_unsafe", "optimized_suffix"}
Method == {"semantic_only", "cpd_only", "fusion"}
Point  == {"production"} \cup DOMAIN Limit

(* production_cpd_alarm is what the detector said when the row was made;    *)
(* nothing ties it to the score of the row.                                 *)
Observation(domains, alarms) ==
  [domain : domains, severity : Severity, score : 0..MaxScore, alarm : alarms]

LabelRisky(row) == row.domain \notin Benign

(* What select_ablation_profiles accepts: rows of both labels.              *)
DevFiles ==
  {rows \in BoundedSeq(Observation(DevDomain, DevAlarm), MaxDev) :
     {LabelRisky(rows[i]) : i \in DOMAIN rows} = BOOLEAN}

TestFiles == BoundedSeq(Observation(Domain, BOOLEAN), MaxTest) \ {<<>>}

Init ==
  /\ stage = "select"
  /\ observations \in DevFiles
  /\ profiles = <<>> /\ report = <<>>
-----------------------------------------------------------------------------
(* A profile that uses the production alarm has no threshold of its own.    *)
Semantic(policy)  == [method |-> "semantic_only", policy |-> policy,
                      production |-> FALSE, threshold |-> 0]
Cpd(production, t)    == [method |-> "cpd_only", policy |-> "none",
                          production |-> production, threshold |-> t]
Fusion(production, t) == [method |-> "fusion",
                          policy |-> "controversial_or_unsafe",
                          production |-> production, threshold |-> t]

CpdAlarm(row, profile) ==
  IF profile.production THEN row.alarm ELSE row.score >= profile.threshold

Decision(row, profile) ==
  CASE profile.method = "semantic_only" ->
         (CASE row.severity = "Unsafe" -> "block"
            [] /\ row.severity = "Controversial"
               /\ profile.policy = "controversial_or_unsafe" -> "review"
            [] OTHER -> "allow")
    [] profile.method = "cpd_only" ->
         IF CpdAlarm(row, profile) THEN "block" ELSE "allow"
    [] profile.method = "fusion" ->
         Fuse("analysis", row.severity, CpdAlarm(row, profile))

Detected(rows, profile) ==
  {i \in DOMAIN rows : Decision(rows[i], profile) # "allow"}

Classification(rows, profile) ==
  LET risky    == {i \in DOMAIN rows : LabelRisky(rows[i])}
      detected == Detected(rows, profile)
      tp == Cardinality(risky \cap detected)
      fp == Cardinality(detected \ risky)
      fn == Cardinality(risky \ detected)
      tn == Cardinality(DOMAIN rows \ (risky \cup detected))
  IN  [tp |-> tp, fp |-> fp, fn |-> fn, tn |-> tn,
       precision |-> Fraction(tp, tp + fp), recall |-> Fraction(tp, tp + fn),
       fpr |-> Fraction(fp, fp + tn)]
-----------------------------------------------------------------------------
(* The candidates of a method: the scores seen, and one above all of them.  *)
Thresholds(rows) ==
  {rows[i].score : i \in DOMAIN rows}
    \cup {Max({rows[i].score : i \in DOMAIN rows}) + 1}

CandidatesFrom(method, thresholds) ==
  CASE method = "semantic_only" ->
         {Semantic(policy) : policy \in {"unsafe_only", "controversial_or_unsafe"}}
    [] method = "cpd_only" -> {Cpd(FALSE, t) : t \in thresholds}
    [] method = "fusion"   -> {Fusion(FALSE, t) : t \in thresholds}

Within(limit, rows, profile) == ~Below(limit, Classification(rows, profile).fpr)

(* _select_candidate: within the limit the best recall; if no candidate is, *)
(* the lowest rate, marked as not satisfying the constraint.  A slip: the   *)
(* best recall, whether a candidate is within the limit or not.             *)
Ranked(candidates, rows, byRate) ==
  LET key(p) ==
        LET c == Classification(rows, p)
            ties == <<Whole(p.threshold),
                      Whole(IF p.policy = "unsafe_only" THEN 1 ELSE 0)>>
        IN  IF byRate THEN <<Negated(c.fpr), c.recall, c.precision>> \o ties
            ELSE <<c.recall, c.precision, Negated(c.fpr)>> \o ties
  IN  Best([p \in candidates |-> key(p)])

SelectByRecall(candidates, limit, rows) ==
  [profile |-> Ranked(candidates, rows, FALSE),
   satisfied |-> \E p \in candidates : Within(limit, rows, p)]

SelectCandidate(candidates, limit, rows) ==
  LET satisfying == {p \in candidates : Within(limit, rows, p)}
  IN  IF satisfying # {}
        THEN [profile |-> Ranked(satisfying, rows, FALSE), satisfied |-> TRUE]
        ELSE [profile |-> Ranked(candidates, rows, TRUE), satisfied |-> FALSE]

Production(method) ==
  CASE method = "semantic_only" -> Semantic("controversial_or_unsafe")
    [] method = "cpd_only" -> Cpd(TRUE, 0)
    [] method = "fusion"   -> Fusion(TRUE, 0)

Select ==
  /\ stage = "select" /\ stage' = "read"
  /\ profiles' =
       [method \in Method |-> [point \in Point |->
          IF point = "production"
            THEN [profile |-> Production(method), satisfied |-> TRUE]
            ELSE SelectCandidate(CandidatesFrom(method, Thresholds(observations)),
                                 Limit[point], observations)]]
  /\ observations' = <<>>
  /\ UNCHANGED report

ReadTest ==
  /\ stage = "read" /\ stage' = "evaluate"
  /\ observations' \in TestFiles
  /\ UNCHANGED <<profiles, report>>

(* _method_report.                                                          *)
MethodReport(rows, profile) ==
  LET in(domain) == {i \in DOMAIN rows : rows[i].domain = domain}
  IN  [metrics  |-> Classification(rows, profile),
       domains  |-> [d \in {rows[i].domain : i \in DOMAIN rows} |->
                       [count    |-> Cardinality(in(d)),
                        detected |-> Cardinality(in(d) \cap Detected(rows, profile))]],
       actions  |-> [a \in {"allow", "review", "block"} |->
                       Cardinality({i \in DOMAIN rows : Decision(rows[i], profile) = a})]]

Evaluate ==
  /\ stage = "evaluate" /\ stage' = "done"
  /\ report' = [method \in Method |-> [point \in Point |->
                  MethodReport(observations, profiles[method][point].profile)]]
  /\ UNCHANGED <<observations, profiles>>

Done == stage = "done" /\ UNCHANGED vars

Next == Select \/ ReadTest \/ Evaluate \/ Done

Spec == Init /\ [][Next]_vars
-----------------------------------------------------------------------------
Conceivable(method) == CandidatesFrom(method, 0..(MaxScore + 2))

(* Within the FPR limit if any threshold or policy is, seen as a score or   *)
(* not, and then no such one recalls more; marked unsatisfied exactly if    *)
(* there is none, and then none has a lower rate.                           *)
IsBest(chosen, method, limit, rows) ==
  LET of(p)  == Classification(rows, p)
      within(p) == Within(limit, rows, p)
  IN  /\ chosen.satisfied = within(chosen.profile)
      /\ \A p \in Conceivable(method) :
           IF chosen.satisfied
             THEN within(p) => ~Below(of(chosen.profile).recall, of(p).recall)
             ELSE ~within(p) /\ ~Below(of(p).fpr, of(chosen.profile).fpr)

(* The actions and the domains add up to the same rows and detections.      *)
AddsUp(r, rows) ==
  /\ r.metrics.tp + r.metrics.fp = r.actions["review"] + r.actions["block"]
  /\ r.metrics.fn + r.metrics.tn = r.actions["allow"]
  /\ MapThenSumSet(LAMBDA d : r.domains[d].count, DOMAIN r.domains) = Len(rows)
  /\ MapThenSumSet(LAMBDA d : r.domains[d].detected,
                   DOMAIN r.domains \ Benign) = r.metrics.tp

(* What the deployed profile of a method catches.                           *)
Deployed(m) == Detected(observations, profiles[m]["production"].profile)

(* What is frozen keeps what its operating point promises and is the best   *)
(* that does.  On the test rows the deployed fusion then catches exactly    *)
(* what one of the two methods alone catches, and every report adds up.     *)
AblationIsSound ==
  [][/\ stage = "select" =>
          \A m \in Method, point \in DOMAIN Limit :
            IsBest(profiles'[m][point], m, Limit[point], observations)
     /\ stage = "evaluate" =>
          /\ Deployed("fusion") = Deployed("semantic_only") \cup Deployed("cpd_only")
          /\ \A m \in Method, point \in Point :
               AddsUp(report'[m][point], observations)]_vars
=============================================================================
