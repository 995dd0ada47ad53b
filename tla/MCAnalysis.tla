----------------------------- MODULE MCAnalysis -----------------------------
(* The benchmark's pipeline, the choice of thresholds and of profiles, and  *)
(* the analysis of a prompt that all of them are about, on small instances  *)
(* in one run: `part` picks which of them moves.                            *)
EXTENDS AblationBenchmark, TLC

CONSTANTS
  K, H, ZScore, MaxLength, Unit, Resolution,       \* PromptAnalysis
  Card, MaxResults,
  Scored, MaxScore, Parameter, MaxFpr,             \* ThresholdChoice
  DevDomain, MaxDev, MaxTest, DevAlarm, Limit      \* AblationProfiles

VARIABLES pc, request, semantic, trace, result, events, recheck,
          method, stage, labels, scores, fitted, profile,
          ablation, observations, points, ablationReport, part

(* With so few rows the only rate within 5% is 0, the next above it 1/2.    *)
TenPercent == <<1, 10>>
Limits == [fpr_10 |-> <<1, 2>>, fpr_05 |-> <<0, 20>>]

(* Three groups of one attack family, as many as the manifest asks for.     *)
Row(base, family, domain) == [base |-> base, family |-> family, domain |-> domain]
Rows == <<Row("b1", "gcg", "optimized_suffix"), Row("b2", "gcg", "optimized_suffix"),
          Row("b3", "gcg", "optimized_suffix"), Row("b4", "benign", "benign_plain"),
          Row("b5", "benign", "benign_plain"), Row("t1", "none", "benign_shift"),
          Row("u1", "none", "semantic_unsafe"), Row("u2", "none", "semantic_unsafe")>>

Analysis == INSTANCE PromptAnalysis

Threshold == INSTANCE ThresholdChoice WITH Sample <- Scored

Ablation == INSTANCE AblationProfiles
              WITH stage <- ablation, profiles <- points,
                   report <- ablationReport

(* Two orders of the groups: each row here is a group of its own.           *)
GroupsOf(order) ==
  [i \in DOMAIN order |->
     LET row == Rows[order[i]] IN
     IF row.domain \in {"optimized_suffix", "benign_plain"}
       THEN <<"grp", row.base, row.family>> ELSE <<row.domain, row.base>>]
Orders == [a |-> GroupsOf(<<1, 4, 2, 5, 3, 6, 7, 8>>),
           b |-> GroupsOf(<<1, 4, 3, 6, 2, 5, 7, 8>>)]

ASSUME AnalysisAssumption ==
  /\ BenchmarkAssumption /\ Analysis!PromptAssumption
  /\ Threshold!ThresholdAssumption /\ Ablation!AblationAssumption

promptVars == <<pc, request, semantic, trace, result, events, recheck>>
thresholdVars == <<method, stage, labels, scores, fitted, profile>>
ablationVars == <<ablation, observations, points, ablationReport>>
mcVars == <<vars, promptVars, thresholdVars, ablationVars, part>>
-----------------------------------------------------------------------------
Least(S) == CHOOSE x \in S : \A y \in S : x <= y

(* The parts that do not move: one state each, in which they are done.      *)
PromptRests ==
  /\ pc = "received" /\ semantic = "none" /\ trace = Analysis!NoTrace
  /\ request = [entry |-> "api", mode |-> "analysis", knowledge |-> "off",
                prompt |-> [z |-> <<Least(ZScore)>>, straddles |-> FALSE, blanks |-> 0]]
  /\ result = Analysis!NoResult /\ recheck = Analysis!NoRecheck /\ events = {}

ThresholdRests ==
  /\ method = "entropy" /\ stage = "done"
  /\ labels = <<>> /\ scores = <<>> /\ fitted = <<>>
  /\ profile = Threshold!NoProfile

AblationRests ==
  ablation = "done" /\ observations = <<>> /\ points = <<>>
    /\ ablationReport = <<>>

BenchmarkRests == Init /\ deployment = Least(Deployment)

MCInit ==
  \/ /\ part = "prompt"
     /\ Analysis!Init /\ ThresholdRests /\ AblationRests /\ BenchmarkRests
  \/ /\ part = "threshold"
     /\ Threshold!Init /\ PromptRests /\ AblationRests /\ BenchmarkRests
  \/ /\ part = "ablation"
     /\ Ablation!Init /\ PromptRests /\ ThresholdRests /\ BenchmarkRests
  \/ /\ part = "benchmark"
     /\ Init /\ PromptRests /\ ThresholdRests /\ AblationRests

PromptStep ==
  /\ part = "prompt" /\ Analysis!Next
  /\ UNCHANGED <<vars, thresholdVars, ablationVars, part>>

ThresholdStep ==
  /\ part = "threshold" /\ Threshold!Next
  /\ UNCHANGED <<vars, promptVars, ablationVars, part>>

AblationStep ==
  /\ part = "ablation" /\ Ablation!Next
  /\ UNCHANGED <<vars, promptVars, thresholdVars, part>>

(* Bound: all manifests are frozen before anything is collected, and a      *)
(* deployment is never taken back.                                          *)
BenchmarkStep ==
  /\ part = "benchmark" /\ Next
  /\ collections' > 0 => frozen' = Seed
  /\ deployment' >= deployment
  /\ UNCHANGED <<promptVars, thresholdVars, ablationVars, part>>

MCNext == PromptStep \/ ThresholdStep \/ AblationStep \/ BenchmarkStep

MCSpec == MCInit /\ [][MCNext]_mcVars
-----------------------------------------------------------------------------
(* No threshold and no parameter is better than the chosen ones.            *)
ChosenIsBest == Threshold!ChosenIsBest

(* A frozen profile is the best within its limit, and its report adds up.   *)
AblationIsSound == Ablation!AblationIsSound

(* The reported score is the largest excess over the drift.                 *)
CusumIsMaximalExcess == part = "prompt" => Analysis!CusumIsMaximalExcess

(* Decision, knowledge and audit of an answer fit each other.               *)
AnswerIsGrounded == Analysis!AnswerIsGrounded

(* What comes before the onset raises no alarm, as it was tokenised.        *)
PrefixIsQuiet == Analysis!PrefixIsQuiet
=============================================================================
