------------------------ MODULE AblationBenchmarkProofs ------------------------
(***************************************************************************)
(* The benchmark and the analysis it is about.  The benchmark never        *)
(* reports on a group that had a say in its profiles, and counts every     *)
(* sample of the test split once, as answered by one deployment, for any   *)
(* rows, any order of the groups and any number of collections.  The       *)
(* analysis gives answers that are grounded, a score that is what the      *)
(* detector is defined by, and a counterfactual that only finds an alarm   *)
(* the prefix has, for any prompt, drift, threshold and card index.        *)
(***************************************************************************)
EXTENDS MCAnalysis, Rates, FiniteSetTheorems, SequenceTheorems, TLAPS

(* Every part gets a group at least.                                        *)
LEMMA PartIsPositive ==
  ASSUME NEW m \in Nat
  PROVE  PartSize(m) \in Nat \ {0}
<1> DEFINE rounded == (2 * m + 5) \div 10
<1>1. rounded \in Nat
  <2> DEFINE k == 2 * m + 5
  <2>1. k \in Nat
    OBVIOUS
  <2> HIDE DEF k
  <2>2. k \div 10 \in Int /\ k \div 10 >= 0
    BY <2>1, SMT
  <2> QED BY <2>2 DEF k
<1> HIDE DEF rounded
<1>2. (IF rounded = 0 THEN 1 ELSE rounded) \in Nat \ {0}
  BY <1>1
<1>3. Fifth(m) = IF rounded = 0 THEN 1 ELSE rounded
  BY DEF Fifth, rounded
<1>4. Fifth(m) \in Nat \ {0}
  BY <1>2, <1>3
<1> QED BY <1>4 DEF PartSize

(* The parts of a split take different places of the order, so no group is  *)
(* in two of them.                                                          *)
LEMMA SplitsDisjoint ==
  ASSUME BenchmarkAssumption,
         NEW seed \in Seed,
         NEW s \in SplitsOf[seed]["test"], NEW r \in SplitsOf[seed]["dev"]
  PROVE  GroupOf(s) # GroupOf(r)
<1> DEFINE order == Order[seed]
           n     == Len(order)
           size  == PartSize(n)
<1>1. /\ order \in Seq(Groups)
      /\ DOMAIN order = 1..n
      /\ n \in Nat
      /\ \A i, j \in DOMAIN order : order[i] = order[j] => i = j
  BY DEF BenchmarkAssumption, IsInjective
<1>2. size \in Nat \ {0}
  BY <1>1, PartIsPositive
<1>3. /\ SplitsOf[seed]["test"] =
           {q \in Sample : \E i \in (2 * size + 1)..n : GroupOf(q) = order[i]}
      /\ SplitsOf[seed]["dev"] =
           {q \in Sample : \E i \in (size + 1)..(2 * size) : GroupOf(q) = order[i]}
  BY DEF SplitsOf, Positions
<1>4. PICK i \in (2 * size + 1)..n : GroupOf(s) = order[i]
  BY <1>3
<1>5. PICK j \in (size + 1)..(2 * size) : GroupOf(r) = order[j]
  BY <1>3
<1>6. i # j /\ i \in DOMAIN order /\ j \in DOMAIN order
  <2> HIDE DEF n, size
  <2> QED BY <1>1, <1>2
<1>7. order[i] # order[j]
  BY <1>1, <1>6
<1> QED BY <1>4, <1>5, <1>7

(* What the two artifacts are about: profiles of the whole dev split of     *)
(* their seed, a report on samples of the test split of the same seed.      *)
ChosenOnDev ==
  profiles.exists => /\ profiles.seed \in Seed
                     /\ profiles.samples = SplitsOf[profiles.seed]["dev"]

ReportedOnTest ==
  report.exists => /\ report.seed \in Seed
                   /\ report.selectedOn = SplitsOf[report.seed]["dev"]
                   /\ SamplesOf(report.rows) \subseteq SplitsOf[report.seed]["test"]

Provenance == ChosenOnDev /\ ReportedOnTest

LEMMA ProvenanceInit == Init => Provenance
  BY DEF Init, NoFile, Provenance, ChosenOnDev, ReportedOnTest

LEMMA ProvenanceNext == Provenance /\ [Next]_vars => Provenance'
<1> SUFFICES ASSUME Provenance, [Next]_vars PROVE Provenance'
  OBVIOUS
<1> USE DEF Provenance, ChosenOnDev, ReportedOnTest
<1>1. ASSUME UNCHANGED <<profiles, report>> PROVE Provenance'
  BY <1>1 DEF SamplesOf
<1>2. ASSUME NEW seed \in Seed, SelectProfiles(seed) PROVE Provenance'
  <2>1. /\ profiles'.seed = seed
        /\ profiles'.samples = SplitsOf[seed]["dev"]
        /\ report' = report
    BY <1>2 DEF SelectProfiles
  <2> QED BY <2>1
<1>3. ASSUME NEW seed \in Seed, EvaluateTest(seed) PROVE Provenance'
  <2>1. profiles' = profiles /\ profiles.exists /\ profiles.seed = seed
    BY <1>3 DEF EvaluateTest, OfThisDataset
  <2>2. SamplesOf(cache["test"].rows) \subseteq SplitsOf[seed]["test"]
    BY <1>3 DEF EvaluateTest, Counted
  <2>3. /\ report'.seed = seed
        /\ report'.rows = cache["test"].rows
        /\ report'.selectedOn = profiles.samples
    BY <1>3 DEF EvaluateTest
  <2>4. ChosenOnDev'
    BY <2>1
  <2>5. ReportedOnTest'
    BY <2>1, <2>2, <2>3
  <2> QED BY <2>4, <2>5
<1>4. CASE \E seed \in Seed : Freeze(seed)
  BY <1>1, <1>4 DEF Freeze
<1>5. CASE \E seed \in Seed, split \in Split, resume \in BOOLEAN :
             Collect(seed, split, resume)
  BY <1>1, <1>5 DEF Collect
<1>6. CASE Redeploy \/ Analyze \/ SaveCache \/ SaveMeta \/ SaveErrors \/ Interrupt
  BY <1>1, <1>6 DEF Redeploy, Analyze, SaveCache, SaveMeta, SaveErrors, Interrupt
<1>7. CASE UNCHANGED vars
  BY <1>1, <1>7 DEF vars
<1> QED BY <1>2, <1>3, <1>4, <1>5, <1>6, <1>7 DEF Next

(* The report of evaluate_ablation and the profiles of                      *)
(* select_ablation_profiles never share a group, for all rows and seeds of  *)
(* which every group has one place in the order.                            *)
THEOREM ReportsAreUnseen ==
  ASSUME BenchmarkAssumption
  PROVE  Spec => []TestIsUnseen
<1>1. Provenance => TestIsUnseen
  <2> SUFFICES ASSUME Provenance, report.exists,
                      NEW s \in SamplesOf(report.rows), NEW r \in report.selectedOn
               PROVE  GroupOf(s) # GroupOf(r)
    BY DEF TestIsUnseen
  <2>1. /\ report.seed \in Seed
        /\ s \in SplitsOf[report.seed]["test"]
        /\ r \in SplitsOf[report.seed]["dev"]
    BY DEF Provenance, ReportedOnTest
  <2> QED BY <2>1, SplitsDisjoint
<1> QED BY <1>1, ProvenanceInit, ProvenanceNext, PTL DEF Spec
-----------------------------------------------------------------------------
(* The rows of a file were all made for one manifest by one deployment.     *)
MadeBy(rows, by, seed) == \A o \in rows : o = Observation(o.sample, by, seed)

RunningCollector ==
  [pc |-> collector.pc, seed |-> collector.seed, split |-> collector.split,
   identity |-> collector.identity, rows |-> collector.rows,
   failures |-> collector.failures]

(* A running collector has rows of its own deployment only, and so has the  *)
(* metadata that says what a resumed run continues: it is written after the *)
(* observations, and nothing is deployed meanwhile.                         *)
CollectorInv ==
  collector # Idle =>
    /\ collector = RunningCollector
    /\ collector.split \in Split
    /\ collector.identity = deployment
    /\ MadeBy(collector.rows, deployment, collector.seed)
    /\ meta[collector.split].exists =>
         /\ meta[collector.split].by = deployment
         /\ meta[collector.split].seed = collector.seed
    /\ collector.pc = "cached" =>
         cache[collector.split] = [exists |-> TRUE, rows |-> collector.rows]

FilesInv ==
  /\ DOMAIN cache = Split /\ DOMAIN meta = Split
  /\ \A split \in Split :
       /\ cache[split].exists => \E by, seed : MadeBy(cache[split].rows, by, seed)
       /\ meta[split].exists =>
            /\ cache[split].exists
            /\ MadeBy(cache[split].rows, meta[split].by, meta[split].seed)

ReportInv ==
  report.exists =>
    /\ \E by, seed : MadeBy(report.rows, by, seed)
    /\ SamplesOf(report.rows) \cap report.failed = {}
    /\ SamplesOf(report.rows) \cup report.failed = SplitsOf[report.seed]["test"]

WholeInv == CollectorInv /\ FilesInv /\ ReportInv

LEMMA WholeInit == Init => WholeInv
  BY DEF Init, NoFile, Split, WholeInv, CollectorInv, FilesInv, ReportInv

(* A resumed collector continues rows of its own deployment and manifest.   *)
LEMMA CollectStep ==
  ASSUME WholeInv, NEW seed \in Seed, NEW split \in Split, NEW resume \in BOOLEAN,
         Collect(seed, split, resume)
  PROVE  WholeInv'
<1> USE DEF WholeInv
<1>1. /\ UNCHANGED <<deployment, cache, meta, report>>
      /\ collector' = [pc |-> "analyze", seed |-> seed, split |-> split,
                       identity |-> deployment,
                       rows |-> IF resume THEN Existing(split) ELSE {},
                       failures |-> {}]
  BY DEF Collect
<1>2. collector' # Idle /\ collector' = RunningCollector'
  BY <1>1 DEF Idle, RunningCollector
<1>3. MadeBy(collector'.rows, deployment, seed)
  <2>1. CASE resume
    <3>1. meta[split].exists /\ meta[split].seed = seed /\ meta[split].by = deployment
      BY <2>1 DEF Collect, Resumable
    <3>2. cache[split].exists /\ MadeBy(cache[split].rows, deployment, seed)
      BY <3>1 DEF FilesInv
    <3> QED
      BY <1>1, <2>1, <3>2 DEF Existing
  <2>2. CASE ~resume
    BY <1>1, <2>2 DEF MadeBy
  <2> QED
    BY <2>1, <2>2
<1>4. meta[split].exists => meta[split].by = deployment /\ meta[split].seed = seed
  BY DEF Collect, Resumable, FilesInv
<1>5. CollectorInv'
  BY <1>1, <1>2, <1>3, <1>4 DEF CollectorInv
<1>6. FilesInv' /\ ReportInv'
  BY <1>1 DEF FilesInv, ReportInv
<1> QED
  BY <1>5, <1>6

(* One more answer of the API, one of this deployment.                      *)
LEMMA AnalyzeStep == WholeInv /\ Analyze => WholeInv'
<1> SUFFICES ASSUME WholeInv, Analyze PROVE WholeInv'
  OBVIOUS
<1> USE DEF WholeInv
<1>1. PICK s : collector' \in
        {[collector EXCEPT !.rows = @ \cup {Observation(s, deployment, collector.seed)}],
         [collector EXCEPT !.failures = @ \cup {s}]}
  BY DEF Analyze
<1>2. /\ collector # Idle /\ collector = RunningCollector
      /\ UNCHANGED <<deployment, cache, meta, report>>
      /\ collector.pc = "analyze"
  BY DEF Analyze, CollectorInv, Idle
<1>3. /\ collector' = RunningCollector'
      /\ collector'.pc = "analyze" /\ collector'.split = collector.split
      /\ collector'.seed = collector.seed /\ collector'.identity = collector.identity
      /\ \/ collector'.rows = collector.rows
         \/ collector'.rows = collector.rows
                                 \cup {Observation(s, deployment, collector.seed)}
  BY <1>1, <1>2 DEF RunningCollector
<1>4. MadeBy(collector'.rows, deployment, collector.seed)
  BY <1>2, <1>3 DEF CollectorInv, MadeBy, Observation
<1>5. CollectorInv'
  BY <1>2, <1>3, <1>4 DEF CollectorInv
<1>6. FilesInv' /\ ReportInv'
  BY <1>2 DEF FilesInv, ReportInv
<1> QED
  BY <1>5, <1>6

(* The observations are replaced by those of the same deployment.           *)
LEMMA SaveCacheStep == WholeInv /\ SaveCache => WholeInv'
<1> SUFFICES ASSUME WholeInv, SaveCache PROVE WholeInv'
  OBVIOUS
<1> USE DEF WholeInv
<1>1. /\ collector # Idle /\ collector = RunningCollector
      /\ UNCHANGED <<deployment, meta, report>>
      /\ collector' = [collector EXCEPT !.pc = "cached"]
      /\ cache' = [cache EXCEPT ![collector.split] =
                     [exists |-> TRUE, rows |-> collector.rows]]
  BY DEF SaveCache, CollectorInv, Idle
<1>2. /\ collector' = RunningCollector'
      /\ collector'.pc = "cached" /\ collector'.rows = collector.rows
      /\ collector'.split = collector.split /\ collector'.seed = collector.seed
      /\ collector'.identity = collector.identity
  BY <1>1 DEF RunningCollector
<1>3. /\ DOMAIN cache' = Split
      /\ cache'[collector.split] = [exists |-> TRUE, rows |-> collector.rows]
      /\ \A split \in Split \ {collector.split} : cache'[split] = cache[split]
  BY <1>1 DEF CollectorInv, FilesInv
<1>4. CollectorInv'
  BY <1>1, <1>2, <1>3 DEF CollectorInv
<1>5. FilesInv'
  BY <1>1, <1>3 DEF CollectorInv, FilesInv
<1> QED
  BY <1>1, <1>4, <1>5 DEF ReportInv

(* The metadata describe the observations that were just saved.             *)
LEMMA SaveMetaStep == WholeInv /\ SaveMeta => WholeInv'
<1> SUFFICES ASSUME WholeInv, SaveMeta PROVE WholeInv'
  OBVIOUS
<1> USE DEF WholeInv
<1>1. /\ collector # Idle /\ collector = RunningCollector
      /\ UNCHANGED <<deployment, cache, report>>
      /\ collector.pc = "cached"
      /\ collector' = [collector EXCEPT !.pc = "described"]
      /\ meta' = [meta EXCEPT ![collector.split] =
                    [exists |-> TRUE, seed |-> collector.seed,
                     by |-> collector.identity]]
  BY DEF SaveMeta, CollectorInv, Idle
<1>2. /\ collector' = RunningCollector'
      /\ collector'.pc = "described" /\ collector'.rows = collector.rows
      /\ collector'.split = collector.split /\ collector'.seed = collector.seed
      /\ collector'.identity = collector.identity
  BY <1>1 DEF RunningCollector
<1>3. /\ DOMAIN meta' = Split
      /\ meta'[collector.split].by = deployment
      /\ meta'[collector.split].seed = collector.seed
      /\ \A split \in Split \ {collector.split} : meta'[split] = meta[split]
  BY <1>1 DEF CollectorInv, FilesInv
<1>4. CollectorInv'
  BY <1>1, <1>2, <1>3 DEF CollectorInv
<1>5. FilesInv'
  BY <1>1, <1>3 DEF CollectorInv, FilesInv
<1> QED
  BY <1>1, <1>4, <1>5 DEF ReportInv

LEMMA WholeNext == WholeInv /\ [Next]_vars => WholeInv'
<1> SUFFICES ASSUME WholeInv, [Next]_vars PROVE WholeInv'
  OBVIOUS
<1> USE DEF WholeInv
<1>1. ASSUME UNCHANGED <<deployment, cache, meta, report>>,
             collector' = collector \/ collector' = Idle
      PROVE  WholeInv'
  BY <1>1 DEF CollectorInv, RunningCollector, FilesInv, ReportInv
<1>2. ASSUME NEW seed \in Seed, EvaluateTest(seed) PROVE WholeInv'
  <2>1. /\ UNCHANGED <<deployment, cache, meta, collector>>
        /\ report'.seed = seed /\ report'.rows = cache["test"].rows
        /\ SamplesOf(report'.rows) \cap report'.failed = {}
        /\ SamplesOf(report'.rows) \cup report'.failed = SplitsOf[seed]["test"]
        /\ cache["test"].exists
    BY <1>2 DEF EvaluateTest, Counted
  <2>2. ReportInv'
    BY <2>1 DEF ReportInv, FilesInv, Split
  <2> QED
    BY <2>1, <2>2 DEF CollectorInv, RunningCollector, FilesInv
<1>3. CASE Redeploy
  BY <1>3 DEF Redeploy, CollectorInv, FilesInv, ReportInv
<1>4. CASE \E seed \in Seed : Freeze(seed) \/ SelectProfiles(seed)
  BY <1>1, <1>4 DEF Freeze, SelectProfiles
<1>5. CASE SaveErrors \/ Interrupt \/ UNCHANGED vars
  BY <1>1, <1>5 DEF SaveErrors, Interrupt, vars
<1> QED
  BY <1>2, <1>3, <1>4, <1>5, CollectStep, AnalyzeStep, SaveCacheStep, SaveMetaStep
     DEF Next

(* The report of evaluate_ablation counts every sample of its test split    *)
(* once, and none of its answers is of another deployment, whatever was     *)
(* interrupted, resumed or deployed between.                                *)
THEOREM ReportsAreWhole == Spec => []ReportIsWhole
<1>1. WholeInv => ReportIsWhole
  <2> SUFFICES ASSUME WholeInv, report.exists PROVE ReportIsWhole
    BY DEF ReportIsWhole
  <2> DEFINE of(s) == {o \in report.rows : o.sample = s}
  <2>1. PICK by, seed : MadeBy(report.rows, by, seed)
    BY DEF WholeInv, ReportInv
  <2>2. \A o, p \in report.rows : o.by = p.by
    BY <2>1 DEF MadeBy, Observation
  <2>3. ASSUME NEW s \in SplitsOf[report.seed]["test"]
        PROVE  Cardinality(of(s)) + (IF s \in report.failed THEN 1 ELSE 0) = 1
    <3>1. CASE s \in report.failed
      <4>1. of(s) = {}
        BY <3>1 DEF WholeInv, ReportInv, SamplesOf
      <4> QED
        BY <3>1, <4>1, FS_EmptySet
    <3>2. CASE s \notin report.failed
      <4>1. s \in SamplesOf(report.rows)
        BY <3>2 DEF WholeInv, ReportInv
      <4>2. of(s) = {Observation(s, by, seed)}
        BY <2>1, <4>1 DEF SamplesOf, MadeBy
      <4> QED
        BY <3>2, <4>2, FS_Singleton
    <3> QED
      BY <3>1, <3>2
  <2> QED
    BY <2>2, <2>3 DEF ReportIsWhole
<1> QED
  BY <1>1, WholeInit, WholeNext, PTL DEF Spec
-----------------------------------------------------------------------------
(* The analysis counts as this module does.                                 *)
LEMMA AnalysisCardinality ==
  ASSUME NEW S PROVE Analysis!Cardinality(S) = Cardinality(S)
BY DEF Analysis!Cardinality, Cardinality

LEMMA AnalysisAssumed ==
  /\ IsFiniteSet(Card) /\ MaxResults \in Nat
  /\ K \in Nat /\ H \in Nat \ {0} /\ ZScore \subseteq Int /\ MaxLength \in Nat
  /\ Unit \in Nat \ {0} /\ Resolution \in Nat \ {0}
BY AnalysisAssumption DEF Analysis!PromptAssumption, Analysis!CusumAssumption,
                          Analysis!IsFiniteSet, IsFiniteSet

(* The cards of a search are counted from 1 to some number.                 *)
LEMMA SearchIsAList ==
  ASSUME NEW score
  PROVE  \E n \in Nat : \E card : Analysis!Search(score) = [k \in 1..n |-> card[k]]
<1> DEFINE matching  == {c \in Card : score[c] > 0}
           better(c) == {d \in matching : \/ score[d] > score[c]
                                          \/ score[d] = score[c] /\ d < c}
           size      == Analysis!Cardinality(matching)
           n         == Analysis!Min({size, MaxResults, 3})
           best(k)   == CHOOSE c \in matching :
                          Analysis!Cardinality(better(c)) = k - 1
<1>1. Analysis!Search(score) = [k \in 1..n |-> best(k)]
  BY DEF Analysis!Search
<1>2. size \in Nat
  <2>1. IsFiniteSet(matching)
    BY AnalysisAssumed, FS_Subset
  <2> QED
    BY <2>1, FS_CardinalityType, AnalysisCardinality
<1> HIDE DEF size
<1>3. n \in Nat
  <2>1. \E x \in {size, MaxResults, 3} : \A y \in {size, MaxResults, 3} : x <= y
    BY <1>2, AnalysisAssumed
  <2>2. n \in {size, MaxResults, 3}
    BY <2>1 DEF Analysis!Min
  <2> QED
    BY <1>2, <2>2, AnalysisAssumed
<1> HIDE DEF n, best
<1> DEFINE card == [k \in 1..n |-> best(k)]
<1>4. [k \in 1..n |-> best(k)] = [k \in 1..n |-> card[k]]
  OBVIOUS
<1> QED
  BY <1>1, <1>3, <1>4

(* So a search that found something has something to cite.                  *)
LEMMA FoundIsCitable ==
  ASSUME NEW score, Analysis!Search(score) # <<>>
  PROVE  Analysis!ToSet(Analysis!Search(score)) # {}
<1>0. PICK n \in Nat : \E list : Analysis!Search(score) = [k \in 1..n |-> list[k]]
  BY SearchIsAList
<1>1. PICK card : Analysis!Search(score) = [k \in 1..n |-> card[k]]
  BY <1>0
<1>2. n # 0
  <2> SUFFICES ASSUME n = 0 PROVE FALSE
    OBVIOUS
  <2>1. 1..n = {}
    OBVIOUS
  <2>2. [k \in 1..n |-> card[k]] = <<>>
    BY <2>1
  <2> QED
    BY <1>1, <2>2
<1>3. 1 \in DOMAIN Analysis!Search(score)
  BY <1>1, <1>2
<1> QED
  BY <1>3 DEF Analysis!ToSet
-----------------------------------------------------------------------------
(* What analyze has filled in by the step it has reached.                   *)
Steps == {"received", "score", "fuse", "enhance", "audit", "recheck", "done", "failed"}
Decided == {"enhance", "audit", "recheck", "done"}

AnswerTyped ==
  /\ request \in Analysis!Requests /\ pc \in Steps
  /\ pc \notin {"received", "failed"} => semantic \in Analysis!Severity
  /\ result = [decision |-> result.decision, status |-> result.status,
               report |-> result.report, evidence |-> result.evidence,
               cited |-> result.cited, audited |-> result.audited]

(* The decision is the table's once it is taken, a report cites what it was *)
(* given, and the mark follows the event.                                   *)
DecisionIsFused ==
  pc \in Decided =>
    result.decision = Analysis!Fuse(request.mode, semantic, trace.alarms # {})

Cites(answer) ==
  /\ answer.cited \subseteq Analysis!ToSet(answer.evidence)
  /\ answer.report \in {"generated", "fallback"} <=> answer.cited # {}

MarkFollowsEvent ==
  /\ result.audited \in BOOLEAN
  /\ result.audited => pc = "done"
  /\ events = IF result.audited THEN {result.decision} ELSE {}

AnswerInv ==
  AnswerTyped /\ DecisionIsFused /\ Cites(result) /\ MarkFollowsEvent

(* The enhancements a request can get.                                      *)
IsEnhancement(e) ==
  /\ e = [status |-> e.status, evidence |-> e.evidence,
          report |-> e.report, cited |-> e.cited]
  /\ Cites(e)

LEMMA NoReportCites ==
  ASSUME NEW status, NEW why \in {"off", "unavailable"}, NEW evidence
  PROVE  IsEnhancement(Analysis!Enhancement(status, evidence, Analysis!NoReport(why)))
<1> DEFINE e == Analysis!Enhancement(status, evidence, Analysis!NoReport(why))
<1>1. e = [status |-> status, evidence |-> evidence, report |-> why, cited |-> {}]
  BY DEF Analysis!Enhancement, Analysis!NoReport
<1> QED
  BY <1>1 DEF IsEnhancement, Cites

(* A report cites some of the evidence, the model's or the deterministic    *)
(* one.                                                                     *)
LEMMA GeneratedCites ==
  ASSUME NEW status, NEW evidence, NEW raw, Analysis!ToSet(evidence) # {}
  PROVE  IsEnhancement(Analysis!Enhancement(status, evidence,
                                            Analysis!Generate(raw, evidence)))
<1> DEFINE g == Analysis!Generate(raw, evidence)
           e == Analysis!Enhancement(status, evidence, g)
<1>1. /\ g.report \in {"generated", "fallback"}
      /\ g.cited # {} /\ g.cited \subseteq Analysis!ToSet(evidence)
  BY DEF Analysis!Generate, Analysis!ParseGroundedReport
<1> HIDE DEF g
<1>2. e = [status |-> status, evidence |-> evidence,
           report |-> g.report, cited |-> g.cited]
  BY DEF Analysis!Enhancement
<1>3. IsEnhancement(e)
  BY <1>1, <1>2 DEF IsEnhancement, Cites
<1> QED
  BY <1>3 DEF g

LEMMA EnhancedCites ==
  ASSUME NEW mode, NEW score, NEW raw
  PROVE  IsEnhancement(Analysis!Enhanced(mode, Analysis!Search(score), raw))
<1> DEFINE evidence == Analysis!Search(score)
           written  == Analysis!Generate(raw, evidence)
           status   == IF written.report = "generated" THEN "ready" ELSE "degraded"
           why      == IF mode = "report" THEN "unavailable" ELSE "off"
           e        == Analysis!Enhanced(mode, evidence, raw)
<1>1. evidence # <<>> => Analysis!ToSet(evidence) # {}
  BY FoundIsCitable
<1> HIDE DEF evidence
<1>2. \/ e = Analysis!Enhancement("degraded", evidence, Analysis!NoReport(why))
      \/ e = Analysis!Enhancement("ready", evidence, Analysis!NoReport("off"))
      \/ evidence # <<>> /\ e = Analysis!Enhancement(status, evidence, written)
  BY DEF Analysis!Enhanced
<1>3. why \in {"off", "unavailable"}
  OBVIOUS
<1>4. IsEnhancement(e)
  <2> HIDE DEF status, why, written, e
  <2>1. CASE e = Analysis!Enhancement("degraded", evidence, Analysis!NoReport(why))
    BY <2>1, <1>3, NoReportCites
  <2>2. CASE e = Analysis!Enhancement("ready", evidence, Analysis!NoReport("off"))
    BY <2>2, NoReportCites
  <2>3. CASE evidence # <<>> /\ e = Analysis!Enhancement(status, evidence, written)
    BY <2>3, <1>1, GeneratedCites DEF written
  <2> QED
    BY <1>2, <2>1, <2>2, <2>3
<1> QED
  BY <1>4 DEF evidence

(* merge_knowledge_enhancement leaves the decision and the mark alone.      *)
LEMMA MergeKeepsDecision ==
  ASSUME AnswerTyped, NEW e, IsEnhancement(e), result' = Analysis!Merge(result, e)
  PROVE  result' = [decision |-> result.decision, status |-> e.status,
                    report |-> e.report, evidence |-> e.evidence,
                    cited |-> e.cited, audited |-> result.audited]
<1>1. /\ DOMAIN result =
           {"decision", "status", "report", "evidence", "cited", "audited"}
      /\ DOMAIN e = {"status", "report", "evidence", "cited"}
  BY DEF AnswerTyped, IsEnhancement
<1> QED
  BY <1>1 DEF Analysis!Merge

LEMMA EnhanceStep == AnswerInv /\ Analysis!Enhance => AnswerInv'
<1> SUFFICES ASSUME AnswerInv, Analysis!Enhance PROVE AnswerInv'
  OBVIOUS
<1>1. /\ pc = "enhance" /\ pc' \in {"audit", "recheck"}
      /\ UNCHANGED <<request, semantic, trace, events>>
  BY DEF Analysis!Enhance
<1>2. CASE result' = result
  BY <1>1, <1>2 DEF AnswerInv, AnswerTyped, Steps, Decided, DecisionIsFused, Cites,
                    MarkFollowsEvent, Analysis!ToSet
<1>3. ASSUME NEW e, IsEnhancement(e), result' = Analysis!Merge(result, e)
      PROVE  AnswerInv'
  <2>1. result' = [decision |-> result.decision, status |-> e.status,
                   report |-> e.report, evidence |-> e.evidence,
                   cited |-> e.cited, audited |-> result.audited]
    BY <1>3, MergeKeepsDecision DEF AnswerInv
  <2>2. AnswerTyped'
    BY <1>1, <2>1 DEF AnswerInv, AnswerTyped, Steps
  <2>3. DecisionIsFused'
    BY <1>1, <2>1 DEF AnswerInv, DecisionIsFused, Decided
  <2>4. Cites(result')
    BY <1>3, <2>1 DEF IsEnhancement, Cites
  <2>5. MarkFollowsEvent'
    BY <1>1, <2>1 DEF AnswerInv, MarkFollowsEvent
  <2> QED
    BY <2>2, <2>3, <2>4, <2>5 DEF AnswerInv, Cites
<1>4. IsEnhancement(Analysis!Unavailable)
  BY NoReportCites DEF Analysis!Unavailable
<1> QED
  BY <1>2, <1>3, <1>4, EnhancedCites DEF Analysis!Enhance

LEMMA AnswerInit == Analysis!Init => AnswerInv
  BY DEF Analysis!Init, Analysis!NoResult, AnswerInv, AnswerTyped, Steps, Decided,
         DecisionIsFused, Cites, MarkFollowsEvent, Analysis!ToSet

LEMMA AnswerNext == AnswerInv /\ [Analysis!Next]_(Analysis!vars) => AnswerInv'
<1> SUFFICES ASSUME AnswerInv, [Analysis!Next]_(Analysis!vars) PROVE AnswerInv'
  OBVIOUS
<1>1. ASSUME UNCHANGED <<request, result, events>>, pc' \in Steps \ Decided,
             pc' \notin {"received", "failed"} => semantic' \in Analysis!Severity,
             pc \notin Decided
      PROVE  AnswerInv'
  BY <1>1 DEF AnswerInv, AnswerTyped, DecisionIsFused, Cites, Decided,
              MarkFollowsEvent, Analysis!ToSet
<1>2. CASE Analysis!Assess
  <2>1. \A raw \in Analysis!GuardOutput :
          Analysis!ParseGuardOutput(raw) \in Analysis!Severity
    BY DEF Analysis!ParseGuardOutput, Analysis!GuardOutput, Analysis!Severity
  <2>2. pc' \in {"score", "failed"}
    BY <1>2 DEF Analysis!Assess
  <2>3. pc' = "score" => semantic' \in Analysis!Severity
    BY <1>2, <2>1 DEF Analysis!Assess, Analysis!Severity
  <2> QED
    BY <1>1, <1>2, <2>2, <2>3 DEF Analysis!Assess, Steps, Decided
<1>3. CASE Analysis!ScorePrompt
  BY <1>1, <1>3 DEF Analysis!ScorePrompt, AnswerInv, AnswerTyped, Steps, Decided
<1>4. CASE Analysis!Decide
  <2>1. /\ pc = "fuse" /\ pc' = "enhance"
        /\ UNCHANGED <<request, semantic, trace, events>>
    BY <1>4 DEF Analysis!Decide
  <2> DEFINE d == Analysis!Fuse(request.mode, semantic, trace.alarms # {})
  <2>2. result' = [result EXCEPT !.decision = d]
    BY <1>4 DEF Analysis!Decide
  <2> HIDE DEF d
  <2>3. result' = [decision |-> d, status |-> result.status,
                   report |-> result.report, evidence |-> result.evidence,
                   cited |-> result.cited, audited |-> result.audited]
    BY <2>2 DEF AnswerInv, AnswerTyped
  <2>4. AnswerTyped'
    BY <2>1, <2>3 DEF AnswerInv, AnswerTyped, Steps
  <2>5. DecisionIsFused'
    BY <2>1, <2>3 DEF d, DecisionIsFused
  <2>6. Cites(result)'
    BY <2>3 DEF AnswerInv, Cites, Analysis!ToSet
  <2>7. MarkFollowsEvent'
    BY <2>1, <2>3 DEF AnswerInv, MarkFollowsEvent
  <2> QED
    BY <2>4, <2>5, <2>6, <2>7 DEF AnswerInv
<1>5. CASE Analysis!Audit
  <2>1. /\ pc = "audit" /\ pc' = "done"
        /\ UNCHANGED <<request, semantic, trace>>
        /\ \/ /\ events' = events \cup {result.decision}
              /\ result' = [result EXCEPT !.audited = TRUE]
           \/ UNCHANGED <<events, result>>
    BY <1>5 DEF Analysis!Audit
  <2>2. ASSUME events' = events \cup {result.decision},
               result' = [result EXCEPT !.audited = TRUE]
        PROVE  AnswerInv'
    <3>1. result' = [decision |-> result.decision, status |-> result.status,
                     report |-> result.report, evidence |-> result.evidence,
                     cited |-> result.cited, audited |-> TRUE]
      BY <2>2 DEF AnswerInv, AnswerTyped
    <3>2. events = {}
      BY <2>1 DEF AnswerInv, MarkFollowsEvent
    <3>3. AnswerTyped'
      BY <2>1, <3>1 DEF AnswerInv, AnswerTyped, Steps
    <3>4. DecisionIsFused'
      BY <2>1, <3>1 DEF AnswerInv, DecisionIsFused, Decided
    <3>5. Cites(result)'
      BY <3>1 DEF AnswerInv, Cites, Analysis!ToSet
    <3>6. MarkFollowsEvent'
      BY <2>1, <2>2, <3>1, <3>2 DEF MarkFollowsEvent
    <3> QED
      BY <3>3, <3>4, <3>5, <3>6 DEF AnswerInv
  <2>3. ASSUME UNCHANGED <<events, result>> PROVE AnswerInv'
    BY <2>1, <2>3 DEF AnswerInv, AnswerTyped, Steps, Decided, DecisionIsFused, Cites,
                      MarkFollowsEvent, Analysis!ToSet
  <2> QED
    BY <2>1, <2>2, <2>3
<1>6. CASE Analysis!Recheck
  <2>1. /\ pc = "recheck" /\ pc' = "done"
        /\ UNCHANGED <<request, semantic, trace, result, events>>
    BY <1>6 DEF Analysis!Recheck
  <2> QED
    BY <2>1 DEF AnswerInv, AnswerTyped, Steps, Decided, DecisionIsFused, Cites,
                MarkFollowsEvent, Analysis!ToSet
<1>7. CASE Analysis!Done \/ UNCHANGED Analysis!vars
  BY <1>7 DEF Analysis!Done, Analysis!vars, AnswerInv, AnswerTyped, Decided,
              DecisionIsFused, Cites, MarkFollowsEvent, Analysis!ToSet
<1> QED
  BY <1>2, <1>3, <1>4, <1>5, <1>6, <1>7, EnhanceStep DEF Analysis!Next

(* An answer of the analysis, for every prompt, card index and failure on   *)
(* the way: allowed exactly if neither detector objects, explained by what  *)
(* was retrieved for it, marked as audited exactly if its event is stored.  *)
THEOREM AnswersAreGrounded == Analysis!Spec => []AnswerIsGrounded
<1>1. AnswerInv => AnswerIsGrounded
  <2> SUFFICES ASSUME AnswerInv, pc = "done" PROVE Analysis!AnswerIsGrounded
    BY DEF AnswerIsGrounded, Analysis!AnswerIsGrounded
  <2>1. /\ semantic \in Analysis!Severity
        /\ request.mode \in {"analysis", "gateway"}
    BY DEF AnswerInv, AnswerTyped, Analysis!Requests, Analysis!Request
  <2>2. result.decision = Analysis!Fuse(request.mode, semantic, trace.alarms # {})
    BY DEF AnswerInv, DecisionIsFused, Decided
  <2>3. result.decision = "allow" <=>
          /\ trace.alarms = {}
          /\ \/ semantic = "Safe"
             \/ semantic = "unavailable" /\ request.mode = "analysis"
    BY <2>1, <2>2 DEF Analysis!Fuse, Analysis!Severity
  <2> QED
    BY <2>3 DEF AnswerInv, Cites, MarkFollowsEvent, Analysis!AnswerIsGrounded
<1> QED
  BY <1>1, AnswerInit, AnswerNext, PTL DEF Analysis!Spec
-----------------------------------------------------------------------------
(* The sums of the detector are recursive functions over the tokens; what   *)
(* they are at a token is what they were before it and the token.  Least    *)
(* counterexamples stand for induction.                                     *)
LEMMA LeastNumber ==
  ASSUME NEW T \in SUBSET Nat, T # {}
  PROVE  \E x \in T : \A y \in T : x <= y
<1> DEFINE R == {ss \in Nat \X Nat : ss[1] < ss[2]}
<1>1. IsWellFoundedOn(OpToRel(<, Nat), Nat)
  BY NatLessThanWellFounded
<1>2. OpToRel(<, Nat) = R
  BY DEF OpToRel
<1>3. IsWellFoundedOn(R, Nat)
  BY <1>1, <1>2
<1> HIDE DEF R
<1>4. PICK x \in T : \A y \in T : ~(<<y, x>> \in R)
  BY <1>3, WFMin
<1>5. \A y \in T : y < x => <<y, x>> \in R
  BY DEF R
<1>6. \A y \in T : ~(y < x)
  BY <1>4, <1>5
<1> QED
  BY <1>6

LEMMA UpTo ==
  ASSUME NEW n \in Nat, NEW G, 0 \in G,
         \A i \in 1..n : i - 1 \in G => i \in G
  PROVE  0..n \subseteq G
<1> SUFFICES ASSUME (0..n) \ G # {} PROVE FALSE
  OBVIOUS
<1>1. (0..n) \ G \in SUBSET Nat
  OBVIOUS
<1>2. PICK x \in (0..n) \ G : \A y \in (0..n) \ G : x <= y
  BY <1>1, LeastNumber
<1>3. x \in 1..n /\ x - 1 \in 0..n
  BY <1>2
<1>4. x - 1 \in G
  BY <1>2, <1>3
<1> QED
  BY <1>2, <1>3, <1>4

(* A step taken from value to value, token by token.                        *)
Runs(g, n, V, v0, step) ==
  /\ g \in [0..n -> V] /\ g[0] = v0
  /\ \A i \in 1..n : g[i] = step[i][g[i - 1]]

LEMMA RecursionExists ==
  ASSUME NEW n \in Nat, NEW V, NEW v0 \in V, NEW step \in [1..n -> [V -> V]]
  PROVE  \E g : Runs(g, n, V, v0, step)
<1> DEFINE Fits(g, m) == Runs(g, m, V, v0, step)
           G == {m \in 0..n : \E g : Fits(g, m)}
<1>1. 0 \in G
  <2> DEFINE g == [i \in 0..0 |-> v0]
  <2>1. Fits(g, 0)
    BY DEF Runs
  <2> HIDE DEF g, Fits
  <2> QED
    BY <2>1
<1>2. ASSUME NEW m \in 1..n, m - 1 \in G PROVE m \in G
  <2>1. PICK g : Fits(g, m - 1)
    BY <1>2
  <2> DEFINE new == step[m][g[m - 1]]
             f   == [i \in 0..m |-> IF i = m THEN new ELSE g[i]]
  <2>2. g[m - 1] \in V
    BY <2>1 DEF Runs
  <2>3. new \in V
    BY <2>2
  <2> HIDE DEF new
  <2>4. f \in [0..m -> V] /\ f[0] = v0
    BY <2>1, <2>3 DEF Runs
  <2>5. ASSUME NEW i \in 1..m PROVE f[i] = step[i][f[i - 1]]
    <3>1. CASE i = m
      <4>1. f[i] = new /\ f[i - 1] = g[m - 1]
        BY <3>1
      <4> QED
        BY <3>1, <4>1 DEF new
    <3>2. CASE i # m
      <4>1. i \in 1..(m - 1) /\ f[i] = g[i] /\ f[i - 1] = g[i - 1]
        BY <3>2
      <4> QED
        BY <2>1, <4>1 DEF Runs
    <3> QED
      BY <3>1, <3>2
  <2>6. Fits(f, m)
    BY <2>4, <2>5 DEF Runs
  <2> HIDE DEF f, Fits
  <2> QED
    BY <2>6
<1> HIDE DEF G
<1>3. 0..n \subseteq G
  BY <1>1, <1>2, UpTo
<1>4. n \in G
  BY <1>3
<1> QED
  BY <1>4 DEF G

(* Max and Min are what they are called.                                    *)
LEMMA MaxIs ==
  ASSUME NEW S \in SUBSET Int, NEW x \in S, \A y \in S : y <= x
  PROVE  Analysis!Max(S) = x
<1> DEFINE max == Analysis!Max(S)
<1>1. max \in S /\ \A y \in S : max >= y
  BY DEF Analysis!Max
<1> HIDE DEF max
<1>2. max = x
  BY <1>1
<1> QED
  BY <1>2 DEF max

LEMMA MinIs ==
  ASSUME NEW S \in SUBSET Nat, S # {}
  PROVE  Analysis!Min(S) \in S /\ \A y \in S : Analysis!Min(S) <= y
<1>1. \E x \in S : \A y \in S : x <= y
  BY LeastNumber
<1> QED
  BY <1>1 DEF Analysis!Min

LEMMA StepIs ==
  ASSUME NEW before \in Int, NEW z \in Int
  PROVE  Analysis!Step(before, z) = IF before + z - K > 0 THEN before + z - K ELSE 0
<1> DEFINE v == before + z - K
<1>1. v \in Int
  BY AnalysisAssumed
<1> HIDE DEF v
<1>2. Analysis!Max({0, v}) = IF v > 0 THEN v ELSE 0
  <2>1. CASE v > 0
    <3>1. v \in {0, v} /\ {0, v} \in SUBSET Int /\ \A y \in {0, v} : y <= v
      BY <1>1, <2>1
    <3> QED
      BY <2>1, <3>1, MaxIs
  <2>2. CASE ~(v > 0)
    <3>1. 0 \in {0, v} /\ {0, v} \in SUBSET Int /\ \A y \in {0, v} : y <= 0
      BY <1>1, <2>2
    <3> QED
      BY <2>2, <3>1, MaxIs
  <2> QED
    BY <2>1, <2>2
<1> QED
  BY <1>2 DEF v, Analysis!Step

LEMMA SequenceIs ==
  ASSUME NEW n \in Nat, NEW S, NEW z \in [1..n -> S]
  PROVE  Len(z) = n /\ z \in Seq(S)
OBVIOUS

(* cumulative_value without resets: it starts at zero and takes a step with *)
(* every token.                                                             *)
LEMMA KeptIs ==
  ASSUME NEW n \in Nat, NEW z \in [1..n -> Int], NEW h
  PROVE  /\ Analysis!Kept(z, h, FALSE) \in [0..n -> Nat]
         /\ Analysis!Kept(z, h, FALSE)[0] = 0
         /\ \A i \in 1..n : Analysis!Kept(z, h, FALSE)[i] =
                              Analysis!Step(Analysis!Kept(z, h, FALSE)[i - 1], z[i])
<1> DEFINE step == [i \in 1..n |-> [a \in Nat |-> Analysis!Step(a, z[i])]]
           Is(g) == g = [i \in 0..Len(z) |->
                           IF i = 0 THEN 0
                           ELSE LET value == Analysis!Step(g[i - 1], z[i])
                                IN  IF FALSE /\ Analysis!AlarmsAt(value, h) THEN 0
                                    ELSE value]
           Is2(g) == g = [i \in 0..n |->
                            IF i = 0 THEN 0 ELSE Analysis!Step(g[i - 1], z[i])]
           kept == Analysis!Kept(z, h, FALSE)
<1>1. Len(z) = n
  BY SequenceIs
<1>2. \A g : Is(g) <=> Is2(g)
  BY <1>1
<1>3. step \in [1..n -> [Nat -> Nat]]
  <2> SUFFICES ASSUME NEW a \in Nat, NEW i \in 1..n PROVE Analysis!Step(a, z[i]) \in Nat
    OBVIOUS
  <2>1. a \in Int /\ z[i] \in Int /\ a + z[i] - K \in Int
    BY AnalysisAssumed
  <2> QED
    BY <2>1, StepIs
<1>4. \A a \in Nat, i \in 1..n : step[i][a] = Analysis!Step(a, z[i])
  OBVIOUS
<1> HIDE DEF step
<1>5. PICK g \in [0..n -> Nat] : g[0] = 0 /\ \A i \in 1..n : g[i] = step[i][g[i - 1]]
  <2>1. \E g : Runs(g, n, Nat, 0, step)
    BY <1>3, RecursionExists
  <2> QED
    BY <2>1 DEF Runs
<1>6. \A i \in 1..n : g[i] = Analysis!Step(g[i - 1], z[i])
  <2> TAKE i \in 1..n
  <2>1. i - 1 \in 0..n
    OBVIOUS
  <2> QED
    BY <1>4, <1>5, <2>1
<1>7. Is2(g)
  BY <1>5, <1>6
<1>8. kept = CHOOSE f : Is(f)
  BY DEF Analysis!Kept
<1>9. Is2(kept)
  <2> HIDE DEF Is, Is2, kept
  <2> QED
    BY <1>2, <1>7, <1>8
<1> HIDE DEF Is, kept
<1>10. /\ DOMAIN kept = 0..n /\ kept[0] = 0
       /\ \A i \in 1..n : kept[i] = Analysis!Step(kept[i - 1], z[i])
  BY <1>9
<1>11. kept = [i \in 0..n |-> kept[i]]
  BY <1>9
<1> HIDE DEF Is2
<1> DEFINE G == {i \in 0..n : kept[i] \in Nat}
<1>12. 0 \in G
  BY <1>10
<1>13. ASSUME NEW i \in 1..n, i - 1 \in G PROVE i \in G
  <2>1. kept[i - 1] \in Nat /\ z[i] \in Int /\ kept[i] = Analysis!Step(kept[i - 1], z[i])
    BY <1>10, <1>13
  <2>2. kept[i - 1] + z[i] - K \in Int
    BY <2>1, AnalysisAssumed
  <2>3. kept[i] \in Nat
    BY <2>1, <2>2, StepIs
  <2> QED
    BY <2>3
<1> HIDE DEF G
<1>14. 0..n \subseteq G
  BY <1>12, <1>13, UpTo
<1>15. kept \in [0..n -> Nat]
  BY <1>11, <1>14 DEF G
<1> QED
  BY <1>10, <1>15 DEF kept

(* The sums of the tokens themselves.                                       *)
LEMMA TotalsIs ==
  ASSUME NEW n \in Nat, NEW z \in [1..n -> Int]
  PROVE  /\ Analysis!Totals(z) \in [0..n -> Int]
         /\ \A i \in 1..n : Analysis!Totals(z)[i] = Analysis!Totals(z)[i - 1] + z[i]
<1> DEFINE step  == [i \in 1..n |-> [a \in Int |-> a + z[i]]]
           Is(g) == g = [i \in 0..Len(z) |-> IF i = 0 THEN 0 ELSE g[i - 1] + z[i]]
           Is2(g) == g = [i \in 0..n |-> IF i = 0 THEN 0 ELSE g[i - 1] + z[i]]
           total == Analysis!Totals(z)
<1>1. Len(z) = n
  BY SequenceIs
<1>2. \A g : Is(g) <=> Is2(g)
  BY <1>1
<1>3. step \in [1..n -> [Int -> Int]]
  OBVIOUS
<1>4. \A a \in Int, i \in 1..n : step[i][a] = a + z[i]
  OBVIOUS
<1> HIDE DEF step
<1>5. PICK g \in [0..n -> Int] : g[0] = 0 /\ \A i \in 1..n : g[i] = step[i][g[i - 1]]
  <2> DEFINE V == Int
  <2>1. 0 \in V /\ step \in [1..n -> [V -> V]]
    BY <1>3
  <2> HIDE DEF V
  <2>2. \E g : Runs(g, n, V, 0, step)
    BY <2>1, RecursionExists
  <2> QED
    BY <2>2 DEF Runs, V
<1>6. \A i \in 1..n : g[i] = g[i - 1] + z[i]
  <2> TAKE i \in 1..n
  <2>1. i - 1 \in 0..n
    OBVIOUS
  <2> QED
    BY <1>4, <1>5, <2>1
<1>7. Is2(g)
  BY <1>5, <1>6
<1>8. total = CHOOSE f : Is(f)
  BY DEF Analysis!Totals
<1>9. Is2(total)
  <2> HIDE DEF Is, Is2, total
  <2> QED
    BY <1>2, <1>7, <1>8
<1> HIDE DEF Is, total
<1>10. /\ DOMAIN total = 0..n /\ total[0] = 0
       /\ \A i \in 1..n : total[i] = total[i - 1] + z[i]
  BY <1>9
<1>11. total = [i \in 0..n |-> total[i]]
  BY <1>9
<1> HIDE DEF Is2
<1> DEFINE G == {i \in 0..n : total[i] \in Int}
<1>12. 0 \in G
  BY <1>10
<1>13. ASSUME NEW i \in 1..n, i - 1 \in G PROVE i \in G
  BY <1>10, <1>13
<1> HIDE DEF G
<1>14. 0..n \subseteq G
  BY <1>12, <1>13, UpTo
<1>15. total \in [0..n -> Int]
  BY <1>11, <1>14 DEF G
<1> QED
  BY <1>10, <1>15 DEF total
-----------------------------------------------------------------------------
(* How far the tokens up to one of them are above the drift: what a run of  *)
(* tokens is above it is the difference of two such levels.                 *)
LevelOf(level, n, z) ==
  /\ level \in [0..n -> Int]
  /\ \A i \in 1..n : level[i] = level[i - 1] + z[i] - K
  /\ \A j \in 1..n : \A i \in j..n :
       Analysis!Excess(z, j, i) = level[i] - level[j - 1]

LEMMA DriftSplits ==
  ASSUME NEW a \in Int, NEW b \in Int
  PROVE  /\ K * (a - b + 1) = K * a - K * (b - 1)
         /\ K * a \in Int /\ K * (b - 1) \in Int
BY AnalysisAssumed

LEMMA DriftGrows ==
  ASSUME NEW a \in Int
  PROVE  K * a = K * (a - 1) + K /\ K * a \in Int /\ K * (a - 1) \in Int
BY AnalysisAssumed

LEMMA LevelExists ==
  ASSUME NEW n \in Nat, NEW z \in [1..n -> Int]
  PROVE  \E level : LevelOf(level, n, z)
<1> DEFINE total == Analysis!Totals(z)
           level == [i \in 0..n |-> total[i] - K * i]
<1>1. total \in [0..n -> Int] /\ \A i \in 1..n : total[i] = total[i - 1] + z[i]
  BY TotalsIs
<1>2. \A j \in 1..n : \A i \in j..n :
        Analysis!Excess(z, j, i) = total[i] - total[j - 1] - K * (i - j + 1)
  BY DEF Analysis!Excess
<1> HIDE DEF total
<1>3. level \in [0..n -> Int]
  <2> SUFFICES ASSUME NEW i \in 0..n PROVE total[i] - K * i \in Int
    OBVIOUS
  <2> QED
    BY <1>1, AnalysisAssumed
<1>4. \A i \in 0..n : level[i] = total[i] - K * i
  OBVIOUS
<1> HIDE DEF level
<1>5. ASSUME NEW i \in 1..n PROVE level[i] = level[i - 1] + z[i] - K
  <2>1. level[i] = total[i] - K * i /\ level[i - 1] = total[i - 1] - K * (i - 1)
    <3>1. i \in 0..n /\ i - 1 \in 0..n
      OBVIOUS
    <3> QED
      BY <1>4, <3>1
  <2> DEFINE p == K * i
             q == K * (i - 1)
  <2>2. p = q + K /\ p \in Int /\ q \in Int
    <3>1. i \in Int
      OBVIOUS
    <3> QED
      BY <3>1, DriftGrows, Zenon
  <2>3. level[i] = total[i] - p /\ level[i - 1] = total[i - 1] - q
    BY <2>1
  <2>4. total[i] \in Int /\ total[i - 1] \in Int /\ z[i] \in Int /\ K \in Int
        /\ total[i] = total[i - 1] + z[i]
    BY <1>1, AnalysisAssumed
  <2> HIDE DEF p, q
  <2> QED
    BY <2>2, <2>3, <2>4
<1>6. ASSUME NEW j \in 1..n, NEW i \in j..n
      PROVE  Analysis!Excess(z, j, i) = level[i] - level[j - 1]
  <2> DEFINE p == K * i
             q == K * (j - 1)
             r == K * (i - j + 1)
  <2>1. r = p - q /\ p \in Int /\ q \in Int
    <3>1. i \in Int /\ j \in Int
      OBVIOUS
    <3> QED
      BY <3>1, DriftSplits, Zenon
  <2>2. level[i] = total[i] - p /\ level[j - 1] = total[j - 1] - q
    <3>1. i \in 0..n /\ j - 1 \in 0..n
      OBVIOUS
    <3> QED
      BY <1>4, <3>1
  <2>3. Analysis!Excess(z, j, i) = total[i] - total[j - 1] - r
    BY <1>2
  <2>4. total[i] \in Int /\ total[j - 1] \in Int
    BY <1>1
  <2> HIDE DEF p, q, r
  <2> QED
    BY <2>1, <2>2, <2>3, <2>4
<1> QED
  BY <1>3, <1>5, <1>6 DEF LevelOf

(* The sum kept after a token is the one before it and what the token adds  *)
(* to the level, but not less than zero.                                    *)
Follows(kept, level, n) ==
  /\ kept \in [0..n -> Nat] /\ kept[0] = 0
  /\ \A i \in 1..n :
       kept[i] = IF kept[i - 1] + level[i] - level[i - 1] > 0
                   THEN kept[i - 1] + level[i] - level[i - 1] ELSE 0

LEMMA KeptFollows ==
  ASSUME NEW n \in Nat, NEW z \in [1..n -> Int], NEW level, LevelOf(level, n, z)
  PROVE  Follows(Analysis!Kept(z, H, FALSE), level, n)
<1> DEFINE kept == Analysis!Kept(z, H, FALSE)
<1>1. /\ kept \in [0..n -> Nat] /\ kept[0] = 0
      /\ \A i \in 1..n : kept[i] = Analysis!Step(kept[i - 1], z[i])
  BY KeptIs
<1> HIDE DEF kept
<1>2. ASSUME NEW i \in 1..n
      PROVE  kept[i] = IF kept[i - 1] + level[i] - level[i - 1] > 0
                         THEN kept[i - 1] + level[i] - level[i - 1] ELSE 0
  <2>1. kept[i - 1] \in Nat /\ z[i] \in Int /\ K \in Nat
    BY <1>1, AnalysisAssumed
  <2>2. /\ level[i] \in Int /\ level[i - 1] \in Int
        /\ level[i] = level[i - 1] + z[i] - K
    BY DEF LevelOf
  <2>3. kept[i] = IF kept[i - 1] + z[i] - K > 0 THEN kept[i - 1] + z[i] - K ELSE 0
    BY <1>1, <2>1, StepIs
  <2>4. kept[i - 1] + z[i] - K = kept[i - 1] + level[i] - level[i - 1]
    BY <2>1, <2>2
  <2> QED
    BY <2>3, <2>4
<1>3. Follows(kept, level, n)
  BY <1>1, <1>2 DEF Follows
<1> QED
  BY <1>3 DEF kept

(* No rise of the level that ends at a token exceeds what is kept there.    *)
LEMMA KeptBoundsRises ==
  ASSUME NEW n \in Nat, NEW level \in [0..n -> Int], NEW kept, Follows(kept, level, n),
         NEW i \in 1..n, NEW j \in 1..i
  PROVE  level[i] - level[j - 1] <= kept[i]
<1> DEFINE Bounded(m) == \A k \in 1..m : level[m] - level[k - 1] <= kept[m]
           G == {m \in 0..n : Bounded(m)}
<1>1. 0 \in G
  OBVIOUS
<1>2. ASSUME NEW m \in 1..n, m - 1 \in G PROVE m \in G
  <2>1. /\ kept[m - 1] \in Nat /\ level[m] \in Int /\ level[m - 1] \in Int
        /\ kept[m] = IF kept[m - 1] + level[m] - level[m - 1] > 0
                       THEN kept[m - 1] + level[m] - level[m - 1] ELSE 0
    BY DEF Follows
  <2>2. Bounded(m - 1)
    BY <1>2
  <2> SUFFICES ASSUME NEW k \in 1..m PROVE level[m] - level[k - 1] <= kept[m]
    OBVIOUS
  <2>3. level[k - 1] \in Int
    OBVIOUS
  <2>4. k # m => level[m - 1] - level[k - 1] <= kept[m - 1]
    BY <2>2
  <2> QED
    BY <2>1, <2>3, <2>4
<1> HIDE DEF G
<1>3. 0..n \subseteq G
  BY <1>1, <1>2, UpTo
<1>4. i \in G
  BY <1>3
<1> QED
  BY <1>4 DEF G

(* What is kept is the rise since the sum last left zero.                   *)
Left(kept, level, s, m) ==
  /\ s \in 1..m /\ kept[s - 1] = 0
  /\ \A k \in s..m : kept[k] > 0
  /\ kept[m] = level[m] - level[s - 1]

LEMMA KeptIsARise ==
  ASSUME NEW n \in Nat, NEW level \in [0..n -> Int], NEW kept, Follows(kept, level, n),
         NEW i \in 1..n, kept[i] > 0
  PROVE  \E s : Left(kept, level, s, i)
<1> DEFINE G == {m \in 0..n : kept[m] > 0 => \E s : Left(kept, level, s, m)}
<1>1. 0 \in G
  <2>1. ~(kept[0] > 0)
    BY DEF Follows
  <2> QED
    BY <2>1
<1>2. ASSUME NEW m \in 1..n, m - 1 \in G PROVE m \in G
  <2> SUFFICES ASSUME kept[m] > 0 PROVE \E s : Left(kept, level, s, m)
    OBVIOUS
  <2>1. /\ kept[m - 1] \in Nat /\ level[m] \in Int /\ level[m - 1] \in Int
        /\ kept[m] = kept[m - 1] + level[m] - level[m - 1]
    BY DEF Follows
  <2>2. CASE kept[m - 1] = 0
    <3>1. Left(kept, level, m, m)
      BY <2>1, <2>2 DEF Left
    <3> QED
      BY <3>1
  <2>3. CASE kept[m - 1] > 0
    <3>1. PICK s : Left(kept, level, s, m - 1)
      BY <1>2, <2>3
    <3>2. s \in 1..m /\ kept[s - 1] = 0
      BY <3>1 DEF Left
    <3>3. kept[m - 1] = level[m - 1] - level[s - 1] /\ level[s - 1] \in Int
      BY <3>1, <3>2 DEF Left
    <3>4. kept[m] = level[m] - level[s - 1]
      BY <2>1, <3>3
    <3>5. ASSUME NEW k \in s..m PROVE kept[k] > 0
      <4>1. CASE k = m
        BY <4>1
      <4>2. CASE k # m
        <5>1. k \in s..(m - 1)
          BY <3>2, <4>2
        <5> QED
          BY <3>1, <5>1 DEF Left
      <4> QED
        BY <4>1, <4>2
    <3>6. Left(kept, level, s, m)
      BY <3>2, <3>4, <3>5 DEF Left
    <3> QED
      BY <3>6
  <2> QED
    BY <2>1, <2>2, <2>3
<1> HIDE DEF G
<1>3. 0..n \subseteq G
  BY <1>1, <1>2, UpTo
<1>4. i \in G
  BY <1>3
<1> QED
  BY <1>4 DEF G
-----------------------------------------------------------------------------
(* No run of tokens that ends at a token exceeds the sum kept there.        *)
LEMMA KeptBoundsExcess ==
  ASSUME NEW n \in Nat, NEW z \in [1..n -> Int], NEW i \in 1..n, NEW j \in 1..i
  PROVE  /\ Analysis!Excess(z, j, i) \in Int
         /\ Analysis!Excess(z, j, i) <= Analysis!Kept(z, H, FALSE)[i]
<1> DEFINE kept == Analysis!Kept(z, H, FALSE)
<1>1. PICK level : LevelOf(level, n, z)
  BY LevelExists
<1>2. Follows(kept, level, n)
  BY <1>1, KeptFollows
<1> HIDE DEF kept
<1>3. level \in [0..n -> Int]
  BY <1>1 DEF LevelOf
<1>4. level[i] - level[j - 1] <= kept[i]
  BY <1>2, <1>3, KeptBoundsRises
<1>5. Analysis!Excess(z, j, i) = level[i] - level[j - 1]
  <2>1. j \in 1..n /\ i \in j..n
    OBVIOUS
  <2> QED
    BY <1>1, <2>1 DEF LevelOf
<1>6. level[i] \in Int /\ level[j - 1] \in Int
  BY <1>3
<1>7. kept[i] \in Nat
  BY <1>2 DEF Follows
<1>8. Analysis!Excess(z, j, i) \in Int /\ Analysis!Excess(z, j, i) <= kept[i]
  BY <1>4, <1>5, <1>6, <1>7
<1> QED
  BY <1>8 DEF kept

(* Without resets the sums are those that are kept.                         *)
LEMMA SumsAreKept ==
  ASSUME NEW n \in Nat, NEW z \in [1..n -> Int]
  PROVE  \A i \in 1..n :
           /\ Analysis!Sums(z, H, FALSE)[i] = Analysis!Kept(z, H, FALSE)[i]
           /\ Analysis!Kept(z, H, FALSE)[i] \in Nat
<1> DEFINE kept == Analysis!Kept(z, H, FALSE)
           sums == Analysis!Sums(z, H, FALSE)
<1>1. Len(z) = n
  BY SequenceIs
<1>2. /\ kept \in [0..n -> Nat]
      /\ \A i \in 1..n : kept[i] = Analysis!Step(kept[i - 1], z[i])
  BY KeptIs
<1>3. sums = [i \in 1..n |-> Analysis!Step(kept[i - 1], z[i])]
  BY <1>1 DEF Analysis!Sums
<1> HIDE DEF kept, sums
<1>4. \A i \in 1..n : sums[i] = kept[i] /\ kept[i] \in Nat
  BY <1>2, <1>3
<1> QED
  BY <1>4 DEF kept, sums

(* segment_start is where the run begins that exceeds the drift by what is  *)
(* kept.                                                                    *)
LEMMA SegmentExceeds ==
  ASSUME NEW n \in Nat, NEW z \in [1..n -> Int], NEW i \in 1..n,
         Analysis!Kept(z, H, FALSE)[i] > 0
  PROVE  /\ Analysis!SegmentStart(z, H, FALSE, i) \in 1..i
         /\ Analysis!Excess(z, Analysis!SegmentStart(z, H, FALSE, i), i) =
              Analysis!Kept(z, H, FALSE)[i]
<1> DEFINE kept == Analysis!Kept(z, H, FALSE)
           sums == Analysis!Sums(z, H, FALSE)
           start == Analysis!SegmentStart(z, H, FALSE, i)
           starts == {j \in 1..i : kept[j - 1] = 0 /\ sums[j] > 0}
<1>1. PICK level : LevelOf(level, n, z)
  BY LevelExists
<1>2. Follows(kept, level, n)
  BY <1>1, KeptFollows
<1>3. \A j \in 1..n : sums[j] = kept[j] /\ kept[j] \in Nat
  BY SumsAreKept
<1>4. kept[i] > 0
  OBVIOUS
<1>5. start = Analysis!Max(starts)
  BY DEF Analysis!SegmentStart
<1> HIDE DEF kept, sums, start
<1>6. level \in [0..n -> Int]
  BY <1>1 DEF LevelOf
<1>7. PICK s : Left(kept, level, s, i)
  BY <1>2, <1>4, <1>6, KeptIsARise
<1>8. s \in 1..i /\ kept[s - 1] = 0 /\ kept[s] > 0
  BY <1>7 DEF Left
<1>9. s \in starts
  BY <1>3, <1>8
<1>10. ASSUME NEW j \in starts PROVE j <= s
  <2> SUFFICES ASSUME j > s PROVE FALSE
    BY <1>8
  <2>1. j - 1 \in s..i
    BY <1>8
  <2>2. kept[j - 1] > 0
    BY <1>7, <2>1 DEF Left
  <2> QED
    BY <2>2
<1>11. start = s
  <2>1. starts \in SUBSET Int
    OBVIOUS
  <2> HIDE DEF starts
  <2> QED
    BY <1>5, <1>9, <1>10, <2>1, MaxIs
<1>12. Analysis!Excess(z, s, i) = level[i] - level[s - 1]
  <2>1. s \in 1..n /\ i \in s..n
    BY <1>8
  <2> QED
    BY <1>1, <2>1 DEF LevelOf
<1>13. kept[i] = level[i] - level[s - 1]
  BY <1>7 DEF Left
<1>14. start \in 1..i /\ Analysis!Excess(z, start, i) = kept[i]
  BY <1>8, <1>11, <1>12, <1>13
<1> QED
  BY <1>14 DEF kept, start
-----------------------------------------------------------------------------
LEMMA GreatestKept ==
  ASSUME NEW n \in Nat, NEW kept \in [0..n -> Nat]
  PROVE  \E m \in 0..n : \A i \in 0..n : kept[i] <= kept[m]
<1> DEFINE G == {k \in 0..n : \E m \in 0..k : \A i \in 0..k : kept[i] <= kept[m]}
<1>1. 0 \in G
  OBVIOUS
<1>2. ASSUME NEW k \in 1..n, k - 1 \in G PROVE k \in G
  <2>1. PICK m \in 0..(k - 1) : \A i \in 0..(k - 1) : kept[i] <= kept[m]
    BY <1>2
  <2>2. CASE kept[k] <= kept[m]
    <3>1. m \in 0..k /\ \A i \in 0..k : kept[i] <= kept[m]
      BY <2>1, <2>2
    <3> QED
      BY <3>1
  <2>3. CASE ~(kept[k] <= kept[m])
    <3>1. k \in 0..k
      OBVIOUS
    <3>2. ASSUME NEW i \in 0..k PROVE kept[i] <= kept[k]
      <4>1. CASE i = k
        BY <4>1
      <4>2. CASE i # k
        <5>1. i \in 0..(k - 1)
          BY <4>2
        <5>2. kept[i] <= kept[m]
          BY <2>1, <5>1
        <5> QED
          BY <2>3, <5>2
      <4> QED
        BY <4>1, <4>2
    <3> QED
      BY <3>1, <3>2
  <2> QED
    BY <2>2, <2>3
<1> HIDE DEF G
<1>3. 0..n \subseteq G
  BY <1>1, <1>2, UpTo
<1>4. n \in G
  BY <1>3
<1> QED
  BY <1>4 DEF G

(* What run_cpd returns, in terms of the sum kept after each token.         *)
LEMMA RunCpdIs ==
  ASSUME NEW n \in Nat, NEW z \in [1..n -> Int]
  PROVE  LET cpd  == Analysis!RunCpd(z, H, FALSE)
             kept == Analysis!Kept(z, H, FALSE)
         IN  /\ \E m \in 0..n : /\ cpd.score = kept[m]
                                /\ \A i \in 0..n : kept[i] <= kept[m]
             /\ cpd.alarms = {i \in 1..n : kept[i] >= H}
             /\ cpd.alarms = {} => cpd.alarm = 0 /\ cpd.onset = 0
             /\ cpd.alarms # {} =>
                  /\ cpd.alarm = Analysis!Min(cpd.alarms)
                  /\ cpd.alarm \in cpd.alarms /\ \A i \in cpd.alarms : cpd.alarm <= i
                  /\ cpd.onset = Analysis!SegmentStart(z, H, FALSE, cpd.alarm)
<1> DEFINE cpd    == Analysis!RunCpd(z, H, FALSE)
           kept   == Analysis!Kept(z, H, FALSE)
           sums   == Analysis!Sums(z, H, FALSE)
           first  == Analysis!Min({i \in 1..n : kept[i] >= H})
           start(i) == Analysis!SegmentStart(z, H, FALSE, i)
           values == {0} \cup {sums[i] : i \in 1..n}
           alarms == {i \in 1..n : sums[i] >= H}
<1>1. Len(z) = n
  BY SequenceIs
<1>2. cpd = [score  |-> Analysis!Max(values),
             alarms |-> alarms,
             alarm  |-> IF alarms = {} THEN 0 ELSE Analysis!Min(alarms),
             onset  |-> IF alarms = {} THEN 0 ELSE start(Analysis!Min(alarms))]
  BY <1>1 DEF Analysis!RunCpd, Analysis!AlarmsAt
<1>3. kept \in [0..n -> Nat] /\ kept[0] = 0
  BY KeptIs
<1>4. \A i \in 1..n : sums[i] = kept[i]
  BY SumsAreKept
<1> HIDE DEF kept, sums, cpd
<1>5. alarms = {i \in 1..n : kept[i] >= H}
  BY <1>4
<1>6. PICK m \in 0..n : \A i \in 0..n : kept[i] <= kept[m]
  BY <1>3, GreatestKept
<1>7. Analysis!Max(values) = kept[m]
  <2>1. kept[m] \in values
    <3>1. CASE m = 0
      BY <1>3, <3>1
    <3>2. CASE m # 0
      <4>1. m \in 1..n
        BY <3>2
      <4> QED
        BY <1>4, <4>1
    <3> QED
      BY <3>1, <3>2
  <2>2. ASSUME NEW y \in values PROVE y \in Nat /\ y <= kept[m]
    <3>1. CASE y = 0
      BY <1>3, <3>1
    <3>2. ASSUME NEW i \in 1..n, y = sums[i] PROVE y \in Nat /\ y <= kept[m]
      <4>1. y = kept[i] /\ i \in 0..n
        BY <1>4, <3>2
      <4> QED
        BY <1>3, <1>6, <4>1
    <3> QED
      BY <3>1, <3>2
  <2> HIDE DEF values
  <2>3. values \in SUBSET Int
    BY <2>2
  <2> QED
    BY <2>1, <2>2, <2>3, MaxIs
<1>8. cpd.score = kept[m]
  BY <1>2, <1>7
<1>9. alarms \in SUBSET Nat
  OBVIOUS
<1> HIDE DEF alarms, start
<1>10. alarms # {} => /\ Analysis!Min(alarms) \in alarms
                      /\ \A i \in alarms : Analysis!Min(alarms) <= i
  BY <1>9, MinIs
<1>11. /\ cpd.alarms = alarms
       /\ alarms = {} => cpd.alarm = 0 /\ cpd.onset = 0
       /\ alarms # {} => cpd.alarm = Analysis!Min(alarms) /\ cpd.onset = start(cpd.alarm)
  BY <1>2
<1>12. /\ \E k \in 0..n : cpd.score = kept[k] /\ \A i \in 0..n : kept[i] <= kept[k]
       /\ cpd.alarms = {i \in 1..n : kept[i] >= H}
       /\ cpd.alarms = {} => cpd.alarm = 0 /\ cpd.onset = 0
       /\ cpd.alarms # {} =>
            /\ cpd.alarm = Analysis!Min(cpd.alarms)
            /\ cpd.alarm \in cpd.alarms /\ \A i \in cpd.alarms : cpd.alarm <= i
            /\ cpd.onset = start(cpd.alarm)
  BY <1>5, <1>6, <1>8, <1>10, <1>11
<1> QED
  BY <1>12 DEF cpd, kept, start

(* The tokens of a prompt that are observed: all but a straddling first one.*)
Hidden(p) == IF p.straddles THEN 1 ELSE 0

IsPrompt(p) ==
  /\ p = [z |-> p.z, straddles |-> p.straddles, blanks |-> p.blanks]
  /\ p.z \in Seq(Int) /\ Len(p.z) >= 1
  /\ p.straddles \in BOOLEAN /\ p.blanks \in Nat

LEMMA UserTokensAre ==
  ASSUME NEW p, IsPrompt(p)
  PROVE  /\ Len(p.z) - Hidden(p) \in Nat
         /\ Analysis!UserTokens(p) =
              [i \in 1..(Len(p.z) - Hidden(p)) |->
                 [start |-> i + Hidden(p), end |-> i + Hidden(p) + 1,
                  z |-> p.z[i + Hidden(p)]]]
<1> DEFINE all     == Analysis!Tokens(p)
           n       == Len(p.z)
           outside == {i \in DOMAIN all : ~Analysis!InSpan(all[i], 1, n + 1)}
           h       == Hidden(p)
<1>1. n \in Nat /\ n >= 1 /\ p.straddles \in BOOLEAN
  BY DEF IsPrompt
<1>2. all = [i \in 1..n |-> [start |-> IF i = 1 /\ p.straddles THEN 0 ELSE i,
                             end |-> i + 1, z |-> p.z[i]]]
  BY DEF Analysis!Tokens
<1> HIDE DEF all, n
<1>3. \A i \in 1..n : Analysis!InSpan(all[i], 1, n + 1) <=> ~(i = 1 /\ p.straddles)
  BY <1>1, <1>2 DEF Analysis!InSpan
<1>4. outside = IF p.straddles THEN {1} ELSE {}
  BY <1>1, <1>2, <1>3
<1>5. Analysis!Cardinality(outside) = h
  <2> HIDE DEF outside
  <2> QED
    BY <1>1, <1>4, FS_EmptySet, FS_Singleton, AnalysisCardinality DEF Hidden
<1>6. h \in {0, 1} /\ h \in Nat /\ n - h \in Nat /\ (p.straddles => h = 1)
  BY <1>1 DEF Hidden
<1>7. Len(all) = n
  BY <1>1, <1>2
<1>8. Analysis!UserTokens(p) = [i \in 1..(n - h) |-> all[i + h]]
  BY <1>5, <1>7 DEF Analysis!UserTokens, n, all
<1> HIDE DEF h
<1>9. ASSUME NEW i \in 1..(n - h)
      PROVE  all[i + h] = [start |-> i + h, end |-> i + h + 1, z |-> p.z[i + h]]
  BY <1>1, <1>2, <1>6
<1>10. /\ n - h \in Nat
       /\ Analysis!UserTokens(p) =
            [i \in 1..(n - h) |->
               [start |-> i + h, end |-> i + h + 1, z |-> p.z[i + h]]]
  BY <1>6, <1>8, <1>9
<1> QED
  BY <1>10 DEF n, h

(* Their z-scores, which the detector gets.                                 *)
ObservedScores(p) == [i \in 1..(Len(p.z) - Hidden(p)) |-> p.z[i + Hidden(p)]]

LEMMA UserScoresAre ==
  ASSUME NEW p, IsPrompt(p)
  PROVE  /\ ObservedScores(p) \in [1..(Len(p.z) - Hidden(p)) -> Int]
         /\ Analysis!UserScores(p) = ObservedScores(p)
         /\ Analysis!Detect(p) = Analysis!RunCpd(ObservedScores(p), H, FALSE)
<1> DEFINE user == Analysis!UserTokens(p)
           n    == Len(p.z)
           h    == Hidden(p)
           m    == n - h
<1>1. n \in Nat /\ p.z \in [1..n -> Int] /\ h \in {0, 1}
  BY DEF IsPrompt, Hidden
<1>2. /\ m \in Nat
      /\ user = [i \in 1..m |->
                   [start |-> i + h, end |-> i + h + 1, z |-> p.z[i + h]]]
  BY UserTokensAre
<1> HIDE DEF user, n, h
<1>3. \A i \in 1..m : i + h \in 1..n
  BY <1>1, <1>2
<1>4. ObservedScores(p) = [i \in 1..m |-> p.z[i + h]]
  BY DEF ObservedScores, n, h
<1>5. ObservedScores(p) \in [1..m -> Int]
  BY <1>1, <1>3, <1>4
<1> HIDE DEF m
<1>6. Len(user) = m
  BY <1>2
<1>7. [i \in 1..Len(user) |-> user[i].z] = ObservedScores(p)
  BY <1>2, <1>4, <1>6
<1>8. Analysis!UserScores(p) = ObservedScores(p)
  BY <1>7 DEF Analysis!UserScores, user
<1> QED
  BY <1>5, <1>8 DEF Analysis!Detect, m, n, h

(* The prompts a request can have.                                          *)
LEMMA RequestedIsPrompt ==
  ASSUME request \in Analysis!Requests PROVE IsPrompt(request.prompt)
<1>1. request.prompt \in Analysis!Prompt
  BY DEF Analysis!Requests, Analysis!Request
<1> DEFINE z == request.prompt.z
<1>2. /\ z \in Analysis!BoundedSeq(ZScore, MaxLength) /\ z # <<>>
      /\ request.prompt.straddles \in BOOLEAN /\ request.prompt.blanks \in 0..1
      /\ request.prompt = [z |-> z, straddles |-> request.prompt.straddles,
                           blanks |-> request.prompt.blanks]
  BY <1>1 DEF Analysis!Prompt
<1> HIDE DEF z
<1>3. PICK n \in 0..MaxLength : z \in [1..n -> ZScore]
  BY <1>2 DEF Analysis!BoundedSeq, Analysis!SeqOf
<1>4. n \in Nat /\ ZScore \subseteq Int
  BY AnalysisAssumed
<1>5. z \in [1..n -> Int]
  BY <1>3, <1>4
<1>6. Len(z) = n /\ z \in Seq(Int)
  BY <1>4, <1>5, SequenceIs
<1>7. n # 0
  BY <1>2, <1>6, EmptySeq
<1> QED
  BY <1>2, <1>4, <1>6, <1>7 DEF IsPrompt, z

(* Page's identity, for every sequence of scores.                           *)
LEMMA IdentityHolds ==
  ASSUME NEW n \in Nat, NEW z \in [1..n -> Int]
  PROVE  Analysis!PagesIdentity(z)
<1> DEFINE cpd     == Analysis!RunCpd(z, H, FALSE)
           kept    == Analysis!Kept(z, H, FALSE)
           ex(j, i) == Analysis!Excess(z, j, i)
           start(i) == Analysis!SegmentStart(z, H, FALSE, i)
           reached == {i \in 1..n : \E j \in 1..i : ex(j, i) >= H}
           runs    == {v \in (1..n) \X (1..n) : v[1] <= v[2]}
           values  == {0} \cup {ex(w[1], w[2]) : w \in runs}
<1>1. kept \in [0..n -> Nat] /\ kept[0] = 0
  BY KeptIs
<1>2. \A i \in 1..n : \A j \in 1..i : ex(j, i) \in Int /\ ex(j, i) <= kept[i]
  BY KeptBoundsExcess
<1>3. \A i \in 1..n : kept[i] > 0 => start(i) \in 1..i /\ ex(start(i), i) = kept[i]
  BY SegmentExceeds
<1>4. /\ \E m \in 0..n : cpd.score = kept[m] /\ \A i \in 0..n : kept[i] <= kept[m]
      /\ cpd.alarms = {i \in 1..n : kept[i] >= H}
      /\ cpd.alarms = {} => cpd.alarm = 0 /\ cpd.onset = 0
      /\ cpd.alarms # {} =>
           /\ cpd.alarm = Analysis!Min(cpd.alarms)
           /\ cpd.alarm \in cpd.alarms /\ \A i \in cpd.alarms : cpd.alarm <= i
           /\ cpd.onset = start(cpd.alarm)
  BY RunCpdIs
<1> HIDE DEF cpd, kept, ex, start
<1>5. H \in Nat /\ H > 0
  BY AnalysisAssumed
<1>6. PICK m \in 0..n : cpd.score = kept[m] /\ \A i \in 0..n : kept[i] <= kept[m]
  BY <1>4
<1>7. cpd.alarms = reached
  <2>1. ASSUME NEW i \in 1..n PROVE kept[i] >= H <=> \E j \in 1..i : ex(j, i) >= H
    <3>1. kept[i] \in Nat
      BY <1>1
    <3>2. ASSUME kept[i] >= H PROVE \E j \in 1..i : ex(j, i) >= H
      <4>1. start(i) \in 1..i /\ ex(start(i), i) = kept[i]
        BY <1>3, <1>5, <3>1, <3>2
      <4> QED
        BY <3>2, <4>1
    <3>3. ASSUME NEW j \in 1..i, ex(j, i) >= H PROVE kept[i] >= H
      BY <1>2, <1>5, <3>1, <3>3
    <3> QED
      BY <3>2, <3>3
  <2> QED
    BY <1>4, <2>1
<1>8. Analysis!Max(values) = kept[m]
  <2>1. kept[m] \in values
    <3>1. CASE kept[m] = 0
      BY <3>1
    <3>2. CASE kept[m] # 0
      <4>1. m \in 1..n /\ kept[m] > 0
        BY <1>1, <3>2
      <4>2. start(m) \in 1..m /\ ex(start(m), m) = kept[m]
        BY <1>3, <4>1
      <4> DEFINE w == <<start(m), m>>
      <4>3. w \in runs /\ w[1] = start(m) /\ w[2] = m
        BY <4>1, <4>2
      <4> HIDE DEF w, runs
      <4>4. ex(w[1], w[2]) = kept[m]
        BY <4>2, <4>3
      <4> QED
        BY <4>3, <4>4
    <3> QED
      BY <3>1, <3>2
  <2>2. ASSUME NEW y \in values PROVE y \in Int /\ y <= kept[m]
    <3>1. CASE y = 0
      BY <1>1, <3>1
    <3>2. ASSUME NEW w \in runs, y = ex(w[1], w[2]) PROVE y \in Int /\ y <= kept[m]
      <4>1. w[2] \in 1..n /\ w[1] \in 1..w[2] /\ w[2] \in 0..n
        OBVIOUS
      <4>2. y \in Int /\ y <= kept[w[2]]
        BY <1>2, <3>2, <4>1
      <4>3. kept[w[2]] <= kept[m] /\ kept[w[2]] \in Nat /\ kept[m] \in Nat
        BY <1>1, <1>6, <4>1
      <4> QED
        BY <4>2, <4>3
    <3> QED
      BY <3>1, <3>2
  <2> HIDE DEF values
  <2>3. values \in SUBSET Int
    BY <2>2
  <2> QED
    BY <2>1, <2>2, <2>3, MaxIs
<1>9. cpd.score >= H <=> cpd.alarms # {}
  <2>1. ASSUME cpd.score >= H PROVE m \in cpd.alarms
    <3>1. m # 0
      BY <1>1, <1>5, <1>6, <2>1
    <3> QED
      BY <1>4, <1>6, <2>1, <3>1
  <2>2. ASSUME NEW i \in cpd.alarms PROVE cpd.score >= H
    <3>1. i \in 0..n /\ kept[i] >= H
      BY <1>4
    <3>2. kept[i] <= kept[m] /\ kept[i] \in Nat /\ kept[m] \in Nat
      BY <1>1, <1>6, <3>1
    <3> QED
      BY <1>5, <1>6, <3>1, <3>2
  <2> QED
    BY <2>1, <2>2
<1>10. cpd.alarms # {} => cpd.alarm \in 1..n
  BY <1>4
<1>11. (cpd.score >= H) = (cpd.alarm # 0)
  BY <1>4, <1>9, <1>10
<1>12. ASSUME cpd.alarm # 0
       PROVE  cpd.alarm = Analysis!Min(reached) /\ ex(cpd.onset, cpd.alarm) >= H
  <2>1. cpd.alarms # {} /\ cpd.alarm \in 1..n /\ kept[cpd.alarm] >= H
    BY <1>4, <1>12
  <2>2. kept[cpd.alarm] > 0
    BY <1>1, <1>5, <2>1
  <2>3. cpd.onset = start(cpd.alarm)
    BY <1>4, <2>1
  <2>4. ex(cpd.onset, cpd.alarm) = kept[cpd.alarm]
    BY <1>3, <2>1, <2>2, <2>3
  <2> QED
    BY <1>4, <1>7, <2>1, <2>4
<1>13. /\ cpd.score = Analysis!Max(values)
       /\ cpd.alarms = reached
       /\ (cpd.score >= H) = (cpd.alarm # 0)
       /\ cpd.alarm # 0 => cpd.alarm = Analysis!Min(reached)
                             /\ ex(cpd.onset, cpd.alarm) >= H
  <2> HIDE DEF values, reached
  <2> QED
    BY <1>6, <1>7, <1>8, <1>11, <1>12
<1> QED
  BY <1>13, SequenceIs DEF cpd, ex, Analysis!PagesIdentity

(* What run_cpd computes token by token is the definition of the detector:  *)
(* the score is the largest excess over the drift of any run of tokens, the *)
(* alarms are where one reaches the threshold, and the tokens from the      *)
(* reported onset to the alarm reach it themselves; for every allowance,    *)
(* threshold, length and score.                                             *)
THEOREM ScoreIsMaximalExcess == Analysis!Spec => []CusumIsMaximalExcess
<1>1. AnswerInv => CusumIsMaximalExcess
  <2> SUFFICES ASSUME AnswerInv PROVE Analysis!CusumIsMaximalExcess
    BY DEF CusumIsMaximalExcess
  <2> DEFINE p == request.prompt
             z == ObservedScores(p)
             n == Len(p.z) - Hidden(p)
  <2>1. IsPrompt(p)
    BY RequestedIsPrompt DEF AnswerInv, AnswerTyped
  <2>2. z \in [1..n -> Int] /\ n \in Nat /\ Analysis!UserScores(p) = z
    BY <2>1, UserScoresAre, UserTokensAre
  <2> HIDE DEF z, n
  <2> QED
    BY <2>2, IdentityHolds DEF Analysis!CusumIsMaximalExcess
<1> QED
  BY <1>1, AnswerInit, AnswerNext, PTL DEF Analysis!Spec
-----------------------------------------------------------------------------
(* The detector as the analysis runs it: it does not reset.                 *)
RunOn(z) == Analysis!RunCpd(z, H, FALSE)
KeptOn(z) == Analysis!Kept(z, H, FALSE)
StartOn(z, i) == Analysis!SegmentStart(z, H, FALSE, i)

IsKept(n, z) ==
  /\ KeptOn(z) \in [0..n -> Nat] /\ KeptOn(z)[0] = 0
  /\ \A i \in 1..n : KeptOn(z)[i] = Analysis!Step(KeptOn(z)[i - 1], z[i])
  /\ \A i \in 1..n : KeptOn(z)[i] > 0 => StartOn(z, i) \in 1..i

IsRun(n, z) ==
  /\ \E m \in 0..n : /\ RunOn(z).score = KeptOn(z)[m]
                     /\ \A i \in 0..n : KeptOn(z)[i] <= KeptOn(z)[m]
  /\ RunOn(z).alarms = {i \in 1..n : KeptOn(z)[i] >= H}
  /\ RunOn(z).alarms = {} => RunOn(z).onset = 0
  /\ RunOn(z).alarms # {} => /\ RunOn(z).alarm \in RunOn(z).alarms
                             /\ \A i \in RunOn(z).alarms : RunOn(z).alarm <= i
                             /\ RunOn(z).onset = StartOn(z, RunOn(z).alarm)

LEMMA RunIs ==
  ASSUME NEW n \in Nat, NEW z \in [1..n -> Int]
  PROVE  IsKept(n, z) /\ IsRun(n, z)
<1>1. IsKept(n, z)
  BY KeptIs, SegmentExceeds DEF KeptOn, StartOn, IsKept
<1>2. IsRun(n, z)
  BY RunCpdIs DEF RunOn, KeptOn, StartOn, IsRun
<1> QED
  BY <1>1, <1>2

(* Scores that agree up to a token are summed alike up to there.            *)
LEMMA PrefixKeepsAlike ==
  ASSUME NEW n \in Nat, NEW z \in [1..n -> Int],
         NEW m \in 0..n, NEW y \in [1..m -> Int], \A i \in 1..m : y[i] = z[i]
  PROVE  \A i \in 0..m : KeptOn(y)[i] = KeptOn(z)[i]
<1> DEFINE a == KeptOn(y)
           b == KeptOn(z)
<1>1. /\ a[0] = 0 /\ b[0] = 0
      /\ \A i \in 1..m : a[i] = Analysis!Step(a[i - 1], y[i])
      /\ \A i \in 1..n : b[i] = Analysis!Step(b[i - 1], z[i])
  <2>1. m \in Nat
    OBVIOUS
  <2>2. IsKept(m, y) /\ IsKept(n, z)
    BY <2>1, RunIs
  <2> QED
    BY <2>2 DEF IsKept
<1> HIDE DEF a, b
<1> DEFINE G == {i \in 0..m : a[i] = b[i]}
<1>2. 0 \in G
  BY <1>1
<1>3. ASSUME NEW i \in 1..m, i - 1 \in G PROVE i \in G
  <2>1. a[i - 1] = b[i - 1] /\ y[i] = z[i] /\ i \in 1..n
    BY <1>3
  <2> QED
    BY <1>1, <2>1
<1> HIDE DEF G
<1>4. m \in Nat
  OBVIOUS
<1>5. 0..m \subseteq G
  BY <1>2, <1>3, <1>4, UpTo
<1>6. \A i \in 0..m : a[i] = b[i]
  BY <1>5 DEF G
<1> QED
  BY <1>6 DEF a, b

(* The characters before the one at which a token starts are the tokens     *)
(* before it.                                                               *)
LEMMA PrefixIsEarlierTokens ==
  ASSUME NEW p, IsPrompt(p), NEW s \in 1..(Len(p.z) - Hidden(p)),
         NEW length, length = s + Hidden(p) - 1, length >= 1
  PROVE  LET prefix == Analysis!Prefix(p, length)
         IN  /\ IsPrompt(prefix) /\ Len(prefix.z) - Hidden(prefix) = s - 1
             /\ \A i \in 1..(s - 1) : ObservedScores(prefix)[i] = ObservedScores(p)[i]
<1> DEFINE prefix == Analysis!Prefix(p, length)
           n == Len(p.z)
           h == Hidden(p)
<1>1. /\ n \in Nat /\ h \in {0, 1} /\ p.z \in Seq(Int) /\ p.straddles \in BOOLEAN
      /\ p.blanks \in Nat
  BY DEF IsPrompt, Hidden
<1>2. length \in 1..n
  <2> HIDE DEF n, h
  <2>1. s \in 1..(n - h) /\ length = s + h - 1
    BY DEF n, h
  <2> QED
    BY <1>1, <2>1
<1>3. prefix = [z |-> SubSeq(p.z, 1, length), straddles |-> p.straddles,
                blanks |-> p.blanks]
  <2>1. p = [z |-> p.z, straddles |-> p.straddles, blanks |-> p.blanks]
    BY DEF IsPrompt
  <2> DEFINE cut == SubSeq(p.z, 1, length)
  <2>2. prefix = [p EXCEPT !.z = cut]
    BY DEF Analysis!Prefix
  <2> HIDE DEF cut, prefix
  <2>3. prefix = [z |-> cut, straddles |-> p.straddles, blanks |-> p.blanks]
    BY <2>1, <2>2
  <2> QED
    BY <2>3 DEF cut
<1> DEFINE y == SubSeq(p.z, 1, length)
<1>4. y \in Seq(Int) /\ Len(y) = length /\ \A i \in 1..length : y[i] = p.z[i]
  BY <1>1, <1>2
<1> HIDE DEF y, prefix
<1>5. prefix.z = y /\ prefix.straddles = p.straddles /\ prefix.blanks = p.blanks
  BY <1>3 DEF y
<1>6. IsPrompt(prefix)
  BY <1>1, <1>2, <1>3, <1>4, <1>5 DEF IsPrompt, y
<1>7. Hidden(prefix) = h
  BY <1>5 DEF Hidden
<1> HIDE DEF n, h
<1>8. s \in 1..(n - h) /\ length = s + h - 1
  BY DEF n, h
<1>9. length - h = s - 1
  BY <1>1, <1>8
<1>10. /\ ObservedScores(prefix) = [i \in 1..(length - h) |-> y[i + h]]
       /\ ObservedScores(p) = [i \in 1..(n - h) |-> p.z[i + h]]
  BY <1>4, <1>5, <1>7 DEF ObservedScores, n, h
<1>11. ASSUME NEW i \in 1..(s - 1)
       PROVE  ObservedScores(prefix)[i] = ObservedScores(p)[i]
  <2>1. i \in 1..(length - h) /\ i \in 1..(n - h) /\ i + h \in 1..length
    BY <1>1, <1>8, <1>9
  <2> QED
    BY <1>4, <1>10, <2>1
<1> QED
  BY <1>4, <1>5, <1>6, <1>7, <1>9, <1>11 DEF prefix

(* A first alarm has no other before it, nor before its onset.              *)
LEMMA FirstAlarmIs ==
  ASSUME NEW n \in Nat, NEW z \in [1..n -> Int],
         NEW cpd, cpd = RunOn(z), cpd.onset # 0
  PROVE  /\ cpd.onset \in 1..n /\ cpd.score \in Nat /\ cpd.score >= H
         /\ \A i \in 0..(cpd.onset - 1) : KeptOn(z)[i] < H
<1> DEFINE kept == KeptOn(z)
           a    == cpd.alarm
           s    == cpd.onset
           start == StartOn(z, a)
<1>1. /\ \E m \in 0..n : cpd.score = kept[m] /\ \A i \in 0..n : kept[i] <= kept[m]
      /\ cpd.alarms = {i \in 1..n : kept[i] >= H}
      /\ cpd.alarms = {} => s = 0
      /\ cpd.alarms # {} => /\ a \in cpd.alarms /\ \A i \in cpd.alarms : a <= i
                            /\ s = start
  BY RunIs DEF IsRun
<1>2. H \in Nat /\ H > 0
  BY AnalysisAssumed
<1>3. kept \in [0..n -> Nat] /\ kept[0] = 0
  BY RunIs DEF IsKept
<1>4. \A i \in 1..n : kept[i] > 0 => StartOn(z, i) \in 1..i
  BY RunIs DEF IsKept
<1>5. s # 0
  OBVIOUS
<1> HIDE DEF kept, s
<1>6. cpd.alarms # {} /\ a \in cpd.alarms /\ s = start
  BY <1>1, <1>5
<1>7. a \in 1..n /\ kept[a] >= H /\ \A i \in 1..n : kept[i] >= H => a <= i
  BY <1>1, <1>6
<1> HIDE DEF a
<1>8. kept[a] > 0 /\ kept[a] \in Nat
  BY <1>2, <1>3, <1>7
<1>9. s \in 1..a
  BY <1>4, <1>6, <1>7, <1>8
<1>10. ASSUME NEW i \in 0..(s - 1) PROVE kept[i] < H
  <2>1. i \in 0..n /\ i < a /\ kept[i] \in Nat
    BY <1>3, <1>7, <1>9
  <2>2. i # 0 => ~(kept[i] >= H)
    BY <1>7, <2>1
  <2> QED
    BY <1>2, <1>3, <2>1, <2>2
<1>11. cpd.score \in Nat /\ cpd.score >= H
  <2>1. PICK m \in 0..n : cpd.score = kept[m] /\ \A i \in 0..n : kept[i] <= kept[m]
    BY <1>1
  <2>2. kept[a] <= kept[m] /\ kept[m] \in Nat
    BY <1>3, <1>7, <2>1
  <2> QED
    BY <1>2, <1>7, <1>8, <2>1, <2>2
<1>12. s \in 1..n
  BY <1>7, <1>9
<1> QED
  BY <1>10, <1>11, <1>12 DEF kept, s

(* So the scores before the onset raise none of their own, and without one  *)
(* the score is below the threshold.                                        *)
LEMMA QuietBeforeOnset ==
  ASSUME NEW n \in Nat, NEW z \in [1..n -> Int],
         NEW cpd, cpd = RunOn(z), cpd.onset # 0,
         NEW m \in 0..n, m = cpd.onset - 1,
         NEW y \in [1..m -> Int], \A i \in 1..m : y[i] = z[i]
  PROVE  /\ RunOn(y).alarms = {}
         /\ RunOn(y).score \in Nat /\ RunOn(y).score < H
<1> DEFINE again == RunOn(y)
           kept  == KeptOn(z)
           less  == KeptOn(y)
<1>1. /\ cpd.score \in Nat /\ cpd.score >= H
      /\ \A i \in 0..m : kept[i] < H
  BY FirstAlarmIs
<1>2. \A i \in 0..m : less[i] = kept[i]
  BY PrefixKeepsAlike
<1>3. m \in Nat /\ H \in Nat
  BY AnalysisAssumed
<1>4. IsKept(m, y) /\ IsRun(m, y)
  BY <1>3, RunIs
<1>5. /\ \E k \in 0..m : again.score = less[k]
      /\ again.alarms = {i \in 1..m : less[i] >= H}
      /\ less \in [0..m -> Nat]
  BY <1>4 DEF IsKept, IsRun
<1> HIDE DEF again, kept, less
<1>6. \A i \in 0..m : less[i] < H /\ less[i] \in Nat
  BY <1>1, <1>2, <1>5
<1>7. again.alarms = {}
  <2>1. ASSUME NEW i \in 1..m PROVE ~(less[i] >= H)
    <3>1. i \in 0..m
      BY <1>3
    <3> QED
      BY <1>3, <1>6, <3>1
  <2> QED
    BY <1>5, <2>1
<1>8. again.score \in Nat /\ again.score < H
  <2>1. PICK k \in 0..m : again.score = less[k]
    BY <1>5
  <2>2. less[k] < H /\ less[k] \in Nat
    BY <1>6
  <2> QED
    BY <1>1, <1>3, <2>1, <2>2
<1> QED
  BY <1>7, <1>8 DEF again

(* The counterfactual's prompt is quiet.                                    *)
LEMMA PrefixesAreQuiet ==
  ASSUME NEW p, IsPrompt(p), NEW cpd, cpd = Analysis!Detect(p), cpd.onset # 0,
         NEW length, length = Analysis!CharStart(p, cpd), length >= 1
  PROVE  /\ Analysis!Detect(Analysis!Prefix(p, length)).alarms = {}
         /\ Analysis!Detect(Analysis!Prefix(p, length)).score \in Nat
         /\ Analysis!Detect(Analysis!Prefix(p, length)).score < H
<1> DEFINE n      == Len(p.z) - Hidden(p)
           z      == ObservedScores(p)
           m      == cpd.onset - 1
           prefix == Analysis!Prefix(p, length)
           y      == ObservedScores(prefix)
<1>1. n \in Nat /\ z \in [1..n -> Int] /\ cpd = RunOn(z)
  BY UserTokensAre, UserScoresAre DEF RunOn
<1> HIDE DEF z
<1>2. cpd.onset \in 1..n
  BY <1>1, FirstAlarmIs
<1>3. length = cpd.onset + Hidden(p) - 1
  <2> DEFINE user == Analysis!UserTokens(p)
             s    == cpd.onset
  <2>1. user = [i \in 1..n |-> [start |-> i + Hidden(p), end |-> i + Hidden(p) + 1,
                                z |-> p.z[i + Hidden(p)]]]
    BY UserTokensAre
  <2>2. length = user[s].start - 1 /\ s \in 1..n
    BY <1>2 DEF Analysis!CharStart
  <2> HIDE DEF user, s, n
  <2>3. user[s].start = s + Hidden(p)
    BY <2>1, <2>2
  <2>4. Hidden(p) \in Nat /\ s \in Int
    BY <1>1, <2>2 DEF Hidden, n
  <2> DEFINE h == Hidden(p)
  <2> HIDE DEF h
  <2>5. length = s + h - 1
    BY <2>2, <2>3, <2>4 DEF h
  <2> QED
    BY <2>5 DEF s, h
<1>4. /\ IsPrompt(prefix) /\ Len(prefix.z) - Hidden(prefix) = m
      /\ \A i \in 1..m : y[i] = z[i]
  BY <1>2, <1>3, PrefixIsEarlierTokens DEF z
<1> HIDE DEF n, prefix
<1>5. y \in [1..m -> Int] /\ Analysis!Detect(prefix) = RunOn(y)
  BY <1>4, UserScoresAre DEF RunOn
<1>6. m \in 0..n
  BY <1>1, <1>2
<1> HIDE DEF y
<1>7. /\ RunOn(y).alarms = {}
      /\ RunOn(y).score \in Nat /\ RunOn(y).score < H
  <2>1. m = cpd.onset - 1
    OBVIOUS
  <2>2. y \in [1..m -> Int] /\ \A i \in 1..m : y[i] = z[i]
    BY <1>4, <1>5
  <2> HIDE DEF m
  <2> QED
    BY <1>1, <1>6, <2>1, <2>2, QuietBeforeOnset, ZenonT(60)
<1>8. /\ Analysis!Detect(prefix).alarms = {}
      /\ Analysis!Detect(prefix).score \in Nat /\ Analysis!Detect(prefix).score < H
  <2> DEFINE again == RunOn(y)
  <2>1. again.alarms = {} /\ again.score \in Nat /\ again.score < H
    BY <1>7
  <2>2. Analysis!Detect(prefix) = again
    BY <1>5
  <2> HIDE DEF again
  <2> QED
    BY <2>1, <2>2
<1> QED
  BY <1>8, Zenon DEF prefix

(* Scores of a prefix that is tokenised otherwise are numbers too.          *)
LEMMA RescoredAreNumbers == Analysis!Rescored \subseteq Nat
<1> SUFFICES ASSUME NEW z \in Analysis!BoundedSeq(ZScore, MaxLength)
             PROVE  RunOn(z).score \in Nat
  BY DEF Analysis!Rescored, RunOn
<1>1. PICK n \in 0..MaxLength : z \in [1..n -> ZScore]
  BY DEF Analysis!BoundedSeq, Analysis!SeqOf
<1>2. n \in Nat /\ z \in [1..n -> Int]
  <2>1. MaxLength \in Nat /\ ZScore \subseteq Int
    BY AnalysisAssumed
  <2>2. n \in Nat
    BY <2>1
  <2> QED
    BY <1>1, <2>1, <2>2
<1>3. IsKept(n, z) /\ IsRun(n, z)
  BY <1>2, RunIs
<1> QED
  BY <1>3 DEF IsKept, IsRun

(* What a completed counterfactual says of an alarm's score and another.    *)
LEMMA SmallerIs ==
  ASSUME NEW a \in Int, NEW b \in Int
  PROVE  Analysis!Min({a, b}) = IF a <= b THEN a ELSE b
<1> DEFINE least == IF a <= b THEN a ELSE b
           S     == {a, b}
<1>1. least \in S /\ \A y \in S : least <= y
  OBVIOUS
<1>2. \A x \in S : (\A y \in S : x <= y) => x = least
  OBVIOUS
<1> HIDE DEF least
<1>3. Analysis!Min(S) = CHOOSE x \in S : \A y \in S : x <= y
  BY DEF Analysis!Min
<1> HIDE DEF S
<1>4. Analysis!Min(S) = least
  BY <1>1, <1>2, <1>3
<1> QED
  BY <1>4 DEF S, least

LEMMA DifferenceSign ==
  ASSUME NEW d \in Int, NEW k \in Nat \ {0}, NEW u \in Nat, d * k > u
  PROVE  d > 0
OBVIOUS

LEMMA ComparedSays ==
  ASSUME NEW original, original.score \in Nat, original.score >= H,
         NEW score \in Nat, NEW same \in BOOLEAN,
         NEW q, q = Analysis!Compared(original, score, same)
  PROVE  /\ q.reason = "completed" /\ q.score = score /\ q.same = same
         /\ q.interpretation = "risk_reduced" => score < original.score
         /\ q.interpretation = "unchanged" => (H - score) * Resolution <= H
<1> DEFINE o     == original.score
           low   == IF H <= score THEN H ELSE score
           large == (o - score) * Resolution > Unit
           risky == (H - low) * Resolution > H
<1>1. o \in Nat /\ o >= H /\ H \in Nat \ {0} /\ Unit \in Nat /\ Resolution \in Nat \ {0}
  BY AnalysisAssumed
<1>2. Analysis!Min({o, H}) = H
  BY <1>1, SmallerIs
<1>3. Analysis!Min({score, H}) = low
  BY <1>1, SmallerIs
<1>4. q = [reason |-> "completed",
           interpretation |-> IF large \/ risky THEN "risk_reduced" ELSE "unchanged",
           score |-> score, same |-> same]
  BY <1>2, <1>3 DEF Analysis!Compared
<1>5. large => score < o
  <2> DEFINE d == o - score
  <2>1. d \in Int
    BY <1>1
  <2> HIDE DEF d
  <2>2. d * Resolution > Unit => d > 0
    BY <1>1, <2>1, DifferenceSign
  <2> QED
    BY <1>1, <2>2 DEF d
<1>6. risky => score < o
  <2> DEFINE d == H - low
  <2>1. d \in Int
    BY <1>1
  <2>2. d > 0 => score < o
    BY <1>1
  <2> HIDE DEF d
  <2>3. d * Resolution > H => d > 0
    BY <1>1, <2>1, DifferenceSign
  <2> QED
    BY <2>2, <2>3 DEF d
<1>7. ~risky => (H - score) * Resolution <= H
  <2>1. CASE low = score
    <3> DEFINE d == (H - score) * Resolution
    <3>1. d \in Int /\ (risky <=> d > H)
      BY <1>1, <2>1
    <3> HIDE DEF d, risky
    <3> QED
      BY <1>1, <3>1 DEF d
  <2>2. CASE H <= score
    <3> DEFINE d == H - score
    <3>1. d \in Int /\ ~(d > 0)
      BY <1>1, <2>2
    <3> HIDE DEF d
    <3>2. d * Resolution \in Int /\ ~(d * Resolution > H)
      BY <1>1, <3>1, DifferenceSign
    <3> QED
      BY <1>1, <3>2 DEF d
  <2> QED
    BY <1>1, <2>1, <2>2
<1> HIDE DEF large, risky
<1> QED
  BY <1>4, <1>5, <1>6, <1>7

(* The trace is of the prompt, and a completed counterfactual of both.      *)
RecheckInv ==
  /\ request \in Analysis!Requests
  /\ pc \in {"fuse", "enhance", "audit", "recheck", "done"} =>
       trace = Analysis!Detect(request.prompt)
  /\ recheck.reason = "completed" =>
       /\ pc = "done"
       /\ recheck \in Analysis!Counterfactuals(request.prompt, trace)

LEMMA RecheckInit == Analysis!Init => RecheckInv
  BY DEF Analysis!Init, Analysis!NoRecheck, RecheckInv

LEMMA RecheckNext == RecheckInv /\ [Analysis!Next]_(Analysis!vars) => RecheckInv'
<1> SUFFICES ASSUME RecheckInv, [Analysis!Next]_(Analysis!vars) PROVE RecheckInv'
  OBVIOUS
<1> USE DEF RecheckInv
<1>1. CASE Analysis!Assess
  BY <1>1 DEF Analysis!Assess
<1>2. CASE Analysis!ScorePrompt
  BY <1>2 DEF Analysis!ScorePrompt
<1>3. CASE Analysis!Decide
  BY <1>3 DEF Analysis!Decide
<1>4. CASE Analysis!Enhance
  <2>1. /\ pc = "enhance" /\ pc' \in {"audit", "recheck"}
        /\ UNCHANGED <<request, trace, recheck>>
    BY <1>4 DEF Analysis!Enhance
  <2> QED
    BY <2>1
<1>5. CASE Analysis!Audit
  BY <1>5 DEF Analysis!Audit
<1>6. CASE Analysis!Recheck
  <2>1. /\ pc = "recheck" /\ pc' = "done" /\ UNCHANGED <<request, trace>>
        /\ recheck' \in Analysis!Counterfactuals(request.prompt, trace)
    BY <1>6 DEF Analysis!Recheck
  <2>2. Analysis!Counterfactuals(request.prompt, trace) =
          Analysis!Counterfactuals(request'.prompt, trace')
    BY <2>1
  <2> QED
    BY <2>1, <2>2
<1>7. CASE Analysis!Done \/ UNCHANGED Analysis!vars
  BY <1>7 DEF Analysis!Done, Analysis!vars
<1> QED
  BY <1>1, <1>2, <1>3, <1>4, <1>5, <1>6, <1>7 DEF Analysis!Next

(* A counterfactual that CounterfactualRunner completes is of a prompt with *)
(* an alarm, and says unchanged only of a part before the onset that is an  *)
(* alarm by itself, up to the resolution: one that is tokenised as it was   *)
(* is none.  For every prompt, every tokenisation of its prefix, and every  *)
(* drift, threshold, unit and resolution.                                   *)
THEOREM PrefixesRaiseNoAlarm == Analysis!Spec => []PrefixIsQuiet
<1>1. RecheckInv => PrefixIsQuiet
  <2> SUFFICES ASSUME RecheckInv, recheck.reason = "completed"
               PROVE  Analysis!PrefixIsQuiet
    BY DEF PrefixIsQuiet, Analysis!PrefixIsQuiet
  <2> DEFINE p      == request.prompt
             length == Analysis!CharStart(p, trace)
             prefix == Analysis!Prefix(p, length)
             again  == Analysis!Detect(prefix)
             all    == Analysis!Counterfactuals(p, trace)
             anew   == {Analysis!Compared(trace, score, FALSE) :
                          score \in Analysis!Rescored}
             alike  == Analysis!Compared(trace, again.score, TRUE)
  <2>1. IsPrompt(p) /\ trace = Analysis!Detect(p) /\ recheck \in all
    BY RequestedIsPrompt DEF RecheckInv
  <2>2. p.blanks \in Nat
    BY <2>1 DEF IsPrompt
  <2>3. \A reason : Analysis!Inconclusive(reason).reason = reason
    BY DEF Analysis!Inconclusive
  <2>4. \/ all = {Analysis!Inconclusive("no_predicted_onset")}
        \/ all = {Analysis!Inconclusive("invalid_predicted_onset")}
        \/ /\ trace.onset # 0 /\ ~(length <= p.blanks)
           /\ all \subseteq {Analysis!Inconclusive("recheck_failed"),
                            Analysis!Inconclusive("provenance_mismatch")}
                             \cup anew \cup {alike}
    BY DEF Analysis!Counterfactuals
  <2> HIDE DEF all, anew, alike, again, prefix, length, p
  <2>5. /\ trace.onset # 0 /\ ~(length <= p.blanks)
        /\ recheck \in anew \/ recheck = alike
    BY <2>1, <2>3, <2>4
  <2> DEFINE n == Len(p.z) - Hidden(p)
             z == ObservedScores(p)
  <2>6. n \in Nat /\ z \in [1..n -> Int] /\ trace = RunOn(z)
    BY <2>1, UserTokensAre, UserScoresAre DEF RunOn
  <2>7. trace.onset \in 1..n /\ trace.score \in Nat /\ trace.score >= H
    <3> HIDE DEF n, z
    <3> QED
      BY <2>5, <2>6, FirstAlarmIs
  <2>8. trace.alarms # {}
    <3> HIDE DEF n, z
    <3> QED
      BY <2>5, <2>6, RunIs DEF IsRun
  <2>9. length \in Int
    <3> HIDE DEF n, z
    <3>1. Analysis!UserTokens(p)[trace.onset].start = trace.onset + Hidden(p)
      BY <2>1, <2>7, UserTokensAre DEF n
    <3>2. trace.onset \in Int /\ Hidden(p) \in Int
      BY <2>6, <2>7 DEF Hidden
    <3> QED
      BY <3>1, <3>2 DEF length, Analysis!CharStart
  <2>10. length >= 1
    BY <2>2, <2>5, <2>9
  <2>11. again.score \in Nat /\ again.score < H
    BY <2>1, <2>5, <2>10, PrefixesAreQuiet DEF again, prefix, length
  <2> HIDE DEF n, z
  <2>12. PICK score \in Nat, same \in BOOLEAN :
           /\ recheck = Analysis!Compared(trace, score, same)
           /\ same => score < H
    BY <2>5, <2>11, RescoredAreNumbers DEF anew, alike
  <2>13. /\ recheck.score = score /\ recheck.same = same
         /\ recheck.interpretation = "risk_reduced" => score < trace.score
         /\ recheck.interpretation = "unchanged" => (H - score) * Resolution <= H
    BY <2>7, <2>12, ComparedSays
  <2> QED
    BY <2>8, <2>12, <2>13 DEF Analysis!PrefixIsQuiet
<1> QED
  BY <1>1, RecheckInit, RecheckNext, PTL DEF Analysis!Spec
-----------------------------------------------------------------------------
(* Fractions with a positive denominator, and keys of n of them: what is    *)
(* below is below all that is above.                                        *)
Fractions == Int \X (Nat \ {0})
Keys(n) == [1..n -> Fractions]
Tied(f, g) == ~Below(f, g) /\ ~Below(g, f)

LEMMA ProductRises ==
  ASSUME NEW x \in Int, NEW y \in Int, NEW k \in Nat \ {0}
  PROVE  (x < y <=> x * k < y * k) /\ x * k \in Int /\ x * k = k * x
OBVIOUS

LEMMA ProductsRegroup ==
  ASSUME NEW x \in Int, NEW y \in Int, NEW z \in Int
  PROVE  (x * y) * z = (x * z) * y
OBVIOUS

(* f <= g <= h and f < g <= h, over a common denominator.                    *)
LEMMA FractionOrder ==
  ASSUME NEW f \in Fractions, NEW g \in Fractions, NEW h \in Fractions
  PROVE  /\ ~Below(f, f)
         /\ Below(f, g) => ~Below(g, f)
         /\ Below(f, g) /\ ~Below(h, g) => Below(f, h)
         /\ ~Below(g, f) /\ Below(g, h) => Below(f, h)
         /\ ~Below(g, f) /\ ~Below(h, g) => ~Below(h, f)
<1> DEFINE fn == f[1] fd == f[2] gn == g[1] gd == g[2] hn == h[1] hd == h[2]
           fg == (fn * gd) * hd   gf == (gn * fd) * hd
           gh == (gn * hd) * fd   hg == (hn * gd) * fd
           fh == (fn * hd) * gd   hf == (hn * fd) * gd
<1>1. /\ fn \in Int /\ gn \in Int /\ hn \in Int
      /\ fd \in Nat \ {0} /\ gd \in Nat \ {0} /\ hd \in Nat \ {0}
  BY DEF Fractions
<1>2. /\ Below(f, g) <=> fn * gd < gn * fd
      /\ Below(g, f) <=> gn * fd < fn * gd
      /\ Below(g, h) <=> gn * hd < hn * gd
      /\ Below(h, g) <=> hn * gd < gn * hd
      /\ Below(f, h) <=> fn * hd < hn * fd
      /\ Below(h, f) <=> hn * fd < fn * hd
      /\ ~Below(f, f)
  <2>1. ~(fn * fd < fn * fd)
    <3>1. fn * fd \in Int
      BY <1>1, ProductRises
    <3> QED
      BY <3>1
  <2> QED
    BY <2>1 DEF Below
<1> HIDE DEF fn, fd, gn, gd, hn, hd
<1>3. /\ fn * gd \in Int /\ gn * fd \in Int /\ gn * hd \in Int /\ hn * gd \in Int
      /\ fn * hd \in Int /\ hn * fd \in Int
  BY <1>1, ProductRises
<1>4. /\ Below(f, g) <=> fg < gf
      /\ Below(g, f) <=> gf < fg
  BY <1>1, <1>2, <1>3, ProductRises
<1>5. /\ Below(g, h) <=> gh < hg
      /\ Below(h, g) <=> hg < gh
  BY <1>1, <1>2, <1>3, ProductRises
<1>6. /\ Below(f, h) <=> fh < hf
      /\ Below(h, f) <=> hf < fh
  BY <1>1, <1>2, <1>3, ProductRises
<1>7. fg = fh /\ gf = gh /\ hg = hf
  BY <1>1, ProductsRegroup
<1>8. fg \in Int /\ gf \in Int /\ gh \in Int /\ hg \in Int /\ fh \in Int /\ hf \in Int
  BY <1>1, <1>3, ProductRises
<1> HIDE DEF fg, gf, gh, hg, fh, hf
<1> QED
  BY <1>2, <1>4, <1>5, <1>6, <1>7, <1>8

LEMMA NegationTurns ==
  ASSUME NEW f \in Fractions, NEW g \in Fractions
  PROVE  /\ Negated(f) \in Fractions
         /\ Below(Negated(f), Negated(g)) <=> Below(g, f)
<1> DEFINE x == f[1] * g[2]  y == g[1] * f[2]
<1>1. /\ f[1] \in Int /\ g[1] \in Int /\ f[2] \in Nat \ {0} /\ g[2] \in Nat \ {0}
  BY DEF Fractions
<1>2. /\ x \in Int /\ y \in Int
      /\ (-f[1]) * g[2] = -x /\ (-g[1]) * f[2] = -y
  BY <1>1
<1>3. Below(Negated(f), Negated(g)) <=> (-f[1]) * g[2] < (-g[1]) * f[2]
  BY DEF Below, Negated
<1>4. Below(g, f) <=> y < x
  BY DEF Below
<1>5. Negated(f) \in Fractions
  BY <1>1 DEF Negated, Fractions
<1> HIDE DEF x, y
<1> QED
  BY <1>2, <1>3, <1>4, <1>5

LEMMA TiesPass ==
  ASSUME NEW f \in Fractions, NEW g \in Fractions, NEW h \in Fractions
  PROVE  /\ Tied(f, g) /\ Tied(g, h) => Tied(f, h)
         /\ Tied(f, g) /\ Below(g, h) => Below(f, h)
         /\ Below(f, g) /\ Tied(g, h) => Below(f, h)
         /\ Below(f, g) /\ Below(g, h) => Below(f, h)
BY FractionOrder DEF Tied

LEMMA LessIs ==
  ASSUME NEW n \in Nat, NEW a \in Keys(n), NEW b
  PROVE  Less(a, b) <=> \E i \in 1..n : /\ Below(a[i], b[i])
                                        /\ \A j \in 1..(i - 1) : Tied(a[j], b[j])
<1>1. DOMAIN a = 1..n
  BY DEF Keys
<1> QED
  BY <1>1, Zenon DEF Less, Tied

LEMMA LessIsAnOrder ==
  ASSUME NEW n \in Nat, NEW a \in Keys(n), NEW b \in Keys(n), NEW c \in Keys(n)
  PROVE  ~Less(a, a) /\ (Less(a, b) /\ Less(b, c) => Less(a, c))
<1>1. ~Less(a, a)
  <2>1. \A i \in 1..n : a[i] \in Fractions
    BY DEF Keys
  <2>2. \A i \in 1..n : ~Below(a[i], a[i])
    BY <2>1, FractionOrder
  <2> QED
    BY <2>2, LessIs
<1>2. ASSUME Less(a, b), Less(b, c) PROVE Less(a, c)
  <2>1. PICK i \in 1..n : /\ Below(a[i], b[i])
                          /\ \A l \in 1..(i - 1) : Tied(a[l], b[l])
    BY <1>2, LessIs
  <2>2. PICK j \in 1..n : /\ Below(b[j], c[j])
                          /\ \A l \in 1..(j - 1) : Tied(b[l], c[l])
    BY <1>2, LessIs
  <2>3. \A l \in 1..n : a[l] \in Fractions /\ b[l] \in Fractions /\ c[l] \in Fractions
    BY DEF Keys
  <2>4. SUFFICES \E k \in 1..n : /\ Below(a[k], c[k])
                                 /\ \A l \in 1..(k - 1) : Tied(a[l], c[l])
    BY LessIs
  <2>5. \A l \in 1..n : l < i /\ l < j => Tied(a[l], c[l])
    <3> TAKE l \in 1..n
    <3> HAVE l < i /\ l < j
    <3>1. Tied(a[l], b[l]) /\ Tied(b[l], c[l])
      BY <2>1, <2>2
    <3> QED
      BY <2>3, <3>1, TiesPass
  <2>6. CASE i < j
    <3>1. Tied(b[i], c[i])
      BY <2>2, <2>6
    <3>2. Below(a[i], c[i])
      BY <2>1, <2>3, <3>1, TiesPass
    <3>3. \A l \in 1..(i - 1) : Tied(a[l], c[l])
      BY <2>5, <2>6
    <3> QED
      BY <3>2, <3>3
  <2>7. CASE j < i
    <3>1. Tied(a[j], b[j])
      BY <2>1, <2>7
    <3>2. Below(a[j], c[j])
      BY <2>2, <2>3, <3>1, TiesPass
    <3>3. \A l \in 1..(j - 1) : Tied(a[l], c[l])
      BY <2>5, <2>7
    <3> QED
      BY <3>2, <3>3
  <2>8. CASE i = j
    <3>1. Below(a[i], c[i])
      BY <2>1, <2>2, <2>3, <2>8, TiesPass
    <3>2. \A l \in 1..(i - 1) : Tied(a[l], c[l])
      BY <2>5, <2>8
    <3> QED
      BY <3>1, <3>2
  <2> QED
    BY <2>6, <2>7, <2>8
<1> QED
  BY <1>1, <1>2

(* Of finitely many keys one is the best: the one that most are less than.  *)
LEMMA BestIsBest ==
  ASSUME NEW n \in Nat, NEW T, IsFiniteSet(T), T # {}, NEW key \in [T -> Keys(n)]
  PROVE  Best(key) \in T /\ \A u \in T : ~Less(key[Best(key)], key[u])
<1> DEFINE Under(t) == {u \in T : Less(key[u], key[t])}
           m        == Cardinality(T)
           left     == {m - Cardinality(Under(t)) : t \in T}
<1>1. m \in Nat /\ \A t \in T : /\ IsFiniteSet(Under(t))
                                /\ Cardinality(Under(t)) \in 0..m
  BY FS_CardinalityType, FS_Subset
<1>2. left \in SUBSET Nat /\ left # {}
  <2> HIDE DEF Under, m
  <2> QED
    BY <1>1
<1>3. PICK least \in left : \A x \in left : least <= x
  BY <1>2, LeastNumber
<1>4. PICK t \in T : least = m - Cardinality(Under(t))
  BY <1>3
<1>5. ASSUME NEW u \in T PROVE ~Less(key[t], key[u])
  <2> SUFFICES ASSUME Less(key[t], key[u]) PROVE FALSE
    OBVIOUS
  <2>1. t \notin Under(t)
    BY LessIsAnOrder
  <2>2. Under(t) \cup {t} \subseteq Under(u)
    <3>1. \A v \in T : Less(key[v], key[t]) => Less(key[v], key[u])
      <4> TAKE v \in T
      <4>1. key[v] \in Keys(n) /\ key[t] \in Keys(n) /\ key[u] \in Keys(n)
        OBVIOUS
      <4> HIDE DEF Under
      <4> QED
        BY <4>1, LessIsAnOrder
    <3> QED
      BY <3>1
  <2> HIDE DEF Under, m
  <2>3. Cardinality(Under(t) \cup {t}) = Cardinality(Under(t)) + 1
    BY <1>1, <2>1, FS_AddElement
  <2>4. Cardinality(Under(t) \cup {t}) <= Cardinality(Under(u))
    BY <1>1, <2>2, FS_Subset
  <2>5. m - Cardinality(Under(u)) \in left
    OBVIOUS
  <2>6. m - Cardinality(Under(t)) <= m - Cardinality(Under(u))
    BY <1>3, <1>4, <2>5
  <2> HIDE DEF left
  <2> QED
    BY <1>1, <2>3, <2>4, <2>6
<1>6. DOMAIN key = T
  OBVIOUS
<1> QED
  BY <1>5, <1>6 DEF Best

(* What being the best says of the parts of a key.                          *)
LEMMA NotLessIs ==
  ASSUME NEW n \in Nat, NEW a \in Keys(n), NEW b, ~Less(a, b)
  PROVE  /\ 1 <= n => ~Below(a[1], b[1])
         /\ 2 <= n /\ ~Below(b[1], a[1]) => ~Below(a[2], b[2])
         /\ /\ 3 <= n /\ ~Below(b[1], a[1]) /\ ~Below(b[2], a[2])
            => ~Below(a[3], b[3])
<1>1. \A i \in 1..n : Below(a[i], b[i]) => \E j \in 1..(i - 1) : ~Tied(a[j], b[j])
  BY LessIs
<1>2. 1 <= n => ~Below(a[1], b[1])
  BY <1>1
<1>3. 2 <= n /\ Below(a[2], b[2]) => ~Tied(a[1], b[1])
  BY <1>1
<1>4. 3 <= n /\ Below(a[3], b[3]) => ~Tied(a[1], b[1]) \/ ~Tied(a[2], b[2])
  BY <1>1
<1> QED
  BY <1>2, <1>3, <1>4 DEF Tied
-----------------------------------------------------------------------------
(* The choice of a threshold uses the same fractions.                       *)
LEMMA ThresholdAssumed ==
  /\ IsFiniteSet(Scored) /\ MaxScore \in Nat
  /\ IsFiniteSet(Parameter) /\ Parameter # {} /\ Parameter \subseteq Int
  /\ MaxFpr \in Fractions /\ MaxFpr[1] \in Nat
BY AnalysisAssumption DEF Threshold!ThresholdAssumption, Threshold!IsFiniteSet,
                          IsFiniteSet, Fractions

LEMMA ThresholdBelow ==
  ASSUME NEW f, NEW g PROVE Threshold!Below(f, g) = Below(f, g)
BY DEF Threshold!Below, Below

LEMMA ThresholdNegated ==
  ASSUME NEW f PROVE Threshold!Negated(f) = Negated(f)
BY DEF Threshold!Negated, Negated

LEMMA ThresholdBest ==
  ASSUME NEW key PROVE Threshold!Best(key) = Best(key)
<1>1. \A a, b : Threshold!Less(a, b) = Less(a, b)
  BY DEF Threshold!Less, Less, Threshold!Below, Below
<1> QED
  BY <1>1 DEF Threshold!Best, Best

LEMMA ThresholdCardinality ==
  ASSUME NEW S PROVE Threshold!Cardinality(S) = Cardinality(S)
BY DEF Threshold!Cardinality, Cardinality

LEMMA ThresholdFraction ==
  ASSUME NEW n \in Nat, NEW d \in Nat
  PROVE  Threshold!Fraction(n, d) \in Fractions /\ Threshold!Fraction(n, d)[1] \in Nat
BY DEF Threshold!Fraction, Fractions

LEMMA ThresholdWhole ==
  ASSUME NEW n \in Int PROVE Threshold!Whole(n) \in Fractions
BY DEF Threshold!Whole, Fractions

ScoresOf == [Scored -> 0..MaxScore]

LEMMA CountIs ==
  ASSUME NEW lab, NEW score \in ScoresOf, NEW t, NEW flagged, NEW attack
  PROVE  Threshold!Count(lab, score, t, flagged, attack) \in Nat
<1> DEFINE S == {i \in DOMAIN score : (score[i] >= t) = flagged /\ lab[i] = attack}
<1>1. S \subseteq Scored
  BY DEF ScoresOf
<1>2. Cardinality(S) \in Nat
  BY <1>1, ThresholdAssumed, FS_Subset, FS_CardinalityType
<1>3. Threshold!Count(lab, score, t, flagged, attack) = Threshold!Cardinality(S)
  BY DEF Threshold!Count
<1> QED
  BY <1>2, <1>3, ThresholdCardinality

LEMMA QualityIs ==
  ASSUME NEW lab, NEW score \in ScoresOf, NEW t
  PROVE  /\ Threshold!Quality(lab, score, t).f1 \in Fractions
         /\ Threshold!Quality(lab, score, t).recall \in Fractions
         /\ Threshold!Quality(lab, score, t).fpr \in Fractions
         /\ Threshold!Quality(lab, score, t).fpr =
              Threshold!Fraction(Threshold!Count(lab, score, t, TRUE, FALSE),
                                 Threshold!Count(lab, score, t, TRUE, FALSE)
                                   + Threshold!Count(lab, score, t, FALSE, FALSE))
<1> DEFINE tp == Threshold!Count(lab, score, t, TRUE, TRUE)
           fp == Threshold!Count(lab, score, t, TRUE, FALSE)
           fn == Threshold!Count(lab, score, t, FALSE, TRUE)
           tn == Threshold!Count(lab, score, t, FALSE, FALSE)
<1>1. Threshold!Quality(lab, score, t) =
        [f1     |-> Threshold!Fraction(2 * tp, 2 * tp + fp + fn),
         recall |-> Threshold!Fraction(tp, tp + fn),
         fpr    |-> Threshold!Fraction(fp, fp + tn)]
  BY Zenon DEF Threshold!Quality
<1>2. tp \in Nat /\ fp \in Nat /\ fn \in Nat /\ tn \in Nat
  BY CountIs
<1> HIDE DEF tp, fp, fn, tn
<1>3. /\ 2 * tp \in Nat /\ 2 * tp + fp + fn \in Nat
      /\ tp + fn \in Nat /\ fp + tn \in Nat
  BY <1>2
<1>4. /\ Threshold!Fraction(2 * tp, 2 * tp + fp + fn) \in Fractions
      /\ Threshold!Fraction(tp, tp + fn) \in Fractions
      /\ Threshold!Fraction(fp, fp + tn) \in Fractions
  BY <1>2, <1>3, ThresholdFraction
<1>5. /\ Threshold!Quality(lab, score, t).f1 = Threshold!Fraction(2 * tp, 2 * tp + fp + fn)
      /\ Threshold!Quality(lab, score, t).recall = Threshold!Fraction(tp, tp + fn)
      /\ Threshold!Quality(lab, score, t).fpr = Threshold!Fraction(fp, fp + tn)
  BY <1>1
<1> QED
  BY <1>4, <1>5 DEF fp, tn

(* Thresholds that flag the same samples are of the same quality.           *)
LEMMA SameFlagged ==
  ASSUME NEW lab, NEW score \in ScoresOf, NEW t, NEW u,
         \A i \in Scored : (score[i] >= t) = (score[i] >= u)
  PROVE  Threshold!Quality(lab, score, t) = Threshold!Quality(lab, score, u)
<1>1. DOMAIN score = Scored
  BY DEF ScoresOf
<1>2. ASSUME NEW flagged, NEW attack
      PROVE  Threshold!Count(lab, score, t, flagged, attack)
               = Threshold!Count(lab, score, u, flagged, attack)
  <2>1. {i \in DOMAIN score : (score[i] >= t) = flagged /\ lab[i] = attack}
          = {i \in DOMAIN score : (score[i] >= u) = flagged /\ lab[i] = attack}
    BY <1>1, Zenon
  <2> QED
    BY <2>1, Zenon DEF Threshold!Count
<1> QED
  BY <1>2, Zenon DEF Threshold!Quality

(* The candidates: positive, finitely many, one above all scores, and one   *)
(* that flags the same samples for any positive threshold.                  *)
LEMMA HighestScore ==
  ASSUME NEW score \in ScoresOf, Scored # {}
  PROVE  LET S == {score[i] : i \in DOMAIN score} IN
         Threshold!Max(S) \in S /\ \A x \in S : x <= Threshold!Max(S)
<1> DEFINE S == {score[i] : i \in DOMAIN score}
           gap == {MaxScore - x : x \in S}
<1>1. S \subseteq 0..MaxScore /\ S # {}
  BY DEF ScoresOf
<1> HIDE DEF S
<1>2. gap \in SUBSET Nat /\ gap # {}
  <2>1. \A x \in S : MaxScore - x \in Nat
    BY <1>1, ThresholdAssumed
  <2> QED
    BY <1>1, <2>1
<1>3. PICK least \in gap : \A x \in gap : least <= x
  BY <1>2, LeastNumber
<1>4. PICK x \in S : least = MaxScore - x
  BY <1>3
<1>5. \A y \in S : x >= y
  <2> TAKE y \in S
  <2>1. MaxScore - x <= MaxScore - y
    BY <1>3, <1>4
  <2> QED
    BY <1>1, <2>1, ThresholdAssumed
<1>6. Threshold!Max(S) \in S /\ \A y \in S : Threshold!Max(S) >= y
  BY <1>5 DEF Threshold!Max
<1>7. \A y \in S : y <= Threshold!Max(S)
  BY <1>1, <1>6, ThresholdAssumed
<1> QED
  BY <1>6, <1>7 DEF S

LEMMA CandidatesAre ==
  ASSUME NEW score \in ScoresOf, Scored # {}
  PROVE  LET C   == Threshold!Candidates(score)
             top == Threshold!Max({score[i] : i \in DOMAIN score}) + 1
         IN  /\ IsFiniteSet(C) /\ C \subseteq 1..(MaxScore + 1)
             /\ top \in C /\ \A i \in Scored : ~(score[i] >= top)
<1> DEFINE S   == {score[i] : i \in DOMAIN score}
           max == Threshold!Max(S)
           C   == (S \ {0}) \cup {max + 1}
<1>1. Threshold!Candidates(score) = C
  BY DEF Threshold!Candidates
<1>2. max \in S /\ \A x \in S : x <= max
  BY HighestScore
<1>3. S \subseteq 0..MaxScore /\ \A i \in Scored : score[i] \in S
  BY DEF ScoresOf
<1> HIDE DEF S, max
<1>4. C \subseteq 1..(MaxScore + 1)
  BY <1>2, <1>3, ThresholdAssumed
<1>5. \A i \in Scored : ~(score[i] >= max + 1)
  <2>1. max \in Int /\ \A x \in S : x \in Int /\ x <= max
    BY <1>2, <1>3, ThresholdAssumed
  <2>2. \A x \in S : ~(x >= max + 1)
    BY <2>1
  <2> QED
    BY <1>3, <2>2
<1>6. IsFiniteSet(1..(MaxScore + 1))
  BY ThresholdAssumed, FS_Interval
<1>7. IsFiniteSet(C)
  BY <1>4, <1>6, FS_Subset
<1> QED
  BY <1>1, <1>4, <1>5, <1>7 DEF max, S

LEMMA CandidatesArePositive ==
  ASSUME NEW score \in ScoresOf, Scored # {}
  PROVE  /\ IsFiniteSet(Threshold!Candidates(score))
         /\ Threshold!Candidates(score) # {}
         /\ Threshold!Candidates(score) \subseteq Nat \ {0}
<1>1. 1..(MaxScore + 1) \subseteq Nat \ {0}
  BY ThresholdAssumed
<1> QED
  BY <1>1, CandidatesAre, Zenon

LEMMA CandidatesSuffice ==
  ASSUME NEW lab, NEW score \in ScoresOf, Scored # {}, NEW t \in Nat \ {0}
  PROVE  \E c \in Threshold!Candidates(score) :
           Threshold!Quality(lab, score, t) = Threshold!Quality(lab, score, c)
<1> DEFINE F   == {score[i] : i \in {s \in Scored : score[s] >= t}}
           top == Threshold!Max({score[i] : i \in DOMAIN score}) + 1
<1>1. \A i \in Scored : score[i] \in 0..MaxScore
  BY DEF ScoresOf
<1>2. F \in SUBSET Nat
  BY <1>1, ThresholdAssumed
<1>3. CASE F = {}
  <2>1. top \in Threshold!Candidates(score) /\ \A i \in Scored : ~(score[i] >= top)
    BY CandidatesAre
  <2>2. \A i \in Scored : ~(score[i] >= t)
    BY <1>3
  <2> HIDE DEF top
  <2>3. \A i \in Scored : (score[i] >= t) = (score[i] >= top)
    BY <2>1, <2>2
  <2> QED
    BY <2>1, <2>3, SameFlagged
<1>4. CASE F # {}
  <2>1. PICK c \in F : \A x \in F : c <= x
    BY <1>2, <1>4, LeastNumber
  <2>2. c \in Nat /\ c >= t /\ c # 0 /\ \E i \in Scored : c = score[i]
    BY <1>2, <2>1
  <2>3. c \in Threshold!Candidates(score)
    BY <2>2 DEF Threshold!Candidates, ScoresOf
  <2>4. ASSUME NEW i \in Scored PROVE (score[i] >= t) = (score[i] >= c)
    <3>1. score[i] \in Nat
      BY <1>1, ThresholdAssumed
    <3>2. score[i] >= t => score[i] >= c
      <4> HAVE score[i] >= t
      <4>1. score[i] \in F
        OBVIOUS
      <4> HIDE DEF F
      <4> QED
        BY <2>1, <2>2, <3>1, <4>1
    <3>3. score[i] >= c => score[i] >= t
      BY <2>2, <3>1
    <3> QED
      BY <3>2, <3>3
  <2> QED
    BY <2>3, <2>4, SameFlagged
<1> QED
  BY <1>3, <1>4

LEMMA KeyOfThree ==
  ASSUME NEW f \in Fractions, NEW g \in Fractions, NEW h \in Fractions
  PROVE  <<f, g, h>> \in Keys(3)
BY DEF Keys

(* The threshold kept for a parameter: no positive one outranks it.         *)
LEMMA F1IsBest ==
  ASSUME NEW lab, NEW score \in ScoresOf, Scored # {}
  PROVE  /\ Threshold!SelectF1(lab, score) \in Nat \ {0}
         /\ \A t \in Nat \ {0} :
              ~Threshold!Outranks(lab, score, t, Threshold!SelectF1(lab, score))
<1> DEFINE C == Threshold!Candidates(score)
           q(t) == Threshold!Quality(lab, score, t)
           key == [t \in C |-> <<q(t).f1, Negated(q(t).fpr), Threshold!Whole(t)>>]
           h == Best(key)
<1>1. Threshold!SelectF1(lab, score) = h
  <2>1. Threshold!SelectF1(lab, score) =
          Threshold!Best([t \in C |-> <<q(t).f1, Threshold!Negated(q(t).fpr),
                                        Threshold!Whole(t)>>])
    BY DEF Threshold!SelectF1
  <2> QED
    BY <2>1, ThresholdBest, ThresholdNegated
<1>2. IsFiniteSet(C) /\ C # {} /\ C \subseteq Nat \ {0}
  BY CandidatesArePositive
<1>3. \A t \in Nat : /\ q(t).f1 \in Fractions /\ q(t).fpr \in Fractions
                     /\ Negated(q(t).fpr) \in Fractions
                     /\ Threshold!Whole(t) \in Fractions
  <2> TAKE t \in Nat
  <2>1. q(t).f1 \in Fractions /\ q(t).fpr \in Fractions
    BY QualityIs
  <2>2. Threshold!Whole(t) \in Fractions
    BY ThresholdWhole
  <2> HIDE DEF q
  <2> QED
    BY <2>1, <2>2, NegationTurns
<1>4. ASSUME NEW t \in Nat \ {0} PROVE \E c \in C : q(t) = q(c)
  BY CandidatesSuffice
<1> HIDE DEF C, q
<1>5. key \in [C -> Keys(3)]
  BY <1>2, <1>3, KeyOfThree
<1>6. h \in C /\ \A c \in C : ~Less(key[h], key[c])
  <2> HIDE DEF key
  <2> QED
    BY <1>2, <1>5, BestIsBest
<1> HIDE DEF h
<1>7. ASSUME NEW c \in C
      PROVE  /\ ~Below(q(h).f1, q(c).f1)
             /\ ~Below(q(c).f1, q(h).f1) => ~Below(q(c).fpr, q(h).fpr)
  <2>1. /\ key[h][1] = q(h).f1 /\ key[h][2] = Negated(q(h).fpr)
        /\ key[c][1] = q(c).f1 /\ key[c][2] = Negated(q(c).fpr)
    BY <1>6
  <2>2. ~Less(key[h], key[c]) /\ key[h] \in Keys(3)
    BY <1>5, <1>6
  <2> HIDE DEF key
  <2>3. /\ ~Below(key[h][1], key[c][1])
        /\ ~Below(key[c][1], key[h][1]) => ~Below(key[h][2], key[c][2])
    BY <2>2, NotLessIs
  <2>4. /\ q(h).fpr \in Fractions /\ q(c).fpr \in Fractions
    BY <1>2, <1>3, <1>6
  <2>5. Below(Negated(q(h).fpr), Negated(q(c).fpr)) <=> Below(q(c).fpr, q(h).fpr)
    BY <2>4, NegationTurns
  <2> QED
    BY <2>1, <2>3, <2>5
<1>8. ASSUME NEW t \in Nat \ {0} PROVE ~Threshold!Outranks(lab, score, t, h)
  <2>1. PICK c \in C : q(t) = q(c)
    BY <1>4
  <2>2. /\ ~Below(q(h).f1, q(t).f1)
        /\ ~Below(q(t).f1, q(h).f1) => ~Below(q(t).fpr, q(h).fpr)
    BY <1>7, <2>1
  <2> QED
    BY <2>2, ThresholdBelow DEF Threshold!Outranks, q
<1> QED
  BY <1>1, <1>2, <1>6, <1>8

(* The candidate above all scores flags nothing, so that one is within any  *)
(* limit of the rate.                                                       *)
LEMMA SilenceIsAllowed ==
  ASSUME NEW lab, NEW score \in ScoresOf, NEW t, \A i \in Scored : ~(score[i] >= t)
  PROVE  Threshold!LowRate(lab, score, t)
<1> DEFINE fp == Threshold!Count(lab, score, t, TRUE, FALSE)
           tn == Threshold!Count(lab, score, t, FALSE, FALSE)
           fpr == Threshold!Quality(lab, score, t).fpr
<1>1. fp = 0
  <2>1. {i \in DOMAIN score : (score[i] >= t) = TRUE /\ lab[i] = FALSE} = {}
    BY DEF ScoresOf
  <2>2. fp = Threshold!Cardinality({})
    BY <2>1, Zenon DEF Threshold!Count
  <2> QED
    BY <2>2, ThresholdCardinality, FS_EmptySet
<1>2. tn \in Nat /\ fpr = Threshold!Fraction(fp, fp + tn) /\ fpr \in Fractions
  BY CountIs, QualityIs
<1> HIDE DEF fp, tn, fpr
<1>3. fpr[1] = 0 /\ fpr[2] \in Nat \ {0}
  BY <1>1, <1>2 DEF Threshold!Fraction
<1>4. MaxFpr[1] * fpr[2] \in Nat /\ fpr[1] * MaxFpr[2] = 0
  <2>1. MaxFpr[1] \in Nat /\ MaxFpr[2] \in Nat
    BY ThresholdAssumed DEF Fractions
  <2> QED
    BY <1>3, <2>1
<1>5. ~Below(MaxFpr, fpr)
  BY <1>4 DEF Below
<1> QED
  BY <1>5, ThresholdBelow DEF Threshold!LowRate, fpr

(* The second threshold of the window method.                               *)
LEMMA LowRateIsBest ==
  ASSUME NEW lab, NEW score \in ScoresOf, Scored # {}
  PROVE  LET low == Threshold!SelectAtMaxFpr(lab, score, MaxFpr) IN
         /\ Threshold!LowRate(lab, score, low)
         /\ \A t \in Nat \ {0} :
              Threshold!LowRate(lab, score, t) =>
                ~Threshold!Below(Threshold!Quality(lab, score, low).recall,
                                 Threshold!Quality(lab, score, t).recall)
<1> DEFINE C == Threshold!Candidates(score)
           q(t) == Threshold!Quality(lab, score, t)
           allowed == {t \in C : ~Below(MaxFpr, q(t).fpr)}
           key == [t \in allowed |-> <<q(t).recall, q(t).f1, Threshold!Whole(t)>>]
           low == Best(key)
<1>1. Threshold!SelectAtMaxFpr(lab, score, MaxFpr) = low
  <2>1. Threshold!SelectAtMaxFpr(lab, score, MaxFpr) =
          Threshold!Best([t \in {s \in C : ~Threshold!Below(MaxFpr, q(s).fpr)} |->
                            <<q(t).recall, q(t).f1, Threshold!Whole(t)>>])
    BY Zenon DEF Threshold!SelectAtMaxFpr
  <2>2. {s \in C : ~Threshold!Below(MaxFpr, q(s).fpr)} = allowed
    BY ThresholdBelow, Zenon
  <2> QED
    BY <2>1, <2>2, ThresholdBest
<1>2. \A t : Threshold!LowRate(lab, score, t) <=> ~Below(MaxFpr, q(t).fpr)
  BY ThresholdBelow DEF Threshold!LowRate
<1>3. IsFiniteSet(C) /\ C \subseteq Nat \ {0}
  BY CandidatesArePositive
<1>4. \E c \in C : Threshold!LowRate(lab, score, c)
  BY CandidatesAre, SilenceIsAllowed
<1>5. \A t \in Nat : /\ q(t).recall \in Fractions /\ q(t).f1 \in Fractions
                     /\ Threshold!Whole(t) \in Fractions
  <2> TAKE t \in Nat
  <2>1. q(t).recall \in Fractions /\ q(t).f1 \in Fractions
    BY QualityIs
  <2>2. Threshold!Whole(t) \in Fractions
    BY ThresholdWhole
  <2> QED
    BY <2>1, <2>2
<1>6. ASSUME NEW t \in Nat \ {0} PROVE \E c \in C : q(t) = q(c)
  BY CandidatesSuffice
<1> HIDE DEF C, q
<1>7. IsFiniteSet(allowed) /\ allowed # {} /\ allowed \subseteq C
  BY <1>2, <1>3, <1>4, FS_Subset
<1>8. \A c \in C : ~Below(MaxFpr, q(c).fpr) => c \in allowed
  OBVIOUS
<1>9. \A c \in allowed : ~Below(MaxFpr, q(c).fpr)
  OBVIOUS
<1> HIDE DEF allowed
<1>10. key \in [allowed -> Keys(3)]
  BY <1>3, <1>5, <1>7, KeyOfThree
<1>11. low \in allowed /\ \A c \in allowed : ~Less(key[low], key[c])
  <2> HIDE DEF key
  <2> QED
    BY <1>7, <1>10, BestIsBest
<1> HIDE DEF low
<1>12. ASSUME NEW c \in allowed PROVE ~Below(q(low).recall, q(c).recall)
  <2>1. key[low][1] = q(low).recall /\ key[c][1] = q(c).recall
    BY <1>11
  <2>2. ~Less(key[low], key[c]) /\ key[low] \in Keys(3)
    BY <1>10, <1>11
  <2> HIDE DEF key
  <2>3. ~Below(key[low][1], key[c][1])
    BY <2>2, NotLessIs
  <2> QED
    BY <2>1, <2>3
<1>13. ASSUME NEW t \in Nat \ {0}, Threshold!LowRate(lab, score, t)
       PROVE  ~Below(q(low).recall, q(t).recall)
  <2>1. PICK c \in C : q(t) = q(c)
    BY <1>6
  <2>2. c \in allowed
    BY <1>2, <1>8, <1>13, <2>1
  <2> QED
    BY <1>12, <2>1, <2>2
<1>14. Threshold!LowRate(lab, score, low)
  BY <1>2, <1>9, <1>11
<1> QED
  BY <1>1, <1>13, <1>14, ThresholdBelow DEF q

ThresholdInv ==
  /\ stage \in {"calibration", "read", "dev", "done"}
  /\ stage \in {"calibration", "dev"} =>
       labels \in Threshold!Labels /\ scores \in [Parameter -> ScoresOf]

LEMMA ScoresAre == Threshold!Scores = [Parameter -> ScoresOf]
BY DEF Threshold!Scores, ScoresOf

LEMMA LabelledIsNonempty ==
  ASSUME NEW l \in Threshold!Labels PROVE Scored # {}
<1>1. {l[i] : i \in Scored} = BOOLEAN
  BY DEF Threshold!Labels
<1> QED
  BY <1>1

LEMMA ParameterIsBest ==
  ASSUME NEW s \in [Parameter -> ScoresOf], scores = s
  PROVE  LET q(p) == Threshold!Quality(labels, scores[p], fitted[p])
             best == Threshold!BestParameter
         IN  best \in Parameter /\ \A p \in Parameter : ~Below(q(best).f1, q(p).f1)
<1> DEFINE q(p) == Threshold!Quality(labels, scores[p], fitted[p])
           kept(p) == Threshold!Whole(IF method = "entropy" THEN -p ELSE p)
           key == [p \in Parameter |-> <<q(p).f1, Negated(q(p).fpr), kept(p)>>]
           best == Best(key)
<1>1. Threshold!BestParameter = best
  <2>1. Threshold!BestParameter =
          Threshold!Best([p \in Parameter |->
                            <<q(p).f1, Threshold!Negated(q(p).fpr), kept(p)>>])
    BY DEF Threshold!BestParameter
  <2> QED
    BY <2>1, ThresholdBest, ThresholdNegated
<1>2. \A p \in Parameter : scores[p] \in ScoresOf
  OBVIOUS
<1>3. \A p \in Parameter : /\ q(p).f1 \in Fractions
                           /\ Negated(q(p).fpr) \in Fractions
  BY <1>2, QualityIs, NegationTurns
<1>4. \A p \in Parameter : kept(p) \in Fractions
  <2>1. \A p \in Parameter : p \in Int /\ -p \in Int
    BY ThresholdAssumed
  <2> QED
    BY <2>1, ThresholdWhole
<1> HIDE DEF q, kept
<1>5. key \in [Parameter -> Keys(3)]
  BY <1>3, <1>4, KeyOfThree
<1>6. best \in Parameter /\ \A p \in Parameter : ~Less(key[best], key[p])
  <2> HIDE DEF key
  <2> QED
    BY <1>5, ThresholdAssumed, BestIsBest
<1> HIDE DEF best
<1>7. ASSUME NEW p \in Parameter PROVE ~Below(q(best).f1, q(p).f1)
  <2>1. key[best][1] = q(best).f1 /\ key[p][1] = q(p).f1
    BY <1>6
  <2>2. ~Less(key[best], key[p]) /\ key[best] \in Keys(3)
    BY <1>5, <1>6
  <2> HIDE DEF key
  <2>3. ~Below(key[best][1], key[p][1])
    BY <2>2, NotLessIs
  <2> QED
    BY <2>1, <2>3
<1> QED
  BY <1>1, <1>6, <1>7 DEF q

LEMMA ThresholdInit == Threshold!Init => ThresholdInv
BY ScoresAre DEF Threshold!Init, ThresholdInv

LEMMA ThresholdNext == ThresholdInv /\ [Threshold!Next]_(Threshold!vars) => ThresholdInv'
<1> SUFFICES ASSUME ThresholdInv, [Threshold!Next]_(Threshold!vars) PROVE ThresholdInv'
  OBVIOUS
<1>1. CASE Threshold!Fit
  BY <1>1 DEF Threshold!Fit, ThresholdInv
<1>2. CASE Threshold!ReadDev
  BY <1>2, ScoresAre DEF Threshold!ReadDev, ThresholdInv, ScoresOf, Threshold!Labels,
                         Threshold!Scores
<1>3. CASE Threshold!Pick
  BY <1>3 DEF Threshold!Pick, ThresholdInv
<1>4. CASE Threshold!Done \/ UNCHANGED Threshold!vars
  BY <1>4 DEF Threshold!Done, Threshold!vars, ThresholdInv
<1> QED
  BY <1>1, <1>2, <1>3, <1>4 DEF Threshold!Next

(* What a step of the calibration, and of the choice on the development     *)
(* split, leaves behind.                                                    *)
BestFit ==
  stage = "calibration" =>
    \A p \in Parameter, t \in Threshold!Threshold :
      ~Threshold!Outranks(labels, scores[p], t, fitted'[p])

BestPick ==
  stage = "dev" =>
    LET best == profile'.parameter IN
    /\ profile'.h = fitted[best]
    /\ \A p \in Parameter :
         ~Threshold!Below(Threshold!Quality(labels, scores[best], fitted[best]).f1,
                          Threshold!Quality(labels, scores[p], fitted[p]).f1)
    /\ method = "window_nll" =>
         /\ Threshold!LowRate(labels, scores[best], profile'.low)
         /\ \A t \in Threshold!Threshold :
              Threshold!LowRate(labels, scores[best], t) =>
                ~Threshold!Below(Threshold!Quality(labels, scores[best], profile'.low).recall,
                                 Threshold!Quality(labels, scores[best], t).recall)

LEMMA ThresholdsArePositive == Threshold!Threshold \subseteq Nat \ {0}
BY ThresholdAssumed DEF Threshold!Threshold

LEMMA FitIsBest == ThresholdInv /\ Threshold!Fit => BestFit
<1> SUFFICES ASSUME ThresholdInv, Threshold!Fit,
                    NEW p \in Parameter, NEW t \in Threshold!Threshold
             PROVE  ~Threshold!Outranks(labels, scores[p], t, fitted'[p])
  BY DEF BestFit
<1>1. stage = "calibration" /\ fitted'[p] = Threshold!SelectF1(labels, scores[p])
  BY DEF Threshold!Fit
<1>2. labels \in Threshold!Labels /\ scores[p] \in ScoresOf
  BY <1>1 DEF ThresholdInv
<1>3. t \in Nat \ {0}
  BY ThresholdsArePositive
<1> QED
  BY <1>1, <1>2, <1>3, LabelledIsNonempty, F1IsBest

LEMMA PickIsBest == ThresholdInv /\ Threshold!Pick => BestPick
<1> SUFFICES ASSUME ThresholdInv, Threshold!Pick PROVE BestPick
  OBVIOUS
<1> DEFINE best == Threshold!BestParameter
<1>1. /\ stage = "dev"
      /\ profile' = [parameter |-> best, h |-> fitted[best],
                     low |-> IF method = "entropy" THEN 0
                             ELSE Threshold!SelectAtMaxFpr(labels, scores[best], MaxFpr)]
  BY DEF Threshold!Pick
<1>2. labels \in Threshold!Labels /\ scores \in [Parameter -> ScoresOf]
  BY <1>1 DEF ThresholdInv
<1>3. /\ best \in Parameter
      /\ \A p \in Parameter :
           ~Below(Threshold!Quality(labels, scores[best], fitted[best]).f1,
                  Threshold!Quality(labels, scores[p], fitted[p]).f1)
  BY <1>2, ParameterIsBest
<1> HIDE DEF best
<1>4. profile'.parameter = best /\ profile'.h = fitted[best]
  BY <1>1
<1>5. ASSUME method = "window_nll"
      PROVE  /\ Threshold!LowRate(labels, scores[best], profile'.low)
             /\ \A t \in Threshold!Threshold :
                  Threshold!LowRate(labels, scores[best], t) =>
                    ~Threshold!Below(Threshold!Quality(labels, scores[best], profile'.low).recall,
                                     Threshold!Quality(labels, scores[best], t).recall)
  <2>1. profile'.low = Threshold!SelectAtMaxFpr(labels, scores[best], MaxFpr)
    BY <1>1, <1>5
  <2>2. scores[best] \in ScoresOf /\ Scored # {}
    BY <1>2, <1>3, LabelledIsNonempty
  <2> QED
    BY <2>1, <2>2, LowRateIsBest, ThresholdsArePositive
<1> QED
  BY <1>3, <1>4, <1>5, ThresholdBelow DEF BestPick

(* The few candidates that are tried are enough, for any scores, number of  *)
(* samples and parameters: the calibration keeps a threshold that none      *)
(* outranks, then a parameter that none beats, then a threshold of a low    *)
(* rate that recalls as much as any.                                        *)
THEOREM ThresholdsAreBest == Threshold!Spec => ChosenIsBest
<1>1. ThresholdInv /\ [Threshold!Next]_(Threshold!vars) =>
        [BestFit /\ BestPick]_(Threshold!vars)
  <2> SUFFICES ASSUME ThresholdInv, Threshold!Next, ~UNCHANGED Threshold!vars
               PROVE  BestFit /\ BestPick
    OBVIOUS
  <2>1. CASE Threshold!Fit
    BY <2>1, FitIsBest DEF Threshold!Fit, BestPick
  <2>2. CASE Threshold!ReadDev
    BY <2>2 DEF Threshold!ReadDev, BestFit, BestPick
  <2>3. CASE Threshold!Pick
    BY <2>3, PickIsBest DEF Threshold!Pick, BestFit
  <2>4. CASE Threshold!Done
    BY <2>4 DEF Threshold!Done
  <2> QED
    BY <2>1, <2>2, <2>3, <2>4 DEF Threshold!Next
<1>2. [][BestFit /\ BestPick]_(Threshold!vars) => ChosenIsBest
  BY PTL DEF ChosenIsBest, Threshold!ChosenIsBest, BestFit, BestPick
<1> QED
  BY <1>1, <1>2, ThresholdInit, ThresholdNext, PTL DEF Threshold!Spec
-----------------------------------------------------------------------------
(* The ablation ranks its profiles by the same fractions.                   *)
LEMMA AblationAssumed ==
  /\ MaxDev \in Nat /\ MaxTest \in Nat /\ MaxScore \in Nat
  /\ DevAlarm \subseteq BOOLEAN /\ "production" \notin DOMAIN Limit
BY AnalysisAssumption DEF Ablation!AblationAssumption

LEMMA AblationBelow ==
  ASSUME NEW f, NEW g PROVE Ablation!Below(f, g) = Below(f, g)
BY DEF Ablation!Below, Below

LEMMA AblationNegated ==
  ASSUME NEW f PROVE Ablation!Negated(f) = Negated(f)
BY DEF Ablation!Negated, Negated

LEMMA AblationBest ==
  ASSUME NEW key PROVE Ablation!Best(key) = Best(key)
<1>1. \A a, b : Ablation!Less(a, b) = Less(a, b)
  BY DEF Ablation!Less, Less, Ablation!Below, Below
<1> QED
  BY <1>1 DEF Ablation!Best, Best

LEMMA AblationCardinality ==
  ASSUME NEW S PROVE Ablation!Cardinality(S) = Cardinality(S)
BY DEF Ablation!Cardinality, Cardinality

LEMMA AblationFraction ==
  ASSUME NEW n \in Nat, NEW d \in Nat
  PROVE  Ablation!Fraction(n, d) \in Fractions
BY DEF Ablation!Fraction, Fractions

LEMMA AblationWhole ==
  ASSUME NEW n \in Int PROVE Ablation!Whole(n) \in Fractions
BY DEF Ablation!Whole, Fractions

(* A file of observations, and what a profile does on it.                   *)
FileOf(n) == [1..n -> [domain   : Ablation!Domain \cup DevDomain,
                       severity : Ablation!Severity,
                       score    : 0..MaxScore,
                       alarm    : BOOLEAN]]
IsFile(rows) == \E n \in Nat : rows \in FileOf(n)

Risky(rows)    == {i \in DOMAIN rows : Ablation!LabelRisky(rows[i])}
Caught(rows, p) == Ablation!Detected(rows, p)

LEMMA FileIs ==
  ASSUME NEW rows, IsFile(rows)
  PROVE  /\ IsFiniteSet(DOMAIN rows) /\ Cardinality(DOMAIN rows) = Len(rows)
         /\ \A i \in DOMAIN rows : /\ rows[i].score \in 0..MaxScore
                                   /\ rows[i].severity \in Ablation!Severity
<1>1. PICK n \in Nat : rows \in FileOf(n)
  BY DEF IsFile
<1>2. DOMAIN rows = 1..n /\ Len(rows) = n
  BY <1>1 DEF FileOf
<1>3. IsFiniteSet(1..n) /\ Cardinality(1..n) = n
  BY FS_Interval
<1>4. \A i \in 1..n : /\ rows[i].score \in 0..MaxScore
                      /\ rows[i].severity \in Ablation!Severity
  BY <1>1 DEF FileOf
<1> QED
  BY <1>2, <1>3, <1>4

LEMMA ClassificationIs ==
  ASSUME NEW rows, IsFile(rows), NEW p
  PROVE  LET c == Ablation!Classification(rows, p) IN
         /\ c.tp = Cardinality(Risky(rows) \cap Caught(rows, p))
         /\ c.fp = Cardinality(Caught(rows, p) \ Risky(rows))
         /\ c.fn = Cardinality(Risky(rows) \ Caught(rows, p))
         /\ c.tn = Cardinality(DOMAIN rows \ (Risky(rows) \cup Caught(rows, p)))
         /\ c.precision \in Fractions /\ c.recall \in Fractions /\ c.fpr \in Fractions
<1> DEFINE risky  == Risky(rows)
           caught == Caught(rows, p)
           tp == Cardinality(risky \cap caught)
           fp == Cardinality(caught \ risky)
           fn == Cardinality(risky \ caught)
           tn == Cardinality(DOMAIN rows \ (risky \cup caught))
<1>1. Ablation!Classification(rows, p) =
        [tp |-> tp, fp |-> fp, fn |-> fn, tn |-> tn,
         precision |-> Ablation!Fraction(tp, tp + fp),
         recall    |-> Ablation!Fraction(tp, tp + fn),
         fpr       |-> Ablation!Fraction(fp, fp + tn)]
  BY AblationCardinality, Zenon DEF Ablation!Classification, Risky, Caught
<1>2. risky \subseteq DOMAIN rows /\ caught \subseteq DOMAIN rows
  BY DEF Risky, Caught, Ablation!Detected
<1>3. tp \in Nat /\ fp \in Nat /\ fn \in Nat /\ tn \in Nat
  <2> HIDE DEF risky, caught
  <2>1. /\ risky \cap caught \subseteq DOMAIN rows /\ caught \ risky \subseteq DOMAIN rows
        /\ risky \ caught \subseteq DOMAIN rows
        /\ DOMAIN rows \ (risky \cup caught) \subseteq DOMAIN rows
    BY <1>2
  <2> QED
    BY <2>1, FileIs, FS_Subset, FS_CardinalityType
<1> HIDE DEF tp, fp, fn, tn
<1>4. tp + fp \in Nat /\ tp + fn \in Nat /\ fp + tn \in Nat
  BY <1>3
<1>5. /\ Ablation!Fraction(tp, tp + fp) \in Fractions
      /\ Ablation!Fraction(tp, tp + fn) \in Fractions
      /\ Ablation!Fraction(fp, fp + tn) \in Fractions
  BY <1>3, <1>4, AblationFraction
<1> QED
  BY <1>1, <1>5 DEF tp, fp, fn, tn

(* Profiles that decide alike are classified alike.                         *)
LEMMA AlikeProfiles ==
  ASSUME NEW rows, NEW p, NEW u,
         \A i \in DOMAIN rows : Ablation!Decision(rows[i], p) = Ablation!Decision(rows[i], u)
  PROVE  Ablation!Classification(rows, p) = Ablation!Classification(rows, u)
<1>1. Ablation!Detected(rows, p) = Ablation!Detected(rows, u)
  BY Zenon DEF Ablation!Detected
<1> QED
  BY <1>1, Zenon DEF Ablation!Classification

(* The thresholds tried stand for all that are not.                         *)
LEMMA TriedScores ==
  ASSUME NEW rows, IsFile(rows), rows # <<>>
  PROVE  /\ IsFiniteSet(Ablation!Thresholds(rows))
         /\ Ablation!Thresholds(rows) \subseteq 0..(MaxScore + 1)
         /\ \E top \in Ablation!Thresholds(rows) :
              \A i \in DOMAIN rows : ~(rows[i].score >= top)
<1> DEFINE S   == {rows[i].score : i \in DOMAIN rows}
           gap == {MaxScore - x : x \in S}
           max == Ablation!Max(S)
           C   == S \cup {max + 1}
<1>1. Ablation!Thresholds(rows) = C
  BY DEF Ablation!Thresholds
<1>2. S \subseteq 0..MaxScore /\ \A i \in DOMAIN rows : rows[i].score \in S
  BY FileIs
<1>3. S # {}
  <2>1. PICK n \in Nat : rows \in FileOf(n)
    BY DEF IsFile
  <2>2. n # 0
    BY <2>1 DEF FileOf
  <2>3. 1 \in DOMAIN rows
    BY <2>1, <2>2 DEF FileOf
  <2> QED
    BY <2>3
<1> HIDE DEF S
<1>4. gap \in SUBSET Nat /\ gap # {}
  <2>1. \A x \in S : MaxScore - x \in Nat
    BY <1>2, AblationAssumed
  <2> QED
    BY <1>3, <2>1
<1>5. PICK least \in gap : \A x \in gap : least <= x
  BY <1>4, LeastNumber
<1>6. PICK x \in S : least = MaxScore - x
  BY <1>5
<1>7. \A y \in S : x >= y
  <2> TAKE y \in S
  <2>1. MaxScore - x <= MaxScore - y
    BY <1>5, <1>6
  <2> QED
    BY <1>2, <2>1, AblationAssumed
<1>8. max \in S /\ \A y \in S : max >= y
  BY <1>7 DEF Ablation!Max
<1> HIDE DEF max
<1>9. C \subseteq 0..(MaxScore + 1)
  BY <1>2, <1>8, AblationAssumed
<1>10. \A y \in S : ~(y >= max + 1)
  <2>1. max \in Int /\ \A y \in S : y \in Int /\ max >= y
    BY <1>2, <1>8, AblationAssumed
  <2> QED
    BY <2>1
<1>11. \A i \in DOMAIN rows : ~(rows[i].score >= max + 1)
  BY <1>2, <1>10
<1>12. IsFiniteSet(C)
  <2>1. IsFiniteSet(0..(MaxScore + 1))
    BY AblationAssumed, FS_Interval
  <2> QED
    BY <1>9, <2>1, FS_Subset
<1> QED
  BY <1>1, <1>9, <1>11, <1>12

LEMMA TriedSuffice ==
  ASSUME NEW rows, IsFile(rows), rows # <<>>, NEW t \in Nat
  PROVE  \E c \in Ablation!Thresholds(rows) :
           \A i \in DOMAIN rows : (rows[i].score >= t) = (rows[i].score >= c)
<1> DEFINE F == {rows[i].score : i \in {j \in DOMAIN rows : rows[j].score >= t}}
<1>1. \A i \in DOMAIN rows : rows[i].score \in Nat
  BY FileIs, AblationAssumed
<1>2. F \in SUBSET Nat
  BY <1>1
<1>3. CASE F = {}
  <2>1. PICK top \in Ablation!Thresholds(rows) :
          \A i \in DOMAIN rows : ~(rows[i].score >= top)
    BY TriedScores
  <2>2. \A i \in DOMAIN rows : ~(rows[i].score >= t)
    BY <1>3
  <2> QED
    BY <2>1, <2>2
<1>4. CASE F # {}
  <2>1. PICK c \in F : \A x \in F : c <= x
    BY <1>2, <1>4, LeastNumber
  <2>2. c \in Nat /\ c >= t /\ \E i \in DOMAIN rows : c = rows[i].score
    BY <1>2, <2>1
  <2>3. c \in Ablation!Thresholds(rows)
    BY <2>2 DEF Ablation!Thresholds
  <2>4. ASSUME NEW i \in DOMAIN rows
        PROVE  (rows[i].score >= t) = (rows[i].score >= c)
    <3>1. rows[i].score \in Nat
      BY <1>1
    <3>2. rows[i].score >= t => rows[i].score >= c
      <4> HAVE rows[i].score >= t
      <4>1. rows[i].score \in F
        OBVIOUS
      <4> HIDE DEF F
      <4> QED
        BY <2>1, <2>2, <3>1, <4>1
    <3>3. rows[i].score >= c => rows[i].score >= t
      BY <2>2, <3>1
    <3> QED
      BY <3>2, <3>3
  <2> QED
    BY <2>3, <2>4
<1> QED
  BY <1>3, <1>4

LEMMA CpdDecides ==
  ASSUME NEW row, NEW production, NEW t
  PROVE  Ablation!Decision(row, Ablation!Cpd(production, t)) =
           IF (IF production THEN row.alarm ELSE row.score >= t)
             THEN "block" ELSE "allow"
BY DEF Ablation!Decision, Ablation!Cpd, Ablation!CpdAlarm

LEMMA FusionDecides ==
  ASSUME NEW row, NEW production, NEW t
  PROVE  Ablation!Decision(row, Ablation!Fusion(production, t)) =
           Ablation!Fuse("analysis", row.severity,
                         IF production THEN row.alarm ELSE row.score >= t)
BY DEF Ablation!Decision, Ablation!Fusion, Ablation!CpdAlarm

LEMMA SemanticDecides ==
  ASSUME NEW row, NEW policy
  PROVE  Ablation!Decision(row, Ablation!Semantic(policy)) =
           CASE row.severity = "Unsafe" -> "block"
             [] row.severity = "Controversial" /\ policy = "controversial_or_unsafe" ->
                  "review"
             [] OTHER -> "allow"
BY DEF Ablation!Decision, Ablation!Semantic

CpdAt(t)    == Ablation!Cpd(FALSE, t)
FusionAt(t) == Ablation!Fusion(FALSE, t)

LEMMA AtThreshold ==
  ASSUME NEW row, NEW t
  PROVE  /\ Ablation!Decision(row, CpdAt(t)) =
              IF row.score >= t THEN "block" ELSE "allow"
         /\ Ablation!Decision(row, FusionAt(t)) =
              Ablation!Fuse("analysis", row.severity, row.score >= t)
         /\ CpdAt(t).method = "cpd_only" /\ CpdAt(t).threshold = t
         /\ FusionAt(t).method = "fusion" /\ FusionAt(t).threshold = t
<1>1. /\ CpdAt(t).method = "cpd_only" /\ CpdAt(t).threshold = t
      /\ FusionAt(t).method = "fusion" /\ FusionAt(t).threshold = t
  BY DEF CpdAt, FusionAt, Ablation!Cpd, Ablation!Fusion
<1>2. Ablation!Decision(row, CpdAt(t)) = IF row.score >= t THEN "block" ELSE "allow"
  BY CpdDecides, Zenon DEF CpdAt
<1>3. Ablation!Decision(row, FusionAt(t)) =
        Ablation!Fuse("analysis", row.severity, row.score >= t)
  BY FusionDecides, Zenon DEF FusionAt
<1> QED
  BY <1>1, <1>2, <1>3

(* A threshold of a profile that no score was, and the one tried for it.    *)
LEMMA AlikeThresholds ==
  ASSUME NEW rows, NEW t, NEW c,
         \A i \in DOMAIN rows : (rows[i].score >= t) = (rows[i].score >= c)
  PROVE  /\ Ablation!Classification(rows, CpdAt(t))
              = Ablation!Classification(rows, CpdAt(c))
         /\ Ablation!Classification(rows, FusionAt(t))
              = Ablation!Classification(rows, FusionAt(c))
<1>1. ASSUME NEW i \in DOMAIN rows
      PROVE  /\ Ablation!Decision(rows[i], CpdAt(t))
                  = Ablation!Decision(rows[i], CpdAt(c))
             /\ Ablation!Decision(rows[i], FusionAt(t))
                  = Ablation!Decision(rows[i], FusionAt(c))
  <2>1. (rows[i].score >= t) = (rows[i].score >= c)
    OBVIOUS
  <2>2. \A x : Ablation!Decision(rows[i], CpdAt(x)) =
                 IF rows[i].score >= x THEN "block" ELSE "allow"
    BY AtThreshold
  <2>3. \A x : Ablation!Decision(rows[i], FusionAt(x)) =
                 Ablation!Fuse("analysis", rows[i].severity, rows[i].score >= x)
    BY AtThreshold, Zenon
  <2> QED
    BY <2>1, <2>2, <2>3, Zenon
<1> QED
  BY <1>1, AlikeProfiles, Zenon

Policies == {"unsafe_only", "controversial_or_unsafe"}

LEMMA CandidatesOf ==
  ASSUME NEW T
  PROVE  /\ Ablation!CandidatesFrom("semantic_only", T)
              = {Ablation!Semantic(policy) : policy \in Policies}
         /\ Ablation!CandidatesFrom("cpd_only", T) = {CpdAt(t) : t \in T}
         /\ Ablation!CandidatesFrom("fusion", T) = {FusionAt(t) : t \in T}
BY Zenon DEF Ablation!CandidatesFrom, Policies, CpdAt, FusionAt

LEMMA CandidatesAreRanked ==
  ASSUME NEW rows, IsFile(rows), rows # <<>>, NEW m \in Ablation!Method
  PROVE  LET C == Ablation!CandidatesFrom(m, Ablation!Thresholds(rows)) IN
         /\ IsFiniteSet(C) /\ C # {}
         /\ \A p \in C : p.method = m /\ p.threshold \in Nat
<1> DEFINE T == Ablation!Thresholds(rows)
<1>1. IsFiniteSet(T) /\ T # {}
  BY TriedScores
<1>2. \A t \in T : t \in Nat
  BY TriedScores, AblationAssumed
<1> HIDE DEF T
<1>3. IsFiniteSet({CpdAt(t) : t \in T})
  <2> DEFINE R == {CpdAt(t) : t \in T}
             f == [t \in T |-> CpdAt(t)]
  <2>1. f \in Surjection(T, R)
    BY DEF Surjection
  <2> HIDE DEF f, R
  <2>2. IsFiniteSet(R)
    BY <1>1, <2>1, FS_Surjection
  <2> QED
    BY <2>2 DEF R
<1>4. IsFiniteSet({FusionAt(t) : t \in T})
  <2> DEFINE R == {FusionAt(t) : t \in T}
             f == [t \in T |-> FusionAt(t)]
  <2>1. f \in Surjection(T, R)
    BY DEF Surjection
  <2> HIDE DEF f, R
  <2>2. IsFiniteSet(R)
    BY <1>1, <2>1, FS_Surjection
  <2> QED
    BY <2>2 DEF R
<1>5. IsFiniteSet({Ablation!Semantic(policy) : policy \in Policies})
  <2>1. {Ablation!Semantic(policy) : policy \in Policies} =
          {Ablation!Semantic("unsafe_only")}
            \cup {Ablation!Semantic("controversial_or_unsafe")}
    BY DEF Policies
  <2>2. \A x : IsFiniteSet({x})
    BY FS_Singleton
  <2> QED
    BY <2>1, <2>2, FS_Union
<1>6. CASE m = "semantic_only"
  <2>1. Ablation!CandidatesFrom(m, T) = {Ablation!Semantic(policy) : policy \in Policies}
    BY <1>6, CandidatesOf
  <2>2. \A policy : /\ Ablation!Semantic(policy).method = m
                    /\ Ablation!Semantic(policy).threshold \in Nat
    BY <1>6 DEF Ablation!Semantic
  <2>3. Policies # {}
    BY DEF Policies
  <2> QED
    BY <1>5, <2>1, <2>2, <2>3 DEF T
<1>7. CASE m = "cpd_only"
  <2>1. Ablation!CandidatesFrom(m, T) = {CpdAt(t) : t \in T}
    BY <1>7, CandidatesOf
  <2>2. \A t : CpdAt(t).method = m /\ CpdAt(t).threshold = t
    BY <1>7, AtThreshold
  <2> QED
    BY <1>1, <1>2, <1>3, <2>1, <2>2 DEF T
<1>8. CASE m = "fusion"
  <2>1. Ablation!CandidatesFrom(m, T) = {FusionAt(t) : t \in T}
    BY <1>8, CandidatesOf
  <2>2. \A t : FusionAt(t).method = m /\ FusionAt(t).threshold = t
    BY <1>8, AtThreshold
  <2> QED
    BY <1>1, <1>2, <1>4, <2>1, <2>2 DEF T
<1> QED
  BY <1>6, <1>7, <1>8 DEF Ablation!Method

LEMMA CandidatesStandForAll ==
  ASSUME NEW rows, IsFile(rows), rows # <<>>,
         NEW m \in Ablation!Method, NEW p \in Ablation!Conceivable(m)
  PROVE  \E c \in Ablation!CandidatesFrom(m, Ablation!Thresholds(rows)) :
           Ablation!Classification(rows, p) = Ablation!Classification(rows, c)
<1> DEFINE T == Ablation!Thresholds(rows)
           U == 0..(MaxScore + 2)
<1>1. p \in Ablation!CandidatesFrom(m, U)
  BY DEF Ablation!Conceivable
<1>2. \A t \in U : t \in Nat
  BY AblationAssumed
<1>3. ASSUME NEW t \in U
      PROVE  \E c \in T : \A i \in DOMAIN rows :
               (rows[i].score >= t) = (rows[i].score >= c)
  BY <1>2, TriedSuffice
<1> HIDE DEF T, U
<1>4. CASE m = "semantic_only"
  BY <1>1, <1>4, CandidatesOf DEF T
<1>5. CASE m = "cpd_only"
  <2>1. PICK t \in U : p = CpdAt(t)
    BY <1>1, <1>5, CandidatesOf
  <2>2. PICK c \in T : \A i \in DOMAIN rows :
                         (rows[i].score >= t) = (rows[i].score >= c)
    BY <1>3
  <2>3. Ablation!Classification(rows, p) =
          Ablation!Classification(rows, CpdAt(c))
    BY <2>1, <2>2, AlikeThresholds
  <2>4. CpdAt(c) \in Ablation!CandidatesFrom(m, T)
    BY <1>5, CandidatesOf
  <2> QED
    BY <2>3, <2>4 DEF T
<1>6. CASE m = "fusion"
  <2>1. PICK t \in U : p = FusionAt(t)
    BY <1>1, <1>6, CandidatesOf
  <2>2. PICK c \in T : \A i \in DOMAIN rows :
                         (rows[i].score >= t) = (rows[i].score >= c)
    BY <1>3
  <2>3. Ablation!Classification(rows, p) =
          Ablation!Classification(rows, FusionAt(c))
    BY <2>1, <2>2, AlikeThresholds
  <2>4. FusionAt(c) \in Ablation!CandidatesFrom(m, T)
    BY <1>6, CandidatesOf
  <2> QED
    BY <2>3, <2>4 DEF T
<1> QED
  BY <1>4, <1>5, <1>6 DEF Ablation!Method

(* A key of a profile: three rates, then its threshold and its policy.      *)
LEMMA KeyOfFive ==
  ASSUME NEW f \in Fractions, NEW g \in Fractions, NEW h \in Fractions,
         NEW x \in Fractions, NEW y \in Fractions
  PROVE  /\ <<f, g, h>> \o <<x, y>> \in Keys(5)
         /\ (<<f, g, h>> \o <<x, y>>)[1] = f
<1> DEFINE s == <<f, g, h>>  r == <<x, y>>
<1>1. s \in Seq(Fractions) /\ r \in Seq(Fractions) /\ Len(s) = 3 /\ Len(r) = 2
  OBVIOUS
<1>2. s[1] = f
  OBVIOUS
<1> HIDE DEF s, r
<1>3. s \o r \in Seq(Fractions) /\ Len(s \o r) = 5 /\ (s \o r)[1] = s[1]
  BY <1>1, ConcatProperties
<1>4. s \o r \in [1..5 -> Fractions]
  <2> DEFINE k == s \o r
  <2>1. k \in Seq(Fractions) /\ Len(k) = 5
    BY <1>3
  <2> HIDE DEF k
  <2>2. k \in [1..Len(k) -> Fractions]
    BY <2>1, LenProperties
  <2> QED
    BY <2>1, <2>2 DEF k
<1> QED
  BY <1>2, <1>3, <1>4 DEF s, r, Keys

TiesOf(p) == <<Ablation!Whole(p.threshold),
               Ablation!Whole(IF p.policy = "unsafe_only" THEN 1 ELSE 0)>>
RecallKey(rows, p) ==
  LET c == Ablation!Classification(rows, p)
  IN  <<c.recall, c.precision, Negated(c.fpr)>> \o TiesOf(p)
RateKey(rows, p) ==
  LET c == Ablation!Classification(rows, p)
  IN  <<Negated(c.fpr), c.recall, c.precision>> \o TiesOf(p)

LEMMA KeysOfProfile ==
  ASSUME NEW rows, IsFile(rows), NEW p, p.threshold \in Nat
  PROVE  LET c == Ablation!Classification(rows, p) IN
         /\ c.fpr \in Fractions /\ c.recall \in Fractions
         /\ RecallKey(rows, p) \in Keys(5) /\ RecallKey(rows, p)[1] = c.recall
         /\ RateKey(rows, p) \in Keys(5)   /\ RateKey(rows, p)[1] = Negated(c.fpr)
<1> DEFINE c == Ablation!Classification(rows, p)
           x == Ablation!Whole(p.threshold)
           y == Ablation!Whole(IF p.policy = "unsafe_only" THEN 1 ELSE 0)
<1>1. c.precision \in Fractions /\ c.recall \in Fractions /\ c.fpr \in Fractions
  BY ClassificationIs
<1>2. x \in Fractions
  <2>1. p.threshold \in Int
    OBVIOUS
  <2> QED
    BY <2>1, AblationWhole
<1>3. y \in Fractions
  <2>1. (IF p.policy = "unsafe_only" THEN 1 ELSE 0) \in Int
    OBVIOUS
  <2> QED
    BY <2>1, AblationWhole
<1>4. TiesOf(p) = <<x, y>>
  BY DEF TiesOf
<1> HIDE DEF c, x, y
<1>5. Negated(c.fpr) \in Fractions
  BY <1>1, NegationTurns
<1>6. /\ RecallKey(rows, p) = <<c.recall, c.precision, Negated(c.fpr)>> \o <<x, y>>
      /\ RateKey(rows, p) = <<Negated(c.fpr), c.recall, c.precision>> \o <<x, y>>
  BY <1>4 DEF RecallKey, RateKey, c
<1>7. RecallKey(rows, p) \in Keys(5) /\ RecallKey(rows, p)[1] = c.recall
  BY <1>1, <1>2, <1>3, <1>5, <1>6, KeyOfFive
<1>8. RateKey(rows, p) \in Keys(5) /\ RateKey(rows, p)[1] = Negated(c.fpr)
  BY <1>1, <1>2, <1>3, <1>5, <1>6, KeyOfFive
<1> QED
  BY <1>1, <1>7, <1>8 DEF c

ByRecall(C, rows) == Ablation!Ranked(C, rows, FALSE)
ByRate(C, rows)   == Ablation!Ranked(C, rows, TRUE)

LEMMA RankedIs ==
  ASSUME NEW C, NEW rows
  PROVE  /\ ByRecall(C, rows) = Best([p \in C |-> RecallKey(rows, p)])
         /\ ByRate(C, rows) = Best([p \in C |-> RateKey(rows, p)])
<1>1. ByRecall(C, rows) = Ablation!Best([p \in C |-> RecallKey(rows, p)])
  BY AblationNegated, Zenon DEF ByRecall, Ablation!Ranked, RecallKey, TiesOf
<1>2. ByRate(C, rows) = Ablation!Best([p \in C |-> RateKey(rows, p)])
  BY AblationNegated, Zenon DEF ByRate, Ablation!Ranked, RateKey, TiesOf
<1> QED
  BY <1>1, <1>2, AblationBest, Zenon

LEMMA RankedIsBest ==
  ASSUME NEW rows, IsFile(rows),
         NEW C, IsFiniteSet(C), C # {}, \A p \in C : p.threshold \in Nat
  PROVE  LET of(p) == Ablation!Classification(rows, p) IN
         /\ ByRecall(C, rows) \in C
         /\ \A p \in C : ~Below(of(ByRecall(C, rows)).recall, of(p).recall)
         /\ ByRate(C, rows) \in C
         /\ \A p \in C : ~Below(of(p).fpr, of(ByRate(C, rows)).fpr)
<1> DEFINE of(p) == Ablation!Classification(rows, p)
           recall == [p \in C |-> RecallKey(rows, p)]
           rate   == [p \in C |-> RateKey(rows, p)]
           best   == Best(recall)
           lowest == Best(rate)
<1>1. ByRecall(C, rows) = best /\ ByRate(C, rows) = lowest
  BY RankedIs
<1>2. \A p \in C : /\ RecallKey(rows, p) \in Keys(5)
                   /\ RecallKey(rows, p)[1] = of(p).recall
                   /\ RateKey(rows, p) \in Keys(5)
                   /\ RateKey(rows, p)[1] = Negated(of(p).fpr)
                   /\ of(p).fpr \in Fractions
  BY KeysOfProfile
<1> HIDE DEF of
<1>3. recall \in [C -> Keys(5)] /\ rate \in [C -> Keys(5)]
  BY <1>2
<1>4. /\ \A p \in C : recall[p][1] = of(p).recall
      /\ \A p \in C : rate[p][1] = Negated(of(p).fpr)
  BY <1>2
<1> HIDE DEF recall, rate
<1>5. best \in C /\ \A p \in C : ~Less(recall[best], recall[p])
  BY <1>3, BestIsBest
<1>6. lowest \in C /\ \A p \in C : ~Less(rate[lowest], rate[p])
  BY <1>3, BestIsBest
<1> HIDE DEF best, lowest
<1>7. ASSUME NEW p \in C PROVE ~Below(of(best).recall, of(p).recall)
  <2>1. ~Less(recall[best], recall[p]) /\ recall[best] \in Keys(5)
    BY <1>3, <1>5
  <2>2. ~Below(recall[best][1], recall[p][1])
    BY <2>1, NotLessIs
  <2> QED
    BY <1>4, <1>5, <2>2
<1>8. ASSUME NEW p \in C PROVE ~Below(of(p).fpr, of(lowest).fpr)
  <2>1. ~Less(rate[lowest], rate[p]) /\ rate[lowest] \in Keys(5)
    BY <1>3, <1>6
  <2>2. ~Below(rate[lowest][1], rate[p][1])
    BY <2>1, NotLessIs
  <2>3. ~Below(Negated(of(lowest).fpr), Negated(of(p).fpr))
    BY <1>4, <1>6, <2>2
  <2>4. of(lowest).fpr \in Fractions /\ of(p).fpr \in Fractions
    BY <1>2, <1>6
  <2> QED
    BY <2>3, <2>4, NegationTurns
<1> QED
  BY <1>1, <1>5, <1>6, <1>7, <1>8 DEF of

(* What is frozen for a method and an operating point.                      *)
LEMMA SelectedIsBest ==
  ASSUME NEW rows, IsFile(rows), rows # <<>>, NEW m \in Ablation!Method, NEW limit
  PROVE  LET C == Ablation!CandidatesFrom(m, Ablation!Thresholds(rows))
             chosen == Ablation!SelectCandidate(C, limit, rows)
         IN  /\ chosen.profile.method = m
             /\ Ablation!IsBest(chosen, m, limit, rows)
<1> DEFINE of(p) == Ablation!Classification(rows, p)
           within(p) == ~Below(limit, of(p).fpr)
           C == Ablation!CandidatesFrom(m, Ablation!Thresholds(rows))
           S == {p \in C : within(p)}
           chosen == Ablation!SelectCandidate(C, limit, rows)
<1>1. \A p : Ablation!Within(limit, rows, p) = within(p)
  BY AblationBelow, Zenon DEF Ablation!Within
<1>2. chosen = IF S # {} THEN [profile |-> ByRecall(S, rows), satisfied |-> TRUE]
                         ELSE [profile |-> ByRate(C, rows), satisfied |-> FALSE]
  <2>1. {p \in C : Ablation!Within(limit, rows, p)} = S
    BY <1>1
  <2>2. chosen =
          LET satisfying == {p \in C : Ablation!Within(limit, rows, p)}
          IN  IF satisfying # {}
                THEN [profile |-> Ablation!Ranked(satisfying, rows, FALSE),
                      satisfied |-> TRUE]
                ELSE [profile |-> Ablation!Ranked(C, rows, TRUE), satisfied |-> FALSE]
    BY Zenon DEF Ablation!SelectCandidate
  <2> HIDE DEF S, C, chosen
  <2> QED
    BY <2>1, <2>2, Zenon DEF ByRecall, ByRate
<1>3. IsFiniteSet(C) /\ C # {} /\ \A p \in C : p.method = m /\ p.threshold \in Nat
  BY CandidatesAreRanked
<1>4. ASSUME NEW p \in Ablation!Conceivable(m) PROVE \E c \in C : of(p) = of(c)
  BY CandidatesStandForAll
<1> HIDE DEF C
<1>5. S \subseteq C /\ IsFiniteSet(S)
  BY <1>3, FS_Subset
<1>6. \A p : Ablation!Classification(rows, p) = of(p)
  OBVIOUS
<1> HIDE DEF of
<1>7. CASE S # {}
  <2> DEFINE best == ByRecall(S, rows)
  <2>1. best \in S /\ \A p \in S : ~Below(of(best).recall, of(p).recall)
    BY <1>3, <1>5, <1>7, RankedIsBest DEF of
  <2> HIDE DEF best
  <2>2. chosen.profile = best /\ chosen.satisfied = TRUE
    BY <1>2, <1>7 DEF best
  <2> HIDE DEF chosen
  <2>3. within(best) /\ best.method = m
    BY <1>3, <2>1
  <2>4. ASSUME NEW p \in Ablation!Conceivable(m), within(p)
        PROVE  ~Below(of(best).recall, of(p).recall)
    <3>1. PICK c \in C : of(p) = of(c)
      BY <1>4
    <3>2. c \in S
      BY <2>4, <3>1
    <3> QED
      BY <2>1, <3>1, <3>2
  <2>5. Ablation!IsBest(chosen, m, limit, rows)
    BY <1>1, <1>6, <2>2, <2>3, <2>4, AblationBelow, Zenon DEF Ablation!IsBest
  <2> QED
    BY <2>2, <2>3, <2>5 DEF chosen, C
<1>8. CASE S = {}
  <2> DEFINE best == ByRate(C, rows)
  <2>1. best \in C /\ \A p \in C : ~Below(of(p).fpr, of(best).fpr)
    BY <1>3, RankedIsBest DEF of
  <2> HIDE DEF best
  <2>2. chosen.profile = best /\ chosen.satisfied = FALSE
    BY <1>2, <1>8 DEF best
  <2> HIDE DEF chosen
  <2>3. ~within(best) /\ best.method = m
    BY <1>3, <1>8, <2>1
  <2>4. ASSUME NEW p \in Ablation!Conceivable(m)
        PROVE  ~within(p) /\ ~Below(of(p).fpr, of(best).fpr)
    <3>1. PICK c \in C : of(p) = of(c)
      BY <1>4
    <3>2. ~within(c)
      BY <1>8
    <3> QED
      BY <2>1, <3>1, <3>2
  <2>5. chosen.satisfied = Ablation!Within(limit, rows, chosen.profile)
    <3>1. within(best) = FALSE
      BY <2>3
    <3> QED
      BY <1>1, <2>2, <3>1, Zenon
  <2>6. ASSUME NEW p \in Ablation!Conceivable(m)
        PROVE  /\ ~Ablation!Within(limit, rows, p)
               /\ ~Ablation!Below(Ablation!Classification(rows, p).fpr,
                                  Ablation!Classification(rows, chosen.profile).fpr)
    <3>1. ~within(p) /\ ~Below(of(p).fpr, of(best).fpr)
      BY <2>4
    <3>2. Ablation!Within(limit, rows, p) = FALSE
      <4>1. within(p) = FALSE
        BY <3>1
      <4> QED
        BY <1>1, <4>1, Zenon
    <3>3. ~Ablation!Below(of(p).fpr, of(best).fpr)
      BY <3>1, AblationBelow
    <3>4. /\ Ablation!Classification(rows, p) = of(p)
          /\ Ablation!Classification(rows, chosen.profile) = of(best)
      BY <1>6, <2>2, Zenon
    <3> QED
      BY <3>2, <3>3, <3>4, Zenon
  <2>7. Ablation!IsBest(chosen, m, limit, rows)
    BY <2>2, <2>5, <2>6, Zenon DEF Ablation!IsBest
  <2> QED
    BY <2>2, <2>3, <2>7 DEF chosen, C
<1> QED
  BY <1>7, <1>8
-----------------------------------------------------------------------------
(* A sum over a set takes an element of it at a time; any counting of       *)
(* subsets that does so is that sum.                                        *)
SumStep(w, g, s) == IF s = {} THEN 0
                    ELSE w[CHOOSE x \in s : TRUE] + g[s \ {CHOOSE x \in s : TRUE}]
IsSum(g, w, S) == g = [s \in SUBSET S |-> SumStep(w, g, s)]
Total(w, S) == (CHOOSE g : IsSum(g, w, S))[S]

LEMMA CountsSum ==
  ASSUME NEW r, NEW w, NEW S, \A d \in S : r.domains[d].count = w[d]
  PROVE  Ablation!MapThenSumSet(LAMBDA d : r.domains[d].count, S) = Total(w, S)
<1> DEFINE F(g) == g = [s \in SUBSET S |->
                         IF s = {} THEN 0
                         ELSE r.domains[CHOOSE x \in s : TRUE].count
                                + g[s \ {CHOOSE x \in s : TRUE}]]
<1>1. Ablation!MapThenSumSet(LAMBDA d : r.domains[d].count, S) = (CHOOSE g : F(g))[S]
  BY DEF Ablation!MapThenSumSet, Ablation!MapThenFoldSet
<1>2. ASSUME NEW g PROVE F(g) <=> IsSum(g, w, S)
  <2>1. ASSUME NEW s \in SUBSET S, s # {}
        PROVE  r.domains[CHOOSE x \in s : TRUE].count = w[CHOOSE x \in s : TRUE]
    <3>1. (CHOOSE x \in s : TRUE) \in s
      BY <2>1
    <3> QED
      BY <3>1
  <2>2. \A s \in SUBSET S :
          (IF s = {} THEN 0 ELSE r.domains[CHOOSE x \in s : TRUE].count
                                   + g[s \ {CHOOSE x \in s : TRUE}])
            = SumStep(w, g, s)
    <3> TAKE s \in SUBSET S
    <3> DEFINE x == CHOOSE y \in s : TRUE
    <3>1. CASE s = {}
      BY <3>1 DEF SumStep
    <3>2. CASE s # {}
      <4>1. r.domains[x].count = w[x]
        BY <2>1, <3>2
      <4>2. SumStep(w, g, s) = w[x] + g[s \ {x}]
        BY <3>2 DEF SumStep
      <4> QED
        BY <3>2, <4>1, <4>2, Zenon
    <3> QED
      BY <3>1, <3>2
  <2> QED
    BY <2>2, Zenon DEF IsSum
<1> HIDE DEF F
<1> QED
  BY <1>1, <1>2, Zenon DEF Total

LEMMA DetectionsSum ==
  ASSUME NEW r, NEW w, NEW S, \A d \in S : r.domains[d].detected = w[d]
  PROVE  Ablation!MapThenSumSet(LAMBDA d : r.domains[d].detected, S) = Total(w, S)
<1> DEFINE F(g) == g = [s \in SUBSET S |->
                         IF s = {} THEN 0
                         ELSE r.domains[CHOOSE x \in s : TRUE].detected
                                + g[s \ {CHOOSE x \in s : TRUE}]]
<1>1. Ablation!MapThenSumSet(LAMBDA d : r.domains[d].detected, S) = (CHOOSE g : F(g))[S]
  BY DEF Ablation!MapThenSumSet, Ablation!MapThenFoldSet
<1>2. ASSUME NEW g PROVE F(g) <=> IsSum(g, w, S)
  <2>1. ASSUME NEW s \in SUBSET S, s # {}
        PROVE  r.domains[CHOOSE x \in s : TRUE].detected = w[CHOOSE x \in s : TRUE]
    <3>1. (CHOOSE x \in s : TRUE) \in s
      BY <2>1
    <3> QED
      BY <3>1
  <2>2. \A s \in SUBSET S :
          (IF s = {} THEN 0 ELSE r.domains[CHOOSE x \in s : TRUE].detected
                                   + g[s \ {CHOOSE x \in s : TRUE}])
            = SumStep(w, g, s)
    <3> TAKE s \in SUBSET S
    <3> DEFINE x == CHOOSE y \in s : TRUE
    <3>1. CASE s = {}
      BY <3>1 DEF SumStep
    <3>2. CASE s # {}
      <4>1. r.domains[x].detected = w[x]
        BY <2>1, <3>2
      <4>2. SumStep(w, g, s) = w[x] + g[s \ {x}]
        BY <3>2 DEF SumStep
      <4> QED
        BY <3>2, <4>1, <4>2, Zenon
    <3> QED
      BY <3>1, <3>2
  <2> QED
    BY <2>2, Zenon DEF IsSum
<1> HIDE DEF F
<1> QED
  BY <1>1, <1>2, Zenon DEF Total

LEMMA TotalIs ==
  ASSUME NEW S, IsFiniteSet(S), NEW w, NEW count \in [SUBSET S -> Nat],
         \A s \in SUBSET S : count[s] = SumStep(w, count, s)
  PROVE  Total(w, S) = count[S]
<1> DEFINE g == CHOOSE f : IsSum(f, w, S)
           bad == {s \in SUBSET S : g[s] # count[s]}
           sizes == {Cardinality(s) : s \in bad}
<1>1. IsSum(count, w, S)
  BY DEF IsSum
<1>2. IsSum(g, w, S)
  BY <1>1, Zenon
<1>3. \A s \in SUBSET S : g[s] = SumStep(w, g, s)
  <2> HIDE DEF g
  <2> QED
    BY <1>2 DEF IsSum
<1> HIDE DEF g
<1>4. bad = {}
  <2> SUFFICES ASSUME bad # {} PROVE FALSE
    OBVIOUS
  <2>1. \A s \in SUBSET S : IsFiniteSet(s) /\ Cardinality(s) \in Nat
    BY FS_Subset, FS_CardinalityType
  <2>2. sizes \in SUBSET Nat /\ sizes # {}
    BY <2>1
  <2>3. PICK least \in sizes : \A x \in sizes : least <= x
    BY <2>2, LeastNumber
  <2>4. PICK s \in bad : least = Cardinality(s)
    BY <2>3
  <2>5. s \in SUBSET S /\ g[s] # count[s]
    OBVIOUS
  <2>6. s # {}
    BY <1>3, <2>5 DEF SumStep
  <2> DEFINE x == CHOOSE y \in s : TRUE
  <2>7. x \in s
    BY <2>6
  <2> HIDE DEF x
  <2>8. IsFiniteSet(s \ {x}) /\ Cardinality(s \ {x}) = Cardinality(s) - 1
    BY <2>1, <2>5, <2>7, FS_RemoveElement
  <2>9. s \ {x} \in SUBSET S
    BY <2>5
  <2>10. s \ {x} \notin bad
    <3>1. Cardinality(s) \in Nat /\ ~(Cardinality(s) <= Cardinality(s \ {x}))
      BY <2>1, <2>5, <2>8
    <3>2. Cardinality(s \ {x}) \notin sizes
      <4> HIDE DEF sizes
      <4> QED
        BY <2>3, <2>4, <3>1
    <3> QED
      BY <3>2
  <2>11. g[s \ {x}] = count[s \ {x}]
    BY <2>9, <2>10
  <2>12. /\ g[s] = w[x] + g[s \ {x}]
         /\ count[s] = w[x] + count[s \ {x}]
    BY <1>3, <2>5, <2>6 DEF SumStep, x
  <2> QED
    BY <2>5, <2>11, <2>12
<1>5. g[S] = count[S]
  BY <1>4
<1> QED
  BY <1>5 DEF Total, g

(* The rows of some indices, counted domain by domain.                      *)
InDomain(rows, I, d) == {i \in I : rows[i].domain = d}

LEMMA DomainsCountAll ==
  ASSUME NEW rows, NEW I, IsFiniteSet(I), NEW S, IsFiniteSet(S), NEW w,
         \A d \in S : w[d] = Cardinality(InDomain(rows, I, d))
  PROVE  Total(w, S) = Cardinality({i \in I : rows[i].domain \in S})
<1> DEFINE In(s) == {i \in I : rows[i].domain \in s}
           count == [s \in SUBSET S |-> Cardinality(In(s))]
<1>1. \A s : IsFiniteSet(In(s)) /\ Cardinality(In(s)) \in Nat
  BY FS_Subset, FS_CardinalityType
<1>2. count \in [SUBSET S -> Nat]
  BY <1>1
<1>3. ASSUME NEW s \in SUBSET S PROVE count[s] = SumStep(w, count, s)
  <2>1. CASE s = {}
    <3>1. In(s) = {}
      BY <2>1
    <3>2. count[s] = 0
      BY <3>1, FS_EmptySet
    <3> QED
      BY <2>1, <3>2 DEF SumStep
  <2>2. CASE s # {}
    <3> DEFINE x == CHOOSE y \in s : TRUE
    <3>1. x \in s
      BY <2>2
    <3>2. SumStep(w, count, s) = w[x] + count[s \ {x}]
      BY <2>2 DEF SumStep
    <3> HIDE DEF x
    <3>3. In(s) = InDomain(rows, I, x) \cup In(s \ {x})
      BY <3>1 DEF InDomain
    <3>4. InDomain(rows, I, x) \cap In(s \ {x}) = {}
      BY DEF InDomain
    <3>5. IsFiniteSet(InDomain(rows, I, x))
      BY FS_Subset DEF InDomain
    <3>6. count[s] = Cardinality(In(s)) /\ count[s \ {x}] = Cardinality(In(s \ {x}))
      OBVIOUS
    <3>7. w[x] = Cardinality(InDomain(rows, I, x))
      BY <3>1
    <3> HIDE DEF In, count
    <3>8. Cardinality(In(s)) = Cardinality(InDomain(rows, I, x)) + Cardinality(In(s \ {x}))
      <4>1. Cardinality(InDomain(rows, I, x) \cap In(s \ {x})) = 0
        BY <3>4, FS_EmptySet
      <4>2. /\ Cardinality(InDomain(rows, I, x)) \in Nat
            /\ Cardinality(In(s \ {x})) \in Nat
        BY <1>1, <3>5, FS_CardinalityType
      <4>3. IsFiniteSet(In(s \ {x}))
        BY <1>1
      <4>4. Cardinality(InDomain(rows, I, x) \cup In(s \ {x})) =
              Cardinality(InDomain(rows, I, x)) + Cardinality(In(s \ {x}))
                - Cardinality(InDomain(rows, I, x) \cap In(s \ {x}))
        BY <3>5, <4>3, FS_Union, Zenon
      <4>5. Cardinality(In(s)) =
              Cardinality(InDomain(rows, I, x) \cup In(s \ {x}))
        BY <3>3, Zenon
      <4> QED
        BY <4>1, <4>2, <4>4, <4>5
    <3> QED
      BY <3>2, <3>6, <3>7, <3>8
  <2> QED
    BY <2>1, <2>2
<1>4. count[S] = Cardinality(In(S))
  OBVIOUS
<1> HIDE DEF count
<1> QED
  BY <1>2, <1>3, <1>4, TotalIs

LEMMA SplitCount ==
  ASSUME NEW A, IsFiniteSet(A), NEW B
  PROVE  Cardinality(A \cap B) + Cardinality(A \ B) = Cardinality(A)
<1>1. Cardinality(A) \in Nat /\ Cardinality(A \cap B) \in Nat
  BY FS_Intersection, FS_CardinalityType
<1>2. Cardinality(A \ B) = Cardinality(A) - Cardinality(A \cap B)
  BY FS_Difference
<1> QED
  BY <1>1, <1>2

(* What a profile of a method does to a row: one of three things.           *)
Decides(rows, p) ==
  \A i \in DOMAIN rows : Ablation!Decision(rows[i], p) \in {"allow", "review", "block"}

LEMMA FuseIsAnAction ==
  ASSUME NEW severity, NEW alarm
  PROVE  Ablation!Fuse("analysis", severity, alarm) \in {"allow", "review", "block"}
BY DEF Ablation!Fuse

LEMMA MethodsDecide ==
  ASSUME NEW rows, NEW p, p.method \in Ablation!Method
  PROVE  Decides(rows, p)
<1> SUFFICES ASSUME NEW i \in DOMAIN rows
             PROVE  Ablation!Decision(rows[i], p) \in {"allow", "review", "block"}
  BY DEF Decides
<1>1. CASE p.method = "semantic_only"
  BY <1>1 DEF Ablation!Decision
<1>2. CASE p.method = "cpd_only"
  BY <1>2 DEF Ablation!Decision
<1>3. CASE p.method = "fusion"
  <2>1. Ablation!Decision(rows[i], p) =
          Ablation!Fuse("analysis", rows[i].severity, Ablation!CpdAlarm(rows[i], p))
    BY <1>3 DEF Ablation!Decision
  <2> QED
    BY <2>1, FuseIsAnAction
<1> QED
  BY <1>1, <1>2, <1>3 DEF Ablation!Method

(* The rows by what was done to them, and by their domains, add up to the   *)
(* same counts.                                                             *)
LEMMA ActionsAddUp ==
  ASSUME NEW rows, IsFile(rows), NEW p, Decides(rows, p)
  PROVE  LET c == Ablation!Classification(rows, p)
             done(a) == Cardinality({i \in DOMAIN rows : Ablation!Decision(rows[i], p) = a})
         IN  /\ c.tp + c.fp = done("review") + done("block")
             /\ c.fn + c.tn = done("allow")
<1> DEFINE D == DOMAIN rows
           R == Risky(rows)
           A == Caught(rows, p)
           On(a) == {i \in D : Ablation!Decision(rows[i], p) = a}
           c == Ablation!Classification(rows, p)
<1>1. IsFiniteSet(D) /\ R \subseteq D /\ A \subseteq D
  BY FileIs DEF Risky, Caught, Ablation!Detected
<1>2. /\ c.tp = Cardinality(R \cap A) /\ c.fp = Cardinality(A \ R)
      /\ c.fn = Cardinality(R \ A) /\ c.tn = Cardinality(D \ (R \cup A))
  BY ClassificationIs
<1>3. A \cap On("review") = On("review") /\ A \ On("review") = On("block")
  BY DEF Caught, Ablation!Detected, Decides
<1>4. D \ A = On("allow")
  BY DEF Caught, Ablation!Detected
<1> HIDE DEF D, R, A, On, c
<1>5. IsFiniteSet(A) /\ IsFiniteSet(D \ A)
  BY <1>1, FS_Subset
<1>6. Cardinality(A \cap R) + Cardinality(A \ R) = Cardinality(A)
  BY <1>5, SplitCount
<1>7. Cardinality(On("review")) + Cardinality(On("block")) = Cardinality(A)
  BY <1>3, <1>5, SplitCount
<1>8. Cardinality((D \ A) \cap R) + Cardinality((D \ A) \ R) = Cardinality(D \ A)
  BY <1>5, SplitCount
<1>9. A \cap R = R \cap A /\ (D \ A) \cap R = R \ A /\ (D \ A) \ R = D \ (R \cup A)
  BY <1>1
<1>10. c.tp + c.fp = Cardinality(On("review")) + Cardinality(On("block"))
  BY <1>2, <1>6, <1>7, <1>9
<1>11. c.fn + c.tn = Cardinality(On("allow"))
  BY <1>2, <1>4, <1>8, <1>9
<1> QED
  BY <1>10, <1>11 DEF On, D, c

Domains(rows) == {rows[i].domain : i \in DOMAIN rows}

LEMMA DomainsAreFinite ==
  ASSUME NEW rows, IsFile(rows)
  PROVE  IsFiniteSet(Domains(rows))
<1> DEFINE f == [i \in DOMAIN rows |-> rows[i].domain]
<1>1. f \in Surjection(DOMAIN rows, Domains(rows))
  BY DEF Surjection, Domains
<1> HIDE DEF f
<1> QED
  BY <1>1, FileIs, FS_Surjection

LEMMA ReportAddsUp ==
  ASSUME NEW rows, IsFile(rows), NEW p, p.method \in Ablation!Method
  PROVE  Ablation!AddsUp(Ablation!MethodReport(rows, p), rows)
<1> DEFINE r == Ablation!MethodReport(rows, p)
           D == DOMAIN rows
           A == Caught(rows, p)
           S == Domains(rows)
           count    == [d \in S |-> Cardinality(InDomain(rows, D, d))]
           detected == [d \in S |-> Cardinality(InDomain(rows, A, d))]
<1>1. /\ r.metrics = Ablation!Classification(rows, p)
      /\ \A a \in {"allow", "review", "block"} :
           r.actions[a] = Cardinality({i \in D : Ablation!Decision(rows[i], p) = a})
  <2>1. r.metrics = Ablation!Classification(rows, p)
    BY DEF Ablation!MethodReport
  <2>2. r.actions = [a \in {"allow", "review", "block"} |->
                       Ablation!Cardinality({i \in D : Ablation!Decision(rows[i], p) = a})]
    BY DEF Ablation!MethodReport
  <2> HIDE DEF r
  <2> QED
    BY <2>1, <2>2, AblationCardinality
<1>2. DOMAIN r.domains = S /\ \A d \in S : /\ r.domains[d].count = count[d]
                                           /\ r.domains[d].detected = detected[d]
  <2>1. r.domains =
          [d \in S |-> [count    |-> Ablation!Cardinality(InDomain(rows, D, d)),
                        detected |-> Ablation!Cardinality(InDomain(rows, D, d) \cap A)]]
    BY DEF Ablation!MethodReport, InDomain, Domains, Caught
  <2>2. \A d : InDomain(rows, D, d) \cap A = InDomain(rows, A, d)
    BY DEF InDomain, Caught, Ablation!Detected
  <2>3. r.domains =
          [d \in S |-> [count    |-> Cardinality(InDomain(rows, D, d)),
                        detected |-> Cardinality(InDomain(rows, A, d))]]
    BY <2>1, <2>2, AblationCardinality
  <2> HIDE DEF r, D, A, S
  <2> QED
    BY <2>3
<1>3. IsFiniteSet(D) /\ Cardinality(D) = Len(rows) /\ IsFiniteSet(S)
  BY FileIs, DomainsAreFinite
<1>4. A \subseteq D /\ IsFiniteSet(A)
  BY <1>3, FS_Subset DEF Caught, Ablation!Detected
<1>5. \A i \in D : rows[i].domain \in S
  BY DEF Domains
<1>6. {i \in A : rows[i].domain \in S \ Ablation!Benign} = Risky(rows) \cap A
  BY <1>4, <1>5 DEF Risky, Ablation!LabelRisky
<1>7. {i \in D : rows[i].domain \in S} = D
  BY <1>5
<1>8. /\ r.metrics.tp + r.metrics.fp = r.actions["review"] + r.actions["block"]
      /\ r.metrics.fn + r.metrics.tn = r.actions["allow"]
  <2>1. Decides(rows, p)
    BY MethodsDecide
  <2> HIDE DEF r
  <2> QED
    BY <1>1, <2>1, ActionsAddUp
<1>9. r.metrics.tp = Cardinality(Risky(rows) \cap A)
  <2> HIDE DEF r
  <2> QED
    BY <1>1, ClassificationIs
<1> HIDE DEF r, D, A, S
<1>10. /\ \A d \in S : count[d] = Cardinality(InDomain(rows, D, d))
       /\ \A d \in S \ Ablation!Benign : detected[d] = Cardinality(InDomain(rows, A, d))
  OBVIOUS
<1> HIDE DEF count, detected
<1>11. Ablation!MapThenSumSet(LAMBDA d : r.domains[d].count, DOMAIN r.domains) = Len(rows)
  <2>1. Ablation!MapThenSumSet(LAMBDA d : r.domains[d].count, S) = Total(count, S)
    BY <1>2, CountsSum
  <2>2. Total(count, S) = Cardinality({i \in D : rows[i].domain \in S})
    <3>1. IsFiniteSet(D) /\ IsFiniteSet(S)
      BY <1>3
    <3>2. \A d \in S : count[d] = Cardinality(InDomain(rows, D, d))
      BY <1>10
    <3> QED
      BY <3>1, <3>2, DomainsCountAll, SMTT(30)
  <2>3. DOMAIN r.domains = S
    BY <1>2
  <2> QED
    BY <1>3, <1>7, <2>1, <2>2, <2>3, Zenon
<1>12. Ablation!MapThenSumSet(LAMBDA d : r.domains[d].detected,
                              DOMAIN r.domains \ Ablation!Benign) = r.metrics.tp
  <2> DEFINE U == S \ Ablation!Benign
  <2>1. IsFiniteSet(U) /\ U \subseteq S
    BY <1>3, FS_Subset
  <2>2. \A d \in U : r.domains[d].detected = detected[d]
    BY <1>2, <2>1
  <2>3. \A d \in U : detected[d] = Cardinality(InDomain(rows, A, d))
    BY <1>10
  <2>4. {i \in A : rows[i].domain \in U} = Risky(rows) \cap A
    BY <1>6
  <2>5. DOMAIN r.domains \ Ablation!Benign = U
    BY <1>2
  <2> HIDE DEF U
  <2>6. Ablation!MapThenSumSet(LAMBDA d : r.domains[d].detected, U) = Total(detected, U)
    BY <2>2, DetectionsSum
  <2>7. Total(detected, U) = Cardinality({i \in A : rows[i].domain \in U})
    BY <1>4, <2>1, <2>3, DomainsCountAll
  <2> QED
    BY <1>9, <2>4, <2>5, <2>6, <2>7, Zenon
<1> QED
  BY <1>8, <1>11, <1>12, Zenon DEF r, Ablation!AddsUp

(* The deployed fusion catches what one of the deployed methods does.       *)
DeployedOf(m) == Ablation!Production(m)

LEMMA FusionIsTheUnion ==
  ASSUME NEW rows, IsFile(rows)
  PROVE  Ablation!Detected(rows, DeployedOf("fusion"))
           = Ablation!Detected(rows, DeployedOf("semantic_only"))
               \cup Ablation!Detected(rows, DeployedOf("cpd_only"))
<1> DEFINE alarm(i) == rows[i].alarm
           d(m, i) == Ablation!Decision(rows[i], DeployedOf(m))
<1>1. ASSUME NEW i \in DOMAIN rows
      PROVE  /\ d("semantic_only", i) # "allow" <=>
                  rows[i].severity \in {"Unsafe", "Controversial"}
             /\ d("cpd_only", i) # "allow" <=> alarm(i)
             /\ d("fusion", i) # "allow" <=>
                  rows[i].severity \in {"Unsafe", "Controversial"} \/ alarm(i)
  <2>1. /\ DeployedOf("semantic_only").method = "semantic_only"
        /\ DeployedOf("semantic_only").policy = "controversial_or_unsafe"
        /\ DeployedOf("cpd_only").method = "cpd_only"
        /\ DeployedOf("cpd_only").production = TRUE
        /\ DeployedOf("fusion").method = "fusion"
        /\ DeployedOf("fusion").production = TRUE
    BY DEF DeployedOf, Ablation!Production, Ablation!Semantic, Ablation!Cpd,
           Ablation!Fusion
  <2>2. rows[i].severity \in Ablation!Severity
    BY FileIs
  <2>3. d("semantic_only", i) # "allow" <=>
          rows[i].severity \in {"Unsafe", "Controversial"}
    BY <2>1 DEF Ablation!Decision
  <2>4. /\ Ablation!CpdAlarm(rows[i], DeployedOf("cpd_only")) = alarm(i)
        /\ Ablation!CpdAlarm(rows[i], DeployedOf("fusion")) = alarm(i)
    BY <2>1 DEF Ablation!CpdAlarm
  <2> HIDE DEF alarm
  <2>5. d("cpd_only", i) # "allow" <=> alarm(i)
    BY <2>1, <2>4 DEF Ablation!Decision
  <2>6. d("fusion", i) = Ablation!Fuse("analysis", rows[i].severity, alarm(i))
    BY <2>1, <2>4 DEF Ablation!Decision
  <2>7. Ablation!Fuse("analysis", rows[i].severity, alarm(i)) # "allow" <=>
          rows[i].severity \in {"Unsafe", "Controversial"} \/ alarm(i)
    BY <2>2 DEF Ablation!Fuse, Ablation!Severity
  <2> QED
    BY <2>3, <2>5, <2>6, <2>7
<1>2. \A m : Ablation!Detected(rows, DeployedOf(m)) =
               {i \in DOMAIN rows : d(m, i) # "allow"}
  BY DEF Ablation!Detected
<1> HIDE DEF d, alarm
<1>3. {i \in DOMAIN rows : d("fusion", i) # "allow"} =
        {i \in DOMAIN rows : d("semantic_only", i) # "allow"}
          \cup {i \in DOMAIN rows : d("cpd_only", i) # "allow"}
  BY <1>1
<1> QED
  BY <1>2, <1>3
-----------------------------------------------------------------------------
AblationInv ==
  /\ ablation \in {"select", "read", "evaluate", "done"}
  /\ ablation = "select" => observations \in Ablation!DevFiles
  /\ ablation = "evaluate" => observations \in Ablation!TestFiles
  /\ ablation # "select" =>
       \A m \in Ablation!Method :
         /\ points[m]["production"].profile = DeployedOf(m)
         /\ \A point \in Ablation!Point : points[m][point].profile.method = m

LEMMA DevFilesAre ==
  ASSUME NEW rows \in Ablation!DevFiles PROVE IsFile(rows) /\ rows # <<>>
<1> DEFINE T == Ablation!Observation(DevDomain, DevAlarm)
<1>1. /\ rows \in Ablation!BoundedSeq(T, MaxDev)
      /\ {Ablation!LabelRisky(rows[i]) : i \in DOMAIN rows} = BOOLEAN
  BY DEF Ablation!DevFiles
<1>2. PICK n \in 0..MaxDev : rows \in [1..n -> T]
  BY <1>1 DEF Ablation!BoundedSeq, Ablation!SeqOf
<1>3. rows \in FileOf(n) /\ n \in Nat
  BY <1>2, AblationAssumed DEF FileOf, Ablation!Observation
<1>4. rows # <<>>
  <2> SUFFICES ASSUME rows = <<>> PROVE FALSE
    OBVIOUS
  <2>1. DOMAIN rows = {}
    OBVIOUS
  <2>2. {Ablation!LabelRisky(rows[i]) : i \in DOMAIN rows} = {}
    BY <2>1
  <2> QED
    BY <1>1, <2>2
<1> QED
  BY <1>3, <1>4 DEF IsFile

LEMMA TestFilesAre ==
  ASSUME NEW rows \in Ablation!TestFiles PROVE IsFile(rows)
<1> DEFINE T == Ablation!Observation(Ablation!Domain, BOOLEAN)
<1>1. rows \in Ablation!BoundedSeq(T, MaxTest)
  BY DEF Ablation!TestFiles
<1>2. PICK n \in 0..MaxTest : rows \in [1..n -> T]
  BY <1>1 DEF Ablation!BoundedSeq, Ablation!SeqOf
<1>3. rows \in FileOf(n) /\ n \in Nat
  BY <1>2, AblationAssumed DEF FileOf, Ablation!Observation
<1> QED
  BY <1>3 DEF IsFile

LEMMA ProductionIsOfItsMethod ==
  ASSUME NEW m \in Ablation!Method PROVE DeployedOf(m).method = m
BY DEF Ablation!Method, DeployedOf, Ablation!Production, Ablation!Semantic,
       Ablation!Cpd, Ablation!Fusion

LEMMA SelectFreezes ==
  ASSUME AblationInv, Ablation!Select,
         NEW m \in Ablation!Method, NEW point \in Ablation!Point
  PROVE  /\ points'[m]["production"].profile = DeployedOf(m)
         /\ points'[m][point].profile.method = m
         /\ point \in DOMAIN Limit =>
              Ablation!IsBest(points'[m][point], m, Limit[point], observations)
<1> DEFINE C == Ablation!CandidatesFrom(m, Ablation!Thresholds(observations))
           chosen(q) == Ablation!SelectCandidate(C, Limit[q], observations)
<1>1. /\ ablation = "select"
      /\ points'[m] = [q \in Ablation!Point |->
                         IF q = "production"
                           THEN [profile |-> Ablation!Production(m), satisfied |-> TRUE]
                           ELSE chosen(q)]
  BY DEF Ablation!Select
<1>2. observations \in Ablation!DevFiles
  BY <1>1 DEF AblationInv
<1>3. \A q : /\ chosen(q).profile.method = m
             /\ Ablation!IsBest(chosen(q), m, Limit[q], observations)
  BY <1>2, DevFilesAre, SelectedIsBest
<1> HIDE DEF C, chosen
<1>4. "production" \in Ablation!Point
  BY DEF Ablation!Point
<1>5. points'[m]["production"].profile = DeployedOf(m)
  BY <1>1, <1>4 DEF DeployedOf
<1>6. CASE point = "production"
  <2>1. "production" \notin DOMAIN Limit
    BY AblationAssumed
  <2> QED
    BY <1>5, <1>6, <2>1, ProductionIsOfItsMethod
<1>7. CASE point # "production"
  <2>1. points'[m][point] = chosen(point)
    BY <1>1, <1>7
  <2> QED
    BY <1>3, <1>5, <2>1
<1> QED
  BY <1>6, <1>7

LEMMA AblationInit == Ablation!Init => AblationInv
BY DEF Ablation!Init, AblationInv

LEMMA AblationNext == AblationInv /\ [Ablation!Next]_(Ablation!vars) => AblationInv'
<1> SUFFICES ASSUME AblationInv, [Ablation!Next]_(Ablation!vars) PROVE AblationInv'
  OBVIOUS
<1>1. CASE Ablation!Select
  <2>1. ablation' = "read"
    BY <1>1 DEF Ablation!Select
  <2>2. ASSUME NEW m \in Ablation!Method
        PROVE  /\ points'[m]["production"].profile = DeployedOf(m)
               /\ \A point \in Ablation!Point : points'[m][point].profile.method = m
    <3>1. "production" \in Ablation!Point
      BY DEF Ablation!Point
    <3> QED
      BY <1>1, <3>1, SelectFreezes
  <2> QED
    BY <2>1, <2>2 DEF AblationInv, DeployedOf, Ablation!Method, Ablation!Point
<1>2. CASE Ablation!ReadTest
  BY <1>2 DEF Ablation!ReadTest, AblationInv, DeployedOf
<1>3. CASE Ablation!Evaluate
  BY <1>3 DEF Ablation!Evaluate, AblationInv, DeployedOf
<1>4. CASE Ablation!Done \/ UNCHANGED Ablation!vars
  BY <1>4 DEF Ablation!Done, Ablation!vars, AblationInv, DeployedOf
<1> QED
  BY <1>1, <1>2, <1>3, <1>4 DEF Ablation!Next

BestFrozen ==
  ablation = "select" =>
    \A m \in Ablation!Method, point \in DOMAIN Limit :
      Ablation!IsBest(points'[m][point], m, Limit[point], observations)

ReportsSound ==
  ablation = "evaluate" =>
    /\ Ablation!Deployed("fusion") =
         Ablation!Deployed("semantic_only") \cup Ablation!Deployed("cpd_only")
    /\ \A m \in Ablation!Method, point \in Ablation!Point :
         Ablation!AddsUp(ablationReport'[m][point], observations)

LEMMA EvaluateIsSound == AblationInv /\ Ablation!Evaluate => ReportsSound
<1> SUFFICES ASSUME AblationInv, Ablation!Evaluate PROVE ReportsSound
  OBVIOUS
<1>1. ablation = "evaluate" /\ observations \in Ablation!TestFiles
  BY DEF Ablation!Evaluate, AblationInv
<1>2. IsFile(observations)
  BY <1>1, TestFilesAre
<1>3. \A m \in Ablation!Method : points[m]["production"].profile = DeployedOf(m)
  BY <1>1 DEF AblationInv
<1>4. {"fusion", "semantic_only", "cpd_only"} \subseteq Ablation!Method
  BY DEF Ablation!Method
<1>5. ASSUME NEW m \in Ablation!Method, NEW point \in Ablation!Point
      PROVE  Ablation!AddsUp(ablationReport'[m][point], observations)
  <2>1. ablationReport'[m][point] =
          Ablation!MethodReport(observations, points[m][point].profile)
    BY DEF Ablation!Evaluate
  <2>2. points[m][point].profile.method \in Ablation!Method
    BY <1>1 DEF AblationInv
  <2> QED
    BY <1>2, <2>1, <2>2, ReportAddsUp
<1>6. Ablation!Detected(observations, points["fusion"]["production"].profile) =
        Ablation!Detected(observations, points["semantic_only"]["production"].profile)
          \cup Ablation!Detected(observations, points["cpd_only"]["production"].profile)
  BY <1>2, <1>3, <1>4, FusionIsTheUnion
<1> QED
  BY <1>5, <1>6, Zenon DEF ReportsSound, Ablation!Deployed

(* The frozen ablation, for any observations of the two splits: every       *)
(* profile keeps what its operating point promises and is the best that     *)
(* does; the deployed fusion catches what one of the methods alone catches; *)
(* and the counts of every report, by action and by domain, agree.          *)
THEOREM AblationsAreSound == Ablation!Spec => AblationIsSound
<1>1. AblationInv /\ [Ablation!Next]_(Ablation!vars) =>
        [BestFrozen /\ ReportsSound]_(Ablation!vars)
  <2> SUFFICES ASSUME AblationInv, Ablation!Next, ~UNCHANGED Ablation!vars
               PROVE  BestFrozen /\ ReportsSound
    OBVIOUS
  <2>1. CASE Ablation!Select
    <3>1. DOMAIN Limit \subseteq Ablation!Point
      BY DEF Ablation!Point
    <3>2. BestFrozen
      BY <2>1, <3>1, SelectFreezes DEF BestFrozen
    <3> QED
      BY <2>1, <3>2 DEF Ablation!Select, ReportsSound
  <2>2. CASE Ablation!ReadTest
    BY <2>2 DEF Ablation!ReadTest, BestFrozen, ReportsSound
  <2>3. CASE Ablation!Evaluate
    BY <2>3, EvaluateIsSound DEF Ablation!Evaluate, BestFrozen
  <2>4. CASE Ablation!Done
    BY <2>4 DEF Ablation!Done
  <2> QED
    BY <2>1, <2>2, <2>3, <2>4 DEF Ablation!Next
<1>2. [][BestFrozen /\ ReportsSound]_(Ablation!vars) => AblationIsSound
  BY PTL DEF AblationIsSound, Ablation!AblationIsSound, BestFrozen, ReportsSound
<1> QED
  BY <1>1, <1>2, AblationInit, AblationNext, PTL DEF Ablation!Spec
=============================================================================
