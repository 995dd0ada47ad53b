-------------------------- MODULE AblationBenchmark --------------------------
(***************************************************************************)
(* The pipeline of the frozen ablation benchmark, which its operator runs  *)
(* program by program over files: the protected rows are grouped and split *)
(* into a manifest (evaluation/normalize.py, split.py, ablation_io.py,     *)
(* scripts/build_protected_ablation_dataset.py, build_ablation_manifest.py)*)
(* observations are collected from the deployed API, again and again until *)
(* none is missing (collect_agent_ablation.py), profiles are frozen on the *)
(* dev split (select_ablation_profiles.py) and reported on the test split  *)
(* (evaluate_agent_ablation.py).                                           *)
(*                                                                         *)
(* A manifest is named by its seed, which is all that tells two dataset    *)
(* hashes of the same rows and sources apart.  Files are replaced          *)
(* atomically; no file is deleted by hand.                                 *)
(***************************************************************************)
EXTENDS Integers, FiniteSets, SequencesExt

CONSTANTS Sample,          \* ids of the protected rows: integers
          RowOf,           \* the row of each: its base instruction, family, domain
          Seed,            \* split seeds the operator may use
          Order,           \* the groups by seed, as their hashes order them
          Deployment,      \* identities of the deployed API
          MaxCollections   \* bound: runs of the collector

VARIABLES deployment,   \* what /health reports
          frozen,       \* seeds whose manifest and rows are written
          collector,    \* the running collector
          cache,        \* the observations file of a split, its metadata and
          meta,         \*   its errors file
          errors,
          profiles,     \* the profile bundle
          report,       \* the published report
          collections   \* runs of the collector so far

vars == <<deployment, frozen, collector, cache, meta, errors, profiles, report,
          collections>>
-----------------------------------------------------------------------------
(* The group of a row: for the rows of CPDonline the hash of the base       *)
(* instruction and the attack family, otherwise of the behaviour or of the  *)
(* type of the prompt in its source.                                        *)
GroupOf(s) ==
  LET row == RowOf[s] IN
  IF row.domain \in {"optimized_suffix", "benign_plain"}
    THEN <<"grp", row.base, row.family>>
    ELSE <<row.domain, row.base>>

Groups == {GroupOf(s) : s \in Sample}

LabelRisky(s) == RowOf[s].domain \in {"optimized_suffix", "semantic_unsafe"}

(* _validate_coverage: all four domains, and every family in three groups.  *)
Covered ==
  /\ {RowOf[s].domain : s \in Sample} =
       {"benign_plain", "benign_shift", "semantic_unsafe", "optimized_suffix"}
  /\ LET suffixed == {s \in Sample : RowOf[s].domain = "optimized_suffix"} IN
     \A s \in suffixed :
       Cardinality({GroupOf(r) : r \in {q \in suffixed :
                                   RowOf[q].family = RowOf[s].family}}) >= 3

(* round(n * 0.2), which is never halfway between two integers, but 1 at    *)
(* least.                                                                   *)
Fifth(n) == LET rounded == (2 * n + 5) \div 10
            IN  IF rounded = 0 THEN 1 ELSE rounded

(* How many groups calibration and dev get of n.                            *)
PartSize(n) == IF 2 * Fifth(n) >= n THEN 1 ELSE Fifth(n)

(* split_by_group: the first groups of the order, the next ones, the rest.  *)
Positions(n) ==
  LET part == PartSize(n)
  IN  [calibration |-> 1..part, dev |-> (part + 1)..(2 * part),
       test |-> (2 * part + 1)..n]

SplitsOf ==
  [seed \in Seed |->
     LET at == Positions(Len(Order[seed])) IN
     [split \in DOMAIN at |->
        {s \in Sample : \E i \in at[split] : GroupOf(s) = Order[seed][i]}]]

(* Every group has one place in the order; whoever gives the constants their*)
(* values assumes it.                                                       *)
BenchmarkAssumption ==
  \A seed \in Seed : /\ Order[seed] \in Seq(Groups)
                     /\ ToSet(Order[seed]) = Groups
                     /\ IsInjective(Order[seed])
-----------------------------------------------------------------------------
Split == {"dev", "test"}

NoFile == [exists |-> FALSE]
Idle == [pc |-> "idle"]

Init ==
  /\ deployment \in Deployment
  /\ frozen = {} /\ collector = Idle
  /\ cache = [split \in Split |-> NoFile]
  /\ meta = [split \in Split |-> NoFile]
  /\ errors = [split \in Split |-> NoFile]
  /\ profiles = NoFile /\ report = NoFile
  /\ collections = 0

(* build_manifest.                                                          *)
Freeze(seed) ==
  /\ Covered /\ Cardinality(Groups) >= 3
  /\ frozen' = frozen \cup {seed}
  /\ UNCHANGED <<deployment, collector, cache, meta, errors, profiles, report,
                 collections>>

(* The API is deployed anew, with another model or calibration.  The        *)
(* collector asks for the identity once: here nobody does it while it runs. *)
Redeploy ==
  /\ collector = Idle
  /\ deployment' \in Deployment \ {deployment}
  /\ UNCHANGED <<frozen, collector, cache, meta, errors, profiles, report,
                 collections>>
-----------------------------------------------------------------------------
(* collect_observations.  An observation remembers what made it.            *)
Observation(s, by, seed) == [sample |-> s, by |-> by, seed |-> seed]

SamplesOf(observations) == {o.sample : o \in observations}

(* A slip: only the rows are compared with those of the interrupted run.    *)
ResumableByInput(file, seed, identity) == file.exists /\ file.seed = seed
Resumable(file, seed, identity) ==
  file.exists /\ file.seed = seed /\ file.by = identity

Existing(split) == IF cache[split].exists THEN cache[split].rows ELSE {}

Collect(seed, split, resume) ==
  /\ collector = Idle /\ seed \in frozen
  /\ collections < MaxCollections
  /\ IF resume
       THEN /\ Resumable(meta[split], seed, deployment)
            /\ SamplesOf(Existing(split)) \subseteq SplitsOf[seed][split]
       ELSE ~cache[split].exists
  /\ collections' = collections + 1
  /\ collector' =
       [pc |-> "analyze", seed |-> seed, split |-> split, identity |-> deployment,
        rows |-> IF resume THEN Existing(split) ELSE {}, failures |-> {}]
  /\ UNCHANGED <<deployment, frozen, cache, meta, errors, profiles, report>>

(* The rows in the order of the file, but those observed already.           *)
Waiting ==
  SplitsOf[collector.seed][collector.split]
    \ (SamplesOf(collector.rows) \cup collector.failures)

Analyze ==
  /\ collector.pc = "analyze" /\ Waiting # {}
  /\ LET s == CHOOSE s \in Waiting : \A r \in Waiting : s <= r IN
     collector' \in
       {[collector EXCEPT !.rows =
           @ \cup {Observation(s, deployment, collector.seed)}],
        [collector EXCEPT !.failures = @ \cup {s}]}
  /\ UNCHANGED <<deployment, frozen, cache, meta, errors, profiles, report,
                 collections>>

SaveCache ==
  /\ collector.pc = "analyze" /\ Waiting = {}
  /\ cache' = [cache EXCEPT ![collector.split] =
                 [exists |-> TRUE, rows |-> collector.rows]]
  /\ collector' = [collector EXCEPT !.pc = "cached"]
  /\ UNCHANGED <<deployment, frozen, meta, errors, profiles, report, collections>>

SaveMeta ==
  /\ collector.pc = "cached"
  /\ meta' = [meta EXCEPT ![collector.split] =
                [exists |-> TRUE, seed |-> collector.seed,
                 by |-> collector.identity]]
  /\ collector' = [collector EXCEPT !.pc = "described"]
  /\ UNCHANGED <<deployment, frozen, cache, errors, profiles, report, collections>>

SaveErrors ==
  /\ collector.pc = "described"
  /\ errors' = [errors EXCEPT ![collector.split] =
                  [exists |-> TRUE, failures |-> collector.failures]]
  /\ collector' = Idle
  /\ UNCHANGED <<deployment, frozen, cache, meta, profiles, report, collections>>

(* The collector is interrupted or killed.                                  *)
Interrupt ==
  /\ collector # Idle
  /\ collector' = Idle
  /\ UNCHANGED <<deployment, frozen, cache, meta, errors, profiles, report,
                 collections>>
-----------------------------------------------------------------------------
(* write_ascii_json refuses to replace an artifact of another identity.     *)
Writable(artifact, seed) == artifact.exists => artifact.seed = seed

SelectProfiles(seed) ==
  /\ seed \in frozen /\ cache["dev"].exists
  /\ SamplesOf(cache["dev"].rows) = SplitsOf[seed]["dev"]
  /\ {LabelRisky(s) : s \in SplitsOf[seed]["dev"]} = BOOLEAN
  /\ Writable(profiles, seed)
  /\ profiles' = [exists |-> TRUE, seed |-> seed,
                  samples |-> SamplesOf(cache["dev"].rows)]
  /\ UNCHANGED <<deployment, frozen, collector, cache, meta, errors, report,
                 collections>>

(* load_ablation_profiles.  A slip: the dataset hash is not compared.       *)
AnyBundle(bundle, seed) == bundle.exists
OfThisDataset(bundle, seed) == bundle.exists /\ bundle.seed = seed

(* evaluate_test and evaluate_ablation: every sample of the split is either *)
(* observed or failed.                                                      *)
Counted(observed, failed, expected) ==
  /\ observed # {} /\ observed \cap failed = {}
  /\ observed \cup failed = expected
  /\ Cardinality(expected) = Cardinality(observed) + Cardinality(failed)

EvaluateTest(seed) ==
  /\ seed \in frozen /\ cache["test"].exists /\ errors["test"].exists
  /\ OfThisDataset(profiles, seed)
  /\ LET observed == SamplesOf(cache["test"].rows)
         failed   == errors["test"].failures
     IN  /\ Counted(observed, failed, SplitsOf[seed]["test"])
         /\ Writable(report, seed)
         /\ report' = [exists |-> TRUE, seed |-> seed,
                       rows |-> cache["test"].rows, failed |-> failed,
                       selectedOn |-> profiles.samples]
  /\ UNCHANGED <<deployment, frozen, collector, cache, meta, errors, profiles,
                 collections>>
-----------------------------------------------------------------------------
Next ==
  \/ \E seed \in Seed :
       \/ Freeze(seed) \/ SelectProfiles(seed) \/ EvaluateTest(seed)
       \/ \E split \in Split, resume \in BOOLEAN : Collect(seed, split, resume)
  \/ Redeploy \/ Analyze \/ SaveCache \/ SaveMeta \/ SaveErrors \/ Interrupt

Spec == Init /\ [][Next]_vars
-----------------------------------------------------------------------------
(* A report is never about a group that had a say in its profiles, however  *)
(* the operator mixes the files of two benchmarks of the same rows.         *)
TestIsUnseen ==
  report.exists =>
    {GroupOf(s) : s \in SamplesOf(report.rows)}
      \cap {GroupOf(s) : s \in report.selectedOn} = {}

(* Every sample of the test split is counted once, as observed or as        *)
(* failed, after any series of interrupted and resumed collections; and all *)
(* that is reported comes from one deployment.                              *)
ReportIsWhole ==
  report.exists =>
    LET of(s) == {o \in report.rows : o.sample = s} IN
    /\ \A s \in SplitsOf[report.seed]["test"] :
         Cardinality(of(s)) + (IF s \in report.failed THEN 1 ELSE 0) = 1
    /\ \A o, p \in report.rows : o.by = p.by

(* No attack variant of a base instruction is reported on when another one  *)
(* had a say in the profiles: group_id is to keep the variants of one base  *)
(* instruction together, so that nothing leaks across the split             *)
(* (docs/superpowers/specs/2026-08-26-agent-ablation-benchmark-design.md:73)*)
AttackedBases(samples) ==
  {RowOf[s].base : s \in {r \in samples : RowOf[r].domain = "optimized_suffix"}}

NoVariantLeaks ==
  report.exists =>
    AttackedBases(SamplesOf(report.rows))
      \cap AttackedBases(report.selectedOn) = {}
=============================================================================
