# A TLA+ model of the token-security agent platform

The repository is a FastAPI service that judges prompts (a CPD curve detector, a
semantic guard, a policy that fuses them), a lab that plays cases back and runs
response tools on them, and a "SuperAgent" that runs bounded missions. Three
kinds of mission inspect quarantined packet captures (PCAP) in the background:
*triage*, *reconnaissance* and *detection*. A fourth judges a prompt and runs the
lab's tools on it. An offline pipeline calibrates the detectors and benchmarks
them on frozen profiles.

The project models the concurrent parts first (HTTP handlers, one pool thread
per coordinator, inspection processes with their scripts and files, the stores
shared by all of them, shutdown), then what outlives a process (checkpoints,
SQLite rows, the benchmark's files), then the sequential functions whose result
is easy to get slightly wrong (the cumulative sum, the choice of thresholds and
profiles, the validators of reports).

Paths are relative to the repository; `app/` stands for `backend/app/`.

## 1. Inventory

| component | state it keeps | operations | interacts with | hard part | what makes it correct |
|---|---|---|---|---|---|
| authorization store, `app/pcap/authorization.py` | ordered dict token -> (purpose, deadline, used); capacity | `issue`, `consume`, `assert_usable` | API issues; coordinators consume | racing requests for one token, eviction, expiry between check and use | one token is one mission; only the oldest are dropped |
| mission store, `app/superagent/store.py` | ordered dict id -> (time, mission), ring and set of expired ids | `put`, `get`, `snapshot` | the three coordinators and the prompt service write; the API reads | full store, expiry, active missions that must stay | active missions are never dropped; ring and set agree; bounded |
| triage coordinator, `app/superagent/pcap_coordinator.py` | active ids, two sets of cancel flags, closed flag, a pool of one thread | `start`, `cancel`, `close`, `_run` | both stores, batch executor | cancel against finish, failing cancels, shutdown | see `MissionLifecycle` |
| reconnaissance coordinator, `app/superagent/pcap_recon_coordinator.py` | the same | the same | both stores, recon executor | the same | the same |
| detection coordinator, `app/superagent/pcap_detection_coordinator.py` | active ids, cancel flags, closed flag, pool | the same, and progress reports | both stores, detection executor | publishes without the lock | outcome final and complete; cancel honoured (it is not always) |
| batch / recon executor, `app/pcap/executor.py`, `recon_executor.py` | a marker file per cancelled batch | `execute` (subprocess with timeout), `request_cancel` | scripts, file system | marker against process | a cut-short batch is never taken for a whole one |
| detection executor, `app/pcap/detection_executor.py` | ids whose cancel was requested | `execute` (a pool of captures), `request_cancel` | one subprocess per capture | parallel captures, cancel | summary covers what was collected |
| batch scripts, `scripts/inspect_pcap_batch.ps1`, `inspect_pcap_recon_batch.ps1` | a checkpoint file each, a public summary, a shared output directory | one run per batch | executors above, one inspection per capture below | kill between two captures, resume, the other batch, captures that are replaced | what succeeded was read from the content it names, unless that was taken away and put back meanwhile; a resume repeats nothing and skips nothing |
| inspection of a capture, `scripts/inspect_pcap.ps1`, `pcap_preflight.py`, `pcap-inspector/detect_http.py` | a queue, two pipes and three threads; a report | one capture | TShark, Docker, the batch scripts | hanging or failing child, deadline, two implementations of one policy | ends; counts all rows (it does not always); reports are accepted |
| lab run store and service, `app/lab/store.py`, `service.py` | ordered dict of runs, ring of expired ids | `create_run`, `get_run`, `run_tool`, `execute_tool` | API, prompt mission | read-modify-write without a lock | no tool result is lost but by overlapping requests |
| lab execution store, executor, `app/lab/execution_store.py`, `executors.py` | three SQLite tables | `execute`, `commit_result`, `list_executions` | lab service | same idempotency key twice, failing persistence | one execution per key |
| prompt SuperAgent, `app/superagent/service.py`, `policy.py` | none of its own | `create_mission` | lab, mission store | a step that fails after others took effect | the status is backed by executions; fails only for cause |
| analysis, `app/agent`, `app/semantic`, `app/model`, `app/detection/cpd.py`, `app/knowledge`, `app/lab/counterfactual.py` | one audit table | `analyze`, the counterfactual | API, lab | each part may fail; a prefix that is tokenised anew | nothing passes that a detector objected to; knowledge never changes the decision; a counterfactual blames the prefix only for an alarm it has |
| calibration, `app/detection/calibrator.py`, `app/evaluation/methods.py` | a profile | fit and choose | scores of labelled prompts | ties, boundaries | no other threshold or parameter is better |
| ablation, `app/evaluation/ablation.py`, `normalize.py`, `split.py`, `ablation_io.py`, five scripts | a manifest, observations, errors, profiles, a report | freeze, collect, select, evaluate | the deployed API | interruption, redeployment, files of two freezes | chosen within the limit; test rows unseen; counted once |
| other evaluation, demo, frontend | files; browser state | batch jobs; polling | API | little | - |

PROJECT.json lists the components with their status, and under `hazards` every
place in the code that is hard to test, with the properties that cover it.

## 2. Modules

| module | models | extends / instances |
|---|---|---|
| `PcapAuthorization` | the authorization store | - |
| `SuperAgentMissionStore` | the mission store | - |
| `MissionLifecycle` | what a client of the API is promised: the abstract specification | - |
| `PcapMissionSlot` | what the coordinators share: `start`, `close`, the slot, the other users of both stores | instances both stores |
| `PcapMissionCoordinator` | the triage coordinator: `cancel`, `_run`, marker | extends the slot; instances `MissionLifecycle` |
| `PcapReconCoordinator` | the reconnaissance coordinator: the triage coordinator with its own verdict | extends the triage coordinator |
| `PcapDetectionCoordinator` | the detection coordinator and its executor's collecting loop, in short | extends the slot |
| `PcapDetectionExecutor` | one `execute` of the detection executor, capture by capture: the pool, the results in any order, the summary | - |
| `PcapBatchScripts` | the two batch scripts and the inspections they start, on files | - |
| `TsharkRows` | the three threads of the preflight that read TShark | - |
| `CaptureReports` | a capture's packets, the reports made of them, and their validators in Python and PowerShell | - |
| `LabToolExecution` | `execute` of a lab tool over the SQLite store, from several processes | - |
| `LabRuns` | the lab's service on its run store | instances the mission store's module, whose design it shares |
| `PromptMission` | a SuperAgent mission on a prompt | extends `LabRuns`; instances the mission store |
| `FusionPolicy`, `CusumDetector`, `Rates` | the fusion table, `run_cpd`, fractions and lexicographic choice: operators | - |
| `PromptAnalysis` | one analysis from the request to the audit event, and its counterfactual | extends the two operators' modules |
| `ThresholdChoice` | the entropy calibration and the window method's fit | extends `Rates` |
| `AblationProfiles` | the choice of frozen profiles and their report | extends `Rates`, `FusionPolicy` |
| `AblationBenchmark` | the benchmark's pipeline over files | - |
| `MC*` | instances for TLC; where components do not interact, several in one run | - |
| `*Proofs` | theorems | section 5 |

How state corresponds. `missions`, `expired` and `authorizations` are the
dictionaries and the ring; the position in the ordered dictionary is the
`rank` of the last put. `active`, `cancelRequested` and `cancelFailed` are the
coordinator's sets of ids. `queue` and `worker` are the pool. `marker` is the set
of cancel files, `execCancel` the detection executor's set. `handler` is the
request that holds the coordinator's lock in the middle of a call: while it is
not `free` nobody else takes the lock, but threads that do not need it go on.
`closer` is the thread in `close`, `closing` what is left of its snapshot. In
the executor's module `started` and `report` are the futures of the pool,
`completed` is `results_by_index`, and `pc` where the caller's thread is. In
`LabToolExecution` an execution is named after the request that built it (its id
is fresh); `rows` is the committed content of the three tables, whose rows of
one execution are inserted together, and `uncommitted` what a connection wrote
in a transaction whose COMMIT failed.
In `PcapBatchScripts` a capture's content is a number that stands for its bytes
and hash and has a `Size`; it may be replaced by any other content, one that was
there before included. What is read from it by one hash or one pass is one
content. `state` is the checkpoint file of each script, `reports` the output
directory, `inspector` the process per script and one that outlived its killed
batch. In `TsharkRows` `pipe`, `errPipe` and `queue` hold as many rows or chunks
as they count, `reader`, `sink` and `main` are the threads. In `LabRuns` a request
for a simulated tool holds the run it has read until it puts it back. In
`PromptAnalysis` a prompt is the z-scores of its tokens, and positions count tokens;
`recheck.same` says that the prefix was tokenised as within the prompt (the code
does not know). In `AblationBenchmark`
a manifest is named by its seed, and an observation remembers the deployment
that made it.
`funded`, `acknowledged`, `grants`, `tooLate`, `recorded`, `answered`, `overlapped`,
and the `swaps` of an inspection and of the evidence it leaves, are history: no
action of the code reads them (`funded` also tells which ids are fresh, as a uuid is).

How actions correspond. A step is what one thread does between two points at
which another can be observed. `start` is three steps (check, consume, publish),
because issuing and the other coordinators' puts do not wait for its lock; the
triage `cancel` is two (the marker, the record), because the inspection process
sees the marker in between; `_run` is one step per critical section and one for
what the subprocess did. A tool execution is a lookup, a listing, a transaction
and an answer, each under the store's lock. The branch of `execute` for an
`IntegrityError` is not an action: the key is looked up inside the write
transaction, so the constraint cannot fail. The reader of TShark is split at
every queue and event, which are looked at one after the other. A batch script
is a step per file it reads or replaces; that it selects its captures in one
step is an abstraction: the listing and the hashes take time. A capture that is
replaced between its size and its hash is selected, hashed again around its
inspection, and then fails for its size, which any inspection may do; that one
recorded as succeeded may so be inspected again is left out. A collector's file
is a step each, as `os.replace` makes them. An analysis is a step per part that
may fail. A whole critical section is one
action with every call in it, `_purge_expired` included.

Left out: trace events of PCAP missions, report texts and timestamps (functions
of the status and the summary), HTTP status codes, the number of files an
authorization allows, and field validation. Numbers of the detectors are small
integers and exact fractions. The prefix of a prompt is tokenised and scored anew:
it may have the tokens it had, or any others, which also stands for a short
prefix that the search inside the template (`rfind`, `app/model/runtime.py:303`)
finds in another place; what that search does to a prompt of its own is left out.
Reconnaissance's sample of up to five captures per quartile is all of them at the sizes checked.
Beside some operators a module keeps a *faulty variant* (`DiscardFlags`,
`NoLock`, ...): the operator with a plausible slip, which nothing uses.
Substituted for the operator it makes a stated property fail, which shows that
the property depends on that line of the code.

## 3. What the runs show

| run | instance | what it asks |
|---|---|---|
| `parts` | mission store: 4 ids, room for 2, ring of 2, 7 puts, clock 0..4; detection executor: 3 captures, 2 workers, 3 evidence ids of which a summary holds 2; TShark: 3 rows, pipes and queue of 1 | active missions stay, ring and set agree, what lapses is remembered; the executor's result does not depend on timing and it ends; the preflight ends, cleans up and reports only a whole stream |
| `triage` | 2 missions, 1 other client's id, room for 2, cancels that fail, expiry, shutdown | the safety properties of the coordinator and `ImplementsLifecycle` |
| `coordinators` | detection with 2 captures, reconnaissance; 2 missions, 1 other id, room for 1, expiry, shutdown | the slot, complete outcomes, and the same lifecycle |
| `missions_live` | triage and detection; 2 missions, a store of 1, no other clients and no time | every mission settles and frees the slot; `close` ends |
| `inspections` | 4 authorizations, room for 2, 2 purposes, clock 0..3; 2 captures with one content at first, two replacements, by another content or back to the first, 2 triage batches of 1 capture beside one of reconnaissance, kills anywhere; captures of up to 2 packets, 2 rules | a token is granted once, only the oldest are dropped; evidence matches content but for what two hashes cannot see; resumes are exact; validators agree |
| `lab` | 3 requests, 2 keys (one an evidence bundle), 2 processes on one file, COMMIT failing, restarts; 2 runs on a store of 1, 2 clients, 1 prompt mission, a mission store of 1 shared with a PCAP mission | one execution per key, receipts and rows agree, bundles name what exists; results are kept; statuses are earned; missions fail for cause |
| `analysis` | prompts of up to 4 tokens over 3 z-scores in every mode, all failures, prefixes with any score; differences count from half a threshold; 3 samples, 2 parameters, scores 0..2; 3 development rows and 1 test row; 8 rows in 8 groups, 2 seeds, 2 deployments, 3 collections | the cumulative sum is the maximal excess; answers are grounded, what precedes an onset quiet; choices are best; the benchmark is sound |
| `detection_lost_cancel` | 1 mission, 1 capture | **violated**: finding 1 |
| `detection_cancel_scheduling` | 3 captures, 2 workers | **violated**: finding 2 |
| `lab_receipt` | 2 requests, 1 process | **violated**: finding 3 |
| `preflight_lost_rows` | 3 rows, pipes and queue of 1 | **violated**: finding 4 |
| `benchmark_leak` | 10 rows, 2 attack families of the same 3 base instructions, 2 collections | **violated**: finding 5 |

Where a run has several components (`parts`, `coordinators`, `missions_live`,
`inspections`, `lab`, `analysis`), a variable `part` is chosen at the start and only
that component moves: they do not interact with one another, or only through
what the component's own module already has as its environment. The others rest
in one state, so nothing is multiplied and no case is hidden. Their fairness is
the modules' own, per component.

Why these bounds are enough to be interesting: two missions one after the other
exercise everything that one leaves behind (flags, marker, slot, an evicted or
expired outcome); a third repeats it. A store with room for one makes every put
evict. A clock that can reach one time to live makes missions, runs and tokens
expire in the middle of each operation. The mission store has as many ids as
store and ring together hold, and put again some of them leave the ring, so both
overflow. Three captures with two workers leave one waiting in the pool's queue,
and three evidence ids where a summary holds two make captures share evidence and
summaries unpublishable. Three requests are one whose commit fails, one that
lists it, and one at the other process or a retry. A pipe, a queue and a limit of
one make TShark and each thread wait for the next. Two captures and two batches
let a kill, an orphaned inspection and the other script's removal of reports fall
on the same capture; two replacements are one that is put back, on one capture,
and one of each, on both. A resolution of a half lets a completed counterfactual
be `unchanged` with a prefix below the threshold, at it and above it. Three
collections are a broken one, its resume, and one of
the other split. In `lab` the clock moves only where one run was created at most
and no PCAP mission takes up the store: expiry and eviction are then checked one
at a time for a prompt mission. In `analysis` both manifests are frozen before
anything is collected, and a deployment is never taken back, which leaves every
mix of files of two freezes and of two deployments. All bounds (`MaxIssued`, `MaxPuts`, `MaxClock`,
`MaxFiles`, `MaxForeignActive`, `MaxReplaced`, `MaxBatches`, `MaxRunPuts`,
`MaxCollections`, ...) are constants, appear in guards, and the theorems hold for
all their values.

`CHECK_DEADLOCK FALSE` is used where the system really stops: all tokens used
and the clock at its bound (`inspections`, `parts`), all requests answered (`lab`,
`lab_receipt`), all batches over and the report printed or refused
(`inspections`, `preflight_lost_rows`), the collections used up (`analysis`,
`benchmark_leak`).

Findings.

1. `detection_lost_cancel`: the detection worker reads its cancel flag under the
   lock and publishes after releasing it. A cancel accepted in between is
   answered as under way, and the mission ends `completed` or `degraded`;
   `docs/pcap-superagent.md:82-83` promises `cancelled`.
   `ImplementsLifecycle` of run `coordinators`, in which such cancels do not
   count, is what the code does guarantee. The triage and the
   reconnaissance coordinator look again in the publishing step and have the
   full property.
2. `detection_cancel_scheduling`: the detection executor submits all captures
   at once; after it has seen a cancel it stops collecting, but it leaves the
   pool's `with` block only when every capture is inspected, and those that
   were waiting are started. `docs/pcap-superagent.md:112` says that a cancel
   stops further scheduling. The cancelled detection keeps its slot until then.
3. `lab_receipt`: `_transaction` of the execution store rolls back what its body
   raises, but COMMIT itself is outside that `try`. When it fails and SQLite
   leaves the transaction open (another connection kept the file locked longer
   than the busy timeout; the audit store and the privacy script read the same
   file), the request is answered as failed, and its retry is answered with the
   success that was never committed. Until a restart every other `execute`
   fails, since no transaction can begin within the open one. The design of
   2026-08-28 (lines 258 and 264) excludes such receipts. What the code does keep
   is `PersistedIffCreated`, just because nothing can begin: `JoinOpen`, the
   mutant in which the next transaction takes the open one along, breaks it.
   `BeginAfresh`, which rolls the open one back first, breaks
   `BundleNamesPersisted` instead: a repair has to keep a bundle that listed the
   dropped row from being committed, for example by rolling back at the failure.
4. `preflight_lost_rows`: the preflight's main thread finds the queue empty and
   looks afterwards whether the reader is done. Rows that the reader puts in
   between, with its end, stay in the queue: TShark has exited with 0, nothing is
   raised, and the report counts fewer packets than the capture has.
   `RunnerCleansUp` states what holds nevertheless: nothing else is lost, and
   what is missing is in the queue.
5. `benchmark_leak`: `group_id` of the CPDonline rows contains the attack family,
   so the variants of one base instruction are different groups and may be split
   between `dev` and `test`; the design of 2026-08-26 (line 73) wants them
   together. `TestIsUnseen` is what does hold, for the groups as they are.

## 4. Fairness

`FairSpec` assumes that a thread that is inside a critical section goes on (weak
fairness), that the inspection ends (weak fairness; the code gives every
subprocess a timeout: `max_files * 160 + 30` seconds per batch, 160 seconds per
capture), and that a pool or shutdown thread waiting for the lock gets it
although handlers keep coming (strong fairness of the steps that take the lock;
`RLock` hands over in no fixed order, but each holder releases it after a
bounded number of steps). In the executor's module the pool's threads start
captures while there are any, each inspection ends (its subprocess has the same
160 seconds), and the caller's thread goes on when it can. In `TsharkRows` time
passes and the three threads run; TShark itself may hang. In `missions_live` the
fairness of the triage and of the detection module are stated action by action;
since only one of them moves, fairness to a step that both share is one
condition. Nothing makes clients
call or the application shut down, nothing makes the clock advance.

## 5. What is proved

All theorems are about the specifications themselves, for all values of the
constants that satisfy the assumptions of the modules. Every safety property that
a passing run checks is a theorem; liveness is only model-checked.

**The stores.** `SuperAgentMissionStoreProofs` has `StoreIsBounded`,
`ActiveIsKept` and `LapsedIsKept`. At most one mission is evicted, and exactly
one when the put overfills the store (`RoomIsMade`), which rests on the ranks
being distinct; the ring never keeps more than its length. For what lapses the
order of the ranks is needed as well (`LapseOrder`): missions that can still lapse
were put after everything the ring holds, so the ids that the ring forgets are
never those that have just lapsed. `PcapInspectionProofs` has
`AuthorizationIsOneTime` and `OnlyTheOldestAreDropped`, from the exact domain of
the dictionary.

**The coordinators.** `PcapMissionSlotProofs` collects what a store's operation
does to one mission (a put of one id leaves every other active mission alone,
...), to the account of tokens (`TokenInv`: which mission, or start about to be published, each consumed token
paid for) and to the room that was checked before a token was
consumed (`RoomInv`: the active missions of others leave at least one place). All
three coordinators use it.

`PcapMissionCoordinatorProofs` proves the invariant `IInv` of a step of *either*
of the triage and reconnaissance coordinators (`EitherNext`), so every lemma
serves both. None of the checked invariants is inductive alone. `IInv` adds where
an active mission's work is (exactly one of queue and worker), that flags belong
to active missions and mean what the history says, that the handler which holds
the lock in the middle of a call still has what it has seen, and that an
unpublished mission is not funded. `CancelIsHonoured`, `SlotIsExact`,
`WorkStaysOpen`, `TokenPaysOnce`, `NoTokenIsWasted`, `CloseLeavesNothing` and
their counterparts for reconnaissance follow. What a published summary means
differs, and is an invariant of its own for each (`NothingPartialCompletes`,
`ReconStatisticsAreWhole`). `TriageImplementsLifecycle` and
`ReconImplementsLifecycle` map initial states to initial states, and each step to
a step of `MissionLifecycle` or a stutter; `...OutcomeIsFinal` is the same as an
action property.

`PcapDetectionCoordinatorProofs` has its own `IInv`: the worker publishes
without the lock and leaves the slot later, so a handler that found the mission
running may hold a state that is no longer true. The invariant says which of its
fields may be stale and which not, and where the flag of a cancel is while the
executor has already seen it. All the properties of run `coordinators` are proved
of it, with the token account and the room, and `DetectionImplementsLifecycle`.

**Executor and preflight.** `PcapPartsProofs`: `NothingIsLeftRunning`, because the
captures started are a prefix of the captures and the end comes after the last
inspection; `PreflightCleansUp`, from `ReaderInv`, which accounts for every row (at
TShark, in the pipe, in a hand, in the queue, counted) and says what each
of the three threads knows when it stops. `TimingIsIgnored`: `execute` folds the
results it took, sorted by their index, and `Accepted` is what one inspection
after the other accepts. That the fold over the first k captures exists and takes
its greatest member last follows from those over smaller parts; a least capture
at which it would differ from `Accepted` contradicts the step of both
(`WholeStep`). Nothing of it mentions the order in which `completed` grew.

**Batch scripts and reports.** `PcapInspectionProofs`: `ScriptsInv` ties the
checkpoint, the history of results, the reports that lie in the shared directory
and an inspection under way together. From it `EvidenceIsOfItsContent`: a report
is only saved if the container's hash is that of the capture at the end, so
other rows need one replacement before they are read and another one after, and
the inspection counts them (`SwapCounted`). What a hash before and after cannot
give is not claimed: a capture that is replaced and put back between the hashes
(`scripts/inspect_pcap.ps1:436`, `:519`, `:536`) leaves a report of other rows than
its name, and the run reaches it. Also from it
`CheckpointResumesExactly`; `NoCaptureIsForgotten` needs how sorting and cutting
a selection keep its smallest members. `ValidatorsAreOneMind` relates the report
of any capture of any length to all validators, the container's own included: a
detection is refused as a whole exactly for a packet without a destination or
one before the first, which needs no order among the others.

**Lab.** `LabToolExecutionProofs`: `KeyExecutesOnce`, `CreatedMeansPersisted` and
`BundlesAreGrounded` from an invariant which adds that what a transaction was
left open with was answered as failed, that rows belong to requests past their
commit, and that a bundle in the making names only what its own process sees,
which a restart takes away together with the bundle. `AnsweredResultsAreKept`
(a request that read a run before another one put it back has made it
overlapped), `PublishedStatusIsEarned` and `MissionsFailForCause` (the account of
a mission's events and of its executions against its plan, stage by stage).

**Analysis and benchmark.** `AblationBenchmarkProofs`: `ReportsAreUnseen`, because
the parts of a split take different places of an order; `ReportsAreWhole`, from an
account of each collection's samples through interruptions and resumes.
`AnswersAreGrounded` from the types and `AnswerInv`. `ScoreIsMaximalExcess` and
`PrefixesRaiseNoAlarm` are about recursive functions over prompts of any length.
The induction theorems of the library cannot be used, so their arguments go by the
least counterexample: a nonempty set of naturals has a least member
(`LeastNumber`), hence a function with the recursion exists, and the least index
at which it is not what it should be contradicts its recursion. For the
cumulative sum the claim at an index is that it is the largest excess of any run
of tokens that ends there, or 0, and that it is reached from the first token after
the last reset. For a prefix with the tokens it had it is that its sums are the
whole prompt's, which stayed below the threshold up to the alarm. With other
tokens a prefix may raise an alarm; what `PrefixesRaiseNoAlarm` says of it is that
a completed counterfactual calls the risk unchanged for no other reason
(`ComparedSays`: the alarm's own risk is 1, so the prefix's is 1 up to the
resolution).

`ThresholdsAreBest` and `AblationsAreSound` are about the best of a set. The keys by
which thresholds and profiles are compared are tuples of fractions, whose order
(by cross-multiplication) is strict; of finitely many keys the one that most others
are less than is a best one (`BestIsBest`), which needs no induction. A threshold
between two seen scores decides as the next score above it does, so the best of
the seen ones is best of all. Sums over domains and samples are any count that
loses an element's share when the element is taken away (`TotalIs`).

**Assumptions.** Those of the modules: the sizes are natural numbers (the
capacities positive), the ids of own and foreign missions differ, `NoMission` is
none of them. The assumptions of modules that are instantiated (`AuthAssumption`,
`ExecutorAssumption`, `ReaderAssumption`, `ScriptsAssumption`, `ReportsAssumption`,
`PromptAssumption`, `ThresholdAssumption`, `AblationAssumption`, ...) are operators
which `MCParts`, `MCInspections`, `MCLab` and `MCAnalysis` ASSUME of their constants,
so that TLC evaluates them on the instance of the run; the theorems are proved in
modules that extend these, and use only what is assumed there, never the
constants' values. The limits of the operating points, the low false positive
rate and the resolution are constants too, so the theorems hold at the code's
values (0.10, 0.05, a millionth) as at those the runs use. `BenchmarkAssumption`
says that a seed's order has every group in one place.

**Only model-checked.** Liveness (`MissionSettles`, `CloseReturns`,
`ExecutionEnds`, `PreflightEnds`) and everything that rests on `ENABLED` are out of
the prover's reach. The five violated properties are not theorems, of course.

## 6. Plan

Done, the most important behaviour first: the two stores, `MissionLifecycle`, the
slot, the three coordinators, the detection executor, `LabToolExecution`; then the
batch scripts, the preflight and the reports, the lab's runs and the prompt
mission, the analysis, the calibration, the ablation and its pipeline; then the
theorems of section 5.

What is left, in this order:

1. The three coordinators over one pair of stores in one instance, closed one
   after the other as `app/main.py` does it; today the others are the slot's
   foreign clients.
2. The creation and the check of the SQLite schema, with a crash between two
   tables (`execution_store.py:161`).
3. `PcapBatchScripts` composed with the triage coordinator: a refinement of the
   batch that `PcapMissionCoordinator` has as `ExecutorStops`/`ExecutorReturns`.

## 7. Not modelled, and why

Inference, tokenisation, embedding and ranking of text, and the robust baselines
(medians) compute over floating-point numbers and text and share no state between
requests; where their result matters it is any result they can give. The audit
store's own table is append-only behind one lock. The remaining offline evaluation
(`grounded_report.py`, `pcap_detection.py`, metrics and tables, the CPDonline
benchmark) and the privacy and smoke checks are single-threaded functions from
files or text to a report. The sandbox's self-check asserts what Docker reports.
The demo is two fixed prompts, the legacy policy is never asked. The frontend acts
through the API, whose calls are modelled. Schema checks, Windows handle checks,
and field validation of the public models raise before any state changes. That the
operator deletes files of the benchmark by hand, and that a deployment changes
while the collector runs (it asks for the identity once per call), is left out of
`AblationBenchmark`. In `LabRuns` a result that an overlapping request on the same
run overwrites (`app/lab/service.py:253`) is modelled, but `ResultsAreKept` says
nothing of runs on which requests overlapped: the code loses it. In
`AblationProfiles` rows without a semantic verdict are
counted as the code counts them, as detected or not by the fusion's own rule,
though the design speaks of counting them separately.
