----------------------- MODULE LabToolExecutionProofs -----------------------
(***************************************************************************)
(* The lab, for any number of requests, processes, keys, runs and missions:*)
(* its tool executor with the execution store, its runs, and the prompt    *)
(* missions that work on them.                                             *)
(***************************************************************************)
EXTENDS MCLab, SequencesExt, FiniteSetTheorems, TLAPS

(* A request that is served has a process.                                  *)
ServedByProcess == \A r \in Request : pc[r] # "idle" => process[r] \in Process

(* An execution is a row only once its request has committed it.            *)
RowsAreCommitted ==
  \A r \in Request :
    /\ r \in rows => pc[r] \in {"committed", "returned", "lost"}
    /\ pc[r] = "committed" => r \in rows

(* What a transaction was left open with was answered as failed.            *)
OpenWasRefused ==
  \A p \in Process : \A r \in uncommitted[p] :
    pc[r] = "returned" /\ ~answer[r].new

(* A bundle in the making names what its process sees; a process that drops *)
(* an open transaction drops the bundles that name it as well.              *)
ListedIsVisible ==
  \A r \in Request :
    /\ pc[r] \in {"idle", "looking", "listing"} => prior[r] = {}
    /\ pc[r] = "committing" => prior[r] \subseteq Visible(process[r])

LabInv ==
  /\ LabTypeOK
  /\ OneExecutionPerKey
  /\ PersistedIffCreated
  /\ BundleNamesPersisted
  /\ ServedByProcess
  /\ RowsAreCommitted
  /\ OpenWasRefused
  /\ ListedIsVisible

(* A transaction can begin only when no connection has left one open, and   *)
(* it holds nothing then.                                                   *)
LEMMA BeginsEmpty ==
  ASSUME NEW p \in Process, NEW t \in Begun(p)
  PROVE  t = {} /\ \A q \in Process : uncommitted[q] = {}
  BY DEF Begun, OthersOpen

(* Nothing is persisted or open at first.                                   *)
LEMMA LabInit == Init => LabInv
  BY LabAssumption
     DEF Init, LabInv, LabTypeOK, Pc, Failed, OneExecutionPerKey,
         PersistedIffCreated, BundleNamesPersisted, ServedByProcess,
         RowsAreCommitted, OpenWasRefused, ListedIsVisible

(* A request arrives: nothing refers to it yet.                             *)
LEMMA ReceiveKeeps ==
  ASSUME LabInv, NEW r \in Request, NEW p \in Process, NEW k \in Key,
         Receive(r, p, k)
  PROVE  LabInv'
<1> USE DEF LabInv
<1>1. LabTypeOK'
  BY DEF Receive, LabTypeOK, Pc
<1>2. r \notin rows
  BY DEF Receive, RowsAreCommitted
<1>3. OneExecutionPerKey'
  BY <1>2 DEF Receive, OneExecutionPerKey, LabTypeOK
<1>4. ListedIsVisible'
  BY DEF Receive, ListedIsVisible, LabTypeOK, Visible
<1> QED
  BY <1>1, <1>2, <1>3, <1>4
     DEF Receive, LabTypeOK, PersistedIffCreated, BundleNamesPersisted,
         ServedByProcess, RowsAreCommitted, OpenWasRefused

(* A request that has committed nothing is answered without creating.       *)
LEMMA RefusalKeeps ==
  ASSUME LabInv, NEW r \in Request, NEW e \in Request \cup {NoExecution},
         pc[r] \in {"looking", "listing", "committing"},
         Return(r, [execution |-> e, new |-> FALSE]),
         UNCHANGED <<process, key, prior, rows, uncommitted>>
  PROVE  LabInv'
<1> USE DEF LabInv
<1>1. LabTypeOK'
  BY DEF Return, LabTypeOK, Pc
<1>2. r \notin rows
  BY DEF RowsAreCommitted
<1>3. PersistedIffCreated'
  BY <1>2 DEF Return, PersistedIffCreated, LabTypeOK
<1>4. OpenWasRefused'
  BY DEF Return, OpenWasRefused, LabTypeOK
<1>5. ListedIsVisible'
  BY DEF Return, ListedIsVisible, LabTypeOK, Visible
<1> QED
  BY <1>1, <1>2, <1>3, <1>4, <1>5
     DEF Return, LabTypeOK, OneExecutionPerKey, BundleNamesPersisted,
         ServedByProcess, RowsAreCommitted

(* Building and listing touch the request alone.                            *)
LEMMA BuildKeeps ==
  ASSUME LabInv, NEW r \in Request, Build(r) \/ ListPrior(r)
  PROVE  LabInv'
<1> USE DEF LabInv
<1>1. process[r] \in Process /\ r \notin rows
  BY DEF Build, ListPrior, ServedByProcess, RowsAreCommitted
<1>2. Visible(process[r]) \subseteq Request
  BY <1>1 DEF Visible, LabTypeOK
<1>3. LabTypeOK'
  BY <1>2 DEF Build, ListPrior, LabTypeOK, Pc
<1>4. BundleNamesPersisted'
  BY <1>1 DEF Build, ListPrior, BundleNamesPersisted, LabTypeOK
<1>5. ListedIsVisible'
  <2>1. CASE Build(r)
    BY <2>1 DEF Build, ListedIsVisible, LabTypeOK, Visible
  <2>2. CASE ListPrior(r)
    BY <2>2 DEF ListPrior, ListedIsVisible, LabTypeOK, Visible
  <2> QED
    BY <2>1, <2>2
<1>6. OpenWasRefused'
  BY DEF Build, ListPrior, OpenWasRefused, LabTypeOK
<1> QED
  BY <1>1, <1>3, <1>4, <1>5, <1>6
     DEF Build, ListPrior, LabTypeOK, OneExecutionPerKey, PersistedIffCreated,
         ServedByProcess, RowsAreCommitted

(* A commit finds its key free and every transaction closed, so it adds its *)
(* own execution alone, and what its bundle names is persisted by then.     *)
LEMMA CommitKeeps ==
  ASSUME LabInv, NEW r \in Request, Commit(r)
  PROVE  LabInv'
<1> USE DEF LabInv
<1>1. process[r] \in Process /\ pc[r] = "committing"
  BY DEF Commit, ServedByProcess
<1>2. PICK t \in Begun(process[r]) : rows' = rows \cup t \cup {r}
  BY DEF Commit
<1>3. rows' = rows \cup {r} /\ \A q \in Process : uncommitted[q] = {}
  BY <1>1, <1>2, BeginsEmpty
<1>4. uncommitted' = uncommitted
  BY <1>1, <1>3 DEF Commit, LabTypeOK
<1>5. LabTypeOK'
  BY <1>3, <1>4 DEF Commit, LabTypeOK, Pc
<1>6. OneExecutionPerKey'
  <2>1. \A e \in rows : key[e] # key[r]
    BY DEF Commit, Contested, Existing, Visible
  <2> QED
    BY <2>1, <1>3 DEF Commit, OneExecutionPerKey
<1>7. PersistedIffCreated'
  BY <1>1, <1>3 DEF Commit, PersistedIffCreated, LabTypeOK
<1>8. BundleNamesPersisted'
  <2>1. prior[r] \subseteq rows
    BY <1>1, <1>3 DEF ListedIsVisible, Visible
  <2> QED
    BY <2>1, <1>3 DEF Commit, BundleNamesPersisted
<1>9. RowsAreCommitted'
  BY <1>3 DEF Commit, RowsAreCommitted, LabTypeOK
<1>10. ListedIsVisible'
  BY <1>3, <1>4 DEF Commit, ListedIsVisible, LabTypeOK, Visible
<1> QED
  BY <1>1, <1>3, <1>4, <1>5, <1>6, <1>7, <1>8, <1>9, <1>10
     DEF Commit, LabTypeOK, ServedByProcess, OpenWasRefused

(* A transaction that is left open holds an execution answered as failed.   *)
LEMMA LeftOpenKeeps ==
  ASSUME LabInv, NEW r \in Request, CommitLeftOpen(r)
  PROVE  LabInv'
<1> USE DEF LabInv
<1>1. process[r] \in Process /\ pc[r] = "committing" /\ r \notin rows
  BY DEF CommitLeftOpen, ServedByProcess, RowsAreCommitted
<1>2. PICK t \in Begun(process[r]) :
        uncommitted' = [uncommitted EXCEPT ![process[r]] = t \cup {r}]
  BY DEF CommitLeftOpen
<1>3. /\ uncommitted' = [uncommitted EXCEPT ![process[r]] = {r}]
      /\ \A q \in Process : uncommitted[q] = {}
  BY <1>1, <1>2, BeginsEmpty
<1>4. LabTypeOK'
  BY <1>3 DEF CommitLeftOpen, Return, Failed, LabTypeOK, Pc
<1>5. PersistedIffCreated'
  BY <1>1 DEF CommitLeftOpen, Return, Failed, PersistedIffCreated, LabTypeOK
<1>6. OpenWasRefused'
  BY <1>1, <1>3 DEF CommitLeftOpen, Return, Failed, OpenWasRefused, LabTypeOK
<1>7. ListedIsVisible'
  BY <1>1, <1>3 DEF CommitLeftOpen, Return, ListedIsVisible, LabTypeOK, Visible
<1> QED
  BY <1>1, <1>4, <1>5, <1>6, <1>7
     DEF CommitLeftOpen, Return, LabTypeOK, OneExecutionPerKey,
         BundleNamesPersisted, ServedByProcess, RowsAreCommitted

(* What was committed is answered as created.                               *)
LEMMA RespondKeeps ==
  ASSUME LabInv, NEW r \in Request, RespondCreated(r)
  PROVE  LabInv'
<1> USE DEF LabInv
<1>1. r \in rows
  BY DEF RespondCreated, RowsAreCommitted
<1>2. LabTypeOK'
  BY DEF RespondCreated, Return, LabTypeOK, Pc
<1>3. OpenWasRefused'
  BY DEF RespondCreated, Return, OpenWasRefused, LabTypeOK
<1>4. ListedIsVisible'
  BY DEF RespondCreated, Return, ListedIsVisible, LabTypeOK, Visible
<1> QED
  BY <1>1, <1>2, <1>3, <1>4
     DEF RespondCreated, Return, LabTypeOK, OneExecutionPerKey,
         PersistedIffCreated, BundleNamesPersisted, ServedByProcess,
         RowsAreCommitted

(* A restart takes with it what saw the transaction it drops.               *)
LEMMA RestartKeeps ==
  ASSUME LabInv, NEW p \in Process, Restart(p)
  PROVE  LabInv'
<1> USE DEF LabInv
<1>1. LabTypeOK'
  BY DEF Restart, LabTypeOK, Pc
<1>2. \A r \in Request :
        /\ pc'[r] # pc[r] => pc'[r] = "lost" /\ process[r] = p
        /\ process[r] = p => pc'[r] # "committing"
        /\ pc[r] = "returned" => pc'[r] = "returned"
  BY DEF Restart, InProgress
<1>3. \A q \in Process : q # p => uncommitted'[q] = uncommitted[q]
  BY DEF Restart, LabTypeOK
<1>4. uncommitted'[p] = {}
  BY DEF Restart, LabTypeOK
<1>5. OpenWasRefused'
  BY <1>1, <1>2, <1>3, <1>4 DEF Restart, OpenWasRefused, LabTypeOK
<1>6. ListedIsVisible'
  BY <1>2, <1>3 DEF Restart, ListedIsVisible, Visible, ServedByProcess
<1>7. RowsAreCommitted' /\ ServedByProcess'
  BY <1>2 DEF Restart, RowsAreCommitted, ServedByProcess, InProgress
<1>8. PersistedIffCreated'
  BY <1>2 DEF Restart, PersistedIffCreated
<1> QED
  BY <1>1, <1>5, <1>6, <1>7, <1>8
     DEF Restart, OneExecutionPerKey, BundleNamesPersisted

(* Every step keeps the invariant.                                          *)
LEMMA LabStep == ASSUME LabInv, [Next]_vars PROVE LabInv'
<1>1. ASSUME NEW r \in Request, NEW p \in Process, NEW k \in Key,
             Receive(r, p, k)
      PROVE  LabInv'
  BY <1>1, ReceiveKeeps
<1>2. ASSUME NEW r \in Request, Execute(r) PROVE LabInv'
  <2>1. CASE Replay(r)
    <3>1. PICK e \in Existing(process[r], key[r]) :
            Return(r, [execution |-> e, new |-> FALSE])
      BY <2>1 DEF Replay
    <3>2. e \in Request
      BY <2>1 DEF Replay, Existing, Visible, LabInv, LabTypeOK, ServedByProcess
    <3> QED
      BY <2>1, <3>1, <3>2, RefusalKeeps DEF Replay
  <2>2. CASE Build(r) \/ ListPrior(r)
    BY <2>2, BuildKeeps
  <2>3. CASE Commit(r)
    BY <2>3, CommitKeeps
  <2>4. CASE ReplayContested(r)
    <3>1. PICK e \in Contested(r) :
            Return(r, [execution |-> e, new |-> FALSE])
      BY <2>4 DEF ReplayContested
    <3>2. e \in Request
      BY <2>4 DEF ReplayContested, Contested, Existing, Visible, LabInv,
                  LabTypeOK, ServedByProcess
    <3> QED
      BY <2>4, <3>1, <3>2, RefusalKeeps DEF ReplayContested
  <2>5. CASE CommitLeftOpen(r)
    BY <2>5, LeftOpenKeeps
  <2>6. CASE PersistenceFails(r)
    BY <2>6, RefusalKeeps DEF PersistenceFails, Failed
  <2>7. CASE RespondCreated(r)
    BY <2>7, RespondKeeps
  <2> QED
    BY <1>2, <2>1, <2>2, <2>3, <2>4, <2>5, <2>6, <2>7 DEF Execute
<1>3. ASSUME NEW p \in Process, Restart(p) PROVE LabInv'
  BY <1>3, RestartKeeps
<1>4. CASE UNCHANGED vars
  BY <1>4 DEF vars, LabInv, LabTypeOK, OneExecutionPerKey,
              PersistedIffCreated, BundleNamesPersisted, ServedByProcess,
              RowsAreCommitted, OpenWasRefused, ListedIsVisible, Visible
<1> QED
  BY <1>1, <1>2, <1>3, <1>4 DEF Next

LEMMA LabInductive == Spec => []LabInv
  BY LabInit, LabStep, PTL DEF Spec

(* No key is ever executed twice: over all processes, retries, failures and *)
(* restarts, the store holds one execution of it at most.                   *)
THEOREM KeyExecutesOnce == Spec => []OneExecutionPerKey
<1>1. LabInv => OneExecutionPerKey
  BY DEF LabInv
<1> QED
  BY LabInductive, <1>1, PTL

(* Whoever was told that an execution was created finds it persisted, and   *)
(* a failure that was answered never turns into an execution afterwards.    *)
THEOREM CreatedMeansPersisted == Spec => []PersistedIffCreated
<1>1. LabInv => PersistedIffCreated
  BY DEF LabInv
<1> QED
  BY LabInductive, <1>1, PTL

(* Evidence bundles never name an execution that does not exist.            *)
THEOREM BundlesAreGrounded == Spec => []BundleNamesPersisted
<1>1. LabInv => BundleNamesPersisted
  BY DEF LabInv
<1> QED
  BY LabInductive, <1>1, PTL
-----------------------------------------------------------------------------
(* Prompt missions.                                                         *)

(* Requests compute on a run that was created and hold a body of it.        *)
RequestsTyped ==
  /\ created \subseteq Run
  /\ DOMAIN runs \subseteq created
  /\ \A r \in DOMAIN runs : runs[r].body \in Prompts!RunBody
  /\ DOMAIN requests = Client
  /\ \A c \in Client :
       requests[c].pc = "computing" =>
         /\ requests[c].run \in created
         /\ requests[c].status \in Prompts!Status
         /\ requests[c].held \in Prompts!RunBody
  /\ answered \in [Run -> Prompts!Results]

(* No tool has answered on a run that is not created yet.                   *)
FreshRunsAreEmpty == \A r \in Run \ created : answered[r] = Prompts!NoResults

(* A run that no two requests changed at a time: at most one computes on    *)
(* it, and what is stored of it and what that one holds are the answers.    *)
OneAtATime ==
  \A r \in Run \ overlapped :
    /\ r \in DOMAIN runs => runs[r].body.results = answered[r]
    /\ \A c \in Prompts!Computing(r) :
         /\ requests[c].held.results = answered[r]
         /\ \A d \in Prompts!Computing(r) : c = d

RunsInv == RequestsTyped /\ FreshRunsAreEmpty /\ OneAtATime

Reference == [tool : Prompts!Tool, status : Prompts!Status]

(* What a mission's thread knows.                                           *)
Thread ==
  [pc : {"idle", "responding", "answered", "failed"}, run : Run \cup {NoRun},
   decision : Prompts!Analysed \cup {"none"},
   references : Seq(Reference),
   events : Nat]

(* The references follow the plan of the decision, and each adds an event.  *)
Follows(p) ==
  LET plan == Prompts!ResponseToolsFor(p.decision) IN
    /\ p.decision = "none" => p.references = <<>>
    /\ p.decision # "none" =>
         /\ Len(p.references) <= Len(plan)
         /\ \A i \in 1 .. Len(p.references) : p.references[i].tool = plan[i]
    /\ p.pc = "idle" => p.decision = "none"
    /\ p.pc \in {"responding", "answered"} => p.decision # "none"
    /\ p.pc = "responding" => p.events = Prompts!Opening + Len(p.references)
    /\ p.pc = "answered" => Len(p.references) = Len(plan)

ThreadTyped == prompt \in [Mission -> Thread]

PlanIsFollowed == \A m \in Mission : Follows(prompt[m])

(* A tool is executed for a mission exactly if one of its references says   *)
(* that it succeeded.                                                       *)
ReferencesAreTrue ==
  \A m \in Mission : \A t \in Prompts!Tool :
    (\E e \in executions : e.by = m /\ e.tool = t)
      <=> \E i \in 1 .. Len(prompt[m].references) :
            prompt[m].references[i] = [tool |-> t, status |-> "succeeded"]

ToolsAreKnown == \A e \in executions : e.tool \in Prompts!Tool

(* What is stored of a mission is what its thread concluded.                *)
StoredIsConcluded ==
  \A m \in Mission \cap DOMAIN missions :
    /\ prompt[m].pc = "answered"
    /\ missions[m].body =
         [status |-> Prompts!FinalStatusFor(prompt[m].decision, Prompts!Plan(m),
                                            prompt[m].references),
          decision |-> prompt[m].decision, plan |-> Prompts!Plan(m)]

MissionsInv ==
  /\ ThreadTyped
  /\ PlanIsFollowed
  /\ ReferencesAreTrue
  /\ ToolsAreKnown
  /\ StoredIsConcluded
  /\ IsFiniteSet(DOMAIN missions)
-----------------------------------------------------------------------------
(* The runs.                                                                *)

(* A put of a run adds or changes no other run.                             *)
LEMMA RunPut ==
  ASSUME NEW r, NEW b, Prompts!PutRun(r, b)
  PROVE  /\ DOMAIN runs' \subseteq DOMAIN runs \cup {r}
         /\ \A x \in DOMAIN runs' :
              runs'[x].body = IF x = r THEN b ELSE runs[x].body
  <1> DEFINE D == (Prompts!Store!Live \cup {r}) \ Prompts!Store!Victims(r)
  <1>1. runs' = [x \in D |->
                   IF x = r
                     THEN [at |-> clock, rank |-> Prompts!Store!RankFor(r),
                           body |-> b]
                     ELSE runs[x]]
    BY DEF Prompts!PutRun, Prompts!Store!Put
  <1>2. D \subseteq DOMAIN runs \cup {r}
    BY DEF Prompts!Store!Live
  <1> HIDE DEF D
  <1>3. DOMAIN runs' = D
    BY <1>1
  <1>4. ASSUME NEW x \in DOMAIN runs'
        PROVE  runs'[x].body = IF x = r THEN b ELSE runs[x].body
    <2>1. CASE x = r
      BY <1>1, <1>3, <2>1
    <2>2. CASE x # r
      BY <1>1, <1>3, <2>2
    <2> QED
      BY <2>1, <2>2
  <1> QED
    BY <1>2, <1>3, <1>4

(* A purge takes out the runs whose time is over and changes no other.      *)
LEMMA RunsPurged ==
  ASSUME Prompts!PurgeRuns
  PROVE  /\ DOMAIN runs' = Prompts!Store!Live
         /\ Prompts!Store!Live \subseteq DOMAIN runs
         /\ \A x \in DOMAIN runs' : runs'[x].body = runs[x].body
  BY DEF Prompts!PurgeRuns, Prompts!Store!Purge, Prompts!Store!Live

LEMMA BodyOfResults ==
  ASSUME NEW d \in Prompts!Decision, NEW x \in Prompts!Results
  PROVE  [decision |-> d, results |-> x] \in Prompts!RunBody
  BY DEF Prompts!RunBody

LEMMA ResultTyped ==
  ASSUME NEW x \in Prompts!Results, NEW t, NEW s \in Prompts!Status
  PROVE  [x EXCEPT ![t] = s] \in Prompts!Results
  BY DEF Prompts!Results

(* What a request computes keeps the decision and the other results.        *)
LEMMA HeldChanges ==
  ASSUME NEW h \in Prompts!RunBody, NEW t, NEW s \in Prompts!Status
  PROVE  LET b == [h EXCEPT !.results = Prompts!WithResult(@, t, s)]
         IN  b \in Prompts!RunBody /\ b.results = [h.results EXCEPT ![t] = s]
  <1>1. h.results \in Prompts!Results /\ h.decision \in Prompts!Decision
    BY DEF Prompts!RunBody
  <1>2. [h.results EXCEPT ![t] = s] \in Prompts!Results
    BY <1>1, ResultTyped
  <1> QED
    BY <1>1, <1>2 DEF Prompts!RunBody, Prompts!WithResult

LEMMA NoResultsTyped == Prompts!NoResults \in Prompts!Results
  BY DEF Prompts!NoResults, Prompts!Results

LEMMA NothingRunsYet == Prompts!Init => RunsInv
  <1> SUFFICES ASSUME Prompts!Init PROVE RunsInv
    OBVIOUS
  <1>1. runs = [m \in {} |-> 0] /\ created = {}
    BY DEF Prompts!Init, Prompts!LabInit, Prompts!Store!Init
  <1>2. requests = [c \in Client |-> Prompts!Idle]
    BY DEF Prompts!Init, Prompts!LabInit
  <1>3. answered = [r \in Run |-> Prompts!NoResults]
    BY DEF Prompts!Init, Prompts!LabInit
  <1>4. \A c \in Client : requests[c].pc = "idle"
    BY <1>2 DEF Prompts!Idle
  <1>5. RequestsTyped
    BY <1>1, <1>2, <1>3, <1>4, NoResultsTyped DEF RequestsTyped
  <1>6. FreshRunsAreEmpty
    BY <1>3 DEF FreshRunsAreEmpty
  <1>7. OneAtATime
    BY <1>1, <1>4 DEF OneAtATime, Prompts!Computing
  <1> QED
    BY <1>5, <1>6, <1>7 DEF RunsInv

(* A new run is empty, and no request computes on it.                       *)
LEMMA CreateKeepsRuns ==
  ASSUME RunsInv, NEW r, NEW d \in Prompts!Decision, Prompts!CreateRun(r, d),
         UNCHANGED <<requests, answered, overlapped>>
  PROVE  RunsInv'
  <1> DEFINE b == [decision |-> d, results |-> Prompts!NoResults]
  <1>1. r \in Run \ created /\ created' = created \cup {r}
    BY DEF Prompts!CreateRun
  <1>2. Prompts!PutRun(r, b)
    BY DEF Prompts!CreateRun
  <1>3. b \in Prompts!RunBody /\ b.results = Prompts!NoResults
    BY NoResultsTyped, BodyOfResults
  <1> HIDE DEF b
  <1>4. /\ DOMAIN runs' \subseteq DOMAIN runs \cup {r}
        /\ \A x \in DOMAIN runs' :
             runs'[x].body = IF x = r THEN b ELSE runs[x].body
    BY <1>2, RunPut
  <1>5. RequestsTyped'
    BY <1>1, <1>3, <1>4 DEF RunsInv, RequestsTyped
  <1>6. FreshRunsAreEmpty'
    BY <1>1 DEF RunsInv, FreshRunsAreEmpty
  <1>7. ASSUME NEW x \in Run \ overlapped, x \in DOMAIN runs'
        PROVE  runs'[x].body.results = answered[x]
    <2>1. CASE x = r
      BY <1>1, <1>3, <1>4, <1>7, <2>1 DEF RunsInv, FreshRunsAreEmpty
    <2>2. CASE x # r
      BY <1>4, <1>7, <2>2 DEF RunsInv, OneAtATime
    <2> QED
      BY <2>1, <2>2
  <1>8. OneAtATime'
    BY <1>7 DEF RunsInv, OneAtATime, Prompts!Computing
  <1> QED
    BY <1>5, <1>6, <1>8 DEF RunsInv

(* A purge only takes runs out.                                             *)
LEMMA PurgeKeepsRuns ==
  ASSUME RunsInv, Prompts!PurgeRuns,
         UNCHANGED <<created, requests, answered, overlapped>>
  PROVE  RunsInv'
  <1>1. /\ DOMAIN runs' \subseteq DOMAIN runs
        /\ \A x \in DOMAIN runs' : runs'[x].body = runs[x].body
    BY RunsPurged
  <1>2. RequestsTyped'
    BY <1>1 DEF RunsInv, RequestsTyped
  <1>3. FreshRunsAreEmpty'
    BY DEF RunsInv, FreshRunsAreEmpty
  <1>4. OneAtATime'
    BY <1>1 DEF RunsInv, OneAtATime, Prompts!Computing
  <1> QED
    BY <1>2, <1>3, <1>4 DEF RunsInv

(* A request that finds another at the same run marks it as overlapped.     *)
LEMMA ReadKeepsRuns ==
  ASSUME RunsInv, NEW c \in Client, Prompts!ToolReads(c)
  PROVE  RunsInv'
  <1>1. Prompts!PurgeRuns /\ UNCHANGED <<created, answered>>
    BY DEF Prompts!ToolReads
  <1>2. /\ DOMAIN runs' = Prompts!Store!Live
        /\ Prompts!Store!Live \subseteq DOMAIN runs
        /\ \A x \in DOMAIN runs' : runs'[x].body = runs[x].body
    BY <1>1, RunsPurged
  <1>3. FreshRunsAreEmpty'
    BY <1>1 DEF RunsInv, FreshRunsAreEmpty
  <1>4. CASE UNCHANGED <<requests, overlapped>>
    <2>1. RunsInv'
      BY <1>1, <1>4, PurgeKeepsRuns
    <2> QED
      BY <2>1
  <1>5. ASSUME NEW r \in created, NEW t \in ClientTool, NEW s \in Prompts!Status,
               Prompts!HasRun(r),
               requests' = [requests EXCEPT
                  ![c] = [pc |-> "computing", run |-> r, tool |-> t,
                          status |-> s, held |-> runs[r].body]],
               overlapped' = IF Prompts!Computing(r) = {}
                               THEN overlapped ELSE overlapped \cup {r}
        PROVE  RunsInv'
    <2>1. r \in DOMAIN runs
      BY <1>2, <1>5 DEF Prompts!HasRun, Prompts!Store!Found
    <2>2. runs[r].body \in Prompts!RunBody
      BY <2>1 DEF RunsInv, RequestsTyped
    <2>3. /\ DOMAIN requests' = Client
          /\ requests'[c].pc = "computing" /\ requests'[c].run = r
          /\ requests'[c].status = s /\ requests'[c].held = runs[r].body
          /\ \A d \in Client \ {c} : requests'[d] = requests[d]
      BY <1>5 DEF RunsInv, RequestsTyped
    <2>4. RequestsTyped'
      BY <1>1, <1>2, <1>5, <2>2, <2>3 DEF RunsInv, RequestsTyped
    <2>5. OneAtATime'
      <3> SUFFICES ASSUME NEW x \in Run \ overlapped'
                   PROVE  /\ x \in DOMAIN runs' =>
                               runs'[x].body.results = answered'[x]
                          /\ \A e \in Prompts!Computing(x)' :
                               /\ requests'[e].held.results = answered'[x]
                               /\ \A d \in Prompts!Computing(x)' : e = d
        BY DEF OneAtATime
      <3>1. x \in Run \ overlapped
        BY <1>5
      <3>2. x \in DOMAIN runs' => runs'[x].body.results = answered'[x]
        BY <1>1, <1>2, <3>1 DEF RunsInv, OneAtATime
      <3>3. CASE x = r
        <4>1. Prompts!Computing(r) = {}
          BY <1>5, <3>3
        <4>2. \A d \in Client : requests'[d].pc = "computing" /\ requests'[d].run = r
                                  => d = c
          BY <2>3, <4>1 DEF Prompts!Computing
        <4>3. runs[r].body.results = answered[r]
          BY <2>1, <3>1, <3>3 DEF RunsInv, OneAtATime
        <4> QED
          BY <1>1, <2>3, <3>2, <3>3, <4>2, <4>3 DEF Prompts!Computing
      <3>4. CASE x # r
        <4>1. \A d \in Client : requests'[d].pc = "computing" /\ requests'[d].run = x
                                  => d # c
          BY <2>3, <3>4
        <4>2. Prompts!Computing(x)' \subseteq Prompts!Computing(x) \ {c}
          BY <2>3, <4>1 DEF Prompts!Computing
        <4>3. \A e \in Prompts!Computing(x)' : requests'[e] = requests[e]
          BY <2>3, <4>2 DEF Prompts!Computing
        <4> QED
          BY <1>1, <3>1, <3>2, <4>2, <4>3 DEF RunsInv, OneAtATime
      <3> QED
        BY <3>3, <3>4
    <2> QED
      BY <1>3, <2>4, <2>5 DEF RunsInv
  <1> QED
    BY <1>4, <1>5 DEF Prompts!ToolReads

(* A request that had the run to itself puts back what it held, and with it *)
(* the results of the other tools.                                          *)
LEMMA PutKeepsRuns ==
  ASSUME RunsInv, NEW c \in Client, Prompts!ToolPuts(c)
  PROVE  RunsInv'
  <1> DEFINE r == requests[c].run
             h == requests[c].held
             s == requests[c].status
             t == requests[c].tool
             b == [h EXCEPT !.results = Prompts!WithResult(@, t, s)]
  <1>1. /\ requests[c].pc = "computing"
        /\ Prompts!PutRun(r, b)
        /\ requests' = [requests EXCEPT ![c] = Prompts!Idle]
        /\ answered' = [answered EXCEPT ![r] = [answered[r] EXCEPT ![t] = s]]
        /\ UNCHANGED <<created, overlapped>>
    BY DEF Prompts!ToolPuts
  <1>2. r \in created /\ s \in Prompts!Status /\ h \in Prompts!RunBody
    BY <1>1 DEF RunsInv, RequestsTyped
  <1>3. c \in Prompts!Computing(r)
    BY <1>1 DEF Prompts!Computing
  <1>4. r \in Run /\ answered \in [Run -> Prompts!Results]
    BY <1>2 DEF RunsInv, RequestsTyped
  <1> HIDE DEF r, h, s, t
  <1>5. b \in Prompts!RunBody /\ b.results = [h.results EXCEPT ![t] = s]
    BY <1>2, HeldChanges
  <1>6. [answered[r] EXCEPT ![t] = s] \in Prompts!Results
    <2>1. answered[r] \in Prompts!Results
      BY <1>4
    <2> QED
      BY <1>2, <2>1, ResultTyped
  <1>7. DOMAIN requests = Client
    BY DEF RunsInv, RequestsTyped
  <1> HIDE DEF b
  <1>8. /\ DOMAIN runs' \subseteq DOMAIN runs \cup {r}
        /\ \A x \in DOMAIN runs' :
             runs'[x].body = IF x = r THEN b ELSE runs[x].body
    BY <1>1, RunPut
  <1>9. /\ DOMAIN requests' = Client
        /\ requests'[c].pc = "idle"
        /\ \A d \in Client \ {c} : requests'[d] = requests[d]
    BY <1>1, <1>7 DEF Prompts!Idle
  <1>10. /\ answered' \in [Run -> Prompts!Results]
         /\ answered'[r] = [answered[r] EXCEPT ![t] = s]
         /\ \A x \in Run \ {r} : answered'[x] = answered[x]
    BY <1>1, <1>4, <1>6
  <1>11. \A x \in Run : Prompts!Computing(x)' \subseteq Prompts!Computing(x) \ {c}
    BY <1>9 DEF Prompts!Computing
  <1>12. RequestsTyped'
    BY <1>1, <1>2, <1>5, <1>8, <1>9, <1>10 DEF RunsInv, RequestsTyped
  <1>13. FreshRunsAreEmpty'
    BY <1>1, <1>2, <1>10 DEF RunsInv, FreshRunsAreEmpty
  <1>14. OneAtATime'
    <2> SUFFICES ASSUME NEW x \in Run \ overlapped
                 PROVE  /\ x \in DOMAIN runs' =>
                             runs'[x].body.results = answered'[x]
                        /\ \A e \in Prompts!Computing(x)' :
                             /\ requests'[e].held.results = answered'[x]
                             /\ \A d \in Prompts!Computing(x)' : e = d
      BY <1>1 DEF OneAtATime
    <2>1. CASE x = r
      <3>1. requests[c].held.results = answered[r]
        BY <1>3, <2>1 DEF RunsInv, OneAtATime
      <3>2. Prompts!Computing(x)' = {}
        BY <1>3, <1>11, <2>1 DEF RunsInv, OneAtATime
      <3>3. h.results = answered[r]
        BY <3>1 DEF h
      <3> QED
        BY <1>5, <1>8, <1>10, <2>1, <3>2, <3>3
    <2>2. CASE x # r
      <3>1. \A e \in Prompts!Computing(x)' : requests'[e] = requests[e]
        BY <1>9, <1>11 DEF Prompts!Computing
      <3>2. x \in DOMAIN runs' => runs'[x].body.results = answered'[x]
        BY <1>8, <1>10, <2>2 DEF RunsInv, OneAtATime
      <3>3. \A e \in Prompts!Computing(x) :
              /\ requests[e].held.results = answered[x]
              /\ \A d \in Prompts!Computing(x) : e = d
        BY DEF RunsInv, OneAtATime
      <3> QED
        BY <1>10, <1>11, <2>2, <3>1, <3>2, <3>3
    <2> QED
      BY <2>1, <2>2
  <1> QED
    BY <1>12, <1>13, <1>14 DEF RunsInv

LEMMA RunsKept == ASSUME RunsInv, [Prompts!Next]_Prompts!vars PROVE RunsInv'
  <1>1. CASE Prompts!PostRun
    <2> PICK r \in Run : Prompts!CreateRun(r, "review")
      BY <1>1 DEF Prompts!PostRun
    <2>1. "review" \in Prompts!Decision
      BY DEF Prompts!Decision
    <2>2. UNCHANGED <<requests, answered, overlapped>>
      BY <1>1 DEF Prompts!PostRun
    <2> QED
      BY <2>1, <2>2, CreateKeepsRuns
  <1>2. CASE Prompts!ReadRuns
    BY <1>2, PurgeKeepsRuns DEF Prompts!ReadRuns
  <1>3. ASSUME NEW c \in Client, Prompts!ToolReads(c) \/ Prompts!ToolPuts(c)
        PROVE  RunsInv'
    BY <1>3, ReadKeepsRuns, PutKeepsRuns
  <1>4. ASSUME NEW m \in Mission, Prompts!Start(m)
        PROVE  RunsInv'
    <2>1. UNCHANGED <<requests, answered, overlapped>>
      BY <1>4 DEF Prompts!Start
    <2>2. ASSUME NEW r \in Run, NEW d \in Prompts!Analysed, Prompts!CreateRun(r, d)
          PROVE  RunsInv'
      <3>1. d \in Prompts!Decision
        BY DEF Prompts!Analysed
      <3> QED
        BY <2>1, <2>2, <3>1, CreateKeepsRuns
    <2>3. CASE UNCHANGED Prompts!runVars
      BY <2>1, <2>3 DEF Prompts!runVars, RunsInv, RequestsTyped,
                       FreshRunsAreEmpty, OneAtATime, Prompts!Computing
    <2> QED
      BY <1>4, <2>2, <2>3 DEF Prompts!Start
  <1>5. ASSUME NEW m \in Mission, Prompts!Respond(m)
        PROVE  RunsInv'
    BY <1>5, PurgeKeepsRuns DEF Prompts!Respond
  <1>6. CASE UNCHANGED Prompts!labVars
    BY <1>6 DEF Prompts!labVars, Prompts!runVars, RunsInv, RequestsTyped,
                FreshRunsAreEmpty, OneAtATime, Prompts!Computing
  <1> QED
    BY <1>1, <1>2, <1>3, <1>4, <1>5, <1>6
    DEF Prompts!Next, Prompts!LabNext, Prompts!Conclude, Prompts!PcapPuts,
        Prompts!GetMission, Prompts!Tick, Prompts!vars

LEMMA RunsInductive == Prompts!Spec => []RunsInv
  BY NothingRunsYet, RunsKept, PTL DEF Prompts!Spec

(* A result that was answered is in the stored run beside those of the      *)
(* other tools, unless requests for it overlapped: for any number of runs,  *)
(* clients and missions, and however small the store.                       *)
THEOREM AnsweredResultsAreKept == Prompts!Spec => []ResultsAreKept
  <1>1. RunsInv => ResultsAreKept
    BY DEF RunsInv, RequestsTyped, OneAtATime, ResultsAreKept,
           Prompts!ResultsAreKept
  <1> QED
    BY <1>1, RunsInductive, PTL
-----------------------------------------------------------------------------
(* The missions.                                                            *)

LEMMA SequenceElement ==
  ASSUME NEW S, NEW s \in Seq(S) PROVE \A i \in 1 .. Len(s) : s[i] \in S
  OBVIOUS

(* The plan of a decision has at most three tools, each of them once.       *)
LEMMA PlanOfDecision ==
  ASSUME NEW d \in Prompts!Decision
  PROVE  LET q == Prompts!ResponseToolsFor(d) IN
         /\ q \in Seq(Prompts!Tool)
         /\ Len(q) <= 3
         /\ \A i, j \in 1 .. Len(q) : q[i] = q[j] => i = j
         /\ d # "block" => \A i \in 1 .. Len(q) : q[i] # "gateway"
         /\ Prompts!EarnedStatus(d) # "degraded"
  <1> DEFINE q == Prompts!ResponseToolsFor(d)
  <1>1. CASE d = "allow"
    <2>1. q = <<>>
      BY <1>1 DEF Prompts!ResponseToolsFor
    <2>2. Prompts!EarnedStatus(d) # "degraded"
      BY <1>1 DEF Prompts!EarnedStatus
    <2> HIDE DEF q
    <2>3. q \in Seq(Prompts!Tool) /\ Len(q) = 0
      BY <2>1
    <2> QED
      BY <2>2, <2>3 DEF q
  <1>2. CASE d \in {"review", "sanitize"}
    <2>1. q = <<"case", "bundle">>
      BY <1>2 DEF Prompts!ResponseToolsFor
    <2> QED
      BY <1>2, <2>1 DEF Prompts!EarnedStatus, Prompts!Tool
  <1>3. CASE d = "block"
    <2>1. q = <<"gateway", "case", "bundle">>
      BY <1>3 DEF Prompts!ResponseToolsFor
    <2>2. Prompts!EarnedStatus(d) # "degraded"
      BY <1>3 DEF Prompts!EarnedStatus
    <2> HIDE DEF q
    <2>3. q \in Seq(Prompts!Tool) /\ Len(q) = 3
      BY <2>1 DEF Prompts!Tool
    <2>4. q[1] = "gateway" /\ q[2] = "case" /\ q[3] = "bundle"
      BY <2>1
    <2>5. \A i, j \in 1 .. 3 : q[i] = q[j] => i = j
      <3>1. \A i \in 1 .. 3 : i = 1 \/ i = 2 \/ i = 3
        OBVIOUS
      <3> QED
        BY <2>4, <3>1
    <2>6. Len(q) <= 3 /\ \A i, j \in 1 .. Len(q) : q[i] = q[j] => i = j
      BY <2>3, <2>5
    <2>7. d # "block" => \A i \in 1 .. Len(q) : q[i] # "gateway"
      BY <1>3
    <2> QED
      BY <2>2, <2>3, <2>6, <2>7 DEF q
  <1> QED
    BY <1>1, <1>2, <1>3 DEF Prompts!Decision

LEMMA NoMissionYet == Prompts!Init => MissionsInv
  <1> SUFFICES ASSUME Prompts!Init PROVE MissionsInv
    OBVIOUS
  <1>1. missions = [m \in {} |-> 0]
    BY DEF Prompts!Init, Prompts!MissionStore!Init
  <1>2. prompt = [m \in Mission |-> Prompts!Waiting] /\ executions = {}
    BY DEF Prompts!Init, Prompts!LabInit
  <1>3. ThreadTyped
    BY <1>2 DEF ThreadTyped, Thread, Prompts!Waiting
  <1>4. \A m \in Mission : /\ prompt[m].pc = "idle" /\ prompt[m].decision = "none"
                           /\ prompt[m].references = <<>>
    BY <1>2 DEF Prompts!Waiting
  <1>5. PlanIsFollowed
    BY <1>4 DEF PlanIsFollowed, Follows
  <1>6. ReferencesAreTrue /\ ToolsAreKnown
    BY <1>2, <1>4 DEF ReferencesAreTrue, ToolsAreKnown
  <1>7. StoredIsConcluded /\ IsFiniteSet(DOMAIN missions)
    BY <1>1, FS_EmptySet DEF StoredIsConcluded
  <1> QED
    BY <1>3, <1>5, <1>6, <1>7 DEF MissionsInv

(* The mission store: a put or a purge adds the one mission at most, and    *)
(* changes no other.                                                        *)
LEMMA MissionPut ==
  ASSUME NEW m, NEW b, Prompts!MissionStore!Put(m, b), IsFiniteSet(DOMAIN missions)
  PROVE  /\ DOMAIN missions' \subseteq DOMAIN missions \cup {m}
         /\ \A x \in DOMAIN missions' :
              missions'[x].body = IF x = m THEN b ELSE missions[x].body
         /\ IsFiniteSet(DOMAIN missions')
  <1> DEFINE D == (Prompts!MissionStore!Live \cup {m})
                    \ Prompts!MissionStore!Victims(m)
  <1>1. missions' = [x \in D |->
                       IF x = m
                         THEN [at |-> clock, rank |-> Prompts!MissionStore!RankFor(m),
                               body |-> b]
                         ELSE missions[x]]
    BY DEF Prompts!MissionStore!Put
  <1>2. D \subseteq DOMAIN missions \cup {m}
    BY DEF Prompts!MissionStore!Live
  <1> HIDE DEF D
  <1>3. DOMAIN missions' = D
    BY <1>1
  <1>4. ASSUME NEW x \in DOMAIN missions'
        PROVE  missions'[x].body = IF x = m THEN b ELSE missions[x].body
    <2>1. CASE x = m
      BY <1>1, <1>3, <2>1
    <2>2. CASE x # m
      BY <1>1, <1>3, <2>2
    <2> QED
      BY <2>1, <2>2
  <1>5. IsFiniteSet(DOMAIN missions \cup {m})
    BY FS_AddElement
  <1>6. IsFiniteSet(DOMAIN missions')
    BY <1>2, <1>3, <1>5, FS_Subset
  <1> QED
    BY <1>2, <1>3, <1>4, <1>6

LEMMA MissionsOnlyLeave ==
  ASSUME NEW D, D \subseteq DOMAIN missions, missions' = [x \in D |-> missions[x]],
         IsFiniteSet(DOMAIN missions)
  PROVE  /\ DOMAIN missions' \subseteq DOMAIN missions
         /\ \A x \in DOMAIN missions' : missions'[x].body = missions[x].body
         /\ IsFiniteSet(DOMAIN missions')
  BY FS_Subset

LEMMA ThreadsStay ==
  ASSUME MissionsInv, UNCHANGED <<prompt, executions>>
  PROVE  ThreadTyped' /\ PlanIsFollowed' /\ ReferencesAreTrue' /\ ToolsAreKnown'
  <1>1. ThreadTyped'
    BY DEF MissionsInv, ThreadTyped
  <1>2. PlanIsFollowed'
    BY DEF MissionsInv, PlanIsFollowed
  <1>3. ReferencesAreTrue'
    BY DEF MissionsInv, ReferencesAreTrue
  <1>4. ToolsAreKnown'
    BY DEF MissionsInv, ToolsAreKnown
  <1> QED
    BY <1>1, <1>2, <1>3, <1>4

(* Nothing but the missions stored changes: what left does not matter.      *)
LEMMA LeavingKeepsMissions ==
  ASSUME MissionsInv,
         DOMAIN missions' \subseteq DOMAIN missions,
         \A x \in DOMAIN missions' : missions'[x].body = missions[x].body,
         IsFiniteSet(DOMAIN missions'),
         UNCHANGED <<prompt, executions>>
  PROVE  MissionsInv'
  <1>1. ThreadTyped' /\ PlanIsFollowed' /\ ReferencesAreTrue' /\ ToolsAreKnown'
    BY ThreadsStay
  <1>2. StoredIsConcluded'
    BY DEF MissionsInv, StoredIsConcluded, Prompts!Plan
  <1> QED
    BY <1>1, <1>2 DEF MissionsInv

(* A put of the PCAP coordinators changes no prompt mission.                *)
LEMMA PcapPutKeepsMissions ==
  ASSUME MissionsInv, NEW p \in PcapMission, NEW b,
         Prompts!MissionStore!Put(p, b), UNCHANGED <<prompt, executions>>
  PROVE  MissionsInv'
  <1>1. /\ DOMAIN missions' \subseteq DOMAIN missions \cup {p}
        /\ \A x \in DOMAIN missions' :
             missions'[x].body = IF x = p THEN b ELSE missions[x].body
        /\ IsFiniteSet(DOMAIN missions')
    BY MissionPut DEF MissionsInv
  <1>2. p \notin Mission
    BY PromptsAssumption DEF Prompts!PromptAssumption
  <1>3. ThreadTyped' /\ PlanIsFollowed' /\ ReferencesAreTrue' /\ ToolsAreKnown'
    BY ThreadsStay
  <1>4. StoredIsConcluded'
    BY <1>1, <1>2 DEF MissionsInv, StoredIsConcluded, Prompts!Plan
  <1> QED
    BY <1>1, <1>3, <1>4 DEF MissionsInv

(* A thread that is not through with its mission has nothing stored.        *)
LEMMA ThreadMoves ==
  ASSUME MissionsInv, NEW m \in Mission, prompt[m].pc # "answered",
         NEW q \in Thread, Follows(q),
         prompt' = [prompt EXCEPT ![m] = q], missions' = missions
  PROVE  /\ ThreadTyped' /\ PlanIsFollowed' /\ StoredIsConcluded'
         /\ IsFiniteSet(DOMAIN missions')
         /\ prompt'[m] = q
         /\ \A x \in Mission \ {m} : prompt'[x] = prompt[x]
  <1>1. prompt \in [Mission -> Thread]
    BY DEF MissionsInv, ThreadTyped
  <1>2. prompt' \in [Mission -> Thread]
    BY <1>1
  <1>3. prompt'[m] = q /\ \A x \in Mission \ {m} : prompt'[x] = prompt[x]
    BY <1>1
  <1>4. PlanIsFollowed'
    BY <1>3 DEF MissionsInv, PlanIsFollowed
  <1>5. m \notin DOMAIN missions
    BY DEF MissionsInv, StoredIsConcluded
  <1>6. StoredIsConcluded'
    BY <1>3, <1>5 DEF MissionsInv, StoredIsConcluded, Prompts!Plan
  <1> QED
    BY <1>2, <1>3, <1>4, <1>6 DEF ThreadTyped, MissionsInv

LEMMA QuietMoveKeepsMissions ==
  ASSUME MissionsInv, NEW m \in Mission, prompt[m].pc # "answered",
         NEW q \in Thread, Follows(q), q.references = prompt[m].references,
         prompt' = [prompt EXCEPT ![m] = q],
         UNCHANGED <<missions, executions>>
  PROVE  MissionsInv'
  <1>1. /\ ThreadTyped' /\ PlanIsFollowed' /\ StoredIsConcluded'
        /\ IsFiniteSet(DOMAIN missions')
        /\ prompt'[m] = q
        /\ \A x \in Mission \ {m} : prompt'[x] = prompt[x]
    BY ThreadMoves
  <1>2. \A x \in Mission : prompt'[x].references = prompt[x].references
    BY <1>1
  <1>3. ReferencesAreTrue'
    BY <1>2 DEF MissionsInv, ReferencesAreTrue
  <1>4. ToolsAreKnown'
    BY DEF MissionsInv, ToolsAreKnown
  <1> QED
    BY <1>1, <1>3, <1>4 DEF MissionsInv

(* A mission fails with the references it has.                              *)
LEMMA FailingKeepsMissions ==
  ASSUME MissionsInv, NEW m \in Mission, prompt[m].pc # "answered",
         Prompts!Fails(m), UNCHANGED <<missions, executions>>
  PROVE  MissionsInv'
  <1> DEFINE q == [prompt[m] EXCEPT !.pc = "failed"]
  <1>1. prompt \in [Mission -> Thread] /\ prompt[m] \in Thread
    BY DEF MissionsInv, ThreadTyped
  <1>2. prompt' = [prompt EXCEPT ![m] = q]
    BY <1>1 DEF Prompts!Fails
  <1>3. /\ q \in Thread /\ q.pc = "failed" /\ q.decision = prompt[m].decision
        /\ q.references = prompt[m].references
    BY <1>1 DEF Thread
  <1> HIDE DEF q
  <1>4. Follows(prompt[m])
    BY DEF MissionsInv, PlanIsFollowed
  <1>5. Follows(q)
    BY <1>3, <1>4 DEF Follows
  <1> QED
    BY <1>2, <1>3, <1>5, QuietMoveKeepsMissions

LEMMA StartKeepsMissions ==
  ASSUME MissionsInv, NEW m \in Mission, Prompts!Start(m)
  PROVE  MissionsInv'
  <1>1. prompt[m].pc = "idle" /\ UNCHANGED <<missions, executions>>
    BY DEF Prompts!Start, Prompts!missionVars
  <1>2. prompt[m].decision = "none" /\ prompt[m].references = <<>>
    BY <1>1 DEF MissionsInv, PlanIsFollowed, Follows
  <1>3. ASSUME NEW r \in Run, NEW d \in Prompts!Analysed,
               prompt' = [prompt EXCEPT
                 ![m] = [pc |-> "responding", run |-> r, decision |-> d,
                         references |-> <<>>, events |-> Prompts!Opening]]
        PROVE  MissionsInv'
    <2> DEFINE q == [pc |-> "responding", run |-> r, decision |-> d,
                     references |-> <<>>, events |-> Prompts!Opening]
    <2>1. Prompts!Opening \in Nat
      BY DEF Prompts!Opening, Prompts!Observations
    <2>2. q \in Thread
      BY <2>1 DEF Thread
    <2>3. d # "none" /\ d \in Prompts!Decision
      BY DEF Prompts!Analysed, Prompts!Decision
    <2>4. Len(Prompts!ResponseToolsFor(d)) \in Nat
      BY <2>3, PlanOfDecision
    <2>5. Follows(q)
      BY <2>1, <2>3, <2>4 DEF Follows
    <2>6. q.references = prompt[m].references
      BY <1>2
    <2>7. prompt' = [prompt EXCEPT ![m] = q]
      BY <1>3
    <2> HIDE DEF q
    <2> QED
      BY <1>1, <2>2, <2>5, <2>6, <2>7, QuietMoveKeepsMissions
  <1>4. CASE Prompts!Fails(m)
    BY <1>1, <1>4, FailingKeepsMissions
  <1> QED
    BY <1>3, <1>4 DEF Prompts!Start

(* A tool that is called is the next of the plan, and the trace has room.   *)
LEMMA RespondKeepsMissions ==
  ASSUME MissionsInv, NEW m \in Mission, Prompts!Respond(m)
  PROVE  MissionsInv'
  <1> DEFINE p == prompt[m]
             plan == Prompts!ResponseToolsFor(p.decision)
             n == Len(p.references)
             tool == plan[n + 1]
  <1>1. /\ p.pc = "responding" /\ n < Len(plan) /\ missions' = missions
    BY DEF Prompts!Respond, Prompts!Plan, Prompts!missionVars
  <1>2. \/ \E s \in Prompts!Status :
             /\ Prompts!Execute(m, p.run, tool, s)
             /\ prompt' = [prompt EXCEPT
                  ![m].references = Append(@, [tool |-> tool, status |-> s]),
                  ![m].events = @ + 1,
                  ![m].pc = IF p.events < Prompts!MaxEvents
                              THEN @ ELSE "failed"]
        \/ Prompts!Fails(m) /\ UNCHANGED executions
    BY DEF Prompts!Respond, Prompts!Plan
  <1>3. prompt \in [Mission -> Thread] /\ p \in Thread
    BY DEF MissionsInv, ThreadTyped
  <1>4. Follows(p)
    BY DEF MissionsInv, PlanIsFollowed
  <1>5. p.decision \in Prompts!Decision
    BY <1>1, <1>3, <1>4 DEF Thread, Follows, Prompts!Analysed
  <1>6. plan \in Seq(Prompts!Tool)
    BY <1>5, PlanOfDecision
  <1>7. p.references \in Seq(Reference)
    BY <1>3 DEF Thread
  <1> HIDE DEF plan
  <1>8. n \in Nat /\ n + 1 \in 1 .. Len(plan) /\ tool \in Prompts!Tool
    <2>1. n \in Nat
      BY <1>7
    <2>2. n < Len(plan) /\ Len(plan) \in Nat
      BY <1>1, <1>6
    <2> HIDE DEF n
    <2>3. n + 1 \in 1 .. Len(plan)
      BY <2>1, <2>2
    <2> QED
      BY <1>6, <2>1, <2>3
  <1>9. ASSUME NEW s \in Prompts!Status,
               Prompts!Execute(m, p.run, tool, s),
               prompt' = [prompt EXCEPT
                     ![m].references = Append(@, [tool |-> tool, status |-> s]),
                     ![m].events = @ + 1,
                     ![m].pc = IF p.events < Prompts!MaxEvents
                                 THEN @ ELSE "failed"]
        PROVE  MissionsInv'
    <2> DEFINE e == [tool |-> tool, status |-> s]
               f == Append(p.references, e)
               q == [p EXCEPT !.references = f, !.events = @ + 1,
                              !.pc = IF p.events < Prompts!MaxEvents
                                       THEN @ ELSE "failed"]
    <2>1. prompt' = [prompt EXCEPT ![m] = q]
      BY <1>3, <1>9
    <2>2. e \in Reference
      BY <1>8 DEF Reference
    <2> HIDE DEF e
    <2>3. /\ f \in Seq(Reference)
          /\ Len(f) = n + 1 /\ f[n + 1] = e
          /\ \A i \in 1 .. n : f[i] = p.references[i]
      BY <1>7, <2>2
    <2> HIDE DEF f
    <2>4. p.events \in Nat /\ p.events + 1 \in Nat
      BY <1>3 DEF Thread
    <2>5. /\ q \in Thread /\ q.references = f /\ q.events = p.events + 1
          /\ q.decision = p.decision /\ q.pc \in {"responding", "failed"}
      BY <1>1, <1>3, <2>3, <2>4 DEF Thread
    <2> HIDE DEF q
    <2>6. Follows(q)
      <3>1. p.decision # "none" /\ p.events = Prompts!Opening + n
        BY <1>1, <1>4 DEF Follows
      <3>2. Prompts!Opening \in Nat
        BY DEF Prompts!Opening, Prompts!Observations
      <3>3. Len(f) <= Len(plan) /\ Len(plan) \in Nat
        <4>1. Len(f) = n + 1 /\ n + 1 \in 1 .. Len(plan) /\ Len(plan) \in Nat
          BY <1>6, <1>8, <2>3
        <4> HIDE DEF n
        <4> QED
          BY <1>8, <4>1
      <3>4. \A i \in 1 .. n : p.references[i].tool = plan[i]
        BY <1>4, <3>1 DEF Follows, plan
      <3>5. \A i \in 1 .. Len(f) : f[i].tool = plan[i]
        <4> SUFFICES ASSUME NEW i \in 1 .. n + 1 PROVE f[i].tool = plan[i]
          BY <2>3
        <4>1. CASE i = n + 1
          BY <2>3, <4>1 DEF e
        <4>2. CASE i # n + 1
          BY <1>8, <2>3, <3>4, <4>2
        <4> QED
          BY <4>1, <4>2
      <3>6. q.events = Prompts!Opening + Len(f)
        BY <1>8, <2>3, <2>5, <3>1, <3>2
      <3> QED
        BY <2>5, <3>1, <3>3, <3>5, <3>6 DEF Follows, plan
    <2>7. /\ ThreadTyped' /\ PlanIsFollowed' /\ StoredIsConcluded'
          /\ IsFiniteSet(DOMAIN missions')
          /\ prompt'[m] = q
          /\ \A x \in Mission \ {m} : prompt'[x] = prompt[x]
      <3>1. prompt[m].pc # "answered"
        BY <1>1
      <3> QED
        BY <1>1, <2>1, <2>5, <2>6, <3>1, ThreadMoves
    <2> DEFINE x0 == [by |-> m, run |-> p.run, tool |-> tool]
    <2>8. executions' = IF s = "succeeded" THEN executions \cup {x0} ELSE executions
      BY <1>9 DEF Prompts!Execute
    <2>9. x0.by = m /\ x0.tool = tool
      OBVIOUS
    <2> HIDE DEF x0
    <2>10. ToolsAreKnown'
      BY <1>8, <2>8, <2>9 DEF MissionsInv, ToolsAreKnown
    <2>11. ReferencesAreTrue'
      <3> SUFFICES ASSUME NEW x \in Mission, NEW t \in Prompts!Tool
                   PROVE  (\E y \in executions' : y.by = x /\ y.tool = t)
                            <=> \E i \in 1 .. Len(prompt'[x].references) :
                                  prompt'[x].references[i]
                                    = [tool |-> t, status |-> "succeeded"]
        BY DEF ReferencesAreTrue
      <3>1. (\E y \in executions : y.by = x /\ y.tool = t)
              <=> \E i \in 1 .. Len(prompt[x].references) :
                    prompt[x].references[i]
                      = [tool |-> t, status |-> "succeeded"]
        BY DEF MissionsInv, ReferencesAreTrue
      <3>2. CASE x # m
        <4>1. prompt'[x] = prompt[x]
          BY <2>7, <3>2
        <4>2. (\E y \in executions' : y.by = x /\ y.tool = t)
                <=> \E y \in executions : y.by = x /\ y.tool = t
          BY <2>8, <2>9, <3>2
        <4> QED
          BY <3>1, <4>1, <4>2
      <3>3. CASE x = m
        <4>1. e = [tool |-> t, status |-> "succeeded"]
                <=> tool = t /\ s = "succeeded"
          BY DEF e
        <4>2. (\E i \in 1 .. Len(f) : f[i] = [tool |-> t, status |-> "succeeded"])
                <=> \/ \E i \in 1 .. n :
                         p.references[i] = [tool |-> t, status |-> "succeeded"]
                    \/ tool = t /\ s = "succeeded"
          <5>1. 1 .. Len(f) = (1 .. n) \cup {n + 1}
            BY <1>8, <2>3
          <5> HIDE DEF n, p, tool
          <5> QED
            BY <2>3, <4>1, <5>1
        <4>3. (\E y \in executions' : y.by = m /\ y.tool = t)
                <=> \/ \E y \in executions : y.by = m /\ y.tool = t
                    \/ tool = t /\ s = "succeeded"
          BY <2>8, <2>9
        <4>4. prompt'[x].references = f
          BY <2>5, <2>7, <3>3
        <4> QED
          BY <3>1, <3>3, <4>2, <4>3, <4>4
      <3> QED
        BY <3>2, <3>3
    <2> QED
      BY <2>7, <2>10, <2>11 DEF MissionsInv
  <1>10. CASE Prompts!Fails(m) /\ UNCHANGED executions
    BY <1>1, <1>10, FailingKeepsMissions
  <1> QED
    BY <1>2, <1>9, <1>10

LEMMA ConcludeKeepsMissions ==
  ASSUME MissionsInv, NEW m \in Mission, Prompts!Conclude(m)
  PROVE  MissionsInv'
  <1> DEFINE p == prompt[m]
             plan == Prompts!ResponseToolsFor(p.decision)
             b == [status |-> Prompts!FinalStatusFor(p.decision, plan, p.references),
                   decision |-> p.decision, plan |-> plan]
  <1>1. /\ p.pc = "responding" /\ Len(p.references) = Len(plan)
        /\ executions' = executions
    BY DEF Prompts!Conclude, Prompts!Plan, Prompts!labVars
  <1>2. \/ Prompts!Fails(m) /\ missions' = missions
        \/ /\ Prompts!MissionStore!Put(m, b)
           /\ prompt' = [prompt EXCEPT ![m].pc = "answered"]
        \/ Prompts!MissionStore!PutRefused(m) /\ Prompts!Fails(m)
    BY DEF Prompts!Conclude, Prompts!Plan, Prompts!missionVars
  <1>3. prompt \in [Mission -> Thread] /\ p \in Thread
    BY DEF MissionsInv, ThreadTyped
  <1>4. Follows(p)
    BY DEF MissionsInv, PlanIsFollowed
  <1>5. CASE Prompts!Fails(m) /\ missions' = missions
    BY <1>1, <1>5, FailingKeepsMissions
  <1>6. CASE /\ Prompts!MissionStore!Put(m, b)
             /\ prompt' = [prompt EXCEPT ![m].pc = "answered"]
    <2> DEFINE q == [p EXCEPT !.pc = "answered"]
    <2>1. prompt' = [prompt EXCEPT ![m] = q]
      BY <1>3, <1>6
    <2>2. /\ q \in Thread /\ q.pc = "answered" /\ q.decision = p.decision
          /\ q.references = p.references
      BY <1>3 DEF Thread
    <2> HIDE DEF q
    <2>3. Follows(q)
      BY <1>1, <1>4, <2>2 DEF Follows
    <2>4. /\ prompt' \in [Mission -> Thread] /\ prompt'[m] = q
          /\ \A x \in Mission \ {m} : prompt'[x] = prompt[x]
      BY <1>3, <2>1, <2>2
    <2>5. PlanIsFollowed'
      BY <2>3, <2>4 DEF MissionsInv, PlanIsFollowed
    <2>6. \A x \in Mission : prompt'[x].references = prompt[x].references
      BY <2>2, <2>4
    <2>7. ReferencesAreTrue' /\ ToolsAreKnown'
      BY <1>1, <2>6 DEF MissionsInv, ReferencesAreTrue, ToolsAreKnown
    <2>8. b = [status |-> Prompts!FinalStatusFor(q.decision,
                             Prompts!ResponseToolsFor(q.decision), q.references),
               decision |-> q.decision,
               plan |-> Prompts!ResponseToolsFor(q.decision)]
      BY <2>2
    <2> HIDE DEF b
    <2>9. /\ DOMAIN missions' \subseteq DOMAIN missions \cup {m}
          /\ \A x \in DOMAIN missions' :
               missions'[x].body = IF x = m THEN b ELSE missions[x].body
          /\ IsFiniteSet(DOMAIN missions')
      BY <1>6, MissionPut DEF MissionsInv
    <2>10. StoredIsConcluded'
      <3> SUFFICES ASSUME NEW x \in Mission \cap DOMAIN missions'
                   PROVE  /\ prompt'[x].pc = "answered"
                          /\ missions'[x].body =
                               [status |-> Prompts!FinalStatusFor(
                                             prompt'[x].decision,
                                             Prompts!Plan(x)',
                                             prompt'[x].references),
                                decision |-> prompt'[x].decision,
                                plan |-> Prompts!Plan(x)']
        BY DEF StoredIsConcluded
      <3>1. CASE x = m
        BY <2>2, <2>4, <2>8, <2>9, <3>1 DEF Prompts!Plan
      <3>2. CASE x # m
        BY <2>4, <2>9, <3>2 DEF MissionsInv, StoredIsConcluded, Prompts!Plan
      <3> QED
        BY <3>1, <3>2
    <2> QED
      BY <2>4, <2>5, <2>7, <2>9, <2>10 DEF MissionsInv, ThreadTyped
  <1>7. CASE Prompts!MissionStore!PutRefused(m) /\ Prompts!Fails(m)
    <2> DEFINE D == Prompts!MissionStore!Live \ {m}
    <2>1. missions' = [x \in D |-> missions[x]] /\ D \subseteq DOMAIN missions
      BY <1>7 DEF Prompts!MissionStore!PutRefused, Prompts!MissionStore!Live
    <2> HIDE DEF D
    <2>2. /\ DOMAIN missions' \subseteq DOMAIN missions
          /\ \A x \in DOMAIN missions' : missions'[x].body = missions[x].body
          /\ IsFiniteSet(DOMAIN missions')
      BY <2>1, MissionsOnlyLeave DEF MissionsInv
    <2> DEFINE q == [p EXCEPT !.pc = "failed"]
    <2>3. prompt' = [prompt EXCEPT ![m] = q]
      BY <1>3, <1>7 DEF Prompts!Fails
    <2>4. /\ q \in Thread /\ q.pc = "failed" /\ q.decision = p.decision
          /\ q.references = p.references
      BY <1>3 DEF Thread
    <2> HIDE DEF q
    <2>5. Follows(q)
      BY <1>4, <2>4 DEF Follows
    <2>6. /\ prompt' \in [Mission -> Thread] /\ prompt'[m] = q
          /\ \A x \in Mission \ {m} : prompt'[x] = prompt[x]
      BY <1>3, <2>3, <2>4
    <2>7. PlanIsFollowed'
      BY <2>5, <2>6 DEF MissionsInv, PlanIsFollowed
    <2>8. \A x \in Mission : prompt'[x].references = prompt[x].references
      BY <2>4, <2>6
    <2>9. ReferencesAreTrue' /\ ToolsAreKnown'
      BY <1>1, <2>8 DEF MissionsInv, ReferencesAreTrue, ToolsAreKnown
    <2>10. m \notin DOMAIN missions
      BY <1>1 DEF MissionsInv, StoredIsConcluded
    <2>11. StoredIsConcluded'
      BY <2>2, <2>6, <2>10 DEF MissionsInv, StoredIsConcluded, Prompts!Plan
    <2> QED
      BY <2>2, <2>6, <2>7, <2>9, <2>11 DEF MissionsInv, ThreadTyped
  <1> QED
    BY <1>2, <1>5, <1>6, <1>7

LEMMA MissionsKept ==
  ASSUME MissionsInv, [Prompts!Next]_Prompts!vars PROVE MissionsInv'
  <1>1. CASE UNCHANGED <<missions, prompt, executions>>
    <2>1. UNCHANGED DOMAIN missions /\ UNCHANGED prompt
      BY <1>1
    <2> QED
      BY <1>1, <2>1, LeavingKeepsMissions DEF MissionsInv
  <1>2. CASE Prompts!LabNext /\ UNCHANGED <<Prompts!missionVars, prompt>>
    <2>1. UNCHANGED executions
      BY <1>2 DEF Prompts!LabNext, Prompts!PostRun, Prompts!ReadRuns,
                  Prompts!ToolReads, Prompts!ToolPuts
    <2> QED
      BY <1>1, <1>2, <2>1 DEF Prompts!missionVars
  <1>3. ASSUME NEW m \in Mission,
               Prompts!Start(m) \/ Prompts!Respond(m) \/ Prompts!Conclude(m)
        PROVE  MissionsInv'
    BY <1>3, StartKeepsMissions, RespondKeepsMissions, ConcludeKeepsMissions
  <1>4. CASE Prompts!PcapPuts
    <2>1. UNCHANGED <<prompt, executions>>
      BY <1>4 DEF Prompts!PcapPuts, Prompts!labVars
    <2>2. PICK p \in PcapMission :
            \/ Prompts!MissionStore!Put(p, Prompts!PcapBody("running"))
            \/ Prompts!MissionStore!Put(p, Prompts!PcapBody("completed"))
      BY <1>4 DEF Prompts!PcapPuts
    <2> QED
      BY <2>1, <2>2, PcapPutKeepsMissions
  <1>5. CASE Prompts!GetMission
    <2> DEFINE D == Prompts!MissionStore!Live
    <2>1. missions' = [x \in D |-> missions[x]] /\ D \subseteq DOMAIN missions
      BY <1>5 DEF Prompts!GetMission, Prompts!MissionStore!Purge,
                  Prompts!MissionStore!Live
    <2>2. UNCHANGED <<prompt, executions>>
      BY <1>5 DEF Prompts!GetMission, Prompts!labVars
    <2> HIDE DEF D
    <2>3. /\ DOMAIN missions' \subseteq DOMAIN missions
          /\ \A x \in DOMAIN missions' : missions'[x].body = missions[x].body
          /\ IsFiniteSet(DOMAIN missions')
      BY <2>1, MissionsOnlyLeave DEF MissionsInv
    <2> QED
      BY <2>2, <2>3, LeavingKeepsMissions
  <1>6. CASE Prompts!Tick /\ UNCHANGED <<Prompts!missionVars, prompt>>
    BY <1>1, <1>6 DEF Prompts!Tick, Prompts!labVars, Prompts!missionVars
  <1>7. CASE UNCHANGED Prompts!vars
    BY <1>1, <1>7 DEF Prompts!vars, Prompts!labVars, Prompts!missionVars
  <1> QED
    BY <1>2, <1>3, <1>4, <1>5, <1>6, <1>7 DEF Prompts!Next

LEMMA MissionsInductive == Prompts!Spec => []MissionsInv
  BY NoMissionYet, MissionsKept, PTL DEF Prompts!Spec

(* The tools that were executed for a mission are those of its plan of      *)
(* which a reference says that they succeeded.                              *)
LEMMA ExecutedIsReferenced ==
  ASSUME MissionsInv, NEW m \in Mission, NEW t
  PROVE  t \in Prompts!Executed(m)
           <=> \E i \in 1 .. Len(prompt[m].references) :
                 prompt[m].references[i] = [tool |-> t, status |-> "succeeded"]
  <1> DEFINE f == prompt[m].references
  <1>1. t \in Prompts!Executed(m) <=> \E e \in executions : e.by = m /\ e.tool = t
    BY DEF Prompts!Executed
  <1>2. CASE t \in Prompts!Tool
    BY <1>1, <1>2 DEF MissionsInv, ReferencesAreTrue
  <1>3. CASE t \notin Prompts!Tool
    <2>1. t \notin Prompts!Executed(m)
      BY <1>1, <1>3 DEF MissionsInv, ToolsAreKnown
    <2>2. f \in Seq(Reference)
      BY DEF MissionsInv, ThreadTyped, Thread
    <2> HIDE DEF f
    <2>3. \A i \in 1 .. Len(f) : f[i] \in Reference
      BY <2>2, SequenceElement
    <2>4. \A i \in 1 .. Len(f) : f[i] # [tool |-> t, status |-> "succeeded"]
      BY <1>3, <2>3 DEF Reference
    <2> QED
      BY <2>1, <2>4 DEF f
  <1> QED
    BY <1>2, <1>3

(* What is published of a mission is backed by the executions its decision  *)
(* calls for, whatever the other clients do to the stores, and the gateway  *)
(* is only asked for a prompt that is to be blocked.                        *)
THEOREM PublishedStatusIsEarned == Prompts!Spec => []StatusIsEarned
  <1>1. ASSUME MissionsInv PROVE StatusIsEarned
    <2> SUFFICES ASSUME NEW m \in Mission
                 PROVE  /\ "gateway" \in Prompts!Executed(m)
                             => prompt[m].decision = "block"
                        /\ m \in DOMAIN missions =>
                             LET body == missions[m].body IN
                               /\ body.decision = prompt[m].decision
                               /\ (body.status = Prompts!EarnedStatus(body.decision))
                                    <=> Prompts!Executed(m)
                                          = ToSet(Prompts!ResponseToolsFor(
                                                    body.decision))
                               /\ Prompts!Executed(m) \subseteq ToSet(body.plan)
      BY DEF StatusIsEarned, Prompts!StatusIsEarned, ToSet, Prompts!ToSet
    <2> DEFINE d == prompt[m].decision
               f == prompt[m].references
               plan == Prompts!ResponseToolsFor(d)
               Good(i) == f[i].status = "succeeded"
    <2>1. /\ d \in Prompts!Analysed \cup {"none"}
          /\ f \in Seq(Reference)
      BY <1>1 DEF MissionsInv, ThreadTyped, Thread
    <2>2. Follows(prompt[m])
      BY <1>1 DEF MissionsInv, PlanIsFollowed
    <2>3. \A t : t \in Prompts!Executed(m)
                   <=> \E i \in 1 .. Len(f) :
                         f[i] = [tool |-> t, status |-> "succeeded"]
      BY <1>1, ExecutedIsReferenced
    <2>4. CASE d = "none"
      <3>1. f = <<>> /\ prompt[m].pc # "answered"
        BY <2>2, <2>4 DEF Follows
      <3>2. Len(f) = 0
        BY <3>1
      <3> HIDE DEF f
      <3>3. Prompts!Executed(m) = {}
        BY <2>3, <3>2
      <3>4. m \notin DOMAIN missions
        BY <1>1, <3>1 DEF MissionsInv, StoredIsConcluded
      <3> QED
        BY <3>3, <3>4
    <2>5. CASE d # "none"
      <3>1. d \in Prompts!Decision
        BY <2>1, <2>5 DEF Prompts!Analysed
      <3>2. /\ plan \in Seq(Prompts!Tool)
            /\ \A i, j \in 1 .. Len(plan) : plan[i] = plan[j] => i = j
            /\ d # "block" => \A i \in 1 .. Len(plan) : plan[i] # "gateway"
            /\ Prompts!EarnedStatus(d) # "degraded"
        BY <3>1, PlanOfDecision
      <3>3. /\ Len(f) <= Len(plan)
            /\ \A i \in 1 .. Len(f) : f[i].tool = plan[i]
        BY <2>2, <2>5 DEF Follows
      <3>4. prompt[m].pc = "answered" => Len(f) = Len(plan)
        BY <2>2 DEF Follows
      <3>5. ASSUME m \in DOMAIN missions
            PROVE  /\ prompt[m].pc = "answered"
                   /\ missions[m].body.status
                        = Prompts!FinalStatusFor(d, plan, f)
                   /\ missions[m].body.decision = d
                   /\ missions[m].body.plan = plan
        <4>1. /\ prompt[m].pc = "answered"
              /\ missions[m].body =
                   [status |-> Prompts!FinalStatusFor(d, plan, f),
                    decision |-> d, plan |-> plan]
          BY <1>1, <3>5 DEF MissionsInv, StoredIsConcluded, Prompts!Plan
        <4> HIDE DEF d, f, plan
        <4> QED
          BY <4>1
      <3> HIDE DEF d, f, plan
      <3>6. Len(f) \in Nat /\ Len(plan) \in Nat /\ Len(f) <= Len(plan)
        BY <2>1, <3>2, <3>3
      <3>7. \A i \in 1 .. Len(f) : i \in 1 .. Len(plan)
        BY <3>6
      <3>8. \A t : t \in Prompts!Executed(m)
                     <=> \E i \in 1 .. Len(f) : plan[i] = t /\ Good(i)
        <4>1. \A i \in 1 .. Len(f) : f[i] \in Reference
          BY <2>1, SequenceElement
        <4>2. ASSUME NEW i \in 1 .. Len(f), NEW t
              PROVE  f[i] = [tool |-> t, status |-> "succeeded"]
                       <=> plan[i] = t /\ Good(i)
          <5>1. f[i] \in Reference /\ f[i].tool = plan[i]
            BY <3>3, <4>1
          <5> QED
            BY <5>1 DEF Reference
        <4> HIDE DEF Good
        <4> QED
          BY <2>3, <4>2
      <3>9. \A t : t \in ToSet(plan) <=> \E i \in 1 .. Len(plan) : plan[i] = t
        BY <3>2 DEF ToSet
      <3>10. Prompts!Executed(m) \subseteq ToSet(plan)
        BY <3>7, <3>8, <3>9
      <3>11. "gateway" \in Prompts!Executed(m) => d = "block"
        BY <3>2, <3>7, <3>8
      <3>12. ASSUME Len(f) = Len(plan)
             PROVE  (Prompts!FinalStatusFor(d, plan, f) = Prompts!EarnedStatus(d))
                      <=> Prompts!Executed(m) = ToSet(plan)
        <4>1. DOMAIN f = 1 .. Len(f) /\ DOMAIN plan = 1 .. Len(plan)
          BY <2>1, <3>2
        <4>2. [i \in DOMAIN f |-> f[i].tool] = plan
          <5>1. plan = [i \in 1 .. Len(plan) |-> plan[i]]
            BY <3>2
          <5>2. [i \in DOMAIN f |-> f[i].tool] = [i \in 1 .. Len(plan) |-> plan[i]]
            BY <3>3, <3>12, <4>1
          <5> QED
            BY <5>1, <5>2
        <4>3. (Prompts!FinalStatusFor(d, plan, f) = Prompts!EarnedStatus(d))
                <=> \A i \in 1 .. Len(f) : Good(i)
          BY <3>2, <4>1, <4>2 DEF Prompts!FinalStatusFor
        <4>4. (\A i \in 1 .. Len(f) : Good(i))
                <=> ToSet(plan) \subseteq Prompts!Executed(m)
          <5>1. ASSUME \A i \in 1 .. Len(f) : Good(i)
                PROVE  ToSet(plan) \subseteq Prompts!Executed(m)
            BY <3>8, <3>9, <3>12, <5>1
          <5>2. ASSUME ToSet(plan) \subseteq Prompts!Executed(m),
                       NEW i \in 1 .. Len(f)
                PROVE  Good(i)
            <6>1. plan[i] \in Prompts!Executed(m)
              BY <3>7, <3>9, <5>2
            <6>2. PICK j \in 1 .. Len(f) : plan[j] = plan[i] /\ Good(j)
              BY <3>8, <6>1
            <6> QED
              BY <3>2, <3>7, <6>2
          <5> QED
            BY <5>1, <5>2
        <4> QED
          BY <3>10, <4>3, <4>4
      <3> QED
        BY <3>4, <3>5, <3>10, <3>11, <3>12 DEF d, f, plan
    <2> QED
      BY <2>4, <2>5
  <1> QED
    BY <1>1, MissionsInductive, PTL

LEMMA PromptsCardinality ==
  \A S : /\ Prompts!Cardinality(S) = Cardinality(S)
         /\ Prompts!MissionStore!Cardinality(S) = Cardinality(S)
  BY DEF Prompts!Cardinality, Prompts!MissionStore!Cardinality, Cardinality

(* A put is refused only if running PCAP missions fill the store.           *)
LEMMA RefusedByRunning ==
  ASSUME MissionsInv, NEW m, Prompts!MissionStore!PutRefused(m)
  PROVE  Cardinality({p \in DOMAIN missions' :
                        missions'[p].body = Prompts!PcapBody("running")})
           >= MissionCapacity
  <1> DEFINE L == Prompts!MissionStore!Live
             O == L \ {m}
             R == {p \in DOMAIN missions' :
                     missions'[p].body = Prompts!PcapBody("running")}
  <1>1. missions' = [x \in O |-> missions[x]] /\ L \subseteq DOMAIN missions
    BY DEF Prompts!MissionStore!PutRefused, Prompts!MissionStore!Live
  <1>2. Cardinality(L \cup {m}) > MissionCapacity
    BY PromptsCardinality
    DEF Prompts!MissionStore!PutRefused, Prompts!MissionStore!PutAccepted,
        Prompts!MissionStore!Overfull
  <1>3. \A x \in O : missions[x].body = Prompts!PcapBody("running")
    BY DEF Prompts!MissionStore!PutRefused, Prompts!MissionStore!PutAccepted,
           Prompts!MissionStore!Evictable, Prompts!MissionStore!IsActive
  <1>4. IsFiniteSet(L)
    BY <1>1, FS_Subset DEF MissionsInv
  <1> HIDE DEF L
  <1>5. R = O
    BY <1>1, <1>3
  <1>6. IsFiniteSet(O) /\ L \cup {m} = O \cup {m} /\ m \notin O
    BY <1>4, FS_Subset
  <1> HIDE DEF O, R
  <1>7. Cardinality(O \cup {m}) = Cardinality(O) + 1 /\ Cardinality(O) \in Nat
    BY <1>6, FS_AddElement, FS_CardinalityType
  <1>8. MissionCapacity \in Nat
    BY PromptsAssumption DEF Prompts!PromptAssumption
  <1>9. Cardinality(O) >= MissionCapacity
    BY <1>2, <1>6, <1>7, <1>8
  <1> QED
    BY <1>5, <1>9 DEF R

(* The trace of a mission has room for every event of its plan.             *)
LEMMA TraceFits ==
  ASSUME MissionsInv, NEW m \in Mission, prompt[m].pc = "responding"
  PROVE  /\ prompt[m].events + 2 <= Prompts!MaxEvents
         /\ prompt[m].events \in Nat
  <1> DEFINE p == prompt[m]
             f == p.references
             plan == Prompts!ResponseToolsFor(p.decision)
  <1>1. Follows(p) /\ p \in Thread
    BY DEF MissionsInv, PlanIsFollowed, ThreadTyped
  <1>2. /\ p.events = Prompts!Opening + Len(f) /\ Len(f) <= Len(plan)
        /\ p.decision # "none"
    BY <1>1 DEF Follows
  <1>3. p.decision \in Prompts!Decision /\ f \in Seq(Reference)
    BY <1>1, <1>2 DEF Thread, Prompts!Analysed
  <1>4. Len(plan) <= 3 /\ plan \in Seq(Prompts!Tool)
    BY <1>3, PlanOfDecision
  <1> HIDE DEF f, plan
  <1>5. Len(f) \in Nat /\ Len(plan) \in Nat
    BY <1>3, <1>4
  <1>6. Prompts!Opening = 7 /\ Prompts!MaxEvents = 12
    BY DEF Prompts!Opening, Prompts!Observations, Prompts!MaxEvents
  <1> QED
    BY <1>2, <1>4, <1>5, <1>6

LEMMA FailedForCause ==
  ASSUME MissionsInv, Prompts!Next, NEW m \in Mission,
         prompt[m].pc = "responding", prompt'[m].pc = "failed"
  PROVE  \/ prompt[m].run \notin DOMAIN runs'
         \/ Cardinality({p \in DOMAIN missions' :
                           missions'[p].body = Prompts!PcapBody("running")})
              >= MissionCapacity
  <1>1. prompt \in [Mission -> Thread]
    BY DEF MissionsInv, ThreadTyped
  <1>2. prompt[m].events + 2 <= Prompts!MaxEvents /\ prompt[m].events \in Nat
    BY TraceFits
  <1>3. Prompts!MaxEvents = 12
    BY DEF Prompts!MaxEvents
  <1>4. PICK x \in Mission :
          Prompts!Start(x) \/ Prompts!Respond(x) \/ Prompts!Conclude(x)
    BY DEF Prompts!Next, Prompts!PcapPuts, Prompts!GetMission
  <1>5. x = m
    <2> SUFFICES ASSUME x # m PROVE FALSE
      OBVIOUS
    <2>1. ASSUME Prompts!Start(x) PROVE prompt'[m] = prompt[m]
      BY <1>1, <2>1 DEF Prompts!Start, Prompts!Fails
    <2>2. ASSUME Prompts!Respond(x) PROVE prompt'[m] = prompt[m]
      BY <1>1, <2>2 DEF Prompts!Respond, Prompts!Fails
    <2>3. ASSUME Prompts!Conclude(x) PROVE prompt'[m] = prompt[m]
      BY <1>1, <2>3 DEF Prompts!Conclude, Prompts!Fails
    <2> QED
      BY <1>4, <2>1, <2>2, <2>3
  <1>6. CASE Prompts!Start(m)
    BY <1>6 DEF Prompts!Start
  <1>7. CASE Prompts!Respond(m)
    <2>1. DOMAIN runs' = Prompts!Store!Live
      BY <1>7, RunsPurged DEF Prompts!Respond
    <2>2. CASE ~Prompts!HasRun(prompt[m].run)
      BY <2>1, <2>2 DEF Prompts!HasRun, Prompts!Store!Found
    <2>3. ASSUME NEW e, NEW g,
                 prompt' = [prompt EXCEPT
                     ![m].references = e,
                     ![m].events = g,
                     ![m].pc = IF prompt[m].events < Prompts!MaxEvents
                                 THEN @ ELSE "failed"]
          PROVE  FALSE
      <3>1. prompt[m].events < Prompts!MaxEvents
        BY <1>2, <1>3
      <3>2. prompt'[m].pc = prompt[m].pc
        BY <1>1, <2>3, <3>1 DEF Thread
      <3> QED
        BY <3>2
    <2> QED
      BY <1>7, <2>2, <2>3 DEF Prompts!Respond
  <1>8. CASE Prompts!Conclude(m)
    <2>1. ~(prompt[m].events + 2 > Prompts!MaxEvents)
      BY <1>2, <1>3
    <2>2. ASSUME prompt' = [prompt EXCEPT ![m].pc = "answered"]
          PROVE  FALSE
      BY <1>1, <2>2 DEF Thread
    <2>3. Prompts!MissionStore!PutRefused(m)
      BY <1>8, <2>1, <2>2 DEF Prompts!Conclude
    <2> QED
      BY <2>3, RefusedByRunning
  <1> QED
    BY <1>4, <1>5, <1>6, <1>7, <1>8

(* A mission that is under way fails only because its run is gone or the    *)
(* store is full of running PCAP missions, never because of its own trace:  *)
(* for stores of any capacity and any number of clients.                    *)
THEOREM MissionsFailForCause == Prompts!Spec => FailsForCause
  <1>1. ASSUME MissionsInv, [Prompts!Next]_Prompts!vars
        PROVE  [\A m \in Mission :
                  prompt[m].pc = "responding" /\ prompt'[m].pc = "failed" =>
                    \/ prompt[m].run \notin DOMAIN runs'
                    \/ Prompts!Cardinality({p \in DOMAIN missions' :
                         missions'[p].body = Prompts!PcapBody("running")})
                           >= MissionCapacity]_Prompts!vars
    <2>1. CASE Prompts!Next
      BY <1>1, <2>1, FailedForCause, PromptsCardinality
    <2>2. CASE UNCHANGED Prompts!vars
      BY <2>2
    <2> QED
      BY <1>1, <2>1, <2>2
  <1> QED
    BY <1>1, MissionsInductive, PTL
    DEF Prompts!Spec, FailsForCause, Prompts!FailsForCause
=============================================================================
