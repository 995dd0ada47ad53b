-------------------------------- MODULE MCLab --------------------------------
(* The confirmed executions of the lab and the prompt missions on small     *)
(* instances, in one run: `part` picks which of them moves.  To a mission   *)
(* an execution is one step that commits or does not; the other part shows  *)
(* what that step is made of.                                               *)
EXTENDS LabToolExecution, Naturals, TLC

CONSTANTS Run, Client, NoRun, RunTTL, RunCapacity, RingPerSlot, ClientTool,
          MaxRunPuts, MaxClock, Mission, PcapMission, MissionCapacity,
          MissionTTL

VARIABLES runs, expiredRuns, runPuts, clock, created, requests, executions,
          answered, overlapped, missions, expiredMissions, missionPuts, prompt,
          part

Prompts == INSTANCE PromptMission

ASSUME PromptsAssumption == Prompts!PromptAssumption

promptVars == <<runs, expiredRuns, runPuts, clock, created, requests, executions,
                answered, overlapped, missions, expiredMissions, missionPuts,
                prompt>>

MCInit ==
  /\ Init /\ Prompts!Init
  /\ part \in {"executions", "missions"}

ExecutionStep ==
  /\ part = "executions"
  /\ Next
  /\ UNCHANGED <<promptVars, part>>

(* Bound: the clock moves only where one run was created at most and no     *)
(* PCAP mission takes up the mission store.                                 *)
MissionStep ==
  /\ part = "missions"
  /\ Prompts!Next
  /\ clock' > 0 => /\ Cardinality(created') <= 1
                   /\ PcapMission \cap DOMAIN missions' = {}
  /\ UNCHANGED <<vars, part>>

MCNext == ExecutionStep \/ MissionStep

MCSpec == MCInit /\ [][MCNext]_<<vars, promptVars, part>>
-----------------------------------------------------------------------------
(* A simulated tool's answered result is in the run, beside the others'.    *)
ResultsAreKept == Prompts!ResultsAreKept

(* A mission's status is backed by the executions its decision calls for.   *)
StatusIsEarned == Prompts!StatusIsEarned

(* A mission fails only because a store let it down.                        *)
FailsForCause == Prompts!FailsForCause

Symmetry == Permutations(Run) \cup Permutations(Client)
=============================================================================
