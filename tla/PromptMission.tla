---------------------------- MODULE PromptMission ----------------------------
(***************************************************************************)
(* A SuperAgent mission on a prompt: SuperAgentService._create_mission in  *)
(* backend/app/superagent/service.py, with policy.py, on the lab's service *)
(* and the mission store it shares with the PCAP coordinators.             *)
(*                                                                         *)
(* The handler's thread creates a lab run, executes in it the tools which  *)
(* the policy selects for its decision, one request after the other, and   *)
(* stores a result with a trace of at most twelve events.  Other threads   *)
(* use the lab and the mission store between any two of its calls, and may *)
(* push the run out of the one and fill the other.                         *)
(***************************************************************************)
EXTENDS LabRuns, Sequences, SequencesExt

CONSTANTS Mission,          \* prompt missions
          PcapMission,      \* missions of the PCAP coordinators
          MissionCapacity,  \* capacity of the mission store
          MissionTTL        \* its time to live

VARIABLES missions,         \* id -> [at, rank, body]
          expiredMissions,
          missionPuts,
          prompt            \* mission -> its handler's thread

missionVars == <<missions, expiredMissions, missionPuts>>
vars == <<labVars, clock, missionVars, prompt>>

(* Assumed of the constants: ids are drawn at random (uuid4), so that no    *)
(* mission shares its id with another, and the store refuses a capacity of  *)
(* zero.                                                                    *)
PromptAssumption ==
  /\ Mission \cap PcapMission = {}
  /\ MissionCapacity \in Nat \ {0}

MaxEvents == 12             \* SuperAgentMissionResult.events, max_length

PcapBody(status) == [status |-> status, decision |-> "none", plan |-> <<>>]
FinalStatus == {"closed_safe", "review_required", "contained", "degraded"}
MissionBody ==
  [status : FinalStatus, decision : Decision, plan : BoundedSeq(Tool, 3)]
    \cup {PcapBody("running"), PcapBody("completed")}

MissionStore == INSTANCE SuperAgentMissionStore
           WITH StoredId <- Mission \cup PcapMission, Body <- MissionBody,
                ActiveBody <- {PcapBody("running")},
                StoreTTL <- MissionTTL, StoreCapacity <- MissionCapacity,
                MaxPuts <- 0, expired <- expiredMissions, puts <- missionPuts

Waiting == [pc |-> "idle", run |-> NoRun, decision |-> "none",
            references |-> <<>>, events |-> 0]

Init ==
  /\ LabInit
  /\ MissionStore!Init
  /\ prompt = [m \in Mission |-> Waiting]
-----------------------------------------------------------------------------
(* policy.py.                                                               *)

ResponseToolsFor(decision) ==
  CASE decision = "allow" -> <<>>
    [] decision \in {"review", "sanitize"} -> <<"case", "bundle">>
    [] decision = "block" -> <<"gateway", "case", "bundle">>

EarnedStatus(decision) ==
  CASE decision = "allow" -> "closed_safe"
    [] decision \in {"review", "sanitize"} -> "review_required"
    [] decision = "block" -> "contained"

(* A slip: only that every tool was called is looked at.                    *)
StatusOfCalls(decision, plan, references) ==
  IF Len(references) = Len(plan) THEN EarnedStatus(decision) ELSE "degraded"

(* Tools executed twice or not selected raise; the mission's loop calls     *)
(* each of the plan once.                                                   *)
FinalStatusFor(decision, plan, references) ==
  IF /\ [i \in DOMAIN references |-> references[i].tool] = plan
     /\ \A i \in DOMAIN references : references[i].status = "succeeded"
    THEN EarnedStatus(decision)
    ELSE "degraded"
-----------------------------------------------------------------------------
(* _create_mission.                                                         *)

(* Events appended before the tools: the plan, the run, the observations    *)
(* and the new plan.  A slip: one observation more.                         *)
FiveObservations == 5
Observations == 4
Opening == 1 + 1 + Observations + 1

(* The fusion table never asks for sanitize, though policy.py knows it.     *)
Analysed == Decision \ {"sanitize"}

(* A mission that raises anywhere is answered with a fixed error.           *)
Fails(m) == prompt' = [prompt EXCEPT ![m].pc = "failed"]

Start(m) ==
  /\ prompt[m].pc = "idle"
  /\ \/ \E r \in Run, d \in Analysed :
          /\ CreateRun(r, d)
          /\ prompt' = [prompt EXCEPT
               ![m] = [pc |-> "responding", run |-> r, decision |-> d,
                       references |-> <<>>, events |-> Opening]]
     \/ Fails(m) /\ UNCHANGED runVars
  /\ UNCHANGED <<clock, requests, executions, answered, overlapped, missionVars>>

Plan(m) == ResponseToolsFor(prompt[m].decision)

(* The next tool of the plan.  A storage that is unavailable is a failed    *)
(* reference; a run that is gone, or an event too many, raises.             *)
Respond(m) ==
  LET p    == prompt[m]
      tool == Plan(m)[Len(p.references) + 1]
  IN
  /\ p.pc = "responding"
  /\ Len(p.references) < Len(Plan(m))
  /\ PurgeRuns
  /\ \/ \E s \in Status :
          /\ Execute(m, p.run, tool, s)
          /\ prompt' = [prompt EXCEPT
               ![m].references = Append(@, [tool |-> tool, status |-> s]),
               ![m].events = @ + 1,
               ![m].pc = IF p.events < MaxEvents THEN @ ELSE "failed"]
     \/ ~HasRun(p.run) /\ Fails(m) /\ UNCHANGED executions
  /\ UNCHANGED <<clock, created, requests, answered, overlapped, missionVars>>

(* All tools were called: two events, the status, and the put, which a      *)
(* store full of running PCAP missions refuses.                             *)
Conclude(m) ==
  LET p == prompt[m] IN
  /\ p.pc = "responding"
  /\ Len(p.references) = Len(Plan(m))
  /\ IF p.events + 2 > MaxEvents
       THEN Fails(m) /\ UNCHANGED missionVars
       ELSE \/ /\ MissionStore!Put(m, [status |-> FinalStatusFor(p.decision, Plan(m),
                                                               p.references),
                                      decision |-> p.decision, plan |-> Plan(m)])
               /\ prompt' = [prompt EXCEPT ![m].pc = "answered"]
            \/ MissionStore!PutRefused(m) /\ Fails(m)
  /\ UNCHANGED <<labVars, clock>>
-----------------------------------------------------------------------------
(* The PCAP coordinators put their missions while they run, and at the end. *)
PcapPuts ==
  /\ \E p \in PcapMission :
       \/ /\ p \notin DOMAIN missions \cup DOMAIN expiredMissions
          /\ MissionStore!Put(p, PcapBody("running"))
       \/ /\ p \in DOMAIN missions
          /\ missions[p].body = PcapBody("running")
          /\ MissionStore!Put(p, PcapBody("completed"))
  /\ UNCHANGED <<labVars, clock, prompt>>

(* GET /superagent/missions/{id}.                                           *)
GetMission ==
  /\ MissionStore!Purge
  /\ UNCHANGED <<labVars, clock, prompt>>

Next ==
  \/ LabNext /\ UNCHANGED <<missionVars, prompt>>
  \/ \E m \in Mission : Start(m) \/ Respond(m) \/ Conclude(m)
  \/ PcapPuts
  \/ GetMission
  \/ Tick /\ UNCHANGED <<missionVars, prompt>>

Spec == Init /\ [][Next]_vars
-----------------------------------------------------------------------------
Executed(m) == {e.tool : e \in {x \in executions : x.by = m}}

(* The final status is earned, whatever happened to the stores meanwhile:   *)
(* closed_safe, review_required and contained are only published with a     *)
(* committed execution of every tool the decision calls for and of no       *)
(* other, degraded only if one is missing.  No decision but block ever      *)
(* enforces at the gateway, not even in a mission that fails.               *)
StatusIsEarned ==
  \A m \in Mission :
    /\ "gateway" \in Executed(m) => prompt[m].decision = "block"
    /\ m \in DOMAIN missions =>
         LET body == missions[m].body IN
           /\ body.decision = prompt[m].decision
           /\ (body.status = EarnedStatus(body.decision))
                <=> Executed(m) = ToSet(ResponseToolsFor(body.decision))
           /\ Executed(m) \subseteq ToSet(body.plan)

(* The trace fits: the longest mission uses all twelve events, and none     *)
(* fails because of its trace, only because it got no run, lost it, or was  *)
(* not stored.                                                              *)
FailsForCause ==
  [][\A m \in Mission :
       prompt[m].pc = "responding" /\ prompt'[m].pc = "failed" =>
         \/ prompt[m].run \notin DOMAIN runs'
         \/ Cardinality({p \in DOMAIN missions' :
                           missions'[p].body = PcapBody("running")})
              >= MissionCapacity]_vars
=============================================================================
