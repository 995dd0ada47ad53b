-------------------------- MODULE MissionLifecycle ---------------------------
(***************************************************************************)
(* What a mission coordinator promises to the clients of the API, without  *)
(* threads, locks or stores: missions are accepted one at a time, begin,   *)
(* settle once, and may be forgotten after that.  A client whose cancel    *)
(* was acknowledged is owed the status "cancelled", and nobody else gets   *)
(* it.  A mission that never began cannot complete.                        *)
(***************************************************************************)
CONSTANT Mission

VARIABLES phase,         \* mission -> where it is in its life
          acknowledged   \* missions whose cancel was accepted

lifecycleVars == <<phase, acknowledged>>

Open == {"queued", "running"}
Settled == {"completed", "degraded", "cancelled"}

Init ==
  /\ phase = [m \in Mission |-> "absent"]
  /\ acknowledged = {}

(* m moves to phase p while any settled missions F are forgotten: capacity  *)
(* and age may remove them during whatever else happens.                    *)
Move(m, p, F) ==
  phase' = [x \in Mission |-> IF x = m THEN p
                              ELSE IF x \in F THEN "forgotten" ELSE phase[x]]

Forgettable == {m \in Mission : phase[m] \in Settled}

Accept(m, F) ==
  /\ phase[m] = "absent"
  /\ \A x \in Mission : phase[x] \notin Open
  /\ Move(m, "queued", F)
  /\ UNCHANGED acknowledged

Begin(m, F) ==
  /\ phase[m] = "queued"
  /\ Move(m, "running", F)
  /\ UNCHANGED acknowledged

AcknowledgeCancel(m) ==
  /\ phase[m] \in Open
  /\ acknowledged' = acknowledged \cup {m}
  /\ UNCHANGED phase

Settle(m, p, F) ==
  /\ phase[m] \in Open
  /\ p = "completed" => phase[m] = "running"
  /\ m \in acknowledged <=> p = "cancelled"
  /\ Move(m, p, F)
  /\ UNCHANGED acknowledged

ForgetSettled(F) ==
  /\ phase' = [x \in Mission |-> IF x \in F THEN "forgotten" ELSE phase[x]]
  /\ UNCHANGED acknowledged

Next ==
  \E F \in SUBSET Forgettable :
    \/ ForgetSettled(F)
    \/ \E m \in Mission \ F :
         \/ Accept(m, F)
         \/ Begin(m, F)
         \/ AcknowledgeCancel(m)
         \/ \E p \in Settled : Settle(m, p, F)

Spec == Init /\ [][Next]_lifecycleVars
=============================================================================
