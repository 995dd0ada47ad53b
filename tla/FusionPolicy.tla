----------------------------- MODULE FusionPolicy -----------------------------
(***************************************************************************)
(* The table of EvidenceFusionPolicy.decide (backend/app/agent/fusion.py): *)
(* what becomes of a prompt, given the mode, the severity the semantic     *)
(* guard saw, and whether the detector raised an alarm.  The analysis, the *)
(* prompt mission and the offline evaluation all ask this one table.       *)
(***************************************************************************)

Severity == {"Safe", "Controversial", "Unsafe", "unavailable"}

(* A slip: with the guard unavailable and no alarm, the gateway lets the    *)
(* prompt pass as the analysis does.                                        *)
FuseFailOpen(mode, severity, alarm) ==
  CASE severity = "Unsafe" -> "block"
    [] severity = "Controversial" -> "review"
    [] severity \in {"Safe", "unavailable"} /\ alarm ->
         IF mode = "analysis" THEN "block" ELSE "review"
    [] OTHER -> "allow"


Fuse(mode, severity, alarm) ==
  CASE severity = "Unsafe" -> "block"
    [] severity = "Controversial" -> "review"
    [] severity \in {"Safe", "unavailable"} /\ alarm ->
         IF mode = "analysis" THEN "block" ELSE "review"
    [] severity = "unavailable" /\ ~alarm /\ mode = "gateway" -> "review"
    [] OTHER -> "allow"
=============================================================================
