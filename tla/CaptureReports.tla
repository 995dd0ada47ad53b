---------------------------- MODULE CaptureReports ----------------------------
(***************************************************************************)
(* What becomes of one capture's report.  In the container it is made by   *)
(* scripts/pcap_preflight.py (Mode Preflight) or by                        *)
(* pcap-inspector/detect_http.py (Mode HttpDetection); on the host         *)
(* inspect_pcap.ps1 validates it again, and inspect_pcap_batch.ps1 or      *)
(* inspect_pcap_recon_batch.ps1 once more, with rules of their own.        *)
(*                                                                         *)
(* The four validators are written in two languages and must agree on what *)
(* they accept: nothing the container reports of a sound capture may be    *)
(* refused, nothing inconsistent accepted.  Their checks of types, keys    *)
(* and formats are left out, as every report here is well formed.          *)
(***************************************************************************)
EXTENDS Integers, Sequences, SequencesExt, FiniteSetsExt

CONSTANTS MaxPackets,       \* bound: packets of a capture
          MaxTime,          \* bound: offsets of packets
          Rule,             \* _RULES, in their order: integers
          MinPackets,       \* packets analyze_behavior asks for (20)
          MinDestinations,  \* destinations it asks for (5)
          Window,           \* time it allows (1000 ms)
          MaxEvidence       \* evidence the host accepts (160)

VARIABLES capture,          \* packets, format by content, format by name
          mode,             \* of inspect_pcap.ps1
          report,           \* the container's report, or its error
          stage             \* how far it got, and who refused it

vars == <<capture, mode, report, stage>>

(* Assumed of the constants where they get their values.  A behaviour needs *)
(* packets.                                                                 *)
ReportsAssumption ==
  /\ MaxPackets \in Nat /\ MaxTime \in Nat /\ Rule \subseteq Nat
  /\ MinPackets \in Nat \ {0} /\ MaxEvidence \in Nat

Protocol == {"plaintext", "tls", "quic", "other"}
Format == {"pcap", "pcapng"}

(* A packet: its protocols on the white list, its offset, its destination   *)
(* (0: it has no ip.dst), and the rules its HTTP request matches.           *)
Packet ==
  {p \in [protocols : {{}, {"other"}, {"other", "plaintext"}, {"tls", "other"},
                       {"quic", "other"}},
          time : 0..MaxTime, dst : 0..2, rules : SUBSET Rule] :
     p.rules # {} => "plaintext" \in p.protocols}

Capture ==
  [packets : BoundedSeq(Packet, MaxPackets), magic : Format, name : Format]

Indices(c) == DOMAIN c.packets
Offset(c, i) == c.packets[i].time - c.packets[1].time
-----------------------------------------------------------------------------
(* The preflight.                                                           *)

CountOf(c, protocol) ==
  Cardinality({i \in Indices(c) : protocol \in c.packets[i].protocols})

(* parse_tshark_rows.                                                       *)
Observation(c) ==
  LET times == {c.packets[i].time : i \in Indices(c)} IN
  [packets  |-> Len(c.packets),
   duration |-> IF times = {} THEN 0 ELSE Max(times) - Min(times),
   counts   |-> [protocol \in Protocol |-> CountOf(c, protocol)]]

(* A slip: encryption is looked at before plaintext.                        *)
PolicyEncryptedFirst(packets, counts) ==
  CASE packets = 0 -> "no_packets"
    [] packets # 0 /\ counts["tls"] + counts["quic"] > 0 ->
         "encrypted_transport_observed"
    [] packets # 0 /\ counts["tls"] + counts["quic"] = 0 /\ counts["plaintext"] > 0 ->
         "plaintext_application_protocol_observed"
    [] OTHER -> "network_traffic_only"

(* _policy, by its reason.                                                  *)
Policy(packets, counts) ==
  CASE packets = 0 -> "no_packets"
    [] packets # 0 /\ counts["plaintext"] > 0 ->
         "plaintext_application_protocol_observed"
    [] packets # 0 /\ counts["plaintext"] = 0 /\ counts["tls"] + counts["quic"] > 0 ->
         "encrypted_transport_observed"
    [] packets # 0 /\ counts["plaintext"] + counts["tls"] + counts["quic"] = 0
                   /\ counts["other"] > 0 -> "network_traffic_only"
    [] OTHER -> "no_supported_protocols"

CapabilityOf(reason) ==
  CASE reason = "plaintext_application_protocol_observed" -> "token_eligible"
    [] reason \in {"encrypted_transport_observed", "network_traffic_only"} ->
         "traffic_only"
    [] OTHER -> "insufficient_evidence"

Visibility(counts) ==
  [plaintext |-> counts["plaintext"] > 0,
   encrypted |-> counts["tls"] + counts["quic"] > 0,
   tls       |-> counts["tls"] > 0,
   quic      |-> counts["quic"] > 0]

BuildReport(c) ==
  LET seen   == Observation(c)
      reason == Policy(seen.packets, seen.counts)
  IN  [format |-> c.magic, packets |-> seen.packets, duration |-> seen.duration,
       counts |-> seen.counts, visibility |-> Visibility(seen.counts),
       capability |-> CapabilityOf(reason), reason |-> reason]

(* validate_report, which inspect_capture applies to its own report.        *)
ContainerAccepts(r) ==
  LET reason == Policy(r.packets, r.counts) IN
  /\ r.visibility = Visibility(r.counts)
  /\ r.reason = reason /\ r.capability = CapabilityOf(reason)
  /\ r.duration >= 0

(* Get-Policy of inspect_pcap.ps1 and Get-ExpectedPolicy of the             *)
(* reconnaissance script: two loops over names, then a sum.                 *)
HostPolicy(packets, counts) ==
  LET any(names) == \E p \in names : counts[p] > 0 IN
  CASE packets = 0 -> <<"insufficient_evidence", "no_packets">>
    [] packets # 0 /\ any({"plaintext"}) ->
         <<"token_eligible", "plaintext_application_protocol_observed">>
    [] packets # 0 /\ ~any({"plaintext"}) /\ any({"tls", "quic"}) ->
         <<"traffic_only", "encrypted_transport_observed">>
    [] packets # 0 /\ ~any({"plaintext", "tls", "quic"}) /\ any(Protocol) ->
         <<"traffic_only", "network_traffic_only">>
    [] OTHER -> <<"insufficient_evidence", "no_supported_protocols">>

Consistent(r) ==
  /\ r.visibility = Visibility(r.counts)
  /\ <<r.capability, r.reason>> = HostPolicy(r.packets, r.counts)

(* ConvertTo-ValidatedReport, and Convert-ChildReport of the reconnaissance *)
(* script, which also wants the format that the name promises.              *)
HostAccepts(r) == Consistent(r) /\ r.duration >= 0
ReconAccepts(r, name) == Consistent(r) /\ r.duration >= 0 /\ r.format = name

(* Convert-ChildReportToEvidence of the batch script.                       *)
BatchAccepts(r) ==
  r.capability = "token_eligible" => r.visibility.plaintext
-----------------------------------------------------------------------------
(* The HTTP detection.                                                      *)

Requests(c) == {i \in Indices(c) : c.packets[i].rules # {}}

(* The rule a request gives evidence for: the first that matches.           *)
FirstMatch(rules) == {Min(rules)}

(* analyze_http_requests.                                                   *)
RequestEvidence(c) ==
  {[detector |-> "http_rule", rule |-> w[2], first |-> w[1], last |-> w[1],
    start |-> Offset(c, w[1]), end |-> Offset(c, w[1])] :
      w \in {v \in Requests(c) \X Rule : v[2] \in FirstMatch(c.packets[v[1]].rules)}}

(* analyze_behavior.                                                        *)
BehaviorEvidence(c) ==
  LET n == Len(c.packets) IN
  IF /\ n >= MinPackets
     /\ Offset(c, n) <= Window
     /\ Cardinality({c.packets[i].dst : i \in Indices(c)}) >= MinDestinations
    THEN {[detector |-> "behavior_anomaly", rule |-> 0, first |-> 1, last |-> n,
           start |-> 0, end |-> Offset(c, n)]}
    ELSE {}

(* detect_capture refuses an offset before the first packet's, of a request *)
(* or, in the third pass, of any packet, and a packet that has no           *)
(* destination.  The third pass is skipped for an empty capture.            *)
DetectFails(c) ==
  \E i \in Indices(c) : c.packets[i].dst = 0 \/ Offset(c, i) < 0

Detect(c) ==
  [packets |-> Len(c.packets), evidence |-> RequestEvidence(c) \cup BehaviorEvidence(c)]

(* ConvertTo-ValidatedDetectionReport.                                      *)
HostAcceptsDetection(r) ==
  /\ Cardinality(r.evidence) <= MaxEvidence
  /\ \A e \in r.evidence : /\ 1 <= e.first /\ e.first <= e.last
                           /\ e.last <= r.packets
                           /\ 0 <= e.start /\ e.start <= e.end
-----------------------------------------------------------------------------
NoReport == [error |-> TRUE]

Init ==
  /\ capture \in Capture
  /\ mode \in {"Preflight", "HttpDetection"}
  /\ report = NoReport
  /\ stage = "capture"

(* The container does not get to a report: the capture is truncated or not  *)
(* readable, Docker or TShark fails.                                        *)
ContainerFails ==
  /\ stage = "capture"
  /\ stage' = "failed"
  /\ UNCHANGED <<capture, mode, report>>

(* The report is printed if the container's own validator accepts it.       *)
RunPreflight ==
  /\ stage = "capture" /\ mode = "Preflight"
  /\ report' = BuildReport(capture)
  /\ stage' = IF ContainerAccepts(report') THEN "printed" ELSE "invalid"
  /\ UNCHANGED <<capture, mode>>

RunDetection ==
  /\ stage = "capture" /\ mode = "HttpDetection"
  /\ IF DetectFails(capture)
       THEN stage' = "rejected" /\ UNCHANGED report
       ELSE stage' = "printed" /\ report' = Detect(capture)
  /\ UNCHANGED <<capture, mode>>

RunContainer == ContainerFails \/ RunPreflight \/ RunDetection

(* inspect_pcap.ps1.                                                        *)
ValidateOnHost ==
  /\ stage = "printed"
  /\ stage' = IF \/ mode = "Preflight" /\ HostAccepts(report)
                 \/ mode = "HttpDetection" /\ HostAcceptsDetection(report)
                THEN "saved" ELSE "refused"
  /\ UNCHANGED <<capture, mode, report>>

(* The batch script that asked for it: triage or reconnaissance.            *)
ConvertInBatch ==
  /\ stage = "saved" /\ mode = "Preflight"
  /\ stage' \in {IF BatchAccepts(report) THEN "triaged" ELSE "refused",
                 IF ReconAccepts(report, capture.name) THEN "sampled" ELSE "refused"}
  /\ UNCHANGED <<capture, mode, report>>

Next == RunContainer \/ ValidateOnHost \/ ConvertInBatch

Spec == Init /\ [][Next]_vars
-----------------------------------------------------------------------------
(* No validator, the container's own included, refuses what was found in a  *)
(* capture, but the host for a name that promises another format or for     *)
(* more evidence than it accepts.  What is accepted says token_eligible     *)
(* exactly if plaintext was seen.  With rules, each matching request has    *)
(* one piece of evidence and no more, and a capture gets as far as this     *)
(* exactly if all its packets have a destination and none lies before the   *)
(* first.                                                                   *)
Analysable(c) ==
  \A i \in Indices(c) : c.packets[i].dst # 0 /\ c.packets[i].time >= c.packets[1].time

ValidatorsAgree ==
  /\ stage # "invalid"
  /\ stage = "refused" =>
       \/ mode = "Preflight" /\ capture.magic # capture.name
       \/ mode = "HttpDetection" /\ Cardinality(report.evidence) > MaxEvidence
  /\ stage \in {"saved", "triaged", "sampled"} /\ mode = "Preflight" =>
       (report.capability = "token_eligible")
         <=> \E i \in Indices(capture) : "plaintext" \in capture.packets[i].protocols
  /\ stage = "saved" /\ mode = "HttpDetection" =>
       \A i \in Indices(capture) :
         Cardinality({e \in report.evidence : /\ e.detector = "http_rule"
                                              /\ e.first = i})
           = IF capture.packets[i].rules = {} THEN 0 ELSE 1
  /\ stage = "saved" /\ mode = "HttpDetection" => Analysable(capture)
  /\ stage = "rejected" => mode = "HttpDetection" /\ ~Analysable(capture)
=============================================================================
