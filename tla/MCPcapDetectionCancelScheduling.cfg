SPECIFICATION Spec
CONSTANTS
  MaxFiles = 3
  MaxWorkers = 2
  EvidenceId = {e1, e2, e3}
  MaxEvidence = 2
  Failed = Failed
INVARIANTS
  CancelStopsScheduling
