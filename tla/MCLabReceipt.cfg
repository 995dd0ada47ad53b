SPECIFICATION Spec
CONSTANTS
  Request = {r1, r2}
  Process = {p1}
  Key = {k1, b1}
  BundleKey = {b1}
  NoExecution = NoExecution
  NoKey = NoKey
  NoProcess = NoProcess
SYMMETRY Symmetry
INVARIANTS
  ReceiptIsPersisted
CHECK_DEADLOCK FALSE
