CONSTANTS
  s1 = s1
  s2 = s2
  NoSlot = NoSlot
  Slots = {s1, s2}
  Nodes = {n1}
  Planes = {a}
  Requests = {}
  EnqueuedTypes = {"stop-plane-state"}
  MaxAttempts = 2
  MaxGeneration = 0
  MaxRows = 2
  MaxInflight = 2
  MaxRetries = 3
SPECIFICATION Spec
SYMMETRY SlotSymmetry
INVARIANTS TypeOK AppliedWasCompleted FailedIsExhausted OlderActiveRowWasRetried OneProcessPerNode
PROPERTY FinalRowsStay
