CONSTANTS
  Parts = {"rebalance", "evict", "session", "registry", "proxy", "retry", "relay",
           "pinned", "peer", "download", "delete"}
  w1 = w1
  w2 = w2
  n1 = n1
  n2 = n2
  Gone = Gone
  Workers = {w1}
  Nodes = {n1, n2}
  Commands = {"rebalance"}
  MaxGeneration = 4
  MaxUpdates = 1
  MaxIterations = 1
  StableSamples = 2
  MaxAttempts = 1
  main = main
  peer = peer
  h1 = h1
  h2 = h2
  m1 = m1
  s1 = s1
  NoSlot = NoSlot
  r1 = r1
  r2 = r2
  a = a
  NoPlane = NoPlane
  t1 = t1
  d1 = d1
  d2 = d2
SPECIFICATION ServicesSpec
SYMMETRY Symmetry
INVARIANTS ServicesTypeOK FinishedUpdateStays ResponsesAreFresh NewestAppliedRowIsInForce LiveRowHasPlane
           AppliedModelIsWhole CompletedModelIsWhole ActiveJobHasThread
PROPERTIES VerifiedMoveRunsOnce StatusRequestsWait
CHECK_DEADLOCK FALSE
