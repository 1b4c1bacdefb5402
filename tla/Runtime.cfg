CONSTANTS
  t1 = t1
  t2 = t2
  t3 = t3
  b1 = b1
  b2 = b2
  NoBlock = NoBlock
  Blocks = {b1, b2}
  Relations <- OneRelation
  Terms = {"w", "v"}
  Texts <- NoOrBothTerms
  EndsIn <- SecondEndsInFirst
  Sources = {s1}
  Ids = {1, 2, 3, 4, 5}
  Threads = {t1, t2}
  Commands = {"write", "relate", "unrelate", "delete", "cleanup"}
  Crashes = TRUE
  MaxCommands = 4
  o1 = o1
  o2 = o2
  NoOverlay = NoOverlay
  n1 = n1
  n2 = n2
  local = local
  NoNode = NoNode
  g1 = g1
  g2 = g2
  NoGpu = NoGpu
  NoState = NoState
  p1 = p1
  p2 = p2
  disk1 = disk1
  disk2 = disk2
  Parts = {"graph", "sources", "turns", "merge", "planes", "replicas", "primary", "secondary",
           "frames", "burst", "chat", "forget", "again"}
SPECIFICATION RuntimeSpec
INVARIANTS RuntimeTypeOK EdgesAreSymmetric LiveBlockIsIndexed SourceIsIngestedOnce NoOverlayIsSkipped StoredPlaneLoads LoadedIsSaved RecordedStateIsInForce RecordedDisksAreExact RuntimeHasItsModel
           NoFrameIsPassedOver SavedTurnIsKept
CHECK_DEADLOCK FALSE
