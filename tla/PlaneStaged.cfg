CONSTANTS
  t1 = t1
  t2 = t2
  NoPlane = NoPlane
  Nodes = {n1}
  Threads = {t1}
  Planes = {a, b}
  Requests = {}
  Commands = {"apply", "start"}
  LoseObservations = FALSE
  MaxAttempts = 1
  MaxGeneration = 2
  MaxRows = 3
  MaxRetries = 1
SPECIFICATION Spec
PROPERTY StagedUntilRestart
