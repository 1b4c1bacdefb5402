CONSTANTS
  t1 = t1
  t2 = t2
  NoPlane = NoPlane
  Nodes = {n1}
  Threads = {t1}
  Planes = {a}
  Requests = {}
  Commands = {"apply", "start", "stop", "delete", "availability"}
  LoseObservations = FALSE
  MaxAttempts = 1
  MaxGeneration = 2
  MaxRows = 3
  MaxRetries = 1
SPECIFICATION Spec
INVARIANTS TypeOK DeletedPlaneIsGone
