CONSTANTS
  t1 = t1
  t2 = t2
  NoPlane = NoPlane
  Nodes = {n1}
  Threads = {t1, t2}
  Planes = {a}
  Requests = {}
  Commands = {"apply", "start", "delete"}
  LoseObservations = FALSE
  MaxAttempts = 1
  MaxGeneration = 1
  MaxRows = 2
  MaxRetries = 1
SPECIFICATION Spec
SYMMETRY ThreadSymmetry
INVARIANT DeletedPlaneIsGone
