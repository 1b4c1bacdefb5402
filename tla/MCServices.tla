----------------------------- MODULE MCServices -----------------------------
(***************************************************************************)
(* Instances for TLC of the components that share no state with each       *)
(* other.  A behaviour is a behaviour of one part, chosen at the start; the *)
(* variables of the others stay at one of their initial states.            *)
(***************************************************************************)
EXTENDS SchedulerRollout, Sequences, TLC

CONSTANTS
  Parts,                   \* the parts this run explores
  w1, w2, n1, n2,          \* workers, nodes
  main, peer, h1, h2,      \* processes of a node, threads of the controller
  m1, s1, NoSlot, r1, r2,  \* a node, hostd process, proxied requests
  a, NoPlane, t1,          \* a plane, a controller thread
  d1, d2                   \* nodes that get model files

VARIABLE part

-----------------------------------------------------------------------------
(* Scheduler.  "rebalance": moves, rollbacks and updates, with the constants of  *)
(* the cfg; "evict": rollout actions.                                          *)
schedulerVars == vars

Rollout == INSTANCE SchedulerRollout WITH
  Workers <- {w1, w2}, Commands <- {"evict"}, MaxGeneration <- 2, MaxUpdates <- 0

SchedulerInit ==
  IF part = "evict" THEN Rollout!Init
  ELSE /\ Init
       /\ part # "rebalance" => desired.place = [w \in {w1} |-> n1]
SchedulerNext ==
  \/ part = "rebalance" /\ Next
  \/ part = "evict" /\ Rollout!Next

-----------------------------------------------------------------------------
(* Host sessions.  "session": two processes of a node; "registry": one       *)
(* process, lost answers and operator commands.                              *)
VARIABLES host, client, thread, operator, fresh, token, calls

sessionVars == <<host, client, thread, operator, fresh, token, calls>>

Session == INSTANCE HostSession WITH
  Clients <- {main, peer}, Threads <- {h1, h2}, Commands <- {}, Timeouts <- FALSE,
  MaxAttempts <- 2, MaxTokens <- 4, MaxCalls <- 1
Registry == INSTANCE HostSession WITH
  Clients <- {main}, Threads <- {h1, h2}, Timeouts <- TRUE,
  Commands <- {"revoke", "rotate-key", "reset-onboarding", "storage-role"},
  MaxAttempts <- 2, MaxTokens <- 2, MaxCalls <- 1

SessionInit == IF part = "registry" THEN Registry!Init ELSE Session!Init
SessionNext ==
  \/ part = "session" /\ Session!Next
  \/ part = "registry" /\ Registry!Next

-----------------------------------------------------------------------------
(* "proxy": the delivery of runtime requests; "retry": a plane with operator   *)
(* retries and lost observation reports.                                      *)
VARIABLES assignments, lock, proc, inflight, completed,
          planes, registry, available, planeObserved, local, hostd, planeOp

deliveryVars == <<lock, proc, inflight, completed>>
planeVars == <<planes, registry, available, planeObserved, local, hostd, planeOp>>

Proxy == INSTANCE AssignmentDelivery WITH
  Nodes <- {m1}, Slots <- {s1}, Planes <- {}, Requests <- {r1, r2},
  EnqueuedTypes <- {"proxy:interaction", "proxy:webgateway"}, MaxAttempts <- 1,
  MaxGeneration <- 0, MaxRows <- 2, MaxRetries <- 0, MaxInflight <- 4
Retry == INSTANCE PlaneLifecycle WITH
  observed <- planeObserved, op <- planeOp,
  Nodes <- {m1}, Threads <- {t1}, Planes <- {a}, Requests <- {},
  Commands <- {"apply", "start", "stop", "delete", "retry"},
  LoseObservations <- TRUE, MaxAttempts <- 1, MaxGeneration <- 1, MaxRows <- 2,
  MaxRetries <- 2

RowsInit == Proxy!Init /\ Retry!Init
RowsNext ==
  \/ part = "proxy" /\ Proxy!Next /\ UNCHANGED planeVars
  \/ part = "retry" /\ Retry!Next /\ UNCHANGED deliveryVars

-----------------------------------------------------------------------------
(* Model files of planes.  "relay": through the controller, the file is        *)
(* replaced meanwhile; "pinned": linked nodes and a pinned checksum; "peer":   *)
(* linked nodes; "mutual": two nodes that are the storage node of each other.  *)
VARIABLES stored, apply, bootstrapProc, relayRow, bootstrapTarget, partFile

bootstrapVars == <<stored, apply, bootstrapProc, relayRow, bootstrapTarget, partFile>>

Relay == INSTANCE ModelBootstrap WITH
  proc <- bootstrapProc, row <- relayRow, target <- bootstrapTarget, part <- partFile,
  Nodes <- {d1, d2}, Requesters <- {d1}, Source <- (d1 :> d2), Size <- <<2, 3, 2>>,
  Linked <- FALSE, Pinned <- 0, MaxAttempts <- 3
PinnedModel == INSTANCE ModelBootstrap WITH
  proc <- bootstrapProc, row <- relayRow, target <- bootstrapTarget, part <- partFile,
  Nodes <- {d1, d2}, Requesters <- {d1}, Source <- (d1 :> d2), Size <- <<2, 3, 2>>,
  Linked <- TRUE, Pinned <- 2, MaxAttempts <- 3
Peer == INSTANCE ModelBootstrap WITH
  proc <- bootstrapProc, row <- relayRow, target <- bootstrapTarget, part <- partFile,
  Nodes <- {d1, d2}, Requesters <- {d1}, Source <- (d1 :> d2), Size <- <<2>>,
  Linked <- TRUE, Pinned <- 0, MaxAttempts <- 3
Mutual == INSTANCE ModelBootstrap WITH
  proc <- bootstrapProc, row <- relayRow, target <- bootstrapTarget, part <- partFile,
  Nodes <- {d1, d2}, Requesters <- {d1, d2}, Source <- (d1 :> d2 @@ d2 :> d1), Size <- <<1>>,
  Linked <- FALSE, Pinned <- 0, MaxAttempts <- 2

OneRequester == part \in {"relay", "pinned", "peer"}
BootstrapInit == IF OneRequester THEN Relay!Init ELSE Mutual!Init
BootstrapNext ==
  \/ part = "relay" /\ Relay!Next
  \/ part = "pinned" /\ PinnedModel!Next
  \/ part = "peer" /\ Peer!Next
  \/ part = "mutual" /\ Mutual!Next

-----------------------------------------------------------------------------
(* Jobs of the model library.  "download": commands of two HTTP threads and a  *)
(* restart; "delete": the job may also be deleted; "hide": the liveness part.  *)
VARIABLES libraryJob, active, stop, resumed, worker, child, out, libraryTarget,
          libraryOp, commands, restarts

libraryVars == <<libraryJob, active, stop, resumed, worker, child, out, libraryTarget,
                 libraryOp, commands, restarts>>

Download == INSTANCE ModelLibrary WITH
  job <- libraryJob, op <- libraryOp, target <- libraryTarget,
  Kind <- "download", Threads <- {h1, h2}, Commands <- {"stop", "resume", "hide"},
  MaxCommands <- 3, MaxRestarts <- 1
Delete == INSTANCE ModelLibrary WITH
  job <- libraryJob, op <- libraryOp, target <- libraryTarget,
  Kind <- "download", Threads <- {h1}, Commands <- {"stop", "resume", "hide", "delete"},
  MaxCommands <- 2, MaxRestarts <- 1
Hide == INSTANCE ModelLibrary WITH
  job <- libraryJob, op <- libraryOp, target <- libraryTarget,
  Kind <- "download", Threads <- {h1}, Commands <- {"hide"},
  MaxCommands <- 1, MaxRestarts <- 1

LibraryInit == IF part = "download" THEN Download!Init ELSE Delete!Init
LibraryNext ==
  \/ part = "download" /\ Download!Next
  \/ part = "delete" /\ Delete!Next
  \/ part = "hide" /\ Hide!Next

-----------------------------------------------------------------------------
(* "told": telemetry frames of a node on their way to a browser.               *)
VARIABLES history, pruned, latest, durable, stream, browser, fetched, newest, owed,
          breaks, streamRestarts

streamVars == <<history, pruned, latest, durable, stream, browser, fetched, newest, owed,
                breaks, streamRestarts>>

Told == INSTANCE TelemetryStream WITH
  restarts <- streamRestarts, Nodes <- {m1}, LiveStream <- TRUE, HotCapacity <- 1,
  BatchLimit <- 1, Durable <- 1, IdModulus <- 2, MaxSequence <- 4, MaxBreaks <- 1,
  MaxRestarts <- 0

-----------------------------------------------------------------------------
rowsVars == <<assignments, deliveryVars, planeVars>>
serviceVars == <<part, schedulerVars, sessionVars, rowsVars, bootstrapVars, libraryVars, streamVars>>

ServicesInit ==
  /\ part \in Parts
  /\ SchedulerInit /\ SessionInit /\ RowsInit /\ BootstrapInit /\ LibraryInit
  /\ Told!Init

ServicesNext ==
  \/ SchedulerNext /\ UNCHANGED <<part, sessionVars, rowsVars, bootstrapVars, libraryVars, streamVars>>
  \/ SessionNext /\ UNCHANGED <<part, schedulerVars, rowsVars, bootstrapVars, libraryVars, streamVars>>
  \/ RowsNext /\ UNCHANGED <<part, schedulerVars, sessionVars, bootstrapVars, libraryVars, streamVars>>
  \/ BootstrapNext /\ UNCHANGED <<part, schedulerVars, sessionVars, rowsVars, libraryVars, streamVars>>
  \/ LibraryNext /\ UNCHANGED <<part, schedulerVars, sessionVars, rowsVars, bootstrapVars, streamVars>>
  \/ part = "told" /\ Told!Next /\ UNCHANGED <<part, schedulerVars, sessionVars, rowsVars, bootstrapVars, libraryVars>>

ServicesSpec == ServicesInit /\ [][ServicesNext]_serviceVars

Symmetry == Permutations({w1, w2}) \cup Permutations({n1, n2})
            \cup Permutations({h1, h2})

\* The fairness of every part, while it is the one that runs.
FairServices ==
  /\ ServicesSpec
  /\ WF_schedulerVars(part = "rebalance" /\ Tick)
  /\ WF_schedulerVars(part = "rebalance" /\ GoesOn)
  /\ WF_schedulerVars(part = "rebalance" /\ VerificationTimeout)
  /\ \A t \in {h1, h2} : WF_sessionVars(part = "session" /\ Session!Serve(t))
  /\ \A c \in {main, peer}, t \in {h1, h2} :
       WF_sessionVars(part = "session" /\ (Session!Send(c, t) \/ Session!SendOpen(c, t)))
  /\ \A n \in {d1, d2} : /\ WF_bootstrapVars(part = "mutual" /\ Mutual!Begin(n))
                       /\ WF_bootstrapVars(part = "mutual" /\ Mutual!Advance(n))
  /\ WF_libraryVars(part = "hide" /\ Hide!Worker)
  /\ SF_libraryVars(part = "hide" /\ (Hide!ChildSucceeds \/ Hide!ChildFails))
  /\ WF_libraryVars(part = "hide" /\ Hide!OpStep(h1))
  /\ WF_libraryVars(part = "hide" /\ Hide!ResumePersistentJobs)
  /\ WF_streamVars(part = "told" /\ Told!Serve)
  /\ WF_streamVars(part = "told" /\ Told!Reconnect)

-----------------------------------------------------------------------------
\* The state of every part has its type.
ServicesTypeOK ==
  /\ IF part = "evict" THEN Rollout!TypeOK ELSE TypeOK
  /\ IF part = "registry" THEN Registry!TypeOK ELSE Session!TypeOK
  /\ IF OneRequester THEN Relay!TypeOK ELSE Mutual!TypeOK
  /\ IF part = "download" THEN Download!TypeOK ELSE Delete!TypeOK
  /\ Told!TypeOK

\* No client of the controller is given a response it has already seen.
ResponsesAreFresh == part = "session" => Session!ResponsesAreFresh

\* A status request of the web gateway waits for interactive ones.
StatusRequestsWait == Proxy!StatusRequestsWait

\* With retries and lost reports, the newest applied row describes the node,
NewestAppliedRowIsInForce == part = "retry" => Retry!NewestAppliedRowIsInForce

\* and no live row outlives its plane.
LiveRowHasPlane == part = "retry" => Retry!LiveRowHasPlane

\* A plane is applied only with a whole model file of one version.
AppliedModelIsWhole == OneRequester => IF part = "peer" THEN Peer!AppliedModelIsWhole
                                       ELSE Relay!AppliedModelIsWhole

\* A completed download is whole,
CompletedModelIsWhole == part = "download" => Download!CompletedModelIsWhole

\* and at most one thread works for a job.
ActiveJobHasThread == Download!ActiveJobHasThread

\* A browser that stays is told of every such frame.
FrameIsTold == part = "told" => Told!FrameIsTold

\* Every call of a process of the node ends.
CallEnds == Session!CallEnds

\* The application of a plane whose model is on another node ends, also when that
\* node waits for this one.
BootstrapEnds == part = "mutual" => Mutual!BootstrapEnds

\* A download that was queued or running ends, across a restart of the controller.
JobEnds == part = "hide" => Hide!JobEnds
=============================================================================
