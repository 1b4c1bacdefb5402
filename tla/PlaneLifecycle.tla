---------------------------- MODULE PlaneLifecycle ----------------------------
(***************************************************************************)
(* Planes from creation to deletion: the commands of PlaneService,         *)
(* BundleCliService::ApplyDesiredState and AssignmentOrchestrationService, *)
(* the rows they enqueue, what hostd makes of the rows on the node, and    *)
(* the observations from which the controller concludes that a generation  *)
(* has been applied or that a plane may be removed.                        *)
(*                                                                         *)
(* Every command runs in a controller thread and is a sequence of separate *)
(* SQLite transactions: it loads the plane first and acts on that copy.    *)
(* A step of a command is one write, with the reads made just before it.   *)
(* Delivery is reduced to its outcome (AssignmentDelivery has the rest):   *)
(* one hostd process per node, which may fail or be killed.                *)
(***************************************************************************)
EXTENDS AssignmentTable, FiniteSets

CONSTANTS
  Nodes,         \* node_name
  Threads,       \* controller threads that serve commands side by side
  NoPlane,       \* an empty plane_name
  Commands,      \* the commands that operators issue
  LoseObservations, \* BOOLEAN: may a best-effort observation report fail?
  MaxRows,       \* bound on the rows of a node when a command starts
  MaxRetries     \* bound on attempts: MaxAttempts + operator retries

ASSUME PlanesAssumption == IsFiniteSet(Planes)
ASSUME NoPlaneAssumption == NoPlane \notin Planes
ASSUME LoseObservationsAssumption == LoseObservations \in BOOLEAN
ASSUME RowBoundsAssumption == MaxRows \in Nat /\ MaxRetries \in Nat

VARIABLES
  planes,        \* [Planes -> PlaneRecord]: the planes table
  registry,      \* Seq(Planes): existing planes in the order of created_at
  assignments,   \* [Nodes -> Seq(Row)]: the host_assignments table
  available,     \* [Nodes -> BOOLEAN]: node_availability_overrides is Active
  observed,      \* [Nodes -> Observation]: the host_observations table
  local,         \* [Nodes -> [Planes -> LocalState]]: applied state on the node
  hostd,         \* [Nodes -> [id, step]]: the row in work and how far it is
  op             \* [Threads -> Operation]: the command each thread is in

vars == <<planes, registry, assignments, available, observed, local, hostd, op>>

PlaneRecord == [state : {"absent", "stopped", "running", "deleting"},
                generation : Nat, applied : Nat, nodes : SUBSET Nodes]

Absent == [state |-> "absent", generation |-> 0, applied |-> 0, nodes |-> {}]

\* What a node holds of a plane: nothing, disks only, or disks and instances.
Contents == {"none", "disks", "running"}
LocalState == [content : Contents, generation : Nat]
Nothing == [content |-> "none", generation |-> 0]

\* generation = 0 and id = 0 stand for NULL, status "none" for a missing row.
Observation == [status : {"none", "idle", "applying", "applied", "failed"},
                plane : Planes \cup {NoPlane}, id : Nat, generation : Nat,
                content : [Planes -> Contents]]

Steps == {"idle", "start-state", "start-enqueue", "stop-supersede",
          "stop-enqueue", "stop-reconcile", "stop-state", "delete-supersede",
          "delete-state", "delete-enqueue", "reconcile", "finalize", "replace",
          "drain", "resync"}

\* seen: the plane as it was when the command loaded it.
Operation == [step : Steps, plane : Planes \cup {NoPlane}, seen : PlaneRecord,
              nodes : SUBSET Nodes]

NoOperation == [step |-> "idle", plane |-> NoPlane, seen |-> Absent, nodes |-> {}]

HostdSteps == {"idle", "claimed", "applying", "applied", "observed", "converging"}
HostdIdle == [id |-> 0, step |-> "idle"]

Exists(p) == planes[p].state # "absent"

Init ==
  /\ planes = [p \in Planes |-> Absent]
  /\ registry = << >>
  /\ assignments = [n \in Nodes |-> << >>]
  /\ available = [n \in Nodes |-> TRUE]
  /\ observed = [n \in Nodes |->
       [status |-> "none", plane |-> NoPlane, id |-> 0, generation |-> 0,
        content |-> [p \in Planes |-> "none"]]]
  /\ local = [n \in Nodes |-> [p \in Planes |-> Nothing]]
  /\ hostd = [n \in Nodes |-> HostdIdle]
  /\ op = [t \in Threads |-> NoOperation]

-----------------------------------------------------------------------------
(* Helpers of the commands.                                                *)

\* Mutant: cleanup leaves the disks behind.
DesiredContentKeepsDisks(type) ==
  IF type = "apply-node-state" THEN "running" ELSE "disks"

\* The desired_state_json of a row, as far as the node is concerned: a stopped
\* plane keeps its disks, a drained or deleted one keeps nothing.
DesiredContent(type) ==
  CASE type = "apply-node-state" -> "running"
    [] type = "stop-plane-state" -> "disks"
    [] OTHER                     -> "none"

\* The newest row of plane p in q, as a set of at most one index.
Latest(q, p) ==
  {i \in DOMAIN q : q[i].plane = p /\ q[i].status # "deleted" /\ IsLatest(q, i)}

\* The bound on the rows: a command that enqueues starts only below it.
Room == \A n \in Nodes : Len(assignments[n]) < MaxRows

\* EnqueueHostAssignments with one row of type T[n] for every n in DOMAIN T.
Enqueue(p, g, T) ==
  assignments' =
    [n \in Nodes |->
       IF n \in DOMAIN T
       THEN Append(SupersedePlane(assignments[n], p), InsertAssignment(p, g, T[n]))
       ELSE assignments[n]]

Supersede(p) ==
  assignments' = [n \in Nodes |-> SupersedePlane(assignments[n], p)]

\* Mutant: the observation of any assignment will do.
ObservedAsAppliedAnyId(n, i) ==
  LET r == assignments[n][i]
      o == observed[n]
  IN /\ Exists(r.plane) /\ planes[r.plane].applied >= r.generation
     /\ o.plane = r.plane /\ o.status = "applied"
     /\ o.generation >= r.generation

\* ShouldMarkClaimedAssignmentApplied
ObservedAsApplied(n, i) ==
  LET r == assignments[n][i]
      o == observed[n]
  IN /\ Exists(r.plane) /\ planes[r.plane].applied >= r.generation
     /\ o.plane = r.plane /\ o.status = "applied"
     /\ o.id >= i
     /\ o.generation >= r.generation

ReconcileRow(n, i) ==
  LET q == assignments[n] IN
  IF ~IsLatest(q, i) THEN Write(q[i], "superseded", FALSE)
  ELSE IF ObservedAsApplied(n, i) THEN Write(q[i], "applied", FALSE)
  ELSE q[i]

Reconcile(p) ==
  assignments' =
    [n \in Nodes |->
       [i \in DOMAIN assignments[n] |->
          LET r == assignments[n][i] IN
          IF r.plane = p /\ r.status = "claimed" /\ r.type = "apply-node-state"
          THEN ReconcileRow(n, i) ELSE r]]

Matches(n, p) ==
  /\ observed[n].status # "none"
  /\ observed[n].plane = p \/ observed[n].content[p] # "none"

\* ObservationBlocksPlaneDeletion
Blocks(n, p) ==
  /\ Matches(n, p)
  /\ observed[n].status # "idle" \/ observed[n].content[p] # "none"

\* Mutant: the rows are not looked at.
CanFinalizeByObservations(p) == \A n \in Nodes : ~Blocks(n, p)

\* Mutant: the observations are not looked at.
CanFinalizeByRows(p) ==
  \A n \in Nodes : \A i \in DOMAIN assignments[n] :
    assignments[n][i].plane = p => assignments[n][i].status \notin Active

CanFinalizeDeletedPlane(p) ==
  /\ \A n \in Nodes : \A i \in DOMAIN assignments[n] :
       assignments[n][i].plane = p => assignments[n][i].status \notin Active
  /\ \A n \in Nodes : ~Blocks(n, p)

\* The thread goes on to a step, or ends its command.
Goto(t, step) == op' = [op EXCEPT ![t].step = step]
Done(t) == op' = [op EXCEPT ![t] = NoOperation]

Load(t, p, step) ==
  op' = [op EXCEPT ![t] = [step |-> step, plane |-> p, seen |-> planes[p], nodes |-> {}]]

\* UpdatePlaneState, and the exception when the plane has gone.
UpdatePlaneState(t, state, next) ==
  LET p == op[t].plane IN
  IF Exists(p)
  THEN planes' = [planes EXCEPT ![p].state = state] /\ next
  ELSE UNCHANGED planes /\ Done(t)

-----------------------------------------------------------------------------
(* PlaneService::StartPlane                                                *)

StartPlane(t, p) ==
  /\ op[t].step = "idle" /\ Exists(p) /\ Room /\ "start" \in Commands
  /\ ~(planes[p].state = "running" /\ planes[p].applied >= planes[p].generation)
  /\ Load(t, p, IF planes[p].state = "running" THEN "start-enqueue" ELSE "start-state")
  /\ UNCHANGED <<planes, registry, assignments, available, observed, local, hostd>>

\* Mutant: a state that no other command knows.
StartSetsUnknownState(t) ==
  /\ op[t].step = "start-state"
  /\ UpdatePlaneState(t, "started", Goto(t, "start-enqueue"))
  /\ UNCHANGED <<registry, assignments, available, observed, local, hostd>>

StartSetsState(t) ==
  /\ op[t].step = "start-state"
  /\ UpdatePlaneState(t, "running", Goto(t, "start-enqueue"))
  /\ UNCHANGED <<registry, assignments, available, observed, local, hostd>>

\* The nodes that get apply-node-state; stale: heartbeats that are too old.
StartNodes(t, stale) ==
  {n \in op[t].seen.nodes : available[n] /\ observed[n].status # "failed" /\ n \notin stale}

\* BuildRemovedNodeCleanupAssignments
RemovedNodes(t) ==
  {n \in Nodes \ op[t].seen.nodes :
     \E i \in Latest(assignments[n], op[t].plane) :
       DesiredContent(assignments[n][i].type) # "none"}

StartEnqueues(t) ==
  /\ op[t].step = "start-enqueue"
  /\ \E stale \in SUBSET {n \in Nodes : observed[n].status # "none"} :
       Enqueue(op[t].plane, op[t].seen.generation,
               [n \in StartNodes(t, stale) \cup RemovedNodes(t) |->
                  IF n \in op[t].seen.nodes THEN "apply-node-state"
                  ELSE "delete-plane-state"])
  /\ Goto(t, "reconcile")
  /\ UNCHANGED <<planes, registry, available, observed, local, hostd>>

\* The last step of StartPlane and DeletePlane, the last but one of StopPlane.
CommandReconciles(t) ==
  /\ op[t].step \in {"reconcile", "stop-reconcile"}
  /\ Reconcile(op[t].plane)
  /\ IF op[t].step = "reconcile" THEN Done(t) ELSE Goto(t, "stop-state")
  /\ UNCHANGED <<planes, registry, available, observed, local, hostd>>

-----------------------------------------------------------------------------
(* PlaneService::StopPlane                                                 *)

StopPlane(t, p) ==
  /\ op[t].step = "idle" /\ Exists(p) /\ Room /\ "stop" \in Commands
  /\ planes[p].state # "stopped"
  /\ Load(t, p, "stop-supersede")
  /\ UNCHANGED <<planes, registry, assignments, available, observed, local, hostd>>

StopSupersedes(t) ==
  /\ op[t].step = "stop-supersede"
  /\ Supersede(op[t].plane)
  /\ Goto(t, "stop-enqueue")
  /\ UNCHANGED <<planes, registry, available, observed, local, hostd>>

StopEnqueues(t) ==
  /\ op[t].step = "stop-enqueue"
  /\ Enqueue(op[t].plane, op[t].seen.generation,
             [n \in {m \in op[t].seen.nodes : available[m]} |-> "stop-plane-state"])
  /\ Goto(t, "stop-reconcile")
  /\ UNCHANGED <<planes, registry, available, observed, local, hostd>>

StopSetsState(t) ==
  /\ op[t].step = "stop-state"
  /\ UpdatePlaneState(t, "stopped", Done(t))
  /\ UNCHANGED <<registry, assignments, available, observed, local, hostd>>

-----------------------------------------------------------------------------
(* PlaneService::DeletePlane and the places that finalize a deletion       *)

DeletePlane(t, p) ==
  /\ op[t].step = "idle" /\ Exists(p) /\ Room /\ "delete" \in Commands
  /\ Load(t, p, IF planes[p].state = "deleting" /\ CanFinalizeDeletedPlane(p)
                THEN "finalize" ELSE "delete-supersede")
  /\ UNCHANGED <<planes, registry, assignments, available, observed, local, hostd>>

DeleteSupersedes(t) ==
  /\ op[t].step = "delete-supersede"
  /\ Supersede(op[t].plane)
  /\ Goto(t, "delete-state")
  /\ UNCHANGED <<planes, registry, available, observed, local, hostd>>

DeleteSetsState(t) ==
  /\ op[t].step = "delete-state"
  /\ UpdatePlaneState(t, "deleting", Goto(t, "delete-enqueue"))
  /\ UNCHANGED <<registry, assignments, available, observed, local, hostd>>

DeleteEnqueues(t) ==
  /\ op[t].step = "delete-enqueue"
  /\ Enqueue(op[t].plane, op[t].seen.generation,
             [n \in op[t].seen.nodes |-> "delete-plane-state"])
  /\ Goto(t, "reconcile")
  /\ UNCHANGED <<planes, registry, available, observed, local, hostd>>

\* Listing or showing planes removes those whose deletion has converged.
FinalizeDeletedPlaneIfReady(t, p) ==
  /\ op[t].step = "idle"
  /\ planes[p].state = "deleting" /\ CanFinalizeDeletedPlane(p)
  /\ Load(t, p, "finalize")
  /\ UNCHANGED <<planes, registry, assignments, available, observed, local, hostd>>

\* DELETE FROM planes WHERE name = p; the name is the primary key.
Unregister(p) ==
  IF \E k \in DOMAIN registry : registry[k] = p
  THEN LET k == CHOOSE k \in DOMAIN registry : registry[k] = p IN
       registry' = SubSeq(registry, 1, k - 1) \o SubSeq(registry, k + 1, Len(registry))
  ELSE UNCHANGED registry

\* ControllerStore::DeletePlane, one transaction.
FinalizeDeletes(t) ==
  LET p == op[t].plane IN
  /\ op[t].step = "finalize"
  /\ planes' = [planes EXCEPT ![p] = Absent]
  /\ Unregister(p)
  /\ assignments' = [n \in Nodes |-> DeletePlaneRows(assignments[n], p)]
  /\ observed' = [n \in Nodes |->
       IF observed[n].plane = p
       THEN [observed[n] EXCEPT !.plane = NoPlane, !.generation = 0, !.id = 0]
       ELSE observed[n]]
  /\ Done(t)
  /\ UNCHANGED <<available, local, hostd>>

-----------------------------------------------------------------------------
(* The other commands                                                      *)

\* BundleCliService::ApplyDesiredState reads the generation ...
ApplyDesiredState(t, p, N) ==
  /\ op[t].step = "idle" /\ "apply" \in Commands
  /\ planes[p].generation < MaxGeneration
  /\ op' = [op EXCEPT ![t] =
       [step |-> "replace", plane |-> p, seen |-> planes[p], nodes |-> N]]
  /\ UNCHANGED <<planes, registry, assignments, available, observed, local, hostd>>

\* ... and stores the next one; nothing is enqueued before the next start.
ReplaceDesiredState(t) ==
  LET p == op[t].plane IN
  /\ op[t].step = "replace"
  /\ planes' = [planes EXCEPT ![p] =
       [state |-> IF Exists(p) THEN @.state ELSE "stopped",
        generation |-> op[t].seen.generation + 1,
        applied |-> @.applied,
        nodes |-> op[t].nodes]]
  /\ registry' = IF Exists(p) THEN registry ELSE Append(registry, p)
  /\ Done(t)
  /\ UNCHANGED <<assignments, available, observed, local, hostd>>

SetNodeAvailability(t, n, active) ==
  /\ op[t].step = "idle" /\ Room /\ "availability" \in Commands
  /\ available[n] # active
  /\ available' = [available EXCEPT ![n] = active]
  /\ op' = [op EXCEPT ![t] =
       [NoOperation EXCEPT !.step = IF active THEN "resync" ELSE "drain", !.nodes = {n}]]
  /\ UNCHANGED <<planes, registry, assignments, observed, local, hostd>>

\* One row of each plane in P for node n, in some order of the planes.
EnqueueOnNode(n, P, type) ==
  \E order \in [1..Cardinality(P) -> P] :
    /\ \A p \in P : \E k \in DOMAIN order : order[k] = p
    /\ assignments' = [assignments EXCEPT ![n] =
         [i \in DOMAIN @ |->
            IF @[i].plane \in P /\ @[i].status \in Active
            THEN Write(@[i], "superseded", FALSE) ELSE @[i]]
         \o [k \in DOMAIN order |->
               InsertAssignment(order[k], planes[order[k]].generation, type)]]

AffectedPlanes(n) ==
  {p \in Planes : planes[p].state \notin {"absent", "stopped"} /\ n \in planes[p].nodes}

DrainNode(t, n) ==
  /\ op[t].step = "drain" /\ op[t].nodes = {n}
  /\ EnqueueOnNode(n, AffectedPlanes(n), "drain-node-state")
  /\ Done(t)
  /\ UNCHANGED <<planes, registry, available, observed, local, hostd>>

\* BuildResyncAssignmentForNode: the node already has this generation of p,
\* or a row that brings it there.
InSync(n, p) ==
  LET q == assignments[n]
      g == planes[p].generation
      LatestIs(type) ==
        \E i \in Latest(q, p) :
          /\ q[i].generation = g /\ q[i].type = type
          /\ q[i].status \in {"pending", "claimed", "applied"}
  IN \/ /\ observed[n].generation = g
        /\ observed[n].status # "failed"
        /\ observed[n].content[p] = "running"
        /\ ~LatestIs("drain-node-state")
     \/ LatestIs("apply-node-state")

ResyncNode(t, n) ==
  /\ op[t].step = "resync" /\ op[t].nodes = {n}
  /\ EnqueueOnNode(n, {p \in AffectedPlanes(n) : ~InSync(n, p)}, "apply-node-state")
  /\ Done(t)
  /\ UNCHANGED <<planes, registry, available, observed, local, hostd>>

\* LoadDesiredGeneration() without a plane: that of the newest plane.
LatestGeneration ==
  IF registry = << >> THEN 0 ELSE planes[registry[Len(registry)]].generation

RetryHostAssignment(n, i) ==
  /\ "retry" \in Commands
  /\ assignments[n][i].status = "failed"
  /\ assignments[n][i].attempts < MaxRetries
  /\ registry # << >> => assignments[n][i].generation = LatestGeneration
  /\ assignments' = [assignments EXCEPT ![n] = RetryFailedHostAssignment(@, i)]
  /\ UNCHANGED <<planes, registry, available, observed, local, hostd, op>>

\* ComputeEffectiveAppliedGeneration, when planes are listed.  The dashboard
\* does the same under a stronger condition: the observation names plane p.
RaiseAppliedGeneration(p) ==
  /\ Exists(p) /\ planes[p].generation > planes[p].applied
  /\ \A n \in planes[p].nodes :
       /\ Matches(n, p)
       /\ observed[n].generation >= planes[p].generation
       /\ observed[n].status # "failed"
  /\ planes' = [planes EXCEPT ![p].applied = planes[p].generation]
  /\ UNCHANGED <<registry, assignments, available, observed, local, hostd, op>>

\* Listing planes and the scheduler tick reconcile too.
ReconcileTick(p) ==
  /\ Reconcile(p)
  /\ UNCHANGED <<planes, registry, available, observed, local, hostd, op>>

-----------------------------------------------------------------------------
(* hostd on a node                                                         *)

Copy(n) == assignments[n][hostd[n].id]

ClaimNextAssignment(n, i) ==
  LET q == Expire(assignments[n]) IN
  /\ hostd[n].step = "idle"
  /\ ClaimedFirst(q, i)
  /\ assignments' = [assignments EXCEPT ![n] = ClaimRow(q, i)]
  /\ hostd' = [hostd EXCEPT ![n] = [id |-> i, step |-> "claimed"]]
  /\ UNCHANGED <<planes, registry, available, observed, local, op>>

\* A poll that only settles rows whose lease has run out.
ExpireLeasesOnly(n) ==
  LET q == Expire(assignments[n]) IN
  /\ hostd[n].step = "idle"
  /\ Claimable(q) = {} /\ q # assignments[n]
  /\ assignments' = [assignments EXCEPT ![n] = q]
  /\ UNCHANGED <<planes, registry, available, observed, local, hostd, op>>

LocalContent(n) == [p \in Planes |-> local[n][p].content]

\* BuildAssignmentObservation, reported on a best-effort basis.
ReportAssignment(n, status) ==
  \/ observed' = [observed EXCEPT ![n] =
       [status |-> status, plane |-> Copy(n).plane, id |-> hostd[n].id,
        generation |-> IF status = "applied" THEN Copy(n).generation ELSE 0,
        content |-> LocalContent(n)]]
  \/ LoseObservations /\ UNCHANGED observed

ReportApplying(n) ==
  /\ hostd[n].step = "claimed"
  /\ ReportAssignment(n, "applying")
  /\ hostd' = [hostd EXCEPT ![n].step = "applying"]
  /\ UNCHANGED <<planes, registry, assignments, available, local, op>>

ApplyDesiredNodeState(n) ==
  LET r == Copy(n) IN
  /\ hostd[n].step = "applying"
  /\ local' = [local EXCEPT ![n][r.plane] =
       IF DesiredContent(r.type) = "none" THEN Nothing
       ELSE [content |-> DesiredContent(r.type), generation |-> r.generation]]
  /\ hostd' = [hostd EXCEPT ![n].step = "applied"]
  /\ UNCHANGED <<planes, registry, assignments, available, observed, op>>

ReportApplied(n) ==
  /\ hostd[n].step = "applied"
  /\ ReportAssignment(n, "applied")
  /\ hostd' = [hostd EXCEPT ![n].step = "observed"]
  /\ UNCHANGED <<planes, registry, assignments, available, local, op>>

\* POST assignments/<id>/applied: the transition, and the convergence check if
\* it took effect.  A deleted row is answered with 404, which hostd takes for a
\* failure of the assignment.
TransitionApplied(n) ==
  /\ hostd[n].step = "observed"
  /\ assignments' = [assignments EXCEPT ![n] =
       TransitionClaimedHostAssignment(@, hostd[n].id, "applied", FALSE)]
  /\ hostd' = [hostd EXCEPT ![n] =
       IF Copy(n).status = "claimed" /\ Copy(n).type = "apply-node-state"
       THEN [@ EXCEPT !.step = "converging"] ELSE HostdIdle]
  /\ IF Copy(n).status = "deleted" THEN ReportAssignment(n, "failed")
     ELSE UNCHANGED observed
  /\ UNCHANGED <<planes, registry, available, local, op>>

\* converged_generation of HandleAssignmentAction
Converged(p, g) ==
  \A n \in Nodes : \A i \in Latest(assignments[n], p) :
    LET r == assignments[n][i] IN
    r.type = "apply-node-state" /\ r.generation = g
      => r.status \in {"applied", "superseded"}

ConvergeGeneration(n) ==
  LET p == Copy(n).plane
      g == Copy(n).generation
  IN /\ hostd[n].step = "converging"
     /\ planes' = IF Converged(p, g) /\ Exists(p)
                  THEN [planes EXCEPT ![p].applied = g] ELSE planes
     /\ hostd' = [hostd EXCEPT ![n] = HostdIdle]
     /\ UNCHANGED <<registry, assignments, available, observed, local, op>>

\* The work throws, before or after it has changed the node.
FailAssignment(n) ==
  /\ hostd[n].step \in {"applying", "applied"}
  /\ ReportAssignment(n, "failed")
  /\ assignments' = [assignments EXCEPT ![n] =
       TransitionClaimedHostAssignment(@, hostd[n].id,
         IF Copy(n).attempts < Copy(n).max THEN "pending" ELSE "failed", FALSE)]
  /\ hostd' = [hostd EXCEPT ![n] = HostdIdle]
  /\ UNCHANGED <<planes, registry, available, local, op>>

\* hostd is killed; the lease of its row runs out before the next poll.
Crash(n) ==
  /\ hostd[n].step \in {"claimed", "applying", "applied", "observed"}
  /\ hostd' = [hostd EXCEPT ![n] = HostdIdle]
  /\ assignments' = [assignments EXCEPT ![n] =
       IF Copy(n).status = "claimed" THEN AgeRow(@, hostd[n].id) ELSE @]
  /\ UNCHANGED <<planes, registry, available, observed, local, op>>

LocalPlanes(n) == {p \in Planes : local[n][p].content # "none"}

\* RewriteAggregateLocalGeneration: the largest over the planes of the node.
AggregateGeneration(n) ==
  IF LocalPlanes(n) = {} THEN 0
  ELSE CHOOSE g \in {local[n][p].generation : p \in LocalPlanes(n)} :
         \A p \in LocalPlanes(n) : local[n][p].generation <= g

\* report-observed-state between two runs of apply-next-assignment
ReportLocalObservedState(n) ==
  /\ hostd[n].step = "idle"
  /\ observed' = [observed EXCEPT ![n] =
       [status |-> "idle", id |-> 0, generation |-> AggregateGeneration(n),
        plane |-> IF Cardinality(LocalPlanes(n)) = 1
                  THEN CHOOSE p \in LocalPlanes(n) : TRUE ELSE NoPlane,
        content |-> LocalContent(n)]]
  /\ UNCHANGED <<planes, registry, assignments, available, local, hostd, op>>

-----------------------------------------------------------------------------
Command(t) ==
  \/ \E p \in Planes :
       \/ StartPlane(t, p) \/ StopPlane(t, p) \/ DeletePlane(t, p)
       \/ FinalizeDeletedPlaneIfReady(t, p)
       \/ \E N \in (SUBSET Nodes) \ {{}} : ApplyDesiredState(t, p, N)
  \/ \E n \in Nodes, active \in BOOLEAN : SetNodeAvailability(t, n, active)
  \/ StartSetsState(t) \/ StartEnqueues(t) \/ CommandReconciles(t)
  \/ StopSupersedes(t) \/ StopEnqueues(t) \/ StopSetsState(t)
  \/ DeleteSupersedes(t) \/ DeleteSetsState(t) \/ DeleteEnqueues(t)
  \/ FinalizeDeletes(t) \/ ReplaceDesiredState(t)
  \/ \E n \in Nodes : DrainNode(t, n) \/ ResyncNode(t, n)

Hostd(n) ==
  \/ \E i \in DOMAIN assignments[n] : ClaimNextAssignment(n, i)
  \/ ExpireLeasesOnly(n) \/ ReportApplying(n) \/ ApplyDesiredNodeState(n)
  \/ ReportApplied(n) \/ TransitionApplied(n) \/ ConvergeGeneration(n)
  \/ FailAssignment(n) \/ Crash(n) \/ ReportLocalObservedState(n)

Next ==
  \/ \E t \in Threads : Command(t)
  \/ \E n \in Nodes : Hostd(n)
  \/ \E n \in Nodes : \E i \in DOMAIN assignments[n] : RetryHostAssignment(n, i)
  \/ \E p \in Planes : RaiseAppliedGeneration(p) \/ ReconcileTick(p)

Spec == Init /\ [][Next]_vars

-----------------------------------------------------------------------------
(* Properties.                                                             *)

\* The type invariant.
TypeOK ==
  /\ planes \in [Planes -> PlaneRecord]
  /\ registry \in Seq(Planes)
  /\ assignments \in [Nodes -> Seq(Row)]
  /\ available \in [Nodes -> BOOLEAN]
  /\ observed \in [Nodes -> Observation]
  /\ local \in [Nodes -> [Planes -> LocalState]]
  /\ hostd \in [Nodes -> [id : Nat, step : HostdSteps]]
  /\ op \in [Threads -> Operation]

\* What the controller reads off the newest row of a plane is true of the node:
\* once that row is applied and hostd is not at work for the plane, the node
\* holds what the row asks for.  Only an older row that an operator retried
\* (RetryHostAssignment raised its max_attempts) can undo it.
NewestAppliedRowIsInForce ==
  \A n \in Nodes : \A p \in Planes : \A i \in Latest(assignments[n], p) :
    LET r == assignments[n][i] IN
    /\ r.status = "applied"
    /\ hostd[n].step = "idle" \/ Copy(n).plane # p
    /\ \A j \in DOMAIN assignments[n] :
         assignments[n][j].plane = p /\ j < i => assignments[n][j].max = MaxAttempts
    => /\ local[n][p].content = DesiredContent(r.type)
       /\ local[n][p].content # "none" => local[n][p].generation = r.generation

\* A plane that has left the registry has left the nodes: the controller
\* reports it as "deleted from controller registry after cleanup convergence"
\* (PlaneService::FinalizeDeletedPlaneIfReady).
DeletedPlaneIsGone ==
  \A p \in Planes : ~Exists(p) => \A n \in Nodes : local[n][p].content = "none"

\* Every queued or claimed row belongs to a plane of the registry: nothing is
\* left that would bring a deleted plane back to a node (ControllerStore::
\* DeletePlane, RetryHostAssignment).
LiveRowHasPlane ==
  \A n \in Nodes : \A i \in DOMAIN assignments[n] :
    assignments[n][i].status \in Active => Exists(assignments[n][i].plane)

\* "updated plane desired state; rollout is staged until explicit restart"
\* (BundleCliService::ApplyDesiredState): a generation counts as applied only
\* if apply-node-state rows have been queued for it; the controller "should not
\* persist applied_generation from another plane observation"
\* (dashboard_service_tests.cpp).
StagedUntilRestart ==
  [][\A p \in Planes :
       planes'[p].applied > planes[p].applied
         => \E n \in Nodes : \E i \in DOMAIN assignments[n] :
              /\ assignments[n][i].plane = p
              /\ assignments[n][i].type = "apply-node-state"
              /\ assignments[n][i].generation = planes'[p].applied]_vars

\* What lets a deletion end: threads finish their commands, hostd runs
\* again and again and its work ends, it reports in between, and planes are listed.
Fairness ==
  /\ \A t \in Threads :
       /\ WF_vars(CommandReconciles(t)) /\ WF_vars(FinalizeDeletes(t))
       /\ WF_vars(StartSetsState(t)) /\ WF_vars(StartEnqueues(t))
       /\ WF_vars(DeleteSupersedes(t)) /\ WF_vars(DeleteSetsState(t))
       /\ WF_vars(DeleteEnqueues(t)) /\ WF_vars(ReplaceDesiredState(t))
       /\ \A p \in Planes : SF_vars(FinalizeDeletedPlaneIfReady(t, p))
  /\ \A n \in Nodes :
       /\ WF_vars(\E i \in DOMAIN assignments[n] : ClaimNextAssignment(n, i))
       /\ WF_vars(ExpireLeasesOnly(n))
       /\ WF_vars(ReportApplying(n)) /\ WF_vars(ApplyDesiredNodeState(n))
       /\ WF_vars(ReportApplied(n)) /\ WF_vars(TransitionApplied(n))
       /\ WF_vars(ConvergeGeneration(n))
       /\ WF_vars(ReportLocalObservedState(n))

FairSpec == Spec /\ Fairness

\* A plane that is being deleted leaves the registry, or one of its rows has
\* failed for good, or it is started again: a failure, a crash or an
\* observation made before the cleanup does not block the deletion for ever
\* (CanFinalizeDeletedPlane waits for idle and empty observations).
DeletionEnds ==
  \A p \in Planes :
    planes[p].state = "deleting"
      ~> \/ planes[p].state # "deleting"
         \/ \E n \in Nodes : \E i \in DOMAIN assignments[n] :
              assignments[n][i].plane = p /\ assignments[n][i].status = "failed"
=============================================================================
