-------------------------- MODULE SchedulerRollout --------------------------
(***************************************************************************)
(* The scheduler of one plane (controller/src/scheduler): direct rebalance *)
(* with verification and rollback, rollout actions that evict best-effort  *)
(* workers before a retried placement, and what the nodes make of them.    *)
(*                                                                         *)
(* A command of the controller is a sequence of SQLite transactions: the   *)
(* write of the desired state comes first, the writes that go with it are  *)
(* a second step (op), and the controller may die in between.  Commands do *)
(* not overlap here.  Every node has one GPU.  Which worker needs another  *)
(* place is the answer of EvaluateSchedulingPolicy and is left open.       *)
(*                                                                         *)
(* The nodes are active and schedulable throughout: ClusterReady asks all  *)
(* of them where the code skips those that are not schedulable, and        *)
(* ReplaceHostAssignments gives each a row where BuildHostAssignments      *)
(* skips unavailable and gated ones.                                       *)
(***************************************************************************)
EXTENDS Naturals, FiniteSets

CONSTANTS
  Workers,        \* workers of the plane
  Nodes,          \* its nodes
  Gone,           \* the place of a worker that is not in the desired state
  Commands,       \* what happens: "update", "rebalance", "evict"
  MaxGeneration,  \* bound: desired generations
  MaxUpdates,     \* bound: operator updates
  MaxIterations,  \* MaximumRebalanceIterations
  StableSamples,  \* VerificationStableSamplesRequired
  MaxAttempts     \* HostAssignment::max_attempts

VARIABLES
  desired,   \* desired state: generation, place, rebalance_iteration; edition
  actions,   \* rollout_actions: the eviction and the placement that waits for it
  runtime,   \* scheduler_plane_runtime
  manual,    \* workers with manual_intervention_required
  evicted,   \* workers whose last_scheduler_phase is "evicted"
  cooling,   \* workers and nodes whose last_move_at is recent
  row,       \* the newest host assignment of every node
  tags,      \* action ids in the message of older rows, applied and failed
  job,       \* the copy of a row that hostd works on
  node,      \* what runs on a node, and the generation it applied
  observed,  \* host_observations: what the node last reported
  op,        \* the command between its two steps
  finished   \* history: the last operator update that ran to its end

vars == <<desired, actions, runtime, manual, evicted, cooling, row, tags, job,
          node, observed, op, finished>>
nodeVars == <<job, node, observed>>

Places == [Workers -> Nodes \cup {Gone}]
On(place, n) == {w \in Workers : place[w] = n}

NoActions == [id |-> 0, generation |-> 0, worker |-> Gone, target |-> Gone,
              victims |-> {}, evict |-> "none", retry |-> "none"]
NoRuntime == [phase |-> "none", worker |-> Gone, generation |-> 0, samples |-> 0,
              rollbacks |-> 0, source |-> Gone, target |-> Gone,
              previous |-> [w \in Workers |-> Gone], edition |-> 0,
              overdue |-> FALSE, gated |-> FALSE]
NoRow == [type |-> "none", generation |-> 0, workers |-> {}, status |-> "none",
          tag |-> 0, garbled |-> FALSE, victims |-> {}, attempts |-> 0]
Idle  == [cmd |-> "idle", runtime |-> NoRuntime, actions |-> NoActions]

StatusesOfAction == {"none", "pending", "acknowledged", "ready-to-retry"}
Phases == {"none", "verifying-move", "rollback-planned", "rollback-applied"}

\* The type invariant: actions, runtime records, rows and workers have their types.
TypeOK ==
  /\ desired.generation \in 1..MaxGeneration /\ desired.place \in Places
  /\ desired.iteration \in 0..MaxIterations
  /\ actions.evict \in StatusesOfAction /\ actions.retry \in StatusesOfAction
  /\ runtime.phase \in Phases /\ runtime.samples \in 0..StableSamples
  /\ runtime.rollbacks \in 0..1
  /\ manual \subseteq Workers /\ evicted \subseteq Workers
  /\ \A n \in Nodes : /\ node[n].workers \subseteq Workers
                      /\ observed[n].generation <= node[n].generation
                      /\ row[n].attempts \in 0..MaxAttempts

-----------------------------------------------------------------------------
(* Rows.  ReplaceHostAssignments: every node gets an apply row and whatever  *)
(* was live is superseded.  The message of a row that ends stays behind.     *)

ApplyRow(place, g, n) ==
  [NoRow EXCEPT !.type = "apply-node-state", !.generation = g,
                !.workers = On(place, n), !.status = "pending"]

\* Messages in the table once node n gets a new row: a superseded row loses
\* the text it had, an applied or failed one keeps it.
TagsAfter(t, r) ==
  [applied |-> t.applied \cup IF r.status = "applied" /\ r.tag # 0 THEN {r.tag} ELSE {},
   failed  |-> t.failed \cup IF r.status = "failed" /\ r.tag # 0 THEN {r.tag} ELSE {}]

AllTags ==
  [applied |-> tags.applied \cup {row[n].tag : n \in {m \in Nodes :
                                     row[m].status = "applied" /\ row[m].tag # 0}},
   failed  |-> tags.failed \cup {row[n].tag : n \in {m \in Nodes :
                                     row[m].status = "failed" /\ row[m].tag # 0}}]

ReplaceHostAssignments(place, g) ==
  /\ tags' = AllTags
  /\ row' = [n \in Nodes |-> ApplyRow(place, g, n)]

\* BuildEvictionAssignmentsForAction, EnqueueHostAssignments: the slice of the
\* target node without the victims; the tags are the row's status_message.
EnqueueEviction(a) ==
  /\ tags' = TagsAfter(tags, row[a.target])
  /\ row' = [row EXCEPT ![a.target] =
       [NoRow EXCEPT !.type = "evict-workers", !.generation = desired.generation,
                     !.workers = On(desired.place, a.target) \ a.victims,
                     !.status = "pending", !.tag = a.id, !.victims = a.victims]]

Live(n) == row[n].status \in {"pending", "claimed"}

\* AreRolloutEvictionAssignmentsApplied: of the rows whose message names the
\* action, there is one and all are applied.  A claimed row has no message.
EvictionApplied(id) ==
  /\ \/ id \in tags.applied
     \/ \E n \in Nodes : row[n].tag = id /\ row[n].status = "applied"
  /\ id \notin tags.failed
  /\ \A n \in Nodes : row[n].tag = id => row[n].status = "applied"

-----------------------------------------------------------------------------
(* EvaluateSchedulingPolicy: a worker that shares or could do better may    *)
(* have a first candidate that needs the workers on it evicted.             *)
Report(place, g, id) ==
  {NoActions} \cup
  IF "evict" \notin Commands THEN {} ELSE
  {[id |-> id, generation |-> g, worker |-> move[1], target |-> move[2],
    victims |-> On(place, move[2]), evict |-> "pending", retry |-> "pending"] :
     move \in {x \in Workers \X Nodes :
        /\ place[x[1]] \notin {Gone, x[2]}
        /\ On(place, x[2]) # {}}}

NextId == actions.id + 1

\* RequireSchedulingPolicy of a placement made exclusive.
Admissible(place, w) == \A v \in Workers \ {w} : place[v] # place[w]

Init ==
  /\ \E place \in [Workers -> Nodes] :
       desired = [generation |-> 1, place |-> place, iteration |-> 0, edition |-> 0]
  /\ actions \in Report(desired.place, 1, 1)
  /\ runtime = NoRuntime /\ manual = {} /\ evicted = {} /\ cooling = {}
  /\ row = [n \in Nodes |-> ApplyRow(desired.place, 1, n)]
  /\ tags = [applied |-> {}, failed |-> {}]
  /\ job = [n \in Nodes |-> NoRow]
  /\ node = [n \in Nodes |-> [workers |-> {}, generation |-> 0]]
  /\ observed = [n \in Nodes |-> [workers |-> {}, generation |-> 0]]
  /\ op = Idle /\ finished = 0

-----------------------------------------------------------------------------
(* Operator: a new desired state, and the start that rolls it out.          *)

\* ApplyDesiredState: ReplaceDesiredState, then ClearSchedulerPlaneRuntime and
\* ReplaceRolloutActions(plane, generation, {}).
UpdateReplace(place) ==
  /\ desired.edition < MaxUpdates
  /\ op.cmd = "idle" /\ desired.generation < MaxGeneration
  /\ desired' = [generation |-> desired.generation + 1, place |-> place,
                 iteration |-> 0, edition |-> desired.edition + 1]
  /\ op' = [Idle EXCEPT !.cmd = "update"]
  /\ UNCHANGED <<actions, runtime, manual, evicted, cooling, row, tags, finished>>
  /\ UNCHANGED nodeVars

\* Mutant: an update leaves the scheduler runtime as it is.
UpdateKeepsRuntime ==
  /\ op.cmd = "update"
  /\ actions' = [NoActions EXCEPT !.id = actions.id]
  /\ finished' = desired.edition
  /\ op' = Idle
  /\ UNCHANGED <<desired, runtime, manual, evicted, cooling, row, tags>>
  /\ UNCHANGED nodeVars

UpdateFinish ==
  /\ op.cmd = "update"
  /\ runtime' = NoRuntime
  /\ actions' = [NoActions EXCEPT !.id = actions.id]
  /\ finished' = desired.edition
  /\ op' = Idle
  /\ UNCHANGED <<desired, manual, evicted, cooling, row, tags>>
  /\ UNCHANGED nodeVars

\* StartPlane of a plane whose generation is not the applied one.
StartPlane ==
  /\ op.cmd = "idle"
  /\ \E n \in Nodes : row[n].generation < desired.generation
  /\ actions' \in Report(desired.place, desired.generation, NextId)
  /\ ReplaceHostAssignments(desired.place, desired.generation)
  /\ UNCHANGED <<desired, runtime, manual, evicted, cooling, op, finished>>
  /\ UNCHANGED nodeVars

-----------------------------------------------------------------------------
(* Direct rebalance.                                                        *)

\* BuildRebalanceControllerGateSummary: cluster_ready.
ClusterReady ==
  /\ runtime.phase = "none"
  /\ actions.evict = "none"
  /\ \A n \in Nodes : ~Live(n) /\ observed[n].generation = desired.generation

\* BuildRebalancePlanEntries: the decision for worker w and idle target m is
\* "propose" (the other candidates are held, gated or deferred).
Proposed(w, m) ==
  /\ desired.place[w] \notin {Gone, m} /\ On(desired.place, m) = {}
  /\ w \notin manual
  /\ runtime.phase = "none"
  /\ ~(actions.evict # "none" /\ actions.worker = w)
  /\ cooling \cap {w, m, desired.place[w]} = {}
  /\ ~Live(m) /\ ~Live(desired.place[w])

\* ApplyRebalanceProposal; "gated" when it comes from ReconcileRebalanceProposals
\* and not from an operator.  MaterializeRebalancePlanEntry moves the worker.
RebalanceReplace(w, m, gated) ==
  LET place == [desired.place EXCEPT ![w] = m] IN
  /\ "rebalance" \in Commands
  /\ op.cmd = "idle" /\ desired.generation < MaxGeneration
  /\ Proposed(w, m) /\ desired.iteration < MaxIterations
  /\ gated => ClusterReady
  /\ desired' = [desired EXCEPT !.generation = @ + 1, !.place = place,
                                !.iteration = @ + 1]
  /\ \E report \in Report(place, desired.generation + 1, NextId) :
       op' = [cmd |-> "rebalance", actions |-> report,
              runtime |-> [NoRuntime EXCEPT
                !.phase = "verifying-move", !.worker = w,
                !.generation = desired.generation + 1, !.source = desired.place[w],
                !.target = m, !.previous = desired.place,
                !.edition = desired.edition, !.gated = gated]]
  /\ UNCHANGED <<actions, runtime, manual, evicted, cooling, row, tags, finished>>
  /\ UNCHANGED nodeVars

\* Second half of a command that changes the desired state: rollout actions,
\* host assignments and the plane runtime.
Materialize(cmd) ==
  /\ op.cmd = cmd
  /\ actions' = op.actions
  /\ ReplaceHostAssignments(desired.place, desired.generation)
  /\ runtime' = op.runtime
  /\ op' = Idle
  /\ UNCHANGED <<desired, manual, evicted, cooling, finished>>
  /\ UNCHANGED nodeVars

RebalanceFinish == Materialize("rebalance")

-----------------------------------------------------------------------------
(* AdvanceActiveSchedulerAction, called by a tick while the runtime is set. *)

RollbackMode == runtime.phase \in {"rollback-planned", "rollback-applied"}
ExpectedNode == IF RollbackMode THEN runtime.source ELSE runtime.target
ClearedNode  == IF RollbackMode THEN runtime.target ELSE runtime.source

\* Mutant: the node the worker leaves is not looked at.
ConvergedOnTarget ==
  /\ observed[ExpectedNode].generation >= runtime.generation
  /\ runtime.worker \in observed[ExpectedNode].workers

\* EvaluateSchedulerActionVerification
Converged ==
  /\ observed[ExpectedNode].generation >= runtime.generation
  /\ runtime.worker \in observed[ExpectedNode].workers
  /\ runtime.worker \notin observed[ClearedNode].workers

CanAdvance == op.cmd = "idle" /\ runtime.phase \notin {"none", "rollback-planned"}
Stable == Converged /\ runtime.samples + 1 >= StableSamples

\* MarkWorkerMoveVerified, ClearSchedulerPlaneRuntime
AdvanceVerified ==
  /\ CanAdvance /\ Stable
  /\ runtime' = NoRuntime
  /\ manual' = manual \ {runtime.worker}
  /\ evicted' = evicted \ {runtime.worker}
  /\ cooling' = cooling \cup {runtime.worker, runtime.source, runtime.target}
  /\ UNCHANGED <<desired, actions, row, tags, op, finished>>
  /\ UNCHANGED nodeVars

AdvanceWaits ==
  /\ CanAdvance /\ ~Stable /\ ~runtime.overdue
  /\ runtime' = [runtime EXCEPT !.samples = IF Converged THEN @ + 1 ELSE 0]
  /\ UNCHANGED <<desired, actions, manual, evicted, cooling, row, tags, op, finished>>
  /\ UNCHANGED nodeVars

AdvancePlansRollback ==
  /\ CanAdvance /\ ~Stable /\ runtime.overdue /\ runtime.rollbacks = 0
  /\ runtime' = [runtime EXCEPT !.phase = "rollback-planned", !.samples = 0,
                                !.overdue = FALSE]
  /\ manual' = manual \ {runtime.worker}
  /\ evicted' = evicted \ {runtime.worker}
  /\ UNCHANGED <<desired, actions, cooling, row, tags, op, finished>>
  /\ UNCHANGED nodeVars

\* Mutant: the runtime of a move that failed for good is kept.
GivesUpKeepsRuntime ==
  /\ CanAdvance /\ ~Stable /\ runtime.overdue /\ runtime.rollbacks # 0
  /\ runtime' = [runtime EXCEPT !.overdue = FALSE]
  /\ manual' = manual \cup {runtime.worker}
  /\ evicted' = evicted \ {runtime.worker}
  /\ UNCHANGED <<desired, actions, cooling, row, tags, op, finished>>
  /\ UNCHANGED nodeVars

AdvanceGivesUp ==
  /\ CanAdvance /\ ~Stable /\ runtime.overdue /\ runtime.rollbacks # 0
  /\ runtime' = NoRuntime
  /\ manual' = manual \cup {runtime.worker}
  /\ evicted' = evicted \ {runtime.worker}
  /\ UNCHANGED <<desired, actions, cooling, row, tags, op, finished>>
  /\ UNCHANGED nodeVars

\* rollback-planned: the desired state of before the move, as a new generation.
RollbackReplace ==
  /\ op.cmd = "idle" /\ runtime.phase = "rollback-planned"
  /\ desired.generation < MaxGeneration
  /\ desired' = [generation |-> desired.generation + 1, place |-> runtime.previous,
                 iteration |-> 0, edition |-> runtime.edition]
  /\ \E report \in Report(runtime.previous, desired.generation + 1, NextId) :
       op' = [cmd |-> "rollback", actions |-> report,
              runtime |-> [runtime EXCEPT !.phase = "rollback-applied",
                !.generation = desired.generation + 1, !.samples = 0,
                !.rollbacks = 1, !.overdue = FALSE]]
  /\ UNCHANGED <<actions, runtime, manual, evicted, cooling, row, tags, finished>>
  /\ UNCHANGED nodeVars

RollbackFinish == Materialize("rollback")

-----------------------------------------------------------------------------
(* Rollout actions.  SchedulerTick looks at them when no action is active;   *)
(* operators may call the parts of it at any time.                           *)

Current == actions.generation = desired.generation

\* EnqueueRolloutEviction, also of rows that are still out; ReconcileRolloutActions
\* only from "pending".
EvictionEnqueued ==
  /\ op.cmd = "idle" /\ Current
  /\ actions.evict \in {"pending", "acknowledged"}
  /\ \A v \in actions.victims : desired.place[v] # Gone
  /\ EnqueueEviction(actions)
  /\ actions' = [actions EXCEPT !.evict = "acknowledged"]
  /\ UNCHANGED <<desired, runtime, manual, evicted, cooling, op, finished>>
  /\ UNCHANGED nodeVars

\* ReconcileRolloutActions: the eviction is applied, its victims are marked
\* (MarkWorkersEvicted: "eviction verified"), the placement becomes ready.
EvictionReady ==
  /\ op.cmd = "idle" /\ Current
  /\ actions.evict = "acknowledged" /\ EvictionApplied(actions.id)
  /\ actions' = [actions EXCEPT !.evict = "ready-to-retry", !.retry = "ready-to-retry"]
  /\ evicted' = evicted \cup actions.victims
  /\ UNCHANGED <<desired, runtime, manual, cooling, row, tags, op, finished>>
  /\ UNCHANGED nodeVars

\* An operator sets the status of an action by hand.
SetRolloutActionStatus(status) ==
  /\ op.cmd = "idle" /\ actions.evict # "none"
  /\ \/ actions' = [actions EXCEPT !.evict = status]
     \/ actions' = [actions EXCEPT !.retry = status]
  /\ UNCHANGED <<desired, runtime, manual, evicted, cooling, row, tags, op, finished>>
  /\ UNCHANGED nodeVars

\* ApplyReadyRolloutAction: MaterializeRetryPlacementAction removes the victims
\* and makes the worker exclusive on its target.
RetryReplace ==
  LET place == [w \in Workers |->
                  IF w \in actions.victims THEN Gone
                  ELSE IF w = actions.worker THEN actions.target
                  ELSE desired.place[w]] IN
  /\ op.cmd = "idle" /\ desired.generation < MaxGeneration
  /\ actions.retry = "ready-to-retry" /\ actions.evict = "ready-to-retry"
  /\ desired.place[actions.worker] # Gone
  /\ Admissible(place, actions.worker)
  /\ desired' = [desired EXCEPT !.generation = @ + 1, !.place = place, !.iteration = 0]
  /\ \E report \in Report(place, desired.generation + 1, NextId) :
       op' = [cmd |-> "retry", actions |-> report, runtime |-> NoRuntime]
  /\ UNCHANGED <<actions, runtime, manual, evicted, cooling, row, tags, finished>>
  /\ UNCHANGED nodeVars

RetryFinish == Materialize("retry")

-----------------------------------------------------------------------------
(* Nodes.  One hostd at a time works on a copy of the newest row.           *)

Claim(n) ==
  /\ job[n] = NoRow /\ row[n].status = "pending" /\ row[n].attempts < MaxAttempts
  /\ job' = [job EXCEPT ![n] = [row[n] EXCEPT !.attempts = @ + 1, !.status = "claimed"]]
  /\ row' = [row EXCEPT ![n].status = "claimed", ![n].attempts = @ + 1, ![n].tag = 0]
  /\ UNCHANGED <<desired, actions, runtime, manual, evicted, cooling, tags, node,
                 observed, op, finished>>

\* ApplyDesiredNodeState; a worker that is taken away may take its time.
Execute(n) ==
  /\ job[n].status = "claimed"
  /\ \E slow \in SUBSET (job[n].victims \cap node[n].workers) :
       node' = [node EXCEPT ![n] = [workers |-> job[n].workers \cup slow,
                                    generation |-> IF @.generation > job[n].generation
                                                   THEN @.generation
                                                   ELSE job[n].generation]]
  /\ job' = [job EXCEPT ![n].status = "executed"]
  /\ UNCHANGED <<desired, actions, runtime, manual, evicted, cooling, row, tags,
                 observed, op, finished>>

\* The victims hostd knows of.  A message that was wrapped in the report of a
\* failed attempt ends in "]", which becomes part of the last victim's name;
\* a message that the claim cleared names nobody.
KnownVictims(j) ==
  IF j.tag = 0 THEN {{}}
  ELSE IF j.garbled THEN {j.victims \ {v} : v \in j.victims}
  ELSE {j.victims}

\* The row as the database has it when its job reports.
Report1(n, status, tag, garbled) ==
  row' = IF row[n].status = "claimed" /\ row[n].type = job[n].type
            /\ row[n].generation = job[n].generation /\ row[n].attempts = job[n].attempts
         THEN [row EXCEPT ![n].status = status, ![n].tag = tag, ![n].garbled = garbled /\ tag # 0]
         ELSE row

\* The report of an executed job, for an eviction after VerifyEvictionAssignment
\* (or after 30 s without success).  Observations are best effort.
JobApplied(n) ==
  /\ job[n].status = "executed"
  /\ \E known \in KnownVictims(job[n]) : known \cap node[n].workers = {}
  /\ Report1(n, "applied", job[n].tag, TRUE)
  /\ job' = [job EXCEPT ![n] = NoRow]
  /\ observed' \in {observed, [observed EXCEPT ![n] = node[n]]}
  /\ UNCHANGED <<desired, actions, runtime, manual, evicted, cooling, tags, node,
                 op, finished>>

JobFails(n) ==
  /\ job[n].status \in {"claimed", "executed"}
  /\ Report1(n, IF job[n].attempts < MaxAttempts THEN "pending" ELSE "failed",
             job[n].tag, TRUE)
  /\ job' = [job EXCEPT ![n] = NoRow]
  /\ UNCHANGED <<desired, actions, runtime, manual, evicted, cooling, tags, node,
                 observed, op, finished>>

\* hostd is killed; the lease of the row runs out and the next poll expires it.
Killed(n) ==
  /\ job[n] # NoRow
  /\ job' = [job EXCEPT ![n] = NoRow]
  /\ row' = IF row[n].status = "claimed"
            THEN [row EXCEPT ![n].status =
                    IF row[n].attempts >= MaxAttempts THEN "failed" ELSE "pending",
                    ![n].tag = 0]
            ELSE row
  /\ UNCHANGED <<desired, actions, runtime, manual, evicted, cooling, tags, node,
                 observed, op, finished>>

\* A container that was told to stop is gone at last; a heartbeat reports.
SlowWorkerStops(n) ==
  /\ job[n].status # "claimed"
  /\ \E w \in node[n].workers :
       /\ w \in row[n].victims
       /\ node' = [node EXCEPT ![n].workers = @ \ {w}]
  /\ UNCHANGED <<desired, actions, runtime, manual, evicted, cooling, row, tags,
                 job, observed, op, finished>>

Heartbeat(n) ==
  /\ job[n] = NoRow /\ observed[n] # node[n]
  /\ observed' = [observed EXCEPT ![n] = node[n]]
  /\ UNCHANGED <<desired, actions, runtime, manual, evicted, cooling, row, tags,
                 job, node, op, finished>>

-----------------------------------------------------------------------------
(* Clocks and failures of the controller.                                   *)

VerificationTimeout ==
  /\ runtime.phase \in {"verifying-move", "rollback-applied"} /\ ~runtime.overdue
  /\ runtime' = [runtime EXCEPT !.overdue = TRUE]
  /\ UNCHANGED <<desired, actions, manual, evicted, cooling, row, tags, op, finished>>
  /\ UNCHANGED nodeVars

CooldownEnds ==
  /\ cooling # {}
  /\ cooling' = {}
  /\ UNCHANGED <<desired, actions, runtime, manual, evicted, row, tags, op, finished>>
  /\ UNCHANGED nodeVars

ControllerCrash ==
  /\ op.cmd # "idle"
  /\ op' = Idle
  /\ UNCHANGED <<desired, actions, runtime, manual, evicted, cooling, row, tags, finished>>
  /\ UNCHANGED nodeVars

Next ==
  \/ \E place \in [Workers -> Nodes] : UpdateReplace(place)
  \/ UpdateFinish
  \/ StartPlane
  \/ \E w \in Workers, m \in Nodes, gated \in BOOLEAN : RebalanceReplace(w, m, gated)
  \/ RebalanceFinish
  \/ AdvanceVerified
  \/ AdvanceWaits
  \/ AdvancePlansRollback
  \/ AdvanceGivesUp
  \/ RollbackReplace
  \/ RollbackFinish
  \/ EvictionEnqueued
  \/ EvictionReady
  \/ \E status \in StatusesOfAction \ {"none"} : SetRolloutActionStatus(status)
  \/ RetryReplace
  \/ RetryFinish
  \/ \E n \in Nodes :
       \/ Claim(n)
       \/ Execute(n)
       \/ JobApplied(n)
       \/ JobFails(n)
       \/ Killed(n)
       \/ SlowWorkerStops(n)
       \/ Heartbeat(n)
  \/ VerificationTimeout
  \/ CooldownEnds
  \/ ControllerCrash

Spec == Init /\ [][Next]_vars

\* A tick, a command that goes on, and the clock.
Tick == AdvanceVerified \/ AdvanceWaits \/ AdvancePlansRollback \/ AdvanceGivesUp
        \/ RollbackReplace
GoesOn == UpdateFinish \/ RebalanceFinish \/ RollbackFinish \/ RetryFinish

\* Fairness: somebody keeps calling scheduler-tick, commands end, time passes.
FairSpec == Spec /\ WF_vars(Tick) /\ WF_vars(GoesOn) /\ WF_vars(VerificationTimeout)

-----------------------------------------------------------------------------
\* An operator's update whose command ran to its end is never undone by the
\* scheduler: a rollback restores the state of before the move, and a move that
\* an update overtook must not be rolled back any more.
FinishedUpdateStays == desired.edition >= finished

\* A move that went through the controller gate, that no update overtook and
\* that is called verified has really left its old place: the worker does not
\* run on two nodes, although the verification only sees late observations.
VerifiedMoveRunsOnce ==
  [][(AdvanceVerified /\ runtime.phase = "verifying-move" /\ runtime.gated
        /\ runtime.edition = desired.edition)
       => runtime.worker \notin node[runtime.source].workers]_vars

\* While ticks keep coming a scheduler action ends: verified, rolled back or
\* handed to an operator, whatever the nodes report and wherever the controller
\* dies (up to the bound on generations, which every rollback uses up).
SchedulerActionEnds ==
  runtime.phase # "none" ~>
    (runtime.phase = "none" \/ desired.generation = MaxGeneration)
=============================================================================
