----------------------- MODULE SchedulerRolloutProofs -----------------------
(***************************************************************************)
(* Proofs about SchedulerRollout, for any number of workers, nodes, updates, *)
(* rebalances and attempts: the type invariant, that a finished update stays, *)
(* and that a move called verified has left its old node.                    *)
(***************************************************************************)
EXTENDS SchedulerRollout, FiniteSetTheorems, TLAPS

\* The hypothesis on the constants: the bounds are numbers.
SchedulerSound ==
  /\ MaxGeneration \in Nat \ {0} /\ MaxUpdates \in Nat /\ MaxIterations \in Nat
  /\ StableSamples \in Nat /\ MaxAttempts \in Nat

PlaneStates == [generation : 1..MaxGeneration, place : Places,
                iteration : 0..MaxIterations, edition : Nat]

RolloutActions == [id : Nat, generation : Nat, worker : Workers \cup {Gone},
                   target : Nodes \cup {Gone}, victims : SUBSET Workers,
                   evict : StatusesOfAction, retry : StatusesOfAction]

Runtimes == [phase : Phases, worker : Workers \cup {Gone}, generation : Nat,
             samples : 0..StableSamples, rollbacks : 0..1, source : Nodes \cup {Gone},
             target : Nodes \cup {Gone}, previous : Places, edition : Nat,
             overdue : BOOLEAN, gated : BOOLEAN]

RowStates == {"none", "pending", "claimed", "executed", "applied", "failed"}

PlaneRows == [type : {"none", "apply-node-state", "evict-workers"}, generation : Nat,
              workers : SUBSET Workers, status : RowStates, tag : Nat, garbled : BOOLEAN,
              victims : SUBSET Workers, attempts : 0..MaxAttempts]

NodeStates == [workers : SUBSET Workers, generation : Nat]

\* A scheduler action r moves a worker between nodes, and the state it would go back
\* to is not older than the last update that ended.
ActionInv(r, last) ==
  /\ r \in Runtimes
  /\ r.phase # "none" => /\ r.worker \in Workers /\ r.source \in Nodes /\ r.target \in Nodes
                         /\ r.edition >= last

\* The part of the state the controller writes.
ControllerInv ==
  /\ SchedulerSound
  /\ desired \in PlaneStates /\ actions \in RolloutActions
  /\ manual \subseteq Workers /\ evicted \subseteq Workers
  /\ finished \in Nat /\ desired.edition >= finished
  /\ ActionInv(runtime, finished) /\ ActionInv(op.runtime, finished)
  /\ op.actions \in RolloutActions

\* The part the nodes write.
NodesInv ==
  /\ row \in [Nodes -> PlaneRows] /\ job \in [Nodes -> PlaneRows]
  /\ node \in [Nodes -> NodeStates] /\ observed \in [Nodes -> NodeStates]
  /\ \A n \in Nodes : observed[n].generation <= node[n].generation

\* The inductive invariant of the scheduler.
SchedulerInv == ControllerInv /\ NodesInv

\* The values the scheduler starts with, and comes back to.
LEMMA EmptyValues ==
  ASSUME SchedulerSound
  PROVE  /\ NoActions \in RolloutActions /\ NoRow \in PlaneRows
         /\ \A last \in Nat : ActionInv(NoRuntime, last)
         /\ NoRuntime.phase = "none" /\ NoRow.status = "none"
         /\ Idle.runtime = NoRuntime
         /\ Idle.actions = NoActions
         /\ Idle.cmd = "idle"
<1>1. NoActions \in RolloutActions
  BY DEF NoActions, RolloutActions, StatusesOfAction
<1>2. NoRow \in PlaneRows /\ NoRow.status = "none"
  BY DEF NoRow, PlaneRows, RowStates, SchedulerSound
<1>3. PICK p \in Places : p = [w \in Workers |-> Gone]
  BY DEF Places
<1>4. NoRuntime =
        [phase |-> "none", worker |-> Gone, generation |-> 0, samples |-> 0,
         rollbacks |-> 0, source |-> Gone, target |-> Gone, previous |-> p, edition |-> 0,
         overdue |-> FALSE, gated |-> FALSE]
  BY <1>3 DEF NoRuntime
<1>5. NoRuntime \in Runtimes /\ NoRuntime.phase = "none"
  <2>1. 0 \in 0..StableSamples /\ "none" \in Phases
    BY DEF SchedulerSound, Phases
  <2> QED BY <1>4, <2>1 DEF Runtimes
<1>6. \A last \in Nat : ActionInv(NoRuntime, last)
  BY <1>5 DEF ActionInv
<1>7. /\ Idle.runtime = NoRuntime
      /\ Idle.actions = NoActions /\ Idle.cmd = "idle"
  BY DEF Idle
<1> QED BY <1>1, <1>2, <1>5, <1>6, <1>7

\* A report of the policy is a pair of rollout actions.
LEMMA ReportIsActions ==
  ASSUME SchedulerSound, NEW place \in Places, NEW g \in Nat, NEW id \in Nat,
         NEW r \in Report(place, g, id)
  PROVE  r \in RolloutActions
<1>1. CASE r = NoActions
  BY <1>1, EmptyValues
<1>2. CASE r # NoActions
  <2>1. PICK w \in Workers, n \in Nodes :
          r = [id |-> id, generation |-> g, worker |-> w, target |-> n,
               victims |-> On(place, n), evict |-> "pending", retry |-> "pending"]
    <3>1. PICK x \in Workers \X Nodes :
            r = [id |-> id, generation |-> g, worker |-> x[1], target |-> x[2],
                 victims |-> On(place, x[2]), evict |-> "pending",
                 retry |-> "pending"]
      BY <1>2 DEF Report
    <3> QED BY <3>1
  <2>2. "pending" \in StatusesOfAction /\ On(place, n) \in SUBSET Workers
    BY DEF StatusesOfAction, On
  <2> QED BY <2>1, <2>2 DEF RolloutActions
<1> QED BY <1>1, <1>2

\* The apply row of a node.
LEMMA StartRow ==
  ASSUME SchedulerSound, NEW place, NEW g \in Nat, NEW n \in Nodes
  PROVE  /\ ApplyRow(place, g, n) \in PlaneRows
         /\ ApplyRow(place, g, n).workers = On(place, n)
         /\ ApplyRow(place, g, n).generation = g
         /\ ApplyRow(place, g, n).status = "pending"
         /\ ApplyRow(place, g, n).victims = {}
<1>1. PICK W \in SUBSET Workers : W = On(place, n)
  BY DEF On
<1>2. PICK r \in PlaneRows : r = NoRow
  BY EmptyValues
<1>3. r.victims = {}
  BY <1>2 DEF NoRow
<1>4. PICK y : y = [r EXCEPT !.type = "apply-node-state", !.generation = g,
                             !.workers = W, !.status = "pending"]
  OBVIOUS
<1>5. /\ y \in PlaneRows /\ y.workers = W /\ y.generation = g /\ y.status = "pending"
      /\ y.victims = {}
  BY <1>3, <1>4 DEF PlaneRows, RowStates
<1>6. ApplyRow(place, g, n) = y
  BY <1>1, <1>2, <1>4 DEF ApplyRow
<1> QED BY <1>1, <1>5, <1>6

\* ReplaceHostAssignments gives every node a row.
LEMMA ReplacedRows ==
  ASSUME SchedulerSound, NEW place, NEW g \in Nat,
         ReplaceHostAssignments(place, g)
  PROVE  /\ row' \in [Nodes -> PlaneRows]
         /\ \A n \in Nodes :
              /\ row'[n].workers = On(place, n) /\ row'[n].generation = g
              /\ row'[n].status = "pending" /\ row'[n].victims = {}
<1>1. row' = [n \in Nodes |-> ApplyRow(place, g, n)]
  BY DEF ReplaceHostAssignments
<1> QED BY <1>1, StartRow

\* Steps of the controller leave jobs, nodes and observations alone.
LEMMA NodesStep ==
  ASSUME NodesInv, row' \in [Nodes -> PlaneRows], UNCHANGED <<job, node, observed>>
  PROVE  NodesInv'
BY DEF NodesInv

\* Steps of the nodes leave what the controller writes alone.
LEMMA ControllerStep ==
  ASSUME ControllerInv,
         UNCHANGED <<desired, actions, runtime, manual, evicted, op, finished>>
  PROVE  ControllerInv'
BY DEF ControllerInv, ActionInv

\* ApplyDesiredState of an operator, its first half ...
LEMMA UpdateReplaceInv ==
  ASSUME SchedulerInv, NEW place \in [Workers -> Nodes], UpdateReplace(place)
  PROVE  SchedulerInv'
<1>0. ControllerInv /\ NodesInv /\ SchedulerSound /\ desired \in PlaneStates /\ finished \in Nat
  BY DEF SchedulerInv, ControllerInv
<1>1. PICK g \in 1..MaxGeneration : g = desired.generation + 1
  BY <1>0 DEF UpdateReplace, PlaneStates, SchedulerSound
<1>2. PICK e \in Nat : e = desired.edition + 1 /\ e >= finished
  BY <1>0 DEF PlaneStates, ControllerInv
<1>3. desired' = [generation |-> g, place |-> place, iteration |-> 0, edition |-> e]
  BY <1>1, <1>2 DEF UpdateReplace
<1>4. desired' \in PlaneStates /\ desired'.edition >= finished
  <2>1. 0 \in 0..MaxIterations /\ place \in Places
    BY <1>0 DEF SchedulerSound, Places
  <2> QED BY <1>2, <1>3, <2>1 DEF PlaneStates
<1>5. op'.runtime = NoRuntime /\ op'.actions = NoActions
  BY DEF UpdateReplace, Idle
<1>6. UNCHANGED <<actions, runtime, manual, evicted, row, finished, job, node, observed>>
  BY DEF UpdateReplace, nodeVars
<1>7. ActionInv(op'.runtime, finished) /\ op'.actions \in RolloutActions
  BY <1>0, <1>5, EmptyValues
<1>8. ControllerInv'
  BY <1>0, <1>4, <1>6, <1>7 DEF ControllerInv
<1>9. NodesInv'
  BY <1>0, <1>6, NodesStep DEF NodesInv
<1> QED BY <1>8, <1>9 DEF SchedulerInv

\* ... and its second, which forgets the scheduler action.
LEMMA UpdateFinishInv ==
  ASSUME SchedulerInv, UpdateFinish
  PROVE  SchedulerInv'
<1>0. ControllerInv /\ NodesInv /\ SchedulerSound
  BY DEF SchedulerInv, ControllerInv
<1>1. /\ runtime' = NoRuntime /\ finished' = desired.edition
      /\ op'.runtime = NoRuntime /\ op'.actions = NoActions
      /\ UNCHANGED <<desired, manual, evicted, row, job, node, observed>>
  BY DEF UpdateFinish, nodeVars, Idle
<1>2. actions' \in RolloutActions
  <2>1. PICK i \in Nat : i = actions.id
    BY <1>0 DEF ControllerInv, RolloutActions
  <2>2. PICK a \in RolloutActions : a = NoActions
    BY <1>0, EmptyValues
  <2>3. actions' = [a EXCEPT !.id = i]
    BY <2>1, <2>2 DEF UpdateFinish
  <2> QED BY <2>3 DEF RolloutActions
<1>3. finished' \in Nat /\ desired'.edition >= finished'
  BY <1>0, <1>1 DEF ControllerInv, PlaneStates
<1>4. /\ ActionInv(runtime', finished') /\ ActionInv(op'.runtime, finished')
      /\ op'.actions \in RolloutActions
  BY <1>0, <1>1, <1>3, EmptyValues
<1>5. ControllerInv'
  BY <1>0, <1>1, <1>2, <1>3, <1>4 DEF ControllerInv
<1>6. NodesInv'
  BY <1>0, <1>1, NodesStep DEF NodesInv
<1> QED BY <1>5, <1>6 DEF SchedulerInv

\* StartPlane
LEMMA StartPlaneInv ==
  ASSUME SchedulerInv, StartPlane
  PROVE  SchedulerInv'
<1>0. /\ ControllerInv /\ NodesInv /\ SchedulerSound /\ desired \in PlaneStates
      /\ actions \in RolloutActions
  BY DEF SchedulerInv, ControllerInv
<1>1. PICK g \in Nat : g = desired.generation
  BY <1>0 DEF PlaneStates, SchedulerSound
<1>2. PICK i \in Nat : i = NextId
  BY <1>0 DEF RolloutActions, NextId
<1>3. PICK p \in Places : p = desired.place
  BY <1>0 DEF PlaneStates
<1>4. /\ actions' \in Report(p, g, i) /\ ReplaceHostAssignments(p, g)
      /\ UNCHANGED <<desired, runtime, manual, evicted, op, finished, job, node,
                     observed>>
  BY <1>1, <1>2, <1>3 DEF StartPlane, nodeVars
<1>5. actions' \in RolloutActions /\ row' \in [Nodes -> PlaneRows]
  BY <1>0, <1>4, ReportIsActions, ReplacedRows
<1>6. ControllerInv'
  BY <1>0, <1>4, <1>5 DEF ControllerInv
<1>7. NodesInv'
  BY <1>0, <1>4, <1>5, NodesStep
<1> QED BY <1>6, <1>7 DEF SchedulerInv

\* The commands that change the desired state, first half: a state s of the plane
\* and an action r, which is not taken up yet.
LEMMA ReplaceStep ==
  ASSUME SchedulerInv, NEW s \in PlaneStates, s.edition >= finished, desired' = s,
         NEW r, ActionInv(r, finished), op'.runtime = r,
         op'.actions \in RolloutActions,
         UNCHANGED <<actions, runtime, manual, evicted, row, finished, job, node, observed>>
  PROVE  SchedulerInv'
<1>1. ControllerInv'
  BY DEF SchedulerInv, ControllerInv
<1>2. NodesInv'
  BY NodesStep DEF SchedulerInv, NodesInv
<1> QED BY <1>1, <1>2 DEF SchedulerInv

\* ... second half.
LEMMA MaterializeInv ==
  ASSUME SchedulerInv, NEW cmd, Materialize(cmd)
  PROVE  SchedulerInv'
<1>0. ControllerInv /\ NodesInv /\ SchedulerSound /\ desired \in PlaneStates
  BY DEF SchedulerInv, ControllerInv
<1>1. PICK g \in Nat : g = desired.generation
  BY <1>0 DEF PlaneStates, SchedulerSound
<1>2. /\ actions' = op.actions /\ runtime' = op.runtime
      /\ ReplaceHostAssignments(desired.place, g)
      /\ op'.runtime = NoRuntime /\ op'.actions = NoActions
      /\ UNCHANGED <<desired, manual, evicted, finished, job, node, observed>>
  BY <1>1 DEF Materialize, nodeVars, Idle
<1>3. row' \in [Nodes -> PlaneRows]
  BY <1>0, <1>2, ReplacedRows
<1>4. ActionInv(op'.runtime, finished) /\ op'.actions \in RolloutActions
  BY <1>0, <1>2, EmptyValues DEF ControllerInv
<1>5. ControllerInv'
  BY <1>0, <1>2, <1>4 DEF ControllerInv
<1>6. NodesInv'
  BY <1>0, <1>2, <1>3, NodesStep
<1> QED BY <1>5, <1>6 DEF SchedulerInv

\* ApplyRebalanceProposal: the state to go back to is the present one.
LEMMA RebalanceInv ==
  ASSUME SchedulerInv, NEW w \in Workers, NEW m \in Nodes, NEW gated \in BOOLEAN,
         RebalanceReplace(w, m, gated)
  PROVE  SchedulerInv'
<1>0. /\ ControllerInv /\ SchedulerSound /\ desired \in PlaneStates
      /\ actions \in RolloutActions /\ finished \in Nat
  BY DEF SchedulerInv, ControllerInv
<1>1. PICK g \in 1..MaxGeneration : g = desired.generation + 1
  BY <1>0 DEF RebalanceReplace, PlaneStates, SchedulerSound
<1>2. PICK p \in Places : p = [desired.place EXCEPT ![w] = m]
  BY <1>0 DEF PlaneStates, Places
<1>3. PICK k \in 0..MaxIterations : k = desired.iteration + 1
  BY <1>0 DEF RebalanceReplace, PlaneStates, SchedulerSound
<1>4. PICK s : s = [desired EXCEPT !.generation = g, !.place = p, !.iteration = k]
  OBVIOUS
<1>5. s \in PlaneStates /\ s.edition = desired.edition /\ s.edition >= finished
  BY <1>0, <1>4 DEF PlaneStates, ControllerInv
<1>6. PICK i \in Nat : i = NextId
  BY <1>0 DEF RolloutActions, NextId
<1>7. PICK a \in Nodes : a = desired.place[w]
  BY <1>0 DEF RebalanceReplace, Proposed, PlaneStates, Places
<1>8. PICK q \in Places : q = desired.place
  BY <1>0 DEF PlaneStates
<1>9. PICK e \in Nat : e = desired.edition /\ e >= finished
  BY <1>0 DEF PlaneStates, ControllerInv
<1>10. PICK x \in Runtimes : x = NoRuntime
  BY <1>0, EmptyValues DEF ActionInv
<1>11. PICK r : r = [x EXCEPT !.phase = "verifying-move", !.worker = w, !.generation = g,
                              !.source = a, !.target = m, !.previous = q, !.edition = e,
                              !.gated = gated]
  OBVIOUS
<1>12. ActionInv(r, finished)
  <2>1. "verifying-move" \in Phases /\ g \in Nat
    BY <1>0 DEF Phases, SchedulerSound
  <2>2. /\ r \in Runtimes /\ r.worker = w /\ r.source = a /\ r.target = m /\ r.edition = e
    BY <1>11, <2>1 DEF Runtimes
  <2> QED BY <1>9, <2>2 DEF ActionInv
<1>13. PICK report \in Report(p, g, i) :
         op' = [cmd |-> "rebalance", actions |-> report, runtime |-> r]
  BY <1>1, <1>2, <1>6, <1>7, <1>8, <1>9, <1>10, <1>11 DEF RebalanceReplace
<1>14. op'.runtime = r /\ op'.actions \in RolloutActions
  <2>1. g \in Nat
    BY <1>0 DEF SchedulerSound
  <2> QED BY <1>0, <1>13, <2>1, ReportIsActions
<1>15. /\ desired' = s
       /\ UNCHANGED <<actions, runtime, manual, evicted, row, finished, job, node, observed>>
  BY <1>0, <1>1, <1>2, <1>3, <1>4
     DEF RebalanceReplace, nodeVars, PlaneStates
<1> QED BY <1>5, <1>12, <1>14, <1>15, ReplaceStep

\* AdvanceActiveSchedulerAction and the time limit: an action r goes on, or ends.
LEMMA AdvanceStep ==
  ASSUME SchedulerInv, NEW r, ActionInv(r, finished), runtime' = r,
         manual' \subseteq Workers, evicted' \subseteq Workers,
         UNCHANGED <<desired, actions, row, op, finished, job, node, observed>>
  PROVE  SchedulerInv'
<1>1. ControllerInv'
  BY DEF SchedulerInv, ControllerInv
<1>2. NodesInv'
  BY NodesStep DEF SchedulerInv, NodesInv
<1> QED BY <1>1, <1>2 DEF SchedulerInv

\* AdvanceVerified and AdvanceGivesUp end the action, AdvanceWaits,
\* AdvancePlansRollback and VerificationTimeout go on with it.
LEMMA AdvanceInv ==
  ASSUME SchedulerInv,
         \/ AdvanceVerified \/ AdvanceGivesUp \/ AdvanceWaits
         \/ AdvancePlansRollback \/ VerificationTimeout
  PROVE  SchedulerInv'
<1>0. /\ SchedulerSound /\ finished \in Nat /\ manual \subseteq Workers
      /\ evicted \subseteq Workers /\ ActionInv(runtime, finished)
  BY DEF SchedulerInv, ControllerInv
<1>1. runtime \in Runtimes /\ runtime.phase # "none" /\ runtime.worker \in Workers
  BY <1>0 DEF ActionInv, AdvanceVerified, AdvanceGivesUp,
     AdvanceWaits, AdvancePlansRollback, VerificationTimeout,
     CanAdvance
<1>2. ASSUME NEW p \in Phases, NEW k \in 0..StableSamples, NEW o \in BOOLEAN,
             runtime' = [runtime EXCEPT !.phase = p, !.samples = k, !.overdue = o]
      PROVE  ActionInv(runtime', finished)
  <2>1. /\ runtime' \in Runtimes /\ runtime'.worker = runtime.worker
        /\ runtime'.source = runtime.source /\ runtime'.target = runtime.target
        /\ runtime'.edition = runtime.edition
    BY <1>1, <1>2 DEF Runtimes
  <2> QED BY <1>0, <1>1, <2>1 DEF ActionInv
<1>3. CASE AdvanceVerified \/ AdvanceGivesUp
  <2>1. /\ runtime' = NoRuntime
        /\ manual' \subseteq Workers /\ evicted' \subseteq Workers
        /\ UNCHANGED <<desired, actions, row, op, finished, job, node, observed>>
    BY <1>0, <1>1, <1>3
       DEF AdvanceVerified, AdvanceGivesUp, nodeVars
  <2> QED BY <1>0, <2>1, AdvanceStep, EmptyValues
<1>4. CASE AdvanceWaits
  <2>1. PICK k \in 0..StableSamples : k = IF Converged THEN runtime.samples + 1 ELSE 0
    BY <1>0, <1>1, <1>4 DEF AdvanceWaits, Stable, SchedulerSound, Runtimes
  <2>2. runtime' = [runtime EXCEPT !.samples = k]
    BY <1>4, <2>1 DEF AdvanceWaits
  <2>3. PICK p \in Phases, o \in BOOLEAN : p = runtime.phase /\ o = runtime.overdue
    BY <1>1 DEF Runtimes
  <2>4. runtime' = [runtime EXCEPT !.phase = p, !.samples = k, !.overdue = o]
    BY <1>1, <2>2, <2>3 DEF Runtimes
  <2>5. ActionInv(runtime', finished)
    BY <1>2, <2>4
  <2>6. UNCHANGED <<desired, actions, manual, evicted, row, op, finished, job, node,
                    observed>>
    BY <1>4 DEF AdvanceWaits, nodeVars
  <2> QED BY <1>0, <2>5, <2>6, AdvanceStep
<1>5. CASE AdvancePlansRollback
  <2>1. runtime' = [runtime EXCEPT !.phase = "rollback-planned", !.samples = 0,
                                   !.overdue = FALSE]
    BY <1>5 DEF AdvancePlansRollback
  <2>2. "rollback-planned" \in Phases /\ 0 \in 0..StableSamples
    BY <1>0 DEF Phases, SchedulerSound
  <2>3. ActionInv(runtime', finished)
    BY <1>2, <2>1, <2>2
  <2>4. /\ manual' \subseteq Workers /\ evicted' \subseteq Workers
        /\ UNCHANGED <<desired, actions, row, op, finished, job, node, observed>>
    BY <1>0, <1>5 DEF AdvancePlansRollback, nodeVars
  <2> QED BY <2>3, <2>4, AdvanceStep
<1>6. CASE VerificationTimeout
  <2>1. runtime' = [runtime EXCEPT !.overdue = TRUE]
    BY <1>6 DEF VerificationTimeout
  <2>2. PICK p \in Phases, k \in 0..StableSamples :
          p = runtime.phase /\ k = runtime.samples
    BY <1>1 DEF Runtimes
  <2>3. runtime' = [runtime EXCEPT !.phase = p, !.samples = k, !.overdue = TRUE]
    BY <1>1, <2>1, <2>2 DEF Runtimes
  <2>4. ActionInv(runtime', finished)
    BY <1>2, <2>3
  <2>5. UNCHANGED <<desired, actions, manual, evicted, row, op, finished, job, node,
                    observed>>
    BY <1>6 DEF VerificationTimeout, nodeVars
  <2> QED BY <1>0, <2>4, <2>5, AdvanceStep
<1> QED BY <1>3, <1>4, <1>5, <1>6

\* A rollback goes back to the state the action remembers.
LEMMA RollbackInv ==
  ASSUME SchedulerInv, RollbackReplace
  PROVE  SchedulerInv'
<1>0. /\ ControllerInv /\ SchedulerSound /\ desired \in PlaneStates
      /\ actions \in RolloutActions /\ finished \in Nat /\ ActionInv(runtime, finished)
  BY DEF SchedulerInv, ControllerInv
<1>1. PICK g \in 1..MaxGeneration : g = desired.generation + 1
  BY <1>0 DEF RollbackReplace, PlaneStates, SchedulerSound
<1>2. runtime \in Runtimes /\ runtime.phase # "none" /\ runtime.edition >= finished
  BY <1>0 DEF RollbackReplace, ActionInv
<1>3. PICK p \in Places : p = runtime.previous
  BY <1>2 DEF Runtimes
<1>4. PICK e \in Nat : e = runtime.edition
  BY <1>2 DEF Runtimes
<1>5. PICK s : s = [generation |-> g, place |-> p, iteration |-> 0, edition |-> e]
  OBVIOUS
<1>6. s \in PlaneStates /\ s.edition >= finished
  <2>1. 0 \in 0..MaxIterations
    BY <1>0 DEF SchedulerSound
  <2> QED BY <1>2, <1>4, <1>5, <2>1 DEF PlaneStates
<1>7. PICK i \in Nat : i = NextId
  BY <1>0 DEF RolloutActions, NextId
<1>8. PICK r : r = [runtime EXCEPT !.phase = "rollback-applied", !.generation = g,
                                   !.samples = 0, !.rollbacks = 1, !.overdue = FALSE]
  OBVIOUS
<1>9. ActionInv(r, finished)
  <2>1. "rollback-applied" \in Phases /\ g \in Nat /\ 0 \in 0..StableSamples
    BY <1>0 DEF Phases, SchedulerSound
  <2>2. PICK x : x = [runtime EXCEPT !.phase = "rollback-applied", !.generation = g,
                                     !.samples = 0]
    OBVIOUS
  <2>3. /\ x \in Runtimes /\ x.worker = runtime.worker /\ x.source = runtime.source
        /\ x.target = runtime.target /\ x.edition = runtime.edition
    BY <1>2, <2>1, <2>2 DEF Runtimes
  <2>4. PICK y : y = [x EXCEPT !.rollbacks = 1, !.overdue = FALSE]
    OBVIOUS
  <2>5. /\ y \in Runtimes /\ y.worker = runtime.worker /\ y.source = runtime.source
        /\ y.target = runtime.target /\ y.edition = runtime.edition
    <3>1. 1 \in 0..1 /\ FALSE \in BOOLEAN
      OBVIOUS
    <3>2. PICK z : z = [x EXCEPT !.rollbacks = 1]
      OBVIOUS
    <3>3. /\ z \in Runtimes /\ z.worker = runtime.worker /\ z.source = runtime.source
          /\ z.target = runtime.target /\ z.edition = runtime.edition
      BY <2>3, <3>1, <3>2 DEF Runtimes
    <3>4. y = [z EXCEPT !.overdue = FALSE]
      BY <2>3, <2>4, <3>2 DEF Runtimes
    <3> QED BY <3>1, <3>3, <3>4 DEF Runtimes
  <2>6. r = y
    BY <1>2, <1>8, <2>2, <2>4 DEF Runtimes
  <2> QED BY <1>0, <1>2, <2>5, <2>6 DEF ActionInv
<1>10. PICK report \in Report(p, g, i) :
         op' = [cmd |-> "rollback", actions |-> report, runtime |-> r]
  BY <1>1, <1>3, <1>7, <1>8 DEF RollbackReplace
<1>11. op'.runtime = r /\ op'.actions \in RolloutActions
  <2>1. g \in Nat
    BY <1>0 DEF SchedulerSound
  <2> QED BY <1>0, <1>10, <2>1, ReportIsActions
<1>12. /\ desired' = s
       /\ UNCHANGED <<actions, runtime, manual, evicted, row, finished, job, node, observed>>
  BY <1>1, <1>3, <1>4, <1>5 DEF RollbackReplace, nodeVars
<1> QED BY <1>6, <1>9, <1>11, <1>12, ReplaceStep

\* ApplyReadyRolloutAction
LEMMA RetryInv ==
  ASSUME SchedulerInv, RetryReplace
  PROVE  SchedulerInv'
<1>0. /\ ControllerInv /\ SchedulerSound /\ desired \in PlaneStates
      /\ actions \in RolloutActions /\ finished \in Nat
  BY DEF SchedulerInv, ControllerInv
<1>1. PICK g \in 1..MaxGeneration : g = desired.generation + 1
  BY <1>0 DEF RetryReplace, PlaneStates, SchedulerSound
<1>2. PICK p : p = [w \in Workers |-> IF w \in actions.victims THEN Gone
                                      ELSE IF w = actions.worker THEN actions.target
                                      ELSE desired.place[w]]
  OBVIOUS
<1>3. p \in Places
  BY <1>0, <1>2 DEF Places, PlaneStates, RolloutActions
<1>4. PICK s : s = [desired EXCEPT !.generation = g, !.place = p, !.iteration = 0]
  OBVIOUS
<1>5. s \in PlaneStates /\ s.edition >= finished
  <2>1. 0 \in 0..MaxIterations
    BY <1>0 DEF SchedulerSound
  <2> QED BY <1>0, <1>3, <1>4, <2>1 DEF PlaneStates, ControllerInv
<1>6. PICK i \in Nat : i = NextId
  BY <1>0 DEF RolloutActions, NextId
<1>7. PICK report \in Report(p, g, i) :
         op' = [cmd |-> "retry", actions |-> report, runtime |-> NoRuntime]
  BY <1>1, <1>2, <1>6 DEF RetryReplace
<1>8. op'.runtime = NoRuntime /\ op'.actions \in RolloutActions
  <2>1. g \in Nat
    BY <1>0 DEF SchedulerSound
  <2> QED BY <1>0, <1>3, <1>7, <2>1, ReportIsActions
<1>9. ActionInv(NoRuntime, finished)
  BY <1>0, EmptyValues
<1>10. /\ desired' = s
       /\ UNCHANGED <<actions, runtime, manual, evicted, row, finished, job, node, observed>>
  BY <1>0, <1>1, <1>2, <1>4 DEF RetryReplace, nodeVars, PlaneStates
<1> QED BY <1>5, <1>8, <1>9, <1>10, ReplaceStep

\* Rollout actions, cool-downs and deaths of the controller.
LEMMA RolloutInv ==
  ASSUME SchedulerInv,
         \/ EvictionEnqueued \/ EvictionReady
         \/ \E status \in StatusesOfAction : SetRolloutActionStatus(status)
         \/ CooldownEnds \/ ControllerCrash
  PROVE  SchedulerInv'
<1>0. /\ ControllerInv /\ NodesInv /\ SchedulerSound /\ desired \in PlaneStates
      /\ actions \in RolloutActions /\ finished \in Nat
  BY DEF SchedulerInv, ControllerInv
<1>1. ASSUME actions' \in RolloutActions, evicted' \subseteq Workers,
             row' \in [Nodes -> PlaneRows],
             UNCHANGED <<desired, runtime, manual, op, finished, job, node, observed>>
      PROVE  SchedulerInv'
  <2>1. ControllerInv'
    BY <1>0, <1>1 DEF ControllerInv
  <2>2. NodesInv'
    BY <1>0, <1>1, NodesStep
  <2> QED BY <2>1, <2>2 DEF SchedulerInv
<1>2. CASE EvictionEnqueued
  <2>1. actions' \in RolloutActions
    <3>1. "acknowledged" \in StatusesOfAction
      BY DEF StatusesOfAction
    <3> QED BY <1>0, <1>2, <3>1 DEF EvictionEnqueued, RolloutActions
  <2>2. row' \in [Nodes -> PlaneRows]
    <3>1. PICK g \in Nat : g = desired.generation
      BY <1>0 DEF PlaneStates, SchedulerSound
    <3>2. PICK W \in SUBSET Workers :
            W = On(desired.place, actions.target) \ actions.victims
      BY DEF On
    <3>3. PICK V \in SUBSET Workers : V = actions.victims
      BY <1>0 DEF RolloutActions
    <3>4. PICK i \in Nat : i = actions.id
      BY <1>0 DEF RolloutActions
    <3>5. PICK x \in PlaneRows : x = NoRow
      BY <1>0, EmptyValues
    <3>6. PICK y : y = [x EXCEPT !.type = "evict-workers", !.generation = g, !.workers = W,
                                 !.status = "pending", !.tag = i, !.victims = V]
      OBVIOUS
    <3>7. y \in PlaneRows
      BY <3>6 DEF PlaneRows, RowStates
    <3>8. row' = [row EXCEPT ![actions.target] = y]
      BY <1>2, <3>1, <3>2, <3>3, <3>4, <3>5, <3>6
         DEF EvictionEnqueued, EnqueueEviction
    <3> QED BY <1>0, <3>7, <3>8 DEF NodesInv
  <2>3. UNCHANGED <<desired, runtime, manual, evicted, op, finished, job, node, observed>>
    BY <1>2 DEF EvictionEnqueued, nodeVars
  <2> QED BY <1>0, <1>1, <2>1, <2>2, <2>3 DEF ControllerInv
<1>3. CASE EvictionReady
  <2>1. actions' \in RolloutActions
    <3>1. "ready-to-retry" \in StatusesOfAction
      BY DEF StatusesOfAction
    <3> QED BY <1>0, <1>3, <3>1 DEF EvictionReady, RolloutActions
  <2>2. evicted' \subseteq Workers
    BY <1>0, <1>3 DEF EvictionReady, RolloutActions, ControllerInv
  <2>3. UNCHANGED <<desired, runtime, manual, op, finished, row, job, node, observed>>
    BY <1>3 DEF EvictionReady, nodeVars
  <2> QED BY <1>0, <1>1, <2>1, <2>2, <2>3 DEF NodesInv
<1>4. CASE \E status \in StatusesOfAction : SetRolloutActionStatus(status)
  <2>1. PICK status \in StatusesOfAction : SetRolloutActionStatus(status)
    BY <1>4
  <2>2. actions' \in RolloutActions
    BY <1>0, <2>1 DEF SetRolloutActionStatus, RolloutActions
  <2>3. UNCHANGED <<desired, runtime, manual, evicted, op, finished, row, job, node,
                    observed>>
    BY <2>1 DEF SetRolloutActionStatus, nodeVars
  <2> QED BY <1>0, <1>1, <2>2, <2>3 DEF NodesInv, ControllerInv
<1>5. CASE CooldownEnds
  <2>1. UNCHANGED <<desired, actions, runtime, manual, evicted, op, finished, row, job,
                    node, observed>>
    BY <1>5 DEF CooldownEnds, nodeVars
  <2> QED BY <1>0, <1>1, <2>1 DEF NodesInv, ControllerInv
<1>6. CASE ControllerCrash
  <2>1. /\ op'.runtime = NoRuntime /\ op'.actions = NoActions
        /\ UNCHANGED <<desired, actions, runtime, manual, evicted, finished, row, job, node,
                       observed>>
    BY <1>6 DEF ControllerCrash, nodeVars, Idle
  <2>2. ActionInv(NoRuntime, finished) /\ NoActions \in RolloutActions
    BY <1>0, EmptyValues
  <2>3. desired.edition >= finished
    BY <1>0 DEF ControllerInv
  <2> QED BY <1>0, <2>1, <2>2, <2>3, ReplaceStep
<1> QED BY <1>2, <1>3, <1>4, <1>5, <1>6

\* Rows and jobs of one node change, nodes and observations do not.
LEMMA RowStep ==
  ASSUME NodesInv, NEW n \in Nodes, NEW x \in PlaneRows, NEW y \in PlaneRows,
         row' = [row EXCEPT ![n] = x], job' = [job EXCEPT ![n] = y],
         UNCHANGED <<node, observed>>
  PROVE  NodesInv'
BY DEF NodesInv

\* A claim marks the row and copies it.
LEMMA ClaimInv ==
  ASSUME SchedulerInv, NEW n \in Nodes, Claim(n)
  PROVE  SchedulerInv'
<1>0. /\ ControllerInv /\ NodesInv /\ SchedulerSound /\ row \in [Nodes -> PlaneRows]
      /\ job \in [Nodes -> PlaneRows] /\ row[n] \in PlaneRows
  BY DEF SchedulerInv, ControllerInv, NodesInv
<1>1. PICK k \in 0..MaxAttempts : k = row[n].attempts + 1
  BY <1>0 DEF Claim, PlaneRows, SchedulerSound
<1>2. PICK x : x = [row[n] EXCEPT !.status = "claimed", !.attempts = k, !.tag = 0]
  OBVIOUS
<1>3. PICK y : y = [row[n] EXCEPT !.attempts = k, !.status = "claimed"]
  OBVIOUS
<1>4. x \in PlaneRows /\ y \in PlaneRows
  BY <1>0, <1>2, <1>3 DEF PlaneRows, RowStates
<1>5. row' = [row EXCEPT ![n] = x] /\ job' = [job EXCEPT ![n] = y]
  BY <1>0, <1>1, <1>2, <1>3 DEF Claim, PlaneRows
<1>6. UNCHANGED <<desired, actions, runtime, manual, evicted, op, finished, node,
                  observed>>
  BY DEF Claim
<1>7. NodesInv'
  BY <1>0, <1>4, <1>5, <1>6, RowStep
<1> QED BY <1>0, <1>6, <1>7, ControllerStep DEF SchedulerInv

\* An applied slice never takes a node back to an older generation.
LEMMA ExecuteInv ==
  ASSUME SchedulerInv, NEW n \in Nodes, Execute(n)
  PROVE  SchedulerInv'
<1>0. /\ ControllerInv /\ NodesInv /\ SchedulerSound /\ row \in [Nodes -> PlaneRows]
      /\ job \in [Nodes -> PlaneRows] /\ job[n] \in PlaneRows
      /\ node \in [Nodes -> NodeStates] /\ node[n] \in NodeStates
  BY DEF SchedulerInv, ControllerInv, NodesInv
<1>1. PICK y : y = [job[n] EXCEPT !.status = "executed"]
  OBVIOUS
<1>2. y \in PlaneRows /\ job' = [job EXCEPT ![n] = y]
  <2>1. y \in PlaneRows
    BY <1>0, <1>1 DEF PlaneRows, RowStates
  <2> QED BY <1>0, <1>1, <2>1 DEF Execute
<1>3. PICK g \in Nat : g = IF node[n].generation > job[n].generation
                           THEN node[n].generation ELSE job[n].generation
  BY <1>0 DEF PlaneRows, NodeStates
<1>4. PICK slow \in SUBSET (job[n].victims \cap node[n].workers) :
        node' = [node EXCEPT ![n] = [workers |-> job[n].workers \cup slow, generation |-> g]]
  BY <1>0, <1>3 DEF Execute
<1>5. PICK W \in SUBSET Workers : W = job[n].workers \cup slow
  BY <1>0, <1>4 DEF PlaneRows
<1>6. PICK z : z = [workers |-> W, generation |-> g]
  OBVIOUS
<1>7. z \in NodeStates /\ z.generation = g /\ g >= node[n].generation
  BY <1>0, <1>3, <1>5, <1>6 DEF NodeStates, PlaneRows
<1>8. node' = [node EXCEPT ![n] = z]
  BY <1>4, <1>5, <1>6
<1>9. UNCHANGED <<desired, actions, runtime, manual, evicted, op, finished, row,
                  observed>>
  BY DEF Execute
<1>10. \A m \in Nodes : observed[m].generation <= node'[m].generation
  <2> SUFFICES ASSUME NEW m \in Nodes
               PROVE  observed[m].generation <= node'[m].generation
    OBVIOUS
  <2>1. CASE m = n
    <3>1. node'[m] = z
      BY <1>0, <1>8, <2>1
    <3>2. observed[n].generation <= node[n].generation /\ observed[n].generation \in Nat
          /\ node[n].generation \in Nat
      BY <1>0 DEF NodesInv, NodeStates
    <3> QED BY <1>7, <2>1, <3>1, <3>2
  <2>2. CASE m # n
    BY <1>0, <1>8, <2>2 DEF NodesInv
  <2> QED BY <2>1, <2>2
<1>11. NodesInv'
  <2>1. node' \in [Nodes -> NodeStates] /\ job' \in [Nodes -> PlaneRows]
    BY <1>0, <1>2, <1>7, <1>8
  <2> QED BY <1>0, <1>9, <1>10, <2>1 DEF NodesInv
<1> QED BY <1>0, <1>9, <1>11, ControllerStep DEF SchedulerInv

\* The report of a job changes its row only when that is still the claimed one.
LEMMA ReportedRow ==
  ASSUME NodesInv, SchedulerSound, NEW n \in Nodes, NEW status \in RowStates, NEW tag \in Nat,
         Report1(n, status, tag, TRUE)
  PROVE  \E x \in PlaneRows : row' = [row EXCEPT ![n] = x]
<1>0. row \in [Nodes -> PlaneRows] /\ row[n] \in PlaneRows
  BY DEF NodesInv
<1>1. CASE row' = row
  <2>1. row' = [row EXCEPT ![n] = row[n]]
    BY <1>0, <1>1
  <2> QED BY <1>0, <2>1
<1>2. CASE row' # row
  <2>1. PICK b \in BOOLEAN : b = (TRUE /\ tag # 0)
    OBVIOUS
  <2>2. PICK x : x = [row[n] EXCEPT !.status = status, !.tag = tag, !.garbled = b]
    OBVIOUS
  <2>3. x \in PlaneRows
    BY <1>0, <2>2 DEF PlaneRows
  <2>4. row' = [row EXCEPT ![n].status = status, ![n].tag = tag, ![n].garbled = b]
    BY <1>2, <2>1 DEF Report1
  <2>5. row' = [row EXCEPT ![n] = x]
    BY <1>0, <2>2, <2>4
  <2> QED BY <2>3, <2>5
<1> QED BY <1>1, <1>2

\* A node that observes itself reports the generation it has applied.
LEMMA ObservedStep ==
  ASSUME NodesInv, NEW n \in Nodes, row' \in [Nodes -> PlaneRows],
         job' \in [Nodes -> PlaneRows], node' = node,
         observed' \in {observed, [observed EXCEPT ![n] = node[n]]}
  PROVE  NodesInv'
<1>0. /\ node \in [Nodes -> NodeStates] /\ observed \in [Nodes -> NodeStates]
      /\ node[n] \in NodeStates /\ node[n].generation \in Nat
  BY DEF NodesInv, NodeStates
<1>1. observed' \in [Nodes -> NodeStates]
  BY <1>0
<1>2. \A m \in Nodes : observed'[m] = observed[m] \/ observed'[m] = node[m]
  BY <1>0
<1>3. \A m \in Nodes : node[m].generation \in Nat
  BY <1>0 DEF NodeStates
<1>4. \A m \in Nodes : observed'[m].generation <= node[m].generation
  BY <1>2, <1>3 DEF NodesInv
<1> QED BY <1>0, <1>1, <1>4 DEF NodesInv

\* The end of a job: applied, failed, or lost with its hostd.
LEMMA JobEndsInv ==
  ASSUME SchedulerInv, NEW n \in Nodes,
         JobApplied(n) \/ JobFails(n) \/ Killed(n)
  PROVE  SchedulerInv'
<1>0. /\ ControllerInv /\ NodesInv /\ SchedulerSound /\ row \in [Nodes -> PlaneRows]
      /\ job \in [Nodes -> PlaneRows] /\ job[n] \in PlaneRows /\ row[n] \in PlaneRows
  BY DEF SchedulerInv, ControllerInv, NodesInv
<1>1. job[n].tag \in Nat
  BY <1>0 DEF PlaneRows
<1>2. job' = [job EXCEPT ![n] = NoRow] /\ node' = node
  BY DEF JobApplied, JobFails, Killed
<1>3. job' \in [Nodes -> PlaneRows]
  BY <1>0, <1>2, EmptyValues
<1>4. observed' \in {observed, [observed EXCEPT ![n] = node[n]]}
  BY DEF JobApplied, JobFails, Killed
<1>5. UNCHANGED <<desired, actions, runtime, manual, evicted, op, finished>>
  BY DEF JobApplied, JobFails, Killed
<1>6. "applied" \in RowStates /\ "pending" \in RowStates /\ "failed" \in RowStates
  BY DEF RowStates
<1>7. row' \in [Nodes -> PlaneRows]
  <2>1. CASE JobApplied(n)
    <3>1. Report1(n, "applied", job[n].tag, TRUE)
      BY <2>1 DEF JobApplied
    <3>2. \E x \in PlaneRows : row' = [row EXCEPT ![n] = x]
      BY <1>0, <1>1, <1>6, <3>1, ReportedRow
    <3> QED BY <1>0, <3>2
  <2>2. CASE JobFails(n)
    <3>1. PICK status \in RowStates :
            status = IF job[n].attempts < MaxAttempts THEN "pending" ELSE "failed"
      BY <1>6
    <3>2. Report1(n, status, job[n].tag, TRUE)
      BY <2>2, <3>1 DEF JobFails
    <3>3. \E x \in PlaneRows : row' = [row EXCEPT ![n] = x]
      BY <1>0, <1>1, <3>2, ReportedRow
    <3> QED BY <1>0, <3>3
  <2>3. CASE Killed(n)
    <3>1. PICK status \in RowStates :
            status = IF row[n].attempts >= MaxAttempts THEN "failed" ELSE "pending"
      BY <1>6
    <3>2. PICK x : x = [row[n] EXCEPT !.status = status, !.tag = 0]
      OBVIOUS
    <3>3. x \in PlaneRows
      BY <1>0, <3>2 DEF PlaneRows
    <3>4. row' = row \/ row' = [row EXCEPT ![n] = x]
      BY <1>0, <2>3, <3>1, <3>2 DEF Killed
    <3> QED BY <1>0, <3>3, <3>4
  <2> QED BY <2>1, <2>2, <2>3
<1>8. NodesInv'
  BY <1>0, <1>2, <1>3, <1>4, <1>7, ObservedStep
<1> QED BY <1>0, <1>5, <1>8, ControllerStep DEF SchedulerInv

\* A container stops late, or a heartbeat reports what runs.
LEMMA NodeReportsInv ==
  ASSUME SchedulerInv, NEW n \in Nodes,
         SlowWorkerStops(n) \/ Heartbeat(n)
  PROVE  SchedulerInv'
<1>0. /\ ControllerInv /\ NodesInv /\ row \in [Nodes -> PlaneRows]
      /\ job \in [Nodes -> PlaneRows] /\ node \in [Nodes -> NodeStates]
      /\ node[n] \in NodeStates
  BY DEF SchedulerInv, NodesInv
<1>1. UNCHANGED <<desired, actions, runtime, manual, evicted, op, finished, row, job>>
  BY DEF SlowWorkerStops, Heartbeat
<1>2. CASE SlowWorkerStops(n)
  <2>1. PICK w \in node[n].workers : node' = [node EXCEPT ![n].workers = @ \ {w}]
    BY <1>2 DEF SlowWorkerStops
  <2>2. PICK z : z = [node[n] EXCEPT !.workers = node[n].workers \ {w}]
    OBVIOUS
  <2>3. z \in NodeStates /\ z.generation = node[n].generation
    BY <1>0, <2>2 DEF NodeStates
  <2>4. node' = [node EXCEPT ![n] = z]
    BY <1>0, <2>1, <2>2
  <2>5. /\ node' \in [Nodes -> NodeStates]
        /\ \A m \in Nodes : node'[m].generation = node[m].generation
    BY <1>0, <2>3, <2>4
  <2>6. observed' = observed
    BY <1>2 DEF SlowWorkerStops
  <2>7. NodesInv'
    BY <1>0, <1>1, <2>5, <2>6 DEF NodesInv
  <2> QED BY <1>0, <1>1, <2>7, ControllerStep DEF SchedulerInv
<1>3. CASE Heartbeat(n)
  <2>1. node' = node /\ observed' \in {observed, [observed EXCEPT ![n] = node[n]]}
    BY <1>3 DEF Heartbeat
  <2>2. NodesInv'
    BY <1>0, <1>1, <2>1, ObservedStep
  <2> QED BY <1>0, <1>1, <2>2, ControllerStep DEF SchedulerInv
<1> QED BY <1>2, <1>3

\* Every step of the scheduler keeps its invariant.
LEMMA SchedulerNext ==
  ASSUME SchedulerInv, [Next]_(vars)
  PROVE  SchedulerInv'
<1>1. CASE UNCHANGED vars
  <2>1. UNCHANGED <<desired, actions, runtime, manual, evicted, op, finished, row, job,
                    node, observed>>
    BY <1>1 DEF vars
  <2>2. ControllerInv' /\ NodesInv'
    BY <2>1, ControllerStep DEF SchedulerInv, NodesInv
  <2> QED BY <2>2 DEF SchedulerInv
<1>2. ASSUME NEW place \in [Workers -> Nodes], UpdateReplace(place)
      PROVE  SchedulerInv'
  BY <1>2, UpdateReplaceInv
<1>3. CASE UpdateFinish \/ StartPlane
  BY <1>3, UpdateFinishInv, StartPlaneInv
<1>4. ASSUME NEW w \in Workers, NEW m \in Nodes, NEW gated \in BOOLEAN,
             RebalanceReplace(w, m, gated)
      PROVE  SchedulerInv'
  BY <1>4, RebalanceInv
<1>5. CASE RebalanceFinish \/ RollbackFinish \/ RetryFinish
  BY <1>5, MaterializeInv
     DEF RebalanceFinish, RollbackFinish, RetryFinish
<1>6. CASE \/ AdvanceVerified \/ AdvanceGivesUp \/ AdvanceWaits
           \/ AdvancePlansRollback \/ VerificationTimeout
  BY <1>6, AdvanceInv
<1>7. CASE RollbackReplace \/ RetryReplace
  BY <1>7, RollbackInv, RetryInv
<1>8. CASE \/ EvictionEnqueued \/ EvictionReady
           \/ \E status \in StatusesOfAction \ {"none"} :
                SetRolloutActionStatus(status)
           \/ CooldownEnds \/ ControllerCrash
  BY <1>8, RolloutInv
<1>9. ASSUME NEW n \in Nodes,
             \/ Claim(n) \/ Execute(n) \/ JobApplied(n)
             \/ JobFails(n) \/ Killed(n)
             \/ SlowWorkerStops(n) \/ Heartbeat(n)
      PROVE  SchedulerInv'
  BY <1>9, ClaimInv, ExecuteInv, JobEndsInv, NodeReportsInv
<1> QED BY <1>1, <1>2, <1>3, <1>4, <1>5, <1>6, <1>7, <1>8, <1>9 DEF Next

\* A plane starts with its first generation assigned to every node.
LEMMA SchedulerStarts ==
  ASSUME Init, SchedulerSound
  PROVE  SchedulerInv
<1>1. PICK place \in [Workers -> Nodes] :
        desired = [generation |-> 1, place |-> place, iteration |-> 0, edition |-> 0]
  BY DEF Init
<1>2. place \in Places /\ desired.place = place
  BY <1>1 DEF Places
<1>3. desired \in PlaneStates /\ desired.edition = 0
  <2>1. 1 \in 1..MaxGeneration /\ 0 \in 0..MaxIterations /\ 0 \in Nat
    BY DEF SchedulerSound
  <2> QED BY <1>1, <1>2, <2>1 DEF PlaneStates
<1>4. actions \in RolloutActions
  BY <1>2, ReportIsActions DEF Init
<1>5. /\ finished = 0 /\ manual = {} /\ evicted = {}
      /\ runtime = NoRuntime /\ op.runtime = NoRuntime
      /\ op.actions = NoActions
  BY DEF Init, Idle
<1>6. ControllerInv
  BY <1>3, <1>4, <1>5, EmptyValues DEF ControllerInv
<1>7. row \in [Nodes -> PlaneRows]
  BY <1>2, StartRow DEF Init
<1>8. job \in [Nodes -> PlaneRows]
  BY EmptyValues DEF Init
<1>9. /\ node \in [Nodes -> NodeStates] /\ observed \in [Nodes -> NodeStates]
      /\ \A n \in Nodes : node[n].generation = 0 /\ observed[n].generation = 0
  BY DEF Init, NodeStates
<1>10. NodesInv
  BY <1>7, <1>8, <1>9 DEF NodesInv
<1> QED BY <1>6, <1>10 DEF SchedulerInv

\* The invariant of the scheduler holds in every behaviour.
LEMMA SchedulerInvariance ==
  ASSUME SchedulerSound
  PROVE  Spec => []SchedulerInv
<1>1. Init => SchedulerInv
  BY SchedulerStarts
<1>2. SchedulerInv /\ [Next]_(vars) => SchedulerInv'
  BY SchedulerNext
<1> QED BY <1>1, <1>2, PTL DEF Spec

\* Desired state, rollout actions, plane runtime, rows and nodes keep their types,
\* whatever an operator does by hand: the verification never counts more samples
\* than it needs, a row is never claimed more than max_attempts times, and no
\* observation is ahead of its node.
THEOREM TypeCorrect ==
  ASSUME SchedulerSound
  PROVE  Spec => []TypeOK
<1>1. ASSUME SchedulerInv PROVE TypeOK
  <2>1. /\ desired \in PlaneStates /\ actions \in RolloutActions /\ runtime \in Runtimes
        /\ manual \subseteq Workers /\ evicted \subseteq Workers
    BY <1>1 DEF SchedulerInv, ControllerInv, ActionInv
  <2>2. \A n \in Nodes : /\ row[n] \in PlaneRows /\ node[n] \in NodeStates
                         /\ observed[n].generation <= node[n].generation
    BY <1>1 DEF SchedulerInv, NodesInv
  <2>3. \A n \in Nodes : node[n].workers \subseteq Workers /\ row[n].attempts \in 0..MaxAttempts
    BY <2>2 DEF PlaneRows, NodeStates
  <2> QED BY <2>1, <2>2, <2>3 DEF TypeOK, PlaneStates, RolloutActions, Runtimes
<1> QED BY <1>1, SchedulerInvariance, PTL

\* No rollback of AdvanceActiveSchedulerAction goes back past an update of the
\* operator whose command ran to its end, wherever the controller dies between
\* ReplaceDesiredState and the writes that go with it.
THEOREM FinishedUpdatesStay ==
  ASSUME SchedulerSound
  PROVE  Spec => []FinishedUpdateStays
<1>1. ASSUME SchedulerInv PROVE FinishedUpdateStays
  BY <1>1 DEF SchedulerInv, ControllerInv, FinishedUpdateStays
<1> QED BY <1>1, SchedulerInvariance, PTL

-----------------------------------------------------------------------------
(* Moves through the controller's gate, in a plane without evictions.       *)

\* The hypothesis: the policy never asks for an eviction.
NoEvictions == "evict" \notin Commands

\* What a row, a job, a node or an observation x of node n has of the desired state:
\* of the present generation, the workers placed on n.
Fit(x, n) ==
  /\ x.generation <= desired.generation
  /\ x.generation = desired.generation => x.workers = On(desired.place, n)

\* No eviction is planned or retried.
EvictFree ==
  actions.evict = "none" /\ op.actions.evict = "none" /\ op.cmd # "retry"

\* Node n, its row and its job: while a job runs the row is live, and generations
\* only grow from the node to the job to the row.
NodeFits(n) ==
  /\ row[n].victims = {} /\ job[n].victims = {}
  /\ job[n] # NoRow =>
       /\ Live(n)
       /\ job[n].generation <= row[n].generation
       /\ node[n].generation <= job[n].generation
  /\ node[n].generation <= row[n].generation
  /\ Fit(row[n], n) /\ Fit(job[n], n) /\ Fit(node[n], n) /\ Fit(observed[n], n)

\* Scheduler action r verifies a gated move that no update overtook.
Gated(r) == r.phase = "verifying-move" /\ r.gated /\ r.edition = desired.edition

\* The worker of such a move is to leave its source; what still runs there has been
\* observed there.
GateInv(r) ==
  /\ r.phase = "verifying-move" => r.edition <= desired.edition
  /\ Gated(r) =>
       /\ r.source # r.target /\ desired.place[r.worker] = r.target
       /\ r.worker \in node[r.source].workers => r.worker \in observed[r.source].workers

\* Before its rows are written no node has anything to do, afterwards no row and no
\* job brings the worker back.
RowsInv ==
  /\ op.cmd = "idle" => op.runtime.phase = "none"
  /\ Gated(op.runtime) => \A n \in Nodes : ~Live(n)
  /\ Gated(runtime) => /\ runtime.worker \notin row[runtime.source].workers
                       /\ runtime.worker \notin job[runtime.source].workers

\* The inductive invariant of gated moves, on top of SchedulerInv.
MoveInv ==
  /\ EvictFree /\ \A n \in Nodes : NodeFits(n)
  /\ GateInv(runtime) /\ GateInv(op.runtime) /\ RowsInv

\* Without evictions the policy reports no rollout actions.
LEMMA NothingReported ==
  ASSUME NoEvictions, NEW place, NEW g, NEW id, NEW r \in Report(place, g, id)
  PROVE  r.evict = "none"
BY DEF NoEvictions, Report, NoActions

\* The empty values again.
LEMMA NothingGated ==
  /\ NoRuntime.phase = "none" /\ NoActions.evict = "none"
  /\ NoRow.generation = 0 /\ NoRow.victims = {}
  /\ NoRow.workers = {}
<1>1. NoActions.evict = "none"
  BY DEF NoActions
<1>2. /\ NoRow.generation = 0 /\ NoRow.victims = {}
      /\ NoRow.workers = {}
  BY DEF NoRow
<1>3. NoRuntime.phase = "none"
  <2>1. PICK p : p = [w \in Workers |-> Gone]
    OBVIOUS
  <2> QED BY <2>1 DEF NoRuntime
<1> QED BY <1>1, <1>2, <1>3

\* The generations of a node are numbers.
LEMMA Generations ==
  ASSUME SchedulerInv, NEW n \in Nodes
  PROVE  /\ row[n].generation \in Nat /\ job[n].generation \in Nat
         /\ node[n].generation \in Nat /\ observed[n].generation \in Nat
         /\ desired.generation \in Nat /\ desired.generation >= 1
<1>1. /\ row[n] \in PlaneRows /\ job[n] \in PlaneRows /\ node[n] \in NodeStates
      /\ observed[n] \in NodeStates /\ desired \in PlaneStates /\ SchedulerSound
  BY DEF SchedulerInv, NodesInv, ControllerInv
<1> QED BY <1>1 DEF PlaneRows, NodeStates, PlaneStates, SchedulerSound

\* A new desired state is newer than everything the nodes have.
LEMMA NewGeneration ==
  ASSUME SchedulerInv, MoveInv, desired'.generation = desired.generation + 1,
         UNCHANGED <<row, job, node, observed>>
  PROVE  \A n \in Nodes : NodeFits(n)'
<1> SUFFICES ASSUME NEW n \in Nodes PROVE NodeFits(n)'
  OBVIOUS
<1>1. NodeFits(n)
  BY DEF MoveInv
<1>2. /\ row[n].generation \in Nat /\ job[n].generation \in Nat
      /\ node[n].generation \in Nat /\ observed[n].generation \in Nat
      /\ desired.generation \in Nat
  BY Generations
<1>3. /\ row[n].generation <= desired.generation /\ job[n].generation <= desired.generation
      /\ node[n].generation <= desired.generation
      /\ observed[n].generation <= desired.generation
  BY <1>1 DEF NodeFits, Fit
<1>4. Fit(row[n], n)' /\ Fit(job[n], n)' /\ Fit(node[n], n)' /\ Fit(observed[n], n)'
  BY <1>2, <1>3 DEF Fit
<1> QED BY <1>1, <1>4 DEF NodeFits, Live

\* New rows for the desired state.
LEMMA NewRows ==
  ASSUME SchedulerInv, MoveInv,
         ReplaceHostAssignments(desired.place, desired.generation),
         UNCHANGED <<desired, job, node, observed>>
  PROVE  /\ \A n \in Nodes : NodeFits(n)'
         /\ \A n \in Nodes : row'[n].workers = On(desired.place, n)
<1>1. SchedulerSound
  BY DEF SchedulerInv, ControllerInv
<1>2. PICK g \in Nat : g = desired.generation
  BY <1>1 DEF SchedulerInv, ControllerInv, PlaneStates, SchedulerSound
<1>3. \A n \in Nodes : /\ row'[n].workers = On(desired.place, n)
                       /\ row'[n].generation = g
                       /\ row'[n].status = "pending" /\ row'[n].victims = {}
  BY <1>1, <1>2, ReplacedRows
<1>4. ASSUME NEW n \in Nodes PROVE NodeFits(n)'
  <2>1. NodeFits(n)
    BY DEF MoveInv
  <2>2. Fit(job[n], n)' /\ Fit(node[n], n)' /\ Fit(observed[n], n)'
    BY <2>1 DEF NodeFits, Fit, On
  <2>3. Fit(row[n], n)'
    BY <1>2, <1>3 DEF Fit, On
  <2>4. Live(n)'
    BY <1>3 DEF Live
  <2>5. job'[n].generation <= row'[n].generation /\ node'[n].generation <= row'[n].generation
    BY <1>2, <1>3, <2>1 DEF NodeFits, Fit
  <2> QED BY <1>3, <2>1, <2>2, <2>3, <2>4, <2>5 DEF NodeFits
<1> QED BY <1>3, <1>4

\* ApplyDesiredState: the move that goes on is overtaken.
LEMMA UpdateMoves ==
  ASSUME SchedulerInv, MoveInv, NEW place \in [Workers -> Nodes],
         UpdateReplace(place)
  PROVE  MoveInv'
<1>1. /\ desired'.generation = desired.generation + 1
      /\ desired'.edition = desired.edition + 1
      /\ UNCHANGED <<actions, runtime, row, job, node, observed>>
  BY DEF UpdateReplace, nodeVars
<1>2. /\ op'.cmd = "update" /\ op'.runtime = NoRuntime
      /\ op'.actions = NoActions
  BY DEF UpdateReplace, Idle
<1>3. EvictFree'
  BY <1>1, <1>2, NothingGated DEF MoveInv, EvictFree
<1>4. \A n \in Nodes : NodeFits(n)'
  BY <1>1, NewGeneration
<1>5. runtime.edition \in Nat /\ desired.edition \in Nat
  BY DEF SchedulerInv, ControllerInv, ActionInv, Runtimes, PlaneStates
<1>6. GateInv(runtime)' /\ ~Gated(runtime)'
  <2>1. CASE runtime.phase = "verifying-move"
    <3>1. runtime.edition <= desired.edition
      BY <2>1 DEF MoveInv, GateInv
    <3>2. runtime.edition <= desired.edition + 1 /\ runtime.edition # desired.edition + 1
      BY <1>5, <3>1
    <3>3. ~Gated(runtime)'
      BY <1>1, <3>2 DEF Gated
    <3> QED BY <1>1, <3>2, <3>3 DEF GateInv
  <2>2. CASE runtime.phase # "verifying-move"
    BY <1>1, <2>2 DEF GateInv, Gated
  <2> QED BY <2>1, <2>2
<1>7. GateInv(op.runtime)' /\ ~Gated(op.runtime)'
  BY <1>2, NothingGated DEF GateInv, Gated
<1> QED BY <1>2, <1>3, <1>4, <1>6, <1>7, NothingGated DEF MoveInv, RowsInv

\* ApplyRebalanceProposal through the gate: every node has reported the present
\* generation, and has nothing to do.
LEMMA RebalanceMoves ==
  ASSUME SchedulerInv, MoveInv, NoEvictions, NEW w \in Workers, NEW m \in Nodes,
         NEW gated \in BOOLEAN, RebalanceReplace(w, m, gated)
  PROVE  MoveInv'
<1>0. /\ ControllerInv /\ SchedulerSound /\ desired \in PlaneStates
      /\ desired.place \in Places
  BY DEF SchedulerInv, ControllerInv, PlaneStates
<1>1. PICK g \in Nat : g = desired.generation + 1
  BY <1>0 DEF PlaneStates, SchedulerSound
<1>2. PICK p : p = [desired.place EXCEPT ![w] = m]
  OBVIOUS
<1>3. p[w] = m
  BY <1>0, <1>2 DEF Places
<1>4. PICK k \in Nat : k = desired.iteration + 1
  BY <1>0 DEF PlaneStates, SchedulerSound
<1>5. desired' = [desired EXCEPT !.generation = g, !.place = p, !.iteration = k]
  BY <1>0, <1>1, <1>2, <1>4 DEF RebalanceReplace, PlaneStates
<1>6. /\ desired'.generation = desired.generation + 1 /\ desired'.place = p
      /\ desired'.edition = desired.edition
  BY <1>0, <1>1, <1>5 DEF PlaneStates
<1>7. PICK n : n = desired.place[w]
  OBVIOUS
<1>8. /\ n # Gone /\ n # m /\ runtime.phase = "none"
      /\ gated => /\ \A x \in Nodes : ~Live(x)
                  /\ \A x \in Nodes : observed[x].generation = desired.generation
  BY <1>7 DEF RebalanceReplace, Proposed, ClusterReady
<1>9. n \in Nodes
  BY <1>0, <1>7, <1>8 DEF Places
<1>10. PICK e \in Nat : e = desired.edition
  BY <1>0 DEF PlaneStates
<1>11. PICK report \in Report(p, g, NextId) :
         op' = [cmd |-> "rebalance", actions |-> report,
                runtime |-> [NoRuntime EXCEPT
                   !.phase = "verifying-move", !.worker = w, !.generation = g,
                   !.source = n, !.target = m, !.previous = desired.place,
                   !.edition = e, !.gated = gated]]
  BY <1>1, <1>2, <1>7, <1>10 DEF RebalanceReplace
<1>12. PICK z \in Runtimes : z = NoRuntime
  BY <1>0, EmptyValues DEF ActionInv
<1>13. PICK r : r = [z EXCEPT !.phase = "verifying-move", !.worker = w, !.generation = g,
                              !.source = n, !.target = m, !.previous = desired.place,
                              !.edition = e, !.gated = gated]
  OBVIOUS
<1>14. /\ r.worker = w /\ r.source = n /\ r.target = m /\ r.edition = e
       /\ r.gated = gated
  BY <1>12, <1>13 DEF Runtimes
<1>15. /\ op'.cmd = "rebalance" /\ op'.runtime = r /\ op'.actions = report
  BY <1>11, <1>12, <1>13
<1>16. UNCHANGED <<actions, runtime, row, job, node, observed>>
  BY DEF RebalanceReplace, nodeVars
<1>17. EvictFree'
  <2>1. report.evict = "none"
    BY <1>11, NothingReported
  <2> QED BY <1>15, <1>16, <2>1 DEF MoveInv, EvictFree
<1>18. \A x \in Nodes : NodeFits(x)'
  BY <1>6, <1>16, NewGeneration
<1>19. GateInv(runtime)' /\ ~Gated(runtime)'
  BY <1>8, <1>16 DEF GateInv, Gated
<1>20. ASSUME gated PROVE w \in observed[n].workers
  <2>1. Fit(observed[n], n)
    BY <1>9 DEF MoveInv, NodeFits
  <2> QED BY <1>7, <1>8, <1>9, <1>20, <2>1 DEF Fit, On
<1>21. GateInv(op.runtime)'
  <2>1. op'.runtime.edition <= desired'.edition
    BY <1>6, <1>10, <1>14, <1>15
  <2>2. ASSUME Gated(op.runtime)'
        PROVE  /\ op'.runtime.source # op'.runtime.target
               /\ desired'.place[op'.runtime.worker] = op'.runtime.target
               /\ op'.runtime.worker \in observed'[op'.runtime.source].workers
    <3>1. gated
      BY <1>14, <1>15, <2>2 DEF Gated
    <3> QED BY <1>3, <1>6, <1>8, <1>14, <1>15, <1>16, <1>20, <3>1
  <2> QED BY <2>1, <2>2 DEF GateInv
<1>22. RowsInv'
  <2>1. ASSUME Gated(op.runtime)' PROVE gated
    BY <1>14, <1>15, <2>1 DEF Gated
  <2> QED BY <1>8, <1>15, <1>16, <1>19, <2>1 DEF RowsInv, Live
<1> QED BY <1>17, <1>18, <1>19, <1>21, <1>22 DEF MoveInv

\* A rollback is no move to be verified.
LEMMA RollbackMoves ==
  ASSUME SchedulerInv, MoveInv, NoEvictions, RollbackReplace
  PROVE  MoveInv'
<1>0. runtime \in Runtimes /\ runtime.phase = "rollback-planned"
  BY DEF SchedulerInv, ControllerInv, ActionInv, RollbackReplace
<1>1. /\ desired'.generation = desired.generation + 1
      /\ UNCHANGED <<actions, runtime, row, job, node, observed>>
  BY DEF RollbackReplace, nodeVars
<1>2. PICK g : g = desired.generation + 1
  OBVIOUS
<1>3. PICK report \in Report(runtime.previous, g, NextId) :
        op' = [cmd |-> "rollback", actions |-> report,
               runtime |-> [runtime EXCEPT !.phase = "rollback-applied",
                 !.generation = g, !.samples = 0, !.rollbacks = 1, !.overdue = FALSE]]
  BY <1>2 DEF RollbackReplace
<1>4. PICK r : r = [runtime EXCEPT !.phase = "rollback-applied", !.generation = g,
                                   !.samples = 0, !.rollbacks = 1, !.overdue = FALSE]
  OBVIOUS
<1>5. r.phase = "rollback-applied"
  BY <1>0, <1>4 DEF Runtimes
<1>6. op'.cmd = "rollback" /\ op'.runtime = r /\ op'.actions.evict = "none"
  BY <1>3, <1>4, NothingReported
<1>7. EvictFree'
  BY <1>1, <1>6 DEF MoveInv, EvictFree
<1>8. \A n \in Nodes : NodeFits(n)'
  BY <1>1, NewGeneration
<1>9. GateInv(runtime)' /\ ~Gated(runtime)'
  BY <1>0, <1>1 DEF GateInv, Gated
<1>10. GateInv(op.runtime)' /\ ~Gated(op.runtime)'
  BY <1>5, <1>6 DEF GateInv, Gated
<1> QED BY <1>6, <1>7, <1>8, <1>9, <1>10 DEF MoveInv, RowsInv

\* StartPlane writes the rows of the desired state, which has left the source.
LEMMA StartMoves ==
  ASSUME SchedulerInv, MoveInv, NoEvictions, StartPlane
  PROVE  MoveInv'
<1>1. /\ ReplaceHostAssignments(desired.place, desired.generation)
      /\ op.cmd = "idle" /\ actions'.evict = "none"
      /\ UNCHANGED <<desired, runtime, op, job, node, observed>>
  BY NothingReported DEF StartPlane, nodeVars
<1>2. EvictFree'
  BY <1>1 DEF MoveInv, EvictFree
<1>3. /\ \A n \in Nodes : NodeFits(n)'
      /\ \A n \in Nodes : row'[n].workers = On(desired.place, n)
  BY <1>1, NewRows
<1>4. GateInv(runtime)' /\ GateInv(op.runtime)'
  BY <1>1 DEF MoveInv, GateInv, Gated
<1>5. RowsInv'
  <2>1. op'.runtime.phase = "none" /\ ~Gated(op.runtime)'
    BY <1>1 DEF MoveInv, RowsInv, Gated
  <2>2. ASSUME Gated(runtime)'
        PROVE  /\ runtime'.worker \notin row'[runtime'.source].workers
               /\ runtime'.worker \notin job'[runtime'.source].workers
    <3>1. Gated(runtime)
      BY <1>1, <2>2 DEF Gated
    <3>2. /\ runtime.source # runtime.target
          /\ desired.place[runtime.worker] = runtime.target
          /\ runtime.worker \notin job[runtime.source].workers
      BY <3>1 DEF MoveInv, GateInv, RowsInv
    <3>3. runtime.source \in Nodes
      BY <3>1 DEF Gated, SchedulerInv, ControllerInv, ActionInv
    <3>4. row'[runtime.source].workers = On(desired.place, runtime.source)
      BY <1>3, <3>3
    <3>5. runtime.worker \notin row'[runtime.source].workers
      BY <3>2, <3>4 DEF On
    <3> QED BY <1>1, <3>2, <3>5
  <2> QED BY <2>1, <2>2 DEF RowsInv
<1> QED BY <1>2, <1>3, <1>4, <1>5 DEF MoveInv

\* The second half of a command: its rows leave the source, and no job is running.
LEMMA MaterializeMoves ==
  ASSUME SchedulerInv, MoveInv, NEW cmd, Materialize(cmd)
  PROVE  MoveInv'
<1>1. /\ ReplaceHostAssignments(desired.place, desired.generation)
      /\ actions' = op.actions /\ runtime' = op.runtime
      /\ op'.cmd = "idle" /\ op'.runtime = NoRuntime
      /\ op'.actions = NoActions
      /\ UNCHANGED <<desired, job, node, observed>>
  BY DEF Materialize, nodeVars, Idle
<1>2. EvictFree'
  BY <1>1, NothingGated DEF MoveInv, EvictFree
<1>3. /\ \A n \in Nodes : NodeFits(n)'
      /\ \A n \in Nodes : row'[n].workers = On(desired.place, n)
  BY <1>1, NewRows
<1>4. GateInv(runtime)'
  BY <1>1 DEF MoveInv, GateInv, Gated
<1>5. GateInv(op.runtime)' /\ ~Gated(op.runtime)'
  BY <1>1, NothingGated DEF GateInv, Gated
<1>6. RowsInv'
  <2>2. ASSUME Gated(runtime)'
        PROVE  /\ runtime'.worker \notin row'[runtime'.source].workers
               /\ runtime'.worker \notin job'[runtime'.source].workers
    <3> DEFINE r == op.runtime
    <3>1. Gated(r)
      BY <1>1, <2>2 DEF Gated
    <3>2. /\ r.source # r.target /\ desired.place[r.worker] = r.target
          /\ \A n \in Nodes : ~Live(n)
      BY <3>1 DEF MoveInv, GateInv, RowsInv
    <3>3. r.source \in Nodes
      BY <3>1 DEF Gated, SchedulerInv, ControllerInv, ActionInv
    <3>4. row'[r.source].workers = On(desired.place, r.source)
      BY <1>3, <3>3
    <3>5. r.worker \notin row'[r.source].workers
      BY <3>2, <3>4 DEF On
    <3>6. job[r.source] = NoRow
      BY <3>2, <3>3 DEF MoveInv, NodeFits
    <3>7. r.worker \notin job[r.source].workers
      BY <3>6, NothingGated
    <3> QED BY <1>1, <3>5, <3>7
  <2> QED BY <1>1, <1>5, <2>2, NothingGated DEF RowsInv
<1> QED BY <1>2, <1>3, <1>4, <1>5, <1>6 DEF MoveInv

\* Steps that leave the desired state, the rows and the nodes alone: the scheduler
\* action r that goes on is the present one, or is not a move to be verified.
LEMMA ActionMoves ==
  ASSUME MoveInv, actions'.evict = "none", UNCHANGED <<desired, row, job, node, observed>>,
         \/ runtime'.phase # "verifying-move"
         \/ /\ runtime'.phase = runtime.phase /\ runtime'.worker = runtime.worker
            /\ runtime'.source = runtime.source /\ runtime'.target = runtime.target
            /\ runtime'.edition = runtime.edition /\ runtime'.gated = runtime.gated,
         \/ op' = op
         \/ op' = Idle
  PROVE  MoveInv'
<1>1. EvictFree'
  BY NothingGated DEF MoveInv, EvictFree, Idle
<1>2. \A n \in Nodes : NodeFits(n)'
  BY DEF MoveInv, NodeFits, Fit, Live
<1>3. /\ GateInv(runtime)'
      /\ Gated(runtime)' => /\ runtime'.worker \notin row'[runtime'.source].workers
                            /\ runtime'.worker \notin job'[runtime'.source].workers
  BY DEF MoveInv, GateInv, Gated, RowsInv
<1>4. CASE op' = op
  <2>1. /\ GateInv(op.runtime)'
        /\ Gated(op.runtime)' => \A n \in Nodes : ~Live(n)'
        /\ op'.cmd = "idle" => op'.runtime.phase = "none"
    BY <1>4 DEF MoveInv, GateInv, Gated, RowsInv, Live
  <2> QED BY <1>1, <1>2, <1>3, <2>1 DEF MoveInv, RowsInv
<1>5. CASE op' = Idle
  <2>1. op'.runtime.phase = "none"
    BY <1>5, NothingGated DEF Idle
  <2>2. GateInv(op.runtime)' /\ ~Gated(op.runtime)'
    BY <2>1 DEF GateInv, Gated
  <2> QED BY <1>1, <1>2, <1>3, <2>1, <2>2 DEF MoveInv, RowsInv
<1> QED BY <1>4, <1>5

\* The steps of a scheduler action between its commands, cool-downs, the end of an
\* update, and deaths of the controller.
LEMMA AdvanceMoves ==
  ASSUME SchedulerInv, MoveInv,
         \/ UpdateFinish \/ AdvanceVerified \/ AdvanceGivesUp
         \/ AdvanceWaits \/ AdvancePlansRollback
         \/ VerificationTimeout \/ CooldownEnds
         \/ ControllerCrash
  PROVE  MoveInv'
<1>0. runtime \in Runtimes /\ actions \in RolloutActions /\ actions.evict = "none"
  BY DEF SchedulerInv, ControllerInv, ActionInv, MoveInv, EvictFree
<1>1. UNCHANGED <<desired, row, job, node, observed>>
  BY DEF UpdateFinish, AdvanceVerified, AdvanceGivesUp,
         AdvanceWaits, AdvancePlansRollback,
         VerificationTimeout, CooldownEnds, ControllerCrash,
         nodeVars
<1>2. op' = op \/ op' = Idle
  BY DEF UpdateFinish, AdvanceVerified, AdvanceGivesUp,
         AdvanceWaits, AdvancePlansRollback,
         VerificationTimeout, CooldownEnds, ControllerCrash
<1>3. actions'.evict = "none"
  <2>1. CASE UpdateFinish
    <3>1. PICK a : a = actions.id
      OBVIOUS
    <3>2. actions' = [NoActions EXCEPT !.id = a]
      BY <2>1, <3>1 DEF UpdateFinish
    <3> QED BY <3>2 DEF NoActions
  <2>2. CASE ~UpdateFinish
    <3>1. actions' = actions
      BY <2>2 DEF AdvanceVerified, AdvanceGivesUp,
         AdvanceWaits, AdvancePlansRollback,
         VerificationTimeout, CooldownEnds, ControllerCrash
    <3> QED BY <1>0, <3>1
  <2> QED BY <2>1, <2>2
<1>4. CASE \/ UpdateFinish \/ AdvanceVerified
           \/ AdvanceGivesUp \/ AdvancePlansRollback
  <2>1. runtime'.phase # "verifying-move"
    <3>1. CASE AdvancePlansRollback
      <4>1. runtime' = [runtime EXCEPT !.phase = "rollback-planned", !.samples = 0,
                                       !.overdue = FALSE]
        BY <3>1 DEF AdvancePlansRollback
      <4> QED BY <1>0, <4>1 DEF Runtimes
    <3>2. CASE ~AdvancePlansRollback
      <4>1. runtime' = NoRuntime
        BY <1>4, <3>2 DEF UpdateFinish, AdvanceVerified,
                          AdvanceGivesUp
      <4> QED BY <4>1, NothingGated
    <3> QED BY <3>1, <3>2
  <2> QED BY <1>1, <1>2, <1>3, <2>1, ActionMoves
<1>5. CASE \/ AdvanceWaits \/ VerificationTimeout
           \/ CooldownEnds \/ ControllerCrash
  <2>1. /\ runtime'.phase = runtime.phase /\ runtime'.worker = runtime.worker
        /\ runtime'.source = runtime.source /\ runtime'.target = runtime.target
        /\ runtime'.edition = runtime.edition /\ runtime'.gated = runtime.gated
    <3>1. CASE AdvanceWaits
      <4>1. PICK k : runtime' = [runtime EXCEPT !.samples = k]
        BY <3>1 DEF AdvanceWaits
      <4> QED BY <1>0, <4>1 DEF Runtimes
    <3>2. CASE VerificationTimeout
      <4>1. runtime' = [runtime EXCEPT !.overdue = TRUE]
        BY <3>2 DEF VerificationTimeout
      <4> QED BY <1>0, <4>1 DEF Runtimes
    <3>3. CASE CooldownEnds \/ ControllerCrash
      BY <3>3 DEF CooldownEnds, ControllerCrash
    <3> QED BY <1>5, <3>1, <3>2, <3>3
  <2> QED BY <1>1, <1>2, <1>3, <2>1, ActionMoves
<1> QED BY <1>4, <1>5

\* A plane without evictions takes none of their steps.
LEMMA NothingEvicted ==
  ASSUME MoveInv
  PROVE  /\ ~EvictionEnqueued /\ ~EvictionReady
         /\ \A status : ~SetRolloutActionStatus(status)
         /\ ~RetryReplace /\ ~RetryFinish
         /\ \A n \in Nodes : ~SlowWorkerStops(n)
<1>1. actions.evict = "none" /\ op.cmd # "retry"
  BY DEF MoveInv, EvictFree
<1>2. ~EvictionEnqueued /\ ~EvictionReady
  BY <1>1 DEF EvictionEnqueued, EvictionReady
<1>3. \A status : ~SetRolloutActionStatus(status)
  BY <1>1 DEF SetRolloutActionStatus
<1>4. ~RetryReplace /\ ~RetryFinish
  BY <1>1 DEF RetryReplace, RetryFinish, Materialize
<1>5. \A n \in Nodes : ~SlowWorkerStops(n)
  BY DEF MoveInv, NodeFits, SlowWorkerStops
<1> QED BY <1>2, <1>3, <1>4, <1>5

\* A step of node n: what runs anew comes from its job, and what the controller hears
\* is what runs.
LEMMA NodeMoves ==
  ASSUME SchedulerInv, MoveInv, NEW n \in Nodes,
         UNCHANGED <<desired, actions, runtime, op>>,
         \A m \in Nodes \ {n} : /\ row'[m] = row[m] /\ job'[m] = job[m]
                                /\ node'[m] = node[m] /\ observed'[m] = observed[m],
         NodeFits(n)', row'[n].workers = row[n].workers,
         job'[n].workers \subseteq row[n].workers \cup job[n].workers,
         Live(n)' => Live(n),
         \/ observed'[n] = node'[n]
         \/ /\ observed'[n] = observed[n]
            /\ node'[n].workers \subseteq node[n].workers \cup job[n].workers
  PROVE  MoveInv'
<1>1. EvictFree'
  BY DEF MoveInv, EvictFree
<1>2. ASSUME NEW m \in Nodes PROVE NodeFits(m)' /\ (Live(m)' => Live(m))
  <2>1. CASE m = n
    BY <2>1
  <2>2. CASE m # n
    BY <2>2 DEF MoveInv, NodeFits, Fit, Live
  <2> QED BY <2>1, <2>2
<1>3. ASSUME NEW r, GateInv(r), Gated(r) => r.source \in Nodes,
             Gated(r) => r.worker \notin job[r.source].workers
      PROVE  /\ r.phase = "verifying-move" => r.edition <= desired.edition
             /\ Gated(r) =>
                  /\ r.source # r.target /\ desired.place[r.worker] = r.target
                  /\ r.worker \in node'[r.source].workers =>
                       r.worker \in observed'[r.source].workers
  <2> SUFFICES ASSUME Gated(r), r.worker \in node'[r.source].workers
               PROVE  r.worker \in observed'[r.source].workers
    BY <1>3 DEF GateInv
  <2>1. r.source \in Nodes /\ r.worker \notin job[r.source].workers
    BY <1>3
  <2>2. r.worker \in node[r.source].workers => r.worker \in observed[r.source].workers
    BY <1>3 DEF GateInv
  <2>3. CASE r.source = n
    BY <2>1, <2>2, <2>3
  <2>4. CASE r.source # n
    BY <2>1, <2>2, <2>4
  <2> QED BY <2>3, <2>4
<1>4. Gated(runtime) => /\ runtime.source \in Nodes
                        /\ runtime.worker \notin row[runtime.source].workers
                        /\ runtime.worker \notin job[runtime.source].workers
  BY DEF MoveInv, RowsInv, Gated, SchedulerInv, ControllerInv, ActionInv
<1>5. Gated(op.runtime) => op.runtime.source \in Nodes
  BY DEF Gated, SchedulerInv, ControllerInv, ActionInv
<1>6. Gated(op.runtime) =>
        op.runtime.worker \notin job[op.runtime.source].workers
  <2>1. ASSUME Gated(op.runtime) PROVE job[op.runtime.source] = NoRow
    BY <1>5, <2>1 DEF MoveInv, RowsInv, NodeFits
  <2> QED BY <2>1, NothingGated
<1>7. GateInv(runtime)'
  <2>1. GateInv(runtime)
    BY DEF MoveInv
  <2> QED BY <1>3, <1>4, <2>1 DEF GateInv, Gated
<1>8. GateInv(op.runtime)'
  <2>1. GateInv(op.runtime)
    BY DEF MoveInv
  <2> QED BY <1>3, <1>5, <1>6, <2>1 DEF GateInv, Gated
<1>9. RowsInv'
  <2>1. Gated(runtime) => /\ runtime.worker \notin row'[runtime.source].workers
                          /\ runtime.worker \notin job'[runtime.source].workers
    BY <1>4
  <2>2. Gated(op.runtime) => \A m \in Nodes : ~Live(m)'
    BY <1>2 DEF MoveInv, RowsInv
  <2> QED BY <2>1, <2>2 DEF MoveInv, RowsInv, Gated
<1> QED BY <1>1, <1>2, <1>7, <1>8, <1>9 DEF MoveInv

\* A claimed row is copied.
LEMMA ClaimMoves ==
  ASSUME SchedulerInv, MoveInv, NEW n \in Nodes, Claim(n)
  PROVE  MoveInv'
<1>0. /\ row \in [Nodes -> PlaneRows] /\ job \in [Nodes -> PlaneRows]
      /\ row[n] \in PlaneRows /\ NodeFits(n)
  BY DEF SchedulerInv, NodesInv, MoveInv
<1>1. PICK k : k = row[n].attempts + 1
  OBVIOUS
<1>2. PICK x : x = [row[n] EXCEPT !.status = "claimed", !.attempts = k, !.tag = 0]
  OBVIOUS
<1>3. PICK y : y = [row[n] EXCEPT !.attempts = k, !.status = "claimed"]
  OBVIOUS
<1>4. row' = [row EXCEPT ![n] = x] /\ job' = [job EXCEPT ![n] = y]
  BY <1>0, <1>1, <1>2, <1>3 DEF Claim, PlaneRows
<1>5. /\ x.workers = row[n].workers /\ x.generation = row[n].generation
      /\ x.victims = row[n].victims /\ x.status = "claimed"
  BY <1>0, <1>2 DEF PlaneRows
<1>6. /\ y.workers = row[n].workers /\ y.generation = row[n].generation
      /\ y.victims = row[n].victims
  BY <1>0, <1>3 DEF PlaneRows
<1>7. /\ row'[n] = x /\ job'[n] = y
      /\ \A m \in Nodes \ {n} : row'[m] = row[m] /\ job'[m] = job[m]
      /\ UNCHANGED <<desired, actions, runtime, op, node, observed>>
  BY <1>0, <1>4 DEF Claim
<1>8. Live(n) /\ Live(n)'
  BY <1>5, <1>7 DEF Claim, Live
<1>9. NodeFits(n)'
  <2>1. Fit(row[n], n)' /\ Fit(job[n], n)' /\ Fit(node[n], n)' /\ Fit(observed[n], n)'
    BY <1>0, <1>5, <1>6, <1>7 DEF NodeFits, Fit
  <2>2. job'[n].generation <= row'[n].generation
    BY <1>5, <1>6, <1>7, Generations
  <2> QED BY <1>0, <1>5, <1>6, <1>7, <1>8, <2>1, <2>2 DEF NodeFits
<1> QED BY <1>5, <1>6, <1>7, <1>8, <1>9, NodeMoves

\* An applied slice: exactly the workers of the job run.
LEMMA ExecuteMoves ==
  ASSUME SchedulerInv, MoveInv, NEW n \in Nodes, Execute(n)
  PROVE  MoveInv'
<1>0. /\ job \in [Nodes -> PlaneRows] /\ job[n] \in PlaneRows /\ NodeFits(n)
      /\ node \in [Nodes -> NodeStates] /\ job[n].status = "claimed"
  BY DEF SchedulerInv, NodesInv, MoveInv, Execute
<1>1. PICK y : y = [job[n] EXCEPT !.status = "executed"]
  OBVIOUS
<1>2. /\ y.workers = job[n].workers /\ y.generation = job[n].generation
      /\ y.victims = job[n].victims
  BY <1>0, <1>1 DEF PlaneRows
<1>3. job' = [job EXCEPT ![n] = y]
  BY <1>0, <1>1 DEF Execute
<1>4. job[n] # NoRow
  BY <1>0 DEF NoRow
<1>5. /\ Live(n) /\ job[n].generation <= row[n].generation
      /\ node[n].generation <= job[n].generation /\ job[n].victims = {}
  BY <1>0, <1>4 DEF NodeFits
<1>6. node' = [node EXCEPT ![n] = [workers |-> job[n].workers, generation |-> job[n].generation]]
  <2>1. PICK slow \in SUBSET (job[n].victims \cap node[n].workers) :
          node' = [node EXCEPT ![n] = [workers |-> job[n].workers \cup slow,
                     generation |-> IF node[n].generation > job[n].generation
                                    THEN node[n].generation ELSE job[n].generation]]
    BY <1>0 DEF Execute
  <2>2. job[n].workers \cup slow = job[n].workers
    BY <1>5, <2>1
  <2>3. ~(node[n].generation > job[n].generation)
    BY <1>5, Generations
  <2> QED BY <2>1, <2>2, <2>3
<1>7. /\ job'[n] = y /\ node'[n].workers = job[n].workers
      /\ node'[n].generation = job[n].generation
      /\ \A m \in Nodes \ {n} : node'[m] = node[m] /\ job'[m] = job[m]
      /\ UNCHANGED <<desired, actions, runtime, op, row, observed>>
  BY <1>0, <1>3, <1>6 DEF Execute
<1>8. NodeFits(n)'
  <2>1. Fit(row[n], n)' /\ Fit(job[n], n)' /\ Fit(node[n], n)' /\ Fit(observed[n], n)'
    BY <1>0, <1>2, <1>7 DEF NodeFits, Fit
  <2>2. Live(n)'
    BY <1>5, <1>7 DEF Live
  <2>3. node'[n].generation <= job'[n].generation
    BY <1>2, <1>7, Generations
  <2> QED BY <1>0, <1>2, <1>5, <1>7, <2>1, <2>2, <2>3 DEF NodeFits
<1>9. row'[n].workers = row[n].workers /\ (Live(n)' => Live(n))
  BY <1>5, <1>7
<1> QED BY <1>2, <1>7, <1>8, <1>9, NodeMoves

\* What a report or an expired lease leaves of a row.
LEMMA EndedRow ==
  ASSUME SchedulerInv, NEW n \in Nodes,
         JobApplied(n) \/ JobFails(n) \/ Killed(n)
  PROVE  /\ row'[n].workers = row[n].workers /\ row'[n].generation = row[n].generation
         /\ row'[n].victims = row[n].victims
         /\ \A m \in Nodes \ {n} : row'[m] = row[m]
<1>0. row \in [Nodes -> PlaneRows] /\ row[n] \in PlaneRows
  BY DEF SchedulerInv, NodesInv
<1>1. CASE row' = row
  BY <1>1
<1>2. CASE row' # row /\ Killed(n)
  <2>1. PICK s : row' = [row EXCEPT ![n].status = s, ![n].tag = 0]
    BY <1>2 DEF Killed
  <2>2. PICK x : x = [row[n] EXCEPT !.status = s, !.tag = 0]
    OBVIOUS
  <2>3. row' = [row EXCEPT ![n] = x]
    BY <1>0, <2>1, <2>2
  <2>4. /\ x.workers = row[n].workers /\ x.generation = row[n].generation
        /\ x.victims = row[n].victims
    BY <1>0, <2>2 DEF PlaneRows
  <2> QED BY <1>0, <2>3, <2>4
<1>3. CASE row' # row /\ (JobApplied(n) \/ JobFails(n))
  <2>1. PICK s, t : Report1(n, s, t, TRUE)
    BY <1>3 DEF JobApplied, JobFails
  <2>2. PICK b : b = (TRUE /\ t # 0)
    OBVIOUS
  <2>3. row' = [row EXCEPT ![n].status = s, ![n].tag = t, ![n].garbled = b]
    BY <1>3, <2>1, <2>2 DEF Report1
  <2>4. PICK x : x = [row[n] EXCEPT !.status = s, !.tag = t, !.garbled = b]
    OBVIOUS
  <2>5. row' = [row EXCEPT ![n] = x]
    BY <1>0, <2>3, <2>4
  <2>6. /\ x.workers = row[n].workers /\ x.generation = row[n].generation
        /\ x.victims = row[n].victims
    BY <1>0, <2>4 DEF PlaneRows
  <2> QED BY <1>0, <2>5, <2>6
<1> QED BY <1>1, <1>2, <1>3

\* The end of a job leaves what the row says and what the node runs.
LEMMA JobEndsMoves ==
  ASSUME SchedulerInv, MoveInv, NEW n \in Nodes,
         JobApplied(n) \/ JobFails(n) \/ Killed(n)
  PROVE  MoveInv'
<1>0. /\ job \in [Nodes -> PlaneRows] /\ node \in [Nodes -> NodeStates]
      /\ observed \in [Nodes -> NodeStates] /\ NodeFits(n)
  BY DEF SchedulerInv, NodesInv, MoveInv
<1>1. /\ row'[n].workers = row[n].workers /\ row'[n].generation = row[n].generation
      /\ row'[n].victims = row[n].victims
      /\ \A m \in Nodes \ {n} : row'[m] = row[m]
  BY EndedRow
<1>2. /\ job' = [job EXCEPT ![n] = NoRow]
      /\ observed' \in {observed, [observed EXCEPT ![n] = node[n]]}
      /\ UNCHANGED <<desired, actions, runtime, op, node>>
  BY DEF JobApplied, JobFails, Killed
<1>3. /\ job'[n] = NoRow /\ (observed'[n] = observed[n] \/ observed'[n] = node'[n])
      /\ \A m \in Nodes \ {n} : job'[m] = job[m] /\ observed'[m] = observed[m]
  BY <1>0, <1>2
<1>4. Live(n)
  <2>1. job[n] # NoRow
    <3>1. NoRow.status = "none"
      BY DEF NoRow
    <3>2. job[n] # NoRow \/ job[n].status \in {"claimed", "executed"}
      BY DEF JobApplied, JobFails, Killed
    <3> QED BY <3>1, <3>2
  <2> QED BY <1>0, <2>1 DEF NodeFits
<1>5. NodeFits(n)'
  <2>1. Fit(job[n], n)'
    <3>1. job'[n].generation = 0
      BY <1>3, NothingGated
    <3>2. desired'.generation \in Nat /\ desired'.generation >= 1
      BY <1>2, Generations
    <3> QED BY <3>1, <3>2 DEF Fit
  <2>2. Fit(row[n], n)' /\ Fit(node[n], n)' /\ Fit(observed[n], n)'
    BY <1>0, <1>1, <1>2, <1>3 DEF NodeFits, Fit
  <2>3. row'[n].victims = {} /\ job'[n].victims = {}
    BY <1>0, <1>1, <1>3, NothingGated DEF NodeFits
  <2>4. node'[n].generation <= row'[n].generation
    BY <1>0, <1>1, <1>2 DEF NodeFits
  <2> QED BY <1>3, <2>1, <2>2, <2>3, <2>4 DEF NodeFits
<1>6. job'[n].workers \subseteq row[n].workers \cup job[n].workers
  BY <1>3, NothingGated
<1> QED BY <1>1, <1>2, <1>3, <1>4, <1>5, <1>6, NodeMoves

\* A heartbeat.
LEMMA HeartbeatMoves ==
  ASSUME SchedulerInv, MoveInv, NEW n \in Nodes, Heartbeat(n)
  PROVE  MoveInv'
<1>0. observed \in [Nodes -> NodeStates] /\ NodeFits(n)
  BY DEF SchedulerInv, NodesInv, MoveInv
<1>1. /\ observed' = [observed EXCEPT ![n] = node[n]]
      /\ UNCHANGED <<desired, actions, runtime, op, node, row, job>>
  BY DEF Heartbeat
<1>2. /\ observed'[n] = node'[n]
      /\ \A m \in Nodes \ {n} : observed'[m] = observed[m]
  BY <1>0, <1>1
<1>3. NodeFits(n)'
  BY <1>0, <1>1, <1>2 DEF NodeFits, Fit, Live
<1>4. /\ row'[n].workers = row[n].workers /\ job'[n].workers \subseteq job[n].workers
      /\ (Live(n)' => Live(n))
  BY <1>1 DEF Live
<1> QED BY <1>1, <1>2, <1>3, <1>4, NodeMoves

\* Every step of a plane without evictions keeps the invariant of its moves.
LEMMA MoveNext ==
  ASSUME SchedulerInv, MoveInv, NoEvictions, [Next]_(vars)
  PROVE  MoveInv'
<1>1. CASE UNCHANGED vars
  <2>1. UNCHANGED <<desired, actions, runtime, op, row, job, node, observed>>
    BY <1>1 DEF vars
  <2>2. actions'.evict = "none"
    BY <2>1 DEF MoveInv, EvictFree
  <2> QED BY <2>1, <2>2, ActionMoves
<1>2. ASSUME NEW place \in [Workers -> Nodes], UpdateReplace(place)
      PROVE  MoveInv'
  BY <1>2, UpdateMoves
<1>3. CASE StartPlane
  BY <1>3, StartMoves
<1>4. ASSUME NEW w \in Workers, NEW m \in Nodes, NEW gated \in BOOLEAN,
             RebalanceReplace(w, m, gated)
      PROVE  MoveInv'
  BY <1>4, RebalanceMoves
<1>5. CASE RebalanceFinish \/ RollbackFinish
  BY <1>5, MaterializeMoves DEF RebalanceFinish, RollbackFinish
<1>6. CASE RollbackReplace
  BY <1>6, RollbackMoves
<1>7. CASE \/ UpdateFinish \/ AdvanceVerified \/ AdvanceGivesUp
           \/ AdvanceWaits \/ AdvancePlansRollback
           \/ VerificationTimeout \/ CooldownEnds
           \/ ControllerCrash
  BY <1>7, AdvanceMoves
<1>8. CASE \/ EvictionEnqueued \/ EvictionReady
           \/ \E status \in StatusesOfAction \ {"none"} :
                SetRolloutActionStatus(status)
           \/ RetryReplace \/ RetryFinish
  BY <1>8, NothingEvicted
<1>9. ASSUME NEW n \in Nodes,
             \/ Claim(n) \/ Execute(n) \/ JobApplied(n)
             \/ JobFails(n) \/ Killed(n)
             \/ SlowWorkerStops(n) \/ Heartbeat(n)
      PROVE  MoveInv'
  BY <1>9, ClaimMoves, ExecuteMoves, JobEndsMoves, HeartbeatMoves, NothingEvicted
<1> QED BY <1>1, <1>2, <1>3, <1>4, <1>5, <1>6, <1>7, <1>8, <1>9 DEF Next

\* At the start no node has anything yet.
LEMMA MoveStarts ==
  ASSUME Init, SchedulerSound, NoEvictions
  PROVE  MoveInv
<1>1. /\ runtime = NoRuntime /\ op.runtime = NoRuntime
      /\ op.cmd = "idle" /\ op.actions = NoActions
      /\ desired.generation = 1
  BY DEF Init, Idle
<1>2. EvictFree
  BY <1>1, NothingGated, NothingReported DEF Init, EvictFree
<1>3. GateInv(runtime) /\ GateInv(op.runtime) /\ RowsInv
  BY <1>1, NothingGated DEF GateInv, Gated, RowsInv
<1>4. ASSUME NEW n \in Nodes PROVE NodeFits(n)
  <2>1. /\ row[n] = ApplyRow(desired.place, 1, n) /\ job[n] = NoRow
        /\ node[n].generation = 0 /\ observed[n].generation = 0
    BY DEF Init
  <2>2. /\ row[n].workers = On(desired.place, n) /\ row[n].generation = 1
        /\ row[n].victims = {}
    BY <2>1, StartRow
  <2>3. Fit(row[n], n) /\ Fit(job[n], n) /\ Fit(node[n], n) /\ Fit(observed[n], n)
    BY <1>1, <2>1, <2>2, NothingGated DEF Fit
  <2> QED BY <2>1, <2>2, <2>3, NothingGated DEF NodeFits
<1> QED BY <1>2, <1>3, <1>4 DEF MoveInv

\* A move that went through the controller gate, that no update overtook and that
\* AdvanceActiveSchedulerAction calls verified has left its old node, although the
\* verification only sees what the nodes last reported: in a plane whose policy asks
\* for no evictions, with any number of workers and nodes, lost jobs, lost
\* observations, rows written anew by StartPlane and deaths of the controller.
THEOREM VerifiedMovesRunOnce ==
  ASSUME SchedulerSound, NoEvictions
  PROVE  Spec => VerifiedMoveRunsOnce
<1> DEFINE Left == (/\ AdvanceVerified /\ runtime.phase = "verifying-move"
                    /\ runtime.gated /\ runtime.edition = desired.edition)
                   => runtime.worker \notin node[runtime.source].workers
           Inv == SchedulerInv /\ MoveInv
<1>1. Init => Inv
  BY SchedulerStarts, MoveStarts
<1>2. Inv /\ [Next]_(vars) => Inv'
  BY SchedulerNext, MoveNext
<1>3. Inv => Left
  <2> SUFFICES ASSUME MoveInv, AdvanceVerified, runtime.phase = "verifying-move",
                      runtime.gated, runtime.edition = desired.edition
               PROVE  runtime.worker \notin node[runtime.source].workers
    OBVIOUS
  <2>1. runtime.worker \in node[runtime.source].workers =>
          runtime.worker \in observed[runtime.source].workers
    BY DEF MoveInv, GateInv, Gated
  <2>2. runtime.worker \notin observed[runtime.source].workers
    BY DEF AdvanceVerified, Stable, Converged,
           ClearedNode, RollbackMode
  <2> QED BY <2>1, <2>2
<1>4. Inv /\ [Next]_(vars) => [Left]_(vars)
  BY <1>3
<1>5. [][Left]_(vars) => VerifiedMoveRunsOnce
  BY PTL DEF VerifiedMoveRunsOnce
<1> QED BY <1>1, <1>2, <1>4, <1>5, PTL DEF Spec
=============================================================================
