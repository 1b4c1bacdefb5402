---------------------------- MODULE DesiredState ----------------------------
(***************************************************************************)
(* A plane's desired state and the document it is stored as.  The row of a   *)
(* plane keeps no copy of the state: ReplaceDesiredState writes the v2        *)
(* document that DesiredStateV2Projector makes of it, and every later load    *)
(* validates that document and renders a state from it again.  What the next  *)
(* reader sees is therefore Load(Project(state)), and the rules of the        *)
(* projector, the validator and the renderer have to agree for every state    *)
(* that the placement of workers, an operator or the scheduler can produce.   *)
(*                                                                            *)
(* The runtime is llama.cpp with llama_rpc, the only one an llm plane may     *)
(* have.  A plane is its nodes, its infer instances (the first aggregates     *)
(* the replicas) and its workers; an instance is the node it runs on, and a   *)
(* worker also its GPU, the halves of the GPU it takes (2 is exclusive) and   *)
(* the infer instance it serves.                                              *)
(***************************************************************************)
EXTENDS Naturals, Sequences, FiniteSets, FiniteSetsExt, SequencesExt

CONSTANTS
  Nodes,        \* names of registered hosts
  LocalNode,    \* "local-hostd"
  NoNode,       \* an absent node name
  GpusOf,       \* [Nodes -> set of GPUs]: the telemetry of each host
  ModeOf,       \* [Nodes -> Modes]: the execution mode in the host registry
  NoGpu,        \* an absent GPU
  Requests,     \* the documents operators send
  Commands,     \* subset of {"upsert", "edit", "rebalance"}
  MaxSaves,     \* bound on the number of times the plane is saved
  NoState       \* no document, no state

VARIABLES
  stored,       \* planes.desired_state_json
  saved,        \* the state it was projected from
  saves         \* how many times the plane was saved

vars == <<stored, saved, saves>>

Modes == {"mixed", "infer-only", "worker-only"}
Gpus == UNION {GpusOf[n] : n \in Nodes}
Whole == 2      \* halves of a GPU

Node(name, mode, gpus) == [name |-> name, mode |-> mode, gpus |-> gpus]

-----------------------------------------------------------------------------
(* Reading a document.                                                        *)

HasTopology(doc) == doc.topology # <<>>

\* RenderNodeTopology: the topology, else the execution node, else local-hostd.
RenderNodes(doc) ==
  IF HasTopology(doc) THEN doc.topology
  ELSE <<Node(IF doc.executionNode # NoNode THEN doc.executionNode ELSE LocalNode,
              "mixed", {})>>

DefaultNode(doc) == RenderNodes(doc)[1].name

InferReplicas(doc) == Max({1, doc.replicas})
WorkersPerReplica(doc) == Max({1, doc.workers \div InferReplicas(doc)})

ResolveWorkerNode(doc, i) ==
  IF HasTopology(doc) /\ i \in DOMAIN doc.assignments THEN doc.assignments[i].node
  ELSE IF HasTopology(doc) /\ doc.workerNode # NoNode THEN doc.workerNode
  ELSE DefaultNode(doc)

ResolveWorkerGpu(doc, i) ==
  IF HasTopology(doc) /\ i \in DOMAIN doc.assignments /\ doc.assignments[i].gpu # NoGpu
    THEN doc.assignments[i].gpu
    ELSE doc.workerGpu

\* The node of infer instance k, where instance 0 is the aggregator.
ResolveInferNode(doc, k) ==
  LET capable == {j \in DOMAIN RenderNodes(doc) : RenderNodes(doc)[j].mode # "worker-only"}
      leader == Min({doc.workers, (k - 1) * WorkersPerReplica(doc) + 1})
  IN IF k = 0 /\ HasTopology(doc) /\ doc.inferNode # NoNode THEN doc.inferNode
     ELSE IF k > 0 /\ InferReplicas(doc) > 1 THEN ResolveWorkerNode(doc, leader)
     ELSE IF capable # {} THEN RenderNodes(doc)[Min(capable)].name
     ELSE DefaultNode(doc)

\* The infer instance worker i serves: its replica's, or the only name there is.
InferOfWorker(doc, i) ==
  IF doc.inferEnabled
    THEN 1 + Min({InferReplicas(doc), 1 + (i - 1) \div WorkersPerReplica(doc)})
    ELSE 1

Render(doc) ==
  [target |-> doc.executionNode,
   llm |-> doc.llm,
   nodes |-> RenderNodes(doc),
   infers |-> IF doc.inferEnabled
                THEN [k \in 1..InferReplicas(doc) + 1 |-> ResolveInferNode(doc, k - 1)]
                ELSE <<>>,
   workers |-> [i \in 1..doc.workers |->
                 [node |-> ResolveWorkerNode(doc, i), gpu |-> ResolveWorkerGpu(doc, i),
                  halves |-> doc.halves, infer |-> InferOfWorker(doc, i)]]]

-----------------------------------------------------------------------------
(* Validating a document.                                                     *)

NamesOf(nodes) == {nodes[i].name : i \in DOMAIN nodes}

\* KnownNodeExecutionMode: the modes a named node may be taken to have.
KnownModes(doc, name) ==
  IF HasTopology(doc) /\ name \in NamesOf(doc.topology)
    THEN {n.mode : n \in {m \in Range(doc.topology) : m.name = name}}
    ELSE IF name = doc.executionNode THEN {"mixed"} ELSE {}

ValidateNodeRole(doc, name, forbidden) ==
  KnownModes(doc, name) # {} /\ forbidden \notin KnownModes(doc, name)

ValidateLegacyPlacement(doc) ==
  ~HasTopology(doc) =>
    doc.inferNode = NoNode /\ doc.workerNode = NoNode /\ doc.assignments = <<>>

ValidateInfer(doc) ==
  /\ doc.llm => doc.replicas > 0
  /\ doc.inferNode # NoNode => ValidateNodeRole(doc, doc.inferNode, "worker-only")
  /\ doc.replicas > 0 => doc.workers % doc.replicas = 0

ValidateWorker(doc) ==
  /\ doc.assignments # <<>> => Len(doc.assignments) = doc.workers
  /\ \A i \in DOMAIN doc.assignments :
       ValidateNodeRole(doc, doc.assignments[i].node, "infer-only")
  /\ doc.workerNode # NoNode => ValidateNodeRole(doc, doc.workerNode, "infer-only")

\* ValidateOrThrow, then RequireNode in the renderer.
Loads(doc) ==
  /\ doc.workers > 0
  /\ ValidateLegacyPlacement(doc)
  /\ ValidateInfer(doc)
  /\ ValidateWorker(doc)
  /\ HasTopology(doc) =>
       {doc.inferNode, doc.workerNode} \union {doc.assignments[i].node : i \in DOMAIN doc.assignments}
         \subseteq NamesOf(doc.topology) \union {NoNode}

-----------------------------------------------------------------------------
\* ResolvePlacementTargetAliases: a plane on one node moves to its target, a
\* plane on several forgets it.
ResolvePlacementTarget(s) ==
  LET names == NamesOf(s.nodes) \union Range(s.infers) \union {w.node : w \in Range(s.workers)}
  IN IF s.target = NoNode THEN s
     ELSE IF Cardinality(names) > 1 THEN [s EXCEPT !.target = NoNode]
     ELSE [s EXCEPT !.nodes = [i \in DOMAIN @ |-> [@[i] EXCEPT !.name = s.target]],
                    !.infers = [k \in DOMAIN @ |-> s.target],
                    !.workers = [i \in DOMAIN @ |-> [@[i] EXCEPT !.node = s.target]]]

LoadDesiredState(doc) == ResolvePlacementTarget(Render(doc))

-----------------------------------------------------------------------------
(* Writing a document.                                                        *)

PlacedNode(s) == IF s.target # NoNode THEN s.target ELSE s.nodes[1].name

\* A mutant: every plane has an execution node, its first one.
ProjectTopologyUnlessPlaced(s) ==
  IF PlacedNode(s) # NoNode THEN <<>> ELSE s.nodes

\* ShouldEmitTopology: not for a plane with an execution node, and not for the
\* single node a document without a topology renders to.
ProjectTopology(s) ==
  IF s.target # NoNode \/ s.nodes = <<Node(LocalNode, "mixed", {})>> THEN <<>> ELSE s.nodes

\* A mutant: the GPUs are not compared.
ProjectsOneNode(s) ==
  \A i \in DOMAIN s.workers : s.workers[i].node = s.workers[1].node

\* One node and GPU for all the workers, or an assignment for each.
ProjectsOne(s) ==
  \A i \in DOMAIN s.workers :
    s.workers[i].node = s.workers[1].node /\ s.workers[i].gpu = s.workers[1].gpu

\* A mutant: the size of a replica instead of the size of the plane.
ProjectReplicaSize(s) ==
  Len(s.workers) \div Cardinality({w.infer : w \in Range(s.workers)})

\* runtime.workers.
ProjectWorkerCount(s) == Max({1, Len(s.workers)})

\* A node is written only where it is not the placed one.
Elsewhere(s, name) == IF name = PlacedNode(s) THEN NoNode ELSE name

Project(s) ==
  [executionNode |-> PlacedNode(s),
   topology |-> ProjectTopology(s),
   llm |-> s.llm,
   workers |-> ProjectWorkerCount(s),
   inferEnabled |-> TRUE,
   replicas |-> IF s.llm /\ s.infers # <<>>
                  THEN Max({1, Cardinality({w.infer : w \in Range(s.workers)})}) ELSE 0,
   inferNode |-> IF s.infers # <<>> THEN Elsewhere(s, s.infers[1]) ELSE NoNode,
   workerNode |-> IF ProjectsOne(s) THEN Elsewhere(s, s.workers[1].node) ELSE NoNode,
   workerGpu |-> IF ProjectsOne(s) THEN s.workers[1].gpu ELSE NoGpu,
   assignments |-> IF ProjectsOne(s) THEN <<>>
                   ELSE [i \in DOMAIN s.workers |->
                          [node |-> s.workers[i].node, gpu |-> s.workers[i].gpu]],
   halves |-> s.workers[1].halves]

-----------------------------------------------------------------------------
(* Placing the workers that have no GPU yet.                                  *)

\* ApplyRegisteredHostExecutionModes and ApplyObservedHostGpuInventory.
WithInventory(s) ==
  [s EXCEPT !.nodes = [i \in DOMAIN @ |->
     Node(@[i].name,
          IF @[i].name \in Nodes THEN ModeOf[@[i].name] ELSE @[i].mode,
          @[i].gpus \union (IF @[i].name \in Nodes THEN GpusOf[@[i].name] ELSE {}))]]

\* What the workers in ids that sit on a GPU take of it.
Usage(ws, ids, node, gpu) ==
  MapThenSumSet(LAMBDA j : ws[j].halves,
                {j \in ids : ws[j].node = node /\ ws[j].gpu = gpu})

\* SelectAutoPlacement: the GPUs of the worker's node with room for it, idle
\* ones first, then the least used.  Which of the best is taken depends on a
\* score of telemetry.
Candidates(s, ws, ids, w) ==
  LET room == {g \in UNION {n.gpus : n \in {m \in Range(s.nodes) :
                                 m.name = w.node /\ m.mode # "infer-only"}} :
                 Usage(ws, ids, w.node, g) + w.halves <= Whole}
  IN {g \in room : \A h \in room : Usage(ws, ids, w.node, g) <= Usage(ws, ids, w.node, h)}

\* An idle GPU is taken as a whole.
PlaceWorker(ws, ids, w, gpu) ==
  [w EXCEPT !.gpu = gpu,
            !.halves = IF Usage(ws, ids, w.node, gpu) = 0 THEN Whole ELSE @]

\* ws is what ResolveDesiredStateDynamicPlacements may make of the workers of s:
\* pinned workers are reserved first, the others placed in their order.
ResolvesPlacements(s, ws) ==
  \A i \in DOMAIN s.workers :
    LET w == s.workers[i]
        reserved == {j \in DOMAIN s.workers : s.workers[j].gpu # NoGpu \/ j < i}
    IN IF w.gpu # NoGpu THEN ws[i] = w
       ELSE \E g \in Candidates(s, ws, reserved, w) : ws[i] = PlaceWorker(ws, reserved, w, g)

Placements(s) ==
  {ws \in [DOMAIN s.workers ->
            [node : {w.node : w \in Range(s.workers)}, gpu : Gpus, halves : 1..Whole,
             infer : {w.infer : w \in Range(s.workers)}]] : ResolvesPlacements(s, ws)}

-----------------------------------------------------------------------------
\* Admission: an execution node is a registered host, and a node allows the
\* roles it is given.
Admitted(s) ==
  /\ s.target # NoNode => s.target \in Nodes
  /\ \A n \in Range(s.nodes) :
       /\ n.mode = "worker-only" => n.name \notin Range(s.infers)
       /\ n.mode = "infer-only" => \A w \in Range(s.workers) : w.node # n.name

\* RequireSchedulingPolicy: every worker has a GPU of its node, no GPU has more
\* than it can carry.
SchedulingPolicy(s) ==
  /\ \A w \in Range(s.workers) :
       \E n \in Range(s.nodes) : n.name = w.node /\ n.mode # "infer-only" /\ w.gpu \in n.gpus
  /\ \A w \in Range(s.workers) : Usage(s.workers, DOMAIN s.workers, w.node, w.gpu) <= Whole

ReplaceDesiredState(s) ==
  /\ saves < MaxSaves
  /\ stored' = Project(s)
  /\ saved' = s
  /\ saves' = saves + 1

\* ApplyDesiredState reads the stored plane before it replaces it: a document
\* that does not load refuses every later update.
ApplyDesiredState(s) ==
  \E ws \in Placements(WithInventory(s)) :
    LET effective == [WithInventory(s) EXCEPT !.workers = ws]
    IN /\ Admitted(effective)
       /\ stored # NoState => Loads(stored)
       /\ SchedulingPolicy(effective)
       /\ ReplaceDesiredState(effective)

\* An operator sends a v2 document; its placement target is kept as rendered.
UpsertPlane ==
  /\ "upsert" \in Commands
  /\ \E doc \in Requests : Loads(doc) /\ ApplyDesiredState(Render(doc))

\* A plane's skills change: the loaded state goes through JSON and is applied.
EditPlane ==
  /\ "edit" \in Commands
  /\ stored # NoState /\ Loads(stored)
  /\ ApplyDesiredState(ResolvePlacementTarget(LoadDesiredState(stored)))

\* Worker i on another GPU, which an upgrade makes its own.
MoveWorker(s, i, n, g, upgrade) ==
  [s EXCEPT !.workers[i].node = n, !.workers[i].gpu = g,
            !.workers[i].halves = IF upgrade THEN Whole ELSE @]

\* The scheduler moves a worker of the loaded state.
Rebalance ==
  /\ "rebalance" \in Commands
  /\ stored # NoState /\ Loads(stored)
  /\ LET s == LoadDesiredState(stored)
     IN \E i \in DOMAIN s.workers, n \in NamesOf(s.nodes), g \in Gpus, upgrade \in BOOLEAN :
          LET moved == MoveWorker(s, i, n, g, upgrade)
          IN moved # s /\ SchedulingPolicy(moved) /\ ReplaceDesiredState(moved)

Init == stored = NoState /\ saved = NoState /\ saves = 0

Next == UpsertPlane \/ EditPlane \/ Rebalance

Spec == Init /\ [][Next]_vars

-----------------------------------------------------------------------------
\* The stored document has nodes, workers and a share of a GPU.
TypeOK ==
  /\ saves \in 0..MaxSaves
  /\ saves = 0 <=> stored = NoState
  /\ stored # NoState =>
       /\ stored.workers = Len(saved.workers)
       /\ \A w \in Range(saved.workers) : w.gpu \in Gpus
       /\ stored.halves \in 1..Whole

\* What ReplaceDesiredState commits can be loaded again: the document the
\* projector writes satisfies the validator and names nodes the renderer knows.
StoredPlaneLoads == stored # NoState => Loads(stored)

\* The plane that is read back runs its instances where the saved plane ran
\* them: the nodes of the infer instances, and each worker's node, GPU and
\* infer instance.
LoadedIsSaved ==
  stored # NoState /\ Loads(stored) =>
    LET loaded == LoadDesiredState(stored)
        Where(w) == <<w.node, w.gpu, w.infer>>
    IN /\ loaded.infers = saved.infers
       /\ [i \in DOMAIN loaded.workers |-> Where(loaded.workers[i])]
            = [i \in DOMAIN saved.workers |-> Where(saved.workers[i])]
=============================================================================
