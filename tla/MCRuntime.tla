----------------------------- MODULE MCRuntime -----------------------------
(***************************************************************************)
(* Instances for TLC of the knowledge service, of the stored planes, of       *)
(* hostd's application of a slice, of telemetry streams and of stored         *)
(* conversations.  As in MCServices, a behaviour is a behaviour of one part,  *)
(* chosen at the start.                                                     *)
(***************************************************************************)
EXTENDS KnowledgeStore, Sequences, TLC

CONSTANTS
  Parts,             \* the parts this run explores
  t1, t2, t3,        \* request threads
  b1, b2,            \* knowledge blocks
  o1, o2, NoOverlay, \* overlays of planes
  n1, n2, local, NoNode, g1, g2, NoGpu, NoState, \* hosts and GPUs of planes
  p1, p2, disk1, disk2  \* planes of a node, their shared and their private disk

VARIABLE part

-----------------------------------------------------------------------------
(* naim-knowledged, with the constants of the cfg: two blocks, the second of     *)
(* which has the id "v:b1".  "graph": overlapping requests for blocks and       *)
(* relations; "sources": overlapping requests for sources; "turns": all         *)
(* requests, one after the other.                                             *)
OneRelation == {<<b1, b2>>}
NoOrBothTerms == {{}, {"w", "v"}}
SecondEndsInFirst == {<<<<"v", b1>>, b2>>, <<<<"w", b2>>, b1>>, <<<<"v", b2>>, b1>>}

storeVars == vars

Ingest == INSTANCE KnowledgeStore WITH
  Texts <- {{"w"}}, EndsIn <- {}, Commands <- {"ingest", "forget", "cleanup"}
InTurn == INSTANCE KnowledgeStore WITH
  Threads <- {t1}, MaxCommands <- 3,
  Commands <- {"write", "head", "relate", "delete", "ingest", "forget", "cleanup", "repair"}

StoreInit == IF part = "turns" THEN InTurn!Init ELSE Init
StoreNext ==
  \/ part = "graph" /\ Next
  \/ part = "sources" /\ Ingest!Next
  \/ part = "turns" /\ InTurn!Next

-----------------------------------------------------------------------------
(* "merge": overlays of a plane, merges that fail, decisions on reviews.      *)
VARIABLES mergeLatest, stored, checkpoints, reviews, mergeHead, taken, mergeOp,
          merges, decisions, crashes

mergeVars == <<mergeLatest, stored, checkpoints, reviews, mergeHead, taken, mergeOp,
               merges, decisions, crashes>>

Merge == INSTANCE KnowledgeMerge WITH
  latest <- mergeLatest, head <- mergeHead, op <- mergeOp,
  Overlays <- {o1, o2}, Kinds <- {"sure", "unsure", "protected"}, Threads <- {t1},
  Decisions <- {"accept", "reject"}, MaxCrashes <- 1, MaxMerges <- 2

-----------------------------------------------------------------------------
(* Stored planes.  "planes": one infer replica, workers that the scheduler      *)
(* moves; "replicas": two replicas, workers that stay where they were placed;  *)
(* "pair": two workers on an execution node.  The topologies name both hosts,  *)
(* one of which runs workers only, in either order.                           *)
VARIABLES planeDocument, savedState, saves

documentVars == <<planeDocument, savedState, saves>>

Hosts == {n1, n2, local}
Host(n) == [name |-> n, mode |-> IF n = n2 THEN "worker-only" ELSE "mixed", gpus |-> {}]
At(n, g) == [node |-> n, gpu |-> g]

Document(executionNode, topology, llm, workers, replicas) ==
  [executionNode |-> executionNode, topology |-> topology, llm |-> llm, workers |-> workers,
   inferEnabled |-> TRUE, replicas |-> replicas, inferNode |-> NoNode, workerNode |-> NoNode,
   workerGpu |-> NoGpu, assignments |-> <<>>, halves |-> 2]

OnBothHosts(replicas) ==
  {[Document(NoNode, t, l, w, r) EXCEPT !.inferNode = i, !.workerNode = n, !.assignments = a] :
     t \in {<<Host(n1), Host(n2)>>, <<Host(n2), Host(n1)>>}, l \in {TRUE}, w \in {1, 2},
     r \in replicas, i \in {NoNode, n1}, n \in {NoNode, n1, n2},
     a \in {<<>>} \union {<<At(x, g), At(y, NoGpu)>> : x \in {n1, n2}, y \in {n1, n2}, g \in {g1, NoGpu}}}
OnOneHost ==
  {Document(n1, <<>>, TRUE, 1, 1), Document(n1, <<>>, FALSE, 1, 0), Document(NoNode, <<>>, TRUE, 1, 1),
   Document(NoNode, <<Host(n1)>>, TRUE, 1, 1),
   [Document(n1, <<>>, TRUE, 2, 1) EXCEPT !.workerGpu = g1, !.halves = 1]}

StoredPlanes(requests, operations) == INSTANCE DesiredState WITH
  stored <- planeDocument, saved <- savedState,
  Nodes <- Hosts, LocalNode <- local, GpusOf <- [n \in Hosts |-> {g1, g2}],
  ModeOf <- [n \in Hosts |-> Host(n).mode],
  Requests <- requests, Commands <- operations, MaxSaves <- 3

\* What each part asks of the controller.
Questions ==
  {[part |-> "planes", documents |-> OnBothHosts({1}) \union OnOneHost,
    commands |-> {"upsert", "edit", "rebalance"}],
   [part |-> "replicas", documents |-> OnBothHosts({2}), commands |-> {"upsert", "edit"}],
   [part |-> "pair", documents |-> {Document(n1, <<>>, TRUE, 2, 1)}, commands |-> {"upsert"}]}

StoredNext ==
  \E question \in Questions :
    part = question.part /\ StoredPlanes(question.documents, question.commands)!Next

-----------------------------------------------------------------------------
(* hostd on a node.  "primary": one plane on its primary infer node;           *)
(* "secondary": two planes on a node that is not.                            *)
VARIABLES row, disk, compose, running, state, torn, generation, aggregate, proc,
          halfway, strayed, rows, abandons

nodeVars == <<row, disk, compose, running, state, torn, generation, aggregate, proc,
              halfway, strayed, rows, abandons>>

Slice(shared, private, services) ==
  [disks |-> (disk1 :> shared @@ disk2 :> private), services |-> services]
NodeSlices ==
  {Slice(shared, private, services) : shared \in {1, 2}, private \in {0, 1}, services \in 0 .. 2}
  \union {Slice(0, 0, 0)}
\* The second set of instances comes with one set of disks.
FewerSlices == {slice \in NodeSlices : slice.services = 2 => slice.disks = Slice(1, 1, 2).disks}

OnPrimary == INSTANCE NodeApply WITH
  Planes <- {p1}, Disks <- {disk1, disk2}, Shared <- disk1, Slices <- FewerSlices,
  MaxContent <- 2, Primary <- TRUE, MaxRows <- 3, MaxAbandons <- 2
OnSecondary == INSTANCE NodeApply WITH
  Planes <- {p1, p2}, Disks <- {disk1, disk2}, Shared <- disk1, Slices <- NodeSlices,
  MaxContent <- 2, Primary <- FALSE, MaxRows <- 2, MaxAbandons <- 1

NodeInit == IF part = "secondary" THEN OnSecondary!Init ELSE OnPrimary!Init
NodeNext ==
  \/ part = "primary" /\ OnPrimary!Next
  \/ part = "secondary" /\ OnSecondary!Next

-----------------------------------------------------------------------------
(* Telemetry.  "frames": two nodes with clocks of their own; "burst": a node     *)
(* that sends faster than the stream takes.                                   *)
VARIABLES history, pruned, newestKept, durable, stream, browser, fetched, newest, owed,
          breaks, restarts

streamVars == <<history, pruned, newestKept, durable, stream, browser, fetched, newest, owed,
                breaks, restarts>>

Frames == INSTANCE TelemetryStream WITH
  latest <- newestKept, Nodes <- {n1, n2}, LiveStream <- TRUE, HotCapacity <- 1, BatchLimit <- 2,
  Durable <- 1, IdModulus <- 2, MaxSequence <- 3, MaxBreaks <- 1, MaxRestarts <- 1
Burst == INSTANCE TelemetryStream WITH
  latest <- newestKept, Nodes <- {n1}, LiveStream <- FALSE, HotCapacity <- 2, BatchLimit <- 1,
  Durable <- 2, IdModulus <- 3, MaxSequence <- 4, MaxBreaks <- 1, MaxRestarts <- 1

StreamInit == IF part = "burst" THEN Burst!Init ELSE Frames!Init
StreamNext ==
  \/ part = "frames" /\ Frames!Next
  \/ part = "burst" /\ Burst!Next

-----------------------------------------------------------------------------
(* A conversation.  "chat": two threads, two weeks without use and a death of    *)
(* the controller; "forget": a deletion; "again": a deletion, and enough        *)
(* threads for the deleted session to be inserted again by two of them.       *)
VARIABLES session, messages, archive, file, thread, turnsSaved, exposed,
          asked, ages, deletes, deaths

chatVars == <<session, messages, archive, file, thread, turnsSaved, exposed,
              asked, ages, deletes, deaths>>

Chat == INSTANCE Conversation WITH
  row <- session, saved <- turnsSaved, requests <- asked,
  Threads <- {t1, t2}, MaxRequests <- 3, MaxAges <- 2, MaxDeletes <- 0, MaxDeaths <- 1
Forget == INSTANCE Conversation WITH
  row <- session, saved <- turnsSaved, requests <- asked,
  Threads <- {t1, t2}, MaxRequests <- 3, MaxAges <- 1, MaxDeletes <- 1, MaxDeaths <- 0
Again == INSTANCE Conversation WITH
  row <- session, saved <- turnsSaved, requests <- asked,
  Threads <- {t1, t2, t3}, MaxRequests <- 3, MaxAges <- 0, MaxDeletes <- 1, MaxDeaths <- 0

ChatInit == IF part = "again" THEN Again!Init ELSE Chat!Init
ChatNext ==
  \/ part = "chat" /\ Chat!Next
  \/ part = "forget" /\ Forget!Next
  \/ part = "again" /\ Again!Next

-----------------------------------------------------------------------------
runtimeVars == <<part, storeVars, mergeVars, documentVars, nodeVars, streamVars, chatVars>>

RuntimeInit ==
  /\ part \in Parts
  /\ StoreInit /\ Merge!Init /\ StoredPlanes({}, {})!Init /\ NodeInit /\ StreamInit
  /\ ChatInit

RuntimeNext ==
  \/ StoreNext /\ UNCHANGED <<part, mergeVars, documentVars, nodeVars, streamVars, chatVars>>
  \/ part = "merge" /\ Merge!Next
     /\ UNCHANGED <<part, storeVars, documentVars, nodeVars, streamVars, chatVars>>
  \/ StoredNext /\ UNCHANGED <<part, storeVars, mergeVars, nodeVars, streamVars, chatVars>>
  \/ NodeNext /\ UNCHANGED <<part, storeVars, mergeVars, documentVars, streamVars, chatVars>>
  \/ StreamNext /\ UNCHANGED <<part, storeVars, mergeVars, documentVars, nodeVars, chatVars>>
  \/ ChatNext /\ UNCHANGED <<part, storeVars, mergeVars, documentVars, nodeVars, streamVars>>

RuntimeSpec == RuntimeInit /\ [][RuntimeNext]_runtimeVars

-----------------------------------------------------------------------------
\* The state of the part has its type.
RuntimeTypeOK ==
  CASE part = "graph" -> TypeOK
    [] part = "sources" -> Ingest!TypeOK
    [] part = "turns" -> InTurn!TypeOK
    [] part = "merge" -> Merge!TypeOK
    [] part \in {question.part : question \in Questions} -> StoredPlanes({}, {})!TypeOK
    [] part = "primary" -> OnPrimary!TypeOK
    [] part = "secondary" -> OnSecondary!TypeOK
    [] part = "frames" -> Frames!TypeOK
    [] part = "burst" -> Burst!TypeOK
    [] part = "chat" -> Chat!TypeOK
    [] part = "forget" -> Forget!TypeOK
    [] part = "again" -> Again!TypeOK

\* No overlay is left behind by the checkpoints of the merges.
NoOverlayIsSkipped == Merge!NoOverlayIsSkipped

\* A plane that is stored can be loaded.
StoredPlaneLoads == StoredPlanes({}, {})!StoredPlaneLoads

\* A plane is loaded as it was saved.
LoadedIsSaved == StoredPlanes({}, {})!LoadedIsSaved

\* The local state of a node tells what the node runs,
RecordedStateIsInForce ==
  IF part = "secondary" THEN OnSecondary!RecordedStateIsInForce
  ELSE OnPrimary!RecordedStateIsInForce

\* and which disks it has.
RecordedDisksAreExact ==
  IF part = "secondary" THEN OnSecondary!RecordedDisksAreExact
  ELSE OnPrimary!RecordedDisksAreExact

\* The runtime of a node that is not the primary one finds its model.
RuntimeHasItsModel ==
  IF part = "secondary" THEN OnSecondary!RuntimeHasItsModel ELSE OnPrimary!RuntimeHasItsModel

\* The cursor of a telemetry stream passes no frame that its browser does not know of.
NoFrameIsPassedOver == Frames!NoFrameIsPassedOver

\* No stored turn of a conversation is lost.
SavedTurnIsKept ==
  CASE part = "forget" -> Forget!SavedTurnIsKept
    [] part = "again" -> Again!SavedTurnIsKept
    [] OTHER -> Chat!SavedTurnIsKept
=============================================================================
