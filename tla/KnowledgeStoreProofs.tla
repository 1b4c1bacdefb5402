------------------------ MODULE KnowledgeStoreProofs ------------------------
(***************************************************************************)
(* Proofs about KnowledgeStore, for any number of blocks, relations, sources, *)
(* request threads and requests: the tables have their types, relations are   *)
(* under both keys or under none, live blocks are indexed by their terms, and  *)
(* a source that goes through none of the windows is ingested once.            *)
(***************************************************************************)
EXTENDS KnowledgeStore, TLAPS

CommandNames ==
  {"write", "head", "relate", "unrelate", "delete", "ingest", "forget", "cleanup", "repair"}

\* The constants are what their comments say.
Sound ==
  /\ MaxCommands \in Nat /\ 1 .. MaxCommands \subseteq Ids
  /\ Commands \subseteq CommandNames /\ NoBlock \notin BlockIds
  /\ Texts \subseteq SUBSET Terms

-----------------------------------------------------------------------------
(* What a thread may hold.                                                   *)

DeleteSteps == {"delete", "deleteIndex", "deleteEdges", "deleteWrite"}
CleanupSteps == {"cleanBlocks", "cleanIndex", "cleanTombstones", "cleanWrite"}
RepairSteps == {"repairIndex", "repairBlocks", "repairEdges", "repairInverse", "repairWrite"}
Steps ==
  {"idle", "event", "eventWrite", "block", "headRead", "headPut", "relate", "unrelateScan",
   "unrelate", "lookup", "ingested", "record", "find", "forget"}
  \cup DeleteSteps \cup CleanupSteps \cup RepairSteps

Keys == Terms \X BlockIds
SeenType == [blocks : SUBSET BlockIds, index : SUBSET Keys, puts : SUBSET Keys,
             edges : SUBSET Relations, head : BOOLEAN, sources : SUBSET Sources]
OpType ==
  [cmd : Commands \cup {"none"}, at : Steps, next : {"end", "ingested", "forget", "record"},
   arg : BlockIds \cup Relations \cup Sources \cup {NoBlock}, id : Nat,
   block : BlockIds \cup {NoBlock}, text : SUBSET Terms, seq : Nat, seen : SeenType]

\* The argument and the block of a request.
RequestFits(o) ==
  /\ o.cmd \in {"ingest", "forget"} => o.arg \in Sources
  /\ o.cmd \in {"relate", "unrelate"} => o.arg \in Relations
  /\ o.cmd \in {"write", "head"} => o.block \in Blocks
  /\ o.cmd = "ingest" => o.id \in 1 .. MaxCommands /\ o.block \in {NoBlock, <<o.arg, o.id>>}
  /\ o.cmd = "forget" => o.block \in SourceBlocks \cup {NoBlock}

\* The steps of a request, and the one that follows its event.
StepFits(o) ==
  /\ o.at \in {"lookup", "ingested", "record"} \/ o.next \in {"ingested", "record"} =>
       o.cmd = "ingest"
  /\ o.at \in {"find", "forget"} \/ o.next = "forget" => o.cmd = "forget"
  /\ o.at \in {"block", "ingested", "record"} \/ o.next \in {"ingested", "record"} =>
       o.block \in BlockIds
  /\ o.at \in {"relate", "unrelateScan", "unrelate"} => o.cmd \in {"relate", "unrelate"}
  /\ o.at \in {"headRead", "headPut"} => o.cmd = "head"
  /\ o.at = "block" => o.cmd \in {"write", "ingest"}
  /\ o.at \in DeleteSteps => o.cmd \in {"delete", "forget"} /\ o.block \in BlockIds
  /\ o.at \in CleanupSteps => o.cmd = "cleanup"
  /\ o.at \in RepairSteps => o.cmd = "repair"

\* A key that ends in the id of another block than its own.
Foreign(k) == \E a \in BlockIds \ {k[2]} : <<k, a>> \in EndsIn

\* A deletion has seen keys of its block, a cleanup keys of blocks it will remove, and
\* both keys that end in the id of another block.
SeenFits(o) ==
  /\ o.at \in {"deleteEdges", "deleteWrite"} =>
       \A k \in o.seen.index : k[2] = o.block \/ Foreign(k)
  /\ o.at \in {"cleanTombstones", "cleanWrite"} =>
       \A k \in o.seen.index : k[2] \in o.seen.blocks \/ Foreign(k)

Fits(o) == o \in OpType /\ RequestFits(o) /\ StepFits(o) /\ SeenFits(o)

Typed ==
  /\ blocks \in [BlockIds -> {"none", "live", "deleted"}]
  /\ text \in [BlockIds -> SUBSET Terms]
  /\ index \subseteq Keys
  /\ head \in Blocks \cup {NoBlock}
  /\ out \subseteq Relations /\ in \subseteq Relations /\ buried \subseteq Relations
  /\ records \in [Sources -> SourceBlocks \cup {NoBlock}]
  /\ buriedSources \subseteq Sources /\ doubtful \subseteq Sources
  /\ latest \in Nat /\ commands \in 0 .. MaxCommands
  /\ op \in [Threads -> OpType]
  /\ \A t \in Threads : Fits(op[t])

\* Thread t goes on as o, which a thread may hold.
Becomes(t, o) == op' = [op EXCEPT ![t] = o] /\ Fits(o)

-----------------------------------------------------------------------------
(* Steps of a thread                                                         *)

LEMMA IdleFits == Fits(IdleOp)
  <1>1. Nothing \in SeenType
    BY DEF Nothing, SeenType
  <1>2. IdleOp \in OpType
    BY <1>1 DEF IdleOp, OpType, Steps
  <1>3. RequestFits(IdleOp) /\ StepFits(IdleOp) /\ SeenFits(IdleOp)
    BY DEF IdleOp, RequestFits, StepFits, SeenFits, DeleteSteps, CleanupSteps, RepairSteps
  <1> QED BY <1>2, <1>3 DEF Fits

LEMMA ThreadFacts ==
  ASSUME Typed, NEW t \in Threads
  PROVE  op[t] \in OpType /\ RequestFits(op[t]) /\ StepFits(op[t]) /\ SeenFits(op[t])
  BY DEF Typed, Fits

LEMMA BecomesTyped ==
  ASSUME Typed, NEW t \in Threads, NEW o, Becomes(t, o)
  PROVE  op' \in [Threads -> OpType] /\ \A u \in Threads : Fits(op'[u])
  <1>1. o \in OpType
    BY DEF Becomes, Fits
  <1>2. op \in [Threads -> OpType] /\ op' = [op EXCEPT ![t] = o]
    BY DEF Typed, Becomes
  <1>3. op' \in [Threads -> OpType]
    BY <1>1, <1>2
  <1>4. \A u \in Threads : op'[u] = IF u = t THEN o ELSE op[u]
    BY <1>2
  <1> QED BY <1>3, <1>4 DEF Typed, Becomes

\* A step that only changes where the thread is.
LEMMA GoesFits ==
  ASSUME Typed, NEW t \in Threads, NEW x \in Steps \cup {"end"}, Goes(t, x),
         x # "end" => StepFits([op[t] EXCEPT !.at = x]) /\ SeenFits([op[t] EXCEPT !.at = x])
  PROVE  Becomes(t, IF x = "end" THEN IdleOp ELSE [op[t] EXCEPT !.at = x])
  <1>1. CASE x = "end"
    BY <1>1, IdleFits DEF Goes, Becomes
  <1>2. CASE x # "end"
    <2>1. [op[t] EXCEPT !.at = x] \in OpType
      BY <1>2, ThreadFacts DEF OpType
    <2>2. RequestFits([op[t] EXCEPT !.at = x])
      BY ThreadFacts DEF OpType, RequestFits
    <2>3. op' = [op EXCEPT ![t] = [op[t] EXCEPT !.at = x]]
      BY <1>2 DEF Goes
    <2> QED BY <1>2, <2>1, <2>2, <2>3 DEF Becomes, Fits
  <1> QED BY <1>1, <1>2

\* A request goes on to its event, and from there to step x.
LEMMA EventFits ==
  ASSUME Typed, NEW t \in Threads, NEW x \in {"end", "ingested", "forget", "record"},
         GoesToEvent(t, x),
         x \in {"ingested", "record"} => op[t].cmd = "ingest" /\ op[t].block \in BlockIds,
         x = "forget" => op[t].cmd = "forget"
  PROVE  Becomes(t, [op[t] EXCEPT !.at = "event", !.next = x])
  <1> DEFINE o == [op[t] EXCEPT !.at = "event", !.next = x]
  <1>0. op[t] \in OpType /\ op \in [Threads -> OpType]
    BY DEF Typed
  <1>1. op' = [op EXCEPT ![t] = o]
    BY <1>0 DEF GoesToEvent
  <1>2. /\ o \in OpType /\ o.at = "event" /\ o.next = x /\ o.cmd = op[t].cmd /\ o.arg = op[t].arg
        /\ o.id = op[t].id /\ o.block = op[t].block
    BY <1>0 DEF OpType, Steps
  <1> HIDE DEF o
  <1>3. RequestFits(o)
    BY <1>2, ThreadFacts DEF RequestFits
  <1>4. StepFits(o) /\ SeenFits(o)
    BY <1>2 DEF StepFits, SeenFits, DeleteSteps, CleanupSteps, RepairSteps
  <1>5. Becomes(t, o)
    BY <1>1, <1>2, <1>3, <1>4 DEF Becomes, Fits
  <1> QED BY <1>5 DEF o

\* A scan of a deletion, a cleanup or a repair.
LEMMA ScanFits ==
  ASSUME Typed, NEW t \in Threads, NEW x \in Steps, NEW s \in SeenType,
         op' = [op EXCEPT ![t] = [op[t] EXCEPT !.at = x, !.seen = s]],
         \/ op[t].at \in DeleteSteps /\ x \in DeleteSteps
         \/ op[t].at \in CleanupSteps /\ x \in CleanupSteps
         \/ op[t].at \in RepairSteps /\ x \in RepairSteps,
         x \in {"deleteEdges", "deleteWrite"} =>
           \A k \in s.index : k[2] = op[t].block \/ Foreign(k),
         x \in {"cleanTombstones", "cleanWrite"} =>
           \A k \in s.index : k[2] \in s.blocks \/ Foreign(k)
  PROVE  Becomes(t, [op[t] EXCEPT !.at = x, !.seen = s])
  <1> DEFINE o == [op[t] EXCEPT !.at = x, !.seen = s]
  <1>0. op[t] \in OpType
    BY DEF Typed
  <1>1. op' = [op EXCEPT ![t] = o]
    OBVIOUS
  <1>2. /\ o \in OpType /\ o.at = x /\ o.next = op[t].next /\ o.cmd = op[t].cmd
        /\ o.arg = op[t].arg /\ o.id = op[t].id /\ o.block = op[t].block /\ o.seen = s
    BY <1>0 DEF OpType
  <1> HIDE DEF o
  <1>3. RequestFits(o)
    BY <1>2, ThreadFacts DEF RequestFits
  <1>4. StepFits(o) /\ SeenFits(o)
    BY <1>2, ThreadFacts DEF StepFits, SeenFits, DeleteSteps, CleanupSteps, RepairSteps
  <1>5. Becomes(t, o)
    BY <1>1, <1>2, <1>3, <1>4 DEF Becomes, Fits
  <1> QED BY <1>5 DEF o

\* The event of a request.
LEMMA EventStep ==
  ASSUME Sound, Typed, NEW t \in Threads, AppendEventReads(t) \/ AppendEventWrites(t)
  PROVE  Typed' /\ \E o : Becomes(t, o)
  <1>0. op[t] \in OpType /\ op \in [Threads -> OpType] /\ latest \in Nat
    BY DEF Typed
  <1>1. CASE AppendEventReads(t)
    <2>0. PICK k \in Nat : k = latest + 1
      BY <1>0
    <2> DEFINE o == [op[t] EXCEPT !.at = "eventWrite", !.seq = k]
    <2>1. op' = [op EXCEPT ![t] = o]
      <3>1. op' = [op EXCEPT ![t].at = "eventWrite", ![t].seq = k]
        BY <1>1, <2>0 DEF AppendEventReads
      <3> QED BY <1>0, <3>1, Zenon
    <2>2. /\ o \in OpType /\ o.at = "eventWrite" /\ o.next = op[t].next /\ o.cmd = op[t].cmd
          /\ o.arg = op[t].arg /\ o.id = op[t].id /\ o.block = op[t].block
      BY <1>0 DEF OpType, Steps
    <2> HIDE DEF o
    <2>3. RequestFits(o)
      BY <2>2, ThreadFacts DEF RequestFits
    <2>4. StepFits(o) /\ SeenFits(o)
      BY <2>2, ThreadFacts DEF StepFits, SeenFits, DeleteSteps, CleanupSteps, RepairSteps
    <2>5. Becomes(t, o)
      BY <2>1, <2>2, <2>3, <2>4 DEF Becomes, Fits
    <2> QED BY <1>1, <2>5, BecomesTyped DEF Typed, AppendEventReads, graph, sources
  <1>2. CASE AppendEventWrites(t)
    <2> DEFINE x == op[t].next
    <2>1. x \in {"end", "ingested", "forget", "record"} /\ op[t].seq \in Nat
      BY <1>0 DEF OpType
    <2>2. StepFits([op[t] EXCEPT !.at = x]) /\ SeenFits([op[t] EXCEPT !.at = x])
      BY <1>0, <2>1, ThreadFacts DEF StepFits, SeenFits, OpType, DeleteSteps, CleanupSteps,
         RepairSteps
    <2>3. Becomes(t, IF x = "end" THEN IdleOp ELSE [op[t] EXCEPT !.at = x])
      BY <1>2, <2>1, <2>2, GoesFits DEF AppendEventWrites, Steps
    <2>4. latest' \in Nat
      BY <1>2, <2>1 DEF AppendEventWrites
    <2> HIDE DEF x
    <2> QED BY <1>2, <2>3, <2>4, BecomesTyped DEF Typed, AppendEventWrites, graph, sources
  <1> QED BY <1>1, <1>2

\* Blocks, heads and relations.
LEMMA WriteBlockStep ==
  ASSUME Sound, Typed, NEW t \in Threads, WriteBlock(t)
  PROVE  /\ Typed' /\ Becomes(t, [op[t] EXCEPT !.at = "event",
              !.next = IF op[t].cmd = "ingest" THEN "ingested" ELSE "end"])
         /\ op[t].block \in BlockIds
  <1>1. op[t].block \in BlockIds
    BY ThreadFacts DEF WriteBlock, StepFits
  <1>2. Becomes(t, [op[t] EXCEPT !.at = "event",
                      !.next = IF op[t].cmd = "ingest" THEN "ingested" ELSE "end"])
    BY <1>1, EventFits DEF WriteBlock
  <1>3. op' \in [Threads -> OpType] /\ \A u \in Threads : Fits(op'[u])
    BY <1>2, BecomesTyped
  <1>4. op[t].text \in SUBSET Terms
    BY ThreadFacts DEF OpType
  <1>5. KeysOf(op[t].text, op[t].block) \subseteq Keys
    BY <1>1, <1>4 DEF KeysOf, Keys
  <1>6. /\ blocks' \in [BlockIds -> {"none", "live", "deleted"}] /\ index' \subseteq Keys
        /\ text' \in [BlockIds -> SUBSET Terms]
    BY <1>1, <1>4, <1>5 DEF WriteBlock, Typed
  <1> QED BY <1>1, <1>2, <1>3, <1>6 DEF Typed, WriteBlock, graph, sources

LEMMA HeadStep ==
  ASSUME Sound, Typed, NEW t \in Threads, UpdateHeadReads(t) \/ UpdateHeadPuts(t)
  PROVE  Typed' /\ \E o : Becomes(t, o)
  <1>1. CASE UpdateHeadReads(t)
    <2> DEFINE x == IF blocks[op[t].block] = "live" THEN "headPut" ELSE "end"
    <2>1. x \in {"headPut", "end"} /\ op[t].at = "headRead" /\ Goes(t, x)
      BY <1>1 DEF UpdateHeadReads
    <2> HIDE DEF x
    <2>2. x # "end" => StepFits([op[t] EXCEPT !.at = x]) /\ SeenFits([op[t] EXCEPT !.at = x])
      BY <2>1, ThreadFacts DEF StepFits, SeenFits, OpType, DeleteSteps, CleanupSteps, RepairSteps
    <2>3. Becomes(t, IF x = "end" THEN IdleOp ELSE [op[t] EXCEPT !.at = x])
      BY <2>1, <2>2, GoesFits DEF Steps
    <2> QED BY <1>1, <2>3, BecomesTyped DEF Typed, UpdateHeadReads, graph, sources
  <1>2. CASE UpdateHeadPuts(t)
    <2>1. op[t].block \in Blocks
      BY <1>2, ThreadFacts DEF UpdateHeadPuts, StepFits, RequestFits
    <2>2. Becomes(t, [op[t] EXCEPT !.at = "event", !.next = "end"])
      BY <1>2, EventFits DEF UpdateHeadPuts
    <2> QED BY <1>2, <2>1, <2>2, BecomesTyped DEF Typed, UpdateHeadPuts, graph, sources
  <1> QED BY <1>1, <1>2

LEMMA RelationStep ==
  ASSUME Sound, Typed, NEW t \in Threads,
         WriteRelation(t) \/ DeleteRelationScans(t) \/ DeleteRelationWrites(t)
  PROVE  Typed' /\ \E o : Becomes(t, o)
  <1>0. op[t].arg \in Relations
    BY ThreadFacts DEF WriteRelation, DeleteRelationScans, DeleteRelationWrites, StepFits,
       RequestFits
  <1>1. CASE WriteRelation(t) \/ DeleteRelationWrites(t)
    <2>1. Becomes(t, [op[t] EXCEPT !.at = "event", !.next = "end"])
      BY <1>1, EventFits DEF WriteRelation, DeleteRelationWrites
    <2>2. op' \in [Threads -> OpType] /\ \A u \in Threads : Fits(op'[u])
      BY <2>1, BecomesTyped
    <2>3. out' \subseteq Relations /\ in' \subseteq Relations /\ buried' \subseteq Relations
      BY <1>0, <1>1 DEF WriteRelation, DeleteRelationWrites, Typed
    <2> QED BY <1>1, <2>1, <2>2, <2>3 DEF Typed, WriteRelation, DeleteRelationWrites, sources
  <1>2. CASE DeleteRelationScans(t)
    <2> DEFINE x == IF op[t].arg \in out THEN "unrelate" ELSE "end"
    <2>1. x \in {"unrelate", "end"} /\ op[t].at = "unrelateScan" /\ Goes(t, x)
      BY <1>2 DEF DeleteRelationScans
    <2> HIDE DEF x
    <2>2. x # "end" => StepFits([op[t] EXCEPT !.at = x]) /\ SeenFits([op[t] EXCEPT !.at = x])
      BY <2>1, ThreadFacts DEF StepFits, SeenFits, OpType, DeleteSteps, CleanupSteps, RepairSteps
    <2>3. Becomes(t, IF x = "end" THEN IdleOp ELSE [op[t] EXCEPT !.at = x])
      BY <2>1, <2>2, GoesFits DEF Steps
    <2> QED BY <1>2, <2>3, BecomesTyped DEF Typed, DeleteRelationScans, graph, sources
  <1> QED BY <1>1, <1>2

\* The keys that a deletion of b finds.
LEMMA MatchedKeys ==
  ASSUME Typed, NEW b \in BlockIds
  PROVE  Matched(b) \subseteq Keys /\ \A k \in Matched(b) : k[2] = b \/ Foreign(k)
  BY DEF Typed, Matched, Foreign

\* DeleteBlock.
LEMMA DeleteReadStep ==
  ASSUME Sound, Typed, NEW t \in Threads, DeleteBlockReads(t)
  PROVE  /\ Typed' /\ op[t].block \in BlockIds
         /\ \E x \in {"deleteIndex", "forget", "end"} :
              /\ Becomes(t, IF x = "end" THEN IdleOp ELSE [op[t] EXCEPT !.at = x])
              /\ x # "deleteIndex" => blocks[op[t].block] = "none"
  <1> DEFINE x == IF blocks[op[t].block] # "none" THEN "deleteIndex"
                  ELSE IF op[t].cmd = "forget" THEN "forget" ELSE "end"
  <1>1. /\ x \in {"deleteIndex", "forget", "end"} /\ op[t].at = "delete" /\ Goes(t, x)
        /\ x = "forget" => op[t].cmd = "forget"
        /\ x # "deleteIndex" => blocks[op[t].block] = "none"
    BY DEF DeleteBlockReads
  <1> HIDE DEF x
  <1>2. x # "end" => StepFits([op[t] EXCEPT !.at = x]) /\ SeenFits([op[t] EXCEPT !.at = x])
    BY <1>1, ThreadFacts DEF StepFits, SeenFits, OpType, DeleteSteps, CleanupSteps, RepairSteps
  <1>3. Becomes(t, IF x = "end" THEN IdleOp ELSE [op[t] EXCEPT !.at = x])
    BY <1>1, <1>2, GoesFits DEF Steps, DeleteSteps
  <1>4. op[t].block \in BlockIds
    BY <1>1, ThreadFacts DEF StepFits, DeleteSteps
  <1> QED BY <1>1, <1>3, <1>4, BecomesTyped DEF Typed, DeleteBlockReads, graph, sources

LEMMA DeleteScanStep ==
  ASSUME Sound, Typed, NEW t \in Threads, DeleteBlockScansIndex(t) \/ DeleteBlockScansEdges(t)
  PROVE  /\ Typed'
         /\ \E x \in {"deleteEdges", "deleteWrite"}, s \in SeenType :
              Becomes(t, [op[t] EXCEPT !.at = x, !.seen = s])
  <1>0. op[t] \in OpType /\ op \in [Threads -> OpType] /\ op[t].seen \in SeenType
    BY DEF Typed, OpType
  <1>1. CASE DeleteBlockScansIndex(t)
    <2> DEFINE s == [op[t].seen EXCEPT !.index = Matched(op[t].block)]
    <2>1. op' = [op EXCEPT ![t] = [op[t] EXCEPT !.at = "deleteEdges", !.seen = s]]
      BY <1>0, <1>1 DEF DeleteBlockScansIndex
    <2>3. op[t].at = "deleteIndex" /\ op[t].block \in BlockIds
      BY <1>1, ThreadFacts DEF DeleteBlockScansIndex, StepFits, DeleteSteps
    <2>2. s \in SeenType /\ s.index = Matched(op[t].block)
      BY <1>0, <2>3, MatchedKeys DEF SeenType
    <2>5. \A k \in s.index : k[2] = op[t].block \/ Foreign(k)
      BY <2>2, <2>3, MatchedKeys
    <2> HIDE DEF s
    <2>4. Becomes(t, [op[t] EXCEPT !.at = "deleteEdges", !.seen = s])
      BY <2>1, <2>2, <2>3, <2>5, ScanFits DEF Steps, DeleteSteps
    <2> QED BY <1>1, <2>2, <2>4, BecomesTyped DEF Typed, DeleteBlockScansIndex, graph, sources
  <1>2. CASE DeleteBlockScansEdges(t)
    <2> DEFINE s == [op[t].seen EXCEPT
                       !.edges = {e \in out : e[1] = op[t].block \/ e[2] = op[t].block},
                       !.head = (head # NoBlock) /\ (op[t].block \in Blocks)]
    <2>1. op' = [op EXCEPT ![t] = [op[t] EXCEPT !.at = "deleteWrite", !.seen = s]]
      BY <1>0, <1>2 DEF DeleteBlockScansEdges
    <2>2. s \in SeenType /\ s.index = op[t].seen.index
      BY <1>0 DEF SeenType, Typed
    <2>3. /\ op[t].at = "deleteEdges"
          /\ \A k \in op[t].seen.index : k[2] = op[t].block \/ Foreign(k)
      BY <1>2, ThreadFacts DEF DeleteBlockScansEdges, SeenFits
    <2> HIDE DEF s
    <2>4. Becomes(t, [op[t] EXCEPT !.at = "deleteWrite", !.seen = s])
      BY <2>1, <2>2, <2>3, ScanFits DEF Steps, DeleteSteps
    <2> QED BY <1>2, <2>2, <2>4, BecomesTyped DEF Typed, DeleteBlockScansEdges, graph, sources
  <1> QED BY <1>1, <1>2

LEMMA DeleteWriteStep ==
  ASSUME Sound, Typed, NEW t \in Threads, DeleteBlockWrites(t)
  PROVE  /\ Typed' /\ op[t].block \in BlockIds
         /\ Becomes(t, [op[t] EXCEPT !.at = "event",
                          !.next = IF op[t].cmd = "forget" THEN "forget" ELSE "end"])
  <1>1. op[t].at = "deleteWrite" /\ op[t].block \in BlockIds
    BY ThreadFacts DEF DeleteBlockWrites, StepFits, DeleteSteps
  <1>2. Becomes(t, [op[t] EXCEPT !.at = "event",
                      !.next = IF op[t].cmd = "forget" THEN "forget" ELSE "end"])
    BY EventFits DEF DeleteBlockWrites
  <1>3. op' \in [Threads -> OpType] /\ \A u \in Threads : Fits(op'[u])
    BY <1>2, BecomesTyped
  <1>4. op[t].seen.edges \subseteq Relations
    BY ThreadFacts DEF OpType, SeenType
  <1>5. /\ blocks' \in [BlockIds -> {"none", "live", "deleted"}] /\ index' \subseteq Keys
        /\ out' \subseteq Relations /\ in' \subseteq Relations /\ buried' \subseteq Relations
        /\ head' \in Blocks \cup {NoBlock}
    BY <1>1, <1>4 DEF DeleteBlockWrites, Typed
  <1> QED BY <1>1, <1>2, <1>3, <1>5 DEF Typed, DeleteBlockWrites, sources

\* Sources.
LEMMA LookUpStep ==
  ASSUME Sound, Typed, NEW t \in Threads, IngestSourceLooksUp(t)
  PROVE  /\ Typed' /\ op[t].cmd = "ingest" /\ op[t].arg \in Sources
         /\ NewId(t) \in SourceBlocks /\ NewId(t) \in BlockIds
         /\ op[t].id \in 1 .. MaxCommands
         /\ IF records[op[t].arg] # NoBlock
            THEN Becomes(t, [op[t] EXCEPT !.at = "event", !.next = "end"])
            ELSE Becomes(t, [op[t] EXCEPT !.at = "block", !.block = NewId(t)])
  <1>0. op[t] \in OpType /\ op \in [Threads -> OpType] /\ op[t].at = "lookup"
    BY DEF Typed, IngestSourceLooksUp
  <1>1. op[t].cmd = "ingest" /\ op[t].arg \in Sources /\ op[t].id \in 1 .. MaxCommands
    BY <1>0, ThreadFacts DEF StepFits, RequestFits
  <1>2. NewId(t) \in SourceBlocks /\ NewId(t) \in BlockIds
    BY <1>1 DEF NewId, SourceBlocks, BlockIds, Sound
  <1>5. doubtful' \subseteq Sources
    BY <1>1 DEF IngestSourceLooksUp, Typed
  <1>3. CASE records[op[t].arg] # NoBlock
    <2>1. Becomes(t, [op[t] EXCEPT !.at = "event", !.next = "end"])
      BY <1>3, EventFits DEF IngestSourceLooksUp
    <2> QED BY <1>1, <1>2, <1>3, <1>5, <2>1, BecomesTyped DEF Typed, IngestSourceLooksUp, graph
  <1>4. CASE records[op[t].arg] = NoBlock
    <2> DEFINE o == [op[t] EXCEPT !.at = "block", !.block = NewId(t)]
    <2>1. op' = [op EXCEPT ![t].at = "block", ![t].block = NewId(t)]
      BY <1>4 DEF IngestSourceLooksUp
    <2>2. op' = [op EXCEPT ![t] = o]
      BY <1>0, <2>1
    <2>3. /\ o \in OpType /\ o.at = "block" /\ o.next = op[t].next /\ o.cmd = op[t].cmd
          /\ o.arg = op[t].arg /\ o.id = op[t].id /\ o.block = NewId(t)
      BY <1>0, <1>2 DEF OpType, Steps
    <2> HIDE DEF o
    <2>4. RequestFits(o)
      BY <1>1, <1>2, <2>3 DEF RequestFits, NewId
    <2>5. StepFits(o) /\ SeenFits(o)
      BY <1>1, <1>2, <2>3, ThreadFacts DEF StepFits, SeenFits, DeleteSteps, CleanupSteps, RepairSteps
    <2>6. Becomes(t, o)
      BY <2>2, <2>3, <2>4, <2>5 DEF Becomes, Fits
    <2>7. Typed'
      BY <1>5, <2>6, BecomesTyped DEF Typed, IngestSourceLooksUp, graph
    <2> QED BY <1>1, <1>2, <1>4, <2>6, <2>7 DEF o
  <1> QED BY <1>3, <1>4

LEMMA IngestEventStep ==
  ASSUME Sound, Typed, NEW t \in Threads, IngestSourceEvent(t)
  PROVE  Typed' /\ Becomes(t, [op[t] EXCEPT !.at = "event", !.next = "record"])
  <1>1. op[t].cmd = "ingest" /\ op[t].block \in BlockIds
    BY ThreadFacts DEF IngestSourceEvent, StepFits
  <1>2. Becomes(t, [op[t] EXCEPT !.at = "event", !.next = "record"])
    BY <1>1, EventFits DEF IngestSourceEvent
  <1> QED BY <1>2, BecomesTyped DEF Typed, IngestSourceEvent, graph, sources

LEMMA RecordStep ==
  ASSUME Sound, Typed, NEW t \in Threads, IngestSourceRecords(t)
  PROVE  /\ Typed' /\ Becomes(t, IdleOp)
         /\ op[t].cmd = "ingest" /\ op[t].arg \in Sources /\ op[t].block \in SourceBlocks
  <1>1. op[t].cmd = "ingest" /\ op[t].arg \in Sources /\ op[t].block \in SourceBlocks
    BY ThreadFacts DEF IngestSourceRecords, StepFits, RequestFits, Sound, SourceBlocks
  <1>2. Becomes(t, IdleOp)
    BY IdleFits DEF IngestSourceRecords, Goes, Becomes
  <1>3. records' \in [Sources -> SourceBlocks \cup {NoBlock}]
    BY <1>1 DEF IngestSourceRecords, Typed
  <1> QED BY <1>1, <1>2, <1>3, BecomesTyped DEF Typed, IngestSourceRecords, graph

LEMMA FindStep ==
  ASSUME Sound, Typed, NEW t \in Threads, DeleteSourceFinds(t)
  PROVE  /\ Typed' /\ op[t].cmd = "forget" /\ op[t].arg \in Sources
         /\ IF records[op[t].arg] = NoBlock THEN Becomes(t, IdleOp)
            ELSE Becomes(t, [op[t] EXCEPT !.at = "delete", !.block = records[op[t].arg]])
  <1>0. op[t] \in OpType /\ op \in [Threads -> OpType] /\ op[t].at = "find"
    BY DEF Typed, DeleteSourceFinds
  <1>1. op[t].cmd = "forget" /\ op[t].arg \in Sources
    BY <1>0, ThreadFacts DEF StepFits, RequestFits
  <1>3. CASE records[op[t].arg] = NoBlock
    <2>1. Becomes(t, IdleOp)
      BY <1>3, IdleFits DEF DeleteSourceFinds, Goes, Becomes
    <2> QED BY <1>1, <1>3, <2>1, BecomesTyped DEF Typed, DeleteSourceFinds, graph, sources
  <1>4. CASE records[op[t].arg] # NoBlock
    <2> DEFINE b == records[op[t].arg]
               o == [op[t] EXCEPT !.at = "delete", !.block = b]
    <2>1. op' = [op EXCEPT ![t].at = "delete", ![t].block = b]
      BY <1>4 DEF DeleteSourceFinds
    <2>2. op' = [op EXCEPT ![t] = o]
      BY <1>0, <2>1
    <2>3. b \in BlockIds
      BY <1>1, <1>4 DEF Typed, BlockIds
    <2>4. /\ o \in OpType /\ o.at = "delete" /\ o.next = op[t].next /\ o.cmd = op[t].cmd
          /\ o.arg = op[t].arg /\ o.id = op[t].id /\ o.block = b
      BY <1>0, <2>3 DEF OpType, Steps, DeleteSteps
    <2> HIDE DEF o
    <2>5. RequestFits(o)
      BY <1>1, <1>4, <2>4 DEF RequestFits, Typed
    <2>6. StepFits(o) /\ SeenFits(o)
      BY <1>1, <2>3, <2>4, ThreadFacts DEF StepFits, SeenFits, DeleteSteps, CleanupSteps, RepairSteps
    <2>7. Becomes(t, o)
      BY <2>2, <2>4, <2>5, <2>6 DEF Becomes, Fits
    <2>8. Typed'
      BY <2>7, BecomesTyped DEF Typed, DeleteSourceFinds, graph, sources
    <2> QED BY <1>1, <1>4, <2>7, <2>8 DEF o
  <1> QED BY <1>3, <1>4

LEMMA ForgetStep ==
  ASSUME Sound, Typed, NEW t \in Threads, DeleteSourceWrites(t)
  PROVE  /\ Typed' /\ Becomes(t, [op[t] EXCEPT !.at = "event", !.next = "end"])
         /\ op[t].cmd = "forget" /\ op[t].arg \in Sources
  <1>1. op[t].cmd = "forget" /\ op[t].arg \in Sources
    BY ThreadFacts DEF DeleteSourceWrites, StepFits, RequestFits
  <1>2. Becomes(t, [op[t] EXCEPT !.at = "event", !.next = "end"])
    BY EventFits DEF DeleteSourceWrites
  <1>3. /\ records' \in [Sources -> SourceBlocks \cup {NoBlock}]
        /\ buriedSources' \subseteq Sources /\ doubtful' \subseteq Sources
    BY <1>1 DEF DeleteSourceWrites, Typed
  <1> QED BY <1>1, <1>2, <1>3, BecomesTyped DEF Typed, DeleteSourceWrites, graph

\* Cleanup.
LEMMA CleanupScanStep ==
  ASSUME Sound, Typed, NEW t \in Threads,
         CleanupScansBlocks(t) \/ CleanupScansIndex(t) \/ CleanupScansTombstones(t)
  PROVE  /\ Typed'
         /\ \E x \in CleanupSteps, s \in SeenType :
              Becomes(t, [op[t] EXCEPT !.at = x, !.seen = s])
  <1>0. /\ op[t] \in OpType /\ op \in [Threads -> OpType] /\ op[t].seen \in SeenType
        /\ index \subseteq Keys /\ buried \subseteq Relations /\ buriedSources \subseteq Sources
    BY DEF Typed, OpType
  <1>1. CASE CleanupScansBlocks(t)
    <2> DEFINE s == [op[t].seen EXCEPT !.blocks = {b \in BlockIds : blocks[b] = "deleted"}]
    <2>1. op' = [op EXCEPT ![t] = [op[t] EXCEPT !.at = "cleanIndex", !.seen = s]]
      BY <1>0, <1>1 DEF CleanupScansBlocks
    <2>2. s \in SeenType
      BY <1>0 DEF SeenType
    <2>3. op[t].at = "cleanBlocks"
      BY <1>1 DEF CleanupScansBlocks
    <2> HIDE DEF s
    <2>4. Becomes(t, [op[t] EXCEPT !.at = "cleanIndex", !.seen = s])
      BY <2>1, <2>2, <2>3, ScanFits DEF Steps, CleanupSteps
    <2> QED BY <1>1, <2>2, <2>4, BecomesTyped DEF Typed, CleanupScansBlocks, graph, sources, CleanupSteps
  <1>2. CASE CleanupScansIndex(t)
    <2>0. PICK h \in BOOLEAN : h = (head \in op[t].seen.blocks)
      <3>1. CASE head \in op[t].seen.blocks
        <4>1. TRUE = (head \in op[t].seen.blocks)
          BY <3>1
        <4> QED BY <4>1, Zenon
      <3>2. CASE head \notin op[t].seen.blocks
        <4>1. FALSE = (head \in op[t].seen.blocks)
          BY <3>2
        <4> QED BY <4>1, Zenon
      <3> QED BY <3>1, <3>2
    <2>00. PICK K : K = UNION {Matched(b) : b \in op[t].seen.blocks}
      OBVIOUS
    <2>01. K \subseteq Keys /\ \A k \in K : k[2] \in op[t].seen.blocks \/ Foreign(k)
      BY <1>0, <2>00, MatchedKeys DEF SeenType
    <2> DEFINE s == [op[t].seen EXCEPT !.index = K, !.head = h]
    <2>1. op' = [op EXCEPT ![t] = [op[t] EXCEPT !.at = "cleanTombstones", !.seen = s]]
      BY <1>0, <1>2, <2>0, <2>00 DEF CleanupScansIndex
    <2>2. s \in SeenType /\ s.index = K /\ s.blocks = op[t].seen.blocks
      BY <1>0, <2>01 DEF SeenType
    <2>3. op[t].at = "cleanIndex"
      BY <1>2 DEF CleanupScansIndex
    <2> HIDE DEF s
    <2>4. Becomes(t, [op[t] EXCEPT !.at = "cleanTombstones", !.seen = s])
      BY <2>01, <2>1, <2>2, <2>3, ScanFits DEF Steps, CleanupSteps
    <2> QED BY <1>2, <2>2, <2>4, BecomesTyped DEF Typed, CleanupScansIndex, graph, sources, CleanupSteps
  <1>3. CASE CleanupScansTombstones(t)
    <2> DEFINE s == [op[t].seen EXCEPT !.edges = buried, !.sources = buriedSources]
    <2>1. op' = [op EXCEPT ![t] = [op[t] EXCEPT !.at = "cleanWrite", !.seen = s]]
      BY <1>0, <1>3 DEF CleanupScansTombstones
    <2>2. s \in SeenType /\ s.index = op[t].seen.index /\ s.blocks = op[t].seen.blocks
      BY <1>0 DEF SeenType
    <2>3. /\ op[t].at = "cleanTombstones"
          /\ \A k \in op[t].seen.index : k[2] \in op[t].seen.blocks \/ Foreign(k)
      BY <1>3, ThreadFacts DEF CleanupScansTombstones, SeenFits
    <2> HIDE DEF s
    <2>4. Becomes(t, [op[t] EXCEPT !.at = "cleanWrite", !.seen = s])
      BY <2>1, <2>2, <2>3, ScanFits DEF Steps, CleanupSteps
    <2> QED BY <1>3, <2>2, <2>4, BecomesTyped DEF Typed, CleanupScansTombstones, graph, sources, CleanupSteps
  <1> QED BY <1>1, <1>2, <1>3

LEMMA CleanupWriteStep ==
  ASSUME Sound, Typed, NEW t \in Threads, CleanupWrites(t)
  PROVE  Typed' /\ Becomes(t, [op[t] EXCEPT !.at = "event", !.next = "end"])
  <1>1. Becomes(t, [op[t] EXCEPT !.at = "event", !.next = "end"])
    BY EventFits DEF CleanupWrites
  <1>2. op' \in [Threads -> OpType] /\ \A u \in Threads : Fits(op'[u])
    BY <1>1, BecomesTyped
  <1>4. op[t].seen.sources \subseteq Sources
    BY ThreadFacts DEF OpType, SeenType
  <1>3. /\ blocks' \in [BlockIds -> {"none", "live", "deleted"}] /\ index' \subseteq Keys
        /\ text' \in [BlockIds -> SUBSET Terms]
        /\ out' \subseteq Relations /\ in' \subseteq Relations
        /\ head' \in Blocks \cup {NoBlock}
        /\ records' \in [Sources -> SourceBlocks \cup {NoBlock}]
        /\ doubtful' \subseteq Sources
    BY <1>4 DEF CleanupWrites, Typed
  <1> QED BY <1>1, <1>2, <1>3 DEF Typed, CleanupWrites

\* Repair.
LEMMA RepairScanStep ==
  ASSUME Sound, Typed, NEW t \in Threads,
         \/ RepairScansIndex(t) \/ RepairScansBlocks(t) \/ RepairScansEdges(t)
         \/ RepairLooksUpInverse(t)
  PROVE  /\ Typed'
         /\ \E x \in RepairSteps, s \in SeenType :
              /\ Becomes(t, [op[t] EXCEPT !.at = x, !.seen = s])
              /\ x \in {"repairEdges", "repairInverse", "repairWrite"} =>
                   \/ (\A b \in BlockIds : blocks[b] = "live" => KeysOf(text[b], b) \subseteq s.puts)
                        /\ x = "repairEdges"
                   \/ s.puts = op[t].seen.puts
                        /\ op[t].at \in {"repairEdges", "repairInverse"}
              /\ x = "repairInverse" => s.edges = out
              /\ x = "repairWrite" => op[t].at = "repairInverse" /\ s.edges = op[t].seen.edges \ in
  <1>0. /\ op[t] \in OpType /\ op \in [Threads -> OpType] /\ op[t].seen \in SeenType
        /\ index \subseteq Keys /\ out \subseteq Relations
    BY DEF Typed, OpType
  <1>1. CASE RepairScansIndex(t)
    <2> DEFINE s == [op[t].seen EXCEPT !.index = index]
    <2>1. op' = [op EXCEPT ![t] = [op[t] EXCEPT !.at = "repairBlocks", !.seen = s]]
      BY <1>0, <1>1 DEF RepairScansIndex
    <2>2. s \in SeenType
      BY <1>0 DEF SeenType
    <2>3. op[t].at = "repairIndex"
      BY <1>1 DEF RepairScansIndex
    <2> HIDE DEF s
    <2>4. Becomes(t, [op[t] EXCEPT !.at = "repairBlocks", !.seen = s])
      BY <2>1, <2>2, <2>3, ScanFits DEF Steps, RepairSteps
    <2>5. Typed'
      BY <1>1, <2>4, BecomesTyped DEF Typed, RepairScansIndex, graph, sources
    <2> QED BY <2>2, <2>4, <2>5 DEF RepairSteps
  <1>2. CASE RepairScansBlocks(t)
    <2>00. PICK K : K = UNION {KeysOf(text[b], b) : b \in {x \in BlockIds : blocks[x] = "live"}}
      OBVIOUS
    <2>01. \A b \in BlockIds : blocks[b] = "live" => KeysOf(text[b], b) \subseteq K
      BY <2>00
    <2>02. \A b \in BlockIds : KeysOf(text[b], b) \subseteq Keys
      BY DEF Typed, KeysOf, Keys
    <2>03. K \subseteq Keys
      BY <2>00, <2>02
    <2> DEFINE s == [op[t].seen EXCEPT !.puts = K]
    <2>1. op' = [op EXCEPT ![t] = [op[t] EXCEPT !.at = "repairEdges", !.seen = s]]
      BY <1>0, <1>2, <2>00 DEF RepairScansBlocks
    <2>2. s \in SeenType /\ s.puts = K
      BY <1>0, <2>03 DEF SeenType
    <2>3. op[t].at = "repairBlocks"
      BY <1>2 DEF RepairScansBlocks
    <2> HIDE DEF s
    <2>4. Becomes(t, [op[t] EXCEPT !.at = "repairEdges", !.seen = s])
      BY <2>1, <2>2, <2>3, ScanFits DEF Steps, RepairSteps
    <2>5. Typed'
      BY <1>2, <2>4, BecomesTyped DEF Typed, RepairScansBlocks, graph, sources
    <2> QED BY <2>01, <2>2, <2>4, <2>5 DEF RepairSteps
  <1>3. CASE RepairScansEdges(t)
    <2> DEFINE s == [op[t].seen EXCEPT !.edges = out]
    <2>1. op' = [op EXCEPT ![t] = [op[t] EXCEPT !.at = "repairInverse", !.seen = s]]
      BY <1>0, <1>3 DEF RepairScansEdges
    <2>2. s \in SeenType /\ s.puts = op[t].seen.puts /\ s.edges = out
      BY <1>0 DEF SeenType
    <2>3. op[t].at = "repairEdges"
      BY <1>3 DEF RepairScansEdges
    <2> HIDE DEF s
    <2>4. Becomes(t, [op[t] EXCEPT !.at = "repairInverse", !.seen = s])
      BY <2>1, <2>2, <2>3, ScanFits DEF Steps, RepairSteps
    <2>5. Typed'
      BY <1>3, <2>4, BecomesTyped DEF Typed, RepairScansEdges, graph, sources
    <2> QED BY <2>2, <2>3, <2>4, <2>5 DEF RepairSteps
  <1>4. CASE RepairLooksUpInverse(t)
    <2> DEFINE s == [op[t].seen EXCEPT !.edges = op[t].seen.edges \ in]
    <2>1. op' = [op EXCEPT ![t] = [op[t] EXCEPT !.at = "repairWrite", !.seen = s]]
      <3>1. op' = [op EXCEPT ![t].at = "repairWrite", ![t].seen.edges = @ \ in]
        BY <1>4 DEF RepairLooksUpInverse
      <3> QED BY <1>0, <3>1, Zenon
    <2>2. s \in SeenType /\ s.puts = op[t].seen.puts /\ s.edges = op[t].seen.edges \ in
      BY <1>0 DEF SeenType
    <2>3. op[t].at = "repairInverse"
      BY <1>4 DEF RepairLooksUpInverse
    <2> HIDE DEF s
    <2>4. Becomes(t, [op[t] EXCEPT !.at = "repairWrite", !.seen = s])
      BY <2>1, <2>2, <2>3, ScanFits DEF Steps, RepairSteps
    <2>5. Typed'
      BY <1>4, <2>4, BecomesTyped DEF Typed, RepairLooksUpInverse, graph, sources
    <2> QED BY <2>2, <2>3, <2>4, <2>5 DEF RepairSteps
  <1> QED BY <1>1, <1>2, <1>3, <1>4

LEMMA RepairWriteStep ==
  ASSUME Sound, Typed, NEW t \in Threads, RepairWrites(t)
  PROVE  Typed' /\ Becomes(t, [op[t] EXCEPT !.at = "event", !.next = "end"])
  <1>1. Becomes(t, [op[t] EXCEPT !.at = "event", !.next = "end"])
    BY EventFits DEF RepairWrites
  <1>2. op' \in [Threads -> OpType] /\ \A u \in Threads : Fits(op'[u])
    BY <1>1, BecomesTyped
  <1>3. op[t].seen.puts \subseteq Keys /\ op[t].seen.edges \subseteq Relations
    BY ThreadFacts DEF OpType, SeenType
  <1>4. index' \subseteq Keys /\ in' \subseteq Relations
    BY <1>3 DEF RepairWrites, Typed
  <1> QED BY <1>1, <1>2, <1>4 DEF Typed, RepairWrites, sources

-----------------------------------------------------------------------------
(* Requests arrive, the process dies                                         *)

LEMMA FirstSteps ==
  /\ First["write"] = "block" /\ First["head"] = "headRead" /\ First["relate"] = "relate"
  /\ First["unrelate"] = "unrelateScan" /\ First["delete"] = "delete"
  /\ First["ingest"] = "lookup" /\ First["forget"] = "find"
  /\ First["cleanup"] = "cleanBlocks" /\ First["repair"] = "repairIndex"
  BY DEF First

LEMMA ArgumentTypes ==
  ASSUME Sound, NEW c \in Commands, NEW x \in Arguments(c)
  PROVE  /\ c \in CommandNames
         /\ x \in BlockIds \cup Relations \cup Sources \cup {NoBlock}
         /\ c \in {"write", "head"} => x \in Blocks
         /\ c \in {"write", "head", "delete"} => x \in BlockIds
         /\ c \in {"relate", "unrelate"} => x \in Relations
         /\ c \in {"ingest", "forget"} => x \in Sources
  <1>1. c \in CommandNames
    BY DEF Sound
  <1>2. CASE c \in {"write", "head"}
    BY <1>1, <1>2 DEF Arguments, BlockIds
  <1>3. CASE c = "delete"
    BY <1>1, <1>3 DEF Arguments
  <1>4. CASE c \in {"relate", "unrelate"}
    BY <1>1, <1>4 DEF Arguments
  <1>5. CASE c \in {"ingest", "forget"}
    BY <1>1, <1>5 DEF Arguments
  <1>6. CASE c \in {"cleanup", "repair"}
    BY <1>1, <1>6 DEF Arguments
  <1> QED BY <1>1, <1>2, <1>3, <1>4, <1>5, <1>6 DEF CommandNames

LEMMA BeginStep ==
  ASSUME Sound, Typed, NEW t \in Threads, NEW c \in Commands, NEW x \in Arguments(c),
         NEW w \in TextsOf(c), Begin(t, c, x, w)
  PROVE  /\ Typed'
         /\ \E o : /\ Becomes(t, o) /\ o.cmd = c /\ o.next = "end"
                   /\ c = "ingest" => o.id = commands + 1
                   /\ c \in {"ingest", "forget"} => o.block = NoBlock
                   /\ o.at \notin {"block"} \/ c = "write"
                   /\ o.at \notin {"event", "eventWrite", "ingested", "record", "forget",
                                   "deleteIndex", "deleteEdges", "deleteWrite",
                                   "repairEdges", "repairInverse", "repairWrite"}
                   /\ o.at = "delete" => c = "delete"
  <1>1. PICK k : k = First[c]
    OBVIOUS
  <1>2. PICK i : i = IF c = "ingest" THEN commands' ELSE 0
    OBVIOUS
  <1>3. PICK b : b = IF c \in {"write", "head", "delete"} THEN x ELSE NoBlock
    OBVIOUS
  <1>4. op' = [op EXCEPT ![t] = [IdleOp EXCEPT !.cmd = c, !.at = k, !.arg = x, !.text = w,
                                            !.id = i, !.block = b]]
    BY <1>1, <1>2, <1>3 DEF Begin
  <1>5. commands' \in 1 .. MaxCommands /\ commands' \in 0 .. MaxCommands
    BY DEF Begin, Typed, Sound
  <1>6. i \in Nat /\ (c = "ingest" => i \in 1 .. MaxCommands)
    BY <1>2, <1>5
  <1>7. /\ b \in BlockIds \cup {NoBlock} /\ (c \in {"write", "head"} => b \in Blocks)
        /\ c \in {"write", "delete"} => b \in BlockIds
        /\ c \in {"ingest", "forget"} => b = NoBlock
    BY <1>3, ArgumentTypes
  <1>8. <<c, k>> \in {<<"write", "block">>, <<"head", "headRead">>, <<"relate", "relate">>,
                      <<"unrelate", "unrelateScan">>, <<"delete", "delete">>,
                      <<"ingest", "lookup">>, <<"forget", "find">>,
                      <<"cleanup", "cleanBlocks">>, <<"repair", "repairIndex">>}
    BY <1>1, FirstSteps, ArgumentTypes DEF CommandNames
  <1> DEFINE o == [IdleOp EXCEPT !.cmd = c, !.at = k, !.arg = x, !.text = w,
                                            !.id = i, !.block = b]
  <1>9. /\ o.cmd = c /\ o.at = k /\ o.arg = x /\ o.id = i /\ o.block = b /\ o.next = "end"
        /\ o \in OpType
    <2>1. k \in Steps /\ x \in BlockIds \cup Relations \cup Sources \cup {NoBlock}
      BY <1>8, ArgumentTypes DEF Steps, DeleteSteps, CleanupSteps, RepairSteps
    <2>2. IdleOp \in OpType
      BY IdleFits DEF Fits
    <2>3. w \in SUBSET Terms
      BY DEF TextsOf, Sound
    <2> QED BY <1>6, <1>7, <2>1, <2>2, <2>3 DEF OpType, IdleOp
  <1> HIDE DEF o
  <1>10. RequestFits(o)
    BY <1>6, <1>7, <1>9, ArgumentTypes DEF RequestFits
  <1>11. StepFits(o) /\ SeenFits(o)
    BY <1>7, <1>8, <1>9 DEF StepFits, SeenFits, DeleteSteps, CleanupSteps, RepairSteps
  <1>12. Becomes(t, o)
    BY <1>4, <1>9, <1>10, <1>11 DEF Becomes, Fits, o
  <1>13. Typed'
    BY <1>5, <1>12, BecomesTyped DEF Typed, Begin, graph, sources
  <1> QED BY <1>2, <1>7, <1>8, <1>9, <1>12, <1>13 DEF Begin

LEMMA CrashStep ==
  ASSUME Sound, Typed, Crash
  PROVE  Typed' /\ \A t \in Threads : op'[t] = IdleOp
  <1>1. op' = [t \in Threads |-> IdleOp]
    BY DEF Crash
  <1>2. op' \in [Threads -> OpType] /\ \A t \in Threads : op'[t] = IdleOp
    BY <1>1, IdleFits DEF Fits
  <1>3. doubtful' \subseteq Sources
    BY DEF Crash, Typed
  <1> QED BY <1>2, <1>3, IdleFits DEF Typed, Crash, graph

LEMMA InitTyped ==
  ASSUME Sound, Init
  PROVE  Typed /\ \A t \in Threads : op[t] = IdleOp
  <1>1. op \in [Threads -> OpType] /\ \A t \in Threads : op[t] = IdleOp
    BY IdleFits DEF Init, Fits
  <1> QED BY <1>1, IdleFits DEF Init, Typed, Sound

LEMMA StepTyped ==
  ASSUME Sound, Typed, NEW t \in Threads, Step(t)
  PROVE  Typed' /\ \E o : Becomes(t, o)
  BY EventStep, WriteBlockStep, HeadStep, RelationStep, DeleteReadStep, DeleteScanStep,
     DeleteWriteStep, LookUpStep, IngestEventStep, RecordStep, FindStep, ForgetStep,
     CleanupScanStep, CleanupWriteStep, RepairScanStep, RepairWriteStep DEF Step

LEMMA NextTyped ==
  ASSUME Sound, Typed, [Next]_vars
  PROVE  Typed'
  <1>1. CASE UNCHANGED vars
    BY <1>1 DEF vars, Typed
  <1>2. CASE Next
    BY <1>2, StepTyped, BeginStep, CrashStep DEF Next
  <1> QED BY <1>1, <1>2

LEMMA AlwaysTyped ==
  ASSUME Sound
  PROVE  Spec => []Typed
  <1>1. Init => Typed
    BY InitTyped
  <1>2. Typed /\ [Next]_vars => Typed'
    BY NextTyped
  <1> QED BY <1>1, <1>2, PTL DEF Spec

\* The records have their types and every thread works on a block that its request
\* may name, whatever requests overlap and wherever the process dies.
THEOREM TypeCorrect ==
  ASSUME Sound
  PROVE  Spec => []TypeOK
  <1>1. Typed => TypeOK
    BY DEF Typed, TypeOK, OpType, Keys
  <1> QED BY <1>1, AlwaysTyped, PTL

-----------------------------------------------------------------------------
(* Relations and the index.  RunRepair compares scans that it made one after   *)
(* the other; the properties below are about a store where it is not requested *)
(* while other requests run.                                                 *)

RepairIsAlone == "repair" \notin Commands \/ \E t : Threads = {t}

\* A repair that ran alone has seen the keys of every live block, and no edge without its inverse.
RepairSees(t) ==
  /\ op[t].at \in {"repairEdges", "repairInverse", "repairWrite"} =>
       \A b \in BlockIds : blocks[b] = "live" => KeysOf(text[b], b) \subseteq op[t].seen.puts
  /\ op[t].at \in {"repairInverse", "repairWrite"} => op[t].seen.edges \subseteq in

StoreInv == EdgesAreSymmetric /\ LiveBlockIsIndexed /\ \A t \in Threads : RepairSees(t)

RepairScan(t) ==
  \/ RepairScansIndex(t) \/ RepairScansBlocks(t) \/ RepairScansEdges(t) \/ RepairLooksUpInverse(t)

\* The other steps do not lead into a repair.
LEMMA NotInRepair ==
  ASSUME Sound, Typed, NEW t \in Threads, Step(t), ~RepairScan(t)
  PROVE  op'[t].at \notin RepairSteps
  <1>0. op[t] \in OpType /\ op \in [Threads -> OpType]
    BY DEF Typed
  <1>1. ASSUME NEW x, GoesToEvent(t, x) PROVE op'[t].at \notin RepairSteps
    BY <1>0, <1>1 DEF GoesToEvent, RepairSteps, OpType
  <1>2. ASSUME NEW x, Goes(t, x), x \notin RepairSteps PROVE op'[t].at \notin RepairSteps
    BY <1>0, <1>2 DEF Goes, RepairSteps, OpType, IdleOp
  <1>3. CASE AppendEventReads(t)
    BY <1>0, <1>3 DEF AppendEventReads, RepairSteps, OpType
  <1>4. CASE AppendEventWrites(t)
    BY <1>0, <1>2, <1>4 DEF AppendEventWrites, RepairSteps, OpType
  <1>5. CASE \/ WriteBlock(t) \/ UpdateHeadPuts(t) \/ WriteRelation(t) \/ DeleteRelationWrites(t)
             \/ DeleteBlockWrites(t) \/ IngestSourceEvent(t) \/ DeleteSourceWrites(t)
             \/ CleanupWrites(t) \/ RepairWrites(t)
    BY <1>1, <1>5 DEF WriteBlock, UpdateHeadPuts, WriteRelation, DeleteRelationWrites,
       DeleteBlockWrites, IngestSourceEvent, DeleteSourceWrites, CleanupWrites, RepairWrites
  <1>6. CASE UpdateHeadReads(t)
    BY <1>2, <1>6 DEF UpdateHeadReads, RepairSteps
  <1>7. CASE DeleteRelationScans(t)
    BY <1>2, <1>7 DEF DeleteRelationScans, RepairSteps
  <1>8. CASE DeleteBlockReads(t)
    BY <1>2, <1>8 DEF DeleteBlockReads, RepairSteps
  <1>9. CASE IngestSourceRecords(t)
    BY <1>2, <1>9 DEF IngestSourceRecords, RepairSteps
  <1>10. CASE DeleteBlockScansIndex(t) \/ DeleteBlockScansEdges(t)
    <2>1. PICK x \in {"deleteEdges", "deleteWrite"}, s \in SeenType :
            op' = [op EXCEPT ![t] = [op[t] EXCEPT !.at = x, !.seen = s]]
      BY <1>10, DeleteScanStep DEF Becomes
    <2> QED BY <1>0, <2>1 DEF OpType, RepairSteps
  <1>11. CASE CleanupScansBlocks(t) \/ CleanupScansIndex(t) \/ CleanupScansTombstones(t)
    <2>1. PICK x \in CleanupSteps, s \in SeenType :
            op' = [op EXCEPT ![t] = [op[t] EXCEPT !.at = x, !.seen = s]]
      BY <1>11, CleanupScanStep DEF Becomes
    <2> QED BY <1>0, <2>1 DEF OpType, RepairSteps, CleanupSteps
  <1>12. CASE IngestSourceLooksUp(t)
    <2>1. CASE GoesToEvent(t, "end")
      BY <1>1, <2>1
    <2>2. CASE op' = [op EXCEPT ![t].at = "block", ![t].block = NewId(t)]
      BY <1>0, <2>2 DEF RepairSteps, OpType
    <2> QED BY <1>12, <2>1, <2>2 DEF IngestSourceLooksUp
  <1>13. CASE DeleteSourceFinds(t)
    <2>1. CASE Goes(t, "end")
      BY <1>2, <2>1 DEF RepairSteps
    <2>2. CASE op' = [op EXCEPT ![t].at = "delete", ![t].block = records[op[t].arg]]
      BY <1>0, <2>2 DEF RepairSteps, OpType
    <2> QED BY <1>13, <2>1, <2>2 DEF DeleteSourceFinds
  <1> QED BY <1>3, <1>4, <1>5, <1>6, <1>7, <1>8, <1>9, <1>10, <1>11, <1>12, <1>13
        DEF Step, RepairScan

\* Without repairs no thread is in one.
LEMMA NoRepair ==
  ASSUME Typed', "repair" \notin Commands, NEW t \in Threads
  PROVE  RepairSees(t)'
  <1>1. op'[t] \in OpType /\ StepFits(op'[t])
    BY DEF Typed, Fits
  <1>2. op'[t].cmd # "repair"
    BY <1>1 DEF OpType
  <1>3. op'[t].at \notin RepairSteps
    BY <1>1, <1>2 DEF StepFits
  <1> QED BY <1>3 DEF RepairSees, RepairSteps

LEMMA RepairScanKeeps ==
  ASSUME Sound, Typed, StoreInv, NEW t \in Threads, Threads = {t}, RepairScan(t)
  PROVE  RepairSees(t)'
  <1>1. PICK x \in RepairSteps, s \in SeenType :
          /\ Becomes(t, [op[t] EXCEPT !.at = x, !.seen = s])
          /\ x \in {"repairEdges", "repairInverse", "repairWrite"} =>
               \/ (\A b \in BlockIds : blocks[b] = "live" => KeysOf(text[b], b) \subseteq s.puts)
                    /\ x = "repairEdges"
               \/ s.puts = op[t].seen.puts /\ op[t].at \in {"repairEdges", "repairInverse"}
          /\ x = "repairInverse" => s.edges = out
          /\ x = "repairWrite" => op[t].at = "repairInverse" /\ s.edges = op[t].seen.edges \ in
    BY RepairScanStep DEF RepairScan
  <1>2. op'[t].at = x /\ op'[t].seen = s
    <2>1. op[t] \in OpType /\ op \in [Threads -> OpType]
      BY DEF Typed
    <2>2. op' = [op EXCEPT ![t] = [op[t] EXCEPT !.at = x, !.seen = s]]
      BY <1>1 DEF Becomes
    <2> QED BY <2>1, <2>2 DEF OpType
  <1>3. blocks' = blocks /\ text' = text /\ in' = in /\ out' = out
    BY DEF RepairScan, RepairScansIndex, RepairScansBlocks, RepairScansEdges,
       RepairLooksUpInverse, graph
  <1>4. RepairSees(t) /\ out = in
    BY DEF StoreInv, EdgesAreSymmetric
  <1> QED BY <1>1, <1>2, <1>3, <1>4 DEF RepairSees

\* The block of a key, and what it means that the key ends in the id of another.
LEMMA KeyFacts ==
  ASSUME NEW T, NEW b, NEW k \in KeysOf(T, b)
  PROVE  k[2] = b /\ (Foreign(k) <=> \E a \in BlockIds \ {b} : <<k, a>> \in EndsIn)
  BY DEF KeysOf, Foreign

LEMMA StepKeepsStore ==
  ASSUME Sound, RepairIsAlone, Typed, StoreInv, NEW t \in Threads, Step(t)
  PROVE  StoreInv'
  <1>0. out = in /\ LiveBlockIsIndexed /\ RepairSees(t)
    BY DEF StoreInv, EdgesAreSymmetric
  <1>1. Typed'
    BY StepTyped
  <1>2. \A u \in Threads : RepairSees(u)'
    <2>1. CASE "repair" \notin Commands
      BY <1>1, <2>1, NoRepair
    <2>2. CASE Threads = {t}
      <3>1. CASE RepairScan(t)
        BY <2>2, <3>1, RepairScanKeeps
      <3>2. CASE ~RepairScan(t)
        BY <2>2, <3>2, NotInRepair DEF RepairSees, RepairSteps
      <3> QED BY <2>2, <3>1, <3>2
    <2> QED BY <2>1, <2>2 DEF RepairIsAlone
  <1>3. EdgesAreSymmetric'
    <2>1. CASE RepairWrites(t)
      <3>1. op[t].seen.edges \subseteq in
        BY <1>0, <2>1 DEF RepairWrites, RepairSees
      <3> QED BY <1>0, <2>1, <3>1 DEF RepairWrites, EdgesAreSymmetric
    <2>2. CASE ~RepairWrites(t)
      BY <1>0, <2>2 DEF Step, EdgesAreSymmetric, graph, AppendEventReads, AppendEventWrites,
         WriteBlock, UpdateHeadReads, UpdateHeadPuts, WriteRelation, DeleteRelationScans,
         DeleteRelationWrites, DeleteBlockReads, DeleteBlockScansIndex, DeleteBlockScansEdges,
         DeleteBlockWrites, IngestSourceLooksUp, IngestSourceEvent, IngestSourceRecords,
         DeleteSourceFinds, DeleteSourceWrites, CleanupScansBlocks, CleanupScansIndex,
         CleanupScansTombstones, CleanupWrites, RepairScansIndex, RepairScansBlocks,
         RepairScansEdges, RepairLooksUpInverse
    <2> QED BY <2>1, <2>2
  <1>4. LiveBlockIsIndexed'
    <2>0. /\ blocks \in [BlockIds -> {"none", "live", "deleted"}]
          /\ text \in [BlockIds -> SUBSET Terms]
      BY DEF Typed
    <2>00. \A b \in BlockIds : blocks[b] = "live" =>
             \A k \in KeysOf(text[b], b) : k \in index \/ Foreign(k)
      BY <1>0, KeyFacts DEF LiveBlockIsIndexed
    <2>01. SUFFICES ASSUME NEW b \in BlockIds, blocks'[b] = "live", NEW k \in KeysOf(text'[b], b)
                    PROVE  k \in index' \/ Foreign(k)
      BY KeyFacts DEF LiveBlockIsIndexed
    <2>1. CASE WriteBlock(t)
      <3>1. CASE b = op[t].block
        <4>1. text'[b] = op[t].text
          BY <2>0, <2>1, <3>1 DEF WriteBlock
        <4> QED BY <2>1, <3>1, <4>1 DEF WriteBlock
      <3>2. CASE b # op[t].block
        <4>1. blocks'[b] = blocks[b] /\ text'[b] = text[b] /\ index \subseteq index'
          BY <2>0, <2>1, <3>2 DEF WriteBlock
        <4> QED BY <2>00, <2>01, <4>1
      <3> QED BY <3>1, <3>2
    <2>2. CASE DeleteBlockWrites(t)
      <3>1. /\ \A j \in op[t].seen.index : j[2] = op[t].block \/ Foreign(j)
            /\ op[t].block \in BlockIds
        BY <2>2, ThreadFacts, DeleteWriteStep DEF DeleteBlockWrites, SeenFits
      <3>2. b # op[t].block /\ blocks[b] = "live" /\ text'[b] = text[b]
        BY <2>0, <2>01, <2>2, <3>1 DEF DeleteBlockWrites
      <3>3. k \in index \/ Foreign(k)
        BY <2>00, <2>01, <3>2
      <3>4. k[2] = b
        BY <2>01, KeyFacts
      <3> QED BY <2>2, <3>1, <3>2, <3>3, <3>4 DEF DeleteBlockWrites
    <2>3. CASE CleanupWrites(t)
      <3>1. \A j \in op[t].seen.index : j[2] \in op[t].seen.blocks \/ Foreign(j)
        BY <2>3, ThreadFacts DEF CleanupWrites, SeenFits
      <3>2. b \notin op[t].seen.blocks /\ blocks[b] = "live" /\ text'[b] = text[b]
        BY <2>0, <2>01, <2>3 DEF CleanupWrites
      <3>3. k \in index \/ Foreign(k)
        BY <2>00, <2>01, <3>2
      <3>4. k[2] = b
        BY <2>01, KeyFacts
      <3> QED BY <2>3, <3>1, <3>2, <3>3, <3>4 DEF CleanupWrites
    <2>4. CASE RepairWrites(t)
      <3>1. \A a \in BlockIds : blocks[a] = "live" => KeysOf(text[a], a) \subseteq op[t].seen.puts
        BY <1>0, <2>4 DEF RepairWrites, RepairSees
      <3>2. blocks'[b] = blocks[b] /\ text'[b] = text[b]
        BY <2>4 DEF RepairWrites
      <3>3. k \in op[t].seen.puts
        BY <2>01, <3>1, <3>2
      <3> QED BY <2>4, <3>3 DEF RepairWrites
    <2>5. CASE blocks' = blocks /\ text' = text /\ index' = index
      BY <2>00, <2>01, <2>5
    <2>6. \/ WriteBlock(t) \/ DeleteBlockWrites(t) \/ CleanupWrites(t) \/ RepairWrites(t)
          \/ blocks' = blocks /\ text' = text /\ index' = index
      BY DEF Step, AppendEventReads, AppendEventWrites,
         UpdateHeadReads, UpdateHeadPuts, WriteRelation, DeleteRelationScans,
         DeleteRelationWrites, DeleteBlockReads, DeleteBlockScansIndex, DeleteBlockScansEdges,
         IngestSourceLooksUp, IngestSourceEvent, IngestSourceRecords,
         DeleteSourceFinds, DeleteSourceWrites, CleanupScansBlocks, CleanupScansIndex,
         CleanupScansTombstones, RepairScansIndex, RepairScansBlocks,
         RepairScansEdges, RepairLooksUpInverse
    <2> QED BY <2>1, <2>2, <2>3, <2>4, <2>5, <2>6
  <1> QED BY <1>2, <1>3, <1>4 DEF StoreInv

LEMMA BeginKeepsStore ==
  ASSUME Sound, Typed, StoreInv, NEW t \in Threads, NEW c \in Commands,
         NEW x \in Arguments(c), NEW w \in TextsOf(c), Begin(t, c, x, w)
  PROVE  StoreInv'
  <1>1. blocks' = blocks /\ text' = text /\ index' = index /\ out' = out /\ in' = in
    BY DEF Begin, graph
  <1>2. PICK o : /\ Becomes(t, o)
                 /\ o.at \notin {"repairEdges", "repairInverse", "repairWrite"}
    BY BeginStep
  <1>3. \A u \in Threads : op'[u] = IF u = t THEN o ELSE op[u]
    BY <1>2 DEF Becomes, Typed
  <1>4. \A u \in Threads : RepairSees(u)'
    BY <1>1, <1>2, <1>3 DEF StoreInv, RepairSees
  <1>5. EdgesAreSymmetric' /\ LiveBlockIsIndexed'
    BY <1>1 DEF StoreInv, EdgesAreSymmetric, LiveBlockIsIndexed
  <1> QED BY <1>4, <1>5 DEF StoreInv

LEMMA NextKeepsStore ==
  ASSUME Sound, RepairIsAlone, Typed, StoreInv, [Next]_vars
  PROVE  StoreInv'
  <1>1. CASE \E t \in Threads : Step(t)
    BY <1>1, StepKeepsStore
  <1>2. CASE \E t \in Threads, c \in Commands : \E x \in Arguments(c), w \in TextsOf(c) :
               Begin(t, c, x, w)
    BY <1>2, BeginKeepsStore
  <1>3. CASE Crash
    <2>1. blocks' = blocks /\ text' = text /\ index' = index /\ out' = out /\ in' = in
      BY <1>3 DEF Crash, graph
    <2>2. \A t \in Threads : RepairSees(t)'
      BY <1>3, CrashStep DEF RepairSees, IdleOp
    <2> QED BY <2>1, <2>2 DEF StoreInv, EdgesAreSymmetric, LiveBlockIsIndexed
  <1>4. CASE UNCHANGED vars
    BY <1>4 DEF vars, StoreInv, EdgesAreSymmetric, LiveBlockIsIndexed, RepairSees
  <1> QED BY <1>1, <1>2, <1>3, <1>4 DEF Next

LEMMA StoreIsKept ==
  ASSUME Sound, RepairIsAlone
  PROVE  Spec => []StoreInv
  <1>1. Init => StoreInv
    BY InitTyped DEF Init, StoreInv, EdgesAreSymmetric, LiveBlockIsIndexed, RepairSees, IdleOp
  <1>2. Typed /\ StoreInv /\ [Next]_vars => StoreInv'
    BY NextKeepsStore
  <1> QED BY <1>1, <1>2, AlwaysTyped, PTL DEF Spec

\* A relation is under both keys or under none: WriteRelation, DeleteRelation,
\* DeleteBlock and Cleanup overlap in any way and the process dies anywhere.
THEOREM SymmetricEdges ==
  ASSUME Sound, RepairIsAlone
  PROVE  Spec => []EdgesAreSymmetric
  <1>1. StoreInv => EdgesAreSymmetric
    BY DEF StoreInv
  <1> QED BY <1>1, StoreIsKept, PTL

\* A live block is in the text index under every term of its text, although DeleteBlock
\* and Cleanup remove keys that they saw earlier: another thread may have written the
\* block again in between.  Only a key that ends in the id of another block may be gone.
THEOREM LiveBlocksAreIndexed ==
  ASSUME Sound, RepairIsAlone
  PROVE  Spec => []LiveBlockIsIndexed
  <1>1. StoreInv => LiveBlockIsIndexed
    BY DEF StoreInv
  <1> QED BY <1>1, StoreIsKept, PTL

-----------------------------------------------------------------------------
(* Sources.  The invariant has three parts: ids are not drawn twice; a deletion *)
(* that is about to remove a record has removed the block; and a source that     *)
(* went through no window is ingested by one thread at most, which nobody has   *)
(* recorded, and each of its live blocks is recorded or being recorded.          *)

\* The ids that clients choose are not those that NewId draws.
NoClash == Blocks \cap SourceBlocks = {}

\* Where the thread is that ingests a source.
IngestAt(o) ==
  o.cmd = "ingest" /\ o.block # NoBlock =>
    \/ o.at \in {"block", "ingested", "record"}
    \/ o.at \in {"event", "eventWrite"} /\ o.next \in {"ingested", "record"}

\* The block of the source is deleted, its record is not.
Forgetting(o) ==
  \/ o.at = "forget"
  \/ o.at \in {"event", "eventWrite"} /\ o.next = "forget"

\* No thread will write the block.
Used(b) == b[2] \in 1 .. commands /\ \A t \in Threads : op[t].cmd = "ingest" => op[t].id # b[2]

IdsDiffer ==
  /\ \A t \in Threads : op[t].cmd = "ingest" => op[t].id \in 1 .. commands
  /\ \A t, u \in Threads :
       op[t].cmd = "ingest" /\ op[u].cmd = "ingest" /\ op[t].id = op[u].id => t = u
RecordedIsUsed == \A s \in Sources : records[s] # NoBlock => Used(records[s])
ForgetIsUsed == \A t \in Threads : op[t].cmd = "forget" /\ op[t].block # NoBlock => Used(op[t].block)

IdInv ==
  /\ \A t \in Threads : IngestAt(op[t])
  /\ IdsDiffer /\ RecordedIsUsed /\ ForgetIsUsed

ForgottenIsGone ==
  \A t \in Threads :
    Forgetting(op[t]) => op[t].block \in SourceBlocks /\ blocks[op[t].block] # "live"

LiveIsKnown(s) ==
  \A b \in SourceBlocks : b[1] = s /\ blocks[b] = "live" =>
    records[s] = b \/ \E t \in Ingesting(s) : op[t].block = b /\ op[t].at # "block"
OneIngests(s) == \A t, u \in Ingesting(s) : t = u
IngestedIsNew(s) == Ingesting(s) # {} => records[s] = NoBlock

SourceInv ==
  \A s \in Sources : s \notin doubtful => LiveIsKnown(s) /\ OneIngests(s) /\ IngestedIsNew(s)

-----------------------------------------------------------------------------
(* Steps that go on with a request or end it                                 *)

Moved(o, n) ==
  /\ n.cmd = o.cmd /\ n.arg = o.arg /\ n.id = o.id /\ n.block = o.block /\ n.at # "block"
  /\ IngestAt(n)
  /\ Forgetting(n) =>
       Forgetting(o) \/ (o.cmd = "forget" /\ o.block \in BlockIds /\ blocks'[o.block] # "live")
Ended(o, n) == n = IdleOp /\ (o.cmd = "ingest" => o.block = NoBlock)
Leads(t, x) ==
  /\ op'[t] = x
  /\ \A u \in Threads \ {t} : op'[u] = op[u]

LEMMA Successor ==
  ASSUME Typed, NEW t \in Threads, NEW o, Becomes(t, o)
  PROVE  Leads(t, o)
  <1>1. op \in [Threads -> OpType] /\ op' = [op EXCEPT ![t] = o]
    BY DEF Typed, Becomes
  <1> QED BY <1>1 DEF Leads

LEMMA EventMoves ==
  ASSUME Typed, NEW t \in Threads, NEW x \in {"end", "ingested", "forget", "record"},
         Becomes(t, [op[t] EXCEPT !.at = "event", !.next = x]),
         op[t].cmd = "ingest" /\ op[t].block # NoBlock => x \in {"ingested", "record"},
         x = "forget" => op[t].cmd = "forget" /\ op[t].block \in BlockIds
                           /\ blocks'[op[t].block] # "live"
  PROVE  Leads(t, op'[t]) /\ Moved(op[t], op'[t])
  <1>0. op[t] \in OpType
    BY DEF Typed
  <1>1. Leads(t, [op[t] EXCEPT !.at = "event", !.next = x])
    BY Successor
  <1>2. /\ op'[t].at = "event" /\ op'[t].next = x /\ op'[t].cmd = op[t].cmd
        /\ op'[t].arg = op[t].arg /\ op'[t].id = op[t].id /\ op'[t].block = op[t].block
    BY <1>0, <1>1 DEF Leads, OpType
  <1>3. Leads(t, op'[t])
    BY <1>1 DEF Leads
  <1> QED BY <1>2, <1>3 DEF Moved, IngestAt, Forgetting

LEMMA ScanMoves ==
  ASSUME Typed, NEW t \in Threads, op[t].cmd # "ingest", NEW s \in SeenType,
         NEW x \in {"deleteIndex", "deleteEdges", "deleteWrite"} \cup CleanupSteps \cup RepairSteps,
         Becomes(t, [op[t] EXCEPT !.at = x, !.seen = s])
  PROVE  Leads(t, op'[t]) /\ Moved(op[t], op'[t])
  <1>0. op[t] \in OpType
    BY DEF Typed
  <1>1. Leads(t, [op[t] EXCEPT !.at = x, !.seen = s])
    BY Successor
  <1>2. /\ op'[t].at = x /\ op'[t].cmd = op[t].cmd
        /\ op'[t].arg = op[t].arg /\ op'[t].id = op[t].id /\ op'[t].block = op[t].block
    BY <1>0, <1>1 DEF Leads, OpType
  <1>3. Leads(t, op'[t])
    BY <1>1 DEF Leads
  <1> QED BY <1>2, <1>3 DEF Moved, IngestAt, Forgetting, CleanupSteps, RepairSteps

LEMMA GoesMoves ==
  ASSUME Typed, NEW t \in Threads, op[t].cmd # "ingest",
         NEW x \in {"headPut", "unrelate", "deleteIndex", "forget", "end"},
         Goes(t, x),
         x = "forget" => op[t].cmd = "forget" /\ op[t].block \in BlockIds
                           /\ blocks'[op[t].block] # "live"
  PROVE  Leads(t, op'[t]) /\ (Moved(op[t], op'[t]) \/ Ended(op[t], op'[t]))
  <1>0. op[t] \in OpType /\ op \in [Threads -> OpType]
    BY DEF Typed
  <1>1. CASE x = "end"
    <2>1. op' = [op EXCEPT ![t] = IdleOp]
      BY <1>1 DEF Goes
    <2> QED BY <1>0, <2>1 DEF Leads, Ended
  <1>2. CASE x # "end"
    <2>1. op' = [op EXCEPT ![t] = [op[t] EXCEPT !.at = x]]
      BY <1>2 DEF Goes
    <2>2. Leads(t, op'[t]) /\ op'[t] = [op[t] EXCEPT !.at = x]
      BY <1>0, <2>1 DEF Leads
    <2>3. /\ op'[t].at = x /\ op'[t].cmd = op[t].cmd
          /\ op'[t].arg = op[t].arg /\ op'[t].id = op[t].id /\ op'[t].block = op[t].block
      BY <1>0, <2>2 DEF OpType
    <2> QED BY <1>2, <2>2, <2>3 DEF Moved, IngestAt, Forgetting
  <1> QED BY <1>1, <1>2

LEMMA AppendMoves ==
  ASSUME Sound, Typed, NEW t \in Threads, IngestAt(op[t]),
         AppendEventReads(t) \/ AppendEventWrites(t)
  PROVE  Leads(t, op'[t]) /\ (Moved(op[t], op'[t]) \/ Ended(op[t], op'[t]))
  <1>0. op[t] \in OpType /\ op \in [Threads -> OpType]
    BY DEF Typed
  <1>1. CASE AppendEventReads(t)
    <2>1. op[t].at = "event" /\ op' = [op EXCEPT ![t].at = "eventWrite", ![t].seq = latest + 1]
      BY <1>1 DEF AppendEventReads
    <2>2. /\ op'[t].at = "eventWrite" /\ op'[t].next = op[t].next /\ op'[t].cmd = op[t].cmd
          /\ op'[t].arg = op[t].arg /\ op'[t].id = op[t].id /\ op'[t].block = op[t].block
      BY <1>0, <2>1 DEF OpType
    <2>3. Leads(t, op'[t])
      BY <1>0, <2>1 DEF Leads
    <2> QED BY <2>1, <2>2, <2>3 DEF Moved, IngestAt, Forgetting
  <1>2. CASE AppendEventWrites(t)
    <2>0. op[t].at = "eventWrite" /\ op[t].next \in {"end", "ingested", "forget", "record"}
      BY <1>0, <1>2 DEF AppendEventWrites, OpType
    <2>1. CASE op[t].next = "end"
      <3>1. op' = [op EXCEPT ![t] = IdleOp]
        BY <1>2, <2>1 DEF AppendEventWrites, Goes
      <3> QED BY <1>0, <2>0, <2>1, <3>1 DEF Leads, Ended, IngestAt
    <2>2. CASE op[t].next # "end"
      <3>1. op' = [op EXCEPT ![t] = [op[t] EXCEPT !.at = op[t].next]]
        BY <1>2, <2>2 DEF AppendEventWrites, Goes
      <3>2. Leads(t, op'[t]) /\ op'[t] = [op[t] EXCEPT !.at = op[t].next]
        BY <1>0, <3>1 DEF Leads
      <3>3. /\ op'[t].at = op[t].next /\ op'[t].cmd = op[t].cmd
            /\ op'[t].arg = op[t].arg /\ op'[t].id = op[t].id /\ op'[t].block = op[t].block
        BY <1>0, <3>2 DEF OpType
      <3> QED BY <2>0, <2>2, <3>2, <3>3 DEF Moved, IngestAt, Forgetting
    <2> QED BY <2>1, <2>2
  <1> QED BY <1>1, <1>2

\* Steps that take an id, write a record or find one are looked at by themselves.
Special(t) == IngestSourceLooksUp(t) \/ IngestSourceRecords(t) \/ DeleteSourceFinds(t)

LEMMA StepMoves ==
  ASSUME Sound, Typed, NEW t \in Threads, Step(t), ~Special(t), IngestAt(op[t])
  PROVE  Leads(t, op'[t]) /\ (Moved(op[t], op'[t]) \/ Ended(op[t], op'[t]))
  <1>0. op[t] \in OpType /\ StepFits(op[t]) /\ blocks \in [BlockIds -> {"none", "live", "deleted"}]
    BY DEF Typed, Fits
  <1>1. CASE AppendEventReads(t) \/ AppendEventWrites(t)
    BY <1>1, AppendMoves
  <1>2. CASE WriteBlock(t)
    BY <1>2, WriteBlockStep, EventMoves
  <1>3. CASE UpdateHeadReads(t)
    <2>1. op[t].cmd # "ingest"
      BY <1>0, <1>3 DEF UpdateHeadReads, StepFits
    <2> QED BY <1>3, <2>1, GoesMoves DEF UpdateHeadReads
  <1>4. CASE UpdateHeadPuts(t)
    <2>1. op[t].cmd # "ingest"
      BY <1>0, <1>4 DEF UpdateHeadPuts, StepFits
    <2> QED BY <1>4, <2>1, EventFits, EventMoves DEF UpdateHeadPuts
  <1>5. CASE WriteRelation(t) \/ DeleteRelationWrites(t)
    <2>1. op[t].cmd # "ingest" /\ GoesToEvent(t, "end")
      BY <1>0, <1>5 DEF WriteRelation, DeleteRelationWrites, StepFits
    <2> QED BY <2>1, EventFits, EventMoves
  <1>6. CASE DeleteRelationScans(t)
    <2>1. op[t].cmd # "ingest"
      BY <1>0, <1>6 DEF DeleteRelationScans, StepFits
    <2> QED BY <1>6, <2>1, GoesMoves DEF DeleteRelationScans
  <1>7. CASE DeleteBlockReads(t)
    <2>1. op[t].cmd # "ingest" /\ op[t].block \in BlockIds /\ blocks' = blocks
      BY <1>0, <1>7 DEF DeleteBlockReads, StepFits, DeleteSteps
    <2> DEFINE x == IF blocks[op[t].block] # "none" THEN "deleteIndex"
                    ELSE IF op[t].cmd = "forget" THEN "forget" ELSE "end"
    <2>2. /\ Goes(t, x) /\ x \in {"deleteIndex", "forget", "end"}
          /\ x = "forget" => op[t].cmd = "forget" /\ blocks[op[t].block] = "none"
      BY <1>7 DEF DeleteBlockReads
    <2> HIDE DEF x
    <2> QED BY <2>1, <2>2, GoesMoves
  <1>8. CASE DeleteBlockScansIndex(t) \/ DeleteBlockScansEdges(t)
    <2>1. op[t].cmd # "ingest"
      BY <1>0, <1>8 DEF DeleteBlockScansIndex, DeleteBlockScansEdges, StepFits, DeleteSteps
    <2> QED BY <1>8, <2>1, DeleteScanStep, ScanMoves
  <1>9. CASE DeleteBlockWrites(t)
    <2>1. op[t].cmd # "ingest" /\ op[t].block \in BlockIds
      BY <1>0, <1>9 DEF DeleteBlockWrites, StepFits, DeleteSteps
    <2>2. blocks'[op[t].block] = "deleted"
      BY <1>0, <1>9, <2>1 DEF DeleteBlockWrites
    <2> QED BY <1>9, <2>1, <2>2, DeleteWriteStep, EventMoves
  <1>10. CASE IngestSourceEvent(t)
    BY <1>10, IngestEventStep, EventMoves
  <1>11. CASE DeleteSourceWrites(t)
    BY <1>11, ForgetStep, EventMoves
  <1>12. CASE CleanupScansBlocks(t) \/ CleanupScansIndex(t) \/ CleanupScansTombstones(t)
    <2>1. op[t].cmd # "ingest"
      BY <1>0, <1>12 DEF CleanupScansBlocks, CleanupScansIndex, CleanupScansTombstones, StepFits,
         CleanupSteps
    <2> QED BY <1>12, <2>1, CleanupScanStep, ScanMoves
  <1>13. CASE CleanupWrites(t)
    <2>1. op[t].cmd # "ingest"
      BY <1>0, <1>13 DEF CleanupWrites, StepFits, CleanupSteps
    <2> QED BY <1>13, <2>1, CleanupWriteStep, EventMoves
  <1>14. CASE RepairScan(t)
    <2>1. op[t].cmd # "ingest"
      BY <1>0, <1>14 DEF RepairScan, RepairScansIndex, RepairScansBlocks, RepairScansEdges,
         RepairLooksUpInverse, StepFits, RepairSteps
    <2> QED BY <1>14, <2>1, RepairScanStep, ScanMoves DEF RepairScan
  <1>15. CASE RepairWrites(t)
    <2>1. op[t].cmd # "ingest"
      BY <1>0, <1>15 DEF RepairWrites, StepFits, RepairSteps
    <2> QED BY <1>15, <2>1, RepairWriteStep, EventMoves
  <1> QED BY <1>1, <1>2, <1>3, <1>4, <1>5, <1>6, <1>7, <1>8, <1>9, <1>10, <1>11, <1>12, <1>13,
            <1>14, <1>15 DEF Step, Special, RepairScan

-----------------------------------------------------------------------------
(* Ids are not drawn twice                                                   *)

\* A request goes on or ends: ids that were used stay used.
LEMMA MovesKeepIds ==
  ASSUME Typed, IdInv, NEW t \in Threads, Leads(t, op'[t]),
         \/ Moved(op[t], op'[t])
         \/ op'[t] = IdleOp,
         commands' = commands,
         \A s \in Sources : records'[s] # NoBlock => records'[s] = records[s]
  PROVE  IdInv'
  <1>1. \A u \in Threads : op'[u].cmd = "ingest" => op[u].cmd = "ingest" /\ op'[u].id = op[u].id
    BY DEF Leads, Moved, IdleOp
  <1>2. \A u \in Threads : op'[u].cmd = "forget" => op[u].cmd = "forget" /\ op'[u].block = op[u].block
    BY DEF Leads, Moved, IdleOp
  <1>3. ASSUME NEW b, Used(b) PROVE Used(b)'
    BY <1>1, <1>3 DEF Used
  <1>4. \A u \in Threads : IngestAt(op'[u])
    BY DEF Leads, Moved, IdleOp, IdInv, IngestAt
  <1>5. IdsDiffer'
    BY <1>1 DEF IdInv, IdsDiffer
  <1>6. RecordedIsUsed'
    BY <1>3 DEF IdInv, RecordedIsUsed
  <1>7. ForgetIsUsed'
    BY <1>2, <1>3 DEF IdInv, ForgetIsUsed
  <1> QED BY <1>4, <1>5, <1>6, <1>7 DEF IdInv, IngestAt

LEMMA LookUpKeepsIds ==
  ASSUME Sound, Typed, IdInv, NEW t \in Threads, IngestSourceLooksUp(t)
  PROVE  IdInv'
  <1>0. op[t] \in OpType /\ op[t].at = "lookup" /\ IngestAt(op[t])
    BY DEF Typed, IngestSourceLooksUp, IdInv
  <1>1. op[t].block = NoBlock /\ op[t].cmd = "ingest"
    BY <1>0, LookUpStep DEF IngestAt
  <1>2. commands' = commands /\ records' = records
    BY DEF IngestSourceLooksUp
  <1>3. CASE records[op[t].arg] # NoBlock
    <2>1. Leads(t, op'[t]) /\ Moved(op[t], op'[t])
      BY <1>1, <1>3, LookUpStep, EventMoves
    <2> QED BY <1>2, <2>1, MovesKeepIds
  <1>4. CASE records[op[t].arg] = NoBlock
    <2>1. Leads(t, [op[t] EXCEPT !.at = "block", !.block = NewId(t)])
      BY <1>4, LookUpStep, Successor
    <2>2. /\ op'[t].at = "block" /\ op'[t].cmd = "ingest" /\ op'[t].id = op[t].id
          /\ \A u \in Threads \ {t} : op'[u] = op[u]
      BY <1>0, <1>1, <2>1 DEF Leads, OpType
    <2>3. \A u \in Threads : op'[u].cmd = op[u].cmd /\ op'[u].id = op[u].id
      BY <1>1, <2>2
    <2>4. ASSUME NEW b, Used(b) PROVE Used(b)'
      BY <1>2, <2>3, <2>4 DEF Used
    <2>5. \A u \in Threads : IngestAt(op'[u])
      BY <2>2 DEF IdInv, IngestAt
    <2>6. IdsDiffer'
      BY <1>2, <2>3 DEF IdInv, IdsDiffer
    <2>7. RecordedIsUsed'
      BY <1>2, <2>4 DEF IdInv, RecordedIsUsed
    <2>8. ForgetIsUsed'
      BY <2>2, <2>4 DEF IdInv, ForgetIsUsed
    <2> QED BY <2>5, <2>6, <2>7, <2>8 DEF IdInv, IngestAt
  <1> QED BY <1>3, <1>4

LEMMA RecordKeepsIds ==
  ASSUME Sound, Typed, IdInv, NEW t \in Threads, IngestSourceRecords(t)
  PROVE  IdInv'
  <1>0. /\ op[t].cmd = "ingest" /\ op[t].arg \in Sources /\ op[t].block \in SourceBlocks
        /\ Leads(t, IdleOp) /\ RequestFits(op[t]) /\ NoBlock \notin SourceBlocks
    BY RecordStep, Successor, ThreadFacts DEF Sound, BlockIds
  <1>1. op[t].block = <<op[t].arg, op[t].id>>
    BY <1>0 DEF RequestFits
  <1>2. op[t].block[2] = op[t].id /\ op[t].id \in 1 .. commands
    BY <1>0, <1>1 DEF IdInv, IdsDiffer
  <1>3. \A u \in Threads : op'[u].cmd = "ingest" => u # t /\ op[u].cmd = "ingest" /\ op'[u].id = op[u].id
    BY <1>0 DEF Leads, IdleOp
  <1>4. commands' = commands /\ records' = [records EXCEPT ![op[t].arg] = op[t].block]
    BY DEF IngestSourceRecords
  <1>5. ASSUME NEW b, Used(b) PROVE Used(b)'
    BY <1>3, <1>4, <1>5 DEF Used
  <1> PICK new : new = op[t].block
    OBVIOUS
  <1>6. Used(new)'
    BY <1>0, <1>2, <1>3, <1>4 DEF Used, IdInv, IdsDiffer
  <1>7. \A u \in Threads : IngestAt(op'[u])
    BY <1>0 DEF Leads, IdleOp, IdInv, IngestAt
  <1>8. IdsDiffer'
    BY <1>3, <1>4 DEF IdInv, IdsDiffer
  <1>9. RecordedIsUsed'
    <2>1. \A s \in Sources : records'[s] = IF s = op[t].arg THEN new ELSE records[s]
      BY <1>4 DEF Typed
    <2> QED BY <1>5, <1>6, <2>1 DEF IdInv, RecordedIsUsed
  <1>10. ForgetIsUsed'
    BY <1>0, <1>5 DEF Leads, IdleOp, IdInv, ForgetIsUsed
  <1> QED BY <1>7, <1>8, <1>9, <1>10 DEF IdInv, IngestAt

LEMMA FindKeepsIds ==
  ASSUME Sound, Typed, IdInv, NEW t \in Threads, DeleteSourceFinds(t)
  PROVE  IdInv'
  <1>0. op[t] \in OpType /\ op[t].cmd = "forget" /\ op[t].arg \in Sources
    BY FindStep DEF Typed
  <1>1. commands' = commands /\ records' = records
    BY DEF DeleteSourceFinds, sources
  <1>2. CASE records[op[t].arg] = NoBlock
    <2>1. Leads(t, IdleOp)
      BY <1>2, FindStep, Successor
    <2> QED BY <1>1, <2>1, MovesKeepIds DEF Leads
  <1>3. CASE records[op[t].arg] # NoBlock
    <2>1. Leads(t, [op[t] EXCEPT !.at = "delete", !.block = records[op[t].arg]])
      BY <1>3, FindStep, Successor
    <2>2. /\ op'[t].cmd = "forget" /\ op'[t].block = records[op[t].arg]
          /\ \A u \in Threads \ {t} : op'[u] = op[u]
      BY <1>0, <2>1 DEF Leads, OpType
    <2>3. \A u \in Threads : op'[u].cmd = "ingest" => op[u].cmd = "ingest" /\ op'[u].id = op[u].id
      BY <1>0, <2>2
    <2>4. ASSUME NEW b, Used(b) PROVE Used(b)'
      BY <1>1, <2>3, <2>4 DEF Used
    <2>5. \A u \in Threads : IngestAt(op'[u])
      BY <2>2 DEF IdInv, IngestAt
    <2>6. IdsDiffer'
      BY <1>1, <2>3 DEF IdInv, IdsDiffer
    <2>7. RecordedIsUsed'
      BY <1>1, <2>4 DEF IdInv, RecordedIsUsed
    <2>8. ForgetIsUsed'
      BY <1>0, <1>3, <2>2, <2>4 DEF IdInv, ForgetIsUsed, RecordedIsUsed
    <2> QED BY <2>5, <2>6, <2>7, <2>8 DEF IdInv, IngestAt
  <1> QED BY <1>2, <1>3

\* No step but three writes records, and no step forges one.
LEMMA RecordsOnlyGo ==
  ASSUME Sound, Typed, NEW t \in Threads, Step(t), ~Special(t)
  PROVE  /\ commands' = commands
         /\ \A s \in Sources : records'[s] # NoBlock => records'[s] = records[s]
  <1>1. CASE DeleteSourceWrites(t)
    <2>1. /\ commands' = commands /\ records' = [records EXCEPT ![op[t].arg] = NoBlock]
          /\ records \in [Sources -> SourceBlocks \cup {NoBlock}]
      BY <1>1 DEF DeleteSourceWrites, Typed
    <2> QED BY <2>1
  <1>2. CASE CleanupWrites(t)
    BY <1>2 DEF CleanupWrites
  <1>3. CASE records' = records /\ commands' = commands
    BY <1>3
  <1> QED BY <1>1, <1>2, <1>3 DEF Step, Special, sources, AppendEventReads, AppendEventWrites,
         WriteBlock, UpdateHeadReads, UpdateHeadPuts, WriteRelation, DeleteRelationScans,
         DeleteRelationWrites, DeleteBlockReads, DeleteBlockScansIndex, DeleteBlockScansEdges,
         DeleteBlockWrites, IngestSourceEvent, CleanupScansBlocks, CleanupScansIndex,
         CleanupScansTombstones, RepairScansIndex, RepairScansBlocks,
         RepairScansEdges, RepairLooksUpInverse, RepairWrites

LEMMA StepKeepsIds ==
  ASSUME Sound, Typed, IdInv, NEW t \in Threads, Step(t)
  PROVE  IdInv'
  <1>1. CASE Special(t)
    BY <1>1, LookUpKeepsIds, RecordKeepsIds, FindKeepsIds DEF Special
  <1>2. CASE ~Special(t)
    <2>1. Leads(t, op'[t]) /\ (Moved(op[t], op'[t]) \/ op'[t] = IdleOp)
      BY <1>2, StepMoves DEF IdInv, Ended
    <2> QED BY <1>2, <2>1, RecordsOnlyGo, MovesKeepIds
  <1> QED BY <1>1, <1>2

LEMMA BeginKeepsIds ==
  ASSUME Sound, Typed, IdInv, NEW t \in Threads, NEW c \in Commands, NEW x \in Arguments(c),
         NEW w \in TextsOf(c), Begin(t, c, x, w)
  PROVE  IdInv'
  <1>0. commands \in Nat /\ commands' = commands + 1 /\ records' = records
    BY DEF Begin, Typed, sources
  <1>1. PICK o : /\ Becomes(t, o) /\ o.cmd = c
                 /\ c = "ingest" => o.id = commands + 1
                 /\ c \in {"ingest", "forget"} => o.block = NoBlock
    BY BeginStep
  <1>2. op'[t] = o /\ \A u \in Threads \ {t} : op'[u] = op[u]
    BY <1>1, Successor DEF Leads
  <1>3. \A u \in Threads : op'[u].cmd = "ingest" =>
          \/ u = t /\ op'[u].id = commands + 1
          \/ u # t /\ op[u].cmd = "ingest" /\ op'[u].id = op[u].id /\ op[u].id \in 1 .. commands
    BY <1>1, <1>2 DEF IdInv, IdsDiffer
  <1>4. ASSUME NEW b, Used(b) PROVE Used(b)'
    BY <1>0, <1>3, <1>4 DEF Used
  <1>5. \A u \in Threads : IngestAt(op'[u])
    BY <1>1, <1>2 DEF IdInv, IngestAt
  <1>6. IdsDiffer'
    BY <1>0, <1>3 DEF IdInv, IdsDiffer
  <1>7. RecordedIsUsed'
    BY <1>0, <1>4 DEF IdInv, RecordedIsUsed
  <1>8. ForgetIsUsed'
    BY <1>1, <1>2, <1>4 DEF IdInv, ForgetIsUsed
  <1> QED BY <1>5, <1>6, <1>7, <1>8 DEF IdInv, IngestAt

LEMMA NextKeepsIds ==
  ASSUME Sound, Typed, IdInv, [Next]_vars
  PROVE  IdInv'
  <1>1. CASE \E t \in Threads : Step(t)
    BY <1>1, StepKeepsIds
  <1>2. CASE \E t \in Threads, c \in Commands : \E x \in Arguments(c), w \in TextsOf(c) :
               Begin(t, c, x, w)
    BY <1>2, BeginKeepsIds
  <1>3. CASE Crash
    <2>1. commands' = commands /\ records' = records /\ \A t \in Threads : op'[t] = IdleOp
      BY <1>3, CrashStep DEF Crash
    <2>2. \A t \in Threads : op'[t].cmd \notin {"ingest", "forget"}
      BY <2>1 DEF IdleOp
    <2> QED BY <2>1, <2>2 DEF IdInv, IngestAt, IdsDiffer, RecordedIsUsed, ForgetIsUsed, Used
  <1>4. CASE UNCHANGED vars
    BY <1>4 DEF vars, IdInv, IngestAt, IdsDiffer, RecordedIsUsed, ForgetIsUsed, Used
  <1> QED BY <1>1, <1>2, <1>3, <1>4 DEF Next

-----------------------------------------------------------------------------
(* A deletion that is about to remove a record has removed the block           *)

\* Only WriteBlock makes a block live.
LEMMA OnlyWritesMakeLive ==
  ASSUME Sound, Typed, NEW t \in Threads, Step(t), ~WriteBlock(t)
  PROVE  \A b \in BlockIds : blocks'[b] = "live" => blocks[b] = "live"
  <1>0. blocks \in [BlockIds -> {"none", "live", "deleted"}]
    BY DEF Typed
  <1>1. CASE DeleteBlockWrites(t)
    BY <1>0, <1>1 DEF DeleteBlockWrites
  <1>2. CASE CleanupWrites(t)
    BY <1>0, <1>2 DEF CleanupWrites
  <1>3. CASE blocks' = blocks
    BY <1>3
  <1> QED BY <1>1, <1>2, <1>3 DEF Step, AppendEventReads, AppendEventWrites,
         UpdateHeadReads, UpdateHeadPuts, WriteRelation, DeleteRelationScans,
         DeleteRelationWrites, DeleteBlockReads, DeleteBlockScansIndex, DeleteBlockScansEdges,
         IngestSourceLooksUp, IngestSourceEvent, IngestSourceRecords,
         DeleteSourceFinds, DeleteSourceWrites, CleanupScansBlocks, CleanupScansIndex,
         CleanupScansTombstones, RepairScansIndex, RepairScansBlocks,
         RepairScansEdges, RepairLooksUpInverse, RepairWrites

\* The block that a thread writes is its own, or one that a client named.
LEMMA WritesItsOwn ==
  ASSUME Sound, NoClash, Typed, NEW t \in Threads, WriteBlock(t)
  PROVE  /\ op[t].block \in BlockIds
         /\ blocks' = [blocks EXCEPT ![op[t].block] = "live"]
         /\ \/ op[t].cmd = "write" /\ op[t].block \notin SourceBlocks
            \/ op[t].cmd = "ingest" /\ op[t].arg \in Sources /\ op[t].block = <<op[t].arg, op[t].id>>
  <1>1. op[t].at = "block" /\ RequestFits(op[t]) /\ StepFits(op[t])
    BY ThreadFacts DEF WriteBlock
  <1>2. op[t].block \in BlockIds /\ op[t].cmd \in {"write", "ingest"} /\ NoBlock \notin BlockIds
    BY <1>1 DEF StepFits, Sound
  <1>3. op[t].cmd = "write" => op[t].block \notin SourceBlocks
    BY <1>1 DEF RequestFits, NoClash
  <1> QED BY <1>1, <1>2, <1>3 DEF RequestFits, WriteBlock

LEMMA StepKeepsGone ==
  ASSUME Sound, NoClash, Typed, IdInv, ForgottenIsGone, NEW t \in Threads, Step(t)
  PROVE  ForgottenIsGone'
  <1>0. SourceBlocks \subseteq BlockIds /\ blocks \in [BlockIds -> {"none", "live", "deleted"}]
    BY DEF BlockIds, Typed
  <1>1. SUFFICES ASSUME NEW u \in Threads, Forgetting(op'[u])
                 PROVE  op'[u].block \in SourceBlocks /\ blocks'[op'[u].block] # "live"
    BY DEF ForgottenIsGone, Forgetting
  <1>2. CASE Forgetting(op[u]) /\ op'[u].block = op[u].block
    <2>1. op[u].block \in SourceBlocks /\ blocks[op[u].block] # "live"
      BY <1>2 DEF ForgottenIsGone
    <2>2. CASE WriteBlock(t)
      <3>1. op[u].cmd = "forget"
        BY <1>2, ThreadFacts DEF Forgetting, StepFits
      <3>2. op[u].block # NoBlock
        BY <1>0, <2>1 DEF Sound
      <3>3. op[t].cmd = "ingest" => op[t].id # op[u].block[2]
        BY <3>1, <3>2 DEF IdInv, ForgetIsUsed, Used
      <3>4. op[t].block # op[u].block
        BY <2>1, <2>2, <3>3, WritesItsOwn
      <3> QED BY <1>0, <1>2, <2>1, <2>2, <3>4, WritesItsOwn
    <2>3. CASE ~WriteBlock(t)
      BY <1>0, <1>2, <2>1, <2>3, OnlyWritesMakeLive
    <2> QED BY <2>2, <2>3
  <1>3. CASE ~(Forgetting(op[u]) /\ op'[u].block = op[u].block)
    <2>1. CASE Special(t)
      <3>1. CASE IngestSourceLooksUp(t)
        <4>0. op[t] \in OpType /\ op[t].cmd = "ingest"
          BY <3>1, LookUpStep DEF Typed
        <4>1. CASE records[op[t].arg] # NoBlock
          <5>1. Leads(t, [op[t] EXCEPT !.at = "event", !.next = "end"])
            BY <3>1, <4>1, LookUpStep, Successor
          <5> QED BY <1>1, <1>3, <4>0, <5>1 DEF Leads, Forgetting, OpType
        <4>2. CASE records[op[t].arg] = NoBlock
          <5>1. Leads(t, [op[t] EXCEPT !.at = "block", !.block = NewId(t)])
            BY <3>1, <4>2, LookUpStep, Successor
          <5> QED BY <1>1, <1>3, <4>0, <5>1 DEF Leads, Forgetting, OpType
        <4> QED BY <4>1, <4>2
      <3>2. CASE IngestSourceRecords(t)
        <4>1. Leads(t, IdleOp)
          BY <3>2, RecordStep, Successor
        <4> QED BY <1>1, <1>3, <4>1 DEF Leads, Forgetting, IdleOp
      <3>3. CASE DeleteSourceFinds(t)
        <4>0. op[t] \in OpType
          BY DEF Typed
        <4>1. CASE records[op[t].arg] = NoBlock
          <5>1. Leads(t, IdleOp)
            BY <3>3, <4>1, FindStep, Successor
          <5> QED BY <1>1, <1>3, <5>1 DEF Leads, Forgetting, IdleOp
        <4>2. CASE records[op[t].arg] # NoBlock
          <5>1. Leads(t, [op[t] EXCEPT !.at = "delete", !.block = records[op[t].arg]])
            BY <3>3, <4>2, FindStep, Successor
          <5> QED BY <1>1, <1>3, <4>0, <5>1 DEF Leads, Forgetting, OpType
        <4> QED BY <4>1, <4>2
      <3> QED BY <2>1, <3>1, <3>2, <3>3 DEF Special
    <2>2. CASE ~Special(t)
      <3>1. Leads(t, op'[t]) /\ (Moved(op[t], op'[t]) \/ op'[t] = IdleOp)
        BY <2>2, StepMoves DEF IdInv, Ended
      <3>2. u = t /\ Moved(op[t], op'[t])
        BY <1>1, <1>3, <3>1 DEF Leads, Forgetting, IdleOp
      <3>3. /\ op'[t].block = op[t].block /\ op[t].cmd = "forget" /\ op[t].block \in BlockIds
            /\ blocks'[op[t].block] # "live"
        BY <1>1, <1>3, <3>2 DEF Moved
      <3>4. op[t].block \in SourceBlocks
        BY <3>3, ThreadFacts DEF RequestFits, Sound
      <3> QED BY <3>2, <3>3, <3>4
    <2> QED BY <2>1, <2>2
  <1> QED BY <1>2, <1>3

LEMMA NextKeepsGone ==
  ASSUME Sound, NoClash, Typed, IdInv, ForgottenIsGone, [Next]_vars
  PROVE  ForgottenIsGone'
  <1>1. CASE \E t \in Threads : Step(t)
    BY <1>1, StepKeepsGone
  <1>2. CASE \E t \in Threads, c \in Commands : \E x \in Arguments(c), w \in TextsOf(c) :
               Begin(t, c, x, w)
    <2>1. PICK t \in Threads, c \in Commands :
            \E x \in Arguments(c), w \in TextsOf(c) : Begin(t, c, x, w)
      BY <1>2
    <2>2. PICK o : /\ Becomes(t, o)
                   /\ o.at \notin {"event", "eventWrite", "forget"}
      BY <2>1, BeginStep
    <2>3. Leads(t, o) /\ blocks' = blocks
      BY <2>1, <2>2, Successor DEF Begin
    <2> QED BY <2>2, <2>3 DEF ForgottenIsGone, Forgetting, Leads
  <1>3. CASE Crash
    BY <1>3, CrashStep DEF ForgottenIsGone, Forgetting, IdleOp
  <1>4. CASE UNCHANGED vars
    BY <1>4 DEF vars, ForgottenIsGone, Forgetting
  <1> QED BY <1>1, <1>2, <1>3, <1>4 DEF Next

-----------------------------------------------------------------------------
(* Sources outside the windows                                               *)

Safe(s) == LiveIsKnown(s) /\ OneIngests(s) /\ IngestedIsNew(s)

\* The threads that ingest s are the same and go on.
SameIngesting(s) ==
  /\ Ingesting(s)' = Ingesting(s)
  /\ \A t \in Ingesting(s) :
       op'[t].block = op[t].block /\ (op[t].at # "block" => op'[t].at # "block")

\* The record of s is the same, and no block of s has become live.
SameSource(s) ==
  /\ records'[s] = records[s]
  /\ \A b \in SourceBlocks : b[1] = s /\ blocks'[b] = "live" => blocks[b] = "live"

LEMMA NothingHappens ==
  ASSUME NEW s \in Sources, Safe(s), SameIngesting(s), SameSource(s)
  PROVE  Safe(s)'
  <1>1. LiveIsKnown(s)'
    BY DEF Safe, LiveIsKnown, SameIngesting, SameSource
  <1>2. OneIngests(s)' /\ IngestedIsNew(s)'
    BY DEF Safe, OneIngests, IngestedIsNew, SameIngesting, SameSource
  <1> QED BY <1>1, <1>2 DEF Safe

LEMMA MovesKeepIngesting ==
  ASSUME NEW s \in Sources, NEW t \in Threads, Leads(t, op'[t]),
         Moved(op[t], op'[t]) \/ Ended(op[t], op'[t])
  PROVE  SameIngesting(s)
  <1>1. \A u \in Threads :
          /\ op'[u].cmd = "ingest" /\ op'[u].block # NoBlock <=>
               op[u].cmd = "ingest" /\ op[u].block # NoBlock
          /\ op[u].cmd = "ingest" /\ op[u].block # NoBlock =>
               /\ op'[u].arg = op[u].arg /\ op'[u].block = op[u].block
               /\ op[u].at # "block" => op'[u].at # "block"
    BY DEF Leads, Moved, Ended, IdleOp
  <1>2. Ingesting(s)' = {u \in Threads : op'[u].cmd = "ingest" /\ op'[u].arg = s /\ op'[u].block # NoBlock}
    BY DEF Ingesting
  <1>3. Ingesting(s)' = Ingesting(s)
    BY <1>1, <1>2 DEF Ingesting
  <1> QED BY <1>1, <1>3 DEF SameIngesting, Ingesting

LEMMA DoubtStays ==
  ASSUME Sound, Typed, NEW t \in Threads, Step(t)
  PROVE  doubtful \subseteq doubtful'
  BY DEF Step, sources, AppendEventReads, AppendEventWrites,
     WriteBlock, UpdateHeadReads, UpdateHeadPuts, WriteRelation, DeleteRelationScans,
     DeleteRelationWrites, DeleteBlockReads, DeleteBlockScansIndex, DeleteBlockScansEdges,
     DeleteBlockWrites, IngestSourceLooksUp, IngestSourceEvent, IngestSourceRecords,
     DeleteSourceFinds, DeleteSourceWrites, CleanupScansBlocks, CleanupScansIndex,
     CleanupScansTombstones, CleanupWrites, RepairScansIndex, RepairScansBlocks,
     RepairScansEdges, RepairLooksUpInverse, RepairWrites

\* Steps that leave blocks and records alone, and the id that is drawn.
LEMMA LookUpIsSafe ==
  ASSUME Sound, Typed, IdInv, NEW t \in Threads, IngestSourceLooksUp(t),
         NEW s \in Sources, Safe(s), s \notin doubtful'
  PROVE  Safe(s)'
  <1>0. op[t] \in OpType /\ op[t].at = "lookup" /\ IngestAt(op[t]) /\ op[t].cmd = "ingest"
    BY LookUpStep DEF Typed, IngestSourceLooksUp, IdInv
  <1>1. op[t].block = NoBlock
    BY <1>0 DEF IngestAt
  <1>2. SameSource(s)
    BY DEF IngestSourceLooksUp, SameSource
  <1>3. CASE records[op[t].arg] # NoBlock
    <2>1. Leads(t, op'[t]) /\ Moved(op[t], op'[t])
      BY <1>1, <1>3, LookUpStep, EventMoves
    <2> QED BY <1>2, <2>1, MovesKeepIngesting, NothingHappens
  <1>4. CASE records[op[t].arg] = NoBlock
    <2>0. NewId(t) \in BlockIds /\ NoBlock \notin BlockIds /\ SourceBlocks \subseteq BlockIds
      BY LookUpStep DEF Sound, BlockIds
    <2>1. Leads(t, [op[t] EXCEPT !.at = "block", !.block = NewId(t)])
      BY <1>4, LookUpStep, Successor
    <2>2. /\ op'[t].at = "block" /\ op'[t].cmd = "ingest" /\ op'[t].arg = op[t].arg
          /\ op'[t].block = NewId(t)
          /\ \A u \in Threads \ {t} : op'[u] = op[u]
      BY <1>0, <2>1 DEF Leads, OpType
    <2>3. Ingesting(s)' = {u \in Threads : op'[u].cmd = "ingest" /\ op'[u].arg = s /\ op'[u].block # NoBlock}
      BY DEF Ingesting
    <2>4. t \notin Ingesting(s)
      BY <1>1 DEF Ingesting
    <2>5. CASE op[t].arg # s
      <3>1. SameIngesting(s)
        BY <2>2, <2>3, <2>4, <2>5 DEF Ingesting, SameIngesting
      <3> QED BY <1>2, <3>1, NothingHappens
    <2>6. CASE op[t].arg = s
      <3>1. Ingesting(s) = {} /\ records[s] = NoBlock /\ records' = records /\ blocks' = blocks
        BY <1>4, <2>6 DEF IngestSourceLooksUp
      <3>2. Ingesting(s)' = {t}
        BY <2>0, <2>2, <2>3, <2>6, <3>1 DEF Ingesting
      <3>3. \A b \in SourceBlocks : b[1] = s => blocks[b] # "live"
        BY <2>0, <3>1 DEF Safe, LiveIsKnown
      <3>4. LiveIsKnown(s)'
        BY <3>1, <3>3 DEF LiveIsKnown
      <3>5. OneIngests(s)'
        BY <3>2 DEF OneIngests
      <3>6. IngestedIsNew(s)'
        BY <3>1 DEF IngestedIsNew
      <3> QED BY <3>4, <3>5, <3>6 DEF Safe
    <2> QED BY <2>5, <2>6
  <1> QED BY <1>3, <1>4

LEMMA RecordIsSafe ==
  ASSUME Sound, Typed, IdInv, NEW t \in Threads, IngestSourceRecords(t),
         NEW s \in Sources, Safe(s)
  PROVE  Safe(s)'
  <1>0. /\ op[t].cmd = "ingest" /\ op[t].arg \in Sources /\ op[t].block \in SourceBlocks
        /\ Leads(t, IdleOp) /\ NoBlock \notin SourceBlocks
        /\ blocks' = blocks /\ records' = [records EXCEPT ![op[t].arg] = op[t].block]
    BY RecordStep, Successor DEF Sound, BlockIds, IngestSourceRecords
  <1>1. Ingesting(s)' = {u \in Threads : op'[u].cmd = "ingest" /\ op'[u].arg = s /\ op'[u].block # NoBlock}
    BY DEF Ingesting
  <1>2. Ingesting(s)' = Ingesting(s) \ {t} /\ \A u \in Threads \ {t} : op'[u] = op[u]
    BY <1>0, <1>1 DEF Ingesting, Leads, IdleOp
  <1>3. CASE op[t].arg # s
    <2>1. SameIngesting(s)
      BY <1>2, <1>3 DEF Ingesting, SameIngesting
    <2>2. SameSource(s)
      BY <1>0, <1>3 DEF SameSource, Typed
    <2> QED BY <2>1, <2>2, NothingHappens
  <1>4. CASE op[t].arg = s
    <2>1. t \in Ingesting(s)
      BY <1>0, <1>4 DEF Ingesting
    <2>2. records[s] = NoBlock /\ \A u \in Ingesting(s) : u = t
      BY <2>1 DEF Safe, IngestedIsNew, OneIngests
    <2>3. Ingesting(s)' = {} /\ records'[s] = op[t].block
      BY <1>0, <1>2, <1>4, <2>2 DEF Typed
    <2>4. \A b \in SourceBlocks : b[1] = s /\ blocks[b] = "live" => b = op[t].block
      BY <1>0, <2>2 DEF Safe, LiveIsKnown
    <2>5. LiveIsKnown(s)'
      BY <1>0, <2>3, <2>4 DEF LiveIsKnown
    <2>6. OneIngests(s)' /\ IngestedIsNew(s)'
      BY <2>3 DEF OneIngests, IngestedIsNew
    <2> QED BY <2>5, <2>6 DEF Safe
  <1> QED BY <1>3, <1>4

LEMMA FindIsSafe ==
  ASSUME Sound, Typed, NEW t \in Threads, DeleteSourceFinds(t), NEW s \in Sources, Safe(s)
  PROVE  Safe(s)'
  <1>0. op[t] \in OpType /\ op[t].cmd = "forget" /\ SameSource(s)
    BY FindStep DEF Typed, DeleteSourceFinds, SameSource, sources
  <1>1. Leads(t, op'[t]) /\ op'[t].cmd # "ingest"
    <2>1. CASE records[op[t].arg] = NoBlock
      <3>1. Leads(t, IdleOp)
        BY <2>1, FindStep, Successor
      <3> QED BY <3>1 DEF IdleOp, Leads
    <2>2. CASE records[op[t].arg] # NoBlock
      <3>1. Leads(t, [op[t] EXCEPT !.at = "delete", !.block = records[op[t].arg]])
        BY <2>2, FindStep, Successor
      <3> QED BY <1>0, <3>1 DEF OpType, Leads
    <2> QED BY <2>1, <2>2
  <1>2. Ingesting(s)' = {u \in Threads : op'[u].cmd = "ingest" /\ op'[u].arg = s /\ op'[u].block # NoBlock}
    BY DEF Ingesting
  <1>3. SameIngesting(s)
    BY <1>0, <1>1, <1>2 DEF Ingesting, SameIngesting, Leads
  <1> QED BY <1>0, <1>3, NothingHappens

LEMMA WriteIsSafe ==
  ASSUME Sound, NoClash, Typed, IdInv, NEW t \in Threads, Step(t), WriteBlock(t),
         NEW s \in Sources, Safe(s)
  PROVE  Safe(s)'
  <1>0. /\ ~Special(t) /\ records' = records
        /\ SourceBlocks \subseteq BlockIds /\ NoBlock \notin BlockIds
        /\ blocks \in [BlockIds -> {"none", "live", "deleted"}]
    BY DEF Special, WriteBlock, IngestSourceLooksUp, IngestSourceRecords, DeleteSourceFinds,
           sources, BlockIds, Sound, Typed
  <1>1. Leads(t, op'[t]) /\ (Moved(op[t], op'[t]) \/ Ended(op[t], op'[t]))
    BY <1>0, StepMoves DEF IdInv
  <1>2. SameIngesting(s)
    BY <1>1, MovesKeepIngesting
  <1>3. CASE op[t].cmd = "write" \/ op[t].arg # s
    <2>1. \A b \in SourceBlocks : b[1] = s => b # op[t].block
      BY <1>3, WritesItsOwn
    <2>2. SameSource(s)
      BY <1>0, <2>1, WritesItsOwn DEF SameSource
    <2> QED BY <1>2, <2>2, NothingHappens
  <1>4. CASE op[t].cmd = "ingest" /\ op[t].arg = s
    <2>1. op[t].block \in BlockIds /\ blocks' = [blocks EXCEPT ![op[t].block] = "live"]
      BY WritesItsOwn
    <2>2. t \in Ingesting(s) /\ op[t].block # NoBlock
      BY <1>0, <1>4, <2>1 DEF Ingesting
    <2>3. Moved(op[t], op'[t])
      BY <1>1, <1>4, <2>2 DEF Ended
    <2>4. op'[t].block = op[t].block /\ op'[t].at # "block"
      BY <2>3 DEF Moved
    <2>5. Ingesting(s)' = Ingesting(s)
      BY <1>2 DEF SameIngesting
    <2>6. ASSUME NEW b \in SourceBlocks, b[1] = s, blocks'[b] = "live"
          PROVE  records'[s] = b \/ \E u \in Ingesting(s)' : op'[u].block = b /\ op'[u].at # "block"
      <3>1. CASE b = op[t].block
        BY <2>2, <2>4, <2>5, <3>1
      <3>2. CASE b # op[t].block
        <4>1. blocks[b] = "live"
          BY <1>0, <2>1, <2>6, <3>2
        <4>2. records[s] = b \/ \E u \in Ingesting(s) : op[u].block = b /\ op[u].at # "block"
          BY <2>6, <4>1 DEF Safe, LiveIsKnown
        <4> QED BY <1>0, <1>2, <2>5, <4>2 DEF SameIngesting
      <3> QED BY <3>1, <3>2
    <2>7. LiveIsKnown(s)'
      BY <2>6 DEF LiveIsKnown
    <2>8. OneIngests(s)' /\ IngestedIsNew(s)'
      BY <1>0, <2>5 DEF Safe, OneIngests, IngestedIsNew
    <2> QED BY <2>7, <2>8 DEF Safe
  <1> QED BY <1>3, <1>4, WritesItsOwn

\* Outside its window a deletion removes the record of the block it has deleted, or none.
LEMMA ForgetIsSafe ==
  ASSUME Sound, Typed, IdInv, ForgottenIsGone, NEW t \in Threads, Step(t), DeleteSourceWrites(t),
         NEW s \in Sources, Safe(s), s \notin doubtful'
  PROVE  Safe(s)'
  <1>0. /\ ~Special(t) /\ op[t].at = "forget" /\ op[t].arg \in Sources
        /\ records \in [Sources -> SourceBlocks \cup {NoBlock}]
        /\ records' = [records EXCEPT ![op[t].arg] = NoBlock] /\ blocks' = blocks
        /\ NoBlock \notin SourceBlocks
    BY ForgetStep DEF Special, IngestSourceLooksUp, IngestSourceRecords, DeleteSourceFinds,
                      DeleteSourceWrites, Typed, Sound, BlockIds
  <1>1. Leads(t, op'[t]) /\ (Moved(op[t], op'[t]) \/ Ended(op[t], op'[t]))
    BY <1>0, StepMoves DEF IdInv
  <1>2. SameIngesting(s)
    BY <1>1, MovesKeepIngesting
  <1>3. CASE op[t].arg # s
    <2>1. SameSource(s)
      BY <1>0, <1>3 DEF SameSource
    <2> QED BY <1>2, <2>1, NothingHappens
  <1>4. CASE op[t].arg = s
    <2>1. records[s] \in {NoBlock, op[t].block} /\ records'[s] = NoBlock
      BY <1>0, <1>4 DEF DeleteSourceWrites
    <2>2. blocks[op[t].block] # "live" /\ op[t].block \in SourceBlocks
      BY <1>0 DEF ForgottenIsGone, Forgetting
    <2>3. \A b \in SourceBlocks : b[1] = s /\ blocks[b] = "live" =>
            \E u \in Ingesting(s) : op[u].block = b /\ op[u].at # "block"
      BY <1>0, <2>1, <2>2 DEF Safe, LiveIsKnown
    <2>4. LiveIsKnown(s)'
      BY <1>0, <1>2, <2>3 DEF LiveIsKnown, SameIngesting
    <2>5. OneIngests(s)' /\ IngestedIsNew(s)'
      BY <1>2, <2>1 DEF Safe, OneIngests, IngestedIsNew, SameIngesting
    <2> QED BY <2>4, <2>5 DEF Safe
  <1> QED BY <1>3, <1>4

\* The other steps leave the record alone, a cleanup outside its window too.
LEMMA StepIsSafe ==
  ASSUME Sound, NoClash, Typed, IdInv, ForgottenIsGone, NEW t \in Threads, Step(t),
         NEW s \in Sources, Safe(s), s \notin doubtful'
  PROVE  Safe(s)'
  <1>1. CASE Special(t)
    BY <1>1, LookUpIsSafe, RecordIsSafe, FindIsSafe DEF Special
  <1>2. CASE WriteBlock(t)
    BY <1>2, WriteIsSafe
  <1>3. CASE DeleteSourceWrites(t)
    BY <1>3, ForgetIsSafe
  <1>4. CASE ~Special(t) /\ ~WriteBlock(t) /\ ~DeleteSourceWrites(t)
    <2>1. Leads(t, op'[t]) /\ (Moved(op[t], op'[t]) \/ Ended(op[t], op'[t]))
      BY <1>4, StepMoves DEF IdInv
    <2>2. SameIngesting(s)
      BY <2>1, MovesKeepIngesting
    <2>3. records'[s] = records[s]
      <3>1. CASE CleanupWrites(t)
        BY <3>1 DEF CleanupWrites, Typed
      <3>2. CASE records' = records
        BY <3>2
      <3> QED BY <1>4, <3>1, <3>2 DEF Step, Special, sources, AppendEventReads,
             AppendEventWrites, UpdateHeadReads, UpdateHeadPuts, WriteRelation,
             DeleteRelationScans, DeleteRelationWrites, DeleteBlockReads,
             DeleteBlockScansIndex, DeleteBlockScansEdges, DeleteBlockWrites,
             IngestSourceEvent, CleanupScansBlocks, CleanupScansIndex,
             CleanupScansTombstones, RepairScansIndex, RepairScansBlocks,
             RepairScansEdges, RepairLooksUpInverse, RepairWrites
    <2>4. SameSource(s)
      BY <1>4, <2>3, OnlyWritesMakeLive DEF SameSource, BlockIds
    <2> QED BY <2>2, <2>4, NothingHappens
  <1> QED BY <1>1, <1>2, <1>3, <1>4

LEMMA StepKeepsSources ==
  ASSUME Sound, NoClash, Typed, IdInv, ForgottenIsGone, SourceInv, NEW t \in Threads, Step(t)
  PROVE  SourceInv'
  <1>1. SUFFICES ASSUME NEW s \in Sources, s \notin doubtful'
                 PROVE  Safe(s)'
    BY DEF SourceInv, Safe
  <1>2. s \notin doubtful /\ Safe(s)
    BY <1>1, DoubtStays DEF SourceInv, Safe
  <1> QED BY <1>1, <1>2, StepIsSafe

LEMMA BeginKeepsSources ==
  ASSUME Sound, Typed, IdInv, SourceInv, NEW t \in Threads, NEW c \in Commands,
         NEW x \in Arguments(c), NEW w \in TextsOf(c), Begin(t, c, x, w)
  PROVE  SourceInv'
  <1>1. SUFFICES ASSUME NEW s \in Sources, s \notin doubtful'
                 PROVE  Safe(s)'
    BY DEF SourceInv, Safe
  <1>2. Safe(s) /\ SameSource(s)
    BY <1>1 DEF SourceInv, Safe, Begin, sources, SameSource
  <1>3. PICK o : Becomes(t, o) /\ o.cmd = c /\ (c = "ingest" => o.block = NoBlock)
    BY BeginStep
  <1>4. Leads(t, o) /\ op[t].at = "idle" /\ IngestAt(op[t])
    BY <1>3, Successor DEF Begin, IdInv
  <1>5. \A u \in Threads :
          /\ op'[u].cmd = "ingest" /\ op'[u].block # NoBlock <=>
               op[u].cmd = "ingest" /\ op[u].block # NoBlock
          /\ op[u].cmd = "ingest" /\ op[u].block # NoBlock => op'[u] = op[u]
    BY <1>3, <1>4 DEF Leads, IngestAt
  <1>6. Ingesting(s)' = {u \in Threads : op'[u].cmd = "ingest" /\ op'[u].arg = s /\ op'[u].block # NoBlock}
    BY DEF Ingesting
  <1>7. Ingesting(s)' = Ingesting(s)
    BY <1>5, <1>6 DEF Ingesting
  <1>8. SameIngesting(s)
    BY <1>5, <1>7 DEF SameIngesting, Ingesting
  <1> QED BY <1>2, <1>8, NothingHappens

\* Outside its window a death interrupts only ingests that have not written their block.
LEMMA CrashKeepsSources ==
  ASSUME Sound, Typed, SourceInv, Crash
  PROVE  SourceInv'
  <1>1. SUFFICES ASSUME NEW s \in Sources, s \notin doubtful'
                 PROVE  Safe(s)'
    BY DEF SourceInv, Safe
  <1>2. /\ Safe(s) /\ records' = records /\ blocks' = blocks
        /\ \A t \in Ingesting(s) : op[t].at = "block"
    BY <1>1 DEF SourceInv, Safe, Crash
  <1>3. Ingesting(s)' = {u \in Threads : op'[u].cmd = "ingest" /\ op'[u].arg = s /\ op'[u].block # NoBlock}
    BY DEF Ingesting
  <1>4. Ingesting(s)' = {}
    BY <1>3, CrashStep DEF IdleOp
  <1>5. LiveIsKnown(s)'
    BY <1>2 DEF Safe, LiveIsKnown
  <1> QED BY <1>4, <1>5 DEF Safe, OneIngests, IngestedIsNew

LEMMA NextKeepsSources ==
  ASSUME Sound, NoClash, Typed, IdInv, ForgottenIsGone, SourceInv, [Next]_vars
  PROVE  SourceInv'
  <1>1. CASE \E t \in Threads : Step(t)
    BY <1>1, StepKeepsSources
  <1>2. CASE \E t \in Threads, c \in Commands : \E x \in Arguments(c), w \in TextsOf(c) :
               Begin(t, c, x, w)
    BY <1>2, BeginKeepsSources
  <1>3. CASE Crash
    BY <1>3, CrashKeepsSources
  <1>4. CASE UNCHANGED vars
    BY <1>4 DEF vars, SourceInv, LiveIsKnown, OneIngests, IngestedIsNew, Ingesting
  <1> QED BY <1>1, <1>2, <1>3, <1>4 DEF Next

LEMMA SourcesAreKept ==
  ASSUME Sound, NoClash
  PROVE  Spec => [](Typed /\ SourceInv)
  <1>1. Init => IdInv /\ ForgottenIsGone /\ SourceInv
    <2> SUFFICES ASSUME Init PROVE IdInv /\ ForgottenIsGone /\ SourceInv
      OBVIOUS
    <2>1. /\ \A t \in Threads : op[t] = IdleOp
          /\ records = [s \in Sources |-> NoBlock] /\ blocks = [b \in BlockIds |-> "none"]
      BY InitTyped DEF Init
    <2>2. \A t \in Threads : op[t].cmd = "none" /\ op[t].at = "idle"
      BY <2>1 DEF IdleOp
    <2>3. IdInv
      BY <2>1, <2>2 DEF IdInv, IngestAt, IdsDiffer, RecordedIsUsed, ForgetIsUsed
    <2>4. ForgottenIsGone
      BY <2>2 DEF ForgottenIsGone, Forgetting
    <2>5. \A s \in Sources : Ingesting(s) = {}
      BY <2>2 DEF Ingesting
    <2>6. SourceInv
      BY <2>1, <2>5 DEF SourceInv, LiveIsKnown, OneIngests, IngestedIsNew, BlockIds
    <2> QED BY <2>3, <2>4, <2>6
  <1>2. Typed /\ IdInv /\ ForgottenIsGone /\ SourceInv /\ [Next]_vars =>
          IdInv' /\ ForgottenIsGone' /\ SourceInv'
    BY NextKeepsIds, NextKeepsGone, NextKeepsSources
  <1> QED BY <1>1, <1>2, AlwaysTyped, PTL DEF Spec

\* A source has one live block at most unless it went through one of the four windows
\* of KnowledgeStore: for any number of threads, requests that overlap in any way,
\* deaths of the process anywhere, cleanups and repairs.  The one assumption on the
\* clients is that the ids they choose are not those that NewId draws.
THEOREM SourcesAreIngestedOnce ==
  ASSUME Sound, NoClash
  PROVE  Spec => []SourceIsIngestedOnce
  <1>1. Typed /\ SourceInv => SourceIsIngestedOnce
    <2> SUFFICES ASSUME Typed, SourceInv, NEW b \in SourceBlocks, NEW c \in SourceBlocks,
                        blocks[b] = "live", b[1] \notin doubtful,
                        blocks[c] = "live", c[1] = b[1]
                 PROVE  c = b
      BY DEF SourceIsIngestedOnce
    <2>1. PICK s \in Sources : s = b[1]
      BY DEF SourceBlocks
    <2>2. Safe(s) /\ NoBlock \notin SourceBlocks
      BY <2>1 DEF SourceInv, Safe, Sound, BlockIds
    <2>3. /\ records[s] = b \/ \E t \in Ingesting(s) : op[t].block = b
          /\ records[s] = c \/ \E t \in Ingesting(s) : op[t].block = c
      BY <2>1, <2>2 DEF Safe, LiveIsKnown
    <2>4. CASE Ingesting(s) = {}
      BY <2>3, <2>4
    <2>5. CASE Ingesting(s) # {}
      <3>1. records[s] # b /\ records[s] # c
        BY <2>2, <2>5 DEF Safe, IngestedIsNew
      <3> QED BY <2>2, <2>3, <3>1 DEF Safe, OneIngests
    <2> QED BY <2>4, <2>5
  <1> QED BY <1>1, SourcesAreKept, PTL
=============================================================================
