--------------------------- MODULE KnowledgeStore ---------------------------
(***************************************************************************)
(* The records of naim-knowledged (runtime/knowledge): blocks with their text *)
(* index, heads, relations, ingested sources, tombstones.                    *)
(*                                                                         *)
(* Each HTTP request is served by a detached thread and the store has no      *)
(* lock: an operation is a sequence of RocksDB reads and one or more atomic    *)
(* write batches, and every operation ends with an event whose number is       *)
(* read and written back.  The threads interleave between those steps.        *)
(*                                                                         *)
(* The text index has a key terms:<term>:<block id> for every term of a block,  *)
(* and none for a block whose text has no term.  Who removes the keys of a      *)
(* block removes all that end in its id, and these may be keys of others:       *)
(* the ids that clients choose are not escaped.                               *)
(*                                                                         *)
(* All blocks that clients name belong to one knowledge id, whose head is      *)
(* `head'.  A relation is the pair of its blocks and also its own id.  The     *)
(* acl keys and chunks, which only repair and deletion read, are left out.     *)
(***************************************************************************)
EXTENDS Naturals, FiniteSets

CONSTANTS
  Blocks,        \* block ids that clients choose
  Relations,     \* pairs of blocks
  Sources,       \* source keys
  Ids,           \* numbers that NewId may draw
  NoBlock,       \* no block
  Terms, Texts,  \* terms; the sets of terms that the text of a block may have
  EndsIn,        \* pairs of a key <<term, block>> and another block in whose id,
                 \* after a colon, it ends
  Threads,       \* request threads
  Commands,      \* requests: "write", "head", "relate", "unrelate", "delete",
                 \* "ingest", "forget", "cleanup", "repair"
  Crashes,       \* may the process die?
  MaxCommands    \* bound on the number of requests

\* Ids that IngestSource draws for the block of a source.
SourceBlocks == Sources \X Ids
BlockIds == Blocks \cup SourceBlocks

VARIABLES
  blocks,        \* blocks: none, live, or with the deleted mark
  text,          \* the terms of the text last written to each block
  index,         \* keys under terms:, each a term and a block
  head,          \* heads: of the knowledge id
  out, in,       \* edges_out:, edges_in:
  buried,        \* tombstones:relations:
  records,       \* sources: and source_hash: the block of each source
  buriedSources, \* tombstones:sources:
  doubtful,      \* history: sources that went through a window in which the store
                 \* may lose the record of a block it has (never read)
  latest,        \* meta:latest_event_sequence
  op,            \* request threads
  commands

vars == <<blocks, text, index, head, out, in, buried, records, buriedSources, doubtful,
          latest, op, commands>>
graph == <<out, in, buried>>
sources == <<records, buriedSources, doubtful>>

Nothing == [blocks |-> {}, index |-> {}, puts |-> {}, edges |-> {}, head |-> FALSE,
            sources |-> {}]
IdleOp == [cmd |-> "none", at |-> "idle", next |-> "end", arg |-> NoBlock, id |-> 0,
           block |-> NoBlock, text |-> {}, seq |-> 0, seen |-> Nothing]

Init ==
  /\ blocks = [b \in BlockIds |-> "none"] /\ text = [b \in BlockIds |-> {}]
  /\ index = {} /\ head = NoBlock
  /\ out = {} /\ in = {} /\ buried = {}
  /\ records = [s \in Sources |-> NoBlock] /\ buriedSources = {}
  /\ doubtful = {}
  /\ latest = 0
  /\ op = [t \in Threads |-> IdleOp]
  /\ commands = 0

\* The thread goes on at a step, or the request has been answered.
Goes(t, at) == op' = [op EXCEPT ![t] = IF at = "end" THEN IdleOp ELSE [@ EXCEPT !.at = at]]
GoesToEvent(t, next) == op' = [op EXCEPT ![t].at = "event", ![t].next = next]

First == [write |-> "block", head |-> "headRead", relate |-> "relate", unrelate |-> "unrelateScan",
          delete |-> "delete", ingest |-> "lookup", forget |-> "find",
          cleanup |-> "cleanBlocks", repair |-> "repairIndex"]

Arguments(c) ==
  CASE c \in {"write", "head"} -> Blocks
    [] c = "delete" -> BlockIds
    [] c \in {"relate", "unrelate"} -> Relations
    [] c \in {"ingest", "forget"} -> Sources
    [] OTHER -> {NoBlock}

\* Only the requests that write a block bring a text.
TextsOf(c) == IF c \in {"write", "ingest"} THEN Texts ELSE {{}}

Begin(t, c, x, terms) ==
  /\ op[t].at = "idle" /\ commands < MaxCommands
  /\ commands' = commands + 1
  /\ op' = [op EXCEPT ![t] = [IdleOp EXCEPT !.cmd = c, !.at = First[c], !.arg = x, !.text = terms,
                              !.id = IF c = "ingest" THEN commands' ELSE 0,
                              !.block = IF c \in {"write", "head", "delete"} THEN x ELSE NoBlock]]
  /\ UNCHANGED <<blocks, text, index, head, graph, sources, latest>>

-----------------------------------------------------------------------------
(* AppendEvent                                                              *)

AppendEventReads(t) ==
  /\ op[t].at = "event"
  /\ op' = [op EXCEPT ![t].at = "eventWrite", ![t].seq = latest + 1]
  /\ UNCHANGED <<blocks, text, index, head, graph, sources, latest, commands>>

AppendEventWrites(t) ==
  /\ op[t].at = "eventWrite"
  /\ latest' = op[t].seq
  /\ Goes(t, op[t].next)
  /\ UNCHANGED <<blocks, text, index, head, graph, sources, commands>>

-----------------------------------------------------------------------------
(* Blocks, heads and relations                                              *)

\* IndexTerms: the keys of a block.
KeysOf(terms, b) == terms \X {b}

\* The keys that end in ":" and the id of a block: its own, and those of others.
Matched(b) == {k \in index : k[2] = b \/ <<k, b>> \in EndsIn}

\* A new block and an overwritten one alike, and a deleted one becomes live.  The keys
\* of an earlier text stay.
WriteBlock(t) ==
  /\ op[t].at = "block"
  /\ blocks' = [blocks EXCEPT ![op[t].block] = "live"]
  /\ text' = [text EXCEPT ![op[t].block] = op[t].text]
  /\ index' = index \cup KeysOf(op[t].text, op[t].block)
  /\ GoesToEvent(t, IF op[t].cmd = "ingest" THEN "ingested" ELSE "end")
  /\ UNCHANGED <<head, graph, sources, latest, commands>>

UpdateHeadReads(t) ==
  /\ op[t].at = "headRead"
  /\ Goes(t, IF blocks[op[t].block] = "live" THEN "headPut" ELSE "end")
  /\ UNCHANGED <<blocks, text, index, head, graph, sources, latest, commands>>

UpdateHeadPuts(t) ==
  /\ op[t].at = "headPut"
  /\ head' = op[t].block
  /\ GoesToEvent(t, "end")
  /\ UNCHANGED <<blocks, text, index, graph, sources, latest, commands>>

\* The blocks of a relation are not looked up.
WriteRelation(t) ==
  /\ op[t].at = "relate"
  /\ out' = out \cup {op[t].arg} /\ in' = in \cup {op[t].arg}
  /\ GoesToEvent(t, "end")
  /\ UNCHANGED <<blocks, text, index, head, buried, sources, latest, commands>>

DeleteRelationScans(t) ==
  /\ op[t].at = "unrelateScan"
  /\ Goes(t, IF op[t].arg \in out THEN "unrelate" ELSE "end")
  /\ UNCHANGED <<blocks, text, index, head, graph, sources, latest, commands>>

DeleteRelationWrites(t) ==
  /\ op[t].at = "unrelate"
  /\ out' = out \ {op[t].arg} /\ in' = in \ {op[t].arg}
  /\ buried' = buried \cup {op[t].arg}
  /\ GoesToEvent(t, "end")
  /\ UNCHANGED <<blocks, text, index, head, sources, latest, commands>>

DeleteBlockReads(t) ==
  /\ op[t].at = "delete"
  /\ Goes(t, IF blocks[op[t].block] # "none" THEN "deleteIndex"
             ELSE IF op[t].cmd = "forget" THEN "forget" ELSE "end")
  /\ UNCHANGED <<blocks, text, index, head, graph, sources, latest, commands>>

DeleteBlockScansIndex(t) ==
  /\ op[t].at = "deleteIndex"
  /\ op' = [op EXCEPT ![t].at = "deleteEdges", ![t].seen.index = Matched(op[t].block)]
  /\ UNCHANGED <<blocks, text, index, head, graph, sources, latest, commands>>

\* A head goes with any block of its knowledge id.
DeleteBlockScansEdges(t) ==
  LET b == op[t].block
  IN /\ op[t].at = "deleteEdges"
     /\ op' = [op EXCEPT ![t].at = "deleteWrite",
                 ![t].seen.edges = {e \in out : e[1] = b \/ e[2] = b},
                 ![t].seen.head = (head # NoBlock) /\ (b \in Blocks)]
     /\ UNCHANGED <<blocks, text, index, head, graph, sources, latest, commands>>

\* The inverse edges stay behind.
DeleteBlockKeepsInverse(t) ==
  LET seen == op[t].seen
  IN /\ op[t].at = "deleteWrite"
     /\ blocks' = [blocks EXCEPT ![op[t].block] = "deleted"]
     /\ index' = index \ seen.index
     /\ out' = out \ seen.edges /\ buried' = buried \cup seen.edges
     /\ head' = IF seen.head THEN NoBlock ELSE head
     /\ GoesToEvent(t, IF op[t].cmd = "forget" THEN "forget" ELSE "end")
     /\ UNCHANGED <<text, in, sources, latest, commands>>

DeleteBlockWrites(t) ==
  LET seen == op[t].seen
  IN /\ op[t].at = "deleteWrite"
     /\ blocks' = [blocks EXCEPT ![op[t].block] = "deleted"]
     /\ index' = index \ seen.index
     /\ out' = out \ seen.edges /\ in' = in \ seen.edges
     /\ buried' = buried \cup seen.edges
     /\ head' = IF seen.head THEN NoBlock ELSE head
     /\ GoesToEvent(t, IF op[t].cmd = "forget" THEN "forget" ELSE "end")
     /\ UNCHANGED <<text, sources, latest, commands>>

-----------------------------------------------------------------------------
(* Sources                                                                  *)

\* NewId: the number of the request stands for the id that no other request draws.
NewId(t) == <<op[t].arg, op[t].id>>

\* The threads that have found no record of a source and not written one yet.
Ingesting(s) ==
  {t \in Threads : op[t].cmd = "ingest" /\ op[t].arg = s /\ op[t].block # NoBlock}

\* Never a duplicate.
IngestSourceAgain(t) ==
  /\ op[t].at = "lookup"
  /\ op' = [op EXCEPT ![t].at = "block", ![t].block = NewId(t)]
  /\ UNCHANGED <<blocks, text, index, head, graph, sources, latest, commands>>

\* A source with a record is a duplicate, which is only an event.
\* Window: another thread has looked for the record of this source too.
IngestSourceLooksUp(t) ==
  LET s == op[t].arg
  IN /\ op[t].at = "lookup"
     /\ \/ records[s] # NoBlock /\ GoesToEvent(t, "end") /\ UNCHANGED doubtful
        \/ /\ records[s] = NoBlock
           /\ op' = [op EXCEPT ![t].at = "block", ![t].block = NewId(t)]
           /\ doubtful' = doubtful \cup (IF Ingesting(s) = {} THEN {} ELSE {s})
     /\ UNCHANGED <<blocks, text, index, head, graph, records, buriedSources, latest, commands>>

\* The event of the source follows the one of its block, and the record comes last.
IngestSourceEvent(t) ==
  /\ op[t].at = "ingested"
  /\ GoesToEvent(t, "record")
  /\ UNCHANGED <<blocks, text, index, head, graph, sources, latest, commands>>

IngestSourceRecords(t) ==
  /\ op[t].at = "record"
  /\ records' = [records EXCEPT ![op[t].arg] = op[t].block]
  /\ Goes(t, "end")
  /\ UNCHANGED <<blocks, text, index, head, graph, buriedSources, doubtful, latest, commands>>

\* DeleteSource deletes the block of the record first.
DeleteSourceFinds(t) ==
  LET b == records[op[t].arg]
  IN /\ op[t].at = "find"
     /\ IF b = NoBlock THEN Goes(t, "end")
        ELSE op' = [op EXCEPT ![t].at = "delete", ![t].block = b]
     /\ UNCHANGED <<blocks, text, index, head, graph, sources, latest, commands>>

\* Window: the record is no longer the one that was found.
DeleteSourceWrites(t) ==
  LET s == op[t].arg
  IN /\ op[t].at = "forget"
     /\ records' = [records EXCEPT ![s] = NoBlock]
     /\ buriedSources' = buriedSources \cup {s}
     /\ doubtful' = doubtful \cup (IF records[s] \in {NoBlock, op[t].block} THEN {} ELSE {s})
     /\ GoesToEvent(t, "end")
     /\ UNCHANGED <<blocks, text, index, head, graph, latest, commands>>

-----------------------------------------------------------------------------
(* Cleanup and repair                                                       *)

CleanupScansBlocks(t) ==
  /\ op[t].at = "cleanBlocks"
  /\ op' = [op EXCEPT ![t].at = "cleanIndex",
                      ![t].seen.blocks = {b \in BlockIds : blocks[b] = "deleted"}]
  /\ UNCHANGED <<blocks, text, index, head, graph, sources, latest, commands>>

\* The keys are not compared with the deleted blocks.
CleanupScansAnyIndex(t) ==
  /\ op[t].at = "cleanIndex"
  /\ op' = [op EXCEPT ![t].at = "cleanTombstones",
                      ![t].seen.index = index,
                      ![t].seen.head = head \in op[t].seen.blocks]
  /\ UNCHANGED <<blocks, text, index, head, graph, sources, latest, commands>>

CleanupScansIndex(t) ==
  /\ op[t].at = "cleanIndex"
  /\ op' = [op EXCEPT ![t].at = "cleanTombstones",
                      ![t].seen.index = UNION {Matched(b) : b \in op[t].seen.blocks},
                      ![t].seen.head = head \in op[t].seen.blocks]
  /\ UNCHANGED <<blocks, text, index, head, graph, sources, latest, commands>>

CleanupScansTombstones(t) ==
  /\ op[t].at = "cleanTombstones"
  /\ op' = [op EXCEPT ![t].at = "cleanWrite",
                      ![t].seen.edges = buried, ![t].seen.sources = buriedSources]
  /\ UNCHANGED <<blocks, text, index, head, graph, sources, latest, commands>>

\* Everything that has a tombstone goes, and the tombstones stay.
\* Window: a source with a tombstone has been ingested again.
CleanupWrites(t) ==
  LET seen == op[t].seen
  IN /\ op[t].at = "cleanWrite"
     /\ blocks' = [b \in BlockIds |-> IF b \in seen.blocks THEN "none" ELSE blocks[b]]
     /\ text' = [b \in BlockIds |-> IF b \in seen.blocks THEN {} ELSE text[b]]
     /\ index' = index \ seen.index
     /\ head' = IF seen.head THEN NoBlock ELSE head
     /\ out' = out \ seen.edges /\ in' = in \ seen.edges
     /\ records' = [s \in Sources |-> IF s \in seen.sources THEN NoBlock ELSE records[s]]
     /\ doubtful' = doubtful \cup {s \in seen.sources : records[s] # NoBlock}
     /\ GoesToEvent(t, "end")
     /\ UNCHANGED <<buried, buriedSources, latest, commands>>

\* RunRepair with apply and full_rebuild: the index is made again from the blocks,
RepairScansIndex(t) ==
  /\ op[t].at = "repairIndex"
  /\ op' = [op EXCEPT ![t].at = "repairBlocks", ![t].seen.index = index]
  /\ UNCHANGED <<blocks, text, index, head, graph, sources, latest, commands>>

RepairScansBlocks(t) ==
  /\ op[t].at = "repairBlocks"
  /\ op' = [op EXCEPT ![t].at = "repairEdges",
       ![t].seen.puts = UNION {KeysOf(text[b], b) : b \in {x \in BlockIds : blocks[x] = "live"}}]
  /\ UNCHANGED <<blocks, text, index, head, graph, sources, latest, commands>>

\* and the inverse of every edge is looked up after the edges were listed.
RepairScansEdges(t) ==
  /\ op[t].at = "repairEdges"
  /\ op' = [op EXCEPT ![t].at = "repairInverse", ![t].seen.edges = out]
  /\ UNCHANGED <<blocks, text, index, head, graph, sources, latest, commands>>

RepairLooksUpInverse(t) ==
  /\ op[t].at = "repairInverse"
  /\ op' = [op EXCEPT ![t].at = "repairWrite", ![t].seen.edges = @ \ in]
  /\ UNCHANGED <<blocks, text, index, head, graph, sources, latest, commands>>

RepairWrites(t) ==
  LET seen == op[t].seen
  IN /\ op[t].at = "repairWrite"
     /\ index' = (index \ seen.index) \cup seen.puts
     /\ in' = in \cup seen.edges
     /\ GoesToEvent(t, "end")
     /\ UNCHANGED <<blocks, text, head, out, buried, sources, latest, commands>>

\* The process dies: what was written stays.
\* Window: the block of a source is written and its record is not.
Crash ==
  /\ Crashes /\ \E t \in Threads : op[t].at # "idle"
  /\ op' = [t \in Threads |-> IdleOp]
  /\ doubtful' = doubtful \cup {s \in Sources : \E t \in Ingesting(s) : op[t].at # "block"}
  /\ UNCHANGED <<blocks, text, index, head, graph, records, buriedSources, latest, commands>>

Step(t) ==
  \/ AppendEventReads(t) \/ AppendEventWrites(t) \/ WriteBlock(t)
  \/ UpdateHeadReads(t) \/ UpdateHeadPuts(t) \/ WriteRelation(t)
  \/ DeleteRelationScans(t) \/ DeleteRelationWrites(t)
  \/ DeleteBlockReads(t) \/ DeleteBlockScansIndex(t) \/ DeleteBlockScansEdges(t)
  \/ DeleteBlockWrites(t)
  \/ IngestSourceLooksUp(t) \/ IngestSourceEvent(t) \/ IngestSourceRecords(t)
  \/ DeleteSourceFinds(t) \/ DeleteSourceWrites(t)
  \/ CleanupScansBlocks(t) \/ CleanupScansIndex(t) \/ CleanupScansTombstones(t)
  \/ CleanupWrites(t)
  \/ RepairScansIndex(t) \/ RepairScansBlocks(t) \/ RepairScansEdges(t)
  \/ RepairLooksUpInverse(t) \/ RepairWrites(t)

Next ==
  \/ \E t \in Threads : Step(t)
  \/ \E t \in Threads, c \in Commands : \E x \in Arguments(c), terms \in TextsOf(c) :
       Begin(t, c, x, terms)
  \/ Crash

Spec == Init /\ [][Next]_vars

-----------------------------------------------------------------------------
\* The type invariant: the tables and the threads' local copies have their types.
TypeOK ==
  /\ blocks \in [BlockIds -> {"none", "live", "deleted"}]
  /\ text \in [BlockIds -> SUBSET Terms]
  /\ index \subseteq Terms \X BlockIds
  /\ head \in Blocks \cup {NoBlock}
  /\ out \subseteq Relations /\ in \subseteq Relations /\ buried \subseteq Relations
  /\ records \in [Sources -> SourceBlocks \cup {NoBlock}]
  /\ buriedSources \subseteq Sources /\ doubtful \subseteq Sources
  /\ latest \in Nat /\ commands \in 0 .. MaxCommands
  /\ \A t \in Threads : op[t].block \in BlockIds \cup {NoBlock} /\ op[t].seq \in Nat

\* What RunRepair calls edge_symmetry_missing does not happen: every relation is under
\* both keys or under none, whatever requests other than a repair overlap and wherever
\* the process dies.
EdgesAreSymmetric == out = in

\* A search finds a live block by every term of its text: the key is in the index,
\* whatever requests other than a repair overlap and wherever the process dies, unless
\* the key ends in the id of another block, with which DeleteBlock or Cleanup may take it.
LiveBlockIsIndexed ==
  \A b \in BlockIds : blocks[b] = "live" =>
    \A k \in KeysOf(text[b], b) :
      k \in index \/ \E a \in BlockIds \ {b} : <<k, a>> \in EndsIn

\* A source that is in the store is not put there a second time ("source ingest
\* should deduplicate", knowledge_store_tests.cpp), whatever requests overlap and
\* wherever the process dies, as long as the source goes through none of four windows:
\* two ingests of it that look up its record before either writes one, a death between
\* its block and its record, a deletion that removes another record than it found, and
\* a cleanup after it was deleted and ingested again.
SourceIsIngestedOnce ==
  \A b \in SourceBlocks : blocks[b] = "live" /\ b[1] \notin doubtful =>
    \A c \in SourceBlocks : blocks[c] = "live" /\ c[1] = b[1] => c = b
=============================================================================
