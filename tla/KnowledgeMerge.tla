--------------------------- MODULE KnowledgeMerge ---------------------------
(***************************************************************************)
(* Overlays of planes and their merge into the canonical store of             *)
(* naim-knowledged: WriteOverlay, TriggerReplicaMerge and DecideReviewItem of *)
(* knowledge_store.cpp.                                                     *)
(*                                                                         *)
(* An overlay gets the number of an event of its own and is stored under it.   *)
(* A merge takes the overlays numbered above the last completed checkpoint,    *)
(* one after the other, and writes a checkpoint when it ends, also when it     *)
(* failed.  Requests are served by detached threads without a lock.           *)
(*                                                                         *)
(* One plane, one capsule, one knowledge id; the version an overlay proposes   *)
(* is its own id and its base is the version of the head when it was made.     *)
(***************************************************************************)
EXTENDS Naturals, FiniteSets

CONSTANTS
  Overlays,      \* ids of the overlays planes propose
  Kinds,         \* "sure", "unsure" (confidence below 0.5), "protected"
  NoOverlay,     \* no overlay; also the version of a missing head
  Threads,       \* request threads
  Decisions,     \* "accept", "reject"
  MaxCrashes,    \* bound on deaths of the process and failing writes
  MaxMerges      \* bound on merges, and on decisions

VARIABLES
  latest,        \* meta:latest_event_sequence
  stored,        \* overlays: under their numbers
  checkpoints,   \* replica_checkpoints: [status, to]
  reviews,       \* review_items: [overlay, status]
  head,          \* version the head of the knowledge id names
  taken,         \* history: overlays a merge has accepted, queued or rejected
  op,            \* request threads
  merges, decisions, crashes

vars == <<latest, stored, checkpoints, reviews, head, taken, op, merges, decisions, crashes>>
data == <<stored, checkpoints, reviews, head, taken>>
bounds == <<merges, decisions, crashes>>

NoChange == [id |-> NoOverlay, kind |-> "sure", base |-> NoOverlay, seq |-> 0]
IdleOp == [at |-> "idle", next |-> "idle", seq |-> 0, overlay |-> NoChange,
           from |-> 0, to |-> 0, scan |-> {}]

Init ==
  /\ latest = 0
  /\ stored = {} /\ checkpoints = {} /\ reviews = {} /\ taken = {}
  /\ head = NoOverlay
  /\ op = [t \in Threads |-> IdleOp]
  /\ merges = 0 /\ decisions = 0 /\ crashes = 0

Goes(t, at) == op' = [op EXCEPT ![t] = IF at = "idle" THEN IdleOp ELSE [@ EXCEPT !.at = at]]
GoesToEvent(t, next) == op' = [op EXCEPT ![t].at = "event", ![t].next = next]

AppendEventReads(t) ==
  /\ op[t].at = "event"
  /\ op' = [op EXCEPT ![t].at = "eventWrite", ![t].seq = latest + 1]
  /\ UNCHANGED <<latest, data, bounds>>

AppendEventWrites(t) ==
  /\ op[t].at = "eventWrite"
  /\ latest' = op[t].seq
  /\ Goes(t, op[t].next)
  /\ UNCHANGED <<data, bounds>>

-----------------------------------------------------------------------------
(* Overlays                                                                 *)

Proposed == {o.id : o \in stored} \cup {op[t].overlay.id : t \in Threads}

\* WriteOverlay takes the number of its event,
ProposeOverlay(t, o, k) ==
  /\ op[t].at = "idle" /\ o \notin Proposed \cup taken
  /\ op' = [op EXCEPT ![t] = [IdleOp EXCEPT !.at = "event", !.next = "overlay",
              !.overlay = [NoChange EXCEPT !.id = o, !.kind = k, !.base = head]]]
  /\ UNCHANGED <<latest, data, bounds>>

\* and stores the overlay under it in a second write.
StoreOverlay(t) ==
  /\ op[t].at = "overlay"
  /\ stored' = stored \cup {[op[t].overlay EXCEPT !.seq = op[t].seq]}
  /\ Goes(t, "idle")
  /\ UNCHANGED <<latest, checkpoints, reviews, head, taken, bounds>>

-----------------------------------------------------------------------------
(* TriggerReplicaMerge                                                      *)

MaxOf(S) == CHOOSE x \in S : \A y \in S : y <= x

\* The newest checkpoint, whatever became of its merge.
LastCheckpointAny == MaxOf({0} \cup {c.to : c \in checkpoints})

LastCheckpointSequence == MaxOf({0} \cup {c.to : c \in {d \in checkpoints : d.status = "completed"}})

\* A merge of a protected plane only writes a skipped checkpoint.
TriggerReplicaMerge(t, protected) ==
  /\ op[t].at = "idle" /\ merges < MaxMerges
  /\ merges' = merges + 1
  /\ op' = [op EXCEPT ![t] = [IdleOp EXCEPT
              !.at = "event", !.next = IF protected THEN "skip" ELSE "scan",
              !.from = LastCheckpointSequence + 1, !.to = LastCheckpointSequence]]
  /\ UNCHANGED <<latest, data, decisions, crashes>>

WriteCheckpoint(t, status) ==
  checkpoints' = checkpoints \cup {[status |-> status, to |-> op[t].to]}

SkipMerge(t) ==
  /\ op[t].at = "skip"
  /\ WriteCheckpoint(t, "skipped")
  /\ Goes(t, "idle")
  /\ UNCHANGED <<latest, stored, reviews, head, taken, bounds>>

ScanOverlays(t) ==
  /\ op[t].at = "scan"
  /\ op' = [op EXCEPT ![t].at = "next", ![t].scan = {o \in stored : o.seq >= op[t].from}]
  /\ UNCHANGED <<latest, data, bounds>>

\* Keys are in the order of the numbers.
NextOf(S) == CHOOSE o \in S : \A p \in S : o.seq <= p.seq

Conflict(o) == head # NoOverlay /\ head # o.base

\* One overlay: rejected, sent to review, or accepted when its base is still the head.
MergeOverlay(t) ==
  LET o == NextOf(op[t].scan)
      Takes(at, next) ==
        op' = [op EXCEPT ![t].at = at, ![t].next = next, ![t].overlay = o,
                         ![t].scan = @ \ {o}, ![t].to = IF o.seq > @ THEN o.seq ELSE @]
  IN /\ op[t].at = "next" /\ op[t].scan # {}
     /\ \/ /\ o.kind = "protected"
           /\ taken' = taken \cup {o.id}
           /\ Takes("next", "next")
           /\ UNCHANGED reviews
        \/ /\ o.kind = "unsure" \/ (o.kind = "sure" /\ Conflict(o))
           /\ reviews' = reviews \cup {[overlay |-> o, status |-> "pending"]}
           /\ taken' = taken \cup {o.id}
           /\ Takes("event", "next")
        \/ /\ o.kind = "sure" /\ ~Conflict(o)
           /\ Takes("block", "next")
           /\ UNCHANGED <<reviews, taken>>
     /\ UNCHANGED <<latest, stored, checkpoints, head, bounds>>

\* WriteBlock of a proposed block, of which only the head tells here; its event
\* precedes UpdateHead.
WriteProposedBlock(t) ==
  /\ op[t].at = "block"
  /\ GoesToEvent(t, "head")
  /\ UNCHANGED <<latest, data, bounds>>

UpdateHead(t) ==
  /\ op[t].at = "head"
  /\ head' = op[t].overlay.id
  /\ taken' = taken \cup {op[t].overlay.id}
  /\ GoesToEvent(t, IF op[t].from = 0 THEN "decided" ELSE "next")
  /\ UNCHANGED <<latest, stored, checkpoints, reviews, bounds>>

MergeCompletes(t) ==
  /\ op[t].at = "next" /\ op[t].scan = {}
  /\ GoesToEvent(t, "checkpoint")
  /\ UNCHANGED <<latest, data, bounds>>

\* An exception while overlays are merged, such as a failing write.
MergeFails(t) ==
  /\ crashes < MaxCrashes /\ op[t].from # 0 /\ op[t].at \in {"next", "block", "head", "event"}
  /\ op[t].next \in {"next", "head", "checkpoint"}
  /\ crashes' = crashes + 1
  /\ GoesToEvent(t, "failed")
  /\ UNCHANGED <<latest, data, merges, decisions>>

\* The checkpoint of a failed merge also names the last overlay it looked at.
EndMerge(t) ==
  /\ op[t].at \in {"checkpoint", "failed"}
  /\ WriteCheckpoint(t, IF op[t].at = "failed" THEN "failed" ELSE "completed")
  /\ Goes(t, "idle")
  /\ UNCHANGED <<latest, stored, reviews, head, taken, bounds>>

-----------------------------------------------------------------------------
\* DecideReviewItem: an item may be decided again, and an accepted overlay is
\* written whatever the head is now.
DecideReviewItem(t, item, action) ==
  /\ op[t].at = "idle" /\ decisions < MaxMerges
  /\ decisions' = decisions + 1
  /\ reviews' = (reviews \ {item}) \cup
       {[item EXCEPT !.status = IF action = "accept" THEN "accepted" ELSE "reject"]}
  /\ op' = [op EXCEPT ![t] = [IdleOp EXCEPT !.overlay = item.overlay,
              !.at = IF action = "accept" THEN "block" ELSE "event"]]
  /\ UNCHANGED <<latest, stored, checkpoints, head, taken, merges, crashes>>

DecisionEvent(t) ==
  /\ op[t].at = "decided"
  /\ GoesToEvent(t, "idle")
  /\ UNCHANGED <<latest, data, bounds>>

Crash ==
  /\ crashes < MaxCrashes /\ \E t \in Threads : op[t].at # "idle"
  /\ crashes' = crashes + 1
  /\ op' = [t \in Threads |-> IdleOp]
  /\ UNCHANGED <<latest, data, merges, decisions>>

Next ==
  \/ \E t \in Threads :
       \/ AppendEventReads(t) \/ AppendEventWrites(t) \/ StoreOverlay(t)
       \/ SkipMerge(t) \/ ScanOverlays(t) \/ MergeOverlay(t)
       \/ WriteProposedBlock(t) \/ UpdateHead(t) \/ DecisionEvent(t)
       \/ MergeCompletes(t) \/ MergeFails(t) \/ EndMerge(t)
  \/ \E t \in Threads, protected \in BOOLEAN : TriggerReplicaMerge(t, protected)
  \/ \E t \in Threads, o \in Overlays, k \in Kinds : ProposeOverlay(t, o, k)
  \/ \E t \in Threads, item \in reviews, a \in Decisions : DecideReviewItem(t, item, a)
  \/ Crash

Spec == Init /\ [][Next]_vars

-----------------------------------------------------------------------------
\* The type invariant: events, overlays, checkpoints and merges have their types.
TypeOK ==
  /\ latest \in Nat
  /\ \A o \in stored : o.id \in Overlays /\ o.kind \in {"sure", "unsure", "protected"}
                       /\ o.base \in Overlays \cup {NoOverlay} /\ o.seq \in Nat
  /\ \A c \in checkpoints : c.status \in {"completed", "failed", "skipped"} /\ c.to \in Nat
  /\ \A r \in reviews : r.overlay \in stored /\ r.status \in {"pending", "accepted", "reject"}
  /\ head \in Overlays \cup {NoOverlay} /\ taken \subseteq Overlays
  /\ \A t \in Threads : op[t].scan \subseteq stored /\ op[t].to \in Nat
  /\ merges \in 0 .. MaxMerges /\ decisions \in 0 .. MaxMerges
  /\ crashes \in 0 .. MaxCrashes

\* No overlay is left behind: one that the next merge will not look at was accepted,
\* sent to review or rejected before, although merges fail and the process dies
\* between any two writes.
NoOverlayIsSkipped ==
  \A o \in stored : o.seq <= LastCheckpointSequence => o.id \in taken
=============================================================================
