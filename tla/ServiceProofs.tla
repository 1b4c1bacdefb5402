---------------------------- MODULE ServiceProofs ----------------------------
(***************************************************************************)
(* Proofs about five components that stand alone: the merge of overlays into  *)
(* the knowledge store (KnowledgeMerge), the session of a host (HostSession), *)
(* stored conversations (Conversation), telemetry streams (TelemetryStream)   *)
(* and the stored documents of planes (DesiredState).                         *)
(***************************************************************************)
EXTENDS Naturals, SequenceTheorems, FiniteSetTheorems, TLAPS

CONSTANTS Threads, Overlays, Kinds, NoOverlay, Decisions, MaxCrashes, MaxMerges

VARIABLES latest, stored, checkpoints, reviews, head, taken, op, merges, decisions,
          crashes

Merge == INSTANCE KnowledgeMerge

CONSTANTS Clients, Commands, Timeouts, MaxAttempts, MaxTokens, MaxCalls

VARIABLES host, client, thread, operator, fresh, token, calls

Session == INSTANCE HostSession

-----------------------------------------------------------------------------
(* Merges of overlays: requests are served one after another.              *)

\* One request at a time.
OneThread == \A t, u \in Threads : t = u

OverlayKinds == {"sure", "unsure", "protected"}

Stages == {"idle", "event", "eventWrite", "overlay", "skip", "scan", "next", "block",
           "head", "decided", "checkpoint", "failed"}

Versions == Overlays \cup {NoOverlay}

Change == [id : Versions, kind : OverlayKinds, base : Versions, seq : Nat]

Requests == [at : Stages, next : Stages \ {"event", "eventWrite"}, seq : Nat,
             overlay : Change, from : Nat, to : Nat, scan : SUBSET Change]

\* Where a request is, or goes once its event is written.
Stage(x) == IF x.at \in {"event", "eventWrite"} THEN x.next ELSE x.at

\* What holds of a request x: an overlay about to be stored has a number above
\* all checkpoints, and what a merge has not taken is still ahead of it.
RequestInv(x, last, all, done, points) ==
  /\ x \in Requests /\ x.scan \subseteq all /\ x.to <= last
  /\ x.at = "eventWrite" => x.seq = last + 1
  /\ x.at = "overlay" => x.seq \in 1..last /\ \A c \in points : c.to < x.seq
  /\ Stage(x) \in {"block", "head", "overlay"} => x.overlay.id \in Overlays
  /\ Stage(x) = "next" => x.from # 0
  /\ Stage(x) = "scan" => x.from # 0 /\ \A o \in all : o.id \in done \/ o.seq >= x.from
  /\ Stage(x) \in {"next", "block", "head"} /\ x.from # 0 =>
       \A o \in all :
         \/ o.id \in done \/ o \in x.scan
         \/ Stage(x) # "next" /\ o.id = x.overlay.id
  /\ Stage(x) = "checkpoint" => \A o \in all : o.id \in done

\* The tables: what a completed checkpoint covers has been taken.
TablesInv(last, all, done, points, items) ==
  /\ last \in Nat
  /\ \A o \in all : o \in Change /\ o.id \in Overlays /\ o.seq \in 1..last
  /\ \A c \in points : /\ c.status \in {"completed", "failed", "skipped"}
                       /\ c.to \in 0..last
  /\ \A r \in items : /\ r.overlay \in all /\ r.status \in {"pending", "accepted", "reject"}
                      /\ r = [overlay |-> r.overlay, status |-> r.status]
  /\ done \subseteq Overlays
  /\ \A c \in points : c.status = "completed" =>
       \A o \in all : o.seq <= c.to => o.id \in done

\* The bounds and the head.
CountersInv ==
  /\ head \in Versions /\ MaxMerges \in Nat /\ MaxCrashes \in Nat
  /\ merges \in 0..MaxMerges /\ decisions \in 0..MaxMerges /\ crashes \in 0..MaxCrashes

\* The inductive invariant of the merge.
MergeInv ==
  /\ TablesInv(latest, stored, taken, checkpoints, reviews)
  /\ CountersInv
  /\ DOMAIN op = Threads
  /\ \A t \in Threads : RequestInv(op[t], latest, stored, taken, checkpoints)

\* A bounded set of numbers has a largest member.
LEMMA LargestExists ==
  ASSUME NEW b \in Nat, NEW S \in SUBSET (0..b), S # {}
  PROVE  \E g \in S : \A x \in S : x <= g
<1> DEFINE T == {b - x : x \in S}
<1>1. T \subseteq Nat /\ T # {}
  <2>1. ASSUME NEW x \in S PROVE b - x \in Nat
    <3>1. x \in 0..b
      OBVIOUS
    <3> QED BY <3>1
  <2>2. PICK x \in S : TRUE
    OBVIOUS
  <2>3. b - x \in T
    OBVIOUS
  <2> QED BY <2>1, <2>3
<1> DEFINE R == OpToRel(<, Nat)
<1>2. PICK y \in T : \A z \in T : <<z, y>> \notin R
  <2> HIDE DEF T
  <2>1. IsWellFoundedOn(R, Nat)
    BY NatLessThanWellFounded
  <2> HIDE DEF R
  <2> QED BY <1>1, <2>1, WFMin
<1>3. \A z \in T : ~(z < y)
  BY <1>1, <1>2 DEF OpToRel
<1>4. PICK g \in S : y = b - g
  OBVIOUS
<1>5. ASSUME NEW x \in S PROVE x <= g
  <2>1. x \in 0..b /\ g \in 0..b /\ b - x \in T
    OBVIOUS
  <2> HIDE DEF T
  <2>2. ~(b - x < b - g)
    BY <1>3, <1>4, <2>1
  <2> QED BY <2>1, <2>2
<1> QED BY <1>5

\* LastCheckpointSequence is 0 or the number of a completed checkpoint, the
\* largest of them, and all overlays up to it have been taken.
LEMMA LastCheckpoint ==
  ASSUME TablesInv(latest, stored, taken, checkpoints, reviews)
  PROVE  /\ Merge!LastCheckpointSequence \in 0..latest
         /\ \A o \in stored : o.seq <= Merge!LastCheckpointSequence => o.id \in taken
<1> DEFINE S == {0} \cup {c.to : c \in {d \in checkpoints : d.status = "completed"}}
           m == Merge!LastCheckpointSequence
<1>1. latest \in Nat /\ S \in SUBSET (0..latest) /\ S # {}
  BY DEF TablesInv
<1>2. \E g \in S : \A x \in S : x <= g
  <2> HIDE DEF S
  <2> QED BY <1>1, LargestExists
<1>3. m = CHOOSE x \in S : \A y \in S : y <= x
  BY DEF Merge!LastCheckpointSequence, Merge!MaxOf
<1>4. m \in S /\ \A y \in S : y <= m
  <2> HIDE DEF S, m
  <2> QED BY <1>2, <1>3
<1>5. m \in 0..latest
  BY <1>1, <1>4
<1>6. ASSUME NEW o \in stored, o.seq <= m PROVE o.id \in taken
  <2>1. o.seq \in 1..latest
    BY DEF TablesInv
  <2>2. m # 0
    BY <1>5, <1>6, <2>1
  <2>3. PICK c \in checkpoints : c.status = "completed" /\ c.to = m
    BY <1>4, <2>2
  <2> QED BY <1>6, <2>3 DEF TablesInv
<1> QED BY <1>5, <1>6

\* With one thread, its request is the only one.
LEMMA MergeStep ==
  ASSUME OneThread, NEW t \in Threads, NEW y, op' = [op EXCEPT ![t] = y],
         DOMAIN op = Threads, CountersInv',
         TablesInv(latest', stored', taken', checkpoints', reviews'),
         RequestInv(y, latest', stored', taken', checkpoints')
  PROVE  MergeInv'
<1>1. \A u \in Threads : op'[u] = y
  BY DEF OneThread
<1>2. DOMAIN op' = Threads
  OBVIOUS
<1> QED BY <1>1, <1>2 DEF MergeInv, TablesInv, RequestInv

\* A thread that has nothing to do.
LEMMA IdleRequest ==
  ASSUME NEW last \in Nat, NEW all, NEW done, NEW points
  PROVE  RequestInv(Merge!IdleOp, last, all, done, points)
<1>1. Merge!NoChange \in Change
  BY DEF Merge!NoChange, Change, Versions, OverlayKinds
<1>2. Merge!IdleOp \in Requests
  BY <1>1 DEF Merge!IdleOp, Requests, Stages
<1>3. Merge!IdleOp.at = "idle" /\ Merge!IdleOp.scan = {} /\ Merge!IdleOp.to = 0
  BY DEF Merge!IdleOp
<1>4. Stage(Merge!IdleOp) = "idle"
  BY <1>3 DEF Stage
<1> QED BY <1>2, <1>3, <1>4 DEF RequestInv

\* AppendEvent: the number is read, then written.
LEMMA EventReads ==
  ASSUME MergeInv, OneThread, NEW t \in Threads, Merge!AppendEventReads(t)
  PROVE  MergeInv'
<1>1. PICK x : x = op[t]
  OBVIOUS
<1>2. x \in Requests /\ RequestInv(x, latest, stored, taken, checkpoints) /\ latest \in Nat
  BY <1>1 DEF MergeInv, RequestInv, TablesInv
<1>0. PICK k \in Nat : k = latest + 1
  BY <1>2
<1> DEFINE y == [x EXCEPT !.at = "eventWrite", !.seq = k]
<1>3. /\ y \in Requests /\ y.at = "eventWrite" /\ y.next = x.next /\ y.seq = k
      /\ y.overlay = x.overlay /\ y.from = x.from /\ y.to = x.to /\ y.scan = x.scan
  BY <1>2 DEF Requests, Stages
<1>4. /\ x.at = "event" /\ op' = [op EXCEPT ![t] = y]
      /\ UNCHANGED <<latest, stored, checkpoints, reviews, head, taken, merges,
                     decisions, crashes>>
  BY <1>0, <1>1 DEF Merge!AppendEventReads, Merge!data, Merge!bounds
<1> HIDE DEF y
<1>5. Stage(y) = Stage(x)
  BY <1>3, <1>4 DEF Stage
<1>6. RequestInv(y, latest, stored, taken, checkpoints)
  BY <1>0, <1>2, <1>3, <1>5 DEF RequestInv
<1> QED BY <1>4, <1>6, MergeStep DEF MergeInv, CountersInv

\* The request goes on to what its event was for.
LEMMA EventWrites ==
  ASSUME MergeInv, OneThread, NEW t \in Threads, Merge!AppendEventWrites(t)
  PROVE  MergeInv'
<1>1. PICK x : x = op[t]
  OBVIOUS
<1>2. /\ x \in Requests /\ RequestInv(x, latest, stored, taken, checkpoints)
      /\ TablesInv(latest, stored, taken, checkpoints, reviews) /\ latest \in Nat
  BY <1>1 DEF MergeInv, RequestInv, TablesInv
<1> DEFINE z == [x EXCEPT !.at = x.next]
           y == IF x.next = "idle" THEN Merge!IdleOp ELSE z
<1>3. /\ z \in Requests /\ z.at = x.next /\ z.next = x.next /\ z.seq = x.seq
      /\ z.overlay = x.overlay /\ z.from = x.from /\ z.to = x.to /\ z.scan = x.scan
  BY <1>2 DEF Requests
<1>4. /\ x.at = "eventWrite" /\ op' = [op EXCEPT ![t] = y] /\ latest' = x.seq
      /\ UNCHANGED <<stored, checkpoints, reviews, head, taken, merges, decisions, crashes>>
  BY <1>1 DEF Merge!AppendEventWrites, Merge!Goes, Merge!data, Merge!bounds
<1>5. PICK last \in Nat : last = latest' /\ last = latest + 1
  BY <1>2, <1>4 DEF RequestInv
<1> HIDE DEF z
<1>6. Stage(z) = Stage(x)
  BY <1>3, <1>4 DEF Stage
<1>7. TablesInv(last, stored, taken, checkpoints, reviews)
  BY <1>2, <1>5 DEF TablesInv
<1>8. RequestInv(z, last, stored, taken, checkpoints)
  <2>1. z.to <= last
    BY <1>2, <1>3, <1>5 DEF RequestInv, Requests
  <2>2. z.at # "eventWrite"
    BY <1>2, <1>3 DEF Requests
  <2>3. z.at = "overlay" => z.seq \in 1..last /\ \A c \in checkpoints : c.to < z.seq
    <3>1. z.seq = last /\ last \in 1..last
      BY <1>2, <1>3, <1>4, <1>5
    <3>2. \A c \in checkpoints : c.to < last
      BY <1>2, <1>5 DEF TablesInv
    <3> QED BY <3>1, <3>2
  <2> QED BY <1>2, <1>3, <1>6, <2>1, <2>2, <2>3 DEF RequestInv
<1>9. RequestInv(y, last, stored, taken, checkpoints)
  BY <1>8, IdleRequest
<1> HIDE DEF y
<1> QED BY <1>4, <1>5, <1>7, <1>9, MergeStep DEF MergeInv, CountersInv

\* The steps that only move a request on.
LEMMA RequestMoves ==
  ASSUME MergeInv, OneThread, NEW t \in Threads, NEW a \in Stages,
         NEW nx \in Stages \ {"event", "eventWrite"},
         op' = [op EXCEPT ![t].at = a, ![t].next = nx], a \notin {"eventWrite", "overlay"},
         UNCHANGED <<latest, stored, checkpoints, reviews, head, taken, merges, decisions>>,
         crashes' \in 0..MaxCrashes,
         NEW z, z = IF a = "event" THEN nx ELSE a,
         \/ z \in {"idle", "decided", "failed"}
         \/ z = "head" /\ Stage(op[t]) = "block"
         \/ z = "checkpoint" /\ Stage(op[t]) = "next" /\ op[t].scan = {}
  PROVE  MergeInv'
<1>1. PICK x : x = op[t]
  OBVIOUS
<1>2. x \in Requests /\ RequestInv(x, latest, stored, taken, checkpoints)
  BY <1>1 DEF MergeInv, RequestInv
<1> DEFINE y == [x EXCEPT !.at = a, !.next = nx]
<1>3. /\ y \in Requests /\ y.at = a /\ y.next = nx /\ y.overlay = x.overlay
      /\ y.from = x.from /\ y.to = x.to /\ y.scan = x.scan
  BY <1>2 DEF Requests
<1>4. op' = [op EXCEPT ![t] = y]
  BY <1>1
<1> HIDE DEF y
<1>5. Stage(y) = IF a = "event" THEN nx ELSE a
  BY <1>3 DEF Stage
<1>6. \/ Stage(y) \in {"idle", "decided", "failed"}
      \/ Stage(y) = "head" /\ Stage(x) = "block"
      \/ Stage(y) = "checkpoint" /\ Stage(x) = "next" /\ x.scan = {}
  BY <1>1, <1>5
<1>7. RequestInv(y, latest, stored, taken, checkpoints)
  BY <1>2, <1>3, <1>6 DEF RequestInv
<1> QED BY <1>4, <1>7, MergeStep DEF MergeInv, CountersInv

\* WriteProposedBlock, MergeCompletes, MergeFails and DecisionEvent.
LEMMA EventSteps ==
  ASSUME MergeInv, OneThread, NEW t \in Threads,
         \/ Merge!WriteProposedBlock(t) \/ Merge!MergeCompletes(t)
         \/ Merge!MergeFails(t) \/ Merge!DecisionEvent(t)
  PROVE  MergeInv'
<1>1. {"event", "head", "checkpoint", "failed", "idle"} \subseteq Stages
  BY DEF Stages
<1>2. crashes \in 0..MaxCrashes
  BY DEF MergeInv, CountersInv
<1>3. CASE Merge!WriteProposedBlock(t)
  <2>1. Stage(op[t]) = "block"
    BY <1>3 DEF Merge!WriteProposedBlock, Stage
  <2>2. op' = [op EXCEPT ![t].at = "event", ![t].next = "head"]
    BY <1>3 DEF Merge!WriteProposedBlock, Merge!GoesToEvent
  <2>3. UNCHANGED <<latest, stored, checkpoints, reviews, head, taken, merges, decisions,
                    crashes>>
    BY <1>3 DEF Merge!WriteProposedBlock, Merge!data, Merge!bounds
  <2> QED BY <1>1, <1>2, <2>1, <2>2, <2>3, RequestMoves
<1>4. CASE Merge!MergeCompletes(t)
  <2>1. Stage(op[t]) = "next" /\ op[t].scan = {}
    BY <1>4 DEF Merge!MergeCompletes, Stage
  <2>2. op' = [op EXCEPT ![t].at = "event", ![t].next = "checkpoint"]
    BY <1>4 DEF Merge!MergeCompletes, Merge!GoesToEvent
  <2>3. UNCHANGED <<latest, stored, checkpoints, reviews, head, taken, merges, decisions,
                    crashes>>
    BY <1>4 DEF Merge!MergeCompletes, Merge!data, Merge!bounds
  <2> QED BY <1>1, <1>2, <2>1, <2>2, <2>3, RequestMoves
<1>5. CASE Merge!MergeFails(t)
  <2>1. op' = [op EXCEPT ![t].at = "event", ![t].next = "failed"]
    BY <1>5 DEF Merge!MergeFails, Merge!GoesToEvent
  <2>2. UNCHANGED <<latest, stored, checkpoints, reviews, head, taken, merges, decisions>>
    BY <1>5 DEF Merge!MergeFails, Merge!data
  <2>3. crashes' \in 0..MaxCrashes
    BY <1>2, <1>5 DEF Merge!MergeFails, MergeInv, CountersInv
  <2> QED BY <1>1, <2>1, <2>2, <2>3, RequestMoves
<1>6. CASE Merge!DecisionEvent(t)
  <2>1. op' = [op EXCEPT ![t].at = "event", ![t].next = "idle"]
    BY <1>6 DEF Merge!DecisionEvent, Merge!GoesToEvent
  <2>2. UNCHANGED <<latest, stored, checkpoints, reviews, head, taken, merges, decisions,
                    crashes>>
    BY <1>6 DEF Merge!DecisionEvent, Merge!data, Merge!bounds
  <2> QED BY <1>1, <1>2, <2>1, <2>2, RequestMoves
<1> QED BY <1>3, <1>4, <1>5, <1>6

\* WriteOverlay: an overlay is proposed ...
LEMMA ProposeInv ==
  ASSUME MergeInv, OneThread, NEW t \in Threads, NEW o \in Overlays, NEW k \in OverlayKinds,
         Merge!ProposeOverlay(t, o, k)
  PROVE  MergeInv'
<1> DEFINE c == [Merge!NoChange EXCEPT !.id = o, !.kind = k, !.base = head]
           y == [Merge!IdleOp EXCEPT !.at = "event", !.next = "overlay", !.overlay = c]
<1>1. head \in Versions /\ latest \in Nat
  BY DEF MergeInv, CountersInv, TablesInv
<1>2. c \in Change /\ c.id = o
  BY <1>1 DEF Merge!NoChange, Change, Versions
<1>3. /\ op' = [op EXCEPT ![t] = y]
      /\ UNCHANGED <<latest, stored, checkpoints, reviews, head, taken, merges,
                     decisions, crashes>>
  BY DEF Merge!ProposeOverlay, Merge!data, Merge!bounds
<1> HIDE DEF c
<1>4. /\ y \in Requests /\ y.at = "event" /\ y.next = "overlay" /\ y.overlay = c
      /\ y.scan = {} /\ y.to = 0
  BY <1>2 DEF Merge!IdleOp, Requests, Stages
<1> HIDE DEF y
<1>5. Stage(y) = "overlay"
  BY <1>4 DEF Stage
<1>6. RequestInv(y, latest, stored, taken, checkpoints)
  BY <1>1, <1>2, <1>4, <1>5 DEF RequestInv
<1> QED BY <1>3, <1>6, MergeStep DEF MergeInv, CountersInv

\* ... and stored under a number that no checkpoint covers.
LEMMA StoreInv ==
  ASSUME MergeInv, OneThread, NEW t \in Threads, Merge!StoreOverlay(t)
  PROVE  MergeInv'
<1>1. PICK x : x = op[t]
  OBVIOUS
<1>2. /\ x \in Requests /\ RequestInv(x, latest, stored, taken, checkpoints)
      /\ TablesInv(latest, stored, taken, checkpoints, reviews) /\ latest \in Nat
  BY <1>1 DEF MergeInv, RequestInv, TablesInv
<1>3. PICK c \in Change : c = x.overlay
  BY <1>2 DEF Requests
<1> DEFINE o == [c EXCEPT !.seq = x.seq]
<1>4. /\ x.at = "overlay" /\ stored' = stored \cup {o}
      /\ op' = [op EXCEPT ![t] = Merge!IdleOp]
      /\ UNCHANGED <<latest, checkpoints, reviews, head, taken, merges, decisions, crashes>>
  BY <1>1, <1>3 DEF Merge!StoreOverlay, Merge!Goes, Merge!bounds
<1>5. x.seq \in 1..latest /\ (\A p \in checkpoints : p.to < x.seq) /\ c.id \in Overlays
  BY <1>2, <1>3, <1>4 DEF RequestInv, Stage
<1>6. o \in Change /\ o.id \in Overlays /\ o.seq = x.seq
  <2>1. x.seq \in Nat
    BY <1>2 DEF Requests
  <2> QED BY <1>5, <2>1 DEF Change
<1> HIDE DEF o
<1>7. PICK S : S = stored \cup {o}
  OBVIOUS
<1>8. TablesInv(latest, S, taken, checkpoints, reviews)
  <2>1. \A p \in checkpoints : p.status = "completed" =>
          \A z \in S : z.seq <= p.to => z.id \in taken
    <3>1. ASSUME NEW p \in checkpoints, o.seq <= p.to PROVE FALSE
      <4>1. p.to \in 0..latest
        BY <1>2 DEF TablesInv
      <4> QED BY <1>5, <1>6, <3>1, <4>1
    <3> QED BY <1>2, <1>7, <3>1 DEF TablesInv
  <2>2. \A z \in S : z \in Change /\ z.id \in Overlays /\ z.seq \in 1..latest
    BY <1>2, <1>5, <1>6, <1>7 DEF TablesInv
  <2> QED BY <1>2, <1>7, <2>1, <2>2 DEF TablesInv
<1>9. RequestInv(Merge!IdleOp, latest, S, taken, checkpoints)
  BY <1>2, IdleRequest
<1> QED BY <1>4, <1>7, <1>8, <1>9, MergeStep DEF MergeInv, CountersInv

\* TriggerReplicaMerge starts after the last completed checkpoint.
LEMMA TriggerInv ==
  ASSUME MergeInv, OneThread, NEW t \in Threads, NEW protected \in BOOLEAN,
         Merge!TriggerReplicaMerge(t, protected)
  PROVE  MergeInv'
<1>1. TablesInv(latest, stored, taken, checkpoints, reviews) /\ latest \in Nat
  BY DEF MergeInv, TablesInv
<1>2. PICK m : m = Merge!LastCheckpointSequence
  OBVIOUS
<1>3. m \in 0..latest /\ \A o \in stored : o.seq <= m => o.id \in taken
  BY <1>1, <1>2, LastCheckpoint
<1>4. PICK k \in Nat : k = m + 1 /\ k # 0
  BY <1>1, <1>3
<1>5. PICK nx \in {"skip", "scan"} : nx = IF protected THEN "skip" ELSE "scan"
  OBVIOUS
<1> DEFINE y == [Merge!IdleOp EXCEPT !.at = "event", !.next = nx, !.from = k, !.to = m]
<1>6. /\ op' = [op EXCEPT ![t] = y] /\ merges < MaxMerges /\ merges' = merges + 1
      /\ UNCHANGED <<latest, stored, checkpoints, reviews, head, taken, decisions, crashes>>
  BY <1>2, <1>4, <1>5 DEF Merge!TriggerReplicaMerge, Merge!data
<1>7. /\ y \in Requests /\ y.at = "event" /\ y.next = nx /\ y.from = k /\ y.to = m
      /\ y.scan = {}
  <2>1. m \in Nat /\ {"skip", "scan", "event"} \subseteq Stages
    BY <1>1, <1>3 DEF Stages
  <2>2. Merge!IdleOp \in Requests /\ Merge!IdleOp.scan = {}
    BY <1>1, IdleRequest DEF RequestInv, Merge!IdleOp
  <2>3. nx \in Stages \ {"event", "eventWrite"}
    BY <2>1
  <2>4. PICK x \in Requests : x = Merge!IdleOp
    BY <2>2
  <2> QED BY <2>1, <2>2, <2>3, <2>4 DEF Requests
<1> HIDE DEF y
<1>8. Stage(y) = nx
  BY <1>7 DEF Stage
<1>9. \A o \in stored : o.id \in taken \/ o.seq >= k
  <2>1. \A o \in stored : o.seq \in 1..latest
    BY <1>1 DEF TablesInv
  <2> QED BY <1>1, <1>3, <1>4, <2>1
<1>10. RequestInv(y, latest, stored, taken, checkpoints)
  BY <1>1, <1>3, <1>4, <1>7, <1>8, <1>9 DEF RequestInv
<1>11. CountersInv'
  BY <1>6 DEF MergeInv, CountersInv
<1> QED BY <1>6, <1>10, <1>11, MergeStep DEF MergeInv

\* A checkpoint that is completed covers only what has been taken.
LEMMA CheckpointInv ==
  ASSUME MergeInv, OneThread, NEW t \in Threads,
         NEW s \in {"completed", "failed", "skipped"},
         s = "completed" => Stage(op[t]) = "checkpoint",
         Merge!WriteCheckpoint(t, s), Merge!Goes(t, "idle"),
         UNCHANGED <<latest, stored, reviews, head, taken, merges, decisions, crashes>>
  PROVE  MergeInv'
<1>1. PICK x : x = op[t]
  OBVIOUS
<1>2. /\ x \in Requests /\ RequestInv(x, latest, stored, taken, checkpoints)
      /\ TablesInv(latest, stored, taken, checkpoints, reviews) /\ latest \in Nat
  BY <1>1 DEF MergeInv, RequestInv, TablesInv
<1> DEFINE c == [status |-> s, to |-> x.to]
<1>3. checkpoints' = checkpoints \cup {c} /\ op' = [op EXCEPT ![t] = Merge!IdleOp]
  BY <1>1 DEF Merge!WriteCheckpoint, Merge!Goes
<1>4. c.status = s /\ c.to = x.to /\ x.to \in 0..latest
  BY <1>2 DEF RequestInv, Requests
<1> HIDE DEF c
<1>5. s = "completed" => \A o \in stored : o.id \in taken
  BY <1>1, <1>2 DEF RequestInv
<1>6. PICK P : P = checkpoints \cup {c}
  OBVIOUS
<1>7. TablesInv(latest, stored, taken, P, reviews)
  BY <1>2, <1>4, <1>5, <1>6 DEF TablesInv
<1>8. RequestInv(Merge!IdleOp, latest, stored, taken, P)
  BY <1>2, IdleRequest
<1> QED BY <1>3, <1>6, <1>7, <1>8, MergeStep DEF MergeInv, CountersInv

\* SkipMerge and EndMerge.
LEMMA EndInv ==
  ASSUME MergeInv, OneThread, NEW t \in Threads, Merge!SkipMerge(t) \/ Merge!EndMerge(t)
  PROVE  MergeInv'
<1>1. CASE Merge!SkipMerge(t)
  <2>1. /\ Merge!WriteCheckpoint(t, "skipped") /\ Merge!Goes(t, "idle")
        /\ UNCHANGED <<latest, stored, reviews, head, taken, merges, decisions, crashes>>
    BY <1>1 DEF Merge!SkipMerge, Merge!bounds
  <2> QED BY <2>1, CheckpointInv
<1>2. CASE Merge!EndMerge(t)
  <2>1. PICK s \in {"completed", "failed"} :
          s = IF op[t].at = "failed" THEN "failed" ELSE "completed"
    OBVIOUS
  <2>2. /\ op[t].at \in {"checkpoint", "failed"}
        /\ Merge!WriteCheckpoint(t, s) /\ Merge!Goes(t, "idle")
        /\ UNCHANGED <<latest, stored, reviews, head, taken, merges, decisions, crashes>>
    BY <1>2, <2>1 DEF Merge!EndMerge, Merge!bounds
  <2>3. s = "completed" => Stage(op[t]) = "checkpoint"
    BY <2>1, <2>2 DEF Stage
  <2> QED BY <2>1, <2>2, <2>3, CheckpointInv
<1> QED BY <1>1, <1>2

\* The scan holds all that is not taken.
LEMMA ScanInv ==
  ASSUME MergeInv, OneThread, NEW t \in Threads, Merge!ScanOverlays(t)
  PROVE  MergeInv'
<1>1. PICK x : x = op[t]
  OBVIOUS
<1>2. /\ x \in Requests /\ RequestInv(x, latest, stored, taken, checkpoints)
      /\ TablesInv(latest, stored, taken, checkpoints, reviews)
  BY <1>1 DEF MergeInv, RequestInv
<1>3. PICK S : S = {o \in stored : o.seq >= x.from}
  OBVIOUS
<1>4. S \in SUBSET Change /\ S \subseteq stored
  BY <1>2, <1>3 DEF TablesInv
<1> DEFINE y == [x EXCEPT !.at = "next", !.scan = S]
<1>5. /\ x.at = "scan" /\ op' = [op EXCEPT ![t] = y]
      /\ UNCHANGED <<latest, stored, checkpoints, reviews, head, taken, merges,
                     decisions, crashes>>
  BY <1>1, <1>3 DEF Merge!ScanOverlays, Merge!data, Merge!bounds
<1>6. /\ y \in Requests /\ y.at = "next" /\ y.overlay = x.overlay
      /\ y.from = x.from /\ y.to = x.to /\ y.scan = S
  <2>1. "next" \in Stages
    BY DEF Stages
  <2> QED BY <1>2, <1>4, <2>1 DEF Requests
<1> HIDE DEF y
<1>7. Stage(y) = "next" /\ Stage(x) = "scan"
  BY <1>5, <1>6 DEF Stage
<1>8. \A o \in stored : o.id \in taken \/ o \in S
  BY <1>2, <1>3, <1>7 DEF RequestInv
<1>9. RequestInv(y, latest, stored, taken, checkpoints)
  BY <1>2, <1>4, <1>6, <1>7, <1>8 DEF RequestInv
<1> QED BY <1>2, <1>5, <1>9, MergeStep DEF MergeInv, CountersInv

\* NextOf takes a member of the scan.
LEMMA NextOfScan ==
  ASSUME NEW S \in SUBSET Change, S # {}
  PROVE  Merge!NextOf(S) \in S
<1> DEFINE T == {o.seq : o \in S}
<1>1. T \subseteq Nat /\ T # {}
  BY DEF Change
<1> DEFINE R == OpToRel(<, Nat)
<1>2. PICK y \in T : \A z \in T : <<z, y>> \notin R
  <2> HIDE DEF T
  <2>1. IsWellFoundedOn(R, Nat)
    BY NatLessThanWellFounded
  <2> HIDE DEF R
  <2> QED BY <1>1, <2>1, WFMin
<1>3. \A z \in T : ~(z < y)
  BY <1>1, <1>2 DEF OpToRel
<1>4. PICK o \in S : o.seq = y
  OBVIOUS
<1>5. \A p \in S : o.seq <= p.seq
  <2>1. ASSUME NEW p \in S PROVE o.seq <= p.seq
    <3>1. p.seq \in T /\ p.seq \in Nat /\ o.seq \in Nat
      BY DEF Change
    <3> HIDE DEF T
    <3> QED BY <1>3, <1>4, <3>1
  <2> QED BY <2>1
<1> QED BY <1>5 DEF Merge!NextOf

\* One overlay of the scan is taken, or is in hand.
LEMMA TakeInv ==
  ASSUME MergeInv, OneThread, NEW t \in Threads, Merge!MergeOverlay(t)
  PROVE  MergeInv'
<1>1. PICK x : x = op[t]
  OBVIOUS
<1>2. /\ x \in Requests /\ RequestInv(x, latest, stored, taken, checkpoints)
      /\ TablesInv(latest, stored, taken, checkpoints, reviews) /\ latest \in Nat
  BY <1>1 DEF MergeInv, RequestInv, TablesInv
<1>3. PICK o : o = Merge!NextOf(x.scan)
  OBVIOUS
<1>4. x.at = "next" /\ x.scan # {}
  BY <1>1 DEF Merge!MergeOverlay
<1>5. o \in x.scan /\ o \in stored /\ o \in Change /\ o.id \in Overlays /\ o.seq \in 1..latest
  <2>1. x.scan \in SUBSET Change /\ x.scan \subseteq stored
    BY <1>2 DEF Requests, RequestInv
  <2>2. o \in x.scan
    BY <1>3, <1>4, <2>1, NextOfScan
  <2> QED BY <1>2, <2>1, <2>2 DEF TablesInv
<1>6. PICK k \in Nat : k = (IF o.seq > x.to THEN o.seq ELSE x.to) /\ k <= latest
  BY <1>2, <1>5 DEF Requests, RequestInv
<1>7. PICK S : S = x.scan \ {o}
  OBVIOUS
<1>8. PICK a \in {"next", "event", "block"} :
        /\ op' = [op EXCEPT ![t].at = a, ![t].next = "next", ![t].overlay = o,
                            ![t].scan = S, ![t].to = k]
        /\ \/ /\ a # "block" /\ taken' = taken \cup {o.id}
              /\ \/ UNCHANGED reviews
                 \/ reviews' = reviews \cup {[overlay |-> o, status |-> "pending"]}
           \/ a = "block" /\ UNCHANGED <<reviews, taken>>
        /\ UNCHANGED <<latest, stored, checkpoints, head, merges, decisions, crashes>>
  BY <1>1, <1>3, <1>6, <1>7 DEF Merge!MergeOverlay, Merge!bounds
<1> DEFINE y == [x EXCEPT !.at = a, !.next = "next", !.overlay = o, !.scan = S, !.to = k]
<1>9. op' = [op EXCEPT ![t] = y]
  BY <1>1, <1>8
<1>10. /\ y \in Requests /\ y.at = a /\ y.next = "next" /\ y.overlay = o
       /\ y.from = x.from /\ y.to = k /\ y.scan = S
  <2>1. a \in Stages /\ "next" \in Stages \ {"event", "eventWrite"}
    BY DEF Stages
  <2>2. S \in SUBSET Change
    BY <1>2, <1>7 DEF Requests
  <2> QED BY <1>2, <1>5, <2>1, <2>2 DEF Requests
<1> HIDE DEF y
<1>11. /\ Stage(x) = "next" /\ x.from # 0
       /\ Stage(y) = IF a = "block" THEN "block" ELSE "next"
  BY <1>2, <1>4, <1>10 DEF Stage, RequestInv
<1>12. \A p \in stored : p.id \in taken \/ p \in x.scan
  BY <1>2, <1>11 DEF RequestInv
<1>13. TablesInv(latest, stored, taken', checkpoints, reviews')
  <2>1. CASE UNCHANGED reviews
    BY <1>2, <1>5, <1>8, <2>1 DEF TablesInv
  <2>2. CASE reviews' = reviews \cup {[overlay |-> o, status |-> "pending"]}
    <3>1. PICK r : r = [overlay |-> o, status |-> "pending"]
      OBVIOUS
    <3>2. r = [overlay |-> r.overlay, status |-> r.status] /\ r.overlay = o
          /\ r.status = "pending"
      BY <3>1
    <3>3. reviews' = reviews \cup {r}
      BY <2>2, <3>1
    <3> QED BY <1>2, <1>5, <1>8, <3>2, <3>3 DEF TablesInv
  <2> QED BY <1>8, <2>1, <2>2
<1>14. RequestInv(y, latest, stored, taken', checkpoints)
  <2>1. y.scan \subseteq stored /\ y.to <= latest
    BY <1>2, <1>6, <1>7, <1>10 DEF RequestInv
  <2>2. \A p \in stored : \/ p.id \in taken' \/ p \in y.scan
                          \/ Stage(y) # "next" /\ p.id = y.overlay.id
    <3>1. \A p \in stored : p.id \in taken \/ p \in S \/ p = o
      BY <1>7, <1>12
    <3>2. CASE a = "block"
      BY <1>8, <1>10, <1>11, <3>1, <3>2
    <3>3. CASE a # "block"
      BY <1>8, <1>10, <1>11, <3>1, <3>3
    <3> QED BY <3>2, <3>3
  <2> QED BY <1>5, <1>10, <1>11, <2>1, <2>2 DEF RequestInv
<1> QED BY <1>8, <1>9, <1>13, <1>14, MergeStep DEF MergeInv, CountersInv

\* UpdateHead takes the overlay in hand.
LEMMA HeadInv ==
  ASSUME MergeInv, OneThread, NEW t \in Threads, Merge!UpdateHead(t)
  PROVE  MergeInv'
<1>1. PICK x : x = op[t]
  OBVIOUS
<1>2. /\ x \in Requests /\ RequestInv(x, latest, stored, taken, checkpoints)
      /\ TablesInv(latest, stored, taken, checkpoints, reviews) /\ latest \in Nat
  BY <1>1 DEF MergeInv, RequestInv, TablesInv
<1>3. PICK nx \in {"decided", "next"} : nx = IF x.from = 0 THEN "decided" ELSE "next"
  OBVIOUS
<1> DEFINE y == [x EXCEPT !.at = "event", !.next = nx]
<1>4. /\ x.at = "head" /\ head' = x.overlay.id /\ taken' = taken \cup {x.overlay.id}
      /\ op' = [op EXCEPT ![t] = y]
      /\ UNCHANGED <<latest, stored, checkpoints, reviews, merges, decisions, crashes>>
  BY <1>1, <1>3 DEF Merge!UpdateHead, Merge!GoesToEvent, Merge!bounds
<1>5. /\ y \in Requests /\ y.at = "event" /\ y.next = nx /\ y.overlay = x.overlay
      /\ y.from = x.from /\ y.to = x.to /\ y.scan = x.scan
  <2>1. "event" \in Stages /\ nx \in Stages \ {"event", "eventWrite"}
    BY DEF Stages
  <2> QED BY <1>2, <2>1 DEF Requests
<1> HIDE DEF y
<1>6. Stage(x) = "head" /\ Stage(y) = nx
  BY <1>4, <1>5 DEF Stage
<1>7. x.overlay.id \in Overlays
  BY <1>2, <1>6 DEF RequestInv
<1>8. TablesInv(latest, stored, taken', checkpoints, reviews)
  BY <1>2, <1>4, <1>7 DEF TablesInv
<1>9. nx = "next" => \A o \in stored : o.id \in taken' \/ o \in y.scan
  BY <1>2, <1>3, <1>4, <1>5, <1>6 DEF RequestInv
<1>10. RequestInv(y, latest, stored, taken', checkpoints)
  BY <1>2, <1>3, <1>5, <1>6, <1>9 DEF RequestInv
<1>11. CountersInv'
  BY <1>4, <1>7 DEF MergeInv, CountersInv, Versions
<1> QED BY <1>4, <1>8, <1>10, <1>11, MergeStep DEF MergeInv

\* A decision of a review item touches no merge.
LEMMA DecideInv ==
  ASSUME MergeInv, OneThread, NEW t \in Threads, NEW item \in reviews, NEW action,
         Merge!DecideReviewItem(t, item, action)
  PROVE  MergeInv'
<1>1. TablesInv(latest, stored, taken, checkpoints, reviews) /\ latest \in Nat
  BY DEF MergeInv, TablesInv
<1>2. PICK c : c = item.overlay
  OBVIOUS
<1>3. c \in stored /\ c \in Change /\ c.id \in Overlays
  BY <1>1, <1>2 DEF TablesInv
<1>4. PICK s \in {"accepted", "reject"} : s = IF action = "accept" THEN "accepted" ELSE "reject"
  OBVIOUS
<1>5. PICK a \in {"block", "event"} : a = IF action = "accept" THEN "block" ELSE "event"
  OBVIOUS
<1>6. PICK r : r = [item EXCEPT !.status = s]
  OBVIOUS
<1>7. r = [overlay |-> c, status |-> s]
  <2>1. item = [overlay |-> c, status |-> item.status]
    BY <1>1, <1>2 DEF TablesInv
  <2>2. PICK i : i = item.status
    OBVIOUS
  <2>3. item = [overlay |-> c, status |-> i]
    BY <2>1, <2>2
  <2> QED BY <1>6, <2>3
<1> DEFINE y == [Merge!IdleOp EXCEPT !.overlay = c, !.at = a]
<1>8. /\ reviews' = (reviews \ {item}) \cup {r} /\ op' = [op EXCEPT ![t] = y]
      /\ decisions < MaxMerges /\ decisions' = decisions + 1
      /\ UNCHANGED <<latest, stored, checkpoints, head, taken, merges, crashes>>
  BY <1>2, <1>4, <1>5, <1>6 DEF Merge!DecideReviewItem
<1>9. /\ y \in Requests /\ y.at = a /\ y.next = "idle" /\ y.overlay = c /\ y.scan = {}
      /\ y.to = 0 /\ y.from = 0
  <2>1. a \in Stages
    BY DEF Stages
  <2>2. Merge!IdleOp \in Requests
    BY <1>1, IdleRequest DEF RequestInv
  <2>3. PICK x \in Requests : x = Merge!IdleOp
    BY <2>2
  <2>4. x.next = "idle" /\ x.scan = {} /\ x.to = 0 /\ x.from = 0
    BY <2>3 DEF Merge!IdleOp
  <2> QED BY <1>3, <2>1, <2>3, <2>4 DEF Requests
<1> HIDE DEF y
<1>10. Stage(y) \in {"block", "idle"}
  BY <1>9 DEF Stage
<1>11. RequestInv(y, latest, stored, taken, checkpoints)
  BY <1>1, <1>3, <1>9, <1>10 DEF RequestInv
<1>12. TablesInv(latest, stored, taken, checkpoints, reviews')
  <2>1. r.overlay = c /\ r.status = s /\ r = [overlay |-> r.overlay, status |-> r.status]
    BY <1>7
  <2>2. \A q \in reviews' : q \in reviews \/ q = r
    BY <1>8
  <2> QED BY <1>1, <1>3, <2>1, <2>2 DEF TablesInv
<1>13. CountersInv'
  BY <1>8 DEF MergeInv, CountersInv
<1> QED BY <1>8, <1>11, <1>12, <1>13, MergeStep DEF MergeInv

\* A death of the process leaves the tables as they are.
LEMMA CrashInv ==
  ASSUME MergeInv, Merge!Crash
  PROVE  MergeInv'
<1>1. TablesInv(latest, stored, taken, checkpoints, reviews) /\ latest \in Nat
  BY DEF MergeInv, TablesInv
<1>2. /\ op' = [u \in Threads |-> Merge!IdleOp] /\ crashes < MaxCrashes
      /\ crashes' = crashes + 1
      /\ UNCHANGED <<latest, stored, checkpoints, reviews, head, taken, merges, decisions>>
  BY DEF Merge!Crash, Merge!data
<1>3. CountersInv'
  BY <1>2 DEF MergeInv, CountersInv
<1>4. RequestInv(Merge!IdleOp, latest, stored, taken, checkpoints)
  BY <1>1, IdleRequest
<1>5. DOMAIN op' = Threads /\ \A u \in Threads : op'[u] = Merge!IdleOp
  BY <1>2
<1> QED BY <1>1, <1>2, <1>3, <1>4, <1>5 DEF MergeInv, TablesInv, RequestInv

\* Every step of the merge keeps its invariant.
LEMMA MergeNext ==
  ASSUME MergeInv, OneThread, Kinds \subseteq OverlayKinds, [Merge!Next]_(Merge!vars)
  PROVE  MergeInv'
<1>1. CASE UNCHANGED Merge!vars
  BY <1>1 DEF Merge!vars, MergeInv, TablesInv, RequestInv, CountersInv
<1>2. ASSUME NEW t \in Threads,
             \/ Merge!AppendEventReads(t) \/ Merge!AppendEventWrites(t)
             \/ Merge!StoreOverlay(t) \/ Merge!SkipMerge(t) \/ Merge!ScanOverlays(t)
             \/ Merge!MergeOverlay(t) \/ Merge!WriteProposedBlock(t)
             \/ Merge!UpdateHead(t) \/ Merge!DecisionEvent(t)
             \/ Merge!MergeCompletes(t) \/ Merge!MergeFails(t) \/ Merge!EndMerge(t)
      PROVE  MergeInv'
  <2>1. CASE Merge!AppendEventReads(t)
    BY <2>1, EventReads
  <2>2. CASE Merge!AppendEventWrites(t)
    BY <2>2, EventWrites
  <2>3. CASE Merge!StoreOverlay(t)
    BY <2>3, StoreInv
  <2>4. CASE Merge!SkipMerge(t) \/ Merge!EndMerge(t)
    BY <2>4, EndInv
  <2>5. CASE Merge!ScanOverlays(t)
    BY <2>5, ScanInv
  <2>6. CASE Merge!MergeOverlay(t)
    BY <2>6, TakeInv
  <2>7. CASE \/ Merge!WriteProposedBlock(t) \/ Merge!MergeCompletes(t)
             \/ Merge!MergeFails(t) \/ Merge!DecisionEvent(t)
    BY <2>7, EventSteps
  <2>8. CASE Merge!UpdateHead(t)
    BY <2>8, HeadInv
  <2> QED BY <1>2, <2>1, <2>2, <2>3, <2>4, <2>5, <2>6, <2>7, <2>8
<1>3. ASSUME NEW t \in Threads, NEW protected \in BOOLEAN,
             Merge!TriggerReplicaMerge(t, protected)
      PROVE  MergeInv'
  BY <1>3, TriggerInv
<1>4. ASSUME NEW t \in Threads, NEW o \in Overlays, NEW k \in Kinds,
             Merge!ProposeOverlay(t, o, k)
      PROVE  MergeInv'
  <2>1. k \in OverlayKinds
    OBVIOUS
  <2> QED BY <1>4, <2>1, ProposeInv
<1>5. ASSUME NEW t \in Threads, NEW item \in reviews, NEW a \in Decisions,
             Merge!DecideReviewItem(t, item, a)
      PROVE  MergeInv'
  BY <1>5, DecideInv
<1>6. CASE Merge!Crash
  BY <1>6, CrashInv
<1> QED BY <1>1, <1>2, <1>3, <1>4, <1>5, <1>6 DEF Merge!Next

\* The merge starts with empty tables.
LEMMA MergeStarts ==
  ASSUME Merge!Init, MaxMerges \in Nat, MaxCrashes \in Nat
  PROVE  MergeInv
<1>1. TablesInv(latest, stored, taken, checkpoints, reviews)
  BY DEF Merge!Init, TablesInv
<1>2. CountersInv
  BY DEF Merge!Init, CountersInv, Versions
<1>3. \A t \in Threads : RequestInv(op[t], latest, stored, taken, checkpoints)
  <2>1. latest \in Nat /\ \A t \in Threads : op[t] = Merge!IdleOp
    BY DEF Merge!Init
  <2> QED BY <2>1, IdleRequest
<1> QED BY <1>1, <1>2, <1>3 DEF MergeInv, Merge!Init

\* The hypotheses on the constants of the merge: the kinds are those
\* TriggerReplicaMerge tells apart, and the requests come one at a time.
MergeSound ==
  /\ OneThread /\ Kinds \subseteq OverlayKinds
  /\ MaxMerges \in Nat /\ MaxCrashes \in Nat

\* The invariant of the merge holds in every behaviour.
LEMMA MergeInvariance ==
  ASSUME MergeSound
  PROVE  Merge!Spec => []MergeInv
<1>1. Merge!Init => MergeInv
  BY MergeStarts DEF MergeSound
<1>2. MergeInv /\ [Merge!Next]_(Merge!vars) => MergeInv'
  BY MergeNext DEF MergeSound
<1> QED BY <1>1, <1>2, PTL DEF Merge!Spec

\* Every component of the state of WriteOverlay, TriggerReplicaMerge and
\* DecideReviewItem keeps its type: a merge only looks at stored overlays, a
\* review item names one.
THEOREM MergeTypeCorrect ==
  ASSUME MergeSound
  PROVE  Merge!Spec => []Merge!TypeOK
<1>1. ASSUME MergeInv PROVE Merge!TypeOK
  <2>1. /\ latest \in Nat
        /\ \A o \in stored : o.id \in Overlays /\ o.kind \in {"sure", "unsure", "protected"}
                             /\ o.base \in Overlays \cup {NoOverlay} /\ o.seq \in Nat
    BY <1>1 DEF MergeInv, TablesInv, Change, OverlayKinds, Versions
  <2>2. \A c \in checkpoints : c.status \in {"completed", "failed", "skipped"} /\ c.to \in Nat
    BY <1>1 DEF MergeInv, TablesInv
  <2>3. /\ \A r \in reviews : /\ r.overlay \in stored
                              /\ r.status \in {"pending", "accepted", "reject"}
        /\ taken \subseteq Overlays
    BY <1>1 DEF MergeInv, TablesInv
  <2>4. \A t \in Threads : op[t].scan \subseteq stored /\ op[t].to \in Nat
    BY <1>1 DEF MergeInv, RequestInv, Requests
  <2>5. /\ head \in Overlays \cup {NoOverlay}
        /\ merges \in 0..MaxMerges /\ decisions \in 0..MaxMerges /\ crashes \in 0..MaxCrashes
    BY <1>1 DEF MergeInv, CountersInv, Versions
  <2> QED BY <2>1, <2>2, <2>3, <2>4, <2>5 DEF Merge!TypeOK
<1> QED BY <1>1, MergeInvariance, PTL

\* No overlay is left behind by TriggerReplicaMerge: one numbered up to the last
\* completed checkpoint, which later merges do not look at, was accepted, sent
\* to review or rejected, wherever merges fail and the process dies.  Requests
\* must come one at a time: of two threads, one may number an overlay before the
\* other ends a merge and store it after that.
THEOREM NoOverlayIsLeftBehind ==
  ASSUME MergeSound
  PROVE  Merge!Spec => []Merge!NoOverlayIsSkipped
<1>1. ASSUME MergeInv PROVE Merge!NoOverlayIsSkipped
  BY <1>1, LastCheckpoint DEF MergeInv, Merge!NoOverlayIsSkipped
<1> QED BY <1>1, MergeInvariance, PTL

-----------------------------------------------------------------------------
(* The session of a host.                                                  *)

Numbers(n) == 0..n

\* Rows of registered_hosts, of sessions up to n.
Rows(n) ==
  [token : Numbers(n), hseq : Nat, cseq : Nat,
   state : {"registered", "revoked", "provisioned"}, key : BOOLEAN,
   connected : BOOLEAN, onboarding : BOOLEAN, storage : BOOLEAN, expired : BOOLEAN]

WaitingStages == {"waiting-beat", "waiting-first-beat", "waiting-request"}
SendingStages == {"beat", "first-beat", "request"}
ClientStages == WaitingStages \cup SendingStages \cup {"idle", "open", "waiting-open"}

OpeningStages == {"opening", "open-save"}
HeldStages == {"parse", "beat", "answer", "answer-save"}
ServedStages == HeldStages \cup {"received"}
ThreadStages == OpeningStages \cup ServedStages \cup {"free"}

Backends(n) ==
  [at : ClientStages, token : Numbers(n), hseq : Nat, cseq : Nat,
   attempts : 0..(MaxAttempts - 1), registered : BOOLEAN]

Messages(n) ==
  [of : Clients \cup {"none"}, at : ThreadStages, token : Numbers(n), seq : Nat,
   beat : BOOLEAN, persist : BOOLEAN, copy : Rows(n)]

OperatorCommands == {"revoke", "rotate-key", "reset-onboarding", "storage-role"}

\* The hypotheses on the constants: the operator commands are those of
\* HostRegistryService, and RetryOnRecoverableSessionError tries at least once.
SessionSound ==
  /\ Commands \subseteq OperatorCommands
  /\ MaxAttempts \in Nat \ {0} /\ MaxTokens \in Nat

\* The types of the session.
SessionType ==
  /\ MaxTokens \in Nat /\ MaxAttempts \in Nat \ {0}
  /\ token \in 0..MaxTokens
  /\ host \in Rows(token)
  /\ client \in [Clients -> Backends(token)]
  /\ thread \in [Threads -> Messages(token)]
  /\ \A t \in Threads : thread[t].at # "free" => thread[t].of \in Clients
  /\ operator.cmd \in Commands \cup {"none"} /\ operator.copy \in Rows(token)

\* A larger number of sessions allows more.
LEMMA MoreSessions ==
  ASSUME NEW n \in Nat, NEW m \in Nat, n <= m
  PROVE  /\ Rows(n) \subseteq Rows(m) /\ Backends(n) \subseteq Backends(m)
         /\ Messages(n) \subseteq Messages(m)
<1>1. Numbers(n) \subseteq Numbers(m)
  BY DEF Numbers
<1>2. Rows(n) \subseteq Rows(m)
  BY <1>1 DEF Rows
<1>3. Backends(n) \subseteq Backends(m)
  BY <1>1 DEF Backends
<1>4. Messages(n) \subseteq Messages(m)
  BY <1>1, <1>2 DEF Messages
<1> QED BY <1>2, <1>3, <1>4

\* The values the session starts with.
LEMMA StartValues ==
  ASSUME NEW n \in Nat, MaxAttempts \in Nat \ {0}
  PROVE  /\ Session!NoHost \in Rows(n) /\ Session!NoThread \in Messages(n)
         /\ Session!NoClient \in Backends(n)
         /\ Session!NoThread.at = "free" /\ Session!NoClient.at = "idle"
         /\ Session!NoClient.token = 0
<1>1. Session!NoHost \in Rows(n)
  BY DEF Session!NoHost, Rows, Numbers
<1>2. Session!NoThread \in Messages(n) /\ Session!NoThread.at = "free"
  BY <1>1 DEF Session!NoThread, Messages, Numbers, ThreadStages
<1>3. Session!NoClient \in Backends(n) /\ Session!NoClient.at = "idle"
      /\ Session!NoClient.token = 0
  BY DEF Session!NoClient, Backends, Numbers, ClientStages
<1> QED BY <1>1, <1>2, <1>3

\* A step of a thread t that serves a client c.
LEMMA TypeStep ==
  ASSUME SessionType, NEW t \in Threads, NEW c \in Clients,
         NEW y \in Messages(token), NEW z \in Backends(token), host' \in Rows(token),
         y.at # "free" => y.of \in Clients,
         thread' = [thread EXCEPT ![t] = y], client' = [client EXCEPT ![c] = z],
         UNCHANGED <<token, operator>>
  PROVE  SessionType'
<1>1. thread' \in [Threads -> Messages(token)] /\ client' \in [Clients -> Backends(token)]
  BY DEF SessionType
<1>2. \A u \in Threads : thread'[u].at # "free" => thread'[u].of \in Clients
  BY DEF SessionType
<1> QED BY <1>1, <1>2 DEF SessionType, Rows, Backends, Messages, Numbers

\* No operator interferes and every client waits for its answers.
Quiet == Commands = {} /\ ~Timeouts

\* A thread serves the client that waits for it: the copy of the row it holds is
\* of the session of that client, with all responses the client has had.  When
\* it will not save, the session has been taken over.
ThreadInv(x, cl, h) ==
  /\ x.at \in OpeningStages => cl.at = "waiting-open"
  /\ x.at \in ServedStages => /\ cl.at \in WaitingStages /\ x.token # 0
                              /\ cl.token = x.token /\ cl.hseq = x.seq
  /\ x.at \in HeldStages => x.copy.token = x.token /\ x.copy.cseq >= cl.cseq
  /\ x.at = "answer-save" /\ ~x.persist => h.token # x.token

\* A row of the session of a client counts all responses the client has had.
ClientInv(cl, h) ==
  /\ cl.at \in SendingStages \cup WaitingStages => cl.token # 0
  /\ cl.token # 0 /\ h.token = cl.token => h.cseq >= cl.cseq

\* The inductive invariant of a quiet session: sessions and threads have one
\* client each.
FreshInv ==
  /\ fresh /\ operator.cmd = "none"
  /\ \A t \in Threads : thread[t].at # "free" =>
       ThreadInv(thread[t], client[thread[t].of], host)
  /\ \A t, u \in Threads : /\ t # u /\ thread[t].at # "free" /\ thread[u].at # "free"
                           => thread[t].of # thread[u].of
  /\ \A c \in Clients : ClientInv(client[c], host)
  /\ \A c, d \in Clients : c # d /\ client[c].token = client[d].token => client[c].token = 0

\* A thread t serves a client c, which no other thread serves, and writes at most
\* a row of a session of no other client.
LEMMA FreshStep ==
  ASSUME SessionType, FreshInv, NEW t \in Threads, NEW c \in Clients, NEW y, NEW z,
         thread' = [thread EXCEPT ![t] = y], client' = [client EXCEPT ![c] = z],
         UNCHANGED operator, fresh',
         \A u \in Threads : u # t /\ thread[u].at # "free" => thread[u].of # c,
         y.at # "free" => y.of = c /\ ThreadInv(y, z, host'),
         ClientInv(z, host'),
         \/ host'.token = host.token /\ host'.cseq = host.cseq
         \/ \A d \in Clients : d # c /\ client[d].token # 0 => client[d].token # host'.token,
         \/ z.token = 0
         \/ \A d \in Clients : d # c => client[d].token # z.token
  PROVE  FreshInv'
<1>1. /\ DOMAIN thread = Threads /\ DOMAIN client = Clients
      /\ \A u \in Threads : thread[u].at # "free" => thread[u].of \in Clients
  BY DEF SessionType
<1>2. /\ thread'[t] = y /\ client'[c] = z
      /\ \A u \in Threads : u # t => thread'[u] = thread[u]
      /\ \A d \in Clients : d # c => client'[d] = client[d]
  BY <1>1
<1>3. ASSUME NEW u \in Threads, thread'[u].at # "free"
      PROVE  ThreadInv(thread'[u], client'[thread'[u].of], host')
  <2>1. CASE u = t
    BY <1>2, <1>3, <2>1
  <2>2. CASE u # t
    <3>1. PICK x : x = thread[u]
      OBVIOUS
    <3>2. PICK d \in Clients : d = x.of
      BY <1>1, <1>2, <1>3, <2>2, <3>1
    <3>3. thread'[u] = x /\ client'[d] = client[d] /\ d # c
      BY <1>2, <1>3, <2>2, <3>1, <3>2
    <3>4. ThreadInv(x, client[d], host)
      BY <1>3, <3>1, <3>2, <3>3 DEF FreshInv
    <3>5. x.at = "answer-save" => x.token # 0 /\ client[d].token = x.token
      BY <3>4 DEF ThreadInv, ServedStages, HeldStages
    <3>6. ThreadInv(x, client[d], host')
      BY <3>3, <3>4, <3>5 DEF ThreadInv
    <3> QED BY <3>2, <3>3, <3>6
  <2> QED BY <2>1, <2>2
<1>4. ASSUME NEW u \in Threads, NEW v \in Threads, u # v, thread'[u].at # "free",
             thread'[v].at # "free"
      PROVE  thread'[u].of # thread'[v].of
  BY <1>2, <1>4 DEF FreshInv
<1>5. ASSUME NEW d \in Clients PROVE ClientInv(client'[d], host')
  <2>1. CASE d = c
    BY <1>2, <2>1
  <2>2. CASE d # c
    <3>1. client'[d] = client[d] /\ ClientInv(client[d], host)
      BY <1>2, <2>2 DEF FreshInv
    <3>2. ClientInv(client[d], host')
      BY <2>2, <3>1 DEF ClientInv
    <3> QED BY <3>1, <3>2
  <2> QED BY <2>1, <2>2
<1>6. ASSUME NEW d \in Clients, NEW e \in Clients, d # e,
             client'[d].token = client'[e].token
      PROVE  client'[d].token = 0
  BY <1>2, <1>6 DEF FreshInv
<1> QED BY <1>3, <1>4, <1>5, <1>6 DEF FreshInv

\* The same when the client already had the session it has.
LEMMA SameSession ==
  ASSUME SessionType, FreshInv, NEW c \in Clients, NEW k, k = client[c].token \/ k = 0
  PROVE  k = 0 \/ \A d \in Clients : d # c => client[d].token # k
BY DEF FreshInv

\* A client that waits for no thread is served by none.
LEMMA NotServed ==
  ASSUME SessionType, FreshInv, NEW c \in Clients,
         client[c].at \notin WaitingStages \cup {"waiting-open"}, NEW u \in Threads,
         thread[u].at # "free"
  PROVE  thread[u].of # c
<1>1. thread[u].at \in ThreadStages
  BY DEF SessionType, Messages
<1> QED BY <1>1 DEF FreshInv, ThreadInv, ThreadStages

\* A thread is the only one of its client.
LEMMA OnlyThread ==
  ASSUME SessionType, FreshInv, NEW t \in Threads, thread[t].at # "free",
         NEW u \in Threads, u # t, thread[u].at # "free"
  PROVE  thread[u].of # thread[t].of
BY DEF FreshInv

\* What holds in every state of the session.
SessionInv == SessionType /\ (Quiet => FreshInv)

\* Call
LEMMA CallInv ==
  ASSUME SessionInv, NEW c \in Clients, Session!Call(c)
  PROVE  SessionInv'
<1>1. PICK k \in Backends(token) : k = client[c]
  BY DEF SessionInv, SessionType
<1>2. PICK a \in {"open", "beat"} : a = IF k.token = 0 THEN "open" ELSE "beat"
  OBVIOUS
<1> DEFINE z == [k EXCEPT !.at = a, !.attempts = 0]
<1>3. /\ k.at = "idle" /\ client' = [client EXCEPT ![c] = z]
      /\ UNCHANGED <<host, thread, operator, token, fresh>>
  BY <1>1, <1>2 DEF Session!Call
<1>4. /\ z \in Backends(token) /\ z.at = a /\ z.token = k.token /\ z.cseq = k.cseq
      /\ k.token \in Numbers(token)
  <2>1. a \in ClientStages
    BY DEF ClientStages, SendingStages
  <2>2. 0 \in 0..(MaxAttempts - 1)
    BY DEF SessionInv, SessionType
  <2> QED BY <2>1, <2>2 DEF Backends
<1> HIDE DEF z
<1>5. SessionType'
  <2>1. client' \in [Clients -> Backends(token)]
    BY <1>3, <1>4 DEF SessionInv, SessionType
  <2> QED BY <1>3, <2>1 DEF SessionInv, SessionType, Rows, Backends, Messages, Numbers
<1>6. ASSUME Quiet PROVE FreshInv'
  <2>1. SessionType /\ FreshInv
    BY <1>6 DEF SessionInv
  <2>2. \A u \in Threads : thread[u].at # "free" => thread[u].of # c
    <3>1. client[c].at \notin WaitingStages \cup {"waiting-open"}
      BY <1>1, <1>3 DEF WaitingStages
    <3> QED BY <2>1, <3>1, NotServed
  <2>3. ClientInv(z, host)
    <3>1. ClientInv(k, host)
      BY <1>1, <2>1 DEF FreshInv
    <3>2. a = "beat" => k.token # 0
      BY <1>2
    <3>3. "open" \notin SendingStages \cup WaitingStages
      BY DEF SendingStages, WaitingStages
    <3> QED BY <1>4, <3>1, <3>2, <3>3 DEF ClientInv
  <2>4. client'[c] = z /\ \A d \in Clients : d # c => client'[d] = client[d]
    BY <1>3, <2>1 DEF SessionType
  <2>5. \A u \in Threads : thread'[u].at # "free" =>
          ThreadInv(thread'[u], client'[thread'[u].of], host')
    <3>1. ASSUME NEW u \in Threads, thread[u].at # "free"
          PROVE  client'[thread[u].of] = client[thread[u].of]
      BY <2>1, <2>2, <2>4, <3>1 DEF SessionType
    <3> QED BY <1>3, <2>1, <3>1 DEF FreshInv
  <2>6. \A d \in Clients : ClientInv(client'[d], host')
    BY <1>3, <2>1, <2>3, <2>4 DEF FreshInv
  <2>7. \A d, e \in Clients : d # e /\ client'[d].token = client'[e].token =>
          client'[d].token = 0
    BY <1>1, <1>4, <2>1, <2>4 DEF FreshInv
  <2> QED BY <1>3, <2>1, <2>5, <2>6, <2>7 DEF FreshInv
<1> QED BY <1>5, <1>6 DEF SessionInv, Quiet

\* Send: the request carries the session of its client.
LEMMA SendInv ==
  ASSUME SessionInv, NEW c \in Clients, NEW t \in Threads, Session!Send(c, t)
  PROVE  SessionInv'
<1>1. PICK k \in Backends(token) : k = client[c]
  BY DEF SessionInv, SessionType
<1>0. token \in Nat /\ MaxAttempts \in Nat \ {0}
  BY DEF SessionInv, SessionType
<1>2. PICK a \in WaitingStages :
        a = CASE k.at = "beat" -> "waiting-beat"
              [] k.at = "first-beat" -> "waiting-first-beat"
              [] OTHER -> "waiting-request"
  BY DEF WaitingStages
<1>3. PICK n \in Nat : n = k.hseq + 1
  BY DEF Backends
<1>4. PICK b \in BOOLEAN : b = (k.at # "request")
  OBVIOUS
<1> DEFINE z == [k EXCEPT !.hseq = n, !.at = a]
           y == [Session!NoThread EXCEPT !.of = c, !.at = "received", !.token = k.token,
                                         !.seq = n, !.beat = b]
<1>5. /\ k.at \in SendingStages /\ thread[t] = Session!NoThread
      /\ client' = [client EXCEPT ![c] = z] /\ thread' = [thread EXCEPT ![t] = y]
      /\ UNCHANGED <<host, operator, token, fresh>>
  BY <1>1, <1>2, <1>3, <1>4 DEF Session!Send, SendingStages
<1>6. /\ z \in Backends(token) /\ z.at = a /\ z.token = k.token /\ z.cseq = k.cseq
      /\ z.hseq = n /\ k.token \in Numbers(token)
  <2>1. a \in ClientStages
    BY DEF ClientStages
  <2> QED BY <2>1 DEF Backends
<1>7. /\ y \in Messages(token) /\ y.at = "received" /\ y.of = c /\ y.token = k.token
      /\ y.seq = n
  <2>1. "received" \in ThreadStages
    BY DEF ThreadStages, ServedStages
  <2>2. PICK x \in Messages(token) : x = Session!NoThread
    BY <1>0, StartValues
  <2> QED BY <1>6, <2>1, <2>2 DEF Messages
<1> HIDE DEF y, z
<1>8. SessionType'
  BY <1>5, <1>6, <1>7, TypeStep DEF SessionInv, SessionType
<1>9. ASSUME Quiet PROVE FreshInv'
  <2>1. SessionType /\ FreshInv
    BY <1>9 DEF SessionInv
  <2>2. \A u \in Threads : thread[u].at # "free" => thread[u].of # c
    <3>1. client[c].at \notin WaitingStages \cup {"waiting-open"}
      BY <1>1, <1>5 DEF WaitingStages, SendingStages
    <3> QED BY <2>1, <3>1, NotServed
  <2>3. ClientInv(k, host) /\ k.token # 0
    BY <1>1, <1>5, <2>1 DEF FreshInv, ClientInv
  <2>4. ClientInv(z, host)
    BY <1>6, <2>3 DEF ClientInv
  <2>5. ThreadInv(y, z, host)
    <3>1. "received" \notin OpeningStages \cup HeldStages
      BY DEF OpeningStages, HeldStages
    <3> QED BY <1>6, <1>7, <2>3, <3>1 DEF ThreadInv
  <2>6. z.token = 0 \/ \A d \in Clients : d # c => client[d].token # z.token
    BY <1>1, <1>6, <2>1, SameSession
  <2>7. fresh'
    BY <1>5, <2>1 DEF FreshInv
  <2>8. y.at # "free" => y.of = c /\ ThreadInv(y, z, host')
    BY <1>5, <1>7, <2>5
  <2>9. ClientInv(z, host') /\ host'.token = host.token /\ host'.cseq = host.cseq
    BY <1>5, <2>4
  <2>10. /\ thread' = [thread EXCEPT ![t] = y] /\ client' = [client EXCEPT ![c] = z]
         /\ UNCHANGED operator
    BY <1>5
  <2> QED BY <2>1, <2>2, <2>6, <2>7, <2>8, <2>9, <2>10, FreshStep
<1> QED BY <1>8, <1>9 DEF SessionInv, Quiet

\* SendOpen
LEMMA SendOpenInv ==
  ASSUME SessionInv, NEW c \in Clients, NEW t \in Threads, Session!SendOpen(c, t)
  PROVE  SessionInv'
<1>1. PICK k \in Backends(token) : k = client[c]
  BY DEF SessionInv, SessionType
<1>0. token \in Nat /\ MaxAttempts \in Nat \ {0}
  BY DEF SessionInv, SessionType
<1> DEFINE z == [k EXCEPT !.at = "waiting-open"]
           y == [Session!NoThread EXCEPT !.of = c, !.at = "opening"]
<1>5. /\ k.at = "open" /\ thread[t] = Session!NoThread
      /\ client' = [client EXCEPT ![c] = z] /\ thread' = [thread EXCEPT ![t] = y]
      /\ UNCHANGED <<host, operator, token, fresh>>
  BY <1>1 DEF Session!SendOpen
<1>6. /\ z \in Backends(token) /\ z.at = "waiting-open" /\ z.token = k.token
      /\ z.cseq = k.cseq
  <2>1. "waiting-open" \in ClientStages
    BY DEF ClientStages
  <2> QED BY <2>1 DEF Backends
<1>7. y \in Messages(token) /\ y.at = "opening" /\ y.of = c
  <2>1. "opening" \in ThreadStages
    BY DEF ThreadStages, OpeningStages
  <2>2. PICK x \in Messages(token) : x = Session!NoThread
    BY <1>0, StartValues
  <2> QED BY <2>1, <2>2 DEF Messages
<1> HIDE DEF y, z
<1>8. SessionType'
  BY <1>5, <1>6, <1>7, TypeStep DEF SessionInv, SessionType
<1>9. ASSUME Quiet PROVE FreshInv'
  <2>1. SessionType /\ FreshInv
    BY <1>9 DEF SessionInv
  <2>2. \A u \in Threads : thread[u].at # "free" => thread[u].of # c
    <3>1. client[c].at \notin WaitingStages \cup {"waiting-open"}
      BY <1>1, <1>5 DEF WaitingStages
    <3> QED BY <2>1, <3>1, NotServed
  <2>3. ClientInv(k, host)
    BY <1>1, <2>1 DEF FreshInv
  <2>4. ClientInv(z, host)
    BY <1>6, <2>3 DEF ClientInv, SendingStages, WaitingStages
  <2>5. ThreadInv(y, z, host)
    BY <1>6, <1>7 DEF ThreadInv, ServedStages, HeldStages
  <2>6. z.token = 0 \/ \A d \in Clients : d # c => client[d].token # z.token
    BY <1>1, <1>6, <2>1, SameSession
  <2>7. fresh'
    BY <1>5, <2>1 DEF FreshInv
  <2>8. y.at # "free" => y.of = c /\ ThreadInv(y, z, host')
    BY <1>5, <1>7, <2>5
  <2>9. ClientInv(z, host') /\ host'.token = host.token /\ host'.cseq = host.cseq
    BY <1>5, <2>4
  <2>10. /\ thread' = [thread EXCEPT ![t] = y] /\ client' = [client EXCEPT ![c] = z]
         /\ UNCHANGED operator
    BY <1>5
  <2> QED BY <2>1, <2>2, <2>6, <2>7, <2>8, <2>9, <2>10, FreshStep
<1> QED BY <1>8, <1>9 DEF SessionInv, Quiet

\* A step of a thread of the controller within the session of its client.
LEMMA ServeStep ==
  ASSUME SessionInv, NEW t \in Threads, thread[t].at # "free",
         NEW c \in Clients, c = thread[t].of,
         NEW y \in Messages(token), NEW z \in Backends(token), host' \in Rows(token),
         thread' = [thread EXCEPT ![t] = y], client' = [client EXCEPT ![c] = z],
         UNCHANGED <<token, operator>>, y.at # "free" => y.of = c,
         z.token = client[c].token \/ z.token = 0,
         Quiet => /\ fresh'
                  /\ y.at # "free" => ThreadInv(y, z, host')
                  /\ ClientInv(z, host')
                  /\ \/ host'.token = host.token /\ host'.cseq = host.cseq
                     \/ host'.token = client[c].token \/ host'.token = 0
  PROVE  SessionInv'
<1>1. SessionType
  BY DEF SessionInv
<1>2. SessionType'
  <2>1. y.at # "free" => y.of \in Clients
    OBVIOUS
  <2> QED BY <1>1, <2>1, TypeStep
<1>3. ASSUME Quiet PROVE FreshInv'
  <2>1. FreshInv
    BY <1>3 DEF SessionInv
  <2>2. \A u \in Threads : u # t /\ thread[u].at # "free" => thread[u].of # c
    BY <1>1, <2>1, OnlyThread
  <2>3. z.token = 0 \/ \A d \in Clients : d # c => client[d].token # z.token
    BY <1>1, <2>1, SameSession
  <2>4. \/ host'.token = host.token /\ host'.cseq = host.cseq
        \/ \A d \in Clients : d # c /\ client[d].token # 0 => client[d].token # host'.token
    BY <1>3, <2>1 DEF FreshInv
  <2>5. fresh' /\ ClientInv(z, host')
    BY <1>3
  <2>6. y.at # "free" => y.of = c /\ ThreadInv(y, z, host')
    BY <1>3
  <2>7. UNCHANGED operator
    OBVIOUS
  <2> QED BY <1>1, <2>1, <2>2, <2>3, <2>4, <2>5, <2>6, <2>7, FreshStep
<1> QED BY <1>2, <1>3 DEF SessionInv, Quiet

\* What is known of a thread at work.
LEMMA Serving ==
  ASSUME SessionInv, NEW t \in Threads, thread[t].at # "free"
  PROVE  \E c \in Clients, k \in Backends(token), x \in Messages(token) :
           /\ c = thread[t].of /\ k = client[c] /\ x = thread[t]
           /\ client = [client EXCEPT ![c] = k]
           /\ token \in Nat /\ MaxAttempts \in Nat \ {0} /\ host \in Rows(token)
           /\ Quiet => fresh /\ ThreadInv(x, k, host) /\ ClientInv(k, host)
<1>1. /\ thread[t].of \in Clients /\ thread[t] \in Messages(token) /\ token \in Nat
      /\ MaxAttempts \in Nat \ {0} /\ host \in Rows(token)
      /\ client \in [Clients -> Backends(token)]
  BY DEF SessionInv, SessionType
<1>2. PICK c \in Clients : c = thread[t].of
  BY <1>1
<1>3. client[c] \in Backends(token) /\ client = [client EXCEPT ![c] = client[c]]
  BY <1>1
<1>4. Quiet => fresh /\ ThreadInv(thread[t], client[c], host) /\ ClientInv(client[c], host)
  BY <1>2 DEF SessionInv, FreshInv
<1> QED BY <1>1, <1>2, <1>3, <1>4

\* HandleSessionOpen loads the row.
LEMMA OpenLoadInv ==
  ASSUME SessionInv, NEW t \in Threads, Session!OpenLoad(t)
  PROVE  SessionInv'
<1>1. thread[t].at = "opening"
  BY DEF Session!OpenLoad
<1>2. PICK c \in Clients, k \in Backends(token), x \in Messages(token) :
           /\ c = thread[t].of /\ k = client[c] /\ x = thread[t]
           /\ client = [client EXCEPT ![c] = k] /\ host \in Rows(token)
           /\ Quiet => fresh /\ ThreadInv(x, k, host) /\ ClientInv(k, host)
  BY <1>1, Serving
<1> DEFINE y == [x EXCEPT !.copy = host, !.at = "open-save"]
<1>3. thread' = [thread EXCEPT ![t] = y] /\ UNCHANGED <<host, client, operator, token, fresh>>
  BY <1>2 DEF Session!OpenLoad
<1>4. y \in Messages(token) /\ y.at = "open-save" /\ y.of = c
  <2>1. "open-save" \in ThreadStages
    BY DEF ThreadStages, OpeningStages
  <2> QED BY <1>2, <2>1 DEF Messages
<1> HIDE DEF y
<1>5. Quiet => ThreadInv(y, k, host)
  BY <1>1, <1>2, <1>4 DEF ThreadInv, OpeningStages, ServedStages, HeldStages
<1>6. /\ Quiet => /\ fresh' /\ (y.at # "free" => ThreadInv(y, k, host'))
                  /\ ClientInv(k, host')
                  /\ host'.token = host.token /\ host'.cseq = host.cseq
      /\ client' = [client EXCEPT ![c] = k] /\ host' \in Rows(token)
      /\ UNCHANGED <<token, operator>>
  BY <1>2, <1>3, <1>5
<1>7. thread[t].at # "free" /\ k.token = client[c].token
  BY <1>1, <1>2
<1> QED BY <1>2, <1>3, <1>4, <1>6, <1>7, ServeStep

\* HandleRegister takes the session away; a host that may not register gives up.
LEMMA RegisterInv ==
  ASSUME SessionInv, NEW t \in Threads, Session!OpenRegisters(t)
  PROVE  SessionInv'
<1>1. thread[t].at = "opening"
  BY DEF Session!OpenRegisters
<1>2. PICK c \in Clients, k \in Backends(token), x \in Messages(token) :
           /\ c = thread[t].of /\ k = client[c] /\ x = thread[t]
           /\ client = [client EXCEPT ![c] = k] /\ host \in Rows(token)
           /\ token \in Nat /\ MaxAttempts \in Nat \ {0}
           /\ Quiet => fresh /\ ThreadInv(x, k, host) /\ ClientInv(k, host)
  BY <1>1, Serving
<1>3. thread[t].at # "free" /\ thread = [thread EXCEPT ![t] = x]
  BY <1>1, <1>2 DEF SessionInv, SessionType
<1>4. CASE /\ client' = [client EXCEPT ![c].registered = TRUE]
           /\ host' = [host EXCEPT !.key = TRUE, !.state = "registered",
                                   !.onboarding = FALSE, !.token = 0, !.expired = FALSE]
           /\ UNCHANGED <<thread, operator, token, fresh>>
  <2> DEFINE z == [k EXCEPT !.registered = TRUE]
  <2>1. client' = [client EXCEPT ![c] = z]
    BY <1>2, <1>4
  <2>2. /\ z \in Backends(token) /\ z.at = k.at /\ z.token = k.token /\ z.cseq = k.cseq
        /\ z.hseq = k.hseq
    BY DEF Backends
  <2> HIDE DEF z
  <2>3. host' \in Rows(token) /\ host'.token = 0
    <3>1. 0 \in Numbers(token)
      BY <1>2 DEF Numbers
    <3> QED BY <1>2, <1>4, <3>1 DEF Rows
  <2>4. Quiet => /\ fresh' /\ (x.at # "free" => ThreadInv(x, z, host'))
                 /\ ClientInv(z, host') /\ host'.token = 0
    BY <1>1, <1>2, <1>4, <2>2, <2>3
       DEF ThreadInv, ClientInv, OpeningStages, ServedStages, HeldStages
  <2>5. thread' = [thread EXCEPT ![t] = x] /\ UNCHANGED <<token, operator>>
    BY <1>3, <1>4
  <2>6. z.token = client[c].token /\ (x.at # "free" => x.of = c)
    BY <1>2, <2>2
  <2> QED BY <1>2, <1>3, <2>1, <2>2, <2>3, <2>4, <2>5, <2>6, ServeStep
<1>5. CASE /\ client' = [client EXCEPT ![c].at = "idle", ![c].registered = TRUE]
           /\ thread' = [thread EXCEPT ![t] = Session!NoThread]
           /\ UNCHANGED <<host, operator, token, fresh>>
  <2> DEFINE z == [k EXCEPT !.at = "idle", !.registered = TRUE]
  <2>1. client' = [client EXCEPT ![c] = z]
    BY <1>2, <1>5
  <2>2. /\ z \in Backends(token) /\ z.at = "idle" /\ z.token = k.token /\ z.cseq = k.cseq
    <3>1. "idle" \in ClientStages
      BY DEF ClientStages
    <3> QED BY <3>1 DEF Backends
  <2> HIDE DEF z
  <2>3. Quiet => /\ fresh' /\ ClientInv(z, host')
                 /\ host'.token = host.token /\ host'.cseq = host.cseq
    BY <1>2, <1>5, <2>2 DEF ClientInv, SendingStages, WaitingStages
  <2>4. z.token = client[c].token /\ host' \in Rows(token) /\ UNCHANGED <<token, operator>>
    BY <1>2, <1>5, <2>2
  <2>5. Session!NoThread \in Messages(token) /\ Session!NoThread.at = "free"
    BY <1>2, StartValues
  <2> QED BY <1>2, <1>3, <1>5, <2>1, <2>2, <2>3, <2>4, <2>5, ServeStep
<1> QED BY <1>2, <1>4, <1>5 DEF Session!OpenRegisters

\* HandleSessionOpen saves its copy of the row with a session no client has.
LEMMA OpenSaveInv ==
  ASSUME SessionInv, NEW t \in Threads, Session!OpenSave(t)
  PROVE  SessionInv'
<1>1. thread[t].at = "open-save"
  BY DEF Session!OpenSave
<1>2. PICK c \in Clients, k \in Backends(token), x \in Messages(token) :
           /\ c = thread[t].of /\ k = client[c] /\ x = thread[t]
           /\ token \in Nat /\ MaxAttempts \in Nat \ {0}
           /\ Quiet => fresh /\ ThreadInv(x, k, host) /\ ClientInv(k, host)
  BY <1>1, Serving
<1>3. PICK n \in Nat : n = token + 1
  BY <1>2
<1>4. PICK w \in Rows(token) : w = x.copy
  BY DEF Messages
<1> DEFINE h == [w EXCEPT !.token = n, !.hseq = 0, !.cseq = 0, !.connected = TRUE,
                          !.expired = FALSE]
           z == [k EXCEPT !.at = "first-beat", !.token = n, !.hseq = 0, !.cseq = 0]
<1>5. /\ host' = h /\ client' = [client EXCEPT ![c] = z] /\ token' = n /\ token < MaxTokens
      /\ thread' = [thread EXCEPT ![t] = Session!NoThread] /\ UNCHANGED <<operator, fresh>>
  BY <1>2, <1>3, <1>4 DEF Session!OpenSave
<1>6. h \in Rows(n) /\ h.token = n /\ h.cseq = 0
  <2>1. w \in Rows(n) /\ n \in Numbers(n)
    BY <1>2, <1>3, MoreSessions DEF Numbers
  <2> QED BY <2>1 DEF Rows
<1>7. z \in Backends(n) /\ z.at = "first-beat" /\ z.token = n /\ z.cseq = 0
  <2>1. k \in Backends(n) /\ n \in Numbers(n)
    BY <1>2, <1>3, MoreSessions DEF Numbers
  <2>2. "first-beat" \in ClientStages
    BY DEF ClientStages, SendingStages
  <2> QED BY <2>1, <2>2 DEF Backends
<1> HIDE DEF h, z
<1>8. Session!NoThread \in Messages(n) /\ Session!NoThread.at = "free"
  BY <1>2, StartValues
<1>9. SessionType'
  <2>1. SessionType /\ MaxTokens \in Nat
    BY DEF SessionInv, SessionType
  <2>2. thread \in [Threads -> Messages(n)] /\ client \in [Clients -> Backends(n)]
        /\ operator.copy \in Rows(n)
    BY <1>2, <1>3, <2>1, MoreSessions DEF SessionType
  <2>3. thread' \in [Threads -> Messages(n)] /\ client' \in [Clients -> Backends(n)]
    BY <1>5, <1>7, <1>8, <2>2
  <2>4. \A u \in Threads : thread'[u].at # "free" => thread'[u].of \in Clients
    BY <1>5, <1>8, <2>1 DEF SessionType
  <2>5. n \in 0..MaxTokens
    BY <1>2, <1>3, <1>5, <2>1
  <2> QED BY <1>5, <1>6, <2>1, <2>2, <2>3, <2>4, <2>5
             DEF SessionType, Rows, Backends, Messages, Numbers
<1>10. ASSUME Quiet PROVE FreshInv'
  <2>1. SessionType /\ FreshInv
    BY <1>10 DEF SessionInv
  <2>2. \A u \in Threads : u # t /\ thread[u].at # "free" => thread[u].of # c
    BY <1>1, <1>2, <2>1, OnlyThread
  <2>3. \A d \in Clients : client[d].token # n
    <3>1. ASSUME NEW d \in Clients PROVE client[d].token # n
      <4>1. client[d] \in Backends(token)
        BY <2>1 DEF SessionType
      <4>2. client[d].token \in 0..token
        BY <4>1 DEF Backends, Numbers
      <4> QED BY <1>2, <1>3, <4>2
    <3> QED BY <3>1
  <2>4. host'.token = n /\ host'.cseq = 0
    BY <1>5, <1>6
  <2>5. ClientInv(z, host')
    BY <1>2, <1>3, <1>7, <2>4 DEF ClientInv
  <2>6. fresh'
    BY <1>5, <2>1 DEF FreshInv
  <2>7. /\ thread' = [thread EXCEPT ![t] = Session!NoThread]
        /\ client' = [client EXCEPT ![c] = z] /\ UNCHANGED operator
    BY <1>5
  <2>8. /\ \A d \in Clients : d # c /\ client[d].token # 0 => client[d].token # host'.token
        /\ \A d \in Clients : d # c => client[d].token # z.token
    BY <1>7, <2>3, <2>4
  <2> QED BY <1>8, <2>1, <2>2, <2>5, <2>6, <2>7, <2>8, FreshStep
<1> QED BY <1>9, <1>10 DEF SessionInv, Quiet

\* A client that is refused, or that gives up, opens a new session or is done.
LEMMA AfterRefusals ==
  ASSUME NEW c \in Clients, NEW k \in Backends(token), k = client[c], token \in Nat,
         MaxAttempts \in Nat \ {0},
         NEW z, z = Session!AfterError(c) \/ z = Session!AfterRefusal(c)
  PROVE  /\ z \in Backends(token) /\ z.at \in {"open", "idle"}
         /\ z.token = 0 \/ (z.token = k.token /\ z.cseq = k.cseq)
<1>1. "open" \in ClientStages /\ "idle" \in ClientStages /\ 0 \in Numbers(token)
  BY DEF ClientStages, Numbers
<1>2. ASSUME NEW a \in {"open", "idle"}, NEW n \in 0..(MaxAttempts - 1),
             z = [[k EXCEPT !.token = 0, !.hseq = 0, !.cseq = 0] EXCEPT !.at = a,
                                                                       !.attempts = n]
      PROVE  z \in Backends(token) /\ z.at \in {"open", "idle"} /\ z.token = 0
  BY <1>1, <1>2 DEF Backends
<1>3. ASSUME z = Session!AfterError(c)
      PROVE  /\ z \in Backends(token) /\ z.at \in {"open", "idle"}
             /\ z.token = 0 \/ (z.token = k.token /\ z.cseq = k.cseq)
  <2>1. CASE k.at = "waiting-beat"
    <3>1. z = [[k EXCEPT !.token = 0, !.hseq = 0, !.cseq = 0] EXCEPT !.at = "open"]
      BY <1>3, <2>1 DEF Session!AfterError, Session!Reset
    <3> QED BY <1>1, <3>1 DEF Backends
  <2>2. CASE k.at # "waiting-beat"
    <3>1. z = [k EXCEPT !.at = "idle"]
      BY <1>3, <2>2 DEF Session!AfterError
    <3> QED BY <1>1, <3>1 DEF Backends
  <2> QED BY <2>1, <2>2
<1>4. ASSUME z = Session!AfterRefusal(c)
      PROVE  /\ z \in Backends(token) /\ z.at \in {"open", "idle"}
             /\ z.token = 0 \/ (z.token = k.token /\ z.cseq = k.cseq)
  <2>1. CASE k.at = "waiting-request" /\ k.attempts + 1 < MaxAttempts
    <3>1. k.attempts \in 0..(MaxAttempts - 1)
      BY DEF Backends
    <3>2. PICK n \in 0..(MaxAttempts - 1) : n = k.attempts + 1
      BY <2>1, <3>1
    <3>3. [k EXCEPT !.token = 0, !.hseq = 0, !.cseq = 0].attempts = k.attempts
      BY DEF Backends
    <3>4. z = [[k EXCEPT !.token = 0, !.hseq = 0, !.cseq = 0] EXCEPT !.at = "open",
                                                                    !.attempts = n]
      BY <1>4, <2>1, <3>2, <3>3 DEF Session!AfterRefusal, Session!Reset
    <3> QED BY <1>2, <3>4
  <2>2. CASE ~(k.at = "waiting-request" /\ k.attempts + 1 < MaxAttempts)
    BY <1>3, <1>4, <2>2 DEF Session!AfterRefusal
  <2> QED BY <2>1, <2>2
<1> QED BY <1>3, <1>4

\* AuthenticateFails and ParseFails
LEMMA RefuseInv ==
  ASSUME SessionInv, NEW t \in Threads, Session!AuthenticateFails(t) \/ Session!ParseFails(t)
  PROVE  SessionInv'
<1>1. /\ thread[t].at # "free" /\ Session!Refuse(t)
      /\ UNCHANGED <<host, operator, token, fresh>>
  BY DEF Session!AuthenticateFails, Session!ParseFails
<1>2. PICK c \in Clients, k \in Backends(token), x \in Messages(token) :
           /\ c = thread[t].of /\ k = client[c] /\ x = thread[t]
           /\ client = [client EXCEPT ![c] = k] /\ host \in Rows(token)
           /\ token \in Nat /\ MaxAttempts \in Nat \ {0}
           /\ Quiet => fresh /\ ThreadInv(x, k, host) /\ ClientInv(k, host)
  BY <1>1, Serving
<1>3. PICK z : /\ z = k \/ z = Session!AfterRefusal(c)
               /\ client' = [client EXCEPT ![c] = z]
  BY <1>1, <1>2 DEF Session!Refuse
<1>5. /\ z \in Backends(token)
      /\ z.token = 0 \/ (z.token = k.token /\ z.cseq = k.cseq)
      /\ z = k \/ z.at \in {"open", "idle"}
  BY <1>2, <1>3, AfterRefusals
<1>6. Quiet => /\ fresh' /\ ClientInv(z, host')
               /\ host'.token = host.token /\ host'.cseq = host.cseq
  BY <1>1, <1>2, <1>5 DEF ClientInv, SendingStages, WaitingStages
<1>7. Session!NoThread \in Messages(token) /\ Session!NoThread.at = "free"
  BY <1>2, StartValues
<1>8. /\ thread' = [thread EXCEPT ![t] = Session!NoThread]
      /\ host' \in Rows(token) /\ UNCHANGED <<token, operator>>
      /\ z.token = client[c].token \/ z.token = 0
  BY <1>1, <1>2, <1>5 DEF Session!Refuse
<1> QED BY <1>1, <1>2, <1>3, <1>5, <1>6, <1>7, <1>8, ServeStep

\* The steps that move a thread on with a copy w of the row, which it may have
\* written.
LEMMA HoldStep ==
  ASSUME SessionInv, NEW t \in Threads, NEW x \in Messages(token), x = thread[t],
         x.at \in ServedStages, NEW y \in Messages(token), y.of = x.of, y.token = x.token,
         y.seq = x.seq, y.at \in HeldStages,
         y.at = "answer-save" /\ ~y.persist => host'.token # y.token,
         thread' = [thread EXCEPT ![t] = y], UNCHANGED <<client, token, operator, fresh>>,
         Quiet => /\ y.copy.token = x.token
                  /\ y.copy.cseq >= client[x.of].cseq,
         \/ host' \in Rows(token) /\ host'.token = y.copy.token /\ host'.cseq = y.copy.cseq
         \/ UNCHANGED host
  PROVE  SessionInv'
<1>1. thread[t].at # "free"
  BY DEF ServedStages, HeldStages
<1>2. PICK c \in Clients, k \in Backends(token) :
           /\ c = thread[t].of /\ k = client[c]
           /\ client = [client EXCEPT ![c] = k] /\ host \in Rows(token)
           /\ Quiet => fresh /\ ThreadInv(x, k, host) /\ ClientInv(k, host)
  BY <1>1, Serving
<1>3. Quiet => /\ k.token = x.token /\ x.token # 0 /\ k.hseq = x.seq
               /\ k.at \in WaitingStages
  BY <1>2 DEF ThreadInv
<1>4. Quiet => ThreadInv(y, k, host')
  <2>1. y.at \notin OpeningStages
    BY DEF HeldStages, OpeningStages
  <2> QED BY <1>2, <1>3, <2>1 DEF ThreadInv
<1>5. Quiet => ClientInv(k, host')
  BY <1>2, <1>3 DEF ClientInv
<1>6. Quiet => \/ host'.token = host.token /\ host'.cseq = host.cseq
               \/ host'.token = client[c].token \/ host'.token = 0
  BY <1>2, <1>3
<1>7. Quiet => fresh'
  BY <1>2
<1>8. /\ host' \in Rows(token) /\ client' = [client EXCEPT ![c] = k]
      /\ k.token = client[c].token /\ (y.at # "free" => y.of = c)
      /\ UNCHANGED <<token, operator>>
  BY <1>2
<1>9. Quiet => /\ fresh' /\ (y.at # "free" => ThreadInv(y, k, host')) /\ ClientInv(k, host')
               /\ \/ host'.token = host.token /\ host'.cseq = host.cseq
                  \/ host'.token = client[c].token \/ host'.token = 0
  BY <1>4, <1>5, <1>6, <1>7
<1> QED BY <1>1, <1>2, <1>8, <1>9, ServeStep

\* Authenticate
LEMMA AuthenticateInv ==
  ASSUME SessionInv, NEW t \in Threads, Session!Authenticate(t)
  PROVE  SessionInv'
<1>1. PICK x \in Messages(token) : x = thread[t]
  BY DEF SessionInv, SessionType
<1>2. host \in Rows(token)
  BY DEF SessionInv, SessionType
<1> DEFINE y == [x EXCEPT !.copy = host, !.at = "parse"]
<1>3. /\ x.at = "received" /\ host.token = x.token /\ thread' = [thread EXCEPT ![t] = y]
      /\ UNCHANGED <<host, client, operator, token, fresh>>
  BY <1>1 DEF Session!Authenticate, Session!Authentic
<1>4. /\ y \in Messages(token) /\ y.at = "parse" /\ y.of = x.of /\ y.token = x.token
      /\ y.seq = x.seq /\ y.copy = host
  <2>1. "parse" \in ThreadStages
    BY DEF ThreadStages, ServedStages, HeldStages
  <2> QED BY <1>2, <2>1 DEF Messages
<1> HIDE DEF y
<1>5. x.at \in ServedStages /\ y.at \in HeldStages
  BY <1>3, <1>4 DEF ServedStages, HeldStages
<1>6. Quiet => y.copy.token = x.token /\ y.copy.cseq >= client[x.of].cseq
  <2>1. thread[t].at # "free"
    BY <1>1, <1>3
  <2>2. Quiet => ThreadInv(x, client[x.of], host) /\ ClientInv(client[x.of], host)
    BY <1>1, <2>1, Serving
  <2> QED BY <1>3, <1>4, <1>5, <2>2 DEF ThreadInv, ClientInv
<1> QED BY <1>1, <1>3, <1>4, <1>5, <1>6, HoldStep

\* What is known of the copy a thread holds.
LEMMA Holding ==
  ASSUME SessionInv, NEW t \in Threads, NEW x \in Messages(token), x = thread[t],
         x.at \in HeldStages
  PROVE  /\ x.copy \in Rows(token) /\ x.at \in ServedStages
         /\ Quiet => x.copy.token = x.token /\ x.copy.cseq >= client[x.of].cseq
<1>1. thread[t].at # "free" /\ x.at \in ServedStages
  BY DEF HeldStages, ServedStages
<1>2. Quiet => ThreadInv(x, client[x.of], host)
  BY <1>1, Serving
<1> QED BY <1>1, <1>2 DEF ThreadInv, Messages

\* ParseEncryptedBody
LEMMA ParseInv ==
  ASSUME SessionInv, NEW t \in Threads, Session!ParseEncryptedBody(t)
  PROVE  SessionInv'
<1>1. PICK x \in Messages(token) : x = thread[t]
  BY DEF SessionInv, SessionType
<1>2. x.at = "parse"
  BY <1>1 DEF Session!ParseEncryptedBody
<1>3. x.at \in HeldStages
  BY <1>2 DEF HeldStages
<1>4. PICK w \in Rows(token) : w = x.copy
  BY <1>1, <1>3, Holding
<1>5. PICK q \in Nat : q = x.seq
  BY DEF Messages
<1>6. PICK a \in {"beat", "answer"} : a = IF x.beat THEN "beat" ELSE "answer"
  OBVIOUS
<1> DEFINE h == [w EXCEPT !.hseq = q, !.expired = FALSE]
<1> DEFINE y == [x EXCEPT !.copy = h, !.at = a]
<1>7. /\ host' = h /\ thread' = [thread EXCEPT ![t] = y]
      /\ UNCHANGED <<client, operator, token, fresh>>
  BY <1>1, <1>4, <1>5, <1>6 DEF Session!ParseEncryptedBody
<1>8. h \in Rows(token) /\ h.token = w.token /\ h.cseq = w.cseq
  BY DEF Rows
<1> HIDE DEF h
<1>9. /\ y \in Messages(token) /\ y.at = a /\ y.of = x.of /\ y.token = x.token
      /\ y.seq = x.seq /\ y.copy = h
  <2>1. a \in ThreadStages
    BY DEF ThreadStages, ServedStages, HeldStages
  <2> QED BY <1>8, <2>1 DEF Messages
<1> HIDE DEF y
<1>10. y.at \in HeldStages /\ y.at # "answer-save"
  BY <1>9 DEF HeldStages
<1>11. /\ x.at \in ServedStages
       /\ Quiet => y.copy.token = x.token /\ y.copy.cseq >= client[x.of].cseq
  BY <1>1, <1>3, <1>4, <1>8, <1>9, Holding
<1>12. host' \in Rows(token) /\ host'.token = y.copy.token /\ host'.cseq = y.copy.cseq
  BY <1>7, <1>8, <1>9
<1> QED BY <1>1, <1>7, <1>9, <1>10, <1>11, <1>12, HoldStep

\* HandleSessionHeartbeat
LEMMA HeartbeatInv ==
  ASSUME SessionInv, NEW t \in Threads, Session!HandleSessionHeartbeat(t)
  PROVE  SessionInv'
<1>1. PICK x \in Messages(token) : x = thread[t]
  BY DEF SessionInv, SessionType
<1>2. x.at = "beat"
  BY <1>1 DEF Session!HandleSessionHeartbeat
<1>3. x.at \in HeldStages
  BY <1>2 DEF HeldStages
<1>4. PICK w \in Rows(token) : w = x.copy
  BY <1>1, <1>3, Holding
<1> DEFINE h == [w EXCEPT !.connected = TRUE]
<1> DEFINE y == [x EXCEPT !.copy = h, !.at = "answer"]
<1>7. /\ host' = h /\ thread' = [thread EXCEPT ![t] = y]
      /\ UNCHANGED <<client, operator, token, fresh>>
  BY <1>1, <1>4 DEF Session!HandleSessionHeartbeat, Messages
<1>8. h \in Rows(token) /\ h.token = w.token /\ h.cseq = w.cseq
  BY DEF Rows
<1> HIDE DEF h
<1>9. /\ y \in Messages(token) /\ y.at = "answer" /\ y.of = x.of /\ y.token = x.token
      /\ y.seq = x.seq /\ y.copy = h
  <2>1. "answer" \in ThreadStages
    BY DEF ThreadStages, ServedStages, HeldStages
  <2> QED BY <1>8, <2>1 DEF Messages
<1> HIDE DEF y
<1>10. y.at \in HeldStages /\ y.at # "answer-save"
  BY <1>9 DEF HeldStages
<1>11. /\ x.at \in ServedStages
       /\ Quiet => y.copy.token = x.token /\ y.copy.cseq >= client[x.of].cseq
  BY <1>1, <1>3, <1>4, <1>8, <1>9, Holding
<1>12. host' \in Rows(token) /\ host'.token = y.copy.token /\ host'.cseq = y.copy.cseq
  BY <1>7, <1>8, <1>9
<1> QED BY <1>1, <1>7, <1>9, <1>10, <1>11, <1>12, HoldStep

\* EncryptedResponse takes the latest row of its session.
LEMMA ResponseLoadInv ==
  ASSUME SessionInv, NEW t \in Threads, Session!ResponseLoad(t)
  PROVE  SessionInv'
<1>1. PICK x \in Messages(token) : x = thread[t]
  BY DEF SessionInv, SessionType
<1>2. host \in Rows(token) /\ x.at = "answer"
  BY <1>1 DEF SessionInv, SessionType, Session!ResponseLoad
<1>3. x.at \in HeldStages
  BY <1>2 DEF HeldStages
<1>4. /\ x.copy \in Rows(token) /\ x.at \in ServedStages
      /\ Quiet => x.copy.token = x.token /\ x.copy.cseq >= client[x.of].cseq
  BY <1>1, <1>3, Holding
<1>5. PICK b \in BOOLEAN : b = (host.token = x.token)
  OBVIOUS
<1>6. PICK w \in Rows(token) : w = IF host.token = x.token THEN host ELSE x.copy
  BY <1>2, <1>4
<1> DEFINE y == [x EXCEPT !.at = "answer-save", !.persist = b, !.copy = w]
<1>7. /\ thread' = [thread EXCEPT ![t] = y]
      /\ UNCHANGED <<host, client, operator, token, fresh>>
  BY <1>1, <1>5, <1>6 DEF Session!ResponseLoad
<1>8. /\ y \in Messages(token) /\ y.at = "answer-save" /\ y.of = x.of /\ y.token = x.token
      /\ y.seq = x.seq /\ y.copy = w /\ y.persist = b
  <2>1. "answer-save" \in ThreadStages
    BY DEF ThreadStages, ServedStages, HeldStages
  <2> QED BY <2>1 DEF Messages
<1> HIDE DEF y
<1>9. y.at \in HeldStages
  BY <1>8 DEF HeldStages
<1>10. ~y.persist => host'.token # y.token
  BY <1>5, <1>7, <1>8
<1>11. Quiet => y.copy.token = x.token /\ y.copy.cseq >= client[x.of].cseq
  <2>1. thread[t].at # "free"
    BY <1>1, <1>2
  <2>2. Quiet => ThreadInv(x, client[x.of], host) /\ ClientInv(client[x.of], host)
    BY <1>1, <2>1, Serving
  <2>3. ASSUME Quiet, host.token = x.token PROVE host.cseq >= client[x.of].cseq
    BY <1>4, <2>2, <2>3 DEF ThreadInv, ClientInv
  <2> QED BY <1>4, <1>6, <1>8, <2>3
<1> QED BY <1>1, <1>4, <1>7, <1>8, <1>9, <1>10, <1>11, HoldStep

\* EncryptedResponse saves the number of the response, the client has it.
LEMMA ResponseSaveInv ==
  ASSUME SessionInv, NEW t \in Threads, Session!ResponseSave(t)
  PROVE  SessionInv'
<1>1. thread[t].at = "answer-save"
  BY DEF Session!ResponseSave
<1>2. PICK c \in Clients, k \in Backends(token), x \in Messages(token) :
           /\ c = thread[t].of /\ k = client[c] /\ x = thread[t]
           /\ client = [client EXCEPT ![c] = k] /\ host \in Rows(token)
           /\ token \in Nat /\ MaxAttempts \in Nat \ {0}
           /\ Quiet => fresh /\ ThreadInv(x, k, host) /\ ClientInv(k, host)
  BY <1>1, Serving
<1>3. x.at \in HeldStages
  BY <1>1, <1>2 DEF HeldStages
<1>4. PICK w \in Rows(token) : w = x.copy
  BY <1>2, <1>3, Holding
<1>5. PICK n \in Nat : n = w.cseq + 1
  BY DEF Rows
<1>6. Quiet => /\ w.token = x.token /\ n > k.cseq /\ x.token # 0 /\ k.token = x.token
               /\ Session!Waits(t) /\ (~x.persist => host.token # x.token)
  <2>1. Quiet => w.token = x.token /\ w.cseq >= k.cseq
    BY <1>2, <1>3, <1>4, Holding
  <2>2. w.cseq \in Nat /\ k.cseq \in Nat
    BY DEF Rows, Backends
  <2>3. Quiet => n > k.cseq
    BY <1>5, <2>1, <2>2
  <2>4. Quiet => /\ k.at \in WaitingStages /\ x.token # 0 /\ k.token = x.token
                 /\ k.hseq = x.seq /\ (~x.persist => host.token # x.token)
    BY <1>1, <1>2, <1>3, <1>4, Holding DEF ThreadInv
  <2>5. Quiet => Session!Waits(t)
    BY <1>2, <2>4 DEF Session!Waits, WaitingStages
  <2> QED BY <2>1, <2>3, <2>4, <2>5
<1>7. /\ thread' = [thread EXCEPT ![t] = Session!NoThread]
      /\ UNCHANGED <<operator, token>>
      /\ host' = IF x.persist THEN [w EXCEPT !.cseq = n] ELSE host
      /\ fresh' = (fresh /\ (Session!Waits(t) => n > k.cseq))
  BY <1>2, <1>4, <1>5 DEF Session!ResponseSave
<1>8. PICK z :
        /\ client' = [client EXCEPT ![c] = z]
        /\ z = IF ~Session!Waits(t) THEN k
               ELSE IF n <= k.cseq THEN Session!AfterError(c)
               ELSE [Session!AfterOk(c) EXCEPT !.cseq = n]
  <2>1. client' = IF ~Session!Waits(t) THEN client
                  ELSE IF n <= k.cseq THEN [client EXCEPT ![c] = Session!AfterError(c)]
                  ELSE [client EXCEPT ![c] = [Session!AfterOk(c) EXCEPT !.cseq = n]]
    BY <1>2, <1>4, <1>5 DEF Session!ResponseSave
  <2> QED BY <1>2, <2>1
<1>9. PICK a \in {"idle", "request"} : Session!AfterOk(c) = [k EXCEPT !.at = a]
  BY <1>2 DEF Session!AfterOk
<1> DEFINE o == [[k EXCEPT !.at = a] EXCEPT !.cseq = n]
<1>10. o \in Backends(token) /\ o.at = a /\ o.token = k.token /\ o.cseq = n
  <2>1. a \in ClientStages
    BY DEF ClientStages, SendingStages
  <2> QED BY <2>1 DEF Backends
<1>11. z = IF ~Session!Waits(t) THEN k ELSE IF n <= k.cseq THEN Session!AfterError(c) ELSE o
  BY <1>8, <1>9
<1> HIDE DEF o
<1>12. z \in Backends(token) /\ (z.token = client[c].token \/ z.token = 0)
  BY <1>2, <1>10, <1>11, AfterRefusals
<1>13. host' \in Rows(token) /\ (x.persist => host'.token = w.token /\ host'.cseq = n)
  BY <1>2, <1>7 DEF Rows
<1>14. Quiet => z = o
  <2>1. k.cseq \in Nat
    BY DEF Backends
  <2> QED BY <1>5, <1>6, <1>11, <2>1
<1>15. Quiet => fresh'
  BY <1>2, <1>6, <1>7
<1>16. Quiet => ClientInv(z, host')
  BY <1>6, <1>7, <1>10, <1>13, <1>14 DEF ClientInv
<1>17. Quiet => \/ host'.token = host.token /\ host'.cseq = host.cseq
                \/ host'.token = client[c].token \/ host'.token = 0
  BY <1>2, <1>6, <1>7, <1>13
<1>18. Session!NoThread \in Messages(token) /\ Session!NoThread.at = "free"
  BY <1>2, StartValues
<1>19. Quiet => /\ fresh'
                /\ (Session!NoThread.at # "free" => ThreadInv(Session!NoThread, z, host'))
                /\ ClientInv(z, host')
                /\ \/ host'.token = host.token /\ host'.cseq = host.cseq
                   \/ host'.token = client[c].token \/ host'.token = 0
  BY <1>15, <1>16, <1>17, <1>18
<1>20. thread[t].at # "free" /\ c = thread[t].of /\ UNCHANGED <<operator, token>>
  BY <1>1, <1>2, <1>7
<1>21. /\ thread' = [thread EXCEPT ![t] = Session!NoThread]
       /\ client' = [client EXCEPT ![c] = z]
  BY <1>7, <1>8
<1> QED BY <1>12, <1>13, <1>18, <1>19, <1>20, <1>21, ServeStep

\* A client stops waiting: not in a quiet session.
LEMMA GiveUpInv ==
  ASSUME SessionInv, NEW c \in Clients, Session!GiveUp(c)
  PROVE  SessionInv'
<1>1. ~Quiet
  BY DEF Session!GiveUp, Quiet
<1>2. PICK k \in Backends(token) : k = client[c]
  BY DEF SessionInv, SessionType
<1>3. PICK z : z = Session!AfterError(c)
  OBVIOUS
<1>4. z \in Backends(token)
  BY <1>2, <1>3, AfterRefusals DEF SessionInv, SessionType
<1>5. client' = [client EXCEPT ![c] = z] /\ UNCHANGED <<host, thread, operator, token>>
  BY <1>3 DEF Session!GiveUp
<1>6. client' \in [Clients -> Backends(token)]
  BY <1>4, <1>5 DEF SessionInv, SessionType
<1>7. SessionType'
  BY <1>5, <1>6 DEF SessionInv, SessionType, Rows, Backends, Messages, Numbers
<1> QED BY <1>1, <1>7 DEF SessionInv, Quiet

\* Operator commands: not in a quiet session.
LEMMA CommandLoadInv ==
  ASSUME SessionInv, NEW cmd \in Commands, Session!CommandLoad(cmd)
  PROVE  SessionInv'
<1>1. ~Quiet
  BY DEF Quiet
<1>2. /\ operator'.cmd = cmd /\ operator'.copy = host
      /\ UNCHANGED <<host, client, thread, token>>
  BY DEF Session!CommandLoad
<1>3. SessionType'
  BY <1>2 DEF SessionInv, SessionType, Rows, Backends, Messages, Numbers
<1> QED BY <1>1, <1>3 DEF SessionInv, Quiet

\* What a command writes is a row.
LEMMA ChangedRow ==
  ASSUME NEW n \in Nat, NEW h \in Rows(n), NEW cmd \in OperatorCommands,
         MaxAttempts \in Nat \ {0}
  PROVE  Session!Changed(cmd, h) \in Rows(n)
<1>1. 0 \in Numbers(n)
  BY DEF Numbers
<1>2. CASE cmd = "revoke"
  <2>1. PICK r \in Rows(n) : r = [h EXCEPT !.state = "revoked", !.connected = FALSE,
                                           !.token = 0]
    BY <1>1 DEF Rows
  <2>2. PICK g \in Rows(n) : g = [r EXCEPT !.hseq = 0, !.cseq = 0, !.expired = FALSE]
    BY DEF Rows
  <2> QED BY <1>2, <2>1, <2>2 DEF Session!Changed
<1>3. CASE cmd = "rotate-key"
  <2>1. PICK r \in Rows(n) : r = [h EXCEPT !.state = "registered", !.key = TRUE,
                                           !.connected = FALSE, !.token = 0]
    BY <1>1 DEF Rows
  <2>2. PICK g \in Rows(n) : g = [r EXCEPT !.hseq = 0, !.cseq = 0, !.expired = FALSE]
    BY DEF Rows
  <2> QED BY <1>3, <2>1, <2>2 DEF Session!Changed
<1>4. CASE cmd = "reset-onboarding"
  <2>1. PICK r \in Rows(n) : r = Session!NoHost
    BY StartValues
  <2>2. Session!Changed(cmd, h) =
          [r EXCEPT !.state = "provisioned", !.key = FALSE, !.onboarding = TRUE]
    BY <1>4, <2>1 DEF Session!Changed
  <2> QED BY <2>2 DEF Rows
<1>5. CASE cmd = "storage-role"
  <2>1. Session!Changed(cmd, h) = [h EXCEPT !.storage = TRUE]
    BY <1>5 DEF Session!Changed
  <2> QED BY <2>1 DEF Rows
<1> QED BY <1>2, <1>3, <1>4, <1>5 DEF OperatorCommands

\* CommandSave
LEMMA CommandSaveInv ==
  ASSUME SessionInv, SessionSound, Session!CommandSave
  PROVE  SessionInv'
<1>1. /\ operator.cmd \in Commands /\ operator.copy \in Rows(token) /\ token \in Nat
      /\ MaxAttempts \in Nat \ {0}
  BY DEF Session!CommandSave, SessionInv, SessionType
<1>2. ~Quiet
  BY <1>1 DEF Quiet
<1>3. Session!Changed(operator.cmd, operator.copy) \in Rows(token)
  BY <1>1, ChangedRow DEF SessionSound
<1>4. /\ host' \in Rows(token) /\ UNCHANGED <<client, thread, token>>
      /\ operator' = [Session!NoCommand EXCEPT !.given = operator.given]
  BY <1>3 DEF Session!CommandSave
<1>5. operator'.cmd = "none" /\ operator'.copy \in Rows(token)
  <2>1. operator'.cmd = "none" /\ operator'.copy = Session!NoHost
    BY <1>4 DEF Session!NoCommand
  <2> QED BY <1>1, <2>1, StartValues
<1>6. SessionType'
  BY <1>4, <1>5 DEF SessionInv, SessionType, Rows, Backends, Messages, Numbers
<1> QED BY <1>2, <1>6 DEF SessionInv, Quiet

\* SessionExpires
LEMMA ExpiryInv ==
  ASSUME SessionInv, Session!SessionExpires
  PROVE  SessionInv'
<1>1. host \in Rows(token)
  BY DEF SessionInv, SessionType
<1>2. /\ host' = [host EXCEPT !.expired = TRUE]
      /\ UNCHANGED <<client, thread, operator, token, fresh>>
  BY DEF Session!SessionExpires
<1>3. host' \in Rows(token) /\ host'.token = host.token /\ host'.cseq = host.cseq
  BY <1>1, <1>2 DEF Rows
<1>4. SessionType'
  BY <1>2, <1>3 DEF SessionInv, SessionType, Rows, Backends, Messages, Numbers
<1>5. ASSUME Quiet PROVE FreshInv'
  BY <1>2, <1>3, <1>5 DEF SessionInv, FreshInv, ThreadInv, ClientInv
<1> QED BY <1>4, <1>5 DEF SessionInv, Quiet

\* Every step of the session keeps its invariant.
LEMMA SessionNext ==
  ASSUME SessionInv, SessionSound, [Session!Next]_(Session!vars)
  PROVE  SessionInv'
<1>1. CASE UNCHANGED Session!vars
  <2>1. SessionType'
    BY <1>1 DEF Session!vars, SessionInv, SessionType, Rows, Backends, Messages, Numbers
  <2>2. ASSUME Quiet PROVE FreshInv'
    BY <1>1, <2>2 DEF Session!vars, SessionInv, FreshInv
  <2> QED BY <2>1, <2>2 DEF SessionInv, Quiet
<1>2. ASSUME NEW c \in Clients, Session!Call(c) \/ Session!GiveUp(c)
      PROVE  SessionInv'
  BY <1>2, CallInv, GiveUpInv
<1>3. ASSUME NEW c \in Clients, NEW t \in Threads,
             Session!Send(c, t) \/ Session!SendOpen(c, t)
      PROVE  SessionInv'
  BY <1>3, SendInv, SendOpenInv
<1>4. ASSUME NEW t \in Threads, Session!Serve(t) PROVE SessionInv'
  <2>1. CASE Session!OpenLoad(t) \/ Session!OpenRegisters(t) \/ Session!OpenSave(t)
    BY <2>1, OpenLoadInv, RegisterInv, OpenSaveInv
  <2>2. CASE Session!AuthenticateFails(t) \/ Session!ParseFails(t)
    BY <2>2, RefuseInv
  <2>3. CASE Session!Authenticate(t) \/ Session!ParseEncryptedBody(t)
    BY <2>3, AuthenticateInv, ParseInv
  <2>4. CASE Session!HandleSessionHeartbeat(t)
    BY <2>4, HeartbeatInv
  <2>5. CASE Session!ResponseLoad(t) \/ Session!ResponseSave(t)
    BY <2>5, ResponseLoadInv, ResponseSaveInv
  <2> QED BY <1>4, <2>1, <2>2, <2>3, <2>4, <2>5 DEF Session!Serve
<1>5. ASSUME NEW cmd \in Commands, Session!CommandLoad(cmd) PROVE SessionInv'
  BY <1>5, CommandLoadInv
<1>6. CASE Session!CommandSave
  BY <1>6, CommandSaveInv
<1>7. CASE Session!SessionExpires
  BY <1>7, ExpiryInv
<1> QED BY <1>1, <1>2, <1>3, <1>4, <1>5, <1>6, <1>7 DEF Session!Next

\* The session starts without clients.
LEMMA SessionStarts ==
  ASSUME Session!Init, SessionSound
  PROVE  SessionInv
<1>1. /\ token = 0 /\ host = Session!NoHost /\ fresh
      /\ client = [c \in Clients |-> Session!NoClient]
      /\ thread = [t \in Threads |-> Session!NoThread]
      /\ operator = Session!NoCommand
  BY DEF Session!Init
<1>2. /\ Session!NoHost \in Rows(token) /\ Session!NoThread \in Messages(token)
      /\ Session!NoClient \in Backends(token)
      /\ Session!NoThread.at = "free" /\ Session!NoClient.at = "idle"
      /\ Session!NoClient.token = 0
  BY <1>1, StartValues DEF SessionSound
<1>3. operator.cmd = "none" /\ operator.copy = Session!NoHost
  BY <1>1 DEF Session!NoCommand
<1>4. SessionType
  BY <1>1, <1>2, <1>3 DEF SessionType, SessionSound
<1>5. FreshInv
  BY <1>1, <1>2, <1>3 DEF FreshInv, ClientInv, SendingStages, WaitingStages
<1> QED BY <1>4, <1>5 DEF SessionInv

\* The invariant of the session holds in every behaviour.
LEMMA SessionInvariance ==
  ASSUME SessionSound
  PROVE  Session!Spec => []SessionInv
<1>1. Session!Init => SessionInv
  BY SessionStarts
<1>2. SessionInv /\ [Session!Next]_(Session!vars) => SessionInv'
  BY SessionNext
<1> QED BY <1>1, <1>2, PTL DEF Session!Spec

\* Every row of registered_hosts, copy of it, client and request keeps its type,
\* with any operator commands and timeouts: no row or client names a session
\* HandleSessionOpen did not open, and RetryOnRecoverableSessionError never
\* counts more than its attempts.
THEOREM SessionTypeCorrect ==
  ASSUME SessionSound
  PROVE  Session!Spec => []Session!TypeOK
<1>1. ASSUME SessionInv PROVE Session!TypeOK
  <2>1. /\ host \in Rows(token) /\ token \in 0..MaxTokens
        /\ \A c \in Clients : client[c] \in Backends(token)
        /\ \A t \in Threads : thread[t] \in Messages(token)
    BY <1>1 DEF SessionInv, SessionType
  <2>2. \A t \in Threads : thread[t].copy \in Rows(token)
    BY <2>1 DEF Messages
  <2> QED BY <2>1, <2>2 DEF Session!TypeOK, Rows, Backends, Numbers
<1> QED BY <1>1, SessionInvariance, PTL

\* Clients that wait for their answers and are left alone by the operator never
\* get a response with a sequence number they have had, although all processes
\* of a node share one row, take the session from each other, and every handler
\* (HandleSessionOpen, ParseEncryptedBody, HandleSessionHeartbeat,
\* EncryptedResponse) writes back the whole row it loaded earlier.
THEOREM ResponsesStayFresh ==
  ASSUME SessionSound
  PROVE  Session!Spec => []Session!ResponsesAreFresh
<1>1. ASSUME SessionInv PROVE Session!ResponsesAreFresh
  BY <1>1 DEF SessionInv, FreshInv, Quiet, Session!ResponsesAreFresh
<1> QED BY <1>1, SessionInvariance, PTL

-----------------------------------------------------------------------------
(* Stored conversations.                                                    *)

CONSTANTS MaxRequests, MaxAges, MaxDeletes, MaxDeaths

VARIABLES session, messages, archive, file, turnsSaved, exposed, asked, ages, deletes, deaths

Chat == INSTANCE Conversation WITH row <- session, saved <- turnsSaved, requests <- asked

Turns == 1..MaxRequests

SessionRows == [state : {"none", "active", "archived"}, version : Nat, old : BOOLEAN, path : BOOLEAN]

Files == [kind : {"none", "torn", "whole"}, turns : SUBSET Turns, version : Nat]

Places == {"idle", "sweep", "prepare", "restoreRead", "restoreRow", "restoreMessages",
           "restoreRecord", "reload", "answer", "persist", "persistMessages", "update",
           "replace", "archiveRead", "archiveFile", "archiveRow", "archiveClear",
           "archiveRecord", "deleteRows", "deleteFile"}

Work == [at : Places, turn : 0..MaxRequests, row : SessionRows, turns : SUBSET Turns,
         then : {"idle", "prepare"}]

Sweeping == {"archiveRead", "archiveFile", "archiveRow", "archiveClear", "archiveRecord"}

\* Steps of a request that has a turn to store.
Asking == {"prepare", "restoreRead", "restoreRow", "restoreMessages", "restoreRecord",
           "reload", "answer", "persist", "persistMessages", "update", "replace"}

\* The types.  A session that is not there has nothing that belongs to it.
ChatTyped ==
  /\ session \in SessionRows /\ archive \in Files /\ file \in Files
  /\ messages \in SUBSET Turns /\ turnsSaved \in SUBSET Turns
  /\ thread \in [Threads -> Work] /\ exposed \in BOOLEAN
  /\ asked \in 0..MaxRequests
  /\ session.state = "none" => session = Chat!NoRow
  /\ session # Chat!NoRow => session.version >= 1
  /\ archive # Chat!NoFile => archive.kind = "whole"
  /\ session = Chat!NoRow => messages = {} /\ archive = Chat!NoFile /\ turnsSaved = {}

Restoring == {"restoreRead", "restoreRow", "restoreMessages", "restoreRecord", "reload"}

\* A thread that stores a turn has one; the first one finds no session to restore.
TurnsInv ==
  \A t \in Threads : /\ thread[t].at \in Asking => thread[t].turn # 0
                     /\ thread[t].at \in Restoring => thread[t].turn # 1
                     /\ thread[t].then = "prepare" => thread[t].turn # 0

\* The first request is alone until it has made the session.
FirstInv ==
  /\ asked = 0 => session = Chat!NoRow /\ \A t \in Threads : thread[t] = Chat!Idle
  /\ \A t \in Threads : thread[t].turn = 1 /\ thread[t].at # "replace" =>
       session = Chat!NoRow /\ \A u \in Threads \ {t} : thread[u] = Chat!Idle

\* One thread sweeps, and until it has written the row the session is not archived.
SweepInv ==
  /\ \A t, u \in Threads : thread[t].at \in Sweeping /\ thread[u].at \in Sweeping => t = u
  /\ \A t \in Threads : thread[t].at \in {"archiveRead", "archiveFile", "archiveRow"} =>
       session.state # "archived"

\* A thread has written the row, and the messages or the record are to follow.
Busy(x) == x.at \in {"replace", "restoreMessages", "restoreRecord", "archiveClear",
                     "archiveRecord"}

\* A thread has loaded the row for a versioned update, and then the messages.
Loading(x) == x.at \in {"persistMessages", "archiveRead"}
Loaded(x) == x.at \in {"update", "archiveFile", "archiveRow"}

\* The row is the one that was loaded.
Current(x) ==
  (Loading(x) \/ Loaded(x)) /\ session # Chat!NoRow /\ session.version = x.row.version

\* The archive that was read is the one of the session as it is.
Restorable(x) ==
  x.at = "restoreRow" /\ session.state = "archived" /\ session.version = x.row.version + 1

NobodyIsBusy == \A t \in Threads : ~Busy(thread[t])

\* What a thread has loaded is not newer than the row.
VersionInv(x) ==
  session # Chat!NoRow =>
    /\ Loading(x) \/ Loaded(x) => x.row.version <= session.version
    /\ x.at = "restoreRow" => x.row.version < session.version

\* What is loaded under the version of the row is what is stored.
LoadedInv(x) ==
  /\ Current(x) => session.state = "active"
  /\ Current(x) /\ Loaded(x) => x.turns = messages /\ turnsSaved \subseteq messages /\ NobodyIsBusy
  /\ Current(x) /\ x.at = "archiveRow" => file = Chat!File("whole", x.turns, x.row.version)
  /\ Restorable(x) => archive = Chat!File("whole", x.turns, x.row.version) /\ NobodyIsBusy

\* A thread between its writes has all stored turns, and the row stays as it wrote it
\* unless the session is deleted.
BusyInv(x) ==
  Busy(x) /\ session # Chat!NoRow =>
    /\ session.version = x.row.version + 1 /\ turnsSaved \subseteq x.turns
    /\ x.at \in {"replace", "restoreMessages", "restoreRecord"} => session.state = "active"
    /\ x.at \in {"archiveClear", "archiveRecord"} =>
         /\ session.state = "archived" /\ archive.version < x.row.version
         /\ file = Chat!File("whole", x.turns, x.row.version)

\* A waiting request has a session that is not archived; a file is deleted after its session.
OtherInv(x) ==
  /\ x.at \in {"reload", "answer", "persist"} => session.state # "archived"
  /\ x.at = "deleteFile" => session = Chat!NoRow

\* The stored turns are in the messages or in the archive, unless a thread that is
\* between its writes has them.
KeptInv ==
  /\ session.state = "active" /\ (\A t \in Threads : thread[t].at # "restoreMessages") =>
       turnsSaved \subseteq messages
  /\ session.state = "archived" /\ (\A t \in Threads : ~Busy(thread[t])) =>
       /\ file = archive /\ archive # Chat!NoFile /\ archive.version + 1 = session.version
       /\ turnsSaved \subseteq archive.turns
  /\ session # Chat!NoRow => archive.version < session.version

GuardedInv ==
  /\ KeptInv
  /\ \A t, u \in Threads : Busy(thread[t]) /\ Busy(thread[u]) => t = u
  /\ \A t \in Threads : /\ VersionInv(thread[t]) /\ LoadedInv(thread[t])
                        /\ BusyInv(thread[t]) /\ OtherInv(thread[t])

ChatInv == ChatTyped /\ TurnsInv /\ FirstInv /\ SweepInv /\ (~exposed => GuardedInv)

\* The constants: the bound on turns is a number.
ChatSound == MaxRequests \in Nat

\* What a step of thread t that leaves the tables alone preserves.
LEMMA ThreadStep ==
  ASSUME ChatTyped, GuardedInv, NEW t \in Threads, NEW y \in Work,
         thread' = [thread EXCEPT ![t] = y],
         UNCHANGED <<session, messages, archive, file, turnsSaved>>,
         ~Busy(y), ~Busy(thread[t]) \/ session = Chat!NoRow,
         VersionInv(y), LoadedInv(y), OtherInv(y)
  PROVE  GuardedInv'
<1>1. /\ thread'[t] = y /\ DOMAIN thread = Threads
      /\ \A u \in Threads : u # t => thread'[u] = thread[u]
  BY DEF ChatTyped
<1>2. \A u \in Threads : Busy(thread'[u]) => u # t /\ Busy(thread[u])
  BY <1>1
<1>3. NobodyIsBusy => NobodyIsBusy'
  BY <1>2 DEF NobodyIsBusy, Busy
<1>4. KeptInv'
  <2>1. CASE session = Chat!NoRow
    BY <2>1 DEF KeptInv, Chat!NoRow
  <2>2. CASE ~Busy(thread[t])
    <3>1. \A u \in Threads : Busy(thread[u]) => Busy(thread'[u])
      BY <1>1, <2>2
    <3>2. \A u \in Threads : thread[u].at = "restoreMessages" => thread'[u].at = "restoreMessages"
      BY <1>1, <2>2 DEF Busy
    <3> QED BY <3>1, <3>2 DEF GuardedInv, KeptInv, Busy
  <2> QED BY <2>1, <2>2
<1>5. \A a, b \in Threads : Busy(thread'[a]) /\ Busy(thread'[b]) => a = b
  BY <1>2 DEF GuardedInv
<1>6. ASSUME NEW u \in Threads
      PROVE (VersionInv(thread[u]) /\ LoadedInv(thread[u]) /\ BusyInv(thread[u])
             /\ OtherInv(thread[u]))'
  <2>1. CASE u = t
    <3>1. VersionInv(y)' /\ OtherInv(y)' /\ BusyInv(y)' /\ LoadedInv(y)'
      BY <1>3 DEF VersionInv, OtherInv, BusyInv, LoadedInv, Current, Restorable, Busy, Loading, Loaded
    <3> QED BY <3>1, <2>1, <1>1
       DEF VersionInv, OtherInv, BusyInv, LoadedInv, Current, Restorable, Busy, Loading, Loaded
  <2>2. CASE u # t
    <3>1. thread'[u] = thread[u]
      BY <1>1, <2>2
    <3>2. VersionInv(thread[u]) /\ LoadedInv(thread[u]) /\ BusyInv(thread[u]) /\ OtherInv(thread[u])
      BY DEF GuardedInv
    <3> QED BY <3>1, <3>2, <1>3
       DEF VersionInv, OtherInv, BusyInv, LoadedInv, Current, Restorable, Busy, Loading, Loaded
  <2> QED BY <2>1, <2>2
<1> QED BY <1>4, <1>5, <1>6 DEF GuardedInv, Busy

\* Thread t goes on as y.
Flows(t, y) ==
  /\ thread[t] # Chat!Idle /\ asked' = asked
  /\ y.at \in Asking \/ y.then = "prepare" => y.turn # 0
  /\ y.at \in Restoring => y.turn # 1
  /\ y.turn = 1 /\ y.at # "replace" =>
       thread[t].turn = 1 /\ thread[t].at # "replace" /\ session' = session
  /\ y.at \in Sweeping => \A u \in Threads \ {t} : thread[u].at \notin Sweeping
  /\ y.at \in {"archiveRead", "archiveFile", "archiveRow"} => session'.state # "archived"
  /\ session'.state = "archived" => session.state = "archived" \/ thread[t].at \in Sweeping

\* What a step of thread t preserves of the turns, of the first request and of the sweeps.
LEMMA FlowStep ==
  ASSUME ChatTyped, TurnsInv, FirstInv, SweepInv, NEW t \in Threads, NEW y \in Work,
         thread' = [thread EXCEPT ![t] = y], Flows(t, y)
  PROVE  TurnsInv' /\ FirstInv' /\ SweepInv'
<1>1. /\ thread'[t] = y /\ DOMAIN thread = Threads
      /\ \A u \in Threads : u # t => thread'[u] = thread[u]
  BY DEF ChatTyped
<1>2. TurnsInv'
  BY <1>1 DEF TurnsInv, Flows
<1>3. asked' # 0
  BY DEF FirstInv, Flows
<1>4. \A u \in Threads : u # t => ~(thread[u].turn = 1 /\ thread[u].at # "replace")
  BY DEF FirstInv, Flows
<1>5. ASSUME y.turn = 1, y.at # "replace"
      PROVE session' = Chat!NoRow /\ \A u \in Threads \ {t} : thread'[u] = Chat!Idle
  BY <1>1, <1>5 DEF FirstInv, Flows
<1>6. FirstInv'
  <2>1. ASSUME NEW u \in Threads, thread'[u].turn = 1, thread'[u].at # "replace"
        PROVE session' = Chat!NoRow /\ \A v \in Threads \ {u} : thread'[v] = Chat!Idle
    <3>1. u = t
      BY <1>1, <1>4, <2>1
    <3> QED BY <3>1, <2>1, <1>1, <1>5
  <2> QED BY <2>1, <1>3 DEF FirstInv, Chat!NoRow, Chat!Idle
<1>7. SweepInv'
  <2>1. \A u, v \in Threads : thread'[u].at \in Sweeping /\ thread'[v].at \in Sweeping => u = v
    BY <1>1 DEF Flows, SweepInv
  <2>2. ASSUME NEW u \in Threads, thread'[u].at \in {"archiveRead", "archiveFile", "archiveRow"}
        PROVE session'.state # "archived"
    BY <2>2, <1>1 DEF SweepInv, Sweeping, Flows
  <2> QED BY <2>1, <2>2 DEF SweepInv
<1> QED BY <1>2, <1>6, <1>7

\* Goto and End as steps of one thread.
LEMMA Moves ==
  ASSUME ChatSound, ChatTyped, NEW t \in Threads
  PROVE  /\ thread[t] \in Work /\ Chat!Idle \in Work
         /\ \A p \in Places : [thread[t] EXCEPT !.at = p] \in Work
         /\ \A p : Chat!Goto(t, p) => thread' = [thread EXCEPT ![t] = [thread[t] EXCEPT !.at = p]]
         /\ Chat!End(t) => thread' = [thread EXCEPT ![t] = Chat!Idle]
<1>1. thread[t] \in Work
  BY DEF ChatTyped
<1>2. Chat!Idle \in Work
  BY DEF ChatSound, Chat!Idle, Chat!NoRow, Work, SessionRows, Places, Turns
<1>3. \A p \in Places : [thread[t] EXCEPT !.at = p] \in Work
  BY <1>1 DEF Work
<1>4. \A p : Chat!Goto(t, p) => thread' = [thread EXCEPT ![t] = [thread[t] EXCEPT !.at = p]]
  BY DEF Chat!Goto
<1>5. Chat!End(t) => thread' = [thread EXCEPT ![t] = Chat!Idle]
  BY DEF Chat!End
<1> HIDE DEF Places
<1> QED BY <1>1, <1>2, <1>3, <1>4, <1>5

\* What a thread has after a Goto.
LEMMA GoesTo ==
  ASSUME ChatSound, ChatTyped, NEW t \in Threads, NEW p \in Places, Chat!Goto(t, p)
  PROVE  LET y == [thread[t] EXCEPT !.at = p]
         IN  /\ y \in Work /\ y.at = p /\ y.row = thread[t].row /\ y.turns = thread[t].turns
             /\ y.turn = thread[t].turn /\ y.then = thread[t].then
             /\ thread' = [thread EXCEPT ![t] = y]
<1>1. thread[t] \in Work
  BY DEF ChatTyped
<1> QED BY <1>1 DEF Work, Chat!Goto

\* The types after a step of thread t that leaves the tables alone.
LEMMA TypedStep ==
  ASSUME ChatTyped, NEW t \in Threads, NEW y \in Work, thread' = [thread EXCEPT ![t] = y],
         UNCHANGED <<session, messages, archive, file, turnsSaved>>,
         exposed' \in BOOLEAN, asked' \in 0..MaxRequests
  PROVE  ChatTyped'
BY DEF ChatTyped

\* A thread that ends leaves no trace where it is not between its writes.
LEMMA EndStep ==
  ASSUME ChatSound, ChatInv, NEW t \in Threads, Chat!End(t), thread[t] # Chat!Idle,
         UNCHANGED <<session, messages, archive, file, turnsSaved, asked>>,
         exposed' \in BOOLEAN, exposed => exposed',
         ~Busy(thread[t]) \/ session = Chat!NoRow
  PROVE  ChatInv'
<1> DEFINE y == Chat!Idle
<1>1. y \in Work /\ thread' = [thread EXCEPT ![t] = y]
  BY Moves DEF ChatInv
<1>2. y.at = "idle" /\ y.then = "idle" /\ y.turn = 0
  BY DEF Chat!Idle
<1>3. ChatTyped'
  <2>1. asked \in 0..MaxRequests
    BY DEF ChatInv, ChatTyped
  <2> HIDE DEF y
  <2> QED BY <1>1, <2>1, TypedStep DEF ChatInv
<1>4. TurnsInv' /\ FirstInv' /\ SweepInv'
  <2>1. Flows(t, y)
    BY <1>2 DEF Flows, Asking, Restoring, Sweeping
  <2> HIDE DEF y
  <2> QED BY <1>1, <2>1, FlowStep DEF ChatInv
<1>5. ASSUME ~exposed' PROVE GuardedInv'
  <2>1. ~Busy(y) /\ VersionInv(y) /\ LoadedInv(y) /\ OtherInv(y)
    BY <1>2 DEF Busy, VersionInv, LoadedInv, OtherInv, Current, Restorable, Loading, Loaded
  <2> HIDE DEF y
  <2> QED BY <1>1, <1>5, <2>1, ThreadStep DEF ChatInv
<1> QED BY <1>3, <1>4, <1>5 DEF ChatInv

\* A thread goes on to a step that has loaded nothing.
LEMMA GoStep ==
  ASSUME ChatSound, ChatInv, NEW t \in Threads, thread[t] # Chat!Idle,
         NEW p \in {"prepare", "restoreRead", "answer", "persist"}, Chat!Goto(t, p),
         UNCHANGED <<session, messages, archive, file, turnsSaved, exposed, asked>>,
         thread[t].turn # 0, thread[t].at # "replace", ~Busy(thread[t]),
         p = "restoreRead" => thread[t].turn # 1,
         ~exposed /\ p \in {"answer", "persist"} => session.state # "archived"
  PROVE  ChatInv'
<1> DEFINE y == [thread[t] EXCEPT !.at = p]
<1>1. y \in Work /\ thread' = [thread EXCEPT ![t] = y]
  BY Moves DEF ChatInv, Places
<1>2. y.at = p /\ y.then = thread[t].then /\ y.turn = thread[t].turn
  BY Moves DEF ChatInv, Work
<1>3. ChatTyped'
  <2>1. asked' \in 0..MaxRequests /\ exposed' \in BOOLEAN
    BY DEF ChatInv, ChatTyped
  <2> HIDE DEF y
  <2> QED BY <1>1, <2>1, TypedStep DEF ChatInv
<1>4. TurnsInv' /\ FirstInv' /\ SweepInv'
  <2>1. Flows(t, y)
    BY <1>2 DEF Flows, Asking, Restoring, Sweeping
  <2> HIDE DEF y
  <2> QED BY <1>1, <2>1, FlowStep DEF ChatInv
<1>5. ASSUME ~exposed' PROVE GuardedInv'
  <2>1. ~Busy(y) /\ VersionInv(y) /\ LoadedInv(y) /\ OtherInv(y)
    BY <1>2, <1>5 DEF Busy, VersionInv, LoadedInv, OtherInv, Current, Restorable, Loading, Loaded
  <2> HIDE DEF y
  <2> QED BY <1>1, <1>5, <2>1, ThreadStep DEF ChatInv
<1> QED BY <1>3, <1>4, <1>5 DEF ChatInv

\* A thread can start as y.
Starts(y) ==
  /\ y.at \in {"sweep", "deleteRows"} /\ asked' \in 1..MaxRequests
  /\ y.then = "prepare" => y.turn # 0
  /\ \/ session # Chat!NoRow /\ y.turn # 1
     \/ session = Chat!NoRow /\ \A u \in Threads : thread[u] = Chat!Idle

\* A thread that was idle starts.
LEMMA StartStep ==
  ASSUME ChatSound, ChatInv, NEW t \in Threads, thread[t] = Chat!Idle, NEW y \in Work,
         thread' = [thread EXCEPT ![t] = y], Starts(y),
         UNCHANGED <<session, messages, archive, file, turnsSaved, exposed>>
  PROVE  ChatInv'
<1>1. /\ thread'[t] = y /\ DOMAIN thread = Threads
      /\ \A u \in Threads : u # t => thread'[u] = thread[u]
  BY DEF ChatInv, ChatTyped
<1>2. ChatTyped'
  <2>1. asked' \in 0..MaxRequests /\ exposed' \in BOOLEAN
    BY DEF ChatInv, ChatTyped, ChatSound, Starts
  <2> QED BY <2>1, TypedStep DEF ChatInv
<1>3. TurnsInv'
  BY <1>1 DEF ChatInv, TurnsInv, Asking, Restoring, Starts
<1>4. FirstInv'
  <2>1. asked' # 0
    BY DEF ChatSound, Starts
  <2>2. ASSUME NEW u \in Threads, thread'[u].turn = 1, thread'[u].at # "replace"
        PROVE session' = Chat!NoRow /\ \A v \in Threads \ {u} : thread'[v] = Chat!Idle
    <3>1. CASE session # Chat!NoRow /\ y.turn # 1
      BY <3>1, <2>2, <1>1 DEF ChatInv, FirstInv
    <3>2. CASE session = Chat!NoRow /\ \A v \in Threads : thread[v] = Chat!Idle
      <4>1. Chat!Idle.turn # 1
        BY DEF Chat!Idle
      <4>2. u = t
        BY <4>1, <3>2, <2>2, <1>1
      <4> QED BY <4>2, <3>2, <1>1
    <3> QED BY <3>1, <3>2 DEF Starts
  <2> QED BY <2>1, <2>2 DEF FirstInv, Chat!NoRow, Chat!Idle
<1>5. SweepInv'
  <2>1. y.at \notin Sweeping /\ y.at \notin {"archiveRead", "archiveFile", "archiveRow"}
    BY DEF Sweeping, Starts
  <2> QED BY <2>1, <1>1 DEF ChatInv, SweepInv
<1>6. ASSUME ~exposed' PROVE GuardedInv'
  <2>1. ~Busy(y) /\ VersionInv(y) /\ LoadedInv(y) /\ OtherInv(y)
    BY DEF Starts, Busy, VersionInv, LoadedInv, OtherInv, Current, Restorable, Loading, Loaded
  <2>2. ~Busy(thread[t])
    BY DEF Busy, Chat!Idle
  <2> QED BY <1>6, <2>1, <2>2, ThreadStep DEF ChatInv
<1> QED BY <1>2, <1>3, <1>4, <1>5, <1>6 DEF ChatInv

LEMMA BeginStep ==
  ASSUME ChatSound, ChatInv, NEW t \in Threads,
         Chat!Begin(t) \/ Chat!OtherRequest(t) \/ Chat!Delete(t)
  PROVE  ChatInv'
<1>1. Chat!Idle \in Work /\ thread[t] \in Work
  BY Moves DEF ChatInv
<1>2. CASE Chat!Begin(t)
  <2> DEFINE y == [Chat!Idle EXCEPT !.at = "sweep", !.then = "prepare", !.turn = asked + 1]
  <2>1. asked + 1 \in 1..MaxRequests /\ asked + 1 \in 0..MaxRequests /\ asked + 1 # 0 /\ asked' = asked + 1
    BY <1>2 DEF Chat!Begin, ChatInv, ChatTyped, ChatSound
  <2>2. y \in Work /\ y.at = "sweep" /\ y.then = "prepare" /\ y.turn = asked + 1
    BY <2>1, <1>1 DEF Work, Places, ChatSound
  <2>3. thread' = [thread EXCEPT ![t] = y] /\ thread[t] = Chat!Idle
    BY <1>2 DEF Chat!Begin
  <2>4. \/ session # Chat!NoRow /\ asked + 1 # 1
        \/ session = Chat!NoRow /\ \A u \in Threads : thread[u] = Chat!Idle
    <3>1. asked = 0 => session = Chat!NoRow /\ \A u \in Threads : thread[u] = Chat!Idle
      BY DEF ChatInv, FirstInv
    <3>2. asked = 0 \/ session # Chat!NoRow
      BY <1>2 DEF Chat!Begin
    <3>3. asked # 0 => asked + 1 # 1
      BY DEF ChatInv, ChatTyped, ChatSound
    <3> QED BY <3>1, <3>2, <3>3
  <2>5. UNCHANGED <<session, messages, archive, file, turnsSaved, exposed>>
    BY <1>2 DEF Chat!Begin
  <2>6. Starts(y)
    BY <2>1, <2>2, <2>3, <2>4, <2>5 DEF Starts
  <2> HIDE DEF y
  <2> QED BY <2>1, <2>2, <2>3, <2>4, <2>5, <2>6, StartStep
<1>3. asked # 0 \/ session = Chat!NoRow
  BY DEF ChatInv, FirstInv
<1>4. CASE Chat!OtherRequest(t)
  <2> DEFINE y == [Chat!Idle EXCEPT !.at = "sweep"]
  <2>1. y \in Work /\ y.at = "sweep" /\ y.then = "idle" /\ y.turn = 0
    BY <1>1 DEF Work, Places, Chat!Idle
  <2>2. thread' = [thread EXCEPT ![t] = y] /\ thread[t] = Chat!Idle
    BY <1>4 DEF Chat!OtherRequest
  <2>3. session # Chat!NoRow
    BY <1>4 DEF Chat!OtherRequest, Chat!NoRow
  <2>4. UNCHANGED <<session, messages, archive, file, turnsSaved, exposed>> /\ asked' = asked
    BY <1>4 DEF Chat!OtherRequest, Chat!bounds
  <2>5. asked' \in 1..MaxRequests
    BY <1>3, <2>3, <2>4 DEF ChatInv, ChatTyped, ChatSound
  <2>6. Starts(y)
    BY <2>1, <2>2, <2>3, <2>4, <2>5 DEF Starts
  <2> HIDE DEF y
  <2> QED BY <2>1, <2>2, <2>3, <2>4, <2>5, <2>6, StartStep
<1>5. CASE Chat!Delete(t)
  <2> DEFINE y == [Chat!Idle EXCEPT !.at = "deleteRows", !.row.path = session.path \/ archive # Chat!NoFile]
  <2>1. y \in Work /\ y.at = "deleteRows" /\ y.then = "idle" /\ y.turn = 0
    BY <1>1 DEF Work, SessionRows, Places, Chat!Idle, Chat!NoRow
  <2>2. thread[t] = Chat!Idle /\ session # Chat!NoRow
    BY <1>5 DEF Chat!Delete
  <2>3. thread' = [thread EXCEPT ![t] = y]
    BY <1>5, <2>2 DEF Chat!Delete
  <2>4. UNCHANGED <<session, messages, archive, file, turnsSaved, exposed>> /\ asked' = asked
    BY <1>5 DEF Chat!Delete
  <2>5. asked' \in 1..MaxRequests
    BY <1>3, <2>2, <2>4 DEF ChatInv, ChatTyped, ChatSound
  <2>6. Starts(y)
    BY <2>1, <2>2, <2>3, <2>4, <2>5 DEF Starts
  <2> HIDE DEF y
  <2> QED BY <2>1, <2>2, <2>3, <2>4, <2>5, <2>6, StartStep
<1> QED BY <1>2, <1>4, <1>5

\* Thread t may hold what y holds.
HoldsTurn(t, y) ==
  ~Busy(y) /\ ~Busy(thread[t]) /\ VersionInv(y) /\ LoadedInv(y) /\ OtherInv(y)

\* A thread loads, and the tables stay.
LEMMA LoadStep ==
  ASSUME ChatSound, ChatInv, NEW t \in Threads, NEW y \in Work,
         thread' = [thread EXCEPT ![t] = y], Flows(t, y),
         UNCHANGED <<session, messages, archive, file, turnsSaved>>,
         exposed' \in BOOLEAN, exposed => exposed', ~exposed' => HoldsTurn(t, y)
  PROVE  ChatInv'
<1>1. ChatTyped'
  <2>1. asked' \in 0..MaxRequests
    BY DEF ChatInv, ChatTyped, Flows
  <2> QED BY <2>1, TypedStep DEF ChatInv
<1>2. TurnsInv' /\ FirstInv' /\ SweepInv'
  BY FlowStep DEF ChatInv
<1>3. ASSUME ~exposed' PROVE GuardedInv'
  BY <1>3, ThreadStep DEF ChatInv, HoldsTurn
<1> QED BY <1>1, <1>2, <1>3 DEF ChatInv

LEMMA WaitSteps ==
  ASSUME ChatSound, ChatInv, NEW t \in Threads,
         Chat!Prepare(t) \/ Chat!Reload(t) \/ Chat!Answer(t) \/ Chat!SweepSkips(t)
  PROVE  ChatInv'
<1>1. /\ UNCHANGED <<session, messages, archive, file, turnsSaved, exposed, asked>>
      /\ thread[t].at \in {"prepare", "reload", "answer", "sweep"}
  BY DEF Chat!Prepare, Chat!Reload, Chat!Answer, Chat!SweepSkips, Chat!bounds
<1>2. thread[t] # Chat!Idle /\ ~Busy(thread[t]) /\ thread[t].at # "replace"
  BY <1>1 DEF Chat!Idle, Busy
<1>3. exposed' \in BOOLEAN /\ (exposed => exposed')
  BY <1>1 DEF ChatInv, ChatTyped
<1>4. CASE Chat!End(t)
  BY <1>1, <1>2, <1>3, <1>4, EndStep
<1>5. thread[t].at \in {"prepare", "reload", "answer"} \/ thread[t].then = "prepare" => thread[t].turn # 0
  BY DEF ChatInv, TurnsInv, Asking
<1>6. ~exposed /\ thread[t].at \in {"reload", "answer"} => session.state # "archived"
  BY DEF ChatInv, GuardedInv, OtherInv
<1>7. CASE Chat!Prepare(t)
  <2>1. CASE Chat!Goto(t, "answer") /\ (thread[t].turn = 1 \/ session.state = "active")
    <3>1. session.state # "archived"
      <4>1. thread[t].turn = 1 => session = Chat!NoRow
        BY <1>2 DEF ChatInv, FirstInv
      <4> QED BY <2>1, <4>1 DEF Chat!NoRow
    <3>2. thread[t].turn # 0
      BY <1>5, <1>7 DEF Chat!Prepare
    <3> QED BY <2>1, <3>1, <3>2, <1>1, <1>2, GoStep
  <2>2. CASE Chat!Goto(t, "restoreRead") /\ thread[t].turn # 1
    <3>1. thread[t].turn # 0
      BY <1>5, <1>7 DEF Chat!Prepare
    <3> QED BY <2>2, <3>1, <1>1, <1>2, GoStep
  <2> QED BY <1>4, <1>7, <2>1, <2>2 DEF Chat!Prepare
<1>8. CASE Chat!Reload(t) /\ Chat!Goto(t, "answer")
  <2>1. thread[t].at = "reload"
    BY <1>8 DEF Chat!Reload
  <2> QED BY <1>1, <1>2, <1>5, <1>6, <1>8, <2>1, GoStep
<1>9. CASE Chat!Answer(t) /\ Chat!Goto(t, "persist")
  <2>1. thread[t].at = "answer"
    BY <1>9 DEF Chat!Answer
  <2> QED BY <1>1, <1>2, <1>5, <1>6, <1>9, <2>1, GoStep
<1>10. CASE Chat!SweepSkips(t) /\ thread[t].then # "idle"
  <2>1. thread[t].then = "prepare"
    BY <1>10 DEF ChatInv, ChatTyped, Work
  <2>2. Chat!Goto(t, "prepare")
    BY <1>10, <2>1 DEF Chat!SweepSkips, Chat!Return
  <2> QED BY <1>1, <1>2, <1>5, <2>1, <2>2, GoStep
<1>11. CASE Chat!SweepSkips(t) /\ thread[t].then = "idle"
  BY <1>4, <1>11 DEF Chat!SweepSkips, Chat!Return
<1> QED BY <1>4, <1>7, <1>8, <1>9, <1>10, <1>11 DEF Chat!Reload, Chat!Answer

LEMMA PersistLoadStep ==
  ASSUME ChatSound, ChatInv, NEW t \in Threads, Chat!PersistLoad(t)
  PROVE  ChatInv'
<1> DEFINE y == [thread[t] EXCEPT !.at = "persistMessages", !.row = session]
<1>1. thread[t] \in Work /\ session \in SessionRows /\ thread[t].at = "persist"
  BY DEF ChatInv, ChatTyped, Chat!PersistLoad
<1>2. /\ y \in Work /\ y.at = "persistMessages" /\ y.row = session
      /\ y.turn = thread[t].turn /\ y.then = thread[t].then
  BY <1>1 DEF Work, Places
<1>3. thread' = [thread EXCEPT ![t] = y]
  BY DEF Chat!PersistLoad
<1>4. UNCHANGED <<session, messages, archive, file, turnsSaved, exposed, asked>>
  BY DEF Chat!PersistLoad, Chat!bounds
<1>5. exposed' \in BOOLEAN /\ (exposed => exposed')
  BY <1>4 DEF ChatInv, ChatTyped
<1>6. Flows(t, y)
  BY <1>1, <1>2, <1>4 DEF Flows, Asking, Restoring, Sweeping, Chat!Idle, ChatInv, TurnsInv
<1>7. ASSUME ~exposed' PROVE HoldsTurn(t, y)
  <2>1. session.state # "archived"
    BY <1>1, <1>4, <1>7 DEF ChatInv, GuardedInv, OtherInv
  <2>2. session # Chat!NoRow => session.state = "active"
    BY <2>1 DEF ChatInv, ChatTyped, SessionRows
  <2>3. session.version \in Nat
    BY <1>1 DEF SessionRows
  <2> HIDE DEF y
  <2> QED BY <1>1, <1>2, <2>2, <2>3 DEF HoldsTurn, Busy, VersionInv, LoadedInv, OtherInv, Current, Restorable, Loading, Loaded
<1> HIDE DEF y
<1> QED BY <1>2, <1>3, <1>4, <1>5, <1>6, <1>7, LoadStep

\* Messages that are loaded while no other thread is between its writes.
LEMMA MessagesAreWhole ==
  ASSUME ChatInv, ~exposed, NEW t \in Threads, ~Busy(thread[t]), Loading(thread[t]),
         \A u \in Threads \ {t} : ~Chat!Unguarded(u), Current(thread[t])
  PROVE  session.state = "active" /\ turnsSaved \subseteq messages /\ NobodyIsBusy
<1>1. NobodyIsBusy
  BY DEF NobodyIsBusy, Busy, Chat!Unguarded
<1>2. \A u \in Threads : thread[u].at # "restoreMessages"
  BY <1>1 DEF NobodyIsBusy, Busy
<1>3. session.state = "active"
  BY DEF ChatInv, GuardedInv, LoadedInv
<1> QED BY <1>1, <1>2, <1>3 DEF ChatInv, GuardedInv, KeptInv

LEMMA PersistMessagesStep ==
  ASSUME ChatSound, ChatInv, NEW t \in Threads, Chat!PersistMessages(t)
  PROVE  ChatInv'
<1> DEFINE read == IF thread[t].row = Chat!NoRow THEN {} ELSE messages
           y == [thread[t] EXCEPT !.at = "update", !.turns = read]
<1>1. thread[t] \in Work /\ messages \in SUBSET Turns /\ thread[t].at = "persistMessages"
  BY DEF ChatInv, ChatTyped, Chat!PersistMessages
<1>2. /\ y \in Work /\ y.at = "update" /\ y.row = thread[t].row /\ y.turns = read
      /\ y.turn = thread[t].turn /\ y.then = thread[t].then
  BY <1>1 DEF Work, Places
<1>3. thread' = [thread EXCEPT ![t] = y]
  BY DEF Chat!PersistMessages
<1>4. /\ UNCHANGED <<session, messages, archive, file, turnsSaved, asked>>
      /\ exposed' = (exposed \/ \E u \in Threads \ {t} : Chat!Unguarded(u))
  BY DEF Chat!PersistMessages, Chat!bounds, Chat!Meets
<1>5. exposed' \in BOOLEAN /\ (exposed => exposed')
  BY <1>4
<1>6. Flows(t, y)
  <2> HIDE DEF y
  <2> QED BY <1>1, <1>2, <1>4 DEF Flows, Asking, Restoring, Sweeping, Chat!Idle, ChatInv, TurnsInv
<1>7. ASSUME ~exposed' PROVE HoldsTurn(t, y)
  <2>1. ~exposed /\ (\A u \in Threads \ {t} : ~Chat!Unguarded(u)) /\ ~Busy(thread[t])
        /\ Loading(thread[t])
    BY <1>1, <1>4, <1>7 DEF Busy, Loading
  <2>2. VersionInv(thread[t])
    BY <2>1 DEF ChatInv, GuardedInv
  <2>3. Current(y) => Current(thread[t])
    BY <1>1, <1>2 DEF Current, Loading, Loaded
  <2>4. ASSUME Current(y) PROVE read = messages
    <3>1. session # Chat!NoRow /\ session.version = thread[t].row.version
      BY <2>3, <2>4 DEF Current
    <3>2. session.version # 0
      BY <3>1 DEF ChatInv, ChatTyped
    <3> QED BY <3>1, <3>2 DEF Chat!NoRow
  <2>5. Current(y) => session.state = "active" /\ turnsSaved \subseteq messages /\ NobodyIsBusy
    BY <2>1, <2>3, MessagesAreWhole
  <2>6. VersionInv(y) /\ ~Busy(y) /\ OtherInv(y)
    BY <1>1, <1>2, <2>2 DEF VersionInv, Busy, OtherInv, Loading, Loaded
  <2>7. LoadedInv(y)
    <3> HIDE DEF y, read
    <3> QED BY <1>2, <2>4, <2>5 DEF LoadedInv, Restorable
  <2> QED BY <2>1, <2>6, <2>7 DEF HoldsTurn
<1> HIDE DEF y
<1> QED BY <1>2, <1>3, <1>4, <1>5, <1>6, <1>7, LoadStep

LEMMA ArchiveReadStep ==
  ASSUME ChatSound, ChatInv, NEW t \in Threads, Chat!ArchiveRead(t)
  PROVE  ChatInv'
<1> DEFINE y == [thread[t] EXCEPT !.at = "archiveFile", !.turns = messages]
<1>1. thread[t] \in Work /\ messages \in SUBSET Turns /\ thread[t].at = "archiveRead"
  BY DEF ChatInv, ChatTyped, Chat!ArchiveRead
<1>2. /\ y \in Work /\ y.at = "archiveFile" /\ y.row = thread[t].row /\ y.turns = messages
      /\ y.turn = thread[t].turn /\ y.then = thread[t].then
  BY <1>1 DEF Work, Places
<1>3. thread' = [thread EXCEPT ![t] = y]
  BY DEF Chat!ArchiveRead
<1>4. /\ UNCHANGED <<session, messages, archive, file, turnsSaved, asked>>
      /\ exposed' = (exposed \/ \E u \in Threads \ {t} : Chat!Unguarded(u))
  BY DEF Chat!ArchiveRead, Chat!bounds, Chat!Meets
<1>5. exposed' \in BOOLEAN /\ (exposed => exposed')
  BY <1>4
<1>6. Flows(t, y)
  <2>1. thread[t].at \in Sweeping /\ session.state # "archived"
    BY <1>1 DEF ChatInv, SweepInv, Sweeping
  <2>2. \A u \in Threads \ {t} : thread[u].at \notin Sweeping
    BY <2>1 DEF ChatInv, SweepInv
  <2> HIDE DEF y
  <2> QED BY <1>1, <1>2, <1>4, <2>1, <2>2 DEF Flows, Asking, Restoring, Chat!Idle, ChatInv, TurnsInv
<1>7. ASSUME ~exposed' PROVE HoldsTurn(t, y)
  <2>1. ~exposed /\ (\A u \in Threads \ {t} : ~Chat!Unguarded(u)) /\ ~Busy(thread[t])
        /\ Loading(thread[t])
    BY <1>1, <1>4, <1>7 DEF Busy, Loading
  <2>2. VersionInv(thread[t])
    BY <2>1 DEF ChatInv, GuardedInv
  <2>3. Current(y) => Current(thread[t])
    BY <1>1, <1>2 DEF Current, Loading, Loaded
  <2>4. Current(y) => session.state = "active" /\ turnsSaved \subseteq messages /\ NobodyIsBusy
    BY <2>1, <2>3, MessagesAreWhole
  <2>5. VersionInv(y) /\ ~Busy(y) /\ OtherInv(y)
    BY <1>1, <1>2, <2>2 DEF VersionInv, Busy, OtherInv, Loading, Loaded
  <2>6. LoadedInv(y)
    <3> HIDE DEF y
    <3> QED BY <1>2, <2>4 DEF LoadedInv, Restorable
  <2> QED BY <2>1, <2>5, <2>6 DEF HoldsTurn
<1> HIDE DEF y
<1> QED BY <1>2, <1>3, <1>4, <1>5, <1>6, <1>7, LoadStep

LEMMA SweepStartsStep ==
  ASSUME ChatSound, ChatInv, NEW t \in Threads, Chat!SweepStarts(t)
  PROVE  ChatInv'
<1> DEFINE y == [thread[t] EXCEPT !.at = "archiveRead", !.row = session]
<1>1. /\ thread[t] \in Work /\ session \in SessionRows /\ thread[t].at = "sweep"
      /\ session.state = "active"
  BY DEF ChatInv, ChatTyped, Chat!SweepStarts
<1>2. /\ y \in Work /\ y.at = "archiveRead" /\ y.row = session
      /\ y.turn = thread[t].turn /\ y.then = thread[t].then
  BY <1>1 DEF Work, Places
<1>3. thread' = [thread EXCEPT ![t] = y]
  BY DEF Chat!SweepStarts
<1>4. UNCHANGED <<session, messages, archive, file, turnsSaved, exposed, asked>>
  BY DEF Chat!SweepStarts, Chat!bounds
<1>5. exposed' \in BOOLEAN /\ (exposed => exposed')
  BY <1>4 DEF ChatInv, ChatTyped
<1>6. Flows(t, y)
  <2>1. \A u \in Threads \ {t} : thread[u].at \notin Sweeping
    BY DEF Chat!SweepStarts, Chat!Archiving, Sweeping
  <2> HIDE DEF y
  <2> QED BY <1>1, <1>2, <1>4, <2>1 DEF Flows, Asking, Restoring, Chat!Idle, ChatInv, TurnsInv
<1>7. ASSUME ~exposed' PROVE HoldsTurn(t, y)
  <2>1. session.version \in Nat
    BY <1>1 DEF SessionRows
  <2> HIDE DEF y
  <2> QED BY <1>1, <1>2, <2>1 DEF HoldsTurn, Busy, VersionInv, LoadedInv, OtherInv, Current, Restorable, Loading, Loaded
<1> HIDE DEF y
<1> QED BY <1>2, <1>3, <1>4, <1>5, <1>6, <1>7, LoadStep

LEMMA RestoreReadStep ==
  ASSUME ChatSound, ChatInv, NEW t \in Threads, Chat!RestoreRead(t)
  PROVE  ChatInv'
<1>1. /\ thread[t] \in Work /\ file \in Files /\ archive \in Files
      /\ thread[t].at = "restoreRead"
  BY DEF ChatInv, ChatTyped, Chat!RestoreRead
<1>2. UNCHANGED <<session, messages, archive, file, turnsSaved, exposed, asked>>
  BY DEF Chat!RestoreRead, Chat!bounds
<1>3. exposed' \in BOOLEAN /\ (exposed => exposed')
  BY <1>2 DEF ChatInv, ChatTyped
<1>4. CASE Chat!End(t)
  <2>1. thread[t] # Chat!Idle /\ ~Busy(thread[t])
    BY <1>1 DEF Chat!Idle, Busy
  <2> QED BY <1>2, <1>3, <1>4, <2>1, EndStep
<1>5. CASE archive # Chat!NoFile /\ file = archive
  <2> DEFINE y == [thread[t] EXCEPT !.at = "restoreRow", !.turns = file.turns,
                                    !.row.version = file.version]
  <2>1. thread[t].row \in SessionRows /\ file.turns \in SUBSET Turns /\ file.version \in Nat
    BY <1>1 DEF Work, Files
  <2>2. /\ y \in Work /\ y.at = "restoreRow" /\ y.row.version = file.version
        /\ y.turns = file.turns /\ y.turn = thread[t].turn /\ y.then = thread[t].then
    BY <1>1, <2>1 DEF Work, Places, SessionRows
  <2>3. thread' = [thread EXCEPT ![t] = y]
    BY <1>5 DEF Chat!RestoreRead
  <2>4. Flows(t, y)
    <3> HIDE DEF y
    <3> QED BY <1>1, <1>2, <2>2 DEF Flows, Asking, Restoring, Sweeping, Chat!Idle, ChatInv, TurnsInv
  <2>5. ASSUME ~exposed' PROVE HoldsTurn(t, y)
    <3>1. GuardedInv
      BY <1>2, <2>5 DEF ChatInv
    <3>2. session # Chat!NoRow => y.row.version < session.version
      BY <2>2, <1>5, <3>1 DEF GuardedInv, KeptInv
    <3>3. archive = Chat!File("whole", y.turns, y.row.version)
      <4>1. archive.kind = "whole"
        BY <1>5 DEF ChatInv, ChatTyped
      <4> HIDE DEF y
      <4> QED BY <4>1, <1>1, <1>5, <2>2 DEF Files, Chat!File
    <3>4. ASSUME Restorable(y), NEW u \in Threads, Busy(thread[u]) PROVE FALSE
      <4>1. BusyInv(thread[u]) /\ thread[u] \in Work /\ session \in SessionRows
        BY <3>1 DEF GuardedInv, ChatInv, ChatTyped
      <4>2. session.state = "archived" /\ session.version = archive.version + 1
        BY <3>4, <2>2, <1>5 DEF Restorable
      <4>3. session # Chat!NoRow
        BY <4>2 DEF Chat!NoRow
      <4>4. thread[u].at \in {"archiveClear", "archiveRecord"}
        BY <4>1, <4>2, <4>3, <3>4 DEF BusyInv, Busy
      <4>5. archive.version < thread[u].row.version /\ session.version = thread[u].row.version + 1
        BY <4>1, <4>3, <4>4, <3>4 DEF BusyInv
      <4>6. thread[u].row.version \in Nat /\ archive.version \in Nat
        BY <4>1, <1>1 DEF Work, SessionRows, Files
      <4> QED BY <4>2, <4>5, <4>6
    <3>5. Restorable(y) => NobodyIsBusy
      BY <3>4 DEF NobodyIsBusy
    <3> HIDE DEF y
    <3> QED BY <1>1, <2>2, <3>2, <3>3, <3>5 DEF HoldsTurn, Busy, VersionInv, LoadedInv, OtherInv, Current, Loading, Loaded
  <2> HIDE DEF y
  <2> QED BY <1>2, <1>3, <2>2, <2>3, <2>4, <2>5, LoadStep
<1> QED BY <1>4, <1>5 DEF Chat!RestoreRead

\* What holds of one thread.
Own(x) == VersionInv(x) /\ LoadedInv(x) /\ BusyInv(x) /\ OtherInv(x)

\* Thread t goes on as y, and all else is as it was.
LEMMA OneMoves ==
  ASSUME ChatTyped, NEW t \in Threads, NEW y, thread' = [thread EXCEPT ![t] = y]
  PROVE  thread'[t] = y /\ \A u \in Threads : u # t => thread'[u] = thread[u]
BY DEF ChatTyped

\* The parts of the guarded invariant.
LEMMA GuardedParts ==
  ASSUME GuardedInv
  PROVE  /\ KeptInv /\ \A t \in Threads : Own(thread[t])
         /\ \A t, u \in Threads : Busy(thread[t]) /\ Busy(thread[u]) => t = u
BY DEF GuardedInv, Own

\* While thread t is between its writes, no other one is, and what others have loaded
\* in full is not the row of now.
LEMMA BusyIsAlone ==
  ASSUME GuardedInv, NEW t \in Threads, Busy(thread[t]), NEW u \in Threads, u # t
  PROVE  /\ ~Busy(thread[u]) /\ ~(Current(thread[u]) /\ Loaded(thread[u]))
         /\ ~Restorable(thread[u])
<1>1. ~Busy(thread[u])
  BY DEF GuardedInv
<1>2. ~NobodyIsBusy
  BY DEF NobodyIsBusy
<1>3. LoadedInv(thread[u])
  BY DEF GuardedInv
<1> QED BY <1>1, <1>2, <1>3 DEF LoadedInv

LEMMA RestoreRowStep ==
  ASSUME ChatSound, ChatInv, NEW t \in Threads, Chat!RestoreRow(t)
  PROVE  ChatInv'
<1> DEFINE x == thread[t]
           y == [x EXCEPT !.at = "restoreMessages"]
<1>1. x \in Work /\ x.at = "restoreRow" /\ x.row.version \in Nat /\ x.turn # 0
  BY DEF ChatInv, ChatTyped, TurnsInv, Asking, Chat!RestoreRow, Work, SessionRows
<1>2. /\ y \in Work /\ y.at = "restoreMessages" /\ y.row = x.row /\ y.turns = x.turns
      /\ y.turn = x.turn /\ y.then = x.then /\ thread' = [thread EXCEPT ![t] = y]
  <2>1. Chat!Goto(t, "restoreMessages") /\ "restoreMessages" \in Places
    BY DEF Chat!RestoreRow, Places
  <2> QED BY <2>1, GoesTo DEF ChatInv
<1>3. /\ session' = [state |-> "active", version |-> x.row.version + 1, old |-> FALSE, path |-> TRUE]
      /\ UNCHANGED <<messages, archive, file, turnsSaved, asked>>
      /\ exposed' = (exposed \/ session.state # "archived" \/ session.version # x.row.version + 1)
  BY DEF Chat!RestoreRow, Chat!bounds
<1>4. /\ session' \in SessionRows /\ session'.version >= 1 /\ session' # Chat!NoRow
      /\ session'.state = "active" /\ session'.version = x.row.version + 1
  BY <1>1, <1>3 DEF SessionRows, Chat!NoRow
<1>5. ChatTyped'
  <2>1. thread' \in [Threads -> Work]
    BY <1>2 DEF ChatInv, ChatTyped
  <2> QED BY <1>3, <1>4, <2>1 DEF ChatInv, ChatTyped
<1>6. TurnsInv' /\ FirstInv' /\ SweepInv'
  <2>1. x.turn # 1
    BY <1>1 DEF ChatInv, TurnsInv, Restoring
  <2>2. Flows(t, y)
    <3> HIDE DEF y
    <3> QED BY <1>1, <1>2, <1>3, <1>4, <2>1 DEF Flows, Asking, Restoring, Sweeping, Chat!Idle
  <2> HIDE DEF y
  <2> QED BY <1>2, <2>2, FlowStep DEF ChatInv
<1>7. ASSUME ~exposed' PROVE GuardedInv'
  <2>1. /\ GuardedInv /\ Restorable(x) /\ session.state = "archived"
        /\ session.version = session'.version /\ session # Chat!NoRow
    <3>1. ~exposed /\ session.state = "archived" /\ session.version = x.row.version + 1
      BY <1>3, <1>7
    <3> QED BY <3>1, <1>1, <1>4 DEF ChatInv, Restorable, Chat!NoRow
  <2>2. archive = Chat!File("whole", x.turns, x.row.version) /\ NobodyIsBusy
    BY <2>1 DEF GuardedInv, LoadedInv
  <2>3. turnsSaved \subseteq x.turns /\ archive.version < session.version
    <3>1. turnsSaved \subseteq archive.turns /\ archive.version < session.version
      BY <2>1, <2>2 DEF GuardedInv, KeptInv, NobodyIsBusy
    <3> QED BY <2>2, <3>1 DEF Chat!File
  <2>4. thread'[t] = y /\ \A u \in Threads : u # t => thread'[u] = thread[u]
    <3> HIDE DEF y
    <3> QED BY <1>2, OneMoves DEF ChatInv
  <2>5. KeptInv'
    BY <1>2, <1>3, <1>4, <2>1, <2>3, <2>4 DEF KeptInv
  <2>6. \A a, b \in Threads : Busy(thread'[a]) /\ Busy(thread'[b]) => a = b
    BY <2>2, <2>4 DEF NobodyIsBusy
  <2>7. ASSUME NEW u \in Threads, u # t PROVE Own(thread[u])'
    <3>1. Own(thread[u]) /\ ~Busy(thread[u]) /\ thread'[u] = thread[u]
      BY <2>1, <2>2, <2>4, <2>7, GuardedParts DEF NobodyIsBusy
    <3>2. ~Current(thread[u])
      BY <3>1, <2>1 DEF Own, LoadedInv
    <3>3. ~Current(thread[u])' /\ ~Restorable(thread[u])' /\ ~Busy(thread[u])'
      BY <3>1, <3>2, <1>4, <2>1 DEF Current, Restorable, Busy, Loading, Loaded
    <3>4. VersionInv(thread[u])' /\ OtherInv(thread[u])'
      BY <3>1, <1>4, <2>1 DEF Own, VersionInv, OtherInv, Loading, Loaded
    <3> QED BY <3>3, <3>4 DEF Own, LoadedInv, BusyInv
  <2>8. Own(thread[t])'
    <3> HIDE DEF y
    <3> QED BY <1>2, <1>3, <1>4, <2>3, <2>4
       DEF Own, VersionInv, LoadedInv, BusyInv, OtherInv, Current, Restorable, Loading, Loaded
  <2> QED BY <2>5, <2>6, <2>7, <2>8 DEF GuardedInv, Own, Busy
<1> QED BY <1>5, <1>6, <1>7 DEF ChatInv

LEMMA RestoreMessagesStep ==
  ASSUME ChatSound, ChatInv, NEW t \in Threads, Chat!RestoreMessages(t)
  PROVE  ChatInv'
<1> DEFINE x == thread[t]
           y == [x EXCEPT !.at = "restoreRecord"]
<1>1. x \in Work /\ x.at = "restoreMessages" /\ x.turns \in SUBSET Turns /\ x.turn # 0 /\ x.turn # 1
  BY DEF ChatInv, ChatTyped, TurnsInv, Asking, Restoring, Chat!RestoreMessages, Work
<1>2. UNCHANGED <<session, archive, file, turnsSaved, exposed, asked>>
  BY DEF Chat!RestoreMessages, Chat!bounds
<1>3. CASE session = Chat!NoRow
  <2>1. x # Chat!Idle /\ exposed' \in BOOLEAN /\ (exposed => exposed')
    BY <1>1, <1>2 DEF Chat!Idle, ChatInv, ChatTyped
  <2>2. Chat!End(t) /\ messages' = messages
    BY <1>3 DEF Chat!RestoreMessages
  <2> QED BY <1>2, <1>3, <2>1, <2>2, EndStep
<1>4. CASE session # Chat!NoRow
  <2>1. /\ y \in Work /\ y.at = "restoreRecord" /\ y.row = x.row /\ y.turns = x.turns
        /\ y.turn = x.turn /\ y.then = x.then /\ thread' = [thread EXCEPT ![t] = y]
    <3>1. Chat!Goto(t, "restoreRecord") /\ "restoreRecord" \in Places
      BY <1>4 DEF Chat!RestoreMessages, Places
    <3> QED BY <3>1, GoesTo DEF ChatInv
  <2>2. messages' = x.turns
    BY <1>4 DEF Chat!RestoreMessages
  <2>3. ChatTyped'
    <3>1. thread' \in [Threads -> Work]
      BY <2>1 DEF ChatInv, ChatTyped
    <3> QED BY <1>1, <1>2, <1>4, <2>2, <3>1 DEF ChatInv, ChatTyped
  <2>4. TurnsInv' /\ FirstInv' /\ SweepInv'
    <3>1. Flows(t, y)
      <4> HIDE DEF y
      <4> QED BY <1>1, <1>2, <2>1 DEF Flows, Asking, Restoring, Sweeping, Chat!Idle
    <3> HIDE DEF y
    <3> QED BY <2>1, <3>1, FlowStep DEF ChatInv
  <2>5. ASSUME ~exposed' PROVE GuardedInv'
    <3>1. GuardedInv /\ Busy(x)
      BY <1>1, <1>2, <2>5 DEF ChatInv, Busy
    <3>2. /\ session.version = x.row.version + 1 /\ turnsSaved \subseteq x.turns
          /\ session.state = "active" /\ archive.version < session.version
      BY <3>1, <1>1, <1>4 DEF GuardedInv, BusyInv, KeptInv
    <3>3. thread'[t] = y /\ \A u \in Threads : u # t => thread'[u] = thread[u]
      <4> HIDE DEF y
      <4> QED BY <2>1, OneMoves DEF ChatInv
    <3>4. KeptInv'
      BY <1>2, <2>2, <3>2 DEF KeptInv
    <3>5. ASSUME NEW u \in Threads, u # t PROVE Own(thread[u])' /\ ~Busy(thread[u])'
      <4>1. Own(thread[u]) /\ thread'[u] = thread[u]
        BY <3>1, <3>3, <3>5, GuardedParts
      <4>2. ~Busy(thread[u]) /\ ~(Current(thread[u]) /\ Loaded(thread[u])) /\ ~Restorable(thread[u])
        BY <3>1, <3>5, BusyIsAlone
      <4> QED BY <4>1, <4>2, <1>2, <3>2
         DEF Own, VersionInv, LoadedInv, BusyInv, OtherInv, Current, Restorable, Loading, Loaded, Busy
    <3>6. Own(thread[t])'
      <4> HIDE DEF y
      <4> QED BY <2>1, <1>2, <3>2, <3>3
         DEF Own, VersionInv, LoadedInv, BusyInv, OtherInv, Current, Restorable, Loading, Loaded
    <3>7. \A a, b \in Threads : Busy(thread'[a]) /\ Busy(thread'[b]) => a = b
      BY <3>5 DEF Busy
    <3> QED BY <3>4, <3>5, <3>6, <3>7 DEF GuardedInv, Own, Busy
  <2> QED BY <2>3, <2>4, <2>5 DEF ChatInv
<1> QED BY <1>3, <1>4

LEMMA RestoreRecordStep ==
  ASSUME ChatSound, ChatInv, NEW t \in Threads, Chat!RestoreRecord(t)
  PROVE  ChatInv'
<1> DEFINE x == thread[t]
           y == [x EXCEPT !.at = "reload"]
<1>1. /\ x \in Work /\ x.at = "restoreRecord" /\ x.turns \in SUBSET Turns /\ x.turn # 0
      /\ x.turn # 1 /\ x.row.version \in Nat
  BY DEF ChatInv, ChatTyped, TurnsInv, Asking, Restoring, Chat!RestoreRecord, Work, SessionRows
<1>2. UNCHANGED <<session, messages, file, turnsSaved, exposed, asked>>
  BY DEF Chat!RestoreRecord, Chat!bounds
<1>3. CASE session = Chat!NoRow
  <2>1. x # Chat!Idle /\ exposed' \in BOOLEAN /\ (exposed => exposed')
    BY <1>1, <1>2 DEF Chat!Idle, ChatInv, ChatTyped
  <2>2. Chat!End(t) /\ archive' = archive
    BY <1>3 DEF Chat!RestoreRecord
  <2> QED BY <1>2, <1>3, <2>1, <2>2, EndStep
<1>4. CASE session # Chat!NoRow
  <2>1. /\ y \in Work /\ y.at = "reload" /\ y.row = x.row /\ y.turns = x.turns
        /\ y.turn = x.turn /\ y.then = x.then /\ thread' = [thread EXCEPT ![t] = y]
    <3>1. Chat!Goto(t, "reload") /\ "reload" \in Places
      BY <1>4 DEF Chat!RestoreRecord, Places
    <3> QED BY <3>1, GoesTo DEF ChatInv
  <2>2. archive' = [kind |-> "whole", turns |-> x.turns, version |-> x.row.version]
    BY <1>4 DEF Chat!RestoreRecord, Chat!File
  <2>3. ChatTyped'
    <3>1. thread' \in [Threads -> Work] /\ archive' \in Files /\ archive'.kind = "whole"
      BY <2>1, <2>2, <1>1 DEF ChatInv, ChatTyped, Files
    <3> QED BY <1>1, <1>2, <1>4, <3>1 DEF ChatInv, ChatTyped
  <2>4. TurnsInv' /\ FirstInv' /\ SweepInv'
    <3>1. Flows(t, y)
      <4> HIDE DEF y
      <4> QED BY <1>1, <1>2, <2>1 DEF Flows, Asking, Restoring, Sweeping, Chat!Idle
    <3> HIDE DEF y
    <3> QED BY <2>1, <3>1, FlowStep DEF ChatInv
  <2>5. ASSUME ~exposed' PROVE GuardedInv'
    <3>1. GuardedInv /\ Busy(x)
      BY <1>1, <1>2, <2>5 DEF ChatInv, Busy
    <3>2. /\ session.version = x.row.version + 1 /\ turnsSaved \subseteq x.turns
          /\ session.state = "active"
      BY <3>1, <1>1, <1>4 DEF GuardedInv, BusyInv
    <3>3. thread'[t] = y /\ \A u \in Threads : u # t => thread'[u] = thread[u]
      <4> HIDE DEF y
      <4> QED BY <2>1, OneMoves DEF ChatInv
    <3>4. turnsSaved \subseteq messages
      <4>1. \A u \in Threads : thread[u].at # "restoreMessages"
        BY <1>1, <3>1, BusyIsAlone DEF Busy
      <4> QED BY <4>1, <3>1, <3>2 DEF GuardedInv, KeptInv
    <3>5. KeptInv'
      BY <1>1, <1>2, <2>2, <3>2, <3>4 DEF KeptInv
    <3>6. ASSUME NEW u \in Threads, u # t PROVE Own(thread[u])' /\ ~Busy(thread[u])'
      <4>1. Own(thread[u]) /\ thread'[u] = thread[u]
        BY <3>1, <3>3, <3>6, GuardedParts
      <4>2. ~Busy(thread[u]) /\ ~(Current(thread[u]) /\ Loaded(thread[u])) /\ ~Restorable(thread[u])
        BY <3>1, <3>6, BusyIsAlone
      <4> QED BY <4>1, <4>2, <1>2, <3>2
         DEF Own, VersionInv, LoadedInv, BusyInv, OtherInv, Current, Restorable, Loading, Loaded, Busy
    <3>7. Own(thread[t])' /\ ~Busy(thread[t])'
      <4> HIDE DEF y
      <4> QED BY <2>1, <1>2, <3>2, <3>3
         DEF Own, VersionInv, LoadedInv, BusyInv, OtherInv, Current, Restorable, Loading, Loaded, Busy
    <3>8. \A a, b \in Threads : Busy(thread'[a]) /\ Busy(thread'[b]) => a = b
      BY <3>6 DEF Busy
    <3> QED BY <3>5, <3>6, <3>7, <3>8 DEF GuardedInv, Own, Busy
  <2> QED BY <2>3, <2>4, <2>5 DEF ChatInv
<1> QED BY <1>3, <1>4

LEMMA ReplaceStep ==
  ASSUME ChatSound, ChatInv, NEW t \in Threads, Chat!Replace(t)
  PROVE  ChatInv'
<1> DEFINE x == thread[t]
           y == [Chat!Idle EXCEPT !.at = "sweep"]
<1>1. /\ x \in Work /\ x.at = "replace" /\ x.turns \in SUBSET Turns /\ x.turn \in Turns
  <2>1. x \in Work /\ x.at = "replace" /\ x.turn # 0
    BY DEF ChatInv, ChatTyped, TurnsInv, Asking, Chat!Replace
  <2> QED BY <2>1 DEF Work, Turns, ChatSound
<1>2. UNCHANGED <<session, archive, file, exposed, asked>>
  BY DEF Chat!Replace, Chat!bounds
<1>3. CASE session = Chat!NoRow
  <2>1. x # Chat!Idle /\ exposed' \in BOOLEAN /\ (exposed => exposed')
    BY <1>1, <1>2 DEF Chat!Idle, ChatInv, ChatTyped
  <2>2. Chat!End(t) /\ messages' = messages /\ turnsSaved' = turnsSaved
    BY <1>3 DEF Chat!Replace
  <2> QED BY <1>2, <1>3, <2>1, <2>2, EndStep
<1>4. CASE session # Chat!NoRow
  <2>1. /\ y \in Work /\ y.at = "sweep" /\ y.turn = 0 /\ y.then = "idle"
        /\ thread' = [thread EXCEPT ![t] = y]
    <3>1. Chat!Idle \in Work
      BY Moves DEF ChatInv
    <3> QED BY <1>4, <3>1 DEF Chat!Replace, Places, Work, Chat!Idle
  <2>2. messages' = x.turns \cup {x.turn} /\ turnsSaved' = turnsSaved \cup {x.turn}
    BY <1>4 DEF Chat!Replace
  <2>3. ChatTyped'
    <3>1. thread' \in [Threads -> Work]
      BY <2>1 DEF ChatInv, ChatTyped
    <3>2. messages' \in SUBSET Turns /\ turnsSaved' \in SUBSET Turns
      BY <1>1, <2>2 DEF ChatInv, ChatTyped
    <3> QED BY <1>2, <1>4, <3>1, <3>2 DEF ChatInv, ChatTyped
  <2>4. TurnsInv' /\ FirstInv' /\ SweepInv'
    <3>1. Flows(t, y)
      <4> HIDE DEF y
      <4> QED BY <1>1, <1>2, <2>1 DEF Flows, Asking, Restoring, Sweeping, Chat!Idle
    <3> HIDE DEF y
    <3> QED BY <2>1, <3>1, FlowStep DEF ChatInv
  <2>5. ASSUME ~exposed' PROVE GuardedInv'
    <3>1. GuardedInv /\ Busy(x)
      BY <1>1, <1>2, <2>5 DEF ChatInv, Busy
    <3>2. /\ session.version = x.row.version + 1 /\ turnsSaved \subseteq x.turns
          /\ session.state = "active" /\ archive.version < session.version
      BY <3>1, <1>1, <1>4 DEF GuardedInv, BusyInv, KeptInv
    <3>3. thread'[t] = y /\ \A u \in Threads : u # t => thread'[u] = thread[u]
      <4> HIDE DEF y
      <4> QED BY <2>1, OneMoves DEF ChatInv
    <3>4. KeptInv'
      BY <1>2, <2>2, <3>2 DEF KeptInv
    <3>5. ASSUME NEW u \in Threads, u # t PROVE Own(thread[u])' /\ ~Busy(thread[u])'
      <4>1. Own(thread[u]) /\ thread'[u] = thread[u]
        BY <3>1, <3>3, <3>5, GuardedParts
      <4>2. ~Busy(thread[u]) /\ ~(Current(thread[u]) /\ Loaded(thread[u])) /\ ~Restorable(thread[u])
        BY <3>1, <3>5, BusyIsAlone
      <4> QED BY <4>1, <4>2, <1>2, <3>2
         DEF Own, VersionInv, LoadedInv, BusyInv, OtherInv, Current, Restorable, Loading, Loaded, Busy
    <3>6. Own(thread[t])' /\ ~Busy(thread[t])'
      <4> HIDE DEF y
      <4> QED BY <2>1, <3>3
         DEF Own, VersionInv, LoadedInv, BusyInv, OtherInv, Current, Restorable, Loading, Loaded, Busy
    <3>7. \A a, b \in Threads : Busy(thread'[a]) /\ Busy(thread'[b]) => a = b
      BY <3>5 DEF Busy
    <3> QED BY <3>4, <3>5, <3>6, <3>7 DEF GuardedInv, Own, Busy
  <2> QED BY <2>3, <2>4, <2>5 DEF ChatInv
<1> QED BY <1>3, <1>4

LEMMA UpdateStep ==
  ASSUME ChatSound, ChatInv, NEW t \in Threads, Chat!Update(t)
  PROVE  ChatInv'
<1> DEFINE x == thread[t]
           y == [x EXCEPT !.at = "replace"]
<1>1. /\ x \in Work /\ x.at = "update" /\ x.turn # 0
      /\ x.row.version \in Nat /\ x.row.path \in BOOLEAN
  BY DEF ChatInv, ChatTyped, TurnsInv, Asking, Chat!Update, Work, SessionRows
<1>2. UNCHANGED <<messages, archive, file, turnsSaved, asked>>
  BY DEF Chat!Update, Chat!bounds
<1>3. CASE Chat!End(t) /\ session' = session /\ exposed' = exposed
  <2>1. x # Chat!Idle /\ exposed' \in BOOLEAN /\ (exposed => exposed') /\ ~Busy(x)
    BY <1>1, <1>3 DEF Chat!Idle, ChatInv, ChatTyped, Busy
  <2> QED BY <1>2, <1>3, <2>1, EndStep
<1>4. CASE x.row = Chat!NoRow \/ Chat!SameVersion(x.row)
  <2>1. /\ y \in Work /\ y.at = "replace" /\ y.row = x.row /\ y.turns = x.turns
        /\ y.turn = x.turn /\ y.then = x.then /\ thread' = [thread EXCEPT ![t] = y]
    <3>1. Chat!Goto(t, "replace") /\ "replace" \in Places
      BY <1>4 DEF Chat!Update, Places
    <3> QED BY <3>1, GoesTo DEF ChatInv
  <2>2. /\ session' = [state |-> "active", version |-> x.row.version + 1, old |-> FALSE,
                       path |-> x.row.path]
        /\ exposed' = (exposed \/ Chat!InsertsAgain(t))
    BY <1>4 DEF Chat!Update
  <2>3. /\ session' \in SessionRows /\ session'.version >= 1 /\ session' # Chat!NoRow
        /\ session'.state = "active" /\ session'.version = x.row.version + 1
    BY <1>1, <2>2 DEF SessionRows, Chat!NoRow
  <2>4. ChatTyped'
    <3>1. thread' \in [Threads -> Work]
      BY <2>1 DEF ChatInv, ChatTyped
    <3>2. exposed' \in BOOLEAN
      BY <2>2
    <3> QED BY <1>2, <2>3, <3>1, <3>2 DEF ChatInv, ChatTyped
  <2>5. TurnsInv' /\ FirstInv' /\ SweepInv'
    <3>1. Flows(t, y)
      <4> HIDE DEF y
      <4> QED BY <1>1, <1>2, <2>1, <2>3 DEF Flows, Asking, Restoring, Sweeping, Chat!Idle
    <3> HIDE DEF y
    <3> QED BY <2>1, <3>1, FlowStep DEF ChatInv
  <2>6. ASSUME ~exposed' PROVE GuardedInv'
    <3>1. ~exposed /\ ~Chat!InsertsAgain(t)
      BY <2>2, <2>6
    <3>2. GuardedInv /\ Own(x)
      BY <3>1, GuardedParts DEF ChatInv
    <3>3. thread'[t] = y /\ \A u \in Threads : u # t => thread'[u] = thread[u]
      <4> HIDE DEF y
      <4> QED BY <2>1, OneMoves DEF ChatInv
    <3>4. CASE x.row = Chat!NoRow
      <4>1. session = Chat!NoRow /\ \A u \in Threads \ {t} : ~Chat!Holds(u)
        BY <3>1, <3>4 DEF Chat!InsertsAgain
      <4>2. turnsSaved = {} /\ archive = Chat!NoFile
        BY <4>1 DEF ChatInv, ChatTyped
      <4>3. archive.version = 0
        BY <4>2 DEF Chat!NoFile, Chat!File
      <4>4. KeptInv'
        BY <1>1, <1>2, <2>3, <4>2, <4>3 DEF KeptInv
      <4>5. ASSUME NEW u \in Threads, u # t PROVE Own(thread[u])' /\ ~Busy(thread[u])'
        <5>1. ~Chat!Holds(u) /\ thread'[u] = thread[u]
          BY <3>3, <4>1, <4>5
        <5> QED BY <5>1, <2>3
           DEF Chat!Holds, Chat!Unguarded, Own, VersionInv, LoadedInv, BusyInv, OtherInv,
               Current, Restorable, Loading, Loaded, Busy
      <4>6. Own(thread[t])'
        <5> HIDE DEF y
        <5> QED BY <2>1, <1>2, <2>3, <3>3, <4>2
           DEF Own, VersionInv, LoadedInv, BusyInv, OtherInv, Current, Restorable, Loading, Loaded
      <4>7. \A a, b \in Threads : Busy(thread'[a]) /\ Busy(thread'[b]) => a = b
        BY <4>5 DEF Busy
      <4> QED BY <4>4, <4>5, <4>6, <4>7 DEF GuardedInv, Own, Busy
    <3>5. CASE x.row # Chat!NoRow
      <4>1. Current(x) /\ Loaded(x) /\ session # Chat!NoRow /\ session.version = x.row.version
        BY <1>1, <1>4, <3>5 DEF Chat!SameVersion, Current, Loaded
      <4>2. x.turns = messages /\ turnsSaved \subseteq messages /\ NobodyIsBusy
        BY <3>2, <4>1 DEF Own, LoadedInv
      <4>3. KeptInv'
        <5>1. archive.version < session.version /\ archive.version \in Nat
          BY <3>2, <4>1 DEF GuardedInv, KeptInv, ChatInv, ChatTyped, Files
        <5> QED BY <1>1, <1>2, <2>3, <4>1, <4>2, <5>1 DEF KeptInv
      <4>4. ASSUME NEW u \in Threads, u # t PROVE Own(thread[u])' /\ ~Busy(thread[u])'
        <5>1. Own(thread[u]) /\ thread'[u] = thread[u] /\ thread[u] \in Work
          BY <3>2, <3>3, <4>4, GuardedParts DEF ChatInv, ChatTyped
        <5>2. ~Busy(thread[u]) /\ thread[u].row.version \in Nat
          BY <4>2, <5>1 DEF NobodyIsBusy, Work, SessionRows
        <5>3. thread[u].at # "deleteFile"
          BY <5>1, <4>1 DEF Own, OtherInv
        <5>4. VersionInv(thread[u])' /\ ~Current(thread[u])'
          BY <1>1, <5>1, <5>2, <4>1, <2>3 DEF Own, VersionInv, Current, Loading, Loaded
        <5>5. ~Restorable(thread[u])' /\ ~Busy(thread[u])' /\ OtherInv(thread[u])'
          BY <5>1, <5>2, <5>3, <2>3 DEF Restorable, Busy, OtherInv
        <5> QED BY <5>4, <5>5 DEF Own, LoadedInv, BusyInv
      <4>5. Own(thread[t])'
        <5> HIDE DEF y
        <5> QED BY <2>1, <1>2, <2>3, <3>3, <4>2
           DEF Own, VersionInv, LoadedInv, BusyInv, OtherInv, Current, Restorable, Loading, Loaded
      <4>6. \A a, b \in Threads : Busy(thread'[a]) /\ Busy(thread'[b]) => a = b
        BY <4>4 DEF Busy
      <4> QED BY <4>3, <4>4, <4>5, <4>6 DEF GuardedInv, Own, Busy
    <3> QED BY <3>4, <3>5
  <2> QED BY <2>4, <2>5, <2>6 DEF ChatInv
<1> QED BY <1>3, <1>4 DEF Chat!Update

LEMMA ArchiveFileStep ==
  ASSUME ChatSound, ChatInv, NEW t \in Threads, Chat!ArchiveFile(t)
  PROVE  ChatInv'
<1> DEFINE x == thread[t]
<1>1. /\ x \in Work /\ x.at = "archiveFile" /\ x.turns \in SUBSET Turns
      /\ x.row.version \in Nat
  BY DEF ChatInv, ChatTyped, Chat!ArchiveFile, Work, SessionRows
<1>2. UNCHANGED <<session, messages, archive, turnsSaved, exposed, asked>>
  BY DEF Chat!ArchiveFile, Chat!bounds
<1>3. /\ session.state # "archived"
      /\ \A u \in Threads : u # t => thread[u].at \notin Sweeping
  BY <1>1 DEF ChatInv, SweepInv, Sweeping
<1>4. ASSUME NEW y \in Work, thread' = [thread EXCEPT ![t] = y], file' \in Files, Flows(t, y),
             \/ y.at = "idle"
             \/ /\ y.at = "archiveRow" /\ y.turns = x.turns /\ y.row = x.row
                /\ file' = Chat!File("whole", x.turns, x.row.version)
      PROVE ChatInv'
  <2>1. ChatTyped'
    <3>1. thread' \in [Threads -> Work]
      BY <1>4 DEF ChatInv, ChatTyped
    <3> QED BY <1>2, <1>4, <3>1 DEF ChatInv, ChatTyped
  <2>2. TurnsInv' /\ FirstInv' /\ SweepInv'
    BY <1>4, FlowStep DEF ChatInv
  <2>3. ASSUME ~exposed' PROVE GuardedInv'
    <3>1. GuardedInv /\ Own(x)
      BY <1>2, <2>3, GuardedParts DEF ChatInv
    <3>2. thread'[t] = y /\ \A u \in Threads : u # t => thread'[u] = thread[u]
      BY <1>4, OneMoves DEF ChatInv
    <3>3. \A u \in Threads : Busy(thread'[u]) <=> Busy(thread[u])
      BY <1>1, <1>4, <3>2 DEF Busy
    <3>4. KeptInv'
      <4>1. \A u \in Threads : thread[u].at = "restoreMessages" => thread'[u].at = "restoreMessages"
        BY <1>1, <3>2
      <4> QED BY <1>2, <1>3, <3>1, <4>1 DEF GuardedInv, KeptInv
    <3>5. \A a, b \in Threads : Busy(thread'[a]) /\ Busy(thread'[b]) => a = b
      BY <3>1, <3>3 DEF GuardedInv
    <3>6. NobodyIsBusy => NobodyIsBusy'
      BY <3>3 DEF NobodyIsBusy, Busy
    <3>7. ASSUME NEW u \in Threads, u # t PROVE Own(thread[u])'
      <4>1. Own(thread[u]) /\ thread'[u] = thread[u] /\ thread[u].at \notin Sweeping
        BY <1>3, <3>1, <3>2, <3>7, GuardedParts
      <4> QED BY <4>1, <1>2, <1>3, <3>6
         DEF Own, VersionInv, LoadedInv, BusyInv, OtherInv, Current, Restorable, Loading, Loaded,
             Busy, Sweeping
    <3>8. Own(thread[t])'
      BY <1>1, <1>2, <1>4, <3>1, <3>2, <3>6
         DEF Own, VersionInv, LoadedInv, BusyInv, OtherInv, Current, Restorable, Loading, Loaded, Busy
    <3> QED BY <3>4, <3>5, <3>7, <3>8 DEF GuardedInv, Own, Busy
  <2> QED BY <2>1, <2>2, <2>3 DEF ChatInv
<1>5. CASE file' = Chat!File("whole", x.turns, x.row.version) /\ Chat!Goto(t, "archiveRow")
  <2> DEFINE y == [x EXCEPT !.at = "archiveRow"]
  <2>1. /\ y \in Work /\ y.at = "archiveRow" /\ y.row = x.row /\ y.turns = x.turns
        /\ y.turn = x.turn /\ y.then = x.then /\ thread' = [thread EXCEPT ![t] = y]
    <3>1. "archiveRow" \in Places
      BY DEF Places
    <3> QED BY <3>1, <1>5, GoesTo DEF ChatInv
  <2>2. file' \in Files
    BY <1>1, <1>5 DEF Chat!File, Files
  <2> HIDE DEF y
  <2>3. Flows(t, y)
    BY <1>1, <1>2, <1>3, <2>1
       DEF Flows, Asking, Restoring, Sweeping, Chat!Idle, ChatInv, TurnsInv
  <2> QED BY <1>4, <1>5, <2>1, <2>2, <2>3
<1>6. CASE file' = Chat!Torn /\ Chat!End(t)
  <2> DEFINE y == Chat!Idle
  <2>1. y \in Work /\ y.at = "idle" /\ y.turn = 0 /\ y.then = "idle" /\ x # y
    <3>1. y \in Work
      BY Moves DEF ChatInv
    <3> QED BY <3>1, <1>1 DEF Chat!Idle
  <2>2. thread' = [thread EXCEPT ![t] = y]
    BY <1>6, Moves DEF ChatInv
  <2>3. file' \in Files
    BY <1>6 DEF Chat!Torn, Chat!File, Files
  <2>4. Flows(t, y)
    BY <1>2, <2>1 DEF Flows, Asking, Restoring, Sweeping
  <2> HIDE DEF y
  <2> QED BY <1>4, <2>1, <2>2, <2>3, <2>4
<1> QED BY <1>5, <1>6 DEF Chat!ArchiveFile

\* A sweep that is over, and has not written the row or has no row, goes back or ends.
LEMMA ReturnStep ==
  ASSUME ChatSound, ChatInv, NEW t \in Threads, Chat!Return(t), thread[t].at = "archiveRow",
         UNCHANGED <<session, messages, archive, file, turnsSaved, exposed, asked>>
  PROVE  ChatInv'
<1>1. thread[t] # Chat!Idle /\ ~Busy(thread[t]) /\ thread[t].at # "replace"
  BY DEF Chat!Idle, Busy
<1>2. exposed' \in BOOLEAN /\ (exposed => exposed')
  BY DEF ChatInv, ChatTyped
<1>3. CASE thread[t].then = "idle"
  <2>1. Chat!End(t)
    BY <1>3 DEF Chat!Return
  <2> QED BY <1>1, <1>2, <2>1, EndStep
<1>4. CASE thread[t].then = "prepare"
  <2>1. Chat!Goto(t, "prepare") /\ thread[t].turn # 0
    BY <1>4 DEF Chat!Return, ChatInv, TurnsInv
  <2> QED BY <1>1, <1>2, <2>1, GoStep
<1> QED BY <1>3, <1>4 DEF ChatInv, ChatTyped, Work

LEMMA ArchiveRowStep ==
  ASSUME ChatSound, ChatInv, NEW t \in Threads, Chat!ArchiveRow(t)
  PROVE  ChatInv'
<1> DEFINE x == thread[t]
           y == [x EXCEPT !.at = "archiveClear"]
<1>1. /\ x \in Work /\ x.at = "archiveRow" /\ x.row.version \in Nat /\ x.row \in SessionRows
      /\ x.then = "prepare" => x.turn # 0
  BY DEF ChatInv, ChatTyped, TurnsInv, Chat!ArchiveRow, Work, SessionRows
<1>2. UNCHANGED <<messages, archive, file, turnsSaved, asked>>
  BY DEF Chat!ArchiveRow, Chat!bounds
<1>3. CASE ~Chat!SameVersion(x.row)
  <2>1. Chat!Return(t) /\ session' = session /\ exposed' = exposed
    BY <1>3 DEF Chat!ArchiveRow
  <2> QED BY <1>1, <1>2, <2>1, ReturnStep
<1>4. CASE Chat!SameVersion(x.row)
  <2>1. /\ y \in Work /\ y.at = "archiveClear" /\ y.row = x.row /\ y.turns = x.turns
        /\ y.turn = x.turn /\ y.then = x.then /\ thread' = [thread EXCEPT ![t] = y]
    <3>1. Chat!Goto(t, "archiveClear") /\ "archiveClear" \in Places
      BY <1>4 DEF Chat!ArchiveRow, Places
    <3> QED BY <3>1, GoesTo DEF ChatInv
  <2>2. /\ session' = [state |-> "archived", version |-> session.version + 1, old |-> FALSE, path |-> TRUE]
        /\ exposed' = (exposed \/ \E u \in Threads \ {t} : Chat!InFlight(u))
        /\ session # Chat!NoRow /\ session.version = x.row.version
    BY <1>4 DEF Chat!ArchiveRow, Chat!SameVersion
  <2>3. /\ session' \in SessionRows /\ session'.version >= 1 /\ session' # Chat!NoRow
        /\ session'.state = "archived" /\ session'.version = x.row.version + 1
    BY <1>1, <2>2 DEF SessionRows, Chat!NoRow
  <2>4. ChatTyped'
    <3>1. thread' \in [Threads -> Work]
      BY <2>1 DEF ChatInv, ChatTyped
    <3>2. exposed' \in BOOLEAN
      BY <2>2
    <3> QED BY <1>2, <2>3, <3>1, <3>2 DEF ChatInv, ChatTyped
  <2>5. TurnsInv' /\ FirstInv' /\ SweepInv'
    <3>1. x.at \in Sweeping /\ \A u \in Threads \ {t} : thread[u].at \notin Sweeping
      BY <1>1 DEF ChatInv, SweepInv, Sweeping
    <3>2. x.turn # 1
      BY <1>1, <2>2 DEF ChatInv, FirstInv
    <3>3. Flows(t, y)
      <4> HIDE DEF y
      <4> QED BY <1>1, <1>2, <2>1, <3>1, <3>2 DEF Flows, Asking, Restoring, Chat!Idle
    <3> HIDE DEF y
    <3> QED BY <2>1, <3>3, FlowStep DEF ChatInv
  <2>6. ASSUME ~exposed' PROVE GuardedInv'
    <3>1. ~exposed /\ \A u \in Threads \ {t} : ~Chat!InFlight(u)
      BY <2>2, <2>6
    <3>2. GuardedInv /\ Own(x)
      BY <3>1, GuardedParts DEF ChatInv
    <3>3. thread'[t] = y /\ \A u \in Threads : u # t => thread'[u] = thread[u]
      <4> HIDE DEF y
      <4> QED BY <2>1, OneMoves DEF ChatInv
    <3>4. Current(x) /\ Loaded(x)
      BY <1>1, <2>2 DEF Current, Loaded
    <3>5. /\ x.turns = messages /\ turnsSaved \subseteq messages /\ NobodyIsBusy
          /\ file = Chat!File("whole", x.turns, x.row.version)
      BY <1>1, <3>2, <3>4 DEF Own, LoadedInv
    <3>6. archive.version < session.version /\ archive.version \in Nat
      BY <3>2, <2>2 DEF GuardedInv, KeptInv, ChatInv, ChatTyped, Files
    <3>7. KeptInv'
      <4>1. Busy(thread'[t])
        BY <2>1, <3>3 DEF Busy
      <4> QED BY <1>1, <1>2, <2>2, <2>3, <3>6, <4>1 DEF KeptInv, Busy
    <3>8. ASSUME NEW u \in Threads, u # t PROVE Own(thread[u])' /\ ~Busy(thread[u])'
      <4>1. Own(thread[u]) /\ thread'[u] = thread[u] /\ thread[u] \in Work
        BY <3>2, <3>3, <3>8, GuardedParts DEF ChatInv, ChatTyped
      <4>2. ~Busy(thread[u]) /\ thread[u].row.version \in Nat
        BY <3>5, <4>1 DEF NobodyIsBusy, Work, SessionRows
      <4>3. thread[u].at # "deleteFile" /\ thread[u].at \notin {"reload", "answer", "persist"}
        BY <4>1, <2>2, <3>1, <3>8 DEF Own, OtherInv, Chat!InFlight
      <4>4. VersionInv(thread[u])' /\ ~Current(thread[u])' /\ ~Restorable(thread[u])'
        BY <1>1, <4>1, <4>2, <2>2, <2>3 DEF Own, VersionInv, Current, Restorable, Loading, Loaded
      <4>5. ~Busy(thread[u])' /\ OtherInv(thread[u])'
        BY <4>1, <4>2, <4>3 DEF Busy, OtherInv
      <4> QED BY <4>4, <4>5 DEF Own, LoadedInv, BusyInv
    <3>9. Own(thread[t])'
      <4> HIDE DEF y
      <4> QED BY <2>1, <1>2, <2>2, <2>3, <3>3, <3>5, <3>6
         DEF Own, VersionInv, LoadedInv, BusyInv, OtherInv, Current, Restorable, Loading, Loaded
    <3>10. \A a, b \in Threads : Busy(thread'[a]) /\ Busy(thread'[b]) => a = b
      BY <3>8 DEF Busy
    <3> QED BY <3>7, <3>8, <3>9, <3>10 DEF GuardedInv, Own, Busy
  <2> QED BY <2>4, <2>5, <2>6 DEF ChatInv
<1> QED BY <1>3, <1>4

LEMMA ArchiveClearStep ==
  ASSUME ChatSound, ChatInv, NEW t \in Threads, Chat!ArchiveClear(t)
  PROVE  ChatInv'
<1> DEFINE x == thread[t]
           y == [x EXCEPT !.at = "archiveRecord"]
<1>1. x \in Work /\ x.at = "archiveClear" /\ (x.then = "prepare" => x.turn # 0)
  BY DEF ChatInv, ChatTyped, TurnsInv, Chat!ArchiveClear
<1>2. UNCHANGED <<session, archive, file, turnsSaved, exposed, asked>> /\ messages' = {}
  BY DEF Chat!ArchiveClear, Chat!bounds
<1>3. /\ y \in Work /\ y.at = "archiveRecord" /\ y.row = x.row /\ y.turns = x.turns
      /\ y.turn = x.turn /\ y.then = x.then /\ thread' = [thread EXCEPT ![t] = y]
  <2>1. Chat!Goto(t, "archiveRecord") /\ "archiveRecord" \in Places
    BY DEF Chat!ArchiveClear, Places
  <2> QED BY <2>1, GoesTo DEF ChatInv
<1>4. ChatTyped'
  <2>1. thread' \in [Threads -> Work]
    BY <1>3 DEF ChatInv, ChatTyped
  <2> QED BY <1>2, <2>1 DEF ChatInv, ChatTyped
<1>5. TurnsInv' /\ FirstInv' /\ SweepInv'
  <2>1. \A u \in Threads \ {t} : thread[u].at \notin Sweeping
    BY <1>1 DEF ChatInv, SweepInv, Sweeping
  <2>2. Flows(t, y)
    <3> HIDE DEF y
    <3> QED BY <1>1, <1>2, <1>3, <2>1 DEF Flows, Asking, Restoring, Chat!Idle
  <2> HIDE DEF y
  <2> QED BY <1>3, <2>2, FlowStep DEF ChatInv
<1>6. ASSUME ~exposed' PROVE GuardedInv'
  <2>1. GuardedInv /\ Busy(x) /\ Own(x)
    BY <1>1, <1>2, <1>6, GuardedParts DEF ChatInv, Busy
  <2>2. thread'[t] = y /\ \A u \in Threads : u # t => thread'[u] = thread[u]
    <3> HIDE DEF y
    <3> QED BY <1>3, OneMoves DEF ChatInv
  <2>3. session # Chat!NoRow => session.state = "archived"
    BY <1>1, <2>1 DEF Own, BusyInv
  <2>4. KeptInv'
    <3>1. Busy(thread'[t])
      BY <1>3, <2>2 DEF Busy
    <3> QED BY <1>2, <2>1, <2>3, <3>1 DEF GuardedInv, KeptInv, Busy, Chat!NoRow
  <2>5. ASSUME NEW u \in Threads, u # t PROVE Own(thread[u])' /\ ~Busy(thread[u])'
    <3>1. Own(thread[u]) /\ thread'[u] = thread[u]
      BY <2>1, <2>2, <2>5, GuardedParts
    <3>2. ~Busy(thread[u]) /\ ~(Current(thread[u]) /\ Loaded(thread[u])) /\ ~Restorable(thread[u])
      BY <2>1, <2>5, BusyIsAlone
    <3> QED BY <3>1, <3>2, <1>2
       DEF Own, VersionInv, LoadedInv, BusyInv, OtherInv, Current, Restorable, Loading, Loaded, Busy
  <2>6. Own(thread[t])'
    <3> HIDE DEF y
    <3> QED BY <1>1, <1>2, <1>3, <2>1, <2>2
       DEF Own, VersionInv, LoadedInv, BusyInv, OtherInv, Current, Restorable, Loading, Loaded, Busy
  <2>7. \A a, b \in Threads : Busy(thread'[a]) /\ Busy(thread'[b]) => a = b
    BY <2>5 DEF Busy
  <2> QED BY <2>4, <2>5, <2>6, <2>7 DEF GuardedInv, Own, Busy
<1> QED BY <1>4, <1>5, <1>6 DEF ChatInv

LEMMA ArchiveRecordStep ==
  ASSUME ChatSound, ChatInv, NEW t \in Threads, Chat!ArchiveRecord(t)
  PROVE  ChatInv'
<1> DEFINE x == thread[t]
<1>1. /\ x \in Work /\ x.at = "archiveRecord" /\ (x.then = "prepare" => x.turn # 0)
      /\ x.turns \in SUBSET Turns /\ x.row.version \in Nat /\ x # Chat!Idle
  BY DEF ChatInv, ChatTyped, TurnsInv, Chat!ArchiveRecord, Work, SessionRows, Chat!Idle
<1>2. UNCHANGED <<session, messages, file, turnsSaved, exposed, asked>>
  BY DEF Chat!ArchiveRecord, Chat!bounds
<1>3. CASE session = Chat!NoRow
  <2>1. exposed' \in BOOLEAN /\ (exposed => exposed')
    BY <1>2 DEF ChatInv, ChatTyped
  <2>2. Chat!End(t) /\ archive' = archive
    BY <1>3 DEF Chat!ArchiveRecord
  <2> QED BY <1>1, <1>2, <1>3, <2>1, <2>2, EndStep
<1>4. CASE session # Chat!NoRow
  <2>1. PICK y \in Work : /\ thread' = [thread EXCEPT ![t] = y]
                          /\ \/ y.at = "idle" /\ y.turn = 0 /\ y.then = "idle"
                             \/ y.at = "prepare" /\ y.turn = x.turn /\ x.turn # 0
    <3>1. Chat!Return(t)
      BY <1>4 DEF Chat!ArchiveRecord
    <3>2. CASE x.then = "idle"
      <4>1. Chat!Idle \in Work /\ thread' = [thread EXCEPT ![t] = Chat!Idle]
        BY <3>1, <3>2, Moves DEF Chat!Return, ChatInv
      <4> QED BY <4>1 DEF Chat!Idle
    <3>3. CASE x.then = "prepare"
      <4>1. Chat!Goto(t, "prepare") /\ "prepare" \in Places
        BY <3>1, <3>3 DEF Chat!Return, Places
      <4>2. LET y == [x EXCEPT !.at = "prepare"]
            IN y \in Work /\ y.at = "prepare" /\ y.turn = x.turn
               /\ thread' = [thread EXCEPT ![t] = y]
        BY <4>1, GoesTo DEF ChatInv
      <4> QED BY <4>2, <3>3, <1>1
    <3> QED BY <3>2, <3>3, <1>1 DEF Work
  <2>2. archive' = Chat!File("whole", x.turns, x.row.version)
    BY <1>4 DEF Chat!ArchiveRecord
  <2>3. /\ archive' \in Files /\ archive'.kind = "whole" /\ archive' # Chat!NoFile
        /\ archive'.turns = x.turns /\ archive'.version = x.row.version
    BY <1>1, <2>2 DEF Chat!File, Files, Chat!NoFile
  <2>4. ChatTyped'
    <3>1. thread' \in [Threads -> Work]
      BY <2>1 DEF ChatInv, ChatTyped
    <3> QED BY <1>2, <1>4, <2>3, <3>1 DEF ChatInv, ChatTyped
  <2>5. TurnsInv' /\ FirstInv' /\ SweepInv'
    <3>1. x.turn # 1
      BY <1>1, <1>4 DEF ChatInv, FirstInv
    <3>2. Flows(t, y)
      BY <1>1, <1>2, <2>1, <3>1 DEF Flows, Asking, Restoring, Sweeping
    <3> QED BY <2>1, <3>2, FlowStep DEF ChatInv
  <2>6. ASSUME ~exposed' PROVE GuardedInv'
    <3>1. GuardedInv /\ Busy(x) /\ Own(x)
      BY <1>1, <1>2, <2>6, GuardedParts DEF ChatInv, Busy
    <3>2. thread'[t] = y /\ \A u \in Threads : u # t => thread'[u] = thread[u]
      BY <2>1, OneMoves DEF ChatInv
    <3>3. /\ session.state = "archived" /\ session.version = x.row.version + 1
          /\ turnsSaved \subseteq x.turns /\ file = Chat!File("whole", x.turns, x.row.version)
      BY <1>1, <1>4, <3>1 DEF Own, BusyInv
    <3>4. KeptInv'
      BY <1>1, <1>2, <2>2, <2>3, <3>3 DEF KeptInv
    <3>5. ASSUME NEW u \in Threads, u # t PROVE Own(thread[u])' /\ ~Busy(thread[u])'
      <4>1. Own(thread[u]) /\ thread'[u] = thread[u]
        BY <3>1, <3>2, <3>5, GuardedParts
      <4>2. ~Busy(thread[u]) /\ ~(Current(thread[u]) /\ Loaded(thread[u])) /\ ~Restorable(thread[u])
        BY <3>1, <3>5, BusyIsAlone
      <4> QED BY <4>1, <4>2, <1>2
         DEF Own, VersionInv, LoadedInv, BusyInv, OtherInv, Current, Restorable, Loading, Loaded, Busy
    <3>6. Own(thread[t])' /\ ~Busy(thread[t])'
      BY <2>1, <3>2
         DEF Own, VersionInv, LoadedInv, BusyInv, OtherInv, Current, Restorable, Loading, Loaded, Busy
    <3>7. \A a, b \in Threads : Busy(thread'[a]) /\ Busy(thread'[b]) => a = b
      BY <3>5 DEF Busy
    <3> QED BY <3>4, <3>5, <3>6, <3>7 DEF GuardedInv, Own, Busy
  <2> QED BY <2>4, <2>5, <2>6 DEF ChatInv
<1> QED BY <1>3, <1>4

LEMMA DeleteRowsStep ==
  ASSUME ChatSound, ChatInv, NEW t \in Threads, Chat!DeleteRows(t)
  PROVE  ChatInv'
<1> DEFINE x == thread[t]
<1>1. x \in Work /\ x.at = "deleteRows" /\ (x.then = "prepare" => x.turn # 0) /\ x # Chat!Idle
  BY DEF ChatInv, ChatTyped, TurnsInv, Chat!DeleteRows, Chat!Idle
<1>2. /\ UNCHANGED <<file, exposed, asked>> /\ session' = Chat!NoRow /\ messages' = {}
      /\ archive' = Chat!NoFile /\ turnsSaved' = {}
  BY DEF Chat!DeleteRows, Chat!bounds
<1>3. PICK y \in Work : /\ thread' = [thread EXCEPT ![t] = y]
                        /\ \/ y.at = "idle" /\ y.turn = 0 /\ y.then = "idle"
                           \/ y.at = "deleteFile" /\ y.turn = x.turn /\ y.then = x.then
                              /\ session # Chat!NoRow
  <2>1. CASE Chat!End(t)
    <3>1. Chat!Idle \in Work /\ thread' = [thread EXCEPT ![t] = Chat!Idle]
      BY <2>1, Moves DEF ChatInv
    <3> QED BY <3>1 DEF Chat!Idle
  <2>2. CASE Chat!Goto(t, "deleteFile") /\ session # Chat!NoRow
    <3>1. "deleteFile" \in Places
      BY DEF Places
    <3>2. LET y == [x EXCEPT !.at = "deleteFile"]
          IN y \in Work /\ y.at = "deleteFile" /\ y.turn = x.turn /\ y.then = x.then
             /\ thread' = [thread EXCEPT ![t] = y]
      BY <2>2, <3>1, GoesTo DEF ChatInv
    <3> QED BY <2>2, <3>2
  <2> QED BY <2>1, <2>2 DEF Chat!DeleteRows
<1>4. Chat!NoRow \in SessionRows /\ Chat!NoRow.state = "none" /\ Chat!NoFile \in Files
  BY DEF Chat!NoRow, SessionRows, Chat!NoFile, Chat!File, Files
<1>5. ChatTyped'
  <2>1. thread' \in [Threads -> Work]
    BY <1>3 DEF ChatInv, ChatTyped
  <2> QED BY <1>2, <1>4, <2>1 DEF ChatInv, ChatTyped
<1>6. TurnsInv' /\ FirstInv' /\ SweepInv'
  <2>1. session # Chat!NoRow => x.turn # 1
    BY <1>1 DEF ChatInv, FirstInv
  <2>2. Flows(t, y)
    BY <1>1, <1>2, <1>3, <1>4, <2>1 DEF Flows, Asking, Restoring, Sweeping
  <2> QED BY <1>3, <2>2, FlowStep DEF ChatInv
<1>7. ASSUME ~exposed' PROVE GuardedInv'
  <2>1. GuardedInv
    BY <1>2, <1>7 DEF ChatInv
  <2>2. thread'[t] = y /\ \A u \in Threads : u # t => thread'[u] = thread[u]
    BY <1>3, OneMoves DEF ChatInv
  <2>3. KeptInv'
    BY <1>2, <1>4 DEF KeptInv
  <2>4. \A u \in Threads : Busy(thread'[u]) => Busy(thread[u])
    BY <1>3, <2>2 DEF Busy
  <2>5. \A a, b \in Threads : Busy(thread'[a]) /\ Busy(thread'[b]) => a = b
    BY <2>1, <2>4 DEF GuardedInv
  <2>6. ASSUME NEW u \in Threads PROVE Own(thread[u])'
    BY <1>2, <1>4 DEF Own, VersionInv, LoadedInv, BusyInv, OtherInv, Current, Restorable
  <2> QED BY <2>3, <2>5, <2>6 DEF GuardedInv, Own, Busy
<1> QED BY <1>5, <1>6, <1>7 DEF ChatInv

LEMMA DeleteFileStep ==
  ASSUME ChatSound, ChatInv, NEW t \in Threads, Chat!DeleteFile(t)
  PROVE  ChatInv'
<1> DEFINE x == thread[t]
           y == Chat!Idle
<1>1. x \in Work /\ x.at = "deleteFile" /\ x # y
  BY DEF ChatInv, ChatTyped, Chat!DeleteFile, Chat!Idle
<1>2. /\ UNCHANGED <<session, messages, archive, turnsSaved, exposed, asked>>
      /\ file' = Chat!NoFile
  BY DEF Chat!DeleteFile, Chat!bounds
<1>3. /\ y \in Work /\ thread' = [thread EXCEPT ![t] = y]
      /\ y.at = "idle" /\ y.turn = 0 /\ y.then = "idle"
  <2>1. Chat!End(t)
    BY DEF Chat!DeleteFile
  <2> QED BY <2>1, Moves DEF ChatInv, Chat!Idle
<1>4. ChatTyped'
  <2>1. thread' \in [Threads -> Work] /\ file' \in Files
    BY <1>2, <1>3 DEF ChatInv, ChatTyped, Chat!NoFile, Chat!File, Files
  <2> QED BY <1>2, <2>1 DEF ChatInv, ChatTyped
<1>5. Flows(t, y)
  BY <1>1, <1>2, <1>3 DEF Flows, Asking, Restoring, Sweeping
<1> HIDE DEF y
<1>6. TurnsInv' /\ FirstInv' /\ SweepInv'
  BY <1>3, <1>5, FlowStep DEF ChatInv
<1>7. ASSUME ~exposed' PROVE GuardedInv'
  <2>1. GuardedInv
    BY <1>2, <1>7 DEF ChatInv
  <2>2. session = Chat!NoRow /\ session.state = "none"
    BY <1>1, <2>1 DEF GuardedInv, OtherInv, Chat!NoRow
  <2>3. thread'[t] = y /\ \A u \in Threads : u # t => thread'[u] = thread[u]
    BY <1>3, OneMoves DEF ChatInv
  <2>4. KeptInv'
    BY <1>2, <2>2 DEF KeptInv
  <2>5. \A u \in Threads : Busy(thread'[u]) => Busy(thread[u])
    BY <1>3, <2>3 DEF Busy
  <2>6. \A a, b \in Threads : Busy(thread'[a]) /\ Busy(thread'[b]) => a = b
    BY <2>1, <2>5 DEF GuardedInv
  <2>7. ASSUME NEW u \in Threads PROVE Own(thread[u])'
    BY <1>2, <2>2 DEF Own, VersionInv, LoadedInv, BusyInv, OtherInv, Current, Restorable
  <2> QED BY <2>4, <2>6, <2>7 DEF GuardedInv, Own, Busy
<1> QED BY <1>4, <1>6, <1>7 DEF ChatInv

LEMMA AgeStep ==
  ASSUME ChatSound, ChatInv, Chat!Age
  PROVE  ChatInv'
<1>1. /\ session \in SessionRows /\ session.state = "active"
      /\ session' = [session EXCEPT !.old = TRUE]
      /\ UNCHANGED <<messages, archive, file, thread, turnsSaved, exposed, asked>>
  BY DEF ChatInv, ChatTyped, Chat!Age
<1>2. /\ session' \in SessionRows /\ session'.state = session.state
      /\ session'.version = session.version /\ session # Chat!NoRow /\ session' # Chat!NoRow
  <2>1. session' \in SessionRows /\ session'.state = session.state /\ session'.version = session.version
    BY <1>1 DEF SessionRows
  <2> QED BY <1>1, <2>1 DEF Chat!NoRow
<1>3. ChatTyped'
  BY <1>1, <1>2 DEF ChatInv, ChatTyped
<1>4. TurnsInv' /\ FirstInv' /\ SweepInv'
  BY <1>1, <1>2 DEF ChatInv, TurnsInv, FirstInv, SweepInv
<1>5. ASSUME ~exposed' PROVE GuardedInv'
  <2>1. GuardedInv
    BY <1>1, <1>5 DEF ChatInv
  <2>2. KeptInv'
    BY <1>1, <1>2, <2>1 DEF GuardedInv, KeptInv, Busy
  <2>3. \A a, b \in Threads : Busy(thread'[a]) /\ Busy(thread'[b]) => a = b
    BY <1>1, <2>1 DEF GuardedInv
  <2>4. ASSUME NEW u \in Threads PROVE Own(thread[u])'
    <3>1. Own(thread[u])
      BY <2>1, GuardedParts
    <3> QED BY <1>1, <1>2, <3>1 DEF Own, VersionInv, LoadedInv, BusyInv, OtherInv,
          Current, Restorable, Loading, Loaded, Busy, NobodyIsBusy
  <2> QED BY <2>2, <2>3, <2>4 DEF GuardedInv, Own, Busy
<1> QED BY <1>3, <1>4, <1>5 DEF ChatInv

LEMMA DieStep ==
  ASSUME ChatSound, ChatInv, Chat!Die
  PROVE  ChatInv'
<1>1. /\ thread' = [t \in Threads |-> Chat!Idle]
      /\ file' \in {file} \cup {Chat!Torn : t \in {u \in Threads : thread[u].at = "archiveFile"}}
      /\ exposed' = (exposed \/ \E t \in Threads :
                       thread[t].at \in {"archiveClear", "archiveRecord", "restoreMessages"})
      /\ UNCHANGED <<session, messages, archive, turnsSaved, asked>>
  BY DEF Chat!Die
<1>2. /\ Chat!Idle \in Work /\ Chat!Idle.at = "idle" /\ Chat!Idle.turn = 0
      /\ Chat!Idle.then = "idle" /\ Chat!Torn \in Files
  BY DEF ChatSound, Chat!Idle, Chat!NoRow, Work, SessionRows, Places, Turns, Chat!Torn, Chat!File, Files
<1>3. ChatTyped'
  <2>1. thread' \in [Threads -> Work] /\ file' \in Files
    BY <1>1, <1>2 DEF ChatInv, ChatTyped
  <2>2. exposed' \in BOOLEAN
    BY <1>1
  <2> QED BY <1>1, <2>1, <2>2 DEF ChatInv, ChatTyped
<1>4. \A t \in Threads : thread'[t] = Chat!Idle
  BY <1>1
<1>5. TurnsInv' /\ SweepInv'
  BY <1>2, <1>4 DEF TurnsInv, SweepInv, Asking, Restoring, Sweeping
<1>6. FirstInv'
  <2>1. asked' = 0 => session' = Chat!NoRow
    BY <1>1 DEF ChatInv, FirstInv
  <2>2. \A t \in Threads : thread'[t].turn # 1
    BY <1>2, <1>4
  <2> QED BY <2>1, <2>2, <1>4 DEF FirstInv, Chat!NoRow, Chat!Idle
<1>7. ASSUME ~exposed' PROVE GuardedInv'
  <2>1. ~exposed /\ \A t \in Threads :
          thread[t].at \notin {"archiveClear", "archiveRecord", "restoreMessages"}
    BY <1>1, <1>7
  <2>2. GuardedInv
    BY <2>1 DEF ChatInv
  <2>3. \A t \in Threads : ~Busy(thread'[t])
    BY <1>2, <1>4 DEF Busy
  <2>4. session.state = "archived" => \A t \in Threads : ~Busy(thread[t])
    BY <2>1, <2>2 DEF GuardedInv, BusyInv, Busy, Chat!NoRow
  <2>5. session.state = "archived" => file' = file
    BY <1>1 DEF ChatInv, SweepInv
  <2>6. KeptInv'
    <3>1. \A t \in Threads : thread[t].at # "restoreMessages"
      BY <2>1
    <3> QED BY <1>1, <2>2, <2>4, <2>5, <3>1 DEF GuardedInv, KeptInv
  <2>7. ASSUME NEW u \in Threads PROVE Own(thread[u])'
    BY <1>2, <1>4 DEF Own, VersionInv, LoadedInv, BusyInv, OtherInv, Current, Restorable,
       Loading, Loaded, Busy
  <2> QED BY <2>3, <2>6, <2>7 DEF GuardedInv, Own, Busy
<1> QED BY <1>3, <1>5, <1>6, <1>7 DEF ChatInv

LEMMA ChatInit ==
  ASSUME ChatSound, Chat!Init
  PROVE  ChatInv
<1>1. /\ Chat!Idle \in Work /\ Chat!Idle.at = "idle" /\ Chat!Idle.turn = 0
      /\ Chat!Idle.then = "idle"
  BY DEF ChatSound, Chat!Idle, Chat!NoRow, Work, SessionRows, Places, Turns
<1>2. \A t \in Threads : thread[t] = Chat!Idle
  BY DEF Chat!Init
<1>3. ChatTyped
  <2>1. Chat!NoRow \in SessionRows /\ Chat!NoFile \in Files /\ 0 \in 0..MaxRequests
    BY DEF ChatSound, Chat!NoRow, SessionRows, Chat!NoFile, Chat!File, Files
  <2>2. thread \in [Threads -> Work]
    BY <1>1 DEF Chat!Init
  <2> QED BY <2>1, <2>2 DEF Chat!Init, ChatTyped
<1>4. TurnsInv /\ SweepInv
  BY <1>1, <1>2 DEF TurnsInv, SweepInv, Asking, Restoring, Sweeping
<1>5. FirstInv
  <2>1. session = Chat!NoRow /\ \A t \in Threads : thread[t].turn # 1
    BY <1>1, <1>2 DEF Chat!Init
  <2> QED BY <1>2, <2>1 DEF FirstInv
<1>6. GuardedInv
  <2>1. session.state = "none" /\ session = Chat!NoRow
    BY DEF Chat!Init, Chat!NoRow
  <2>2. KeptInv
    BY <2>1 DEF KeptInv
  <2>3. \A t \in Threads : ~Busy(thread[t])
    BY <1>1, <1>2 DEF Busy
  <2>4. \A t \in Threads : Own(thread[t])
    BY <1>1, <1>2, <2>1 DEF Own, VersionInv, LoadedInv, BusyInv, OtherInv, Current, Restorable,
       Loading, Loaded, Busy
  <2> QED BY <2>2, <2>3, <2>4 DEF GuardedInv, Own
<1> QED BY <1>3, <1>4, <1>5, <1>6 DEF ChatInv

\* The invariant is inductive.
LEMMA ChatNext ==
  ASSUME ChatSound, ChatInv, [Chat!Next]_(Chat!vars)
  PROVE  ChatInv'
<1>1. ASSUME NEW t \in Threads, Chat!Request(t) PROVE ChatInv'
  BY <1>1, BeginStep, WaitSteps, RestoreReadStep, RestoreRowStep, RestoreMessagesStep,
     RestoreRecordStep, PersistLoadStep, PersistMessagesStep, UpdateStep, ReplaceStep
     DEF Chat!Request
<1>2. ASSUME NEW t \in Threads, Chat!Sweep(t) PROVE ChatInv'
  BY <1>2, WaitSteps, SweepStartsStep, ArchiveReadStep, ArchiveFileStep, ArchiveRowStep,
     ArchiveClearStep, ArchiveRecordStep DEF Chat!Sweep
<1>3. ASSUME NEW t \in Threads, Chat!Delete(t) \/ Chat!DeleteRows(t) \/ Chat!DeleteFile(t)
      PROVE ChatInv'
  BY <1>3, BeginStep, DeleteRowsStep, DeleteFileStep
<1>4. CASE UNCHANGED Chat!vars
  <2>1. UNCHANGED <<session, messages, archive, file, thread, turnsSaved, exposed, asked>>
    BY <1>4 DEF Chat!vars
  <2>2. ChatTyped' /\ TurnsInv' /\ FirstInv' /\ SweepInv'
    BY <2>1 DEF ChatInv, ChatTyped, TurnsInv, FirstInv, SweepInv
  <2>3. GuardedInv => GuardedInv'
    BY <2>1 DEF GuardedInv, KeptInv, VersionInv, LoadedInv, BusyInv, OtherInv, Current, Restorable,
       Loading, Loaded, Busy, NobodyIsBusy
  <2> QED BY <2>1, <2>2, <2>3 DEF ChatInv
<1> QED BY <1>1, <1>2, <1>3, <1>4, AgeStep, DieStep DEF Chat!Next

\* Conversations are well typed, and messages and archive records have their session.
THEOREM ChatTypeCorrect ==
  ASSUME ChatSound
  PROVE  Chat!Spec => []Chat!TypeOK
<1>1. Chat!Init => ChatInv
  BY ChatInit
<1>2. ChatInv /\ [Chat!Next]_(Chat!vars) => ChatInv'
  BY ChatNext
<1>3. ChatInv => Chat!TypeOK
  BY DEF ChatInv, ChatTyped, SessionRows, Files, Turns, Chat!TypeOK
<1> QED BY <1>1, <1>2, <1>3, PTL DEF Chat!Spec

\* No stored turn is lost: for any number of threads, turns, weeks without use, deletions
\* and deaths, a turn that PersistResponse stored stays in the messages or in an archive
\* that can be restored, up to the first of the steps that nothing in the code guards.
THEOREM StoredTurnsAreKept ==
  ASSUME ChatSound
  PROVE  Chat!Spec => []Chat!SavedTurnIsKept
<1>1. Chat!Init => ChatInv
  BY ChatInit
<1>2. ChatInv /\ [Chat!Next]_(Chat!vars) => ChatInv'
  BY ChatNext
<1>3. ChatInv => Chat!SavedTurnIsKept
  <2> SUFFICES ASSUME ChatInv, ~exposed, \A t \in Threads : ~Chat!Unguarded(t)
               PROVE  turnsSaved \subseteq Chat!Kept
    BY DEF Chat!SavedTurnIsKept
  <2>1. \A t \in Threads : ~Busy(thread[t]) /\ thread[t].at # "restoreMessages"
    BY DEF Busy, Chat!Unguarded
  <2>2. KeptInv /\ session \in SessionRows
    BY DEF ChatInv, GuardedInv, ChatTyped
  <2>3. CASE session.state = "archived"
    BY <2>1, <2>2, <2>3 DEF KeptInv, Chat!Kept
  <2>4. CASE session.state = "active"
    BY <2>1, <2>2, <2>4 DEF KeptInv, Chat!Kept
  <2>5. CASE session.state = "none"
    BY <2>5 DEF ChatInv, ChatTyped, Chat!Kept
  <2> QED BY <2>2, <2>3, <2>4, <2>5 DEF SessionRows
<1> QED BY <1>1, <1>2, <1>3, PTL DEF Chat!Spec

-----------------------------------------------------------------------------
(* Telemetry streams.                                                       *)

CONSTANTS Nodes, LiveStream, HotCapacity, BatchLimit, Durable, IdModulus, MaxSequence,
          MaxBreaks, MaxRestarts

VARIABLES history, pruned, newestKept, durable, stream, browser, fetched, newest, owed,
          breaks, restarts

Stream == INSTANCE TelemetryStream WITH latest <- newestKept

\* The constants.  NormalizeRetention of telemetry_operational_config.cpp makes capacities
\* positive.
StreamSound ==
  /\ IsFiniteSet(Nodes) /\ HotCapacity \in Nat \ {0} /\ BatchLimit \in Nat
  /\ Durable \in Nat /\ IdModulus \in Nat \ {0} /\ MaxSequence \in Nat

FrameNumbers == 1..MaxSequence
Counts == 0..MaxSequence
AllFrames == [node : Nodes, seq : FrameNumbers]
Snapshots == [frames : SUBSET AllFrames, latest : Counts]
Steps == {"closed", "initial", "first", "sendFirst", "number", "poll", "replay", "sendReplay",
          "send"}
Handlers == [at : Steps, cursor : Counts, frames : SUBSET AllFrames, latest : Counts,
             snapshot : Snapshots]
Browsers == [url : Counts, id : Counts, top : Counts, open : BOOLEAN]

\* The store: buffers within their capacity, the database with a number once, and no number
\* larger than the largest that arrived.
BuffersInv(h, p, last, rows, top) ==
  /\ h \in [Nodes -> SUBSET FrameNumbers] /\ p \in [Nodes -> BOOLEAN] /\ last \in Counts
  /\ rows \in SUBSET AllFrames
  /\ \A n \in Nodes : Cardinality(h[n]) <= HotCapacity
  /\ Cardinality(rows) <= Durable
  /\ \A f, g \in rows : f.seq = g.seq => f = g
  /\ \A n \in Nodes : \A s \in h[n] : s <= last
  /\ last <= top
  /\ \A f \in rows : f.seq <= top

\* A snapshot holds nothing newer than its number, and that is not newer than what arrived.
SnapshotInv(x, top) ==
  /\ x \in Snapshots
  /\ x.latest <= top
  /\ \A g \in x.frames : g.seq <= x.latest

\* The handler: the frames of a delta that needs a snapshot are not newer than its number.
HandlerInv(x, top) ==
  /\ x \in Handlers
  /\ x.cursor <= top /\ x.latest <= top
  /\ \A f \in x.frames : f.seq <= top
  /\ SnapshotInv(x.snapshot, top)
  /\ x.at \in {"replay", "sendReplay"} => \A g \in x.frames : g.seq <= x.latest

BrowserInv(b, top) ==
  /\ b \in Browsers
  /\ b.url <= top /\ b.id <= top /\ b.top <= top

Covers(x, f) == \E g \in x.frames : g.node = f.node /\ g.seq >= f.seq

\* A frame that is owed: its node has one at least as new, and itself or a mark that it was
\* pruned; no other node has its number.
Kept(h, p, f) ==
  /\ \E s \in h[f.node] : s >= f.seq
  /\ \/ f.seq \in h[f.node]
     \/ p[f.node] /\ \A s \in h[f.node] : f.seq < s
  /\ \A n \in Nodes : f.seq \in h[n] => n = f.node

\* The browser is not past it.
Behind(b, f) == b.url < f.seq /\ b.id < f.seq /\ b.top < f.seq

\* A snapshot has it or is older.
HasOrOlder(x, f) == Covers(x, f) \/ x.latest < f.seq

\* The handler is not past it, and has it in hand when it is about to pass it.
Serves(x, f) ==
  /\ x.cursor < f.seq
  /\ \A g \in x.frames : g.seq = f.seq => g = f
  /\ x.at = "sendFirst" => Covers(x.snapshot, f)
  /\ x.at # "number"
  /\ x.at \in {"poll", "replay", "sendReplay", "send"} => x.cursor # 0
  /\ x.at = "sendReplay" =>
       Covers(x.snapshot, f) \/ (x.latest < f.seq /\ x.snapshot.latest < f.seq)
  /\ x.at = "send" => f \in x.frames \/ \A g \in x.frames : g.seq < f.seq

OwedInv(f) ==
  /\ f \in AllFrames /\ f.seq <= newest
  /\ Kept(history, pruned, f) /\ Behind(browser, f) /\ HasOrOlder(fetched, f)
  /\ Serves(stream, f)

StreamInv ==
  /\ newest \in Counts
  /\ BuffersInv(history, pruned, newestKept, durable, newest)
  /\ HandlerInv(stream, newest)
  /\ BrowserInv(browser, newest)
  /\ SnapshotInv(fetched, newest)
  /\ \A f \in owed : OwedInv(f)

-----------------------------------------------------------------------------
(* Largest and smallest numbers.                                            *)

\* Max of numbers that have a bound is the largest of them.
LEMMA MaxIsLargest ==
  ASSUME NEW b \in Nat, NEW S \in SUBSET (0..b), S # {}
  PROVE  Stream!Max(S) \in S /\ Stream!Max(S) \in 0..b /\ \A y \in S : y <= Stream!Max(S)
<1>1. PICK g \in S : \A x \in S : x <= g
  BY LargestExists
<1>2. \A y \in S : g >= y
  BY <1>1
<1>3. Stream!Max(S) \in S /\ \A y \in S : Stream!Max(S) >= y
  BY <1>2 DEF Stream!Max
<1>4. Stream!Max(S) \in 0..b
  BY <1>3
<1> QED BY <1>3, <1>4

LEMMA MinIsSmallest ==
  ASSUME NEW b \in Nat, NEW S \in SUBSET (0..b), S # {}
  PROVE  Stream!Min(S) \in S /\ Stream!Min(S) \in 0..b /\ \A y \in S : Stream!Min(S) <= y
<1> DEFINE T == {b - x : x \in S}
<1>1. T \in SUBSET (0..b) /\ T # {}
  <2>1. ASSUME NEW x \in S PROVE b - x \in 0..b
    <3>1. x \in 0..b
      OBVIOUS
    <3> QED BY <3>1
  <2>2. PICK x \in S : TRUE
    OBVIOUS
  <2>3. b - x \in T
    OBVIOUS
  <2> QED BY <2>1, <2>3
<1>2. PICK g \in T : \A x \in T : x <= g
  <2> HIDE DEF T
  <2> QED BY <1>1, LargestExists
<1>3. PICK m \in S : g = b - m
  OBVIOUS
<1>4. ASSUME NEW y \in S PROVE m <= y
  <2>1. y \in 0..b /\ m \in 0..b /\ b - y \in T
    OBVIOUS
  <2> HIDE DEF T
  <2>2. b - y <= b - m
    BY <1>2, <1>3, <2>1
  <2> QED BY <2>1, <2>2
<1>5. Stream!Min(S) \in S /\ \A y \in S : Stream!Min(S) <= y
  BY <1>4 DEF Stream!Min
<1>6. Stream!Min(S) \in 0..b
  BY <1>5
<1> QED BY <1>5, <1>6

\* The larger of two numbers.
LEMMA MaxOfTwo ==
  ASSUME NEW x \in Nat, NEW y \in Nat
  PROVE  /\ Stream!Max({x, y}) \in {x, y}
         /\ Stream!Max({x, y}) >= x /\ Stream!Max({x, y}) >= y
<1>1. \E z \in {x, y} : \A u \in {x, y} : z >= u
  OBVIOUS
<1> QED BY <1>1 DEF Stream!Max

LEMMA NumbersBounded ==
  ASSUME StreamSound, NEW S \in SUBSET FrameNumbers
  PROVE  S \in SUBSET (0..MaxSequence) /\ \A s \in S : s \in Nat /\ s <= MaxSequence /\ s > 0
<1>1. MaxSequence \in Nat
  BY DEF StreamSound
<1>2. ASSUME NEW s \in S PROVE s \in 0..MaxSequence /\ s \in Nat /\ s <= MaxSequence /\ s > 0
  <2>1. s \in FrameNumbers
    OBVIOUS
  <2> QED BY <1>1, <2>1 DEF FrameNumbers
<1> QED BY <1>2

\* A part of bounded numbers is finite.
LEMMA NumbersFinite ==
  ASSUME StreamSound, NEW S \in SUBSET FrameNumbers
  PROVE  IsFiniteSet(S) /\ Cardinality(S) \in Nat
<1>1. IsFiniteSet(FrameNumbers)
  BY FS_Interval DEF StreamSound, FrameNumbers
<1>2. IsFiniteSet(S)
  BY <1>1, FS_Subset
<1> QED BY <1>2, FS_CardinalityType

-----------------------------------------------------------------------------
(* What ApplyHotRetention keeps.                                             *)

Newer(S, s) == {t \in S : t > s}

LEMMA StreamCounts ==
  \A S : Stream!Cardinality(S) = Cardinality(S)
BY DEF Stream!Cardinality, Cardinality

LEMMA HotMembers ==
  ASSUME NEW S
  PROVE  \A s : s \in Stream!Hot(S) <=> s \in S /\ Cardinality(Newer(S, s)) < HotCapacity
BY StreamCounts DEF Stream!Hot, Newer

LEMMA NewerFinite ==
  ASSUME StreamSound, NEW S \in SUBSET FrameNumbers, NEW s
  PROVE  IsFiniteSet(Newer(S, s)) /\ Cardinality(Newer(S, s)) \in Nat
<1>1. Newer(S, s) \in SUBSET FrameNumbers
  BY DEF Newer
<1> QED BY <1>1, NumbersFinite

\* What is dropped is older than what is kept.
LEMMA HotIsNewest ==
  ASSUME StreamSound, NEW S \in SUBSET FrameNumbers,
         NEW s \in S \ Stream!Hot(S), NEW t \in Stream!Hot(S)
  PROVE  s < t
<1> SUFFICES ASSUME ~(s < t) PROVE FALSE
  OBVIOUS
<1>1. s \in Nat /\ t \in Nat /\ t \in S
  BY HotMembers, NumbersBounded
<1>2. Cardinality(Newer(S, t)) < HotCapacity
  BY HotMembers
<1>3. ~(Cardinality(Newer(S, s)) < HotCapacity)
  BY HotMembers
<1>4. Newer(S, s) \in SUBSET Newer(S, t)
  <2>1. ASSUME NEW u \in S, u > s PROVE u > t
    <3>1. u \in Nat
      BY DEF FrameNumbers
    <3> QED BY <1>1, <2>1, <3>1
  <2> QED BY <2>1 DEF Newer
<1>5. Cardinality(Newer(S, s)) <= Cardinality(Newer(S, t))
  BY <1>4, NewerFinite, FS_Subset
<1> QED BY <1>2, <1>3, <1>5, NewerFinite DEF StreamSound

\* The newest number is kept.
LEMMA HotKeepsNewest ==
  ASSUME StreamSound, NEW S \in SUBSET FrameNumbers, NEW m \in S, \A y \in S : y <= m
  PROVE  m \in Stream!Hot(S)
<1>1. Newer(S, m) = {}
  <2>1. ASSUME NEW t \in S PROVE ~(t > m)
    <3>1. t <= m /\ t \in Nat /\ m \in Nat
      BY DEF FrameNumbers
    <3> QED BY <3>1
  <2> QED BY <2>1 DEF Newer
<1>2. Cardinality(Newer(S, m)) < HotCapacity
  BY <1>1, FS_EmptySet DEF StreamSound
<1> QED BY <1>2, HotMembers

LEMMA HotIsPart ==
  ASSUME NEW S
  PROVE  Stream!Hot(S) \subseteq S
BY DEF Stream!Hot

\* No more than the capacity is kept.
LEMMA HotIsBounded ==
  ASSUME StreamSound, NEW S \in SUBSET FrameNumbers
  PROVE  Cardinality(Stream!Hot(S)) <= HotCapacity
<1> DEFINE H == Stream!Hot(S)
<1>1. H \in SUBSET S
  BY HotIsPart
<1>2. CASE H = {}
  BY <1>2, FS_EmptySet DEF StreamSound
<1>3. CASE H # {}
  <2>1. H \in SUBSET (0..MaxSequence) /\ MaxSequence \in Nat
    <3>1. H \in SUBSET FrameNumbers
      <4> HIDE DEF H
      <4> QED BY <1>1
    <3> HIDE DEF H
    <3> QED BY <3>1, NumbersBounded DEF StreamSound
  <2> DEFINE m == Stream!Min(H)
  <2>2. m \in H /\ \A y \in H : m <= y
    <3> HIDE DEF H
    <3> QED BY <1>3, <2>1, MinIsSmallest
  <2>3. Cardinality(Newer(S, m)) < HotCapacity
    BY <2>2, HotMembers
  <2>4. H \in SUBSET (Newer(S, m) \cup {m})
    <3>1. ASSUME NEW y \in H PROVE y \in Newer(S, m) \cup {m}
      <4>1. y \in Nat /\ m \in Nat /\ m <= y /\ y \in S
        <5> HIDE DEF m, H
        <5> QED BY <1>1, <2>1, <2>2
      <4> HIDE DEF m, H
      <4> QED BY <4>1 DEF Newer
    <3> HIDE DEF m, H
    <3> QED BY <3>1
  <2>5. /\ IsFiniteSet(Newer(S, m) \cup {m})
        /\ Cardinality(Newer(S, m) \cup {m}) <= Cardinality(Newer(S, m)) + 1
        /\ Cardinality(Newer(S, m) \cup {m}) \in Nat
    <3> HIDE DEF m
    <3>1. IsFiniteSet(Newer(S, m)) /\ Cardinality(Newer(S, m)) \in Nat
      BY NewerFinite
    <3> QED BY <3>1, FS_AddElement, FS_CardinalityType
  <2>6. Cardinality(H) <= Cardinality(Newer(S, m) \cup {m}) /\ IsFiniteSet(H)
    <3> HIDE DEF m, H
    <3> QED BY <2>4, <2>5, FS_Subset
  <2>7. Cardinality(H) \in Nat /\ Cardinality(Newer(S, m)) \in Nat
    <3> HIDE DEF m, H
    <3> QED BY <2>6, FS_CardinalityType, NewerFinite
  <2> HIDE DEF m, H
  <2>8. Cardinality(H) <= HotCapacity
    BY <2>3, <2>5, <2>6, <2>7 DEF StreamSound
  <2> QED BY <2>8 DEF H
<1> QED BY <1>2, <1>3

-----------------------------------------------------------------------------
(* Sets of frames.                                                          *)

LEMMA AllFramesFinite ==
  ASSUME StreamSound
  PROVE  IsFiniteSet(AllFrames)
<1> DEFINE P == Nodes \X FrameNumbers
           F == [p \in P |-> [node |-> p[1], seq |-> p[2]]]
<1>1. IsFiniteSet(FrameNumbers)
  BY NumbersFinite
<1>2. IsFiniteSet(P)
  BY <1>1, FS_Product DEF StreamSound
<1>3. F \in [P -> AllFrames]
  BY DEF AllFrames
<1>4. ASSUME NEW f \in AllFrames PROVE \E p \in P : F[p] = f
  <2>1. <<f.node, f.seq>> \in P
    BY DEF AllFrames
  <2>2. F[<<f.node, f.seq>>] = f
    BY <2>1 DEF AllFrames
  <2> QED BY <2>1, <2>2
<1>5. F \in Surjection(P, AllFrames)
  <2> HIDE DEF F, P
  <2> QED BY <1>3, <1>4 DEF Surjection
<1> HIDE DEF F, P
<1> QED BY <1>2, <1>5, FS_Surjection

LEMMA FramesFinite ==
  ASSUME StreamSound, NEW D \in SUBSET AllFrames
  PROVE  IsFiniteSet(D) /\ Cardinality(D) \in Nat
<1>1. IsFiniteSet(D)
  BY AllFramesFinite, FS_Subset
<1> QED BY <1>1, FS_CardinalityType

LEMMA FrameParts ==
  ASSUME StreamSound, NEW f \in AllFrames
  PROVE  /\ f.node \in Nodes /\ f.seq \in FrameNumbers /\ f.seq \in Nat /\ f.seq > 0
         /\ f.seq <= MaxSequence
         /\ \A g \in AllFrames : f.node = g.node /\ f.seq = g.seq => f = g
<1>1. f.node \in Nodes /\ f.seq \in FrameNumbers
  BY DEF AllFrames
<1>2. \A g \in AllFrames : f.node = g.node /\ f.seq = g.seq => f = g
  BY DEF AllFrames
<1> QED BY <1>1, <1>2, NumbersBounded

LEMMA FrameOf ==
  ASSUME NEW n \in Nodes, NEW s \in FrameNumbers
  PROVE  /\ Stream!Frame(n, s) \in AllFrames
         /\ Stream!Frame(n, s).node = n /\ Stream!Frame(n, s).seq = s
BY DEF Stream!Frame, AllFrames

NewerFrames(D, k) == {h \in D : h.seq > k}

\* Of frames with different numbers, no more than the capacity are among its newest.
LEMMA NewestFramesBounded ==
  ASSUME StreamSound, NEW D \in SUBSET AllFrames, \A f, g \in D : f.seq = g.seq => f = g,
         NEW P \in SUBSET D, \A g \in P : Cardinality(NewerFrames(D, g.seq)) < Durable
  PROVE  Cardinality(P) <= Durable
<1>1. CASE P = {}
  BY <1>1, FS_EmptySet DEF StreamSound
<1>2. CASE P # {}
  <2> DEFINE S == {g.seq : g \in P}
  <2>1. S \in SUBSET FrameNumbers /\ S # {}
    <3>1. ASSUME NEW g \in P PROVE g.seq \in FrameNumbers
      BY FrameParts
    <3> QED BY <1>2, <3>1
  <2>2. PICK k \in S : \A y \in S : k <= y
    <3> HIDE DEF S
    <3>1. S \in SUBSET (0..MaxSequence) /\ MaxSequence \in Nat
      BY <2>1, NumbersBounded DEF StreamSound
    <3> QED BY <2>1, <3>1, MinIsSmallest
  <2>3. PICK m \in P : m.seq = k
    OBVIOUS
  <2> DEFINE N == NewerFrames(D, k)
  <2>4. P \in SUBSET (N \cup {m})
    <3>1. ASSUME NEW g \in P, g # m PROVE g \in N
      <4>1. k <= g.seq
        BY <2>2
      <4>2. g.seq # k
        BY <2>3, <3>1
      <4>3. g.seq \in Nat /\ k \in Nat
        BY <2>3, FrameParts
      <4> QED BY <4>1, <4>2, <4>3 DEF NewerFrames
    <3> HIDE DEF N
    <3> QED BY <3>1
  <2>5. Cardinality(N) < Durable
    BY <2>3
  <2>6. N \in SUBSET AllFrames
    BY DEF NewerFrames
  <2> HIDE DEF N, S
  <2>7. IsFiniteSet(N) /\ Cardinality(N) \in Nat
    BY <2>6, FramesFinite
  <2>8. /\ IsFiniteSet(N \cup {m})
        /\ Cardinality(N \cup {m}) <= Cardinality(N) + 1
        /\ Cardinality(N \cup {m}) \in Nat
    <3>1. /\ IsFiniteSet(N \cup {m})
          /\ Cardinality(N \cup {m}) = IF m \in N THEN Cardinality(N) ELSE Cardinality(N) + 1
      BY <2>7, FS_AddElement
    <3> QED BY <2>7, <3>1
  <2>9. Cardinality(P) <= Cardinality(N \cup {m})
    BY <2>4, <2>8, FS_Subset
  <2>10. Cardinality(P) \in Nat
    <3>1. P \in SUBSET AllFrames
      OBVIOUS
    <3> QED BY <3>1, FramesFinite
  <2> QED BY <2>5, <2>7, <2>8, <2>9, <2>10 DEF StreamSound
<1> QED BY <1>1, <1>2

\* PersistFrame keeps a number once and no more frames than the capacity.
LEMMA PersistedFrames ==
  ASSUME StreamSound, durable \in SUBSET AllFrames, NEW f \in AllFrames,
         \A g, h \in durable : g.seq = h.seq => g = h
  PROVE  /\ Stream!Persisted(f) \in SUBSET (durable \cup {f})
         /\ Cardinality(Stream!Persisted(f)) <= Durable
         /\ \A g, h \in Stream!Persisted(f) : g.seq = h.seq => g = h
<1> DEFINE D == {g \in durable : g.seq # f.seq} \cup {f}
           P == {g \in D : Cardinality(NewerFrames(D, g.seq)) < Durable}
<1>1. Stream!Persisted(f) = P
  BY StreamCounts DEF Stream!Persisted, NewerFrames
<1>2. D \in SUBSET AllFrames /\ D \in SUBSET (durable \cup {f})
  OBVIOUS
<1>3. \A g, h \in D : g.seq = h.seq => g = h
  OBVIOUS
<1>4. P \in SUBSET D /\ \A g \in P : Cardinality(NewerFrames(D, g.seq)) < Durable
  <2> HIDE DEF D
  <2> QED OBVIOUS
<1> HIDE DEF D, P
<1>5. Cardinality(P) <= Durable
  BY <1>2, <1>3, <1>4, NewestFramesBounded
<1> QED BY <1>1, <1>2, <1>3, <1>4, <1>5

-----------------------------------------------------------------------------
(* Snapshots and deltas.                                                    *)

\* The history of a node.
LEMMA HistoryOf ==
  ASSUME StreamSound, history \in [Nodes -> SUBSET FrameNumbers], NEW n \in Nodes
  PROVE  /\ history[n] \in SUBSET FrameNumbers
         /\ history[n] \in SUBSET (0..MaxSequence)
         /\ MaxSequence \in Nat
         /\ \A s \in history[n] : s \in FrameNumbers /\ s \in Nat /\ s > 0
<1>1. history[n] \in SUBSET FrameNumbers
  OBVIOUS
<1> QED BY <1>1, NumbersBounded DEF StreamSound

\* A snapshot that is built now holds nothing newer than its number, and has every frame of
\* which the store has one at least as new.
LEMMA SnapshotNow ==
  ASSUME StreamSound, StreamInv
  PROVE  /\ SnapshotInv(Stream!Snapshot, newest)
         /\ \A f \in owed : Covers(Stream!Snapshot, f)
<1> DEFINE M == {m \in Nodes : history[m] # {}}
           R == {Stream!Frame(n, Stream!Max(history[n])) : n \in M}
<1>1. Stream!Snapshot = [frames |-> R, latest |-> newestKept]
  BY DEF Stream!Snapshot
<1>2. /\ history \in [Nodes -> SUBSET FrameNumbers] /\ newestKept \in Counts
      /\ newest \in Counts /\ newestKept <= newest
      /\ \A n \in Nodes : \A s \in history[n] : s <= newestKept
  BY DEF StreamInv, BuffersInv
<1>3. ASSUME NEW n \in M
      PROVE  LET g == Stream!Frame(n, Stream!Max(history[n]))
             IN  /\ g \in AllFrames /\ g.node = n /\ g.seq \in history[n]
                 /\ \A s \in history[n] : s <= g.seq
  <2> DEFINE m == Stream!Max(history[n])
  <2>1. m \in history[n] /\ \A s \in history[n] : s <= m
    BY <1>2, HistoryOf, MaxIsLargest
  <2>2. m \in FrameNumbers
    BY <1>2, <2>1, HistoryOf
  <2> HIDE DEF m
  <2>3. Stream!Frame(n, m) \in AllFrames /\ Stream!Frame(n, m).node = n
        /\ Stream!Frame(n, m).seq = m
    BY <2>2, FrameOf
  <2> QED BY <2>1, <2>3 DEF m
<1>4. R \in SUBSET AllFrames
  BY <1>3
<1>5. \A g \in R : g.seq <= newestKept
  BY <1>2, <1>3
<1>6. ASSUME NEW f \in owed PROVE \E g \in R : g.node = f.node /\ g.seq >= f.seq
  <2>1. f \in AllFrames /\ \E s \in history[f.node] : s >= f.seq
    BY DEF StreamInv, OwedInv, Kept
  <2>2. f.node \in Nodes /\ f.seq \in Nat
    BY <2>1, FrameParts
  <2>3. PICK s \in history[f.node] : s >= f.seq
    BY <2>1
  <2>4. f.node \in M
    BY <2>2, <2>3
  <2> DEFINE g == Stream!Frame(f.node, Stream!Max(history[f.node]))
  <2>5. g \in R
    BY <2>4
  <2>6. g.node = f.node /\ g.seq \in history[f.node] /\ s <= g.seq
    BY <1>3, <2>3, <2>4
  <2>7. s \in Nat /\ g.seq \in Nat
    <3> HIDE DEF g
    <3> QED BY <1>2, <2>2, <2>3, <2>6, HistoryOf
  <2> HIDE DEF g, R
  <2>8. g.seq >= f.seq
    BY <2>2, <2>3, <2>6, <2>7
  <2> QED BY <2>5, <2>6, <2>8
<1> HIDE DEF R
<1>7. SnapshotInv(Stream!Snapshot, newest)
  BY <1>1, <1>2, <1>4, <1>5 DEF SnapshotInv, Snapshots
<1>8. \A f \in owed : Covers(Stream!Snapshot, f)
  BY <1>1, <1>6 DEF Covers
<1> QED BY <1>7, <1>8

\* The frames after a number.
LEMMA AfterMembers ==
  ASSUME StreamSound, history \in [Nodes -> SUBSET FrameNumbers], NEW k \in Nat
  PROVE  /\ Stream!FramesAfter(k) \in SUBSET AllFrames
         /\ \A f \in AllFrames :
              f \in Stream!FramesAfter(k) <=> f.seq \in history[f.node] /\ f.seq > k
<1>1. ASSUME NEW f \in Stream!FramesAfter(k)
      PROVE  f \in AllFrames /\ f.seq \in history[f.node] /\ f.seq > k
  <2>1. PICK n \in Nodes : f \in {Stream!Frame(n, s) : s \in {t \in history[n] : t > k}}
    BY DEF Stream!FramesAfter
  <2>2. PICK s \in history[n] : s > k /\ f = Stream!Frame(n, s)
    BY <2>1
  <2>3. s \in FrameNumbers
    BY HistoryOf
  <2> QED BY <2>2, <2>3, FrameOf
<1>2. ASSUME NEW f \in AllFrames, f.seq \in history[f.node], f.seq > k
      PROVE  f \in Stream!FramesAfter(k)
  <2>1. f.node \in Nodes /\ f = Stream!Frame(f.node, f.seq)
    BY DEF AllFrames, Stream!Frame
  <2>2. f \in {Stream!Frame(f.node, s) : s \in {t \in history[f.node] : t > k}}
    BY <1>2, <2>1
  <2> QED BY <2>1, <2>2 DEF Stream!FramesAfter
<1> QED BY <1>1, <1>2

\* A delta has frames after its number only, and all of them when it needs no snapshot.
LEMMA DeltaMembers ==
  ASSUME StreamSound, history \in [Nodes -> SUBSET FrameNumbers], NEW k \in Nat,
         NEW T \in Stream!DeltaFrames(k)
  PROVE  /\ T \in SUBSET Stream!FramesAfter(k)
         /\ ~Stream!ReplayRequired(k) => T = Stream!FramesAfter(k)
<1> DEFINE A == Stream!FramesAfter(k)
<1>1. T \in SUBSET A
  BY DEF Stream!DeltaFrames
<1>2. Cardinality(T) = Stream!Min({BatchLimit, Cardinality(A)})
  BY StreamCounts DEF Stream!DeltaFrames
<1>3. A \in SUBSET AllFrames
  BY AfterMembers
<1>4. ASSUME ~Stream!ReplayRequired(k) PROVE T = A
  <2>1. ~(Cardinality(A) > BatchLimit)
    BY <1>4, StreamCounts DEF Stream!ReplayRequired
  <2> HIDE DEF A
  <2>2. IsFiniteSet(A) /\ Cardinality(A) \in Nat
    BY <1>3, FramesFinite
  <2>3. Stream!Min({BatchLimit, Cardinality(A)}) = Cardinality(A)
    <3> DEFINE a == Cardinality(A)
    <3> HIDE DEF a
    <3>1. a \in Nat /\ BatchLimit \in Nat /\ a <= BatchLimit
      BY <2>1, <2>2 DEF a, StreamSound
    <3>2. Stream!Min({BatchLimit, a}) = a
      <4>1. a \in {BatchLimit, a} /\ \A y \in {BatchLimit, a} : a <= y
        BY <3>1
      <4>2. ASSUME NEW x \in {BatchLimit, a}, \A y \in {BatchLimit, a} : x <= y PROVE x = a
        BY <3>1, <4>2
      <4> QED BY <4>1, <4>2 DEF Stream!Min
    <3> QED BY <3>2 DEF a
  <2> QED BY <1>1, <1>2, <2>2, <2>3, FS_Subset
<1> QED BY <1>1, <1>4

-----------------------------------------------------------------------------
(* Steps of the handler.                                                    *)

\* The facts of the invariant that the steps use.
LEMMA StreamFacts ==
  ASSUME StreamSound, StreamInv
  PROVE  /\ history \in [Nodes -> SUBSET FrameNumbers] /\ newestKept \in Nat /\ newest \in Nat
         /\ newestKept <= newest /\ newest <= MaxSequence /\ MaxSequence \in Nat
         /\ newestKept \in Counts /\ newest \in Counts
         /\ \A n \in Nodes : \A s \in history[n] : s <= newestKept
         /\ stream \in Handlers /\ stream.cursor \in Nat /\ stream.latest \in Nat
         /\ stream.snapshot \in Snapshots /\ stream.snapshot.latest \in Nat
         /\ browser \in Browsers /\ browser.url \in Nat /\ browser.id \in Nat
         /\ browser.top \in Nat
         /\ fetched \in Snapshots /\ fetched.latest \in Nat
         /\ \A f \in owed : f \in AllFrames
<1>1. MaxSequence \in Nat
  BY DEF StreamSound
<1>2. /\ newest \in Counts /\ newestKept \in Counts /\ newestKept <= newest
      /\ history \in [Nodes -> SUBSET FrameNumbers]
      /\ \A n \in Nodes : \A s \in history[n] : s <= newestKept
  BY DEF StreamInv, BuffersInv
<1>3. /\ stream \in Handlers /\ browser \in Browsers /\ fetched \in Snapshots
      /\ \A f \in owed : f \in AllFrames
  BY DEF StreamInv, HandlerInv, BrowserInv, SnapshotInv, OwedInv
<1>4. stream.cursor \in Counts /\ stream.latest \in Counts /\ stream.snapshot \in Snapshots
  BY <1>3 DEF Handlers
<1>5. stream.snapshot.latest \in Counts /\ fetched.latest \in Counts
  BY <1>3, <1>4 DEF Snapshots
<1>6. browser.url \in Counts /\ browser.id \in Counts /\ browser.top \in Counts
  BY <1>3 DEF Browsers
<1> QED BY <1>1, <1>2, <1>3, <1>4, <1>5, <1>6 DEF Counts

\* A step that changes the handler only.
LEMMA HandlerStep ==
  ASSUME StreamInv, UNCHANGED <<history, pruned, newestKept, durable, browser, fetched, newest, owed>>,
         HandlerInv(stream', newest), \A f \in owed : Serves(stream', f)
  PROVE  StreamInv'
<1>1. newest' \in Counts
  BY DEF StreamInv
<1>2. BuffersInv(history', pruned', newestKept', durable', newest')
  BY DEF StreamInv
<1>3. BrowserInv(browser', newest') /\ SnapshotInv(fetched', newest')
  BY DEF StreamInv
<1>4. ASSUME NEW f \in owed PROVE OwedInv(f)'
  <2>1. OwedInv(f) /\ Serves(stream', f)
    BY DEF StreamInv
  <2> QED BY <2>1 DEF OwedInv
<1>5. \A f \in owed' : OwedInv(f)'
  BY <1>4
<1> QED BY <1>1, <1>2, <1>3, <1>5 DEF StreamInv

LEMMA InitialDeltaStep ==
  ASSUME StreamSound, StreamInv, Stream!InitialDelta
  PROVE  StreamInv'
<1> USE StreamFacts
<1>1. stream.at = "initial" /\ HandlerInv(stream, newest) /\ \A f \in owed : Serves(stream, f)
  BY DEF Stream!InitialDelta, StreamInv, OwedInv
<1>2. /\ \/ stream' = [stream EXCEPT !.at = "first"]
         \/ stream.cursor # 0 /\ stream' = [stream EXCEPT !.at = "poll"]
      /\ UNCHANGED <<history, pruned, newestKept, durable, browser, fetched, newest, owed>>
  BY DEF Stream!InitialDelta, Stream!store, Stream!ghosts
<1>3. /\ stream' \in Handlers /\ stream'.at \in {"first", "poll"}
      /\ stream'.at = "poll" => stream.cursor # 0
      /\ stream'.cursor = stream.cursor /\ stream'.frames = stream.frames
      /\ stream'.latest = stream.latest /\ stream'.snapshot = stream.snapshot
  BY <1>1, <1>2 DEF Handlers, Steps
<1>4. HandlerInv(stream', newest)
  BY <1>1, <1>3 DEF HandlerInv
<1>5. \A f \in owed : Serves(stream', f)
  BY <1>1, <1>3 DEF Serves
<1> QED BY <1>2, <1>4, <1>5, HandlerStep

LEMMA FirstSnapshotStep ==
  ASSUME StreamSound, StreamInv, Stream!FirstSnapshot
  PROVE  StreamInv'
<1> USE StreamFacts
<1>1. stream.at = "first" /\ HandlerInv(stream, newest) /\ \A f \in owed : Serves(stream, f)
  BY DEF Stream!FirstSnapshot, StreamInv, OwedInv
<1>2. /\ stream' = [stream EXCEPT !.at = "sendFirst", !.snapshot = Stream!Snapshot]
      /\ UNCHANGED <<history, pruned, newestKept, durable, browser, fetched, newest, owed>>
  BY DEF Stream!FirstSnapshot, Stream!store, Stream!ghosts
<1> DEFINE x == Stream!Snapshot
<1>3. SnapshotInv(x, newest) /\ \A f \in owed : Covers(x, f)
  BY SnapshotNow
<1> HIDE DEF x
<1>4. /\ stream' \in Handlers /\ stream'.at = "sendFirst"
      /\ stream'.cursor = stream.cursor /\ stream'.frames = stream.frames
      /\ stream'.latest = stream.latest /\ stream'.snapshot = x
  BY <1>1, <1>2, <1>3 DEF Handlers, Steps, SnapshotInv, x
<1>5. HandlerInv(stream', newest)
  BY <1>1, <1>3, <1>4 DEF HandlerInv
<1>6. \A f \in owed : Serves(stream', f)
  BY <1>1, <1>3, <1>4 DEF Serves
<1> QED BY <1>2, <1>5, <1>6, HandlerStep

LEMMA ReplayStep ==
  ASSUME StreamSound, StreamInv, Stream!Replay
  PROVE  StreamInv'
<1> USE StreamFacts
<1>1. stream.at = "replay" /\ HandlerInv(stream, newest) /\ \A f \in owed : Serves(stream, f)
  BY DEF Stream!Replay, StreamInv, OwedInv
<1>2. /\ stream' = [stream EXCEPT !.at = "sendReplay", !.snapshot = Stream!Snapshot]
      /\ UNCHANGED <<history, pruned, newestKept, durable, browser, fetched, newest, owed>>
  BY DEF Stream!Replay, Stream!store, Stream!ghosts
<1> DEFINE x == Stream!Snapshot
<1>3. SnapshotInv(x, newest) /\ \A f \in owed : Covers(x, f)
  BY SnapshotNow
<1> HIDE DEF x
<1>4. /\ stream' \in Handlers /\ stream'.at = "sendReplay"
      /\ stream'.cursor = stream.cursor /\ stream'.frames = stream.frames
      /\ stream'.latest = stream.latest /\ stream'.snapshot = x
  BY <1>1, <1>2, <1>3 DEF Handlers, Steps, SnapshotInv, x
<1>5. HandlerInv(stream', newest)
  BY <1>1, <1>3, <1>4 DEF HandlerInv
<1>6. \A f \in owed : Serves(stream', f)
  BY <1>1, <1>3, <1>4 DEF Serves
<1> QED BY <1>2, <1>5, <1>6, HandlerStep

LEMMA StartNumberStep ==
  ASSUME StreamSound, StreamInv, Stream!StartNumber
  PROVE  StreamInv'
<1> USE StreamFacts
<1>1. stream.at = "number" /\ HandlerInv(stream, newest) /\ owed = {}
  BY DEF Stream!StartNumber, StreamInv, OwedInv, Serves
<1> DEFINE k == Stream!Max({stream.cursor, newestKept})
<1>2. /\ stream' = [stream EXCEPT !.at = "poll", !.cursor = k]
      /\ UNCHANGED <<history, pruned, newestKept, durable, browser, fetched, newest, owed>>
  BY DEF Stream!StartNumber, Stream!store, Stream!ghosts
<1>3. k \in Nat /\ k <= newest
  <2>1. k \in {stream.cursor, newestKept}
    BY MaxOfTwo
  <2>2. stream.cursor <= newest
    BY <1>1 DEF HandlerInv
  <2> HIDE DEF k
  <2> QED BY <2>1, <2>2
<1> HIDE DEF k
<1>4. k \in Counts
  BY <1>3 DEF Counts
<1>5. /\ stream' \in Handlers /\ stream'.at = "poll"
      /\ stream'.cursor = k /\ stream'.frames = stream.frames
      /\ stream'.latest = stream.latest /\ stream'.snapshot = stream.snapshot
  BY <1>1, <1>2, <1>4 DEF Handlers, Steps
<1>6. HandlerInv(stream', newest)
  BY <1>1, <1>3, <1>5 DEF HandlerInv
<1> QED BY <1>1, <1>2, <1>6, HandlerStep

\* A frame that is owed and that a delta after the cursor does not have was pruned, and
\* the delta says so.
LEMMA OwedIsInDelta ==
  ASSUME StreamSound, StreamInv, NEW f \in owed, stream.cursor # 0,
         ~Stream!ReplayRequired(stream.cursor)
  PROVE  f \in Stream!FramesAfter(stream.cursor)
<1> USE StreamFacts
<1>1. f \in AllFrames /\ stream.cursor < f.seq /\ Kept(history, pruned, f)
  BY DEF StreamInv, OwedInv, Serves
<1>2. f.node \in Nodes /\ f.seq \in Nat
  BY <1>1, FrameParts
<1>3. CASE f.seq \in history[f.node]
  <2>1. f.seq > stream.cursor
    BY <1>1, <1>2
  <2> QED BY <1>1, <1>3, <2>1, AfterMembers
<1>4. CASE pruned[f.node] /\ \A s \in history[f.node] : f.seq < s
  <2>1. history[f.node] # {}
    BY <1>1 DEF Kept
  <2> DEFINE m == Stream!Min(history[f.node])
  <2>2. m \in history[f.node] /\ m \in Nat
    <3>1. history[f.node] \in SUBSET (0..MaxSequence) /\ MaxSequence \in Nat
      BY <1>2, HistoryOf
    <3>2. m \in history[f.node] /\ m \in 0..MaxSequence
      BY <2>1, <3>1, MinIsSmallest
    <3> HIDE DEF m
    <3> QED BY <3>2
  <2>3. stream.cursor < m
    <3>1. f.seq < m
      BY <1>4, <2>2
    <3> HIDE DEF m
    <3> QED BY <1>1, <1>2, <2>2, <3>1
  <2>4. stream.cursor > 0
    OBVIOUS
  <2> QED BY <1>2, <1>4, <2>1, <2>3, <2>4 DEF Stream!ReplayRequired
<1> QED BY <1>1, <1>3, <1>4 DEF Kept

LEMMA PollStep ==
  ASSUME StreamSound, StreamInv, Stream!Poll
  PROVE  StreamInv'
<1> USE StreamFacts
<1>1. stream.at = "poll" /\ HandlerInv(stream, newest) /\ \A f \in owed : Serves(stream, f)
  BY DEF Stream!Poll, StreamInv, OwedInv
<1>2. UNCHANGED <<history, pruned, newestKept, durable, browser, fetched, newest, owed>>
  BY DEF Stream!Poll, Stream!store, Stream!ghosts
<1> DEFINE k == stream.cursor
<1>3. PICK T \in Stream!DeltaFrames(k) :
        stream' = IF Stream!ReplayRequired(k)
                  THEN [stream EXCEPT !.at = "replay", !.latest = newestKept,
                                      !.frames = IF LiveStream THEN T ELSE {}]
                  ELSE [stream EXCEPT !.at = IF T = {} THEN "poll" ELSE "send", !.frames = T]
  BY DEF Stream!Poll
<1>4. /\ T \in SUBSET AllFrames
      /\ \A g \in T : g.seq \in history[g.node] /\ g.node \in Nodes
      /\ \A g \in T : g.seq <= newestKept /\ g.seq <= newest
  <2>1. T \in SUBSET Stream!FramesAfter(k)
    BY DeltaMembers
  <2>2. T \in SUBSET AllFrames /\ \A g \in T : g.seq \in history[g.node]
    BY <2>1, AfterMembers
  <2>3. ASSUME NEW g \in T PROVE g.node \in Nodes /\ g.seq <= newestKept /\ g.seq <= newest
    <3>1. g.node \in Nodes /\ g.seq \in Nat
      BY <2>2, FrameParts
    <3>2. g.seq <= newestKept
      BY <2>2, <3>1
    <3> QED BY <3>1, <3>2
  <2> QED BY <2>2, <2>3
<1>5. ASSUME NEW f \in owed, NEW g \in T, g.seq = f.seq PROVE g = f
  <2>1. f \in AllFrames /\ Kept(history, pruned, f)
    BY DEF StreamInv, OwedInv
  <2>2. g.node = f.node
    BY <1>4, <1>5, <2>1 DEF Kept
  <2> QED BY <1>4, <1>5, <2>1, <2>2, FrameParts
<1>6. CASE Stream!ReplayRequired(k)
  <2>1. PICK F \in {T, {}} : stream' = [stream EXCEPT !.at = "replay", !.latest = newestKept,
                                                      !.frames = F]
    BY <1>3, <1>6
  <2>2. /\ stream' \in Handlers /\ stream'.at = "replay" /\ stream'.cursor = stream.cursor
        /\ stream'.frames = F /\ stream'.latest = newestKept
        /\ stream'.snapshot = stream.snapshot
    BY <1>1, <1>4, <2>1 DEF Handlers, Steps
  <2>3. HandlerInv(stream', newest)
    BY <1>1, <1>4, <2>2 DEF HandlerInv
  <2>4. \A f \in owed : Serves(stream', f)
    BY <1>1, <1>5, <2>2 DEF Serves
  <2> QED BY <1>2, <2>3, <2>4, HandlerStep
<1>7. CASE ~Stream!ReplayRequired(k)
  <2>1. PICK a \in {"poll", "send"} : stream' = [stream EXCEPT !.at = a, !.frames = T]
    BY <1>3, <1>7
  <2>2. /\ stream' \in Handlers /\ stream'.at = a /\ stream'.cursor = stream.cursor
        /\ stream'.frames = T /\ stream'.latest = stream.latest
        /\ stream'.snapshot = stream.snapshot
    BY <1>1, <1>4, <2>1 DEF Handlers, Steps
  <2>3. HandlerInv(stream', newest)
    BY <1>1, <1>4, <2>2 DEF HandlerInv
  <2>4. ASSUME NEW f \in owed PROVE Serves(stream', f)
    <3>1. Serves(stream, f) /\ k # 0
      BY <1>1 DEF Serves
    <3>2. f \in T
      BY <1>7, <3>1, OwedIsInDelta, DeltaMembers
    <3> QED BY <1>1, <1>5, <2>2, <3>1, <3>2 DEF Serves
  <2> QED BY <1>2, <2>3, <2>4, HandlerStep
<1> QED BY <1>6, <1>7

-----------------------------------------------------------------------------
(* Steps that tell the browser something.                                   *)

\* An id that is cut to the range of SSE ids is not larger than the number.
LEMMA IdIsSmaller ==
  ASSUME StreamSound, NEW k \in Nat
  PROVE  k % IdModulus \in Nat /\ k % IdModulus <= k
<1>1. IdModulus \in Nat /\ IdModulus > 0
  BY DEF StreamSound
<1> QED BY <1>1

\* What the browser has after a snapshot.
LEMMA ToldSnapshot ==
  ASSUME StreamSound, StreamInv, NEW x, SnapshotInv(x, newest), NEW i \in Nat, i <= newest,
         Stream!TellSnapshot(x, i)
  PROVE  /\ BrowserInv(browser', newest)
         /\ browser'.url = browser.url /\ browser'.id = i
         /\ browser'.top = browser.top \/ browser'.top <= x.latest
         /\ owed' = {f \in owed : ~Covers(x, f)}
<1> USE StreamFacts
<1> DEFINE S == {browser.top, x.latest} \cup {f.seq : f \in x.frames}
           m == Stream!Max(S)
<1>1. browser' = [browser EXCEPT !.top = m, !.id = i]
  BY DEF Stream!TellSnapshot
<1>2. owed' = {f \in owed : ~Covers(x, f)}
  BY DEF Stream!TellSnapshot, Covers
<1>3. /\ x.latest \in Nat /\ x.latest <= newest
      /\ \A f \in x.frames : f.seq \in Nat /\ f.seq <= x.latest
  <2>1. x \in Snapshots /\ x.latest <= newest /\ \A f \in x.frames : f.seq <= x.latest
    BY DEF SnapshotInv
  <2>2. x.latest \in Counts /\ x.frames \in SUBSET AllFrames
    BY <2>1 DEF Snapshots
  <2>3. x.latest \in Nat
    BY <2>2 DEF Counts
  <2> QED BY <2>1, <2>2, <2>3, FrameParts
<1>4. browser.top <= newest /\ browser.url <= newest
  BY DEF StreamInv, BrowserInv
<1>5. \A s \in S : s \in Nat /\ s <= newest /\ (s = browser.top \/ s <= x.latest)
  BY <1>3, <1>4
<1>6. m \in S
  <2>1. S \in SUBSET (0..newest) /\ S # {}
    <3>1. browser.top \in S
      OBVIOUS
    <3> HIDE DEF S
    <3> QED BY <1>5, <3>1
  <2> HIDE DEF S
  <2> QED BY <2>1, MaxIsLargest
<1>7. m \in Nat /\ m <= newest /\ (m = browser.top \/ m <= x.latest)
  <2> HIDE DEF S, m
  <2> QED BY <1>5, <1>6
<1> HIDE DEF m, S
<1>8. m \in Counts /\ i \in Counts
  BY <1>7 DEF Counts
<1>9. /\ browser' \in Browsers /\ browser'.url = browser.url /\ browser'.id = i
      /\ browser'.top = m
  BY <1>1, <1>8 DEF Browsers
<1> QED BY <1>2, <1>4, <1>7, <1>9 DEF BrowserInv

\* A step that leaves the store alone.
LEMMA TellStep ==
  ASSUME StreamInv, UNCHANGED <<history, pruned, newestKept, durable, newest>>,
         HandlerInv(stream', newest), BrowserInv(browser', newest),
         SnapshotInv(fetched', newest), owed' \in SUBSET owed,
         \A f \in owed' : Behind(browser', f) /\ HasOrOlder(fetched', f) /\ Serves(stream', f)
  PROVE  StreamInv'
<1>1. newest' \in Counts
  BY DEF StreamInv
<1>2. BuffersInv(history', pruned', newestKept', durable', newest')
  BY DEF StreamInv
<1>3. ASSUME NEW f \in owed' PROVE OwedInv(f)'
  <2>1. OwedInv(f)
    BY DEF StreamInv
  <2> QED BY <2>1 DEF OwedInv
<1> QED BY <1>1, <1>2, <1>3 DEF StreamInv

\* Nothing is in the empty snapshot and the closed stream.
LEMMA EmptyHands ==
  ASSUME StreamSound, newest \in Nat
  PROVE  /\ SnapshotInv(Stream!NoSnapshot, newest) /\ HandlerInv(Stream!Closed, newest)
         /\ BrowserInv(Stream!LoggedOut, newest)
         /\ \A f \in AllFrames : /\ HasOrOlder(Stream!NoSnapshot, f)
                                 /\ Serves(Stream!Closed, f) /\ Behind(Stream!LoggedOut, f)
<1>1. 0 \in Counts
  BY DEF Counts, StreamSound
<1>2. Stream!NoSnapshot = [frames |-> {}, latest |-> 0]
  BY DEF Stream!NoSnapshot
<1>3. SnapshotInv(Stream!NoSnapshot, newest)
  BY <1>1, <1>2 DEF SnapshotInv, Snapshots
<1>4. HandlerInv(Stream!Closed, newest)
  BY <1>1, <1>3 DEF HandlerInv, Stream!Closed, Handlers, Steps, SnapshotInv
<1>5. BrowserInv(Stream!LoggedOut, newest)
  BY <1>1 DEF BrowserInv, Browsers, Stream!LoggedOut
<1>6. ASSUME NEW f \in AllFrames
      PROVE  /\ HasOrOlder(Stream!NoSnapshot, f)
             /\ Serves(Stream!Closed, f) /\ Behind(Stream!LoggedOut, f)
  <2>1. f.seq \in Nat /\ 0 < f.seq
    BY FrameParts
  <2> QED BY <1>2, <2>1 DEF HasOrOlder, Serves, Behind, Stream!Closed, Stream!LoggedOut
<1> QED BY <1>3, <1>4, <1>5, <1>6

\* A handler that has just connected.
LEMMA ConnectStep ==
  ASSUME StreamSound, StreamInv, NEW k \in Nat, k <= newest,
         NEW x, x = [Stream!Closed EXCEPT !.at = "initial", !.cursor = k]
  PROVE  /\ HandlerInv(x, newest)
         /\ \A f \in owed : k < f.seq => Serves(x, f)
<1> USE StreamFacts
<1>1. k \in Counts /\ HandlerInv(Stream!Closed, newest)
  BY EmptyHands DEF Counts
<1>2. /\ x \in Handlers /\ x.at = "initial" /\ x.cursor = k /\ x.frames = {} /\ x.latest = 0
      /\ x.snapshot = Stream!NoSnapshot
  BY <1>1 DEF Stream!Closed, Handlers, Steps, HandlerInv
<1>3. HandlerInv(x, newest)
  BY <1>2, EmptyHands DEF HandlerInv
<1> QED BY <1>2, <1>3 DEF Serves

LEMMA OpenStep ==
  ASSUME StreamSound, StreamInv, Stream!Open
  PROVE  StreamInv'
<1> USE StreamFacts
<1>1. /\ browser' = [browser EXCEPT !.open = TRUE, !.url = browser.top, !.id = 0]
      /\ UNCHANGED <<history, pruned, newestKept, durable, fetched, newest, owed>>
      /\ Stream!Connect(browser')
  BY DEF Stream!Open, Stream!store, Stream!ghosts
<1>2. BrowserInv(browser, newest)
  BY DEF StreamInv
<1>3. /\ browser' \in Browsers /\ browser'.url = browser.top /\ browser'.id = 0
      /\ browser'.top = browser.top
  <2>1. 0 \in Counts
    BY DEF Counts
  <2>2. browser \in Browsers
    OBVIOUS
  <2>3. browser.top \in Counts
    BY <2>2 DEF Browsers
  <2> QED BY <1>1, <2>1, <2>2, <2>3 DEF Browsers
<1>4. BrowserInv(browser', newest)
  BY <1>2, <1>3 DEF BrowserInv
<1>5. stream' = [Stream!Closed EXCEPT !.at = "initial", !.cursor = browser.top]
  BY <1>1, <1>3 DEF Stream!Connect
<1>6. browser.top <= newest
  BY <1>2 DEF BrowserInv
<1>7. HandlerInv(stream', newest) /\ \A f \in owed : browser.top < f.seq => Serves(stream', f)
  BY <1>5, <1>6, ConnectStep
<1>8. ASSUME NEW f \in owed
      PROVE  Behind(browser', f) /\ HasOrOlder(fetched', f) /\ Serves(stream', f)
  <2>1. Behind(browser, f) /\ HasOrOlder(fetched, f) /\ f \in AllFrames
    BY DEF StreamInv, OwedInv
  <2>2. f.seq \in Nat /\ 0 < f.seq /\ browser.top < f.seq
    BY <2>1, FrameParts DEF Behind
  <2>3. Behind(browser', f)
    BY <1>3, <2>2 DEF Behind
  <2> QED BY <1>1, <1>7, <2>1, <2>2, <2>3
<1>9. SnapshotInv(fetched', newest)
  BY <1>1 DEF StreamInv
<1> QED BY <1>1, <1>4, <1>7, <1>8, <1>9, TellStep

LEMMA ReconnectStep ==
  ASSUME StreamSound, StreamInv, Stream!Reconnect
  PROVE  StreamInv'
<1> USE StreamFacts
<1>1. /\ UNCHANGED <<history, pruned, newestKept, durable, browser, fetched, newest, owed>>
      /\ Stream!Connect(browser)
  BY DEF Stream!Reconnect, Stream!store, Stream!ghosts
<1>2. PICK k \in {browser.url, browser.id} :
        stream' = [Stream!Closed EXCEPT !.at = "initial", !.cursor = k]
  BY <1>1 DEF Stream!Connect
<1>3. k \in Nat /\ k <= newest
  BY DEF StreamInv, BrowserInv
<1>4. HandlerInv(stream', newest) /\ \A f \in owed : k < f.seq => Serves(stream', f)
  BY <1>2, <1>3, ConnectStep
<1>5. ASSUME NEW f \in owed PROVE k < f.seq
  BY DEF StreamInv, OwedInv, Behind
<1> QED BY <1>1, <1>4, <1>5, HandlerStep

LEMMA BreakStep ==
  ASSUME StreamSound, StreamInv, Stream!Break
  PROVE  StreamInv'
<1> USE StreamFacts
<1>1. /\ UNCHANGED <<history, pruned, newestKept, durable, fetched, newest, owed>>
      /\ stream' = Stream!Closed /\ browser' \in {browser, Stream!LoggedOut}
  BY DEF Stream!Break, Stream!store, Stream!ghosts
<1>2. HandlerInv(stream', newest) /\ BrowserInv(browser', newest)
  BY <1>1, EmptyHands DEF StreamInv
<1>3. SnapshotInv(fetched', newest)
  BY <1>1 DEF StreamInv
<1>4. ASSUME NEW f \in owed
      PROVE  Behind(browser', f) /\ HasOrOlder(fetched', f) /\ Serves(stream', f)
  <2>1. Behind(browser, f) /\ HasOrOlder(fetched, f) /\ f \in AllFrames
    BY DEF StreamInv, OwedInv
  <2> QED BY <1>1, <2>1, EmptyHands
<1> QED BY <1>1, <1>2, <1>3, <1>4, TellStep

LEMMA FetchStep ==
  ASSUME StreamSound, StreamInv, Stream!Fetch
  PROVE  StreamInv'
<1> USE StreamFacts
<1>1. /\ UNCHANGED <<history, pruned, newestKept, durable, stream, browser, newest, owed>>
      /\ fetched' = Stream!Snapshot
  BY DEF Stream!Fetch, Stream!store, Stream!ghosts
<1>2. SnapshotInv(fetched', newest) /\ \A f \in owed : Covers(fetched', f)
  BY <1>1, SnapshotNow
<1>3. HandlerInv(stream', newest) /\ BrowserInv(browser', newest)
  BY <1>1 DEF StreamInv
<1>4. ASSUME NEW f \in owed
      PROVE  Behind(browser', f) /\ HasOrOlder(fetched', f) /\ Serves(stream', f)
  BY <1>1, <1>2 DEF StreamInv, OwedInv, HasOrOlder
<1> QED BY <1>1, <1>2, <1>3, <1>4, TellStep

LEMMA FetchFailsStep ==
  ASSUME StreamSound, StreamInv, Stream!FetchFails
  PROVE  StreamInv'
<1> USE StreamFacts
<1>1. /\ UNCHANGED <<history, pruned, newestKept, durable, stream, browser, newest, owed>>
      /\ fetched' = Stream!NoSnapshot
  BY DEF Stream!FetchFails, Stream!store, Stream!ghosts
<1>2. SnapshotInv(fetched', newest) /\ \A f \in owed : HasOrOlder(fetched', f)
  BY <1>1, EmptyHands
<1>3. HandlerInv(stream', newest) /\ BrowserInv(browser', newest)
  BY <1>1 DEF StreamInv
<1>4. ASSUME NEW f \in owed
      PROVE  Behind(browser', f) /\ HasOrOlder(fetched', f) /\ Serves(stream', f)
  BY <1>1, <1>2 DEF StreamInv, OwedInv
<1> QED BY <1>1, <1>2, <1>3, <1>4, TellStep

LEMMA FetchAnswersStep ==
  ASSUME StreamSound, StreamInv, Stream!FetchAnswers
  PROVE  StreamInv'
<1> USE StreamFacts
<1>1. /\ UNCHANGED <<history, pruned, newestKept, durable, stream, newest>>
      /\ fetched' = Stream!NoSnapshot /\ Stream!TellSnapshot(fetched, browser.id)
  BY DEF Stream!FetchAnswers, Stream!store
<1>2. SnapshotInv(fetched, newest) /\ browser.id <= newest /\ HandlerInv(stream, newest)
  BY DEF StreamInv, BrowserInv
<1>3. /\ BrowserInv(browser', newest)
      /\ browser'.url = browser.url /\ browser'.id = browser.id
      /\ browser'.top = browser.top \/ browser'.top <= fetched.latest
      /\ owed' = {f \in owed : ~Covers(fetched, f)}
  BY <1>1, <1>2, ToldSnapshot
<1>4. ASSUME NEW f \in owed'
      PROVE  Behind(browser', f) /\ HasOrOlder(fetched', f) /\ Serves(stream', f)
  <2>1. /\ f \in owed /\ Behind(browser, f) /\ fetched.latest < f.seq /\ Serves(stream, f)
        /\ f \in AllFrames
    BY <1>3 DEF StreamInv, OwedInv, HasOrOlder
  <2>2. f.seq \in Nat /\ browser'.top \in Nat
    <3>1. browser'.top \in Counts
      BY <1>3 DEF BrowserInv, Browsers
    <3> QED BY <2>1, <3>1, FrameParts DEF Counts
  <2>3. Behind(browser', f)
    BY <1>3, <2>1, <2>2 DEF Behind
  <2>4. HasOrOlder(fetched', f)
    BY <1>1, <2>1, EmptyHands
  <2> QED BY <1>1, <2>1, <2>3, <2>4
<1>5. SnapshotInv(fetched', newest) /\ HandlerInv(stream', newest)
  BY <1>1, <1>2, EmptyHands
<1> QED BY <1>1, <1>3, <1>4, <1>5, TellStep

LEMMA SendFirstStep ==
  ASSUME StreamSound, StreamInv, Stream!SendFirst
  PROVE  StreamInv'
<1> USE StreamFacts
<1>1. stream.at = "sendFirst" /\ HandlerInv(stream, newest) /\ \A f \in owed : Serves(stream, f)
  BY DEF Stream!SendFirst, StreamInv, OwedInv
<1> DEFINE i == newestKept % IdModulus
<1>2. /\ UNCHANGED <<history, pruned, newestKept, durable, fetched, newest>>
      /\ Stream!TellSnapshot(stream.snapshot, i)
      /\ stream' = [stream EXCEPT !.at = "number", !.snapshot = Stream!NoSnapshot]
  BY DEF Stream!SendFirst, Stream!store
<1>3. i \in Nat /\ i <= newest
  <2>1. i \in Nat /\ i <= newestKept
    BY IdIsSmaller
  <2> HIDE DEF i
  <2> QED BY <2>1
<1>4. SnapshotInv(stream.snapshot, newest)
  BY <1>1 DEF HandlerInv
<1> HIDE DEF i
<1>5. BrowserInv(browser', newest) /\ owed' = {f \in owed : ~Covers(stream.snapshot, f)}
  BY <1>2, <1>3, <1>4, ToldSnapshot
<1>6. owed' = {}
  BY <1>1, <1>5 DEF Serves
<1>7. SnapshotInv(Stream!NoSnapshot, newest)
  BY EmptyHands
<1>8. /\ stream' \in Handlers /\ stream'.at = "number" /\ stream'.cursor = stream.cursor
      /\ stream'.frames = stream.frames /\ stream'.latest = stream.latest
      /\ stream'.snapshot = Stream!NoSnapshot
  BY <1>2, <1>7 DEF Handlers, Steps, SnapshotInv
<1>9. HandlerInv(stream', newest)
  BY <1>1, <1>7, <1>8 DEF HandlerInv
<1>10. SnapshotInv(fetched', newest)
  BY <1>2 DEF StreamInv
<1> QED BY <1>2, <1>5, <1>6, <1>9, <1>10, TellStep

LEMMA SendReplayStep ==
  ASSUME StreamSound, StreamInv, Stream!SendReplay
  PROVE  StreamInv'
<1> USE StreamFacts
<1>1. stream.at = "sendReplay" /\ HandlerInv(stream, newest) /\ \A f \in owed : Serves(stream, f)
  BY DEF Stream!SendReplay, StreamInv, OwedInv
<1> DEFINE i == stream.latest % IdModulus
           k == Stream!Max({stream.cursor, stream.latest})
<1>2. /\ UNCHANGED <<history, pruned, newestKept, durable, fetched, newest>>
      /\ Stream!TellSnapshot(stream.snapshot, i)
  BY DEF Stream!SendReplay, Stream!store
<1>3. PICK a \in {"poll", "send"} :
        stream' = [stream EXCEPT !.at = a, !.cursor = k, !.latest = 0,
                                 !.snapshot = Stream!NoSnapshot]
  BY DEF Stream!SendReplay
<1>4. stream.latest <= newest /\ stream.cursor <= newest /\ SnapshotInv(stream.snapshot, newest)
  BY <1>1 DEF HandlerInv
<1>5. i \in Nat /\ i <= newest /\ i <= stream.latest
  <2>1. i \in Nat /\ i <= stream.latest
    BY IdIsSmaller
  <2> HIDE DEF i
  <2> QED BY <1>4, <2>1
<1>6. k \in Nat /\ k <= newest /\ k \in {stream.cursor, stream.latest} /\ k >= stream.cursor
  <2>1. k \in {stream.cursor, stream.latest} /\ k >= stream.cursor
    BY MaxOfTwo
  <2> HIDE DEF k
  <2> QED BY <1>4, <2>1
<1> HIDE DEF i, k
<1>7. /\ BrowserInv(browser', newest)
      /\ browser'.url = browser.url /\ browser'.id = i
      /\ browser'.top = browser.top \/ browser'.top <= stream.snapshot.latest
      /\ owed' = {f \in owed : ~Covers(stream.snapshot, f)}
  BY <1>2, <1>4, <1>5, ToldSnapshot
<1>8. SnapshotInv(Stream!NoSnapshot, newest) /\ 0 \in Counts /\ k \in Counts
  BY <1>6, EmptyHands DEF Counts
<1>9. /\ stream' \in Handlers /\ stream'.at = a /\ stream'.cursor = k
      /\ stream'.frames = stream.frames /\ stream'.latest = 0
      /\ stream'.snapshot = Stream!NoSnapshot
  BY <1>3, <1>8 DEF Handlers, Steps, SnapshotInv
<1>10. HandlerInv(stream', newest)
  BY <1>1, <1>6, <1>8, <1>9 DEF HandlerInv
<1>11. ASSUME NEW f \in owed'
       PROVE  Behind(browser', f) /\ HasOrOlder(fetched', f) /\ Serves(stream', f)
  <2>1. /\ f \in owed /\ Behind(browser, f) /\ HasOrOlder(fetched, f) /\ Serves(stream, f)
        /\ f \in AllFrames /\ ~Covers(stream.snapshot, f)
    BY <1>7 DEF StreamInv, OwedInv
  <2>2. stream.latest < f.seq /\ stream.snapshot.latest < f.seq /\ stream.cursor < f.seq
        /\ stream.cursor # 0
    BY <1>1, <2>1 DEF Serves
  <2>3. f.seq \in Nat /\ browser'.top \in Nat
    <3>1. browser'.top \in Counts
      BY <1>7 DEF BrowserInv, Browsers
    <3> QED BY <2>1, <3>1, FrameParts DEF Counts
  <2>4. Behind(browser', f)
    BY <1>5, <1>7, <2>1, <2>2, <2>3 DEF Behind
  <2>5. k < f.seq /\ k # 0
    BY <1>6, <2>2
  <2>6. ASSUME NEW g \in stream.frames PROVE g.seq < f.seq
    <3>1. g.seq <= stream.latest /\ g \in AllFrames
      BY <1>1 DEF HandlerInv, Handlers
    <3>2. g.seq \in Nat
      BY <3>1, FrameParts
    <3> QED BY <2>2, <2>3, <3>1, <3>2
  <2>7. Serves(stream', f)
    BY <1>9, <2>1, <2>5, <2>6 DEF Serves
  <2> QED BY <1>2, <2>1, <2>4, <2>7
<1>12. SnapshotInv(fetched', newest)
  BY <1>2 DEF StreamInv
<1> QED BY <1>2, <1>7, <1>10, <1>11, <1>12, TellStep

LEMMA SendFrameStep ==
  ASSUME StreamSound, StreamInv, Stream!SendFrame
  PROVE  StreamInv'
<1> USE StreamFacts
<1>1. stream.at = "send" /\ HandlerInv(stream, newest) /\ \A f \in owed : Serves(stream, f)
  BY DEF Stream!SendFrame, StreamInv, OwedInv
<1>2. UNCHANGED <<history, pruned, newestKept, durable, fetched, newest>>
  BY DEF Stream!SendFrame, Stream!store
<1>3. PICK f \in stream.frames :
        /\ \A g \in stream.frames : f.seq <= g.seq
        /\ Stream!TellFrame(f)
        /\ stream' = [stream EXCEPT !.frames = @ \ {f}, !.cursor = Stream!Max({@, f.seq}),
                                    !.at = IF stream.frames = {f} THEN "poll" ELSE "send"]
  BY DEF Stream!SendFrame
<1> DEFINE i == f.seq % IdModulus
           k == Stream!Max({stream.cursor, f.seq})
           t == Stream!Max({browser.top, f.seq})
<1>4. f \in AllFrames /\ f.seq <= newest /\ stream.cursor <= newest /\ browser.top <= newest
      /\ browser.url <= newest /\ stream.frames \in SUBSET AllFrames
  BY <1>1 DEF HandlerInv, Handlers, StreamInv, BrowserInv
<1>5. f.seq \in Nat /\ f.seq > 0
  BY <1>4, FrameParts
<1>6. PICK a \in {"poll", "send"} :
        stream' = [stream EXCEPT !.frames = stream.frames \ {f}, !.cursor = k, !.at = a]
  <2>1. PICK a \in {"poll", "send"} : a = IF stream.frames = {f} THEN "poll" ELSE "send"
    OBVIOUS
  <2> QED BY <1>3, <2>1
<1>7. owed' = owed \ {f} /\ browser' = [browser EXCEPT !.top = t, !.id = i]
  BY <1>3 DEF Stream!TellFrame
<1>8. i \in Nat /\ i <= f.seq
  BY <1>5, IdIsSmaller
<1>9. k \in Nat /\ k <= newest /\ k \in {stream.cursor, f.seq} /\ k >= stream.cursor
  <2>1. k \in {stream.cursor, f.seq} /\ k >= stream.cursor
    BY <1>5, MaxOfTwo
  <2> HIDE DEF k
  <2> QED BY <1>4, <1>5, <2>1
<1>10. t \in Nat /\ t <= newest /\ t \in {browser.top, f.seq}
  <2>1. t \in {browser.top, f.seq}
    BY <1>5, MaxOfTwo
  <2> HIDE DEF t
  <2> QED BY <1>4, <1>5, <2>1
<1> HIDE DEF i, k, t
<1>11. i \in Counts /\ k \in Counts /\ t \in Counts /\ i <= newest
  BY <1>4, <1>5, <1>8, <1>9, <1>10 DEF Counts
<1>12. /\ browser' \in Browsers /\ browser'.url = browser.url /\ browser'.id = i
       /\ browser'.top = t
  BY <1>7, <1>11 DEF Browsers
<1>13. BrowserInv(browser', newest)
  BY <1>4, <1>10, <1>11, <1>12 DEF BrowserInv
<1>14. /\ stream' \in Handlers /\ stream'.at = a /\ stream'.cursor = k
       /\ stream'.frames = stream.frames \ {f} /\ stream'.latest = stream.latest
       /\ stream'.snapshot = stream.snapshot
  BY <1>6, <1>11 DEF Handlers, Steps
<1>15. HandlerInv(stream', newest)
  BY <1>1, <1>9, <1>14 DEF HandlerInv
<1>16. ASSUME NEW o \in owed'
       PROVE  Behind(browser', o) /\ HasOrOlder(fetched', o) /\ Serves(stream', o)
  <2>1. /\ o \in owed /\ o # f /\ Behind(browser, o) /\ HasOrOlder(fetched, o)
        /\ Serves(stream, o) /\ o \in AllFrames
    BY <1>7 DEF StreamInv, OwedInv
  <2>2. o.seq \in Nat
    BY <2>1, FrameParts
  <2>3. f.seq < o.seq
    <3>1. CASE o \in stream.frames
      <4>1. f.seq <= o.seq /\ f.seq # o.seq
        BY <1>3, <2>1, <3>1 DEF Serves
      <4> QED BY <1>5, <2>2, <4>1
    <3>2. CASE \A g \in stream.frames : g.seq < o.seq
      BY <3>2
    <3> QED BY <1>1, <2>1, <3>1, <3>2 DEF Serves
  <2>4. Behind(browser', o)
    BY <1>5, <1>8, <1>10, <1>12, <2>1, <2>2, <2>3 DEF Behind
  <2>5. k < o.seq /\ k # 0
    BY <1>1, <1>9, <2>1, <2>3 DEF Serves
  <2>6. Serves(stream', o)
    BY <1>1, <1>14, <2>1, <2>5 DEF Serves
  <2> QED BY <1>2, <2>1, <2>4, <2>6
<1>17. SnapshotInv(fetched', newest)
  BY <1>2 DEF StreamInv
<1>18. owed' \in SUBSET owed
  BY <1>7
<1> QED BY <1>2, <1>13, <1>15, <1>16, <1>17, <1>18, TellStep

-----------------------------------------------------------------------------
(* A frame arrives.                                                         *)

\* What is bounded by a number is bounded by a larger one.
LEMMA TopGrows ==
  ASSUME StreamSound, NEW top \in Nat, NEW more \in Nat, top <= more
  PROVE  /\ \A x : SnapshotInv(x, top) => SnapshotInv(x, more)
         /\ \A x : HandlerInv(x, top) => HandlerInv(x, more)
         /\ \A b : BrowserInv(b, top) => BrowserInv(b, more)
<1>1. ASSUME NEW x, SnapshotInv(x, top) PROVE SnapshotInv(x, more)
  <2>1. x \in Snapshots /\ x.latest <= top
    BY <1>1 DEF SnapshotInv
  <2>2. x.latest \in Nat
    BY <2>1 DEF Snapshots, Counts
  <2>3. x.latest <= more
    BY <2>1, <2>2
  <2> QED BY <1>1, <2>3 DEF SnapshotInv
<1>2. ASSUME NEW x, HandlerInv(x, top) PROVE HandlerInv(x, more)
  <2>1. x \in Handlers /\ x.cursor <= top /\ x.latest <= top /\ SnapshotInv(x.snapshot, top)
        /\ \A f \in x.frames : f.seq <= top
    BY <1>2 DEF HandlerInv
  <2>2. x.cursor \in Nat /\ x.latest \in Nat /\ x.frames \in SUBSET AllFrames
    BY <2>1 DEF Handlers, Counts
  <2>3. x.cursor <= more /\ x.latest <= more
    BY <2>1, <2>2
  <2>4. ASSUME NEW f \in x.frames PROVE f.seq <= more
    <3>1. f.seq \in Nat /\ f.seq <= top
      BY <2>1, <2>2, FrameParts
    <3> QED BY <3>1
  <2>5. SnapshotInv(x.snapshot, more)
    BY <1>1, <2>1
  <2> QED BY <1>2, <2>3, <2>4, <2>5 DEF HandlerInv
<1>3. ASSUME NEW b, BrowserInv(b, top) PROVE BrowserInv(b, more)
  <2>1. b \in Browsers /\ b.url <= top /\ b.id <= top /\ b.top <= top
    BY <1>3 DEF BrowserInv
  <2>2. b.url \in Nat /\ b.id \in Nat /\ b.top \in Nat
    BY <2>1 DEF Browsers, Counts
  <2> QED BY <2>1, <2>2 DEF BrowserInv
<1> QED BY <1>1, <1>2, <1>3

\* The buffer of a node after a frame: it has the frame, which is its newest.
LEMMA UpsertedBuffer ==
  ASSUME StreamSound, StreamInv, NEW n \in Nodes, NEW s \in FrameNumbers,
         s > Stream!Newest(history, n)
  PROVE  LET h == history[n] \cup {s}
         IN  /\ Stream!Hot(h) \in SUBSET FrameNumbers /\ Stream!Hot(h) \in SUBSET h
             /\ s \in Stream!Hot(h)
             /\ Cardinality(Stream!Hot(h)) <= HotCapacity
             /\ \A y \in history[n] : y < s
             /\ \A y \in h \ Stream!Hot(h) : \A z \in Stream!Hot(h) : y < z
<1> USE StreamFacts
<1> DEFINE h == history[n] \cup {s}
<1>1. h \in SUBSET FrameNumbers /\ history[n] \in SUBSET FrameNumbers
  BY HistoryOf
<1>2. s \in Nat
  BY <1>1, NumbersBounded
<1>3. ASSUME NEW y \in history[n] PROVE y < s
  <2>1. history[n] # {}
    OBVIOUS
  <2> DEFINE m == Stream!Max(history[n])
  <2>2. m \in 0..MaxSequence /\ y <= m
    BY <2>1, HistoryOf, MaxIsLargest
  <2>3. Stream!Newest(history, n) = m
    BY <2>1 DEF Stream!Newest
  <2> HIDE DEF m
  <2>4. m < s /\ m \in Nat
    BY <1>2, <2>2, <2>3
  <2>5. y \in Nat
    BY HistoryOf
  <2> QED BY <1>2, <2>2, <2>4, <2>5
<1>4. s \in Stream!Hot(h)
  <2>1. \A y \in h : y <= s
    <3>1. ASSUME NEW y \in history[n] PROVE y <= s
      <4>1. y \in Nat /\ y < s
        BY <1>3, HistoryOf
      <4> QED BY <1>2, <4>1
    <3> QED BY <1>2, <3>1
  <2> QED BY <1>1, <2>1, HotKeepsNewest
<1> HIDE DEF h
<1>5. Stream!Hot(h) \in SUBSET FrameNumbers /\ Stream!Hot(h) \in SUBSET h
  BY <1>1, HotIsPart
<1>6. Cardinality(Stream!Hot(h)) <= HotCapacity
  BY <1>1, HotIsBounded
<1>7. \A y \in h \ Stream!Hot(h) : \A z \in Stream!Hot(h) : y < z
  BY <1>1, HotIsNewest
<1> QED BY <1>3, <1>4, <1>5, <1>6, <1>7 DEF h

\* A frame with another number that was kept still is, or is marked as pruned.
LEMMA KeptAfterUpsert ==
  ASSUME StreamSound, StreamInv, NEW n \in Nodes, NEW s \in FrameNumbers,
         Stream!Upsert(n, s), NEW f \in owed, f.seq # s
  PROVE  Kept(history', pruned', f)
<1> USE StreamFacts
<1> DEFINE h == history[n] \cup {s}
           H == Stream!Hot(h)
<1>1. /\ history' = [history EXCEPT ![n] = H]
      /\ pruned' = [pruned EXCEPT ![n] = @ \/ H # h]
      /\ s > Stream!Newest(history, n)
  BY DEF Stream!Upsert
<1>2. /\ H \in SUBSET FrameNumbers /\ H \in SUBSET h /\ s \in H
      /\ \A y \in history[n] : y < s
      /\ \A y \in h \ H : \A z \in H : y < z
  BY <1>1, UpsertedBuffer
<1> HIDE DEF H
<1>3. Kept(history, pruned, f) /\ f \in AllFrames /\ pruned \in [Nodes -> BOOLEAN]
  BY DEF StreamInv, OwedInv, BuffersInv
<1>4. f.node \in Nodes /\ f.seq \in Nat /\ s \in Nat
  BY <1>3, FrameParts, NumbersBounded
<1>5. ASSUME NEW m \in Nodes, f.seq \in history'[m] PROVE m = f.node
  <2>1. f.seq \in history[m]
    BY <1>1, <1>2, <1>5
  <2> QED BY <1>3, <2>1 DEF Kept
<1>6. CASE f.node # n
  <2>1. history'[f.node] = history[f.node] /\ pruned'[f.node] = pruned[f.node]
    BY <1>1, <1>4, <1>6
  <2> QED BY <1>3, <1>5, <2>1 DEF Kept
<1>7. CASE f.node = n
  <2>1. history'[f.node] = H /\ pruned'[f.node] = (pruned[n] \/ H # h)
    BY <1>1, <1>3, <1>7
  <2>2. f.seq < s
    <3>1. PICK y \in history[n] : y >= f.seq
      BY <1>3, <1>7 DEF Kept
    <3>2. y < s /\ y \in Nat
      BY <1>2, HistoryOf
    <3> QED BY <1>4, <3>1, <3>2
  <2>3. \E y \in history'[f.node] : y >= f.seq
    BY <1>2, <1>4, <2>1, <2>2
  <2>4. f.seq \in H \/ ((pruned[n] \/ H # h) /\ \A y \in H : f.seq < y)
    <3>1. CASE f.seq \in history[n]
      <4>1. f.seq \in h
        BY <3>1
      <4> HIDE DEF h
      <4>2. CASE f.seq \in H
        BY <4>2
      <4>3. CASE f.seq \notin H
        BY <1>2, <4>1, <4>3
      <4> QED BY <4>2, <4>3
    <3>2. CASE pruned[n] /\ \A y \in history[n] : f.seq < y
      BY <1>2, <2>2, <3>2
    <3> QED BY <1>3, <1>7, <3>1, <3>2 DEF Kept
  <2> QED BY <1>5, <2>1, <2>3, <2>4 DEF Kept
<1> QED BY <1>6, <1>7

\* A frame that is newer than everything before it: nothing that is stored, told or on its way
\* has passed it.
LEMMA NewFrame ==
  ASSUME StreamSound, StreamInv, NEW n \in Nodes, NEW s \in FrameNumbers,
         Stream!Upsert(n, s), s > newest, ~Stream!Connecting,
         NEW f, f = Stream!Frame(n, s)
  PROVE  /\ f \in AllFrames /\ f.seq = s
         /\ Kept(history', pruned', f) /\ Behind(browser, f) /\ HasOrOlder(fetched, f)
         /\ Serves(stream, f)
<1> USE StreamFacts
<1>1. f \in AllFrames /\ f.node = n /\ f.seq = s /\ s \in Nat /\ newest < s
  BY FrameOf, NumbersBounded
<1> DEFINE h == history[n] \cup {s}
           H == Stream!Hot(h)
<1>2. history' = [history EXCEPT ![n] = H] /\ s > Stream!Newest(history, n)
  BY DEF Stream!Upsert
<1>3. s \in H /\ H \in SUBSET h
  BY <1>2, UpsertedBuffer
<1> HIDE DEF H, h
<1>4. Kept(history', pruned', f)
  <2>1. history'[n] = H
    BY <1>2
  <2>2. ASSUME NEW m \in Nodes, s \in history'[m], m # n PROVE FALSE
    <3>1. s \in history[m]
      BY <1>2, <2>2
    <3>2. s <= newestKept
      BY <3>1
    <3> QED BY <1>1, <3>2
  <2>3. s >= s
    BY <1>1
  <2> QED BY <1>1, <1>3, <2>1, <2>2, <2>3 DEF Kept
<1>5. Behind(browser, f)
  <2>1. browser.url <= newest /\ browser.id <= newest /\ browser.top <= newest
    BY DEF StreamInv, BrowserInv
  <2> QED BY <1>1, <2>1 DEF Behind
<1>6. HasOrOlder(fetched, f)
  <2>1. fetched.latest <= newest
    BY DEF StreamInv, SnapshotInv
  <2> QED BY <1>1, <2>1 DEF HasOrOlder
<1>7. Serves(stream, f)
  <2>1. /\ stream.cursor <= newest /\ stream.latest <= newest
        /\ stream.snapshot.latest <= newest
        /\ \A g \in stream.frames : g.seq <= newest /\ g \in AllFrames
    BY DEF StreamInv, HandlerInv, SnapshotInv, Handlers
  <2>2. ASSUME NEW g \in stream.frames PROVE g.seq < f.seq /\ g.seq # f.seq
    <3>1. g.seq \in Nat
      BY <2>1, FrameParts
    <3> QED BY <1>1, <2>1, <3>1
  <2>3. stream.cursor < f.seq /\ stream.latest < f.seq /\ stream.snapshot.latest < f.seq
    BY <1>1, <2>1
  <2>4. /\ stream.at # "sendFirst" /\ stream.at # "number"
        /\ stream.at \in {"poll", "replay", "sendReplay", "send"} => stream.cursor # 0
    BY DEF Stream!Connecting
  <2> QED BY <2>2, <2>3, <2>4 DEF Serves
<1> QED BY <1>1, <1>4, <1>5, <1>6, <1>7

\* The store after a frame.
LEMMA StoreAfterUpsert ==
  ASSUME StreamSound, StreamInv, NEW n \in Nodes, NEW s \in FrameNumbers, Stream!Upsert(n, s)
  PROVE  /\ newest' \in Counts /\ newest' \in Nat /\ newest <= newest' /\ s <= newest'
         /\ BuffersInv(history', pruned', newestKept', durable', newest')
<1> USE StreamFacts
<1> DEFINE h == history[n] \cup {s}
           H == Stream!Hot(h)
           f == Stream!Frame(n, s)
<1>1. /\ history' = [history EXCEPT ![n] = H]
      /\ pruned' = [pruned EXCEPT ![n] = @ \/ H # h]
      /\ s > Stream!Newest(history, n)
      /\ newestKept' = Stream!Max({newestKept, s}) /\ newest' = Stream!Max({newest, s})
      /\ durable' \in {durable, Stream!Persisted(f)}
  BY DEF Stream!Upsert
<1>2. /\ H \in SUBSET FrameNumbers /\ H \in SUBSET h /\ Cardinality(H) <= HotCapacity
  BY <1>1, UpsertedBuffer
<1>3. s \in Nat /\ s <= MaxSequence
  BY NumbersBounded
<1>4. newestKept' \in {newestKept, s} /\ newestKept' >= newestKept /\ newestKept' >= s
  BY <1>1, <1>3, MaxOfTwo
<1>5. newest' \in {newest, s} /\ newest' >= newest /\ newest' >= s
  BY <1>1, <1>3, MaxOfTwo
<1>6. /\ newestKept' \in Nat /\ newest' \in Nat
      /\ newestKept' \in Counts /\ newest' \in Counts /\ newestKept' <= newest'
  <2>1. newestKept' \in Nat /\ newest' \in Nat
    BY <1>3, <1>4, <1>5
  <2>2. newestKept' <= MaxSequence /\ newest' <= MaxSequence
    BY <1>3, <1>4, <1>5
  <2> QED BY <1>3, <1>4, <1>5, <2>1, <2>2 DEF Counts
<1>7. /\ durable \in SUBSET AllFrames /\ Cardinality(durable) <= Durable
      /\ \A x, y \in durable : x.seq = y.seq => x = y
      /\ \A x \in durable : x.seq <= newest
      /\ pruned \in [Nodes -> BOOLEAN]
      /\ \A m \in Nodes : Cardinality(history[m]) <= HotCapacity
  BY DEF StreamInv, BuffersInv
<1>8. f \in AllFrames /\ f.seq = s
  BY FrameOf
<1> HIDE DEF H, f
<1>9. /\ durable' \in SUBSET (durable \cup {f}) /\ Cardinality(durable') <= Durable
      /\ \A x, y \in durable' : x.seq = y.seq => x = y
  BY <1>1, <1>7, <1>8, PersistedFrames
<1>10. durable' \in SUBSET AllFrames
  BY <1>7, <1>8, <1>9
<1>11. ASSUME NEW x \in durable' PROVE x.seq <= newest'
  <2>1. x.seq \in Nat
    BY <1>10, FrameParts
  <2>2. x.seq <= newest \/ x.seq = s
    BY <1>7, <1>8, <1>9
  <2> QED BY <1>3, <1>5, <1>6, <2>1, <2>2
<1>12. history' \in [Nodes -> SUBSET FrameNumbers]
  BY <1>1, <1>2
<1>13. pruned' \in [Nodes -> BOOLEAN]
  <2>1. (pruned[n] \/ H # h) \in BOOLEAN
    OBVIOUS
  <2> HIDE DEF h
  <2> QED BY <1>1, <1>7, <2>1
<1>14. ASSUME NEW m \in Nodes
       PROVE  Cardinality(history'[m]) <= HotCapacity /\ \A y \in history'[m] : y <= newestKept'
  <2>1. CASE m = n
    <3>1. history'[m] = H
      BY <1>1, <2>1
    <3>2. ASSUME NEW y \in H PROVE y <= newestKept'
      <4>1. y \in Nat
        BY <1>2, NumbersBounded
      <4>2. y = s \/ y <= newestKept
        BY <1>2
      <4> QED BY <1>3, <1>4, <1>6, <4>1, <4>2
    <3> QED BY <1>2, <3>1, <3>2
  <2>2. CASE m # n
    <3>1. history'[m] = history[m]
      BY <1>1, <2>2
    <3>2. ASSUME NEW y \in history[m] PROVE y <= newestKept'
      <4>1. y \in Nat /\ y <= newestKept
        BY HistoryOf
      <4> QED BY <1>4, <1>6, <4>1
    <3> QED BY <1>7, <3>1, <3>2
  <2> QED BY <2>1, <2>2
<1>15. BuffersInv(history', pruned', newestKept', durable', newest')
  BY <1>6, <1>9, <1>10, <1>11, <1>12, <1>13, <1>14 DEF BuffersInv
<1> QED BY <1>3, <1>5, <1>6, <1>15

LEMMA UpsertStep ==
  ASSUME StreamSound, StreamInv, NEW n \in Nodes, NEW s \in FrameNumbers, Stream!Upsert(n, s)
  PROVE  StreamInv'
<1> USE StreamFacts
<1>1. UNCHANGED <<stream, browser, fetched>>
  BY DEF Stream!Upsert
<1>2. /\ newest' \in Counts /\ newest' \in Nat /\ newest <= newest' /\ s <= newest'
      /\ BuffersInv(history', pruned', newestKept', durable', newest')
  BY StoreAfterUpsert
<1>3. HandlerInv(stream, newest) /\ BrowserInv(browser, newest) /\ SnapshotInv(fetched, newest)
  BY DEF StreamInv
<1>4. HandlerInv(stream', newest') /\ BrowserInv(browser', newest') /\ SnapshotInv(fetched', newest')
  BY <1>1, <1>2, <1>3, TopGrows
<1>5. ASSUME NEW f \in owed, f.seq # s PROVE OwedInv(f)'
  <2>1. OwedInv(f)
    BY DEF StreamInv
  <2>2. Kept(history', pruned', f)
    BY <1>5, KeptAfterUpsert
  <2>3. f.seq \in Nat /\ f.seq <= newest /\ f \in AllFrames
    BY <2>1, FrameParts DEF OwedInv
  <2>4. f.seq <= newest'
    BY <1>2, <2>3
  <2> QED BY <1>1, <2>1, <2>2, <2>3, <2>4 DEF OwedInv
<1>6. CASE s > newest /\ ~Stream!Connecting
  <2> DEFINE f == Stream!Frame(n, s)
  <2>1. owed' = owed \cup {f}
    BY <1>6 DEF Stream!Upsert
  <2>2. OwedInv(f)'
    <3>1. /\ f \in AllFrames /\ f.seq = s
          /\ Kept(history', pruned', f) /\ Behind(browser, f) /\ HasOrOlder(fetched, f)
          /\ Serves(stream, f)
      BY <1>6, NewFrame
    <3> QED BY <1>1, <1>2, <3>1 DEF OwedInv
  <2>3. ASSUME NEW g \in owed PROVE g.seq # s
    <3>1. g \in AllFrames /\ g.seq <= newest
      BY DEF StreamInv, OwedInv
    <3>2. g.seq \in Nat /\ s \in Nat
      BY <3>1, FrameParts, NumbersBounded
    <3> QED BY <1>6, <3>1, <3>2
  <2> HIDE DEF f
  <2>4. \A g \in owed' : OwedInv(g)'
    BY <1>5, <2>1, <2>2, <2>3
  <2> QED BY <1>2, <1>4, <2>4 DEF StreamInv
<1>7. CASE ~(s > newest /\ ~Stream!Connecting)
  <2>1. owed' = {f \in owed : f.seq # s}
    BY <1>7 DEF Stream!Upsert
  <2>2. \A g \in owed' : OwedInv(g)'
    BY <1>5, <2>1
  <2> QED BY <1>2, <1>4, <2>2 DEF StreamInv
<1> QED BY <1>6, <1>7

-----------------------------------------------------------------------------
(* The controller starts again.                                             *)

\* The numbers of a node in the database.
DurableNumbers(n) == {f.seq : f \in {g \in durable : g.node = n}}

LEMMA LoadedNumbers ==
  ASSUME StreamSound, StreamInv, NEW n \in Nodes
  PROVE  /\ DurableNumbers(n) \in SUBSET FrameNumbers
         /\ \A s \in DurableNumbers(n) : \E f \in durable : f.node = n /\ f.seq = s
         /\ Stream!Hot(DurableNumbers(n)) \in SUBSET DurableNumbers(n)
         /\ Stream!Hot(DurableNumbers(n)) \in SUBSET FrameNumbers
         /\ Cardinality(Stream!Hot(DurableNumbers(n))) <= HotCapacity
<1>1. durable \in SUBSET AllFrames
  BY DEF StreamInv, BuffersInv
<1>2. \A s \in DurableNumbers(n) : \E f \in durable : f.node = n /\ f.seq = s
  BY DEF DurableNumbers
<1>3. DurableNumbers(n) \in SUBSET FrameNumbers
  BY <1>1, <1>2, FrameParts
<1> QED BY <1>2, <1>3, HotIsPart, HotIsBounded

\* A frame of the database is loaded, or dropped and marked.
LEMMA KeptAfterRestart ==
  ASSUME StreamSound, StreamInv, NEW f \in durable, NEW h, NEW p,
         h = [n \in Nodes |-> Stream!Hot(DurableNumbers(n))],
         p = [n \in Nodes |-> Stream!Hot(DurableNumbers(n)) # DurableNumbers(n)]
  PROVE  Kept(h, p, f)
<1> USE StreamFacts
<1>1. durable \in SUBSET AllFrames /\ \A x, y \in durable : x.seq = y.seq => x = y
  BY DEF StreamInv, BuffersInv
<1>2. f.node \in Nodes /\ f.seq \in Nat
  BY <1>1, FrameParts
<1> DEFINE L == DurableNumbers(f.node)
           H == Stream!Hot(L)
<1>3. f.seq \in L
  BY DEF DurableNumbers
<1>4. L \in SUBSET FrameNumbers /\ H \in SUBSET L
  BY <1>2, LoadedNumbers
<1>5. h[f.node] = H /\ p[f.node] = (H # L)
  BY <1>2
<1> HIDE DEF L
<1>6. \A y \in L \ H : \A z \in H : y < z
  BY <1>4, HotIsNewest
<1>7. \E y \in H : y >= f.seq
  <2> DEFINE m == Stream!Max(L)
  <2>1. m \in L /\ \A y \in L : y <= m
    <3>1. L \in SUBSET (0..MaxSequence) /\ MaxSequence \in Nat /\ L # {}
      BY <1>3, <1>4, NumbersBounded
    <3> QED BY <3>1, MaxIsLargest
  <2> HIDE DEF m
  <2>2. m \in H
    BY <1>4, <2>1, HotKeepsNewest
  <2>3. m \in Nat /\ f.seq <= m
    BY <1>3, <1>4, <2>1, NumbersBounded
  <2> HIDE DEF H
  <2>4. m >= f.seq
    BY <1>2, <2>3
  <2> QED BY <2>2, <2>4
<1> HIDE DEF H
<1>8. f.seq \in H \/ (H # L /\ \A y \in H : f.seq < y)
  BY <1>3, <1>4, <1>6
<1>9. ASSUME NEW n \in Nodes, f.seq \in h[n] PROVE n = f.node
  <2>1. f.seq \in DurableNumbers(n)
    BY <1>9, LoadedNumbers
  <2>2. PICK g \in durable : g.node = n /\ g.seq = f.seq
    BY <2>1, LoadedNumbers
  <2> QED BY <1>1, <2>2
<1> QED BY <1>5, <1>7, <1>8, <1>9 DEF Kept

LEMMA RestartStep ==
  ASSUME StreamSound, StreamInv, Stream!Restart
  PROVE  StreamInv'
<1> USE StreamFacts
<1>1. /\ history' = [n \in Nodes |-> Stream!Hot(DurableNumbers(n))]
      /\ pruned' = [n \in Nodes |-> Stream!Hot(DurableNumbers(n)) # DurableNumbers(n)]
  BY DEF Stream!Restart, DurableNumbers
<1> DEFINE S == {f.seq : f \in durable}
<1>2. newestKept' = IF durable = {} THEN 0 ELSE Stream!Max(S)
  BY DEF Stream!Restart
<1>3. /\ owed' = owed \cap durable /\ stream' = Stream!Closed /\ fetched' = Stream!NoSnapshot
      /\ UNCHANGED <<durable, browser, newest>>
  BY DEF Stream!Restart
<1>4. /\ durable \in SUBSET AllFrames /\ Cardinality(durable) <= Durable
      /\ \A x, y \in durable : x.seq = y.seq => x = y
      /\ \A x \in durable : x.seq <= newest
  BY DEF StreamInv, BuffersInv
<1>5. newestKept' \in Nat /\ newestKept' <= newest /\ \A s \in S : s <= newestKept'
  <2>1. CASE durable = {}
    BY <1>2, <2>1
  <2>2. CASE durable # {}
    <3>1. S \in SUBSET (0..newest)
      <4>1. ASSUME NEW f \in durable PROVE f.seq \in 0..newest
        <5>1. f.seq \in Nat /\ f.seq <= newest
          BY <1>4, FrameParts
        <5> QED BY <5>1
      <4> QED BY <4>1
    <3>2. S # {}
      BY <2>2
    <3> HIDE DEF S
    <3>3. Stream!Max(S) \in 0..newest /\ \A y \in S : y <= Stream!Max(S)
      BY <3>1, <3>2, MaxIsLargest
    <3>4. newestKept' = Stream!Max(S)
      BY <1>2, <2>2
    <3> QED BY <3>3, <3>4
  <2> QED BY <2>1, <2>2
<1>6. newestKept' \in Counts
  BY <1>5 DEF Counts
<1>7. ASSUME NEW n \in Nodes
      PROVE  /\ history'[n] \in SUBSET FrameNumbers
             /\ Cardinality(history'[n]) <= HotCapacity
             /\ \A s \in history'[n] : s <= newestKept'
  <2>1. history'[n] = Stream!Hot(DurableNumbers(n))
    BY <1>1
  <2>2. ASSUME NEW s \in Stream!Hot(DurableNumbers(n)) PROVE s <= newestKept'
    <3>1. PICK f \in durable : f.seq = s
      BY LoadedNumbers
    <3> QED BY <1>5, <3>1
  <2> QED BY <2>1, <2>2, LoadedNumbers
<1>8. history' \in [Nodes -> SUBSET FrameNumbers]
  BY <1>1, LoadedNumbers
<1>9. pruned' \in [Nodes -> BOOLEAN]
  BY <1>1
<1>10. BuffersInv(history', pruned', newestKept', durable', newest')
  BY <1>3, <1>4, <1>5, <1>6, <1>7, <1>8, <1>9 DEF BuffersInv
<1>11. HandlerInv(stream', newest') /\ SnapshotInv(fetched', newest')
       /\ BrowserInv(browser', newest')
  BY <1>3, EmptyHands DEF StreamInv
<1>12. ASSUME NEW f \in owed' PROVE OwedInv(f)'
  <2>1. f \in durable /\ OwedInv(f) /\ f \in AllFrames
    BY <1>3, <1>4 DEF StreamInv
  <2>2. Kept(history', pruned', f)
    BY <1>1, <2>1, KeptAfterRestart
  <2>3. HasOrOlder(fetched', f) /\ Serves(stream', f)
    BY <1>3, <2>1, EmptyHands
  <2> QED BY <1>3, <2>1, <2>2, <2>3 DEF OwedInv
<1> QED BY <1>3, <1>10, <1>11, <1>12 DEF StreamInv

-----------------------------------------------------------------------------
(* The specification.                                                       *)

LEMMA StreamInit ==
  ASSUME StreamSound, Stream!Init
  PROVE  StreamInv
<1>1. /\ history = [n \in Nodes |-> {}] /\ pruned = [n \in Nodes |-> FALSE]
      /\ newestKept = 0 /\ durable = {} /\ stream = Stream!Closed /\ browser = Stream!LoggedOut
      /\ fetched = Stream!NoSnapshot /\ newest = 0 /\ owed = {}
  BY DEF Stream!Init
<1>2. 0 \in Counts
  BY DEF Counts, StreamSound
<1>3. Cardinality({}) <= HotCapacity /\ Cardinality({}) <= Durable
  BY FS_EmptySet DEF StreamSound
<1>4. BuffersInv(history, pruned, newestKept, durable, newest)
  BY <1>1, <1>2, <1>3 DEF BuffersInv
<1>5. HandlerInv(stream, newest) /\ BrowserInv(browser, newest) /\ SnapshotInv(fetched, newest)
  BY <1>1, EmptyHands
<1> QED BY <1>1, <1>2, <1>4, <1>5 DEF StreamInv

LEMMA StreamNext ==
  ASSUME StreamSound, StreamInv, [Stream!Next]_Stream!vars
  PROVE  StreamInv'
<1>1. ASSUME NEW n \in Nodes, NEW s \in Stream!Numbers, Stream!Upsert(n, s) PROVE StreamInv'
  BY <1>1, UpsertStep DEF Stream!Numbers, FrameNumbers
<1>2. CASE Stream!Open
  BY <1>2, OpenStep
<1>3. CASE Stream!Reconnect
  BY <1>3, ReconnectStep
<1>4. CASE Stream!Break
  BY <1>4, BreakStep
<1>5. CASE Stream!Fetch
  BY <1>5, FetchStep
<1>6. CASE Stream!FetchAnswers
  BY <1>6, FetchAnswersStep
<1>7. CASE Stream!FetchFails
  BY <1>7, FetchFailsStep
<1>8. CASE Stream!Serve
  BY <1>8, InitialDeltaStep, FirstSnapshotStep, SendFirstStep, StartNumberStep, PollStep,
     ReplayStep, SendReplayStep, SendFrameStep DEF Stream!Serve
<1>9. CASE Stream!Restart
  BY <1>9, RestartStep
<1>10. CASE UNCHANGED Stream!vars
  <2>1. /\ UNCHANGED <<history, pruned, newestKept, durable, browser, fetched, newest, owed>>
        /\ stream' = stream
    BY <1>10 DEF Stream!vars
  <2>2. HandlerInv(stream', newest) /\ \A f \in owed : Serves(stream', f)
    BY <2>1 DEF StreamInv, OwedInv
  <2> QED BY <2>1, <2>2, HandlerStep
<1> QED BY <1>1, <1>2, <1>3, <1>4, <1>5, <1>6, <1>7, <1>8, <1>9, <1>10 DEF Stream!Next

\* The frames of the buffers and of the database have numbers, and no buffer holds more than
\* its capacity, whatever arrives and however often the controller starts again
\* (telemetry_frame_ring_buffer.cpp, ApplyHotRetention; telemetry_persistence_repository.cpp,
\* PersistFrame).
THEOREM StreamTypeCorrect ==
  ASSUME StreamSound
  PROVE  Stream!Spec => []Stream!TypeOK
<1>1. Stream!Init => StreamInv
  BY StreamInit
<1>2. StreamInv /\ [Stream!Next]_Stream!vars => StreamInv'
  BY StreamNext
<1>3. StreamInv => Stream!TypeOK
  <2> SUFFICES ASSUME StreamInv PROVE Stream!TypeOK
    OBVIOUS
  <2>1. /\ history \in [Nodes -> SUBSET FrameNumbers] /\ pruned \in [Nodes -> BOOLEAN]
        /\ durable \in SUBSET AllFrames /\ Cardinality(durable) <= Durable
        /\ \A n \in Nodes : Cardinality(history[n]) <= HotCapacity
    BY DEF StreamInv, BuffersInv
  <2>2. stream.at \in Steps /\ stream.cursor \in Counts /\ browser.top \in Counts
    BY DEF StreamInv, HandlerInv, BrowserInv, Handlers, Browsers
  <2>3. owed \in SUBSET AllFrames
    BY DEF StreamInv, OwedInv
  <2> QED BY <2>1, <2>2, <2>3, StreamCounts
          DEF Stream!TypeOK, Stream!Numbers, FrameNumbers, AllFrames, Steps, Counts
<1> QED BY <1>1, <1>2, <1>3, PTL DEF Stream!Spec

\* A stream does not pass over a frame in silence: while it is open, its cursor is below every
\* frame that arrived in order and of which the browser was told neither by itself nor by a
\* snapshot, for any number of nodes, any capacities and batch limit, any range of ids, any
\* number of breaks and restarts, and both handlers (controller_http_server.cpp,
\* StreamTelemetrySse and StreamLiveSse; telemetry_frame_ring_buffer.cpp, LoadStreamDeltaAfter).
THEOREM StreamPassesNoFrame ==
  ASSUME StreamSound
  PROVE  Stream!Spec => []Stream!NoFrameIsPassedOver
<1>1. Stream!Init => StreamInv
  BY StreamInit
<1>2. StreamInv /\ [Stream!Next]_Stream!vars => StreamInv'
  BY StreamNext
<1>3. StreamInv => Stream!NoFrameIsPassedOver
  BY DEF StreamInv, OwedInv, Serves, Stream!NoFrameIsPassedOver
<1> QED BY <1>1, <1>2, <1>3, PTL DEF Stream!Spec

-----------------------------------------------------------------------------
(* Stored planes: what is loaded is what was saved.                        *)

CONSTANTS HostNames, LocalNode, NoNode, GpusOf, ModeOf, NoGpu, Documents, Operations, MaxSaves,
          NoState

VARIABLES planeDocument, savedState, saves

Plane == INSTANCE DesiredState WITH
  stored <- planeDocument, saved <- savedState, Requests <- Documents, Commands <- Operations

PlaneNodes == [name : HostNames, mode : Plane!Modes, gpus : SUBSET Plane!Gpus]
Halves == 1..2
SomeHost == HostNames \cup {NoNode}
SomeGpu == Plane!Gpus \cup {NoGpu}

DocumentType ==
  [executionNode : SomeHost, topology : Seq(PlaneNodes), llm : BOOLEAN, workers : Nat,
   inferEnabled : BOOLEAN, replicas : Nat, inferNode : SomeHost, workerNode : SomeHost,
   workerGpu : SomeGpu, assignments : Seq([node : HostNames, gpu : SomeGpu]), halves : Halves]

PlaneWorkers == [node : HostNames, gpu : SomeGpu, halves : Halves, infer : Nat]
PlaneStates ==
  [target : SomeHost, llm : BOOLEAN, nodes : Seq(PlaneNodes), infers : Seq(HostNames),
   workers : Seq(PlaneWorkers)]

\* Names are given once, with the modes of the registry.
Registered(nodes) ==
  /\ \A i, j \in DOMAIN nodes : nodes[i].name = nodes[j].name => i = j
  /\ \A i \in DOMAIN nodes : nodes[i].name \in Nodes => nodes[i].mode = ModeOf[nodes[i].name]

\* A document for several nodes of which none is the execution node, for one worker, or for
\* workers of one GPU of the execution node.  It has an infer section, and replicas only for
\* an llm plane.  Without any of these the stored plane does not load, or not as it was saved.
\* The validator refuses a node that is listed twice.
DocumentSound(doc) ==
  /\ doc \in DocumentType
  /\ doc.inferEnabled /\ (~doc.llm => doc.replicas <= 1)
  /\ \/ Len(doc.topology) >= 2 /\ Registered(doc.topology) /\ doc.executionNode = NoNode
     \/ Len(doc.topology) = 1 /\ doc.executionNode = NoNode /\ doc.workers = 1
     \/ doc.topology = <<>> /\ doc.workers = 1
     \/ doc.topology = <<>> /\ doc.executionNode # NoNode /\ doc.workerGpu # NoGpu

\* Registered hosts, and documents of that kind.  The scheduler moves workers of planes with
\* one replica: the first worker of a replica takes its infer instance along when the plane
\* is loaded again, and not when it is moved.
PlaneSound ==
  /\ Nodes \subseteq HostNames /\ LocalNode \in HostNames /\ NoNode \notin HostNames
  /\ ModeOf \in [Nodes -> Plane!Modes] /\ NoGpu \notin Plane!Gpus
  /\ \A n \in Nodes : GpusOf[n] \subseteq Plane!Gpus
  /\ MaxSaves \in Nat
  /\ \A doc \in Documents : DocumentSound(doc)
  /\ "rebalance" \in Operations => \A doc \in Documents : doc.replicas <= 1
  /\ NoState \notin DocumentType

-----------------------------------------------------------------------------
\* The infer instances behind the aggregator: replicas of the same size.
Replicas(s) == Len(s.infers) - 1
Size(s) == Len(s.workers) \div Replicas(s)

Grouped(s) ==
  /\ Len(s.infers) >= 2 /\ Len(s.workers) >= 1
  /\ Len(s.workers) = Replicas(s) * Size(s)
  /\ \A i \in DOMAIN s.workers :
       s.workers[i].infer = 1 + Plane!Min({Replicas(s), 1 + (i - 1) \div Size(s)})
  /\ ~s.llm => Replicas(s) = 1
  /\ "rebalance" \in Operations => Replicas(s) = 1

\* The first node that may run an infer instance.
FirstCapable(nodes) ==
  LET capable == {j \in DOMAIN nodes : nodes[j].mode # "worker-only"}
  IN IF capable # {} THEN nodes[Plane!Min(capable)].name ELSE nodes[1].name

\* Several nodes: the instances of replica k are where its first worker is.
Spread(s) ==
  /\ Len(s.nodes) >= 2 /\ Registered(s.nodes) /\ s.target = NoNode
  /\ \A k \in DOMAIN s.infers : \E j \in DOMAIN s.nodes : s.infers[k] = s.nodes[j].name
  /\ \A k \in 1..Replicas(s) :
       s.infers[k + 1] = IF Replicas(s) > 1 THEN s.workers[(k - 1) * Size(s) + 1].node
                         ELSE FirstCapable(s.nodes)

\* One node, which has everything; on the execution node, workers share one GPU.
Single(s) ==
  /\ Len(s.nodes) = 1
  /\ s.target \in {NoNode, s.nodes[1].name}
  /\ \A k \in DOMAIN s.infers : s.infers[k] = s.nodes[1].name
  /\ \A i \in DOMAIN s.workers : s.workers[i].node = s.nodes[1].name
  /\ \/ Len(s.workers) = 1
     \/ /\ s.target # NoNode
        /\ \A i \in DOMAIN s.workers : s.workers[i].gpu = s.workers[1].gpu /\ s.workers[i].gpu # NoGpu

StateSound(s) == s \in PlaneStates /\ Grouped(s) /\ (Spread(s) \/ Single(s))

\* What the admission and the policy have seen of a state that is saved.
Placed(s) ==
  /\ \A i \in DOMAIN s.workers : \E j \in DOMAIN s.nodes :
       /\ s.nodes[j].name = s.workers[i].node /\ s.nodes[j].mode # "infer-only"
       /\ s.workers[i].gpu \in s.nodes[j].gpus
  /\ \A k \in DOMAIN s.infers, j \in DOMAIN s.nodes :
       s.nodes[j].name = s.infers[k] => s.nodes[j].mode # "worker-only"

\* The stored document is the projection of a sound, placed state.
PlaneInv ==
  /\ saves \in 0..MaxSaves /\ (saves = 0 <=> planeDocument = NoState)
  /\ planeDocument # NoState =>
       /\ StateSound(savedState) /\ Placed(savedState)
       /\ planeDocument = Plane!Project(savedState)

-----------------------------------------------------------------------------
(* Numbers and sequences.                                                   *)

LEMMA SmallestExists ==
  ASSUME NEW b \in Nat, NEW S \in SUBSET (0..b), S # {}
  PROVE  \E g \in S : \A x \in S : g <= x
<1> DEFINE R == OpToRel(<, Nat)
<1>1. S \subseteq Nat
  OBVIOUS
<1>2. PICK y \in S : \A z \in S : <<z, y>> \notin R
  <2>1. IsWellFoundedOn(R, Nat)
    BY NatLessThanWellFounded
  <2> HIDE DEF R
  <2> QED BY <1>1, <2>1, WFMin
<1>3. ASSUME NEW z \in S PROVE y <= z
  <2>1. ~(z < y) /\ z \in Nat /\ y \in Nat
    BY <1>1, <1>2 DEF OpToRel
  <2> QED BY <2>1
<1> QED BY <1>3

LEMMA PlaneCounts ==
  \A S : Plane!Cardinality(S) = Cardinality(S)
BY DEF Plane!Cardinality, Cardinality

LEMMA AtLeastOne ==
  ASSUME NEW n \in Nat
  PROVE  Plane!Max({1, n}) = IF n >= 1 THEN n ELSE 1
<1> DEFINE m == IF n >= 1 THEN n ELSE 1
<1>1. m \in {1, n} /\ \A y \in {1, n} : m >= y
  OBVIOUS
<1>2. ASSUME NEW x \in {1, n}, \A y \in {1, n} : x >= y PROVE x = m
  BY <1>2
<1> HIDE DEF m
<1>3. Plane!Max({1, n}) = m
  BY <1>1, <1>2 DEF Plane!Max
<1> QED BY <1>3 DEF m

LEMMA SmallerOfTwo ==
  ASSUME NEW a \in Nat, NEW b \in Nat
  PROVE  Plane!Min({a, b}) = IF a <= b THEN a ELSE b
<1> DEFINE m == IF a <= b THEN a ELSE b
<1>1. m \in {a, b} /\ \A y \in {a, b} : m <= y
  OBVIOUS
<1>2. ASSUME NEW x \in {a, b}, \A y \in {a, b} : x <= y PROVE x = m
  BY <1>2
<1> HIDE DEF m
<1>3. Plane!Min({a, b}) = m
  BY <1>1, <1>2 DEF Plane!Min
<1> QED BY <1>3 DEF m

\* A function on 1..n is a sequence.
LEMMA FunctionIsSequence ==
  ASSUME NEW n \in Nat, NEW S, NEW f \in [1..n -> S]
  PROVE  f \in Seq(S) /\ Len(f) = n /\ DOMAIN f = 1..n
BY SeqDef, LenProperties

LEMMA SequenceIsFunction ==
  ASSUME NEW S, NEW f \in Seq(S)
  PROVE  Len(f) \in Nat /\ DOMAIN f = 1..Len(f) /\ \A i \in DOMAIN f : f[i] \in S
BY LenProperties

\* R groups of q workers each.
GroupFacts(R, q, W) ==
  /\ W \in Nat /\ W > 0 /\ W % R = 0 /\ W \div R = q
  /\ \A i \in 1..W : /\ (i - 1) \div q \in Nat /\ (i - 1) \div q < R
                     /\ Plane!Min({R, 1 + (i - 1) \div q}) = 1 + (i - 1) \div q
  /\ \A k \in 1..R : /\ (k - 1) * q + 1 \in 1..W
                     /\ ((k - 1) * q) \div q = k - 1
                     /\ Plane!Min({W, (k - 1) * q + 1}) = (k - 1) * q + 1

LEMMA Groups ==
  ASSUME NEW R \in Nat, R > 0, NEW q \in Nat, q > 0, NEW W, W = R * q
  PROVE  GroupFacts(R, q, W)
<1>1. W \in Nat /\ W > 0
  OBVIOUS
<1>2. W % R = 0 /\ W \div R = q
  OBVIOUS
<1>3. ASSUME NEW i \in 1..W
      PROVE  /\ (i - 1) \div q \in Nat /\ (i - 1) \div q < R
             /\ Plane!Min({R, 1 + (i - 1) \div q}) = 1 + (i - 1) \div q
  <2>1. i - 1 \in Nat /\ i - 1 < R * q
    OBVIOUS
  <2> DEFINE x == i - 1
  <2> HIDE DEF x
  <2>2. x \in Nat /\ x < R * q
    BY <2>1 DEF x
  <2>3. x \div q \in Nat /\ x \div q < R
    BY <2>2
  <2> DEFINE d == x \div q
  <2> HIDE DEF d
  <2>4. d \in Nat /\ d < R
    BY <2>3 DEF d
  <2>5. Plane!Min({R, 1 + d}) = 1 + d
    BY <2>4, SmallerOfTwo
  <2> QED BY <2>4, <2>5 DEF d, x
<1>4. ASSUME NEW k \in 1..R
      PROVE  /\ (k - 1) * q + 1 \in 1..W
             /\ ((k - 1) * q) \div q = k - 1
             /\ Plane!Min({W, (k - 1) * q + 1}) = (k - 1) * q + 1
  <2> DEFINE r == k - 1
             x == r * q
  <2>1. r \in Nat /\ r < R
    OBVIOUS
  <2> HIDE DEF r
  <2>2. x \in Nat /\ x + 1 <= W /\ x \div q = r
    <3>1. x \in Nat
      BY <2>1
    <3>2. x + 1 <= R * q
      BY <2>1
    <3>3. x \div q = r
      BY <2>1
    <3> QED BY <3>1, <3>2, <3>3
  <2> HIDE DEF x
  <2>3. Plane!Min({W, x + 1}) = x + 1
    BY <1>1, <2>2, SmallerOfTwo
  <2>4. x + 1 \in 1..W
    BY <1>1, <2>2
  <2> QED BY <2>2, <2>3, <2>4 DEF x, r
<1> QED BY <1>1, <1>2, <1>3, <1>4 DEF GroupFacts

\* The workers of equal groups serve as many infer instances as there are groups.
AreGroupNumbers(R, q, W, N) ==
  /\ \A i \in 1..W : \E x \in N : x = 1 + Plane!Min({R, 1 + (i - 1) \div q})
  /\ \A x \in N : \E i \in 1..W : x = 1 + Plane!Min({R, 1 + (i - 1) \div q})

LEMMA GroupNumbers ==
  ASSUME NEW R \in Nat, R > 0, NEW q \in Nat, q > 0, NEW W, W = R * q, NEW N,
         AreGroupNumbers(R, q, W, N)
  PROVE  Cardinality(N) = R
<1>0. GroupFacts(R, q, W)
  BY Groups
<1> DEFINE g(i) == 1 + Plane!Min({R, 1 + (i - 1) \div q})
<1>1. ASSUME NEW i \in 1..W PROVE g(i) \in 2..(R + 1)
  <2> DEFINE d == (i - 1) \div q
  <2>1. d \in Nat /\ d < R /\ Plane!Min({R, 1 + d}) = 1 + d
    BY <1>0 DEF GroupFacts
  <2>2. g(i) = 1 + (1 + d)
    BY <2>1
  <2> HIDE DEF d, g
  <2> QED BY <2>1, <2>2
<1>2. ASSUME NEW x \in 2..(R + 1) PROVE x \in N
  <2> DEFINE k == x - 1
  <2>1. k \in 1..R
    OBVIOUS
  <2> DEFINE i == (k - 1) * q + 1
  <2>2. i \in 1..W /\ ((k - 1) * q) \div q = k - 1
    <3> HIDE DEF k
    <3> QED BY <1>0, <2>1 DEF GroupFacts
  <2>3. i - 1 = (k - 1) * q
    <3>1. (k - 1) * q \in Int
      BY <2>1
    <3> QED BY <3>1
  <2>4. (i - 1) \div q = k - 1
    BY <2>2, <2>3
  <2>5. g(i) = 1 + (1 + (i - 1) \div q)
    <3> HIDE DEF i
    <3>1. Plane!Min({R, 1 + (i - 1) \div q}) = 1 + (i - 1) \div q
      BY <1>0, <2>2 DEF GroupFacts
    <3> QED BY <3>1
  <2>6. g(i) = x
    <3> HIDE DEF i, g
    <3> QED BY <2>4, <2>5
  <2> HIDE DEF i, k
  <2>7. \E y \in N : y = g(i)
    BY <2>2 DEF AreGroupNumbers
  <2> QED BY <2>6, <2>7
<1> HIDE DEF g
<1>3. N = 2..(R + 1)
  <2>1. ASSUME NEW x \in N PROVE x \in 2..(R + 1)
    <3>1. PICK i \in 1..W : x = g(i)
      BY DEF g, AreGroupNumbers
    <3> QED BY <1>1, <3>1
  <2> QED BY <1>2, <2>1
<1>4. Cardinality(2..(R + 1)) = R
  BY FS_Interval
<1> QED BY <1>3, <1>4

-----------------------------------------------------------------------------
(* Rendering.                                                               *)

\* The nodes of a document.
LEMMA DocumentNodes ==
  ASSUME PlaneSound, NEW doc \in DocumentType
  PROVE  /\ Plane!RenderNodes(doc) \in Seq(PlaneNodes)
         /\ Len(Plane!RenderNodes(doc)) >= 1
         /\ Plane!HasTopology(doc) => Plane!RenderNodes(doc) = doc.topology
         /\ ~Plane!HasTopology(doc) =>
              /\ Len(Plane!RenderNodes(doc)) = 1
              /\ Plane!RenderNodes(doc)[1] =
                   [name |-> IF doc.executionNode # NoNode THEN doc.executionNode ELSE LocalNode,
                    mode |-> "mixed", gpus |-> {}]
<1>1. CASE Plane!HasTopology(doc)
  <2>1. doc.topology \in Seq(PlaneNodes) /\ doc.topology # <<>>
    BY <1>1 DEF DocumentType, Plane!HasTopology
  <2>2. Len(doc.topology) >= 1
    BY <2>1, EmptySeq, LenProperties
  <2> QED BY <1>1, <2>1, <2>2 DEF Plane!RenderNodes
<1>2. CASE ~Plane!HasTopology(doc)
  <2> DEFINE n == [name |-> IF doc.executionNode # NoNode THEN doc.executionNode ELSE LocalNode,
                   mode |-> "mixed", gpus |-> {}]
  <2>1. Plane!RenderNodes(doc) = <<n>>
    BY <1>2 DEF Plane!RenderNodes, Plane!Node
  <2>2. n \in PlaneNodes
    BY DEF PlaneNodes, DocumentType, SomeHost, PlaneSound, Plane!Modes
  <2> HIDE DEF n
  <2>3. <<n>> \in Seq(PlaneNodes) /\ Len(<<n>>) = 1 /\ <<n>>[1] = n
    BY <2>2
  <2> QED BY <1>2, <2>1, <2>3 DEF n
<1> QED BY <1>1, <1>2

\* The replicas of a document that passes the validator.
LEMMA DocumentGroups ==
  ASSUME NEW doc \in DocumentType, Plane!Loads(doc)
  PROVE  LET R == Plane!InferReplicas(doc)
             q == Plane!WorkersPerReplica(doc)
         IN  /\ R \in Nat /\ R > 0 /\ q \in Nat /\ q > 0 /\ doc.workers = R * q
             /\ doc.workers \in Nat /\ doc.workers > 0
             /\ doc.replicas <= 1 => R = 1
<1> DEFINE W == doc.workers
           R == Plane!InferReplicas(doc)
           q == Plane!WorkersPerReplica(doc)
<1>1. W \in Nat /\ W > 0 /\ doc.replicas \in Nat /\ (doc.replicas > 0 => W % doc.replicas = 0)
  BY DEF DocumentType, Plane!Loads, Plane!ValidateInfer
<1>2. R = IF doc.replicas >= 1 THEN doc.replicas ELSE 1
  BY <1>1, AtLeastOne DEF Plane!InferReplicas
<1>3. q = Plane!Max({1, W \div R})
  BY DEF Plane!WorkersPerReplica
<1> HIDE DEF W, R, q
<1>4. R \in Nat /\ R > 0 /\ W % R = 0
  BY <1>1, <1>2
<1>5. W = R * (W \div R)
  BY <1>1, <1>4
<1>6. W \div R \in Nat /\ W \div R > 0
  BY <1>1, <1>4
<1>7. q = W \div R
  <2> DEFINE d == W \div R
  <2> HIDE DEF d
  <2>1. d \in Nat /\ d > 0
    BY <1>6 DEF d
  <2>2. Plane!Max({1, d}) = d
    BY <2>1, AtLeastOne
  <2> QED BY <1>3, <2>2 DEF d
<1>8. doc.replicas <= 1 => R = 1
  BY <1>1, <1>2
<1> QED BY <1>1, <1>4, <1>5, <1>6, <1>7, <1>8 DEF W, R, q

\* The first node that may run an infer instance is one of the nodes.
LEMMA FirstCapableIsNode ==
  ASSUME NEW nodes \in Seq(PlaneNodes), Len(nodes) >= 1
  PROVE  /\ \E j \in DOMAIN nodes : FirstCapable(nodes) = nodes[j].name
         /\ FirstCapable(nodes) \in HostNames
         /\ nodes[1].mode # "worker-only" => FirstCapable(nodes) = nodes[1].name
<1> DEFINE C == {j \in DOMAIN nodes : nodes[j].mode # "worker-only"}
<1>1. DOMAIN nodes = 1..Len(nodes) /\ Len(nodes) \in Nat /\ 1 \in DOMAIN nodes
      /\ \A j \in DOMAIN nodes : nodes[j] \in PlaneNodes
  BY LenProperties
<1>2. C \in SUBSET (0..Len(nodes))
  BY <1>1
<1>3. FirstCapable(nodes) = IF C # {} THEN nodes[Plane!Min(C)].name ELSE nodes[1].name
  BY DEF FirstCapable
<1> HIDE DEF C
<1>4. C # {} => Plane!Min(C) \in C /\ \A y \in C : Plane!Min(C) <= y
  <2> SUFFICES ASSUME C # {} PROVE Plane!Min(C) \in C /\ \A y \in C : Plane!Min(C) <= y
    OBVIOUS
  <2>1. PICK m \in C : \A y \in C : m <= y
    BY <1>1, <1>2, SmallestExists
  <2> QED BY <2>1 DEF Plane!Min
<1>5. \E j \in DOMAIN nodes : FirstCapable(nodes) = nodes[j].name
  BY <1>1, <1>3, <1>4 DEF C
<1>6. nodes[1].mode # "worker-only" => FirstCapable(nodes) = nodes[1].name
  <2> SUFFICES ASSUME nodes[1].mode # "worker-only" PROVE FirstCapable(nodes) = nodes[1].name
    OBVIOUS
  <2>1. 1 \in C
    BY <1>1 DEF C
  <2>2. Plane!Min(C) <= 1 /\ Plane!Min(C) \in 1..Len(nodes)
    BY <1>1, <1>4, <2>1 DEF C
  <2>3. Plane!Min(C) = 1
    BY <1>1, <2>2
  <2> QED BY <1>3, <2>1, <2>3
<1> QED BY <1>1, <1>5, <1>6 DEF PlaneNodes

-----------------------------------------------------------------------------
(* States of one shape.                                                     *)

\* t has the instances of s on the same nodes; only GPUs, shares and inventory differ.
Alike(s, t) ==
  /\ t \in PlaneStates /\ t.llm = s.llm /\ t.infers = s.infers
  /\ Len(t.workers) = Len(s.workers) /\ Len(t.nodes) = Len(s.nodes)
  /\ \A i \in DOMAIN s.workers :
       t.workers[i].node = s.workers[i].node /\ t.workers[i].infer = s.workers[i].infer
  /\ \A j \in DOMAIN s.nodes : t.nodes[j].name = s.nodes[j].name
  /\ Len(s.nodes) >= 2 =>
       t.target = NoNode /\ \A j \in DOMAIN s.nodes : t.nodes[j].mode = s.nodes[j].mode
  /\ Len(s.nodes) = 1 => t.target \in {NoNode, s.nodes[1].name}
  /\ Len(s.nodes) = 1 /\ Len(s.workers) # 1 =>
       /\ t.target # NoNode
       /\ \A i \in DOMAIN t.workers :
            t.workers[i].gpu = t.workers[1].gpu /\ t.workers[i].gpu # NoGpu

LEMMA StateParts ==
  ASSUME NEW s \in PlaneStates
  PROVE  /\ s.target \in SomeHost /\ s.llm \in BOOLEAN
         /\ s.nodes \in Seq(PlaneNodes) /\ Len(s.nodes) \in Nat /\ DOMAIN s.nodes = 1..Len(s.nodes)
         /\ \A j \in DOMAIN s.nodes :
              s.nodes[j] \in PlaneNodes /\ s.nodes[j].name \in HostNames
         /\ s.infers \in Seq(HostNames) /\ Len(s.infers) \in Nat
         /\ DOMAIN s.infers = 1..Len(s.infers)
         /\ \A k \in DOMAIN s.infers : s.infers[k] \in HostNames
         /\ s.workers \in Seq(PlaneWorkers) /\ Len(s.workers) \in Nat
         /\ DOMAIN s.workers = 1..Len(s.workers)
         /\ \A i \in DOMAIN s.workers :
              /\ s.workers[i] \in PlaneWorkers /\ s.workers[i].node \in HostNames
              /\ s.workers[i].gpu \in SomeGpu /\ s.workers[i].halves \in Halves
              /\ s.workers[i].infer \in Nat
<1>1. /\ s.target \in SomeHost /\ s.llm \in BOOLEAN /\ s.nodes \in Seq(PlaneNodes)
      /\ s.infers \in Seq(HostNames) /\ s.workers \in Seq(PlaneWorkers)
  BY DEF PlaneStates
<1>2. Len(s.nodes) \in Nat /\ DOMAIN s.nodes = 1..Len(s.nodes)
      /\ \A j \in DOMAIN s.nodes : s.nodes[j] \in PlaneNodes
  BY <1>1, SequenceIsFunction
<1>3. Len(s.infers) \in Nat /\ DOMAIN s.infers = 1..Len(s.infers)
      /\ \A k \in DOMAIN s.infers : s.infers[k] \in HostNames
  BY <1>1, SequenceIsFunction
<1>4. Len(s.workers) \in Nat /\ DOMAIN s.workers = 1..Len(s.workers)
      /\ \A i \in DOMAIN s.workers : s.workers[i] \in PlaneWorkers
  BY <1>1, SequenceIsFunction
<1>5. \A n \in PlaneNodes : n.name \in HostNames
  BY DEF PlaneNodes
<1>6. \A w \in PlaneWorkers : /\ w.node \in HostNames /\ w.gpu \in SomeGpu
                              /\ w.halves \in Halves /\ w.infer \in Nat
  BY DEF PlaneWorkers
<1> QED BY <1>1, <1>2, <1>3, <1>4, <1>5, <1>6

\* Several nodes, or one.
LEMMA StateCases ==
  ASSUME NEW s, StateSound(s)
  PROVE  /\ Len(s.nodes) >= 2 \/ Len(s.nodes) = 1
         /\ Len(s.nodes) >= 2 => Spread(s)
         /\ Len(s.nodes) = 1 => Single(s)
<1>1. Spread(s) \/ Single(s)
  BY DEF StateSound
<1>2. Spread(s) => Len(s.nodes) >= 2
  BY DEF Spread
<1>3. Single(s) => Len(s.nodes) = 1
  BY DEF Single
<1>4. Len(s.nodes) \in Nat
  BY StateParts DEF StateSound
<1>5. ~(Len(s.nodes) >= 2 /\ Len(s.nodes) = 1)
  <2> DEFINE n == Len(s.nodes)
  <2>1. n \in Nat
    BY <1>4
  <2> HIDE DEF n
  <2>2. ~(n >= 2 /\ n = 1)
    BY <2>1
  <2> QED BY <2>2 DEF n
<1> QED BY <1>1, <1>2, <1>3, <1>5, Zenon

\* The groups of a state.
LEMMA StateGroups ==
  ASSUME NEW s, StateSound(s)
  PROVE  /\ Replicas(s) \in Nat /\ Replicas(s) > 0 /\ Size(s) \in Nat /\ Size(s) > 0
         /\ Len(s.workers) = Replicas(s) * Size(s)
         /\ GroupFacts(Replicas(s), Size(s), Len(s.workers))
         /\ Len(s.infers) = Replicas(s) + 1 /\ Len(s.workers) >= 1
<1> DEFINE R == Replicas(s)
           q == Size(s)
           W == Len(s.workers)
           I == Len(s.infers)
<1>1. W \in Nat /\ I \in Nat /\ I >= 2 /\ W >= 1 /\ W = R * q
  BY StateParts DEF StateSound, Grouped
<1>2. R = I - 1 /\ q = W \div R
  BY DEF Replicas, Size
<1> HIDE DEF R, q, W, I
<1>3. R \in Nat /\ R > 0 /\ I = R + 1
  BY <1>1, <1>2
<1>4. q \in Int
  BY <1>1, <1>2, <1>3
<1>5. q \in Nat /\ q > 0
  BY <1>1, <1>3, <1>4
<1>6. GroupFacts(R, q, W)
  BY <1>1, <1>3, <1>5, Groups
<1> QED BY <1>1, <1>3, <1>5, <1>6 DEF R, q, W, I

\* A state of the shape of a sound one is sound.
LEMMA AlikeIsSound ==
  ASSUME NEW s, NEW t, StateSound(s), Alike(s, t)
  PROVE  StateSound(t)
<1>1. s \in PlaneStates /\ t \in PlaneStates
  BY DEF StateSound, Alike
<1>2. Replicas(t) = Replicas(s) /\ Size(t) = Size(s) /\ DOMAIN t.workers = DOMAIN s.workers
      /\ DOMAIN t.nodes = DOMAIN s.nodes /\ t.infers = s.infers /\ t.llm = s.llm
      /\ Len(t.workers) = Len(s.workers)
  BY <1>1, StateParts DEF Replicas, Size, Alike
<1>3. Grouped(t)
  BY <1>2 DEF StateSound, Grouped, Alike
<1>4. CASE Spread(s)
  <2>1. Len(s.nodes) >= 2 /\ Len(t.nodes) >= 2 /\ t.target = NoNode
        /\ \A j \in DOMAIN s.nodes : t.nodes[j].name = s.nodes[j].name /\ t.nodes[j].mode = s.nodes[j].mode
    BY <1>4 DEF Spread, Alike
  <2>2. Registered(t.nodes)
    BY <1>2, <1>4, <2>1 DEF Spread, Registered
  <2>3. FirstCapable(t.nodes) = FirstCapable(s.nodes)
    <3> DEFINE C(nodes) == {j \in DOMAIN nodes : nodes[j].mode # "worker-only"}
    <3>1. C(t.nodes) = C(s.nodes)
      BY <1>2, <2>1
    <3>2. 1 \in DOMAIN s.nodes
      BY <1>1, <2>1, StateParts
    <3>3. C(s.nodes) # {} => Plane!Min(C(s.nodes)) \in DOMAIN s.nodes
      <4> SUFFICES ASSUME C(s.nodes) # {} PROVE Plane!Min(C(s.nodes)) \in C(s.nodes)
        OBVIOUS
      <4>1. Len(s.nodes) \in Nat /\ C(s.nodes) \in SUBSET (0..Len(s.nodes))
        BY <1>1, StateParts
      <4> HIDE DEF C
      <4>2. PICK m \in C(s.nodes) : \A y \in C(s.nodes) : m <= y
        BY <4>1, SmallestExists
      <4> QED BY <4>2 DEF Plane!Min
    <3>4. /\ FirstCapable(s.nodes) = IF C(s.nodes) # {} THEN s.nodes[Plane!Min(C(s.nodes))].name
                                     ELSE s.nodes[1].name
          /\ FirstCapable(t.nodes) = IF C(t.nodes) # {} THEN t.nodes[Plane!Min(C(t.nodes))].name
                                     ELSE t.nodes[1].name
      BY DEF FirstCapable
    <3> HIDE DEF C
    <3> QED BY <2>1, <3>1, <3>2, <3>3, <3>4
  <2>4. \A k \in DOMAIN t.infers : \E j \in DOMAIN t.nodes : t.infers[k] = t.nodes[j].name
    BY <1>2, <1>4, <2>1 DEF Spread
  <2>5. ASSUME NEW k \in 1..Replicas(t)
        PROVE  t.infers[k + 1] = IF Replicas(t) > 1 THEN t.workers[(k - 1) * Size(t) + 1].node
                                 ELSE FirstCapable(t.nodes)
    <3> DEFINE i == (k - 1) * Size(s) + 1
    <3>1. i \in DOMAIN s.workers
      <4>1. GroupFacts(Replicas(s), Size(s), Len(s.workers)) /\ DOMAIN s.workers = 1..Len(s.workers)
        BY <1>1, StateGroups, StateParts
      <4>2. k \in 1..Replicas(s)
        BY <1>2
      <4> QED BY <4>1, <4>2 DEF GroupFacts
    <3> HIDE DEF i
    <3>2. t.workers[i].node = s.workers[i].node
      BY <3>1 DEF Alike
    <3>3. s.infers[k + 1] = IF Replicas(s) > 1 THEN s.workers[i].node ELSE FirstCapable(s.nodes)
      BY <1>2, <1>4 DEF Spread, i
    <3> QED BY <1>2, <2>3, <3>2, <3>3 DEF i
  <2> QED BY <1>1, <1>3, <2>1, <2>2, <2>4, <2>5 DEF StateSound, Spread
<1>5. CASE Single(s)
  <2>1. Len(s.nodes) = 1 /\ Len(t.nodes) = 1 /\ 1 \in DOMAIN s.nodes
        /\ t.nodes[1].name = s.nodes[1].name
    <3>1. Len(s.nodes) = 1 /\ Len(t.nodes) = 1
      BY <1>5 DEF Single, Alike
    <3>2. 1 \in DOMAIN s.nodes
      BY <1>1, <3>1, StateParts
    <3> QED BY <3>1, <3>2 DEF Alike
  <2>2. t.target \in {NoNode, t.nodes[1].name}
    BY <2>1 DEF Alike
  <2>3. \A k \in DOMAIN t.infers : t.infers[k] = t.nodes[1].name
    BY <1>2, <1>5, <2>1 DEF Single
  <2>4. \A i \in DOMAIN t.workers : t.workers[i].node = t.nodes[1].name
    BY <1>2, <1>5, <2>1 DEF Single, Alike
  <2>5. Len(t.workers) # 1 =>
          /\ t.target # NoNode
          /\ \A i \in DOMAIN t.workers :
               t.workers[i].gpu = t.workers[1].gpu /\ t.workers[i].gpu # NoGpu
    BY <1>2, <2>1 DEF Alike
  <2> QED BY <1>1, <1>3, <2>1, <2>2, <2>3, <2>4, <2>5 DEF StateSound, Single
<1> QED BY <1>4, <1>5 DEF StateSound

\* The registry's modes and the observed GPUs change no name.
LEMMA InventoryAlike ==
  ASSUME PlaneSound, NEW s, StateSound(s)
  PROVE  Alike(s, Plane!WithInventory(s)) /\ Plane!WithInventory(s).workers = s.workers
         /\ Plane!WithInventory(s).target = s.target
<1> DEFINE ns == [i \in DOMAIN s.nodes |->
                   Plane!Node(s.nodes[i].name,
                        IF s.nodes[i].name \in Nodes THEN ModeOf[s.nodes[i].name] ELSE s.nodes[i].mode,
                        s.nodes[i].gpus \union
                          (IF s.nodes[i].name \in Nodes THEN GpusOf[s.nodes[i].name] ELSE {}))]
           t == Plane!WithInventory(s)
<1>1. s \in PlaneStates
  BY DEF StateSound
<1>2. t = [s EXCEPT !.nodes = ns]
  BY DEF Plane!WithInventory
<1>3. ASSUME NEW i \in DOMAIN s.nodes
      PROVE  ns[i] \in PlaneNodes /\ ns[i].name = s.nodes[i].name
             /\ (Registered(s.nodes) => ns[i].mode = s.nodes[i].mode)
  <2> DEFINE n == s.nodes[i]
  <2>1. n \in PlaneNodes
    BY <1>1, StateParts
  <2>2. ns[i] = [name |-> n.name, mode |-> IF n.name \in Nodes THEN ModeOf[n.name] ELSE n.mode,
                 gpus |-> n.gpus \union (IF n.name \in Nodes THEN GpusOf[n.name] ELSE {})]
    BY DEF Plane!Node
  <2>3. Registered(s.nodes) => (n.name \in Nodes => n.mode = ModeOf[n.name])
    BY DEF Registered
  <2> HIDE DEF ns, n
  <2>4. ns[i].name = n.name /\ ns[i].mode = IF n.name \in Nodes THEN ModeOf[n.name] ELSE n.mode
    BY <2>2
  <2>5. ns[i] \in PlaneNodes
    BY <2>1, <2>2 DEF PlaneNodes, PlaneSound
  <2> QED BY <2>3, <2>4, <2>5 DEF n
<1>4. ns \in [1..Len(s.nodes) -> PlaneNodes] /\ Len(s.nodes) \in Nat /\ DOMAIN s.nodes = 1..Len(s.nodes)
  <2>1. Len(s.nodes) \in Nat /\ DOMAIN s.nodes = 1..Len(s.nodes)
    BY <1>1, StateParts
  <2>2. DOMAIN ns = 1..Len(s.nodes) /\ ns = [i \in DOMAIN ns |-> ns[i]]
    BY <2>1
  <2>3. \A i \in 1..Len(s.nodes) : ns[i] \in PlaneNodes
    BY <1>3, <2>1
  <2> HIDE DEF ns
  <2> QED BY <2>1, <2>2, <2>3
<1> HIDE DEF ns, t
<1>5. ns \in Seq(PlaneNodes) /\ Len(ns) = Len(s.nodes)
  BY <1>4, FunctionIsSequence
<1>6. /\ t.nodes = ns /\ t.workers = s.workers /\ t.infers = s.infers /\ t.llm = s.llm
      /\ t.target = s.target /\ t \in PlaneStates
  BY <1>1, <1>2, <1>5 DEF PlaneStates
<1>7. Len(s.nodes) >= 2 => Registered(s.nodes) /\ s.target = NoNode
  BY StateCases DEF Spread
<1>8. Len(s.nodes) = 1 =>
        /\ s.target \in {NoNode, s.nodes[1].name}
        /\ Len(s.workers) # 1 =>
             /\ s.target # NoNode
             /\ \A i \in DOMAIN s.workers :
                  s.workers[i].gpu = s.workers[1].gpu /\ s.workers[i].gpu # NoGpu
  BY StateCases DEF Single
<1>9. Alike(s, t)
  BY <1>3, <1>4, <1>5, <1>6, <1>7, <1>8 DEF Alike
<1> QED BY <1>6, <1>9 DEF t

\* A placement gives every worker a GPU and leaves it on its node.
LEMMA PlacementAlike ==
  ASSUME PlaneSound, NEW s, StateSound(s), NEW ws \in Plane!Placements(s)
  PROVE  Alike(s, [s EXCEPT !.workers = ws])
<1> DEFINE t == [s EXCEPT !.workers = ws]
<1>1. s \in PlaneStates /\ Len(s.workers) \in Nat /\ DOMAIN s.workers = 1..Len(s.workers)
      /\ Len(s.nodes) \in Nat
  BY StateParts DEF StateSound
<1>2. DOMAIN ws = DOMAIN s.workers /\ ws = [i \in DOMAIN s.workers |-> ws[i]]
      /\ Plane!ResolvesPlacements(s, ws)
      /\ \A i \in DOMAIN s.workers :
           \E a \in {w.node : w \in Plane!Range(s.workers)}, g \in Plane!Gpus, h \in 1..2,
              b \in {w.infer : w \in Plane!Range(s.workers)} :
                ws[i] = [node |-> a, gpu |-> g, halves |-> h, infer |-> b]
  BY DEF Plane!Placements, Plane!Whole
<1>3. ASSUME NEW i \in DOMAIN s.workers
      PROVE  /\ ws[i].node = s.workers[i].node /\ ws[i].infer = s.workers[i].infer
             /\ ws[i] \in PlaneWorkers
             /\ s.workers[i].gpu # NoGpu => ws[i] = s.workers[i]
  <2> DEFINE w == s.workers[i]
  <2>1. w \in PlaneWorkers /\ w.node \in HostNames /\ w.infer \in Nat
    BY <1>1, StateParts
  <2>2. PICK a \in {v.node : v \in Plane!Range(s.workers)}, g \in Plane!Gpus, h \in 1..2,
             b \in {v.infer : v \in Plane!Range(s.workers)} :
          ws[i] = [node |-> a, gpu |-> g, halves |-> h, infer |-> b]
    BY <1>2
  <2>3. w.gpu # NoGpu => ws[i] = w
    BY <1>2 DEF Plane!ResolvesPlacements
  <2>4. w.gpu = NoGpu => \E x, y : ws[i] = [w EXCEPT !.gpu = x, !.halves = y]
    <3> SUFFICES ASSUME w.gpu = NoGpu PROVE \E x, y : ws[i] = [w EXCEPT !.gpu = x, !.halves = y]
      OBVIOUS
    <3>1. \E ids, x : ws[i] = Plane!PlaceWorker(ws, ids, w, x)
      BY <1>2 DEF Plane!ResolvesPlacements
    <3>2. PICK ids, x : ws[i] = Plane!PlaceWorker(ws, ids, w, x)
      BY <3>1
    <3> HIDE DEF w
    <3> QED BY <3>2 DEF Plane!PlaceWorker
  <2> HIDE DEF w
  <2>5. ws[i].node = w.node /\ ws[i].infer = w.infer
    BY <2>1, <2>3, <2>4 DEF PlaneWorkers
  <2>6. ws[i].gpu \in SomeGpu /\ ws[i].halves \in Halves
    BY <2>2 DEF SomeGpu, Halves
  <2>7. a = ws[i].node /\ b = ws[i].infer /\ g \in SomeGpu /\ h \in Halves
    BY <2>2 DEF SomeGpu, Halves
  <2>8. ws[i] \in PlaneWorkers
    BY <2>1, <2>2, <2>5, <2>7 DEF PlaneWorkers
  <2> QED BY <2>3, <2>5, <2>8 DEF w
<1>4. ws \in [1..Len(s.workers) -> PlaneWorkers]
  BY <1>1, <1>2, <1>3
<1>5. ws \in Seq(PlaneWorkers) /\ Len(ws) = Len(s.workers)
  BY <1>1, <1>4, FunctionIsSequence
<1>6. /\ t.nodes = s.nodes /\ t.workers = ws /\ t.infers = s.infers /\ t.llm = s.llm
      /\ t.target = s.target /\ t \in PlaneStates
  BY <1>1, <1>5 DEF PlaneStates
<1> HIDE DEF t
<1>7. Len(s.nodes) >= 2 => s.target = NoNode
  BY StateCases DEF Spread
<1>8. Len(s.nodes) = 1 =>
        /\ s.target \in {NoNode, s.nodes[1].name}
        /\ Len(s.workers) # 1 =>
             /\ s.target # NoNode
             /\ \A i \in DOMAIN ws : ws[i].gpu = ws[1].gpu /\ ws[i].gpu # NoGpu
  <2>1. Len(s.nodes) = 1 => Single(s)
    BY StateCases
  <2>2. 1 \in DOMAIN s.workers
    BY <1>1 DEF StateSound, Grouped
  <2> QED BY <1>2, <1>3, <2>1, <2>2 DEF Single
<1>9. Alike(s, t)
  BY <1>3, <1>5, <1>6, <1>7, <1>8 DEF Alike
<1> QED BY <1>9 DEF t

-----------------------------------------------------------------------------
(* Rendering a document that passes the validator.                          *)

IsNode(nodes, name) == \E j \in DOMAIN nodes : name = nodes[j].name

LEMMA WorkerNodeIsNode ==
  ASSUME PlaneSound, NEW doc \in DocumentType, Plane!Loads(doc), NEW i
  PROVE  IsNode(Plane!RenderNodes(doc), Plane!ResolveWorkerNode(doc, i))
<1> DEFINE ns == Plane!RenderNodes(doc)
<1>1. ns \in Seq(PlaneNodes) /\ Len(ns) >= 1 /\ (Plane!HasTopology(doc) => ns = doc.topology)
  BY DocumentNodes
<1>2. IsNode(ns, ns[1].name)
  <2> HIDE DEF ns
  <2>1. 1 \in DOMAIN ns
    BY <1>1, LenProperties
  <2> QED BY <2>1 DEF IsNode
<1>3. ASSUME Plane!HasTopology(doc), NEW name \in HostNames,
             name \in Plane!NamesOf(doc.topology) \cup {NoNode}
      PROVE  IsNode(ns, name)
  <2>1. name # NoNode
    BY DEF PlaneSound
  <2> QED BY <1>1, <1>3, <2>1 DEF Plane!NamesOf, IsNode
<1>4. CASE Plane!HasTopology(doc) /\ i \in DOMAIN doc.assignments
  <2>1. doc.assignments[i] \in [node : HostNames, gpu : SomeGpu]
    BY <1>4, SequenceIsFunction DEF DocumentType
  <2>2. doc.assignments[i].node \in HostNames
    BY <2>1
  <2>3. doc.assignments[i].node \in Plane!NamesOf(doc.topology) \cup {NoNode}
    BY <1>4 DEF Plane!Loads
  <2>4. Plane!ResolveWorkerNode(doc, i) = doc.assignments[i].node
    BY <1>4 DEF Plane!ResolveWorkerNode
  <2> HIDE DEF ns
  <2> QED BY <1>3, <1>4, <2>2, <2>3, <2>4 DEF ns
<1>5. CASE ~(Plane!HasTopology(doc) /\ i \in DOMAIN doc.assignments)
           /\ Plane!HasTopology(doc) /\ doc.workerNode # NoNode
  <2>1. doc.workerNode \in HostNames
    BY <1>5 DEF DocumentType, SomeHost
  <2>2. doc.workerNode \in Plane!NamesOf(doc.topology) \cup {NoNode}
    BY <1>5 DEF Plane!Loads
  <2>3. Plane!ResolveWorkerNode(doc, i) = doc.workerNode
    BY <1>5 DEF Plane!ResolveWorkerNode
  <2> HIDE DEF ns
  <2> QED BY <1>3, <1>5, <2>1, <2>2, <2>3 DEF ns
<1>6. CASE ~(Plane!HasTopology(doc) /\ i \in DOMAIN doc.assignments)
           /\ ~(Plane!HasTopology(doc) /\ doc.workerNode # NoNode)
  <2>1. Plane!ResolveWorkerNode(doc, i) = ns[1].name
    BY <1>6 DEF Plane!ResolveWorkerNode, Plane!DefaultNode
  <2> QED BY <1>2, <2>1
<1> QED BY <1>4, <1>5, <1>6

\* What rendering makes of a document.
RenderFacts(doc, s) ==
  /\ s \in PlaneStates
  /\ s.target = doc.executionNode /\ s.llm = doc.llm /\ s.nodes = Plane!RenderNodes(doc)
  /\ Replicas(s) = Plane!InferReplicas(doc) /\ Size(s) = Plane!WorkersPerReplica(doc)
  /\ Len(s.workers) = doc.workers /\ Len(s.workers) >= 1
  /\ Len(s.workers) = Replicas(s) * Size(s) /\ Len(s.infers) >= 2
  /\ \A i \in DOMAIN s.workers :
       /\ s.workers[i].node = Plane!ResolveWorkerNode(doc, i)
       /\ s.workers[i].gpu = Plane!ResolveWorkerGpu(doc, i)
       /\ s.workers[i].halves = doc.halves
       /\ s.workers[i].infer = 1 + Plane!Min({Replicas(s), 1 + (i - 1) \div Size(s)})
       /\ IsNode(s.nodes, s.workers[i].node)
  /\ s.infers[1] = IF Plane!HasTopology(doc) /\ doc.inferNode # NoNode THEN doc.inferNode
                   ELSE FirstCapable(s.nodes)
  /\ \A k \in 1..Replicas(s) :
       s.infers[k + 1] = IF Replicas(s) > 1 THEN s.workers[(k - 1) * Size(s) + 1].node
                         ELSE FirstCapable(s.nodes)
  /\ \A k \in DOMAIN s.infers : IsNode(s.nodes, s.infers[k])

LEMMA NodeIsHost ==
  ASSUME NEW nodes \in Seq(PlaneNodes), NEW name, IsNode(nodes, name)
  PROVE  name \in HostNames
<1>1. PICK j \in DOMAIN nodes : name = nodes[j].name
  BY DEF IsNode
<1>2. nodes[j] \in PlaneNodes
  BY SequenceIsFunction
<1> QED BY <1>1, <1>2 DEF PlaneNodes

LEMMA Rendered ==
  ASSUME PlaneSound, NEW doc \in DocumentType, doc.inferEnabled, Plane!Loads(doc)
  PROVE  RenderFacts(doc, Plane!Render(doc))
<1> DEFINE s == Plane!Render(doc)
           ns == Plane!RenderNodes(doc)
           R == Plane!InferReplicas(doc)
           q == Plane!WorkersPerReplica(doc)
           W == doc.workers
           fs == [k \in 1..R + 1 |-> Plane!ResolveInferNode(doc, k - 1)]
           ws == [i \in 1..W |->
                   [node |-> Plane!ResolveWorkerNode(doc, i), gpu |-> Plane!ResolveWorkerGpu(doc, i),
                    halves |-> doc.halves, infer |-> Plane!InferOfWorker(doc, i)]]
<1>1. R \in Nat /\ R > 0 /\ q \in Nat /\ q > 0 /\ W = R * q /\ W \in Nat /\ W > 0
  BY DocumentGroups
<1>2. GroupFacts(R, q, W)
  <2> HIDE DEF R, q, W
  <2> QED BY <1>1, Groups
<1>3. ns \in Seq(PlaneNodes) /\ Len(ns) >= 1 /\ (Plane!HasTopology(doc) => ns = doc.topology)
  BY DocumentNodes
<1>4. s = [target |-> doc.executionNode, llm |-> doc.llm, nodes |-> ns, infers |-> fs, workers |-> ws]
  BY DEF Plane!Render
<1>5. \A i : IsNode(ns, Plane!ResolveWorkerNode(doc, i)) /\ Plane!ResolveWorkerNode(doc, i) \in HostNames
  <2> HIDE DEF ns
  <2> QED BY <1>3, WorkerNodeIsNode, NodeIsHost DEF ns
<1>6. IsNode(ns, FirstCapable(ns)) /\ FirstCapable(ns) \in HostNames
  <2> HIDE DEF ns
  <2> QED BY <1>3, FirstCapableIsNode DEF IsNode
<1>7. ASSUME NEW i \in 1..W
      PROVE  ws[i] = [node |-> Plane!ResolveWorkerNode(doc, i), gpu |-> Plane!ResolveWorkerGpu(doc, i),
                      halves |-> doc.halves, infer |-> 1 + Plane!Min({R, 1 + (i - 1) \div q})]
             /\ ws[i] \in PlaneWorkers
  <2>1. ws[i] = [node |-> Plane!ResolveWorkerNode(doc, i), gpu |-> Plane!ResolveWorkerGpu(doc, i),
                 halves |-> doc.halves, infer |-> 1 + Plane!Min({R, 1 + (i - 1) \div q})]
    BY DEF Plane!InferOfWorker
  <2>2. Plane!ResolveWorkerGpu(doc, i) \in SomeGpu
    <3>1. i \in DOMAIN doc.assignments => doc.assignments[i].gpu \in SomeGpu
      <4>1. doc.assignments \in Seq([node : HostNames, gpu : SomeGpu])
        BY DEF DocumentType
      <4>2. i \in DOMAIN doc.assignments => doc.assignments[i] \in [node : HostNames, gpu : SomeGpu]
        BY <4>1, SequenceIsFunction
      <4> QED BY <4>2
    <3>2. doc.workerGpu \in SomeGpu
      BY DEF DocumentType
    <3> QED BY <3>1, <3>2 DEF Plane!ResolveWorkerGpu
  <2>3. 1 + Plane!Min({R, 1 + (i - 1) \div q}) \in Nat
    <3> HIDE DEF R, q, W, ws
    <3>1. (i - 1) \div q \in Nat /\ Plane!Min({R, 1 + (i - 1) \div q}) = 1 + (i - 1) \div q
      BY <1>2 DEF GroupFacts
    <3> DEFINE d == (i - 1) \div q
    <3> HIDE DEF d
    <3>2. d \in Nat => 1 + (1 + d) \in Nat
      OBVIOUS
    <3> QED BY <3>1, <3>2 DEF d
  <2>4. doc.halves \in Halves
    BY DEF DocumentType
  <2> HIDE DEF R, q, ws, ns
  <2> QED BY <1>5, <2>1, <2>2, <2>3, <2>4 DEF PlaneWorkers
<1>8. ws \in Seq(PlaneWorkers) /\ Len(ws) = W /\ DOMAIN ws = 1..W
  <2>1. ws \in [1..W -> PlaneWorkers]
    BY <1>7
  <2> HIDE DEF ws, W
  <2> QED BY <1>1, <2>1, FunctionIsSequence
<1>9. fs[1] = IF Plane!HasTopology(doc) /\ doc.inferNode # NoNode THEN doc.inferNode
              ELSE FirstCapable(ns)
  <2>1. fs[1] = Plane!ResolveInferNode(doc, 0)
    <3>1. 1 \in 1..R + 1 /\ 1 - 1 = 0
      <4> HIDE DEF R
      <4> QED BY <1>1
    <3> HIDE DEF R
    <3> QED BY <3>1
  <2> HIDE DEF fs
  <2> QED BY <2>1 DEF Plane!ResolveInferNode, FirstCapable, Plane!DefaultNode
<1>10. ASSUME NEW k \in 1..R
       PROVE  fs[k + 1] = IF R > 1 THEN ws[(k - 1) * q + 1].node ELSE FirstCapable(ns)
  <2>1. fs[k + 1] = Plane!ResolveInferNode(doc, k)
    <3>1. k + 1 \in 1..R + 1 /\ (k + 1) - 1 = k
      <4> HIDE DEF R
      <4> QED BY <1>1
    <3> HIDE DEF R
    <3> QED BY <3>1
  <2>2. k > 0 /\ k # 0
    <3> HIDE DEF R
    <3> QED BY <1>1
  <2>3. Plane!Min({W, (k - 1) * q + 1}) = (k - 1) * q + 1 /\ (k - 1) * q + 1 \in 1..W
    <3> HIDE DEF R, q, W
    <3> QED BY <1>2 DEF GroupFacts
  <2> HIDE DEF fs
  <2>4. CASE R > 1
    <3>1. Plane!ResolveInferNode(doc, k) =
            Plane!ResolveWorkerNode(doc, Plane!Min({W, (k - 1) * q + 1}))
      BY <2>2, <2>4 DEF Plane!ResolveInferNode
    <3> DEFINE i == (k - 1) * q + 1
    <3>2. Plane!Min({W, i}) = i /\ i \in 1..W
      BY <2>3
    <3>3. fs[k + 1] = Plane!ResolveWorkerNode(doc, Plane!Min({W, i}))
      BY <2>1, <3>1
    <3> HIDE DEF i
    <3>4. ws[i].node = Plane!ResolveWorkerNode(doc, i)
      BY <3>2
    <3> HIDE DEF ws, W
    <3>5. fs[k + 1] = ws[i].node
      BY <3>2, <3>3, <3>4
    <3> QED BY <2>4, <3>5 DEF i
  <2>5. CASE ~(R > 1)
    <3>1. Plane!ResolveInferNode(doc, k) = FirstCapable(ns)
      BY <2>2, <2>5 DEF Plane!ResolveInferNode, FirstCapable, Plane!DefaultNode
    <3> HIDE DEF ws, R, ns
    <3> QED BY <2>1, <2>5, <3>1
  <2> QED BY <2>4, <2>5
<1>11. ASSUME NEW k \in 1..R + 1
       PROVE  IsNode(ns, fs[k]) /\ fs[k] \in HostNames
  <2>1. ASSUME Plane!HasTopology(doc), doc.inferNode # NoNode PROVE IsNode(ns, doc.inferNode)
    <3>1. doc.inferNode \in Plane!NamesOf(doc.topology) \cup {NoNode}
      BY <2>1 DEF Plane!Loads
    <3> HIDE DEF ns
    <3> QED BY <1>3, <2>1, <3>1 DEF Plane!NamesOf, IsNode
  <2>2. CASE k = 1
    <3>1. IsNode(ns, fs[1])
      <4> HIDE DEF fs, ns
      <4> QED BY <1>6, <1>9, <2>1
    <3> HIDE DEF fs, ns
    <3> QED BY <1>3, <2>2, <3>1, NodeIsHost
  <2>3. CASE k # 1
    <3> DEFINE m == k - 1
    <3>1. m \in 1..R /\ m + 1 = k
      <4> HIDE DEF R
      <4> QED BY <1>1, <2>3
    <3> HIDE DEF m
    <3>2. fs[m + 1] = IF R > 1 THEN ws[(m - 1) * q + 1].node ELSE FirstCapable(ns)
      BY <1>10, <3>1
    <3>3. (m - 1) * q + 1 \in 1..W
      <4> HIDE DEF R, q, W
      <4> QED BY <1>2, <3>1 DEF GroupFacts
    <3>4. IsNode(ns, ws[(m - 1) * q + 1].node)
      <4> DEFINE i == (m - 1) * q + 1
      <4>1. i \in 1..W
        BY <3>3
      <4> HIDE DEF i
      <4>2. ws[i].node = Plane!ResolveWorkerNode(doc, i)
        BY <4>1
      <4> HIDE DEF ws, ns
      <4>3. IsNode(ns, ws[i].node)
        BY <1>5, <4>2
      <4> QED BY <4>3 DEF i
    <3> HIDE DEF fs, ws, ns, R, q, W
    <3>5. IsNode(ns, fs[k])
      BY <1>6, <3>1, <3>2, <3>4
    <3> QED BY <1>3, <3>5, NodeIsHost
  <2> QED BY <2>2, <2>3
<1>12. fs \in Seq(HostNames) /\ Len(fs) = R + 1 /\ DOMAIN fs = 1..R + 1
  <2>1. fs \in [1..R + 1 -> HostNames] /\ R + 1 \in Nat
    <3>1. fs \in [1..R + 1 -> HostNames]
      BY <1>11
    <3> HIDE DEF R
    <3> QED BY <1>1, <3>1
  <2> HIDE DEF fs, R
  <2> QED BY <2>1, FunctionIsSequence
<1> HIDE DEF fs, ws, ns, R, q, W, s
<1>13. /\ s.target = doc.executionNode /\ s.llm = doc.llm /\ s.nodes = ns /\ s.infers = fs
       /\ s.workers = ws
  BY <1>4
<1>14. s \in PlaneStates
  <2>1. doc.executionNode \in SomeHost /\ doc.llm \in BOOLEAN
    BY DEF DocumentType
  <2> QED BY <1>3, <1>4, <1>8, <1>12, <2>1 DEF PlaneStates
<1>15. Replicas(s) = R
  BY <1>1, <1>12, <1>13 DEF Replicas
<1>16. Size(s) = q
  <2>1. Size(s) = W \div R
    BY <1>8, <1>13, <1>15 DEF Size
  <2> QED BY <1>2, <2>1 DEF GroupFacts
<1>17. Len(s.workers) = W /\ W >= 1 /\ W = R * q /\ Len(s.infers) >= 2
  BY <1>1, <1>8, <1>12, <1>13
<1>18. ASSUME NEW i \in DOMAIN s.workers
       PROVE  /\ s.workers[i].node = Plane!ResolveWorkerNode(doc, i)
              /\ s.workers[i].gpu = Plane!ResolveWorkerGpu(doc, i)
              /\ s.workers[i].halves = doc.halves
              /\ s.workers[i].infer = 1 + Plane!Min({R, 1 + (i - 1) \div q})
              /\ IsNode(s.nodes, s.workers[i].node)
  <2>1. i \in 1..W
    BY <1>8, <1>13
  <2>2. s.workers[i] = [node |-> Plane!ResolveWorkerNode(doc, i), gpu |-> Plane!ResolveWorkerGpu(doc, i),
                        halves |-> doc.halves, infer |-> 1 + Plane!Min({R, 1 + (i - 1) \div q})]
    BY <1>7, <1>13, <2>1
  <2> QED BY <1>5, <1>13, <2>2
<1> QED BY <1>9, <1>10, <1>11, <1>12, <1>13, <1>14, <1>15, <1>16, <1>17, <1>18
        DEF RenderFacts, s, ns, R, q, W

LEMMA OnlyNode ==
  ASSUME NEW nodes \in Seq(PlaneNodes), Len(nodes) = 1, NEW name, IsNode(nodes, name)
  PROVE  name = nodes[1].name
<1>1. DOMAIN nodes = 1..1
  BY SequenceIsFunction
<1>2. PICK j \in DOMAIN nodes : name = nodes[j].name
  BY DEF IsNode
<1>3. j = 1
  BY <1>1, <1>2
<1> QED BY <1>2, <1>3

\* A sound document renders to a sound state.
LEMMA RenderSound ==
  ASSUME PlaneSound, NEW doc, DocumentSound(doc), Plane!Loads(doc),
         "rebalance" \in Operations => doc.replicas <= 1
  PROVE  StateSound(Plane!Render(doc))
<1> DEFINE s == Plane!Render(doc)
<1>1. doc \in DocumentType /\ doc.inferEnabled
  BY DEF DocumentSound
<1>2. RenderFacts(doc, s)
  BY <1>1, Rendered
<1> HIDE DEF s
<1>3. s \in PlaneStates /\ Len(s.workers) \in Nat /\ s.nodes \in Seq(PlaneNodes)
      /\ DOMAIN s.workers = 1..Len(s.workers)
  BY <1>2, StateParts DEF RenderFacts
<1>4. doc.replicas <= 1 => Replicas(s) = 1
  <2>1. doc.replicas <= 1 => Plane!InferReplicas(doc) = 1
    BY <1>1, DocumentGroups
  <2> QED BY <1>2, <2>1 DEF RenderFacts
<1>5. Grouped(s)
  <2>1. ~s.llm => Replicas(s) = 1
    BY <1>2, <1>4 DEF RenderFacts, DocumentSound
  <2>2. "rebalance" \in Operations => Replicas(s) = 1
    BY <1>4
  <2> QED BY <1>2, <2>1, <2>2 DEF RenderFacts, Grouped
<1>6. CASE Len(doc.topology) >= 2 /\ Registered(doc.topology) /\ doc.executionNode = NoNode
  <2>1. Plane!HasTopology(doc)
    <3>1. doc.topology # <<>>
      BY <1>1, <1>6 DEF DocumentType
    <3> QED BY <3>1 DEF Plane!HasTopology
  <2>2. s.nodes = doc.topology /\ s.target = NoNode
    BY <1>1, <1>2, <1>6, <2>1, DocumentNodes DEF RenderFacts
  <2>3. \A k \in DOMAIN s.infers : \E j \in DOMAIN s.nodes : s.infers[k] = s.nodes[j].name
    BY <1>2 DEF RenderFacts, IsNode
  <2>4. Spread(s)
    BY <1>2, <1>6, <2>2, <2>3 DEF RenderFacts, Spread
  <2> QED BY <1>3, <1>5, <2>4 DEF StateSound, s
<1>7. ASSUME Len(s.nodes) = 1, s.target \in {NoNode, s.nodes[1].name},
             \/ doc.workers = 1
             \/ s.target # NoNode /\ doc.topology = <<>> /\ doc.workerGpu # NoGpu
      PROVE  StateSound(s)
  <2>1. \A k \in DOMAIN s.infers : s.infers[k] = s.nodes[1].name
    BY <1>2, <1>3, <1>7, OnlyNode DEF RenderFacts
  <2>2. \A i \in DOMAIN s.workers : s.workers[i].node = s.nodes[1].name
    BY <1>2, <1>3, <1>7, OnlyNode DEF RenderFacts
  <2>3. \/ Len(s.workers) = 1
        \/ /\ s.target # NoNode
           /\ \A i \in DOMAIN s.workers : s.workers[i].gpu = s.workers[1].gpu /\ s.workers[i].gpu # NoGpu
    <3>1. CASE doc.workers = 1
      BY <1>2, <3>1 DEF RenderFacts
    <3>2. CASE s.target # NoNode /\ doc.topology = <<>> /\ doc.workerGpu # NoGpu
      <4>1. \A i \in DOMAIN s.workers : s.workers[i].gpu = doc.workerGpu
        BY <1>2, <3>2 DEF RenderFacts, Plane!ResolveWorkerGpu, Plane!HasTopology
      <4>2. 1 \in DOMAIN s.workers
        BY <1>2, <1>3 DEF RenderFacts
      <4> QED BY <3>2, <4>1, <4>2
    <3> QED BY <1>7, <3>1, <3>2
  <2>4. Single(s)
    BY <1>7, <2>1, <2>2, <2>3 DEF Single
  <2> QED BY <1>3, <1>5, <2>4 DEF StateSound
<1>8. CASE Len(doc.topology) = 1 /\ doc.executionNode = NoNode /\ doc.workers = 1
  <2>1. Plane!HasTopology(doc)
    <3>1. Len(<<>>) = 0
      OBVIOUS
    <3>2. doc.topology # <<>>
      BY <1>8, <3>1
    <3> QED BY <3>2 DEF Plane!HasTopology
  <2>2. s.nodes = doc.topology /\ s.target = NoNode
    BY <1>1, <1>2, <1>8, <2>1, DocumentNodes DEF RenderFacts
  <2> QED BY <1>7, <1>8, <2>2 DEF s
<1>9. CASE doc.topology = <<>>
  <2>1. ~Plane!HasTopology(doc)
    BY <1>9 DEF Plane!HasTopology
  <2>2. Len(s.nodes) = 1 /\ s.target = doc.executionNode
        /\ s.nodes[1].name = IF doc.executionNode # NoNode THEN doc.executionNode ELSE LocalNode
    <3> DEFINE n == [name |-> IF doc.executionNode # NoNode THEN doc.executionNode ELSE LocalNode,
                     mode |-> "mixed", gpus |-> {}]
    <3>1. s.nodes = Plane!RenderNodes(doc) /\ s.target = doc.executionNode
      BY <1>2 DEF RenderFacts
    <3>2. Len(Plane!RenderNodes(doc)) = 1 /\ Plane!RenderNodes(doc)[1] = n
      BY <1>1, <2>1, DocumentNodes
    <3>3. n.name = IF doc.executionNode # NoNode THEN doc.executionNode ELSE LocalNode
      OBVIOUS
    <3> HIDE DEF n
    <3> QED BY <3>1, <3>2, <3>3
  <2>3. doc.workers = 1 \/ (doc.executionNode # NoNode /\ doc.workerGpu # NoGpu)
    <3>1. ~(Len(doc.topology) >= 2) /\ Len(doc.topology) # 1
      BY <1>9
    <3> QED BY <3>1 DEF DocumentSound
  <2> QED BY <1>7, <1>9, <2>2, <2>3 DEF s
<1> QED BY <1>6, <1>8, <1>9 DEF DocumentSound

-----------------------------------------------------------------------------
(* The placement target.                                                    *)

LEMMA NamesFinite ==
  ASSUME NEW nodes \in Seq(PlaneNodes)
  PROVE  IsFiniteSet(Plane!NamesOf(nodes))
<1> DEFINE f == [j \in DOMAIN nodes |-> nodes[j].name]
<1>1. DOMAIN nodes = 1..Len(nodes) /\ Len(nodes) \in Nat
  BY SequenceIsFunction
<1>2. IsFiniteSet(DOMAIN nodes)
  BY <1>1, FS_Interval
<1>3. f \in Surjection(DOMAIN nodes, Plane!NamesOf(nodes))
  BY DEF Surjection, Plane!NamesOf
<1> QED BY <1>2, <1>3, FS_Surjection

\* Instances that are on the nodes, and the nodes' names.
OnNodes(s) ==
  /\ \A k \in DOMAIN s.infers : IsNode(s.nodes, s.infers[k])
  /\ \A i \in DOMAIN s.workers : IsNode(s.nodes, s.workers[i].node)

LEMMA NamesOfState ==
  ASSUME NEW s \in PlaneStates, OnNodes(s)
  PROVE  Plane!NamesOf(s.nodes) \cup Plane!Range(s.infers) \cup {w.node : w \in Plane!Range(s.workers)}
           = Plane!NamesOf(s.nodes)
<1>1. ASSUME NEW x \in Plane!Range(s.infers) PROVE x \in Plane!NamesOf(s.nodes)
  BY DEF OnNodes, IsNode, Plane!Range, Plane!NamesOf
<1>2. ASSUME NEW x \in {w.node : w \in Plane!Range(s.workers)} PROVE x \in Plane!NamesOf(s.nodes)
  <2>1. PICK i \in DOMAIN s.workers : x = s.workers[i].node
    BY DEF Plane!Range
  <2> QED BY <2>1 DEF OnNodes, IsNode, Plane!NamesOf
<1> QED BY <1>1, <1>2

\* A plane on several nodes forgets its target.
LEMMA SeveralNodes ==
  ASSUME NEW s \in PlaneStates, OnNodes(s), Len(s.nodes) >= 2, Registered(s.nodes),
         s.target # NoNode
  PROVE  Plane!ResolvePlacementTarget(s) = [s EXCEPT !.target = NoNode]
<1> DEFINE N == Plane!NamesOf(s.nodes)
<1>1. 1 \in DOMAIN s.nodes /\ 2 \in DOMAIN s.nodes /\ s.nodes \in Seq(PlaneNodes)
  BY StateParts
<1>2. s.nodes[1].name \in N /\ s.nodes[2].name \in N /\ s.nodes[1].name # s.nodes[2].name
  BY <1>1 DEF Registered, Plane!NamesOf
<1>3. IsFiniteSet(N)
  BY <1>1, NamesFinite
<1> HIDE DEF N
<1>4. Cardinality(N) \in Nat /\ Cardinality(N) # 0 /\ Cardinality(N) # 1
  BY <1>2, <1>3, FS_CardinalityType, FS_EmptySet, FS_Singleton
<1>5. Plane!Cardinality(N) > 1
  BY <1>4, PlaneCounts
<1> QED BY <1>5, NamesOfState DEF Plane!ResolvePlacementTarget, N

\* A plane on one node that has no other target stays as it is.
LEMMA OneNode ==
  ASSUME NEW s \in PlaneStates, OnNodes(s), Len(s.nodes) = 1,
         s.target \in {NoNode, s.nodes[1].name}
  PROVE  Plane!ResolvePlacementTarget(s) = s
<1>1. CASE s.target = NoNode
  BY <1>1 DEF Plane!ResolvePlacementTarget
<1>2. CASE s.target # NoNode
  <2> DEFINE N == Plane!NamesOf(s.nodes)
             ns == [i \in DOMAIN s.nodes |-> [s.nodes[i] EXCEPT !.name = s.target]]
             fs == [k \in DOMAIN s.infers |-> s.target]
             ws == [i \in DOMAIN s.workers |-> [s.workers[i] EXCEPT !.node = s.target]]
  <2>1. s.nodes \in Seq(PlaneNodes) /\ DOMAIN s.nodes = {1} /\ s.target = s.nodes[1].name
    <3>1. s.nodes \in Seq(PlaneNodes) /\ DOMAIN s.nodes = 1..1
      BY StateParts
    <3> QED BY <1>2, <3>1
  <2>2. N = {s.target}
    BY <2>1 DEF Plane!NamesOf
  <2>3. ~(Plane!Cardinality(N) > 1)
    <3>1. Cardinality(N) = 1
      BY <2>2, FS_Singleton
    <3> HIDE DEF N
    <3> QED BY <3>1, PlaneCounts
  <2>4. ns = s.nodes
    <3>1. s.nodes[1] \in PlaneNodes
      BY <2>1, StateParts
    <3>2. [s.nodes[1] EXCEPT !.name = s.target] = s.nodes[1]
      BY <2>1, <3>1 DEF PlaneNodes
    <3>3. s.nodes = [i \in DOMAIN s.nodes |-> s.nodes[i]]
      BY <2>1
    <3> QED BY <2>1, <3>2, <3>3
  <2>5. fs = s.infers
    <3>1. \A k \in DOMAIN s.infers : s.infers[k] = s.target
      BY <2>1, OnlyNode DEF OnNodes
    <3>2. s.infers = [k \in DOMAIN s.infers |-> s.infers[k]]
      BY StateParts
    <3> QED BY <3>1, <3>2
  <2>6. ws = s.workers
    <3>1. ASSUME NEW i \in DOMAIN s.workers
          PROVE  [s.workers[i] EXCEPT !.node = s.target] = s.workers[i]
      <4>1. s.workers[i].node = s.target
        BY <2>1, OnlyNode DEF OnNodes
      <4>2. s.workers[i] \in PlaneWorkers
        BY StateParts
      <4> QED BY <4>1, <4>2 DEF PlaneWorkers
    <3>2. s.workers = [i \in DOMAIN s.workers |-> s.workers[i]]
      BY StateParts
    <3> QED BY <3>1, <3>2
  <2>7. Plane!ResolvePlacementTarget(s) = [s EXCEPT !.nodes = ns, !.infers = fs, !.workers = ws]
    BY <1>2, <2>3, NamesOfState DEF Plane!ResolvePlacementTarget
  <2> HIDE DEF ns, fs, ws
  <2>8. [s EXCEPT !.nodes = ns, !.infers = fs, !.workers = ws] = s
    BY <2>4, <2>5, <2>6 DEF PlaneStates
  <2> QED BY <2>7, <2>8
<1> QED BY <1>1, <1>2

LEMMA SoundOnNodes ==
  ASSUME NEW s, StateSound(s), Placed(s) \/ Single(s)
  PROVE  OnNodes(s)
<1>1. s \in PlaneStates
  BY DEF StateSound
<1>2. CASE Single(s)
  <2>1. Len(s.nodes) = 1
    BY <1>2 DEF Single
  <2>2. 1 \in DOMAIN s.nodes
    BY <1>1, <2>1, StateParts
  <2> QED BY <1>2, <2>2 DEF Single, OnNodes, IsNode
<1>3. CASE Spread(s) /\ Placed(s)
  BY <1>3 DEF Spread, Placed, OnNodes, IsNode
<1> QED BY <1>2, <1>3 DEF StateSound

\* A sound state has no target to resolve.
LEMMA SoundIsResolved ==
  ASSUME NEW s, StateSound(s)
  PROVE  Plane!ResolvePlacementTarget(s) = s
<1>1. s \in PlaneStates
  BY DEF StateSound
<1>2. CASE Len(s.nodes) >= 2
  <2>1. s.target = NoNode
    BY <1>2, StateCases DEF Spread
  <2> QED BY <2>1 DEF Plane!ResolvePlacementTarget
<1>3. CASE Len(s.nodes) = 1
  <2>1. Single(s)
    BY <1>3, StateCases
  <2>2. OnNodes(s) /\ s.target \in {NoNode, s.nodes[1].name}
    BY <2>1, SoundOnNodes DEF Single
  <2> QED BY <1>1, <1>3, <2>2, OneNode
<1> QED BY <1>2, <1>3, StateCases

-----------------------------------------------------------------------------
(* The stored document.                                                     *)

\* What the projector writes of a sound state.
ProjectFacts(s, d) ==
  /\ d \in DocumentType /\ d.inferEnabled /\ d.llm = s.llm
  /\ d.executionNode = s.nodes[1].name /\ d.executionNode # NoNode
  /\ d.topology = IF s.target # NoNode \/ s.nodes = <<Plane!Node(LocalNode, "mixed", {})>>
                    THEN <<>> ELSE s.nodes
  /\ d.workers = Len(s.workers) /\ d.halves = s.workers[1].halves
  /\ (d.llm => d.replicas = Replicas(s)) /\ (~d.llm => d.replicas = 0)
  /\ d.inferNode = IF s.infers[1] = s.nodes[1].name THEN NoNode ELSE s.infers[1]
  /\ \/ /\ \A i \in DOMAIN s.workers :
             s.workers[i].node = s.workers[1].node /\ s.workers[i].gpu = s.workers[1].gpu
        /\ d.workerNode = IF s.workers[1].node = s.nodes[1].name THEN NoNode ELSE s.workers[1].node
        /\ d.workerGpu = s.workers[1].gpu /\ d.assignments = <<>>
     \/ /\ ~ \A i \in DOMAIN s.workers :
             s.workers[i].node = s.workers[1].node /\ s.workers[i].gpu = s.workers[1].gpu
        /\ d.workerNode = NoNode /\ d.workerGpu = NoGpu
        /\ d.assignments = [i \in DOMAIN s.workers |->
                             [node |-> s.workers[i].node, gpu |-> s.workers[i].gpu]]

\* The workers name as many infer instances as there are replicas.
LEMMA InfersNamed ==
  ASSUME NEW s, StateSound(s)
  PROVE  Plane!Cardinality({w.infer : w \in Plane!Range(s.workers)}) = Replicas(s)
<1> DEFINE N == {w.infer : w \in Plane!Range(s.workers)}
           R == Replicas(s)
           q == Size(s)
           W == Len(s.workers)
<1>1. R \in Nat /\ R > 0 /\ q \in Nat /\ q > 0 /\ W = R * q
  BY StateGroups
<1>2. DOMAIN s.workers = 1..W
  BY StateParts DEF StateSound
<1>3. \A i \in 1..W : s.workers[i].infer = 1 + Plane!Min({R, 1 + (i - 1) \div q})
  BY <1>2 DEF StateSound, Grouped
<1>4. \A i \in 1..W : s.workers[i].infer \in N
  BY <1>2 DEF Plane!Range
<1>5. \A x \in N : \E i \in 1..W : x = s.workers[i].infer
  BY <1>2 DEF Plane!Range
<1> HIDE DEF N, R, q, W
<1>6. \A i \in 1..W : \E x \in N : x = 1 + Plane!Min({R, 1 + (i - 1) \div q})
  BY <1>3, <1>4
<1>7. \A x \in N : \E i \in 1..W : x = 1 + Plane!Min({R, 1 + (i - 1) \div q})
  BY <1>3, <1>5
<1>8. Cardinality(N) = R
  <2>1. AreGroupNumbers(R, q, W, N)
    BY <1>6, <1>7 DEF AreGroupNumbers
  <2> QED BY <1>1, <2>1, GroupNumbers
<1> QED BY <1>8, PlaneCounts DEF N, R

\* The first node is the placed one.
LEMMA PlacedIsFirst ==
  ASSUME PlaneSound, NEW s, StateSound(s)
  PROVE  /\ Plane!PlacedNode(s) = s.nodes[1].name /\ s.nodes[1].name \in HostNames
         /\ s.nodes[1].name # NoNode /\ 1 \in DOMAIN s.nodes /\ 1 \in DOMAIN s.workers
         /\ 1 \in DOMAIN s.infers
<1>1. s \in PlaneStates
  BY DEF StateSound
<1>2. DOMAIN s.nodes = 1..Len(s.nodes) /\ Len(s.nodes) \in Nat
  BY <1>1, StateParts
<1>3. 1 \in DOMAIN s.nodes
  <2> DEFINE n == Len(s.nodes)
  <2>1. n \in Nat /\ (n >= 2 \/ n = 1) /\ DOMAIN s.nodes = 1..n
    BY <1>2, StateCases
  <2> HIDE DEF n
  <2> QED BY <2>1
<1>4. s.nodes[1].name \in HostNames /\ s.nodes[1].name # NoNode
  BY <1>1, <1>3, StateParts DEF PlaneSound
<1>5. s.target \in {NoNode, s.nodes[1].name}
  BY StateCases DEF Spread, Single
<1>6. 1 \in DOMAIN s.workers /\ 1 \in DOMAIN s.infers
  BY <1>1, StateParts DEF StateSound, Grouped
<1> QED BY <1>3, <1>4, <1>5, <1>6 DEF Plane!PlacedNode

LEMMA Projected ==
  ASSUME PlaneSound, NEW s, StateSound(s)
  PROVE  ProjectFacts(s, Plane!Project(s))
<1> DEFINE d == Plane!Project(s)
           P == s.nodes[1].name
           one == \A i \in DOMAIN s.workers :
                    s.workers[i].node = s.workers[1].node /\ s.workers[i].gpu = s.workers[1].gpu
           top == IF s.target # NoNode \/ s.nodes = <<Plane!Node(LocalNode, "mixed", {})>>
                    THEN <<>> ELSE s.nodes
           reps == IF s.llm THEN Replicas(s) ELSE 0
           inf == IF s.infers[1] = P THEN NoNode ELSE s.infers[1]
           wn == IF one THEN (IF s.workers[1].node = P THEN NoNode ELSE s.workers[1].node) ELSE NoNode
           wg == IF one THEN s.workers[1].gpu ELSE NoGpu
           asg == IF one THEN <<>>
                  ELSE [i \in DOMAIN s.workers |-> [node |-> s.workers[i].node, gpu |-> s.workers[i].gpu]]
<1>1. /\ s \in PlaneStates /\ s.nodes \in Seq(PlaneNodes) /\ Len(s.workers) \in Nat
      /\ DOMAIN s.workers = 1..Len(s.workers) /\ s.llm \in BOOLEAN
      /\ \A i \in DOMAIN s.workers : /\ s.workers[i].node \in HostNames
                                     /\ s.workers[i].gpu \in SomeGpu /\ s.workers[i].halves \in Halves
      /\ \A k \in DOMAIN s.infers : s.infers[k] \in HostNames
  BY StateParts DEF StateSound
<1>2. /\ Plane!PlacedNode(s) = P /\ P \in HostNames /\ P # NoNode /\ 1 \in DOMAIN s.nodes
      /\ 1 \in DOMAIN s.workers /\ 1 \in DOMAIN s.infers
  BY PlacedIsFirst
<1>3. Replicas(s) \in Nat /\ Replicas(s) > 0 /\ Len(s.workers) >= 1
  BY StateGroups
<1>4. Plane!ProjectWorkerCount(s) = Len(s.workers)
  BY <1>1, <1>3, AtLeastOne DEF Plane!ProjectWorkerCount
<1>5. s.infers # <<>>
  BY <1>2
<1>6. Plane!Max({1, Plane!Cardinality({w.infer : w \in Plane!Range(s.workers)})}) = Replicas(s)
  <2>1. Plane!Max({1, Replicas(s)}) = Replicas(s)
    BY <1>3, AtLeastOne
  <2> QED BY <2>1, InfersNamed
<1>7. d = [executionNode |-> P, topology |-> top, llm |-> s.llm, workers |-> Len(s.workers),
           inferEnabled |-> TRUE, replicas |-> reps, inferNode |-> inf, workerNode |-> wn,
           workerGpu |-> wg, assignments |-> asg, halves |-> s.workers[1].halves]
  <2>1. Plane!ProjectsOne(s) = one
    BY DEF Plane!ProjectsOne
  <2>2. Plane!ProjectTopology(s) = top
    BY DEF Plane!ProjectTopology
  <2>3. Plane!Elsewhere(s, s.infers[1]) = inf
    BY <1>2 DEF Plane!Elsewhere
  <2>4. (IF Plane!ProjectsOne(s) THEN Plane!Elsewhere(s, s.workers[1].node) ELSE NoNode) = wn
    BY <1>2, <2>1 DEF Plane!Elsewhere
  <2>5. (IF s.llm /\ s.infers # <<>>
           THEN Plane!Max({1, Plane!Cardinality({w.infer : w \in Plane!Range(s.workers)})}) ELSE 0) = reps
    BY <1>5, <1>6
  <2>6. (IF Plane!ProjectsOne(s) THEN s.workers[1].gpu ELSE NoGpu) = wg
    BY <2>1
  <2>7. (IF Plane!ProjectsOne(s) THEN <<>>
         ELSE [i \in DOMAIN s.workers |-> [node |-> s.workers[i].node, gpu |-> s.workers[i].gpu]]) = asg
    BY <2>1
  <2>8. (IF s.infers # <<>> THEN Plane!Elsewhere(s, s.infers[1]) ELSE NoNode) = inf
    BY <1>5, <2>3
  <2> HIDE DEF top, reps, inf, wn, wg, asg
  <2> QED BY <1>2, <1>4, <2>2, <2>4, <2>5, <2>6, <2>7, <2>8 DEF Plane!Project
<1>8. top \in Seq(PlaneNodes)
  BY <1>1
<1>9. reps \in Nat /\ inf \in SomeHost /\ wn \in SomeHost /\ wg \in SomeGpu /\ P \in SomeHost
  BY <1>1, <1>2, <1>3 DEF SomeHost, SomeGpu
<1>10. asg \in Seq([node : HostNames, gpu : SomeGpu])
  <2>1. CASE one
    BY <2>1
  <2>2. CASE ~one
    <3>1. asg \in [1..Len(s.workers) -> [node : HostNames, gpu : SomeGpu]]
      BY <1>1, <2>2
    <3> HIDE DEF asg
    <3> QED BY <1>1, <3>1, FunctionIsSequence
  <2> QED BY <2>1, <2>2
<1> HIDE DEF d, P, top, reps, inf, wn, wg, asg
<1>11. d \in DocumentType
  BY <1>1, <1>2, <1>7, <1>8, <1>9, <1>10 DEF DocumentType
<1>12. /\ d.executionNode = P /\ d.topology = top /\ d.llm = s.llm /\ d.workers = Len(s.workers)
       /\ d.inferEnabled /\ d.replicas = reps /\ d.inferNode = inf /\ d.workerNode = wn
       /\ d.workerGpu = wg /\ d.assignments = asg /\ d.halves = s.workers[1].halves
  BY <1>7
<1>13. CASE one
  <2>1. wn = (IF s.workers[1].node = P THEN NoNode ELSE s.workers[1].node)
        /\ wg = s.workers[1].gpu /\ asg = <<>>
    BY <1>13 DEF wn, wg, asg
  <2> QED BY <1>2, <1>11, <1>12, <1>13, <2>1 DEF ProjectFacts, d, P, top, reps, inf
<1>14. CASE ~one
  <2>1. wn = NoNode /\ wg = NoGpu
        /\ asg = [i \in DOMAIN s.workers |-> [node |-> s.workers[i].node, gpu |-> s.workers[i].gpu]]
    BY <1>14 DEF wn, wg, asg
  <2> QED BY <1>2, <1>11, <1>12, <1>14, <2>1 DEF ProjectFacts, d, P, top, reps, inf
<1> QED BY <1>13, <1>14

\* The document of a plane on several nodes lists them.
LEMMA SeveralListed ==
  ASSUME PlaneSound, NEW s, StateSound(s), NEW d, ProjectFacts(s, d), Len(s.nodes) >= 2
  PROVE  d.topology = s.nodes /\ Plane!HasTopology(d) /\ Plane!RenderNodes(d) = s.nodes
<1>1. s.target = NoNode
  BY StateCases DEF Spread
<1>2. s.nodes # <<Plane!Node(LocalNode, "mixed", {})>> /\ s.nodes # <<>>
  <2> DEFINE n == Plane!Node(LocalNode, "mixed", {})
  <2> HIDE DEF n
  <2>1. Len(<<n>>) = 1 /\ Len(<<>>) = 0
    OBVIOUS
  <2>2. s.nodes # <<n>>
    <3>1. SUFFICES ASSUME s.nodes = <<n>> PROVE FALSE
      OBVIOUS
    <3>2. 1 >= 2
      BY <2>1, <3>1
    <3> QED BY <3>2
  <2>3. s.nodes # <<>>
    <3>1. SUFFICES ASSUME s.nodes = <<>> PROVE FALSE
      OBVIOUS
    <3>2. 0 >= 2
      BY <2>1, <3>1
    <3> QED BY <3>2
  <2> QED BY <2>2, <2>3 DEF n
<1>3. d.topology = s.nodes
  BY <1>1, <1>2 DEF ProjectFacts
<1> QED BY <1>2, <1>3 DEF Plane!HasTopology, Plane!RenderNodes

\* The document of a plane on one node needs no names.
LEMMA OneListed ==
  ASSUME PlaneSound, NEW s, StateSound(s), NEW d, ProjectFacts(s, d), Len(s.nodes) = 1
  PROVE  /\ d.inferNode = NoNode /\ d.workerNode = NoNode /\ d.assignments = <<>>
         /\ \A i \in DOMAIN s.workers : s.workers[i].gpu = d.workerGpu
         /\ Len(Plane!RenderNodes(d)) = 1 /\ Plane!RenderNodes(d)[1].name = s.nodes[1].name
         /\ Plane!RenderNodes(d)[1].mode \in {s.nodes[1].mode, "mixed"}
         /\ s.target # NoNode => Plane!RenderNodes(d)[1].gpus = {}
<1> DEFINE P == s.nodes[1].name
           ns == Plane!RenderNodes(d)
<1>1. s \in PlaneStates /\ Len(s.workers) \in Nat /\ DOMAIN s.workers = 1..Len(s.workers)
  BY StateParts DEF StateSound
<1>2. Single(s) /\ 1 \in DOMAIN s.workers /\ 1 \in DOMAIN s.infers /\ P # NoNode
  BY StateCases, PlacedIsFirst
<1>3. \A i \in DOMAIN s.workers :
        s.workers[i].node = s.workers[1].node /\ s.workers[i].gpu = s.workers[1].gpu
        /\ s.workers[i].node = P
  <2>1. CASE Len(s.workers) = 1
    <3>1. DOMAIN s.workers = {1}
      BY <1>1, <2>1
    <3> QED BY <1>2, <3>1 DEF Single
  <2>2. CASE Len(s.workers) # 1
    BY <1>2, <2>2 DEF Single
  <2> QED BY <2>1, <2>2
<1>4. s.infers[1] = P
  BY <1>2 DEF Single
<1>5. d.inferNode = NoNode
  BY <1>4 DEF ProjectFacts
<1>6. d.workerNode = NoNode /\ d.assignments = <<>> /\ d.workerGpu = s.workers[1].gpu
  BY <1>2, <1>3 DEF ProjectFacts
<1>7. CASE d.topology = <<>>
  <2> DEFINE n == [name |-> P, mode |-> "mixed", gpus |-> {}]
  <2>1. ~Plane!HasTopology(d) /\ d.executionNode = P
    BY <1>7 DEF Plane!HasTopology, ProjectFacts
  <2>2. ns = <<n>>
    BY <1>2, <2>1 DEF Plane!RenderNodes, Plane!Node
  <2>3. n.name = P /\ n.mode = "mixed" /\ n.gpus = {}
    OBVIOUS
  <2> HIDE DEF n, ns
  <2>4. Len(ns) = 1 /\ ns[1] = n
    BY <2>2
  <2> QED BY <1>3, <1>5, <1>6, <2>3, <2>4 DEF ns
<1>8. CASE d.topology # <<>>
  <2>1. d.topology = s.nodes /\ s.target = NoNode
    BY <1>8 DEF ProjectFacts
  <2>2. ns = s.nodes
    BY <1>8, <2>1 DEF Plane!RenderNodes, Plane!HasTopology
  <2> HIDE DEF ns
  <2> QED BY <1>3, <1>5, <1>6, <2>1, <2>2 DEF ns
<1> QED BY <1>7, <1>8

\* A listed node has its role.
LEMMA RoleAllowed ==
  ASSUME NEW s, Registered(s.nodes), NEW d, Plane!HasTopology(d), d.topology = s.nodes,
         NEW j \in DOMAIN s.nodes, NEW forbidden, s.nodes[j].mode # forbidden
  PROVE  /\ Plane!ValidateNodeRole(d, s.nodes[j].name, forbidden)
         /\ s.nodes[j].name \in Plane!NamesOf(d.topology)
<1> DEFINE name == s.nodes[j].name
           M == {m \in Plane!Range(d.topology) : m.name = name}
<1>1. name \in Plane!NamesOf(d.topology)
  BY DEF Plane!NamesOf
<1>2. M = {s.nodes[j]}
  <2>1. s.nodes[j] \in M
    BY DEF Plane!Range
  <2>2. ASSUME NEW m \in M PROVE m = s.nodes[j]
    <3>1. PICK i \in DOMAIN s.nodes : m = s.nodes[i] /\ s.nodes[i].name = name
      BY DEF Plane!Range
    <3> QED BY <3>1 DEF Registered
  <2> QED BY <2>1, <2>2
<1>3. Plane!KnownModes(d, name) = {m.mode : m \in M}
  BY <1>1 DEF Plane!KnownModes
<1> HIDE DEF M
<1>4. Plane!KnownModes(d, name) = {s.nodes[j].mode}
  BY <1>2, <1>3
<1> HIDE DEF name
<1> QED BY <1>1, <1>4 DEF Plane!ValidateNodeRole, name

\* What is stored for a sound, placed state passes the validator.
LEMMA ProjectedLoads ==
  ASSUME PlaneSound, NEW s, StateSound(s), Placed(s), NEW d, ProjectFacts(s, d)
  PROVE  Plane!Loads(d)
<1>1. /\ s \in PlaneStates /\ Len(s.workers) \in Nat /\ DOMAIN s.workers = 1..Len(s.workers)
      /\ \A i \in DOMAIN s.workers : s.workers[i].node \in HostNames
  BY StateParts DEF StateSound
<1>2. Replicas(s) \in Nat /\ Replicas(s) > 0 /\ Len(s.workers) >= 1
      /\ GroupFacts(Replicas(s), Size(s), Len(s.workers))
  BY StateGroups
<1>3. 1 \in DOMAIN s.workers /\ 1 \in DOMAIN s.infers /\ NoNode \notin HostNames
  BY PlacedIsFirst DEF PlaneSound
<1>4. d.workers = Len(s.workers) /\ d.workers > 0
  BY <1>1, <1>2 DEF ProjectFacts
<1>5. (d.llm => d.replicas > 0) /\ (d.replicas > 0 => d.workers % d.replicas = 0)
  <2>1. d.llm \in BOOLEAN /\ (d.llm => d.replicas = Replicas(s)) /\ (~d.llm => d.replicas = 0)
    BY DEF ProjectFacts, DocumentType
  <2>2. Len(s.workers) % Replicas(s) = 0
    BY <1>2 DEF GroupFacts
  <2>3. CASE d.llm
    BY <1>2, <1>4, <2>1, <2>2, <2>3
  <2>4. CASE ~d.llm
    BY <2>1, <2>4
  <2> QED BY <2>1, <2>3, <2>4
<1>6. CASE Len(s.nodes) = 1
  <2>1. d.inferNode = NoNode /\ d.workerNode = NoNode /\ d.assignments = <<>>
    BY <1>6, OneListed
  <2>2. DOMAIN d.assignments = {}
    BY <2>1
  <2>3. Plane!ValidateLegacyPlacement(d) /\ Plane!ValidateInfer(d) /\ Plane!ValidateWorker(d)
    BY <1>5, <2>1, <2>2
       DEF Plane!ValidateLegacyPlacement, Plane!ValidateInfer, Plane!ValidateWorker
  <2> QED BY <1>4, <2>1, <2>2, <2>3 DEF Plane!Loads
<1>7. CASE Len(s.nodes) >= 2
  <2>1. d.topology = s.nodes /\ Plane!HasTopology(d)
    BY <1>7, SeveralListed
  <2>2. Spread(s) /\ Registered(s.nodes)
    BY <1>7, StateCases DEF Spread
  <2>3. ASSUME NEW i \in DOMAIN s.workers
        PROVE  /\ Plane!ValidateNodeRole(d, s.workers[i].node, "infer-only")
               /\ s.workers[i].node \in Plane!NamesOf(d.topology)
    <3>1. PICK j \in DOMAIN s.nodes :
            s.nodes[j].name = s.workers[i].node /\ s.nodes[j].mode # "infer-only"
      BY DEF Placed
    <3> QED BY <2>1, <2>2, <3>1, RoleAllowed
  <2>4. /\ Plane!ValidateNodeRole(d, s.infers[1], "worker-only")
        /\ s.infers[1] \in Plane!NamesOf(d.topology)
    <3>1. PICK j \in DOMAIN s.nodes : s.infers[1] = s.nodes[j].name
      BY <1>3, <2>2 DEF Spread
    <3>2. s.nodes[j].mode # "worker-only"
      BY <1>3, <3>1 DEF Placed
    <3> QED BY <2>1, <2>2, <3>1, <3>2, RoleAllowed
  <2>5. d.inferNode \in {NoNode, s.infers[1]} /\ d.workerNode \in {NoNode, s.workers[1].node}
    BY DEF ProjectFacts
  <2>6. /\ d.assignments # <<>> => Len(d.assignments) = d.workers
        /\ \A i \in DOMAIN d.assignments :
             i \in DOMAIN s.workers /\ d.assignments[i].node = s.workers[i].node
    <3>1. CASE d.assignments = <<>>
      <4>1. DOMAIN d.assignments = {}
        BY <3>1
      <4> QED BY <3>1, <4>1
    <3>2. CASE d.assignments # <<>>
      <4>1. d.assignments = [i \in DOMAIN s.workers |->
                              [node |-> s.workers[i].node, gpu |-> s.workers[i].gpu]]
        BY <3>2 DEF ProjectFacts
      <4>2. DOMAIN d.assignments = DOMAIN s.workers
        BY <4>1
      <4>3. \A i \in DOMAIN s.workers : d.assignments[i].node = s.workers[i].node
        BY <4>1
      <4>4. Len(d.assignments) \in Nat /\ DOMAIN d.assignments = 1..Len(d.assignments)
        <5>1. d.assignments \in Seq([node : HostNames, gpu : SomeGpu])
          BY DEF ProjectFacts, DocumentType
        <5> QED BY <5>1, SequenceIsFunction
      <4>5. Len(d.assignments) = Len(s.workers)
        <5> DEFINE a == Len(d.assignments)
                   b == Len(s.workers)
        <5>1. a \in Nat /\ b \in Nat /\ 1..a = 1..b /\ b >= 1
          BY <1>1, <1>2, <4>2, <4>4
        <5> HIDE DEF a, b
        <5>2. b \in 1..a /\ (a \in 1..a => a \in 1..b)
          BY <5>1
        <5>3. a = b
          BY <5>1, <5>2
        <5> QED BY <5>3 DEF a, b
      <4> QED BY <1>4, <4>2, <4>3, <4>5
    <3> QED BY <3>1, <3>2
  <2>7. Plane!ValidateLegacyPlacement(d)
    BY <2>1 DEF Plane!ValidateLegacyPlacement
  <2>8. Plane!ValidateInfer(d)
    BY <1>5, <2>4, <2>5 DEF Plane!ValidateInfer
  <2>9. Plane!ValidateWorker(d)
    BY <1>3, <2>3, <2>5, <2>6 DEF Plane!ValidateWorker
  <2>10. {d.inferNode, d.workerNode} \cup {d.assignments[i].node : i \in DOMAIN d.assignments}
           \subseteq Plane!NamesOf(d.topology) \cup {NoNode}
    BY <1>3, <2>3, <2>4, <2>5, <2>6
  <2> QED BY <1>4, <2>7, <2>8, <2>9, <2>10 DEF Plane!Loads
<1> QED BY <1>6, <1>7, StateCases

\* What is loaded again runs where the saved state ran.
SameAgain(s, t) ==
  /\ Alike(s, t)
  /\ \A i \in DOMAIN s.workers : t.workers[i].gpu = s.workers[i].gpu
  /\ \A j \in DOMAIN s.nodes : t.nodes[j].mode \in {s.nodes[j].mode, "mixed"}
  /\ Len(s.nodes) = 1 /\ s.target # NoNode => t.nodes[1].gpus = {}

\* Two sequences of the same elements.
LEMMA SameSequence ==
  ASSUME NEW S, NEW a \in Seq(S), NEW b \in Seq(S), Len(a) = Len(b),
         \A i \in DOMAIN a : a[i] = b[i]
  PROVE  a = b
BY SequenceIsFunction, SeqEqual

LEMMA LoadedAgain ==
  ASSUME PlaneSound, NEW s, StateSound(s), Placed(s), NEW d, ProjectFacts(s, d)
  PROVE  SameAgain(s, Plane!LoadDesiredState(d))
<1> DEFINE r == Plane!Render(d)
           t == Plane!LoadDesiredState(d)
           P == s.nodes[1].name
<1>1. Plane!Loads(d) /\ d \in DocumentType /\ d.inferEnabled
  BY ProjectedLoads DEF ProjectFacts
<1>2. RenderFacts(d, r)
  BY <1>1, Rendered
<1>3. t = Plane!ResolvePlacementTarget(r)
  BY DEF Plane!LoadDesiredState
<1> HIDE DEF r, t
<1>4. /\ s \in PlaneStates /\ Len(s.workers) \in Nat /\ DOMAIN s.workers = 1..Len(s.workers)
      /\ s.infers \in Seq(HostNames) /\ DOMAIN s.infers = 1..Len(s.infers) /\ Len(s.infers) \in Nat
      /\ s.nodes \in Seq(PlaneNodes)
  BY StateParts DEF StateSound
<1>5. /\ r \in PlaneStates /\ Len(r.workers) \in Nat /\ DOMAIN r.workers = 1..Len(r.workers)
      /\ r.infers \in Seq(HostNames) /\ DOMAIN r.infers = 1..Len(r.infers) /\ Len(r.infers) \in Nat
      /\ r.nodes \in Seq(PlaneNodes)
  BY <1>2, StateParts DEF RenderFacts
<1>6. /\ Replicas(s) \in Nat /\ Replicas(s) > 0 /\ Len(s.infers) = Replicas(s) + 1
      /\ GroupFacts(Replicas(s), Size(s), Len(s.workers)) /\ Len(s.workers) >= 1
  BY StateGroups
<1>7. /\ P \in HostNames /\ P # NoNode /\ 1 \in DOMAIN s.nodes /\ 1 \in DOMAIN s.workers
      /\ 1 \in DOMAIN s.infers
  BY PlacedIsFirst
<1>8. Replicas(r) = Replicas(s)
  <2>1. Plane!InferReplicas(d) = Replicas(s)
    <3>1. d.llm \in BOOLEAN /\ d.llm = s.llm /\ (d.llm => d.replicas = Replicas(s))
          /\ (~d.llm => d.replicas = 0)
      BY DEF ProjectFacts, DocumentType
    <3>2. CASE d.llm
      BY <1>6, <3>1, <3>2, AtLeastOne DEF Plane!InferReplicas
    <3>3. CASE ~d.llm
      <4>1. Replicas(s) = 1
        BY <3>1, <3>3 DEF StateSound, Grouped
      <4>2. d.replicas = 0
        BY <3>1, <3>3
      <4>3. Plane!Max({1, 0}) = 1
        BY AtLeastOne
      <4> QED BY <4>1, <4>2, <4>3 DEF Plane!InferReplicas
    <3> QED BY <3>1, <3>2, <3>3
  <2> QED BY <1>2, <2>1 DEF RenderFacts
<1>9. Len(r.workers) = Len(s.workers) /\ DOMAIN r.workers = DOMAIN s.workers
  BY <1>2, <1>4, <1>5 DEF RenderFacts, ProjectFacts
<1>10. Size(r) = Size(s)
  BY <1>8, <1>9 DEF Size
<1>11. Len(r.infers) = Len(s.infers) /\ DOMAIN r.infers = DOMAIN s.infers
  <2>1. Replicas(r) = Len(r.infers) - 1 /\ Replicas(s) = Len(s.infers) - 1
    BY DEF Replicas
  <2> DEFINE a == Len(r.infers)
             b == Len(s.infers)
             c == Replicas(s)
  <2>2. a \in Nat /\ b \in Nat /\ c = a - 1 /\ c = b - 1
    BY <1>4, <1>5, <1>8, <2>1
  <2> HIDE DEF a, b, c
  <2>3. a = b
    BY <2>2
  <2> QED BY <1>4, <1>5, <2>3 DEF a, b
<1>12. \A i \in DOMAIN s.workers : r.workers[i].infer = s.workers[i].infer
  <2>1. \A i \in DOMAIN s.workers : s.workers[i].infer = 1 + Plane!Min({Replicas(s), 1 + (i - 1) \div Size(s)})
    BY DEF StateSound, Grouped
  <2>2. \A i \in DOMAIN s.workers : r.workers[i].infer = 1 + Plane!Min({Replicas(s), 1 + (i - 1) \div Size(s)})
    BY <1>2, <1>8, <1>9, <1>10 DEF RenderFacts
  <2> QED BY <2>1, <2>2
<1>13. OnNodes(r)
  BY <1>2 DEF RenderFacts, OnNodes
<1>14. r.target = P /\ r.llm = s.llm /\ r.nodes = Plane!RenderNodes(d)
  BY <1>2 DEF RenderFacts, ProjectFacts
<1>15. CASE Len(s.nodes) = 1
  <2>1. /\ \A i \in DOMAIN s.workers : s.workers[i].gpu = d.workerGpu
        /\ Len(r.nodes) = 1 /\ r.nodes[1].name = P
        /\ r.nodes[1].mode \in {s.nodes[1].mode, "mixed"}
        /\ s.target # NoNode => r.nodes[1].gpus = {}
        /\ d.assignments = <<>>
    BY <1>14, <1>15, OneListed
  <2>2. t = r
    BY <1>3, <1>5, <1>13, <1>14, <2>1, OneNode
  <2>3. Single(s)
    BY <1>15, StateCases
  <2>4. \A i \in DOMAIN s.workers : r.workers[i].node = s.workers[i].node
    <3>1. \A i \in DOMAIN r.workers : r.workers[i].node = P
      BY <1>5, <1>13, <2>1, OnlyNode DEF OnNodes
    <3> QED BY <1>9, <2>3, <3>1 DEF Single
  <2>5. r.infers = s.infers
    <3>1. \A k \in DOMAIN r.infers : r.infers[k] = P
      BY <1>5, <1>13, <2>1, OnlyNode DEF OnNodes
    <3>2. \A k \in DOMAIN r.infers : r.infers[k] = s.infers[k]
      BY <1>11, <2>3, <3>1 DEF Single
    <3> QED BY <1>4, <1>5, <1>11, <3>2, SameSequence
  <2>6. \A i \in DOMAIN s.workers : r.workers[i].gpu = s.workers[i].gpu
    <3>1. ASSUME NEW i \in DOMAIN s.workers PROVE r.workers[i].gpu = s.workers[i].gpu
      <4>1. i \notin DOMAIN d.assignments
        BY <2>1
      <4>2. Plane!ResolveWorkerGpu(d, i) = d.workerGpu
        BY <4>1 DEF Plane!ResolveWorkerGpu
      <4>3. r.workers[i].gpu = Plane!ResolveWorkerGpu(d, i)
        BY <1>2, <1>9 DEF RenderFacts
      <4> QED BY <2>1, <4>2, <4>3
    <3> QED BY <3>1
  <2>7. DOMAIN s.nodes = {1}
    <3>1. DOMAIN s.nodes = 1..1
      BY <1>4, <1>15, SequenceIsFunction
    <3> QED BY <3>1
  <2>8. ~(Len(s.nodes) >= 2)
    BY <1>15
  <2>9. Len(s.workers) # 1 =>
          \A i \in DOMAIN r.workers : r.workers[i].gpu = r.workers[1].gpu /\ r.workers[i].gpu # NoGpu
    BY <1>7, <1>9, <2>3, <2>6 DEF Single
  <2>10. Alike(s, r)
    BY <1>5, <1>7, <1>9, <1>12, <1>14, <1>15, <2>1, <2>4, <2>5, <2>7, <2>8, <2>9 DEF Alike
  <2> QED BY <2>1, <2>2, <2>6, <2>7, <2>10 DEF SameAgain, t
<1>16. CASE Len(s.nodes) >= 2
  <2>1. d.topology = s.nodes /\ Plane!HasTopology(d) /\ r.nodes = s.nodes
    BY <1>14, <1>16, SeveralListed
  <2>2. Spread(s) /\ Registered(s.nodes)
    BY <1>16, StateCases DEF Spread
  <2>3. t = [r EXCEPT !.target = NoNode]
    BY <1>3, <1>5, <1>7, <1>13, <1>14, <1>16, <2>1, <2>2, SeveralNodes
  <2>4. ASSUME NEW i \in DOMAIN s.workers
        PROVE  r.workers[i].node = s.workers[i].node /\ r.workers[i].gpu = s.workers[i].gpu
    <3>1. r.workers[i].node = Plane!ResolveWorkerNode(d, i)
          /\ r.workers[i].gpu = Plane!ResolveWorkerGpu(d, i)
      BY <1>2, <1>9 DEF RenderFacts
    <3>2. Plane!DefaultNode(d) = P
      BY <1>14, <2>1 DEF Plane!DefaultNode
    <3>3. CASE \A x \in DOMAIN s.workers :
                 s.workers[x].node = s.workers[1].node /\ s.workers[x].gpu = s.workers[1].gpu
      <4>1. /\ d.workerNode = IF s.workers[1].node = P THEN NoNode ELSE s.workers[1].node
            /\ d.workerGpu = s.workers[1].gpu /\ d.assignments = <<>>
        BY <3>3 DEF ProjectFacts
      <4>2. i \notin DOMAIN d.assignments
        BY <4>1
      <4>3. Plane!ResolveWorkerGpu(d, i) = s.workers[i].gpu
        BY <3>3, <4>1, <4>2 DEF Plane!ResolveWorkerGpu
      <4>4. Plane!ResolveWorkerNode(d, i) = IF d.workerNode # NoNode THEN d.workerNode ELSE P
        BY <2>1, <3>2, <4>2 DEF Plane!ResolveWorkerNode
      <4>5. s.workers[1].node = s.workers[i].node
        BY <3>3
      <4>6. s.workers[1].node # NoNode
        BY <1>4, <1>7, StateParts DEF PlaneSound
      <4> QED BY <3>1, <4>1, <4>3, <4>4, <4>5, <4>6
    <3>4. CASE ~ \A x \in DOMAIN s.workers :
                 s.workers[x].node = s.workers[1].node /\ s.workers[x].gpu = s.workers[1].gpu
      <4>1. d.assignments = [x \in DOMAIN s.workers |->
                              [node |-> s.workers[x].node, gpu |-> s.workers[x].gpu]]
        BY <3>4 DEF ProjectFacts
      <4>2. i \in DOMAIN d.assignments
            /\ d.assignments[i] = [node |-> s.workers[i].node, gpu |-> s.workers[i].gpu]
        BY <4>1
      <4>3. d.assignments[i].node = s.workers[i].node /\ d.assignments[i].gpu = s.workers[i].gpu
        BY <4>2
      <4>4. s.workers[i].gpu # NoGpu
        <5>1. PICK j \in DOMAIN s.nodes : s.workers[i].gpu \in s.nodes[j].gpus
          BY DEF Placed
        <5>2. s.nodes[j] \in PlaneNodes
          BY <1>4, SequenceIsFunction
        <5> QED BY <5>1, <5>2 DEF PlaneNodes, PlaneSound
      <4> QED BY <2>1, <3>1, <4>2, <4>3, <4>4 DEF Plane!ResolveWorkerNode, Plane!ResolveWorkerGpu
    <3> QED BY <3>3, <3>4
  <2>5. r.infers[1] = s.infers[1]
    <3>1. r.infers[1] = IF d.inferNode # NoNode THEN d.inferNode ELSE FirstCapable(s.nodes)
      BY <1>2, <2>1 DEF RenderFacts
    <3>2. d.inferNode = IF s.infers[1] = P THEN NoNode ELSE s.infers[1]
      BY DEF ProjectFacts
    <3>3. CASE s.infers[1] = P
      <4>1. s.nodes[1].mode # "worker-only"
        BY <1>7, <3>3 DEF Placed
      <4>2. Len(s.nodes) >= 1
        BY <1>4, <1>7, SequenceIsFunction
      <4>3. FirstCapable(s.nodes) = P
        BY <1>4, <4>1, <4>2, FirstCapableIsNode
      <4> QED BY <3>1, <3>2, <3>3, <4>3
    <3>4. CASE s.infers[1] # P
      <4>1. s.infers[1] \in HostNames
        BY <1>4, <1>7, SequenceIsFunction
      <4> QED BY <3>1, <3>2, <3>4, <4>1 DEF PlaneSound
    <3> QED BY <3>3, <3>4
  <2>6. ASSUME NEW k \in 1..Replicas(s) PROVE r.infers[k + 1] = s.infers[k + 1]
    <3> DEFINE i == (k - 1) * Size(s) + 1
    <3>1. i \in DOMAIN s.workers
      BY <1>4, <1>6 DEF GroupFacts
    <3>2. s.infers[k + 1] = IF Replicas(s) > 1 THEN s.workers[i].node ELSE FirstCapable(s.nodes)
      BY <2>2 DEF Spread
    <3>3. r.infers[k + 1] = IF Replicas(s) > 1 THEN r.workers[i].node ELSE FirstCapable(s.nodes)
      BY <1>2, <1>8, <1>10, <2>1 DEF RenderFacts
    <3> HIDE DEF i
    <3> QED BY <2>4, <3>1, <3>2, <3>3
  <2>7. r.infers = s.infers
    <3>1. ASSUME NEW k \in DOMAIN r.infers PROVE r.infers[k] = s.infers[k]
      <4>1. CASE k = 1
        BY <2>5, <4>1
      <4>2. CASE k # 1
        <5> DEFINE m == k - 1
                   R == Replicas(s)
        <5>1. k \in 1..R + 1 /\ R \in Nat
          BY <1>4, <1>6, <1>11
        <5>2. m \in 1..R /\ m + 1 = k
          <6> HIDE DEF R
          <6> QED BY <4>2, <5>1
        <5> HIDE DEF m
        <5> QED BY <2>6, <5>2
      <4> QED BY <4>1, <4>2
    <3> QED BY <1>4, <1>5, <1>11, <3>1, SameSequence
  <2>8. /\ t.workers = r.workers /\ t.infers = r.infers /\ t.nodes = r.nodes /\ t.llm = r.llm
        /\ t.target = NoNode /\ t \in PlaneStates
    BY <1>5, <2>3 DEF PlaneStates, SomeHost
  <2>9. Len(s.nodes) # 1
    <3> DEFINE n == Len(s.nodes)
    <3>1. n \in Nat /\ n >= 2
      BY <1>4, <1>16, SequenceIsFunction
    <3> HIDE DEF n
    <3>2. n # 1
      BY <3>1
    <3> QED BY <3>2 DEF n
  <2>10. Alike(s, t)
    BY <1>9, <1>12, <1>14, <2>1, <2>4, <2>7, <2>8, <2>9 DEF Alike
  <2> QED BY <2>1, <2>4, <2>8, <2>9, <2>10 DEF SameAgain, t
<1> QED BY <1>15, <1>16, StateCases

-----------------------------------------------------------------------------
(* The steps.                                                               *)

\* A state the admission and the policy let through is placed.
LEMMA PolicyPlaces ==
  ASSUME NEW s, Plane!SchedulingPolicy(s),
         \A k \in DOMAIN s.infers, j \in DOMAIN s.nodes :
           s.nodes[j].name = s.infers[k] => s.nodes[j].mode # "worker-only"
  PROVE  Placed(s)
<1>1. ASSUME NEW i \in DOMAIN s.workers
      PROVE  \E j \in DOMAIN s.nodes :
               /\ s.nodes[j].name = s.workers[i].node /\ s.nodes[j].mode # "infer-only"
               /\ s.workers[i].gpu \in s.nodes[j].gpus
  <2>1. s.workers[i] \in Plane!Range(s.workers)
    BY DEF Plane!Range
  <2>2. PICK n \in Plane!Range(s.nodes) :
          n.name = s.workers[i].node /\ n.mode # "infer-only" /\ s.workers[i].gpu \in n.gpus
    BY <2>1 DEF Plane!SchedulingPolicy
  <2> QED BY <2>2 DEF Plane!Range
<1> QED BY <1>1 DEF Placed

LEMMA AdmittedInfers ==
  ASSUME NEW s, Plane!Admitted(s)
  PROVE  \A k \in DOMAIN s.infers, j \in DOMAIN s.nodes :
           s.nodes[j].name = s.infers[k] => s.nodes[j].mode # "worker-only"
<1> SUFFICES ASSUME NEW k \in DOMAIN s.infers, NEW j \in DOMAIN s.nodes,
                    s.nodes[j].name = s.infers[k], s.nodes[j].mode = "worker-only"
             PROVE  FALSE
  OBVIOUS
<1>1. s.nodes[j] \in Plane!Range(s.nodes) /\ s.infers[k] \in Plane!Range(s.infers)
  BY DEF Plane!Range
<1> QED BY <1>1 DEF Plane!Admitted

LEMMA ReplaceKeeps ==
  ASSUME PlaneSound, PlaneInv, NEW s, StateSound(s), Placed(s), Plane!ReplaceDesiredState(s)
  PROVE  PlaneInv'
<1>1. planeDocument' = Plane!Project(s) /\ savedState' = s /\ saves' = saves + 1 /\ saves < MaxSaves
  BY DEF Plane!ReplaceDesiredState
<1>2. planeDocument' # NoState
  <2>1. Plane!Project(s) \in DocumentType
    BY Projected DEF ProjectFacts
  <2> QED BY <1>1, <2>1 DEF PlaneSound
<1>3. saves' \in 0..MaxSaves /\ saves' # 0
  BY <1>1 DEF PlaneInv, PlaneSound
<1>4. StateSound(savedState')
  BY <1>1
<1>5. Placed(savedState')
  BY <1>1
<1>6. planeDocument' = Plane!Project(savedState')
  BY <1>1
<1> QED BY <1>2, <1>3, <1>4, <1>5, <1>6 DEF PlaneInv

LEMMA ApplyKeeps ==
  ASSUME PlaneSound, PlaneInv, NEW s, StateSound(s), Plane!ApplyDesiredState(s)
  PROVE  PlaneInv'
<1> DEFINE x == Plane!WithInventory(s)
<1>1. StateSound(x)
  <2>1. Alike(s, x)
    BY InventoryAlike
  <2> QED BY <2>1, AlikeIsSound
<1> HIDE DEF x
<1>2. PICK ws \in Plane!Placements(x) :
        LET effective == [x EXCEPT !.workers = ws]
        IN /\ Plane!Admitted(effective)
           /\ Plane!SchedulingPolicy(effective)
           /\ Plane!ReplaceDesiredState(effective)
  BY DEF Plane!ApplyDesiredState, x
<1> DEFINE e == [x EXCEPT !.workers = ws]
<1>3. Alike(x, e)
  BY <1>1, PlacementAlike
<1>4. Plane!Admitted(e) /\ Plane!SchedulingPolicy(e) /\ Plane!ReplaceDesiredState(e)
  BY <1>2
<1> HIDE DEF e
<1>5. StateSound(e)
  BY <1>1, <1>3, AlikeIsSound
<1>6. Placed(e)
  BY <1>4, AdmittedInfers, PolicyPlaces
<1> QED BY <1>4, <1>5, <1>6, ReplaceKeeps

LEMMA UpsertKeeps ==
  ASSUME PlaneSound, PlaneInv, Plane!UpsertPlane
  PROVE  PlaneInv'
<1>1. PICK doc \in Documents : Plane!Loads(doc) /\ Plane!ApplyDesiredState(Plane!Render(doc))
  BY DEF Plane!UpsertPlane
<1>2. DocumentSound(doc) /\ ("rebalance" \in Operations => doc.replicas <= 1)
  BY DEF PlaneSound
<1>3. StateSound(Plane!Render(doc))
  BY <1>1, <1>2, RenderSound
<1> QED BY <1>1, <1>3, ApplyKeeps

\* What a reader of the stored plane sees.
LEMMA StoredAgain ==
  ASSUME PlaneSound, PlaneInv, planeDocument # NoState
  PROVE  /\ StateSound(savedState) /\ Placed(savedState) /\ ProjectFacts(savedState, planeDocument)
         /\ Plane!Loads(planeDocument)
         /\ SameAgain(savedState, Plane!LoadDesiredState(planeDocument))
         /\ StateSound(Plane!LoadDesiredState(planeDocument))
<1>1. StateSound(savedState) /\ Placed(savedState) /\ planeDocument = Plane!Project(savedState)
  BY DEF PlaneInv
<1>2. ProjectFacts(savedState, planeDocument)
  BY <1>1, Projected
<1>3. Plane!Loads(planeDocument)
  BY <1>1, <1>2, ProjectedLoads
<1>4. SameAgain(savedState, Plane!LoadDesiredState(planeDocument))
  BY <1>1, <1>2, LoadedAgain
<1>5. StateSound(Plane!LoadDesiredState(planeDocument))
  BY <1>1, <1>4, AlikeIsSound DEF SameAgain
<1> QED BY <1>1, <1>2, <1>3, <1>4, <1>5

LEMMA EditKeeps ==
  ASSUME PlaneSound, PlaneInv, Plane!EditPlane
  PROVE  PlaneInv'
<1> DEFINE t == Plane!LoadDesiredState(planeDocument)
<1>1. planeDocument # NoState /\ Plane!ApplyDesiredState(Plane!ResolvePlacementTarget(t))
  BY DEF Plane!EditPlane
<1>2. StateSound(t)
  BY <1>1, StoredAgain
<1> HIDE DEF t
<1>3. Plane!ResolvePlacementTarget(t) = t
  BY <1>2, SoundIsResolved
<1> QED BY <1>1, <1>2, <1>3, ApplyKeeps

LEMMA WorkerAt ==
  ASSUME NEW w \in PlaneWorkers, NEW n, NEW g, NEW h
  PROVE  [[[w EXCEPT !.node = n] EXCEPT !.gpu = g] EXCEPT !.halves = h]
           = [node |-> n, gpu |-> g, halves |-> h, infer |-> w.infer]
<1>1. PICK a \in HostNames, b \in SomeGpu, c \in Halves, d \in Nat :
        w = [node |-> a, gpu |-> b, halves |-> c, infer |-> d]
  BY DEF PlaneWorkers
<1>2. [w EXCEPT !.node = n] = [node |-> n, gpu |-> b, halves |-> c, infer |-> d]
  BY <1>1
<1> DEFINE w1 == [w EXCEPT !.node = n]
           w2 == [w1 EXCEPT !.gpu = g]
<1> HIDE DEF w1
<1>3. w2 = [node |-> n, gpu |-> g, halves |-> c, infer |-> d]
  <2>1. w1 = [node |-> n, gpu |-> b, halves |-> c, infer |-> d]
    BY <1>2 DEF w1
  <2> QED BY <2>1
<1> HIDE DEF w2
<1>4. [w2 EXCEPT !.halves = h] = [node |-> n, gpu |-> g, halves |-> h, infer |-> d]
  BY <1>3
<1>5. w.infer = d
  BY <1>1
<1> QED BY <1>4, <1>5 DEF w1, w2

\* A moved worker.
LEMMA MovedWorker ==
  ASSUME NEW s \in PlaneStates, NEW i \in DOMAIN s.workers, NEW n \in HostNames,
         NEW g \in Plane!Gpus, NEW upgrade \in BOOLEAN, NEW m,
         m = Plane!MoveWorker(s, i, n, g, upgrade)
  PROVE  /\ m \in PlaneStates /\ m.nodes = s.nodes /\ m.infers = s.infers /\ m.llm = s.llm
         /\ m.target = s.target /\ Len(m.workers) = Len(s.workers)
         /\ DOMAIN m.workers = DOMAIN s.workers
         /\ \A x \in DOMAIN s.workers : m.workers[x].infer = s.workers[x].infer
         /\ \A x \in DOMAIN s.workers : m.workers[x].node = IF x = i THEN n ELSE s.workers[x].node
<1> DEFINE h == IF upgrade THEN 2 ELSE s.workers[i].halves
           v == [node |-> n, gpu |-> g, halves |-> h, infer |-> s.workers[i].infer]
           ws == [x \in DOMAIN s.workers |-> IF x = i THEN v ELSE s.workers[x]]
<1>1. /\ s.workers \in Seq(PlaneWorkers) /\ Len(s.workers) \in Nat
      /\ DOMAIN s.workers = 1..Len(s.workers)
      /\ \A x \in DOMAIN s.workers : s.workers[x] \in PlaneWorkers
      /\ s.workers[i].halves \in Halves /\ s.workers[i].infer \in Nat
  BY StateParts
<1>2. v \in PlaneWorkers
  BY <1>1 DEF PlaneWorkers, SomeGpu, Halves
<1>3. m = [s EXCEPT !.workers = ws]
  <2>2. [[[s.workers[i] EXCEPT !.node = n] EXCEPT !.gpu = g] EXCEPT !.halves = h] = v
    <3>1. s.workers[i] \in PlaneWorkers
      BY <1>1
    <3> HIDE DEF h
    <3> QED BY <3>1, WorkerAt
  <2> HIDE DEF v
  <2> QED BY <1>1, <2>2 DEF PlaneStates, Plane!MoveWorker, Plane!Whole
<1>4. ws \in [1..Len(s.workers) -> PlaneWorkers] /\ DOMAIN ws = DOMAIN s.workers
  BY <1>1, <1>2
<1>5. \A x \in DOMAIN s.workers : ws[x].infer = s.workers[x].infer
                                  /\ ws[x].node = IF x = i THEN n ELSE s.workers[x].node
  OBVIOUS
<1> HIDE DEF ws, v
<1>6. ws \in Seq(PlaneWorkers) /\ Len(ws) = Len(s.workers)
  BY <1>1, <1>4, FunctionIsSequence
<1>7. /\ m.workers = ws /\ m.nodes = s.nodes /\ m.infers = s.infers /\ m.llm = s.llm
      /\ m.target = s.target /\ m \in PlaneStates
  BY <1>3, <1>6 DEF PlaneStates
<1> QED BY <1>4, <1>5, <1>6, <1>7

LEMMA RebalanceKeeps ==
  ASSUME PlaneSound, PlaneInv, Plane!Rebalance
  PROVE  PlaneInv'
<1> DEFINE s == savedState
           t == Plane!LoadDesiredState(planeDocument)
<1>1. "rebalance" \in Operations /\ planeDocument # NoState
  BY DEF Plane!Rebalance
<1>2. PICK i \in DOMAIN t.workers, n \in Plane!NamesOf(t.nodes), g \in Plane!Gpus,
           upgrade \in BOOLEAN :
        /\ Plane!SchedulingPolicy(Plane!MoveWorker(t, i, n, g, upgrade))
        /\ Plane!ReplaceDesiredState(Plane!MoveWorker(t, i, n, g, upgrade))
  BY DEF Plane!Rebalance
<1> DEFINE m == Plane!MoveWorker(t, i, n, g, upgrade)
<1>3. Plane!SchedulingPolicy(m) /\ Plane!ReplaceDesiredState(m)
  BY <1>2
<1>4. StateSound(s) /\ Placed(s) /\ SameAgain(s, t) /\ StateSound(t)
  BY <1>1, StoredAgain
<1> HIDE DEF s, t
<1>5. /\ t \in PlaneStates /\ t.nodes \in Seq(PlaneNodes) /\ IsNode(t.nodes, n)
  BY <1>4, StateParts DEF StateSound, Plane!NamesOf, IsNode
<1>6. n \in HostNames
  BY <1>5, NodeIsHost
<1>7. /\ m \in PlaneStates /\ m.nodes = t.nodes /\ m.infers = t.infers /\ m.llm = t.llm
      /\ m.target = t.target /\ Len(m.workers) = Len(t.workers)
      /\ DOMAIN m.workers = DOMAIN t.workers
      /\ \A x \in DOMAIN t.workers : m.workers[x].infer = t.workers[x].infer
      /\ \A x \in DOMAIN t.workers : m.workers[x].node = IF x = i THEN n ELSE t.workers[x].node
  BY <1>5, <1>6, MovedWorker
<1> HIDE DEF m
<1>8. Placed(m)
  <2>1. ASSUME NEW k \in DOMAIN m.infers, NEW j \in DOMAIN m.nodes, m.nodes[j].name = m.infers[k]
        PROVE  m.nodes[j].mode # "worker-only"
    <3>1. /\ t.infers = s.infers /\ Len(t.nodes) = Len(s.nodes)
          /\ \A y \in DOMAIN s.nodes : t.nodes[y].name = s.nodes[y].name
          /\ \A y \in DOMAIN s.nodes : t.nodes[y].mode \in {s.nodes[y].mode, "mixed"}
      BY <1>4 DEF SameAgain, Alike
    <3>2. DOMAIN t.nodes = DOMAIN s.nodes
      BY <1>4, <1>5, <3>1, StateParts DEF StateSound
    <3>3. j \in DOMAIN s.nodes /\ k \in DOMAIN s.infers /\ s.nodes[j].name = s.infers[k]
      BY <1>7, <2>1, <3>1, <3>2
    <3>4. s.nodes[j].mode # "worker-only"
      BY <1>4, <3>3 DEF Placed
    <3> QED BY <1>7, <3>1, <3>3, <3>4
  <2> QED BY <1>3, <2>1, PolicyPlaces
<1>9. Replicas(m) = Replicas(t) /\ Size(m) = Size(t) /\ Replicas(t) = 1
  BY <1>1, <1>4, <1>7 DEF Replicas, Size, StateSound, Grouped
<1>10. Grouped(m)
  BY <1>4, <1>7, <1>9 DEF StateSound, Grouped
<1>11. CASE Len(t.nodes) >= 2
  <2>1. Spread(t)
    BY <1>4, <1>11, StateCases
  <2>2. \A k \in 1..Replicas(m) :
          m.infers[k + 1] = IF Replicas(m) > 1 THEN m.workers[(k - 1) * Size(m) + 1].node
                            ELSE FirstCapable(m.nodes)
    BY <1>7, <1>9, <2>1 DEF Spread
  <2>3. Spread(m)
    BY <1>7, <2>1, <2>2 DEF Spread
  <2>4. StateSound(m)
    BY <1>7, <1>10, <2>3 DEF StateSound
  <2> QED BY <1>3, <1>8, <2>4, ReplaceKeeps
<1>12. CASE Len(t.nodes) = 1
  <2>1. Single(t)
    BY <1>4, <1>12, StateCases
  <2>2. n = t.nodes[1].name
    BY <1>5, <1>12, OnlyNode
  <2>3. \A x \in DOMAIN m.workers : m.workers[x].node = m.nodes[1].name
    BY <1>7, <2>1, <2>2 DEF Single
  <2>4. Len(m.workers) = 1
    <3> SUFFICES ASSUME Len(m.workers) # 1 PROVE FALSE
      OBVIOUS
    <3>1. Len(s.workers) # 1 /\ Len(s.nodes) = 1
      BY <1>4, <1>7, <1>12 DEF SameAgain, Alike
    <3>2. s.target # NoNode
      BY <1>4, <3>1, StateCases DEF Single
    <3>3. t.nodes[1].gpus = {}
      BY <1>4, <3>1, <3>2 DEF SameAgain
    <3>4. PICK j \in DOMAIN m.nodes : m.workers[i].gpu \in m.nodes[j].gpus
      BY <1>7, <1>8 DEF Placed
    <3>5. j = 1
      <4>1. DOMAIN m.nodes = 1..1
        BY <1>5, <1>7, <1>12, SequenceIsFunction
      <4> QED BY <3>4, <4>1
    <3> QED BY <1>7, <3>3, <3>4, <3>5
  <2>5. Single(m)
    BY <1>7, <2>1, <2>3, <2>4 DEF Single
  <2>6. StateSound(m)
    BY <1>7, <1>10, <2>5 DEF StateSound
  <2> QED BY <1>3, <1>8, <2>6, ReplaceKeeps
<1> QED BY <1>4, <1>11, <1>12, StateCases

LEMMA PlaneInvInductive ==
  ASSUME PlaneSound
  PROVE  Plane!Spec => []PlaneInv
<1>1. ASSUME Plane!Init PROVE PlaneInv
  BY <1>1 DEF Plane!Init, PlaneInv, PlaneSound
<1>2. ASSUME PlaneInv, [Plane!Next]_Plane!vars PROVE PlaneInv'
  <2>1. CASE Plane!UpsertPlane
    BY <1>2, <2>1, UpsertKeeps
  <2>2. CASE Plane!EditPlane
    BY <1>2, <2>2, EditKeeps
  <2>3. CASE Plane!Rebalance
    BY <1>2, <2>3, RebalanceKeeps
  <2>4. CASE UNCHANGED Plane!vars
    <3>1. planeDocument' = planeDocument /\ savedState' = savedState /\ saves' = saves
      BY <2>4 DEF Plane!vars
    <3> QED BY <1>2, <3>1 DEF PlaneInv
  <2> QED BY <1>2, <2>1, <2>2, <2>3, <2>4 DEF Plane!Next
<1> QED BY <1>1, <1>2, PTL DEF Plane!Spec

\* Types: the document counts the workers of the saved state, each of which has a GPU, and
\* gives them a share (ReplaceDesiredState after RequireSchedulingPolicy).
THEOREM PlaneTypeCorrect ==
  ASSUME PlaneSound
  PROVE  Plane!Spec => []Plane!TypeOK
<1>1. ASSUME PlaneInv PROVE Plane!TypeOK
  <2>1. saves \in 0..MaxSaves /\ (saves = 0 <=> planeDocument = NoState)
    BY <1>1 DEF PlaneInv
  <2>2. ASSUME planeDocument # NoState
        PROVE  /\ planeDocument.workers = Len(savedState.workers)
               /\ \A w \in Plane!Range(savedState.workers) : w.gpu \in Plane!Gpus
               /\ planeDocument.halves \in 1..Plane!Whole
    <3>1. /\ StateSound(savedState) /\ Placed(savedState)
          /\ ProjectFacts(savedState, planeDocument)
      BY <1>1, <2>2, StoredAgain
    <3>2. savedState \in PlaneStates
      BY <3>1 DEF StateSound
    <3>3. ASSUME NEW w \in Plane!Range(savedState.workers) PROVE w.gpu \in Plane!Gpus
      <4>1. PICK i \in DOMAIN savedState.workers : w = savedState.workers[i]
        BY DEF Plane!Range
      <4>2. PICK j \in DOMAIN savedState.nodes : w.gpu \in savedState.nodes[j].gpus
        BY <3>1, <4>1 DEF Placed
      <4>3. savedState.nodes[j] \in PlaneNodes
        BY <3>2, StateParts
      <4> QED BY <4>2, <4>3 DEF PlaneNodes
    <3>4. planeDocument.halves \in 1..2
      BY <3>1 DEF ProjectFacts, DocumentType, Halves
    <3> QED BY <3>1, <3>3, <3>4 DEF ProjectFacts, Plane!Whole
  <2> QED BY <2>1, <2>2 DEF Plane!TypeOK
<1> QED BY <1>1, PlaneInvInductive, PTL

\* What ReplaceDesiredState commits passes the validator and names nodes the renderer knows,
\* whatever sequence of updates, edits and moves led to it.
THEOREM StoredPlanesLoad ==
  ASSUME PlaneSound
  PROVE  Plane!Spec => []Plane!StoredPlaneLoads
<1>1. ASSUME PlaneInv PROVE Plane!StoredPlaneLoads
  BY <1>1, StoredAgain DEF Plane!StoredPlaneLoads
<1> QED BY <1>1, PlaneInvInductive, PTL

\* The plane that is read back has every infer instance and every worker on the node, and every
\* worker on the GPU and with the infer instance, that was saved.
THEOREM LoadedPlanesAreSaved ==
  ASSUME PlaneSound
  PROVE  Plane!Spec => []Plane!LoadedIsSaved
<1>1. ASSUME PlaneInv PROVE Plane!LoadedIsSaved
  <2> SUFFICES ASSUME planeDocument # NoState PROVE Plane!LoadedIsSaved
    BY DEF Plane!LoadedIsSaved
  <2> DEFINE t == Plane!LoadDesiredState(planeDocument)
  <2>1. SameAgain(savedState, t) /\ StateSound(savedState) /\ StateSound(t)
    BY <1>1, StoredAgain
  <2> HIDE DEF t
  <2>2. /\ t.infers = savedState.infers /\ Len(t.workers) = Len(savedState.workers)
        /\ \A i \in DOMAIN savedState.workers :
             /\ t.workers[i].node = savedState.workers[i].node
             /\ t.workers[i].gpu = savedState.workers[i].gpu
             /\ t.workers[i].infer = savedState.workers[i].infer
    BY <2>1 DEF SameAgain, Alike
  <2>3. DOMAIN t.workers = DOMAIN savedState.workers
    BY <2>1, <2>2, StateParts DEF StateSound
  <2>4. [i \in DOMAIN t.workers |-> <<t.workers[i].node, t.workers[i].gpu, t.workers[i].infer>>]
        = [i \in DOMAIN savedState.workers |->
             <<savedState.workers[i].node, savedState.workers[i].gpu, savedState.workers[i].infer>>]
    BY <2>2, <2>3
  <2> QED BY <2>2, <2>4 DEF Plane!LoadedIsSaved, t
<1> QED BY <1>1, PlaneInvInductive, PTL
=============================================================================
