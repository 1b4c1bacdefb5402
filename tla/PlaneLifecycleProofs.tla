------------------------ MODULE PlaneLifecycleProofs ------------------------
(***************************************************************************)
(* Proofs about PlaneLifecycle, for any number of planes, nodes, rows and  *)
(* generations: type correctness, the truth of applied rows, the absence   *)
(* of rows without a plane and of planes that the registry has forgotten.  *)
(* IInv is the inductive invariant of the first two; RegistryInv,          *)
(* PlacementInv and DeletionInv, in this order, each rest on the ones      *)
(* before and lead to the other two.                                       *)
(***************************************************************************)
EXTENDS PlaneLifecycle, SequenceTheorems, FiniteSetTheorems, TLAPS

\* What holds of each row on its own: a row that was never claimed has no
\* outcome, and only a retry gives a failed row more attempts.
RowInv(r) ==
  /\ r.plane \in Planes
  /\ r.type \in LifecycleTypes
  /\ r.max >= MaxAttempts
  /\ r.status = "failed" => r.attempts >= r.max
  /\ r.attempts = 0 => r.status \in {"pending", "superseded", "deleted"}

\* What holds of the rows of a node: an older row of a plane is live only if
\* an operator has retried it.
TableInv(q) ==
  /\ \A i \in DOMAIN q : RowInv(q[i])
  /\ \A i, j \in DOMAIN q :
       i < j /\ q[i].plane = q[j].plane /\ q[i].status \in Active
         => q[i].max # MaxAttempts

\* The node holds what row r asks for; l is what it holds of the row's plane.
InForce(r, l) ==
  /\ l.content = DesiredContent(r.type)
  /\ l.content # "none" => l.generation = r.generation

\* Row i is the newest of its plane, and no older one was retried.
Decides(q, i) ==
  /\ IsLatest(q, i)
  /\ \A j \in DOMAIN q : q[j].plane = q[i].plane /\ j < i => q[j].max = MaxAttempts

\* The observation o says that row i has been applied.
Witnessed(q, o, i) == o.status = "applied" /\ o.plane = q[i].plane /\ o.id = i

\* hostd has done the work of row i and not yet forgotten it.
HasApplied(h, i) == h.id = i /\ h.step \in {"applied", "observed", "converging"}

\* Whoever says that the row in charge is applied says the truth, and while
\* hostd works for its plane on another row, it has not been claimed.
RowIsTrue(q, o, l, h, i) ==
  /\ q[i].status = "applied" \/ Witnessed(q, o, i) \/ HasApplied(h, i)
       => InForce(q[i], l[q[i].plane])
  /\ h.step # "idle" /\ h.id # i /\ q[h.id].plane = q[i].plane
       => q[i].attempts = 0

\* What holds of one node: its rows, observation, local state and hostd.
NodeInv(q, o, l, h) ==
  /\ q \in Seq(Row) /\ o \in Observation
  /\ l \in [Planes -> LocalState] /\ h \in [id : Nat, step : HostdSteps]
  /\ TableInv(q)
  /\ h.step # "idle" => h.id \in DOMAIN q /\ q[h.id].attempts > 0
  /\ o.status = "applied" /\ o.plane # NoPlane =>
       /\ o.id \in DOMAIN q
       /\ q[o.id].plane = o.plane /\ q[o.id].attempts > 0
  /\ \A i \in DOMAIN q : Decides(q, i) => RowIsTrue(q, o, l, h, i)
  /\ \A p \in Planes : l[p].generation <= MaxGeneration

\* A command has loaded its plane, and a generation it stores is within the
\* bound.
OpInv(o) ==
  /\ o.step \notin {"idle", "drain", "resync"} => o.plane \in Planes
  /\ o.seen.generation <= MaxGeneration
  /\ o.step = "replace" => o.seen.generation < MaxGeneration

\* What holds of the tables and processes of all nodes.
NodesInv(as, ob, lo, ho) ==
  /\ as \in [Nodes -> Seq(Row)] /\ ob \in [Nodes -> Observation]
  /\ lo \in [Nodes -> [Planes -> LocalState]]
  /\ ho \in [Nodes -> [id : Nat, step : HostdSteps]]
  /\ \A n \in Nodes : NodeInv(as[n], ob[n], lo[n], ho[n])

\* What holds of the tables of planes and nodes.
StoreInv ==
  /\ planes \in [Planes -> PlaneRecord]
  /\ registry \in Seq(Planes)
  /\ available \in [Nodes -> BOOLEAN]
  /\ \A p \in Planes : planes[p].generation <= MaxGeneration

\* What holds of the commands at work.
OpsInv ==
  /\ op \in [Threads -> Operation]
  /\ \A t \in Threads : OpInv(op[t])

PlanesInv == StoreInv /\ OpsInv

\* The inductive invariant.
IInv == PlanesInv /\ NodesInv(assignments, observed, local, hostd)

\* The steps of a command that works on a plane it has loaded.
PlaneSteps == Steps \ {"idle", "drain", "resync", "replace"}

\* The rows that are left belong to the planes P.
RowsWithin(q, P) == \A i \in DOMAIN q : q[i].status # "deleted" => q[i].plane \in P

Registered == {p \in Planes : Exists(p)}

\* Rows that are not deleted belong to planes of the registry, and so does the
\* plane of a command at work, which no other command can delete meanwhile.
RegistryInv ==
  /\ \A n \in Nodes : RowsWithin(assignments[n], Registered)
  /\ \A t \in Threads : op[t].step \in PlaneSteps => op[t].plane \in Registered

-----------------------------------------------------------------------------
(* What holds of the deletion of planes when commands run one after        *)
(* another, reports are not lost, failed rows are not retried and a plane  *)
(* keeps its nodes.                                                        *)

\* One command at a time.
OneThread == \A t, u \in Threads : t = u

\* A plane stays on its nodes: it has one generation, or there is one node.
OnePlacement == MaxGeneration <= 1 \/ \A m, n \in Nodes : m = n

InTurn == OneThread /\ ~LoseObservations /\ "retry" \notin Commands /\ OnePlacement

\* hostd is about to bring plane p to the node.
Brings(q, h, p) ==
  /\ h.step \in {"claimed", "applying"}
  /\ q[h.id].plane = p /\ DesiredContent(q[h.id].type) # "none"

\* The observation says that hostd is at work for plane p.
SaysApplying(o, p) == o.status = "applying" /\ o.plane = p

\* Nothing of plane p is on the node or will come to it.
Gone(q, o, l, h, p) ==
  /\ \A i \in DOMAIN q : q[i].plane = p => q[i].status \notin Active
  /\ l[p].content = "none" /\ o.content[p] = "none"
  /\ ~Brings(q, h, p)

\* What the controller has observed of plane p on a node is what the node
\* holds, unless it knows hostd to be at work for p.
ObservesPlane(q, o, l, h, p) ==
  /\ o.content[p] = l[p].content \/ SaysApplying(o, p)
  /\ o.status = "none" => o.content[p] = "none"
  /\ h.step = "applying" /\ q[h.id].plane = p =>
       \/ SaysApplying(o, p)
       \/ l[p].content = "none" /\ DesiredContent(q[h.id].type) = "none"
  /\ Brings(q, h, p) /\ h.step = "claimed" /\ q[h.id].status = "applied" =>
       o.plane = p /\ o.status = "applied"

\* The rows of a plane are deleted together, and hostd does not bring back a
\* plane that is deleted.
DeletedTogether(q, h) ==
  /\ \A i \in DOMAIN q : q[i].max = MaxAttempts
  /\ \A i, j \in DOMAIN q :
       j < i /\ q[j].plane = q[i].plane /\ q[i].status = "deleted"
         => q[j].status = "deleted"
  /\ h.step # "idle" => q[h.id].status \notin {"pending", "failed"}
  /\ \A p \in Planes : Brings(q, h, p) => q[h.id].status # "deleted"

\* The newest row of plane p is not withdrawn.
Standing(q, p) == \A i \in Latest(q, p) : q[i].status # "superseded"

\* A command has withdrawn rows of plane p and not yet queued others.
Between(p) ==
  \E t \in Threads :
    /\ op[t].plane = p
    /\ op[t].step \in {"stop-enqueue", "stop-reconcile", "stop-state",
                       "delete-state", "delete-enqueue"}

PlacedOn(n) == {p \in Registered : n \in planes[p].nodes}

\* A command knows the nodes of its plane, and one that stores a desired state
\* does not move the plane.
OpPlaced(x) ==
  /\ x.step \in PlaneSteps => x.plane \in Planes /\ x.seen.nodes = planes[x.plane].nodes
  /\ x.step = "replace" =>
       /\ x.nodes # {} /\ x.nodes \subseteq Nodes
       /\ x.plane \in Registered => \A m, n \in Nodes : m = n

\* A plane has nodes, the same ones as long as it exists, and rows there only.
PlacementInv ==
  /\ \A p \in Registered : planes[p].generation > 0
  /\ \A t \in Threads : OpPlaced(op[t])
  /\ \A n \in Nodes : RowsWithin(assignments[n], PlacedOn(n))

\* What holds of the rows, observation, local state and hostd of a node.
NodeDeletion(q, o, l, h) ==
  DeletedTogether(q, h) /\ \A p \in Planes : ObservesPlane(q, o, l, h, p)

\* Plane p has left the registry or is about to.
Leaves(p) ==
  \/ p \notin Registered
  \/ \E t \in Threads : op[t].step = "finalize" /\ op[t].plane = p

\* Plane p is being deleted, and its nodes have been told.
Cleaned(p) == planes[p].state = "deleting" /\ ~Between(p)

DeletionInv ==
  /\ \A n \in Nodes : NodeDeletion(assignments[n], observed[n], local[n], hostd[n])
  /\ \A p \in Planes : Leaves(p) =>
       \A n \in Nodes : Gone(assignments[n], observed[n], local[n], hostd[n], p)
  /\ \A p \in Planes : Cleaned(p) => \A n \in Nodes : Standing(assignments[n], p)

-----------------------------------------------------------------------------
(* The operations on the table, row by row.                                *)

\* What one operation may do to one row.
RowStep(r, r2) ==
  /\ r2 \in Row /\ RowInv(r2)
  /\ r2.plane = r.plane /\ r2.type = r.type /\ r2.generation = r.generation
  /\ r2.max >= r.max
  /\ r.attempts > 0 => r2.attempts > 0
  /\ r2.status \in Active => r.status \in Active \/ r2.max # MaxAttempts

\* A row that no operation touches takes a RowStep.
LEMMA RowStays ==
  ASSUME NEW r \in Row, RowInv(r)
  PROVE  RowStep(r, r)
BY DEF RowStep, Row

\* Writing a status is a RowStep, unless it revives or fails the row at will.
LEMMA WriteStep ==
  ASSUME NEW r \in Row, RowInv(r), NEW st \in Statuses,
         st \in Active => r.status \in Active,
         st = "failed" => r.attempts >= r.max,
         r.attempts = 0 => st \in {"pending", "superseded", "deleted"}
  PROVE  /\ RowStep(r, Write(r, st, FALSE))
         /\ Write(r, st, FALSE).status = st
         /\ Write(r, st, FALSE).attempts = r.attempts
<1> DEFINE w == Write(r, st, FALSE)
<1>1. /\ w \in Row /\ w.status = st
      /\ w.plane = r.plane /\ w.type = r.type /\ w.generation = r.generation
      /\ w.max = r.max /\ w.attempts = r.attempts
  BY DEF Write, Row
<1>2. r.max \in Nat /\ r.attempts \in Nat
  BY DEF Row
<1> HIDE DEF w
<1>3. RowInv(w)
  BY <1>1, <1>2 DEF RowInv
<1>4. RowStep(r, w) /\ w.status = st /\ w.attempts = r.attempts
  BY <1>1, <1>2, <1>3 DEF RowStep
<1> QED BY <1>4 DEF w

\* Claiming a row that has attempts left.
LEMMA ClaimStep ==
  ASSUME NEW r \in Row, RowInv(r), r.status = "pending"
  PROVE  LET w == [Write(r, "claimed", FALSE) EXCEPT !.attempts = r.attempts + 1] IN
         RowStep(r, w) /\ w.status = "claimed" /\ w.attempts > 0
<1> DEFINE v == Write(r, "claimed", FALSE)
           w == [v EXCEPT !.attempts = r.attempts + 1]
<1>1. r.max \in Nat /\ r.attempts \in Nat
  BY DEF Row
<1>2. /\ v \in Row /\ v.status = "claimed"
      /\ v.plane = r.plane /\ v.type = r.type /\ v.generation = r.generation
      /\ v.max = r.max
  BY DEF Write, Row, Statuses
<1> HIDE DEF v
<1>3. PICK a \in Nat : a = r.attempts + 1
  BY <1>1
<1>4. a > 0
  BY <1>1, <1>3
<1>5. /\ w \in Row /\ w.status = "claimed"
      /\ w.plane = r.plane /\ w.type = r.type /\ w.generation = r.generation
      /\ w.max = r.max /\ w.attempts = a
  BY <1>2, <1>3 DEF Row
<1> HIDE DEF w
<1>6. RowInv(w)
  BY <1>1, <1>4, <1>5 DEF RowInv
<1>7. RowStep(r, w) /\ w.status = "claimed" /\ w.attempts > 0
  BY <1>1, <1>4, <1>5, <1>6 DEF RowStep, Active
<1> QED BY <1>7 DEF v, w

\* An operator's retry of a failed row leaves its mark on max_attempts.
LEMMA RetryStep ==
  ASSUME NEW r \in Row, RowInv(r), r.status = "failed"
  PROVE  LET w == [Write(r, "pending", FALSE) EXCEPT
                     !.max = IF r.max < r.attempts + 1
                             THEN r.attempts + 1 ELSE r.max] IN
         RowStep(r, w) /\ w.status = "pending" /\ w.attempts = r.attempts
<1> DEFINE v == Write(r, "pending", FALSE)
<1>1. r.max \in Nat /\ r.attempts \in Nat
  BY DEF Row
<1>2. PICK m \in Nat : m = IF r.max < r.attempts + 1 THEN r.attempts + 1 ELSE r.max
  BY <1>1
<1>3. m > r.max /\ m > MaxAttempts
  BY <1>1, <1>2, MaxAttemptsAssumption DEF RowInv
<1> DEFINE w == [v EXCEPT !.max = m]
<1>4. /\ v \in Row /\ v.status = "pending"
      /\ v.plane = r.plane /\ v.type = r.type /\ v.generation = r.generation
      /\ v.attempts = r.attempts
  BY DEF Write, Row, Statuses
<1> HIDE DEF v
<1>5. /\ w \in Row /\ w.status = "pending"
      /\ w.plane = r.plane /\ w.type = r.type /\ w.generation = r.generation
      /\ w.attempts = r.attempts /\ w.max = m
  BY <1>4 DEF Row
<1> HIDE DEF w
<1>6. RowInv(w)
  BY <1>1, <1>3, <1>5, MaxAttemptsAssumption DEF RowInv
<1>7. RowStep(r, w) /\ w.status = "pending" /\ w.attempts = r.attempts
  BY <1>1, <1>3, <1>5, <1>6, MaxAttemptsAssumption DEF RowStep
<1> QED BY <1>2, <1>7 DEF v, w

\* Ageing a row changes nothing but stale.
LEMMA AgeStep ==
  ASSUME NEW r \in Row, RowInv(r)
  PROVE  LET w == [r EXCEPT !.stale = TRUE] IN
         RowStep(r, w) /\ w.status = r.status /\ w.attempts = r.attempts
<1> DEFINE w == [r EXCEPT !.stale = TRUE]
<1>1. /\ w \in Row /\ w.status = r.status
      /\ w.plane = r.plane /\ w.type = r.type /\ w.generation = r.generation
      /\ w.max = r.max /\ w.attempts = r.attempts
  BY DEF Row
<1>2. r.max \in Nat /\ r.attempts \in Nat
  BY DEF Row
<1> HIDE DEF w
<1>3. RowStep(r, w) /\ w.status = r.status /\ w.attempts = r.attempts
  BY <1>1, <1>2 DEF RowStep, RowInv
<1> QED BY <1>3 DEF w

\* A new row.
LEMMA InsertRow ==
  ASSUME NEW p \in Planes, NEW g \in 0..MaxGeneration, NEW t \in LifecycleTypes
  PROVE  LET r == InsertAssignment(p, g, t) IN
         /\ r \in Row /\ RowInv(r)
         /\ r.plane = p /\ r.attempts = 0 /\ r.status = "pending" /\ r.max = MaxAttempts
BY MaxAttemptsAssumption DEF InsertAssignment, Row, RowInv, Statuses, Types

-----------------------------------------------------------------------------
(* The operations on a node.                                               *)

\* The rows of a table are rows, and their positions are numbers.
LEMMA RowsOf ==
  ASSUME NEW q \in Seq(Row)
  PROVE  /\ Len(q) \in Nat /\ DOMAIN q = 1..Len(q)
         /\ \A i \in DOMAIN q : q[i] \in Row /\ i \in Nat
BY LenProperties, ElementOfSeq

\* An operation that takes every row one RowStep further keeps the table.
LEMMA RowWise ==
  ASSUME NEW q \in Seq(Row), TableInv(q), NEW q2,
         q2 = [i \in DOMAIN q |-> q2[i]],
         \A i \in DOMAIN q : RowStep(q[i], q2[i])
  PROVE  q2 \in Seq(Row) /\ DOMAIN q2 = DOMAIN q /\ Len(q2) = Len(q) /\ TableInv(q2)
<1>1. \A i \in DOMAIN q : q[i] \in Row /\ q2[i] \in Row /\ i \in Nat
  BY RowsOf DEF RowStep
<1>2. q2 \in Seq(Row) /\ DOMAIN q2 = DOMAIN q /\ Len(q2) = Len(q)
  <2>1. Len(q) \in Nat /\ DOMAIN q = 1..Len(q)
    BY RowsOf
  <2>2. q2 \in [1..Len(q) -> Row]
    BY <1>1, <2>1
  <2>3. q2 \in Seq(Row)
    BY <2>1, <2>2, SeqDef
  <2> QED BY <2>1, <2>2, <2>3, LenProperties
<1>3. \A i \in DOMAIN q2 : RowInv(q2[i])
  BY <1>2 DEF RowStep
<1>4. ASSUME NEW i \in DOMAIN q2, NEW j \in DOMAIN q2,
             i < j, q2[i].plane = q2[j].plane, q2[i].status \in Active
      PROVE  q2[i].max # MaxAttempts
  <2>1. /\ q[i].plane = q[j].plane /\ q2[i].max >= q[i].max
        /\ q[i].status \in Active \/ q2[i].max # MaxAttempts
    BY <1>2, <1>4 DEF RowStep
  <2>2. q[i].max \in Nat /\ q2[i].max \in Nat /\ q[i].max >= MaxAttempts
    BY <1>1, <1>2 DEF Row, TableInv, RowInv
  <2>3. q[i].status \in Active => q[i].max # MaxAttempts
    BY <1>2, <1>4, <2>1 DEF TableInv
  <2> QED BY <2>1, <2>2, <2>3, MaxAttemptsAssumption
<1>5. TableInv(q2)
  BY <1>3, <1>4 DEF TableInv
<1> QED BY <1>2, <1>5

\* Row operations keep the node: a row becomes applied on the word of the
\* observation or of hostd, and a row is claimed only when hostd is idle.
LEMMA RowWiseNode ==
  ASSUME NEW q, NEW o, NEW l, NEW h, NodeInv(q, o, l, h), NEW q2,
         q2 = [i \in DOMAIN q |-> q2[i]],
         \A i \in DOMAIN q :
           /\ RowStep(q[i], q2[i])
           /\ q2[i].attempts = q[i].attempts \/ h.step = "idle"
           /\ q2[i].status = "applied" =>
                q[i].status = "applied" \/ Witnessed(q, o, i) \/ HasApplied(h, i)
  PROVE  NodeInv(q2, o, l, h) /\ DOMAIN q2 = DOMAIN q
<1>1. q \in Seq(Row) /\ TableInv(q)
  BY DEF NodeInv
<1>2. q2 \in Seq(Row) /\ DOMAIN q2 = DOMAIN q /\ TableInv(q2)
  BY <1>1, RowWise
<1>3. \A i \in DOMAIN q :
        /\ q2[i].plane = q[i].plane /\ q2[i].type = q[i].type
        /\ q2[i].generation = q[i].generation
        /\ q[i].attempts > 0 => q2[i].attempts > 0
        /\ q2[i].max >= q[i].max
        /\ q[i].max \in Nat /\ q2[i].max \in Nat /\ q[i].max >= MaxAttempts
  BY <1>1, RowsOf DEF RowStep, Row, TableInv, RowInv
<1>4. ASSUME NEW i \in DOMAIN q2, Decides(q2, i)
      PROVE  RowIsTrue(q2, o, l, h, i)
  <2>1. \A j \in DOMAIN q : q2[j].max = MaxAttempts => q[j].max = MaxAttempts
    BY <1>3, MaxAttemptsAssumption
  <2>2. Decides(q, i)
    BY <1>2, <1>3, <1>4, <2>1 DEF Decides, IsLatest
  <2>3. RowIsTrue(q, o, l, h, i)
    BY <1>2, <1>4, <2>2 DEF NodeInv
  <2>4. Witnessed(q2, o, i) <=> Witnessed(q, o, i)
    BY <1>2, <1>3, <1>4 DEF Witnessed
  <2>5. \A x : InForce(q2[i], x) <=> InForce(q[i], x)
    BY <1>2, <1>3, <1>4 DEF InForce
  <2>6. q2[i].status = "applied" \/ Witnessed(q2, o, i) \/ HasApplied(h, i)
          => InForce(q2[i], l[q2[i].plane])
    BY <1>2, <1>3, <1>4, <2>3, <2>4, <2>5 DEF RowIsTrue
  <2>7. ASSUME h.step # "idle", h.id # i, q2[h.id].plane = q2[i].plane
        PROVE  q2[i].attempts = 0
    <3>1. h.id \in DOMAIN q
      BY <2>7 DEF NodeInv
    <3> QED BY <1>2, <1>3, <1>4, <2>3, <2>7, <3>1 DEF RowIsTrue
  <2> QED BY <2>6, <2>7 DEF RowIsTrue
<1> QED BY <1>2, <1>3, <1>4 DEF NodeInv

\* New rows keep the node if they have a plane each, no older row of which is
\* live.
LEMMA AppendNode ==
  ASSUME NEW q, NEW o, NEW l, NEW h, NodeInv(q, o, l, h),
         NEW new \in Seq(Row),
         \A k \in DOMAIN new :
           /\ RowInv(new[k]) /\ new[k].attempts = 0
           /\ \A i \in DOMAIN q : q[i].plane = new[k].plane => q[i].status \notin Active
           /\ \A j \in DOMAIN new : new[j].plane = new[k].plane => j = k
  PROVE  NodeInv(q \o new, o, l, h)
<1> DEFINE q2 == q \o new
<1>1. q \in Seq(Row) /\ TableInv(q)
  BY DEF NodeInv
<1>2. PICK a \in Nat : a = Len(q) /\ DOMAIN q = 1..a
  BY <1>1, RowsOf
<1>3. PICK b \in Nat : b = Len(new) /\ DOMAIN new = 1..b
  BY RowsOf
<1>4. /\ q2 \in Seq(Row) /\ DOMAIN q2 = 1..(a + b)
      /\ \A i \in 1..(a + b) : q2[i] = IF i <= a THEN q[i] ELSE new[i - a]
  BY <1>1, <1>2, <1>3, ConcatProperties, LenProperties
<1> HIDE DEF q2
<1>5. \A i \in DOMAIN q : i \in DOMAIN q2 /\ q2[i] = q[i] /\ i <= a
  BY <1>2, <1>4
<1>6. \A i \in DOMAIN q2 :
        i \notin DOMAIN q => i > a /\ i - a \in DOMAIN new /\ q2[i] = new[i - a]
  BY <1>2, <1>3, <1>4
<1>7. TableInv(q2)
  <2>1. \A i \in DOMAIN q2 : RowInv(q2[i])
    BY <1>1, <1>5, <1>6 DEF TableInv
  <2>2. ASSUME NEW i \in DOMAIN q2, NEW j \in DOMAIN q2,
               i < j, q2[i].plane = q2[j].plane, q2[i].status \in Active
        PROVE  q2[i].max # MaxAttempts
    <3>1. CASE j \in DOMAIN q
      <4>1. i \in DOMAIN q
        BY <1>2, <1>4, <2>2, <3>1
      <4> QED BY <1>1, <1>5, <2>2, <3>1, <4>1 DEF TableInv
    <3>2. CASE j \notin DOMAIN q /\ i \in DOMAIN q
      BY <1>5, <1>6, <2>2, <3>2
    <3>3. CASE j \notin DOMAIN q /\ i \notin DOMAIN q
      <4>1. i - a = j - a
        BY <1>6, <2>2, <3>3
      <4> QED BY <1>2, <1>4, <2>2, <4>1
    <3> QED BY <3>1, <3>2, <3>3
  <2> QED BY <2>1, <2>2 DEF TableInv
<1>8. h.step # "idle" => h.id \in DOMAIN q2 /\ h.id \in DOMAIN q /\ q2[h.id].attempts > 0
  BY <1>5 DEF NodeInv
<1>9. o.status = "applied" /\ o.plane # NoPlane =>
        /\ o.id \in DOMAIN q2 /\ o.id \in DOMAIN q
        /\ q2[o.id].plane = o.plane /\ q2[o.id].attempts > 0
  BY <1>5 DEF NodeInv
<1>10. ASSUME NEW i \in DOMAIN q2, Decides(q2, i)
       PROVE  RowIsTrue(q2, o, l, h, i)
  <2>1. CASE i \in DOMAIN q
    <3>1. Decides(q, i)
      BY <1>5, <1>10, <2>1 DEF Decides, IsLatest
    <3>2. RowIsTrue(q, o, l, h, i)
      BY <2>1, <3>1 DEF NodeInv
    <3>3. q2[i] = q[i] /\ (h.step # "idle" => q2[h.id] = q[h.id])
      BY <1>5, <1>8, <2>1
    <3> QED BY <3>2, <3>3 DEF RowIsTrue, Witnessed
  <2>2. CASE i \notin DOMAIN q
    <3>1. q2[i].attempts = 0 /\ RowInv(q2[i])
      BY <1>6, <2>2, <1>10
    <3>2. q2[i].status # "applied" /\ q2[i].plane # NoPlane
      BY <3>1, NoPlaneAssumption DEF RowInv
    <3>3. ~Witnessed(q2, o, i)
      BY <1>9, <2>2, <3>2 DEF Witnessed
    <3>4. ~HasApplied(h, i)
      BY <1>8, <2>2 DEF HasApplied
    <3> QED BY <3>1, <3>2, <3>3, <3>4 DEF RowIsTrue
  <2> QED BY <2>1, <2>2
<1>11. NodeInv(q2, o, l, h)
  BY <1>4, <1>7, <1>8, <1>9, <1>10 DEF NodeInv
<1> QED BY <1>11 DEF q2

\* The live rows of the planes P are superseded.
SupersedeAll(q, P) ==
  [i \in DOMAIN q |->
     IF q[i].plane \in P /\ q[i].status \in Active
     THEN Write(q[i], "superseded", FALSE) ELSE q[i]]

\* Superseding keeps the node and leaves no live row of these planes.
LEMMA SupersedeNode ==
  ASSUME NEW q, NEW o, NEW l, NEW h, NodeInv(q, o, l, h), NEW P
  PROVE  /\ NodeInv(SupersedeAll(q, P), o, l, h)
         /\ DOMAIN SupersedeAll(q, P) = DOMAIN q
         /\ \A i \in DOMAIN q :
              /\ SupersedeAll(q, P)[i].plane = q[i].plane
              /\ SupersedeAll(q, P)[i].plane \in P
                   => SupersedeAll(q, P)[i].status \notin Active
<1> DEFINE q2 == SupersedeAll(q, P)
<1>1. q \in Seq(Row) /\ TableInv(q)
  BY DEF NodeInv
<1>2. q2 = [i \in DOMAIN q |-> q2[i]]
  BY DEF SupersedeAll
<1>3. ASSUME NEW i \in DOMAIN q
      PROVE  /\ RowStep(q[i], q2[i]) /\ q2[i].attempts = q[i].attempts
             /\ q2[i].status = "applied" => q[i].status = "applied"
             /\ q2[i].plane \in P => q2[i].status \notin Active
  <2>1. q[i] \in Row /\ RowInv(q[i])
    BY <1>1, RowsOf DEF TableInv
  <2>2. CASE q[i].plane \in P /\ q[i].status \in Active
    <3>1. q2[i] = Write(q[i], "superseded", FALSE)
      BY <2>2 DEF SupersedeAll
    <3>2. /\ RowStep(q[i], q2[i]) /\ q2[i].status = "superseded"
          /\ q2[i].attempts = q[i].attempts
      <4>1. "superseded" \in Statuses /\ "superseded" \notin Active
        BY DEF Statuses, Active
      <4>2. LET w == Write(q[i], "superseded", FALSE)
            IN  RowStep(q[i], w) /\ w.status = "superseded" /\ w.attempts = q[i].attempts
        BY <2>1, <4>1, WriteStep
      <4> QED BY <3>1, <4>2
    <3> QED BY <3>2 DEF Active
  <2>3. CASE ~(q[i].plane \in P /\ q[i].status \in Active)
    <3>1. q2[i] = q[i]
      BY <2>3 DEF SupersedeAll
    <3> QED BY <2>1, <2>3, <3>1, RowStays
  <2> QED BY <2>2, <2>3
<1> HIDE DEF q2
<1>4. NodeInv(q2, o, l, h) /\ DOMAIN q2 = DOMAIN q
  BY <1>2, <1>3, RowWiseNode
<1>5. \A i \in DOMAIN q : q2[i].plane = q[i].plane
  BY <1>3 DEF RowStep
<1> QED BY <1>3, <1>4, <1>5 DEF q2

\* What a new row of one of the planes P looks like.
NewRow(r, P) ==
  /\ r \in Row /\ RowInv(r) /\ r.plane \in P
  /\ r.attempts = 0 /\ r.max = MaxAttempts /\ r.status = "pending"

\* EnqueueHostAssignments for one node, with a row for each of some planes.
LEMMA EnqueueNode ==
  ASSUME NEW q, NEW o, NEW l, NEW h, NodeInv(q, o, l, h), NEW P,
         NEW new \in Seq(Row),
         \A k \in DOMAIN new :
           /\ NewRow(new[k], P)
           /\ \A j \in DOMAIN new : new[j].plane = new[k].plane => j = k
  PROVE  NodeInv(SupersedeAll(q, P) \o new, o, l, h)
<1> DEFINE s == SupersedeAll(q, P)
<1>1. /\ NodeInv(s, o, l, h)
      /\ \A i \in DOMAIN s : s[i].plane \in P => s[i].status \notin Active
  BY SupersedeNode
<1> HIDE DEF s
<1>2. NodeInv(s \o new, o, l, h)
  BY <1>1, AppendNode DEF NewRow
<1> QED BY <1>2 DEF s

\* The same with one row.
LEMMA EnqueueOne ==
  ASSUME NEW q, NEW o, NEW l, NEW h, NodeInv(q, o, l, h), NEW p, NEW r,
         NewRow(r, {p})
  PROVE  NodeInv(Append(SupersedePlane(q, p), r), o, l, h)
<1>1. SupersedePlane(q, p) = SupersedeAll(q, {p})
  BY DEF SupersedePlane, SupersedeAll
<1>2. SupersedeAll(q, {p}) \in Seq(Row)
  <2>1. PICK s : s = SupersedeAll(q, {p})
    OBVIOUS
  <2>2. NodeInv(s, o, l, h)
    BY <2>1, SupersedeNode
  <2> QED BY <2>1, <2>2 DEF NodeInv
<1>3. r \in Row /\ Append(SupersedeAll(q, {p}), r) = SupersedeAll(q, {p}) \o <<r>>
  BY <1>2, AppendIsConcat DEF NewRow
<1>4. <<r>> \in Seq(Row) /\ DOMAIN <<r>> = {1} /\ <<r>>[1] = r
  BY <1>3
<1>5. \A k \in DOMAIN <<r>> :
        /\ NewRow(<<r>>[k], {p})
        /\ \A j \in DOMAIN <<r>> : <<r>>[j].plane = <<r>>[k].plane => j = k
  BY <1>4
<1>6. NodeInv(SupersedeAll(q, {p}) \o <<r>>, o, l, h)
  BY <1>4, <1>5, EnqueueNode
<1> QED BY <1>1, <1>3, <1>6

\* The rows of a plane go with it.
LEMMA DeleteNode ==
  ASSUME NEW q, NEW o, NEW l, NEW h, NodeInv(q, o, l, h), NEW p
  PROVE  NodeInv(DeletePlaneRows(q, p), o, l, h)
<1> DEFINE q2 == DeletePlaneRows(q, p)
<1>1. q \in Seq(Row) /\ TableInv(q)
  BY DEF NodeInv
<1>2. q2 = [i \in DOMAIN q |-> q2[i]]
  BY DEF DeletePlaneRows
<1>3. ASSUME NEW i \in DOMAIN q
      PROVE  /\ RowStep(q[i], q2[i]) /\ q2[i].attempts = q[i].attempts
             /\ q2[i].status = "applied" => q[i].status = "applied"
  <2>1. q[i] \in Row /\ RowInv(q[i])
    BY <1>1, RowsOf DEF TableInv
  <2>2. CASE q[i].plane = p
    <3>1. q2[i] = Write(q[i], "deleted", FALSE)
      BY <2>2 DEF DeletePlaneRows
    <3>2. /\ RowStep(q[i], q2[i]) /\ q2[i].status = "deleted"
          /\ q2[i].attempts = q[i].attempts
      BY <2>1, <3>1, WriteStep DEF Statuses, Active
    <3> QED BY <3>2
  <2>3. CASE q[i].plane # p
    BY <2>1, <2>3, RowStays DEF DeletePlaneRows
  <2> QED BY <2>2, <2>3
<1> HIDE DEF q2
<1>4. NodeInv(q2, o, l, h)
  BY <1>2, <1>3, RowWiseNode
<1> QED BY <1>4 DEF q2

\* Leases that ran out: nothing expires but claimed rows, for there are no
\* proxy rows among the rows of planes.
LEMMA ExpireNode ==
  ASSUME NEW q, NEW o, NEW l, NEW h, NodeInv(q, o, l, h)
  PROVE  NodeInv(Expire(q), o, l, h) /\ DOMAIN Expire(q) = DOMAIN q
<1> DEFINE q1 == ExpireLeases(q)
           q2 == ExpireProxies(q1)
<1>1. q \in Seq(Row) /\ TableInv(q)
  BY DEF NodeInv
<1>2. q1 = [i \in DOMAIN q |-> q1[i]] /\ DOMAIN q1 = DOMAIN q
  BY DEF ExpireLeases
<1>3. ASSUME NEW i \in DOMAIN q
      PROVE  /\ RowStep(q[i], q1[i]) /\ q1[i].attempts = q[i].attempts
             /\ q1[i].status = "applied" => q[i].status = "applied"
  <2>1. q[i] \in Row /\ RowInv(q[i])
    BY <1>1, RowsOf DEF TableInv
  <2>2. CASE q[i].status = "claimed" /\ q[i].stale
    <3>1. PICK st \in {"failed", "pending"} :
            st = IF q[i].attempts >= q[i].max THEN "failed" ELSE "pending"
      OBVIOUS
    <3>2. q1[i] = Write(q[i], st, FALSE)
      BY <2>2, <3>1 DEF ExpireLeases
    <3>3. /\ st \in Statuses /\ (st \in Active => q[i].status \in Active)
          /\ st = "failed" => q[i].attempts >= q[i].max
          /\ q[i].attempts = 0 => st \in {"pending", "superseded", "deleted"}
      BY <2>1, <2>2, <3>1 DEF RowInv, Statuses, Active
    <3>4. /\ RowStep(q[i], Write(q[i], st, FALSE))
          /\ Write(q[i], st, FALSE).status = st
          /\ Write(q[i], st, FALSE).attempts = q[i].attempts
      BY <2>1, <3>3, WriteStep, Zenon
    <3>5. /\ RowStep(q[i], q1[i]) /\ q1[i].status = st
          /\ q1[i].attempts = q[i].attempts
      BY <3>2, <3>4
    <3> QED BY <3>1, <3>5
  <2>3. CASE ~(q[i].status = "claimed" /\ q[i].stale)
    <3>1. q1[i] = q[i]
      BY <2>3 DEF ExpireLeases
    <3> QED BY <2>1, <3>1, RowStays
  <2> QED BY <2>2, <2>3
<1> HIDE DEF q1
<1>4. NodeInv(q1, o, l, h)
  BY <1>2, <1>3, RowWiseNode
<1>5. \A i \in DOMAIN q1 : q1[i].type \notin ProxyTypes
  BY <1>4 DEF NodeInv, TableInv, RowInv, LifecycleTypes, ProxyTypes
<1>6. q2 = q1
  <2>1. q2 = [i \in DOMAIN q1 |-> q1[i]]
    BY <1>5 DEF ExpireProxies
  <2> QED BY <1>2, <2>1
<1>7. q2 = Expire(q)
  BY DEF q1, Expire
<1> QED BY <1>2, <1>4, <1>6, <1>7

\* One row takes a RowStep.
LEMMA OneRowNode ==
  ASSUME NEW q, NEW o, NEW l, NEW h, NodeInv(q, o, l, h),
         NEW i \in DOMAIN q, NEW r, RowStep(q[i], r),
         r.attempts = q[i].attempts \/ h.step = "idle",
         r.status = "applied" =>
           q[i].status = "applied" \/ Witnessed(q, o, i) \/ HasApplied(h, i)
  PROVE  /\ NodeInv([q EXCEPT ![i] = r], o, l, h)
         /\ DOMAIN [q EXCEPT ![i] = r] = DOMAIN q
<1> DEFINE q2 == [q EXCEPT ![i] = r]
<1>1. q \in Seq(Row) /\ TableInv(q)
  BY DEF NodeInv
<1>2. q2 = [j \in DOMAIN q |-> q2[j]] /\ q2[i] = r
  OBVIOUS
<1>3. ASSUME NEW j \in DOMAIN q
      PROVE  /\ RowStep(q[j], q2[j])
             /\ q2[j].attempts = q[j].attempts \/ h.step = "idle"
             /\ q2[j].status = "applied" =>
                  q[j].status = "applied" \/ Witnessed(q, o, j) \/ HasApplied(h, j)
  <2>1. CASE j = i
    BY <1>2, <2>1
  <2>2. CASE j # i
    <3>1. q2[j] = q[j] /\ q[j] \in Row /\ RowInv(q[j])
      BY <1>1, <2>2, RowsOf DEF TableInv
    <3> QED BY <3>1, RowStays
  <2> QED BY <2>1, <2>2
<1> HIDE DEF q2
<1>4. NodeInv(q2, o, l, h) /\ DOMAIN q2 = DOMAIN q
  BY <1>2, <1>3, RowWiseNode
<1> QED BY <1>4 DEF q2

\* A claim by an idle hostd: an older row of the plane is claimed only if it
\* was retried, and then it answers for itself.
LEMMA ClaimNode ==
  ASSUME NEW q, NEW o, NEW l, NEW h, NodeInv(q, o, l, h), h.step = "idle",
         NEW i \in DOMAIN q, q[i].status = "pending"
  PROVE  NodeInv(ClaimRow(q, i), o, l, [id |-> i, step |-> "claimed"])
<1> DEFINE r == [Write(q[i], "claimed", FALSE) EXCEPT !.attempts = q[i].attempts + 1]
           q2 == [q EXCEPT ![i] = r]
           k == [id |-> i, step |-> "claimed"]
<1>1. q \in Seq(Row) /\ TableInv(q) /\ q[i] \in Row /\ RowInv(q[i])
  BY RowsOf DEF NodeInv, TableInv
<1>2. RowStep(q[i], r) /\ r.status = "claimed" /\ r.attempts > 0
  BY <1>1, ClaimStep
<1>3. q2[i] = r
  BY <1>1
<1> HIDE DEF r
<1>4. NodeInv(q2, o, l, h) /\ DOMAIN q2 = DOMAIN q
  BY <1>2, OneRowNode
<1> HIDE DEF q2
<1>5. q2 \in Seq(Row) /\ TableInv(q2)
  BY <1>4 DEF NodeInv
<1>6. ASSUME NEW j \in DOMAIN q2, Decides(q2, j)
      PROVE  RowIsTrue(q2, o, l, k, j)
  <2>1. RowIsTrue(q2, o, l, h, j)
    BY <1>4, <1>6 DEF NodeInv
  <2>2. ASSUME k.id # j, q2[k.id].plane = q2[j].plane
        PROVE  FALSE
    <3>1. i < j
      BY <1>4, <1>5, <1>6, <2>2, RowsOf DEF Decides, IsLatest
    <3>2. q2[i].max # MaxAttempts
      BY <1>2, <1>3, <1>4, <1>5, <2>2, <3>1 DEF TableInv, Active
    <3> QED BY <1>4, <1>6, <2>2, <3>1, <3>2 DEF Decides
  <2>3. ~HasApplied(k, j)
    BY DEF HasApplied
  <2> QED BY <2>1, <2>2, <2>3 DEF RowIsTrue
<1>7. k \in [id : Nat, step : HostdSteps] /\ k.id \in DOMAIN q2 /\ q2[k.id].attempts > 0
  BY <1>1, <1>2, <1>3, <1>4, RowsOf DEF HostdSteps
<1>8. NodeInv(q2, o, l, k)
  BY <1>4, <1>6, <1>7 DEF NodeInv
<1> QED BY <1>8 DEF r, q2, ClaimRow

\* A transition of the row in work.
LEMMA TransitionNode ==
  ASSUME NEW q, NEW o, NEW l, NEW h, NodeInv(q, o, l, h), NEW i \in DOMAIN q,
         NEW st \in {"applied", "pending", "failed"},
         st = "applied" => HasApplied(h, i),
         st = "failed" => q[i].attempts >= q[i].max
  PROVE  /\ NodeInv(TransitionClaimedHostAssignment(q, i, st, FALSE), o, l, h)
         /\ DOMAIN TransitionClaimedHostAssignment(q, i, st, FALSE) = DOMAIN q
<1>1. q[i] \in Row /\ RowInv(q[i])
  BY RowsOf DEF NodeInv, TableInv
<1>2. CASE q[i].status = "claimed"
  <2>1. /\ st \in Statuses /\ (st \in Active => q[i].status \in Active)
        /\ st = "failed" => q[i].attempts >= q[i].max
        /\ q[i].attempts = 0 => st \in {"pending", "superseded", "deleted"}
    BY <1>1, <1>2 DEF RowInv, Statuses, Active
  <2> DEFINE r == Write(q[i], st, FALSE)
  <2>2. RowStep(q[i], r) /\ r.status = st /\ r.attempts = q[i].attempts
    BY <1>1, <2>1, WriteStep, Zenon
  <2>3. TransitionClaimedHostAssignment(q, i, st, FALSE) = [q EXCEPT ![i] = r]
    BY <1>2 DEF TransitionClaimedHostAssignment
  <2> HIDE DEF r
  <2>4. /\ NodeInv([q EXCEPT ![i] = r], o, l, h)
        /\ DOMAIN [q EXCEPT ![i] = r] = DOMAIN q
    BY <2>2, OneRowNode
  <2> QED BY <2>3, <2>4
<1>3. CASE q[i].status # "claimed"
  BY <1>3 DEF TransitionClaimedHostAssignment
<1> QED BY <1>2, <1>3

\* An operator's retry.
LEMMA RetryNode ==
  ASSUME NEW q, NEW o, NEW l, NEW h, NodeInv(q, o, l, h), NEW i \in DOMAIN q,
         q[i].status = "failed"
  PROVE  NodeInv(RetryFailedHostAssignment(q, i), o, l, h)
<1> DEFINE r == [Write(q[i], "pending", FALSE) EXCEPT
                   !.max = IF q[i].max < q[i].attempts + 1
                           THEN q[i].attempts + 1 ELSE q[i].max]
<1>1. q[i] \in Row /\ RowInv(q[i])
  BY RowsOf DEF NodeInv, TableInv
<1>2. RowStep(q[i], r) /\ r.status = "pending" /\ r.attempts = q[i].attempts
  BY <1>1, RetryStep
<1>3. RetryFailedHostAssignment(q, i) = [q EXCEPT ![i] = r]
  BY DEF RetryFailedHostAssignment
<1> HIDE DEF r
<1>4. NodeInv([q EXCEPT ![i] = r], o, l, h)
  BY <1>2, OneRowNode
<1> QED BY <1>3, <1>4

\* The lease of a row runs out.
LEMMA AgeNode ==
  ASSUME NEW q, NEW o, NEW l, NEW h, NodeInv(q, o, l, h), NEW i \in DOMAIN q
  PROVE  NodeInv(AgeRow(q, i), o, l, h)
<1> DEFINE r == [q[i] EXCEPT !.stale = TRUE]
<1>1. q[i] \in Row /\ RowInv(q[i])
  BY RowsOf DEF NodeInv, TableInv
<1>2. RowStep(q[i], r) /\ r.status = q[i].status /\ r.attempts = q[i].attempts
  BY <1>1, AgeStep
<1>3. AgeRow(q, i) = [q EXCEPT ![i] = r]
  BY DEF AgeRow
<1> HIDE DEF r
<1>4. NodeInv([q EXCEPT ![i] = r], o, l, h)
  BY <1>2, OneRowNode
<1> QED BY <1>3, <1>4

\* hostd forgets its row.
LEMMA IdleNode ==
  ASSUME NEW q, NEW o, NEW l, NEW h, NodeInv(q, o, l, h)
  PROVE  NodeInv(q, o, l, HostdIdle)
<1>1. HostdIdle \in [id : Nat, step : HostdSteps] /\ HostdIdle.step = "idle"
  BY DEF HostdIdle, HostdSteps
<1>2. \A i \in DOMAIN q : Decides(q, i) => RowIsTrue(q, o, l, HostdIdle, i)
  BY <1>1 DEF NodeInv, RowIsTrue, HasApplied
<1> QED BY <1>1, <1>2 DEF NodeInv

\* hostd goes on to a step that claims no work it has not done.
LEMMA GoOnNode ==
  ASSUME NEW q, NEW o, NEW l, NEW h, NodeInv(q, o, l, h), h.step # "idle",
         NEW s \in HostdSteps, s # "idle",
         s \in {"applied", "observed", "converging"} => HasApplied(h, h.id)
  PROVE  NodeInv(q, o, l, [h EXCEPT !.step = s])
<1> DEFINE k == [h EXCEPT !.step = s]
<1>1. k \in [id : Nat, step : HostdSteps] /\ k.step = s /\ k.id = h.id
  BY DEF NodeInv
<1> HIDE DEF k
<1>2. \A i \in DOMAIN q : Decides(q, i) => RowIsTrue(q, o, l, k, i)
  BY <1>1 DEF NodeInv, RowIsTrue, HasApplied
<1>3. NodeInv(q, o, l, k)
  BY <1>1, <1>2 DEF NodeInv
<1> QED BY <1>3 DEF k

\* An observation that says nothing new of applied rows, or the truth.
LEMMA ObserveNode ==
  ASSUME NEW q, NEW o, NEW l, NEW h, NodeInv(q, o, l, h),
         NEW o2 \in Observation,
         o2.status = "applied" /\ o2.plane # NoPlane =>
           \/ o.status = "applied" /\ o.plane = o2.plane /\ o.id = o2.id
           \/ /\ h.step # "idle" /\ HasApplied(h, h.id)
              /\ o2.id = h.id /\ o2.plane = q[h.id].plane
  PROVE  NodeInv(q, o2, l, h)
<1>1. ASSUME NEW i \in DOMAIN q, Decides(q, i)
      PROVE  RowIsTrue(q, o2, l, h, i)
  <2>1. RowIsTrue(q, o, l, h, i)
    BY <1>1 DEF NodeInv
  <2>2. q[i].plane # NoPlane
    BY <1>1, NoPlaneAssumption DEF NodeInv, TableInv, RowInv
  <2>3. Witnessed(q, o2, i) => Witnessed(q, o, i) \/ HasApplied(h, i)
    BY <2>2 DEF Witnessed
  <2> QED BY <2>1, <2>3 DEF RowIsTrue
<1>2. o2.status = "applied" /\ o2.plane # NoPlane =>
        /\ o2.id \in DOMAIN q
        /\ q[o2.id].plane = o2.plane /\ q[o2.id].attempts > 0
  BY DEF NodeInv
<1> QED BY <1>1, <1>2 DEF NodeInv

\* What the work of row r leaves on the node of the row's plane.
Outcome(r) ==
  IF DesiredContent(r.type) = "none" THEN Nothing
  ELSE [content |-> DesiredContent(r.type), generation |-> r.generation]

\* What a row asks for is a local state, and the outcome brings it about.
LEMMA OutcomeInForce ==
  ASSUME NEW r \in Row
  PROVE  /\ Outcome(r) \in LocalState /\ Outcome(r).generation <= MaxGeneration
         /\ InForce(r, Outcome(r))
<1>1. DesiredContent(r.type) \in Contents
  BY DEF DesiredContent, Contents
<1>2. r.generation \in Nat /\ r.generation <= MaxGeneration
  BY MaxGenerationAssumption DEF Row
<1> QED BY <1>1, <1>2, MaxGenerationAssumption
        DEF Outcome, LocalState, InForce, Nothing, Contents

\* hostd does the work of its row: if the row is not in charge of its plane,
\* the row in charge has not been claimed and promises nothing yet.
LEMMA WorkNode ==
  ASSUME NEW q, NEW o, NEW l, NEW h, NodeInv(q, o, l, h), h.step = "applying"
  PROVE  NodeInv(q, o, [l EXCEPT ![q[h.id].plane] = Outcome(q[h.id])],
                 [h EXCEPT !.step = "applied"])
<1>1. PICK a : a = h.id
  OBVIOUS
<1>2. /\ q \in Seq(Row) /\ TableInv(q) /\ o \in Observation
      /\ l \in [Planes -> LocalState] /\ h \in [id : Nat, step : HostdSteps]
      /\ a \in DOMAIN q /\ q[a].attempts > 0
  BY <1>1 DEF NodeInv
<1>3. q[a] \in Row /\ q[a].plane \in Planes
  BY <1>2, RowsOf DEF TableInv, RowInv
<1> DEFINE l2 == [l EXCEPT ![q[a].plane] = Outcome(q[a])]
           k == [h EXCEPT !.step = "applied"]
<1>4. /\ l2 \in [Planes -> LocalState]
      /\ l2[q[a].plane] = Outcome(q[a])
      /\ \A p \in Planes : p # q[a].plane => l2[p] = l[p]
  BY <1>2, <1>3, OutcomeInForce
<1>5. k \in [id : Nat, step : HostdSteps] /\ k.step = "applied" /\ k.id = a
  BY <1>1, <1>2 DEF HostdSteps
<1> HIDE DEF l2, k
<1>6. \A p \in Planes : l2[p].generation <= MaxGeneration
  BY <1>3, <1>4, OutcomeInForce DEF NodeInv
<1>7. ASSUME NEW i \in DOMAIN q, Decides(q, i)
      PROVE  RowIsTrue(q, o, l2, k, i)
  <2>1. RowIsTrue(q, o, l, h, i) /\ RowInv(q[i])
    BY <1>2, <1>7 DEF NodeInv, TableInv
  <2>2. CASE i = a
    <3>1. InForce(q[i], l2[q[i].plane])
      BY <1>3, <1>4, <2>2, OutcomeInForce
    <3> QED BY <1>5, <2>2, <3>1 DEF RowIsTrue
  <2>3. CASE i # a /\ q[i].plane = q[a].plane
    <3>1. q[i].attempts = 0
      BY <1>1, <2>1, <2>3 DEF RowIsTrue
    <3>2. q[i].status # "applied" /\ q[i].plane # NoPlane
      BY <2>1, <3>1, NoPlaneAssumption DEF RowInv
    <3>3. ~Witnessed(q, o, i)
      BY <3>1, <3>2 DEF Witnessed, NodeInv
    <3>4. ~HasApplied(k, i)
      BY <1>5, <2>3 DEF HasApplied
    <3> QED BY <3>1, <3>2, <3>3, <3>4 DEF RowIsTrue
  <2>4. CASE q[i].plane # q[a].plane
    <3>1. l2[q[i].plane] = l[q[i].plane]
      BY <1>4, <2>1, <2>4 DEF RowInv
    <3>2. ~HasApplied(k, i)
      BY <1>5, <2>4 DEF HasApplied
    <3> QED BY <1>5, <2>1, <2>4, <3>1, <3>2 DEF RowIsTrue
  <2> QED BY <2>2, <2>3, <2>4
<1>8. NodeInv(q, o, l2, k)
  BY <1>2, <1>4, <1>5, <1>6, <1>7 DEF NodeInv
<1> QED BY <1>1, <1>8 DEF l2, k

\* A bounded set of numbers has a largest member.
LEMMA LargestExists ==
  ASSUME NEW b \in Nat, NEW S \in SUBSET (0..b), S # {}
  PROVE  \E g \in S : \A x \in S : x <= g
<1> DEFINE T == {b - x : x \in S}
<1>1. T \subseteq Nat /\ T # {}
  <2>1. ASSUME NEW x \in S PROVE b - x \in Nat
    <3>1. x \in 0..b
      OBVIOUS
    <3> QED BY <3>1
  <2>2. PICK x \in S : TRUE
    OBVIOUS
  <2>3. b - x \in T
    OBVIOUS
  <2> QED BY <2>1, <2>3
<1> DEFINE R == OpToRel(<, Nat)
<1>2. PICK y \in T : \A z \in T : <<z, y>> \notin R
  <2> HIDE DEF T
  <2>1. IsWellFoundedOn(R, Nat)
    BY NatLessThanWellFounded
  <2> HIDE DEF R
  <2> QED BY <1>1, <2>1, WFMin
<1>3. \A z \in T : ~(z < y)
  BY <1>1, <1>2 DEF OpToRel
<1>4. PICK g \in S : y = b - g
  OBVIOUS
<1>5. ASSUME NEW x \in S PROVE x <= g
  <2>1. b - x \in T
    OBVIOUS
  <2>2. ~(b - x < b - g)
    BY <1>3, <1>4, <2>1
  <2>3. x \in 0..b /\ g \in 0..b
    OBVIOUS
  <2> HIDE DEF T, R
  <2> QED BY <2>2, <2>3
<1> QED BY <1>5

-----------------------------------------------------------------------------
(* The actions.                                                            *)

\* What IInv says of a node.
LEMMA NodeOf ==
  ASSUME IInv, NEW n \in Nodes
  PROVE  /\ NodeInv(assignments[n], observed[n], local[n], hostd[n])
         /\ assignments[n] \in Seq(Row) /\ TableInv(assignments[n])
         /\ \A i \in DOMAIN assignments[n] :
              assignments[n][i] \in Row /\ RowInv(assignments[n][i])
         /\ hostd[n] \in [id : Nat, step : HostdSteps]
         /\ observed[n] \in Observation
         /\ local[n] \in [Planes -> LocalState]
<1>1. NodeInv(assignments[n], observed[n], local[n], hostd[n])
  BY DEF IInv, NodesInv
<1> QED BY <1>1, RowsOf DEF NodeInv, TableInv

\* A step that concerns one node.
LEMMA OneNode ==
  ASSUME NEW as, NEW ob, NEW lo, NEW ho, NodesInv(as, ob, lo, ho),
         NEW n \in Nodes, NEW q, NEW o, NEW l, NEW h, NodeInv(q, o, l, h)
  PROVE  NodesInv([as EXCEPT ![n] = q], [ob EXCEPT ![n] = o],
                  [lo EXCEPT ![n] = l], [ho EXCEPT ![n] = h])
<1> DEFINE as2 == [as EXCEPT ![n] = q]
           ob2 == [ob EXCEPT ![n] = o]
           lo2 == [lo EXCEPT ![n] = l]
           ho2 == [ho EXCEPT ![n] = h]
<1>1. /\ q \in Seq(Row) /\ o \in Observation /\ l \in [Planes -> LocalState]
      /\ h \in [id : Nat, step : HostdSteps]
  BY DEF NodeInv
<1>2. /\ as2 \in [Nodes -> Seq(Row)] /\ ob2 \in [Nodes -> Observation]
      /\ lo2 \in [Nodes -> [Planes -> LocalState]]
      /\ ho2 \in [Nodes -> [id : Nat, step : HostdSteps]]
  BY <1>1 DEF NodesInv
<1>3. /\ as2[n] = q /\ ob2[n] = o /\ lo2[n] = l /\ ho2[n] = h
      /\ \A m \in Nodes : m # n =>
           as2[m] = as[m] /\ ob2[m] = ob[m] /\ lo2[m] = lo[m] /\ ho2[m] = ho[m]
  BY DEF NodesInv
<1> HIDE DEF as2, ob2, lo2, ho2
<1>4. \A m \in Nodes : NodeInv(as2[m], ob2[m], lo2[m], ho2[m])
  BY <1>3 DEF NodesInv
<1>5. NodesInv(as2, ob2, lo2, ho2)
  BY <1>2, <1>4 DEF NodesInv
<1> QED BY <1>5 DEF as2, ob2, lo2, ho2

\* The other nodes stay as they are.
OnlyNode(n) ==
  /\ assignments' = [assignments EXCEPT ![n] = assignments'[n]]
  /\ observed' = [observed EXCEPT ![n] = observed'[n]]
  /\ local' = [local EXCEPT ![n] = local'[n]]
  /\ hostd' = [hostd EXCEPT ![n] = hostd'[n]]

\* The same with the variables.
LEMMA NodeStep ==
  ASSUME IInv, NEW n \in Nodes, OnlyNode(n),
         NodeInv(assignments'[n], observed'[n], local'[n], hostd'[n])
  PROVE  NodesInv(assignments, observed, local, hostd)'
<1>1. NodesInv(assignments, observed, local, hostd)
  BY DEF IInv
<1>2. NodesInv([assignments EXCEPT ![n] = assignments'[n]],
               [observed EXCEPT ![n] = observed'[n]],
               [local EXCEPT ![n] = local'[n]], [hostd EXCEPT ![n] = hostd'[n]])
  BY <1>1, OneNode
<1>3. NodesInv(assignments', observed', local', hostd')
  BY <1>2 DEF OnlyNode
<1> QED BY <1>3

\* What a step of the commands leaves alone, and what one of hostd does.
NodesStay == UNCHANGED <<assignments, observed, local, hostd>>
PlanesStay == UNCHANGED <<planes, registry, available, op>>

\* A step of hostd keeps what holds of the planes and the commands.
LEMMA PlanesStayInv ==
  ASSUME IInv, PlanesStay
  PROVE  PlanesInv'
BY DEF IInv, PlanesInv, StoreInv, OpsInv, PlanesStay, OpInv

\* A step that leaves the nodes alone keeps what holds of them.
LEMMA NodesStayInv ==
  ASSUME IInv, NodesStay
  PROVE  NodesInv(assignments, observed, local, hostd)'
<1>1. NodesInv(assignments', observed', local', hostd')
  BY DEF IInv, NodesStay
<1> QED BY <1>1

\* The copy of the row in work.
LEMMA CopyOf ==
  ASSUME IInv, NEW n \in Nodes, hostd[n].step # "idle"
  PROVE  /\ hostd[n].id \in DOMAIN assignments[n]
         /\ Copy(n) = assignments[n][hostd[n].id]
         /\ Copy(n) \in Row /\ RowInv(Copy(n))
<1>1. NodeInv(assignments[n], observed[n], local[n], hostd[n])
  BY NodeOf
<1>2. hostd[n].id \in DOMAIN assignments[n]
  BY <1>1 DEF NodeInv
<1> QED BY <1>2, NodeOf DEF Copy

\* Writing one node, or nothing, leaves the other nodes alone.
LEMMA OneNodeWritten ==
  ASSUME IInv, NEW n \in Nodes,
         \/ assignments' = assignments
         \/ \E x : assignments' = [assignments EXCEPT ![n] = x],
         observed' = observed \/ \E x : observed' = [observed EXCEPT ![n] = x],
         local' = local \/ \E x : local' = [local EXCEPT ![n] = x],
         hostd' = hostd \/ \E x : hostd' = [hostd EXCEPT ![n] = x]
  PROVE  OnlyNode(n)
<1>1. /\ DOMAIN assignments = Nodes /\ DOMAIN observed = Nodes
      /\ DOMAIN local = Nodes /\ DOMAIN hostd = Nodes
  BY DEF IInv, NodesInv
<1>2. assignments' = [assignments EXCEPT ![n] = assignments'[n]]
  BY <1>1 DEF IInv, NodesInv
<1>3. observed' = [observed EXCEPT ![n] = observed'[n]]
  BY <1>1 DEF IInv, NodesInv
<1>4. local' = [local EXCEPT ![n] = local'[n]]
  BY <1>1 DEF IInv, NodesInv
<1>5. hostd' = [hostd EXCEPT ![n] = hostd'[n]]
  BY <1>1 DEF IInv, NodesInv
<1> QED BY <1>2, <1>3, <1>4, <1>5 DEF OnlyNode

\* ClaimNextAssignment keeps the invariant.
LEMMA ClaimInv ==
  ASSUME IInv, NEW n \in Nodes, NEW i \in DOMAIN assignments[n],
         ClaimNextAssignment(n, i)
  PROVE  IInv'
<1> DEFINE q == Expire(assignments[n])
<1>1. NodeInv(q, observed[n], local[n], hostd[n])
  BY NodeOf, ExpireNode
<1>2. /\ i \in DOMAIN q /\ q[i].status = "pending" /\ hostd[n].step = "idle"
      /\ assignments' = [assignments EXCEPT ![n] = ClaimRow(q, i)]
      /\ hostd' = [hostd EXCEPT ![n] = [id |-> i, step |-> "claimed"]]
      /\ observed' = observed /\ local' = local
  BY DEF ClaimNextAssignment, ClaimedFirst, Claimable
<1> HIDE DEF q
<1>3. NodeInv(ClaimRow(q, i), observed[n], local[n], [id |-> i, step |-> "claimed"])
  BY <1>1, <1>2, ClaimNode
<1>4. NodesInv(assignments, observed, local, hostd)'
  <2>1. OnlyNode(n)
    BY <1>2, OneNodeWritten
  <2>2. /\ assignments'[n] = ClaimRow(q, i)
        /\ observed'[n] = observed[n]
        /\ local'[n] = local[n]
        /\ hostd'[n] = [id |-> i, step |-> "claimed"]
    BY <1>2 DEF IInv, NodesInv
  <2> QED BY <1>3, <2>1, <2>2, NodeStep
<1>5. PlanesInv'
  BY PlanesStayInv DEF ClaimNextAssignment, PlanesStay
<1> QED BY <1>4, <1>5 DEF IInv

\* ExpireLeasesOnly keeps the invariant.
LEMMA ExpireInv ==
  ASSUME IInv, NEW n \in Nodes, ExpireLeasesOnly(n)
  PROVE  IInv'
<1> DEFINE q == Expire(assignments[n])
<1>1. NodeInv(q, observed[n], local[n], hostd[n])
  BY NodeOf, ExpireNode
<1>2. /\ assignments' = [assignments EXCEPT ![n] = q]
      /\ observed' = observed /\ local' = local /\ hostd' = hostd
  BY DEF ExpireLeasesOnly
<1> HIDE DEF q
<1>3. NodesInv(assignments, observed, local, hostd)'
  <2>1. OnlyNode(n)
    BY <1>2, OneNodeWritten
  <2>2. /\ assignments'[n] = q
        /\ observed'[n] = observed[n]
        /\ local'[n] = local[n]
        /\ hostd'[n] = hostd[n]
    BY <1>2 DEF IInv, NodesInv
  <2> QED BY <1>1, <2>1, <2>2, NodeStep
<1>4. PlanesInv'
  BY PlanesStayInv DEF ExpireLeasesOnly, PlanesStay
<1> QED BY <1>3, <1>4 DEF IInv

\* What the controller holds of a node is an observation, and of an applied
\* row only if hostd has done the row's work.
LEMMA ReportOf ==
  ASSUME IInv, NEW n \in Nodes, hostd[n].step # "idle",
         NEW st \in {"applying", "applied", "failed"},
         ReportAssignment(n, st),
         st = "applied" => HasApplied(hostd[n], hostd[n].id)
  PROVE  \E o \in Observation :
           /\ observed' = [observed EXCEPT ![n] = o]
           /\ NodeInv(assignments[n], o, local[n], hostd[n])
<1>0. NodeInv(assignments[n], observed[n], local[n], hostd[n]) /\ observed[n] \in Observation
  BY NodeOf
<1>1. CASE observed' = observed
  <2>1. observed' = [observed EXCEPT ![n] = observed[n]]
    BY <1>1 DEF IInv, NodesInv
  <2> QED BY <1>0, <2>1
<1>2. CASE observed' # observed
  <2>1. PICK g \in Nat : g = IF st = "applied" THEN Copy(n).generation ELSE 0
    BY CopyOf, MaxGenerationAssumption DEF Row
  <2> DEFINE o == [status |-> st, plane |-> Copy(n).plane, id |-> hostd[n].id,
                   generation |-> g, content |-> LocalContent(n)]
  <2>2. observed' = [observed EXCEPT ![n] = o]
    BY <1>2, <2>1 DEF ReportAssignment
  <2>3. LocalContent(n) \in [Planes -> Contents]
    BY NodeOf DEF LocalContent, LocalState
  <2>4. hostd[n].id \in Nat
    BY NodeOf
  <2>5. Copy(n).plane \in Planes /\ Copy(n).plane = assignments[n][hostd[n].id].plane
    BY CopyOf DEF RowInv
  <2>6. /\ o \in Observation /\ o.status = st /\ o.id = hostd[n].id
        /\ o.plane = assignments[n][hostd[n].id].plane
    BY <2>3, <2>4, <2>5 DEF Observation
  <2> HIDE DEF o
  <2>7. NodeInv(assignments[n], o, local[n], hostd[n])
    BY <1>0, <2>6, ObserveNode
  <2> QED BY <2>2, <2>6, <2>7
<1> QED BY <1>1, <1>2

\* ReportApplying keeps the invariant.
LEMMA ReportApplyingInv ==
  ASSUME IInv, NEW n \in Nodes, ReportApplying(n)
  PROVE  IInv'
<1>1. /\ hostd[n].step = "claimed" /\ ReportAssignment(n, "applying")
      /\ hostd' = [hostd EXCEPT ![n].step = "applying"]
      /\ assignments' = assignments /\ local' = local
  BY DEF ReportApplying
<1>2. PICK o \in Observation :
        /\ observed' = [observed EXCEPT ![n] = o]
        /\ NodeInv(assignments[n], o, local[n], hostd[n])
  BY <1>1, ReportOf
<1>3. NodeInv(assignments[n], o, local[n], [hostd[n] EXCEPT !.step = "applying"])
  BY <1>1, <1>2, GoOnNode DEF HostdSteps
<1>4. hostd' = [hostd EXCEPT ![n] = [hostd[n] EXCEPT !.step = "applying"]]
  BY <1>1
<1>5. NodesInv(assignments, observed, local, hostd)'
  <2>1. OnlyNode(n)
    BY <1>1, <1>2, <1>4, OneNodeWritten
  <2>2. /\ assignments'[n] = assignments[n]
        /\ observed'[n] = o
        /\ local'[n] = local[n]
        /\ hostd'[n] = [hostd[n] EXCEPT !.step = "applying"]
    BY <1>1, <1>2, <1>4 DEF IInv, NodesInv
  <2> QED BY <1>3, <2>1, <2>2, NodeStep
<1>6. PlanesInv'
  BY PlanesStayInv DEF ReportApplying, PlanesStay
<1> QED BY <1>5, <1>6 DEF IInv

\* ReportApplied keeps the invariant.
LEMMA ReportAppliedInv ==
  ASSUME IInv, NEW n \in Nodes, ReportApplied(n)
  PROVE  IInv'
<1>1. /\ hostd[n].step = "applied" /\ ReportAssignment(n, "applied")
      /\ hostd' = [hostd EXCEPT ![n].step = "observed"]
      /\ assignments' = assignments /\ local' = local
  BY DEF ReportApplied
<1>2. HasApplied(hostd[n], hostd[n].id)
  BY <1>1 DEF HasApplied
<1>3. PICK o \in Observation :
        /\ observed' = [observed EXCEPT ![n] = o]
        /\ NodeInv(assignments[n], o, local[n], hostd[n])
  BY <1>1, <1>2, ReportOf
<1>4. NodeInv(assignments[n], o, local[n], [hostd[n] EXCEPT !.step = "observed"])
  BY <1>1, <1>2, <1>3, GoOnNode DEF HostdSteps
<1>5. hostd' = [hostd EXCEPT ![n] = [hostd[n] EXCEPT !.step = "observed"]]
  BY <1>1
<1>6. NodesInv(assignments, observed, local, hostd)'
  <2>1. OnlyNode(n)
    BY <1>1, <1>3, <1>5, OneNodeWritten
  <2>2. /\ assignments'[n] = assignments[n]
        /\ observed'[n] = o
        /\ local'[n] = local[n]
        /\ hostd'[n] = [hostd[n] EXCEPT !.step = "observed"]
    BY <1>1, <1>3, <1>5 DEF IInv, NodesInv
  <2> QED BY <1>4, <2>1, <2>2, NodeStep
<1>7. PlanesInv'
  BY PlanesStayInv DEF ReportApplied, PlanesStay
<1> QED BY <1>6, <1>7 DEF IInv

\* ApplyDesiredNodeState keeps the invariant.
LEMMA WorkInv ==
  ASSUME IInv, NEW n \in Nodes, ApplyDesiredNodeState(n)
  PROVE  IInv'
<1> DEFINE l == [local[n] EXCEPT ![Copy(n).plane] = Outcome(Copy(n))]
<1>1. /\ hostd[n].step = "applying"
      /\ local' = [local EXCEPT ![n][Copy(n).plane] = Outcome(Copy(n))]
      /\ hostd' = [hostd EXCEPT ![n].step = "applied"]
      /\ assignments' = assignments /\ observed' = observed
  BY DEF ApplyDesiredNodeState, Outcome
<1>2. local' = [local EXCEPT ![n] = l]
  BY <1>1
<1>3. hostd' = [hostd EXCEPT ![n] = [hostd[n] EXCEPT !.step = "applied"]]
  BY <1>1
<1>4. NodeInv(assignments[n], observed[n], l, [hostd[n] EXCEPT !.step = "applied"])
  BY <1>1, NodeOf, WorkNode DEF Copy
<1> HIDE DEF l
<1>5. NodesInv(assignments, observed, local, hostd)'
  <2>1. OnlyNode(n)
    BY <1>1, <1>2, <1>3, OneNodeWritten
  <2>2. /\ assignments'[n] = assignments[n]
        /\ observed'[n] = observed[n]
        /\ local'[n] = l
        /\ hostd'[n] = [hostd[n] EXCEPT !.step = "applied"]
    BY <1>1, <1>2, <1>3 DEF IInv, NodesInv
  <2> QED BY <1>4, <2>1, <2>2, NodeStep
<1>6. PlanesInv'
  BY PlanesStayInv DEF ApplyDesiredNodeState, PlanesStay
<1> QED BY <1>5, <1>6 DEF IInv

\* TransitionApplied keeps the invariant.
LEMMA TransitionAppliedInv ==
  ASSUME IInv, NEW n \in Nodes, TransitionApplied(n)
  PROVE  IInv'
<1> DEFINE q2 == TransitionClaimedHostAssignment(assignments[n], hostd[n].id, "applied", FALSE)
<1>1. /\ hostd[n].step = "observed"
      /\ assignments' = [assignments EXCEPT ![n] = q2]
      /\ local' = local
  BY DEF TransitionApplied
<1>2. HasApplied(hostd[n], hostd[n].id) /\ hostd[n].id \in DOMAIN assignments[n]
  BY <1>1, CopyOf DEF HasApplied
<1>3. \E o \in Observation :
        /\ observed' = observed \/ observed' = [observed EXCEPT ![n] = o]
        /\ observed'[n] = o
        /\ NodeInv(assignments[n], o, local[n], hostd[n])
  <2>1. CASE Copy(n).status = "deleted"
    <3>1. ReportAssignment(n, "failed")
      BY <2>1 DEF TransitionApplied
    <3>2. PICK o \in Observation :
            /\ observed' = [observed EXCEPT ![n] = o]
            /\ NodeInv(assignments[n], o, local[n], hostd[n])
      BY <1>1, <3>1, ReportOf
    <3>3. observed'[n] = o
      BY <3>2 DEF IInv, NodesInv
    <3> QED BY <3>2, <3>3
  <2>2. CASE Copy(n).status # "deleted"
    <3>1. observed' = observed
      BY <2>2 DEF TransitionApplied
    <3> QED BY <3>1, NodeOf
  <2> QED BY <2>1, <2>2
<1>4. PICK o \in Observation :
        /\ observed' = observed \/ observed' = [observed EXCEPT ![n] = o]
        /\ observed'[n] = o
        /\ NodeInv(assignments[n], o, local[n], hostd[n])
  BY <1>3
<1>5. NodeInv(q2, o, local[n], hostd[n])
  BY <1>2, <1>4, TransitionNode
<1> HIDE DEF q2
<1>6. \E h : hostd' = [hostd EXCEPT ![n] = h] /\ NodeInv(q2, o, local[n], h)
  <2>1. CASE Copy(n).status = "claimed" /\ Copy(n).type = "apply-node-state"
    <3>1. hostd' = [hostd EXCEPT ![n] = [hostd[n] EXCEPT !.step = "converging"]]
      BY <2>1 DEF TransitionApplied
    <3>2. NodeInv(q2, o, local[n], [hostd[n] EXCEPT !.step = "converging"])
      BY <1>1, <1>2, <1>5, GoOnNode DEF HostdSteps
    <3> QED BY <3>1, <3>2
  <2>2. CASE ~(Copy(n).status = "claimed" /\ Copy(n).type = "apply-node-state")
    <3>1. hostd' = [hostd EXCEPT ![n] = HostdIdle]
      BY <2>2 DEF TransitionApplied
    <3>2. NodeInv(q2, o, local[n], HostdIdle)
      BY <1>5, IdleNode
    <3> QED BY <3>1, <3>2
  <2> QED BY <2>1, <2>2
<1>7. PICK h : hostd' = [hostd EXCEPT ![n] = h] /\ NodeInv(q2, o, local[n], h)
  BY <1>6
<1>8. NodesInv(assignments, observed, local, hostd)'
  <2>1. OnlyNode(n)
    BY <1>1, <1>4, <1>7, OneNodeWritten
  <2>2. /\ assignments'[n] = q2 /\ observed'[n] = o /\ local'[n] = local[n]
        /\ hostd'[n] = h
    BY <1>1, <1>4, <1>7 DEF IInv, NodesInv
  <2> QED BY <1>7, <2>1, <2>2, NodeStep
<1>9. PlanesInv'
  BY PlanesStayInv DEF TransitionApplied, PlanesStay
<1> QED BY <1>8, <1>9 DEF IInv

\* FailAssignment keeps the invariant.
LEMMA FailInv ==
  ASSUME IInv, NEW n \in Nodes, FailAssignment(n)
  PROVE  IInv'
<1>1. PICK st \in {"pending", "failed"} :
        st = IF Copy(n).attempts < Copy(n).max THEN "pending" ELSE "failed"
  OBVIOUS
<1> DEFINE q2 == TransitionClaimedHostAssignment(assignments[n], hostd[n].id, st, FALSE)
<1>2. /\ hostd[n].step # "idle"
      /\ assignments' = [assignments EXCEPT ![n] = q2]
      /\ hostd' = [hostd EXCEPT ![n] = HostdIdle]
      /\ ReportAssignment(n, "failed")
      /\ local' = local
  BY <1>1 DEF FailAssignment
<1>3. /\ hostd[n].id \in DOMAIN assignments[n]
      /\ st = "failed" =>
           assignments[n][hostd[n].id].attempts >= assignments[n][hostd[n].id].max
  <2>1. Copy(n).attempts \in Nat /\ Copy(n).max \in Nat
    BY <1>2, CopyOf DEF Row
  <2>2. st = "failed" => Copy(n).attempts >= Copy(n).max
    BY <1>1, <2>1
  <2> QED BY <1>2, <2>2, CopyOf
<1>4. PICK o \in Observation :
        /\ observed' = [observed EXCEPT ![n] = o]
        /\ NodeInv(assignments[n], o, local[n], hostd[n])
  BY <1>2, ReportOf
<1>5. NodeInv(q2, o, local[n], hostd[n])
  BY <1>3, <1>4, TransitionNode
<1> HIDE DEF q2
<1>6. NodeInv(q2, o, local[n], HostdIdle)
  BY <1>5, IdleNode
<1>7. NodesInv(assignments, observed, local, hostd)'
  <2>1. OnlyNode(n)
    BY <1>2, <1>4, OneNodeWritten
  <2>2. /\ assignments'[n] = q2 /\ observed'[n] = o /\ local'[n] = local[n]
        /\ hostd'[n] = HostdIdle
    BY <1>2, <1>4 DEF IInv, NodesInv
  <2> QED BY <1>6, <2>1, <2>2, NodeStep
<1>8. PlanesInv'
  BY PlanesStayInv DEF FailAssignment, PlanesStay
<1> QED BY <1>7, <1>8 DEF IInv

\* Crash keeps the invariant.
LEMMA CrashInv ==
  ASSUME IInv, NEW n \in Nodes, Crash(n)
  PROVE  IInv'
<1>1. /\ hostd[n].step # "idle"
      /\ hostd' = [hostd EXCEPT ![n] = HostdIdle]
      /\ observed' = observed /\ local' = local
  BY DEF Crash
<1>2. \E q : assignments' = [assignments EXCEPT ![n] = q]
             /\ NodeInv(q, observed[n], local[n], hostd[n])
  <2>1. CASE Copy(n).status = "claimed"
    <3>1. assignments' = [assignments EXCEPT ![n] = AgeRow(assignments[n], hostd[n].id)]
      BY <2>1 DEF Crash
    <3>2. NodeInv(AgeRow(assignments[n], hostd[n].id), observed[n], local[n], hostd[n])
      BY <1>1, CopyOf, NodeOf, AgeNode
    <3> QED BY <3>1, <3>2
  <2>2. CASE Copy(n).status # "claimed"
    <3>1. assignments' = [assignments EXCEPT ![n] = assignments[n]]
      BY <2>2 DEF Crash
    <3> QED BY <3>1, NodeOf
  <2> QED BY <2>1, <2>2
<1>3. PICK q : assignments' = [assignments EXCEPT ![n] = q]
               /\ NodeInv(q, observed[n], local[n], hostd[n])
  BY <1>2
<1>4. NodeInv(q, observed[n], local[n], HostdIdle)
  BY <1>3, IdleNode
<1>5. NodesInv(assignments, observed, local, hostd)'
  <2>1. OnlyNode(n)
    BY <1>1, <1>3, OneNodeWritten
  <2>2. /\ assignments'[n] = q /\ observed'[n] = observed[n]
        /\ local'[n] = local[n] /\ hostd'[n] = HostdIdle
    BY <1>1, <1>3 DEF IInv, NodesInv
  <2> QED BY <1>4, <2>1, <2>2, NodeStep
<1>6. PlanesInv'
  BY PlanesStayInv DEF Crash, PlanesStay
<1> QED BY <1>5, <1>6 DEF IInv

\* RewriteAggregateLocalGeneration finds a generation.
LEMMA AggregateIsGeneration ==
  ASSUME IInv, NEW n \in Nodes
  PROVE  AggregateGeneration(n) \in Nat
<1>1. CASE LocalPlanes(n) = {}
  BY <1>1 DEF AggregateGeneration
<1>2. CASE LocalPlanes(n) # {}
  <2> DEFINE S == {local[n][p].generation : p \in LocalPlanes(n)}
  <2>1. ASSUME NEW p \in LocalPlanes(n)
        PROVE  local[n][p].generation \in 0..MaxGeneration
    <3>1. p \in Planes
      BY DEF LocalPlanes
    <3>2. local[n][p].generation \in Nat
      BY <3>1, NodeOf DEF LocalState
    <3>3. local[n][p].generation <= MaxGeneration
      BY <3>1, NodeOf DEF NodeInv
    <3> QED BY <3>2, <3>3, MaxGenerationAssumption
  <2>2. S \in SUBSET (0..MaxGeneration)
    BY <2>1
  <2>3. S # {}
    BY <1>2
  <2>4. \E g \in S : \A x \in S : x <= g
    <3> HIDE DEF S
    <3> QED BY <2>2, <2>3, LargestExists, MaxGenerationAssumption
  <2>5. \E g \in S : \A p \in LocalPlanes(n) : local[n][p].generation <= g
    BY <2>4
  <2>6. AggregateGeneration(n) =
          CHOOSE g \in S : \A p \in LocalPlanes(n) : local[n][p].generation <= g
    BY <1>2 DEF AggregateGeneration
  <2> HIDE DEF S
  <2>7. AggregateGeneration(n) \in S
    BY <2>5, <2>6
  <2>8. AggregateGeneration(n) \in 0..MaxGeneration
    BY <2>2, <2>7
  <2> QED BY <2>8, MaxGenerationAssumption
<1> QED BY <1>1, <1>2

\* ReportLocalObservedState keeps the invariant.
LEMMA ReportLocalInv ==
  ASSUME IInv, NEW n \in Nodes, ReportLocalObservedState(n)
  PROVE  IInv'
<1>1. PICK g \in Nat : g = AggregateGeneration(n)
  BY AggregateIsGeneration
<1>2. PICK p \in Planes \cup {NoPlane} :
        p = IF Cardinality(LocalPlanes(n)) = 1
            THEN CHOOSE x \in LocalPlanes(n) : TRUE ELSE NoPlane
  <2>1. CASE Cardinality(LocalPlanes(n)) = 1
    <3>1. LocalPlanes(n) # {}
      BY <2>1, FS_EmptySet
    <3>2. (CHOOSE x \in LocalPlanes(n) : TRUE) \in Planes
      BY <3>1 DEF LocalPlanes
    <3> QED BY <2>1, <3>2
  <2>2. CASE Cardinality(LocalPlanes(n)) # 1
    BY <2>2
  <2> QED BY <2>1, <2>2
<1>3. PICK c \in [Planes -> Contents] : c = LocalContent(n)
  BY NodeOf DEF LocalContent, LocalState
<1> DEFINE o == [status |-> "idle", id |-> 0, generation |-> g, plane |-> p, content |-> c]
<1>4. /\ observed' = [observed EXCEPT ![n] = o]
      /\ assignments' = assignments /\ local' = local /\ hostd' = hostd
  BY <1>1, <1>2, <1>3 DEF ReportLocalObservedState
<1>5. o \in Observation /\ o.status = "idle"
  BY DEF Observation
<1> HIDE DEF o
<1>6. NodeInv(assignments[n], o, local[n], hostd[n])
  BY <1>5, NodeOf, ObserveNode
<1>7. NodesInv(assignments, observed, local, hostd)'
  <2>1. OnlyNode(n)
    BY <1>4, OneNodeWritten
  <2>2. /\ assignments'[n] = assignments[n] /\ observed'[n] = o
        /\ local'[n] = local[n] /\ hostd'[n] = hostd[n]
    BY <1>4 DEF IInv, NodesInv
  <2> QED BY <1>6, <2>1, <2>2, NodeStep
<1>8. PlanesInv'
  BY PlanesStayInv DEF ReportLocalObservedState, PlanesStay
<1> QED BY <1>7, <1>8 DEF IInv

\* RetryHostAssignment keeps the invariant.
LEMMA RetryInv ==
  ASSUME IInv, NEW n \in Nodes, NEW i \in DOMAIN assignments[n],
         RetryHostAssignment(n, i)
  PROVE  IInv'
<1> DEFINE q == RetryFailedHostAssignment(assignments[n], i)
<1>1. /\ assignments[n][i].status = "failed"
      /\ assignments' = [assignments EXCEPT ![n] = q]
      /\ observed' = observed /\ local' = local /\ hostd' = hostd
  BY DEF RetryHostAssignment
<1>2. NodeInv(q, observed[n], local[n], hostd[n])
  BY <1>1, NodeOf, RetryNode
<1> HIDE DEF q
<1>3. NodesInv(assignments, observed, local, hostd)'
  <2>1. OnlyNode(n)
    BY <1>1, OneNodeWritten
  <2>2. /\ assignments'[n] = q /\ observed'[n] = observed[n]
        /\ local'[n] = local[n] /\ hostd'[n] = hostd[n]
    BY <1>1 DEF IInv, NodesInv
  <2> QED BY <1>2, <2>1, <2>2, NodeStep
<1>4. PlanesInv'
  BY PlanesStayInv DEF RetryHostAssignment, PlanesStay
<1> QED BY <1>3, <1>4 DEF IInv

\* A step that writes the tables of all nodes.
LEMMA AllNodes ==
  ASSUME IInv, assignments' = [n \in Nodes |-> assignments'[n]],
         observed' = [n \in Nodes |-> observed'[n]],
         local' = local, hostd' = hostd,
         \A n \in Nodes : NodeInv(assignments'[n], observed'[n], local[n], hostd[n])
  PROVE  NodesInv(assignments, observed, local, hostd)'
<1>1. /\ local' \in [Nodes -> [Planes -> LocalState]]
      /\ hostd' \in [Nodes -> [id : Nat, step : HostdSteps]]
  BY DEF IInv, NodesInv
<1>2. \A n \in Nodes : assignments'[n] \in Seq(Row) /\ observed'[n] \in Observation
  BY DEF NodeInv
<1>3. assignments' \in [Nodes -> Seq(Row)] /\ observed' \in [Nodes -> Observation]
  BY <1>2
<1>4. \A n \in Nodes : NodeInv(assignments'[n], observed'[n], local'[n], hostd'[n])
  OBVIOUS
<1>5. NodesInv(assignments', observed', local', hostd')
  BY <1>1, <1>3, <1>4 DEF NodesInv
<1> QED BY <1>5

\* Reconciling the claimed rows of a plane: the observation that makes a row
\* applied names this row, for it names a row of the plane and none is newer.
LEMMA ReconcileNodes ==
  ASSUME IInv, NEW p, Reconcile(p), UNCHANGED <<observed, local, hostd>>
  PROVE  NodesInv(assignments, observed, local, hostd)'
<1>1. ASSUME NEW n \in Nodes
      PROVE  NodeInv(assignments'[n], observed[n], local[n], hostd[n])
  <2>1. PICK q : q = assignments[n]
    OBVIOUS
  <2>2. PICK q2 : q2 = assignments'[n]
    OBVIOUS
  <2>3. /\ q2 = [i \in DOMAIN q |-> q2[i]]
        /\ \A i \in DOMAIN q :
             q2[i] = IF q[i].plane = p /\ q[i].status = "claimed"
                        /\ q[i].type = "apply-node-state"
                     THEN ReconcileRow(n, i) ELSE q[i]
    BY <2>1, <2>2 DEF Reconcile
  <2>4. ASSUME NEW i \in DOMAIN q
        PROVE  /\ RowStep(q[i], q2[i]) /\ q2[i].attempts = q[i].attempts
               /\ q2[i].status = "applied" =>
                    q[i].status = "applied" \/ Witnessed(q, observed[n], i)
    <3>1. q[i] \in Row /\ RowInv(q[i]) /\ i \in Nat
      BY <2>1, NodeOf, RowsOf
    <3>2. CASE q2[i] = q[i]
      BY <3>1, <3>2, RowStays
    <3>3. CASE q[i].status = "claimed" /\ q2[i] = Write(q[i], "superseded", FALSE)
      <4>1. "superseded" \in Statuses /\ "superseded" \notin Active
        BY DEF Statuses, Active
      <4>2. /\ RowStep(q[i], Write(q[i], "superseded", FALSE))
            /\ Write(q[i], "superseded", FALSE).status = "superseded"
            /\ Write(q[i], "superseded", FALSE).attempts = q[i].attempts
        BY <3>1, <4>1, WriteStep
      <4> QED BY <3>3, <4>2
    <3>4. CASE /\ q[i].status = "claimed" /\ q2[i] = Write(q[i], "applied", FALSE)
               /\ IsLatest(q, i) /\ ObservedAsApplied(n, i)
      <4>1. q[i].attempts # 0
        BY <3>1, <3>4 DEF RowInv
      <4>0. "applied" \in Statuses /\ "applied" \notin Active
        BY DEF Statuses, Active
      <4>2. /\ RowStep(q[i], Write(q[i], "applied", FALSE))
            /\ Write(q[i], "applied", FALSE).attempts = q[i].attempts
        BY <3>1, <4>0, <4>1, WriteStep
      <4>3. /\ observed[n].plane = q[i].plane /\ observed[n].status = "applied"
            /\ observed[n].id >= i
        BY <2>1, <3>4 DEF ObservedAsApplied
      <4>4. observed[n].plane # NoPlane
        BY <3>1, <4>3, NoPlaneAssumption DEF RowInv
      <4>5. observed[n].id \in DOMAIN q /\ q[observed[n].id].plane = q[i].plane
        BY <2>1, <4>3, <4>4, NodeOf DEF NodeInv
      <4>6. observed[n].id <= i /\ observed[n].id \in Nat
        BY <2>1, <3>4, <4>5, NodeOf, RowsOf DEF IsLatest
      <4>7. observed[n].id = i
        BY <3>1, <4>3, <4>6
      <4> QED BY <3>4, <4>2, <4>3, <4>7 DEF Witnessed
    <3> QED BY <2>1, <2>3, <3>2, <3>3, <3>4 DEF ReconcileRow
  <2>5. NodeInv(q, observed[n], local[n], hostd[n])
    BY <2>1, NodeOf
  <2>6. NodeInv(q2, observed[n], local[n], hostd[n])
    BY <2>3, <2>4, <2>5, RowWiseNode
  <2> QED BY <2>2, <2>6
<1>2. assignments' = [n \in Nodes |-> assignments'[n]]
  BY DEF Reconcile
<1>3. observed' = [n \in Nodes |-> observed'[n]]
  BY DEF IInv, NodesInv
<1> QED BY <1>1, <1>2, <1>3, AllNodes

\* Superseding the rows of a plane on all nodes.
LEMMA SupersedeNodes ==
  ASSUME IInv, NEW p, Supersede(p), UNCHANGED <<observed, local, hostd>>
  PROVE  NodesInv(assignments, observed, local, hostd)'
<1>1. ASSUME NEW n \in Nodes
      PROVE  NodeInv(assignments'[n], observed[n], local[n], hostd[n])
  <2>1. assignments'[n] = SupersedeAll(assignments[n], {p})
    BY DEF Supersede, SupersedePlane, SupersedeAll
  <2>2. NodeInv(SupersedeAll(assignments[n], {p}), observed[n], local[n], hostd[n])
    BY NodeOf, SupersedeNode
  <2> QED BY <2>1, <2>2
<1>2. assignments' = [n \in Nodes |-> assignments'[n]]
  BY DEF Supersede
<1>3. observed' = [n \in Nodes |-> observed'[n]]
  BY DEF IInv, NodesInv
<1> QED BY <1>1, <1>2, <1>3, AllNodes

\* Enqueueing a row for each of some nodes.
LEMMA EnqueueNodes ==
  ASSUME IInv, NEW p \in Planes, NEW g \in 0..MaxGeneration, NEW T,
         \A n \in DOMAIN T : T[n] \in LifecycleTypes,
         Enqueue(p, g, T), UNCHANGED <<observed, local, hostd>>
  PROVE  NodesInv(assignments, observed, local, hostd)'
<1>1. ASSUME NEW n \in Nodes
      PROVE  NodeInv(assignments'[n], observed[n], local[n], hostd[n])
  <2>0. NodeInv(assignments[n], observed[n], local[n], hostd[n])
    BY NodeOf
  <2>1. CASE n \in DOMAIN T
    <3>1. PICK r : r = InsertAssignment(p, g, T[n])
      OBVIOUS
    <3>2. NewRow(r, {p})
      BY <2>1, <3>1, InsertRow DEF NewRow
    <3>3. assignments'[n] = Append(SupersedePlane(assignments[n], p), r)
      BY <2>1, <3>1 DEF Enqueue
    <3>4. NodeInv(Append(SupersedePlane(assignments[n], p), r),
                  observed[n], local[n], hostd[n])
      BY <2>0, <3>2, EnqueueOne
    <3> QED BY <3>3, <3>4
  <2>2. CASE n \notin DOMAIN T
    <3>1. assignments'[n] = assignments[n]
      BY <2>2 DEF Enqueue
    <3> QED BY <2>0, <3>1
  <2> QED BY <2>1, <2>2
<1>2. assignments' = [n \in Nodes |-> assignments'[n]]
  BY DEF Enqueue
<1>3. observed' = [n \in Nodes |-> observed'[n]]
  BY DEF IInv, NodesInv
<1> QED BY <1>1, <1>2, <1>3, AllNodes

\* One new row for each of the planes P.
NewRows(new, P) ==
  /\ new \in Seq(Row)
  /\ \A k \in DOMAIN new :
       /\ NewRow(new[k], P)
       /\ \A j \in DOMAIN new : new[j].plane = new[k].plane => j = k
  /\ \A p \in P : \E k \in DOMAIN new : new[k].plane = p

\* Enqueueing rows of several planes for one node: an order of P that misses no
\* plane repeats none.
LEMMA EnqueueOnNodeRows ==
  ASSUME IInv, NEW n \in Nodes, NEW P \in SUBSET Planes,
         NEW type \in LifecycleTypes, EnqueueOnNode(n, P, type)
  PROVE  \E new \in Seq(Row) :
           /\ NewRows(new, P)
           /\ assignments' =
                [assignments EXCEPT ![n] = SupersedeAll(assignments[n], P) \o new]
<1>1. IsFiniteSet(P) /\ Cardinality(P) \in Nat
  BY PlanesAssumption, FS_Subset, FS_CardinalityType
<1>2. PICK c \in Nat : c = Cardinality(P)
  BY <1>1
<1>3. PICK order \in [1..c -> P] :
        /\ \A p \in P : \E k \in DOMAIN order : order[k] = p
        /\ assignments' = [assignments EXCEPT ![n] =
             SupersedeAll(assignments[n], P)
             \o [k \in DOMAIN order |->
                   InsertAssignment(order[k], planes[order[k]].generation, type)]]
  BY <1>2 DEF EnqueueOnNode, SupersedeAll
<1>4. \A j, k \in 1..c : order[j] = order[k] => j = k
  <2>1. order \in Surjection(1..c, P)
    BY <1>3 DEF Surjection
  <2>2. IsFiniteSet(1..c) /\ Cardinality(1..c) = c
    BY FS_Interval
  <2>3. order \in Injection(1..c, P)
    BY <1>1, <1>2, <2>1, <2>2, FS_SurjSameCardinalityImpliesInj
  <2> QED BY <2>3 DEF Injection, IsInjective
<1> DEFINE new == [k \in DOMAIN order |->
                     InsertAssignment(order[k], planes[order[k]].generation, type)]
<1>5. DOMAIN new = 1..c
  BY <1>3
<1>6. ASSUME NEW k \in 1..c
      PROVE  NewRow(new[k], P) /\ new[k].plane = order[k]
  <2>1. order[k] \in Planes /\ order[k] \in P
    BY <1>3
  <2>2. planes[order[k]].generation \in 0..MaxGeneration
    <3>1. planes[order[k]] \in PlaneRecord /\ planes[order[k]].generation <= MaxGeneration
      BY <2>1 DEF IInv, PlanesInv, StoreInv
    <3> QED BY <3>1, MaxGenerationAssumption DEF PlaneRecord
  <2>3. PICK g \in 0..MaxGeneration : g = planes[order[k]].generation
    BY <2>2
  <2>4. new[k] = InsertAssignment(order[k], g, type)
    BY <1>3, <2>3
  <2>5. LET r == InsertAssignment(order[k], g, type) IN
        /\ r \in Row /\ RowInv(r)
        /\ r.plane = order[k] /\ r.attempts = 0
        /\ r.status = "pending" /\ r.max = MaxAttempts
    BY <2>1, InsertRow
  <2> QED BY <2>1, <2>4, <2>5 DEF NewRow
<1>7. new \in Seq(Row)
  <2>1. new \in [1..c -> Row]
    BY <1>3, <1>6 DEF NewRow
  <2> QED BY <2>1, SeqDef
<1>8. assignments' = [assignments EXCEPT ![n] = SupersedeAll(assignments[n], P) \o new]
  BY <1>3
<1> HIDE DEF new
<1>9. \A k \in DOMAIN new :
        /\ NewRow(new[k], P)
        /\ \A j \in DOMAIN new : new[j].plane = new[k].plane => j = k
  BY <1>4, <1>5, <1>6
<1>10. \A p \in P : \E k \in DOMAIN new : new[k].plane = p
  BY <1>3, <1>5, <1>6
<1> QED BY <1>7, <1>8, <1>9, <1>10 DEF NewRows

\* Enqueueing rows of several planes for one node keeps the nodes.
LEMMA EnqueueOnNodeInv ==
  ASSUME IInv, NEW n \in Nodes, NEW P \in SUBSET Planes,
         NEW type \in LifecycleTypes,
         EnqueueOnNode(n, P, type), UNCHANGED <<observed, local, hostd>>
  PROVE  NodesInv(assignments, observed, local, hostd)'
<1>1. PICK new \in Seq(Row) :
        /\ NewRows(new, P)
        /\ assignments' = [assignments EXCEPT ![n] = SupersedeAll(assignments[n], P) \o new]
  BY EnqueueOnNodeRows
<1>2. NodeInv(SupersedeAll(assignments[n], P) \o new, observed[n], local[n], hostd[n])
  BY <1>1, NodeOf, EnqueueNode DEF NewRows
<1>3. OnlyNode(n)
  BY <1>1, OneNodeWritten
<1>4. /\ assignments'[n] = SupersedeAll(assignments[n], P) \o new
      /\ observed'[n] = observed[n] /\ local'[n] = local[n] /\ hostd'[n] = hostd[n]
  BY <1>1 DEF IInv, NodesInv
<1> QED BY <1>2, <1>3, <1>4, NodeStep

\* One thread gets a new operation.
LEMMA OpWritten ==
  ASSUME IInv, NEW t \in Threads, NEW x \in Operation, OpInv(x),
         op' = [op EXCEPT ![t] = x]
  PROVE  OpsInv'
<1>1. op' \in [Threads -> Operation]
  BY DEF IInv, PlanesInv, OpsInv
<1>2. op'[t] = x /\ \A u \in Threads : u # t => op'[u] = op[u]
  BY DEF IInv, PlanesInv, OpsInv
<1>3. ASSUME NEW u \in Threads PROVE OpInv(op'[u])
  BY <1>2 DEF IInv, PlanesInv, OpsInv
<1>4. ASSUME NEW u \in Threads PROVE OpInv(op[u])'
  BY <1>3 DEF OpInv
<1> QED BY <1>1, <1>4 DEF OpsInv

\* What the invariant says of a command.
LEMMA OpOf ==
  ASSUME IInv, NEW t \in Threads
  PROVE  /\ op[t] \in Operation /\ OpInv(op[t])
         /\ op[t].seen \in PlaneRecord
         /\ op[t].seen.generation \in 0..MaxGeneration
         /\ op[t].nodes \in SUBSET Nodes /\ op[t].seen.nodes \in SUBSET Nodes
         /\ op[t].step \in PlaneSteps \cup {"replace"} => op[t].plane \in Planes
<1>1. op[t] \in Operation /\ OpInv(op[t])
  BY DEF IInv, PlanesInv, OpsInv
<1>2. op[t].seen \in PlaneRecord /\ op[t].nodes \in SUBSET Nodes
  BY <1>1 DEF Operation
<1>3. op[t].seen.generation \in Nat /\ op[t].seen.nodes \in SUBSET Nodes
  BY <1>2 DEF PlaneRecord
<1>4. op[t].seen.generation \in 0..MaxGeneration
  BY <1>1, <1>3, MaxGenerationAssumption DEF OpInv
<1> QED BY <1>1, <1>2, <1>3, <1>4 DEF OpInv, PlaneSteps

\* What the invariant says of a plane.
LEMMA PlaneOf ==
  ASSUME IInv, NEW p \in Planes
  PROVE  /\ planes[p] \in PlaneRecord
         /\ planes[p].generation \in Nat /\ planes[p].generation <= MaxGeneration
BY DEF IInv, PlanesInv, StoreInv, PlaneRecord

\* The thread ends its command.
LEMMA DoneOps ==
  ASSUME IInv, NEW t \in Threads, Done(t)
  PROVE  OpsInv'
<1>1. Absent \in PlaneRecord
  BY DEF Absent, PlaneRecord
<1>2. NoOperation \in Operation /\ OpInv(NoOperation)
  BY <1>1, MaxGenerationAssumption DEF NoOperation, Operation, OpInv, Absent, Steps
<1> QED BY <1>2, OpWritten DEF Done

\* The thread goes on with its plane.
LEMMA GotoOps ==
  ASSUME IInv, NEW t \in Threads, op[t].step \in PlaneSteps,
         NEW s \in PlaneSteps, Goto(t, s)
  PROVE  OpsInv'
<1>1. PICK x : x = op[t]
  OBVIOUS
<1>2. x \in Operation /\ OpInv(x) /\ x.plane \in Planes /\ s \in Steps
  BY <1>1, OpOf DEF PlaneSteps
<1> DEFINE y == [x EXCEPT !.step = s]
<1>3. /\ y \in Operation /\ y.step = s /\ y.plane = x.plane /\ y.seen = x.seen
  BY <1>2 DEF Operation
<1>4. op' = [op EXCEPT ![t] = y]
  BY <1>1 DEF Goto
<1> HIDE DEF y
<1>5. OpInv(y)
  BY <1>2, <1>3 DEF OpInv, PlaneSteps
<1> QED BY <1>3, <1>4, <1>5, OpWritten

\* The thread starts a command with a copy of its plane.
LEMMA LoadOps ==
  ASSUME IInv, NEW t \in Threads, NEW p \in Planes, NEW N \in SUBSET Nodes,
         NEW s \in PlaneSteps \cup {"replace"},
         s = "replace" => planes[p].generation < MaxGeneration,
         op' = [op EXCEPT ![t] = [step |-> s, plane |-> p, seen |-> planes[p], nodes |-> N]]
  PROVE  OpsInv'
<1>1. PICK r : r = planes[p]
  OBVIOUS
<1>2. r \in PlaneRecord /\ r.generation <= MaxGeneration
  BY <1>1, PlaneOf
<1> DEFINE x == [step |-> s, plane |-> p, seen |-> r, nodes |-> N]
<1>3. x \in Operation /\ x.step = s /\ x.plane = p /\ x.seen = r
  BY <1>2 DEF Operation, PlaneSteps, Steps
<1>4. op' = [op EXCEPT ![t] = x]
  BY <1>1
<1> HIDE DEF x
<1>5. OpInv(x)
  BY <1>1, <1>2, <1>3 DEF OpInv
<1> QED BY <1>3, <1>4, <1>5, OpWritten

\* A plane is written.
LEMMA PlaneWritten ==
  ASSUME IInv, NEW p \in Planes, NEW r \in PlaneRecord,
         r.generation <= MaxGeneration,
         planes' = [planes EXCEPT ![p] = r],
         registry' \in Seq(Planes), available' = available
  PROVE  StoreInv'
<1>1. planes' \in [Planes -> PlaneRecord]
  BY DEF IInv, PlanesInv, StoreInv
<1>2. \A x \in Planes : planes'[x].generation <= MaxGeneration
  BY DEF IInv, PlanesInv, StoreInv
<1> QED BY <1>1, <1>2 DEF StoreInv, IInv, PlanesInv

\* The tables of planes and nodes stay.
LEMMA StoreStays ==
  ASSUME IInv, UNCHANGED <<planes, registry, available>>
  PROVE  StoreInv'
BY DEF IInv, PlanesInv, StoreInv

\* UpdatePlaneState keeps the planes; what follows is the caller's.
LEMMA UpdateStore ==
  ASSUME IInv, NEW t \in Threads, op[t].step \in PlaneSteps,
         NEW st \in {"running", "stopped", "deleting"},
         UNCHANGED <<registry, available>>,
         \/ planes' = planes
         \/ planes' = [planes EXCEPT ![op[t].plane].state = st]
  PROVE  StoreInv'
<1>1. PICK p \in Planes : p = op[t].plane
  BY OpOf
<1>2. CASE planes' = planes
  BY <1>2, StoreStays
<1>3. CASE planes' = [planes EXCEPT ![op[t].plane].state = st]
  <2>1. PICK r : r = planes[p]
    OBVIOUS
  <2>2. r \in PlaneRecord /\ r.generation <= MaxGeneration
    BY <2>1, PlaneOf
  <2> DEFINE y == [r EXCEPT !.state = st]
  <2>3. y \in PlaneRecord /\ y.generation = r.generation
    BY <2>2 DEF PlaneRecord
  <2>4. planes' = [planes EXCEPT ![p] = y]
    BY <1>1, <1>3, <2>1
  <2>5. registry' \in Seq(Planes)
    BY DEF IInv, PlanesInv, StoreInv
  <2> HIDE DEF y
  <2> QED BY <2>2, <2>3, <2>4, <2>5, PlaneWritten
<1> QED BY <1>2, <1>3

\* The commands that load a plane keep the invariant.
LEMMA LoadInv ==
  ASSUME IInv, NEW t \in Threads, NEW p \in Planes,
         \/ StartPlane(t, p) \/ StopPlane(t, p) \/ DeletePlane(t, p)
         \/ FinalizeDeletedPlaneIfReady(t, p)
  PROVE  IInv'
<1>1. \E s \in PlaneSteps :
        op' = [op EXCEPT ![t] = [step |-> s, plane |-> p, seen |-> planes[p], nodes |-> {}]]
  <2>1. {"start-enqueue", "start-state", "stop-supersede", "finalize",
         "delete-supersede"} \subseteq PlaneSteps
    BY DEF PlaneSteps, Steps
  <2>2. CASE StartPlane(t, p)
    BY <2>1, <2>2 DEF StartPlane, Load
  <2>3. CASE StopPlane(t, p)
    BY <2>1, <2>3 DEF StopPlane, Load
  <2>4. CASE DeletePlane(t, p)
    BY <2>1, <2>4 DEF DeletePlane, Load
  <2>5. CASE FinalizeDeletedPlaneIfReady(t, p)
    BY <2>1, <2>5 DEF FinalizeDeletedPlaneIfReady, Load
  <2> QED BY <2>2, <2>3, <2>4, <2>5
<1>2. NodesStay /\ UNCHANGED <<planes, registry, available>>
  BY DEF StartPlane, StopPlane, DeletePlane, FinalizeDeletedPlaneIfReady, NodesStay
<1>3. PICK s \in PlaneSteps :
        op' = [op EXCEPT ![t] = [step |-> s, plane |-> p, seen |-> planes[p], nodes |-> {}]]
  BY <1>1
<1>4. s # "replace" /\ {} \in SUBSET Nodes
  BY DEF PlaneSteps
<1>5. OpsInv'
  BY <1>3, <1>4, LoadOps
<1>6. StoreInv'
  BY <1>2, StoreStays
<1> QED BY <1>2, <1>5, <1>6, NodesStayInv DEF IInv, PlanesInv

\* ApplyDesiredState keeps the invariant.
LEMMA ApplyDesiredInv ==
  ASSUME IInv, NEW t \in Threads, NEW p \in Planes, NEW N \in SUBSET Nodes,
         ApplyDesiredState(t, p, N)
  PROVE  IInv'
<1>1. NodesStay /\ UNCHANGED <<planes, registry, available>>
  BY DEF ApplyDesiredState, NodesStay
<1>2. OpsInv'
  BY LoadOps DEF ApplyDesiredState
<1>3. StoreInv'
  BY <1>1, StoreStays
<1> QED BY <1>1, <1>2, <1>3, NodesStayInv DEF IInv, PlanesInv

\* The steps that set the state of the plane keep the invariant.
LEMMA SetsStateInv ==
  ASSUME IInv, NEW t \in Threads,
         StartSetsState(t) \/ StopSetsState(t) \/ DeleteSetsState(t)
  PROVE  IInv'
<1>1. op[t].step \in PlaneSteps
  BY DEF StartSetsState, StopSetsState, DeleteSetsState, PlaneSteps, Steps
<1>2. /\ NodesStay /\ UNCHANGED <<registry, available>>
      /\ \E st \in {"running", "stopped", "deleting"} :
           \/ planes' = planes
           \/ planes' = [planes EXCEPT ![op[t].plane].state = st]
  BY DEF StartSetsState, StopSetsState, DeleteSetsState, UpdatePlaneState, NodesStay
<1>3. StoreInv'
  BY <1>1, <1>2, UpdateStore
<1>4. \/ Done(t)
      \/ \E s \in PlaneSteps : Goto(t, s)
  <2>1. {"start-enqueue", "delete-enqueue"} \subseteq PlaneSteps
    BY DEF PlaneSteps, Steps
  <2> QED BY <2>1 DEF StartSetsState, StopSetsState, DeleteSetsState, UpdatePlaneState
<1>5. OpsInv'
  BY <1>1, <1>4, DoneOps, GotoOps
<1> QED BY <1>2, <1>3, <1>5, NodesStayInv DEF IInv, PlanesInv

\* The steps that supersede the rows of the plane keep the invariant.
LEMMA SupersedesInv ==
  ASSUME IInv, NEW t \in Threads, StopSupersedes(t) \/ DeleteSupersedes(t)
  PROVE  IInv'
<1>1. /\ op[t].step \in PlaneSteps
      /\ \E s \in PlaneSteps : Goto(t, s)
      /\ Supersede(op[t].plane)
      /\ UNCHANGED <<planes, registry, available, observed, local, hostd>>
  <2>1. {"stop-supersede", "stop-enqueue", "delete-supersede", "delete-state"}
          \subseteq PlaneSteps
    BY DEF PlaneSteps, Steps
  <2> QED BY <2>1 DEF StopSupersedes, DeleteSupersedes
<1>2. OpsInv'
  BY <1>1, GotoOps
<1>3. StoreInv'
  BY <1>1, StoreStays
<1>4. PICK p : p = op[t].plane
  OBVIOUS
<1>5. NodesInv(assignments, observed, local, hostd)'
  BY <1>1, <1>4, SupersedeNodes
<1> QED BY <1>2, <1>3, <1>5 DEF IInv, PlanesInv

\* The steps that enqueue rows for the plane keep the invariant.
LEMMA EnqueuesInv ==
  ASSUME IInv, NEW t \in Threads,
         StartEnqueues(t) \/ StopEnqueues(t) \/ DeleteEnqueues(t)
  PROVE  IInv'
<1>1. /\ op[t].step \in PlaneSteps
      /\ \E s \in PlaneSteps : Goto(t, s)
      /\ UNCHANGED <<planes, registry, available, observed, local, hostd>>
  <2>1. {"start-enqueue", "reconcile", "stop-enqueue", "stop-reconcile", "delete-enqueue"}
          \subseteq PlaneSteps
    BY DEF PlaneSteps, Steps
  <2> QED BY <2>1 DEF StartEnqueues, StopEnqueues, DeleteEnqueues
<1>2. \E T : /\ \A n \in DOMAIN T : T[n] \in LifecycleTypes
             /\ Enqueue(op[t].plane, op[t].seen.generation, T)
  <2>1. {"apply-node-state", "delete-plane-state", "stop-plane-state"}
          \subseteq LifecycleTypes
    BY DEF LifecycleTypes
  <2>2. CASE StartEnqueues(t)
    <3>1. PICK stale \in SUBSET {n \in Nodes : observed[n].status # "none"} :
            Enqueue(op[t].plane, op[t].seen.generation,
                    [n \in StartNodes(t, stale) \cup RemovedNodes(t) |->
                       IF n \in op[t].seen.nodes THEN "apply-node-state"
                       ELSE "delete-plane-state"])
      BY <2>2 DEF StartEnqueues
    <3> DEFINE T == [n \in StartNodes(t, stale) \cup RemovedNodes(t) |->
                       IF n \in op[t].seen.nodes THEN "apply-node-state"
                       ELSE "delete-plane-state"]
    <3>2. \A n \in DOMAIN T : T[n] \in LifecycleTypes
      BY <2>1
    <3> QED BY <3>1, <3>2
  <2>3. CASE StopEnqueues(t)
    <3> DEFINE T == [n \in {m \in op[t].seen.nodes : available[m]} |-> "stop-plane-state"]
    <3>1. Enqueue(op[t].plane, op[t].seen.generation, T)
      BY <2>3 DEF StopEnqueues
    <3>2. \A n \in DOMAIN T : T[n] \in LifecycleTypes
      BY <2>1
    <3> QED BY <3>1, <3>2
  <2>4. CASE DeleteEnqueues(t)
    <3> DEFINE T == [n \in op[t].seen.nodes |-> "delete-plane-state"]
    <3>1. Enqueue(op[t].plane, op[t].seen.generation, T)
      BY <2>4 DEF DeleteEnqueues
    <3>2. \A n \in DOMAIN T : T[n] \in LifecycleTypes
      BY <2>1
    <3> QED BY <3>1, <3>2
  <2> QED BY <2>2, <2>3, <2>4
<1>3. OpsInv'
  BY <1>1, GotoOps
<1>4. StoreInv'
  BY <1>1, StoreStays
<1>5. PICK p \in Planes, g \in 0..MaxGeneration :
        p = op[t].plane /\ g = op[t].seen.generation
  BY <1>1, OpOf
<1>6. PICK T : /\ \A n \in DOMAIN T : T[n] \in LifecycleTypes
               /\ Enqueue(p, g, T)
  BY <1>2, <1>5
<1>7. NodesInv(assignments, observed, local, hostd)'
  BY <1>1, <1>6, EnqueueNodes
<1> QED BY <1>3, <1>4, <1>7 DEF IInv, PlanesInv

\* CommandReconciles keeps the invariant.
LEMMA CommandReconcilesInv ==
  ASSUME IInv, NEW t \in Threads, CommandReconciles(t)
  PROVE  IInv'
<1>1. /\ op[t].step \in PlaneSteps
      /\ Done(t) \/ Goto(t, "stop-state")
      /\ Reconcile(op[t].plane)
      /\ UNCHANGED <<planes, registry, available, observed, local, hostd>>
  BY DEF CommandReconciles, PlaneSteps, Steps
<1>2. "stop-state" \in PlaneSteps
  BY DEF PlaneSteps, Steps
<1>3. OpsInv'
  BY <1>1, <1>2, DoneOps, GotoOps
<1>4. StoreInv'
  BY <1>1, StoreStays
<1>5. PICK p : p = op[t].plane
  OBVIOUS
<1>6. NodesInv(assignments, observed, local, hostd)'
  BY <1>1, <1>5, ReconcileNodes
<1> QED BY <1>3, <1>4, <1>6 DEF IInv, PlanesInv

\* ReconcileTick keeps the invariant.
LEMMA ReconcileTickInv ==
  ASSUME IInv, NEW p \in Planes, ReconcileTick(p)
  PROVE  IInv'
<1>1. /\ Reconcile(p) /\ PlanesStay /\ UNCHANGED <<observed, local, hostd>>
  BY DEF ReconcileTick, PlanesStay
<1> QED BY <1>1, ReconcileNodes, PlanesStayInv DEF IInv

\* Taking a plane out of the registry leaves a registry.
LEMMA UnregisterStore ==
  ASSUME IInv, NEW p, Unregister(p)
  PROVE  registry' \in Seq(Planes)
<1>1. registry \in Seq(Planes)
  BY DEF IInv, PlanesInv, StoreInv
<1>2. CASE \E k \in DOMAIN registry : registry[k] = p
  <2>1. PICK k \in DOMAIN registry :
          registry' = SubSeq(registry, 1, k - 1) \o SubSeq(registry, k + 1, Len(registry))
    BY <1>2 DEF Unregister
  <2>2. k \in 1..Len(registry) /\ Len(registry) \in Nat
    BY <1>1, LenProperties
  <2>3. \A j \in 1..(k - 1) : registry[j] \in Planes
    BY <1>1, <2>2, ElementOfSeq
  <2>4. \A j \in (k + 1)..Len(registry) : registry[j] \in Planes
    BY <1>1, <2>2, ElementOfSeq
  <2>5. SubSeq(registry, 1, k - 1) \in Seq(Planes)
    BY <1>1, <2>2, <2>3, SubSeqProperties
  <2>6. SubSeq(registry, k + 1, Len(registry)) \in Seq(Planes)
    BY <1>1, <2>2, <2>4, SubSeqProperties
  <2> QED BY <2>1, <2>5, <2>6, ConcatProperties
<1>3. CASE ~ \E k \in DOMAIN registry : registry[k] = p
  BY <1>1, <1>3 DEF Unregister
<1> QED BY <1>2, <1>3

\* FinalizeDeletes keeps the invariant: no observation names the plane.
LEMMA FinalizeInv ==
  ASSUME IInv, NEW t \in Threads, FinalizeDeletes(t)
  PROVE  IInv'
<1>1. PICK p \in Planes : p = op[t].plane
  <2>1. op[t].step \in PlaneSteps
    BY DEF FinalizeDeletes, PlaneSteps, Steps
  <2> QED BY <2>1, OpOf
<1>2. /\ planes' = [planes EXCEPT ![p] = Absent]
      /\ Unregister(p) /\ Done(t)
      /\ assignments' = [n \in Nodes |-> DeletePlaneRows(assignments[n], p)]
      /\ observed' = [n \in Nodes |->
           IF observed[n].plane = p
           THEN [observed[n] EXCEPT !.plane = NoPlane, !.generation = 0, !.id = 0]
           ELSE observed[n]]
      /\ available' = available /\ local' = local /\ hostd' = hostd
  BY <1>1 DEF FinalizeDeletes
<1>3. OpsInv'
  BY <1>2, DoneOps
<1>4. StoreInv'
  <2>1. Absent \in PlaneRecord /\ Absent.generation <= MaxGeneration
    BY MaxGenerationAssumption DEF Absent, PlaneRecord
  <2>2. registry' \in Seq(Planes)
    BY <1>2, UnregisterStore
  <2> QED BY <1>2, <2>1, <2>2, PlaneWritten
<1>5. ASSUME NEW n \in Nodes
      PROVE  NodeInv(assignments'[n], observed'[n], local[n], hostd[n])
  <2>1. assignments'[n] = DeletePlaneRows(assignments[n], p)
    BY <1>2
  <2>2. PICK q : q = DeletePlaneRows(assignments[n], p)
    OBVIOUS
  <2>3. NodeInv(q, observed[n], local[n], hostd[n])
    BY <2>2, NodeOf, DeleteNode
  <2>4. PICK o : o = observed[n]
    OBVIOUS
  <2>5. o \in Observation
    BY <2>4, NodeOf
  <2> DEFINE o2 == [o EXCEPT !.plane = NoPlane, !.generation = 0, !.id = 0]
  <2>6. observed'[n] = IF o.plane = p THEN o2 ELSE o
    BY <1>2, <2>4
  <2>7. o2 \in Observation /\ o2.plane = NoPlane
    BY <2>5 DEF Observation
  <2> HIDE DEF o2
  <2>8. NodeInv(q, o2, local[n], hostd[n])
    BY <2>3, <2>7, ObserveNode
  <2> QED BY <2>1, <2>2, <2>3, <2>4, <2>6, <2>8
<1>6. NodesInv(assignments, observed, local, hostd)'
  <2>1. assignments' = [n \in Nodes |-> assignments'[n]]
    BY <1>2
  <2>2. observed' = [n \in Nodes |-> observed'[n]]
    BY <1>2
  <2> QED BY <1>2, <1>5, <2>1, <2>2, AllNodes
<1> QED BY <1>3, <1>4, <1>6 DEF IInv, PlanesInv

\* ReplaceDesiredState keeps the invariant.
LEMMA ReplaceInv ==
  ASSUME IInv, NEW t \in Threads, ReplaceDesiredState(t)
  PROVE  IInv'
<1>1. PICK p \in Planes : p = op[t].plane
  BY OpOf DEF ReplaceDesiredState
<1>2. PICK g \in Nat : g = op[t].seen.generation + 1 /\ g <= MaxGeneration
  <2>1. op[t].seen.generation \in Nat /\ op[t].seen.generation < MaxGeneration
    BY OpOf DEF ReplaceDesiredState, OpInv
  <2> QED BY <2>1, MaxGenerationAssumption
<1>3. PICK st \in {"stopped", "running", "deleting"} :
        st = IF Exists(p) THEN planes[p].state ELSE "stopped"
  BY PlaneOf DEF Exists, PlaneRecord
<1>4. PICK ap \in Nat : ap = planes[p].applied
  BY PlaneOf DEF PlaneRecord
<1>5. PICK N \in SUBSET Nodes : N = op[t].nodes
  BY OpOf
<1> DEFINE r == [state |-> st, generation |-> g, applied |-> ap, nodes |-> N]
<1>6. planes' = [planes EXCEPT ![p] = r]
  BY <1>1, <1>2, <1>3, <1>4, <1>5 DEF ReplaceDesiredState
<1>7. r \in PlaneRecord /\ r.generation = g
  BY DEF PlaneRecord
<1> HIDE DEF r
<1>8. registry' \in Seq(Planes)
  <2>1. registry \in Seq(Planes)
    BY DEF IInv, PlanesInv, StoreInv
  <2> QED BY <1>1, <2>1, AppendProperties DEF ReplaceDesiredState
<1>9. StoreInv'
  BY <1>2, <1>6, <1>7, <1>8, PlaneWritten DEF ReplaceDesiredState
<1>10. OpsInv'
  BY DoneOps DEF ReplaceDesiredState
<1>11. NodesStay
  BY DEF ReplaceDesiredState, NodesStay
<1> QED BY <1>9, <1>10, <1>11, NodesStayInv DEF IInv, PlanesInv

\* SetNodeAvailability keeps the invariant.
LEMMA AvailabilityInv ==
  ASSUME IInv, NEW t \in Threads, NEW n \in Nodes, NEW active \in BOOLEAN,
         SetNodeAvailability(t, n, active)
  PROVE  IInv'
<1>1. PICK s \in {"resync", "drain"} : s = IF active THEN "resync" ELSE "drain"
  OBVIOUS
<1> DEFINE x == [NoOperation EXCEPT !.step = s, !.nodes = {n}]
<1>2. op' = [op EXCEPT ![t] = x]
  BY <1>1 DEF SetNodeAvailability
<1>3. Absent \in PlaneRecord
  BY DEF Absent, PlaneRecord
<1>4. x \in Operation /\ x.step = s /\ x.seen = Absent
  BY <1>3 DEF NoOperation, Operation, Steps
<1> HIDE DEF x
<1>5. OpInv(x)
  BY <1>4, MaxGenerationAssumption DEF OpInv, Absent
<1>6. OpsInv'
  BY <1>2, <1>4, <1>5, OpWritten
<1>7. available' \in [Nodes -> BOOLEAN]
  BY DEF SetNodeAvailability, IInv, PlanesInv, StoreInv
<1>8. StoreInv'
  BY <1>7 DEF SetNodeAvailability, IInv, PlanesInv, StoreInv
<1>9. NodesStay
  BY DEF SetNodeAvailability, NodesStay
<1> QED BY <1>6, <1>8, <1>9, NodesStayInv DEF IInv, PlanesInv

\* Draining and resyncing a node keep the invariant.
LEMMA DrainResyncInv ==
  ASSUME IInv, NEW t \in Threads, NEW n \in Nodes, DrainNode(t, n) \/ ResyncNode(t, n)
  PROVE  IInv'
<1>1. /\ Done(t)
      /\ UNCHANGED <<planes, registry, available, observed, local, hostd>>
  BY DEF DrainNode, ResyncNode
<1>2. \E P \in SUBSET Planes, type \in LifecycleTypes : EnqueueOnNode(n, P, type)
  <2>1. AffectedPlanes(n) \in SUBSET Planes
    BY DEF AffectedPlanes
  <2>2. {p \in AffectedPlanes(n) : ~InSync(n, p)} \in SUBSET Planes
    BY <2>1
  <2>3. {"drain-node-state", "apply-node-state"} \subseteq LifecycleTypes
    BY DEF LifecycleTypes
  <2>4. CASE DrainNode(t, n)
    BY <2>1, <2>3, <2>4 DEF DrainNode
  <2>5. CASE ResyncNode(t, n)
    BY <2>2, <2>3, <2>5 DEF ResyncNode
  <2> QED BY <2>4, <2>5
<1>3. PICK P \in SUBSET Planes, type \in LifecycleTypes : EnqueueOnNode(n, P, type)
  BY <1>2
<1>4. NodesInv(assignments, observed, local, hostd)'
  BY <1>1, <1>3, EnqueueOnNodeInv
<1>5. StoreInv' /\ OpsInv'
  BY <1>1, StoreStays, DoneOps
<1> QED BY <1>4, <1>5 DEF IInv, PlanesInv

\* Writing the applied generation of a plane keeps the planes.
LEMMA AppliedStore ==
  ASSUME IInv, NEW p \in Planes, NEW g \in Nat,
         planes' = [planes EXCEPT ![p].applied = g],
         UNCHANGED <<registry, available>>
  PROVE  StoreInv'
<1>1. PICK r : r = planes[p]
  OBVIOUS
<1>2. r \in PlaneRecord /\ r.generation <= MaxGeneration
  BY <1>1, PlaneOf
<1> DEFINE y == [r EXCEPT !.applied = g]
<1>3. y \in PlaneRecord /\ y.generation = r.generation
  BY <1>2 DEF PlaneRecord
<1>4. planes' = [planes EXCEPT ![p] = y]
  BY <1>1
<1>5. registry' \in Seq(Planes)
  BY DEF IInv, PlanesInv, StoreInv
<1> HIDE DEF y
<1> QED BY <1>2, <1>3, <1>4, <1>5, PlaneWritten

\* RaiseAppliedGeneration keeps the invariant.
LEMMA RaiseInv ==
  ASSUME IInv, NEW p \in Planes, RaiseAppliedGeneration(p)
  PROVE  IInv'
<1>1. StoreInv'
  <2>1. PICK g \in Nat : g = planes[p].generation
    BY PlaneOf
  <2>2. planes' = [planes EXCEPT ![p].applied = g]
    BY <2>1 DEF RaiseAppliedGeneration
  <2> QED BY <2>2, AppliedStore DEF RaiseAppliedGeneration
<1>2. OpsInv'
  BY DEF RaiseAppliedGeneration, IInv, PlanesInv, OpsInv, OpInv
<1>3. NodesStay
  BY DEF RaiseAppliedGeneration, NodesStay
<1> QED BY <1>1, <1>2, <1>3, NodesStayInv DEF IInv, PlanesInv

\* ConvergeGeneration keeps the invariant.
LEMMA ConvergeInv ==
  ASSUME IInv, NEW n \in Nodes, ConvergeGeneration(n)
  PROVE  IInv'
<1>1. /\ hostd[n].step # "idle"
      /\ hostd' = [hostd EXCEPT ![n] = HostdIdle]
      /\ assignments' = assignments /\ observed' = observed /\ local' = local
      /\ op' = op
  BY DEF ConvergeGeneration
<1>2. PICK p \in Planes, g \in Nat : p = Copy(n).plane /\ g = Copy(n).generation
  BY <1>1, CopyOf, MaxGenerationAssumption DEF RowInv, Row
<1>3. planes' = planes \/ planes' = [planes EXCEPT ![p].applied = g]
  BY <1>2 DEF ConvergeGeneration
<1>4. StoreInv'
  BY <1>3, AppliedStore, StoreStays DEF ConvergeGeneration
<1>5. OpsInv'
  BY <1>1 DEF IInv, PlanesInv, OpsInv, OpInv
<1>6. NodeInv(assignments[n], observed[n], local[n], HostdIdle)
  BY NodeOf, IdleNode
<1>7. NodesInv(assignments, observed, local, hostd)'
  <2>1. OnlyNode(n)
    BY <1>1, OneNodeWritten
  <2>2. /\ assignments'[n] = assignments[n] /\ observed'[n] = observed[n]
        /\ local'[n] = local[n] /\ hostd'[n] = HostdIdle
    BY <1>1 DEF IInv, NodesInv
  <2> QED BY <1>6, <2>1, <2>2, NodeStep
<1> QED BY <1>4, <1>5, <1>7 DEF IInv, PlanesInv

-----------------------------------------------------------------------------
(* The theorems.                                                           *)

\* The invariant holds in the initial states.
LEMMA InitInv == Init => IInv
<1> SUFFICES ASSUME Init PROVE IInv
  OBVIOUS
<1>1. Absent \in PlaneRecord /\ Absent.generation <= MaxGeneration
  BY MaxGenerationAssumption DEF Absent, PlaneRecord
<1>2. StoreInv
  BY <1>1 DEF Init, StoreInv
<1>3. NoOperation \in Operation /\ OpInv(NoOperation)
  BY <1>1 DEF NoOperation, Operation, OpInv, Steps
<1>4. OpsInv
  BY <1>3 DEF Init, OpsInv
<1> DEFINE o == [status |-> "none", plane |-> NoPlane, id |-> 0, generation |-> 0,
                 content |-> [p \in Planes |-> "none"]]
           l == [p \in Planes |-> Nothing]
<1>5. o \in Observation /\ o.status = "none"
  BY DEF Observation, Contents
<1>6. Nothing \in LocalState /\ Nothing.generation <= MaxGeneration
  BY MaxGenerationAssumption DEF Nothing, LocalState, Contents
<1>7. l \in [Planes -> LocalState] /\ \A p \in Planes : l[p].generation <= MaxGeneration
  BY <1>6
<1>8. HostdIdle \in [id : Nat, step : HostdSteps] /\ HostdIdle.step = "idle"
  BY DEF HostdIdle, HostdSteps
<1>9. /\ assignments = [n \in Nodes |-> << >>] /\ observed = [n \in Nodes |-> o]
      /\ local = [n \in Nodes |-> l] /\ hostd = [n \in Nodes |-> HostdIdle]
  BY DEF Init
<1>10. << >> \in Seq(Row) /\ DOMAIN << >> = {}
  OBVIOUS
<1> HIDE DEF o, l
<1>11. NodeInv(<< >>, o, l, HostdIdle)
  BY <1>5, <1>7, <1>8, <1>10 DEF NodeInv, TableInv
<1>12. NodesInv(assignments, observed, local, hostd)
  BY <1>5, <1>7, <1>8, <1>9, <1>10, <1>11 DEF NodesInv
<1> QED BY <1>2, <1>4, <1>12 DEF IInv, PlanesInv

\* Every step keeps the invariant.
LEMMA NextInv == IInv /\ [Next]_vars => IInv'
<1> SUFFICES ASSUME IInv, [Next]_vars PROVE IInv'
  OBVIOUS
<1>1. ASSUME NEW t \in Threads, Command(t) PROVE IInv'
  <2>1. ASSUME NEW p \in Planes,
               \/ StartPlane(t, p) \/ StopPlane(t, p) \/ DeletePlane(t, p)
               \/ FinalizeDeletedPlaneIfReady(t, p)
               \/ \E N \in (SUBSET Nodes) \ {{}} : ApplyDesiredState(t, p, N)
        PROVE  IInv'
    BY <2>1, LoadInv, ApplyDesiredInv
  <2>2. ASSUME NEW n \in Nodes, NEW active \in BOOLEAN, SetNodeAvailability(t, n, active)
        PROVE  IInv'
    BY <2>2, AvailabilityInv
  <2>3. CASE StartSetsState(t) \/ StopSetsState(t) \/ DeleteSetsState(t)
    BY <2>3, SetsStateInv
  <2>4. CASE StopSupersedes(t) \/ DeleteSupersedes(t)
    BY <2>4, SupersedesInv
  <2>5. CASE StartEnqueues(t) \/ StopEnqueues(t) \/ DeleteEnqueues(t)
    BY <2>5, EnqueuesInv
  <2>6. CASE CommandReconciles(t)
    BY <2>6, CommandReconcilesInv
  <2>7. CASE FinalizeDeletes(t)
    BY <2>7, FinalizeInv
  <2>8. CASE ReplaceDesiredState(t)
    BY <2>8, ReplaceInv
  <2>9. ASSUME NEW n \in Nodes, DrainNode(t, n) \/ ResyncNode(t, n)
        PROVE  IInv'
    BY <2>9, DrainResyncInv
  <2> QED BY <1>1, <2>1, <2>2, <2>3, <2>4, <2>5, <2>6, <2>7, <2>8, <2>9 DEF Command
<1>2. ASSUME NEW n \in Nodes, Hostd(n) PROVE IInv'
  BY <1>2, ClaimInv, ExpireInv, ReportApplyingInv, WorkInv, ReportAppliedInv,
     TransitionAppliedInv, ConvergeInv, FailInv, CrashInv, ReportLocalInv DEF Hostd
<1>3. ASSUME NEW n \in Nodes, NEW i \in DOMAIN assignments[n], RetryHostAssignment(n, i)
      PROVE  IInv'
  BY <1>3, RetryInv
<1>4. ASSUME NEW p \in Planes, RaiseAppliedGeneration(p) \/ ReconcileTick(p)
      PROVE  IInv'
  BY <1>4, RaiseInv, ReconcileTickInv
<1>5. CASE UNCHANGED vars
  <2>1. PlanesStay /\ NodesStay
    BY <1>5 DEF vars, PlanesStay, NodesStay
  <2> QED BY <2>1, PlanesStayInv, NodesStayInv DEF IInv
<1> QED BY <1>1, <1>2, <1>3, <1>4, <1>5 DEF Next

\* The invariant holds in every reachable state.
THEOREM Invariance == Spec => []IInv
<1>1. Init => IInv
  BY InitInv
<1>2. IInv /\ [Next]_vars => IInv'
  BY NextInv
<1> QED BY <1>1, <1>2, PTL DEF Spec

\* The tables, observations and processes of PlaneLifecycle keep their types:
\* hostd works only on rows of planes, commands only on planes they have loaded
\* and generations stay within the bound.
THEOREM TypeCorrect == Spec => []TypeOK
<1>1. IInv => TypeOK
  BY DEF IInv, PlanesInv, StoreInv, OpsInv, NodesInv, TypeOK
<1> QED BY <1>1, Invariance, PTL

\* What the controller reads off the newest row of a plane is true of the node,
\* whatever commands run side by side, reports are lost or hostd is killed
\* (TransitionClaimedHostAssignment, ShouldMarkClaimedAssignmentApplied).
THEOREM AppliedRowsAreInForce == Spec => []NewestAppliedRowIsInForce
<1>1. IInv => NewestAppliedRowIsInForce
  <2> SUFFICES ASSUME IInv, NEW n \in Nodes, NEW p \in Planes,
                      NEW i \in Latest(assignments[n], p),
                      assignments[n][i].status = "applied",
                      \A j \in DOMAIN assignments[n] :
                        assignments[n][j].plane = p /\ j < i
                          => assignments[n][j].max = MaxAttempts
               PROVE  InForce(assignments[n][i], local[n][p])
    BY DEF NewestAppliedRowIsInForce, InForce
  <2>1. i \in DOMAIN assignments[n] /\ assignments[n][i].plane = p
        /\ IsLatest(assignments[n], i)
    BY DEF Latest
  <2>2. Decides(assignments[n], i)
    BY <2>1 DEF Decides
  <2>3. RowIsTrue(assignments[n], observed[n], local[n], hostd[n], i)
    BY <2>1, <2>2, NodeOf DEF NodeInv
  <2> QED BY <2>1, <2>3 DEF RowIsTrue
<1> QED BY <1>1, Invariance, PTL

-----------------------------------------------------------------------------
(* Rows that are not deleted have a plane.                                 *)

\* Every row that is left in q2 was left in q, or belongs to the planes P.
Kept(q, q2, P) ==
  \A i \in DOMAIN q2 : q2[i].status # "deleted" =>
    \/ i \in DOMAIN q /\ q[i].status # "deleted" /\ q[i].plane = q2[i].plane
    \/ q2[i].plane \in P

\* What an operation other than a retry or a deletion does to a row.
RowMove(r, r2) ==
  /\ r2.plane = r.plane /\ r2.type = r.type /\ r2.max = r.max
  /\ r2.status = "deleted" <=> r.status = "deleted"
  /\ r2.status \in Active => r.status \in Active

TableMove(q, q2) ==
  DOMAIN q2 = DOMAIN q /\ \A i \in DOMAIN q : RowMove(q[i], q2[i])

\* A move leaves no row that was not left before.
LEMMA MoveKeeps ==
  ASSUME NEW q, NEW q2, TableMove(q, q2)
  PROVE  Kept(q, q2, {})
BY DEF TableMove, RowMove, Kept

\* What a write leaves of a row.
LEMMA WriteFields ==
  ASSUME NEW r \in Row, NEW st
  PROVE  LET w == Write(r, st, FALSE) IN
         /\ w.status = st
         /\ w.plane = r.plane /\ w.type = r.type /\ w.max = r.max
         /\ w.generation = r.generation /\ w.attempts = r.attempts
BY DEF Write, Row

\* Superseding moves rows, and takes only rows of the planes P out of Active.
LEMMA SupersedeMoves ==
  ASSUME NEW q \in Seq(Row), NEW P
  PROVE  LET s == SupersedeAll(q, P) IN
         /\ TableMove(q, s)
         /\ \A i \in DOMAIN q :
              \/ s[i] = q[i]
              \/ s[i].status = "superseded" /\ q[i].plane \in P
         /\ \A i \in DOMAIN q : s[i].plane \in P => s[i].status \notin Active
<1> DEFINE s == SupersedeAll(q, P)
<1>1. DOMAIN s = DOMAIN q
  BY DEF SupersedeAll
<1>2. ASSUME NEW i \in DOMAIN q
      PROVE  /\ RowMove(q[i], s[i])
             /\ s[i] = q[i] \/ (s[i].status = "superseded" /\ q[i].plane \in P)
             /\ s[i].plane \in P => s[i].status \notin Active
  <2>1. q[i] \in Row
    BY RowsOf
  <2>2. CASE q[i].plane \in P /\ q[i].status \in Active
    <3>1. s[i] = Write(q[i], "superseded", FALSE)
      BY <2>2 DEF SupersedeAll
    <3>2. /\ s[i].status = "superseded" /\ s[i].plane = q[i].plane
          /\ s[i].type = q[i].type /\ s[i].max = q[i].max
      BY <2>1, <3>1 DEF Write, Row
    <3> HIDE DEF s
    <3> QED BY <2>2, <3>2 DEF RowMove, Active
  <2>3. CASE ~(q[i].plane \in P /\ q[i].status \in Active)
    <3>1. s[i] = q[i]
      BY <2>3 DEF SupersedeAll
    <3> QED BY <2>3, <3>1 DEF RowMove
  <2> QED BY <2>2, <2>3
<1> QED BY <1>1, <1>2 DEF TableMove

\* Settling leases that ran out moves rows.
LEMMA ExpireMoves ==
  ASSUME NEW q \in Seq(Row), TableInv(q)
  PROVE  LET s == Expire(q) IN
         /\ TableMove(q, s)
         /\ \A i \in DOMAIN q :
              \/ s[i] = q[i]
              \/ s[i].status \in {"pending", "failed"}
<1> DEFINE q1 == ExpireLeases(q)
           s == ExpireProxies(q1)
<1>1. DOMAIN q1 = DOMAIN q /\ DOMAIN s = DOMAIN q
  BY DEF ExpireLeases, ExpireProxies
<1>2. ASSUME NEW i \in DOMAIN q
      PROVE  /\ RowMove(q[i], s[i])
             /\ s[i] = q[i] \/ s[i].status \in {"pending", "failed"}
  <2>1. q[i] \in Row /\ RowInv(q[i])
    BY RowsOf DEF TableInv
  <2>2. q[i].type \notin ProxyTypes
    BY <2>1 DEF RowInv, LifecycleTypes, ProxyTypes
  <2>3. CASE q[i].status = "claimed" /\ q[i].stale
    <3>1. PICK st \in {"failed", "pending"} :
            st = IF q[i].attempts >= q[i].max THEN "failed" ELSE "pending"
      OBVIOUS
    <3>2. q1[i] = Write(q[i], st, FALSE)
      BY <2>3, <3>1 DEF ExpireLeases
    <3>3. q1[i].status = st /\ q1[i].plane = q[i].plane /\ q1[i].type = q[i].type
          /\ q1[i].max = q[i].max
      BY <2>1, <3>2 DEF Write, Row
    <3>4. s[i] = q1[i]
      BY <1>1, <2>2, <3>3 DEF ExpireProxies
    <3> HIDE DEF s, q1
    <3> QED BY <2>3, <3>1, <3>3, <3>4 DEF RowMove, Active
  <2>4. CASE ~(q[i].status = "claimed" /\ q[i].stale)
    <3>1. q1[i] = q[i]
      BY <2>4 DEF ExpireLeases
    <3>2. s[i] = q[i]
      BY <1>1, <2>2, <3>1 DEF ExpireProxies
    <3> QED BY <3>2 DEF RowMove
  <2> QED BY <2>3, <2>4
<1>3. s = Expire(q)
  BY DEF Expire
<1> QED BY <1>1, <1>2, <1>3 DEF TableMove

\* Claiming moves one row.
LEMMA ClaimMoves ==
  ASSUME NEW q \in Seq(Row), NEW i \in DOMAIN q, q[i].status = "pending"
  PROVE  LET s == ClaimRow(q, i) IN
         /\ TableMove(q, s)
         /\ s[i].status = "claimed"
         /\ \A j \in DOMAIN q : j # i => s[j] = q[j]
<1> DEFINE v == Write(q[i], "claimed", FALSE)
           r == [v EXCEPT !.attempts = q[i].attempts + 1]
           s == [q EXCEPT ![i] = r]
<1>1. q[i] \in Row
  BY RowsOf
<1>2. /\ v.status = "claimed" /\ v.plane = q[i].plane /\ v.type = q[i].type
      /\ v.max = q[i].max
  BY <1>1, WriteFields
<1>3. v \in Row
  BY <1>1 DEF Write, Row, Statuses
<1> HIDE DEF v
<1>4. /\ r.status = v.status /\ r.plane = v.plane /\ r.type = v.type /\ r.max = v.max
  BY <1>3 DEF Row
<1> HIDE DEF r
<1>5. DOMAIN s = DOMAIN q /\ s[i] = r /\ \A j \in DOMAIN q : j # i => s[j] = q[j]
  OBVIOUS
<1> HIDE DEF s
<1>6. \A j \in DOMAIN q : RowMove(q[j], s[j])
  BY <1>2, <1>4, <1>5 DEF RowMove, Active
<1>7. s = ClaimRow(q, i)
  BY DEF ClaimRow, s, r, v
<1> QED BY <1>2, <1>4, <1>5, <1>6, <1>7 DEF TableMove

\* Row i goes to status st if it is claimed.
Transitioned(q, s, i, st) ==
  /\ TableMove(q, s)
  /\ \A j \in DOMAIN q :
       s[j] = q[j] \/ (j = i /\ q[i].status = "claimed" /\ s[i].status = st)

\* The transition of a claimed row moves this row at most.
LEMMA TransitionMoves ==
  ASSUME NEW q \in Seq(Row), NEW i \in DOMAIN q,
         NEW st \in {"applied", "pending", "failed"}, NEW s,
         s = TransitionClaimedHostAssignment(q, i, st, FALSE)
  PROVE  Transitioned(q, s, i, st)
<1> DEFINE r == Write(q[i], st, FALSE)
<1>1. q[i] \in Row
  BY RowsOf
<1>2. /\ r.status = st /\ r.plane = q[i].plane /\ r.type = q[i].type
      /\ r.max = q[i].max
  BY <1>1, WriteFields
<1> HIDE DEF r
<1>3. CASE q[i].status = "claimed"
  <2>1. s = [q EXCEPT ![i] = r]
    BY <1>3 DEF TransitionClaimedHostAssignment, r
  <2>2. DOMAIN s = DOMAIN q /\ s[i] = r /\ \A j \in DOMAIN q : j # i => s[j] = q[j]
    BY <2>1
  <2> QED BY <1>2, <1>3, <2>2 DEF Transitioned, TableMove, RowMove, Active
<1>4. CASE q[i].status # "claimed"
  <2>1. s = q
    BY <1>4 DEF TransitionClaimedHostAssignment
  <2> QED BY <2>1 DEF Transitioned, TableMove, RowMove
<1> QED BY <1>3, <1>4

\* The clock moves no status.
LEMMA AgeMoves ==
  ASSUME NEW q \in Seq(Row), NEW i \in DOMAIN q
  PROVE  LET s == AgeRow(q, i) IN
         /\ TableMove(q, s)
         /\ \A j \in DOMAIN q : s[j].status = q[j].status
<1> DEFINE r == [q[i] EXCEPT !.stale = TRUE]
           s == [q EXCEPT ![i] = r]
<1>1. q[i] \in Row
  BY RowsOf
<1>2. /\ r.status = q[i].status /\ r.plane = q[i].plane /\ r.type = q[i].type
      /\ r.max = q[i].max
  BY <1>1 DEF Row
<1> HIDE DEF r
<1>3. DOMAIN s = DOMAIN q /\ s[i] = r /\ \A j \in DOMAIN q : j # i => s[j] = q[j]
  OBVIOUS
<1>4. s = AgeRow(q, i)
  BY DEF AgeRow, r
<1> HIDE DEF s
<1> QED BY <1>2, <1>3, <1>4 DEF TableMove, RowMove

\* The rows that are left on node n were left before or belong to P.
KeptOn(n, P) == Kept(assignments[n], assignments'[n], P)

\* Superseding leaves no new row.
LEMMA SupersedeKeeps ==
  ASSUME IInv, NEW p, Supersede(p), NEW n \in Nodes
  PROVE  KeptOn(n, {})
<1>1. assignments'[n] = SupersedeAll(assignments[n], {p})
  BY DEF Supersede, SupersedePlane, SupersedeAll
<1>2. TableMove(assignments[n], SupersedeAll(assignments[n], {p}))
  BY NodeOf, SupersedeMoves
<1>3. Kept(assignments[n], SupersedeAll(assignments[n], {p}), {})
  BY <1>2, MoveKeeps
<1> QED BY <1>1, <1>3 DEF KeptOn

\* EnqueueHostAssignments with a row for each of the planes P.
Enqueued(q, q2, P) ==
  /\ DOMAIN q \subseteq DOMAIN q2 /\ DOMAIN q2 \subseteq Nat
  /\ \A i \in DOMAIN q :
       /\ RowMove(q[i], q2[i])
       /\ q2[i] = q[i] \/ (q2[i].status = "superseded" /\ q[i].plane \in P)
  /\ \A i \in DOMAIN q2 \ DOMAIN q :
       /\ q2[i].plane \in P /\ q2[i].status = "pending" /\ q2[i].max = MaxAttempts
       /\ \A j \in DOMAIN q : j < i
  /\ \A p \in P : \E i \in DOMAIN q2 \ DOMAIN q : q2[i].plane = p

\* That is what appending new rows does.
LEMMA AppendEnqueues ==
  ASSUME NEW q \in Seq(Row), NEW P, NEW new, NewRows(new, P)
  PROVE  Enqueued(q, SupersedeAll(q, P) \o new, P)
<1> DEFINE s == SupersedeAll(q, P)
<1>1. /\ TableMove(q, s)
      /\ \A i \in DOMAIN q :
           s[i] = q[i] \/ (s[i].status = "superseded" /\ q[i].plane \in P)
  BY SupersedeMoves
<1>2. s \in Seq(Row)
  <2>1. ASSUME NEW i \in DOMAIN q PROVE s[i] \in Row
    <3>1. q[i] \in Row
      BY RowsOf
    <3>2. Write(q[i], "superseded", FALSE) \in Row
      BY <3>1 DEF Write, Row, Statuses
    <3>3. s[i] = q[i] \/ s[i] = Write(q[i], "superseded", FALSE)
      BY DEF SupersedeAll
    <3> QED BY <3>1, <3>2, <3>3
  <2>2. s = [i \in 1..Len(q) |-> s[i]] /\ DOMAIN q = 1..Len(q) /\ Len(q) \in Nat
    BY RowsOf DEF SupersedeAll
  <2> HIDE DEF s
  <2>3. s \in [1..Len(q) -> Row]
    BY <2>1, <2>2
  <2> QED BY <2>2, <2>3, SeqDef
<1>3. new \in Seq(Row)
  BY DEF NewRows
<1>4. /\ s \o new \in Seq(Row) /\ Len(s \o new) = Len(s) + Len(new)
      /\ \A i \in 1..Len(s) + Len(new) :
           (s \o new)[i] = IF i <= Len(s) THEN s[i] ELSE new[i - Len(s)]
  BY <1>2, <1>3, ConcatProperties
<1> HIDE DEF s
<1>5. PICK a \in Nat, b \in Nat : a = Len(s) /\ b = Len(new)
  BY <1>2, <1>3, LenProperties
<1>6. DOMAIN q = 1..a /\ DOMAIN s = 1..a /\ DOMAIN new = 1..b
  BY <1>1, <1>2, <1>3, <1>5, RowsOf DEF TableMove
<1>7. PICK q2 : q2 = s \o new
  OBVIOUS
<1>8. DOMAIN q2 = 1..(a + b)
  BY <1>4, <1>5, <1>7, RowsOf
<1>9. ASSUME NEW i \in 1..a PROVE q2[i] = s[i]
  BY <1>4, <1>5, <1>7
<1>10. ASSUME NEW k \in 1..b PROVE q2[a + k] = new[k]
  <2>1. a + k \in 1..(a + b) /\ ~(a + k <= a) /\ (a + k) - a = k
    OBVIOUS
  <2> QED BY <1>4, <1>5, <1>7, <2>1
<1>11. DOMAIN q \subseteq DOMAIN q2 /\ DOMAIN q2 \subseteq Nat
  BY <1>6, <1>8
<1>12. ASSUME NEW i \in DOMAIN q
       PROVE  /\ RowMove(q[i], q2[i])
              /\ q2[i] = q[i] \/ (q2[i].status = "superseded" /\ q[i].plane \in P)
  BY <1>1, <1>6, <1>9 DEF TableMove
<1>13. ASSUME NEW i \in DOMAIN q2 \ DOMAIN q
       PROVE  /\ q2[i].plane \in P /\ q2[i].status = "pending"
              /\ q2[i].max = MaxAttempts
              /\ \A j \in DOMAIN q : j < i
  <2>1. PICK k \in 1..b : i = a + k
    <3>1. i \in 1..(a + b) /\ i \notin 1..a
      BY <1>6, <1>8
    <3>2. i - a \in 1..b /\ i = a + (i - a)
      BY <3>1
    <3> QED BY <3>2
  <2>2. NewRow(new[k], P)
    BY <1>6 DEF NewRows
  <2> QED BY <1>6, <1>10, <2>1, <2>2 DEF NewRow
<1>14. ASSUME NEW p \in P PROVE \E i \in DOMAIN q2 \ DOMAIN q : q2[i].plane = p
  <2>1. PICK k \in 1..b : new[k].plane = p
    BY <1>6 DEF NewRows
  <2>2. a + k \in 1..(a + b) /\ a + k \notin 1..a
    OBVIOUS
  <2> QED BY <1>6, <1>8, <1>10, <2>1, <2>2
<1>15. Enqueued(q, q2, P)
  BY <1>11, <1>12, <1>13, <1>14 DEF Enqueued
<1> QED BY <1>7, <1>15 DEF s

\* What Enqueue does on a node.
LEMMA EnqueueOf ==
  ASSUME IInv, NEW p \in Planes, NEW g \in 0..MaxGeneration, NEW T,
         \A n \in DOMAIN T : T[n] \in LifecycleTypes, Enqueue(p, g, T),
         NEW n \in Nodes
  PROVE  /\ n \in DOMAIN T => Enqueued(assignments[n], assignments'[n], {p})
         /\ n \notin DOMAIN T => assignments'[n] = assignments[n]
<1>1. CASE n \in DOMAIN T
  <2>1. PICK r : r = InsertAssignment(p, g, T[n])
    OBVIOUS
  <2>2. NewRow(r, {p})
    BY <1>1, <2>1, InsertRow DEF NewRow
  <2>3. PICK new : new = <<r>>
    OBVIOUS
  <2>4. new \in Seq(Row) /\ DOMAIN new = {1} /\ new[1] = r
    BY <2>2, <2>3 DEF NewRow
  <2>5. NewRows(new, {p})
    BY <2>2, <2>4 DEF NewRows, NewRow
  <2>6. PICK q \in Seq(Row) : q = assignments[n]
    BY NodeOf
  <2>7. Enqueued(q, SupersedeAll(q, {p}) \o new, {p})
    BY <2>5, AppendEnqueues
  <2>8. PICK s : s = SupersedeAll(q, {p})
    OBVIOUS
  <2>9. s = SupersedePlane(q, p)
    BY <2>8 DEF SupersedePlane, SupersedeAll
  <2>10. assignments'[n] = Append(s, r)
    BY <1>1, <2>1, <2>6, <2>9 DEF Enqueue
  <2>11. s \in Seq(Row)
    <3>1. NodeInv(SupersedeAll(q, {p}), observed[n], local[n], hostd[n])
      BY <2>6, NodeOf, SupersedeNode
    <3> QED BY <2>8, <3>1 DEF NodeInv
  <2>12. Append(s, r) = s \o new
    BY <2>2, <2>3, <2>11, AppendIsConcat DEF NewRow
  <2> QED BY <1>1, <2>6, <2>7, <2>8, <2>10, <2>12
<1>2. CASE n \notin DOMAIN T
  BY <1>2 DEF Enqueue
<1> QED BY <1>1, <1>2

\* What EnqueueOnNode does on its node and on others.
LEMMA EnqueueOnNodeOf ==
  ASSUME IInv, NEW n \in Nodes, NEW P \in SUBSET Planes,
         NEW type \in LifecycleTypes, EnqueueOnNode(n, P, type), NEW m \in Nodes
  PROVE  /\ m = n => Enqueued(assignments[m], assignments'[m], P)
         /\ m # n => assignments'[m] = assignments[m]
<1>1. PICK new \in Seq(Row) :
        /\ NewRows(new, P)
        /\ assignments' = [assignments EXCEPT ![n] = SupersedeAll(assignments[n], P) \o new]
  BY EnqueueOnNodeRows
<1>2. assignments[n] \in Seq(Row) /\ DOMAIN assignments = Nodes
  BY NodeOf DEF IInv, NodesInv
<1>3. Enqueued(assignments[n], SupersedeAll(assignments[n], P) \o new, P)
  BY <1>1, <1>2, AppendEnqueues
<1>4. assignments'[n] = SupersedeAll(assignments[n], P) \o new
  BY <1>1, <1>2
<1>5. m # n => assignments'[m] = assignments[m]
  BY <1>1, <1>2
<1> QED BY <1>3, <1>4, <1>5

\* Enqueueing leaves no new row but those of its planes.
LEMMA EnqueuedKeeps ==
  ASSUME NEW q, NEW q2, NEW P, Enqueued(q, q2, P)
  PROVE  Kept(q, q2, P)
BY DEF Enqueued, Kept, RowMove

\* ReconcileStaleClaimedAssignments on the rows of a node with observation o.
Reconciled(q, q2, o) ==
  /\ TableMove(q, q2)
  /\ \A i \in DOMAIN q :
       \/ q2[i] = q[i]
       \/ q2[i].status = "superseded" /\ ~IsLatest(q, i)
       \/ /\ q2[i].status = "applied"
          /\ o.plane = q[i].plane /\ o.status = "applied"

\* That is what Reconcile does on a node.
LEMMA ReconcileOf ==
  ASSUME IInv, NEW p, Reconcile(p), NEW n \in Nodes
  PROVE  Reconciled(assignments[n], assignments'[n], observed[n])
<1>1. PICK q : q = assignments[n]
  OBVIOUS
<1>2. PICK q2 : q2 = assignments'[n]
  OBVIOUS
<1>3. /\ DOMAIN q2 = DOMAIN q
      /\ \A i \in DOMAIN q :
           q2[i] = IF q[i].plane = p /\ q[i].status = "claimed"
                      /\ q[i].type = "apply-node-state"
                   THEN ReconcileRow(n, i) ELSE q[i]
  BY <1>1, <1>2 DEF Reconcile
<1>4. ASSUME NEW i \in DOMAIN q
      PROVE  /\ RowMove(q[i], q2[i])
             /\ \/ q2[i] = q[i]
                \/ q2[i].status = "superseded" /\ ~IsLatest(q, i)
                \/ /\ q2[i].status = "applied"
                   /\ observed[n].plane = q[i].plane /\ observed[n].status = "applied"
  <2>1. q[i] \in Row
    BY <1>1, NodeOf
  <2>2. CASE q2[i] = q[i]
    BY <2>2 DEF RowMove
  <2>3. CASE /\ q[i].status = "claimed" /\ ~IsLatest(q, i)
             /\ q2[i] = Write(q[i], "superseded", FALSE)
    <3>1. /\ q2[i].status = "superseded" /\ q2[i].plane = q[i].plane
          /\ q2[i].type = q[i].type /\ q2[i].max = q[i].max
      BY <2>1, <2>3 DEF Write, Row
    <3> QED BY <2>3, <3>1 DEF RowMove, Active
  <2>4. CASE /\ q[i].status = "claimed" /\ ObservedAsApplied(n, i)
             /\ q2[i] = Write(q[i], "applied", FALSE)
    <3>1. /\ q2[i].status = "applied" /\ q2[i].plane = q[i].plane
          /\ q2[i].type = q[i].type /\ q2[i].max = q[i].max
      BY <2>1, <2>4 DEF Write, Row
    <3>2. observed[n].plane = q[i].plane /\ observed[n].status = "applied"
      BY <1>1, <2>4 DEF ObservedAsApplied
    <3> QED BY <2>4, <3>1, <3>2 DEF RowMove, Active
  <2> QED BY <1>1, <1>3, <2>2, <2>3, <2>4 DEF ReconcileRow
<1>5. Reconciled(q, q2, observed[n])
  BY <1>3, <1>4 DEF Reconciled, TableMove
<1> QED BY <1>1, <1>2, <1>5

\* Nothing new is left, whatever planes are asked for.
LEMMA KeptMore ==
  ASSUME NEW q, NEW q2, NEW P, Kept(q, q2, P)
  PROVE  \A S : P \subseteq S => Kept(q, q2, S)
BY DEF Kept

\* A table that stays keeps its rows.
LEMMA KeptSame ==
  ASSUME NEW q
  PROVE  Kept(q, q, {})
BY DEF Kept

\* What a row of hostd's node may become without leaving a new row.
LEMMA HostdKeeps ==
  ASSUME IInv, NEW n \in Nodes, Hostd(n), NEW m \in Nodes
  PROVE  KeptOn(m, {})
<1>1. PICK q \in Seq(Row) : q = assignments[n]
  BY NodeOf
<1>2. TableInv(q)
  BY <1>1, NodeOf
<1>3. DOMAIN assignments = Nodes
  BY DEF IInv, NodesInv
<1>4. CASE \E q2 : TableMove(q, q2) /\ assignments' = [assignments EXCEPT ![n] = q2]
  <2>1. PICK q2 : TableMove(q, q2) /\ assignments' = [assignments EXCEPT ![n] = q2]
    BY <1>4
  <2>2. Kept(q, q2, {})
    BY <2>1, MoveKeeps
  <2>3. assignments'[m] = IF m = n THEN q2 ELSE assignments[m]
    BY <1>3, <2>1
  <2> QED BY <1>1, <2>2, <2>3, KeptSame DEF KeptOn
<1>5. CASE assignments' = assignments
  BY <1>5, KeptSame DEF KeptOn
<1>6. ASSUME NEW i \in DOMAIN assignments[n], ClaimNextAssignment(n, i)
      PROVE  \E q2 : TableMove(q, q2) /\ assignments' = [assignments EXCEPT ![n] = q2]
  <2>1. PICK s : s = Expire(q)
    OBVIOUS
  <2>2. TableMove(q, s)
    BY <1>2, <2>1, ExpireMoves
  <2>3. s \in Seq(Row)
    <3>1. NodeInv(Expire(q), observed[n], local[n], hostd[n])
      BY <1>1, NodeOf, ExpireNode
    <3> QED BY <2>1, <3>1 DEF NodeInv
  <2>4. i \in DOMAIN s /\ s[i].status = "pending"
    BY <1>1, <1>6, <2>1 DEF ClaimNextAssignment, ClaimedFirst, Claimable
  <2>5. TableMove(s, ClaimRow(s, i))
    BY <2>3, <2>4, ClaimMoves
  <2>6. TableMove(q, ClaimRow(s, i))
    <3>1. PICK c : c = ClaimRow(s, i)
      OBVIOUS
    <3>2. TableMove(q, c)
      BY <2>2, <2>5, <3>1 DEF TableMove, RowMove
    <3> QED BY <3>1, <3>2
  <2> QED BY <1>1, <1>6, <2>1, <2>6 DEF ClaimNextAssignment
<1>7. CASE ExpireLeasesOnly(n)
  <2>1. TableMove(q, Expire(q))
    BY <1>2, ExpireMoves
  <2> QED BY <1>1, <1>4, <1>7, <2>1 DEF ExpireLeasesOnly
<1>8. CASE TransitionApplied(n) \/ FailAssignment(n)
  <2>1. PICK i \in DOMAIN q : i = hostd[n].id
    BY <1>1, <1>8, CopyOf DEF TransitionApplied, FailAssignment
  <2>2. \E st \in {"applied", "pending", "failed"} :
          assignments' = [assignments EXCEPT ![n] =
            TransitionClaimedHostAssignment(q, i, st, FALSE)]
    BY <1>1, <1>8, <2>1 DEF TransitionApplied, FailAssignment
  <2>3. PICK st \in {"applied", "pending", "failed"} :
          assignments' = [assignments EXCEPT ![n] =
            TransitionClaimedHostAssignment(q, i, st, FALSE)]
    BY <2>2
  <2>4. PICK q2 : q2 = TransitionClaimedHostAssignment(q, i, st, FALSE)
    OBVIOUS
  <2>5. Transitioned(q, q2, i, st)
    BY <2>4, TransitionMoves
  <2> QED BY <1>4, <2>3, <2>4, <2>5 DEF Transitioned
<1>9. CASE Crash(n)
  <2>1. PICK i \in DOMAIN q : i = hostd[n].id
    BY <1>1, <1>9, CopyOf DEF Crash
  <2>2. TableMove(q, AgeRow(q, i)) /\ TableMove(q, q)
    BY AgeMoves DEF TableMove, RowMove
  <2>3. assignments' = [assignments EXCEPT ![n] = AgeRow(q, i)]
        \/ assignments' = [assignments EXCEPT ![n] = q]
    BY <1>1, <1>9, <2>1 DEF Crash
  <2> QED BY <1>4, <2>2, <2>3
<1>10. CASE \/ ReportApplying(n) \/ ApplyDesiredNodeState(n) \/ ReportApplied(n)
            \/ ConvergeGeneration(n) \/ ReportLocalObservedState(n)
  BY <1>5, <1>10 DEF ReportApplying, ApplyDesiredNodeState, ReportApplied,
     ConvergeGeneration, ReportLocalObservedState
<1> QED BY <1>4, <1>6, <1>7, <1>8, <1>9, <1>10 DEF Hostd

\* The planes of the commands that are at work next are registered now.
OpsRegistered ==
  \A t \in Threads : op'[t].step \in PlaneSteps => op'[t].plane \in Registered

\* A step that unregisters no plane and leaves rows of registered planes only.
LEMMA RegistryStep ==
  ASSUME RegistryInv, Registered \subseteq Registered', OpsRegistered,
         \A n \in Nodes : KeptOn(n, Registered)
  PROVE  RegistryInv'
<1>1. ASSUME NEW n \in Nodes PROVE RowsWithin(assignments[n], Registered)'
  <2>1. RowsWithin(assignments[n], Registered) /\ KeptOn(n, Registered)
    BY DEF RegistryInv
  <2>2. PICK S : S = Registered
    OBVIOUS
  <2>3. PICK S2 : S2 = Registered'
    OBVIOUS
  <2>4. RowsWithin(assignments'[n], S2)
    BY <2>1, <2>2, <2>3 DEF RowsWithin, KeptOn, Kept
  <2> QED BY <2>3, <2>4 DEF RowsWithin
<1>2. ASSUME NEW t \in Threads, op'[t].step \in PlaneSteps
      PROVE  op'[t].plane \in Registered'
  BY <1>2 DEF OpsRegistered
<1> QED BY <1>1, <1>2 DEF RegistryInv

\* The commands that stay as they are.
LEMMA OpsStay ==
  ASSUME RegistryInv, op' = op
  PROVE  OpsRegistered
BY DEF RegistryInv, OpsRegistered

\* One thread gets a new operation.
LEMMA OpRegistered ==
  ASSUME IInv, RegistryInv, NEW t \in Threads, NEW x,
         op' = [op EXCEPT ![t] = x],
         x.step \in PlaneSteps => x.plane \in Registered
  PROVE  OpsRegistered
<1>1. op'[t] = x /\ \A u \in Threads : u # t => op'[u] = op[u]
  BY DEF IInv, PlanesInv, OpsInv
<1> QED BY <1>1 DEF RegistryInv, OpsRegistered

\* A thread that goes on or ends.
LEMMA GoneOn ==
  ASSUME IInv, RegistryInv, NEW t \in Threads,
         Done(t) \/ (op[t].step \in PlaneSteps /\ \E s : Goto(t, s))
  PROVE  OpsRegistered
<1>1. CASE Done(t)
  <2>1. NoOperation.step \notin PlaneSteps
    BY DEF NoOperation, PlaneSteps
  <2> QED BY <1>1, <2>1, OpRegistered DEF Done
<1>2. CASE op[t].step \in PlaneSteps /\ \E s : Goto(t, s)
  <2>1. PICK s : Goto(t, s)
    BY <1>2
  <2>2. PICK x : x = op[t]
    OBVIOUS
  <2>3. x \in Operation /\ x.plane \in Registered
    BY <1>2, <2>2, OpOf DEF RegistryInv
  <2> DEFINE y == [x EXCEPT !.step = s]
  <2>4. y.plane \in Registered
    BY <2>3 DEF Operation
  <2>5. op' = [op EXCEPT ![t] = y]
    BY <2>1, <2>2 DEF Goto
  <2> HIDE DEF y
  <2> QED BY <2>4, <2>5, OpRegistered
<1> QED BY <1>1, <1>2

\* Planes whose state changes, but not to absent, stay registered.
LEMMA StaysRegistered ==
  ASSUME IInv, NEW p, NEW r, r.state # "absent",
         planes' = [planes EXCEPT ![p] = r]
  PROVE  Registered \subseteq Registered'
<1>1. ASSUME NEW x \in Registered PROVE x \in Registered'
  <2>1. x \in Planes /\ planes[x].state # "absent" /\ DOMAIN planes = Planes
    BY DEF Registered, Exists, IInv, PlanesInv, StoreInv
  <2>2. planes'[x] = IF x = p THEN r ELSE planes[x]
    BY <2>1
  <2>3. planes'[x].state # "absent"
    BY <2>1, <2>2
  <2> QED BY <2>1, <2>3 DEF Registered, Exists
<1> QED BY <1>1

\* The same if a field other than the state is written.
LEMMA AppliedRegistered ==
  ASSUME IInv, NEW p \in Planes, NEW g, Exists(p),
         planes' = [planes EXCEPT ![p].applied = g]
  PROVE  Registered \subseteq Registered'
<1>1. PICK r : r = planes[p]
  OBVIOUS
<1>2. r \in PlaneRecord /\ r.state # "absent"
  BY <1>1, PlaneOf DEF Exists
<1> DEFINE y == [r EXCEPT !.applied = g]
<1>3. y.state # "absent"
  BY <1>2 DEF PlaneRecord
<1>4. planes' = [planes EXCEPT ![p] = y]
  BY <1>1
<1> HIDE DEF y
<1> QED BY <1>3, <1>4, StaysRegistered

\* The steps of hostd keep rows and planes together.
LEMMA HostdRegistry ==
  ASSUME IInv, RegistryInv, NEW n \in Nodes, Hostd(n)
  PROVE  RegistryInv'
<1>1. \A m \in Nodes : KeptOn(m, {})
  BY HostdKeeps
<1>2. \A m \in Nodes : KeptOn(m, Registered)
  BY <1>1 DEF KeptOn, Kept
<1>3. op' = op
  BY DEF Hostd, ClaimNextAssignment, ExpireLeasesOnly, ReportApplying,
     ApplyDesiredNodeState, ReportApplied, TransitionApplied, ConvergeGeneration,
     FailAssignment, Crash, ReportLocalObservedState
<1>4. OpsRegistered
  BY <1>3, OpsStay
<1>5. Registered \subseteq Registered'
  <2>1. CASE planes' = planes
    BY <2>1 DEF Registered, Exists
  <2>2. CASE ConvergeGeneration(n)
    <3>1. PICK p \in Planes, g \in Nat : p = Copy(n).plane /\ g = Copy(n).generation
      BY <2>2, CopyOf, MaxGenerationAssumption DEF ConvergeGeneration, RowInv, Row
    <3>2. planes' = planes
          \/ (Exists(p) /\ planes' = [planes EXCEPT ![p].applied = g])
      BY <2>2, <3>1 DEF ConvergeGeneration
    <3> QED BY <2>1, <3>2, AppliedRegistered
  <2>3. planes' = planes \/ ConvergeGeneration(n)
    BY DEF Hostd, ClaimNextAssignment, ExpireLeasesOnly, ReportApplying,
       ApplyDesiredNodeState, ReportApplied, TransitionApplied, FailAssignment,
       Crash, ReportLocalObservedState
  <2> QED BY <2>1, <2>2, <2>3
<1> QED BY <1>2, <1>4, <1>5, RegistryStep

\* So does a retry, which brings no row back that is deleted.
LEMMA RetryRegistry ==
  ASSUME IInv, RegistryInv, NEW n \in Nodes, NEW i \in DOMAIN assignments[n],
         RetryHostAssignment(n, i)
  PROVE  RegistryInv'
<1>1. PICK q \in Seq(Row) : q = assignments[n]
  BY NodeOf
<1>2. q[i] \in Row /\ q[i].status = "failed"
  BY <1>1, RowsOf DEF RetryHostAssignment
<1> DEFINE v == Write(q[i], "pending", FALSE)
           x == IF q[i].max < q[i].attempts + 1 THEN q[i].attempts + 1 ELSE q[i].max
           w == [v EXCEPT !.max = x]
<1>3. v.plane = q[i].plane /\ v \in Row
  BY <1>2 DEF Write, Row, Statuses
<1>4. assignments' = [assignments EXCEPT ![n] = [q EXCEPT ![i] = w]]
  BY <1>1, <1>2 DEF RetryHostAssignment, RetryFailedHostAssignment
<1> HIDE DEF v, x
<1>5. w.plane = q[i].plane
  BY <1>3 DEF Row
<1> HIDE DEF w
<1>6. Kept(q, [q EXCEPT ![i] = w], Registered)
  BY <1>1, <1>2, <1>5 DEF Kept
<1>7. ASSUME NEW m \in Nodes PROVE KeptOn(m, Registered)
  <2>1. assignments'[m] = IF m = n THEN [q EXCEPT ![i] = w] ELSE assignments[m]
    BY <1>4 DEF IInv, NodesInv
  <2> QED BY <1>1, <1>6, <2>1 DEF KeptOn, Kept
<1>8. op' = op /\ planes' = planes
  BY DEF RetryHostAssignment
<1>9. Registered \subseteq Registered'
  BY <1>8 DEF Registered, Exists
<1> QED BY <1>7, <1>8, <1>9, OpsStay, RegistryStep

\* Raising the applied generation and reconciling do so too.
LEMMA TickRegistry ==
  ASSUME IInv, RegistryInv, NEW p \in Planes,
         RaiseAppliedGeneration(p) \/ ReconcileTick(p)
  PROVE  RegistryInv'
<1>1. op' = op
  BY DEF RaiseAppliedGeneration, ReconcileTick
<1>2. CASE RaiseAppliedGeneration(p)
  <2>1. PICK g : g = planes[p].generation
    OBVIOUS
  <2>2. /\ Exists(p) /\ assignments' = assignments
        /\ planes' = [planes EXCEPT ![p].applied = g]
    BY <1>2, <2>1 DEF RaiseAppliedGeneration
  <2>3. Registered \subseteq Registered'
    BY <2>2, AppliedRegistered
  <2>4. \A n \in Nodes : KeptOn(n, Registered)
    BY <2>2 DEF KeptOn, Kept
  <2> QED BY <1>1, <2>3, <2>4, OpsStay, RegistryStep
<1>3. CASE ReconcileTick(p)
  <2>1. Reconcile(p) /\ planes' = planes
    BY <1>3 DEF ReconcileTick
  <2>2. ASSUME NEW n \in Nodes PROVE KeptOn(n, Registered)
    <3>1. TableMove(assignments[n], assignments'[n])
      BY <2>1, ReconcileOf DEF Reconciled
    <3> QED BY <3>1 DEF TableMove, RowMove, KeptOn, Kept
  <2>3. Registered \subseteq Registered'
    BY <2>1 DEF Registered, Exists
  <2> QED BY <1>1, <2>2, <2>3, OpsStay, RegistryStep
<1> QED BY <1>2, <1>3

\* What the steps that enqueue rows for the plane of a command do on the nodes.
LEMMA EnqueuesOf ==
  ASSUME IInv, NEW t \in Threads,
         StartEnqueues(t) \/ StopEnqueues(t) \/ DeleteEnqueues(t)
  PROVE  /\ op[t].step \in PlaneSteps
         /\ \A n \in Nodes :
              \/ Enqueued(assignments[n], assignments'[n], {op[t].plane})
              \/ assignments'[n] = assignments[n]
         /\ DeleteEnqueues(t) =>
              \A n \in op[t].seen.nodes :
                Enqueued(assignments[n], assignments'[n], {op[t].plane})
         /\ \A n \in Nodes : assignments'[n] # assignments[n] =>
              n \in op[t].seen.nodes \/ (StartEnqueues(t) /\ n \in RemovedNodes(t))
<1>1. op[t].step \in PlaneSteps
  BY DEF StartEnqueues, StopEnqueues, DeleteEnqueues, PlaneSteps, Steps
<1>2. PICK p \in Planes, g \in 0..MaxGeneration :
        p = op[t].plane /\ g = op[t].seen.generation
  BY <1>1, OpOf
<1>3. {"apply-node-state", "delete-plane-state", "stop-plane-state"}
        \subseteq LifecycleTypes
  BY DEF LifecycleTypes
<1>4. op[t].seen.nodes \in SUBSET Nodes
  BY OpOf
<1>5. ASSUME NEW T, \A n \in DOMAIN T : T[n] \in LifecycleTypes, Enqueue(p, g, T),
             NEW n \in Nodes
      PROVE  /\ n \in DOMAIN T => Enqueued(assignments[n], assignments'[n], {p})
             /\ n \notin DOMAIN T => assignments'[n] = assignments[n]
  BY <1>5, EnqueueOf
<1>6. CASE StartEnqueues(t)
  <2>1. PICK stale \in SUBSET {n \in Nodes : observed[n].status # "none"} :
          Enqueue(op[t].plane, op[t].seen.generation,
                  [n \in StartNodes(t, stale) \cup RemovedNodes(t) |->
                     IF n \in op[t].seen.nodes THEN "apply-node-state"
                     ELSE "delete-plane-state"])
    BY <1>6 DEF StartEnqueues
  <2>2. PICK T : T = [n \in StartNodes(t, stale) \cup RemovedNodes(t) |->
                        IF n \in op[t].seen.nodes THEN "apply-node-state"
                        ELSE "delete-plane-state"]
    OBVIOUS
  <2>3. /\ \A n \in DOMAIN T : T[n] \in LifecycleTypes
        /\ DOMAIN T = StartNodes(t, stale) \cup RemovedNodes(t)
        /\ Enqueue(p, g, T)
    BY <1>2, <1>3, <2>1, <2>2
  <2>4. StartNodes(t, stale) \subseteq op[t].seen.nodes
    BY DEF StartNodes
  <2>5. ~DeleteEnqueues(t)
    BY <1>6 DEF StartEnqueues, DeleteEnqueues
  <2> QED BY <1>1, <1>2, <1>5, <1>6, <2>3, <2>4, <2>5
<1>7. CASE StopEnqueues(t)
  <2>1. PICK T : T = [n \in {m \in op[t].seen.nodes : available[m]} |-> "stop-plane-state"]
    OBVIOUS
  <2>2. /\ \A n \in DOMAIN T : T[n] \in LifecycleTypes
        /\ DOMAIN T \subseteq op[t].seen.nodes
        /\ Enqueue(p, g, T)
    BY <1>2, <1>3, <1>7, <2>1 DEF StopEnqueues
  <2>3. ~DeleteEnqueues(t)
    BY <1>7 DEF StopEnqueues, DeleteEnqueues
  <2> QED BY <1>1, <1>2, <1>5, <2>2, <2>3
<1>8. CASE DeleteEnqueues(t)
  <2>1. PICK T : T = [n \in op[t].seen.nodes |-> "delete-plane-state"]
    OBVIOUS
  <2>2. /\ \A n \in DOMAIN T : T[n] \in LifecycleTypes
        /\ DOMAIN T = op[t].seen.nodes
        /\ Enqueue(p, g, T)
    BY <1>2, <1>3, <1>8, <2>1 DEF DeleteEnqueues
  <2> QED BY <1>1, <1>2, <1>4, <1>5, <2>2
<1> QED BY <1>6, <1>7, <1>8

\* A command that has loaded its plane keeps rows and planes together.
LEMMA PlaneStepRegistry ==
  ASSUME IInv, RegistryInv, NEW t \in Threads,
         \/ StartSetsState(t) \/ StopSetsState(t) \/ DeleteSetsState(t)
         \/ StopSupersedes(t) \/ DeleteSupersedes(t)
         \/ StartEnqueues(t) \/ StopEnqueues(t) \/ DeleteEnqueues(t)
         \/ CommandReconciles(t)
  PROVE  RegistryInv'
<1>1. op[t].step \in PlaneSteps
  BY DEF StartSetsState, StopSetsState, DeleteSetsState, StopSupersedes,
     DeleteSupersedes, StartEnqueues, StopEnqueues, DeleteEnqueues,
     CommandReconciles, PlaneSteps, Steps
<1>2. PICK p \in Planes : p = op[t].plane
  BY <1>1, OpOf
<1>3. p \in Registered
  BY <1>1, <1>2 DEF RegistryInv
<1>4. OpsRegistered
  <2>1. Done(t) \/ \E s : Goto(t, s)
    BY DEF StartSetsState, StopSetsState, DeleteSetsState, StopSupersedes,
       DeleteSupersedes, StartEnqueues, StopEnqueues, DeleteEnqueues,
       CommandReconciles, UpdatePlaneState
  <2> QED BY <1>1, <2>1, GoneOn
<1>5. CASE StartSetsState(t) \/ StopSetsState(t) \/ DeleteSetsState(t)
  <2>1. \E st \in {"running", "stopped", "deleting"} :
           planes' = planes \/ planes' = [planes EXCEPT ![p].state = st]
    BY <1>2, <1>5 DEF StartSetsState, StopSetsState, DeleteSetsState, UpdatePlaneState
  <2>2. PICK st \in {"running", "stopped", "deleting"} :
           planes' = planes \/ planes' = [planes EXCEPT ![p].state = st]
    BY <2>1
  <2>3. PICK r : r = planes[p]
    OBVIOUS
  <2>4. r \in PlaneRecord
    BY <2>3, PlaneOf
  <2> DEFINE y == [r EXCEPT !.state = st]
  <2>5. y.state # "absent"
    BY <2>4 DEF PlaneRecord
  <2>6. planes' = planes \/ planes' = [planes EXCEPT ![p] = y]
    BY <2>2, <2>3
  <2> HIDE DEF y
  <2>7. planes' = planes => Registered \subseteq Registered'
    BY DEF Registered, Exists
  <2>8. Registered \subseteq Registered'
    BY <2>5, <2>6, <2>7, StaysRegistered
  <2>9. \A n \in Nodes : KeptOn(n, Registered)
    BY <1>5 DEF StartSetsState, StopSetsState, DeleteSetsState, KeptOn, Kept
  <2> QED BY <1>4, <2>8, <2>9, RegistryStep
<1>6. planes' = planes => Registered \subseteq Registered'
  BY DEF Registered, Exists
<1>7. CASE StopSupersedes(t) \/ DeleteSupersedes(t)
  <2>1. Supersede(p) /\ planes' = planes
    BY <1>2, <1>7 DEF StopSupersedes, DeleteSupersedes
  <2>2. \A n \in Nodes : KeptOn(n, {})
    BY <2>1, SupersedeKeeps
  <2>3. \A n \in Nodes : KeptOn(n, Registered)
    BY <2>2 DEF KeptOn, Kept
  <2> QED BY <1>4, <1>6, <2>1, <2>3, RegistryStep
<1>8. CASE StartEnqueues(t) \/ StopEnqueues(t) \/ DeleteEnqueues(t)
  <2>1. planes' = planes
    BY <1>8 DEF StartEnqueues, StopEnqueues, DeleteEnqueues
  <2>2. ASSUME NEW n \in Nodes PROVE KeptOn(n, Registered)
    <3>1. \/ Enqueued(assignments[n], assignments'[n], {p})
          \/ assignments'[n] = assignments[n]
      BY <1>2, <1>8, EnqueuesOf
    <3> QED BY <1>3, <3>1 DEF Enqueued, RowMove, KeptOn, Kept
  <2> QED BY <1>4, <1>6, <2>1, <2>2, RegistryStep
<1>9. CASE CommandReconciles(t)
  <2>1. Reconcile(p) /\ planes' = planes
    BY <1>2, <1>9 DEF CommandReconciles
  <2>2. ASSUME NEW n \in Nodes PROVE KeptOn(n, Registered)
    <3>1. TableMove(assignments[n], assignments'[n])
      BY <2>1, ReconcileOf DEF Reconciled
    <3> QED BY <3>1 DEF TableMove, RowMove, KeptOn, Kept
  <2> QED BY <1>4, <1>6, <2>1, <2>2, RegistryStep
<1> QED BY <1>5, <1>7, <1>8, <1>9

\* What draining and resyncing do on the nodes.
LEMMA DrainResyncOf ==
  ASSUME IInv, NEW t \in Threads, NEW n \in Nodes, DrainNode(t, n) \/ ResyncNode(t, n)
  PROVE  \E P \in SUBSET AffectedPlanes(n) :
           \A m \in Nodes :
             /\ m = n => Enqueued(assignments[m], assignments'[m], P)
             /\ m # n => assignments'[m] = assignments[m]
<1>1. AffectedPlanes(n) \in SUBSET Planes
  BY DEF AffectedPlanes
<1>2. \E P \in SUBSET AffectedPlanes(n), type \in LifecycleTypes : EnqueueOnNode(n, P, type)
  <2>1. {p \in AffectedPlanes(n) : ~InSync(n, p)} \in SUBSET AffectedPlanes(n)
    OBVIOUS
  <2>2. {"drain-node-state", "apply-node-state"} \subseteq LifecycleTypes
    BY DEF LifecycleTypes
  <2>3. CASE DrainNode(t, n)
    BY <2>2, <2>3 DEF DrainNode
  <2>4. CASE ResyncNode(t, n)
    BY <2>1, <2>2, <2>4 DEF ResyncNode
  <2> QED BY <2>3, <2>4
<1>3. PICK P \in SUBSET AffectedPlanes(n), type \in LifecycleTypes : EnqueueOnNode(n, P, type)
  BY <1>2
<1>4. P \in SUBSET Planes
  BY <1>1
<1>5. ASSUME NEW m \in Nodes
      PROVE  /\ m = n => Enqueued(assignments[m], assignments'[m], P)
             /\ m # n => assignments'[m] = assignments[m]
  BY <1>3, <1>4, EnqueueOnNodeOf
<1> QED BY <1>5

\* Draining and resyncing concern planes of the registry.
LEMMA DrainResyncRegistry ==
  ASSUME IInv, RegistryInv, NEW t \in Threads, NEW n \in Nodes,
         DrainNode(t, n) \/ ResyncNode(t, n)
  PROVE  RegistryInv'
<1>1. Done(t) /\ planes' = planes
  BY DEF DrainNode, ResyncNode
<1>2. OpsRegistered
  BY <1>1, GoneOn
<1>3. PICK P \in SUBSET AffectedPlanes(n) :
        \A m \in Nodes :
          /\ m = n => Enqueued(assignments[m], assignments'[m], P)
          /\ m # n => assignments'[m] = assignments[m]
  BY DrainResyncOf
<1>4. P \subseteq Registered
  BY DEF AffectedPlanes, Registered, Exists
<1>5. \A m \in Nodes : KeptOn(m, Registered)
  BY <1>3, <1>4 DEF Enqueued, RowMove, KeptOn, Kept
<1>6. Registered \subseteq Registered'
  BY <1>1 DEF Registered, Exists
<1> QED BY <1>2, <1>5, <1>6, RegistryStep

\* The commands that start load a plane of the registry.
LEMMA LoadRegistry ==
  ASSUME IInv, RegistryInv, NEW t \in Threads,
         \/ \E p \in Planes :
              \/ StartPlane(t, p) \/ StopPlane(t, p) \/ DeletePlane(t, p)
              \/ FinalizeDeletedPlaneIfReady(t, p)
              \/ \E N \in (SUBSET Nodes) \ {{}} : ApplyDesiredState(t, p, N)
         \/ \E n \in Nodes, active \in BOOLEAN : SetNodeAvailability(t, n, active)
  PROVE  RegistryInv'
<1>1. planes' = planes /\ assignments' = assignments
  BY DEF StartPlane, StopPlane, DeletePlane, FinalizeDeletedPlaneIfReady,
     ApplyDesiredState, SetNodeAvailability
<1>2. Registered \subseteq Registered' /\ \A n \in Nodes : KeptOn(n, Registered)
  BY <1>1 DEF Registered, Exists, KeptOn, Kept
<1>3. OpsRegistered
  <2>1. ASSUME NEW p \in Planes,
               \/ StartPlane(t, p) \/ StopPlane(t, p) \/ DeletePlane(t, p)
               \/ FinalizeDeletedPlaneIfReady(t, p)
        PROVE  OpsRegistered
    <3>1. p \in Registered
      BY <2>1 DEF StartPlane, StopPlane, DeletePlane, FinalizeDeletedPlaneIfReady,
         Registered, Exists
    <3>2. \E x : x.plane = p /\ op' = [op EXCEPT ![t] = x]
      BY <2>1 DEF StartPlane, StopPlane, DeletePlane, FinalizeDeletedPlaneIfReady, Load
    <3> QED BY <3>1, <3>2, OpRegistered
  <2>2. ASSUME NEW p \in Planes, NEW N, ApplyDesiredState(t, p, N)
        PROVE  OpsRegistered
    <3>1. \E x : x.step = "replace" /\ op' = [op EXCEPT ![t] = x]
      BY <2>2 DEF ApplyDesiredState
    <3>2. "replace" \notin PlaneSteps
      BY DEF PlaneSteps
    <3> QED BY <3>1, <3>2, OpRegistered
  <2>3. ASSUME NEW n \in Nodes, NEW active \in BOOLEAN, SetNodeAvailability(t, n, active)
        PROVE  OpsRegistered
    <3>1. PICK s \in {"resync", "drain"} : s = IF active THEN "resync" ELSE "drain"
      OBVIOUS
    <3> DEFINE x == [NoOperation EXCEPT !.step = s, !.nodes = {n}]
    <3>2. x.step = s /\ op' = [op EXCEPT ![t] = x]
      BY <2>3, <3>1 DEF SetNodeAvailability, NoOperation
    <3>3. s \notin PlaneSteps
      BY DEF PlaneSteps
    <3> HIDE DEF x
    <3> QED BY <3>2, <3>3, OpRegistered
  <2> QED BY <2>1, <2>2, <2>3
<1> QED BY <1>2, <1>3, RegistryStep

\* ReplaceDesiredState registers its plane.
LEMMA ReplaceRegistry ==
  ASSUME IInv, RegistryInv, NEW t \in Threads, ReplaceDesiredState(t)
  PROVE  RegistryInv'
<1>1. PICK p \in Planes : p = op[t].plane
  BY OpOf DEF ReplaceDesiredState
<1>2. \E r : r.state # "absent" /\ planes' = [planes EXCEPT ![p] = r]
  <2>1. PICK st : st = IF Exists(p) THEN planes[p].state ELSE "stopped"
    OBVIOUS
  <2>2. st # "absent"
    BY <2>1 DEF Exists
  <2>3. planes' = [planes EXCEPT ![p] =
          [state |-> st, generation |-> op[t].seen.generation + 1,
           applied |-> planes[p].applied, nodes |-> op[t].nodes]]
    BY <1>1, <2>1 DEF ReplaceDesiredState
  <2> QED BY <2>2, <2>3
<1>3. Registered \subseteq Registered'
  BY <1>2, StaysRegistered
<1>4. Done(t) /\ assignments' = assignments
  BY DEF ReplaceDesiredState
<1>5. OpsRegistered
  BY <1>4, GoneOn
<1>6. \A n \in Nodes : KeptOn(n, Registered)
  BY <1>4 DEF KeptOn, Kept
<1> QED BY <1>3, <1>5, <1>6, RegistryStep

\* Deleting the rows of a plane moves the other rows not at all.
LEMMA DeletedRows ==
  ASSUME NEW q \in Seq(Row), NEW p
  PROVE  LET s == DeletePlaneRows(q, p) IN
         /\ DOMAIN s = DOMAIN q
         /\ \A i \in DOMAIN q :
              /\ s[i].plane = q[i].plane /\ s[i].type = q[i].type
              /\ s[i].max = q[i].max
              /\ q[i].plane = p => s[i].status = "deleted"
              /\ q[i].plane # p => s[i] = q[i]
<1> DEFINE s == DeletePlaneRows(q, p)
<1>1. DOMAIN s = DOMAIN q
  BY DEF DeletePlaneRows
<1>2. ASSUME NEW i \in DOMAIN q
      PROVE  /\ s[i].plane = q[i].plane /\ s[i].type = q[i].type
             /\ s[i].max = q[i].max
             /\ q[i].plane = p => s[i].status = "deleted"
             /\ q[i].plane # p => s[i] = q[i]
  <2>1. q[i] \in Row
    BY RowsOf
  <2>2. s[i] = IF q[i].plane = p THEN Write(q[i], "deleted", FALSE) ELSE q[i]
    BY DEF DeletePlaneRows
  <2> HIDE DEF s
  <2>3. CASE q[i].plane = p
    BY <2>1, <2>2, <2>3 DEF Write, Row
  <2>4. CASE q[i].plane # p
    BY <2>2, <2>4
  <2> QED BY <2>3, <2>4
<1> QED BY <1>1, <1>2

\* FinalizeDeletes takes the rows along, and no other command works on the plane.
LEMMA FinalizeRegistry ==
  ASSUME IInv, RegistryInv, OneThread, NEW t \in Threads, FinalizeDeletes(t)
  PROVE  RegistryInv'
<1>1. op[t].step \in PlaneSteps
  BY DEF FinalizeDeletes, PlaneSteps, Steps
<1>2. PICK p \in Planes : p = op[t].plane
  BY <1>1, OpOf
<1>3. /\ planes' = [planes EXCEPT ![p] = Absent]
      /\ assignments' = [n \in Nodes |-> DeletePlaneRows(assignments[n], p)]
      /\ op' = [op EXCEPT ![t] = NoOperation]
  BY <1>2 DEF FinalizeDeletes, Done
<1>4. Registered \ {p} \subseteq Registered'
  <2>1. \A x \in Planes : x # p => planes'[x] = planes[x]
    BY <1>3 DEF IInv, PlanesInv, StoreInv
  <2> QED BY <2>1 DEF Registered, Exists
<1>5. ASSUME NEW n \in Nodes PROVE RowsWithin(assignments[n], Registered)'
  <2>1. PICK q \in Seq(Row) : q = assignments[n]
    BY NodeOf
  <2>2. PICK q2 : q2 = DeletePlaneRows(q, p)
    OBVIOUS
  <2>3. /\ DOMAIN q2 = DOMAIN q
        /\ \A i \in DOMAIN q :
             /\ q2[i].plane = q[i].plane
             /\ q[i].plane = p => q2[i].status = "deleted"
             /\ q[i].plane # p => q2[i] = q[i]
    BY <2>2, DeletedRows
  <2>4. PICK S, S2 : S = Registered /\ S2 = Registered'
    OBVIOUS
  <2>5. RowsWithin(q, S) /\ S \ {p} \subseteq S2
    BY <1>4, <2>1, <2>4 DEF RegistryInv
  <2>6. RowsWithin(q2, S2)
    BY <2>3, <2>5 DEF RowsWithin
  <2>7. assignments'[n] = q2
    BY <1>3, <2>1, <2>2
  <2> QED BY <2>4, <2>6, <2>7 DEF RowsWithin
<1>6. ASSUME NEW u \in Threads PROVE op'[u].step \notin PlaneSteps
  <2>1. u = t
    BY DEF OneThread
  <2>2. op'[u] = NoOperation
    BY <1>3, <2>1 DEF IInv, PlanesInv, OpsInv
  <2> QED BY <2>2 DEF NoOperation, PlaneSteps
<1> QED BY <1>5, <1>6 DEF RegistryInv

\* Every step keeps rows and planes together when commands take turns.
LEMMA NextRegistry ==
  ASSUME OneThread
  PROVE  IInv /\ RegistryInv /\ [Next]_vars => RegistryInv'
<1> SUFFICES ASSUME IInv, RegistryInv, [Next]_vars PROVE RegistryInv'
  OBVIOUS
<1>1. ASSUME NEW t \in Threads, Command(t) PROVE RegistryInv'
  BY <1>1, LoadRegistry, PlaneStepRegistry, FinalizeRegistry, ReplaceRegistry,
     DrainResyncRegistry DEF Command
<1>2. ASSUME NEW n \in Nodes, Hostd(n) PROVE RegistryInv'
  BY <1>2, HostdRegistry
<1>3. ASSUME NEW n \in Nodes, NEW i \in DOMAIN assignments[n], RetryHostAssignment(n, i)
      PROVE  RegistryInv'
  BY <1>3, RetryRegistry
<1>4. ASSUME NEW p \in Planes, RaiseAppliedGeneration(p) \/ ReconcileTick(p)
      PROVE  RegistryInv'
  BY <1>4, TickRegistry
<1>5. CASE UNCHANGED vars
  <2>1. planes' = planes /\ assignments' = assignments /\ op' = op
    BY <1>5 DEF vars
  <2> QED BY <2>1 DEF RegistryInv, RowsWithin, Registered, Exists
<1> QED BY <1>1, <1>2, <1>3, <1>4, <1>5 DEF Next

\* Rows and planes stay together when commands take turns.
LEMMA RegistryHolds ==
  ASSUME OneThread
  PROVE  Spec => []RegistryInv
<1>1. Init => RegistryInv
  <2> SUFFICES ASSUME Init PROVE RegistryInv
    OBVIOUS
  <2>1. \A n \in Nodes : DOMAIN assignments[n] = {}
    BY DEF Init
  <2>2. \A t \in Threads : op[t].step \notin PlaneSteps
    BY DEF Init, NoOperation, PlaneSteps
  <2> QED BY <2>1, <2>2 DEF RegistryInv, RowsWithin
<1>2. IInv /\ RegistryInv /\ [Next]_vars => RegistryInv'
  BY NextRegistry
<1> QED BY <1>1, <1>2, Invariance, PTL DEF Spec

\* Nothing is left that would bring a deleted plane back: every queued or
\* claimed row belongs to a plane of the registry.  ControllerStore::DeletePlane
\* deletes the rows with the plane; with two threads another command may still
\* enqueue rows for the plane it loaded before, which OneThread excludes.
THEOREM LiveRowsHavePlanes ==
  ASSUME OneThread
  PROVE  Spec => []LiveRowHasPlane
<1>1. RegistryInv => LiveRowHasPlane
  BY DEF RegistryInv, RowsWithin, Registered, LiveRowHasPlane, Active
<1> QED BY <1>1, RegistryHolds, PTL

-----------------------------------------------------------------------------
(* A deleted plane is gone: steps of one node.                             *)

\* A step of a node, from the rows, observation, local state and process
\* q, o, l, h to q2, o2, l2, h2, keeps what a deletion relies on.
NodeMove(q, o, l, h, q2, o2, l2, h2) ==
  /\ NodeDeletion(q2, o2, l2, h2)
  /\ \A p \in Planes : Gone(q, o, l, h, p) => Gone(q2, o2, l2, h2, p)

\* Two such steps make one.
LEMMA MoveTwice ==
  ASSUME NEW q, NEW o, NEW l, NEW h, NEW q1, NEW o1, NEW l1, NEW h1,
         NEW q2, NEW o2, NEW l2, NEW h2,
         NodeMove(q, o, l, h, q1, o1, l1, h1),
         NodeMove(q1, o1, l1, h1, q2, o2, l2, h2)
  PROVE  NodeMove(q, o, l, h, q2, o2, l2, h2)
BY DEF NodeMove

\* Rows that move without being withdrawn leave the newest row standing.
LEMMA StandingKept ==
  ASSUME NEW q, NEW q2, NEW p, TableMove(q, q2), Standing(q, p),
         \A i \in DOMAIN q : q[i].plane = p /\ q2[i].status = "superseded"
           => q[i].status = "superseded" \/ ~IsLatest(q, i)
  PROVE  Standing(q2, p)
<1>1. ASSUME NEW i \in Latest(q2, p) PROVE q2[i].status # "superseded"
  <2>1. /\ i \in DOMAIN q /\ q2[i].plane = p /\ q2[i].status # "deleted"
        /\ IsLatest(q2, i)
    BY DEF Latest, TableMove
  <2>2. q[i].plane = p /\ q[i].status # "deleted"
    BY <2>1 DEF TableMove, RowMove
  <2>3. IsLatest(q, i)
    BY <2>1 DEF IsLatest, TableMove, RowMove
  <2>4. q[i].status # "superseded"
    BY <2>1, <2>2, <2>3 DEF Latest, Standing
  <2> QED BY <2>1, <2>2, <2>3, <2>4
<1> QED BY <1>1 DEF Standing

\* Rows that move while hostd keeps the one it has claimed.
LEMMA TableMoves ==
  ASSUME NEW q, NEW o, NEW l, NEW h, NEW q2, NodeDeletion(q, o, l, h),
         TableMove(q, q2),
         h.step # "idle" =>
           /\ h.id \in DOMAIN q
           /\ q2[h.id].status \notin {"pending", "failed"}
           /\ \/ q2[h.id].status # "applied" \/ q[h.id].status = "applied"
              \/ h.step # "claimed"
              \/ o.plane = q[h.id].plane /\ o.status = "applied"
  PROVE  NodeMove(q, o, l, h, q2, o, l, h)
<1>1. h.step # "idle" =>
        /\ q2[h.id].plane = q[h.id].plane /\ q2[h.id].type = q[h.id].type
        /\ q2[h.id].status = "deleted" <=> q[h.id].status = "deleted"
  BY DEF TableMove, RowMove
<1>2. \A p \in Planes : Brings(q2, h, p) <=> Brings(q, h, p)
  BY <1>1 DEF Brings
<1>3. DeletedTogether(q2, h)
  <2>1. DeletedTogether(q, h)
    BY DEF NodeDeletion
  <2>2. \A i \in DOMAIN q2 : q2[i].max = MaxAttempts
    BY <2>1 DEF DeletedTogether, TableMove, RowMove
  <2>3. \A i, j \in DOMAIN q2 :
          j < i /\ q2[j].plane = q2[i].plane /\ q2[i].status = "deleted"
            => q2[j].status = "deleted"
    BY <2>1 DEF DeletedTogether, TableMove, RowMove
  <2>4. \A p \in Planes : Brings(q2, h, p) => q2[h.id].status # "deleted"
    <3>1. \A p \in Planes : Brings(q2, h, p) => h.step # "idle"
      BY DEF Brings
    <3> QED BY <1>1, <1>2, <2>1, <3>1 DEF DeletedTogether
  <2> QED BY <2>2, <2>3, <2>4 DEF DeletedTogether
<1>4. ASSUME NEW p \in Planes PROVE ObservesPlane(q2, o, l, h, p)
  <2>1. ObservesPlane(q, o, l, h, p)
    BY DEF NodeDeletion
  <2>2. h.step = "applying" /\ q2[h.id].plane = p =>
          \/ SaysApplying(o, p)
          \/ l[p].content = "none" /\ DesiredContent(q2[h.id].type) = "none"
    BY <1>1, <2>1 DEF ObservesPlane
  <2>3. Brings(q2, h, p) /\ h.step = "claimed" /\ q2[h.id].status = "applied" =>
          o.plane = p /\ o.status = "applied"
    <3> SUFFICES ASSUME Brings(q2, h, p), h.step = "claimed", q2[h.id].status = "applied"
                 PROVE  o.plane = p /\ o.status = "applied"
      OBVIOUS
    <3>1. q[h.id].plane = p /\ Brings(q, h, p)
      BY <1>1, <1>2 DEF Brings
    <3> QED BY <2>1, <3>1 DEF ObservesPlane
  <2> QED BY <2>1, <2>2, <2>3 DEF ObservesPlane
<1>5. ASSUME NEW p \in Planes, Gone(q, o, l, h, p) PROVE Gone(q2, o, l, h, p)
  <2>1. \A i \in DOMAIN q2 : q2[i].plane = p => q2[i].status \notin Active
    BY <1>5 DEF Gone, TableMove, RowMove
  <2> QED BY <1>2, <1>5, <2>1 DEF Gone
<1> QED BY <1>3, <1>4, <1>5 DEF NodeMove, NodeDeletion

\* hostd forgets its row, or goes on when the work is done.
LEMMA IdleMoves ==
  ASSUME NEW q, NEW o, NEW l, NEW h, NodeDeletion(q, o, l, h), NEW h2,
         h2.step \notin {"claimed", "applying"},
         h2.step # "idle" => h.step # "idle" /\ h2.id = h.id
  PROVE  NodeMove(q, o, l, h, q, o, l, h2)
<1>1. \A p \in Planes : ~Brings(q, h2, p)
  BY DEF Brings
<1>2. DeletedTogether(q, h2)
  BY <1>1 DEF NodeDeletion, DeletedTogether
<1>3. \A p \in Planes : ObservesPlane(q, o, l, h2, p)
  BY <1>1 DEF NodeDeletion, ObservesPlane
<1> QED BY <1>1, <1>2, <1>3 DEF NodeMove, NodeDeletion, Gone

\* hostd goes on to a step where its work for the plane is done or observed.
LEMMA ReportMoves ==
  ASSUME NEW q, NEW o, NEW l, NEW h, NodeDeletion(q, o, l, h), NEW o2, NEW h2,
         \A p \in Planes : o2.content[p] = l[p].content,
         o2.status # "none",
         h2.step # "idle" => h.step # "idle" /\ h2.id = h.id,
         h2.step # "claimed",
         h2.step = "applying" => h.step = "claimed" /\ SaysApplying(o2, q[h.id].plane)
  PROVE  NodeMove(q, o, l, h, q, o2, l, h2)
<1>1. \A p \in Planes : Brings(q, h2, p) => Brings(q, h, p)
  BY DEF Brings
<1>2. DeletedTogether(q, h2)
  <2>1. \A p \in Planes : Brings(q, h2, p) => h2.step # "idle"
    BY DEF Brings
  <2> QED BY <1>1, <2>1 DEF NodeDeletion, DeletedTogether
<1>3. ASSUME NEW p \in Planes PROVE ObservesPlane(q, o2, l, h2, p)
  BY DEF ObservesPlane
<1> QED BY <1>1, <1>2, <1>3 DEF NodeMove, NodeDeletion, Gone

\* hostd has done the work of its row.
LEMMA WorkMoves ==
  ASSUME NEW q, NEW o, NEW l \in [Planes -> LocalState], NEW h,
         NodeDeletion(q, o, l, h), h.step = "applying", q[h.id].plane \in Planes,
         NEW l2 \in [Planes -> LocalState],
         \A p \in Planes :
           l2[p].content = IF p = q[h.id].plane THEN DesiredContent(q[h.id].type)
                           ELSE l[p].content,
         NEW h2, h2.step = "applied", h2.id = h.id
  PROVE  NodeMove(q, o, l, h, q, o, l2, h2)
<1>1. \A p \in Planes : ~Brings(q, h2, p)
  BY DEF Brings
<1>2. DeletedTogether(q, h2)
  BY <1>1 DEF NodeDeletion, DeletedTogether
<1>3. ASSUME NEW p \in Planes PROVE ObservesPlane(q, o, l2, h2, p)
  <2>1. ObservesPlane(q, o, l, h, p)
    BY DEF NodeDeletion
  <2>2. o.content[p] = l2[p].content \/ SaysApplying(o, p)
    BY <2>1 DEF ObservesPlane
  <2> QED BY <1>1, <2>1, <2>2 DEF ObservesPlane
<1>4. ASSUME NEW p \in Planes, Gone(q, o, l, h, p) PROVE Gone(q, o, l2, h2, p)
  <2>1. p = q[h.id].plane => DesiredContent(q[h.id].type) = "none"
    BY <1>4 DEF Gone, Brings
  <2>2. l2[p].content = "none"
    BY <1>4, <2>1 DEF Gone
  <2> QED BY <1>1, <1>4, <2>2 DEF Gone
<1> QED BY <1>2, <1>3, <1>4 DEF NodeMove, NodeDeletion

\* An idle hostd claims row i.
LEMMA ClaimedMoves ==
  ASSUME NEW q, NEW o, NEW l, NEW h, NodeDeletion(q, o, l, h),
         NEW i, i \in DOMAIN q, q[i].status = "claimed", NEW h2,
         h2.id = i, h2.step = "claimed"
  PROVE  NodeMove(q, o, l, h, q, o, l, h2)
<1>1. DeletedTogether(q, h2)
  BY DEF NodeDeletion, DeletedTogether
<1>2. ASSUME NEW p \in Planes PROVE ObservesPlane(q, o, l, h2, p)
  BY DEF NodeDeletion, ObservesPlane
<1>3. ASSUME NEW p \in Planes, Gone(q, o, l, h, p) PROVE ~Brings(q, h2, p)
  BY <1>3 DEF Gone, Brings, Active
<1> QED BY <1>1, <1>2, <1>3 DEF NodeMove, NodeDeletion, Gone

\* What a step does on node n.
NodeMoves(n) ==
  NodeMove(assignments[n], observed[n], local[n], hostd[n],
           assignments'[n], observed'[n], local'[n], hostd'[n])

\* The newest rows of node n that stood still stand.
StillStands(n) ==
  \A p \in Planes : Standing(assignments[n], p) => Standing(assignments'[n], p)

NodeDeletionOf(n) == NodeDeletion(assignments[n], observed[n], local[n], hostd[n])

\* Claiming a row, or only settling leases.
LEMMA ClaimDeletion ==
  ASSUME IInv, NEW n \in Nodes, NodeDeletionOf(n),
         \/ \E i \in DOMAIN assignments[n] : ClaimNextAssignment(n, i)
         \/ ExpireLeasesOnly(n)
  PROVE  NodeMoves(n) /\ StillStands(n)
<1>1. PICK q, o, l, h :
        /\ q \in Seq(Row) /\ q = assignments[n] /\ o = observed[n] /\ l = local[n] /\ h = hostd[n]
  BY NodeOf
<1>2. PICK s : s = Expire(q)
  OBVIOUS
<1>3. TableInv(q) /\ NodeDeletion(q, o, l, h) /\ h.step = "idle"
  BY <1>1, NodeOf DEF NodeDeletionOf, ClaimNextAssignment, ExpireLeasesOnly
<1>4. /\ TableMove(q, s)
      /\ \A i \in DOMAIN q : s[i] = q[i] \/ s[i].status \in {"pending", "failed"}
  BY <1>1, <1>2, <1>3, ExpireMoves
<1>5. NodeMove(q, o, l, h, s, o, l, h)
  BY <1>3, <1>4, TableMoves
<1>6. \A p \in Planes : Standing(q, p) => Standing(s, p)
  <2>1. \A i \in DOMAIN q : s[i].status = "superseded" => q[i].status = "superseded"
    BY <1>4
  <2> QED BY <1>4, <2>1, StandingKept
<1>7. DOMAIN assignments = Nodes /\ DOMAIN hostd = Nodes
  BY DEF IInv, NodesInv
<1>8. ASSUME NEW i \in DOMAIN assignments[n], ClaimNextAssignment(n, i)
      PROVE  NodeMoves(n) /\ StillStands(n)
  <2>1. s \in Seq(Row)
    <3>1. NodeInv(Expire(q), observed[n], local[n], hostd[n])
      BY <1>1, NodeOf, ExpireNode
    <3> QED BY <1>2, <3>1 DEF NodeInv
  <2>2. i \in DOMAIN s /\ s[i].status = "pending"
    BY <1>1, <1>2, <1>8 DEF ClaimNextAssignment, ClaimedFirst, Claimable
  <2>3. PICK c : c = ClaimRow(s, i)
    OBVIOUS
  <2>4. /\ TableMove(s, c) /\ c[i].status = "claimed"
        /\ \A j \in DOMAIN s : j # i => c[j] = s[j]
    BY <2>1, <2>2, <2>3, ClaimMoves
  <2>5. PICK h2 : h2 = [id |-> i, step |-> "claimed"]
    OBVIOUS
  <2>6. NodeMove(s, o, l, h, c, o, l, h)
    BY <1>3, <1>5, <2>4, TableMoves DEF NodeMove
  <2>7. NodeMove(c, o, l, h, c, o, l, h2)
    <3>1. NodeDeletion(c, o, l, h) /\ i \in DOMAIN c
      BY <2>2, <2>4, <2>6 DEF NodeMove, TableMove
    <3> QED BY <2>4, <2>5, <3>1, ClaimedMoves
  <2>8. NodeMove(q, o, l, h, c, o, l, h2)
    <3>1. NodeMove(q, o, l, h, c, o, l, h)
      BY <1>5, <2>6, MoveTwice
    <3> QED BY <2>7, <3>1, MoveTwice
  <2>9. /\ assignments'[n] = c /\ observed'[n] = o /\ local'[n] = l /\ hostd'[n] = h2
    BY <1>1, <1>2, <1>7, <1>8, <2>3, <2>5 DEF ClaimNextAssignment
  <2>10. ASSUME NEW p \in Planes, Standing(s, p) PROVE Standing(c, p)
    <3>1. \A j \in DOMAIN s : c[j].status = "superseded" => s[j].status = "superseded"
      BY <2>4
    <3> QED BY <2>4, <2>10, <3>1, StandingKept
  <2> QED BY <1>1, <1>6, <2>8, <2>9, <2>10 DEF NodeMoves, StillStands
<1>9. CASE ExpireLeasesOnly(n)
  <2>1. /\ assignments'[n] = s /\ observed'[n] = o /\ local'[n] = l /\ hostd'[n] = h
    BY <1>1, <1>2, <1>7, <1>9 DEF ExpireLeasesOnly
  <2> QED BY <1>1, <1>5, <1>6, <2>1 DEF NodeMoves, StillStands
<1> QED BY <1>8, <1>9

\* A report that arrives says what the node holds.
LEMMA ReportSays ==
  ASSUME IInv, ~LoseObservations, NEW n \in Nodes, NEW st, ReportAssignment(n, st)
  PROVE  /\ observed'[n].status = st /\ observed'[n].plane = Copy(n).plane
         /\ \A p \in Planes : observed'[n].content[p] = local[n][p].content
<1>1. DOMAIN observed = Nodes
  BY DEF IInv, NodesInv
<1>2. observed'[n] =
        [status |-> st, plane |-> Copy(n).plane, id |-> hostd[n].id,
         generation |-> IF st = "applied" THEN Copy(n).generation ELSE 0,
         content |-> LocalContent(n)]
  BY <1>1 DEF ReportAssignment
<1> QED BY <1>2 DEF LocalContent

\* The steps of hostd that only report.
LEMMA ReportDeletion ==
  ASSUME IInv, ~LoseObservations, NEW n \in Nodes, NodeDeletionOf(n),
         ReportApplying(n) \/ ReportApplied(n) \/ ReportLocalObservedState(n)
  PROVE  NodeMoves(n) /\ StillStands(n)
<1>1. PICK q, o, l, h, o2, h2 :
        /\ q = assignments[n] /\ o = observed[n] /\ l = local[n] /\ h = hostd[n]
        /\ o2 = observed'[n] /\ h2 = hostd'[n]
  OBVIOUS
<1>2. NodeDeletion(q, o, l, h) /\ h \in [id : Nat, step : HostdSteps]
  BY <1>1, NodeOf DEF NodeDeletionOf
<1>3. DOMAIN hostd = Nodes /\ DOMAIN observed = Nodes
  BY DEF IInv, NodesInv
<1>4. assignments'[n] = q /\ local'[n] = l
  BY <1>1 DEF ReportApplying, ReportApplied, ReportLocalObservedState
<1>5. CASE ReportApplying(n)
  <2>1. h.step = "claimed" /\ h2 = [h EXCEPT !.step = "applying"]
    BY <1>1, <1>3, <1>5 DEF ReportApplying
  <2>2. h2.step = "applying" /\ h2.id = h.id
    BY <1>2, <2>1
  <2>3. /\ o2.status = "applying" /\ o2.plane = q[h.id].plane
        /\ \A p \in Planes : o2.content[p] = l[p].content
    BY <1>1, <1>5, ReportSays DEF ReportApplying, Copy
  <2>4. NodeMove(q, o, l, h, q, o2, l, h2)
    BY <1>2, <2>1, <2>2, <2>3, ReportMoves DEF SaysApplying
  <2> QED BY <1>1, <1>4, <2>4 DEF NodeMoves, StillStands
<1>6. CASE ReportApplied(n)
  <2>1. h.step = "applied" /\ h2 = [h EXCEPT !.step = "observed"]
    BY <1>1, <1>3, <1>6 DEF ReportApplied
  <2>2. h2.step = "observed" /\ h2.id = h.id
    BY <1>2, <2>1
  <2>3. /\ o2.status = "applied"
        /\ \A p \in Planes : o2.content[p] = l[p].content
    BY <1>1, <1>6, ReportSays DEF ReportApplied
  <2>4. NodeMove(q, o, l, h, q, o2, l, h2)
    BY <1>2, <2>1, <2>2, <2>3, ReportMoves
  <2> QED BY <1>1, <1>4, <2>4 DEF NodeMoves, StillStands
<1>7. CASE ReportLocalObservedState(n)
  <2>1. h.step = "idle" /\ h2 = h
    BY <1>1, <1>7 DEF ReportLocalObservedState
  <2>2. /\ o2.status = "idle" /\ o2.content = LocalContent(n)
    BY <1>1, <1>3, <1>7 DEF ReportLocalObservedState
  <2>3. \A p \in Planes : o2.content[p] = l[p].content
    BY <1>1, <2>2 DEF LocalContent
  <2>4. NodeMove(q, o, l, h, q, o2, l, h2)
    BY <1>2, <2>1, <2>2, <2>3, ReportMoves
  <2> QED BY <1>1, <1>4, <2>4 DEF NodeMoves, StillStands
<1> QED BY <1>5, <1>6, <1>7

\* The work of hostd.
LEMMA WorkDeletion ==
  ASSUME IInv, NEW n \in Nodes, NodeDeletionOf(n), ApplyDesiredNodeState(n)
  PROVE  NodeMoves(n) /\ StillStands(n)
<1>1. PICK q, o, l, h, l2, h2 :
        /\ q = assignments[n] /\ o = observed[n] /\ l = local[n] /\ h = hostd[n]
        /\ l2 = local'[n] /\ h2 = hostd'[n]
  OBVIOUS
<1>2. /\ NodeDeletion(q, o, l, h) /\ h \in [id : Nat, step : HostdSteps]
      /\ l \in [Planes -> LocalState]
  BY <1>1, NodeOf DEF NodeDeletionOf
<1>3. DOMAIN hostd = Nodes /\ local \in [Nodes -> [Planes -> LocalState]]
  BY DEF IInv, NodesInv
<1>4. h.step = "applying" /\ h2 = [h EXCEPT !.step = "applied"]
  BY <1>1, <1>3 DEF ApplyDesiredNodeState
<1>5. h2.step = "applied" /\ h2.id = h.id
  BY <1>2, <1>4
<1>6. PICK r : r = q[h.id]
  OBVIOUS
<1>7. r = Copy(n) /\ r.plane \in Planes /\ r.type \in LifecycleTypes
      /\ r.generation \in Nat
  BY <1>1, <1>4, <1>6, CopyOf, MaxGenerationAssumption DEF Copy, RowInv, Row
<1>8. DesiredContent(r.type) \in Contents
  BY <1>7 DEF DesiredContent, Contents
<1>9. PICK x : x = IF DesiredContent(r.type) = "none" THEN Nothing
                   ELSE [content |-> DesiredContent(r.type), generation |-> r.generation]
  OBVIOUS
<1>10. x \in LocalState /\ x.content = DesiredContent(r.type)
  BY <1>7, <1>8, <1>9 DEF Nothing, LocalState, Contents
<1>11. l2 = [l EXCEPT ![r.plane] = x]
  BY <1>1, <1>3, <1>7, <1>9 DEF ApplyDesiredNodeState
<1>12. l2 \in [Planes -> LocalState]
  BY <1>2, <1>7, <1>10, <1>11
<1>13. \A p \in Planes : l2[p].content = IF p = r.plane THEN DesiredContent(r.type)
                                         ELSE l[p].content
  BY <1>2, <1>7, <1>10, <1>11
<1>14. NodeMove(q, o, l, h, q, o, l2, h2)
  BY <1>2, <1>4, <1>5, <1>6, <1>7, <1>12, <1>13, WorkMoves
<1>15. assignments'[n] = q /\ observed'[n] = o
  BY <1>1 DEF ApplyDesiredNodeState
<1> QED BY <1>1, <1>14, <1>15 DEF NodeMoves, StillStands

\* The end of an assignment that was carried out.
LEMMA TransitionDeletion ==
  ASSUME IInv, ~LoseObservations, NEW n \in Nodes, NodeDeletionOf(n),
         TransitionApplied(n) \/ ConvergeGeneration(n)
  PROVE  NodeMoves(n) /\ StillStands(n)
<1>1. PICK q, o, l, h, q2, o2, h2 :
        /\ q \in Seq(Row) /\ q = assignments[n] /\ o = observed[n] /\ l = local[n] /\ h = hostd[n]
        /\ q2 = assignments'[n] /\ o2 = observed'[n] /\ h2 = hostd'[n]
  BY NodeOf
<1>2. NodeDeletion(q, o, l, h) /\ h \in [id : Nat, step : HostdSteps]
  BY <1>1, NodeOf DEF NodeDeletionOf
<1>3. DOMAIN hostd = Nodes /\ DOMAIN assignments = Nodes
  BY DEF IInv, NodesInv
<1>4. local'[n] = l /\ h.step \in {"observed", "converging"}
  BY <1>1 DEF TransitionApplied, ConvergeGeneration
<1>5. CASE ConvergeGeneration(n)
  <2>1. q2 = q /\ o2 = o /\ h2 = HostdIdle
    BY <1>1, <1>3, <1>5 DEF ConvergeGeneration
  <2>2. h2.step = "idle"
    BY <2>1 DEF HostdIdle
  <2>3. NodeMove(q, o, l, h, q, o, l, h2)
    BY <1>2, <2>2, IdleMoves
  <2> QED BY <1>1, <1>4, <2>1, <2>3 DEF NodeMoves, StillStands
<1>6. CASE TransitionApplied(n)
  <2>1. PICK i \in DOMAIN q : i = h.id
    BY <1>1, <1>6, CopyOf DEF TransitionApplied
  <2>2. q2 = TransitionClaimedHostAssignment(q, i, "applied", FALSE)
    BY <1>1, <1>3, <1>6, <2>1 DEF TransitionApplied
  <2>3. "applied" \in {"applied", "pending", "failed"}
    OBVIOUS
  <2>4. /\ TableMove(q, q2)
        /\ \A j \in DOMAIN q :
             q2[j] = q[j] \/ (j = i /\ q[i].status = "claimed" /\ q2[i].status = "applied")
    <3>1. Transitioned(q, q2, i, "applied")
      BY <1>1, <2>2, <2>3, TransitionMoves
    <3> QED BY <3>1 DEF Transitioned
  <2>5. q[i].status \notin {"pending", "failed"} /\ h.step = "observed"
    BY <1>1, <1>2, <1>6, <2>1 DEF NodeDeletion, DeletedTogether, TransitionApplied
  <2>6. NodeMove(q, o, l, h, q2, o, l, h)
    BY <1>2, <2>1, <2>4, <2>5, TableMoves
  <2>7. \A p \in Planes : Standing(q, p) => Standing(q2, p)
    <3>1. \A j \in DOMAIN q : q2[j].status = "superseded" => q[j].status = "superseded"
      BY <2>4
    <3> QED BY <2>4, <3>1, StandingKept
  <2>8. h2.step \in {"idle", "converging"} /\ (h2.step # "idle" => h2.id = h.id)
    <3>1. [h EXCEPT !.step = "converging"].id = h.id
          /\ [h EXCEPT !.step = "converging"].step = "converging"
      BY <1>2
    <3>2. HostdIdle.step = "idle"
      BY DEF HostdIdle
    <3>3. h2 = HostdIdle \/ h2 = [h EXCEPT !.step = "converging"]
      BY <1>1, <1>3, <1>6 DEF TransitionApplied
    <3> QED BY <3>1, <3>2, <3>3
  <2>9. CASE o2 = o
    <3>1. NodeMove(q2, o, l, h, q2, o, l, h2)
      BY <2>5, <2>6, <2>8, IdleMoves DEF NodeMove
    <3>2. NodeMove(q, o, l, h, q2, o, l, h2)
      BY <2>6, <3>1, MoveTwice
    <3> QED BY <1>1, <1>4, <2>7, <2>9, <3>2 DEF NodeMoves, StillStands
  <2>10. CASE ReportAssignment(n, "failed")
    <3>1. /\ o2.status = "failed"
          /\ \A p \in Planes : o2.content[p] = l[p].content
      BY <1>1, <2>10, ReportSays
    <3>2. NodeMove(q2, o, l, h, q2, o2, l, h2)
      BY <2>5, <2>6, <2>8, <3>1, ReportMoves DEF NodeMove
    <3>3. NodeMove(q, o, l, h, q2, o2, l, h2)
      BY <2>6, <3>2, MoveTwice
    <3> QED BY <1>1, <1>4, <2>7, <3>3 DEF NodeMoves, StillStands
  <2> QED BY <1>1, <1>6, <2>9, <2>10 DEF TransitionApplied
<1> QED BY <1>5, <1>6

\* The end of one that was not.
LEMMA FailDeletion ==
  ASSUME IInv, ~LoseObservations, NEW n \in Nodes, NodeDeletionOf(n),
         FailAssignment(n) \/ Crash(n)
  PROVE  NodeMoves(n) /\ StillStands(n)
<1>1. PICK q, o, l, h, q2, o2, h2 :
        /\ q \in Seq(Row) /\ q = assignments[n] /\ o = observed[n] /\ l = local[n] /\ h = hostd[n]
        /\ q2 = assignments'[n] /\ o2 = observed'[n] /\ h2 = hostd'[n]
  BY NodeOf
<1>2. NodeDeletion(q, o, l, h)
  BY <1>1 DEF NodeDeletionOf
<1>3. DOMAIN hostd = Nodes /\ DOMAIN assignments = Nodes
  BY DEF IInv, NodesInv
<1>4. h2 = HostdIdle /\ local'[n] = l
  BY <1>1, <1>3 DEF FailAssignment, Crash
<1>5. h2.step = "idle"
  BY <1>4 DEF HostdIdle
<1>6. NodeMove(q, o, l, h, q, o, l, h2)
  BY <1>2, <1>5, IdleMoves
<1>7. PICK i \in DOMAIN q : i = h.id
  BY <1>1, CopyOf DEF FailAssignment, Crash
<1>8. /\ TableMove(q, q2)
      /\ \A j \in DOMAIN q : q2[j].status = "superseded" => q[j].status = "superseded"
  <2>1. CASE FailAssignment(n)
    <3>1. PICK st \in {"applied", "pending", "failed"} :
            st = IF Copy(n).attempts < Copy(n).max THEN "pending" ELSE "failed"
      OBVIOUS
    <3>2. q2 = TransitionClaimedHostAssignment(q, i, st, FALSE)
      BY <1>1, <1>3, <1>7, <2>1, <3>1 DEF FailAssignment
    <3>3. Transitioned(q, q2, i, st)
      BY <1>1, <3>2, TransitionMoves
    <3> QED BY <3>1, <3>3 DEF Transitioned
  <2>2. CASE Crash(n)
    <3>1. q2 = AgeRow(q, i) \/ q2 = q
      BY <1>1, <1>3, <1>7, <2>2 DEF Crash
    <3>2. TableMove(q, q)
      BY DEF TableMove, RowMove
    <3> QED BY <1>1, <3>1, <3>2, AgeMoves
  <2> QED BY <2>1, <2>2
<1>9. NodeMove(q, o, l, h2, q2, o, l, h2)
  BY <1>5, <1>6, <1>8, TableMoves DEF NodeMove
<1>10. NodeMove(q, o, l, h, q2, o, l, h2)
  BY <1>6, <1>9, MoveTwice
<1>11. \A p \in Planes : Standing(q, p) => Standing(q2, p)
  BY <1>8, StandingKept
<1>12. CASE FailAssignment(n)
  <2>1. /\ o2.status = "failed"
        /\ \A p \in Planes : o2.content[p] = l[p].content
    BY <1>1, <1>12, ReportSays DEF FailAssignment
  <2>2. NodeMove(q2, o, l, h2, q2, o2, l, h2)
    BY <1>5, <1>9, <2>1, ReportMoves DEF NodeMove
  <2>3. NodeMove(q, o, l, h, q2, o2, l, h2)
    BY <1>10, <2>2, MoveTwice
  <2> QED BY <1>1, <1>4, <1>11, <2>3 DEF NodeMoves, StillStands
<1>13. CASE Crash(n)
  <2>1. o2 = o
    BY <1>1, <1>13 DEF Crash
  <2> QED BY <1>1, <1>4, <1>10, <1>11, <2>1 DEF NodeMoves, StillStands
<1> QED BY <1>12, <1>13

\* A node that nothing touches.
LEMMA NodeRests ==
  ASSUME NEW n \in Nodes, NodeDeletionOf(n),
         assignments'[n] = assignments[n], observed'[n] = observed[n],
         local'[n] = local[n], hostd'[n] = hostd[n]
  PROVE  NodeMoves(n) /\ StillStands(n)
BY DEF NodeDeletionOf, NodeMoves, NodeMove, StillStands

\* What hostd does keeps what a deletion relies on.
LEMMA HostdDeletion ==
  ASSUME IInv, ~LoseObservations, NEW n \in Nodes, Hostd(n),
         NEW m \in Nodes, NodeDeletionOf(m)
  PROVE  NodeMoves(m) /\ StillStands(m)
<1>1. CASE m = n
  BY <1>1, ClaimDeletion, ReportDeletion, WorkDeletion, TransitionDeletion,
     FailDeletion DEF Hostd
<1>2. CASE m # n
  <2>1. \/ assignments' = assignments
        \/ \E x : assignments' = [assignments EXCEPT ![n] = x]
    BY DEF Hostd, ClaimNextAssignment, ExpireLeasesOnly, ReportApplying,
       ApplyDesiredNodeState, ReportApplied, TransitionApplied, ConvergeGeneration,
       FailAssignment, Crash, ReportLocalObservedState
  <2>2. observed' = observed \/ \E x : observed' = [observed EXCEPT ![n] = x]
    BY DEF Hostd, ClaimNextAssignment, ExpireLeasesOnly, ReportApplying,
       ApplyDesiredNodeState, ReportApplied, TransitionApplied, ConvergeGeneration,
       FailAssignment, Crash, ReportLocalObservedState, ReportAssignment
  <2>3. local' = local \/ \E x : local' = [local EXCEPT ![n] = x]
    BY DEF Hostd, ClaimNextAssignment, ExpireLeasesOnly, ReportApplying,
       ApplyDesiredNodeState, ReportApplied, TransitionApplied, ConvergeGeneration,
       FailAssignment, Crash, ReportLocalObservedState
  <2>4. hostd' = hostd \/ \E x : hostd' = [hostd EXCEPT ![n] = x]
    BY DEF Hostd, ClaimNextAssignment, ExpireLeasesOnly, ReportApplying,
       ApplyDesiredNodeState, ReportApplied, TransitionApplied, ConvergeGeneration,
       FailAssignment, Crash, ReportLocalObservedState
  <2>5. /\ DOMAIN assignments = Nodes /\ DOMAIN observed = Nodes
        /\ DOMAIN local = Nodes /\ DOMAIN hostd = Nodes
    BY DEF IInv, NodesInv
  <2>6. /\ assignments'[m] = assignments[m] /\ observed'[m] = observed[m]
        /\ local'[m] = local[m] /\ hostd'[m] = hostd[m]
    BY <1>2, <2>1, <2>2, <2>3, <2>4, <2>5
  <2> QED BY <2>6, NodeRests
<1> QED BY <1>1, <1>2

-----------------------------------------------------------------------------
(* A deleted plane is gone: what the commands do to the rows of a node.    *)

\* The row of hostd is in the table, and has been claimed.
LEMMA HostdRow ==
  ASSUME NEW q, NEW o, NEW l, NEW h, NodeInv(q, o, l, h), NodeDeletion(q, o, l, h),
         h.step # "idle"
  PROVE  h.id \in DOMAIN q /\ q[h.id].status \notin {"pending", "failed"}
BY DEF NodeInv, NodeDeletion, DeletedTogether

\* Superseding the rows of the planes P.
LEMMA SupersedeDeletion ==
  ASSUME NEW q, NEW o, NEW l, NEW h, NodeInv(q, o, l, h), NodeDeletion(q, o, l, h),
         NEW P, NEW s, s = SupersedeAll(q, P)
  PROVE  /\ NodeMove(q, o, l, h, s, o, l, h)
         /\ \A p \in Planes : p \notin P /\ Standing(q, p) => Standing(s, p)
<1>1. q \in Seq(Row)
  BY DEF NodeInv
<1>2. /\ TableMove(q, s)
      /\ \A i \in DOMAIN q :
           s[i] = q[i] \/ (s[i].status = "superseded" /\ q[i].plane \in P)
  BY <1>1, SupersedeMoves
<1>3. NodeMove(q, o, l, h, s, o, l, h)
  BY <1>2, HostdRow, TableMoves
<1>4. ASSUME NEW p \in Planes, p \notin P, Standing(q, p) PROVE Standing(s, p)
  <2>1. \A i \in DOMAIN q : q[i].plane = p /\ s[i].status = "superseded"
          => q[i].status = "superseded"
    BY <1>2, <1>4
  <2> QED BY <1>2, <1>4, <2>1, StandingKept
<1> QED BY <1>3, <1>4

\* Enqueueing a row for each of the planes P.
LEMMA EnqueuedDeletion ==
  ASSUME NEW q, NEW o, NEW l, NEW h, NodeInv(q, o, l, h), NodeDeletion(q, o, l, h),
         NEW P, NEW q2, Enqueued(q, q2, P)
  PROVE  /\ NodeDeletion(q2, o, l, h)
         /\ \A p \in Planes : p \notin P /\ Gone(q, o, l, h, p) => Gone(q2, o, l, h, p)
         /\ \A p \in Planes : p \in P \/ Standing(q, p) => Standing(q2, p)
<1>1. /\ DOMAIN q \subseteq DOMAIN q2 /\ DOMAIN q2 \subseteq Nat
      /\ \A i \in DOMAIN q :
           /\ RowMove(q[i], q2[i])
           /\ q2[i] = q[i] \/ (q2[i].status = "superseded" /\ q[i].plane \in P)
      /\ \A i \in DOMAIN q2 \ DOMAIN q :
           /\ q2[i].plane \in P /\ q2[i].status = "pending" /\ q2[i].max = MaxAttempts
           /\ \A j \in DOMAIN q : j < i
      /\ \A p \in P : \E i \in DOMAIN q2 \ DOMAIN q : q2[i].plane = p
  BY DEF Enqueued
<1>2. DeletedTogether(q, h) /\ \A p \in Planes : ObservesPlane(q, o, l, h, p)
  BY DEF NodeDeletion
<1>3. h.step # "idle" =>
        /\ h.id \in DOMAIN q /\ q2[h.id].status \notin {"pending", "failed"}
        /\ q2[h.id].plane = q[h.id].plane /\ q2[h.id].type = q[h.id].type
        /\ q2[h.id].status = "deleted" <=> q[h.id].status = "deleted"
        /\ q2[h.id].status = "applied" => q[h.id].status = "applied"
  BY <1>1, HostdRow DEF RowMove
<1>4. \A p \in Planes : Brings(q2, h, p) <=> Brings(q, h, p)
  BY <1>3 DEF Brings
<1>5. DeletedTogether(q2, h)
  <2>1. \A i \in DOMAIN q2 : q2[i].max = MaxAttempts
    BY <1>1, <1>2 DEF DeletedTogether, RowMove
  <2>2. ASSUME NEW i \in DOMAIN q2, NEW j \in DOMAIN q2, j < i,
               q2[j].plane = q2[i].plane, q2[i].status = "deleted"
        PROVE  q2[j].status = "deleted"
    <3>1. i \in DOMAIN q
      BY <1>1, <2>2
    <3>2. j \in DOMAIN q
      BY <1>1, <2>2, <3>1
    <3>3. q[i].status = "deleted" /\ q[j].plane = q[i].plane
      BY <1>1, <2>2, <3>1, <3>2 DEF RowMove
    <3>4. q[j].status = "deleted"
      BY <1>2, <2>2, <3>1, <3>2, <3>3 DEF DeletedTogether
    <3> QED BY <1>1, <3>2, <3>4 DEF RowMove
  <2>3. ASSUME NEW p \in Planes, Brings(q2, h, p) PROVE q2[h.id].status # "deleted"
    <3>1. h.step # "idle" /\ Brings(q, h, p)
      BY <1>4, <2>3 DEF Brings
    <3> QED BY <1>2, <1>3, <3>1 DEF DeletedTogether
  <2> QED BY <1>3, <2>1, <2>2, <2>3 DEF DeletedTogether
<1>6. ASSUME NEW p \in Planes PROVE ObservesPlane(q2, o, l, h, p)
  <2>1. ObservesPlane(q, o, l, h, p)
    BY <1>2
  <2>2. h.step = "applying" /\ q2[h.id].plane = p =>
          \/ SaysApplying(o, p)
          \/ l[p].content = "none" /\ DesiredContent(q2[h.id].type) = "none"
    BY <1>3, <2>1 DEF ObservesPlane
  <2>3. Brings(q2, h, p) /\ h.step = "claimed" /\ q2[h.id].status = "applied" =>
          o.plane = p /\ o.status = "applied"
    BY <1>3, <1>4, <2>1 DEF ObservesPlane
  <2> QED BY <2>1, <2>2, <2>3 DEF ObservesPlane
<1>7. ASSUME NEW p \in Planes, p \notin P, Gone(q, o, l, h, p) PROVE Gone(q2, o, l, h, p)
  <2>1. \A i \in DOMAIN q2 : q2[i].plane = p => q2[i].status \notin Active
    BY <1>1, <1>7 DEF Gone, RowMove
  <2> QED BY <1>4, <1>7, <2>1 DEF Gone
<1>8. ASSUME NEW p \in P PROVE Standing(q2, p)
  <2>1. PICK k \in DOMAIN q2 \ DOMAIN q : q2[k].plane = p
    BY <1>1
  <2>2. ASSUME NEW i \in Latest(q2, p) PROVE q2[i].status # "superseded"
    <3>1. i \in DOMAIN q2 /\ q2[i].plane = p /\ k <= i /\ i \in Nat /\ k \in Nat
      BY <1>1, <2>1 DEF Latest, IsLatest
    <3>2. i \notin DOMAIN q
      <4>1. i \in DOMAIN q => i < k
        BY <1>1, <2>1
      <4> QED BY <3>1, <4>1
    <3> QED BY <1>1, <3>1, <3>2
  <2> QED BY <2>2 DEF Standing
<1>9. ASSUME NEW p \in Planes, p \notin P, Standing(q, p) PROVE Standing(q2, p)
  <2>1. ASSUME NEW i \in Latest(q2, p) PROVE q2[i].status # "superseded"
    <3>1. i \in DOMAIN q2 /\ q2[i].plane = p /\ q2[i].status # "deleted" /\ IsLatest(q2, i)
      BY DEF Latest
    <3>2. i \in DOMAIN q
      BY <1>1, <1>9, <3>1
    <3>3. q[i].plane = p /\ q[i].status # "deleted" /\ q2[i] = q[i]
      BY <1>1, <1>9, <3>1, <3>2 DEF RowMove
    <3>4. IsLatest(q, i)
      BY <1>1, <3>1, <3>2 DEF IsLatest, RowMove
    <3> QED BY <1>9, <3>2, <3>3, <3>4 DEF Latest, Standing
  <2> QED BY <2>1 DEF Standing
<1> QED BY <1>5, <1>6, <1>7, <1>8, <1>9 DEF NodeDeletion

\* Reconciling the rows of a node.
LEMMA ReconciledDeletion ==
  ASSUME NEW q, NEW o, NEW l, NEW h, NodeInv(q, o, l, h), NodeDeletion(q, o, l, h),
         NEW q2, Reconciled(q, q2, o)
  PROVE  /\ NodeMove(q, o, l, h, q2, o, l, h)
         /\ \A p \in Planes : Standing(q, p) => Standing(q2, p)
<1>1. /\ TableMove(q, q2)
      /\ \A i \in DOMAIN q :
           \/ q2[i] = q[i]
           \/ q2[i].status = "superseded" /\ ~IsLatest(q, i)
           \/ /\ q2[i].status = "applied"
              /\ o.plane = q[i].plane /\ o.status = "applied"
  BY DEF Reconciled
<1>2. NodeMove(q, o, l, h, q2, o, l, h)
  BY <1>1, HostdRow, TableMoves
<1>3. ASSUME NEW p \in Planes, Standing(q, p) PROVE Standing(q2, p)
  BY <1>1, <1>3, StandingKept
<1> QED BY <1>2, <1>3

\* Deleting the rows of a plane that is gone.
LEMMA DeleteDeletion ==
  ASSUME NEW q, NEW o, NEW l, NEW h, NodeInv(q, o, l, h), NodeDeletion(q, o, l, h),
         NEW p \in Planes, Gone(q, o, l, h, p), NEW q2, q2 = DeletePlaneRows(q, p),
         NEW o2, o2.status = o.status, o2.content = o.content,
         o.plane # p => o2 = o
  PROVE  /\ NodeMove(q, o, l, h, q2, o2, l, h)
         /\ \A x \in Planes : Standing(q, x) => Standing(q2, x)
<1>1. q \in Seq(Row)
  BY DEF NodeInv
<1>2. /\ DOMAIN q2 = DOMAIN q
      /\ \A i \in DOMAIN q :
           /\ q2[i].plane = q[i].plane /\ q2[i].type = q[i].type
           /\ q2[i].max = q[i].max
           /\ q[i].plane = p => q2[i].status = "deleted"
           /\ q[i].plane # p => q2[i] = q[i]
  BY <1>1, DeletedRows
<1>3. DeletedTogether(q, h) /\ \A x \in Planes : ObservesPlane(q, o, l, h, x)
  BY DEF NodeDeletion
<1>4. h.step # "idle" =>
        /\ h.id \in DOMAIN q /\ q2[h.id].status \notin {"pending", "failed"}
        /\ q2[h.id].plane = q[h.id].plane /\ q2[h.id].type = q[h.id].type
        /\ q[h.id].plane # p => q2[h.id] = q[h.id]
  BY <1>2, HostdRow
<1>5. \A x \in Planes : Brings(q2, h, x) <=> Brings(q, h, x)
  BY <1>4 DEF Brings
<1>6. ~Brings(q, h, p) /\ l[p].content = "none" /\ o.content[p] = "none"
  BY DEF Gone
<1>7. DeletedTogether(q2, h)
  <2>1. \A i \in DOMAIN q2 : q2[i].max = MaxAttempts
    BY <1>2, <1>3 DEF DeletedTogether
  <2>2. ASSUME NEW i \in DOMAIN q2, NEW j \in DOMAIN q2, j < i,
               q2[j].plane = q2[i].plane, q2[i].status = "deleted"
        PROVE  q2[j].status = "deleted"
    BY <1>2, <1>3, <2>2 DEF DeletedTogether
  <2>3. ASSUME NEW x \in Planes, Brings(q2, h, x) PROVE q2[h.id].status # "deleted"
    <3>1. h.step # "idle" /\ Brings(q, h, x) /\ x # p /\ q[h.id].plane = x
      BY <1>5, <1>6, <2>3 DEF Brings
    <3> QED BY <1>3, <1>4, <3>1 DEF DeletedTogether
  <2> QED BY <1>4, <2>1, <2>2, <2>3 DEF DeletedTogether
<1>8. ASSUME NEW x \in Planes, x # p PROVE ObservesPlane(q2, o2, l, h, x)
  <2>1. ObservesPlane(q, o, l, h, x)
    BY <1>3
  <2>2. SaysApplying(o, x) => SaysApplying(o2, x)
    BY <1>8 DEF SaysApplying
  <2>3. h.step = "applying" /\ q2[h.id].plane = x =>
          \/ SaysApplying(o2, x)
          \/ l[x].content = "none" /\ DesiredContent(q2[h.id].type) = "none"
    BY <1>4, <2>1, <2>2 DEF ObservesPlane
  <2>4. ASSUME Brings(q2, h, x), h.step = "claimed", q2[h.id].status = "applied"
        PROVE  o2.plane = x /\ o2.status = "applied"
    <3>1. Brings(q, h, x) /\ q[h.id].plane = x /\ q[h.id].status = "applied"
      BY <1>4, <1>5, <1>8, <2>4 DEF Brings
    <3>2. o.plane = x /\ o.status = "applied"
      BY <2>1, <2>4, <3>1 DEF ObservesPlane
    <3> QED BY <1>8, <3>2
  <2> QED BY <2>1, <2>2, <2>3, <2>4 DEF ObservesPlane
<1>9. ObservesPlane(q2, o2, l, h, p)
  <2>1. h.step = "applying" /\ q2[h.id].plane = p => DesiredContent(q2[h.id].type) = "none"
    BY <1>4, <1>6 DEF Brings
  <2>2. ~Brings(q2, h, p)
    BY <1>5, <1>6
  <2> QED BY <1>6, <2>1, <2>2 DEF ObservesPlane
<1>10. ASSUME NEW x \in Planes, Gone(q, o, l, h, x) PROVE Gone(q2, o2, l, h, x)
  <2>1. \A i \in DOMAIN q2 : q2[i].plane = x => q2[i].status \notin Active
    <3>1. "deleted" \notin Active
      BY DEF Active
    <3> QED BY <1>2, <1>10, <3>1 DEF Gone
  <2> QED BY <1>5, <1>10, <2>1 DEF Gone
<1>11. ASSUME NEW x \in Planes, Standing(q, x) PROVE Standing(q2, x)
  <2>1. ASSUME NEW i \in Latest(q2, x) PROVE q2[i].status # "superseded"
    <3>1. i \in DOMAIN q /\ q2[i].plane = x /\ q2[i].status # "deleted" /\ IsLatest(q2, i)
      BY <1>2 DEF Latest
    <3>2. q[i].plane # p /\ q2[i] = q[i]
      BY <1>2, <3>1
    <3>3. IsLatest(q, i)
      BY <1>2, <3>1 DEF IsLatest
    <3> QED BY <1>11, <3>1, <3>2, <3>3 DEF Latest, Standing
  <2> QED BY <2>1 DEF Standing
<1> QED BY <1>7, <1>8, <1>9, <1>10, <1>11 DEF NodeMove, NodeDeletion

\* Where a table has rows of a plane, it has a newest one.
LEMMA NewestRow ==
  ASSUME NEW q \in Seq(Row), NEW i \in DOMAIN q
  PROVE  \E k \in DOMAIN q :
           k >= i /\ q[k].plane = q[i].plane /\ IsLatest(q, k)
<1> DEFINE S == {j \in DOMAIN q : q[j].plane = q[i].plane}
<1>1. Len(q) \in Nat /\ DOMAIN q = 1..Len(q) /\ i \in S
  BY RowsOf
<1>2. S \subseteq 0..Len(q) /\ S # {}
  BY <1>1
<1>3. PICK k \in S : \A j \in S : j <= k
  BY <1>1, <1>2, LargestExists
<1>4. IsLatest(q, k)
  BY <1>3 DEF IsLatest
<1>5. k >= i
  BY <1>1, <1>3
<1> QED BY <1>3, <1>4, <1>5

\* Nothing of a plane is on a node where all its rows are settled, the newest is
\* not withdrawn and the observation does not block: CanFinalizeDeletedPlane.
LEMMA NodeReady ==
  ASSUME NEW q, NEW o, NEW l, NEW h, NodeInv(q, o, l, h), NodeDeletion(q, o, l, h),
         NEW p \in Planes, Standing(q, p),
         \A i \in DOMAIN q : q[i].plane = p => q[i].status \notin Active,
         ~( /\ o.status # "none"
            /\ o.plane = p \/ o.content[p] # "none"
            /\ o.status # "idle" \/ o.content[p] # "none")
  PROVE  Gone(q, o, l, h, p)
<1>1. ObservesPlane(q, o, l, h, p) /\ DeletedTogether(q, h)
  BY DEF NodeDeletion
<1>2. q \in Seq(Row) /\ TableInv(q)
  BY DEF NodeInv
<1>3. o.content[p] = "none"
  BY <1>1 DEF ObservesPlane
<1>4. ~(o.plane = p /\ o.status \in {"applying", "applied"})
  OBVIOUS
<1>5. l[p].content = "none"
  BY <1>1, <1>3, <1>4 DEF ObservesPlane, SaysApplying
<1>6. ASSUME Brings(q, h, p) PROVE FALSE
  <2>1. /\ h.step \in {"claimed", "applying"} /\ q[h.id].plane = p
        /\ DesiredContent(q[h.id].type) # "none"
    BY <1>6 DEF Brings
  <2>2. h.step = "claimed"
    BY <1>1, <1>4, <2>1 DEF ObservesPlane, SaysApplying
  <2>3. h.id \in DOMAIN q /\ q[h.id].status \notin {"pending", "failed"}
    BY <2>2, HostdRow
  <2>4. q[h.id].status # "deleted" /\ q[h.id].status # "applied"
    BY <1>1, <1>4, <1>6, <2>2 DEF DeletedTogether, ObservesPlane
  <2>5. q[h.id].status = "superseded"
    <3>1. q[h.id].status \in Statuses /\ q[h.id].status \notin Active
      BY <1>2, <2>1, <2>3, RowsOf DEF Row
    <3> QED BY <2>3, <2>4, <3>1 DEF Statuses, Active
  <2>6. PICK k \in DOMAIN q : k >= h.id /\ q[k].plane = p /\ IsLatest(q, k)
    BY <1>2, <2>1, <2>3, NewestRow
  <2>7. k \in Nat /\ h.id \in Nat /\ q[k] \in Row /\ RowInv(q[k])
    BY <1>2, <2>3, RowsOf DEF TableInv
  <2>8. q[k].status # "deleted"
    <3>1. CASE k = h.id
      BY <2>5, <3>1
    <3>2. CASE h.id < k
      BY <1>1, <2>1, <2>3, <2>4, <2>6, <3>2 DEF DeletedTogether
    <3> QED BY <2>6, <2>7, <3>1, <3>2
  <2>9. q[k].status # "superseded" /\ k # h.id
    BY <2>5, <2>6, <2>8 DEF Latest, Standing
  <2>10. Decides(q, k)
    BY <1>1, <2>6 DEF Decides, DeletedTogether
  <2>11. RowIsTrue(q, o, l, h, k)
    BY <2>10 DEF NodeInv
  <2>12. q[k].attempts = 0
    BY <2>1, <2>2, <2>6, <2>9, <2>11 DEF RowIsTrue
  <2>13. q[k].status = "pending"
    BY <2>7, <2>8, <2>9, <2>12 DEF RowInv
  <2> QED BY <2>6, <2>13 DEF Active
<1> QED BY <1>3, <1>5, <1>6 DEF Gone

GoneFrom(n, p) == Gone(assignments[n], observed[n], local[n], hostd[n], p)

\* A plane that CanFinalizeDeletedPlane lets go is gone from all nodes.
LEMMA FinalizeReady ==
  ASSUME IInv, DeletionInv, NEW p \in Planes, Cleaned(p), CanFinalizeDeletedPlane(p),
         NEW n \in Nodes
  PROVE  GoneFrom(n, p)
<1>1. PICK q, o, l, h :
        q = assignments[n] /\ o = observed[n] /\ l = local[n] /\ h = hostd[n]
  OBVIOUS
<1>2. NodeInv(q, o, l, h) /\ NodeDeletion(q, o, l, h) /\ Standing(q, p)
  BY <1>1, NodeOf DEF DeletionInv
<1>3. /\ \A i \in DOMAIN q : q[i].plane = p => q[i].status \notin Active
      /\ ~( /\ o.status # "none"
            /\ o.plane = p \/ o.content[p] # "none"
            /\ o.status # "idle" \/ o.content[p] # "none")
  BY <1>1 DEF CanFinalizeDeletedPlane, Blocks, Matches
<1>4. Gone(q, o, l, h, p)
  BY <1>2, <1>3, NodeReady
<1> QED BY <1>1, <1>4 DEF GoneFrom

-----------------------------------------------------------------------------
(* A deleted plane is gone: the steps of the system.                       *)

\* Planes keep their state, generation and nodes.
SamePlanes ==
  \A p \in Planes :
    /\ planes'[p].state = planes[p].state
    /\ planes'[p].generation = planes[p].generation
    /\ planes'[p].nodes = planes[p].nodes

\* Planes stay registered, with their generation and nodes.
SamePlaces ==
  \A p \in Planes :
    /\ planes'[p].state = "absent" <=> planes[p].state = "absent"
    /\ planes'[p].generation = planes[p].generation
    /\ planes'[p].nodes = planes[p].nodes

\* A step that leaves no row but on nodes of its plane keeps the placement.
LEMMA PlacementStep ==
  ASSUME PlacementInv, SamePlanes \/ SamePlaces, \A t \in Threads : OpPlaced(op'[t]),
         \A n \in Nodes : KeptOn(n, PlacedOn(n))
  PROVE  PlacementInv'
<1>0. SamePlaces
  BY DEF SamePlanes, SamePlaces
<1>1. Registered' = Registered /\ \A n \in Nodes : PlacedOn(n)' = PlacedOn(n)
  BY <1>0 DEF SamePlaces, Registered, Exists, PlacedOn
<1>2. \A p \in Registered' : planes'[p].generation > 0
  BY <1>0, <1>1 DEF PlacementInv, SamePlaces, Registered
<1>3. ASSUME NEW t \in Threads PROVE OpPlaced(op[t])'
  <2>1. OpPlaced(op'[t])
    OBVIOUS
  <2> QED BY <1>0, <1>1, <2>1 DEF OpPlaced, SamePlaces
<1>4. ASSUME NEW n \in Nodes PROVE RowsWithin(assignments[n], PlacedOn(n))'
  <2>1. PICK S : S = PlacedOn(n)
    OBVIOUS
  <2>2. S = PlacedOn(n)'
    BY <1>1, <2>1
  <2>3. RowsWithin(assignments[n], S) /\ Kept(assignments[n], assignments'[n], S)
    BY <2>1 DEF PlacementInv, KeptOn
  <2>4. RowsWithin(assignments'[n], S)
    BY <2>3 DEF RowsWithin, Kept
  <2> QED BY <2>2, <2>4 DEF RowsWithin
<1> QED BY <1>2, <1>3, <1>4 DEF PlacementInv

\* The parts of the invariant of the deletion after a step.
LEMMA DeletionFrom ==
  ASSUME \A n \in Nodes :
           NodeDeletion(assignments'[n], observed'[n], local'[n], hostd'[n]),
         \A p \in Planes : Leaves(p)' => \A n \in Nodes :
           Gone(assignments'[n], observed'[n], local'[n], hostd'[n], p),
         \A p \in Planes : Cleaned(p)' => \A n \in Nodes : Standing(assignments'[n], p)
  PROVE  DeletionInv'
BY DEF DeletionInv

\* A step that brings no plane closer to its removal, nor to the point where
\* its newest rows must stand.
LEMMA DeletionStep ==
  ASSUME DeletionInv, \A n \in Nodes : NodeMoves(n) /\ StillStands(n),
         \A p \in Planes : Leaves(p)' => Leaves(p),
         \A p \in Planes : Cleaned(p)' => Cleaned(p)
  PROVE  DeletionInv'
<1>1. ASSUME NEW n \in Nodes
      PROVE  /\ NodeDeletion(assignments'[n], observed'[n], local'[n], hostd'[n])
             /\ \A p \in Planes :
                  Gone(assignments[n], observed[n], local[n], hostd[n], p)
                    => Gone(assignments'[n], observed'[n], local'[n], hostd'[n], p)
             /\ \A p \in Planes : Standing(assignments[n], p) => Standing(assignments'[n], p)
  BY DEF NodeMoves, NodeMove, StillStands
<1>2. ASSUME NEW p \in Planes, Leaves(p)', NEW n \in Nodes
      PROVE  Gone(assignments'[n], observed'[n], local'[n], hostd'[n], p)
  BY <1>1, <1>2 DEF DeletionInv
<1>3. ASSUME NEW p \in Planes, Cleaned(p)', NEW n \in Nodes
      PROVE  Standing(assignments'[n], p)
  BY <1>1, <1>3 DEF DeletionInv
<1>4. \A n \in Nodes :
        NodeDeletion(assignments'[n], observed'[n], local'[n], hostd'[n])
  BY <1>1
<1> QED BY <1>2, <1>3, <1>4, DeletionFrom

\* A step that changes neither the state of a plane nor a command.
LEMMA CommandsRest ==
  ASSUME SamePlanes, op' = op, NEW p \in Planes
  PROVE  (Leaves(p)' => Leaves(p)) /\ (Cleaned(p)' => Cleaned(p))
BY DEF SamePlanes, Leaves, Cleaned, Between, Registered, Exists

\* The whole invariant of the deletion.
PlanesGoneInv == IInv /\ RegistryInv /\ PlacementInv /\ DeletionInv

\* Writing the applied generation changes nothing else of a plane.
LEMMA AppliedSame ==
  ASSUME IInv, NEW p \in Planes, NEW g, planes' = [planes EXCEPT ![p].applied = g]
  PROVE  SamePlanes
<1>1. PICK r : r = planes[p]
  OBVIOUS
<1>2. r \in PlaneRecord
  BY <1>1, PlaneOf
<1> DEFINE y == [r EXCEPT !.applied = g]
<1>3. y.state = r.state /\ y.generation = r.generation /\ y.nodes = r.nodes
  BY <1>2 DEF PlaneRecord
<1>4. planes' = [planes EXCEPT ![p] = y] /\ DOMAIN planes = Planes
  BY <1>1 DEF IInv, PlanesInv, StoreInv
<1> HIDE DEF y
<1>5. \A x \in Planes : planes'[x] = IF x = p THEN y ELSE planes[x]
  BY <1>4
<1> QED BY <1>1, <1>3, <1>5 DEF SamePlanes

\* The steps of hostd, with rows that are kept.
LEMMA HostdGone ==
  ASSUME PlanesGoneInv, ~LoseObservations, NEW n \in Nodes, Hostd(n)
  PROVE  PlacementInv' /\ DeletionInv'
<1>0. IInv /\ PlacementInv /\ DeletionInv
  BY DEF PlanesGoneInv
<1>1. op' = op
  BY DEF Hostd, ClaimNextAssignment, ExpireLeasesOnly, ReportApplying,
     ApplyDesiredNodeState, ReportApplied, TransitionApplied, ConvergeGeneration,
     FailAssignment, Crash, ReportLocalObservedState
<1>2. SamePlanes
  <2>1. CASE planes' = planes
    BY <2>1 DEF SamePlanes
  <2>2. CASE ConvergeGeneration(n)
    <3>1. PICK p \in Planes, g \in Nat : p = Copy(n).plane /\ g = Copy(n).generation
      BY <1>0, <2>2, CopyOf, MaxGenerationAssumption DEF ConvergeGeneration, RowInv, Row
    <3>2. planes' = planes \/ planes' = [planes EXCEPT ![p].applied = g]
      BY <2>2, <3>1 DEF ConvergeGeneration
    <3> QED BY <1>0, <2>1, <3>2, AppliedSame
  <2>3. planes' = planes \/ ConvergeGeneration(n)
    BY DEF Hostd, ClaimNextAssignment, ExpireLeasesOnly, ReportApplying,
       ApplyDesiredNodeState, ReportApplied, TransitionApplied, FailAssignment,
       Crash, ReportLocalObservedState
  <2> QED BY <2>1, <2>2, <2>3
<1>3. \A m \in Nodes : NodeMoves(m) /\ StillStands(m)
  <2>1. \A m \in Nodes : NodeDeletionOf(m)
    BY <1>0 DEF DeletionInv, NodeDeletionOf
  <2> QED BY <1>0, <2>1, HostdDeletion
<1>4. DeletionInv'
  BY <1>0, <1>1, <1>2, <1>3, CommandsRest, DeletionStep
<1>5. \A m \in Nodes : KeptOn(m, {})
  BY <1>0, HostdKeeps
<1>6. \A m \in Nodes : KeptOn(m, PlacedOn(m))
  BY <1>5 DEF KeptOn, Kept
<1>7. \A t \in Threads : OpPlaced(op'[t])
  BY <1>0, <1>1 DEF PlacementInv
<1>8. PlacementInv'
  BY <1>0, <1>2, <1>6, <1>7, PlacementStep
<1> QED BY <1>4, <1>8

\* Rows that are reconciled keep what a deletion relies on.
LEMMA ReconcileMoves ==
  ASSUME IInv, DeletionInv, NEW p, Reconcile(p), UNCHANGED <<observed, local, hostd>>,
         NEW n \in Nodes
  PROVE  NodeMoves(n) /\ StillStands(n) /\ KeptOn(n, PlacedOn(n))
<1>1. PICK q, o, l, h, q2 :
        /\ q = assignments[n] /\ o = observed[n] /\ l = local[n] /\ h = hostd[n]
        /\ q2 = assignments'[n]
  OBVIOUS
<1>2. NodeInv(q, o, l, h) /\ NodeDeletion(q, o, l, h)
  BY <1>1, NodeOf DEF DeletionInv
<1>3. Reconciled(q, q2, o)
  BY <1>1, ReconcileOf
<1>4. /\ NodeMove(q, o, l, h, q2, o, l, h)
      /\ \A x \in Planes : Standing(q, x) => Standing(q2, x)
  BY <1>2, <1>3, ReconciledDeletion
<1>5. KeptOn(n, PlacedOn(n))
  BY <1>1, <1>3 DEF Reconciled, TableMove, RowMove, KeptOn, Kept
<1> QED BY <1>1, <1>4, <1>5 DEF NodeMoves, StillStands

\* Raising the applied generation, and a tick of the reconciliation.
LEMMA TickGone ==
  ASSUME PlanesGoneInv, NEW p \in Planes,
         RaiseAppliedGeneration(p) \/ ReconcileTick(p)
  PROVE  PlacementInv' /\ DeletionInv'
<1>0. IInv /\ PlacementInv /\ DeletionInv
  BY DEF PlanesGoneInv
<1>1. op' = op
  BY DEF RaiseAppliedGeneration, ReconcileTick
<1>2. SamePlanes
  <2>1. PICK g : g = planes[p].generation
    OBVIOUS
  <2>2. planes' = planes \/ planes' = [planes EXCEPT ![p].applied = g]
    BY <2>1 DEF RaiseAppliedGeneration, ReconcileTick
  <2>3. planes' = planes => SamePlanes
    BY DEF SamePlanes
  <2> QED BY <1>0, <2>2, <2>3, AppliedSame
<1>3. \A m \in Nodes : NodeMoves(m) /\ StillStands(m) /\ KeptOn(m, PlacedOn(m))
  <2>1. CASE RaiseAppliedGeneration(p)
    <3>1. UNCHANGED <<assignments, observed, local, hostd>>
      BY <2>1 DEF RaiseAppliedGeneration
    <3>2. \A m \in Nodes : NodeDeletionOf(m)
      BY <1>0 DEF DeletionInv, NodeDeletionOf
    <3>3. \A m \in Nodes : KeptOn(m, PlacedOn(m))
      BY <3>1 DEF KeptOn, Kept
    <3> QED BY <3>1, <3>2, <3>3, NodeRests
  <2>2. CASE ReconcileTick(p)
    BY <1>0, <2>2, ReconcileMoves DEF ReconcileTick
  <2> QED BY <2>1, <2>2
<1>4. DeletionInv'
  BY <1>0, <1>1, <1>2, <1>3, CommandsRest, DeletionStep
<1>5. \A t \in Threads : OpPlaced(op'[t])
  BY <1>0, <1>1 DEF PlacementInv
<1> QED BY <1>0, <1>2, <1>3, <1>4, <1>5, PlacementStep

\* What a thread goes on with.
LEMMA GotoOf ==
  ASSUME IInv, NEW t \in Threads, NEW s, Goto(t, s)
  PROVE  op'[t].step = s /\ op'[t].plane = op[t].plane /\ op'[t].seen = op[t].seen
<1>1. PICK x : x = op[t]
  OBVIOUS
<1>2. x \in Operation
  BY <1>1, OpOf
<1>3. op'[t] = [x EXCEPT !.step = s]
  BY <1>1 DEF Goto, IInv, PlanesInv, OpsInv
<1> QED BY <1>1, <1>2, <1>3 DEF Operation

\* A thread that has ended its command.
LEMMA DoneOf ==
  ASSUME IInv, NEW t \in Threads, Done(t)
  PROVE  op'[t].step = "idle"
BY DEF Done, NoOperation, IInv, PlanesInv, OpsInv

BetweenSteps == {"stop-enqueue", "stop-reconcile", "stop-state",
                 "delete-state", "delete-enqueue"}

\* With one thread, its command is the only one.
LEMMA OneCommand ==
  ASSUME OneThread, NEW t \in Threads, NEW p
  PROVE  /\ Leaves(p) <=> \/ p \notin Registered
                          \/ op[t].step = "finalize" /\ op[t].plane = p
         /\ Leaves(p)' <=> \/ p \notin Registered'
                           \/ op'[t].step = "finalize" /\ op'[t].plane = p
         /\ Cleaned(p) <=> /\ planes[p].state = "deleting"
                           /\ ~(op[t].plane = p /\ op[t].step \in BetweenSteps)
         /\ Cleaned(p)' <=> /\ planes'[p].state = "deleting"
                            /\ ~(op'[t].plane = p /\ op'[t].step \in BetweenSteps)
<1>1. \A u \in Threads : u = t
  BY DEF OneThread
<1>2. Leaves(p) <=> \/ p \notin Registered
                    \/ op[t].step = "finalize" /\ op[t].plane = p
  BY <1>1 DEF Leaves
<1>3. Leaves(p)' <=> \/ p \notin Registered'
                     \/ op'[t].step = "finalize" /\ op'[t].plane = p
  BY <1>1 DEF Leaves
<1>4. Between(p) <=> op[t].plane = p /\ op[t].step \in BetweenSteps
  BY <1>1 DEF Between, BetweenSteps
<1>5. Between(p)' <=> op'[t].plane = p /\ op'[t].step \in BetweenSteps
  BY <1>1 DEF Between, BetweenSteps
<1> QED BY <1>2, <1>3, <1>4, <1>5 DEF Cleaned

\* With one thread, one command is to be placed.
LEMMA OnePlaced ==
  ASSUME OneThread, NEW t \in Threads, OpPlaced(op'[t])
  PROVE  \A u \in Threads : OpPlaced(op'[u])
<1>1. \A u \in Threads : u = t
  BY DEF OneThread
<1> QED BY <1>1

\* A command that goes on or ends knows the nodes of its plane.
LEMMA GoneOnPlaced ==
  ASSUME IInv, PlacementInv, OneThread, NEW t \in Threads,
         Done(t) \/ (op[t].step \in PlaneSteps /\ \E s \in PlaneSteps : Goto(t, s))
  PROVE  \A u \in Threads : OpPlaced(op'[u])
<1>1. CASE Done(t)
  <2>1. op'[t].step = "idle"
    BY <1>1, DoneOf
  <2>2. OpPlaced(op'[t])
    BY <2>1 DEF OpPlaced, PlaneSteps
  <2> QED BY <2>2, OnePlaced
<1>2. CASE op[t].step \in PlaneSteps /\ \E s \in PlaneSteps : Goto(t, s)
  <2>1. PICK s \in PlaneSteps : Goto(t, s)
    BY <1>2
  <2>2. op'[t].step = s /\ op'[t].plane = op[t].plane /\ op'[t].seen = op[t].seen
    BY <2>1, GotoOf
  <2>3. OpPlaced(op[t])
    BY DEF PlacementInv
  <2>4. OpPlaced(op'[t])
    BY <1>2, <2>2, <2>3 DEF OpPlaced, PlaneSteps
  <2> QED BY <2>4, OnePlaced
<1> QED BY <1>1, <1>2

\* A step that leaves the nodes alone.
LEMMA NodesRest ==
  ASSUME DeletionInv, NodesStay, NEW n \in Nodes
  PROVE  NodeMoves(n) /\ StillStands(n) /\ KeptOn(n, PlacedOn(n))
<1>1. NodeDeletionOf(n)
  BY DEF DeletionInv, NodeDeletionOf
<1>2. KeptOn(n, PlacedOn(n))
  BY DEF NodesStay, KeptOn, Kept
<1> QED BY <1>1, <1>2, NodeRests DEF NodesStay

\* The commands that load a plane; a plane is loaded for removal only if it is
\* gone.
LEMMA LoadGone ==
  ASSUME PlanesGoneInv, OneThread, NEW t \in Threads, NEW p \in Planes,
         \/ StartPlane(t, p) \/ StopPlane(t, p) \/ DeletePlane(t, p)
         \/ FinalizeDeletedPlaneIfReady(t, p)
  PROVE  PlacementInv' /\ DeletionInv'
<1>0. IInv /\ PlacementInv /\ DeletionInv
  BY DEF PlanesGoneInv
<1>1. NodesStay /\ planes' = planes /\ op[t].step = "idle"
  BY DEF StartPlane, StopPlane, DeletePlane, FinalizeDeletedPlaneIfReady, NodesStay
<1>2. \E s \in PlaneSteps \ BetweenSteps :
        /\ Load(t, p, s)
        /\ s = "finalize" => planes[p].state = "deleting" /\ CanFinalizeDeletedPlane(p)
  <2>1. {"start-enqueue", "start-state", "stop-supersede", "finalize",
         "delete-supersede"} \subseteq PlaneSteps \ BetweenSteps
    BY DEF PlaneSteps, Steps, BetweenSteps
  <2>2. CASE StartPlane(t, p)
    BY <2>1, <2>2 DEF StartPlane
  <2>3. CASE StopPlane(t, p)
    BY <2>1, <2>3 DEF StopPlane
  <2>4. CASE DeletePlane(t, p)
    BY <2>1, <2>4 DEF DeletePlane
  <2>5. CASE FinalizeDeletedPlaneIfReady(t, p)
    BY <2>1, <2>5 DEF FinalizeDeletedPlaneIfReady
  <2> QED BY <2>2, <2>3, <2>4, <2>5
<1>3. PICK s \in PlaneSteps \ BetweenSteps :
        /\ Load(t, p, s)
        /\ s = "finalize" => planes[p].state = "deleting" /\ CanFinalizeDeletedPlane(p)
  BY <1>2
<1>4. op'[t].step = s /\ op'[t].plane = p /\ op'[t].seen = planes[p]
  BY <1>0, <1>3 DEF Load, IInv, PlanesInv, OpsInv
<1>5. SamePlanes /\ Registered' = Registered
  BY <1>1 DEF SamePlanes, Registered, Exists
<1>6. \A n \in Nodes : NodeMoves(n) /\ StillStands(n) /\ KeptOn(n, PlacedOn(n))
  BY <1>0, <1>1, NodesRest
<1>7. PlacementInv'
  <2>1. OpPlaced(op'[t])
    BY <1>4 DEF OpPlaced, PlaneSteps
  <2>2. \A u \in Threads : OpPlaced(op'[u])
    BY <2>1, OnePlaced
  <2> QED BY <1>0, <1>5, <1>6, <2>2, PlacementStep
<1>8. \A x \in Planes : Cleaned(x)' => Cleaned(x)
  <2>1. "idle" \notin BetweenSteps
    BY DEF BetweenSteps
  <2> QED BY <1>1, <2>1, OneCommand
<1>9. CASE s # "finalize"
  <2>1. \A x \in Planes : Leaves(x)' => Leaves(x)
    BY <1>4, <1>5, <1>9, OneCommand
  <2> QED BY <1>0, <1>6, <1>7, <1>8, <2>1, DeletionStep
<1>10. CASE s = "finalize"
  <2>1. Cleaned(p)
    <3>1. "idle" \notin BetweenSteps
      BY DEF BetweenSteps
    <3> QED BY <1>1, <1>3, <1>10, <3>1, OneCommand
  <2>2. \A n \in Nodes : GoneFrom(n, p)
    BY <1>0, <1>3, <1>10, <2>1, FinalizeReady
  <2>3. /\ assignments' = assignments /\ observed' = observed
        /\ local' = local /\ hostd' = hostd
    BY <1>1 DEF NodesStay
  <2>4. ASSUME NEW x \in Planes, Leaves(x)', NEW n \in Nodes
        PROVE  Gone(assignments'[n], observed'[n], local'[n], hostd'[n], x)
    <3>1. x = p \/ Leaves(x)
      BY <1>4, <1>5, <2>4, OneCommand
    <3>2. GoneFrom(n, x)
      BY <1>0, <2>2, <3>1 DEF DeletionInv, GoneFrom
    <3> QED BY <2>3, <3>2 DEF GoneFrom
  <2>5. ASSUME NEW x \in Planes, Cleaned(x)', NEW n \in Nodes
        PROVE  Standing(assignments'[n], x)
    BY <1>0, <1>8, <2>3, <2>5 DEF DeletionInv
  <2>6. \A n \in Nodes :
          NodeDeletion(assignments'[n], observed'[n], local'[n], hostd'[n])
    BY <1>6 DEF NodeMoves, NodeMove
  <2> QED BY <1>7, <2>4, <2>5, <2>6, DeletionFrom
<1> QED BY <1>7, <1>9, <1>10

\* ApplyDesiredState: a further generation of a plane is stored only where
\* there is one node.
LEMMA ApplyDesiredGone ==
  ASSUME PlanesGoneInv, InTurn, NEW t \in Threads, NEW p \in Planes,
         NEW N \in (SUBSET Nodes) \ {{}}, ApplyDesiredState(t, p, N)
  PROVE  PlacementInv' /\ DeletionInv'
<1>0. IInv /\ PlacementInv /\ DeletionInv /\ OneThread /\ OnePlacement
  BY DEF PlanesGoneInv, InTurn
<1>1. NodesStay /\ planes' = planes /\ op[t].step = "idle"
  BY DEF ApplyDesiredState, NodesStay
<1>2. op'[t].step = "replace" /\ op'[t].plane = p /\ op'[t].nodes = N
  BY <1>0 DEF ApplyDesiredState, IInv, PlanesInv, OpsInv
<1>3. SamePlanes /\ Registered' = Registered
  BY <1>1 DEF SamePlanes, Registered, Exists
<1>4. \A n \in Nodes : NodeMoves(n) /\ StillStands(n) /\ KeptOn(n, PlacedOn(n))
  BY <1>0, <1>1, NodesRest
<1>5. p \in Registered => \A m, n \in Nodes : m = n
  <2>1. planes[p].generation \in Nat /\ planes[p].generation < MaxGeneration
    BY <1>0, PlaneOf DEF ApplyDesiredState
  <2>2. p \in Registered => planes[p].generation > 0
    BY <1>0 DEF PlacementInv
  <2>3. p \in Registered => ~(MaxGeneration <= 1)
    BY <2>1, <2>2, MaxGenerationAssumption
  <2> QED BY <1>0, <2>3 DEF OnePlacement
<1>6. OpPlaced(op'[t])
  BY <1>2, <1>5 DEF OpPlaced, PlaneSteps
<1>7. PlacementInv'
  BY <1>0, <1>3, <1>4, <1>6, OnePlaced, PlacementStep
<1>8. "idle" \notin BetweenSteps /\ "replace" \notin BetweenSteps
  BY DEF BetweenSteps
<1>9. \A x \in Planes : (Leaves(x)' => Leaves(x)) /\ (Cleaned(x)' => Cleaned(x))
  BY <1>0, <1>1, <1>2, <1>3, <1>8, OneCommand
<1> QED BY <1>0, <1>4, <1>7, <1>9, DeletionStep

\* SetNodeAvailability concerns no plane yet.
LEMMA AvailabilityGone ==
  ASSUME PlanesGoneInv, OneThread, NEW t \in Threads, NEW n \in Nodes,
         NEW active \in BOOLEAN, SetNodeAvailability(t, n, active)
  PROVE  PlacementInv' /\ DeletionInv'
<1>0. IInv /\ PlacementInv /\ DeletionInv
  BY DEF PlanesGoneInv
<1>1. NodesStay /\ planes' = planes /\ op[t].step = "idle"
  BY DEF SetNodeAvailability, NodesStay
<1>2. op'[t].step \in {"resync", "drain"}
  <2>1. PICK s \in {"resync", "drain"} : s = IF active THEN "resync" ELSE "drain"
    OBVIOUS
  <2> DEFINE x == [NoOperation EXCEPT !.step = s, !.nodes = {n}]
  <2>2. x.step = s /\ op' = [op EXCEPT ![t] = x]
    BY <2>1 DEF SetNodeAvailability, NoOperation
  <2> HIDE DEF x
  <2> QED BY <1>0, <2>2 DEF IInv, PlanesInv, OpsInv
<1>3. SamePlanes /\ Registered' = Registered
  BY <1>1 DEF SamePlanes, Registered, Exists
<1>4. \A m \in Nodes : NodeMoves(m) /\ StillStands(m) /\ KeptOn(m, PlacedOn(m))
  BY <1>0, <1>1, NodesRest
<1>5. OpPlaced(op'[t])
  BY <1>2 DEF OpPlaced, PlaneSteps
<1>6. PlacementInv'
  BY <1>0, <1>3, <1>4, <1>5, OnePlaced, PlacementStep
<1>7. "idle" \notin BetweenSteps
  BY DEF BetweenSteps
<1>8. \A x \in Planes : (Leaves(x)' => Leaves(x)) /\ (Cleaned(x)' => Cleaned(x))
  BY <1>1, <1>2, <1>3, <1>7, OneCommand
<1> QED BY <1>0, <1>4, <1>6, <1>8, DeletionStep

\* Setting the state of the plane of a command, which is registered.
LEMMA SetsStateGone ==
  ASSUME PlanesGoneInv, OneThread, NEW t \in Threads,
         StartSetsState(t) \/ StopSetsState(t) \/ DeleteSetsState(t)
  PROVE  PlacementInv' /\ DeletionInv'
<1>0. IInv /\ RegistryInv /\ PlacementInv /\ DeletionInv
  BY DEF PlanesGoneInv
<1>1. op[t].step \in {"start-state", "stop-state", "delete-state"} /\ NodesStay
  BY DEF StartSetsState, StopSetsState, DeleteSetsState, NodesStay
<1>2. op[t].step \in PlaneSteps
  BY <1>1 DEF PlaneSteps, Steps
<1>3. PICK p \in Planes : p = op[t].plane /\ p \in Registered /\ Exists(p)
  BY <1>0, <1>2, OpOf DEF RegistryInv, Registered
<1>4. PICK st \in {"running", "stopped", "deleting"} :
        /\ planes' = [planes EXCEPT ![p].state = st]
        /\ \/ st # "deleting" /\ Done(t)
           \/ st = "running" /\ Goto(t, "start-enqueue")
           \/ st = "deleting" /\ Goto(t, "delete-enqueue")
  BY <1>3 DEF StartSetsState, StopSetsState, DeleteSetsState, UpdatePlaneState
<1>5. PICK r \in PlaneRecord : r = planes[p] /\ r.state # "absent"
  BY <1>0, <1>3, PlaneOf DEF Exists
<1> DEFINE y == [r EXCEPT !.state = st]
<1>6. y.state = st /\ y.generation = r.generation /\ y.nodes = r.nodes
  BY DEF PlaneRecord
<1>7. planes' = [planes EXCEPT ![p] = y] /\ DOMAIN planes = Planes
  BY <1>0, <1>4, <1>5 DEF IInv, PlanesInv, StoreInv
<1> HIDE DEF y
<1>8. planes'[p] = y /\ \A x \in Planes : x # p => planes'[x] = planes[x]
  BY <1>7
<1>9. SamePlaces /\ Registered' = Registered
  BY <1>5, <1>6, <1>8 DEF SamePlaces, Registered, Exists
<1>10. \A n \in Nodes : NodeMoves(n) /\ StillStands(n) /\ KeptOn(n, PlacedOn(n))
  BY <1>0, <1>1, NodesRest
<1>11. PlacementInv'
  <2>1. {"start-enqueue", "delete-enqueue"} \subseteq PlaneSteps
    BY DEF PlaneSteps, Steps
  <2>2. \A u \in Threads : OpPlaced(op'[u])
    BY <1>0, <1>2, <1>4, <2>1, GoneOnPlaced
  <2> QED BY <1>0, <1>9, <1>10, <2>2, PlacementStep
<1>12. /\ op'[t].step # "finalize"
       /\ st = "deleting" => op'[t].plane = p /\ op'[t].step \in BetweenSteps
  BY <1>0, <1>3, <1>4, DoneOf, GotoOf DEF BetweenSteps
<1>13. \A x \in Planes : Leaves(x)' => Leaves(x)
  BY <1>9, <1>12, OneCommand
<1>14. ASSUME NEW x \in Planes, Cleaned(x)' PROVE Cleaned(x)
  <2>1. x # p
    BY <1>6, <1>8, <1>12, <1>14, OneCommand
  <2>2. planes[x].state = "deleting"
    BY <1>8, <1>14, <2>1, OneCommand
  <2> QED BY <1>3, <2>1, <2>2, OneCommand
<1> QED BY <1>0, <1>10, <1>11, <1>13, <1>14, DeletionStep

\* Superseding the rows of the plane: until new rows are queued, none stands.
LEMMA SupersedesGone ==
  ASSUME PlanesGoneInv, OneThread, NEW t \in Threads,
         StopSupersedes(t) \/ DeleteSupersedes(t)
  PROVE  PlacementInv' /\ DeletionInv'
<1>0. IInv /\ RegistryInv /\ PlacementInv /\ DeletionInv
  BY DEF PlanesGoneInv
<1>1. PICK p : p = op[t].plane
  OBVIOUS
<1>2. /\ op[t].step \in {"stop-supersede", "delete-supersede"}
      /\ Supersede(p) /\ planes' = planes /\ UNCHANGED <<observed, local, hostd>>
      /\ Goto(t, "stop-enqueue") \/ Goto(t, "delete-state")
  BY <1>1 DEF StopSupersedes, DeleteSupersedes
<1>3. op[t].step \in PlaneSteps /\ {"stop-enqueue", "delete-state"} \subseteq PlaneSteps
  BY <1>2 DEF PlaneSteps, Steps
<1>4. /\ op'[t].step \in BetweenSteps /\ op'[t].step # "finalize" /\ op'[t].plane = p
  BY <1>0, <1>1, <1>2, GotoOf DEF BetweenSteps
<1>5. SamePlanes /\ Registered' = Registered
  BY <1>2 DEF SamePlanes, Registered, Exists
<1>6. ASSUME NEW n \in Nodes
      PROVE  /\ NodeMoves(n)
             /\ \A x \in Planes : x # p /\ Standing(assignments[n], x)
                  => Standing(assignments'[n], x)
  <2>1. PICK q, o, l, h, s :
          /\ q = assignments[n] /\ o = observed[n] /\ l = local[n] /\ h = hostd[n]
          /\ s = assignments'[n]
    OBVIOUS
  <2>2. NodeInv(q, o, l, h) /\ NodeDeletion(q, o, l, h)
    BY <1>0, <2>1, NodeOf DEF DeletionInv
  <2>3. s = SupersedeAll(q, {p})
    BY <1>2, <2>1 DEF Supersede, SupersedePlane, SupersedeAll
  <2>4. /\ NodeMove(q, o, l, h, s, o, l, h)
        /\ \A x \in Planes : x \notin {p} /\ Standing(q, x) => Standing(s, x)
    BY <2>2, <2>3, SupersedeDeletion
  <2> QED BY <1>2, <2>1, <2>4 DEF NodeMoves
<1>7. PlacementInv'
  <2>1. \A n \in Nodes : KeptOn(n, {})
    BY <1>0, <1>2, SupersedeKeeps
  <2>2. \A n \in Nodes : KeptOn(n, PlacedOn(n))
    BY <2>1 DEF KeptOn, Kept
  <2>3. \A u \in Threads : OpPlaced(op'[u])
    BY <1>0, <1>2, <1>3, GoneOnPlaced
  <2> QED BY <1>0, <1>5, <2>2, <2>3, PlacementStep
<1>8. \A x \in Planes : Leaves(x)' => Leaves(x)
  BY <1>4, <1>5, OneCommand
<1>9. \A x \in Planes : Cleaned(x)' => x # p /\ Cleaned(x)
  BY <1>1, <1>2, <1>4, OneCommand
<1>10. \A n \in Nodes :
         NodeDeletion(assignments'[n], observed'[n], local'[n], hostd'[n])
  BY <1>6 DEF NodeMoves, NodeMove
<1>11. ASSUME NEW x \in Planes, Leaves(x)', NEW n \in Nodes
       PROVE  Gone(assignments'[n], observed'[n], local'[n], hostd'[n], x)
  <2>1. Gone(assignments[n], observed[n], local[n], hostd[n], x)
    BY <1>0, <1>8, <1>11 DEF DeletionInv
  <2> QED BY <1>6, <2>1 DEF NodeMoves, NodeMove
<1>12. ASSUME NEW x \in Planes, Cleaned(x)', NEW n \in Nodes
       PROVE  Standing(assignments'[n], x)
  <2>1. x # p /\ Standing(assignments[n], x)
    BY <1>0, <1>9, <1>12 DEF DeletionInv
  <2> QED BY <1>6, <2>1
<1> QED BY <1>7, <1>10, <1>11, <1>12, DeletionFrom

\* Reconciling the rows of the plane.
LEMMA CommandReconcilesGone ==
  ASSUME PlanesGoneInv, OneThread, NEW t \in Threads, CommandReconciles(t)
  PROVE  PlacementInv' /\ DeletionInv'
<1>0. IInv /\ RegistryInv /\ PlacementInv /\ DeletionInv
  BY DEF PlanesGoneInv
<1>1. PICK p : p = op[t].plane
  OBVIOUS
<1>2. /\ op[t].step \in {"reconcile", "stop-reconcile"}
      /\ Reconcile(p) /\ planes' = planes /\ UNCHANGED <<observed, local, hostd>>
      /\ \/ op[t].step = "reconcile" /\ Done(t)
         \/ op[t].step = "stop-reconcile" /\ Goto(t, "stop-state")
  BY <1>1 DEF CommandReconciles
<1>3. op[t].step \in PlaneSteps /\ "stop-state" \in PlaneSteps
  BY <1>2 DEF PlaneSteps, Steps
<1>4. SamePlanes /\ Registered' = Registered
  BY <1>2 DEF SamePlanes, Registered, Exists
<1>5. \A n \in Nodes : NodeMoves(n) /\ StillStands(n) /\ KeptOn(n, PlacedOn(n))
  BY <1>0, <1>2, ReconcileMoves
<1>6. PlacementInv'
  <2>1. \A u \in Threads : OpPlaced(op'[u])
    BY <1>0, <1>2, <1>3, GoneOnPlaced
  <2> QED BY <1>0, <1>4, <1>5, <2>1, PlacementStep
<1>7. /\ op'[t].step # "finalize"
      /\ op[t].step \in BetweenSteps =>
           op'[t].step \in BetweenSteps /\ op'[t].plane = op[t].plane
  BY <1>0, <1>2, DoneOf, GotoOf DEF BetweenSteps
<1>8. \A x \in Planes : (Leaves(x)' => Leaves(x)) /\ (Cleaned(x)' => Cleaned(x))
  BY <1>2, <1>4, <1>7, OneCommand
<1> QED BY <1>0, <1>5, <1>6, <1>8, DeletionStep

\* What enqueueing rows for the planes P does on node n.
EnqueuedOn(n, P) ==
  /\ NodeDeletion(assignments'[n], observed'[n], local'[n], hostd'[n])
  /\ \A x \in Planes : x \notin P /\ GoneFrom(n, x) =>
       Gone(assignments'[n], observed'[n], local'[n], hostd'[n], x)
  /\ \A x \in Planes : x \in P \/ Standing(assignments[n], x) =>
       Standing(assignments'[n], x)

\* Enqueueing keeps what a deletion relies on for the other planes, and the
\* newest row of its own planes stands.
LEMMA EnqueuedMoves ==
  ASSUME IInv, DeletionInv, UNCHANGED <<observed, local, hostd>>, NEW n \in Nodes,
         NEW P,
         \/ Enqueued(assignments[n], assignments'[n], P)
         \/ P = {} /\ assignments'[n] = assignments[n]
  PROVE  EnqueuedOn(n, P) /\ KeptOn(n, P)
<1>1. PICK q, o, l, h, q2 :
        /\ q = assignments[n] /\ o = observed[n] /\ l = local[n] /\ h = hostd[n]
        /\ q2 = assignments'[n]
  OBVIOUS
<1>2. NodeInv(q, o, l, h) /\ NodeDeletion(q, o, l, h)
  BY <1>1, NodeOf DEF DeletionInv
<1>3. CASE Enqueued(assignments[n], assignments'[n], P)
  <2>1. Enqueued(q, q2, P)
    BY <1>1, <1>3
  <2>2. /\ NodeDeletion(q2, o, l, h)
        /\ \A x \in Planes : x \notin P /\ Gone(q, o, l, h, x) => Gone(q2, o, l, h, x)
        /\ \A x \in Planes : x \in P \/ Standing(q, x) => Standing(q2, x)
    BY <1>2, <2>1, EnqueuedDeletion
  <2>3. Kept(q, q2, P)
    BY <2>1, EnqueuedKeeps
  <2> QED BY <1>1, <2>2, <2>3 DEF EnqueuedOn, GoneFrom, KeptOn
<1>4. CASE P = {} /\ assignments'[n] = assignments[n]
  <2>1. q2 = q
    BY <1>1, <1>4
  <2>2. KeptOn(n, P)
    BY <1>4 DEF KeptOn, Kept
  <2> QED BY <1>1, <1>2, <1>4, <2>1, <2>2 DEF EnqueuedOn, GoneFrom
<1> QED BY <1>3, <1>4

\* Draining and resyncing a node concern planes that are placed on it, none of
\* which is about to leave.
LEMMA DrainResyncGone ==
  ASSUME PlanesGoneInv, OneThread, NEW t \in Threads, NEW n \in Nodes,
         DrainNode(t, n) \/ ResyncNode(t, n)
  PROVE  PlacementInv' /\ DeletionInv'
<1>0. IInv /\ PlacementInv /\ DeletionInv
  BY DEF PlanesGoneInv
<1>1. /\ Done(t) /\ planes' = planes /\ UNCHANGED <<observed, local, hostd>>
      /\ op[t].step \in {"drain", "resync"}
  BY DEF DrainNode, ResyncNode
<1>2. PICK P \in SUBSET AffectedPlanes(n) :
        \A m \in Nodes :
          /\ m = n => Enqueued(assignments[m], assignments'[m], P)
          /\ m # n => assignments'[m] = assignments[m]
  BY <1>0, DrainResyncOf
<1>3. P \subseteq PlacedOn(n)
  BY DEF AffectedPlanes, PlacedOn, Registered, Exists
<1>4. ASSUME NEW m \in Nodes
      PROVE  \E Q \in SUBSET PlacedOn(m) : EnqueuedOn(m, Q) /\ KeptOn(m, Q)
  <2>1. CASE m = n
    BY <1>0, <1>1, <1>2, <1>3, <2>1, EnqueuedMoves
  <2>2. CASE m # n
    <3>1. EnqueuedOn(m, {}) /\ KeptOn(m, {})
      BY <1>0, <1>1, <1>2, <2>2, EnqueuedMoves
    <3> QED BY <3>1
  <2> QED BY <2>1, <2>2
<1>5. SamePlanes /\ Registered' = Registered
  BY <1>1 DEF SamePlanes, Registered, Exists
<1>6. PlacementInv'
  <2>1. \A m \in Nodes : KeptOn(m, PlacedOn(m))
    BY <1>4 DEF KeptOn, Kept
  <2>2. \A u \in Threads : OpPlaced(op'[u])
    BY <1>0, <1>1, GoneOnPlaced
  <2> QED BY <1>0, <1>5, <2>1, <2>2, PlacementStep
<1>7. op'[t].step = "idle"
  BY <1>0, <1>1, DoneOf
<1>8. "drain" \notin BetweenSteps /\ "resync" \notin BetweenSteps
  BY DEF BetweenSteps
<1>9. \A x \in Planes : (Leaves(x)' => x \notin Registered) /\ (Cleaned(x)' => Cleaned(x))
  BY <1>1, <1>5, <1>7, <1>8, OneCommand
<1>10. \A m \in Nodes :
         NodeDeletion(assignments'[m], observed'[m], local'[m], hostd'[m])
  BY <1>4 DEF EnqueuedOn
<1>11. ASSUME NEW x \in Planes, Leaves(x)', NEW m \in Nodes
       PROVE  Gone(assignments'[m], observed'[m], local'[m], hostd'[m], x)
  <2>1. x \notin Registered /\ Leaves(x)
    BY <1>9, <1>11 DEF Leaves
  <2>2. GoneFrom(m, x)
    BY <1>0, <2>1 DEF DeletionInv, GoneFrom
  <2>3. x \notin PlacedOn(m)
    BY <2>1 DEF PlacedOn
  <2> QED BY <1>4, <2>2, <2>3 DEF EnqueuedOn
<1>12. ASSUME NEW x \in Planes, Cleaned(x)', NEW m \in Nodes
       PROVE  Standing(assignments'[m], x)
  <2>1. Standing(assignments[m], x)
    BY <1>0, <1>9, <1>12 DEF DeletionInv
  <2> QED BY <1>4, <2>1 DEF EnqueuedOn
<1> QED BY <1>6, <1>10, <1>11, <1>12, DeletionFrom

\* The steps that enqueue rows for the plane of a command: the rows go to nodes
\* of the plane, which stays, and after DeleteEnqueues the newest row stands on
\* all of them.
LEMMA EnqueuesGone ==
  ASSUME PlanesGoneInv, OneThread, NEW t \in Threads,
         StartEnqueues(t) \/ StopEnqueues(t) \/ DeleteEnqueues(t)
  PROVE  PlacementInv' /\ DeletionInv'
<1>0. IInv /\ RegistryInv /\ PlacementInv /\ DeletionInv
  BY DEF PlanesGoneInv
<1>1. op[t].step \in PlaneSteps
  BY <1>0, EnqueuesOf
<1>2. PICK p \in Planes : p = op[t].plane /\ p \in Registered
  BY <1>0, <1>1, OpOf DEF RegistryInv
<1>3. op[t].seen.nodes = planes[p].nodes
  BY <1>0, <1>1, <1>2 DEF PlacementInv, OpPlaced
<1>4. /\ planes' = planes /\ UNCHANGED <<observed, local, hostd>>
      /\ \/ op[t].step = "start-enqueue" /\ Goto(t, "reconcile")
         \/ op[t].step = "stop-enqueue" /\ Goto(t, "stop-reconcile")
         \/ DeleteEnqueues(t) /\ Goto(t, "reconcile")
  BY DEF StartEnqueues, StopEnqueues, DeleteEnqueues
<1>5. ASSUME NEW n \in Nodes, assignments'[n] # assignments[n]
      PROVE  p \in PlacedOn(n) /\ Enqueued(assignments[n], assignments'[n], {p})
  <2>1. Enqueued(assignments[n], assignments'[n], {p})
    BY <1>0, <1>2, <1>5, EnqueuesOf
  <2>2. CASE n \in op[t].seen.nodes
    BY <1>2, <1>3, <2>1, <2>2 DEF PlacedOn
  <2>3. CASE n \in RemovedNodes(t)
    <3>1. PICK i \in Latest(assignments[n], p) : TRUE
      BY <1>2, <2>3 DEF RemovedNodes
    <3>2. /\ i \in DOMAIN assignments[n] /\ assignments[n][i].plane = p
          /\ assignments[n][i].status # "deleted"
      BY <3>1 DEF Latest
    <3>3. p \in PlacedOn(n)
      BY <1>0, <3>2 DEF PlacementInv, RowsWithin
    <3> QED BY <2>1, <3>3
  <2>4. n \in op[t].seen.nodes \/ n \in RemovedNodes(t)
    BY <1>0, <1>5, EnqueuesOf
  <2> QED BY <2>2, <2>3, <2>4
<1>6. ASSUME NEW n \in Nodes
      PROVE  \E Q \in SUBSET (PlacedOn(n) \cap {p}) : EnqueuedOn(n, Q) /\ KeptOn(n, Q)
  <2>1. CASE assignments'[n] # assignments[n]
    <3>1. p \in PlacedOn(n) /\ Enqueued(assignments[n], assignments'[n], {p})
      BY <1>5, <2>1
    <3>2. EnqueuedOn(n, {p}) /\ KeptOn(n, {p})
      BY <1>0, <1>4, <3>1, EnqueuedMoves
    <3> QED BY <3>1, <3>2
  <2>2. CASE assignments'[n] = assignments[n]
    <3>1. EnqueuedOn(n, {}) /\ KeptOn(n, {})
      BY <1>0, <1>4, <2>2, EnqueuedMoves
    <3> QED BY <3>1
  <2> QED BY <2>1, <2>2
<1>7. SamePlanes /\ Registered' = Registered
  BY <1>4 DEF SamePlanes, Registered, Exists
<1>8. PlacementInv'
  <2>1. \A n \in Nodes : KeptOn(n, PlacedOn(n))
    BY <1>6 DEF KeptOn, Kept
  <2>2. {"reconcile", "stop-reconcile"} \subseteq PlaneSteps
    BY DEF PlaneSteps, Steps
  <2>3. \A u \in Threads : OpPlaced(op'[u])
    BY <1>0, <1>1, <1>4, <2>2, GoneOnPlaced
  <2> QED BY <1>0, <1>7, <2>1, <2>3, PlacementStep
<1>9. /\ op'[t].step # "finalize" /\ op'[t].plane = p
      /\ op[t].step = "stop-enqueue" => op'[t].step = "stop-reconcile"
  <2>1. DeleteEnqueues(t) => op[t].step = "delete-enqueue"
    BY DEF DeleteEnqueues
  <2> QED BY <1>0, <1>2, <1>4, <2>1, GotoOf
<1>10. \A n \in Nodes :
         NodeDeletion(assignments'[n], observed'[n], local'[n], hostd'[n])
  BY <1>6 DEF EnqueuedOn
<1>11. ASSUME NEW x \in Planes, Leaves(x)', NEW n \in Nodes
       PROVE  Gone(assignments'[n], observed'[n], local'[n], hostd'[n], x)
  <2>1. x \notin Registered /\ Leaves(x)
    BY <1>7, <1>9, <1>11, OneCommand
  <2>2. GoneFrom(n, x)
    BY <1>0, <2>1 DEF DeletionInv, GoneFrom
  <2> QED BY <1>2, <1>6, <2>1, <2>2 DEF EnqueuedOn
<1>12. ASSUME NEW x \in Planes, Cleaned(x)', NEW n \in Nodes
       PROVE  Standing(assignments'[n], x)
  <2>1. planes[x].state = "deleting" /\ ~(p = x /\ op'[t].step \in BetweenSteps)
    BY <1>4, <1>9, <1>12, OneCommand
  <2>2. CASE Cleaned(x)
    <3>1. Standing(assignments[n], x)
      BY <1>0, <2>2 DEF DeletionInv
    <3> QED BY <1>6, <3>1 DEF EnqueuedOn
  <2>3. CASE x = p /\ DeleteEnqueues(t)
    <3>1. CASE n \in op[t].seen.nodes
      <4>1. Enqueued(assignments[n], assignments'[n], {p})
        BY <1>0, <1>2, <2>3, <3>1, EnqueuesOf
      <4>2. EnqueuedOn(n, {p})
        BY <1>0, <1>4, <4>1, EnqueuedMoves
      <4> QED BY <2>3, <4>2 DEF EnqueuedOn
    <3>2. CASE n \notin op[t].seen.nodes
      <4>1. p \notin PlacedOn(n)
        BY <1>3, <3>2 DEF PlacedOn
      <4>2. assignments'[n] = assignments[n]
        BY <1>5, <4>1
      <4>3. Latest(assignments[n], p) = {}
        BY <1>0, <4>1 DEF PlacementInv, RowsWithin, Latest
      <4> QED BY <2>3, <4>2, <4>3 DEF Standing
    <3> QED BY <3>1, <3>2
  <2>4. "start-enqueue" \notin BetweenSteps /\ "stop-reconcile" \in BetweenSteps
    BY DEF BetweenSteps
  <2>5. Cleaned(x) \/ (x = p /\ DeleteEnqueues(t))
    <3>1. CASE x # p
      BY <1>2, <2>1, <3>1, OneCommand
    <3>2. CASE op[t].step = "start-enqueue"
      BY <2>1, <2>4, <3>2, OneCommand
    <3>3. CASE op[t].step = "stop-enqueue" /\ x = p
      BY <1>9, <2>1, <2>4, <3>3
    <3> QED BY <1>4, <3>1, <3>2, <3>3
  <2> QED BY <2>2, <2>3, <2>5
<1> QED BY <1>8, <1>10, <1>11, <1>12, DeletionFrom

\* FinalizeDeletes removes a plane that is gone, with its rows.
LEMMA FinalizeGone ==
  ASSUME PlanesGoneInv, OneThread, NEW t \in Threads, FinalizeDeletes(t)
  PROVE  PlacementInv' /\ DeletionInv'
<1>0. IInv /\ PlacementInv /\ DeletionInv
  BY DEF PlanesGoneInv
<1>1. op[t].step = "finalize" /\ "finalize" \in PlaneSteps
  BY DEF FinalizeDeletes, PlaneSteps, Steps
<1>2. PICK p \in Planes : p = op[t].plane
  BY <1>0, <1>1, OpOf
<1>3. /\ planes' = [planes EXCEPT ![p] = Absent]
      /\ assignments' = [n \in Nodes |-> DeletePlaneRows(assignments[n], p)]
      /\ observed' = [n \in Nodes |->
           IF observed[n].plane = p
           THEN [observed[n] EXCEPT !.plane = NoPlane, !.generation = 0, !.id = 0]
           ELSE observed[n]]
      /\ local' = local /\ hostd' = hostd /\ Done(t)
  BY <1>2 DEF FinalizeDeletes
<1>4. planes'[p] = Absent /\ \A x \in Planes : x # p => planes'[x] = planes[x]
  BY <1>0, <1>3 DEF IInv, PlanesInv, StoreInv
<1>5. Registered' = Registered \ {p}
  BY <1>4 DEF Registered, Exists, Absent
<1>6. op'[t].step = "idle"
  BY <1>0, <1>3, DoneOf
<1>7. ASSUME NEW n \in Nodes PROVE NodeMoves(n) /\ StillStands(n)
  <2>1. PICK q, o, l, h, q2, o2 :
          /\ q = assignments[n] /\ o = observed[n] /\ l = local[n] /\ h = hostd[n]
          /\ q2 = assignments'[n] /\ o2 = observed'[n]
    OBVIOUS
  <2>2. NodeInv(q, o, l, h) /\ NodeDeletion(q, o, l, h)
    BY <1>0, <2>1, NodeOf DEF DeletionInv
  <2>3. Leaves(p)
    BY <1>1, <1>2 DEF Leaves
  <2>4. Gone(q, o, l, h, p)
    BY <1>0, <2>1, <2>3 DEF DeletionInv
  <2>5. q2 = DeletePlaneRows(q, p)
    BY <1>3, <2>1
  <2>6. o2 = IF o.plane = p
             THEN [o EXCEPT !.plane = NoPlane, !.generation = 0, !.id = 0] ELSE o
    BY <1>3, <2>1
  <2>7. o \in Observation
    BY <2>2 DEF NodeInv
  <2>8. o2.status = o.status /\ o2.content = o.content /\ (o.plane # p => o2 = o)
    <3>1. CASE o.plane = p
      BY <2>6, <2>7, <3>1 DEF Observation
    <3>2. CASE o.plane # p
      BY <2>6, <3>2
    <3> QED BY <3>1, <3>2
  <2>9. /\ NodeMove(q, o, l, h, q2, o2, l, h)
        /\ \A x \in Planes : Standing(q, x) => Standing(q2, x)
    BY <2>2, <2>4, <2>5, <2>8, DeleteDeletion
  <2> QED BY <1>3, <2>1, <2>9 DEF NodeMoves, StillStands
<1>8. PlacementInv'
  <2>1. \A x \in Registered' : planes'[x].generation > 0
    BY <1>0, <1>4, <1>5 DEF PlacementInv, Registered
  <2>2. ASSUME NEW u \in Threads PROVE OpPlaced(op[u])'
    <3>1. u = t
      BY DEF OneThread
    <3> QED BY <1>6, <3>1 DEF OpPlaced, PlaneSteps
  <2>3. ASSUME NEW n \in Nodes PROVE RowsWithin(assignments[n], PlacedOn(n))'
    <3>1. PICK q \in Seq(Row) : q = assignments[n]
      BY <1>0, NodeOf
    <3>2. PICK q2 : q2 = DeletePlaneRows(q, p)
      OBVIOUS
    <3>3. /\ DOMAIN q2 = DOMAIN q
          /\ \A i \in DOMAIN q :
               /\ q2[i].plane = q[i].plane
               /\ q[i].plane = p => q2[i].status = "deleted"
               /\ q[i].plane # p => q2[i] = q[i]
      BY <3>2, DeletedRows
    <3>4. PICK S, S2 : S = PlacedOn(n) /\ S2 = PlacedOn(n)'
      OBVIOUS
    <3>5. S \ {p} \subseteq S2
      BY <1>4, <1>5, <3>4 DEF PlacedOn, Registered
    <3>6. RowsWithin(q, S)
      BY <1>0, <3>1, <3>4 DEF PlacementInv
    <3>7. RowsWithin(q2, S2)
      BY <3>3, <3>5, <3>6 DEF RowsWithin
    <3>8. assignments'[n] = q2
      BY <1>3, <3>1, <3>2
    <3> QED BY <3>4, <3>7, <3>8 DEF RowsWithin
  <2> QED BY <2>1, <2>2, <2>3 DEF PlacementInv
<1>9. \A x \in Planes : Leaves(x)' => Leaves(x)
  BY <1>1, <1>2, <1>5, <1>6, OneCommand
<1>10. ASSUME NEW x \in Planes, Cleaned(x)' PROVE Cleaned(x)
  <2>1. planes'[x].state = "deleting"
    BY <1>10 DEF Cleaned
  <2>2. x # p
    BY <1>4, <2>1 DEF Absent
  <2>3. planes[x].state = "deleting" /\ op[t].plane # x
    BY <1>2, <1>4, <2>1, <2>2
  <2> QED BY <2>3, OneCommand
<1> QED BY <1>0, <1>7, <1>8, <1>9, <1>10, DeletionStep

\* ReplaceDesiredState stores the nodes of a plane that is new, or those it has.
LEMMA ReplaceGone ==
  ASSUME PlanesGoneInv, OneThread, NEW t \in Threads, ReplaceDesiredState(t)
  PROVE  PlacementInv' /\ DeletionInv'
<1>0. IInv /\ RegistryInv /\ PlacementInv /\ DeletionInv
  BY DEF PlanesGoneInv
<1>1. op[t].step = "replace" /\ NodesStay /\ Done(t)
  BY DEF ReplaceDesiredState, NodesStay
<1>2. PICK p \in Planes : p = op[t].plane
  BY <1>0, <1>1, OpOf
<1>3. /\ op[t].nodes # {} /\ op[t].nodes \subseteq Nodes
      /\ p \in Registered => \A m, n \in Nodes : m = n
  BY <1>0, <1>1, <1>2 DEF PlacementInv, OpPlaced
<1>4. PICK st, g : /\ st = (IF Exists(p) THEN planes[p].state ELSE "stopped")
                   /\ g = op[t].seen.generation + 1
  OBVIOUS
<1>5. g > 0
  <2>1. op[t].seen.generation \in Nat
    BY <1>0, OpOf DEF Operation, PlaneRecord
  <2> QED BY <1>4, <2>1
<1> DEFINE y == [state |-> st, generation |-> g, applied |-> planes[p].applied,
                 nodes |-> op[t].nodes]
<1>6. y.state = st /\ y.generation = g /\ y.nodes = op[t].nodes
  OBVIOUS
<1>7. planes' = [planes EXCEPT ![p] = y] /\ DOMAIN planes = Planes
  BY <1>0, <1>2, <1>4 DEF ReplaceDesiredState, IInv, PlanesInv, StoreInv
<1> HIDE DEF y
<1>8. planes'[p] = y /\ \A x \in Planes : x # p => planes'[x] = planes[x]
  BY <1>7
<1>9. st # "absent" /\ (p \in Registered => st = planes[p].state) /\ (p \notin Registered => st = "stopped")
  BY <1>4 DEF Exists, Registered
<1>10. Registered' = Registered \cup {p}
  BY <1>6, <1>8, <1>9 DEF Registered, Exists
<1>11. op'[t].step = "idle"
  BY <1>0, <1>1, DoneOf
<1>12. PlacementInv'
  <2>1. \A x \in Registered' : planes'[x].generation > 0
    BY <1>0, <1>5, <1>6, <1>8, <1>10 DEF PlacementInv, Registered
  <2>2. ASSUME NEW u \in Threads PROVE OpPlaced(op[u])'
    <3>1. u = t
      BY DEF OneThread
    <3> QED BY <1>11, <3>1 DEF OpPlaced, PlaneSteps
  <2>3. ASSUME NEW n \in Nodes PROVE RowsWithin(assignments[n], PlacedOn(n))'
    <3>1. PICK S, S2 : S = PlacedOn(n) /\ S2 = PlacedOn(n)'
      OBVIOUS
    <3>2. S \ {p} \subseteq S2
      BY <1>8, <1>10, <3>1 DEF PlacedOn, Registered
    <3>3. p \in S => p \in S2
      BY <1>3, <1>6, <1>8, <1>10, <3>1 DEF PlacedOn
    <3>4. RowsWithin(assignments[n], S) /\ S \subseteq S2
      BY <1>0, <3>1, <3>2, <3>3 DEF PlacementInv
    <3>5. assignments' = assignments
      BY <1>1 DEF NodesStay
    <3> QED BY <3>1, <3>4, <3>5 DEF RowsWithin
  <2> QED BY <2>1, <2>2, <2>3 DEF PlacementInv
<1>13. \A x \in Planes : Leaves(x)' => Leaves(x)
  BY <1>10, <1>11, OneCommand
<1>14. ASSUME NEW x \in Planes, Cleaned(x)' PROVE Cleaned(x)
  <2>1. planes'[x].state = "deleting"
    BY <1>14 DEF Cleaned
  <2>2. planes[x].state = "deleting"
    BY <1>6, <1>8, <1>9, <2>1
  <2>3. op[t].step \notin BetweenSteps
    BY <1>1 DEF BetweenSteps
  <2> QED BY <2>2, <2>3, OneCommand
<1>15. \A n \in Nodes : NodeMoves(n) /\ StillStands(n)
  BY <1>0, <1>1, NodesRest
<1> QED BY <1>0, <1>12, <1>13, <1>14, <1>15, DeletionStep

\* Every step keeps what a deletion relies on when commands take turns.
LEMMA NextGone ==
  ASSUME InTurn
  PROVE  PlanesGoneInv /\ [Next]_vars => PlacementInv' /\ DeletionInv'
<1> SUFFICES ASSUME PlanesGoneInv, [Next]_vars PROVE PlacementInv' /\ DeletionInv'
  OBVIOUS
<1>0. OneThread /\ ~LoseObservations /\ "retry" \notin Commands
  BY DEF InTurn
<1>1. ASSUME NEW t \in Threads, Command(t) PROVE PlacementInv' /\ DeletionInv'
  BY <1>0, <1>1, LoadGone, ApplyDesiredGone, AvailabilityGone, SetsStateGone,
     SupersedesGone, CommandReconcilesGone, EnqueuesGone, FinalizeGone, ReplaceGone,
     DrainResyncGone DEF Command
<1>2. ASSUME NEW n \in Nodes, Hostd(n) PROVE PlacementInv' /\ DeletionInv'
  BY <1>0, <1>2, HostdGone
<1>3. ASSUME NEW n \in Nodes, NEW i \in DOMAIN assignments[n], RetryHostAssignment(n, i)
      PROVE  PlacementInv' /\ DeletionInv'
  BY <1>0, <1>3 DEF RetryHostAssignment
<1>4. ASSUME NEW p \in Planes, RaiseAppliedGeneration(p) \/ ReconcileTick(p)
      PROVE  PlacementInv' /\ DeletionInv'
  BY <1>4, TickGone
<1>5. CASE UNCHANGED vars
  <2>1. SamePlanes /\ NodesStay /\ op' = op
    BY <1>5 DEF vars, SamePlanes, NodesStay
  <2>2. PlacementInv /\ DeletionInv
    BY DEF PlanesGoneInv
  <2>3. \A n \in Nodes : NodeMoves(n) /\ StillStands(n) /\ KeptOn(n, PlacedOn(n))
    BY <2>1, <2>2, NodesRest
  <2>4. \A t \in Threads : OpPlaced(op'[t])
    BY <2>1, <2>2 DEF PlacementInv
  <2>5. PlacementInv'
    BY <2>1, <2>2, <2>3, <2>4, PlacementStep
  <2> QED BY <2>1, <2>2, <2>3, <2>5, CommandsRest, DeletionStep
<1> QED BY <1>1, <1>2, <1>3, <1>4, <1>5 DEF Next

\* In the beginning there is nothing on the nodes.
LEMMA InitGone == Init => PlacementInv /\ DeletionInv
<1> SUFFICES ASSUME Init PROVE PlacementInv /\ DeletionInv
  OBVIOUS
<1>1. /\ \A p \in Planes : planes[p] = Absent
      /\ \A n \in Nodes : assignments[n] = << >> /\ hostd[n] = HostdIdle
      /\ \A n \in Nodes : \A p \in Planes : local[n][p] = Nothing
      /\ \A n \in Nodes :
           observed[n].status = "none" /\ \A p \in Planes : observed[n].content[p] = "none"
      /\ \A t \in Threads : op[t] = NoOperation
  BY DEF Init
<1>2. Registered = {}
  BY <1>1 DEF Registered, Exists, Absent
<1>3. \A n \in Nodes : DOMAIN assignments[n] = {}
  BY <1>1
<1>4. \A n \in Nodes : hostd[n].step = "idle"
  BY <1>1 DEF HostdIdle
<1>5. \A n \in Nodes, p \in Planes : local[n][p].content = "none"
  <2>1. Nothing.content = "none"
    BY DEF Nothing
  <2> QED BY <1>1, <2>1
<1>6. PlacementInv
  BY <1>1, <1>2, <1>3 DEF PlacementInv, OpPlaced, NoOperation, PlaneSteps, RowsWithin
<1>7. ASSUME NEW n \in Nodes, NEW p \in Planes
      PROVE  ~Brings(assignments[n], hostd[n], p)
  BY <1>4 DEF Brings
<1>8. ASSUME NEW n \in Nodes
      PROVE  NodeDeletion(assignments[n], observed[n], local[n], hostd[n])
  <2>1. DeletedTogether(assignments[n], hostd[n])
    BY <1>3, <1>4, <1>7 DEF DeletedTogether
  <2>2. ASSUME NEW p \in Planes
        PROVE  ObservesPlane(assignments[n], observed[n], local[n], hostd[n], p)
    BY <1>1, <1>4, <1>5, <1>7 DEF ObservesPlane
  <2> QED BY <2>1, <2>2 DEF NodeDeletion
<1>9. ASSUME NEW n \in Nodes, NEW p \in Planes
      PROVE  Gone(assignments[n], observed[n], local[n], hostd[n], p)
  BY <1>1, <1>3, <1>5, <1>7 DEF Gone
<1>10. \A n \in Nodes, p \in Planes : Standing(assignments[n], p)
  BY <1>3 DEF Standing, Latest
<1> QED BY <1>6, <1>8, <1>9, <1>10 DEF DeletionInv

\* A plane that has left the registry has left the nodes, and nothing is under
\* way that would bring it back: what CanFinalizeDeletedPlane reads off the rows
\* and the observations before ControllerStore::DeletePlane is enough when
\* commands run one after another, a report of hostd reaches the controller
\* before hostd goes on, no operator retries a failed row, and a plane stays on
\* the nodes it was created on.  Each hypothesis is needed: TLC finds a plane left
\* on a node when a second thread acts on a copy it loaded before, a report is
\* lost, a row is retried, or a new desired state moves the plane off a node
\* where hostd has claimed the old row.
THEOREM DeletedPlanesAreGone ==
  ASSUME InTurn
  PROVE  Spec => []DeletedPlaneIsGone
<1>1. Init => PlacementInv /\ DeletionInv
  BY InitGone
<1>2. IInv /\ RegistryInv /\ PlacementInv /\ DeletionInv /\ [Next]_vars
        => PlacementInv' /\ DeletionInv'
  BY NextGone DEF PlanesGoneInv
<1>3. DeletionInv => DeletedPlaneIsGone
  BY DEF DeletionInv, DeletedPlaneIsGone, Leaves, Registered, Gone
<1>4. OneThread
  BY DEF InTurn
<1>5. Spec => []IInv
  BY Invariance
<1>6. Spec => []RegistryInv
  BY <1>4, RegistryHolds
<1> QED BY <1>1, <1>2, <1>3, <1>5, <1>6, PTL DEF Spec
=============================================================================
