---------------------- MODULE AssignmentDeliveryProofs ----------------------
(***************************************************************************)
(* Proofs about AssignmentDelivery: type correctness, the safety           *)
(* properties of the delivery of assignments, and that it implements       *)
(* AssignmentLedger, for any number of nodes, processes, planes and rows.  *)
(***************************************************************************)
EXTENDS AssignmentDelivery, SequenceTheorems, TLAPS

\* What holds of each row on its own.
RowInv(r) ==
  /\ r.attempts <= r.max
  /\ r.max >= MaxAttempts
  /\ r.status = "failed" /\ r.type \in LifecycleTypes => r.attempts >= r.max
  /\ r.type \in ProxyTypes <=> r.plane \in Requests

\* The row has been claimed for its last attempt and can be claimed again only
\* after an operator's retry, for one attempt more.
LastAttempt(r) ==
  /\ r.attempts + 1 >= r.max
  /\ r.status = "claimed" => r.attempts >= r.max

\* What holds of the rows of a node; c is the set of rows that were completed.
TableInv(q, c) ==
  /\ \A i \in DOMAIN q : RowInv(q[i])
  /\ \A i \in DOMAIN q : q[i].status = "applied" => i \in c
  /\ \A i, j \in DOMAIN q :
       i < j /\ q[i].plane = q[j].plane /\ q[i].status \in Active
         => q[i].max > MaxAttempts
  /\ \A i, j \in DOMAIN q :
       q[i].plane = q[j].plane /\ q[i].plane \in Requests => i = j

\* A final row stays as it is until it is deleted.
StaysFinal(r, r2) ==
  r.status \in {"applied", "superseded", "deleted"}
    => r2 = r \/ r2.status = "deleted"

\* No operation on the table forgets a row, revives a final one or gives a row
\* on its last attempt more than one attempt.
Keeps(q, q2) ==
  \A i \in DOMAIN q :
    /\ i \in DOMAIN q2
    /\ LastAttempt(q[i]) => LastAttempt(q2[i])
    /\ StaysFinal(q[i], q2[i])

\* A process that is not idle holds the lock and works from a copy of a row.
\* q: the rows of its node, k: the holder of the lock, pr: the processes.
ProcInv(q, k, pr) ==
  \A s \in Slots :
    /\ pr[s].phase # "idle" <=> k = s
    /\ pr[s].phase \in {"executing", "reporting"} =>
         /\ pr[s].id \in DOMAIN q
         /\ pr[s].attempts >= pr[s].max => LastAttempt(q[pr[s].id])
    /\ pr[s].phase = "reporting" => pr[s].sent \in Reports

\* A request whose sender waits is the one request that sender waits for.
Awaited(pr, m) ==
  LET c == pr[m.slot] IN
  \/ c.phase = "polling" /\ m = Poll(m.slot)
  \/ c.phase = "reporting" /\ m = Report(c.sent, m.slot, c)

MsgInv(q, pr, c, m) ==
  /\ m.slot # NoSlot => Awaited(pr, m)
  /\ m.kind \in Reports => m.id \in DOMAIN q
  /\ m.kind = "applied" => m.id \in c
  /\ m.kind = "failed" => LastAttempt(q[m.id])

\* What holds of one node: its rows, lock, processes, requests and history.
NodeInv(q, k, pr, fl, c) ==
  /\ q \in Seq(Row)
  /\ k \in Slots \cup {NoSlot}
  /\ pr \in [Slots -> Process]
  /\ fl \in SUBSET Message
  /\ c \in SUBSET Nat
  /\ TableInv(q, c)
  /\ ProcInv(q, k, pr)
  /\ \A m \in fl : MsgInv(q, pr, c, m)

\* The inductive invariant.
IInv ==
  /\ TypeOK
  /\ \A n \in Nodes :
       NodeInv(assignments[n], lock[n], proc[n], inflight[n], completed[n])

-----------------------------------------------------------------------------
(* The operations on the table, row by row.                                *)

\* What one operation may do to one row.
RowStep(r, r2) ==
  /\ r2 \in Row
  /\ r2.plane = r.plane
  /\ r2.max >= r.max
  /\ RowInv(r2)
  /\ r2.status \in Active =>
       r.status \in Active \/ r2.max > MaxAttempts \/ r.plane \in Requests
  /\ LastAttempt(r) => LastAttempt(r2)
  /\ StaysFinal(r, r2)

\* A row that no operation touches satisfies RowStep.
LEMMA RowStays ==
  ASSUME NEW r \in Row, RowInv(r)
  PROVE  RowStep(r, r)
BY DEF RowStep, Row, StaysFinal

\* Writing a row with a status other than failed.
LEMMA WriteStep ==
  ASSUME NEW r \in Row, RowInv(r), r.status \in Active,
         NEW st \in Statuses, NEW tag \in BOOLEAN,
         st = "claimed" => r.status = "claimed",
         st = "failed" => r.type \in ProxyTypes \/ r.attempts >= r.max
  PROVE  RowStep(r, Write(r, st, tag))
<1> DEFINE w == Write(r, st, tag)
<1>1. /\ w \in Row
      /\ w.plane = r.plane /\ w.type = r.type /\ w.status = st
      /\ w.max = r.max /\ w.attempts = r.attempts
  BY DEF Write, Row
<1>2. r.type \in LifecycleTypes => r.type \notin ProxyTypes
  BY DEF LifecycleTypes, ProxyTypes
<1>3. r.max \in Nat /\ r.attempts \in Nat
  BY DEF Row
<1> HIDE DEF w
<1>4. RowInv(w)
  BY <1>1, <1>2, <1>3 DEF RowInv
<1>5. LastAttempt(r) => LastAttempt(w)
  BY <1>1, <1>3 DEF LastAttempt
<1>6. RowStep(r, w)
  BY <1>1, <1>3, <1>4, <1>5 DEF RowStep, Active, StaysFinal
<1> QED BY <1>6 DEF w

\* A row goes with its plane, whatever its status.
LEMMA DeleteStep ==
  ASSUME NEW r \in Row, RowInv(r)
  PROVE  RowStep(r, Write(r, "deleted", FALSE))
<1> DEFINE w == Write(r, "deleted", FALSE)
<1>1. /\ w \in Row
      /\ w.plane = r.plane /\ w.type = r.type /\ w.status = "deleted"
      /\ w.max = r.max /\ w.attempts = r.attempts
  BY DEF Write, Row, Statuses
<1>2. r.max \in Nat /\ r.attempts \in Nat
  BY DEF Row
<1> HIDE DEF w
<1>3. RowInv(w) /\ (LastAttempt(r) => LastAttempt(w))
  BY <1>1, <1>2 DEF RowInv, LastAttempt
<1>4. RowStep(r, w)
  BY <1>1, <1>2, <1>3 DEF RowStep, Active, StaysFinal
<1> QED BY <1>4 DEF w

\* Claiming a row that has attempts left.
LEMMA ClaimStep ==
  ASSUME NEW r \in Row, RowInv(r), r.status = "pending", r.attempts < r.max
  PROVE  RowStep(r, [Write(r, "claimed", FALSE) EXCEPT !.attempts = r.attempts + 1])
<1> DEFINE v == Write(r, "claimed", FALSE)
           w == [v EXCEPT !.attempts = r.attempts + 1]
<1>0. /\ v \in Row
      /\ v.plane = r.plane /\ v.type = r.type /\ v.status = "claimed"
      /\ v.max = r.max
  BY DEF Write, Row, Statuses
<1> HIDE DEF v
<1>1. /\ w \in Row
      /\ w.plane = r.plane /\ w.type = r.type /\ w.status = "claimed"
      /\ w.max = r.max /\ w.attempts = r.attempts + 1
  BY <1>0 DEF Row
<1>2. r.max \in Nat /\ r.attempts \in Nat
  BY DEF Row
<1> HIDE DEF w
<1>3. RowInv(w)
  BY <1>1, <1>2 DEF RowInv
<1>4. LastAttempt(r) => LastAttempt(w)
  BY <1>1, <1>2 DEF LastAttempt
<1>5. RowStep(r, w)
  BY <1>1, <1>2, <1>3, <1>4 DEF RowStep, Active, StaysFinal
<1> QED BY <1>5 DEF v, w

\* An operator's retry of a failed row.
LEMMA RetryStep ==
  ASSUME NEW r \in Row, RowInv(r), r.status = "failed"
  PROVE  RowStep(r, [Write(r, "pending", FALSE) EXCEPT
                       !.max = IF r.max < r.attempts + 1
                               THEN r.attempts + 1 ELSE r.max])
<1> DEFINE m == IF r.max < r.attempts + 1 THEN r.attempts + 1 ELSE r.max
           v == Write(r, "pending", FALSE)
           w == [v EXCEPT !.max = m]
<1>1. r.max \in Nat /\ r.attempts \in Nat /\ r.type \in Types
  BY DEF Row
<1>m. m \in Nat /\ m >= r.max /\ m >= r.attempts + 1
  BY <1>1
<1>0. /\ v \in Row
      /\ v.plane = r.plane /\ v.type = r.type /\ v.status = "pending"
      /\ v.attempts = r.attempts
  BY DEF Write, Row, Statuses
<1> HIDE DEF m, v
<1>2. /\ w \in Row
      /\ w.plane = r.plane /\ w.type = r.type /\ w.status = "pending"
      /\ w.max = m
      /\ w.attempts = r.attempts
  BY <1>m, <1>0 DEF Row
<1> HIDE DEF w
<1>3. RowInv(w)
  BY <1>1, <1>2, <1>m, MaxAttemptsAssumption DEF RowInv
<1>4. LastAttempt(r) => LastAttempt(w)
  BY <1>1, <1>2, <1>m DEF LastAttempt, m
<1>5. w.max > MaxAttempts \/ r.plane \in Requests
  BY <1>1, <1>2, <1>m, MaxAttemptsAssumption DEF RowInv, Types
<1>6. RowStep(r, w)
  BY <1>1, <1>2, <1>m, <1>3, <1>4, <1>5 DEF RowStep, Active, StaysFinal
<1> QED BY <1>6 DEF m, v, w

\* Renewing or ageing a row: only stale changes, and not of a final row.
LEMMA StaleStep ==
  ASSUME NEW r \in Row, RowInv(r), r.status \in Active, NEW b \in BOOLEAN
  PROVE  RowStep(r, [r EXCEPT !.stale = b])
<1> DEFINE w == [r EXCEPT !.stale = b]
<1>1. /\ w \in Row
      /\ w.plane = r.plane /\ w.type = r.type /\ w.status = r.status
      /\ w.max = r.max /\ w.attempts = r.attempts
  BY DEF Row
<1>2. r.max \in Nat /\ r.attempts \in Nat
  BY DEF Row
<1> HIDE DEF w
<1>3. RowInv(w) /\ (LastAttempt(r) => LastAttempt(w))
  BY <1>1, <1>2 DEF RowInv, LastAttempt
<1>4. RowStep(r, w)
  BY <1>1, <1>2, <1>3 DEF RowStep, Active, StaysFinal
<1> QED BY <1>4 DEF w

\* A new row.
LEMMA InsertRow ==
  ASSUME NEW p \in Planes \cup Requests, NEW g \in 0..MaxGeneration,
         NEW t \in Types, t \in ProxyTypes <=> p \in Requests
  PROVE  LET r == InsertAssignment(p, g, t) IN
         r \in Row /\ RowInv(r) /\ r.plane = p /\ r.status = "pending"
BY MaxAttemptsAssumption DEF InsertAssignment, Row, RowInv, Statuses

-----------------------------------------------------------------------------
(* The operations on the table of a node.                                  *)

\* An operation that takes every row one RowStep further keeps the invariant.
LEMMA RowWise ==
  ASSUME NEW q \in Seq(Row), NEW c, TableInv(q, c), NEW c2, c \subseteq c2,
         NEW q2 \in [DOMAIN q -> Row],
         \A i \in DOMAIN q :
           /\ RowStep(q[i], q2[i])
           /\ q2[i].status = "applied" => q[i].status = "applied" \/ i \in c2
  PROVE  q2 \in Seq(Row) /\ Len(q2) = Len(q) /\ TableInv(q2, c2) /\ Keeps(q, q2)
<1>1. q2 \in Seq(Row) /\ DOMAIN q2 = DOMAIN q /\ Len(q2) = Len(q)
  <2>1. Len(q) \in Nat /\ DOMAIN q = 1..Len(q)
    BY LenProperties
  <2>2. q2 \in Seq(Row)
    BY <2>1, SeqDef
  <2> QED BY <2>1, <2>2, LenProperties
<1>2. \A i \in DOMAIN q : q[i] \in Row /\ q2[i] \in Row
  BY LenProperties, ElementOfSeq
<1>3. \A i \in DOMAIN q2 : RowInv(q2[i])
  BY <1>1 DEF RowStep
<1>4. \A i \in DOMAIN q2 : q2[i].status = "applied" => i \in c2
  BY <1>1 DEF TableInv
<1>5. ASSUME NEW i \in DOMAIN q2, NEW j \in DOMAIN q2,
             i < j, q2[i].plane = q2[j].plane, q2[i].status \in Active
      PROVE  q2[i].max > MaxAttempts
  <2>1. /\ q[i].plane = q2[i].plane /\ q[j].plane = q2[j].plane
        /\ q2[i].max >= q[i].max
        /\ \/ q[i].status \in Active
           \/ q2[i].max > MaxAttempts
           \/ q[i].plane \in Requests
    BY <1>1, <1>5 DEF RowStep
  <2>2. q[i].max \in Nat /\ q2[i].max \in Nat
    BY <1>1, <1>2 DEF Row
  <2>3. i \in Nat /\ j \in Nat
    BY <1>1, LenProperties
  <2>4. q[i].status \in Active => q[i].max > MaxAttempts
    BY <1>1, <1>5, <2>1 DEF TableInv
  <2>5. q[i].plane \notin Requests
    BY <1>1, <1>5, <2>1, <2>3 DEF TableInv
  <2> QED BY <2>1, <2>2, <2>4, <2>5, MaxAttemptsAssumption
<1>6. \A i, j \in DOMAIN q2 :
        q2[i].plane = q2[j].plane /\ q2[i].plane \in Requests => i = j
  BY <1>1 DEF RowStep, TableInv
<1>7. TableInv(q2, c2)
  BY <1>3, <1>4, <1>5, <1>6 DEF TableInv
<1>8. Keeps(q, q2)
  BY <1>1 DEF Keeps, RowStep
<1> QED BY <1>1, <1>7, <1>8

\* What an operation on the table of a node guarantees.
TableStep(q, q2, c) ==
  q2 \in Seq(Row) /\ TableInv(q2, c) /\ Keeps(q, q2)

\* The rows of a table are rows, and their positions are numbers.
LEMMA RowsOf ==
  ASSUME NEW q \in Seq(Row)
  PROVE  /\ DOMAIN q = 1..Len(q) /\ Len(q) \in Nat
         /\ \A i \in DOMAIN q : q[i] \in Row
BY LenProperties, ElementOfSeq

\* A table that does not change keeps what it must.
LEMMA KeepsReflexive ==
  ASSUME NEW q
  PROVE  Keeps(q, q)
BY DEF Keeps, StaysFinal

\* Two operations in a row keep what each of them keeps.
LEMMA KeepsTransitive ==
  ASSUME NEW q, NEW q2, NEW q3, Keeps(q, q2), Keeps(q2, q3)
  PROVE  Keeps(q, q3)
BY DEF Keeps, StaysFinal

\* Superseding a plane leaves no live row of that plane.
LEMMA SupersedeTable ==
  ASSUME NEW q \in Seq(Row), NEW c, TableInv(q, c), NEW p
  PROVE  /\ TableStep(q, SupersedePlane(q, p), c)
         /\ Len(SupersedePlane(q, p)) = Len(q)
         /\ \A i \in DOMAIN q : SupersedePlane(q, p)[i].plane = q[i].plane
         /\ \A i \in DOMAIN q :
              SupersedePlane(q, p)[i].plane = p
                => SupersedePlane(q, p)[i].status \notin Active
<1> DEFINE q2 == SupersedePlane(q, p)
<1>1. ASSUME NEW i \in DOMAIN q
      PROVE  /\ q2[i] \in Row
             /\ RowStep(q[i], q2[i])
             /\ q2[i].status = "applied" => q[i].status = "applied"
             /\ q2[i].plane = p => q2[i].status \notin Active
  <2>1. q[i] \in Row /\ RowInv(q[i])
    BY RowsOf DEF TableInv
  <2>2. CASE q[i].plane = p /\ q[i].status \in Active
    <3>1. q2[i] = Write(q[i], "superseded", FALSE)
      BY <2>2 DEF SupersedePlane
    <3>2. RowStep(q[i], q2[i])
      BY <2>1, <2>2, <3>1, WriteStep DEF Statuses
    <3>3. q2[i].status = "superseded"
      BY <2>1, <3>1 DEF Write, Row
    <3> QED BY <3>2, <3>3 DEF RowStep, Active, StaysFinal
  <2>3. CASE ~(q[i].plane = p /\ q[i].status \in Active)
    <3>1. q2[i] = q[i]
      BY <2>3 DEF SupersedePlane
    <3> QED BY <2>1, <2>3, <3>1, RowStays
  <2> QED BY <2>2, <2>3
<1>2. q2 \in [DOMAIN q -> Row]
  BY <1>1 DEF SupersedePlane
<1> HIDE DEF q2
<1>3. q2 \in Seq(Row) /\ Len(q2) = Len(q) /\ TableInv(q2, c) /\ Keeps(q, q2)
  BY <1>1, <1>2, RowWise
<1>4. \A i \in DOMAIN q : q2[i].plane = q[i].plane
  BY <1>1 DEF RowStep
<1> QED BY <1>1, <1>3, <1>4 DEF q2, TableStep

\* Deleting the rows of a plane.
LEMMA DeleteTable ==
  ASSUME NEW q \in Seq(Row), NEW c, TableInv(q, c), NEW p
  PROVE  TableStep(q, DeletePlaneRows(q, p), c)
<1> DEFINE q2 == DeletePlaneRows(q, p)
<1>1. ASSUME NEW i \in DOMAIN q
      PROVE  /\ q2[i] \in Row
             /\ RowStep(q[i], q2[i])
             /\ q2[i].status = "applied" => q[i].status = "applied"
  <2>1. q[i] \in Row /\ RowInv(q[i])
    BY RowsOf DEF TableInv
  <2>2. CASE q[i].plane = p
    <3>1. q2[i] = Write(q[i], "deleted", FALSE)
      BY <2>2 DEF DeletePlaneRows
    <3>2. RowStep(q[i], q2[i])
      BY <2>1, <3>1, DeleteStep
    <3>3. q2[i].status = "deleted"
      BY <2>1, <3>1 DEF Write, Row
    <3> QED BY <3>2, <3>3 DEF RowStep
  <2>3. CASE q[i].plane # p
    BY <2>1, <2>3, RowStays DEF DeletePlaneRows
  <2> QED BY <2>2, <2>3
<1>2. q2 \in [DOMAIN q -> Row]
  BY <1>1 DEF DeletePlaneRows
<1> HIDE DEF q2
<1>3. q2 \in Seq(Row) /\ TableInv(q2, c) /\ Keeps(q, q2)
  BY <1>1, <1>2, RowWise
<1> QED BY <1>3 DEF q2, TableStep

\* A new row on top of rows none of which is live for the same plane.
LEMMA AppendTable ==
  ASSUME NEW q \in Seq(Row), NEW c \in SUBSET Nat, TableInv(q, c),
         NEW r \in Row, RowInv(r), r.status = "pending",
         \A i \in DOMAIN q : q[i].plane = r.plane => q[i].status \notin Active,
         r.plane \in Requests => \A i \in DOMAIN q : q[i].plane # r.plane
  PROVE  TableStep(q, Append(q, r), c)
<1> DEFINE q2 == Append(q, r)
<1>1. /\ q2 \in Seq(Row)
      /\ DOMAIN q = 1..Len(q) /\ Len(q) \in Nat
      /\ DOMAIN q2 = 1..(Len(q) + 1)
      /\ \A i \in DOMAIN q : i \in DOMAIN q2 /\ q2[i] = q[i]
      /\ q2[Len(q) + 1] = r
  BY RowsOf
<1>2. \A i \in DOMAIN q2 : i \in DOMAIN q \/ i = Len(q) + 1
  BY <1>1
<1> HIDE DEF q2
<1>3. \A i \in DOMAIN q2 : RowInv(q2[i])
  BY <1>1, <1>2 DEF TableInv
<1>4. \A i \in DOMAIN q2 : q2[i].status = "applied" => i \in c
  BY <1>1, <1>2 DEF TableInv
<1>5. ASSUME NEW i \in DOMAIN q2, NEW j \in DOMAIN q2,
             i < j, q2[i].plane = q2[j].plane, q2[i].status \in Active
      PROVE  q2[i].max > MaxAttempts
  <2>1. i \in DOMAIN q
    BY <1>1, <1>2, <1>5
  <2>2. CASE j \in DOMAIN q
    BY <1>1, <1>5, <2>1, <2>2 DEF TableInv
  <2>3. CASE j = Len(q) + 1
    BY <1>1, <1>5, <2>1, <2>3
  <2> QED BY <1>2, <2>2, <2>3
<1>6. \A i, j \in DOMAIN q2 :
        q2[i].plane = q2[j].plane /\ q2[i].plane \in Requests => i = j
  BY <1>1, <1>2 DEF TableInv
<1>7. TableInv(q2, c)
  BY <1>3, <1>4, <1>5, <1>6 DEF TableInv
<1>8. Keeps(q, q2)
  BY <1>1 DEF Keeps, StaysFinal
<1> QED BY <1>1, <1>7, <1>8 DEF q2, TableStep

\* One assignment of EnqueueHostAssignments or ReplaceHostAssignments.
LEMMA EnqueueTable ==
  ASSUME NEW q \in Seq(Row), NEW c \in SUBSET Nat, TableInv(q, c),
         NEW p \in Planes \cup Requests, NEW g \in 0..MaxGeneration,
         NEW t \in Types, t \in ProxyTypes <=> p \in Requests,
         p \in Requests => \A i \in DOMAIN q : q[i].plane # p
  PROVE  TableStep(q, Append(SupersedePlane(q, p), InsertAssignment(p, g, t)), c)
<1> DEFINE q2 == SupersedePlane(q, p)
           r == InsertAssignment(p, g, t)
<1>1. /\ q2 \in Seq(Row) /\ TableInv(q2, c) /\ Keeps(q, q2)
      /\ DOMAIN q2 = DOMAIN q
      /\ \A i \in DOMAIN q : q2[i].plane = q[i].plane
      /\ \A i \in DOMAIN q : q2[i].plane = p => q2[i].status \notin Active
  BY SupersedeTable, RowsOf DEF TableStep
<1>2. r \in Row /\ RowInv(r) /\ r.plane = p /\ r.status = "pending"
  BY InsertRow
<1> HIDE DEF q2, r
<1>3. TableStep(q2, Append(q2, r), c)
  BY <1>1, <1>2, AppendTable
<1> QED BY <1>1, <1>3, KeepsTransitive DEF TableStep, q2, r

\* Running out leases and proxy rows, as every poll does.
LEMMA ExpireTable ==
  ASSUME NEW q \in Seq(Row), NEW c, TableInv(q, c)
  PROVE  TableStep(q, Expire(q), c) /\ DOMAIN Expire(q) = DOMAIN q
<1> DEFINE l == ExpireLeases(q)
           e == ExpireProxies(l)
<1>1. ASSUME NEW i \in DOMAIN q
      PROVE  /\ l[i] \in Row
             /\ RowStep(q[i], l[i])
             /\ l[i].status = "applied" => q[i].status = "applied"
  <2>1. q[i] \in Row /\ RowInv(q[i])
    BY RowsOf DEF TableInv
  <2>2. CASE q[i].status = "claimed" /\ q[i].stale
    <3> DEFINE st == IF q[i].attempts >= q[i].max THEN "failed" ELSE "pending"
    <3>1. l[i] = Write(q[i], st, FALSE)
      BY <2>2 DEF ExpireLeases
    <3>2. RowStep(q[i], l[i])
      BY <2>1, <2>2, <3>1, WriteStep DEF Statuses, Active
    <3>3. l[i].status = st
      BY <2>1, <3>1 DEF Write, Row
    <3> QED BY <3>2, <3>3 DEF RowStep
  <2>3. CASE ~(q[i].status = "claimed" /\ q[i].stale)
    BY <2>1, <2>3, RowStays DEF ExpireLeases
  <2> QED BY <2>2, <2>3
<1>2. l \in [DOMAIN q -> Row]
  BY <1>1 DEF ExpireLeases
<1> HIDE DEF l
<1>3. l \in Seq(Row) /\ Len(l) = Len(q) /\ TableInv(l, c) /\ Keeps(q, l)
  BY <1>1, <1>2, RowWise
<1>4. ASSUME NEW i \in DOMAIN l
      PROVE  /\ e[i] \in Row
             /\ RowStep(l[i], e[i])
             /\ e[i].status = "applied" => l[i].status = "applied"
  <2>1. l[i] \in Row /\ RowInv(l[i])
    BY <1>3, RowsOf DEF TableInv
  <2>2. CASE l[i].status = "pending" /\ l[i].type \in ProxyTypes /\ l[i].stale
    <3>1. e[i] = Write(l[i], "failed", FALSE)
      BY <2>2 DEF ExpireProxies
    <3>2. RowStep(l[i], e[i])
      BY <2>1, <2>2, <3>1, WriteStep DEF Statuses, Active
    <3>3. e[i].status = "failed"
      BY <2>1, <3>1 DEF Write, Row
    <3> QED BY <3>2, <3>3 DEF RowStep
  <2>3. CASE ~(l[i].status = "pending" /\ l[i].type \in ProxyTypes /\ l[i].stale)
    BY <2>1, <2>3, RowStays DEF ExpireProxies
  <2> QED BY <2>2, <2>3
<1>5. e \in [DOMAIN l -> Row]
  BY <1>4 DEF ExpireProxies
<1> HIDE DEF e
<1>6. e \in Seq(Row) /\ Len(e) = Len(l) /\ TableInv(e, c) /\ Keeps(l, e)
  BY <1>3, <1>4, <1>5, RowWise
<1>7. DOMAIN e = DOMAIN q
  BY <1>2, <1>5
<1> QED BY <1>3, <1>6, <1>7, KeepsTransitive DEF TableStep, Expire, e, l

\* An operation on one row.
LEMMA OneRow ==
  ASSUME NEW q \in Seq(Row), NEW c, TableInv(q, c), NEW i \in DOMAIN q,
         NEW r, RowStep(q[i], r),
         r.status = "applied" => q[i].status = "applied" \/ i \in c
  PROVE  TableStep(q, [q EXCEPT ![i] = r], c)
<1> DEFINE q2 == [q EXCEPT ![i] = r]
<1>1. \A j \in DOMAIN q : q[j] \in Row /\ RowStep(q[j], q[j])
  BY RowsOf, RowStays DEF TableInv
<1>2. q2 \in [DOMAIN q -> Row]
  <2>1. q \in [DOMAIN q -> Row]
    BY LenProperties
  <2> QED BY <2>1 DEF RowStep
<1>3. \A j \in DOMAIN q :
        /\ RowStep(q[j], q2[j])
        /\ q2[j].status = "applied" => q[j].status = "applied" \/ j \in c
  BY <1>1
<1> HIDE DEF q2
<1>4. q2 \in Seq(Row) /\ TableInv(q2, c) /\ Keeps(q, q2)
  BY <1>2, <1>3, RowWise
<1> QED BY <1>4 DEF q2, TableStep

\* An operation whose WHERE clause matches no row.
LEMMA NoRow ==
  ASSUME NEW q \in Seq(Row), NEW c, TableInv(q, c)
  PROVE  TableStep(q, q, c)
BY KeepsReflexive DEF TableStep

\* Claiming a row that has attempts left.
LEMMA ClaimTable ==
  ASSUME NEW q \in Seq(Row), NEW c, TableInv(q, c), NEW i \in Claimable(q)
  PROVE  /\ TableStep(q, ClaimRow(q, i), c)
         /\ q[i].attempts + 1 >= q[i].max => LastAttempt(ClaimRow(q, i)[i])
<1> DEFINE r == [Write(q[i], "claimed", FALSE) EXCEPT !.attempts = q[i].attempts + 1]
<1>1. /\ i \in DOMAIN q /\ q[i] \in Row /\ RowInv(q[i])
      /\ q[i].status = "pending" /\ q[i].attempts < q[i].max
  BY RowsOf DEF TableInv, Claimable
<1>2. RowStep(q[i], r)
  BY <1>1, ClaimStep
<1>3. r.status = "claimed"
  BY <1>1 DEF Write, Row
<1>4. r.attempts = q[i].attempts + 1 /\ r.max = q[i].max
  <2>1. Write(q[i], "claimed", FALSE) \in Row /\ Write(q[i], "claimed", FALSE).max = q[i].max
    BY <1>1 DEF Write, Row, Statuses
  <2> QED BY <2>1 DEF Row
<1>5. ClaimRow(q, i) = [q EXCEPT ![i] = r]
  BY DEF ClaimRow
<1>6. ClaimRow(q, i)[i] = r
  BY <1>1, <1>5
<1>7. q[i].attempts \in Nat /\ q[i].max \in Nat
  BY <1>1 DEF Row
<1> HIDE DEF r
<1>8. q[i].attempts + 1 >= q[i].max => LastAttempt(r)
  BY <1>3, <1>4, <1>7 DEF LastAttempt
<1>9. TableStep(q, [q EXCEPT ![i] = r], c)
  BY <1>1, <1>2, <1>3, OneRow
<1> QED BY <1>5, <1>6, <1>8, <1>9

\* Progress renews the lease of a claimed row and nothing else.
LEMMA ProgressTable ==
  ASSUME NEW q \in Seq(Row), NEW c, TableInv(q, c), NEW i \in DOMAIN q
  PROVE  TableStep(q, UpdateHostAssignmentProgress(q, i), c)
<1>1. q[i] \in Row /\ RowInv(q[i])
  BY RowsOf DEF TableInv
<1>2. CASE q[i].status = "claimed"
  <2> DEFINE r == [q[i] EXCEPT !.stale = FALSE]
  <2>1. RowStep(q[i], r)
    BY <1>1, <1>2, StaleStep DEF Active
  <2>2. r.status = q[i].status
    BY <1>1 DEF Row
  <2>3. UpdateHostAssignmentProgress(q, i) = [q EXCEPT ![i] = r]
    BY <1>2 DEF UpdateHostAssignmentProgress
  <2> HIDE DEF r
  <2>4. TableStep(q, [q EXCEPT ![i] = r], c)
    BY <2>1, <2>2, OneRow, <1>2
  <2> QED BY <2>3, <2>4
<1>3. CASE q[i].status # "claimed"
  BY <1>3, NoRow DEF UpdateHostAssignmentProgress
<1> QED BY <1>2, <1>3

\* A report moves a claimed row only; a failure must be of the last attempt.
LEMMA TransitionTable ==
  ASSUME NEW q \in Seq(Row), NEW c, TableInv(q, c), NEW i \in DOMAIN q,
         NEW st \in {"applied", "pending", "failed", "superseded"}, NEW tag \in BOOLEAN,
         st = "applied" => i \in c, st = "failed" => LastAttempt(q[i])
  PROVE  TableStep(q, TransitionClaimedHostAssignment(q, i, st, tag), c)
<1>1. q[i] \in Row /\ RowInv(q[i])
  BY RowsOf DEF TableInv
<1>2. CASE q[i].status = "claimed"
  <2> DEFINE r == Write(q[i], st, tag)
  <2>1. st = "failed" => q[i].attempts >= q[i].max
    BY <1>2 DEF LastAttempt
  <2>2. RowStep(q[i], r)
    BY <1>1, <1>2, <2>1, WriteStep DEF Active, Statuses
  <2>3. r.status = st
    BY <1>1 DEF Row, Write
  <2>4. TransitionClaimedHostAssignment(q, i, st, tag) = [q EXCEPT ![i] = r]
    BY <1>2 DEF TransitionClaimedHostAssignment
  <2> HIDE DEF r
  <2>5. TableStep(q, [q EXCEPT ![i] = r], c)
    BY <2>2, <2>3, OneRow
  <2> QED BY <2>4, <2>5
<1>3. CASE q[i].status # "claimed"
  BY <1>3, NoRow DEF TransitionClaimedHostAssignment
<1> QED BY <1>2, <1>3

\* An operator's retry.
LEMMA RetryTable ==
  ASSUME NEW q \in Seq(Row), NEW c, TableInv(q, c), NEW i \in DOMAIN q
  PROVE  TableStep(q, RetryFailedHostAssignment(q, i), c)
<1>1. q[i] \in Row /\ RowInv(q[i])
  BY RowsOf DEF TableInv
<1>2. CASE q[i].status = "failed"
  <2> DEFINE m == IF q[i].max < q[i].attempts + 1
                  THEN q[i].attempts + 1 ELSE q[i].max
             r == [Write(q[i], "pending", FALSE) EXCEPT !.max = m]
  <2>1. RowStep(q[i], r)
    BY <1>1, <1>2, RetryStep
  <2>2. r.status = "pending"
    BY <1>1 DEF Row, Write
  <2>3. RetryFailedHostAssignment(q, i) = [q EXCEPT ![i] = r]
    BY <1>2 DEF RetryFailedHostAssignment
  <2> HIDE DEF r
  <2>4. TableStep(q, [q EXCEPT ![i] = r], c)
    BY <2>1, <2>2, OneRow, <1>2
  <2> QED BY <2>3, <2>4
<1>3. CASE q[i].status # "failed"
  BY <1>3, NoRow DEF RetryFailedHostAssignment
<1> QED BY <1>2, <1>3

\* The time limit of a row passes.
LEMMA AgeTable ==
  ASSUME NEW q \in Seq(Row), NEW c, TableInv(q, c), NEW i \in DOMAIN q,
         CanAge(q[i])
  PROVE  TableStep(q, AgeRow(q, i), c)
<1> DEFINE r == [q[i] EXCEPT !.stale = TRUE]
<1>1. q[i] \in Row /\ RowInv(q[i]) /\ q[i].status \in Active
  BY RowsOf DEF TableInv, CanAge, Active
<1>2. RowStep(q[i], r)
  BY <1>1, StaleStep
<1>3. r.status = q[i].status
  BY <1>1 DEF Row
<1>4. AgeRow(q, i) = [q EXCEPT ![i] = r]
  BY DEF AgeRow
<1> HIDE DEF r
<1>5. TableStep(q, [q EXCEPT ![i] = r], c)
  BY <1>1, <1>2, <1>3, OneRow DEF Active
<1> QED BY <1>4, <1>5

-----------------------------------------------------------------------------
(* The steps of one node.                                                  *)

\* An operation on the table leaves processes and requests in good order.
LEMMA TableNode ==
  ASSUME NEW q, NEW k, NEW pr, NEW fl, NEW c, NodeInv(q, k, pr, fl, c),
         NEW q2, TableStep(q, q2, c)
  PROVE  NodeInv(q2, k, pr, fl, c)
<1>1. ProcInv(q2, k, pr)
  BY DEF NodeInv, ProcInv, TableStep, Keeps
<1>2. \A m \in fl : MsgInv(q2, pr, c, m)
  BY DEF NodeInv, MsgInv, TableStep, Keeps, Reports
<1> QED BY <1>1, <1>2 DEF NodeInv, TableStep

\* The sender of an awaited request holds the lock, and no other is awaited.
LEMMA OneAwaited ==
  ASSUME NEW q, NEW k, NEW pr, NEW fl, NEW c, NodeInv(q, k, pr, fl, c),
         NEW m \in fl, m.slot # NoSlot
  PROVE  /\ m.slot \in Slots /\ k = m.slot /\ pr[m.slot].phase # "idle"
         /\ \A m2 \in fl \ {m} : m2.slot = NoSlot
<1>1. ASSUME NEW m2 \in fl, m2.slot # NoSlot
      PROVE  m2.slot \in Slots /\ k = m2.slot /\ Awaited(pr, m2)
  <2>1. m2.slot \in Slots /\ Awaited(pr, m2)
    BY <1>1 DEF NodeInv, Message, MsgInv
  <2>2. pr[m2.slot].phase # "idle"
    BY <2>1 DEF Awaited
  <2> QED BY <2>1, <2>2 DEF NodeInv, ProcInv
<1>2. pr[m.slot].phase # "idle"
  BY <1>1 DEF Awaited
<1>3. ASSUME NEW m2 \in fl, m2.slot # NoSlot
      PROVE  m2 = m
  <2>1. m2.slot = m.slot /\ Awaited(pr, m2) /\ Awaited(pr, m)
    BY <1>1, <1>3
  <2> QED BY <2>1 DEF Awaited
<1> QED BY <1>1, <1>2, <1>3

\* A request nobody waits for does not depend on the processes.
LEMMA OrphanInv ==
  ASSUME NEW q, NEW pr, NEW c, NEW m, MsgInv(q, pr, c, m), m.slot = NoSlot, NEW pr2
  PROVE  MsgInv(q, pr2, c, m)
BY DEF MsgInv

\* The process that holds the lock exits.
LEMMA ExitNode ==
  ASSUME NEW q, NEW k, NEW pr, NEW fl, NEW c, NodeInv(q, k, pr, fl, c),
         NEW s \in Slots, k = s,
         NEW fl2 \in SUBSET Message,
         \A m \in fl2 : m.slot = NoSlot /\ MsgInv(q, pr, c, m)
  PROVE  NodeInv(q, NoSlot, [pr EXCEPT ![s] = Idle], fl2, c)
<1> DEFINE pr2 == [pr EXCEPT ![s] = Idle]
<1>1. Idle \in Process /\ Idle.phase = "idle"
  BY DEF Idle, Process
<1>2. pr2 \in [Slots -> Process]
  BY <1>1 DEF NodeInv
<1>3. \A t \in Slots : pr2[t].phase = "idle"
  BY <1>1 DEF NodeInv, ProcInv
<1> HIDE DEF pr2
<1>4. ProcInv(q, NoSlot, pr2)
  BY <1>3, SlotsAssumption DEF ProcInv
<1>5. \A m \in fl2 : MsgInv(q, pr2, c, m)
  BY OrphanInv
<1>6. NodeInv(q, NoSlot, pr2, fl2, c)
  BY <1>2, <1>4, <1>5 DEF NodeInv
<1> QED BY <1>6 DEF pr2

\* The process that holds the lock goes on, waiting for the request x at most.
LEMMA GoOnNode ==
  ASSUME NEW q, NEW k, NEW pr, NEW fl, NEW c, NodeInv(q, k, pr, fl, c),
         NEW s \in Slots, NEW k2, k = s \/ k = NoSlot, k2 = s,
         NEW p2 \in Process, p2.phase # "idle",
         p2.phase \in {"executing", "reporting"} =>
           /\ p2.id \in DOMAIN q
           /\ p2.attempts >= p2.max => LastAttempt(q[p2.id]),
         p2.phase = "reporting" => p2.sent \in Reports,
         NEW fl2 \in SUBSET Message,
         \A m \in fl2 : \/ m.slot = NoSlot /\ MsgInv(q, pr, c, m)
                        \/ MsgInv(q, [pr EXCEPT ![s] = p2], c, m)
  PROVE  NodeInv(q, k2, [pr EXCEPT ![s] = p2], fl2, c)
<1> DEFINE pr2 == [pr EXCEPT ![s] = p2]
<1>1. pr2 \in [Slots -> Process]
  BY DEF NodeInv
<1>2. pr2[s] = p2 /\ \A t \in Slots \ {s} : pr2[t] = pr[t]
  BY DEF NodeInv
<1>3. \A m \in fl2 : MsgInv(q, pr2, c, m)
  BY OrphanInv
<1> HIDE DEF pr2
<1>4. \A t \in Slots \ {s} : pr[t].phase = "idle"
  BY SlotsAssumption DEF NodeInv, ProcInv
<1>5. ProcInv(q, k2, pr2)
  BY <1>2, <1>4 DEF ProcInv
<1>6. NodeInv(q, k2, pr2, fl2, c)
  BY <1>1, <1>3, <1>5 DEF NodeInv
<1> QED BY <1>6 DEF pr2

\* With the lock free nobody waits for an answer.
LEMMA FreeNode ==
  ASSUME NEW q, NEW k, NEW pr, NEW fl, NEW c, NodeInv(q, k, pr, fl, c),
         k = NoSlot
  PROVE  \A m \in fl : m.slot = NoSlot
BY OneAwaited, SlotsAssumption

\* hostd takes the free lock and sends its poll.
LEMMA StartNode ==
  ASSUME NEW q, NEW k, NEW pr, NEW fl, NEW c, NodeInv(q, k, pr, fl, c),
         NEW s \in Slots, k = NoSlot
  PROVE  NodeInv(q, s, [pr EXCEPT ![s] = [Idle EXCEPT !.phase = "polling"]],
                 fl \cup {Poll(s)}, c)
<1> DEFINE p2 == [Idle EXCEPT !.phase = "polling"]
           pr2 == [pr EXCEPT ![s] = p2]
<1>1. p2 \in Process /\ p2.phase = "polling"
  BY DEF Idle, Process
<1>2. Poll(s) \in Message /\ Poll(s).slot = s /\ Poll(s).kind = "poll"
  BY DEF Poll, Message
<1>3. pr2[s] = p2
  BY DEF NodeInv
<1> HIDE DEF p2
<1>4. MsgInv(q, pr2, c, Poll(s))
  BY <1>1, <1>2, <1>3 DEF MsgInv, Awaited, Reports
<1>5. \A m \in fl : m.slot = NoSlot /\ MsgInv(q, pr, c, m)
  BY FreeNode DEF NodeInv
<1>6. fl \cup {Poll(s)} \in SUBSET Message
  BY <1>2 DEF NodeInv
<1>7. \A m \in fl \cup {Poll(s)} :
        \/ m.slot = NoSlot /\ MsgInv(q, pr, c, m)
        \/ MsgInv(q, pr2, c, m)
  BY <1>4, <1>5
<1>8. NodeInv(q, s, pr2, fl \cup {Poll(s)}, c)
  BY <1>1, <1>6, <1>7, GoOnNode
<1> QED BY <1>8 DEF p2

\* A request is done with, and its sender, if it still waits, exits.
LEMMA AnswerNode ==
  ASSUME NEW q, NEW k, NEW pr, NEW fl, NEW c, NodeInv(q, k, pr, fl, c),
         NEW m \in fl
  PROVE  /\ m.slot = NoSlot => NodeInv(q, k, pr, fl \ {m}, c)
         /\ m.slot # NoSlot =>
              NodeInv(q, NoSlot, [pr EXCEPT ![m.slot] = Idle], fl \ {m}, c)
<1>1. m.slot = NoSlot => NodeInv(q, k, pr, fl \ {m}, c)
  BY DEF NodeInv
<1>2. ASSUME m.slot # NoSlot
      PROVE  NodeInv(q, NoSlot, [pr EXCEPT ![m.slot] = Idle], fl \ {m}, c)
  <2>1. fl \ {m} \in SUBSET Message
    BY DEF NodeInv
  <2>2. \A m2 \in fl : MsgInv(q, pr, c, m2)
    BY DEF NodeInv
  <2>3. /\ m.slot \in Slots /\ k = m.slot
        /\ \A m2 \in fl \ {m} : m2.slot = NoSlot
    BY <1>2, OneAwaited
  <2> QED BY <2>1, <2>2, <2>3, ExitNode
<1> QED BY <1>1, <1>2

\* Expire and claim: what a poll does to the table.
LEMMA ClaimNode ==
  ASSUME NEW q, NEW k, NEW pr, NEW fl, NEW c, NodeInv(q, k, pr, fl, c),
         NEW i, ClaimedFirst(Expire(q), i)
  PROVE  LET e == Expire(q)
             q2 == ClaimRow(e, i)
         IN /\ TableStep(q, q2, c)
            /\ NodeInv(q2, k, pr, fl, c)
            /\ i \in DOMAIN q2 /\ i \in Nat
            /\ e[i] \in Row
            /\ e[i].attempts + 1 >= e[i].max => LastAttempt(q2[i])
<1> DEFINE e == Expire(q)
           q2 == ClaimRow(e, i)
<1>1. q \in Seq(Row) /\ TableInv(q, c)
  BY DEF NodeInv
<1>2. TableStep(q, e, c)
  BY <1>1, ExpireTable
<1>3. i \in Claimable(e) /\ i \in DOMAIN e
  BY DEF ClaimedFirst, Claimable
<1>4. e \in Seq(Row) /\ TableInv(e, c) /\ Keeps(q, e)
  BY <1>2 DEF TableStep
<1>5. e[i] \in Row /\ i \in Nat
  BY <1>3, <1>4, RowsOf
<1> HIDE DEF e
<1>6. /\ TableStep(e, q2, c)
      /\ e[i].attempts + 1 >= e[i].max => LastAttempt(q2[i])
  BY <1>3, <1>4, ClaimTable
<1> HIDE DEF q2
<1>7. TableStep(q, q2, c)
  BY <1>4, <1>6, KeepsTransitive DEF TableStep
<1>8. NodeInv(q2, k, pr, fl, c)
  BY <1>7, TableNode
<1>9. i \in DOMAIN q2
  BY <1>3, <1>6 DEF TableStep, Keeps
<1> QED BY <1>5, <1>6, <1>7, <1>8, <1>9 DEF e, q2

\* The answer with the claimed row reaches its process.
LEMMA DeliverNode ==
  ASSUME NEW q, NEW k, NEW pr, NEW fl, NEW c, NodeInv(q, k, pr, fl, c),
         NEW m \in fl, m.slot # NoSlot, NEW i, ClaimedFirst(Expire(q), i)
  PROVE  LET e == Expire(q)
             p2 == [Idle EXCEPT !.phase = "executing", !.id = i,
                                !.attempts = e[i].attempts + 1, !.max = e[i].max,
                                !.tagged = e[i].tagged]
         IN NodeInv(ClaimRow(e, i), k, [pr EXCEPT ![m.slot] = p2], fl \ {m}, c)
<1> DEFINE e == Expire(q)
           q2 == ClaimRow(e, i)
           x == e[i].attempts + 1
           y == e[i].max
           b == e[i].tagged
           p2 == [Idle EXCEPT !.phase = "executing", !.id = i,
                              !.attempts = x, !.max = y, !.tagged = b]
           pr2 == [pr EXCEPT ![m.slot] = p2]
<1>1. /\ NodeInv(q2, k, pr, fl, c)
      /\ i \in DOMAIN q2 /\ i \in Nat /\ e[i] \in Row
      /\ e[i].attempts + 1 >= e[i].max => LastAttempt(q2[i])
  BY ClaimNode
<1>2. /\ m.slot \in Slots /\ k = m.slot
      /\ \A m2 \in fl \ {m} : m2.slot = NoSlot
  BY OneAwaited
<1> HIDE DEF e, q2
<1>x. i \in Nat /\ x \in Nat /\ y \in Nat /\ b \in BOOLEAN
  BY <1>1 DEF Row
<1>y. i \in DOMAIN q2 /\ (x >= y => LastAttempt(q2[i]))
  BY <1>1
<1> HIDE DEF x, y, b
<1>3. /\ p2 \in Process /\ p2.phase = "executing" /\ p2.id = i
      /\ p2.attempts = x /\ p2.max = y
  BY <1>x DEF Idle, Process
<1> HIDE DEF p2
<1>4. fl \ {m} \in SUBSET Message /\ \A m2 \in fl : MsgInv(q2, pr, c, m2)
  BY <1>1 DEF NodeInv
<1>5. NodeInv(q2, k, pr2, fl \ {m}, c)
  BY <1>1, <1>2, <1>y, <1>3, <1>4, GoOnNode
<1> QED BY <1>5 DEF e, q2, p2, x, y, b

\* A claimed row is going to be put back by the handler itself.
LEMMA AddRetryNode ==
  ASSUME NEW q, NEW k, NEW pr, NEW fl, NEW c, NodeInv(q, k, pr, fl, c),
         NEW i \in DOMAIN q
  PROVE  LET m == [kind |-> "retry", slot |-> NoSlot, id |-> i, tagged |-> FALSE]
         IN NodeInv(q, k, pr, fl \cup {m}, c)
<1> DEFINE m == [kind |-> "retry", slot |-> NoSlot, id |-> i, tagged |-> FALSE]
<1>1. i \in Nat
  BY RowsOf DEF NodeInv
<1>2. m \in Message /\ MsgInv(q, pr, c, m)
  BY <1>1 DEF Message, MsgInv, Reports
<1> HIDE DEF m
<1>3. NodeInv(q, k, pr, fl \cup {m}, c)
  BY <1>2 DEF NodeInv
<1> QED BY <1>3 DEF m

\* The report a failure sends says "failed" only of a last attempt.
LEMMA FailureReportOf ==
  ASSUME NEW p \in Process
  PROVE  /\ FailureReport(p) \in Reports \ {"applied"}
         /\ FailureReport(p) = "failed" => p.attempts >= p.max
BY DEF FailureReport, Reports, Process

\* A process sends, or sends another, report and waits for the answer.
LEMMA ReportNode ==
  ASSUME NEW q, NEW k, NEW pr, NEW fl, NEW c, NodeInv(q, k, pr, fl, c),
         NEW s \in Slots, pr[s].phase \in {"executing", "reporting"},
         NEW x \in Reports,
         x = "applied" => pr[s].id \in c,
         x = "failed" => pr[s].attempts >= pr[s].max,
         NEW rest \in SUBSET Message,
         \A m \in rest : m.slot = NoSlot /\ MsgInv(q, pr, c, m),
         NEW p2 \in Process,
         p2.phase = "reporting" /\ p2.sent = x /\ p2.id = pr[s].id,
         p2.attempts = pr[s].attempts /\ p2.max = pr[s].max
           /\ p2.tagged = pr[s].tagged
  PROVE  NodeInv(q, k, [pr EXCEPT ![s] = p2], rest \cup {Report(x, s, pr[s])}, c)
<1> DEFINE m == Report(x, s, pr[s])
           pr2 == [pr EXCEPT ![s] = p2]
<1>1. /\ k = s /\ pr[s] \in Process /\ pr[s].id \in DOMAIN q
      /\ pr[s].attempts >= pr[s].max => LastAttempt(q[pr[s].id])
      /\ pr2[s] = p2
  BY DEF NodeInv, ProcInv
<1>2. /\ m \in Message /\ m.kind = x /\ m.slot = s /\ m.id = pr[s].id
      /\ m = Report(p2.sent, s, p2)
  BY <1>1 DEF Report, Message, Reports, Process
<1> HIDE DEF m, pr2
<1>3. Awaited(pr2, m)
  BY <1>1, <1>2 DEF Awaited
<1>4. MsgInv(q, pr2, c, m)
  BY <1>1, <1>2, <1>3 DEF MsgInv
<1>5. rest \cup {m} \in SUBSET Message
  BY <1>2
<1>6. \A m2 \in rest \cup {m} : \/ m2.slot = NoSlot /\ MsgInv(q, pr, c, m2)
                               \/ MsgInv(q, pr2, c, m2)
  BY <1>4
<1>7. NodeInv(q, k, pr2, rest \cup {m}, c)
  BY <1>1, <1>5, <1>6, GoOnNode DEF pr2
<1> QED BY <1>7 DEF m, pr2

-----------------------------------------------------------------------------
(* The actions.                                                            *)

\* A step that concerns node n alone.
OnlyNode(n) ==
  /\ assignments' = [assignments EXCEPT ![n] = assignments'[n]]
  /\ lock' = [lock EXCEPT ![n] = lock'[n]]
  /\ proc' = [proc EXCEPT ![n] = proc'[n]]
  /\ inflight' = [inflight EXCEPT ![n] = inflight'[n]]
  /\ completed' = [completed EXCEPT ![n] = completed'[n]]

Here(n) == NodeInv(assignments[n], lock[n], proc[n], inflight[n], completed[n])

\* What every step guarantees.
SafeStep ==
  /\ IInv'
  /\ \A x \in Nodes : Keeps(assignments[x], assignments'[x])

\* The invariant has to be shown of the one node that a step concerns.
LEMMA OneNode ==
  ASSUME IInv, NEW n \in Nodes, OnlyNode(n), Here(n)',
         Keeps(assignments[n], assignments'[n])
  PROVE  SafeStep
<1>1. \A x \in Nodes : Here(x)
  BY DEF IInv, Here
<1>2. ASSUME NEW x \in Nodes \ {n}
      PROVE  /\ assignments'[x] = assignments[x] /\ lock'[x] = lock[x]
             /\ proc'[x] = proc[x] /\ inflight'[x] = inflight[x]
             /\ completed'[x] = completed[x]
  BY DEF OnlyNode, IInv, TypeOK
<1>3. \A x \in Nodes : Here(x)'
  BY <1>1, <1>2 DEF Here
<1>4. /\ assignments'[n] \in Seq(Row) /\ lock'[n] \in Slots \cup {NoSlot}
      /\ proc'[n] \in [Slots -> Process] /\ inflight'[n] \in SUBSET Message
      /\ completed'[n] \in SUBSET Nat
  BY DEF Here, NodeInv
<1>5. TypeOK'
  BY <1>4 DEF OnlyNode, IInv, TypeOK
<1>6. \A x \in Nodes : Keeps(assignments[x], assignments'[x])
  BY <1>2, KeepsReflexive
<1> QED BY <1>3, <1>5, <1>6 DEF IInv, Here, SafeStep

\* A step that changes the table of any nodes, and nothing else.
LEMMA AllTables ==
  ASSUME IInv, UNCHANGED <<lock, proc, inflight, completed>>,
         assignments' \in [Nodes -> Seq(Row)],
         \A n \in Nodes : TableStep(assignments[n], assignments'[n], completed[n])
  PROVE  SafeStep
<1>1. ASSUME NEW n \in Nodes
      PROVE  NodeInv(assignments[n], lock[n], proc[n], inflight[n], completed[n])'
  <2>1. NodeInv(assignments'[n], lock[n], proc[n], inflight[n], completed[n])
    BY TableNode DEF IInv
  <2> QED BY <2>1
<1>2. TypeOK'
  BY DEF IInv, TypeOK
<1> QED BY <1>1, <1>2 DEF IInv, TableStep, SafeStep

\* What the invariant says of the table of a node.
LEMMA TableOf ==
  ASSUME IInv, NEW n \in Nodes
  PROVE  /\ assignments[n] \in Seq(Row) /\ completed[n] \in SUBSET Nat
         /\ TableInv(assignments[n], completed[n])
         /\ NodeInv(assignments[n], lock[n], proc[n], inflight[n], completed[n])
BY DEF IInv, NodeInv

\* EnqueueHostAssignments is a safe step.
LEMMA EnqueueInv ==
  ASSUME IInv, NEW p \in Planes, NEW g \in 0..MaxGeneration,
         NEW t \in LifecycleTypes, NEW N \in SUBSET Nodes,
         EnqueueHostAssignments(p, g, t, N)
  PROVE  SafeStep
<1>1. ASSUME NEW n \in Nodes
      PROVE  TableStep(assignments[n], assignments'[n], completed[n])
  <2>1. t \in Types /\ t \notin ProxyTypes /\ p \notin Requests
    BY RequestsAssumption DEF Types, LifecycleTypes, ProxyTypes
  <2>2. TableStep(assignments[n],
                  Append(SupersedePlane(assignments[n], p), InsertAssignment(p, g, t)),
                  completed[n])
    BY <2>1, TableOf, EnqueueTable
  <2>3. TableStep(assignments[n], assignments[n], completed[n])
    BY TableOf, NoRow
  <2> QED BY <2>2, <2>3 DEF EnqueueHostAssignments
<1>2. assignments' \in [Nodes -> Seq(Row)]
  <2>1. \A n \in Nodes : assignments'[n] \in Seq(Row)
    BY <1>1 DEF TableStep
  <2> QED BY <2>1 DEF EnqueueHostAssignments
<1> QED BY <1>1, <1>2, AllTables DEF EnqueueHostAssignments

\* ReplaceHostAssignments is a safe step.
LEMMA ReplaceInv ==
  ASSUME IInv, NEW p \in Planes, NEW g \in 0..MaxGeneration,
         NEW N \in SUBSET Nodes, ReplaceHostAssignments(p, g, N)
  PROVE  SafeStep
<1> DEFINE t == "apply-node-state"
<1>1. ASSUME NEW n \in Nodes
      PROVE  TableStep(assignments[n], assignments'[n], completed[n])
  <2>1. t \in Types /\ t \notin ProxyTypes /\ p \notin Requests
    BY RequestsAssumption DEF Types, LifecycleTypes, ProxyTypes
  <2>2. TableStep(assignments[n],
                  Append(SupersedePlane(assignments[n], p), InsertAssignment(p, g, t)),
                  completed[n])
    BY <2>1, TableOf, EnqueueTable
  <2>3. TableStep(assignments[n], SupersedePlane(assignments[n], p), completed[n])
    BY TableOf, SupersedeTable
  <2> QED BY <2>2, <2>3 DEF ReplaceHostAssignments
<1>2. assignments' \in [Nodes -> Seq(Row)]
  <2>1. \A n \in Nodes : assignments'[n] \in Seq(Row)
    BY <1>1 DEF TableStep
  <2> QED BY <2>1 DEF ReplaceHostAssignments
<1> QED BY <1>1, <1>2, AllTables DEF ReplaceHostAssignments

\* SupersedeHostAssignmentsForPlane is a safe step.
LEMMA SupersedeInv ==
  ASSUME IInv, NEW p \in Planes, SupersedeHostAssignmentsForPlane(p)
  PROVE  SafeStep
<1>1. ASSUME NEW n \in Nodes
      PROVE  TableStep(assignments[n], assignments'[n], completed[n])
  <2>1. TableStep(assignments[n], SupersedePlane(assignments[n], p), completed[n])
    BY TableOf, SupersedeTable
  <2> QED BY <2>1 DEF SupersedeHostAssignmentsForPlane
<1>2. assignments' \in [Nodes -> Seq(Row)]
  <2>1. \A n \in Nodes : assignments'[n] \in Seq(Row)
    BY <1>1 DEF TableStep
  <2> QED BY <2>1 DEF SupersedeHostAssignmentsForPlane
<1> QED BY <1>1, <1>2, AllTables DEF SupersedeHostAssignmentsForPlane

\* DeletePlane is a safe step.
LEMMA DeletePlaneInv ==
  ASSUME IInv, NEW p \in Planes, DeletePlane(p)
  PROVE  SafeStep
<1>1. ASSUME NEW n \in Nodes
      PROVE  TableStep(assignments[n], assignments'[n], completed[n])
  <2>1. TableStep(assignments[n], DeletePlaneRows(assignments[n], p), completed[n])
    BY TableOf, DeleteTable
  <2> QED BY <2>1 DEF DeletePlane
<1>2. assignments' \in [Nodes -> Seq(Row)]
  <2>1. \A n \in Nodes : assignments'[n] \in Seq(Row)
    BY <1>1 DEF TableStep
  <2> QED BY <2>1 DEF DeletePlane
<1> QED BY <1>1, <1>2, AllTables DEF DeletePlane

\* A step that changes the table of node n, and nothing else.
LEMMA OneTable ==
  ASSUME IInv, NEW n \in Nodes, UNCHANGED <<lock, proc, inflight, completed>>,
         assignments' = [assignments EXCEPT ![n] = assignments'[n]],
         TableStep(assignments[n], assignments'[n], completed[n])
  PROVE  SafeStep
<1>1. \A x \in Nodes : TableStep(assignments[x], assignments[x], completed[x])
  BY TableOf, NoRow
<1>2. assignments \in [Nodes -> Seq(Row)]
  BY DEF IInv, TypeOK
<1>3. \A x \in Nodes : TableStep(assignments[x], assignments'[x], completed[x])
  BY <1>1, <1>2
<1>4. assignments' \in [Nodes -> Seq(Row)]
  BY <1>2 DEF TableStep
<1> QED BY <1>3, <1>4, AllTables

\* SendHostdRuntimeProxyRequest is a safe step.
LEMMA ProxyInv ==
  ASSUME IInv, NEW r \in Requests, NEW t \in ProxyTypes, NEW n \in Nodes,
         SendHostdRuntimeProxyRequest(r, t, n)
  PROVE  SafeStep
<1> DEFINE q2 == Append(SupersedePlane(assignments[n], r), InsertAssignment(r, 0, t))
<1>1. \A i \in DOMAIN assignments[n] : assignments[n][i].plane # r
  BY DEF SendHostdRuntimeProxyRequest
<1>2. t \in Types /\ 0 \in 0..MaxGeneration
  BY MaxGenerationAssumption DEF Types
<1>3. TableStep(assignments[n], q2, completed[n])
  BY <1>1, <1>2, TableOf, EnqueueTable
<1>4. assignments' = [assignments EXCEPT ![n] = q2]
  BY DEF SendHostdRuntimeProxyRequest
<1> HIDE DEF q2
<1>5. assignments'[n] = q2
  BY <1>4 DEF IInv, TypeOK
<1> QED BY <1>3, <1>4, <1>5, OneTable DEF SendHostdRuntimeProxyRequest

\* RetryHostAssignment is a safe step.
LEMMA RetryInv ==
  ASSUME IInv, NEW n \in Nodes, NEW i \in DOMAIN assignments[n],
         RetryHostAssignment(n, i)
  PROVE  SafeStep
<1> DEFINE q2 == RetryFailedHostAssignment(assignments[n], i)
<1>1. TableStep(assignments[n], q2, completed[n])
  BY TableOf, RetryTable
<1>2. assignments' = [assignments EXCEPT ![n] = q2]
  BY DEF RetryHostAssignment
<1> HIDE DEF q2
<1>3. assignments'[n] = q2
  BY <1>2 DEF IInv, TypeOK
<1> QED BY <1>1, <1>2, <1>3, OneTable DEF RetryHostAssignment

\* Reconcile is a safe step: it marks as applied only what was completed.
LEMMA ReconcileInv ==
  ASSUME IInv, NEW n \in Nodes, NEW i \in DOMAIN assignments[n], Reconcile(n, i)
  PROVE  SafeStep
<1> DEFINE st == ReconciledStatus(n, i)
           q2 == TransitionClaimedHostAssignment(assignments[n], i, st, FALSE)
<1>1. st \in {"applied", "superseded"} /\ (st = "applied" => i \in completed[n])
  BY DEF Reconcile, ReconciledStatus
<1>2. assignments' = [assignments EXCEPT ![n] = q2]
  BY DEF Reconcile
<1> HIDE DEF st
<1>3. TableStep(assignments[n], q2, completed[n])
  BY <1>1, TableOf, TransitionTable
<1> HIDE DEF q2
<1>4. assignments'[n] = q2
  BY <1>2 DEF IInv, TypeOK
<1> QED BY <1>2, <1>3, <1>4, OneTable DEF Reconcile

\* LimitPasses is a safe step.
LEMMA LimitInv ==
  ASSUME IInv, NEW n \in Nodes, NEW i \in DOMAIN assignments[n], LimitPasses(n, i)
  PROVE  SafeStep
<1> DEFINE q2 == AgeRow(assignments[n], i)
<1>1. TableStep(assignments[n], q2, completed[n])
  BY TableOf, AgeTable DEF LimitPasses
<1>2. assignments' = [assignments EXCEPT ![n] = q2]
  BY DEF LimitPasses
<1> HIDE DEF q2
<1>3. assignments'[n] = q2
  BY <1>2 DEF IInv, TypeOK
<1> QED BY <1>1, <1>2, <1>3, OneTable DEF LimitPasses

\* PublishAssignmentProgress is a safe step.
LEMMA ProgressInv ==
  ASSUME IInv, NEW n \in Nodes, NEW s \in Slots, PublishAssignmentProgress(n, s)
  PROVE  SafeStep
<1> DEFINE q2 == UpdateHostAssignmentProgress(assignments[n], proc[n][s].id)
<1>1. proc[n][s].id \in DOMAIN assignments[n]
  BY TableOf DEF NodeInv, ProcInv, PublishAssignmentProgress
<1>2. TableStep(assignments[n], q2, completed[n])
  BY <1>1, TableOf, ProgressTable
<1>3. assignments' = [assignments EXCEPT ![n] = q2]
  BY DEF PublishAssignmentProgress
<1> HIDE DEF q2
<1>4. assignments'[n] = q2
  BY <1>3 DEF IInv, TypeOK
<1> QED BY <1>2, <1>3, <1>4, OneTable DEF PublishAssignmentProgress

\* StartApplyNextAssignment is a safe step.
LEMMA StartInv ==
  ASSUME IInv, NEW n \in Nodes, NEW s \in Slots, StartApplyNextAssignment(n, s)
  PROVE  SafeStep
<1>1. NodeInv(assignments[n], s, [proc[n] EXCEPT ![s] = [Idle EXCEPT !.phase = "polling"]],
              inflight[n] \cup {Poll(s)}, completed[n])
  BY TableOf, StartNode DEF StartApplyNextAssignment
<1>2. /\ assignments'[n] = assignments[n] /\ completed'[n] = completed[n]
      /\ lock'[n] = s
      /\ proc'[n] = [proc[n] EXCEPT ![s] = [Idle EXCEPT !.phase = "polling"]]
      /\ inflight'[n] = inflight[n] \cup {Poll(s)}
      /\ OnlyNode(n)
  BY DEF StartApplyNextAssignment, OnlyNode, IInv, TypeOK
<1>3. Here(n)'
  BY <1>1, <1>2 DEF Here
<1> QED BY <1>2, <1>3, OneNode, KeepsReflexive

\* DeliverClaim is a safe step.
LEMMA DeliverInv ==
  ASSUME IInv, NEW n \in Nodes, NEW m \in inflight[n], NEW i, DeliverClaim(n, m, i)
  PROVE  SafeStep
<1> DEFINE e == Expire(assignments[n])
           p2 == [Idle EXCEPT !.phase = "executing", !.id = i,
                              !.attempts = e[i].attempts + 1, !.max = e[i].max,
                              !.tagged = e[i].tagged]
<1>1. ClaimedFirst(Expire(assignments[n]), i) /\ m.slot # NoSlot
  BY DEF DeliverClaim
<1>2. NodeInv(ClaimRow(e, i), lock[n], [proc[n] EXCEPT ![m.slot] = p2],
              inflight[n] \ {m}, completed[n])
  BY <1>1, TableOf, DeliverNode
<1>k. Keeps(assignments[n], ClaimRow(e, i))
  BY <1>1, TableOf, ClaimNode DEF TableStep
<1>3. /\ assignments' = [assignments EXCEPT ![n] = ClaimRow(e, i)]
      /\ proc' = [proc EXCEPT ![n][m.slot] = p2]
      /\ inflight' = [inflight EXCEPT ![n] = @ \ {m}]
      /\ UNCHANGED <<lock, completed>>
  BY DEF DeliverClaim
<1> HIDE DEF e, p2
<1>4. /\ assignments'[n] = ClaimRow(e, i) /\ completed'[n] = completed[n]
      /\ lock'[n] = lock[n]
      /\ proc'[n] = [proc[n] EXCEPT ![m.slot] = p2]
      /\ inflight'[n] = inflight[n] \ {m}
      /\ OnlyNode(n)
  BY <1>3 DEF OnlyNode, IInv, TypeOK
<1>5. Here(n)'
  BY <1>2, <1>4 DEF Here
<1> QED BY <1>4, <1>5, <1>k, OneNode

\* The table has moved on, m has been served, and its sender, if it still
\* waits, exits.
LEMMA ServedInv ==
  ASSUME IInv, NEW n \in Nodes, NEW m \in inflight[n],
         TableStep(assignments[n], assignments'[n], completed[n]),
         assignments' = [assignments EXCEPT ![n] = assignments'[n]],
         inflight' = [inflight EXCEPT ![n] = inflight'[n]],
         inflight'[n] = inflight[n] \ {m},
         PollFails(n, m), UNCHANGED completed
  PROVE  SafeStep
<1>1. NodeInv(assignments'[n], lock[n], proc[n], inflight[n], completed[n])
  BY TableOf, TableNode
<1>2. CASE m.slot = NoSlot
  <2>1. NodeInv(assignments'[n], lock[n], proc[n], inflight[n] \ {m}, completed[n])
    BY <1>1, <1>2, AnswerNode
  <2>2. UNCHANGED <<proc, lock, completed>>
    BY <1>2 DEF PollFails
  <2>3. Here(n)'
    BY <2>1, <2>2 DEF Here
  <2>4. OnlyNode(n)
    BY <2>2 DEF OnlyNode, IInv, TypeOK
  <2> QED BY <2>3, <2>4, OneNode DEF TableStep
<1>3. CASE m.slot # NoSlot
  <2>1. NodeInv(assignments'[n], NoSlot, [proc[n] EXCEPT ![m.slot] = Idle],
                inflight[n] \ {m}, completed[n])
    BY <1>1, <1>3, AnswerNode
  <2>2. /\ proc' = [proc EXCEPT ![n][m.slot] = Idle]
        /\ lock' = [lock EXCEPT ![n] = NoSlot]
    BY <1>3 DEF PollFails, ExitProcess
  <2>3. /\ proc'[n] = [proc[n] EXCEPT ![m.slot] = Idle] /\ lock'[n] = NoSlot
        /\ OnlyNode(n)
    BY <2>2 DEF OnlyNode, IInv, TypeOK
  <2>4. Here(n)'
    BY <2>1, <2>3 DEF Here
  <2> QED BY <2>3, <2>4, OneNode DEF TableStep
<1> QED BY <1>2, <1>3

\* LoseClaim is a safe step.
LEMMA LoseClaimInv ==
  ASSUME IInv, NEW n \in Nodes, NEW m \in inflight[n], NEW i, LoseClaim(n, m, i)
  PROVE  SafeStep
<1> DEFINE q2 == ClaimRow(Expire(assignments[n]), i)
<1>1. ClaimedFirst(Expire(assignments[n]), i)
  BY DEF LoseClaim
<1>2. TableStep(assignments[n], q2, completed[n])
  BY <1>1, TableOf, ClaimNode
<1>3. /\ assignments' = [assignments EXCEPT ![n] = q2]
      /\ inflight' = [inflight EXCEPT ![n] = @ \ {m}]
      /\ PollFails(n, m) /\ UNCHANGED completed
  BY DEF LoseClaim
<1> HIDE DEF q2
<1>4. assignments'[n] = q2 /\ inflight'[n] = inflight[n] \ {m}
  BY <1>3 DEF IInv, TypeOK
<1> QED BY <1>2, <1>3, <1>4, ServedInv

\* ClaimResponseFails is a safe step.
LEMMA ClaimResponseInv ==
  ASSUME IInv, NEW n \in Nodes, NEW m \in inflight[n], NEW i,
         ClaimResponseFails(n, m, i)
  PROVE  SafeStep
<1> DEFINE q2 == ClaimRow(Expire(assignments[n]), i)
           x == [kind |-> "retry", slot |-> NoSlot, id |-> i, tagged |-> FALSE]
<1>1. ClaimedFirst(Expire(assignments[n]), i)
  BY DEF ClaimResponseFails
<1>2. /\ NodeInv(q2, lock[n], proc[n], inflight[n], completed[n])
      /\ i \in DOMAIN q2 /\ Keeps(assignments[n], q2)
  BY <1>1, TableOf, ClaimNode DEF TableStep
<1>3. /\ assignments' = [assignments EXCEPT ![n] = q2]
      /\ inflight' = [inflight EXCEPT ![n] = (@ \ {m}) \cup {x}]
      /\ PollFails(n, m) /\ UNCHANGED completed
  BY DEF ClaimResponseFails
<1> HIDE DEF q2
<1>4. /\ m.slot = NoSlot =>
           NodeInv(q2, lock[n], proc[n], inflight[n] \ {m}, completed[n])
      /\ m.slot # NoSlot =>
           NodeInv(q2, NoSlot, [proc[n] EXCEPT ![m.slot] = Idle],
                   inflight[n] \ {m}, completed[n])
  BY <1>2, AnswerNode
<1>5. /\ m.slot = NoSlot =>
           NodeInv(q2, lock[n], proc[n], (inflight[n] \ {m}) \cup {x}, completed[n])
      /\ m.slot # NoSlot =>
           NodeInv(q2, NoSlot, [proc[n] EXCEPT ![m.slot] = Idle],
                   (inflight[n] \ {m}) \cup {x}, completed[n])
  BY <1>2, <1>4, AddRetryNode
<1> HIDE DEF x
<1>6. /\ assignments'[n] = q2 /\ inflight'[n] = (inflight[n] \ {m}) \cup {x}
      /\ completed'[n] = completed[n]
  BY <1>3 DEF IInv, TypeOK
<1>7. OnlyNode(n)
  BY <1>3 DEF OnlyNode, PollFails, ExitProcess, IInv, TypeOK
<1>8. /\ m.slot = NoSlot => lock'[n] = lock[n] /\ proc'[n] = proc[n]
      /\ m.slot # NoSlot =>
           lock'[n] = NoSlot /\ proc'[n] = [proc[n] EXCEPT ![m.slot] = Idle]
  BY <1>3 DEF PollFails, ExitProcess, IInv, TypeOK
<1>9. Here(n)'
  BY <1>5, <1>6, <1>8 DEF Here
<1> QED BY <1>2, <1>6, <1>7, <1>9, OneNode

\* PollFindsNothing is a safe step.
LEMMA PollFindsNothingInv ==
  ASSUME IInv, NEW n \in Nodes, NEW m \in inflight[n], PollFindsNothing(n, m)
  PROVE  SafeStep
<1> DEFINE q2 == Expire(assignments[n])
<1>1. TableStep(assignments[n], q2, completed[n])
  BY TableOf, ExpireTable
<1>2. /\ assignments' = [assignments EXCEPT ![n] = q2]
      /\ \/ UNCHANGED <<inflight, proc, lock>>
         \/ /\ inflight' = [inflight EXCEPT ![n] = @ \ {m}]
            /\ PollFails(n, m)
      /\ UNCHANGED completed
  BY DEF PollFindsNothing
<1> HIDE DEF q2
<1>3. assignments'[n] = q2
  BY <1>2 DEF IInv, TypeOK
<1>4. CASE UNCHANGED <<inflight, proc, lock>>
  BY <1>1, <1>2, <1>3, <1>4, OneTable
<1>5. CASE inflight' = [inflight EXCEPT ![n] = @ \ {m}] /\ PollFails(n, m)
  <2>1. inflight'[n] = inflight[n] \ {m}
    BY <1>5 DEF IInv, TypeOK
  <2> QED BY <1>1, <1>2, <1>3, <1>5, <2>1, ServedInv
<1> QED BY <1>2, <1>4, <1>5

\* A report sent by the process of slot s, which leaves "executing".
LEMMA SendReportInv ==
  ASSUME IInv, NEW n \in Nodes, NEW s \in Slots, proc[n][s].phase = "executing",
         NEW x \in Reports,
         x = "applied" => completed'[n] = completed[n] \cup {proc[n][s].id},
         x # "applied" => completed'[n] = completed[n],
         completed' = [completed EXCEPT ![n] = completed'[n]],
         x = "failed" => proc[n][s].attempts >= proc[n][s].max,
         SendReport(n, s, x), UNCHANGED <<assignments, lock>>
  PROVE  SafeStep
<1> DEFINE q == assignments[n]
           pr == proc[n]
           c2 == completed'[n]
           p2 == [pr[s] EXCEPT !.phase = "reporting", !.sent = x]
<1>1. NodeInv(q, lock[n], pr, inflight[n], completed[n])
  BY TableOf
<1>2. lock[n] = s /\ pr[s] \in Process /\ pr[s].id \in DOMAIN q /\ pr[s].id \in Nat
  BY <1>1, RowsOf DEF NodeInv, ProcInv
<1>3. c2 \in SUBSET Nat /\ completed[n] \subseteq c2
  BY <1>1, <1>2 DEF NodeInv
<1> HIDE DEF c2
<1>4. TableInv(q, c2) /\ \A m \in inflight[n] : MsgInv(q, pr, c2, m)
  BY <1>1, <1>3 DEF NodeInv, TableInv, MsgInv
<1>5. NodeInv(q, lock[n], pr, inflight[n], c2)
  BY <1>1, <1>3, <1>4 DEF NodeInv
<1>6. ASSUME NEW m \in inflight[n]
      PROVE  m.slot = NoSlot
  <2>1. SUFFICES ASSUME m.slot # NoSlot PROVE FALSE
    OBVIOUS
  <2>2. m.slot = s
    BY <1>1, <1>2, <2>1, OneAwaited
  <2>3. Awaited(pr, m)
    BY <1>1, <2>1 DEF NodeInv, MsgInv
  <2> QED BY <2>2, <2>3 DEF Awaited
<1>7. /\ p2 \in Process /\ p2.phase = "reporting" /\ p2.sent = x /\ p2.id = pr[s].id
      /\ p2.attempts = pr[s].attempts /\ p2.max = pr[s].max
      /\ p2.tagged = pr[s].tagged
  BY <1>2 DEF Process
<1>8. x = "applied" => pr[s].id \in c2
  BY DEF c2
<1>9. inflight[n] \in SUBSET Message
  BY <1>1 DEF NodeInv
<1>10. /\ proc' = [proc EXCEPT ![n] = [pr EXCEPT ![s] = p2]]
       /\ inflight' = [inflight EXCEPT ![n] = inflight[n] \cup {Report(x, s, pr[s])}]
  BY <1>2 DEF SendReport, IInv, TypeOK, Process
<1> HIDE DEF p2
<1>11. NodeInv(q, lock[n], [pr EXCEPT ![s] = p2],
               inflight[n] \cup {Report(x, s, pr[s])}, c2)
  BY <1>4, <1>5, <1>6, <1>7, <1>8, <1>9, ReportNode
<1>12. /\ assignments'[n] = q /\ lock'[n] = lock[n]
       /\ proc'[n] = [pr EXCEPT ![s] = p2]
       /\ inflight'[n] = inflight[n] \cup {Report(x, s, pr[s])}
       /\ completed'[n] = c2
       /\ OnlyNode(n)
  BY <1>10 DEF OnlyNode, IInv, TypeOK, c2
<1>13. Here(n)'
  BY <1>11, <1>12 DEF Here
<1> QED BY <1>12, <1>13, OneNode, KeepsReflexive

\* FinishWork is a safe step.
LEMMA FinishInv ==
  ASSUME IInv, NEW n \in Nodes, NEW s \in Slots, FinishWork(n, s)
  PROVE  SafeStep
<1>1. /\ completed'[n] = completed[n] \cup {proc[n][s].id}
      /\ completed' = [completed EXCEPT ![n] = completed'[n]]
  BY DEF FinishWork, IInv, TypeOK
<1>2. "applied" \in Reports
  BY DEF Reports
<1> QED BY <1>1, <1>2, SendReportInv DEF FinishWork

\* FailWork is a safe step.
LEMMA FailInv ==
  ASSUME IInv, NEW n \in Nodes, NEW s \in Slots, FailWork(n, s)
  PROVE  SafeStep
<1> DEFINE x == FailureReport(proc[n][s])
<1>1. proc[n][s] \in Process
  BY DEF IInv, TypeOK
<1>2. /\ x \in Reports /\ x # "applied"
      /\ x = "failed" => proc[n][s].attempts >= proc[n][s].max
  BY <1>1, FailureReportOf
<1>3. completed' = [completed EXCEPT ![n] = completed'[n]] /\ completed'[n] = completed[n]
  BY DEF FailWork, IInv, TypeOK
<1>4. SendReport(n, s, x)
  BY DEF FailWork
<1> HIDE DEF x
<1> QED BY <1>2, <1>3, <1>4, SendReportInv DEF FailWork

\* What a report in flight does to the table when it is served.
LEMMA ReportTable ==
  ASSUME IInv, NEW n \in Nodes, NEW m \in inflight[n], m.kind \in Reports
  PROVE  TableStep(assignments[n],
                   TransitionClaimedHostAssignment(assignments[n], m.id,
                                                   ReportedStatus(m.kind), m.tagged),
                   completed[n])
<1> DEFINE st == ReportedStatus(m.kind)
<1>1. /\ m.id \in DOMAIN assignments[n] /\ m.tagged \in BOOLEAN
      /\ m.kind = "applied" => m.id \in completed[n]
      /\ m.kind = "failed" => LastAttempt(assignments[n][m.id])
  BY TableOf DEF NodeInv, MsgInv, Message
<1>2. /\ st \in {"applied", "pending", "failed"}
      /\ st = "applied" => m.kind = "applied"
      /\ st = "failed" => m.kind = "failed"
  BY DEF ReportedStatus, Reports
<1> HIDE DEF st
<1>3. TableStep(assignments[n],
                TransitionClaimedHostAssignment(assignments[n], m.id, st, m.tagged),
                completed[n])
  BY <1>1, <1>2, TableOf, TransitionTable
<1> QED BY <1>3 DEF st

\* HandleReport is a safe step.
LEMMA HandleReportInv ==
  ASSUME IInv, NEW n \in Nodes, NEW m \in inflight[n], HandleReport(n, m)
  PROVE  SafeStep
<1> DEFINE q2 == TransitionClaimedHostAssignment(assignments[n], m.id,
                                                 ReportedStatus(m.kind), m.tagged)
<1>1. TableStep(assignments[n], q2, completed[n])
  BY ReportTable DEF HandleReport
<1>2. /\ assignments' = [assignments EXCEPT ![n] = q2]
      /\ inflight' = [inflight EXCEPT ![n] = @ \ {m}]
      /\ PollFails(n, m) /\ UNCHANGED completed
  BY DEF HandleReport, ServeReport
<1> HIDE DEF q2
<1>3. assignments'[n] = q2 /\ inflight'[n] = inflight[n] \ {m}
  BY <1>2 DEF IInv, TypeOK
<1> QED BY <1>1, <1>2, <1>3, ServedInv

\* The sender of the report m sees it fail, whatever became of the report.
LEMMA ReportThrowsInv ==
  ASSUME IInv, NEW n \in Nodes, NEW m \in inflight[n],
         m.kind \in Reports, m.slot # NoSlot,
         TableStep(assignments[n], assignments'[n], completed[n]),
         assignments' = [assignments EXCEPT ![n] = assignments'[n]],
         \/ ReportThrows(n, m.slot, inflight[n] \ {m})
         \/ ReportThrows(n, m.slot, (inflight[n] \ {m}) \cup {Orphan(m)}),
         UNCHANGED completed
  PROVE  SafeStep
<1> DEFINE q2 == assignments'[n]
           s == m.slot
           pr == proc[n]
<1>1. NodeInv(q2, lock[n], pr, inflight[n], completed[n])
  BY TableOf, TableNode
<1> HIDE DEF q2
<1>2. /\ s \in Slots /\ lock[n] = s
      /\ \A m2 \in inflight[n] \ {m} : m2.slot = NoSlot
  BY <1>1, OneAwaited
<1>3. /\ inflight[n] \in SUBSET Message
      /\ \A m2 \in inflight[n] : MsgInv(q2, pr, completed[n], m2)
  BY <1>1 DEF NodeInv
<1>4. /\ Orphan(m) \in Message /\ Orphan(m).slot = NoSlot
      /\ Orphan(m).kind = m.kind /\ Orphan(m).id = m.id
  BY <1>3 DEF Orphan, Message
<1>5. MsgInv(q2, pr, completed[n], Orphan(m))
  BY <1>3, <1>4 DEF MsgInv
<1>6. PICK rest \in {inflight[n] \ {m}, (inflight[n] \ {m}) \cup {Orphan(m)}} :
        ReportThrows(n, s, rest)
  OBVIOUS
<1>7. /\ rest \in SUBSET Message
      /\ \A m2 \in rest : m2.slot = NoSlot /\ MsgInv(q2, pr, completed[n], m2)
  BY <1>2, <1>3, <1>4, <1>5, <1>6
<1>8. Awaited(pr, m) /\ m.kind # "poll"
  BY <1>3 DEF MsgInv, Reports
<1>9. pr[s].phase = "reporting" /\ pr[s] \in Process
  BY <1>1, <1>2, <1>8 DEF Awaited, Poll, NodeInv
<1>10. CASE pr[s].sent = "applied"
  <2> DEFINE x == FailureReport(pr[s])
             p2 == [pr[s] EXCEPT !.sent = x]
  <2>1. /\ x \in Reports /\ x # "applied"
        /\ x = "failed" => pr[s].attempts >= pr[s].max
    BY <1>9, FailureReportOf
  <2>2. /\ proc' = [proc EXCEPT ![n][s].sent = x]
        /\ inflight' = [inflight EXCEPT ![n] = rest \cup {Report(x, s, pr[s])}]
        /\ UNCHANGED lock
    BY <1>6, <1>10 DEF ReportThrows
  <2> HIDE DEF x
  <2>3. /\ p2 \in Process /\ p2.phase = "reporting" /\ p2.sent = x /\ p2.id = pr[s].id
        /\ p2.attempts = pr[s].attempts /\ p2.max = pr[s].max
        /\ p2.tagged = pr[s].tagged
    BY <1>9, <2>1 DEF Process
  <2>4. proc' = [proc EXCEPT ![n] = [pr EXCEPT ![s] = p2]]
    BY <2>2 DEF IInv, TypeOK, Process
  <2> HIDE DEF p2
  <2>5. NodeInv(q2, lock[n], [pr EXCEPT ![s] = p2],
                rest \cup {Report(x, s, pr[s])}, completed[n])
    BY <1>1, <1>2, <1>7, <1>9, <2>1, <2>3, ReportNode
  <2>6. /\ assignments'[n] = q2 /\ lock'[n] = lock[n]
        /\ proc'[n] = [pr EXCEPT ![s] = p2]
        /\ inflight'[n] = rest \cup {Report(x, s, pr[s])}
        /\ completed'[n] = completed[n]
        /\ OnlyNode(n)
    BY <2>2, <2>4 DEF OnlyNode, IInv, TypeOK, q2
  <2>7. Here(n)'
    BY <2>5, <2>6 DEF Here
  <2> QED BY <2>6, <2>7, OneNode DEF TableStep
<1>11. CASE pr[s].sent # "applied"
  <2>1. /\ proc' = [proc EXCEPT ![n][s] = Idle]
        /\ lock' = [lock EXCEPT ![n] = NoSlot]
        /\ inflight' = [inflight EXCEPT ![n] = rest]
    BY <1>6, <1>11 DEF ReportThrows, ExitProcess
  <2>2. NodeInv(q2, NoSlot, [pr EXCEPT ![s] = Idle], rest, completed[n])
    BY <1>1, <1>2, <1>7, ExitNode
  <2>3. /\ assignments'[n] = q2 /\ lock'[n] = NoSlot
        /\ proc'[n] = [pr EXCEPT ![s] = Idle]
        /\ inflight'[n] = rest /\ completed'[n] = completed[n]
        /\ OnlyNode(n)
    BY <2>1 DEF OnlyNode, IInv, TypeOK, q2
  <2>4. Here(n)'
    BY <2>2, <2>3 DEF Here
  <2> QED BY <2>3, <2>4, OneNode DEF TableStep
<1> QED BY <1>10, <1>11

\* LoseReportAnswer is a safe step.
LEMMA LoseReportAnswerInv ==
  ASSUME IInv, NEW n \in Nodes, NEW m \in inflight[n], LoseReportAnswer(n, m)
  PROVE  SafeStep
<1> DEFINE q2 == TransitionClaimedHostAssignment(assignments[n], m.id,
                                                 ReportedStatus(m.kind), m.tagged)
<1>1. TableStep(assignments[n], q2, completed[n])
  BY ReportTable DEF LoseReportAnswer
<1>2. assignments' = [assignments EXCEPT ![n] = q2]
  BY DEF LoseReportAnswer
<1> HIDE DEF q2
<1>3. assignments'[n] = q2
  BY <1>2 DEF IInv, TypeOK
<1> QED BY <1>1, <1>2, <1>3, ReportThrowsInv DEF LoseReportAnswer

\* LoseRequest and RejectReport are safe steps.
LEMMA FailRequestInv ==
  ASSUME IInv, NEW n \in Nodes, NEW m \in inflight[n], FailRequest(n, m)
  PROVE  SafeStep
<1>1. TableStep(assignments[n], assignments'[n], completed[n])
  BY TableOf, NoRow DEF FailRequest
<1>2. /\ assignments' = [assignments EXCEPT ![n] = assignments'[n]]
      /\ UNCHANGED completed
  BY DEF FailRequest, IInv, TypeOK
<1>3. CASE m.kind = "poll" \/ m.slot = NoSlot
  <2>1. inflight' = [inflight EXCEPT ![n] = @ \ {m}] /\ PollFails(n, m)
    BY <1>3 DEF FailRequest
  <2>2. inflight'[n] = inflight[n] \ {m}
    BY <2>1 DEF IInv, TypeOK
  <2> QED BY <1>1, <1>2, <2>1, <2>2, ServedInv
<1>4. CASE ~(m.kind = "poll" \/ m.slot = NoSlot)
  <2>1. m.kind \in Reports
    BY <1>4, TableOf DEF NodeInv, Message
  <2>2. ReportThrows(n, m.slot, inflight[n] \ {m})
    BY <1>4 DEF FailRequest
  <2> QED BY <1>1, <1>2, <1>4, <2>1, <2>2, ReportThrowsInv
<1> QED BY <1>3, <1>4

\* ReportTimesOut is a safe step.
LEMMA ReportTimesOutInv ==
  ASSUME IInv, NEW n \in Nodes, NEW m \in inflight[n], ReportTimesOut(n, m)
  PROVE  SafeStep
<1>1. TableStep(assignments[n], assignments'[n], completed[n])
  BY TableOf, NoRow DEF ReportTimesOut
<1>2. assignments' = [assignments EXCEPT ![n] = assignments'[n]]
  BY DEF ReportTimesOut, IInv, TypeOK
<1> QED BY <1>1, <1>2, ReportThrowsInv DEF ReportTimesOut

\* Crash is a safe step.
LEMMA CrashInv ==
  ASSUME IInv, NEW n \in Nodes, NEW s \in Slots, Crash(n, s)
  PROVE  SafeStep
<1> DEFINE fl2 == {IF m.slot = s THEN Orphan(m) ELSE m : m \in inflight[n]}
<1>1. NodeInv(assignments[n], lock[n], proc[n], inflight[n], completed[n])
  BY TableOf
<1>2. lock[n] = s
  BY <1>1 DEF NodeInv, ProcInv, Crash
<1>3. ASSUME NEW x \in fl2
      PROVE  /\ x \in Message /\ x.slot = NoSlot
             /\ MsgInv(assignments[n], proc[n], completed[n], x)
  <2>1. PICK m \in inflight[n] : x = IF m.slot = s THEN Orphan(m) ELSE m
    BY <1>3
  <2>2. m \in Message /\ MsgInv(assignments[n], proc[n], completed[n], m)
    BY <1>1 DEF NodeInv
  <2>3. CASE m.slot = s
    <3>1. /\ x \in Message /\ x.slot = NoSlot /\ x.kind = m.kind /\ x.id = m.id
      BY <2>1, <2>2, <2>3 DEF Orphan, Message
    <3> QED BY <2>2, <3>1 DEF MsgInv
  <2>4. CASE m.slot # s
    <3>1. m.slot = NoSlot
      BY <1>1, <1>2, <2>4, OneAwaited
    <3> QED BY <2>1, <2>2, <2>4, <3>1
  <2> QED BY <2>3, <2>4
<1>4. fl2 \in SUBSET Message
  BY <1>3
<1>5. inflight' = [inflight EXCEPT ![n] = fl2]
  BY DEF Crash
<1> HIDE DEF fl2
<1>6. NodeInv(assignments[n], NoSlot, [proc[n] EXCEPT ![s] = Idle], fl2, completed[n])
  BY <1>1, <1>2, <1>3, <1>4, ExitNode
<1>7. /\ assignments'[n] = assignments[n] /\ lock'[n] = NoSlot
      /\ proc'[n] = [proc[n] EXCEPT ![s] = Idle]
      /\ inflight'[n] = fl2 /\ completed'[n] = completed[n]
      /\ OnlyNode(n)
  BY <1>5 DEF Crash, ExitProcess, OnlyNode, IInv, TypeOK
<1>8. Here(n)'
  BY <1>6, <1>7 DEF Here
<1> QED BY <1>7, <1>8, OneNode, KeepsReflexive

-----------------------------------------------------------------------------
(* The theorems.                                                           *)

\* The invariant holds initially.
LEMMA InitInv == Init => IInv
<1> SUFFICES ASSUME Init PROVE IInv
  OBVIOUS
<1>1. Idle \in Process /\ Idle.phase = "idle"
  BY DEF Idle, Process
<1>2. TypeOK
  BY <1>1 DEF Init, TypeOK
<1>3. ASSUME NEW n \in Nodes
      PROVE  NodeInv(assignments[n], lock[n], proc[n], inflight[n], completed[n])
  <2>1. /\ assignments[n] = << >> /\ lock[n] = NoSlot /\ inflight[n] = {}
        /\ \A s \in Slots : proc[n][s] = Idle
    BY DEF Init
  <2>2. TableInv(assignments[n], completed[n])
    BY <2>1 DEF TableInv
  <2>3. ProcInv(assignments[n], lock[n], proc[n])
    BY <1>1, <2>1, SlotsAssumption DEF ProcInv
  <2> QED BY <1>2, <2>1, <2>2, <2>3 DEF NodeInv, TypeOK
<1> QED BY <1>2, <1>3 DEF IInv

\* Every step of the system is safe: one case per action.
LEMMA NextInv == IInv /\ [Next]_vars => SafeStep
<1> SUFFICES ASSUME IInv, [Next]_vars PROVE SafeStep
  OBVIOUS
<1>1. ASSUME NEW p \in Planes, NEW g \in 0..MaxGeneration, NEW N \in SUBSET Nodes,
             NEW t \in EnqueuedTypes \cap LifecycleTypes,
             EnqueueHostAssignments(p, g, t, N)
      PROVE  SafeStep
  BY <1>1, EnqueueInv
<1>2. ASSUME NEW p \in Planes, NEW g \in 0..MaxGeneration, NEW N \in SUBSET Nodes,
             ReplaceHostAssignments(p, g, N)
      PROVE  SafeStep
  BY <1>2, ReplaceInv
<1>3. ASSUME NEW p \in Planes,
             SupersedeHostAssignmentsForPlane(p) \/ DeletePlane(p)
      PROVE  SafeStep
  BY <1>3, SupersedeInv, DeletePlaneInv
<1>4. ASSUME NEW r \in Requests, NEW t \in EnqueuedTypes \cap ProxyTypes,
             NEW n \in Nodes, SendHostdRuntimeProxyRequest(r, t, n)
      PROVE  SafeStep
  BY <1>4, ProxyInv
<1>5. ASSUME NEW n \in Nodes, NEW i \in DOMAIN assignments[n],
             RetryHostAssignment(n, i) \/ Reconcile(n, i)
      PROVE  SafeStep
  BY <1>5, RetryInv, ReconcileInv
<1>6. CASE Controller
  BY <1>1, <1>2, <1>3, <1>4, <1>5, <1>6 DEF Controller
<1>7. CASE Clock
  BY <1>7, LimitInv DEF Clock
<1>8. ASSUME NEW n \in Nodes, NEW s \in Slots, Hostd(n, s)
      PROVE  SafeStep
  BY <1>8, StartInv, ProgressInv, FinishInv, FailInv, CrashInv DEF Hostd
<1>9. ASSUME NEW n \in Nodes, NEW m \in inflight[n], ServePoll(n, m)
      PROVE  SafeStep
  BY <1>9, DeliverInv, LoseClaimInv, ClaimResponseInv, PollFindsNothingInv
     DEF ServePoll
<1>10. ASSUME NEW n \in Nodes, NEW m \in inflight[n], Network(n, m)
       PROVE  SafeStep
  BY <1>9, <1>10, HandleReportInv, LoseReportAnswerInv, FailRequestInv,
     ReportTimesOutInv DEF Network, LoseRequest, RejectReport
<1>11. CASE UNCHANGED vars
  <2>1. IInv'
    BY <1>11 DEF vars, IInv, TypeOK, NodeInv, ProcInv, MsgInv, Awaited
  <2> QED BY <1>11, <2>1, KeepsReflexive DEF vars, SafeStep
<1> QED BY <1>6, <1>7, <1>8, <1>10, <1>11 DEF Next

\* The inductive invariant holds of every reachable state.
THEOREM Invariance == Spec => []IInv
<1>1. Init => IInv
  BY InitInv
<1>2. IInv /\ [Next]_vars => IInv'
  BY NextInv DEF SafeStep
<1> QED BY <1>1, <1>2, PTL DEF Spec

\* Type correctness of the delivery of assignments: rows, file lock, hostd
\* processes and requests keep their types through crashes and lost messages.
THEOREM TypeCorrect == Spec => []TypeOK
<1>1. IInv => TypeOK
  BY DEF IInv
<1> QED BY <1>1, Invariance, PTL

\* A row is marked applied only if some hostd process finished its work.
THEOREM AppliedIsTrue == Spec => []AppliedWasCompleted
<1>1. IInv => AppliedWasCompleted
  BY DEF IInv, NodeInv, TableInv, AppliedWasCompleted
<1> QED BY <1>1, Invariance, PTL

\* A lifecycle assignment is given up only when its attempts are used up, in
\* spite of late reports and operators' retries.
THEOREM FailureIsFinal == Spec => []FailedIsExhausted
<1>1. IInv => FailedIsExhausted
  BY DEF IInv, NodeInv, TableInv, RowInv, FailedIsExhausted
<1> QED BY <1>1, Invariance, PTL

\* Only an operator's retry makes an older row of a plane live beside a newer.
THEOREM OneLiveRow == Spec => []OlderActiveRowWasRetried
<1>1. IInv => OlderActiveRowWasRetried
  BY DEF IInv, NodeInv, TableInv, OlderActiveRowWasRetried
<1> QED BY <1>1, Invariance, PTL

\* The file lock excludes a second hostd process of the same node.
THEOREM MutualExclusion == Spec => []OneProcessPerNode
<1>1. IInv => OneProcessPerNode
  BY DEF IInv, NodeInv, ProcInv, OneProcessPerNode
<1> QED BY <1>1, Invariance, PTL

\* Applied and superseded rows never change again until their plane is
\* deleted, and a deleted row never comes back, whatever late reports,
\* retries, reconciliation and lease expiries do.
THEOREM FinalityOfRows == Spec => FinalRowsStay
<1> DEFINE Stay == \A n \in Nodes : \A i \in DOMAIN assignments[n] :
                     assignments[n][i].status \in {"applied", "superseded", "deleted"}
                       => \/ assignments'[n][i] = assignments[n][i]
                          \/ assignments'[n][i].status = "deleted"
<1>1. IInv /\ [Next]_vars => [Stay]_vars
  BY NextInv DEF SafeStep, Keeps, StaysFinal
<1>2. [][Stay]_vars => FinalRowsStay
  BY PTL DEF FinalRowsStay
<1> QED BY <1>1, <1>2, Invariance, PTL DEF Spec

-----------------------------------------------------------------------------
(* AssignmentDelivery implements AssignmentLedger.                          *)

\* Row r2 is where one edge of its life takes the job of row r, or the same job.
RowLives(r, r2, i, done) == Ledger!Lives(JobOf(r), JobOf(r2), i, done)

\* The rows of a node before and after a step of its ledger.
TableLives(q, q2, c) == Ledger!LedgerStep(JobsOf(q), JobsOf(q2), c)

-----------------------------------------------------------------------------
(* The operations on one row.                                               *)

\* Writing a row changes the state of its job and nothing else.
LEMMA WriteJob ==
  ASSUME NEW r \in Row, NEW st \in Statuses, NEW tag \in BOOLEAN
  PROVE  /\ JobOf(Write(r, st, tag)) = [JobOf(r) EXCEPT !.state = JobState(st)]
         /\ Write(r, st, tag).attempts = r.attempts
<1> DEFINE w == Write(r, st, tag)
<1>1. w.status = st /\ w.attempts = r.attempts /\ w.max = r.max /\ w.type = r.type
  BY DEF Write, Row
<1> HIDE DEF w
<1>2. JobOf(w) = [JobOf(r) EXCEPT !.state = JobState(st)]
  BY <1>1 DEF JobOf
<1> QED BY <1>1, <1>2 DEF w

\* The fields of a job.
LEMMA JobFields ==
  ASSUME NEW r \in Row
  PROVE  /\ JobOf(r).state = JobState(r.status)
         /\ JobOf(r).attempts = r.attempts /\ r.attempts \in Nat
         /\ JobOf(r).budget = r.max /\ r.max \in Nat
         /\ JobOf(r).kind = IF r.type \in ProxyTypes THEN "request" ELSE "lifecycle"
BY DEF JobOf, Row

\* A row that is left alone.
LEMMA StaysLives ==
  ASSUME NEW r, NEW i, NEW done
  PROVE  RowLives(r, r, i, done)
BY DEF RowLives, Ledger!Lives

\* Ageing or renewing a row leaves its job alone.
LEMMA StaleLives ==
  ASSUME NEW r \in Row, NEW b \in BOOLEAN, NEW i, NEW done
  PROVE  /\ RowLives(r, [r EXCEPT !.stale = b], i, done)
         /\ [r EXCEPT !.stale = b].attempts = r.attempts
<1> DEFINE w == [r EXCEPT !.stale = b]
<1>1. w.status = r.status /\ w.attempts = r.attempts /\ w.max = r.max /\ w.type = r.type
  BY DEF Row
<1> HIDE DEF w
<1>2. JobOf(w) = JobOf(r)
  BY <1>1 DEF JobOf
<1>3. RowLives(r, w, i, done)
  BY <1>2 DEF RowLives, Ledger!Lives
<1> QED BY <1>1, <1>3 DEF w

\* A superseded row is a dropped job.
LEMMA DropLives ==
  ASSUME NEW r \in Row, r.status \in Active, NEW i, NEW done
  PROVE  RowLives(r, Write(r, "superseded", FALSE), i, done)
<1>1. JobOf(Write(r, "superseded", FALSE)) = [JobOf(r) EXCEPT !.state = "dropped"]
  BY WriteJob DEF Statuses, JobState
<1>2. JobOf(r).state \in {"open", "taken"}
  BY JobFields DEF JobState, Active
<1> QED BY <1>1, <1>2 DEF RowLives, Ledger!Lives, Ledger!Drop

\* A row that goes with its plane.
LEMMA RemoveLives ==
  ASSUME NEW r \in Row, NEW i, NEW done
  PROVE  RowLives(r, Write(r, "deleted", FALSE), i, done)
<1>1. JobOf(Write(r, "deleted", FALSE)) = [JobOf(r) EXCEPT !.state = "gone"]
  BY WriteJob DEF Statuses, JobState
<1> QED BY <1>1 DEF RowLives, Ledger!Lives, Ledger!Remove

\* A claimed row is put back, completed, given up or dropped.
LEMMA TransitionLives ==
  ASSUME NEW r \in Row, r.status = "claimed",
         NEW st \in {"applied", "pending", "failed", "superseded"}, NEW tag \in BOOLEAN,
         NEW i, NEW done, st = "applied" => i \in done, st = "failed" => r.attempts >= r.max
  PROVE  RowLives(r, Write(r, st, tag), i, done)
<1>1. JobOf(Write(r, st, tag)) = [JobOf(r) EXCEPT !.state = JobState(st)]
  BY WriteJob DEF Statuses
<1>2. JobOf(r).state = "taken" /\ JobOf(r).attempts = r.attempts /\ JobOf(r).budget = r.max
  BY JobFields DEF JobState
<1>3. CASE st = "applied"
  BY <1>1, <1>2, <1>3 DEF RowLives, Ledger!Lives, Ledger!Complete, JobState
<1>4. CASE st = "pending"
  BY <1>1, <1>2, <1>4 DEF RowLives, Ledger!Lives, Ledger!PutBack, JobState
<1>5. CASE st = "failed"
  BY <1>1, <1>2, <1>5 DEF RowLives, Ledger!Lives, Ledger!GiveUp, JobState
<1>6. CASE st = "superseded"
  BY <1>1, <1>2, <1>6 DEF RowLives, Ledger!Lives, Ledger!Drop, JobState
<1> QED BY <1>3, <1>4, <1>5, <1>6

\* A proxy row that nobody claimed in time.
LEMMA LapseLives ==
  ASSUME NEW r \in Row, r.status = "pending", r.type \in ProxyTypes, NEW i, NEW done
  PROVE  RowLives(r, Write(r, "failed", FALSE), i, done)
<1>1. JobOf(Write(r, "failed", FALSE)) = [JobOf(r) EXCEPT !.state = "failed"]
  BY WriteJob DEF Statuses, JobState
<1>2. JobOf(r).state = "open" /\ JobOf(r).kind = "request"
  BY JobFields DEF JobState
<1> QED BY <1>1, <1>2 DEF RowLives, Ledger!Lives, Ledger!Lapse

\* An operator's retry.
LEMMA RetryLives ==
  ASSUME NEW r \in Row, r.status = "failed", NEW i, NEW done
  PROVE  LET w == [Write(r, "pending", FALSE) EXCEPT
                     !.max = IF r.max < r.attempts + 1 THEN r.attempts + 1 ELSE r.max]
         IN RowLives(r, w, i, done) /\ w.attempts = r.attempts
<1> DEFINE m == IF r.max < r.attempts + 1 THEN r.attempts + 1 ELSE r.max
           v == Write(r, "pending", FALSE)
           w == [v EXCEPT !.max = m]
<1>1. /\ v \in Row /\ v.status = "pending" /\ v.attempts = r.attempts /\ v.type = r.type
  BY DEF Write, Row, Statuses
<1> HIDE DEF m, v
<1>2. w.status = "pending" /\ w.attempts = r.attempts /\ w.max = m /\ w.type = r.type
  BY <1>1 DEF Row
<1> HIDE DEF w
<1>0. JobState("pending") = "open"
  BY DEF JobState
<1>3. JobOf(w) = [JobOf(r) EXCEPT !.state = "open", !.budget = m]
  <2> DEFINE k == IF r.type \in ProxyTypes THEN "request" ELSE "lifecycle"
             s == JobState(r.status)
  <2>1. JobOf(w) = [state |-> "open", attempts |-> r.attempts, budget |-> m, kind |-> k]
    BY <1>0, <1>2 DEF JobOf
  <2>2. JobOf(r) = [state |-> s, attempts |-> r.attempts, budget |-> r.max, kind |-> k]
    BY DEF JobOf
  <2> DEFINE j == [JobOf(r) EXCEPT !.state = "open"]
  <2> HIDE DEF k, s
  <2>3. j = [state |-> "open", attempts |-> r.attempts, budget |-> r.max, kind |-> k]
    BY <2>2
  <2> HIDE DEF j
  <2>4. JobOf(w) = [j EXCEPT !.budget = m]
    BY <2>1, <2>3
  <2> QED BY <2>4 DEF j
<1>4. JobOf(r).state = "failed" /\ JobOf(r).attempts = r.attempts /\ JobOf(r).budget = r.max
  BY JobFields DEF JobState
<1>5. RowLives(r, w, i, done)
  BY <1>3, <1>4 DEF RowLives, Ledger!Lives, Ledger!Retry, m
<1> QED BY <1>2, <1>5 DEF m, v, w

\* Handing out a row whose lease ran out or that was waiting.
LEMMA HandOutLives ==
  ASSUME NEW r \in Row, r.status \in Active, NEW x \in Row, x.status = "pending",
         x.attempts = r.attempts, x.max = r.max, x.type = r.type, r.attempts < r.max, NEW i, NEW done
  PROVE  RowLives(r, [Write(x, "claimed", FALSE) EXCEPT !.attempts = x.attempts + 1], i, done)
<1> DEFINE v == Write(x, "claimed", FALSE)
           w == [v EXCEPT !.attempts = x.attempts + 1]
<1>1. v \in Row /\ v.status = "claimed" /\ v.max = r.max /\ v.type = r.type
  BY DEF Write, Row, Statuses
<1> HIDE DEF v
<1>2. w.status = "claimed" /\ w.attempts = r.attempts + 1 /\ w.max = r.max /\ w.type = r.type
  BY <1>1 DEF Row
<1> HIDE DEF w
<1>0. JobState("claimed") = "taken"
  BY DEF JobState
<1>3. JobOf(w) = [JobOf(r) EXCEPT !.state = "taken", !.attempts = r.attempts + 1]
  <2> DEFINE k == IF r.type \in ProxyTypes THEN "request" ELSE "lifecycle"
             s == JobState(r.status)
             a == r.attempts + 1
             j == [JobOf(r) EXCEPT !.state = "taken"]
  <2>1. JobOf(w) = [state |-> "taken", attempts |-> a, budget |-> r.max, kind |-> k]
    BY <1>0, <1>2 DEF JobOf
  <2>2. JobOf(r) = [state |-> s, attempts |-> r.attempts, budget |-> r.max, kind |-> k]
    BY DEF JobOf
  <2> HIDE DEF k, s, a
  <2>3. j = [state |-> "taken", attempts |-> r.attempts, budget |-> r.max, kind |-> k]
    BY <2>2
  <2> HIDE DEF j
  <2>4. JobOf(w) = [j EXCEPT !.attempts = a]
    BY <2>1, <2>3
  <2> QED BY <2>4 DEF a, j
<1>4. /\ JobOf(r).state \in {"open", "taken"}
      /\ JobOf(r).attempts = r.attempts /\ JobOf(r).budget = r.max
  BY JobFields DEF JobState, Active
<1>5. RowLives(r, w, i, done)
  BY <1>3, <1>4 DEF RowLives, Ledger!Lives, Ledger!HandOut
<1> QED BY <1>5 DEF v, w

\* A new row is a new job.
LEMMA InsertJob ==
  ASSUME NEW p, NEW g, NEW t
  PROVE  \E kind \in Ledger!Kinds :
           JobOf(InsertAssignment(p, g, t)) = Ledger!NewJob(kind)
<1> DEFINE r == InsertAssignment(p, g, t)
<1>1. r.status = "pending" /\ r.attempts = 0 /\ r.max = MaxAttempts
  BY DEF InsertAssignment
<1>2. JobState("pending") = "open"
  BY DEF JobState
<1> HIDE DEF r
<1>3. JobOf(r) = Ledger!NewJob(JobOf(r).kind)
  BY <1>1, <1>2 DEF JobOf, Ledger!NewJob
<1>4. JobOf(r).kind \in Ledger!Kinds
  BY DEF JobOf, Ledger!Kinds
<1> QED BY <1>3, <1>4 DEF r

-----------------------------------------------------------------------------
(* The operations on the rows of a node.                                    *)

\* The positions of the rows of q and of the row that q2 adds behind them.
Grows(q, q2) ==
  \/ Len(q2) = Len(q)
  \/ /\ Len(q2) = Len(q) + 1
     /\ \E kind \in Ledger!Kinds : JobOf(q2[Len(q2)]) = Ledger!NewJob(kind)

\* A table that grows keeps its positions and has the new one behind them.
LEMMA Positions ==
  ASSUME NEW q \in Seq(Row), NEW q2 \in Seq(Row),
         Len(q2) = Len(q) \/ Len(q2) = Len(q) + 1
  PROVE  /\ DOMAIN q \subseteq DOMAIN q2
         /\ \A i \in DOMAIN q2 \ DOMAIN q :
              /\ i = Len(q2) /\ Len(q2) # Len(q)
              /\ \A k \in DOMAIN q : k < i
<1>1. /\ Len(q) \in Nat /\ DOMAIN q = 1..Len(q)
      /\ Len(q2) \in Nat /\ DOMAIN q2 = 1..Len(q2)
  BY RowsOf
<1>2. ASSUME NEW a \in Nat, NEW b \in Nat, b = a \/ b = a + 1
      PROVE  /\ 1..a \subseteq 1..b
             /\ \A i \in (1..b) \ (1..a) :
                  /\ i = b /\ b # a
                  /\ \A k \in 1..a : k < i
  BY <1>2
<1>3. /\ 1..Len(q) \subseteq 1..Len(q2)
      /\ \A i \in (1..Len(q2)) \ (1..Len(q)) :
           /\ i = Len(q2) /\ Len(q2) # Len(q)
           /\ \A k \in 1..Len(q) : k < i
  <2>1. Len(q) \in Nat /\ Len(q2) \in Nat
    BY <1>1
  <2> QED BY <1>2, <2>1
<1> QED BY <1>1, <1>3, Zenon

\* A table is a ledger: if every row lives, at most one is handed out and at
\* most one is new, the ledger takes one step.
LEMMA EachLives ==
  ASSUME NEW q \in Seq(Row), NEW q2 \in Seq(Row), NEW c, Grows(q, q2),
         \A i \in DOMAIN q : RowLives(q[i], q2[i], i, c),
         \A i, k \in DOMAIN q :
           q2[i].attempts > q[i].attempts /\ q2[k].attempts > q[k].attempts => i = k
  PROVE  TableLives(q, q2, c)
<1> DEFINE a == JobsOf(q)
           b == JobsOf(q2)
<1>2. /\ DOMAIN a = DOMAIN q /\ DOMAIN b = DOMAIN q2
      /\ \A i \in DOMAIN q : a[i] = JobOf(q[i])
      /\ \A i \in DOMAIN q2 : b[i] = JobOf(q2[i])
  BY DEF JobsOf
<1> HIDE DEF a, b
<1>0. Len(q2) = Len(q) \/ Len(q2) = Len(q) + 1
  BY DEF Grows
<1>3. DOMAIN a \subseteq DOMAIN b
  BY <1>0, <1>2, Positions
<1>4. \A i \in DOMAIN a : Ledger!Lives(a[i], b[i], i, c)
  BY <1>2, <1>3 DEF RowLives
<1>5. ASSUME NEW i \in DOMAIN b \ DOMAIN a
      PROVE  /\ i = Len(q2)
             /\ \E kind \in Ledger!Kinds : b[i] = Ledger!NewJob(kind)
  <2>1. i = Len(q2) /\ Len(q2) # Len(q)
    BY <1>0, <1>2, Positions
  <2>2. \E kind \in Ledger!Kinds : JobOf(q2[i]) = Ledger!NewJob(kind)
    BY <2>1 DEF Grows
  <2> QED BY <1>2, <2>1, <2>2
<1>6. \A i \in DOMAIN b \ DOMAIN a : \A k \in DOMAIN a : k < i
  BY <1>0, <1>2, Positions
<1>7. \A i, k \in DOMAIN b \ DOMAIN a : i = k
  BY <1>5
<1>8. \A i, k \in DOMAIN a :
        b[i].attempts > a[i].attempts /\ b[k].attempts > a[k].attempts => i = k
  <2>1. \A i \in DOMAIN a : a[i].attempts = q[i].attempts /\ b[i].attempts = q2[i].attempts
    BY <1>2, <1>3 DEF JobOf
  <2> QED BY <1>2, <2>1
<1>9. Ledger!LedgerStep(a, b, c)
  BY <1>3, <1>4, <1>5, <1>6, <1>7, <1>8 DEF Ledger!LedgerStep
<1> QED BY <1>9 DEF TableLives, a, b

\* No row is handed out by an operation that leaves the attempts alone.
LEMMA SameAttempts ==
  ASSUME NEW q \in Seq(Row), NEW q2 \in Seq(Row), NEW c, Grows(q, q2),
         \A i \in DOMAIN q :
           RowLives(q[i], q2[i], i, c) /\ q2[i].attempts = q[i].attempts
  PROVE  TableLives(q, q2, c)
<1>1. \A i \in DOMAIN q : q[i].attempts \in Nat
  BY RowsOf DEF Row
<1>2. \A i \in DOMAIN q : ~ (q2[i].attempts > q[i].attempts)
  BY <1>1
<1> QED BY <1>2, EachLives

\* A table that no operation touches.
LEMMA UntouchedLives ==
  ASSUME NEW q \in Seq(Row), NEW c
  PROVE  TableLives(q, q, c)
BY SameAttempts, StaysLives DEF Grows

\* One row of the table changes, and its attempts do not.
LEMMA OneRowLives ==
  ASSUME NEW q \in Seq(Row), NEW c, NEW j \in DOMAIN q, NEW r2 \in Row,
         RowLives(q[j], r2, j, c), r2.attempts = q[j].attempts
  PROVE  TableLives(q, [q EXCEPT ![j] = r2], c)
<1> DEFINE q2 == [q EXCEPT ![j] = r2]
<1>1. q2 \in Seq(Row) /\ Len(q2) = Len(q)
  BY ExceptSeq
<1>2. \A i \in DOMAIN q :
        RowLives(q[i], q2[i], i, c) /\ q2[i].attempts = q[i].attempts
  <2> TAKE i \in DOMAIN q
  <2>1. CASE i = j
    BY <2>1
  <2>2. CASE i # j
    <3>1. q2[i] = q[i]
      BY <2>2
    <3> QED BY <3>1, StaysLives
  <2> QED BY <2>1, <2>2
<1> QED BY <1>1, <1>2, SameAttempts DEF Grows

\* Rows that are rewritten one by one keep their positions.
LEMMA SameRows ==
  ASSUME NEW q \in Seq(Row), NEW q2 \in [DOMAIN q -> Row]
  PROVE  q2 \in Seq(Row) /\ Len(q2) = Len(q)
<1>1. Len(q) \in Nat /\ DOMAIN q = 1..Len(q)
  BY LenProperties
<1>2. q2 \in Seq(Row)
  BY <1>1, SeqDef
<1> QED BY <1>1, <1>2, LenProperties

\* Superseding the rows of a plane drops jobs.
LEMMA SupersedeLives ==
  ASSUME NEW q \in Seq(Row), NEW c, NEW p
  PROVE  /\ SupersedePlane(q, p) \in Seq(Row)
         /\ Len(SupersedePlane(q, p)) = Len(q)
         /\ \A i \in DOMAIN q :
              /\ RowLives(q[i], SupersedePlane(q, p)[i], i, c)
              /\ SupersedePlane(q, p)[i].attempts = q[i].attempts
<1> DEFINE q2 == SupersedePlane(q, p)
<1>1. ASSUME NEW i \in DOMAIN q
      PROVE  /\ q2[i] \in Row
             /\ RowLives(q[i], q2[i], i, c)
             /\ q2[i].attempts = q[i].attempts
  <2>1. q[i] \in Row
    BY RowsOf
  <2>2. CASE q[i].plane = p /\ q[i].status \in Active
    <3>1. q2[i] = Write(q[i], "superseded", FALSE)
      BY <2>2 DEF SupersedePlane
    <3>2. q2[i] \in Row /\ q2[i].attempts = q[i].attempts
      BY <2>1, <3>1 DEF Write, Row, Statuses
    <3>3. RowLives(q[i], q2[i], i, c)
      BY <2>1, <2>2, <3>1, DropLives
    <3> QED BY <3>2, <3>3
  <2>3. CASE ~(q[i].plane = p /\ q[i].status \in Active)
    <3>1. q2[i] = q[i]
      BY <2>3 DEF SupersedePlane
    <3> QED BY <2>1, <3>1, StaysLives
  <2> QED BY <2>2, <2>3
<1>2. q2 \in [DOMAIN q -> Row]
  BY <1>1 DEF SupersedePlane
<1> HIDE DEF q2
<1>3. q2 \in Seq(Row) /\ Len(q2) = Len(q)
  BY <1>2, SameRows
<1> QED BY <1>1, <1>3 DEF q2

\* Superseding the rows of a plane is a step of the ledger.
LEMMA SupersedeLedger ==
  ASSUME NEW q \in Seq(Row), NEW c, NEW p
  PROVE  TableLives(q, SupersedePlane(q, p), c)
BY SupersedeLives, SameAttempts DEF Grows

\* Enqueueing drops the jobs of the plane and adds one behind them.
LEMMA EnqueueLedger ==
  ASSUME NEW q \in Seq(Row), NEW c,
         NEW p \in Planes \cup Requests, NEW g \in 0..MaxGeneration, NEW t \in Types,
         t \in ProxyTypes <=> p \in Requests
  PROVE  TableLives(q, Append(SupersedePlane(q, p), InsertAssignment(p, g, t)), c)
<1> DEFINE u == SupersedePlane(q, p)
           r == InsertAssignment(p, g, t)
           q2 == Append(u, r)
<1>1. /\ u \in Seq(Row) /\ Len(u) = Len(q)
      /\ \A i \in DOMAIN q : RowLives(q[i], u[i], i, c) /\ u[i].attempts = q[i].attempts
  BY SupersedeLives
<1>2. r \in Row
  BY InsertRow
<1>3. \E kind \in Ledger!Kinds : JobOf(r) = Ledger!NewJob(kind)
  BY InsertJob
<1> HIDE DEF u, r
<1>4. /\ q2 \in Seq(Row) /\ Len(q2) = Len(u) + 1
      /\ \A i \in 1..Len(u) : q2[i] = u[i]
      /\ q2[Len(u) + 1] = r
  BY <1>1, <1>2, AppendProperties
<1> HIDE DEF q2
<1>5. Grows(q, q2)
  BY <1>1, <1>3, <1>4 DEF Grows
<1>6. DOMAIN q = 1..Len(u)
  BY <1>1, RowsOf
<1>7. \A i \in DOMAIN q : RowLives(q[i], q2[i], i, c) /\ q2[i].attempts = q[i].attempts
  BY <1>1, <1>4, <1>6
<1> QED BY <1>4, <1>5, <1>7, SameAttempts DEF u, r, q2

\* Deleting a plane removes its jobs.
LEMMA DeleteLedger ==
  ASSUME NEW q \in Seq(Row), NEW c, NEW p
  PROVE  TableLives(q, DeletePlaneRows(q, p), c)
<1> DEFINE q2 == DeletePlaneRows(q, p)
<1>1. ASSUME NEW i \in DOMAIN q
      PROVE  /\ q2[i] \in Row
             /\ RowLives(q[i], q2[i], i, c)
             /\ q2[i].attempts = q[i].attempts
  <2>1. q[i] \in Row
    BY RowsOf
  <2>2. CASE q[i].plane = p
    <3>1. q2[i] = Write(q[i], "deleted", FALSE)
      BY <2>2 DEF DeletePlaneRows
    <3>2. q2[i] \in Row /\ q2[i].attempts = q[i].attempts
      BY <2>1, <3>1 DEF Write, Row, Statuses
    <3> QED BY <2>1, <3>1, <3>2, RemoveLives
  <2>3. CASE q[i].plane # p
    <3>1. q2[i] = q[i]
      BY <2>3 DEF DeletePlaneRows
    <3> QED BY <2>1, <3>1, StaysLives
  <2> QED BY <2>2, <2>3
<1>2. q2 \in [DOMAIN q -> Row]
  BY <1>1 DEF DeletePlaneRows
<1> HIDE DEF q2
<1>3. q2 \in Seq(Row) /\ Len(q2) = Len(q)
  BY <1>2, SameRows
<1>4. TableLives(q, q2, c)
  BY <1>1, <1>3, SameAttempts DEF Grows
<1> QED BY <1>4 DEF q2

\* What running out leases and proxy rows does to one row.
LEMMA ExpireRow ==
  ASSUME NEW q \in Seq(Row), NEW c, NEW i \in DOMAIN q
  PROVE  LET r == q[i]
             x == Expire(q)[i]
         IN  /\ x \in Row
             /\ x.attempts = r.attempts /\ x.max = r.max /\ x.type = r.type
             /\ x.status = "pending" => r.status \in Active
             /\ RowLives(r, x, i, c)
<1> DEFINE r == q[i]
           l == ExpireLeases(q)
           y == l[i]
           x == ExpireProxies(l)[i]
<1>1. r \in Row
  BY RowsOf
<1>2. i \in DOMAIN l
  BY DEF ExpireLeases
<1>3. CASE r.status = "claimed" /\ r.stale
  <2> DEFINE st == IF r.attempts >= r.max THEN "failed" ELSE "pending"
  <2>1. y = Write(r, st, FALSE)
    BY <1>3 DEF ExpireLeases
  <2>2. y \in Row /\ ~ y.stale
    BY <1>1, <2>1 DEF Write, Row, Statuses
  <2>3. y.attempts = r.attempts /\ y.max = r.max /\ y.type = r.type
    BY <1>1, <2>1 DEF Write, Row, Statuses
  <2>4. RowLives(r, y, i, c)
    BY <1>1, <1>3, <2>1, TransitionLives
  <2>5. x = y
    BY <1>2, <2>2 DEF ExpireProxies
  <2> QED BY <1>3, <2>2, <2>3, <2>4, <2>5 DEF Expire, Active
<1>4. CASE ~(r.status = "claimed" /\ r.stale)
  <2>1. y = r
    BY <1>4 DEF ExpireLeases
  <2>2. CASE r.status = "pending" /\ r.type \in ProxyTypes /\ r.stale
    <3>1. x = Write(r, "failed", FALSE)
      BY <1>2, <2>1, <2>2 DEF ExpireProxies
    <3>2. /\ x \in Row /\ x.status = "failed"
          /\ x.attempts = r.attempts /\ x.max = r.max /\ x.type = r.type
      BY <1>1, <3>1 DEF Write, Row, Statuses
    <3>3. RowLives(r, x, i, c)
      BY <1>1, <2>2, <3>1, LapseLives
    <3> QED BY <3>2, <3>3 DEF Expire
  <2>3. CASE ~(r.status = "pending" /\ r.type \in ProxyTypes /\ r.stale)
    <3>1. x = r
      BY <1>2, <2>1, <2>3 DEF ExpireProxies
    <3> QED BY <1>1, <3>1, StaysLives DEF Expire, Active
  <2> QED BY <2>2, <2>3
<1> QED BY <1>3, <1>4

\* A poll that finds nothing puts back or gives up what ran out.
LEMMA ExpireLedger ==
  ASSUME NEW q \in Seq(Row), NEW c, TableInv(q, c)
  PROVE  TableLives(q, Expire(q), c)
<1> DEFINE e == Expire(q)
<1>1. e \in Seq(Row) /\ DOMAIN e = DOMAIN q
  BY ExpireTable DEF TableStep
<1>2. \A i \in DOMAIN q : RowLives(q[i], e[i], i, c) /\ e[i].attempts = q[i].attempts
  BY ExpireRow
<1> HIDE DEF e
<1>3. Len(e) = Len(q)
  BY <1>1, LenProperties
<1>4. TableLives(q, e, c)
  BY <1>1, <1>2, <1>3, SameAttempts DEF Grows
<1> QED BY <1>4 DEF e

\* A poll that claims a row hands out that job, and no other.
LEMMA ClaimLedger ==
  ASSUME NEW q \in Seq(Row), NEW c, TableInv(q, c), NEW j \in Claimable(Expire(q))
  PROVE  TableLives(q, ClaimRow(Expire(q), j), c)
<1> DEFINE e == Expire(q)
           r2 == [Write(e[j], "claimed", FALSE) EXCEPT !.attempts = e[j].attempts + 1]
           q2 == ClaimRow(e, j)
<1>1. /\ e \in Seq(Row) /\ DOMAIN e = DOMAIN q /\ TableInv(e, c)
      /\ TableStep(e, q2, c)
  BY ExpireTable, ClaimTable DEF TableStep
<1>2. j \in DOMAIN q /\ e[j].status = "pending" /\ e[j].attempts < e[j].max
  BY <1>1 DEF Claimable
<1>3. q2 = [e EXCEPT ![j] = r2]
  BY DEF ClaimRow
<1>4. \A i \in DOMAIN q : RowLives(q[i], e[i], i, c) /\ e[i].attempts = q[i].attempts
  BY ExpireRow
<1>5. RowLives(q[j], r2, j, c)
  <2>1. /\ e[j] \in Row /\ q[j] \in Row /\ q[j].status \in Active
        /\ e[j].attempts = q[j].attempts /\ e[j].max = q[j].max /\ e[j].type = q[j].type
    BY <1>2, ExpireRow, RowsOf
  <2>2. q[j].attempts < q[j].max
    BY <1>2, <2>1
  <2> HIDE DEF e
  <2> QED BY <1>2, <2>1, <2>2, HandOutLives
<1> HIDE DEF e, r2
<1>6. q2 \in Seq(Row) /\ Len(q2) = Len(q)
  <2>1. q2 \in Seq(Row)
    BY <1>1 DEF TableStep
  <2>2. DOMAIN q2 = DOMAIN q
    BY <1>1, <1>3
  <2> HIDE DEF q2
  <2> QED BY <2>1, <2>2, LenProperties
<1>7. ASSUME NEW i \in DOMAIN q
      PROVE  /\ RowLives(q[i], q2[i], i, c)
             /\ i # j => q2[i].attempts = q[i].attempts
  <2>1. CASE i = j
    BY <1>1, <1>2, <1>3, <1>5, <2>1
  <2>2. CASE i # j
    BY <1>1, <1>3, <1>4, <2>2
  <2> QED BY <2>1, <2>2
<1> HIDE DEF q2
<1>8. \A i \in DOMAIN q : q[i].attempts \in Nat
  BY RowsOf DEF Row
<1>9. \A i \in DOMAIN q : q2[i].attempts > q[i].attempts => i = j
  BY <1>7, <1>8
<1>10. Grows(q, q2)
  BY <1>6 DEF Grows
<1>11. TableLives(q, q2, c)
  BY <1>6, <1>7, <1>9, <1>10, EachLives
<1> QED BY <1>11 DEF q2, e

\* Progress leaves every job alone.
LEMMA ProgressLedger ==
  ASSUME NEW q \in Seq(Row), NEW c, NEW i \in DOMAIN q
  PROVE  TableLives(q, UpdateHostAssignmentProgress(q, i), c)
<1>1. q[i] \in Row
  BY RowsOf
<1>2. CASE q[i].status = "claimed"
  <2> DEFINE r == [q[i] EXCEPT !.stale = FALSE]
  <2>1. r \in Row
    BY <1>1 DEF Row
  <2>2. RowLives(q[i], r, i, c) /\ r.attempts = q[i].attempts
    BY <1>1, StaleLives
  <2>3. UpdateHostAssignmentProgress(q, i) = [q EXCEPT ![i] = r]
    BY <1>2 DEF UpdateHostAssignmentProgress
  <2> HIDE DEF r
  <2>4. TableLives(q, [q EXCEPT ![i] = r], c)
    BY <2>1, <2>2, OneRowLives
  <2> QED BY <2>3, <2>4
<1>3. CASE q[i].status # "claimed"
  BY <1>3, UntouchedLives DEF UpdateHostAssignmentProgress
<1> QED BY <1>2, <1>3

\* A report takes a job that is taken along one edge, and no other job.
LEMMA TransitionLedger ==
  ASSUME NEW q \in Seq(Row), NEW c, NEW i \in DOMAIN q,
         NEW st \in {"applied", "pending", "failed", "superseded"}, NEW tag \in BOOLEAN,
         st = "applied" => i \in c, st = "failed" => LastAttempt(q[i])
  PROVE  TableLives(q, TransitionClaimedHostAssignment(q, i, st, tag), c)
<1>1. q[i] \in Row
  BY RowsOf
<1>2. CASE q[i].status = "claimed"
  <2> DEFINE r == Write(q[i], st, tag)
  <2>1. st = "failed" => q[i].attempts >= q[i].max
    BY <1>2 DEF LastAttempt
  <2>2. r \in Row /\ r.attempts = q[i].attempts
    BY <1>1 DEF Write, Row, Statuses
  <2>3. RowLives(q[i], r, i, c)
    BY <1>1, <1>2, <2>1, TransitionLives
  <2>4. TransitionClaimedHostAssignment(q, i, st, tag) = [q EXCEPT ![i] = r]
    BY <1>2 DEF TransitionClaimedHostAssignment
  <2> HIDE DEF r
  <2>5. TableLives(q, [q EXCEPT ![i] = r], c)
    BY <2>2, <2>3, OneRowLives
  <2> QED BY <2>4, <2>5
<1>3. CASE q[i].status # "claimed"
  BY <1>3, UntouchedLives DEF TransitionClaimedHostAssignment
<1> QED BY <1>2, <1>3

\* An operator's retry opens a failed job again.
LEMMA RetryLedger ==
  ASSUME NEW q \in Seq(Row), NEW c, NEW i \in DOMAIN q, TableInv(q, c)
  PROVE  TableLives(q, RetryFailedHostAssignment(q, i), c)
<1>1. q[i] \in Row /\ RowInv(q[i])
  BY RowsOf DEF TableInv
<1>2. CASE q[i].status = "failed"
  <2> DEFINE m == IF q[i].max < q[i].attempts + 1
                  THEN q[i].attempts + 1 ELSE q[i].max
             r == [Write(q[i], "pending", FALSE) EXCEPT !.max = m]
  <2>1. r \in Row
    BY <1>1, <1>2, RetryStep DEF RowStep
  <2>2. RowLives(q[i], r, i, c) /\ r.attempts = q[i].attempts
    BY <1>1, <1>2, RetryLives
  <2>3. RetryFailedHostAssignment(q, i) = [q EXCEPT ![i] = r]
    BY <1>2 DEF RetryFailedHostAssignment
  <2> HIDE DEF r
  <2>4. TableLives(q, [q EXCEPT ![i] = r], c)
    BY <2>1, <2>2, OneRowLives
  <2> QED BY <2>3, <2>4
<1>3. CASE q[i].status # "failed"
  BY <1>3, UntouchedLives DEF RetryFailedHostAssignment
<1> QED BY <1>2, <1>3

\* The passing of time leaves every job alone.
LEMMA AgeLedger ==
  ASSUME NEW q \in Seq(Row), NEW c, NEW i \in DOMAIN q
  PROVE  TableLives(q, AgeRow(q, i), c)
<1> DEFINE r == [q[i] EXCEPT !.stale = TRUE]
<1>1. q[i] \in Row
  BY RowsOf
<1>2. r \in Row
  BY <1>1 DEF Row
<1>3. RowLives(q[i], r, i, c) /\ r.attempts = q[i].attempts
  BY <1>1, StaleLives
<1>4. AgeRow(q, i) = [q EXCEPT ![i] = r]
  BY DEF AgeRow
<1> HIDE DEF r
<1>5. TableLives(q, [q EXCEPT ![i] = r], c)
  BY <1>2, <1>3, OneRowLives
<1> QED BY <1>4, <1>5

-----------------------------------------------------------------------------
(* The steps of the system.                                                 *)

\* Every ledger takes one step, or none.
LedgersLive ==
  \A n \in Nodes :
    /\ completed[n] \subseteq completed'[n]
    /\ TableLives(assignments[n], assignments'[n], completed'[n])

\* A step that leaves the history alone.
LEMMA TablesLive ==
  ASSUME UNCHANGED completed,
         \A n \in Nodes : TableLives(assignments[n], assignments'[n], completed[n])
  PROVE  LedgersLive
BY DEF LedgersLive

\* A step that changes the table of node n only.
LEMMA OneTableLives ==
  ASSUME IInv, UNCHANGED completed, NEW n \in Nodes, NEW q2,
         assignments' = [assignments EXCEPT ![n] = q2],
         TableLives(assignments[n], q2, completed[n])
  PROVE  LedgersLive
<1>1. ASSUME NEW m \in Nodes
      PROVE  TableLives(assignments[m], assignments'[m], completed[m])
  <2>1. CASE m = n
    <3>1. assignments'[n] = q2
      BY DEF IInv, TypeOK
    <3> QED BY <2>1, <3>1
  <2>2. CASE m # n
    <3>1. assignments'[m] = assignments[m]
      BY <2>2 DEF IInv, TypeOK
    <3> QED BY <3>1, TableOf, UntouchedLives
  <2> QED BY <2>1, <2>2
<1> QED BY <1>1, TablesLive

\* A step that leaves the tables alone; the history may grow.
LEMMA NoTableLives ==
  ASSUME IInv, UNCHANGED assignments, \A n \in Nodes : completed[n] \subseteq completed'[n]
  PROVE  LedgersLive
BY TableOf, UntouchedLives DEF LedgersLive

\* The controller enqueues, replaces, supersedes and deletes.
LEMMA ControllerLives ==
  ASSUME IInv, Controller
  PROVE  LedgersLive
<1>1. ASSUME NEW p \in Planes, NEW g \in 0..MaxGeneration, NEW N \in SUBSET Nodes,
             NEW t \in LifecycleTypes, EnqueueHostAssignments(p, g, t, N)
      PROVE  LedgersLive
  <2>1. t \in Types /\ t \notin ProxyTypes /\ p \notin Requests
    BY RequestsAssumption DEF Types, LifecycleTypes, ProxyTypes
  <2>2. ASSUME NEW n \in Nodes
        PROVE  TableLives(assignments[n], assignments'[n], completed[n])
    <3>1. CASE n \in N
      BY <1>1, <2>1, <3>1, TableOf, EnqueueLedger DEF EnqueueHostAssignments
    <3>2. CASE n \notin N
      BY <1>1, <3>2, TableOf, UntouchedLives DEF EnqueueHostAssignments
    <3> QED BY <3>1, <3>2
  <2> QED BY <1>1, <2>2, TablesLive DEF EnqueueHostAssignments
<1>2. ASSUME NEW p \in Planes, NEW g \in 0..MaxGeneration, NEW N \in SUBSET Nodes,
             ReplaceHostAssignments(p, g, N)
      PROVE  LedgersLive
  <2> DEFINE t == "apply-node-state"
  <2>1. t \in Types /\ t \notin ProxyTypes /\ p \notin Requests
    BY RequestsAssumption DEF Types, LifecycleTypes, ProxyTypes
  <2>2. ASSUME NEW n \in Nodes
        PROVE  TableLives(assignments[n], assignments'[n], completed[n])
    <3>1. CASE n \in N
      BY <1>2, <2>1, <3>1, TableOf, EnqueueLedger DEF ReplaceHostAssignments
    <3>2. CASE n \notin N
      BY <1>2, <3>2, TableOf, SupersedeLedger DEF ReplaceHostAssignments
    <3> QED BY <3>1, <3>2
  <2> QED BY <1>2, <2>2, TablesLive DEF ReplaceHostAssignments
<1>3. ASSUME NEW p \in Planes, SupersedeHostAssignmentsForPlane(p)
      PROVE  LedgersLive
  <2>1. \A n \in Nodes : TableLives(assignments[n], assignments'[n], completed[n])
    BY <1>3, TableOf, SupersedeLedger DEF SupersedeHostAssignmentsForPlane
  <2> QED BY <1>3, <2>1, TablesLive DEF SupersedeHostAssignmentsForPlane
<1>4. ASSUME NEW p \in Planes, DeletePlane(p)
      PROVE  LedgersLive
  <2>1. \A n \in Nodes : TableLives(assignments[n], assignments'[n], completed[n])
    BY <1>4, TableOf, DeleteLedger DEF DeletePlane
  <2> QED BY <1>4, <2>1, TablesLive DEF DeletePlane
<1>5. ASSUME NEW r \in Requests, NEW t \in ProxyTypes, NEW n \in Nodes,
             SendHostdRuntimeProxyRequest(r, t, n)
      PROVE  LedgersLive
  <2>1. t \in Types /\ 0 \in 0..MaxGeneration
    BY MaxGenerationAssumption DEF Types
  <2>2. TableLives(assignments[n],
                   Append(SupersedePlane(assignments[n], r), InsertAssignment(r, 0, t)),
                   completed[n])
    BY <2>1, TableOf, EnqueueLedger
  <2> QED BY <1>5, <2>2, OneTableLives DEF SendHostdRuntimeProxyRequest
<1>6. ASSUME NEW n \in Nodes, NEW i \in DOMAIN assignments[n], RetryHostAssignment(n, i)
      PROVE  LedgersLive
  <2>1. TableLives(assignments[n], RetryFailedHostAssignment(assignments[n], i), completed[n])
    BY TableOf, RetryLedger
  <2> QED BY <1>6, <2>1, OneTableLives DEF RetryHostAssignment
<1>7. ASSUME NEW n \in Nodes, NEW i \in DOMAIN assignments[n], Reconcile(n, i)
      PROVE  LedgersLive
  <2> DEFINE st == ReconciledStatus(n, i)
  <2>1. st \in {"applied", "superseded"} /\ (st = "applied" => i \in completed[n])
    BY <1>7 DEF Reconcile, ReconciledStatus
  <2>2. assignments' = [assignments EXCEPT ![n] =
          TransitionClaimedHostAssignment(assignments[n], i, st, FALSE)]
    BY <1>7 DEF Reconcile
  <2> HIDE DEF st
  <2>3. TableLives(assignments[n],
                   TransitionClaimedHostAssignment(assignments[n], i, st, FALSE),
                   completed[n])
    BY <2>1, TableOf, TransitionLedger
  <2> QED BY <1>7, <2>2, <2>3, OneTableLives DEF Reconcile
<1> QED BY <1>1, <1>2, <1>3, <1>4, <1>5, <1>6, <1>7 DEF Controller

\* A poll is served.
LEMMA ServePollLives ==
  ASSUME IInv, NEW n \in Nodes, NEW m \in inflight[n], ServePoll(n, m)
  PROVE  LedgersLive
<1> DEFINE q == assignments[n]
           e == Expire(q)
<1>1. ASSUME NEW i \in DOMAIN q, ClaimedFirst(e, i), UNCHANGED completed,
             assignments' = [assignments EXCEPT ![n] = ClaimRow(e, i)]
      PROVE  LedgersLive
  <2>1. i \in Claimable(e)
    BY <1>1 DEF ClaimedFirst
  <2>2. TableLives(q, ClaimRow(e, i), completed[n])
    BY <2>1, TableOf, ClaimLedger
  <2> QED BY <1>1, <2>2, OneTableLives
<1>2. CASE PollFindsNothing(n, m)
  <2>1. TableLives(q, e, completed[n])
    BY TableOf, ExpireLedger
  <2> QED BY <1>2, <2>1, OneTableLives DEF PollFindsNothing
<1> QED BY <1>1, <1>2 DEF ServePoll, DeliverClaim, LoseClaim, ClaimResponseFails

\* A report takes effect.
LEMMA ReportLives ==
  ASSUME IInv, NEW n \in Nodes, NEW m \in inflight[n], m.kind \in Reports,
         UNCHANGED completed,
         assignments' = [assignments EXCEPT ![n] =
           TransitionClaimedHostAssignment(assignments[n], m.id,
                                           ReportedStatus(m.kind), m.tagged)]
  PROVE  LedgersLive
<1> DEFINE st == ReportedStatus(m.kind)
<1>1. /\ m.id \in DOMAIN assignments[n] /\ m.tagged \in BOOLEAN
      /\ m.kind = "applied" => m.id \in completed[n]
      /\ m.kind = "failed" => LastAttempt(assignments[n][m.id])
  BY TableOf DEF NodeInv, MsgInv, Message
<1>2. /\ st \in {"applied", "pending", "failed"}
      /\ st = "applied" => m.kind = "applied"
      /\ st = "failed" => m.kind = "failed"
  BY DEF ReportedStatus, Reports
<1> HIDE DEF st
<1>3. TableLives(assignments[n],
                 TransitionClaimedHostAssignment(assignments[n], m.id, st, m.tagged),
                 completed[n])
  BY <1>1, <1>2, TableOf, TransitionLedger
<1> QED BY <1>3, OneTableLives DEF st

\* Every step of the system takes every ledger one step further, or none.
LEMMA NextLives == IInv /\ [Next]_vars => LedgersLive
<1> SUFFICES ASSUME IInv, [Next]_vars PROVE LedgersLive
  OBVIOUS
<1>1. CASE Controller
  BY <1>1, ControllerLives
<1>2. CASE Clock
  <2>1. PICK n \in Nodes : \E i \in DOMAIN assignments[n] : LimitPasses(n, i)
    BY <1>2 DEF Clock
  <2>2. PICK i \in DOMAIN assignments[n] : LimitPasses(n, i)
    BY <2>1
  <2>3. TableLives(assignments[n], AgeRow(assignments[n], i), completed[n])
    BY TableOf, AgeLedger
  <2> QED BY <2>2, <2>3, OneTableLives DEF LimitPasses
<1>3. ASSUME NEW n \in Nodes, NEW s \in Slots, Hostd(n, s)
      PROVE  LedgersLive
  <2>1. CASE PublishAssignmentProgress(n, s)
    <3>1. proc[n][s].id \in DOMAIN assignments[n]
      BY <2>1, TableOf DEF PublishAssignmentProgress, NodeInv, ProcInv
    <3>2. TableLives(assignments[n],
                     UpdateHostAssignmentProgress(assignments[n], proc[n][s].id),
                     completed[n])
      BY <3>1, TableOf, ProgressLedger
    <3> QED BY <2>1, <3>2, OneTableLives DEF PublishAssignmentProgress
  <2>2. CASE FinishWork(n, s)
    <3>1. \A x \in Nodes : completed[x] \subseteq completed'[x]
      BY <2>2 DEF FinishWork, IInv, TypeOK
    <3> QED BY <2>2, <3>1, NoTableLives DEF FinishWork
  <2>3. CASE StartApplyNextAssignment(n, s) \/ FailWork(n, s) \/ Crash(n, s)
    BY <2>3, NoTableLives DEF StartApplyNextAssignment, FailWork, Crash
  <2> QED BY <1>3, <2>1, <2>2, <2>3 DEF Hostd
<1>4. ASSUME NEW n \in Nodes, NEW m \in inflight[n], Network(n, m)
      PROVE  LedgersLive
  <2>1. CASE ServePoll(n, m)
    BY <2>1, ServePollLives
  <2>2. CASE HandleReport(n, m)
    BY <2>2, ReportLives DEF HandleReport, ServeReport
  <2>3. CASE LoseReportAnswer(n, m)
    BY <2>3, ReportLives DEF LoseReportAnswer
  <2>4. CASE RejectReport(n, m) \/ LoseRequest(n, m) \/ ReportTimesOut(n, m)
    BY <2>4, NoTableLives DEF RejectReport, LoseRequest, FailRequest, ReportTimesOut
  <2> QED BY <1>4, <2>1, <2>2, <2>3, <2>4 DEF Network
<1>5. CASE UNCHANGED vars
  BY <1>5, NoTableLives DEF vars
<1> QED BY <1>1, <1>2, <1>3, <1>4, <1>5 DEF Next

\* The delivery of assignments implements the ledger: whatever is lost, late,
\* retried or killed, every row of host_assignments lives the life of a job, at
\* most one job is handed out at a time, and none is finished by a late report.
THEOREM Refinement == Spec => ImplementsLedger
<1>1. Init => Ledger!Init
  BY DEF Init, Ledger!Init, JobsOf
<1>2. IInv /\ [Next]_vars => [Ledger!Next]_(Ledger!vars)
  <2> SUFFICES ASSUME IInv, [Next]_vars PROVE Ledger!Next
    OBVIOUS
  <2>1. LedgersLive
    BY NextLives
  <2> QED BY <2>1 DEF LedgersLive, TableLives, Ledger!Next
<1> QED BY <1>1, <1>2, Invariance, PTL DEF Spec, ImplementsLedger, Ledger!Spec

-----------------------------------------------------------------------------
(* The order of claims.                                                     *)

\* What StatusRequestsWait says of the rows of a node before and after a step.
ClaimsInOrder(q, q2) ==
  \A i, j \in DOMAIN q :
    /\ q[i].type = "proxy:webgateway"
    /\ q2[i].attempts > q[i].attempts
    /\ q[j].type \in LifecycleTypes \cup {"proxy:interaction"}
    /\ q2[j].status = "pending"
    => q2[j].attempts >= q2[j].max

\* No row is claimed.
NoneClaimed(q, q2) == \A i \in DOMAIN q : q2[i].attempts = q[i].attempts

OrderKept == \A n \in Nodes : ClaimsInOrder(assignments[n], assignments'[n])

\* Without a claim there is nothing to order.
LEMMA NoneClaimedInOrder ==
  ASSUME NEW q \in Seq(Row), NEW q2, NoneClaimed(q, q2)
  PROVE  ClaimsInOrder(q, q2)
<1>1. \A i \in DOMAIN q : q[i].attempts \in Nat
  BY RowsOf DEF Row
<1> QED BY <1>1 DEF NoneClaimed, ClaimsInOrder

\* Writing a status is no claim.
LEMMA WriteClaimsNothing ==
  ASSUME NEW r \in Row, NEW st, NEW tag
  PROVE  Write(r, st, tag).attempts = r.attempts
BY DEF Write, Row

\* Nor are superseding, deleting and expiring rows,
LEMMA SweepsClaimNothing ==
  ASSUME NEW q \in Seq(Row), NEW p
  PROVE  /\ NoneClaimed(q, SupersedePlane(q, p)) /\ DOMAIN SupersedePlane(q, p) = DOMAIN q
         /\ NoneClaimed(q, DeletePlaneRows(q, p))
<1>1. \A i \in DOMAIN q : q[i] \in Row
  BY RowsOf
<1>2. NoneClaimed(q, SupersedePlane(q, p)) /\ DOMAIN SupersedePlane(q, p) = DOMAIN q
  BY <1>1, WriteClaimsNothing DEF NoneClaimed, SupersedePlane
<1>3. NoneClaimed(q, DeletePlaneRows(q, p))
  BY <1>1, WriteClaimsNothing DEF NoneClaimed, DeletePlaneRows
<1> QED BY <1>2, <1>3

\* nor the insertion of a row after the others were superseded,
LEMMA EnqueueClaimsNothing ==
  ASSUME NEW q \in Seq(Row), NEW p, NEW r
  PROVE  NoneClaimed(q, Append(SupersedePlane(q, p), r))
<1> DEFINE s == SupersedePlane(q, p)
<1>1. DOMAIN q = 1..Len(q) /\ Len(q) \in Nat
  OBVIOUS
<1>2. s = [i \in 1..Len(q) |-> s[i]]
  BY <1>1 DEF SupersedePlane
<1>3. NoneClaimed(q, s)
  BY SweepsClaimNothing
<1> HIDE DEF s
<1>4. Len(s) = Len(q)
  BY <1>1, <1>2
<1>5. \A i \in 1..Len(q) : Append(s, r)[i] = s[i]
  BY <1>1, <1>2, <1>4
<1> QED BY <1>1, <1>3, <1>5 DEF NoneClaimed, s

\* nor anything written to one row but a claim.
LEMMA UpdatesClaimNothing ==
  ASSUME NEW q \in Seq(Row), NEW i \in DOMAIN q, NEW st, NEW tag
  PROVE  /\ NoneClaimed(q, TransitionClaimedHostAssignment(q, i, st, tag))
         /\ NoneClaimed(q, UpdateHostAssignmentProgress(q, i))
         /\ NoneClaimed(q, RetryFailedHostAssignment(q, i))
         /\ NoneClaimed(q, AgeRow(q, i))
<1>1. q[i] \in Row
  BY RowsOf
<1>2. ASSUME NEW r, r.attempts = q[i].attempts
      PROVE  NoneClaimed(q, [q EXCEPT ![i] = r])
  BY <1>2 DEF NoneClaimed
<1>3. NoneClaimed(q, q)
  BY DEF NoneClaimed
<1>4. NoneClaimed(q, TransitionClaimedHostAssignment(q, i, st, tag))
  BY <1>1, <1>2, <1>3, WriteClaimsNothing DEF TransitionClaimedHostAssignment
<1>5. NoneClaimed(q, UpdateHostAssignmentProgress(q, i))
  <2>1. [q[i] EXCEPT !.stale = FALSE].attempts = q[i].attempts
    BY <1>1 DEF Row
  <2> QED BY <1>2, <1>3, <2>1 DEF UpdateHostAssignmentProgress
<1>6. NoneClaimed(q, RetryFailedHostAssignment(q, i))
  <2> DEFINE m == IF q[i].max < q[i].attempts + 1
                  THEN q[i].attempts + 1 ELSE q[i].max
             r == [Write(q[i], "pending", FALSE) EXCEPT !.max = m]
  <2>1. r.attempts = q[i].attempts
    BY <1>1 DEF Write, Row
  <2>2. RetryFailedHostAssignment(q, i) = IF q[i].status = "failed" THEN [q EXCEPT ![i] = r] ELSE q
    BY DEF RetryFailedHostAssignment
  <2> HIDE DEF r
  <2> QED BY <1>2, <1>3, <2>1, <2>2
<1>7. NoneClaimed(q, AgeRow(q, i))
  <2>1. [q[i] EXCEPT !.stale = TRUE].attempts = q[i].attempts
    BY <1>1 DEF Row
  <2> QED BY <1>2, <2>1 DEF AgeRow
<1> QED BY <1>4, <1>5, <1>6, <1>7

\* Expiry keeps the type and the attempts of a row.
LEMMA ExpireClaimsNothing ==
  ASSUME NEW q \in Seq(Row)
  PROVE  /\ DOMAIN Expire(q) = DOMAIN q
         /\ \A i \in DOMAIN q : /\ Expire(q)[i] \in Row
                                /\ Expire(q)[i].type = q[i].type
                                /\ Expire(q)[i].attempts = q[i].attempts
<1> DEFINE s == ExpireLeases(q)
<1>1. \A i \in DOMAIN q : q[i] \in Row
  BY RowsOf
<1>2. ASSUME NEW r \in Row, NEW st \in Statuses
      PROVE  LET w == Write(r, st, FALSE) IN
             w \in Row /\ w.type = r.type /\ w.attempts = r.attempts
  BY DEF Write, Row
<1>3. {"failed", "pending"} \subseteq Statuses
  BY DEF Statuses
<1>4. DOMAIN s = DOMAIN q
  BY DEF ExpireLeases
<1>5. \A i \in DOMAIN q : s[i] \in Row /\ s[i].type = q[i].type /\ s[i].attempts = q[i].attempts
  BY <1>1, <1>2, <1>3 DEF ExpireLeases
<1> HIDE DEF s
<1>6. Expire(q) = ExpireProxies(s)
  BY DEF Expire, s
<1>7. DOMAIN ExpireProxies(s) = DOMAIN q
  BY <1>4 DEF ExpireProxies
<1>8. ASSUME NEW i \in DOMAIN q
      PROVE  LET w == ExpireProxies(s)[i] IN
             w \in Row /\ w.type = s[i].type /\ w.attempts = s[i].attempts
  BY <1>2, <1>3, <1>4, <1>5 DEF ExpireProxies
<1> QED BY <1>5, <1>6, <1>7, <1>8

\* The row that a poll claims comes before the rows that go on waiting.
LEMMA ClaimInOrder ==
  ASSUME NEW q \in Seq(Row), NEW i, ClaimedFirst(Expire(q), i)
  PROVE  ClaimsInOrder(q, ClaimRow(Expire(q), i))
<1> DEFINE e == Expire(q)
           c == ClaimRow(e, i)
<1>1. /\ DOMAIN e = DOMAIN q /\ i \in DOMAIN q
      /\ \A j \in DOMAIN q : e[j] \in Row /\ e[j].type = q[j].type /\ e[j].attempts = q[j].attempts
  BY ExpireClaimsNothing DEF ClaimedFirst, Claimable
<1>2. \A j \in Claimable(e) : ClaimPriority(e[i]) <= ClaimPriority(e[j])
  <2>1. \A j \in DOMAIN e : ClaimPriority(e[j]) \in {0, 10, 20, 30}
    BY DEF ClaimPriority
  <2> QED BY <1>1, <2>1 DEF ClaimedFirst, Claimable
<1> HIDE DEF e
<1>3. c[i].status = "claimed" /\ \A j \in DOMAIN q \ {i} : c[j] = e[j]
  BY <1>1 DEF ClaimRow, Write, Row
<1> HIDE DEF c
<1> SUFFICES ASSUME NEW k \in DOMAIN q, NEW j \in DOMAIN q,
                    q[k].type = "proxy:webgateway", c[k].attempts > q[k].attempts,
                    q[j].type \in LifecycleTypes \cup {"proxy:interaction"},
                    c[j].status = "pending"
             PROVE  c[j].attempts >= c[j].max
  BY DEF ClaimsInOrder, e, c
<1>4. k = i
  <2>1. q[k].attempts \in Nat
    BY RowsOf DEF Row
  <2> QED BY <1>1, <1>3, <2>1
<1>5. c[j] = e[j] /\ e[j].status = "pending"
  BY <1>3
<1>6. ClaimPriority(e[i]) = 30 /\ ClaimPriority(e[j]) \in {0, 10}
  <2>1. e[i].type = "proxy:webgateway"
    BY <1>1, <1>4
  <2>2. e[j].type \in LifecycleTypes \cup {"proxy:interaction"}
    BY <1>1
  <2>3. ClaimPriority(e[i]) = 30
    BY <2>1 DEF ClaimPriority, LifecycleTypes
  <2>4. ClaimPriority(e[j]) \in {0, 10}
    BY <2>2 DEF ClaimPriority, LifecycleTypes
  <2> QED BY <2>3, <2>4
<1>7. j \notin Claimable(e)
  BY <1>2, <1>6
<1>8. e[j].attempts \in Nat /\ e[j].max \in Nat
  BY <1>1 DEF Row
<1> QED BY <1>1, <1>5, <1>7, <1>8 DEF Claimable

\* A step that changes the table of node n only.
LEMMA OneTableInOrder ==
  ASSUME IInv, NEW n \in Nodes, NEW q2,
         assignments' = [assignments EXCEPT ![n] = q2],
         ClaimsInOrder(assignments[n], q2)
  PROVE  OrderKept
<1>1. ASSUME NEW m \in Nodes
      PROVE  ClaimsInOrder(assignments[m], assignments'[m])
  <2>1. CASE m = n
    <3>1. assignments'[n] = q2
      BY DEF IInv, TypeOK
    <3> QED BY <2>1, <3>1
  <2>2. CASE m # n
    <3>1. assignments'[m] = assignments[m]
      BY <2>2 DEF IInv, TypeOK
    <3> QED BY <3>1, TableOf, NoneClaimedInOrder DEF NoneClaimed
  <2> QED BY <2>1, <2>2
<1> QED BY <1>1 DEF OrderKept

\* A step that claims nothing anywhere.
LEMMA NothingClaimed ==
  ASSUME IInv, \A n \in Nodes : NoneClaimed(assignments[n], assignments'[n])
  PROVE  OrderKept
BY TableOf, NoneClaimedInOrder DEF OrderKept

\* A step that writes one table and claims nothing there.
LEMMA NothingClaimedHere ==
  ASSUME IInv, NEW n \in Nodes, NEW q2,
         assignments' = [assignments EXCEPT ![n] = q2],
         NoneClaimed(assignments[n], q2)
  PROVE  OrderKept
BY TableOf, NoneClaimedInOrder, OneTableInOrder

\* The controller claims nothing.
LEMMA ControllerInOrder ==
  ASSUME IInv, Controller
  PROVE  OrderKept
<1>0. \A n \in Nodes : NoneClaimed(assignments[n], assignments[n])
  BY DEF NoneClaimed
<1>1. ASSUME NEW p \in Planes, NEW g, NEW N \in SUBSET Nodes, NEW t,
             EnqueueHostAssignments(p, g, t, N) \/ ReplaceHostAssignments(p, g, N)
      PROVE  OrderKept
  <2>1. ASSUME NEW n \in Nodes
        PROVE  NoneClaimed(assignments[n], assignments'[n])
    <3>1. assignments[n] \in Seq(Row)
      BY TableOf
    <3>2. \A r : NoneClaimed(assignments[n], Append(SupersedePlane(assignments[n], p), r))
      BY <3>1, EnqueueClaimsNothing
    <3>3. NoneClaimed(assignments[n], SupersedePlane(assignments[n], p))
      BY <3>1, SweepsClaimNothing
    <3> QED BY <1>0, <1>1, <3>2, <3>3 DEF EnqueueHostAssignments, ReplaceHostAssignments
  <2> QED BY <2>1, NothingClaimed
<1>2. ASSUME NEW p \in Planes, SupersedeHostAssignmentsForPlane(p) \/ DeletePlane(p)
      PROVE  OrderKept
  <2>1. ASSUME NEW n \in Nodes
        PROVE  NoneClaimed(assignments[n], assignments'[n])
    BY <1>2, TableOf, SweepsClaimNothing DEF SupersedeHostAssignmentsForPlane, DeletePlane
  <2> QED BY <2>1, NothingClaimed
<1>3. ASSUME NEW r \in Requests, NEW t, NEW n \in Nodes, SendHostdRuntimeProxyRequest(r, t, n)
      PROVE  OrderKept
  <2>1. NoneClaimed(assignments[n],
                    Append(SupersedePlane(assignments[n], r), InsertAssignment(r, 0, t)))
    BY TableOf, EnqueueClaimsNothing
  <2> QED BY <1>3, <2>1, NothingClaimedHere DEF SendHostdRuntimeProxyRequest
<1>4. ASSUME NEW n \in Nodes, NEW i \in DOMAIN assignments[n],
             RetryHostAssignment(n, i) \/ Reconcile(n, i)
      PROVE  OrderKept
  <2>1. /\ NoneClaimed(assignments[n], RetryFailedHostAssignment(assignments[n], i))
        /\ NoneClaimed(assignments[n],
             TransitionClaimedHostAssignment(assignments[n], i, ReconciledStatus(n, i), FALSE))
    BY TableOf, UpdatesClaimNothing
  <2>2. CASE RetryHostAssignment(n, i)
    BY <2>1, <2>2, NothingClaimedHere DEF RetryHostAssignment
  <2>3. CASE Reconcile(n, i)
    <3>1. assignments' = [assignments EXCEPT ![n] =
            TransitionClaimedHostAssignment(assignments[n], i, ReconciledStatus(n, i), FALSE)]
      BY <2>3 DEF Reconcile
    <3> QED BY <2>1, <3>1, NothingClaimedHere
  <2> QED BY <1>4, <2>2, <2>3
<1> QED BY <1>1, <1>2, <1>3, <1>4 DEF Controller

\* A poll claims in order; the other messages claim nothing.
LEMMA NetworkInOrder ==
  ASSUME IInv, NEW n \in Nodes, NEW m \in inflight[n], Network(n, m)
  PROVE  OrderKept
<1>0. assignments[n] \in Seq(Row)
  BY TableOf
<1>1. ASSUME NEW i \in DOMAIN assignments[n],
             DeliverClaim(n, m, i) \/ LoseClaim(n, m, i) \/ ClaimResponseFails(n, m, i)
      PROVE  OrderKept
  <2>1. /\ ClaimedFirst(Expire(assignments[n]), i)
        /\ assignments' = [assignments EXCEPT ![n] = ClaimRow(Expire(assignments[n]), i)]
    BY <1>1 DEF DeliverClaim, LoseClaim, ClaimResponseFails
  <2>2. ClaimsInOrder(assignments[n], ClaimRow(Expire(assignments[n]), i))
    BY <1>0, <2>1, ClaimInOrder
  <2> QED BY <2>1, <2>2, OneTableInOrder
<1>2. CASE PollFindsNothing(n, m)
  <2>1. NoneClaimed(assignments[n], Expire(assignments[n]))
    BY <1>0, ExpireClaimsNothing DEF NoneClaimed
  <2> QED BY <1>2, <2>1, NothingClaimedHere DEF PollFindsNothing
<1>3. ASSUME m.kind \in Reports,
             assignments' = [assignments EXCEPT ![n] =
               TransitionClaimedHostAssignment(assignments[n], m.id,
                                               ReportedStatus(m.kind), m.tagged)]
      PROVE  OrderKept
  <2>1. m.id \in DOMAIN assignments[n]
    BY <1>3, TableOf DEF NodeInv, MsgInv, Message
  <2>2. NoneClaimed(assignments[n],
          TransitionClaimedHostAssignment(assignments[n], m.id,
                                          ReportedStatus(m.kind), m.tagged))
    BY <1>0, <2>1, UpdatesClaimNothing
  <2> QED BY <1>3, <2>2, NothingClaimedHere
<1>4. CASE HandleReport(n, m) \/ LoseReportAnswer(n, m)
  BY <1>3, <1>4 DEF HandleReport, ServeReport, LoseReportAnswer
<1>5. CASE RejectReport(n, m) \/ LoseRequest(n, m) \/ ReportTimesOut(n, m)
  <2>1. UNCHANGED assignments
    BY <1>5 DEF RejectReport, LoseRequest, FailRequest, ReportTimesOut
  <2> QED BY <2>1, NothingClaimed DEF NoneClaimed
<1> QED BY <1>1, <1>2, <1>4, <1>5 DEF Network, ServePoll

\* Every step keeps the order of claims.
LEMMA NextInOrder == IInv /\ [Next]_vars => OrderKept
<1> SUFFICES ASSUME IInv, [Next]_vars PROVE OrderKept
  OBVIOUS
<1>1. CASE Clock
  <2>0. PICK n \in Nodes : \E i \in DOMAIN assignments[n] : LimitPasses(n, i)
    BY <1>1 DEF Clock
  <2>1. PICK i \in DOMAIN assignments[n] : LimitPasses(n, i)
    BY <2>0
  <2>2. NoneClaimed(assignments[n], AgeRow(assignments[n], i))
    BY TableOf, UpdatesClaimNothing
  <2> QED BY <2>1, <2>2, NothingClaimedHere DEF LimitPasses
<1>2. ASSUME NEW n \in Nodes, NEW s \in Slots, Hostd(n, s)
      PROVE  OrderKept
  <2>1. CASE PublishAssignmentProgress(n, s)
    <3>1. proc[n][s].id \in DOMAIN assignments[n]
      BY <2>1, TableOf DEF PublishAssignmentProgress, NodeInv, ProcInv
    <3>2. NoneClaimed(assignments[n],
                      UpdateHostAssignmentProgress(assignments[n], proc[n][s].id))
      BY <3>1, TableOf, UpdatesClaimNothing
    <3> QED BY <2>1, <3>2, NothingClaimedHere DEF PublishAssignmentProgress
  <2>2. CASE UNCHANGED assignments
    BY <2>2, NothingClaimed DEF NoneClaimed
  <2> QED BY <1>2, <2>1, <2>2 DEF Hostd, StartApplyNextAssignment, FinishWork, FailWork, Crash
<1>3. CASE UNCHANGED vars
  BY <1>3, NothingClaimed DEF NoneClaimed, vars
<1> QED BY <1>1, <1>2, <1>3, ControllerInOrder, NetworkInOrder DEF Next

\* A poll (ClaimNextHostAssignment) hands out no status request of the web gateway
\* while lifecycle work or an interaction that has attempts left goes on waiting, also
\* when the same poll has just put that row back because its lease ran out.
THEOREM StatusRequestsYield == Spec => StatusRequestsWait
<1> DEFINE Order == \A n \in Nodes : \A i, j \in DOMAIN assignments[n] :
                      /\ assignments[n][i].type = "proxy:webgateway"
                      /\ assignments'[n][i].attempts > assignments[n][i].attempts
                      /\ assignments[n][j].type \in LifecycleTypes \cup {"proxy:interaction"}
                      /\ assignments'[n][j].status = "pending"
                      => assignments'[n][j].attempts >= assignments'[n][j].max
<1>1. IInv /\ [Next]_vars => [Order]_vars
  BY NextInOrder DEF OrderKept, ClaimsInOrder
<1>2. [][Order]_vars => StatusRequestsWait
  BY PTL DEF StatusRequestsWait
<1> QED BY <1>1, <1>2, Invariance, PTL DEF Spec
=============================================================================
