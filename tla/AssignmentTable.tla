--------------------------- MODULE AssignmentTable ---------------------------
(***************************************************************************)
(* The host_assignments table of the controller's SQLite store             *)
(* (common/src/state/assignment_repository.cpp).  Every repository call is *)
(* one IMMEDIATE transaction, so it is written here as a function from the *)
(* rows of a node before the call to the rows after it.                    *)
(*                                                                         *)
(* The rows of one node form a sequence in insertion order; the position   *)
(* plays the part of the AUTOINCREMENT id.  The code compares ids only of  *)
(* rows of the same node (claim order, latest row of a node), so one       *)
(* sequence per node loses nothing.                                        *)
(***************************************************************************)
EXTENDS Naturals, Sequences

CONSTANTS
  Planes,        \* planes: the plane_name of the lifecycle assignments
  Requests,      \* proxied requests: each has a plane_name of its own
  MaxAttempts,   \* HostAssignment::max_attempts of a new row
  MaxGeneration  \* bound on desired_generation

ASSUME MaxAttemptsAssumption == MaxAttempts \in Nat \ {0}
ASSUME MaxGenerationAssumption == MaxGeneration \in Nat
\* plane names that start with "runtime-http-proxy:" are not names of planes
ASSUME RequestsAssumption == Planes \cap Requests = {}

\* HostAssignmentStatus, and "deleted" for a row that DELETE has removed: no
\* WHERE clause matches it any more, and AUTOINCREMENT never reuses its id.
Statuses == {"pending", "claimed", "applied", "failed", "superseded", "deleted"}
Active   == {"pending", "claimed"}

LifecycleTypes ==
  {"apply-node-state", "drain-node-state", "stop-plane-state",
   "delete-plane-state", "evict-workers"}

\* assignment_type 'runtime-http-proxy', told apart by the prefix of plane_name
ProxyTypes ==
  {"proxy:interaction", "proxy:skills", "proxy:knowledge-vault",
   "proxy:webgateway"}

Types == LifecycleTypes \cup ProxyTypes

\* A row.  "stale": updated_at is older than the limit that applies to the
\* status (60 s for a claimed row, 45 s for a pending proxy row).  "tagged":
\* status_message still carries the text the row was inserted with, which is
\* where an eviction keeps its rollout_action_id= and victims= tags.
Row == [plane      : Planes \cup Requests,
        generation : 0..MaxGeneration,
        type       : Types,
        status     : Statuses,
        attempts   : Nat,
        max        : Nat,
        stale      : BOOLEAN,
        tagged     : BOOLEAN]

-----------------------------------------------------------------------------
InsertAssignment(p, g, t) ==
  [plane |-> p, generation |-> g, type |-> t, status |-> "pending",
   attempts |-> 0, max |-> MaxAttempts, stale |-> FALSE, tagged |-> TRUE]

\* Every UPDATE of the repository writes status, status_message and updated_at.
Write(row, st, tag) ==
  [row EXCEPT !.status = st, !.tagged = tag, !.stale = FALSE]

\* Mutant: a claimed row is left alone.
SupersedePendingOnly(q, p) ==
  [i \in DOMAIN q |->
     IF q[i].plane = p /\ q[i].status = "pending"
     THEN Write(q[i], "superseded", FALSE)
     ELSE q[i]]

\* UPDATE ... WHERE plane_name = p AND status IN ('pending', 'claimed')
SupersedePlane(q, p) ==
  [i \in DOMAIN q |->
     IF q[i].plane = p /\ q[i].status \in Active
     THEN Write(q[i], "superseded", FALSE)
     ELSE q[i]]

\* Mutant: the rows outlive their plane.
KeepPlaneRows(q, p) == q

\* DELETE FROM host_assignments WHERE plane_name = p
DeletePlaneRows(q, p) ==
  [i \in DOMAIN q |->
     IF q[i].plane = p THEN Write(q[i], "deleted", FALSE) ELSE q[i]]

\* Mutant: a lease that ran out is a failure whatever the attempts.
ExpireLeasesToFailed(q) ==
  [i \in DOMAIN q |->
     IF q[i].status = "claimed" /\ q[i].stale
     THEN Write(q[i], "failed", FALSE) ELSE q[i]]

\* Mutant: leases never run out.
KeepLeases(q) == q

\* First UPDATE of ClaimNextHostAssignment: leases that ran out.
ExpireLeases(q) ==
  [i \in DOMAIN q |->
     IF q[i].status = "claimed" /\ q[i].stale
     THEN Write(q[i], IF q[i].attempts >= q[i].max THEN "failed" ELSE "pending",
                FALSE)
     ELSE q[i]]

\* Second UPDATE of ClaimNextHostAssignment: proxy rows nobody claimed in time.
ExpireProxies(q) ==
  [i \in DOMAIN q |->
     IF q[i].status = "pending" /\ q[i].type \in ProxyTypes /\ q[i].stale
     THEN Write(q[i], "failed", FALSE)
     ELSE q[i]]

Expire(q) == ExpireProxies(ExpireLeases(q))

\* Mutant: first come, first served.
ClaimPriorityById(row) == 0

\* ORDER BY CASE ... END ASC
ClaimPriority(row) ==
  CASE row.type \in LifecycleTypes       -> 0
    [] row.type = "proxy:webgateway"      -> 30
    [] row.type \in {"proxy:skills", "proxy:knowledge-vault"} -> 20
    [] OTHER                              -> 10

Claimable(q) ==
  {i \in DOMAIN q : q[i].status = "pending" /\ q[i].attempts < q[i].max}

\* i is the row that ORDER BY priority, id LIMIT 1 selects.
ClaimedFirst(q, i) ==
  /\ i \in Claimable(q)
  /\ \A j \in Claimable(q) :
       \/ ClaimPriority(q[i]) < ClaimPriority(q[j])
       \/ ClaimPriority(q[i]) = ClaimPriority(q[j]) /\ i <= j

\* Third UPDATE of ClaimNextHostAssignment.
ClaimRow(q, i) ==
  [q EXCEPT ![i] = [Write(q[i], "claimed", FALSE)
                      EXCEPT !.attempts = q[i].attempts + 1]]

UpdateHostAssignmentProgress(q, i) ==
  IF q[i].status = "claimed"
  THEN [q EXCEPT ![i] = [q[i] EXCEPT !.stale = FALSE]]
  ELSE q

\* Mutant: the WHERE clause forgets the status.
TransitionHostAssignment(q, i, st, tag) ==
  [q EXCEPT ![i] = Write(q[i], st, tag)]

TransitionClaimedHostAssignment(q, i, st, tag) ==
  IF q[i].status = "claimed"
  THEN [q EXCEPT ![i] = Write(q[i], st, tag)]
  ELSE q

RetryFailedHostAssignment(q, i) ==
  IF q[i].status = "failed"
  THEN [q EXCEPT ![i] =
          [Write(q[i], "pending", FALSE) EXCEPT
             !.max = IF q[i].max < q[i].attempts + 1
                     THEN q[i].attempts + 1 ELSE q[i].max]]
  ELSE q

\* The clock passes the limit of row i.
AgeRow(q, i) ==
  [q EXCEPT ![i] = [q[i] EXCEPT !.stale = TRUE]]

CanAge(row) ==
  /\ ~row.stale
  /\ \/ row.status = "claimed"
     \/ row.status = "pending" /\ row.type \in ProxyTypes

\* Row i is the newest row of its plane for its node.
IsLatest(q, i) == \A j \in DOMAIN q : q[j].plane = q[i].plane => j <= i
=============================================================================
