-------------------------- MODULE AssignmentDelivery --------------------------
(***************************************************************************)
(* How an assignment reaches a node, runs there and is reported back.      *)
(*                                                                         *)
(* The controller serves every HTTP request in a thread of its own         *)
(* (controller_http_server.cpp), so a request that hostd has given up on   *)
(* may still take effect later.  A hostd process                           *)
(* (hostd_assignment_service.cpp) takes a per-node file lock, long-polls   *)
(* for one assignment, runs it, reports the outcome and exits; it may be   *)
(* killed at any point, which releases the lock but neither the claimed    *)
(* row nor its requests in flight.                                         *)
(***************************************************************************)
EXTENDS AssignmentTable, FiniteSets

CONSTANTS
  Nodes,         \* node_name
  Slots,         \* hostd processes of a node that may run side by side
  NoSlot,        \* "no process": a free lock, a request whose sender is gone
  EnqueuedTypes, \* the types of assignment the controller enqueues
  MaxRows,       \* bound on the rows of a node
  MaxInflight,   \* bound on the requests in flight of a node when hostd is started
  MaxRetries     \* bound on max: MaxAttempts + operator retries

ASSUME SlotsAssumption == NoSlot \notin Slots
ASSUME EnqueuedTypesAssumption == EnqueuedTypes \subseteq Types
ASSUME BoundsAssumption == MaxRows \in Nat /\ MaxRetries \in Nat

VARIABLES
  assignments,   \* [Nodes -> Seq(Row)]: the host_assignments table
  lock,          \* [Nodes -> Slots \cup {NoSlot}]: holder of the flock of the node
  proc,          \* [Nodes -> [Slots -> Process]]: hostd apply-next-assignment
  inflight,      \* [Nodes -> SUBSET Message]: requests the controller still holds
  completed      \* [Nodes -> SUBSET Nat]: history, rows some process ran to the end

vars == <<assignments, lock, proc, inflight, completed>>

Reports == {"applied", "retry", "failed"}

\* slot = NoSlot: the sender is dead or has stopped waiting.
Message == [kind : {"poll"} \cup Reports, slot : Slots \cup {NoSlot},
            id : Nat, tagged : BOOLEAN]

\* The copy of the claimed row a process works from, and where it is.
Process == [phase : {"idle", "polling", "executing", "reporting"},
            id : Nat, attempts : Nat, max : Nat, tagged : BOOLEAN,
            sent : Reports \cup {"none"}]

Idle == [phase |-> "idle", id |-> 0, attempts |-> 0, max |-> 0,
         tagged |-> FALSE, sent |-> "none"]

Poll(s) == [kind |-> "poll", slot |-> s, id |-> 0, tagged |-> FALSE]

Report(k, s, c) == [kind |-> k, slot |-> s, id |-> c.id, tagged |-> c.tagged]

Orphan(m) == [m EXCEPT !.slot = NoSlot]

Init ==
  /\ assignments = [n \in Nodes |-> << >>]
  /\ lock = [n \in Nodes |-> NoSlot]
  /\ proc = [n \in Nodes |-> [s \in Slots |-> Idle]]
  /\ inflight = [n \in Nodes |-> {}]
  /\ completed = [n \in Nodes |-> {}]

-----------------------------------------------------------------------------
(* The controller's side of the table: calls made by plane, scheduler and  *)
(* interaction services, here at any time and for any nodes.               *)

EnqueueHostAssignments(p, g, t, N) ==
  /\ \A n \in N : Len(assignments[n]) < MaxRows
  /\ assignments' =
       [n \in Nodes |->
          IF n \in N
          THEN Append(SupersedePlane(assignments[n], p), InsertAssignment(p, g, t))
          ELSE assignments[n]]
  /\ UNCHANGED <<lock, proc, inflight, completed>>

ReplaceHostAssignments(p, g, N) ==
  /\ \A n \in N : Len(assignments[n]) < MaxRows
  /\ assignments' =
       [n \in Nodes |->
          IF n \in N
          THEN Append(SupersedePlane(assignments[n], p),
                      InsertAssignment(p, g, "apply-node-state"))
          ELSE SupersedePlane(assignments[n], p)]
  /\ UNCHANGED <<lock, proc, inflight, completed>>

SupersedeHostAssignmentsForPlane(p) ==
  /\ assignments' = [n \in Nodes |-> SupersedePlane(assignments[n], p)]
  /\ UNCHANGED <<lock, proc, inflight, completed>>

\* The plane leaves the registry, and its rows with it.
DeletePlane(p) ==
  /\ assignments' = [n \in Nodes |-> DeletePlaneRows(assignments[n], p)]
  /\ UNCHANGED <<lock, proc, inflight, completed>>

\* A claimed apply-node-state row is superseded when a newer row of its plane
\* replaced it; the latest one is marked applied when the last observation of
\* the node says so.  Only a process that has run row i to the end reports it
\* as applied; which observation the store holds now is left open.
ReconciledStatus(n, i) ==
  IF ~IsLatest(assignments[n], i) THEN "superseded"
  ELSE IF i \in completed[n] THEN "applied" ELSE "claimed"

Reconcile(n, i) ==
  /\ assignments[n][i].status = "claimed"
  /\ assignments[n][i].type = "apply-node-state"
  /\ ReconciledStatus(n, i) # "claimed"
  /\ assignments' = [assignments EXCEPT ![n] =
       TransitionClaimedHostAssignment(@, i, ReconciledStatus(n, i), FALSE)]
  /\ UNCHANGED <<lock, proc, inflight, completed>>

\* A proxied runtime request: a row of its own plane name, so that
\* EnqueueHostAssignments finds nothing to supersede.
SendHostdRuntimeProxyRequest(r, t, n) ==
  /\ Len(assignments[n]) < MaxRows
  /\ \A m \in Nodes : \A i \in DOMAIN assignments[m] : assignments[m][i].plane # r
  /\ assignments' =
       [assignments EXCEPT ![n] =
          Append(SupersedePlane(assignments[n], r), InsertAssignment(r, 0, t))]
  /\ UNCHANGED <<lock, proc, inflight, completed>>

\* The code also compares the row's generation with that of the newest plane
\* and may refuse; the planes are not part of this module, so it may not.
RetryHostAssignment(n, i) ==
  /\ assignments[n][i].status = "failed"
  /\ assignments[n][i].attempts < MaxRetries
  /\ assignments' =
       [assignments EXCEPT ![n] = RetryFailedHostAssignment(assignments[n], i)]
  /\ UNCHANGED <<lock, proc, inflight, completed>>

\* 60 s without an update of a claimed row, 45 s of a pending proxy row.
LimitPasses(n, i) ==
  /\ CanAge(assignments[n][i])
  /\ assignments' = [assignments EXCEPT ![n] = AgeRow(assignments[n], i)]
  /\ UNCHANGED <<lock, proc, inflight, completed>>

-----------------------------------------------------------------------------
(* hostd: one process from the lock to the exit.                           *)

\* The process of slot s ends; the kernel drops its flock.
ExitProcess(n, s) ==
  /\ proc' = [proc EXCEPT ![n][s] = Idle]
  /\ lock' = [lock EXCEPT ![n] = NoSlot]

\* Mutant: the lock is not taken into account.
StartWithoutLock(n, s) ==
  /\ proc[n][s].phase = "idle"
  /\ Cardinality(inflight[n]) < MaxInflight
  /\ lock' = [lock EXCEPT ![n] = s]
  /\ proc' = [proc EXCEPT ![n][s] = [Idle EXCEPT !.phase = "polling"]]
  /\ inflight' = [inflight EXCEPT ![n] = @ \cup {Poll(s)}]
  /\ UNCHANGED <<assignments, completed>>

\* HostdAssignmentLock::TryAcquire succeeds, and the poll is sent.
StartApplyNextAssignment(n, s) ==
  /\ proc[n][s].phase = "idle"
  /\ Cardinality(inflight[n]) < MaxInflight
  /\ lock[n] = NoSlot
  /\ lock' = [lock EXCEPT ![n] = s]
  /\ proc' = [proc EXCEPT ![n][s] = [Idle EXCEPT !.phase = "polling"]]
  /\ inflight' = [inflight EXCEPT ![n] = @ \cup {Poll(s)}]
  /\ UNCHANGED <<assignments, completed>>

\* The sender of m, if it still waits, sees its request fail.
PollFails(n, m) ==
  IF m.slot = NoSlot THEN UNCHANGED <<proc, lock>> ELSE ExitProcess(n, m.slot)

\* HandleNextAssignment claims row i and the answer arrives.
DeliverClaim(n, m, i) ==
  LET q == Expire(assignments[n]) IN
  /\ m.kind = "poll" /\ m.slot # NoSlot
  /\ ClaimedFirst(q, i)
  /\ assignments' = [assignments EXCEPT ![n] = ClaimRow(q, i)]
  /\ proc' = [proc EXCEPT ![n][m.slot] =
       [Idle EXCEPT !.phase = "executing", !.id = i,
                    !.attempts = q[i].attempts + 1, !.max = q[i].max,
                    !.tagged = q[i].tagged]]
  /\ inflight' = [inflight EXCEPT ![n] = @ \ {m}]
  /\ UNCHANGED <<lock, completed>>

\* The row is claimed and the answer is lost, or nobody waits for it any more.
LoseClaim(n, m, i) ==
  LET q == Expire(assignments[n]) IN
  /\ m.kind = "poll"
  /\ ClaimedFirst(q, i)
  /\ assignments' = [assignments EXCEPT ![n] = ClaimRow(q, i)]
  /\ inflight' = [inflight EXCEPT ![n] = @ \ {m}]
  /\ PollFails(n, m)
  /\ UNCHANGED completed

\* Building the answer throws after the claim: the catch block of the handler
\* is going to put the row back, in a transaction of its own.
ClaimResponseFails(n, m, i) ==
  LET q == Expire(assignments[n]) IN
  /\ m.kind = "poll"
  /\ ClaimedFirst(q, i)
  /\ assignments' = [assignments EXCEPT ![n] = ClaimRow(q, i)]
  /\ inflight' = [inflight EXCEPT ![n] =
       (@ \ {m}) \cup {[kind |-> "retry", slot |-> NoSlot, id |-> i,
                         tagged |-> FALSE]}]
  /\ PollFails(n, m)
  /\ UNCHANGED completed

\* One round of the poll loop with nothing to claim; the loop goes on or ends.
PollFindsNothing(n, m) ==
  LET q == Expire(assignments[n]) IN
  /\ m.kind = "poll"
  /\ Claimable(q) = {}
  /\ assignments' = [assignments EXCEPT ![n] = q]
  /\ \/ UNCHANGED <<inflight, proc, lock>>
     \/ /\ inflight' = [inflight EXCEPT ![n] = @ \ {m}]
        /\ PollFails(n, m)
  /\ UNCHANGED completed

\* PublishAssignmentProgress while the work goes on: renews the lease.
PublishAssignmentProgress(n, s) ==
  /\ proc[n][s].phase = "executing"
  /\ assignments' = [assignments EXCEPT ![n] =
       UpdateHostAssignmentProgress(assignments[n], proc[n][s].id)]
  /\ UNCHANGED <<lock, proc, inflight, completed>>

\* The transition the catch block asks for: another attempt while there is one.
FailureReport(c) == IF c.attempts < c.max THEN "retry" ELSE "failed"

SendReport(n, s, k) ==
  /\ proc' = [proc EXCEPT ![n][s].phase = "reporting", ![n][s].sent = k]
  /\ inflight' = [inflight EXCEPT ![n] = @ \cup {Report(k, s, proc[n][s])}]

\* The work ends well, and the transition to Applied is sent.
FinishWork(n, s) ==
  /\ proc[n][s].phase = "executing"
  /\ completed' = [completed EXCEPT ![n] = @ \cup {proc[n][s].id}]
  /\ SendReport(n, s, "applied")
  /\ UNCHANGED <<assignments, lock>>

\* The work throws, and the catch block reports it.
FailWork(n, s) ==
  /\ proc[n][s].phase = "executing"
  /\ SendReport(n, s, FailureReport(proc[n][s]))
  /\ UNCHANGED <<assignments, lock, completed>>

\* Mutant: the name of the action is stored as the status.
ReportedStatusAsSent(k) == k

\* Mutant: every report without retry counts as a success.
ReportedStatusOptimistic(k) == IF k = "retry" THEN "pending" ELSE "applied"

\* HandleAssignmentAction; TransitionClaimedHostAssignment ignores a row that
\* is not claimed.
ReportedStatus(k) ==
  CASE k = "applied" -> "applied" [] k = "retry" -> "pending" [] OTHER -> "failed"

ServeReport(n, m) ==
  /\ assignments' = [assignments EXCEPT ![n] =
       TransitionClaimedHostAssignment(assignments[n], m.id,
                                       ReportedStatus(m.kind), m.tagged)]
  /\ inflight' = [inflight EXCEPT ![n] = @ \ {m}]

HandleReport(n, m) ==
  /\ m.kind \in Reports
  /\ assignments[n][m.id].status # "deleted"
  /\ ServeReport(n, m)
  /\ PollFails(n, m)
  /\ UNCHANGED completed

\* The report sent by slot s fails from where hostd stands: after "applied" the
\* catch block runs and reports a failure; after that the process exits.
ReportThrows(n, s, rest) ==
  IF proc[n][s].sent = "applied"
  THEN LET k == FailureReport(proc[n][s]) IN
       /\ proc' = [proc EXCEPT ![n][s].sent = k]
       /\ inflight' = [inflight EXCEPT ![n] =
                         rest \cup {Report(k, s, proc[n][s])}]
       /\ UNCHANGED lock
  ELSE /\ inflight' = [inflight EXCEPT ![n] = rest]
       /\ ExitProcess(n, s)

\* The report takes effect and its answer is lost.
LoseReportAnswer(n, m) ==
  /\ m.kind \in Reports /\ m.slot # NoSlot
  /\ assignments' = [assignments EXCEPT ![n] =
       TransitionClaimedHostAssignment(assignments[n], m.id,
                                       ReportedStatus(m.kind), m.tagged)]
  /\ ReportThrows(n, m.slot, inflight[n] \ {m})
  /\ UNCHANGED completed

\* A request that has no effect: its sender sees it fail.
FailRequest(n, m) ==
  /\ IF m.kind = "poll" \/ m.slot = NoSlot
     THEN /\ inflight' = [inflight EXCEPT ![n] = @ \ {m}]
          /\ PollFails(n, m)
     ELSE ReportThrows(n, m.slot, inflight[n] \ {m})
  /\ UNCHANGED <<assignments, completed>>

\* A request is lost before the controller acts on it.
LoseRequest(n, m) == FailRequest(n, m)

\* 404: the row of the report has been deleted.
RejectReport(n, m) ==
  /\ m.kind \in Reports
  /\ assignments[n][m.id].status = "deleted"
  /\ FailRequest(n, m)

\* hostd stops waiting for the answer to its report, which stays in flight.
ReportTimesOut(n, m) ==
  /\ m.kind \in Reports /\ m.slot # NoSlot
  /\ ReportThrows(n, m.slot, (inflight[n] \ {m}) \cup {Orphan(m)})
  /\ UNCHANGED <<assignments, completed>>

\* The process is killed; what it sent may still arrive.
Crash(n, s) ==
  /\ proc[n][s].phase # "idle"
  /\ ExitProcess(n, s)
  /\ inflight' = [inflight EXCEPT ![n] =
       {IF m.slot = s THEN Orphan(m) ELSE m : m \in @}]
  /\ UNCHANGED <<assignments, completed>>

-----------------------------------------------------------------------------
Controller ==
  \/ \E p \in Planes, g \in 0..MaxGeneration, N \in (SUBSET Nodes) \ {{}} :
       \/ \E t \in EnqueuedTypes \cap LifecycleTypes : EnqueueHostAssignments(p, g, t, N)
       \/ ReplaceHostAssignments(p, g, N)
  \/ \E p \in Planes : SupersedeHostAssignmentsForPlane(p) \/ DeletePlane(p)
  \/ \E r \in Requests, t \in EnqueuedTypes \cap ProxyTypes, n \in Nodes :
       SendHostdRuntimeProxyRequest(r, t, n)
  \/ \E n \in Nodes : \E i \in DOMAIN assignments[n] :
       RetryHostAssignment(n, i) \/ Reconcile(n, i)

Clock == \E n \in Nodes : \E i \in DOMAIN assignments[n] : LimitPasses(n, i)

ServePoll(n, m) ==
  \/ \E i \in DOMAIN assignments[n] :
       \/ DeliverClaim(n, m, i)
       \/ LoseClaim(n, m, i)
       \/ ClaimResponseFails(n, m, i)
  \/ PollFindsNothing(n, m)

Hostd(n, s) ==
  \/ StartApplyNextAssignment(n, s)
  \/ PublishAssignmentProgress(n, s)
  \/ FinishWork(n, s)
  \/ FailWork(n, s)
  \/ Crash(n, s)

Network(n, m) ==
  \/ ServePoll(n, m)
  \/ HandleReport(n, m)
  \/ RejectReport(n, m)
  \/ LoseReportAnswer(n, m)
  \/ LoseRequest(n, m)
  \/ ReportTimesOut(n, m)

Next ==
  \/ Controller
  \/ Clock
  \/ \E n \in Nodes, s \in Slots : Hostd(n, s)
  \/ \E n \in Nodes : \E m \in inflight[n] : Network(n, m)

Spec == Init /\ [][Next]_vars

-----------------------------------------------------------------------------
(* The abstract specification.                                             *)

JobState(status) ==
  CASE status = "pending" -> "open"   [] status = "claimed" -> "taken"
    [] status = "applied" -> "done"   [] status = "failed" -> "failed"
    [] status = "superseded" -> "dropped" [] OTHER -> "gone"

JobOf(r) ==
  [state |-> JobState(r.status), attempts |-> r.attempts, budget |-> r.max,
   kind |-> IF r.type \in ProxyTypes THEN "request" ELSE "lifecycle"]

\* A row is a job: generation, tags and leases are left out.
JobsOf(q) == [i \in DOMAIN q |-> JobOf(q[i])]

Ledger == INSTANCE AssignmentLedger WITH
  Budget <- MaxAttempts,
  jobs <- [n \in Nodes |-> JobsOf(assignments[n])],
  finished <- completed

\* The table, the polls and the reports implement the ledger: every step of the
\* controller, of hostd and of the network takes each row along one edge of a
\* job's life, or leaves it alone.
ImplementsLedger == Ledger!Spec

-----------------------------------------------------------------------------
(* Properties.                                                             *)

\* The type invariant.
TypeOK ==
  /\ assignments \in [Nodes -> Seq(Row)]
  /\ lock \in [Nodes -> Slots \cup {NoSlot}]
  /\ proc \in [Nodes -> [Slots -> Process]]
  /\ inflight \in [Nodes -> SUBSET Message]
  /\ completed \in [Nodes -> SUBSET Nat]

\* A row is marked applied only if some hostd process ran it to the end: no
\* lost answer, late report or second attempt makes the controller believe in
\* work that nobody finished (HandleAssignmentAction, TransitionClaimed...).
AppliedWasCompleted ==
  \A n \in Nodes : \A i \in DOMAIN assignments[n] :
    assignments[n][i].status = "applied" => i \in completed[n]

\* A lifecycle assignment is given up only when its attempts are used up, even
\* when the report of an older attempt arrives after an operator's retry.
FailedIsExhausted ==
  \A n \in Nodes : \A i \in DOMAIN assignments[n] :
    LET r == assignments[n][i] IN
    r.status = "failed" /\ r.type \in LifecycleTypes => r.attempts >= r.max

\* Enqueue and Replace leave one live row per (plane, node).  An older row is
\* live beside a newer one only when an operator put it back with
\* RetryHostAssignment, which raised its max_attempts.
OlderActiveRowWasRetried ==
  \A n \in Nodes : \A i, j \in DOMAIN assignments[n] :
    /\ i < j
    /\ assignments[n][i].plane = assignments[n][j].plane
    /\ assignments[n][i].status \in Active
    /\ assignments[n][j].status \in Active
    => assignments[n][i].max > MaxAttempts

\* The file lock: two hostd processes never work for one node at a time.
OneProcessPerNode ==
  \A n \in Nodes : \A s, t \in Slots :
    proc[n][s].phase # "idle" /\ proc[n][t].phase # "idle" => s = t

\* A superseded or applied row never changes again, whatever reports of its
\* earlier attempts are still in flight, until its plane is deleted; and no
\* late report brings a deleted row back.
FinalRowsStay ==
  [][\A n \in Nodes : \A i \in DOMAIN assignments[n] :
       assignments[n][i].status \in {"applied", "superseded", "deleted"}
         => \/ assignments'[n][i] = assignments[n][i]
            \/ assignments'[n][i].status = "deleted"]_vars

\* A row without attempts left does not stay queued: ClaimNextHostAssignment
\* would pass it over for ever ("exhausted expired claim should be marked
\* failed", assignment_repository_tests.cpp).
ExhaustedIsNotPending ==
  \A n \in Nodes : \A i \in DOMAIN assignments[n] :
    assignments[n][i].status = "pending"
      => assignments[n][i].attempts < assignments[n][i].max

\* hostd is never handed a webgateway status request while a lifecycle
\* assignment or an interaction request that has attempts left goes on waiting
\* for the same node ("interaction proxy should claim before webgateway status
\* proxy", assignment_repository_tests.cpp).
StatusRequestsWait ==
  [][\A n \in Nodes : \A i, j \in DOMAIN assignments[n] :
       /\ assignments[n][i].type = "proxy:webgateway"
       /\ assignments'[n][i].attempts > assignments[n][i].attempts
       /\ assignments[n][j].type \in LifecycleTypes \cup {"proxy:interaction"}
       /\ assignments'[n][j].status = "pending"
       => assignments'[n][j].attempts >= assignments'[n][j].max]_vars

\* What the code's scheduling gives: the launcher starts hostd again after
\* every exit; work ends (its waits have time limits); clocks run; the network
\* is never down for good, so that a poll and a report get through again and
\* again; a handler thread of the controller finishes.
Fairness ==
  \A n \in Nodes :
    /\ WF_vars(\E s \in Slots : StartApplyNextAssignment(n, s))
    /\ WF_vars(\E s \in Slots : FinishWork(n, s) \/ FailWork(n, s))
    /\ \A i \in 1..MaxRows :
         WF_vars(i \in DOMAIN assignments[n] /\ LimitPasses(n, i))
    /\ SF_vars(\E m \in inflight[n] : ServePoll(n, m))
    /\ WF_vars(\E m \in inflight[n] : HandleReport(n, m) \/ RejectReport(n, m))

FairSpec == Spec /\ Fairness

Settled(r) == r.status \notin Active

\* Every assignment is decided in the end (applied, failed or superseded) in
\* spite of crashes, lost answers and late reports, unless it is left pending
\* without attempts (ExhaustedIsNotPending).
EventuallySettles ==
  \A n \in Nodes : \A i \in 1..MaxRows :
    (i \in DOMAIN assignments[n])
      ~> (/\ i \in DOMAIN assignments[n]
          /\ LET r == assignments[n][i]
             IN Settled(r) \/ (r.status = "pending" /\ r.attempts >= r.max))
=============================================================================
