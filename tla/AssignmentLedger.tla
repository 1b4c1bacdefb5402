-------------------------- MODULE AssignmentLedger --------------------------
(***************************************************************************)
(* What the delivery of assignments promises to the rest of the controller, *)
(* without leases, locks, polls, reports or processes: each node has a       *)
(* ledger of jobs that only grows, and a job lives one life.  It is handed   *)
(* out at most as often as its budget allows, is done only if a process      *)
(* finished it, fails only when the budget is used up (a proxied request     *)
(* also when nobody took it in time), and once done or dropped it is never   *)
(* handed out again.  An operator may give a failed job one attempt more.    *)
(*                                                                           *)
(* AssignmentDelivery implements this specification.                         *)
(***************************************************************************)
EXTENDS Naturals

CONSTANTS
  Nodes,     \* every node has a ledger
  Budget     \* the attempts a new job may use

VARIABLES
  jobs,      \* jobs[n]: the ledger of node n, a function from numbers to jobs
  finished   \* finished[n]: the jobs some process of node n ran to the end

vars == <<jobs, finished>>

Kinds == {"lifecycle", "request"}

NewJob(kind) ==
  [state |-> "open", attempts |-> 0, budget |-> Budget, kind |-> kind]

\* The edges of a job's life, from job j to job k.
HandOut(j, k) ==
  /\ j.state \in {"open", "taken"}
  /\ j.attempts < j.budget
  /\ k = [j EXCEPT !.state = "taken", !.attempts = j.attempts + 1]

PutBack(j, k) == j.state = "taken" /\ k = [j EXCEPT !.state = "open"]

Complete(j, k, i, done) ==
  j.state = "taken" /\ i \in done /\ k = [j EXCEPT !.state = "done"]

GiveUp(j, k) ==
  j.state = "taken" /\ j.attempts >= j.budget /\ k = [j EXCEPT !.state = "failed"]

Lapse(j, k) ==
  j.state = "open" /\ j.kind = "request" /\ k = [j EXCEPT !.state = "failed"]

Drop(j, k) == j.state \in {"open", "taken"} /\ k = [j EXCEPT !.state = "dropped"]

Retry(j, k) ==
  /\ j.state = "failed"
  /\ k = [j EXCEPT !.state = "open",
                   !.budget = IF j.budget < j.attempts + 1 THEN j.attempts + 1 ELSE j.budget]

Remove(j, k) == k = [j EXCEPT !.state = "gone"]

\* i is the number of the job, done the jobs that were run to the end.
Lives(j, k, i, done) ==
  \/ k = j
  \/ HandOut(j, k) \/ PutBack(j, k) \/ Complete(j, k, i, done)
  \/ GiveUp(j, k) \/ Lapse(j, k) \/ Drop(j, k) \/ Retry(j, k) \/ Remove(j, k)

\* A ledger takes one step: every job one edge, at most one new job, behind the
\* others, and at most one job handed out.
LedgerStep(q, r, done) ==
  /\ DOMAIN q \subseteq DOMAIN r
  /\ \A i \in DOMAIN q : Lives(q[i], r[i], i, done)
  /\ \A i \in DOMAIN r \ DOMAIN q :
       /\ \E kind \in Kinds : r[i] = NewJob(kind)
       /\ \A k \in DOMAIN q : k < i
  /\ \A i, k \in DOMAIN r \ DOMAIN q : i = k
  /\ \A i, k \in DOMAIN q :
       r[i].attempts > q[i].attempts /\ r[k].attempts > q[k].attempts => i = k

Init ==
  /\ \A n \in Nodes : DOMAIN jobs[n] = {}
  /\ finished = [n \in Nodes |-> {}]

Next ==
  \A n \in Nodes :
    /\ finished[n] \subseteq finished'[n]
    /\ LedgerStep(jobs[n], jobs'[n], finished'[n])

Spec == Init /\ [][Next]_vars
=============================================================================
