# naim-node: a TLA+ model of the control plane

naim-node runs AI workloads ("planes") on a set of nodes. A **controller** keeps
the desired state in SQLite and turns it into **host assignments**; a **hostd**
on every node claims assignments, changes the node and reports back. This
directory models that core, the services around it that keep state of their own
(scheduler, host sessions, model files, telemetry, the knowledge service, stored
conversations), and the documents planes are stored as. TLC checks small instances. For
every size, TLAPS proves the safety of the delivery and that it implements an abstract
ledger of jobs, and the safety invariants of the plane lifecycle, the scheduler, host
sessions, model files and jobs, node application, and the knowledge store (section 4).

## 1. The system

### Components, their state and their operations

| Component | State | Operations that change it |
|---|---|---|
| Assignment table (`common/src/state/assignment_repository.cpp`) | rows `host_assignments`: plane, generation, type, status, attempts, limits, age | replace, enqueue, supersede, claim (with lease and proxy expiry), progress, conditional transition, retry |
| Plane lifecycle (`controller/src/plane/plane_service.cpp`, `plane_realization_service.cpp`) | `planes`: state, generation, applied generation, nodes | start, stop, delete, finalize |
| Desired state and bundles (`desired_state_repository.cpp`, `bundle_cli_service.cpp`) | the desired state of a plane | apply (stages a new generation) |
| Orchestration (`assignment_orchestration_service.cpp`) | `node_availability_overrides` | set availability (drain, resync), retry a row |
| Registry listing (`plane_registry_service.cpp`) | none of its own | finalizes deletions, raises the applied generation, reconciles |
| Reconciliation (`host_assignment_reconciliation_service.cpp`) | none of its own | settles claimed rows from observations |
| Controller HTTP (`hostd_http_service.cpp`) | `host_observations`, host sessions, telemetry | next assignment (long poll), applied / failed / progress, observations |
| hostd loop (`hostd_assignment_service.cpp`, `hostd_assignment_lock.cpp`) | a lock file per node, the copy of one row | poll, run, report, exit |
| hostd state application (`hostd_desired_state_apply_support.cpp`, `hostd_desired_state_apply_plan_support.cpp`, `hostd_local_state_repository.cpp`) | disks, compose files and containers of each plane; local state and generation files per plane and an aggregate of both | apply a node state: plan, disks, model, compose, containers, record |
| Runtime proxy (`interaction_http_support.cpp`) | proxy rows in the same table | enqueue a request, wait 30 s |
| Launcher (`launcher_run_service.cpp`) | child processes | starts hostd again and again, heartbeats in between |
| Scheduler and rollout (`controller/src/scheduler`) | rollout actions, scheduler runtime, worker cool-downs | rebalance, evict, verify, roll back, give up, retry a placement |
| Host registry and sessions (`hostd_http_service.cpp`, `host_registry_service.cpp`, `http_hostd_backend.cpp`) | one row per host: session token, two sequence numbers, roles | open, every encrypted request, revoke, rotate key, reset onboarding, storage role |
| Model files of planes (`hostd_bootstrap_model_support.cpp`, `hostd_peer_service.cpp`) | target and `.part` file on the node, relay rows | manifest and chunk requests, direct or relayed, verification |
| Model library (`model_library_service.cpp`, `model_conversion_service.cpp`) | job rows, active and stop sets in memory, files | enqueue, run, stop, resume, hide, delete, resume after a restart |
| Telemetry (`controller/src/telemetry`, `controller_http_server.cpp`, `telemetryStore.js`) | newest frames per node in memory, newest of all in the database; a cursor per stream; the last number and SSE id of a browser | upsert, prune, stream (snapshot, delta, frames), resume, restart |
| Desired-state documents (`desired_state_v2_*`, `state_json.cpp`, placement and scheduling policy) | `planes.desired_state_json` | upsert, edit, move of the scheduler; load = validate + render |
| Knowledge service (`runtime/knowledge`) | RocksDB tables of blocks, index, heads, relations, sources, overlays, checkpoints, reviews | writes, deletions, cleanup, repair, ingest, overlays, merges, reviews |
| Stored conversations (`interaction_conversation_service.cpp`, `interaction_conversation_archive_service.cpp`, `interaction_repository.cpp`) | a versioned row per session, its messages, an archive record and an archive file | request (prepare, restore, persist), sweep into archives, delete |
| Skills, browsing, voice, shaping of model requests, auth, UI, runtime images | feature state | not part of the control protocol |

Components meet in four places: the assignment table (every controller service
writes it, hostd claims from it), the one observation row per node (hostd writes
it best-effort, deletion, listing and reconciliation read it), the planes table,
and the node itself. The controller serves each request in its own thread and
every repository call is its own SQLite transaction; a command is therefore a
sequence of writes that others can interleave with.

### What is hard

* Delivery: the claim commits before its answer is sent; leases expire while
  work goes on; reports are lost, repeated or late; hostd is killed anywhere.
* Operator retries revive an old row beside a newer one.
* Commands work on what they loaded first, over several transactions.
* One observation row per node is shared by all its planes, and its
  generation is the largest of theirs.
* Deletion ends on evidence (no live rows, idle and empty observations), not on
  an acknowledgement.
* A node is changed in many steps and recorded in a last one; the next plan is
  the difference to the record, not to the node.
* Session rows, job rows and knowledge records are loaded, changed and written
  back whole by parallel threads without a lock.
* A plane is stored as a document that is validated and rendered at every load.
* Telemetry is numbered by the clocks of the nodes and read with one cursor; the
  store changes between any two calls of a stream.
* A conversation is a row with a version and messages without one, written in two
  transactions; any request may sweep it into an archive file.

`PROJECT.json` lists each hazard at its line with the properties that cover it.

### What makes each component correct

* Table and hostd loop: a row says *applied* only of finished work, *failed*
  only of exhausted work; settled rows stay settled; one process per node; every
  row is decided in the end.
* Lifecycle: the newest applied row describes the node; a plane that left the
  registry left the nodes; staged generations wait for a start; a stopped plane
  does not run; a deletion ends.
* Proxy: interactive requests before status requests.
* Scheduler: a finished operator update is not undone by a rollback; a move that
  is called verified has left its old node; every action ends.
* Sessions: no response is taken twice for a new one; every call ends, although
  two processes of a node take the session from each other.
* Model files: a plane is applied, and a job completed, only with a whole file
  of one version; one thread per job; nobody waits for ever.
* Telemetry: a stream that cannot give a browser a frame gives it a snapshot; no
  frame is passed in silence, and every frame is told in the end.
* Documents: what is stored can be loaded, and is loaded as it was saved.
* Node: the record tells what runs, with which disks and on which model.
* Knowledge: relations and index stay consistent; a source is stored once; no
  overlay is skipped by the merges.
* Conversations: a turn that was stored stays, in the tables or in an archive that
  can be restored.

## 2. Modules

| Module | Content | Instantiated by |
|---|---|---|
| `AssignmentTable` | the table as pure functions on the row sequence of a node, one per repository call | (operators) |
| `AssignmentDelivery` | table + network + hostd processes; the delivery protocol | `MCAssignmentDelivery`, `MCServices` |
| `AssignmentLedger` | abstract: the life of a job, as the writers of the table may rely on it | `AssignmentDelivery` (refinement) |
| `PlaneLifecycle` | table + planes, commands, nodes and observations | `MCPlaneLifecycle`, `MCServices` |
| `SchedulerRollout` | moves, verification, rollback, evictions, placement retries, and the nodes that run them | `MCServices` |
| `HostSession` | clients of a node, handler threads and operator commands on one host row | `MCServices` |
| `ModelBootstrap` | the model file of a plane, fetched directly or relayed in chunks | `MCServices` |
| `ModelLibrary` | a download or quantization job, its thread, its child, its commands, restarts | `MCServices` |
| `TelemetryStream` | live store, durable ring, stream handler, browser that resumes | `MCServices`, `MCRuntime` |
| `DesiredState` | project, validate, render, place, admit: a plane and its stored document | `MCRuntime` |
| `NodeApply` | the application of a slice on a node, step by step | `MCRuntime` |
| `KnowledgeStore` | blocks, index, heads, relations, sources, tombstones, events | `MCRuntime` |
| `KnowledgeMerge` | overlays, merges, checkpoints, reviews | `MCRuntime` |
| `Conversation` | turns of a stored conversation, archival, restoration, deletion | `MCRuntime` |
| `AssignmentDeliveryProofs`, `PlaneLifecycleProofs`, `SchedulerRolloutProofs`, `NodeApplyProofs`, `ModelBootstrapProofs`, `ModelLibraryProofs`, `KnowledgeStoreProofs` | the theorems about the module each is named after | |
| `ServiceProofs` | the theorems about `HostSession`, `KnowledgeMerge`, `Conversation`, `TelemetryStream` and `DesiredState` | |

`MCAssignmentDelivery` and `MCPlaneLifecycle` only add symmetry sets. `MCServices`
and `MCRuntime` put components beside each other that share no state: the first
state chooses a `part`, a behaviour is a behaviour of that part, and the variables
of the others stay as they are. This is a sum of instances, not a product: it
checks each component with the bounds its question needs, and a property of a
part is about that part alone. One component of each is extended rather than
instantiated (`SchedulerRollout` and `KnowledgeStore`), and its constants stand in the
cfg. `PlaneLifecycle` is the composition proper: the
table, the commands, the nodes and the observations act on shared state.

### AssignmentTable

The rows of a node are a sequence; the position is the id. A deleted row stays
as status `deleted`, because AUTOINCREMENT never reuses its id. `stale` says that
`updated_at` is past the limit that applies to the status (60 s claimed, 45 s
pending proxy), so the clock is one action. `tagged` says that `status_message`
still holds what the row was inserted with. `Expire` is the head of
`ClaimNextHostAssignment`, `ClaimedFirst` and `ClaimRow` its SELECT and UPDATE.

### AssignmentDelivery

`proc` holds the hostd processes of a node and the copy each works from, `lock`
the flock, `inflight` requests the controller still holds. A request whose sender
died or timed out stays in flight with `slot = NoSlot` and may take effect later.
`DeliverClaim`, `LoseClaim` and `ClaimResponseFails` are the three fates of a
claim; the last leaves the catch block's transition in flight because it runs in
its own transaction. `LoseReportAnswer` and `ReportTimesOut` model a report that
takes effect (now or later) while hostd believes it failed and runs its catch
block. `completed` is a history variable: rows some process ran to the end. Any
controller service may enqueue, replace, supersede, delete or retry at any time.

### AssignmentLedger

A job is open, taken, done, failed, dropped or gone, with attempts and a budget.
`LedgerStep` lets every job of a ledger take one edge of its life, adds at most
one job behind the others and hands out at most one. `AssignmentDelivery` maps
rows to jobs (`JobOf`, `JobsOf`): pending and claimed become open and taken,
superseded becomes dropped, `attempt_count` and `max_attempts` become attempts and
budget, proxy types become requests; the history variable `completed` is the
ledger's `finished`. Leases, locks, reports, polls and processes disappear.

### PlaneLifecycle

A command is a thread `op[t]` with the plane as first loaded (`seen`); each
action is one write with the reads made just before it. On the node, `local`
holds nothing, disks only or disks and instances of each plane, with the
generation, as the local state files do. `observed` is the observation row:
assignment observations carry the row's plane, id and (when applied) generation;
heartbeats carry the largest generation and the plane name only if the node has
exactly one plane. Delivery is reduced to its outcome: one process per node that
may fail, be killed or have its best-effort observations lost.

Deliberate abstractions:

* Reads just before a write are merged with it; `Reconcile` settles all rows of a
  plane in one step (the code: one conditional UPDATE per row).
* Every slice of a desired state has disks and instances.
* The gates "stale", "runtime failed" and "telemetry degraded" of
  `ObservedSchedulingGateReason` hold for any subset of the observed nodes.
* Availability is active or not (draining and unavailable behave alike here).
* A killed hostd's lease runs out before the next poll; a failed observation and
  the transition after it are one step.
* Heartbeats come only between assignments: the launcher skips them while an
  apply session is active.
* `ApplyDesiredNodeState` changes the node and the local state files in one step;
  `NodeApply` has its steps.
* The newest plane is the one inserted last; planes created in the same second,
  which the code orders by name, are not told apart.
* Rollout actions and scheduler runtime tables are left to `SchedulerRollout`.

### SchedulerRollout

One plane, whose nodes have one GPU each. `desired` is the desired state with
its generation, the places of the workers and an edition that counts operator
updates; `runtime` is `scheduler_plane_runtime`; `actions` is the pair of rollout
actions (evict, then retry the placement). A command writes the desired state
first (`op` remembers the rest) and may die before its second half. The nodes run
rows, crash and report late, so that verification sees old observations. Operators may
enqueue an eviction again while its rows are out. Scores, memory and utilisation are a
choice among the admissible moves. The nodes are active and schedulable throughout: the
gate of the code skips nodes that are not schedulable, and `BuildHostAssignments` skips
unavailable and gated ones; availability is in `PlaneLifecycle`.

### HostSession

The row of the host is loaded and written back whole by the handlers and by the
operator commands, as separate steps. A token stands for the key of a session;
keys, signatures and ciphertext are whether they match. The client follows
`RetryOnRecoverableSessionError`: on a recoverable error it forgets the session and
opens another, up to `MaxAttempts`.

### ModelBootstrap and ModelLibrary

A file is the sequence of its chunks, and a chunk is the version it was read from.
The storage node serves manifests and chunks between its own assignments, the
requester polls a bounded number of times, and the file may be replaced between
any two requests. In the library, `UpdateJob` is a load and a save; `active` and
`stop` are the sets in memory that a restart empties. A restart ends the child process
too. That is an assumption about the installation: the forked `curl` or `llama-quantize`
has no parent-death signal, and dies because the controller is a systemd service whose
unit leaves `KillMode` at its default, the whole control group. Where the controller is
started by hand, an orphan may write the part file beside the resumed job.

### TelemetryStream

A frame is its node and its number. It may arrive late, in any order or never; a
number that is not newer than its node's is refused, which is also what happens to
a duplicate. Every call of the live store is a step of the handler, because the
store is locked per call: the delta of a new stream, its snapshot, the number it
goes on from, then deltas, snapshots and frames one by one. `LiveStream` tells the two
handlers apart: after a snapshot in its loop `StreamLiveSse` also sends the frames
of the delta, `StreamTelemetrySse` does not. The browser resumes with the number of
its URL, or else with the last SSE id, which is cut to 31 bits; `IdModulus` is that
cut. A connection may break anywhere and a restart keeps what the database holds.
The history variable `owed` holds the frames with a number larger than every one
before that the browser was told of neither by themselves nor by a snapshot.

### DesiredState

`Project`, `Validate`/`Loads` and `Render` are functions on the part of a document
that places instances: execution node, topology, replicas, workers, assignments
and GPU shares. Saving is `Project` after the placement and the scheduling policy
accepted the state; loading is `Render` after `Validate`. Models, disks, gateway, app,
skills and browsing sections are copied by the code and left out here.

### NodeApply

A slice is disks with sizes and a number that stands for its instances.
`BuildNodeExecutionPlans` is the difference between the desired slice and the local
state file; the steps are model bootstrap, compose down, disk operations,
compose up, record of state, generation and aggregate, wait for readiness. Any
step may be the last one of an application (`Abandon`). The history variables
`halfway` and `strayed` remember applications that changed the node and left no
record. A disk that is removed has a recorded runtime state, because
`EnsureDesiredDisksReady` records it first; the branch of `RemoveDisk` for a disk without
one, which removes the directory on any node, is met only without root rights and left
out.

### KnowledgeStore and KnowledgeMerge

An HTTP request is a thread; every read and every write batch of RocksDB is a step
of its own, and the process may die between them. `AppendEvent` is a read and a
write of the last number. All blocks belong to one knowledge id.

A text is the set of its terms, which may be empty: `IndexTerms` writes one key per
ASCII-alphanumeric term of title and body, so a block without any has no key at all.
Deletion and cleanup take every key that ends in a colon and the id of the block.
`EndsIn` says which keys of other blocks these are (ids are not escaped: deleting `a`
takes the keys of `x:a`, and the key of `a` under the term `w` goes with a block `w:a`).
`doubtful` is a history variable: the sources that have gone through one of four windows
in which the store loses the record of a block it has. Clients write blocks of their own
ids only; the ids that `NewId` draws can be deleted, not overwritten.

### Conversation

A turn stands for the messages that a request adds. A request is a thread: sweep,
load or restore, answer, load, versioned update of the row, replacement of the
messages, sweep; each call of the store is a step. A sweep archives the session as
the code does: file, row, messages, record; whether it is the turn of this session
(one sweep a minute, eight sessions) is a choice, and a sweep ends before the next
one begins. `archive` is the file that the checksum of the archive record stands
for, so a file that was written over or torn does not fit it. `exposed` is a history
variable: a step was taken in one of the windows that the version does not guard. One
of them is `InsertsAgain`: a request whose session was deleted inserts it again, with
the first version, over the insertion of another request or while another thread still
holds the row of the deleted one. Summaries are written like messages and left out.

## 3. Runs

| Run | Properties | Result |
|---|---|---|
| `delivery_safety` | `TypeOK`, `AppliedWasCompleted`, `FailedIsExhausted`, `OlderActiveRowWasRetried`, `OneProcessPerNode`, `FinalRowsStay` | hold; 0.52 M states |
| `delivery_liveness` | `EventuallySettles`, `ImplementsLedger` | hold; 139 k states |
| `plane_lifecycle` | `TypeOK`, `DeletedPlaneIsGone` | hold; 2.2 M states |
| `plane_concurrent` | `NewestAppliedRowIsInForce` | holds; 2.5 M states |
| `plane_deletion` | `DeletedPlaneIsGone`, `DeletionEnds` | hold; 0.34 M states |
| `services_safety` | `ServicesTypeOK`, `FinishedUpdateStays`, `VerifiedMoveRunsOnce`, `ResponsesAreFresh`, `StatusRequestsWait`, `NewestAppliedRowIsInForce`, `LiveRowHasPlane`, `AppliedModelIsWhole`, `CompletedModelIsWhole`, `ActiveJobHasThread` | hold; 0.95 M states |
| `services_liveness` | `SchedulerActionEnds`, `CallEnds`, `BootstrapEnds`, `JobEnds`, `FrameIsTold` | hold; 109 k states |
| `runtime` | `RuntimeTypeOK`, `EdgesAreSymmetric`, `LiveBlockIsIndexed`, `SourceIsIngestedOnce`, `NoOverlayIsSkipped`, `StoredPlaneLoads`, `LoadedIsSaved`, `RecordedStateIsInForce`, `RecordedDisksAreExact`, `RuntimeHasItsModel`, `NoFrameIsPassedOver`, `SavedTurnIsKept` | hold; 2.4 M states |

What they show:

* *Delivery.* No combination of crashes, lost or late messages, expired leases
  and retries makes a row lie about the work (`delivery_safety`), every row is
  decided in the end unless it is stuck as `delivery_exhausted` shows, and the
  table is a ledger of jobs (`delivery_liveness`). Interactive proxy requests go
  before status requests (`services_safety`, part `proxy`).
* *Planes.* The newest applied row is what is in force on the node, also when two
  commands overlap write by write (`plane_concurrent`) and when observations are
  lost and old rows are retried (`services_safety`, part `retry`). A plane leaves
  the registry only when it has left its nodes (`plane_lifecycle` with every
  command and two generations on one node, `plane_deletion` on two nodes), and it
  does leave.
* *Scheduler* (`rebalance`, `evict`). A rollback never undoes an update of an
  operator that ran to its end; a verified move that went through the gate does
  not leave the worker on two nodes; every action ends.
* *Sessions* (`session`, `registry`). Two processes of a node share one session row
  and steal it from each other: nobody is given a stale response, and every call
  ends with an answer or an error.
* *Model files* (`relay`, `pinned`, `peer`, `mutual`; `download`, `delete`, `hide`). A plane
  is applied only with a whole file of one version although the source is replaced
  between chunks; two nodes that wait for each other's file give up; a library
  job completes only with a whole file, has one thread, and ends across a restart.
* *Telemetry* (`frames`, `burst`; `told`). Pruned frames, truncated batches, broken
  connections, cut ids and a restart never make the cursor of a stream pass a frame
  in silence, and a browser that stays is told of each one.
* *Documents* (`planes`, `replicas`). Every plane that the documents, edits and moves
  of the instance can store loads as it was saved.
* *Node* (`primary`, `secondary`). Applications abandoned anywhere and repeated end
  in a node that is what its record says: instances, configuration, disks, model.
* *Knowledge* (`graph`, `sources`, `turns`, `merge`). Overlapping requests and crashes
  leave both keys of a relation or none, and index a live block under every term of its
  text; a source is not stored twice by overlapping ingests, deletions and cleanups
  outside four named windows; the same with repairs, one request at a time (`turns`);
  no merge, failed ones included, passes over an overlay.
* *Conversations* (`chat`, `forget`, `again`). Where the version of the row decides, parallel
  requests, sweeps and restorations do not cost a stored turn: of two updates one is
  refused, an archive that lost against a request is not used, and a file that was
  written over or torn for nothing is not restored.

### Disagreements with the code's own statements

| Run | Property | What TLC shows |
|---|---|---|
| `delivery_exhausted` | `ExhaustedIsNotPending` | the catch block of `HandleNextAssignment` leaves a row pending with no attempt left; nothing ever touches it again |
| `plane_finalize_race` | `DeletedPlaneIsGone` | with two threads, a listing between the transactions of `DeletePlane` removes a plane that hostd is still applying |
| `plane_staged` | `StagedUntilRestart` | a staged generation counts as applied because another plane of the node reached the same number |
| `plane_document` | `StoredPlaneLoads` | two workers of a plane with an execution node are placed on two GPUs; the document that is stored does not pass the validator, and the plane cannot be loaded or updated any more |

### Limits of what the passing runs state

Each of these is a bound or an exception that a wider property would not survive;
the reason is what TLC finds without it.

* `DeletedPlaneIsGone` holds for commands that do not overlap
  (`plane_finalize_race` has the overlap), observation reports that arrive, and a
  node set that does not shrink. With `LoseObservations = TRUE`, a lost
  "applying" report hides a superseded row still in work.
* `DeletionEnds` needs the node set too: a node that a staged update dropped is
  cleaned by the next start, not by a delete; deleted before that start, the node
  keeps the plane and its observation blocks the finalization.
* `LiveRowHasPlane` is checked for commands that do not overlap: a start that
  loaded its plane before another thread removed it queues rows for a plane that
  has gone.
* A resync lets a deleting plane have an apply row (only stopped planes are
  skipped); the plane then waits in "deleting" until it is deleted again.
* Stopping a plane supersedes the pending drain of an unavailable node, and
  nothing replaces it: the stopped plane may keep running there. The staleness
  check of an operator retry compares with the generation of the newest plane,
  not of the row's plane.
* Expired proxy rows are told "expired before hostd claimed it" whether or not
  they had been claimed before.
* `FinishedUpdateStays` is about updates whose second half ran. One that dies
  between the halves leaves the runtime record of an older move behind, and a
  rollback of that move undoes the update.
* `VerifiedMoveRunsOnce` is about moves through the controller's gate, checked and
  proved without evictions: a placement retried by hand while the move is verified
  may send the worker back to its source, and if the controller dies between the two
  halves of that retry, the runtime record of the move stays and is verified.
* `ResponsesAreFresh` is checked without timeouts and operator commands, and these
  in turn (`registry`) for their types only: a late answer after a reset is rejected
  as stale, and a heartbeat that overlaps with a storage-role command writes the
  old role back.
* `AppliedModelIsWhole` of the direct transfer (`peer`) is checked without
  replacement of the file: the direct manifest has no checksum, so that chunks of
  two versions of the same size are not told apart.
* `CompletedModelIsWhole` is about downloads: a quantization that was stopped
  leaves an output which the resumed job takes for finished. Statuses of job rows
  are not stated to be right: the unlocked `UpdateJob` loses them.
* `SourceIsIngestedOnce` excepts sources that went through a window, and in each of the
  four TLC finds the second block: two ingests that look up the record before either
  writes one; a death between the block and its record; a deletion that removes a newer
  record than the one whose block it deleted; a cleanup of a source that was deleted and
  ingested again, whose tombstone is never removed (ingest, forget, ingest, cleanup,
  ingest, in sequence).
* `LiveBlockIsIndexed` excepts keys that end in the id of another block, which go with
  that block. A block whose text has no term is live without a key; `RunRepair` reports
  it as `stale_text_index`, and a repair does not change that.
* `LiveBlockIsIndexed` and `EdgesAreSymmetric`: no repair overlaps with other requests,
  since it rewrites the index and the inverse edges from what it saw earlier.
  A relation written while one of its blocks is deleted stays, under both keys: nothing
  promises that the blocks of a relation are live.
* `NoOverlayIsSkipped`: one request at a time. With two, an overlay that has taken
  its number and is not stored yet is passed by the checkpoint. `AppendEvent`
  numbers are not unique with two threads.
* `NoFrameIsPassedOver` and `FrameIsTold` leave out: frames that arrive between the
  first snapshot of a stream and its later call of `LatestSequence()`, which the
  cursor passes; a cursor of 0, for which a delta never reports pruned frames;
  numbers that are not larger than every one before, which a cursor shared by all
  nodes passes (clocks behind, late frames, equal numbers); and frames that a
  restart lost, whose absence nobody is told of because the marks of pruned frames
  are not stored. Events and telemetry share the SSE ids of the live stream, so that
  a stream resumed by its id takes the number of a frame for the id of an event, or
  the other way round; events are not in the model.
* `LoadedIsSaved` is about planes whose workers take equal shares of their GPUs;
  the document has one share for all.
* `StoredPlaneLoads` and `LoadedIsSaved` are about documents of the kinds that the parts
  `planes` and `replicas` have and `DocumentSound` (section 4) states. TLC finds a stored
  plane that does not load, or not as it was saved, in each of the others: a topology whose
  node modes are not those of the registry; an execution node beside a topology; a plane
  without infer section; a plane that is no llm plane with several replicas; two workers
  on a topology of one node or on the local node; a move of a worker of a plane with several
  replicas, whose infer instance follows its first worker when the plane is loaded and not
  when the worker is moved; and two workers on an execution node (`plane_document`).
* `RecordedStateIsInForce` and `RecordedDisksAreExact` except a slice that is asked
  for again, unchanged, after another one was abandoned: its plan is empty. Disks
  that only an abandoned slice named stay for good.
* `RuntimeHasItsModel` fails on the primary node: it removes and creates a changed
  shared disk after the model was copied to it.
* `SavedTurnIsKept` ends where a step is taken that the version does not guard. TLC
  finds a lost turn in each: messages loaded between the row update and the message
  replacement of another request; an archival under a request that waits for its
  answer, which then finds an archived row without messages and stores its own turn
  alone (`expected_session_version` is set and never compared); a restoration that
  was begun before another request restored the session and stored a turn, since the
  row is upserted whatever its version; a deleted session that a request inserts again
  over the insertion of another one, or while another thread holds the row of the deleted
  one, since versions start anew; a death after the row was archived and
  before the record is written, or after the row was restored and before its
  messages. A request that was in flight brings a deleted session back. A streamed
  answer is sent whatever `PersistResponse` returns, so that a refused turn is lost
  without a word. Not in the model: a sweep that takes longer than a minute and meets
  the next one, and an archive file whose last buffer fails to be written when it is
  closed, which is not checked.
* A state file that was truncated and not written (a kill in between) blocks the
  plane and the rewriting of the node's aggregate for good; and the record is
  written before the wait for readiness, so that a repetition after a timeout has
  an empty plan and reports success.

### Bounds and why they are enough

* `delivery_safety`: one node (nodes share nothing but the plane name, and the
  proofs cover any number), two processes for the lock, two rows of a plane for
  superseding and retry, two attempts plus an operator's retry (`MaxAttempts = 2`,
  `MaxRetries = 3`) so that a row has a first, a last and an extra attempt, and an
  older row may be live again beside a newer one; a process starts while fewer than
  `MaxInflight = 2` requests of dead ones are under way (with three the properties hold
  too, on 2.1 M states). `SlotSymmetry` is sound: no action tells slots apart and the run has no
  liveness property.
* `delivery_liveness`: one slot, two attempts and a retry, so that a row is requeued,
  exhausted and retried; two rows, so that one row's crash or stale lease can hold up
  the other; apply rows only.
* `plane_*`: two generations where updates matter, otherwise one; `MaxRows` rows
  per node when a command starts, which lets start, stop or delete and one more
  command follow each other; two threads where overlap is the question
  (`ThreadSymmetry`, safety only); two planes where planes share an
  observation; two nodes where a deletion waits for all of them.
* `MaxAttempts = 1` in the plane runs: attempts are the subject of the delivery
  module; one failure, one retry (`MaxRetries = 2`) and crashes remain.
* Scheduler: four generations are a first placement, a move, an update or a
  rollback, and one more; two stable samples are a first and a last; one worker
  moves between two nodes, two workers where one is evicted for the other.
* Sessions: two processes that each make a call with two attempts, two handler
  threads and four sessions: each can lose its session to the other twice.
* Model files: three versions of two sizes, one equal and one larger, so that a
  replacement may or may not change the size; three attempts, so that each
  attempt may leave something to the next. Library: three commands of two threads
  (stop, resume and one that overlaps) and one restart.
* Telemetry: `frames` has two nodes with one frame each in memory and in the database
  and batches of two, so that nodes share a cursor and compete for the database;
  `burst` one node with two frames in memory, batches of one and four numbers, so
  that a batch is truncated and frames are pruned in one stream; an `IdModulus`
  below the largest number; one break and one restart, so that a stream is resumed
  from its URL, from an id, after a logout, and against a store it outlived.
* Documents: two hosts, one of which runs workers only, the local one, two GPUs
  each; topologies in both orders; up to two workers with and without
  assignments; three saves, so that a plane is placed, loaded and saved twice.
* Node: three rows and two abandoned applications of one plane, or two rows
  and one of two planes; two sizes of the shared disk, a private disk that comes
  and goes, two sets of instances (with one plane, the second of them with one set
  of disks).
* Knowledge: four requests of two threads and crashes. `graph` has two blocks, one
  relation, two terms, texts with none or both of them, and an id that ends in the other
  one. `sources` has one source; a second block after a forget or a cleanup takes five
  requests, with which the property holds too (0.8 M states). `turns` has three requests
  of one thread, repairs among them. Two overlays, two merges, one crash.
* Conversations: three turns of two threads, so that two overlap on a session that
  has a turn to lose; two weeks without use, so that a session is archived, restored
  and archived over its old file; a death (`chat`), a deletion (`forget`); a deletion under
  three threads, so that two of them insert the deleted session again (`again`). Four turns
  and three weeks with a death and a deletion in one instance hold too (24 M states).

Deadlock is checked in the runs of the delivery and of the planes, where
heartbeats and polls keep the system going. In the runs of `MCServices` and
`MCRuntime` a part really stops when its jobs, calls and requests are done.
`Symmetry` of `MCServices` permutes workers, nodes and threads that start alike, in
a run without liveness properties.

### Fairness

`AssignmentDelivery!Fairness`: the launcher starts hostd after every exit (WF);
work ends, because its waits have time limits (WF on finish or fail); clocks run
(WF on `LimitPasses`); handler threads finish (WF on reports); and the network is
not down for good: a poll is served again and again (SF, since a poll may be
lost between two chances). Crashes, losses and controller actions are not fair.

`PlaneLifecycle!Fairness`: a thread finishes its command (WF on each of its
steps); hostd polls, works, and reports (WF on each step; failing and being
killed are not fair); heartbeats come when hostd is idle (WF: the launcher's
loop); planes are listed again and again, so a finalization that is possible
infinitely often is done (SF).

`MCServices!FairServices`, per part. *rebalance*: somebody keeps calling `scheduler-tick`, a
command that has begun goes on, and the verification time limit passes (WF);
the nodes are not fair, so that moves may never be confirmed. *session*: a handler
thread ends, and a process sends the request it has prepared (WF). *mutual*: hostd
is started again and its polls are bounded (WF of `Begin` and `Advance`); serving
the other node needs no fairness because the wait ends without it. *hide*: the job
thread, HTTP threads and the resumption by the next listing go on (WF), and the
child process ends (SF: it is killed by a restart, which the bound makes finite).
*told*: the handler goes on and EventSource connects again (WF); users need not come
back.

## 4. Proofs

`AssignmentDeliveryProofs` proves, for any sets of nodes, slots, planes and
requests and any bounds (assumptions: `MaxAttempts > 0`, bounds are naturals,
`NoSlot` is no slot, requests are no planes, enqueued types are types):

| Theorem | Statement |
|---|---|
| `TypeCorrect` | `Spec => []TypeOK` |
| `AppliedIsTrue` | `Spec => []AppliedWasCompleted` |
| `FailureIsFinal` | `Spec => []FailedIsExhausted` |
| `OneLiveRow` | `Spec => []OlderActiveRowWasRetried` |
| `MutualExclusion` | `Spec => []OneProcessPerNode` |
| `FinalityOfRows` | `Spec => FinalRowsStay` |
| `StatusRequestsYield` | `Spec => StatusRequestsWait` |

None of the invariants is inductive alone. `IInv` strengthens them per node:

* *table*: attempts and limits of every row fit its status; an applied row is
  completed; an older live row has a raised limit; a proxy request has one row;
* *processes*: a process is not idle exactly when it holds the lock; if its copy
  is on its last attempt, so is the row (an operator can retry only a failed row,
  which a late report cannot have produced without exhausting it);
* *messages*: a request that someone waits for is the only one of its sender; an
  `applied` report is of a completed row; a `failed` report of a row on its last
  attempt.

The process and message parts are what a late report needs: `failed` in flight
must stay justified while the row is retried, expired or claimed again. The proof
goes from what a repository call does to one row (`RowStep`), over all rows of a
node (`RowWise`, `TableStep`), to the parts of the invariant each action can
disturb, with one lemma per action, to `NextInv` and the theorem `Invariance`.

The same module proves `Refinement`: `Spec => ImplementsLedger`, the
refinement of `AssignmentLedger` under the mapping of section 2, with no further
assumption. The initial tables map to empty ledgers. For a step, what a repository
call does to one row is an edge of a job's life (`RowLives`: one lemma per call of
`AssignmentTable`), hence to all rows of a node a ledger step, hence one lemma per
action, hence `NextLives`. The parts of `IInv` that this needs are those on reports:
an `applied` report that arrives must be of a job that is in `finished`, and a
`failed` one of a job without budget, also when the report is late.

`StatusRequestsYield` needs of `IInv` only the types of the tables and that messages name
rows: of all steps only a claim raises attempts (`NoneClaimed`, one lemma per repository
call), and a claim chooses among the rows as its own expiries leave them (`ClaimInOrder`).

### Planes: `PlaneLifecycleProofs`

| Theorem | Statement | Under |
|---|---|---|
| `TypeCorrect` | `[]TypeOK` | |
| `AppliedRowsAreInForce` | `[]NewestAppliedRowIsInForce` | |
| `LiveRowsHavePlanes` | `[]LiveRowHasPlane` | `OneThread` |
| `DeletedPlanesAreGone` | `[]DeletedPlaneIsGone` | `InTurn` |

For any sets of planes, nodes and threads and any bounds. Four invariants, each on top
of those before it:

* `IInv`: every row fits its attempts and limits; an older live row was retried; hostd
  works on a row it has claimed. For the row in charge of a plane (the newest, with no
  retried one before it): whoever says it is applied (the row, an observation that
  names it, or hostd itself) says the truth about the node, and while hostd works for
  the plane on another row, it was never claimed. The last clause is what late work needs: an old
  row still in work cannot undo one that was applied after it.
* `RegistryInv` (`OneThread`): rows that are not deleted, and commands at work, belong to
  planes of the registry. With two threads a start that loaded its plane before another
  thread removed it queues rows for it.
* `PlacementInv`: a plane has nodes, the same ones as long as it exists, rows
  there only, and a command knows them.
* `DeletionInv`: what the controller has observed of a plane on a node is what the node
  holds unless it knows hostd to be at work for it; the rows of a plane are deleted
  together; a plane that is being deleted, with no command between withdrawing and queueing rows,
  has a standing newest row on every node; a plane that leaves is gone everywhere.

`InTurn` is `OneThread`, reports of hostd that arrive (`~LoseObservations`), no operator
retries, and one placement (one generation or one node). Each part is needed: TLC finds a
plane left on a node with two threads (`plane_finalize_race`), with a lost report, with a
retried row, and when a staged update moves the plane off a node whose hostd has claimed
the old row.

### Scheduler, sessions, merges, conversations, streams, documents: `SchedulerRolloutProofs`, `ServiceProofs`

| Theorem | Statement | Under |
|---|---|---|
| `SchedulerRolloutProofs!TypeCorrect` | `[]TypeOK` | `SchedulerSound` |
| `FinishedUpdatesStay` | `[]FinishedUpdateStays` | `SchedulerSound` |
| `VerifiedMovesRunOnce` | `VerifiedMoveRunsOnce` | `SchedulerSound`, `NoEvictions` |
| `SessionTypeCorrect` | `[]Session!TypeOK` | `SessionSound` |
| `ResponsesStayFresh` | `[]Session!ResponsesAreFresh` | `SessionSound` |
| `MergeTypeCorrect` | `[]Merge!TypeOK` | `MergeSound` |
| `NoOverlayIsLeftBehind` | `[]Merge!NoOverlayIsSkipped` | `MergeSound` |
| `ChatTypeCorrect` | `[]Chat!TypeOK` | `ChatSound` |
| `StoredTurnsAreKept` | `[]Chat!SavedTurnIsKept` | `ChatSound` |
| `StreamTypeCorrect` | `[]Stream!TypeOK` | `StreamSound` |
| `StreamPassesNoFrame` | `[]Stream!NoFrameIsPassedOver` | `StreamSound` |
| `PlaneTypeCorrect` | `[]Plane!TypeOK` | `PlaneSound` |
| `StoredPlanesLoad` | `[]Plane!StoredPlaneLoads` | `PlaneSound` |
| `LoadedPlanesAreSaved` | `[]Plane!LoadedIsSaved` | `PlaneSound` |

`ServiceProofs` declares the constants and variables of five components and instantiates
them side by side; a theorem is about one of them.

* *Scheduler.* `SchedulerSound` only says that the bounds are numbers. `SchedulerInv` is
  the types, and that the state a scheduler action would go back to, the one in the
  runtime record and the one a command is about to record, is not older than the last
  update that ended. `MoveInv` adds, for a plane without evictions: generations grow from
  the node to its job to its row to the desired state, and whatever has the present
  generation has the present workers of the node; a job runs only while the row is live;
  of a gated move that no update overtook, either the rows are not written and no node
  has anything to do, or no row and no job of the source has the worker, and a worker that
  still runs on the source has been observed there. So the observation without the
  worker, which the verification waits for, was made after the source let it go.
  `NoEvictions` is needed (section 3, limits).
* *Sessions.* `SessionSound`: the commands are operator commands, a client tries at least
  once. `SessionInv` is the types with every session number at most the last one opened,
  and, as long as there are no timeouts and operator commands (the condition in
  `ResponsesAreFresh` itself), `FreshInv`: sessions and threads have one client each; the
  copy of the row that a thread holds is of the session of the client it serves and
  counts all responses that client has had; and a thread that will not save it has lost
  the session to another client.
* *Merges.* `MergeSound`: one request at a time, kinds of overlays are those of the
  service, bounds are numbers. `MergeInv`: an overlay about to be stored has a number above all
  checkpoints, and what a merge has not taken is still in its scan. With two
  threads an overlay numbered before a merge ends and stored after it is skipped.
* *Conversations.* `ChatSound` only says that the bound on turns is a number. `ChatInv` is
  the types, that one thread sweeps at a time, and, as long as no step was taken in an
  unguarded window, `GuardedInv`: at most one thread is between its row and its messages or
  record, and it holds every stored turn; what a thread loaded has a version not above that
  of the row, and if it has just that version, then its turns are the messages, or the
  archive, as they are. So a versioned update that succeeds writes over nothing it has not
  read, and an archive counts only with the file that was written for it.
* *Streams.* `StreamSound`: capacities are at least one, as `NormalizeRetention`
  (`telemetry_operational_config.cpp`) makes them, and the bounds are numbers. `StreamInv`
  bounds every number by the largest that arrived, and says of a frame that the browser is
  still owed (`OwedInv`): its node keeps it, or a newer one and the mark that it was pruned;
  the ids a browser may resume from and the number of every snapshot in flight are below it
  or the snapshot covers it; and at each step of the handler (`Serves`) the cursor is below
  it, or the batch or the snapshot about to be sent has it.
* *Documents.* `PlaneInv`: the stored document is the projection of the state that was saved;
  the workers of that state are in equal groups, one per replica (`Grouped`); it has several
  registered nodes, with the infer instance of each replica where a load puts it
  (`Spread`), or one node for everything (`Single`); and it is what admission and policy let
  through (`Placed`). The proof goes from document to state (projected, validated, rendered,
  placed) and back, for any length of topology and any number of workers and replicas.
  `PlaneSound` asks for known hosts and, of every requested document, `DocumentSound`; each
  conjunct of it excludes a kind of document in which TLC finds a plane that does not load as
  it was saved (section 3, limits). The instances `planes` and `replicas` satisfy it.

### Nodes and model files: `NodeApplyProofs`, `ModelBootstrapProofs`, `ModelLibraryProofs`

| Theorem | Statement | Under |
|---|---|---|
| `NodeApplyProofs!TypeCorrect` | `[]TypeOK` | `Sound`, `MaxRows` a number |
| `RecordIsInForce` | `[]RecordedStateIsInForce` | `Sound` |
| `DisksAreExact` | `[]RecordedDisksAreExact` | `Sound` |
| `RuntimeFindsItsModel` | `[]RuntimeHasItsModel` | `Sound` |
| `ModelBootstrapProofs!TypeCorrect` | `[]TypeOK` | `Sound` |
| `OnlyWholeModelsAreApplied` | `[]AppliedModelIsWhole` | `Sound`, `FileIsIdentified` |
| `ModelLibraryProofs!TypeCorrect` | `[]TypeOK` | `Sound` |
| `OneThreadPerJob` | `[]ActiveJobHasThread` | `Sound` |
| `CompletedDownloadIsWhole` | `[]CompletedModelIsWhole` | `Sound`, `NoDeletes` |

`Sound` says of the constants of each module what the controller guarantees: slices whose
instances have the shared disk; versions with a number of chunks, a source for every
requester, at least one attempt; commands that operators have.

* *Node.* `NodeInv` follows an application through its steps. While none is at work, or
  its record is written, the node has what the record says unless an application was
  abandoned, and every disk comes from the recorded slice or an abandoned one (`Settled`).
  An application of the recorded slice keeps this (`Repeating`); one of another slice has,
  at each step, brought into force what the steps before it were for (`DisksChange`,
  `ServicesChange`), for instance the model and the shared disk before the compose file.
  For the types, `Contents` and `Generations` keep what is on the node within the slices and
  rows that were asked for; the aggregate is one of the planes' generations because a set of
  numbers with a bound has a largest one (the order of the numbers is well founded).
* *Model files.* `TransferInv`: hostd works on an assignment it has claimed; the manifest
  it goes by has a checksum unless it came from a peer, and the pinned one once compared;
  if the file is never replaced, a transfer ends at its size. `FileIsIdentified` leaves out
  linked nodes without a pin and with several versions: the manifest of the peer has no
  checksum, and chunks of two versions of one size are put together.
* *Jobs.* `DownloadInv`: what the thread publishes is whole, and row, copies of the row and
  result say "completed" only with the file in place. `NoDeletes` leaves out deletions,
  which remove the files before the row.

### Knowledge store: `KnowledgeStoreProofs`

| Theorem | Statement | Under |
|---|---|---|
| `TypeCorrect` | `[]TypeOK` | `Sound` |
| `SymmetricEdges` | `[]EdgesAreSymmetric` | `Sound`, `RepairIsAlone` |
| `LiveBlocksAreIndexed` | `[]LiveBlockIsIndexed` | `Sound`, `RepairIsAlone` |
| `SourcesAreIngestedOnce` | `[]SourceIsIngestedOnce` | `Sound`, `NoClash` |

`Typed` holds what each step of a request knows of its block, argument and the keys it has
seen: a deletion has seen keys of its own block, a cleanup keys of blocks it removes, and
both may have seen keys of others that end in such an id. `StoreInv` adds that a repair
that runs alone has seen every live block and no edge without its inverse; `RepairIsAlone`
is that there is no repair, or one thread.

`SourcesAreIngestedOnce` holds for any threads, overlaps, crashes, cleanups and repairs.
The invariant has three parts. `IdInv`: the numbers of ingests differ, and no thread will
write a block that is recorded or being forgotten. `ForgottenIsGone`: a deletion that is
about to remove a record has deleted the block it found. `SourceInv`, for a source outside
the windows: one thread at most is ingesting it, then it has no record, and each of its
live blocks is recorded or was written by that thread. `NoClash` is that the ids which
clients choose are not those that `NewId` draws: a client that writes a block under the id
of a forgotten source brings it back.

### What is only model-checked

Liveness (`EventuallySettles`, `DeletionEnds`, `SchedulerActionEnds`, `CallEnds`,
`BootstrapEnds`, `JobEnds`, `FrameIsTold`): fairness is out of the prover's reach. Every
other property of a passing run is stated by a theorem, under the conditions in the tables;
what `MCServices` and `MCRuntime` check is the same formula of one instance of the component.

## 5. What is not modelled

* *Telemetry beyond its streams*: sampling and sending on the node, the plane filter,
  the events of the live stream, alerts, health, metrics and downsampled history.
  The samples the scheduler decides on are in `SchedulerRollout`.
* *Interaction requests beyond their storage*: request shaping, streaming, compression
  and summaries of model answers; what they send to nodes are proxy rows.
* *The caller's side of the proxy*: the 30 s wait and the HTTP exchange on the node.
* *Launcher*: child supervision without state of its own beyond process ids; it is
  the reason for the fairness of hostd.
* *Skills, browsing, voice, the controller's side of the knowledge vault*: CRUD state
  and external engines. They meet the control protocol through proxy rows and
  edits of the desired state, which are modelled.
* *Authentication, HTTP parsing, cryptography, containers, user interface,
  migrations, scripts*: pure I/O, presentation or external engines.
* In modelled components: discovery and upload of models, self-update and
  knowledge vault assignments, capsules, search and catalog of the knowledge
  service, memory caps and scores of the planner. `PROJECT.json` says per component
  what is left out.

## 6. Plan

1. *Done*: assignment table and delivery, with the ledger it implements; plane lifecycle,
   scheduler, sessions, model files, model library, telemetry streams, documents, node
   application, knowledge service and stored conversations: all checked and proved.
2. `RuntimeProxy`: the caller's wait against claim, expiry and late answers.
3. Browsing sessions of the runtime containers.
