---------------------------- MODULE ModelLibrary ----------------------------
(***************************************************************************)
(* A job of the model library that runs in the controller: a detached        *)
(* thread downloads a model with curl, or quantizes one with llama-quantize,  *)
(* while operators stop, resume, hide and delete the job over HTTP and the    *)
(* controller may die and start again (model_library_service.cpp,            *)
(* model_conversion_service.cpp).                                           *)
(*                                                                         *)
(* The job is a row of the database.  UpdateJob reads it, changes the copy   *)
(* and writes the whole row back, in two steps that other threads may        *)
(* interleave.  Which threads are active and which jobs are to be stopped is  *)
(* kept in memory only.                                                     *)
(***************************************************************************)
EXTENDS Naturals

CONSTANTS
  Kind,          \* "download" or "quantize"
  Threads,       \* HTTP threads of the controller
  Commands,      \* what operators do: "stop", "resume", "hide", "delete"
  MaxCommands,   \* bound on the number of commands
  MaxRestarts    \* bound on the number of restarts

VARIABLES
  job,        \* the row: status and hidden
  active,     \* active_job_ids holds the job
  stop,       \* stop_requested_job_ids holds the job
  resumed,    \* ResumePersistentJobs has run since the start
  worker,     \* thread of StartDownloadJob: where it is, its copy of the row
  child,      \* the child process runs
  out,        \* .part file of the download, or staged output
  target,     \* the model file
  op,         \* HTTP threads
  commands, restarts

vars == <<job, active, stop, resumed, worker, child, out, target, op, commands, restarts>>

Absent == [status |-> "absent", hidden |-> FALSE]
NoWorker == [at |-> "none", seen |-> Absent, result |-> "none"]
IdleOp == [cmd |-> "none", at |-> "idle", seen |-> Absent]

\* EnqueueDownload, EnqueueQuantization: the row is written, the thread starts.
Init ==
  /\ job = [status |-> "queued", hidden |-> FALSE]
  /\ active = TRUE /\ stop = FALSE /\ resumed = TRUE
  /\ worker = [NoWorker EXCEPT !.at = "load"]
  /\ child = FALSE
  /\ out = "none" /\ target = "none"
  /\ op = [t \in Threads |-> IdleOp]
  /\ commands = 0 /\ restarts = 0

rest == <<commands, restarts>>
files == <<out, target>>

-----------------------------------------------------------------------------
(* The thread of the job                                                    *)

WorkerAt(at) == worker' = [worker EXCEPT !.at = at]
Ends(result) == worker' = [worker EXCEPT !.at = "final", !.result = result]

\* The thread does nothing for a job that has ended or is to stop.
WorkerLoad ==
  /\ worker.at = "load"
  /\ WorkerAt(IF job.status \in {"queued", "running"} THEN "update" ELSE "clear")
  /\ UNCHANGED <<job, active, stop, resumed, child, files, op, rest>>

\* First half of UpdateJob; a row that is gone is not written.
WorkerUpdateLoad ==
  /\ worker.at \in {"update", "progress"}
  /\ worker' = [worker EXCEPT !.seen = job,
       !.at = IF job = Absent THEN IF @ = "update" THEN "work" ELSE "child"
              ELSE IF @ = "update" THEN "updateSave" ELSE "progressSave"]
  /\ UNCHANGED <<job, active, stop, resumed, child, files, op, rest>>

WorkerUpdateSave ==
  /\ worker.at \in {"updateSave", "progressSave"}
  /\ job' = [worker.seen EXCEPT !.status = "running"]
  /\ WorkerAt(IF worker.at = "updateSave" THEN "work" ELSE "child")
  /\ UNCHANGED <<active, stop, resumed, child, files, op, rest>>

\* Output that is there already is not made again: a model file without a .part
\* beside it, a staged output that is not empty.
OutputIsThere ==
  IF Kind = "download" THEN target # "none" /\ out = "none" ELSE out # "none"

StartChild ==
  /\ worker.at = "work"
  /\ \/ stop /\ Ends("stopped") /\ UNCHANGED <<child, out>>
     \/ /\ ~stop /\ OutputIsThere
        /\ IF Kind = "download" THEN Ends("completed") ELSE WorkerAt("publish")
        /\ UNCHANGED <<child, out>>
     \/ /\ ~stop /\ ~OutputIsThere
        /\ child' = TRUE
        /\ out' = "torn"
        /\ WorkerAt("child")
  /\ UNCHANGED <<job, active, stop, resumed, target, op, rest>>

\* A turn of the waiting loop: report progress.
WorkerPolls ==
  /\ worker.at = "child" /\ child
  /\ WorkerAt("progress")
  /\ UNCHANGED <<job, active, stop, resumed, child, files, op, rest>>

\* The child ends well (curl continues a partial file); the stop request still
\* counts.  A file deleted under the child stays deleted.
ChildSucceeds ==
  /\ worker.at = "child" /\ child
  /\ child' = FALSE
  /\ out' = IF out = "none" THEN "none" ELSE "whole"
  /\ IF stop THEN Ends("stopped") ELSE WorkerAt("publish")
  /\ UNCHANGED <<job, active, stop, resumed, target, op, rest>>

\* Mutant: a child that fails taken for one that ended well.
AfterChildFailureIgnored == IF stop THEN Ends("stopped") ELSE WorkerAt("publish")

\* A child that fails ends the job, as stopped when a stop was asked for.
AfterChildFailure == IF stop THEN Ends("stopped") ELSE Ends("failed")

\* It fails, or is killed because of the stop request.  What it wrote stays.
ChildFails ==
  /\ worker.at = "child" /\ child
  /\ child' = FALSE
  /\ AfterChildFailure
  /\ UNCHANGED <<job, active, stop, resumed, files, op, rest>>

\* The output takes the place of the model file; with no output rename throws.
Publish ==
  /\ worker.at = "publish"
  /\ IF out = "none" THEN Ends(IF stop THEN "stopped" ELSE "failed") /\ UNCHANGED files
     ELSE target' = out /\ out' = "none" /\ Ends("completed")
  /\ UNCHANGED <<job, active, stop, resumed, child, op, rest>>

WorkerFinalLoad ==
  /\ worker.at = "final"
  /\ worker' = [worker EXCEPT !.seen = job,
                              !.at = IF job = Absent THEN "clear" ELSE "finalSave"]
  /\ UNCHANGED <<job, active, stop, resumed, child, files, op, rest>>

WorkerFinalSave ==
  /\ worker.at = "finalSave"
  /\ job' = [worker.seen EXCEPT !.status = worker.result]
  /\ WorkerAt("clear")
  /\ UNCHANGED <<active, stop, resumed, child, files, op, rest>>

WorkerClearsStop ==
  /\ worker.at = "clear"
  /\ stop' = FALSE
  /\ WorkerAt("inactive")
  /\ UNCHANGED <<job, active, resumed, child, files, op, rest>>

WorkerEnds ==
  /\ worker.at = "inactive"
  /\ active' = FALSE
  /\ worker' = NoWorker
  /\ UNCHANGED <<job, stop, resumed, child, files, op, rest>>

\* A second thread may start for the same job.
StartsAgain(loads) == active' = TRUE /\ worker' = [NoWorker EXCEPT !.at = loads]

\* StartDownloadJob: nothing while a thread of the job is registered.
Starts(loads) ==
  IF active THEN UNCHANGED <<active, worker>>
  ELSE active' = TRUE /\ worker' = [NoWorker EXCEPT !.at = loads]

Worker ==
  \/ WorkerLoad \/ WorkerUpdateLoad \/ WorkerUpdateSave \/ StartChild
  \/ Publish \/ WorkerFinalLoad \/ WorkerFinalSave \/ WorkerClearsStop \/ WorkerEnds

-----------------------------------------------------------------------------
(* Operators                                                                *)

OpAt(t, at) == op' = [op EXCEPT ![t].at = at]
OpEnds(t) == op' = [op EXCEPT ![t] = IdleOp]

OpBegin(t, c) ==
  /\ op[t].at = "idle" /\ commands < MaxCommands
  /\ commands' = commands + 1
  /\ op' = [op EXCEPT ![t] = [cmd |-> c, at |-> "load", seen |-> Absent]]
  /\ UNCHANGED <<job, active, stop, resumed, worker, child, files, restarts>>

\* What each handler does next for the status it has read.
AfterCheck(cmd, status) ==
  CASE cmd = "stop"   -> IF status = "queued" THEN "update"
                         ELSE IF status = "running" THEN "request" ELSE "end"
    [] cmd = "resume" -> IF status \in {"queued", "stopped", "failed"} THEN "clearStop"
                         ELSE "end"
    [] cmd = "hide"   -> IF status \in {"completed", "failed", "stopped"} THEN "update"
                         ELSE "end"
    [] cmd = "delete" -> IF status \notin {"running", "stopping", "absent"} THEN "remove"
                         ELSE "end"

OpCheck(t) ==
  LET next == AfterCheck(op[t].cmd, job.status)
  IN /\ op[t].at = "load"
     /\ op' = [op EXCEPT ![t] = IF next = "end" THEN IdleOp
                                ELSE [@ EXCEPT !.at = next, !.seen = job]]
     /\ UNCHANGED <<job, active, stop, resumed, worker, child, files, rest>>

\* RequestStop of a running job, ClearStopRequest before a resumption.
OpStopFlag(t) ==
  /\ op[t].at \in {"request", "clearStop"}
  /\ stop' = (op[t].at = "request")
  /\ OpAt(t, IF op[t].at = "request" THEN "updateStopping" ELSE "update")
  /\ UNCHANGED <<job, active, resumed, worker, child, files, rest>>

OpUpdateLoad(t) ==
  /\ op[t].at \in {"update", "updateStopping"}
  /\ IF job = Absent
     THEN IF op[t].cmd = "resume" THEN OpAt(t, "start") ELSE OpEnds(t)
     ELSE op' = [op EXCEPT ![t].seen = job,
                           ![t].at = IF @ = "update" THEN "save" ELSE "saveStopping"]
  /\ UNCHANGED <<job, active, stop, resumed, worker, child, files, rest>>

Updated(o) ==
  CASE o.cmd = "hide" -> [o.seen EXCEPT !.hidden = TRUE]
    [] o.cmd = "resume" -> [o.seen EXCEPT !.status = "queued"]
    [] o.cmd = "stop" ->
         [o.seen EXCEPT !.status = IF o.at = "save" THEN "stopped" ELSE "stopping"]

OpUpdateSave(t) ==
  /\ op[t].at \in {"save", "saveStopping"}
  /\ job' = Updated(op[t])
  /\ IF op[t].cmd = "resume" THEN OpAt(t, "start") ELSE OpEnds(t)
  /\ UNCHANGED <<active, stop, resumed, worker, child, files, rest>>

OpStart(t) ==
  /\ op[t].at = "start"
  /\ Starts("load")
  /\ OpEnds(t)
  /\ UNCHANGED <<job, stop, resumed, child, files, rest>>

\* DeleteDownloadJob removes the files, the stop request, then the row.
OpRemoveFiles(t) ==
  /\ op[t].at = "remove"
  /\ out' = "none" /\ target' = "none" /\ stop' = FALSE
  /\ OpAt(t, "deleteRow")
  /\ UNCHANGED <<job, active, resumed, worker, child, rest>>

OpDeleteRow(t) ==
  /\ op[t].at = "deleteRow"
  /\ job' = Absent
  /\ OpEnds(t)
  /\ UNCHANGED <<active, stop, resumed, worker, child, files, rest>>

OpStep(t) ==
  \/ OpCheck(t) \/ OpStopFlag(t) \/ OpUpdateLoad(t) \/ OpUpdateSave(t) \/ OpStart(t)
  \/ OpRemoveFiles(t) \/ OpDeleteRow(t)

-----------------------------------------------------------------------------
(* Restarts                                                                 *)

\* The controller and its child processes die; the row and the files stay.  Nothing in
\* DownloadFile ties the forked child to its parent: that it dies too is the doing of
\* systemd, which stops every process of the service's control group.
Restart ==
  /\ restarts < MaxRestarts
  /\ restarts' = restarts + 1
  /\ active' = FALSE /\ stop' = FALSE /\ resumed' = FALSE
  /\ worker' = NoWorker /\ child' = FALSE
  /\ op' = [t \in Threads |-> IdleOp]
  /\ UNCHANGED <<job, files, commands>>

\* Mutant: only queued jobs are started again.
ResumeQueuedJobs ==
  /\ ~resumed
  /\ resumed' = TRUE
  /\ IF job.status = "queued" THEN Starts("load") ELSE UNCHANGED <<active, worker>>
  /\ UNCHANGED <<job, stop, child, files, op, rest>>

\* The first listing of the jobs starts those that were queued or running.
ResumePersistentJobs ==
  /\ ~resumed
  /\ resumed' = TRUE
  /\ IF job.status \in {"queued", "running"} THEN Starts("load")
     ELSE UNCHANGED <<active, worker>>
  /\ UNCHANGED <<job, stop, child, files, op, rest>>

Next ==
  \/ Worker \/ WorkerPolls \/ ChildSucceeds \/ ChildFails
  \/ \E t \in Threads, c \in Commands : OpBegin(t, c)
  \/ \E t \in Threads : OpStep(t)
  \/ Restart \/ ResumePersistentJobs

Spec == Init /\ [][Next]_vars

\* Threads go on, child processes end and the jobs are listed.
FairSpec ==
  /\ Spec
  /\ WF_vars(Worker)
  /\ SF_vars(ChildSucceeds \/ ChildFails)
  /\ \A t \in Threads : WF_vars(OpStep(t))
  /\ WF_vars(ResumePersistentJobs)

-----------------------------------------------------------------------------
Statuses == {"absent", "queued", "running", "stopping", "stopped", "completed", "failed"}
File == {"none", "torn", "whole"}
Row == [status : Statuses, hidden : BOOLEAN]

\* The type invariant: the job row, the flags, the files and the threads have their types.
TypeOK ==
  /\ job \in Row
  /\ active \in BOOLEAN /\ stop \in BOOLEAN /\ resumed \in BOOLEAN /\ child \in BOOLEAN
  /\ worker \in [at : {"none", "load", "update", "updateSave", "work", "child", "progress",
                       "progressSave", "publish", "final", "finalSave", "clear", "inactive"},
                 seen : Row, result : {"none", "completed", "stopped", "failed"}]
  /\ out \in File /\ target \in File
  /\ op \in [Threads -> [cmd : {"none", "stop", "resume", "hide", "delete"},
                         at : {"idle", "load", "update", "updateStopping", "request",
                               "clearStop", "save", "saveStopping", "start", "remove",
                               "deleteRow"},
                         seen : Row]]
  /\ commands \in 0 .. MaxCommands /\ restarts \in 0 .. MaxRestarts

\* A job is completed only when the whole model file is there, however often it was
\* stopped, resumed and interrupted.
CompletedModelIsWhole == job.status = "completed" => target = "whole"

\* A child process runs only for a registered job, and a registered job has a thread:
\* no two threads write the same file.
ActiveJobHasThread == /\ active <=> worker.at # "none"
                      /\ child => worker.at \in {"child", "progress", "progressSave"}

\* A queued or running job ends, also when the controller is restarted.
JobEnds == job.status \in {"queued", "running"} ~> job.status \in {"completed", "failed"}
=============================================================================
