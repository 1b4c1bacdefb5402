------------------------- MODULE ModelLibraryProofs -------------------------
(***************************************************************************)
(* Proofs about ModelLibrary, for any number of HTTP threads, commands and   *)
(* restarts: the type invariant, that a job has at most one thread, and that  *)
(* a completed download is whole.                                           *)
(***************************************************************************)
EXTENDS ModelLibrary, TLAPS

\* The commands operators have, and the bounds.
Sound ==
  /\ Commands \subseteq {"stop", "resume", "hide", "delete"}
  /\ MaxCommands \in Nat /\ MaxRestarts \in Nat

WorkerType ==
  [at : {"none", "load", "update", "updateSave", "work", "child", "progress",
         "progressSave", "publish", "final", "finalSave", "clear", "inactive"},
   seen : Row, result : {"none", "completed", "stopped", "failed"}]
OpType ==
  [cmd : {"none", "stop", "resume", "hide", "delete"},
   at : {"idle", "load", "update", "updateStopping", "request", "clearStop", "save",
         "saveStopping", "start", "remove", "deleteRow"},
   seen : Row]

\* A handler is at a step of its own command.
OpOfCommand(o) ==
  /\ o.at # "idle" => o.cmd # "none"
  /\ o.at \in {"update", "save"} => o.cmd \in {"stop", "resume", "hide"}
  /\ o.at \in {"request", "updateStopping", "saveStopping"} => o.cmd = "stop"
  /\ o.at = "clearStop" => o.cmd = "resume"
  /\ o.at \in {"remove", "deleteRow"} => o.cmd = "delete"

\* The last UpdateJob of the thread has a status to write.
ResultIsKnown == worker.at \in {"final", "finalSave"} => worker.result # "none"

Typed == TypeOK /\ ResultIsKnown /\ \A t \in Threads : OpOfCommand(op[t])

\* Types of the constant records.
LEMMA ConstantTypes ==
  /\ Absent \in Row /\ NoWorker \in WorkerType /\ IdleOp \in OpType
  /\ OpOfCommand(IdleOp)
  BY DEF Absent, Row, Statuses, NoWorker, WorkerType, IdleOp, OpType, OpOfCommand

LEMMA TypeOKParts ==
  TypeOK <=>
    /\ job \in Row
    /\ active \in BOOLEAN /\ stop \in BOOLEAN /\ resumed \in BOOLEAN /\ child \in BOOLEAN
    /\ worker \in WorkerType
    /\ out \in File /\ target \in File
    /\ op \in [Threads -> OpType]
    /\ commands \in 0 .. MaxCommands /\ restarts \in 0 .. MaxRestarts
  BY DEF TypeOK, WorkerType, OpType

\* A step of a handler that leaves a well typed handler behind.
LEMMA OpWise ==
  ASSUME NEW t \in Threads, NEW o, op \in [Threads -> OpType],
         \A u \in Threads : OpOfCommand(op[u]),
         o \in OpType, OpOfCommand(o), op' = [op EXCEPT ![t] = o]
  PROVE  op' \in [Threads -> OpType] /\ \A u \in Threads : OpOfCommand(op'[u])
  BY DEF OpOfCommand

LEMMA TypedInit == ASSUME Sound, Init PROVE Typed
  <1>1. job \in Row /\ worker \in WorkerType
    BY ConstantTypes DEF Init, Row, Statuses, WorkerType
  <1>2. op \in [Threads -> OpType] /\ \A t \in Threads : OpOfCommand(op[t])
    BY ConstantTypes DEF Init
  <1>3. /\ active \in BOOLEAN /\ stop \in BOOLEAN /\ resumed \in BOOLEAN /\ child \in BOOLEAN
        /\ out \in File /\ target \in File
    BY Zenon DEF Init, File
  <1>5. commands \in 0 .. MaxCommands /\ restarts \in 0 .. MaxRestarts
    BY DEF Init, Sound
  <1>4. ResultIsKnown
    BY DEF Init, ResultIsKnown, NoWorker
  <1> QED BY <1>1, <1>2, <1>3, <1>4, <1>5, TypeOKParts DEF Typed

\* The steps of the thread of the job, which leave the handlers alone.
LEMMA WorkerTyped ==
  ASSUME Typed, Worker \/ WorkerPolls \/ ChildSucceeds \/ ChildFails
  PROVE  Typed'
  <1>0. /\ job \in Row /\ active \in BOOLEAN /\ stop \in BOOLEAN /\ resumed \in BOOLEAN
        /\ child \in BOOLEAN /\ worker \in WorkerType /\ out \in File /\ target \in File
        /\ op \in [Threads -> OpType] /\ \A t \in Threads : OpOfCommand(op[t])
        /\ commands \in 0 .. MaxCommands /\ restarts \in 0 .. MaxRestarts
        /\ ResultIsKnown
    BY TypeOKParts DEF Typed
  <1> DEFINE Parts == /\ ResultIsKnown
                      /\ job \in Row /\ active \in BOOLEAN /\ stop \in BOOLEAN /\ child \in BOOLEAN
                      /\ worker \in WorkerType /\ out \in File /\ target \in File
  <1>a. Parts' /\ UNCHANGED <<resumed, op, commands, restarts>> => Typed'
    <2> SUFFICES ASSUME Parts', UNCHANGED <<resumed, op, commands, restarts>> PROVE Typed'
      OBVIOUS
    <2>1. \A t \in Threads : OpOfCommand(op'[t])
      BY <1>0
    <2>2. TypeOK'
      BY <1>0, TypeOKParts DEF TypeOK, WorkerType, OpType
    <2> QED BY <2>1, <2>2 DEF Typed, OpOfCommand, ResultIsKnown
  <1> USE DEF ResultIsKnown
  <1>1. CASE WorkerLoad
    BY <1>0, <1>1, <1>a DEF WorkerLoad, WorkerAt, WorkerType, files, rest
  <1>2. CASE WorkerUpdateLoad
    BY <1>0, <1>2, <1>a DEF WorkerUpdateLoad, WorkerType, files, rest
  <1>3. CASE WorkerUpdateSave
    BY <1>0, <1>3, <1>a DEF WorkerUpdateSave, WorkerAt, WorkerType, Row, Statuses, files, rest
  <1>4. CASE StartChild
    BY <1>0, <1>4, <1>a DEF StartChild, WorkerAt, Ends, WorkerType, File, rest
  <1>5. CASE WorkerPolls
    BY <1>0, <1>5, <1>a DEF WorkerPolls, WorkerAt, WorkerType, files, rest
  <1>6. CASE ChildSucceeds
    BY <1>0, <1>6, <1>a DEF ChildSucceeds, WorkerAt, Ends, WorkerType, File, rest
  <1>7. CASE ChildFails
    BY <1>0, <1>7, <1>a DEF ChildFails, AfterChildFailure, Ends, WorkerType, files, rest
  <1>8. CASE Publish
    BY <1>0, <1>8, <1>a DEF Publish, Ends, WorkerType, File, files, rest
  <1>9. CASE WorkerFinalLoad
    BY <1>0, <1>9, <1>a DEF WorkerFinalLoad, WorkerType, files, rest
  <1>10. CASE WorkerFinalSave
    BY <1>0, <1>10, <1>a DEF WorkerFinalSave, WorkerAt, WorkerType, Row, Statuses, files, rest
  <1>11. CASE WorkerClearsStop
    BY <1>0, <1>11, <1>a DEF WorkerClearsStop, WorkerAt, WorkerType, files, rest
  <1>12. CASE WorkerEnds
    BY <1>0, <1>12, <1>a, ConstantTypes DEF WorkerEnds, NoWorker, files, rest
  <1> QED BY <1>1, <1>2, <1>3, <1>4, <1>5, <1>6, <1>7, <1>8, <1>9, <1>10, <1>11, <1>12 DEF Worker

\* The steps of a handler.
LEMMA OpTyped ==
  ASSUME Sound, Typed, NEW t \in Threads, OpStep(t) \/ \E c \in Commands : OpBegin(t, c)
  PROVE  Typed'
  <1>0. /\ job \in Row /\ active \in BOOLEAN /\ stop \in BOOLEAN /\ resumed \in BOOLEAN
        /\ child \in BOOLEAN /\ worker \in WorkerType /\ out \in File /\ target \in File
        /\ op \in [Threads -> OpType] /\ \A u \in Threads : OpOfCommand(op[u])
        /\ commands \in 0 .. MaxCommands /\ restarts \in 0 .. MaxRestarts
        /\ ResultIsKnown /\ op[t] \in OpType /\ OpOfCommand(op[t])
    BY TypeOKParts DEF Typed
  <1>a. ASSUME /\ job' \in Row /\ active' \in BOOLEAN /\ stop' \in BOOLEAN
               /\ worker' \in WorkerType /\ ResultIsKnown' /\ out' \in File /\ target' \in File
               /\ commands' \in 0 .. MaxCommands,
               UNCHANGED <<resumed, child, restarts>>,
               NEW o, o \in OpType, OpOfCommand(o), op' = [op EXCEPT ![t] = o]
        PROVE  Typed'
    <2>1. op' \in [Threads -> OpType] /\ \A u \in Threads : OpOfCommand(op'[u])
      BY <1>0, <1>a, OpWise
    <2>2. TypeOK'
      BY <1>0, <1>a, <2>1 DEF TypeOK, WorkerType, OpType
    <2> QED BY <1>a, <2>1, <2>2 DEF Typed, OpOfCommand
  <1>b. UNCHANGED worker => worker' \in WorkerType /\ ResultIsKnown'
    BY <1>0 DEF ResultIsKnown
  <1>1. ASSUME NEW c \in Commands, OpBegin(t, c) PROVE Typed'
    <2> DEFINE o == [cmd |-> c, at |-> "load", seen |-> Absent]
    <2>1. o \in OpType /\ OpOfCommand(o)
      BY ConstantTypes DEF OpType, OpOfCommand, Sound
    <2>2. commands' \in 0 .. MaxCommands
      BY <1>0, <1>1 DEF OpBegin, Sound
    <2> QED BY <1>0, <1>1, <1>a, <1>b, <2>1, <2>2 DEF OpBegin, files
  <1>2. CASE OpCheck(t)
    <2> DEFINE next == AfterCheck(op[t].cmd, job.status)
               o == IF next = "end" THEN IdleOp ELSE [op[t] EXCEPT !.at = next, !.seen = job]
    <2>1. /\ next \in {"update", "request", "clearStop", "remove", "end"}
          /\ next = "update" => op[t].cmd \in {"stop", "resume", "hide"}
          /\ next = "request" => op[t].cmd = "stop"
          /\ next = "clearStop" => op[t].cmd = "resume"
          /\ next = "remove" => op[t].cmd = "delete"
          /\ op[t].cmd # "none"
      BY <1>0, <1>2 DEF OpCheck, AfterCheck, OpType, OpOfCommand
    <2>2. op' = [op EXCEPT ![t] = o]
      BY <1>2 DEF OpCheck
    <2> HIDE DEF next
    <2>3. CASE next = "end"
      BY <1>0, <1>2, <1>a, <1>b, <2>2, <2>3, ConstantTypes DEF OpCheck, files, rest
    <2>4. CASE next # "end"
      <3>1. o \in OpType
        BY <1>0, <2>1, <2>4 DEF OpType
      <3>2. OpOfCommand(o)
        BY <1>0, <2>1, <2>4 DEF OpType, OpOfCommand
      <3> QED BY <1>0, <1>2, <1>a, <1>b, <2>2, <3>1, <3>2 DEF OpCheck, files, rest
    <2> QED BY <2>3, <2>4
  <1>3. CASE OpStopFlag(t)
    <2> DEFINE o == [op[t] EXCEPT !.at = IF op[t].at = "request" THEN "updateStopping" ELSE "update"]
    <2>1. op' = [op EXCEPT ![t] = o]
      BY <1>0, <1>3 DEF OpStopFlag, OpAt
    <2>2. o \in OpType /\ OpOfCommand(o)
      BY <1>0, <1>3 DEF OpStopFlag, OpType, OpOfCommand
    <2>3. stop' \in BOOLEAN
      BY <1>3 DEF OpStopFlag
    <2> QED BY <1>0, <1>3, <1>a, <1>b, <2>1, <2>2, <2>3 DEF OpStopFlag, files, rest
  <1>4. CASE OpUpdateLoad(t)
    <2>1. CASE job = Absent /\ op[t].cmd = "resume"
      <3> DEFINE o == [op[t] EXCEPT !.at = "start"]
      <3>1. op' = [op EXCEPT ![t] = o]
        BY <1>0, <1>4, <2>1 DEF OpUpdateLoad, OpAt
      <3>2. o \in OpType /\ OpOfCommand(o)
        BY <1>0, <2>1 DEF OpType, OpOfCommand
      <3> QED BY <1>0, <1>4, <1>a, <1>b, <3>1, <3>2 DEF OpUpdateLoad, files, rest
    <2>2. CASE job = Absent /\ op[t].cmd # "resume"
      BY <1>0, <1>4, <1>a, <1>b, <2>2, ConstantTypes DEF OpUpdateLoad, OpEnds, files, rest
    <2>3. CASE job # Absent
      <3> DEFINE o == [op[t] EXCEPT !.seen = job,
                                    !.at = IF op[t].at = "update" THEN "save" ELSE "saveStopping"]
      <3>1. op' = [op EXCEPT ![t] = o]
        BY <1>0, <1>4, <2>3 DEF OpUpdateLoad, OpType
      <3>2. o \in OpType /\ OpOfCommand(o)
        BY <1>0, <1>4, <2>3 DEF OpUpdateLoad, OpType, OpOfCommand
      <3> QED BY <1>0, <1>4, <1>a, <1>b, <3>1, <3>2 DEF OpUpdateLoad, files, rest
    <2> QED BY <2>1, <2>2, <2>3
  <1>5. CASE OpUpdateSave(t)
    <2>1. job' \in Row
      BY <1>0, <1>5 DEF OpUpdateSave, Updated, OpType, OpOfCommand, Row, Statuses
    <2>2. CASE op[t].cmd = "resume"
      <3> DEFINE o == [op[t] EXCEPT !.at = "start"]
      <3>1. op' = [op EXCEPT ![t] = o]
        BY <1>0, <1>5, <2>2 DEF OpUpdateSave, OpAt
      <3>2. o \in OpType /\ OpOfCommand(o)
        BY <1>0, <2>2 DEF OpType, OpOfCommand
      <3> QED BY <1>0, <1>5, <1>a, <1>b, <2>1, <3>1, <3>2 DEF OpUpdateSave, files, rest
    <2>3. CASE op[t].cmd # "resume"
      BY <1>0, <1>5, <1>a, <1>b, <2>1, <2>3, ConstantTypes DEF OpUpdateSave, OpEnds, files, rest
    <2> QED BY <2>2, <2>3
  <1>6. CASE OpStart(t)
    <2>1. active' \in BOOLEAN /\ worker' \in WorkerType /\ ResultIsKnown'
      BY <1>0, <1>6, ConstantTypes DEF OpStart, Starts, WorkerType, ResultIsKnown, NoWorker
    <2> QED BY <1>0, <1>6, <1>a, <2>1, ConstantTypes DEF OpStart, OpEnds, files, rest
  <1>7. CASE OpRemoveFiles(t)
    <2> DEFINE o == [op[t] EXCEPT !.at = "deleteRow"]
    <2>1. op' = [op EXCEPT ![t] = o]
      BY <1>0, <1>7 DEF OpRemoveFiles, OpAt
    <2>2. o \in OpType /\ OpOfCommand(o)
      BY <1>0, <1>7 DEF OpRemoveFiles, OpType, OpOfCommand
    <2>3. stop' \in BOOLEAN /\ out' \in File /\ target' \in File
      BY <1>7 DEF OpRemoveFiles, File
    <2> QED BY <1>0, <1>7, <1>a, <1>b, <2>1, <2>2, <2>3 DEF OpRemoveFiles, rest
  <1>8. CASE OpDeleteRow(t)
    BY <1>0, <1>8, <1>a, <1>b, ConstantTypes DEF OpDeleteRow, OpEnds, files, rest
  <1> QED BY <1>1, <1>2, <1>3, <1>4, <1>5, <1>6, <1>7, <1>8 DEF OpStep

LEMMA TypedStep == ASSUME Sound, Typed, [Next]_vars PROVE Typed'
  <1>0. /\ job \in Row /\ active \in BOOLEAN /\ stop \in BOOLEAN /\ resumed \in BOOLEAN
        /\ child \in BOOLEAN /\ worker \in WorkerType /\ out \in File /\ target \in File
        /\ op \in [Threads -> OpType] /\ \A u \in Threads : OpOfCommand(op[u])
        /\ commands \in 0 .. MaxCommands /\ restarts \in 0 .. MaxRestarts
        /\ ResultIsKnown
    BY TypeOKParts DEF Typed
  <1>1. CASE Worker \/ WorkerPolls \/ ChildSucceeds \/ ChildFails
    BY <1>1, WorkerTyped
  <1>2. CASE \E t \in Threads : OpStep(t) \/ \E c \in Commands : OpBegin(t, c)
    BY <1>2, OpTyped
  <1>3. CASE Restart
    <2>1. /\ job' \in Row /\ active' \in BOOLEAN /\ stop' \in BOOLEAN /\ resumed' \in BOOLEAN
          /\ child' \in BOOLEAN /\ out' \in File /\ target' \in File
      BY <1>0, <1>3, Zenon DEF Restart, files
    <2>5. commands' \in 0 .. MaxCommands /\ restarts' \in 0 .. MaxRestarts
      BY <1>0, <1>3 DEF Restart, Sound
    <2>2. worker' \in WorkerType /\ ResultIsKnown'
      BY <1>3, ConstantTypes DEF Restart, ResultIsKnown, NoWorker
    <2>3. op' \in [Threads -> OpType] /\ \A u \in Threads : OpOfCommand(op'[u])
      BY <1>3, ConstantTypes DEF Restart
    <2>4. TypeOK'
      BY <2>1, <2>2, <2>3, <2>5 DEF TypeOK, WorkerType, OpType
    <2> QED BY <2>2, <2>3, <2>4 DEF Typed, OpOfCommand
  <1>4. CASE ResumePersistentJobs
    <2>1. active' \in BOOLEAN /\ worker' \in WorkerType /\ ResultIsKnown' /\ resumed' \in BOOLEAN
      BY <1>0, <1>4, ConstantTypes
         DEF ResumePersistentJobs, Starts, WorkerType, ResultIsKnown, NoWorker
    <2>2. TypeOK'
      BY <1>0, <1>4, <2>1 DEF ResumePersistentJobs, files, rest, TypeOK, WorkerType, OpType
    <2> QED BY <1>0, <1>4, <2>1, <2>2 DEF ResumePersistentJobs, Typed, OpOfCommand
  <1>5. CASE UNCHANGED vars
    BY <1>0, <1>5 DEF vars, Typed, TypeOK, OpOfCommand, ResultIsKnown, WorkerType, OpType
  <1> QED BY <1>1, <1>2, <1>3, <1>4, <1>5 DEF Next

\* Every reachable state of a job of the model library is well typed: the thread always
\* has a status to write and a handler always has an update to make.
THEOREM TypeCorrect == ASSUME Sound PROVE Spec => []TypeOK
  <1>1. Init => Typed
    BY TypedInit
  <1>2. Typed /\ [Next]_vars => Typed'
    BY TypedStep
  <1>3. Typed => TypeOK
    BY DEF Typed
  <1> QED BY <1>1, <1>2, <1>3, PTL DEF Spec

-----------------------------------------------------------------------------
(* One thread per job                                                       *)

LEMMA ThreadStep ==
  ASSUME Sound, Typed, ActiveJobHasThread, [Next]_vars PROVE ActiveJobHasThread'
  <1>0. active \in BOOLEAN /\ child \in BOOLEAN /\ worker \in WorkerType
    BY TypeOKParts DEF Typed
  <1> USE DEF ActiveJobHasThread
  <1>a. ASSUME active' = active, worker.at # "none", worker'.at # "none",
               \/ child' = child /\ (worker.at \in {"child", "progress", "progressSave"} =>
                                       worker'.at \in {"child", "progress", "progressSave"})
               \/ child' = TRUE /\ worker'.at = "child"
               \/ child' = FALSE
        PROVE  ActiveJobHasThread'
    <2>1. active' <=> worker'.at # "none"
      BY <1>a, Zenon
    <2>2. child' => worker'.at \in {"child", "progress", "progressSave"}
      <3>1. CASE child' = child
        BY <1>a, <3>1, Zenon
      <3>2. CASE child' # child
        BY <1>a, <3>2
      <3> QED BY <3>1, <3>2
    <2> QED BY <2>1, <2>2
  <1>1. CASE WorkerLoad \/ WorkerUpdateLoad \/ WorkerUpdateSave
    <2>1. /\ active' = active /\ child' = child /\ worker.at # "none" /\ worker'.at # "none"
          /\ worker.at \in {"child", "progress", "progressSave"} =>
               worker'.at \in {"child", "progress", "progressSave"}
      BY <1>0, <1>1 DEF WorkerLoad, WorkerUpdateLoad, WorkerUpdateSave, WorkerAt, WorkerType
    <2> QED BY <1>a, <2>1
  <1>2. CASE StartChild \/ WorkerPolls \/ ChildSucceeds
    <2>1. /\ active' = active /\ worker.at # "none" /\ worker'.at # "none"
          /\ \/ child' = child /\ (worker.at \in {"child", "progress", "progressSave"} =>
                                     worker'.at \in {"child", "progress", "progressSave"})
             \/ child' = TRUE /\ worker'.at = "child"
             \/ child' = FALSE
      BY <1>0, <1>2 DEF StartChild, WorkerPolls, ChildSucceeds, WorkerAt, Ends, WorkerType
    <2> QED BY <1>a, <2>1
  <1>3. CASE ChildFails \/ Publish
    <2>1. /\ active' = active /\ worker.at # "none" /\ worker'.at # "none"
          /\ child' = FALSE \/ (child' = child /\ worker.at = "publish")
      <3>1. CASE ChildFails
        <4>1. worker'.at # "none" /\ worker.at # "none"
          BY <1>0, <3>1 DEF ChildFails, AfterChildFailure, Ends, WorkerType
        <4>2. active' = active /\ child' = FALSE
          BY <3>1, Zenon DEF ChildFails
        <4> QED BY <4>1, <4>2, Zenon
      <3>2. CASE Publish
        <4>1. worker'.at = "final" /\ worker.at = "publish"
          BY <1>0, <3>2 DEF Publish, Ends, WorkerType
        <4>2. active' = active /\ child' = child
          BY <3>2, Zenon DEF Publish
        <4> QED BY <4>1, <4>2
      <3> QED BY <1>3, <3>1, <3>2
    <2> QED BY <1>a, <2>1
  <1>4. CASE WorkerFinalLoad \/ WorkerFinalSave \/ WorkerClearsStop
    <2>1. /\ active' = active /\ child' = child /\ worker.at \in {"final", "finalSave", "clear"}
          /\ worker'.at # "none"
      BY <1>0, <1>4 DEF WorkerFinalLoad, WorkerFinalSave, WorkerClearsStop, WorkerAt, WorkerType
    <2> QED BY <1>a, <2>1
  <1>10. CASE WorkerEnds
    <2>1. active' = FALSE /\ worker'.at = "none" /\ child' = child /\ worker.at = "inactive"
      BY <1>10 DEF WorkerEnds, NoWorker
    <2> QED BY <2>1
  <1>5. ASSUME NEW t \in Threads, OpStep(t) PROVE ActiveJobHasThread'
    <2>1. CASE OpStart(t)
      BY <1>0, <2>1 DEF OpStart, Starts, NoWorker
    <2>2. CASE ~OpStart(t)
      BY <1>5, <2>2 DEF OpStep, OpCheck, OpStopFlag, OpUpdateLoad, OpUpdateSave, OpRemoveFiles,
                        OpDeleteRow
    <2> QED BY <2>1, <2>2
  <1>6. ASSUME NEW t \in Threads, NEW c \in Commands, OpBegin(t, c) PROVE ActiveJobHasThread'
    BY <1>6 DEF OpBegin
  <1>7. CASE Restart
    BY <1>7 DEF Restart, NoWorker
  <1>8. CASE ResumePersistentJobs
    BY <1>0, <1>8 DEF ResumePersistentJobs, Starts, NoWorker
  <1>9. CASE UNCHANGED vars
    BY <1>9 DEF vars
  <1> QED BY <1>1, <1>2, <1>3, <1>4, <1>5, <1>6, <1>7, <1>8, <1>9, <1>10 DEF Next, Worker

\* At most one thread works for a job and a child process runs only under it, however
\* resumptions of several operators and a restart overlap.
THEOREM OneThreadPerJob == ASSUME Sound PROVE Spec => []ActiveJobHasThread
  <1>1. Init => Typed /\ ActiveJobHasThread
    BY TypedInit DEF Init, ActiveJobHasThread, NoWorker
  <1>2. Typed /\ ActiveJobHasThread /\ [Next]_vars => (Typed /\ ActiveJobHasThread)'
    BY TypedStep, ThreadStep
  <1> QED BY <1>1, <1>2, PTL DEF Spec

-----------------------------------------------------------------------------
(* Whole downloads                                                          *)

\* No operator deletes the job, whose files are then removed before its row.
NoDeletes == Kind = "download" /\ "delete" \notin Commands

\* What the thread publishes is whole, and so is what stands at the target.
OutputIsWhole ==
  /\ worker.at = "publish" => out # "torn"
  /\ target # "torn"

\* The row, the copies of it that the threads write back, and the thread's result say
\* "completed" only when the file is there.
CompletedIsTrue ==
  \/ target = "whole"
  \/ /\ job.status # "completed"
     /\ worker.seen.status # "completed" /\ worker.result # "completed"
     /\ \A t \in Threads : op[t].seen.status # "completed"

NoDeleteRuns == \A t \in Threads : op[t].cmd # "delete"

DownloadInv == OutputIsWhole /\ CompletedIsTrue /\ NoDeleteRuns

LEMMA DownloadWorker ==
  ASSUME Sound, NoDeletes, Typed, DownloadInv, Worker \/ WorkerPolls \/ ChildSucceeds \/ ChildFails
  PROVE  DownloadInv'
  <1>0. job \in Row /\ worker \in WorkerType /\ out \in File /\ target \in File
    BY TypeOKParts DEF Typed
  <1>1. op' = op
    BY DEF Worker, WorkerLoad, WorkerUpdateLoad, WorkerUpdateSave, StartChild, Publish,
           WorkerFinalLoad, WorkerFinalSave, WorkerClearsStop, WorkerEnds, WorkerPolls,
           ChildSucceeds, ChildFails
  <1>2. NoDeleteRuns'
    BY <1>1 DEF DownloadInv, NoDeleteRuns
  <1> USE DEF DownloadInv, OutputIsWhole, CompletedIsTrue, files
  <1>3. CASE WorkerLoad \/ WorkerUpdateLoad \/ WorkerUpdateSave
    BY <1>0, <1>1, <1>2, <1>3
       DEF WorkerLoad, WorkerUpdateLoad, WorkerUpdateSave, WorkerAt, WorkerType, Row
  <1>4. CASE StartChild
    BY <1>0, <1>1, <1>2, <1>4 DEF StartChild, OutputIsThere, WorkerAt, Ends, WorkerType, File, NoDeletes
  <1>5. CASE WorkerPolls \/ ChildSucceeds
    BY <1>0, <1>1, <1>2, <1>5 DEF WorkerPolls, ChildSucceeds, WorkerAt, Ends, WorkerType
  <1>6. CASE ChildFails \/ Publish
    BY <1>0, <1>1, <1>2, <1>6 DEF ChildFails, AfterChildFailure, Publish, Ends, WorkerType, File
  <1>7. CASE WorkerFinalLoad \/ WorkerFinalSave
    BY <1>0, <1>1, <1>2, <1>7 DEF WorkerFinalLoad, WorkerFinalSave, WorkerAt, WorkerType, Row
  <1>8. CASE WorkerClearsStop \/ WorkerEnds
    BY <1>0, <1>1, <1>2, <1>8 DEF WorkerClearsStop, WorkerEnds, WorkerAt, WorkerType, NoWorker, Absent
  <1> QED BY <1>3, <1>4, <1>5, <1>6, <1>7, <1>8 DEF Worker

LEMMA DownloadOp ==
  ASSUME Sound, NoDeletes, Typed, DownloadInv, NEW t \in Threads,
         OpStep(t) \/ \E c \in Commands : OpBegin(t, c)
  PROVE  DownloadInv'
  <1>0. /\ job \in Row /\ worker \in WorkerType /\ target \in File /\ op \in [Threads -> OpType]
        /\ OpOfCommand(op[t]) /\ op[t].cmd # "delete" /\ op[t] \in OpType
    BY TypeOKParts DEF Typed, DownloadInv, NoDeleteRuns
  \* A handler leaves the files alone, and keeps a copy of the row or the one it had.
  <1>a. ASSUME UNCHANGED <<out, target>>,
               worker' = worker \/ worker' = [NoWorker EXCEPT !.at = "load"],
               NEW o, op' = [op EXCEPT ![t] = o], o.cmd # "delete",
               o.seen \in {Absent, job, op[t].seen},
               job'.status # "completed" \/ job' = job \/ job'.status = op[t].seen.status
        PROVE  DownloadInv'
    <2>1. NoDeleteRuns'
      BY <1>0, <1>a DEF DownloadInv, NoDeleteRuns
    <2>2. OutputIsWhole'
      BY <1>a DEF DownloadInv, OutputIsWhole, NoWorker
    <2>3. CompletedIsTrue'
      <3>1. CASE target = "whole"
        BY <1>a, <3>1 DEF CompletedIsTrue
      <3>2. CASE target # "whole"
        <4>1. job'.status # "completed"
          BY <1>a, <3>2 DEF DownloadInv, CompletedIsTrue
        <4>2. worker'.seen.status # "completed" /\ worker'.result # "completed"
          BY <1>a, <3>2 DEF DownloadInv, CompletedIsTrue, NoWorker, Absent
        <4>3. o.seen.status # "completed"
          BY <1>a, <3>2 DEF DownloadInv, CompletedIsTrue, Absent
        <4>4. \A u \in Threads : op'[u].seen.status # "completed"
          BY <1>0, <1>a, <3>2, <4>3 DEF DownloadInv, CompletedIsTrue
        <4> QED BY <4>1, <4>2, <4>4 DEF CompletedIsTrue
      <3> QED BY <3>1, <3>2
    <2> QED BY <2>1, <2>2, <2>3 DEF DownloadInv
  <1>1. ASSUME NEW c \in Commands, OpBegin(t, c) PROVE DownloadInv'
    <2> DEFINE o == [cmd |-> c, at |-> "load", seen |-> Absent]
    <2>1. c # "delete"
      BY DEF NoDeletes
    <2>2. op' = [op EXCEPT ![t] = o] /\ o.cmd # "delete" /\ o.seen = Absent
      BY <1>1, <2>1 DEF OpBegin
    <2> HIDE DEF o
    <2> QED BY <1>1, <1>a, <2>2 DEF OpBegin, files
  <1>b. IdleOp.cmd # "delete" /\ IdleOp.seen = Absent
    BY DEF IdleOp
  <1>2. CASE OpCheck(t)
    <2> DEFINE next == AfterCheck(op[t].cmd, job.status)
               o == IF next = "end" THEN IdleOp ELSE [op[t] EXCEPT !.at = next, !.seen = job]
    <2>1. op' = [op EXCEPT ![t] = o] /\ job' = job
      BY <1>2 DEF OpCheck
    <2> HIDE DEF next
    <2>2. o.cmd # "delete" /\ o.seen \in {Absent, job, op[t].seen}
      BY <1>0, <1>b DEF OpType
    <2> QED BY <1>2, <1>a, <2>1, <2>2 DEF OpCheck, files
  <1>3. CASE OpStopFlag(t)
    <2> DEFINE o == [op[t] EXCEPT !.at = IF op[t].at = "request" THEN "updateStopping" ELSE "update"]
    <2>1. op' = [op EXCEPT ![t] = o]
      BY <1>0, <1>3 DEF OpStopFlag, OpAt
    <2>2. o.cmd # "delete" /\ o.seen = op[t].seen
      BY <1>0 DEF OpType
    <2> HIDE DEF o
    <2> QED BY <1>3, <1>a, <2>1, <2>2 DEF OpStopFlag, files
  <1>c. ASSUME NEW at, OpAt(t, at) PROVE \E o : /\ op' = [op EXCEPT ![t] = o]
                                                /\ o.cmd # "delete" /\ o.seen = op[t].seen
    <2> DEFINE o == [op[t] EXCEPT !.at = at]
    <2>1. op' = [op EXCEPT ![t] = o] /\ o.cmd # "delete" /\ o.seen = op[t].seen
      BY <1>0, <1>c DEF OpAt, OpType
    <2> QED BY <2>1
  <1>4. CASE OpUpdateLoad(t)
    <2>1. CASE job = Absent /\ op[t].cmd = "resume"
      <3>1. PICK o : op' = [op EXCEPT ![t] = o] /\ o.cmd # "delete" /\ o.seen = op[t].seen
        BY <1>4, <1>c, <2>1 DEF OpUpdateLoad
      <3> QED BY <1>4, <1>a, <3>1 DEF OpUpdateLoad, files
    <2>2. CASE job = Absent /\ op[t].cmd # "resume"
      BY <1>4, <1>a, <1>b, <2>2 DEF OpUpdateLoad, OpEnds, files
    <2>3. CASE job # Absent
      <3> DEFINE o == [op[t] EXCEPT !.seen = job,
                                    !.at = IF op[t].at = "update" THEN "save" ELSE "saveStopping"]
      <3>1. op' = [op EXCEPT ![t] = o]
        BY <1>0, <1>4, <2>3 DEF OpUpdateLoad, OpType
      <3>2. o.cmd # "delete" /\ o.seen = job
        BY <1>0 DEF OpType
      <3> HIDE DEF o
      <3> QED BY <1>4, <1>a, <3>1, <3>2 DEF OpUpdateLoad, files
    <2> QED BY <2>1, <2>2, <2>3
  <1>5. CASE OpUpdateSave(t)
    <2>1. job'.status # "completed" \/ job'.status = op[t].seen.status
      BY <1>0, <1>5 DEF OpUpdateSave, Updated, OpType, OpOfCommand, Row
    <2>2. CASE op[t].cmd = "resume"
      <3>1. PICK o : op' = [op EXCEPT ![t] = o] /\ o.cmd # "delete" /\ o.seen = op[t].seen
        BY <1>5, <1>c, <2>2 DEF OpUpdateSave
      <3> QED BY <1>5, <1>a, <2>1, <3>1 DEF OpUpdateSave, files
    <2>3. CASE op[t].cmd # "resume"
      BY <1>5, <1>a, <1>b, <2>1, <2>3 DEF OpUpdateSave, OpEnds, files
    <2> QED BY <2>2, <2>3
  <1>6. CASE OpStart(t)
    <2>1. worker' = worker \/ worker' = [NoWorker EXCEPT !.at = "load"]
      BY <1>6 DEF OpStart, Starts
    <2> QED BY <1>6, <1>a, <1>b, <2>1 DEF OpStart, OpEnds, files
  <1>7. CASE OpRemoveFiles(t) \/ OpDeleteRow(t)
    BY <1>0, <1>7 DEF OpRemoveFiles, OpDeleteRow, OpOfCommand
  <1> QED BY <1>1, <1>2, <1>3, <1>4, <1>5, <1>6, <1>7 DEF OpStep

\* A download is completed only with the whole model file in place, for any number of
\* operators, commands and restarts, as long as no operator deletes the job.
THEOREM CompletedDownloadIsWhole ==
  ASSUME Sound, NoDeletes PROVE Spec => []CompletedModelIsWhole
  <1>1. Init => Typed /\ DownloadInv
    <2> SUFFICES ASSUME Init PROVE DownloadInv
      BY TypedInit
    <2> QED BY DEF Init, DownloadInv, OutputIsWhole, CompletedIsTrue, NoDeleteRuns, NoWorker,
                   IdleOp, Absent
  <1>2. Typed /\ DownloadInv /\ [Next]_vars => (Typed /\ DownloadInv)'
    <2> SUFFICES ASSUME Typed, DownloadInv, [Next]_vars PROVE DownloadInv'
      BY TypedStep
    <2>1. CASE Worker \/ WorkerPolls \/ ChildSucceeds \/ ChildFails
      BY <2>1, DownloadWorker
    <2>2. CASE \E t \in Threads : OpStep(t) \/ \E c \in Commands : OpBegin(t, c)
      BY <2>2, DownloadOp
    <2>3. CASE Restart
      BY <2>3 DEF Restart, DownloadInv, OutputIsWhole, CompletedIsTrue, NoDeleteRuns, NoWorker,
                  IdleOp, Absent, files
    <2>4. CASE ResumePersistentJobs
      <3>1. worker' = worker \/ worker' = [NoWorker EXCEPT !.at = "load"]
        BY <2>4 DEF ResumePersistentJobs, Starts
      <3> QED BY <2>4, <3>1 DEF ResumePersistentJobs, DownloadInv, OutputIsWhole, CompletedIsTrue,
                                NoDeleteRuns, NoWorker, Absent, files
    <2>5. CASE UNCHANGED vars
      BY <2>5 DEF vars, DownloadInv, OutputIsWhole, CompletedIsTrue, NoDeleteRuns
    <2> QED BY <2>1, <2>2, <2>3, <2>4, <2>5 DEF Next
  <1>3. DownloadInv => CompletedModelIsWhole
    BY DEF DownloadInv, CompletedIsTrue, CompletedModelIsWhole
  <1> QED BY <1>1, <1>2, <1>3, PTL DEF Spec
=============================================================================
