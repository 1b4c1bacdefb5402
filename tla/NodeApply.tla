----------------------------- MODULE NodeApply -----------------------------
(***************************************************************************)
(* ApplyDesiredNodeState: how hostd turns a node into what a row asks for.    *)
(*                                                                         *)
(* The plan is the difference between the desired slice of the plane and the  *)
(* local state file, which is written last; nothing looks at the disks, files *)
(* and containers the node really has.  An application may be abandoned       *)
(* between any two steps, because a step throws or hostd is killed, and the    *)
(* next one starts from a record that does not know of it.                   *)
(*                                                                         *)
(* hostd holds the assignment lock, so one application runs at a time.  It has *)
(* root rights and runs compose ("exec").  A slice with instances has an infer  *)
(* instance and a bootstrap model.                                            *)
(***************************************************************************)
EXTENDS Naturals, FiniteSets, FiniteSetsExt

CONSTANTS
  Planes,        \* planes with a slice on this node
  Disks,         \* names of the disks of a plane
  Shared,        \* the plane-shared disk
  Slices,        \* what the controller may ask for
  MaxContent,    \* instances are a number in 1..MaxContent, 0 is none
  Primary,       \* this node is the primary infer node of its planes
  MaxRows, MaxAbandons  \* bounds

VARIABLES
  row,           \* per plane: the slice and the generation asked for
  disk,          \* per plane and disk: its size (0: none) and what lies on it
  compose,       \* per plane: instances in docker-compose.yml
  running,       \* per plane: instances in containers
  state,         \* per plane: applied-state.json
  torn,          \* per plane: that file was truncated and not yet written
  generation,    \* per plane: applied-generation.txt (0: none, or truncated)
  aggregate,     \* applied-generation.txt of the node
  proc,          \* the application under way
  halfway,       \* history: an application changed the node and left no record
  strayed,       \* history: the slices of such applications
  rows, abandons \* counters of the bounds

vars == <<row, disk, compose, running, state, torn, generation, aggregate, proc,
          halfway, strayed, rows, abandons>>
node == <<disk, compose, running>>
files == <<state, torn, generation, aggregate>>
history == <<halfway, strayed>>
requests == <<row, rows, abandons>>

NoDisk == [size |-> 0, model |-> FALSE, config |-> 0]
Empty == [disks |-> [d \in Disks |-> 0], services |-> 0]

\* docker compose up failed: some containers are new, some are old or missing.
Partial == MaxContent + 1

Idle == [step |-> "idle"]

-----------------------------------------------------------------------------
(* The plan: BuildNodeExecutionPlans.                                        *)

\* A mutant: disks the slice no longer names are forgotten.
DiskOperationsOfSlice(current, desired) ==
  LET differs == {d \in Disks : desired.disks[d] # 0 /\ current.disks[d] # desired.disks[d]}
  IN  {<<"remove", d>> : d \in {x \in differs : current.disks[x] # 0}}
      \union {<<"ensure", d>> : d \in differs}

\* A disk whose signature differs is removed and created again.
DiskOperations(current, desired) ==
  LET differs == {d \in Disks : current.disks[d] # desired.disks[d]}
  IN  {<<"remove", d>> : d \in {x \in differs : current.disks[x] # 0}}
      \union {<<"ensure", d>> : d \in {x \in differs : desired.disks[x] # 0}}

PlanIsEmpty(current, desired) ==
  DiskOperations(current, desired) = {} /\ current.services = desired.services

\* A plan with operations for a slice with instances always writes the runtime
\* configuration and the compose file and brings the containers up.
Plan(current, desired) ==
  [changes |-> ~PlanIsEmpty(current, desired),
   operations |-> DiskOperations(current, desired),
   down |-> current.services # 0 /\ desired.services = 0,
   up |-> desired.services # 0]

-----------------------------------------------------------------------------
Init ==
  /\ row = [p \in Planes |-> [slice |-> Empty, generation |-> 0]]
  /\ disk = [p \in Planes |-> [d \in Disks |-> NoDisk]]
  /\ compose = [p \in Planes |-> 0]
  /\ running = [p \in Planes |-> 0]
  /\ state = [p \in Planes |-> Empty]
  /\ torn = [p \in Planes |-> FALSE]
  /\ generation = [p \in Planes |-> 0]
  /\ aggregate = 0
  /\ proc = Idle
  /\ halfway = [p \in Planes |-> FALSE]
  /\ strayed = [p \in Planes |-> {}]
  /\ rows = 0 /\ abandons = 0

\* The controller asks for another slice (only the next application looks at it).
Desire(p, s) ==
  /\ proc.step = "idle"
  /\ rows < MaxRows
  /\ rows' = rows + 1
  /\ row' = [row EXCEPT ![p] = [slice |-> s, generation |-> @.generation + 1]]
  /\ UNCHANGED <<node, files, history, proc, abandons>>

\* The head of ApplyDesiredNodeState, for the row or for a repetition of it.  A
\* torn state file does not parse: nothing is applied to that plane any more.
Begin(p) ==
  /\ proc.step = "idle"
  /\ row[p].generation > 0
  /\ ~torn[p]
  /\ LET plan == Plan(state[p], row[p].slice)
     IN  proc' = [plane |-> p, step |-> IF plan.changes THEN "ready" ELSE "verify",
                  slice |-> row[p].slice, generation |-> row[p].generation,
                  changes |-> plan.changes, operations |-> plan.operations,
                  down |-> plan.down, up |-> plan.up]
  /\ UNCHANGED <<node, files, history, requests>>

-----------------------------------------------------------------------------
(* Steps of the application under way.                                       *)
At(step) == proc.step = step
GoTo(step) == proc' = [proc EXCEPT !.step = step]

\* EnsureDesiredDiskRuntimeState: a disk that is there is left alone, whatever
\* its size.
Ensured(d) ==
  IF disk[proc.plane][d].size # 0 THEN disk
  ELSE [disk EXCEPT ![proc.plane][d] = [NoDisk EXCEPT !.size = proc.slice.disks[d]]]

Missing == {d \in Disks : proc.slice.disks[d] # 0 /\ disk[proc.plane][d].size = 0}

\* EnsureDesiredDisksReady, and PersistDiskRuntimeStateForDesiredDisks of a plan
\* without operations, create what is missing, one disk after the other.
CreateMissingDisk ==
  /\ proc.step \in {"ready", "verify"}
  /\ \E d \in Missing : disk' = Ensured(d)
  /\ UNCHANGED <<compose, running, files, history, requests, proc>>

\* A mutant: a plan without operations never touches the containers.
DisksAreReadyNoStop ==
  /\ proc.step \in {"ready", "verify"} /\ Missing = {}
  /\ GoTo(IF At("ready") THEN "bootstrap" ELSE "save")
  /\ UNCHANGED <<node, files, history, requests>>

\* ... and go on when nothing is.  Without operations only a slice without
\* instances touches the containers.
DisksAreReady ==
  /\ proc.step \in {"ready", "verify"} /\ Missing = {}
  /\ GoTo(IF At("ready") THEN "bootstrap" ELSE IF proc.up THEN "save" ELSE "stop")
  /\ UNCHANGED <<node, files, history, requests>>

\* BootstrapPlaneModelIfNeeded: the model is copied to the shared disk.
Bootstrap ==
  /\ At("bootstrap")
  /\ disk' = IF proc.up THEN [disk EXCEPT ![proc.plane][Shared].model = TRUE] ELSE disk
  /\ GoTo(IF proc.down THEN "down" ELSE "operations")
  /\ UNCHANGED <<compose, running, files, history, requests>>

\* RunComposeCommand(down).  Without the file there is no project to ask for.
ComposeDown(next) ==
  /\ running' = [running EXCEPT ![proc.plane] = IF compose[proc.plane] = 0 THEN @ ELSE 0]
  /\ GoTo(next)
  /\ UNCHANGED <<disk, compose, files, history, requests>>

RemoveComposeFile(next) ==
  /\ compose' = [compose EXCEPT ![proc.plane] = 0]
  /\ GoTo(next)
  /\ UNCHANGED <<disk, running, files, history, requests>>

\* ApplyNodePlan brings containers down before it touches anything else.
PlannedDown ==
  \/ At("down") /\ ComposeDown("unlink")
  \/ At("unlink") /\ RemoveComposeFile("operations")

\* A mutant: every node removes the shared disk.
RemovedEverywhere(d) == [disk EXCEPT ![proc.plane][d] = NoDisk]

\* RemoveDisk.  The removal of a shared disk that the plane keeps is left to the
\* primary node.  The branch that removes the directory of a disk without a recorded
\* runtime state is left out: EnsureDesiredDisksReady has recorded one, unless hostd
\* runs without root rights.
Removed(d) ==
  IF d = Shared /\ proc.slice.disks[d] # 0 /\ ~Primary THEN disk
  ELSE [disk EXCEPT ![proc.plane][d] = NoDisk]

\* The next disk operation of the plan (a disk is removed before it is created).
DiskOperation ==
  /\ At("operations")
  /\ \E o \in proc.operations :
       /\ o[1] = "ensure" => <<"remove", o[2]>> \notin proc.operations
       /\ disk' = IF o[1] = "remove" THEN Removed(o[2]) ELSE Ensured(o[2])
       /\ proc' = [proc EXCEPT !.operations = @ \ {o}]
  /\ UNCHANGED <<compose, running, files, history, requests>>

\* WriteInferRuntimeConfig or RemoveInferRuntimeConfig, on the shared disk.
WriteConfig ==
  /\ At("operations") /\ proc.operations = {}
  /\ disk' = IF proc.up \/ (proc.down /\ disk[proc.plane][Shared].size # 0)
             THEN [disk EXCEPT ![proc.plane][Shared].config = proc.slice.services] ELSE disk
  /\ GoTo(IF proc.up THEN "compose" ELSE "stop")
  /\ UNCHANGED <<compose, running, files, history, requests>>

WriteComposeFile ==
  /\ At("compose")
  /\ compose' = [compose EXCEPT ![proc.plane] = proc.slice.services]
  /\ GoTo("up")
  /\ UNCHANGED <<disk, running, files, history, requests>>

\* RunComposeCommand(up -d --remove-orphans --force-recreate).
ComposeUp ==
  /\ At("up")
  /\ running' = [running EXCEPT ![proc.plane] = compose[proc.plane]]
  /\ GoTo("save")
  /\ UNCHANGED <<disk, compose, files, history, requests>>

\* StopAndRemoveComposeArtifactIfPresent, whatever the plan said.
Stop ==
  \/ At("stop") /\ ComposeDown("remove")
  \/ At("remove") /\ RemoveComposeFile("save")

\* SaveLocalAppliedState opens the file, which truncates it, and writes it; an
\* empty slice removes the directory of the plane instead.
TruncateState ==
  /\ At("save") /\ proc.slice # Empty
  /\ torn' = [torn EXCEPT ![proc.plane] = TRUE]
  /\ GoTo("write")
  /\ UNCHANGED <<node, state, generation, aggregate, history, requests>>

\* The record agrees with the node from here on, except for what applications of
\* other slices left behind and this one did not look at.
Recorded ==
  LET p == proc.plane
  IN  /\ state' = [state EXCEPT ![p] = proc.slice]
      /\ torn' = [torn EXCEPT ![p] = FALSE]
      /\ halfway' = [halfway EXCEPT ![p] = @ /\ ~proc.changes /\ proc.up]
      /\ strayed' = [strayed EXCEPT ![p] = IF @ \subseteq {proc.slice} THEN {} ELSE @]

WriteState ==
  /\ At("write")
  /\ Recorded
  /\ GoTo("generation")
  /\ UNCHANGED <<node, generation, aggregate, requests>>

RemoveState ==
  /\ At("save") /\ proc.slice = Empty
  /\ Recorded
  /\ generation' = [generation EXCEPT ![proc.plane] = 0]
  /\ GoTo("merge")
  /\ UNCHANGED <<node, aggregate, requests>>

SaveGeneration ==
  /\ At("generation")
  /\ generation' = [generation EXCEPT ![proc.plane] = proc.generation]
  /\ GoTo("merge")
  /\ UNCHANGED <<node, state, torn, aggregate, history, requests>>

\* RewriteAggregateLocalState reads the state of every plane of the node (a torn
\* one throws); RewriteAggregateLocalGeneration takes the largest generation.
RewriteAggregate ==
  /\ At("merge")
  /\ \A p \in Planes : ~torn[p]
  /\ aggregate' = Max({generation[p] : p \in Planes})
  /\ GoTo("wait")
  /\ UNCHANGED <<node, state, torn, generation, history, requests>>

\* The runtime became ready and the post-deploy script ran; without operations, or
\* for an empty slice, there is nothing to wait for.
Complete ==
  /\ At("wait")
  /\ proc' = Idle
  /\ UNCHANGED <<node, files, history, requests>>

\* A step throws or hostd is killed.  A step of several effects may have had some
\* of them.
Abandon ==
  /\ proc.step # "idle"
  /\ abandons < MaxAbandons
  /\ abandons' = abandons + 1
  /\ \/ UNCHANGED <<running, generation>>
     \/ /\ At("up") /\ running' = [running EXCEPT ![proc.plane] = Partial]
        /\ UNCHANGED generation
     \/ /\ At("generation") /\ generation' = [generation EXCEPT ![proc.plane] = 0]
        /\ UNCHANGED running
  /\ LET unrecorded == proc.step \notin {"generation", "merge", "wait"} /\ proc.changes
     IN  /\ halfway' = [halfway EXCEPT ![proc.plane] = @ \/ unrecorded]
         /\ strayed' = [strayed EXCEPT ![proc.plane] =
                          IF unrecorded THEN @ \union {proc.slice} ELSE @]
  /\ proc' = Idle
  /\ UNCHANGED <<row, disk, compose, state, torn, aggregate, rows>>

Next ==
  \/ \E p \in Planes : Begin(p) \/ \E s \in Slices : Desire(p, s)
  \/ CreateMissingDisk \/ DisksAreReady \/ Bootstrap
  \/ PlannedDown \/ DiskOperation \/ WriteConfig \/ WriteComposeFile \/ ComposeUp \/ Stop
  \/ TruncateState \/ WriteState \/ RemoveState \/ SaveGeneration \/ RewriteAggregate
  \/ Complete \/ Abandon

Spec == Init /\ [][Next]_vars

-----------------------------------------------------------------------------
TypeOK ==
  /\ \A p \in Planes :
       /\ row[p].slice \in Slices \union {Empty} /\ row[p].generation \in 0 .. MaxRows
       /\ \A d \in Disks : disk[p][d].config \in 0 .. MaxContent /\ disk[p][d].model \in BOOLEAN
       /\ compose[p] \in 0 .. MaxContent
       /\ running[p] \in 0 .. Partial
       /\ state[p] \in Slices \union {Empty}
       /\ torn[p] \in BOOLEAN /\ halfway[p] \in BOOLEAN
       /\ generation[p] \in 0 .. MaxRows
       /\ strayed[p] \subseteq Slices \union {Empty}
  /\ aggregate \in 0 .. MaxRows
  /\ proc.step \in {"idle", "ready", "verify", "bootstrap", "down", "unlink", "operations",
                    "compose", "up", "stop", "remove", "save", "write", "generation", "merge",
                    "wait"}

\* No application works on the plane and its record can be read.
AtRest(p) == ~torn[p] /\ (proc.step = "idle" \/ proc.plane # p)

\* What the local state says of a plane is what the node runs, with the runtime
\* configuration and the disks its instances need: the record is written after
\* everything it tells of, and an application that was abandoned is done again in
\* full.  The exception is a slice that is asked for again, unchanged, after an
\* application of another one was abandoned.
RecordedStateIsInForce ==
  \A p \in Planes :
    AtRest(p) /\ ~halfway[p] =>
      /\ running[p] = state[p].services /\ compose[p] = state[p].services
      /\ \A d \in Disks : state[p].disks[d] # 0 => disk[p][d].size # 0
      /\ state[p].services # 0 => disk[p][Shared].config = state[p].services

\* The disks of the node are those of the record, with their sizes: repeating a row
\* that was abandoned neither loses nor leaks a disk.  (The size of a shared disk is
\* the primary node's.)
RecordedDisksAreExact ==
  \A p \in Planes, d \in Disks :
    AtRest(p) /\ ~halfway[p] /\ strayed[p] = {} =>
      \/ disk[p][d].size = state[p].disks[d]
      \/ d = Shared /\ ~Primary /\ state[p].disks[d] # 0 /\ disk[p][d].size # 0

\* The runtime that was started finds its model on the shared disk: the model is
\* copied after the disk was ensured.  A node that is not the primary one keeps the
\* disk, whatever becomes of its size; the primary node removes and creates it again
\* after the copy, and the property does not hold there.
RuntimeHasItsModel ==
  \A p \in Planes :
    ~Primary /\ AtRest(p) /\ ~halfway[p] /\ state[p].services # 0 => disk[p][Shared].model
=============================================================================
