--------------------------- MODULE NodeApplyProofs ---------------------------
(***************************************************************************)
(* Proofs about NodeApply, for any number of planes, disks, slices, rows and  *)
(* abandoned applications: what the local state of a node says of a plane is  *)
(* what the node runs, the disks are those of the record, and the runtime of   *)
(* a node that is not the primary one has its model; and the types.          *)
(***************************************************************************)
EXTENDS NodeApply, NaturalsInduction, WellFoundedInduction, TLAPS

SliceType == [disks : [Disks -> Nat], services : 0 .. MaxContent]

\* Slices as the controller renders them: instances need the shared disk.
Sound ==
  /\ Shared \in Disks /\ MaxContent \in Nat
  /\ \A s \in Slices : s \in SliceType /\ (s.services # 0 => s.disks[Shared] # 0)

Asked == Slices \cup {Empty}
DiskType == [size : Nat, model : BOOLEAN, config : Nat]
Steps == {"ready", "verify", "bootstrap", "down", "unlink", "operations", "compose", "up",
          "stop", "remove", "save", "write", "generation", "merge", "wait"}
ProcType ==
  [plane : Planes, step : Steps, slice : Asked, generation : Nat, changes : BOOLEAN,
   operations : SUBSET ({"remove", "ensure"} \X Disks), down : BOOLEAN, up : BOOLEAN]

\* The application under way brings containers up or, if at all, down.
ProcIsConsistent ==
  proc = Idle \/ (/\ proc \in ProcType
                  /\ proc.up <=> proc.slice.services # 0
                  /\ proc.down => ~proc.up)

Typed ==
  /\ row \in [Planes -> [slice : Asked, generation : Nat]]
  /\ disk \in [Planes -> [Disks -> DiskType]]
  /\ compose \in [Planes -> Nat] /\ running \in [Planes -> Nat]
  /\ state \in [Planes -> Asked]
  /\ halfway \in [Planes -> BOOLEAN]
  /\ strayed \in [Planes -> SUBSET Asked]
  /\ ProcIsConsistent

-----------------------------------------------------------------------------
(* The inductive invariant, plane by plane.                                  *)

Works(p) == proc.step # "idle" /\ proc.plane = p

\* The record has been written.
AfterRecord == {"generation", "merge", "wait"}

\* Containers come from a compose file.
NoOrphans(p) == compose[p] = 0 => running[p] = 0

HasDisks(p, t) == \A d \in Disks : t.disks[d] # 0 => disk[p][d].size # 0

\* The node runs slice t, with its disks, its runtime configuration and its model.
InForce(p, t) ==
  /\ running[p] = t.services /\ compose[p] = t.services
  /\ HasDisks(p, t)
  /\ t.services # 0 => /\ disk[p][Shared].config = t.services
                       /\ ~Primary => disk[p][Shared].model

\* A disk that is there has the size that slice t asks for, unless the primary node
\* decides on it.
Explains(p, d, t) ==
  t.disks[d] # 0 /\ (disk[p][d].size = t.disks[d] \/ (d = Shared /\ ~Primary))

\* Every disk comes from the recorded slice or from an application that left no record.
SizesAreKnown(p) ==
  \A d \in Disks : disk[p][d].size = 0 \/ \E t \in {state[p]} \cup strayed[p] : Explains(p, d, t)

Settled(p) == (~halfway[p] => InForce(p, state[p])) /\ SizesAreKnown(p)

\* An application that asks for what is recorded.
Repeating(p) ==
  /\ proc.step \in {"verify", "stop", "remove", "save", "write"}
  /\ proc.slice = state[p]
  /\ Settled(p)
  /\ proc.step # "verify" => HasDisks(p, proc.slice)
  /\ proc.step \in {"stop", "remove"} => ~proc.up
  /\ proc.step = "remove" => running[p] = 0
  /\ proc.step \in {"save", "write"} /\ ~proc.up => running[p] = 0 /\ compose[p] = 0

\* What a disk is before, during and after the disk operations of the plan.
DisksChange(p) ==
  \A d \in Disks :
    /\ <<"remove", d>> \in proc.operations /\ proc.slice.disks[d] # 0 =>
         <<"ensure", d>> \in proc.operations
    /\ <<"ensure", d>> \in proc.operations => proc.slice.disks[d] # 0
    /\ \/ disk[p][d].size = 0
       \/ \E t \in {proc.slice} \cup strayed[p] : Explains(p, d, t)
       \/ <<"remove", d>> \in proc.operations /\ Explains(p, d, state[p])
    /\ proc.step # "ready" /\ proc.slice.disks[d] # 0 =>
         disk[p][d].size # 0 \/ <<"ensure", d>> \in proc.operations

\* What has come into force of the slice at each step.
ServicesChange(p) ==
  /\ proc.step \in {"compose", "up", "stop", "remove", "save", "write"} => proc.operations = {}
  /\ proc.step \in {"down", "unlink", "stop", "remove"} => ~proc.up
  /\ proc.step \in {"compose", "up"} => proc.up
  /\ proc.step = "bootstrap" => HasDisks(p, proc.slice)
  /\ proc.step \in {"operations", "compose", "up", "save", "write"} /\ proc.up /\ ~Primary =>
       disk[p][Shared].model /\ disk[p][Shared].size # 0
  /\ proc.step \in {"compose", "up", "save", "write"} /\ proc.up =>
       disk[p][Shared].config = proc.slice.services
  /\ proc.step = "up" => compose[p] = proc.slice.services
  /\ proc.step \in {"save", "write"} =>
       compose[p] = proc.slice.services /\ running[p] = proc.slice.services
  /\ proc.step \in {"unlink", "remove"} => running[p] = 0

\* An application of another slice than the recorded one.
Changing(p) ==
  /\ proc.step \in {"ready", "bootstrap", "down", "unlink", "operations", "compose", "up",
                    "stop", "remove", "save", "write"}
  /\ DisksChange(p) /\ ServicesChange(p)

PlaneInv(p) ==
  /\ NoOrphans(p)
  /\ ~Works(p) \/ proc.step \in AfterRecord => Settled(p)
  /\ Works(p) /\ proc.step \notin AfterRecord /\ ~proc.changes => Repeating(p)
  /\ Works(p) /\ proc.step \notin AfterRecord /\ proc.changes => Changing(p)

NodeInv == \A p \in Planes : PlaneInv(p)

-----------------------------------------------------------------------------
(* Types                                                                    *)

LEMMA AskedFacts ==
  ASSUME Sound, NEW t \in Asked
  PROVE  /\ t \in SliceType /\ t.services \in Nat /\ t.disks \in [Disks -> Nat]
         /\ t.services # 0 => t.disks[Shared] # 0
  <1>1. CASE t \in Slices
    BY <1>1 DEF Sound, SliceType
  <1>2. CASE t = Empty
    BY <1>2 DEF Sound, SliceType, Empty
  <1> QED BY <1>1, <1>2 DEF Asked

\* What is known while an application is under way.
LEMMA Active ==
  ASSUME Sound, Typed, proc.step # "idle"
  PROVE  /\ proc \in ProcType /\ proc.plane \in Planes /\ proc.slice \in Asked
         /\ proc.slice.services \in Nat /\ proc.slice.disks \in [Disks -> Nat]
         /\ proc.slice.services # 0 => proc.slice.disks[Shared] # 0
         /\ proc.up <=> proc.slice.services # 0
         /\ proc.down => ~proc.up
  <1>1. proc # Idle
    BY DEF Idle
  <1>2. proc \in ProcType
    BY <1>1 DEF Typed, ProcIsConsistent
  <1>3. proc.plane \in Planes /\ proc.slice \in Asked
    BY <1>2 DEF ProcType
  <1> QED BY <1>1, <1>2, <1>3, AskedFacts DEF Typed, ProcIsConsistent

\* The application goes on at another step.
Moves(x) ==
  /\ proc' \in ProcType /\ proc'.step = x /\ proc'.plane = proc.plane
  /\ proc'.slice = proc.slice /\ proc'.changes = proc.changes
  /\ proc'.operations = proc.operations /\ proc'.down = proc.down /\ proc'.up = proc.up
  /\ proc'.generation = proc.generation

LEMMA GoToMoves ==
  ASSUME Sound, Typed, proc.step # "idle", NEW x \in Steps, GoTo(x)
  PROVE  Moves(x) /\ ProcIsConsistent'
  <1>1. proc \in ProcType
    BY Active
  <1>2. Moves(x)
    BY <1>1 DEF GoTo, Moves, ProcType
  <1>3. ProcIsConsistent'
    BY <1>2, Active DEF ProcIsConsistent, Moves
  <1> QED BY <1>2, <1>3

LEMMA NoDiskType == NoDisk \in DiskType /\ NoDisk.size = 0
  BY DEF NoDisk, DiskType

LEMMA NewDiskType ==
  ASSUME NEW v \in Nat
  PROVE  [NoDisk EXCEPT !.size = v] \in DiskType /\ [NoDisk EXCEPT !.size = v].size = v
  BY DEF NoDisk, DiskType

\* Disk d of the plane becomes x, the others stay.
OneDisk(d, x) ==
  /\ disk' \in [Planes -> [Disks -> DiskType]]
  /\ \A q \in Planes : q # proc.plane => disk'[q] = disk[q]
  /\ \A e \in Disks : disk'[proc.plane][e] = IF e = d THEN x ELSE disk[proc.plane][e]

LEMMA UpdateDisk ==
  ASSUME Sound, Typed, proc.step # "idle", NEW d \in Disks, NEW x \in DiskType,
         disk' = [disk EXCEPT ![proc.plane][d] = x]
  PROVE  OneDisk(d, x)
  <1>1. proc.plane \in Planes /\ disk \in [Planes -> [Disks -> DiskType]]
    BY Active DEF Typed
  <1>2. disk' = [disk EXCEPT ![proc.plane] = [disk[proc.plane] EXCEPT ![d] = x]]
    BY <1>1
  <1>3. disk[proc.plane] \in [Disks -> DiskType]
    BY <1>1
  <1>4. [disk[proc.plane] EXCEPT ![d] = x] \in [Disks -> DiskType]
    BY <1>3
  <1> QED BY <1>1, <1>2, <1>3, <1>4 DEF OneDisk

LEMMA SameDisk ==
  ASSUME Sound, Typed, proc.step # "idle", NEW d \in Disks, disk' = disk
  PROVE  OneDisk(d, disk[proc.plane][d])
  <1>1. disk \in [Planes -> [Disks -> DiskType]]
    BY DEF Typed
  <1>2. disk' \in [Planes -> [Disks -> DiskType]]
    BY <1>1, Zenon
  <1> QED BY <1>2 DEF OneDisk

LEMMA EnsuredDisk ==
  ASSUME Sound, Typed, proc.step # "idle", NEW d \in Disks, disk' = Ensured(d)
  PROVE  OneDisk(d, IF disk[proc.plane][d].size # 0 THEN disk[proc.plane][d]
                    ELSE [NoDisk EXCEPT !.size = proc.slice.disks[d]])
  <1>0. proc.slice.disks[d] \in Nat
    BY Active
  <1>1. [NoDisk EXCEPT !.size = proc.slice.disks[d]] \in DiskType
    BY <1>0, NewDiskType
  <1>3. CASE disk[proc.plane][d].size # 0
    BY <1>3, SameDisk DEF Ensured
  <1>4. CASE disk[proc.plane][d].size = 0
    BY <1>1, <1>4, UpdateDisk DEF Ensured
  <1> QED BY <1>3, <1>4

LEMMA RemovedDisk ==
  ASSUME Sound, Typed, proc.step # "idle", NEW d \in Disks, disk' = Removed(d)
  PROVE  OneDisk(d, IF d = Shared /\ proc.slice.disks[d] # 0 /\ ~Primary
                    THEN disk[proc.plane][d] ELSE NoDisk)
  <1>1. CASE d = Shared /\ proc.slice.disks[d] # 0 /\ ~Primary
    BY <1>1, SameDisk DEF Removed
  <1>2. CASE ~(d = Shared /\ proc.slice.disks[d] # 0 /\ ~Primary)
    BY <1>2, UpdateDisk, NoDiskType DEF Removed
  <1> QED BY <1>1, <1>2

\* Bootstrap and WriteConfig write on the shared disk, whose size stays.
LEMMA SharedModel ==
  ASSUME Sound, Typed, proc.step # "idle", disk' = [disk EXCEPT ![proc.plane][Shared].model = TRUE]
  PROVE  OneDisk(Shared, [disk[proc.plane][Shared] EXCEPT !.model = TRUE])
  <1>1. /\ proc.plane \in Planes /\ disk \in [Planes -> [Disks -> DiskType]] /\ Shared \in Disks
        /\ disk[proc.plane][Shared] \in DiskType
    BY Active DEF Typed, Sound
  <1>2. [disk[proc.plane][Shared] EXCEPT !.model = TRUE] \in DiskType
    BY <1>1 DEF DiskType
  <1>3. disk' = [disk EXCEPT ![proc.plane][Shared] = [disk[proc.plane][Shared] EXCEPT !.model = TRUE]]
    BY <1>1
  <1> QED BY <1>1, <1>2, <1>3, UpdateDisk

LEMMA SharedConfig ==
  ASSUME Sound, Typed, proc.step # "idle",
         disk' = [disk EXCEPT ![proc.plane][Shared].config = proc.slice.services]
  PROVE  OneDisk(Shared, [disk[proc.plane][Shared] EXCEPT !.config = proc.slice.services])
  <1>1. /\ proc.plane \in Planes /\ disk \in [Planes -> [Disks -> DiskType]] /\ Shared \in Disks
        /\ disk[proc.plane][Shared] \in DiskType
    BY Active DEF Typed, Sound
  <1>2. [disk[proc.plane][Shared] EXCEPT !.config = proc.slice.services] \in DiskType
    BY <1>1, Active DEF DiskType
  <1>3. disk' = [disk EXCEPT ![proc.plane][Shared] =
                   [disk[proc.plane][Shared] EXCEPT !.config = proc.slice.services]]
    BY <1>1
  <1> QED BY <1>1, <1>2, <1>3, UpdateDisk

-----------------------------------------------------------------------------
(* Steps of the application under way, on plane p                            *)

OtherPlanes(p) ==
  /\ \A q \in Planes : q # p => /\ disk'[q] = disk[q] /\ compose'[q] = compose[q]
                                /\ running'[q] = running[q] /\ state'[q] = state[q]
                                /\ halfway'[q] = halfway[q] /\ strayed'[q] = strayed[q]
  /\ proc' = Idle \/ proc'.plane = p

LEMMA OthersKeepInv ==
  ASSUME NEW p \in Planes, Works(p), OtherPlanes(p), NEW q \in Planes, q # p, PlaneInv(q)
  PROVE  PlaneInv(q)'
  <1>1. ~Works(q) /\ ~Works(q)'
    BY DEF Works, OtherPlanes, Idle
  <1>2. NoOrphans(q) /\ Settled(q)
    BY <1>1 DEF PlaneInv
  <1>3. NoOrphans(q)'
    BY <1>2 DEF OtherPlanes, NoOrphans
  <1>4. Settled(q)'
    BY <1>2 DEF OtherPlanes, Settled, InForce, HasDisks, SizesAreKnown, Explains
  <1> QED BY <1>1, <1>3, <1>4 DEF PlaneInv

\* Which branch of the invariant holds at a step.
LEMMA Branches ==
  ASSUME Sound, Typed, NEW p \in Planes, Works(p), PlaneInv(p)
  PROVE  /\ p = proc.plane /\ proc.step # "idle"
         /\ proc.step \in AfterRecord => Settled(p)
         /\ proc.step \notin AfterRecord /\ ~proc.changes => Repeating(p)
         /\ proc.step \notin AfterRecord /\ proc.changes => Changing(p)
         /\ NoOrphans(p)
  BY DEF Works, PlaneInv

\* A disk that was missing is created.
LEMMA CreateStep ==
  ASSUME Sound, Typed, NEW p \in Planes, Works(p), PlaneInv(p), CreateMissingDisk
  PROVE  Typed' /\ OtherPlanes(p) /\ PlaneInv(p)'
  <1>0. p = proc.plane /\ proc.step \in {"ready", "verify"} /\ NoOrphans(p)
    BY Branches DEF CreateMissingDisk
  <1>1. PICK d \in Disks : /\ proc.slice.disks[d] # 0 /\ disk[p][d].size = 0
                           /\ disk' = Ensured(d)
    BY <1>0 DEF CreateMissingDisk, Missing
  <1>2. OneDisk(d, [NoDisk EXCEPT !.size = proc.slice.disks[d]])
    BY <1>0, <1>1, EnsuredDisk
  <1>3. /\ proc' = proc /\ compose' = compose /\ running' = running /\ state' = state
        /\ halfway' = halfway /\ strayed' = strayed /\ row' = row
    BY DEF CreateMissingDisk, files, history, requests
  <1>4. Typed'
    BY <1>2, <1>3 DEF Typed, OneDisk, ProcIsConsistent
  <1>5. OtherPlanes(p)
    BY <1>0, <1>2, <1>3 DEF OneDisk, OtherPlanes
  <1>6. \A e \in Disks : e # d => disk'[p][e] = disk[p][e]
    BY <1>0, <1>2 DEF OneDisk
  <1>7. disk'[p][d].size = proc.slice.disks[d]
    <2>1. proc.slice.disks[d] \in Nat
      BY <1>0, Active
    <2> QED BY <1>0, <1>2, <2>1, NewDiskType DEF OneDisk
  <1>8. NoOrphans(p)'
    BY <1>0, <1>3 DEF NoOrphans
  <1>9. CASE proc.changes
    <2>1. Changing(p) /\ proc.step = "ready"
      BY <1>0, <1>9, Branches DEF Changing, AfterRecord
    <2>2. DisksChange(p)'
      BY <1>1, <1>3, <1>6, <1>7, <2>1 DEF Changing, DisksChange, Explains
    <2>3. ServicesChange(p)'
      BY <1>3, <2>1 DEF ServicesChange
    <2> QED BY <1>3, <1>4, <1>5, <1>8, <1>9, <2>1, <2>2, <2>3 DEF PlaneInv, Changing, Works, AfterRecord
  <1>10. CASE ~proc.changes
    <2>1. Repeating(p) /\ proc.step = "verify"
      BY <1>0, <1>10, Branches DEF Repeating, AfterRecord
    <2>2. halfway[p] = TRUE /\ proc.slice = state[p]
      <3>1. ~(~halfway[p])
        BY <1>1, <2>1 DEF Repeating, Settled, InForce, HasDisks
      <3> QED BY <2>1, <3>1 DEF Repeating, Typed
    <2>3. SizesAreKnown(p)'
      BY <1>1, <1>3, <1>6, <1>7, <2>1, <2>2 DEF Repeating, Settled, SizesAreKnown, Explains
    <2>4. Repeating(p)'
      BY <1>3, <2>1, <2>2, <2>3 DEF Repeating, Settled
    <2> QED BY <1>3, <1>4, <1>5, <1>8, <1>10, <2>1, <2>4 DEF PlaneInv, Works, AfterRecord
  <1> QED BY <1>9, <1>10

\* A step that leaves the node and its records alone.
SameNode == /\ disk' = disk /\ compose' = compose /\ running' = running /\ state' = state
            /\ halfway' = halfway /\ strayed' = strayed /\ row' = row

LEMMA SameNodeKeeps ==
  ASSUME Typed, SameNode, ProcIsConsistent', NEW p \in Planes
  PROVE  /\ Typed'
         /\ \A q \in Planes : (NoOrphans(q) => NoOrphans(q)') /\ (Settled(q) => Settled(q)')
         /\ \A t : HasDisks(p, t) => HasDisks(p, t)'
         /\ proc' = Idle \/ proc'.plane = p => OtherPlanes(p)
  <1>1. Typed'
    BY DEF Typed, SameNode
  <1>2. \A q \in Planes : (NoOrphans(q) => NoOrphans(q)') /\ (Settled(q) => Settled(q)')
    BY DEF SameNode, NoOrphans, Settled, InForce, HasDisks, SizesAreKnown, Explains
  <1>3. proc' = Idle \/ proc'.plane = p => OtherPlanes(p)
    BY DEF SameNode, OtherPlanes
  <1>4. \A t : HasDisks(p, t) => HasDisks(p, t)'
    BY DEF SameNode, HasDisks
  <1> QED BY <1>1, <1>2, <1>3, <1>4

\* No disk of the slice is missing.
LEMMA ReadyStep ==
  ASSUME Sound, Typed, NEW p \in Planes, Works(p), PlaneInv(p), DisksAreReady
  PROVE  Typed' /\ OtherPlanes(p) /\ PlaneInv(p)'
  <1>0. p = proc.plane /\ proc.step \in {"ready", "verify"} /\ NoOrphans(p) /\ proc.step # "idle"
    BY Branches DEF DisksAreReady
  <1>1. HasDisks(p, proc.slice)
    BY <1>0 DEF DisksAreReady, Missing, HasDisks
  <1> DEFINE x == IF At("ready") THEN "bootstrap" ELSE IF proc.up THEN "save" ELSE "stop"
  <1>2. x \in Steps /\ GoTo(x) /\ SameNode
    BY DEF DisksAreReady, Steps, SameNode, node, files, history, requests
  <1> HIDE DEF x
  <1>3. Moves(x) /\ ProcIsConsistent'
    BY <1>0, <1>2, GoToMoves
  <1>4. Typed' /\ OtherPlanes(p) /\ NoOrphans(p)' /\ (Settled(p) => Settled(p)')
    BY <1>0, <1>2, <1>3, SameNodeKeeps DEF Moves
  <1>5. HasDisks(p, proc.slice)'
    BY <1>1, <1>2, <1>3 DEF SameNode, HasDisks, Moves
  <1>6. CASE proc.changes
    <2>1. Changing(p) /\ proc.step = "ready"
      BY <1>0, <1>6, Branches DEF Changing, AfterRecord
    <2>2. x = "bootstrap"
      BY <2>1 DEF x, At
    <2>3. DisksChange(p)'
      BY <1>2, <1>3, <1>5, <2>1, <2>2 DEF Changing, DisksChange, Explains, SameNode, Moves, HasDisks
    <2>4. ServicesChange(p)'
      BY <1>3, <1>5, <2>2 DEF ServicesChange, Moves
    <2> QED BY <1>3, <1>4, <1>6, <2>2, <2>3, <2>4 DEF PlaneInv, Changing, Works, AfterRecord, Moves
  <1>7. CASE ~proc.changes
    <2>1. Repeating(p) /\ proc.step = "verify"
      BY <1>0, <1>7, Branches DEF Repeating, AfterRecord
    <2>2. x = IF proc.up THEN "save" ELSE "stop"
      BY <2>1 DEF x, At
    <2>3. Repeating(p)'
      BY <1>2, <1>3, <1>4, <1>5, <2>1, <2>2 DEF Repeating, SameNode, Moves
    <2> QED BY <1>3, <1>4, <1>7, <2>2, <2>3 DEF PlaneInv, Works, AfterRecord, Moves
  <1> QED BY <1>6, <1>7

\* At the steps of an application that changes the node.
LEMMA ChangingSteps ==
  ASSUME Sound, Typed, NEW p \in Planes, Works(p), PlaneInv(p),
         proc.step \in {"bootstrap", "down", "unlink", "operations", "compose", "up"}
  PROVE  proc.changes /\ Changing(p) /\ p = proc.plane /\ proc.step # "idle" /\ NoOrphans(p)
  BY Branches DEF AfterRecord, Repeating

\* The disks keep their sizes and, if the plane needs one, the model.
SizesStay(p) ==
  /\ disk' \in [Planes -> [Disks -> DiskType]]
  /\ \A q \in Planes : q # p => disk'[q] = disk[q]
  /\ \A d \in Disks : disk'[p][d].size = disk[p][d].size
  /\ disk[p][Shared].model => disk'[p][Shared].model

LEMMA SameSizes ==
  ASSUME Sound, Typed, NEW p \in Planes, disk' = disk
  PROVE  SizesStay(p)
  BY Zenon DEF Typed, SizesStay

LEMMA SharedSizes ==
  ASSUME Sound, Typed, Works(proc.plane), NEW x \in DiskType, OneDisk(Shared, x),
         x.size = disk[proc.plane][Shared].size, disk[proc.plane][Shared].model => x.model
  PROVE  SizesStay(proc.plane)
  <1>1. Shared \in Disks
    BY DEF Sound
  <1>2. disk'[proc.plane][Shared] = x
    BY <1>1 DEF OneDisk
  <1>3. \A d \in Disks : disk'[proc.plane][d].size = disk[proc.plane][d].size
    BY <1>2 DEF OneDisk
  <1>4. disk[proc.plane][Shared].model => disk'[proc.plane][Shared].model
    BY <1>2, Zenon
  <1> QED BY <1>3, <1>4, Zenon DEF OneDisk, SizesStay

\* A step of a changing application that neither touches the sizes of the disks nor
\* takes an operation from the plan.
LEMMA DisksChangeStays ==
  ASSUME NEW p \in Planes, NEW x, Moves(x), x # "ready", proc.step # "ready", DisksChange(p),
         SizesStay(p), state' = state, strayed' = strayed
  PROVE  DisksChange(p)'
  <1>1. /\ proc'.slice = proc.slice /\ proc'.operations = proc.operations /\ proc'.step # "ready"
        /\ \A d \in Disks : disk'[p][d].size = disk[p][d].size
    BY DEF SizesStay, Moves
  <1>2. \A d \in Disks, t \in {proc.slice, state[p]} \cup strayed[p] :
          Explains(p, d, t) => Explains(p, d, t)'
    BY <1>1 DEF Explains
  <1>3. \A d \in Disks :
          \/ disk'[p][d].size = 0
          \/ \E t \in {proc'.slice} \cup strayed'[p] : Explains(p, d, t)'
          \/ <<"remove", d>> \in proc'.operations /\ Explains(p, d, state[p])'
    BY <1>1, <1>2 DEF DisksChange
  <1> QED BY <1>1, <1>3 DEF DisksChange

\* The invariant of plane p after a step that keeps the application going.
LEMMA GoesOn ==
  ASSUME NEW p \in Planes, NEW x, Moves(x), p = proc.plane, x # "idle", x \notin AfterRecord,
         NoOrphans(p)', proc.changes => Changing(p)', ~proc.changes => Repeating(p)'
  PROVE  PlaneInv(p)'
  <1>1. Works(p)' /\ proc'.step \notin AfterRecord /\ proc'.changes = proc.changes
    BY DEF Works, Moves
  <1> QED BY <1>1 DEF PlaneInv

\* What a step of the application leaves alone.
Unrecorded == state' = state /\ halfway' = halfway /\ strayed' = strayed /\ row' = row

\* The model is copied.
LEMMA BootstrapStep ==
  ASSUME Sound, Typed, NEW p \in Planes, Works(p), PlaneInv(p), Bootstrap
  PROVE  Typed' /\ OtherPlanes(p) /\ PlaneInv(p)'
  <1>0. proc.step = "bootstrap"
    BY DEF Bootstrap, At
  <1>1. proc.changes /\ Changing(p) /\ p = proc.plane /\ proc.step # "idle" /\ NoOrphans(p)
    BY <1>0, ChangingSteps
  <1>2. HasDisks(p, proc.slice) /\ DisksChange(p)
    BY <1>0, <1>1 DEF Changing, ServicesChange
  <1>3. Unrecorded /\ compose' = compose /\ running' = running
    BY DEF Bootstrap, Unrecorded, files, history, requests
  <1> DEFINE x == IF proc.down THEN "down" ELSE "operations"
  <1>4. x \in {"down", "operations"} /\ (x = "down" => proc.down) /\ GoTo(x)
    BY DEF Bootstrap
  <1> HIDE DEF x
  <1>5. Moves(x) /\ ProcIsConsistent'
    BY <1>1, <1>4, GoToMoves DEF Steps
  <1>6. SizesStay(p) /\ (proc.up => disk'[p][Shared].model)
    <2>1. CASE proc.up
      <3>1. OneDisk(Shared, [disk[p][Shared] EXCEPT !.model = TRUE])
        BY <1>1, <2>1, SharedModel DEF Bootstrap
      <3>2. Shared \in Disks /\ disk[p][Shared] \in DiskType
        BY DEF Typed, Sound
      <3>3. /\ [disk[p][Shared] EXCEPT !.model = TRUE] \in DiskType
            /\ [disk[p][Shared] EXCEPT !.model = TRUE].size = disk[p][Shared].size
            /\ [disk[p][Shared] EXCEPT !.model = TRUE].model
        BY <3>2 DEF DiskType
      <3>4. SizesStay(p)
        BY <1>1, <3>1, <3>3, SharedSizes
      <3>5. disk'[p][Shared] = [disk[p][Shared] EXCEPT !.model = TRUE]
        BY <1>1, <3>1, <3>2 DEF OneDisk
      <3> QED BY <3>3, <3>4, <3>5
    <2>2. CASE ~proc.up
      BY <2>2, SameSizes DEF Bootstrap
    <2> QED BY <2>1, <2>2
  <1>7. Typed'
    BY <1>3, <1>5, <1>6 DEF Typed, SizesStay, Unrecorded
  <1>8. OtherPlanes(p)
    BY <1>1, <1>3, <1>5, <1>6 DEF OtherPlanes, SizesStay, Unrecorded, Moves
  <1>9. NoOrphans(p)'
    BY <1>1, <1>3 DEF NoOrphans
  <1>10. DisksChange(p)'
    BY <1>0, <1>2, <1>3, <1>4, <1>5, <1>6, DisksChangeStays DEF Unrecorded
  <1>11. proc.up => disk'[p][Shared].size # 0
    BY <1>1, <1>2, <1>6, Active DEF HasDisks, SizesStay, Sound
  <1>12. ServicesChange(p)'
    <2>1. proc.down => ~proc.up
      BY <1>1, Active
    <2> QED BY <1>4, <1>5, <1>6, <1>11, <2>1 DEF ServicesChange, Moves
  <1>13. Changing(p)'
    BY <1>4, <1>5, <1>10, <1>12 DEF Changing, Moves
  <1> QED BY <1>1, <1>4, <1>5, <1>7, <1>8, <1>9, <1>13, GoesOn DEF AfterRecord

\* Containers are brought down, at a step of the plan or of Stop.
LEMMA DownEffect ==
  ASSUME Sound, Typed, NEW p \in Planes, Works(p), PlaneInv(p), NEW x \in Steps, ComposeDown(x)
  PROVE  /\ Typed' /\ OtherPlanes(p) /\ Moves(x) /\ SizesStay(p) /\ NoOrphans(p)'
         /\ Unrecorded /\ compose' = compose /\ disk' = disk /\ running'[p] = 0
  <1>1. p = proc.plane /\ proc.step # "idle" /\ NoOrphans(p)
    BY Branches
  <1>2. Moves(x) /\ ProcIsConsistent'
    BY <1>1, GoToMoves DEF ComposeDown
  <1>3. Unrecorded /\ compose' = compose /\ disk' = disk
    BY DEF ComposeDown, Unrecorded, files, history, requests
  <1>4. /\ running' \in [Planes -> Nat] /\ running'[p] = 0
        /\ \A q \in Planes : q # p => running'[q] = running[q]
    BY <1>1 DEF ComposeDown, NoOrphans, Typed
  <1>5. Typed'
    BY <1>2, <1>3, <1>4 DEF Typed, Unrecorded
  <1>6. OtherPlanes(p)
    BY <1>1, <1>2, <1>3, <1>4 DEF OtherPlanes, Unrecorded, Moves
  <1> QED BY <1>2, <1>3, <1>4, <1>5, <1>6, SameSizes DEF NoOrphans

\* The compose file is removed once no container runs.
LEMMA RemoveFileEffect ==
  ASSUME Sound, Typed, NEW p \in Planes, Works(p), PlaneInv(p), NEW x \in Steps,
         RemoveComposeFile(x), running[p] = 0
  PROVE  /\ Typed' /\ OtherPlanes(p) /\ Moves(x) /\ SizesStay(p) /\ NoOrphans(p)'
         /\ Unrecorded /\ running' = running /\ disk' = disk /\ compose'[p] = 0
  <1>1. p = proc.plane /\ proc.step # "idle" /\ NoOrphans(p)
    BY Branches
  <1>2. Moves(x) /\ ProcIsConsistent'
    BY <1>1, GoToMoves DEF RemoveComposeFile
  <1>3. Unrecorded /\ running' = running /\ disk' = disk
    BY DEF RemoveComposeFile, Unrecorded, files, history, requests
  <1>4. /\ compose' \in [Planes -> Nat] /\ compose'[p] = 0
        /\ \A q \in Planes : q # p => compose'[q] = compose[q]
    BY <1>1 DEF RemoveComposeFile, Typed
  <1>5. Typed'
    BY <1>2, <1>3, <1>4 DEF Typed, Unrecorded
  <1>6. OtherPlanes(p)
    BY <1>1, <1>2, <1>3, <1>4 DEF OtherPlanes, Unrecorded, Moves
  <1> QED BY <1>2, <1>3, <1>4, <1>5, <1>6, SameSizes DEF NoOrphans

LEMMA PlannedDownStep ==
  ASSUME Sound, Typed, NEW p \in Planes, Works(p), PlaneInv(p), PlannedDown
  PROVE  Typed' /\ OtherPlanes(p) /\ PlaneInv(p)'
  <1>0. proc.step \in {"down", "unlink"}
    BY DEF PlannedDown, At
  <1>1. /\ proc.changes /\ Changing(p) /\ p = proc.plane
        /\ DisksChange(p) /\ ServicesChange(p) /\ ~proc.up
    BY <1>0, ChangingSteps DEF Changing, ServicesChange
  <1>2. CASE proc.step = "down"
    <2>1. /\ Typed' /\ OtherPlanes(p) /\ Moves("unlink") /\ SizesStay(p) /\ NoOrphans(p)'
          /\ Unrecorded /\ running'[p] = 0
      BY <1>2, DownEffect DEF PlannedDown, At, Steps
    <2>2. DisksChange(p)'
      BY <1>1, <1>2, <2>1, DisksChangeStays DEF Unrecorded
    <2>3. Changing(p)'
      BY <1>1, <2>1, <2>2 DEF Changing, ServicesChange, Moves
    <2> QED BY <1>1, <2>1, <2>3, GoesOn DEF AfterRecord
  <1>3. CASE proc.step = "unlink"
    <2>0. running[p] = 0
      BY <1>1, <1>3 DEF ServicesChange
    <2>1. /\ Typed' /\ OtherPlanes(p) /\ Moves("operations") /\ SizesStay(p) /\ NoOrphans(p)'
          /\ Unrecorded
      BY <1>3, <2>0, RemoveFileEffect DEF PlannedDown, At, Steps
    <2>2. DisksChange(p)'
      BY <1>1, <1>3, <2>1, DisksChangeStays DEF Unrecorded
    <2>3. Changing(p)'
      BY <1>1, <2>1, <2>2 DEF Changing, ServicesChange, Moves
    <2> QED BY <1>1, <2>1, <2>3, GoesOn DEF AfterRecord
  <1> QED BY <1>0, <1>2, <1>3

\* The containers are stopped and their file is removed, whatever the plan said.
LEMMA StopStep ==
  ASSUME Sound, Typed, NEW p \in Planes, Works(p), PlaneInv(p), Stop
  PROVE  Typed' /\ OtherPlanes(p) /\ PlaneInv(p)'
  <1>0. proc.step \in {"stop", "remove"} /\ proc.step \notin AfterRecord
    BY DEF Stop, At, AfterRecord
  <1>1. /\ p = proc.plane /\ proc.step # "idle"
        /\ proc.changes => Changing(p)
        /\ ~proc.changes => Repeating(p)
    BY <1>0, Branches
  <1>2. ~proc.up /\ proc.slice.services = 0
    <2>1. CASE proc.changes
      BY <1>0, <1>1, <2>1, Active DEF Changing, ServicesChange
    <2>2. CASE ~proc.changes
      BY <1>0, <1>1, <2>2, Active DEF Repeating
    <2> QED BY <2>1, <2>2
  <1>3. proc.step = "remove" => running[p] = 0
    <2>1. CASE proc.changes
      BY <1>1, <2>1 DEF Changing, ServicesChange
    <2>2. CASE ~proc.changes
      BY <1>1, <2>2 DEF Repeating
    <2> QED BY <2>1, <2>2
  <1> DEFINE x == IF proc.step = "stop" THEN "remove" ELSE "save"
  <1>4. x \in {"remove", "save"}
    OBVIOUS
  <1>5. /\ Typed' /\ OtherPlanes(p) /\ Moves(x) /\ SizesStay(p) /\ NoOrphans(p)'
        /\ Unrecorded /\ disk' = disk
        /\ running'[p] = 0
        /\ x = "save" => compose'[p] = 0
        /\ compose'[p] \in {0, compose[p]}
    <2>1. CASE proc.step = "stop"
      <3>1. x = "remove" /\ ComposeDown(x) /\ x \in Steps
        BY <2>1 DEF Stop, At, Steps
      <3> HIDE DEF x
      <3> QED BY <3>1, DownEffect
    <2>2. CASE proc.step = "remove"
      <3>1. x = "save" /\ RemoveComposeFile(x) /\ x \in Steps /\ running[p] = 0
        BY <1>3, <2>2 DEF Stop, At, Steps
      <3> HIDE DEF x
      <3> QED BY <3>1, RemoveFileEffect
    <2> QED BY <1>0, <2>1, <2>2
  <1> HIDE DEF x
  <1>6. CASE proc.changes
    <2>1. Changing(p) /\ DisksChange(p) /\ ServicesChange(p)
      BY <1>1, <1>6 DEF Changing
    <2>2. DisksChange(p)'
      BY <1>0, <1>4, <1>5, <2>1, DisksChangeStays DEF Unrecorded
    <2>3. proc.operations = {}
      BY <1>0, <2>1 DEF ServicesChange
    <2>4. ServicesChange(p)'
      BY <1>2, <1>4, <1>5, <2>3 DEF ServicesChange, Moves
    <2>5. Changing(p)'
      BY <1>4, <1>5, <2>2, <2>4 DEF Changing, Moves
    <2> QED BY <1>1, <1>4, <1>5, <1>6, <2>5, GoesOn DEF AfterRecord
  <1>7. CASE ~proc.changes
    <2>1. Repeating(p) /\ proc.slice = state[p] /\ Settled(p) /\ HasDisks(p, proc.slice)
      BY <1>0, <1>1, <1>7 DEF Repeating
    <2>2. HasDisks(p, proc.slice)' /\ SizesAreKnown(p)'
      BY <1>5, <2>1 DEF HasDisks, Settled, SizesAreKnown, Explains, Unrecorded, Moves
    <2>3. ~halfway[p] => InForce(p, state[p])'
      <3>1. SUFFICES ASSUME ~halfway[p] PROVE InForce(p, state[p])'
        OBVIOUS
      <3>2. InForce(p, state[p]) /\ state[p].services = 0 /\ state' = state
        BY <1>2, <1>5, <2>1, <3>1 DEF Settled, Unrecorded
      <3>3. compose[p] = 0
        BY <3>2 DEF InForce
      <3> QED BY <1>5, <2>1, <2>2, <3>2, <3>3 DEF InForce, Moves
    <2>4. Settled(p)'
      BY <1>5, <2>2, <2>3 DEF Settled, Unrecorded
    <2>5. Repeating(p)'
      BY <1>2, <1>4, <1>5, <2>1, <2>2, <2>4 DEF Repeating, Moves, Unrecorded
    <2> QED BY <1>1, <1>4, <1>5, <1>7, <2>5, GoesOn DEF AfterRecord
  <1> QED BY <1>6, <1>7

\* A disk is removed or created.
LEMMA OperationStep ==
  ASSUME Sound, Typed, NEW p \in Planes, Works(p), PlaneInv(p), DiskOperation
  PROVE  Typed' /\ OtherPlanes(p) /\ PlaneInv(p)'
  <1>0. proc.step = "operations"
    BY DEF DiskOperation, At
  <1>1. /\ proc.changes /\ Changing(p) /\ p = proc.plane /\ NoOrphans(p) /\ proc.step # "idle"
        /\ DisksChange(p) /\ ServicesChange(p)
    BY <1>0, ChangingSteps DEF Changing
  <1>2. proc \in ProcType /\ proc.operations \in SUBSET ({"remove", "ensure"} \X Disks)
    BY <1>1, Active DEF ProcType
  <1>3. PICK o \in proc.operations :
          /\ o[1] = "ensure" => <<"remove", o[2]>> \notin proc.operations
          /\ disk' = IF o[1] = "remove" THEN Removed(o[2]) ELSE Ensured(o[2])
          /\ proc' = [proc EXCEPT !.operations = @ \ {o}]
    BY DEF DiskOperation
  <1> DEFINE d == o[2]
  <1>4. d \in Disks /\ o[1] \in {"remove", "ensure"} /\ o = <<o[1], d>>
    BY <1>2
  <1> HIDE DEF d
  <1>5. /\ proc' \in ProcType /\ proc'.operations = proc.operations \ {o}
        /\ proc'.step = proc.step /\ proc'.plane = proc.plane /\ proc'.slice = proc.slice
        /\ proc'.changes = proc.changes /\ proc'.down = proc.down /\ proc'.up = proc.up
    BY <1>2, <1>3 DEF ProcType
  <1>6. ProcIsConsistent'
    BY <1>1, <1>5, Active DEF ProcIsConsistent
  <1>7. Unrecorded /\ compose' = compose /\ running' = running
    BY DEF DiskOperation, Unrecorded, files, history, requests
  <1>8. PICK x \in DiskType :
          /\ OneDisk(d, x)
          /\ o[1] = "remove" =>
               x = IF d = Shared /\ proc.slice.disks[d] # 0 /\ ~Primary THEN disk[p][d] ELSE NoDisk
          /\ o[1] = "ensure" =>
               x = IF disk[p][d].size # 0 THEN disk[p][d]
                   ELSE [NoDisk EXCEPT !.size = proc.slice.disks[d]]
    <2>0. disk[p][d] \in DiskType /\ proc.slice.disks[d] \in Nat
      BY <1>1, <1>4, Active DEF Typed
    <2>1. CASE o[1] = "remove"
      <3>1. disk' = Removed(d)
        BY <1>3, <2>1 DEF d
      <3> QED BY <1>1, <1>4, <2>0, <2>1, <3>1, RemovedDisk, NoDiskType
    <2>2. CASE o[1] = "ensure"
      <3>1. disk' = Ensured(d)
        BY <1>3, <2>2 DEF d
      <3> QED BY <1>1, <1>4, <2>0, <2>2, <3>1, EnsuredDisk, NewDiskType
    <2> QED BY <1>4, <2>1, <2>2
  <1>9. /\ disk'[p][d] = x /\ \A e \in Disks : e # d => disk'[p][e] = disk[p][e]
    BY <1>1, <1>4, <1>8 DEF OneDisk
  <1>10. Typed'
    BY <1>6, <1>7, <1>8 DEF Typed, OneDisk, Unrecorded
  <1>11. OtherPlanes(p)
    BY <1>1, <1>5, <1>7, <1>8 DEF OtherPlanes, OneDisk, Unrecorded
  <1>12. NoOrphans(p)'
    BY <1>1, <1>7 DEF NoOrphans
  <1>13. DisksChange(p)'
    <2> DEFINE Good(e) ==
          /\ <<"remove", e>> \in proc'.operations /\ proc'.slice.disks[e] # 0 =>
               <<"ensure", e>> \in proc'.operations
          /\ <<"ensure", e>> \in proc'.operations => proc'.slice.disks[e] # 0
          /\ \/ disk'[p][e].size = 0
             \/ \E t \in {proc'.slice} \cup strayed'[p] : Explains(p, e, t)'
             \/ <<"remove", e>> \in proc'.operations /\ Explains(p, e, state[p])'
          /\ proc'.step # "ready" /\ proc'.slice.disks[e] # 0 =>
               disk'[p][e].size # 0 \/ <<"ensure", e>> \in proc'.operations
    <2>1. ASSUME NEW e \in Disks, e # d PROVE Good(e)
      <3>1. /\ <<"remove", e>> \in proc'.operations <=> <<"remove", e>> \in proc.operations
            /\ <<"ensure", e>> \in proc'.operations <=> <<"ensure", e>> \in proc.operations
        BY <1>4, <1>5, <2>1
      <3> QED BY <1>1, <1>5, <1>7, <1>9, <2>1, <3>1 DEF DisksChange, Explains, Unrecorded
    <2>2. ASSUME o[1] = "remove" PROVE Good(d)
      <3>1. /\ <<"remove", d>> \notin proc'.operations /\ <<"remove", d>> \in proc.operations
            /\ <<"ensure", d>> \in proc'.operations <=> <<"ensure", d>> \in proc.operations
        BY <1>3, <1>4, <1>5, <2>2
      <3>2. proc.slice.disks[d] # 0 <=> <<"ensure", d>> \in proc.operations
        BY <1>1, <1>4, <3>1 DEF DisksChange
      <3>3. disk'[p][d].size = 0 \/ Explains(p, d, proc.slice)'
        BY <1>5, <1>8, <1>9, <2>2, NoDiskType DEF Explains
      <3> QED BY <1>5, <3>1, <3>2, <3>3
    <2>3. ASSUME o[1] = "ensure" PROVE Good(d)
      <3>1. /\ <<"remove", d>> \notin proc.operations /\ <<"remove", d>> \notin proc'.operations
            /\ <<"ensure", d>> \in proc.operations /\ <<"ensure", d>> \notin proc'.operations
        BY <1>3, <1>4, <1>5, <2>3 DEF d
      <3>2. proc.slice.disks[d] \in Nat \ {0}
        BY <1>1, <1>4, <3>1, Active DEF DisksChange
      <3>3. CASE disk[p][d].size = 0
        <4>1. x.size = proc.slice.disks[d]
          BY <1>8, <2>3, <3>2, <3>3, NewDiskType
        <4> QED BY <1>5, <1>9, <3>1, <3>2, <4>1 DEF Explains
      <3>4. CASE disk[p][d].size # 0
        <4>1. disk'[p][d] = disk[p][d]
          BY <1>8, <1>9, <2>3, <3>4
        <4> QED BY <1>1, <1>4, <1>5, <1>7, <3>1, <3>2, <3>4, <4>1 DEF Explains, DisksChange, Unrecorded
      <3> QED BY <3>3, <3>4
    <2>4. Good(d)
      BY <1>4, <2>2, <2>3
    <2>5. \A e \in Disks : Good(e)
      BY <2>1, <2>4
    <2> QED BY <2>5 DEF DisksChange
  <1>14. proc.up /\ ~Primary => disk'[p][Shared].model /\ disk'[p][Shared].size # 0
    <2> SUFFICES ASSUME proc.up, ~Primary
                 PROVE  disk'[p][Shared].model /\ disk'[p][Shared].size # 0
      OBVIOUS
    <2>1. disk[p][Shared].model /\ disk[p][Shared].size # 0 /\ Shared \in Disks
      BY <1>0, <1>1 DEF ServicesChange, Sound
    <2>2. proc.slice.disks[Shared] # 0
      BY <1>1, Active
    <2>3. disk'[p][Shared] = disk[p][Shared]
      BY <1>4, <1>8, <1>9, <2>1, <2>2
    <2> QED BY <2>1, <2>3, Zenon
  <1>15. ServicesChange(p)'
    BY <1>0, <1>5, <1>14 DEF ServicesChange
  <1>16. Changing(p)'
    BY <1>0, <1>5, <1>13, <1>15 DEF Changing
  <1> QED BY <1>0, <1>1, <1>5, <1>10, <1>11, <1>12, <1>16 DEF PlaneInv, Works, AfterRecord

\* The runtime configuration is written.
LEMMA ConfigStep ==
  ASSUME Sound, Typed, NEW p \in Planes, Works(p), PlaneInv(p), WriteConfig
  PROVE  Typed' /\ OtherPlanes(p) /\ PlaneInv(p)'
  <1>0. proc.step = "operations" /\ proc.operations = {}
    BY DEF WriteConfig, At
  <1>1. /\ proc.changes /\ Changing(p) /\ p = proc.plane /\ NoOrphans(p) /\ proc.step # "idle"
        /\ DisksChange(p) /\ ServicesChange(p)
    BY <1>0, ChangingSteps DEF Changing
  <1> DEFINE x == IF proc.up THEN "compose" ELSE "stop"
  <1>2. x \in {"compose", "stop"} /\ (x = "compose" <=> proc.up) /\ GoTo(x)
    BY DEF WriteConfig
  <1> HIDE DEF x
  <1>3. Moves(x) /\ ProcIsConsistent'
    BY <1>1, <1>2, GoToMoves DEF Steps
  <1>4. Unrecorded /\ compose' = compose /\ running' = running
    BY DEF WriteConfig, Unrecorded, files, history, requests
  <1>5. SizesStay(p) /\ (proc.up => disk'[p][Shared].config = proc.slice.services)
    <2> DEFINE y == [disk[p][Shared] EXCEPT !.config = proc.slice.services]
    <2>1. CASE proc.up \/ (proc.down /\ disk[p][Shared].size # 0)
      <3>1. OneDisk(Shared, y)
        BY <1>1, <2>1, SharedConfig DEF WriteConfig
      <3>2. Shared \in Disks /\ disk[p][Shared] \in DiskType /\ proc.slice.services \in Nat
        BY <1>1, Active DEF Typed, Sound
      <3>3. /\ y \in DiskType /\ y.size = disk[p][Shared].size /\ y.model = disk[p][Shared].model
            /\ y.config = proc.slice.services
        BY <3>2 DEF DiskType
      <3> HIDE DEF y
      <3>4. SizesStay(p)
        BY <1>1, <3>1, <3>3, SharedSizes
      <3>5. disk'[p][Shared] = y
        BY <1>1, <3>1, <3>2 DEF OneDisk
      <3> QED BY <3>3, <3>4, <3>5
    <2>2. CASE ~(proc.up \/ (proc.down /\ disk[p][Shared].size # 0))
      BY <1>1, <2>2, SameSizes DEF WriteConfig
    <2> QED BY <2>1, <2>2
  <1>6. Typed'
    BY <1>3, <1>4, <1>5 DEF Typed, SizesStay, Unrecorded
  <1>7. OtherPlanes(p)
    BY <1>1, <1>3, <1>4, <1>5 DEF OtherPlanes, SizesStay, Unrecorded, Moves
  <1>8. NoOrphans(p)'
    BY <1>1, <1>4 DEF NoOrphans
  <1>9. DisksChange(p)'
    BY <1>0, <1>1, <1>2, <1>3, <1>4, <1>5, DisksChangeStays DEF Unrecorded
  <1>10. proc.up /\ ~Primary => disk'[p][Shared].model /\ disk'[p][Shared].size # 0
    BY <1>0, <1>1, <1>5 DEF ServicesChange, SizesStay, Sound
  <1>11. ServicesChange(p)'
    BY <1>0, <1>2, <1>3, <1>5, <1>10 DEF ServicesChange, Moves
  <1>12. Changing(p)'
    BY <1>2, <1>3, <1>9, <1>11 DEF Changing, Moves
  <1> QED BY <1>1, <1>2, <1>3, <1>6, <1>7, <1>8, <1>12, GoesOn DEF AfterRecord

\* The compose file is written.
LEMMA ComposeFileStep ==
  ASSUME Sound, Typed, NEW p \in Planes, Works(p), PlaneInv(p), WriteComposeFile
  PROVE  Typed' /\ OtherPlanes(p) /\ PlaneInv(p)'
  <1>0. proc.step = "compose"
    BY DEF WriteComposeFile, At
  <1>1. /\ proc.changes /\ Changing(p) /\ p = proc.plane /\ NoOrphans(p) /\ proc.step # "idle"
        /\ DisksChange(p) /\ ServicesChange(p) /\ proc.up /\ proc.operations = {}
    BY <1>0, ChangingSteps DEF Changing, ServicesChange
  <1>2. Moves("up") /\ ProcIsConsistent'
    BY <1>1, GoToMoves DEF WriteComposeFile, Steps
  <1>3. Unrecorded /\ running' = running /\ disk' = disk
    BY DEF WriteComposeFile, Unrecorded, files, history, requests
  <1>4. /\ compose' \in [Planes -> Nat] /\ compose'[p] = proc.slice.services
        /\ \A q \in Planes : q # p => compose'[q] = compose[q]
    BY <1>1, Active DEF WriteComposeFile, Typed
  <1>5. Typed'
    BY <1>2, <1>3, <1>4 DEF Typed, Unrecorded
  <1>6. OtherPlanes(p)
    BY <1>1, <1>2, <1>3, <1>4 DEF OtherPlanes, Unrecorded, Moves
  <1>7. NoOrphans(p)'
    BY <1>1, <1>4, Active DEF NoOrphans
  <1>8. DisksChange(p)'
    BY <1>0, <1>1, <1>2, <1>3, SameSizes, DisksChangeStays DEF Unrecorded
  <1>9. ServicesChange(p)'
    BY <1>0, <1>1, <1>2, <1>3, <1>4 DEF ServicesChange, Moves
  <1>10. Changing(p)'
    BY <1>2, <1>8, <1>9 DEF Changing, Moves
  <1> QED BY <1>1, <1>2, <1>5, <1>6, <1>7, <1>10, GoesOn DEF AfterRecord

\* The containers are brought up.
LEMMA UpStep ==
  ASSUME Sound, Typed, NEW p \in Planes, Works(p), PlaneInv(p), ComposeUp
  PROVE  Typed' /\ OtherPlanes(p) /\ PlaneInv(p)'
  <1>0. proc.step = "up"
    BY DEF ComposeUp, At
  <1>1. /\ proc.changes /\ Changing(p) /\ p = proc.plane /\ NoOrphans(p) /\ proc.step # "idle"
        /\ DisksChange(p) /\ ServicesChange(p) /\ proc.up /\ proc.operations = {}
        /\ compose[p] = proc.slice.services
    BY <1>0, ChangingSteps DEF Changing, ServicesChange
  <1>2. Moves("save") /\ ProcIsConsistent'
    BY <1>1, GoToMoves DEF ComposeUp, Steps
  <1>3. Unrecorded /\ compose' = compose /\ disk' = disk
    BY DEF ComposeUp, Unrecorded, files, history, requests
  <1>4. /\ running' \in [Planes -> Nat] /\ running'[p] = compose[p]
        /\ \A q \in Planes : q # p => running'[q] = running[q]
    BY <1>1 DEF ComposeUp, Typed
  <1>5. Typed'
    BY <1>2, <1>3, <1>4 DEF Typed, Unrecorded
  <1>6. OtherPlanes(p)
    BY <1>1, <1>2, <1>3, <1>4 DEF OtherPlanes, Unrecorded, Moves
  <1>7. NoOrphans(p)'
    BY <1>3, <1>4 DEF NoOrphans
  <1>8. DisksChange(p)'
    BY <1>0, <1>1, <1>2, <1>3, SameSizes, DisksChangeStays DEF Unrecorded
  <1>9. ServicesChange(p)'
    BY <1>0, <1>1, <1>2, <1>3, <1>4 DEF ServicesChange, Moves
  <1>10. Changing(p)'
    BY <1>2, <1>8, <1>9 DEF Changing, Moves
  <1> QED BY <1>1, <1>2, <1>5, <1>6, <1>7, <1>10, GoesOn DEF AfterRecord

\* The state file is truncated.
LEMMA TruncateStep ==
  ASSUME Sound, Typed, NEW p \in Planes, Works(p), PlaneInv(p), TruncateState
  PROVE  Typed' /\ OtherPlanes(p) /\ PlaneInv(p)'
  <1>0. proc.step = "save" /\ SameNode /\ GoTo("write")
    BY DEF TruncateState, At, SameNode, node, history, requests
  <1>1. /\ p = proc.plane /\ proc.step # "idle" /\ NoOrphans(p)
        /\ proc.changes => Changing(p)
        /\ ~proc.changes => Repeating(p)
    BY <1>0, Branches DEF AfterRecord
  <1>2. Moves("write") /\ ProcIsConsistent'
    BY <1>0, <1>1, GoToMoves DEF Steps
  <1>3. Typed' /\ OtherPlanes(p) /\ NoOrphans(p)' /\ (Settled(p) => Settled(p)')
    BY <1>0, <1>1, <1>2, SameNodeKeeps DEF Moves
  <1>4. proc.changes => Changing(p)'
    <2> SUFFICES ASSUME proc.changes PROVE Changing(p)'
      OBVIOUS
    <2>1. DisksChange(p) /\ ServicesChange(p)
      BY <1>1 DEF Changing
    <2>2. DisksChange(p)'
      BY <1>0, <1>2, <2>1, SameSizes, DisksChangeStays DEF SameNode
    <2>3. ServicesChange(p)'
      BY <1>0, <1>2, <2>1 DEF ServicesChange, Moves, SameNode
    <2> QED BY <1>2, <2>2, <2>3 DEF Changing, Moves
  <1>5. ~proc.changes => Repeating(p)'
    <2> SUFFICES ASSUME ~proc.changes PROVE Repeating(p)'
      OBVIOUS
    <2>1. Repeating(p) /\ HasDisks(p, proc.slice)
      BY <1>0, <1>1 DEF Repeating
    <2>2. HasDisks(p, proc.slice)'
      BY <1>0, <1>2, <2>1 DEF HasDisks, SameNode, Moves
    <2> QED BY <1>0, <1>2, <1>3, <2>1, <2>2 DEF Repeating, Moves, SameNode
  <1> QED BY <1>1, <1>2, <1>3, <1>4, <1>5, GoesOn DEF AfterRecord

\* The record is written, or removed with the plane: it tells what the node is.
LEMMA RecordStep ==
  ASSUME Sound, Typed, NEW p \in Planes, Works(p), PlaneInv(p), WriteState \/ RemoveState
  PROVE  Typed' /\ OtherPlanes(p) /\ PlaneInv(p)'
  <1>0. proc.step \in {"save", "write"} /\ Recorded
    BY DEF WriteState, RemoveState, At
  <1>1. /\ p = proc.plane /\ proc.step # "idle" /\ NoOrphans(p)
        /\ proc.changes => Changing(p)
        /\ ~proc.changes => Repeating(p)
    BY <1>0, Branches DEF AfterRecord
  <1>2. PICK x \in {"generation", "merge"} : GoTo(x)
    BY DEF WriteState, RemoveState
  <1>3. Moves(x) /\ ProcIsConsistent'
    BY <1>1, <1>2, GoToMoves DEF Steps
  <1>4. disk' = disk /\ compose' = compose /\ running' = running /\ row' = row
    BY DEF WriteState, RemoveState, node, requests
  <1>5. proc.slice \in Asked /\ proc \in ProcType
    BY <1>1, Active
  <1>6. /\ state' \in [Planes -> Asked] /\ state'[p] = proc.slice
        /\ \A q \in Planes : q # p => state'[q] = state[q]
    BY <1>0, <1>1, <1>5 DEF Recorded, Typed
  <1>7. /\ halfway' \in [Planes -> BOOLEAN]
        /\ halfway'[p] <=> halfway[p] /\ ~proc.changes /\ proc.up
        /\ \A q \in Planes : q # p => halfway'[q] = halfway[q]
    <2>1. halfway' = [halfway EXCEPT ![p] = halfway[p] /\ ~proc.changes /\ proc.up]
      BY <1>0, <1>1 DEF Recorded
    <2> QED BY <2>1 DEF Typed
  <1>8. /\ strayed' \in [Planes -> SUBSET Asked]
        /\ strayed'[p] = IF strayed[p] \subseteq {proc.slice} THEN {} ELSE strayed[p]
        /\ \A q \in Planes : q # p => strayed'[q] = strayed[q]
    BY <1>0, <1>1 DEF Recorded, Typed
  <1>9. Typed'
    BY <1>3, <1>4, <1>6, <1>7, <1>8 DEF Typed
  <1>10. OtherPlanes(p)
    BY <1>1, <1>3, <1>4, <1>6, <1>7, <1>8 DEF OtherPlanes, Moves
  <1>11. \A t : /\ HasDisks(p, t)' <=> HasDisks(p, t)
                /\ InForce(p, t)' <=> InForce(p, t)
                /\ \A d \in Disks : Explains(p, d, t)' <=> Explains(p, d, t)
    BY <1>4 DEF HasDisks, InForce, Explains
  <1>12. \A d \in Disks :
           disk[p][d].size = 0 \/ \E t \in {proc.slice} \cup strayed[p] : Explains(p, d, t)
    <2>1. CASE proc.changes
      <3>1. DisksChange(p) /\ proc.operations = {}
        BY <1>0, <1>1, <2>1 DEF Changing, ServicesChange
      <3> QED BY <3>1 DEF DisksChange
    <2>2. CASE ~proc.changes
      BY <1>1, <2>2 DEF Repeating, Settled, SizesAreKnown
    <2> QED BY <2>1, <2>2
  <1>13. SizesAreKnown(p)'
    <2>1. \A d \in Disks, t \in {proc.slice} \cup strayed[p] : t \in {state'[p]} \cup strayed'[p]
      BY <1>6, <1>8
    <2> QED BY <1>4, <1>11, <1>12, <2>1 DEF SizesAreKnown
  <1>14. ~halfway'[p] => InForce(p, proc.slice)
    <2> SUFFICES ASSUME ~halfway'[p] PROVE InForce(p, proc.slice)
      OBVIOUS
    <2>1. CASE proc.changes
      <3>1. DisksChange(p) /\ ServicesChange(p) /\ proc.operations = {}
        BY <1>0, <1>1, <2>1 DEF Changing, ServicesChange
      <3>2. HasDisks(p, proc.slice)
        BY <1>0, <3>1 DEF DisksChange, HasDisks
      <3>3. compose[p] = proc.slice.services /\ running[p] = proc.slice.services
        BY <1>0, <3>1 DEF ServicesChange
      <3>4. proc.slice.services # 0 => /\ disk[p][Shared].config = proc.slice.services
                                       /\ ~Primary => disk[p][Shared].model
        BY <1>0, <1>1, <3>1, Active DEF ServicesChange
      <3> QED BY <3>2, <3>3, <3>4 DEF InForce
    <2>2. CASE ~proc.changes /\ proc.up
      <3>1. ~halfway[p]
        BY <1>7, <2>2
      <3> QED BY <1>1, <2>2, <3>1 DEF Repeating, Settled
    <2>3. CASE ~proc.changes /\ ~proc.up
      <3>1. running[p] = 0 /\ compose[p] = 0 /\ HasDisks(p, proc.slice)
        BY <1>0, <1>1, <2>3 DEF Repeating
      <3>2. proc.slice.services = 0
        BY <1>1, <2>3, Active
      <3> QED BY <3>1, <3>2 DEF InForce
    <2> QED BY <2>1, <2>2, <2>3
  <1>15. Settled(p)'
    BY <1>6, <1>11, <1>13, <1>14 DEF Settled
  <1>16. NoOrphans(p)'
    BY <1>1, <1>4 DEF NoOrphans
  <1> QED BY <1>2, <1>3, <1>9, <1>10, <1>15, <1>16 DEF PlaneInv, AfterRecord, Moves

\* The generations follow the record, and the application ends.
LEMMA EndSteps ==
  ASSUME Sound, Typed, NEW p \in Planes, Works(p), PlaneInv(p),
         SaveGeneration \/ RewriteAggregate \/ Complete
  PROVE  Typed' /\ OtherPlanes(p) /\ PlaneInv(p)'
  <1>0. proc.step \in AfterRecord /\ SameNode
    BY DEF SaveGeneration, RewriteAggregate, Complete, At, AfterRecord, SameNode, node, files,
           history, requests
  <1>1. p = proc.plane /\ proc.step # "idle" /\ Settled(p) /\ NoOrphans(p)
    BY <1>0, Branches
  <1>2. /\ ProcIsConsistent'
        /\ proc' = Idle \/ proc'.plane = p
        /\ proc' = Idle \/ proc'.step \in AfterRecord
    <2>1. CASE Complete
      BY <2>1 DEF Complete, ProcIsConsistent
    <2>2. CASE SaveGeneration \/ RewriteAggregate
      <3>1. PICK x \in {"merge", "wait"} : GoTo(x)
        BY <2>2 DEF SaveGeneration, RewriteAggregate
      <3>2. Moves(x) /\ ProcIsConsistent'
        BY <1>1, <3>1, GoToMoves DEF Steps
      <3> QED BY <1>1, <3>1, <3>2 DEF Moves, AfterRecord
    <2> QED BY <2>1, <2>2
  <1>3. Typed' /\ OtherPlanes(p) /\ NoOrphans(p)' /\ Settled(p)'
    BY <1>0, <1>1, <1>2, SameNodeKeeps
  <1> QED BY <1>2, <1>3 DEF PlaneInv, Works, Idle

\* The application is abandoned: what it changed is remembered as having strayed.
LEMMA AbandonStep ==
  ASSUME Sound, Typed, NEW p \in Planes, Works(p), PlaneInv(p), Abandon
  PROVE  Typed' /\ OtherPlanes(p) /\ PlaneInv(p)'
  <1>1. /\ p = proc.plane /\ proc.step # "idle" /\ NoOrphans(p)
        /\ proc.step \in AfterRecord => Settled(p)
        /\ proc.step \notin AfterRecord /\ ~proc.changes => Repeating(p)
        /\ proc.step \notin AfterRecord /\ proc.changes => Changing(p)
    BY Branches
  <1>2. proc' = Idle /\ disk' = disk /\ compose' = compose /\ state' = state /\ row' = row
    BY DEF Abandon
  <1>3. proc.slice \in Asked /\ proc \in ProcType
    BY <1>1, Active
  <1> DEFINE unrecorded == proc.step \notin AfterRecord /\ proc.changes
  <1>4. /\ halfway' \in [Planes -> BOOLEAN]
        /\ halfway'[p] <=> halfway[p] \/ unrecorded
        /\ \A q \in Planes : q # p => halfway'[q] = halfway[q]
    <2>1. halfway' = [halfway EXCEPT ![p] = halfway[p] \/ unrecorded]
      BY <1>1 DEF Abandon, AfterRecord
    <2> QED BY <2>1 DEF Typed
  <1>5. /\ strayed' \in [Planes -> SUBSET Asked]
        /\ strayed'[p] = IF unrecorded THEN strayed[p] \cup {proc.slice} ELSE strayed[p]
        /\ \A q \in Planes : q # p => strayed'[q] = strayed[q]
    <2>1. strayed' = [strayed EXCEPT ![p] = IF unrecorded THEN strayed[p] \cup {proc.slice}
                                            ELSE strayed[p]]
      BY <1>1 DEF Abandon, AfterRecord
    <2> HIDE DEF unrecorded
    <2> QED BY <1>3, <2>1 DEF Typed
  <1>6. /\ running' \in [Planes -> Nat]
        /\ \A q \in Planes : q # p => running'[q] = running[q]
        /\ running' = running \/ proc.step = "up"
    <2>1. \/ running' = running
          \/ proc.step = "up" /\ running' = [running EXCEPT ![p] = Partial]
      BY <1>1 DEF Abandon, At
    <2>2. Partial \in Nat /\ running \in [Planes -> Nat]
      BY DEF Partial, Sound, Typed
    <2> QED BY <2>1, <2>2
  <1>7. Typed'
    BY <1>2, <1>4, <1>5, <1>6 DEF Typed, ProcIsConsistent
  <1>8. OtherPlanes(p)
    BY <1>2, <1>4, <1>5, <1>6 DEF OtherPlanes
  <1>9. NoOrphans(p)'
    <2>1. CASE running' = running
      BY <1>1, <1>2, <2>1 DEF NoOrphans
    <2>2. CASE proc.step = "up"
      <3>1. ServicesChange(p)
        BY <2>2, ChangingSteps DEF Changing
      <3>2. compose[p] # 0
        BY <1>1, <2>2, <3>1, Active DEF ServicesChange
      <3> QED BY <1>2, <3>2 DEF NoOrphans
    <2> QED BY <1>6, <2>1, <2>2
  <1>10. Settled(p)'
    <2>1. CASE unrecorded
      <3>1. DisksChange(p) /\ halfway'[p]
        BY <1>1, <1>4, <2>1 DEF Changing
      <3>2. \A d \in Disks, t \in {proc.slice, state[p]} \cup strayed[p] :
              Explains(p, d, t) => Explains(p, d, t)'
        BY <1>2 DEF Explains
      <3>3. strayed'[p] = strayed[p] \cup {proc.slice}
        BY <1>5, <2>1
      <3>4. SizesAreKnown(p)'
        BY <1>2, <3>1, <3>2, <3>3 DEF DisksChange, SizesAreKnown
      <3> QED BY <3>1, <3>4 DEF Settled
    <2>2. CASE ~unrecorded
      <3>1. Settled(p) /\ proc.step # "up"
        BY <1>1, <2>2 DEF Repeating, AfterRecord
      <3>2. running' = running /\ strayed'[p] = strayed[p] /\ (halfway'[p] <=> halfway[p])
        BY <1>4, <1>5, <1>6, <2>2, <3>1
      <3> QED BY <1>2, <3>1, <3>2 DEF Settled, InForce, HasDisks, SizesAreKnown, Explains
    <2> QED BY <2>1, <2>2
  <1> QED BY <1>2, <1>7, <1>8, <1>9, <1>10 DEF PlaneInv, Works, Idle

-----------------------------------------------------------------------------
(* Between applications                                                      *)

\* What the plan contains for a disk.
LEMMA PlannedOperations ==
  ASSUME NEW current, NEW desired, NEW d \in Disks
  PROVE  /\ <<"remove", d>> \in DiskOperations(current, desired) <=>
              current.disks[d] # desired.disks[d] /\ current.disks[d] # 0
         /\ <<"ensure", d>> \in DiskOperations(current, desired) <=>
              current.disks[d] # desired.disks[d] /\ desired.disks[d] # 0
  BY DEF DiskOperations

\* An empty plan is one for the recorded slice.
LEMMA EmptyPlan ==
  ASSUME Sound, NEW current \in Asked, NEW desired \in Asked, PlanIsEmpty(current, desired)
  PROVE  current = desired
  <1>1. current \in SliceType /\ desired \in SliceType
    BY AskedFacts
  <1>2. \A d \in Disks : current.disks[d] = desired.disks[d]
    BY PlannedOperations DEF PlanIsEmpty
  <1>3. current.disks = desired.disks
    BY <1>1, <1>2 DEF SliceType
  <1> QED BY <1>1, <1>3 DEF SliceType, PlanIsEmpty

\* An application starts from the record.
LEMMA BeginStep ==
  ASSUME Sound, Typed, NodeInv, NEW p \in Planes, Begin(p)
  PROVE  Typed' /\ NodeInv'
  <1> PICK s, c : s = row[p].slice /\ c = state[p]
    OBVIOUS
  <1>0. proc.step = "idle" /\ SameNode
    BY DEF Begin, SameNode, node, files, history, requests
  <1>1. s \in Asked /\ c \in Asked /\ row[p].generation \in Nat
    BY DEF Typed
  <1>2. \A q \in Planes : NoOrphans(q) /\ Settled(q)
    BY <1>0 DEF NodeInv, PlaneInv, Works
  <1>3. /\ proc'.plane = p /\ proc'.slice = s
        /\ proc'.step = IF PlanIsEmpty(c, s) THEN "verify" ELSE "ready"
        /\ proc'.changes <=> ~PlanIsEmpty(c, s)
        /\ proc'.operations = DiskOperations(c, s)
        /\ proc'.up <=> s.services # 0
        /\ proc'.down => s.services = 0
    BY DEF Begin, Plan
  <1>4. DiskOperations(c, s) \in SUBSET ({"remove", "ensure"} \X Disks)
    BY DEF DiskOperations
  <1>5. proc' \in ProcType
    BY <1>1, <1>4 DEF Begin, Plan, ProcType, Steps
  <1>6. ProcIsConsistent'
    BY <1>3, <1>5 DEF ProcIsConsistent
  <1>7. Typed' /\ \A q \in Planes : NoOrphans(q)' /\ Settled(q)'
    BY <1>0, <1>2, <1>6, SameNodeKeeps
  <1>8. PlaneInv(p)'
    <2>1. CASE PlanIsEmpty(c, s)
      <3>1. c = s
        BY <1>1, <2>1, EmptyPlan
      <3>2. proc'.step = "verify" /\ ~proc'.changes /\ proc'.slice = state'[p]
        BY <1>0, <1>3, <2>1, <3>1 DEF SameNode
      <3>3. Repeating(p)'
        BY <1>7, <3>2 DEF Repeating
      <3> QED BY <1>7, <3>2, <3>3 DEF PlaneInv, AfterRecord
    <2>2. CASE ~PlanIsEmpty(c, s)
      <3>1. proc'.step = "ready" /\ proc'.changes
        BY <1>3, <2>2
      <3>2. DisksChange(p)'
        <4>0. \A d \in Disks :
                /\ <<"remove", d>> \in proc'.operations <=>
                     c.disks[d] # s.disks[d] /\ c.disks[d] # 0
                /\ <<"ensure", d>> \in proc'.operations <=>
                     c.disks[d] # s.disks[d] /\ s.disks[d] # 0
          <5>1. proc'.operations = DiskOperations(c, s)
            BY <1>3
          <5>2. ASSUME NEW d \in Disks
                PROVE  /\ <<"remove", d>> \in DiskOperations(c, s) <=>
                            c.disks[d] # s.disks[d] /\ c.disks[d] # 0
                       /\ <<"ensure", d>> \in DiskOperations(c, s) <=>
                            c.disks[d] # s.disks[d] /\ s.disks[d] # 0
            BY DEF DiskOperations
          <5> QED BY <5>1, <5>2, Zenon
        <4>1. \A d \in Disks :
                \/ disk'[p][d].size = 0
                \/ \E t \in {c} \cup strayed'[p] : Explains(p, d, t)'
          BY <1>0, <1>7 DEF Settled, SizesAreKnown, SameNode
        <4>2. ASSUME NEW d \in Disks, Explains(p, d, c)'
              PROVE  Explains(p, d, s)' \/ <<"remove", d>> \in proc'.operations
          <5>1. c.disks[d] # 0
            BY <4>2 DEF Explains
          <5>2. c.disks[d] = s.disks[d] => Explains(p, d, s)'
            BY <4>2 DEF Explains
          <5> QED BY <4>0, <5>1, <5>2
        <4>3. c = state'[p]
          BY <1>0 DEF SameNode
        <4>4. \A d \in Disks :
                /\ <<"remove", d>> \in proc'.operations /\ s.disks[d] # 0 =>
                     <<"ensure", d>> \in proc'.operations
                /\ <<"ensure", d>> \in proc'.operations => s.disks[d] # 0
          BY <4>0
        <4>5. \A d \in Disks :
                \/ disk'[p][d].size = 0
                \/ \E t \in {s} \cup strayed'[p] : Explains(p, d, t)'
                \/ <<"remove", d>> \in proc'.operations /\ Explains(p, d, c)'
          BY <4>1, <4>2
        <4> QED BY <1>3, <3>1, <4>3, <4>4, <4>5 DEF DisksChange, Explains
      <3>3. Changing(p)'
        BY <3>1, <3>2 DEF Changing, ServicesChange
      <3> QED BY <1>7, <3>1, <3>3 DEF PlaneInv, AfterRecord, Works
    <2> QED BY <2>1, <2>2
  <1>9. \A q \in Planes : q # p => PlaneInv(q)'
    BY <1>3, <1>7 DEF PlaneInv, Works
  <1> QED BY <1>7, <1>8, <1>9 DEF NodeInv

\* A step that changes neither the node, its records nor the application.
LEMMA QuietStep ==
  ASSUME Sound, Typed, NodeInv,
         disk' = disk, compose' = compose, running' = running, state' = state,
         halfway' = halfway, strayed' = strayed, proc' = proc,
         row' \in [Planes -> [slice : Asked, generation : Nat]]
  PROVE  Typed' /\ NodeInv'
  <1>1. Typed'
    BY DEF Typed, ProcIsConsistent
  <1>2. NodeInv'
    BY DEF NodeInv, PlaneInv, NoOrphans, Settled, InForce, HasDisks, SizesAreKnown, Explains,
           Works, Repeating, Changing, DisksChange, ServicesChange
  <1> QED BY <1>1, <1>2

LEMMA DesireStep ==
  ASSUME Sound, Typed, NodeInv, NEW p \in Planes, NEW s \in Slices, Desire(p, s)
  PROVE  Typed' /\ NodeInv'
  <1>1. row' \in [Planes -> [slice : Asked, generation : Nat]]
    BY DEF Desire, Typed, Asked
  <1> QED BY <1>1, QuietStep DEF Desire, node, files, history

-----------------------------------------------------------------------------
(* The invariant                                                             *)

LEMMA InitNode ==
  ASSUME Sound, Init
  PROVE  Typed /\ NodeInv
  <1>1. Empty \in Asked /\ NoDisk \in DiskType /\ Empty.services = 0
    BY NoDiskType DEF Asked, Empty
  <1>2. Typed
    BY <1>1 DEF Init, Typed, ProcIsConsistent
  <1>3. ASSUME NEW p \in Planes PROVE PlaneInv(p)
    <2>1. /\ compose[p] = 0 /\ running[p] = 0 /\ state[p] = Empty /\ proc.step = "idle"
          /\ \A d \in Disks : disk[p][d].size = 0 /\ state[p].disks[d] = 0
      BY NoDiskType DEF Init, Idle, Empty
    <2> QED BY <1>1, <2>1 DEF PlaneInv, NoOrphans, Works, Settled, InForce, HasDisks,
              SizesAreKnown, AfterRecord
  <1> QED BY <1>2, <1>3 DEF NodeInv

\* One case for each step of the application under way.
LEMMA ApplicationStep ==
  ASSUME Sound, Typed, NodeInv,
         \/ CreateMissingDisk \/ DisksAreReady \/ Bootstrap
         \/ PlannedDown \/ DiskOperation \/ WriteConfig \/ WriteComposeFile \/ ComposeUp \/ Stop
         \/ TruncateState \/ WriteState \/ RemoveState \/ SaveGeneration \/ RewriteAggregate
         \/ Complete \/ Abandon
  PROVE  Typed' /\ NodeInv'
  <1>1. proc.step # "idle"
    BY DEF CreateMissingDisk, DisksAreReady, Bootstrap, PlannedDown, DiskOperation, WriteConfig,
           WriteComposeFile, ComposeUp, Stop, TruncateState, WriteState, RemoveState,
           SaveGeneration, RewriteAggregate, Complete, Abandon, At
  <1>2. PICK p \in Planes : Works(p) /\ PlaneInv(p)
    BY <1>1, Active DEF Works, NodeInv
  <1>3. Typed' /\ OtherPlanes(p) /\ PlaneInv(p)'
    BY <1>2, CreateStep, ReadyStep, BootstrapStep, PlannedDownStep, OperationStep, ConfigStep,
       ComposeFileStep, UpStep, StopStep, TruncateStep, RecordStep, EndSteps, AbandonStep
  <1>4. \A q \in Planes : PlaneInv(q)'
    BY <1>2, <1>3, OthersKeepInv DEF NodeInv
  <1> QED BY <1>3, <1>4 DEF NodeInv

LEMMA NextNode ==
  ASSUME Sound, Typed, NodeInv, [Next]_vars
  PROVE  Typed' /\ NodeInv'
  <1>1. CASE \E p \in Planes : Begin(p)
    BY <1>1, BeginStep
  <1>2. CASE \E p \in Planes, s \in Slices : Desire(p, s)
    BY <1>2, DesireStep
  <1>3. CASE UNCHANGED vars
    <2>1. /\ disk' = disk /\ compose' = compose /\ running' = running /\ state' = state
          /\ halfway' = halfway /\ strayed' = strayed /\ proc' = proc /\ row' = row
      BY <1>3 DEF vars
    <2>2. row' \in [Planes -> [slice : Asked, generation : Nat]]
      BY <2>1, Zenon DEF Typed
    <2> QED BY <2>1, <2>2, QuietStep
  <1> QED BY <1>1, <1>2, <1>3, ApplicationStep DEF Next

LEMMA NodeIsKnown ==
  ASSUME Sound
  PROVE  Spec => [](Typed /\ NodeInv)
  <1>1. Init => Typed /\ NodeInv
    BY InitNode
  <1>2. Typed /\ NodeInv /\ [Next]_vars => (Typed /\ NodeInv)'
    BY NextNode
  <1> QED BY <1>1, <1>2, PTL DEF Spec

\* A plane at rest whose application left a record is what the record says.
LEMMA RestIsSettled ==
  ASSUME Sound, Typed, NodeInv, NEW p \in Planes, AtRest(p)
  PROVE  Settled(p)
  BY DEF AtRest, NodeInv, PlaneInv, Works

-----------------------------------------------------------------------------
(* The properties                                                            *)

\* What applied-state.json says of a plane is what the node runs, with the disks and
\* the runtime configuration its instances need: however often applications of
\* ApplyDesiredNodeState are abandoned, between any two of their steps.
THEOREM RecordIsInForce ==
  ASSUME Sound
  PROVE  Spec => []RecordedStateIsInForce
  <1>1. Typed /\ NodeInv => RecordedStateIsInForce
    BY RestIsSettled DEF RecordedStateIsInForce, Settled, InForce, HasDisks
  <1> QED BY <1>1, NodeIsKnown, PTL

\* The disks of the node are those of the record, with their sizes, once nothing an
\* abandoned application did is left over: RemoveDisk and
\* EnsureDesiredDiskRuntimeState neither lose nor leak a disk of a repeated row.
THEOREM DisksAreExact ==
  ASSUME Sound
  PROVE  Spec => []RecordedDisksAreExact
  <1>1. ASSUME Typed, NodeInv, NEW p \in Planes, NEW d \in Disks,
               AtRest(p), ~halfway[p], strayed[p] = {}
        PROVE  \/ disk[p][d].size = state[p].disks[d]
               \/ d = Shared /\ ~Primary /\ state[p].disks[d] # 0 /\ disk[p][d].size # 0
    <2>1. InForce(p, state[p]) /\ SizesAreKnown(p)
      BY <1>1, RestIsSettled DEF Settled
    <2>2. disk[p][d].size = 0 \/ Explains(p, d, state[p])
      BY <1>1, <2>1 DEF SizesAreKnown
    <2>3. state[p].disks[d] # 0 => disk[p][d].size # 0
      BY <2>1 DEF InForce, HasDisks
    <2> QED BY <2>2, <2>3 DEF Explains
  <1>2. Typed /\ NodeInv => RecordedDisksAreExact
    BY <1>1 DEF RecordedDisksAreExact
  <1> QED BY <1>2, NodeIsKnown, PTL

\* The runtime of a node that is not the primary one finds the model that
\* BootstrapPlaneModelIfNeeded copied, whatever disk operations followed.
THEOREM RuntimeFindsItsModel ==
  ASSUME Sound
  PROVE  Spec => []RuntimeHasItsModel
  <1>1. Typed /\ NodeInv => RuntimeHasItsModel
    BY RestIsSettled DEF RuntimeHasItsModel, Settled, InForce
  <1> QED BY <1>1, NodeIsKnown, PTL

-----------------------------------------------------------------------------
(* The bounds of the types                                                   *)

\* Instances and configurations are those of slices.
Contents ==
  /\ compose \in [Planes -> 0 .. MaxContent] /\ running \in [Planes -> 0 .. Partial]
  /\ \A p \in Planes, d \in Disks : disk[p][d].config \in 0 .. MaxContent

\* Generations are numbers of rows.
Generations ==
  /\ rows \in 0 .. MaxRows
  /\ \A p \in Planes : row[p].generation <= rows
  /\ proc.step # "idle" => proc.generation <= MaxRows
  /\ generation \in [Planes -> 0 .. MaxRows]
  /\ torn \in [Planes -> BOOLEAN]
  /\ aggregate \in 0 .. MaxRows

\* A set of numbers up to b has a largest one.
LEMMA LargestIsIn ==
  ASSUME NEW b \in Nat, NEW S \in SUBSET (0 .. b), S # {}
  PROVE  Max(S) \in S
  <1> DEFINE T == {b - x : x \in S}
             R == OpToRel(<, Nat)
  <1>1. T \subseteq Nat /\ T # {}
    <2>1. ASSUME NEW x \in S PROVE b - x \in Nat
      <3>1. x \in 0 .. b
        OBVIOUS
      <3> QED BY <3>1
    <2>2. PICK x \in S : b - x \in T
      OBVIOUS
    <2> QED BY <2>1, <2>2
  <1>2. PICK y \in T : \A z \in T : <<z, y>> \notin R
    <2>1. IsWellFoundedOn(R, Nat)
      BY NatLessThanWellFounded
    <2> HIDE DEF T, R
    <2> QED BY <1>1, <2>1, WFMin
  <1>3. \A z \in T : ~(z < y)
    BY <1>1, <1>2 DEF OpToRel
  <1>4. PICK g \in S : y = b - g
    OBVIOUS
  <1>5. ASSUME NEW x \in S PROVE g >= x
    <2>1. x \in 0 .. b /\ g \in 0 .. b /\ b - x \in T
      OBVIOUS
    <2> HIDE DEF T
    <2>2. ~(b - x < b - g)
      BY <1>3, <1>4, <2>1
    <2> QED BY <2>1, <2>2
  <1> QED BY <1>5 DEF Max

\* The services of a slice.
LEMMA SliceServices ==
  ASSUME Sound, Typed, proc.step # "idle"
  PROVE  proc.plane \in Planes /\ proc.slice.services \in 0 .. MaxContent
  BY Active, AskedFacts DEF SliceType

\* A disk that is written has a configuration of a slice.
LEMMA OneDiskConfig ==
  ASSUME Sound, Typed, Contents, proc.step # "idle", NEW d \in Disks, NEW x, OneDisk(d, x),
         x.config \in 0 .. MaxContent
  PROVE  \A p \in Planes, e \in Disks : disk'[p][e].config \in 0 .. MaxContent
  BY DEF OneDisk, Contents

LEMMA SameConfig ==
  ASSUME Contents, disk' = disk
  PROVE  \A p \in Planes, d \in Disks : disk'[p][d].config \in 0 .. MaxContent
  BY DEF Contents

LEMMA NewConfig ==
  NoDisk.config = 0 /\ \A v : [NoDisk EXCEPT !.size = v].config = 0
  BY DEF NoDisk

LEMMA DiskContents ==
  ASSUME Sound, Typed, Contents, [Next]_vars
  PROVE  \A p \in Planes, d \in Disks : disk'[p][d].config \in 0 .. MaxContent
  <1>0. MaxContent \in Nat /\ 0 \in 0 .. MaxContent
    BY DEF Sound
  <1>1. ASSUME NEW d \in Disks, proc.step # "idle", disk' = Ensured(d)
        PROVE  \A p \in Planes, e \in Disks : disk'[p][e].config \in 0 .. MaxContent
    <2> DEFINE x == IF disk[proc.plane][d].size # 0 THEN disk[proc.plane][d]
                    ELSE [NoDisk EXCEPT !.size = proc.slice.disks[d]]
    <2>1. OneDisk(d, x)
      BY <1>1, EnsuredDisk
    <2>2. x.config \in 0 .. MaxContent
      BY <1>0, <1>1, NewConfig, SliceServices DEF Contents
    <2> HIDE DEF x
    <2> QED BY <1>1, <2>1, <2>2, OneDiskConfig
  <1>2. ASSUME NEW d \in Disks, proc.step # "idle", disk' = Removed(d)
        PROVE  \A p \in Planes, e \in Disks : disk'[p][e].config \in 0 .. MaxContent
    <2> DEFINE x == IF d = Shared /\ proc.slice.disks[d] # 0 /\ ~Primary
                    THEN disk[proc.plane][d] ELSE NoDisk
    <2>1. OneDisk(d, x)
      BY <1>2, RemovedDisk
    <2>2. x.config \in 0 .. MaxContent
      BY <1>0, <1>2, NewConfig, SliceServices DEF Contents
    <2> HIDE DEF x
    <2> QED BY <1>2, <2>1, <2>2, OneDiskConfig
  <1>3. CASE CreateMissingDisk
    BY <1>1, <1>3 DEF CreateMissingDisk, Missing
  <1>4. CASE Bootstrap
    <2>1. proc.step # "idle"
      BY <1>4 DEF Bootstrap, At
    <2>2. CASE disk' = disk
      BY <2>2, SameConfig
    <2>3. CASE disk' = [disk EXCEPT ![proc.plane][Shared].model = TRUE]
      <3> DEFINE y == disk[proc.plane][Shared]
                 x == [y EXCEPT !.model = TRUE]
      <3>1. y \in DiskType /\ y.config \in 0 .. MaxContent
        BY <2>1, SliceServices DEF Typed, Contents, Sound
      <3>2. OneDisk(Shared, x)
        BY <2>1, <2>3, SharedModel
      <3> HIDE DEF y
      <3>3. x.config \in 0 .. MaxContent
        BY <3>1 DEF DiskType
      <3> HIDE DEF x
      <3> QED BY <2>1, <3>2, <3>3, OneDiskConfig DEF Sound
    <2> QED BY <1>4, <2>2, <2>3 DEF Bootstrap
  <1>5. CASE DiskOperation
    <2>1. proc.step # "idle"
      BY <1>5 DEF DiskOperation, At
    <2>2. PICK o \in proc.operations : disk' = IF o[1] = "remove" THEN Removed(o[2]) ELSE Ensured(o[2])
      BY <1>5 DEF DiskOperation
    <2>3. o[2] \in Disks
      <3>1. proc.operations \in SUBSET ({"remove", "ensure"} \X Disks)
        BY <2>1, Active DEF ProcType
      <3> QED BY <2>2, <3>1
    <2> QED BY <1>1, <1>2, <2>1, <2>2, <2>3
  <1>6. CASE WriteConfig
    <2>1. proc.step # "idle"
      BY <1>6 DEF WriteConfig, At
    <2>2. CASE disk' = disk
      BY <2>2, SameConfig
    <2>3. CASE disk' = [disk EXCEPT ![proc.plane][Shared].config = proc.slice.services]
      <3> DEFINE y == disk[proc.plane][Shared]
                 c == proc.slice.services
                 x == [y EXCEPT !.config = c]
      <3>1. y \in DiskType /\ c \in 0 .. MaxContent
        BY <2>1, SliceServices DEF Typed, Sound
      <3>2. OneDisk(Shared, x)
        BY <2>1, <2>3, SharedConfig
      <3> HIDE DEF y, c
      <3>3. x.config \in 0 .. MaxContent
        BY <3>1 DEF DiskType
      <3> HIDE DEF x
      <3> QED BY <2>1, <3>2, <3>3, OneDiskConfig DEF Sound
    <2> QED BY <1>6, <2>2, <2>3 DEF WriteConfig
  <1>7. ASSUME disk' = disk
        PROVE  \A p \in Planes, d \in Disks : disk'[p][d].config \in 0 .. MaxContent
    BY <1>7, SameConfig
  <1>8. CASE UNCHANGED vars
    BY <1>7, <1>8 DEF vars
  <1>9. CASE \E p \in Planes : Begin(p) \/ \E s \in Slices : Desire(p, s)
    BY <1>7, <1>9 DEF Begin, Desire, node
  <1>10. CASE DisksAreReady \/ TruncateState \/ WriteState \/ RemoveState \/ SaveGeneration
              \/ RewriteAggregate \/ Complete
    BY <1>7, <1>10 DEF DisksAreReady, TruncateState, WriteState, RemoveState, SaveGeneration,
       RewriteAggregate, Complete, node
  <1>11. CASE PlannedDown \/ WriteComposeFile \/ ComposeUp \/ Stop \/ Abandon
    BY <1>7, <1>11 DEF PlannedDown, ComposeDown, RemoveComposeFile, WriteComposeFile, ComposeUp,
       Stop, Abandon
  <1> QED BY <1>3, <1>4, <1>5, <1>6, <1>8, <1>9, <1>10, <1>11 DEF Next

LEMMA ServicesContents ==
  ASSUME Sound, Typed, Contents, [Next]_vars
  PROVE  compose' \in [Planes -> 0 .. MaxContent] /\ running' \in [Planes -> 0 .. Partial]
  <1>0. /\ MaxContent \in Nat /\ 0 \in 0 .. MaxContent /\ 0 \in 0 .. Partial /\ Partial \in 0 .. Partial
        /\ 0 .. MaxContent \subseteq 0 .. Partial
        /\ compose \in [Planes -> 0 .. MaxContent] /\ running \in [Planes -> 0 .. Partial]
    BY DEF Sound, Partial, Contents
  <1>1. CASE compose' = compose /\ running' = running
    BY <1>0, <1>1
  <1>2. CASE WriteComposeFile
    <2>1. proc.slice.services \in 0 .. MaxContent
      BY <1>2, SliceServices DEF WriteComposeFile, At
    <2>2. compose' = [compose EXCEPT ![proc.plane] = proc.slice.services] /\ running' = running
      BY <1>2 DEF WriteComposeFile
    <2> QED BY <1>0, <2>1, <2>2
  <1>3. CASE ComposeUp
    <2>1. proc.plane \in Planes
      BY <1>3, SliceServices DEF ComposeUp, At
    <2>2. running' = [running EXCEPT ![proc.plane] = compose[proc.plane]] /\ compose' = compose
      BY <1>3 DEF ComposeUp
    <2>3. compose[proc.plane] \in 0 .. Partial
      BY <1>0, <2>1
    <2> QED BY <1>0, <2>2, <2>3
  <1>4. CASE \E next : ComposeDown(next)
    <2>1. /\ running' = [running EXCEPT ![proc.plane] = IF compose[proc.plane] = 0 THEN @ ELSE 0]
          /\ compose' = compose
      BY <1>4 DEF ComposeDown
    <2> QED BY <1>0, <2>1
  <1>5. CASE \E next : RemoveComposeFile(next)
    <2>1. compose' = [compose EXCEPT ![proc.plane] = 0] /\ running' = running
      BY <1>5 DEF RemoveComposeFile
    <2> QED BY <1>0, <2>1
  <1>6. CASE PlannedDown \/ Stop
    BY <1>4, <1>5, <1>6 DEF PlannedDown, Stop
  <1>7. CASE Abandon
    <2>1. compose' = compose /\ (running' = running \/ running' = [running EXCEPT ![proc.plane] = Partial])
      BY <1>7 DEF Abandon
    <2> QED BY <1>0, <2>1
  <1>8. CASE UNCHANGED vars
    BY <1>1, <1>8 DEF vars
  <1>9. CASE \E p \in Planes : Begin(p) \/ \E s \in Slices : Desire(p, s)
    BY <1>1, <1>9 DEF Begin, Desire, node
  <1>10. CASE DisksAreReady \/ TruncateState \/ WriteState \/ RemoveState \/ SaveGeneration
              \/ RewriteAggregate \/ Complete
    BY <1>1, <1>10 DEF DisksAreReady, TruncateState, WriteState, RemoveState, SaveGeneration,
       RewriteAggregate, Complete, node
  <1>11. CASE CreateMissingDisk \/ Bootstrap \/ DiskOperation \/ WriteConfig
    BY <1>1, <1>11 DEF CreateMissingDisk, Bootstrap, DiskOperation, WriteConfig
  <1> QED BY <1>2, <1>3, <1>6, <1>7, <1>8, <1>9, <1>10, <1>11 DEF Next

\* Every step of the application keeps its generation.
LEMMA SameGeneration ==
  ASSUME Sound, Typed, NEW x, GoTo(x), proc.step # "idle"
  PROVE  proc'.generation = proc.generation
  <1>1. proc \in ProcType
    BY Active
  <1> QED BY <1>1 DEF GoTo, ProcType

LEMMA RowGenerations ==
  ASSUME Sound, MaxRows \in Nat, Typed, Generations, [Next]_vars
  PROVE  /\ rows' \in 0 .. MaxRows
         /\ \A p \in Planes : row'[p].generation <= rows'
         /\ proc'.step # "idle" => proc'.generation <= MaxRows
  <1>0. /\ rows \in 0 .. MaxRows /\ rows \in Nat
        /\ \A p \in Planes : row[p].generation \in Nat /\ row[p].generation <= rows
        /\ proc.step # "idle" => proc.generation <= MaxRows
    BY DEF Generations, Typed
  <1>1. CASE \E p \in Planes, s \in Slices : Desire(p, s)
    <2>1. PICK p \in Planes, s \in Slices : Desire(p, s)
      BY <1>1
    <2>2. rows' = rows + 1 /\ rows < MaxRows /\ proc' = proc
          /\ row' = [row EXCEPT ![p] = [slice |-> s, generation |-> @.generation + 1]]
      BY <2>1 DEF Desire
    <2>3. ASSUME NEW q \in Planes PROVE row'[q].generation <= rows'
      <3>1. row'[q].generation = IF q = p THEN row[p].generation + 1 ELSE row[q].generation
        BY <2>2 DEF Typed
      <3>2. row[p].generation \in Nat /\ row[p].generation <= rows
            /\ row[q].generation \in Nat /\ row[q].generation <= rows
        BY <1>0
      <3> QED BY <1>0, <2>2, <3>1, <3>2
    <2>4. rows' \in 0 .. MaxRows
      BY <1>0, <2>2
    <2> QED BY <1>0, <2>2, <2>3, <2>4
  <1>2. CASE \E p \in Planes : Begin(p)
    <2>1. PICK p \in Planes : Begin(p)
      BY <1>2
    <2>2. proc'.generation = row[p].generation /\ row' = row /\ rows' = rows
      BY <2>1 DEF Begin, requests
    <2>3. row[p].generation <= MaxRows
      BY <1>0
    <2> QED BY <1>0, <2>2, <2>3
  <1>3. ASSUME row' = row, rows' = rows,
               proc'.step = "idle" \/ (proc.step # "idle" /\ proc'.generation = proc.generation)
        PROVE  /\ rows' \in 0 .. MaxRows
               /\ \A p \in Planes : row'[p].generation <= rows'
               /\ proc'.step # "idle" => proc'.generation <= MaxRows
    BY <1>0, <1>3
  <1>4. CASE UNCHANGED vars
    BY <1>0, <1>4 DEF vars
  <1>5. CASE Complete \/ Abandon
    <2>1. proc'.step = "idle" /\ row' = row /\ rows' = rows
      BY <1>5 DEF Complete, Abandon, requests, Idle
    <2> QED BY <1>3, <2>1
  <1>6. CASE DiskOperation
    <2>1. proc \in ProcType /\ proc.step # "idle"
      BY <1>6, Active DEF DiskOperation, At
    <2>2. \E o : proc' = [proc EXCEPT !.operations = @ \ {o}]
      BY <1>6 DEF DiskOperation
    <2>3. proc'.generation = proc.generation
      BY <2>1, <2>2 DEF ProcType
    <2>4. row' = row /\ rows' = rows
      BY <1>6 DEF DiskOperation, requests
    <2> QED BY <1>3, <2>1, <2>3, <2>4
  <1>7. CASE CreateMissingDisk
    <2>1. row' = row /\ rows' = rows /\ proc' = proc /\ proc.step # "idle"
      BY <1>7 DEF CreateMissingDisk, requests
    <2> QED BY <1>3, <2>1
  <1>8. CASE DisksAreReady \/ Bootstrap \/ PlannedDown \/ WriteConfig \/ WriteComposeFile \/ ComposeUp
             \/ Stop \/ TruncateState \/ WriteState \/ RemoveState \/ SaveGeneration \/ RewriteAggregate
    <2>1. proc.step # "idle" /\ row' = row /\ rows' = rows
      BY <1>8 DEF DisksAreReady, Bootstrap, PlannedDown, ComposeDown, RemoveComposeFile, WriteConfig,
         WriteComposeFile, ComposeUp, Stop, TruncateState, WriteState, RemoveState, SaveGeneration,
         RewriteAggregate, requests, At
    <2>2. \E x : GoTo(x)
      BY <1>8 DEF DisksAreReady, Bootstrap, PlannedDown, ComposeDown, RemoveComposeFile, WriteConfig,
         WriteComposeFile, ComposeUp, Stop, TruncateState, WriteState, RemoveState, SaveGeneration,
         RewriteAggregate
    <2>3. proc'.generation = proc.generation
      BY <2>1, <2>2, SameGeneration
    <2> QED BY <1>3, <2>1, <2>3
  <1> QED BY <1>1, <1>2, <1>4, <1>5, <1>6, <1>7, <1>8 DEF Next

LEMMA FileGenerations ==
  ASSUME Sound, MaxRows \in Nat, Typed, Generations, [Next]_vars
  PROVE  /\ generation' \in [Planes -> 0 .. MaxRows] /\ torn' \in [Planes -> BOOLEAN]
         /\ aggregate' \in 0 .. MaxRows
  <1>0. /\ generation \in [Planes -> 0 .. MaxRows] /\ torn \in [Planes -> BOOLEAN]
        /\ aggregate \in 0 .. MaxRows /\ 0 \in 0 .. MaxRows
    BY DEF Generations
  <1>1. CASE generation' = generation /\ torn' = torn /\ aggregate' = aggregate
    BY <1>0, <1>1
  <1>2. CASE TruncateState
    <2>1. torn' = [torn EXCEPT ![proc.plane] = TRUE] /\ generation' = generation /\ aggregate' = aggregate
      BY <1>2 DEF TruncateState
    <2> QED BY <1>0, <2>1
  <1>3. CASE WriteState
    <2>1. torn' = [torn EXCEPT ![proc.plane] = FALSE] /\ generation' = generation /\ aggregate' = aggregate
      BY <1>3 DEF WriteState, Recorded
    <2> QED BY <1>0, <2>1
  <1>4. CASE RemoveState
    <2>1. /\ torn' = [torn EXCEPT ![proc.plane] = FALSE] /\ aggregate' = aggregate
          /\ generation' = [generation EXCEPT ![proc.plane] = 0]
      BY <1>4 DEF RemoveState, Recorded
    <2> QED BY <1>0, <2>1
  <1>5. CASE SaveGeneration
    <2>1. /\ torn' = torn /\ aggregate' = aggregate
          /\ generation' = [generation EXCEPT ![proc.plane] = proc.generation]
      BY <1>5 DEF SaveGeneration
    <2>2. proc.generation \in 0 .. MaxRows
      <3>1. proc.step # "idle"
        BY <1>5 DEF SaveGeneration, At
      <3>2. proc.generation \in Nat
        BY <3>1, Active DEF ProcType
      <3> QED BY <3>1, <3>2 DEF Generations
    <2> QED BY <1>0, <2>1, <2>2
  <1>6. CASE RewriteAggregate
    <2> DEFINE S == {generation[p] : p \in Planes}
    <2>1. torn' = torn /\ generation' = generation /\ aggregate' = Max(S)
      BY <1>6 DEF RewriteAggregate
    <2>2. proc.plane \in Planes
      BY <1>6, SliceServices DEF RewriteAggregate, At
    <2>3. S \in SUBSET (0 .. MaxRows) /\ S # {}
      BY <1>0, <2>2
    <2> HIDE DEF S
    <2>4. Max(S) \in 0 .. MaxRows
      BY <2>3, LargestIsIn
    <2> QED BY <1>0, <2>1, <2>4
  <1>7. CASE Abandon
    <2>1. /\ torn' = torn /\ aggregate' = aggregate
          /\ \/ generation' = generation
             \/ generation' = [generation EXCEPT ![proc.plane] = 0]
      BY <1>7 DEF Abandon
    <2> QED BY <1>0, <2>1
  <1>8. CASE UNCHANGED vars
    BY <1>1, <1>8 DEF vars
  <1>9. CASE \E p \in Planes : Begin(p) \/ \E s \in Slices : Desire(p, s)
    BY <1>1, <1>9 DEF Begin, Desire, files
  <1>10. CASE CreateMissingDisk \/ DisksAreReady \/ Bootstrap \/ PlannedDown \/ DiskOperation
              \/ WriteConfig \/ WriteComposeFile \/ ComposeUp \/ Stop \/ Complete
    BY <1>1, <1>10 DEF CreateMissingDisk, DisksAreReady, Bootstrap, PlannedDown, ComposeDown,
       RemoveComposeFile, DiskOperation, WriteConfig, WriteComposeFile, ComposeUp, Stop, Complete, files
  <1> QED BY <1>2, <1>3, <1>4, <1>5, <1>6, <1>7, <1>8, <1>9, <1>10 DEF Next

\* Types: instances, configurations and generations stay within those of the slices and rows
\* that were asked for; in particular the generation of the node that
\* RewriteAggregateLocalGeneration writes is one of a plane.
THEOREM TypeCorrect ==
  ASSUME Sound, MaxRows \in Nat
  PROVE  Spec => []TypeOK
  <1>1. Init => Contents /\ Generations
    <2> SUFFICES ASSUME Init PROVE Contents /\ Generations
      OBVIOUS
    <2>1. MaxContent \in Nat /\ NoDisk.config = 0 /\ Idle.step = "idle"
      BY NewConfig DEF Sound, Idle
    <2>2. Contents
      BY <2>1 DEF Init, Contents, Partial
    <2>3. Generations
      BY <2>1 DEF Init, Generations
    <2> QED BY <2>2, <2>3
  <1>2. Typed /\ NodeInv /\ Contents /\ Generations /\ [Next]_vars => (Contents /\ Generations)'
    BY DiskContents, ServicesContents, RowGenerations, FileGenerations DEF Contents, Generations
  <1>3. ASSUME Typed, Contents, Generations PROVE TypeOK
    <2>1. ASSUME NEW p \in Planes
          PROVE  /\ row[p].slice \in Slices \union {Empty} /\ row[p].generation \in 0 .. MaxRows
                 /\ \A d \in Disks : disk[p][d].config \in 0 .. MaxContent /\ disk[p][d].model \in BOOLEAN
                 /\ compose[p] \in 0 .. MaxContent /\ running[p] \in 0 .. Partial
                 /\ state[p] \in Slices \union {Empty}
                 /\ torn[p] \in BOOLEAN /\ halfway[p] \in BOOLEAN
                 /\ generation[p] \in 0 .. MaxRows /\ strayed[p] \subseteq Slices \union {Empty}
      <3>1. row[p].slice \in Asked /\ row[p].generation \in Nat /\ state[p] \in Asked
            /\ halfway[p] \in BOOLEAN /\ strayed[p] \subseteq Asked
        BY <1>3 DEF Typed
      <3>2. row[p].generation \in 0 .. MaxRows
        BY <1>3, <3>1 DEF Generations
      <3>3. \A d \in Disks : disk[p][d].config \in 0 .. MaxContent /\ disk[p][d].model \in BOOLEAN
        BY <1>3 DEF Typed, Contents, DiskType
      <3>4. compose[p] \in 0 .. MaxContent /\ running[p] \in 0 .. Partial
        BY <1>3 DEF Contents
      <3>5. torn[p] \in BOOLEAN /\ generation[p] \in 0 .. MaxRows
        BY <1>3 DEF Generations
      <3> QED BY <3>1, <3>2, <3>3, <3>4, <3>5 DEF Asked
    <2>2. proc.step \in Steps \cup {"idle"}
      BY <1>3 DEF Typed, ProcIsConsistent, ProcType, Idle
    <2>3. aggregate \in 0 .. MaxRows
      BY <1>3 DEF Generations
    <2> QED BY <2>1, <2>2, <2>3 DEF TypeOK, Steps
  <1>4. Typed /\ NodeInv /\ Contents /\ Generations => TypeOK
    BY <1>3
  <1> QED BY <1>1, <1>2, <1>4, NodeIsKnown, PTL DEF Spec
=============================================================================
