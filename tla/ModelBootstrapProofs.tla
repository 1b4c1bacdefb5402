------------------------ MODULE ModelBootstrapProofs ------------------------
(***************************************************************************)
(* Proofs about ModelBootstrap: the type invariant, and that a plane is only *)
(* applied with a whole model file unless the file may be replaced while it  *)
(* is read, unpinned, from a linked peer.                                   *)
(***************************************************************************)
EXTENDS ModelBootstrap, TLAPS

\* What the controller hands to hostd: versions with a number of chunks, a storage
\* node for every requester, a pin that names a version, at least one attempt.
Sound ==
  /\ Size \in Seq(Nat) /\ Len(Size) >= 1
  /\ Requesters \subseteq Nodes /\ Source \in [Requesters -> Nodes]
  /\ Pinned \in 0 .. Len(Size) /\ MaxAttempts \in Nat \ {0}

ApplyType == [status : {"pending", "claimed", "applied", "failed"}, attempts : 0 .. MaxAttempts]
ProcType == [at : {"idle", "manifest", "waitManifest", "check", "file", "waitChunk", "rename", "verify"},
             direct : BOOLEAN, manifest : Manifest]
Bytes == {<<>>} \cup {<<v>> : v \in Versions}
RowType == [kind : {"none", "manifest", "chunk"}, status : {"none", "pending", "applied", "failed"},
            offset : Nat, manifest : Manifest, bytes : Bytes, eof : BOOLEAN]

\* A row that is pending has an attempt left.
AttemptsLeft ==
  \A n \in Requesters : apply[n].status = "pending" => apply[n].attempts < MaxAttempts

\* TypeOK with the domains of the files, and the attempts that Begin counts.
Typed ==
  /\ stored \in [Nodes -> Versions]
  /\ apply \in [Requesters -> ApplyType]
  /\ proc \in [Nodes -> ProcType]
  /\ row \in [Requesters -> RowType]
  /\ target \in [Requesters -> Seq(Versions)]
  /\ part \in [Requesters -> Seq(Versions)]
  /\ AttemptsLeft

LEMMA TypedIsTypeOK == Typed => TypeOK
  BY DEF Typed, TypeOK, ApplyType, ProcType, RowType, Bytes

\* The constants of the records have their types.
LEMMA ConstantTypes ==
  ASSUME Sound
  PROVE  /\ NoManifest \in Manifest /\ Idle \in ProcType /\ NoRow \in RowType
         /\ \A v \in Versions : Size[v] \in Nat /\ v \in 1 .. Len(Size)
  BY DEF Sound, NoManifest, Manifest, Idle, ProcType, NoRow, RowType, Bytes, Versions

LEMMA TypedInit == ASSUME Sound, Init PROVE Typed
  BY ConstantTypes DEF Sound, Init, Typed, AttemptsLeft, ApplyType, Versions

\* An error leaves the row pending only with an attempt left.
LEMMA ThrowsTyped ==
  ASSUME Sound, Typed, NEW n \in Requesters, Throws(n)
  PROVE  /\ apply' \in [Requesters -> ApplyType] /\ AttemptsLeft'
         /\ proc' \in [Nodes -> ProcType] /\ row' \in [Requesters -> RowType]
  <1>1. apply' \in [Requesters -> ApplyType] /\ AttemptsLeft'
    BY DEF Sound, Typed, Throws, AfterError, AttemptsLeft, ApplyType
  <1>2. proc' \in [Nodes -> ProcType]
    BY ConstantTypes DEF Sound, Typed, Throws
  <1>3. row' \in [Requesters -> RowType]
    BY ConstantTypes DEF Sound, Typed, Throws
  <1> QED BY <1>1, <1>2, <1>3

\* What is read at an offset is a chunk of a version or nothing.
LEMMA ReadIsBytes ==
  ASSUME Sound, Typed, NEW s \in Nodes, NEW k \in Nat
  PROVE  Read(s, k) \in Bytes /\ Size[stored[s]] \in Nat /\ stored[s] \in Versions
  BY ConstantTypes DEF Typed, Read, Bytes

\* The first version is the only one of a file that is never replaced.
LEMMA StoredVersion ==
  ASSUME Sound, Typed, NEW s \in Nodes
  PROVE  /\ Size[1] \in Nat /\ 1 \in Versions /\ Len(Size) \in Nat
         /\ stored[s] \in Versions /\ stored[s] \in Nat /\ stored[s] # 0
         /\ Len(Size) = 1 => stored[s] = 1
  <1>1. Len(Size) \in Nat /\ Size[1] \in Nat /\ 1 \in Versions
    BY DEF Sound, Versions
  <1>2. stored[s] \in Versions
    BY DEF Typed
  <1>3. stored[s] \in 1 .. Len(Size)
    BY <1>2 DEF Versions
  <1>4. stored[s] \in Nat /\ stored[s] # 0
    BY <1>1, <1>3
  <1>5. Len(Size) = 1 => stored[s] = 1
    BY <1>1, <1>3
  <1> QED BY <1>1, <1>2, <1>4, <1>5

LEMMA AppendBytes ==
  ASSUME NEW file \in Seq(Versions), NEW bytes \in Bytes
  PROVE  file \o bytes \in Seq(Versions) /\ Len(bytes) \in Nat
         /\ Len(file \o bytes) = Len(file) + Len(bytes)
  <1>1. CASE bytes = <<>>
    BY <1>1
  <1>2. CASE \E v \in Versions : bytes = <<v>>
    BY <1>2
  <1> QED BY <1>1, <1>2 DEF Bytes

\* The steps of the process that applies the plane.
LEMMA AdvanceTyped ==
  ASSUME Sound, Typed, NEW n \in Requesters, Advance(n)
  PROVE  Typed'
  <1>0. n \in Nodes /\ Source[n] \in Nodes
    BY DEF Sound
  <1>1. CASE PeerManifest(n)
    <2>1. [size |-> Size[stored[Source[n]]], sha |-> 0] \in Manifest
      BY <1>0, ReadIsBytes DEF Manifest, Sound
    <2>2. proc' \in [Nodes -> ProcType]
      BY <1>1, <2>1 DEF PeerManifest, Typed, ProcType
    <2> QED BY <1>1, <2>2 DEF PeerManifest, Typed, AttemptsLeft
  <1>2. CASE RequestModelArtifactManifest(n)
    <2>1. row' \in [Requesters -> RowType]
      BY <1>2, ConstantTypes DEF RequestModelArtifactManifest, Typed, RowType
    <2>2. proc' \in [Nodes -> ProcType]
      BY <1>2 DEF RequestModelArtifactManifest, Goes, Typed, ProcType
    <2> QED BY <1>2, <2>1, <2>2 DEF RequestModelArtifactManifest, Typed, AttemptsLeft
  <1>3. CASE LoadModelArtifactManifest(n)
    <2>1. proc' \in [Nodes -> ProcType]
      BY <1>3 DEF LoadModelArtifactManifest, Typed, ProcType, RowType
    <2>2. row' \in [Requesters -> RowType]
      BY <1>3, ConstantTypes DEF LoadModelArtifactManifest, Typed
    <2> QED BY <1>3, <2>1, <2>2 DEF LoadModelArtifactManifest, Typed, AttemptsLeft
  <1>4. CASE CheckManifest(n)
    <2>1. CASE PinRefused(n) /\ Throws(n) /\ UNCHANGED part
      BY <1>4, <2>1, ThrowsTyped DEF CheckManifest, Typed
    <2>2. CASE /\ apply' = [apply EXCEPT ![n].status = "applied"]
               /\ proc' = [proc EXCEPT ![n] = Idle] /\ UNCHANGED <<row, part>>
      <3>1. apply' \in [Requesters -> ApplyType] /\ AttemptsLeft'
        BY <2>2 DEF Typed, AttemptsLeft, ApplyType
      <3>2. proc' \in [Nodes -> ProcType]
        BY <2>2, ConstantTypes DEF Typed
      <3> QED BY <1>4, <2>2, <3>1, <3>2 DEF CheckManifest, Typed
    <2>3. CASE part' = [part EXCEPT ![n] = <<>>] /\ Goes(n, "file") /\ UNCHANGED <<apply, row>>
      <3>1. part' \in [Requesters -> Seq(Versions)]
        BY <2>3 DEF Typed
      <3>2. proc' \in [Nodes -> ProcType]
        BY <2>3 DEF Typed, Goes, ProcType
      <3> QED BY <1>4, <2>3, <3>1, <3>2 DEF CheckManifest, Typed, AttemptsLeft
    <2> QED BY <1>4, <2>1, <2>2, <2>3 DEF CheckManifest
  <1>5. CASE PeerChunk(n)
    <2>1. Len(part[n]) \in Nat /\ part[n] \in Seq(Versions)
      BY DEF Typed
    <2>2. part' \in [Requesters -> Seq(Versions)]
      BY <1>0, <1>5, <2>1, ReadIsBytes, AppendBytes DEF PeerChunk, Typed
    <2>3. proc' \in [Nodes -> ProcType]
      BY <1>5 DEF PeerChunk, Goes, Typed, ProcType
    <2> QED BY <1>5, <2>2, <2>3 DEF PeerChunk, Typed, AttemptsLeft
  <1>6. CASE PeerFails(n)
    <2>1. part' \in [Requesters -> Seq(Versions)]
      BY <1>6 DEF PeerFails, Typed
    <2>2. row' \in [Requesters -> RowType]
      BY <1>6, ConstantTypes DEF PeerFails, Typed, RowType
    <2>3. proc' \in [Nodes -> ProcType]
      BY <1>6 DEF PeerFails, Typed, ProcType
    <2> QED BY <1>6, <2>1, <2>2, <2>3 DEF PeerFails, Typed, AttemptsLeft
  <1>7. CASE RequestModelArtifactChunk(n)
    <2>1. Len(part[n]) \in Nat
      BY DEF Typed
    <2>2. row' \in [Requesters -> RowType]
      BY <1>7, <2>1, ConstantTypes DEF RequestModelArtifactChunk, Typed, RowType
    <2>3. proc' \in [Nodes -> ProcType]
      BY <1>7 DEF RequestModelArtifactChunk, Goes, Typed, ProcType
    <2> QED BY <1>7, <2>2, <2>3 DEF RequestModelArtifactChunk, Typed, AttemptsLeft
  <1>8. CASE LoadModelArtifactChunk(n)
    <2>1. part[n] \in Seq(Versions) /\ row[n].bytes \in Bytes
      BY DEF Typed, RowType
    <2>2. part' \in [Requesters -> Seq(Versions)]
      BY <1>8, <2>1, AppendBytes DEF LoadModelArtifactChunk, Typed
    <2>3. proc' \in [Nodes -> ProcType]
      BY <1>8 DEF LoadModelArtifactChunk, Goes, Typed, ProcType
    <2>4. row' \in [Requesters -> RowType]
      BY <1>8, ConstantTypes DEF LoadModelArtifactChunk, Typed
    <2> QED BY <1>8, <2>2, <2>3, <2>4 DEF LoadModelArtifactChunk, Typed, AttemptsLeft
  <1>9. CASE RenameTarget(n)
    <2>1. target' \in [Requesters -> Seq(Versions)] /\ part' \in [Requesters -> Seq(Versions)]
      BY <1>9 DEF RenameTarget, Typed
    <2>2. proc' \in [Nodes -> ProcType]
      BY <1>9 DEF RenameTarget, Goes, Typed, ProcType
    <2> QED BY <1>9, <2>1, <2>2 DEF RenameTarget, Typed, AttemptsLeft
  <1>10. CASE VerifyTarget(n)
    <2>1. CASE ~ChecksumHolds(n) /\ Throws(n)
      BY <1>10, <2>1, ThrowsTyped DEF VerifyTarget, Typed
    <2>2. CASE /\ apply' = [apply EXCEPT ![n].status = "applied"]
               /\ proc' = [proc EXCEPT ![n] = Idle] /\ UNCHANGED row
      <3>1. apply' \in [Requesters -> ApplyType] /\ AttemptsLeft'
        BY <2>2 DEF Typed, AttemptsLeft, ApplyType
      <3>2. proc' \in [Nodes -> ProcType]
        BY <2>2, ConstantTypes DEF Typed
      <3> QED BY <1>10, <2>2, <3>1, <3>2 DEF VerifyTarget, Typed
    <2> QED BY <1>10, <2>1, <2>2 DEF VerifyTarget
  <1>11. CASE SeesFailure(n) \/ PollTimeout(n)
    BY <1>11, ThrowsTyped DEF SeesFailure, PollTimeout, Typed
  <1> QED BY <1>1, <1>2, <1>3, <1>4, <1>5, <1>6, <1>7, <1>8, <1>9, <1>10, <1>11 DEF Advance

\* Every other step.
LEMMA TypedStep == ASSUME Sound, Typed, [Next]_vars PROVE Typed'
  <1>1. ASSUME NEW n \in Requesters, Begin(n) PROVE Typed'
    <2>0. n \in Nodes
      BY DEF Sound
    <2>1. apply' \in [Requesters -> ApplyType] /\ AttemptsLeft'
      BY <1>1 DEF Begin, Sound, Typed, AttemptsLeft, ApplyType
    <2>2. proc' \in [Nodes -> ProcType]
      BY <1>1 DEF Begin, Goes, Typed, ProcType
    <2> QED BY <1>1, <2>1, <2>2 DEF Begin, Typed
  <1>2. ASSUME NEW n \in Requesters, Crash(n) PROVE Typed'
    BY <1>2, ThrowsTyped DEF Crash, Typed
  <1>3. ASSUME NEW n \in Requesters, Reapply(n) PROVE Typed'
    <2>1. apply' \in [Requesters -> ApplyType] /\ AttemptsLeft'
      BY <1>3 DEF Reapply, Typed, AttemptsLeft, ApplyType
    <2> QED BY <1>3, <2>1 DEF Reapply, Typed
  <1>4. ASSUME NEW s \in Nodes, NEW n \in Requesters, BuildModelArtifactManifest(s, n)
        PROVE  Typed'
    <2>1. [size |-> Size[stored[s]], sha |-> stored[s]] \in Manifest
      BY ReadIsBytes, ConstantTypes DEF Manifest, Sound, Versions
    <2>2. row' = [row EXCEPT ![n] = [row[n] EXCEPT !.status = "applied",
                    !.manifest = [size |-> Size[stored[s]], sha |-> stored[s]]]]
      BY <1>4 DEF BuildModelArtifactManifest, Typed, RowType
    <2>3. row' \in [Requesters -> RowType]
      BY <2>1, <2>2 DEF Typed, RowType
    <2> QED BY <1>4, <2>3 DEF BuildModelArtifactManifest, Typed, AttemptsLeft
  <1>5. ASSUME NEW s \in Nodes, NEW n \in Requesters, ReadModelArtifactChunk(s, n)
        PROVE  Typed'
    <2>1. row[n].offset \in Nat
      BY DEF Typed, RowType
    <2>2. Read(s, row[n].offset) \in Bytes /\ Size[stored[s]] \in Nat
      BY <2>1, ReadIsBytes
    <2> DEFINE end == row[n].offset + Len(Read(s, row[n].offset)) >= Size[stored[s]]
    <2>3. row' = [row EXCEPT ![n] = [row[n] EXCEPT !.status = "applied",
                    !.bytes = Read(s, row[n].offset), !.eof = end]]
      BY <1>5 DEF ReadModelArtifactChunk, Typed, RowType
    <2>4. end \in BOOLEAN
      OBVIOUS
    <2> HIDE DEF end
    <2>5. [row[n] EXCEPT !.status = "applied", !.bytes = Read(s, row[n].offset), !.eof = end]
            \in RowType
      BY <2>2, <2>4 DEF Typed, RowType
    <2>6. row' \in [Requesters -> RowType]
      BY <2>3, <2>5 DEF Typed
    <2> QED BY <1>5, <2>6 DEF ReadModelArtifactChunk, Typed, AttemptsLeft
  <1>6. ASSUME NEW s \in Nodes, NEW n \in Requesters, RelayFails(s, n) PROVE Typed'
    <2>1. row' \in [Requesters -> RowType]
      BY <1>6 DEF RelayFails, Typed, RowType
    <2> QED BY <1>6, <2>1 DEF RelayFails, Typed, AttemptsLeft
  <1>7. ASSUME NEW s \in Nodes, Replace(s) PROVE Typed'
    <2>1. stored' \in [Nodes -> Versions]
      BY <1>7 DEF Replace, Typed, Versions, Sound
    <2> QED BY <1>7, <2>1 DEF Replace, Typed, AttemptsLeft
  <1>8. CASE UNCHANGED vars
    BY <1>8 DEF vars, Typed, AttemptsLeft
  <1> QED BY <1>1, <1>2, <1>3, <1>4, <1>5, <1>6, <1>7, <1>8, AdvanceTyped DEF Next, Serve

\* Every reachable state of the transfer of model files is well typed, in particular
\* no assignment is claimed more often than its attempts allow.
THEOREM TypeCorrect == ASSUME Sound PROVE Spec => []TypeOK
  <1>1. Init => Typed
    BY TypedInit
  <1>2. Typed /\ [Next]_vars => Typed'
    BY TypedStep
  <1> QED BY <1>1, <1>2, TypedIsTypeOK, PTL DEF Spec

-----------------------------------------------------------------------------
(* Whole model files                                                        *)

\* The file on the storage node has a checksum that the transfer compares, or it is
\* never replaced.  Left out: linked nodes and no pin, where the manifest of the peer
\* has no checksum and chunks of two versions may be put together.
FileIsIdentified == ~Linked \/ Pinned # 0 \/ Len(Size) = 1

Transfers == {"file", "waitChunk", "rename", "verify"}

\* hostd only works on an assignment it has claimed.
WorksOnClaimed(n) == proc[n].at # "idle" => apply[n].status = "claimed"

\* A manifest of the relay is that of a version.
RelayedManifest(n) ==
  /\ proc[n].at = "waitManifest" => row[n].kind = "manifest"
  /\ row[n].kind = "manifest" /\ row[n].status = "applied" =>
       row[n].manifest.sha # 0 /\ (Len(Size) = 1 => row[n].manifest.size = Size[1])

\* The manifest that hostd goes by has a checksum unless it came from a peer, and the
\* pinned one once it was compared.
ManifestIsNamed(n) ==
  /\ proc[n].at \in Transfers \cup {"check"} =>
       /\ ~Linked => proc[n].manifest.sha # 0
       /\ Len(Size) = 1 => proc[n].manifest.size = Size[1]
  /\ proc[n].at \in Transfers /\ Pinned # 0 => proc[n].manifest.sha = Pinned

\* When the file is never replaced, the transfer ends at its size.
EndsAtSize(n) ==
  Len(Size) = 1 =>
    /\ proc[n].at \in {"file", "waitChunk"} => Len(part[n]) <= Size[1]
    /\ proc[n].at = "waitChunk" =>
         /\ row[n].kind = "chunk" /\ row[n].offset = Len(part[n])
         /\ row[n].status = "applied" =>
              /\ Len(part[n]) + Len(row[n].bytes) <= Size[1]
              /\ row[n].eof => Len(part[n]) + Len(row[n].bytes) = Size[1]
    /\ proc[n].at = "rename" => Len(part[n]) = Size[1]
    /\ proc[n].at = "verify" => Len(target[n]) = Size[1]

AppliedIsWhole(n) == apply[n].status = "applied" => \E v \in Versions : target[n] = Whole(v)

Sequel(n) ==
  WorksOnClaimed(n) /\ RelayedManifest(n) /\ ManifestIsNamed(n) /\ EndsAtSize(n) /\ AppliedIsWhole(n)

TransferInv == \A n \in Requesters : Sequel(n)

Kept(n) == /\ proc'[n] = proc[n] /\ apply'[n] = apply[n] /\ row'[n] = row[n]
           /\ target'[n] = target[n] /\ part'[n] = part[n]

LEMMA KeptSequel == ASSUME NEW n \in Requesters, Sequel(n), Kept(n) PROVE Sequel(n)'
  BY DEF Sequel, Kept, WorksOnClaimed, RelayedManifest, ManifestIsNamed, EndsAtSize, AppliedIsWhole

\* Of a file that has one version, only its size is to be known.
LEMMA OneVersion ==
  ASSUME Sound, Len(Size) = 1, NEW file \in Seq(Versions), Len(file) = Size[1]
  PROVE  \E v \in Versions : file = Whole(v)
  <1>1. Versions = {1}
    BY DEF Versions, Sound
  <1>2. \A i \in 1 .. Size[1] : file[i] = 1
    BY <1>1
  <1>3. file = [i \in 1 .. Size[1] |-> 1]
    BY <1>2
  <1> QED BY <1>1, <1>3 DEF Whole

\* After an error the node is idle and its assignment is not applied.
LEMMA ThrowsSequel ==
  ASSUME Sound, Typed, NEW n \in Requesters, Throws(n), UNCHANGED target
  PROVE  Sequel(n)'
  <1>1. proc'[n] = Idle /\ row'[n] = NoRow /\ apply'[n].status \in {"pending", "failed"}
    BY DEF Sound, Typed, Throws, AfterError, ApplyType
  <1> QED BY <1>1 DEF Sequel, WorksOnClaimed, RelayedManifest, ManifestIsNamed, EndsAtSize,
                      AppliedIsWhole, Idle, NoRow, Transfers

\* A file that hostd accepts is whole.
LEMMA AcceptedIsWhole ==
  ASSUME Sound, FileIsIdentified, Typed, NEW n \in Requesters, Sequel(n),
         \/ proc[n].at = "check" /\ ~PinRefused(n) /\ Matches(target[n], proc[n].manifest)
         \/ proc[n].at = "verify" /\ ChecksumHolds(n)
  PROVE  \E v \in Versions : target[n] = Whole(v)
  <1>0. n \in Nodes /\ target[n] \in Seq(Versions) /\ proc[n].manifest.sha \in 0 .. Len(Size)
    BY DEF Sound, Typed, ProcType, Manifest
  <1>1. CASE proc[n].manifest.sha # 0
    <2>1. proc[n].manifest.sha \in Versions
      BY <1>0, <1>1 DEF Versions, Sound
    <2> QED BY <1>1, <2>1 DEF Matches, ChecksumHolds
  <1>2. CASE proc[n].manifest.sha = 0
    <2>1. Len(Size) = 1
      BY <1>2 DEF FileIsIdentified, Sequel, ManifestIsNamed, PinRefused, Transfers
    <2>2. Len(target[n]) = Size[1]
      BY <2>1 DEF Sequel, ManifestIsNamed, EndsAtSize, Matches, Transfers
    <2> QED BY <1>0, <2>1, <2>2, OneVersion
  <1> QED BY <1>1, <1>2

\* A reader at offset k of a file of z chunks that gets a chunk unless it is at the end.
LEMMA NextOffset ==
  ASSUME NEW k \in Nat, NEW z \in Nat, NEW b \in Nat, k <= z, b = IF k < z THEN 1 ELSE 0
  PROVE  k + b <= z /\ (k + b >= z => k + b = z) /\ (k + 1 >= z => k + b = z)
  OBVIOUS

\* The steps of hostd, for the assignment it works on.
LEMMA AdvanceSequel ==
  ASSUME Sound, FileIsIdentified, Typed, NEW n \in Requesters, Sequel(n), Advance(n)
  PROVE  Sequel(n)'
  <1>0. n \in Nodes /\ Source[n] \in Nodes /\ Size[1] \in Nat /\ 1 \in Versions
    BY DEF Sound, Versions
  <1>a. /\ Len(Size) = 1 => stored[Source[n]] = 1
        /\ part[n] \in Seq(Versions) /\ Len(part[n]) \in Nat
    <2>1. part[n] \in Seq(Versions)
      BY DEF Typed
    <2> QED BY <1>0, <2>1, StoredVersion
  <1> USE DEF Sequel, WorksOnClaimed, RelayedManifest, ManifestIsNamed, EndsAtSize, AppliedIsWhole,
              Transfers
  <1>1. CASE PeerManifest(n)
    BY <1>0, <1>a, <1>1 DEF PeerManifest, Typed
  <1>2. CASE RequestModelArtifactManifest(n)
    BY <1>0, <1>2 DEF RequestModelArtifactManifest, Goes, Typed, NoRow, ProcType
  <1>3. CASE LoadModelArtifactManifest(n)
    BY <1>0, <1>3 DEF LoadModelArtifactManifest, Typed, NoRow
  <1>4. CASE CheckManifest(n)
    <2>1. CASE PinRefused(n) /\ Throws(n) /\ UNCHANGED part
      BY <1>4, <2>1, ThrowsSequel DEF CheckManifest
    <2>2. CASE /\ ~PinRefused(n) /\ Matches(target[n], proc[n].manifest)
               /\ apply' = [apply EXCEPT ![n].status = "applied"]
               /\ proc' = [proc EXCEPT ![n] = Idle] /\ UNCHANGED <<row, part>>
      <3>1. \E v \in Versions : target[n] = Whole(v)
        BY <1>4, <2>2, AcceptedIsWhole DEF CheckManifest
      <3>2. proc'[n] = Idle /\ target'[n] = target[n] /\ row'[n] = row[n]
        BY <1>0, <1>4, <2>2 DEF CheckManifest, Typed
      <3> QED BY <3>1, <3>2 DEF Idle, Whole
    <2>3. CASE /\ ~PinRefused(n)
               /\ part' = [part EXCEPT ![n] = <<>>] /\ Goes(n, "file") /\ UNCHANGED <<apply, row>>
      BY <1>0, <1>4, <2>3 DEF CheckManifest, Goes, PinRefused, Typed, ProcType
    <2> QED BY <1>4, <2>1, <2>2, <2>3 DEF CheckManifest
  <1>5. CASE PeerChunk(n)
    <2> DEFINE bytes == Read(Source[n], Len(part[n]))
    <2>1. /\ bytes \in Bytes /\ bytes = (IF Len(part[n]) < Size[stored[Source[n]]]
                                          THEN <<stored[Source[n]]>> ELSE <<>>)
          /\ Size[stored[Source[n]]] \in Nat
      BY <1>0, <1>a, ReadIsBytes DEF Read
    <2>2. Len(part[n] \o bytes) = Len(part[n]) + Len(bytes)
      BY <1>a, <2>1, AppendBytes
    <2>3. /\ part'[n] = part[n] \o bytes /\ Len(part[n]) <= Size[stored[Source[n]]]
          /\ row' = row /\ apply' = apply /\ target' = target
          /\ proc[n].at = "file"
          /\ bytes # <<>> \/ Len(part[n]) >= proc[n].manifest.size
          /\ IF Len(part[n]) + Len(bytes) >= proc[n].manifest.size
                \/ Len(part[n]) + 1 >= Size[stored[Source[n]]]
             THEN proc'[n].at = "rename" ELSE proc'[n].at = "file"
          /\ proc'[n].manifest = proc[n].manifest
      BY <1>0, <1>5 DEF PeerChunk, Goes, Typed, ProcType
    <2>4. proc'[n].at \in {"file", "rename"} /\ proc[n].manifest.size \in Nat
      BY <1>0, <2>3 DEF Typed, ProcType, Manifest
    <2>5. Len(bytes) = IF Len(part[n]) < Size[stored[Source[n]]] THEN 1 ELSE 0
      BY <2>1
    <2> HIDE DEF bytes
    <2>6. ASSUME Len(Size) = 1
          PROVE  /\ Len(part'[n]) <= Size[1]
                 /\ proc'[n].at = "rename" => Len(part'[n]) = Size[1]
      <3>1. /\ Size[stored[Source[n]]] = Size[1] /\ proc[n].manifest.size = Size[1]
            /\ Len(part[n]) <= Size[1]
        BY <1>a, <2>3, <2>6
      <3>3. proc'[n].at = "rename" => Len(part[n]) + 1 >= Size[1]
        <4> DEFINE l == Len(part[n])  z == Size[1]  c == Len(bytes)
        <4>1. l \in Nat /\ z \in Nat /\ c \in Nat /\ c <= 1
          BY <1>0, <1>a, <2>5
        <4>2. proc'[n].at = "rename" => l + c >= z \/ l + 1 >= z
          BY <2>3, <3>1
        <4> HIDE DEF l, z, c
        <4>3. l + c >= z => l + 1 >= z
          BY <4>1
        <4> QED BY <4>2, <4>3 DEF l, z, c
      <3> DEFINE k == Len(part[n])  z == Size[1]  b == Len(bytes)
      <3>2. Len(part'[n]) = k + b
        BY <2>2, <2>3
      <3>4. k \in Nat /\ z \in Nat /\ b \in Nat /\ k <= z /\ b = IF k < z THEN 1 ELSE 0
        BY <1>0, <1>a, <2>5, <3>1
      <3>5. proc'[n].at = "rename" => k + 1 >= z
        BY <3>3
      <3> HIDE DEF k, z, b
      <3>6. k + b <= z /\ (k + 1 >= z => k + b = z)
        BY <3>4, NextOffset
      <3> QED BY <3>2, <3>5, <3>6 DEF z
    <2>7. EndsAtSize(n)'
      BY <2>4, <2>6
    <2>8. WorksOnClaimed(n)' /\ RelayedManifest(n)'
      BY <2>3, <2>4
    <2>9. ManifestIsNamed(n)'
      BY <2>3
    <2>10. AppliedIsWhole(n)'
      BY <2>3 DEF Whole
    <2> QED BY <2>7, <2>8, <2>9, <2>10
  <1>6. CASE PeerFails(n)
    BY <1>0, <1>6 DEF PeerFails, Typed, ProcType, NoRow
  <1>7. CASE RequestModelArtifactChunk(n)
    BY <1>0, <1>7 DEF RequestModelArtifactChunk, Goes, Typed, ProcType, NoRow
  <1>8. CASE LoadModelArtifactChunk(n)
    BY <1>0, <1>a, <1>8, AppendBytes DEF LoadModelArtifactChunk, Goes, Typed, ProcType, NoRow, RowType
  <1>9. CASE RenameTarget(n)
    BY <1>0, <1>9 DEF RenameTarget, Goes, Typed, ProcType
  <1>10. CASE VerifyTarget(n)
    <2>1. CASE ~ChecksumHolds(n) /\ Throws(n)
      BY <1>10, <2>1, ThrowsSequel DEF VerifyTarget
    <2>2. CASE /\ ChecksumHolds(n) /\ apply' = [apply EXCEPT ![n].status = "applied"]
               /\ proc' = [proc EXCEPT ![n] = Idle] /\ UNCHANGED row
      <3>1. \E v \in Versions : target[n] = Whole(v)
        BY <1>10, <2>2, AcceptedIsWhole DEF VerifyTarget
      <3>2. proc'[n] = Idle /\ target'[n] = target[n] /\ row'[n] = row[n]
        BY <1>0, <1>10, <2>2 DEF VerifyTarget, Typed
      <3> QED BY <3>1, <3>2 DEF Idle, Whole
    <2> QED BY <1>10, <2>1, <2>2 DEF VerifyTarget
  <1>11. CASE SeesFailure(n) \/ PollTimeout(n)
    BY <1>11, ThrowsSequel DEF SeesFailure, PollTimeout
  <1> QED BY <1>1, <1>2, <1>3, <1>4, <1>5, <1>6, <1>7, <1>8, <1>9, <1>10, <1>11 DEF Advance

\* A step of one requester leaves the others alone.
LEMMA AdvanceKeepsOthers ==
  ASSUME Sound, Typed, NEW n \in Requesters, NEW m \in Requesters, m # n,
         Advance(n) \/ Begin(n) \/ Crash(n) \/ Reapply(n)
  PROVE  Kept(m)
  <1>0. n \in Nodes /\ m \in Nodes
    BY DEF Sound
  <1>1. Throws(n) /\ UNCHANGED <<target, part>> => Kept(m)
    BY <1>0 DEF Throws, AfterError, Typed, Kept
  <1>2. CASE CheckManifest(n)
    BY <1>0, <1>2 DEF CheckManifest, Throws, AfterError, Goes, Typed, Kept
  <1>3. CASE VerifyTarget(n)
    BY <1>0, <1>3 DEF VerifyTarget, Throws, AfterError, Typed, Kept
  <1>4. CASE SeesFailure(n) \/ PollTimeout(n) \/ Crash(n)
    BY <1>1, <1>4 DEF SeesFailure, PollTimeout, Crash
  <1>5. CASE PeerManifest(n) \/ RequestModelArtifactManifest(n) \/ LoadModelArtifactManifest(n)
    BY <1>0, <1>5 DEF PeerManifest, RequestModelArtifactManifest, LoadModelArtifactManifest,
                      Goes, Typed, Kept
  <1>6. CASE PeerChunk(n) \/ PeerFails(n)
    BY <1>0, <1>6 DEF PeerChunk, PeerFails, Goes, Typed, Kept
  <1>7. CASE RequestModelArtifactChunk(n) \/ LoadModelArtifactChunk(n) \/ RenameTarget(n)
    BY <1>0, <1>7 DEF RequestModelArtifactChunk, LoadModelArtifactChunk, RenameTarget,
                      Goes, Typed, Kept
  <1>8. CASE Begin(n) \/ Reapply(n)
    BY <1>0, <1>8 DEF Begin, Reapply, Goes, Typed, Kept
  <1> QED BY <1>2, <1>3, <1>4, <1>5, <1>6, <1>7, <1>8 DEF Advance

\* The storage node answers or refuses.
LEMMA ServeSequel ==
  ASSUME Sound, Typed, NEW s \in Nodes, NEW n \in Requesters, NEW m \in Requesters, Sequel(m),
         Serve(s, n) \/ RelayFails(s, n)
  PROVE  Sequel(m)'
  <1>0. Size[1] \in Nat /\ stored[s] \in Versions /\ stored[s] \in Nat \ {0}
        /\ (Len(Size) = 1 => stored[s] = 1)
    BY StoredVersion
  <1>1. CASE m # n
    <2>1. Kept(m)
      BY <1>1 DEF Serve, BuildModelArtifactManifest, ReadModelArtifactChunk, RelayFails, Typed, Kept
    <2> QED BY <2>1, KeptSequel
  <1>2. CASE m = n
    <2> USE DEF Sequel, WorksOnClaimed, RelayedManifest, ManifestIsNamed, EndsAtSize, AppliedIsWhole,
                Transfers
    <2>1. CASE BuildModelArtifactManifest(s, n)
      <3>1. /\ row'[n].kind = row[n].kind /\ row'[n].status = "applied" /\ row'[n].eof = row[n].eof
            /\ row'[n].bytes = row[n].bytes /\ row'[n].offset = row[n].offset
            /\ row'[n].manifest = [size |-> Size[stored[s]], sha |-> stored[s]]
        BY <2>1 DEF BuildModelArtifactManifest, Typed, RowType
      <3>2. /\ proc' = proc /\ apply' = apply /\ target' = target /\ part' = part
            /\ row[n].kind = "manifest"
        BY <2>1 DEF BuildModelArtifactManifest
      <3>3. RelayedManifest(n)'
        BY <1>0, <1>2, <3>1, <3>2
      <3>4. EndsAtSize(n)'
        BY <1>2, <3>1, <3>2
      <3>5. WorksOnClaimed(n)' /\ ManifestIsNamed(n)' /\ AppliedIsWhole(n)'
        BY <1>2, <3>2 DEF Whole
      <3> QED BY <1>2, <3>3, <3>4, <3>5
    <2>2. CASE ReadModelArtifactChunk(s, n)
      <3>1. /\ row'[n].kind = "chunk" /\ row'[n].status = "applied" /\ row'[n].offset = row[n].offset
            /\ row'[n].manifest = row[n].manifest /\ row'[n].bytes = Read(s, row[n].offset)
            /\ row'[n].eof => row[n].offset + Len(row'[n].bytes) >= Size[stored[s]]
        BY <2>2 DEF ReadModelArtifactChunk, Typed, RowType
      <3>2. /\ proc' = proc /\ apply' = apply /\ target' = target /\ part' = part
            /\ row[n].kind = "chunk"
        BY <2>2 DEF ReadModelArtifactChunk
      <3>3. row[n].offset \in Nat
        BY DEF Typed, RowType
      <3>4. ASSUME Len(Size) = 1, proc[n].at = "waitChunk"
            PROVE  /\ Len(part[n]) + Len(row'[n].bytes) <= Size[1]
                   /\ row'[n].eof => Len(part[n]) + Len(row'[n].bytes) = Size[1]
        <4>1. Len(row'[n].bytes) = IF row[n].offset < Size[1] THEN 1 ELSE 0
          BY <1>0, <3>1, <3>4 DEF Read
        <4>2. row[n].offset = Len(part[n]) /\ Len(part[n]) <= Size[1]
          BY <1>2, <3>4
        <4>3. row'[n].eof => row[n].offset + Len(row'[n].bytes) >= Size[1]
          BY <1>0, <3>1, <3>4
        <4> DEFINE k == Len(part[n])  z == Size[1]  b == Len(row'[n].bytes)
        <4>4. k \in Nat /\ z \in Nat /\ b \in Nat /\ k <= z /\ b = IF k < z THEN 1 ELSE 0
          BY <1>0, <3>3, <4>1, <4>2
        <4>5. row'[n].eof => k + b >= z
          BY <4>2, <4>3
        <4> HIDE DEF k, z, b
        <4>6. k + b <= z /\ (k + b >= z => k + b = z)
          BY <4>4, NextOffset
        <4> QED BY <4>5, <4>6 DEF k, z, b
      <3>5. EndsAtSize(n)'
        BY <1>2, <3>1, <3>2, <3>4
      <3>6. WorksOnClaimed(n)' /\ ManifestIsNamed(n)' /\ AppliedIsWhole(n)' /\ RelayedManifest(n)'
        BY <1>2, <3>1, <3>2 DEF Whole
      <3> QED BY <1>2, <3>5, <3>6
    <2>3. CASE RelayFails(s, n)
      BY <1>2, <2>3 DEF RelayFails, Typed, RowType
    <2> QED BY <2>1, <2>2, <2>3 DEF Serve
  <1> QED BY <1>1, <1>2

LEMMA TransferStep ==
  ASSUME Sound, FileIsIdentified, Typed, TransferInv, [Next]_vars
  PROVE  TransferInv'
  <1> SUFFICES ASSUME NEW m \in Requesters PROVE Sequel(m)'
    BY DEF TransferInv
  <1>0. Sequel(m) /\ m \in Nodes
    BY DEF TransferInv, Sound
  <1>1. ASSUME NEW n \in Requesters, Advance(n) \/ Begin(n) \/ Crash(n) \/ Reapply(n), m # n
        PROVE  Sequel(m)'
    BY <1>0, <1>1, AdvanceKeepsOthers, KeptSequel
  <1>2. CASE Advance(m)
    BY <1>0, <1>2, AdvanceSequel
  <1>3. CASE Begin(m)
    BY <1>0, <1>3 DEF Begin, Goes, Sequel, WorksOnClaimed, RelayedManifest, ManifestIsNamed,
                      EndsAtSize, AppliedIsWhole, Transfers, Typed, ProcType, ApplyType
  <1>4. CASE Crash(m)
    BY <1>4, ThrowsSequel DEF Crash
  <1>5. CASE Reapply(m)
    BY <1>0, <1>5 DEF Reapply, Sequel, WorksOnClaimed, RelayedManifest, ManifestIsNamed,
                      EndsAtSize, AppliedIsWhole, Transfers, Typed, ProcType, ApplyType
  <1>6. ASSUME NEW s \in Nodes, NEW n \in Requesters, Serve(s, n) \/ RelayFails(s, n)
        PROVE  Sequel(m)'
    BY <1>0, <1>6, ServeSequel
  <1>7. ASSUME NEW s \in Nodes, Replace(s) PROVE Sequel(m)'
    BY <1>0, <1>7, KeptSequel DEF Replace, Kept
  <1>8. CASE UNCHANGED vars
    BY <1>0, <1>8, KeptSequel DEF vars, Kept
  <1> QED BY <1>1, <1>2, <1>3, <1>4, <1>5, <1>6, <1>7, <1>8 DEF Next

\* A plane is reported as applied only with a whole model file of one version, for any
\* number of nodes, versions and chunks, whatever is replaced, times out or crashes, if
\* the transfer goes through the controller, or the checksum is pinned, or the file is
\* never replaced.
THEOREM OnlyWholeModelsAreApplied ==
  ASSUME Sound, FileIsIdentified
  PROVE  Spec => []AppliedModelIsWhole
  <1>1. Init => Typed /\ TransferInv
    <2> SUFFICES ASSUME Init PROVE TransferInv
      BY TypedInit
    <2> QED BY DEF Init, TransferInv, Sequel, WorksOnClaimed, RelayedManifest, ManifestIsNamed,
                   EndsAtSize, AppliedIsWhole, Transfers, Idle, NoRow, Sound
  <1>2. Typed /\ TransferInv /\ [Next]_vars => (Typed /\ TransferInv)'
    BY TypedStep, TransferStep
  <1>3. TransferInv => AppliedModelIsWhole
    BY DEF TransferInv, Sequel, AppliedIsWhole, AppliedModelIsWhole
  <1> QED BY <1>1, <1>2, <1>3, PTL DEF Spec
=============================================================================
