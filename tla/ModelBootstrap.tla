--------------------------- MODULE ModelBootstrap ---------------------------
(***************************************************************************)
(* How a node gets the model file of a plane from the storage node that     *)
(* keeps it, while it applies the plane's assignment:                       *)
(* HostdBootstrapModelSupport::TryAcquireControllerRelayedBootstrapModel.   *)
(*                                                                         *)
(* The file is read directly from the peer service of the storage node when *)
(* the two are linked (the manifest then carries no checksum), and otherwise *)
(* through the controller: each request of a manifest or a chunk is a host   *)
(* assignment of the storage node, which its hostd executes between its own  *)
(* assignments.  The requester polls for the result and gives up after a     *)
(* number of polls.  The file on the storage node may be replaced meanwhile. *)
(*                                                                         *)
(* A file is the sequence of its chunks and a chunk is the version it was    *)
(* read from; the last chunk of a version is a short one.  The checksum of a *)
(* file is the file.                                                        *)
(***************************************************************************)
EXTENDS Naturals, Sequences

CONSTANTS
  Nodes,         \* the nodes
  Requesters,    \* those that have a plane to apply
  Source,        \* the storage node of each requester
  Size,          \* number of chunks of each version, a sequence
  Linked,        \* may a requester reach the peer service of its source?
  Pinned,        \* the version bootstrap_model.sha256 names, 0: none
  MaxAttempts    \* attempts of the assignment that applies the plane

Versions == 1 .. Len(Size)

VARIABLES
  stored,     \* version of the model file each node keeps
  apply,      \* assignment of each requester: its status and attempts
  proc,       \* hostd of each node
  row,        \* the relay assignment each requester waits for
  target,     \* model file on the plane's disk, <<>> when there is none
  part        \* the file being assembled beside it

vars == <<stored, apply, proc, row, target, part>>

\* The content of the file of version v.
Whole(v) == [i \in 1 .. Size[v] |-> v]

NoManifest == [size |-> 0, sha |-> 0]
Idle == [at |-> "idle", direct |-> FALSE, manifest |-> NoManifest]
NoRow == [kind |-> "none", status |-> "none", offset |-> 0, manifest |-> NoManifest,
          bytes |-> <<>>, eof |-> FALSE]

Init ==
  /\ stored = [n \in Nodes |-> 1]
  /\ apply = [n \in Requesters |-> [status |-> "pending", attempts |-> 0]]
  /\ proc = [n \in Nodes |-> Idle]
  /\ row = [n \in Requesters |-> NoRow]
  /\ target = [n \in Requesters |-> <<>>]
  /\ part = [n \in Requesters |-> <<>>]

Goes(n, at) == proc' = [proc EXCEPT ![n].at = at]

\* The step threw: the assignment is reported as failed, which puts it back to
\* pending while it has attempts left.
AfterError(n) ==
  [apply EXCEPT ![n].status = IF apply[n].attempts < MaxAttempts THEN "pending" ELSE "failed"]

Throws(n) ==
  /\ apply' = AfterError(n)
  /\ proc' = [proc EXCEPT ![n] = Idle]
  /\ row' = [row EXCEPT ![n] = NoRow]

-----------------------------------------------------------------------------
(* The manifest                                                             *)

Begin(n) ==
  /\ proc[n].at = "idle" /\ apply[n].status = "pending"
  /\ apply' = [apply EXCEPT ![n] = [status |-> "claimed", attempts |-> @.attempts + 1]]
  /\ Goes(n, "manifest")
  /\ UNCHANGED <<stored, row, target, part>>

\* A ticket is issued and the peer service answers with sizes, without checksums.
PeerManifest(n) ==
  /\ proc[n].at = "manifest" /\ Linked
  /\ proc' = [proc EXCEPT ![n] = [at |-> "check", direct |-> TRUE,
                manifest |-> [size |-> Size[stored[Source[n]]], sha |-> 0]]]
  /\ UNCHANGED <<stored, apply, row, target, part>>

\* Not linked, or the peer service did not answer: ask through the controller.
RequestModelArtifactManifest(n) ==
  /\ proc[n].at = "manifest"
  /\ row' = [row EXCEPT ![n] = [NoRow EXCEPT !.kind = "manifest", !.status = "pending"]]
  /\ Goes(n, "waitManifest")
  /\ UNCHANGED <<stored, apply, target, part>>

\* The manifest describes a version when it has its checksum, and may be any
\* version of that size when it has none.
BuildModelArtifactManifest(s, n) ==
  /\ proc[s].at = "idle"
  /\ Source[n] = s /\ row[n].kind = "manifest" /\ row[n].status = "pending"
  /\ row' = [row EXCEPT ![n].status = "applied",
                        ![n].manifest = [size |-> Size[stored[s]], sha |-> stored[s]]]
  /\ UNCHANGED <<stored, apply, proc, target, part>>

LoadModelArtifactManifest(n) ==
  /\ proc[n].at = "waitManifest" /\ row[n].status = "applied"
  /\ proc' = [proc EXCEPT ![n] = [at |-> "check", direct |-> FALSE,
                                  manifest |-> row[n].manifest]]
  /\ row' = [row EXCEPT ![n] = NoRow]
  /\ UNCHANGED <<stored, apply, target, part>>

\* A pinned checksum is compared with the manifest's; a deferred one has none.
PinRefused(n) == Pinned # 0 /\ proc[n].manifest.sha # Pinned

\* A file that only has the size of the manifest.
MatchesSize(file, manifest) == Len(file) = manifest.size

\* Size, and checksum when the manifest has one.
Matches(file, manifest) ==
  /\ Len(file) = manifest.size
  /\ manifest.sha # 0 => file = Whole(manifest.sha)

CheckManifest(n) ==
  /\ proc[n].at = "check"
  /\ \/ PinRefused(n) /\ Throws(n) /\ UNCHANGED part
     \/ /\ ~PinRefused(n) /\ Matches(target[n], proc[n].manifest)
        /\ apply' = [apply EXCEPT ![n].status = "applied"]
        /\ proc' = [proc EXCEPT ![n] = Idle]
        /\ UNCHANGED <<row, part>>
     \/ /\ ~PinRefused(n) /\ ~Matches(target[n], proc[n].manifest)
        /\ part' = [part EXCEPT ![n] = <<>>]
        /\ Goes(n, "file")
        /\ UNCHANGED <<apply, row>>
  /\ UNCHANGED <<stored, target>>

-----------------------------------------------------------------------------
(* The file.  The offset is the length of what was written.                  *)

\* What a reader gets at the offset of n: a chunk, or nothing at the end.
Read(s, offset) == IF offset < Size[stored[s]] THEN <<stored[s]>> ELSE <<>>

\* The last chunk of the source is short, which ends the transfer, as does
\* reaching the size of the manifest.
PeerChunk(n) ==
  LET s == Source[n]
      offset == Len(part[n])
      bytes == Read(s, offset)
      expected == proc[n].manifest.size
  IN /\ proc[n].at = "file" /\ proc[n].direct
     /\ offset <= Size[stored[s]]
     /\ bytes # <<>> \/ offset >= expected
     /\ part' = [part EXCEPT ![n] = @ \o bytes]
     /\ IF offset + Len(bytes) >= expected \/ offset + 1 >= Size[stored[s]]
        THEN Goes(n, "rename") ELSE UNCHANGED proc
     /\ UNCHANGED <<stored, apply, row, target>>

\* The peer failed, or had nothing at this offset: start the file again through
\* the controller, and stay there.
PeerFails(n) ==
  /\ proc[n].at = "file" /\ proc[n].direct
  /\ part' = [part EXCEPT ![n] = <<>>]
  /\ row' = [row EXCEPT ![n] = [NoRow EXCEPT !.kind = "chunk", !.status = "pending"]]
  /\ proc' = [proc EXCEPT ![n].direct = FALSE, ![n].at = "waitChunk"]
  /\ UNCHANGED <<stored, apply, target>>

RequestModelArtifactChunk(n) ==
  /\ proc[n].at = "file" /\ ~proc[n].direct
  /\ row' = [row EXCEPT ![n] = [NoRow EXCEPT !.kind = "chunk", !.status = "pending",
                                             !.offset = Len(part[n])]]
  /\ Goes(n, "waitChunk")
  /\ UNCHANGED <<stored, apply, target, part>>

ReadModelArtifactChunk(s, n) ==
  LET bytes == Read(s, row[n].offset)
  IN /\ proc[s].at = "idle"
     /\ Source[n] = s /\ row[n].kind = "chunk" /\ row[n].status = "pending"
     /\ row' = [row EXCEPT ![n].status = "applied", ![n].bytes = bytes,
                           ![n].eof = row[n].offset + Len(bytes) >= Size[stored[s]]]
     /\ UNCHANGED <<stored, apply, proc, target, part>>

LoadModelArtifactChunk(n) ==
  /\ proc[n].at = "waitChunk" /\ row[n].status = "applied"
  /\ part' = [part EXCEPT ![n] = @ \o row[n].bytes]
  /\ Goes(n, IF row[n].eof THEN "rename" ELSE "file")
  /\ row' = [row EXCEPT ![n] = NoRow]
  /\ UNCHANGED <<stored, apply, target>>

\* The part becomes the target before its checksum is compared.
RenameTarget(n) ==
  /\ proc[n].at = "rename"
  /\ target' = [target EXCEPT ![n] = part[n]]
  /\ part' = [part EXCEPT ![n] = <<>>]
  /\ Goes(n, "verify")
  /\ UNCHANGED <<stored, apply, row>>

ChecksumHolds(n) ==
  proc[n].manifest.sha # 0 => target[n] = Whole(proc[n].manifest.sha)

VerifyTarget(n) ==
  /\ proc[n].at = "verify"
  /\ \/ ~ChecksumHolds(n) /\ Throws(n)
     \/ /\ ChecksumHolds(n)
        /\ apply' = [apply EXCEPT ![n].status = "applied"]
        /\ proc' = [proc EXCEPT ![n] = Idle]
        /\ UNCHANGED row
  /\ UNCHANGED <<stored, target, part>>

-----------------------------------------------------------------------------
(* What goes wrong                                                          *)

\* The storage node reports its read as failed until no attempt is left.
RelayFails(s, n) ==
  /\ proc[s].at = "idle"
  /\ Source[n] = s /\ row[n].status = "pending"
  /\ row' = [row EXCEPT ![n].status = "failed"]
  /\ UNCHANGED <<stored, apply, proc, target, part>>

Waiting(n) == proc[n].at \in {"waitManifest", "waitChunk"}

SeesFailure(n) ==
  /\ Waiting(n) /\ row[n].status = "failed"
  /\ Throws(n)
  /\ UNCHANGED <<stored, target, part>>

\* Polling without a limit.
PollsForEver(n) == Waiting(n) /\ row[n].status = "pending" /\ UNCHANGED vars

\* The last poll has seen no answer.
PollTimeout(n) ==
  /\ Waiting(n) /\ row[n].status = "pending"
  /\ Throws(n)
  /\ UNCHANGED <<stored, target, part>>

\* hostd dies; the lease of its assignment runs out.  Files stay.  "failed" also
\* stands for a row with no attempt left that stays claimed.
Crash(n) ==
  /\ proc[n].at # "idle"
  /\ Throws(n)
  /\ UNCHANGED <<stored, target, part>>

\* The model library puts another version at the same path of the storage node.
Replace(s) ==
  /\ stored[s] < Len(Size)
  /\ stored' = [stored EXCEPT ![s] = @ + 1]
  /\ UNCHANGED <<apply, proc, row, target, part>>

\* The plane is applied once more.
Reapply(n) ==
  /\ apply[n].status = "applied" /\ apply[n].attempts < MaxAttempts
  /\ apply' = [apply EXCEPT ![n].status = "pending"]
  /\ UNCHANGED <<stored, proc, row, target, part>>

-----------------------------------------------------------------------------
Serve(s, n) == BuildModelArtifactManifest(s, n) \/ ReadModelArtifactChunk(s, n)

\* A step of the process that applies the plane.
Advance(n) ==
  \/ PeerManifest(n) \/ RequestModelArtifactManifest(n) \/ LoadModelArtifactManifest(n)
  \/ CheckManifest(n) \/ PeerChunk(n) \/ PeerFails(n) \/ RequestModelArtifactChunk(n)
  \/ LoadModelArtifactChunk(n) \/ RenameTarget(n) \/ VerifyTarget(n)
  \/ SeesFailure(n) \/ PollTimeout(n)

Next ==
  \/ \E n \in Requesters : Begin(n) \/ Advance(n) \/ Crash(n) \/ Reapply(n)
  \/ \E s \in Nodes, n \in Requesters : Serve(s, n) \/ RelayFails(s, n)
  \/ \E s \in Nodes : Replace(s)

Spec == Init /\ [][Next]_vars

\* hostd claims what is pending and its steps and polls are bounded.
FairSpec ==
  /\ Spec
  /\ \A n \in Requesters : WF_vars(Begin(n)) /\ WF_vars(Advance(n))

-----------------------------------------------------------------------------
Manifest == [size : Nat, sha : 0 .. Len(Size)]

\* The type invariant: the file, the manifest, the rows and the transfer have their types.
TypeOK ==
  /\ stored \in [Nodes -> Versions]
  /\ apply \in [Requesters -> [status : {"pending", "claimed", "applied", "failed"},
                               attempts : 0 .. MaxAttempts]]
  /\ proc \in [Nodes -> [at : {"idle", "manifest", "waitManifest", "check", "file",
                               "waitChunk", "rename", "verify"},
                         direct : BOOLEAN, manifest : Manifest]]
  /\ row \in [Requesters -> [kind : {"none", "manifest", "chunk"},
                             status : {"none", "pending", "applied", "failed"},
                             offset : Nat, manifest : Manifest,
                             bytes : {<<>>} \cup {<<v>> : v \in Versions},
                             eof : BOOLEAN]]
  /\ \A n \in Requesters : target[n] \in Seq(Versions) /\ part[n] \in Seq(Versions)

\* A plane is reported as applied only with a whole file of one version, whatever
\* was replaced, timed out or crashed while the file was put together from chunks.
AppliedModelIsWhole ==
  \A n \in Requesters :
    apply[n].status = "applied" => \E v \in Versions : target[n] = Whole(v)

\* Every application of the plane comes to an end, also when two nodes apply planes
\* at the same time and each is the storage node of the other: neither serves the
\* other while it waits.
BootstrapEnds ==
  \A n \in Requesters : apply[n].status \in {"pending", "claimed"}
                          ~> apply[n].status \in {"applied", "failed"}
=============================================================================
