--------------------------- MODULE TelemetryStream ---------------------------
(***************************************************************************)
(* Telemetry frames on their way to a browser: the live store of the          *)
(* controller (controller/src/telemetry), the stream handler that serves it    *)
(* (controller_http_server.cpp) and the client that resumes a broken stream    *)
(* (ui/operator-react).                                                      *)
(*                                                                         *)
(* A frame is its node and its number, the wall clock of the node.  Frames      *)
(* arrive late, twice, in any order, or not at all, and clocks differ.  The     *)
(* store keeps the newest frames of a node, a stream keeps one cursor for all   *)
(* nodes, and the store is locked for each call only: a frame may arrive        *)
(* between any two calls of the handler.                                      *)
(***************************************************************************)
EXTENDS Naturals, FiniteSets, FiniteSetsExt

CONSTANTS
  Nodes,          \* nodes that send frames
  LiveStream,     \* TRUE: StreamLiveSse, FALSE: StreamTelemetrySse
  HotCapacity,    \* hot_history_capacity
  BatchLimit,     \* stream_batch_limit
  Durable,        \* durable_history_capacity
  IdModulus,      \* 2147483647, the range of SSE ids
  MaxSequence,    \* bound: numbers of frames
  MaxBreaks,      \* bound: connections that break
  MaxRestarts     \* bound: restarts of the controller

VARIABLES
  history,   \* TelemetryNodeBuffer.history: numbers of each node
  pruned,    \* last_pruned_sequence > 0, per node
  latest,    \* latest_sequence of the store
  durable,   \* telemetry_ring_buffer: frames by number
  stream,    \* the handler thread that serves the browser
  browser,   \* url: since_sequence; id: Last-Event-ID; top: latestSequence
  fetched,   \* answer of GET telemetry/snapshot on its way to the browser
  newest,    \* history: the largest number that ever arrived
  owed,      \* history: frames in order that the browser has not been told of
  breaks, restarts

vars == <<history, pruned, latest, durable, stream, browser, fetched, newest, owed,
          breaks, restarts>>
store == <<history, pruned, latest, durable>>
ghosts == <<newest, owed>>
bounds == <<breaks, restarts>>

Numbers == 1 .. MaxSequence
Frame(n, s) == [node |-> n, seq |-> s]
NoSnapshot == [frames |-> {}, latest |-> 0]
LoggedOut == [url |-> 0, id |-> 0, top |-> 0, open |-> FALSE]
Closed == [at |-> "closed", cursor |-> 0, frames |-> {}, latest |-> 0, snapshot |-> NoSnapshot]

Init ==
  /\ history = [n \in Nodes |-> {}] /\ pruned = [n \in Nodes |-> FALSE]
  /\ latest = 0 /\ durable = {}
  /\ stream = Closed
  /\ browser = LoggedOut
  /\ fetched = NoSnapshot
  /\ newest = 0 /\ owed = {}
  /\ breaks = 0 /\ restarts = 0

-----------------------------------------------------------------------------
(* The store                                                                *)

\* ApplyHotRetention: the newest HotCapacity numbers.
Hot(S) == {s \in S : Cardinality({t \in S : t > s}) < HotCapacity}
Newest(h, n) == IF h[n] = {} THEN 0 ELSE Max(h[n])

\* PersistFrame: a frame replaces the one with its number, of whichever node.
Persisted(f) ==
  LET all == {g \in durable : g.seq # f.seq} \cup {f}
  IN {g \in all : Cardinality({h \in all : h.seq > g.seq}) < Durable}

\* The stream has built its first snapshot and has not read the number it goes on
\* from, or that number is 0.
Connecting ==
  \/ stream.at \in {"sendFirst", "number"}
  \/ stream.at \in {"poll", "send", "replay", "sendReplay"} /\ stream.cursor = 0

\* Upsert: a frame that is not newer than its node's is refused.  Writing the frame
\* to the database may fail.
Upsert(n, s) ==
  LET h == history[n] \cup {s}
  IN /\ s > Newest(history, n)
     /\ history' = [history EXCEPT ![n] = Hot(h)]
     /\ pruned' = [pruned EXCEPT ![n] = @ \/ Hot(h) # h]
     /\ latest' = Max({latest, s})
     /\ durable' \in {durable, Persisted(Frame(n, s))}
     /\ newest' = Max({newest, s})
     /\ owed' = IF s > newest /\ ~Connecting
                THEN owed \cup {Frame(n, s)} ELSE {f \in owed : f.seq # s}
     /\ UNCHANGED <<stream, browser, fetched, bounds>>

\* BuildSnapshot: the newest frame of every node.
Snapshot == [frames |-> {Frame(n, Max(history[n])) : n \in {m \in Nodes : history[m] # {}}},
             latest |-> latest]

FramesAfter(sequence) == UNION {{Frame(n, s) : s \in {t \in history[n] : t > sequence}} : n \in Nodes}

\* A mutant: only truncated batches are announced.
TruncatedOnly(sequence) == Cardinality(FramesAfter(sequence)) > BatchLimit

\* LoadStreamDeltaAfter: frames after the number were pruned, or are too many.
ReplayRequired(sequence) ==
  \/ sequence > 0 /\ \E n \in Nodes : history[n] # {} /\ sequence < Min(history[n]) /\ pruned[n]
  \/ Cardinality(FramesAfter(sequence)) > BatchLimit

\* The newest BatchLimit of them.
DeltaFrames(sequence) ==
  LET all == FramesAfter(sequence)
  IN {T \in SUBSET all : /\ Cardinality(T) = Min({BatchLimit, Cardinality(all)})
                         /\ \A f \in T, g \in all \ T : f.seq >= g.seq}

-----------------------------------------------------------------------------
(* The browser                                                              *)

\* applyTelemetrySnapshotMetadata and reduceTelemetryStore: a snapshot tells of
\* every frame that is not newer than the one it has of its node.
TellSnapshot(snapshot, id) ==
  /\ browser' = [browser EXCEPT !.top = Max({@, snapshot.latest} \cup {f.seq : f \in snapshot.frames}),
                                !.id = id]
  /\ owed' = {f \in owed : ~ \E g \in snapshot.frames : g.node = f.node /\ g.seq >= f.seq}

TellFrame(f) ==
  /\ browser' = [browser EXCEPT !.top = Max({@, f.seq}), !.id = f.seq % IdModulus]
  /\ owed' = owed \ {f}

\* ParseTelemetryStreamRequest: since_sequence of the URL, else Last-Event-ID.
Connect(b) == stream' = [Closed EXCEPT !.at = "initial", !.cursor = IF b.url # 0 THEN b.url ELSE b.id]

\* A new EventSource at a login; an answer that came after a logout is kept.
Open ==
  /\ ~browser.open
  /\ browser' = [browser EXCEPT !.open = TRUE, !.url = browser.top, !.id = 0]
  /\ Connect(browser')
  /\ UNCHANGED <<store, fetched, ghosts, bounds>>

\* EventSource connects again by itself, with the same URL.
Reconnect ==
  /\ browser.open /\ stream = Closed
  /\ Connect(browser)
  /\ UNCHANGED <<store, browser, fetched, ghosts, bounds>>

\* The connection breaks.  What the handler sent since is lost, and it ends when it
\* notices.  At a logout the browser closes the stream and forgets its frames.
Break ==
  /\ stream # Closed /\ breaks < MaxBreaks
  /\ breaks' = breaks + 1
  /\ stream' = Closed
  /\ browser' \in {browser, LoggedOut}
  /\ UNCHANGED <<store, fetched, ghosts, restarts>>

\* GET telemetry/snapshot, at login and while the stream is down.
Fetch ==
  /\ fetched = NoSnapshot /\ latest # 0
  /\ browser.open /\ stream.at \in {"closed", "initial"}
  /\ fetched' = Snapshot
  /\ UNCHANGED <<store, stream, browser, ghosts, bounds>>

FetchAnswers ==
  /\ fetched # NoSnapshot
  /\ TellSnapshot(fetched, browser.id)
  /\ fetched' = NoSnapshot
  /\ UNCHANGED <<store, stream, newest, bounds>>

FetchFails ==
  /\ fetched # NoSnapshot
  /\ fetched' = NoSnapshot
  /\ UNCHANGED <<store, stream, browser, ghosts, bounds>>

-----------------------------------------------------------------------------
(* The handler                                                              *)

\* The first delta: all a new client gets of it is whether it needs a snapshot.
InitialDelta ==
  /\ stream.at = "initial"
  /\ stream' = [stream EXCEPT !.at = IF stream.cursor = 0 \/ ReplayRequired(stream.cursor)
                                     THEN "first" ELSE "poll"]
  /\ UNCHANGED <<store, browser, fetched, ghosts, bounds>>

FirstSnapshot ==
  /\ stream.at = "first"
  /\ stream' = [stream EXCEPT !.at = "sendFirst", !.snapshot = Snapshot]
  /\ UNCHANGED <<store, browser, fetched, ghosts, bounds>>

SendFirst ==
  /\ stream.at = "sendFirst"
  /\ TellSnapshot(stream.snapshot, latest % IdModulus)
  /\ stream' = [stream EXCEPT !.at = "number", !.snapshot = NoSnapshot]
  /\ UNCHANGED <<store, fetched, newest, bounds>>

StartNumber ==
  /\ stream.at = "number"
  /\ stream' = [stream EXCEPT !.at = "poll", !.cursor = Max({@, latest})]
  /\ UNCHANGED <<store, browser, fetched, ghosts, bounds>>

\* LoadStreamDeltaAfter in the loop.
Poll ==
  /\ stream.at = "poll"
  /\ \E frames \in DeltaFrames(stream.cursor) :
       stream' = IF ReplayRequired(stream.cursor)
                 THEN [stream EXCEPT !.at = "replay", !.latest = latest,
                                     !.frames = IF LiveStream THEN frames ELSE {}]
                 ELSE [stream EXCEPT !.at = IF frames = {} THEN "poll" ELSE "send",
                                     !.frames = frames]
  /\ UNCHANGED <<store, browser, fetched, ghosts, bounds>>

Replay ==
  /\ stream.at = "replay"
  /\ stream' = [stream EXCEPT !.at = "sendReplay", !.snapshot = Snapshot]
  /\ UNCHANGED <<store, browser, fetched, ghosts, bounds>>

\* A mutant: the cursor goes to what the store holds by now, as in StartNumber.
SendReplayReadsLatest ==
  /\ stream.at = "sendReplay"
  /\ TellSnapshot(stream.snapshot, stream.latest % IdModulus)
  /\ stream' = [stream EXCEPT !.at = IF stream.frames = {} THEN "poll" ELSE "send",
                   !.cursor = Max({@, latest}), !.latest = 0, !.snapshot = NoSnapshot]
  /\ UNCHANGED <<store, fetched, newest, bounds>>

\* The cursor goes to the number the delta was made with.  StreamLiveSse goes on
\* with the frames of the delta, StreamTelemetrySse does not.
SendReplay ==
  /\ stream.at = "sendReplay"
  /\ TellSnapshot(stream.snapshot, stream.latest % IdModulus)
  /\ stream' = [stream EXCEPT !.at = IF stream.frames = {} THEN "poll" ELSE "send",
                   !.cursor = Max({@, stream.latest}), !.latest = 0, !.snapshot = NoSnapshot]
  /\ UNCHANGED <<store, fetched, newest, bounds>>

\* The frames of the delta one by one, in the order of their numbers.
SendFrame ==
  /\ stream.at = "send"
  /\ \E f \in stream.frames :
       /\ \A g \in stream.frames : f.seq <= g.seq
       /\ TellFrame(f)
       /\ stream' = [stream EXCEPT !.frames = @ \ {f}, !.cursor = Max({@, f.seq}),
                                   !.at = IF stream.frames = {f} THEN "poll" ELSE "send"]
  /\ UNCHANGED <<store, fetched, newest, bounds>>

Serve == InitialDelta \/ FirstSnapshot \/ SendFirst \/ StartNumber \/ Poll \/ Replay
         \/ SendReplay \/ SendFrame

-----------------------------------------------------------------------------
\* The controller starts again with the frames of the database, oldest first.  Frames
\* that were not there are lost to everybody.
Restart ==
  /\ restarts < MaxRestarts
  /\ restarts' = restarts + 1
  /\ LET loaded == [n \in Nodes |-> {f.seq : f \in {g \in durable : g.node = n}}]
     IN /\ history' = [n \in Nodes |-> Hot(loaded[n])]
        /\ pruned' = [n \in Nodes |-> Hot(loaded[n]) # loaded[n]]
  /\ latest' = IF durable = {} THEN 0 ELSE Max({f.seq : f \in durable})
  /\ owed' = owed \cap durable
  /\ stream' = Closed /\ fetched' = NoSnapshot
  /\ UNCHANGED <<durable, browser, newest, breaks>>

Next ==
  \/ \E n \in Nodes, s \in Numbers : Upsert(n, s)
  \/ Open \/ Reconnect \/ Break \/ Fetch \/ FetchAnswers \/ FetchFails
  \/ Serve \/ Restart

Spec == Init /\ [][Next]_vars

\* Fairness: the handler goes on, and EventSource connects again.
FairSpec == Spec /\ WF_vars(Serve) /\ WF_vars(Reconnect)

-----------------------------------------------------------------------------
\* The type invariant: frames have numbers, buffers their capacity.
TypeOK ==
  /\ \A n \in Nodes : history[n] \subseteq Numbers /\ Cardinality(history[n]) <= HotCapacity
  /\ pruned \in [Nodes -> BOOLEAN]
  /\ durable \subseteq [node : Nodes, seq : Numbers] /\ Cardinality(durable) <= Durable
  /\ stream.at \in {"closed", "initial", "first", "sendFirst", "number", "poll", "replay",
                    "sendReplay", "send"}
  /\ stream.cursor \in 0 .. MaxSequence /\ browser.top \in 0 .. MaxSequence
  /\ owed \subseteq [node : Nodes, seq : Numbers]

\* No gap without notice: the cursor of a stream does not pass a frame of which the
\* browser was told neither by the frame itself nor by a snapshot with one at least as
\* new, although frames are pruned, batches are truncated, frames arrive between any
\* two calls of the handler, and the browser resumes broken streams with ids that are
\* cut to 31 bits.  Stated for frames whose number is larger than every one before,
\* that do not arrive while the stream starts from a snapshot and that a restart did
\* not lose.
NoFrameIsPassedOver == stream # Closed => \A f \in owed : stream.cursor < f.seq

\* The browser is told of such a frame in the end, by itself or by a snapshot, unless
\* the user leaves: the handler does not send snapshots for ever, and broken streams
\* are resumed.
FrameIsTold ==
  \A n \in Nodes, s \in Numbers :
    Frame(n, s) \in owed ~> Frame(n, s) \notin owed \/ ~browser.open
=============================================================================
