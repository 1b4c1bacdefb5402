---------------------------- MODULE Conversation ----------------------------
(***************************************************************************)
(* A stored conversation with a plane: its turns, their archival after a week   *)
(* without use, and its restoration (controller/src/interaction,               *)
(* common/src/state/interaction_repository.cpp).                             *)
(*                                                                         *)
(* A turn is what a request adds: the new messages and the answer.  Requests    *)
(* are served by threads.  Each call of the store is a transaction of its own,  *)
(* and the update of the session row alone is guarded, by its version; the     *)
(* messages follow in a second transaction.  Any request, of this or of another *)
(* conversation, may sweep conversations into archive files.                  *)
(***************************************************************************)
EXTENDS Naturals, FiniteSets

CONSTANTS
  Threads,       \* threads of the controller
  MaxRequests,   \* bound: turns that are asked for
  MaxAges,       \* bound: times the conversation is not used for a week
  MaxDeletes,    \* bound: deletions by the user
  MaxDeaths      \* bound: deaths of the controller

VARIABLES
  row,        \* interaction_sessions
  messages,   \* interaction_messages: turns
  archive,    \* interaction_archives: the file its checksum stands for
  file,       \* the archive file
  thread,     \* what a thread does, with the row and the turns it holds
  saved,      \* history: turns that were stored
  exposed,    \* history: steps met that nothing guards
  requests, ages, deletes, deaths

vars == <<row, messages, archive, file, thread, saved, exposed, requests, ages, deletes, deaths>>
bounds == <<requests, ages, deletes, deaths>>

NoRow == [state |-> "none", version |-> 0, old |-> FALSE, path |-> FALSE]
File(kind, turns, version) == [kind |-> kind, turns |-> turns, version |-> version]
NoFile == File("none", {}, 0)
\* A file whose writing failed or was cut short: no checksum fits it.
Torn == File("torn", {}, 0)
Idle == [at |-> "idle", turn |-> 0, row |-> NoRow, turns |-> {}, then |-> "idle"]

Init ==
  /\ row = NoRow /\ messages = {} /\ archive = NoFile /\ file = NoFile
  /\ thread = [t \in Threads |-> Idle]
  /\ saved = {} /\ exposed = FALSE
  /\ requests = 0 /\ ages = 0 /\ deletes = 0 /\ deaths = 0

-----------------------------------------------------------------------------
Goto(t, at) == thread' = [thread EXCEPT ![t].at = at]
End(t) == thread' = [thread EXCEPT ![t] = Idle]

\* A sweep is over: back to the request it was part of, if that goes on.
Return(t) == IF thread[t].then = "idle" THEN End(t) ELSE Goto(t, thread[t].then)

\* Writes that follow a first one in transactions of their own.
Unguarded(t) ==
  thread[t].at \in {"replace", "archiveClear", "archiveRecord", "restoreMessages",
                    "restoreRecord", "deleteFile"}

\* A request that has found the session and has not loaded it again for its update.
InFlight(t) == thread[t].at \in {"reload", "answer", "persist"}

\* A thread that goes by what it has loaded of the session, or has its file to delete.
Holds(t) ==
  \/ Unguarded(t)
  \/ thread[t].at \in {"persistMessages", "update", "archiveRead", "archiveFile", "archiveRow",
                       "restoreRow"}

\* Thread t loads messages between such writes of another one.
Meets(t) == exposed' = (exposed \/ \E u \in Threads \ {t} : Unguarded(u))

-----------------------------------------------------------------------------
(* PrepareRequest                                                           *)

\* The first request makes a session; the others name it.
Begin(t) ==
  /\ thread[t] = Idle /\ requests < MaxRequests
  /\ requests = 0 \/ row # NoRow
  /\ requests' = requests + 1
  /\ thread' = [thread EXCEPT ![t] = [Idle EXCEPT !.at = "sweep", !.then = "prepare",
                                                  !.turn = requests + 1]]
  /\ UNCHANGED <<row, messages, archive, file, saved, exposed, ages, deletes, deaths>>

\* A request of another conversation: all it does to this one is its sweep.
OtherRequest(t) ==
  /\ thread[t] = Idle /\ row.old
  /\ thread' = [thread EXCEPT ![t] = [Idle EXCEPT !.at = "sweep"]]
  /\ UNCHANGED <<row, messages, archive, file, saved, exposed, bounds>>

Prepare(t) ==
  /\ thread[t].at = "prepare"
  /\ \/ (thread[t].turn = 1 \/ row.state = "active") /\ Goto(t, "answer")
     \/ thread[t].turn # 1 /\ row.state = "archived" /\ Goto(t, "restoreRead")
     \/ thread[t].turn # 1 /\ row.state = "none" /\ End(t)
  /\ UNCHANGED <<row, messages, archive, file, saved, exposed, bounds>>

\* RestoreArchivedSession: the file is checked against the archive record.
RestoreRead(t) ==
  /\ thread[t].at = "restoreRead"
  /\ IF archive # NoFile /\ file = archive
     THEN thread' = [thread EXCEPT ![t].at = "restoreRow", ![t].turns = file.turns,
                                   ![t].row.version = file.version]
     ELSE End(t)
  /\ UNCHANGED <<row, messages, archive, file, saved, exposed, bounds>>

\* UpsertInteractionSession: the row is written whatever became of it since it was found
\* archived.
RestoreRow(t) ==
  /\ thread[t].at = "restoreRow"
  /\ row' = [state |-> "active", version |-> thread[t].row.version + 1, old |-> FALSE, path |-> TRUE]
  /\ Goto(t, "restoreMessages")
  /\ exposed' = (exposed \/ row.state # "archived" \/ row.version # thread[t].row.version + 1)
  /\ UNCHANGED <<messages, archive, file, saved, bounds>>

\* Messages and archive records need their session (foreign keys).
RestoreMessages(t) ==
  /\ thread[t].at = "restoreMessages"
  /\ IF row = NoRow
     THEN End(t) /\ UNCHANGED messages
     ELSE Goto(t, "restoreRecord") /\ messages' = thread[t].turns
  /\ UNCHANGED <<row, archive, file, saved, exposed, bounds>>

RestoreRecord(t) ==
  /\ thread[t].at = "restoreRecord"
  /\ IF row = NoRow
     THEN End(t) /\ UNCHANGED archive
     ELSE Goto(t, "reload") /\ archive' = File("whole", thread[t].turns, thread[t].row.version)
  /\ UNCHANGED <<row, messages, file, saved, exposed, bounds>>

Reload(t) ==
  /\ thread[t].at = "reload"
  /\ IF row = NoRow THEN End(t) ELSE Goto(t, "answer")
  /\ UNCHANGED <<row, messages, archive, file, saved, exposed, bounds>>

\* The plane answers, or fails.
Answer(t) ==
  /\ thread[t].at = "answer"
  /\ Goto(t, "persist") \/ End(t)
  /\ UNCHANGED <<row, messages, archive, file, saved, exposed, bounds>>

-----------------------------------------------------------------------------
(* PersistResponse                                                          *)

PersistLoad(t) ==
  /\ thread[t].at = "persist"
  /\ thread' = [thread EXCEPT ![t].at = "persistMessages", ![t].row = row]
  /\ UNCHANGED <<row, messages, archive, file, saved, exposed, bounds>>

PersistMessages(t) ==
  /\ thread[t].at = "persistMessages"
  /\ thread' = [thread EXCEPT ![t].at = "update",
                              ![t].turns = IF thread[t].row = NoRow THEN {} ELSE messages]
  /\ Meets(t)
  /\ UNCHANGED <<row, messages, archive, file, saved, bounds>>

\* UpdateInteractionSessionVersioned finds the version that was loaded.
SameVersion(held) == row # NoRow /\ row.version = held.version

\* Thread t inserts a session that it did not find, after another thread has inserted it
\* or while another one holds what was deleted, versions included, which start again.
InsertsAgain(t) ==
  thread[t].row = NoRow /\ (row # NoRow \/ \E u \in Threads \ {t} : Holds(u))

\* A mutant: the update is not bound to a version.
UpdateAnyVersion(t) ==
  /\ thread[t].at = "update"
  /\ LET held == thread[t].row
     IN IF held = NoRow \/ row # NoRow
        THEN /\ row' = [state |-> "active", version |-> held.version + 1, old |-> FALSE,
                        path |-> held.path]
             /\ exposed' = (exposed \/ InsertsAgain(t))
             /\ Goto(t, "replace")
        ELSE End(t) /\ UNCHANGED <<row, exposed>>
  /\ UNCHANGED <<messages, archive, file, saved, bounds>>

\* A session that was not found is inserted, over one that is there by now; otherwise
\* session_conflict ends the request unless the version is the one that was loaded.
Update(t) ==
  /\ thread[t].at = "update"
  /\ LET held == thread[t].row
     IN IF held = NoRow \/ SameVersion(held)
        THEN /\ row' = [state |-> "active", version |-> held.version + 1, old |-> FALSE,
                        path |-> held.path]
             /\ exposed' = (exposed \/ InsertsAgain(t))
             /\ Goto(t, "replace")
        ELSE End(t) /\ UNCHANGED <<row, exposed>>
  /\ UNCHANGED <<messages, archive, file, saved, bounds>>

\* ReplaceInteractionMessages, in a transaction of its own.
Replace(t) ==
  /\ thread[t].at = "replace"
  /\ IF row = NoRow
     THEN End(t) /\ UNCHANGED <<messages, saved>>
     ELSE /\ messages' = thread[t].turns \cup {thread[t].turn}
          /\ saved' = saved \cup {thread[t].turn}
          /\ thread' = [thread EXCEPT ![t] = [Idle EXCEPT !.at = "sweep"]]
  /\ UNCHANGED <<row, archive, file, exposed, bounds>>

-----------------------------------------------------------------------------
(* MaybeArchiveInactiveSessions, at the head of PrepareRequest and at the end  *)
(* of PersistResponse                                                       *)

Archiving(t) == thread[t].at \in {"archiveRead", "archiveFile", "archiveRow", "archiveClear",
                                  "archiveRecord"}

\* A sweep starts once a minute, and ends within that minute.  Another sweep, or
\* another session, may have used it up.
SweepSkips(t) ==
  /\ thread[t].at = "sweep"
  /\ Return(t)
  /\ UNCHANGED <<row, messages, archive, file, saved, exposed, bounds>>

SweepStarts(t) ==
  /\ thread[t].at = "sweep" /\ ~ \E u \in Threads : Archiving(u)
  /\ row.state = "active" /\ row.old
  /\ thread' = [thread EXCEPT ![t].at = "archiveRead", ![t].row = row]
  /\ UNCHANGED <<row, messages, archive, file, saved, exposed, bounds>>

ArchiveRead(t) ==
  /\ thread[t].at = "archiveRead"
  /\ thread' = [thread EXCEPT ![t].at = "archiveFile", ![t].turns = messages]
  /\ Meets(t)
  /\ UNCHANGED <<row, messages, archive, file, saved, bounds>>

\* The file is written over the one before; a failure is an exception, which ends the request.
ArchiveFile(t) ==
  /\ thread[t].at = "archiveFile"
  /\ \/ file' = File("whole", thread[t].turns, thread[t].row.version) /\ Goto(t, "archiveRow")
     \/ file' = Torn /\ End(t)
  /\ UNCHANGED <<row, messages, archive, saved, exposed, bounds>>

ArchiveRow(t) ==
  /\ thread[t].at = "archiveRow"
  /\ IF SameVersion(thread[t].row)
     THEN /\ row' = [state |-> "archived", version |-> row.version + 1, old |-> FALSE, path |-> TRUE]
          /\ exposed' = (exposed \/ \E u \in Threads \ {t} : InFlight(u))
          /\ Goto(t, "archiveClear")
     ELSE Return(t) /\ UNCHANGED <<row, exposed>>
  /\ UNCHANGED <<messages, archive, file, saved, bounds>>

ArchiveClear(t) ==
  /\ thread[t].at = "archiveClear"
  /\ messages' = {}
  /\ Goto(t, "archiveRecord")
  /\ UNCHANGED <<row, archive, file, saved, exposed, bounds>>

\* A missing session is an exception, which ends the request.
ArchiveRecord(t) ==
  /\ thread[t].at = "archiveRecord"
  /\ IF row = NoRow
     THEN End(t) /\ UNCHANGED archive
     ELSE /\ archive' = File("whole", thread[t].turns, thread[t].row.version)
          /\ Return(t)
  /\ UNCHANGED <<row, messages, file, saved, exposed, bounds>>

-----------------------------------------------------------------------------
(* DeleteSession                                                            *)

Delete(t) ==
  /\ thread[t] = Idle /\ row # NoRow /\ deletes < MaxDeletes
  /\ deletes' = deletes + 1
  /\ thread' = [thread EXCEPT ![t].at = "deleteRows", ![t].row.path = row.path \/ archive # NoFile]
  /\ UNCHANGED <<row, messages, archive, file, saved, exposed, requests, ages, deaths>>

DeleteRows(t) ==
  /\ thread[t].at = "deleteRows"
  /\ IF row # NoRow /\ thread[t].row.path THEN Goto(t, "deleteFile") ELSE End(t)
  /\ row' = NoRow /\ messages' = {} /\ archive' = NoFile
  /\ saved' = {}
  /\ UNCHANGED <<file, exposed, bounds>>

DeleteFile(t) ==
  /\ thread[t].at = "deleteFile"
  /\ file' = NoFile
  /\ End(t)
  /\ UNCHANGED <<row, messages, archive, saved, exposed, bounds>>

-----------------------------------------------------------------------------
\* A week passes.
Age ==
  /\ row.state = "active" /\ ~row.old /\ ages < MaxAges
  /\ ages' = ages + 1
  /\ row' = [row EXCEPT !.old = TRUE]
  /\ UNCHANGED <<messages, archive, file, thread, saved, exposed, requests, deletes, deaths>>

\* The controller dies, perhaps while it writes the archive file.
Die ==
  /\ deaths < MaxDeaths /\ \E t \in Threads : thread[t] # Idle
  /\ deaths' = deaths + 1
  /\ thread' = [t \in Threads |-> Idle]
  /\ file' \in {file} \cup {Torn : t \in {u \in Threads : thread[u].at = "archiveFile"}}
  /\ exposed' = (exposed \/ \E t \in Threads :
                   thread[t].at \in {"archiveClear", "archiveRecord", "restoreMessages"})
  /\ UNCHANGED <<row, messages, archive, saved, requests, ages, deletes>>

Sweep(t) ==
  SweepSkips(t) \/ SweepStarts(t) \/ ArchiveRead(t) \/ ArchiveFile(t) \/ ArchiveRow(t)
  \/ ArchiveClear(t) \/ ArchiveRecord(t)

Request(t) ==
  \/ Begin(t) \/ OtherRequest(t) \/ Prepare(t) \/ RestoreRead(t) \/ RestoreRow(t)
  \/ RestoreMessages(t) \/ RestoreRecord(t) \/ Reload(t) \/ Answer(t) \/ PersistLoad(t)
  \/ PersistMessages(t) \/ Update(t) \/ Replace(t)

Next ==
  \/ \E t \in Threads : Request(t) \/ Sweep(t) \/ Delete(t) \/ DeleteRows(t) \/ DeleteFile(t)
  \/ Age \/ Die

Spec == Init /\ [][Next]_vars

-----------------------------------------------------------------------------
\* The type invariant; messages and archive records have their session.
TypeOK ==
  /\ row.state \in {"none", "active", "archived"} /\ row.version \in Nat
  /\ messages \subseteq 1 .. MaxRequests /\ saved \subseteq 1 .. MaxRequests
  /\ file.kind \in {"none", "torn", "whole"}
  /\ row = NoRow => messages = {} /\ archive = NoFile

\* What the user finds, now or after a restoration.
Kept == IF row.state = "archived"
        THEN IF file = archive THEN archive.turns ELSE {}
        ELSE messages

\* No turn is lost: a turn that PersistResponse stored stays in the conversation or in an
\* archive that can be restored, although requests overlap, sweeps run between any two of
\* their steps, archive files are written over, and the controller dies.  Stated while no
\* thread is between writes that belong together, and up to the first step that nothing
\* in the code guards: messages loaded between such writes of another thread, an archival
\* under a request that waits for its answer, a restoration of a session that is no longer
\* the archived one, a deleted session that is inserted again over another insertion or
\* under a thread that holds the old one, a death within an archival or a restoration.
SavedTurnIsKept ==
  ~exposed /\ (\A t \in Threads : ~Unguarded(t)) => saved \subseteq Kept
=============================================================================
