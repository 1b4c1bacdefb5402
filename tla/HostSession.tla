---------------------------- MODULE HostSession ----------------------------
(***************************************************************************)
(* The session of one registered host: the client every process of the     *)
(* node has of its own (hostd/src/backend/http_hostd_backend.cpp), the     *)
(* handlers of the controller that share the one row of registered_hosts   *)
(* (controller/src/host/hostd_http_service.cpp) and the operator commands  *)
(* on that row (host_registry_service.cpp).                                *)
(*                                                                         *)
(* A handler loads the row, works on its copy and writes the whole row     *)
(* back: load and save are separate steps.  Keys, signatures and           *)
(* ciphertexts are left out: a token stands for the key of a session.      *)
(***************************************************************************)
EXTENDS Naturals, FiniteSets

CONSTANTS
  Clients,      \* processes of the node that talk to the controller
  Threads,      \* requests the controller can have in hand
  Commands,     \* bound: operator commands, each given once
  Timeouts,     \* TRUE: a client may stop waiting for an answer
  MaxAttempts,  \* kMaxAttempts of RetryOnRecoverableSessionError
  MaxTokens,    \* bound: sessions opened
  MaxCalls      \* bound: calls of a client

VARIABLES
  host,      \* the row of registered_hosts
  client,    \* HttpHostdBackend of every process
  thread,    \* the request a controller thread works on
  operator,  \* an operator command between its load and its save
  fresh,     \* history: no client was given a stale response
  token,     \* sessions opened so far
  calls      \* calls made by every client

vars == <<host, client, thread, operator, fresh, token, calls>>

NoHost   == [token |-> 0, hseq |-> 0, cseq |-> 0, state |-> "registered", key |-> TRUE,
             connected |-> FALSE, onboarding |-> FALSE, storage |-> FALSE, expired |-> FALSE]
NoThread == [of |-> "none", at |-> "free", token |-> 0, seq |-> 0, beat |-> FALSE,
             persist |-> TRUE, copy |-> NoHost]
NoClient == [at |-> "idle", token |-> 0, hseq |-> 0, cseq |-> 0, attempts |-> 0,
             registered |-> FALSE]
NoCommand == [cmd |-> "none", copy |-> NoHost, given |-> {}]

Init ==
  /\ host = NoHost
  /\ client = [c \in Clients |-> NoClient]
  /\ thread = [t \in Threads |-> NoThread]
  /\ operator = NoCommand
  /\ fresh = TRUE
  /\ token = 0
  /\ calls = [c \in Clients |-> 0]

-----------------------------------------------------------------------------
(* The client.  EnsureSession ("beat", "open", "first-beat"), then the       *)
(* request ("request"); "waiting-" while its answer is out.                  *)

Reset(c) == [client[c] EXCEPT !.token = 0, !.hseq = 0, !.cseq = 0]

\* A public method: EnsureSession, then SendEncryptedControllerJsonRequest.
Call(c) ==
  /\ client[c].at = "idle" /\ calls[c] < MaxCalls
  /\ calls' = [calls EXCEPT ![c] = @ + 1]
  /\ client' = [client EXCEPT ![c].at = IF client[c].token = 0 THEN "open" ELSE "beat",
                              ![c].attempts = 0]
  /\ UNCHANGED <<host, thread, operator, token, fresh>>

\* The request leaves the client; a sequence number is taken at once.
Send(c, t) ==
  /\ client[c].at \in {"beat", "first-beat", "request"}
  /\ thread[t] = NoThread
  /\ client' = [client EXCEPT ![c].hseq = @ + 1,
                  ![c].at = CASE @ = "beat" -> "waiting-beat"
                              [] @ = "first-beat" -> "waiting-first-beat"
                              [] OTHER -> "waiting-request"]
  /\ thread' = [thread EXCEPT ![t] =
       [NoThread EXCEPT !.of = c, !.at = "received", !.token = client[c].token,
                        !.seq = client[c].hseq + 1, !.beat = client[c].at # "request"]]
  /\ UNCHANGED <<host, operator, token, calls, fresh>>

SendOpen(c, t) ==
  /\ client[c].at = "open" /\ token < MaxTokens
  /\ thread[t] = NoThread
  /\ client' = [client EXCEPT ![c].at = "waiting-open"]
  /\ thread' = [thread EXCEPT ![t] = [NoThread EXCEPT !.of = c, !.at = "opening"]]
  /\ UNCHANGED <<host, operator, token, calls, fresh>>

\* What an answer does to a client that waits for it: "ok" with a sequence
\* number, or "refused" (403 or a stale request), or "error".
\* RetryOnRecoverableSessionError opens a new session for a refused request.
AfterOk(c) ==
  CASE client[c].at = "waiting-request" -> [client[c] EXCEPT !.at = "idle"]
    [] OTHER -> [client[c] EXCEPT !.at = "request"]

AfterError(c) ==
  IF client[c].at = "waiting-beat" THEN [Reset(c) EXCEPT !.at = "open"]
  ELSE [client[c] EXCEPT !.at = "idle"]

\* Mutant: one attempt too many.
AfterRefusalOneMore(c) ==
  IF client[c].at = "waiting-request" /\ client[c].attempts < MaxAttempts
  THEN [Reset(c) EXCEPT !.at = "open", !.attempts = @ + 1]
  ELSE AfterError(c)

\* Mutant: no attempt is the last one.
AfterRefusalForever(c) ==
  IF client[c].at = "waiting-request" THEN [Reset(c) EXCEPT !.at = "open"]
  ELSE AfterError(c)

AfterRefusal(c) ==
  IF client[c].at = "waiting-request" /\ client[c].attempts + 1 < MaxAttempts
  THEN [Reset(c) EXCEPT !.at = "open", !.attempts = @ + 1]
  ELSE AfterError(c)

Waits(t) == LET c == thread[t].of IN
  /\ client[c].at \in {"waiting-beat", "waiting-first-beat", "waiting-request"}
  /\ client[c].token = thread[t].token /\ client[c].hseq = thread[t].seq

\* The answer of thread t; nobody may be there any more to read it.
Refuse(t) ==
  /\ client' = IF Waits(t) THEN [client EXCEPT ![thread[t].of] = AfterRefusal(thread[t].of)]
               ELSE client
  /\ thread' = [thread EXCEPT ![t] = NoThread]

\* The client's transport gives up (connection lost, timeout).
GiveUp(c) ==
  /\ Timeouts
  /\ client[c].at \in {"waiting-beat", "waiting-first-beat", "waiting-request"}
  /\ client' = [client EXCEPT ![c] = AfterError(c)]
  /\ UNCHANGED <<host, thread, operator, token, calls, fresh>>

-----------------------------------------------------------------------------
(* The handlers of the controller.                                          *)

\* HandleSessionOpen: the row is loaded; a host without key has to register.
OpenLoad(t) ==
  /\ thread[t].at = "opening"
  /\ host.key
  /\ thread' = [thread EXCEPT ![t].copy = host, ![t].at = "open-save"]
  /\ UNCHANGED <<host, client, operator, token, calls, fresh>>

\* EnsureRegistered, HandleRegister: once per process, with the onboarding key.
OpenRegisters(t) ==
  LET c == thread[t].of IN
  /\ thread[t].at = "opening" /\ ~host.key
  /\ IF ~client[c].registered /\ host.onboarding
     THEN /\ host' = [host EXCEPT !.key = TRUE, !.state = "registered",
                                  !.onboarding = FALSE, !.token = 0, !.expired = FALSE]
          /\ client' = [client EXCEPT ![c].registered = TRUE]
          /\ UNCHANGED thread
     ELSE /\ client' = [client EXCEPT ![c].at = "idle", ![c].registered = TRUE]
          /\ thread' = [thread EXCEPT ![t] = NoThread]
          /\ UNCHANGED host
  /\ UNCHANGED <<operator, token, calls, fresh>>

\* The whole row is written back with a new token, and the client has it.
OpenSave(t) ==
  LET c == thread[t].of IN
  /\ thread[t].at = "open-save" /\ token < MaxTokens
  /\ token' = token + 1
  /\ host' = [thread[t].copy EXCEPT !.token = token + 1, !.hseq = 0, !.cseq = 0,
                                    !.connected = TRUE, !.expired = FALSE]
  /\ client' = [client EXCEPT ![c] = [@ EXCEPT !.at = "first-beat", !.token = token + 1,
                                              !.hseq = 0, !.cseq = 0]]
  /\ thread' = [thread EXCEPT ![t] = NoThread]
  /\ UNCHANGED <<operator, calls, fresh>>

\* Authenticate
Authentic(t) == host.state = "registered" /\ ~host.expired /\ host.token = thread[t].token

AuthenticateFails(t) ==
  /\ thread[t].at = "received" /\ ~Authentic(t)
  /\ Refuse(t)
  /\ UNCHANGED <<host, operator, token, calls, fresh>>

Authenticate(t) ==
  /\ thread[t].at = "received" /\ Authentic(t)
  /\ thread' = [thread EXCEPT ![t].copy = host, ![t].at = "parse"]
  /\ UNCHANGED <<host, client, operator, token, calls, fresh>>

\* ParseEncryptedBody compares with the copy and writes the copy back.
ParseFails(t) ==
  /\ thread[t].at = "parse" /\ thread[t].seq <= thread[t].copy.hseq
  /\ Refuse(t)
  /\ UNCHANGED <<host, operator, token, calls, fresh>>

ParseEncryptedBody(t) ==
  LET copy == [thread[t].copy EXCEPT !.hseq = thread[t].seq, !.expired = FALSE] IN
  /\ thread[t].at = "parse" /\ thread[t].seq > thread[t].copy.hseq
  /\ host' = copy
  /\ thread' = [thread EXCEPT ![t].copy = copy,
                              ![t].at = IF thread[t].beat THEN "beat" ELSE "answer"]
  /\ UNCHANGED <<client, operator, token, calls, fresh>>

\* HandleSessionHeartbeat writes its copy a second time.
HandleSessionHeartbeat(t) ==
  /\ thread[t].at = "beat"
  /\ host' = [thread[t].copy EXCEPT !.connected = TRUE]
  /\ thread' = [thread EXCEPT ![t].at = "answer", ![t].copy.connected = TRUE]
  /\ UNCHANGED <<client, operator, token, calls, fresh>>

\* EncryptedResponse takes the latest row if it is still of this session, ...
ResponseLoad(t) ==
  /\ thread[t].at = "answer"
  /\ thread' = [thread EXCEPT ![t].at = "answer-save",
                  ![t].persist = (host.token = thread[t].token),
                  ![t].copy = IF host.token = thread[t].token THEN host ELSE @]
  /\ UNCHANGED <<host, client, operator, token, calls, fresh>>

\* Mutant: the sequence number of a response is not written back.
ResponseNotSaved(t) ==
  LET c == thread[t].of  seq == thread[t].copy.cseq + 1 IN
  /\ thread[t].at = "answer-save"
  /\ host' = host
  /\ fresh' = (fresh /\ (Waits(t) => seq > client[c].cseq))
  /\ client' = IF ~Waits(t) THEN client
               ELSE IF seq <= client[c].cseq THEN [client EXCEPT ![c] = AfterError(c)]
               ELSE [client EXCEPT ![c] = [AfterOk(c) EXCEPT !.cseq = seq]]
  /\ thread' = [thread EXCEPT ![t] = NoThread]
  /\ UNCHANGED <<operator, token, calls>>

\* ... counts the response and saves; the client refuses a number it had.
ResponseSave(t) ==
  LET c == thread[t].of  seq == thread[t].copy.cseq + 1 IN
  /\ thread[t].at = "answer-save"
  /\ host' = IF thread[t].persist THEN [thread[t].copy EXCEPT !.cseq = seq] ELSE host
  /\ fresh' = (fresh /\ (Waits(t) => seq > client[c].cseq))
  /\ client' = IF ~Waits(t) THEN client
               ELSE IF seq <= client[c].cseq THEN [client EXCEPT ![c] = AfterError(c)]
               ELSE [client EXCEPT ![c] = [AfterOk(c) EXCEPT !.cseq = seq]]
  /\ thread' = [thread EXCEPT ![t] = NoThread]
  /\ UNCHANGED <<operator, token, calls>>

-----------------------------------------------------------------------------
(* Operator commands of HostRegistryService: load, change, write back.      *)

\* What a command makes of the row, and when it refuses.
Allowed(cmd) == cmd = "reset-onboarding" => ~host.connected

Changed(cmd, h) ==
  CASE cmd = "revoke" -> [h EXCEPT !.state = "revoked", !.connected = FALSE, !.token = 0,
                                   !.hseq = 0, !.cseq = 0, !.expired = FALSE]
    [] cmd = "rotate-key" -> [h EXCEPT !.state = "registered", !.key = TRUE,
                                       !.connected = FALSE, !.token = 0,
                                       !.hseq = 0, !.cseq = 0, !.expired = FALSE]
    [] cmd = "reset-onboarding" -> [NoHost EXCEPT !.state = "provisioned", !.key = FALSE,
                                                  !.onboarding = TRUE]
    [] cmd = "storage-role" -> [h EXCEPT !.storage = TRUE]

CommandLoad(cmd) ==
  /\ operator.cmd = "none" /\ Allowed(cmd)
  /\ cmd \notin operator.given
  /\ operator' = [cmd |-> cmd, copy |-> host, given |-> operator.given \cup {cmd}]
  /\ UNCHANGED <<host, client, thread, token, calls, fresh>>

CommandSave ==
  /\ operator.cmd # "none"
  /\ host' = Changed(operator.cmd, operator.copy)
  /\ operator' = [NoCommand EXCEPT !.given = operator.given]
  /\ UNCHANGED <<client, thread, token, calls, fresh>>

\* session_expires_at passes.
SessionExpires ==
  /\ host.token # 0 /\ ~host.expired
  /\ host' = [host EXCEPT !.expired = TRUE]
  /\ UNCHANGED <<client, thread, operator, token, calls, fresh>>

\* A step of a controller thread.
Serve(t) ==
  \/ OpenLoad(t) \/ OpenRegisters(t) \/ OpenSave(t)
  \/ AuthenticateFails(t) \/ Authenticate(t)
  \/ ParseFails(t) \/ ParseEncryptedBody(t)
  \/ HandleSessionHeartbeat(t)
  \/ ResponseLoad(t) \/ ResponseSave(t)

Next ==
  \/ \E c \in Clients : Call(c) \/ GiveUp(c)
  \/ \E c \in Clients, t \in Threads : Send(c, t) \/ SendOpen(c, t)
  \/ \E t \in Threads : Serve(t)
  \/ \E cmd \in Commands : CommandLoad(cmd)
  \/ CommandSave
  \/ SessionExpires

Spec == Init /\ [][Next]_vars

\* The processes go on and the controller serves every request it received.
Fairness ==
  /\ \A c \in Clients, t \in Threads : WF_vars(Send(c, t)) /\ WF_vars(SendOpen(c, t))
  /\ \A t \in Threads : WF_vars(Serve(t))

FairSpec == Spec /\ Fairness

-----------------------------------------------------------------------------
\* The type invariant: every row, message and counter of a session has its type.
TypeOK ==
  /\ host.state \in {"registered", "revoked", "provisioned"}
  /\ host.token \in 0..token /\ token \in 0..MaxTokens
  /\ \A c \in Clients : /\ client[c].token \in 0..token
                        /\ client[c].attempts \in 0..(MaxAttempts - 1)
  /\ \A t \in Threads : thread[t].copy.token \in 0..token

\* As long as clients wait for their answers and no operator interferes, no
\* client is ever given a response whose sequence number it has already seen
\* ("stale or replayed controller session response"), although the processes
\* of a node take the session from each other and rows are written back whole.
ResponsesAreFresh == (Commands = {} /\ ~Timeouts) => fresh

\* Every call of a client comes to its end, with or without success: two
\* processes do not take the session of the node from each other for ever.
CallEnds == \A c \in Clients : client[c].at # "idle" ~> client[c].at = "idle"
=============================================================================
