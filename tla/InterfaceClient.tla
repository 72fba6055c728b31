---------------------------- MODULE InterfaceClient ----------------------------
(***************************************************************************)
(* node/src/interface_client.{h,cpp}: one client per oracle interface.     *)
(* Caller threads run query(); it enqueues a request whose callback writes *)
(* into the caller's stack frame, and blocks on that frame.  One worker    *)
(* thread takes the requests in order and exchanges each for a reply over  *)
(* one TCP connection.  One thread runs stop().                            *)
(*                                                                         *)
(* _queueMutex is held across two steps only by the worker, between a      *)
(* false wait predicate and the moment it is registered with               *)
(* _queueCondition (wpc = "toblock"); every other critical section is one  *)
(* step.  _connectionMutex is only taken by the worker while it runs, so   *)
(* it is left out; stop() takes it after the join.                         *)
(***************************************************************************)
EXTENDS Integers, Sequences, FiniteSets

CONSTANTS Callers,           \* threads that call query()
          QueryIds,          \* oracleQueryId of the packets they send
          Timeouts,          \* timeout_ms; 0 waits indefinitely
          MAX_SEND_RETRIES,
          ErrorFlags,        \* oracleMachineErrorFlags of a reply
          MaxQueries,        \* bound on the requests that are numbered
          None               \* no reply, no request, no frame

ASSUME ClientAssumption ==
    /\ Timeouts \subseteq Nat
    /\ MAX_SEND_RETRIES \in Nat
    /\ MaxQueries \in Nat

Request == [id : Nat, caller : Callers, queryId : QueryIds]
Reply   == [id : Nat, queryId : QueryIds, error : ErrorFlags]
Packet  == [id : Nat, queryId : QueryIds]

Frame == [id : Nat, queryId : QueryIds, timeout : Timeouts,
          completed : BOOLEAN, success : BOOLEAN, fetchedResult : Reply \cup {None}]

ASSUME NoneAssumption == None \notin Reply /\ None \notin Request /\ None \notin Frame

VARIABLES
    _running, _requestID, _requestQueue,
    wpc, request, attempt, success, result,  \* the worker and its locals
    session,                                 \* _session: none, active, inactive
    peer, inbox, outbox,                     \* far end; bytes to and from it
    cpc, frame, ret,                         \* callers, their frames, what query returned
    spc,                                     \* the thread that starts and stops
    skew, asked,                             \* history of this connection: header reads
                                             \* that timed out, requests that were sent
    missed,                                  \* history: stop's last notify came
                                             \* while the worker was about to block
    ub                                       \* history: undefined behaviour executed

queueVars  == <<_requestID, _requestQueue>>
workerVars == <<wpc, request, attempt, success, result>>
connVars   == <<session, peer, inbox, outbox, skew, asked>>
callerVars == <<cpc, frame, ret>>
vars == <<_running, queueVars, workerVars, connVars, callerVars, spc, missed, ub>>

WorkerPC == {"none", "top", "lock", "toblock", "blocked", "woken", "connect", "dial",
             "send", "header", "payload", "callback", "hung", "exited"}
CallerPC == {"idle", "enqueue", "push", "notify", "wait", "returned"}
StopPC   == {"down", "up", "fsNotify", "fsTest", "fsUse", "signal", "join", "clear", "stopped"}

Processing == {"connect", "dial", "send", "header", "payload", "callback"}

QueueOK ==
    /\ _running \in BOOLEAN
    /\ _requestID \in Nat
    /\ _requestQueue \in Seq(Request)

WorkerOK ==
    /\ wpc \in WorkerPC
    /\ request \in Request \cup {None}
    /\ wpc \in Processing => request # None
    /\ attempt \in 0..MAX_SEND_RETRIES
    /\ success \in BOOLEAN
    /\ result \in Reply \cup {None}

ConnOK ==
    /\ session \in {"none", "active", "inactive"}
    /\ peer \in {"open", "closed"}
    /\ inbox \in Seq(Packet)
    /\ outbox \in Seq(Reply)
    /\ skew \in Nat
    /\ asked \in Seq(Nat)

CallerOK ==
    /\ cpc \in [Callers -> CallerPC]
    /\ frame \in [Callers -> Frame \cup {None}]
    /\ \A t \in Callers : cpc[t] # "idle" => frame[t] # None
    /\ ret \in [Callers -> Reply \cup {None}]

StopOK ==
    /\ spc \in StopPC
    /\ missed \in BOOLEAN
    /\ ub \subseteq {"frame", "session"}

TypeOK == QueueOK /\ WorkerOK /\ ConnOK /\ CallerOK /\ StopOK

FreshFrame(q, timeout) ==
    [id |-> 0, queryId |-> q, timeout |-> timeout,
     completed |-> FALSE, success |-> FALSE, fetchedResult |-> None]

\* What the callback writes into the frame it was created with.
Signalled(f, callbackSuccess, reply) ==
    [f EXCEPT !.completed = TRUE, !.success = callbackSuccess, !.fetchedResult = reply]

Init ==
    /\ _running = FALSE /\ _requestID = 1 /\ _requestQueue = <<>>
    /\ wpc = "none" /\ request = None /\ attempt = 0 /\ success = FALSE
    /\ result = None
    /\ session = "none" /\ peer = "closed" /\ inbox = <<>> /\ outbox = <<>>
    /\ skew = 0 /\ asked = <<>>
    /\ cpc = [t \in Callers |-> "idle"]
    /\ frame = [t \in Callers |-> None]
    /\ ret = [t \in Callers |-> None]
    /\ spc = "down" /\ missed = FALSE /\ ub = {}

\* The connection ends, and what was under way on it is gone.
Close ==
    /\ session' = "inactive" /\ peer' = "closed"
    /\ inbox' = <<>> /\ outbox' = <<>>

QueueMutexFree == wpc # "toblock"

\* notify_one and notify_all are the same: the worker is the only waiter.
Notified == IF wpc = "blocked" THEN "woken" ELSE wpc
-------------------------------------------------------------------------------
(* Callers: query() and, inside it, queryAsync() *)

\* The entry of query(): refuse, or open a frame.
QueryEnter(t, q, timeout) ==
    /\ cpc[t] = "idle"
    /\ _requestID + Cardinality({c \in Callers : cpc[c] = "enqueue"}) <= MaxQueries
    /\ frame' = [frame EXCEPT ![t] = FreshFrame(q, timeout)]
    /\ cpc' = [cpc EXCEPT ![t] = IF _running THEN "enqueue" ELSE "returned"]
    /\ UNCHANGED <<_running, queueVars, workerVars, connVars, ret, spc, missed, ub>>

\* queryAsync tests _running again: call back at once with failure, or number
\* the request.
AsyncCheck(t) ==
    /\ cpc[t] = "enqueue"
    /\ \/ /\ ~_running
          /\ frame' = [frame EXCEPT ![t] = Signalled(@, FALSE, None)]
          /\ cpc' = [cpc EXCEPT ![t] = "wait"]
          /\ UNCHANGED _requestID
       \/ /\ _running
          /\ frame' = [frame EXCEPT ![t].id = _requestID]
          /\ _requestID' = _requestID + 1
          /\ cpc' = [cpc EXCEPT ![t] = "push"]
    /\ UNCHANGED <<_running, _requestQueue, workerVars, connVars, ret, spc, missed, ub>>

\* Mutant: the push does not take _queueMutex.
AsyncPushUnlocked(t) ==
    /\ cpc[t] = "push"
    /\ _requestQueue' = Append(_requestQueue,
                               [id |-> frame[t].id, caller |-> t, queryId |-> frame[t].queryId])
    /\ cpc' = [cpc EXCEPT ![t] = "notify"]
    /\ UNCHANGED <<_running, _requestID, workerVars, connVars, frame, ret, spc, missed, ub>>

AsyncPush(t) ==
    /\ cpc[t] = "push"
    /\ QueueMutexFree
    /\ _requestQueue' = Append(_requestQueue,
                               [id |-> frame[t].id, caller |-> t, queryId |-> frame[t].queryId])
    /\ cpc' = [cpc EXCEPT ![t] = "notify"]
    /\ UNCHANGED <<_running, _requestID, workerVars, connVars, frame, ret, spc, missed, ub>>

AsyncNotify(t) ==
    /\ cpc[t] = "notify"
    /\ wpc' = Notified
    /\ cpc' = [cpc EXCEPT ![t] = "wait"]
    /\ UNCHANGED <<_running, queueVars, request, attempt, success, result, connVars, frame, ret,
                   spc, missed, ub>>

QueryComplete(t) ==
    /\ cpc[t] = "wait"
    /\ frame[t].completed
    /\ ret' = [ret EXCEPT ![t] = IF frame[t].success THEN frame[t].fetchedResult ELSE None]
    /\ frame' = [frame EXCEPT ![t] = FreshFrame(frame[t].queryId, frame[t].timeout)]
    /\ cpc' = [cpc EXCEPT ![t] = "returned"]
    /\ UNCHANGED <<_running, queueVars, workerVars, connVars, spc, missed, ub>>

QueryTimeout(t) ==
    /\ cpc[t] = "wait"
    /\ frame[t].timeout > 0
    /\ ~frame[t].completed
    /\ frame' = [frame EXCEPT ![t] = FreshFrame(frame[t].queryId, frame[t].timeout)]
    /\ cpc' = [cpc EXCEPT ![t] = "returned"]
    /\ UNCHANGED <<_running, queueVars, workerVars, connVars, ret, spc, missed, ub>>

\* The caller takes what query() returned and may call again.
CallerDone(t) ==
    /\ cpc[t] = "returned"
    /\ cpc' = [cpc EXCEPT ![t] = "idle"]
    /\ frame' = [frame EXCEPT ![t] = None]
    /\ ret' = [ret EXCEPT ![t] = None]
    /\ UNCHANGED <<_running, queueVars, workerVars, connVars, spc, missed, ub>>

CallerStep(t) ==
    \/ AsyncCheck(t) \/ AsyncPush(t) \/ AsyncNotify(t)
    \/ QueryComplete(t) \/ QueryTimeout(t) \/ CallerDone(t)
-------------------------------------------------------------------------------
(* The worker: workerThread() *)

WorkerTop ==
    /\ wpc = "top"
    /\ wpc' = IF _running THEN "lock" ELSE "exited"
    /\ UNCHANGED <<_running, queueVars, request, attempt, success, result, connVars, callerVars,
                   spc, missed, ub>>

\* Mutant: the wait predicate forgets !_running.
WorkerWaitForever ==
    /\ wpc \in {"lock", "woken"}
    /\ _requestQueue = <<>>
    /\ wpc' = "toblock"
    /\ UNCHANGED <<_running, queueVars, request, attempt, success, result, connVars, callerVars,
                   spc, missed, ub>>

\* Under _queueMutex: the wait predicate is false, so the worker is going to block.
WorkerWait ==
    /\ wpc \in {"lock", "woken"}
    /\ _requestQueue = <<>> /\ _running
    /\ wpc' = "toblock"
    /\ UNCHANGED <<_running, queueVars, request, attempt, success, result, connVars, callerVars,
                   spc, missed, ub>>

\* Releases _queueMutex and joins the waiters of _queueCondition, atomically.
WorkerBlock ==
    /\ wpc = "toblock"
    /\ wpc' = "blocked"
    /\ UNCHANGED <<_running, queueVars, request, attempt, success, result, connVars, callerVars,
                   spc, missed, ub>>

WorkerBreak ==
    /\ wpc \in {"lock", "woken"}
    /\ _requestQueue = <<>> /\ ~_running
    /\ wpc' = "exited"
    /\ UNCHANGED <<_running, queueVars, request, attempt, success, result, connVars, callerVars,
                   spc, missed, ub>>

\* Takes the front request, running or not, and enters processQueryRequest.
WorkerTake ==
    /\ wpc \in {"lock", "woken"}
    /\ _requestQueue # <<>>
    /\ request' = Head(_requestQueue)
    /\ _requestQueue' = Tail(_requestQueue)
    /\ wpc' = "connect"
    /\ UNCHANGED <<_running, _requestID, attempt, success, result, connVars, callerVars, spc, missed, ub>>

\* connect(): keep an active session, or destroy what is there and dial.
\* Destroying it between forceShutdown's test of _session and its use of it is
\* a use after free.
WorkerConnect ==
    /\ wpc = "connect"
    /\ \/ /\ session = "active"
          /\ wpc' = "send"
          /\ UNCHANGED <<session, skew, asked, ub>>
       \/ /\ session # "active"
          /\ session' = "none" /\ skew' = 0 /\ asked' = <<>>
          /\ wpc' = "dial"
          /\ ub' = IF session = "inactive" /\ spc = "fsUse" THEN ub \cup {"session"} ELSE ub
    /\ UNCHANGED <<_running, queueVars, request, attempt, success, result, peer, inbox, outbox,
                   callerVars, spc, missed>>

\* TcpClient::connect: one of the addresses of the host answers within
\* CONNECT_TIMEOUT_MS.
TcpConnected ==
    /\ session' = "active" /\ peer' = "open"
    /\ UNCHANGED <<inbox, outbox, skew, asked>>

\* No address does, or the timeouts of the socket cannot be set.
WorkerDial ==
    /\ wpc = "dial"
    /\ \/ wpc' = "send" /\ TcpConnected
       \/ wpc' = "callback" /\ UNCHANGED connVars
    /\ UNCHANGED <<_running, queueVars, request, attempt, success, result, callerVars, spc,
                   missed, ub>>

\* Mutant: the last attempt is counted once too often.
SendFailedLate ==
    /\ IF attempt <= MAX_SEND_RETRIES
       THEN attempt' = attempt + 1 /\ wpc' = "connect"
       ELSE UNCHANGED attempt /\ wpc' = "callback"
    /\ Close
    /\ UNCHANGED asked

\* sendAndReceive returned 0: connect again, unless the attempts are used up.
SendFailed ==
    /\ IF attempt < MAX_SEND_RETRIES
       THEN attempt' = attempt + 1 /\ wpc' = "connect"
       ELSE UNCHANGED attempt /\ wpc' = "callback"
    /\ Close
    /\ UNCHANGED asked

\* A send to a peer that has closed may still succeed: the bytes are dropped.
SendDone ==
    /\ session = "active"
    /\ inbox' = IF peer = "open"
                THEN Append(inbox, [id |-> request.id, queryId |-> request.queryId])
                ELSE inbox
    /\ asked' = Append(asked, request.id)
    /\ wpc' = "header"
    /\ UNCHANGED <<attempt, session, peer, outbox>>

WorkerSend ==
    /\ wpc = "send"
    /\ \/ SendDone
       \/ SendFailed
    /\ UNCHANGED <<_running, queueVars, request, success, result, skew,
                   callerVars, spc, missed, ub>>

\* A reply's header is there to be read.
HeaderRead ==
    /\ session = "active" /\ outbox # <<>>
    /\ wpc' = "payload"
    /\ UNCHANGED connVars

\* IO_TIMEOUT_MS passes: the request fails and the session stays active.
HeaderTimeout ==
    /\ session = "active" /\ outbox = <<>> /\ peer = "open"
    /\ wpc' = "callback"
    /\ skew' = skew + 1
    /\ UNCHANGED <<session, peer, inbox, outbox, asked>>

\* The peer closed, or forceShutdown ended the session.
HeaderLost ==
    /\ session # "active" \/ (outbox = <<>> /\ peer = "closed")
    /\ wpc' = "callback"
    /\ Close
    /\ UNCHANGED <<skew, asked>>

WorkerHeader ==
    /\ wpc = "header"
    /\ HeaderRead \/ HeaderTimeout \/ HeaderLost
    /\ UNCHANGED <<_running, queueVars, request, attempt, success, result,
                   callerVars, spc, missed, ub>>

\* Mutant: a reply that cannot be read leaves the session open.
PayloadFailedOpen == UNCHANGED <<session, peer, inbox, outbox, success, result>>

\* A refused size, a short read or a lost connection.
PayloadFailed ==
    /\ Close
    /\ UNCHANGED <<success, result>>

\* Mutant: the reply that was read stays in the stream.
PayloadPeeked ==
    /\ session = "active" /\ outbox # <<>>
    /\ success' = TRUE /\ result' = Head(outbox)
    /\ UNCHANGED <<session, peer, inbox, outbox>>

PayloadRead ==
    /\ session = "active" /\ outbox # <<>>
    /\ success' = TRUE /\ result' = Head(outbox)
    /\ outbox' = Tail(outbox)
    /\ UNCHANGED <<session, peer, inbox>>

WorkerPayload ==
    /\ wpc = "payload"
    /\ PayloadRead \/ PayloadFailed
    /\ wpc' = "callback"
    /\ UNCHANGED <<_running, queueVars, request, attempt, skew, asked, callerVars, spc, missed, ub>>

\* The frame the callback of request r writes into still belongs to r.
FrameAlive(r) ==
    cpc[r.caller] \in {"push", "notify", "wait"} /\ frame[r.caller].id = r.id

CallbackInTime ==
    /\ FrameAlive(request)
    /\ frame' = [frame EXCEPT ![request.caller] = Signalled(@, success, result)]
    /\ wpc' = "top"
    /\ UNCHANGED ub

\* query() returned on its timeout and took the mutex, the condition variable
\* and the result with it: the callback writes into dead stack.  It may go
\* unnoticed, hit the frame of a later query of the same thread, or never return
\* from locking what used to be resultMutex.
CallbackTooLate ==
    /\ ~FrameAlive(request)
    /\ \/ wpc' = "top" /\ UNCHANGED frame
       \/ /\ cpc[request.caller] \in {"enqueue", "push", "notify", "wait"}
          /\ frame' = [frame EXCEPT ![request.caller] = Signalled(@, success, result)]
          /\ wpc' = "top"
       \/ wpc' = "hung" /\ UNCHANGED frame
    /\ ub' = ub \cup {"frame"}

WorkerCallback ==
    /\ wpc = "callback"
    /\ CallbackInTime \/ CallbackTooLate
    /\ request' = None /\ attempt' = 0 /\ success' = FALSE /\ result' = None
    /\ UNCHANGED <<_running, queueVars, connVars, cpc, ret,
                   spc, missed>>

WorkerStep ==
    \/ WorkerTop \/ WorkerWait \/ WorkerBlock \/ WorkerBreak \/ WorkerTake
    \/ WorkerConnect \/ WorkerDial \/ WorkerSend \/ WorkerHeader \/ WorkerPayload
    \/ WorkerCallback

\* condition_variable::wait may return without a notify.
SpuriousWakeup ==
    /\ wpc = "blocked"
    /\ wpc' = "woken"
    /\ UNCHANGED <<_running, queueVars, request, attempt, success, result, connVars, callerVars,
                   spc, missed, ub>>
-------------------------------------------------------------------------------
(* start() and stop() *)

\* OracleMachine starts each client once; a stopped client is not restarted.
Start ==
    /\ spc = "down"
    /\ _running' = TRUE
    /\ wpc' = "top"
    /\ spc' = "up"
    /\ UNCHANGED <<queueVars, request, attempt, success, result, connVars, callerVars, missed, ub>>

\* stop() calls forceShutdown(), which first clears _running ...
StopEnter ==
    /\ spc = "up"
    /\ _running' = FALSE
    /\ spc' = "fsNotify"
    /\ UNCHANGED <<queueVars, workerVars, connVars, callerVars, missed, ub>>

\* ... then notifies, without having held _queueMutex ...
StopForceNotify ==
    /\ spc = "fsNotify"
    /\ wpc' = Notified
    /\ spc' = "fsTest"
    /\ UNCHANGED <<_running, queueVars, request, attempt, success, result, connVars, callerVars,
                   missed, ub>>

\* ... and tests _session and uses it, without _connectionMutex.
StopForceTest ==
    /\ spc = "fsTest"
    /\ spc' = IF session = "none" THEN "signal" ELSE "fsUse"
    /\ UNCHANGED <<_running, queueVars, workerVars, connVars, callerVars, missed, ub>>

\* On a session that was destroyed meanwhile the call goes to freed memory: it
\* may do nothing or shut down the connection that took its place.
StopForceUse ==
    /\ spc = "fsUse"
    /\ \/ session = "active" /\ Close
       \/ /\ session # "active" \/ "session" \in ub
          /\ UNCHANGED <<session, peer, inbox, outbox>>
    /\ spc' = "signal"
    /\ UNCHANGED <<_running, queueVars, workerVars, skew, asked, callerVars, missed, ub>>

\* Back in stop(): clear _running again and notify, again without _queueMutex.
StopSignal ==
    /\ spc = "signal"
    /\ _running' = FALSE
    /\ missed' = (wpc = "toblock")
    /\ wpc' = Notified
    /\ spc' = "join"
    /\ UNCHANGED <<queueVars, request, attempt, success, result, connVars, callerVars, ub>>

StopJoin ==
    /\ spc = "join"
    /\ wpc = "exited"
    /\ spc' = "clear"
    /\ UNCHANGED <<_running, queueVars, workerVars, connVars, callerVars, missed, ub>>

\* Drops the requests that were not served, without calling them back, and
\* disconnects.
StopClear ==
    /\ spc = "clear"
    /\ _requestQueue' = <<>>
    /\ session' = "none" /\ peer' = "closed" /\ inbox' = <<>> /\ outbox' = <<>>
    /\ skew' = 0 /\ asked' = <<>>
    /\ spc' = "stopped"
    /\ UNCHANGED <<_running, _requestID, workerVars, callerVars, missed, ub>>

StopStep ==
    \/ StopForceNotify \/ StopForceTest \/ StopForceUse \/ StopSignal \/ StopJoin \/ StopClear
-------------------------------------------------------------------------------
(* The service at the other end: the sessions of OracleSession, seen from here.  It takes *)
(* the queries in order and replies to each or skips it, until it closes.                *)

ServiceReply ==
    /\ session = "active" /\ peer = "open" /\ inbox # <<>>
    /\ \E error \in ErrorFlags :
           outbox' = Append(outbox, [id |-> Head(inbox).id, queryId |-> Head(inbox).queryId,
                                     error |-> error])
    /\ inbox' = Tail(inbox)
    /\ UNCHANGED <<_running, queueVars, workerVars, session, peer, skew, asked, callerVars, spc,
                   missed, ub>>

\* A query of a type, a size or an interface that is not the service's gets no reply.
ServiceSkip ==
    /\ session = "active" /\ peer = "open" /\ inbox # <<>>
    /\ inbox' = Tail(inbox)
    /\ UNCHANGED <<_running, queueVars, workerVars, session, peer, outbox, skew, asked,
                   callerVars, spc, missed, ub>>

\* A reset also discards the replies that were not read yet.
ServiceClose ==
    /\ session = "active" /\ peer = "open"
    /\ peer' = "closed" /\ inbox' = <<>>
    /\ outbox' \in {outbox, <<>>}
    /\ UNCHANGED <<_running, queueVars, workerVars, session, skew, asked, callerVars, spc,
                   missed, ub>>

Query(t) == \E q \in QueryIds, timeout \in Timeouts : QueryEnter(t, q, timeout)

Next ==
    \/ \E t \in Callers : Query(t) \/ CallerStep(t)
    \/ WorkerStep \/ SpuriousWakeup
    \/ Start \/ StopEnter \/ StopStep
    \/ ServiceReply \/ ServiceSkip \/ ServiceClose

Spec == Init /\ [][Next]_vars

\* Every thread that can run does run, waits with a timeout end, and a thread
\* that waits for _queueMutex gets it if it is free again and again.  The
\* service, the environment's calls and spurious wake-ups are not fair.
FairSpec ==
    /\ Spec
    /\ \A t \in Callers : WF_vars(CallerStep(t)) /\ SF_vars(AsyncPush(t))
    /\ WF_vars(WorkerStep)
    /\ WF_vars(StopStep)
-------------------------------------------------------------------------------
(* Properties *)

\* The worker is never asleep on a non-empty queue unless the notify of the
\* request is still to come: the push excludes the gap between the wait
\* predicate and the wait (queryAsync and workerThread share _queueMutex).
NoLostRequest ==
    wpc = "blocked" /\ _requestQueue # <<>> => \E t \in Callers : cpc[t] = "notify"

\* On a connection where no header read timed out, the reply a request is
\* given is the service's reply to that request and to no other, across
\* reconnects, retries and replies that could not be read (sendAndReceive).
AlignedReply ==
    wpc = "callback" /\ success /\ skew = 0 => result.id = request.id

\* A header read that times out leaves the session active and the reply in the
\* stream, for a later request to be given.  It is never older than the time-outs
\* of the connection allow: after n of them a request that succeeds has the reply to
\* one of the last n + 1 requests sent, its own among them, however many queries
\* the service has skipped (sendAndReceive returns without close()).
LagBoundedByTimeouts ==
    wpc = "callback" /\ success =>
        \E lag \in 0..skew : lag < Len(asked) /\ result.id = asked[Len(asked) - lag]

\* What the comments promise and the code does not always do.

\* interface_client.cpp "Create callback that signals completion": a callback
\* signals the query() that created it.
CallbackSignalsItsQuery == "frame" \notin ub

\* interface_client.cpp "Thread-safe force shutdown": the session forceShutdown()
\* uses is the one it has tested.
ForceShutdownIsThreadSafe == "session" \notin ub

\* interface_client.cpp "Wait for worker thread to finish": once stop() has
\* signalled the worker, the wait ends.
StopAlwaysReturns == spc = "join" ~> spc = "stopped"
===============================================================================
