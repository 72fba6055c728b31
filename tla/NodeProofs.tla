------------------------------- MODULE NodeProofs ------------------------------
(***************************************************************************)
(* InterfaceClient for any callers, query ids, timeouts and numbers of     *)
(* retries and requests: the worker never sleeps on a request that was     *)
(* announced, a connection without a timed out read never hands a request  *)
(* the reply to another, and each timed out read adds at most one request  *)
(* to what a reply may lag behind.                                         *)
(*                                                                         *)
(* The oracle machine for any sessions, query ids, interfaces and          *)
(* timeouts: it uses its client as InterfaceClient expects it, the cache   *)
(* holds replies to its own keys only, and core nodes get what             *)
(* QueryService promises, although the client hands out late replies.      *)
(***************************************************************************)
EXTENDS OracleMachineNode, TLAPS
-------------------------------------------------------------------------------
(* InterfaceClient *)

\* The wait predicate was false when the worker went to sleep, and the mutex
\* keeps the queue as it was until it does.
Waiting ==
    /\ wpc = "toblock" => _requestQueue = <<>>
    /\ NoLostRequest

\* On a connection without a timed out read, the only packet or reply under way
\* is that of the request the worker waits for.
Aligned ==
    /\ session # "active" => inbox = <<>> /\ outbox = <<>>
    /\ session = "active" /\ skew = 0 =>
           /\ wpc \notin {"header", "payload"} => inbox = <<>> /\ outbox = <<>>
           /\ inbox # <<>> => Len(inbox) = 1 /\ outbox = <<>> /\ inbox[1].id = request.id
           /\ outbox # <<>> => Len(outbox) = 1 /\ outbox[1].id = request.id
    /\ wpc # "callback" => ~success
    /\ AlignedReply

\* The worker runs from start() to the join of stop().
Stages ==
    /\ spc = "down" => wpc = "none"
    /\ spc \in {"clear", "stopped"} => wpc = "exited"

\* The inductive invariant.
IInv == TypeOK /\ Waiting /\ Aligned /\ Stages

\* The empty stream.
LEMMA EmptySeqType == ASSUME NEW S PROVE <<>> \in Seq(S)
OBVIOUS

\* Taking from a sequence.
LEMMA TailType ==
    ASSUME NEW S, NEW s \in Seq(S), s # <<>>
    PROVE  Head(s) \in S /\ Tail(s) \in Seq(S)
OBVIOUS

\* query() opens a well formed frame.
LEMMA FreshFrameType ==
    ASSUME NEW q \in QueryIds, NEW timeout \in Timeouts
    PROVE  FreshFrame(q, timeout) \in Frame
BY DEF FreshFrame, Frame

\* The callback leaves a well formed frame.
LEMMA SignalledType ==
    ASSUME NEW f \in Frame, NEW s \in BOOLEAN, NEW r \in Reply \cup {None}
    PROVE  Signalled(f, s, r) \in Frame
BY Zenon DEF Signalled, Frame

\* Every step preserves the types.
LEMMA TypeInduction == TypeOK /\ [Next]_vars => TypeOK'
<1> SUFFICES ASSUME TypeOK, [Next]_vars PROVE TypeOK'
    OBVIOUS
<1> USE ClientAssumption, NoneAssumption
    DEF TypeOK, queueVars, workerVars, connVars, callerVars
<1>1. ASSUME NEW t \in Callers, NEW q \in QueryIds, NEW timeout \in Timeouts,
             QueryEnter(t, q, timeout)
      PROVE TypeOK'
  <2>1. CallerOK'
    BY <1>1, FreshFrameType DEF QueryEnter, CallerOK, CallerPC
  <2> QED
    BY <1>1, <2>1 DEF QueryEnter, QueueOK, WorkerOK, ConnOK, StopOK
<1>2. ASSUME NEW t \in Callers, AsyncCheck(t) PROVE TypeOK'
  <2>1. QueueOK'
    BY <1>2 DEF AsyncCheck, Signalled, QueueOK
  <2>2. CallerOK'
    <3>1. frame[t] \in Frame
      BY <1>2 DEF AsyncCheck, CallerOK
    <3>2. Signalled(frame[t], FALSE, None) \in Frame
      BY <3>1, SignalledType, Zenon
    <3>3. [frame[t] EXCEPT !.id = _requestID] \in Frame
      BY <3>1 DEF Frame, QueueOK
    <3> QED
      BY <1>2, <3>2, <3>3, Zenon DEF AsyncCheck, CallerOK, CallerPC
  <2> QED
    BY <1>2, <2>1, <2>2 DEF AsyncCheck, WorkerOK, ConnOK, StopOK
<1>3. ASSUME NEW t \in Callers, AsyncPush(t) PROVE TypeOK'
  <2>1. QueueOK'
    <3>1. frame[t] \in Frame
      BY <1>3 DEF AsyncPush, CallerOK
    <3>2. [id |-> frame[t].id, caller |-> t, queryId |-> frame[t].queryId] \in Request
      BY <3>1 DEF Frame, Request
    <3> QED
      BY <1>3, <3>2 DEF AsyncPush, QueueOK
  <2>2. CallerOK'
    BY <1>3 DEF AsyncPush, QueueMutexFree, CallerOK, CallerPC
  <2> QED
    BY <1>3, <2>1, <2>2 DEF AsyncPush, WorkerOK, ConnOK, StopOK
<1>4. ASSUME NEW t \in Callers, AsyncNotify(t) PROVE TypeOK'
  <2>1. WorkerOK'
    BY <1>4 DEF AsyncNotify, Notified, WorkerOK, WorkerPC, Processing
  <2>2. CallerOK'
    BY <1>4 DEF AsyncNotify, Notified, CallerOK, CallerPC
  <2> QED
    BY <1>4, <2>1, <2>2 DEF AsyncNotify, QueueOK, ConnOK, StopOK
<1>5. ASSUME NEW t \in Callers, QueryComplete(t) PROVE TypeOK'
  <2>1. CallerOK'
    <3>1. frame[t] \in Frame
      BY <1>5 DEF QueryComplete, CallerOK
    <3>2. FreshFrame(frame[t].queryId, frame[t].timeout) \in Frame
      BY <3>1, FreshFrameType, Zenon DEF Frame
    <3>3. frame[t].fetchedResult \in Reply \cup {None}
      BY <3>1 DEF Frame
    <3> QED
      BY <1>5, <3>2, <3>3 DEF QueryComplete, CallerOK, CallerPC
  <2> QED
    BY <1>5, <2>1 DEF QueryComplete, QueueOK, WorkerOK, ConnOK, StopOK
<1>6. ASSUME NEW t \in Callers, QueryTimeout(t) PROVE TypeOK'
  <2>1. CallerOK'
    <3>1. frame[t] \in Frame
      BY <1>6 DEF QueryTimeout, CallerOK
    <3>2. FreshFrame(frame[t].queryId, frame[t].timeout) \in Frame
      BY <3>1, FreshFrameType, Zenon DEF Frame
    <3> QED
      BY <1>6, <3>2 DEF QueryTimeout, CallerOK, CallerPC
  <2> QED
    BY <1>6, <2>1 DEF QueryTimeout, QueueOK, WorkerOK, ConnOK, StopOK
<1>7. ASSUME NEW t \in Callers, CallerDone(t) PROVE TypeOK'
  <2>1. CallerOK'
    BY <1>7 DEF CallerDone, CallerOK, CallerPC
  <2> QED
    BY <1>7, <2>1 DEF CallerDone, QueueOK, WorkerOK, ConnOK, StopOK
<1>8. CASE WorkerTop
  <2>1. WorkerOK'
    BY <1>8 DEF WorkerTop, WorkerOK, WorkerPC, Processing
  <2> QED
    BY <1>8, <2>1 DEF WorkerTop, QueueOK, ConnOK, CallerOK, StopOK
<1>9. CASE WorkerWait
  <2>1. WorkerOK'
    BY <1>9 DEF WorkerWait, WorkerOK, WorkerPC, Processing
  <2> QED
    BY <1>9, <2>1 DEF WorkerWait, QueueOK, ConnOK, CallerOK, StopOK
<1>10. CASE WorkerBlock
  <2>1. WorkerOK'
    BY <1>10 DEF WorkerBlock, WorkerOK, WorkerPC, Processing
  <2> QED
    BY <1>10, <2>1 DEF WorkerBlock, QueueOK, ConnOK, CallerOK, StopOK
<1>11. CASE WorkerBreak
  <2>1. WorkerOK'
    BY <1>11 DEF WorkerBreak, WorkerOK, WorkerPC, Processing
  <2> QED
    BY <1>11, <2>1 DEF WorkerBreak, QueueOK, ConnOK, CallerOK, StopOK
<1>12. CASE WorkerTake
  <2>1. QueueOK'
    BY <1>12 DEF WorkerTake, QueueOK
  <2>2. WorkerOK'
    BY <1>12 DEF WorkerTake, WorkerOK, QueueOK, WorkerPC, Processing
  <2> QED
    BY <1>12, <2>1, <2>2 DEF WorkerTake, ConnOK, CallerOK, StopOK
<1>13. CASE WorkerConnect
  <2>1. WorkerOK'
    BY <1>13 DEF WorkerConnect, WorkerOK, WorkerPC, Processing
  <2>2. ConnOK'
    <3>1. asked' \in Seq(Nat)
      BY <1>13, EmptySeqType, Zenon DEF WorkerConnect, ConnOK
    <3>2. session' \in {"none", "active"} /\ skew' \in Nat
      BY <1>13 DEF WorkerConnect, ConnOK
    <3> QED
      BY <1>13, <3>1, <3>2, Zenon DEF WorkerConnect, ConnOK
  <2>3. StopOK'
    BY <1>13, Zenon DEF WorkerConnect, StopOK, StopPC
  <2> QED
    BY <1>13, <2>1, <2>2, <2>3 DEF WorkerConnect, QueueOK, CallerOK
<1>14. CASE WorkerDial
  <2>1. WorkerOK'
    BY <1>14 DEF WorkerDial, TcpConnected, WorkerOK, WorkerPC, Processing
  <2>2. ConnOK'
    BY <1>14 DEF WorkerDial, TcpConnected, ConnOK
  <2> QED
    BY <1>14, <2>1, <2>2 DEF WorkerDial, TcpConnected, QueueOK, CallerOK, StopOK
<1>15. CASE WorkerSend
  <2>1. WorkerOK'
    BY <1>15 DEF WorkerSend, SendDone, SendFailed, Close, WorkerOK, WorkerPC, Processing
  <2>2. ConnOK'
    <3>1. [id |-> request.id, queryId |-> request.queryId] \in Packet
      BY <1>15 DEF WorkerSend, WorkerOK, Processing, Request, Packet
    <3>2. CASE SendDone
      <4>1. request.id \in Nat
        BY <1>15 DEF WorkerSend, WorkerOK, Processing, Request
      <4> QED
        BY <1>15, <3>1, <3>2, <4>1 DEF WorkerSend, SendDone, ConnOK
    <3>3. CASE SendFailed
      BY <1>15, <3>3, EmptySeqType DEF WorkerSend, SendFailed, Close, ConnOK
    <3> QED
      BY <1>15, <3>2, <3>3 DEF WorkerSend
  <2> QED
    BY <1>15, <2>1, <2>2 DEF WorkerSend, QueueOK, CallerOK, StopOK
<1>16. CASE WorkerHeader
  <2>1. WorkerOK'
    BY <1>16 DEF WorkerHeader, HeaderRead, HeaderTimeout, HeaderLost, Close, WorkerOK, WorkerPC, Processing
  <2>2. ConnOK'
    <3>1. CASE HeaderRead
      BY <3>1 DEF HeaderRead, ConnOK
    <3>2. CASE HeaderTimeout
      BY <3>2 DEF HeaderTimeout, ConnOK
    <3>3. CASE HeaderLost
      BY <3>3, EmptySeqType DEF HeaderLost, Close, ConnOK
    <3> QED
      BY <1>16, <3>1, <3>2, <3>3 DEF WorkerHeader
  <2> QED
    BY <1>16, <2>1, <2>2 DEF WorkerHeader, QueueOK, CallerOK, StopOK
<1>17. CASE WorkerPayload
  <2>1. WorkerOK'
    <3>1. CASE PayloadFailed
      BY <1>17, <3>1 DEF WorkerPayload, PayloadFailed, WorkerOK, WorkerPC, Processing
    <3>2. CASE PayloadRead
      <4>1. Head(outbox) \in Reply
        BY <3>2, TailType DEF PayloadRead, ConnOK
      <4> QED
        BY <1>17, <3>2, <4>1 DEF WorkerPayload, PayloadRead, WorkerOK, WorkerPC, Processing
    <3> QED
      BY <1>17, <3>1, <3>2 DEF WorkerPayload
  <2>2. ConnOK'
    <3>1. CASE PayloadFailed
      BY <1>17, <3>1, EmptySeqType DEF WorkerPayload, PayloadFailed, Close, ConnOK
    <3>2. CASE PayloadRead
      <4>1. Tail(outbox) \in Seq(Reply)
        BY <3>2, TailType DEF PayloadRead, ConnOK
      <4> QED
        BY <1>17, <3>2, <4>1 DEF WorkerPayload, PayloadRead, ConnOK
    <3> QED
      BY <1>17, <3>1, <3>2 DEF WorkerPayload
  <2> QED
    BY <1>17, <2>1, <2>2 DEF WorkerPayload, QueueOK, CallerOK, StopOK
<1>18. CASE WorkerCallback
  <2>1. WorkerOK'
    <3>1. /\ wpc' \in {"top", "hung"}
          /\ request' = None /\ attempt' = 0 /\ success' = FALSE /\ result' = None
      BY <1>18, Zenon DEF WorkerCallback, CallbackInTime, CallbackTooLate
    <3>2. 0 \in 0..MAX_SEND_RETRIES
      OBVIOUS
    <3>3. wpc' \in WorkerPC /\ wpc' \notin Processing
      BY <3>1 DEF WorkerPC, Processing
    <3> QED
      BY <3>1, <3>2, <3>3, Zenon DEF WorkerOK
  <2>2. CallerOK'
    <3>1. request.caller \in Callers
      BY <1>18 DEF WorkerCallback, WorkerOK, Processing, Request
    <3>2. CASE UNCHANGED frame
      BY <1>18, <3>2 DEF WorkerCallback, CallerOK
    <3>3. CASE /\ cpc[request.caller] # "idle"
               /\ frame' = [frame EXCEPT ![request.caller] = Signalled(@, success, result)]
      <4>1. Signalled(frame[request.caller], success, result) \in Frame
        BY <3>1, <3>3, SignalledType DEF CallerOK, WorkerOK
      <4> QED
        BY <1>18, <3>1, <3>3, <4>1 DEF WorkerCallback, CallerOK
    <3> QED
      BY <1>18, <3>2, <3>3 DEF WorkerCallback, CallbackInTime, CallbackTooLate, FrameAlive
  <2>3. StopOK'
    BY <1>18, Zenon DEF WorkerCallback, CallbackInTime, CallbackTooLate, StopOK
  <2> QED
    BY <1>18, <2>1, <2>2, <2>3 DEF WorkerCallback, QueueOK, ConnOK
<1>19. CASE SpuriousWakeup
  <2>1. WorkerOK'
    BY <1>19 DEF SpuriousWakeup, WorkerOK, WorkerPC, Processing
  <2> QED
    BY <1>19, <2>1 DEF SpuriousWakeup, QueueOK, ConnOK, CallerOK, StopOK
<1>20. CASE Start
  <2>1. QueueOK'
    BY <1>20 DEF Start, QueueOK
  <2>2. WorkerOK'
    BY <1>20 DEF Start, WorkerOK, WorkerPC, Processing
  <2>3. StopOK'
    BY <1>20 DEF Start, StopOK, StopPC
  <2> QED
    BY <1>20, <2>1, <2>2, <2>3 DEF Start, ConnOK, CallerOK
<1>21. CASE StopEnter
  <2>1. QueueOK'
    BY <1>21, Zenon DEF StopEnter, QueueOK
  <2>2. StopOK'
    BY <1>21 DEF StopEnter, StopOK, StopPC
  <2> QED
    BY <1>21, <2>1, <2>2 DEF StopEnter, WorkerOK, ConnOK, CallerOK
<1>22. CASE StopForceNotify
  <2>1. WorkerOK'
    BY <1>22 DEF StopForceNotify, Notified, WorkerOK, WorkerPC, Processing
  <2>2. StopOK'
    BY <1>22 DEF StopForceNotify, Notified, StopOK, StopPC
  <2> QED
    BY <1>22, <2>1, <2>2 DEF StopForceNotify, QueueOK, ConnOK, CallerOK
<1>23. CASE StopForceTest
  <2>1. StopOK'
    BY <1>23 DEF StopForceTest, StopOK, StopPC
  <2> QED
    BY <1>23, <2>1 DEF StopForceTest, QueueOK, WorkerOK, ConnOK, CallerOK
<1>24. CASE StopForceUse
  <2>1. ConnOK'
    <3>1. inbox' \in Seq(Packet) /\ outbox' \in Seq(Reply)
      BY <1>24, EmptySeqType, Zenon DEF StopForceUse, Close, ConnOK
    <3> QED
      BY <1>24, <3>1 DEF StopForceUse, Close, ConnOK
  <2>2. StopOK'
    BY <1>24 DEF StopForceUse, Close, StopOK, StopPC
  <2> QED
    BY <1>24, <2>1, <2>2 DEF StopForceUse, QueueOK, WorkerOK, CallerOK
<1>25. CASE StopSignal
  <2>1. QueueOK'
    BY <1>25, Zenon DEF StopSignal, Notified, QueueOK
  <2>2. WorkerOK'
    BY <1>25 DEF StopSignal, Notified, WorkerOK, WorkerPC, Processing
  <2>3. StopOK'
    BY <1>25 DEF StopSignal, Notified, StopOK, StopPC
  <2> QED
    BY <1>25, <2>1, <2>2, <2>3 DEF StopSignal, ConnOK, CallerOK
<1>26. CASE StopJoin
  <2>1. StopOK'
    BY <1>26 DEF StopJoin, StopOK, StopPC
  <2> QED
    BY <1>26, <2>1 DEF StopJoin, QueueOK, WorkerOK, ConnOK, CallerOK
<1>27. CASE StopClear
  <2>1. QueueOK'
    BY <1>27 DEF StopClear, QueueOK
  <2>2. ConnOK'
    BY <1>27, EmptySeqType DEF StopClear, ConnOK
  <2>3. StopOK'
    BY <1>27 DEF StopClear, StopOK, StopPC
  <2> QED
    BY <1>27, <2>1, <2>2, <2>3 DEF StopClear, WorkerOK, CallerOK
<1>28. CASE ServiceReply
  <2>1. ConnOK'
    <3>1. Head(inbox) \in Packet
      BY <1>28 DEF ServiceReply, ConnOK
    <3>2. \A error \in ErrorFlags :
             [id |-> Head(inbox).id, queryId |-> Head(inbox).queryId, error |-> error] \in Reply
      BY <3>1 DEF Packet, Reply
    <3> QED
      BY <1>28, <3>2 DEF ServiceReply, ConnOK
  <2> QED
    BY <1>28, <2>1 DEF ServiceReply, QueueOK, WorkerOK, CallerOK, StopOK
<1>29. CASE ServiceClose
  <2>1. ConnOK'
    BY <1>29, EmptySeqType, Zenon DEF ServiceClose, ConnOK
  <2> QED
    BY <1>29, <2>1 DEF ServiceClose, QueueOK, WorkerOK, CallerOK, StopOK
<1>31. CASE ServiceSkip
  <2>1. ConnOK'
    BY <1>31, TailType DEF ServiceSkip, ConnOK
  <2> QED
    BY <1>31, <2>1 DEF ServiceSkip, QueueOK, WorkerOK, CallerOK, StopOK
<1>30. CASE UNCHANGED vars
  BY <1>30 DEF vars, QueueOK, WorkerOK, ConnOK, CallerOK, StopOK
<1> QED
  BY <1>1, <1>2, <1>3, <1>4, <1>5, <1>6, <1>7, <1>8, <1>9, <1>10, <1>11, <1>12, Zenon,
     <1>13, <1>14, <1>15, <1>16, <1>17, <1>18, <1>19, <1>20, <1>21, <1>22, <1>23, <1>24,
     <1>25, <1>26, <1>27, <1>28, <1>29, <1>30, <1>31
     DEF Next, Query, CallerStep, WorkerStep, StopStep

\* The push holds the mutex, so it never falls between the worker's test of the
\* queue and its wait; one that follows the wait is followed by a notify.
LEMMA WaitingInduction == TypeOK /\ Waiting /\ [Next]_vars => Waiting'
<1> SUFFICES ASSUME TypeOK, Waiting, [Next]_vars PROVE Waiting'
    OBVIOUS
<1> USE DEF TypeOK, QueueOK, CallerOK, Waiting, NoLostRequest, queueVars, workerVars, connVars, callerVars
<1>1. ASSUME NEW t \in Callers, Query(t) PROVE Waiting'
  BY <1>1 DEF Query, QueryEnter, FreshFrame
<1>2. ASSUME NEW t \in Callers, AsyncCheck(t) PROVE Waiting'
  BY <1>2, Zenon DEF AsyncCheck
<1>3. ASSUME NEW t \in Callers, AsyncPush(t) PROVE Waiting'
  BY <1>3 DEF AsyncPush, QueueMutexFree
<1>4. ASSUME NEW t \in Callers, AsyncNotify(t) PROVE Waiting'
  BY <1>4 DEF AsyncNotify, Notified
<1>5. ASSUME NEW t \in Callers, QueryComplete(t) PROVE Waiting'
  BY <1>5 DEF QueryComplete, FreshFrame
<1>6. ASSUME NEW t \in Callers, QueryTimeout(t) PROVE Waiting'
  BY <1>6 DEF QueryTimeout, FreshFrame
<1>7. ASSUME NEW t \in Callers, CallerDone(t) PROVE Waiting'
  BY <1>7 DEF CallerDone
<1>8. CASE WorkerTop
  BY <1>8 DEF WorkerTop
<1>9. CASE WorkerWait
  BY <1>9 DEF WorkerWait
<1>10. CASE WorkerBlock
  BY <1>10 DEF WorkerBlock
<1>11. CASE WorkerBreak
  BY <1>11 DEF WorkerBreak
<1>12. CASE WorkerTake
  BY <1>12 DEF WorkerTake
<1>13. CASE WorkerConnect
  BY <1>13 DEF WorkerConnect
<1>14. CASE WorkerDial
  BY <1>14 DEF WorkerDial, TcpConnected
<1>15. CASE WorkerSend
  BY <1>15 DEF WorkerSend, SendDone, SendFailed, Close
<1>16. CASE WorkerHeader
  BY <1>16 DEF WorkerHeader, HeaderRead, HeaderTimeout, HeaderLost, Close
<1>17. CASE WorkerPayload
  BY <1>17 DEF WorkerPayload, PayloadRead, PayloadFailed, Close
<1>18. CASE WorkerCallback
  BY <1>18 DEF WorkerCallback, CallbackInTime, CallbackTooLate, FrameAlive
<1>19. CASE SpuriousWakeup
  BY <1>19 DEF SpuriousWakeup
<1>20. CASE Start
  BY <1>20 DEF Start
<1>21. CASE StopEnter
  BY <1>21 DEF StopEnter
<1>22. CASE StopForceNotify
  BY <1>22 DEF StopForceNotify, Notified
<1>23. CASE StopForceTest
  BY <1>23 DEF StopForceTest
<1>24. CASE StopForceUse
  BY <1>24 DEF StopForceUse, Close
<1>25. CASE StopSignal
  BY <1>25 DEF StopSignal, Notified
<1>26. CASE StopJoin
  BY <1>26 DEF StopJoin
<1>27. CASE StopClear
  BY <1>27 DEF StopClear
<1>28. CASE ServiceReply
  BY <1>28 DEF ServiceReply
<1>29. CASE ServiceClose
  BY <1>29 DEF ServiceClose
<1>31. CASE ServiceSkip
  BY <1>31 DEF ServiceSkip
<1>30. CASE UNCHANGED vars
  BY <1>30 DEF vars
<1> QED
  BY <1>1, <1>2, <1>3, <1>4, <1>5, <1>6, <1>7, <1>8, <1>9, <1>10, <1>11, <1>12, Zenon,
     <1>13, <1>14, <1>15, <1>16, <1>17, <1>18, <1>19, <1>20, <1>21, <1>22, <1>23, <1>24,
     <1>25, <1>26, <1>27, <1>28, <1>29, <1>30, <1>31
     DEF Next, CallerStep, WorkerStep, StopStep

\* The request that is sent on an aligned connection is the only one on it (SendDone).
LEMMA SentAligned ==
    ASSUME Aligned, SendDone, skew = 0, wpc = "send", UNCHANGED <<skew, request, success, result>>
    PROVE  Aligned'
<1> DEFINE p == [id |-> request.id, queryId |-> request.queryId]
<1>1. /\ inbox = <<>> /\ outbox = <<>> /\ ~success
      /\ session' = "active" /\ wpc' = "header" /\ outbox' = <<>>
      /\ inbox' = IF peer = "open" THEN Append(inbox, p) ELSE inbox
  BY DEF Aligned, SendDone
<1>2. p.id = request.id
  OBVIOUS
<1> HIDE DEF p
<1>3. inbox' = <<>> \/ inbox' = <<p>>
  BY <1>1
<1>4. CASE inbox' = <<>>
  BY <1>1, <1>4, Zenon DEF Aligned, AlignedReply
<1>5. CASE inbox' = <<p>>
  <2>1. Len(inbox') = 1 /\ inbox'[1].id = request'.id
    BY <1>2, <1>5
  <2> QED
    BY <1>1, <2>1, Zenon DEF Aligned, AlignedReply
<1> QED
  BY <1>3, <1>4, <1>5

\* Of a stream that holds one packet nothing is left when it is taken.
LEMMA OnlyOne ==
    ASSUME NEW S, NEW s \in Seq(S), Len(s) = 1
    PROVE  Head(s) = s[1] /\ Tail(s) = <<>>
<1>1. Head(s) = s[1]
  OBVIOUS
<1>2. Tail(s) \in Seq(S) /\ Len(Tail(s)) = 0
  <2>1. s # <<>>
    OBVIOUS
  <2> QED
    BY <2>1
<1>3. \A q \in Seq(S) : Len(q) = 0 => q = <<>>
  OBVIOUS
<1> QED
  BY <1>1, <1>2, <1>3, Zenon

\* A step that neither worker nor connection takes part in.
LEMMA AlignedKept ==
    ASSUME Aligned, UNCHANGED <<wpc, request, success, result, session, inbox, outbox, skew>>
    PROVE  Aligned'
BY DEF Aligned, AlignedReply

\* The reply that is read from an aligned connection is the only one on it (PayloadRead).
LEMMA ReadAligned ==
    ASSUME Aligned, PayloadRead, outbox \in Seq(Reply), wpc' = "callback",
           UNCHANGED <<request, skew>>
    PROVE  Aligned'
<1>1. /\ session = "active" /\ session' = "active" /\ outbox # <<>>
      /\ result' = Head(outbox) /\ outbox' = Tail(outbox) /\ inbox' = inbox
  BY DEF PayloadRead
<1>2. CASE skew = 0
  <2>1. Len(outbox) = 1 /\ outbox[1].id = request.id /\ inbox = <<>>
    BY <1>1, <1>2 DEF Aligned
  <2>2. Head(outbox) = outbox[1] /\ Tail(outbox) = <<>>
    BY <2>1, OnlyOne, Zenon
  <2>3. inbox' = <<>> /\ outbox' = <<>> /\ result'.id = request'.id
    BY <1>1, <2>1, <2>2
  <2> QED
    BY <1>1, <2>3, Zenon DEF Aligned, AlignedReply
<1>3. CASE skew # 0
  BY <1>1, <1>3, Zenon DEF Aligned, AlignedReply
<1> QED
  BY <1>2, <1>3

\* A query that is skipped on an aligned connection was the only one on it (ServiceSkip).
LEMMA SkippedAligned ==
    ASSUME Aligned, session = "active", inbox # <<>>, inbox \in Seq(Packet), inbox' = Tail(inbox),
           UNCHANGED <<wpc, request, success, result, session, outbox, skew>>
    PROVE  Aligned'
<1>1. CASE skew = 0
  <2>1. Len(inbox) = 1 /\ outbox = <<>>
    BY <1>1 DEF Aligned
  <2>2. inbox' = <<>>
    BY <2>1, OnlyOne, Zenon
  <2> QED
    BY <2>1, <2>2, Zenon DEF Aligned, AlignedReply
<1>2. CASE skew # 0
  BY <1>2, Zenon DEF Aligned, AlignedReply
<1> QED
  BY <1>1, <1>2

\* A query that is answered on an aligned connection was the only one on it (ServiceReply).
LEMMA AnsweredAligned ==
    ASSUME Aligned, session = "active", inbox # <<>>, inbox \in Seq(Packet), inbox' = Tail(inbox),
           NEW rep, rep.id = Head(inbox).id, outbox' = Append(outbox, rep),
           UNCHANGED <<wpc, request, success, result, session, skew>>
    PROVE  Aligned'
<1>1. CASE skew = 0
  <2>1. Len(inbox) = 1 /\ outbox = <<>> /\ inbox[1].id = request.id /\ wpc \in {"header", "payload"}
    BY <1>1 DEF Aligned
  <2>2. inbox' = <<>> /\ Head(inbox) = inbox[1]
    BY <2>1, OnlyOne, Zenon
  <2>3. Len(outbox') = 1 /\ outbox'[1] = rep
    BY <2>1
  <2>4. outbox'[1].id = request'.id /\ wpc' \in {"header", "payload"} /\ session' = "active"
    BY <2>1, <2>2, <2>3
  <2> QED
    BY <2>2, <2>3, <2>4, Zenon DEF Aligned, AlignedReply
<1>2. CASE skew # 0
  BY <1>2, Zenon DEF Aligned, AlignedReply
<1> QED
  BY <1>1, <1>2

\* What is under way on a connection belongs to the request the worker waits for.
LEMMA AlignedInduction == TypeOK /\ Stages /\ Aligned /\ [Next]_vars => Aligned'
<1> SUFFICES ASSUME TypeOK, Stages, Aligned, [Next]_vars PROVE Aligned'
    OBVIOUS
<1>0. inbox \in Seq(Packet) /\ outbox \in Seq(Reply)
  BY DEF TypeOK, ConnOK
<1>1. ASSUME NEW t \in Callers, Query(t) PROVE Aligned'
  <2>1. UNCHANGED <<workerVars, connVars>>
    BY <1>1 DEF Query, QueryEnter
  <2> QED
    BY <2>1, AlignedKept DEF workerVars, connVars
<1>17. CASE WorkerPayload
  <2>1. CASE PayloadRead
    <3>1. wpc' = "callback" /\ UNCHANGED <<request, skew>>
      BY <1>17 DEF WorkerPayload
    <3> QED
      BY <1>0, <2>1, <3>1, ReadAligned, Zenon
  <2>2. CASE PayloadFailed
    BY <1>17, <2>2 DEF WorkerPayload, PayloadFailed, Close, Aligned, AlignedReply
  <2> QED
    BY <1>17, <2>1, <2>2, Zenon DEF WorkerPayload
<1>28. CASE ServiceReply
  <2>1. PICK rep : /\ session = "active" /\ inbox # <<>> /\ inbox' = Tail(inbox)
                   /\ outbox' = Append(outbox, rep) /\ rep.id = Head(inbox).id
                   /\ UNCHANGED <<wpc, request, success, result, session, skew>>
    BY <1>28 DEF ServiceReply, workerVars
  <2> QED
    BY <1>0, <2>1, AnsweredAligned, Zenon
<1>31. CASE ServiceSkip
  <2>1. /\ session = "active" /\ inbox # <<>> /\ inbox' = Tail(inbox)
        /\ UNCHANGED <<wpc, request, success, result, session, outbox, skew>>
    BY <1>31 DEF ServiceSkip, workerVars
  <2> QED
    BY <1>0, <2>1, SkippedAligned, Zenon
<1> USE DEF TypeOK, ConnOK, Stages, Aligned, AlignedReply, queueVars, workerVars, connVars, callerVars
<1>2. ASSUME NEW t \in Callers, AsyncCheck(t) PROVE Aligned'
  BY <1>2 DEF AsyncCheck
<1>3. ASSUME NEW t \in Callers, AsyncPush(t) PROVE Aligned'
  BY <1>3, Zenon DEF AsyncPush, QueueMutexFree
<1>4. ASSUME NEW t \in Callers, AsyncNotify(t) PROVE Aligned'
  BY <1>4 DEF AsyncNotify, Notified
<1>5. ASSUME NEW t \in Callers, QueryComplete(t) PROVE Aligned'
  BY <1>5 DEF QueryComplete, FreshFrame
<1>6. ASSUME NEW t \in Callers, QueryTimeout(t) PROVE Aligned'
  BY <1>6 DEF QueryTimeout, FreshFrame
<1>7. ASSUME NEW t \in Callers, CallerDone(t) PROVE Aligned'
  BY <1>7 DEF CallerDone
<1>8. CASE WorkerTop
  BY <1>8 DEF WorkerTop
<1>9. CASE WorkerWait
  BY <1>9 DEF WorkerWait
<1>10. CASE WorkerBlock
  BY <1>10 DEF WorkerBlock
<1>11. CASE WorkerBreak
  BY <1>11 DEF WorkerBreak
<1>12. CASE WorkerTake
  BY <1>12 DEF WorkerTake
<1>13. CASE WorkerConnect
  BY <1>13 DEF WorkerConnect
<1>14. CASE WorkerDial
  BY <1>14 DEF WorkerDial, TcpConnected
<1>15. CASE WorkerSend
  <2>1. CASE SendFailed
    BY <1>15, <2>1, Zenon DEF WorkerSend, SendFailed, Close
  <2>2. CASE SendDone /\ skew = 0
    <3>1. wpc = "send" /\ UNCHANGED <<skew, request, success, result>>
      BY <1>15, Zenon DEF WorkerSend
    <3> QED
      BY <2>2, <3>1, SentAligned
  <2>3. CASE SendDone /\ skew # 0
    BY <1>15, <2>3 DEF WorkerSend, SendDone
  <2> QED
    BY <1>15, <2>1, <2>2, <2>3 DEF WorkerSend
<1>16. CASE WorkerHeader
  <2>1. CASE HeaderRead
    BY <1>16, <2>1 DEF WorkerHeader, HeaderRead
  <2>2. CASE HeaderTimeout
    BY <1>16, <2>2 DEF WorkerHeader, HeaderTimeout
  <2>3. CASE HeaderLost
    BY <1>16, <2>3 DEF WorkerHeader, HeaderLost, Close
  <2> QED
    BY <1>16, <2>1, <2>2, <2>3, Zenon DEF WorkerHeader
<1>18. CASE WorkerCallback
  BY <1>18 DEF WorkerCallback, CallbackInTime, CallbackTooLate
<1>19. CASE SpuriousWakeup
  BY <1>19 DEF SpuriousWakeup
<1>20. CASE Start
  BY <1>20 DEF Start
<1>21. CASE StopEnter
  BY <1>21 DEF StopEnter
<1>22. CASE StopForceNotify
  BY <1>22 DEF StopForceNotify, Notified
<1>23. CASE StopForceTest
  BY <1>23 DEF StopForceTest
<1>24. CASE StopForceUse
  BY <1>24 DEF StopForceUse, Close
<1>25. CASE StopSignal
  BY <1>25 DEF StopSignal, Notified
<1>26. CASE StopJoin
  BY <1>26 DEF StopJoin
<1>27. CASE StopClear
  BY <1>27 DEF StopClear
<1>29. CASE ServiceClose
  BY <1>29 DEF ServiceClose
<1>30. CASE UNCHANGED vars
  BY <1>30 DEF vars
<1> QED
  BY <1>1, <1>2, <1>3, <1>4, <1>5, <1>6, <1>7, <1>8, <1>9, <1>10, <1>11, <1>12,
     <1>13, <1>14, <1>15, <1>16, <1>17, <1>18, <1>19, <1>20, <1>21, <1>22, <1>23, <1>24,
     <1>25, <1>26, <1>27, <1>28, <1>29, <1>30, <1>31, Zenon
     DEF Next, CallerStep, WorkerStep, StopStep

\* The worker is started once and ends before stop() returns.
LEMMA StagesInduction == Stages /\ [Next]_vars => Stages'
<1> SUFFICES ASSUME Stages, [Next]_vars PROVE Stages'
    OBVIOUS
<1> USE DEF Stages, queueVars, workerVars, connVars, callerVars
<1>1. ASSUME NEW t \in Callers, Query(t) PROVE Stages'
  BY <1>1 DEF Query, QueryEnter, FreshFrame
<1>2. ASSUME NEW t \in Callers, AsyncCheck(t) PROVE Stages'
  BY <1>2 DEF AsyncCheck
<1>3. ASSUME NEW t \in Callers, AsyncPush(t) PROVE Stages'
  BY <1>3 DEF AsyncPush, QueueMutexFree
<1>4. ASSUME NEW t \in Callers, AsyncNotify(t) PROVE Stages'
  BY <1>4 DEF AsyncNotify, Notified
<1>5. ASSUME NEW t \in Callers, QueryComplete(t) PROVE Stages'
  BY <1>5 DEF QueryComplete, FreshFrame
<1>6. ASSUME NEW t \in Callers, QueryTimeout(t) PROVE Stages'
  BY <1>6 DEF QueryTimeout, FreshFrame
<1>7. ASSUME NEW t \in Callers, CallerDone(t) PROVE Stages'
  BY <1>7 DEF CallerDone
<1>8. CASE WorkerTop
  BY <1>8 DEF WorkerTop
<1>9. CASE WorkerWait
  BY <1>9 DEF WorkerWait
<1>10. CASE WorkerBlock
  BY <1>10 DEF WorkerBlock
<1>11. CASE WorkerBreak
  BY <1>11 DEF WorkerBreak
<1>12. CASE WorkerTake
  BY <1>12 DEF WorkerTake
<1>13. CASE WorkerConnect
  BY <1>13 DEF WorkerConnect
<1>14. CASE WorkerDial
  BY <1>14 DEF WorkerDial, TcpConnected
<1>15. CASE WorkerSend
  BY <1>15 DEF WorkerSend, SendDone, SendFailed, Close
<1>16. CASE WorkerHeader
  BY <1>16 DEF WorkerHeader, HeaderRead, HeaderTimeout, HeaderLost, Close
<1>17. CASE WorkerPayload
  BY <1>17 DEF WorkerPayload, PayloadRead, PayloadFailed, Close
<1>18. CASE WorkerCallback
  BY <1>18 DEF WorkerCallback, CallbackInTime, CallbackTooLate
<1>19. CASE SpuriousWakeup
  BY <1>19 DEF SpuriousWakeup
<1>20. CASE Start
  BY <1>20 DEF Start
<1>21. CASE StopEnter
  BY <1>21 DEF StopEnter
<1>22. CASE StopForceNotify
  BY <1>22 DEF StopForceNotify, Notified
<1>23. CASE StopForceTest
  BY <1>23 DEF StopForceTest
<1>24. CASE StopForceUse
  BY <1>24 DEF StopForceUse, Close
<1>25. CASE StopSignal
  BY <1>25 DEF StopSignal, Notified
<1>26. CASE StopJoin
  BY <1>26 DEF StopJoin
<1>27. CASE StopClear
  BY <1>27 DEF StopClear
<1>28. CASE ServiceReply
  BY <1>28 DEF ServiceReply
<1>29. CASE ServiceClose
  BY <1>29 DEF ServiceClose
<1>31. CASE ServiceSkip
  BY <1>31 DEF ServiceSkip
<1>30. CASE UNCHANGED vars
  BY <1>30 DEF vars
<1> QED
  BY <1>1, <1>2, <1>3, <1>4, <1>5, <1>6, <1>7, <1>8, <1>9, <1>10, <1>11, <1>12, Zenon,
     <1>13, <1>14, <1>15, <1>16, <1>17, <1>18, <1>19, <1>20, <1>21, <1>22, <1>23, <1>24,
     <1>25, <1>26, <1>27, <1>28, <1>29, <1>30, <1>31
     DEF Next, CallerStep, WorkerStep, StopStep

\* Every step of callers, worker, stop() and service preserves IInv.
THEOREM Invariance == Spec => []IInv
<1>1. Init => IInv
  <2> SUFFICES ASSUME Init PROVE IInv
    OBVIOUS
  <2> USE DEF Init
  <2>1. QueueOK /\ ConnOK
    BY EmptySeqType, Zenon DEF QueueOK, ConnOK
  <2>2. WorkerOK
    <3>1. 0 \in 0..MAX_SEND_RETRIES
      BY ClientAssumption
    <3>2. wpc \in WorkerPC /\ wpc \notin Processing
      BY DEF WorkerPC, Processing
    <3> QED
      BY <3>1, <3>2, Zenon DEF WorkerOK
  <2>4. CallerOK /\ StopOK
    BY Zenon DEF CallerOK, StopOK, CallerPC, StopPC
  <2>3. Waiting /\ Aligned /\ Stages
    BY DEF Waiting, NoLostRequest, Aligned, AlignedReply, Stages
  <2> QED
    BY <2>1, <2>2, <2>3, <2>4 DEF IInv, TypeOK
<1>2. IInv /\ [Next]_vars => IInv'
  BY TypeInduction, WaitingInduction, AlignedInduction, StagesInduction DEF IInv
<1> QED
  BY <1>1, <1>2, PTL DEF Spec

\* Every variable of the client keeps its type: in particular the worker never
\* counts an attempt beyond MAX_SEND_RETRIES (processQueryRequest).
THEOREM TypeCorrect == Spec => []TypeOK
<1>1. IInv => TypeOK
  BY DEF IInv
<1> QED
  BY <1>1, Invariance, PTL

\* The worker never sleeps on a non-empty queue unless the notify of the request
\* is still to come (queryAsync, workerThread).
THEOREM RequestsNotLost == Spec => []NoLostRequest
<1>1. IInv => NoLostRequest
  BY DEF IInv, Waiting
<1> QED
  BY <1>1, Invariance, PTL

\* On a connection without a timed out header read, a request that succeeds was
\* given the reply to its own packet (sendAndReceive, processQueryRequest).
THEOREM RepliesAligned == Spec => []AlignedReply
<1>1. IInv => AlignedReply
  BY DEF IInv, Aligned
<1> QED
  BY <1>1, Invariance, PTL
-------------------------------------------------------------------------------
(* How far replies lag behind *)

\* The packets of s are those of requests in a, the k-th of one beyond from + k.
Answers(s, from, a) ==
    \A k \in 1..Len(s) : \E j \in from + k .. Len(a) : s[k].id = a[j]

\* Of the requests a, the first n are settled: what is under way, the replies out and
\* then the queries in, belongs to later ones, and there is not more of it.
Lags(n, out, in, a) ==
    /\ n >= 0 /\ n + Len(out) + Len(in) <= Len(a)
    /\ Answers(out, n, a)
    /\ Answers(in, n + Len(out), a)

\* Every request sent is settled, but for those that timed out and the one the worker
\* waits for.
Settled == Len(asked) - skew - (IF wpc \in {"header", "payload"} THEN 1 ELSE 0)

\* The strengthening of LagBoundedByTimeouts: what is under way on a connection.
Lagging ==
    /\ wpc = "dial" => session # "active" /\ skew = 0 /\ asked = <<>>
    /\ session = "active" => Lags(Settled, outbox, inbox, asked)
    /\ LagBoundedByTimeouts

\* One more request is sent.
LEMMA AnswersMore ==
    ASSUME NEW s, NEW n \in Nat, Len(s) \in Nat, NEW a \in Seq(Nat), NEW x \in Nat,
           Answers(s, n, a)
    PROVE  Answers(s, n, Append(a, x))
<1> SUFFICES ASSUME NEW k \in 1..Len(s)
             PROVE  \E j \in n + k .. Len(Append(a, x)) : s[k].id = Append(a, x)[j]
    BY DEF Answers
<1>1. PICK j \in n + k .. Len(a) : s[k].id = a[j]
  BY DEF Answers
<1>2. j \in n + k .. Len(Append(a, x)) /\ Append(a, x)[j] = a[j]
  OBVIOUS
<1> QED
  BY <1>1, <1>2

\* One more packet is under way: that of request j.
LEMMA AnswersAppend ==
    ASSUME NEW S, NEW s \in Seq(S), NEW n \in Int, NEW a, Len(a) \in Nat, NEW e,
           Answers(s, n, a), \E j \in n + Len(s) + 1 .. Len(a) : e.id = a[j]
    PROVE  Answers(Append(s, e), n, a)
<1> SUFFICES ASSUME NEW k \in 1..Len(Append(s, e))
             PROVE  \E j \in n + k .. Len(a) : Append(s, e)[k].id = a[j]
    BY DEF Answers
<1>1. CASE k = Len(s) + 1
  <2>1. Append(s, e)[k] = e
    BY <1>1
  <2>2. n + k = n + Len(s) + 1
    BY <1>1
  <2> QED
    BY <2>1, <2>2
<1>2. CASE k # Len(s) + 1
  <2>1. k \in 1..Len(s) /\ Append(s, e)[k] = s[k]
    BY <1>2
  <2> QED
    BY <2>1, Zenon DEF Answers
<1> QED
  BY <1>1, <1>2

\* The packet at the front is gone: the others are as late as they were, or later.
LEMMA AnswersTail ==
    ASSUME NEW S, NEW s \in Seq(S), s # <<>>, NEW n \in Int, NEW a, Len(a) \in Nat,
           Answers(s, n, a)
    PROVE  Answers(Tail(s), n, a) /\ Answers(Tail(s), n + 1, a)
<1> SUFFICES ASSUME NEW k \in 1..Len(Tail(s))
             PROVE  /\ \E j \in n + k .. Len(a) : Tail(s)[k].id = a[j]
                    /\ \E j \in n + 1 + k .. Len(a) : Tail(s)[k].id = a[j]
    BY DEF Answers
<1>1. k + 1 \in 1..Len(s) /\ Tail(s)[k] = s[k + 1]
  OBVIOUS
<1>2. PICK j \in n + (k + 1) .. Len(a) : s[k + 1].id = a[j]
  BY <1>1, Zenon DEF Answers
<1>3. j \in n + k .. Len(a) /\ j \in n + 1 + k .. Len(a)
  BY <1>1
<1> QED
  BY <1>1, <1>2, <1>3, Zenon

\* Nothing is under way.
LEMMA AnswersEmpty == ASSUME NEW n, NEW a PROVE Answers(<<>>, n, a)
BY DEF Answers

\* A request is sent; its packet may be dropped.
LEMMA LagsSent ==
    ASSUME NEW n \in Int, NEW S, NEW T, NEW out \in Seq(S), NEW in \in Seq(T),
           NEW a \in Seq(Nat), NEW x \in Nat, NEW e, e.id = x, Lags(n, out, in, a)
    PROVE  Lags(n, out, in, Append(a, x)) /\ Lags(n, out, Append(in, e), Append(a, x))
<1>1. /\ Len(out) \in Nat /\ Len(in) \in Nat /\ n + Len(out) \in Int
      /\ Len(Append(in, e)) = Len(in) + 1
  OBVIOUS
<1>2. Len(a) \in Nat /\ Len(Append(a, x)) = Len(a) + 1 /\ Append(a, x)[Len(a) + 1] = x
  OBVIOUS
<1>3. n >= 0 /\ n + Len(out) + Len(in) <= Len(a) /\ Answers(out, n, a) /\ Answers(in, n + Len(out), a)
  BY DEF Lags
<1>4. Answers(out, n, Append(a, x)) /\ Answers(in, n + Len(out), Append(a, x))
  <2>1. n \in Nat /\ n + Len(out) \in Nat
    BY <1>1, <1>3
  <2> QED
    BY <1>1, <1>3, <2>1, AnswersMore
<1>5. Answers(Append(in, e), n + Len(out), Append(a, x))
  <2>1. \E j \in n + Len(out) + Len(in) + 1 .. Len(Append(a, x)) : e.id = Append(a, x)[j]
    BY <1>1, <1>2, <1>3
  <2>2. Len(Append(a, x)) \in Nat
    BY <1>2
  <2> QED
    BY <1>1, <1>4, <2>1, <2>2, AnswersAppend, Zenon
<1>6. /\ n + Len(out) + Len(in) <= Len(Append(a, x))
      /\ n + Len(out) + Len(Append(in, e)) <= Len(Append(a, x))
  BY <1>1, <1>2, <1>3
<1> QED
  BY <1>3, <1>4, <1>5, <1>6, Zenon DEF Lags

\* A reply is read: it is to the first request that is not settled, or to a later one.
LEMMA LagsRead ==
    ASSUME NEW n \in Int, NEW S, NEW T, NEW out \in Seq(S), out # <<>>, NEW in \in Seq(T),
           NEW a \in Seq(Nat), Lags(n, out, in, a)
    PROVE  /\ Lags(n + 1, Tail(out), in, a)
           /\ \E j \in n + 1 .. Len(a) : Head(out).id = a[j]
<1>1. /\ Len(out) \in Nat /\ Len(in) \in Nat /\ Len(a) \in Nat
      /\ Len(Tail(out)) = Len(out) - 1 /\ 1 \in 1..Len(out) /\ Head(out) = out[1]
  OBVIOUS
<1>2. n >= 0 /\ n + Len(out) + Len(in) <= Len(a) /\ Answers(out, n, a) /\ Answers(in, n + Len(out), a)
  BY DEF Lags
<1>3. Answers(Tail(out), n + 1, a)
  BY <1>1, <1>2, AnswersTail
<1>4. /\ n + 1 + Len(Tail(out)) = n + Len(out) /\ n + 1 >= 0
  BY <1>1, <1>2
<1>5. \E j \in n + 1 .. Len(a) : Head(out).id = a[j]
  BY <1>1, <1>2, Zenon DEF Answers
<1> QED
  BY <1>2, <1>3, <1>4, <1>5, Zenon DEF Lags

\* The service takes a query and replies to it, or does not.
LEMMA LagsServed ==
    ASSUME NEW n \in Int, NEW S, NEW T, NEW out \in Seq(S), NEW in \in Seq(T), in # <<>>,
           NEW a \in Seq(Nat), NEW e, e.id = Head(in).id, Lags(n, out, in, a)
    PROVE  Lags(n, out, Tail(in), a) /\ Lags(n, Append(out, e), Tail(in), a)
<1>1. /\ Len(out) \in Nat /\ Len(in) \in Nat /\ Len(a) \in Nat /\ n + Len(out) \in Int
      /\ Len(Tail(in)) = Len(in) - 1 /\ 1 \in 1..Len(in) /\ Head(in) = in[1]
      /\ Len(Append(out, e)) = Len(out) + 1
  OBVIOUS
<1>2. n >= 0 /\ n + Len(out) + Len(in) <= Len(a) /\ Answers(out, n, a) /\ Answers(in, n + Len(out), a)
  BY DEF Lags
<1>3. Answers(Tail(in), n + Len(out), a) /\ Answers(Tail(in), n + Len(out) + 1, a)
  BY <1>1, <1>2, AnswersTail
<1>4. Answers(Append(out, e), n, a)
  <2>1. \E j \in n + Len(out) + 1 .. Len(a) : e.id = a[j]
    BY <1>1, <1>2, Zenon DEF Answers
  <2> QED
    BY <1>1, <1>2, <2>1, AnswersAppend
<1>5. /\ n + Len(Append(out, e)) = n + Len(out) + 1
      /\ n + Len(out) + Len(Tail(in)) <= Len(a)
      /\ n + Len(Append(out, e)) + Len(Tail(in)) <= Len(a)
  BY <1>1, <1>2
<1> QED
  BY <1>2, <1>3, <1>4, <1>5, Zenon DEF Lags

\* The service closes: its queries are gone, and maybe its replies.
LEMMA LagsLost ==
    ASSUME NEW n \in Int, NEW S, NEW T, NEW out \in Seq(S), NEW in \in Seq(T),
           NEW a \in Seq(Nat), Lags(n, out, in, a)
    PROVE  Lags(n, out, <<>>, a) /\ Lags(n, <<>>, <<>>, a)
<1>1. Len(out) \in Nat /\ Len(in) \in Nat /\ Len(a) \in Nat /\ Len(<<>>) = 0
  OBVIOUS
<1>2. n >= 0 /\ n + Len(out) + Len(in) <= Len(a) /\ Answers(out, n, a)
  BY DEF Lags
<1>3. n + Len(out) + Len(<<>>) <= Len(a) /\ n + Len(<<>>) + Len(<<>>) <= Len(a)
  BY <1>1, <1>2
<1> QED
  BY <1>2, <1>3, AnswersEmpty, Zenon DEF Lags

\* The connection stays as it is; the worker stays where it is, or is between two
\* requests and stays between them.
Idling ==
    /\ UNCHANGED connVars
    /\ \/ UNCHANGED workerVars
       \/ /\ wpc \notin {"header", "payload"}
          /\ wpc' \notin {"dial", "header", "payload", "callback"}

\* Then the lag stays what it is.
LEMMA LagKept == ASSUME Lagging, Idling PROVE Lagging'
<1>1. CASE UNCHANGED workerVars
  BY <1>1, Zenon DEF Idling, Lagging, Settled, LagBoundedByTimeouts, connVars, workerVars
<1>2. CASE /\ wpc \notin {"header", "payload"}
           /\ wpc' \notin {"dial", "header", "payload", "callback"}
  <2>1. Settled' = Settled
    BY <1>2 DEF Idling, Settled, connVars
  <2> QED
    BY <1>2, <2>1, Zenon DEF Idling, Lagging, LagBoundedByTimeouts, connVars
<1> QED
  BY <1>1, <1>2 DEF Idling

\* The connection ends or has ended.
Ended == session' # "active" /\ wpc' # "dial" /\ ~(wpc' = "callback" /\ success')

\* Then nothing lags.
LEMMA LagEnded == ASSUME Ended PROVE Lagging'
BY DEF Ended, Lagging, LagBoundedByTimeouts

\* What the types say of the streams and of the request.
LEMMA StreamTypes ==
    ASSUME TypeOK
    PROVE  /\ asked \in Seq(Nat) /\ skew \in Nat /\ Settled \in Int
           /\ outbox \in Seq(Reply) /\ inbox \in Seq(Packet)
           /\ wpc \in Processing => request.id \in Nat
<1>1. asked \in Seq(Nat) /\ skew \in Nat /\ outbox \in Seq(Reply) /\ inbox \in Seq(Packet)
  BY DEF TypeOK, ConnOK
<1>2. Settled \in Int
  BY <1>1 DEF Settled
<1>3. wpc \in Processing => request.id \in Nat
  BY DEF TypeOK, WorkerOK, Request
<1> QED
  BY <1>1, <1>2, <1>3

\* A connection that is kept has its lag; a new one has none (connect).
LEMMA ConnectLags ==
    ASSUME TypeOK, Aligned, Lagging, WorkerConnect \/ WorkerDial PROVE Lagging'
<1>1. CASE WorkerConnect
  <2>1. CASE session = "active"
    BY <1>1, <2>1, LagKept DEF WorkerConnect, Idling, connVars
  <2>2. CASE session # "active"
    BY <1>1, <2>2, Zenon DEF WorkerConnect, Lagging, LagBoundedByTimeouts
  <2> QED
    BY <2>1, <2>2
<1>2. CASE WorkerDial
  <2>1. session # "active" /\ skew = 0 /\ asked = <<>> /\ inbox = <<>> /\ outbox = <<>> /\ ~success
    BY <1>2 DEF WorkerDial, Lagging, Aligned
  <2>2. CASE TcpConnected /\ wpc' = "send"
    <3>1. skew' = 0 /\ asked' = <<>> /\ inbox' = <<>> /\ outbox' = <<>>
      BY <2>1, <2>2 DEF TcpConnected
    <3>2. Settled' = 0
      BY <2>2, <3>1 DEF Settled
    <3>3. Lags(0, <<>>, <<>>, <<>>)
      BY AnswersEmpty DEF Lags
    <3> QED
      BY <2>2, <3>1, <3>2, <3>3, Zenon DEF Lagging, LagBoundedByTimeouts
  <2>3. CASE wpc' = "callback" /\ UNCHANGED connVars
    BY <1>2, <2>1, <2>3, LagEnded DEF WorkerDial, Ended, connVars
  <2> QED
    BY <1>2, <2>2, <2>3 DEF WorkerDial
<1> QED
  BY <1>1, <1>2

\* The request that is sent is not settled (SendDone).
LEMMA SendLags == ASSUME TypeOK, Aligned, Lagging, WorkerSend PROVE Lagging'
<1>1. ~success' /\ wpc = "send" /\ skew' = skew
  BY DEF WorkerSend, Aligned
<1>2. CASE SendFailed
  BY <1>1, <1>2, LagEnded DEF SendFailed, Close, Ended
<1>3. CASE SendDone
  <2> DEFINE p == [id |-> request.id, queryId |-> request.queryId]
  <2>1. /\ session = "active" /\ wpc' = "header" /\ outbox' = outbox
        /\ inbox' \in {inbox, Append(inbox, p)} /\ asked' = Append(asked, request.id)
    BY <1>3 DEF SendDone
  <2>2. /\ asked \in Seq(Nat) /\ skew \in Nat /\ Settled \in Int /\ request.id \in Nat
        /\ outbox \in Seq(Reply) /\ inbox \in Seq(Packet)
    BY <1>1, StreamTypes DEF Processing
  <2>3. p.id = request.id
    OBVIOUS
  <2> HIDE DEF p
  <2>4. /\ Lags(Settled, outbox, inbox, Append(asked, request.id))
        /\ Lags(Settled, outbox, Append(inbox, p), Append(asked, request.id))
    <3>1. Lags(Settled, outbox, inbox, asked)
      BY <2>1 DEF Lagging
    <3> QED
      BY <2>2, <2>3, <3>1, LagsSent
  <2>5. Settled' = Settled
    <3>1. Len(asked') = Len(asked) + 1 /\ Len(asked) \in Nat
      BY <2>1, <2>2
    <3> QED
      BY <1>1, <2>1, <2>2, <3>1 DEF Settled
  <2>6. Lags(Settled', outbox', inbox', asked')
    BY <2>1, <2>4, <2>5, Zenon
  <2> QED
    BY <1>1, <2>1, <2>6, Zenon DEF Lagging, LagBoundedByTimeouts
<1> QED
  BY <1>2, <1>3 DEF WorkerSend

\* A request that timed out is no more settled than it was (HeaderTimeout).
LEMMA HeaderLags == ASSUME TypeOK, Aligned, Lagging, WorkerHeader PROVE Lagging'
<1>1. ~success' /\ wpc = "header"
  BY DEF WorkerHeader, Aligned
<1>2. CASE HeaderRead
  <2>1. wpc' = "payload" /\ UNCHANGED connVars
    BY <1>2 DEF HeaderRead
  <2>2. Settled' = Settled
    BY <1>1, <2>1 DEF Settled, connVars
  <2> QED
    BY <2>1, <2>2, Zenon DEF Lagging, LagBoundedByTimeouts, connVars
<1>3. CASE HeaderTimeout
  <2>1. /\ wpc' = "callback" /\ skew' = skew + 1
        /\ UNCHANGED <<session, outbox, inbox, asked>>
    BY <1>3 DEF HeaderTimeout
  <2>2. Settled' = Settled
    <3>1. Len(asked) \in Nat /\ skew \in Nat
      BY StreamTypes
    <3> QED
      BY <1>1, <2>1, <3>1 DEF Settled
  <2> QED
    BY <1>1, <2>1, <2>2, Zenon DEF Lagging, LagBoundedByTimeouts
<1>4. CASE HeaderLost
  BY <1>1, <1>4, LagEnded DEF HeaderLost, Close, Ended
<1> QED
  BY <1>2, <1>3, <1>4 DEF WorkerHeader

\* The reply that is read is to a request that was not settled (PayloadRead).
LEMMA PayloadLags == ASSUME TypeOK, Aligned, Lagging, WorkerPayload PROVE Lagging'
<1>1. ~success /\ wpc = "payload" /\ wpc' = "callback" /\ UNCHANGED <<skew, asked>>
  BY DEF WorkerPayload, Aligned
<1>2. CASE PayloadFailed
  BY <1>1, <1>2, LagEnded DEF PayloadFailed, Close, Ended
<1>3. CASE PayloadRead
  <2>1. /\ session = "active" /\ outbox # <<>> /\ result' = Head(outbox)
        /\ outbox' = Tail(outbox) /\ inbox' = inbox
    BY <1>3 DEF PayloadRead
  <2>2. /\ asked \in Seq(Nat) /\ skew \in Nat /\ Settled \in Int /\ Len(asked) \in Nat
        /\ outbox \in Seq(Reply) /\ inbox \in Seq(Packet)
    BY StreamTypes
  <2>3. Lags(Settled, outbox, inbox, asked)
    BY <2>1 DEF Lagging
  <2>4. /\ Lags(Settled + 1, Tail(outbox), inbox, asked)
        /\ \E j \in Settled + 1 .. Len(asked) : Head(outbox).id = asked[j]
    <3> HIDE DEF Settled
    <3> QED
      BY <2>1, <2>2, <2>3, LagsRead
  <2>5. Settled = Len(asked) - skew - 1 /\ Settled' = Settled + 1
    BY <1>1, <2>2 DEF Settled
  <2>6. LagBoundedByTimeouts'
    <3>1. PICK j \in Settled + 1 .. Len(asked) : Head(outbox).id = asked[j]
      BY <2>4
    <3>2. Settled >= 0
      BY <2>3 DEF Lags
    <3> DEFINE lag == Len(asked) - j
    <3>3. lag \in 0..skew /\ lag < Len(asked) /\ Len(asked) - lag = j
      BY <2>2, <2>5, <3>2
    <3> HIDE DEF lag
    <3>4. result'.id = asked[Len(asked) - lag]
      BY <2>1, <3>1, <3>3
    <3> QED
      BY <1>1, <3>3, <3>4, Zenon DEF LagBoundedByTimeouts
  <2>7. Lags(Settled', outbox', inbox', asked')
    BY <1>1, <2>1, <2>4, <2>5, Zenon
  <2> QED
    BY <1>1, <2>6, <2>7, Zenon DEF Lagging
<1> QED
  BY <1>2, <1>3 DEF WorkerPayload

\* What the service does, replies that it does not give included, adds no lag.
LEMMA ServiceLags ==
    ASSUME TypeOK, Lagging, ServiceReply \/ ServiceSkip \/ ServiceClose PROVE Lagging'
<1>1. /\ session = "active" /\ session' = "active" /\ UNCHANGED <<skew, asked>>
      /\ UNCHANGED workerVars
  BY DEF ServiceReply, ServiceSkip, ServiceClose
<1>2. Settled' = Settled /\ wpc # "dial"
  BY <1>1 DEF Settled, workerVars, Lagging
<1>3. LagBoundedByTimeouts'
  BY <1>1, Zenon DEF Lagging, LagBoundedByTimeouts, workerVars
<1>4. /\ asked \in Seq(Nat) /\ Settled \in Int
      /\ outbox \in Seq(Reply) /\ inbox \in Seq(Packet)
  BY StreamTypes
<1>5. Lags(Settled, outbox, inbox, asked)
  BY <1>1 DEF Lagging
<1>6. Lags(Settled, outbox', inbox', asked)
  <2>1. CASE ServiceReply
    <3>1. PICK error \in ErrorFlags :
             outbox' = Append(outbox, [id |-> Head(inbox).id, queryId |-> Head(inbox).queryId,
                                       error |-> error])
      BY <2>1 DEF ServiceReply
    <3> DEFINE e == [id |-> Head(inbox).id, queryId |-> Head(inbox).queryId, error |-> error]
    <3>2. e.id = Head(inbox).id
      OBVIOUS
    <3>3. outbox' = Append(outbox, e)
      BY <3>1
    <3> HIDE DEF e
    <3>4. inbox # <<>> /\ inbox' = Tail(inbox)
      BY <2>1 DEF ServiceReply
    <3>5. Lags(Settled, Append(outbox, e), Tail(inbox), asked)
      BY <1>4, <1>5, <3>2, <3>4, LagsServed
    <3> QED
      BY <3>3, <3>4, <3>5, Zenon
  <2>2. CASE ServiceSkip
    <3>1. inbox # <<>> /\ inbox' = Tail(inbox) /\ outbox' = outbox
      BY <2>2 DEF ServiceSkip
    <3>2. Lags(Settled, outbox, Tail(inbox), asked)
      BY <1>4, <1>5, <3>1, LagsServed
    <3> QED
      BY <3>1, <3>2, Zenon
  <2>3. CASE ServiceClose
    <3>1. inbox' = <<>> /\ outbox' \in {outbox, <<>>}
      BY <2>3 DEF ServiceClose
    <3>2. Lags(Settled, outbox, <<>>, asked) /\ Lags(Settled, <<>>, <<>>, asked)
      BY <1>4, <1>5, LagsLost
    <3> QED
      BY <3>1, <3>2, Zenon
  <2> QED
    BY <2>1, <2>2, <2>3
<1> QED
  BY <1>1, <1>2, <1>3, <1>6, Zenon DEF Lagging, workerVars

\* Every step of callers, worker, stop() and service keeps the bound.
LEMMA LaggingInduction == IInv /\ Lagging /\ [Next]_vars => Lagging'
<1> SUFFICES ASSUME IInv, Lagging, [Next]_vars PROVE Lagging'
    OBVIOUS
<1>1. TypeOK /\ Aligned /\ Stages
  BY DEF IInv
<1>2. ASSUME NEW t \in Callers, Query(t) \/ CallerStep(t) PROVE Lagging'
  <2>1. Idling
    BY <1>2, Zenon DEF Query, QueryEnter, CallerStep, AsyncCheck, AsyncPush, AsyncNotify, Notified,
       QueryComplete, QueryTimeout, CallerDone, workerVars, Idling
  <2> QED
    BY <2>1, LagKept
<1>3. CASE WorkerTop \/ WorkerWait \/ WorkerBlock \/ WorkerBreak \/ WorkerTake
           \/ WorkerCallback \/ SpuriousWakeup
  <2>1. /\ UNCHANGED connVars /\ wpc \notin {"header", "payload"}
        /\ wpc' \in {"lock", "exited", "toblock", "blocked", "connect", "top", "hung", "woken"}
    BY <1>3 DEF WorkerTop, WorkerWait, WorkerBlock, WorkerBreak, WorkerTake, WorkerCallback,
       CallbackInTime, CallbackTooLate, SpuriousWakeup
  <2> QED
    BY <2>1, LagKept DEF Idling
<1>4. CASE Start \/ StopEnter \/ StopForceNotify \/ StopForceTest \/ StopSignal \/ StopJoin
  <2>1. Idling
    BY <1>1, <1>4 DEF Start, StopEnter, StopForceNotify, StopForceTest, StopSignal, StopJoin,
       Notified, workerVars, Stages, Idling
  <2> QED
    BY <2>1, LagKept
<1>5. CASE StopForceUse
  <2>1. UNCHANGED workerVars /\ UNCHANGED <<skew, asked>>
    BY <1>5 DEF StopForceUse
  <2>2. CASE UNCHANGED <<session, peer, inbox, outbox>>
    BY <2>1, <2>2, LagKept DEF connVars, Idling
  <2>3. CASE Close
    BY <2>1, <2>3, Zenon DEF Close, Lagging, LagBoundedByTimeouts, workerVars
  <2> QED
    BY <1>5, <2>2, <2>3 DEF StopForceUse
<1>6. CASE StopClear
  <2>1. wpc' = "exited" /\ session' = "none"
    BY <1>1, <1>6 DEF StopClear, Stages, workerVars
  <2> QED
    BY <2>1, LagEnded DEF Ended
<1>7. CASE UNCHANGED vars
  BY <1>7, LagKept DEF vars, Idling
<1> QED
  BY <1>1, <1>2, <1>3, <1>4, <1>5, <1>6, <1>7, ConnectLags, SendLags, HeaderLags,
     PayloadLags, ServiceLags DEF Next, WorkerStep, StopStep

\* A reply a request is given is to one of the last skew + 1 requests sent on the
\* connection, whatever the service skips (sendAndReceive, processQueryRequest).
THEOREM LagBounded == Spec => []LagBoundedByTimeouts
<1>1. Init => Lagging
  BY Zenon DEF Init, Lagging, LagBoundedByTimeouts
<1>2. IInv /\ Lagging /\ [Next]_vars => Lagging'
  BY LaggingInduction
<1>3. Lagging => LagBoundedByTimeouts
  BY DEF Lagging
<1> QED
  BY <1>1, <1>2, <1>3, Invariance, PTL DEF Spec
-------------------------------------------------------------------------------
(* OracleMachineNode *)

\* The sessions have their types.
SessionsOK ==
    /\ npc \in [Callers -> {"none", "recv", "lookup", "query"}]
    /\ query \in [Callers -> NodeQuery \cup {NoQuery}]
    /\ content \in Cache!Contents
    /\ sent \in [Callers -> [query : NodeQuery \cup {NoQuery}, origin : NodeQuery \cup {NoQuery}]]
    /\ mpc \in {"down", "server", "running", "stopping", "clients", "stopped"}

\* A session that handles a query has one; what was not in the cache and is asked
\* of the client is for the interface that has one.
Handling ==
    \A t \in Callers :
        /\ npc[t] \in {"lookup", "query"} => query[t] \in NodeQuery
        /\ npc[t] = "query" => query[t].interface = Served

\* The inductive invariant.
NodeIInv == SessionsOK /\ Handling /\ CacheHoldsOwnReplies

\* A response with data has the data of its own query.
LEMMA OwnResponse ==
    ASSUME NEW q \in NodeQuery, q.interface = Served
    PROVE  /\ WithData(q, q.queryId) = Node!OwnData(q)
           /\ WithData(q, q.queryId) \in [query : NodeQuery \cup {NoQuery},
                                          origin : NodeQuery \cup {NoQuery}]
<1>1. q = [queryId |-> q.queryId, interface |-> q.interface]
  BY DEF NodeQuery
<1> QED
  BY <1>1 DEF WithData, Node!OwnData

\* An error response has the type of a response (makeErrorResponse).
LEMMA ErrorType ==
    ASSUME NEW q \in NodeQuery \cup {NoQuery}
    PROVE  /\ Error(q) = Node!Refusal(q)
           /\ Error(q) \in [query : NodeQuery \cup {NoQuery}, origin : NodeQuery \cup {NoQuery}]
BY DEF Error, Node!Refusal

\* sendResponseToNode with the query's own data or an error.
LEMMA Responds ==
    ASSUME SessionsOK, NEW t \in Callers, npc[t] \in {"lookup", "query"}, query[t] \in NodeQuery,
           NEW response, Respond(t, response),
           response \in {Node!OwnData(query[t]), Node!Refusal(query[t])},
           response \in [query : NodeQuery \cup {NoQuery}, origin : NodeQuery \cup {NoQuery}]
    PROVE  /\ Node!Respond(t) \/ Node!Leave(t)
           /\ npc' \in [Callers -> {"none", "recv", "lookup", "query"}]
           /\ query' \in [Callers -> NodeQuery \cup {NoQuery}]
           /\ sent' \in [Callers -> [query : NodeQuery \cup {NoQuery},
                                     origin : NodeQuery \cup {NoQuery}]]
           /\ npc'[t] \in {"recv", "none"}
           /\ \A c \in Callers \ {t} : npc'[c] = npc[c] /\ query'[c] = query[c]
<1>1. query' = [query EXCEPT ![t] = NoQuery]
  BY DEF Respond
<1>2. Pending[t] = query[t] /\ query[t] # NoQuery
  BY NoQueryAssumption, Zenon DEF Pending
<1>3. ASSUME npc' = [npc EXCEPT ![t] = "recv"] \/ npc' = [npc EXCEPT ![t] = "none"]
      PROVE  /\ Pending' = [Pending EXCEPT ![t] = NoQuery]
             /\ npc' \in [Callers -> {"none", "recv", "lookup", "query"}]
             /\ npc'[t] \in {"recv", "none"}
             /\ \A c \in Callers \ {t} : npc'[c] = npc[c] /\ query'[c] = query[c]
  BY <1>1, <1>3, Zenon DEF SessionsOK, Pending
<1>4. CASE /\ sent' = [sent EXCEPT ![t] = response]
           /\ npc' = [npc EXCEPT ![t] = "recv"]
  BY <1>1, <1>2, <1>3, <1>4, Zenon DEF SessionsOK, Node!Respond
<1>5. CASE /\ sent' = [sent EXCEPT ![t] = Error(NoQuery)]
           /\ npc' = [npc EXCEPT ![t] = "none"]
  BY <1>1, <1>3, <1>5, ErrorType, Zenon DEF SessionsOK, Node!Leave
<1> QED
  BY <1>4, <1>5, Zenon DEF Respond

\* What a step of a session does: to the client a step of its own, to the core
\* node what QueryService allows.
Allowed == /\ NodeIInv'
           /\ [Next]_vars
           /\ [Node!Next]_<<Pending, sent>>

\* What a session does besides handling a query is allowed by the query service (handleSession).
LEMMA SessionStep ==
    ASSUME NodeIInv, NEW t \in Callers,
           \/ OpenSession(t) \/ CloseSession(t) \/ \E q \in NodeQuery : Receive(t, q)
    PROVE  Allowed
<1> USE DEF NodeIInv, SessionsOK
<1>1. CASE OpenSession(t)
  <2>1. UNCHANGED <<vars, query, content, sent, mpc>>
        /\ npc[t] = "none" /\ npc' = [npc EXCEPT ![t] = "recv"]
    BY <1>1 DEF OpenSession
  <2>2. Pending' = Pending
    BY <2>1 DEF Pending
  <2>3. SessionsOK' /\ Handling' /\ CacheHoldsOwnReplies'
    BY <2>1, Zenon DEF Handling, CacheHoldsOwnReplies
  <2> QED
    BY <2>1, <2>2, <2>3 DEF Allowed
<1>2. CASE CloseSession(t)
  <2>1. /\ UNCHANGED <<vars, query, content, mpc>>
        /\ npc[t] = "recv" /\ npc' = [npc EXCEPT ![t] = "none"]
        /\ sent' = [sent EXCEPT ![t] = Error(NoQuery)]
    BY <1>2 DEF CloseSession
  <2>2. Pending' = [Pending EXCEPT ![t] = NoQuery]
    BY <2>1 DEF Pending
  <2>3. SessionsOK' /\ Handling' /\ CacheHoldsOwnReplies'
    BY <2>1, ErrorType, Zenon DEF Handling, CacheHoldsOwnReplies
  <2>4. Node!Leave(t)
    BY <2>1, <2>2, ErrorType, Zenon DEF Node!Leave
  <2> QED
    BY <2>1, <2>3, <2>4, Zenon DEF Allowed, Node!Next
<1>3. ASSUME NEW q \in NodeQuery, Receive(t, q) PROVE Allowed
  <2>1. /\ UNCHANGED <<vars, content, mpc>>
        /\ npc[t] = "recv" /\ npc' = [npc EXCEPT ![t] = "lookup"]
        /\ query' = [query EXCEPT ![t] = q]
        /\ sent' = [sent EXCEPT ![t] = Error(NoQuery)]
    BY <1>3 DEF Receive
  <2>2. Pending' = [Pending EXCEPT ![t] = q] /\ Pending[t] = NoQuery
    BY <2>1, Zenon DEF Pending
  <2>3. SessionsOK' /\ Handling' /\ CacheHoldsOwnReplies'
    BY <2>1, ErrorType, Zenon DEF Handling, CacheHoldsOwnReplies
  <2>4. Node!Ask(t, q)
    BY <2>1, <2>2, ErrorType, Zenon DEF Node!Ask
  <2> QED
    BY <2>1, <2>3, <2>4, Zenon DEF Allowed, Node!Next
<1> QED
  BY <1>1, <1>2, <1>3

\* RequestHandler::handle up to the answer of the cache.
LEMMA LookupStep ==
    ASSUME NodeIInv, NEW t \in Callers, HandleLookup(t)
    PROVE  Allowed
<1> USE DEF NodeIInv
<1>1. npc[t] = "lookup" /\ UNCHANGED <<content, mpc>> /\ query[t] \in NodeQuery
  BY Zenon DEF HandleLookup, Handling
<1>2. ASSUME NEW response, Respond(t, response), UNCHANGED vars,
             response \in {Node!OwnData(query[t]), Node!Refusal(query[t])},
             response \in [query : NodeQuery \cup {NoQuery}, origin : NodeQuery \cup {NoQuery}]
      PROVE  Allowed
  <2>1. /\ Node!Respond(t) \/ Node!Leave(t)
        /\ npc' \in [Callers -> {"none", "recv", "lookup", "query"}]
        /\ query' \in [Callers -> NodeQuery \cup {NoQuery}]
        /\ sent' \in [Callers -> [query : NodeQuery \cup {NoQuery},
                                  origin : NodeQuery \cup {NoQuery}]]
        /\ npc'[t] \in {"recv", "none"}
        /\ \A c \in Callers \ {t} : npc'[c] = npc[c] /\ query'[c] = query[c]
    BY <1>1, <1>2, Responds, Zenon
  <2>2. SessionsOK'
    BY <1>1, <2>1 DEF SessionsOK
  <2>3. Handling'
    BY <2>1, Zenon DEF Handling
  <2>4. CacheHoldsOwnReplies'
    BY <1>1, Zenon DEF CacheHoldsOwnReplies
  <2> QED
    BY <1>2, <2>1, <2>2, <2>3, <2>4, Zenon DEF Allowed, Node!Next
<1>3. CASE LookupHit(t)
  <2>1. content[query[t]] = query[t].queryId /\ query[t].interface = Served
    BY <1>1, <1>3, Zenon DEF LookupHit, CacheHoldsOwnReplies
  <2>2. Respond(t, WithData(query[t], query[t].queryId)) /\ UNCHANGED vars
    BY <1>3, <2>1, Zenon DEF LookupHit
  <2> QED
    BY <1>1, <1>2, <2>1, <2>2, OwnResponse, Zenon
<1>4. CASE LookupUnserved(t)
  BY <1>1, <1>2, <1>4, ErrorType, Zenon DEF LookupUnserved
<1>5. CASE LookupMiss(t)
  <2>1. /\ query[t].interface = Served /\ npc' = [npc EXCEPT ![t] = "query"]
        /\ UNCHANGED <<query, sent>>
    BY <1>5, Zenon DEF LookupMiss
  <2>2. Next
    <3>1. query[t].queryId \in QueryIds
      BY <1>1, Zenon DEF NodeQuery
    <3> QED
      BY <1>5, <3>1, Zenon DEF LookupMiss, Next, Query
  <2>3. Pending' = Pending
    BY <1>1, <2>1 DEF Pending, SessionsOK
  <2>4. SessionsOK' /\ Handling' /\ CacheHoldsOwnReplies'
    BY <1>1, <2>1, Zenon DEF SessionsOK, Handling, CacheHoldsOwnReplies
  <2> QED
    BY <2>1, <2>2, <2>3, <2>4 DEF Allowed
<1> QED
  BY <1>3, <1>4, <1>5 DEF HandleLookup

\* The rest of it: whatever query() returned, only a reply that names the query
\* is stored and passed on.
LEMMA ReplyStep ==
    ASSUME NodeIInv, NEW t \in Callers, HandleReply(t)
    PROVE  Allowed
<1> USE DEF NodeIInv
<1>1. /\ npc[t] = "query" /\ UNCHANGED mpc
      /\ query[t] \in NodeQuery /\ query[t].interface = Served
  BY Zenon DEF HandleReply, Handling
<1>2. Next
  BY DEF HandleReply, Next, CallerStep
<1>3. PICK response : /\ Respond(t, response)
                      /\ response \in {WithData(query[t], query[t].queryId), Error(query[t])}
  BY Zenon DEF HandleReply, ReplyRefused, ReplyAccepted
<1>4. /\ response \in {Node!OwnData(query[t]), Node!Refusal(query[t])}
      /\ response \in [query : NodeQuery \cup {NoQuery}, origin : NodeQuery \cup {NoQuery}]
  <2>1. CASE response = WithData(query[t], query[t].queryId)
    BY <1>1, <2>1, OwnResponse, Zenon
  <2>2. CASE response = Error(query[t])
    BY <1>1, <2>2, ErrorType, Zenon
  <2> QED
    BY <1>3, <2>1, <2>2, Zenon
<1>5. /\ Node!Respond(t) \/ Node!Leave(t)
      /\ npc' \in [Callers -> {"none", "recv", "lookup", "query"}]
      /\ query' \in [Callers -> NodeQuery \cup {NoQuery}]
      /\ sent' \in [Callers -> [query : NodeQuery \cup {NoQuery},
                                origin : NodeQuery \cup {NoQuery}]]
      /\ npc'[t] \in {"recv", "none"}
      /\ \A c \in Callers \ {t} : npc'[c] = npc[c] /\ query'[c] = query[c]
  BY <1>1, <1>3, <1>4, Responds, Zenon
<1>6. \/ UNCHANGED content
      \/ /\ content' \in Cache!Forgetting({query[t]})
         /\ content'[query[t]] = query[t].queryId
  BY Zenon DEF HandleReply, ReplyRefused, ReplyAccepted
<1>7. content' \in Cache!Contents
  BY <1>6, Zenon DEF SessionsOK, Cache!Forgetting
<1>8. CacheHoldsOwnReplies'
  <2> SUFFICES ASSUME NEW k \in NodeQuery, content'[k] # None
               PROVE  content'[k] = k.queryId /\ k.interface = Served
    BY Zenon DEF CacheHoldsOwnReplies
  <2>1. CASE k = query[t] /\ content'[query[t]] = query[t].queryId
    BY <1>1, <2>1, Zenon
  <2>2. CASE content'[k] \in {content[k], None}
    BY <2>2, Zenon DEF CacheHoldsOwnReplies
  <2> QED
    BY <1>6, <2>1, <2>2, Zenon DEF Cache!Forgetting
<1>9. SessionsOK' /\ Handling'
  BY <1>1, <1>5, <1>7, Zenon DEF SessionsOK, Handling
<1> QED
  BY <1>2, <1>5, <1>8, <1>9, Zenon DEF Allowed, Node!Next

\* The cache may lose entries at any moment.
LEMMA ForgetStep == ASSUME NodeIInv, CacheForgets PROVE Allowed
<1>1. UNCHANGED <<vars, npc, query, sent, mpc>> /\ content' \in Cache!Forgetting({})
  BY DEF CacheForgets
<1>2. SessionsOK' /\ Handling' /\ CacheHoldsOwnReplies'
  BY <1>1, Zenon DEF NodeIInv, SessionsOK, Handling, CacheHoldsOwnReplies, Cache!Forgetting
<1> QED
  BY <1>1, <1>2 DEF Allowed, NodeIInv, Pending

\* Start, stop and the threads of the client leave the sessions alone.
LEMMA OtherStep ==
    ASSUME NodeIInv, [Next]_vars, UNCHANGED <<npc, query, content, sent>>,
           mpc' \in {"down", "server", "running", "stopping", "clients", "stopped"}
    PROVE  Allowed
BY Zenon DEF Allowed, NodeIInv, SessionsOK, Handling, CacheHoldsOwnReplies, Pending

\* Every step of the node preserves its invariant, is a step of its client or
\* none, and is one that a core node may see.
LEMMA NodeStep == ASSUME NodeIInv, [NodeNext]_<<vars, nodeVars>> PROVE Allowed
<1>1. ASSUME NEW t \in Callers, InQuery(t) PROVE Allowed
  <2>1. Next /\ UNCHANGED nodeVars
    BY <1>1 DEF InQuery, Next, CallerStep
  <2> QED
    BY <2>1, OtherStep DEF nodeVars, NodeIInv, SessionsOK
<1>2. CASE StartServer \/ StopServer \/ StopDone
  <2>1. /\ UNCHANGED <<vars, npc, query, content, sent>>
        /\ mpc' \in {"server", "stopping", "stopped"}
    BY <1>2 DEF StartServer, StopServer, StopDone
  <2> QED
    BY <2>1, OtherStep
<1>3. CASE StartClients \/ StopClients
  <2>1. /\ Next /\ UNCHANGED <<npc, query, content, sent>>
        /\ mpc' \in {"running", "clients"}
    BY <1>3 DEF StartClients, StopClients, Next
  <2> QED
    BY <2>1, OtherStep
<1>4. CASE (StopStep /\ UNCHANGED nodeVars) \/ ClientThreads
  <2>1. Next /\ UNCHANGED nodeVars
    BY <1>4 DEF ClientThreads, Next
  <2> QED
    BY <2>1, OtherStep DEF nodeVars, NodeIInv, SessionsOK
<1>5. CASE UNCHANGED <<vars, nodeVars>>
  BY <1>5, OtherStep DEF nodeVars, NodeIInv, SessionsOK
<1> QED
  BY <1>1, <1>2, <1>3, <1>4, <1>5, SessionStep, LookupStep, ReplyStep, ForgetStep
     DEF NodeNext, HandlerStep, MainStopping

\* The invariant holds, and the query service is in its initial state, when the node starts.
LEMMA NodeInitially == NodeInit => NodeIInv /\ Node!Init
<1> SUFFICES ASSUME NodeInit PROVE NodeIInv /\ Node!Init
  OBVIOUS
<1> USE DEF NodeInit
<1>1. SessionsOK
  BY ErrorType DEF SessionsOK, Cache!Contents
<1>2. Handling /\ CacheHoldsOwnReplies
  BY DEF Handling, CacheHoldsOwnReplies
<1>3. Node!Init
  BY ErrorType DEF Node!Init, Pending
<1> QED
  BY <1>1, <1>2, <1>3 DEF NodeIInv

\* The sessions and the cache keep the node's invariant.
THEOREM NodeInvariance == NodeSpec => []NodeIInv
<1>1. ASSUME NodeIInv, [NodeNext]_<<vars, nodeVars>> PROVE NodeIInv'
  BY <1>1, NodeStep DEF Allowed
<1> QED
  BY <1>1, NodeInitially, PTL DEF NodeSpec

\* RequestHandler, start and stop use the client only as InterfaceClient lets its
\* environment: whatever is proved of the client holds of it inside the node.
THEOREM NodeUsesClient == NodeSpec => Spec
<1>1. NodeInit => Init
  BY DEF NodeInit
<1>2. ASSUME NodeIInv, [NodeNext]_<<vars, nodeVars>> PROVE [Next]_vars
  BY <1>2, NodeStep DEF Allowed
<1> QED
  BY <1>1, <1>2, NodeInvariance, PTL DEF NodeSpec, Spec

\* Sessions, cache and client keep their types.
THEOREM NodeTypeCorrect == NodeSpec => []NodeTypeOK
<1>1. TypeOK /\ NodeIInv => NodeTypeOK
  BY DEF NodeIInv, SessionsOK, NodeTypeOK
<1> QED
  BY <1>1, NodeInvariance, NodeUsesClient, TypeCorrect, PTL

\* RequestHandler stores a reply under the query it was given for, whatever the
\* client has returned.
THEOREM CacheHoldsOwn == NodeSpec => []CacheHoldsOwnReplies
<1>1. NodeIInv => CacheHoldsOwnReplies
  BY DEF NodeIInv
<1> QED
  BY <1>1, NodeInvariance, PTL

\* A core node's queries are answered one at a time, with data given for the
\* query or an error, through the cache, late replies and shutdown.
THEOREM NodeRefinement == NodeSpec => ImplementsQueryService
<1>1. NodeInit => Node!Init
  BY NodeInitially
<1>2. ASSUME NodeIInv, [NodeNext]_<<vars, nodeVars>> PROVE [Node!Next]_<<Pending, sent>>
  BY <1>2, NodeStep DEF Allowed
<1> QED
  BY <1>1, <1>2, NodeInvariance, PTL DEF NodeSpec, ImplementsQueryService, Node!Spec
===============================================================================
