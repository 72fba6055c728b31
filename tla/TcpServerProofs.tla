---------------------------- MODULE TcpServerProofs ----------------------------
(***************************************************************************)
(* TcpServer for any sets of descriptors and thread ids: the listed        *)
(* descriptors are live, the clean-up waits for finished threads only, and *)
(* a stopped server is clean.  Each is a consequence of IInv.              *)
(***************************************************************************)
EXTENDS TcpServer, TLAPS

InHand == {"filter", "push", "cleanup", "join", "spawn"}
Past == {"remove", "close", "ended"}

\* The descriptor in hand and the descriptors of the threads are the sessions,
\* and no two coincide.
Descriptors ==
    /\ client_fd # NoFD <=> apc \in InHand
    /\ \A t \in Tids : Alive(t) <=> sessionFD[t] # NoFD
    /\ client_fd # NoFD =>
           owner[client_fd] = "session" /\ \A t \in Tids : sessionFD[t] # client_fd
    /\ \A t \in Tids : sessionFD[t] # NoFD => owner[sessionFD[t]] = "session"
    /\ \A t, u \in Tids : sessionFD[t] # NoFD /\ sessionFD[t] = sessionFD[u] => t = u
    /\ \A fd \in FDs : owner[fd] = "session" =>
           fd = client_fd \/ \E t \in Tids : sessionFD[t] = fd

Listed ==
    \A fd \in _activeClientFDs :
        \/ fd = client_fd /\ apc \in {"cleanup", "join", "spawn"}
        \/ \E t \in Tids : sessionFD[t] = fd /\ tpc[t] \in {"session", "mark", "remove"}

\* Every existing thread is in exactly one list, and the finished ones are past
\* their session.  stop() empties the lists only after its joins.
Threads ==
    /\ \A t \in Tids : tpc[t] # "none" => t \in _clientThreads \cup threadsToJoin
    /\ \A t \in threadsToJoin : tpc[t] \in Past /\ t \notin _clientThreads
    /\ threadsToJoin # {} => apc = "join"
    /\ _finishedThreadIds \subseteq _clientThreads
    /\ spc # "clear" =>
           /\ \A t \in _clientThreads : tpc[t] # "none"
           /\ \A t \in _finishedThreadIds : tpc[t] \in Past

Stages ==
    /\ spc \in {"shutdown", "joinClients", "clear", "stopped"} => apc = "exited"
    /\ spc = "down" => apc = "none"
    /\ spc \in {"down", "clear", "stopped"} => \A t \in Tids : tpc[t] = "none"
    /\ spc \in {"down", "stopped"} => _clientThreads = {} /\ _activeClientFDs = {}

\* The inductive invariant.
IInv == TypeOK /\ Descriptors /\ Listed /\ Threads /\ Stages

\* Every step preserves IInv.
LEMMA Induction == IInv /\ [Next]_vars => IInv'
<1> SUFFICES ASSUME IInv, [Next]_vars PROVE IInv'
    OBVIOUS
<1> USE NoFDAssumption
    DEF IInv, TypeOK, Descriptors, Listed, Threads, Stages, Alive, InHand, Past,
        AcceptPC, ThreadPC, StopPC, flagVars, listVars, acceptVars, threadVars
<1>1. CASE AcceptTest
  BY <1>1 DEF AcceptTest
<1>2. CASE PollAgain
  BY <1>2 DEF PollAgain
<1>3. CASE AcceptFails
  BY <1>3 DEF AcceptFails
<1>4. CASE Reject
  BY <1>4 DEF Reject, CloseFD
<1>5. CASE Admit
  BY <1>5 DEF Admit
<1>6. CASE PushClientFD
  BY <1>6 DEF PushClientFD
<1>7. CASE CleanupCollect
  BY <1>7 DEF CleanupCollect
<1>8. CASE CleanupJoin
  <2>1. TypeOK'
    BY <1>8 DEF CleanupJoin, Ended, Joined
  <2>2. Descriptors'
    BY <1>8 DEF CleanupJoin, Ended, Joined
  <2>3. Listed'
    BY <1>8 DEF CleanupJoin, Ended, Joined
  <2>4. Threads'
    BY <1>8 DEF CleanupJoin, Ended, Joined
  <2>5. Stages'
    BY <1>8 DEF CleanupJoin, Ended, Joined
  <2> QED
    BY <2>1, <2>2, <2>3, <2>4, <2>5
<1>9. ASSUME NEW fd \in FDs, Accept(fd) PROVE IInv'
  <2>1. TypeOK'
    BY <1>9 DEF Accept
  <2>2. Descriptors'
    BY <1>9 DEF Accept
  <2>3. Listed'
    BY <1>9 DEF Accept
  <2>4. Threads'
    BY <1>9 DEF Accept
  <2>5. Stages'
    BY <1>9 DEF Accept
  <2> QED
    BY <2>1, <2>2, <2>3, <2>4, <2>5
<1>10. ASSUME NEW t \in Tids, SpawnClientThread(t) PROVE IInv'
  <2>1. TypeOK'
    BY <1>10 DEF SpawnClientThread
  <2>2. Descriptors'
    BY <1>10 DEF SpawnClientThread
  <2>3. Listed'
    BY <1>10 DEF SpawnClientThread
  <2>4. Threads'
    BY <1>10 DEF SpawnClientThread
  <2>5. Stages'
    BY <1>10 DEF SpawnClientThread
  <2> QED
    BY <2>1, <2>2, <2>3, <2>4, <2>5
<1>11. ASSUME NEW t \in Tids, SessionEnds(t) PROVE IInv'
  BY <1>11 DEF SessionEnds
<1>12. ASSUME NEW t \in Tids, MarkFinished(t) PROVE IInv'
  BY <1>12 DEF MarkFinished
<1>13. ASSUME NEW t \in Tids, removeClientFD(t) PROVE IInv'
  <2>1. TypeOK'
    BY <1>13 DEF removeClientFD
  <2>2. Descriptors'
    BY <1>13 DEF removeClientFD
  <2>3. Listed'
    BY <1>13 DEF removeClientFD
  <2>4. Threads'
    BY <1>13 DEF removeClientFD
  <2>5. Stages'
    BY <1>13 DEF removeClientFD
  <2> QED
    BY <2>1, <2>2, <2>3, <2>4, <2>5
<1>14. ASSUME NEW t \in Tids, SessionDestroyed(t) PROVE IInv'
  <2>1. TypeOK'
    BY <1>14 DEF SessionDestroyed, CloseFD
  <2>2. Descriptors'
    BY <1>14 DEF SessionDestroyed, CloseFD
  <2>3. Listed'
    BY <1>14 DEF SessionDestroyed, CloseFD
  <2>4. Threads'
    BY <1>14 DEF SessionDestroyed, CloseFD
  <2>5. Stages'
    BY <1>14 DEF SessionDestroyed, CloseFD
  <2> QED
    BY <2>1, <2>2, <2>3, <2>4, <2>5
<1>15. CASE Start
  <2>1. TypeOK'
    BY <1>15 DEF Start
  <2>2. Descriptors'
    BY <1>15 DEF Start
  <2>3. Listed'
    BY <1>15 DEF Start
  <2>4. Threads'
    BY <1>15 DEF Start
  <2>5. Stages'
    BY <1>15 DEF Start
  <2> QED
    BY <2>1, <2>2, <2>3, <2>4, <2>5
<1>16. CASE StopRequest
  BY <1>16 DEF StopRequest
<1>17. CASE StopCloseServer
  <2>1. TypeOK'
    BY <1>17 DEF StopCloseServer
  <2>2. Descriptors'
    BY <1>17 DEF StopCloseServer
  <2>3. Listed'
    BY <1>17 DEF StopCloseServer
  <2>4. Threads'
    BY <1>17 DEF StopCloseServer
  <2>5. Stages'
    BY <1>17 DEF StopCloseServer
  <2> QED
    BY <2>1, <2>2, <2>3, <2>4, <2>5
<1>18. CASE StopJoinAccept
  BY <1>18 DEF StopJoinAccept
<1>19. CASE StopShutdownClients
  BY <1>19 DEF StopShutdownClients
<1>20. CASE StopJoinClients
  BY <1>20 DEF StopJoinClients, Ended, Joined
<1>21. CASE StopClear
  <2>1. TypeOK'
    BY <1>21 DEF StopClear
  <2>2. Descriptors'
    BY <1>21 DEF StopClear
  <2>3. Listed'
    BY <1>21 DEF StopClear
  <2>4. Threads'
    BY <1>21 DEF StopClear
  <2>5. Stages'
    BY <1>21 DEF StopClear
  <2> QED
    BY <2>1, <2>2, <2>3, <2>4, <2>5
<1>22. ASSUME NEW fd \in FDs, OtherOpen(fd) PROVE IInv'
  BY <1>22 DEF OtherOpen
<1>23. ASSUME NEW fd \in FDs, OtherClose(fd) PROVE IInv'
  BY <1>23 DEF OtherClose
<1>24. CASE UNCHANGED vars
  BY <1>24 DEF vars
<1> QED
  BY <1>1, <1>2, <1>3, <1>4, <1>5, <1>6, <1>7, <1>8, <1>9, <1>10, <1>11, <1>12,
     <1>13, <1>14, <1>15, <1>16, <1>17, <1>18, <1>19, <1>20, <1>21, <1>22, <1>23, <1>24
     DEF Next, AcceptStep, ClientCleanup, StopStep


\* The invariant behind the theorems below holds in every reachable state.
THEOREM Invariance == Spec => []IInv
<1>1. Init => IInv
  BY NoFDAssumption
     DEF Init, IInv, TypeOK, Descriptors, Listed, Threads, Stages, Alive, InHand, Past,
         AcceptPC, ThreadPC, StopPC
<1> QED
  BY <1>1, Induction, PTL DEF Spec

\* Type correctness of the server's state, for any descriptors and threads.
THEOREM TypeCorrect == Spec => []TypeOK
<1>1. IInv => TypeOK
  BY DEF IInv
<1> QED
  BY <1>1, Invariance, PTL

\* stop() never shuts down a descriptor that is not a live session's own,
\* however descriptors are reused (acceptLoop, clientThread, removeClientFD).
THEOREM ListedLive == Spec => []ListedFDsAreLive
<1>1. IInv => ListedFDsAreLive
  BY NoFDAssumption
     DEF IInv, TypeOK, Descriptors, Listed, ListedFDsAreLive, Alive, InHand
<1> QED
  BY <1>1, Invariance, PTL

\* The accept loop never waits for a thread that is still in its session,
\* however thread ids are reused (cleanupFinishedThreads).
THEOREM CleanupSafe == Spec => []CleanupWaitsForFinishedOnly
<1>1. IInv => CleanupWaitsForFinishedOnly
  BY DEF IInv, Threads, Past, CleanupWaitsForFinishedOnly
<1> QED
  BY <1>1, Invariance, PTL

\* When stop() has returned, no thread and no socket of the server is left.
THEOREM StopClean == Spec => []StoppedIsClean
<1>1. IInv => StoppedIsClean
  BY NoFDAssumption
     DEF IInv, TypeOK, Descriptors, Stages, StoppedIsClean, Alive, InHand
<1> QED
  BY <1>1, Invariance, PTL
===============================================================================
