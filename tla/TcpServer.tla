------------------------------ MODULE TcpServer ------------------------------
(***************************************************************************)
(* libs/om_network/src/tcp_server.cpp: the accept loop, one thread per     *)
(* accepted connection, and stop().  The operating system reuses both the  *)
(* descriptor of a closed socket and the id of a joined thread, so both    *)
(* come from small sets.  _clientThreads is touched by the accept loop and,*)
(* after joining it, by stop(); _finishedThreadIds and _activeClientFDs    *)
(* are shared under their mutexes, each critical section being one step.   *)
(***************************************************************************)
EXTENDS FiniteSets

CONSTANTS FDs,     \* descriptors a socket may get
          Tids,    \* std::thread::id of client threads
          NoFD

ASSUME NoFDAssumption == NoFD \notin FDs

VARIABLES
    _running, _stopRequested,
    listening,           \* _serverFD is open
    _activeClientFDs,
    _clientThreads,
    _finishedThreadIds,
    apc, client_fd,      \* the accept loop and its accepted descriptor
    threadsToJoin,       \* ... and the local of cleanupFinishedThreads
    tpc, sessionFD,      \* the client threads and the descriptor each owns
    owner,               \* what each descriptor is: free, session or other
    shut,                \* descriptors that shutdown() was called on
    spc                  \* the thread that runs start() and stop()

acceptVars == <<apc, client_fd, threadsToJoin>>
threadVars == <<tpc, sessionFD>>
listVars   == <<_activeClientFDs, _clientThreads, _finishedThreadIds>>
flagVars   == <<_running, _stopRequested, listening, spc>>
vars == <<flagVars, listVars, acceptVars, threadVars, owner, shut>>

AcceptPC == {"none", "test", "poll", "filter", "push", "cleanup", "join", "spawn", "exited"}
ThreadPC == {"none", "session", "mark", "remove", "close", "ended"}
StopPC   == {"down", "up", "closeServer", "joinAccept", "shutdown", "joinClients", "clear", "stopped"}

TypeOK ==
    /\ _running \in BOOLEAN /\ _stopRequested \in BOOLEAN /\ listening \in BOOLEAN
    /\ _activeClientFDs \subseteq FDs
    /\ _clientThreads \subseteq Tids
    /\ _finishedThreadIds \subseteq Tids
    /\ apc \in AcceptPC
    /\ client_fd \in FDs \cup {NoFD}
    /\ threadsToJoin \subseteq Tids
    /\ tpc \in [Tids -> ThreadPC]
    /\ sessionFD \in [Tids -> FDs \cup {NoFD}]
    /\ owner \in [FDs -> {"free", "session", "other"}]
    /\ shut \subseteq FDs
    /\ spc \in StopPC

Init ==
    /\ _running = FALSE /\ _stopRequested = FALSE /\ listening = FALSE
    /\ _activeClientFDs = {} /\ _clientThreads = {} /\ _finishedThreadIds = {}
    /\ apc = "none" /\ client_fd = NoFD /\ threadsToJoin = {}
    /\ tpc = [t \in Tids |-> "none"]
    /\ sessionFD = [t \in Tids |-> NoFD]
    /\ owner = [fd \in FDs |-> "free"]
    /\ shut = {}
    /\ spc = "down"

\* close(fd): the descriptor may be handed out again.
CloseFD(fd) ==
    /\ owner' = [owner EXCEPT ![fd] = "free"]
    /\ shut' = shut \ {fd}

Ended(T) == \A t \in T : tpc[t] = "ended"

\* join() returned for the threads of T: their ids are free again.
Joined(T) == tpc' = [t \in Tids |-> IF t \in T THEN "none" ELSE tpc[t]]
-------------------------------------------------------------------------------
(* acceptLoop() *)

AcceptTest ==
    /\ apc = "test"
    /\ apc' = IF _stopRequested THEN "exited" ELSE "poll"
    /\ UNCHANGED <<flagVars, listVars, client_fd, threadsToJoin, threadVars, owner, shut>>

\* poll() times out or fails.
PollAgain ==
    /\ apc = "poll"
    /\ apc' = "test"
    /\ UNCHANGED <<flagVars, listVars, client_fd, threadsToJoin, threadVars, owner, shut>>

\* accept() fails, as it does once stop() has closed the socket.
AcceptFails ==
    /\ apc = "poll"
    /\ apc' = IF _stopRequested THEN "exited" ELSE "test"
    /\ UNCHANGED <<flagVars, listVars, client_fd, threadsToJoin, threadVars, owner, shut>>

Accept(fd) ==
    /\ apc = "poll"
    /\ listening
    /\ \E t \in Tids : tpc[t] = "none"      \* bound: a thread id is left
    /\ owner[fd] = "free"
    /\ owner' = [owner EXCEPT ![fd] = "session"]
    /\ client_fd' = fd
    /\ apc' = "filter"
    /\ UNCHANGED <<flagVars, listVars, threadsToJoin, threadVars, shut>>

\* _connectionFilter refuses the address.
Reject ==
    /\ apc = "filter"
    /\ CloseFD(client_fd)
    /\ client_fd' = NoFD
    /\ apc' = "test"
    /\ UNCHANGED <<flagVars, listVars, threadsToJoin, threadVars>>

Admit ==
    /\ apc = "filter"
    /\ apc' = "push"
    /\ UNCHANGED <<flagVars, listVars, client_fd, threadsToJoin, threadVars, owner, shut>>

PushClientFD ==
    /\ apc = "push"
    /\ _activeClientFDs' = _activeClientFDs \cup {client_fd}
    /\ apc' = "cleanup"
    /\ UNCHANGED <<flagVars, _clientThreads, _finishedThreadIds, client_fd, threadsToJoin,
                   threadVars, owner, shut>>

\* Mutant: the id of a thread about to be joined stays in _finishedThreadIds.
CleanupKeepingIds ==
    /\ apc = "cleanup"
    /\ threadsToJoin' = _clientThreads \cap _finishedThreadIds
    /\ _clientThreads' = _clientThreads \ _finishedThreadIds
    /\ apc' = "join"
    /\ UNCHANGED <<flagVars, _activeClientFDs, _finishedThreadIds, client_fd, threadVars, owner, shut>>

\* cleanupFinishedThreads, under _threadsMutex: move the finished threads out.
CleanupCollect ==
    /\ apc = "cleanup"
    /\ threadsToJoin' = _clientThreads \cap _finishedThreadIds
    /\ _clientThreads' = _clientThreads \ _finishedThreadIds
    /\ _finishedThreadIds' = _finishedThreadIds \ _clientThreads
    /\ apc' = "join"
    /\ UNCHANGED <<flagVars, _activeClientFDs, client_fd, threadVars, owner, shut>>

\* ... and join them, outside the mutex.
CleanupJoin ==
    /\ apc = "join"
    /\ Ended(threadsToJoin)
    /\ Joined(threadsToJoin)
    /\ threadsToJoin' = {}
    /\ apc' = "spawn"
    /\ UNCHANGED <<flagVars, listVars, client_fd, sessionFD, owner, shut>>

SpawnClientThread(t) ==
    /\ apc = "spawn"
    /\ tpc[t] = "none"
    /\ tpc' = [tpc EXCEPT ![t] = "session"]
    /\ sessionFD' = [sessionFD EXCEPT ![t] = client_fd]
    /\ _clientThreads' = _clientThreads \cup {t}
    /\ client_fd' = NoFD
    /\ apc' = "test"
    /\ UNCHANGED <<flagVars, _activeClientFDs, _finishedThreadIds, threadsToJoin, owner, shut>>

AcceptStep ==
    \/ AcceptTest \/ PollAgain \/ AcceptFails
    \/ Reject \/ Admit \/ PushClientFD \/ CleanupCollect \/ CleanupJoin
    \/ \E fd \in FDs : Accept(fd)
    \/ \E t \in Tids : SpawnClientThread(t)
-------------------------------------------------------------------------------
(* clientThread() *)

\* handleSession returns: the peer is gone, the session failed, or shutdown()
\* unblocked its recv.
SessionEnds(t) ==
    /\ tpc[t] = "session"
    /\ tpc' = [tpc EXCEPT ![t] = "mark"]
    /\ UNCHANGED <<flagVars, listVars, acceptVars, sessionFD, owner, shut>>

MarkFinished(t) ==
    /\ tpc[t] = "mark"
    /\ _finishedThreadIds' = _finishedThreadIds \cup {t}
    /\ tpc' = [tpc EXCEPT ![t] = "remove"]
    /\ UNCHANGED <<flagVars, _activeClientFDs, _clientThreads, acceptVars, sessionFD, owner, shut>>

\* Mutant: the Session is destroyed before its descriptor leaves the list.
removeClientFDLate(t) ==
    /\ tpc[t] = "remove"
    /\ CloseFD(sessionFD[t])
    /\ tpc' = [tpc EXCEPT ![t] = "close"]
    /\ UNCHANGED <<flagVars, listVars, acceptVars, sessionFD>>

removeClientFD(t) ==
    /\ tpc[t] = "remove"
    /\ _activeClientFDs' = _activeClientFDs \ {sessionFD[t]}
    /\ tpc' = [tpc EXCEPT ![t] = "close"]
    /\ UNCHANGED <<flagVars, _clientThreads, _finishedThreadIds, acceptVars, sessionFD, owner, shut>>

\* The Session on the thread's stack is destroyed and closes its descriptor.
SessionDestroyed(t) ==
    /\ tpc[t] = "close"
    /\ CloseFD(sessionFD[t])
    /\ sessionFD' = [sessionFD EXCEPT ![t] = NoFD]
    /\ tpc' = [tpc EXCEPT ![t] = "ended"]
    /\ UNCHANGED <<flagVars, listVars, acceptVars>>

ClientCleanup(t) == MarkFinished(t) \/ removeClientFD(t) \/ SessionDestroyed(t)
-------------------------------------------------------------------------------
(* start() and stop() *)

\* A socket, bind or listen that fails leaves the server as it was.
Start ==
    /\ spc \in {"down", "stopped"}
    /\ listening' = TRUE /\ _running' = TRUE /\ _stopRequested' = FALSE
    /\ apc' = "test"
    /\ spc' = "up"
    /\ UNCHANGED <<listVars, client_fd, threadsToJoin, threadVars, owner, shut>>

StopRequest ==
    /\ spc = "up"
    /\ _stopRequested' = TRUE
    /\ spc' = "closeServer"
    /\ UNCHANGED <<_running, listening, listVars, acceptVars, threadVars, owner, shut>>

StopCloseServer ==
    /\ spc = "closeServer"
    /\ listening' = FALSE
    /\ spc' = "joinAccept"
    /\ UNCHANGED <<_running, _stopRequested, listVars, acceptVars, threadVars, owner, shut>>

\* Mutant: the clients are shut down without waiting for the accept loop.
StopJoinAcceptLater ==
    /\ spc = "joinAccept"
    /\ spc' = "shutdown"
    /\ UNCHANGED <<_running, _stopRequested, listening, listVars, acceptVars, threadVars, owner, shut>>

StopJoinAccept ==
    /\ spc = "joinAccept"
    /\ apc = "exited"
    /\ spc' = "shutdown"
    /\ UNCHANGED <<_running, _stopRequested, listening, listVars, acceptVars, threadVars, owner, shut>>

StopShutdownClients ==
    /\ spc = "shutdown"
    /\ shut' = shut \cup _activeClientFDs
    /\ spc' = "joinClients"
    /\ UNCHANGED <<_running, _stopRequested, listening, listVars, acceptVars, threadVars, owner>>

\* Mutant: only the threads that have announced their end are joined.
StopJoinFinished ==
    /\ spc = "joinClients"
    /\ Ended(_clientThreads \cap _finishedThreadIds)
    /\ Joined(_clientThreads \cap _finishedThreadIds)
    /\ spc' = "clear"
    /\ UNCHANGED <<_running, _stopRequested, listening, listVars, acceptVars, sessionFD, owner, shut>>

StopJoinClients ==
    /\ spc = "joinClients"
    /\ Ended(_clientThreads)
    /\ Joined(_clientThreads)
    /\ spc' = "clear"
    /\ UNCHANGED <<_running, _stopRequested, listening, listVars, acceptVars, sessionFD, owner, shut>>

StopClear ==
    /\ spc = "clear"
    /\ _clientThreads' = {} /\ _finishedThreadIds' = {} /\ _activeClientFDs' = {}
    /\ _running' = FALSE
    /\ spc' = "stopped"
    /\ UNCHANGED <<_stopRequested, listening, acceptVars, threadVars, owner, shut>>

StopStep ==
    \/ StopCloseServer \/ StopJoinAccept \/ StopShutdownClients \/ StopJoinClients \/ StopClear
-------------------------------------------------------------------------------
(* The rest of the process opens and closes descriptors too (external). *)

OtherOpen(fd) ==
    /\ owner[fd] = "free"
    /\ owner' = [owner EXCEPT ![fd] = "other"]
    /\ UNCHANGED <<flagVars, listVars, acceptVars, threadVars, shut>>

OtherClose(fd) ==
    /\ owner[fd] = "other"
    /\ owner' = [owner EXCEPT ![fd] = "free"]
    /\ shut' = shut \ {fd}
    /\ UNCHANGED <<flagVars, listVars, acceptVars, threadVars>>

Next ==
    \/ AcceptStep
    \/ \E t \in Tids : SessionEnds(t) \/ ClientCleanup(t)
    \/ Start \/ StopRequest \/ StopStep
    \/ \E fd \in FDs : OtherOpen(fd) \/ OtherClose(fd)

Spec == Init /\ [][Next]_vars

\* Threads that can run do run.  A session need not end by itself; it ends once
\* its socket is shut down, since that unblocks every recv and send on it.
FairSpec ==
    /\ Spec
    /\ WF_vars(AcceptStep)
    /\ WF_vars(StopStep)
    /\ \A t \in Tids :
           /\ WF_vars(ClientCleanup(t))
           /\ WF_vars(SessionEnds(t) /\ sessionFD[t] \in shut)
-------------------------------------------------------------------------------
(* Properties *)

Alive(t) == tpc[t] \in {"session", "mark", "remove", "close"}

\* Every descriptor stop() would shut down is the open socket of one client
\* thread that has not destroyed its Session, or the one just accepted: never
\* one that was closed and has been reused (the order push, removeClientFD, close).
ListedFDsAreLive ==
    \A fd \in _activeClientFDs :
        /\ owner[fd] = "session"
        /\ fd = client_fd \/ \E t \in Tids : Alive(t) /\ sessionFD[t] = fd
        /\ \A t, u \in Tids : sessionFD[t] = fd /\ sessionFD[u] = fd => t = u

\* cleanupFinishedThreads only ever waits for threads that are past their
\* session, although thread ids are reused: the accept loop does not depend on
\* any client to go on.
CleanupWaitsForFinishedOnly ==
    \A t \in threadsToJoin : tpc[t] \in {"remove", "close", "ended"}

\* After stop() no client thread runs, none is left unjoined and every socket
\* of the server is closed, whatever was being accepted when it was called.
StoppedIsClean ==
    spc = "stopped" =>
        /\ \A t \in Tids : tpc[t] = "none"
        /\ \A fd \in FDs : owner[fd] # "session"
        /\ apc = "exited"

\* stop() always comes back, whichever connections are being accepted, cleaned
\* up or served when it is called.
StopReturns == spc = "closeServer" ~> spc = "stopped"
===============================================================================
