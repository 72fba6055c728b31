--------------------------- MODULE OracleMachineNode ---------------------------
(***************************************************************************)
(* The oracle machine as one system: the session threads of NodeConnection *)
(* run RequestHandler::handle over the shared cache and an InterfaceClient,*)
(* and OracleMachineNode starts and stops them.  The client is the module  *)
(* InterfaceClient, its callers being the session threads.  The cache is   *)
(* the abstract ReplyCache that OracleCache implements.  The TCP server is *)
(* what TcpServer shows of it: stop() shuts every session down and returns *)
(* when all their threads have ended.                                      *)
(*                                                                         *)
(* Left out: packets that handleSession skips or that end the session      *)
(* before a handler runs, and queries too short to parse (no response).    *)
(***************************************************************************)
EXTENDS InterfaceClient

CONSTANTS Interfaces,       \* oracleInterfaceIndex of the queries
          Served            \* the index that has an interface client

ASSUME ServedAssumption == Served \in Interfaces

NodeQuery == [queryId : QueryIds, interface : Interfaces]
NoQuery == None

ASSUME NoQueryAssumption == NoQuery \notin NodeQuery

VARIABLES
    npc,       \* each session thread: none, recv, lookup, query
    query,     \* the query it handles
    content,   \* g_cache: the query id the reply held for a key was given for
    sent,      \* the response to the last query of each open session
    mpc        \* the main thread, OracleMachineNodeImpl

nodeVars == <<npc, query, content, sent, mpc>>

Cache == INSTANCE ReplyCache WITH
             Key <- NodeQuery, Reply <- QueryIds, NoReply <- None,
             content <- content, answer <- [key |-> None, reply |-> None]

NodeTypeOK ==
    /\ TypeOK
    /\ npc \in [Callers -> {"none", "recv", "lookup", "query"}]
    /\ query \in [Callers -> NodeQuery \cup {NoQuery}]
    /\ content \in Cache!Contents
    /\ sent \in [Callers -> [query : NodeQuery \cup {NoQuery}, origin : NodeQuery \cup {NoQuery}]]
    /\ mpc \in {"down", "server", "running", "stopping", "clients", "stopped"}

\* makeResponse with reply data, and makeErrorResponse.
WithData(q, id) == [query |-> q, origin |-> [queryId |-> id, interface |-> Served]]
Error(q) == [query |-> q, origin |-> NoQuery]

NodeInit ==
    /\ Init
    /\ npc = [t \in Callers |-> "none"]
    /\ query = [t \in Callers |-> NoQuery]
    /\ content = [k \in NodeQuery |-> None]
    /\ sent = [t \in Callers |-> Error(NoQuery)]
    /\ mpc = "down"
-------------------------------------------------------------------------------
(* NodeConnection::handleSession *)

OpenSession(t) ==
    /\ mpc \in {"server", "running"}
    /\ npc[t] = "none"
    /\ npc' = [npc EXCEPT ![t] = "recv"]
    /\ UNCHANGED <<vars, query, content, sent, mpc>>

\* The node leaves, sends what cannot be read, or the server shuts the socket down.
CloseSession(t) ==
    /\ npc[t] = "recv"
    /\ npc' = [npc EXCEPT ![t] = "none"]
    /\ sent' = [sent EXCEPT ![t] = Error(NoQuery)]
    /\ UNCHANGED <<vars, query, content, mpc>>

Receive(t, q) ==
    /\ npc[t] = "recv"
    /\ _requestID + Cardinality({c \in Callers : npc[c] = "lookup" \/ cpc[c] = "enqueue"})
           <= MaxQueries               \* bound
    /\ npc' = [npc EXCEPT ![t] = "lookup"]
    /\ query' = [query EXCEPT ![t] = q]
    /\ sent' = [sent EXCEPT ![t] = Error(NoQuery)]
    /\ UNCHANGED <<vars, content, mpc>>

\* sendResponseToNode: the response goes out and the session waits for the next
\* packet, or the send fails, as it does on a socket that was shut down, and the
\* session is no longer active.
Respond(t, response) ==
    /\ query' = [query EXCEPT ![t] = NoQuery]
    /\ \/ /\ mpc # "stopping"
          /\ sent' = [sent EXCEPT ![t] = response]
          /\ npc' = [npc EXCEPT ![t] = "recv"]
       \/ /\ sent' = [sent EXCEPT ![t] = Error(NoQuery)]
          /\ npc' = [npc EXCEPT ![t] = "none"]
-------------------------------------------------------------------------------
(* RequestHandler::handle *)

LookupHit(t) ==
    /\ content[query[t]] # None
    /\ Respond(t, WithData(query[t], content[query[t]]))
    /\ UNCHANGED vars

LookupUnserved(t) ==
    /\ content[query[t]] = None
    /\ query[t].interface # Served
    /\ Respond(t, Error(query[t]))
    /\ UNCHANGED vars

LookupMiss(t) ==
    /\ content[query[t]] = None
    /\ query[t].interface = Served
    /\ \E timeout \in Timeouts : QueryEnter(t, query[t].queryId, timeout)
    /\ npc' = [npc EXCEPT ![t] = "query"]
    /\ UNCHANGED <<query, sent>>

HandleLookup(t) ==
    /\ npc[t] = "lookup"
    /\ LookupHit(t) \/ LookupUnserved(t) \/ LookupMiss(t)
    /\ UNCHANGED <<content, mpc>>

\* query() failed, or its reply names another query or is too small: replies
\* have no size here, so any reply may be refused.
ReplyRefused(t) ==
    /\ Respond(t, Error(query[t]))
    /\ UNCHANGED content

\* Mutant: the reply's query id is not compared with the query's.
ReplyUncompared(t) ==
    /\ ret[t] # None
    /\ content' \in IF ret[t].error = 0
                    THEN {c \in Cache!Forgetting({query[t]}) : c[query[t]] = ret[t].queryId}
                    ELSE {content}
    /\ Respond(t, WithData(query[t], ret[t].queryId))

\* Mutant: the reply is stored before its query id is compared.
ReplyStoredFirst(t) ==
    /\ ret[t] # None
    /\ content' \in IF ret[t].error = 0
                    THEN {c \in Cache!Forgetting({query[t]}) : c[query[t]] = ret[t].queryId}
                    ELSE {content}
    /\ Respond(t, IF ret[t].queryId = query[t].queryId THEN WithData(query[t], ret[t].queryId)
                  ELSE Error(query[t]))

\* The reply is for this query: cache it unless it reports an error, and pass it on.
ReplyAccepted(t) ==
    /\ ret[t] # None
    /\ ret[t].queryId = query[t].queryId
    /\ content' \in IF ret[t].error = 0
                    THEN {c \in Cache!Forgetting({query[t]}) : c[query[t]] = ret[t].queryId}
                    ELSE {content}
    /\ Respond(t, WithData(query[t], ret[t].queryId))

HandleReply(t) ==
    /\ npc[t] = "query"
    /\ CallerDone(t)
    /\ ReplyRefused(t) \/ ReplyAccepted(t)
    /\ UNCHANGED mpc

InQuery(t) ==
    /\ npc[t] = "query"
    /\ AsyncCheck(t) \/ AsyncPush(t) \/ AsyncNotify(t) \/ QueryComplete(t) \/ QueryTimeout(t)
    /\ UNCHANGED nodeVars

HandlerStep(t) == HandleLookup(t) \/ InQuery(t) \/ HandleReply(t)

\* Entries leave the cache at any moment: expiry, eviction, clean-up.
CacheForgets ==
    /\ content' \in Cache!Forgetting({})
    /\ UNCHANGED <<vars, npc, query, sent, mpc>>
-------------------------------------------------------------------------------
(* OracleMachineNodeImpl::start and stop *)

StartServer ==
    /\ mpc = "down"
    /\ mpc' = "server"
    /\ UNCHANGED <<vars, npc, query, content, sent>>

StartClients ==
    /\ mpc = "server"
    /\ Start
    /\ mpc' = "running"
    /\ UNCHANGED <<npc, query, content, sent>>

\* A signal has ended waitForShutdown and the server's stop() has got to the
\* point where no session is accepted any more and all sockets are shut down.
StopServer ==
    /\ mpc = "running"
    /\ mpc' = "stopping"
    /\ UNCHANGED <<vars, npc, query, content, sent>>

\* Mutant: the clients are stopped while sessions are still being served.
StopClientsFirst ==
    /\ mpc = "stopping"
    /\ StopEnter
    /\ mpc' = "clients"
    /\ UNCHANGED <<npc, query, content, sent>>

\* The server's stop() has joined every session thread; now the client's stop().
StopClients ==
    /\ mpc = "stopping"
    /\ \A t \in Callers : npc[t] = "none"
    /\ StopEnter
    /\ mpc' = "clients"
    /\ UNCHANGED <<npc, query, content, sent>>

StopDone ==
    /\ mpc = "clients"
    /\ spc = "stopped"
    /\ mpc' = "stopped"
    /\ UNCHANGED <<vars, npc, query, content, sent>>

MainStopping == StopClients \/ (StopStep /\ UNCHANGED nodeVars) \/ StopDone

ClientThreads ==
    /\ WorkerStep \/ SpuriousWakeup \/ ServiceReply \/ ServiceSkip \/ ServiceClose
    /\ UNCHANGED nodeVars

NodeNext ==
    \/ \E t \in Callers : OpenSession(t) \/ CloseSession(t) \/ HandlerStep(t)
    \/ \E t \in Callers, q \in NodeQuery : Receive(t, q)
    \/ CacheForgets
    \/ StartServer \/ StartClients \/ StopServer \/ MainStopping
    \/ ClientThreads

NodeSpec == NodeInit /\ [][NodeNext]_<<vars, nodeVars>>

\* As FairSpec, and: a session whose socket is shut down leaves its recv.
NodeFairSpec ==
    /\ NodeSpec
    /\ WF_<<vars, nodeVars>>(WorkerStep /\ UNCHANGED nodeVars)
    /\ WF_<<vars, nodeVars>>(MainStopping)
    /\ \A t \in Callers :
           /\ WF_<<vars, nodeVars>>(HandlerStep(t))
           /\ SF_<<vars, nodeVars>>(AsyncPush(t) /\ UNCHANGED nodeVars)
           /\ WF_<<vars, nodeVars>>(CloseSession(t) /\ mpc = "stopping")
-------------------------------------------------------------------------------
(* Properties *)

\* The cache only ever holds replies that the service gave for the key's own
\* query, although replies arrive late, belong to other requests or land in the
\* frame of another query (RequestHandler compares the ids before it stores).
CacheHoldsOwnReplies ==
    \A k \in NodeQuery :
        content[k] # None => content[k] = k.queryId /\ k.interface = Served

Pending == [t \in Callers |-> IF npc[t] \in {"lookup", "query"} THEN query[t] ELSE NoQuery]

Node == INSTANCE QueryService WITH
            Sessions <- Callers, Queries <- NodeQuery, NoQuery <- NoQuery,
            pending <- Pending, sent <- sent

\* Every response a core node gets answers the query it asked, once, with data
\* given for that query or with an error: late replies, late callbacks, the
\* cache and the shutdown never put another query's data into it.
ImplementsQueryService == Node!Spec

\* The handler of every query comes back, also while the machine stops, even
\* if the query has no timeout, unless a late callback has blocked the worker: the
\* clients are stopped only after all sessions have ended.
HandlerReturns ==
    \A t \in Callers : npc[t] = "query" ~> npc[t] # "query" \/ wpc = "hung"

\* The machine stops, whatever its sessions and the service are doing, unless
\* the worker misses stop's notify or a late callback has blocked it.
MachineStops == mpc = "stopping" ~> mpc = "stopped" \/ missed \/ wpc = "hung"
===============================================================================
