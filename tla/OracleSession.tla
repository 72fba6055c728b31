----------------------------- MODULE OracleSession -----------------------------
(***************************************************************************)
(* A connection of the oracle machine as a stream of bytes, and the three  *)
(* loops that read one: handleSession of node/src/node_connection.cpp,     *)
(* which a core node talks to; handleSession of                            *)
(* oracles/core/base_oracle_service.cpp, which reads packets of the one    *)
(* size its interface has; and serve of the Python services.               *)
(*                                                                         *)
(* The stream is a sequence of cells.  It arrives in pieces of any size    *)
(* and with any delay, so a receive may time out between two messages or   *)
(* in the middle of one.  InterfaceClient takes for granted what is        *)
(* checked here: the replies of a connection come in the order of its      *)
(* queries.                                                                *)
(***************************************************************************)
EXTENDS Integers, Sequences, Functions

CONSTANTS HeaderSize,  \* cells of a RequestResponseHeader
          QuerySize,   \* cells of a query packet of the interface
          MinQuery,    \* cells of an OracleMachineQuery
          MaxFrame,    \* the largest size a header may state, in cells
          Messages,    \* what the peer sends: [query, size, interface]
          MaxSent      \* bound on the messages

ASSUME SessionAssumption ==
    /\ HeaderSize \in Nat \ {0} /\ MinQuery \in Nat /\ QuerySize \in Nat
    /\ HeaderSize + MinQuery <= QuerySize
    /\ MaxFrame \in Nat /\ MaxSent \in Nat
    /\ Messages \subseteq [query : BOOLEAN, size : Nat, interface : BOOLEAN]

VARIABLES
    reader,   \* the loop: "node", "service" or "python"; does not change
    sent,     \* the messages of the peer so far (history)
    stream,   \* the cells not yet read: <<message, place in the message>>
    eof,      \* the peer, or the server as it stops, has shut the connection
    got,      \* the cells of the receive that is going on
    header,   \* the header read and decoded, if its body is next
    ended,    \* why the session has ended, "no" while it goes on
    replies   \* the message each reply answers, 0 if it is none's

peerVars == <<reader, sent, eof>>
vars == <<peerVars, stream, got, header, ended, replies>>

Cell == Nat \X Nat
Decoded == [id : Nat, message : Messages]

TypeOK ==
    /\ reader \in {"node", "service", "python"}
    /\ sent \in Seq(Messages) /\ Len(sent) <= MaxSent
    /\ stream \in Seq(Cell) /\ got \in Seq(Cell)
    /\ eof \in BOOLEAN
    /\ header \in Seq(Decoded) /\ Len(header) <= 1
    /\ ended \in {"no", "eof", "timeout", "size", "send"}
    /\ replies \in Seq(0..Len(sent))

Init ==
    /\ reader \in {"node", "service", "python"}
    /\ sent = <<>> /\ stream = <<>> /\ eof = FALSE
    /\ got = <<>> /\ header = <<>> /\ ended = "no" /\ replies = <<>>
-------------------------------------------------------------------------------
(* The peer *)

\* A header is always sent whole, whatever size it states.
Cells(m) == IF m.size < HeaderSize THEN HeaderSize ELSE m.size

Send(m) ==
    /\ ~eof /\ Len(sent) < MaxSent      \* bound
    /\ sent' = Append(sent, m)
    /\ stream' = stream \o [k \in 1..Cells(m) |-> <<Len(sent) + 1, k>>]
    /\ UNCHANGED <<reader, eof, got, header, ended, replies>>

Close ==
    /\ ~eof /\ eof' = TRUE
    /\ UNCHANGED <<reader, sent, stream, got, header, ended, replies>>
-------------------------------------------------------------------------------
(* Session::receiveExact and recv_exact *)

\* Mutant: the body of a message that is skipped stays in the stream.
BodyOfQueries(m) == IF m.query THEN m.size - HeaderSize ELSE 0

\* The cells of a body.
Body(m) == m.size - HeaderSize

\* The cells the receive that is going on asks for.
Want == IF header # <<>> THEN Body(header[1].message)
        ELSE IF reader = "service" THEN QuerySize ELSE HeaderSize

Receiving == ended = "no" /\ Len(got) < Want

\* Some cells have come: recv gives what there is, up to what is asked for.
Receive ==
    /\ Receiving
    /\ \E n \in 1..Len(stream) :
          /\ n <= Want - Len(got)
          /\ got' = got \o SubSeq(stream, 1, n)
          /\ stream' = SubSeq(stream, n + 1, Len(stream))
    /\ UNCHANGED <<peerVars, header, ended, replies>>

\* The node asks for a header again as long as not one byte of it has come.
SurvivesTimeout == reader = "node" /\ header = <<>> /\ got = <<>>

\* The time-out of the socket ends the receive with the cells it has.
Timeout ==
    /\ Receiving
    /\ ended' = IF SurvivesTimeout THEN "no" ELSE "timeout"
    /\ UNCHANGED <<peerVars, stream, got, header, replies>>

\* recv says that the connection is closed.
EndOfFile ==
    /\ Receiving /\ eof /\ stream = <<>>
    /\ ended' = "eof"
    /\ UNCHANGED <<peerVars, stream, got, header, replies>>
-------------------------------------------------------------------------------
(* What becomes of the cells *)

\* What a header is taken for: cells from the middle of a message can be anything.
Decode(cells) ==
    IF \A k \in 1..HeaderSize : cells[k] = <<cells[1][1], k>>
    THEN {[id |-> cells[1][1], message |-> sent[cells[1][1]]]}
    ELSE [id : {0}, message : Messages]

\* Mutant: the query id is not copied into the reply.
AnswerUnset(id) ==
    \/ replies' = Append(replies, -1) /\ UNCHANGED ended
    \/ ended' = "send" /\ UNCHANGED replies

\* The reply goes out with the id of the query, or sending fails and ends the session.
Answer(id) ==
    \/ replies' = Append(replies, id) /\ UNCHANGED ended
    \/ ended' = "send" /\ UNCHANGED replies

Skip == UNCHANGED <<ended, replies>>

\* A query of this interface, in the size it has.
Ours(m) == m.query /\ m.size = QuerySize /\ m.interface

\* Mutant: a query is answered only if its interface is served.
NodeAnswersServed(m) == m.query /\ Body(m) >= MinQuery /\ m.interface

\* RequestHandler::handle has a reply to every query that is long enough to have
\* an id, of an interface that is not served as well.
NodeAnswers(m) == m.query /\ Body(m) >= MinQuery

\* Mutant: a packet without an id of its own is answered with that of the last query.
HandlePacketStale ==
    /\ reader = "service" /\ ended = "no"
    /\ Len(got) = QuerySize
    /\ got' = <<>>
    /\ \E d \in Decode(got) :
          IF d.message.query
          THEN Answer(IF d.id = 0 /\ replies # <<>> THEN replies[Len(replies)] ELSE d.id)
          ELSE Skip
    /\ UNCHANGED <<peerVars, stream, header>>

\* BaseOracleService: parseQueryPacket looks at the type only, and processQuery
\* always has a reply.
HandlePacket ==
    /\ reader = "service" /\ ended = "no"
    /\ Len(got) = QuerySize
    /\ got' = <<>>
    /\ \E d \in Decode(got) : IF d.message.query THEN Answer(d.id) ELSE Skip
    /\ UNCHANGED <<peerVars, stream, header>>

\* NodeConnection and serve: a size that cannot be right ends the session.
ReadHeader ==
    /\ reader # "service" /\ ended = "no" /\ header = <<>>
    /\ Len(got) = HeaderSize
    /\ \E d \in Decode(got) :
          \/ /\ d.message.size \notin HeaderSize..MaxFrame
             /\ ended' = "size" /\ UNCHANGED <<got, header>>
          \/ /\ d.message.size \in HeaderSize..MaxFrame
             /\ header' = <<d>> /\ got' = <<>> /\ UNCHANGED ended
    /\ UNCHANGED <<peerVars, stream, replies>>

\* The body is read whatever the message is; what is not for this reader is skipped.
ReadBody ==
    /\ reader # "service" /\ ended = "no" /\ header # <<>>
    /\ Len(got) = Want
    /\ LET d == header[1]
           mine == IF reader = "node" THEN NodeAnswers(d.message) ELSE Ours(d.message)
       IN  IF mine THEN Answer(d.id) ELSE Skip
    /\ header' = <<>> /\ got' = <<>>
    /\ UNCHANGED <<peerVars, stream>>
-------------------------------------------------------------------------------
Serve == Receive \/ EndOfFile \/ HandlePacket \/ ReadHeader \/ ReadBody
Next == (\E m \in Messages : Send(m)) \/ Close \/ Timeout \/ Serve

Spec == Init /\ [][Next]_vars

\* The session thread runs, and what has been sent arrives.
FairSpec == Spec /\ WF_vars(Serve)
-------------------------------------------------------------------------------
(* Properties *)

\* The messages the reader is to answer.
ToAnswer(m) == CASE reader = "node" -> m.query /\ m.size >= HeaderSize + MinQuery
                 [] reader = "service" -> m.query
                 [] reader = "python" -> Ours(m)
Due == {k \in 1..Len(sent) : ToAnswer(sent[k])}

\* BaseOracleService counts on the node to send packets of its size only.
InStep == reader = "service" => \A k \in 1..Len(sent) : sent[k].size = QuerySize

\* The reader is done with message k.
Handled(k) ==
    /\ \A c \in Range(stream) \cup Range(got) : c[1] # k
    /\ \A d \in Range(header) : d.id # k

\* At every moment the replies are exactly those to the queries read so far, one
\* each and in order, whatever lies between the queries, in whatever pieces it
\* arrives and whichever receive times out; only the last one may be missing,
\* when it could not be sent.  The service's loop has this as long as all
\* messages have the size of its packets.  This is what lets sendAndReceive, and
\* the core node, take the next reply for its own.
AnswersInOrder ==
    InStep =>
        LET answered == {k \in Due : Handled(k)}
            butLast == {k \in answered : \E later \in answered : k < later}
        IN  /\ \A j, k \in 1..Len(replies) : j < k => replies[j] < replies[k]
            /\ Range(replies) = IF ended = "send" THEN butLast ELSE answered

\* A message of another size puts BaseOracleService::handleSession out of step for
\* good: it may leave queries out, and answer what is none.  Even then no query is
\* answered twice, and none after a later one; the packets it makes up can only
\* add replies that are nobody's.
NoneAnsweredTwice ==
    \A j, k \in 1..Len(replies) : j < k /\ replies[k] # 0 => replies[j] < replies[k]

\* A query that has been sent is answered unless the session ends or, in
\* BaseOracleService, a message of another size comes.
QueryAnswered ==
    \A k \in 1..MaxSent :
        (InStep /\ k \in Due) ~> (ended # "no" \/ k \in Range(replies) \/ ~InStep)
===============================================================================
