------------------------------- MODULE TestNode -------------------------------
(***************************************************************************)
(* tools/qubic_test_node/src/main.cpp: a program that stands in for a core *)
(* node.  In every round it opens a connection, asks for the price of one  *)
(* currency pair after the other with ids that count up, and prints what   *)
(* comes back.  It takes the next reply for its own: a reply that comes    *)
(* after the time-out is printed beside the next pair.                     *)
(*                                                                         *)
(* The machine is handleSession of node/src/node_connection.cpp as the     *)
(* other end of the connection: it replies in the order of the queries,    *)
(* which OracleSession shows, from a cache that goes by the id, as in      *)
(* OracleMachineNode.  A packet arrives whole.                             *)
(***************************************************************************)
EXTENDS Integers, Sequences, Functions

CONSTANTS PairLists,  \* values of --pair
          Seeds,      \* what rand() may give first
          MaxCalls,   \* bound on the calls of the program
          MaxLines    \* bound on the lines of a call, one for each pair and round

ASSUME TestNodeAssumption ==
    /\ \A pairs \in PairLists : pairs \in Seq(Range(pairs)) /\ Len(pairs) > 0
    /\ Seeds \subseteq Nat /\ MaxCalls \in Nat /\ MaxLines \in Nat

Pairs == UNION {Range(pairs) : pairs \in PairLists}
Configs == [pairs : PairLists, interval : {0, 1}, timeout : {0, 1}]
Question == [id : Nat, pair : Pairs]
Response == [id : Nat, pair : Pairs, error : BOOLEAN]
Link == [queries : Seq(Question), replies : Seq(Response), peer : {"open", "closed", "reset"}]

VARIABLES
    calls, rounds,  \* how often the program, and its loop, has been started
    config,         \* the options of the call
    at,             \* the program: "connect", "send", "wait", "exited" or "killed"
    i,              \* the pair, from 1 on
    queryId, exitCode,
    link,           \* the connection: queries and replies on the way, and the peer
    machine,        \* the machine's cache: the pairs it has priced, by id
    asked,          \* the ids sent on this connection (history)
    late,           \* the receives that have timed out on it (history)
    shown,          \* what this round has printed (history)
    fresh           \* no earlier call has used an id of this one (history)

testNodeVars == <<calls, rounds, config, at, i, queryId, exitCode, link, machine,
                  asked, late, shown, fresh>>

Printed == [pair : Pairs, price : Pairs, answers : Nat, place : Nat, late : Nat]

TestNodeTypeOK ==
    /\ calls \in 0..MaxCalls /\ rounds \in 0..MaxLines
    /\ config \in Configs /\ at \in {"connect", "send", "wait", "exited", "killed"}
    /\ i \in 1..Len(config.pairs) /\ queryId \in Nat /\ exitCode \in {0, 1}
    /\ link \in Link /\ machine \subseteq Question
    /\ asked \in Seq(Nat) /\ late \in 0..Len(asked) /\ shown \in Seq(Printed)
    /\ fresh \in BOOLEAN

NoLink == [queries |-> <<>>, replies |-> <<>>, peer |-> "open"]

TestNodeInit ==
    /\ calls = 0 /\ rounds = 0 /\ config \in Configs /\ at = "exited"
    /\ i = 1 /\ queryId = 0 /\ exitCode = 1 /\ link = NoLink /\ machine = {}
    /\ asked = <<>> /\ late = 0 /\ shown = <<>> /\ fresh = TRUE
-------------------------------------------------------------------------------
(* main *)

\* The options, and the first id.
StartCall(c, seed) ==
    /\ at \in {"exited", "killed"} /\ calls < MaxCalls      \* bound
    /\ calls' = calls + 1 /\ rounds' = 0
    /\ config' = c /\ queryId' = seed /\ exitCode' = 0
    /\ fresh' = \A q \in machine \cup Range(link.queries) : q.id < seed
    /\ at' = "connect" /\ i' = 1 /\ shown' = <<>>
    /\ UNCHANGED <<link, machine, asked, late>>

\* Mutant: the connection of the last round is used again.
NewLinkKept == link

NewLink == NoLink

\* Bound.
AnotherRound == (rounds + 1) * Len(config.pairs) <= MaxLines

Connect ==
    /\ at = "connect" /\ AnotherRound
    /\ rounds' = rounds + 1
    /\ link' = NewLink /\ asked' = <<>> /\ late' = 0
    /\ at' = "send" /\ i' = 1 /\ shown' = <<>>
    /\ UNCHANGED <<calls, config, queryId, exitCode, machine, fresh>>

\* Tried again after the interval, if there is one.
ConnectFails ==
    /\ at = "connect" /\ config.interval > 0 /\ AnotherRound
    /\ rounds' = rounds + 1
    /\ UNCHANGED <<calls, config, at, i, queryId, exitCode, link, machine, asked, late,
                   shown, fresh>>

\* There is no socket or the address is invalid, or the only connect fails.
NoSocket ==
    /\ at = "connect"
    /\ at' = "exited" /\ exitCode' = 1
    /\ UNCHANGED <<calls, rounds, config, i, queryId, link, machine, asked, late, shown, fresh>>

\* Mutant: the last pair decides.
CodeOfLast(ok) == IF ok THEN 0 ELSE 1

Code(ok) == IF ok THEN exitCode ELSE 1

MorePairs == i < Len(config.pairs)

\* sendQuery has returned: the next pair, the next round or the end.
Returned(ok) ==
    /\ queryId' = queryId + 1 /\ exitCode' = Code(ok)
    /\ IF MorePairs THEN i' = i + 1 /\ at' = "send"
       ELSE i' = i /\ at' = IF config.interval > 0 THEN "connect" ELSE "exited"
-------------------------------------------------------------------------------
(* sendQuery *)

\* What is sent after the peer has closed is answered by a reset.
SendQuery ==
    /\ at = "send"
    /\ link' = IF link.peer = "open"
               THEN [link EXCEPT !.queries = Append(@, [id |-> queryId, pair |-> config.pairs[i]])]
               ELSE [link EXCEPT !.peer = "reset"]
    /\ asked' = Append(asked, queryId)
    /\ at' = "wait"
    /\ UNCHANGED <<calls, rounds, config, i, queryId, exitCode, machine, late, shown, fresh>>

SendTimesOut ==
    /\ at = "send" /\ config.timeout > 0
    /\ Returned(FALSE)
    /\ UNCHANGED <<calls, rounds, config, link, machine, asked, late, shown, fresh>>

\* Nobody handles SIGPIPE.
SendAfterReset ==
    /\ at = "send" /\ link.peer = "reset"
    /\ at' = "killed"
    /\ UNCHANGED <<calls, rounds, config, i, queryId, exitCode, link, machine, asked, late,
                   shown, fresh>>

\* Whatever reply comes next, its id is not looked at.
ReceiveReply ==
    /\ at = "wait" /\ link.replies # <<>>
    /\ LET reply == Head(link.replies)
       IN  /\ Returned(~reply.error)
           /\ shown' = IF reply.error THEN shown
                       ELSE Append(shown, [pair |-> config.pairs[i], price |-> reply.pair,
                                           answers |-> reply.id, place |-> Len(asked),
                                           late |-> late])
    /\ link' = [link EXCEPT !.replies = Tail(@)]
    /\ UNCHANGED <<calls, rounds, config, machine, asked, late, fresh>>

\* Mutant: SO_RCVTIMEO is not set.
RecvTimesOutNever == FALSE

\* A time-out of zero is none.
RecvTimesOut == config.timeout > 0

ReceiveTimesOut ==
    /\ at = "wait" /\ RecvTimesOut
    /\ Returned(FALSE)
    /\ late' = late + 1
    /\ UNCHANGED <<calls, rounds, config, link, machine, asked, shown, fresh>>

ReceiveEndOfFile ==
    /\ at = "wait" /\ link.peer # "open" /\ link.replies = <<>>
    /\ Returned(FALSE)
    /\ UNCHANGED <<calls, rounds, config, link, machine, asked, late, shown, fresh>>
-------------------------------------------------------------------------------
(* The machine: NodeConnection::handleSession and RequestHandler::handle *)

\* The price of the pair, or the one in the cache under the id, or an error.
MachineAnswers ==
    /\ link.peer = "open" /\ link.queries # <<>>
    /\ LET q == Head(link.queries)
           hits == {m.pair : m \in {known \in machine : known.id = q.id}}
       IN  \E error \in BOOLEAN, pair \in hits \cup {q.pair} :
              /\ link' = [link EXCEPT !.queries = Tail(@),
                                      !.replies = Append(@, [id |-> q.id, pair |-> pair,
                                                             error |-> error])]
              /\ machine' = IF error THEN machine ELSE machine \cup {[id |-> q.id, pair |-> pair]}
    /\ UNCHANGED <<calls, rounds, config, at, i, queryId, exitCode, asked, late, shown, fresh>>

\* The session ends on an error or because the machine stops.
MachineCloses ==
    /\ at \in {"send", "wait"} /\ link.peer = "open"
    /\ link' = [link EXCEPT !.peer = "closed", !.queries = <<>>]
    /\ UNCHANGED <<calls, rounds, config, at, i, queryId, exitCode, machine, asked, late,
                   shown, fresh>>
-------------------------------------------------------------------------------
Program ==
    \/ Connect \/ ConnectFails \/ NoSocket
    \/ SendQuery \/ SendTimesOut \/ SendAfterReset
    \/ ReceiveReply \/ ReceiveTimesOut \/ ReceiveEndOfFile

TestNodeNext ==
    \/ \E c \in Configs, seed \in Seeds : StartCall(c, seed)
    \/ Program \/ MachineAnswers \/ MachineCloses

TestNodeSpec == TestNodeInit /\ [][TestNodeNext]_testNodeVars

\* The program runs; the machine need not answer.
TestNodeFairSpec == TestNodeSpec /\ WF_testNodeVars(Program)
-------------------------------------------------------------------------------
(* Properties *)

\* If a call exits with 0 then each of its pairs has been printed, once, in order
\* and with its own price, provided no earlier call has used its ids: the exit
\* code remembers a failure at any pair, and without one no reply is late (main).
CleanExitShowsOwnPrices ==
    at = "exited" /\ exitCode = 0 /\ fresh =>
        /\ Len(shown) = Len(config.pairs)
        /\ \A k \in 1..Len(shown) : /\ shown[k].pair = config.pairs[k]
                                    /\ shown[k].price = config.pairs[k]

\* What is printed lags behind by exactly the receives that have timed out on the
\* connection: one such makes every later line of the round the price of the
\* pair before it, and the next round is in step again (sendQuery, main).
LinesLagByTimeouts ==
    \A k \in 1..Len(shown) :
        /\ shown[k].late < shown[k].place
        /\ shown[k].answers = asked[shown[k].place - shown[k].late]

\* A single call with a time-out comes to its end, whether or not the machine
\* answers (sendQuery).
CallEnds ==
    at \notin {"exited", "killed"} /\ config.interval = 0 /\ config.timeout > 0
        ~> at \in {"exited", "killed"}
===============================================================================
