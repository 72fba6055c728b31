---------------------------- MODULE MCConversations ----------------------------
(***************************************************************************)
(* Small instances of the two ends of a connection: the loops that read    *)
(* queries from it, and the test node that sends queries and reads the     *)
(* replies.  They are different connections, so one is looked at a time.   *)
(***************************************************************************)
EXTENDS OracleSession, TestNode

VARIABLE side

\* Queries and other messages, the sizes too small, without a body, of a query and
\* too large, and a query for another interface.
MCMessages == [query : {TRUE}, size : {1, 2, 4, 5}, interface : {TRUE}]
                 \cup {[query |-> FALSE, size |-> 3, interface |-> TRUE],
                       [query |-> FALSE, size |-> 4, interface |-> TRUE],
                       [query |-> TRUE, size |-> 4, interface |-> FALSE]}

MCPairLists == {<<"b">>, <<"a", "b", "c">>}

MCInit ==
    /\ Init /\ TestNodeInit
    /\ \/ side = "reads queries" /\ config = [pairs |-> <<"b">>, interval |-> 0, timeout |-> 0]
       \/ side = "asks queries" /\ reader = "node"
ReadsQueries(step) == side = "reads queries" /\ step /\ UNCHANGED <<side, testNodeVars>>
AsksQueries(step) == side = "asks queries" /\ step /\ UNCHANGED <<side, vars>>
MCSpec == /\ MCInit /\ [][ReadsQueries(Next) \/ AsksQueries(TestNodeNext)]_<<side, vars, testNodeVars>>
          /\ WF_vars(ReadsQueries(Serve)) /\ WF_testNodeVars(AsksQueries(Program))
-------------------------------------------------------------------------------
\* Both ends keep the types of their variables: a reply carries the id of a message
\* that was sent (handleSession, serve), and the test node stays in its list of
\* pairs (main).
ConversationsTypeOK == TypeOK /\ TestNodeTypeOK
===============================================================================
