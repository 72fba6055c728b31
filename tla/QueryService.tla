------------------------------ MODULE QueryService ------------------------------
(***************************************************************************)
(* What the oracle machine promises the core nodes connected to it: each   *)
(* session asks one query at a time, and the response to it is a reply     *)
(* the service gave to that query or an error of the machine's own.        *)
(* A session may end at any moment.  OracleMachineNode implements this.    *)
(***************************************************************************)
CONSTANTS Sessions, Queries, NoQuery

VARIABLES pending,   \* the query each session waits for
          sent       \* the response to its last query, if any: the query it names and the
                     \* query its data was given for

OwnData(q) == [query |-> q, origin |-> q]
Refusal(q) == [query |-> q, origin |-> NoQuery]

Init == pending = [t \in Sessions |-> NoQuery] /\ sent = [t \in Sessions |-> Refusal(NoQuery)]

Ask(t, q) ==
    /\ pending[t] = NoQuery
    /\ pending' = [pending EXCEPT ![t] = q]
    /\ sent' = [sent EXCEPT ![t] = Refusal(NoQuery)]

Respond(t) ==
    /\ pending[t] # NoQuery
    /\ \E r \in {OwnData(pending[t]), Refusal(pending[t])} : sent' = [sent EXCEPT ![t] = r]
    /\ pending' = [pending EXCEPT ![t] = NoQuery]

\* The session ends, perhaps before the response is out.
Leave(t) ==
    /\ pending' = [pending EXCEPT ![t] = NoQuery]
    /\ sent' = [sent EXCEPT ![t] = Refusal(NoQuery)]

Next == \E t \in Sessions : Respond(t) \/ Leave(t) \/ \E q \in Queries : Ask(t, q)

Spec == Init /\ [][Next]_<<pending, sent>>
===============================================================================
