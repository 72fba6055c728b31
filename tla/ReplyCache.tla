------------------------------ MODULE ReplyCache ------------------------------
(***************************************************************************)
(* What OracleCache promises to RequestHandler, without clocks, sizes and  *)
(* eviction: a partial map from keys to replies that may forget a reply at *)
(* any moment, but never invents, alters or revives one.  OracleCache      *)
(* implements this module, and OracleMachineNode is composed with it.      *)
(***************************************************************************)
CONSTANTS Key,      \* cache keys
          Reply,    \* replies a service may give
          NoReply   \* the absence of a reply

VARIABLES content,  \* what a lookup may currently return for a key
          answer    \* what the last operation returned, if it was a lookup

Contents == [Key -> Reply \cup {NoReply}]

Quiet == [key |-> NoReply, reply |-> NoReply]

\* The contents that keep or lose the reply of every key outside changed.
Forgetting(changed) ==
    {next \in Contents : \A k \in Key \ changed : next[k] \in {content[k], NoReply}}

Init == content = [k \in Key |-> NoReply] /\ answer = Quiet

\* Replies leave the cache: time passes, clear, cleanInterface, a store that is ignored.
Drop ==
    /\ content' \in Forgetting({})
    /\ answer' = Quiet

\* A lookup may drop replies, of its own key too, and returns what is left.
Lookup(k) ==
    /\ content' \in Forgetting({})
    /\ answer' = [key |-> k, reply |-> content'[k]]

\* A reply enters for its key; others may leave to make room.
Put(k, r) ==
    /\ content' \in {next \in Forgetting({k}) : next[k] = r}
    /\ answer' = Quiet

Next ==
    \/ Drop
    \/ \E k \in Key : Lookup(k)
    \/ \E k \in Key, r \in Reply : Put(k, r)

Spec == Init /\ [][Next]_<<content, answer>>
===============================================================================
