------------------------------ MODULE ReadEvmLog ------------------------------
(***************************************************************************)
(* oracles/read_evm_log/read_evm_log_service.py: handle_query and          *)
(* get_receipt, which asks the RPC endpoints of a chain one after the      *)
(* other, each for the receipt of a transaction and then for its finalized *)
(* head.  The handler threads share nothing that changes, so there is one. *)
(*                                                                         *)
(* The chain and the endpoints are external: the block that holds the      *)
(* transaction may be replaced until it is final, and an endpoint's view   *)
(* is an earlier state of the chain that catches up in jumps.              *)
(***************************************************************************)
EXTENDS Integers, Sequences

CONSTANTS Endpoints,  \* how many RPC endpoints the chain has
          Contents,   \* what a receipt of the transaction may say: status and logs
          Indices,    \* log indices that are asked for
          MaxBlock,   \* bound on the block numbers
          MaxForks,   \* bound on the blocks that ever hold the transaction
          None

\* A log is known by the test of handle_query it fails, if any.
LogKinds == {"fits", "large", "topics"}
Receipt == [blockNumber : 1..MaxBlock, blockHash : 1..MaxForks,
            status : {0, 1}, logs : Seq(LogKinds)]
Codes == {"SUCCESS", "BAD_QUERY", "CHAIN_UNSUPPORTED", "TX_NOT_FOUND", "TX_NOT_FINALIZED",
          "LOG_INDEX_OUT_OF_RANGE", "LOG_DATA_TOO_LARGE"}
Flags == {"NO_ERROR", "ORACLE_UNAVAIL", "INVALID_ARG"}

ASSUME EvmAssumption ==
    /\ Endpoints \in Nat \ {0} /\ MaxBlock \in Nat /\ MaxForks \in Nat
    /\ Indices \subseteq Nat
    /\ Contents \subseteq [status : {0, 1}, logs : Seq(LogKinds)]
    /\ None \notin Receipt \cup Codes

VARIABLES
    chain,      \* the receipt on the chain and the chain's finalized head
    forks,      \* blocks that have held the transaction so far
    view,       \* per endpoint: the state of the chain it knows
    pc, i,      \* the handler: its place, and the endpoint it is asking
    log_index,
    receipt, one, finalized,   \* the locals of get_receipt
    moved,      \* endpoints whose receipt changed between their two answers (history)
    settled,    \* at the query every endpoint knew the final receipt (history)
    reply       \* the reply given in the last step, if one was

handlerVars == <<pc, i, log_index, receipt, one, finalized, moved, settled>>
vars == <<chain, forks, view, handlerVars, reply>>

Chain == [tx : Receipt \cup {None}, final : 0..MaxBlock]

TypeOK ==
    /\ chain \in Chain /\ forks \in 0..MaxForks
    /\ view \in [1..Endpoints -> Chain]
    /\ pc \in {"idle", "receipt", "head", "answer"}
    /\ i \in 1..Endpoints + 1 /\ log_index \in Nat
    /\ receipt \in Receipt \cup {None} /\ one \in Receipt \cup {None}
    /\ finalized \in BOOLEAN
    /\ moved \subseteq 1..Endpoints /\ settled \in BOOLEAN
    /\ reply \in [flags : Flags, code : Codes \cup {None}, receipt : Receipt \cup {None},
                  moved : SUBSET (1..Endpoints), settled : BOOLEAN, agreed : BOOLEAN]
                 \cup {None}

Init ==
    /\ chain = [tx |-> None, final |-> 0] /\ forks = 0
    /\ view = [e \in 1..Endpoints |-> chain]
    /\ pc = "idle" /\ i = 1 /\ log_index = 0
    /\ receipt = None /\ one = None /\ finalized = TRUE
    /\ moved = {} /\ settled = FALSE
    /\ reply = None

\* The receipt is in a block at or below the finalized head.
Final(c) == c.tx # None /\ c.tx.blockNumber <= c.final
-------------------------------------------------------------------------------
(* The chain and its endpoints *)

Include(n, content) ==
    /\ chain.tx = None /\ n > chain.final
    /\ forks < MaxForks                 \* bound
    /\ forks' = forks + 1
    /\ chain' = [chain EXCEPT !.tx = [blockNumber |-> n, blockHash |-> forks + 1,
                                      status |-> content.status, logs |-> content.logs]]

\* The block that holds the transaction is replaced.
Reorg ==
    /\ chain.tx # None /\ ~Final(chain)
    /\ chain' = [chain EXCEPT !.tx = None]
    /\ UNCHANGED forks

Finalize ==
    /\ chain.final < MaxBlock           \* bound
    /\ chain' = [chain EXCEPT !.final = @ + 1]
    /\ UNCHANGED forks

ChainStep ==
    /\ \/ \E n \in 1..MaxBlock, content \in Contents : Include(n, content)
       \/ Reorg
       \/ Finalize
    /\ reply' = None
    /\ UNCHANGED <<view, handlerVars>>

Sync(e) ==
    /\ view[e] # chain
    /\ view' = [view EXCEPT ![e] = chain]
    /\ reply' = None
    /\ UNCHANGED <<chain, forks, handlerVars>>
-------------------------------------------------------------------------------
(* handle_query *)

\* The handler is done with the query; its locals are gone.
Reply(flags, code, agreed) ==
    /\ reply' = [flags |-> flags, code |-> code, receipt |-> receipt,
                 moved |-> moved, settled |-> settled, agreed |-> agreed]
    /\ pc' = "idle" /\ i' = 1 /\ log_index' = 0
    /\ receipt' = None /\ one' = None /\ finalized' = TRUE
    /\ moved' = {} /\ settled' = FALSE

Ask(index) ==
    /\ pc = "idle"
    /\ pc' = "receipt" /\ log_index' = index
    /\ settled' = \A e \in 1..Endpoints : Final(view[e])
    /\ reply' = None
    /\ UNCHANGED <<chain, forks, view, i, receipt, one, finalized, moved>>

\* The query has a wrong size, a zero hash, or a chain without endpoints.
Refuse ==
    /\ pc = "idle"
    /\ \/ Reply("INVALID_ARG", None, TRUE)
       \/ Reply("NO_ERROR", "BAD_QUERY", TRUE)
       \/ Reply("NO_ERROR", "CHAIN_UNSUPPORTED", TRUE)
    /\ UNCHANGED <<chain, forks, view>>

\* rpc or normalize_receipt raises.
RpcFails ==
    /\ pc \in {"receipt", "head"}
    /\ Reply("ORACLE_UNAVAIL", None, TRUE)
    /\ UNCHANGED <<chain, forks, view>>

\* On to the next endpoint, or to the answer.
NextEndpoint ==
    /\ i' = i + 1
    /\ pc' = IF i = Endpoints THEN "answer" ELSE "receipt"

Agrees(r) == i = 1 \/ r = receipt

\* eth_getTransactionReceipt: the first endpoint's answer is the one to agree on.
GetReceipt ==
    /\ pc = "receipt"
    /\ LET r == view[i].tx
       IN  \/ /\ ~Agrees(r)
              /\ Reply("ORACLE_UNAVAIL", None, FALSE)
           \/ /\ Agrees(r)
              /\ receipt' = IF i = 1 THEN r ELSE receipt
              /\ one' = r
              /\ IF r = None THEN NextEndpoint ELSE pc' = "head" /\ UNCHANGED i
              /\ reply' = None
              /\ UNCHANGED <<log_index, finalized, moved, settled>>
    /\ UNCHANGED <<chain, forks, view>>

\* Mutant: the head of the block itself does not count.
AboveHeadStrict(number, head) == number >= head

AboveHead(number, head) == number > head

\* Mutant: the last endpoint decides.
FinalizedLast(above) == ~above

\* finalized stays FALSE once an endpoint has said so.
FinalizedAfter(above) == finalized /\ ~above

\* finalized_head, in a call of its own.
GetHead ==
    /\ pc = "head"
    /\ finalized' = FinalizedAfter(AboveHead(one.blockNumber, view[i].final))
    /\ moved' = IF view[i].tx # one THEN moved \cup {i} ELSE moved
    /\ NextEndpoint
    /\ reply' = None
    /\ UNCHANGED <<chain, forks, view, log_index, receipt, one, settled>>

\* The flags and the code the agreed receipt leads to.
Verdict ==
    IF receipt = None THEN <<"NO_ERROR", "TX_NOT_FOUND">>
    ELSE IF ~finalized \/ receipt.status # 1 THEN <<"NO_ERROR", "TX_NOT_FINALIZED">>
    ELSE IF log_index >= Len(receipt.logs) THEN <<"NO_ERROR", "LOG_INDEX_OUT_OF_RANGE">>
    ELSE IF receipt.logs[log_index + 1] = "large" THEN <<"NO_ERROR", "LOG_DATA_TOO_LARGE">>
    ELSE IF receipt.logs[log_index + 1] = "topics" THEN <<"ORACLE_UNAVAIL", None>>
    ELSE <<"NO_ERROR", "SUCCESS">>

Answer ==
    /\ pc = "answer"
    /\ Reply(Verdict[1], Verdict[2], TRUE)
    /\ UNCHANGED <<chain, forks, view>>

Next ==
    \/ ChainStep
    \/ \E e \in 1..Endpoints : Sync(e)
    \/ \E index \in Indices : Ask(index)
    \/ Refuse \/ RpcFails \/ GetReceipt \/ GetHead \/ Answer

Spec == Init /\ [][Next]_vars
-------------------------------------------------------------------------------
(* Properties *)

\* A log is answered from a receipt that is final on the chain, as soon as one
\* endpoint, any of them, held the same receipt in both of its answers: the
\* others may lag, jump or be on a fork that is gone (get_receipt).
OneSteadyEndpointSuffices ==
    reply # None /\ reply.code = "SUCCESS" /\ reply.moved # 1..Endpoints =>
        Final(chain) /\ chain.tx = reply.receipt

\* Once every endpoint has the final receipt, a query gets its verdict: it is not
\* told that the transaction is missing or not final, and there is no
\* disagreement (handle_query; a failed transaction has no logs to read).
FinalIsAnswered ==
    reply # None /\ reply.settled =>
        /\ reply.agreed
        /\ reply.code # "TX_NOT_FOUND"
        /\ reply.code = "TX_NOT_FINALIZED" => reply.receipt.status # 1
===============================================================================
