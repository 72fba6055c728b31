----------------------------- MODULE ReadQubicLog -----------------------------
(***************************************************************************)
(* oracles/read_qubic_log/read_qubic_log_service.py: handle_query and      *)
(* get_receipt, which asks every bob node for the receipt of a transaction *)
(* and abstains unless all say the same.  The handler threads share        *)
(* nothing that changes, so there is one.                                  *)
(*                                                                         *)
(* The bobs are external.  The receipt of a transaction is settled when    *)
(* its tick is, and never changes after that; an honest bob knows it from  *)
(* some moment on, and before that it has no receipt or one that says      *)
(* "pending".  Another bob may say anything.                               *)
(***************************************************************************)
EXTENDS Integers, Sequences

CONSTANTS Bobs,      \* how many bobs are configured
          Receipts,  \* receipts the transaction may have
          Queries,   \* what is asked for: [tick, logId]
          NoReceipt

\* A receipt: the logs carry global ids, and their data fits the reply or does not.
QubicReceipt == [tick : Nat, status : {"success", "failed", "pending"},
                 logs : Seq([logId : Nat, data : {"fits", "large"}])]

ASSUME QubicAssumption ==
    /\ Bobs \in Nat \ {0}
    /\ Receipts \subseteq QubicReceipt /\ NoReceipt \notin Receipts
    /\ Queries \subseteq [tick : Nat, logId : Nat]

\* Receipts of a transaction that has not been executed yet.
Pending == {r \in Receipts : r.status = "pending"}

QubicCodes == {"SUCCESS", "BAD_QUERY", "TX_NOT_FOUND", "TX_NOT_EXECUTED", "TICK_MISMATCH",
               "LOG_NOT_FOUND", "LOG_DATA_TOO_LARGE", "NONE"}
QubicFlags == {"NO_ERROR", "ORACLE_UNAVAIL", "INVALID_ARG"}

VARIABLES
    honest,    \* the bobs that are honest; does not change
    ledger,    \* the receipt, once it is settled
    known,     \* the honest bobs that know it
    step,      \* the handler: "idle", "ask" or "verdict"
    query,     \* what it was asked
    bob,       \* the bob that is asked next
    agreed,    \* the receipt of get_receipt
    before,    \* the honest bobs that knew the receipt at the query (history)
    answer     \* the last step's reply, if one was given

qubicVars == <<honest, ledger, known, step, query, bob, agreed, before, answer>>

NoAnswer == [flags |-> "NONE"]
Answers == [flags : QubicFlags, code : QubicCodes, query : Queries \cup {NoReceipt},
            before : SUBSET (1..Bobs), disagreed : BOOLEAN]

QubicTypeOK ==
    /\ honest \subseteq 1..Bobs /\ known \subseteq honest
    /\ ledger \in (Receipts \ Pending) \cup {NoReceipt} /\ agreed \in Receipts \cup {NoReceipt}
    /\ ledger = NoReceipt => known = {}
    /\ step \in {"idle", "ask", "verdict"} /\ bob \in 1..Bobs + 1
    /\ query \in Queries \cup {NoReceipt}
    /\ before \subseteq known
    /\ answer \in Answers \cup {NoAnswer}

QubicInit ==
    /\ honest \in SUBSET (1..Bobs) /\ honest # {}
    /\ ledger = NoReceipt /\ known = {}
    /\ step = "idle" /\ query = NoReceipt /\ bob = 1 /\ agreed = NoReceipt
    /\ before = {} /\ answer = NoAnswer
-------------------------------------------------------------------------------
(* The network and the bobs *)

Settle(r) ==
    /\ ledger = NoReceipt /\ r \notin Pending
    /\ ledger' = r /\ answer' = NoAnswer
    /\ UNCHANGED <<honest, known, step, query, bob, agreed, before>>

Learn(b) ==
    /\ b \in honest \ known /\ ledger # NoReceipt
    /\ known' = known \cup {b} /\ answer' = NoAnswer
    /\ UNCHANGED <<honest, ledger, step, query, bob, agreed, before>>

\* What a bob may say of the transaction.
Says(b) ==
    IF b \notin honest THEN Receipts \cup {NoReceipt}
    ELSE IF b \in known THEN {ledger} ELSE Pending \cup {NoReceipt}
-------------------------------------------------------------------------------
(* handle_query *)

\* The handler is done with the query; its locals are gone.
QubicReply(flags, code, disagreed) ==
    /\ answer' = [flags |-> flags, code |-> code, query |-> query,
                  before |-> before, disagreed |-> disagreed]
    /\ step' = "idle" /\ query' = NoReceipt /\ bob' = 1 /\ agreed' = NoReceipt
    /\ before' = {}

\* The query has a wrong size, a zero hash or tick, or there are no bobs.
QubicRefuse ==
    /\ step = "idle"
    /\ \/ QubicReply("INVALID_ARG", "NONE", FALSE)
       \/ QubicReply("NO_ERROR", "BAD_QUERY", FALSE)
       \/ QubicReply("ORACLE_UNAVAIL", "NONE", FALSE)
    /\ UNCHANGED <<honest, ledger, known>>

QubicAsk(q) ==
    /\ step = "idle"
    /\ step' = "ask" /\ query' = q
    /\ before' = known
    /\ answer' = NoAnswer
    /\ UNCHANGED <<honest, ledger, known, bob, agreed>>

\* Mutant: the first bob is held to the receipt that nobody has given yet.
AgreesAlways(one) == one = agreed

\* All bobs have to say what the first one said.
AgreesWithFirst(one) == bob = 1 \/ one = agreed

AfterBob == IF bob = Bobs THEN "verdict" ELSE "ask"

\* One round of get_receipt: rpc or normalize_receipt raises, or the bob's
\* receipt is compared.
AskBob ==
    /\ step = "ask"
    /\ \/ QubicReply("ORACLE_UNAVAIL", "NONE", FALSE)
       \/ \E one \in Says(bob) :
             \/ /\ ~AgreesWithFirst(one)
                /\ QubicReply("ORACLE_UNAVAIL", "NONE", TRUE)
             \/ /\ AgreesWithFirst(one)
                /\ agreed' = IF bob = 1 THEN one ELSE agreed
                /\ bob' = bob + 1
                /\ step' = AfterBob
                /\ answer' = NoAnswer
                /\ UNCHANGED <<query, before>>
    /\ UNCHANGED <<honest, ledger, known>>

\* Mutant: the log id is taken for a position in the receipt.
MatchingAt(logs, id) == {k \in 1..Len(logs) : k = id + 1}

\* The places of the logs with the id; the handler takes the first.
Matching(logs, id) == {k \in 1..Len(logs) : logs[k].logId = id}

QubicVerdict(r, q) ==
    LET matching == Matching(r.logs, q.logId)
        first == CHOOSE k \in matching : \A j \in matching : k <= j
    IN  IF r.status # "success" THEN "TX_NOT_EXECUTED"
        ELSE IF r.tick # q.tick THEN "TICK_MISMATCH"
        ELSE IF matching = {} THEN "LOG_NOT_FOUND"
        ELSE IF r.logs[first].data = "large" THEN "LOG_DATA_TOO_LARGE"
        ELSE "SUCCESS"

AnswerQubic ==
    /\ step = "verdict"
    /\ QubicReply("NO_ERROR",
                  IF agreed = NoReceipt THEN "TX_NOT_FOUND" ELSE QubicVerdict(agreed, query),
                  FALSE)
    /\ UNCHANGED <<honest, ledger, known>>

QubicNext ==
    \/ \E r \in Receipts : Settle(r)
    \/ \E b \in 1..Bobs : Learn(b)
    \/ QubicRefuse
    \/ \E q \in Queries : QubicAsk(q)
    \/ AskBob \/ AnswerQubic

QubicSpec == QubicInit /\ [][QubicNext]_qubicVars
-------------------------------------------------------------------------------
(* Properties *)

\* What the ledger says of a query, once it has settled the transaction.
LedgerSays(code, q) ==
    LET found == {log \in {ledger.logs[k] : k \in 1..Len(ledger.logs)} : log.logId = q.logId}
    IN  \/ code = "TX_NOT_EXECUTED" /\ ledger.status = "failed"
        \/ code = "TICK_MISMATCH" /\ ledger.tick # q.tick
        \/ code = "LOG_NOT_FOUND" /\ ledger.tick = q.tick /\ found = {}
        \/ /\ code = "LOG_DATA_TOO_LARGE" /\ ledger.tick = q.tick
           /\ \E log \in found : log.data = "large"
        \/ /\ code = "SUCCESS" /\ ledger.status = "success" /\ ledger.tick = q.tick
           /\ \E log \in found : log.data = "fits"

\* One honest bob is enough, wherever it stands in the list and however the
\* others lag or err: what the service says of a transaction is what the ledger
\* says.  That there is none, or none executed, it may also say of a transaction
\* no honest bob knew the outcome of when the query came (get_receipt,
\* handle_query).
OneHonestBobSuffices ==
    answer # NoAnswer /\ answer.flags = "NO_ERROR" /\ answer.code # "BAD_QUERY" =>
        \/ answer.code \in {"TX_NOT_FOUND", "TX_NOT_EXECUTED"} /\ answer.before = {}
        \/ ledger # NoReceipt /\ LedgerSays(answer.code, answer.query)

\* Once all bobs know the transaction, and are honest, a query about it is never
\* lost to a disagreement, nor told that the transaction is missing (get_receipt).
KnownIsAnswered ==
    answer # NoAnswer /\ answer.before = 1..Bobs =>
        ~answer.disagreed /\ answer.code # "TX_NOT_FOUND"
===============================================================================
