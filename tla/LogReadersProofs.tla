---------------------------- MODULE LogReadersProofs ---------------------------
(***************************************************************************)
(* Proofs about the two services that read logs.  One endpoint that held   *)
(* still suffices for read_evm_log, for every number of endpoints and      *)
(* every way the chain and their views move.  One honest bob suffices for  *)
(* read_qubic_log, for every number of bobs and every way the others lag   *)
(* or err.                                                                 *)
(***************************************************************************)
EXTENDS ReadEvmLog, ReadQubicLog, WellFoundedInduction, TLAPS
-------------------------------------------------------------------------------
(* read_evm_log: the invariant *)

\* An endpoint knows an earlier state of the chain; what is final in it is final.
Views ==
    \A e \in 1..Endpoints :
        /\ view[e].final <= chain.final
        /\ Final(view[e]) => Final(chain) /\ view[e].tx = chain.tx

\* Where the handler is and what its locals hold there.
EvmStages ==
    /\ pc = "idle" => i = 1 /\ receipt = None /\ finalized = TRUE
    /\ pc \in {"receipt", "head"} => i \in 1..Endpoints
    /\ pc = "head" => one = receipt /\ one # None
    /\ pc = "answer" => i = Endpoints + 1

\* As long as get_receipt takes the receipt for final, every endpoint asked so far
\* has moved or has vouched for it.
Backed ==
    receipt # None /\ finalized = TRUE =>
        \A e \in 1..Endpoints : e < i =>
            e \in moved \/ (Final(chain) /\ chain.tx = receipt)

\* A query that came when all endpoints had the final receipt finds it at each.
Steady ==
    settled = TRUE =>
        /\ pc # "idle" /\ finalized = TRUE
        /\ \A e \in 1..Endpoints : Final(view[e])
        /\ pc = "head" \/ i > 1 => receipt = chain.tx

\* The inductive invariant of read_evm_log.
EvmInv == TypeOK /\ Views /\ EvmStages /\ Backed /\ Steady
            /\ OneSteadyEndpointSuffices /\ FinalIsAnswered
-------------------------------------------------------------------------------
\* The facts on the constants that the arithmetic of the steps uses.
LEMMA EvmFacts ==
    /\ Endpoints \in Nat /\ Endpoints >= 1 /\ MaxBlock \in Nat
    /\ None \notin Receipt /\ None \notin Codes
  BY EvmAssumption DEF EvmAssumption

\* The invariant holds initially.
LEMMA EvmInitInv == Init => EvmInv
  <1> SUFFICES ASSUME Init PROVE EvmInv
    OBVIOUS
  <1> USE EvmFacts DEF Init
  <1>1. chain \in Chain
    BY DEF Chain
  <1>a. forks \in 0..MaxForks /\ i \in 1..Endpoints + 1 /\ log_index \in Nat
    BY EvmAssumption DEF EvmAssumption
  <1>b. view \in [1..Endpoints -> Chain]
    BY <1>1
  <1>2. TypeOK
    BY <1>1, <1>a, <1>b, Zenon DEF TypeOK
  <1>3. Views
    BY DEF Views, Final
  <1>4. EvmStages /\ Backed /\ Steady /\ OneSteadyEndpointSuffices /\ FinalIsAnswered
    BY DEF EvmStages, Backed, Steady, OneSteadyEndpointSuffices, FinalIsAnswered
  <1> QED BY <1>2, <1>3, <1>4 DEF EvmInv

\* A receipt that is final stays where it is.
LEMMA FinalStays ==
    ASSUME TypeOK, ChainStep
    PROVE /\ chain' \in Chain /\ forks' \in 0..MaxForks
          /\ chain.final <= chain'.final
          /\ Final(chain) => Final(chain)' /\ chain'.tx = chain.tx
  <1> USE EvmFacts DEF TypeOK, Chain, Final
  <1>1. ASSUME NEW n \in 1..MaxBlock, NEW content \in Contents, Include(n, content)
        PROVE /\ chain' \in Chain /\ forks' \in 0..MaxForks
              /\ chain.final <= chain'.final
              /\ Final(chain) => Final(chain)' /\ chain'.tx = chain.tx
    <2> DEFINE r == [blockNumber |-> n, blockHash |-> forks + 1,
                     status |-> content.status, logs |-> content.logs]
    <2>1. content.status \in {0, 1} /\ content.logs \in Seq(LogKinds)
      BY EvmAssumption DEF EvmAssumption
    <2>2. forks + 1 \in 1..MaxForks
      BY <1>1, EvmAssumption DEF Include, EvmAssumption
    <2>3. r \in Receipt
      BY <2>1, <2>2 DEF Receipt
    <2>4. chain' = [chain EXCEPT !.tx = r]
      BY <1>1 DEF Include
    <2> HIDE DEF r
    <2>5. chain' \in Chain /\ chain'.final = chain.final
      BY <2>3, <2>4
    <2>6. forks' \in 0..MaxForks
      BY <1>1, <2>2 DEF Include
    <2>7. ~Final(chain)
      BY <1>1 DEF Include
    <2> QED BY <2>5, <2>6, <2>7
  <1>2. CASE Reorg
    BY <1>2 DEF Reorg
  <1>3. CASE Finalize
    <2>1. Final(chain) => chain.tx \in Receipt /\ chain.tx.blockNumber \in 1..MaxBlock
      BY DEF Receipt
    <2>a. chain.final \in 0..MaxBlock /\ chain.final + 1 \in 0..MaxBlock
      BY <1>3 DEF Finalize
    <2>b. chain' = [chain EXCEPT !.final = chain.final + 1]
      BY <1>3 DEF Finalize
    <2>2. chain'.tx = chain.tx /\ chain'.final = chain.final + 1 /\ chain' \in Chain
      BY <2>a, <2>b
    <2> QED BY <1>3, <2>1, <2>2 DEF Finalize
  <1> QED BY <1>1, <1>2, <1>3 DEF ChainStep

\* A block, a reorganisation or a finalization keeps the invariant: what is final stays.
LEMMA ChainStepIInv == ASSUME EvmInv, ChainStep PROVE EvmInv'
  <1>1. /\ chain' \in Chain /\ forks' \in 0..MaxForks
        /\ chain.final <= chain'.final
        /\ Final(chain) => Final(chain)' /\ chain'.tx = chain.tx
    BY FinalStays DEF EvmInv
  <1>2. reply' = None /\ UNCHANGED <<view, handlerVars>>
    BY DEF ChainStep
  <1>3. TypeOK'
    BY <1>1, <1>2 DEF EvmInv, TypeOK, handlerVars
  <1>4. Views'
    <2> SUFFICES ASSUME NEW e \in 1..Endpoints
                 PROVE /\ view[e].final <= chain'.final
                       /\ Final(view[e]) => Final(chain)' /\ view[e].tx = chain'.tx
      BY <1>2 DEF Views, Final
    <2>1. /\ view[e].final <= chain.final
          /\ Final(view[e]) => Final(chain) /\ view[e].tx = chain.tx
      BY DEF EvmInv, Views
    <2>2. view[e].final \in Int /\ chain.final \in Int /\ chain'.final \in Int
      BY <1>1, EvmFacts DEF EvmInv, TypeOK, Chain
    <2> QED BY <1>1, <2>1, <2>2
  <1>5. EvmStages'
    BY <1>2 DEF EvmInv, EvmStages, handlerVars
  <1>6. Backed'
    BY <1>1, <1>2 DEF EvmInv, Backed, handlerVars
  <1>7. Steady'
    <2> SUFFICES ASSUME settled = TRUE
                 PROVE Steady'
      BY <1>2 DEF Steady, handlerVars
    <2>1. Final(view[1]) /\ 1 \in 1..Endpoints
      BY EvmFacts DEF EvmInv, Steady
    <2>2. chain'.tx = chain.tx
      BY <1>1, <2>1 DEF EvmInv, Views
    <2> QED BY <1>2, <2>2 DEF EvmInv, Steady, Final, handlerVars
  <1>8. OneSteadyEndpointSuffices' /\ FinalIsAnswered'
    BY <1>2 DEF OneSteadyEndpointSuffices, FinalIsAnswered
  <1> QED BY <1>3, <1>4, <1>5, <1>6, <1>7, <1>8 DEF EvmInv

\* An endpoint that catches up keeps the invariant.
LEMMA SyncIInv == ASSUME EvmInv, NEW e \in 1..Endpoints, Sync(e) PROVE EvmInv'
  <1>1. /\ view' = [view EXCEPT ![e] = chain] /\ reply' = None
        /\ UNCHANGED <<chain, forks, handlerVars>>
    BY DEF Sync
  <1>2. chain \in Chain /\ view \in [1..Endpoints -> Chain]
    BY DEF EvmInv, TypeOK
  <1>3. TypeOK'
    BY <1>1, <1>2 DEF EvmInv, TypeOK, handlerVars
  <1>4. Views'
    <2> SUFFICES ASSUME NEW d \in 1..Endpoints
                 PROVE /\ view'[d].final <= chain.final
                       /\ Final(view'[d]) => Final(chain) /\ view'[d].tx = chain.tx
      BY <1>1 DEF Views, Final
    <2>1. CASE d = e
      BY <1>1, <1>2, <2>1, EvmFacts DEF Chain
    <2>2. CASE d # e
      BY <1>1, <1>2, <2>2 DEF EvmInv, Views
    <2> QED BY <2>1, <2>2
  <1>5. EvmStages' /\ Backed'
    BY <1>1 DEF EvmInv, EvmStages, Backed, Final, handlerVars
  <1>6. Steady'
    <2> SUFFICES ASSUME settled = TRUE
                 PROVE \A d \in 1..Endpoints : Final(view'[d])
      BY <1>1 DEF EvmInv, Steady, Final, handlerVars
    <2>1. Final(chain)
      BY DEF EvmInv, Steady, Views
    <2> QED BY <1>1, <1>2, <2>1 DEF EvmInv, Steady
  <1>7. OneSteadyEndpointSuffices' /\ FinalIsAnswered'
    BY <1>1 DEF OneSteadyEndpointSuffices, FinalIsAnswered
  <1> QED BY <1>3, <1>4, <1>5, <1>6, <1>7 DEF EvmInv

\* A reply leaves the handler as it was before the query; what it says of the
\* receipt is left to show.
LEMMA ReplyIInv ==
    ASSUME EvmInv, NEW flags \in Flags, NEW code \in Codes \cup {None}, NEW same \in BOOLEAN,
           Reply(flags, code, same), UNCHANGED <<chain, forks, view>>,
           code = "SUCCESS" /\ moved # 1..Endpoints => Final(chain) /\ chain.tx = receipt,
           settled = TRUE =>
               /\ same = TRUE /\ code # "TX_NOT_FOUND"
               /\ code = "TX_NOT_FINALIZED" => receipt.status # 1
    PROVE EvmInv'
  <1>1. /\ reply' = [flags |-> flags, code |-> code, receipt |-> receipt,
                     moved |-> moved, settled |-> settled, agreed |-> same]
        /\ pc' = "idle" /\ i' = 1 /\ log_index' = 0
        /\ receipt' = None /\ one' = None /\ finalized' = TRUE
        /\ moved' = {} /\ settled' = FALSE
    BY DEF Reply
  <1>2. TypeOK'
    <2>1. i' \in 1..Endpoints + 1 /\ log_index' \in Nat
      BY <1>1, EvmFacts
    <2>2. reply' \in [flags : Flags, code : Codes \cup {None}, receipt : Receipt \cup {None},
                      moved : SUBSET (1..Endpoints), settled : BOOLEAN, agreed : BOOLEAN]
      BY <1>1 DEF EvmInv, TypeOK
    <2> QED BY <1>1, <2>1, <2>2, Zenon DEF EvmInv, TypeOK
  <1>3. Views'
    BY DEF EvmInv, Views, Final
  <1>4. EvmStages' /\ Backed' /\ Steady'
    BY <1>1 DEF EvmStages, Backed, Steady
  <1>5. OneSteadyEndpointSuffices'
    BY <1>1 DEF OneSteadyEndpointSuffices, Final
  <1>6. FinalIsAnswered'
    BY <1>1 DEF FinalIsAnswered
  <1> QED BY <1>2, <1>3, <1>4, <1>5, <1>6 DEF EvmInv

\* A new query keeps the invariant (handle_query).
LEMMA AskIInv == ASSUME EvmInv, NEW index \in Indices, Ask(index) PROVE EvmInv'
  <1>1. /\ pc = "idle" /\ pc' = "receipt" /\ log_index' = index /\ reply' = None
        /\ settled' = \A e \in 1..Endpoints : Final(view[e])
        /\ UNCHANGED <<chain, forks, view, i, receipt, one, finalized, moved>>
    BY DEF Ask
  <1>2. i = 1 /\ receipt = None /\ finalized = TRUE
    BY <1>1 DEF EvmInv, EvmStages
  <1>3. TypeOK'
    <2>1. index \in Nat /\ settled' \in BOOLEAN
      BY <1>1, EvmAssumption DEF EvmAssumption
    <2> QED BY <1>1, <2>1 DEF EvmInv, TypeOK
  <1>4. Views'
    BY <1>1 DEF EvmInv, Views, Final
  <1>5. EvmStages'
    <2>1. i \in 1..Endpoints
      BY <1>2, EvmFacts
    <2> QED BY <1>1, <2>1 DEF EvmStages
  <1>6. Backed'
    BY <1>1, <1>2 DEF Backed
  <1>7. Steady'
    <2>1. ~(i > 1)
      BY <1>2
    <2> QED BY <1>1, <1>2, <2>1 DEF Steady, Final
  <1>8. OneSteadyEndpointSuffices' /\ FinalIsAnswered'
    BY <1>1 DEF OneSteadyEndpointSuffices, FinalIsAnswered
  <1> QED BY <1>3, <1>4, <1>5, <1>6, <1>7, <1>8 DEF EvmInv

\* A reply without a receipt keeps the invariant (handle_query, rpc).
LEMMA RefuseIInv == ASSUME EvmInv, Refuse \/ RpcFails PROVE EvmInv'
  <1>1. UNCHANGED <<chain, forks, view>>
    BY Zenon DEF Refuse, RpcFails
  <1>2. PICK flags \in Flags, code \in {None, "BAD_QUERY", "CHAIN_UNSUPPORTED"} :
            Reply(flags, code, TRUE)
    BY Zenon DEF Refuse, RpcFails, Flags
  <1>3. code \in Codes \cup {None}
    BY DEF Codes
  <1>4. code # "SUCCESS" /\ code # "TX_NOT_FOUND" /\ code # "TX_NOT_FINALIZED"
    BY EvmFacts DEF Codes
  <1> QED BY <1>1, <1>2, <1>3, <1>4, ReplyIInv, Zenon

\* The next endpoint, or the answer after the last one.
LEMMA NextEndpointStages ==
    ASSUME NextEndpoint, i \in 1..Endpoints
    PROVE /\ i' = i + 1 /\ i' \in 1..Endpoints + 1
          /\ pc' \in {"receipt", "answer"}
          /\ pc' = "receipt" => i' \in 1..Endpoints
          /\ pc' = "answer" => i' = Endpoints + 1
  <1>1. i' = i + 1 /\ i' \in 1..Endpoints + 1
    BY EvmFacts DEF NextEndpoint
  <1>2. CASE i = Endpoints
    BY <1>1, <1>2 DEF NextEndpoint
  <1>3. CASE i # Endpoints
    <2>1. i' \in 1..Endpoints
      BY <1>1, <1>3, EvmFacts
    <2>2. pc' = "receipt"
      BY <1>3 DEF NextEndpoint
    <2> QED BY <1>1, <2>1, <2>2
  <1> QED BY <1>2, <1>3

\* The first call to an endpoint keeps the invariant (get_receipt).
LEMMA GetReceiptIInv == ASSUME EvmInv, GetReceipt PROVE EvmInv'
  <1> DEFINE r == view[i].tx
  <1>1. pc = "receipt" /\ UNCHANGED <<chain, forks, view>>
    BY DEF GetReceipt
  <1>2. i \in 1..Endpoints
    BY <1>1 DEF EvmInv, EvmStages
  <1>3. r \in Receipt \cup {None}
    BY <1>2 DEF EvmInv, TypeOK, Chain
  <1>4. settled = TRUE => r = chain.tx /\ r # None
    BY <1>2 DEF EvmInv, Steady, Views, Final
  <1>5. CASE ~Agrees(r) /\ Reply("ORACLE_UNAVAIL", None, FALSE)
    <2>1. i # 1 /\ r # receipt
      BY <1>5 DEF Agrees
    <2>2. i > 1
      BY <1>2, <2>1, EvmFacts
    <2>3. settled = FALSE
      BY <1>4, <2>1, <2>2 DEF EvmInv, Steady, TypeOK
    <2>4. "ORACLE_UNAVAIL" \in Flags /\ None # "SUCCESS"
      BY EvmFacts DEF Flags, Codes
    <2> QED BY <1>1, <1>5, <2>3, <2>4, ReplyIInv, Zenon
  <1>6. CASE /\ Agrees(r)
             /\ receipt' = IF i = 1 THEN r ELSE receipt
             /\ one' = r
             /\ IF r = None THEN NextEndpoint ELSE pc' = "head" /\ UNCHANGED i
             /\ reply' = None
             /\ UNCHANGED <<log_index, finalized, moved, settled>>
    <2> HIDE DEF r
    <2>1. receipt' = r /\ one' = r
      BY <1>6 DEF Agrees
    <2>2. OneSteadyEndpointSuffices' /\ FinalIsAnswered'
      BY <1>6 DEF OneSteadyEndpointSuffices, FinalIsAnswered
    <2>3. Views'
      BY <1>1 DEF EvmInv, Views, Final
    <2>4. CASE r = None
      <3>1. /\ i' = i + 1 /\ i' \in 1..Endpoints + 1
            /\ pc' \in {"receipt", "answer"}
            /\ pc' = "receipt" => i' \in 1..Endpoints
            /\ pc' = "answer" => i' = Endpoints + 1
        BY <1>2, <1>6, <2>4, NextEndpointStages
      <3>2. TypeOK'
        BY <1>1, <1>3, <1>6, <2>1, <3>1 DEF EvmInv, TypeOK
      <3>3. EvmStages' /\ Backed'
        BY <2>1, <2>4, <3>1 DEF EvmStages, Backed
      <3>4. Steady'
        BY <1>4, <1>6, <2>4 DEF Steady
      <3> QED BY <2>2, <2>3, <3>2, <3>3, <3>4 DEF EvmInv
    <2>5. CASE r # None
      <3>1. pc' = "head" /\ i' = i
        BY <1>6, <2>5
      <3>2. TypeOK'
        BY <1>1, <1>3, <1>6, <2>1, <3>1 DEF EvmInv, TypeOK
      <3>3. EvmStages'
        BY <1>2, <2>1, <2>5, <3>1 DEF EvmStages
      <3>4. Backed'
        <4>1. CASE i = 1
          <5>1. \A e \in 1..Endpoints : ~(e < i')
            BY <3>1, <4>1, EvmFacts
          <5> QED BY <5>1 DEF Backed
        <4>2. CASE i # 1
          BY <1>1, <1>6, <3>1, <4>2 DEF EvmInv, Backed, Final
        <4> QED BY <4>1, <4>2
      <3>5. Steady'
        BY <1>1, <1>4, <1>6, <2>1, <3>1 DEF EvmInv, Steady, Final
      <3> QED BY <2>2, <2>3, <3>2, <3>3, <3>4, <3>5 DEF EvmInv
    <2> QED BY <2>4, <2>5
  <1> QED BY <1>5, <1>6, Zenon DEF GetReceipt

\* The second call to an endpoint keeps the invariant (finalized_head).
LEMMA GetHeadIInv == ASSUME EvmInv, GetHead PROVE EvmInv'
  <1>1. /\ pc = "head" /\ reply' = None
        /\ finalized' = (finalized /\ ~(one.blockNumber > view[i].final))
        /\ moved' = IF view[i].tx # one THEN moved \cup {i} ELSE moved
        /\ UNCHANGED <<chain, forks, view, log_index, receipt, one, settled>>
    BY DEF GetHead, FinalizedAfter, AboveHead
  <1>2. i \in 1..Endpoints /\ one = receipt /\ one # None
    BY <1>1 DEF EvmInv, EvmStages
  <1>3. /\ i' = i + 1 /\ i' \in 1..Endpoints + 1
        /\ pc' \in {"receipt", "answer"}
        /\ pc' = "receipt" => i' \in 1..Endpoints
        /\ pc' = "answer" => i' = Endpoints + 1
    BY <1>2, NextEndpointStages DEF GetHead
  <1>4. one.blockNumber \in Int /\ view[i].final \in Int
    BY <1>2, EvmFacts DEF EvmInv, TypeOK, Chain, Receipt
  <1>a. one.blockNumber > view[i].final <=> ~(one.blockNumber <= view[i].final)
    BY <1>4
  <1>b. finalized \in BOOLEAN
    BY DEF EvmInv, TypeOK
  <1>5. finalized' \in BOOLEAN /\ moved' \subseteq 1..Endpoints
    BY <1>1, <1>2 DEF EvmInv, TypeOK
  <1>6. TypeOK'
    BY <1>1, <1>3, <1>5 DEF EvmInv, TypeOK
  <1>7. Views'
    BY <1>1, Zenon DEF EvmInv, Views, Final
  <1>8. EvmStages'
    BY <1>3 DEF EvmStages
  <1>9. Backed'
    <2> SUFFICES ASSUME finalized' = TRUE, NEW e \in 1..Endpoints, e < i'
                 PROVE e \in moved' \/ (Final(chain) /\ chain.tx = receipt)
      BY <1>1, Zenon DEF Backed, Final
    <2>1. finalized = TRUE /\ one.blockNumber <= view[i].final
      BY <1>1, <1>a, <1>b, Zenon
    <2>2. CASE e < i
      BY <1>1, <1>2, <2>1, <2>2 DEF EvmInv, Backed
    <2>3. CASE e = i
      <3>1. CASE view[i].tx # one
        BY <1>1, <2>3, <3>1
      <3>2. CASE view[i].tx = one
        <4>1. Final(view[i])
          BY <1>2, <2>1, <3>2 DEF Final
        <4> QED BY <1>2, <3>2, <4>1 DEF EvmInv, Views
      <3> QED BY <3>1, <3>2
    <2> QED BY <1>2, <1>3, <2>2, <2>3, EvmFacts
  <1>10. Steady'
    <2> SUFFICES ASSUME settled = TRUE
                 PROVE Steady'
      BY <1>1, Zenon DEF Steady
    <2>1. /\ finalized = TRUE /\ receipt = chain.tx
          /\ \A e \in 1..Endpoints : Final(view[e])
      BY <1>1 DEF EvmInv, Steady
    <2>2. view[i].tx = one
      BY <1>2, <2>1 DEF EvmInv, Views
    <2>3. one.blockNumber <= view[i].final
      BY <1>2, <2>1, <2>2 DEF Final
    <2>4. finalized' = TRUE
      BY <1>1, <1>a, <2>1, <2>3, Zenon
    <2> QED BY <1>1, <1>3, <2>1, <2>4 DEF Steady, Final
  <1>11. OneSteadyEndpointSuffices' /\ FinalIsAnswered'
    BY <1>1 DEF OneSteadyEndpointSuffices, FinalIsAnswered
  <1> QED BY <1>6, <1>7, <1>8, <1>9, <1>10, <1>11 DEF EvmInv

\* What the code tells of the receipt it is about.
LEMMA VerdictFacts ==
    /\ Verdict[1] \in Flags /\ Verdict[2] \in Codes \cup {None}
    /\ Verdict[2] = "SUCCESS" => receipt # None /\ finalized
    /\ Verdict[2] = "TX_NOT_FOUND" => receipt = None
    /\ Verdict[2] = "TX_NOT_FINALIZED" => ~finalized \/ receipt.status # 1
  BY EvmFacts DEF Verdict, Flags, Codes

\* The verdict keeps the invariant (handle_query).
LEMMA AnswerIInv == ASSUME EvmInv, Answer PROVE EvmInv'
  <1>1. /\ pc = "answer" /\ Reply(Verdict[1], Verdict[2], TRUE)
        /\ UNCHANGED <<chain, forks, view>>
    BY Zenon DEF Answer
  <1>2. ASSUME Verdict[2] = "SUCCESS", moved # 1..Endpoints
        PROVE Final(chain) /\ chain.tx = receipt
    <2>1. receipt # None /\ finalized = TRUE
      BY <1>2, VerdictFacts DEF EvmInv, TypeOK
    <2>2. PICK e \in 1..Endpoints : e \notin moved
      BY <1>2, Zenon DEF EvmInv, TypeOK
    <2>3. e < i
      <3>1. i = Endpoints + 1
        BY <1>1 DEF EvmInv, EvmStages
      <3> QED BY <3>1, EvmFacts
    <2> QED BY <2>1, <2>2, <2>3 DEF EvmInv, Backed
  <1>3. ASSUME settled = TRUE
        PROVE /\ Verdict[2] # "TX_NOT_FOUND"
              /\ Verdict[2] = "TX_NOT_FINALIZED" => receipt.status # 1
    <2>1. 1 \in 1..Endpoints /\ i > 1
      <3>1. i = Endpoints + 1
        BY <1>1 DEF EvmInv, EvmStages
      <3> QED BY <3>1, EvmFacts
    <2>2. finalized = TRUE /\ receipt = chain.tx /\ Final(view[1])
      BY <1>3, <2>1 DEF EvmInv, Steady
    <2>3. receipt # None
      BY <2>1, <2>2 DEF EvmInv, Views, Final
    <2> QED BY <2>2, <2>3, VerdictFacts
  <1> HIDE DEF Verdict
  <1> QED BY <1>1, <1>2, <1>3, VerdictFacts, ReplyIInv, Zenon

\* A step that changes nothing keeps the invariant.
LEMMA StutterIInv == ASSUME EvmInv, UNCHANGED vars PROVE EvmInv'
  <1> USE DEF vars, handlerVars
  <1>1. TypeOK' /\ Views'
    BY DEF EvmInv, TypeOK, Views, Final
  <1>2. EvmStages' /\ Backed' /\ Steady'
    BY Zenon DEF EvmInv, EvmStages, Backed, Steady, Final
  <1>3. OneSteadyEndpointSuffices' /\ FinalIsAnswered'
    BY Zenon DEF EvmInv, OneSteadyEndpointSuffices, FinalIsAnswered, Final
  <1> QED BY <1>1, <1>2, <1>3 DEF EvmInv

\* The inductive invariant holds of every behaviour of read_evm_log.
THEOREM EvmInvariance == Spec => []EvmInv
  <1>1. ASSUME EvmInv, [Next]_vars PROVE EvmInv'
    BY <1>1, ChainStepIInv, SyncIInv, AskIInv, RefuseIInv, GetReceiptIInv, GetHeadIInv,
       AnswerIInv, StutterIInv DEF Next
  <1> QED BY <1>1, EvmInitInv, PTL DEF Spec

\* handle_query's locals, its replies and the endpoints' views have their types.
THEOREM EvmTypeCorrect == Spec => []TypeOK
  <1>1. EvmInv => TypeOK
    BY DEF EvmInv
  <1> QED BY <1>1, EvmInvariance, PTL

\* get_receipt: one endpoint that gave the same receipt before and after its head
\* makes the receipt final, however many endpoints there are.
THEOREM SteadyEndpointSuffices == Spec => []OneSteadyEndpointSuffices
  <1>1. EvmInv => OneSteadyEndpointSuffices
    BY DEF EvmInv
  <1> QED BY <1>1, EvmInvariance, PTL

\* handle_query: a receipt that is final at every endpoint is neither missed nor
\* called unfinished nor disagreed about.
THEOREM FinalAnswered == Spec => []FinalIsAnswered
  <1>1. EvmInv => FinalIsAnswered
    BY DEF EvmInv
  <1> QED BY <1>1, EvmInvariance, PTL
-------------------------------------------------------------------------------
(* read_qubic_log: the invariant *)

\* Where the handler is and what its locals hold there.
QubicStages ==
    /\ step = "idle" => bob = 1 /\ agreed = NoReceipt /\ before = {} /\ query = NoReceipt
    /\ step = "ask" => bob \in 1..Bobs /\ query \in Queries
    /\ step = "verdict" => bob = Bobs + 1 /\ query \in Queries

\* An honest bob that has been asked has either vouched for the ledger's receipt,
\* or did not know the receipt when the query came, and had none or a pending one.
Vouched ==
    \A b \in honest : b < bob =>
        \/ agreed \in Pending \cup {NoReceipt} /\ b \notin before
        \/ agreed = ledger /\ b \in known

\* The inductive invariant of read_qubic_log.
QubicInv == QubicTypeOK /\ honest # {} /\ QubicStages /\ Vouched /\ OneHonestBobSuffices /\ KnownIsAnswered
-------------------------------------------------------------------------------
(* read_qubic_log: lemmas *)

\* There is a bob to ask.
LEMMA BobsFact == Bobs \in Nat /\ Bobs >= 1
  BY QubicAssumption DEF QubicAssumption

\* A set of naturals that is not empty has a least element: the first matching log.
LEMMA LeastElement ==
    ASSUME NEW S \in SUBSET Nat, S # {}
    PROVE \E k \in S : \A j \in S : k <= j
  <1>1. PICK k \in S : \A j \in S : ~(<<j, k>> \in OpToRel(<, Nat))
    BY WFMin, NatLessThanWellFounded, Zenon
  <1>2. ASSUME NEW j \in S PROVE k <= j
    <2>1. j \in Nat /\ k \in Nat
      OBVIOUS
    <2>2. <<j, k>> \in Nat \X Nat /\ <<j, k>>[1] = j /\ <<j, k>>[2] = k
      BY <2>1
    <2>3. ~(j < k)
      BY <1>1, <2>2 DEF OpToRel
    <2> QED BY <2>1, <2>3
  <1> QED BY <1>2

\* The elements of a sequence are in its set.
LEMMA SeqElement == ASSUME NEW T, NEW s \in Seq(T), NEW k \in 1..Len(s) PROVE s[k] \in T
  OBVIOUS

\* The log the handler takes is one with the id that was asked for.
LEMMA FirstMatches ==
    ASSUME NEW r \in Receipts, NEW q \in Queries, Matching(r.logs, q.logId) # {}
    PROVE LET matching == Matching(r.logs, q.logId)
              first == CHOOSE k \in matching : \A j \in matching : k <= j
          IN  first \in matching
  <1>1. Matching(r.logs, q.logId) \in SUBSET Nat
    BY QubicAssumption DEF QubicAssumption, QubicReceipt, Matching
  <1> QED BY <1>1, LeastElement

\* A verdict on the ledger's own receipt is what the ledger says.
LEMMA VerdictIsLedgers ==
    ASSUME NEW q \in Queries, ledger \in Receipts \ Pending
    PROVE LedgerSays(QubicVerdict(ledger, q), q)
  <1> DEFINE matching == Matching(ledger.logs, q.logId)
             first == CHOOSE k \in matching : \A j \in matching : k <= j
             code == QubicVerdict(ledger, q)
  <1>1. /\ ledger.status \in {"success", "failed"}
        /\ ledger.logs \in Seq([logId : Nat, data : {"fits", "large"}])
    BY QubicAssumption DEF QubicAssumption, QubicReceipt, Pending
  <1>2. CASE ledger.status # "success"
    BY <1>1, <1>2 DEF QubicVerdict, LedgerSays
  <1>3. CASE ledger.status = "success" /\ ledger.tick # q.tick
    BY <1>3 DEF QubicVerdict, LedgerSays
  <1>4. CASE ledger.status = "success" /\ ledger.tick = q.tick /\ matching = {}
    <2>1. code = "LOG_NOT_FOUND"
      BY <1>4 DEF QubicVerdict
    <2>2. \A k \in 1..Len(ledger.logs) : ledger.logs[k].logId # q.logId
      BY <1>4 DEF Matching
    <2> QED BY <1>4, <2>1, <2>2 DEF LedgerSays
  <1>5. CASE ledger.status = "success" /\ ledger.tick = q.tick /\ matching # {}
    <2>1. first \in 1..Len(ledger.logs) /\ ledger.logs[first].logId = q.logId
      <3>1. first \in matching
        BY <1>5, FirstMatches, Zenon
      <3> QED BY <3>1, Zenon DEF Matching
    <2>2. ledger.logs[first].data \in {"fits", "large"}
      <3>1. ledger.logs[first] \in [logId : Nat, data : {"fits", "large"}]
        BY <1>1, <2>1, SeqElement, Zenon
      <3> QED BY <3>1
    <2>3. code = IF ledger.logs[first].data = "large" THEN "LOG_DATA_TOO_LARGE" ELSE "SUCCESS"
      BY <1>5 DEF QubicVerdict
    <2> QED BY <1>5, <2>1, <2>2, <2>3, Zenon DEF LedgerSays
  <1> QED BY <1>2, <1>3, <1>4, <1>5
-------------------------------------------------------------------------------
(* read_qubic_log: the invariant is kept *)

\* The invariant holds initially.
LEMMA QubicInitInv == QubicInit => QubicInv
  <1> SUFFICES ASSUME QubicInit PROVE QubicInv
    OBVIOUS
  <1> USE BobsFact DEF QubicInit
  <1>1. QubicTypeOK
    BY DEF QubicTypeOK
  <1>2. QubicStages
    BY DEF QubicStages
  <1>3. Vouched
    <2> SUFFICES ASSUME NEW b \in honest PROVE ~(b < bob)
      BY DEF Vouched
    <2> QED OBVIOUS
  <1>4. OneHonestBobSuffices /\ KnownIsAnswered
    BY DEF OneHonestBobSuffices, KnownIsAnswered
  <1> QED BY <1>1, <1>2, <1>3, <1>4 DEF QubicInv

\* The network and the bobs move on: what is known only grows, and the receipt is
\* settled once.
LEMMA NetworkStep ==
    ASSUME QubicInv, (\E r \in Receipts : Settle(r)) \/ (\E b \in 1..Bobs : Learn(b))
    PROVE QubicInv'
  <1>1. /\ honest' = honest /\ known \subseteq known' /\ known' \subseteq honest
        /\ ledger' \in (Receipts \ Pending) \cup {NoReceipt}
        /\ ledger' = NoReceipt => known' = {}
        /\ known # {} => ledger' = ledger
        /\ answer' = NoAnswer
        /\ UNCHANGED <<step, query, bob, agreed, before>>
    BY QubicAssumption, Zenon DEF QubicInv, QubicTypeOK, Settle, Learn, QubicAssumption
  <1>2. QubicTypeOK'
    BY <1>1 DEF QubicInv, QubicTypeOK
  <1>3. QubicStages'
    BY <1>1 DEF QubicInv, QubicStages
  <1>4. Vouched'
    <2> SUFFICES ASSUME NEW b \in honest, b < bob
                 PROVE \/ agreed \in Pending \cup {NoReceipt} /\ b \notin before
                       \/ agreed = ledger' /\ b \in known'
      BY <1>1 DEF Vouched
    <2> QED BY <1>1 DEF QubicInv, Vouched
  <1>5. OneHonestBobSuffices' /\ KnownIsAnswered'
    BY <1>1 DEF OneHonestBobSuffices, KnownIsAnswered
  <1> QED BY <1>1, <1>2, <1>3, <1>4, <1>5 DEF QubicInv

\* A reply leaves the handler idle.
LEMMA ReplyStep ==
    ASSUME QubicInv, NEW flags \in QubicFlags, NEW code \in QubicCodes, NEW disagreed \in BOOLEAN,
           QubicReply(flags, code, disagreed), UNCHANGED <<honest, ledger, known>>,
           OneHonestBobSuffices', KnownIsAnswered'
    PROVE QubicInv'
  <1> USE BobsFact
  <1>1. step' = "idle" /\ query' = NoReceipt /\ bob' = 1 /\ agreed' = NoReceipt /\ before' = {}
    BY DEF QubicReply
  <1>2. answer' \in Answers
    BY DEF QubicReply, Answers, QubicInv, QubicTypeOK
  <1>3. QubicTypeOK'
    BY <1>1, <1>2 DEF QubicInv, QubicTypeOK
  <1>4. QubicStages'
    BY <1>1 DEF QubicStages
  <1>5. Vouched'
    <2> SUFFICES ASSUME NEW b \in honest PROVE ~(b < 1)
      BY <1>1 DEF Vouched
    <2> QED BY DEF QubicInv, QubicTypeOK
  <1> QED BY <1>3, <1>4, <1>5 DEF QubicInv

\* A query that is refused keeps the invariant (handle_query).
LEMMA RefuseStep == ASSUME QubicInv, QubicRefuse PROVE QubicInv'
  <1>0. before = {} /\ 1..Bobs # {}
    BY BobsFact DEF QubicInv, QubicStages, QubicRefuse
  <1>1. ASSUME NEW flags \in QubicFlags, NEW code \in QubicCodes,
               flags # "NO_ERROR" \/ code = "BAD_QUERY", code # "TX_NOT_FOUND",
               QubicReply(flags, code, FALSE)
        PROVE OneHonestBobSuffices' /\ KnownIsAnswered'
    BY <1>0, <1>1 DEF QubicReply, OneHonestBobSuffices, KnownIsAnswered
  <1>2. CASE QubicReply("INVALID_ARG", "NONE", FALSE)
    BY <1>1, <1>2, ReplyStep, Zenon DEF QubicRefuse, QubicFlags, QubicCodes
  <1>3. CASE QubicReply("NO_ERROR", "BAD_QUERY", FALSE)
    BY <1>1, <1>3, ReplyStep, Zenon DEF QubicRefuse, QubicFlags, QubicCodes
  <1>4. CASE QubicReply("ORACLE_UNAVAIL", "NONE", FALSE)
    BY <1>1, <1>4, ReplyStep, Zenon DEF QubicRefuse, QubicFlags, QubicCodes
  <1> QED BY <1>2, <1>3, <1>4, Zenon DEF QubicRefuse

\* A new query keeps the invariant (handle_query).
LEMMA AskStep == ASSUME QubicInv, NEW q \in Queries, QubicAsk(q) PROVE QubicInv'
  <1>1. bob = 1 /\ agreed = NoReceipt
    BY DEF QubicInv, QubicStages, QubicAsk
  <1>2. QubicTypeOK'
    BY <1>1, BobsFact DEF QubicInv, QubicTypeOK, QubicAsk
  <1>3. QubicStages'
    BY <1>1, BobsFact DEF QubicStages, QubicAsk
  <1>4. Vouched'
    <2> SUFFICES ASSUME NEW b \in honest PROVE ~(b < 1)
      BY <1>1 DEF Vouched, QubicAsk
    <2> QED BY DEF QubicInv, QubicTypeOK
  <1>5. OneHonestBobSuffices' /\ KnownIsAnswered'
    BY DEF OneHonestBobSuffices, KnownIsAnswered, QubicAsk
  <1> QED BY <1>2, <1>3, <1>4, <1>5 DEF QubicInv, QubicAsk

\* If all bobs are honest and knew the receipt when the query came, the next one
\* says what the first one said.
LEMMA NoDisagreement ==
    ASSUME QubicInv, step = "ask", before = 1..Bobs, NEW said \in Says(bob)
    PROVE AgreesWithFirst(said)
  <1>1. bob \in 1..Bobs /\ bob \in known /\ bob \in honest
    BY DEF QubicInv, QubicStages, QubicTypeOK
  <1>2. said = ledger
    BY <1>1 DEF Says
  <1>3. CASE bob = 1
    BY <1>3 DEF AgreesWithFirst
  <1>4. CASE bob # 1
    <2>1. 1 \in honest /\ 1 \in before /\ 1 < bob
      BY <1>1, <1>4, BobsFact DEF QubicInv, QubicTypeOK
    <2>2. agreed = ledger
      BY <2>1 DEF QubicInv, Vouched
    <2> QED BY <1>2, <2>2 DEF AgreesWithFirst
  <1> QED BY <1>3, <1>4

\* One round of get_receipt keeps the invariant, whatever the bob says.
LEMMA AskBobStep == ASSUME QubicInv, AskBob PROVE QubicInv'
  <1> USE BobsFact
  <1>1. /\ step = "ask" /\ bob \in 1..Bobs /\ query \in Queries
        /\ UNCHANGED <<honest, ledger, known>>
    BY DEF AskBob, QubicInv, QubicStages
  <1>2. ASSUME NEW disagreed \in BOOLEAN, QubicReply("ORACLE_UNAVAIL", "NONE", disagreed),
               disagreed => before # 1..Bobs
        PROVE QubicInv'
    <2>1. OneHonestBobSuffices' /\ KnownIsAnswered'
      BY <1>2 DEF QubicReply, OneHonestBobSuffices, KnownIsAnswered
    <2> QED BY <1>1, <1>2, <2>1, ReplyStep DEF QubicFlags, QubicCodes
  <1>3. CASE QubicReply("ORACLE_UNAVAIL", "NONE", FALSE)
    BY <1>2, <1>3, Zenon
  <1>4. ASSUME NEW said \in Says(bob), ~AgreesWithFirst(said),
               QubicReply("ORACLE_UNAVAIL", "NONE", TRUE)
        PROVE QubicInv'
    <2>1. before # 1..Bobs
      BY <1>1, <1>4, NoDisagreement
    <2> QED BY <1>2, <1>4, <2>1, Zenon
  <1>5. ASSUME NEW said \in Says(bob), AgreesWithFirst(said),
               agreed' = (IF bob = 1 THEN said ELSE agreed), bob' = bob + 1,
               step' = AfterBob, answer' = NoAnswer, UNCHANGED <<query, before>>
        PROVE QubicInv'
    <2>1. said \in Receipts \cup {NoReceipt} /\ agreed' = said
      BY <1>5 DEF QubicInv, QubicTypeOK, Says, AgreesWithFirst, Pending
    <2>2. QubicTypeOK'
      BY <1>1, <1>5, <2>1 DEF QubicInv, QubicTypeOK, AfterBob
    <2>3. QubicStages'
      BY <1>1, <1>5 DEF QubicStages, AfterBob
    <2>4. Vouched'
      <3> SUFFICES ASSUME NEW b \in honest, b < bob + 1
                   PROVE \/ said \in Pending \cup {NoReceipt} /\ b \notin before
                         \/ said = ledger /\ b \in known
        BY <1>1, <1>5, <2>1 DEF Vouched
      <3>1. CASE b = bob
        BY <3>1 DEF Says, QubicInv, QubicTypeOK
      <3>2. CASE b < bob
        <4>1. b \in 1..Bobs
          BY DEF QubicInv, QubicTypeOK
        <4>2. bob # 1 /\ said = agreed
          BY <1>1, <1>5, <3>2, <4>1 DEF AgreesWithFirst
        <4> QED BY <3>2, <4>2 DEF QubicInv, Vouched
      <3>3. b = bob \/ b < bob
        BY <1>1 DEF QubicInv, QubicTypeOK
      <3> QED BY <3>1, <3>2, <3>3
    <2>5. OneHonestBobSuffices' /\ KnownIsAnswered'
      BY <1>5 DEF OneHonestBobSuffices, KnownIsAnswered
    <2> QED BY <1>1, <2>2, <2>3, <2>4, <2>5 DEF QubicInv
  <1> QED BY <1>3, <1>4, <1>5, Zenon DEF AskBob

\* The verdict keeps the invariant (handle_query).
LEMMA AnswerStep == ASSUME QubicInv, AnswerQubic PROVE QubicInv'
  <1> DEFINE code == IF agreed = NoReceipt THEN "TX_NOT_FOUND" ELSE QubicVerdict(agreed, query)
  <1>1. /\ bob = Bobs + 1 /\ query \in Queries
        /\ QubicReply("NO_ERROR", code, FALSE) /\ UNCHANGED <<honest, ledger, known>>
    BY Zenon DEF AnswerQubic, QubicInv, QubicStages
  <1>2. \A b \in honest :
            \/ agreed \in Pending \cup {NoReceipt} /\ b \notin before
            \/ agreed = ledger /\ b \in known
    BY <1>1, BobsFact DEF QubicInv, Vouched, QubicTypeOK
  <1>3. CASE agreed \in Pending \cup {NoReceipt}
    <2>1. before = {}
      <3> SUFFICES ASSUME NEW b \in before PROVE FALSE
        OBVIOUS
      <3>1. b \in honest /\ ledger # NoReceipt /\ ledger \notin Pending
        BY DEF QubicInv, QubicTypeOK
      <3> QED BY <1>2, <1>3, <3>1
    <2>2. code \in {"TX_NOT_FOUND", "TX_NOT_EXECUTED"}
      BY <1>3 DEF QubicVerdict, Pending
    <2> HIDE DEF code
    <2>3. OneHonestBobSuffices' /\ KnownIsAnswered'
      BY <1>1, <2>1, <2>2, BobsFact DEF QubicReply, OneHonestBobSuffices, KnownIsAnswered
    <2>4. code \in QubicCodes
      BY <2>2 DEF QubicCodes
    <2> QED BY <1>1, <2>3, <2>4, ReplyStep, Zenon DEF QubicFlags
  <1>4. CASE agreed \notin Pending \cup {NoReceipt}
    <2>1. agreed = ledger /\ ledger \in Receipts \ Pending
      BY <1>2, <1>4, Zenon DEF QubicInv, QubicTypeOK
    <2>2. code = QubicVerdict(ledger, query) /\ LedgerSays(code, query)
      BY <1>1, <1>4, <2>1, VerdictIsLedgers
    <2>3. code \in QubicCodes /\ code # "TX_NOT_FOUND"
      BY <2>2, Zenon DEF QubicVerdict, QubicCodes
    <2> HIDE DEF code
    <2>4. OneHonestBobSuffices'
      <3>1. PICK c, q : c = code /\ q = query
        OBVIOUS
      <3>2. answer'.code = c /\ answer'.query = q
        BY <1>1, <3>1 DEF QubicReply
      <3>3. ledger' # NoReceipt /\ LedgerSays(c, q)'
        BY <1>1, <1>4, <2>1, <2>2, <3>1, Zenon DEF LedgerSays
      <3> QED BY <2>3, <3>1, <3>2, <3>3 DEF OneHonestBobSuffices, LedgerSays
    <2>5. KnownIsAnswered'
      BY <1>1, <2>3 DEF QubicReply, KnownIsAnswered
    <2> QED BY <1>1, <2>3, <2>4, <2>5, ReplyStep, Zenon DEF QubicFlags
  <1> QED BY <1>3, <1>4

\* Every step keeps the invariant.
LEMMA QubicStep == QubicInv /\ [QubicNext]_qubicVars => QubicInv'
  <1> SUFFICES ASSUME QubicInv, [QubicNext]_qubicVars PROVE QubicInv'
    OBVIOUS
  <1>1. CASE UNCHANGED qubicVars
    <2>1. QubicTypeOK'
      BY <1>1 DEF qubicVars, QubicInv, QubicTypeOK
    <2>2. QubicStages' /\ Vouched'
      BY <1>1 DEF qubicVars, QubicInv, QubicStages, Vouched
    <2>3. OneHonestBobSuffices'
      BY <1>1, Zenon DEF qubicVars, QubicInv, OneHonestBobSuffices, LedgerSays
    <2>4. KnownIsAnswered'
      BY <1>1, Zenon DEF qubicVars, QubicInv, KnownIsAnswered
    <2> QED BY <1>1, <2>1, <2>2, <2>3, <2>4 DEF qubicVars, QubicInv
  <1> QED
    BY <1>1, NetworkStep, RefuseStep, AskStep, AskBobStep, AnswerStep DEF QubicNext

\* The invariant holds in every state of the service.
LEMMA QubicInvariance == QubicSpec => []QubicInv
  BY QubicInitInv, QubicStep, PTL DEF QubicSpec
-------------------------------------------------------------------------------
(* read_qubic_log: theorems *)

\* The variables of read_qubic_log keep their types: what is agreed is a receipt,
\* the loop stays within the list of bobs, and every reply has a known code.
THEOREM QubicTypeCorrect == QubicSpec => []QubicTypeOK
  <1>1. QubicInv => QubicTypeOK
    BY DEF QubicInv
  <1> QED BY <1>1, QubicInvariance, PTL

\* For every list of bobs with one honest bob in it, what get_receipt and
\* handle_query say of a transaction is what the ledger says, or that there is none or
\* none executed, of one no honest bob knew the outcome of.
THEOREM HonestBobSuffices == QubicSpec => []OneHonestBobSuffices
  <1>1. QubicInv => OneHonestBobSuffices
    BY DEF QubicInv
  <1> QED BY <1>1, QubicInvariance, PTL

\* For every number of bobs: once all of them know the transaction, no query about
\* it is lost to a disagreement.
THEOREM KnownAnswered == QubicSpec => []KnownIsAnswered
  <1>1. QubicInv => KnownIsAnswered
    BY DEF QubicInv
  <1> QED BY <1>1, QubicInvariance, PTL
===============================================================================
