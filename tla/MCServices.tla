------------------------------ MODULE MCServices ------------------------------
(***************************************************************************)
(* Small instances of what the services do for a reply: the two that read  *)
(* logs, the price of two exchanges, and the parts of the verdict on a     *)
(* Doge share.  They share nothing, so one is looked at at a time.         *)
(***************************************************************************)
EXTENDS ReadEvmLog, ReadQubicLog, PriceArithmetic, DogeShare, Sha256, Smix

VARIABLE subject
-------------------------------------------------------------------------------
\* A transaction that logs, or, on another fork, fails.
MCContents == {[status |-> 1, logs |-> <<"fits", "large", "topics">>],
               [status |-> 1, logs |-> <<"fits">>],
               [status |-> 0, logs |-> <<>>]}

\* Log ids that are not the places of the logs.
Log(id, size) == [logId |-> id, data |-> size]
MCReceipts == {[tick |-> 1, status |-> "success", logs |-> <<Log(2, "fits"), Log(1, "large")>>],
               [tick |-> 2, status |-> "success", logs |-> <<Log(1, "fits")>>],
               [tick |-> 1, status |-> "failed", logs |-> <<>>],
               [tick |-> 1, status |-> "pending", logs |-> <<>>]}
MCQueries == [tick : {1}, logId : 0..2]

\* Forty bytes, so that the low word of 256 bits overflows.
MCSource == [k \in 1..40 |-> (7 * k + k \div 3) % 16]

\* Functions on halves that depend on the order of their arguments.
MCHalves == 0..2
MCSalsa == [h \in MCHalves |-> (2 * h + 1) % 3]
MCXorHalf == [pair \in MCHalves \X MCHalves |-> (pair[1] + 2 * pair[2]) % 3]
MCIntegerOf == [h \in MCHalves |-> h]

\* Blocks of up to six transactions, and hashes on all sides of a target.
MCShares ==
    [extraNonce1 : {<<>>, <<<<1>>>>}, coinbase1 : {<<>>, <<<<2>>, <<1>>>>},
     coinbase2 : {<<>>, <<<<3>>>>},
     extraNonce2 : {<<<<1>>, <<0>>, <<2>>>>, <<<<0>>, <<2>>, <<1>>>>},
     transactions : 0..5, hash : [1..2 -> 0..2], target : {<<1, 1>>}]
-------------------------------------------------------------------------------
others == <<qubicVars, priceVars, shareVars, shaVars, smixVars>>

\* The inputs of the one that is looked at vary.
MCInit ==
    /\ subject \in {"evm log", "qubic log", "price", "share", "sha", "smix"}
    /\ IF subject = "smix" THEN X \in BlockValues /\ B \in BlockValues
       ELSE X = <<0, 0>> /\ B = X
    /\ Y = X
    /\ SmixInit /\ V[0] = X
    /\ IF subject = "qubic log" THEN TRUE ELSE honest = {1}
    /\ IF subject = "price" THEN TRUE ELSE texts = <<<<>>, <<>>>>
    /\ Init /\ QubicInit /\ PriceInit /\ ShareInit /\ ShaInit
MCNext ==
    /\ UNCHANGED subject
    /\ \/ subject = "evm log" /\ Next /\ UNCHANGED others
       \/ /\ UNCHANGED vars
          /\ \/ /\ subject = "qubic log" /\ QubicNext
                /\ UNCHANGED <<priceVars, shareVars, shaVars, smixVars>>
             \/ /\ subject = "price" /\ PriceNext
                /\ UNCHANGED <<qubicVars, shareVars, shaVars, smixVars>>
             \/ /\ subject = "share" /\ ShareNext
                /\ UNCHANGED <<qubicVars, priceVars, shaVars, smixVars>>
             \/ /\ subject = "sha" /\ ShaNext
                /\ UNCHANGED <<qubicVars, priceVars, shareVars, smixVars>>
             \/ /\ subject = "smix" /\ SmixNext
                /\ UNCHANGED <<qubicVars, priceVars, shareVars, shaVars>>
MCSpec == MCInit /\ [][MCNext]_<<subject, vars, others>>
===============================================================================
