------------------------------- MODULE DogeShare -------------------------------
(***************************************************************************)
(* oracles/doge_share_validation/src/doge_service.cpp: what                *)
(* DogeService::processInterfaceQuery makes of a share.  It takes the      *)
(* pieces of the coinbase transaction and the Merkle branch out of the     *)
(* query, computes the root of the block's transactions, and compares the  *)
(* hash of the header with the target.                                     *)
(*                                                                         *)
(* A cell is a byte or so, or a hash; a hash is the term that says of what *)
(* it is the hash.  The scrypt hash of a header is any number (Smix and    *)
(* Sha256 are about how it is computed).                                   *)
(***************************************************************************)
EXTENDS Integers, Sequences

CONSTANTS Shares,     \* shares of a pool and the blocks they are for
          Capacity,   \* additionalDataSize, in cells
          SizeModulus,\* values of a size: 2^32
          Radix,      \* values of a byte
          Computors,  \* NUMBER_OF_COMPUTORS
          IndexBytes  \* bytes of extraNonce2 that hold the computor: 4

\* The cells of a share are tuples of one number; its transactions are counted
\* beside the coinbase; hash is what scrypt will say, target what it must not exceed.
Cell == [1..1 -> Nat]
ASSUME ShareAssumption ==
    /\ Capacity \in Nat /\ SizeModulus \in Nat /\ Capacity < SizeModulus
    /\ Radix \in Nat \ {0, 1} /\ Computors \in Nat \ {0} /\ IndexBytes \in Nat
    /\ \A s \in Shares : /\ s.extraNonce1 \in Seq(Cell) /\ s.coinbase1 \in Seq(Cell)
                        /\ s.coinbase2 \in Seq(Cell) /\ s.extraNonce2 \in Seq(Cell)
                        /\ Len(s.extraNonce1) < SizeModulus /\ Len(s.coinbase1) < SizeModulus
                        /\ Len(s.coinbase2) < SizeModulus
                        /\ Len(s.extraNonce2) >= IndexBytes
                        /\ s.transactions \in Nat /\ s.transactions < SizeModulus
                        /\ s.hash \in Seq(0..Radix - 1) /\ s.target \in Seq(0..Radix - 1)
                        /\ Len(s.hash) = Len(s.target)

VARIABLES
    share,    \* the share that is asked about, if any
    verdict   \* the reply, with the root it was found with

shareVars == <<share, verdict>>

NoShare == <<>>
NoVerdict == [flags |-> "NONE"]

ShareInit == share = NoShare /\ verdict = NoVerdict

doubleSHA256(cells) == <<"sha", cells>>
-------------------------------------------------------------------------------
(* The block and the query: external, as the code takes them apart *)

\* The ids of the transactions: the coinbase and the others.
Coinbase(s) == doubleSHA256(s.coinbase1 \o s.extraNonce1 \o s.extraNonce2 \o s.coinbase2)
Leaves(s) == <<Coinbase(s)>> \o [k \in 1..s.transactions |-> doubleSHA256(<<<<k>>>>)]

\* The level of a Merkle tree above another; an odd last hash is paired with itself.
Above(level) ==
    [k \in 1..(Len(level) + 1) \div 2 |->
        doubleSHA256(<<level[2 * k - 1], level[IF 2 * k <= Len(level) THEN 2 * k ELSE 2 * k - 1]>>)]

\* The levels from the leaves up, to the first with a single hash, which is the root.
Levels(s) ==
    LET level[h \in 0..s.transactions] == IF h = 0 THEN Leaves(s) ELSE Above(level[h - 1])
    IN  level
Height(s) ==
    CHOOSE h \in 0..s.transactions :
        Len(Levels(s)[h]) = 1 /\ \A g \in 0..h - 1 : Len(Levels(s)[g]) # 1
Root(s) == Levels(s)[Height(s)][1]

\* What a pool hands out: on every level below the root the sibling of the leftmost hash.
Branch(s) == [h \in 1..Height(s) |-> <<Levels(s)[h - 1][2]>>]

\* DogeShareValidation::OracleQuery: sizes, and one area for the pieces and the branch.
Encode(s) ==
    LET branch == Branch(s)
        lengths == [k \in 1..Len(branch) |-> <<Len(branch[k])>>]
        hashes == [k \in 1..Len(branch) |-> branch[k][1]]
        area == s.extraNonce1 \o s.coinbase1 \o s.coinbase2 \o lengths \o hashes
    IN  [extraNonce1NumBytes |-> Len(s.extraNonce1), coinbase1NumBytes |-> Len(s.coinbase1),
         coinbase2NumBytes |-> Len(s.coinbase2), numMerkleBranches |-> Len(branch),
         additionalData |-> [k \in 1..Capacity |-> IF k <= Len(area) THEN area[k] ELSE <<0>>],
         solutionExtraNonce2 |-> s.extraNonce2, target |-> s.target]
-------------------------------------------------------------------------------
(* processInterfaceQuery *)

\* The sums of the first numbers of a sequence, and of all of them.
Sums(numbers) ==
    LET sum[k \in 0..Len(numbers)] == IF k = 0 THEN 0 ELSE sum[k - 1] + numbers[k]
    IN  sum
Total(numbers) == Sums(numbers)[Len(numbers)]

\* The parts of a sequence of cells that have the given lengths, one after the other.
Pieces(cells, lengths) ==
    [k \in 1..Len(lengths) |-> SubSeq(cells, Sums(lengths)[k - 1] + 1, Sums(lengths)[k])]

\* The hashes of the loop: that of the coinbase, which is always on the left, and one for
\* each branch.
Hashes(coinbase, branches) ==
    LET hash[k \in 0..Len(branches)] ==
            doubleSHA256(IF k = 0 THEN coinbase ELSE <<hash[k - 1]>> \o branches[k])
    IN  hash

\* Mutant: the nonce of the pool comes after that of the miner.
calculateMerkleRootSwapped(coinbase1, coinbase2, extraNonce1, extraNonce2, branches) ==
    Hashes(coinbase1 \o extraNonce2 \o extraNonce1 \o coinbase2, branches)[Len(branches)]

calculateMerkleRoot(coinbase1, coinbase2, extraNonce1, extraNonce2, branches) ==
    Hashes(coinbase1 \o extraNonce1 \o extraNonce2 \o coinbase2, branches)[Len(branches)]

\* From the last byte on, the first two that differ decide.
verifyHashVsTarget(hash, target) ==
    \/ \A k \in 1..Len(hash) : hash[k] = target[k]
    \/ \E k \in 1..Len(hash) : hash[k] < target[k] /\ \A j \in k + 1..Len(hash) : hash[j] = target[j]

\* The first bytes of extraNonce2, big-endian: what the loop has after each of them.
Shifted(extraNonce2) ==
    LET index[k \in 0..IndexBytes] ==
            IF k = 0 THEN 0 ELSE index[k - 1] * Radix + extraNonce2[k][1]
    IN  index
ComputorIndex(extraNonce2) == Shifted(extraNonce2)[IndexBytes] % Computors

\* The cells that are read with the given branches; a length takes one.
Extent(q, lengths) ==
    q.extraNonce1NumBytes + q.coinbase1NumBytes + q.coinbase2NumBytes + q.numMerkleBranches
        + Total(lengths)

\* additionalDataSize counts them in 32 bits.
DataSize(q, lengths) == Extent(q, lengths) % SizeModulus

\* Mutant: the area is not to be filled.
TooLargeAlmost(size) == size >= Capacity

TooLarge(size) == size > Capacity

\* The reply, for the hash that scrypt gives.  Sizes that have wrapped around can pass
\* though the pieces end beyond the area; what the code then reads, and does, is undefined.
Validate(q, hash) ==
    LET index == ComputorIndex(q.solutionExtraNonce2)
        sizes == <<q.extraNonce1NumBytes, q.coinbase1NumBytes, q.coinbase2NumBytes>>
        parts == Pieces(q.additionalData, sizes)
        lengths == [k \in 1..q.numMerkleBranches |-> q.additionalData[Total(sizes) + k][1]]
        branches == Pieces(SubSeq(q.additionalData, Extent(q, <<>>) + 1, Capacity), lengths)
        root == calculateMerkleRoot(parts[2], parts[3], parts[1],
                                    q.solutionExtraNonce2, branches)
        refused == [flags |-> "INVALID_ARG", compIndex |-> index]
        undefined == [flags |-> "UNDEFINED"]
    IN  IF TooLarge(DataSize(q, <<>>)) THEN refused
        ELSE IF Extent(q, <<>>) > Capacity THEN undefined
        ELSE IF TooLarge(DataSize(q, lengths)) THEN refused
        ELSE IF Extent(q, lengths) > Capacity THEN undefined
        ELSE [flags |-> "NO_ERROR", compIndex |-> index, root |-> root,
              isValid |-> verifyHashVsTarget(hash, q.target)]

\* A query comes in the size of the interface, which BaseOracleService has seen to.
AskShare(s) ==
    /\ share = NoShare
    /\ share' = s
    /\ UNCHANGED verdict

ValidateShare ==
    /\ share # NoShare /\ verdict = NoVerdict
    /\ verdict' = Validate(Encode(share), share.hash)
    /\ UNCHANGED share

ShareNext == (\E s \in Shares : AskShare(s)) \/ ValidateShare
ShareSpec == ShareInit /\ [][ShareNext]_shareVars
-------------------------------------------------------------------------------
(* Properties *)

\* A sequence of bytes as the little-endian number that it is, each byte with the value
\* of its place.
PlaceValue[k \in Nat] == IF k = 0 THEN 1 ELSE Radix * PlaceValue[k - 1]
Values(bytes) ==
    LET value[k \in 0..Len(bytes)] == IF k = 0 THEN 0 ELSE value[k - 1] + bytes[k] * PlaceValue[k - 1]
    IN  value
NumberOf(bytes) == Values(bytes)[Len(bytes)]

\* A share is judged by the block it is for: the root that goes into the header
\* is the root of the tree of all transactions of the block, whatever their
\* number and however long the pieces of the coinbase are, and the share is
\* valid exactly if the hash is a number not above the target
\* (calculateMerkleRoot, verifyHashVsTarget).
JudgedByItsBlock ==
    verdict # NoVerdict /\ verdict.flags = "NO_ERROR" =>
        /\ verdict.root = Root(share)
        /\ (verdict.isValid <=> NumberOf(share.hash) <= NumberOf(share.target))

\* A share is judged exactly if its pieces, with a length and a hash for each level of
\* the tree, fit in the query.  One that does not fit is refused, unless there are so
\* many cells that their count wraps around.  Judged or refused, it is put down to the
\* computor that the first bytes of its nonce name (processInterfaceQuery).
RefusedIfTooLarge ==
    verdict # NoVerdict =>
        LET branches == Len(Branch(share))
            needed == Len(share.extraNonce1) + Len(share.coinbase1) + Len(share.coinbase2)
                          + branches + branches
            index == [k \in 1..IndexBytes |-> share.extraNonce2[(IndexBytes + 1) - k][1]]
        IN  /\ (verdict.flags = "NO_ERROR" <=> needed <= Capacity)
            /\ (verdict.flags = "UNDEFINED" => needed >= SizeModulus)
            /\ (verdict.flags # "UNDEFINED" => verdict.compIndex = NumberOf(index) % Computors)
===============================================================================
