--------------------------------- MODULE Smix ---------------------------------
(***************************************************************************)
(* smix and blockmix_salsa8 of scrypt.c, which decide with PBKDF2_SHA256   *)
(* what the hash of a Doge share is: two rounds of the mixing function to  *)
(* a turn of each loop, with two blocks X and Y that change places.        *)
(*                                                                         *)
(* A block is a pair of halves.  salsa20_8 and the exclusive or of halves  *)
(* are any functions.                                                      *)
(***************************************************************************)
EXTENDS Integers

CONSTANTS Halves,      \* 64 bytes
          Salsa,       \* salsa20_8
          XorHalf,     \* blkxor of two halves
          IntegerOf,   \* a half as a little-endian integer
          Rounds       \* N

BlockValues == Halves \X Halves

ASSUME SmixAssumption ==
    /\ Salsa \in [Halves -> Halves]
    /\ XorHalf \in [Halves \X Halves -> Halves]
    /\ IntegerOf \in [Halves -> Nat]
    /\ Rounds \in Nat \ {0} /\ Rounds % 2 = 0

VARIABLES
    B,       \* the block that comes in and goes out
    X, Y,    \* the two halves of the scratch space XY
    V,       \* the table
    turn,    \* i
    at       \* the place in smix

smixVars == <<B, X, Y, V, turn, at>>

SmixTypeOK ==
    /\ B \in BlockValues /\ X \in BlockValues /\ Y \in BlockValues
    /\ V \in [0..Rounds - 1 -> BlockValues]
    /\ turn \in 0..Rounds - 2 /\ turn % 2 = 0
    /\ at \in {"load", "fill X", "fill Y", "mix X", "mix Y", "store", "done"}

\* The scratch space is on the stack and not cleared.
SmixInit ==
    /\ B \in BlockValues
    /\ X \in BlockValues /\ Y \in BlockValues
    /\ \E junk \in BlockValues : V = [k \in 0..Rounds - 1 |-> junk]
    /\ turn = 0 /\ at = "load"

\* blockmix_salsa8 with r = 1: each half takes in the one before it, the first
\* half the last one.
blockmix_salsa8 ==
    [block \in BlockValues |->
        LET first == Salsa[XorHalf[<<block[2], block[1]>>]]
        IN  <<first, Salsa[XorHalf[<<first, block[2]>>]]>>]

\* integerify: the last half.
integerify == [block \in BlockValues |-> IntegerOf[block[2]]]

blkxor == [pair \in BlockValues \X BlockValues |->
              <<XorHalf[<<pair[1][1], pair[2][1]>>], XorHalf[<<pair[1][2], pair[2][2]>>]>>]
-------------------------------------------------------------------------------
(* smix *)

LoadBlock ==
    /\ at = "load"
    /\ X' = B /\ at' = "fill X"
    /\ UNCHANGED <<B, Y, V, turn>>

\* The next turn of a loop, or the first of the next one.
Turn(now, next) ==
    IF turn + 2 < Rounds THEN turn' = turn + 2 /\ at' = now
    ELSE turn' = 0 /\ at' = next

\* The first half of a turn of the first loop.
FillX ==
    /\ at = "fill X"
    /\ V' = [V EXCEPT ![turn] = X]
    /\ Y' = blockmix_salsa8[X]
    /\ at' = "fill Y"
    /\ UNCHANGED <<B, X, turn>>

\* Mutant: the second half of a turn writes where the first one did.
SecondPlaceSame == turn

SecondPlace == turn + 1

FillY ==
    /\ at = "fill Y"
    /\ V' = [V EXCEPT ![SecondPlace] = Y]
    /\ X' = blockmix_salsa8[Y]
    /\ Turn("fill X", "mix X")
    /\ UNCHANGED <<B, Y>>

\* j: Rounds is a power of two, so the mask is the remainder.
Place(block) == integerify[block] % Rounds

MixX ==
    /\ at = "mix X"
    /\ X' = blkxor[<<X, V[Place(X)]>>]
    /\ Y' = blockmix_salsa8[X']
    /\ at' = "mix Y"
    /\ UNCHANGED <<B, V, turn>>

MixY ==
    /\ at = "mix Y"
    /\ Y' = blkxor[<<Y, V[Place(Y)]>>]
    /\ X' = blockmix_salsa8[Y']
    /\ Turn("mix X", "store")
    /\ UNCHANGED <<B, V>>

StoreBlock ==
    /\ at = "store"
    /\ B' = X /\ at' = "done"
    /\ UNCHANGED <<X, Y, V, turn>>

SmixNext == LoadBlock \/ FillX \/ FillY \/ MixX \/ MixY \/ StoreBlock
SmixSpec == SmixInit /\ [][SmixNext]_smixVars
-------------------------------------------------------------------------------
(* Properties *)

\* In the second half of a turn the block is Y, and a round is over.
InY == at \in {"fill Y", "mix Y"}
Abstract == INSTANCE ROMix WITH
    Values <- BlockValues, H <- blockmix_salsa8, Xor <- blkxor,
    Integerify <- integerify, N <- Rounds,
    b <- B, v <- V,
    x <- IF InY THEN Y ELSE X,
    n <- IF InY THEN turn + 1 ELSE turn,
    phase <- IF at \in {"fill X", "fill Y"} THEN "fill"
             ELSE IF at \in {"mix X", "mix Y"} THEN "mix" ELSE at

\* The unrolled loops with their two blocks compute what the comments' numbered
\* steps say, round by round: every entry of V is written once and in order, and
\* the block never lags behind the one the step is about (smix).
ImplementsROMix == Abstract!Spec
===============================================================================
