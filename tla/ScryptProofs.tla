------------------------------ MODULE ScryptProofs -----------------------------
(***************************************************************************)
(* Proofs about scrypt.c of the Doge service, for every size.  smix (Smix) *)
(* implements the ROMix of the standard and stays in its table.  The       *)
(* streaming half of SHA-256 (Sha256) loses no byte however the message    *)
(* comes in pieces, and pads it as the standard says.                      *)
(***************************************************************************)
EXTENDS Smix, Sha256, SequenceTheorems, TLAPS

\* The number of rounds is even and at least two.
LEMMA RoundsFact == Rounds \in Nat /\ Rounds >= 2 /\ Rounds % 2 = 0
  BY SmixAssumption DEF SmixAssumption

\* What the helpers return (blockmix_salsa8, blkxor, integerify).
LEMMA HelperTypes ==
    /\ \A x \in BlockValues : blockmix_salsa8[x] \in BlockValues
    /\ \A x, y \in BlockValues : blkxor[<<x, y>>] \in BlockValues
    /\ \A x \in BlockValues : Place(x) \in 0..Rounds - 1
  <1>1. ASSUME NEW x \in BlockValues PROVE x[1] \in Halves /\ x[2] \in Halves
    BY DEF BlockValues
  <1>2. ASSUME NEW x \in BlockValues PROVE blockmix_salsa8[x] \in BlockValues
    <2> DEFINE first == Salsa[XorHalf[<<x[2], x[1]>>]]
    <2>1. first \in Halves
      BY <1>1, SmixAssumption DEF SmixAssumption
    <2>2. Salsa[XorHalf[<<first, x[2]>>]] \in Halves
      BY <1>1, <2>1, SmixAssumption DEF SmixAssumption
    <2> QED BY <2>1, <2>2 DEF blockmix_salsa8, BlockValues
  <1>3. ASSUME NEW x \in BlockValues, NEW y \in BlockValues PROVE blkxor[<<x, y>>] \in BlockValues
    <2>1. XorHalf[<<x[1], y[1]>>] \in Halves /\ XorHalf[<<x[2], y[2]>>] \in Halves
      BY <1>1, SmixAssumption DEF SmixAssumption
    <2> QED BY <2>1, Zenon DEF blkxor, BlockValues
  <1>4. ASSUME NEW x \in BlockValues PROVE Place(x) \in 0..Rounds - 1
    <2>1. integerify[x] \in Nat
      BY <1>1, SmixAssumption DEF SmixAssumption, integerify
    <2> QED BY <2>1, RoundsFact DEF Place
  <1> QED BY <1>2, <1>3, <1>4
-------------------------------------------------------------------------------
\* The types hold initially.
LEMMA TypeInit == SmixInit => SmixTypeOK
  BY RoundsFact DEF SmixInit, SmixTypeOK

\* The counter of a turn is even and leaves room for a second place in the table.
LEMMA TurnFact == SmixTypeOK => turn \in Int /\ 0 <= turn /\ turn <= Rounds - 2 /\ turn % 2 = 0
  <1>1. SmixTypeOK => turn \in 0..Rounds - 2 /\ turn % 2 = 0
    BY Zenon DEF SmixTypeOK
  <1> QED BY <1>1, RoundsFact

\* The next turn starts at an even place, and there is one after it.
LEMMA NextTurn ==
    ASSUME NEW n \in Int, NEW t \in Int, 0 <= t, n % 2 = 0, t % 2 = 0, t + 2 < n
    PROVE t + 2 \in 0..n - 2 /\ (t + 2) % 2 = 0
  OBVIOUS

\* The end of a turn keeps the types of the counter and the place (smix).
LEMMA TurnType ==
    ASSUME SmixTypeOK, NEW now, NEW next, Turn(now, next)
    PROVE /\ turn' \in 0..Rounds - 2 /\ turn' % 2 = 0
          /\ at' \in {now, next}
  <1>1. CASE turn + 2 < Rounds
    BY <1>1, TurnFact, RoundsFact, NextTurn DEF Turn
  <1>2. CASE ~(turn + 2 < Rounds)
    BY <1>2, RoundsFact DEF Turn
  <1> QED BY <1>1, <1>2

\* Both loops take an even number of rounds, so turn + 1 is still a place of V.
LEMMA TypeStep == SmixTypeOK /\ [SmixNext]_smixVars => SmixTypeOK'
  <1> SUFFICES ASSUME SmixTypeOK, [SmixNext]_smixVars PROVE SmixTypeOK'
    OBVIOUS
  <1> USE RoundsFact DEF SmixTypeOK
  <1>1. CASE LoadBlock
    BY <1>1, Zenon DEF LoadBlock
  <1>2. CASE FillX
    BY <1>2, HelperTypes, Zenon DEF FillX
  <1>3. CASE FillY
    <2>1. X' \in BlockValues /\ V' \in [0..Rounds - 1 -> BlockValues]
      BY <1>3, HelperTypes, Zenon DEF FillY
    <2>2. turn' \in 0..Rounds - 2 /\ turn' % 2 = 0 /\ at' \in {"fill X", "mix X"}
      BY <1>3, TurnType, Zenon DEF FillY
    <2> QED BY <1>3, <2>1, <2>2, Zenon DEF FillY
  <1>4. CASE MixX
    <2>1. X' \in BlockValues
      BY <1>4, HelperTypes, Zenon DEF MixX
    <2> QED BY <1>4, <2>1, HelperTypes, Zenon DEF MixX
  <1>5. CASE MixY
    <2>1. Y' \in BlockValues
      BY <1>5, HelperTypes, Zenon DEF MixY
    <2>2. X' \in BlockValues
      BY <1>5, <2>1, HelperTypes, Zenon DEF MixY
    <2>3. turn' \in 0..Rounds - 2 /\ turn' % 2 = 0 /\ at' \in {"mix X", "store"}
      BY <1>5, TurnType, Zenon DEF MixY
    <2> QED BY <1>5, <2>1, <2>2, <2>3, Zenon DEF MixY
  <1>6. CASE StoreBlock
    BY <1>6 DEF StoreBlock
  <1>7. CASE UNCHANGED smixVars
    BY <1>7, Zenon DEF smixVars
  <1> QED
    BY <1>1, <1>2, <1>3, <1>4, <1>5, <1>6, <1>7, Zenon DEF SmixNext

\* The scratch space of smix holds blocks, and every turn starts at an even place
\* of V, so that both of its halves write inside it.
THEOREM TypeCorrect == SmixSpec => []SmixTypeOK
  BY TypeInit, TypeStep, PTL DEF SmixSpec
-------------------------------------------------------------------------------
(* The refinement *)

\* An initial state of smix is one of the mixing function.
LEMMA InitMaps == SmixInit => Abstract!Init
  BY RoundsFact DEF SmixInit, Abstract!Init, InY

\* Every step of smix is a step of the mixing function.
LEMMA StepMaps == SmixTypeOK /\ [SmixNext]_smixVars => [Abstract!Next]_(Abstract!vars)
  <1> SUFFICES ASSUME SmixTypeOK, [SmixNext]_smixVars
               PROVE Abstract!Next \/ UNCHANGED Abstract!vars
    OBVIOUS
  <1> USE DEF InY
  <1>0. turn \in Int /\ 0 <= turn /\ turn <= Rounds - 2 /\ Rounds \in Int
    BY TurnFact, RoundsFact
  <1>1. CASE LoadBlock
    <2>1. Abstract!Load
      BY <1>1, Zenon DEF LoadBlock, Abstract!Load
    <2> QED BY <2>1 DEF Abstract!Next
  <1>2. CASE FillX
    <2>1. ~InY /\ InY'
      BY <1>2, Zenon DEF FillX
    <2> turn + 1 # Rounds
      BY <1>0
    <2>2. V' = [V EXCEPT ![turn] = X] /\ Y' = blockmix_salsa8[X] /\ B' = B /\ turn' = turn
      BY <1>2, Zenon DEF FillX
    <2>3. at = "fill X" /\ at' = "fill Y"
      BY <1>2, Zenon DEF FillX
    <2>4. Abstract!Fill
      BY <2>1, <2>2, <2>3, Zenon DEF Abstract!Fill, Abstract!Round
    <2> QED BY <2>4 DEF Abstract!Next
  <1>3. CASE FillY
    <2>1. InY /\ ~InY'
      BY <1>3, Zenon DEF FillY, Turn
    <2>2. V' = [V EXCEPT ![turn + 1] = Y] /\ X' = blockmix_salsa8[Y] /\ B' = B
      BY <1>3, Zenon DEF FillY, SecondPlace
    <2>3. CASE turn + 2 < Rounds
      <3>1. at = "fill Y" /\ at' = "fill X"
        BY <1>3, <2>3, Zenon DEF FillY, Turn
      <3>2. turn' = turn + 2
        BY <1>3, <2>3, Zenon DEF FillY, Turn
      <3> (turn + 1) + 1 # Rounds /\ turn' = (turn + 1) + 1
        BY <1>0, <2>3, <3>2
      <3>3. Abstract!Fill
        BY <2>1, <2>2, <2>3, <3>1, Zenon DEF Abstract!Fill, Abstract!Round
      <3> QED BY <3>3 DEF Abstract!Next
    <2>4. CASE ~(turn + 2 < Rounds)
      <3>1. at = "fill Y" /\ at' = "mix X" /\ turn' = 0
        BY <1>3, <2>4, Zenon DEF FillY, Turn
      <3> (turn + 1) + 1 = Rounds
        BY <1>0, <2>4
      <3>2. Abstract!Fill
        BY <2>1, <2>2, <3>1, Zenon DEF Abstract!Fill, Abstract!Round
      <3> QED BY <3>2 DEF Abstract!Next
    <2> QED BY <2>3, <2>4
  <1>4. CASE MixX
    <2>1. ~InY /\ InY'
      BY <1>4, Zenon DEF MixX
    <2> turn + 1 # Rounds
      BY <1>0
    <2>2. Y' = blockmix_salsa8[blkxor[<<X, V[integerify[X] % Rounds]>>]]
      BY <1>4, Zenon DEF MixX, Place
    <2>3. at = "mix X" /\ at' = "mix Y" /\ turn' = turn /\ B' = B /\ V' = V
      BY <1>4, Zenon DEF MixX
    <2>4. Abstract!Mix
      BY <2>1, <2>2, <2>3, Zenon DEF Abstract!Mix, Abstract!Round
    <2> QED BY <2>4 DEF Abstract!Next
  <1>5. CASE MixY
    <2>1. InY /\ ~InY'
      BY <1>5, Zenon DEF MixY, Turn
    <2>2. X' = blockmix_salsa8[blkxor[<<Y, V[integerify[Y] % Rounds]>>]]
      BY <1>5, Zenon DEF MixY, Place
    <2>3. B' = B /\ V' = V
      BY <1>5, Zenon DEF MixY
    <2>4. CASE turn + 2 < Rounds
      <3>1. at = "mix Y" /\ at' = "mix X"
        BY <1>5, <2>4, Zenon DEF MixY, Turn
      <3>2. turn' = turn + 2
        BY <1>5, <2>4, Zenon DEF MixY, Turn
      <3> (turn + 1) + 1 # Rounds /\ turn' = (turn + 1) + 1
        BY <1>0, <2>4, <3>2
      <3>3. Abstract!Mix
        BY <2>1, <2>2, <2>3, <2>4, <3>1, Zenon DEF Abstract!Mix, Abstract!Round
      <3> QED BY <3>3 DEF Abstract!Next
    <2>5. CASE ~(turn + 2 < Rounds)
      <3>1. at = "mix Y" /\ at' = "store" /\ turn' = 0
        BY <1>5, <2>5, Zenon DEF MixY, Turn
      <3> (turn + 1) + 1 = Rounds
        BY <1>0, <2>5
      <3>2. Abstract!Mix
        BY <2>1, <2>2, <2>3, <3>1, Zenon DEF Abstract!Mix, Abstract!Round
      <3> QED BY <3>2 DEF Abstract!Next
    <2> QED BY <2>4, <2>5
  <1>6. CASE StoreBlock
    <2>1. Abstract!Store
      BY <1>6 DEF StoreBlock, Abstract!Store
    <2> QED BY <2>1 DEF Abstract!Next
  <1>7. CASE UNCHANGED smixVars
    BY <1>7 DEF smixVars, Abstract!vars
  <1> QED
    BY <1>1, <1>2, <1>3, <1>4, <1>5, <1>6, <1>7 DEF SmixNext

\* The unrolled loops of smix, with their two blocks that change places, compute
\* the numbered steps of its comments, for every number of rounds and every
\* function that mixes a block.
THEOREM Refinement == SmixSpec => ImplementsROMix
  BY InitMaps, StepMaps, TypeCorrect, PTL DEF SmixSpec, ImplementsROMix, Abstract!Spec
-------------------------------------------------------------------------------
(* The blocks of SHA-256: division *)

\* A quotient and a remainder.
LEMMA Divided ==
    ASSUME NEW n \in Int, NEW d \in Nat \ {0}
    PROVE  /\ n \div d \in Int /\ n % d \in 0..d - 1 /\ n % d \in Nat
           /\ n = d * (n \div d) + (n % d)
           /\ n \in Nat => n \div d \in Nat
  OBVIOUS

\* There is only one of each.
LEMMA DividedOnce ==
    ASSUME NEW d \in Nat \ {0}, NEW q \in Int, NEW r \in 0..d - 1, NEW n \in Int, n = d * q + r
    PROVE  n \div d = q /\ n % d = r
  OBVIOUS

\* What the code's constants are: bytes, words, and whole blocks of bits in a word.
LEMMA ShaFacts ==
    /\ Block \in Nat \ {0} /\ Base \in Nat \ {0, 1} /\ WordBytes \in Nat \ {0}
    /\ 2 * WordBytes < Block /\ WordSize \in Nat \ {0} /\ WordSize % (8 * Block) = 0
    /\ Source \in Seq(Byte) /\ Len(Source) \in Nat
    /\ \A k \in 0..WordBytes : Base^k \in Nat \ {0}
  <1>1. WordBytes \in 0..WordBytes
    BY ShaAssumption DEF ShaAssumption
  <1>2. WordSize \in Nat \ {0}
    BY <1>1, ShaAssumption DEF ShaAssumption, WordSize
  <1> QED BY <1>2, ShaAssumption, LenProperties DEF ShaAssumption

\* Adding k times d changes no remainder.
LEMMA Shifted ==
    ASSUME NEW d \in Nat \ {0}, NEW n \in Int, NEW k \in Int
    PROVE  (n + d * k) % d = n % d
  <1>1. n % d \in 0..d - 1 /\ n \div d \in Int /\ n = d * (n \div d) + (n % d)
    BY Divided
  <1> DEFINE q == n \div d
             r == n % d
  <1> HIDE DEF q, r
  <1>2. q \in Int /\ r \in 0..d - 1 /\ n = d * q + r
    BY <1>1 DEF q, r
  <1>3. n + d * k = d * (q + k) + r
    BY <1>2
  <1>4. (n + d * k) % d = r
    BY <1>2, <1>3, DividedOnce
  <1> QED BY <1>4 DEF r

\* The low word counts the bytes in the buffer.
LEMMA LeftOfBits ==
    ASSUME NEW n \in Nat
    PROVE  (((8 * n) % WordSize) \div 8) % Block = n % Block
  <1> DEFINE W == WordSize
             c == W \div (8 * Block)
             q == (8 * n) \div W
  <1>1. Block \in Nat \ {0} /\ W \in Nat \ {0} /\ 8 * Block \in Nat \ {0} /\ W % (8 * Block) = 0
    BY ShaFacts
  <1>2. c \in Int /\ W = 8 * Block * c
    <2> DEFINE d == 8 * Block
    <2>1. d \in Nat \ {0} /\ W \in Int /\ W % d = 0
      BY <1>1
    <2> HIDE DEF d, W
    <2>2. W \div d \in Int /\ W = d * (W \div d) + (W % d)
      BY <2>1, Divided
    <2>3. W = d * (W \div d)
      BY <2>1, <2>2
    <2> QED BY <2>2, <2>3 DEF d
  <1>3. q \in Int /\ (8 * n) % W \in Int /\ 8 * n = W * q + ((8 * n) % W)
    BY <1>1, Divided
  <1> HIDE DEF W, c, q
  <1>4. (8 * n) % W = 8 * (n - Block * (c * q))
    <2>1. W * q = 8 * (Block * (c * q))
      BY <1>1, <1>2, <1>3
    <2> QED BY <1>1, <1>2, <1>3, <2>1
  <1>5. ((8 * n) % W) \div 8 = n + Block * (-(c * q))
    <2> DEFINE x == Block * (c * q)
    <2>1. x \in Int
      BY <1>1, <1>2, <1>3
    <2>2. n + Block * (-(c * q)) = n - x
      BY <1>1, <1>2, <1>3
    <2> HIDE DEF x
    <2>3. (8 * (n - x)) \div 8 = n - x
      BY <2>1
    <2> QED BY <1>4, <2>2, <2>3 DEF x
  <1>6. -(c * q) \in Int
    BY <1>2, <1>3
  <1> DEFINE k == -(c * q)
  <1>7. k \in Int /\ ((8 * n) % W) \div 8 = n + Block * k
    BY <1>5, <1>6
  <1> HIDE DEF k
  <1>8. (n + Block * k) % Block = n % Block
    <2>1. Block \in Nat \ {0} /\ k \in Int /\ n \in Int
      BY <1>1, <1>7
    <2> QED BY <2>1, Shifted, Zenon
  <1> QED BY <1>7, <1>8 DEF W

\* The same for a sum.
LEMMA QuotientOfSum ==
    ASSUME NEW d \in Nat \ {0}, NEW a \in Int, NEW b \in Int, NEW q \in Int, NEW r \in Int,
           r >= 0, r < d, a + b = d * q + r
    PROVE  (a + b) \div d = q /\ (a + b) % d = r
  <1> DEFINE n == a + b
  <1>1. n \in Int /\ n = d * q + r /\ r \in 0..d - 1
    OBVIOUS
  <1> HIDE DEF n
  <1>2. n \div d = q /\ n % d = r
    BY <1>1, DividedOnce
  <1> QED BY <1>2 DEF n

\* Two numbers of bits, each as a high and a low word, are added word by word.
LowSum(w, a, b) == ((a % w) + (b % w)) % w
\* The carry, told from the low sum having wrapped (SHA256_Update).
Carry(w, a, b) == IF LowSum(w, a, b) < b % w THEN 1 ELSE 0
\* The words of the sum are the sums of the words.
Added(w, a, b) ==
    /\ LowSum(w, a, b) = (a + b) % w
    /\ (((a \div w) % w) + Carry(w, a, b) + (b \div w)) % w = ((a + b) \div w) % w

\* They are: the carry is found where the code looks for it (SHA256_Update).
LEMMA WordsAdded ==
    ASSUME NEW W \in Nat \ {0}, NEW a \in Nat, NEW b \in Nat
    PROVE  Added(W, a, b)
  <1> DEFINE sum == LowSum(W, a, b)
             carry == Carry(W, a, b)
             qa == a \div W
             ra == a % W
             qb == b \div W
             rb == b % W
             k == qa \div W
             h == qa % W
  <1>1. /\ qa \in Nat /\ qb \in Nat /\ ra \in 0..W - 1 /\ rb \in 0..W - 1
        /\ a = W * qa + ra /\ b = W * qb + rb
    <2>1. a \in Int /\ b \in Int
      OBVIOUS
    <2> QED BY <2>1, Divided, Zenon
  <1>2. k \in Int /\ h \in 0..W - 1 /\ qa = W * k + h
    BY <1>1, Divided
  <1>3. sum = (ra + rb) % W /\ carry = IF sum < rb THEN 1 ELSE 0
    BY Zenon DEF LowSum, Carry
  <1> HIDE DEF qa, ra, qb, rb, k, h, sum, carry
  <1>4. CASE ra + rb < W
    <2>1. ra + rb = W * 0 + (ra + rb) /\ ra + rb \in 0..W - 1 /\ ra + rb \in Int
      BY <1>1, <1>4
    <2>2. sum = ra + rb
      BY <1>3, <2>1, DividedOnce
    <2>3. carry = 0
      BY <1>1, <1>3, <2>2
    <2>4. a + b = W * (qa + qb) + (ra + rb) /\ qa + qb \in Int
      BY <1>1
    <2>5. (a + b) \div W = qa + qb /\ (a + b) % W = ra + rb
      <3> DEFINE q == qa + qb
                 r == ra + rb
      <3>1. q \in Int /\ r \in Int /\ r >= 0 /\ r < W /\ a + b = W * q + r
        BY <1>1, <1>4, <2>4
      <3> HIDE DEF q, r
      <3>2. (a + b) \div W = q /\ (a + b) % W = r
        BY <3>1, QuotientOfSum
      <3> QED BY <3>2 DEF q, r
    <2>6. qa + qb = (h + qb) + W * k /\ h + qb \in Int
      BY <1>1, <1>2
    <2>7. (qa + qb) % W = (h + qb) % W
      BY <1>2, <2>6, Shifted, Zenon
    <2>8. h + carry + qb = h + qb
      BY <1>1, <1>2, <2>3
    <2> QED BY <2>2, <2>5, <2>7, <2>8, Zenon DEF Added, sum, carry, h, qa, qb
  <1>5. CASE ra + rb >= W
    <2>1. ra + rb = W * 1 + (ra + rb - W) /\ ra + rb - W \in 0..W - 1 /\ ra + rb \in Int
      BY <1>1, <1>5
    <2>2. sum = ra + rb - W
      <3>1. (ra + rb) % W = ra + rb - W
        BY <1>1, <2>1, QuotientOfSum
      <3> QED BY <1>3, <3>1
    <2>3. carry = 1
      BY <1>1, <1>3, <2>2
    <2>4. a + b = W * (qa + qb + 1) + (ra + rb - W) /\ qa + qb + 1 \in Int
      BY <1>1
    <2>5. (a + b) \div W = qa + qb + 1 /\ (a + b) % W = ra + rb - W
      <3> DEFINE q == qa + qb + 1
                 r == ra + rb - W
      <3>1. q \in Int /\ r \in Int /\ r >= 0 /\ r < W /\ a + b = W * q + r
        BY <1>1, <1>5, <2>4
      <3> HIDE DEF q, r
      <3>2. (a + b) \div W = q /\ (a + b) % W = r
        BY <3>1, QuotientOfSum
      <3> QED BY <3>2 DEF q, r
    <2>6. qa + qb + 1 = (h + qb + 1) + W * k /\ h + qb + 1 \in Int
      BY <1>1, <1>2
    <2>7. (qa + qb + 1) % W = (h + qb + 1) % W
      BY <1>2, <2>6, Shifted, Zenon
    <2>8. h + carry + qb = h + qb + 1
      BY <1>1, <1>2, <2>3
    <2> QED BY <2>2, <2>5, <2>7, <2>8, Zenon DEF Added, sum, carry, h, qa, qb
  <1> QED BY <1>1, <1>4, <1>5

-------------------------------------------------------------------------------
(* The blocks of SHA-256: the invariant *)

\* The count is the bits of all that was given.
Counted ==
    /\ count[1] = (8 * Len(fed)) % WordSize
    /\ count[0] = ((8 * Len(fed)) \div WordSize) % WordSize

\* In the loop, what was transformed and what is not dealt with yet are all that
\* was given, and whole blocks were transformed.
InLoop ==
    place = "blocks" => /\ blocks \o src = fed /\ Len(blocks) % Block = 0
                        /\ ret \in {"message", "padded", "final"}

\* The message so far, its padding, and its length.
Message == SubSeq(Source, 1, taken)
\* The padding of the message so far (SHA256_Pad).
Padding == PAD(PadLength(taken % Block))
\* The bytes of its length (SHA256_Pad).
Length == Encoded(BitLength(taken))

\* Where SHA256_Update was called.
Caller == IF place = "blocks" THEN ret ELSE place

\* What was given to SHA256_Update, at each place of the caller.
Given ==
    /\ Caller = "message" => fed = Message
    /\ Caller = "padded" => fed = Message \o Padding /\ len = Length
    /\ Caller \in {"final", "done"} => fed = Message \o Padding \o Length

\* The inductive invariant of the streaming half of SHA-256.
ShaInv == ShaTypeOK /\ Counted /\ InLoop /\ NothingLostInPieces /\ Given

-------------------------------------------------------------------------------
(* The blocks of SHA-256: sequences of bytes *)

\* The bytes of two sequences that are joined.
LEMMA BytesJoined ==
    ASSUME NEW a \in Seq(Byte), NEW b \in Seq(Byte)
    PROVE  /\ a \o b \in Seq(Byte) /\ Len(a \o b) = Len(a) + Len(b)
           /\ \A j \in 1..Len(a) : (a \o b)[j] = a[j]
           /\ \A j \in 1..Len(b) : (a \o b)[Len(a) + j] = b[j]
  <1>1. Len(a) \in Nat /\ Len(b) \in Nat
    BY LenProperties
  <1>2. /\ a \o b \in Seq(Byte) /\ Len(a \o b) = Len(a) + Len(b)
        /\ \A j \in 1..Len(a) + Len(b) : (a \o b)[j] = IF j <= Len(a) THEN a[j] ELSE b[j - Len(a)]
    BY ConcatProperties
  <1>3. ASSUME NEW j \in 1..Len(a)
        PROVE  (a \o b)[j] = a[j]
    <2>1. j \in 1..Len(a) + Len(b) /\ j <= Len(a)
      BY <1>1
    <2> QED BY <1>2, <2>1, Zenon
  <1>4. ASSUME NEW j \in 1..Len(b)
        PROVE  (a \o b)[Len(a) + j] = b[j]
    <2>1. Len(a) + j \in 1..Len(a) + Len(b) /\ ~(Len(a) + j <= Len(a)) /\ Len(a) + j - Len(a) = j
      BY <1>1
    <2>2. (a \o b)[Len(a) + j] = b[Len(a) + j - Len(a)]
      BY <1>2, <2>1
    <2> QED BY <2>1, <2>2
  <1> QED BY <1>2, <1>3, <1>4

\* Three sequences of bytes are joined in either order.
LEMMA BytesAssociate ==
    ASSUME NEW a \in Seq(Byte), NEW b \in Seq(Byte), NEW c \in Seq(Byte)
    PROVE  (a \o b) \o c = a \o (b \o c)
  BY ConcatAssociative

\* The first n bytes and the others.
LEMMA BytesCut ==
    ASSUME NEW s \in Seq(Byte), NEW n \in 0..Len(s)
    PROVE  /\ SubSeq(s, 1, n) \in Seq(Byte) /\ Len(SubSeq(s, 1, n)) = n
           /\ \A j \in 1..n : SubSeq(s, 1, n)[j] = s[j]
           /\ Drop(s, n) \in Seq(Byte) /\ Len(Drop(s, n)) = Len(s) - n
           /\ \A j \in 1..Len(s) - n : Drop(s, n)[j] = s[n + j]
           /\ SubSeq(s, 1, n) \o Drop(s, n) = s
  <1>1. Len(s) \in Nat /\ n \in Nat /\ n <= Len(s)
    BY LenProperties
  <1>2. \A j \in 1..Len(s) : s[j] \in Byte
    BY ElementOfSeq
  <1>3. /\ SubSeq(s, 1, n) \in Seq(Byte) /\ Len(SubSeq(s, 1, n)) = n
        /\ \A j \in 1..n : SubSeq(s, 1, n)[j] = s[j]
    BY <1>1, <1>2, SubSeqProperties
  <1>4. /\ Drop(s, n) \in Seq(Byte) /\ Len(Drop(s, n)) = Len(s) - n
        /\ \A j \in 1..Len(s) - n : Drop(s, n)[j] = s[n + j]
    <2>1. \A j \in n + 1..Len(s) : s[j] \in Byte
      BY <1>1, <1>2
    <2>2. /\ SubSeq(s, n + 1, Len(s)) \in Seq(Byte)
          /\ Len(SubSeq(s, n + 1, Len(s))) = Len(s) - n
          /\ \A j \in 1..Len(s) - n : SubSeq(s, n + 1, Len(s))[j] = s[n + j]
      BY <1>1, <2>1, SubSeqProperties
    <2> QED BY <2>2 DEF Drop
  <1>5. SubSeq(s, 1, n) \o SubSeq(s, n + 1, Len(s)) = s
    <2>1. 1 \in 1..Len(s) + 1 /\ n \in 1 - 1..Len(s) /\ Len(s) \in n..Len(s)
      BY <1>1
    <2>2. SubSeq(s, 1, n) \o SubSeq(s, n + 1, Len(s)) = SubSeq(s, 1, Len(s))
      BY <2>1, ConcatAdjacentSubSeq, Zenon
    <2> QED BY <2>2, SubSeqFull, Zenon
  <1> QED BY <1>3, <1>4, <1>5, Zenon DEF Drop

\* Sequences of bytes with the same bytes are the same.
LEMMA SameBytes ==
    ASSUME NEW a \in Seq(Byte), NEW b \in Seq(Byte), Len(a) = Len(b),
           \A j \in 1..Len(a) : a[j] = b[j]
    PROVE  a = b
  BY SeqEqual

\* A function on the places up to n is a sequence of n bytes.
LEMMA BytesOf ==
    ASSUME NEW n \in Nat, NEW f \in [1..n -> Byte]
    PROVE  f \in Seq(Byte) /\ Len(f) = n
  OBVIOUS

\* What is to be kept: whole blocks are transformed, the rest is in the buffer.
Kept(f, bl, bu) ==
    /\ Len(bl) = Len(f) - (Len(f) % Block)
    /\ \A j \in 1..Len(bl) : bl[j] = f[j]
    /\ \A k \in 1..(Len(f) % Block) : bu[k] = f[Len(bl) + k]

\* NothingLostInPieces of any bytes given, blocks transformed and buffer.
NothingLost(f, bl, bu) ==
    LET whole == Len(f) - (Len(f) % Block)
    IN  /\ bl = SubSeq(f, 1, whole)
        /\ \A k \in 1..(Len(f) % Block) : bu[k] = f[whole + k]

\* It says the same byte by byte.
LEMMA KeptIsNothingLost ==
    ASSUME NEW f \in Seq(Byte), NEW bl \in Seq(Byte), NEW bu
    PROVE  NothingLost(f, bl, bu) <=> Kept(f, bl, bu)
  <1> DEFINE n == Len(f)
             r == Len(f) % Block
             whole == Len(f) - (Len(f) % Block)
  <1>1. n \in Nat /\ Block \in Nat \ {0}
    BY LenProperties, ShaFacts
  <1>2. r \in 0..Block - 1 /\ r <= n
    <2> HIDE DEF n
    <2>1. r = n % Block
      BY DEF n
    <2>2. n % Block \in 0..Block - 1 /\ n % Block <= n
      <3> DEFINE q == n \div Block
                 t == n % Block
      <3>1. q \in Nat /\ t \in 0..Block - 1 /\ n = Block * q + t
        <4>1. n \in Int /\ n \in Nat /\ Block \in Nat \ {0}
          BY <1>1
        <4> QED BY <4>1, Divided, Zenon
      <3> HIDE DEF q, t
      <3>2. Block * q >= 0
        BY <1>1, <3>1
      <3>3. t <= n
        BY <1>1, <3>1, <3>2
      <3> QED BY <3>1, <3>3 DEF t
    <2> QED BY <2>1, <2>2 DEF n
  <1>3. whole \in 0..Len(f) /\ whole = n - r
    <2> HIDE DEF r
    <2> QED BY <1>1, <1>2 DEF r
  <1>4. /\ SubSeq(f, 1, whole) \in Seq(Byte) /\ Len(SubSeq(f, 1, whole)) = whole
        /\ \A j \in 1..whole : SubSeq(f, 1, whole)[j] = f[j]
    BY <1>3, BytesCut
  <1>5. NothingLost(f, bl, bu) <=> /\ bl = SubSeq(f, 1, whole)
                                   /\ \A k \in 1..r : bu[k] = f[whole + k]
    BY DEF NothingLost
  <1> HIDE DEF whole, r
  <1>6. Kept(f, bl, bu) <=> /\ Len(bl) = whole
                            /\ \A j \in 1..Len(bl) : bl[j] = f[j]
                            /\ \A k \in 1..r : bu[k] = f[Len(bl) + k]
    BY DEF Kept, whole, r
  <1>7. bl = SubSeq(f, 1, whole) =>
           Len(bl) = whole /\ \A j \in 1..Len(bl) : bl[j] = f[j]
    BY <1>4, Zenon
  <1>8. Len(bl) = whole /\ (\A j \in 1..Len(bl) : bl[j] = f[j]) =>
           bl = SubSeq(f, 1, whole)
    BY <1>4, SameBytes, Zenon
  <1> QED BY <1>5, <1>6, <1>7, <1>8, Zenon

\* The bytes over after whole blocks, and a buffer with n bytes of in written over it.
Over(f) == Len(f) % Block
WrittenOver(bu, bu2, r, in, n) ==
    \A k \in 1..Block : bu2[k] = IF k \in r + 1..r + n THEN in[k - r] ELSE bu[k]

\* The places of the bytes when the input fits in the buffer.
InBuffer(b, nf, ni, nb, r) ==
    /\ (nf + ni) % b = r + ni /\ nb = (nf + ni) - (r + ni)
    /\ \A j \in 1..nb : j \in 1..nf
    /\ \A k \in 1..r : k \in 1..b /\ k \notin r + 1..r + ni /\ nb + k \in 1..nf
    /\ \A k \in 1..r + ni : k \notin 1..r =>
          k \in 1..b /\ k \in r + 1..r + ni /\ k - r \in 1..ni /\ nb + k = nf + (k - r)

\* They are the places that memcpy writes when the input does not fill the buffer.
LEMMA PlacesInBuffer ==
    ASSUME NEW b \in Nat \ {0}, NEW nf \in Nat, NEW ni \in Nat, NEW nb \in Nat, NEW r \in Nat,
           r = nf % b, nb = nf - r, r + ni < b
    PROVE  InBuffer(b, nf, ni, nb, r)
  <1>1. (nf + ni) % b = r + ni
    <2> DEFINE q == nf \div b
               t == r + ni
    <2>1. q \in Int /\ nf = b * q + r
      BY Divided
    <2> HIDE DEF q
    <2> DEFINE n == nf + ni
    <2>2. t \in 0..b - 1 /\ n \in Int /\ n = b * q + t
      BY <2>1
    <2> HIDE DEF t, n
    <2>3. n % b = t
      BY <2>1, <2>2, DividedOnce, Zenon
    <2> QED BY <2>3 DEF t, n
  <1> QED BY <1>1 DEF InBuffer

\* The places of the bytes when the input fills the buffer.
InBlocks(b, nf, ni, nb, r, room) ==
    /\ room \in 0..ni /\ nb + b + (ni - room) = nf + ni /\ (nb + b) % b = 0
    /\ \A j \in 1..nf + ni :
          \/ j \in 1..nb /\ j \in 1..nb + b /\ j \in 1..nf
          \/ \E k \in 1..r : /\ j = nb + k /\ k \in 1..b /\ k \notin r + 1..r + room
                             /\ j \in 1..nb + b /\ j \in 1..nf
          \/ \E m \in 1..ni : /\ j = nf + m /\ r + m \in 1..b /\ r + m \in r + 1..r + room
                              /\ (r + m) - r = m /\ j = nb + (r + m) /\ j \in 1..nb + b
          \/ \E m \in 1..ni - room : /\ j = nb + b + m /\ room + m \in 1..ni
                                     /\ j = nf + (room + m)

\* They are the places of the bytes when the input fills the buffer (SHA256_Update).
LEMMA PlacesInBlocks ==
    ASSUME NEW b \in Nat \ {0}, NEW nf \in Nat, NEW ni \in Nat, NEW nb \in Nat, NEW r \in Nat,
           r = nf % b, nb = nf - r, NEW room \in Int, room = b - r, room <= ni
    PROVE  InBlocks(b, nf, ni, nb, r, room)
  <1>1. r < b
    OBVIOUS
  <1>2. (nb + b) % b = 0
    <2> DEFINE q == nf \div b
               p == q + 1
    <2>1. q \in Int /\ nf = b * q + r
      BY Divided
    <2> HIDE DEF q
    <2> DEFINE n == nb + b
    <2>2. p \in Int /\ n = b * p + 0 /\ n \in Int /\ 0 \in 0..b - 1
      BY <2>1
    <2> HIDE DEF p, n
    <2>3. n % b = 0
      BY <2>2, DividedOnce
    <2> QED BY <2>3 DEF n
  <1>3. ASSUME NEW j \in 1..nf + ni
        PROVE  \/ j \in 1..nb /\ j \in 1..nb + b /\ j \in 1..nf
               \/ \E k \in 1..r : /\ j = nb + k /\ k \in 1..b /\ k \notin r + 1..r + room
                                  /\ j \in 1..nb + b /\ j \in 1..nf
               \/ \E m \in 1..ni : /\ j = nf + m /\ r + m \in 1..b /\ r + m \in r + 1..r + room
                                   /\ (r + m) - r = m /\ j = nb + (r + m) /\ j \in 1..nb + b
               \/ \E m \in 1..ni - room : /\ j = nb + b + m /\ room + m \in 1..ni
                                          /\ j = nf + (room + m)
    <2>1. CASE j <= nb
      BY <1>1, <2>1
    <2>2. CASE j > nb /\ j <= nf
      <3> DEFINE k == j - nb
      <3>1. /\ k \in 1..r /\ j = nb + k /\ k \in 1..b /\ k \notin r + 1..r + room
            /\ j \in 1..nb + b /\ j \in 1..nf
        BY <1>1, <2>2
      <3> HIDE DEF k
      <3> QED BY <3>1, Zenon
    <2>3. CASE j > nf /\ j <= nb + b
      <3> DEFINE m == j - nf
      <3>1. /\ m \in 1..ni /\ j = nf + m /\ r + m \in 1..b /\ r + m \in r + 1..r + room
            /\ (r + m) - r = m /\ j = nb + (r + m) /\ j \in 1..nb + b
        BY <1>1, <2>3
      <3> HIDE DEF m
      <3> QED BY <3>1, Zenon
    <2>4. CASE j > nb + b
      <3> DEFINE m == j - (nb + b)
      <3>1. m \in 1..ni - room /\ j = nb + b + m /\ room + m \in 1..ni /\ j = nf + (room + m)
        BY <1>1, <2>4
      <3> HIDE DEF m
      <3> QED BY <3>1, Zenon
    <2> QED BY <2>1, <2>2, <2>3, <2>4
  <1>4. room \in 0..ni /\ nb + b + (ni - room) = nf + ni
    BY <1>1
  <1> QED BY <1>2, <1>3, <1>4, Zenon DEF InBlocks

\* The numbers of bytes that Kept relates.
LEMMA KeptNumbers ==
    ASSUME NEW f \in Seq(Byte), NEW in \in Seq(Byte), NEW bl \in Seq(Byte), NEW bu, Kept(f, bl, bu)
    PROVE  /\ Block \in Nat \ {0} /\ Len(f) \in Nat /\ Len(in) \in Nat /\ Len(bl) \in Nat
           /\ Over(f) \in Nat /\ Over(f) = Len(f) % Block /\ Len(bl) = Len(f) - Over(f)
           /\ Block - Over(f) \in Int
  <1>1. Block \in Nat \ {0} /\ Len(f) \in Nat /\ Len(in) \in Nat /\ Len(bl) \in Nat
    BY ShaFacts, LenProperties
  <1>2. Len(f) \in Int
    BY <1>1
  <1>3. Over(f) \in Nat
    BY <1>1, <1>2, Divided, Zenon DEF Over
  <1>4. Over(f) = Len(f) % Block /\ Len(bl) = Len(f) - Over(f)
    BY Zenon DEF Over, Kept
  <1>5. Block - Over(f) \in Int
    <2> HIDE DEF Over
    <2> QED BY <1>1, <1>3
  <1> QED BY <1>1, <1>3, <1>4, <1>5

\* The input fits in the buffer.
LEMMA KeptInBuffer ==
    ASSUME NEW f \in Seq(Byte), NEW in \in Seq(Byte), NEW bl \in Seq(Byte),
           NEW bu, NEW bu2, Kept(f, bl, bu), Over(f) + Len(in) < Block,
           WrittenOver(bu, bu2, Over(f), in, Len(in))
    PROVE  Kept(f \o in, bl, bu2)
  <1> DEFINE nf == Len(f)
             ni == Len(in)
             nb == Len(bl)
             r == Over(f)
  <1>1. /\ Block \in Nat \ {0} /\ nf \in Nat /\ ni \in Nat /\ nb \in Nat /\ r \in Nat
        /\ r = nf % Block /\ nb = nf - r /\ r + ni < Block
    BY KeptNumbers, Zenon
  <1>2. /\ Len(f \o in) = nf + ni
        /\ \A j \in 1..nf : (f \o in)[j] = f[j]
        /\ \A j \in 1..ni : (f \o in)[nf + j] = in[j]
    BY BytesJoined, Zenon
  <1>3. /\ \A j \in 1..nb : bl[j] = f[j]
        /\ \A k \in 1..r : bu[k] = f[nb + k]
        /\ \A k \in 1..Block : bu2[k] = IF k \in r + 1..r + ni THEN in[k - r] ELSE bu[k]
    BY Zenon DEF Kept, Over, WrittenOver
  <1> HIDE DEF nf, ni, nb, r
  <1>4. /\ (nf + ni) % Block = r + ni /\ nb = (nf + ni) - (r + ni)
        /\ \A j \in 1..nb : j \in 1..nf
        /\ \A k \in 1..r : k \in 1..Block /\ k \notin r + 1..r + ni /\ nb + k \in 1..nf
        /\ \A k \in 1..r + ni : k \notin 1..r =>
              k \in 1..Block /\ k \in r + 1..r + ni /\ k - r \in 1..ni /\ nb + k = nf + (k - r)
    <2>1. InBuffer(Block, nf, ni, nb, r)
      BY <1>1, PlacesInBuffer, Zenon
    <2> QED BY <2>1, Zenon DEF InBuffer
  <1>5. \A j \in 1..nb : bl[j] = (f \o in)[j]
    BY <1>2, <1>3, <1>4, Zenon
  <1>6. ASSUME NEW k \in 1..r + ni
        PROVE  bu2[k] = (f \o in)[nb + k]
    <2>1. CASE k \in 1..r
      BY <1>2, <1>3, <1>4, <2>1, Zenon
    <2>2. CASE k \notin 1..r
      <3>1. bu2[k] = in[k - r] /\ (f \o in)[nf + (k - r)] = in[k - r]
        BY <1>2, <1>3, <1>4, <2>2, Zenon
      <3> QED BY <1>4, <2>2, <3>1, Zenon
    <2> QED BY <2>1, <2>2, Zenon
  <1>7. Len(f \o in) % Block = r + ni /\ nb = Len(f \o in) - (Len(f \o in) % Block)
    BY <1>2, <1>4
  <1> QED BY <1>5, <1>6, <1>7, Zenon DEF Kept, nb

\* The input fills the buffer, which is transformed.
Filled(f, in, bl, bu2) ==
    /\ Block - Over(f) \in 0..Len(in)
    /\ bl \o bu2 \in Seq(Byte) /\ Len(bl \o bu2) % Block = 0
    /\ (bl \o bu2) \o Drop(in, Block - Over(f)) = f \o in

\* When the input fills the buffer, the buffer and the rest are all that was given.
LEMMA KeptInBlocks ==
    ASSUME NEW f \in Seq(Byte), NEW in \in Seq(Byte), NEW bl \in Seq(Byte),
           NEW bu, NEW bu2 \in [1..Block -> Byte], Kept(f, bl, bu),
           Block - Over(f) <= Len(in), WrittenOver(bu, bu2, Over(f), in, Block - Over(f))
    PROVE  Filled(f, in, bl, bu2)
  <1> DEFINE nf == Len(f)
             ni == Len(in)
             nb == Len(bl)
             r == Over(f)
             room == Block - r
             rest == Drop(in, room)
             out == (bl \o bu2) \o rest
  <1>1. /\ Block \in Nat \ {0} /\ nf \in Nat /\ ni \in Nat /\ nb \in Nat /\ r \in Nat
        /\ r = nf % Block /\ nb = nf - r /\ room \in Int /\ room = Block - r /\ room <= ni
    BY KeptNumbers, Zenon
  <1>2. /\ f \o in \in Seq(Byte) /\ Len(f \o in) = nf + ni
        /\ \A j \in 1..nf : (f \o in)[j] = f[j]
        /\ \A j \in 1..ni : (f \o in)[nf + j] = in[j]
    BY BytesJoined, Zenon
  <1>3. /\ \A j \in 1..nb : bl[j] = f[j]
        /\ \A k \in 1..r : bu[k] = f[nb + k]
        /\ \A k \in 1..Block : bu2[k] = IF k \in r + 1..r + room THEN in[k - r] ELSE bu[k]
    BY Zenon DEF Kept, Over, WrittenOver
  <1>4. bu2 \in Seq(Byte) /\ Len(bu2) = Block
    BY <1>1, BytesOf
  <1>5. /\ bl \o bu2 \in Seq(Byte) /\ Len(bl \o bu2) = nb + Block
        /\ \A j \in 1..nb : (bl \o bu2)[j] = bl[j]
        /\ \A j \in 1..Block : (bl \o bu2)[nb + j] = bu2[j]
    BY <1>4, BytesJoined, Zenon
  <1> HIDE DEF nf, ni, nb, r, room
  <1>6. /\ room \in 0..ni /\ nb + Block + (ni - room) = nf + ni /\ (nb + Block) % Block = 0
        /\ \A j \in 1..nf + ni :
              \/ j \in 1..nb /\ j \in 1..nb + Block /\ j \in 1..nf
              \/ \E k \in 1..r : /\ j = nb + k /\ k \in 1..Block /\ k \notin r + 1..r + room
                                 /\ j \in 1..nb + Block /\ j \in 1..nf
              \/ \E m \in 1..ni : /\ j = nf + m /\ r + m \in 1..Block /\ r + m \in r + 1..r + room
                                  /\ (r + m) - r = m /\ j = nb + (r + m) /\ j \in 1..nb + Block
              \/ \E m \in 1..ni - room : /\ j = nb + Block + m /\ room + m \in 1..ni
                                         /\ j = nf + (room + m)
    <2>1. InBlocks(Block, nf, ni, nb, r, room)
      BY <1>1, PlacesInBlocks, Zenon
    <2> QED BY <2>1, Zenon DEF InBlocks
  <1>7. rest \in Seq(Byte) /\ Len(rest) = ni - room /\ \A j \in 1..ni - room : rest[j] = in[room + j]
    BY <1>6, BytesCut, Zenon DEF ni
  <1> HIDE DEF rest
  <1>8. /\ out \in Seq(Byte) /\ Len(out) = nb + Block + (ni - room)
        /\ \A j \in 1..nb + Block : out[j] = (bl \o bu2)[j]
        /\ \A j \in 1..ni - room : out[nb + Block + j] = rest[j]
    <2> DEFINE b3 == bl \o bu2
    <2>1. b3 \in Seq(Byte) /\ Len(b3) = nb + Block /\ Len(rest) = ni - room
      BY <1>5, <1>7
    <2> HIDE DEF b3
    <2>2. /\ b3 \o rest \in Seq(Byte) /\ Len(b3 \o rest) = Len(b3) + Len(rest)
          /\ \A j \in 1..Len(b3) : (b3 \o rest)[j] = b3[j]
          /\ \A j \in 1..Len(rest) : (b3 \o rest)[Len(b3) + j] = rest[j]
      BY <1>7, <2>1, BytesJoined, Zenon
    <2> QED BY <2>1, <2>2, Zenon DEF b3
  <1> HIDE DEF out
  <1>9. ASSUME NEW j \in 1..nf + ni
        PROVE  out[j] = (f \o in)[j]
    <2>1. CASE j \in 1..nb /\ j \in 1..nb + Block /\ j \in 1..nf
      <3>1. out[j] = (bl \o bu2)[j] /\ (bl \o bu2)[j] = bl[j]
        BY <1>5, <1>8, <2>1, Zenon
      <3>2. bl[j] = f[j] /\ (f \o in)[j] = f[j]
        BY <1>2, <1>3, <2>1, Zenon
      <3> QED BY <3>1, <3>2, Zenon
    <2>2. CASE \E k \in 1..r : /\ j = nb + k /\ k \in 1..Block /\ k \notin r + 1..r + room
                               /\ j \in 1..nb + Block /\ j \in 1..nf
      <3>1. PICK k \in 1..r : /\ j = nb + k /\ k \in 1..Block /\ k \notin r + 1..r + room
                              /\ j \in 1..nb + Block /\ j \in 1..nf
        BY <2>2
      <3>2. out[j] = bu2[k] /\ bu2[k] = bu[k] /\ bu[k] = f[nb + k]
        BY <1>3, <1>5, <1>8, <3>1, Zenon
      <3> QED BY <1>2, <3>1, <3>2, Zenon
    <2>3. CASE \E m \in 1..ni : /\ j = nf + m /\ r + m \in 1..Block /\ r + m \in r + 1..r + room
                                /\ (r + m) - r = m /\ j = nb + (r + m) /\ j \in 1..nb + Block
      <3>1. PICK m \in 1..ni : /\ j = nf + m /\ r + m \in 1..Block /\ r + m \in r + 1..r + room
                               /\ (r + m) - r = m /\ j = nb + (r + m) /\ j \in 1..nb + Block
        BY <2>3
      <3>2. out[j] = bu2[r + m]
        BY <1>5, <1>8, <3>1, Zenon
      <3>3. bu2[r + m] = in[m]
        BY <1>3, <3>1, Zenon
      <3> QED BY <1>2, <3>1, <3>2, <3>3, Zenon
    <2>4. CASE \E m \in 1..ni - room : /\ j = nb + Block + m /\ room + m \in 1..ni
                                       /\ j = nf + (room + m)
      <3>1. PICK m \in 1..ni - room : /\ j = nb + Block + m /\ room + m \in 1..ni
                                      /\ j = nf + (room + m)
        BY <2>4
      <3>2. out[j] = rest[m] /\ rest[m] = in[room + m]
        BY <1>7, <1>8, <3>1, Zenon
      <3> QED BY <1>2, <3>1, <3>2, Zenon
    <2> QED BY <1>6, <2>1, <2>2, <2>3, <2>4, Zenon
  <1>10. out = f \o in
    <2>1. Len(out) = Len(f \o in) /\ \A j \in 1..Len(out) : out[j] = (f \o in)[j]
      BY <1>2, <1>6, <1>8, <1>9, Zenon
    <2> QED BY <1>2, <1>8, <2>1, SameBytes, Zenon
  <1>11. Len(bl \o bu2) % Block = 0
    BY <1>5, <1>6, Zenon
  <1> QED BY <1>5, <1>6, <1>10, <1>11, Zenon DEF Filled, out, rest, room, ni, r

-------------------------------------------------------------------------------
(* The blocks of SHA-256: the steps *)

\* The bytes that memcpy writes into the buffer.
LEMMA WrittenType ==
    ASSUME buf \in [1..Block -> Byte], NEW r \in Nat, NEW in \in Seq(Byte), NEW n \in Int, n <= Len(in)
    PROVE  /\ Written(r, in, n) \in [1..Block -> Byte]
           /\ WrittenOver(buf, Written(r, in, n), r, in, n)
  <1>1. Block \in Nat /\ Len(in) \in Nat /\ \A j \in 1..Len(in) : in[j] \in Byte
    BY ShaFacts, LenProperties, ElementOfSeq
  <1>2. ASSUME NEW k \in 1..Block, k \in r + 1..r + n
        PROVE  in[k - r] \in Byte
    <2>1. k - r \in 1..Len(in)
      BY <1>1, <1>2
    <2> QED BY <1>1, <2>1
  <1> QED BY <1>2 DEF Written, WrittenOver

\* The count of the bits of n bytes, and what is added to it.
LEMMA BitsCounted ==
    ASSUME NEW n \in Nat
    PROVE  BitLength(n) \in [0..1 -> 0..WordSize - 1]
  <1> DEFINE W == WordSize
             b == 8 * n
  <1>1. W \in Nat \ {0} /\ b \in Int
    BY ShaFacts
  <1> HIDE DEF W, b
  <1>2. b % W \in 0..W - 1 /\ b \div W \in Int
    BY <1>1, Divided
  <1>3. (b \div W) % W \in 0..W - 1
    BY <1>1, <1>2, Divided
  <1> QED BY <1>2, <1>3 DEF BitLength, W, b

\* The two words of the count are the number of bits given, and nothing else.
LEMMA CountIsBits ==
    ASSUME NEW f \in Seq(Byte), NEW c \in [0..1 -> 0..WordSize - 1]
    PROVE  c[1] = (8 * Len(f)) % WordSize /\ c[0] = ((8 * Len(f)) \div WordSize) % WordSize
             <=> c = BitLength(Len(f))
  <1>1. Len(f) \in Nat
    BY LenProperties
  <1>2. BitLength(Len(f)) \in [0..1 -> 0..WordSize - 1]
    BY <1>1, BitsCounted
  <1> DEFINE n == Len(f)
             W == WordSize
  <1> HIDE DEF n, W
  <1>3. /\ BitLength(n)[0] = ((8 * n) \div W) % W /\ BitLength(n)[1] = (8 * n) % W
    BY DEF BitLength, W
  <1>4. 0..1 = {0, 1}
    OBVIOUS
  <1>5. \A d \in [0..1 -> 0..WordSize - 1], g \in [0..1 -> 0..WordSize - 1] :
           d = g <=> d[0] = g[0] /\ d[1] = g[1]
    BY <1>4
  <1>6. c \in [0..1 -> 0..WordSize - 1]
    OBVIOUS
  <1>7. c = BitLength(n) <=> c[0] = BitLength(n)[0] /\ c[1] = BitLength(n)[1]
    BY <1>2, <1>5, <1>6, Zenon DEF n
  <1> QED BY <1>3, <1>7 DEF n, W

\* The count goes up by the bits of the input, in both words.
LEMMA BitsAdded ==
    ASSUME NEW n \in Nat, NEW m \in Nat, count = BitLength(n)
    PROVE  AddBits(m) = BitLength(n + m)
  <1> DEFINE W == WordSize
             a == 8 * n
             b == 8 * m
  <1>1. W \in Nat \ {0} /\ a \in Nat /\ b \in Nat /\ 8 * (n + m) = a + b
    BY ShaFacts
  <1>2. count[1] = a % W /\ count[0] = (a \div W) % W
    <2> HIDE DEF a, W
    <2>1. BitLength(n) = [k \in 0..1 |-> IF k = 1 THEN a % W ELSE (a \div W) % W]
      BY Zenon DEF BitLength, a, W
    <2> QED BY <2>1
  <1>3. AddBits(m) = [k \in 0..1 |-> IF k = 1 THEN LowSum(W, a, b)
                                   ELSE (((a \div W) % W) + Carry(W, a, b) + (b \div W)) % W]
    BY <1>2, Zenon DEF AddBits, LowSum, Carry
  <1> HIDE DEF W, a, b
  <1>5. /\ LowSum(W, a, b) = (a + b) % W
        /\ (((a \div W) % W) + Carry(W, a, b) + (b \div W)) % W = ((a + b) \div W) % W
    <2>1. Added(W, a, b)
      BY <1>1, WordsAdded, Zenon
    <2> QED BY <2>1, Zenon DEF Added
  <1>6. BitLength(n + m) = [k \in 0..1 |-> IF k = 1 THEN (a + b) % W ELSE ((a + b) \div W) % W]
    BY <1>1 DEF BitLength, W
  <1> QED BY <1>3, <1>5, <1>6, Zenon

\* SHA256_Update up to its loop: the count, and what is transformed or kept.
LEMMA UpdateKeeps ==
    ASSUME ShaTypeOK, Counted, Kept(fed, blocks, buf),
           NEW in \in Seq(Byte), NEW caller \in {"message", "padded", "final"}, Update(in, caller)
    PROVE  /\ count' \in [0..1 -> 0..WordSize - 1] /\ buf' \in [1..Block -> Byte]
           /\ blocks' \in Seq(Byte) /\ src' \in Seq(Byte) /\ fed' \in Seq(Byte)
           /\ fed' = fed \o in /\ ret' = caller /\ count' = BitLength(Len(fed'))
           /\ \/ place' = caller /\ Kept(fed', blocks', buf')
              \/ place' = "blocks" /\ blocks' \o src' = fed' /\ Len(blocks') % Block = 0
  <1>1. /\ fed \in Seq(Byte) /\ blocks \in Seq(Byte) /\ buf \in [1..Block -> Byte]
        /\ Len(fed) \in Nat /\ Len(in) \in Nat
    BY LenProperties DEF ShaTypeOK
  <1>2. fed' = fed \o in /\ fed' \in Seq(Byte) /\ Len(fed') = Len(fed) + Len(in)
    <2>1. fed' = fed \o in
      BY DEF Update
    <2> QED BY <1>1, <2>1, BytesJoined, Zenon
  <1>3. count' = BitLength(Len(fed')) /\ count' \in [0..1 -> 0..WordSize - 1]
    <2>1. count = BitLength(Len(fed))
      BY CountIsBits, Zenon DEF Counted, ShaTypeOK
    <2>2. count' = AddBits(Len(in))
      BY DEF Update
    <2>3. AddBits(Len(in)) = BitLength(Len(fed) + Len(in))
      BY <1>1, <2>1, BitsAdded, Zenon
    <2>4. Len(fed) + Len(in) \in Nat
      BY <1>1
    <2> QED BY <1>2, <2>2, <2>3, <2>4, BitsCounted, Zenon
  <1>4. Left = Over(fed)
    <2>1. count[1] = (8 * Len(fed)) % WordSize
      BY DEF Counted
    <2> QED BY <1>1, <2>1, LeftOfBits, Zenon DEF Left, Over
  <1>5. /\ Block \in Nat \ {0} /\ Over(fed) \in Nat /\ Block - Over(fed) \in Int
    BY <1>1, KeptNumbers
  <1>6. ret' = caller
    BY DEF Update
  <1>7. CASE Len(in) < Block - Over(fed)
    <2>1. /\ buf' = Written(Over(fed), in, Len(in)) /\ place' = caller /\ src' = <<>> /\ blocks' = blocks
      BY <1>4, <1>7, Zenon DEF Update
    <2>2. buf' \in [1..Block -> Byte] /\ WrittenOver(buf, buf', Over(fed), in, Len(in))
      <3>1. Len(in) \in Int /\ Len(in) <= Len(in)
        BY <1>1
      <3> QED BY <1>1, <1>5, <2>1, <3>1, WrittenType, Zenon
    <2>3. Over(fed) + Len(in) < Block
      <3> DEFINE o == Over(fed)
                 l == Len(in)
      <3>1. o \in Nat /\ l \in Nat /\ Block \in Nat /\ l < Block - o
        BY <1>1, <1>5, <1>7
      <3> HIDE DEF o, l
      <3>2. o + l < Block
        BY <3>1
      <3> QED BY <3>2 DEF o, l
    <2>4. Kept(fed', blocks', buf')
      BY <1>1, <1>2, <2>1, <2>2, <2>3, KeptInBuffer, Zenon
    <2>5. src' \in Seq(Byte)
      BY <2>1
    <2> QED BY <1>1, <1>2, <1>3, <1>6, <2>1, <2>2, <2>4, <2>5, Zenon
  <1>8. CASE ~(Len(in) < Block - Over(fed))
    <2> DEFINE room == Block - Over(fed)
    <2>1. /\ buf' = Written(Over(fed), in, room) /\ place' = "blocks" /\ src' = Drop(in, room)
          /\ blocks' = blocks \o buf'
      BY <1>4, <1>8, Zenon DEF Update
    <2>2. room <= Len(in) /\ room \in Int
      <3> HIDE DEF room
      <3>1. room \in Int /\ Len(in) \in Nat /\ ~(Len(in) < room)
        BY <1>1, <1>5, <1>8, Zenon DEF room
      <3> QED BY <3>1
    <2>3. buf' \in [1..Block -> Byte] /\ WrittenOver(buf, buf', Over(fed), in, room)
      BY <1>1, <1>5, <2>1, <2>2, WrittenType, Zenon
    <2>4. /\ room \in 0..Len(in)
          /\ blocks \o buf' \in Seq(Byte) /\ Len(blocks \o buf') % Block = 0
          /\ (blocks \o buf') \o Drop(in, room) = fed \o in
      <3>1. Filled(fed, in, blocks, buf')
        BY <1>1, <2>2, <2>3, KeptInBlocks, Zenon
      <3> QED BY <3>1, Zenon DEF Filled
    <2>5. src' \in Seq(Byte)
      BY <2>1, <2>4, BytesCut, Zenon
    <2> QED BY <1>2, <1>3, <1>6, <2>1, <2>3, <2>4, <2>5, Zenon
  <1> QED BY <1>7, <1>8, Zenon

\* The invariant between two calls of SHA256_Update.
LEMMA BetweenCalls ==
    ASSUME ShaInv, place # "blocks"
    PROVE  /\ ShaTypeOK /\ Counted /\ Kept(fed, blocks, buf)
           /\ fed \in Seq(Byte) /\ Len(fed) \in Nat /\ count = BitLength(Len(fed))
  <1>1. ShaTypeOK /\ Counted /\ NothingLostInPieces
    BY DEF ShaInv
  <1>2. fed \in Seq(Byte) /\ blocks \in Seq(Byte)
    BY <1>1 DEF ShaTypeOK
  <1>3. NothingLost(fed, blocks, buf)
    BY <1>1, Zenon DEF NothingLostInPieces, NothingLost
  <1>4. Kept(fed, blocks, buf)
    BY <1>2, <1>3, KeptIsNothingLost, Zenon
  <1>5. count = BitLength(Len(fed))
    BY <1>1, CountIsBits, Zenon DEF Counted, ShaTypeOK
  <1> QED BY <1>1, <1>2, <1>4, <1>5, LenProperties

\* After a call of SHA256_Update that was given in.
LEMMA AfterUpdate ==
    ASSUME ShaInv, place # "blocks",
           NEW in \in Seq(Byte), NEW caller \in {"message", "padded", "final"}, Update(in, caller),
           len' \in Seq(Byte), taken' \in 0..Len(Source), Given'
    PROVE  ShaInv'
  <1>1. /\ count' \in [0..1 -> 0..WordSize - 1] /\ buf' \in [1..Block -> Byte]
        /\ blocks' \in Seq(Byte) /\ src' \in Seq(Byte) /\ fed' \in Seq(Byte)
        /\ fed' = fed \o in /\ ret' = caller /\ count' = BitLength(Len(fed'))
        /\ \/ place' = caller /\ Kept(fed', blocks', buf')
           \/ place' = "blocks" /\ blocks' \o src' = fed' /\ Len(blocks') % Block = 0
    BY BetweenCalls, UpdateKeeps, Zenon
  <1>2. ShaTypeOK'
    <2>1. place' \in Places \cup {"blocks"} /\ ret' \in Places
      BY <1>1 DEF Places
    <2> QED BY <1>1, <2>1, Zenon DEF ShaTypeOK
  <1>3. Counted'
    BY <1>1, CountIsBits, Zenon DEF Counted
  <1>4. InLoop'
    <2>1. place' # "blocks" \/ (blocks' \o src' = fed' /\ Len(blocks') % Block = 0)
      BY <1>1, Zenon
    <2> QED BY <1>1, <2>1, Zenon DEF InLoop
  <1>5. NothingLostInPieces'
    <2>1. CASE place' = "blocks"
      BY <2>1 DEF NothingLostInPieces
    <2>2. CASE place' # "blocks"
      <3>1. Kept(fed', blocks', buf')
        BY <1>1, <2>2
      <3>2. NothingLost(fed', blocks', buf')
        BY <1>1, <3>1, KeptIsNothingLost, Zenon
      <3> QED BY <3>2, Zenon DEF NothingLostInPieces, NothingLost
    <2> QED BY <2>1, <2>2
  <1> QED BY <1>2, <1>3, <1>4, <1>5 DEF ShaInv

\* Nothing is given at the start (SHA256_Init).
LEMMA ShaInitInv == ShaInit => ShaInv
  <1> SUFFICES ASSUME ShaInit PROVE ShaInv
    OBVIOUS
  <1>1. /\ fed = <<>> /\ <<>> \in Seq(Byte) /\ Len(<<>>) = 0 /\ blocks = <<>>
        /\ place = "message" /\ taken = 0
    BY EmptySeq DEF ShaInit
  <1>2. count = [k \in 0..1 |-> 0] /\ count[0] = 0 /\ count[1] = 0
    BY DEF ShaInit
  <1>3. /\ Block \in Nat \ {0} /\ WordSize \in Nat \ {0} /\ Len(Source) \in Nat
        /\ Base \in Nat \ {0, 1}
    BY ShaFacts
  <1>4. ShaTypeOK
    <2>1. 0 \in 0..WordSize - 1 /\ 0 \in Byte /\ 0 \in 0..Len(Source)
      BY <1>3 DEF Byte
    <2> QED BY <1>1, <1>2, <2>1 DEF ShaInit, ShaTypeOK, Places
  <1>5. Counted
    <2>1. (8 * 0) % WordSize = 0 /\ ((8 * 0) \div WordSize) % WordSize = 0
      <3> DEFINE w == WordSize
      <3>1. w \in Nat \ {0}
        BY <1>3
      <3> HIDE DEF w
      <3>2. 0 % w = 0 /\ 0 \div w = 0
        <4>1. 0 = w * 0 + 0 /\ 0 \in Int /\ 0 \in 0..w - 1
          BY <3>1
        <4> QED BY <3>1, <4>1, DividedOnce
      <3>3. 8 * 0 = 0
        OBVIOUS
      <3> QED BY <3>2, <3>3 DEF w
    <2> QED BY <1>1, <1>2, <2>1, Zenon DEF Counted
  <1>6. 0 % Block = 0 /\ \A k \in 1..0 : FALSE
    <2> DEFINE w == Block
    <2>1. w \in Nat \ {0}
      BY <1>3
    <2> HIDE DEF w
    <2>2. 0 % w = 0
      <3>1. 0 = w * 0 + 0 /\ 0 \in Int /\ 0 \in 0..w - 1
        BY <2>1
      <3> QED BY <2>1, <3>1, DividedOnce
    <2>3. \A k \in 1..0 : FALSE
      OBVIOUS
    <2> QED BY <2>2, <2>3 DEF w
  <1>7. NothingLostInPieces
    <2>1. Kept(fed, blocks, buf)
      <3>1. Len(fed) % Block = 0 /\ 0 = 0 - 0 /\ Len(blocks) = 0 /\ Len(fed) = 0
        BY <1>1, <1>6
      <3> QED BY <1>6, <3>1, Zenon DEF Kept
    <2>2. NothingLost(fed, blocks, buf)
      BY <1>1, <2>1, KeptIsNothingLost, Zenon
    <2> QED BY <2>2, Zenon DEF NothingLostInPieces, NothingLost
  <1>8. Given /\ InLoop
    <2>1. SubSeq(Source, 1, 0) = <<>>
      <3>1. Source \in Seq(Byte) /\ 0 \in 0..Len(Source)
        BY <1>3, ShaFacts
      <3>2. SubSeq(Source, 1, 0) \in Seq(Byte) /\ Len(SubSeq(Source, 1, 0)) = 0
        BY <3>1, BytesCut
      <3> QED BY <3>2, EmptySeq
    <2>2. Caller = "message"
      BY <1>1 DEF Caller
    <2> QED BY <1>1, <2>1, <2>2 DEF Given, InLoop, Message
  <1> QED BY <1>4, <1>5, <1>7, <1>8 DEF ShaInv

\* A round of the loop.
LEMMA UpdateBlockInv == ASSUME ShaInv, UpdateBlock PROVE ShaInv'
  <1>1. /\ place = "blocks" /\ Len(src) >= Block
        /\ blocks' = blocks \o SubSeq(src, 1, Block) /\ src' = Drop(src, Block)
        /\ UNCHANGED <<count, buf, place, ret, len, taken, fed>>
    BY DEF UpdateBlock
  <1>2. /\ ShaTypeOK /\ src \in Seq(Byte) /\ blocks \in Seq(Byte)
        /\ Len(src) \in Nat /\ Len(blocks) \in Nat /\ Block \in Nat \ {0}
        /\ blocks \o src = fed /\ Len(blocks) % Block = 0
    BY <1>1, ShaFacts, LenProperties, Zenon DEF ShaInv, ShaTypeOK, InLoop
  <1>3. Block \in 0..Len(src)
    BY <1>1, <1>2
  <1>4. /\ SubSeq(src, 1, Block) \in Seq(Byte) /\ Len(SubSeq(src, 1, Block)) = Block
        /\ src' \in Seq(Byte) /\ SubSeq(src, 1, Block) \o src' = src
    BY <1>1, <1>2, <1>3, BytesCut, Zenon
  <1>5. blocks' \in Seq(Byte) /\ Len(blocks') = Len(blocks) + Block
    BY <1>1, <1>2, <1>4, BytesJoined, Zenon
  <1>6. blocks' \o src' = fed
    <2>1. (blocks \o SubSeq(src, 1, Block)) \o src' = blocks \o (SubSeq(src, 1, Block) \o src')
      <3> DEFINE b == SubSeq(src, 1, Block)
                 rest == src'
      <3>1. b \in Seq(Byte) /\ rest \in Seq(Byte)
        BY <1>4, Zenon
      <3> HIDE DEF b, rest
      <3>2. (blocks \o b) \o rest = blocks \o (b \o rest)
        BY <1>2, <3>1, BytesAssociate, Zenon
      <3> QED BY <3>2, Zenon DEF b, rest
    <2> QED BY <1>1, <1>2, <1>4, <2>1, Zenon
  <1>7. Len(blocks') % Block = 0
    <2> DEFINE n == Len(blocks)
    <2>1. n \in Int /\ Block \in Nat \ {0} /\ 1 \in Int /\ n % Block = 0 /\ Len(blocks') = n + Block
      BY <1>2, <1>5
    <2> HIDE DEF n
    <2>2. (n + Block * 1) % Block = n % Block
      BY <2>1, Shifted, Zenon
    <2>3. Block * 1 = Block
      BY <2>1
    <2> QED BY <2>1, <2>2, <2>3, Zenon
  <1>8. ShaTypeOK' /\ Counted' /\ InLoop'
    BY <1>1, <1>4, <1>5, <1>6, <1>7, Zenon DEF ShaInv, ShaTypeOK, Counted, InLoop
  <1>9. NothingLostInPieces'
    BY <1>1 DEF NothingLostInPieces
  <1>10. Given'
    BY <1>1, Zenon DEF ShaInv, Given, Caller, Message, Padding, Length
  <1> QED BY <1>8, <1>9, <1>10 DEF ShaInv

\* The rest of the input goes to the buffer.
LEMMA UpdateReturnInv == ASSUME ShaInv, UpdateReturn PROVE ShaInv'
  <1>1. /\ place = "blocks" /\ Len(src) < Block /\ buf' = Written(0, src, Len(src))
        /\ src' = <<>> /\ place' = ret
        /\ UNCHANGED <<count, blocks, ret, len, taken, fed>>
    BY DEF UpdateReturn, LeftOver
  <1>2. /\ ShaTypeOK /\ src \in Seq(Byte) /\ blocks \in Seq(Byte) /\ buf \in [1..Block -> Byte]
        /\ fed \in Seq(Byte)
        /\ Len(src) \in Nat /\ Len(blocks) \in Nat /\ Block \in Nat \ {0}
        /\ blocks \o src = fed /\ Len(blocks) % Block = 0
        /\ ret \in {"message", "padded", "final"}
    BY <1>1, ShaFacts, LenProperties, Zenon DEF ShaInv, ShaTypeOK, InLoop
  <1>3. buf' \in [1..Block -> Byte] /\ WrittenOver(buf, buf', 0, src, Len(src))
    <2>1. 0 \in Nat /\ Len(src) \in Int /\ Len(src) <= Len(src)
      BY <1>2
    <2> QED BY <1>1, <1>2, <2>1, WrittenType, Zenon
  <1>4. Kept(blocks, blocks, buf) /\ Over(blocks) = 0
    <2>1. Len(blocks) = Len(blocks) - 0 /\ \A k \in 1..0 : FALSE
      BY <1>2
    <2> QED BY <1>2, <2>1, Zenon DEF Kept, Over
  <1>5. 0 + Len(src) < Block
    BY <1>1, <1>2
  <1>6. Kept(blocks \o src, blocks, buf')
    BY <1>2, <1>3, <1>4, <1>5, KeptInBuffer, Zenon
  <1>7. NothingLostInPieces'
    <2>1. NothingLost(fed, blocks, buf')
      BY <1>2, <1>6, KeptIsNothingLost, Zenon
    <2> QED BY <1>1, <2>1, Zenon DEF NothingLostInPieces, NothingLost
  <1>8. ShaTypeOK'
    <2>1. place' \in Places \cup {"blocks"} /\ src' \in Seq(Byte)
      BY <1>1, <1>2 DEF Places
    <2> QED BY <1>1, <1>2, <1>3, <2>1, Zenon DEF ShaTypeOK
  <1>9. Counted' /\ InLoop'
    <2>1. place' # "blocks"
      BY <1>1, <1>2
    <2> QED BY <1>1, <2>1, Zenon DEF ShaInv, Counted, InLoop
  <1>10. Given'
    <2>1. Caller' = Caller /\ Caller = ret
      <3>1. ret' # "blocks" /\ ret' = ret /\ place' = ret /\ ret # "blocks"
        BY <1>1, <1>2
      <3> QED BY <1>1, <3>1, Zenon DEF Caller
    <2>2. Message' = Message /\ Padding' = Padding /\ Length' = Length
      BY <1>1 DEF Message, Padding, Length
    <2> QED BY <1>1, <2>1, <2>2, Zenon DEF ShaInv, Given
  <1> QED BY <1>7, <1>8, <1>9, <1>10 DEF ShaInv

\* A piece of the message.
LEMMA UpdateMessageInv ==
    ASSUME ShaInv, NEW n \in 0..Len(Source), UpdateMessage(n)
    PROVE  ShaInv'
  <1> DEFINE in == SubSeq(Source, taken + 1, taken + n)
  <1>1. /\ place = "message" /\ taken + n <= Len(Source) /\ taken' = taken + n
        /\ Update(in, "message") /\ len' = len
    BY DEF UpdateMessage
  <1>2. taken \in 0..Len(Source) /\ len \in Seq(Byte) /\ Source \in Seq(Byte) /\ Len(Source) \in Nat
    BY ShaFacts DEF ShaInv, ShaTypeOK
  <1>3. taken' \in 0..Len(Source)
    BY <1>1, <1>2
  <1>4. in \in Seq(Byte)
    <2>1. \A j \in 1..Len(Source) : Source[j] \in Byte
      BY <1>2, ElementOfSeq
    <2>2. \A j \in taken + 1..taken + n : Source[j] \in Byte
      BY <1>1, <1>2, <2>1
    <2>3. taken + 1 \in Nat /\ taken + n \in Nat /\ taken + 1 \in 1..Len(Source) + 1
          /\ taken + n \in taken..Len(Source)
      BY <1>1, <1>2
    <2> QED BY <1>2, <2>2, <2>3, SubSeqProperties
  <1>5. SubSeq(Source, 1, taken) \o in = SubSeq(Source, 1, taken + n)
    <2>1. 1 \in 1..Len(Source) + 1 /\ taken \in 1 - 1..Len(Source) /\ taken + n \in taken..Len(Source)
      BY <1>1, <1>2
    <2> QED BY <1>2, <2>1, ConcatAdjacentSubSeq
  <1>6. Given'
    <2>1. fed = Message
      BY <1>1 DEF ShaInv, Given, Caller
    <2>2. fed' = fed \o in /\ ret' = "message" /\ place' \in {"message", "blocks"}
      BY <1>1 DEF Update
    <2>3. Message' = SubSeq(Source, 1, taken + n)
      BY <1>1 DEF Message
    <2>4. fed' = Message'
      BY <1>5, <2>1, <2>2, <2>3, Zenon DEF Message
    <2>5. Caller' = "message"
      BY <2>2 DEF Caller
    <2> QED BY <2>4, <2>5 DEF Given
  <1>7. place # "blocks" /\ "message" \in {"message", "padded", "final"}
    BY <1>1
  <1> HIDE DEF in
  <1> QED BY <1>1, <1>2, <1>3, <1>4, <1>6, <1>7, AfterUpdate, Zenon

\* The encoded length is bytes.
LEMMA EncodedType ==
    ASSUME NEW w \in [0..1 -> 0..WordSize - 1]
    PROVE  Encoded(w) \in Seq(Byte) /\ Len(Encoded(w)) = 2 * WordBytes
  <1>1. /\ WordBytes \in Nat /\ 2 * WordBytes \in Nat /\ Base \in Nat \ {0}
        /\ \A k \in 0..WordBytes : Base^k \in Nat \ {0}
        /\ WordSize \in Nat
    BY ShaFacts
  <1>2. w[0] \in Int /\ w[1] \in Int
    BY <1>1
  <1>3. ASSUME NEW x \in Int, NEW k \in 0..WordBytes
        PROVE  (x \div Base^k) % Base \in Byte
    <2>1. Base^k \in Nat \ {0}
      BY <1>1
    <2>2. x \div Base^k \in Int
      BY <2>1, Divided, Zenon
    <2>3. (x \div Base^k) % Base \in 0..Base - 1
      BY <1>1, <2>2, Divided, Zenon
    <2> QED BY <2>3 DEF Byte
  <1>4. ASSUME NEW k \in 1..2 * WordBytes
        PROVE  (IF k <= WordBytes THEN (w[0] \div Base^(WordBytes - k)) % Base
                ELSE (w[1] \div Base^(2 * WordBytes - k)) % Base) \in Byte
    <2>1. CASE k <= WordBytes
      <3>1. WordBytes - k \in 0..WordBytes
        BY <1>1, <2>1
      <3> QED BY <1>2, <1>3, <2>1, <3>1, Zenon
    <2>2. CASE ~(k <= WordBytes)
      <3>1. 2 * WordBytes - k \in 0..WordBytes
        BY <1>1, <2>2
      <3> QED BY <1>2, <1>3, <2>2, <3>1, Zenon
    <2> QED BY <2>1, <2>2
  <1>5. Encoded(w) \in [1..2 * WordBytes -> Byte]
    BY <1>4, Zenon DEF Encoded
  <1> QED BY <1>1, <1>5, BytesOf, Zenon

\* The padding is bytes.
LEMMA PadType ==
    ASSUME NEW n \in Nat
    PROVE  PAD(n) \in Seq(Byte) /\ Len(PAD(n)) = n
  <1>1. Base \div 2 \in Byte /\ 0 \in Byte
    BY ShaFacts DEF Byte
  <1>2. PAD(n) \in [1..n -> Byte]
    BY <1>1, Zenon DEF PAD
  <1> QED BY <1>2, BytesOf, Zenon

\* The padding is at least a byte and at most a block, and with the length behind it
\* the message is whole blocks.
LEMMA PadFits ==
    ASSUME NEW n \in Nat
    PROVE  /\ PadLength(n % Block) \in 1..Block
           /\ (n + PadLength(n % Block) + 2 * WordBytes) % Block = 0
  <1> DEFINE b == Block
             w == WordBytes
             q == n \div b
             r == n % b
             p == PadLength(r)
  <1>1. b \in Nat \ {0} /\ w \in Nat \ {0} /\ 2 * w < b /\ n \in Int
    BY ShaFacts
  <1>2. q \in Int /\ r \in 0..b - 1 /\ n = b * q + r
    BY <1>1, Divided, Zenon
  <1>3. p = IF r < b - 2 * w THEN b - 2 * w - r ELSE 2 * b - 2 * w - r
    BY Zenon DEF PadLength
  <1> HIDE DEF b, w, q, r, p
  <1>4. p \in 1..b
    BY <1>1, <1>2, <1>3
  <1>5. (n + p + 2 * w) % b = 0
    <2> DEFINE t == n + p + 2 * w
    <2>0. t \in Int /\ 0 \in 0..b - 1
      BY <1>1, <1>4
    <2>1. (t = b * (q + 1) + 0 \/ t = b * (q + 2) + 0)
      <3> DEFINE x == b * q
      <3>1. x \in Int /\ b * (q + 1) = x + b /\ b * (q + 2) = x + 2 * b /\ n = x + r
        BY <1>1, <1>2
      <3> HIDE DEF x
      <3>3. t = x + b + 0 \/ t = x + 2 * b + 0
        BY <1>1, <1>2, <1>3, <3>1
      <3> QED BY <3>1, <3>3
    <2> DEFINE q1 == q + 1
               q2 == q + 2
    <2>2. q1 \in Int /\ q2 \in Int /\ (t = b * q1 + 0 \/ t = b * q2 + 0)
      BY <1>2, <2>1
    <2> HIDE DEF t, q1, q2
    <2>3. ASSUME NEW u \in Int, t = b * u + 0
          PROVE  t % b = 0
      <3>1. t \in Int /\ b \in Nat \ {0} /\ 0 \in 0..b - 1
        BY <1>1, <2>0
      <3> QED BY <2>3, <3>1, DividedOnce
    <2>4. t % b = 0
      BY <2>2, <2>3, Zenon
    <2> QED BY <2>4 DEF t
  <1> QED BY <1>4, <1>5, Zenon DEF b, w, r, p

\* The message that has been taken, and its length.
LEMMA MessageFacts ==
    ASSUME ShaTypeOK
    PROVE  /\ taken \in Nat /\ Message \in Seq(Byte) /\ Len(Message) = taken
           /\ PadLength(taken % Block) \in 1..Block /\ PadLength(taken % Block) \in Nat
           /\ Padding \in Seq(Byte) /\ Len(Padding) = PadLength(taken % Block)
           /\ Length \in Seq(Byte) /\ Len(Length) = 2 * WordBytes
  <1>1. taken \in 0..Len(Source) /\ Source \in Seq(Byte) /\ taken \in Nat /\ Block \in Nat
    BY ShaFacts DEF ShaTypeOK
  <1>2. Message \in Seq(Byte) /\ Len(Message) = taken
    BY <1>1, BytesCut, Zenon DEF Message
  <1>3. PadLength(taken % Block) \in 1..Block
    BY <1>1, PadFits, Zenon
  <1>4. PadLength(taken % Block) \in Nat
    <2> DEFINE p == PadLength(taken % Block)
    <2>1. p \in 1..Block
      BY <1>3
    <2> HIDE DEF p
    <2>2. p \in Nat
      BY <1>1, <2>1
    <2> QED BY <2>2 DEF p
  <1>5. Padding \in Seq(Byte) /\ Len(Padding) = PadLength(taken % Block)
    BY <1>4, PadType, Zenon DEF Padding
  <1>6. Length \in Seq(Byte) /\ Len(Length) = 2 * WordBytes
    BY <1>1, BitsCounted, EncodedType, Zenon DEF Length
  <1> QED BY <1>1, <1>2, <1>3, <1>4, <1>5, <1>6

\* SHA256_Pad, up to the padding.
LEMMA PadInv == ASSUME ShaInv, Pad PROVE ShaInv'
  <1>1. /\ place = "message" /\ place # "blocks" /\ len' = Encoded(count)
        /\ Update(PAD(PadLength(Left)), "padded") /\ taken' = taken
    BY DEF Pad
  <1>2. /\ ShaTypeOK /\ Counted /\ fed \in Seq(Byte) /\ Len(fed) \in Nat
        /\ count = BitLength(Len(fed))
    BY <1>1, BetweenCalls
  <1>3. /\ taken \in Nat /\ Len(Message) = taken /\ Padding \in Seq(Byte)
        /\ Length \in Seq(Byte)
    BY <1>2, MessageFacts
  <1>4. fed = Message /\ Len(fed) = taken
    BY <1>1, <1>3 DEF ShaInv, Given, Caller
  <1>5. Left = taken % Block
    <2>1. count[1] = (8 * Len(fed)) % WordSize
      BY <1>2 DEF Counted
    <2> QED BY <1>2, <1>4, <2>1, LeftOfBits, Zenon DEF Left
  <1>6. Update(Padding, "padded") /\ len' = Length
    BY <1>1, <1>2, <1>4, <1>5, Zenon DEF Padding, Length
  <1>7. Given'
    <2>1. fed' = fed \o Padding /\ ret' = "padded" /\ place' \in {"padded", "blocks"}
      BY <1>6 DEF Update
    <2>2. Message' = Message /\ Padding' = Padding /\ Length' = Length
      BY <1>1, Zenon DEF Message, Padding, Length
    <2>3. Caller' = "padded"
      BY <2>1 DEF Caller
    <2>4. fed' = Message' \o Padding' /\ len' = Length'
      BY <1>4, <1>6, <2>1, <2>2, Zenon
    <2> QED BY <2>3, <2>4 DEF Given
  <1>8. len' \in Seq(Byte) /\ taken' \in 0..Len(Source) /\ "padded" \in {"message", "padded", "final"}
    BY <1>1, <1>2, <1>3, <1>6 DEF ShaTypeOK
  <1> QED BY <1>1, <1>3, <1>6, <1>7, <1>8, AfterUpdate, Zenon

\* SHA256_Pad, the length.
LEMMA PadCountInv == ASSUME ShaInv, PadCount PROVE ShaInv'
  <1>1. /\ place = "padded" /\ place # "blocks" /\ Update(len, "final")
        /\ len' = len /\ taken' = taken
    BY DEF PadCount
  <1>2. ShaTypeOK /\ len \in Seq(Byte) /\ taken \in 0..Len(Source)
    BY DEF ShaInv, ShaTypeOK
  <1>3. fed = Message \o Padding /\ len = Length
    BY <1>1 DEF ShaInv, Given, Caller
  <1>4. Given'
    <2>1. fed' = fed \o len /\ ret' = "final" /\ place' \in {"final", "blocks"}
      BY <1>1 DEF Update
    <2>2. Message' = Message /\ Padding' = Padding /\ Length' = Length
      BY <1>1, Zenon DEF Message, Padding, Length
    <2>3. Caller' = "final"
      BY <2>1 DEF Caller
    <2>4. fed' = Message' \o Padding' \o Length'
      BY <1>3, <2>1, <2>2, Zenon
    <2> QED BY <2>3, <2>4 DEF Given
  <1>5. "final" \in {"message", "padded", "final"} /\ len' \in Seq(Byte) /\ taken' \in 0..Len(Source)
    BY <1>1, <1>2
  <1> QED BY <1>1, <1>2, <1>4, <1>5, AfterUpdate, Zenon

\* SHA256_Final.
LEMMA FinishInv == ASSUME ShaInv, Finish PROVE ShaInv'
  <1>1. /\ place = "final" /\ place' = "done"
        /\ UNCHANGED <<count, buf, blocks, src, ret, len, taken, fed>>
    BY DEF Finish
  <1>2. ShaTypeOK' /\ Counted' /\ InLoop'
    BY <1>1 DEF ShaInv, ShaTypeOK, Counted, InLoop, Places
  <1>3. NothingLostInPieces'
    BY <1>1 DEF ShaInv, NothingLostInPieces
  <1>4. Given'
    <2>1. Caller = "final" /\ Caller' = "done"
      BY <1>1 DEF Caller
    <2>2. Message' = Message /\ Padding' = Padding /\ Length' = Length
      BY <1>1, Zenon DEF Message, Padding, Length
    <2> QED BY <1>1, <2>1, <2>2 DEF ShaInv, Given
  <1> QED BY <1>2, <1>3, <1>4 DEF ShaInv

\* Every step keeps the invariant.
LEMMA ShaStep == ShaInv /\ [ShaNext]_shaVars => ShaInv'
  <1>1. ASSUME ShaInv, UNCHANGED shaVars PROVE ShaInv'
    <2>1. UNCHANGED <<count, buf, blocks, src, place, ret, len, taken, fed>>
      BY <1>1 DEF shaVars
    <2> QED BY <1>1, <2>1, Zenon DEF ShaInv, ShaTypeOK, Counted, InLoop, NothingLostInPieces, Given, Caller,
                Message, Padding, Length
  <1> QED BY <1>1, UpdateMessageInv, UpdateBlockInv, UpdateReturnInv, PadInv, PadCountInv, FinishInv,
              Zenon DEF ShaNext

\* The invariant holds in every state.
LEMMA ShaInvariance == ShaSpec => []ShaInv
  BY ShaInitInv, ShaStep, PTL DEF ShaSpec

\* What is hashed, from the invariant.
LEMMA InvPadded == ShaInv => DigestIsPadded
  <1> DEFINE n == taken
             p == PadLength(taken % Block)
             w == 2 * WordBytes
             b == Len(blocks)
  <1> SUFFICES ASSUME ShaInv, place = "done"
               PROVE  /\ b % Block = 0
                      /\ b - n \in w + 1..w + Block
                      /\ blocks = Message \o PAD(b - n - w) \o Length
    BY Zenon DEF DigestIsPadded, Message, Length
  <1>1. /\ Kept(fed, blocks, buf) /\ fed \in Seq(Byte) /\ ShaTypeOK /\ blocks \in Seq(Byte)
    BY BetweenCalls DEF ShaTypeOK
  <1>2. fed = Message \o Padding \o Length
    BY DEF ShaInv, Given, Caller
  <1>3. /\ n \in Nat /\ Message \in Seq(Byte) /\ Len(Message) = n
        /\ p \in 1..Block /\ p \in Nat
        /\ Padding \in Seq(Byte) /\ Len(Padding) = p
        /\ Length \in Seq(Byte) /\ Len(Length) = w
    BY <1>1, MessageFacts, Zenon
  <1>4. Len(fed) = n + p + w
    <2> DEFINE m == Message \o Padding
    <2>1. m \in Seq(Byte) /\ Len(m) = n + p
      BY <1>3, BytesJoined, Zenon
    <2> HIDE DEF m
    <2>2. Len(m \o Length) = Len(m) + Len(Length)
      BY <1>3, <2>1, BytesJoined, Zenon
    <2> QED BY <1>2, <1>3, <2>1, <2>2, Zenon DEF m
  <1>5. Len(fed) % Block = 0
    BY <1>3, <1>4, PadFits, Zenon
  <1>6. b = Len(fed) - 0 /\ \A j \in 1..b : blocks[j] = fed[j]
    BY <1>1, <1>5, Zenon DEF Kept
  <1>7. w \in Nat /\ Block \in Nat
    BY ShaFacts
  <1>8. b = n + p + w
    <2> DEFINE l == Len(fed)
    <2>1. l \in Nat /\ l = n + p + w /\ b = l - 0
      BY <1>1, <1>4, <1>6, LenProperties, Zenon
    <2> HIDE DEF p, w, b, l
    <2> QED BY <2>1
  <1>9. blocks = fed
    <2>1. Len(blocks) = Len(fed)
      BY <1>4, <1>8, Zenon
    <2> QED BY <1>1, <1>6, <2>1, SameBytes, Zenon
  <1>10. b - n \in w + 1..w + Block /\ b - n - w = p
    <2> HIDE DEF p, w, b
    <2> QED BY <1>3, <1>7, <1>8
  <1>11. PAD(b - n - w) = Padding
    BY <1>10, Zenon DEF Padding
  <1>12. b % Block = 0
    BY <1>4, <1>5, <1>8, Zenon
  <1> QED BY <1>2, <1>9, <1>10, <1>11, <1>12, Zenon

\* The count stays two words and the buffer a block of bytes, however many bits are
\* given (SHA256_Update).
THEOREM ShaTyped == ShaSpec => []ShaTypeOK
  <1>1. ShaInv => ShaTypeOK
    BY DEF ShaInv
  <1> QED BY ShaInvariance, <1>1, PTL

\* However the message comes in pieces, what was transformed and what is in the
\* buffer are all that was given, for any message, block and word (SHA256_Update).
THEOREM NothingLostInvariance == ShaSpec => []NothingLostInPieces
  <1>1. ShaInv => NothingLostInPieces
    BY DEF ShaInv
  <1> QED BY ShaInvariance, <1>1, PTL

\* What is hashed is the message with the padding and the length of the standard,
\* for any message, block and word (SHA256_Pad).
THEOREM PaddingCorrect == ShaSpec => []DigestIsPadded
  BY ShaInvariance, InvPadded, PTL
===============================================================================
