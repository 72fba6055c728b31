-------------------------------- MODULE Sha256 --------------------------------
(***************************************************************************)
(* The streaming half of SHA-256 in scrypt.c of the Doge service:          *)
(* SHA256_Init, SHA256_Update, SHA256_Pad and SHA256_Final, which cut a    *)
(* message that comes in pieces into the blocks that SHA256_Transform      *)
(* takes.  What the transform does to its state is left out: the state is  *)
(* the sequence of the bytes it has been given.                            *)
(***************************************************************************)
EXTENDS Integers, Sequences

CONSTANTS Block,      \* bytes of a block: 64
          Base,       \* values of a byte: 256
          WordBytes,  \* bytes of a word: 4
          Source      \* what messages are taken from: each is the start of it

Byte == 0..Base - 1
WordSize == Base^WordBytes

ASSUME ShaAssumption ==
    /\ Block \in Nat \ {0} /\ Base \in Nat \ {0, 1} /\ WordBytes \in Nat \ {0}
    /\ 2 * WordBytes < Block
    /\ \A k \in 0..WordBytes : Base^k \in Nat \ {0}
    /\ WordSize % (8 * Block) = 0
    /\ Source \in Seq(Byte)

VARIABLES
    count,   \* ctx->count: the bits so far, high word and low word
    buf,     \* ctx->buf
    blocks,  \* ctx->state: all that the transform has been given
    src,     \* in SHA256_Update: the bytes not dealt with yet
    place,   \* where the caller is, and "blocks" in the loop of SHA256_Update
    ret,     \* where SHA256_Update returns to
    len,     \* in SHA256_Pad: the length, encoded
    taken,   \* how much of the message has been passed to SHA256_Update (history)
    fed      \* all that has been passed to SHA256_Update (history)

shaVars == <<count, buf, blocks, src, place, ret, len, taken, fed>>

Places == {"message", "padded", "final", "done"}

ShaTypeOK ==
    /\ count \in [0..1 -> 0..WordSize - 1]
    /\ buf \in [1..Block -> Byte]
    /\ blocks \in Seq(Byte) /\ src \in Seq(Byte) /\ len \in Seq(Byte) /\ fed \in Seq(Byte)
    /\ place \in Places \cup {"blocks"} /\ ret \in Places
    /\ taken \in 0..Len(Source)

\* SHA256_Init; the buffer is not cleared.
ShaInit ==
    /\ count = [k \in 0..1 |-> 0] /\ buf = [k \in 1..Block |-> 0]
    /\ blocks = <<>> /\ src = <<>> /\ place = "message" /\ ret = "message"
    /\ len = <<>> /\ taken = 0 /\ fed = <<>>
-------------------------------------------------------------------------------
(* SHA256_Update *)

\* The low word overflows into the high word.
AddBits(bytes) ==
    LET low == (8 * bytes) % WordSize
        high == (8 * bytes) \div WordSize
        sum == (count[1] + low) % WordSize
        carry == IF sum < low THEN 1 ELSE 0
    IN  [k \in 0..1 |-> IF k = 1 THEN sum ELSE (count[0] + carry + high) % WordSize]

\* Bytes left in the buffer from previous updates.
Left == (count[1] \div 8) % Block

\* The buffer with the first n bytes of in written at place r.
Written(r, in, n) == [k \in 1..Block |-> IF k \in r + 1..r + n THEN in[k - r] ELSE buf[k]]

Drop(in, n) == SubSeq(in, n + 1, Len(in))

\* Up to the loop: all of the input fits in the buffer with room to spare, or
\* the buffer is filled and transformed.
Update(in, caller) ==
    LET r == Left
        room == Block - r
    IN  /\ count' = AddBits(Len(in))
        /\ fed' = fed \o in
        /\ ret' = caller
        /\ IF Len(in) < room
           THEN /\ buf' = Written(r, in, Len(in))
                /\ place' = caller
                /\ src' = <<>>
                /\ UNCHANGED blocks
           ELSE /\ buf' = Written(r, in, room)
                /\ blocks' = blocks \o buf'
                /\ src' = Drop(in, room)
                /\ place' = "blocks"

\* One round of the loop over complete blocks.
UpdateBlock ==
    /\ place = "blocks" /\ Len(src) >= Block
    /\ blocks' = blocks \o SubSeq(src, 1, Block)
    /\ src' = Drop(src, Block)
    /\ UNCHANGED <<count, buf, place, ret, len, taken, fed>>

\* Mutant: the bytes that are left over are not kept.
LeftOverLost == buf

LeftOver == Written(0, src, Len(src))

UpdateReturn ==
    /\ place = "blocks" /\ Len(src) < Block
    /\ buf' = LeftOver
    /\ src' = <<>>
    /\ place' = ret
    /\ UNCHANGED <<count, blocks, ret, len, taken, fed>>
-------------------------------------------------------------------------------
(* The caller: the message in pieces, then SHA256_Final *)

UpdateMessage(n) ==
    /\ place = "message" /\ taken + n <= Len(Source)
    /\ taken' = taken + n
    /\ Update(SubSeq(Source, taken + 1, taken + n), "message")
    /\ UNCHANGED len

\* be32enc_vect of the two words of the count.
Encoded(words) ==
    [k \in 1..2 * WordBytes |->
        IF k <= WordBytes THEN (words[0] \div Base^(WordBytes - k)) % Base
        ELSE (words[1] \div Base^(2 * WordBytes - k)) % Base]

\* Mutant: a buffer that is just full up to the length gets no padding.
PadLengthOff(r) ==
    IF r <= Block - 2 * WordBytes THEN Block - 2 * WordBytes - r
    ELSE 2 * Block - 2 * WordBytes - r

\* One block or two: the length has to fit behind the padding.
PadLength(r) ==
    IF r < Block - 2 * WordBytes THEN Block - 2 * WordBytes - r
    ELSE 2 * Block - 2 * WordBytes - r

\* A one bit, then zeros.
PAD(n) == [k \in 1..n |-> IF k = 1 THEN Base \div 2 ELSE 0]

\* SHA256_Pad: the length is saved before the padding counts.
Pad ==
    /\ place = "message"
    /\ len' = Encoded(count)
    /\ Update(PAD(PadLength(Left)), "padded")
    /\ UNCHANGED taken

PadCount ==
    /\ place = "padded"
    /\ Update(len, "final")
    /\ UNCHANGED <<len, taken>>

\* SHA256_Final: the state is the digest.
Finish ==
    /\ place = "final"
    /\ place' = "done"
    /\ UNCHANGED <<count, buf, blocks, src, ret, len, taken, fed>>

ShaNext ==
    \/ \E n \in 0..Len(Source) : UpdateMessage(n)
    \/ UpdateBlock \/ UpdateReturn \/ Pad \/ PadCount \/ Finish

ShaSpec == ShaInit /\ [][ShaNext]_shaVars
-------------------------------------------------------------------------------
(* Properties *)

\* Between two calls, the bytes transformed and the bytes in the buffer are the
\* bytes given so far, each once and in order, and the transform has been given
\* whole blocks: how the message is cut into pieces makes no difference
\* (SHA256_Update).
NothingLostInPieces ==
    place # "blocks" =>
        LET whole == Len(fed) - (Len(fed) % Block)
        IN  /\ blocks = SubSeq(fed, 1, whole)
            /\ \A k \in 1..(Len(fed) % Block) : buf[k] = fed[whole + k]

\* The bits of the message, as the standard encodes them.
BitLength(n) == [k \in 0..1 |-> IF k = 1 THEN (8 * n) % WordSize ELSE ((8 * n) \div WordSize) % WordSize]

\* What is hashed is the message, a one bit, the least number of zeros that makes
\* whole blocks, and the length of the message in bits, at every length on both
\* sides of a block's end and of the low word's overflow (SHA256_Pad).
DigestIsPadded ==
    place = "done" =>
        LET n == taken
            padding == PAD(Len(blocks) - n - 2 * WordBytes)
        IN  /\ Len(blocks) % Block = 0
            /\ Len(blocks) - n \in 2 * WordBytes + 1..2 * WordBytes + Block
            /\ blocks = SubSeq(Source, 1, n) \o padding \o Encoded(BitLength(n))
===============================================================================
