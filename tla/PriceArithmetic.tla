---------------------------- MODULE PriceArithmetic ----------------------------
(***************************************************************************)
(* The numbers of oracles/price/src: priceStringToRational, which turns    *)
(* the text of a close price into a fraction, and computeMean, which       *)
(* combines the fractions of two exchanges, in the order in which          *)
(* CombinedPriceProvider::getPriceAtTimestamp comes to them.               *)
(*                                                                         *)
(* The integers have Width bits in place of 64; a result that does not fit *)
(* wraps around, as it does in the builds the code is used in.  The loop   *)
(* over a text only multiplies and adds, so its integers are exact here    *)
(* and wrap around once, at its end.                                       *)
(***************************************************************************)
EXTENDS Integers, Sequences

CONSTANTS Width,     \* bits of int64_t
          Digits,    \* digits that fit: 18 for 64 bits
          Decimals,  \* of PRICE_DENOMINATOR
          Chars,     \* characters of a text: digits, Dot and Other
          MaxLen,    \* bound on the length of a text
          Dot,
          Other      \* a character that no number goes on with

\* The powers of ten, and the first number that does not fit.
Ten[k \in Nat] == IF k = 0 THEN 1 ELSE 10 * Ten[k - 1]
Limit == 2^(Width - 1)

ASSUME ArithmeticAssumption ==
    /\ Width \in Nat \ {0} /\ Digits \in Nat /\ Decimals \in Nat /\ MaxLen \in Nat
    /\ Limit \in Nat /\ 2 * Ten[Digits] < Limit /\ Ten[Decimals] < Limit
    /\ Chars \subseteq (0..9) \cup {Dot, Other}
    /\ Dot \notin 0..9 /\ Other \notin 0..9 /\ Dot # Other

VARIABLES
    texts,   \* the close prices of the two exchanges
    prices,  \* the fractions so far
    mean,    \* the combined fraction, if there is one
    stage

priceVars == <<texts, prices, mean, stage>>

Text == UNION {[1..n -> Chars] : n \in 0..MaxLen}
Word == -Limit .. Limit - 1
Fraction == [num : Word, denom : Word]
NoFraction == [num |-> 0, denom |-> 1]

PriceTypeOK ==
    /\ texts \in Text \X Text
    /\ prices \in Seq(Fraction) /\ Len(prices) <= 2
    /\ mean \in Fraction
    /\ stage \in {"ask", "combine", "done", "failed"}

PriceInit ==
    /\ texts \in Text \X Text
    /\ prices = <<>> /\ mean = NoFraction /\ stage = "ask"

Wrap(x) == ((x + Limit) % (2 * Limit)) - Limit
-------------------------------------------------------------------------------
(* priceStringToRational *)

Start == [num |-> 0, denom |-> 1, seenDot |-> FALSE, okay |-> TRUE]

\* One round of the loop; after an unexpected character nothing changes.
Scan(st, c) ==
    CASE ~st.okay -> st
      [] st.okay /\ c \in 0..9 -> [st EXCEPT !.num = @ * 10 + c,
                                             !.denom = IF st.seenDot THEN @ * 10 ELSE @]
      [] st.okay /\ c = Dot /\ ~st.seenDot -> [st EXCEPT !.seenDot = TRUE]
      [] OTHER -> [st EXCEPT !.okay = FALSE]

\* The loop: what it has after each character.
Scanned(text) ==
    LET after[k \in 0..Len(text)] == IF k = 0 THEN Start ELSE Scan(after[k - 1], text[k])
    IN  after

\* The fallback: std::stod takes the longest prefix that is a number and fails if there is none.
Prefix(text) ==
    CHOOSE n \in 0..Len(text) :
        Scanned(text)[n].okay /\ \A m \in n + 1..Len(text) : ~Scanned(text)[m].okay

\* std::round of a fraction that is not negative.
Round(n, d) == (2 * n + d) \div (2 * d)

HasDigit(text, n) == \E k \in 1..n : text[k] \in 0..9

\* The cast of a double to an integer; one that does not fit becomes an end of the range.
Cast(x) == IF x \in Word THEN {x} ELSE {-Limit, Limit - 1}

\* The set of results: none if the text is refused.
priceStringToRational(text) ==
    LET st == Scanned(text)[Len(text)]
        before == Scanned(text)[Prefix(text)]
    IN  IF st.okay THEN {[num |-> Wrap(st.num), denom |-> Wrap(st.denom)]}
        ELSE IF ~HasDigit(text, Prefix(text)) THEN {}
        ELSE [num : Cast(Round(before.num * Ten[Decimals], before.denom)), denom : {Ten[Decimals]}]
-------------------------------------------------------------------------------
(* computeMean *)

\* C++ division and remainder: towards zero.
Abs(x) == IF x >= 0 THEN x ELSE -x
Quotient(a, b) == IF (a >= 0) = (b >= 0) THEN Abs(a) \div Abs(b) ELSE -(Abs(a) \div Abs(b))
Remainder(a, b) == IF a >= 0 THEN a % Abs(b) ELSE -(Abs(a) % Abs(b))

\* The loop of gcd, from a pair of numbers on.
gcd[p \in Int \X Int] == IF p[2] = 0 THEN p[1] ELSE gcd[<<p[2], Remainder(p[1], p[2])>>]

\* Mutant: an odd sum is halved like an even one.
HalvedRounding(sum, denom) == [num |-> Quotient(sum, 2), denom |-> denom]

\* Half of a sum: exact, with twice the denominator if the sum is odd.
Halved(sum, denom) ==
    IF Remainder(sum, 2) = 0 THEN [num |-> Quotient(sum, 2), denom |-> denom]
    ELSE [num |-> sum, denom |-> Wrap(denom * 2)]

computeMean(p, q) ==
    IF p.denom = q.denom THEN Halved(Wrap(p.num + q.num), p.denom)
    ELSE LET g == gcd[<<p.denom, q.denom>>]
             cross1 == Wrap(p.num * Quotient(q.denom, g))
             cross2 == Wrap(q.num * Quotient(p.denom, g))
         IN  Halved(Wrap(cross1 + cross2), Wrap(Quotient(p.denom, g) * q.denom))
-------------------------------------------------------------------------------
(* CombinedPriceProvider::getPriceAtTimestamp *)

\* The next exchange is asked; its price is refused or joins the others.
AskProvider ==
    /\ stage = "ask"
    /\ LET result == priceStringToRational(texts[Len(prices) + 1])
       IN  \/ result = {} /\ stage' = "failed" /\ UNCHANGED prices
           \/ \E f \in result :
                 /\ prices' = Append(prices, f)
                 /\ stage' = IF Len(prices) = 1 THEN "combine" ELSE "ask"
    /\ UNCHANGED <<texts, mean>>

Combine ==
    /\ stage = "combine"
    /\ mean' = computeMean(prices[1], prices[2])
    /\ stage' = "done"
    /\ UNCHANGED <<texts, prices>>

PriceNext == AskProvider \/ Combine
PriceSpec == PriceInit /\ [][PriceNext]_priceVars
-------------------------------------------------------------------------------
(* Properties *)

\* A text that is a plain decimal number.
Numeral(text) ==
    /\ \A k \in 1..Len(text) : text[k] # Other
    /\ \A j, k \in 1..Len(text) : text[j] = Dot /\ text[k] = Dot => j = k

\* Where the point of a numeral is, or would be.
HasPoint(text) == \E k \in 1..Len(text) : text[k] = Dot
Point(text) ==
    IF HasPoint(text) THEN CHOOSE k \in 1..Len(text) : text[k] = Dot ELSE Len(text) + 1

DecimalsOf(text) == IF HasPoint(text) THEN Len(text) - Point(text) ELSE 0
DigitsOf(text) == IF HasPoint(text) THEN Len(text) - 1 ELSE Len(text)

\* The number a numeral stands for, times a power of ten: each digit has the weight of
\* its distance from the point.
Weight(text, k) == IF k < Point(text) THEN Point(text) - k - 1 ELSE Point(text) - k
Summand(text, places, k) == IF text[k] = Dot THEN 0 ELSE text[k] * Ten[places + Weight(text, k)]
Summed(text, places) ==
    LET sum[k \in 0..Len(text)] == IF k = 0 THEN 0 ELSE sum[k - 1] + Summand(text, places, k)
    IN  sum
Scaled(text, places) == Summed(text, places)[Len(text)]

\* The digits fit, also when two numerals are brought to one denominator.
Fits(s, t) == DigitsOf(s) <= Digits /\ DigitsOf(s) + DecimalsOf(t) - DecimalsOf(s) <= Digits
Safe(s, t) == Numeral(s) /\ Numeral(t) /\ Fits(s, t) /\ Fits(t, s)

\* The decimals of the one that has more of them.
CommonPlaces(s, t) == IF DecimalsOf(s) < DecimalsOf(t) THEN DecimalsOf(t) ELSE DecimalsOf(s)

\* The combined price is exactly the mean of the two numbers the exchanges sent,
\* for texts with as many digits as fit and any decimals: no rounding, no wrong
\* scale, no wrap-around in a product or a sum (priceStringToRational,
\* computeMean; "should be safe" in its comment).
MeanIsExact ==
    stage = "done" /\ Safe(texts[1], texts[2]) =>
        LET places == CommonPlaces(texts[1], texts[2])
        IN  /\ mean.denom > 0
            /\ 2 * mean.num * Ten[places]
                   = mean.denom * (Scaled(texts[1], places) + Scaled(texts[2], places))
===============================================================================
