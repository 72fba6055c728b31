---------------------------- MODULE ArithmeticProofs ---------------------------
(***************************************************************************)
(* Proofs about what two services compute, for every size of their inputs. *)
(*                                                                         *)
(* doge_service.cpp (DogeShare): the root that is computed from a query is *)
(* that of the block's Merkle tree, whatever the number of transactions,   *)
(* and the comparisons of bytes are comparisons of numbers.                *)
(*                                                                         *)
(* price_service.cpp and combined_provider.cpp (PriceArithmetic): the      *)
(* integers keep their width, nothing is divided by zero, and the combined *)
(* price of two numerals whose digits fit is their exact mean, for texts   *)
(* of every length and every width of the integers.                        *)
(*                                                                         *)
(* The loops of the code are recursive functions here.  Such a function    *)
(* is what its equation says once a function that satisfies the equation   *)
(* is known to exist, and what the loop computes is then shown by          *)
(* induction; both rest on the least element of a set of naturals.         *)
(***************************************************************************)
EXTENDS DogeShare, PriceArithmetic, WellFoundedInduction, TLAPS
-------------------------------------------------------------------------------
(* Sequences *)

\* The length of a sequence, and its elements as a function.
LEMMA LengthIs == ASSUME NEW S, NEW a \in Seq(S) PROVE Len(a) \in Nat /\ a = [k \in 1..Len(a) |-> a[k]]
  OBVIOUS

\* A sequence after another one (vector::insert).
LEMMA ConcatIs ==
    ASSUME NEW S, NEW a \in Seq(S), NEW b \in Seq(S)
    PROVE  /\ a \o b \in Seq(S) /\ Len(a \o b) = Len(a) + Len(b)
           /\ \A k \in 1..Len(a) + Len(b) : (a \o b)[k] = IF k <= Len(a) THEN a[k] ELSE b[k - Len(a)]
  OBVIOUS

\* Sequences with the same elements are the same.
LEMMA SameElements ==
    ASSUME NEW S, NEW a \in Seq(S), NEW b \in Seq(S), Len(a) = Len(b),
           \A k \in 1..Len(a) : a[k] = b[k]
    PROVE  a = b
  <1>1. a = [k \in 1..Len(a) |-> a[k]] /\ b = [k \in 1..Len(b) |-> b[k]]
    BY LengthIs, Zenon
  <1>2. [k \in 1..Len(a) |-> a[k]] = [k \in 1..Len(a) |-> b[k]]
    BY Zenon
  <1> QED BY <1>1, <1>2, Zenon

\* A sequence over a set is one over a larger set.
LEMMA WiderElements == ASSUME NEW S, NEW T, S \subseteq T, NEW a \in Seq(S) PROVE a \in Seq(T)
  OBVIOUS

\* A piece of a sequence (the vector of a range of bytes).
LEMMA PartIs ==
    ASSUME NEW S, NEW a, NEW from \in Int, NEW to \in Int, \A k \in from..to : a[k] \in S
    PROVE  /\ SubSeq(a, from, to) \in Seq(S)
           /\ Len(SubSeq(a, from, to)) = IF from <= to THEN to - from + 1 ELSE 0
           /\ \A k \in 1..to - from + 1 : SubSeq(a, from, to)[k] = a[from + k - 1]
  OBVIOUS
-------------------------------------------------------------------------------
(* Induction and recursion *)

\* A set of naturals that is not empty has a least element.
LEMMA Least ==
    ASSUME NEW S \in SUBSET Nat, S # {}
    PROVE \E k \in S : \A j \in S : k <= j
  <1>1. PICK k \in S : \A j \in S : ~(<<j, k>> \in OpToRel(<, Nat))
    BY WFMin, NatLessThanWellFounded, Zenon
  <1>2. ASSUME NEW j \in S PROVE k <= j
    <2>1. j \in Nat /\ k \in Nat
      OBVIOUS
    <2>2. <<j, k>> \in Nat \X Nat /\ <<j, k>>[1] = j /\ <<j, k>>[2] = k
      BY <2>1
    <2>3. ~(j < k)
      BY <1>1, <2>2 DEF OpToRel
    <2> QED BY <2>1, <2>3
  <1> QED BY <1>2

\* Induction: a set of numbers that has 0 and the next of each of its numbers up to n.
LEMMA Climb ==
    ASSUME NEW n \in Nat, NEW T, 0 \in T, \A k \in 0..n - 1 : k \in T => k + 1 \in T
    PROVE  \A k \in 0..n : k \in T
  <1> DEFINE S == {k \in 0..n : k \notin T}
  <1>1. SUFFICES ASSUME S # {} PROVE FALSE
    OBVIOUS
  <1>2. PICK k \in S : \A j \in S : k <= j
    <2>1. S \in SUBSET Nat
      OBVIOUS
    <2> HIDE DEF S
    <2> QED BY <1>1, <2>1, Least
  <1>3. k \in 0..n /\ k \notin T /\ k # 0
    BY <1>2
  <1>4. k - 1 \in 0..n - 1 /\ k - 1 \in 0..n /\ ~(k <= k - 1) /\ k - 1 + 1 = k
    BY <1>3
  <1>5. k - 1 \in T
    BY <1>2, <1>4
  <1> QED BY <1>3, <1>4, <1>5

\* Induction over all numbers.
LEMMA ClimbForever ==
    ASSUME NEW T, 0 \in T, \A k \in Nat : k \in T => k + 1 \in T
    PROVE  \A k \in Nat : k \in T
  <1> SUFFICES ASSUME NEW n \in Nat PROVE n \in T
    OBVIOUS
  <1>1. \A k \in 0..n : k \in T
    BY Climb
  <1> QED BY <1>1

\* A function has a first value and comes from one value to the next by a step.
Steps(f, n, start, step) == f[0] = start /\ \A k \in 1..n : f[k] = step[k][f[k - 1]]
StepsForever(f, start, step) == f[0] = start /\ \A k \in Nat : f[k + 1] = step[f[k]]

\* A function defined by its first value and the step to the next one exists.
LEMMA Recursion ==
    ASSUME NEW S, NEW n \in Nat, NEW start \in S, NEW step \in [1..n -> [S -> S]]
    PROVE  \E f \in [0..n -> S] : Steps(f, n, start, step)
  <1> DEFINE Good(m, f) == f[0] = start /\ \A k \in 1..m : f[k] = step[k][f[k - 1]]
             T == {m \in 0..n : \E f \in [0..m -> S] : Good(m, f)}
  <1>1. 0 \in T
    <2> DEFINE f == [k \in 0..0 |-> start]
    <2>1. f \in [0..0 -> S] /\ Good(0, f)
      OBVIOUS
    <2>2. 0 \in 0..n
      OBVIOUS
    <2> HIDE DEF f
    <2> QED BY <2>1, <2>2
  <1>2. ASSUME NEW m \in 0..n - 1, m \in T PROVE m + 1 \in T
    <2>1. PICK g \in [0..m -> S] : Good(m, g)
      BY <1>2
    <2> DEFINE f == [k \in 0..m + 1 |-> IF k = m + 1 THEN step[m + 1][g[m]] ELSE g[k]]
    <2>2. m + 1 \in 1..n /\ m + 1 \in 0..n /\ m \in 0..m
      OBVIOUS
    <2>3. step[m + 1][g[m]] \in S
      BY <2>1, <2>2
    <2>4. f \in [0..m + 1 -> S]
      <3>1. ASSUME NEW k \in 0..m + 1 PROVE f[k] \in S
        BY <2>3
      <3> QED BY <3>1
    <2>5. f[0] = start
      BY <2>1
    <2>6. ASSUME NEW k \in 1..m + 1 PROVE f[k] = step[k][f[k - 1]]
      <3>1. k \in 0..m + 1 /\ k - 1 \in 0..m + 1 /\ k - 1 # m + 1
        OBVIOUS
      <3>2. f[k - 1] = g[k - 1]
        BY <3>1
      <3>3. CASE k = m + 1
        <4>1. f[k] = step[m + 1][g[m]] /\ k - 1 = m
          BY <3>1, <3>3
        <4> HIDE DEF f
        <4> QED BY <3>2, <3>3, <4>1
      <3>4. CASE k # m + 1
        <4>1. k \in 1..m /\ f[k] = g[k]
          BY <3>1, <3>4
        <4> HIDE DEF f
        <4> QED BY <2>1, <3>2, <4>1
      <3> QED BY <3>3, <3>4
    <2> HIDE DEF f
    <2>7. Good(m + 1, f)
      BY <2>5, <2>6
    <2> QED BY <2>2, <2>4, <2>7
  <1>3. n \in T
    <2> HIDE DEF T
    <2>1. \A k \in 0..n : k \in T
      BY <1>1, <1>2, Climb, Zenon
    <2> QED BY <2>1
  <1> QED BY <1>3 DEF Steps


\* A function on all numbers with a first value and one step exists.
LEMMA RecursionForever ==
    ASSUME NEW S, NEW start \in S, NEW step \in [S -> S]
    PROVE  \E f \in [Nat -> S] : StepsForever(f, start, step)
  <1> DEFINE Good(m, f) == f[0] = start /\ \A k \in 1..m : f[k] = step[f[k - 1]]
             part[m \in Nat] == CHOOSE f \in [0..m -> S] : Good(m, f)
             all == [k \in Nat |-> part[k][k]]
  <1>1. ASSUME NEW m \in Nat PROVE part[m] \in [0..m -> S] /\ Good(m, part[m])
    <2> DEFINE steps == [k \in 1..m |-> step]
    <2>1. steps \in [1..m -> [S -> S]] /\ \A k \in 1..m : steps[k] = step
      OBVIOUS
    <2> HIDE DEF steps
    <2>2. PICK f \in [0..m -> S] : Steps(f, m, start, steps)
      BY <2>1, Recursion
    <2>3. Good(m, f)
      BY <2>1, <2>2 DEF Steps
    <2> QED BY <2>3, Zenon
  <1> HIDE DEF part
  <1>2. ASSUME NEW m \in Nat PROVE \A k \in 0..m : part[m + 1][k] = part[m][k]
    <2> DEFINE T == {k \in 0..m : part[m + 1][k] = part[m][k]}
    <2>1. m + 1 \in Nat /\ 0 \in 0..m
      OBVIOUS
    <2>2. 0 \in T
      BY <1>1, <2>1
    <2>3. ASSUME NEW k \in 0..m - 1, k \in T PROVE k + 1 \in T
      <3>1. k + 1 \in 0..m /\ k + 1 \in 1..m /\ k + 1 \in 1..m + 1 /\ k + 1 - 1 = k
        OBVIOUS
      <3>2. part[m + 1][k + 1] = step[part[m + 1][k]] /\ part[m][k + 1] = step[part[m][k]]
        BY <1>1, <2>1, <3>1
      <3> QED BY <2>3, <3>1, <3>2
    <2> HIDE DEF T
    <2>4. \A k \in 0..m : k \in T
      BY <2>2, <2>3, Climb
    <2> QED BY <2>4 DEF T
  <1>3. all \in [Nat -> S] /\ all[0] = start
    <2>1. ASSUME NEW k \in Nat PROVE all[k] \in S
      <3>1. k \in 0..k
        OBVIOUS
      <3> QED BY <1>1, <3>1
    <2>2. all[0] = part[0][0] /\ 0 \in Nat
      OBVIOUS
    <2>3. part[0][0] = start
      BY <1>1, <2>2
    <2> QED BY <2>1, <2>2, <2>3
  <1>4. ASSUME NEW k \in Nat PROVE all[k + 1] = step[all[k]]
    <2>1. k + 1 \in Nat /\ k + 1 \in 1..k + 1 /\ k + 1 - 1 = k /\ k \in 0..k
      OBVIOUS
    <2>2. part[k + 1][k + 1] = step[part[k + 1][k]]
      BY <1>1, <2>1
    <2>3. part[k + 1][k] = part[k][k]
      BY <1>2, <2>1
    <2>4. all[k + 1] = part[k + 1][k + 1] /\ all[k] = part[k][k]
      BY <2>1
    <2> QED BY <2>2, <2>3, <2>4
  <1> HIDE DEF all
  <1>5. StepsForever(all, start, step)
    BY <1>3, <1>4 DEF StepsForever
  <1> QED BY <1>3, <1>5

-------------------------------------------------------------------------------
(* DogeShare: the block *)

\* A function on the first numbers is a sequence.
LEMMA FunctionIsSequence ==
    ASSUME NEW n \in Nat, NEW f, f = [k \in 1..n |-> f[k]]
    PROVE  f \in Seq({f[k] : k \in 1..n}) /\ Len(f) = n
  <1> DEFINE S == {f[k] : k \in 1..n}
  <1>1. f \in [1..n -> S]
    OBVIOUS
  <1> HIDE DEF S
  <1> QED BY <1>1 DEF S

\* A function on the first numbers is a sequence of its values.
LEMMA IsSequence ==
    ASSUME NEW S, NEW n \in Nat, NEW f \in [1..n -> S]
    PROVE  f \in Seq(S) /\ Len(f) = n /\ \A k \in 1..n : f[k] \in S
  OBVIOUS

\* The coinbase is the leftmost leaf.
LEMMA LeavesIs ==
    ASSUME NEW s, s.transactions \in Nat
    PROVE  Leaves(s) = [k \in 1..s.transactions + 1 |-> Leaves(s)[k]] /\ Leaves(s)[1] = Coinbase(s)
  <1> DEFINE n == s.transactions
             a == <<Coinbase(s)>>
             b == [k \in 1..n |-> doubleSHA256(<<<<k>>>>)]
             S == {Coinbase(s)} \cup {b[k] : k \in 1..n}
  <1>1. n \in Nat /\ a \in Seq(S) /\ Len(a) = 1 /\ a[1] = Coinbase(s)
    OBVIOUS
  <1>2. b \in [1..n -> S]
    BY Zenon
  <1>3. b \in Seq(S) /\ Len(b) = n
    <2> HIDE DEF S, b, n
    <2> QED BY <1>1, <1>2
  <1>4. Leaves(s) = a \o b
    BY DEF Leaves
  <1> HIDE DEF S, a, b, n
  <1> DEFINE c == a \o b
  <1>5. c \in Seq(S) /\ Len(c) = n + 1 /\ c[1] = a[1]
    <2>1. /\ c \in Seq(S) /\ Len(c) = Len(a) + Len(b)
          /\ \A k \in 1..Len(a) + Len(b) : c[k] = IF k <= Len(a) THEN a[k] ELSE b[k - Len(a)]
      BY <1>1, <1>3, ConcatIs, Zenon
    <2>2. Len(a) + Len(b) = n + 1 /\ 1 \in 1..Len(a) + Len(b) /\ 1 <= Len(a)
      BY <1>1, <1>3
    <2> HIDE DEF c
    <2> QED BY <2>1, <2>2
  <1> HIDE DEF c
  <1>6. c = [k \in 1..n + 1 |-> c[k]]
    BY <1>1, <1>5
  <1> QED BY <1>1, <1>4, <1>5, <1>6 DEF n, c

\* Each level is what the one below it says.
LEMMA LevelsIs ==
    ASSUME NEW s, s.transactions \in Nat
    PROVE  /\ Levels(s)[0] = Leaves(s)
           /\ \A h \in 1..s.transactions : Levels(s)[h] = Above(Levels(s)[h - 1])
  <1> DEFINE n == s.transactions
             body(f, h) == IF h = 0 THEN Leaves(s) ELSE Above(f[h - 1])
             Is(m, f) == f = [h \in 0..m |-> body(f, h)]
             T == {m \in Nat : \E f : Is(m, f)}
             l == Levels(s)
  <1>0. n \in Nat
    OBVIOUS
  <1>1. 0 \in T
    <2> DEFINE f == [h \in 0..0 |-> Leaves(s)]
    <2>1. \A h \in 0..0 : f[h] = body(f, h)
      OBVIOUS
    <2>2. f = [h \in 0..0 |-> f[h]]
      OBVIOUS
    <2> HIDE DEF f
    <2>3. Is(0, f)
      BY <2>1, <2>2
    <2> QED BY <2>3
  <1>2. ASSUME NEW m \in 0..n - 1, m \in T PROVE m + 1 \in T
    <2>1. PICK g : Is(m, g)
      BY <1>2
    <2> DEFINE f == [h \in 0..m + 1 |-> IF h = m + 1 THEN Above(g[m]) ELSE g[h]]
    <2>2. ASSUME NEW h \in 0..m + 1 PROVE f[h] = body(f, h)
      <3>1. CASE h = m + 1
        <4>1. h # 0 /\ h - 1 = m /\ m \in 0..m + 1 /\ m # m + 1
          BY <3>1
        <4>2. f[h] = Above(g[m]) /\ f[m] = g[m]
          BY <3>1, <4>1
        <4> HIDE DEF f
        <4> QED BY <4>1, <4>2
      <3>2. CASE h # m + 1
        <4>1. h \in 0..m /\ (h # 0 => h - 1 \in 0..m + 1 /\ h - 1 # m + 1)
          BY <3>2
        <4>2. f[h] = g[h] /\ (h # 0 => f[h - 1] = g[h - 1])
          BY <3>2, <4>1
        <4>3. g[h] = body(g, h)
          BY <2>1, <4>1
        <4> HIDE DEF f
        <4> QED BY <4>2, <4>3
      <3> QED BY <3>1, <3>2
    <2>3. f = [h \in 0..m + 1 |-> f[h]]
      OBVIOUS
    <2> HIDE DEF f
    <2>4. Is(m + 1, f)
      BY <2>2, <2>3, Zenon
    <2> QED BY <2>4
  <1>3. n \in T
    <2> HIDE DEF T, n
    <2>1. \A k \in 0..n : k \in T
      BY <1>0, <1>1, <1>2, Climb
    <2> QED BY <1>0, <2>1
  <1>4. Is(n, l)
    BY <1>3 DEF Levels
  <1> HIDE DEF l, n
  <1>5. l[0] = Leaves(s)
    <2>1. 0 \in 0..n
      BY <1>0
    <2> QED BY <1>4, <2>1
  <1>6. ASSUME NEW h \in 1..n PROVE l[h] = Above(l[h - 1])
    <2>1. h \in 0..n /\ h # 0
      BY <1>0
    <2> QED BY <1>4, <2>1, Zenon
  <1> QED BY <1>5, <1>6 DEF l, n

\* A level is a sequence of half as many hashes, rounded up, as the one below.
LEMMA AboveIs ==
    ASSUME NEW n \in Nat \ {0}, NEW x, x = [k \in 1..n |-> x[k]]
    PROVE  /\ (n + 1) \div 2 \in Nat \ {0} /\ (n >= 2 => (n + 1) \div 2 < n)
           /\ Above(x) = [k \in 1..(n + 1) \div 2 |-> Above(x)[k]]
           /\ n >= 2 => Above(x)[1] = doubleSHA256(<<x[1], x[2]>>)
  <1> DEFINE m == (n + 1) \div 2
  <1>1. Len(x) = n
    BY FunctionIsSequence
  <1>2. m \in Nat \ {0} /\ (n >= 2 => m < n)
    OBVIOUS
  <1>3. Above(x) = [k \in 1..m |->
                       doubleSHA256(<<x[2 * k - 1], x[IF 2 * k <= n THEN 2 * k ELSE 2 * k - 1]>>)]
    BY <1>1 DEF Above
  <1> HIDE DEF m
  <1>4. 1 \in 1..m
    BY <1>2
  <1>5. ASSUME n >= 2 PROVE Above(x)[1] = doubleSHA256(<<x[1], x[2]>>)
    <2>1. 2 * 1 - 1 = 1 /\ 2 * 1 = 2 /\ 2 * 1 <= n
      BY <1>5
    <2>2. Above(x)[1] = doubleSHA256(<<x[2 * 1 - 1], x[IF 2 * 1 <= n THEN 2 * 1 ELSE 2 * 1 - 1]>>)
      BY <1>3, <1>4, Zenon
    <2> QED BY <2>1, <2>2
  <1> QED BY <1>2, <1>3, <1>5 DEF m

\* A level has fewer hashes than the one below it, down to one.
LEMMA LevelLength ==
    ASSUME NEW s, s.transactions \in Nat, NEW h \in 0..s.transactions
    PROVE  \E n \in Nat \ {0} : /\ Levels(s)[h] = [k \in 1..n |-> Levels(s)[h][k]]
                                /\ n = 1 \/ n + h <= s.transactions + 1
  <1> DEFINE t == s.transactions
             l == Levels(s)
             Shrinks(n, g) == l[g] = [k \in 1..n |-> l[g][k]] /\ (n = 1 \/ n + g <= t + 1)
             T == {g \in Nat : \E n \in Nat \ {0} : Shrinks(n, g)}
  <1>0. t \in Nat /\ l[0] = Leaves(s) /\ \A g \in 1..t : l[g] = Above(l[g - 1])
    BY LevelsIs
  <1>1. 0 \in T
    <2>1. Leaves(s) = [k \in 1..t + 1 |-> Leaves(s)[k]]
      BY LeavesIs
    <2> HIDE DEF l, t
    <2>2. t + 1 \in Nat \ {0} /\ Shrinks(t + 1, 0)
      BY <1>0, <2>1
    <2> QED BY <2>2, Zenon
  <1> HIDE DEF l
  <1>2. ASSUME NEW g \in 0..t - 1, g \in T PROVE g + 1 \in T
    <2>1. PICK n \in Nat \ {0} : Shrinks(n, g)
      BY <1>2, Zenon
    <2> DEFINE m == (n + 1) \div 2
               x == l[g]
    <2>2. g + 1 \in 1..t /\ (g + 1) - 1 = g /\ g \in Nat /\ t \in Nat
      BY <1>0
    <2>3. l[g + 1] = Above(x)
      BY <1>0, <2>2
    <2>4. x = [k \in 1..n |-> x[k]]
      BY <2>1
    <2> HIDE DEF x
    <2>5. m \in Nat \ {0} /\ (n >= 2 => m < n) /\ Above(x) = [k \in 1..m |-> Above(x)[k]]
      BY <2>4, AboveIs, Zenon
    <2>6. n = 1 => m = 1
      OBVIOUS
    <2> HIDE DEF m, t
    <2>7. m = 1 \/ m + (g + 1) <= t + 1
      <3>1. n = 1 \/ n + g <= t + 1
        BY <2>1
      <3>2. m \in Nat /\ (n >= 2 => m < n)
        BY <2>5
      <3>3. CASE n = 1
        BY <2>6, <3>3
      <3>4. CASE n # 1
        BY <2>2, <3>1, <3>2, <3>4
      <3> QED BY <3>3, <3>4
    <2>8. Shrinks(m, g + 1)
      BY <2>3, <2>5, <2>7
    <2> HIDE DEF Shrinks
    <2>9. \E k \in Nat \ {0} : Shrinks(k, g + 1)
      BY <2>5, <2>8
    <2> QED BY <2>2, <2>9
  <1>3. h \in T
    <2> HIDE DEF T, t
    <2>1. \A k \in 0..t : k \in T
      BY <1>0, <1>1, <1>2, Climb
    <2> QED BY <2>1 DEF t
  <1> QED BY <1>3, Zenon DEF l

\* The tree ends in a single hash; every level below it has two hashes or more.
LEMMA HeightIs ==
    ASSUME NEW s, s.transactions \in Nat
    PROVE  /\ Height(s) \in 0..s.transactions
           /\ \A g \in 0..Height(s) - 1 :
                 \E n \in Nat : n >= 2 /\ Levels(s)[g] = [k \in 1..n |-> Levels(s)[g][k]]
  <1> DEFINE t == s.transactions
             l == Levels(s)
             S == {h \in 0..t : Len(l[h]) = 1}
             Top(h) == Len(l[h]) = 1 /\ \A g \in 0..h - 1 : Len(l[g]) # 1
  <1>0. t \in Nat
    OBVIOUS
  <1>1. ASSUME NEW h \in 0..t
        PROVE  \E n \in Nat \ {0} : /\ l[h] = [k \in 1..n |-> l[h][k]] /\ Len(l[h]) = n
                                    /\ n = 1 \/ n + h <= t + 1
    <2>1. PICK n \in Nat \ {0} : l[h] = [k \in 1..n |-> l[h][k]] /\ (n = 1 \/ n + h <= t + 1)
      BY LevelLength, Zenon
    <2> HIDE DEF l
    <2>2. Len(l[h]) = n
      BY <2>1, FunctionIsSequence
    <2> QED BY <2>1, <2>2
  <1> HIDE DEF l
  <1>2. t \in S
    <2>1. t \in 0..t
      BY <1>0
    <2>2. PICK n \in Nat \ {0} : Len(l[t]) = n /\ (n = 1 \/ n + t <= t + 1)
      BY <1>1, <2>1, Zenon
    <2>3. n = 1
      BY <1>0, <2>2
    <2> QED BY <2>1, <2>2, <2>3
  <1>3. PICK h \in S : \A j \in S : h <= j
    <2>1. S \in SUBSET Nat
      BY <1>0
    <2> HIDE DEF S
    <2> QED BY <1>2, <2>1, Least
  <1>4. h \in 0..t /\ Top(h)
    <2>1. h \in 0..t /\ Len(l[h]) = 1
      OBVIOUS
    <2>2. ASSUME NEW g \in 0..h - 1 PROVE Len(l[g]) # 1
      <3>1. g \in 0..t /\ ~(h <= g)
        BY <1>0, <2>1
      <3> QED BY <1>3, <3>1
    <2> QED BY <2>1, <2>2
  <1>5. Height(s) \in 0..t /\ Top(Height(s))
    BY <1>4 DEF Height, l
  <1> DEFINE H == Height(s)
  <1> HIDE DEF H
  <1>6. H \in 0..t /\ Top(H)
    BY <1>5 DEF H
  <1>7. ASSUME NEW g \in 0..H - 1
        PROVE  \E n \in Nat : n >= 2 /\ l[g] = [k \in 1..n |-> l[g][k]]
    <2>1. g \in 0..t /\ Len(l[g]) # 1
      BY <1>0, <1>6
    <2>2. PICK n \in Nat \ {0} : l[g] = [k \in 1..n |-> l[g][k]] /\ Len(l[g]) = n
      BY <1>1, <2>1, Zenon
    <2>3. n \in Nat /\ n >= 2
      BY <2>1, <2>2
    <2> QED BY <2>2, <2>3
  <1> QED BY <1>6, <1>7, Zenon DEF H, l

\* The branch has one hash for each level below the root.
LEMMA BranchIs ==
    ASSUME NEW s, s.transactions \in Nat
    PROVE  /\ Height(s) \in Nat /\ Len(Branch(s)) = Height(s)
           /\ Branch(s) = [h \in 1..Height(s) |-> <<Levels(s)[h - 1][2]>>]
  <1>1. Height(s) \in Nat
    BY HeightIs
  <1>2. Branch(s) = [h \in 1..Height(s) |-> Branch(s)[h]]
    BY DEF Branch
  <1>3. Len(Branch(s)) = Height(s)
    BY <1>1, <1>2, FunctionIsSequence
  <1> QED BY <1>1, <1>3 DEF Branch

\* Two cells one after the other.
LEMMA TwoCells == \A x, y : <<x>> \o <<y>> = <<x, y>>
  <1> SUFFICES ASSUME NEW x, NEW y PROVE <<x>> \o <<y>> = <<x, y>>
    BY Zenon
  <1> DEFINE S == {x, y}
             a == <<x>>
             b == <<y>>
             c == a \o b
             d == <<x, y>>
  <1>1. /\ a \in Seq(S) /\ Len(a) = 1 /\ a[1] = x /\ b \in Seq(S) /\ Len(b) = 1 /\ b[1] = y
        /\ d \in Seq(S) /\ Len(d) = 2 /\ d[1] = x /\ d[2] = y
    OBVIOUS
  <1> HIDE DEF S, a, b, d
  <1>2. /\ c \in Seq(S) /\ Len(c) = Len(a) + Len(b)
        /\ \A k \in 1..Len(a) + Len(b) : c[k] = IF k <= Len(a) THEN a[k] ELSE b[k - Len(a)]
    BY <1>1, ConcatIs
  <1> HIDE DEF c
  <1>3. Len(c) = Len(d) /\ \A k \in 1..Len(c) : c[k] = d[k]
    BY <1>1, <1>2
  <1>4. c = d
    BY <1>1, <1>2, <1>3, SameElements
  <1> QED BY <1>4 DEF a, b, c, d

\* The hashes of the loop are the leftmost ones of the levels, up to the root.
LEMMA RootFound ==
    ASSUME NEW s, s.transactions \in Nat,
           NEW coinbase, doubleSHA256(coinbase) = Coinbase(s)
    PROVE  Hashes(coinbase, Branch(s))[Len(Branch(s))] = Root(s)
  <1> DEFINE H == Height(s)
             l == Levels(s)
             b == Branch(s)
             body(f, k) == doubleSHA256(IF k = 0 THEN coinbase ELSE <<f[k - 1]>> \o b[k])
             Is(f) == f = [k \in 0..H |-> body(f, k)]
             left == [k \in 0..H |-> l[k][1]]
             x == Hashes(coinbase, b)
  <1>0. H \in Nat /\ H \in 0..s.transactions /\ Len(b) = H /\ \A h \in 1..H : b[h] = <<l[h - 1][2]>>
    BY BranchIs, HeightIs
  <1>1. l[0][1] = Coinbase(s)
    BY LevelsIs, LeavesIs
  <1>2. ASSUME NEW h \in 1..H PROVE l[h][1] = doubleSHA256(<<l[h - 1][1]>> \o b[h])
    <2>1. h \in 1..s.transactions /\ h - 1 \in 0..H - 1
      BY <1>0
    <2> DEFINE y == l[h - 1]
    <2>2. l[h] = Above(y)
      BY <2>1, LevelsIs
    <2>3. PICK n \in Nat : n >= 2 /\ y = [k \in 1..n |-> y[k]]
      BY <2>1, HeightIs, Zenon
    <2>4. <<y[1]>> \o b[h] = <<y[1], y[2]>>
      <3>1. b[h] = <<y[2]>>
        BY <1>0
      <3> HIDE DEF b, y
      <3> QED BY <3>1, TwoCells
    <2> HIDE DEF y, b, l
    <2>5. Above(y)[1] = doubleSHA256(<<y[1], y[2]>>)
      <3>1. n \in Nat \ {0}
        BY <2>3
      <3> QED BY <2>3, <3>1, AboveIs, Zenon
    <2> QED BY <2>2, <2>4, <2>5, Zenon DEF y
  <1> HIDE DEF b, l, H
  <1>3. Is(left)
    <2>1. ASSUME NEW k \in 0..H PROVE left[k] = body(left, k)
      <3>1. CASE k = 0
        BY <1>1, <3>1
      <3>2. CASE k # 0
        <4>1. k \in 1..H /\ k - 1 \in 0..H
          BY <1>0, <3>2
        <4>2. left[k] = l[k][1] /\ left[k - 1] = l[k - 1][1]
          BY <4>1
        <4> HIDE DEF left
        <4> QED BY <1>2, <3>2, <4>1, <4>2
      <3> QED BY <3>1, <3>2
    <2>2. left = [k \in 0..H |-> left[k]]
      OBVIOUS
    <2> HIDE DEF left
    <2> QED BY <2>1, <2>2
  <1>4. Is(x)
    <2> HIDE DEF left
    <2>1. \E f : Is(f)
      BY <1>3, Zenon
    <2> QED BY <1>0, <2>1, Zenon DEF Hashes
  <1> HIDE DEF x
  <1>5. x[H] = left[H]
    <2> DEFINE T == {k \in Nat : x[k] = left[k]}
    <2> HIDE DEF left
    <2>1. 0 \in T
      <3>1. 0 \in 0..H
        BY <1>0
      <3> QED BY <1>3, <1>4, <3>1
    <2>2. ASSUME NEW k \in 0..H - 1, k \in T PROVE k + 1 \in T
      <3>1. k + 1 \in 0..H /\ k + 1 # 0 /\ (k + 1) - 1 = k /\ k + 1 \in Nat
        BY <1>0
      <3>2. x[k + 1] = body(x, k + 1) /\ left[k + 1] = body(left, k + 1)
        BY <1>3, <1>4, <3>1, Zenon
      <3>3. x[k] = left[k]
        BY <2>2
      <3> QED BY <3>1, <3>2, <3>3
    <2>3. H \in T
      <3> HIDE DEF T
      <3>1. \A k \in 0..H : k \in T
        BY <1>0, <2>1, <2>2, Climb, Zenon
      <3> QED BY <1>0, <3>1
    <2> QED BY <2>3
  <1>6. left[H] = l[H][1]
    BY <1>0
  <1> QED BY <1>0, <1>5, <1>6 DEF Root, x, l, H, b
-------------------------------------------------------------------------------
(* DogeShare: the query *)

\* One sequence after another.
InOrder(u, v, w) ==
    /\ Len(w) = Len(u) + Len(v) /\ Len(u) \in Nat /\ Len(v) \in Nat
    /\ \A k \in 1..Len(u) : w[k] = u[k]
    /\ \A k \in 1..Len(v) : w[Len(u) + k] = v[k]

\* Concatenation puts one sequence after the other (vector::insert).
LEMMA ConcatAt ==
    ASSUME NEW S, NEW u \in Seq(S), NEW v \in Seq(S), NEW w, w = u \o v
    PROVE  w \in Seq(S) /\ InOrder(u, v, w)
  <1>1. /\ w \in Seq(S) /\ Len(w) = Len(u) + Len(v)
        /\ \A k \in 1..Len(u) + Len(v) : w[k] = IF k <= Len(u) THEN u[k] ELSE v[k - Len(u)]
    BY ConcatIs
  <1>2. Len(u) \in Nat /\ Len(v) \in Nat
    OBVIOUS
  <1> DEFINE m == Len(u)
             n == Len(v)
  <1> HIDE DEF m, n
  <1>3. ASSUME NEW k \in 1..m PROVE w[k] = u[k]
    <2>1. k \in 1..m + n /\ k <= m
      BY <1>2 DEF m, n
    <2> QED BY <1>1, <2>1 DEF m, n
  <1>4. ASSUME NEW k \in 1..n PROVE w[m + k] = v[k]
    <2>1. m + k \in 1..m + n /\ ~(m + k <= m) /\ (m + k) - m = k
      BY <1>2 DEF m, n
    <2>2. w[m + k] = v[(m + k) - m]
      BY <1>1, <2>1 DEF m, n
    <2> QED BY <2>1, <2>2
  <1> QED BY <1>1, <1>2, <1>3, <1>4 DEF InOrder, m, n

\* Five sequences one after the other: where each of them is.
Laid(x, a, b, c, d, e, i, j, m, n) ==
    /\ Len(x) = n + Len(e)
    /\ \A k \in 1..Len(a) : x[k] = a[k]
    /\ \A k \in 1..Len(b) : x[i + k] = b[k]
    /\ \A k \in 1..Len(c) : x[j + k] = c[k]
    /\ \A k \in 1..Len(d) : x[m + k] = d[k]
    /\ \A k \in 1..Len(e) : x[n + k] = e[k]

\* The parts of additionalData are where the sizes of the query say.
LEMMA AreaIs ==
    ASSUME NEW S, NEW a \in Seq(S), NEW b \in Seq(S), NEW c \in Seq(S), NEW d \in Seq(S),
           NEW e \in Seq(S), NEW x, x = a \o b \o c \o d \o e,
           NEW i, NEW j, NEW m, NEW n, i = Len(a), j = i + Len(b), m = j + Len(c), n = m + Len(d)
    PROVE  Laid(x, a, b, c, d, e, i, j, m, n)
  <1> DEFINE p == a \o b
             q == p \o c
             r == q \o d
  <1>1. /\ p \in Seq(S) /\ Len(p) = j /\ i \in Nat /\ Len(b) \in Nat
        /\ \A k \in 1..i : p[k] = a[k]
        /\ \A k \in 1..Len(b) : p[i + k] = b[k]
    <2>1. p = a \o b
      OBVIOUS
    <2> HIDE DEF p
    <2>2. p \in Seq(S) /\ InOrder(a, b, p)
      BY <2>1, ConcatAt, Zenon
    <2> QED BY <2>2 DEF InOrder
  <1> HIDE DEF p
  <1>2. /\ q \in Seq(S) /\ Len(q) = m /\ j \in Nat /\ Len(c) \in Nat
        /\ \A k \in 1..j : q[k] = p[k]
        /\ \A k \in 1..Len(c) : q[j + k] = c[k]
    <2>1. q = p \o c
      OBVIOUS
    <2> HIDE DEF q
    <2>2. q \in Seq(S) /\ InOrder(p, c, q)
      BY <1>1, <2>1, ConcatAt, Zenon
    <2> QED BY <1>1, <2>2, Zenon DEF InOrder
  <1> HIDE DEF q
  <1>3. /\ r \in Seq(S) /\ Len(r) = n /\ m \in Nat /\ Len(d) \in Nat
        /\ \A k \in 1..m : r[k] = q[k]
        /\ \A k \in 1..Len(d) : r[m + k] = d[k]
    <2>1. r = q \o d
      OBVIOUS
    <2> HIDE DEF r
    <2>2. r \in Seq(S) /\ InOrder(q, d, r)
      BY <1>2, <2>1, ConcatAt, Zenon
    <2> QED BY <1>2, <2>2 DEF InOrder
  <1> HIDE DEF r
  <1>4. x = r \o e
    BY DEF p, q, r
  <1>5. /\ x \in Seq(S) /\ Len(x) = n + Len(e) /\ n \in Nat /\ Len(e) \in Nat
        /\ \A k \in 1..n : x[k] = r[k]
        /\ \A k \in 1..Len(e) : x[n + k] = e[k]
    <2>1. x \in Seq(S) /\ InOrder(r, e, x)
      BY <1>3, <1>4, ConcatAt, Zenon
    <2> QED BY <1>3, <2>1, Zenon DEF InOrder
  <1>6. /\ j = i + Len(b) /\ m = j + Len(c) /\ n = m + Len(d)
        /\ i \in Nat /\ j \in Nat /\ m \in Nat /\ n \in Nat
        /\ Len(b) \in Nat /\ Len(c) \in Nat /\ Len(d) \in Nat
    BY <1>1, <1>2, <1>3, <1>5
  <1>7. ASSUME NEW k \in 1..i PROVE x[k] = a[k]
    <2>1. k \in 1..j /\ k \in 1..m /\ k \in 1..n
      BY <1>6
    <2> QED BY <1>1, <1>2, <1>3, <1>5, <2>1
  <1>8. ASSUME NEW k \in 1..Len(b) PROVE x[i + k] = b[k]
    <2>1. i + k \in 1..j /\ i + k \in 1..m /\ i + k \in 1..n
      BY <1>6
    <2> QED BY <1>1, <1>2, <1>3, <1>5, <2>1
  <1>9. ASSUME NEW k \in 1..Len(c) PROVE x[j + k] = c[k]
    <2>1. j + k \in 1..m /\ j + k \in 1..n
      BY <1>6
    <2> QED BY <1>2, <1>3, <1>5, <2>1
  <1>10. ASSUME NEW k \in 1..Len(d) PROVE x[m + k] = d[k]
    <2>1. m + k \in 1..n
      BY <1>6
    <2> QED BY <1>3, <1>5, <2>1
  <1> QED BY <1>5, <1>7, <1>8, <1>9, <1>10, Zenon DEF Laid

\* A part that is taken out of an area is what was put there.
LEMMA TakenOut ==
    ASSUME NEW S, NEW x \in Seq(S), NEW cells, NEW from \in Nat, NEW to, to = from + Len(x),
           \A k \in 1..Len(x) : cells[from + k] = x[k]
    PROVE  SubSeq(cells, from + 1, to) = x
  <1> DEFINE n == Len(x)
             y == SubSeq(cells, from + 1, to)
  <1>0. n \in Nat /\ to = from + n /\ from + 1 \in Int /\ to \in Int
    OBVIOUS
  <1>1. \A k \in 1..n : cells[from + k] = x[k] /\ x[k] \in S
    OBVIOUS
  <1> HIDE DEF n
  <1>2. ASSUME NEW i \in from + 1..to PROVE cells[i] \in S
    <2>1. i - from \in 1..n /\ from + (i - from) = i
      BY <1>0
    <2>2. cells[from + (i - from)] \in S
      BY <1>1, <2>1
    <2> QED BY <2>1, <2>2
  <1>3. /\ y \in Seq(S)
        /\ Len(y) = IF from + 1 <= to THEN to - (from + 1) + 1 ELSE 0
        /\ \A i \in 1..to - (from + 1) + 1 : y[i] = cells[(from + 1) + i - 1]
    BY <1>0, <1>2, PartIs
  <1> HIDE DEF y
  <1>4. Len(y) = n
    BY <1>0, <1>3
  <1>5. ASSUME NEW i \in 1..n PROVE y[i] = x[i]
    <2>0. to - (from + 1) + 1 = n
      BY <1>0
    <2>1. i \in 1..to - (from + 1) + 1 /\ (from + 1) + i - 1 = from + i
      BY <2>0
    <2>2. y[i] = cells[(from + 1) + i - 1]
      BY <1>3, <2>1
    <2> QED BY <1>1, <2>1, <2>2
  <1>6. y = x
    BY <1>3, <1>4, <1>5, SameElements, Zenon DEF n
  <1> QED BY <1>6 DEF y
-------------------------------------------------------------------------------
(* DogeShare: sums and numbers *)

\* The sums of the first numbers of a sequence.
LEMMA SumsIs ==
    ASSUME NEW numbers \in Seq(Nat)
    PROVE  /\ Sums(numbers) \in [0..Len(numbers) -> Nat] /\ Sums(numbers)[0] = 0
           /\ \A k \in 1..Len(numbers) : Sums(numbers)[k] = Sums(numbers)[k - 1] + numbers[k]
  <1> DEFINE n == Len(numbers)
             term == [k \in 1..n |-> numbers[k]]
             step == [k \in 1..n |-> [x \in Nat |-> x + term[k]]]
             body(f, k) == IF k = 0 THEN 0 ELSE f[k - 1] + numbers[k]
             Is(f) == f = [k \in 0..n |-> body(f, k)]
             s == Sums(numbers)
  <1>0. n \in Nat /\ 0 \in Nat
    OBVIOUS
  <1>1. term \in [1..n -> Nat] /\ \A k \in 1..n : term[k] = numbers[k]
    OBVIOUS
  <1> HIDE DEF n, term
  <1>2. /\ step \in [1..n -> [Nat -> Nat]]
        /\ \A k \in 1..n, x \in Nat : step[k][x] = x + term[k] /\ step[k][x] \in Nat
    BY <1>0, <1>1
  <1> HIDE DEF step
  <1>3. ASSUME NEW k \in 1..n, NEW f, f[k - 1] \in Nat PROVE body(f, k) = step[k][f[k - 1]]
    <2>1. k # 0
      BY <1>0
    <2> QED BY <1>1, <1>2, <1>3, <2>1, Zenon
  <1>4. \E f : Is(f)
    <2>1. PICK f \in [0..n -> Nat] : Steps(f, n, 0, step)
      BY <1>0, <1>2, Recursion, Zenon
    <2>2. f[0] = 0 /\ \A k \in 1..n : f[k] = step[k][f[k - 1]]
      BY <2>1 DEF Steps
    <2>3. ASSUME NEW k \in 0..n PROVE f[k] = body(f, k)
      <3>1. CASE k = 0
        BY <2>2, <3>1
      <3>2. CASE k # 0
        <4>1. k \in 1..n /\ k - 1 \in 0..n
          BY <1>0, <3>2
        <4>2. f[k - 1] \in Nat
          BY <4>1
        <4>3. body(f, k) = step[k][f[k - 1]]
          BY <1>3, <4>1, <4>2, Zenon
        <4> HIDE DEF body
        <4> QED BY <2>2, <4>1, <4>3
      <3> QED BY <3>1, <3>2
    <2>4. f = [k \in 0..n |-> f[k]]
      OBVIOUS
    <2> HIDE DEF body
    <2>5. Is(f)
      BY <2>3, <2>4
    <2> QED BY <2>5
  <1>5. Is(s)
    BY <1>4, Zenon DEF Sums, n
  <1> HIDE DEF s
  <1>6. s[0] = 0
    <2>1. 0 \in 0..n
      BY <1>0
    <2> QED BY <1>5, <2>1
  <1>7. ASSUME NEW k \in 1..n PROVE s[k] = body(s, k)
    <2>1. k \in 0..n
      BY <1>0
    <2> QED BY <1>5, <2>1, Zenon
  <1>8. \A k \in 0..n : s[k] \in Nat
    <2> DEFINE T == {k \in Nat : s[k] \in Nat}
    <2>1. 0 \in T
      BY <1>0, <1>6
    <2>2. ASSUME NEW k \in 0..n - 1, k \in T PROVE k + 1 \in T
      <3>1. k + 1 \in 1..n /\ (k + 1) - 1 = k /\ k + 1 \in Nat
        BY <1>0
      <3>2. s[(k + 1) - 1] \in Nat
        BY <2>2, <3>1
      <3>3. body(s, k + 1) = step[k + 1][s[(k + 1) - 1]]
        BY <1>3, <3>1, <3>2
      <3> HIDE DEF body
      <3> QED BY <1>2, <1>7, <3>1, <3>2, <3>3
    <2> HIDE DEF T
    <2>3. \A k \in 0..n : k \in T
      BY <1>0, <2>1, <2>2, Climb
    <2> QED BY <2>3 DEF T
  <1>9. s \in [0..n -> Nat]
    BY <1>5, <1>8
  <1>10. ASSUME NEW k \in 1..n PROVE s[k] = s[k - 1] + numbers[k]
    BY <1>0, <1>7
  <1> QED BY <1>6, <1>9, <1>10 DEF s, n

\* What the loop over the first bytes of extraNonce2 has after each of them.
LEMMA ShiftedIs ==
    ASSUME NEW cells \in Seq(Cell), Len(cells) >= IndexBytes
    PROVE  /\ Shifted(cells) \in [0..IndexBytes -> Int] /\ Shifted(cells)[0] = 0
           /\ \A k \in 1..IndexBytes : Shifted(cells)[k] = Shifted(cells)[k - 1] * Radix + cells[k][1]
  <1> DEFINE n == IndexBytes
             term == [k \in 1..n |-> cells[k][1]]
             step == [k \in 1..n |-> [x \in Int |-> x * Radix + term[k]]]
             body(f, k) == IF k = 0 THEN 0 ELSE f[k - 1] * Radix + cells[k][1]
             Is(f) == f = [k \in 0..n |-> body(f, k)]
             s == Shifted(cells)
  <1>0. n \in Nat /\ 0 \in Int /\ Radix \in Int
    BY ShareAssumption
  <1>1. term \in [1..n -> Int] /\ \A k \in 1..n : term[k] = cells[k][1]
    <2>1. ASSUME NEW k \in 1..n PROVE cells[k][1] \in Int
      <3>1. k \in 1..Len(cells)
        BY <1>0
      <3>2. cells[k] \in Cell
        BY <3>1
      <3> QED BY <3>2 DEF Cell
    <2> QED BY <2>1
  <1> HIDE DEF n, term
  <1>2. /\ step \in [1..n -> [Int -> Int]]
        /\ \A k \in 1..n, x \in Int : step[k][x] = x * Radix + term[k] /\ step[k][x] \in Int
    BY <1>0, <1>1
  <1> HIDE DEF step
  <1>3. ASSUME NEW k \in 1..n, NEW f, f[k - 1] \in Int PROVE body(f, k) = step[k][f[k - 1]]
    <2>1. k # 0
      BY <1>0
    <2> QED BY <1>1, <1>2, <1>3, <2>1
  <1>4. \E f : Is(f)
    <2>1. PICK f \in [0..n -> Int] : Steps(f, n, 0, step)
      BY <1>0, <1>2, Recursion, Zenon
    <2>2. f[0] = 0 /\ \A k \in 1..n : f[k] = step[k][f[k - 1]]
      BY <2>1 DEF Steps
    <2>3. ASSUME NEW k \in 0..n PROVE f[k] = body(f, k)
      <3>1. CASE k = 0
        BY <2>2, <3>1
      <3>2. CASE k # 0
        <4>1. k \in 1..n /\ k - 1 \in 0..n
          BY <1>0, <3>2
        <4>2. f[k - 1] \in Int
          BY <4>1
        <4>3. body(f, k) = step[k][f[k - 1]]
          BY <1>3, <4>1, <4>2, Zenon
        <4> HIDE DEF body
        <4> QED BY <2>2, <4>1, <4>3
      <3> QED BY <3>1, <3>2
    <2>4. f = [k \in 0..n |-> f[k]]
      OBVIOUS
    <2> HIDE DEF body
    <2>5. Is(f)
      BY <2>3, <2>4
    <2> QED BY <2>5
  <1>5. Is(s)
    BY <1>4, Zenon DEF Shifted, n
  <1> HIDE DEF s
  <1>6. s[0] = 0
    <2>1. 0 \in 0..n
      BY <1>0
    <2> QED BY <1>5, <2>1
  <1>7. ASSUME NEW k \in 1..n PROVE s[k] = body(s, k)
    <2>1. k \in 0..n
      BY <1>0
    <2> QED BY <1>5, <2>1, Zenon
  <1>8. \A k \in 0..n : s[k] \in Int
    <2> DEFINE T == {k \in Nat : s[k] \in Int}
    <2>1. 0 \in T
      BY <1>0, <1>6
    <2>2. ASSUME NEW k \in 0..n - 1, k \in T PROVE k + 1 \in T
      <3>1. k + 1 \in 1..n /\ (k + 1) - 1 = k /\ k + 1 \in Nat
        BY <1>0
      <3>2. s[(k + 1) - 1] \in Int
        BY <2>2, <3>1
      <3>3. body(s, k + 1) = step[k + 1][s[(k + 1) - 1]]
        BY <1>3, <3>1, <3>2
      <3> HIDE DEF body
      <3> QED BY <1>2, <1>7, <3>1, <3>2, <3>3
    <2> HIDE DEF T
    <2>3. \A k \in 0..n : k \in T
      BY <1>0, <2>1, <2>2, Climb
    <2> QED BY <2>3 DEF T
  <1>9. s \in [0..n -> Int]
    BY <1>5, <1>8
  <1>10. ASSUME NEW k \in 1..n PROVE s[k] = s[k - 1] * Radix + cells[k][1]
    BY <1>0, <1>7
  <1> QED BY <1>6, <1>9, <1>10 DEF s, n

\* The value of a place.
LEMMA PlaceValueIs ==
    /\ PlaceValue \in [Nat -> Nat \ {0}] /\ PlaceValue[0] = 1
    /\ \A k \in Nat : PlaceValue[k + 1] = Radix * PlaceValue[k]
  <1> DEFINE step == [x \in Nat |-> Radix * x]
             Is(f) == f = [k \in Nat |-> IF k = 0 THEN 1 ELSE Radix * f[k - 1]]
  <1>0. Radix \in Nat \ {0}
    BY ShareAssumption
  <1>1. step \in [Nat -> Nat] /\ 1 \in Nat /\ \A x \in Nat : step[x] = Radix * x
    BY <1>0
  <1>2. \E f : Is(f)
    <2> HIDE DEF step
    <2>1. PICK f \in [Nat -> Nat] : StepsForever(f, 1, step)
      BY <1>1, RecursionForever, Zenon
    <2>2. f[0] = 1 /\ \A k \in Nat : f[k + 1] = step[f[k]]
      BY <2>1 DEF StepsForever
    <2>3. ASSUME NEW k \in Nat PROVE f[k] = IF k = 0 THEN 1 ELSE Radix * f[k - 1]
      <3>1. CASE k = 0
        BY <2>2, <3>1
      <3>2. CASE k # 0
        <4>1. k - 1 \in Nat /\ (k - 1) + 1 = k
          BY <3>2
        <4>2. f[(k - 1) + 1] = step[f[k - 1]] /\ f[k - 1] \in Nat
          BY <2>2, <4>1
        <4> QED BY <1>1, <3>2, <4>1, <4>2
      <3> QED BY <3>1, <3>2
    <2>4. f = [k \in Nat |-> f[k]]
      OBVIOUS
    <2>5. Is(f)
      BY <2>3, <2>4
    <2> QED BY <2>5
  <1>3. Is(PlaceValue)
    BY <1>2 DEF PlaceValue
  <1>4. PlaceValue[0] = 1 /\ \A k \in Nat : PlaceValue[k + 1] = Radix * PlaceValue[k]
    <2>1. ASSUME NEW k \in Nat PROVE PlaceValue[k + 1] = Radix * PlaceValue[k]
      <3>1. k + 1 \in Nat /\ k + 1 # 0 /\ (k + 1) - 1 = k
        OBVIOUS
      <3> QED BY <1>3, <3>1
    <2> QED BY <1>3, <2>1
  <1>5. \A k \in Nat : PlaceValue[k] \in Nat \ {0}
    <2> DEFINE T == {k \in Nat : PlaceValue[k] \in Nat \ {0}}
    <2>1. \A x, y \in Nat \ {0} : x * y \in Nat \ {0}
      OBVIOUS
    <2>2. 0 \in T /\ \A k \in Nat : k \in T => k + 1 \in T
      BY <1>0, <1>4, <2>1
    <2> HIDE DEF T
    <2>3. \A k \in Nat : k \in T
      BY <2>2, ClimbForever
    <2> QED BY <2>3 DEF T
  <1> QED BY <1>3, <1>4, <1>5

\* The values of the first bytes of a sequence.
LEMMA ValuesIs ==
    ASSUME NEW bytes \in Seq(Int)
    PROVE  /\ Values(bytes) \in [0..Len(bytes) -> Int] /\ Values(bytes)[0] = 0
           /\ \A k \in 1..Len(bytes) : Values(bytes)[k] = Values(bytes)[k - 1] + bytes[k] * PlaceValue[k - 1]
  <1> DEFINE n == Len(bytes)
             term == [k \in 1..n |-> bytes[k] * PlaceValue[k - 1]]
             step == [k \in 1..n |-> [x \in Int |-> x + term[k]]]
             body(f, k) == IF k = 0 THEN 0 ELSE f[k - 1] + bytes[k] * PlaceValue[k - 1]
             Is(f) == f = [k \in 0..n |-> body(f, k)]
             s == Values(bytes)
  <1>0. n \in Nat /\ 0 \in Int
    OBVIOUS
  <1>1. term \in [1..n -> Int] /\ \A k \in 1..n : term[k] = bytes[k] * PlaceValue[k - 1]
    <2>1. ASSUME NEW k \in 1..n PROVE bytes[k] * PlaceValue[k - 1] \in Int
      <3>1. bytes[k] \in Int /\ k - 1 \in Nat
        OBVIOUS
      <3>2. PlaceValue[k - 1] \in Int
        BY <3>1, PlaceValueIs
      <3> QED BY <3>1, <3>2
    <2> QED BY <2>1
  <1> HIDE DEF n, term
  <1>2. /\ step \in [1..n -> [Int -> Int]]
        /\ \A k \in 1..n, x \in Int : step[k][x] = x + term[k] /\ step[k][x] \in Int
    BY <1>0, <1>1
  <1> HIDE DEF step
  <1>3. ASSUME NEW k \in 1..n, NEW f, f[k - 1] \in Int PROVE body(f, k) = step[k][f[k - 1]]
    <2>1. k # 0
      BY <1>0
    <2> QED BY <1>1, <1>2, <1>3, <2>1
  <1>4. \E f : Is(f)
    <2>1. PICK f \in [0..n -> Int] : Steps(f, n, 0, step)
      BY <1>0, <1>2, Recursion, Zenon
    <2>2. f[0] = 0 /\ \A k \in 1..n : f[k] = step[k][f[k - 1]]
      BY <2>1 DEF Steps
    <2>3. ASSUME NEW k \in 0..n PROVE f[k] = body(f, k)
      <3>1. CASE k = 0
        BY <2>2, <3>1
      <3>2. CASE k # 0
        <4>1. k \in 1..n /\ k - 1 \in 0..n
          BY <1>0, <3>2
        <4>2. f[k - 1] \in Int
          BY <4>1
        <4>3. body(f, k) = step[k][f[k - 1]]
          BY <1>3, <4>1, <4>2, Zenon
        <4> HIDE DEF body
        <4> QED BY <2>2, <4>1, <4>3
      <3> QED BY <3>1, <3>2
    <2>4. f = [k \in 0..n |-> f[k]]
      OBVIOUS
    <2> HIDE DEF body
    <2>5. Is(f)
      BY <2>3, <2>4
    <2> QED BY <2>5
  <1>5. Is(s)
    BY <1>4, Zenon DEF Values, n
  <1> HIDE DEF s
  <1>6. s[0] = 0
    <2>1. 0 \in 0..n
      BY <1>0
    <2> QED BY <1>5, <2>1
  <1>7. ASSUME NEW k \in 1..n PROVE s[k] = body(s, k)
    <2>1. k \in 0..n
      BY <1>0
    <2> QED BY <1>5, <2>1, Zenon
  <1>8. \A k \in 0..n : s[k] \in Int
    <2> DEFINE T == {k \in Nat : s[k] \in Int}
    <2>1. 0 \in T
      BY <1>0, <1>6
    <2>2. ASSUME NEW k \in 0..n - 1, k \in T PROVE k + 1 \in T
      <3>1. k + 1 \in 1..n /\ (k + 1) - 1 = k /\ k + 1 \in Nat
        BY <1>0
      <3>2. s[(k + 1) - 1] \in Int
        BY <2>2, <3>1
      <3>3. body(s, k + 1) = step[k + 1][s[(k + 1) - 1]]
        BY <1>3, <3>1, <3>2
      <3> HIDE DEF body
      <3> QED BY <1>2, <1>7, <3>1, <3>2, <3>3
    <2> HIDE DEF T
    <2>3. \A k \in 0..n : k \in T
      BY <1>0, <2>1, <2>2, Climb
    <2> QED BY <2>3 DEF T
  <1>9. s \in [0..n -> Int]
    BY <1>5, <1>8
  <1>10. ASSUME NEW k \in 1..n PROVE s[k] = s[k - 1] + bytes[k] * PlaceValue[k - 1]
    BY <1>0, <1>7
  <1> QED BY <1>6, <1>9, <1>10 DEF s, n

\* The bytes of two numbers decide from the last on: in numbers.
LEMMA DigitDecides ==
    ASSUME NEW r \in Nat \ {0}, NEW p \in Nat \ {0}, NEW x \in 0..p - 1, NEW y \in 0..p - 1,
           NEW a \in 0..r - 1, NEW b \in 0..r - 1
    PROVE  /\ x + a * p \in 0..r * p - 1
           /\ a < b => x + a * p <= y + b * p
           /\ b < a => ~(x + a * p <= y + b * p)
           /\ a = b => (x + a * p <= y + b * p <=> x <= y)
  <1>1. \A i, j \in Nat : i <= j => i * p <= j * p /\ i * p \in Nat /\ (i + 1) * p = i * p + p
    OBVIOUS
  <1>2. a \in Nat /\ b \in Nat /\ r \in Nat /\ a + 1 \in Nat /\ b + 1 \in Nat /\ a + 1 <= r
    OBVIOUS
  <1>3. (a + 1) * p <= r * p /\ (a + 1) * p = a * p + p /\ a * p \in Nat /\ b * p \in Nat
    BY <1>1, <1>2
  <1>4. r * p \in Nat
    OBVIOUS
  <1>5. x + a * p \in 0..r * p - 1
    <2> DEFINE u == a * p
               v == r * p
    <2>1. u \in Nat /\ v \in Nat /\ u + p <= v
      BY <1>3, <1>4
    <2> HIDE DEF u, v
    <2>2. x + u \in 0..v - 1
      BY <2>1
    <2> QED BY <2>2 DEF u, v
  <1>6. ASSUME a < b PROVE x + a * p <= y + b * p
    <2>1. a + 1 <= b
      BY <1>6
    <2>2. (a + 1) * p <= b * p
      BY <1>1, <1>2, <2>1
    <2> DEFINE u == a * p
               v == b * p
    <2>3. u \in Nat /\ v \in Nat /\ u + p <= v
      BY <1>3, <2>2
    <2> HIDE DEF u, v
    <2>4. x + u <= y + v
      BY <2>3
    <2> QED BY <2>4 DEF u, v
  <1>7. ASSUME b < a PROVE ~(x + a * p <= y + b * p)
    <2>1. b + 1 <= a /\ b <= a
      BY <1>7
    <2>2. (b + 1) * p <= a * p /\ (b + 1) * p = b * p + p
      BY <1>1, <1>2, <2>1
    <2> DEFINE u == a * p
               v == b * p
    <2>3. u \in Nat /\ v \in Nat /\ v + p <= u
      BY <1>3, <2>2
    <2> HIDE DEF u, v
    <2>4. ~(x + u <= y + v)
      BY <2>3
    <2> QED BY <2>4 DEF u, v
  <1>8. ASSUME a = b PROVE x + a * p <= y + b * p <=> x <= y
    <2> DEFINE u == a * p
    <2>1. u \in Nat /\ b * p = u
      BY <1>3, <1>8
    <2> HIDE DEF u
    <2>2. x + u <= y + u <=> x <= y
      BY <2>1
    <2> QED BY <2>1, <2>2 DEF u
  <1> QED BY <1>5, <1>6, <1>7, <1>8

\* verifyHashVsTarget, of the first k bytes.
NotAbove(hash, target, k) ==
    \/ \A i \in 1..k : hash[i] = target[i]
    \/ \E i \in 1..k : hash[i] < target[i] /\ \A j \in i + 1..k : hash[j] = target[j]

\* One more byte decides if the two differ in it, and changes nothing otherwise.
LEMMA NotAboveNext ==
    ASSUME NEW hash, NEW target, NEW k \in Nat, hash[k + 1] \in Int, target[k + 1] \in Int
    PROVE  /\ hash[k + 1] < target[k + 1] => NotAbove(hash, target, k + 1)
           /\ target[k + 1] < hash[k + 1] => ~NotAbove(hash, target, k + 1)
           /\ hash[k + 1] = target[k + 1] =>
                 (NotAbove(hash, target, k + 1) <=> NotAbove(hash, target, k))
  <1>0. /\ k + 1 \in 1..k + 1
        /\ \A i \in 1..k + 1 : i = k + 1 \/ i \in 1..k
        /\ \A i \in 1..k : i \in 1..k + 1 /\ k + 1 \in i + 1..k + 1
        /\ \A j \in (k + 1) + 1..k + 1 : FALSE
        /\ \A i \in 1..k : /\ \A j \in i + 1..k + 1 : j = k + 1 \/ j \in i + 1..k
                           /\ \A j \in i + 1..k : j \in i + 1..k + 1
    OBVIOUS
  <1>1. ASSUME hash[k + 1] < target[k + 1] PROVE NotAbove(hash, target, k + 1)
    BY <1>0, <1>1 DEF NotAbove
  <1>2. ASSUME target[k + 1] < hash[k + 1], NotAbove(hash, target, k + 1) PROVE FALSE
    <2>1. hash[k + 1] # target[k + 1] /\ ~(hash[k + 1] < target[k + 1])
      BY <1>2
    <2> QED BY <1>0, <1>2, <2>1 DEF NotAbove
  <1>3. ASSUME hash[k + 1] = target[k + 1]
        PROVE  NotAbove(hash, target, k + 1) <=> NotAbove(hash, target, k)
    <2>1. ~(hash[k + 1] < target[k + 1])
      BY <1>3
    <2>2. ASSUME NotAbove(hash, target, k) PROVE NotAbove(hash, target, k + 1)
      <3>1. CASE \A i \in 1..k : hash[i] = target[i]
        BY <1>0, <1>3, <3>1 DEF NotAbove
      <3>2. ASSUME NEW i \in 1..k, hash[i] < target[i], \A j \in i + 1..k : hash[j] = target[j]
            PROVE  NotAbove(hash, target, k + 1)
        <4>1. i \in 1..k + 1 /\ \A j \in i + 1..k + 1 : hash[j] = target[j]
          BY <1>0, <1>3, <3>2
        <4> QED BY <3>2, <4>1 DEF NotAbove
      <3> QED BY <2>2, <3>1, <3>2 DEF NotAbove
    <2>3. ASSUME NotAbove(hash, target, k + 1) PROVE NotAbove(hash, target, k)
      <3>1. CASE \A i \in 1..k + 1 : hash[i] = target[i]
        BY <1>0, <3>1 DEF NotAbove
      <3>2. ASSUME NEW i \in 1..k + 1, hash[i] < target[i],
                   \A j \in i + 1..k + 1 : hash[j] = target[j]
            PROVE  NotAbove(hash, target, k)
        <4>1. i \in 1..k
          BY <1>0, <2>1, <3>2
        <4>2. \A j \in i + 1..k : hash[j] = target[j]
          BY <1>0, <3>2, <4>1
        <4> QED BY <3>2, <4>1, <4>2 DEF NotAbove
      <3> QED BY <2>3, <3>1, <3>2 DEF NotAbove
    <2> QED BY <2>2, <2>3
  <1> QED BY <1>1, <1>2, <1>3

\* The comparison of bytes is that of the numbers.
LEMMA ComparisonIs ==
    ASSUME NEW hash \in Seq(0..Radix - 1), NEW target \in Seq(0..Radix - 1),
           Len(hash) = Len(target)
    PROVE  verifyHashVsTarget(hash, target) <=> NumberOf(hash) <= NumberOf(target)
  <1> DEFINE n == Len(hash)
             x == Values(hash)
             y == Values(target)
             p == PlaceValue
             Good(k) == /\ x[k] \in 0..p[k] - 1 /\ y[k] \in 0..p[k] - 1
                        /\ NotAbove(hash, target, k) <=> x[k] <= y[k]
             T == {k \in Nat : Good(k)}
  <1>0. n \in Nat /\ n = Len(target) /\ Radix \in Nat \ {0}
    BY ShareAssumption
  <1>1. hash \in Seq(Int) /\ target \in Seq(Int)
    <2>1. \A i \in 1..n : hash[i] \in 0..Radix - 1 /\ target[i] \in 0..Radix - 1
      BY <1>0
    <2>2. \A i \in 1..n : hash[i] \in Int /\ target[i] \in Int
      BY <1>0, <2>1
    <2> QED BY <1>0, <2>2
  <1>2. x[0] = 0 /\ \A k \in 1..n : x[k] = x[k - 1] + hash[k] * p[k - 1]
    BY <1>1, ValuesIs
  <1>3. y[0] = 0 /\ \A k \in 1..n : y[k] = y[k - 1] + target[k] * p[k - 1]
    BY <1>0, <1>1, ValuesIs, Zenon
  <1>4. p[0] = 1 /\ \A k \in Nat : p[k] \in Nat \ {0} /\ p[k + 1] = Radix * p[k]
    BY PlaceValueIs, Zenon
  <1> HIDE DEF x, y, p
  <1>5. 0 \in T
    <2>1. NotAbove(hash, target, 0)
      BY DEF NotAbove
    <2>2. x[0] = 0 /\ y[0] = 0 /\ p[0] = 1
      BY <1>2, <1>3, <1>4
    <2>3. x[0] \in 0..p[0] - 1 /\ y[0] \in 0..p[0] - 1 /\ x[0] <= y[0]
      BY <2>2
    <2> QED BY <2>1, <2>3
  <1>6. ASSUME NEW k \in 0..n - 1, k \in T PROVE k + 1 \in T
    <2>1. k \in Nat /\ k + 1 \in Nat /\ k + 1 \in 1..n /\ (k + 1) - 1 = k
      BY <1>0
    <2> DEFINE a == hash[k + 1]
               b == target[k + 1]
    <2>2. a \in 0..Radix - 1 /\ b \in 0..Radix - 1 /\ a \in Int /\ b \in Int
      BY <1>0, <2>1
    <2>3. x[k] \in 0..p[k] - 1 /\ y[k] \in 0..p[k] - 1
          /\ (NotAbove(hash, target, k) <=> x[k] <= y[k])
      BY <1>6
    <2>4. x[k + 1] = x[k] + a * p[k] /\ y[k + 1] = y[k] + b * p[k]
      BY <1>2, <1>3, <2>1
    <2>5. p[k] \in Nat \ {0} /\ p[k + 1] = Radix * p[k]
      BY <1>4, <2>1, Zenon
    <2>6. /\ a < b => NotAbove(hash, target, k + 1)
          /\ b < a => ~NotAbove(hash, target, k + 1)
          /\ a = b => (NotAbove(hash, target, k + 1) <=> NotAbove(hash, target, k))
      BY <2>1, <2>2, NotAboveNext, Zenon
    <2> HIDE DEF a, b
    <2>7. /\ x[k] + a * p[k] \in 0..Radix * p[k] - 1
          /\ y[k] + b * p[k] \in 0..Radix * p[k] - 1
      BY <1>0, <2>2, <2>3, <2>5, DigitDecides, Zenon
    <2>8. /\ a < b => x[k] + a * p[k] <= y[k] + b * p[k]
          /\ b < a => ~(x[k] + a * p[k] <= y[k] + b * p[k])
          /\ a = b => (x[k] + a * p[k] <= y[k] + b * p[k] <=> x[k] <= y[k])
      BY <1>0, <2>2, <2>3, <2>5, DigitDecides, Zenon
    <2>9. a < b \/ b < a \/ a = b
      BY <2>2
    <2>10. x[k + 1] \in 0..p[k + 1] - 1 /\ y[k + 1] \in 0..p[k + 1] - 1
      BY <2>4, <2>5, <2>7
    <2>11. NotAbove(hash, target, k + 1) <=> x[k + 1] <= y[k + 1]
      BY <2>3, <2>4, <2>6, <2>8, <2>9
    <2> QED BY <2>1, <2>10, <2>11
  <1>7. n \in T
    <2> HIDE DEF T, n
    <2>1. \A k \in 0..n : k \in T
      BY <1>0, <1>5, <1>6, Climb, Zenon
    <2> QED BY <1>0, <2>1
  <1>8. NotAbove(hash, target, n) <=> x[n] <= y[n]
    BY <1>7
  <1>9. verifyHashVsTarget(hash, target) <=> NotAbove(hash, target, n)
    BY DEF verifyHashVsTarget, NotAbove
  <1> QED BY <1>0, <1>8, <1>9 DEF NumberOf, x, y

\* The first bytes of extraNonce2 are read as a big-endian number.
LEMMA IndexIs ==
    ASSUME NEW cells \in Seq(Cell), Len(cells) >= IndexBytes, NEW index,
           index = [k \in 1..IndexBytes |-> cells[(IndexBytes + 1) - k][1]]
    PROVE  ComputorIndex(cells) = NumberOf(index) % Computors
  <1> DEFINE n == IndexBytes
             x == Shifted(cells)
             y == Values(index)
             p == PlaceValue
             T == {k \in Nat : x[k] * p[n - k] + y[n - k] = y[n]}
  <1>0. n \in Nat /\ Radix \in Nat
    BY ShareAssumption
  <1>1. index \in Seq(Int) /\ Len(index) = n /\ \A k \in 1..n : index[k] \in Int
    <2>1. ASSUME NEW k \in 1..n PROVE cells[(n + 1) - k][1] \in Int
      <3>1. (n + 1) - k \in 1..Len(cells)
        BY <1>0
      <3>2. cells[(n + 1) - k] \in Cell
        BY <3>1
      <3> QED BY <3>2 DEF Cell
    <2>2. index \in [1..n -> Int]
      BY <2>1
    <2> QED BY <1>0, <2>2, IsSequence
  <1>2. /\ x \in [0..n -> Int] /\ x[0] = 0
        /\ \A k \in 1..n : x[k] = x[k - 1] * Radix + cells[k][1]
    BY ShiftedIs
  <1>3. /\ y \in [0..n -> Int] /\ y[0] = 0
        /\ \A k \in 1..n : y[k] = y[k - 1] + index[k] * p[k - 1]
    BY <1>1, ValuesIs, Zenon
  <1>4. p[0] = 1 /\ \A k \in Nat : p[k] \in Nat \ {0} /\ p[k + 1] = Radix * p[k]
    BY PlaceValueIs, Zenon
  <1>5. \A k \in 1..n : index[k] = cells[(n + 1) - k][1] /\ index[k] \in Int
    <2>1. \A k \in 1..n : index[k] = cells[(n + 1) - k][1]
      OBVIOUS
    <2> QED BY <1>1, <2>1
  <1> HIDE DEF x, y, p, n
  <1>6. 0 \in T
    <2>1. n - 0 = n /\ n \in 0..n
      BY <1>0
    <2>2. p[n] \in Int
      BY <1>0, <1>4
    <2>3. y[n] \in Int
      BY <1>3, <2>1
    <2>4. x[0] * p[n] + y[n] = y[n]
      BY <1>2, <2>2, <2>3
    <2> QED BY <2>1, <2>4
  <1>7. ASSUME NEW k \in 0..n - 1, k \in T PROVE k + 1 \in T
    <2> DEFINE m == n - (k + 1)
    <2>1. /\ k + 1 \in 1..n /\ k \in 0..n /\ (k + 1) - 1 = k /\ k + 1 \in Nat
          /\ m \in Nat /\ m \in 0..n /\ n - k = m + 1 /\ m + 1 \in 1..n /\ (m + 1) - 1 = m
          /\ (n + 1) - (m + 1) = k + 1
      BY <1>0
    <2> HIDE DEF m
    <2> DEFINE c == cells[k + 1][1]
    <2>2. x[k + 1] = x[k] * Radix + c
      BY <1>2, <2>1
    <2>3. index[m + 1] = c /\ c \in Int
      BY <1>5, <2>1, Zenon
    <2>4. y[m + 1] = y[m] + c * p[m]
      BY <1>3, <2>1, <2>3, Zenon
    <2>5. p[m + 1] = Radix * p[m] /\ p[m] \in Int /\ x[k] \in Int /\ y[m] \in Int
      <3>0. m \in Nat
        BY <2>1
      <3>1. p[m + 1] = Radix * p[m] /\ p[m] \in Nat \ {0}
        BY <1>4, <3>0, Zenon
      <3>2. x[k] \in Int
        BY <1>2, <2>1
      <3>3. y[m] \in Int
        BY <1>3, <2>1
      <3> QED BY <3>1, <3>2, <3>3
    <2>6. x[k] * p[m + 1] + y[m + 1] = y[n]
      BY <1>7, <2>1
    <2> HIDE DEF c
    <2>7. \A i, j, r, q, z \in Int : (i * r + j) * q + z = i * (r * q) + (z + j * q)
      OBVIOUS
    <2>8. (x[k] * Radix + c) * p[m] + y[m] = x[k] * (Radix * p[m]) + (y[m] + c * p[m])
      BY <1>0, <2>3, <2>5, <2>7
    <2>9. x[k + 1] * p[m] + y[m] = x[k] * p[m + 1] + y[m + 1]
      BY <2>2, <2>4, <2>5, <2>8
    <2>10. x[k + 1] * p[m] + y[m] = y[n]
      BY <2>6, <2>9
    <2> QED BY <2>1, <2>10 DEF m
  <1>8. n \in T
    <2> HIDE DEF T
    <2>1. \A k \in 0..n : k \in T
      BY <1>0, <1>6, <1>7, Climb
    <2> QED BY <1>0, <2>1
  <1>9. x[n] * p[0] + y[0] = y[n]
    <2>1. n - n = 0
      BY <1>0
    <2> QED BY <1>8, <2>1
  <1>10. x[n] = y[n]
    <2>1. n \in 0..n
      BY <1>0
    <2>2. x[n] \in Int /\ p[0] = 1 /\ y[0] = 0 /\ x[n] * p[0] + y[0] = y[n]
      BY <1>2, <1>3, <1>4, <1>9, <2>1
    <2>3. x[n] * 1 + 0 = x[n]
      BY <2>2
    <2> QED BY <2>2, <2>3, Zenon
  <1> QED BY <1>1, <1>10, Zenon DEF ComputorIndex, NumberOf, x, y, n

\* The sums of the three sizes of a query.
SizesOf(sizes, i, j, m) ==
    /\ Len(sizes) = 3 /\ Sums(sizes)[0] = 0 /\ Sums(sizes)[1] = i /\ Sums(sizes)[2] = i + j
    /\ Sums(sizes)[3] = i + j + m

\* They are what Validate takes them to be.
LEMMA SizesIs ==
    ASSUME NEW i \in Nat, NEW j \in Nat, NEW m \in Nat, NEW sizes, sizes = <<i, j, m>>
    PROVE  SizesOf(sizes, i, j, m) /\ Total(sizes) = i + j + m
  <1>1. /\ sizes \in Seq(Nat) /\ Len(sizes) = 3
        /\ sizes[1] = i /\ sizes[2] = j /\ sizes[3] = m
    OBVIOUS
  <1> DEFINE x == Sums(sizes)
  <1>2. x[0] = 0 /\ \A k \in 1..3 : x[k] = x[k - 1] + sizes[k]
    BY <1>1, SumsIs, Zenon
  <1> HIDE DEF x
  <1>3. x[1] = x[1 - 1] + sizes[1] /\ x[2] = x[2 - 1] + sizes[2] /\ x[3] = x[3 - 1] + sizes[3]
    BY <1>2
  <1>4. x[1] = x[0] + i /\ x[2] = x[1] + j /\ x[3] = x[2] + m
    BY <1>1, <1>3
  <1>5. x[1] = i
    BY <1>2, <1>4
  <1>6. x[2] = i + j
    BY <1>4, <1>5
  <1>7. x[3] = i + j + m
    BY <1>4, <1>6
  <1> QED BY <1>1, <1>2, <1>5, <1>6, <1>7 DEF x, Total, SizesOf

\* The sum of no numbers.
LEMMA NoneIs == Total(<<>>) = 0
  <1>1. <<>> \in Seq(Nat) /\ Len(<<>>) = 0
    OBVIOUS
  <1> QED BY <1>1, SumsIs, Zenon DEF Total

\* Every branch has one cell, so that the sums of the lengths count the branches.
LEMMA OnesIs ==
    ASSUME NEW h \in Nat, NEW ones, ones = [k \in 1..h |-> 1]
    PROVE  /\ Len(ones) = h /\ Total(ones) = h
           /\ \A k \in 0..h : Sums(ones)[k] = k
  <1>1. ones \in [1..h -> Nat]
    OBVIOUS
  <1>2. ones \in Seq(Nat) /\ Len(ones) = h
    BY <1>1, IsSequence
  <1>3. \A k \in 1..h : ones[k] = 1
    OBVIOUS
  <1> DEFINE x == Sums(ones)
             T == {k \in Nat : x[k] = k}
  <1>4. x[0] = 0 /\ \A k \in 1..h : x[k] = x[k - 1] + ones[k]
    BY <1>2, SumsIs
  <1> HIDE DEF x
  <1>5. 0 \in T
    BY <1>4
  <1>6. ASSUME NEW k \in 0..h - 1, k \in T PROVE k + 1 \in T
    <2>1. k + 1 \in 1..h /\ (k + 1) - 1 = k /\ k + 1 \in Nat
      OBVIOUS
    <2>2. x[k + 1] = x[k] + 1
      BY <1>3, <1>4, <2>1
    <2> QED BY <1>6, <2>1, <2>2
  <1>7. \A k \in 0..h : k \in T
    <2> HIDE DEF T
    <2> QED BY <1>5, <1>6, Climb
  <1>8. \A k \in 0..h : x[k] = k
    BY <1>7
  <1>9. x[h] = h
    BY <1>8
  <1> QED BY <1>2, <1>8, <1>9 DEF x, Total

\* A sequence of cells stands in the area of a query after so many others, as far as the
\* area goes.
Stands(q, from, x) ==
    \A k \in 1..Len(x) : from + k <= Capacity => q.additionalData[from + k] = x[k]

\* The cells for the lengths of the branches of a share, and their hashes.
LengthCells(s) == [k \in 1..Height(s) |-> <<1>>]
HashCells(s) == [k \in 1..Height(s) |-> Branch(s)[k][1]]

\* A query with the pieces a, b and c of a coinbase and h branches.
Packed(s, q, a, b, c, h) ==
    /\ q.extraNonce1NumBytes = Len(a) /\ q.coinbase1NumBytes = Len(b)
    /\ q.coinbase2NumBytes = Len(c) /\ q.numMerkleBranches = h
    /\ q.solutionExtraNonce2 = s.extraNonce2 /\ q.target = s.target
    /\ Stands(q, 0, a) /\ Stands(q, Len(a), b) /\ Stands(q, Len(a) + Len(b), c)
    /\ Stands(q, Len(a) + Len(b) + Len(c), LengthCells(s))
    /\ Stands(q, Len(a) + Len(b) + Len(c) + h, HashCells(s))

\* The query of a share: its sizes, and the order of its area.
LEMMA EncodeIs ==
    ASSUME NEW s \in Shares, NEW q, q = Encode(s)
    PROVE  Packed(s, q, s.extraNonce1, s.coinbase1, s.coinbase2, Height(s))
  <1> DEFINE a == s.extraNonce1
             b == s.coinbase1
             c == s.coinbase2
             h == Height(s)
             m == Len(a) + Len(b) + Len(c)
             br == Branch(s)
             d == LengthCells(s)
             e == HashCells(s)
             S == Cell \cup {br[k][1] : k \in 1..h}
             area == a \o b \o c \o d \o e
             data == [k \in 1..Capacity |-> IF k <= Len(area) THEN area[k] ELSE <<0>>]
             i == Len(a)
             j == i + Len(b)
             n == m + h
  <1>1. /\ s.transactions \in Nat /\ Capacity \in Nat
        /\ a \in Seq(Cell) /\ b \in Seq(Cell) /\ c \in Seq(Cell)
    BY ShareAssumption
  <1>2. h \in Nat /\ Len(br) = h /\ br = [k \in 1..h |-> <<Levels(s)[k - 1][2]>>]
    BY <1>1, BranchIs
  <1>3. \A k \in 1..h : Len(br[k]) = 1
    BY <1>2
  <1>4. [k \in 1..Len(br) |-> <<Len(br[k])>>] = d
    BY <1>2, <1>3 DEF LengthCells
  <1>5. [k \in 1..Len(br) |-> br[k][1]] = e
    BY <1>2 DEF HashCells
  <1>6. /\ q.extraNonce1NumBytes = Len(a) /\ q.coinbase1NumBytes = Len(b)
        /\ q.coinbase2NumBytes = Len(c) /\ q.numMerkleBranches = h
        /\ q.solutionExtraNonce2 = s.extraNonce2 /\ q.target = s.target
        /\ q.additionalData = data
    BY <1>2, <1>4, <1>5, Zenon DEF Encode
  <1>7. a \in Seq(S) /\ b \in Seq(S) /\ c \in Seq(S)
    <2>1. Cell \subseteq S
      OBVIOUS
    <2> HIDE DEF S
    <2> QED BY <1>1, <2>1, WiderElements
  <1>8. d \in Seq(S) /\ Len(d) = h
    <2>1. <<1>> \in Cell
      BY DEF Cell
    <2>2. d \in [1..h -> S]
      BY <2>1 DEF LengthCells
    <2> HIDE DEF S, d
    <2> QED BY <1>2, <2>2, IsSequence
  <1>9. e \in Seq(S) /\ Len(e) = h
    <2>2. e \in [1..h -> S]
      BY DEF HashCells
    <2> HIDE DEF S, e
    <2> QED BY <1>2, <2>2, IsSequence
  <1> HIDE DEF d, e
  <1>10. /\ Len(a) \in Nat /\ Len(b) \in Nat /\ Len(c) \in Nat
         /\ m = j + Len(c) /\ n = m + Len(d) /\ i \in Nat /\ j \in Nat /\ m \in Nat /\ n \in Nat
    <2>1. Len(a) \in Nat /\ Len(b) \in Nat /\ Len(c) \in Nat
      BY <1>1, LengthIs
    <2>2. \A x, y, z, u \in Nat : x + y \in Nat /\ x + y + z \in Nat /\ x + y + z = (x + y) + z
      OBVIOUS
    <2>3. j \in Nat /\ m = j + Len(c) /\ m \in Nat
      BY <2>1, <2>2, Zenon
    <2>4. n \in Nat /\ n = m + Len(d)
      <3> HIDE DEF j
      <3> QED BY <1>2, <1>8, <2>2, <2>3, Zenon
    <2> QED BY <2>1, <2>3, <2>4, Zenon
  <1>11. /\ Len(area) = n + Len(e)
         /\ \A k \in 1..Len(a) : area[k] = a[k]
         /\ \A k \in 1..Len(b) : area[i + k] = b[k]
         /\ \A k \in 1..Len(c) : area[j + k] = c[k]
         /\ \A k \in 1..Len(d) : area[m + k] = d[k]
         /\ \A k \in 1..Len(e) : area[n + k] = e[k]
    <2>1. area = a \o b \o c \o d \o e /\ i = Len(a) /\ j = i + Len(b)
      OBVIOUS
    <2> HIDE DEF S, area, i, j, n, a, b, c, h, m
    <2>2. Laid(area, a, b, c, d, e, i, j, m, n)
      BY <1>7, <1>8, <1>9, <1>10, <2>1, AreaIs, Zenon
    <2> QED BY <2>2 DEF Laid
  <1> DEFINE t == Len(area)
  <1>12. /\ t \in Nat /\ i <= t /\ i + Len(b) <= t /\ j + Len(c) <= t /\ m + Len(d) <= t
         /\ n + Len(e) <= t
    <2>1. t = n + Len(e) /\ Len(e) = h /\ Len(d) = h /\ h \in Nat
      BY <1>2, <1>8, <1>9, <1>11, Zenon
    <2>2. i = Len(a) /\ j = i + Len(b)
      OBVIOUS
    <2>3. /\ m = j + Len(c) /\ n = m + h /\ i \in Nat /\ Len(b) \in Nat /\ Len(c) \in Nat
          /\ j \in Nat /\ m \in Nat /\ n \in Nat
      BY <1>8, <1>10, Zenon
    <2> HIDE DEF area, t, i, j, n, a, b, c, h, m
    <2>4. \A x, y, z \in Nat : z = x + y => x <= z
      OBVIOUS
    <2>5. i <= j /\ j <= m /\ m <= n /\ n <= t /\ t \in Nat
      BY <2>1, <2>2, <2>3, <2>4
    <2>6. i <= t /\ j <= t /\ m <= t
      BY <2>3, <2>5
    <2>7. t <= t
      BY <2>5
    <2> QED BY <2>1, <2>2, <2>3, <2>5, <2>6, <2>7
  <1>13. \A k \in 1..Capacity : k <= t => q.additionalData[k] = area[k]
    BY <1>6, Zenon
  <1> HIDE DEF area, t, i, j, n, data, S, a, b, c, h, m
  <1>14. ASSUME NEW x, NEW from \in Nat, Len(x) \in Nat, from + Len(x) <= t,
                \A k \in 1..Len(x) : area[from + k] = x[k]
         PROVE  Stands(q, from, x)
    <2> SUFFICES ASSUME NEW k \in 1..Len(x), from + k <= Capacity
                 PROVE  q.additionalData[from + k] = x[k]
      BY Zenon DEF Stands
    <2>1. from + k \in 1..Capacity /\ from + k <= t
      BY <1>1, <1>12, <1>14
    <2> QED BY <1>13, <1>14, <2>1
  <1>15. Stands(q, 0, a)
    <2>1. \A k \in 1..Len(a) : area[0 + k] = a[k]
      <3>1. \A k \in 1..Len(a) : 0 + k = k
        BY <1>10
      <3> QED BY <1>11, <3>1
    <2>2. 0 \in Nat /\ 0 + Len(a) <= t
      BY <1>10, <1>12 DEF i
    <2> QED BY <1>10, <1>14, <2>1, <2>2
  <1>16. Stands(q, i, b)
    BY <1>10, <1>11, <1>12, <1>14, Zenon
  <1>17. Stands(q, j, c)
    BY <1>10, <1>11, <1>12, <1>14
  <1>18. Stands(q, m, d)
    BY <1>2, <1>8, <1>10, <1>11, <1>12, <1>14, Zenon
  <1>19. Stands(q, n, e)
    BY <1>2, <1>9, <1>10, <1>11, <1>12, <1>14, Zenon
  <1> QED BY <1>6, <1>15, <1>16, <1>17, <1>18, <1>19, Zenon DEF i, j, n, d, e, a, b, c, h, m, Packed

\* A part that begins after so many cells ends in the area.
Ends(from, x, to) == from \in Nat /\ to = from + Len(x) /\ to <= Capacity

\* A part that stands in the area, and ends in it, is taken out of it whole.
LEMMA StandsIn ==
    ASSUME NEW q, NEW S, NEW x \in Seq(S), NEW from, NEW to, Ends(from, x, to),
           Stands(q, from, x)
    PROVE  SubSeq(q.additionalData, from + 1, to) = x
  <1>0. from \in Nat /\ to = from + Len(x) /\ to <= Capacity
    BY DEF Ends
  <1> DEFINE n == Len(x)
             cells == q.additionalData
  <1>1. n \in Nat /\ Capacity \in Nat
    BY ShareAssumption
  <1>2. ASSUME NEW k \in 1..n PROVE cells[from + k] = x[k]
    <2>1. from + k <= Capacity
      <3> HIDE DEF n
      <3>1. to = from + n /\ from \in Nat /\ to <= Capacity
        BY <1>0 DEF n
      <3> QED BY <1>1, <3>1
    <2> QED BY <2>1 DEF Stands
  <1> HIDE DEF cells
  <1>3. SubSeq(cells, from + 1, to) = x
    BY <1>0, <1>2, TakenOut
  <1> QED BY <1>3 DEF cells

\* The pieces of the coinbase, out of an area that holds them.
LEMMA PartsIs ==
    ASSUME NEW q, NEW a \in Seq(Cell), NEW b \in Seq(Cell), NEW c \in Seq(Cell),
           Stands(q, 0, a), Stands(q, Len(a), b), Stands(q, Len(a) + Len(b), c),
           Len(a) + Len(b) + Len(c) <= Capacity, NEW sizes,
           SizesOf(sizes, Len(a), Len(b), Len(c))
    PROVE  /\ Pieces(q.additionalData, sizes)[1] = a
           /\ Pieces(q.additionalData, sizes)[2] = b
           /\ Pieces(q.additionalData, sizes)[3] = c
  <1> DEFINE i == Len(a)
             j == Len(a) + Len(b)
             m == Len(a) + Len(b) + Len(c)
             x == Sums(sizes)
             cells == q.additionalData
  <1>1. Len(a) \in Nat /\ Len(b) \in Nat /\ Len(c) \in Nat /\ Capacity \in Nat
    BY ShareAssumption, LengthIs
  <1>2. Len(sizes) = 3 /\ x[0] = 0 /\ x[1] = i /\ x[2] = j /\ x[3] = m
    BY DEF SizesOf
  <1>3. /\ i = 0 + Len(a) /\ j = i + Len(b) /\ m = j + Len(c)
        /\ i <= Capacity /\ j <= Capacity /\ m <= Capacity /\ i \in Nat /\ j \in Nat /\ m \in Nat
    BY <1>1
  <1>4. SubSeq(cells, 0 + 1, i) = a
    <2> DEFINE o == 0
    <2>1. Stands(q, o, a)
      OBVIOUS
    <2>2. Ends(o, a, i)
      BY <1>3 DEF Ends
    <2> HIDE DEF i, o
    <2>3. SubSeq(cells, o + 1, i) = a
      BY <2>1, <2>2, StandsIn, Zenon
    <2> QED BY <2>3 DEF o
  <1>5. SubSeq(cells, i + 1, j) = b
    <2>1. Stands(q, i, b)
      OBVIOUS
    <2>2. Ends(i, b, j)
      BY <1>3 DEF Ends
    <2> HIDE DEF i, j
    <2> QED BY <2>1, <2>2, StandsIn, Zenon
  <1>6. SubSeq(cells, j + 1, m) = c
    <2>1. Stands(q, j, c)
      OBVIOUS
    <2>2. Ends(j, c, m)
      BY <1>3 DEF Ends
    <2> HIDE DEF j, m
    <2> QED BY <2>1, <2>2, StandsIn, Zenon
  <1> HIDE DEF i, j, m, x, cells
  <1>7. \A k \in 1..3 : Pieces(cells, sizes)[k] = SubSeq(cells, x[k - 1] + 1, x[k])
    BY <1>2, Zenon DEF Pieces, x
  <1>8. /\ Pieces(cells, sizes)[1] = SubSeq(cells, x[0] + 1, x[1])
        /\ Pieces(cells, sizes)[2] = SubSeq(cells, x[1] + 1, x[2])
        /\ Pieces(cells, sizes)[3] = SubSeq(cells, x[2] + 1, x[3])
    <2>1. 1 \in 1..3 /\ 2 \in 1..3 /\ 3 \in 1..3 /\ 1 - 1 = 0 /\ 2 - 1 = 1 /\ 3 - 1 = 2
      OBVIOUS
    <2> QED BY <1>7, <2>1
  <1> QED BY <1>2, <1>4, <1>5, <1>6, <1>8 DEF cells

\* The lengths of the branches, out of an area that holds them.
LEMMA LengthsIs ==
    ASSUME NEW s \in Shares, NEW q, NEW m \in Nat, NEW h, h = Height(s),
           Stands(q, m, LengthCells(s)), m + h <= Capacity
    PROVE  [k \in 1..h |-> q.additionalData[m + k][1]] = [k \in 1..h |-> 1]
  <1>1. h \in Nat /\ Capacity \in Nat
    BY ShareAssumption, BranchIs
  <1>2. Len(LengthCells(s)) = h /\ \A k \in 1..h : LengthCells(s)[k] = <<1>>
    <2>1. LengthCells(s) \in [1..h -> {<<1>>}]
      BY DEF LengthCells
    <2> QED BY <1>1, <2>1, IsSequence
  <1>3. ASSUME NEW k \in 1..h PROVE q.additionalData[m + k][1] = 1
    <2>1. m + k <= Capacity
      BY <1>1
    <2>2. q.additionalData[m + k] = <<1>>
      BY <1>2, <2>1 DEF Stands
    <2> QED BY <2>2
  <1> QED BY <1>3

\* The branches, out of an area that holds them.
LEMMA BranchesIs ==
    ASSUME NEW s \in Shares, NEW q, NEW n \in Nat, NEW h, h = Height(s),
           Stands(q, n, HashCells(s)), n + h <= Capacity,
           NEW ones, ones = [k \in 1..h |-> 1]
    PROVE  Pieces(SubSeq(q.additionalData, n + 1, Capacity), ones) = Branch(s)
  <1> DEFINE data == q.additionalData
             rest == SubSeq(data, n + 1, Capacity)
             x == Sums(ones)
             br == Branch(s)
  <1>1. h \in Nat /\ Capacity \in Nat /\ br = [k \in 1..h |-> <<Levels(s)[k - 1][2]>>]
    BY ShareAssumption, BranchIs
  <1>2. Len(ones) = h /\ \A k \in 0..h : x[k] = k
    BY <1>1, OnesIs
  <1>3. Len(HashCells(s)) = h /\ \A k \in 1..h : HashCells(s)[k] = br[k][1]
    <2>1. HashCells(s) \in [1..h -> {br[k][1] : k \in 1..h}]
      BY DEF HashCells
    <2>2. Len(HashCells(s)) = h
      BY <1>1, <2>1, IsSequence
    <2> QED BY <2>2, Zenon DEF HashCells
  <1>4. ASSUME NEW k \in 1..h PROVE rest[k] = br[k][1]
    <2> DEFINE S == {data[i] : i \in n + 1..Capacity}
    <2>1. \A i \in n + 1..Capacity : data[i] \in S
      OBVIOUS
    <2>2. n + 1 \in Int /\ Capacity \in Int
      BY <1>1
    <2> HIDE DEF S, data
    <2>3. \A i \in 1..Capacity - (n + 1) + 1 : rest[i] = data[n + 1 + i - 1]
      BY <2>1, <2>2, PartIs
    <2>4. /\ k \in 1..Capacity - (n + 1) + 1 /\ n + 1 + k - 1 = n + k /\ n + k <= Capacity
      BY <1>1
    <2>5. rest[k] = data[n + k]
      BY <2>3, <2>4, Zenon
    <2>6. data[n + k] = HashCells(s)[k]
      BY <1>3, <2>4 DEF Stands, data
    <2> QED BY <1>3, <2>5, <2>6, Zenon
  <1>5. Pieces(rest, ones) = [k \in 1..h |-> SubSeq(rest, x[k - 1] + 1, x[k])]
    BY <1>2, Zenon DEF Pieces
  <1> HIDE DEF rest, x, br
  <1>6. ASSUME NEW k \in 1..h PROVE SubSeq(rest, x[k - 1] + 1, x[k]) = br[k]
    <2>1. k - 1 \in 0..h /\ k \in 0..h /\ k - 1 \in Nat /\ k = (k - 1) + 1
      BY <1>1
    <2>2. x[k - 1] = k - 1 /\ x[k] = k
      BY <1>2, <2>1
    <2> DEFINE y == <<rest[k]>>
               S == {rest[k]}
    <2>3. y \in Seq(S) /\ Len(y) = 1 /\ y[1] = rest[k]
      OBVIOUS
    <2>4. \A i \in 1..Len(y) : rest[(k - 1) + i] = y[i]
      BY <2>1, <2>3
    <2>5. k = (k - 1) + Len(y)
      BY <2>1, <2>3
    <2> HIDE DEF y, S
    <2>6. SubSeq(rest, (k - 1) + 1, k) = y
      BY <2>1, <2>3, <2>4, <2>5, TakenOut
    <2>7. y = br[k]
      <3>1. br[k] = <<Levels(s)[k - 1][2]>>
        BY <1>1
      <3> QED BY <1>4, <3>1 DEF y
    <2> QED BY <2>2, <2>6, <2>7
  <1>7. br = [k \in 1..h |-> br[k]]
    BY <1>1
  <1> QED BY <1>5, <1>6, <1>7, Zenon DEF rest, br

\* The cells that the pieces of a share take up with a length and a hash for each branch.
Needed(s) ==
    Len(s.extraNonce1) + Len(s.coinbase1) + Len(s.coinbase2) + Len(Branch(s)) + Len(Branch(s))

\* A count in 32 bits: it is right if the cells fit, and if it seems to fit but does not, it
\* has wrapped around.
LEMMA CountIs ==
    ASSUME NEW x \in Nat
    PROVE  /\ x <= Capacity => x % SizeModulus <= Capacity
           /\ x > Capacity /\ ~(x % SizeModulus > Capacity) => x >= SizeModulus
  <1>1. Capacity \in Nat /\ SizeModulus \in Nat \ {0} /\ Capacity < SizeModulus
    BY ShareAssumption
  <1>2. x < SizeModulus => x % SizeModulus = x
    BY <1>1
  <1> QED BY <1>1, <1>2

\* What a reply to the query of a share says.
LEMMA ValidateIs ==
    ASSUME NEW s \in Shares, NEW q, q = Encode(s), NEW hash, NEW v, v = Validate(q, hash)
    PROVE  /\ v.flags # "UNDEFINED" => v.compIndex = ComputorIndex(s.extraNonce2)
           /\ v.flags = "NO_ERROR" <=> Needed(s) <= Capacity
           /\ v.flags = "UNDEFINED" => Needed(s) >= SizeModulus
           /\ v.flags = "NO_ERROR" =>
                 v.root = Root(s) /\ v.isValid = verifyHashVsTarget(hash, s.target)
  <1> DEFINE a == s.extraNonce1
             b == s.coinbase1
             c == s.coinbase2
             h == Height(s)
             m == Len(a) + Len(b) + Len(c)
             data == q.additionalData
             sizes == <<Len(a), Len(b), Len(c)>>
             parts == Pieces(data, sizes)
             lengths == [k \in 1..h |-> data[Total(sizes) + k][1]]
             branches == Pieces(SubSeq(data, m + h + 1, Capacity), lengths)
             root == calculateMerkleRoot(parts[2], parts[3], parts[1], s.extraNonce2, branches)
             index == ComputorIndex(s.extraNonce2)
             refused == [flags |-> "INVALID_ARG", compIndex |-> index]
             undefined == [flags |-> "UNDEFINED"]
             accepted == [flags |-> "NO_ERROR", compIndex |-> index, root |-> root,
                          isValid |-> verifyHashVsTarget(hash, s.target)]
  <1>1. /\ s.transactions \in Nat /\ Capacity \in Nat
        /\ a \in Seq(Cell) /\ b \in Seq(Cell) /\ c \in Seq(Cell)
    BY ShareAssumption
  <1>2. h \in Nat /\ Len(Branch(s)) = h
    BY <1>1, BranchIs
  <1>3. Len(a) \in Nat /\ Len(b) \in Nat /\ Len(c) \in Nat
    BY <1>1, LengthIs
  <1>4. m \in Nat /\ m + h \in Nat
    <2>1. \A i, j, n \in Nat : i + j \in Nat /\ i + j + n \in Nat
      OBVIOUS
    <2>2. m \in Nat
      BY <1>3, <2>1, Zenon
    <2> HIDE DEF m, h
    <2> QED BY <1>2, <2>1, <2>2
  <1>5. Packed(s, q, a, b, c, h)
    BY EncodeIs
  <1>6. SizesOf(sizes, Len(a), Len(b), Len(c)) /\ Total(sizes) = m
    <2> DEFINE i == Len(a)
               j == Len(b)
               n == Len(c)
               sz == sizes
    <2>1. sz = <<i, j, n>> /\ i \in Nat /\ j \in Nat /\ n \in Nat
      BY <1>3
    <2> HIDE DEF i, j, n, sz
    <2>2. SizesOf(sz, i, j, n) /\ Total(sz) = i + j + n
      BY <2>1, SizesIs
    <2> QED BY <2>2 DEF i, j, n, sz
  <1>7. /\ q.extraNonce1NumBytes = Len(a) /\ q.coinbase1NumBytes = Len(b)
        /\ q.coinbase2NumBytes = Len(c) /\ q.numMerkleBranches = h
        /\ q.solutionExtraNonce2 = s.extraNonce2 /\ q.target = s.target
    BY <1>5 DEF Packed
  <1>8. /\ Stands(q, 0, a) /\ Stands(q, Len(a), b) /\ Stands(q, Len(a) + Len(b), c)
        /\ Stands(q, m, LengthCells(s)) /\ Stands(q, m + h, HashCells(s))
    BY <1>5, Zenon DEF Packed
  <1>9. Extent(q, <<>>) = m + h
    <2>1. Extent(q, <<>>) = m + h + Total(<<>>)
      BY <1>7 DEF Extent
    <2> HIDE DEF m, h
    <2>2. m + h + 0 = m + h
      BY <1>4
    <2> QED BY <2>1, <2>2, NoneIs
  <1>10. Extent(q, lengths) = m + h + Total(lengths)
    BY <1>7 DEF Extent
  <1>11. v = IF (m + h) % SizeModulus > Capacity THEN refused
             ELSE IF m + h > Capacity THEN undefined
             ELSE IF (m + h + Total(lengths)) % SizeModulus > Capacity THEN refused
             ELSE IF m + h + Total(lengths) > Capacity THEN undefined
             ELSE accepted
    BY <1>7, <1>9, <1>10, Zenon DEF Validate, TooLarge, DataSize
  <1>12. Needed(s) = m + h + h
    BY <1>2 DEF Needed
  <1>13. ASSUME m + h <= Capacity PROVE lengths = [k \in 1..h |-> 1]
    <2>1. [k \in 1..h |-> q.additionalData[m + k][1]] = [k \in 1..h |-> 1]
      <3> HIDE DEF m, h
      <3>1. h = Height(s)
        BY DEF h
      <3> QED BY <1>4, <1>8, <1>13, <3>1, LengthsIs
    <2> QED BY <1>6, <2>1, Zenon
  <1>14. ASSUME m + h <= Capacity PROVE Total(lengths) = h
    <2>1. lengths = [k \in 1..h |-> 1]
      BY <1>13, <1>14
    <2> HIDE DEF lengths, h
    <2> QED BY <1>2, <2>1, OnesIs
  <1>15. ASSUME m + h <= Capacity, m + h + h <= Capacity PROVE root = Root(s)
    <2>1. parts[1] = a /\ parts[2] = b /\ parts[3] = c
      <3>1. Len(a) + Len(b) + Len(c) <= Capacity
        <4> HIDE DEF h
        <4>1. m <= Capacity
          <5> HIDE DEF m
          <5> QED BY <1>1, <1>2, <1>4, <1>15
        <4> QED BY <4>1, Zenon
      <3> HIDE DEF sizes, a, b, c
      <3> QED BY <1>1, <1>6, <1>8, <3>1, PartsIs
    <2>2. branches = Branch(s)
      <3>1. lengths = [k \in 1..h |-> 1]
        BY <1>13, <1>15
      <3> DEFINE n == m + h
      <3>2. h = Height(s) /\ Stands(q, n, HashCells(s)) /\ n \in Nat /\ n + h <= Capacity
        BY <1>4, <1>8, <1>15, Zenon
      <3> HIDE DEF lengths, n, h
      <3>3. Pieces(SubSeq(q.additionalData, n + 1, Capacity), lengths) = Branch(s)
        BY <3>1, <3>2, BranchesIs
      <3> QED BY <3>3, Zenon DEF n
    <2> DEFINE coinbase == b \o a \o s.extraNonce2 \o c
    <2>3. root = Hashes(coinbase, Branch(s))[Len(Branch(s))]
      BY <2>1, <2>2, Zenon DEF calculateMerkleRoot
    <2>4. doubleSHA256(coinbase) = Coinbase(s)
      BY DEF Coinbase
    <2> HIDE DEF coinbase
    <2>5. Hashes(coinbase, Branch(s))[Len(Branch(s))] = Root(s)
      BY <1>1, <2>4, RootFound
    <2> QED BY <2>3, <2>5, Zenon
  <1> DEFINE total == Total(lengths)
             valid == verifyHashVsTarget(hash, s.target)
  <1> HIDE DEF root, index, total, valid, h, m
  <1> DEFINE n == m + h
             needed == m + h + h
  <1>16. n \in Nat /\ needed \in Nat /\ n <= needed /\ Capacity \in Nat
    BY <1>1, <1>2, <1>4
  <1>17. v = IF n % SizeModulus > Capacity THEN refused
             ELSE IF n > Capacity THEN undefined
             ELSE IF needed % SizeModulus > Capacity THEN refused
             ELSE IF needed > Capacity THEN undefined
             ELSE accepted
    <2>1. CASE n > Capacity
      BY <1>11, <2>1, Zenon DEF n
    <2>2. CASE n <= Capacity
      BY <1>11, <1>14, <2>2, Zenon DEF n, needed, total
    <2> QED BY <1>16, <2>1, <2>2
  <1>18. Needed(s) = needed
    BY <1>12 DEF needed
  <1>19. root = Root(s) \/ ~(needed <= Capacity)
    <2>1. ASSUME needed <= Capacity PROVE root = Root(s)
      <3>1. n <= Capacity
        BY <1>16, <2>1
      <3> QED BY <1>15, <2>1, <3>1, Zenon DEF n, needed
    <2> QED BY <2>1
  <1> HIDE DEF n, needed
  <1>20. CASE needed > Capacity
    <2>1. ~(needed <= Capacity)
      BY <1>16, <1>20
    <2>2. v = refused \/ (v = undefined /\ needed >= SizeModulus)
      <3>1. CASE n > Capacity
        <4>1. ~(n % SizeModulus > Capacity) => needed >= SizeModulus
          <5>1. ~(n % SizeModulus > Capacity) => n >= SizeModulus
            BY <1>16, <3>1, CountIs
          <5> QED BY <1>16, <5>1, ShareAssumption
        <4> QED BY <1>17, <3>1, <4>1, Zenon
      <3>2. CASE ~(n > Capacity)
        <4>1. ~(needed % SizeModulus > Capacity) => needed >= SizeModulus
          BY <1>16, <1>20, CountIs
        <4> QED BY <1>17, <1>20, <3>2, <4>1, Zenon
      <3> QED BY <3>1, <3>2, Zenon
    <2>3. CASE v = refused
      BY <1>18, <2>1, <2>3 DEF index
    <2>4. CASE v = undefined /\ needed >= SizeModulus
      BY <1>18, <2>1, <2>4
    <2> QED BY <2>2, <2>3, <2>4, Zenon
  <1>21. CASE needed <= Capacity
    <2>1. ~(n % SizeModulus > Capacity) /\ ~(needed % SizeModulus > Capacity)
      <3>1. n <= Capacity /\ n % SizeModulus \in Int /\ needed % SizeModulus \in Int
        BY <1>16, <1>21, ShareAssumption
      <3>2. n % SizeModulus <= Capacity /\ needed % SizeModulus <= Capacity
        BY <1>16, <1>21, <3>1, CountIs
      <3> QED BY <1>16, <3>1, <3>2
    <2>2. ~(n > Capacity) /\ ~(needed > Capacity)
      BY <1>16, <1>21
    <2>3. v = accepted
      BY <1>17, <2>1, <2>2, Zenon
    <2> QED BY <1>18, <1>19, <1>21, <2>3 DEF index, valid
  <1> QED BY <1>16, <1>20, <1>21

---------------------------------------------------------------------------------
(* DogeShare: the invariant and the theorems *)

\* The reply is the one to the query of the share that was asked about.
ShareInv ==
    /\ share = NoShare \/ share \in Shares
    /\ verdict = NoVerdict \/ ( /\ share # NoShare
                                /\ verdict = Validate(Encode(share), share.hash) )

\* ShareInv holds before a share is asked about (ShareInit).
LEMMA ShareInitInv == ShareInit => ShareInv
  BY DEF ShareInit, ShareInv

\* Asking about a share and replying keep ShareInv (processInterfaceQuery).
LEMMA ShareStep == ShareInv /\ [ShareNext]_shareVars => ShareInv'
  <1> SUFFICES ASSUME ShareInv, [ShareNext]_shareVars PROVE ShareInv'
    OBVIOUS
  <1>1. ASSUME NEW s \in Shares, AskShare(s) PROVE ShareInv'
    BY <1>1 DEF ShareInv, AskShare
  <1>2. ASSUME ValidateShare PROVE ShareInv'
    BY <1>2 DEF ShareInv, ValidateShare
  <1>3. ASSUME UNCHANGED shareVars PROVE ShareInv'
    BY <1>3 DEF ShareInv, shareVars
  <1> QED BY <1>1, <1>2, <1>3 DEF ShareNext

\* ShareInv gives what the replies promise.
LEMMA ShareInvJudges == ShareInv => JudgedByItsBlock /\ RefusedIfTooLarge
  <1> SUFFICES ASSUME ShareInv PROVE JudgedByItsBlock /\ RefusedIfTooLarge
    OBVIOUS
  <1>1. CASE verdict = NoVerdict
    BY <1>1 DEF JudgedByItsBlock, RefusedIfTooLarge
  <1>2. CASE verdict # NoVerdict
    <2>1. share \in Shares /\ verdict = Validate(Encode(share), share.hash)
      BY <1>2 DEF ShareInv
    <2>2. /\ share.hash \in Seq(0..Radix - 1) /\ share.target \in Seq(0..Radix - 1)
          /\ Len(share.hash) = Len(share.target)
          /\ share.extraNonce2 \in Seq(Cell) /\ Len(share.extraNonce2) >= IndexBytes
      BY <2>1, ShareAssumption
    <2>3. /\ verdict.flags # "UNDEFINED" => verdict.compIndex = ComputorIndex(share.extraNonce2)
          /\ verdict.flags = "NO_ERROR" <=> Needed(share) <= Capacity
          /\ verdict.flags = "UNDEFINED" => Needed(share) >= SizeModulus
          /\ verdict.flags = "NO_ERROR" =>
                /\ verdict.root = Root(share)
                /\ verdict.isValid = verifyHashVsTarget(share.hash, share.target)
      <3> DEFINE q == Encode(share)
                 hash == share.hash
                 v == verdict
                 s == share
      <3>1. s \in Shares /\ q = Encode(s) /\ v = Validate(q, hash)
        BY <2>1
      <3> HIDE DEF q, hash, v, s
      <3>2. /\ v.flags # "UNDEFINED" => v.compIndex = ComputorIndex(s.extraNonce2)
            /\ v.flags = "NO_ERROR" <=> Needed(s) <= Capacity
            /\ v.flags = "UNDEFINED" => Needed(s) >= SizeModulus
            /\ v.flags = "NO_ERROR" =>
                  v.root = Root(s) /\ v.isValid = verifyHashVsTarget(hash, s.target)
        BY <3>1, ValidateIs
      <3> QED BY <3>2 DEF v, s, hash
    <2>4. verifyHashVsTarget(share.hash, share.target)
             <=> NumberOf(share.hash) <= NumberOf(share.target)
      BY <2>2, ComparisonIs
    <2>5. JudgedByItsBlock
      BY <2>3, <2>4 DEF JudgedByItsBlock
    <2> DEFINE index == [k \in 1..IndexBytes |-> share.extraNonce2[(IndexBytes + 1) - k][1]]
    <2>6. ComputorIndex(share.extraNonce2) = NumberOf(index) % Computors
      <3> DEFINE i == index
                 e == share.extraNonce2
      <3>1. i = [k \in 1..IndexBytes |-> e[(IndexBytes + 1) - k][1]]
        OBVIOUS
      <3>2. e \in Seq(Cell) /\ Len(e) >= IndexBytes
        BY <2>2
      <3> HIDE DEF i, e
      <3>3. ComputorIndex(e) = NumberOf(i) % Computors
        BY <3>1, <3>2, IndexIs
      <3> QED BY <3>3 DEF i, e
    <2>7. RefusedIfTooLarge
      BY <2>3, <2>6, Zenon DEF RefusedIfTooLarge, Needed
    <2> QED BY <2>5, <2>7
  <1> QED BY <1>1, <1>2

\* A share that is not refused is judged by the block it is for, for blocks with any number
\* of transactions, pieces of any length and hashes of any length: the root is that of the
\* Merkle tree, and the verdict compares numbers (calculateMerkleRoot, verifyHashVsTarget).
THEOREM ShareJudged == ShareSpec => []JudgedByItsBlock
  <1>1. ShareInv => JudgedByItsBlock
    BY ShareInvJudges
  <1> QED BY <1>1, ShareInitInv, ShareStep, PTL DEF ShareSpec

\* For pieces of any length, a share is judged exactly if its query fits, and is refused
\* otherwise, unless the 32-bit count of its cells wraps around; judged or refused, it is
\* put down to the computor that its nonce names (processInterfaceQuery).
THEOREM ShareRefused == ShareSpec => []RefusedIfTooLarge
  <1>1. ShareInv => RefusedIfTooLarge
    BY ShareInvJudges
  <1> QED BY <1>1, ShareInitInv, ShareStep, PTL DEF ShareSpec
-------------------------------------------------------------------------------
(* PriceArithmetic: numbers *)

\* The powers of ten are what their definition says (PRICE_DENOMINATOR, and the
\* denominators of priceStringToRational).
LEMMA TenIs == Ten \in [Nat -> Nat \ {0}] /\ Ten[0] = 1 /\ \A k \in Nat : Ten[k + 1] = 10 * Ten[k]
  <1> DEFINE step == [x \in Nat |-> 10 * x]
             Is(f) == f = [k \in Nat |-> IF k = 0 THEN 1 ELSE 10 * f[k - 1]]
  <1>1. step \in [Nat -> Nat] /\ 1 \in Nat
    OBVIOUS
  <1>2. \E f : Is(f)
    <2> HIDE DEF step
    <2>0. PICK f \in [Nat -> Nat] : StepsForever(f, 1, step)
      BY <1>1, RecursionForever, Zenon
    <2>1. f[0] = 1 /\ \A k \in Nat : f[k + 1] = step[f[k]]
      BY <2>0 DEF StepsForever
    <2> USE DEF step
    <2>2. ASSUME NEW k \in Nat PROVE f[k] = IF k = 0 THEN 1 ELSE 10 * f[k - 1]
      <3>1. CASE k = 0
        BY <2>1, <3>1
      <3>2. CASE k # 0
        <4>1. k - 1 \in Nat /\ k - 1 + 1 = k
          BY <3>2
        <4>2. f[k - 1 + 1] = step[f[k - 1]]
          BY <2>1, <4>1
        <4>3. f[k - 1] \in Nat
          BY <4>1
        <4> QED BY <3>2, <4>1, <4>2, <4>3
      <3> QED BY <3>1, <3>2
    <2>3. f = [k \in Nat |-> f[k]]
      OBVIOUS
    <2> QED BY <2>2, <2>3
  <1>3. Ten = [k \in Nat |-> IF k = 0 THEN 1 ELSE 10 * Ten[k - 1]]
    BY <1>2 DEF Ten
  <1>4. Ten[0] = 1 /\ \A k \in Nat : Ten[k + 1] = 10 * Ten[k]
    <2>1. ASSUME NEW k \in Nat PROVE Ten[k + 1] = 10 * Ten[k]
      <3>1. k + 1 \in Nat /\ k + 1 # 0 /\ k + 1 - 1 = k
        OBVIOUS
      <3> QED BY <1>3, <3>1
    <2> QED BY <1>3, <2>1
  <1>5. \A k \in Nat : Ten[k] \in Nat \ {0}
    <2> DEFINE T == {k \in Nat : Ten[k] \in Nat \ {0}}
    <2>1. 0 \in T /\ \A k \in Nat : k \in T => k + 1 \in T
      BY <1>4
    <2> HIDE DEF T
    <2>2. \A k \in Nat : k \in T
      BY <2>1, ClimbForever
    <2> QED BY <2>2 DEF T
  <1> QED BY <1>3, <1>4, <1>5

\* A product does not depend on the order of its factors.
LEMMA Shuffle == \A x, y, z \in Int : x * (y * z) = (x * y) * z /\ x * y = y * x
  OBVIOUS

\* A product of numbers that are not negative grows with its factors.
LEMMA Grows == \A x, y, z \in Nat : x <= y => x * z <= y * z /\ x * z \in Nat
  OBVIOUS

\* It grows strictly with a factor if the other one is not zero.
LEMMA GrowsStrictly == \A x, y \in Nat, z \in Nat \ {0} : x < y => x * z < y * z
  OBVIOUS

\* Quotient and remainder of a number that is not negative.
LEMMA Divided ==
    ASSUME NEW a \in Nat, NEW b \in Nat \ {0}
    PROVE  a % b \in 0..b - 1 /\ a \div b \in Nat /\ a = b * (a \div b) + (a % b) /\ a \div b <= a
  OBVIOUS

\* Division of a number by a larger one.
LEMMA DividedSmall ==
    ASSUME NEW b \in Nat \ {0}, NEW a \in 0..b - 1
    PROVE  a % b = a /\ a \div b = 0
  OBVIOUS

\* Division of a multiple.
LEMMA DividedMultiple ==
    ASSUME NEW b \in Nat \ {0}, NEW q \in Nat
    PROVE  (q * b) % b = 0 /\ (q * b) \div b = q
  OBVIOUS

\* The powers of ten multiply as powers do.
LEMMA TenPlus == \A a, b \in Nat : Ten[a + b] = Ten[a] * Ten[b]
  <1> SUFFICES ASSUME NEW a \in Nat PROVE \A b \in Nat : Ten[a + b] = Ten[a] * Ten[b]
    OBVIOUS
  <1> DEFINE T == {b \in Nat : Ten[a + b] = Ten[a] * Ten[b]}
  <1>1. 0 \in T
    BY TenIs
  <1>2. ASSUME NEW b \in Nat, b \in T PROVE b + 1 \in T
    <2>1. a + b \in Nat /\ (a + b) + 1 = a + (b + 1)
      OBVIOUS
    <2>2. Ten[a + (b + 1)] = 10 * Ten[a + b] /\ Ten[b + 1] = 10 * Ten[b]
      BY <2>1, TenIs
    <2>3. Ten[a] \in Int /\ Ten[b] \in Int /\ 10 \in Int
      BY TenIs
    <2>4. 10 * (Ten[a] * Ten[b]) = Ten[a] * (10 * Ten[b])
      BY <2>3
    <2> QED BY <1>2, <2>2, <2>4
  <1> HIDE DEF T
  <1>3. \A b \in Nat : b \in T
    BY <1>1, <1>2, ClimbForever
  <1> QED BY <1>3 DEF T

\* The powers of ten grow with the exponent.
LEMMA TenGrows == \A a, b \in Nat : a <= b => Ten[a] <= Ten[b]
  <1> SUFFICES ASSUME NEW a \in Nat, NEW b \in Nat, a <= b PROVE Ten[a] <= Ten[b]
    OBVIOUS
  <1>1. b - a \in Nat /\ a + (b - a) = b
    OBVIOUS
  <1>2. Ten[b] = Ten[a] * Ten[b - a]
    BY <1>1, TenPlus
  <1>3. Ten[a] \in Nat /\ Ten[b - a] \in Nat \ {0}
    BY <1>1, TenIs
  <1>4. \A x \in Nat, y \in Nat \ {0} : x <= x * y
    OBVIOUS
  <1> QED BY <1>2, <1>3, <1>4

\* They grow strictly.
LEMMA TenGrowsStrictly == \A a, b \in Nat : a < b => Ten[a] < Ten[b]
  <1> SUFFICES ASSUME NEW a \in Nat, NEW b \in Nat, a < b PROVE Ten[a] < Ten[b]
    OBVIOUS
  <1>1. Ten[a + 1] = 10 * Ten[a] /\ Ten[a] \in Nat \ {0}
    BY TenIs
  <1>2. Ten[a + 1] <= Ten[b]
    BY TenGrows
  <1> QED BY <1>1, <1>2, TenIs

\* Two numbers with as many digits as fit have a sum that fits, and so has PRICE_DENOMINATOR.
LEMMA LimitIs == Limit \in Nat \ {0} /\ 2 * Ten[Digits] < Limit /\ Ten[Decimals] < Limit
  BY ArithmeticAssumption, TenIs

\* A number of the width is not changed by wrapping, and any other becomes one (int64_t).
LEMMA WrapIs == \A x \in Int : Wrap(x) \in Word /\ (x \in Word => Wrap(x) = x)
  <1> SUFFICES ASSUME NEW x \in Int PROVE Wrap(x) \in Word /\ (x \in Word => Wrap(x) = x)
    OBVIOUS
  <1> DEFINE L == Limit
  <1>1. L \in Nat \ {0}
    BY LimitIs
  <1> HIDE DEF L
  <1>2. 2 * L \in Nat \ {0} /\ x + L \in Int
    BY <1>1
  <1>3. (x + L) % (2 * L) \in 0..2 * L - 1
    BY <1>2
  <1>4. Wrap(x) = ((x + L) % (2 * L)) - L /\ Word = -L..L - 1
    BY DEF Wrap, Word, L
  <1>5. Wrap(x) \in Word
    BY <1>1, <1>3, <1>4
  <1>6. ASSUME x \in Word PROVE Wrap(x) = x
    <2>1. x + L \in 0..2 * L - 1
      BY <1>1, <1>4, <1>6
    <2>2. (x + L) % (2 * L) = x + L
      BY <1>2, <2>1, DividedSmall
    <2> QED BY <1>1, <1>4, <2>2
  <1> QED BY <1>5, <1>6
-------------------------------------------------------------------------------
(* PriceArithmetic: gcd *)

\* The remainder of a division by a number that is not zero is smaller (% in gcd).
LEMMA RemainderIs ==
    ASSUME NEW a \in Int, NEW b \in Int, b # 0
    PROVE  Remainder(a, b) \in Int /\ Abs(Remainder(a, b)) < Abs(b)
  <1>1. Abs(a) \in Nat /\ Abs(b) \in Nat \ {0}
    BY DEF Abs
  <1>2. Abs(a) % Abs(b) \in 0..Abs(b) - 1
    BY <1>1, Divided, Zenon
  <1>3. Remainder(a, b) = Abs(a) % Abs(b) \/ Remainder(a, b) = -(Abs(a) % Abs(b))
    BY DEF Remainder, Abs
  <1>4. \A x \in Nat : Abs(x) = x /\ Abs(-x) = x /\ x \in Int /\ -x \in Int
    BY DEF Abs
  <1>5. Abs(a) % Abs(b) \in Nat /\ Abs(a) % Abs(b) < Abs(b)
    BY <1>1, <1>2
  <1> QED BY <1>3, <1>4, <1>5

\* The quotient is not larger than what is divided (/ in computeMean).
LEMMA QuotientIs ==
    ASSUME NEW a \in Int, NEW b \in Int, b # 0
    PROVE  Quotient(a, b) \in Int /\ Abs(Quotient(a, b)) <= Abs(a)
  <1>1. Abs(a) \in Nat /\ Abs(b) \in Nat \ {0}
    BY DEF Abs
  <1>2. Abs(a) \div Abs(b) \in Nat /\ Abs(a) \div Abs(b) <= Abs(a)
    BY <1>1, Divided, Zenon
  <1>3. Quotient(a, b) = Abs(a) \div Abs(b) \/ Quotient(a, b) = -(Abs(a) \div Abs(b))
    BY DEF Quotient
  <1>4. \A x \in Nat : Abs(x) = x /\ Abs(-x) = x /\ x \in Int /\ -x \in Int
    BY DEF Abs
  <1> QED BY <1>2, <1>3, <1>4

\* Division of numbers that are not negative.
LEMMA OfNaturals ==
    ASSUME NEW a \in Nat, NEW b \in Nat \ {0}
    PROVE  Quotient(a, b) = a \div b /\ Remainder(a, b) = a % b
  BY DEF Quotient, Remainder, Abs

\* A round of the loop of gcd, and its rounds from a pair on.
Pair == Int \X Int
Euclid == [p \in Pair |-> IF p[2] = 0 THEN p ELSE <<p[2], Remainder(p[1], p[2])>>]
Walk(p) == CHOOSE f \in [Nat -> Pair] : StepsForever(f, p, Euclid)

\* A round makes the second number smaller, and leaves a pair with a second number 0 alone.
LEMMA EuclidIs ==
    ASSUME NEW p \in Pair
    PROVE  /\ Euclid[p] \in Pair
           /\ p[2] = 0 => Euclid[p] = p
           /\ p[2] # 0 => /\ Euclid[p] = <<p[2], Remainder(p[1], p[2])>>
                          /\ Euclid[p][1] = p[2] /\ Abs(Euclid[p][2]) < Abs(p[2])
  <1>1. p[1] \in Int /\ p[2] \in Int
    BY DEF Pair
  <1>2. CASE p[2] = 0
    BY <1>2 DEF Euclid
  <1>3. CASE p[2] # 0
    <2>1. Remainder(p[1], p[2]) \in Int /\ Abs(Remainder(p[1], p[2])) < Abs(p[2])
      BY <1>1, <1>3, RemainderIs, Zenon
    <2>2. Euclid[p] = <<p[2], Remainder(p[1], p[2])>>
      BY <1>3 DEF Euclid
    <2> QED BY <1>1, <1>3, <2>1, <2>2 DEF Pair
  <1> QED BY <1>2, <1>3

\* The rounds follow each other from the arguments of gcd on.
LEMMA WalkIs ==
    ASSUME NEW p \in Pair
    PROVE  /\ Walk(p) \in [Nat -> Pair]
           /\ Walk(p)[0] = p /\ \A k \in Nat : Walk(p)[k + 1] = Euclid[Walk(p)[k]]
  <1>1. Euclid \in [Pair -> Pair]
    <2>1. \A q \in Pair : Euclid[q] \in Pair
      BY EuclidIs
    <2>2. Euclid = [q \in Pair |-> Euclid[q]]
      BY DEF Euclid
    <2> HIDE DEF Euclid
    <2> QED BY <2>1, <2>2
  <1>2. \E f \in [Nat -> Pair] : StepsForever(f, p, Euclid)
    BY <1>1, RecursionForever
  <1>3. Walk(p) \in [Nat -> Pair] /\ StepsForever(Walk(p), p, Euclid)
    BY <1>2 DEF Walk
  <1> QED BY <1>3 DEF StepsForever

\* The loop ends after as many rounds as its second number says, at the latest, and
\* not with two zeros.
LEMMA WalkEnds ==
    ASSUME NEW p \in Pair
    PROVE  /\ Walk(p)[Abs(p[2])] \in Pair /\ Walk(p)[Abs(p[2])][2] = 0
           /\ p[1] # 0 \/ p[2] # 0 => Walk(p)[Abs(p[2])][1] # 0
  <1> DEFINE w == Walk(p)
             T == {k \in Nat : w[k][2] = 0 \/ Abs(w[k][2]) + k <= Abs(p[2])}
             N == {k \in Nat : w[k][1] # 0 \/ w[k][2] # 0}
  <1>0. w \in [Nat -> Pair] /\ w[0] = p /\ \A k \in Nat : w[k + 1] = Euclid[w[k]]
    BY WalkIs, Zenon
  <1>1. p[2] \in Int /\ Abs(p[2]) \in Nat
    BY DEF Abs, Pair
  <1> HIDE DEF w
  <1>2. 0 \in T
    BY <1>0, <1>1
  <1>3. ASSUME NEW k \in Nat PROVE (k \in T => k + 1 \in T) /\ (k \in N => k + 1 \in N)
    <2> DEFINE q == w[k]
    <2>1. q \in Pair /\ w[k + 1] = Euclid[q]
      BY <1>0
    <2> HIDE DEF q
    <2>2. CASE q[2] = 0
      <3>1. w[k + 1] = q
        BY <2>1, <2>2, EuclidIs
      <3> QED BY <2>2, <3>1 DEF q
    <2>3. CASE q[2] # 0
      <3>1. w[k + 1][1] # 0 /\ Abs(w[k + 1][2]) < Abs(q[2]) /\ w[k + 1] \in Pair
        BY <2>1, <2>3, EuclidIs
      <3>2. \A x \in Int : Abs(x) \in Nat
        BY DEF Abs
      <3>3. w[k + 1][2] \in Int /\ q[2] \in Int
        BY <2>1, <3>1 DEF Pair
      <3>4. Abs(w[k + 1][2]) \in Nat /\ Abs(q[2]) \in Nat
        BY <3>2, <3>3
      <3>5. Abs(q[2]) + k <= Abs(p[2]) => Abs(w[k + 1][2]) + (k + 1) <= Abs(p[2])
        BY <1>1, <3>1, <3>4
      <3> QED BY <2>3, <3>1, <3>5 DEF q
    <2> QED BY <2>2, <2>3
  <1>4. p[1] # 0 \/ p[2] # 0 => 0 \in N
    BY <1>0
  <1> DEFINE e == Abs(p[2])
  <1>5. e \in T /\ (p[1] # 0 \/ p[2] # 0 => e \in N)
    <2> HIDE DEF T, N, e
    <2>1. e \in Nat
      BY <1>1 DEF e
    <2>2. \A k \in Nat : k \in T
      BY <1>2, <1>3, ClimbForever
    <2>3. ASSUME p[1] # 0 \/ p[2] # 0 PROVE \A k \in Nat : k \in N
      BY <1>3, <1>4, <2>3, ClimbForever
    <2> QED BY <2>1, <2>2, <2>3
  <1>6. w[e] \in Pair /\ w[e][2] \in Int
    BY <1>0, <1>1 DEF Pair
  <1>7. w[e][2] = 0
    <2>1. \A x \in Int : Abs(x) \in Nat /\ (Abs(x) = 0 => x = 0)
      BY DEF Abs
    <2> HIDE DEF e
    <2>2. w[e][2] = 0 \/ Abs(w[e][2]) + e <= Abs(p[2])
      BY <1>5
    <2>3. Abs(w[e][2]) \in Nat
      BY <1>6, <2>1
    <2>4. CASE Abs(w[e][2]) + e <= Abs(p[2])
      <3>1. Abs(w[e][2]) = 0
        BY <1>1, <2>3, <2>4 DEF e
      <3> QED BY <1>6, <2>1, <3>1
    <2> QED BY <2>2, <2>4
  <1>8. p[1] # 0 \/ p[2] # 0 => w[e][1] # 0
    BY <1>5, <1>7
  <1> QED BY <1>6, <1>7, <1>8 DEF w

\* After that many rounds a pair stays as it is.
LEMMA WalkStays ==
    ASSUME NEW p \in Pair, NEW n \in Nat, Abs(p[2]) <= n
    PROVE  Walk(p)[n] = Walk(p)[Abs(p[2])]
  <1> DEFINE w == Walk(p)
             e == Abs(p[2])
             T == {k \in Nat : w[e + k] = w[e]}
  <1>0. w \in [Nat -> Pair] /\ \A k \in Nat : w[k + 1] = Euclid[w[k]]
    BY WalkIs, Zenon
  <1>1. e \in Nat
    BY DEF Abs, Pair
  <1>2. w[e] \in Pair /\ w[e][2] = 0
    BY WalkEnds
  <1> HIDE DEF w, e
  <1>3. 0 \in T
    BY <1>1
  <1>4. ASSUME NEW k \in Nat, k \in T PROVE k + 1 \in T
    <2>1. e + k \in Nat /\ e + (k + 1) = (e + k) + 1
      BY <1>1
    <2>2. w[e + (k + 1)] = Euclid[w[e]]
      BY <1>0, <1>4, <2>1
    <2>3. Euclid[w[e]] = w[e]
      BY <1>2, EuclidIs
    <2> QED BY <2>2, <2>3
  <1>5. n - e \in T
    <2> HIDE DEF T
    <2>1. \A k \in Nat : k \in T
      BY <1>3, <1>4, ClimbForever
    <2>2. n - e \in Nat
      BY <1>1 DEF e
    <2> QED BY <2>1, <2>2
  <1>6. e + (n - e) = n
    BY <1>1
  <1> QED BY <1>5, <1>6 DEF w, e

\* A walk goes on as the walk from its second pair.
LEMMA WalkShifts ==
    ASSUME NEW p \in Pair, NEW n \in Nat
    PROVE  Walk(p)[n + 1] = Walk(Euclid[p])[n]
  <1> DEFINE w == Walk(p)
             v == Walk(Euclid[p])
             T == {k \in Nat : w[k + 1] = v[k]}
  <1>1. Euclid[p] \in Pair
    BY EuclidIs
  <1>2. w[0] = p /\ \A k \in Nat : w[k + 1] = Euclid[w[k]]
    BY WalkIs
  <1>3. v[0] = Euclid[p] /\ \A k \in Nat : v[k + 1] = Euclid[v[k]]
    BY <1>1, WalkIs, Zenon
  <1> HIDE DEF w, v
  <1>4. 0 \in T
    BY <1>2, <1>3
  <1>5. ASSUME NEW k \in Nat, k \in T PROVE k + 1 \in T
    BY <1>2, <1>3, <1>5
  <1> HIDE DEF T
  <1>6. \A k \in Nat : k \in T
    BY <1>4, <1>5, ClimbForever
  <1> QED BY <1>6 DEF T, w, v

\* gcd returns for all arguments, and what it is said to; the divisor it finds is not zero
\* unless both numbers are.
LEMMA GcdIs ==
    /\ \A p \in Pair : gcd[p] = IF p[2] = 0 THEN p[1] ELSE gcd[Euclid[p]]
    /\ \A p \in Pair : gcd[p] \in Int /\ (p[1] # 0 \/ p[2] # 0 => gcd[p] # 0)
  <1> DEFINE body(g, p) == IF p[2] = 0 THEN p[1] ELSE g[<<p[2], Remainder(p[1], p[2])>>]
             Is(g) == g = [p \in Int \X Int |-> body(g, p)]
             found == [p \in Pair |-> Walk(p)[Abs(p[2])][1]]
  <1>1. ASSUME NEW p \in Pair PROVE found[p] = body(found, p)
    <2>1. CASE p[2] = 0
      <3>1. Abs(p[2]) = 0
        BY <2>1 DEF Abs
      <3>2. found[p] = Walk(p)[0][1]
        BY <3>1
      <3>3. Walk(p)[0] = p
        BY WalkIs
      <3> HIDE DEF found
      <3> QED BY <2>1, <3>2, <3>3
    <2>2. CASE p[2] # 0
      <3> DEFINE q == Euclid[p]
                 n == Abs(p[2]) - 1
      <3>1. q \in Pair /\ q = <<p[2], Remainder(p[1], p[2])>> /\ Abs(q[2]) < Abs(p[2])
        BY <2>2, EuclidIs
      <3>2. p[2] \in Int /\ q[2] \in Int
        BY <3>1 DEF Pair
      <3> HIDE DEF q
      <3>3. n \in Nat /\ n + 1 = Abs(p[2]) /\ Abs(q[2]) <= n
        BY <3>1, <3>2 DEF Abs
      <3> HIDE DEF n
      <3>4. Walk(p)[n + 1] = Walk(q)[n]
        BY <3>3, WalkShifts DEF q
      <3>5. Walk(q)[n] = Walk(q)[Abs(q[2])]
        BY <3>1, <3>3, WalkStays
      <3>6. found[p] = Walk(p)[n + 1][1] /\ found[q] = Walk(q)[Abs(q[2])][1]
        BY <3>1, <3>3
      <3> HIDE DEF found
      <3> QED BY <2>2, <3>1, <3>4, <3>5, <3>6
    <2> QED BY <2>1, <2>2
  <1>2. Is(found)
    <2>1. found = [p \in Pair |-> found[p]]
      OBVIOUS
    <2> HIDE DEF found
    <2> QED BY <1>1, <2>1 DEF Pair
  <1>3. Is(gcd)
    <2> HIDE DEF found
    <2>1. \E g : Is(g)
      BY <1>2
    <2> QED BY <2>1, Zenon DEF gcd
  <1>4. ASSUME NEW p \in Pair PROVE gcd[p] = body(gcd, p)
    BY <1>3, Zenon DEF Pair
  <1>5. ASSUME NEW p \in Pair PROVE gcd[p] = IF p[2] = 0 THEN p[1] ELSE gcd[Euclid[p]]
    <2>1. p[2] # 0 => Euclid[p] = <<p[2], Remainder(p[1], p[2])>>
      BY EuclidIs
    <2> QED BY <1>4, <2>1, Zenon
  <1>6. ASSUME NEW p \in Pair
        PROVE  gcd[p] \in Int /\ (p[1] # 0 \/ p[2] # 0 => gcd[p] # 0)
    <2> DEFINE w == Walk(p)
               e == Abs(p[2])
               T == {k \in Nat : gcd[w[k]] = gcd[p]}
    <2>0. w \in [Nat -> Pair] /\ w[0] = p /\ \A k \in Nat : w[k + 1] = Euclid[w[k]]
      BY WalkIs, Zenon
    <2>1. e \in Nat
      BY DEF Abs, Pair
    <2>2. w[e] \in Pair /\ w[e][2] = 0 /\ (p[1] # 0 \/ p[2] # 0 => w[e][1] # 0)
      BY WalkEnds
    <2> HIDE DEF w, e
    <2>3. 0 \in T
      BY <2>0
    <2>4. ASSUME NEW k \in Nat, k \in T PROVE k + 1 \in T
      <3>1. w[k] \in Pair /\ w[k + 1] = Euclid[w[k]]
        BY <2>0
      <3>2. gcd[Euclid[w[k]]] = gcd[w[k]]
        BY <1>5, <3>1, EuclidIs
      <3> QED BY <2>4, <3>1, <3>2
    <2> HIDE DEF T
    <2>5. e \in T
      BY <2>1, <2>3, <2>4, ClimbForever
    <2>6. gcd[p] = w[e][1]
      BY <1>5, <2>2, <2>5 DEF T
    <2>7. w[e][1] \in Int
      BY <2>2 DEF Pair
    <2> QED BY <2>2, <2>6, <2>7
  <1> QED BY <1>5, <1>6

\* The greatest common divisor of two powers of ten is the smaller one.
LEMMA GcdOfTens ==
    ASSUME NEW i \in Nat, NEW j \in Nat
    PROVE  gcd[<<Ten[i], Ten[j]>>] = Ten[IF i < j THEN i ELSE j]
  <1> DEFINE a == Ten[i]
             b == Ten[j]
  <1>1. a \in Nat \ {0} /\ b \in Nat \ {0}
    BY TenIs
  <1>2. i < j => a < b
    BY TenGrowsStrictly
  <1>3. ASSUME NEW x \in Nat, NEW y \in Nat, x <= y
        PROVE  Ten[y] % Ten[x] = 0
    <2>1. y - x \in Nat /\ x + (y - x) = y
      BY <1>3
    <2>2. Ten[y] = Ten[x] * Ten[y - x] /\ Ten[x] \in Nat \ {0} /\ Ten[y - x] \in Nat
      <3>1. Ten[x + (y - x)] = Ten[x] * Ten[y - x]
        BY <2>1, TenPlus
      <3>2. Ten[x] \in Nat \ {0} /\ Ten[y - x] \in Nat \ {0}
        BY <2>1, TenIs
      <3> QED BY <2>1, <3>1, <3>2
    <2>3. Ten[x] * Ten[y - x] = Ten[y - x] * Ten[x]
      BY <2>2
    <2> QED BY <2>2, <2>3, DividedMultiple
  <1> HIDE DEF a, b
  <1>4. ASSUME NEW x \in Nat, NEW y \in Nat \ {0}
        PROVE  gcd[<<x, y>>] = gcd[<<y, x % y>>] /\ gcd[<<x, 0>>] = x
    <2> DEFINE p == <<x, y>>
               q == <<x, 0>>
    <2>1. p \in Pair /\ p[1] = x /\ p[2] = y /\ q \in Pair /\ q[1] = x /\ q[2] = 0 /\ y # 0
      BY DEF Pair
    <2>2. Remainder(x, y) = x % y
      BY OfNaturals, Zenon
    <2>3. gcd[p] = gcd[<<y, x % y>>]
      <3> HIDE DEF p, q
      <3>1. gcd[p] = gcd[Euclid[p]]
        BY <2>1, GcdIs
      <3>2. Euclid[p] = <<y, x % y>>
        BY <2>1, <2>2, EuclidIs
      <3> QED BY <3>1, <3>2
    <2>4. gcd[q] = x
      <3> HIDE DEF p, q
      <3> QED BY <2>1, GcdIs
    <2> QED BY <2>3, <2>4
  <1>5. CASE i < j
    <2>1. a % b = a
      BY <1>1, <1>2, <1>5, DividedSmall
    <2>2. b % a = 0
      BY <1>3, <1>5 DEF a, b
    <2>3. gcd[<<a, b>>] = gcd[<<b, a>>]
      <3>1. gcd[<<a, b>>] = gcd[<<b, a % b>>]
        BY <1>1, <1>4, Zenon
      <3> QED BY <2>1, <3>1
    <2>4. gcd[<<b, a>>] = gcd[<<a, 0>>]
      BY <1>1, <1>4, <2>2, Zenon
    <2>5. gcd[<<a, 0>>] = a
      BY <1>1, <1>4, Zenon
    <2> QED BY <1>5, <2>3, <2>4, <2>5 DEF a, b
  <1>6. CASE ~(i < j)
    <2>1. a % b = 0
      BY <1>3, <1>6 DEF a, b
    <2>2. gcd[<<a, b>>] = gcd[<<b, 0>>]
      BY <1>1, <1>4, <2>1, Zenon
    <2>3. gcd[<<b, 0>>] = b
      BY <1>1, <1>4, Zenon
    <2> QED BY <1>6, <2>2, <2>3 DEF a, b
  <1> QED BY <1>5, <1>6
-------------------------------------------------------------------------------
(* PriceArithmetic: priceStringToRational *)

\* What the loop over a text keeps, as exact numbers.
ScanState == [num : Nat, denom : Nat \ {0}, seenDot : BOOLEAN, okay : BOOLEAN]

\* A text is a sequence of characters.
LEMMA TextIs ==
    ASSUME NEW text \in Text
    PROVE  text \in Seq(Chars) /\ Len(text) \in 0..MaxLen
  <1>1. PICK n \in 0..MaxLen : text \in [1..n -> Chars]
    BY DEF Text
  <1>2. n \in Nat
    BY ArithmeticAssumption
  <1> QED BY <1>1, <1>2

\* A round of the loop with a digit (isdigit).
LEMMA ScanOfDigit ==
    ASSUME NEW st, st.okay, NEW c \in 0..9
    PROVE  Scan(st, c) = [st EXCEPT !.num = st.num * 10 + c,
                                    !.denom = IF st.seenDot THEN st.denom * 10 ELSE st.denom]
  <1>1. c # Dot
    BY ArithmeticAssumption
  <1> QED BY <1>1 DEF Scan
\* A round of the loop with the first point.
LEMMA ScanOfDot ==
    ASSUME NEW st, st.okay, ~st.seenDot
    PROVE  Scan(st, Dot) = [st EXCEPT !.seenDot = TRUE]
  BY ArithmeticAssumption DEF Scan

\* A round with any character keeps the numbers natural and the denominator positive.
LEMMA ScanTyped ==
    ASSUME NEW st \in ScanState, NEW c
    PROVE  Scan(st, c) \in ScanState
  <1> USE DEF ScanState
  <1>1. CASE ~st.okay
    BY <1>1 DEF Scan
  <1>2. CASE st.okay /\ c \in 0..9
    <2>1. Scan(st, c) = [st EXCEPT !.num = st.num * 10 + c,
                                   !.denom = IF st.seenDot THEN st.denom * 10 ELSE st.denom]
      BY <1>2, ScanOfDigit, Zenon
    <2>2. st.num * 10 + c \in Nat /\ st.denom * 10 \in Nat \ {0}
      BY <1>2
    <2> QED BY <2>1, <2>2, Zenon
  <1>3. CASE st.okay /\ c \notin 0..9 /\ c = Dot /\ ~st.seenDot
    BY <1>3, Zenon DEF Scan
  <1>4. CASE st.okay /\ c \notin 0..9 /\ ~(c = Dot /\ ~st.seenDot)
    BY <1>4, Zenon DEF Scan
  <1> QED BY <1>1, <1>2, <1>3, <1>4

\* The loop has, after each character, what a round makes of what it had before.
LEMMA ScannedIs ==
    ASSUME NEW text \in Seq(Chars)
    PROVE  /\ Scanned(text) \in [0..Len(text) -> ScanState]
           /\ Scanned(text)[0] = Start
           /\ \A k \in 1..Len(text) : Scanned(text)[k] = Scan(Scanned(text)[k - 1], text[k])
  <1> DEFINE n == Len(text)
             step == [k \in 1..n |-> [st \in ScanState |-> Scan(st, text[k])]]
             body(f, k) == IF k = 0 THEN Start ELSE Scan(f[k - 1], text[k])
             Is(f) == f = [k \in 0..n |-> body(f, k)]
             s == Scanned(text)
  <1>0. n \in Nat /\ Start \in ScanState
    BY DEF Start, ScanState
  <1>1. step \in [1..n -> [ScanState -> ScanState]]
    BY ScanTyped
  <1>2. \A k \in 1..n, st \in ScanState : step[k][st] = Scan(st, text[k])
    OBVIOUS
  <1>3. \E f : Is(f)
    <2> HIDE DEF n, step
    <2>1. PICK f \in [0..n -> ScanState] : Steps(f, n, Start, step)
      BY <1>0, <1>1, Recursion, Zenon
    <2>2. f[0] = Start /\ \A k \in 1..n : f[k] = step[k][f[k - 1]]
      BY <2>1 DEF Steps
    <2>3. ASSUME NEW k \in 0..n PROVE f[k] = body(f, k)
      <3>1. CASE k = 0
        BY <2>2, <3>1
      <3>2. CASE k # 0
        <4>1. k \in 1..n /\ k - 1 \in 0..n
          BY <1>0, <3>2
        <4>2. f[k - 1] \in ScanState
          BY <4>1
        <4> QED BY <1>2, <2>2, <3>2, <4>1, <4>2
      <3> QED BY <3>1, <3>2
    <2>4. f = [k \in 0..n |-> f[k]]
      OBVIOUS
    <2>5. Is(f)
      BY <2>3, <2>4
    <2> QED BY <2>5, Zenon
  <1>4. Is(s)
    BY <1>3, Zenon DEF Scanned
  <1> HIDE DEF s, n
  <1>5. s[0] = Start /\ \A k \in 1..n : s[k] = Scan(s[k - 1], text[k])
    <2>1. 0 \in 0..n
      BY <1>0
    <2>2. ASSUME NEW k \in 1..n PROVE s[k] = Scan(s[k - 1], text[k])
      <3>1. k \in 0..n /\ k # 0
        BY <1>0
      <3> QED BY <1>4, <3>1, Zenon
    <2> QED BY <1>4, <2>1, <2>2
  <1>6. \A k \in 0..n : s[k] \in ScanState
    <2> DEFINE T == {k \in Nat : s[k] \in ScanState}
    <2>1. 0 \in T
      BY <1>0, <1>5
    <2>2. ASSUME NEW k \in 0..n - 1, k \in T PROVE k + 1 \in T
      <3>1. k + 1 \in 1..n /\ k + 1 - 1 = k /\ k + 1 \in Nat
        BY <1>0
      <3>2. s[k + 1] = Scan(s[k], text[k + 1])
        BY <1>5, <3>1
      <3> QED BY <2>2, <3>1, <3>2, ScanTyped
    <2> HIDE DEF T
    <2>3. \A k \in 0..n : k \in T
      BY <1>0, <2>1, <2>2, Climb
    <2> QED BY <2>3 DEF T
  <1>7. s \in [0..n -> ScanState]
    BY <1>4, <1>6
  <1> QED BY <1>5, <1>7 DEF s, n

\* What the scan of a text begins with is accepted up to some character.
LEMMA PrefixIs ==
    ASSUME NEW text \in Seq(Chars)
    PROVE  Prefix(text) \in 0..Len(text)
  <1> DEFINE n == Len(text)
             s == Scanned(text)
             S == {d \in 0..n : s[n - d].okay}
  <1>0. n \in Nat /\ s[0].okay
    BY ScannedIs DEF Start
  <1> HIDE DEF n, s
  <1>1. n \in S
    <2>1. n \in 0..n /\ n - n = 0
      BY <1>0
    <2> QED BY <1>0, <2>1
  <1>2. S \in SUBSET Nat
    BY <1>0
  <1>3. PICK d \in S : \A e \in S : d <= e
    <2> HIDE DEF S
    <2> QED BY <1>1, <1>2, Least
  <1>4. n - d \in 0..n /\ s[n - d].okay
    BY <1>0
  <1>5. ASSUME NEW m \in n - d + 1..n PROVE ~s[m].okay
    <2>1. n - m \in 0..n /\ n - (n - m) = m /\ ~(d <= n - m)
      BY <1>0
    <2>2. n - m \notin S
      BY <1>3, <2>1
    <2> QED BY <2>1, <2>2
  <1>6. \E k \in 0..n : s[k].okay /\ \A m \in k + 1..n : ~s[m].okay
    BY <1>4, <1>5
  <1> QED BY <1>6 DEF Prefix, n, s

\* Where the point of a numeral is.
LEMMA PointIs ==
    ASSUME NEW text \in Seq(Chars), Numeral(text)
    PROVE  /\ Point(text) \in 1..Len(text) + 1
           /\ (HasPoint(text) <=> Point(text) # Len(text) + 1)
           /\ \A k \in 1..Len(text) : text[k] = Dot <=> k = Point(text)
           /\ \A k \in 1..Len(text) : text[k] # Dot => text[k] \in 0..9
  <1> DEFINE n == Len(text)
  <1>0. n \in Nat
    OBVIOUS
  <1>1. ASSUME NEW k \in 1..n, text[k] # Dot PROVE text[k] \in 0..9
    <2>1. text[k] \in Chars /\ text[k] # Other
      BY DEF Numeral
    <2> QED BY <1>1, <2>1, ArithmeticAssumption, Zenon
  <1>2. CASE HasPoint(text)
    <2>1. PICK p \in 1..n : text[p] = Dot
      BY <1>2 DEF HasPoint
    <2>2. Point(text) \in 1..n /\ text[Point(text)] = Dot
      BY <1>2, <2>1 DEF Point
    <2>3. \A j, k \in 1..n : text[j] = Dot /\ text[k] = Dot => j = k
      BY DEF Numeral
    <2>4. \A k \in 1..n : text[k] = Dot <=> k = Point(text)
      BY <2>2, <2>3
    <2>5. Point(text) \in 1..n + 1 /\ Point(text) # n + 1
      BY <1>0, <2>2
    <2> QED BY <1>1, <1>2, <2>4, <2>5
  <1>3. CASE ~HasPoint(text)
    <2>1. Point(text) = n + 1
      BY <1>3 DEF Point
    <2>2. \A k \in 1..n : text[k] # Dot /\ k # n + 1
      BY <1>0, <1>3 DEF HasPoint
    <2> QED BY <1>0, <1>1, <1>3, <2>1, <2>2
  <1> QED BY <1>2, <1>3

\* The weights of the characters of a numeral go down to that of its last decimal, by one
\* with each digit.
LEMMA WeightIs ==
    ASSUME NEW text \in Seq(Chars), Numeral(text)
    PROVE  /\ DecimalsOf(text) \in Nat /\ DigitsOf(text) \in Nat /\ DecimalsOf(text) <= DigitsOf(text)
           /\ Weight(text, Len(text)) = -DecimalsOf(text)
           /\ \A k \in 0..Len(text) : Weight(text, k) \in Int /\ Weight(text, k) >= -DecimalsOf(text)
           /\ \A k \in 0..Len(text) - 1 :
                 Weight(text, k) = IF k + 1 = Point(text) THEN Weight(text, k + 1)
                                   ELSE Weight(text, k + 1) + 1
  <1> DEFINE n == Len(text)
             p == Point(text)
  <1>1. n \in Nat /\ p \in 1..n + 1 /\ (HasPoint(text) <=> p # n + 1)
    BY PointIs
  <1>2. /\ DecimalsOf(text) = IF p # n + 1 THEN n - p ELSE 0
        /\ DigitsOf(text) = IF p # n + 1 THEN n - 1 ELSE n
    BY <1>1 DEF DecimalsOf, DigitsOf
  <1>3. \A k : Weight(text, k) = IF k < p THEN p - k - 1 ELSE p - k
    BY DEF Weight
  <1> HIDE DEF n, p
  <1>4. DecimalsOf(text) \in Nat /\ DigitsOf(text) \in Nat /\ DecimalsOf(text) <= DigitsOf(text)
    BY <1>1, <1>2
  <1>5. Weight(text, n) = -DecimalsOf(text)
    BY <1>1, <1>2, <1>3
  <1>6. \A k \in 0..n : Weight(text, k) \in Int /\ Weight(text, k) >= -DecimalsOf(text)
    BY <1>1, <1>2, <1>3
  <1>7. \A k \in 0..n - 1 :
            Weight(text, k) = IF k + 1 = p THEN Weight(text, k + 1) ELSE Weight(text, k + 1) + 1
    BY <1>1, <1>3
  <1> QED BY <1>4, <1>5, <1>6, <1>7 DEF n, p

\* The number a numeral stands for is the sum of its digits, with their weights.
LEMMA SummedIs ==
    ASSUME NEW text \in Seq(Chars), Numeral(text), NEW places \in Nat, DecimalsOf(text) <= places
    PROVE  /\ Summed(text, places)[0] = 0
           /\ \A k \in 1..Len(text) : /\ Summand(text, places, k) \in Int
                                      /\ Summed(text, places)[k] = Summed(text, places)[k - 1]
                                                                 + Summand(text, places, k)
  <1> DEFINE n == Len(text)
             term == [k \in 1..n |-> Summand(text, places, k)]
             step == [k \in 1..n |-> [x \in Int |-> x + term[k]]]
             body(f, k) == IF k = 0 THEN 0 ELSE f[k - 1] + Summand(text, places, k)
             Is(f) == f = [k \in 0..n |-> body(f, k)]
             s == Summed(text, places)
  <1>0. n \in Nat /\ 0 \in Int
    OBVIOUS
  <1>1. ASSUME NEW k \in 1..n PROVE Summand(text, places, k) \in Int
    <2>1. text[k] = Dot \/ text[k] \in 0..9
      BY PointIs
    <2>2. places + Weight(text, k) \in Nat
      BY WeightIs
    <2>3. Ten[places + Weight(text, k)] \in Int
      BY <2>2, TenIs
    <2>4. CASE text[k] = Dot
      BY <2>4 DEF Summand
    <2>5. CASE text[k] # Dot
      BY <2>1, <2>3, <2>5 DEF Summand
    <2> QED BY <2>4, <2>5
  <1>2. term \in [1..n -> Int]
    BY <1>1
  <1>3. \A k \in 1..n : term[k] = Summand(text, places, k)
    OBVIOUS
  <1> HIDE DEF term
  <1>4. step \in [1..n -> [Int -> Int]] /\ \A k \in 1..n, x \in Int : step[k][x] = x + term[k]
    BY <1>2
  <1>5. \E f : Is(f)
    <2> HIDE DEF n, step
    <2>1. PICK f \in [0..n -> Int] : Steps(f, n, 0, step)
      BY <1>0, <1>4, Recursion, Zenon
    <2>2. f[0] = 0 /\ \A k \in 1..n : f[k] = step[k][f[k - 1]]
      BY <2>1 DEF Steps
    <2>3. ASSUME NEW k \in 0..n PROVE f[k] = body(f, k)
      <3>1. CASE k = 0
        BY <2>2, <3>1
      <3>2. CASE k # 0
        <4>1. k \in 1..n /\ k - 1 \in 0..n
          BY <1>0, <3>2
        <4>2. f[k - 1] \in Int
          BY <4>1
        <4> QED BY <1>3, <1>4, <2>2, <3>2, <4>1, <4>2, Zenon
      <3> QED BY <3>1, <3>2
    <2>4. f = [k \in 0..n |-> f[k]]
      OBVIOUS
    <2>5. Is(f)
      BY <2>3, <2>4
    <2> QED BY <2>5, Zenon
  <1>6. Is(s)
    BY <1>5, Zenon DEF Summed
  <1> HIDE DEF s, n
  <1>7. s[0] = 0
    <2>1. 0 \in 0..n
      BY <1>0
    <2> QED BY <1>6, <2>1
  <1>8. ASSUME NEW k \in 1..n PROVE s[k] = s[k - 1] + Summand(text, places, k)
    <2>1. k \in 0..n /\ k # 0
      BY <1>0
    <2> QED BY <1>6, <2>1, Zenon
  <1> QED BY <1>1, <1>7, <1>8 DEF s, n

\* What the loop has after k characters of a numeral: all digits so far, their number of
\* decimals, and so, with the weight of the last one, the sum so far.
Read(text, places, k) ==
    LET st == Scanned(text)[k]
        p == Point(text)
    IN  /\ st.okay
        /\ (st.seenDot <=> k >= p)
        /\ st.denom = Ten[IF k >= p THEN k - p ELSE 0]
        /\ st.num < Ten[IF k >= p THEN k - 1 ELSE k]
        /\ Summed(text, places)[k] = st.num * Ten[places + Weight(text, k)]

\* Read holds before the first character.
LEMMA ReadFirst ==
    ASSUME NEW text \in Seq(Chars), Numeral(text), NEW places \in Nat, DecimalsOf(text) <= places
    PROVE  Read(text, places, 0)
  <1> DEFINE e == places + Weight(text, 0)
             p == Point(text)
  <1>1. p \in Nat /\ p >= 1 /\ ~(0 >= p)
    BY PointIs
  <1>2. Scanned(text)[0] = Start /\ Summed(text, places)[0] = 0
    BY ScannedIs, SummedIs
  <1>3. e \in Nat
    <2>1. 0 \in 0..Len(text)
      OBVIOUS
    <2>2. Weight(text, 0) \in Int /\ Weight(text, 0) >= -DecimalsOf(text) /\ DecimalsOf(text) \in Nat
      BY <2>1, WeightIs
    <2> QED BY <2>2
  <1>4. Ten[e] \in Nat /\ Ten[0] = 1
    BY <1>3, TenIs
  <1>5. 0 = 0 * Ten[e]
    BY <1>4
  <1>6. /\ Scanned(text)[0].okay /\ ~Scanned(text)[0].seenDot
        /\ Scanned(text)[0].denom = 1 /\ Scanned(text)[0].num = 0
    BY <1>2 DEF Start
  <1> HIDE DEF e, p
  <1>7. Summed(text, places)[0] = Scanned(text)[0].num * Ten[e]
    BY <1>2, <1>5, <1>6
  <1>8. Ten[IF 0 >= p THEN 0 - p ELSE 0] = 1 /\ Ten[IF 0 >= p THEN 0 - 1 ELSE 0] = 1
    BY <1>1, <1>4
  <1> QED BY <1>1, <1>6, <1>7, <1>8 DEF Read, e, p

\* Reading on: one more digit, in numbers.
LEMMA OneMore ==
    ASSUME NEW num \in Nat, NEW c \in 0..9, NEW t \in Nat, NEW bound \in Nat, num < bound
    PROVE  /\ num * (10 * t) + c * t = (num * 10 + c) * t
           /\ num * 10 + c < 10 * bound
  OBVIOUS

\* A round of the loop keeps Read, for a digit before the point, the point, and a decimal.
LEMMA ReadNext ==
    ASSUME NEW text \in Seq(Chars), Numeral(text), NEW places \in Nat, DecimalsOf(text) <= places,
           NEW k \in 0..Len(text) - 1, Read(text, places, k)
    PROVE  Read(text, places, k + 1)
  <1> DEFINE n == Len(text)
             p == Point(text)
             st == Scanned(text)[k]
             nx == Scanned(text)[k + 1]
             c == text[k + 1]
             sum == Summed(text, places)[k]
             e == places + Weight(text, k)
             f == places + Weight(text, k + 1)
  <1>1. n \in Nat /\ p \in 1..n + 1 /\ k + 1 \in 1..n /\ k \in 0..n /\ k + 1 \in 0..n /\ (k + 1) - 1 = k
    BY PointIs
  <1>2. nx = Scan(st, c) /\ st \in ScanState
    <2>1. Scanned(text)[k + 1] = Scan(Scanned(text)[(k + 1) - 1], text[k + 1])
      BY <1>1, ScannedIs
    <2>2. Scanned(text)[k] \in ScanState
      BY <1>1, ScannedIs
    <2> QED BY <1>1, <2>1, <2>2
  <1>3. (c = Dot <=> k + 1 = p) /\ (c # Dot => c \in 0..9)
    BY <1>1, PointIs
  <1>4. Summed(text, places)[k + 1] = sum + Summand(text, places, k + 1)
    BY <1>1, SummedIs
  <1>5. e \in Nat /\ f \in Nat /\ e = IF k + 1 = p THEN f ELSE f + 1
    <2>1. DecimalsOf(text) \in Nat
      BY WeightIs
    <2>2. /\ Weight(text, k) \in Int /\ Weight(text, k) >= -DecimalsOf(text)
          /\ Weight(text, k + 1) \in Int /\ Weight(text, k + 1) >= -DecimalsOf(text)
      BY <1>1, WeightIs
    <2>3. Weight(text, k) = IF k + 1 = p THEN Weight(text, k + 1) ELSE Weight(text, k + 1) + 1
      BY <1>1, WeightIs
    <2> QED BY <2>1, <2>2, <2>3
  <1>6. /\ st.okay /\ (st.seenDot <=> k >= p)
        /\ st.denom = Ten[IF k >= p THEN k - p ELSE 0]
        /\ st.num < Ten[IF k >= p THEN k - 1 ELSE k]
        /\ sum = st.num * Ten[e]
    BY Zenon DEF Read
  <1>7. Summand(text, places, k + 1) = IF c = Dot THEN 0 ELSE c * Ten[f]
    BY DEF Summand
  <1>8. Ten[f] \in Nat /\ (e = f + 1 => Ten[e] = 10 * Ten[f])
    BY <1>5, TenIs, Zenon
  <1>9. SUFFICES /\ nx.okay /\ (nx.seenDot <=> k + 1 >= p)
                 /\ nx.denom = Ten[IF k + 1 >= p THEN (k + 1) - p ELSE 0]
                 /\ nx.num < Ten[IF k + 1 >= p THEN (k + 1) - 1 ELSE k + 1]
                 /\ Summed(text, places)[k + 1] = nx.num * Ten[f]
    BY Zenon DEF Read
  <1> HIDE DEF n, p, st, nx, c, sum, e, f
  <1>10. CASE k + 1 = p
    <2>1. ~(k >= p) /\ k + 1 >= p /\ (k + 1) - p = 0 /\ (k + 1) - 1 = k
      BY <1>1, <1>10
    <2>2. nx = [st EXCEPT !.seenDot = TRUE]
      BY <1>2, <1>3, <1>6, <1>10, <2>1, ScanOfDot
    <2>3. nx.okay /\ nx.seenDot /\ nx.denom = st.denom /\ nx.num = st.num
      BY <1>2, <1>6, <2>2 DEF ScanState
    <2>4. nx.denom = Ten[IF k + 1 >= p THEN (k + 1) - p ELSE 0]
      BY <1>6, <2>1, <2>3
    <2>5. nx.num < Ten[IF k + 1 >= p THEN (k + 1) - 1 ELSE k + 1]
      BY <1>6, <2>1, <2>3
    <2>6. sum \in Int
      <3>1. st.num \in Nat
        BY <1>2 DEF ScanState
      <3> QED BY <1>6, <1>8, <1>5, <1>10, <3>1
    <2>7. Summed(text, places)[k + 1] = nx.num * Ten[f]
      BY <1>3, <1>4, <1>5, <1>6, <1>7, <1>10, <2>3, <2>6
    <2> QED BY <2>1, <2>3, <2>4, <2>5, <2>7
  <1>11. CASE k + 1 # p
    <2>1. (k + 1 >= p <=> k >= p) /\ (k >= p => k >= 1 /\ (k + 1) - p = (k - p) + 1 /\ k - p \in Nat)
      BY <1>1, <1>11
    <2>2. c \in 0..9 /\ e = f + 1
      BY <1>3, <1>5, <1>11
    <2>3. nx = [st EXCEPT !.num = st.num * 10 + c,
                          !.denom = IF st.seenDot THEN st.denom * 10 ELSE st.denom]
      BY <1>2, <1>6, <2>2, ScanOfDigit, Zenon
    <2>4. /\ nx.okay /\ nx.seenDot = st.seenDot /\ nx.num = st.num * 10 + c
          /\ nx.denom = IF st.seenDot THEN st.denom * 10 ELSE st.denom
      BY <1>2, <1>6, <2>3 DEF ScanState
    <2>5. nx.denom = Ten[IF k + 1 >= p THEN (k + 1) - p ELSE 0]
      <3>1. CASE k >= p
        <4>1. Ten[(k - p) + 1] = 10 * Ten[k - p] /\ Ten[k - p] \in Nat
          BY <2>1, <3>1, TenIs, Zenon
        <4> QED BY <1>6, <2>1, <2>4, <3>1, <4>1
      <3>2. CASE ~(k >= p)
        BY <1>6, <2>1, <2>4, <3>2
      <3> QED BY <3>1, <3>2
    <2> DEFINE d == IF k >= p THEN k - 1 ELSE k
    <2>6. d \in Nat /\ (IF k + 1 >= p THEN (k + 1) - 1 ELSE k + 1) = d + 1
      BY <1>1, <2>1
    <2>7. st.num < Ten[d]
      BY <1>6
    <2> HIDE DEF d
    <2>8. Ten[d] \in Nat /\ Ten[d + 1] = 10 * Ten[d] /\ st.num \in Nat
      BY <1>2, <2>6, TenIs, Zenon DEF ScanState
    <2>9. /\ st.num * (10 * Ten[f]) + c * Ten[f] = (st.num * 10 + c) * Ten[f]
          /\ st.num * 10 + c < 10 * Ten[d]
      BY <1>8, <2>2, <2>7, <2>8, OneMore, Zenon
    <2>10. nx.num < Ten[IF k + 1 >= p THEN (k + 1) - 1 ELSE k + 1]
      BY <2>4, <2>6, <2>8, <2>9
    <2>11. c # Dot
      BY <1>3, <1>11
    <2>12. Summed(text, places)[k + 1] = nx.num * Ten[f]
      BY <1>4, <1>6, <1>7, <1>8, <2>2, <2>4, <2>9, <2>11
    <2> QED BY <1>6, <2>1, <2>4, <2>5, <2>10, <2>12
  <1> QED BY <1>10, <1>11

\* A numeral is read as the number it stands for, exactly.
LEMMA NumeralRead ==
    ASSUME NEW text \in Seq(Chars), Numeral(text), NEW places \in Nat, DecimalsOf(text) <= places,
           NEW st, st = Scanned(text)[Len(text)]
    PROVE  /\ st.okay /\ st.num \in Nat /\ st.num < Ten[DigitsOf(text)]
           /\ st.denom = Ten[DecimalsOf(text)]
           /\ Scaled(text, places) = st.num * Ten[places - DecimalsOf(text)]
  <1> DEFINE n == Len(text)
             p == Point(text)
             T == {k \in Nat : Read(text, places, k)}
  <1>0. n \in Nat /\ p \in 1..n + 1 /\ (HasPoint(text) <=> p # n + 1) /\ n \in 0..n
    BY PointIs
  <1>1. 0 \in T
    BY ReadFirst
  <1>2. ASSUME NEW k \in 0..n - 1, k \in T PROVE k + 1 \in T
    BY <1>2, ReadNext
  <1>3. Read(text, places, n)
    <2> HIDE DEF T, n
    <2>1. \A k \in 0..n : k \in T
      BY <1>0, <1>1, <1>2, Climb
    <2> QED BY <1>0, <2>1 DEF T
  <1>4. /\ st.okay /\ st.denom = Ten[IF n >= p THEN n - p ELSE 0]
        /\ st.num < Ten[IF n >= p THEN n - 1 ELSE n]
        /\ Scaled(text, places) = st.num * Ten[places + Weight(text, n)]
    BY <1>3 DEF Read, Scaled
  <1>5. /\ DecimalsOf(text) = IF n >= p THEN n - p ELSE 0
        /\ DigitsOf(text) = IF n >= p THEN n - 1 ELSE n
    BY <1>0 DEF DecimalsOf, DigitsOf
  <1>6. st \in ScanState
    BY <1>0, ScannedIs
  <1>7. places + Weight(text, n) = places - DecimalsOf(text)
    <2>1. Weight(text, n) = -DecimalsOf(text) /\ DecimalsOf(text) \in Nat
      BY WeightIs
    <2> QED BY <2>1
  <1> HIDE DEF n, p
  <1> QED BY <1>4, <1>5, <1>6, <1>7, Zenon DEF ScanState
-------------------------------------------------------------------------------
(* PriceArithmetic: computeMean *)

\* The division of two powers of ten.
LEMMA QuotientOfTens ==
    ASSUME NEW i \in Nat, NEW j \in Nat, j <= i
    PROVE  Quotient(Ten[i], Ten[j]) = Ten[i - j]
  <1>1. i - j \in Nat /\ (i - j) + j = i
    OBVIOUS
  <1>2. Ten[i] = Ten[i - j] * Ten[j] /\ Ten[i - j] \in Nat /\ Ten[j] \in Nat \ {0} /\ Ten[i] \in Nat
    BY <1>1, TenIs, TenPlus, Zenon
  <1>3. (Ten[i - j] * Ten[j]) \div Ten[j] = Ten[i - j]
    BY <1>2, DividedMultiple
  <1>4. Quotient(Ten[i], Ten[j]) = Ten[i] \div Ten[j]
    BY <1>2, OfNaturals, Zenon
  <1> QED BY <1>2, <1>3, <1>4

\* Half of a sum, over the denominator that goes with it, is half of it exactly.
LEMMA HalvedIs ==
    ASSUME NEW sum \in Nat, NEW d \in Nat \ {0}, 2 * d < Limit, NEW h, h = Halved(sum, d)
    PROVE  h.denom > 0 /\ 2 * h.num * d = h.denom * sum
  <1>1. Quotient(sum, 2) = sum \div 2 /\ Remainder(sum, 2) = sum % 2
    BY OfNaturals
  <1>2. Wrap(d * 2) = 2 * d
    <2>1. d * 2 \in Int /\ d * 2 = 2 * d /\ d * 2 \in Word
      BY LimitIs DEF Word
    <2> QED BY <2>1, WrapIs
  <1>3. CASE sum % 2 = 0
    <2> DEFINE half == sum \div 2
    <2>1. half \in Nat /\ sum = 2 * half
      BY <1>3
    <2>2. h = [num |-> half, denom |-> d]
      BY <1>1, <1>3 DEF Halved
    <2> HIDE DEF half
    <2>3. h.num = half /\ h.denom = d
      BY <2>2
    <2>4. 2 * half * d = d * (2 * half)
      BY <2>1
    <2> QED BY <2>1, <2>3, <2>4
  <1>4. CASE sum % 2 # 0
    <2>1. h = [num |-> sum, denom |-> 2 * d]
      BY <1>1, <1>2, <1>4 DEF Halved
    <2>2. h.num = sum /\ h.denom = 2 * d
      BY <2>1
    <2>3. 2 * sum * d = (2 * d) * sum /\ 2 * d > 0
      OBVIOUS
    <2> QED BY <2>2, <2>3
  <1> QED BY <1>3, <1>4

\* The numerators of two fractions over 10^i and 10^j are x and y over the larger power,
\* and fit.
Aligned(p, q, i, j, pl, x, y) ==
    /\ p.num \in Nat /\ q.num \in Nat /\ i \in Nat /\ j \in Nat
    /\ pl = IF i < j THEN j ELSE i
    /\ p.denom = Ten[i] /\ q.denom = Ten[j]
    /\ x = p.num * Ten[pl - i] /\ y = q.num * Ten[pl - j]
    /\ 2 * x < Limit /\ 2 * y < Limit /\ 2 * Ten[pl] < Limit

\* Two fractions over powers of ten are brought to the larger one.
LEMMA MeanIs ==
    ASSUME NEW p, NEW q, NEW i, NEW j, NEW pl, NEW x, NEW y, Aligned(p, q, i, j, pl, x, y)
    PROVE  computeMean(p, q) = Halved(x + y, Ten[pl]) /\ x \in Nat /\ y \in Nat
  <1> DEFINE n1 == p.num
             n2 == q.num
  <1>0. SUFFICES ASSUME n1 \in Nat, n2 \in Nat, i \in Nat, j \in Nat, pl = (IF i < j THEN j ELSE i),
                        x = n1 * Ten[pl - i], y = n2 * Ten[pl - j],
                        2 * x < Limit, 2 * y < Limit, 2 * Ten[pl] < Limit
                 PROVE  computeMean(p, q) = Halved(x + y, Ten[pl]) /\ x \in Nat /\ y \in Nat
    BY DEF Aligned
  <1>1. p.num = n1 /\ p.denom = Ten[i] /\ q.num = n2 /\ q.denom = Ten[j]
    BY DEF Aligned
  <1> HIDE DEF n1, n2
  <1>2. pl \in Nat /\ pl - i \in Nat /\ pl - j \in Nat
    BY <1>0
  <1>3. Ten[pl - i] \in Nat /\ Ten[pl - j] \in Nat /\ Ten[pl] \in Nat \ {0}
    BY <1>0, <1>2, TenIs
  <1>4. x \in Nat /\ y \in Nat /\ x \in Word /\ y \in Word /\ x + y \in Word /\ Ten[pl] \in Word
    <2>1. x \in Nat /\ y \in Nat
      BY <1>0, <1>3
    <2>2. Limit \in Nat /\ Word = -Limit..Limit - 1
      BY LimitIs DEF Word
    <2>3. \A a \in Nat : 2 * a < Limit => a \in Word
      BY <2>2
    <2>4. x + y \in Word
      <3>1. \A a, b \in Nat : 2 * a < Limit /\ 2 * b < Limit => a + b \in Word
        BY <2>2
      <3> QED BY <1>0, <2>1, <3>1, Zenon
    <2> QED BY <1>0, <1>3, <2>1, <2>3, <2>4
  <1>5. Wrap(x) = x /\ Wrap(y) = y /\ Wrap(x + y) = x + y /\ Wrap(Ten[pl]) = Ten[pl]
    BY <1>3, <1>4, WrapIs
  <1>6. CASE i = j
    <2>1. pl = i /\ pl - i = 0 /\ pl - j = 0
      BY <1>0, <1>6
    <2>2. x = n1 /\ y = n2
      BY <1>0, <2>1, TenIs
    <2> QED BY <1>1, <1>4, <1>5, <1>6, <2>1, <2>2, Zenon DEF computeMean
  <1>7. CASE i # j
    <2> DEFINE m == IF i < j THEN i ELSE j
               g == gcd[<<Ten[i], Ten[j]>>]
    <2>1. Ten[i] # Ten[j]
      <3>1. i < j \/ j < i
        BY <1>0, <1>7
      <3>2. \A a, b \in Nat : a < b => a # b
        OBVIOUS
      <3> QED BY <1>0, <3>1, <3>2, TenGrowsStrictly, TenIs, Zenon
    <2>2. g = Ten[m]
      BY <1>0, GcdOfTens, Zenon
    <2>3. m \in Nat /\ m <= i /\ m <= j /\ j - m = pl - i /\ i - m = pl - j /\ (pl - j) + j = pl
      BY <1>0, <1>7
    <2> HIDE DEF m, g
    <2>4. Quotient(Ten[j], g) = Ten[pl - i] /\ Quotient(Ten[i], g) = Ten[pl - j]
      BY <1>0, <2>2, <2>3, QuotientOfTens
    <2>5. Ten[pl - j] * Ten[j] = Ten[pl]
      BY <1>0, <1>2, <2>3, TenPlus, Zenon
    <2>6. computeMean(p, q) = Halved(Wrap(Wrap(x) + Wrap(y)), Wrap(Ten[pl]))
      BY <1>0, <1>1, <2>1, <2>4, <2>5, Zenon DEF computeMean, g
    <2> QED BY <1>4, <1>5, <2>6
  <1> QED BY <1>6, <1>7

\* The price of a numeral that fits is the number and its decimals.
LEMMA PriceOfNumeral ==
    ASSUME NEW text \in Seq(Chars), Numeral(text), DigitsOf(text) <= Digits,
           NEW p \in priceStringToRational(text)
    PROVE  p = [num |-> Scanned(text)[Len(text)].num, denom |-> Ten[DecimalsOf(text)]]
  <1> DEFINE st == Scanned(text)[Len(text)]
             d == DecimalsOf(text)
  <1>1. d \in Nat /\ DigitsOf(text) \in Nat /\ d <= DigitsOf(text) /\ Digits \in Nat
    BY WeightIs, ArithmeticAssumption
  <1>2. st.okay /\ st.num \in Nat /\ st.num < Ten[DigitsOf(text)] /\ st.denom = Ten[d]
    <2>1. d <= d
      BY <1>1
    <2> HIDE DEF st
    <2> QED BY <1>1, <2>1, NumeralRead, Zenon DEF st
  <1> HIDE DEF d
  <1>3. Ten[DigitsOf(text)] <= Ten[Digits] /\ Ten[d] <= Ten[Digits]
    BY <1>1, TenGrows
  <1>4. Ten[DigitsOf(text)] \in Nat /\ Ten[Digits] \in Nat /\ Ten[d] \in Nat
    BY <1>1, TenIs, Zenon
  <1>5. p = [num |-> Wrap(st.num), denom |-> Wrap(st.denom)]
    BY <1>2, Zenon DEF priceStringToRational
  <1> HIDE DEF st
  <1>6. st.num \in Word /\ st.denom \in Word /\ st.num \in Int /\ st.denom \in Int
    BY <1>2, <1>3, <1>4, LimitIs DEF Word
  <1>7. Wrap(st.num) = st.num /\ Wrap(st.denom) = Ten[d]
    BY <1>2, <1>6, WrapIs
  <1> QED BY <1>5, <1>7, Zenon DEF st, d

\* A numeral scaled to the common decimals still fits.
LEMMA ScaledFits ==
    ASSUME NEW num \in Nat, NEW digits \in Nat, NEW e \in Nat, num < Ten[digits],
           digits + e <= Digits
    PROVE  2 * (num * Ten[e]) < Limit
  <1>1. Ten[digits] \in Nat /\ Ten[e] \in Nat \ {0} /\ Ten[digits + e] = Ten[digits] * Ten[e]
    BY TenIs, TenPlus, Zenon
  <1>2. num * Ten[e] < Ten[digits] * Ten[e] /\ num * Ten[e] \in Nat
    BY <1>1, GrowsStrictly
  <1>3. digits + e \in Nat /\ Digits \in Nat
    BY ArithmeticAssumption
  <1>4. Ten[digits + e] <= Ten[Digits] /\ Ten[digits + e] \in Nat /\ Ten[Digits] \in Nat
    BY <1>3, TenGrows, TenIs, Zenon
  <1> QED BY <1>1, <1>2, <1>4, LimitIs

\* The mean of the prices of two numerals is exact.
LEMMA MeanOfNumerals ==
    ASSUME NEW s \in Seq(Chars), NEW t \in Seq(Chars), Safe(s, t),
           NEW p \in priceStringToRational(s), NEW q \in priceStringToRational(t),
           NEW m, m = computeMean(p, q), NEW places, places = CommonPlaces(s, t)
    PROVE  /\ m.denom > 0
           /\ 2 * m.num * Ten[places] = m.denom * (Scaled(s, places) + Scaled(t, places))
  <1> DEFINE n1 == Scanned(s)[Len(s)].num
             n2 == Scanned(t)[Len(t)].num
             i == DecimalsOf(s)
             j == DecimalsOf(t)
             x == n1 * Ten[places - i]
             y == n2 * Ten[places - j]
  <1>0. /\ Numeral(s) /\ Numeral(t) /\ DigitsOf(s) <= Digits /\ DigitsOf(t) <= Digits
        /\ DigitsOf(s) + j - i <= Digits /\ DigitsOf(t) + i - j <= Digits
    BY DEF Safe, Fits
  <1>1. /\ i \in Nat /\ j \in Nat /\ DigitsOf(s) \in Nat /\ DigitsOf(t) \in Nat
        /\ i <= DigitsOf(s) /\ j <= DigitsOf(t)
    BY <1>0, WeightIs
  <1>2. places = IF i < j THEN j ELSE i
    BY DEF CommonPlaces
  <1> HIDE DEF i, j
  <1>3. /\ places \in Nat /\ i <= places /\ j <= places /\ places - i \in Nat /\ places - j \in Nat
        /\ DigitsOf(s) + (places - i) <= Digits /\ DigitsOf(t) + (places - j) <= Digits
        /\ places <= Digits
    <2>1. Digits \in Nat
      BY ArithmeticAssumption
    <2>2. CASE i < j
      BY <1>0, <1>1, <1>2, <2>1, <2>2
    <2>3. CASE ~(i < j)
      BY <1>0, <1>1, <1>2, <2>1, <2>3
    <2> QED BY <2>2, <2>3
  <1>4. n1 \in Nat /\ n1 < Ten[DigitsOf(s)] /\ Scaled(s, places) = x
    BY <1>0, <1>3, NumeralRead, Zenon DEF i
  <1>5. n2 \in Nat /\ n2 < Ten[DigitsOf(t)] /\ Scaled(t, places) = y
    BY <1>0, <1>3, NumeralRead, Zenon DEF j
  <1>6. p = [num |-> n1, denom |-> Ten[i]] /\ q = [num |-> n2, denom |-> Ten[j]]
    BY <1>0, PriceOfNumeral DEF i, j
  <1> HIDE DEF n1, n2
  <1>7. 2 * x < Limit /\ 2 * y < Limit
    BY <1>1, <1>3, <1>4, <1>5, ScaledFits, Zenon
  <1>8. 2 * Ten[places] < Limit
    <2>1. Ten[places] <= Ten[Digits] /\ Ten[places] \in Nat /\ Ten[Digits] \in Nat
      BY <1>3, TenGrows, TenIs, ArithmeticAssumption
    <2> QED BY <2>1, LimitIs
  <1>x. x = n1 * Ten[places - i] /\ y = n2 * Ten[places - j]
    OBVIOUS
  <1> HIDE DEF x, y
  <1>9. m = Halved(x + y, Ten[places]) /\ x \in Nat /\ y \in Nat
    <2>1. computeMean(p, q) = Halved(x + y, Ten[places]) /\ x \in Nat /\ y \in Nat
      <3>1. p.num = n1 /\ p.denom = Ten[i] /\ q.num = n2 /\ q.denom = Ten[j]
        BY <1>6
      <3>2. Aligned(p, q, i, j, places, x, y)
        BY <1>1, <1>2, <1>4, <1>5, <1>7, <1>8, <1>x, <3>1 DEF Aligned
      <3> QED BY <3>2, MeanIs
    <2> QED BY <2>1
  <1>10. Ten[places] \in Nat \ {0} /\ x + y \in Nat
    BY <1>3, <1>9, TenIs
  <1>11. m.denom > 0 /\ 2 * m.num * Ten[places] = m.denom * (x + y)
    BY <1>8, <1>9, <1>10, HalvedIs
  <1> QED BY <1>4, <1>5, <1>11

\* Half of an integer of the width is one.
LEMMA HalvedTyped ==
    ASSUME NEW sum \in Word, NEW d \in Word
    PROVE  Halved(sum, d) \in Fraction
  <1>0. Limit \in Nat \ {0} /\ Word = -Limit..Limit - 1
    BY LimitIs DEF Word
  <1>1. Quotient(sum, 2) \in Word
    <2>1. CASE sum >= 0
      <3>1. Quotient(sum, 2) = sum \div 2
        BY <1>0, <2>1 DEF Quotient, Abs
      <3> QED BY <1>0, <2>1, <3>1
    <2>2. CASE ~(sum >= 0)
      <3>1. Quotient(sum, 2) = -((-sum) \div 2)
        BY <1>0, <2>2 DEF Quotient, Abs
      <3> QED BY <1>0, <2>2, <3>1
    <2> QED BY <2>1, <2>2
  <1>2. Wrap(d * 2) \in Word
    <2>1. d * 2 \in Int
      BY <1>0
    <2> QED BY <2>1, WrapIs
  <1>3. Halved(sum, d) = [num |-> Quotient(sum, 2), denom |-> d]
        \/ Halved(sum, d) = [num |-> sum, denom |-> Wrap(d * 2)]
    BY DEF Halved
  <1> QED BY <1>1, <1>2, <1>3 DEF Fraction

\* The mean of any two fractions is one: nothing is divided by zero.
LEMMA MeanTyped ==
    ASSUME NEW p \in Fraction, NEW q \in Fraction
    PROVE  computeMean(p, q) \in Fraction
  <1> DEFINE a == p.denom
             b == q.denom
             g == gcd[<<a, b>>]
             c1 == Wrap(p.num * Quotient(b, g))
             c2 == Wrap(q.num * Quotient(a, g))
             c3 == Wrap(Quotient(a, g) * b)
  <1>0. p.num \in Word /\ q.num \in Word /\ a \in Word /\ b \in Word
    BY DEF Fraction
  <1>1. \A x \in Word : x \in Int
    BY LimitIs DEF Word
  <1>2. \A x, y \in Int : x * y \in Int /\ x + y \in Int
    OBVIOUS
  <1>3. CASE a = b
    <2>1. Wrap(p.num + q.num) \in Word
      BY <1>0, <1>1, <1>2, WrapIs
    <2> QED BY <1>0, <1>3, <2>1, HalvedTyped DEF computeMean
  <1>4. CASE a # b
    <2>1. g \in Int /\ g # 0
      <3> DEFINE r == <<a, b>>
      <3>1. r \in Pair /\ r[1] = a /\ r[2] = b
        BY <1>0, <1>1 DEF Pair
      <3>2. a # 0 \/ b # 0
        BY <1>4
      <3> HIDE DEF r, a, b
      <3>3. gcd[r] \in Int /\ gcd[r] # 0
        BY <3>1, <3>2, GcdIs
      <3> QED BY <3>3 DEF r
    <2> HIDE DEF a, b, g
    <2>2. Quotient(a, g) \in Int /\ Quotient(b, g) \in Int
      BY <1>0, <1>1, <2>1, QuotientIs
    <2>3. c1 \in Word /\ c2 \in Word /\ c3 \in Word
      BY <1>0, <1>1, <1>2, <2>2, WrapIs
    <2>4. computeMean(p, q) = Halved(Wrap(c1 + c2), c3)
      BY <1>4 DEF computeMean, a, b, g
    <2> HIDE DEF c1, c2, c3
    <2>5. Wrap(c1 + c2) \in Word
      BY <1>1, <1>2, <2>3, WrapIs
    <2> QED BY <2>3, <2>4, <2>5, HalvedTyped
  <1> QED BY <1>3, <1>4

\* The price of any text is a fraction, if there is one.
LEMMA PriceTextTyped ==
    ASSUME NEW text \in Text, NEW p \in priceStringToRational(text)
    PROVE  p \in Fraction
  <1> DEFINE st == Scanned(text)[Len(text)]
             bf == Scanned(text)[Prefix(text)]
             r == Round(bf.num * Ten[Decimals], bf.denom)
  <1>0. text \in Seq(Chars) /\ Len(text) \in 0..Len(text)
    BY TextIs
  <1>1. st \in ScanState /\ bf \in ScanState
    <2>1. Scanned(text) \in [0..Len(text) -> ScanState]
      BY <1>0, ScannedIs
    <2>2. Prefix(text) \in 0..Len(text)
      BY <1>0, PrefixIs
    <2> QED BY <1>0, <2>1, <2>2
  <1>2. Wrap(st.num) \in Word /\ Wrap(st.denom) \in Word
    <2>1. st.num \in Int /\ st.denom \in Int
      BY <1>1 DEF ScanState
    <2> QED BY <2>1, WrapIs
  <1>3. Limit \in Nat \ {0} /\ Word = -Limit..Limit - 1
    BY LimitIs DEF Word
  <1>4. Ten[Decimals] \in Word
    <2>1. Ten[Decimals] \in Nat
      BY TenIs, ArithmeticAssumption
    <2> QED BY <1>3, <2>1, LimitIs
  <1>5. Cast(r) \subseteq Word
    BY <1>3 DEF Cast
  <1>6. \/ p = [num |-> Wrap(st.num), denom |-> Wrap(st.denom)]
        \/ p \in [num : Cast(r), denom : {Ten[Decimals]}]
    <2> HIDE DEF r
    <2> QED BY Zenon DEF priceStringToRational, r
  <1> HIDE DEF r, st
  <1> QED BY <1>2, <1>4, <1>5, <1>6 DEF Fraction
-------------------------------------------------------------------------------
(* PriceArithmetic: the invariant and the theorems *)

\* The prices are those of the texts so far, and the mean is that of two of them.
PriceInv ==
    /\ PriceTypeOK
    /\ Len(prices) >= 1 => prices[1] \in priceStringToRational(texts[1])
    /\ Len(prices) = 2 => prices[2] \in priceStringToRational(texts[2])
    /\ stage = "ask" => Len(prices) < 2
    /\ stage \in {"combine", "done"} => Len(prices) = 2
    /\ stage = "done" => mean = computeMean(prices[1], prices[2])

\* PriceInv holds before an exchange is asked.
LEMMA PriceInitInv == PriceInit => PriceInv
  <1> SUFFICES ASSUME PriceInit PROVE PriceInv
    OBVIOUS
  <1>1. texts \in Text \X Text /\ prices = <<>> /\ mean = NoFraction /\ stage = "ask"
    BY DEF PriceInit
  <1>2. prices \in Seq(Fraction) /\ Len(prices) = 0
    BY <1>1
  <1>3. mean \in Fraction
    <2>1. 0 \in Word /\ 1 \in Word
      <3>1. Limit \in Nat /\ 2 <= Limit
        <4>1. Ten[Digits] \in Nat \ {0}
          BY TenIs, ArithmeticAssumption
        <4> QED BY <4>1, LimitIs
      <3> QED BY <3>1 DEF Word
    <2> QED BY <1>1, <2>1 DEF NoFraction, Fraction
  <1> QED BY <1>1, <1>2, <1>3 DEF PriceInv, PriceTypeOK

\* A price joins the others.
LEMMA Joins ==
    ASSUME NEW S, NEW s \in Seq(S), NEW x \in S
    PROVE  /\ Append(s, x) \in Seq(S) /\ Len(Append(s, x)) = Len(s) + 1
           /\ \A k \in 1..Len(s) : Append(s, x)[k] = s[k]
           /\ Append(s, x)[Len(s) + 1] = x
  OBVIOUS

\* A second price joins the first.
LEMMA SecondJoins ==
    ASSUME NEW S, NEW s \in Seq(S), NEW x \in S, NEW t, t = Append(s, x)
    PROVE  Len(s) = 1 => t \in Seq(S) /\ Len(t) = 2 /\ t[1] = s[1] /\ t[2] = x
  <1>1. /\ t \in Seq(S) /\ Len(t) = Len(s) + 1
        /\ \A k \in 1..Len(s) : t[k] = s[k]
        /\ t[Len(s) + 1] = x
    BY Joins
  <1>2. ASSUME Len(s) = 1 PROVE 1 \in 1..Len(s) /\ Len(s) + 1 = 2
    BY <1>2
  <1> QED BY <1>1, <1>2

\* Asking an exchange keeps PriceInv, whether its text is refused or not.
LEMMA AskProviderInv == PriceInv /\ AskProvider => PriceInv'
  <1> SUFFICES ASSUME PriceInv, AskProvider PROVE PriceInv'
    OBVIOUS
  <1>0. /\ texts \in Text \X Text /\ prices \in Seq(Fraction) /\ mean \in Fraction
        /\ Len(prices) >= 1 => prices[1] \in priceStringToRational(texts[1])
        /\ stage = "ask" /\ Len(prices) < 2 /\ Len(prices) \in Nat
    BY DEF PriceInv, PriceTypeOK, AskProvider
  <1>1. UNCHANGED <<texts, mean>> /\ texts' \in Text \X Text /\ mean' \in Fraction
    BY <1>0 DEF AskProvider
  <1> DEFINE result == priceStringToRational(texts[Len(prices) + 1])
  <1>2. \/ result = {} /\ stage' = "failed" /\ UNCHANGED prices
        \/ \E f \in result : /\ prices' = Append(prices, f)
                             /\ stage' = IF Len(prices) = 1 THEN "combine" ELSE "ask"
    BY DEF AskProvider
  <1>3. CASE stage' = "failed" /\ UNCHANGED prices
    BY <1>0, <1>1, <1>3 DEF PriceInv, PriceTypeOK
  <1>4. ASSUME NEW f \in result, prices' = Append(prices, f),
               stage' = IF Len(prices) = 1 THEN "combine" ELSE "ask"
        PROVE  PriceInv'
    <2>1. CASE Len(prices) = 0
      <3>1. f \in priceStringToRational(texts[1]) /\ texts[1] \in Text
        BY <1>0, <2>1, <1>4
      <3>2. f \in Fraction
        BY <3>1, PriceTextTyped
      <3>3. prices' \in Seq(Fraction) /\ Len(prices') = 1 /\ prices'[1] = f /\ stage' = "ask"
        BY <1>0, <1>4, <2>1, <3>2
      <3> QED BY <1>1, <3>1, <3>3 DEF PriceInv, PriceTypeOK
    <2>2. CASE Len(prices) = 1
      <3>1. f \in priceStringToRational(texts[2]) /\ texts[2] \in Text
        <4>1. Len(prices) + 1 = 2
          BY <2>2
        <4> QED BY <1>0, <1>4, <4>1
      <3>2. f \in Fraction
        BY <3>1, PriceTextTyped
      <3>3. /\ prices' \in Seq(Fraction) /\ Len(prices') = 2
            /\ prices'[1] = prices[1] /\ prices'[2] = f /\ stage' = "combine"
        <4>1. prices \in Seq(Fraction) /\ Len(prices) = 1
          BY <1>0, <2>2
        <4>2. prices' = Append(prices, f) /\ stage' = "combine"
          BY <1>4, <2>2
        <4> QED BY <3>2, <4>1, <4>2, SecondJoins
      <3>4. prices[1] \in priceStringToRational(texts[1])
        BY <1>0, <2>2
      <3>5. PriceTypeOK'
        BY <1>1, <3>3 DEF PriceTypeOK
      <3>6. /\ prices'[1] \in priceStringToRational(texts'[1])
            /\ prices'[2] \in priceStringToRational(texts'[2])
        BY <1>1, <3>1, <3>3, <3>4, Zenon
      <3> QED BY <3>3, <3>5, <3>6 DEF PriceInv
    <2>3. Len(prices) = 0 \/ Len(prices) = 1
      <3>1. \A n \in Nat : n < 2 => n = 0 \/ n = 1
        OBVIOUS
      <3>2. Len(prices) \in Nat /\ Len(prices) < 2
        BY <1>0
      <3> QED BY <3>1, <3>2, Zenon
    <2> QED BY <2>1, <2>2, <2>3
  <1> QED BY <1>2, <1>3, <1>4

\* Combining two prices keeps PriceInv.
LEMMA CombineInv == PriceInv /\ Combine => PriceInv'
  <1> SUFFICES ASSUME PriceInv, Combine PROVE PriceInv'
    OBVIOUS
  <1>0. /\ texts \in Text \X Text /\ prices \in Seq(Fraction) /\ Len(prices) = 2
        /\ prices[1] \in priceStringToRational(texts[1])
        /\ prices[2] \in priceStringToRational(texts[2])
    <2>1. texts \in Text \X Text /\ prices \in Seq(Fraction) /\ Len(prices) = 2
      BY DEF PriceInv, PriceTypeOK, Combine
    <2>2. Len(prices) >= 1
      BY <2>1
    <2> QED BY <2>1, <2>2 DEF PriceInv
  <1>1. /\ mean' = computeMean(prices[1], prices[2]) /\ stage' = "done"
        /\ texts' = texts /\ prices' = prices
    BY DEF Combine
  <1>2. prices[1] \in Fraction /\ prices[2] \in Fraction
    <2>1. texts[1] \in Text /\ texts[2] \in Text
      BY <1>0
    <2> QED BY <1>0, <2>1, PriceTextTyped
  <1>3. mean' \in Fraction
    BY <1>1, <1>2, MeanTyped
  <1> QED BY <1>0, <1>1, <1>3, Zenon DEF PriceInv, PriceTypeOK

\* PriceInv is inductive (CombinedPriceProvider::getPriceAtTimestamp).
LEMMA PriceStep == PriceInv /\ [PriceNext]_priceVars => PriceInv'
  <1> SUFFICES ASSUME PriceInv, [PriceNext]_priceVars PROVE PriceInv'
    OBVIOUS
  <1>1. CASE UNCHANGED priceVars
    <2>1. texts' = texts /\ prices' = prices /\ mean' = mean /\ stage' = stage
      BY <1>1 DEF priceVars
    <2> QED BY <2>1 DEF PriceInv, PriceTypeOK
  <1> QED BY <1>1, AskProviderInv, CombineInv DEF PriceNext

\* The combined price of two numerals whose digits fit is exactly their mean, whatever their
\* lengths and the places of their points (priceStringToRational, computeMean).
THEOREM MeanCorrect == PriceSpec => []MeanIsExact
  <1>1. PriceInv => MeanIsExact
    <2> SUFFICES ASSUME PriceInv, stage = "done", Safe(texts[1], texts[2])
                 PROVE  LET places == CommonPlaces(texts[1], texts[2])
                        IN  /\ mean.denom > 0
                            /\ 2 * mean.num * Ten[places]
                                   = mean.denom * (Scaled(texts[1], places) + Scaled(texts[2], places))
      BY DEF MeanIsExact
    <2>1. /\ texts \in Text \X Text /\ mean = computeMean(prices[1], prices[2])
          /\ prices[1] \in priceStringToRational(texts[1])
          /\ prices[2] \in priceStringToRational(texts[2])
      <3>1. texts \in Text \X Text /\ Len(prices) = 2 /\ mean = computeMean(prices[1], prices[2])
        BY DEF PriceInv, PriceTypeOK
      <3>2. Len(prices) >= 1
        BY <3>1
      <3> QED BY <3>1, <3>2 DEF PriceInv
    <2>2. texts[1] \in Seq(Chars) /\ texts[2] \in Seq(Chars)
      BY <2>1, TextIs
    <2> QED BY <2>1, <2>2, MeanOfNumerals
  <1> QED BY <1>1, PriceInitInv, PriceStep, PTL DEF PriceSpec
===============================================================================
