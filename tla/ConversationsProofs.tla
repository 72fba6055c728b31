-------------------------- MODULE ConversationsProofs --------------------------
(***************************************************************************)
(* Proofs about the two ends of a connection, for messages of any number   *)
(* and size, in whatever pieces they arrive: the loops that read queries   *)
(* answer in order, and the test node lags by what it has given up.        *)
(***************************************************************************)
EXTENDS MCConversations, SequenceTheorems, TLAPS

(* The session: what is not handled yet is a run of whole messages *)

\* The header that has been read is the start of a message not handled yet.
HeaderCells ==
    IF header = <<>> THEN <<>> ELSE [k \in 1..HeaderSize |-> <<header[1].id, k>>]

\* What has been sent and not handled: the header, what is in the buffer, the stream.
Unhandled == HeaderCells \o (got \o stream)

\* Every cell of r is one of a message of s.
Valid(r, s) ==
    \A j \in 1..Len(r) : r[j][1] \in 1..Len(s) /\ r[j][2] \in 1..Cells(s[r[j][1]])

\* The first message of r, or the next one to be sent.
FirstOf(r, s) == IF r = <<>> THEN Len(s) + 1 ELSE r[1][1]

\* Where a message starts in r, all of it follows.
Whole(r, s) ==
    \A j \in 1..Len(r) : r[j][2] = 1 =>
        \A p \in 1..Cells(s[r[j][1]]) : j + p - 1 <= Len(r) /\ r[j + p - 1] = <<r[j][1], p>>

\* Where a message ends in r, the next one starts, if it has been sent.
Followed(r, s) ==
    \A j \in 1..Len(r) : r[j][2] = Cells(s[r[j][1]]) =>
        IF j = Len(r) THEN r[j][1] = Len(s) ELSE r[j + 1] = <<r[j][1] + 1, 1>>

\* The cells of r are in the order of their messages.
Ascending(r) == \A j, l \in 1..Len(r) : j <= l => r[j][1] <= r[l][1]

\* From the first one on, no message is left out.
Complete(r, s) == \A k \in FirstOf(r, s)..Len(s) : \E j \in 1..Len(r) : r[j][1] = k

\* The messages of r follow one another, each of them whole, up to the last one sent.
Lined(r, s) ==
    /\ Valid(r, s) /\ Whole(r, s) /\ Followed(r, s) /\ Ascending(r) /\ Complete(r, s)
    /\ r # <<>> => r[1][2] = 1

\* What has been read of a header is kept as it was sent.
HeaderKept ==
    /\ reader = "service" => header = <<>>
    /\ header # <<>> => /\ header[1].id \in 1..Len(sent)
                        /\ header[1].message = sent[header[1].id]
                        /\ header[1].message.size \in HeaderSize..MaxFrame

\* The replies are those to the messages before the first that is not handled.
First == FirstOf(Unhandled, sent)
\* The messages that must have been answered: not the one whose reply could not be sent.
Answered == IF ended = "send" THEN {k \in Due : k < First - 1} ELSE {k \in Due : k < First}

\* Each of them has its reply, once and in the order they were sent.
InOrder ==
    /\ \A j, k \in 1..Len(replies) : j < k => replies[j] < replies[k]
    /\ Range(replies) = Answered
    /\ ended = "send" => First - 1 \in Due

\* The inductive invariant of the session.
SessionInv ==
    /\ TypeOK /\ Valid(Unhandled, sent) /\ HeaderKept
    /\ InStep => Lined(Unhandled, sent) /\ InOrder
-------------------------------------------------------------------------------
\* The facts on the constants that the steps use.
LEMMA SessionFacts ==
    /\ HeaderSize \in Nat /\ HeaderSize >= 1 /\ MinQuery \in Nat /\ QuerySize \in Nat
    /\ QuerySize >= HeaderSize /\ MaxFrame \in Nat /\ MaxSent \in Nat
    /\ Messages \subseteq [query : BOOLEAN, size : Nat, interface : BOOLEAN]
  BY SessionAssumption DEF SessionAssumption

\* A message has at least the cells of a header.
LEMMA CellsFact ==
    ASSUME NEW m \in Messages
    PROVE  m.size \in Nat /\ Cells(m) \in Nat /\ Cells(m) >= HeaderSize /\ Cells(m) >= 1
  <1>1. m.size \in Nat
    BY SessionFacts
  <1> QED BY <1>1, SessionFacts DEF Cells

\* The cells of a message that is sent.
LEMMA NewCells ==
    ASSUME NEW n \in Nat, NEW k \in Nat
    PROVE  LET new == [j \in 1..n |-> <<k, j>>]
           IN  new \in Seq(Cell) /\ Len(new) = n /\ \A j \in 1..n : new[j] = <<k, j>>
  BY DEF Cell

\* A sequence of cells behind another one, cell by cell.
LEMMA Joined ==
    ASSUME NEW r \in Seq(Cell), NEW new \in Seq(Cell)
    PROVE  /\ r \o new \in Seq(Cell)
           /\ Len(r \o new) = Len(r) + Len(new)
           /\ \A j \in 1..Len(r) : (r \o new)[j] = r[j]
           /\ \A j \in 1..Len(new) : (r \o new)[Len(r) + j] = new[j]
  <1>1. Len(r) \in Nat /\ Len(new) \in Nat
    BY LenProperties
  <1>2. /\ r \o new \in Seq(Cell)
        /\ Len(r \o new) = Len(r) + Len(new)
        /\ \A j \in 1..Len(r) + Len(new) : (r \o new)[j] =
                IF j <= Len(r) THEN r[j] ELSE new[j - Len(r)]
    BY ConcatProperties
  <1>3. ASSUME NEW j \in 1..Len(r)
        PROVE  (r \o new)[j] = r[j]
    BY <1>1, <1>2
  <1>4. ASSUME NEW j \in 1..Len(new)
        PROVE  (r \o new)[Len(r) + j] = new[j]
    <2>1. Len(r) + j \in 1..Len(r) + Len(new) /\ ~(Len(r) + j <= Len(r)) /\ Len(r) + j - Len(r) = j
      BY <1>1
    <2>2. (r \o new)[Len(r) + j] = new[Len(r) + j - Len(r)]
      BY <2>1, <1>2
    <2> QED BY <2>1, <2>2
  <1> QED BY <1>2, <1>3, <1>4

\* What is left of a sequence of cells, cell by cell.
LEMMA Remaining ==
    ASSUME NEW r \in Seq(Cell), NEW n \in Nat, n <= Len(r)
    PROVE  LET left == SubSeq(r, n + 1, Len(r))
           IN  /\ left \in Seq(Cell) /\ Len(left) = Len(r) - n
               /\ \A j \in 1..Len(r) - n : left[j] = r[n + j]
  <1>1. Len(r) \in Nat /\ \A j \in n + 1..Len(r) : r[j] \in Cell
    BY LenProperties, ElementOfSeq
  <1> DEFINE left == SubSeq(r, n + 1, Len(r))
  <1>2. /\ left \in Seq(Cell)
        /\ Len(left) = IF n + 1 <= Len(r) THEN Len(r) - (n + 1) + 1 ELSE 0
        /\ \A j \in 1..Len(r) - (n + 1) + 1 : left[j] = r[n + 1 + j - 1]
    BY <1>1, n + 1 \in Int, Len(r) \in Int, SubSeqProperties
  <1>3. Len(left) = Len(r) - n
    BY <1>1, <1>2
  <1>4. ASSUME NEW j \in 1..Len(r) - n
        PROVE  left[j] = r[n + j]
    <2>1. j \in 1..Len(r) - (n + 1) + 1 /\ n + 1 + j - 1 = n + j
      BY <1>1
    <2> QED BY <2>1, <1>2
  <1> QED BY <1>2, <1>3, <1>4

\* A message that is sent goes behind what is not handled yet.
LEMMA Push ==
    ASSUME NEW r \in Seq(Cell), NEW s \in Seq(Messages), NEW m \in Messages,
           NEW r2 \in Seq(Cell), NEW s2 \in Seq(Messages),
           Len(r2) = Len(r) + Cells(m),
           \A j \in 1..Len(r) : r2[j] = r[j],
           \A p \in 1..Cells(m) : r2[Len(r) + p] = <<Len(s) + 1, p>>,
           Len(s2) = Len(s) + 1,
           \A k \in 1..Len(s) : s2[k] = s[k],
           s2[Len(s) + 1] = m
    PROVE  /\ Valid(r, s) => Valid(r2, s2)
           /\ Lined(r, s) => Lined(r2, s2)
           /\ Lined(r, s) => FirstOf(r2, s2) = FirstOf(r, s) /\ FirstOf(r, s) \in 1..Len(s) + 1
  <1> DEFINE n == Len(r)
             l == Len(s)
             c == Cells(m)
  <1>1. n \in Nat /\ l \in Nat /\ c \in Nat /\ c >= 1 /\ Len(r2) = n + c
    BY LenProperties, CellsFact
  <1> HIDE DEF n, l, c
  <1>2. \A j \in 1..Len(r2) : j \in 1..n \/ \E p \in 1..c : j = n + p
    <2>1. ASSUME NEW j \in 1..Len(r2), j \notin 1..n
          PROVE  j - n \in 1..c /\ j = n + (j - n)
      BY <1>1, <2>1
    <2> QED BY <2>1
  <1>3. /\ \A j \in 1..n : j \in 1..Len(r2) /\ r2[j] = r[j]
        /\ \A p \in 1..c : n + p \in 1..Len(r2) /\ r2[n + p] = <<l + 1, p>>
        /\ \A p \in 1..c : r2[n + p][1] = l + 1 /\ r2[n + p][2] = p
    BY <1>1 DEF n, l, c
  <1>4. /\ \A k \in 1..l : k \in 1..Len(s2) /\ s2[k] = s[k]
        /\ l + 1 \in 1..Len(s2) /\ s2[l + 1] = m /\ Cells(s2[l + 1]) = c
        /\ Len(s2) = l + 1
    BY <1>1 DEF l, c
  <1>5. ASSUME Valid(r, s)
        PROVE  /\ Valid(r2, s2)
               /\ \A j \in 1..n : r[j][1] \in 1..l /\ Cells(s2[r[j][1]]) = Cells(s[r[j][1]])
    <2>1. ASSUME NEW j \in 1..n
          PROVE  /\ r[j][1] \in 1..l /\ Cells(s2[r[j][1]]) = Cells(s[r[j][1]])
                 /\ r[j][2] \in 1..Cells(s[r[j][1]])
      BY <1>4, <1>5, Zenon DEF Valid, n, l
    <2>2. ASSUME NEW j \in 1..n
          PROVE  r2[j][1] \in 1..Len(s2) /\ r2[j][2] \in 1..Cells(s2[r2[j][1]])
      BY <2>1, <1>3, <1>4, Zenon
    <2>3. ASSUME NEW p \in 1..c
          PROVE  r2[n + p][1] \in 1..Len(s2) /\ r2[n + p][2] \in 1..Cells(s2[r2[n + p][1]])
      BY <1>3, <1>4, Zenon
    <2> QED BY <2>1, <2>2, <2>3, <1>2, Zenon DEF Valid
  <1>6. ASSUME Lined(r, s)
        PROVE  /\ Lined(r2, s2)
               /\ FirstOf(r2, s2) = FirstOf(r, s) /\ FirstOf(r, s) \in 1..l + 1
    <2>0. /\ Valid(r, s) /\ Whole(r, s) /\ Followed(r, s) /\ Ascending(r) /\ Complete(r, s)
          /\ r # <<>> => r[1][2] = 1
          /\ Valid(r2, s2)
          /\ \A j \in 1..n : r[j][1] \in 1..l /\ Cells(s2[r[j][1]]) = Cells(s[r[j][1]])
      BY <1>5, <1>6, Zenon DEF Lined
    <2>1. r2 # <<>> /\ 1 \in 1..Len(r2) /\ 1 \in 1..c
      BY <1>1
    <2>2. FirstOf(r2, s2) = FirstOf(r, s) /\ FirstOf(r, s) \in 1..l + 1 /\ r2[1][2] = 1
      <3>1. CASE r = <<>>
        <4>1. n = 0 /\ n + 1 = 1
          BY <3>1, <1>1 DEF n
        <4>2. r2[1][1] = l + 1 /\ r2[1][2] = 1
          BY <4>1, <2>1, <1>3
        <4>3. FirstOf(r, s) = l + 1 /\ FirstOf(r2, s2) = l + 1 /\ l + 1 \in 1..l + 1
          BY <2>1, <3>1, <4>2, <1>1 DEF FirstOf, l
        <4> QED BY <4>2, <4>3
      <3>2. CASE r # <<>>
        <4>1. 1 \in 1..n
          BY <3>2, <1>1, EmptySeq DEF n
        <4>2. r2[1] = r[1] /\ r[1][1] \in 1..l
          BY <4>1, <1>3, <2>0
        <4>3. FirstOf(r, s) = r[1][1] /\ FirstOf(r2, s2) = r[1][1] /\ r[1][1] \in 1..l + 1
          BY <2>1, <3>2, <4>2, <1>1 DEF FirstOf
        <4> QED BY <2>0, <3>2, <4>2, <4>3
      <3> QED BY <3>1, <3>2
    <2>3. Whole(r2, s2)
      <3>1. ASSUME NEW j \in 1..n, r2[j][2] = 1, NEW p \in 1..Cells(s2[r2[j][1]])
            PROVE  j + p - 1 <= Len(r2) /\ r2[j + p - 1] = <<r2[j][1], p>>
        <4>1. r2[j] = r[j] /\ p \in 1..Cells(s[r[j][1]]) /\ r[j][2] = 1
          BY <3>1, <1>3, <2>0, Zenon
        <4>2. j + p - 1 <= n /\ r[j + p - 1] = <<r[j][1], p>>
          BY <4>1, <2>0, Zenon DEF Whole, n
        <4>3. p \in Nat
          OBVIOUS
        <4>4. j + p - 1 \in 1..n /\ j + p - 1 <= Len(r2)
          BY <4>1, <4>2, <4>3, <1>1
        <4> QED BY <4>1, <4>2, <4>4, <1>3, Zenon
      <3>2. ASSUME NEW q \in 1..c, r2[n + q][2] = 1, NEW p \in 1..Cells(s2[r2[n + q][1]])
            PROVE  n + q + p - 1 <= Len(r2) /\ r2[n + q + p - 1] = <<r2[n + q][1], p>>
        <4>1. q = 1 /\ r2[n + q][1] = l + 1 /\ p \in 1..c
          BY <3>2, <1>3, <1>4, Zenon
        <4>2. n + q + p - 1 = n + p
          BY <4>1, <1>1
        <4>3. n + p <= Len(r2)
          BY <4>1, <1>1
        <4> QED BY <4>1, <4>2, <4>3, <1>3
      <3> SUFFICES ASSUME NEW j \in 1..Len(r2), r2[j][2] = 1, NEW p \in 1..Cells(s2[r2[j][1]])
                   PROVE  j + p - 1 <= Len(r2) /\ r2[j + p - 1] = <<r2[j][1], p>>
        BY Zenon DEF Whole
      <3>3. CASE j \in 1..n
        BY <3>1, <3>3, Zenon
      <3>4. CASE j \notin 1..n
        <4>1. PICK q \in 1..c : j = n + q
          BY <3>4, <1>2, Zenon
        <4> QED BY <3>2, <4>1, Zenon
      <3> QED BY <3>3, <3>4, Zenon
    <2>4. Followed(r2, s2)
      <3>1. ASSUME NEW j \in 1..n, r2[j][2] = Cells(s2[r2[j][1]])
            PROVE  j # Len(r2) /\ r2[j + 1] = <<r2[j][1] + 1, 1>>
        <4>1. r2[j] = r[j] /\ r[j][2] = Cells(s[r[j][1]])
          BY <3>1, <1>3, <2>0, Zenon
        <4>2. IF j = n THEN r[j][1] = l ELSE r[j + 1] = <<r[j][1] + 1, 1>>
          BY <4>1, <2>0, Zenon DEF Followed, n, l
        <4>3. j # Len(r2) /\ (j # n => j + 1 \in 1..n)
          BY <1>1
        <4>4. CASE j = n
          BY <4>1, <4>2, <4>4, <4>3, <2>1, <1>3, Zenon
        <4>5. CASE j # n
          BY <4>1, <4>2, <4>3, <4>5, <1>3, Zenon
        <4> QED BY <4>4, <4>5
      <3>2. ASSUME NEW p \in 1..c, r2[n + p][2] = Cells(s2[r2[n + p][1]])
            PROVE  n + p = Len(r2) /\ r2[n + p][1] = Len(s2)
        <4>1. p = c /\ r2[n + p][1] = Len(s2)
          BY <3>2, <1>3, <1>4, Zenon
        <4> QED BY <4>1, <1>1
      <3> SUFFICES ASSUME NEW j \in 1..Len(r2), r2[j][2] = Cells(s2[r2[j][1]])
                   PROVE  IF j = Len(r2) THEN r2[j][1] = Len(s2) ELSE r2[j + 1] = <<r2[j][1] + 1, 1>>
        BY Zenon DEF Followed
      <3>3. CASE j \in 1..n
        BY <3>1, <3>3, Zenon
      <3>4. CASE j \notin 1..n
        <4>1. PICK p \in 1..c : j = n + p
          BY <3>4, <1>2, Zenon
        <4> QED BY <3>2, <4>1, Zenon
      <3> QED BY <3>3, <3>4, Zenon
    <2>5. Ascending(r2)
      <3>1. \A j \in 1..n : r2[j][1] \in 1..l
        BY <1>3, <2>0, Zenon
      <3>2. ASSUME NEW j \in 1..Len(r2), j \notin 1..n
            PROVE  r2[j][1] = l + 1
        <4>1. PICK p \in 1..c : j = n + p
          BY <3>2, <1>2, Zenon
        <4> QED BY <4>1, <1>3, Zenon
      <3>3. ASSUME NEW j \in 1..Len(r2), NEW k \in 1..Len(r2), j <= k
            PROVE  r2[j][1] <= r2[k][1]
        <4>1. CASE j \in 1..n /\ k \in 1..n
          BY <4>1, <3>3, <2>0, <1>3, Zenon DEF Ascending, n
        <4>2. CASE j \in 1..n /\ k \notin 1..n
          <5>1. r2[j][1] \in 1..l /\ r2[k][1] = l + 1
            BY <4>2, <3>1, <3>2, Zenon
          <5> QED BY <5>1, <1>1
        <4>3. CASE j \notin 1..n
          <5>1. k \notin 1..n
            BY <4>3, <3>3, <1>1
          <5>2. r2[j][1] = l + 1 /\ r2[k][1] = l + 1
            BY <5>1, <4>3, <3>2, Zenon
          <5> QED BY <5>2, <1>1
        <4> QED BY <4>1, <4>2, <4>3, Zenon
      <3> QED BY <3>3, Zenon DEF Ascending
    <2>6. Complete(r2, s2)
      <3>1. ASSUME NEW k \in FirstOf(r, s)..l
            PROVE  \E j \in 1..Len(r2) : r2[j][1] = k
        <4>1. PICK j \in 1..n : r[j][1] = k
          BY <2>0, Zenon DEF Complete, n, l
        <4> QED BY <4>1, <1>3, Zenon
      <3>2. \E j \in 1..Len(r2) : r2[j][1] = l + 1
        BY <2>1, <1>3, Zenon
      <3>3. ASSUME NEW k \in FirstOf(r, s)..Len(s2)
            PROVE  k \in FirstOf(r, s)..l \/ k = l + 1
        BY <1>1, <1>4, <2>2
      <3> QED BY <3>1, <3>2, <3>3, <2>2, Zenon DEF Complete
    <2> QED BY <2>0, <2>2, <2>3, <2>4, <2>5, <2>6, Zenon DEF Lined
  <1> QED BY <1>5, <1>6, Zenon DEF l

\* The first message not handled yet lies whole at the front, and the next behind it.
LEMMA AtFront ==
    ASSUME NEW r \in Seq(Cell), NEW s \in Seq(Messages), Lined(r, s), r # <<>>
    PROVE  LET f == FirstOf(r, s)
               n == Cells(s[f])
           IN  /\ f \in 1..Len(s) /\ n \in Nat /\ n >= HeaderSize /\ n >= 1 /\ n <= Len(r)
               /\ \A p \in 1..n : r[p] = <<f, p>>
               /\ IF n = Len(r) THEN f = Len(s) ELSE r[n + 1] = <<f + 1, 1>>
  <1> DEFINE f == FirstOf(r, s)
             n == Cells(s[f])
  <1>1. Len(r) \in Nat /\ 1 \in 1..Len(r)
    BY EmptySeq, LenProperties
  <1>2. f = r[1][1] /\ f \in 1..Len(s) /\ r[1][2] = 1
    BY <1>1 DEF Lined, Valid, FirstOf
  <1>3. n \in Nat /\ n >= HeaderSize /\ n >= 1
    BY <1>2, CellsFact, ElementOfSeq
  <1> HIDE DEF f, n
  <1>4. \A p \in 1..n : 1 + p - 1 <= Len(r) /\ r[1 + p - 1] = <<f, p>>
    BY <1>1, <1>2, Zenon DEF Lined, Whole, n
  <1>5. ASSUME NEW p \in 1..n
        PROVE  p <= Len(r) /\ r[p] = <<f, p>>
    <2>1. 1 + p - 1 = p
      BY <1>3
    <2> QED BY <1>4, <2>1
  <1>6. n \in 1..n
    BY <1>3
  <1>7. n <= Len(r) /\ n \in 1..Len(r) /\ r[n][1] = f /\ r[n][2] = n
    BY <1>1, <1>3, <1>5, <1>6
  <1>8. IF n = Len(r) THEN f = Len(s) ELSE r[n + 1] = <<f + 1, 1>>
    BY <1>7, Zenon DEF Lined, Followed, n
  <1> QED BY <1>2, <1>3, <1>5, <1>7, <1>8, Zenon DEF f, n

\* Whatever is taken from the front, the rest is cells of messages.
LEMMA ValidRest ==
    ASSUME NEW r \in Seq(Cell), NEW s \in Seq(Messages), NEW n \in Nat, n <= Len(r),
           NEW left \in Seq(Cell), Len(left) = Len(r) - n,
           \A j \in 1..Len(r) - n : left[j] = r[n + j],
           Valid(r, s)
    PROVE  Valid(left, s)
  <1>1. Len(r) \in Nat
    BY LenProperties
  <1>2. \A j \in 1..Len(left) : n + j \in 1..Len(r) /\ left[j] = r[n + j]
    BY <1>1
  <1> QED BY <1>2, Zenon DEF Valid

\* Where the cells of a buffer are once n of them are taken from its front.
Shift(n, a, b, j) ==
    /\ n + j + 1 = n + (j + 1)
    /\ j = b => n + j = a
    /\ j # b => n + j # a /\ j + 1 \in 1..b

\* The j-th cell that is left was the (n + j)-th, and the last one still is the last.
LEMMA Shifted ==
    ASSUME NEW n \in Nat, NEW a \in Nat, NEW b \in Nat, b = a - n, NEW j \in 1..b
    PROVE  Shift(n, a, b, j)
  BY DEF Shift

\* Once the first message is handled, the rest starts with the next one.
LEMMA Pop ==
    ASSUME NEW r \in Seq(Cell), NEW s \in Seq(Messages), Lined(r, s), r # <<>>,
           NEW left \in Seq(Cell), Len(left) = Len(r) - Cells(s[FirstOf(r, s)]),
           \A j \in 1..Len(left) : left[j] = r[Cells(s[FirstOf(r, s)]) + j]
    PROVE  Lined(left, s) /\ FirstOf(left, s) = FirstOf(r, s) + 1
  <1> DEFINE f == FirstOf(r, s)
             n == Cells(s[f])
  <1>1. /\ f \in 1..Len(s) /\ n \in Nat /\ n >= 1 /\ n <= Len(r)
        /\ \A p \in 1..n : r[p] = <<f, p>>
        /\ IF n = Len(r) THEN f = Len(s) ELSE r[n + 1] = <<f + 1, 1>>
    BY AtFront, Zenon
  <1>2. Len(r) \in Nat /\ Len(s) \in Nat /\ Len(left) \in Nat /\ f \in Nat
    BY <1>1, LenProperties
  <1>3. Len(left) = Len(r) - n /\ \A j \in 1..Len(left) : left[j] = r[n + j]
    OBVIOUS
  <1> HIDE DEF f, n
  <1>4. \A j \in 1..Len(left) : n + j \in 1..Len(r)
    BY <1>1, <1>2, <1>3
  <1>5. Valid(r, s) /\ Whole(r, s) /\ Followed(r, s) /\ Ascending(r) /\ Complete(r, s)
    BY DEF Lined
  <1>6. Valid(left, s)
    BY <1>3, <1>4, <1>5, Zenon DEF Valid
  <1>7. /\ FirstOf(left, s) = f + 1
        /\ left # <<>> => left[1][2] = 1
    <2>1. CASE n = Len(r)
      <3>1. left = <<>>
        BY <2>1, <1>2, <1>3, EmptySeq
      <3> QED BY <2>1, <3>1, <1>1 DEF FirstOf
    <2>2. CASE n # Len(r)
      <3>1. 1 \in 1..Len(left) /\ left # <<>>
        BY <2>2, <1>1, <1>2, <1>3
      <3>2. left[1] = <<f + 1, 1>>
        BY <3>1, <2>2, <1>1, <1>3, Zenon
      <3> QED BY <3>1, <3>2 DEF FirstOf
    <2> QED BY <2>1, <2>2
  <1>8. Whole(left, s)
    <2> SUFFICES ASSUME NEW j \in 1..Len(left), left[j][2] = 1, NEW p \in 1..Cells(s[left[j][1]])
                 PROVE  j + p - 1 <= Len(left) /\ left[j + p - 1] = <<left[j][1], p>>
      BY Zenon DEF Whole
    <2>1. left[j] = r[n + j] /\ n + j \in 1..Len(r)
      BY <1>3, <1>4, Zenon
    <2>2. n + j + p - 1 <= Len(r) /\ r[n + j + p - 1] = <<left[j][1], p>>
      BY <2>1, <1>5, Zenon DEF Whole
    <2>3. /\ n + j + p - 1 = n + (j + p - 1)
          /\ j + p - 1 \in 1..Len(left) /\ j + p - 1 <= Len(left)
      BY <2>2, <1>1, <1>2, <1>3
    <2> QED BY <2>2, <2>3, <1>3, Zenon
  <1>9. Followed(left, s)
    <2> SUFFICES ASSUME NEW j \in 1..Len(left), left[j][2] = Cells(s[left[j][1]])
                 PROVE  IF j = Len(left) THEN left[j][1] = Len(s)
                        ELSE left[j + 1] = <<left[j][1] + 1, 1>>
      BY Zenon DEF Followed
    <2>1. left[j] = r[n + j] /\ n + j \in 1..Len(r)
      BY <1>3, <1>4, Zenon
    <2>2. IF n + j = Len(r) THEN left[j][1] = Len(s) ELSE r[n + j + 1] = <<left[j][1] + 1, 1>>
      BY <2>1, <1>5, Zenon DEF Followed
    <2>3. /\ n + j + 1 = n + (j + 1)
          /\ j = Len(left) => n + j = Len(r)
          /\ j # Len(left) => n + j # Len(r) /\ j + 1 \in 1..Len(left)
      <3>1. Shift(n, Len(r), Len(left), j)
        BY <1>1, <1>2, <1>3, Shifted, Zenon
      <3> QED BY <3>1, Zenon DEF Shift
    <2>4. CASE j = Len(left)
      BY <2>2, <2>3, <2>4, Zenon
    <2>5. CASE j # Len(left)
      <3>1. left[j + 1] = r[n + (j + 1)]
        BY <2>3, <2>5, <1>3, Zenon
      <3> QED BY <2>2, <2>3, <2>5, <3>1, Zenon
    <2> QED BY <2>4, <2>5, Zenon
  <1>10. Ascending(left)
    <2>1. ASSUME NEW j \in 1..Len(left), NEW k \in 1..Len(left), j <= k
          PROVE  n + j <= n + k
      BY <2>1, <1>1
    <2> QED BY <2>1, <1>3, <1>4, <1>5, Zenon DEF Ascending
  <1>11. Complete(left, s)
    <2> SUFFICES ASSUME NEW k \in f + 1..Len(s)
                 PROVE  \E j \in 1..Len(left) : left[j][1] = k
      BY <1>7, Zenon DEF Complete
    <2>1. k \in f..Len(s) /\ k # f
      BY <1>2
    <2>2. PICK j \in 1..Len(r) : r[j][1] = k
      BY <2>1, <1>5, Zenon DEF Complete, f
    <2>3. j \notin 1..n
      BY <2>1, <2>2, <1>1
    <2>4. j - n \in 1..Len(left) /\ n + (j - n) = j
      BY <2>3, <1>1, <1>2, <1>3
    <2>5. left[j - n][1] = k
      BY <2>2, <2>4, <1>3, Zenon
    <2> QED BY <2>4, <2>5, Zenon
  <1> QED BY <1>6, <1>7, <1>8, <1>9, <1>10, <1>11, Zenon DEF Lined, f

\* The messages with a cell among those not handled are those from the first on.
LEMMA FromFirstOn ==
    ASSUME NEW r \in Seq(Cell), NEW s \in Seq(Messages), Lined(r, s), NEW k \in 1..Len(s)
    PROVE  (\E j \in 1..Len(r) : r[j][1] = k) <=> FirstOf(r, s) <= k
  <1>1. Len(r) \in Nat /\ Len(s) \in Nat
    BY LenProperties
  <1>2. ASSUME NEW j \in 1..Len(r), r[j][1] = k
        PROVE  FirstOf(r, s) <= k
    <2>1. 1 \in 1..Len(r) /\ 1 <= j /\ r # <<>>
      BY <1>1
    <2>2. r[1][1] <= r[j][1]
      BY <2>1 DEF Lined, Ascending
    <2> QED BY <1>2, <2>1, <2>2 DEF FirstOf
  <1>3. ASSUME FirstOf(r, s) <= k
        PROVE  \E j \in 1..Len(r) : r[j][1] = k
    <2>1. FirstOf(r, s) \in Int
      <3>1. CASE r = <<>>
        BY <3>1, <1>1 DEF FirstOf
      <3>2. CASE r # <<>>
        BY <3>2, AtFront
      <3> QED BY <3>1, <3>2
    <2>2. k \in FirstOf(r, s)..Len(s)
      BY <2>1, <1>1, <1>3
    <2> QED BY <2>2, Zenon DEF Lined, Complete
  <1> QED BY <1>2, <1>3

-------------------------------------------------------------------------------
(* The session: the invariant is kept *)

\* What is not handled yet is a sequence of cells.
LEMMA UnhandledType ==
    ASSUME TypeOK
    PROVE  /\ HeaderCells \in Seq(Cell) /\ got \o stream \in Seq(Cell) /\ Unhandled \in Seq(Cell)
           /\ Len(HeaderCells) = IF header = <<>> THEN 0 ELSE HeaderSize
           /\ header = <<>> => Unhandled = got \o stream
  <1>1. got \o stream \in Seq(Cell)
    BY Joined DEF TypeOK
  <1>2. CASE header = <<>>
    <2>1. HeaderCells = <<>> /\ <<>> \in Seq(Cell) /\ Len(<<>>) = 0
      BY <1>2, EmptySeq DEF HeaderCells
    <2>2. Unhandled = got \o stream
      BY <2>1, <1>1, ConcatEmptySeq DEF Unhandled
    <2> QED BY <1>1, <1>2, <2>1, <2>2
  <1>3. CASE header # <<>>
    <2>1. header[1].id \in Nat
      <3>1. 1 \in 1..Len(header) /\ header \in Seq(Decoded)
        BY <1>3, EmptySeq DEF TypeOK
      <3>2. header[1] \in Decoded
        BY <3>1, ElementOfSeq
      <3> QED BY <3>2 DEF Decoded
    <2>2. HeaderCells \in Seq(Cell) /\ Len(HeaderCells) = HeaderSize
      BY <1>3, <2>1, SessionFacts, NewCells DEF HeaderCells
    <2>3. Unhandled \in Seq(Cell)
      BY <1>1, <2>2, Joined DEF Unhandled
    <2> QED BY <1>1, <1>3, <2>2, <2>3
  <1> QED BY <1>2, <1>3

\* Initially nothing has been sent.
LEMMA SessionInit == Init => SessionInv
  <1> SUFFICES ASSUME Init PROVE SessionInv
    OBVIOUS
  <1>1. TypeOK
    <2>1. Len(<<>>) = 0 /\ 0 <= MaxSent /\ 0 <= 1
      BY SessionFacts
    <2>2. \A S : <<>> \in Seq(S)
      BY EmptySeq
    <2> QED BY <2>1, <2>2, Zenon DEF Init, TypeOK
  <1>2. Unhandled = <<>> /\ sent = <<>> /\ replies = <<>>
    <2>1. <<>> \in Seq(Cell) /\ (<<>> \o <<>>) = <<>>
      BY EmptySeq, ConcatEmptySeq
    <2> QED BY <2>1 DEF Init, Unhandled, HeaderCells
  <1>3. Len(<<>>) = 0 /\ \A j \in 1..0 : FALSE
    OBVIOUS
  <1>4. Valid(Unhandled, sent) /\ HeaderKept
    BY <1>2, <1>3 DEF Valid, HeaderKept, Init
  <1>5. Lined(Unhandled, sent)
    <2>1. FirstOf(Unhandled, sent) = 1
      BY <1>2, <1>3 DEF FirstOf
    <2>2. Complete(Unhandled, sent)
      BY <1>2, <2>1 DEF Complete
    <2> QED BY <1>2, <1>3, <1>4, <2>2 DEF Lined, Whole, Followed, Ascending
  <1>6. InOrder
    <2>1. Due = {} /\ Range(replies) = {} /\ ended # "send"
      BY <1>2, <1>3 DEF Due, Range, Init
    <2> QED BY <1>2, <1>3, <2>1 DEF InOrder, Answered
  <1> QED BY <1>1, <1>4, <1>5, <1>6 DEF SessionInv

\* A step that neither handles a message nor changes what is to be handled.
LEMMA NothingHandled ==
    ASSUME SessionInv, TypeOK', HeaderKept',
           Unhandled' = Unhandled, sent' = sent, reader' = reader, replies' = replies,
           ended' = "send" <=> ended = "send"
    PROVE  SessionInv'
  <1>1. (InStep' <=> InStep) /\ Due' = Due
    BY DEF InStep, Due, ToAnswer
  <1>2. First' = First /\ Valid(Unhandled, sent)' /\ (Lined(Unhandled, sent) => Lined(Unhandled, sent)')
    BY DEF First, SessionInv
  <1>3. Answered' = Answered
    BY <1>1, <1>2 DEF Answered
  <1>4. InOrder => InOrder'
    BY <1>1, <1>2, <1>3 DEF InOrder
  <1> QED BY <1>1, <1>2, <1>4 DEF SessionInv

\* A sequence that is cut in two is its two parts joined.
LEMMA CutInTwo ==
    ASSUME NEW s \in Seq(Cell), NEW n \in 1..Len(s)
    PROVE  SubSeq(s, 1, n) \o SubSeq(s, n + 1, Len(s)) = s
  <1>1. Len(s) \in Nat /\ 1 \in 1..Len(s) + 1 /\ n \in 1 - 1..Len(s) /\ Len(s) \in n..Len(s)
    BY LenProperties
  <1>2. SubSeq(s, 1, n) \o SubSeq(s, n + 1, Len(s)) = SubSeq(s, 1, Len(s))
    BY <1>1, ConcatAdjacentSubSeq, Zenon
  <1>3. SubSeq(s, 1, Len(s)) = s
    BY SubSeqFull, Zenon
  <1> QED BY <1>2, <1>3, Zenon

\* Three sequences of cells can be joined in either order.
LEMMA Associative ==
    ASSUME NEW a \in Seq(Cell), NEW b \in Seq(Cell), NEW c \in Seq(Cell)
    PROVE  (a \o b) \o c = a \o (b \o c)
  BY ConcatAssociative

\* Pieces of the stream that arrive stay behind what has come before.
LEMMA Arrive ==
    ASSUME NEW g \in Seq(Cell), NEW s \in Seq(Cell), NEW n \in 1..Len(s)
    PROVE  LET come == SubSeq(s, 1, n)
               rest == SubSeq(s, n + 1, Len(s))
           IN  /\ come \in Seq(Cell) /\ rest \in Seq(Cell)
               /\ g \o come \in Seq(Cell) /\ (g \o come) \o rest = g \o s
  <1> DEFINE come == SubSeq(s, 1, n)
             rest == SubSeq(s, n + 1, Len(s))
  <1>1. /\ Len(s) \in Nat /\ n \in Nat /\ n <= Len(s) /\ 1 \in 1..Len(s) + 1
        /\ n \in 0..Len(s) /\ Len(s) \in n..Len(s)
    BY LenProperties
  <1>2. \A j \in 1..Len(s) : s[j] \in Cell
    BY ElementOfSeq
  <1>3. come \in Seq(Cell)
    BY <1>1, <1>2, SubSeqProperties
  <1>4. rest \in Seq(Cell)
    BY <1>1, Remaining
  <1>5. come \o rest = s
    BY CutInTwo, Zenon
  <1> HIDE DEF come, rest
  <1>6. g \o come \in Seq(Cell)
    BY <1>3, Joined
  <1>7. (g \o come) \o rest = g \o (come \o rest)
    BY <1>3, <1>4, Associative
  <1> QED BY <1>3, <1>4, <1>5, <1>6, <1>7, Zenon DEF come, rest

\* Cells that arrive move from the stream to the buffer (recv).
LEMMA ReceiveInv == ASSUME SessionInv, Receive PROVE SessionInv'
  <1>1. PICK n \in 1..Len(stream) :
           got' = got \o SubSeq(stream, 1, n) /\ stream' = SubSeq(stream, n + 1, Len(stream))
    BY Zenon DEF Receive
  <1>2. UNCHANGED <<reader, sent, eof, header, ended, replies>> /\ ended = "no"
    BY DEF Receive, peerVars, Receiving
  <1>3. TypeOK
    BY DEF SessionInv
  <1>4. got' \in Seq(Cell) /\ stream' \in Seq(Cell) /\ got' \o stream' = got \o stream
    BY <1>1, <1>3, Arrive, Zenon DEF TypeOK
  <1>5. TypeOK'
    BY <1>2, <1>3, <1>4 DEF TypeOK
  <1>6. HeaderCells' = HeaderCells /\ Unhandled' = Unhandled
    BY <1>2, <1>4 DEF HeaderCells, Unhandled
  <1>7. HeaderKept'
    BY <1>2 DEF HeaderKept, SessionInv
  <1> QED BY <1>2, <1>5, <1>6, <1>7, NothingHandled

\* The end of a session, for whatever reason, handles nothing (receiveAndProcess,
\* _handle_client, receiveFromPeerLoop).
LEMMA EndInv ==
    ASSUME SessionInv, Timeout \/ EndOfFile \/ Close \/ UNCHANGED vars
    PROVE  SessionInv'
  <1>1. /\ UNCHANGED <<reader, sent, stream, got, header, replies>>
        /\ eof' = TRUE \/ eof' = eof
        /\ \/ ended' = ended
           \/ ended = "no" /\ ended' = "eof"
           \/ ended = "no" /\ ended' = "timeout"
    BY DEF Timeout, EndOfFile, Close, vars, peerVars, Receiving
  <1>2. TypeOK /\ TypeOK'
    BY <1>1, Zenon DEF TypeOK, SessionInv
  <1>3. HeaderCells' = HeaderCells /\ Unhandled' = Unhandled
    BY <1>1 DEF HeaderCells, Unhandled
  <1>4. HeaderKept'
    BY <1>1 DEF HeaderKept, SessionInv
  <1> QED BY <1>1, <1>2, <1>3, <1>4, NothingHandled

\* A message that is sent, cell by cell.
LEMMA SendStep ==
    ASSUME TypeOK, NEW m \in Messages, Send(m)
    PROVE  /\ UNCHANGED <<reader, eof, got, header, ended, replies>>
           /\ sent' \in Seq(Messages) /\ Len(sent') = Len(sent) + 1 /\ Len(sent') <= MaxSent
           /\ \A k \in 1..Len(sent) : sent'[k] = sent[k]
           /\ sent'[Len(sent) + 1] = m
           /\ stream' \in Seq(Cell) /\ Unhandled' \in Seq(Cell)
           /\ Len(Unhandled') = Len(Unhandled) + Cells(m)
           /\ \A j \in 1..Len(Unhandled) : Unhandled'[j] = Unhandled[j]
           /\ \A p \in 1..Cells(m) : Unhandled'[Len(Unhandled) + p] = <<Len(sent) + 1, p>>
  <1> DEFINE new == [k \in 1..Cells(m) |-> <<Len(sent) + 1, k>>]
  <1>1. /\ UNCHANGED <<reader, eof, got, header, ended, replies>>
        /\ sent' = Append(sent, m) /\ stream' = stream \o new /\ Len(sent) < MaxSent
    BY DEF Send
  <1>2. sent \in Seq(Messages) /\ stream \in Seq(Cell) /\ got \in Seq(Cell)
    BY DEF TypeOK
  <1>3. Len(sent) \in Nat /\ Len(sent) + 1 \in Nat /\ MaxSent \in Nat
    BY <1>2, LenProperties, SessionFacts
  <1>4. /\ sent' \in Seq(Messages) /\ Len(sent') = Len(sent) + 1
        /\ \A k \in 1..Len(sent) : sent'[k] = sent[k]
        /\ sent'[Len(sent) + 1] = m
    BY <1>1, <1>2, AppendProperties
  <1>5. Len(sent') <= MaxSent
    BY <1>1, <1>3, <1>4
  <1>6. new \in Seq(Cell) /\ Len(new) = Cells(m) /\ \A j \in 1..Cells(m) : new[j] = <<Len(sent) + 1, j>>
    BY <1>3, CellsFact, NewCells, Zenon
  <1> HIDE DEF new
  <1>7. stream' \in Seq(Cell)
    BY <1>1, <1>2, <1>6, Joined
  <1>8. HeaderCells \in Seq(Cell) /\ got \o stream \in Seq(Cell) /\ Unhandled \in Seq(Cell)
    BY UnhandledType
  <1>9. Unhandled' = Unhandled \o new
    <2>1. got \o (stream \o new) = (got \o stream) \o new
      BY <1>2, <1>6, Associative, Zenon
    <2>2. HeaderCells \o ((got \o stream) \o new) = (HeaderCells \o (got \o stream)) \o new
      BY <1>6, <1>8, Associative
    <2>3. HeaderCells' = HeaderCells
      BY <1>1 DEF HeaderCells
    <2>4. Unhandled' = HeaderCells \o (got \o (stream \o new))
      BY <1>1, <2>3 DEF Unhandled
    <2> QED BY <2>1, <2>2, <2>4, Zenon DEF Unhandled
  <1>10. /\ Unhandled' \in Seq(Cell) /\ Len(Unhandled') = Len(Unhandled) + Len(new)
         /\ \A j \in 1..Len(Unhandled) : Unhandled'[j] = Unhandled[j]
         /\ \A p \in 1..Len(new) : Unhandled'[Len(Unhandled) + p] = new[p]
    <2>1. /\ Unhandled \o new \in Seq(Cell)
          /\ Len(Unhandled \o new) = Len(Unhandled) + Len(new)
          /\ \A j \in 1..Len(Unhandled) : (Unhandled \o new)[j] = Unhandled[j]
          /\ \A p \in 1..Len(new) : (Unhandled \o new)[Len(Unhandled) + p] = new[p]
      <3> HIDE DEF Unhandled
      <3> QED BY <1>6, <1>8, Joined, Zenon
    <2> QED BY <1>9, <2>1, Zenon
  <1> QED BY <1>1, <1>4, <1>5, <1>6, <1>7, <1>10, Zenon

\* A message that is sent joins the ones not handled yet.
LEMMA SendInv == ASSUME SessionInv, NEW m \in Messages, Send(m) PROVE SessionInv'
  <1>0. TypeOK
    BY DEF SessionInv
  <1>1. /\ UNCHANGED <<reader, eof, got, header, ended, replies>>
        /\ sent' \in Seq(Messages) /\ Len(sent') = Len(sent) + 1 /\ Len(sent') <= MaxSent
        /\ \A k \in 1..Len(sent) : sent'[k] = sent[k]
        /\ stream' \in Seq(Cell)
    BY <1>0, SendStep
  <1>2. sent \in Seq(Messages) /\ Len(sent) \in Nat
    BY <1>0, LenProperties DEF TypeOK
  <1>3. \A k \in 1..Len(sent) : k \in 1..Len(sent')
    BY <1>1, <1>2
  <1>4. TypeOK'
    <2>1. 0..Len(sent) \subseteq 0..Len(sent')
      BY <1>1, <1>2
    <2>2. replies \in Seq(0..Len(sent'))
      BY <2>1, <1>0, SeqMonotonic, Zenon DEF TypeOK
    <2> QED BY <1>0, <1>1, <2>2 DEF TypeOK
  <1>5. HeaderKept'
    BY <1>1, <1>3 DEF HeaderKept, SessionInv
  <1>6. /\ Valid(Unhandled, sent) => Valid(Unhandled', sent')
        /\ Lined(Unhandled, sent) => Lined(Unhandled', sent')
        /\ Lined(Unhandled, sent) => FirstOf(Unhandled', sent') = FirstOf(Unhandled, sent)
                                     /\ FirstOf(Unhandled, sent) \in 1..Len(sent) + 1
    <2>1. /\ Unhandled \in Seq(Cell) /\ Unhandled' \in Seq(Cell)
          /\ Len(Unhandled') = Len(Unhandled) + Cells(m)
          /\ \A j \in 1..Len(Unhandled) : Unhandled'[j] = Unhandled[j]
          /\ \A p \in 1..Cells(m) : Unhandled'[Len(Unhandled) + p] = <<Len(sent) + 1, p>>
          /\ sent'[Len(sent) + 1] = m
      BY <1>0, SendStep, UnhandledType
    <2> QED BY <2>1, <1>1, <1>2, Push, ZenonT(40)
  <1>7. InStep' => InStep
    BY <1>1, <1>3 DEF InStep
  <1>8. ASSUME Lined(Unhandled, sent), InOrder
        PROVE  InOrder'
    <2>1. First' = First /\ First \in 1..Len(sent) + 1
      BY <1>6, <1>8 DEF First
    <2>2. \A k \in 1..Len(sent) : k \in Due' <=> k \in Due
      BY <1>1, <1>3, Zenon DEF Due, ToAnswer
    <2>3. \A k \in Due : k \in 1..Len(sent)
      BY DEF Due
    <2>4. \A k \in Due' : (k < First => k \in 1..Len(sent)) /\ (k < First - 1 => k \in 1..Len(sent))
      BY <2>1, <1>1, <1>2 DEF Due
    <2>5. Answered' = Answered
      BY <2>1, <2>2, <2>3, <2>4, <1>1, Zenon DEF Answered
    <2>6. First - 1 \in Due => First' - 1 \in Due'
      BY <2>1, <2>2, <2>3
    <2> QED BY <2>5, <2>6, <1>1, <1>8, Zenon DEF InOrder
  <1> QED BY <1>4, <1>5, <1>6, <1>7, <1>8 DEF SessionInv

\* Between two messages, what the receive has is the start of the first one.
LEMMA StartOfMessage ==
    ASSUME TypeOK, header = <<>>, Lined(Unhandled, sent), Len(got) >= HeaderSize
    PROVE  /\ Unhandled # <<>> /\ First \in 1..Len(sent) /\ sent[First] \in Messages
           /\ \A k \in 1..HeaderSize : got[k] = <<First, k>>
           /\ Decode(got) = {[id |-> First, message |-> sent[First]]}
  <1>1. /\ got \in Seq(Cell) /\ stream \in Seq(Cell) /\ sent \in Seq(Messages)
        /\ Len(got) \in Nat /\ Len(stream) \in Nat
    BY LenProperties DEF TypeOK
  <1>2. /\ Unhandled \in Seq(Cell) /\ Len(Unhandled) = Len(got) + Len(stream)
        /\ \A j \in 1..Len(got) : Unhandled[j] = got[j]
    BY <1>1, UnhandledType, Joined
  <1>3. Unhandled # <<>>
    BY <1>1, <1>2, SessionFacts
  <1>4. /\ First \in 1..Len(sent)
        /\ Cells(sent[First]) \in Nat /\ Cells(sent[First]) >= HeaderSize
        /\ \A p \in 1..Cells(sent[First]) : Unhandled[p] = <<First, p>>
    BY <1>1, <1>2, <1>3, AtFront DEF First
  <1>5. ASSUME NEW k \in 1..HeaderSize
        PROVE  got[k] = <<First, k>>
    <2>1. k \in 1..Len(got) /\ k \in 1..Cells(sent[First])
      BY <1>1, <1>4, SessionFacts
    <2> QED BY <2>1, <1>2, <1>4, Zenon
  <1>6. sent[First] \in Messages
    BY <1>1, <1>4, ElementOfSeq
  <1>7. Decode(got) = {[id |-> First, message |-> sent[First]]}
    <2>1. 1 \in 1..HeaderSize
      BY SessionFacts
    <2>2. got[1][1] = First
      BY <2>1, <1>5
    <2> QED BY <2>2, <1>5, Zenon DEF Decode
  <1> QED BY <1>3, <1>4, <1>5, <1>6, <1>7

\* The node and serve are never out of step.
LEMMA NodeInStep == ASSUME SessionInv, reader # "service" PROVE Lined(Unhandled, sent) /\ InOrder
  BY DEF SessionInv, InStep

\* The header that is read is that of the first message not handled (receiveAndProcess).
LEMMA ReadHeaderInv == ASSUME SessionInv, ReadHeader PROVE SessionInv'
  <1> DEFINE d == [id |-> First, message |-> sent[First]]
  <1>1. /\ reader # "service" /\ ended = "no" /\ header = <<>> /\ Len(got) = HeaderSize
        /\ UNCHANGED <<reader, sent, eof, stream, replies>>
    BY DEF ReadHeader, peerVars
  <1>2. TypeOK /\ Lined(Unhandled, sent)
    BY <1>1, NodeInStep DEF SessionInv
  <1>3. /\ First \in 1..Len(sent) /\ sent[First] \in Messages /\ Decode(got) = {d}
        /\ \A k \in 1..HeaderSize : got[k] = <<First, k>>
    <2>1. Len(got) >= HeaderSize
      BY <1>1, SessionFacts
    <2> QED BY <1>1, <1>2, <2>1, StartOfMessage
  <1>4. \/ ended' = "size" /\ UNCHANGED <<got, header>>
        \/ d.message.size \in HeaderSize..MaxFrame /\ header' = <<d>> /\ got' = <<>> /\ UNCHANGED ended
    BY <1>3, Zenon DEF ReadHeader
  <1>5. CASE ended' = "size" /\ UNCHANGED <<got, header>>
    <2>1. TypeOK'
      BY <1>1, <1>2, <1>5 DEF TypeOK
    <2>2. HeaderCells' = HeaderCells /\ Unhandled' = Unhandled
      BY <1>1, <1>5 DEF HeaderCells, Unhandled
    <2>3. HeaderKept'
      BY <1>1, <1>5 DEF HeaderKept, SessionInv
    <2> QED BY <1>1, <1>5, <2>1, <2>2, <2>3, NothingHandled
  <1>6. CASE d.message.size \in HeaderSize..MaxFrame /\ header' = <<d>> /\ got' = <<>> /\ UNCHANGED ended
    <2>1. d \in Decoded /\ d.id = First /\ d.message = sent[First]
      BY <1>2, <1>3 DEF Decoded
    <2> HIDE DEF d
    <2>2. header' # <<>> /\ header'[1] = d /\ header' \in Seq(Decoded) /\ Len(header') = 1
      BY <1>6, <2>1
    <2>3. TypeOK'
      <3>1. got' \in Seq(Cell) /\ Len(header') <= 1
        BY <1>6, <2>2, EmptySeq
      <3> QED BY <1>1, <1>2, <1>6, <2>2, <3>1 DEF TypeOK
    <2>4. HeaderCells' = got
      <3>1. HeaderCells' = [k \in 1..HeaderSize |-> <<First, k>>]
        BY <2>1, <2>2 DEF HeaderCells
      <3>2. First \in Nat /\ got \in Seq(Cell)
        BY <1>2, <1>3, LenProperties DEF TypeOK
      <3>3. /\ HeaderCells' \in Seq(Cell) /\ Len(HeaderCells') = HeaderSize
            /\ \A k \in 1..HeaderSize : HeaderCells'[k] = <<First, k>>
        BY <3>1, <3>2, NewCells, SessionFacts, Zenon
      <3> QED BY <1>1, <1>3, <3>2, <3>3, SeqEqual, Zenon
    <2>5. Unhandled' = Unhandled
      <3>1. got' \o stream' = stream
        BY <1>1, <1>2, <1>6, ConcatEmptySeq DEF TypeOK
      <3>2. Unhandled' = got \o stream
        BY <2>4, <3>1 DEF Unhandled
      <3> QED BY <1>1, <1>2, <3>2, UnhandledType
    <2>6. HeaderKept'
      BY <1>1, <1>3, <1>6, <2>1, <2>2 DEF HeaderKept
    <2> QED BY <1>1, <1>6, <2>3, <2>5, <2>6, NothingHandled
  <1> QED BY <1>4, <1>5, <1>6

\* The first message is handled: it is answered if it is to be.
LEMMA Replied ==
    ASSUME SessionInv, InOrder, ended = "no", First \in 1..Len(sent), First' = First + 1,
           sent' = sent, reader' = reader,
           NEW mine \in BOOLEAN, mine <=> ToAnswer(sent[First]),
           IF mine THEN Answer(First) ELSE Skip
    PROVE  InOrder' /\ replies' \in Seq(0..Len(sent)) /\ ended' \in {"no", "send"}
  <1> DEFINE f == First
  <1>1. f \in Nat /\ Len(sent) \in Nat /\ First' = f + 1 /\ f \in 0..Len(sent)
    BY LenProperties DEF SessionInv, TypeOK
  <1>2. Due' = Due
    BY DEF Due, ToAnswer
  <1>3. (mine <=> f \in Due) /\ \A k \in Due : k \in Int
    BY <1>1 DEF Due
  <1>4. /\ replies \in Seq(0..Len(sent)) /\ Len(replies) \in Nat
        /\ \A j \in 1..Len(replies) : replies[j] \in Range(replies)
        /\ Range(replies) = {k \in Due : k < f}
        /\ \A j, k \in 1..Len(replies) : j < k => replies[j] < replies[k]
    <2>1. replies \in Seq(0..Len(sent)) /\ Len(replies) \in Nat
      BY LenProperties DEF SessionInv, TypeOK
    <2>2. Range(replies) = {replies[j] : j \in 1..Len(replies)}
      BY <2>1, RangeEquality
    <2>3. Answered = {k \in Due : k < f}
      BY Zenon DEF Answered
    <2> QED BY <2>1, <2>2, <2>3, Zenon DEF InOrder
  <1> HIDE DEF f
  <1>5. CASE ~mine
    <2>1. UNCHANGED <<ended, replies>>
      BY <1>5 DEF Skip
    <2>2. \A k \in Due : k < f + 1 <=> k < f
      BY <1>1, <1>3, <1>5
    <2>3. Answered' = {k \in Due : k < f}
      BY <1>1, <1>2, <2>1, <2>2 DEF Answered
    <2> QED BY <1>4, <2>1, <2>3 DEF InOrder
  <1>6. CASE mine /\ ended' = "send" /\ UNCHANGED replies
    <2>1. f + 1 - 1 = f
      BY <1>1
    <2>2. Answered' = {k \in Due : k < f} /\ First' - 1 \in Due'
      BY <1>1, <1>2, <1>3, <1>6, <2>1 DEF Answered
    <2> QED BY <1>4, <1>6, <2>2 DEF InOrder
  <1>7. CASE mine /\ replies' = Append(replies, f) /\ UNCHANGED ended
    <2>1. /\ replies' \in Seq(0..Len(sent)) /\ Len(replies') = Len(replies) + 1
          /\ \A j \in 1..Len(replies) : replies'[j] = replies[j]
          /\ replies'[Len(replies) + 1] = f
      BY <1>1, <1>4, <1>7, AppendProperties
    <2>2. \A j \in 1..Len(replies') : j \in 1..Len(replies) \/ j = Len(replies) + 1
      BY <2>1, <1>4
    <2>3. /\ \A j \in 1..Len(replies) : j \in 1..Len(replies')
          /\ Len(replies) + 1 \in 1..Len(replies')
      BY <2>1, <1>4
    <2>4. Range(replies') = {replies'[j] : j \in 1..Len(replies')}
      BY <2>1, RangeEquality
    <2>5. Range(replies) = {replies[j] : j \in 1..Len(replies)}
      BY <1>4, RangeEquality
    <2>6. Range(replies') = Range(replies) \cup {f}
      BY <2>1, <2>2, <2>3, <2>4, <2>5, Zenon
    <2>7. \A k \in Due : k < f + 1 <=> k < f \/ k = f
      BY <1>1, <1>3
    <2>8. Answered' = {k \in Due : k < f + 1}
      BY <1>1, <1>2, <1>7 DEF Answered
    <2>9. Range(replies') = Answered'
      BY <2>6, <2>7, <2>8, <1>3, <1>4, <1>7
    <2>10. ASSUME NEW j \in 1..Len(replies'), NEW k \in 1..Len(replies'), j < k
           PROVE  replies'[j] < replies'[k]
      <3>1. j \in 1..Len(replies)
        BY <2>1, <2>10, <1>4
      <3>2. CASE k \in 1..Len(replies)
        BY <2>1, <2>10, <1>4, <3>1, <3>2
      <3>3. CASE k = Len(replies) + 1
        <4>1. replies[j] < f
          BY <1>4, <3>1, Zenon
        <4> QED BY <2>1, <3>1, <3>3, <4>1
      <3> QED BY <2>2, <3>2, <3>3
    <2> QED BY <2>1, <2>9, <2>10, <1>7, Zenon DEF InOrder
  <1> QED BY <1>5, <1>6, <1>7 DEF Answer, f

\* A packet of the service, in step or not.
LEMMA HandlePacketInv == ASSUME SessionInv, HandlePacket PROVE SessionInv'
  <1>1. /\ reader = "service" /\ ended = "no" /\ Len(got) = QuerySize /\ got' = <<>>
        /\ UNCHANGED <<reader, sent, eof, stream, header>>
    BY DEF HandlePacket, peerVars
  <1>2. TypeOK /\ header = <<>> /\ Valid(Unhandled, sent)
    BY <1>1 DEF SessionInv, HeaderKept
  <1>3. /\ got \in Seq(Cell) /\ stream \in Seq(Cell) /\ sent \in Seq(Messages)
        /\ Len(got) \in Nat /\ Len(stream) \in Nat /\ Len(sent) \in Nat
    BY <1>2, LenProperties DEF TypeOK
  <1>4. /\ Unhandled \in Seq(Cell) /\ Len(Unhandled) = Len(got) + Len(stream)
        /\ \A j \in 1..Len(got) : Unhandled[j] = got[j]
        /\ \A j \in 1..Len(stream) : Unhandled[Len(got) + j] = stream[j]
    <2>1. Unhandled = got \o stream
      BY <1>2, UnhandledType, Zenon
    <2> HIDE DEF Unhandled
    <2> QED BY <1>3, <2>1, Joined, Zenon
  <1>5. Unhandled' = stream
    <2>1. HeaderCells' = <<>> /\ got' = <<>> /\ stream' = stream
      BY <1>1, <1>2 DEF HeaderCells
    <2>2. <<>> \o (<<>> \o stream) = stream
      BY <1>3, ConcatEmptySeq
    <2> QED BY <2>1, <2>2, Zenon DEF Unhandled
  <1>6. Valid(Unhandled, sent)'
    <2>1. Len(got) <= Len(Unhandled) /\ Len(stream) = Len(Unhandled) - Len(got)
      BY <1>3, <1>4
    <2>2. Valid(stream, sent)
      BY <1>2, <1>3, <1>4, <2>1, ValidRest, Zenon
    <2> QED BY <1>1, <1>5, <2>2, Zenon
  <1>7. HeaderKept'
    BY <1>1, <1>2 DEF HeaderKept
  <1>8. PICK d \in Decode(got) : IF d.message.query THEN Answer(d.id) ELSE Skip
    BY DEF HandlePacket
  <1>9. d.id \in 0..Len(sent)
    <2>1. 1 \in 1..Len(got) /\ 1 \in 1..Len(Unhandled)
      BY <1>1, <1>3, <1>4, SessionFacts
    <2>2. got[1][1] \in 1..Len(sent)
      BY <2>1, <1>2, <1>4, Zenon DEF Valid
    <2>3. d.id = got[1][1] \/ d.id = 0
      BY <1>8 DEF Decode
    <2> QED BY <2>2, <2>3, <1>3
  <1>10. TypeOK'
    <2>1. replies' \in Seq(0..Len(sent)) /\ ended' \in {"no", "send"}
      <3>1. replies \in Seq(0..Len(sent))
        BY <1>2 DEF TypeOK
      <3>2. Append(replies, d.id) \in Seq(0..Len(sent))
        BY <1>9, <3>1, AppendProperties
      <3> QED BY <1>1, <1>8, <3>1, <3>2 DEF Answer, Skip
    <2>2. got' \in Seq(Cell)
      BY <1>1, EmptySeq
    <2> QED BY <1>1, <1>2, <2>1, <2>2 DEF TypeOK
  <1>11. ASSUME InStep
         PROVE  Lined(Unhandled, sent)' /\ InOrder'
    <2>1. Lined(Unhandled, sent) /\ InOrder
      BY <1>11 DEF SessionInv
    <2>2. Len(got) >= HeaderSize
      BY <1>1, SessionFacts
    <2>3. /\ Unhandled # <<>> /\ First \in 1..Len(sent) /\ sent[First] \in Messages
          /\ Decode(got) = {[id |-> First, message |-> sent[First]]}
      BY <1>2, <2>1, <2>2, StartOfMessage
    <2>4. Cells(sent[First]) = Len(got)
      BY <1>1, <1>11, <2>3, SessionFacts DEF Cells, InStep
    <2>5. /\ Len(stream) = Len(Unhandled) - Cells(sent[FirstOf(Unhandled, sent)])
          /\ \A j \in 1..Len(stream) : stream[j] = Unhandled[Cells(sent[FirstOf(Unhandled, sent)]) + j]
      <3>1. Cells(sent[FirstOf(Unhandled, sent)]) = Len(got) /\ Len(stream) = Len(Unhandled) - Len(got)
        BY <1>3, <1>4, <2>4 DEF First
      <3> QED BY <1>4, <3>1, Zenon
    <2>6. Lined(stream, sent) /\ FirstOf(stream, sent) = First + 1
      BY <1>3, <1>4, <2>1, <2>3, <2>5, Pop, Zenon DEF First
    <2>7. Lined(Unhandled, sent)' /\ First' = First + 1
      BY <1>1, <1>5, <2>6, Zenon DEF First
    <2>8. d = [id |-> First, message |-> sent[First]]
      BY <1>8, <2>3
    <2>9. d.id = First /\ d.message = sent[First] /\ d.message.query \in BOOLEAN
      BY <2>3, <2>8, SessionFacts
    <2>10. d.message.query <=> ToAnswer(sent[First])
      BY <1>1, <2>9 DEF ToAnswer
    <2> QED BY <1>1, <1>8, <2>1, <2>3, <2>7, <2>9, <2>10, Replied
  <1>12. InStep' => InStep
    BY <1>1 DEF InStep
  <1> QED BY <1>6, <1>7, <1>10, <1>11, <1>12 DEF SessionInv

\* The body that is read completes that message, which is then answered or skipped
\* (receiveAndProcess).
LEMMA ReadBodyInv == ASSUME SessionInv, ReadBody PROVE SessionInv'
  <1> DEFINE d == header[1]
             mine == IF reader = "node" THEN NodeAnswers(d.message) ELSE Ours(d.message)
             n == Cells(sent[First])
  <1>1. /\ reader # "service" /\ ended = "no" /\ header # <<>> /\ Len(got) = Body(d.message)
        /\ header' = <<>> /\ got' = <<>> /\ IF mine THEN Answer(d.id) ELSE Skip
        /\ UNCHANGED <<reader, sent, eof, stream>>
    BY DEF ReadBody, peerVars, Want
  <1>2. /\ TypeOK /\ Lined(Unhandled, sent) /\ InOrder
        /\ d.id \in 1..Len(sent) /\ d.message = sent[d.id] /\ d.message.size \in HeaderSize..MaxFrame
    BY <1>1, NodeInStep DEF SessionInv, HeaderKept
  <1>3. /\ got \in Seq(Cell) /\ stream \in Seq(Cell) /\ sent \in Seq(Messages)
        /\ Len(got) \in Nat /\ Len(stream) \in Nat /\ Len(sent) \in Nat
    BY <1>2, LenProperties DEF TypeOK
  <1>4. /\ HeaderCells \in Seq(Cell) /\ Len(HeaderCells) = HeaderSize /\ HeaderCells[1] = <<d.id, 1>>
        /\ got \o stream \in Seq(Cell)
    BY <1>1, <1>2, UnhandledType, SessionFacts DEF HeaderCells
  <1>5. /\ Unhandled \in Seq(Cell) /\ Len(Unhandled) = HeaderSize + Len(got \o stream)
        /\ Unhandled[1] = HeaderCells[1]
        /\ \A j \in 1..Len(got \o stream) : Unhandled[HeaderSize + j] = (got \o stream)[j]
    <2>1. 1 \in 1..Len(HeaderCells)
      BY <1>4, SessionFacts
    <2> QED BY <1>4, <2>1, Joined, Zenon DEF Unhandled
  <1>6. /\ Len(got \o stream) = Len(got) + Len(stream)
        /\ \A j \in 1..Len(stream) : (got \o stream)[Len(got) + j] = stream[j]
    BY <1>3, Joined
  <1>7. Unhandled # <<>> /\ First = d.id /\ sent[First] = d.message /\ sent[First] \in Messages
    <2>1. Unhandled # <<>>
      BY <1>3, <1>5, <1>6, SessionFacts
    <2>2. First = d.id
      BY <2>1, <1>4, <1>5 DEF First, FirstOf
    <2> QED BY <2>1, <2>2, <1>2, <1>3, ElementOfSeq
  <1>8. n = HeaderSize + Len(got) /\ n \in Nat
    <2>1. HeaderSize \in Nat /\ MaxFrame \in Nat /\ sent[First] = d.message
      BY <1>7, SessionFacts
    <2>2. d.message.size \in Nat /\ Cells(d.message) = d.message.size
      BY <1>2, <2>1 DEF Cells
    <2>3. Len(got) = d.message.size - HeaderSize
      BY <1>1 DEF Body
    <2> HIDE DEF d
    <2> QED BY <1>3, <2>1, <2>2, <2>3
  <1>9. mine <=> ToAnswer(sent[First])
    <2>1. Body(d.message) >= MinQuery <=> d.message.size >= HeaderSize + MinQuery
      BY <1>2, SessionFacts DEF Body
    <2>2. reader \in {"node", "python"}
      BY <1>1, <1>2 DEF TypeOK
    <2>3. CASE reader = "node"
      BY <2>1, <2>3, <1>7 DEF ToAnswer, NodeAnswers
    <2>4. CASE reader = "python"
      BY <2>4, <1>7 DEF ToAnswer
    <2> QED BY <2>2, <2>3, <2>4
  <1>10. mine \in BOOLEAN
    BY <1>9, Zenon DEF NodeAnswers, Ours
  <1> HIDE DEF n, mine, d
  <1>11. Len(stream) = Len(Unhandled) - n /\ \A j \in 1..Len(stream) : stream[j] = Unhandled[n + j]
    <2>1. Len(stream) = Len(Unhandled) - n
      BY <1>3, <1>5, <1>6, <1>8, SessionFacts
    <2>2. ASSUME NEW j \in 1..Len(stream)
          PROVE  stream[j] = Unhandled[n + j]
      <3>1. Len(got) + j \in 1..Len(got \o stream) /\ HeaderSize + (Len(got) + j) = n + j
        BY <1>3, <1>6, <1>8, SessionFacts
      <3>2. Unhandled[HeaderSize + (Len(got) + j)] = (got \o stream)[Len(got) + j]
        BY <1>5, <3>1, Zenon
      <3> QED BY <1>6, <3>1, <3>2, Zenon
    <2> QED BY <2>1, <2>2
  <1>12. Unhandled' = stream
    <2>1. HeaderCells' = <<>> /\ got' = <<>> /\ stream' = stream
      BY <1>1 DEF HeaderCells
    <2>2. <<>> \o (<<>> \o stream) = stream
      BY <1>3, ConcatEmptySeq
    <2> QED BY <2>1, <2>2, Zenon DEF Unhandled
  <1>13. Lined(stream, sent) /\ FirstOf(stream, sent) = First + 1
    BY <1>2, <1>3, <1>5, <1>7, <1>11, Pop, Zenon DEF First, n
  <1>14. Lined(Unhandled, sent)' /\ First' = First + 1
    BY <1>1, <1>12, <1>13, Zenon DEF First
  <1>15. InOrder' /\ replies' \in Seq(0..Len(sent)) /\ ended' \in {"no", "send"}
    BY <1>1, <1>2, <1>7, <1>9, <1>10, <1>14, Replied
  <1>16. TypeOK'
    <2>1. got' \in Seq(Cell) /\ header' \in Seq(Decoded) /\ Len(header') <= 1
      BY <1>1, EmptySeq
    <2> QED BY <1>1, <1>2, <1>15, <2>1 DEF TypeOK
  <1>17. HeaderKept'
    BY <1>1, <1>15 DEF HeaderKept
  <1>18. Valid(Unhandled, sent)'
    BY <1>14 DEF Lined
  <1> QED BY <1>14, <1>15, <1>16, <1>17, <1>18 DEF SessionInv

\* Every step of the session keeps the invariant.
LEMMA SessionStep == SessionInv /\ [Next]_vars => SessionInv'
  BY SendInv, EndInv, ReceiveInv, HandlePacketInv, ReadHeaderInv, ReadBodyInv, Zenon DEF Next, Serve

\* The invariant of the session holds in every state.
LEMMA SessionInvariance == Spec => []SessionInv
  BY SessionInit, SessionStep, PTL DEF Spec

\* The cells of two sequences that are joined.
LEMMA RangeOfJoined ==
    ASSUME NEW a \in Seq(Cell), NEW b \in Seq(Cell)
    PROVE  Range(a \o b) = Range(a) \cup Range(b)
  BY RangeConcatenation

\* What is not handled yet, as the property says it.
LEMMA HandledFact ==
    ASSUME SessionInv, Lined(Unhandled, sent), NEW k \in 1..Len(sent)
    PROVE  First \in Int /\ (Handled(k) <=> k < First)
  <1>1. TypeOK /\ sent \in Seq(Messages) /\ Len(sent) \in Nat /\ got \in Seq(Cell) /\ stream \in Seq(Cell)
    BY LenProperties DEF SessionInv, TypeOK
  <1>2. /\ HeaderCells \in Seq(Cell) /\ got \o stream \in Seq(Cell) /\ Unhandled \in Seq(Cell)
    BY <1>1, UnhandledType
  <1>3. First \in Int
    <2>1. CASE Unhandled = <<>>
      BY <1>1, <2>1 DEF First, FirstOf
    <2>2. CASE Unhandled # <<>>
      BY <1>1, <1>2, <2>2, AtFront DEF First
    <2> QED BY <2>1, <2>2
  <1>4. (\E j \in 1..Len(Unhandled) : Unhandled[j][1] = k) <=> First <= k
    BY <1>1, <1>2, FromFirstOn DEF First
  <1>5. Range(Unhandled) = {Unhandled[j] : j \in 1..Len(Unhandled)}
    BY <1>2, RangeEquality
  <1>6. Range(Unhandled) = Range(HeaderCells) \cup (Range(got) \cup Range(stream))
    <2>1. Range(got \o stream) = Range(got) \cup Range(stream)
      BY <1>1, RangeOfJoined, Zenon
    <2>2. Range(Unhandled) = Range(HeaderCells) \cup Range(got \o stream)
      BY <1>2, RangeOfJoined, Zenon DEF Unhandled
    <2> QED BY <2>1, <2>2, Zenon
  <1>7. (\E c \in Range(HeaderCells) : c[1] = k) <=> (\E d \in Range(header) : d.id = k)
    <2>1. CASE header = <<>>
      BY <2>1 DEF HeaderCells, Range
    <2>2. CASE header # <<>>
      <3>1. Len(header) = 1 /\ header \in Seq(Decoded)
        <4>1. header \in Seq(Decoded)
          BY <1>1 DEF TypeOK
        <4>2. Len(header) <= 1
          BY <1>1 DEF TypeOK
        <4>3. Len(header) \in Nat \ {0}
          BY <2>2, <4>1, EmptySeq
        <4>4. Len(header) = 1
          BY <4>2, <4>3
        <4> QED BY <4>1, <4>4
      <3>2. Range(header) = {header[1]}
        BY <3>1, RangeEquality
      <3>3. Range(HeaderCells) = {<<header[1].id, j>> : j \in 1..HeaderSize}
        BY <2>2 DEF HeaderCells, Range
      <3>4. 1 \in 1..HeaderSize
        BY SessionFacts
      <3>5. \A j : <<header[1].id, j>>[1] = header[1].id
        OBVIOUS
      <3> QED BY <3>2, <3>3, <3>4, <3>5, Zenon
    <2> QED BY <2>1, <2>2
  <1>8. Handled(k) <=> ~\E c \in Range(Unhandled) : c[1] = k
    BY <1>6, <1>7, Zenon DEF Handled
  <1>9. (\E c \in Range(Unhandled) : c[1] = k) <=> First <= k
    BY <1>4, <1>5, Zenon
  <1>10. First <= k <=> ~(k < First)
    BY <1>1, <1>3
  <1> QED BY <1>3, <1>8, <1>9, <1>10

\* The invariant says that the replies are in order.
LEMMA InvInOrder == SessionInv => AnswersInOrder
  <1> SUFFICES ASSUME SessionInv, InStep PROVE AnswersInOrder
    BY Zenon DEF AnswersInOrder
  <1>1. Lined(Unhandled, sent) /\ InOrder
    BY DEF SessionInv
  <1> DEFINE answered == {k \in Due : Handled(k)}
             butLast == {k \in answered : \E later \in answered : k < later}
  <1>2. \A k \in Due : k \in 1..Len(sent) /\ k \in Int
    BY DEF Due
  <1>3. answered = {k \in Due : k < First}
    BY <1>1, <1>2, HandledFact
  <1>4. CASE ended = "send"
    <2>1. First - 1 \in Due
      BY <1>1, <1>4 DEF InOrder
    <2>2. First \in Int
      BY <1>1, <1>2, <2>1, HandledFact
    <2>3. butLast = {k \in Due : k < First - 1}
      BY <1>2, <1>3, <2>1, <2>2
    <2>4. Range(replies) = {k \in Due : k < First - 1}
      BY <1>1, <1>4 DEF InOrder, Answered
    <2> QED BY <1>1, <1>4, <2>3, <2>4, Zenon DEF AnswersInOrder, InOrder
  <1>5. CASE ended # "send"
    <2>1. Range(replies) = {k \in Due : k < First}
      BY <1>1, <1>5 DEF InOrder, Answered
    <2> QED BY <1>1, <1>3, <1>5, <2>1, Zenon DEF AnswersInOrder, InOrder
  <1> QED BY <1>4, <1>5

\* At every moment the replies of a session are exactly those to the queries read so
\* far, one each and in order, for any number and size of messages and whatever
\* pieces they arrive in (handleSession, serve).
THEOREM RepliesInOrder == Spec => []AnswersInOrder
  BY SessionInvariance, InvInOrder, PTL

\* The state of a session keeps its type: a reply is to a message that was sent.
THEOREM SessionTyped == Spec => []TypeOK
  <1>1. SessionInv => TypeOK
    BY DEF SessionInv
  <1> QED BY SessionInvariance, <1>1, PTL

-------------------------------------------------------------------------------
(* The service out of step *)

\* The beginnings of messages are in order, and none has its reply yet.
Beginnings(r, done) ==
    /\ \A j, k \in 1..Len(r) : j < k /\ r[j][2] = 1 /\ r[k][2] = 1 => r[j][1] < r[k][1]
    /\ \A j \in 1..Len(r), k \in 1..Len(done) : r[j][2] = 1 => done[k] < r[j][1]

\* What keeps the service from answering a query twice, with or without its frames.
OnceInv == reader = "service" => Beginnings(Unhandled, replies) /\ NoneAnsweredTwice

\* The types the steps need.
LEMMA OnceTypes ==
    ASSUME SessionInv
    PROVE  /\ TypeOK /\ Valid(Unhandled, sent)
           /\ Unhandled \in Seq(Cell) /\ Len(Unhandled) \in Nat
           /\ sent \in Seq(Messages) /\ Len(sent) \in Nat
           /\ replies \in Seq(0..Len(sent)) /\ Len(replies) \in Nat
           /\ \A k \in 1..Len(replies) : replies[k] \in 0..Len(sent)
  <1>1. TypeOK /\ Valid(Unhandled, sent)
    BY DEF SessionInv
  <1>2. Unhandled \in Seq(Cell) /\ Len(Unhandled) \in Nat
    BY <1>1, UnhandledType, LenProperties
  <1>3. sent \in Seq(Messages) /\ replies \in Seq(0..Len(sent))
    BY <1>1 DEF TypeOK
  <1>4. \A k \in 1..Len(replies) : replies[k] \in 0..Len(sent)
    BY <1>3, ElementOfSeq
  <1> QED BY <1>1, <1>2, <1>3, <1>4, LenProperties

\* A message that is sent begins behind all others (the peer of handleSession).
LEMMA OnceSend ==
    ASSUME SessionInv, OnceInv, NEW m \in Messages, Send(m), reader = "service"
    PROVE  OnceInv'
  <1>1. /\ TypeOK /\ Valid(Unhandled, sent)
        /\ Len(Unhandled) \in Nat /\ Len(sent) \in Nat
        /\ \A k \in 1..Len(replies) : replies[k] \in 0..Len(sent)
    BY OnceTypes
  <1>2. /\ reader' = reader /\ replies' = replies
        /\ Len(Unhandled') = Len(Unhandled) + Cells(m)
        /\ \A j \in 1..Len(Unhandled) : Unhandled'[j] = Unhandled[j]
        /\ \A p \in 1..Cells(m) : Unhandled'[Len(Unhandled) + p] = <<Len(sent) + 1, p>>
    BY <1>1, SendStep
  <1>3. Beginnings(Unhandled, replies) /\ NoneAnsweredTwice
    BY DEF OnceInv
  <1>4. Cells(m) \in Nat
    BY CellsFact
  <1>5. ASSUME NEW j \in 1..Len(Unhandled'), Unhandled'[j][2] = 1
        PROVE  \/ j \in 1..Len(Unhandled) /\ Unhandled'[j] = Unhandled[j]
               \/ j = Len(Unhandled) + 1 /\ Unhandled'[j][1] = Len(sent) + 1
    <2>1. CASE j \in 1..Len(Unhandled)
      BY <1>2, <2>1
    <2>2. CASE j \notin 1..Len(Unhandled)
      <3>1. j - Len(Unhandled) \in 1..Cells(m) /\ Len(Unhandled) + (j - Len(Unhandled)) = j
        BY <1>1, <1>2, <1>4, <2>2
      <3>2. Unhandled'[j] = <<Len(sent) + 1, j - Len(Unhandled)>>
        BY <1>2, <3>1
      <3>3. j - Len(Unhandled) = 1
        BY <1>5, <3>2
      <3> QED BY <1>1, <3>1, <3>2, <3>3
    <2> QED BY <2>1, <2>2
  <1>6. \A j \in 1..Len(Unhandled) : Unhandled[j][1] \in 1..Len(sent)
    BY <1>1 DEF Valid
  <1>7. ASSUME NEW j \in 1..Len(Unhandled'), NEW k \in 1..Len(Unhandled'), j < k,
               Unhandled'[j][2] = 1, Unhandled'[k][2] = 1
        PROVE  Unhandled'[j][1] < Unhandled'[k][1]
    <2>1. j \in 1..Len(Unhandled) /\ Unhandled'[j] = Unhandled[j]
      BY <1>1, <1>2, <1>4, <1>5, <1>7
    <2>2. CASE k \in 1..Len(Unhandled) /\ Unhandled'[k] = Unhandled[k]
      BY <1>3, <1>7, <2>1, <2>2 DEF Beginnings
    <2>3. CASE Unhandled'[k][1] = Len(sent) + 1
      BY <1>1, <1>6, <2>1, <2>3
    <2> QED BY <1>5, <1>7, <2>2, <2>3
  <1>8. ASSUME NEW j \in 1..Len(Unhandled'), NEW k \in 1..Len(replies), Unhandled'[j][2] = 1
        PROVE  replies[k] < Unhandled'[j][1]
    <2>1. CASE j \in 1..Len(Unhandled) /\ Unhandled'[j] = Unhandled[j]
      BY <1>3, <1>8, <2>1 DEF Beginnings
    <2>2. CASE Unhandled'[j][1] = Len(sent) + 1
      BY <1>1, <2>2
    <2> QED BY <1>5, <1>8, <2>1, <2>2
  <1>9. Beginnings(Unhandled', replies)
    BY <1>7, <1>8 DEF Beginnings
  <1>10. NoneAnsweredTwice'
    BY <1>2, <1>3 DEF NoneAnsweredTwice
  <1> QED BY <1>2, <1>9, <1>10 DEF OnceInv

\* A packet takes at most the beginning it starts with for its own, and what follows
\* begins later (BaseOracleService::handleSession).
LEMMA OncePacket ==
    ASSUME SessionInv, OnceInv, HandlePacket
    PROVE  OnceInv'
  <1>1. /\ reader = "service" /\ Len(got) = QuerySize /\ got' = <<>>
        /\ UNCHANGED <<reader, sent, stream, header>>
    BY DEF HandlePacket, peerVars
  <1>2. /\ TypeOK /\ header = <<>>
        /\ replies \in Seq(0..Len(sent)) /\ Len(replies) \in Nat
        /\ \A k \in 1..Len(replies) : replies[k] \in 0..Len(sent)
    BY <1>1, OnceTypes DEF SessionInv, HeaderKept
  <1>3. got \in Seq(Cell) /\ stream \in Seq(Cell) /\ Len(got) \in Nat /\ Len(stream) \in Nat
    BY <1>2, LenProperties DEF TypeOK
  <1>4. /\ Len(Unhandled) = Len(got) + Len(stream)
        /\ \A j \in 1..Len(got) : Unhandled[j] = got[j]
        /\ \A j \in 1..Len(stream) : Unhandled[Len(got) + j] = stream[j]
    <2>1. Unhandled = got \o stream
      BY <1>2, UnhandledType, Zenon
    <2> HIDE DEF Unhandled
    <2> QED BY <1>3, <2>1, Joined, Zenon
  <1>5. Unhandled' = stream
    <2>1. HeaderCells' = <<>> /\ got' = <<>> /\ stream' = stream
      BY <1>1, <1>2 DEF HeaderCells
    <2>2. <<>> \o (<<>> \o stream) = stream
      BY <1>3, ConcatEmptySeq
    <2> QED BY <2>1, <2>2, Zenon DEF Unhandled
  <1>6. Beginnings(Unhandled, replies) /\ NoneAnsweredTwice
    BY <1>1 DEF OnceInv
  <1>7. \A j \in 1..Len(stream) : Len(got) + j \in 1..Len(Unhandled)
    BY <1>3, <1>4
  <1>8. Beginnings(stream, replies)
    <2>1. ASSUME NEW j \in 1..Len(stream), NEW k \in 1..Len(stream), j < k,
                 stream[j][2] = 1, stream[k][2] = 1
          PROVE  stream[j][1] < stream[k][1]
      <3>1. Len(got) + j < Len(got) + k
        BY <1>3, <2>1
      <3>2. /\ Len(got) + j \in 1..Len(Unhandled) /\ Len(got) + k \in 1..Len(Unhandled)
            /\ Unhandled[Len(got) + j] = stream[j] /\ Unhandled[Len(got) + k] = stream[k]
        BY <1>4, <1>7, Zenon
      <3> HIDE DEF Unhandled
      <3> QED BY <1>6, <2>1, <3>1, <3>2, Zenon DEF Beginnings
    <2>2. ASSUME NEW j \in 1..Len(stream), NEW k \in 1..Len(replies), stream[j][2] = 1
          PROVE  replies[k] < stream[j][1]
      BY <1>4, <1>6, <1>7, <2>2, Zenon DEF Beginnings
    <2> QED BY <2>1, <2>2 DEF Beginnings
  <1>9. CASE replies' = replies
    <2>1. NoneAnsweredTwice'
      BY <1>6, <1>9 DEF NoneAnsweredTwice
    <2> QED BY <1>5, <1>8, <1>9, <2>1 DEF OnceInv
  <1>10. ASSUME NEW d \in Decode(got), replies' = Append(replies, d.id)
         PROVE  OnceInv'
    <2>1. 1 \in 1..Len(got) /\ 1 \in 1..Len(Unhandled) /\ 1 \in 1..HeaderSize
      BY <1>1, <1>3, <1>4, SessionFacts
    <2>2. d.id = 0 \/ (d.id = Unhandled[1][1] /\ Unhandled[1][2] = 1)
      <3>1. d.id = 0 \/ (d.id = got[1][1] /\ got[1] = <<got[1][1], 1>>)
        BY <2>1 DEF Decode
      <3>2. \A a, c : c = <<a, 1>> => c[2] = 1
        OBVIOUS
      <3>3. Unhandled[1] = got[1]
        BY <1>4, <2>1, Zenon
      <3>4. got[1] = <<got[1][1], 1>> => got[1][2] = 1
        BY <3>2, Zenon
      <3> HIDE DEF Unhandled
      <3> QED BY <3>1, <3>3, <3>4, Zenon
    <2>3. Valid(Unhandled, sent) /\ Len(sent) \in Nat
      BY OnceTypes
    <2>4. d.id \in 0..Len(sent)
      BY <2>1, <2>2, <2>3 DEF Valid
    <2>5. /\ Len(replies') = Len(replies) + 1
          /\ \A k \in 1..Len(replies) : replies'[k] = replies[k]
          /\ replies'[Len(replies) + 1] = d.id
      BY <1>2, <1>10, <2>4, AppendProperties
    <2>6. \A k \in 1..Len(replies') : k \in 1..Len(replies) \/ k = Len(replies) + 1
      BY <1>2, <2>5
    <2>7. d.id # 0 => \A k \in 1..Len(replies) : replies[k] < d.id
      BY <1>6, <2>1, <2>2 DEF Beginnings
    <2>8. ASSUME NEW j \in 1..Len(stream), stream[j][2] = 1
          PROVE  d.id < stream[j][1]
      <3>1. Len(got) + j \in 1..Len(Unhandled) /\ 1 < Len(got) + j
        BY <1>3, <1>7, <2>1
      <3>2. Unhandled[Len(got) + j] = stream[j]
        BY <1>4
      <3>3. CASE d.id = 0
        BY <2>3, <3>1, <3>2, <3>3 DEF Valid
      <3>4. CASE d.id # 0
        BY <1>6, <2>1, <2>2, <2>8, <3>1, <3>2, <3>4 DEF Beginnings
      <3> QED BY <3>3, <3>4
    <2>9. Beginnings(stream, replies')
      <3>1. \A j \in 1..Len(stream), k \in 1..Len(replies') :
                stream[j][2] = 1 => replies'[k] < stream[j][1]
        BY <1>8, <2>5, <2>6, <2>8, Zenon DEF Beginnings
      <3> QED BY <1>8, <3>1 DEF Beginnings
    <2>10. NoneAnsweredTwice'
      <3> SUFFICES ASSUME NEW j \in 1..Len(replies'), NEW k \in 1..Len(replies'),
                          j < k, replies'[k] # 0
                   PROVE  replies'[j] < replies'[k]
        BY DEF NoneAnsweredTwice
      <3>1. j \in 1..Len(replies)
        BY <1>2, <2>5
      <3>2. CASE k \in 1..Len(replies)
        BY <1>6, <2>5, <3>1, <3>2 DEF NoneAnsweredTwice
      <3>3. CASE k = Len(replies) + 1
        BY <2>5, <2>7, <3>1, <3>3
      <3> QED BY <2>6, <3>2, <3>3
    <2> QED BY <1>5, <2>9, <2>10 DEF OnceInv
  <1> QED BY <1>9, <1>10 DEF HandlePacket, Answer, Skip

\* A step that answers nothing and leaves what is to be read.
LEMMA OnceSame ==
    ASSUME OnceInv, Unhandled' = Unhandled, replies' = replies, reader' = reader
    PROVE  OnceInv'
  BY DEF OnceInv, NoneAnsweredTwice, Beginnings

\* What arrives or ends the session answers nothing (receiveExact).
LEMMA OnceReceive ==
    ASSUME SessionInv, OnceInv, Receive \/ Timeout \/ EndOfFile \/ Close \/ UNCHANGED vars
    PROVE  OnceInv'
  <1>1. TypeOK /\ UNCHANGED <<reader, header, replies>>
    BY DEF SessionInv, Receive, Timeout, EndOfFile, Close, vars, peerVars
  <1>2. got' \o stream' = got \o stream
    <2>1. CASE Receive
      <3>1. PICK n \in 1..Len(stream) :
               got' = got \o SubSeq(stream, 1, n) /\ stream' = SubSeq(stream, n + 1, Len(stream))
        BY <2>1, Zenon DEF Receive
      <3> QED BY <1>1, <3>1, Arrive, Zenon DEF TypeOK
    <2>2. CASE Timeout \/ EndOfFile \/ Close \/ UNCHANGED vars
      BY <2>2 DEF Timeout, EndOfFile, Close, vars
    <2> QED BY <2>1, <2>2
  <1>3. Unhandled' = Unhandled
    BY <1>1, <1>2 DEF Unhandled, HeaderCells
  <1> QED BY <1>1, <1>3, OnceSame

\* Every step keeps it; the other two loops read messages, not packets.
LEMMA OnceStep == SessionInv /\ OnceInv /\ [Next]_vars => OnceInv'
  <1> SUFFICES ASSUME SessionInv, OnceInv, [Next]_vars PROVE OnceInv'
    OBVIOUS
  <1>1. CASE reader = "service"
    <2>1. ~ReadHeader /\ ~ReadBody
      BY <1>1 DEF ReadHeader, ReadBody
    <2> QED BY <1>1, <2>1, OnceSend, OncePacket, OnceReceive, Zenon DEF Next, Serve
  <1>2. CASE reader # "service"
    <2>1. reader' = reader
      BY DEF Next, Serve, Send, Close, Timeout, Receive, EndOfFile, HandlePacket, ReadHeader,
             ReadBody, vars, peerVars
    <2> QED BY <1>2, <2>1 DEF OnceInv
  <1> QED BY <1>1, <1>2

\* No query is answered twice or after a later one, by any of the three loops and
\* whatever the peer sends, messages that put the service out of step included
\* (BaseOracleService::handleSession).
THEOREM AnsweredOnce == Spec => []NoneAnsweredTwice
  <1>1. Init => OnceInv
    <2> SUFFICES ASSUME Init PROVE OnceInv
      OBVIOUS
    <2>1. <<>> \in Seq(Cell) /\ (<<>> \o <<>>) = <<>> /\ Len(<<>>) = 0 /\ 1..0 = {}
      BY EmptySeq, ConcatEmptySeq
    <2>2. Unhandled = <<>> /\ replies = <<>>
      BY <2>1 DEF Init, Unhandled, HeaderCells
    <2> QED BY <2>1, <2>2, Zenon DEF OnceInv, Beginnings, NoneAnsweredTwice
  <1>2. SessionInv /\ OnceInv => NoneAnsweredTwice
    BY Zenon DEF SessionInv, OnceInv, InStep, InOrder, NoneAnsweredTwice
  <1> QED BY SessionInvariance, OnceStep, <1>1, <1>2, PTL DEF Spec

-------------------------------------------------------------------------------
(* The test node: what is on the way are the last queries asked *)

\* On a connection on which a was asked, and the first b of it are dealt with, the
\* replies reps and the queries qs are on the way.
InTransit(a, b, reps, qs, open) ==
    /\ b \in Nat
    /\ \A j \in 1..Len(reps) : b + j \in 1..Len(a) /\ reps[j].id = a[b + j]
    /\ open = TRUE => /\ b + Len(reps) + Len(qs) = Len(a)
                      /\ \A j \in 1..Len(qs) : qs[j].id = a[b + Len(reps) + j]

\* The queries answered or given up.
Waiting == IF at = "wait" THEN 1 ELSE 0
\* The queries of this connection that were dealt with before the one waited for.
Behind == Len(asked) - late - Waiting

\* What is on the way, in order, are the queries asked that are not dealt with.
Aligned ==
    /\ InTransit(asked, Behind, link.replies, link.queries, link.peer = "open")
    /\ link.peer # "open" => link.queries = <<>>

\* Every line printed is about a query of this connection.
LinesPlaced ==
    \A k \in 1..Len(shown) : shown[k].place \in 1..Len(asked) /\ shown[k].late \in Nat

\* The first n lines are the first n pairs with their own prices.
Right(n) ==
    /\ Len(shown) = n
    /\ \A k \in 1..n : shown[k].pair = config.pairs[k] /\ shown[k].price = config.pairs[k]

\* The query that is being asked.
Own == [id |-> queryId, pair |-> config.pairs[i]]

\* A call that has not failed so far, with ids that nobody has used.
Clean == config.interval = 0 /\ exitCode = 0 /\ fresh = TRUE

\* As long as the call is clean, each line shows the price of its own pair and no
\* foreign query has the id of the one being asked.
CleanSoFar ==
    Clean =>
        /\ at = "connect" => \A q \in machine \cup Range(link.queries) : q.id < queryId
        /\ at = "send" => /\ late = 0 /\ Len(asked) = i - 1 /\ Right(i - 1)
                          /\ \A q \in machine : q.id < queryId
        /\ at = "wait" => /\ late = 0 /\ Len(asked) = i /\ Right(i - 1)
                          /\ \A q \in machine : q.id < queryId \/ q = Own
                          /\ \A j \in 1..Len(link.queries) : link.queries[j] = Own
                          /\ \A j \in 1..Len(link.replies) : link.replies[j].error = FALSE =>
                                 link.replies[j].pair = config.pairs[i]
        /\ at = "exited" => Right(Len(config.pairs))

\* Only a call without an interval comes to its end by itself (main).
ExitedOnce == at = "exited" /\ exitCode = 0 => config.interval = 0

\* The inductive invariant of the test node.
TestNodeInv ==
    /\ TestNodeTypeOK /\ Aligned /\ LinesPlaced /\ LinesLagByTimeouts
    /\ CleanSoFar /\ ExitedOnce
-------------------------------------------------------------------------------
\* The pairs of a call.
LEMMA ConfigFacts ==
    ASSUME NEW c \in Configs
    PROVE  /\ c.pairs \in Seq(Pairs) /\ Len(c.pairs) \in Nat /\ Len(c.pairs) >= 1
           /\ \A k \in 1..Len(c.pairs) : c.pairs[k] \in Pairs
           /\ c.interval \in {0, 1}
  <1>1. c.pairs \in PairLists /\ c.interval \in {0, 1}
    BY DEF Configs
  <1>2. c.pairs \in Seq(Range(c.pairs)) /\ Len(c.pairs) > 0
    BY <1>1, TestNodeAssumption DEF TestNodeAssumption
  <1>3. Range(c.pairs) \subseteq Pairs
    BY <1>1 DEF Pairs
  <1>4. c.pairs \in Seq(Pairs)
    BY <1>2, <1>3, SeqMonotonic
  <1>5. Len(c.pairs) \in Nat /\ \A k \in 1..Len(c.pairs) : c.pairs[k] \in Pairs
    BY <1>4, LenProperties, ElementOfSeq
  <1> QED BY <1>1, <1>2, <1>4, <1>5

\* The bounds and the first ids.
LEMMA TestNodeFacts == Seeds \subseteq Nat /\ MaxCalls \in Nat /\ MaxLines \in Nat
  BY TestNodeAssumption DEF TestNodeAssumption

\* An id or a query that is added to its sequence is the last of it.
LEMMA Lengthened ==
    /\ \A a \in Seq(Nat), e \in Nat :
           /\ Len(Append(a, e)) = Len(a) + 1 /\ Append(a, e)[Len(a) + 1] = e
           /\ \A k \in 1..Len(a) : Append(a, e)[k] = a[k]
    /\ \A qs \in Seq(Question), q \in Question :
           /\ Len(Append(qs, q)) = Len(qs) + 1 /\ Append(qs, q)[Len(qs) + 1] = q
           /\ \A k \in 1..Len(qs) : Append(qs, q)[k] = qs[k]
  BY AppendProperties

\* One more query is asked and one more is on its way.
LEMMA OneMore ==
    ASSUME NEW b \in Nat, NEW r \in Nat, NEW q \in Nat
    PROVE  b + r + (q + 1) = (b + r + q) + 1
  OBVIOUS

\* A query is asked on an open connection.
LEMMA TransitAsk ==
    ASSUME NEW a \in Seq(Nat), NEW b, NEW reps \in Seq(Response), NEW qs \in Seq(Question),
           InTransit(a, b, reps, qs, TRUE), NEW q \in Question
    PROVE  InTransit(Append(a, q.id), b, reps, Append(qs, q), TRUE)
  <1> DEFINE a2 == Append(a, q.id)
             q2 == Append(qs, q)
  <1>1. Len(a) \in Nat /\ Len(reps) \in Nat /\ Len(qs) \in Nat /\ b \in Nat /\ q.id \in Nat
    BY LenProperties DEF InTransit, Question
  <1>2. /\ Len(a2) = Len(a) + 1 /\ a2[Len(a) + 1] = q.id
        /\ \A k \in 1..Len(a) : a2[k] = a[k]
    BY <1>1, Lengthened, Zenon
  <1>3. /\ Len(q2) = Len(qs) + 1 /\ q2[Len(qs) + 1] = q
        /\ \A k \in 1..Len(qs) : q2[k] = qs[k]
    BY Lengthened, Zenon
  <1> HIDE DEF a2, q2
  <1>4. ASSUME NEW j \in 1..Len(reps)
        PROVE  b + j \in 1..Len(a2) /\ reps[j].id = a2[b + j]
    <2>1. b + j \in 1..Len(a) /\ reps[j].id = a[b + j]
      BY Zenon DEF InTransit
    <2>2. b + j \in 1..Len(a) + 1
      BY <2>1, <1>1
    <2> QED BY <2>1, <2>2, <1>2, Zenon
  <1>5. b + Len(reps) + Len(q2) = Len(a2) /\ b + Len(reps) + Len(qs) = Len(a)
    <2>1. b + Len(reps) + Len(qs) = Len(a)
      BY Zenon DEF InTransit
    <2>2. b + Len(reps) + (Len(qs) + 1) = (b + Len(reps) + Len(qs)) + 1
      BY <1>1, OneMore, Zenon
    <2> QED BY <2>1, <2>2, <1>2, <1>3, Zenon
  <1>6. ASSUME NEW j \in 1..Len(q2)
        PROVE  q2[j].id = a2[b + Len(reps) + j]
    <2>1. CASE j \in 1..Len(qs)
      <3>1. qs[j].id = a[b + Len(reps) + j]
        BY <2>1 DEF InTransit
      <3>2. b + Len(reps) + j \in 1..Len(a)
        BY <2>1, <1>1, <1>5
      <3> QED BY <2>1, <3>1, <3>2, <1>2, <1>3, Zenon
    <2>2. CASE j \notin 1..Len(qs)
      <3>1. j = Len(qs) + 1 /\ b + Len(reps) + j = Len(a) + 1
        BY <2>2, <1>1, <1>3, <1>5
      <3> QED BY <3>1, <1>2, <1>3, Zenon
    <2> QED BY <2>1, <2>2
  <1> QED BY <1>1, <1>4, <1>5, <1>6, Zenon DEF InTransit, a2, q2

\* A query is asked on a connection that the peer has closed.
LEMMA TransitLost ==
    ASSUME NEW a \in Seq(Nat), NEW b, NEW reps \in Seq(Response), NEW qs \in Seq(Question),
           InTransit(a, b, reps, qs, FALSE), NEW id \in Nat
    PROVE  InTransit(Append(a, id), b, reps, qs, FALSE)
  <1>1. Len(a) \in Nat /\ b \in Nat
    BY LenProperties DEF InTransit
  <1>2. Len(Append(a, id)) = Len(a) + 1 /\ \A k \in 1..Len(a) : Append(a, id)[k] = a[k]
    BY AppendProperties
  <1>3. ASSUME NEW j \in 1..Len(reps)
        PROVE  b + j \in 1..Len(Append(a, id)) /\ reps[j].id = Append(a, id)[b + j]
    <2>1. b + j \in 1..Len(a) /\ reps[j].id = a[b + j]
      BY DEF InTransit
    <2>2. b + j \in 1..Len(a) + 1
      BY <2>1, <1>1
    <2> QED BY <2>1, <2>2, <1>2, Zenon
  <1> QED BY <1>1, <1>3, Zenon DEF InTransit

\* The next reply is taken.
LEMMA TransitTake ==
    ASSUME NEW a \in Seq(Nat), NEW b, NEW reps \in Seq(Response), NEW qs \in Seq(Question),
           NEW open \in BOOLEAN, InTransit(a, b, reps, qs, open), reps # <<>>
    PROVE  /\ InTransit(a, b + 1, Tail(reps), qs, open)
           /\ b + 1 \in 1..Len(a) /\ Head(reps).id = a[b + 1]
  <1> DEFINE left == Tail(reps)
  <1>1. /\ Len(a) \in Nat /\ Len(reps) \in Nat /\ Len(reps) >= 1 /\ Len(qs) \in Nat
        /\ b \in Nat /\ 1 \in 1..Len(reps)
    BY LenProperties, EmptySeq DEF InTransit
  <1>2. Len(left) = Len(reps) - 1 /\ \A k \in 1..Len(left) : left[k] = reps[k + 1]
    BY HeadTailProperties
  <1>3. Head(reps) = reps[1]
    OBVIOUS
  <1>4. b + 1 \in 1..Len(a) /\ Head(reps).id = a[b + 1]
    BY <1>1, <1>3 DEF InTransit
  <1> HIDE DEF left
  <1>5. ASSUME NEW j \in 1..Len(left)
        PROVE  b + 1 + j \in 1..Len(a) /\ left[j].id = a[b + 1 + j]
    <2>1. j + 1 \in 1..Len(reps) /\ b + (j + 1) = b + 1 + j
      BY <1>1, <1>2
    <2>2. b + (j + 1) \in 1..Len(a) /\ reps[j + 1].id = a[b + (j + 1)]
      BY <2>1, Zenon DEF InTransit
    <2> QED BY <2>1, <2>2, <1>2, Zenon
  <1>6. b + 1 + Len(left) = b + Len(reps) /\ b + 1 \in Nat
    BY <1>1, <1>2
  <1> QED BY <1>4, <1>5, <1>6, Zenon DEF InTransit, left

\* The machine answers the next query.
LEMMA TransitServe ==
    ASSUME NEW a \in Seq(Nat), NEW b, NEW reps \in Seq(Response), NEW qs \in Seq(Question),
           InTransit(a, b, reps, qs, TRUE), qs # <<>>, NEW r \in Response, r.id = qs[1].id
    PROVE  InTransit(a, b, Append(reps, r), Tail(qs), TRUE)
  <1> DEFINE left == Tail(qs)
             r2 == Append(reps, r)
             la == Len(a)
             lq == Len(qs)
             lr == Len(reps)
             lq2 == Len(left)
             lr2 == Len(r2)
  <1>1. la \in Nat /\ lq \in Nat /\ lq >= 1 /\ lr \in Nat /\ b \in Nat /\ 1 \in 1..lq
    BY LenProperties, EmptySeq DEF InTransit
  <1>2. lq2 = lq - 1 /\ \A k \in 1..lq2 : left[k] = qs[k + 1]
    BY HeadTailProperties
  <1>3. lr2 = lr + 1 /\ r2[lr + 1] = r /\ \A k \in 1..lr : r2[k] = reps[k]
    BY AppendProperties
  <1>4. b + lr + lq = la /\ \A j \in 1..lq : qs[j].id = a[b + lr + j]
    BY DEF InTransit
  <1>5. \A j \in 1..lr : b + j \in 1..la /\ reps[j].id = a[b + j]
    BY DEF InTransit
  <1> HIDE DEF left, r2, la, lq, lr, lq2, lr2
  <1>6. lr2 = lr + 1 /\ lq2 = lq - 1 /\ b + lr + lq = la
    BY <1>2, <1>3, <1>4
  <1>7. ASSUME NEW j \in 1..lr2
        PROVE  b + j \in 1..la /\ r2[j].id = a[b + j]
    <2>1. CASE j \in 1..lr
      BY <2>1, <1>3, <1>5, Zenon
    <2>2. CASE j \notin 1..lr
      <3>1. j = lr + 1 /\ b + j = b + lr + 1 /\ b + j \in 1..la
        BY <2>2, <1>1, <1>6
      <3> QED BY <3>1, <1>1, <1>3, <1>4, Zenon
    <2> QED BY <2>1, <2>2
  <1>8. b + lr2 + lq2 = la
    BY <1>1, <1>6
  <1>9. ASSUME NEW j \in 1..lq2
        PROVE  left[j].id = a[b + lr2 + j]
    <2>1. j + 1 \in 1..lq /\ b + lr2 + j = b + lr + (j + 1)
      BY <1>1, <1>6
    <2> QED BY <2>1, <1>2, <1>4, Zenon
  <1> QED BY <1>1, <1>7, <1>8, <1>9, Zenon DEF InTransit, left, r2, la, lq2, lr2

-------------------------------------------------------------------------------
(* The test node: the invariant is kept *)

\* The types of what the steps use.
LEMMA NodeTypes ==
    ASSUME TestNodeInv
    PROVE  /\ config \in Configs /\ queryId \in Nat /\ i \in 1..Len(config.pairs)
           /\ asked \in Seq(Nat) /\ Len(asked) \in Nat /\ late \in Nat
           /\ shown \in Seq(Printed) /\ Len(shown) \in Nat
           /\ link \in Link /\ link.queries \in Seq(Question) /\ link.replies \in Seq(Response)
           /\ config.pairs \in Seq(Pairs) /\ Len(config.pairs) \in Nat /\ config.pairs[i] \in Pairs
           /\ Own \in Question
  <1>1. /\ config \in Configs /\ queryId \in Nat /\ i \in 1..Len(config.pairs)
        /\ asked \in Seq(Nat) /\ late \in 0..Len(asked) /\ shown \in Seq(Printed) /\ link \in Link
    BY DEF TestNodeInv, TestNodeTypeOK
  <1>2. Len(asked) \in Nat /\ Len(shown) \in Nat /\ late \in Nat
    BY <1>1, LenProperties
  <1>3. link.queries \in Seq(Question) /\ link.replies \in Seq(Response)
    BY <1>1 DEF Link
  <1>4. config.pairs \in Seq(Pairs) /\ Len(config.pairs) \in Nat /\ config.pairs[i] \in Pairs
    BY <1>1, ConfigFacts
  <1>5. Own \in Question
    BY <1>1, <1>4 DEF Own, Question
  <1> QED BY <1>1, <1>2, <1>3, <1>4, <1>5

\* The lines that have been printed stay about the queries they were about.
LEMMA LinesKept ==
    ASSUME TestNodeInv, UNCHANGED shown,
           asked' = asked \/ \E id \in Nat : asked' = Append(asked, id)
    PROVE  LinesPlaced' /\ LinesLagByTimeouts'
  <1>1. \A k \in 1..Len(asked) : k \in 1..Len(asked') /\ asked'[k] = asked[k]
    <2>1. CASE asked' = asked
      BY <2>1
    <2>2. CASE \E id \in Nat : asked' = Append(asked, id)
      <3>1. PICK id \in Nat : asked' = Append(asked, id)
        BY <2>2
      <3>2. asked \in Seq(Nat) /\ Len(asked) \in Nat
        BY NodeTypes
      <3>3. Len(asked') = Len(asked) + 1 /\ \A k \in 1..Len(asked) : asked'[k] = asked[k]
        BY <3>1, <3>2, AppendProperties
      <3> QED BY <3>2, <3>3
    <2> QED BY <2>1, <2>2
  <1>2. LinesPlaced /\ LinesLagByTimeouts /\ Len(asked) \in Nat
    BY NodeTypes DEF TestNodeInv
  <1>3. LinesPlaced'
    BY <1>1, <1>2, Zenon DEF LinesPlaced
  <1>4. ASSUME NEW k \in 1..Len(shown)
        PROVE  shown[k].late < shown[k].place /\ shown[k].answers = asked'[shown[k].place - shown[k].late]
    <2>1. /\ shown[k].late < shown[k].place /\ shown[k].answers = asked[shown[k].place - shown[k].late]
          /\ shown[k].place \in 1..Len(asked) /\ shown[k].late \in Nat
      BY <1>2, Zenon DEF LinesPlaced, LinesLagByTimeouts
    <2>2. shown[k].place - shown[k].late \in 1..Len(asked)
      BY <1>2, <2>1
    <2> QED BY <1>1, <2>1, <2>2, Zenon
  <1>5. LinesLagByTimeouts'
    BY <1>4, Zenon DEF LinesLagByTimeouts
  <1> QED BY <1>3, <1>5

\* Nothing is printed.
LEMMA NoLines == ASSUME shown' = <<>> PROVE LinesPlaced' /\ LinesLagByTimeouts'
  <1>1. ~ \E k \in 1..Len(shown') : TRUE
    <2>1. Len(shown') = 0
      OBVIOUS
    <2> QED BY <2>1
  <1> QED BY <1>1, Zenon DEF LinesPlaced, LinesLagByTimeouts

\* It holds before the first call.
LEMMA TestNodeInitInv == TestNodeInit => TestNodeInv
  <1> SUFFICES ASSUME TestNodeInit PROVE TestNodeInv
    OBVIOUS
  <1>1. /\ calls = 0 /\ rounds = 0 /\ config \in Configs /\ at = "exited"
        /\ i = 1 /\ queryId = 0 /\ exitCode = 1 /\ link = NoLink /\ machine = {}
        /\ asked = <<>> /\ late = 0 /\ shown = <<>> /\ fresh = TRUE
    BY DEF TestNodeInit
  <1>2. \A S : <<>> \in Seq(S)
    BY EmptySeq
  <1>3. Len(<<>>) = 0 /\ \A j \in 1..0 : FALSE
    OBVIOUS
  <1>4. TestNodeTypeOK
    <2>1. calls \in 0..MaxCalls /\ rounds \in 0..MaxLines /\ i \in 1..Len(config.pairs)
      BY <1>1, TestNodeFacts, ConfigFacts
    <2>2. link \in Link
      BY <1>1, <1>2 DEF NoLink, Link
    <2>3. late \in 0..Len(asked) /\ queryId \in Nat /\ exitCode \in {0, 1}
      BY <1>1, <1>3
    <2> QED BY <1>1, <1>2, <2>1, <2>2, <2>3 DEF TestNodeTypeOK
  <1>5. Aligned
    <2>1. link.replies = <<>> /\ link.queries = <<>> /\ link.peer = "open"
      BY <1>1 DEF NoLink
    <2>2. Behind = 0
      BY <1>1, <1>3 DEF Behind, Waiting
    <2> QED BY <1>1, <1>3, <2>1, <2>2 DEF Aligned, InTransit
  <1>6. LinesPlaced /\ LinesLagByTimeouts
    BY <1>1, <1>3 DEF LinesPlaced, LinesLagByTimeouts
  <1>7. CleanSoFar /\ ExitedOnce
    BY <1>1 DEF CleanSoFar, Clean, ExitedOnce
  <1> QED BY <1>4, <1>5, <1>6, <1>7 DEF TestNodeInv

\* A new call starts with what the machine and the network still hold (main).
LEMMA StartCallInv ==
    ASSUME TestNodeInv, NEW c \in Configs, NEW seed \in Seeds, StartCall(c, seed)
    PROVE  TestNodeInv'
  <1>1. /\ at \in {"exited", "killed"} /\ calls < MaxCalls
        /\ calls' = calls + 1 /\ rounds' = 0 /\ config' = c /\ queryId' = seed /\ exitCode' = 0
        /\ at' = "connect" /\ i' = 1 /\ shown' = <<>>
        /\ link' = link /\ machine' = machine /\ asked' = asked /\ late' = late
    BY DEF StartCall
  <1>2. fresh' = \A q \in machine \cup Range(link.queries) : q.id < seed
    BY DEF StartCall
  <1>3. TestNodeTypeOK'
    <2>1. calls' \in 0..MaxCalls /\ rounds' \in 0..MaxLines
      BY <1>1, TestNodeFacts DEF TestNodeInv, TestNodeTypeOK
    <2>2. i' \in 1..Len(config'.pairs) /\ queryId' \in Nat /\ exitCode' \in {0, 1} /\ config' \in Configs
      BY <1>1, TestNodeFacts, ConfigFacts
    <2>3. shown' \in Seq(Printed)
      BY <1>1, EmptySeq
    <2>4. fresh' \in BOOLEAN
      BY <1>2, Zenon
    <2> QED BY <1>1, <2>1, <2>2, <2>3, <2>4 DEF TestNodeInv, TestNodeTypeOK
  <1>4. Aligned'
    <2>1. Behind' = Behind
      BY <1>1 DEF Behind, Waiting
    <2> QED BY <1>1, <2>1, Zenon DEF TestNodeInv, Aligned
  <1>5. CleanSoFar' /\ ExitedOnce'
    <2>1. fresh' = TRUE => \A q \in machine \cup Range(link.queries) : q.id < seed
      BY <1>2, Zenon
    <2> QED BY <1>1, <2>1, Zenon DEF CleanSoFar, Clean, ExitedOnce
  <1> QED BY <1>1, <1>3, <1>4, <1>5, NoLines DEF TestNodeInv

\* The rounds are bounded by the lines.
LEMMA RoundsBound ==
    ASSUME NEW n \in Nat, NEW r \in Nat, NEW m \in Nat, n >= 1, (r + 1) * n <= m
    PROVE  r + 1 <= m
  <1>1. (r + 1) * n >= r + 1
    <2>1. PICK k \in Nat : n = k + 1
      <3>1. n - 1 \in Nat /\ n = (n - 1) + 1
        OBVIOUS
      <3> QED BY <3>1
    <2>2. (r + 1) * n = (r + 1) * k + (r + 1) /\ (r + 1) * k \in Nat
      BY <2>1
    <2> QED BY <2>2
  <1>2. (r + 1) * n \in Nat
    OBVIOUS
  <1> QED BY <1>1, <1>2

\* A connection, made or not, starts with nothing on the way (connectAndSendQueries).
LEMMA ConnectInv ==
    ASSUME TestNodeInv, Connect \/ ConnectFails \/ NoSocket
    PROVE  TestNodeInv'
  <1>1. rounds' \in 0..MaxLines
    <2>1. rounds \in 0..MaxLines /\ config \in Configs
      BY DEF TestNodeInv, TestNodeTypeOK
    <2>2. ASSUME AnotherRound PROVE rounds + 1 \in 0..MaxLines
      <3>1. (rounds + 1) * Len(config.pairs) <= MaxLines
        BY <2>2 DEF AnotherRound
      <3>2. Len(config.pairs) \in Nat /\ Len(config.pairs) >= 1 /\ MaxLines \in Nat /\ rounds \in Nat
        BY <2>1, ConfigFacts, TestNodeFacts
      <3>3. rounds + 1 <= MaxLines
        BY <3>1, <3>2, RoundsBound, Zenon
      <3> QED BY <3>2, <3>3
    <2> QED BY <2>1, <2>2 DEF Connect, ConnectFails, NoSocket
  <1>2. CASE Connect
    <2>1. /\ at = "connect" /\ link' = NoLink /\ asked' = <<>> /\ late' = 0
          /\ at' = "send" /\ i' = 1 /\ shown' = <<>>
          /\ UNCHANGED <<calls, config, queryId, exitCode, machine, fresh>>
      BY <1>2 DEF Connect, NewLink
    <2>2. Len(<<>>) = 0 /\ \A j \in 1..0 : FALSE
      OBVIOUS
    <2>3. \A S : <<>> \in Seq(S)
      BY EmptySeq
    <2>4. TestNodeTypeOK'
      <3>1. link' \in Link /\ shown' \in Seq(Printed) /\ asked' \in Seq(Nat) /\ late' \in 0..Len(asked')
        BY <2>1, <2>2, <2>3 DEF NoLink, Link
      <3>2. i' \in 1..Len(config'.pairs)
        <4>1. config \in Configs
          BY Zenon DEF TestNodeInv, TestNodeTypeOK
        <4>2. Len(config.pairs) \in Nat /\ Len(config.pairs) >= 1
          BY <4>1, ConfigFacts
        <4>3. i' = 1 /\ config' = config
          BY <2>1
        <4> QED BY <4>2, <4>3
      <3> QED BY <1>1, <2>1, <3>1, <3>2 DEF TestNodeInv, TestNodeTypeOK
    <2>5. Aligned'
      <3>1. link'.replies = <<>> /\ link'.queries = <<>> /\ link'.peer = "open"
        BY <2>1 DEF NoLink
      <3>2. Behind' = 0
        BY <2>1, <2>2 DEF Behind, Waiting
      <3> QED BY <2>1, <2>2, <3>1, <3>2 DEF Aligned, InTransit
    <2>6. CleanSoFar' /\ ExitedOnce'
      <3>1. Len(shown') = 0 /\ Len(asked') = 0 /\ i' - 1 = 0
        BY <2>1, <2>2
      <3>2. Right(i - 1)'
        BY <3>1, <2>2 DEF Right
      <3>3. Clean' => \A q \in machine' : q.id < queryId'
        BY <2>1 DEF TestNodeInv, CleanSoFar, Clean
      <3> QED BY <2>1, <3>1, <3>2, <3>3 DEF CleanSoFar, ExitedOnce
    <2> QED BY <2>1, <2>4, <2>5, <2>6, NoLines DEF TestNodeInv
  <1>3. CASE ConnectFails \/ NoSocket
    <2>1. /\ at = "connect"
          /\ UNCHANGED <<calls, config, i, queryId, link, machine, asked, late, shown, fresh>>
          /\ \/ config.interval > 0 /\ UNCHANGED <<at, exitCode>>
             \/ at' = "exited" /\ exitCode' = 1
      BY <1>3 DEF ConnectFails, NoSocket
    <2>2. TestNodeTypeOK'
      BY <1>1, <2>1 DEF TestNodeInv, TestNodeTypeOK
    <2>3. Aligned'
      <3>1. Behind' = Behind
        BY <2>1 DEF Behind, Waiting
      <3> QED BY <2>1, <3>1, Zenon DEF TestNodeInv, Aligned
    <2>4. CleanSoFar' /\ ExitedOnce'
      <3>1. CASE at' = "exited" /\ exitCode' = 1
        <4>1. exitCode' # 0
          BY <3>1
        <4> QED BY <4>1, Zenon DEF CleanSoFar, Clean, ExitedOnce
      <3>2. CASE config.interval > 0 /\ UNCHANGED <<at, exitCode>>
        <4>1. ~Clean'
          BY <2>1, <3>2 DEF Clean
        <4>2. at' # "exited"
          BY <2>1, <3>2
        <4> QED BY <4>1, <4>2, Zenon DEF CleanSoFar, ExitedOnce
      <3> QED BY <2>1, <3>1, <3>2
    <2> QED BY <2>1, <2>2, <2>3, <2>4, LinesKept DEF TestNodeInv
  <1> QED BY <1>2, <1>3

\* When everything asked is dealt with, nothing is on the way.
LEMMA NothingOnTheWay ==
    ASSUME TestNodeInv, Behind = Len(asked)
    PROVE  link.queries = <<>> /\ link.replies = <<>>
  <1> DEFINE la == Len(asked)
             lq == Len(link.queries)
             lr == Len(link.replies)
  <1>1. la \in Nat /\ lq \in Nat /\ lr \in Nat
    BY NodeTypes, LenProperties
  <1>2. \A j \in 1..lr : la + j \in 1..la
    BY DEF TestNodeInv, Aligned, InTransit
  <1>3. link.peer = "open" => la + lr + lq = la
    BY Zenon DEF TestNodeInv, Aligned, InTransit
  <1>4. link.peer # "open" => link.queries = <<>>
    BY DEF TestNodeInv, Aligned
  <1> HIDE DEF la, lq, lr
  <1>5. lr = 0
    BY <1>1, <1>2
  <1>6. link.peer = "open" => lq = 0
    BY <1>1, <1>3, <1>5
  <1> QED BY <1>4, <1>5, <1>6, NodeTypes, EmptySeq DEF lq, lr

\* The query that is sent is the last one on the way.
LEMMA SendQueryInv == ASSUME TestNodeInv, SendQuery PROVE TestNodeInv'
  <1>1. /\ at = "send" /\ at' = "wait" /\ asked' = Append(asked, queryId)
        /\ UNCHANGED <<calls, rounds, config, i, queryId, exitCode, machine, late, shown, fresh>>
        /\ link' = IF link.peer = "open" THEN [link EXCEPT !.queries = Append(@, Own)]
                   ELSE [link EXCEPT !.peer = "reset"]
    BY DEF SendQuery, Own
  <1>2. /\ asked \in Seq(Nat) /\ Len(asked) \in Nat /\ late \in Nat /\ queryId \in Nat
        /\ link \in Link /\ link.queries \in Seq(Question) /\ link.replies \in Seq(Response)
        /\ Own \in Question /\ Own.id = queryId
    BY NodeTypes DEF Own
  <1>3. asked' \in Seq(Nat) /\ Len(asked') = Len(asked) + 1
    BY <1>1, <1>2, AppendProperties
  <1>4. Append(link.queries, Own) \in Seq(Question)
    BY <1>2, AppendProperties
  <1>5. /\ link' \in Link /\ link'.replies = link.replies
        /\ link.peer = "open" => link'.queries = Append(link.queries, Own) /\ link'.peer = "open"
        /\ link.peer # "open" => link'.queries = link.queries /\ link'.peer # "open"
    <2>1. CASE link.peer = "open"
      <3>1. link' = [link EXCEPT !.queries = Append(link.queries, Own)]
        BY <1>1, <2>1
      <3> QED BY <1>2, <1>4, <2>1, <3>1, Zenon DEF Link
    <2>2. CASE link.peer # "open"
      <3>1. link' = [link EXCEPT !.peer = "reset"]
        BY <1>1, <2>2
      <3> QED BY <1>2, <2>2, <3>1 DEF Link
    <2> QED BY <2>1, <2>2
  <1>6. TestNodeTypeOK'
    <2>1. late' \in 0..Len(asked')
      BY <1>1, <1>2, <1>3 DEF TestNodeInv, TestNodeTypeOK
    <2> QED BY <1>1, <1>3, <1>5, <2>1 DEF TestNodeInv, TestNodeTypeOK
  <1>7. Behind' = Behind /\ Behind = Len(asked) - late
    <2>0. at = "send" /\ at' = "wait" /\ late' = late
      BY <1>1
    <2>1. Waiting = 0 /\ Waiting' = 1
      BY <2>0 DEF Waiting
    <2>2. Behind = Len(asked) - late - Waiting /\ Behind' = Len(asked') - late' - Waiting'
      BY DEF Behind
    <2> QED BY <2>0, <2>1, <2>2, <1>2, <1>3
  <1>8. Aligned'
    <2>1. InTransit(asked, Behind, link.replies, link.queries, link.peer = "open")
      BY DEF TestNodeInv, Aligned
    <2>2. CASE link.peer = "open"
      <3>1. InTransit(Append(asked, Own.id), Behind, link.replies, Append(link.queries, Own), TRUE)
        BY <1>2, <2>1, <2>2, TransitAsk, Zenon
      <3> QED BY <1>1, <1>2, <1>5, <1>7, <2>2, <3>1, Zenon DEF Aligned
    <2>3. CASE link.peer # "open"
      <3>1. InTransit(Append(asked, queryId), Behind, link.replies, link.queries, FALSE)
        BY <1>2, <2>1, <2>3, TransitLost, Zenon
      <3>2. link.queries = <<>>
        BY <2>3 DEF TestNodeInv, Aligned
      <3> QED BY <1>1, <1>5, <1>7, <2>3, <3>1, <3>2, Zenon DEF Aligned
    <2> QED BY <2>2, <2>3
  <1>9. CleanSoFar' /\ ExitedOnce'
    <2> SUFFICES ASSUME Clean' PROVE CleanSoFar'
      BY <1>1, Zenon DEF CleanSoFar, ExitedOnce
    <2>1. /\ late = 0 /\ Len(asked) = i - 1 /\ Right(i - 1)
          /\ \A q \in machine : q.id < queryId
      BY <1>1 DEF TestNodeInv, CleanSoFar, Clean
    <2>2. Behind = Len(asked)
      BY <1>2, <1>7, <2>1
    <2>3. link.queries = <<>> /\ link.replies = <<>>
      BY <2>2, NothingOnTheWay
    <2>4. \A j \in 1..Len(link'.queries) : link'.queries[j] = Own
      <3>1. CASE link.peer = "open"
        BY <1>5, <2>3, <3>1
      <3>2. CASE link.peer # "open"
        BY <1>5, <2>3, <3>2
      <3> QED BY <3>1, <3>2
    <2>5. \A j \in 1..Len(link'.replies) : FALSE
      BY <1>5, <2>3
    <2>6. Len(asked') = i'
      <3>1. i \in Nat
        BY NodeTypes
      <3> QED BY <1>1, <1>3, <2>1, <3>1
    <2>7. Right(i - 1)' /\ Own' = Own
      BY <1>1, <2>1 DEF Right, Own
    <2> QED BY <1>1, <2>1, <2>4, <2>5, <2>6, <2>7 DEF CleanSoFar
  <1> QED BY <1>1, <1>2, <1>6, <1>8, <1>9, LinesKept DEF TestNodeInv

\* What follows a call of sendQuery.
LEMMA ReturnedFacts ==
    ASSUME TestNodeInv, NEW ok \in BOOLEAN, Returned(ok), UNCHANGED config
    PROVE  /\ queryId' = queryId + 1 /\ queryId' \in Nat /\ exitCode' \in {0, 1}
           /\ exitCode' = 0 => ok /\ exitCode = 0
           /\ i' \in 1..Len(config'.pairs)
           /\ \/ at' = "send" /\ i' = i + 1
              \/ at' = "connect" /\ config.interval # 0
              \/ at' = "exited" /\ config.interval = 0 /\ i = Len(config.pairs)
  <1>1. /\ config \in Configs /\ queryId \in Nat /\ i \in 1..Len(config.pairs)
        /\ Len(config.pairs) \in Nat
    BY NodeTypes
  <1>2. config.interval \in {0, 1} /\ exitCode \in {0, 1}
    BY <1>1, ConfigFacts DEF TestNodeInv, TestNodeTypeOK
  <1>3. queryId' = queryId + 1 /\ queryId' \in Nat
    BY <1>1 DEF Returned
  <1>4. exitCode' \in {0, 1} /\ (exitCode' = 0 => ok /\ exitCode = 0)
    BY <1>2 DEF Returned, Code
  <1>5. CASE MorePairs
    <2>1. i' = i + 1 /\ at' = "send"
      BY <1>5 DEF Returned
    <2>2. i + 1 \in 1..Len(config.pairs)
      BY <1>1, <1>5 DEF MorePairs
    <2> QED BY <1>3, <1>4, <2>1, <2>2
  <1>6. CASE ~MorePairs
    <2>1. i' = i /\ at' = IF config.interval > 0 THEN "connect" ELSE "exited"
      BY <1>6 DEF Returned
    <2>2. i = Len(config.pairs)
      BY <1>1, <1>6 DEF MorePairs
    <2>3. config.interval > 0 <=> config.interval # 0
      BY <1>2
    <2> QED BY <1>1, <1>3, <1>4, <2>1, <2>2, <2>3
  <1> QED BY <1>5, <1>6

\* A call of sendQuery that fails, or the signal of a broken connection.
LEMMA FailInv ==
    ASSUME TestNodeInv, SendTimesOut \/ ReceiveTimesOut \/ ReceiveEndOfFile
    PROVE  TestNodeInv'
  <1>1. /\ Returned(FALSE)
        /\ UNCHANGED <<calls, rounds, config, link, machine, asked, shown, fresh>>
        /\ \/ at = "send" /\ late' = late
           \/ at = "wait" /\ late' = late + 1
           \/ at = "wait" /\ late' = late /\ link.peer # "open" /\ link.replies = <<>>
    BY Zenon DEF SendTimesOut, ReceiveTimesOut, ReceiveEndOfFile
  <1>2. /\ queryId' \in Nat /\ exitCode' = 1 /\ i' \in 1..Len(config'.pairs)
        /\ at' \in {"send", "connect", "exited"}
    BY <1>1, ReturnedFacts, Zenon
  <1>3. Len(asked) \in Nat /\ late \in Nat /\ late <= Len(asked) /\ Behind \in Nat
    <2>1. Len(asked) \in Nat /\ late \in Nat
      BY NodeTypes
    <2>2. late \in 0..Len(asked)
      BY Zenon DEF TestNodeInv, TestNodeTypeOK
    <2>3. Behind \in Nat
      BY Zenon DEF TestNodeInv, Aligned, InTransit
    <2> QED BY <2>1, <2>2, <2>3
  <1>4. TestNodeTypeOK'
    <2>1. late' \in 0..Len(asked')
      BY <1>1, <1>3 DEF Behind, Waiting
    <2> QED BY <1>1, <1>2, <2>1, Zenon DEF TestNodeInv, TestNodeTypeOK
  <1>5. Aligned'
    <2>1. CASE (at = "send" /\ late' = late) \/ (at = "wait" /\ late' = late + 1)
      <3>1. Behind' = Behind
        BY <1>1, <1>2, <1>3, <2>1 DEF Behind, Waiting
      <3> QED BY <1>1, <3>1, Zenon DEF TestNodeInv, Aligned
    <2>2. CASE at = "wait" /\ late' = late /\ link.peer # "open" /\ link.replies = <<>>
      <3>1. Behind' \in Nat
        BY <1>1, <1>2, <1>3, <2>2 DEF Behind, Waiting
      <3>2. link'.replies = <<>> /\ link'.peer # "open" /\ link'.queries = <<>>
        BY <1>1, <2>2 DEF TestNodeInv, Aligned
      <3>3. \A j \in 1..Len(link'.replies) : FALSE
        BY <3>2
      <3>4. InTransit(asked', Behind', link'.replies, link'.queries, FALSE)
        BY <3>1, <3>3, Zenon DEF InTransit
      <3>5. (link'.peer = "open") = FALSE
        BY <3>2
      <3> QED BY <3>2, <3>4, <3>5, Zenon DEF Aligned
    <2> QED BY <1>1, <2>1, <2>2, Zenon
  <1>6. CleanSoFar' /\ ExitedOnce'
    <2>1. exitCode' # 0
      BY <1>2
    <2> QED BY <2>1, Zenon DEF CleanSoFar, Clean, ExitedOnce
  <1> QED BY <1>1, <1>4, <1>5, <1>6, LinesKept DEF TestNodeInv

\* Sending on a connection that was reset ends the process.
LEMMA KilledInv == ASSUME TestNodeInv, SendAfterReset PROVE TestNodeInv'
  <1>1. /\ at = "send" /\ at' = "killed"
        /\ UNCHANGED <<calls, rounds, config, i, queryId, exitCode, link, machine, asked, late, shown, fresh>>
    BY DEF SendAfterReset
  <1>2. TestNodeTypeOK'
    BY <1>1 DEF TestNodeInv, TestNodeTypeOK
  <1>3. Behind' = Behind
    BY <1>1 DEF Behind, Waiting
  <1>4. Aligned'
    BY <1>1, <1>3, Zenon DEF TestNodeInv, Aligned
  <1>5. CleanSoFar' /\ ExitedOnce'
    BY <1>1 DEF CleanSoFar, ExitedOnce
  <1> QED BY <1>1, <1>2, <1>4, <1>5, LinesKept DEF TestNodeInv

\* The first element of a stream that is not empty.
LEMMA FirstReply ==
    ASSUME NEW s \in Seq(Response), s # <<>>
    PROVE  Head(s) \in Response /\ Head(s) = s[1]
  BY HeadTailProperties

\* The reply that is taken for the one to the query just sent.
LEMMA ReplyTaken ==
    ASSUME TestNodeInv, at = "wait", link.replies # <<>>
    PROVE  /\ Head(link.replies) \in Response /\ 1 \in 1..Len(link.replies)
           /\ Head(link.replies) = link.replies[1]
           /\ late < Len(asked) /\ Len(asked) \in 1..Len(asked)
           /\ Behind + 1 = Len(asked) - late
           /\ Head(link.replies).id = asked[Len(asked) - late]
           /\ InTransit(asked, Behind + 1, Tail(link.replies), link.queries, link.peer = "open")
  <1>1. /\ asked \in Seq(Nat) /\ Len(asked) \in Nat /\ late \in Nat
        /\ link.queries \in Seq(Question) /\ link.replies \in Seq(Response)
    BY NodeTypes
  <1>2. InTransit(asked, Behind, link.replies, link.queries, link.peer = "open") /\ Behind \in Nat
    <2>1. InTransit(asked, Behind, link.replies, link.queries, link.peer = "open")
      BY DEF TestNodeInv, Aligned
    <2> QED BY <2>1, Zenon DEF InTransit
  <1>3. /\ InTransit(asked, Behind + 1, Tail(link.replies), link.queries, link.peer = "open")
        /\ Head(link.replies).id = asked[Behind + 1]
    BY <1>1, <1>2, TransitTake
  <1>4. Head(link.replies) \in Response /\ Head(link.replies) = link.replies[1]
    BY <1>1, FirstReply, Zenon
  <1>5. 1 \in 1..Len(link.replies)
    BY <1>1, EmptySeq
  <1>6. Behind = Len(asked) - late - 1
    BY DEF Behind, Waiting
  <1>7. Behind + 1 = Len(asked) - late /\ late < Len(asked) /\ Len(asked) \in 1..Len(asked)
    BY <1>1, <1>2, <1>6
  <1> QED BY <1>3, <1>4, <1>5, <1>7

\* The reply that is read is that to the query as many places back as were given up.
LEMMA ReceiveReplyInv == ASSUME TestNodeInv, ReceiveReply PROVE TestNodeInv'
  <1> DEFINE reply == Head(link.replies)
             line == [pair |-> config.pairs[i], price |-> reply.pair,
                      answers |-> reply.id, place |-> Len(asked), late |-> late]
  <1>1. /\ at = "wait" /\ link.replies # <<>> /\ Returned(~reply.error)
        /\ shown' = IF reply.error THEN shown ELSE Append(shown, line)
        /\ link' = [link EXCEPT !.replies = Tail(link.replies)]
        /\ UNCHANGED <<calls, rounds, config, machine, asked, late, fresh>>
    BY DEF ReceiveReply
  <1>2. /\ reply \in Response /\ reply = link.replies[1] /\ 1 \in 1..Len(link.replies)
        /\ late < Len(asked) /\ Len(asked) \in 1..Len(asked)
        /\ Behind + 1 = Len(asked) - late
        /\ reply.id = asked[Len(asked) - late]
        /\ InTransit(asked, Behind + 1, Tail(link.replies), link.queries, link.peer = "open")
    BY <1>1, ReplyTaken
  <1>3. /\ asked \in Seq(Nat) /\ Len(asked) \in Nat /\ late \in Nat /\ shown \in Seq(Printed)
        /\ Len(shown) \in Nat /\ link \in Link /\ link.replies \in Seq(Response)
        /\ config.pairs[i] \in Pairs /\ i \in Nat
    BY NodeTypes
  <1>4. reply.error \in BOOLEAN /\ reply.id \in Nat /\ reply.pair \in Pairs
    BY <1>2 DEF Response
  <1>5. /\ line \in Printed /\ line.pair = config.pairs[i] /\ line.price = reply.pair
        /\ line.answers = reply.id /\ line.place = Len(asked) /\ line.late = late
    BY <1>3, <1>4, Zenon DEF Printed
  <1> HIDE DEF line, reply
  <1>6. /\ queryId' = queryId + 1 /\ queryId' \in Nat /\ exitCode' \in {0, 1}
        /\ exitCode' = 0 => ~reply.error /\ exitCode = 0
        /\ i' \in 1..Len(config'.pairs)
        /\ \/ at' = "send" /\ i' = i + 1
           \/ at' = "connect" /\ config.interval # 0
           \/ at' = "exited" /\ config.interval = 0 /\ i = Len(config.pairs)
    BY <1>1, <1>4, ReturnedFacts, Zenon
  <1>7. /\ Append(shown, line) \in Seq(Printed) /\ Len(Append(shown, line)) = Len(shown) + 1
        /\ \A k \in 1..Len(shown) : Append(shown, line)[k] = shown[k]
        /\ Append(shown, line)[Len(shown) + 1] = line
    BY <1>3, <1>5, AppendProperties
  <1>8. /\ link' \in Link /\ link'.replies = Tail(link.replies)
        /\ link'.queries = link.queries /\ link'.peer = link.peer
    <2>1. Tail(link.replies) \in Seq(Response)
      BY <1>1, <1>3, HeadTailProperties
    <2> QED BY <1>1, <1>3, <2>1, Zenon DEF Link
  <1>9. TestNodeTypeOK'
    <2>1. shown' \in Seq(Printed)
      BY <1>1, <1>3, <1>7
    <2> QED BY <1>1, <1>6, <1>8, <2>1 DEF TestNodeInv, TestNodeTypeOK
  <1>10. Aligned'
    <2>1. Behind' = Len(asked) - late
      <3>1. Waiting' = 0
        BY <1>6 DEF Waiting
      <3>2. Behind' = Len(asked) - late - Waiting'
        BY <1>1 DEF Behind
      <3> QED BY <1>3, <3>1, <3>2
    <2>2. InTransit(asked', Behind', link'.replies, link'.queries, link'.peer = "open")
      BY <1>1, <1>2, <1>8, <2>1, Zenon
    <2>3. link'.peer # "open" => link'.queries = <<>>
      BY <1>8 DEF TestNodeInv, Aligned
    <2> QED BY <2>2, <2>3, Zenon DEF Aligned
  <1>11. LinesPlaced' /\ LinesLagByTimeouts'
    <2>1. CASE reply.error
      BY <1>1, <2>1, LinesKept
    <2>2. CASE ~reply.error
      <3>1. shown' = Append(shown, line)
        BY <1>1, <2>2
      <3>2. \A k \in 1..Len(shown') : k \in 1..Len(shown) \/ k = Len(shown) + 1
        BY <1>3, <1>7, <3>1
      <3>3. ASSUME NEW k \in 1..Len(shown')
            PROVE  /\ shown'[k].place \in 1..Len(asked) /\ shown'[k].late \in Nat
                   /\ shown'[k].late < shown'[k].place
                   /\ shown'[k].answers = asked[shown'[k].place - shown'[k].late]
        <4>1. CASE k \in 1..Len(shown)
          <5>1. shown'[k] = shown[k]
            BY <1>7, <3>1, <4>1
          <5>2. LinesPlaced /\ LinesLagByTimeouts
            BY DEF TestNodeInv
          <5> QED BY <4>1, <5>1, <5>2, Zenon DEF LinesPlaced, LinesLagByTimeouts
        <4>2. CASE k = Len(shown) + 1
          <5>1. shown'[k] = line
            BY <1>7, <3>1, <4>2
          <5> QED BY <1>2, <1>3, <1>5, <5>1, Zenon
        <4> QED BY <3>2, <4>1, <4>2, Zenon
      <3> QED BY <1>1, <3>3, Zenon DEF LinesPlaced, LinesLagByTimeouts
    <2> QED BY <2>1, <2>2
  <1>12. CleanSoFar' /\ ExitedOnce'
    <2>1. ExitedOnce'
      BY <1>1, <1>6 DEF ExitedOnce
    <2> SUFFICES ASSUME Clean' PROVE CleanSoFar'
      BY <2>1, Zenon DEF CleanSoFar
    <2>2. Clean /\ ~reply.error
      BY <1>1, <1>6 DEF Clean
    <2>3. /\ late = 0 /\ Len(asked) = i /\ Right(i - 1)
          /\ \A q \in machine : q.id < queryId \/ q = Own
          /\ reply.pair = config.pairs[i]
      BY <1>1, <1>2, <1>4, <2>2 DEF TestNodeInv, CleanSoFar
    <2>4. \A q \in machine' : q.id < queryId'
      <3>1. Own.id = queryId /\ queryId \in Nat /\ machine \subseteq Question
        BY NodeTypes, Zenon DEF Own, TestNodeInv, TestNodeTypeOK
      <3>2. ASSUME NEW q \in machine PROVE q.id < queryId + 1
        <4>1. q.id \in Nat /\ (q.id < queryId \/ q.id = queryId)
          BY <2>3, <3>1 DEF Question
        <4> QED BY <3>1, <4>1
      <3> QED BY <1>1, <1>6, <3>2
    <2>5. /\ Len(shown') = i
          /\ \A k \in 1..i : shown'[k].pair = config.pairs[k] /\ shown'[k].price = config.pairs[k]
      <3>1. shown' = Append(shown, line) /\ Len(shown) = i - 1
        BY <1>1, <2>2, <2>3 DEF Right
      <3>2. Len(shown') = i /\ i - 1 + 1 = i
        BY <1>3, <1>7, <3>1
      <3>3. ASSUME NEW k \in 1..i
            PROVE  shown'[k].pair = config.pairs[k] /\ shown'[k].price = config.pairs[k]
        <4>1. k \in 1..i - 1 \/ k = i
          BY <1>3
        <4>2. CASE k \in 1..i - 1
          <5>1. shown'[k] = shown[k]
            BY <1>7, <3>1, <4>2
          <5> QED BY <2>3, <4>2, <5>1 DEF Right
        <4>3. CASE k = i
          <5>1. shown'[k] = line
            BY <1>7, <3>1, <3>2, <4>3
          <5> QED BY <1>5, <2>3, <4>3, <5>1
        <4> QED BY <4>1, <4>2, <4>3
      <3> QED BY <3>2, <3>3
    <2>6. CASE at' = "send" /\ i' = i + 1
      <3>1. i' - 1 = i
        BY <1>3, <2>6
      <3>2. Right(i - 1)'
        BY <1>1, <2>5, <3>1 DEF Right
      <3> QED BY <1>1, <2>3, <2>4, <2>6, <3>1, <3>2 DEF CleanSoFar
    <2>7. CASE at' = "connect" /\ config.interval # 0
      BY <1>1, <2>7 DEF Clean
    <2>8. CASE at' = "exited" /\ config.interval = 0 /\ i = Len(config.pairs)
      <3>1. Right(Len(config.pairs))'
        BY <1>1, <2>5, <2>8 DEF Right
      <3> QED BY <2>8, <3>1 DEF CleanSoFar
    <2> QED BY <1>6, <2>6, <2>7, <2>8
  <1> QED BY <1>9, <1>10, <1>11, <1>12 DEF TestNodeInv

\* What is left of a sequence of queries is among them.
LEMMA TailAmong ==
    ASSUME NEW qs \in Seq(Question), qs # <<>>
    PROVE  /\ Tail(qs) \in Seq(Question) /\ Head(qs) \in Question /\ Head(qs) = qs[1]
           /\ 1 \in 1..Len(qs) /\ Head(qs) \in Range(qs)
           /\ \A j \in 1..Len(Tail(qs)) : j + 1 \in 1..Len(qs) /\ Tail(qs)[j] = qs[j + 1]
           /\ Range(Tail(qs)) \subseteq Range(qs)
  <1>1. /\ Tail(qs) \in Seq(Question) /\ Head(qs) \in Question /\ Head(qs) = qs[1]
        /\ Len(Tail(qs)) = Len(qs) - 1
        /\ \A j \in 1..Len(Tail(qs)) : Tail(qs)[j] = qs[j + 1]
    BY HeadTailProperties
  <1>2. Len(qs) \in Nat /\ 1 \in 1..Len(qs)
    BY EmptySeq, LenProperties
  <1>3. \A j \in 1..Len(Tail(qs)) : j + 1 \in 1..Len(qs)
    BY <1>1, <1>2
  <1>4. Range(qs) = {qs[j] : j \in 1..Len(qs)}
    BY RangeEquality
  <1>5. Range(Tail(qs)) = {Tail(qs)[j] : j \in 1..Len(Tail(qs))}
    BY <1>1, RangeEquality, Zenon
  <1> QED BY <1>1, <1>2, <1>3, <1>4, <1>5, Zenon

\* The price for the query that is being asked is that of its pair.
LEMMA OwnPrice ==
    ASSUME NEW q, NEW known, NEW own, q = own, NEW id, own.id = id,
           \A m \in known : (m.id < id /\ m.id # id) \/ m = own,
           NEW pair \in {m.pair : m \in {k \in known : k.id = q.id}} \cup {q.pair}
    PROVE  pair = own.pair
  BY Zenon

\* A reply joins those on the way.
LEMMA ReplyAdded ==
    ASSUME NEW reps \in Seq(Response), NEW r \in Response
    PROVE  /\ Append(reps, r) \in Seq(Response)
           /\ Len(Append(reps, r)) = Len(reps) + 1
           /\ \A j \in 1..Len(reps) : Append(reps, r)[j] = reps[j]
           /\ Append(reps, r)[Len(reps) + 1] = r
  BY AppendProperties

\* The machine answers the first query on the way, or repeats what it knows of its id.
LEMMA MachineAnswersInv == ASSUME TestNodeInv, MachineAnswers PROVE TestNodeInv'
  <1> DEFINE q == Head(link.queries)
             hits == {m.pair : m \in {known \in machine : known.id = q.id}}
  <1>1. PICK error \in BOOLEAN, pair \in hits \cup {q.pair} :
           /\ link' = [link EXCEPT !.queries = Tail(@),
                                   !.replies = Append(@, [id |-> q.id, pair |-> pair, error |-> error])]
           /\ machine' = IF error THEN machine ELSE machine \cup {[id |-> q.id, pair |-> pair]}
    BY Zenon DEF MachineAnswers
  <1> DEFINE r == [id |-> q.id, pair |-> pair, error |-> error]
  <1>2. /\ link.peer = "open" /\ link.queries # <<>>
        /\ UNCHANGED <<calls, rounds, config, at, i, queryId, exitCode, asked, late, shown, fresh>>
    BY DEF MachineAnswers
  <1>3. /\ asked \in Seq(Nat) /\ Len(asked) \in Nat /\ late \in Nat /\ queryId \in Nat
        /\ link \in Link /\ link.queries \in Seq(Question) /\ link.replies \in Seq(Response)
        /\ machine \subseteq Question
    BY NodeTypes, Zenon DEF TestNodeInv, TestNodeTypeOK
  <1>4. /\ Tail(link.queries) \in Seq(Question) /\ q \in Question /\ q = link.queries[1]
        /\ 1 \in 1..Len(link.queries) /\ q \in Range(link.queries)
        /\ \A j \in 1..Len(Tail(link.queries)) :
              j + 1 \in 1..Len(link.queries) /\ Tail(link.queries)[j] = link.queries[j + 1]
        /\ Range(Tail(link.queries)) \subseteq Range(link.queries)
    BY <1>2, <1>3, TailAmong, Zenon
  <1>5. pair \in Pairs /\ q.id \in Nat
    BY <1>3, <1>4 DEF Question
  <1>6. r \in Response /\ r.id = q.id /\ r.pair = pair /\ [id |-> q.id, pair |-> pair] \in Question
    BY <1>5, Zenon DEF Response, Question
  <1>7. link' = [link EXCEPT !.queries = Tail(link.queries), !.replies = Append(link.replies, r)]
    BY <1>1
  <1>8. machine' \subseteq machine \cup {[id |-> q.id, pair |-> pair]}
    BY <1>1
  <1> HIDE DEF r, q
  <1>9. /\ Append(link.replies, r) \in Seq(Response)
        /\ Len(Append(link.replies, r)) = Len(link.replies) + 1
        /\ \A j \in 1..Len(link.replies) : Append(link.replies, r)[j] = link.replies[j]
        /\ Append(link.replies, r)[Len(link.replies) + 1] = r
    BY <1>3, <1>6, ReplyAdded, Zenon
  <1>10. /\ link' \in Link /\ link'.queries = Tail(link.queries)
         /\ link'.replies = Append(link.replies, r) /\ link'.peer = "open"
    BY <1>2, <1>3, <1>4, <1>7, <1>9, Zenon DEF Link
  <1>11. TestNodeTypeOK'
    <2>1. machine' \subseteq Question
      BY <1>3, <1>6, <1>8, Zenon
    <2> QED BY <1>2, <1>10, <2>1, Zenon DEF TestNodeInv, TestNodeTypeOK
  <1>12. Aligned'
    <2>1. InTransit(asked, Behind, link.replies, link.queries, TRUE)
      BY <1>2, Zenon DEF TestNodeInv, Aligned
    <2>2. InTransit(asked, Behind, Append(link.replies, r), Tail(link.queries), TRUE)
      BY <1>2, <1>3, <1>4, <1>6, <2>1, TransitServe, Zenon
    <2>3. Behind' = Behind
      BY <1>2 DEF Behind, Waiting
    <2>4. (link'.peer = "open") = TRUE
      BY <1>10
    <2> QED BY <1>2, <1>10, <2>2, <2>3, <2>4, Zenon DEF Aligned
  <1>13. CleanSoFar' /\ ExitedOnce'
    <2>1. ExitedOnce'
      BY <1>2 DEF TestNodeInv, ExitedOnce
    <2> SUFFICES ASSUME Clean' PROVE CleanSoFar'
      BY <2>1, Zenon DEF CleanSoFar
    <2>2. Clean
      BY <1>2 DEF Clean
    <2>3. CASE at = "connect"
      <3>1. \A m \in machine \cup Range(link.queries) : m.id < queryId
        BY <2>2, <2>3, Zenon DEF TestNodeInv, CleanSoFar
      <3>2. [id |-> q.id, pair |-> pair].id = q.id
        OBVIOUS
      <3>3. \A m \in machine' \cup Range(link'.queries) : m.id < queryId
        BY <1>4, <1>8, <1>10, <3>1, <3>2, Zenon
      <3> QED BY <1>2, <2>3, <3>3, Zenon DEF CleanSoFar
    <2>4. CASE at = "send"
      <3>1. late = 0
        BY <2>2, <2>4 DEF TestNodeInv, CleanSoFar
      <3>2. Behind = Len(asked)
        BY <1>3, <2>4, <3>1 DEF Behind, Waiting
      <3> QED BY <1>2, <3>2, NothingOnTheWay
    <2>5. CASE at = "wait"
      <3>1. /\ late = 0 /\ Len(asked) = i /\ Right(i - 1)
            /\ \A m \in machine : m.id < queryId \/ m = Own
            /\ \A j \in 1..Len(link.queries) : link.queries[j] = Own
            /\ \A j \in 1..Len(link.replies) : link.replies[j].error = FALSE =>
                   link.replies[j].pair = config.pairs[i]
        BY <2>2, <2>5, Zenon DEF TestNodeInv, CleanSoFar
      <3>2. q = Own /\ Own.id = queryId /\ Own.pair = config.pairs[i]
        BY <1>4, <3>1, Zenon DEF Own
      <3>3. \A m \in machine : (m.id < queryId /\ m.id # queryId) \/ m = Own
        <4>1. \A m \in machine : m.id \in Nat
          BY <1>3 DEF Question
        <4> QED BY <1>3, <3>1, <4>1
      <3>4. pair = config.pairs[i]
        BY <3>2, <3>3, OwnPrice, Zenon
      <3>5. [id |-> q.id, pair |-> pair] = Own
        BY <3>2, <3>4, Zenon DEF Own
      <3>6. Own' = Own /\ Right(i - 1)'
        BY <1>2, <3>1, Zenon DEF Own, Right
      <3>7. \A m \in machine' : m.id < queryId \/ m = Own
        BY <1>8, <3>1, <3>5, Zenon
      <3>8. \A j \in 1..Len(link'.queries) : link'.queries[j] = Own
        BY <1>4, <1>10, <3>1, Zenon
      <3>9. \A j \in 1..Len(link'.replies) : link'.replies[j].error = FALSE =>
                link'.replies[j].pair = config.pairs[i]
        <4>1. \A j \in 1..Len(link'.replies) : j \in 1..Len(link.replies) \/ j = Len(link.replies) + 1
          <5>1. Len(link.replies) \in Nat
            BY <1>3, LenProperties
          <5> QED BY <1>9, <1>10, <5>1
        <4>2. ASSUME NEW j \in 1..Len(link'.replies), link'.replies[j].error = FALSE
              PROVE  link'.replies[j].pair = config.pairs[i]
          <5>1. CASE j \in 1..Len(link.replies)
            BY <1>9, <1>10, <3>1, <4>2, <5>1, Zenon
          <5>2. CASE j = Len(link.replies) + 1
            BY <1>6, <1>9, <1>10, <3>4, <5>2, Zenon
          <5> QED BY <4>1, <5>1, <5>2, Zenon
        <4> QED BY <4>2, Zenon
      <3> QED BY <1>2, <2>5, <3>1, <3>6, <3>7, <3>8, <3>9, Zenon DEF CleanSoFar
    <2>6. CASE at \in {"exited", "killed"}
      <3>1. Right(Len(config.pairs))' <=> Right(Len(config.pairs))
        BY <1>2, Zenon DEF Right
      <3> QED BY <1>2, <2>2, <2>6, <3>1, Zenon DEF TestNodeInv, CleanSoFar
    <2> QED BY <2>3, <2>4, <2>5, <2>6 DEF TestNodeInv, TestNodeTypeOK
  <1> QED BY <1>2, <1>11, <1>12, <1>13, LinesKept DEF TestNodeInv

\* The machine closes the connection: the queries on the way are lost.
LEMMA MachineClosesInv == ASSUME TestNodeInv, MachineCloses PROVE TestNodeInv'
  <1>1. /\ at \in {"send", "wait"} /\ link.peer = "open"
        /\ link' = [link EXCEPT !.peer = "closed", !.queries = <<>>]
        /\ UNCHANGED <<calls, rounds, config, at, i, queryId, exitCode, machine, asked, late, shown, fresh>>
    BY DEF MachineCloses
  <1>2. link \in Link /\ <<>> \in Seq(Question)
    BY NodeTypes, EmptySeq
  <1>3. /\ link' \in Link /\ link'.queries = <<>> /\ link'.replies = link.replies
        /\ link'.peer = "closed"
    BY <1>1, <1>2, Zenon DEF Link
  <1>4. TestNodeTypeOK'
    BY <1>1, <1>3 DEF TestNodeInv, TestNodeTypeOK
  <1>5. Aligned'
    <2>1. Behind' = Behind
      BY <1>1 DEF Behind, Waiting
    <2>2. (link'.peer = "open") = FALSE /\ link'.peer # "open"
      BY <1>3
    <2>3. InTransit(asked, Behind, link.replies, link'.queries, FALSE)
      BY Zenon DEF TestNodeInv, Aligned, InTransit
    <2> QED BY <1>1, <1>3, <2>1, <2>2, <2>3, Zenon DEF Aligned
  <1>6. CleanSoFar' /\ ExitedOnce'
    <2>1. Clean' => Clean
      BY <1>1 DEF Clean
    <2>2. Own' = Own /\ (Right(i - 1) => Right(i - 1)')
      BY <1>1 DEF Own, Right
    <2>3. \A j \in 1..Len(link'.queries) : FALSE
      BY <1>3
    <2> QED BY <1>1, <1>3, <2>1, <2>2, <2>3 DEF TestNodeInv, CleanSoFar, ExitedOnce
  <1> QED BY <1>1, <1>4, <1>5, <1>6, LinesKept DEF TestNodeInv

\* A step that changes nothing of the test node keeps its invariant.
LEMMA TestNodeStutter == ASSUME TestNodeInv, UNCHANGED testNodeVars PROVE TestNodeInv'
  BY Zenon DEF testNodeVars, TestNodeInv, TestNodeTypeOK, Aligned, Behind, Waiting, LinesPlaced,
         LinesLagByTimeouts, CleanSoFar, Clean, Own, Right, ExitedOnce

\* Every step of the test node keeps the invariant.
LEMMA TestNodeStep == TestNodeInv /\ [TestNodeNext]_testNodeVars => TestNodeInv'
  BY StartCallInv, ConnectInv, SendQueryInv, FailInv, KilledInv, ReceiveReplyInv,
     MachineAnswersInv, MachineClosesInv, TestNodeStutter, Zenon DEF TestNodeNext, Program

\* The invariant of the test node holds in every state.
LEMMA TestNodeInvariance == TestNodeSpec => []TestNodeInv
  BY TestNodeInitInv, TestNodeStep, PTL DEF TestNodeSpec

\* The invariant says what a clean exit shows.
LEMMA InvClean == TestNodeInv => CleanExitShowsOwnPrices
  <1> SUFFICES ASSUME TestNodeInv, at = "exited", exitCode = 0, fresh
               PROVE  /\ Len(shown) = Len(config.pairs)
                      /\ \A k \in 1..Len(shown) : /\ shown[k].pair = config.pairs[k]
                                                  /\ shown[k].price = config.pairs[k]
    BY DEF CleanExitShowsOwnPrices
  <1>1. Clean
    BY DEF TestNodeInv, ExitedOnce, Clean, TestNodeTypeOK
  <1>2. Right(Len(config.pairs))
    BY <1>1, Zenon DEF TestNodeInv, CleanSoFar
  <1> QED BY <1>2 DEF Right

\* A call of the test node that exits with 0 has printed each of its pairs once, in
\* order and with its own price, for any list of pairs, unless an earlier call has
\* used its ids (main).
THEOREM CleanExit == TestNodeSpec => []CleanExitShowsOwnPrices
  BY TestNodeInvariance, InvClean, PTL

\* What the test node prints lags behind by exactly the receives that have timed
\* out on the connection (sendQuery).
THEOREM LagIsTimeouts == TestNodeSpec => []LinesLagByTimeouts
  <1>1. TestNodeInv => LinesLagByTimeouts
    BY DEF TestNodeInv
  <1> QED BY TestNodeInvariance, <1>1, PTL
-------------------------------------------------------------------------------
(* Both ends together *)

\* A step of the one leaves the other as it is.
LEMMA ConversationsStep ==
    SessionInv /\ TestNodeInv
      /\ [ReadsQueries(Next) \/ AsksQueries(TestNodeNext)]_<<side, vars, testNodeVars>>
      => SessionInv' /\ TestNodeInv'
  <1> SUFFICES ASSUME SessionInv, TestNodeInv,
                      [ReadsQueries(Next) \/ AsksQueries(TestNodeNext)]_<<side, vars, testNodeVars>>
               PROVE  SessionInv' /\ TestNodeInv'
    OBVIOUS
  <1>1. [Next]_vars /\ [TestNodeNext]_testNodeVars
    BY Zenon DEF ReadsQueries, AsksQueries
  <1> QED BY <1>1, SessionStep, TestNodeStep

\* Both ends keep the types of their variables, whatever is sent (handleSession,
\* serve, main).
THEOREM ConversationsTyped == MCSpec => []ConversationsTypeOK
  <1>1. MCInit => SessionInv /\ TestNodeInv
    BY SessionInit, TestNodeInitInv, Zenon DEF MCInit
  <1>2. SessionInv /\ TestNodeInv => ConversationsTypeOK
    BY DEF SessionInv, TestNodeInv, ConversationsTypeOK
  <1> QED BY <1>1, <1>2, ConversationsStep, PTL DEF MCSpec
===============================================================================
