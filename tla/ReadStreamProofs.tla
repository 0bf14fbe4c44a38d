-------------------------- MODULE ReadStreamProofs --------------------------
(***************************************************************************)
(* Proofs about ReadStream: its type invariant, that exactly the faults    *)
(* fail, and that the reader implements BoundedRows, for all caps, sizes   *)
(* of rows and lengths of recordsets.                                      *)
(*                                                                         *)
(* The refinement is about sums and about the least row that is too many.  *)
(* Both come first, from the least number of a set of numbers.             *)
(***************************************************************************)
EXTENDS ReadStream, SequencesExt, SequenceTheorems, WellFoundedInduction, TLAPS

(***************************************************************************)
(* Folds.                                                                  *)
(***************************************************************************)

(* A set of numbers has a least.                                           *)
LEMMA LeastNatural ==
  ASSUME NEW S \in SUBSET Nat, S # {}
  PROVE  \E least \in S : \A n \in S : least <= n
<1>. DEFINE R == {p \in Nat \X Nat : p[1] < p[2]}
<1>1. IsWellFoundedOn(R, Nat)
  BY NatLessThanWellFounded DEF OpToRel
<1>. HIDE DEF R
<1>2. PICK least \in S : \A n \in S : ~(<<n, least>> \in R)
  BY <1>1, WFMin
<1>3. \A n \in S : ~(n < least)
  BY <1>2 DEF R
<1>. QED BY <1>3

(* A set that has zero, and with every number the next, has all.           *)
LEMMA Induction ==
  ASSUME NEW S, 0 \in S, \A n \in Nat : n \in S => n + 1 \in S
  PROVE  Nat \subseteq S
<1>. DEFINE T == Nat \ S
<1>. SUFFICES ASSUME T # {} PROVE FALSE
  OBVIOUS
<1>1. PICK least \in T : \A n \in T : least <= n
  <2>. HIDE DEF T
  <2>1. T \in SUBSET Nat
    BY DEF T
  <2>. QED BY <2>1, LeastNatural
<1>2. least - 1 \in S /\ least - 1 \in Nat
  BY <1>1
<1>. QED BY <1>1, <1>2

(* Max, as the community modules choose it, is in the set it is of.        *)
LEMMA MaxOf ==
  ASSUME NEW n \in Nat, NEW S \in SUBSET (1 .. n), S # {}
  PROVE  Max(S) \in S /\ \A i \in S : Max(S) >= i
<1>. DEFINE T == {k \in Nat : \A i \in S : i <= k}
<1>1. n \in T
  OBVIOUS
<1>2. PICK k \in T : \A j \in T : k <= j
  <2>1. T \in SUBSET Nat /\ T # {}
    BY <1>1
  <2>. HIDE DEF T
  <2>. QED BY <2>1, LeastNatural
<1>3. k \in S
  <2>1. k \in Nat /\ \A i \in S : i <= k
    BY <1>2
  <2>2. PICK i \in S : TRUE
    OBVIOUS
  <2>3. k - 1 \in Nat /\ ~(k <= k - 1)
    BY <2>1, <2>2
  <2>4. k - 1 \notin T
    BY <1>2, <2>3
  <2>. QED BY <2>1, <2>3, <2>4
<1>. QED BY <1>2, <1>3 DEF Max

(* The functions that take a result and an element to the next result.     *)
StepsOver(T, A) == [T -> [A -> T]]

(* g holds what folding F leaves of the elements of s at each set of       *)
(* positions, as FoldLeft goes about it: the last position first.          *)
IsFold(g, T, F, base, s) ==
  /\ g \in [SUBSET (1 .. Len(s)) -> T]
  /\ \A S \in SUBSET (1 .. Len(s)) :
       g[S] = IF S = {} THEN base ELSE F[g[S \ {Max(S)}]][s[Max(S)]]

(* There is a function that FoldLeft can choose.                           *)
LEMMA FoldExists ==
  ASSUME NEW T, NEW A, NEW F \in StepsOver(T, A), NEW base \in T, NEW s \in Seq(A)
  PROVE  \E g : IsFold(g, T, F, base, s)
<1>. USE DEF StepsOver
<1>. DEFINE Folds(g, n) ==
              /\ g \in [SUBSET (1 .. n) -> T]
              /\ \A S \in SUBSET (1 .. n) :
                   g[S] = IF S = {} THEN base ELSE F[g[S \ {Max(S)}]][s[Max(S)]]
            N == {n \in Nat : n <= Len(s) => \E g : Folds(g, n)}
<1>1. Folds([S \in SUBSET (1 .. 0) |-> base], 0)
  OBVIOUS
<1>2. ASSUME NEW n \in Nat, n + 1 <= Len(s), NEW g, Folds(g, n)
      PROVE  \E h : Folds(h, n + 1)
  <2>. DEFINE h == [S \in SUBSET (1 .. n + 1) |->
                      IF n + 1 \in S THEN F[g[S \ {n + 1}]][s[n + 1]] ELSE g[S]]
  <2>1. s[n + 1] \in A
    BY <1>2, LenProperties
  <2>2. \A S \in SUBSET (1 .. n + 1) : n + 1 \in S =>
          S \ {n + 1} \in SUBSET (1 .. n) /\ h[S] = F[g[S \ {n + 1}]][s[n + 1]]
    OBVIOUS
  <2>3. \A S \in SUBSET (1 .. n) : S \in SUBSET (1 .. n + 1) /\ n + 1 \notin S /\ h[S] = g[S]
    OBVIOUS
  <2>4. ASSUME NEW S \in SUBSET (1 .. n + 1), n + 1 \notin S PROVE S \in SUBSET (1 .. n)
    <3>1. \A i \in 1 .. n + 1 : i # n + 1 => i \in 1 .. n
      OBVIOUS
    <3>. QED BY <2>4, <3>1
  <2>5. h = [S \in SUBSET (1 .. n + 1) |-> h[S]]
    OBVIOUS
  <2>. HIDE DEF h
  <2>6. ASSUME NEW S \in SUBSET (1 .. n + 1)
        PROVE  /\ h[S] \in T
               /\ h[S] = IF S = {} THEN base ELSE F[h[S \ {Max(S)}]][s[Max(S)]]
    <3>1. CASE n + 1 \in S
      <4>1. Max(S) = n + 1
        <5>1. n + 1 \in Nat /\ S # {}
          BY <3>1
        <5>2. Max(S) \in S /\ \A i \in S : Max(S) >= i
          BY <5>1, MaxOf
        <5>. DEFINE m == Max(S)
        <5>3. m \in 1 .. n + 1 /\ m >= n + 1
          BY <5>2, <3>1
        <5>. HIDE DEF m
        <5>4. m = n + 1
          BY <5>3
        <5>. QED BY <5>4 DEF m
      <4>2. S \ {n + 1} \in SUBSET (1 .. n) /\ h[S] = F[g[S \ {n + 1}]][s[n + 1]]
        BY <3>1, <2>2
      <4>3. h[S \ {n + 1}] = g[S \ {n + 1}] /\ g[S \ {n + 1}] \in T
        BY <4>2, <2>3, <1>2
      <4>4. h[S] = F[h[S \ {Max(S)}]][s[Max(S)]]
        BY <4>1, <4>2, <4>3
      <4>5. h[S] \in T
        BY <4>2, <4>3, <2>1
      <4>. QED BY <4>4, <4>5, <3>1
    <3>2. CASE n + 1 \notin S
      <4>1. S \in SUBSET (1 .. n)
        BY <3>2, <2>4
      <4>2. S \ {Max(S)} \in SUBSET (1 .. n)
        BY <4>1
      <4>3. h[S] = g[S] /\ h[S \ {Max(S)}] = g[S \ {Max(S)}]
        BY <4>1, <4>2, <2>3
      <4>. QED BY <4>1, <4>3, <1>2
    <3>. QED BY <3>1, <3>2
  <2>7. h \in [SUBSET (1 .. n + 1) -> T]
    BY <2>5, <2>6
  <2>. QED BY <2>6, <2>7
<1>. HIDE DEF Folds
<1>3. 0 \in N /\ \A n \in Nat : n \in N => n + 1 \in N
  BY <1>1, <1>2, LenProperties
<1>4. Nat \subseteq N
  <2>. HIDE DEF N
  <2>. QED BY <1>3, Induction
<1>5. \E g : Folds(g, Len(s))
  BY <1>4, LenProperties
<1>. QED BY <1>5 DEF Folds, IsFold

(* The sum of the sizes in s.                                              *)
Total(s) == Bounded!FoldLeft(+, 0, s)

(* Adding up goes from number to number.                                   *)
LEMMA SumStages ==
  ASSUME NEW s \in Seq(Nat)
  PROVE  \E total \in [0 .. Len(s) -> Nat] :
           /\ total[0] = 0
           /\ \A i \in 1 .. Len(s) : total[i] = total[i - 1] + s[i]
           /\ Total(s) = total[Len(s)]
<1>. DEFINE Sums(g) == g = [S \in SUBSET DOMAIN s |->
                              IF S = {} THEN 0 ELSE g[S \ {Max(S)}] + s[Max(S)]]
            sum == CHOOSE g : Sums(g)
            total == [i \in 0 .. Len(s) |-> sum[1 .. i]]
<1>1. DOMAIN s = 1 .. Len(s) /\ Len(s) \in Nat /\ \A i \in 1 .. Len(s) : s[i] \in Nat
  BY LenProperties, ElementOfSeq
<1>2. Total(s) = sum[DOMAIN s]
  BY DEF Total, Bounded!FoldLeft, Bounded!MapThenFoldSet, Bounded!Max, Max
<1>3. Sums(sum)
  <2>. DEFINE F == [t \in Nat |-> [a \in Nat |-> t + a]]
  <2>1. F \in StepsOver(Nat, Nat) /\ 0 \in Nat
    BY DEF StepsOver
  <2>2. PICK g : IsFold(g, Nat, F, 0, s)
    <3>. HIDE DEF F
    <3>. QED BY <2>1, FoldExists
  <2>3. ASSUME NEW S \in SUBSET (1 .. Len(s)), S # {}
        PROVE  F[g[S \ {Max(S)}]][s[Max(S)]] = g[S \ {Max(S)}] + s[Max(S)]
    <3>1. Max(S) \in 1 .. Len(s)
      BY <1>1, <2>3, MaxOf
    <3>. QED BY <1>1, <2>2, <3>1 DEF IsFold
  <2>4. Sums(g)
    BY <1>1, <2>2, <2>3 DEF IsFold
  <2>. QED BY <2>4
<1>. HIDE DEF sum
<1>4. total[0] = 0
  BY <1>1, <1>3
<1>5. ASSUME NEW i \in 1 .. Len(s) PROVE total[i] = total[i - 1] + s[i]
  <2>1. i \in Nat /\ i \in 1 .. i /\ 1 .. i \in SUBSET (1 .. i)
    OBVIOUS
  <2>2. Max(1 .. i) \in 1 .. i /\ Max(1 .. i) >= i
    BY <2>1, MaxOf
  <2>3. Max(1 .. i) = i
    <3>. DEFINE m == Max(1 .. i)
    <3>1. m \in 1 .. i /\ m >= i
      BY <2>2
    <3>. HIDE DEF m
    <3>2. m = i
      BY <3>1
    <3>. QED BY <3>2 DEF m
  <2>4. (1 .. i) \ {i} = 1 .. i - 1 /\ 1 .. i # {}
    <3>1. \A j : j \in (1 .. i) \ {i} <=> j \in 1 .. i - 1
      BY <2>1
    <3>2. (1 .. i) \ {i} = 1 .. i - 1
      BY <3>1, Zenon
    <3>. QED BY <2>1, <3>2
  <2>5. 1 .. i \in SUBSET DOMAIN s
    BY <1>1
  <2>6. sum[1 .. i] = sum[1 .. i - 1] + s[i]
    BY <1>3, <2>3, <2>4, <2>5
  <2>. QED BY <1>1, <2>6
<1>6. \A i \in 0 .. Len(s) : total[i] \in Nat
  <2>. DEFINE N == {i \in Nat : i <= Len(s) => total[i] \in Nat}
  <2>1. 0 \in N /\ \A i \in Nat : i \in N => i + 1 \in N
    <3>1. ASSUME NEW i \in Nat, i \in N, i + 1 <= Len(s) PROVE total[i + 1] \in Nat
      <4>1. total[i] \in Nat /\ i + 1 \in 1 .. Len(s) /\ (i + 1) - 1 = i
        BY <1>1, <3>1
      <4>. HIDE DEF total
      <4>. QED BY <1>1, <1>5, <4>1
    <3>. HIDE DEF total
    <3>. QED BY <1>4, <3>1
  <2>. HIDE DEF N
  <2>2. Nat \subseteq N
    BY <2>1, Induction
  <2>. HIDE DEF total
  <2>. QED BY <1>1, <2>2 DEF N
<1>7. total \in [0 .. Len(s) -> Nat] /\ Total(s) = total[Len(s)]
  <2>1. total \in [0 .. Len(s) -> Nat]
    <3>. HIDE DEF sum
    <3>. QED BY <1>6
  <2>2. Len(s) \in 0 .. Len(s)
    BY <1>1
  <2>. QED BY <1>1, <1>2, <2>1, <2>2
<1>. QED BY <1>4, <1>5, <1>7

(* Adding up a row more.                                                   *)
LEMMA SumOfAppend ==
  ASSUME NEW s \in Seq(Nat), NEW a \in Nat
  PROVE  /\ Total(s) \in Nat
         /\ Total(Append(s, a)) = Total(s) + a
<1>. DEFINE u == Append(s, a)
<1>1. u \in Seq(Nat) /\ Len(u) = Len(s) + 1 /\ u[Len(s) + 1] = a /\ Len(s) \in Nat
  BY LenProperties
<1>2. \A i \in 1 .. Len(s) : u[i] = s[i]
  OBVIOUS
<1>. HIDE DEF u
<1>3. PICK f \in [0 .. Len(s) -> Nat] :
        /\ f[0] = 0
        /\ \A i \in 1 .. Len(s) : f[i] = f[i - 1] + s[i]
        /\ Total(s) = f[Len(s)]
  BY SumStages
<1>4. PICK g \in [0 .. Len(u) -> Nat] :
        /\ g[0] = 0
        /\ \A i \in 1 .. Len(u) : g[i] = g[i - 1] + u[i]
        /\ Total(u) = g[Len(u)]
  BY <1>1, SumStages
<1>. DEFINE N == {i \in Nat : i <= Len(s) => f[i] = g[i]}
<1>5. 0 \in N
  BY <1>3, <1>4
<1>6. ASSUME NEW i \in N PROVE i + 1 \in N
  <2>1. SUFFICES ASSUME i + 1 <= Len(s) PROVE f[i + 1] = g[i + 1]
    OBVIOUS
  <2>2. i + 1 \in 1 .. Len(s) /\ i + 1 \in 1 .. Len(u) /\ (i + 1) - 1 = i /\ f[i] = g[i]
    BY <1>1, <2>1
  <2>3. f[i + 1] = f[i] + s[i + 1]
    BY <1>3, <2>2
  <2>4. g[i + 1] = g[i] + u[i + 1]
    BY <1>4, <2>2
  <2>5. u[i + 1] = s[i + 1]
    BY <1>2, <2>2
  <2>. QED BY <2>2, <2>3, <2>4, <2>5
<1>7. Nat \subseteq N
  <2>. HIDE DEF N
  <2>. QED BY <1>5, <1>6, Induction
<1>8. f[Len(s)] = g[Len(s)]
  BY <1>1, <1>7
<1>9. g[Len(u)] = g[Len(s)] + a
  <2>1. Len(u) \in 1 .. Len(u) /\ Len(u) - 1 = Len(s)
    BY <1>1
  <2>. QED BY <1>1, <1>4, <2>1
<1>10. f[Len(s)] \in Nat
  <2>1. Len(s) \in 0 .. Len(s)
    BY <1>1
  <2>. QED BY <2>1
<1>. QED BY <1>3, <1>4, <1>8, <1>9, <1>10 DEF u

(* The text of some rows: brackets, the rows, and commas between them.     *)
LEMMA JsonBytesTotal ==
  ASSUME NEW s
  PROVE  Bounded!JsonBytes(s) = 2 + Total(s) + IF s = <<>> THEN 0 ELSE Len(s) - 1
BY Zenon DEF Bounded!JsonBytes, Total

(* The text of no rows, and what one row more adds to the text.            *)
LEMMA JsonBytesOfNone == Bounded!JsonBytes(<<>>) = 2
<1>1. <<>> \in Seq(Nat) /\ Len(<<>>) = 0
  OBVIOUS
<1>2. Total(<<>>) = 0
  BY <1>1, SumStages
<1>. QED BY <1>2, JsonBytesTotal

LEMMA JsonBytesOfAppend ==
  ASSUME NEW s \in Seq(Nat), NEW a \in Nat
  PROVE  /\ Bounded!JsonBytes(s) \in Nat
         /\ Bounded!JsonBytes(Append(s, a)) =
              Bounded!JsonBytes(s) + (IF s = <<>> THEN 0 ELSE 1) + a
<1>1. /\ Total(s) \in Nat
      /\ Total(Append(s, a)) = Total(s) + a
  BY SumOfAppend
<1>2. Append(s, a) # <<>> /\ Len(Append(s, a)) = Len(s) + 1 /\ Len(s) \in Nat
  OBVIOUS
<1>3. Bounded!JsonBytes(Append(s, a)) = 2 + (Total(s) + a) + Len(s)
  <2>1. Bounded!JsonBytes(Append(s, a)) = 2 + Total(Append(s, a)) + (Len(Append(s, a)) - 1)
    BY <1>2, JsonBytesTotal
  <2>. QED BY <1>1, <1>2, <2>1
<1>4. CASE s = <<>>
  <2>1. Bounded!JsonBytes(s) = 2 + Total(s) + 0 /\ Len(s) = 0
    BY <1>4, JsonBytesTotal
  <2>. QED BY <1>1, <1>3, <1>4, <2>1
<1>5. CASE s # <<>>
  <2>1. Bounded!JsonBytes(s) = 2 + Total(s) + (Len(s) - 1)
    BY <1>5, JsonBytesTotal
  <2>2. Len(s) - 1 \in Nat
    BY <1>2, <1>5, EmptySeq
  <2>. QED BY <1>1, <1>2, <1>3, <1>5, <2>1, <2>2
<1>. QED BY <1>4, <1>5

(* The prefixes of a recordset, row by row.                                *)
LEMMA PrefixGrows ==
  ASSUME NEW s \in Seq(Nat), NEW n \in Nat, n < Len(s)
  PROVE  /\ SubSeq(s, 1, n) \in Seq(Nat) /\ Len(SubSeq(s, 1, n)) = n
         /\ s[n + 1] \in Nat
         /\ SubSeq(s, 1, n + 1) = Append(SubSeq(s, 1, n), s[n + 1])
         /\ SubSeq(s, 1, n) = <<>> <=> n = 0
<1>1. Len(s) \in Nat /\ n + 1 \in 1 .. Len(s) /\ s[n + 1] \in Nat
  OBVIOUS
<1>2. /\ SubSeq(s, 1, n) \in Seq(Nat) /\ Len(SubSeq(s, 1, n)) = n
      /\ \A i \in 1 .. n : SubSeq(s, 1, n)[i] = s[i]
  BY <1>1, SubSeqProperties
<1>3. /\ SubSeq(s, 1, n + 1) \in Seq(Nat) /\ Len(SubSeq(s, 1, n + 1)) = n + 1
      /\ \A i \in 1 .. n + 1 : SubSeq(s, 1, n + 1)[i] = s[i]
  BY <1>1, SubSeqProperties
<1>4. /\ Append(SubSeq(s, 1, n), s[n + 1]) \in Seq(Nat)
      /\ Len(Append(SubSeq(s, 1, n), s[n + 1])) = n + 1
      /\ \A i \in 1 .. n + 1 : Append(SubSeq(s, 1, n), s[n + 1])[i] = s[i]
  BY <1>1, <1>2
<1>5. SubSeq(s, 1, n + 1) = Append(SubSeq(s, 1, n), s[n + 1])
  BY <1>3, <1>4, SeqEqual
<1>. QED BY <1>1, <1>2, <1>5, EmptySeq

(* Their texts grow with them.                                             *)
LEMMA PrefixBytes ==
  ASSUME NEW s \in Seq(Nat), NEW n \in Nat, n < Len(s)
  PROVE  /\ Bounded!JsonBytes(SubSeq(s, 1, n)) \in Nat
         /\ Bounded!JsonBytes(SubSeq(s, 1, n + 1)) =
              Bounded!JsonBytes(SubSeq(s, 1, n)) + (IF n = 0 THEN 0 ELSE 1) + s[n + 1]
         /\ s[n + 1] \in Nat
BY PrefixGrows, JsonBytesOfAppend

(* A text with more rows is longer.                                        *)
LEMMA LongerIsLarger ==
  ASSUME NEW s \in Seq(Nat), NEW m \in 0 .. Len(s), NEW n \in m .. Len(s)
  PROVE  /\ Bounded!JsonBytes(SubSeq(s, 1, m)) \in Nat
         /\ Bounded!JsonBytes(SubSeq(s, 1, n)) \in Nat
         /\ Bounded!JsonBytes(SubSeq(s, 1, m)) <= Bounded!JsonBytes(SubSeq(s, 1, n))
<1>. DEFINE bytes(i) == Bounded!JsonBytes(SubSeq(s, 1, i))
            N == {i \in Nat : i <= Len(s) => bytes(i) \in Nat /\ (m <= i => bytes(m) \in Nat /\ bytes(m) <= bytes(i))}
<1>0. Len(s) \in Nat /\ m \in Nat
  OBVIOUS
<1>1. 0 \in N
  <2>1. SubSeq(s, 1, 0) = <<>>
    OBVIOUS
  <2>2. bytes(0) = 2
    BY <2>1, JsonBytesOfNone
  <2>3. m <= 0 => bytes(m) = bytes(0)
    BY <1>0
  <2>. HIDE DEF bytes
  <2>. QED BY <2>2, <2>3
<1>2. ASSUME NEW i \in N PROVE i + 1 \in N
  <2>1. SUFFICES ASSUME i + 1 <= Len(s)
                 PROVE  bytes(i + 1) \in Nat /\ (m <= i + 1 => bytes(m) \in Nat /\ bytes(m) <= bytes(i + 1))
    OBVIOUS
  <2>2. i \in Nat /\ i < Len(s) /\ bytes(i) \in Nat /\ (m <= i => bytes(m) \in Nat /\ bytes(m) <= bytes(i))
    BY <1>0, <2>1
  <2>3. bytes(i + 1) = bytes(i) + (IF i = 0 THEN 0 ELSE 1) + s[i + 1] /\ s[i + 1] \in Nat
    BY <2>2, PrefixBytes
  <2>4. m = i + 1 => bytes(m) = bytes(i + 1)
    OBVIOUS
  <2>. HIDE DEF bytes
  <2>5. bytes(i + 1) \in Nat /\ bytes(i) <= bytes(i + 1)
    BY <2>2, <2>3
  <2>6. CASE m <= i
    BY <2>2, <2>5, <2>6
  <2>7. CASE m = i + 1
    BY <2>4, <2>5, <2>7
  <2>8. CASE m > i + 1
    BY <1>0, <2>2, <2>5, <2>8
  <2>. QED BY <1>0, <2>2, <2>6, <2>7, <2>8
<1>3. Nat \subseteq N
  <2>. HIDE DEF N
  <2>. QED BY <1>1, <1>2, Induction
<1>. HIDE DEF bytes
<1>4. bytes(m) \in Nat /\ bytes(n) \in Nat /\ bytes(m) <= bytes(n)
  <2>1. m \in N /\ n \in N /\ m <= n /\ n <= Len(s) /\ m <= Len(s)
    BY <1>0, <1>3
  <2>. QED BY <2>1
<1>. QED BY <1>4 DEF bytes

(* The rows kept are among those the server has sent, and until the read   *)
(* stops the rows counted are within the cap.                              *)
CountsAgree ==
  /\ Len(rows) <= sent
  /\ ~stopped => rowsSeen <= maxRows

(* A statement that has not been answered is pending; streamError is the   *)
(* read's own record of a fault; and only a write has no cap on its rows.  *)
Progress ==
  /\ pc # "answered" => answer = Pending
  /\ pc \in {"describe", "begin", "write"} => ~faulted /\ ~streamError
  /\ pc \in {"stream", "rollback"} => streamError = faulted
  /\ maxRows = NoCap => pc \in {"write", "answered"} /\ rowsSeen = 0
  /\ pc = "write" => maxRows = NoCap

Inv == TypeOK /\ CountsAgree /\ Progress /\ FailsOnFault

----------------------------------------------------------------------------

(* A recordset is a sequence of at most MaxLen sizes.                      *)
LEMMA SourcesAreSequences ==
  ASSUME NEW s \in Sources
  PROVE  s \in Seq(Sizes) /\ Len(s) \in 0 .. MaxLen
<1>1. PICK n \in 0 .. MaxLen : s \in [1 .. n -> Sizes]
  BY DEF Sources
<1>. QED BY <1>1, MaxLenAssumption

(* A shorter recordset with a row more is one.                             *)
LEMMA AppendToSources ==
  ASSUME NEW s \in Sources, NEW size \in Sizes, Len(s) < MaxLen
  PROVE  Append(s, size) \in Sources
<1>1. PICK n \in 0 .. MaxLen : s \in [1 .. n -> Sizes]
  BY DEF Sources
<1>2. n = Len(s) /\ n + 1 \in 0 .. MaxLen
  BY <1>1, MaxLenAssumption
<1>3. Append(s, size) \in Seq(Sizes) /\ Len(Append(s, size)) = n + 1
  BY <1>1, <1>2
<1>4. Append(s, size) \in [1 .. n + 1 -> Sizes]
  BY <1>3, LenProperties
<1>. QED BY <1>2, <1>4 DEF Sources

(* A row that is not ignored is counted, and kept at most once.            *)
LEMMA TakeRowCounts ==
  ASSUME Inv, pc = "stream", NEW rowBytes \in Sizes, TakeRow(rowBytes),
         recordsetCount = 2 \/ (recordsetCount = 1 /\ Len(rows) < MaxLen)
  PROVE  /\ rows' \in Sources
         /\ rowsSeen' \in 0 .. maxRows + 1
         /\ resultBytes' \in Nat
         /\ truncated' \in BOOLEAN /\ stopped' \in BOOLEAN
         /\ ~stopped' => rowsSeen' <= maxRows
         /\ Len(rows') <= Len(rows) + IF recordsetCount > 1 THEN 0 ELSE 1
<1>1. /\ maxRows \in Nat \ {0} /\ rowsSeen \in 0 .. maxRows + 1
      /\ rows \in Sources /\ rows \in Seq(Sizes) /\ Len(rows) \in Nat
      /\ resultBytes \in Nat /\ recordsetCount \in 0 .. 2 /\ rowBytes \in Nat
  BY SourcesAreSequences, RowCapsAssumption, SizesAssumption
  DEF Inv, TypeOK, Progress, NoCap
<1>2. CASE stopped \/ recordsetCount > 1
  BY <1>1, <1>2 DEF TakeRow, Ignored, Inv, TypeOK, CountsAgree
<1>3. CASE ~stopped /\ recordsetCount = 1
  <2>1. rowsSeen' = rowsSeen + 1 /\ rowsSeen <= maxRows
    BY <1>1, <1>3 DEF TakeRow, Inv, CountsAgree
  <2>2. CASE rowsSeen' > maxRows \/ ExceedsBytes(rowBytes)
    <3>1. UNCHANGED <<rows, resultBytes>> /\ truncated' = TRUE /\ stopped' = TRUE
      BY <1>1, <1>3, <2>2 DEF TakeRow, Stop
    <3>. QED BY <1>1, <1>3, <2>1, <3>1
  <2>3. CASE ~(rowsSeen' > maxRows \/ ExceedsBytes(rowBytes))
    <3>1. /\ resultBytes' = resultBytes + Separator + rowBytes
          /\ rows' = Append(rows, rowBytes)
          /\ UNCHANGED <<truncated, stopped>>
      BY <1>1, <1>3, <2>3 DEF TakeRow
    <3>. QED
      <4>1. rows' \in Sources
        BY <1>1, <1>3, <3>1, AppendToSources
      <4>2. Len(rows') = Len(rows) + 1
        BY <1>1, <3>1
      <4>. QED
        BY <1>1, <1>3, <2>1, <2>3, <3>1, <4>1, <4>2 DEF Separator, Inv, TypeOK
  <2>. QED BY <2>2, <2>3
<1>. QED BY <1>1, <1>2, <1>3

----------------------------------------------------------------------------

LEMMA InitEstablishesInv == Init => Inv
<1>1. SUFFICES ASSUME Init PROVE Inv
  OBVIOUS
<1>2. rows \in Sources /\ Len(rows) = 0
  <2>1. <<>> \in [1 .. 0 -> Sizes] /\ 0 \in 0 .. MaxLen
    BY MaxLenAssumption
  <2>2. rows = <<>>
    BY <1>1 DEF Init
  <2>3. rows \in Sources
    BY <2>1, <2>2 DEF Sources
  <2>. QED BY <2>2, <2>3
<1>3. /\ maxRows \in RowCaps \/ maxRows = NoCap
      /\ sent = 0 /\ late = 0 /\ recordsetCount = 0 /\ rowsSeen = 0 /\ resultBytes = 2
  BY <1>1 DEF Init
<1>4. maxRows \in Nat /\ maxRows \in RowCaps \cup {NoCap}
  <2>1. NoCap \in Nat /\ RowCaps \subseteq Nat
    BY RowCapsAssumption DEF NoCap
  <2>2. maxRows \in RowCaps \cup {NoCap}
    BY <1>3
  <2>. QED BY <2>1, <2>2
<1>5. CountsAgree
  BY <1>2, <1>3, <1>4 DEF CountsAgree
<1>6. TypeOK
  <2>1. rowsSeen \in 0 .. IF maxRows = NoCap THEN 0 ELSE maxRows + 1
    BY <1>3, <1>4
  <2>2. /\ sent \in 0 .. MaxLen /\ late \in 0 .. MaxLate /\ recordsetCount \in 0 .. 2
        /\ resultBytes \in Nat
    BY <1>3, MaxLenAssumption, MaxLateAssumption
  <2>3. /\ source \in Sources /\ maxBytes \in ByteCaps /\ pc \in {"describe", "write"}
        /\ transaction = "none" /\ answer.status = "pending"
        /\ erred = FALSE /\ truncated = FALSE /\ stopped = FALSE /\ streamError = FALSE
        /\ faulted = FALSE
    BY <1>1 DEF Init, Pending
  <2>. QED BY <1>2, <1>4, <2>1, <2>2, <2>3, Zenon DEF TypeOK
<1>7. Progress /\ FailsOnFault
  <2>1. /\ maxRows = NoCap <=> pc = "write"
        /\ pc \in {"describe", "write"} /\ transaction = "none" /\ answer = Pending
        /\ faulted = FALSE /\ streamError = FALSE
    BY <1>1, RowCapsAssumption DEF Init, NoCap
  <2>. QED BY <1>3, <2>1 DEF Progress, FailsOnFault
<1>. QED BY <1>5, <1>6, <1>7 DEF Inv

(* An event of the request that hands over a row.                          *)
LEMMA RowKeepsInv ==
  ASSUME Inv, OnRow \/ OnLateRow
  PROVE  Inv'
<1>1. /\ pc = "stream" /\ maxRows \in RowCaps /\ maxRows # NoCap
      /\ source \in Sources /\ source \in Seq(Sizes) /\ Len(source) \in 0 .. MaxLen
      /\ rows \in Sources /\ Len(rows) \in Nat /\ Len(rows) <= sent
      /\ sent \in 0 .. MaxLen /\ late \in 0 .. MaxLate
  BY SourcesAreSequences DEF OnRow, OnLateRow, Inv, TypeOK, CountsAgree, Progress
<1>2. /\ rows' \in Sources /\ rowsSeen' \in 0 .. maxRows + 1 /\ resultBytes' \in Nat
      /\ truncated' \in BOOLEAN /\ stopped' \in BOOLEAN
      /\ ~stopped' => rowsSeen' <= maxRows
      /\ Len(rows') <= sent' /\ sent' \in 0 .. MaxLen /\ late' \in 0 .. MaxLate
  <2>1. CASE OnRow
    <3>1. /\ sent < Len(source) /\ sent' = sent + 1 /\ UNCHANGED late
          /\ recordsetCount = 1 /\ TakeRow(source[sent'])
      BY <2>1 DEF OnRow
    <3>2. source[sent'] \in Sizes /\ Len(rows) < MaxLen
      BY <1>1, <3>1, MaxLenAssumption
    <3>3. /\ rows' \in Sources /\ rowsSeen' \in 0 .. maxRows + 1 /\ resultBytes' \in Nat
          /\ truncated' \in BOOLEAN /\ stopped' \in BOOLEAN
          /\ ~stopped' => rowsSeen' <= maxRows
          /\ Len(rows') <= Len(rows) + 1
      BY <1>1, <3>1, <3>2, TakeRowCounts
    <3>4. Len(rows') \in Nat
      BY <3>3, SourcesAreSequences
    <3>. QED BY <1>1, <3>1, <3>3, <3>4, MaxLenAssumption
  <2>2. CASE OnLateRow
    <3>1. PICK rowBytes \in Sizes : TakeRow(rowBytes)
      BY <2>2 DEF OnLateRow
    <3>2. late < MaxLate /\ late' = late + 1 /\ UNCHANGED sent /\ recordsetCount = 2
      BY <2>2 DEF OnLateRow
    <3>3. UNCHANGED <<rows, rowsSeen, resultBytes, truncated, stopped>>
      BY <3>1, <3>2 DEF TakeRow, Ignored
    <3>. QED
      BY <1>1, <3>2, <3>3, MaxLateAssumption DEF Inv, TypeOK, CountsAgree
  <2>. QED BY <2>1, <2>2
<1>3. /\ UNCHANGED <<given, pc, transaction, erred, recordsetCount, streamError, answer, faulted>>
  BY DEF OnRow, OnLateRow
<1>4. TypeOK'
  BY <1>1, <1>2, <1>3 DEF Inv, TypeOK, given, NoCap
<1>. QED
  BY <1>1, <1>2, <1>3, <1>4 DEF Inv, CountsAgree, Progress, FailsOnFault, given, Pending

(* The answer of a stream that ended fails exactly when it saw an error.   *)
LEMMA OutcomeFails ==
  ASSUME streamError \in BOOLEAN
  PROVE  (Outcome = Failed) = streamError /\ Outcome.status \in {"failed", "rows"}
<1>1. CASE streamError
  BY <1>1 DEF Outcome, Failed
<1>2. CASE ~streamError
  BY <1>2 DEF Outcome, Failed
<1>. QED BY <1>1, <1>2

LEMMA NextKeepsInv == Inv /\ [Next]_vars => Inv'
<1>1. SUFFICES ASSUME Inv, [Next]_vars PROVE Inv'
  OBVIOUS
<1>. USE DEF given, request, handler
<1>2. CASE UNCHANGED vars
  BY <1>1, <1>2 DEF vars, Inv, TypeOK, CountsAgree, Progress, FailsOnFault, Pending, NoCap
<1>3. CASE Describe
  BY <1>1, <1>3 DEF Describe, Inv, TypeOK, CountsAgree, Progress, FailsOnFault
<1>4. CASE BeginSucceeds
  BY <1>1, <1>4 DEF BeginSucceeds, Inv, TypeOK, CountsAgree, Progress, FailsOnFault
<1>5. CASE BeginFails
  BY <1>1, <1>5 DEF BeginFails, Inv, TypeOK, CountsAgree, Progress, FailsOnFault, Failed
<1>6. CASE OnRecordset
  BY <1>1, <1>6 DEF OnRecordset, Inv, TypeOK, CountsAgree, Progress, FailsOnFault
<1>7. CASE OnRow \/ OnLateRow
  BY <1>1, <1>7, RowKeepsInv
<1>8. CASE OnCanceled
  BY <1>1, <1>8 DEF OnCanceled, Inv, TypeOK, CountsAgree, Progress, FailsOnFault
<1>9. CASE OnError
  BY <1>1, <1>9 DEF OnError, Inv, TypeOK, CountsAgree, Progress, FailsOnFault
<1>10. CASE QueryResolves
  BY <1>1, <1>10 DEF QueryResolves, Inv, TypeOK, CountsAgree, Progress, FailsOnFault
<1>11. CASE QueryRejects
  BY <1>1, <1>11 DEF QueryRejects, Inv, TypeOK, CountsAgree, Progress, FailsOnFault
<1>12. CASE Rollback
  <2>1. streamError \in BOOLEAN /\ streamError = faulted
    BY <1>1, <1>12 DEF Rollback, Inv, TypeOK, Progress
  <2>2. (Outcome = Failed) = faulted /\ Outcome.status \in {"failed", "rows"}
    BY <2>1, OutcomeFails
  <2>3. FailsOnFault'
    BY <1>12, <2>2 DEF Rollback, FailsOnFault, Failed
  <2>. QED BY <1>1, <1>12, <2>2, <2>3 DEF Rollback, Inv, TypeOK, CountsAgree, Progress
<1>13. CASE WriteSucceeds
  <2>1. answer'.status = "rows" /\ answer' # Failed /\ faulted = FALSE /\ UNCHANGED faulted
    BY <1>1, <1>13 DEF WriteSucceeds, Failed, Inv, TypeOK, Progress
  <2>. QED
    BY <1>1, <1>13, <2>1
    DEF WriteSucceeds, Inv, TypeOK, CountsAgree, Progress, FailsOnFault, Failed
<1>14. CASE WriteFails
  BY <1>1, <1>14 DEF WriteFails, Inv, TypeOK, CountsAgree, Progress, FailsOnFault, Failed
<1>. QED
  BY <1>1, <1>2, <1>3, <1>4, <1>5, <1>6, <1>7, <1>8, <1>9, <1>10, <1>11, <1>12, <1>13, <1>14
  DEF Next

(* Every reachable state satisfies the inductive invariant.                *)
THEOREM Invariance == Spec => []Inv
BY InitEstablishesInv, NextKeepsInv, PTL DEF Spec

(* Every reachable state is well typed; in particular a read counts at     *)
(* most one row beyond its cap, for any caps and recordsets.               *)
THEOREM TypeCorrect == Spec => []TypeOK
<1>1. Inv => TypeOK
  BY DEF Inv
<1>. QED BY Invariance, <1>1, PTL

(* A statement fails exactly when something but its own cancellation did.  *)
THEOREM FaultsFail == Spec => []FailsOnFault
<1>1. Inv => FailsOnFault
  BY DEF Inv
<1>. QED BY Invariance, <1>1, PTL

----------------------------------------------------------------------------
(* What a read has gathered, and what a write keeps.                       *)

Prefix(n) == SubSeq(source, 1, n)

(* The row after n is the first that does not fit.                         *)
EndsAt(n) ==
  /\ n \in 0 .. Len(source)
  /\ Bounded!Fits(Prefix(n))
  /\ n < Len(source) => ~Bounded!Fits(Prefix(n + 1))

(* Until it stops a read has all the rows it was sent; once it has         *)
(* stopped, the first row that did not fit is the next of the source.      *)
Gathers ==
  /\ sent <= Len(source)
  /\ recordsetCount = 0 => sent = 0
  /\ recordsetCount = 2 => sent = Len(source)
  /\ ~stopped => Len(rows) = sent /\ rowsSeen = sent /\ ~truncated
  /\ rows = Prefix(Len(rows))
  /\ resultBytes = Bounded!JsonBytes(rows)
  /\ Bounded!Fits(rows)
  /\ stopped => truncated /\ Len(rows) < Len(source) /\ EndsAt(Len(rows))
  /\ erred => stopped \/ streamError
  /\ pc = "rollback" => streamError \/ stopped \/ sent = Len(source)

(* The recordset a statement reads, and how far it was sent.               *)
LEMMA SourceTyped ==
  ASSUME TypeOK
  PROVE  /\ source \in Seq(Nat) /\ Len(source) \in Nat
         /\ rows \in Seq(Nat) /\ Len(rows) \in Nat
         /\ maxRows \in Nat /\ maxBytes \in Nat
         /\ rowsSeen \in Nat /\ sent \in Nat /\ resultBytes \in Nat
<1>1. ASSUME NEW s \in Sources PROVE s \in Seq(Nat) /\ Len(s) \in Nat
  <2>1. PICK n \in 0 .. MaxLen : s \in [1 .. n -> Sizes]
    BY DEF Sources
  <2>2. n \in Nat /\ \A i \in 1 .. n : s[i] \in Nat
    <3>1. n \in Nat
      BY MaxLenAssumption
    <3>2. \A i \in 1 .. n : s[i] \in Sizes
      BY <2>1
    <3>. QED BY <3>1, <3>2, SizesAssumption
  <2>3. s \in [1 .. n -> Nat]
    BY <2>1, <2>2
  <2>. QED BY <2>2, <2>3
<1>2. maxRows \in Nat
  BY RowCapsAssumption DEF TypeOK, NoCap
<1>3. maxBytes \in Nat
  BY ByteCapsAssumption DEF TypeOK
<1>. QED BY <1>1, <1>2, <1>3, MaxLenAssumption DEF TypeOK

(* The first row that does not fit bounds the longest prefix that does.    *)
LEMMA EndIsLongest ==
  ASSUME TypeOK, NEW n, EndsAt(n)
  PROVE  Bounded!IsLongest(Prefix(n)) /\ Prefix(n) \in Bounded!Prefixes(source)
<1>1. /\ source \in Seq(Nat) /\ Len(source) \in Nat /\ n \in 0 .. Len(source)
      /\ maxRows \in Nat /\ maxBytes \in Nat
  BY SourceTyped DEF EndsAt
<1>2. \A m \in 0 .. Len(source) : Prefix(m) \in Seq(Nat) /\ Len(Prefix(m)) = m
  BY <1>1, SubSeqProperties DEF Prefix
<1>3. Bounded!IsPrefix(Prefix(n), source)
  <2>1. SubSeq(Prefix(n), 1, n) = Prefix(n)
    BY <1>1, <1>2, SubSeqFull
  <2>. QED BY <1>1, <1>2, <2>1 DEF Bounded!IsPrefix, Prefix
<1>4. ASSUME NEW m \in 0 .. Len(source), Bounded!Fits(Prefix(m))
      PROVE  m <= n
  <2>1. SUFFICES ASSUME n < m PROVE FALSE
    BY <1>1
  <2>2. n < Len(source) /\ n \in Nat /\ n + 1 \in 0 .. Len(source) /\ m \in n + 1 .. Len(source)
    BY <1>1, <2>1
  <2>3. ~Bounded!Fits(Prefix(n + 1))
    BY <2>2 DEF EndsAt
  <2>4. /\ Len(Prefix(n + 1)) = n + 1 /\ Len(Prefix(m)) = m
        /\ Prefix(m) # <<>>
    BY <1>2, <2>2
  <2>5. /\ Bounded!JsonBytes(Prefix(n + 1)) \in Nat /\ Bounded!JsonBytes(Prefix(m)) \in Nat
        /\ Bounded!JsonBytes(Prefix(n + 1)) <= Bounded!JsonBytes(Prefix(m))
    BY <1>1, <2>2, LongerIsLarger DEF Prefix
  <2>. QED BY <1>1, <1>4, <2>2, <2>3, <2>4, <2>5 DEF Bounded!Fits
<1>5. ASSUME NEW longer \in Bounded!Prefixes(source), Bounded!Fits(longer)
      PROVE  Len(longer) <= Len(Prefix(n))
  <2>1. PICK m \in 0 .. Len(source) : longer = Prefix(m)
    BY DEF Bounded!Prefixes, Prefix
  <2>. QED BY <1>1, <1>2, <1>4, <1>5, <2>1
<1>6. Prefix(n) \in Bounded!Prefixes(source)
  BY <1>1 DEF Bounded!Prefixes, Prefix
<1>. QED BY <1>3, <1>5, <1>6 DEF Bounded!IsLongest, EndsAt

(* A statement answered with the rows up to there is answered as promised. *)
LEMMA AnswersWithPrefix ==
  ASSUME TypeOK, NEW n, EndsAt(n), answer = Pending,
         answer' = [status |-> "rows", rows |-> Prefix(n),
                    bytes |-> Bounded!JsonBytes(Prefix(n)), truncated |-> n < Len(source)],
         UNCHANGED given
  PROVE  Bounded!Answer
<1>1. Bounded!IsLongest(Prefix(n)) /\ Prefix(n) \in Bounded!Prefixes(source)
  BY EndIsLongest
<1>2. (n < Len(source)) = (Prefix(n) # source)
  <2>1. source \in Seq(Nat) /\ Len(source) \in Nat /\ n \in 0 .. Len(source)
    BY SourceTyped DEF EndsAt
  <2>2. Len(Prefix(n)) = n
    BY <2>1, SubSeqProperties DEF Prefix
  <2>3. Prefix(Len(source)) = source
    BY <2>1, SubSeqFull DEF Prefix
  <2>. QED BY <2>1, <2>2, <2>3
<1>. QED BY <1>1, <1>2 DEF Bounded!Answer, Bounded!Pending, Pending, given

----------------------------------------------------------------------------

LEMMA GathersInitially == Init => Gathers
<1>. SUFFICES ASSUME Init PROVE Gathers
  OBVIOUS
<1>1. Inv
  BY InitEstablishesInv
<1>2. source \in Seq(Nat) /\ Len(source) \in Nat
  BY <1>1, SourceTyped DEF Inv
<1>3. rows = <<>> /\ Len(rows) = 0 /\ Prefix(0) = <<>>
  BY <1>2 DEF Init, Prefix
<1>4. Bounded!Fits(<<>>) /\ Bounded!JsonBytes(<<>>) = 2
  BY JsonBytesOfNone DEF Bounded!Fits
<1>. QED BY <1>2, <1>3, <1>4 DEF Init, Gathers

(* The row handler gathers the next row of the source, or finds the first  *)
(* that does not fit.                                                      *)
LEMMA RowIsGathered ==
  ASSUME Inv, Gathers, OnRow
  PROVE  Gathers'
<1>1. /\ pc = "stream" /\ recordsetCount = 1 /\ sent < Len(source) /\ sent' = sent + 1
      /\ TakeRow(source[sent + 1])
      /\ UNCHANGED <<given, pc, erred, recordsetCount, streamError>>
  BY DEF OnRow
<1>2. /\ source \in Seq(Nat) /\ Len(source) \in Nat /\ rows \in Seq(Nat) /\ Len(rows) \in Nat
      /\ maxRows \in Nat \ {0} /\ maxBytes \in Nat /\ rowsSeen \in Nat /\ sent \in Nat
      /\ resultBytes \in Nat
  BY <1>1, SourceTyped DEF Inv, Progress, NoCap
<1>3. source' = source /\ maxRows' = maxRows /\ maxBytes' = maxBytes
  BY <1>1 DEF given
<1>5. CASE stopped
  BY <1>1, <1>2, <1>3, <1>5 DEF TakeRow, Ignored, Gathers, EndsAt, Prefix, Bounded!Fits
<1>6. CASE ~stopped
  <2>. DEFINE row == source[sent + 1]
              next == Prefix(sent + 1)
  <2>1. Len(rows) = sent /\ rowsSeen = sent /\ ~truncated /\ rows = Prefix(sent)
    BY <1>6 DEF Gathers
  <2>2. /\ next = Append(rows, row) /\ row \in Nat /\ Len(next) = sent + 1 /\ next # <<>>
    <3>1. /\ Len(Prefix(sent)) = sent /\ row \in Nat
          /\ next = Append(Prefix(sent), row)
      BY <1>1, <1>2, PrefixGrows DEF Prefix
    <3>2. rows = Prefix(sent) /\ next = Append(rows, row)
      BY <2>1, <3>1
    <3>. HIDE DEF next, row
    <3>3. Append(rows, row) # <<>> /\ Len(Append(rows, row)) = Len(rows) + 1
      BY <1>2, <3>1, AppendProperties
    <3>. QED BY <2>1, <3>1, <3>2, <3>3
  <2>3. Bounded!JsonBytes(next) = resultBytes + Separator + row
    <3>1. Bounded!JsonBytes(next) = Bounded!JsonBytes(rows) + (IF rows = <<>> THEN 0 ELSE 1) + row
      BY <1>2, <2>2, JsonBytesOfAppend
    <3>. QED BY <3>1 DEF Separator, Gathers
  <2>4. rowsSeen' = sent + 1
    BY <1>1, <1>6, <2>1 DEF TakeRow
  <2>. HIDE DEF next, row
  <2>5. Bounded!Fits(next) <=> ~(rowsSeen' > maxRows \/ ExceedsBytes(row))
    <3>1. Bounded!Fits(next) <=> /\ maxRows = 0 \/ sent + 1 <= maxRows
                                 /\ maxBytes = 0 \/ Bounded!JsonBytes(next) <= maxBytes
      BY <2>2 DEF Bounded!Fits, Bounded!NoCap
    <3>2. ExceedsBytes(row) <=> maxBytes # 0 /\ Bounded!JsonBytes(next) > maxBytes
      BY <2>3 DEF ExceedsBytes, NoCap
    <3>3. Bounded!JsonBytes(next) \in Nat
      <4>1. Separator \in Nat
        BY DEF Separator
      <4>. QED BY <1>2, <2>2, <2>3, <4>1
    <3>. QED BY <1>2, <2>4, <3>1, <3>2, <3>3
  <2>6. CASE Bounded!Fits(next)
    <3>1. /\ rows' = next /\ resultBytes' = Bounded!JsonBytes(next)
          /\ UNCHANGED <<truncated, stopped>>
      BY <1>1, <1>6, <2>2, <2>3, <2>5, <2>6 DEF TakeRow, row
    <3>2. Bounded!Fits(rows)' /\ resultBytes' = Bounded!JsonBytes(rows)'
      BY <1>3, <2>6, <3>1 DEF Bounded!Fits
    <3>3. rows' = Prefix(Len(rows))' /\ Len(rows') = sent'
      BY <1>1, <1>3, <2>2, <3>1 DEF Prefix, next
    <3>. QED
      BY <1>1, <1>2, <1>3, <1>6, <2>1, <2>4, <3>1, <3>2, <3>3 DEF Gathers
  <2>7. CASE ~Bounded!Fits(next)
    <3>1. UNCHANGED <<rows, resultBytes>> /\ truncated' = TRUE /\ stopped' = TRUE
      BY <1>1, <1>6, <2>5, <2>7 DEF TakeRow, Stop, row
    <3>2. EndsAt(sent)
      BY <1>1, <1>2, <2>1, <2>7 DEF EndsAt, Gathers, next
    <3>3. EndsAt(Len(rows))'
      BY <1>3, <2>1, <3>1, <3>2 DEF EndsAt, Prefix, Bounded!Fits
    <3>4. Bounded!Fits(rows)' /\ resultBytes' = Bounded!JsonBytes(rows)' /\ rows' = Prefix(Len(rows))'
      BY <1>3, <3>1 DEF Gathers, Prefix, Bounded!Fits
    <3>. QED
      BY <1>1, <1>2, <1>3, <2>1, <3>1, <3>3, <3>4 DEF Gathers
  <2>. QED BY <2>6, <2>7
<1>. QED BY <1>5, <1>6

(* The steps that touch neither the rows nor what was sent.                *)
LEMMA OthersKeepGathers ==
  ASSUME Gathers, UNCHANGED <<given, sent, rows, rowsSeen, resultBytes, truncated, stopped>>,
         recordsetCount' = recordsetCount
           \/ (recordsetCount' = 1 /\ recordsetCount = 0)
           \/ (recordsetCount' = 2 /\ sent = Len(source)),
         erred' => stopped \/ streamError',
         pc' = "rollback" => streamError' \/ stopped \/ sent = Len(source)
  PROVE  Gathers'
BY DEF Gathers, EndsAt, Prefix, Bounded!Fits, given

LEMMA NextGathers == Inv /\ Gathers /\ [Next]_vars => Gathers'
<1>1. SUFFICES ASSUME Inv, Gathers, [Next]_vars PROVE Gathers'
  OBVIOUS
<1>. USE DEF given, request, handler
<1>2. CASE OnRow
  BY <1>1, <1>2, RowIsGathered
<1>3. CASE OnLateRow
  <2>1. UNCHANGED <<rows, rowsSeen, resultBytes, truncated, stopped>>
    BY <1>3 DEF OnLateRow, TakeRow, Ignored
  <2>. QED BY <1>1, <1>3, <2>1, OthersKeepGathers DEF OnLateRow, Gathers
<1>4. CASE OnRecordset
  BY <1>1, <1>4, OthersKeepGathers DEF OnRecordset, Gathers, Inv, TypeOK
<1>5. CASE OnCanceled \/ OnError
  BY <1>1, <1>5, OthersKeepGathers DEF OnCanceled, OnError, Gathers
<1>6. CASE QueryResolves \/ QueryRejects
  BY <1>1, <1>6, OthersKeepGathers DEF QueryResolves, QueryRejects, Gathers
<1>7. CASE Describe \/ BeginSucceeds \/ BeginFails \/ Rollback \/ WriteSucceeds \/ WriteFails
  BY <1>1, <1>7, OthersKeepGathers
  DEF Describe, BeginSucceeds, BeginFails, Rollback, WriteSucceeds, WriteFails, Gathers
<1>8. CASE UNCHANGED vars
  BY <1>1, <1>8, OthersKeepGathers DEF vars, Gathers
<1>. QED BY <1>1, <1>2, <1>3, <1>4, <1>5, <1>6, <1>7, <1>8 DEF Next

----------------------------------------------------------------------------

(* The sizes a write counts up are those of the texts of the prefixes.     *)
LEMMA WrittenBytesAre ==
  ASSUME TypeOK
  PROVE  \A n \in 0 .. Len(source) : WrittenBytes[n] = Bounded!JsonBytes(Prefix(n))
<1>. DEFINE size(n) == Bounded!JsonBytes(Prefix(n))
            Counts(g) == g = [n \in 0 .. Len(source) |->
                                IF n = 0 THEN 2
                                ELSE g[n - 1] + (IF n = 1 THEN 0 ELSE 1) + source[n]]
            sizes == [n \in 0 .. Len(source) |-> size(n)]
            N == {n \in Nat : n <= Len(source) => WrittenBytes[n] = size(n)}
<1>1. source \in Seq(Nat) /\ Len(source) \in Nat
  BY SourceTyped
<1>2. size(0) = 2
  <2>1. Prefix(0) = <<>>
    BY <1>1 DEF Prefix
  <2>. QED BY <2>1, JsonBytesOfNone
<1>3. ASSUME NEW n \in 1 .. Len(source)
      PROVE  size(n) = size(n - 1) + (IF n = 1 THEN 0 ELSE 1) + source[n]
  <2>1. n - 1 \in Nat /\ n - 1 < Len(source) /\ (n - 1) + 1 = n
    BY <1>1
  <2>. QED BY <1>1, <2>1, PrefixBytes DEF Prefix
<1>. HIDE DEF size
<1>4. Counts(sizes)
  <2>1. ASSUME NEW n \in 0 .. Len(source)
        PROVE  sizes[n] = IF n = 0 THEN 2 ELSE sizes[n - 1] + (IF n = 1 THEN 0 ELSE 1) + source[n]
    <3>1. CASE n = 0
      BY <1>2, <3>1
    <3>2. CASE n # 0
      <4>1. n \in 1 .. Len(source) /\ n - 1 \in 0 .. Len(source)
        BY <1>1, <3>2
      <4>. QED BY <1>3, <3>2, <4>1
    <3>. QED BY <3>1, <3>2
  <2>. QED BY <2>1
<1>5. Counts(WrittenBytes)
  <2>1. WrittenBytes = CHOOSE g : Counts(g)
    BY DEF WrittenBytes
  <2>. HIDE DEF Counts, sizes
  <2>. QED BY <1>4, <2>1
<1>6. 0 \in N
  BY <1>1, <1>2, <1>5
<1>7. ASSUME NEW n \in N PROVE n + 1 \in N
  <2>1. SUFFICES ASSUME n + 1 <= Len(source) PROVE WrittenBytes[n + 1] = size(n + 1)
    OBVIOUS
  <2>2. n \in Nat /\ n + 1 \in 1 .. Len(source) /\ n + 1 \in 0 .. Len(source)
        /\ (n + 1) - 1 = n /\ n + 1 # 0 /\ WrittenBytes[n] = size(n)
    BY <1>1, <2>1
  <2>3. WrittenBytes[n + 1] =
          WrittenBytes[(n + 1) - 1] + (IF n + 1 = 1 THEN 0 ELSE 1) + source[n + 1]
    BY <1>5, <2>2
  <2>. QED BY <1>3, <2>2, <2>3
<1>8. Nat \subseteq N
  <2>. HIDE DEF N
  <2>. QED BY <1>6, <1>7, Induction
<1>. QED BY <1>1, <1>8 DEF size

(* buildBoundedRows breaks at the first row that does not fit.             *)
LEMMA WrittenRowsEnd ==
  ASSUME TypeOK, maxRows = NoCap
  PROVE  EndsAt(WrittenRows) /\ WrittenBytes[WrittenRows] = Bounded!JsonBytes(Prefix(WrittenRows))
<1>. DEFINE Breaks(n) == /\ \A i \in 1 .. n : maxBytes = NoCap \/ WrittenBytes[i] <= maxBytes
                         /\ n < Len(source) => maxBytes # NoCap /\ WrittenBytes[n + 1] > maxBytes
            size(n) == Bounded!JsonBytes(Prefix(n))
<1>1. source \in Seq(Nat) /\ Len(source) \in Nat /\ maxBytes \in Nat
  BY SourceTyped
<1>2. \A n \in 0 .. Len(source) : WrittenBytes[n] = size(n) /\ size(n) \in Nat
  <2>1. \A n \in 0 .. Len(source) : size(n) \in Nat
    BY <1>1, LongerIsLarger DEF Prefix
  <2>. QED BY <2>1, WrittenBytesAre
<1>3. \E n \in 0 .. Len(source) : Breaks(n)
  <2>. DEFINE Over == {n \in 0 .. Len(source) :
                         n < Len(source) => maxBytes # NoCap /\ WrittenBytes[n + 1] > maxBytes}
  <2>1. Over \in SUBSET Nat /\ Over # {}
    <3>1. Len(source) \in Over
      BY <1>1
    <3>. QED BY <3>1
  <2>2. PICK n \in Over : \A m \in Over : n <= m
    <3>. HIDE DEF Over
    <3>. QED BY <2>1, LeastNatural
  <2>3. ASSUME NEW i \in 1 .. n, maxBytes # NoCap PROVE WrittenBytes[i] <= maxBytes
    <3>1. i - 1 \in 0 .. Len(source) /\ i - 1 < n /\ i - 1 < Len(source) /\ (i - 1) + 1 = i
          /\ i \in 0 .. Len(source)
      BY <1>1
    <3>2. i - 1 \notin Over
      <4>1. ~(n <= i - 1)
        BY <3>1
      <4>. HIDE DEF Over
      <4>. QED BY <2>2, <4>1
    <3>3. WrittenBytes[i] \in Nat
      BY <1>2, <3>1
    <3>. QED BY <1>1, <2>3, <3>1, <3>2, <3>3
  <2>. QED BY <2>2, <2>3
<1>4. WrittenRows \in 0 .. Len(source) /\ Breaks(WrittenRows)
  <2>1. WrittenRows = CHOOSE n \in 0 .. Len(source) : Breaks(n)
    BY DEF WrittenRows
  <2>. HIDE DEF Breaks
  <2>. QED BY <1>3, <2>1
<1>. DEFINE n == WrittenRows
<1>5. \A m \in 0 .. Len(source) : Len(Prefix(m)) = m /\ (Prefix(m) = <<>> <=> m = 0)
  <2>1. \A m \in 0 .. Len(source) : Prefix(m) \in Seq(Nat) /\ Len(Prefix(m)) = m
    BY <1>1, SubSeqProperties DEF Prefix
  <2>. QED BY <2>1, EmptySeq
<1>. HIDE DEF size, n
<1>6. n \in 0 .. Len(source) /\ Breaks(n)
  BY <1>4 DEF n
<1>7. Bounded!Fits(Prefix(n))
  <2>1. n # 0 => maxBytes = NoCap \/ size(n) <= maxBytes
    <3>1. SUFFICES ASSUME n # 0, maxBytes # NoCap PROVE size(n) <= maxBytes
      OBVIOUS
    <3>2. n \in 1 .. n
      BY <1>1, <1>6, <3>1
    <3>. QED BY <1>2, <1>6, <3>1, <3>2
  <2>. QED BY <1>5, <1>6, <2>1 DEF Bounded!Fits, Bounded!NoCap, NoCap, size
<1>8. ASSUME n < Len(source) PROVE ~Bounded!Fits(Prefix(n + 1))
  <2>1. n + 1 \in 0 .. Len(source) /\ n + 1 # 0
    BY <1>1, <1>6, <1>8
  <2>2. maxBytes # NoCap /\ size(n + 1) > maxBytes
    BY <1>2, <1>6, <1>8, <2>1
  <2>3. size(n + 1) \in Nat /\ ~(size(n + 1) <= maxBytes)
    BY <1>1, <1>2, <2>1, <2>2
  <2>. QED BY <1>5, <2>1, <2>2, <2>3 DEF Bounded!Fits, Bounded!NoCap, NoCap, size
<1>. QED BY <1>2, <1>6, <1>7, <1>8 DEF EndsAt, size, n

----------------------------------------------------------------------------
(* The refinement.                                                         *)

(* A step that answers a statement answers as promised.                    *)
LEMMA StepAnswersBounded ==
  Inv /\ Gathers /\ [Next]_vars
    => Bounded!Answer \/ Bounded!Fail \/ UNCHANGED <<source, maxRows, maxBytes, answer>>
<1>1. SUFFICES ASSUME Inv, Gathers, [Next]_vars
               PROVE  \/ Bounded!Answer \/ Bounded!Fail
                      \/ UNCHANGED <<source, maxRows, maxBytes, answer>>
  OBVIOUS
<1>2. CASE Rollback
  <2>1. answer = Pending /\ answer' = Outcome /\ UNCHANGED given
    BY <1>1, <1>2 DEF Rollback, Inv, Progress
  <2>2. CASE streamError
    BY <2>1, <2>2 DEF Outcome, Bounded!Fail, Bounded!Pending, Bounded!Failed, Pending, Failed, given
  <2>3. CASE ~streamError
    <3>1. stopped \/ sent = Len(source)
      BY <1>1, <1>2, <2>3 DEF Rollback, Gathers
    <3>2. EndsAt(Len(rows)) /\ truncated = (Len(rows) < Len(source))
      BY <1>1, <3>1, SourceTyped DEF Gathers, EndsAt, Inv, TypeOK
    <3>3. answer' = [status |-> "rows", rows |-> Prefix(Len(rows)),
                     bytes |-> Bounded!JsonBytes(Prefix(Len(rows))),
                     truncated |-> Len(rows) < Len(source)]
      BY <1>1, <2>1, <2>3, <3>2 DEF Outcome, Gathers
    <3>. QED BY <1>1, <2>1, <3>2, <3>3, AnswersWithPrefix DEF Inv
  <2>. QED BY <2>2, <2>3
<1>3. CASE WriteSucceeds
  <2>1. /\ answer = Pending /\ UNCHANGED given
        /\ answer' = [status |-> "rows", rows |-> Prefix(WrittenRows),
                      bytes |-> WrittenBytes[WrittenRows], truncated |-> WrittenRows < Len(source)]
    BY <1>1, <1>3 DEF WriteSucceeds, Inv, Progress, Prefix
  <2>2. maxRows = NoCap
    BY <1>1, <1>3 DEF WriteSucceeds, Inv, Progress
  <2>3. EndsAt(WrittenRows) /\ WrittenBytes[WrittenRows] = Bounded!JsonBytes(Prefix(WrittenRows))
    BY <1>1, <2>2, WrittenRowsEnd DEF Inv
  <2>. QED BY <1>1, <2>1, <2>3, AnswersWithPrefix DEF Inv
<1>4. CASE BeginFails \/ WriteFails
  BY <1>1, <1>4
  DEF BeginFails, WriteFails, Inv, Progress, Bounded!Fail, Bounded!Pending, Bounded!Failed,
      Pending, Failed, given
<1>5. CASE \/ Describe \/ BeginSucceeds \/ OnRecordset \/ OnRow \/ OnLateRow \/ OnCanceled
           \/ OnError \/ QueryResolves \/ QueryRejects \/ UNCHANGED vars
  BY <1>5
  DEF Describe, BeginSucceeds, OnRecordset, OnRow, OnLateRow, OnCanceled, OnError,
      QueryResolves, QueryRejects, vars, given
<1>. QED BY <1>1, <1>2, <1>3, <1>4, <1>5 DEF Next

(* Whatever the order of the events, and for all caps and recordsets, a    *)
(* read and a write are answered once, with the longest prefix of their    *)
(* rows that keeps to the caps, its exact size and whether rows are        *)
(* missing, or they fail: executeSqlServerRead and -Write implement        *)
(* BoundedRows.                                                            *)
THEOREM ImplementsBoundedRows == Spec => AnswersBounded
<1>1. Init => Bounded!Init
  BY DEF Init, Bounded!Init, Bounded!Pending, Pending
<1>2. Spec => []Gathers
  BY Invariance, GathersInitially, NextGathers, PTL DEF Spec
<1>3. Inv /\ Gathers /\ [Next]_vars
        => [Bounded!Answer \/ Bounded!Fail]_<<source, maxRows, maxBytes, answer>>
  BY StepAnswersBounded
<1>. QED BY <1>1, <1>2, <1>3, Invariance, PTL DEF Spec, AnswersBounded, Bounded!Spec

=============================================================================
