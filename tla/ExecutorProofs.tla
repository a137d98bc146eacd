---------------------------- MODULE ExecutorProofs ----------------------------
(***************************************************************************)
(* Facts about the transactions of an epoch, their ids and version chains  *)
(* (module Transactions), and about the executor, for every set of         *)
(* servers, keys and contents.  The proofs about the epochs rest on them.  *)
(***************************************************************************)
EXTENDS Executor, WellFoundedInduction, TLAPS

------------------------------------------------------------------------------
(* Least and greatest numbers. *)

\* A set of natural numbers that is not empty has a least element.
LEMMA LeastNatural ==
  ASSUME NEW S \in SUBSET Nat, S # {}
  PROVE  \E m \in S : \A n \in S : m <= n
<1> DEFINE R == OpToRel(<, Nat)
<1>1. IsWellFoundedOn(R, Nat)
  BY NatLessThanWellFounded
<1>2. PICK m \in S : \A n \in S : <<n, m>> \notin R
  <2> HIDE DEF R
  <2> QED BY <1>1, WFMin
<1>3. \A n \in S : n < m => <<n, m>> \in R
  BY DEF OpToRel
<1> HIDE DEF R
<1>4. \A n \in S : n \in Nat /\ m \in Nat /\ ~ (n < m)
  BY <1>2, <1>3
<1> QED BY <1>4

\* Induction, over the numbers up to a bound, for a property given as a set.
LEMMA InductionUpTo ==
  ASSUME NEW S, NEW n \in Nat, 0 \in S,
         \A i \in 0 .. n - 1 : i \in S => i + 1 \in S
  PROVE  0 .. n \subseteq S
<1> DEFINE Bad == (0 .. n) \ S
<1>1. SUFFICES ASSUME Bad # {} PROVE FALSE
  OBVIOUS
<1>2. PICK m \in Bad : \A k \in Bad : m <= k
  <2>1. Bad \in SUBSET Nat
    OBVIOUS
  <2> QED BY <1>1, <2>1, LeastNatural
<1>3. m \in Nat /\ m # 0 /\ m <= n
  OBVIOUS
<1>4. m - 1 \in 0 .. n - 1 /\ m - 1 \notin Bad
  BY <1>2, <1>3
<1>5. m - 1 \in S
  BY <1>4
<1> QED BY <1>3, <1>4, <1>5

\* A bounded one has a greatest.
LEMMA GreatestNatural ==
  ASSUME NEW S \in SUBSET Nat, S # {}, NEW b \in Nat, \A n \in S : n <= b
  PROVE  \E m \in S : \A n \in S : n <= m
<1> DEFINE T == {k \in 0 .. b : b - k \in S}
<1>1. PICK n \in S : TRUE
  OBVIOUS
<1>2. n \in Nat /\ n <= b /\ b - n \in 0 .. b /\ b - (b - n) = n
  OBVIOUS
<1>3. b - n \in T /\ T \in SUBSET Nat
  BY <1>2
<1>4. PICK k \in T : \A l \in T : k <= l
  BY <1>3, LeastNatural
<1>5. ASSUME NEW x \in S PROVE x <= b - k
  <2>1. x \in Nat /\ x <= b /\ b - x \in 0 .. b /\ b - (b - x) = x
    OBVIOUS
  <2>2. k <= b - x
    BY <2>1, <1>4
  <2> QED BY <2>1, <2>2
<1> QED BY <1>5

------------------------------------------------------------------------------
(* Ids. *)

\* The running count of operations is what its recursive definition says.
LEMMA OpsBeforeStep ==
  ASSUME NEW X, NEW batch \in Seq(X), \A i \in DOMAIN batch : Len(batch[i].operations) \in Nat
  PROVE  /\ OpsBefore(batch, 1) = 0
         /\ \A i \in 1 .. Len(batch) :
              OpsBefore(batch, i + 1) = OpsBefore(batch, i) + Len(batch[i].operations)
         /\ \A i \in 1 .. Len(batch) + 1 : OpsBefore(batch, i) \in Nat
<1> DEFINE N == Len(batch)
           Counts(s, n) ==
             /\ s \in [0 .. n -> Nat]
             /\ s = [i \in 0 .. n |->
                       IF i = 0 THEN 0 ELSE s[i - 1] + Len(batch[i].operations)]
           S == {n \in 0 .. N : \E s \in [0 .. n -> Nat] : Counts(s, n)}
<1>1. N \in Nat /\ DOMAIN batch = 1 .. N
  OBVIOUS
<1>2. 0 \in S
  <2> DEFINE s == [i \in 0 .. 0 |-> 0]
  <2>1. s \in [0 .. 0 -> Nat] /\ Counts(s, 0)
    OBVIOUS
  <2>2. 0 \in 0 .. N
    BY <1>1
  <2> HIDE DEF s, Counts, N
  <2> QED BY <2>1, <2>2
<1>3. ASSUME NEW n \in 0 .. N - 1, n \in S PROVE n + 1 \in S
  <2>1. PICK s \in [0 .. n -> Nat] : Counts(s, n)
    BY <1>3
  <2> DEFINE t == [i \in 0 .. n + 1 |->
                     IF i = n + 1 THEN s[n] + Len(batch[n + 1].operations) ELSE s[i]]
  <2>2. Len(batch[n + 1].operations) \in Nat /\ n \in Nat
    BY <1>1
  <2>3. t \in [0 .. n + 1 -> Nat]
    BY <2>2
  <2>4. ASSUME NEW i \in 0 .. n + 1
        PROVE  t[i] = IF i = 0 THEN 0 ELSE t[i - 1] + Len(batch[i].operations)
    BY <2>1, <2>2
  <2>5. Counts(t, n + 1)
    <3> HIDE DEF t
    <3> QED BY <2>3, <2>4
  <2>6. n + 1 \in 0 .. N
    BY <1>1
  <2> HIDE DEF t, Counts, N
  <2> QED BY <2>3, <2>5, <2>6
<1>4. N \in S
  <2>1. N \in 0 .. N
    BY <1>1
  <2> HIDE DEF S, N
  <2> QED BY <2>1, <1>1, <1>2, <1>3, InductionUpTo
<1> DEFINE before == CHOOSE s : s = [i \in 0 .. N |->
                       IF i = 0 THEN 0 ELSE s[i - 1] + Len(batch[i].operations)]
<1>5. PICK s \in [0 .. N -> Nat] : Counts(s, N)
  BY <1>4
<1>6. before = [i \in 0 .. N |->
                  IF i = 0 THEN 0 ELSE before[i - 1] + Len(batch[i].operations)]
  BY <1>5
<1>7. \A i : OpsBefore(batch, i) = before[i - 1]
  BY DEF OpsBefore
<1> HIDE DEF before
<1>8. before[0] = 0 /\ \A i \in 1 .. N : before[i] = before[i - 1] + Len(batch[i].operations)
  BY <1>1, <1>6
<1>9. \A i \in 0 .. N : before[i] \in Nat
  <2> DEFINE P == {i \in 0 .. N : before[i] \in Nat}
  <2>1. 0 \in P
    BY <1>1, <1>8
  <2>2. ASSUME NEW i \in 0 .. N - 1, i \in P PROVE i + 1 \in P
    BY <1>1, <1>8, <2>2
  <2> HIDE DEF P
  <2>3. 0 .. N \subseteq P
    BY <1>1, <2>1, <2>2, InductionUpTo
  <2> QED BY <2>3 DEF P
<1> QED BY <1>1, <1>7, <1>8, <1>9

\* The count grows by at least the operations of a transaction.
LEMMA OpsBeforeGrows ==
  ASSUME NEW X, NEW batch \in Seq(X), \A i \in DOMAIN batch : Len(batch[i].operations) \in Nat,
         NEW i \in DOMAIN batch
  PROVE  \A k \in i + 1 .. Len(batch) + 1 :
           OpsBefore(batch, i) + Len(batch[i].operations) <= OpsBefore(batch, k)
<1> DEFINE N == Len(batch)
           before(k) == OpsBefore(batch, k)
           Over == {n \in 0 .. N - i : before(i) + Len(batch[i].operations) <= before(i + 1 + n)}
<1>1. N \in Nat /\ i \in 1 .. N /\ N - i \in Nat /\ DOMAIN batch = 1 .. N
  OBVIOUS
<1>2. /\ \A k \in 1 .. N : before(k + 1) = before(k) + Len(batch[k].operations)
      /\ \A k \in 1 .. N + 1 : before(k) \in Nat
  BY OpsBeforeStep
<1>3. \A k \in 1 .. N : Len(batch[k].operations) \in Nat
  BY <1>1
<1> HIDE DEF before, N
<1>4. 0 \in Over
  BY <1>1, <1>2, <1>3
<1>5. ASSUME NEW n \in 0 .. N - i - 1, n \in Over PROVE n + 1 \in Over
  <2>1. n \in Nat /\ i \in Nat /\ i + 1 + n \in 1 .. N /\ i + 1 + n + 1 \in 1 .. N + 1
        /\ n + 1 \in 0 .. N - i
    BY <1>1
  <2>2. before(i + 1 + n + 1) = before(i + 1 + n) + Len(batch[i + 1 + n].operations)
    BY <2>1, <1>2
  <2>3. i + 1 + (n + 1) = i + 1 + n + 1
    BY <2>1
  <2>4. /\ before(i + 1 + n) \in Nat /\ before(i) \in Nat /\ before(i + 1 + n + 1) \in Nat
        /\ Len(batch[i].operations) \in Nat /\ Len(batch[i + 1 + n].operations) \in Nat
    BY <2>1, <1>1, <1>2, <1>3
  <2>5. before(i) + Len(batch[i].operations) <= before(i + 1 + n)
    BY <1>5
  <2>6. before(i) + Len(batch[i].operations) <= before(i + 1 + n + 1)
    <3> DEFINE x == before(i) + Len(batch[i].operations)
               y == before(i + 1 + n)
               z == before(i + 1 + n + 1)
               w == Len(batch[i + 1 + n].operations)
    <3>1. x \in Nat /\ y \in Nat /\ z \in Nat /\ w \in Nat /\ x <= y /\ z = y + w
      BY <2>2, <2>4, <2>5
    <3> HIDE DEF x, y, z, w
    <3>2. x <= z
      BY <3>1
    <3> QED BY <3>2 DEF x, z
  <2> QED BY <2>1, <2>3, <2>6
<1>6. 0 .. N - i \subseteq Over
  <2>1. N - i - 1 = (N - i) - 1
    BY <1>1
  <2> HIDE DEF Over
  <2> QED BY <1>1, <1>4, <1>5, <2>1, InductionUpTo
<1>7. ASSUME NEW k \in i + 1 .. N + 1
      PROVE  before(i) + Len(batch[i].operations) <= before(k)
  <2>1. k - i - 1 \in 0 .. N - i /\ i + 1 + (k - i - 1) = k
    BY <1>1
  <2>2. k - i - 1 \in Over
    BY <2>1, <1>6
  <2> QED BY <2>1, <2>2
<1> QED BY <1>7 DEF N, before

\* It depends on the numbers of operations only.
LEMMA OpsBeforeSame ==
  ASSUME NEW X, NEW a \in Seq(X), \A i \in DOMAIN a : Len(a[i].operations) \in Nat,
         NEW Y, NEW b \in Seq(Y), \A i \in DOMAIN b : Len(b[i].operations) \in Nat,
         NEW n \in Nat, n <= Len(a), n <= Len(b),
         \A i \in 1 .. n : Len(a[i].operations) = Len(b[i].operations)
  PROVE  \A i \in 1 .. n + 1 : OpsBefore(a, i) = OpsBefore(b, i)
<1> DEFINE Same == {i \in 0 .. n : OpsBefore(a, i + 1) = OpsBefore(b, i + 1)}
<1>1. /\ OpsBefore(a, 1) = 0
      /\ \A i \in 1 .. Len(a) : OpsBefore(a, i + 1) = OpsBefore(a, i) + Len(a[i].operations)
  BY OpsBeforeStep
<1>2. /\ OpsBefore(b, 1) = 0
      /\ \A i \in 1 .. Len(b) : OpsBefore(b, i + 1) = OpsBefore(b, i) + Len(b[i].operations)
  BY OpsBeforeStep
<1>3. 0 \in Same
  BY <1>1, <1>2
<1>4. ASSUME NEW i \in 0 .. n - 1, i \in Same PROVE i + 1 \in Same
  <2>1. i + 1 \in 0 .. n /\ i + 1 \in 1 .. n /\ i + 1 \in 1 .. Len(a) /\ i + 1 \in 1 .. Len(b)
    OBVIOUS
  <2>2. OpsBefore(a, i + 1) = OpsBefore(b, i + 1)
    BY <1>4
  <2>3. OpsBefore(a, i + 1 + 1) = OpsBefore(b, i + 1 + 1)
    BY <1>1, <1>2, <2>1, <2>2
  <2> QED BY <2>1, <2>3
<1>5. 0 .. n \subseteq Same
  <2> HIDE DEF Same
  <2> QED BY <1>3, <1>4, InductionUpTo
<1>6. ASSUME NEW i \in 1 .. n + 1 PROVE OpsBefore(a, i) = OpsBefore(b, i)
  <2>1. i - 1 \in 0 .. n /\ i - 1 + 1 = i
    OBVIOUS
  <2>2. i - 1 \in Same
    BY <2>1, <1>5
  <2> QED BY <2>1, <2>2
<1> QED BY <1>6

\* The elements of a concatenation.
LEMMA Concatenation ==
  ASSUME NEW X, NEW a \in Seq(X), NEW b \in Seq(X)
  PROVE  /\ a \o b \in Seq(X)
         /\ Len(a) \in Nat /\ Len(b) \in Nat /\ Len(a \o b) = Len(a) + Len(b)
         /\ DOMAIN a = 1 .. Len(a) /\ DOMAIN b = 1 .. Len(b)
         /\ DOMAIN (a \o b) = 1 .. Len(a) + Len(b)
         /\ \A i \in 1 .. Len(a) : (a \o b)[i] = a[i]
         /\ \A i \in 1 .. Len(b) : (a \o b)[Len(a) + i] = b[i]
OBVIOUS

\* Over a concatenation it goes on.
LEMMA OpsBeforeConcat ==
  ASSUME NEW X, NEW a \in Seq(X), \A i \in DOMAIN a : Len(a[i].operations) \in Nat,
         NEW b \in Seq(X), \A i \in DOMAIN b : Len(b[i].operations) \in Nat
  PROVE  /\ \A i \in 1 .. Len(a) + 1 : OpsBefore(a \o b, i) = OpsBefore(a, i)
         /\ \A i \in 1 .. Len(b) + 1 :
              OpsBefore(a \o b, Len(a) + i) = OpsBefore(a, Len(a) + 1) + OpsBefore(b, i)
<1> DEFINE c == a \o b
           A == Len(a)
           B == Len(b)
           Joint == {i \in 0 .. B :
                       OpsBefore(c, A + (i + 1)) = OpsBefore(a, A + 1) + OpsBefore(b, i + 1)}
<1>1. /\ c \in Seq(X) /\ A \in Nat /\ B \in Nat /\ Len(c) = A + B
      /\ \A i \in 1 .. A : c[i] = a[i]
      /\ \A i \in 1 .. B : c[A + i] = b[i]
  OBVIOUS
<1>2. \A i \in DOMAIN c : Len(c[i].operations) \in Nat
  <2>1. ASSUME NEW i \in DOMAIN c PROVE Len(c[i].operations) \in Nat
    <3>1. CASE i \in 1 .. A
      BY <3>1, <1>1
    <3>2. CASE i \notin 1 .. A
      <4>1. i - A \in 1 .. B /\ A + (i - A) = i
        BY <1>1, <3>2
      <4> QED BY <1>1, <4>1
    <3> QED BY <3>1, <3>2
  <2> QED BY <2>1
<1> HIDE DEF c
<1>3. \A i \in 1 .. A + 1 : OpsBefore(c, i) = OpsBefore(a, i)
  <2>1. A <= Len(c) /\ \A i \in 1 .. A : Len(c[i].operations) = Len(a[i].operations)
    BY <1>1
  <2>2. \A i \in 1 .. A : Len(c[i].operations) = Len(a[i].operations)
    BY <2>1
  <2> HIDE DEF A
  <2>3. A <= Len(a)
    BY <1>1 DEF A
  <2> QED BY <1>1, <1>2, <2>1, <2>2, <2>3, OpsBeforeSame
<1>4. \A i \in 1 .. A + B : OpsBefore(c, i + 1) = OpsBefore(c, i) + Len(c[i].operations)
  BY <1>1, <1>2, OpsBeforeStep
<1>5. /\ OpsBefore(b, 1) = 0
      /\ \A i \in 1 .. B : OpsBefore(b, i + 1) = OpsBefore(b, i) + Len(b[i].operations)
      /\ \A i \in 1 .. B + 1 : OpsBefore(b, i) \in Nat
  BY OpsBeforeStep
<1>6. OpsBefore(a, A + 1) \in Nat
  BY <1>1, OpsBeforeStep
<1>7. 0 \in Joint
  <2>1. A + (0 + 1) = A + 1 /\ A + 1 \in 1 .. A + 1 /\ 0 + 1 = 1 /\ 0 \in 0 .. B
    BY <1>1
  <2>2. OpsBefore(c, A + 1) = OpsBefore(a, A + 1) + 0
    BY <2>1, <1>3, <1>6
  <2> HIDE DEF A, B
  <2> QED BY <2>1, <2>2, <1>5
<1>8. ASSUME NEW i \in 0 .. B - 1, i \in Joint PROVE i + 1 \in Joint
  <2>1. /\ i + 1 \in 0 .. B /\ i + 1 \in 1 .. B /\ A + (i + 1) \in 1 .. A + B
        /\ A + (i + 1) + 1 = A + (i + 1 + 1) /\ i + 1 \in 1 .. B + 1
    BY <1>1
  <2>2. OpsBefore(c, A + (i + 1)) = OpsBefore(a, A + 1) + OpsBefore(b, i + 1)
    BY <1>8
  <2>3. Len(c[A + (i + 1)].operations) = Len(b[i + 1].operations)
        /\ Len(b[i + 1].operations) \in Nat
    <3>1. c[A + (i + 1)] = b[i + 1]
      BY <2>1, <1>1
    <3>2. i + 1 \in DOMAIN b
      BY <2>1
    <3> QED BY <3>1, <3>2
  <2> HIDE DEF A, B
  <2>4. OpsBefore(c, A + (i + 1) + 1) = OpsBefore(c, A + (i + 1)) + Len(b[i + 1].operations)
    BY <2>1, <2>3, <1>4
  <2>5. OpsBefore(b, i + 1 + 1) = OpsBefore(b, i + 1) + Len(b[i + 1].operations)
    BY <2>1, <1>5
  <2>6. OpsBefore(c, A + (i + 1 + 1)) = OpsBefore(a, A + 1) + OpsBefore(b, i + 1 + 1)
    BY <2>1, <2>2, <2>3, <2>4, <2>5, <1>5, <1>6
  <2> QED BY <2>1, <2>6
<1>9. 0 .. B \subseteq Joint
  <2>1. B \in Nat
    BY <1>1
  <2> HIDE DEF Joint, B
  <2> QED BY <1>7, <1>8, <2>1, InductionUpTo
<1>10. ASSUME NEW i \in 1 .. B + 1
       PROVE  OpsBefore(c, A + i) = OpsBefore(a, A + 1) + OpsBefore(b, i)
  <2>1. i - 1 \in 0 .. B /\ i - 1 + 1 = i
    BY <1>1
  <2>2. i - 1 \in Joint
    BY <2>1, <1>9
  <2> QED BY <2>1, <2>2
<1> QED BY <1>3, <1>10 DEF c

\* An operation, and a transaction, with their ids.
NumberedOps ==
  [type : {"READ"}, key : Keys, val : {None}, ts : Nat, goid : Nat]
    \cup [type : {"UPDATE", "INSERT"}, key : Keys, val : Values, ts : Nat, goid : Nat]
NumberedTxns == [ts : Nat, last_one : BOOLEAN, operations : Seq(NumberedOps)]

\* An epoch: the transactions, and all operations together, are numbered from 0.
WellNumbered(txns) ==
  /\ txns \in Seq(NumberedTxns)
  /\ \A i \in DOMAIN txns :
       /\ txns[i].ts = i - 1
       /\ \A j \in DOMAIN txns[i].operations :
            /\ txns[i].operations[j].ts = i - 1
            /\ txns[i].operations[j].goid = OpsBefore(txns, i) + j - 1

\* What the numbers mean for a set of operations: finitely many, no two with one id, and
\* ids in the order of the timestamps.
Numbered(ops) ==
  /\ ops \subseteq NumberedOps
  /\ \E n \in Nat : \A o \in ops : o.goid <= n
  /\ \A o, p \in ops : o.goid = p.goid => o = p
  /\ \A o, p \in ops : o.ts < p.ts => o.goid < p.goid

\* A numbered transaction has a number of operations.
LEMMA NumberedLengths ==
  ASSUME NEW txns \in Seq(NumberedTxns)
  PROVE  \A i \in DOMAIN txns : txns[i].operations \in Seq(NumberedOps)
                             /\ Len(txns[i].operations) \in Nat
<1> SUFFICES ASSUME NEW i \in DOMAIN txns
             PROVE  txns[i].operations \in Seq(NumberedOps) /\ Len(txns[i].operations) \in Nat
  OBVIOUS
<1>1. txns[i] \in NumberedTxns
  OBVIOUS
<1>2. txns[i].operations \in Seq(NumberedOps)
  BY <1>1 DEF NumberedTxns
<1> QED BY <1>2

\* The operations of an epoch are a numbered set.
LEMMA EpochIsNumbered ==
  ASSUME NEW txns, WellNumbered(txns)
  PROVE  Numbered(Ops(txns))
<1> DEFINE N == Len(txns)
           At(i, j) == txns[i].operations[j]
<1>1. /\ txns \in Seq(NumberedTxns) /\ N \in Nat /\ DOMAIN txns = 1 .. N
      /\ \A i \in 1 .. N : /\ txns[i].operations \in Seq(NumberedOps)
                          /\ Len(txns[i].operations) \in Nat
                          /\ DOMAIN txns[i].operations = 1 .. Len(txns[i].operations)
  <2>1. txns \in Seq(NumberedTxns)
    BY DEF WellNumbered
  <2>2. N \in Nat /\ DOMAIN txns = 1 .. N
    BY <2>1
  <2> QED BY <2>1, <2>2, NumberedLengths
<1>2. \A i \in 1 .. N : \A j \in DOMAIN txns[i].operations :
        At(i, j).ts = i - 1 /\ At(i, j).goid = OpsBefore(txns, i) + j - 1
  BY <1>1 DEF WellNumbered
<1>3. \A o \in Ops(txns) : \E i \in 1 .. N : \E j \in DOMAIN txns[i].operations : o = At(i, j)
  BY <1>1 DEF Ops, OpsOf, Range
<1>4. \A i \in 1 .. N + 1 : OpsBefore(txns, i) \in Nat
  BY <1>1, OpsBeforeStep
<1>5. ASSUME NEW i \in 1 .. N, NEW j \in DOMAIN txns[i].operations,
             NEW k \in i + 1 .. N + 1
      PROVE  At(i, j).goid < OpsBefore(txns, k)
  <2>1. OpsBefore(txns, i) + Len(txns[i].operations) <= OpsBefore(txns, k)
    BY <1>1, OpsBeforeGrows
  <2>2. At(i, j).goid = OpsBefore(txns, i) + j - 1 /\ j \in 1 .. Len(txns[i].operations)
    BY <1>1, <1>2
  <2>3. OpsBefore(txns, i) \in Nat /\ OpsBefore(txns, k) \in Nat /\ Len(txns[i].operations) \in Nat
    BY <1>1, <1>4
  <2> HIDE DEF At
  <2> QED BY <2>1, <2>2, <2>3
<1>6. ASSUME NEW i \in 1 .. N, NEW j \in DOMAIN txns[i].operations,
             NEW k \in 1 .. N, NEW l \in DOMAIN txns[k].operations, i < k
      PROVE  At(i, j).goid < At(k, l).goid
  <2>1. At(i, j).goid < OpsBefore(txns, k)
    BY <1>1, <1>5, <1>6
  <2>2. At(k, l).goid = OpsBefore(txns, k) + l - 1 /\ l \in 1 .. Len(txns[k].operations)
    BY <1>1, <1>2
  <2>3. At(i, j).goid \in Int
    BY <1>1, <1>2, <1>4
  <2> HIDE DEF At
  <2> QED BY <2>1, <2>2, <2>3, <1>1, <1>4
<1>7. Ops(txns) \subseteq NumberedOps
  <2>1. ASSUME NEW i \in 1 .. N, NEW j \in DOMAIN txns[i].operations PROVE At(i, j) \in NumberedOps
    BY <1>1
  <2> QED BY <1>3, <2>1
<1>8. \A o \in Ops(txns) : o.goid <= OpsBefore(txns, N + 1)
  <2>1. ASSUME NEW o \in Ops(txns) PROVE o.goid <= OpsBefore(txns, N + 1)
    <3>1. PICK i \in 1 .. N : \E j \in DOMAIN txns[i].operations : o = At(i, j)
      BY <1>3
    <3>2. PICK j \in DOMAIN txns[i].operations : o = At(i, j)
      BY <3>1
    <3>3. N + 1 \in i + 1 .. N + 1
      BY <1>1
    <3>4. o.goid < OpsBefore(txns, N + 1)
      BY <3>2, <3>3, <1>5
    <3>5. o.goid \in Nat
      BY <1>7 DEF NumberedOps
    <3> QED BY <1>1, <1>4, <3>4, <3>5
  <2> QED BY <2>1
<1>9. ASSUME NEW o \in Ops(txns), NEW p \in Ops(txns)
      PROVE  /\ o.goid = p.goid => o = p
             /\ o.ts < p.ts => o.goid < p.goid
  <2>1. PICK i \in 1 .. N : \E j \in DOMAIN txns[i].operations : o = At(i, j)
    BY <1>3
  <2>2. PICK j \in DOMAIN txns[i].operations : o = At(i, j)
    BY <2>1
  <2>3. PICK k \in 1 .. N : \E l \in DOMAIN txns[k].operations : p = At(k, l)
    BY <1>3
  <2>4. PICK l \in DOMAIN txns[k].operations : p = At(k, l)
    BY <2>3
  <2>5. o.ts = i - 1 /\ p.ts = k - 1 /\ o.goid \in Nat /\ p.goid \in Nat
    BY <2>2, <2>4, <1>2, <1>7 DEF NumberedOps
  <2>6. CASE i < k
    <3>1. o.goid < p.goid
      BY <2>2, <2>4, <2>6, <1>6
    <3> QED BY <3>1, <2>5
  <2>7. CASE k < i
    <3>1. p.goid < o.goid
      BY <2>2, <2>4, <2>7, <1>6
    <3> QED BY <3>1, <2>5, <2>7
  <2>8. CASE i = k
    <3>1. o.goid = OpsBefore(txns, i) + j - 1 /\ p.goid = OpsBefore(txns, i) + l - 1
      BY <2>2, <2>4, <2>8, <1>2
    <3>2. j \in Nat /\ l \in Nat /\ OpsBefore(txns, i) \in Nat
      BY <1>1, <1>4, <2>8
    <3>3. o.goid = p.goid => j = l
      BY <3>1, <3>2
    <3> QED BY <3>3, <2>2, <2>4, <2>5, <2>8
  <2> QED BY <2>6, <2>7, <2>8
<1> QED BY <1>1, <1>4, <1>7, <1>8, <1>9 DEF Numbered

\* So are some of them.
LEMMA SubsetIsNumbered ==
  ASSUME NEW ops, Numbered(ops), NEW some \in SUBSET ops
  PROVE  Numbered(some)
BY DEF Numbered

\* What AssignIds returns.
IsNumbering(txns, batch, ts, goid) ==
  /\ txns \in Seq(NumberedTxns)
  /\ Len(txns) = Len(batch)
  /\ \A i \in DOMAIN batch :
       /\ Len(batch[i].operations) \in Nat
       /\ Len(txns[i].operations) = Len(batch[i].operations)
       /\ txns[i].ts = ts + i - 1
       /\ \A j \in 1 .. Len(batch[i].operations) :
            LET op == txns[i].operations[j] IN
            op.ts = ts + i - 1 /\ op.goid = goid + OpsBefore(batch, i) + j - 1

\* The numbers and types of what AssignIds makes of submissions.
LEMMA AssignIdsType ==
  ASSUME NEW X, NEW batch \in Seq(X), \A i \in DOMAIN batch : IsSubmission(batch[i]),
         NEW ts \in Nat, NEW goid \in Nat
  PROVE  IsNumbering(AssignIds(batch, ts, goid), batch, ts, goid)
<1> DEFINE txns == AssignIds(batch, ts, goid)
           numbered(i) ==
             [j \in DOMAIN batch[i].operations |->
                [type |-> batch[i].operations[j].type, key |-> batch[i].operations[j].key,
                 val |-> batch[i].operations[j].val,
                 ts |-> ts + i - 1, goid |-> goid + OpsBefore(batch, i) + j - 1]]
           N == Len(batch)
<1>1. N \in Nat /\ DOMAIN batch = 1 .. N
  OBVIOUS
<1>2. ASSUME NEW i \in 1 .. N
      PROVE  /\ batch[i].operations \in Seq(Operations) /\ batch[i].last_one \in BOOLEAN
             /\ Len(batch[i].operations) \in Nat
             /\ DOMAIN batch[i].operations = 1 .. Len(batch[i].operations)
  <2>1. batch[i].operations \in Seq(Operations) /\ batch[i].last_one \in BOOLEAN
    BY <1>1 DEF IsSubmission
  <2> QED BY <2>1
<1>3. \A i \in 1 .. N : OpsBefore(batch, i) \in Nat
  BY <1>1, <1>2, OpsBeforeStep
<1>4. txns = [i \in 1 .. N |->
                [ts |-> ts + i - 1, last_one |-> batch[i].last_one, operations |-> numbered(i)]]
  BY <1>1 DEF AssignIds
<1>5. ASSUME NEW i \in 1 .. N
      PROVE  numbered(i) \in Seq(NumberedOps) /\ Len(numbered(i)) = Len(batch[i].operations)
  <2>1. ASSUME NEW j \in 1 .. Len(batch[i].operations) PROVE numbered(i)[j] \in NumberedOps
    <3> DEFINE op == batch[i].operations[j]
    <3>1. op \in Operations
      BY <1>2
    <3>2. ts + i - 1 \in Nat /\ goid + OpsBefore(batch, i) + j - 1 \in Nat
      BY <1>2, <1>3
    <3>3. numbered(i)[j] = [type |-> op.type, key |-> op.key, val |-> op.val,
                            ts |-> ts + i - 1, goid |-> goid + OpsBefore(batch, i) + j - 1]
      BY <1>2
    <3> HIDE DEF numbered
    <3> QED BY <3>1, <3>2, <3>3 DEF Operations, NumberedOps
  <2>2. numbered(i) \in [1 .. Len(batch[i].operations) -> NumberedOps]
    <3>1. DOMAIN numbered(i) = 1 .. Len(batch[i].operations)
          /\ numbered(i) = [j \in 1 .. Len(batch[i].operations) |-> numbered(i)[j]]
      BY <1>2
    <3> HIDE DEF numbered
    <3> QED BY <2>1, <3>1
  <2> HIDE DEF numbered
  <2> QED BY <2>2, <1>2
<1> HIDE DEF numbered
<1>6. txns \in Seq(NumberedTxns) /\ Len(txns) = N
  <2>1. ASSUME NEW i \in 1 .. N PROVE txns[i] \in NumberedTxns
    <3>1. ts + i - 1 \in Nat
      BY <1>1
    <3> QED BY <1>1, <1>2, <1>4, <1>5, <3>1 DEF NumberedTxns
  <2>2. txns \in [1 .. N -> NumberedTxns]
    <3> HIDE DEF txns
    <3> QED BY <1>4, <2>1
  <2> HIDE DEF txns
  <2> QED BY <1>1, <2>2
<1>7. ASSUME NEW i \in 1 .. N
      PROVE  /\ Len(txns[i].operations) = Len(batch[i].operations)
             /\ txns[i].ts = ts + i - 1
             /\ \A j \in 1 .. Len(batch[i].operations) :
                  /\ txns[i].operations[j].ts = ts + i - 1
                  /\ txns[i].operations[j].goid = goid + OpsBefore(batch, i) + j - 1
  <2>1. txns[i].ts = ts + i - 1 /\ txns[i].operations = numbered(i)
    <3> HIDE DEF txns
    <3> QED BY <1>4
  <2> HIDE DEF txns
  <2> QED BY <2>1, <1>2, <1>5 DEF numbered
<1> HIDE DEF txns
<1>8. IsNumbering(txns, batch, ts, goid)
  BY <1>1, <1>2, <1>6, <1>7 DEF IsNumbering
<1> QED BY <1>8 DEF txns

\* Transactions that are numbered on after those of an epoch make a longer epoch.
LEMMA AssignIdsContinues ==
  ASSUME NEW X, NEW batch \in Seq(X), \A i \in DOMAIN batch : IsSubmission(batch[i]),
         NEW before, WellNumbered(before),
         NEW A, A = Len(before), NEW G, G = OpsBefore(before, A + 1)
  PROVE  WellNumbered(before \o AssignIds(batch, A, G))
<1> DEFINE more == AssignIds(batch, A, G)
           txns == before \o more
           N == Len(batch)
<1>1. before \in Seq(NumberedTxns) /\ A \in Nat /\ N \in Nat /\ DOMAIN batch = 1 .. N
      /\ DOMAIN before = 1 .. A /\ A + 1 \in 1 .. A + 1
  BY DEF WellNumbered
<1>2. \A i \in DOMAIN before : Len(before[i].operations) \in Nat
  BY <1>1, NumberedLengths
<1>3. G \in Nat
  BY <1>1, <1>2, OpsBeforeStep
<1>4. /\ more \in Seq(NumberedTxns) /\ Len(more) = N
      /\ \A i \in 1 .. N :
           /\ Len(batch[i].operations) \in Nat
           /\ Len(more[i].operations) = Len(batch[i].operations)
           /\ more[i].ts = A + i - 1
           /\ \A j \in 1 .. Len(batch[i].operations) :
                /\ more[i].operations[j].ts = A + i - 1
                /\ more[i].operations[j].goid = G + OpsBefore(batch, i) + j - 1
  <2>1. IsNumbering(more, batch, A, G)
    BY <1>1, <1>3, AssignIdsType
  <2> HIDE DEF more
  <2> QED BY <2>1, <1>1 DEF IsNumbering
<1> HIDE DEF more, N
<1>5. /\ txns \in Seq(NumberedTxns) /\ DOMAIN txns = 1 .. A + N /\ DOMAIN more = 1 .. N
      /\ \A i \in 1 .. A : txns[i] = before[i]
      /\ \A i \in 1 .. N : txns[A + i] = more[i]
  BY <1>1, <1>4, Concatenation
<1>6. /\ \A i \in DOMAIN more : Len(more[i].operations) \in Nat
      /\ \A i \in DOMAIN batch : Len(batch[i].operations) \in Nat
  BY <1>1, <1>4, <1>5
<1>7. /\ \A i \in 1 .. A + 1 : OpsBefore(txns, i) = OpsBefore(before, i)
      /\ \A i \in 1 .. N + 1 : OpsBefore(txns, A + i) = G + OpsBefore(more, i)
  BY <1>1, <1>2, <1>4, <1>6, OpsBeforeConcat
<1>8. \A i \in 1 .. N + 1 : OpsBefore(more, i) = OpsBefore(batch, i)
  <2>1. N <= Len(more) /\ N <= Len(batch)
    BY <1>1, <1>4 DEF N
  <2>2. \A i \in 1 .. N : Len(more[i].operations) = Len(batch[i].operations)
    BY <1>4
  <2> QED BY <1>1, <1>4, <1>6, <2>1, <2>2, OpsBeforeSame
<1> HIDE DEF txns
<1>9. ASSUME NEW i \in 1 .. A + N
      PROVE  /\ txns[i].ts = i - 1
             /\ \A j \in DOMAIN txns[i].operations :
                  /\ txns[i].operations[j].ts = i - 1
                  /\ txns[i].operations[j].goid = OpsBefore(txns, i) + j - 1
  <2>1. CASE i \in 1 .. A
    <3>1. txns[i] = before[i] /\ OpsBefore(txns, i) = OpsBefore(before, i) /\ i \in DOMAIN before
      BY <1>1, <1>5, <1>7, <2>1
    <3> QED BY <3>1 DEF WellNumbered
  <2>2. CASE i \notin 1 .. A
    <3>1. i - A \in 1 .. N /\ A + (i - A) = i /\ i \in Nat
      BY <1>1, <2>2
    <3>2. PICK k \in 1 .. N : i = A + k
      BY <3>1
    <3>3. txns[i] = more[k]
      BY <3>2, <1>5
    <3>4. OpsBefore(txns, i) = G + OpsBefore(batch, k)
      <4>1. k \in 1 .. N + 1
        BY <1>1
      <4> QED BY <3>2, <4>1, <1>7, <1>8
    <3>5. k \in DOMAIN more
      BY <1>5
    <3>6. more[k].operations \in Seq(NumberedOps)
      BY <1>4, <3>5, NumberedLengths
    <3>7. DOMAIN more[k].operations = 1 .. Len(batch[k].operations)
      BY <3>6, <1>4
    <3>8. i - 1 = A + k - 1
      BY <3>2
    <3>9. /\ more[k].ts = i - 1
          /\ \A j \in 1 .. Len(batch[k].operations) :
               /\ more[k].operations[j].ts = i - 1
               /\ more[k].operations[j].goid = OpsBefore(txns, i) + j - 1
      BY <1>4, <3>4, <3>8
    <3> QED BY <3>3, <3>7, <3>9
  <2> QED BY <2>1, <2>2
<1>10. WellNumbered(txns)
  BY <1>5, <1>9 DEF WellNumbered
<1> QED BY <1>10 DEF txns, more

\* The transactions of the first batch of an epoch.
LEMMA AssignIdsNumbers ==
  ASSUME NEW X, NEW batch \in Seq(X), \A i \in DOMAIN batch : IsSubmission(batch[i])
  PROVE  WellNumbered(AssignIds(batch, 0, 0))
<1>1. WellNumbered(<<>>)
  BY DEF WellNumbered
<1>2. Len(<<>>) = 0 /\ <<>> \in Seq(NumberedTxns) /\ 0 + 1 = 1
  OBVIOUS
<1>3. OpsBefore(<<>>, 0 + 1) = 0
  <2>1. \A i \in DOMAIN <<>> : Len(<<>>[i].operations) \in Nat
    OBVIOUS
  <2> QED BY <1>2, <2>1, OpsBeforeStep
<1>4. AssignIds(batch, 0, 0) \in Seq(NumberedTxns)
  BY AssignIdsType DEF IsNumbering
<1>5. <<>> \o AssignIds(batch, 0, 0) = AssignIds(batch, 0, 0)
  BY <1>4
<1>6. WellNumbered(<<>> \o AssignIds(batch, 0, 0))
  BY <1>1, <1>2, <1>3, AssignIdsContinues
<1> QED BY <1>5, <1>6

------------------------------------------------------------------------------
(* Version chains. *)

\* A set of operations that is not empty has an earliest and a latest one.
LEMMA FirstAndLatest ==
  ASSUME NEW ops, Numbered(ops), ops # {}
  PROVE  /\ First(ops) \in ops /\ \A p \in ops : First(ops).goid <= p.goid
         /\ Latest(ops) \in ops /\ \A p \in ops : p.goid <= Latest(ops).goid
<1> DEFINE ids == {o.goid : o \in ops}
<1>1. ids \in SUBSET Nat /\ ids # {}
  BY DEF Numbered, NumberedOps
<1>2. PICK b \in Nat : \A o \in ops : o.goid <= b
  BY DEF Numbered
<1>3. \A n \in ids : n <= b
  BY <1>2
<1>4. \E m \in ids : \A n \in ids : m <= n
  <2> HIDE DEF ids
  <2> QED BY <1>1, LeastNatural
<1>5. \E m \in ids : \A n \in ids : n <= m
  <2> HIDE DEF ids
  <2> QED BY <1>1, <1>3, GreatestNatural
<1>6. \E o \in ops : \A p \in ops : o.goid <= p.goid
  BY <1>4
<1>7. \E o \in ops : \A p \in ops : p.goid <= o.goid
  BY <1>5
<1> QED BY <1>6, <1>7 DEF First, Latest

\* There is one only.
LEMMA LatestIsOne ==
  ASSUME NEW ops, Numbered(ops), NEW o \in ops, \A p \in ops : p.goid <= o.goid
  PROVE  Latest(ops) = o
<1>1. Latest(ops) \in ops /\ \A p \in ops : p.goid <= Latest(ops).goid
  BY FirstAndLatest
<1>2. o.goid \in Nat /\ Latest(ops).goid \in Nat
  BY <1>1 DEF Numbered, NumberedOps
<1>3. o.goid <= Latest(ops).goid /\ Latest(ops).goid <= o.goid
  BY <1>1
<1>4. o.goid = Latest(ops).goid
  BY <1>2, <1>3
<1> QED BY <1>1, <1>4 DEF Numbered

\* The serial order is the order of the ids.
LEMMA PrecedesById ==
  ASSUME NEW ops, Numbered(ops), NEW o \in ops, NEW p \in ops
  PROVE  Precedes(o, p) <=> o.goid < p.goid
<1>1. /\ o.goid \in Nat /\ p.goid \in Nat /\ o.ts \in Nat /\ p.ts \in Nat
      /\ (o.ts < p.ts => o.goid < p.goid) /\ (p.ts < o.ts => p.goid < o.goid)
  BY DEF Numbered, NumberedOps
<1> QED BY <1>1 DEF Precedes

\* The last one in the serial order is the latest.
LEMMA LastWrittenIsLatest ==
  ASSUME NEW ops, Numbered(ops), NEW otherwise
  PROVE  LastWritten(ops, otherwise) = IF ops = {} THEN otherwise ELSE Latest(ops).val
<1>1. CASE ops = {}
  BY <1>1 DEF LastWritten
<1>2. CASE ops # {}
  <2> DEFINE isLast(w) == \A o \in ops : o = w \/ Precedes(o, w)
  <2>1. Latest(ops) \in ops /\ \A p \in ops : p.goid <= Latest(ops).goid
    BY <1>2, FirstAndLatest
  <2>2. \A o, p \in ops : /\ o.goid \in Nat /\ p.goid \in Nat
                          /\ o.goid = p.goid => o = p
                          /\ Precedes(o, p) <=> o.goid < p.goid
    BY PrecedesById DEF Numbered, NumberedOps
  <2>3. isLast(Latest(ops))
    BY <2>1, <2>2
  <2>4. ASSUME NEW w \in ops, isLast(w) PROVE w = Latest(ops)
    BY <2>1, <2>2, <2>4
  <2>5. (CHOOSE w \in ops : isLast(w)) = Latest(ops)
    <3> HIDE DEF isLast
    <3> QED BY <2>1, <2>3, <2>4
  <2>6. LastWritten(ops, otherwise) = (CHOOSE w \in ops : isLast(w)).val
    BY <1>2, Zenon DEF LastWritten
  <2> HIDE DEF isLast
  <2> QED BY <1>2, <2>5, <2>6
<1> QED BY <1>1, <1>2

\* The writes of a record.
WritesOf(key, ops) == {w \in ops : IsWrite(w) /\ w.key = key}

\* What a record holds in the end.
LEMMA FinalValueIs ==
  ASSUME NEW ops, Numbered(ops), NEW key, NEW base
  PROVE  FinalValue(key, ops, base) =
           IF WritesOf(key, ops) = {} THEN base[key] ELSE Latest(WritesOf(key, ops)).val
<1>1. Numbered(WritesOf(key, ops))
  BY SubsetIsNumbered DEF WritesOf
<1>2. FinalValue(key, ops, base) = LastWritten(WritesOf(key, ops), base[key])
  BY DEF FinalValue, WritesOf
<1> QED BY <1>1, <1>2, LastWrittenIsLatest

\* What an operation finds.
LEMMA ValueBeforeIs ==
  ASSUME NEW ops, Numbered(ops), NEW op \in ops, NEW base
  PROVE  ValueBefore(op, ops, base) =
           IF WritesBefore(op, ops) = {} THEN base[op.key] ELSE Latest(WritesBefore(op, ops)).val
<1>1. Numbered(WritesBefore(op, ops))
  BY SubsetIsNumbered DEF WritesBefore
<1>2. {w \in ops : IsWrite(w) /\ w.key = op.key /\ Precedes(w, op)} = WritesBefore(op, ops)
  BY PrecedesById DEF WritesBefore, SameChain
<1>3. ValueBefore(op, ops, base) = LastWritten(WritesBefore(op, ops), base[op.key])
  BY <1>2 DEF ValueBefore
<1> QED BY <1>1, <1>3, LastWrittenIsLatest

------------------------------------------------------------------------------
(* Decisions. *)

\* The decisions of Dedup on the operations of the chains.
DedupPlan(ops) == PlanOf(ops, [op \in ops |-> Decision(op, ops)])

\* Dedup plans each operation as Decision says, and sends the ones that say so to the ORAM.
LEMMA DedupPlanEach ==
  ASSUME NEW ops, Numbered(ops)
  PROVE  /\ DOMAIN DedupPlan(ops) = {op.goid : op \in ops}
         /\ \A op \in ops : DedupPlan(ops)[op.goid] = Decision(op, ops)
         /\ BoundOps(ops, DedupPlan(ops)) = {op \in ops : Decision(op, ops).kind = "TO_ORAM"}
<1>1. /\ DOMAIN DedupPlan(ops) = {op.goid : op \in ops}
      /\ \A op \in ops : DedupPlan(ops)[op.goid] = Decision(op, ops)
  <2>1. DOMAIN DedupPlan(ops) = {op.goid : op \in ops}
    BY DEF DedupPlan, PlanOf
  <2>2. ASSUME NEW op \in ops PROVE DedupPlan(ops)[op.goid] = Decision(op, ops)
    <3>1. (CHOOSE o \in ops : o.goid = op.goid) = op
      BY DEF Numbered
    <3> QED BY <3>1 DEF DedupPlan, PlanOf
  <2> QED BY <2>1, <2>2
<1> QED BY <1>1 DEF BoundOps

\* An operation reads or it writes, and a write has a content.
LEMMA ReadOrWrite ==
  ASSUME NEW op \in NumberedOps
  PROVE  /\ IsWrite(op) <=> ~ IsRead(op)
         /\ IsWrite(op) => op.val \in Values
         /\ op.key \in Keys /\ ServerOf(op) \in Servers
         /\ op.goid \in Nat /\ op.ts \in Nat
BY DEF NumberedOps, IsRead, IsWrite, Keys, ServerOf

\* What the executor is given: operations with ids of their own, and at most one write
\* of each record.
IsBound(ops) ==
  /\ ops \subseteq NumberedOps
  /\ \A o, p \in ops : o.goid = p.goid => o = p
  /\ \A o, p \in ops : IsWrite(o) /\ IsWrite(p) /\ o.key = p.key => o = p

\* Dedup sends the latest write of each record.
LEMMA DecisionOfWrite ==
  ASSUME NEW ops, Numbered(ops), NEW op \in ops, IsWrite(op)
  PROVE  IF op = Latest(WritesOf(op.key, ops)) THEN Decision(op, ops) = ToOram(op)
                                               ELSE Decision(op, ops) = Dropped
<1>1. {w \in {o \in ops : SameChain(o, op)} : IsWrite(w)} = WritesOf(op.key, ops)
  BY DEF WritesOf, SameChain
<1>2. ~ IsRead(op)
  BY ReadOrWrite DEF Numbered
<1> QED BY <1>1, <1>2 DEF Decision

\* It sends the first read of a record that no write comes before, and answers the other
\* ones like that; a read that a write comes before is answered from the latest of those.
LEMMA DecisionOfRead ==
  ASSUME NEW ops, Numbered(ops), NEW op \in ops, IsRead(op)
  PROVE  \/ /\ WritesBefore(op, ops) # {}
            /\ Decision(op, ops) = Buffered(Latest(WritesBefore(op, ops)).val)
         \/ /\ WritesBefore(op, ops) = {}
            /\ \E leader \in ops :
                 /\ IsRead(leader) /\ leader.key = op.key /\ WritesBefore(leader, ops) = {}
                 /\ Decision(leader, ops) = ToOram(leader)
                 /\ Decision(op, ops) = IF op = leader THEN ToOram(op) ELSE Coalesced(leader)
<1> DEFINE reads(o) == {r \in {c \in ops : SameChain(c, o)} : IsRead(r)}
           leader == First(reads(op))
<1>1. CASE WritesBefore(op, ops) # {}
  BY <1>1 DEF Decision
<1>2. CASE WritesBefore(op, ops) = {}
  <2>1. Numbered(reads(op)) /\ op \in reads(op)
    <3>1. reads(op) \in SUBSET ops /\ op \in reads(op)
      BY DEF SameChain
    <3> QED BY <3>1, SubsetIsNumbered
  <2>2. leader \in reads(op) /\ leader.goid <= op.goid
    <3> HIDE DEF reads
    <3> QED BY <2>1, FirstAndLatest
  <2>3. leader \in ops /\ IsRead(leader) /\ leader.key = op.key
    <3> HIDE DEF leader
    <3> QED BY <2>2 DEF SameChain
  <2>4. reads(leader) = reads(op)
    <3> HIDE DEF leader
    <3> QED BY <2>3 DEF SameChain
  <2>5. WritesBefore(leader, ops) = {}
    <3> HIDE DEF leader
    <3>1. \A w \in ops : w.goid \in Nat
      BY DEF Numbered, NumberedOps
    <3>2. \A w \in ops : w.goid < leader.goid => w.goid < op.goid
      BY <2>2, <2>3, <3>1
    <3> QED BY <1>2, <2>3, <3>2 DEF WritesBefore, SameChain
  <2>6. Decision(op, ops) = IF op = leader THEN ToOram(op) ELSE Coalesced(leader)
    BY <1>2 DEF Decision
  <2>7. Decision(leader, ops) = IF leader = First(reads(leader)) THEN ToOram(leader)
                                ELSE Coalesced(First(reads(leader)))
    <3>1. \A o : IsRead(o) /\ WritesBefore(o, ops) = {} =>
                   Decision(o, ops) = IF o = First(reads(o)) THEN ToOram(o)
                                      ELSE Coalesced(First(reads(o)))
      BY DEF Decision
    <3> HIDE DEF leader, reads
    <3> QED BY <2>3, <2>5, <3>1
  <2>8. Decision(leader, ops) = ToOram(leader)
    BY <2>4, <2>7
  <2> HIDE DEF leader
  <2> QED BY <1>2, <2>3, <2>5, <2>6, <2>8
<1> QED BY <1>1, <1>2

\* What Dedup sends is what the executor takes.
LEMMA DedupIsBound ==
  ASSUME NEW ops, Numbered(ops)
  PROVE  IsBound(BoundOps(ops, DedupPlan(ops)))
<1> DEFINE bound == BoundOps(ops, DedupPlan(ops))
<1>1. bound = {op \in ops : Decision(op, ops).kind = "TO_ORAM"}
  BY DedupPlanEach
<1>2. \A w \in bound : IsWrite(w) => w = Latest(WritesOf(w.key, ops))
  <2>1. Dropped.kind # "TO_ORAM"
    BY DEF Dropped
  <2> HIDE DEF bound
  <2> QED BY <1>1, <2>1, DecisionOfWrite
<1> HIDE DEF bound
<1>3. IsBound(bound)
  BY <1>1, <1>2 DEF IsBound, Numbered
<1> QED BY <1>3 DEF bound

------------------------------------------------------------------------------
(* The executor. *)

\* The call with the operations bound, on ORAMs that held base when it began.  An operation
\* that is done, and whose server has not failed, is done as it would have been alone: a
\* read found the content the call began with, and a write is the content of its record.
\* The reads of a server go first, so the writes of a server that has reads to do are
\* all to do.
Working(bound, base) ==
  /\ base \in [Keys -> Values] /\ db \in [Keys -> Values]
  /\ todo \subseteq bound
  /\ busy \subseteq Servers /\ \A op \in todo : ServerOf(op) \in busy
  /\ slots \in [{op.goid : op \in bound} -> Results]
  /\ failed \subseteq dead /\ dead \subseteq Servers /\ killed \in BOOLEAN
  /\ \A op \in bound \ todo : ServerOf(op) \notin failed =>
       /\ IsRead(op) => slots[op.goid] = base[op.key]
       /\ IsWrite(op) => db[op.key] = op.val
  /\ \A op \in bound : IsWrite(op) => slots[op.goid] = None
  /\ \A op \in todo, w \in bound :
       IsRead(op) /\ IsWrite(w) /\ ServerOf(w) = ServerOf(op) => w \in todo
  /\ \A w \in todo : IsWrite(w) => db[w.key] = base[w.key]
  /\ \A k \in Keys : db[k] = base[k] \/ \E w \in WritesOf(k, bound) : db[k] = w.val

\* Such a state has the type the executor promises.
LEMMA WorkingType ==
  ASSUME NEW bound, NEW base, IsBound(bound), Working(bound, base)
  PROVE  ExecutorTypeOK
<1>1. todo = UNION {TodoOf(s) : s \in busy}
  BY DEF Working, TodoOf
<1>2. Range(slots) \subseteq Results
  BY DEF Working, Range
<1> QED BY <1>1, <1>2 DEF Working, ExecutorTypeOK

\* A call begins like that.
LEMMA SubmitWorks ==
  ASSUME NEW bound, IsBound(bound), Submit(bound), db \in [Keys -> Values],
         dead \subseteq Servers, killed \in BOOLEAN
  PROVE  Working(bound, db)'
<1>1. \A op \in bound : ServerOf(op) \in Servers
  BY ReadOrWrite DEF IsBound
<1>2. /\ todo' = bound /\ busy' = {ServerOf(op) : op \in bound} /\ failed' = {}
      /\ slots' = [g \in {op.goid : op \in bound} |-> None]
      /\ db' = db /\ dead' = dead /\ killed' = killed
  BY DEF Submit
<1>3. slots' \in [{op.goid : op \in bound} -> Results]
  BY <1>2 DEF Results
<1>4. \A op \in bound : slots'[op.goid] = None
  BY <1>2
<1> QED BY <1>1, <1>2, <1>3, <1>4 DEF Working

\* One operation of a call.
LEMMA ExecuteWorks ==
  ASSUME NEW bound, NEW base, IsBound(bound), Working(bound, base),
         NEW s, Execute(s)
  PROVE  Working(bound, base)'
<1>1. PICK op \in TodoOf(s) :
        /\ ReadsBeforeWrites(op)
        /\ todo' = todo \ {op}
        /\ db' = IF IsWrite(op) THEN [db EXCEPT ![op.key] = op.val] ELSE db
        /\ slots' = IF IsRead(op) THEN [slots EXCEPT ![op.goid] = db[op.key]] ELSE slots
  BY DEF Execute
<1>2. op \in todo /\ op \in bound /\ op \in NumberedOps
  BY DEF TodoOf, Working, IsBound
<1>3. UNCHANGED <<busy, failed, dead, killed>>
  BY DEF Execute
<1> USE DEF Working
<1>4. CASE IsRead(op)
  <2>1. db' = db /\ slots' = [slots EXCEPT ![op.goid] = db[op.key]]
    BY <1>1, <1>2, <1>4, ReadOrWrite
  <2>2. db[op.key] = base[op.key] /\ db[op.key] \in Results
    <3>1. op.key \in Keys
      BY <1>2, ReadOrWrite
    <3>2. \A w \in WritesOf(op.key, bound) : w \in todo /\ db[w.key] = base[w.key] /\ w.key = op.key
      BY <1>2, <1>4 DEF WritesOf, ServerOf
    <3> QED BY <3>1, <3>2 DEF Results
  <2>3. /\ slots' \in [{o.goid : o \in bound} -> Results]
        /\ slots'[op.goid] = base[op.key]
        /\ \A o \in bound : o # op => slots'[o.goid] = slots[o.goid]
    BY <1>2, <2>1, <2>2 DEF IsBound
  <2>4. \A o \in bound \ todo' : o = op \/ o \in bound \ todo
    BY <1>1
  <2>5. ~ IsWrite(op)
    BY <1>2, <1>4, ReadOrWrite
  <2> QED BY <1>1, <1>2, <1>3, <1>4, <2>1, <2>3, <2>4, <2>5 DEF WritesOf
<1>5. CASE IsWrite(op)
  <2>1. slots' = slots /\ db' = [db EXCEPT ![op.key] = op.val] /\ ~ IsRead(op)
        /\ op.val \in Values /\ op.key \in Keys
    BY <1>1, <1>2, <1>5, ReadOrWrite
  <2>2. /\ db' \in [Keys -> Values] /\ db'[op.key] = op.val
        /\ \A k \in Keys : k # op.key => db'[k] = db[k]
    BY <2>1
  <2>3. \A w \in bound : IsWrite(w) /\ w # op => w.key # op.key /\ w.key \in Keys
    BY <1>2, <1>5, ReadOrWrite DEF IsBound
  <2>4. \A o \in todo' : ~ (IsRead(o) /\ ServerOf(o) = ServerOf(op))
    <3>1. \A o \in todo : ServerOf(o) = ServerOf(op) => IsWrite(o)
      BY <1>1, <2>1 DEF ReadsBeforeWrites, TodoOf
    <3>2. \A o \in todo : o \in NumberedOps
      BY DEF IsBound
    <3> QED BY <1>1, <3>1, <3>2, ReadOrWrite
  <2>5. \A o \in bound \ todo' : o = op \/ o \in bound \ todo
    BY <1>1
  <2>6. \A o \in bound \ todo' : ServerOf(o) \notin failed' =>
          /\ IsRead(o) => slots'[o.goid] = base[o.key]
          /\ IsWrite(o) => db'[o.key] = o.val
    BY <1>2, <1>3, <2>1, <2>2, <2>3, <2>5
  <2>7. \A o \in todo', w \in bound :
          IsRead(o) /\ IsWrite(w) /\ ServerOf(w) = ServerOf(o) => w \in todo'
    BY <1>1, <2>4
  <2>8. \A w \in todo' : IsWrite(w) => db'[w.key] = base[w.key]
    BY <1>1, <2>2, <2>3
  <2>9. \A k \in Keys : db'[k] = base[k] \/ \E w \in WritesOf(k, bound) : db'[k] = w.val
    BY <1>2, <1>5, <2>2 DEF WritesOf
  <2> QED BY <1>1, <1>3, <2>1, <2>2, <2>6, <2>7, <2>8, <2>9 DEF WritesOf
<1> QED BY <1>2, <1>4, <1>5, ReadOrWrite

\* A step of a worker thread, or the exit of a child, keeps it.
LEMMA WorkWorks ==
  ASSUME NEW bound, NEW base, IsBound(bound), Working(bound, base),
         NEW s \in Servers, Work(s)
  PROVE  Working(bound, base)'
<1>1. CASE Execute(s)
  BY <1>1, ExecuteWorks
<1>2. CASE WorkerEnds(s)
  BY <1>2 DEF WorkerEnds, Working, TodoOf, WritesOf
<1>3. CASE ChildExits(s)
  <2>1. CASE GiveUp(s) /\ UNCHANGED killed
    <3>1. /\ todo' = todo \ TodoOf(s) /\ busy' = busy \ {s} /\ failed' = failed \cup {s}
          /\ dead' = dead \cup {s} /\ UNCHANGED <<db, slots, killed>>
      BY <1>3, <2>1 DEF ChildExits, GiveUp
    <3>2. \A op \in todo' : ServerOf(op) # s /\ op \in todo
      BY <3>1 DEF TodoOf
    <3>3. \A op \in bound \ todo' : ServerOf(op) \notin failed' => op \in bound \ todo
      BY <3>1 DEF TodoOf
    <3>4. \A op \in todo : ServerOf(op) # s => op \in todo'
      BY <3>1 DEF TodoOf
    <3> QED BY <3>1, <3>2, <3>3, <3>4 DEF Working, WritesOf
  <2>2. CASE killed' = TRUE /\ UNCHANGED <<failed, todo, busy>>
    BY <1>3, <2>2 DEF ChildExits, Working, WritesOf
  <2> QED BY <1>3, <2>1, <2>2 DEF ChildExits
<1>4. CASE WriteToDead(s)
  BY <1>4 DEF WriteToDead, Working, WritesOf
<1> QED BY <1>1, <1>2, <1>3, <1>4 DEF Work

\* When every worker has ended, and none has failed, all of it is done.
LEMMA WorkingDone ==
  ASSUME NEW bound, NEW base, Working(bound, base), busy = {}, Success
  PROVE  /\ \A op \in bound : /\ IsRead(op) => slots[op.goid] = base[op.key]
                              /\ IsWrite(op) => db[op.key] = op.val /\ slots[op.goid] = None
BY DEF Working, Success

------------------------------------------------------------------------------
(* An epoch: what Dedup and the executor do together. *)

\* The operations of a transaction have its timestamp, and no two transactions share one.
LEMMA EpochTransactions ==
  ASSUME NEW txns, WellNumbered(txns)
  PROVE  /\ Range(txns) \subseteq NumberedTxns
         /\ \A t \in Range(txns) : \A op \in OpsOf(t) : op.ts = t.ts
         /\ \A t, u \in Range(txns) : t.ts = u.ts => t = u
<1>1. txns \in Seq(NumberedTxns) /\ Len(txns) \in Nat /\ DOMAIN txns = 1 .. Len(txns)
  BY DEF WellNumbered
<1>2. \A i \in DOMAIN txns : txns[i] \in NumberedTxns /\ txns[i].ts = i - 1
  BY <1>1 DEF WellNumbered
<1>3. \A i \in DOMAIN txns : \A op \in OpsOf(txns[i]) : op.ts = txns[i].ts
  BY DEF WellNumbered, OpsOf, Range
<1>4. \A i, j \in DOMAIN txns : txns[i].ts = txns[j].ts => i = j
  BY <1>1, <1>2
<1> QED BY <1>2, <1>3, <1>4 DEF Range

\* What is left in the version chains is the operations of the committed transactions.
LEMMA SurvivorsAreCommitted ==
  ASSUME NEW txns, WellNumbered(txns)
  PROVE  /\ Survivors(txns) = {op \in Ops(txns) : op.ts \in Committed(txns)}
         /\ Numbered(Survivors(txns))
<1>1. ASSUME NEW op \in Survivors(txns) PROVE op \in Ops(txns) /\ op.ts \in Committed(txns)
  <2>1. PICK t \in Complete(txns) : op \in OpsOf(t)
    BY DEF Survivors, ChainedOps
  <2>2. t \in Range(txns) /\ op.ts = t.ts
    BY <2>1, EpochTransactions DEF Complete
  <2> QED BY <2>1, <2>2 DEF Ops, Committed, Survivors
<1>2. ASSUME NEW op \in Ops(txns), op.ts \in Committed(txns) PROVE op \in Survivors(txns)
  <2>1. PICK t \in Range(txns) : op \in OpsOf(t)
    BY DEF Ops
  <2>2. PICK u \in Complete(txns) : u.ts = op.ts
    BY <1>2 DEF Committed
  <2>3. t = u
    BY <2>1, <2>2, EpochTransactions DEF Complete
  <2> QED BY <1>2, <2>1, <2>2, <2>3 DEF Survivors, ChainedOps, Committed
<1>3. Numbered(Ops(txns))
  BY EpochIsNumbered
<1>4. Survivors(txns) \in SUBSET Ops(txns)
  BY <1>1
<1> QED BY <1>1, <1>2, <1>3, <1>4, SubsetIsNumbered

\* The type of a decision.
LEMMA DecisionType ==
  ASSUME NEW ops, Numbered(ops), NEW op \in ops
  PROVE  Decision(op, ops) \in
           [kind : {"TO_ORAM", "BUFFERED_FROM_WRITE", "COALESCED_READ", "DROPPED"},
            slot : Int, val : Results]
<1>1. \A o \in ops : o \in NumberedOps /\ o.goid \in Int
  BY DEF Numbered, NumberedOps
<1>2. CASE IsRead(op)
  <2>1. CASE WritesBefore(op, ops) # {}
    <3>1. Latest(WritesBefore(op, ops)) \in WritesBefore(op, ops)
      BY <2>1, SubsetIsNumbered, FirstAndLatest DEF WritesBefore
    <3>2. Latest(WritesBefore(op, ops)).val \in Values
      BY <1>1, <3>1, ReadOrWrite DEF WritesBefore
    <3>3. Decision(op, ops) = Buffered(Latest(WritesBefore(op, ops)).val)
      BY <1>2, <2>1, DecisionOfRead
    <3> QED BY <3>2, <3>3 DEF Buffered, Results
  <2>2. CASE WritesBefore(op, ops) = {}
    <3>1. \E leader \in ops : Decision(op, ops) = ToOram(op) \/ Decision(op, ops) = Coalesced(leader)
      BY <1>2, <2>2, DecisionOfRead
    <3> QED BY <1>1, <3>1 DEF ToOram, Coalesced, Results
  <2> QED BY <2>1, <2>2
<1>3. CASE IsWrite(op)
  <2>1. Decision(op, ops) = ToOram(op) \/ Decision(op, ops) = Dropped
    BY <1>3, DecisionOfWrite
  <2> QED BY <1>1, <2>1 DEF ToOram, Dropped, Results
<1> QED BY <1>1, <1>2, <1>3, ReadOrWrite

\* A write that Dedup sends is the last one of its record.
LEMMA DedupSendsLast ==
  ASSUME NEW ops, Numbered(ops), NEW k
  PROVE  \A w \in WritesOf(k, BoundOps(ops, DedupPlan(ops))) :
           WritesOf(k, ops) # {} /\ w = Latest(WritesOf(k, ops))
<1> SUFFICES ASSUME NEW w \in WritesOf(k, BoundOps(ops, DedupPlan(ops)))
             PROVE  WritesOf(k, ops) # {} /\ w = Latest(WritesOf(k, ops))
  OBVIOUS
<1>1. w \in ops /\ Decision(w, ops).kind = "TO_ORAM" /\ IsWrite(w) /\ w.key = k
  BY DedupPlanEach DEF WritesOf
<1>2. Dropped.kind # "TO_ORAM"
  BY DEF Dropped
<1>3. w = Latest(WritesOf(w.key, ops))
  BY <1>1, <1>2, DecisionOfWrite
<1>4. w \in WritesOf(k, ops)
  BY <1>1 DEF WritesOf
<1> QED BY <1>1, <1>3, <1>4

\* At every moment a record holds its old content or the one it is to end with.
LEMMA DedupOldOrFinal ==
  ASSUME NEW ops, Numbered(ops), NEW base, Working(BoundOps(ops, DedupPlan(ops)), base)
  PROVE  \A k \in Keys : db[k] \in {base[k], FinalValue(k, ops, base)}
<1> SUFFICES ASSUME NEW k \in Keys, db[k] # base[k] PROVE db[k] = FinalValue(k, ops, base)
  OBVIOUS
<1>1. PICK w \in WritesOf(k, BoundOps(ops, DedupPlan(ops))) : db[k] = w.val
  BY DEF Working
<1>2. WritesOf(k, ops) # {} /\ w = Latest(WritesOf(k, ops))
  BY DedupSendsLast
<1> QED BY <1>1, <1>2, FinalValueIs

\* When it is over and no server has failed, the records hold what a serial execution of the
\* operations leaves, and every operation is answered with what it would have found.
LEMMA DedupIsSerial ==
  ASSUME NEW ops, Numbered(ops), NEW base, Working(BoundOps(ops, DedupPlan(ops)), base),
         busy = {}, Success
  PROVE  /\ \A op \in ops : Resolve(Decision(op, ops), slots) =
                              IF IsRead(op) THEN ValueBefore(op, ops, base) ELSE None
         /\ \A k \in Keys : db[k] = FinalValue(k, ops, base)
<1> DEFINE bound == BoundOps(ops, DedupPlan(ops))
<1>1. bound = {op \in ops : Decision(op, ops).kind = "TO_ORAM"}
  BY DedupPlanEach
<1>2. \A op \in bound : /\ IsRead(op) => slots[op.goid] = base[op.key]
                        /\ IsWrite(op) => db[op.key] = op.val /\ slots[op.goid] = None
  BY WorkingDone
<1>3. \A op \in ops : op \in NumberedOps
  BY DEF Numbered
<1>4. \A k \in Keys : db[k] = base[k] \/ \E w \in WritesOf(k, bound) : db[k] = w.val
  BY DEF Working
<1> HIDE DEF bound
<1>5. ASSUME NEW op \in ops, IsRead(op)
      PROVE  Resolve(Decision(op, ops), slots) = ValueBefore(op, ops, base)
  <2>1. CASE WritesBefore(op, ops) # {}
    <3>1. Decision(op, ops) = Buffered(Latest(WritesBefore(op, ops)).val)
      BY <1>5, <2>1, DecisionOfRead
    <3> QED BY <2>1, <3>1, ValueBeforeIs DEF Resolve, Buffered
  <2>2. CASE WritesBefore(op, ops) = {}
    <3>1. PICK leader \in ops :
            /\ IsRead(leader) /\ leader.key = op.key /\ WritesBefore(leader, ops) = {}
            /\ Decision(leader, ops) = ToOram(leader)
            /\ Decision(op, ops) = IF op = leader THEN ToOram(op) ELSE Coalesced(leader)
      BY <1>5, <2>2, DecisionOfRead
    <3>2. slots[leader.goid] = base[op.key]
      <4>1. leader \in bound
        BY <1>1, <3>1 DEF ToOram
      <4> QED BY <1>2, <3>1, <4>1
    <3>3. Resolve(Decision(op, ops), slots) = slots[leader.goid]
      BY <3>1 DEF Resolve, ToOram, Coalesced
    <3> QED BY <2>2, <3>2, <3>3, ValueBeforeIs
  <2> QED BY <2>1, <2>2
<1>6. ASSUME NEW op \in ops, ~ IsRead(op)
      PROVE  Resolve(Decision(op, ops), slots) = None
  <2>1. IsWrite(op)
    BY <1>3, <1>6, ReadOrWrite
  <2>2. CASE Decision(op, ops) = ToOram(op)
    <3>1. op \in bound
      BY <1>1, <2>2 DEF ToOram
    <3>2. slots[op.goid] = None
      BY <1>2, <2>1, <3>1
    <3> QED BY <2>2, <3>2 DEF Resolve, ToOram
  <2>3. CASE Decision(op, ops) = Dropped
    BY <2>3 DEF Resolve, Dropped
  <2> QED BY <2>1, <2>2, <2>3, DecisionOfWrite
<1>7. ASSUME NEW k \in Keys PROVE db[k] = FinalValue(k, ops, base)
  <2>1. CASE WritesOf(k, ops) = {}
    <3>1. WritesOf(k, bound) = {}
      BY <1>1, <2>1 DEF WritesOf
    <3> QED BY <1>4, <2>1, <3>1, FinalValueIs
  <2>2. CASE WritesOf(k, ops) # {}
    <3> DEFINE last == Latest(WritesOf(k, ops))
    <3>1. last \in WritesOf(k, ops)
      BY <2>2, SubsetIsNumbered, FirstAndLatest DEF WritesOf
    <3>2. last \in ops /\ IsWrite(last) /\ last.key = k
      <4> HIDE DEF last
      <4> QED BY <3>1 DEF WritesOf
    <3>3. Decision(last, ops) = ToOram(last)
      BY <3>2, DecisionOfWrite
    <3>4. last \in bound
      BY <1>1, <3>2, <3>3 DEF ToOram
    <3>5. db[k] = last.val
      BY <1>2, <3>2, <3>4
    <3> QED BY <2>2, <3>5, FinalValueIs
  <2> QED BY <2>1, <2>2
<1> QED BY <1>5, <1>6, <1>7
==============================================================================
