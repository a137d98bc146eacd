-------------------------- MODULE RepartitionProofs --------------------------
(***************************************************************************)
(* Facts about module Repartition for every set of tables and every noise: *)
(* partitions tile the bins, each reaches the threshold with its last bin, *)
(* an ORAM has room for exactly what its child loads, and the proxy's map  *)
(* leads to each record.                                                   *)
(***************************************************************************)
EXTENDS Repartition, FiniteSetTheorems, WellFoundedInduction, TLAPS

------------------------------------------------------------------------------
(* Induction. *)

\* A set of natural numbers that is not empty has a least element.
LEMMA LeastNatural ==
  ASSUME NEW S \in SUBSET Nat, S # {}
  PROVE  \E m \in S : \A n \in S : m <= n
<1> DEFINE R == OpToRel(<, Nat)
<1>1. IsWellFoundedOn(R, Nat)
  BY NatLessThanWellFounded
<1>2. PICK m \in S : \A n \in S : <<n, m>> \notin R
  <2> HIDE DEF R
  <2> QED BY <1>1, WFMin
<1>3. \A n \in S : n < m => <<n, m>> \in R
  BY DEF OpToRel
<1> HIDE DEF R
<1>4. \A n \in S : n \in Nat /\ m \in Nat /\ ~ (n < m)
  BY <1>2, <1>3
<1> QED BY <1>4

\* Induction, over the numbers between two bounds, for a property given as a set.
LEMMA InductionBetween ==
  ASSUME NEW S, NEW low \in Int, NEW high \in Int, low <= high, low \in S,
         \A k \in low .. high - 1 : k \in S => k + 1 \in S
  PROVE  low .. high \subseteq S
<1> DEFINE Bad == {k \in Nat : low + k <= high /\ low + k \notin S}
<1>1. SUFFICES ASSUME Bad # {} PROVE FALSE
  <2>1. ASSUME NEW k \in low .. high, Bad = {} PROVE k \in S
    <3>1. k - low \in Nat /\ low + (k - low) = k /\ k <= high
      OBVIOUS
    <3> QED BY <2>1, <3>1
  <2> HIDE DEF Bad
  <2> QED BY <2>1
<1>2. PICK m \in Bad : \A k \in Bad : m <= k
  <2>1. Bad \in SUBSET Nat
    OBVIOUS
  <2> QED BY <1>1, <2>1, LeastNatural
<1>3. m \in Nat /\ m # 0 /\ low + m <= high
  OBVIOUS
<1>4. m - 1 \in Nat /\ m - 1 \notin Bad
  BY <1>2, <1>3
<1>5. low + (m - 1) \in S /\ low + (m - 1) \in low .. high - 1
  BY <1>3, <1>4
<1>6. (low + (m - 1)) + 1 = low + m
  BY <1>3
<1>7. low + m \in S
  BY <1>5, <1>6
<1> QED BY <1>7

\* A function that starts from a value at a number and goes on by F.
Follows(s, low, high, V, zero, F) ==
  /\ s \in [low .. high -> V]
  /\ \A k \in low .. high : s[k] = IF k = low THEN zero ELSE F[k][s[k - 1]]

\* There is such a function.
LEMMA RecursionExists ==
  ASSUME NEW V, NEW low \in Int, NEW high \in Int, low <= high, NEW zero \in V,
         NEW F, \A k \in low + 1 .. high : \A v \in V : F[k][v] \in V
  PROVE  \E s : Follows(s, low, high, V, zero, F)
<1> DEFINE Solves(s, n) == Follows(s, low, n, V, zero, F)
           S == {n \in low .. high : \E s : Solves(s, n)}
<1>1. low \in S
  <2> DEFINE s == [k \in low .. low |-> zero]
  <2>1. Solves(s, low)
    BY DEF Follows
  <2> HIDE DEF s, Solves
  <2> QED BY <2>1
<1>2. ASSUME NEW n \in low .. high - 1, n \in S PROVE n + 1 \in S
  <2>1. PICK s : Solves(s, n)
    BY <1>2
  <2> DEFINE t == [k \in low .. n + 1 |-> IF k = n + 1 THEN F[n + 1][s[n]] ELSE s[k]]
  <2>2. n \in Int /\ low <= n /\ n + 1 \in low + 1 .. high /\ n + 1 \in low .. high
    OBVIOUS
  <2>3. s[n] \in V /\ F[n + 1][s[n]] \in V
    BY <2>1, <2>2 DEF Follows
  <2>4. t \in [low .. n + 1 -> V]
    BY <2>1, <2>2, <2>3 DEF Follows
  <2>5. ASSUME NEW k \in low .. n + 1
        PROVE  t[k] = IF k = low THEN zero ELSE F[k][t[k - 1]]
    <3>1. CASE k = n + 1
      <4>1. k - 1 = n /\ t[k - 1] = s[n] /\ k # low
        BY <3>1, <2>2
      <4> QED BY <3>1, <4>1
    <3>2. CASE k # n + 1
      <4>1. k \in low .. n /\ t[k] = s[k]
        BY <3>2, <2>2
      <4>2. k # low => t[k - 1] = s[k - 1]
        BY <4>1, <2>2
      <4> QED BY <4>1, <4>2, <2>1 DEF Follows
    <3> QED BY <3>1, <3>2
  <2>6. Solves(t, n + 1)
    BY <2>4, <2>5 DEF Follows
  <2> HIDE DEF t, Solves
  <2> QED BY <2>2, <2>6
<1>3. high \in S
  <2>1. high \in low .. high
    OBVIOUS
  <2> HIDE DEF S
  <2>2. low .. high \subseteq S
    BY <1>1, <1>2, InductionBetween
  <2> QED BY <2>1, <2>2
<1> QED BY <1>3

\* Where two functions agree before a number, they agree at it.
Together(s, t, low, high) ==
  \A k \in low + 1 .. high : s[k - 1] = t[k - 1] => s[k] = t[k]

\* Two functions that go on together from the same start agree as far as both go.
LEMMA RecursionUnique ==
  ASSUME NEW s, NEW t, NEW low \in Int, NEW high \in Int, low <= high, s[low] = t[low],
         Together(s, t, low, high)
  PROVE  \A k \in low .. high : s[k] = t[k]
<1> DEFINE S == {k \in low .. high : s[k] = t[k]}
<1>1. low \in S
  OBVIOUS
<1>2. ASSUME NEW k \in low .. high - 1, k \in S PROVE k + 1 \in S
  <2>1. k + 1 \in low + 1 .. high /\ (k + 1) - 1 = k /\ k + 1 \in low .. high
    OBVIOUS
  <2>2. s[(k + 1) - 1] = t[(k + 1) - 1]
    BY <1>2, <2>1
  <2>3. s[k + 1] = t[k + 1]
    BY <2>1, <2>2 DEF Together
  <2> QED BY <2>1, <2>3
<1> HIDE DEF S
<1>3. low .. high \subseteq S
  BY <1>1, <1>2, InductionBetween
<1> QED BY <1>3 DEF S

------------------------------------------------------------------------------
(* Sums. *)

\* The sum over no bins is 0, one more bin adds its summand.
LEMMA SumStep ==
  ASSUME NEW first \in Int, NEW last \in Int, first <= last + 1,
         NEW f, \A b \in first .. last : f[b] \in Int
  PROVE  /\ Sum(f, first, last) \in Int
         /\ last < first => Sum(f, first, last) = 0
         /\ first <= last => Sum(f, first, last) = Sum(f, first, last - 1) + f[last]
<1>0. PICK Low \in Int : Low = first - 1
  OBVIOUS
<1> DEFINE Sums(s, n) == s = [b \in Low .. n |-> IF b < first THEN 0 ELSE s[b - 1] + f[b]]
           sum(n) == CHOOSE s : Sums(s, n)
<1>1. Low \in Int /\ Low <= last /\ Low + 1 = first
  BY <1>0
<1>2. ASSUME NEW n \in Low .. last
      PROVE  /\ Sums(sum(n), n)
             /\ \A b \in Low .. n : sum(n)[b] \in Int
  <2> DEFINE F == [k \in Low + 1 .. n |-> [v \in Int |-> v + f[k]]]
  <2>1. \A k \in Low + 1 .. n : \A v \in Int : F[k][v] = v + f[k] /\ F[k][v] \in Int
    BY <1>1
  <2>2. n \in Int /\ Low <= n /\ 0 \in Int
    BY <1>1
  <2>3. PICK s : Follows(s, Low, n, Int, 0, F)
    <3>1. \A k \in Low + 1 .. n : \A v \in Int : F[k][v] \in Int
      BY <2>1
    <3> HIDE DEF F
    <3> QED BY <2>2, <3>1, RecursionExists
  <2>4. Sums(s, n)
    <3>1. ASSUME NEW k \in Low .. n PROVE s[k] = IF k < first THEN 0 ELSE s[k - 1] + f[k]
      <4>1. k = Low <=> k < first
        BY <1>1
      <4>2. k # Low => k - 1 \in Low .. n /\ k \in Low + 1 .. n
        BY <1>1
      <4>3. k # Low => F[k][s[k - 1]] = s[k - 1] + f[k]
        BY <4>2, <2>1, <2>3 DEF Follows
      <4> QED BY <2>3, <4>1, <4>3 DEF Follows
    <3> QED BY <2>3, <3>1 DEF Follows
  <2>5. Sums(sum(n), n)
    <3> HIDE DEF Sums
    <3> QED BY <2>4
  <2> DEFINE u == sum(n)
  <2>6. Sums(u, n)
    BY <2>5
  <2> HIDE DEF u
  <2>7. \A k \in Low .. n : s[k] = u[k]
    <3>1. s[Low] = u[Low]
      BY <2>4, <2>6, <2>2, <1>1
    <3>2. ASSUME NEW k \in Low + 1 .. n, s[k - 1] = u[k - 1] PROVE s[k] = u[k]
      <4>1. k \in Low .. n /\ ~ (k < first)
        BY <1>1
      <4> QED BY <2>4, <2>6, <3>2, <4>1
    <3>3. Low \in Int /\ n \in Int /\ Low <= n
      BY <1>1, <2>2
    <3>4. Together(s, u, Low, n)
      BY <3>2 DEF Together
    <3> QED BY ONLY <3>1, <3>3, <3>4, RecursionUnique
  <2> QED BY <2>5, <2>7, <2>3 DEF u, Follows
<1>3. \A n : Sum(f, first, n) = sum(n)[n]
  BY <1>0 DEF Sum
<1>4. last \in Low .. last
  BY <1>1
<1>5. last < first => sum(last)[last] = 0
  <2> DEFINE u == sum(last)
  <2>1. Sums(u, last)
    BY <1>2, <1>4
  <2> HIDE DEF u
  <2>2. last < first => u[last] = 0
    BY <2>1, <1>4
  <2> QED BY <2>2 DEF u
<1>6. ASSUME first <= last PROVE sum(last)[last] = sum(last - 1)[last - 1] + f[last]
  <2> DEFINE u == sum(last)
             v == sum(last - 1)
  <2>1. last - 1 \in Low .. last /\ last - 1 \in Low .. last - 1 /\ ~(last < first)
    BY <1>1, <1>6
  <2>2. Sums(u, last) /\ Sums(v, last - 1)
    BY <1>2, <1>4, <2>1
  <2> HIDE DEF u, v
  <2>3. \A k \in Low .. last - 1 : u[k] = v[k]
    <3>1. u[Low] = v[Low]
      BY <2>2, <2>1, <1>1
    <3>2. ASSUME NEW k \in Low + 1 .. last - 1, u[k - 1] = v[k - 1] PROVE u[k] = v[k]
      <4>1. k \in Low .. last /\ k \in Low .. last - 1 /\ ~ (k < first)
        BY <1>1
      <4> QED BY <2>2, <3>2, <4>1
    <3>3. Low \in Int /\ last - 1 \in Int /\ Low <= last - 1
      BY <1>1, <1>6
    <3>4. Together(u, v, Low, last - 1)
      BY <3>2 DEF Together
    <3> QED BY ONLY <3>1, <3>3, <3>4, RecursionUnique
  <2>4. u[last] = u[last - 1] + f[last]
    BY <2>2, <2>1, <1>4
  <2>5. u[last] = v[last - 1] + f[last]
    BY <2>3, <2>4, <2>1
  <2> QED BY <2>5 DEF u, v
<1>7. \A b \in Low .. last : sum(last)[b] \in Int
  BY <1>2, <1>4
<1> HIDE DEF sum
<1> QED BY <1>3, <1>4, <1>5, <1>6, <1>7

------------------------------------------------------------------------------
(* The records of bins. *)

\* A sequence lists a set, each element once.
Lists(s, S) ==
  /\ \A n \in DOMAIN s : s[n] \in S
  /\ \A x \in S : \E n \in DOMAIN s : s[n] = x
  /\ \A m, n \in DOMAIN s : s[m] = s[n] => m = n

\* One more element at the end.
LEMMA ListsAppend ==
  ASSUME NEW V, NEW s \in Seq(V), NEW S, Lists(s, S), NEW x \in V, x \notin S
  PROVE  Lists(Append(s, x), S \cup {x})
<1> DEFINE t == Append(s, x)
<1>1. /\ Len(s) \in Nat /\ DOMAIN s = 1 .. Len(s)
      /\ DOMAIN t = 1 .. Len(s) + 1
      /\ t[Len(s) + 1] = x /\ \A n \in DOMAIN s : t[n] = s[n]
  OBVIOUS
<1> HIDE DEF t
<1>2. \A n \in DOMAIN t : n \in DOMAIN s \/ n = Len(s) + 1
  BY <1>1
<1>3. DOMAIN s \subseteq DOMAIN t /\ Len(s) + 1 \in DOMAIN t
  BY <1>1
<1>4. \A n \in DOMAIN t : t[n] \in S \cup {x}
  BY <1>1, <1>2 DEF Lists
<1>5. \A y \in S \cup {x} : \E n \in DOMAIN t : t[n] = y
  BY <1>1, <1>3 DEF Lists
<1>6. ASSUME NEW m \in DOMAIN t, NEW n \in DOMAIN t, t[m] = t[n] PROVE m = n
  <2>1. CASE m \in DOMAIN s /\ n \in DOMAIN s
    BY <1>1, <1>6, <2>1 DEF Lists
  <2>2. CASE m \notin DOMAIN s
    <3>1. m = Len(s) + 1 /\ t[n] = x
      BY <1>1, <1>2, <1>6, <2>2
    <3>2. n \notin DOMAIN s
      BY <1>1, <3>1 DEF Lists
    <3> QED BY <1>2, <3>1, <3>2
  <2>3. CASE n \notin DOMAIN s
    <3>1. n = Len(s) + 1 /\ t[m] = x
      BY <1>1, <1>2, <1>6, <2>3
    <3>2. m \notin DOMAIN s
      BY <1>1, <3>1 DEF Lists
    <3> QED BY <1>2, <3>1, <3>2
  <2> QED BY <2>1, <2>2, <2>3
<1> QED BY <1>4, <1>5, <1>6 DEF Lists, t

\* The records of a bin are the places where the table has it, each once.
LEMMA RecordsAre ==
  ASSUME NEW X, NEW data \in Seq(X), NEW b
  PROVE  /\ Records(data, b) \in Seq(DOMAIN data)
         /\ Lists(Records(data, b), {d \in DOMAIN data : data[d] = b})
         /\ Len(Records(data, b)) <= Len(data)
<1> DEFINE N == Len(data)
           V == Seq(DOMAIN data)
           Finds(s) == s = [d \in 0 .. N |->
                              IF d = 0 THEN << >>
                              ELSE IF data[d] = b THEN Append(s[d - 1], d) ELSE s[d - 1]]
           found == CHOOSE s : Finds(s)
           F == [d \in 0 + 1 .. N |-> [v \in V |-> IF data[d] = b THEN Append(v, d) ELSE v]]
<1>1. N \in Nat /\ DOMAIN data = 1 .. N /\ 0 <= N /\ << >> \in V
  OBVIOUS
<1>2. \A d \in 0 + 1 .. N : \A v \in V :
        F[d][v] = (IF data[d] = b THEN Append(v, d) ELSE v) /\ F[d][v] \in V
  <2>1. ASSUME NEW d \in 0 + 1 .. N, NEW v \in V
        PROVE  F[d][v] = (IF data[d] = b THEN Append(v, d) ELSE v) /\ F[d][v] \in V
    <3>1. F[d][v] = (IF data[d] = b THEN Append(v, d) ELSE v)
      OBVIOUS
    <3>2. d \in DOMAIN data
      BY <1>1
    <3>3. Append(v, d) \in V
      BY <3>2
    <3> QED BY <3>1, <3>3
  <2> QED BY <2>1
<1>3. PICK s : Follows(s, 0, N, V, << >>, F)
  <2>1. 0 \in Int /\ N \in Int /\ \A d \in 0 + 1 .. N : \A v \in V : F[d][v] \in V
    BY <1>1, <1>2
  <2> HIDE DEF F, V, N
  <2> QED BY <1>1, <2>1, RecursionExists
<1>4. Finds(s)
  <2>1. s \in [0 .. N -> V]
    BY <1>3 DEF Follows
  <2> HIDE DEF V
  <2>2. ASSUME NEW d \in 0 .. N
        PROVE  s[d] = IF d = 0 THEN << >>
                      ELSE IF data[d] = b THEN Append(s[d - 1], d) ELSE s[d - 1]
    <3>1. s[d] = IF d = 0 THEN << >> ELSE F[d][s[d - 1]]
      BY <1>3 DEF Follows
    <3>2. d # 0 => d \in 0 + 1 .. N /\ d - 1 \in 0 .. N
      BY <1>1
    <3>3. d # 0 => s[d - 1] \in V
      BY <2>1, <3>2
    <3> HIDE DEF F
    <3> QED BY <1>2, <3>1, <3>2, <3>3
  <2> QED BY <2>1, <2>2
<1>5. Finds(found)
  <2> HIDE DEF Finds
  <2> QED BY <1>4
<1>6. Records(data, b) = found[N]
  BY DEF Records
<1> HIDE DEF found, F
<1> DEFINE Found(d) == /\ found[d] \in V
                       /\ Lists(found[d], {x \in 1 .. d : data[x] = b})
                       /\ Len(found[d]) <= d
           P == {d \in 0 .. N : Found(d)}
<1>7. 0 \in P
  <2>1. found[0] = << >>
    BY <1>1, <1>5
  <2>2. {x \in 1 .. 0 : data[x] = b} = {}
    OBVIOUS
  <2>3. Lists(<< >>, {})
    BY DEF Lists
  <2>4. << >> \in V /\ Len(<< >>) <= 0 /\ 0 \in 0 .. N
    BY <1>1
  <2> QED BY <2>1, <2>2, <2>3, <2>4
<1>8. ASSUME NEW d \in 0 .. N - 1, d \in P PROVE d + 1 \in P
  <2>1. d \in Nat /\ d + 1 \in 0 .. N /\ d + 1 \in DOMAIN data /\ (d + 1) - 1 = d /\ d + 1 # 0
    BY <1>1
  <2>2. found[d + 1] = IF data[d + 1] = b THEN Append(found[d], d + 1) ELSE found[d]
    BY <1>5, <2>1
  <2>3. /\ found[d] \in V
        /\ Lists(found[d], {x \in 1 .. d : data[x] = b})
        /\ Len(found[d]) <= d
    BY <1>8
  <2>4. CASE data[d + 1] = b
    <3>1. {x \in 1 .. d + 1 : data[x] = b} = {x \in 1 .. d : data[x] = b} \cup {d + 1}
      BY <2>1, <2>4
    <3>2. d + 1 \notin {x \in 1 .. d : data[x] = b}
      BY <2>1
    <3>3. Lists(Append(found[d], d + 1), {x \in 1 .. d : data[x] = b} \cup {d + 1})
      BY <2>1, <2>3, <3>2, ListsAppend
    <3>4. Append(found[d], d + 1) \in V /\ Len(Append(found[d], d + 1)) = Len(found[d]) + 1
      BY <2>1, <2>3
    <3>5. Len(found[d]) + 1 <= d + 1
      BY <2>1, <2>3
    <3> QED BY <2>1, <2>2, <2>4, <3>1, <3>3, <3>4, <3>5
  <2>5. CASE data[d + 1] # b
    <3>1. {x \in 1 .. d + 1 : data[x] = b} = {x \in 1 .. d : data[x] = b}
      BY <2>1, <2>5
    <3>2. Len(found[d]) \in Nat
      BY <2>3
    <3>3. found[d + 1] = found[d] /\ Len(found[d]) <= d + 1
      BY <2>1, <2>2, <2>3, <2>5, <3>2
    <3>4. Found(d + 1)
      <4> HIDE DEF V
      <4> QED BY <2>3, <3>1, <3>3
    <3> QED BY <2>1, <3>4
  <2> QED BY <2>4, <2>5
<1>9. N \in P
  <2>1. 0 \in Int /\ N \in Int /\ N \in 0 .. N
    BY <1>1
  <2> HIDE DEF P, N
  <2>2. 0 .. N \subseteq P
    BY <1>1, <1>7, <1>8, <2>1, InductionBetween
  <2> QED BY <2>1, <2>2
<1> QED BY <1>1, <1>6, <1>9

\* A sequence after another one lists both sets, when they have no element in common.
LEMMA ListsConcat ==
  ASSUME NEW V, NEW s \in Seq(V), NEW t \in Seq(V), NEW S, NEW R, Lists(s, S), Lists(t, R),
         S \cap R = {}
  PROVE  Lists(s \o t, S \cup R)
<1> DEFINE u == s \o t
<1>1. PICK k \in Nat : k = Len(s)
  OBVIOUS
<1>2. PICK l \in Nat : l = Len(t)
  OBVIOUS
<1>3. /\ DOMAIN s = 1 .. k /\ DOMAIN t = 1 .. l /\ DOMAIN u = 1 .. k + l
      /\ \A n \in 1 .. k : u[n] = s[n]
      /\ \A n \in 1 .. l : u[k + n] = t[n]
  BY <1>1, <1>2
<1> HIDE DEF u
<1>4. ASSUME NEW n \in DOMAIN u, n \notin DOMAIN s
      PROVE  n - k \in DOMAIN t /\ n = k + (n - k) /\ u[n] = t[n - k]
  <2>1. n - k \in 1 .. l /\ n = k + (n - k)
    BY <1>3, <1>4
  <2> QED BY <1>3, <2>1
<1>5. \A n \in DOMAIN t : k + n \in DOMAIN u /\ u[k + n] = t[n]
  BY <1>3
<1>6. \A n \in DOMAIN s : n \in DOMAIN u /\ u[n] = s[n]
  BY <1>3
<1>7. \A n \in DOMAIN u : /\ n \in DOMAIN s => u[n] \in S
                          /\ n \notin DOMAIN s => u[n] \in R
  BY <1>4, <1>6 DEF Lists
<1>8. \A x \in S \cup R : \E n \in DOMAIN u : u[n] = x
  <2>1. ASSUME NEW x \in S PROVE \E n \in DOMAIN u : u[n] = x
    BY <1>6 DEF Lists
  <2>2. ASSUME NEW x \in R PROVE \E n \in DOMAIN u : u[n] = x
    <3>1. PICK n \in DOMAIN t : t[n] = x
      BY DEF Lists
    <3> QED BY <1>5, <3>1
  <2> QED BY <2>1, <2>2
<1>9. ASSUME NEW m \in DOMAIN u, NEW n \in DOMAIN u, u[m] = u[n] PROVE m = n
  <2>1. m \in DOMAIN s <=> n \in DOMAIN s
    BY <1>7, <1>9
  <2>2. CASE m \in DOMAIN s
    BY <1>6, <1>9, <2>1, <2>2 DEF Lists
  <2>3. CASE m \notin DOMAIN s
    <3>1. m - k \in DOMAIN t /\ m = k + (m - k) /\ u[m] = t[m - k]
      BY <1>4, <2>3
    <3>2. n - k \in DOMAIN t /\ n = k + (n - k) /\ u[n] = t[n - k]
      BY <1>4, <2>1, <2>3
    <3>3. m - k = n - k
      BY <1>9, <3>1, <3>2 DEF Lists
    <3> QED BY <3>1, <3>2, <3>3
  <2> QED BY <2>2, <2>3
<1> QED BY <1>7, <1>8, <1>9 DEF Lists, u

\* The walk over no bins is empty, one more bin adds its records.
LEMMA WalkStep ==
  ASSUME NEW X, NEW data \in Seq(X), NEW first \in Int, NEW last \in Int, first <= last + 1
  PROVE  /\ WalkBins(data, first, last) \in Seq(DOMAIN data)
         /\ last < first => WalkBins(data, first, last) = << >>
         /\ first <= last => WalkBins(data, first, last)
                               = WalkBins(data, first, last - 1) \o Records(data, last)
<1>0. PICK Low \in Int : Low = first - 1
  OBVIOUS
<1> DEFINE V == Seq(DOMAIN data)
           Walks(s, n) == s = [b \in Low .. n |->
                                 IF b < first THEN << >> ELSE s[b - 1] \o Records(data, b)]
           walk(n) == CHOOSE s : Walks(s, n)
<1>1. Low \in Int /\ Low <= last /\ Low + 1 = first
  BY <1>0
<1>2. ASSUME NEW n \in Low .. last
      PROVE  /\ Walks(walk(n), n)
             /\ \A b \in Low .. n : walk(n)[b] \in V
  <2> DEFINE F == [k \in Low + 1 .. n |-> [v \in V |-> v \o Records(data, k)]]
  <2>1. \A k \in Low + 1 .. n : \A v \in V :
          F[k][v] = v \o Records(data, k) /\ F[k][v] \in V
    <3>1. ASSUME NEW k \in Low + 1 .. n, NEW v \in V
          PROVE  F[k][v] = v \o Records(data, k) /\ F[k][v] \in V
      <4>1. F[k][v] = v \o Records(data, k)
        OBVIOUS
      <4>2. Records(data, k) \in V
        BY RecordsAre
      <4>3. v \o Records(data, k) \in V
        BY <4>2
      <4> QED BY <4>1, <4>3
    <3> QED BY <3>1
  <2>2. n \in Int /\ Low <= n /\ << >> \in V
    BY <1>1
  <2>3. PICK s : Follows(s, Low, n, V, << >>, F)
    <3>1. \A k \in Low + 1 .. n : \A v \in V : F[k][v] \in V
      BY <2>1
    <3> HIDE DEF F, V
    <3> QED BY <2>2, <3>1, RecursionExists
  <2>4. Walks(s, n)
    <3>1. ASSUME NEW k \in Low .. n
          PROVE  s[k] = IF k < first THEN << >> ELSE s[k - 1] \o Records(data, k)
      <4>1. k = Low <=> k < first
        BY <1>1
      <4>2. k # Low => k - 1 \in Low .. n /\ k \in Low + 1 .. n
        BY <1>1
      <4> HIDE DEF F, V
      <4>3. k # Low => F[k][s[k - 1]] = s[k - 1] \o Records(data, k)
        BY <4>2, <2>1, <2>3 DEF Follows
      <4> QED BY <2>3, <4>1, <4>3 DEF Follows
    <3> QED BY <2>3, <3>1 DEF Follows
  <2>5. Walks(walk(n), n)
    <3> HIDE DEF Walks
    <3> QED BY <2>4
  <2> DEFINE u == walk(n)
  <2>6. Walks(u, n)
    BY <2>5
  <2> HIDE DEF u
  <2>7. \A k \in Low .. n : s[k] = u[k]
    <3>1. s[Low] = u[Low]
      BY <2>4, <2>6, <2>2, <1>1
    <3>2. ASSUME NEW k \in Low + 1 .. n, s[k - 1] = u[k - 1] PROVE s[k] = u[k]
      <4>1. k \in Low .. n /\ ~ (k < first)
        BY <1>1
      <4> QED BY <2>4, <2>6, <3>2, <4>1
    <3>3. Low \in Int /\ n \in Int /\ Low <= n
      BY <1>1, <2>2
    <3>4. Together(s, u, Low, n)
      BY <3>2 DEF Together
    <3> QED BY ONLY <3>1, <3>3, <3>4, RecursionUnique
  <2> QED BY <2>5, <2>7, <2>3 DEF u, Follows
<1>3. \A n : WalkBins(data, first, n) = walk(n)[n]
  BY <1>0 DEF WalkBins
<1>4. last \in Low .. last
  BY <1>1
<1>5. last < first => walk(last)[last] = << >>
  <2> DEFINE u == walk(last)
  <2>1. Walks(u, last)
    BY <1>2, <1>4
  <2> HIDE DEF u
  <2>2. last < first => u[last] = << >>
    BY <2>1, <1>4
  <2> QED BY <2>2 DEF u
<1>6. ASSUME first <= last
      PROVE  walk(last)[last] = walk(last - 1)[last - 1] \o Records(data, last)
  <2> DEFINE u == walk(last)
             v == walk(last - 1)
  <2>1. last - 1 \in Low .. last /\ last - 1 \in Low .. last - 1 /\ ~(last < first)
    BY <1>1, <1>6
  <2>2. Walks(u, last) /\ Walks(v, last - 1)
    BY <1>2, <1>4, <2>1
  <2> HIDE DEF u, v
  <2>3. \A k \in Low .. last - 1 : u[k] = v[k]
    <3>1. u[Low] = v[Low]
      BY <2>2, <2>1, <1>1
    <3>2. ASSUME NEW k \in Low + 1 .. last - 1, u[k - 1] = v[k - 1] PROVE u[k] = v[k]
      <4>1. k \in Low .. last /\ k \in Low .. last - 1 /\ ~ (k < first)
        BY <1>1
      <4> QED BY <2>2, <3>2, <4>1
    <3>3. Low \in Int /\ last - 1 \in Int /\ Low <= last - 1
      BY <1>1, <1>6
    <3>4. Together(u, v, Low, last - 1)
      BY <3>2 DEF Together
    <3> QED BY ONLY <3>1, <3>3, <3>4, RecursionUnique
  <2>4. u[last] = u[last - 1] \o Records(data, last)
    BY <2>2, <2>1, <1>4
  <2>5. u[last] = v[last - 1] \o Records(data, last)
    BY <2>3, <2>4, <2>1
  <2> QED BY <2>5 DEF u, v
<1>7. \A b \in Low .. last : walk(last)[b] \in V
  BY <1>2, <1>4
<1> HIDE DEF walk
<1> QED BY <1>3, <1>4, <1>5, <1>6, <1>7

------------------------------------------------------------------------------
(* Sums and walks over more and more bins. *)

\* Induction over the last bin: from no bin, one more at a time.
LEMMA InductionOverBins ==
  ASSUME NEW S, NEW first \in Int, NEW last \in Int, first <= last + 1, first - 1 \in S,
         \A b \in first .. last : b - 1 \in S => b \in S
  PROVE  last \in S
<1>1. PICK low \in Int : low = first - 1
  OBVIOUS
<1>2. low <= last /\ low \in S /\ last \in low .. last
  BY <1>1
<1>3. ASSUME NEW k \in low .. last - 1, k \in S PROVE k + 1 \in S
  <2>1. k + 1 \in first .. last /\ (k + 1) - 1 = k
    BY <1>1
  <2> QED BY <1>3, <2>1
<1>4. low .. last \subseteq S
  BY <1>2, <1>3, InductionBetween
<1> QED BY <1>2, <1>4

\* A sum of numbers that are not negative is not negative, and no larger than the
\* largest of them, as often as there are bins.
LEMMA SumBounds ==
  ASSUME NEW first \in Int, NEW last \in Int, first <= last + 1, NEW M \in Nat,
         NEW f, \A b \in first .. last : f[b] \in 0 .. M
  PROVE  Sum(f, first, last) \in Nat /\ Sum(f, first, last) <= (last + 1 - first) * M
<1> DEFINE P == {n \in first - 1 .. last :
                   Sum(f, first, n) \in Nat /\ Sum(f, first, n) <= (n + 1 - first) * M}
<1>1. first - 1 \in P
  <2>1. Sum(f, first, first - 1) = 0
    <3>1. first - 1 \in Int /\ first <= (first - 1) + 1 /\ first - 1 < first
      OBVIOUS
    <3>2. \A b \in first .. first - 1 : f[b] \in Int
      OBVIOUS
    <3> QED BY <3>1, <3>2, SumStep
  <2>2. (first - 1) + 1 - first = 0 /\ 0 * M = 0 /\ first - 1 \in first - 1 .. last
    OBVIOUS
  <2> QED BY <2>1, <2>2
<1>2. ASSUME NEW b \in first .. last, b - 1 \in P PROVE b \in P
  <2>1. b \in Int /\ first <= b /\ first <= b + 1 /\ b \in first - 1 .. last
    OBVIOUS
  <2>2. \A c \in first .. b : f[c] \in Int
    OBVIOUS
  <2>3. Sum(f, first, b) = Sum(f, first, b - 1) + f[b]
    BY <2>1, <2>2, SumStep
  <2>4. PICK x \in Nat : x = Sum(f, first, b - 1)
    BY <1>2
  <2>5. PICK k \in Int : k = b - first
    BY <2>1
  <2>6. x <= k * M
    <3>1. (b - 1) + 1 - first = k
      BY <2>1, <2>5
    <3> QED BY <1>2, <2>4, <3>1
  <2>7. (k + 1) * M = k * M + M /\ k * M \in Int
    OBVIOUS
  <2>8. x + f[b] \in Nat /\ x + f[b] <= (k + 1) * M
    BY <2>1, <2>6, <2>7
  <2>9. b + 1 - first = k + 1
    BY <2>1, <2>5
  <2> QED BY <2>1, <2>3, <2>4, <2>8, <2>9
<1> HIDE DEF P
<1>3. last \in P
  BY <1>1, <1>2, InductionOverBins
<1> QED BY <1>3 DEF P

\* The walk over bins lists their records; it is as long as they are many.
LEMMA WalkIs ==
  ASSUME NEW X, NEW data \in Seq(X), NEW first \in Int, NEW last \in Int, first <= last + 1,
         NEW f, \A b \in first .. last : f[b] = Len(Records(data, b))
  PROVE  /\ WalkBins(data, first, last) \in Seq(DOMAIN data)
         /\ Lists(WalkBins(data, first, last), {d \in DOMAIN data : data[d] \in first .. last})
         /\ Len(WalkBins(data, first, last)) = Sum(f, first, last)
<1> DEFINE V == DOMAIN data
           W(n) == WalkBins(data, first, n)
           Of(n) == {d \in V : data[d] \in first .. n}
           P == {n \in first - 1 .. last : Lists(W(n), Of(n)) /\ Len(W(n)) = Sum(f, first, n)}
<1>1. \A b \in first .. last : f[b] \in Int
  <2>1. \A b \in first .. last : Records(data, b) \in Seq(V)
    BY RecordsAre
  <2> QED BY <2>1
<1>2. first - 1 \in P
  <2>1. first - 1 \in Int /\ first <= (first - 1) + 1 /\ first - 1 < first
    OBVIOUS
  <2>2. \A b \in first .. first - 1 : f[b] \in Int
    OBVIOUS
  <2>3. Sum(f, first, first - 1) = 0
    BY <2>1, <2>2, SumStep
  <2>4. W(first - 1) = << >>
    BY <2>1, WalkStep
  <2>5. Of(first - 1) = {}
    OBVIOUS
  <2>6. Lists(<< >>, {}) /\ Len(<< >>) = 0
    BY DEF Lists
  <2>7. first - 1 \in first - 1 .. last
    OBVIOUS
  <2> QED BY <2>3, <2>4, <2>5, <2>6, <2>7
<1>3. ASSUME NEW b \in first .. last, b - 1 \in P PROVE b \in P
  <2>1. b \in Int /\ b - 1 \in Int /\ first <= b /\ first <= b + 1 /\ first <= (b - 1) + 1
        /\ b \in first - 1 .. last
    OBVIOUS
  <2>2. \A c \in first .. b : f[c] \in Int
    BY <1>1
  <2>3. Sum(f, first, b) = Sum(f, first, b - 1) + f[b]
    BY <2>1, <2>2, SumStep
  <2>4. PICK s \in Seq(V) : s = W(b - 1)
    BY <2>1, WalkStep
  <2>5. PICK t \in Seq(V) : t = Records(data, b)
    BY RecordsAre
  <2>6. W(b) = s \o t
    BY <2>1, <2>4, <2>5, WalkStep
  <2>7. PICK S : S = Of(b - 1)
    OBVIOUS
  <2>8. PICK R : R = {d \in DOMAIN data : data[d] = b}
    OBVIOUS
  <2>9. Lists(s, S) /\ Len(s) = Sum(f, first, b - 1)
    BY <1>3, <2>4, <2>7
  <2>10. Lists(t, R)
    BY <2>5, <2>8, RecordsAre
  <2>11. S \cap R = {}
    BY <2>1, <2>7, <2>8
  <2>12. S \cup R = Of(b)
    <3>1. first .. b = (first .. b - 1) \cup {b}
      BY <2>1
    <3> QED BY <2>7, <2>8, <3>1
  <2>13. Lists(s \o t, S \cup R)
    BY <2>9, <2>10, <2>11, ListsConcat
  <2>14. Len(s \o t) = Len(s) + Len(t) /\ Len(t) = f[b]
    BY <2>5
  <2> HIDE DEF W, Of
  <2> QED BY <2>1, <2>3, <2>6, <2>9, <2>12, <2>13, <2>14
<1> HIDE DEF P
<1>4. last \in P
  BY <1>2, <1>3, InductionOverBins
<1> QED BY <1>4, WalkStep DEF P

------------------------------------------------------------------------------
(* The inductive invariant. *)

Part == [first : Nat, last : Nat, synopsis : Nat, noisy_synopsis : Nat,
         dummy_num : Nat, stash_overflow_count : Nat]

\* The partitions take the bins up to a last one, each where the one before it ends.
Tiles(ps, upto) ==
  /\ \A p \in DOMAIN ps :
       /\ ps[p].first = IF p = 1 THEN 1 ELSE ps[p - 1].last + 1
       /\ ps[p].first <= ps[p].last
       /\ ps[p].last <= upto
  /\ upto = IF ps = << >> THEN 0 ELSE ps[Len(ps)].last

\* A partition reaches the threshold with its last bin and not before.
Reached(f, part, threshold) ==
  /\ threshold <= Sum(f, part.first, part.last)
  /\ threshold > 0 => Sum(f, part.first, part.last - 1) < threshold

\* What the child of a server loads.
Content(p) == Walk(p) \o [n \in 1 .. parts[p].dummy_num |-> Padding]

Typed ==
  /\ pc \in {"idle", "pack", "capacity", "distribute", "load"}
  /\ T \in Nat
  /\ iter \in 0 .. MaxIter
  /\ fixed_number_part \in BOOLEAN
  /\ num_servers \in Nat
  /\ i \in 1 .. NumBins + 1
  /\ start_idx \in 1 .. i
  /\ acc \in Nat
  /\ parts \in Seq(Part)

Input ==
  IF pc = "idle" THEN table = << >> /\ parts = << >>
  ELSE /\ table \in Tables
       /\ noised_syn \in [Bins -> Int]
       /\ \A b \in Bins : noised_syn[b] - synopsis[b] \in Noise
       /\ iter # 0

Packing ==
  pc = "pack" =>
    /\ Tiles(parts, start_idx - 1)
    /\ acc = Sum(noised_synopsis, start_idx, i - 1)
    /\ start_idx < i => acc < T
    /\ \A p \in DOMAIN parts : Reached(noised_synopsis, parts[p], T)

Packed ==
  pc \in {"capacity", "distribute", "load"} =>
    /\ Tiles(parts, NumBins)
    /\ \A p \in 1 .. Len(parts) - 1 : Reached(noised_synopsis, parts[p], T)

Counted ==
  \A p \in DOMAIN parts : parts[p].synopsis = Sum(synopsis, parts[p].first, parts[p].last)

Sized ==
  pc \in {"distribute", "load"} =>
    \A p \in DOMAIN parts :
      /\ parts[p].noisy_synopsis # 0
      /\ parts[p].synopsis + parts[p].dummy_num
           = parts[p].noisy_synopsis + parts[p].stash_overflow_count

Mapped ==
  pc = "load" =>
    pk_to_blockid = [p \in DOMAIN parts |-> [d \in Range(Walk(p)) |->
                       FirstBlock(p) + (CHOOSE n \in DOMAIN Walk(p) : Walk(p)[n] = d) - 1]]

Filled ==
  /\ pc # "load" => DOMAIN loaded = {}
  /\ DOMAIN loaded \subseteq DOMAIN parts
  /\ \A p \in DOMAIN loaded :
       loaded[p] = [block \in 0 .. Len(Content(p)) - 1 |-> Content(p)[block + 1]]

Inv == Typed /\ Input /\ Packing /\ Packed /\ Counted /\ Sized /\ Mapped /\ Filled

------------------------------------------------------------------------------
(* Facts about states. *)

\* A table has at least one bin, and every record is in one.
LEMMA TableFacts ==
  ASSUME NEW t \in Tables
  PROVE  /\ t \in Seq(Nat) /\ Len(t) \in Nat
         /\ Cardinality(Range(t)) \in Nat \ {0}
         /\ \A d \in DOMAIN t : t[d] \in 1 .. Cardinality(Range(t))
         /\ \A b \in 1 .. Cardinality(Range(t)) : \E d \in DOMAIN t : t[d] = b
<1>1. t \in Seq(Nat) /\ Len(t) \in Nat
  BY TablesAssumption
<1>2. PICK n \in 1 .. Len(t) : Range(t) = 1 .. n
  BY TablesAssumption
<1>3. Cardinality(Range(t)) = n
  BY <1>1, <1>2, FS_Interval
<1>4. Range(t) = {t[d] : d \in DOMAIN t}
  BY DEF Range
<1>5. \A d \in DOMAIN t : t[d] \in 1 .. n
  BY <1>2, <1>4
<1>6. \A b \in 1 .. n : \E d \in DOMAIN t : t[d] = b
  BY <1>2, <1>4
<1>7. n \in Nat \ {0}
  BY <1>1
<1> QED BY <1>1, <1>3, <1>5, <1>6, <1>7

\* Counts of records, and what packing goes by.
LEMMA CountFacts ==
  ASSUME table \in Tables, noised_syn \in [Bins -> Int]
  PROVE  /\ NumBins \in Nat \ {0}
         /\ \A b \in Bins : /\ synopsis[b] = Len(Records(table, b))
                            /\ synopsis[b] \in 1 .. Len(table)
                            /\ noised_syn[b] \in Int
                            /\ noised_synopsis[b] = AtLeast(0, noised_syn[b])
                            /\ noised_synopsis[b] \in Nat
<1>1. NumBins \in Nat \ {0}
  BY TableFacts DEF NumBins
<1>2. ASSUME NEW b \in Bins PROVE synopsis[b] = Len(Records(table, b)) /\ synopsis[b] \in 1 .. Len(table)
  <2>1. PICK d \in DOMAIN table : table[d] = b
    BY TableFacts DEF Bins, NumBins
  <2>2. table \in Seq(Nat) /\ Len(table) \in Nat
    BY TableFacts
  <2>3. PICK s \in Seq(DOMAIN table) : s = Records(table, b)
    BY <2>2, RecordsAre
  <2>4. Lists(s, {x \in DOMAIN table : table[x] = b}) /\ Len(s) <= Len(table)
    BY <2>2, <2>3, RecordsAre
  <2>5. \E n \in DOMAIN s : s[n] = d
    BY <2>1, <2>4 DEF Lists
  <2>6. Len(s) \in Nat /\ Len(s) # 0
    BY <2>5
  <2>7. synopsis[b] = Len(s)
    BY <2>3 DEF synopsis
  <2> QED BY <2>2, <2>3, <2>4, <2>6, <2>7
<1>3. ASSUME NEW b \in Bins
      PROVE  /\ noised_syn[b] \in Int
             /\ noised_synopsis[b] = AtLeast(0, noised_syn[b])
             /\ noised_synopsis[b] \in Nat
  BY DEF noised_synopsis, AtLeast
<1> QED BY <1>1, <1>2, <1>3

\* The sums that close a partition.
LEMMA PartSums ==
  ASSUME table \in Tables, noised_syn \in [Bins -> Int],
         NEW first \in Int, NEW last \in Int, 1 <= first, first <= last + 1, last <= NumBins
  PROVE  /\ Sum(synopsis, first, last) \in Nat
         /\ first <= last => Sum(synopsis, first, last) # 0
         /\ Sum(noised_syn, first, last) \in Int
         /\ Sum(noised_synopsis, first, last) \in Int
         /\ last < first => Sum(noised_synopsis, first, last) = 0
         /\ first <= last => Sum(noised_synopsis, first, last)
                               = Sum(noised_synopsis, first, last - 1) + noised_synopsis[last]
<1>1. NumBins \in Nat /\ \A b \in first .. last : b \in Bins
  BY CountFacts DEF Bins
<1>2. /\ \A b \in first .. last : synopsis[b] \in 0 .. Len(table) /\ synopsis[b] \in Int
      /\ \A b \in first .. last : synopsis[b] # 0
      /\ \A b \in first .. last : noised_syn[b] \in Int
      /\ \A b \in first .. last : noised_synopsis[b] \in Int
  BY <1>1, CountFacts
<1>3. Len(table) \in Nat
  BY TableFacts
<1>4. Sum(synopsis, first, last) \in Nat
  <2>1. \A b \in first .. last : synopsis[b] \in 0 .. Len(table)
    BY <1>2
  <2> QED BY <1>3, <2>1, SumBounds
<1>5. ASSUME first <= last PROVE Sum(synopsis, first, last) # 0
  <2>1. last \in first .. last /\ last - 1 \in Int /\ first <= (last - 1) + 1
    BY <1>5
  <2>2. \A b \in first .. last - 1 : synopsis[b] \in 0 .. Len(table)
    BY <1>2
  <2>3. Sum(synopsis, first, last - 1) \in Nat
    BY <1>3, <2>1, <2>2, SumBounds
  <2>4. \A b \in first .. last : synopsis[b] \in Int
    BY <1>2
  <2>5. Sum(synopsis, first, last) = Sum(synopsis, first, last - 1) + synopsis[last]
    BY <1>5, <2>4, SumStep
  <2>6. synopsis[last] \in Nat /\ synopsis[last] # 0
    BY <1>2, <1>3, <2>1
  <2> QED BY <2>3, <2>5, <2>6
<1>6. Sum(noised_syn, first, last) \in Int
  <2>1. \A b \in first .. last : noised_syn[b] \in Int
    BY <1>2
  <2> QED BY <2>1, SumStep
<1>7. /\ Sum(noised_synopsis, first, last) \in Int
      /\ last < first => Sum(noised_synopsis, first, last) = 0
      /\ first <= last => Sum(noised_synopsis, first, last)
                            = Sum(noised_synopsis, first, last - 1) + noised_synopsis[last]
  <2>1. \A b \in first .. last : noised_synopsis[b] \in Int
    BY <1>2
  <2> QED BY <2>1, SumStep
<1> QED BY <1>4, <1>5, <1>6, <1>7

\* A partition that is closed has the counts of its bins.
LEMMA CloseFacts ==
  ASSUME table \in Tables, noised_syn \in [Bins -> Int],
         NEW first \in Nat, NEW last \in Nat, 1 <= first, first <= last, last <= NumBins
  PROVE  /\ Close(first, last) \in Part
         /\ Close(first, last).first = first
         /\ Close(first, last).last = last
         /\ Close(first, last).synopsis = Sum(synopsis, first, last)
<1>1. Sum(synopsis, first, last) \in Nat /\ Sum(noised_syn, first, last) \in Int
  BY PartSums
<1>2. AtLeast(0, Sum(noised_syn, first, last)) \in Nat
  BY <1>1 DEF AtLeast
<1> QED BY <1>1, <1>2 DEF Close, Part

\* One more partition goes on where the last one ends.
LEMMA TilesAppend ==
  ASSUME NEW ps \in Seq(Part), NEW upto \in Nat, Tiles(ps, upto), NEW part \in Part,
         part.first = upto + 1, part.first <= part.last
  PROVE  Tiles(Append(ps, part), part.last)
<1> DEFINE qs == Append(ps, part)
<1>1. PICK n \in Nat : n = Len(ps)
  OBVIOUS
<1>2. /\ DOMAIN ps = 1 .. n /\ DOMAIN qs = 1 .. n + 1 /\ Len(qs) = n + 1 /\ qs # << >>
      /\ qs[n + 1] = part /\ \A p \in 1 .. n : qs[p] = ps[p]
      /\ ps = << >> <=> n = 0
  BY <1>1
<1>3. \A p \in 1 .. n : ps[p].last \in Nat /\ ps[p].first \in Nat
  <2>1. \A p \in DOMAIN ps : ps[p] \in Part
    OBVIOUS
  <2> QED BY <1>2, <2>1 DEF Part
<1>4. part.last \in Nat /\ upto <= part.last
  BY DEF Part
<1> HIDE DEF qs
<1>5. ASSUME NEW p \in 1 .. n + 1
      PROVE  /\ qs[p].first = IF p = 1 THEN 1 ELSE qs[p - 1].last + 1
             /\ qs[p].first <= qs[p].last
             /\ qs[p].last <= part.last
  <2>1. CASE p = n + 1
    <3>1. qs[p].last <= part.last /\ qs[p].first <= qs[p].last
      BY <1>2, <1>4, <2>1
    <3>2. n = 0 => upto = 0
      BY <1>2 DEF Tiles
    <3>3. n # 0 => upto = ps[n].last /\ qs[p - 1] = ps[n] /\ p # 1
      BY <1>1, <1>2, <2>1 DEF Tiles
    <3> QED BY <1>2, <2>1, <3>1, <3>2, <3>3
  <2>2. CASE p # n + 1
    <3>1. p \in 1 .. n /\ qs[p] = ps[p] /\ (p # 1 => qs[p - 1] = ps[p - 1])
      BY <1>2, <2>2
    <3>2. ps[p].last <= upto /\ ps[p].last \in Nat
      BY <1>2, <1>3, <3>1 DEF Tiles
    <3>3. p \in DOMAIN ps
      BY <1>2, <3>1
    <3>4. /\ ps[p].first = IF p = 1 THEN 1 ELSE ps[p - 1].last + 1
          /\ ps[p].first <= ps[p].last
      BY <3>3 DEF Tiles
    <3>5. ps[p].last <= part.last
      BY <1>4, <3>2
    <3> QED BY <3>1, <3>4, <3>5
  <2> QED BY <2>1, <2>2
<1>6. Tiles(qs, part.last)
  BY <1>2, <1>5 DEF Tiles
<1> QED BY <1>6 DEF qs

------------------------------------------------------------------------------
(* Every step keeps the invariant. *)

\* A step that leaves the table and its counts alone leaves what is computed from them.
LEMMA SameInput ==
  ASSUME UNCHANGED input
  PROVE  /\ NumBins' = NumBins /\ Bins' = Bins /\ KEff' = KEff
         /\ synopsis' = synopsis /\ noised_synopsis' = noised_synopsis
<1>1. NumBins' = NumBins /\ Bins' = Bins /\ KEff' = KEff
  BY DEF input, NumBins, Bins, KEff
<1> QED BY <1>1 DEF input, synopsis, noised_synopsis

\* The start.
LEMMA InvInit ==
  Init => Inv
<1> SUFFICES ASSUME Init PROVE Inv
  OBVIOUS
<1>1. NumBins = 0
  <2>1. Range(table) = {}
    BY DEF Init, Range
  <2> QED BY <2>1, FS_EmptySet DEF NumBins
<1>2. Typed
  <2>1. parts \in Seq(Part)
    BY DEF Init
  <2>2. 0 \in 0 .. MaxIter /\ 1 \in 1 .. NumBins + 1
    BY <1>1, ParametersAssumption
  <2>3. Init
    OBVIOUS
  <2>4. i \in 1 .. NumBins + 1 /\ start_idx \in 1 .. i
    BY <2>2, <2>3 DEF Init
  <2>5. iter \in 0 .. MaxIter /\ num_servers \in Nat /\ T \in Nat /\ acc \in Nat
    BY <2>2, <2>3 DEF Init
  <2>6. fixed_number_part \in BOOLEAN /\ pc = "idle"
    BY <2>3 DEF Init
  <2> QED BY <2>1, <2>4, <2>5, <2>6 DEF Typed
<1>3. DOMAIN loaded = {} /\ DOMAIN parts = {} /\ pc = "idle"
  BY DEF Init
<1>4. Input /\ Packing /\ Packed /\ Counted /\ Sized /\ Mapped /\ Filled
  BY <1>3 DEF Init, Input, Packing, Packed, Counted, Sized, Mapped, Filled
<1> QED BY <1>2, <1>4 DEF Inv

\* The number of partitions that the caller or the servers allow.
LEMMA KEffType ==
  ASSUME NEW n \in Nat
  PROVE  (IF n > 0 /\ n < PartNum THEN n ELSE PartNum) \in Nat \ {0}
BY ParametersAssumption

\* A table is partitioned.
LEMMA RepartitionMainKeeps ==
  ASSUME Repartition_Main
  PROVE  Inv'
<1>1. /\ table' \in Tables /\ pc' = "pack" /\ loaded' = << >>
      /\ fixed_number_part' \in BOOLEAN /\ num_servers' \in Nat /\ iter' = 1
      /\ i' = 1 /\ start_idx' = 1 /\ acc' = 0 /\ parts' = << >>
      /\ T' = IF fixed_number_part' THEN Share' ELSE Threshold
  BY ParametersAssumption DEF Repartition_Main, StartPass
<1>2. PICK noise \in [Bins' -> Noise] :
        noised_syn' = [b \in Bins' |-> synopsis'[b] + noise[b]]
  BY DEF Repartition_Main
<1>3. NumBins' \in Nat \ {0}
  BY <1>1, TableFacts DEF NumBins
<1>4. ASSUME NEW b \in Bins' PROVE synopsis'[b] \in Int /\ noise[b] \in Int
  <2>1. Records(table', b) \in Seq(DOMAIN table')
    BY <1>1, TableFacts, RecordsAre
  <2>2. synopsis'[b] = Len(Records(table', b))
    BY DEF synopsis
  <2>3. noise[b] \in Int
    BY ParametersAssumption
  <2> QED BY <2>1, <2>2, <2>3
<1>5. /\ noised_syn' \in [Bins' -> Int]
      /\ \A b \in Bins' : noised_syn'[b] - synopsis'[b] \in Noise
  <2>1. ASSUME NEW b \in Bins'
        PROVE  noised_syn'[b] \in Int /\ noised_syn'[b] - synopsis'[b] = noise[b]
    BY <1>2, <1>4
  <2> QED BY <1>2, <2>1
<1>6. T' \in Nat
  <2>1. Sum(noised_syn', 1, NumBins') \in Int
    <3>1. PICK nb \in Nat \ {0} : nb = NumBins'
      BY <1>3
    <3>2. \A b \in 1 .. nb : noised_syn'[b] \in Int
      BY <1>5, <3>1 DEF Bins
    <3>3. Sum(noised_syn', 1, nb) \in Int
      BY <3>2, SumStep
    <3> QED BY <3>1, <3>3
  <2>2. KEff' \in Nat \ {0}
    BY <1>1, KEffType DEF KEff
  <2>3. Ceil(AtLeast(0, Sum(noised_syn', 1, NumBins')), KEff') \in Int
    <3>1. PICK a \in Int : a = AtLeast(0, Sum(noised_syn', 1, NumBins'))
      BY <2>1 DEF AtLeast
    <3>2. PICK k \in Nat \ {0} : k = KEff'
      BY <2>2
    <3>3. (a + k - 1) \div k \in Int
      BY <3>1, <3>2
    <3> QED BY <3>1, <3>2, <3>3 DEF Ceil
  <2>4. Share' \in Nat
    BY <2>3 DEF Share, AtLeast
  <2> QED BY <1>1, <2>4, ParametersAssumption
<1>7. Typed'
  <2>1. parts' \in Seq(Part) /\ iter' \in 0 .. MaxIter
    BY <1>1, ParametersAssumption
  <2>2. i' \in 1 .. NumBins' + 1
    <3>1. PICK nb \in Nat : nb = NumBins'
      BY <1>3
    <3>2. 1 \in 1 .. nb + 1
      OBVIOUS
    <3> QED BY <1>1, <3>1, <3>2
  <2> QED BY <1>1, <1>6, <2>1, <2>2 DEF Typed
<1>8. Input'
  BY <1>1, <1>5 DEF Input
<1>9. Packing'
  <2>1. Sum(noised_synopsis', 1, 0) = 0
    <3>1. \A b \in 1 .. 0 : noised_synopsis'[b] \in Int
      OBVIOUS
    <3> QED BY <3>1, SumStep
  <2>2. Tiles(<< >>, 0)
    BY DEF Tiles
  <2> QED BY <1>1, <2>1, <2>2 DEF Packing
<1>10. Packed' /\ Counted' /\ Sized' /\ Mapped' /\ Filled'
  BY <1>1 DEF Packed, Counted, Sized, Mapped, Filled
<1> QED BY <1>7, <1>8, <1>9, <1>10 DEF Inv

\* One bin is looked at.
LEMMA PackBinKeeps ==
  ASSUME Inv, PackBin
  PROVE  Inv'
<1>1. /\ pc = "pack" /\ i \in Bins /\ i' = i + 1
      /\ UNCHANGED <<input, pc, T, iter, pk_to_blockid, loaded>>
  BY DEF PackBin
<1>2. /\ table \in Tables /\ noised_syn \in [Bins -> Int] /\ iter # 0
      /\ \A b \in Bins : noised_syn[b] - synopsis[b] \in Noise
  BY <1>1 DEF Inv, Input
<1>3. /\ T \in Nat /\ iter \in 0 .. MaxIter /\ acc \in Nat /\ parts \in Seq(Part)
      /\ start_idx \in 1 .. i /\ fixed_number_part \in BOOLEAN /\ num_servers \in Nat
  BY DEF Inv, Typed
<1>4. /\ NumBins' = NumBins /\ Bins' = Bins
      /\ synopsis' = synopsis /\ noised_synopsis' = noised_synopsis
  BY <1>1, SameInput
<1>5. /\ i \in Nat /\ start_idx \in Nat /\ 1 <= start_idx /\ start_idx <= i /\ i <= NumBins
      /\ NumBins \in Nat /\ noised_synopsis[i] \in Nat
  BY <1>1, <1>2, <1>3, CountFacts DEF Bins
<1>6. /\ Tiles(parts, start_idx - 1)
      /\ acc = Sum(noised_synopsis, start_idx, i - 1)
      /\ start_idx < i => acc < T
      /\ \A p \in DOMAIN parts : Reached(noised_synopsis, parts[p], T)
  BY <1>1 DEF Inv, Packing
<1>7. PICK sum \in Nat : sum = acc + noised_synopsis[i]
  BY <1>3, <1>5
<1>8. sum = Sum(noised_synopsis, start_idx, i)
  BY <1>2, <1>5, <1>6, <1>7, PartSums
<1>9. start_idx = i => acc = 0
  <2>1. start_idx = i => i - 1 < start_idx /\ i - 1 \in Int /\ start_idx <= (i - 1) + 1
                         /\ i - 1 <= NumBins
    BY <1>5
  <2> QED BY <1>2, <1>5, <1>6, <2>1, PartSums
<1>10. Input'
  BY <1>1, <1>2, <1>4 DEF Input, input
<1>11. i' \in 1 .. NumBins + 1
  BY <1>1, <1>5
<1>12. CASE Reaches(sum)
  <2> DEFINE part == Close(start_idx, i)
  <2>1. parts' = Append(parts, part) /\ start_idx' = i + 1 /\ acc' = 0
    BY <1>7, <1>12 DEF PackBin
  <2>2. /\ part \in Part /\ part.first = start_idx /\ part.last = i
        /\ part.synopsis = Sum(synopsis, part.first, part.last)
    BY <1>2, <1>5, CloseFacts
  <2> HIDE DEF part
  <2>3. PICK n \in Nat : n = Len(parts)
    BY <1>3
  <2>4. /\ DOMAIN parts = 1 .. n /\ DOMAIN parts' = 1 .. n + 1
        /\ parts'[n + 1] = part /\ \A p \in 1 .. n : parts'[p] = parts[p]
    BY <1>3, <2>1, <2>2, <2>3
  <2>5. Typed'
    <3>1. parts' \in Seq(Part)
      BY <1>3, <2>1, <2>2
    <3>2. start_idx' \in 1 .. i'
      BY <1>1, <1>5, <2>1
    <3>3. acc' \in Nat
      BY <2>1
    <3> QED BY <1>1, <1>3, <1>4, <1>11, <3>1, <3>2, <3>3 DEF Typed, input
  <2>6. Reached(noised_synopsis, part, T)
    <3>1. T <= sum
      BY <1>12 DEF Reaches
    <3>2. T > 0 => acc < T
      BY <1>3, <1>5, <1>6, <1>9
    <3> QED BY <1>6, <1>8, <2>2, <3>1, <3>2 DEF Reached
  <2>7. Packing'
    <3>1. Tiles(parts', start_idx' - 1)
      <4>1. start_idx - 1 \in Nat /\ part.first = (start_idx - 1) + 1 /\ part.first <= part.last
        BY <1>5, <2>2
      <4>2. Tiles(Append(parts, part), part.last)
        BY <1>3, <1>6, <2>2, <4>1, TilesAppend
      <4> QED BY <1>5, <2>1, <2>2, <4>2
    <3>2. acc' = Sum(noised_synopsis', start_idx', i' - 1)
      <4>1. i + 1 \in Int /\ 1 <= i + 1 /\ i + 1 <= i + 1 /\ i < i + 1 /\ (i + 1) - 1 = i
        BY <1>5
      <4>2. Sum(noised_synopsis, i + 1, i) = 0
        BY <1>2, <1>5, <4>1, PartSums
      <4> QED BY <1>1, <1>4, <2>1, <4>1, <4>2
    <3>3. ~ (start_idx' < i')
      BY <1>1, <1>5, <2>1
    <3>4. \A p \in DOMAIN parts' : Reached(noised_synopsis', parts'[p], T')
      <4>1. ASSUME NEW p \in 1 .. n + 1 PROVE Reached(noised_synopsis, parts'[p], T)
        <5>1. p \in 1 .. n \/ p = n + 1
          OBVIOUS
        <5> QED BY <1>6, <2>4, <2>6, <5>1
      <4> QED BY <1>1, <1>4, <2>4, <4>1
    <3> QED BY <3>1, <3>2, <3>3, <3>4 DEF Packing
  <2>8. Counted'
    <3>1. ASSUME NEW p \in 1 .. n + 1
          PROVE  parts'[p].synopsis = Sum(synopsis, parts'[p].first, parts'[p].last)
      <4>1. p \in 1 .. n \/ p = n + 1
        OBVIOUS
      <4> QED BY <2>2, <2>4, <4>1 DEF Inv, Counted
    <3> QED BY <1>4, <2>4, <3>1 DEF Counted
  <2>9. Packed' /\ Sized' /\ Mapped' /\ Filled'
    BY <1>1 DEF Packed, Sized, Mapped, Filled, Inv
  <2> QED BY <1>10, <2>5, <2>7, <2>8, <2>9 DEF Inv
<1>13. CASE ~ Reaches(sum)
  <2>1. parts' = parts /\ start_idx' = start_idx /\ acc' = sum
    BY <1>7, <1>13 DEF PackBin
  <2>2. Typed'
    <3>1. start_idx' \in 1 .. i'
      BY <1>1, <1>5, <2>1
    <3> QED BY <1>1, <1>3, <1>4, <1>7, <1>11, <2>1, <3>1 DEF Typed, input
  <2>3. Packing'
    <3>1. acc' < T'
      BY <1>1, <1>3, <1>7, <1>13, <2>1 DEF Reaches
    <3>2. i' - 1 = i
      BY <1>1, <1>5
    <3> QED BY <1>1, <1>4, <1>6, <1>8, <2>1, <3>1, <3>2 DEF Packing
  <2>4. Counted'
    BY <1>4, <2>1 DEF Counted, Inv
  <2>5. Packed' /\ Sized' /\ Mapped' /\ Filled'
    BY <1>1 DEF Packed, Sized, Mapped, Filled, Inv
  <2> QED BY <1>10, <2>2, <2>3, <2>4, <2>5 DEF Inv
<1> QED BY <1>12, <1>13

\* Another pass with a higher threshold.
LEMMA NextPassKeeps ==
  ASSUME Inv, NextPass
  PROVE  Inv'
<1>1. /\ pc = "pack" /\ pc' = "pack" /\ iter < MaxIter /\ iter' = iter + 1 /\ T' = Grown
      /\ i' = 1 /\ start_idx' = 1 /\ acc' = 0 /\ parts' = << >>
      /\ UNCHANGED <<input, pk_to_blockid, loaded>>
  BY DEF NextPass, StartPass
<1>2. /\ table \in Tables /\ noised_syn \in [Bins -> Int]
      /\ \A b \in Bins : noised_syn[b] - synopsis[b] \in Noise
  BY <1>1 DEF Inv, Input
<1>3. T \in Nat /\ iter \in 0 .. MaxIter /\ fixed_number_part \in BOOLEAN /\ num_servers \in Nat
  BY DEF Inv, Typed
<1>4. /\ NumBins' = NumBins /\ Bins' = Bins
      /\ synopsis' = synopsis /\ noised_synopsis' = noised_synopsis
  BY <1>1, SameInput
<1>5. PICK n \in Nat : n = NumBins
  BY <1>2, CountFacts
<1>6. iter' \in 0 .. MaxIter /\ iter' # 0
  BY <1>1, <1>3, ParametersAssumption
<1>7. Typed'
  <2>1. T' \in Nat
    BY <1>1, <1>3 DEF Grown, Ceil
  <2>2. 1 \in 1 .. n + 1
    OBVIOUS
  <2>3. i' \in 1 .. NumBins' + 1
    BY <1>1, <1>4, <1>5, <2>2
  <2>4. parts' \in Seq(Part) /\ acc' \in Nat /\ start_idx' \in 1 .. i'
    BY <1>1
  <2> QED BY <1>1, <1>3, <1>6, <2>1, <2>3, <2>4 DEF Typed, input
<1>8. Input'
  BY <1>1, <1>2, <1>4, <1>6 DEF Input, input
<1>9. Packing'
  <2>1. Sum(noised_synopsis, 1, 0) = 0
    <3>1. \A b \in 1 .. 0 : noised_synopsis[b] \in Int
      OBVIOUS
    <3> QED BY <3>1, SumStep
  <2>2. Tiles(<< >>, 0)
    BY DEF Tiles
  <2> QED BY <1>1, <1>4, <2>1, <2>2 DEF Packing
<1>10. Packed' /\ Counted' /\ Sized' /\ Mapped' /\ Filled'
  BY <1>1 DEF Packed, Counted, Sized, Mapped, Filled, Inv
<1> QED BY <1>7, <1>8, <1>9, <1>10 DEF Inv

\* What a pass leaves with the bins that are left.
LEMMA RestFacts ==
  ASSUME Inv, pc = "pack", i \notin Bins
  PROVE  /\ WithRest \in Seq(Part)
         /\ Tiles(WithRest, NumBins)
         /\ \A p \in 1 .. Len(WithRest) - 1 : Reached(noised_synopsis, WithRest[p], T)
         /\ \A p \in DOMAIN WithRest :
              WithRest[p].synopsis = Sum(synopsis, WithRest[p].first, WithRest[p].last)
<1>1. table \in Tables /\ noised_syn \in [Bins -> Int]
  BY DEF Inv, Input
<1>2. parts \in Seq(Part) /\ start_idx \in 1 .. i /\ i \in 1 .. NumBins + 1
  BY DEF Inv, Typed
<1>3. PICK nb \in Nat : nb = NumBins
  BY <1>1, CountFacts
<1>4. i = nb + 1 /\ start_idx \in 1 .. nb + 1
  BY <1>2, <1>3 DEF Bins
<1>5. /\ Tiles(parts, start_idx - 1)
      /\ \A p \in DOMAIN parts : Reached(noised_synopsis, parts[p], T)
  BY DEF Inv, Packing
<1>6. PICK n \in Nat : n = Len(parts)
  BY <1>2
<1>7. DOMAIN parts = 1 .. n
  BY <1>2, <1>6
<1>8. \A p \in DOMAIN parts :
        parts[p].synopsis = Sum(synopsis, parts[p].first, parts[p].last)
  BY DEF Inv, Counted
<1>9. CASE start_idx \in Bins
  <2> DEFINE part == Close(start_idx, NumBins)
  <2>1. start_idx \in Nat /\ 1 <= start_idx /\ start_idx <= nb
    BY <1>3, <1>9 DEF Bins
  <2>2. /\ part \in Part /\ part.first = start_idx /\ part.last = nb
        /\ part.synopsis = Sum(synopsis, part.first, part.last)
    BY <1>1, <1>3, <2>1, CloseFacts
  <2>3. WithRest = Append(parts, part)
    BY <1>9 DEF WithRest
  <2> HIDE DEF part
  <2>4. PICK qs : qs = WithRest
    OBVIOUS
  <2>5. /\ qs \in Seq(Part) /\ Len(qs) = n + 1 /\ DOMAIN qs = 1 .. n + 1
        /\ qs[n + 1] = part /\ \A p \in 1 .. n : qs[p] = parts[p]
    BY <1>2, <1>6, <2>2, <2>3, <2>4
  <2>6. Tiles(qs, nb)
    <3>1. start_idx - 1 \in Nat /\ part.first = (start_idx - 1) + 1 /\ part.first <= part.last
      BY <2>1, <2>2
    <3>2. Tiles(Append(parts, part), part.last)
      BY <1>2, <1>5, <2>2, <3>1, TilesAppend
    <3> QED BY <2>2, <2>3, <2>4, <3>2
  <2>7. \A p \in 1 .. Len(qs) - 1 : Reached(noised_synopsis, qs[p], T)
    <3>1. 1 .. Len(qs) - 1 = 1 .. n
      BY <2>5
    <3> QED BY <1>5, <1>7, <2>5, <3>1
  <2>8. ASSUME NEW p \in DOMAIN qs PROVE qs[p].synopsis = Sum(synopsis, qs[p].first, qs[p].last)
    <3>1. p \in 1 .. n \/ p = n + 1
      BY <2>5
    <3> QED BY <1>7, <1>8, <2>2, <2>5, <3>1
  <2> QED BY <1>3, <2>4, <2>5, <2>6, <2>7, <2>8
<1>10. CASE start_idx \notin Bins
  <2>1. WithRest = parts
    BY <1>10 DEF WithRest
  <2>2. start_idx - 1 = nb
    BY <1>3, <1>4, <1>10 DEF Bins
  <2>3. \A p \in 1 .. Len(parts) - 1 : Reached(noised_synopsis, parts[p], T)
    BY <1>5, <1>6, <1>7
  <2> QED BY <1>2, <1>3, <1>5, <1>8, <2>1, <2>2, <2>3
<1> QED BY <1>9, <1>10

\* The last pass.
LEMMA LastPassKeeps ==
  ASSUME Inv, LastPass
  PROVE  Inv'
<1>1. /\ pc = "pack" /\ i \notin Bins /\ pc' = "capacity" /\ parts' = WithRest
      /\ UNCHANGED <<input, packing, pk_to_blockid, loaded>>
  BY DEF LastPass
<1>2. UNCHANGED <<T, iter, i, start_idx, acc>>
  BY <1>1 DEF packing
<1>3. /\ NumBins' = NumBins /\ Bins' = Bins
      /\ synopsis' = synopsis /\ noised_synopsis' = noised_synopsis
  BY <1>1, SameInput
<1>4. PICK qs : qs = WithRest
  OBVIOUS
<1>5. /\ qs \in Seq(Part)
      /\ Tiles(qs, NumBins)
      /\ \A p \in 1 .. Len(qs) - 1 : Reached(noised_synopsis, qs[p], T)
      /\ \A p \in DOMAIN qs : qs[p].synopsis = Sum(synopsis, qs[p].first, qs[p].last)
  BY <1>1, <1>4, RestFacts
<1>6. parts' = qs
  BY <1>1, <1>4
<1>7. Typed'
  BY <1>1, <1>2, <1>3, <1>5, <1>6 DEF Typed, Inv, input
<1>8. Input'
  BY <1>1, <1>2, <1>3 DEF Inv, Input, input
<1>9. Packed' /\ Counted'
  BY <1>2, <1>3, <1>5, <1>6 DEF Packed, Counted
<1>10. Packing' /\ Sized' /\ Mapped' /\ Filled'
  BY <1>1 DEF Packing, Sized, Mapped, Filled, Inv
<1> QED BY <1>7, <1>8, <1>9, <1>10 DEF Inv

\* Other sizes leave the bins of the partitions as they are.
LEMMA TilesSame ==
  ASSUME NEW ps \in Seq(Part), NEW qs \in Seq(Part), NEW upto, Tiles(ps, upto),
         Len(qs) = Len(ps),
         \A p \in DOMAIN ps : qs[p].first = ps[p].first /\ qs[p].last = ps[p].last
  PROVE  Tiles(qs, upto)
<1>1. PICK n \in Nat : n = Len(ps)
  OBVIOUS
<1>2. /\ DOMAIN ps = 1 .. n /\ DOMAIN qs = 1 .. n /\ Len(qs) = n
      /\ ps = << >> <=> n = 0
      /\ qs = << >> <=> n = 0
  BY <1>1
<1>3. ASSUME NEW p \in 1 .. n
      PROVE  /\ qs[p].first = IF p = 1 THEN 1 ELSE qs[p - 1].last + 1
             /\ qs[p].first <= qs[p].last
             /\ qs[p].last <= upto
  <2>1. p # 1 => p - 1 \in 1 .. n
    OBVIOUS
  <2>2. /\ ps[p].first = IF p = 1 THEN 1 ELSE ps[p - 1].last + 1
        /\ ps[p].first <= ps[p].last
        /\ ps[p].last <= upto
    BY <1>2 DEF Tiles
  <2>3. qs[p].first = ps[p].first /\ qs[p].last = ps[p].last
    BY <1>2
  <2>4. p # 1 => qs[p - 1].last = ps[p - 1].last
    BY <1>2, <2>1
  <2> QED BY <2>2, <2>3, <2>4
<1>4. upto = IF qs = << >> THEN 0 ELSE qs[n].last
  <2>1. upto = IF ps = << >> THEN 0 ELSE ps[n].last
    BY <1>1 DEF Tiles
  <2>2. n # 0 => n \in DOMAIN ps
    BY <1>2
  <2> QED BY <1>2, <2>1, <2>2
<1> QED BY <1>2, <1>3, <1>4 DEF Tiles

\* What both ways to set a size do: padding or the stash make up the difference.
LEMMA SizeFacts ==
  ASSUME NEW part \in Part, part.synopsis # 0,
         NEW q, q = WithCapacity(part) \/ q = WithMinimum(WithCapacity(part))
  PROVE  /\ q \in Part
         /\ q.first = part.first /\ q.last = part.last /\ q.synopsis = part.synopsis
         /\ q.noisy_synopsis # 0
         /\ q.synopsis + q.dummy_num = q.noisy_synopsis + q.stash_overflow_count
<1>1. PICK c : c = WithCapacity(part)
  OBVIOUS
<1>2. /\ part.first \in Nat /\ part.last \in Nat /\ part.synopsis \in Nat
      /\ part.noisy_synopsis \in Nat
  BY DEF Part
<1>3. PICK size : size = AtLeast(1, part.noisy_synopsis)
  OBVIOUS
<1>4. size \in Nat /\ size # 0
  BY <1>2, <1>3 DEF AtLeast
<1>5. PICK dummies : dummies = AtLeast(0, size - part.synopsis)
  OBVIOUS
<1>6. PICK over : over = AtLeast(0, part.synopsis - size)
  OBVIOUS
<1>7. /\ dummies \in Nat /\ over \in Nat
      /\ part.synopsis + dummies = size + over
  BY <1>2, <1>4, <1>5, <1>6 DEF AtLeast
<1>8. c = [part EXCEPT !.noisy_synopsis = size, !.dummy_num = dummies,
                       !.stash_overflow_count = over]
  BY <1>1, <1>3, <1>5, <1>6 DEF WithCapacity
<1>9. /\ c \in Part
      /\ c.first = part.first /\ c.last = part.last /\ c.synopsis = part.synopsis
      /\ c.noisy_synopsis = size /\ c.dummy_num = dummies /\ c.stash_overflow_count = over
  BY <1>4, <1>7, <1>8 DEF Part
<1>10. CASE q = c
  BY <1>4, <1>7, <1>9, <1>10
<1>11. CASE q # c
  <2>1. q = WithMinimum(c)
    BY <1>1, <1>11
  <2>2. PICK least : least = IF c.synopsis <= MinCapacity THEN c.synopsis ELSE MinCapacity
    OBVIOUS
  <2>3. /\ ~ (c.noisy_synopsis >= MinCapacity)
        /\ q = [c EXCEPT !.noisy_synopsis = least, !.dummy_num = 0,
                         !.stash_overflow_count = c.synopsis - least]
    BY <1>11, <2>1, <2>2 DEF WithMinimum
  <2>4. least \in Nat /\ least # 0 /\ c.synopsis - least \in Nat
    BY <1>2, <1>4, <1>9, <2>2, <2>3, ParametersAssumption
  <2>5. /\ q \in Part
        /\ q.first = c.first /\ q.last = c.last /\ q.synopsis = c.synopsis
        /\ q.noisy_synopsis = least /\ q.dummy_num = 0
        /\ q.stash_overflow_count = c.synopsis - least
    BY <1>9, <2>3, <2>4 DEF Part
  <2> QED BY <1>2, <1>9, <2>4, <2>5
<1> QED BY <1>10, <1>11

\* A partition is not empty and none of its bins is.
LEMMA PartFacts ==
  ASSUME Inv, pc \in {"capacity", "distribute", "load"}, NEW p \in DOMAIN parts
  PROVE  /\ parts[p] \in Part
         /\ parts[p].first \in Nat /\ parts[p].last \in Nat
         /\ 1 <= parts[p].first /\ parts[p].first <= parts[p].last
         /\ parts[p].last <= NumBins
         /\ parts[p].synopsis # 0
<1>1. parts \in Seq(Part) /\ Tiles(parts, NumBins)
  BY DEF Inv, Typed, Packed
<1>2. parts[p] \in Part
  BY <1>1
<1>3. parts[p].first \in Nat /\ parts[p].last \in Nat
  BY <1>2 DEF Part
<1>4. parts[p].first <= parts[p].last /\ parts[p].last <= NumBins
  BY <1>1 DEF Tiles
<1>5. 1 <= parts[p].first
  <2>1. parts[p].first = IF p = 1 THEN 1 ELSE parts[p - 1].last + 1
    BY <1>1 DEF Tiles
  <2>2. p \in Nat /\ (p # 1 => p - 1 \in DOMAIN parts)
    BY <1>1
  <2>3. p # 1 => parts[p - 1].last \in Nat
    <3>1. p # 1 => parts[p - 1] \in Part
      BY <1>1, <2>2
    <3> QED BY <3>1 DEF Part
  <2> QED BY <2>1, <2>2, <2>3
<1>6. table \in Tables /\ noised_syn \in [Bins -> Int]
  BY DEF Inv, Input
<1>7. Sum(synopsis, parts[p].first, parts[p].last) # 0
  <2>1. PICK f \in Nat, l \in Nat : f = parts[p].first /\ l = parts[p].last
    BY <1>3
  <2> QED BY <1>4, <1>5, <1>6, <2>1, PartSums
<1>8. parts[p].synopsis = Sum(synopsis, parts[p].first, parts[p].last)
  BY DEF Inv, Counted
<1> QED BY <1>2, <1>3, <1>4, <1>5, <1>7, <1>8

\* The sizes of the trees are set.
LEMMA SetCapacitiesKeeps ==
  ASSUME Inv, SetCapacities
  PROVE  Inv'
<1>1. /\ pc = "capacity" /\ pc' = "distribute"
      /\ UNCHANGED <<input, packing, pk_to_blockid, loaded>>
  BY DEF SetCapacities
<1>2. UNCHANGED <<T, iter, i, start_idx, acc>>
  BY <1>1 DEF packing
<1>3. /\ NumBins' = NumBins /\ Bins' = Bins
      /\ synopsis' = synopsis /\ noised_synopsis' = noised_synopsis
  BY <1>1, SameInput
<1>4. PICK qs : qs = parts'
  OBVIOUS
<1>5. PICK n \in Nat : n = Len(parts)
  BY DEF Inv, Typed
<1>6. parts \in Seq(Part) /\ DOMAIN parts = 1 .. n
  BY <1>5 DEF Inv, Typed
<1>7. /\ qs = [p \in 1 .. n |-> qs[p]]
      /\ \A p \in 1 .. n : \/ qs[p] = WithCapacity(parts[p])
                           \/ qs[p] = WithMinimum(WithCapacity(parts[p]))
  BY <1>4, <1>6 DEF SetCapacities
<1>8. \A p \in 1 .. n :
        /\ qs[p] \in Part
        /\ qs[p].first = parts[p].first /\ qs[p].last = parts[p].last
        /\ qs[p].synopsis = parts[p].synopsis
        /\ qs[p].noisy_synopsis # 0
        /\ qs[p].synopsis + qs[p].dummy_num = qs[p].noisy_synopsis + qs[p].stash_overflow_count
  <2>1. ASSUME NEW p \in 1 .. n PROVE parts[p] \in Part /\ parts[p].synopsis # 0
    BY <1>1, <1>6, PartFacts
  <2> QED BY <1>7, <2>1, SizeFacts
<1>9. qs \in Seq(Part) /\ Len(qs) = n /\ DOMAIN qs = 1 .. n
  BY <1>7, <1>8
<1>10. Tiles(qs, NumBins)
  <2>1. Tiles(parts, NumBins)
    BY <1>1 DEF Inv, Packed
  <2> QED BY <1>5, <1>6, <1>8, <1>9, <2>1, TilesSame
<1>11. \A p \in 1 .. n - 1 : Reached(noised_synopsis, qs[p], T)
  <2>1. \A p \in 1 .. n - 1 : Reached(noised_synopsis, parts[p], T)
    BY <1>1, <1>5 DEF Inv, Packed
  <2>2. \A p \in 1 .. n - 1 : p \in 1 .. n
    OBVIOUS
  <2> QED BY <1>8, <2>1, <2>2 DEF Reached
<1>12. Typed'
  BY <1>1, <1>2, <1>3, <1>4, <1>9 DEF Typed, Inv, input
<1>13. Input'
  BY <1>1, <1>2, <1>3 DEF Inv, Input, input
<1>14. Packed'
  BY <1>2, <1>3, <1>4, <1>9, <1>10, <1>11 DEF Packed
<1>15. Counted'
  <2>1. \A p \in 1 .. n : parts[p].synopsis = Sum(synopsis, parts[p].first, parts[p].last)
    BY <1>6 DEF Inv, Counted
  <2> QED BY <1>3, <1>4, <1>8, <1>9, <2>1 DEF Counted
<1>16. Sized'
  BY <1>4, <1>8, <1>9 DEF Sized
<1>17. Packing' /\ Mapped' /\ Filled'
  BY <1>1 DEF Packing, Mapped, Filled, Inv
<1> QED BY <1>12, <1>13, <1>14, <1>15, <1>16, <1>17 DEF Inv

\* Every record gets its server and its block.
LEMMA DistributeKeeps ==
  ASSUME Inv, DistributeDataToPartitions
  PROVE  Inv'
<1>1. /\ pc = "distribute" /\ pc' = "load"
      /\ UNCHANGED <<input, packing, parts, loaded>>
  BY DEF DistributeDataToPartitions
<1>2. UNCHANGED <<T, iter, i, start_idx, acc>>
  BY <1>1 DEF packing
<1>3. /\ NumBins' = NumBins /\ Bins' = Bins
      /\ synopsis' = synopsis /\ noised_synopsis' = noised_synopsis
  BY <1>1, SameInput
<1>4. \A p : Walk(p)' = Walk(p)
  BY <1>1 DEF Walk, input
<1>5. Typed' /\ Input'
  BY <1>1, <1>2, <1>3 DEF Typed, Inv, Input, input
<1>6. Packed' /\ Counted' /\ Sized'
  BY <1>1, <1>2, <1>3 DEF Inv, Packed, Counted, Sized
<1>7. Mapped'
  <2>1. pk_to_blockid' = [p \in DOMAIN parts |-> [d \in Range(Walk(p)) |->
                            FirstBlock(p) + (CHOOSE n \in DOMAIN Walk(p) : Walk(p)[n] = d) - 1]]
    BY DEF DistributeDataToPartitions
  <2> QED BY <1>1, <2>1 DEF Mapped, Walk, FirstBlock, input
<1>8. Packing' /\ Filled'
  BY <1>1 DEF Packing, Filled, Inv
<1> QED BY <1>5, <1>6, <1>7, <1>8 DEF Inv

\* The child of a server loads.
LEMMA LoadKeeps ==
  ASSUME Inv, NEW p \in 1 .. Len(parts), Load(p)
  PROVE  Inv'
<1>1. /\ pc = "load" /\ p \in DOMAIN parts \ DOMAIN loaded
      /\ UNCHANGED <<input, pc, packing, parts, pk_to_blockid>>
      /\ loaded' = [q \in DOMAIN loaded \cup {p} |->
                      IF q = p THEN [block \in 0 .. Len(Content(p)) - 1 |-> Content(p)[block + 1]]
                      ELSE loaded[q]]
  BY DEF Load, Content
<1>2. UNCHANGED <<T, iter, i, start_idx, acc>>
  BY <1>1 DEF packing
<1>3. /\ NumBins' = NumBins /\ Bins' = Bins
      /\ synopsis' = synopsis /\ noised_synopsis' = noised_synopsis
  BY <1>1, SameInput
<1>4. Typed' /\ Input'
  BY <1>1, <1>2, <1>3 DEF Typed, Inv, Input, input
<1>5. Packed' /\ Counted' /\ Sized'
  BY <1>1, <1>2, <1>3 DEF Inv, Packed, Counted, Sized
<1>6. Mapped'
  BY <1>1 DEF Inv, Mapped, Walk, FirstBlock, input
<1>7. Filled'
  <2>1. \A q : Content(q)' = Content(q)
    BY <1>1 DEF Content, Walk, input
  <2>2. ASSUME NEW q \in DOMAIN loaded \cup {p}
        PROVE  loaded'[q] = [block \in 0 .. Len(Content(q)) - 1 |-> Content(q)[block + 1]]
    BY <1>1 DEF Inv, Filled
  <2>3. DOMAIN loaded' = DOMAIN loaded \cup {p} /\ DOMAIN loaded' \subseteq DOMAIN parts'
    BY <1>1 DEF Inv, Filled
  <2>4. pc' = "load"
    BY <1>1
  <2>5. ASSUME NEW q \in DOMAIN loaded'
        PROVE  loaded'[q] = [block \in 0 .. Len(Content(q)') - 1 |-> Content(q)'[block + 1]]
    BY <2>1, <2>2, <2>3
  <2> QED BY <2>3, <2>4, <2>5 DEF Filled
<1>8. Packing'
  BY <1>1 DEF Packing
<1> QED BY <1>4, <1>5, <1>6, <1>7, <1>8 DEF Inv

\* Every state of every behaviour satisfies the invariant.
THEOREM RepartitionInvariant ==
  Spec => []Inv
<1>1. Init => Inv
  BY InvInit
<1>2. Inv /\ [Next]_vars => Inv'
  <2> SUFFICES ASSUME Inv, [Next]_vars PROVE Inv'
    OBVIOUS
  <2>1. CASE Repartition_Main
    BY <2>1, RepartitionMainKeeps
  <2>2. CASE PackBin
    BY <2>2, PackBinKeeps
  <2>3. CASE NextPass
    BY <2>3, NextPassKeeps
  <2>4. CASE LastPass
    BY <2>4, LastPassKeeps
  <2>5. CASE SetCapacities
    BY <2>5, SetCapacitiesKeeps
  <2>6. CASE DistributeDataToPartitions
    BY <2>6, DistributeKeeps
  <2>7. ASSUME NEW p \in 1 .. Len(parts), Load(p) PROVE Inv'
    BY <2>7, LoadKeeps
  <2>8. CASE UNCHANGED vars
    <3>1. UNCHANGED <<input, pc, T, iter, i, start_idx, acc, parts, pk_to_blockid, loaded>>
      BY <2>8 DEF vars, packing
    <3>2. /\ NumBins' = NumBins /\ Bins' = Bins
          /\ synopsis' = synopsis /\ noised_synopsis' = noised_synopsis
      BY <3>1, SameInput
    <3>3. Typed' /\ Input'
      BY <3>1, <3>2 DEF Typed, Inv, Input, input
    <3>4. Packing' /\ Packed' /\ Counted' /\ Sized'
      BY <3>1, <3>2 DEF Inv, Packing, Packed, Counted, Sized
    <3>5. Mapped'
      BY <3>1 DEF Inv, Mapped, Walk, FirstBlock, input
    <3>6. Filled'
      <4>1. \A q : Content(q)' = Content(q)
        BY <3>1 DEF Content, Walk, input
      <4>2. ASSUME NEW q \in DOMAIN loaded'
            PROVE  loaded'[q] = [block \in 0 .. Len(Content(q)') - 1 |-> Content(q)'[block + 1]]
        BY <3>1, <4>1 DEF Inv, Filled
      <4> QED BY <3>1, <4>2 DEF Inv, Filled
    <3> QED BY <3>3, <3>4, <3>5, <3>6 DEF Inv
  <2> QED BY <2>1, <2>2, <2>3, <2>4, <2>5, <2>6, <2>7, <2>8 DEF Next
<1> QED BY <1>1, <1>2, PTL DEF Spec

------------------------------------------------------------------------------
(* What the partitions cover. *)

\* Partitions are between the first bin and the last one they take.
LEMMA TilesWithin ==
  ASSUME NEW ps \in Seq(Part), NEW upto \in Nat, Tiles(ps, upto), NEW p \in DOMAIN ps
  PROVE  /\ ps[p].first \in Nat /\ ps[p].last \in Nat
         /\ 1 <= ps[p].first /\ ps[p].first <= ps[p].last /\ ps[p].last <= upto
<1>1. ps[p] \in Part /\ p \in Nat /\ (p # 1 => p - 1 \in DOMAIN ps)
  OBVIOUS
<1>2. p # 1 => ps[p - 1] \in Part
  BY <1>1
<1>3. ps[p].first \in Nat /\ ps[p].last \in Nat /\ (p # 1 => ps[p - 1].last \in Nat)
  BY <1>1, <1>2 DEF Part
<1>4. /\ ps[p].first = IF p = 1 THEN 1 ELSE ps[p - 1].last + 1
      /\ ps[p].first <= ps[p].last /\ ps[p].last <= upto
  BY DEF Tiles
<1> QED BY <1>3, <1>4

\* A later partition starts behind an earlier one.
LEMMA TilesInOrder ==
  ASSUME NEW ps \in Seq(Part), NEW upto \in Nat, Tiles(ps, upto),
         NEW p \in DOMAIN ps, NEW q \in DOMAIN ps, p < q
  PROVE  ps[p].last < ps[q].first
<1>1. PICK n \in Nat : n = Len(ps)
  OBVIOUS
<1>2. DOMAIN ps = 1 .. n /\ p \in Nat /\ q \in Nat /\ p + 1 <= q /\ q <= n
  BY <1>1
<1>3. \A r \in 1 .. n : /\ ps[r].first \in Nat /\ ps[r].last \in Nat
                        /\ ps[r].first <= ps[r].last
  BY <1>2, TilesWithin
<1>4. \A r \in 1 .. n : r # 1 => ps[r].first = ps[r - 1].last + 1
  BY <1>2 DEF Tiles
<1> DEFINE S == {r \in p + 1 .. q : ps[p].last < ps[r].first}
<1>5. p + 1 \in S
  <2>1. p + 1 \in 1 .. n /\ p + 1 # 1 /\ (p + 1) - 1 = p /\ p \in 1 .. n
    BY <1>2
  <2>2. ps[p + 1].first = ps[p].last + 1 /\ ps[p].last \in Nat
    BY <1>3, <1>4, <2>1
  <2> QED BY <1>2, <2>2
<1>6. ASSUME NEW r \in p + 1 .. q - 1, r \in S PROVE r + 1 \in S
  <2>1. r \in 1 .. n /\ r + 1 \in 1 .. n /\ r + 1 # 1 /\ (r + 1) - 1 = r /\ r + 1 \in p + 1 .. q
    BY <1>2
  <2>2. ps[r + 1].first = ps[r].last + 1
    BY <1>4, <2>1
  <2>3. ps[p].last < ps[r].first /\ ps[r].first <= ps[r].last
        /\ ps[r].first \in Nat /\ ps[r].last \in Nat /\ ps[p].last \in Nat
    BY <1>2, <1>3, <1>6, <2>1
  <2> QED BY <2>1, <2>2, <2>3
<1> HIDE DEF S
<1>7. q \in S
  <2>1. PICK low \in Int : low = p + 1
    BY <1>2
  <2>2. q \in low .. q /\ q \in Int /\ low <= q /\ low \in S
    BY <1>2, <1>5, <2>1
  <2>3. \A r \in low .. q - 1 : r \in S => r + 1 \in S
    BY <1>6, <2>1
  <2>4. low .. q \subseteq S
    BY <2>2, <2>3, InductionBetween
  <2> QED BY <2>2, <2>4
<1> QED BY <1>7 DEF S

\* Every bin is in one partition, and in one only.
LEMMA TilesCover ==
  ASSUME NEW ps \in Seq(Part), NEW upto \in Nat, Tiles(ps, upto), NEW b \in 1 .. upto
  PROVE  \E p \in DOMAIN ps :
           /\ b \in ps[p].first .. ps[p].last
           /\ \A q \in DOMAIN ps : b \in ps[q].first .. ps[q].last => q = p
<1>1. PICK n \in Nat : n = Len(ps)
  OBVIOUS
<1>2. DOMAIN ps = 1 .. n
  BY <1>1
<1>3. \A r \in 1 .. n : /\ ps[r].first \in Nat /\ ps[r].last \in Nat
                        /\ ps[r].first <= ps[r].last
  BY <1>2, TilesWithin
<1> DEFINE S == {r \in 1 .. n : b <= ps[r].last}
<1>4. n \in S
  <2>1. n # 0 /\ upto = ps[n].last
    BY <1>1 DEF Tiles
  <2> QED BY <2>1
<1>5. PICK p \in S : \A r \in S : p <= r
  <2>1. S \in SUBSET Nat /\ S # {}
    BY <1>4
  <2> HIDE DEF S
  <2> QED BY <2>1, LeastNatural
<1>6. p \in 1 .. n /\ b <= ps[p].last
  OBVIOUS
<1>7. ps[p].first <= b
  <2>1. CASE p = 1
    BY <1>2, <2>1 DEF Tiles
  <2>2. CASE p # 1
    <3>1. p - 1 \in 1 .. n /\ p - 1 \notin S
      BY <1>5, <2>2
    <3>2. ~ (b <= ps[p - 1].last) /\ ps[p - 1].last \in Nat
      BY <1>3, <3>1
    <3>3. ps[p].first = ps[p - 1].last + 1
      BY <1>2, <1>6, <2>2 DEF Tiles
    <3> QED BY <3>2, <3>3
  <2> QED BY <2>1, <2>2
<1>8. ASSUME NEW q \in DOMAIN ps, b \in ps[q].first .. ps[q].last PROVE q = p
  <2>1. p \in DOMAIN ps /\ p \in Nat /\ q \in Nat
    BY <1>2, <1>6
  <2>2. p < q => ps[p].last < ps[q].first
    BY <2>1, TilesInOrder
  <2>3. q < p => ps[q].last < ps[p].first
    BY <2>1, TilesInOrder
  <2>4. /\ ps[p].first \in Nat /\ ps[p].last \in Nat /\ ps[q].first \in Nat /\ ps[q].last \in Nat
        /\ ps[q].first <= b /\ b <= ps[q].last
    BY <1>2, <1>3, <1>8, <2>1
  <2> QED BY <1>6, <1>7, <2>1, <2>2, <2>3, <2>4
<1>9. p \in DOMAIN ps /\ b \in ps[p].first .. ps[p].last
  BY <1>2, <1>3, <1>6, <1>7
<1> QED BY <1>8, <1>9

\* What a server's child walks over and loads.
LEMMA WalkFacts ==
  ASSUME Inv, pc \in {"capacity", "distribute", "load"}, NEW p \in DOMAIN parts
  PROVE  /\ Walk(p) \in Seq(DOMAIN table)
         /\ Lists(Walk(p), {d \in DOMAIN table : table[d] \in parts[p].first .. parts[p].last})
         /\ Len(Walk(p)) = parts[p].synopsis
<1>1. table \in Tables /\ noised_syn \in [Bins -> Int]
  BY DEF Inv, Input
<1>2. PICK f \in Nat, l \in Nat : f = parts[p].first /\ l = parts[p].last
  BY PartFacts
<1>3. 1 <= f /\ f <= l + 1 /\ l <= NumBins /\ NumBins \in Nat
  BY <1>1, <1>2, PartFacts, CountFacts
<1>4. \A b \in f .. l : synopsis[b] = Len(Records(table, b))
  <2>1. \A b \in f .. l : b \in Bins
    BY <1>3 DEF Bins
  <2> QED BY <1>1, <2>1, CountFacts
<1>5. table \in Seq(Nat)
  BY <1>1, TableFacts
<1>6. /\ WalkBins(table, f, l) \in Seq(DOMAIN table)
      /\ Lists(WalkBins(table, f, l), {d \in DOMAIN table : table[d] \in f .. l})
      /\ Len(WalkBins(table, f, l)) = Sum(synopsis, f, l)
  <2>1. PICK g : g = synopsis
    OBVIOUS
  <2>2. f \in Int /\ l \in Int /\ f <= l + 1
    BY <1>3
  <2>3. \A b \in f .. l : g[b] = Len(Records(table, b))
    BY <1>4, <2>1
  <2>4. /\ WalkBins(table, f, l) \in Seq(DOMAIN table)
        /\ Lists(WalkBins(table, f, l), {d \in DOMAIN table : table[d] \in f .. l})
        /\ Len(WalkBins(table, f, l)) = Sum(g, f, l)
    BY ONLY <1>5, <2>2, <2>3, WalkIs
  <2> QED BY <2>1, <2>4
<1>7. parts[p].synopsis = Sum(synopsis, f, l)
  BY <1>2 DEF Inv, Counted
<1> QED BY <1>2, <1>6, <1>7 DEF Walk

------------------------------------------------------------------------------
(* Theorems. *)

\* The types of the variables: packing never steps beyond the bins, a partition has
\* bins, and no tree is empty when it is built.
THEOREM TypeCorrect ==
  Spec => []TypeOK
<1>1. Inv => TypeOK
  <2> SUFFICES ASSUME Inv PROVE TypeOK
    OBVIOUS
  <2>1. Typed /\ parts \in Seq(Part)
    BY DEF Inv, Typed
  <2>2. DOMAIN loaded \subseteq DOMAIN parts
    BY DEF Inv, Filled
  <2>3. ASSUME NEW p \in DOMAIN parts
        PROVE  /\ parts[p].last \in Bins /\ parts[p].first \in 1 .. parts[p].last
               /\ parts[p].noisy_synopsis
                    \in (IF pc \in {"distribute", "load"} THEN Nat \ {0} ELSE Nat)
               /\ parts[p].dummy_num \in Nat
               /\ parts[p].stash_overflow_count \in Nat
    <3>1. parts[p] \in Part
      BY <2>1
    <3>2. pc # "idle" /\ table \in Tables
      BY DEF Inv, Input
    <3>3. NumBins \in Nat
      BY <3>2, TableFacts DEF NumBins
    <3>4. PICK upto \in Nat : Tiles(parts, upto) /\ upto <= NumBins
      <4>1. CASE pc = "pack"
        <5>1. start_idx - 1 \in Nat /\ start_idx - 1 <= NumBins
          BY <3>3 DEF Inv, Typed
        <5> QED BY <4>1, <5>1 DEF Inv, Packing
      <4>2. CASE pc # "pack"
        <5>1. Tiles(parts, NumBins)
          BY <3>2, <4>2 DEF Inv, Packed, Typed
        <5> QED BY <3>3, <5>1
      <4> QED BY <4>1, <4>2
    <3>5. /\ parts[p].first \in Nat /\ parts[p].last \in Nat
          /\ 1 <= parts[p].first /\ parts[p].first <= parts[p].last /\ parts[p].last <= upto
      BY <2>1, <3>4, TilesWithin
    <3>6. parts[p].last \in Bins /\ parts[p].first \in 1 .. parts[p].last
      BY <3>3, <3>4, <3>5 DEF Bins
    <3>7. /\ parts[p].noisy_synopsis \in Nat
          /\ parts[p].dummy_num \in Nat /\ parts[p].stash_overflow_count \in Nat
      BY <3>1 DEF Part
    <3>8. pc \in {"distribute", "load"} => parts[p].noisy_synopsis # 0
      BY DEF Inv, Sized
    <3> QED BY <3>6, <3>7, <3>8
  <2> QED BY <2>1, <2>2, <2>3 DEF Typed, TypeOK
<1> QED BY <1>1, RepartitionInvariant, PTL

\* Each partition but the last reaches the threshold with its last bin and not before,
\* during every pass and in the end, whatever the noise.
THEOREM RepartitionThreshold ==
  Spec => []ClosedAtThreshold
<1>1. Inv => ClosedAtThreshold
  <2> SUFFICES ASSUME Inv PROVE ClosedAtThreshold
    OBVIOUS
  <2>1. parts \in Seq(Part) /\ \A p \in 1 .. Len(parts) - 1 : p \in DOMAIN parts
    BY DEF Inv, Typed
  <2>2. \A p \in 1 .. Len(parts) - 1 : Reached(noised_synopsis, parts[p], T)
    <3>1. CASE pc = "idle"
      BY <3>1 DEF Inv, Input
    <3>2. CASE pc = "pack"
      BY <2>1, <3>2 DEF Inv, Packing
    <3>3. CASE pc \in {"capacity", "distribute", "load"}
      BY <3>3 DEF Inv, Packed
    <3> QED BY <3>1, <3>2, <3>3 DEF Inv, Typed
  <2> QED BY <2>2 DEF ClosedAtThreshold, Reached
<1> QED BY <1>1, RepartitionInvariant, PTL

\* The tree and the reserve of the stash take exactly what the child of a server loads:
\* its records and the padding.
THEOREM RepartitionCapacity ==
  Spec => []CapacityIsLoaded
<1>1. Inv => CapacityIsLoaded
  <2> SUFFICES ASSUME Inv, NEW p \in DOMAIN loaded
               PROVE  Cardinality(DOMAIN loaded[p])
                        = parts[p].noisy_synopsis + parts[p].stash_overflow_count
    BY DEF CapacityIsLoaded
  <2>1. pc = "load" /\ p \in DOMAIN parts
        /\ DOMAIN loaded[p] = 0 .. Len(Content(p)) - 1
    BY DEF Inv, Filled
  <2>2. PICK s \in Seq(DOMAIN table) : s = Walk(p)
    BY <2>1, WalkFacts
  <2>3. Len(s) = parts[p].synopsis
    BY <2>1, <2>2, WalkFacts
  <2>4. PICK k \in Nat : k = parts[p].dummy_num
    <3>1. parts[p] \in Part
      BY <2>1, PartFacts
    <3> QED BY <3>1 DEF Part
  <2>5. Len(Content(p)) = Len(s) + k
    BY <2>2, <2>4 DEF Content
  <2>6. PICK l \in Nat : l = Len(s)
    BY <2>2
  <2>7. Cardinality(0 .. (l + k) - 1) = l + k
    <3>1. PICK m \in Int : m = (l + k) - 1
      OBVIOUS
    <3>2. Cardinality(0 .. m) = IF 0 > m THEN 0 ELSE m - 0 + 1
      BY FS_Interval
    <3> QED BY <3>1, <3>2
  <2>8. l + k = parts[p].noisy_synopsis + parts[p].stash_overflow_count
    BY <2>1, <2>3, <2>4, <2>6 DEF Inv, Sized
  <2> QED BY <2>1, <2>5, <2>6, <2>7, <2>8
<1> QED BY <1>1, RepartitionInvariant, PTL

\* The proxy's map leads to each record, and the record is nowhere else.
THEOREM RepartitionRouting ==
  Spec => []RoutedToItsRecord
<1>1. Inv => RoutedToItsRecord
  <2> SUFFICES ASSUME Inv, Loaded, NEW d \in DOMAIN table
               PROVE  \E p \in DOMAIN parts :
                        /\ d \in DOMAIN pk_to_blockid[p] /\ pk_to_blockid[p][d] \in DOMAIN loaded[p]
                        /\ loaded[p][pk_to_blockid[p][d]] = d
                        /\ \A q \in DOMAIN parts : d \in DOMAIN pk_to_blockid[q] => q = p
                        /\ \A q \in DOMAIN parts : \A block \in DOMAIN loaded[q] :
                             loaded[q][block] = d => q = p /\ block = pk_to_blockid[p][d]
    BY DEF RoutedToItsRecord
  <2>1. pc = "load" /\ DOMAIN loaded = DOMAIN parts
    BY DEF Loaded
  <2>2. table \in Tables /\ parts \in Seq(Part)
    BY <2>1 DEF Inv, Input, Typed
  <2>3. PICK nb \in Nat : nb = NumBins
    BY <2>2, TableFacts DEF NumBins
  <2>4. Tiles(parts, nb) /\ table[d] \in 1 .. nb
    BY <2>1, <2>2, <2>3, TableFacts DEF Inv, Packed, NumBins
  <2>5. PICK p \in DOMAIN parts :
               /\ table[d] \in parts[p].first .. parts[p].last
               /\ \A q \in DOMAIN parts : table[d] \in parts[q].first .. parts[q].last => q = p
    BY <2>2, <2>4, TilesCover
  <2> DEFINE Place(q, x) == CHOOSE n \in DOMAIN Walk(q) : Walk(q)[n] = x
  <2>6. ASSUME NEW q \in DOMAIN parts
        PROVE  /\ DOMAIN Walk(q) \subseteq Nat \ {0}
               /\ \A n \in DOMAIN Walk(q) : Walk(q)[n] = d => q = p
               /\ \A m, n \in DOMAIN Walk(q) : Walk(q)[m] = Walk(q)[n] => m = n
               /\ DOMAIN pk_to_blockid[q] = Range(Walk(q))
               /\ \A x \in Range(Walk(q)) : pk_to_blockid[q][x] = 0 + Place(q, x) - 1
    <3>1. PICK s \in Seq(DOMAIN table) : s = Walk(q)
      BY <2>1, WalkFacts
    <3>2. Lists(s, {x \in DOMAIN table : table[x] \in parts[q].first .. parts[q].last})
      BY <2>1, <3>1, WalkFacts
    <3>3. \A n \in DOMAIN s : s[n] = d => q = p
      BY <2>5, <3>2 DEF Lists
    <3>4. \A m, n \in DOMAIN s : s[m] = s[n] => m = n
      BY <3>2 DEF Lists
    <3>5. pk_to_blockid[q] = [x \in Range(Walk(q)) |-> 0 + Place(q, x) - 1]
      BY <2>1 DEF Inv, Mapped, FirstBlock
    <3> QED BY <3>1, <3>3, <3>4, <3>5
  <2>7. PICK n \in DOMAIN Walk(p) : Walk(p)[n] = d
    <3>1. Lists(Walk(p), {x \in DOMAIN table : table[x] \in parts[p].first .. parts[p].last})
      BY <2>1, WalkFacts
    <3> QED BY <2>5, <3>1 DEF Lists
  <2>8. d \in Range(Walk(p))
    BY <2>7 DEF Range
  <2>9. Place(p, d) = n
    <3>1. Place(p, d) \in DOMAIN Walk(p) /\ Walk(p)[Place(p, d)] = d
      BY <2>7
    <3> QED BY <2>6, <2>7, <3>1
  <2>10. d \in DOMAIN pk_to_blockid[p] /\ pk_to_blockid[p][d] = n - 1 /\ n \in Nat \ {0}
    <3>1. pk_to_blockid[p][d] = 0 + n - 1
      BY <2>6, <2>8, <2>9
    <3>2. n \in Nat \ {0} /\ d \in DOMAIN pk_to_blockid[p]
      BY <2>6, <2>7, <2>8
    <3> QED BY <3>1, <3>2
  <2> HIDE DEF Place
  <2>11. ASSUME NEW q \in DOMAIN parts
         PROVE  /\ DOMAIN loaded[q] = 0 .. Len(Content(q)) - 1
                /\ \A block \in DOMAIN loaded[q] :
                     /\ block + 1 \in 1 .. Len(Content(q))
                     /\ loaded[q][block] = Content(q)[block + 1]
                     /\ block + 1 \in DOMAIN Walk(q) => loaded[q][block] = Walk(q)[block + 1]
                     /\ block + 1 \notin DOMAIN Walk(q) => loaded[q][block] = Padding
                /\ \A m \in DOMAIN Walk(q) : m - 1 \in DOMAIN loaded[q]
    <3>1. PICK s \in Seq(DOMAIN table) : s = Walk(q)
      BY <2>1, WalkFacts
    <3>2. PICK k \in Nat : k = parts[q].dummy_num
      <4>1. parts[q] \in Part
        BY <2>1, PartFacts
      <4> QED BY <4>1 DEF Part
    <3>3. PICK l \in Nat : l = Len(s)
      BY <3>1
    <3>4. PICK c : c = Content(q)
      OBVIOUS
    <3>5. /\ DOMAIN s = 1 .. l /\ Len(c) = l + k
          /\ \A m \in 1 .. l + k : c[m] = IF m <= l THEN s[m] ELSE Padding
      BY <3>1, <3>2, <3>3, <3>4 DEF Content
    <3>6. loaded[q] = [block \in 0 .. Len(c) - 1 |-> c[block + 1]]
      BY <2>1, <3>4 DEF Inv, Filled
    <3>7. ASSUME NEW block \in 0 .. (l + k) - 1
          PROVE  /\ block + 1 \in 1 .. l + k
                 /\ loaded[q][block] = c[block + 1]
                 /\ block + 1 \in DOMAIN s => loaded[q][block] = s[block + 1]
                 /\ block + 1 \notin DOMAIN s => loaded[q][block] = Padding
      BY <3>5, <3>6
    <3>8. DOMAIN loaded[q] = 0 .. (l + k) - 1
      BY <3>5, <3>6
    <3>9. \A m \in DOMAIN s : m - 1 \in 0 .. (l + k) - 1
      BY <3>5
    <3> QED BY <3>1, <3>4, <3>5, <3>7, <3>8, <3>9
  <2>12. Padding # d
    BY <2>2, TablesAssumption
  <2>13. n - 1 \in DOMAIN loaded[p] /\ loaded[p][n - 1] = d
    <3>1. n - 1 \in DOMAIN loaded[p] /\ (n - 1) + 1 = n
      BY <2>7, <2>10, <2>11
    <3> QED BY <2>7, <2>11, <3>1
  <2>14. ASSUME NEW q \in DOMAIN parts, NEW block \in DOMAIN loaded[q], loaded[q][block] = d
         PROVE  q = p /\ block = n - 1
    <3>1. block + 1 \in DOMAIN Walk(q) /\ Walk(q)[block + 1] = d
      BY <2>11, <2>12, <2>14
    <3>2. q = p
      BY <2>6, <3>1
    <3>3. block + 1 = n
      BY <2>6, <2>7, <3>1, <3>2
    <3>4. block \in Int
      BY <2>11
    <3> QED BY <3>2, <3>3, <3>4
  <2>15. ASSUME NEW q \in DOMAIN parts, d \in DOMAIN pk_to_blockid[q] PROVE q = p
    <3>1. d \in Range(Walk(q))
      BY <2>6, <2>15
    <3>2. PICK m \in DOMAIN Walk(q) : Walk(q)[m] = d
      BY <3>1 DEF Range
    <3> QED BY <2>6, <3>2
  <2> QED BY <2>10, <2>13, <2>14, <2>15
<1> QED BY <1>1, RepartitionInvariant, PTL

------------------------------------------------------------------------------
(* The number of partitions. *)

\* The least threshold a pass of Algorithm 3 can have: 1 at first, then a tenth more, rounded
\* up, from pass to pass.
LeastThresholds(G) ==
  /\ G \in [1 .. MaxIter -> Nat] /\ G[1] = 1
  /\ \A n \in 1 .. MaxIter - 1 : G[n + 1] = Ceil(11 * G[n], 10)

\* A pass of Algorithm 3 has at least that threshold.
Escalated(G) ==
  pc # "idle" /\ fixed_number_part => G[iter] <= T

\* Algorithm 3 ends with no more partitions than it may make.
Capped ==
  pc \in {"capacity", "distribute", "load"} /\ fixed_number_part => Len(parts) <= KEff

\* Clamped counts are bounded where the noise is, and so is what a partition has of them.
LEMMA CountsBounded ==
  ASSUME NEW B \in Nat, \A n \in Noise : n <= B, Inv, pc = "pack", NEW p \in DOMAIN parts
  PROVE  T <= NumBins * (Len(table) + B)
<1>1. /\ table \in Tables /\ noised_syn \in [Bins -> Int]
      /\ \A b \in Bins : noised_syn[b] - synopsis[b] \in Noise
      /\ parts \in Seq(Part) /\ T \in Nat
  BY DEF Inv, Input, Typed
<1>2. PICK nb \in Nat : nb = NumBins
  BY <1>1, CountFacts
<1>3. PICK M \in Nat : M = Len(table) + B
  BY <1>1, TableFacts
<1>4. PICK upto \in Nat : Tiles(parts, upto) /\ upto <= nb
  <2>1. start_idx - 1 \in Nat /\ start_idx - 1 <= nb
    BY <1>2 DEF Inv, Typed
  <2> QED BY <2>1 DEF Inv, Packing
<1>5. PICK f \in Nat, l \in Nat : f = parts[p].first /\ l = parts[p].last
  BY <1>1, <1>4, TilesWithin
<1>6. 1 <= f /\ f <= l /\ l <= nb
  <2>1. 1 <= f /\ f <= l /\ l <= upto
    BY <1>1, <1>4, <1>5, TilesWithin
  <2> QED BY <1>4, <2>1
<1>7. ASSUME NEW b \in f .. l PROVE noised_synopsis[b] \in 0 .. M
  <2>1. b \in Bins
    BY <1>2, <1>6 DEF Bins
  <2>2. /\ synopsis[b] \in 1 .. Len(table) /\ noised_syn[b] \in Int
        /\ noised_synopsis[b] = AtLeast(0, noised_syn[b])
    BY <1>1, <2>1, CountFacts
  <2>3. noised_syn[b] - synopsis[b] <= B
    BY <1>1, <2>1
  <2>4. Len(table) \in Nat
    BY <1>1, TableFacts
  <2>5. noised_syn[b] <= M
    BY <1>3, <2>2, <2>3, <2>4
  <2> QED BY <2>2, <2>5 DEF AtLeast
<1>8. Sum(noised_synopsis, f, l) \in Nat /\ Sum(noised_synopsis, f, l) <= (l + 1 - f) * M
  <2>1. \A b \in f .. l : noised_synopsis[b] \in 0 .. M
    BY <1>7
  <2>2. f <= l + 1
    BY <1>6
  <2> QED BY <2>1, <2>2, SumBounds
<1>9. T <= Sum(noised_synopsis, f, l)
  BY <1>5 DEF Inv, Packing, Reached
<1>10. (l + 1 - f) * M <= nb * M
  <2>1. PICK k \in Nat : k = l + 1 - f
    BY <1>6
  <2>2. PICK j \in Nat : j = nb - k
    BY <1>6, <2>1
  <2>3. (k + j) * M = k * M + j * M /\ j * M \in Nat /\ k * M \in Nat
    OBVIOUS
  <2>4. nb = k + j
    BY <2>1, <2>2
  <2> QED BY <2>1, <2>3, <2>4
<1>11. (l + 1 - f) * M \in Int /\ nb * M \in Int
  BY <1>5
<1>12. T <= nb * M
  <2>1. PICK x \in Int : x = (l + 1 - f) * M
    BY <1>11
  <2>2. PICK y \in Int : y = nb * M
    BY <1>11
  <2> QED BY <1>1, <1>8, <1>9, <1>10, <2>1, <2>2
<1> QED BY <1>2, <1>3, <1>12

\* "Keep trying until we get <= k partitions": no partition of Algorithm 3 is without a
\* server, when MAX_ITER raises of the threshold take it beyond the clamped counts.  For
\* MAX_ITER = 500 the least threshold of the last pass is above 2^64, so this holds of every
\* table whose counts fit the code's 64 bits.
THEOREM RepartitionCount ==
  ASSUME NEW G, LeastThresholds(G), NEW B \in Nat, \A n \in Noise : n <= B,
         \A t \in Tables : Cardinality(Range(t)) * (Len(t) + B) < G[MaxIter]
  PROVE  Spec => []CountWithinCap
<1>1. Init => Escalated(G) /\ Capped
  BY DEF Init, Escalated, Capped
<1>2. Inv /\ Escalated(G) /\ Capped /\ [Next]_vars => Escalated(G)' /\ Capped'
  <2> SUFFICES ASSUME Inv, Escalated(G), Capped, [Next]_vars PROVE Escalated(G)' /\ Capped'
    OBVIOUS
  <2>1. T \in Nat /\ iter \in 0 .. MaxIter /\ num_servers \in Nat /\ MaxIter \in Nat \ {0}
    BY ParametersAssumption DEF Inv, Typed
  <2>2. KEff \in Nat \ {0}
    BY <2>1, KEffType DEF KEff
  <2>3. CASE Repartition_Main
    <3>1. /\ pc' = "pack" /\ iter' = 1
          /\ T' = IF fixed_number_part' THEN Share' ELSE Threshold
      BY <2>3 DEF Repartition_Main
    <3>2. fixed_number_part' => 1 <= T'
      <4>1. Inv'
        BY <2>3, RepartitionMainKeeps
      <4>2. T' \in Nat
        BY <4>1 DEF Inv, Typed
      <4>3. fixed_number_part' => T' = AtLeast(1, Ceil(AtLeast(0, Sum(noised_syn', 1, NumBins')), KEff'))
        BY <3>1 DEF Share
      <4>4. PICK x : x = Ceil(AtLeast(0, Sum(noised_syn', 1, NumBins')), KEff')
        OBVIOUS
      <4>5. fixed_number_part' => T' = IF x < 1 THEN 1 ELSE x
        BY <4>3, <4>4 DEF AtLeast
      <4> QED BY <4>2, <4>5
    <3> QED BY <3>1, <3>2 DEF Escalated, Capped, LeastThresholds
  <2>4. CASE PackBin
    BY <2>4 DEF PackBin, Escalated, Capped, input
  <2>5. CASE NextPass
    <3>1. /\ pc = "pack" /\ fixed_number_part /\ fixed_number_part' = fixed_number_part
          /\ iter < MaxIter /\ iter' = iter + 1 /\ T' = Grown /\ pc' = "pack" /\ iter # 0
      BY <2>5 DEF NextPass, TooMany, input, Inv, Input
    <3>2. iter \in 1 .. MaxIter - 1 /\ iter \in 1 .. MaxIter
      BY <2>1, <3>1
    <3>3. PICK g \in Nat : g = G[iter]
      BY <3>2 DEF LeastThresholds
    <3>4. G[iter'] = (11 * g + 10 - 1) \div 10
      BY <3>1, <3>2, <3>3 DEF LeastThresholds, Ceil
    <3>5. T' = (11 * T + 10 - 1) \div 10 /\ g <= T
      BY <3>1, <3>3 DEF Grown, Ceil, Escalated
    <3>6. (11 * g + 10 - 1) \div 10 <= (11 * T + 10 - 1) \div 10
      BY <2>1, <3>5
    <3> QED BY <3>1, <3>4, <3>5, <3>6 DEF Escalated, Capped
  <2>6. CASE LastPass
    <3>1. /\ pc = "pack" /\ i \notin Bins /\ pc' = "capacity" /\ parts' = WithRest
          /\ ~ TooMany \/ iter = MaxIter
          /\ UNCHANGED <<input, packing>>
      BY <2>6 DEF LastPass
    <3>2. fixed_number_part' = fixed_number_part /\ iter' = iter /\ T' = T
      BY <3>1 DEF input, packing
    <3>3. KEff' = KEff
      BY <3>1, SameInput
    <3>4. PICK w \in Nat : w = Len(WithRest)
      BY <3>1, RestFacts
    <3>5. ASSUME fixed_number_part, ~ (w <= KEff) PROVE FALSE
      <4>1. iter = MaxIter /\ G[MaxIter] <= T
        BY <2>2, <3>1, <3>4, <3>5 DEF TooMany, Escalated
      <4>2. parts \in Seq(Part)
        BY DEF Inv, Typed
      <4>3. parts # << >>
        <5>1. ASSUME parts = << >> PROVE FALSE
          <6>1. w = 0 \/ w = 1
            BY <3>4, <5>1 DEF WithRest
          <6> QED BY <2>2, <3>5, <6>1
        <5> QED BY <5>1
      <4>4. 1 \in DOMAIN parts
        BY <4>2, <4>3
      <4>5. T <= NumBins * (Len(table) + B)
        BY <3>1, <4>4, CountsBounded
      <4>6. table \in Tables
        BY <3>1 DEF Inv, Input
      <4>7. NumBins * (Len(table) + B) < G[MaxIter]
        BY <4>6 DEF NumBins
      <4>8. PICK y \in Int : y = NumBins * (Len(table) + B)
        <5>1. PICK a \in Nat, c \in Nat : a = NumBins /\ c = Len(table)
          BY <4>6, TableFacts DEF NumBins
        <5>2. a * (c + B) \in Int
          OBVIOUS
        <5> QED BY <5>1, <5>2
      <4>9. G[MaxIter] \in Nat
        BY <2>1 DEF LeastThresholds
      <4> QED BY <2>1, <4>1, <4>5, <4>7, <4>8, <4>9
    <3>6. fixed_number_part => w <= KEff
      BY <3>5
    <3> QED BY <3>1, <3>2, <3>3, <3>4, <3>6 DEF Escalated, Capped
  <2>7. CASE SetCapacities
    <3>1. /\ pc = "capacity" /\ pc' = "distribute" /\ UNCHANGED <<input, packing>>
      BY <2>7 DEF SetCapacities
    <3>2. fixed_number_part' = fixed_number_part /\ iter' = iter /\ T' = T
      BY <3>1 DEF input, packing
    <3>3. KEff' = KEff
      BY <3>1, SameInput
    <3>4. Len(parts') = Len(parts)
      <4>1. parts \in Seq(Part)
        BY DEF Inv, Typed
      <4>2. PICK n \in Nat : n = Len(parts)
        BY <4>1
      <4>3. DOMAIN parts = 1 .. n
        BY <4>1, <4>2
      <4>4. \/ parts' = [p \in 1 .. n |-> WithCapacity(parts[p])]
            \/ parts' = [p \in 1 .. n |-> WithMinimum(WithCapacity(parts[p]))]
        BY <2>7, <4>3 DEF SetCapacities
      <4>5. Len(parts') = n
        BY <4>4
      <4> QED BY <4>2, <4>5
    <3> QED BY <3>1, <3>2, <3>3, <3>4 DEF Escalated, Capped
  <2>8. CASE DistributeDataToPartitions
    <3>1. /\ pc = "distribute" /\ pc' = "load" /\ UNCHANGED <<input, packing, parts>>
      BY <2>8 DEF DistributeDataToPartitions
    <3>2. KEff' = KEff
      BY <3>1, SameInput
    <3> QED BY <3>1, <3>2 DEF Escalated, Capped, input, packing
  <2>9. ASSUME NEW p \in 1 .. Len(parts), Load(p) PROVE Escalated(G)' /\ Capped'
    <3>1. UNCHANGED <<input, pc, packing, parts>>
      BY <2>9 DEF Load
    <3>2. KEff' = KEff
      BY <3>1, SameInput
    <3> QED BY <3>1, <3>2 DEF Escalated, Capped, input, packing
  <2>10. CASE UNCHANGED vars
    <3>1. UNCHANGED <<input, pc, packing, parts>>
      BY <2>10 DEF vars
    <3>2. KEff' = KEff
      BY <3>1, SameInput
    <3> QED BY <3>1, <3>2 DEF Escalated, Capped, input, packing
  <2> QED BY <2>3, <2>4, <2>5, <2>6, <2>7, <2>8, <2>9, <2>10 DEF Next
<1>3. Inv /\ Capped => CountWithinCap
  <2> SUFFICES ASSUME Inv, Capped, fixed_number_part, pc \in {"capacity", "distribute", "load"}
               PROVE  Len(parts) <= PartNum /\ (num_servers > 0 => Len(parts) <= num_servers)
    BY DEF CountWithinCap
  <2>1. Len(parts) \in Nat /\ num_servers \in Nat /\ PartNum \in Nat
    BY ParametersAssumption DEF Inv, Typed
  <2>2. Len(parts) <= IF num_servers > 0 /\ num_servers < PartNum THEN num_servers ELSE PartNum
    BY DEF Capped, KEff
  <2> QED BY <2>1, <2>2
<1> QED BY <1>1, <1>2, <1>3, RepartitionInvariant, PTL DEF Spec
==============================================================================
