---------------------------- MODULE RingORAMProofs ----------------------------
(***************************************************************************)
(* The Ring ORAM of a child and its connection to the storage server.      *)
(* Proofs about RingORAM are for every tree, every bucket layout and every *)
(* set of blocks and contents; those about Connection for every tree,      *)
(* block and chunk size.                                                   *)
(***************************************************************************)
EXTENDS RingORAM, Connection, WellFoundedInduction, TLAPS

\* A set of naturals has a least element.
LEMMA LeastNatural ==
  ASSUME NEW X \in SUBSET Nat, X # {}
  PROVE  \E m \in X : \A n \in X : m <= n
<1> DEFINE R == OpToRel(<, Nat)
<1>1. IsWellFoundedOn(R, Nat)
  BY NatLessThanWellFounded
<1>2. PICK m \in X : \A n \in X : <<n, m>> \notin R
  <2> HIDE DEF R
  <2> QED BY <1>1, WFMin
<1>3. \A n \in X : n < m => <<n, m>> \in R
  BY DEF OpToRel
<1> HIDE DEF R
<1>4. \A n \in X : n \in Nat /\ m \in Nat /\ ~ (n < m)
  BY <1>2, <1>3
<1> QED BY <1>4

\* Induction, over the numbers up to a bound, for a property given as a set.
LEMMA InductionUpTo ==
  ASSUME NEW P, NEW n \in Nat, 0 \in P,
         \A i \in 0 .. n - 1 : i \in P => i + 1 \in P
  PROVE  0 .. n \subseteq P
<1> DEFINE Bad == (0 .. n) \ P
<1>1. SUFFICES ASSUME Bad # {} PROVE FALSE
  OBVIOUS
<1>2. PICK m \in Bad : \A k \in Bad : m <= k
  <2>1. Bad \in SUBSET Nat
    OBVIOUS
  <2> QED BY <1>1, <2>1, LeastNatural
<1>3. m \in Nat /\ m # 0 /\ m <= n
  OBVIOUS
<1>4. m - 1 \in 0 .. n - 1 /\ m - 1 \notin Bad
  BY <1>2, <1>3
<1>5. m - 1 \in P
  BY <1>4
<1> QED BY <1>3, <1>4, <1>5

------------------------------------------------------------------------------
(* Powers of two, and the order of evictions. *)

\* The powers of two up to the height of the tree.
LEMMA Powers ==
  /\ 2 ^ 0 = 1
  /\ \A n \in 0 .. Height : 2 ^ n \in Nat \ {0}
  /\ \A n \in Levels : 2 ^ (n + 1) = 2 * 2 ^ n
<1> DEFINE Positive == {n \in 0 .. Height : 2 ^ n \in Nat \ {0}}
<1>1. 0 \in Positive
  <2>1. 2 ^ 0 = 1
    OBVIOUS
  <2> QED BY <2>1, SizesAssumption
<1>2. ASSUME NEW n \in 0 .. Height - 1, n \in Positive PROVE n + 1 \in Positive
  <2>1. 2 ^ (n + 1) = 2 * 2 ^ n
    BY PowersAssumption DEF Levels
  <2>2. 2 * 2 ^ n \in Nat \ {0}
    BY <1>2
  <2> QED BY <2>1, <2>2, SizesAssumption
<1>3. 0 .. Height \subseteq Positive
  <2> HIDE DEF Positive
  <2> QED BY <1>1, <1>2, SizesAssumption, InductionUpTo
<1>4. 2 ^ 0 = 1
  OBVIOUS
<1> QED BY <1>3, <1>4, PowersAssumption

\* They grow.
LEMMA PowersGrow ==
  ASSUME NEW m \in 0 .. Height, NEW n \in m .. Height
  PROVE  2 ^ m <= 2 ^ n
<1> DEFINE Above == {k \in 0 .. Height - m : 2 ^ m <= 2 ^ (m + k)}
<1>1. Height - m \in Nat /\ Height \in Nat /\ m \in Nat
  BY SizesAssumption
<1>2. 0 \in Above
  <2>1. m + 0 = m /\ 2 ^ m \in Nat
    BY <1>1, Powers
  <2> QED BY <1>1, <2>1
<1>3. ASSUME NEW k \in 0 .. Height - m - 1, k \in Above PROVE k + 1 \in Above
  <2>1. m + k \in Levels /\ m + k \in 0 .. Height /\ m + (k + 1) = m + k + 1
    BY <1>1 DEF Levels
  <2>2. 2 ^ (m + k + 1) = 2 * 2 ^ (m + k) /\ 2 ^ (m + k) \in Nat /\ 2 ^ m \in Nat
    BY <2>1, Powers
  <2>3. 2 ^ m <= 2 ^ (m + k)
    BY <1>3
  <2>4. 2 ^ m <= 2 ^ (m + (k + 1))
    BY <2>1, <2>2, <2>3
  <2> QED BY <1>1, <2>4
<1>4. 0 .. Height - m \subseteq Above
  <2> HIDE DEF Above
  <2> QED BY <1>1, <1>2, <1>3, InductionUpTo
<1>5. n - m \in 0 .. Height - m /\ m + (n - m) = n
  BY <1>1
<1> QED BY <1>4, <1>5

\* The reversal of some bits is a sum over them.
LEMMA ReversalIsSum ==
  ASSUME NEW val \in Nat, NEW bitlen \in Nat, bitlen < Height
  PROVE  \E sum \in [0 .. bitlen -> Nat] :
           /\ sum[0] = 0 /\ sum[bitlen] = ReverseBits(val, bitlen)
           /\ \A n \in 1 .. bitlen :
                sum[n] = sum[n - 1] + ((val \div 2 ^ (n - 1)) % 2) * 2 ^ (bitlen - n)
<1> DEFINE Bit(n) == ((val \div 2 ^ (n - 1)) % 2) * 2 ^ (bitlen - n)
           Sums(s, k) ==
             /\ s \in [0 .. k -> Nat]
             /\ s = [n \in 0 .. k |-> IF n = 0 THEN 0 ELSE s[n - 1] + Bit(n)]
           Defined == {k \in 0 .. bitlen : \E s \in [0 .. k -> Nat] : Sums(s, k)}
<1>1. ASSUME NEW n \in 1 .. bitlen PROVE Bit(n) \in Nat
  <2>1. n - 1 \in 0 .. Height /\ bitlen - n \in 0 .. Height
    BY SizesAssumption
  <2>2. 2 ^ (n - 1) \in Nat \ {0} /\ 2 ^ (bitlen - n) \in Nat
    BY <2>1, Powers
  <2>3. (val \div 2 ^ (n - 1)) % 2 \in Nat
    BY <2>2
  <2> DEFINE x == (val \div 2 ^ (n - 1)) % 2
             y == 2 ^ (bitlen - n)
  <2>4. x \in Nat /\ y \in Nat
    BY <2>2, <2>3
  <2> HIDE DEF x, y
  <2>5. x * y \in Nat
    BY <2>4
  <2> QED BY <2>5 DEF x, y
<1> HIDE DEF Bit
<1>2. 0 \in Defined
  <2> DEFINE s == [n \in 0 .. 0 |-> 0]
  <2>1. s \in [0 .. 0 -> Nat] /\ Sums(s, 0)
    OBVIOUS
  <2>2. 0 \in 0 .. bitlen
    OBVIOUS
  <2> HIDE DEF s, Sums
  <2> QED BY <2>1, <2>2
<1>3. ASSUME NEW k \in 0 .. bitlen - 1, k \in Defined PROVE k + 1 \in Defined
  <2>1. PICK s \in [0 .. k -> Nat] : Sums(s, k)
    BY <1>3
  <2> DEFINE t == [n \in 0 .. k + 1 |-> IF n = k + 1 THEN s[k] + Bit(k + 1) ELSE s[n]]
  <2>2. Bit(k + 1) \in Nat /\ k \in Nat /\ k + 1 \in 0 .. bitlen
    BY <1>1
  <2>3. t \in [0 .. k + 1 -> Nat]
    BY <2>2
  <2>4. ASSUME NEW n \in 0 .. k + 1
        PROVE  t[n] = IF n = 0 THEN 0 ELSE t[n - 1] + Bit(n)
    BY <2>1, <2>2
  <2>5. Sums(t, k + 1)
    <3> HIDE DEF t
    <3> QED BY <2>3, <2>4
  <2> HIDE DEF t, Sums
  <2> QED BY <2>2, <2>3, <2>5
<1>4. bitlen \in Defined
  <2> HIDE DEF Defined
  <2> QED BY <1>2, <1>3, InductionUpTo
<1> DEFINE reversed == CHOOSE r : r = [n \in 0 .. bitlen |-> IF n = 0 THEN 0 ELSE r[n - 1] + Bit(n)]
<1>5. PICK s \in [0 .. bitlen -> Nat] : Sums(s, bitlen)
  BY <1>4
<1>6. reversed = [n \in 0 .. bitlen |-> IF n = 0 THEN 0 ELSE reversed[n - 1] + Bit(n)]
  BY <1>5
<1>7. ReverseBits(val, bitlen) = reversed[bitlen]
  BY DEF ReverseBits, Bit
<1> HIDE DEF reversed
<1>8. reversed[0] = 0 /\ \A n \in 1 .. bitlen : reversed[n] = reversed[n - 1] + Bit(n)
  BY <1>6
<1> DEFINE Nats == {n \in 0 .. bitlen : reversed[n] \in Nat}
<1>9. 0 \in Nats
  BY <1>8
<1>10. ASSUME NEW n \in 0 .. bitlen - 1, n \in Nats PROVE n + 1 \in Nats
  <2>1. n + 1 \in 1 .. bitlen /\ (n + 1) - 1 = n
    OBVIOUS
  <2>2. reversed[n + 1] = reversed[n] + Bit(n + 1) /\ Bit(n + 1) \in Nat
    BY <2>1, <1>8, <1>1
  <2> QED BY <2>1, <2>2, <1>10
<1>11. 0 .. bitlen \subseteq Nats
  <2> HIDE DEF Nats
  <2> QED BY <1>9, <1>10, InductionUpTo
<1>12. reversed \in [0 .. bitlen -> Nat]
  BY <1>6, <1>11
<1> QED BY <1>7, <1>8, <1>12 DEF Bit

\* The lowest bit comes first and decides which half of the leaves it is; the others stay
\* below it.
LEMMA ReversalBounds ==
  ASSUME NEW val \in Nat, NEW bitlen \in Nat \ {0}, bitlen < Height
  PROVE  /\ ReverseBits(val, bitlen) \in Nat
         /\ val % 2 = 0 => ReverseBits(val, bitlen) < 2 ^ (bitlen - 1)
         /\ val % 2 = 1 => /\ 2 ^ (bitlen - 1) <= ReverseBits(val, bitlen)
                           /\ ReverseBits(val, bitlen) < 2 ^ bitlen
<1>1. PICK sum \in [0 .. bitlen -> Nat] :
        /\ sum[0] = 0 /\ sum[bitlen] = ReverseBits(val, bitlen)
        /\ \A n \in 1 .. bitlen :
             sum[n] = sum[n - 1] + ((val \div 2 ^ (n - 1)) % 2) * 2 ^ (bitlen - n)
  BY ReversalIsSum
<1> DEFINE half == 2 ^ (bitlen - 1)
           first == sum[1]
           Bounded == {n \in 0 .. bitlen - 1 :
                        /\ first <= sum[n + 1]
                        /\ sum[n + 1] + 2 ^ (bitlen - (n + 1)) <= first + half}
<1>2. /\ half \in Nat \ {0} /\ 2 ^ bitlen = 2 * half
      /\ 2 ^ 0 = 1
  <2>1. bitlen - 1 \in Levels /\ bitlen - 1 \in 0 .. Height /\ (bitlen - 1) + 1 = bitlen
    BY SizesAssumption DEF Levels
  <2> QED BY <2>1, Powers
<1>3. first = (val % 2) * half /\ first \in Nat
  <2>1. sum[1] = sum[0] + ((val \div 2 ^ 0) % 2) * half
    <3>1. 1 \in 1 .. bitlen /\ 1 - 1 = 0
      OBVIOUS
    <3> QED BY <3>1, <1>1
  <2>2. val \div 1 = val /\ val % 2 \in {0, 1}
    OBVIOUS
  <2>3. ((val \div 2 ^ 0) % 2) = val % 2
    BY <1>2, <2>2
  <2>4. (val % 2) * half \in Nat
    BY <2>2, <1>2
  <2> QED BY <2>1, <2>3, <2>4, <1>1
<1>4. 0 \in Bounded
  <2>1. 0 \in 0 .. bitlen - 1 /\ 0 + 1 = 1
    OBVIOUS
  <2>2. first <= sum[0 + 1] /\ sum[0 + 1] + half <= first + half
    BY <2>1, <1>2, <1>3
  <2> QED BY <2>1, <2>2
<1>5. ASSUME NEW n \in 0 .. bitlen - 1 - 1, n \in Bounded PROVE n + 1 \in Bounded
  <2> DEFINE bit == (val \div 2 ^ (n + 1)) % 2
             place == 2 ^ (bitlen - (n + 1 + 1))
  <2>1. /\ n + 1 \in 0 .. bitlen - 1 /\ n + 1 + 1 \in 1 .. bitlen /\ (n + 1 + 1) - 1 = n + 1
        /\ bitlen - (n + 1 + 1) \in Levels /\ bitlen - (n + 1 + 1) \in 0 .. Height
        /\ bitlen - (n + 1 + 1) + 1 = bitlen - (n + 1) /\ n + 1 \in 0 .. Height
        /\ n + 1 \in 0 .. bitlen
    BY SizesAssumption DEF Levels
  <2>2. sum[n + 1 + 1] = sum[n + 1] + bit * place
    BY <2>1, <1>1
  <2>3. 2 ^ (bitlen - (n + 1)) = 2 * place /\ place \in Nat
    BY <2>1, Powers
  <2>4. bit \in {0, 1}
    <3>1. 2 ^ (n + 1) \in Nat \ {0}
      BY <2>1, Powers
    <3>2. val \div 2 ^ (n + 1) \in Nat
      BY <3>1
    <3> QED BY <3>2
  <2>5. first <= sum[n + 1] /\ sum[n + 1] + 2 ^ (bitlen - (n + 1)) <= first + half
    BY <1>5
  <2>6. sum[n + 1] \in Nat
    BY <2>1
  <2> HIDE DEF bit, place, half, first
  <2>7. bit * place = IF bit = 0 THEN 0 ELSE place
    BY <2>3, <2>4
  <2>8. first <= sum[n + 1 + 1] /\ sum[n + 1 + 1] + place <= first + half
    BY <2>2, <2>3, <2>4, <2>5, <2>6, <2>7, <1>2, <1>3
  <2> QED BY <2>1, <2>8 DEF place
<1>6. bitlen - 1 \in Bounded
  <2>1. bitlen - 1 \in Nat /\ bitlen - 1 \in 0 .. bitlen - 1
    OBVIOUS
  <2> HIDE DEF Bounded
  <2> QED BY <2>1, <1>4, <1>5, InductionUpTo
<1>7. first <= sum[bitlen] /\ sum[bitlen] + 1 <= first + half
  <2>1. (bitlen - 1) + 1 = bitlen /\ bitlen - bitlen = 0
    OBVIOUS
  <2> QED BY <2>1, <1>6, <1>2
<1>8. sum[bitlen] \in Nat
  BY <1>1
<1> HIDE DEF half, first, Bounded
<1>9. val % 2 = 0 => sum[bitlen] < half
  BY <1>2, <1>3, <1>7, <1>8
<1>10. val % 2 = 1 => half <= sum[bitlen] /\ sum[bitlen] < 2 ^ bitlen
  BY <1>2, <1>3, <1>7, <1>8
<1> QED BY <1>1, <1>8, <1>9, <1>10 DEF half

\* There is a leaf.
LEMMA SomeLeaf == NumLeaves \in Nat \ {0} /\ 0 \in Leaves
<1>1. Height - 1 \in 0 .. Height
  BY SizesAssumption
<1>2. NumLeaves \in Nat \ {0}
  BY <1>1, Powers DEF NumLeaves
<1> QED BY <1>2 DEF Leaves

\* EvictPath's order runs through leaves.
LEMMA ReversedIsLeaf ==
  ASSUME NEW leaf \in Leaves
  PROVE  ReverseBits(leaf, Height - 1) \in Leaves
<1>1. Height - 1 \in Nat /\ Height - 1 < Height /\ leaf \in Nat
  BY SizesAssumption DEF Leaves
<1>2. CASE Height = 1
  <2>1. ReverseBits(leaf, Height - 1) = 0
    BY <1>1, <1>2, ReversalIsSum
  <2>2. NumLeaves = 1
    BY <1>2, Powers DEF NumLeaves
  <2> QED BY <2>1, <2>2 DEF Leaves
<1>3. CASE Height # 1
  <2>1. Height - 1 \in Nat \ {0} /\ (Height - 1) - 1 \in Levels /\ Height - 1 \in 0 .. Height
        /\ (Height - 1) - 1 \in 0 .. Height
    BY <1>3, SizesAssumption DEF Levels
  <2>2. /\ 2 ^ ((Height - 1) - 1) \in Nat /\ NumLeaves \in Nat
        /\ NumLeaves = 2 * 2 ^ ((Height - 1) - 1)
    <3>1. (Height - 1) - 1 + 1 = Height - 1
      BY <2>1
    <3> QED BY <2>1, <3>1, Powers DEF NumLeaves
  <2>3. leaf % 2 \in {0, 1}
    BY <1>1
  <2>4. ReverseBits(leaf, Height - 1) \in Nat /\ ReverseBits(leaf, Height - 1) < NumLeaves
    BY <1>1, <2>1, <2>2, <2>3, ReversalBounds DEF NumLeaves
  <2> QED BY <2>2, <2>4 DEF Leaves
<1> QED BY <1>2, <1>3

\* Dividing by a power of two is halving.
LEMMA HalvedAgain ==
  ASSUME NEW x \in Nat, NEW k \in Levels
  PROVE  /\ x \div 2 ^ k \in Nat
         /\ x \div 2 ^ (k + 1) = (x \div 2 ^ k) \div 2
<1> DEFINE m == 2 ^ k
<1>1. m \in Nat \ {0} /\ 2 ^ (k + 1) = 2 * m
  BY Powers, SizesAssumption DEF Levels
<1> HIDE DEF m
<1>2. x \div m \in Nat /\ x \div (2 * m) = (x \div m) \div 2
  BY <1>1
<1> QED BY <1>1, <1>2 DEF m

\* Where the paths to two leaves of different halves are at each level.
LEMMA HalvesDiverge ==
  ASSUME NEW low \in Nat, NEW high \in Nat, Height # 1,
         low < 2 ^ (Height - 2), 2 ^ (Height - 2) <= high, high < 2 ^ (Height - 1)
  PROVE  /\ \A i \in 1 .. Height - 1 :
              /\ low \div 2 ^ (Height - 1 - i) \in 0 .. 2 ^ (i - 1) - 1
              /\ high \div 2 ^ (Height - 1 - i) \in 2 ^ (i - 1) .. 2 ^ i - 1
         /\ low \div 2 ^ (Height - 1) = 0 /\ high \div 2 ^ (Height - 1) = 0
<1> DEFINE top == Height - 2
           Down == {k \in 0 .. top :
                     /\ low \div 2 ^ k < 2 ^ (top - k)
                     /\ 2 ^ (top - k) <= high \div 2 ^ k
                     /\ high \div 2 ^ k < 2 * 2 ^ (top - k)}
<1>1. top \in Nat /\ top + 1 = Height - 1 /\ 2 ^ 0 = 1
  BY SizesAssumption, Powers
<1>2. \A x \in Nat : x \div 2 ^ 0 = x
  BY <1>1
<1>3. \A n \in 0 .. top : /\ n \in Levels /\ 2 ^ n \in Nat \ {0} /\ 2 ^ (n + 1) = 2 * 2 ^ n
  BY <1>1, Powers, SizesAssumption DEF Levels
<1>4. 0 \in Down
  <2>1. 2 ^ (Height - 1) = 2 * 2 ^ top /\ top - 0 = top /\ 0 \in 0 .. top
    BY <1>1, <1>3
  <2> QED BY <2>1, <1>2
<1>5. ASSUME NEW k \in 0 .. top - 1, k \in Down PROVE k + 1 \in Down
  <2>1. /\ k + 1 \in 0 .. top /\ k \in 0 .. top /\ top - (k + 1) \in 0 .. top
        /\ top - (k + 1) + 1 = top - k
    BY <1>1
  <2>2. 2 ^ (top - k) = 2 * 2 ^ (top - (k + 1)) /\ 2 ^ (top - (k + 1)) \in Nat
    BY <2>1, <1>3
  <2>3. /\ low \div 2 ^ (k + 1) = (low \div 2 ^ k) \div 2
        /\ high \div 2 ^ (k + 1) = (high \div 2 ^ k) \div 2
        /\ low \div 2 ^ k \in Nat /\ high \div 2 ^ k \in Nat
    BY <2>1, <1>3, HalvedAgain
  <2> DEFINE x == low \div 2 ^ k
             y == high \div 2 ^ k
             n == 2 ^ (top - (k + 1))
  <2>4. x \in Nat /\ y \in Nat /\ n \in Nat /\ x < 2 * n /\ 2 * n <= y /\ y < 2 * (2 * n)
    BY <2>2, <2>3, <1>5
  <2> HIDE DEF x, y, n
  <2>5. x \div 2 < n /\ n <= y \div 2 /\ y \div 2 < 2 * n
    BY <2>4
  <2> QED BY <2>1, <2>3, <2>5 DEF x, y, n
<1>6. 0 .. top \subseteq Down
  <2> HIDE DEF Down, top
  <2> QED BY <1>1, <1>4, <1>5, InductionUpTo
<1>7. ASSUME NEW i \in 1 .. Height - 1
      PROVE  /\ low \div 2 ^ (Height - 1 - i) \in 0 .. 2 ^ (i - 1) - 1
             /\ high \div 2 ^ (Height - 1 - i) \in 2 ^ (i - 1) .. 2 ^ i - 1
  <2>1. /\ Height - 1 - i \in 0 .. top /\ top - (Height - 1 - i) = i - 1 /\ i - 1 \in 0 .. top
        /\ (i - 1) + 1 = i
    BY <1>1
  <2>2. /\ low \div 2 ^ (Height - 1 - i) \in Nat /\ high \div 2 ^ (Height - 1 - i) \in Nat
        /\ 2 ^ i = 2 * 2 ^ (i - 1) /\ 2 ^ (i - 1) \in Nat
    BY <2>1, <1>3, HalvedAgain
  <2>3. Height - 1 - i \in Down
    BY <2>1, <1>6
  <2> QED BY <2>1, <2>2, <2>3
<1>8. low \div 2 ^ (Height - 1) = 0 /\ high \div 2 ^ (Height - 1) = 0
  <2>1. top \in Down /\ top - top = 0 /\ top \in 0 .. top
    BY <1>1, <1>6
  <2>2. low \div 2 ^ top < 1 /\ high \div 2 ^ top < 2
    <3>1. low \div 2 ^ top < 2 ^ (top - top) /\ high \div 2 ^ top < 2 * 2 ^ (top - top)
      BY <2>1
    <3>2. 2 ^ (top - top) = 1
      BY <2>1, <1>1
    <3> QED BY <3>1, <3>2
  <2>3. /\ low \div 2 ^ (top + 1) = (low \div 2 ^ top) \div 2
        /\ high \div 2 ^ (top + 1) = (high \div 2 ^ top) \div 2
        /\ low \div 2 ^ top \in Nat /\ high \div 2 ^ top \in Nat
    BY <2>1, <1>3, HalvedAgain
  <2> QED BY <1>1, <2>2, <2>3
<1> QED BY <1>7, <1>8

\* Such paths have only the root in common.
LEMMA HalvesShareRoot ==
  ASSUME NEW low \in Nat, NEW high \in Nat, Height # 1,
         low < 2 ^ (Height - 2), 2 ^ (Height - 2) <= high, high < 2 ^ (Height - 1)
  PROVE  Path(low) \cap Path(high) = {0}
<1>1. /\ \A i \in 1 .. Height - 1 :
           /\ low \div 2 ^ (Height - 1 - i) \in 0 .. 2 ^ (i - 1) - 1
           /\ high \div 2 ^ (Height - 1 - i) \in 2 ^ (i - 1) .. 2 ^ i - 1
      /\ low \div 2 ^ (Height - 1) = 0 /\ high \div 2 ^ (Height - 1) = 0
  BY HalvesDiverge
<1>2. /\ Height \in Nat /\ Height - 1 \in Nat /\ Height - 1 - 0 = Height - 1
      /\ Levels = 0 .. Height - 1
  BY SizesAssumption DEF Levels
<1>3. NodeAt(low, 0) = 0 /\ NodeAt(high, 0) = 0
  BY <1>1, <1>2, Powers DEF NodeAt
<1>4. \A n \in 0 .. Height : 2 ^ n \in Nat \ {0}
  BY Powers
<1>5. ASSUME NEW i \in 1 .. Height - 1
      PROVE  /\ NodeAt(low, i) \in 2 ^ i - 1 .. 2 ^ (i + 1) - 2
             /\ NodeAt(high, i) \in 2 ^ i - 1 .. 2 ^ (i + 1) - 2
             /\ NodeAt(low, i) < NodeAt(high, i)
             /\ NodeAt(low, i) # 0 /\ NodeAt(high, i) # 0
  <2> DEFINE x == low \div 2 ^ (Height - 1 - i)
             y == high \div 2 ^ (Height - 1 - i)
             h == 2 ^ (i - 1)
  <2>1. i \in Levels /\ i - 1 \in Levels /\ (i - 1) + 1 = i /\ i - 1 \in 0 .. Height
    BY <1>2 DEF Levels
  <2>2. 2 ^ i = 2 * h /\ 2 ^ (i + 1) = 2 * (2 * h) /\ h \in Nat \ {0}
    BY <2>1, Powers
  <2>3. x \in 0 .. h - 1 /\ y \in h .. 2 * h - 1
    BY <1>1, <2>2
  <2>4. NodeAt(low, i) = (2 * h - 1) + x /\ NodeAt(high, i) = (2 * h - 1) + y
    BY <2>2 DEF NodeAt
  <2> HIDE DEF x, y, h
  <2> QED BY <2>2, <2>3, <2>4
<1>6. ASSUME NEW i \in Levels, NEW j \in Levels, NodeAt(low, i) = NodeAt(high, j)
      PROVE  NodeAt(low, i) = 0
  <2>1. CASE i = 0 \/ j = 0
    BY <2>1, <1>3, <1>6
  <2>2. CASE i # 0 /\ j # 0
    <3>1. i \in 1 .. Height - 1 /\ j \in 1 .. Height - 1
      BY <2>2, <1>2
    <3>2. i = j \/ i + 1 <= j \/ j + 1 <= i
      BY <3>1
    <3>3. CASE i = j
      <4>1. NodeAt(low, i) < NodeAt(high, i) /\ NodeAt(low, i) \in Int /\ NodeAt(high, i) \in Int
        BY <3>1, <1>5, <1>4
      <4> QED BY <4>1, <3>3, <1>6
    <3>4. \A m, n \in 1 .. Height - 1 : m + 1 <= n =>
            /\ 2 ^ (m + 1) <= 2 ^ n /\ 2 ^ (m + 1) \in Nat /\ 2 ^ n \in Nat /\ 2 ^ m \in Nat
      <4> TAKE m, n \in 1 .. Height - 1
      <4>1. m + 1 <= n => m + 1 \in 0 .. Height /\ n \in m + 1 .. Height
        BY <1>2
      <4>2. m \in 0 .. Height /\ m + 1 \in 0 .. Height /\ n \in 0 .. Height
        BY <1>2
      <4> QED BY <4>1, <4>2, <1>4, PowersGrow
    <3>5. ~ (i + 1 <= j) /\ ~ (j + 1 <= i)
      <4>1. /\ NodeAt(low, i) \in 2 ^ i - 1 .. 2 ^ (i + 1) - 2
            /\ NodeAt(high, j) \in 2 ^ j - 1 .. 2 ^ (j + 1) - 2
        BY <3>1, <1>5
      <4>2. 2 ^ i \in Nat /\ 2 ^ (i + 1) \in Nat /\ 2 ^ j \in Nat /\ 2 ^ (j + 1) \in Nat
        <5>1. i \in 0 .. Height /\ i + 1 \in 0 .. Height /\ j \in 0 .. Height /\ j + 1 \in 0 .. Height
          BY <3>1, <1>2
        <5> QED BY <5>1, <1>4
      <4>3. (i + 1 <= j => 2 ^ (i + 1) <= 2 ^ j) /\ (j + 1 <= i => 2 ^ (j + 1) <= 2 ^ i)
        BY <3>1, <3>4
      <4> QED BY <4>1, <4>2, <4>3, <1>6
    <3> QED BY <3>1, <3>2, <3>3, <3>5
  <2> QED BY <2>1, <2>2
<1>7. 0 \in Path(low) /\ 0 \in Path(high)
  BY <1>2, <1>3 DEF Path
<1> QED BY <1>6, <1>7 DEF Path

\* One leaf in EvictPath's order and the next are in different halves.
LEMMA NextInOtherHalf ==
  ASSUME NEW g \in Leaves
  PROVE  Path(ReverseBits(g, Height - 1))
           \cap Path(ReverseBits((g + 1) % NumLeaves, Height - 1)) = {0}
<1> DEFINE after == (g + 1) % NumLeaves
           here == ReverseBits(g, Height - 1)
           there == ReverseBits(after, Height - 1)
<1>1. Height - 1 \in Nat /\ Height - 1 < Height /\ g \in Nat
  BY SizesAssumption DEF Leaves
<1>2. CASE Height = 1
  <2>1. NumLeaves = 1 /\ Leaves = {0} /\ g = 0 /\ after = 0
    BY <1>2, Powers DEF NumLeaves, Leaves
  <2>2. here = 0 /\ there = 0
    BY <2>1, ReversedIsLeaf
  <2>3. Path(0) = {0}
    <3>1. Levels = {0} /\ Height - 1 - 0 = 0 /\ 0 \div 1 = 0
      BY <1>2 DEF Levels
    <3>2. NodeAt(0, 0) = 0
      BY <3>1, Powers DEF NodeAt
    <3> QED BY <3>1, <3>2 DEF Path
  <2> QED BY <2>2, <2>3
<1>3. CASE Height # 1
  <2> DEFINE half == 2 ^ (Height - 2)
  <2>1. Height - 1 \in Nat \ {0} /\ (Height - 1) - 1 = Height - 2 /\ Height - 2 \in Levels
        /\ Height - 2 \in 0 .. Height /\ (Height - 2) + 1 = Height - 1
    BY <1>3, SizesAssumption DEF Levels
  <2>2. half \in Nat \ {0} /\ NumLeaves = 2 * half /\ 2 ^ (Height - 1) = NumLeaves
    BY <2>1, Powers DEF NumLeaves
  <2>3. after = IF g + 1 = 2 * half THEN 0 ELSE g + 1
    <3> HIDE DEF half
    <3> QED BY <2>2 DEF Leaves
  <2>4. after \in Nat /\ ((g % 2 = 0 /\ after % 2 = 1) \/ (g % 2 = 1 /\ after % 2 = 0))
    <3> HIDE DEF half, after
    <3> QED BY <1>1, <2>2, <2>3
  <2> HIDE DEF after
  <2>5. \A val \in Nat :
          /\ ReverseBits(val, Height - 1) \in Nat
          /\ val % 2 = 0 => ReverseBits(val, Height - 1) < half
          /\ val % 2 = 1 => /\ half <= ReverseBits(val, Height - 1)
                            /\ ReverseBits(val, Height - 1) < 2 ^ (Height - 1)
    BY <1>1, <2>1, ReversalBounds
  <2>6. here \in Nat /\ there \in Nat
    BY <1>1, <2>4, <2>5
  <2>7. CASE g % 2 = 0 /\ after % 2 = 1
    <3>1. here < half /\ half <= there /\ there < 2 ^ (Height - 1)
      BY <1>1, <2>4, <2>5, <2>7
    <3> HIDE DEF here, there
    <3>2. Path(here) \cap Path(there) = {0}
      BY <3>1, <2>6, <1>3, HalvesShareRoot
    <3> QED BY <3>2 DEF here, there, after
  <2>8. CASE g % 2 = 1 /\ after % 2 = 0
    <3>1. there < half /\ half <= here /\ here < 2 ^ (Height - 1)
      BY <1>1, <2>4, <2>5, <2>8
    <3> HIDE DEF here, there
    <3>2. Path(there) \cap Path(here) = {0}
      BY <3>1, <2>6, <1>3, HalvesShareRoot
    <3> QED BY <3>2 DEF here, there, after
  <2> QED BY <2>4, <2>7, <2>8
<1> QED BY <1>2, <1>3

------------------------------------------------------------------------------
(* Types. *)

\* The buckets of a leaf's path are buckets of the tree.
LEMMA NodeIsBucket ==
  ASSUME NEW leaf \in Leaves, NEW i \in Levels
  PROVE  NodeAt(leaf, i) \in Path(leaf) /\ NodeAt(leaf, i) \in Buckets
BY DEF Path, Buckets

\* A step of Next is one of the operations.
LEMMA NextIsOperation ==
  ASSUME Next
  PROVE  \/ StartFlush \/ FlushTurn \/ BulkLoad \/ RewriteBucket \/ FinishRead
         \/ \E b \in Blocks, v \in Values, leaf \in Leaves : Insert(b, v, leaf)
         \/ \E b \in Blocks, leaf \in Leaves : Access("READ", b, None, leaf)
         \/ \E b \in Blocks, v \in Values, leaf \in Leaves : Access("UPDATE", b, v, leaf)
         \/ \E leaf \in Leaves : FinishUpdate(leaf)
BY DEF Next, Load, WriteOnce, Overwrite, Finish

\* So is a step of the workload that writes every block once.
LEMMA WriteOnceIsOperation ==
  ASSUME Load \/ WriteOnce \/ Finish
  PROVE  \/ StartFlush \/ FlushTurn \/ BulkLoad \/ RewriteBucket \/ FinishRead
         \/ \E b \in Blocks, v \in Values, leaf \in Leaves :
              pos[b] = NoLeaf /\ Insert(b, v, leaf)
         \/ \E b \in Blocks, leaf \in Leaves : Access("READ", b, None, leaf)
         \/ \E leaf \in Leaves : FinishUpdate(leaf)
BY DEF Load, WriteOnce, Finish

\* EvictPath works on the path of a leaf.
LEMMA BeginEvictType ==
  ASSUME TypeOK, BeginEvict
  PROVE  path' \in Leaves /\ G' \in Leaves /\ todo' \in SUBSET Levels
<1>1. path' \in Leaves
  BY ReversedIsLeaf DEF TypeOK, BeginEvict
<1>2. G' \in Leaves
  BY SomeLeaf DEF TypeOK, BeginEvict, Leaves
<1>3. todo' \in SUBSET Levels
  BY DEF BeginEvict
<1> QED BY <1>1, <1>2, <1>3

\* Writing a block keeps every variable in its type.
LEMMA PutInStashType ==
  ASSUME TypeOK, NEW b \in Blocks, NEW v \in Values, NEW leaf \in Leaves,
         PutInStash(b, v, leaf)
  PROVE  TypeOK'
<1>1. round' \in 0 .. A - 1
  BY SizesAssumption DEF TypeOK, PutInStash, NextRound, A
<1>2. path' \in Leaves /\ G' \in Leaves /\ todo' \in SUBSET Levels
  BY BeginEvictType DEF TypeOK, PutInStash
<1>3. /\ pos' \in [Blocks -> Leaves \cup {NoLeaf}]
      /\ stash' \in [Blocks -> Contents]
      /\ store' \in [Blocks -> Contents]
  BY DEF TypeOK, PutInStash, Contents
<1>4. /\ pc' \in {"idle", "reshuffle", "evict", "flush", "halted"}
      /\ op' \in Requests \cup {NoRequest}
      /\ got' \in Contents
  BY DEF PutInStash, Return, Contents
<1> QED BY <1>1, <1>2, <1>3, <1>4 DEF TypeOK, PutInStash

\* The path read of a mapped block keeps the contents in their types.
LEMMA ReadPathType ==
  ASSUME TypeOK, NEW b \in Blocks, NEW leaf \in Leaves, ReadPath(leaf, b)
  PROVE  /\ got' \in Contents
         /\ stash' \in [Blocks -> Contents]
         /\ live' \in [Buckets -> [Blocks -> Contents]]
         /\ count' \in [Buckets -> Nat]
         /\ dummies' \in [Buckets -> 0 .. S]
<1>1. got' \in Contents
  BY NodeIsBucket DEF TypeOK, ReadPath
<1>2. stash' \in [Blocks -> Contents]
  BY <1>1 DEF TypeOK, ReadPath
<1>3. live' \in [Buckets -> [Blocks -> Contents]]
  BY DEF TypeOK, ReadPath, Invalidated, Contents
<1>4. count' \in [Buckets -> Nat]
  BY DEF TypeOK, ReadPath
<1>5. dummies' \in [Buckets -> 0 .. S]
  BY SizesAssumption DEF TypeOK, ReadPath
<1> QED BY <1>1, <1>2, <1>3, <1>4, <1>5

\* Starting a READ or an UPDATE keeps every variable in its type.
LEMMA AccessType ==
  ASSUME TypeOK, NEW type \in {"READ", "UPDATE"}, NEW b \in Blocks, NEW v,
         NEW leaf \in Leaves, Access(type, b, v, leaf),
         [type |-> type, blk |-> b, val |-> v] \in Requests
  PROVE  TypeOK'
<1>1. pos[b] \in Leaves
  BY DEF TypeOK, Access
<1>2. ReadPath(pos[b], b)
  BY DEF Access, OldPath
<1>3. pos' \in [Blocks -> Leaves \cup {NoLeaf}]
  BY DEF TypeOK, Access
<1>4. /\ path' \in Leaves
      /\ todo' \in SUBSET Levels
      /\ pc' \in {"idle", "reshuffle", "evict", "flush", "halted"}
      /\ op' \in Requests
  BY <1>1 DEF Access, OldPath
<1> QED BY <1>1, <1>2, <1>3, <1>4, ReadPathType DEF TypeOK, Access

\* Rewriting a bucket keeps every variable in its type.
LEMMA RewriteBucketType ==
  ASSUME TypeOK, RewriteBucket
  PROVE  TypeOK'
<1>1. PICK i \in todo :
        LET k == NodeAt(path, i)
            pool == [b \in Blocks |-> ReadBack(k, b)]
        IN  /\ \E chosen \in SUBSET Blocks :
                 /\ live' = [live EXCEPT ![k] = [b \in Blocks |->
                                                   IF b \in chosen THEN pool[b] ELSE None]]
                 /\ stash' = [b \in Blocks |-> IF b \in chosen THEN None ELSE pool[b]]
            /\ count' = [count EXCEPT ![k] = 0]
            /\ dummies' = [dummies EXCEPT ![k] = S]
            /\ todo' = Remaining(i)
  BY DEF RewriteBucket
<1> DEFINE k == NodeAt(path, i)
           pool == [b \in Blocks |-> ReadBack(k, b)]
<1>2. k \in Buckets
  BY NodeIsBucket DEF TypeOK
<1>3. pool \in [Blocks -> Contents]
  BY <1>2 DEF TypeOK, ReadBack
<1>4. PICK chosen \in SUBSET Blocks :
        /\ live' = [live EXCEPT ![k] = [b \in Blocks |->
                                          IF b \in chosen THEN pool[b] ELSE None]]
        /\ stash' = [b \in Blocks |-> IF b \in chosen THEN None ELSE pool[b]]
  BY <1>1
<1> HIDE DEF pool, k
<1>5. live' \in [Buckets -> [Blocks -> Contents]]
  BY <1>2, <1>3, <1>4 DEF TypeOK, Contents
<1>6. stash' \in [Blocks -> Contents]
  BY <1>3, <1>4 DEF Contents
<1>7. count' \in [Buckets -> Nat] /\ dummies' \in [Buckets -> 0 .. S]
  BY <1>1, <1>2, SizesAssumption DEF TypeOK, k
<1>8. todo' \in SUBSET Levels
  BY <1>1 DEF TypeOK, Remaining
<1> QED BY <1>5, <1>6, <1>7, <1>8 DEF TypeOK, RewriteBucket

\* Every operation keeps every variable in its type.
LEMMA TypeStep ==
  ASSUME TypeOK, [Next]_vars
  PROVE  TypeOK'
<1>1. CASE StartFlush
  BY <1>1 DEF TypeOK, StartFlush, data
<1>2. CASE FlushTurn
  <2>1. path' \in Leaves /\ G' \in Leaves /\ todo' \in SUBSET Levels
    BY <1>2, BeginEvictType DEF TypeOK, FlushTurn
  <2>2. evicts' \in Nat /\ phase' \in {"loading", "serving"}
    BY <1>2 DEF TypeOK, FlushTurn, OneMore
  <2> QED BY <1>2, <2>1, <2>2 DEF TypeOK, FlushTurn, data
<1>3. CASE BulkLoad
  BY <1>3 DEF TypeOK, BulkLoad
<1>4. CASE RewriteBucket
  BY <1>4, RewriteBucketType
<1>5. CASE FinishRead
  BY <1>5 DEF TypeOK, FinishRead, Return, data, Contents
<1>6. ASSUME NEW b \in Blocks, NEW v \in Values, NEW leaf \in Leaves, Insert(b, v, leaf)
      PROVE  TypeOK'
  BY <1>6, PutInStashType DEF Insert
<1>7. ASSUME NEW b \in Blocks, NEW leaf \in Leaves, Access("READ", b, None, leaf)
      PROVE  TypeOK'
  BY <1>7, AccessType DEF Requests
<1>8. ASSUME NEW b \in Blocks, NEW v \in Values, NEW leaf \in Leaves,
             Access("UPDATE", b, v, leaf)
      PROVE  TypeOK'
  BY <1>8, AccessType DEF Requests
<1>9. ASSUME NEW leaf \in Leaves, FinishUpdate(leaf)
      PROVE  TypeOK'
  <2>1. op.blk \in Blocks /\ op.val \in Values
    BY <1>9 DEF TypeOK, FinishUpdate, Requests, NoRequest
  <2> QED BY <1>9, <2>1, PutInStashType DEF FinishUpdate
<1>10. CASE UNCHANGED vars
  BY <1>10 DEF TypeOK, vars, data, control
<1> QED
  BY <1>1, <1>2, <1>3, <1>4, <1>5, <1>6, <1>7, <1>8, <1>9, <1>10, NextIsOperation

\* The initial state is typed.
LEMMA TypeInit == Init => TypeOK
<1> SUFFICES ASSUME Init PROVE TypeOK
  OBVIOUS
<1>1. 0 \in 0 .. A - 1
  BY SizesAssumption DEF A
<1>2. 0 \in Leaves
  BY SomeLeaf
<1> QED BY <1>1, <1>2, SizesAssumption DEF Init, TypeOK, Contents

\* Every variable of the ORAM keeps its type, whatever is asked of it.
THEOREM TypeCorrect == Spec => []TypeOK
BY TypeInit, TypeStep, PTL DEF Spec

\* Whatever the ORAM is asked, two evictions in a row share no bucket but the root: the bit
\* reversed counter of EvictPath alternates between the halves of the tree.
THEOREM EvictionsSpread == Spec => []EvictionSpread
<1>1. TypeOK => EvictionSpread
  BY NextInOtherHalf DEF TypeOK, EvictionSpread
<1> QED BY <1>1, TypeCorrect, PTL

------------------------------------------------------------------------------
(* No block is lost. *)

\* What a rewrite does to one block: the copies it finds in the stash or in the bucket
\* become one copy, in the bucket if the block's path crosses it and else in the stash.
LEMMA RewriteMoves ==
  ASSUME TypeOK, RewriteBucket
  PROVE  \E k \in Buckets :
           /\ count' = [count EXCEPT ![k] = 0]
           /\ \A l \in Buckets \ {k} : live'[l] = live[l]
           /\ \A b \in Blocks :
                \/ /\ live'[k][b] = ReadBack(k, b) /\ stash'[b] = None
                   /\ ReadBack(k, b) # None /\ Crosses(k, b)
                \/ live'[k][b] = None /\ stash'[b] = ReadBack(k, b)
<1>1. PICK i \in todo :
        LET k == NodeAt(path, i)
            pool == [b \in Blocks |-> ReadBack(k, b)]
            fits == {b \in Blocks : pool[b] # None /\ Crosses(k, b)}
        IN  /\ \E chosen \in SUBSET fits :
                 /\ live' = [live EXCEPT ![k] = [b \in Blocks |->
                                                   IF b \in chosen THEN pool[b] ELSE None]]
                 /\ stash' = [b \in Blocks |-> IF b \in chosen THEN None ELSE pool[b]]
            /\ count' = [count EXCEPT ![k] = 0]
  BY DEF RewriteBucket
<1> DEFINE k == NodeAt(path, i)
<1>2. k \in Buckets
  BY NodeIsBucket DEF TypeOK
<1>3. PICK chosen \in SUBSET {b \in Blocks : ReadBack(k, b) # None /\ Crosses(k, b)} :
        /\ live' = [live EXCEPT ![k] = [b \in Blocks |->
                                          IF b \in chosen THEN ReadBack(k, b) ELSE None]]
        /\ stash' = [b \in Blocks |-> IF b \in chosen THEN None ELSE ReadBack(k, b)]
  BY <1>1
<1> HIDE DEF k
<1>4. /\ live'[k] = [b \in Blocks |-> IF b \in chosen THEN ReadBack(k, b) ELSE None]
      /\ \A l \in Buckets \ {k} : live'[l] = live[l]
  BY <1>2, <1>3 DEF TypeOK
<1>5. count' = [count EXCEPT ![k] = 0]
  BY <1>1 DEF k
<1> WITNESS k \in Buckets
<1> QED BY <1>3, <1>4, <1>5

\* What a path read does: the block leaves the buckets of the path for the stash, and
\* no other block moves.
LEMMA ReadPathMoves ==
  ASSUME TypeOK, NEW b \in Blocks, NEW leaf \in Leaves, ReadPath(leaf, b)
  PROVE  /\ stash'[b] = got'
         /\ \A c \in Blocks \ {b} : stash'[c] = stash[c]
         /\ \A k \in Buckets, c \in Blocks :
              live'[k][c] = IF k \in Path(leaf) /\ c = b THEN None ELSE live[k][c]
         /\ \/ /\ got' = stash[b]
               /\ \A k \in Path(leaf) : live[k][b] = None
            \/ \E k \in Path(leaf) : live[k][b] # None /\ got' = live[k][b]
<1>1. stash'[b] = got' /\ \A c \in Blocks \ {b} : stash'[c] = stash[c]
  BY DEF TypeOK, ReadPath
<1>2. \A k \in Buckets, c \in Blocks :
        live'[k][c] = IF k \in Path(leaf) /\ c = b THEN None ELSE live[k][c]
  BY DEF TypeOK, ReadPath, Invalidated
<1>3. \/ /\ got' = stash[b]
         /\ \A k \in Path(leaf) : live[k][b] = None
      \/ \E k \in Path(leaf) : live[k][b] # None /\ got' = live[k][b]
  BY DEF ReadPath, Path
<1> QED BY <1>1, <1>2, <1>3

\* Writing a block leaves it in the stash, and moves no other block.
LEMMA PutInStashAvailable ==
  ASSUME TypeOK, Available, NEW b \in Blocks, NEW v \in Values, NEW leaf \in Leaves,
         PutInStash(b, v, leaf)
  PROVE  Available'
<1>1. stash'[b] # None
  BY NoValueAssumption DEF TypeOK, PutInStash
<1>2. \A c \in Blocks \ {b} : pos'[c] = pos[c] /\ stash'[c] = stash[c]
  BY DEF TypeOK, PutInStash
<1>3. live' = live
  BY DEF PutInStash
<1> QED BY <1>1, <1>2, <1>3 DEF Available, Copies

\* The path read takes the copy on the old path to the stash before the block is
\* looked for on its new path.
LEMMA AccessAvailable ==
  ASSUME TypeOK, Available, NEW type, NEW b \in Blocks, NEW v, NEW leaf \in Leaves,
         Access(type, b, v, leaf)
  PROVE  Available' /\ got' # None
<1>1. pos[b] \in Leaves /\ ReadPath(pos[b], b)
  BY DEF TypeOK, Access, OldPath
<1>2. got' # None
  <2>1. CASE got' = stash[b] /\ \A k \in Path(pos[b]) : live[k][b] = None
    BY <1>1, <2>1, NoValueAssumption DEF Available, Copies
  <2> QED BY <1>1, <2>1, ReadPathMoves
<1>3. \A c \in Blocks \ {b} : pos'[c] = pos[c] /\ stash'[c] = stash[c]
  BY <1>1, ReadPathMoves DEF TypeOK, Access
<1>4. \A k \in Buckets, c \in Blocks \ {b} : live'[k][c] = live[k][c]
  BY <1>1, ReadPathMoves
<1>5. stash'[b] # None
  BY <1>1, <1>2, ReadPathMoves
<1> QED BY <1>2, <1>3, <1>4, <1>5 DEF Available, Copies

\* Rewriting a bucket moves blocks between it and the stash, and puts in it only blocks
\* whose path crosses it.
LEMMA RewriteAvailable ==
  ASSUME TypeOK, Available, RewriteBucket
  PROVE  Available'
<1>1. PICK k \in Buckets :
        /\ \A l \in Buckets \ {k} : live'[l] = live[l]
        /\ \A b \in Blocks :
             \/ /\ live'[k][b] = ReadBack(k, b) /\ stash'[b] = None
                /\ ReadBack(k, b) # None /\ Crosses(k, b)
             \/ live'[k][b] = None /\ stash'[b] = ReadBack(k, b)
  BY RewriteMoves
<1>2. pos' = pos
  BY DEF RewriteBucket
<1> SUFFICES ASSUME NEW b \in Blocks, pos[b] # NoLeaf
             PROVE  stash'[b] # None \/ Copies(b)' \cap Path(pos[b]) # {}
  BY <1>2 DEF Available
<1>3. CASE ReadBack(k, b) # None
  BY <1>1, <1>3 DEF Copies, Crosses
<1>4. CASE ReadBack(k, b) = None
  <2>1. stash[b] = None /\ live[k][b] = None
    BY <1>4 DEF ReadBack
  <2>2. PICK l \in Buckets : live[l][b] # None /\ l \in Path(pos[b])
    BY <2>1 DEF Available, Copies
  <2>3. live'[l] = live[l]
    BY <1>1, <2>1, <2>2
  <2> QED BY <2>2, <2>3 DEF Copies
<1> QED BY <1>3, <1>4

\* No operation loses a block.
LEMMA AvailableStep ==
  ASSUME TypeOK, Available, [Next]_vars
  PROVE  Available'
<1>1. CASE StartFlush
  BY <1>1 DEF Available, Copies, StartFlush, data
<1>2. CASE FlushTurn
  BY <1>2 DEF Available, Copies, FlushTurn, data
<1>3. CASE BulkLoad
  BY <1>3 DEF Available, BulkLoad
<1>4. CASE RewriteBucket
  BY <1>4, RewriteAvailable
<1>5. CASE FinishRead
  BY <1>5 DEF Available, Copies, FinishRead, data
<1>6. ASSUME NEW b \in Blocks, NEW v \in Values, NEW leaf \in Leaves, Insert(b, v, leaf)
      PROVE  Available'
  BY <1>6, PutInStashAvailable DEF Insert
<1>7. ASSUME NEW b \in Blocks, NEW leaf \in Leaves, Access("READ", b, None, leaf)
      PROVE  Available'
  BY <1>7, AccessAvailable
<1>8. ASSUME NEW b \in Blocks, NEW v \in Values, NEW leaf \in Leaves,
             Access("UPDATE", b, v, leaf)
      PROVE  Available'
  BY <1>8, AccessAvailable
<1>9. ASSUME NEW leaf \in Leaves, FinishUpdate(leaf)
      PROVE  Available'
  <2>1. op.blk \in Blocks /\ op.val \in Values
    BY <1>9 DEF TypeOK, FinishUpdate, Requests, NoRequest
  <2> QED BY <1>9, <2>1, PutInStashAvailable DEF FinishUpdate
<1>10. CASE UNCHANGED vars
  BY <1>10 DEF Available, Copies, vars, data
<1> QED
  BY <1>1, <1>2, <1>3, <1>4, <1>5, <1>6, <1>7, <1>8, <1>9, <1>10, NextIsOperation

\* Whatever is inserted, read, updated, evicted and reshuffled, every block that was
\* ever inserted is in the stash or on its path.
THEOREM NoBlockLost == Spec => []Available
<1>1. Init => Available
  BY DEF Init, Available
<1>2. TypeOK /\ Available /\ [Next]_vars => Available'
  BY AvailableStep
<1> QED BY <1>1, <1>2, TypeCorrect, PTL DEF Spec

------------------------------------------------------------------------------
(* The process never runs out of dummy slots. *)

\* A path read costs a bucket at most one dummy slot and counts as one read of it.
LEMMA AccessBudget ==
  ASSUME TypeOK, DummyBudget, NEW type, NEW b \in Blocks, NEW v, NEW leaf \in Leaves,
         Access(type, b, v, leaf)
  PROVE  DummyBudget'
<1>1. pos[b] \in Leaves /\ pc = "idle"
  BY DEF TypeOK, Access
<1>2. \A k \in Buckets : count[k] < S /\ dummies[k] > 0
  BY <1>1, SizesAssumption DEF DummyBudget, TypeOK
<1>3. ~ Starved(pos[b], b)
  BY <1>1, <1>2, NodeIsBucket DEF Starved, TypeOK
<1>4. pc' = "reshuffle" /\ path' = pos[b]
  BY <1>3 DEF Access, OldPath
<1>5. \A k \in Buckets : dummies'[k] + count'[k] >= S
  <2> TAKE k \in Buckets
  <2>1. /\ count'[k] = count[k] + (IF k \in Path(pos[b]) THEN 1 ELSE 0)
        /\ dummies'[k] = dummies[k] - (IF k \in Path(pos[b]) /\ live[k][b] = None
                                           /\ dummies[k] > 0 THEN 1 ELSE 0)
    BY DEF Access, OldPath, ReadPath
  <2>2. dummies[k] + count[k] >= S
    BY DEF DummyBudget
  <2> QED BY <2>1, <2>2, SizesAssumption DEF TypeOK
<1>6. ASSUME NEW k \in Buckets, count'[k] >= S
      PROVE  \E i \in todo' : k = NodeAt(path', i)
  <2>1. count'[k] = count[k] + (IF k \in Path(pos[b]) THEN 1 ELSE 0)
    BY DEF Access, OldPath, ReadPath
  <2>2. k \in Path(pos[b])
    BY <1>2, <1>6, <2>1, SizesAssumption DEF TypeOK
  <2>3. PICK i \in Levels : k = NodeAt(pos[b], i)
    BY <2>2 DEF Path
  <2>4. i \in todo'
    BY <1>6, <2>3 DEF Access, OldPath, NeedsReshuffle
  <2> QED BY <1>4, <2>3, <2>4
<1> QED BY <1>4, <1>5, <1>6 DEF DummyBudget, NeverHalts

\* A rewritten bucket starts over with S dummy slots and no read.
LEMMA RewriteBudget ==
  ASSUME TypeOK, DummyBudget, S # 0, RewriteBucket
  PROVE  DummyBudget'
<1>1. PICK i \in todo :
        /\ count' = [count EXCEPT ![NodeAt(path, i)] = 0]
        /\ dummies' = [dummies EXCEPT ![NodeAt(path, i)] = S]
        /\ todo' = todo \ {i}
  BY DEF RewriteBucket, Remaining
<1>2. /\ path' = path
      /\ pc' = IF pc = "evict" /\ todo' = {} THEN "idle" ELSE pc
      /\ pc \in {"reshuffle", "evict", "flush"}
  BY DEF RewriteBucket
<1>3. \A k \in Buckets : dummies'[k] + count'[k] >= S
  BY <1>1, SizesAssumption DEF DummyBudget, TypeOK
<1>4. ASSUME NEW k \in Buckets, count'[k] >= S
      PROVE  pc' = "reshuffle" /\ \E j \in todo' : k = NodeAt(path', j)
  <2>1. k # NodeAt(path, i) /\ count'[k] = count[k]
    BY <1>1, <1>4, SizesAssumption DEF TypeOK
  <2>2. pc = "reshuffle" /\ \E j \in todo : k = NodeAt(path, j)
    BY <1>4, <2>1 DEF DummyBudget
  <2> QED BY <1>1, <1>2, <2>1, <2>2
<1> QED BY <1>2, <1>3, <1>4 DEF DummyBudget, NeverHalts

\* Writing to the stash touches no bucket.
LEMMA PutInStashBudget ==
  ASSUME TypeOK, DummyBudget, NEW b, NEW v, NEW leaf, PutInStash(b, v, leaf), todo = {}
  PROVE  DummyBudget'
<1>1. /\ count' = count /\ dummies' = dummies
      /\ pc' \in {"evict", "idle"}
      /\ pc' = "idle" => todo' = todo
  BY DEF PutInStash, Return
<1>2. \A k \in Buckets : ~ (count[k] >= S)
  BY DEF DummyBudget
<1> QED BY <1>1, <1>2 DEF DummyBudget, NeverHalts

\* Every operation leaves the budget of dummy slots balanced.
LEMMA BudgetStep ==
  ASSUME TypeOK, DummyBudget, S # 0, [Next]_vars
  PROVE  DummyBudget'
<1>1. CASE StartFlush
  BY <1>1 DEF DummyBudget, NeverHalts, StartFlush, data
<1>2. CASE FlushTurn
  BY <1>2 DEF DummyBudget, NeverHalts, FlushTurn, data
<1>3. CASE BulkLoad
  BY <1>3 DEF DummyBudget, NeverHalts, BulkLoad
<1>4. CASE RewriteBucket
  BY <1>4, RewriteBudget
<1>5. CASE FinishRead
  BY <1>5 DEF DummyBudget, NeverHalts, FinishRead, Return, data
<1>6. ASSUME NEW b \in Blocks, NEW v \in Values, NEW leaf \in Leaves, Insert(b, v, leaf)
      PROVE  DummyBudget'
  BY <1>6, PutInStashBudget DEF Insert, DummyBudget
<1>7. ASSUME NEW b \in Blocks, NEW leaf \in Leaves, Access("READ", b, None, leaf)
      PROVE  DummyBudget'
  BY <1>7, AccessBudget
<1>8. ASSUME NEW b \in Blocks, NEW v \in Values, NEW leaf \in Leaves,
             Access("UPDATE", b, v, leaf)
      PROVE  DummyBudget'
  BY <1>8, AccessBudget
<1>9. ASSUME NEW leaf \in Leaves, FinishUpdate(leaf)
      PROVE  DummyBudget'
  BY <1>9, PutInStashBudget DEF FinishUpdate
<1>10. CASE UNCHANGED vars
  BY <1>10 DEF DummyBudget, NeverHalts, vars, data, control
<1> QED
  BY <1>1, <1>2, <1>3, <1>4, <1>5, <1>6, <1>7, <1>8, <1>9, <1>10, NextIsOperation

\* With at least one dummy slot to a bucket, the process never exits for want of one.
THEOREM DummiesSuffice ==
  ASSUME S # 0
  PROVE  Spec => []NeverHalts
<1>1. Init => DummyBudget
  BY SizesAssumption DEF Init, DummyBudget, NeverHalts
<1>2. TypeOK /\ DummyBudget /\ [Next]_vars => DummyBudget'
  BY BudgetStep
<1>3. DummyBudget => NeverHalts
  BY DEF DummyBudget
<1> QED BY <1>1, <1>2, <1>3, TypeCorrect, PTL DEF Spec

------------------------------------------------------------------------------
(* A workload that writes every block once reads what it wrote. *)

\* The steps of that workload are steps of the whole specification.
LEMMA WriteOnceTyped == WriteOnceSpec => Spec
BY PTL DEF WriteOnceSpec, Spec, Next

\* What READ finds is the last content, and no UPDATE is under way.
Faithful ==
  /\ CopiesCurrent
  /\ ReadLatest
  /\ op.type # "UPDATE"
  /\ pc \in {"idle", "evict", "flush"} => got = None

\* A fresh INSERT leaves the one copy of its block, with the content written.
LEMMA InsertFaithful ==
  ASSUME TypeOK, Faithful, NEW b \in Blocks, NEW v \in Values, NEW leaf \in Leaves,
         pos[b] = NoLeaf, Insert(b, v, leaf)
  PROVE  Faithful'
<1>1. \A k \in Buckets : live[k][b] = None
  BY DEF Faithful, CopiesCurrent
<1>2. /\ pos'[b] = leaf /\ stash'[b] = v /\ store'[b] = v /\ live' = live
      /\ \A c \in Blocks \ {b} :
           pos'[c] = pos[c] /\ stash'[c] = stash[c] /\ store'[c] = store[c]
  BY DEF TypeOK, Insert, PutInStash
<1>3. leaf # NoLeaf /\ v # None
  BY NoValueAssumption
<1>4. CopiesCurrent'
  BY <1>1, <1>2, <1>3 DEF Faithful, CopiesCurrent
<1>5. pc' \in {"idle", "evict"} /\ op' = NoRequest /\ got' = None
  BY DEF Insert, PutInStash, Return
<1> QED BY <1>4, <1>5 DEF Faithful, ReadLatest, NoRequest

\* A READ moves the copies of its block and changes none, and answers from one of them.
LEMMA ReadFaithful ==
  ASSUME TypeOK, Available, Faithful, NEW b \in Blocks, NEW leaf \in Leaves,
         Access("READ", b, None, leaf)
  PROVE  Faithful' /\ got' = store[b]
<1>1. pos[b] \in Leaves /\ ReadPath(pos[b], b) /\ store' = store
  BY DEF TypeOK, Access, OldPath
<1>2. got' = store[b]
  <2>1. got' # None
    BY AccessAvailable
  <2>2. \A k \in Path(pos[b]) : k \in Buckets
    BY <1>1 DEF Buckets
  <2> QED BY <1>1, <2>1, <2>2, ReadPathMoves DEF Faithful, CopiesCurrent
<1>3. \A c \in Blocks : pos'[c] = NoLeaf <=> store'[c] = None
  BY <1>1, NoValueAssumption DEF Access, TypeOK, Faithful, CopiesCurrent
<1>4. \A c \in Blocks : /\ stash'[c] \in {None, store'[c]}
                        /\ \A k \in Buckets : live'[k][c] \in {None, store'[c]}
  BY <1>1, <1>2, ReadPathMoves DEF Faithful, CopiesCurrent
<1>5. op'.type = "READ" /\ op'.blk = b /\ pc' \in {"halted", "reshuffle"}
  BY DEF Access
<1> QED BY <1>1, <1>2, <1>3, <1>4, <1>5 DEF Faithful, CopiesCurrent, ReadLatest

\* Rewriting a bucket copies contents and makes none.
LEMMA RewriteFaithful ==
  ASSUME TypeOK, Faithful, RewriteBucket
  PROVE  Faithful'
<1>1. PICK k \in Buckets :
        /\ \A l \in Buckets \ {k} : live'[l] = live[l]
        /\ \A b \in Blocks :
             \/ live'[k][b] = ReadBack(k, b) /\ stash'[b] = None
             \/ live'[k][b] = None /\ stash'[b] = ReadBack(k, b)
  BY RewriteMoves
<1>2. pos' = pos /\ store' = store /\ op' = op /\ got' = got
      /\ pc' \in {pc, "idle"} /\ (pc' # pc => pc = "evict")
  BY DEF RewriteBucket
<1>3. \A b \in Blocks : ReadBack(k, b) \in {None, store[b]}
  BY DEF ReadBack, Faithful, CopiesCurrent
<1>4. CopiesCurrent'
  BY <1>1, <1>2, <1>3 DEF Faithful, CopiesCurrent
<1> QED BY <1>2, <1>4 DEF Faithful, ReadLatest

\* Every operation of the write-once workload keeps all copies current.
LEMMA FaithfulStep ==
  ASSUME TypeOK, Available, Faithful, [Load \/ WriteOnce \/ Finish]_vars
  PROVE  Faithful'
<1>1. CASE StartFlush
  BY <1>1 DEF Faithful, CopiesCurrent, ReadLatest, StartFlush, data
<1>2. CASE FlushTurn
  BY <1>2 DEF Faithful, CopiesCurrent, ReadLatest, FlushTurn, data
<1>3. CASE BulkLoad
  BY <1>3 DEF Faithful, CopiesCurrent, ReadLatest, BulkLoad
<1>4. CASE RewriteBucket
  BY <1>4, RewriteFaithful
<1>5. CASE FinishRead
  BY <1>5 DEF Faithful, CopiesCurrent, ReadLatest, FinishRead, Return, NoRequest, data
<1>6. ASSUME NEW b \in Blocks, NEW v \in Values, NEW leaf \in Leaves,
             pos[b] = NoLeaf, Insert(b, v, leaf)
      PROVE  Faithful'
  BY <1>6, InsertFaithful
<1>7. ASSUME NEW b \in Blocks, NEW leaf \in Leaves, Access("READ", b, None, leaf)
      PROVE  Faithful'
  BY <1>7, ReadFaithful
<1>8. ASSUME NEW leaf \in Leaves, FinishUpdate(leaf)
      PROVE  FALSE
  BY <1>8 DEF FinishUpdate, Faithful
<1>9. CASE UNCHANGED vars
  BY <1>9 DEF Faithful, CopiesCurrent, ReadLatest, vars, data, control
<1> QED
  BY <1>1, <1>2, <1>3, <1>4, <1>5, <1>6, <1>7, <1>8, <1>9, WriteOnceIsOperation

\* Before any block is written there is no copy.
LEMMA FaithfulInit == Init => Faithful
BY DEF Init, Faithful, CopiesCurrent, ReadLatest, NoRequest

\* In the write-once workload every copy is current.
LEMMA FaithfulCorrect == WriteOnceSpec => []Faithful
<1>1. TypeOK /\ Available /\ Faithful /\ [Load \/ WriteOnce \/ Finish]_vars => Faithful'
  BY FaithfulStep
<1> QED
  BY <1>1, FaithfulInit, WriteOnceTyped, TypeCorrect, NoBlockLost, PTL DEF WriteOnceSpec

\* READ returns what was written, when every block is written once.
THEOREM ReadsAreCurrent == WriteOnceSpec => []ReadLatest
<1>1. Faithful => ReadLatest
  BY DEF Faithful
<1> QED BY <1>1, FaithfulCorrect, PTL

------------------------------------------------------------------------------
(* One copy of each block, when every block is written once. *)

\* What SingleCopy says of one block.
OneCopy(b) ==
  /\ stash[b] # None => Copies(b) = {}
  /\ \A k, l \in Copies(b) : k = l
  /\ IF pos[b] = NoLeaf THEN stash[b] = None /\ Copies(b) = {}
                        ELSE Copies(b) \subseteq Path(pos[b])

\* A fresh INSERT makes the first copy of its block.
LEMMA InsertSingle ==
  ASSUME TypeOK, SingleCopy, NEW b \in Blocks, NEW v \in Values, NEW leaf \in Leaves,
         pos[b] = NoLeaf, Insert(b, v, leaf)
  PROVE  SingleCopy'
<1>1. /\ pos'[b] = leaf /\ live' = live
      /\ \A c \in Blocks \ {b} : pos'[c] = pos[c] /\ stash'[c] = stash[c]
  BY DEF TypeOK, Insert, PutInStash
<1>2. Copies(b) = {} /\ leaf # NoLeaf
  BY NoValueAssumption DEF SingleCopy
<1>3. OneCopy(b)'
  BY <1>1, <1>2 DEF OneCopy, Copies
<1>4. ASSUME NEW c \in Blocks \ {b}
      PROVE  OneCopy(c)'
  BY <1>1, <1>4 DEF SingleCopy, OneCopy, Copies
<1> QED BY <1>3, <1>4 DEF SingleCopy, OneCopy

\* A READ moves the one copy of its block to the stash: it was on the path that is read.
LEMMA ReadSingle ==
  ASSUME TypeOK, SingleCopy, NEW b \in Blocks, NEW leaf \in Leaves,
         Access("READ", b, None, leaf)
  PROVE  SingleCopy'
<1>1. pos[b] \in Leaves /\ ReadPath(pos[b], b)
  BY DEF TypeOK, Access, OldPath
<1>2. pos'[b] = leaf /\ leaf # NoLeaf /\ \A c \in Blocks \ {b} : pos'[c] = pos[c]
  BY NoValueAssumption DEF TypeOK, Access
<1>3. OneCopy(b)'
  <2>1. Copies(b) \subseteq Path(pos[b])
    BY <1>1, NoValueAssumption DEF SingleCopy
  <2>2. \A k \in Buckets : live'[k][b] = None
    BY <1>1, <2>1, ReadPathMoves DEF Copies
  <2> QED BY <1>2, <2>2 DEF OneCopy, Copies
<1>4. ASSUME NEW c \in Blocks \ {b}
      PROVE  OneCopy(c)'
  <2>1. stash'[c] = stash[c] /\ \A k \in Buckets : live'[k][c] = live[k][c]
    BY <1>1, ReadPathMoves
  <2> QED BY <1>2, <2>1 DEF SingleCopy, OneCopy, Copies
<1> QED BY <1>3, <1>4 DEF SingleCopy, OneCopy

\* Rewriting a bucket takes the copies it finds in the stash and in the bucket, of which
\* there is at most one, and leaves one, in the bucket only if the block's path crosses it.
LEMMA RewriteSingle ==
  ASSUME TypeOK, SingleCopy, RewriteBucket
  PROVE  SingleCopy'
<1>1. PICK k \in Buckets :
        /\ \A l \in Buckets \ {k} : live'[l] = live[l]
        /\ \A b \in Blocks :
             \/ /\ live'[k][b] = ReadBack(k, b) /\ stash'[b] = None
                /\ ReadBack(k, b) # None /\ Crosses(k, b)
             \/ live'[k][b] = None /\ stash'[b] = ReadBack(k, b)
  BY RewriteMoves
<1>2. pos' = pos
  BY DEF RewriteBucket
<1>3. ASSUME NEW b \in Blocks
      PROVE  OneCopy(b)'
  <2>1. CASE ReadBack(k, b) = None
    <3>1. stash[b] = None /\ live[k][b] = None /\ stash'[b] = None /\ live'[k][b] = None
      BY <1>1, <2>1 DEF ReadBack
    <3>2. Copies(b)' = Copies(b)
      BY <1>1, <3>1 DEF Copies
    <3> QED BY <1>2, <3>1, <3>2 DEF SingleCopy, OneCopy
  <2>2. CASE ReadBack(k, b) # None
    <3>1. Copies(b) \subseteq {k}
      BY <2>2 DEF SingleCopy, Copies, ReadBack
    <3>2. \A l \in Buckets \ {k} : live'[l][b] = None
      BY <1>1, <3>1 DEF Copies
    <3>3. pos[b] # NoLeaf
      BY <2>2 DEF SingleCopy, Copies, ReadBack
    <3> QED BY <1>1, <1>2, <2>2, <3>2, <3>3 DEF OneCopy, Copies, Crosses
  <2> QED BY <2>1, <2>2
<1> QED BY <1>3 DEF SingleCopy, OneCopy

\* Every operation of the write-once workload leaves each block with one copy.
LEMMA SingleStep ==
  ASSUME TypeOK, Faithful, SingleCopy, [Load \/ WriteOnce \/ Finish]_vars
  PROVE  SingleCopy'
<1>1. CASE StartFlush
  BY <1>1 DEF SingleCopy, Copies, StartFlush, data
<1>2. CASE FlushTurn
  BY <1>2 DEF SingleCopy, Copies, FlushTurn, data
<1>3. CASE BulkLoad
  <2>1. /\ live' = live
        /\ \A b \in Blocks : Copies(b) = {} /\ (stash'[b] = None <=> pos'[b] = NoLeaf)
    BY <1>3 DEF SingleCopy, BulkLoad
  <2> QED BY <2>1 DEF SingleCopy, Copies
<1>4. CASE RewriteBucket
  BY <1>4, RewriteSingle
<1>5. CASE FinishRead
  BY <1>5 DEF SingleCopy, Copies, FinishRead, data
<1>6. ASSUME NEW b \in Blocks, NEW v \in Values, NEW leaf \in Leaves,
             pos[b] = NoLeaf, Insert(b, v, leaf)
      PROVE  SingleCopy'
  BY <1>6, InsertSingle
<1>7. ASSUME NEW b \in Blocks, NEW leaf \in Leaves, Access("READ", b, None, leaf)
      PROVE  SingleCopy'
  BY <1>7, ReadSingle
<1>8. ASSUME NEW leaf \in Leaves, FinishUpdate(leaf)
      PROVE  FALSE
  BY <1>8 DEF FinishUpdate, Faithful
<1>9. CASE UNCHANGED vars
  BY <1>9 DEF SingleCopy, Copies, vars, data
<1> QED
  BY <1>1, <1>2, <1>3, <1>4, <1>5, <1>6, <1>7, <1>8, <1>9, WriteOnceIsOperation

\* A block written once has one copy for ever, in the stash or in one bucket of its path.
THEOREM OneCopyOnly == WriteOnceSpec => []SingleCopy
<1>1. Init => SingleCopy
  BY DEF Init, SingleCopy, Copies
<1>2. TypeOK /\ Faithful /\ SingleCopy /\ [Load \/ WriteOnce \/ Finish]_vars => SingleCopy'
  BY SingleStep
<1> QED
  BY <1>1, <1>2, FaithfulCorrect, WriteOnceTyped, TypeCorrect, PTL DEF WriteOnceSpec

------------------------------------------------------------------------------
(* The ORAM implements a plain store. *)

\* What the ORAM holds, wherever it keeps it, is what was written.
SameContent == [b \in Blocks |-> Content(b)] = store

\* The content of a block, in the stash or in the tree, is what was last written to it.
LEMMA ContentIsStore == TypeOK /\ Available /\ Faithful => SameContent
<1> SUFFICES ASSUME TypeOK, Available, Faithful
             PROVE  SameContent
  OBVIOUS
<1>1. ASSUME NEW b \in Blocks
      PROVE  Content(b) = store[b]
  <2>1. CASE Copies(b) = {}
    <3>1. CASE pos[b] = NoLeaf
      BY <1>1, <2>1, <3>1 DEF Content, Faithful, CopiesCurrent
    <3>2. CASE pos[b] # NoLeaf
      BY <1>1, <2>1, <3>2 DEF Content, Available, Faithful, CopiesCurrent
    <3> QED BY <3>1, <3>2
  <2>2. CASE Copies(b) # {}
    <3> DEFINE k == CHOOSE k \in Copies(b) : TRUE
    <3>1. k \in Copies(b)
      BY <2>2
    <3>2. k \in Buckets /\ live[k][b] # None
      BY <3>1 DEF Copies
    <3>3. live[k][b] = store[b]
      BY <1>1, <3>2 DEF Faithful, CopiesCurrent
    <3> QED BY <2>2, <3>3 DEF Content
  <2> QED BY <2>1, <2>2
<1>2. store = [b \in Blocks |-> store[b]]
  BY DEF TypeOK
<1> QED BY <1>1, <1>2 DEF SameContent

\* An ORAM without blocks is an empty store.
LEMMA PlainInit == Init => Plain!Init
<1> SUFFICES ASSUME Init PROVE Plain!Init
  OBVIOUS
<1>1. \A b \in Blocks : Copies(b) = {}
  BY DEF Init, Copies
<1> QED BY <1>1 DEF Plain!Init, Init, Content

\* A step of the write-once workload writes one block or all of them, reads a block,
\* hands the answer over, or moves blocks around, which the store does not see.
LEMMA PlainStep ==
  ASSUME TypeOK, Available, Faithful, SameContent, SameContent',
         [Load \/ WriteOnce \/ Finish]_vars
  PROVE  [Plain!Next]_<<[b \in Blocks |-> Content(b)], got>>
<1> DEFINE sbar == [b \in Blocks |-> Content(b)]
<1>1. sbar = store
  BY DEF SameContent
<1>2. (sbar)' = store'
  BY DEF SameContent
<1> HIDE DEF sbar
<1>3. CASE StartFlush \/ FlushTurn \/ RewriteBucket \/ UNCHANGED vars
  BY <1>1, <1>2, <1>3
  DEF StartFlush, FlushTurn, RewriteBucket, vars, data, control, sbar
<1>4. CASE BulkLoad
  <2>1. got = None /\ got' = got /\ store' \in [Blocks -> Contents]
    BY <1>4 DEF BulkLoad, Faithful
  <2> QED
    BY <1>1, <1>2, <2>1 DEF Plain!Next, Plain!WriteAll, Contents, sbar
<1>5. CASE FinishRead
  BY <1>1, <1>2, <1>5 DEF FinishRead, Return, Plain!Next, Plain!Answer, sbar
<1>6. ASSUME NEW b \in Blocks, NEW v \in Values, NEW leaf \in Leaves,
             pos[b] = NoLeaf, Insert(b, v, leaf)
      PROVE  Plain!Next
  <2>1. got = None /\ got' = None /\ store' = [store EXCEPT ![b] = v]
    BY <1>6 DEF Insert, PutInStash, Return, Faithful
  <2> QED BY <1>1, <1>2, <2>1 DEF Plain!Next, Plain!Write, sbar
<1>7. ASSUME NEW b \in Blocks, NEW leaf \in Leaves, Access("READ", b, None, leaf)
      PROVE  Plain!Next
  <2>1. got' = store[b]
    BY <1>7, ReadFaithful
  <2>2. got = None /\ store' = store /\ store[b] # None
    BY <1>7 DEF Access, Faithful, CopiesCurrent
  <2> QED BY <1>1, <1>2, <2>1, <2>2 DEF Plain!Next, Plain!Read, sbar
<1>8. ASSUME NEW leaf \in Leaves, FinishUpdate(leaf)
      PROVE  FALSE
  BY <1>8 DEF FinishUpdate, Faithful
<1> QED
  BY <1>3, <1>4, <1>5, <1>6, <1>7, <1>8, WriteOnceIsOperation DEF sbar

\* With every block written once, position map, stash and tree together implement a
\* plain map from blocks to contents.
THEOREM ImplementsStore == WriteOnceSpec => ImplementsBlockStore
<1>1. TypeOK /\ Available /\ Faithful /\ SameContent /\ SameContent'
        /\ [Load \/ WriteOnce \/ Finish]_vars
      => [Plain!Next]_<<[b \in Blocks |-> Content(b)], got>>
  BY PlainStep
<1> QED
  BY <1>1, PlainInit, ContentIsStore, FaithfulCorrect, WriteOnceTyped, TypeCorrect, NoBlockLost, PTL
  DEF WriteOnceSpec, ImplementsBlockStore, Plain!Spec


------------------------------------------------------------------------------
(* The connection: addresses of slots. *)

\* A product grows with its first factor.
LEMMA TimesMonotonic ==
  ASSUME NEW a \in Nat, NEW b \in Nat, NEW n \in Nat, a <= b
  PROVE  a * n <= b * n
<1>1. PICK d \in Nat : b = a + d
  <2>1. b - a \in Nat /\ b = a + (b - a)
    OBVIOUS
  <2> QED BY <2>1
<1>2. b * n = a * n + d * n
  BY <1>1
<1>3. d * n \in Nat /\ a * n \in Nat
  OBVIOUS
<1> QED BY <1>2, <1>3

\* A number is its quotient and its remainder.
LEMMA Division ==
  ASSUME NEW i \in Nat, NEW n \in Nat \ {0}
  PROVE  /\ i \div n \in Nat /\ i % n \in 0 .. n - 1
         /\ i = (i \div n) * n + (i % n)
OBVIOUS

\* The address of a slot is one of the 2^Width.
LEMMA AddressInRange ==
  ASSUME NEW i \in Nat
  PROVE  Address(i) \in Addresses
<1> DEFINE q == i \div BucketSize
           r == i % BucketSize
           N == 2 ^ Width
<1>1. BucketSize \in Nat \ {0} /\ BlockSize \in Nat \ {0} /\ N \in Nat \ {0}
  BY ConnectionAssumption
<1>2. q \in Nat /\ r \in Nat
  <2>1. q \in Nat /\ r \in 0 .. BucketSize - 1
    BY <1>1, Division, Zenon
  <2> HIDE DEF q, r
  <2> QED BY <1>1, <2>1
<1>3. Address(i) = (q * BucketSize * BlockSize + r * BlockSize) % N
  BY DEF Address
<1> HIDE DEF q, r, N
<1>4. PICK x \in Nat : x = q * BucketSize * BlockSize + r * BlockSize
  BY <1>1, <1>2
<1>5. x % N \in 0 .. N - 1
  BY <1>1
<1> QED BY <1>3, <1>4, <1>5 DEF Addresses, N

\* In a tree that fits, the address of a slot is its number times the block length.
LEMMA AddressOfSlot ==
  ASSUME NEW t \in Trees, Fits(t), NEW i \in Slots(t)
  PROVE  Address(i) = i * BlockSize
<1> DEFINE q == i \div BucketSize
           r == i % BucketSize
           N == 2 ^ Width
<1>1. BucketSize \in Nat \ {0} /\ BlockSize \in Nat \ {0} /\ t \in Nat \ {0} /\ N \in Nat
  BY ConnectionAssumption
<1>2. t * BucketSize \in Nat /\ t * BucketSize * BlockSize <= N
  BY <1>1 DEF Fits
<1>3. i \in Nat /\ i + 1 \in Nat /\ i + 1 <= t * BucketSize
  BY <1>2 DEF Slots
<1>4. q \in Nat /\ r \in Nat /\ i = (q * BucketSize) + r
  <2>1. q \in Nat /\ r \in 0 .. BucketSize - 1 /\ i = (q * BucketSize) + r
    BY <1>1, <1>3, Division, Zenon
  <2> HIDE DEF q, r
  <2> QED BY <1>1, <2>1
<1>5. Address(i) = (q * BucketSize * BlockSize + r * BlockSize) % N
  BY DEF Address
<1> HIDE DEF q, r, N
<1>6. q * BucketSize * BlockSize + r * BlockSize = i * BlockSize
  BY <1>1, <1>4
<1>7. (i + 1) * BlockSize <= t * BucketSize * BlockSize
  BY <1>1, <1>2, <1>3, TimesMonotonic
<1>8. (i + 1) * BlockSize = i * BlockSize + BlockSize /\ i * BlockSize \in Nat
  BY <1>1, <1>3
<1>9. t * BucketSize * BlockSize \in Nat
  BY <1>1, <1>2
<1>10. i * BlockSize < N
  BY <1>1, <1>2, <1>7, <1>8, <1>9
<1>11. (i * BlockSize) % N = i * BlockSize
  <2>1. PICK x \in Nat : x = i * BlockSize
    BY <1>8
  <2>2. N \in Nat \ {0} /\ x < N
    BY <1>1, <1>10, <2>1
  <2>3. x % N = x
    BY <2>1, <2>2
  <2> QED BY <2>1, <2>3
<1> QED BY <1>5, <1>6, <1>11 DEF N

\* Two slots of a tree that fits have two addresses.
LEMMA AddressesDiffer ==
  ASSUME NEW t \in Trees, Fits(t), NEW i \in Slots(t), NEW j \in Slots(t), Address(i) = Address(j)
  PROVE  i = j
<1>1. BlockSize \in Nat \ {0} /\ BucketSize \in Nat \ {0} /\ t \in Nat
  BY ConnectionAssumption
<1>2. t * BucketSize \in Nat
  BY <1>1
<1>3. i \in Nat /\ j \in Nat
  BY <1>2 DEF Slots
<1>4. i * BlockSize = j * BlockSize
  BY AddressOfSlot
<1>5. ASSUME NEW x \in Nat, NEW y \in Nat, x < y PROVE x * BlockSize # y * BlockSize
  <2>1. (x + 1) * BlockSize <= y * BlockSize
    BY <1>1, <1>5, TimesMonotonic
  <2>2. (x + 1) * BlockSize = x * BlockSize + BlockSize /\ x * BlockSize \in Nat /\ y * BlockSize \in Nat
    BY <1>1
  <2> QED BY <1>1, <2>1, <2>2
<1> QED BY <1>3, <1>4, <1>5

------------------------------------------------------------------------------
(* The connection: the stream. *)

\* The units of two sequences put together.
LEMMA Glue ==
  ASSUME NEW X, NEW s \in Seq(X), NEW t \in Seq(X)
  PROVE  /\ s \o t \in Seq(X) /\ Len(s \o t) = Len(s) + Len(t)
         /\ Len(s) \in Nat /\ Len(t) \in Nat
         /\ DOMAIN s = 1 .. Len(s) /\ DOMAIN t = 1 .. Len(t)
         /\ DOMAIN (s \o t) = 1 .. Len(s) + Len(t)
         /\ \A k \in 1 .. Len(s) : (s \o t)[k] = s[k]
         /\ \A k \in 1 .. Len(t) : (s \o t)[Len(s) + k] = t[k]
         /\ \A k \in 1 + Len(s) .. Len(s) + Len(t) : k - Len(s) \in 1 .. Len(t) /\ (s \o t)[k] = t[k - Len(s)]
OBVIOUS

\* The first units of a sequence.
LEMMA Prefix ==
  ASSUME NEW X, NEW s \in Seq(X), NEW n \in 0 .. Len(s)
  PROVE  /\ SubSeq(s, 1, n) \in Seq(X) /\ Len(SubSeq(s, 1, n)) = n /\ DOMAIN s = 1 .. Len(s)
         /\ DOMAIN SubSeq(s, 1, n) = 1 .. n
         /\ \A k \in 1 .. n : SubSeq(s, 1, n)[k] = s[k]
OBVIOUS

\* The units that are left when some are taken.
LEMMA Rest ==
  ASSUME NEW X, NEW s \in Seq(X), NEW n \in 0 .. Len(s)
  PROVE  /\ SubSeq(s, n + 1, Len(s)) \in Seq(X)
         /\ Len(SubSeq(s, n + 1, Len(s))) = Len(s) - n /\ Len(s) - n \in Nat
         /\ DOMAIN s = 1 .. Len(s)
         /\ DOMAIN SubSeq(s, n + 1, Len(s)) = 1 .. Len(s) - n
         /\ \A k \in 1 .. Len(s) - n :
              SubSeq(s, n + 1, Len(s))[k] = s[n + k] /\ n + k \in 1 .. Len(s)
OBVIOUS

\* The messages of the child.
FindUnits(i) ==
  <<Op(FIND_SLOT), Name, U32(i \div BucketSize), U32(Address(i)), U32(BlockSize)>>
Messages ==
  {<<Op(CLEAR), Name>>, <<Op(SET_TUPLE_LENGTH), Name, U32(BlockSize)>>,
   <<Op(CHUNK_BARRIER)>>, <<Op(CLOSE)>>}
    \cup {SlotUnits(i, v) : i \in AllSlots, v \in Ciphers}
    \cup {FindUnits(i) : i \in AllSlots}
Units == [kind : {"op", "name", "u32", "data", "ack"}, val : Int \cup (Int \X Int \X Int)]

\* The units from p on are those of a message, as far as the stream goes, and an
\* opcode comes after them.
MessageAt(st, p, m) ==
  /\ \A k \in DOMAIN m : p + k - 1 \in DOMAIN st => st[p + k - 1] = m[k]
  /\ p + Len(m) \in DOMAIN st => st[p + Len(m)].kind = "op"

\* A stream that begins with a message, and goes on with one where one ends.
Framed(st) ==
  /\ st # <<>> => st[1].kind = "op"
  /\ \A p \in DOMAIN st : st[p].kind = "op" => \E m \in Messages : MessageAt(st, p, m)

\* Its last message is complete, too.
Whole(st) ==
  /\ st # <<>> => st[1].kind = "op"
  /\ \A p \in DOMAIN st : st[p].kind = "op" =>
       \E m \in Messages : MessageAt(st, p, m) /\ p + Len(m) - 1 <= Len(st)

\* The largest tree is one of the trees.
LEMMA LargestTree == MaxTree \in Trees /\ \A u \in Trees : u <= MaxTree
BY ConnectionAssumption DEF MaxTree

\* The slots of a tree are among all slots.
LEMMA SlotsOfTree ==
  ASSUME NEW t \in Trees
  PROVE  /\ Slots(t) \subseteq AllSlots /\ t * BucketSize \in Nat \ {0} /\ 0 \in Slots(t)
         /\ t * BucketSize <= MaxTree * BucketSize /\ MaxTree * BucketSize \in Nat
<1>1. t \in Nat \ {0} /\ MaxTree \in Nat /\ t <= MaxTree /\ BucketSize \in Nat \ {0}
  BY LargestTree, ConnectionAssumption
<1>2. t * BucketSize <= MaxTree * BucketSize
  BY <1>1, TimesMonotonic
<1>3. t * BucketSize \in Nat \ {0} /\ MaxTree * BucketSize \in Nat
  BY <1>1
<1> QED BY <1>2, <1>3 DEF AllSlots, Slots

\* A message is an opcode and units that are none.
LEMMA MessageIs ==
  ASSUME NEW m \in Messages
  PROVE  /\ m \in Seq(Units) /\ Len(m) >= 1 /\ m[1].kind = "op"
         /\ \A k \in DOMAIN m : k # 1 => m[k].kind # "op"
<1>1. BlockSize \in Nat \ {0} /\ BucketSize \in Nat \ {0}
  BY ConnectionAssumption
<1>2. ASSUME NEW i \in AllSlots
      PROVE  Address(i) \in Int /\ i \div BucketSize \in Int
  <2>1. i \in Nat
    BY LargestTree, SlotsOfTree DEF AllSlots, Slots
  <2>2. Address(i) \in Addresses
    BY <2>1, AddressInRange
  <2> QED BY <1>1, <2>1, <2>2, Division DEF Addresses
<1> DEFINE Good(s) == /\ s \in Seq(Units) /\ Len(s) >= 1 /\ s[1].kind = "op"
                      /\ \A k \in DOMAIN s : k # 1 => s[k].kind # "op"
<1>3. /\ \A n \in Int : Op(n) \in Units /\ Op(n).kind = "op" /\ U32(n) \in Units /\ U32(n).kind = "u32"
      /\ Name \in Units /\ Name.kind = "name"
  BY DEF Op, U32, Name, Units
<1>4. \A v \in Ciphers : Data(v) \in Units /\ Data(v).kind = "data"
  <2>1. \A i \in AllSlots : i \in Int
    BY LargestTree, SlotsOfTree DEF AllSlots, Slots
  <2>2. \A v \in Ciphers : v \in Int \X Int \X Int
    BY <2>1, ConnectionAssumption DEF Ciphers
  <2> QED BY <2>2 DEF Data, Units
<1>5. Good(<<Op(CLEAR), Name>>) /\ Good(<<Op(SET_TUPLE_LENGTH), Name, U32(BlockSize)>>)
      /\ Good(<<Op(CHUNK_BARRIER)>>) /\ Good(<<Op(CLOSE)>>)
  BY <1>1, <1>3 DEF CLEAR, SET_TUPLE_LENGTH, CHUNK_BARRIER, CLOSE
<1>6. ASSUME NEW i \in AllSlots PROVE Good(FindUnits(i))
  BY <1>1, <1>2, <1>3 DEF FindUnits, FIND_SLOT
<1>7. ASSUME NEW i \in AllSlots, NEW v \in Ciphers PROVE Good(SlotUnits(i, v))
  <2> DEFINE head == <<Op(INSERT_SLOT), Name, U32(Address(i)), U32(BlockSize)>>
             tail == [k \in 1 .. BlockSize |-> Data(v)]
  <2>1. head \in Seq(Units) /\ Len(head) = 4 /\ Good(head)
    BY <1>1, <1>2, <1>3 DEF INSERT_SLOT
  <2>2. tail \in Seq(Units) /\ \A k \in DOMAIN tail : tail[k].kind = "data"
    BY <1>1, <1>4
  <2> HIDE DEF head, tail
  <2>3. head[1].kind = "op" /\ \A k \in 2 .. 4 : head[k].kind # "op"
    BY <2>1
  <2>4. /\ head \o tail \in Seq(Units) /\ Len(head \o tail) = 4 + Len(tail) /\ Len(tail) \in Nat
        /\ \A k \in 1 .. 4 : (head \o tail)[k] = head[k]
        /\ \A k \in 5 .. 4 + Len(tail) : (head \o tail)[k] = tail[k - 4] /\ k - 4 \in DOMAIN tail
    BY <2>1, <2>2, Glue
  <2> DEFINE s == head \o tail
  <2> HIDE DEF s
  <2>5. /\ s \in Seq(Units) /\ Len(s) = 4 + Len(tail)
        /\ \A k \in 1 .. 4 : s[k] = head[k]
        /\ \A k \in 5 .. 4 + Len(tail) : s[k] = tail[k - 4] /\ k - 4 \in DOMAIN tail
    BY <2>4 DEF s
  <2>6. \A k \in DOMAIN s : k # 1 => s[k].kind # "op"
    <3> TAKE k \in DOMAIN s
    <3>1. k \in 1 .. 4 + Len(tail)
      BY <2>5
    <3>2. CASE k \in 1 .. 4
      BY <2>3, <2>5, <3>2
    <3>3. CASE k \in 5 .. 4 + Len(tail)
      BY <2>2, <2>5, <3>3
    <3> QED BY <2>4, <3>1, <3>2, <3>3
  <2>7. Good(s)
    BY <2>3, <2>4, <2>5, <2>6
  <2> QED BY <2>7 DEF SlotUnits, Block, head, tail, s
<1> HIDE DEF Good
<1>8. Good(m)
  BY <1>5, <1>6, <1>7 DEF Messages
<1> QED BY <1>8 DEF Good

\* The units of a slot, and those of a request for one.
LEMMA SlotUnitsAre ==
  ASSUME NEW i \in AllSlots, NEW v \in Ciphers
  PROVE  /\ SlotUnits(i, v) \in Messages /\ Len(SlotUnits(i, v)) = 4 + BlockSize
         /\ SlotUnits(i, v)[1] = Op(INSERT_SLOT)
         /\ SlotUnits(i, v)[3] = U32(Address(i)) /\ SlotUnits(i, v)[4] = U32(BlockSize)
         /\ \A k \in 1 .. BlockSize : SlotUnits(i, v)[4 + k] = Data(v)
<1> DEFINE head == <<Op(INSERT_SLOT), Name, U32(Address(i)), U32(BlockSize)>>
           tail == [k \in 1 .. BlockSize |-> Data(v)]
           Any == {head[k] : k \in 1 .. 4} \cup {Data(v)}
<1>1. BlockSize \in Nat \ {0}
  BY ConnectionAssumption
<1>2. head \in Seq(Any) /\ Len(head) = 4 /\ head[1] = Op(INSERT_SLOT)
      /\ head[3] = U32(Address(i)) /\ head[4] = U32(BlockSize)
  OBVIOUS
<1>3. tail \in Seq(Any) /\ Len(tail) = BlockSize /\ \A k \in 1 .. BlockSize : tail[k] = Data(v)
  BY <1>1
<1>4. SlotUnits(i, v) = head \o tail
  BY DEF SlotUnits, Block
<1>5. SlotUnits(i, v) \in Messages
  BY DEF Messages
<1> HIDE DEF head, tail, Any
<1>6. /\ Len(head \o tail) = 4 + BlockSize
      /\ \A k \in 1 .. 4 : (head \o tail)[k] = head[k]
      /\ \A k \in 1 .. BlockSize : (head \o tail)[4 + k] = tail[k]
  <2>1. PICK h \in Seq(Any), t \in Seq(Any) : h = head /\ t = tail
    BY <1>2, <1>3
  <2>2. /\ Len(h \o t) = 4 + BlockSize
        /\ \A k \in 1 .. 4 : (h \o t)[k] = h[k]
        /\ \A k \in 1 .. BlockSize : (h \o t)[4 + k] = t[k]
    <3>1. Len(h) = 4 /\ Len(t) = BlockSize
      BY <1>2, <1>3, <2>1
    <3>2. Len(h \o t) = Len(h) + Len(t)
      OBVIOUS
    <3>3. \A k \in 1 .. Len(h) : (h \o t)[k] = h[k]
      OBVIOUS
    <3>4. \A k \in 1 .. Len(t) : (h \o t)[Len(h) + k] = t[k]
      OBVIOUS
    <3> QED BY <3>1, <3>2, <3>3, <3>4
  <2> QED BY <2>1, <2>2
<1> QED BY <1>2, <1>3, <1>4, <1>5, <1>6

\* A message, by its opcode.
LEMMA MessageOf ==
  ASSUME NEW m \in Messages
  PROVE  /\ m[1] \in {Op(CLEAR), Op(SET_TUPLE_LENGTH), Op(CHUNK_BARRIER), Op(CLOSE), Op(FIND_SLOT), Op(INSERT_SLOT)}
         /\ m[1] = Op(CLEAR) => Len(m) = 2
         /\ m[1] = Op(SET_TUPLE_LENGTH) => Len(m) = 3
         /\ m[1] = Op(CHUNK_BARRIER) => Len(m) = 1
         /\ m[1] = Op(FIND_SLOT) => /\ Len(m) = 5 /\ m[5] = U32(BlockSize)
                                    /\ \E i \in AllSlots : m[4] = U32(Address(i))
         /\ m[1] = Op(INSERT_SLOT) =>
              /\ Len(m) = 4 + BlockSize /\ m[4] = U32(BlockSize)
              /\ \E i \in AllSlots : m[3] = U32(Address(i))
              /\ \E v \in Ciphers : \A k \in 1 .. BlockSize : m[4 + k] = Data(v)
<1>1. \A c, d : Op(c) = Op(d) => c = d
  BY DEF Op
<1> DEFINE Is(s) ==
         /\ s[1] \in {Op(CLEAR), Op(SET_TUPLE_LENGTH), Op(CHUNK_BARRIER), Op(CLOSE), Op(FIND_SLOT), Op(INSERT_SLOT)}
         /\ s[1] = Op(CLEAR) => Len(s) = 2
         /\ s[1] = Op(SET_TUPLE_LENGTH) => Len(s) = 3
         /\ s[1] = Op(CHUNK_BARRIER) => Len(s) = 1
         /\ s[1] = Op(FIND_SLOT) => /\ Len(s) = 5 /\ s[5] = U32(BlockSize)
                                    /\ \E i \in AllSlots : s[4] = U32(Address(i))
         /\ s[1] = Op(INSERT_SLOT) =>
              /\ Len(s) = 4 + BlockSize /\ s[4] = U32(BlockSize)
              /\ \E i \in AllSlots : s[3] = U32(Address(i))
              /\ \E v \in Ciphers : \A k \in 1 .. BlockSize : s[4 + k] = Data(v)
<1>2. Is(<<Op(CLEAR), Name>>) /\ Is(<<Op(SET_TUPLE_LENGTH), Name, U32(BlockSize)>>)
      /\ Is(<<Op(CHUNK_BARRIER)>>) /\ Is(<<Op(CLOSE)>>)
  BY <1>1 DEF CLEAR, SET_TUPLE_LENGTH, CHUNK_BARRIER, CLOSE, FIND_SLOT, INSERT_SLOT
<1>3. ASSUME NEW i \in AllSlots PROVE Is(FindUnits(i))
  BY <1>1 DEF FindUnits, CLEAR, SET_TUPLE_LENGTH, CHUNK_BARRIER, CLOSE, FIND_SLOT, INSERT_SLOT
<1>4. ASSUME NEW i \in AllSlots, NEW v \in Ciphers PROVE Is(SlotUnits(i, v))
  BY <1>1, SlotUnitsAre DEF CLEAR, SET_TUPLE_LENGTH, CHUNK_BARRIER, CLOSE, FIND_SLOT, INSERT_SLOT
<1> HIDE DEF Is
<1>5. Is(m)
  BY <1>2, <1>3, <1>4 DEF Messages
<1> QED BY <1>5 DEF Is

\* A stream begins with a message.
LEMMA HeadMessage ==
  ASSUME NEW st \in Seq(Units), st # <<>>, Framed(st)
  PROVE  \E m \in Messages : MessageAt(st, 1, m) /\ m[1] = st[1]
<1>1. 1 \in DOMAIN st /\ st[1].kind = "op"
  BY DEF Framed
<1>2. PICK m \in Messages : MessageAt(st, 1, m)
  BY <1>1 DEF Framed
<1>3. 1 \in DOMAIN m
  BY MessageIs
<1>4. st[1 + 1 - 1] = m[1]
  BY <1>1, <1>2, <1>3 DEF MessageAt
<1> QED BY <1>2, <1>4

\* A stream with nothing torn is one that begins and goes on with messages.
LEMMA WholeIsFramed ==
  ASSUME NEW st, Whole(st)
  PROVE  Framed(st)
BY DEF Whole, Framed

\* What arrives of a stream begins with a message, wherever it is cut.
LEMMA FramedCut ==
  ASSUME NEW st \in Seq(Units), Framed(st), NEW n \in 0 .. Len(st)
  PROVE  SubSeq(st, 1, n) \in Seq(Units) /\ Framed(SubSeq(st, 1, n))
<1>1. PICK u \in Seq(Units) : u = SubSeq(st, 1, n)
  BY Prefix, Zenon
<1>2. DOMAIN u = 1 .. n /\ DOMAIN st = 1 .. Len(st) /\ \A p \in 1 .. n : u[p] = st[p]
  BY <1>1, Prefix
<1>3. u # <<>> => u[1].kind = "op"
  <2> HAVE u # <<>>
  <2>1. 1 \in 1 .. n
    BY <1>2
  <2> QED BY <1>2, <2>1 DEF Framed
<1>4. ASSUME NEW p \in DOMAIN u, u[p].kind = "op"
      PROVE  \E m \in Messages : MessageAt(u, p, m)
  <2>1. p \in DOMAIN st /\ st[p].kind = "op"
    BY <1>2, <1>4
  <2>2. PICK m \in Messages : MessageAt(st, p, m)
    BY <2>1 DEF Framed
  <2>3. \A q \in DOMAIN u : q \in DOMAIN st /\ u[q] = st[q]
    BY <1>2
  <2> QED BY <2>2, <2>3 DEF MessageAt
<1> QED BY <1>1, <1>3, <1>4 DEF Framed

\* When the first message is taken, what is left begins with the next one.
LEMMA TakeMessage ==
  ASSUME NEW st \in Seq(Units), Framed(st), NEW m \in Messages, MessageAt(st, 1, m),
         Len(m) <= Len(st)
  PROVE  /\ Framed(SubSeq(st, Len(m) + 1, Len(st)))
         /\ Whole(st) => Whole(SubSeq(st, Len(m) + 1, Len(st)))
<1>1. PICK n \in 1 .. Len(st) : n = Len(m)
  BY MessageIs
<1> DEFINE u == SubSeq(st, n + 1, Len(st))
<1>2. /\ u \in Seq(Units) /\ Len(u) = Len(st) - n /\ DOMAIN st = 1 .. Len(st) /\ DOMAIN u = 1 .. Len(st) - n
      /\ \A k \in 1 .. Len(st) - n : u[k] = st[n + k] /\ n + k \in 1 .. Len(st)
  BY Rest
<1> HIDE DEF u
<1>3. u # <<>> => u[1].kind = "op"
  <2> HAVE u # <<>>
  <2>1. 1 \in 1 .. Len(st) - n
    BY <1>2
  <2>2. u[1] = st[1 + n] /\ 1 + n \in DOMAIN st
    BY <1>2, <2>1
  <2> QED BY <1>1, <2>2 DEF MessageAt
<1>4. ASSUME NEW p \in DOMAIN u, NEW w \in Messages, MessageAt(st, n + p, w)
      PROVE  MessageAt(u, p, w)
  <2>1. Len(w) \in Nat /\ DOMAIN w = 1 .. Len(w) /\ p \in Nat
    BY <1>2, MessageIs
  <2>2. ASSUME NEW k \in DOMAIN w, p + k - 1 \in DOMAIN u PROVE u[p + k - 1] = w[k]
    <3>1. u[p + k - 1] = st[n + (p + k - 1)] /\ n + (p + k - 1) \in DOMAIN st
      BY <1>2, <2>2
    <3>2. n + (p + k - 1) = n + p + k - 1
      BY <2>1
    <3> QED BY <1>4, <3>1, <3>2 DEF MessageAt
  <2>3. ASSUME p + Len(w) \in DOMAIN u PROVE u[p + Len(w)].kind = "op"
    <3>1. u[p + Len(w)] = st[n + (p + Len(w))] /\ n + (p + Len(w)) \in DOMAIN st
      BY <1>2, <2>3
    <3>2. n + (p + Len(w)) = n + p + Len(w)
      BY <2>1
    <3> QED BY <1>4, <3>1, <3>2 DEF MessageAt
  <2> QED BY <2>2, <2>3 DEF MessageAt
<1>5. ASSUME NEW p \in DOMAIN u, u[p].kind = "op"
      PROVE  n + p \in DOMAIN st /\ st[n + p].kind = "op" /\ p \in Nat
  BY <1>2, <1>5
<1>6. Framed(u)
  BY <1>3, <1>4, <1>5 DEF Framed
<1>7. ASSUME Whole(st) PROVE Whole(u)
  <2>1. ASSUME NEW p \in DOMAIN u, u[p].kind = "op"
        PROVE  \E w \in Messages : MessageAt(u, p, w) /\ p + Len(w) - 1 <= Len(u)
    <3>1. PICK w \in Messages : MessageAt(st, n + p, w) /\ n + p + Len(w) - 1 <= Len(st)
      BY <1>5, <1>7, <2>1 DEF Whole
    <3>2. Len(w) \in Nat /\ p \in Nat
      BY <1>5, <2>1, MessageIs
    <3>3. p + Len(w) - 1 <= Len(u)
      BY <1>2, <3>1, <3>2
    <3> QED BY <1>4, <3>1, <3>3
  <2> QED BY <1>3, <2>1 DEF Whole
<1> QED BY <1>1, <1>6, <1>7 DEF u

\* A message is sent after what is whole.
LEMMA SendMessage ==
  ASSUME NEW st \in Seq(Units), Whole(st), NEW m \in Messages
  PROVE  st \o m \in Seq(Units) /\ Whole(st \o m)
<1> DEFINE u == st \o m
           n == Len(st)
<1>1. m \in Seq(Units) /\ Len(m) >= 1 /\ m[1].kind = "op" /\ \A k \in DOMAIN m : k # 1 => m[k].kind # "op"
  BY MessageIs
<1>2. /\ u \in Seq(Units) /\ Len(u) = n + Len(m) /\ n \in Nat /\ Len(m) \in Nat
      /\ DOMAIN st = 1 .. n /\ DOMAIN m = 1 .. Len(m) /\ DOMAIN u = 1 .. n + Len(m)
      /\ \A k \in 1 .. n : u[k] = st[k]
      /\ \A k \in 1 .. Len(m) : u[n + k] = m[k]
  BY <1>1, Glue
<1> HIDE DEF u, n
<1>3. u[n + 1] = m[1]
  BY <1>1, <1>2
<1>4. u[1].kind = "op"
  <2>1. CASE n = 0
    BY <1>1, <1>3, <2>1
  <2>2. CASE n # 0
    <3>1. 1 \in 1 .. n /\ st # <<>>
      BY <1>2, <2>2
    <3> QED BY <1>2, <3>1 DEF Whole
  <2> QED BY <2>1, <2>2
<1>5. ASSUME NEW p \in DOMAIN u, u[p].kind = "op"
      PROVE  \E w \in Messages : MessageAt(u, p, w) /\ p + Len(w) - 1 <= Len(u)
  <2>1. CASE p \in 1 .. n
    <3>1. p \in DOMAIN st /\ st[p].kind = "op"
      BY <1>2, <1>5, <2>1
    <3>2. PICK w \in Messages : MessageAt(st, p, w) /\ p + Len(w) - 1 <= Len(st)
      BY <3>1 DEF Whole
    <3>3. Len(w) \in Nat /\ Len(w) >= 1 /\ DOMAIN w = 1 .. Len(w) /\ p \in Nat /\ p + Len(w) - 1 <= n
      BY <3>2, <2>1, MessageIs DEF n
    <3>4. ASSUME NEW k \in DOMAIN w, p + k - 1 \in DOMAIN u PROVE u[p + k - 1] = w[k]
      <4>1. p + k - 1 \in 1 .. n
        BY <1>2, <2>1, <3>3
      <4> QED BY <1>2, <3>2, <4>1 DEF MessageAt
    <3>5. ASSUME p + Len(w) \in DOMAIN u PROVE u[p + Len(w)].kind = "op"
      <4>1. p + Len(w) \in 1 .. n \/ p + Len(w) = n + 1
        BY <1>2, <2>1, <3>3
      <4> QED BY <1>1, <1>2, <1>3, <3>2, <4>1 DEF MessageAt
    <3>6. p + Len(w) - 1 <= Len(u)
      BY <1>2, <3>3
    <3> QED BY <3>4, <3>5, <3>6 DEF MessageAt
  <2>2. CASE p \notin 1 .. n
    <3>1. p - n \in 1 .. Len(m) /\ p = n + (p - n)
      BY <1>2, <2>2
    <3>2. p - n = 1
      BY <1>1, <1>2, <1>5, <3>1
    <3>3. p = n + 1
      BY <3>1, <3>2
    <3>4. MessageAt(u, p, m)
      <4>1. \A k \in DOMAIN m : u[p + k - 1] = m[k]
        <5> TAKE k \in DOMAIN m
        <5>1. p + k - 1 = n + k
          BY <1>2, <3>3
        <5> QED BY <1>2, <5>1
      <4>2. p + Len(m) \notin DOMAIN u
        BY <1>2, <3>3
      <4> QED BY <4>1, <4>2 DEF MessageAt
    <3> QED BY <1>2, <3>3, <3>4
  <2> QED BY <2>1, <2>2
<1>6. Whole(u)
  BY <1>4, <1>5 DEF Whole
<1> QED BY <1>2, <1>6 DEF u

------------------------------------------------------------------------------
(* The connection: what the stream does to the storage. *)

OpsAt(st, code) == {p \in DOMAIN st : st[p] = Op(code)}
Inserts(st, a) == {p \in OpsAt(st, INSERT_SLOT) : st[p + 2] = U32(a)}

\* Once the server has taken the stream it holds these slots and nothing else.
Settles(st, slots, content, stored) ==
  /\ \A i \in slots :
       \/ \E p \in Inserts(st, Address(i)) :
            /\ \A q \in Inserts(st, Address(i)) : q <= p
            /\ st[p + 4] = Data(content[Address(i)])
       \/ /\ Inserts(st, Address(i)) = {} /\ OpsAt(st, CLEAR) = {}
          /\ stored[Address(i)] = Block(content[Address(i)])
  /\ \A a \in Addresses : (\A i \in slots : Address(i) # a) =>
       Inserts(st, a) = {} /\ (OpsAt(st, CLEAR) # {} \/ stored[a] = <<>>)

\* The opcodes after a message is sent.
LEMMA OpsAfterSend ==
  ASSUME NEW st \in Seq(Units), NEW m \in Messages, NEW c
  PROVE  OpsAt(st \o m, c) = OpsAt(st, c) \cup (IF m[1] = Op(c) THEN {Len(st) + 1} ELSE {})
<1> DEFINE u == st \o m
           n == Len(st)
<1>1. m \in Seq(Units) /\ Len(m) >= 1 /\ m[1].kind = "op" /\ \A k \in DOMAIN m : k # 1 => m[k].kind # "op"
  BY MessageIs
<1>2. /\ n \in Nat /\ Len(m) \in Nat
      /\ DOMAIN st = 1 .. n /\ DOMAIN m = 1 .. Len(m) /\ DOMAIN u = 1 .. n + Len(m)
      /\ \A k \in 1 .. n : u[k] = st[k]
      /\ \A k \in 1 .. Len(m) : u[n + k] = m[k]
  BY <1>1, Glue
<1>3. Op(c).kind = "op"
  BY DEF Op
<1> HIDE DEF u, n
<1>4. \A k \in 1 .. Len(m) : m[k] = Op(c) => k = 1
  BY <1>1, <1>2, <1>3
<1>5. ASSUME NEW p \in 1 .. n + Len(m)
      PROVE  u[p] = Op(c) <=> (p \in 1 .. n /\ st[p] = Op(c)) \/ (m[1] = Op(c) /\ p = n + 1)
  <2>1. CASE p \in 1 .. n
    BY <1>2, <2>1
  <2>2. CASE p \notin 1 .. n
    <3>1. PICK k \in 1 .. Len(m) : p = n + k
      <4>1. p - n \in 1 .. Len(m) /\ p = n + (p - n)
        BY <1>2, <2>2
      <4> QED BY <4>1
    <3>2. u[p] = m[k]
      BY <1>2, <3>1
    <3>3. k = 1 <=> p = n + 1
      BY <1>2, <3>1
    <3> QED BY <1>4, <2>2, <3>2, <3>3
  <2> QED BY <2>1, <2>2
<1>6. n + 1 \in 1 .. n + Len(m) /\ 1 .. n \subseteq 1 .. n + Len(m)
  BY <1>1, <1>2
<1> QED BY <1>2, <1>5, <1>6 DEF OpsAt, u, n

\* The opcodes after the first message is taken.
LEMMA OpsAfterTake ==
  ASSUME NEW st \in Seq(Units), NEW n \in 0 .. Len(st), NEW c, NEW p
  PROVE  p \in OpsAt(SubSeq(st, n + 1, Len(st)), c) <=> p \in Nat \ {0} /\ n + p \in OpsAt(st, c)
<1> DEFINE u == SubSeq(st, n + 1, Len(st))
<1>1. /\ u \in Seq(Units) /\ Len(st) \in Nat /\ DOMAIN st = 1 .. Len(st) /\ DOMAIN u = 1 .. Len(st) - n
      /\ \A k \in 1 .. Len(st) - n : u[k] = st[n + k] /\ n + k \in 1 .. Len(st)
  BY Rest
<1> HIDE DEF u
<1>2. p \in 1 .. Len(st) - n <=> p \in Nat \ {0} /\ n + p \in 1 .. Len(st)
  BY <1>1
<1> QED BY <1>1, <1>2 DEF OpsAt, u

\* A slot in a whole stream is complete.
LEMMA InsertComplete ==
  ASSUME NEW st \in Seq(Units), Whole(st), NEW p \in OpsAt(st, INSERT_SLOT)
  PROVE  p \in Nat \ {0} /\ p + 4 \in Nat /\ p + 4 <= Len(st) /\ Len(st) \in Nat
<1>1. p \in DOMAIN st /\ st[p] = Op(INSERT_SLOT) /\ st[p].kind = "op" /\ DOMAIN st = 1 .. Len(st) /\ Len(st) \in Nat
  BY DEF OpsAt, Op
<1>2. PICK m \in Messages : MessageAt(st, p, m) /\ p + Len(m) - 1 <= Len(st)
  BY <1>1 DEF Whole
<1>3. 1 \in DOMAIN m /\ Len(m) \in Nat
  BY MessageIs
<1>4. p + 1 - 1 = p
  BY <1>1
<1>5. m[1] = Op(INSERT_SLOT)
  BY <1>1, <1>2, <1>3, <1>4 DEF MessageAt
<1>6. Len(m) = 4 + BlockSize /\ BlockSize \in Nat \ {0}
  BY <1>5, MessageOf, ConnectionAssumption
<1> QED BY <1>1, <1>2, <1>6

\* The slots in a stream after a message is sent.
LEMMA InsertsAfterSend ==
  ASSUME NEW st \in Seq(Units), Whole(st), NEW m \in Messages, NEW a
  PROVE  /\ Inserts(st \o m, a) = Inserts(st, a)
              \cup (IF m[1] = Op(INSERT_SLOT) /\ m[3] = U32(a) THEN {Len(st) + 1} ELSE {})
         /\ \A p \in Inserts(st, a) : p <= Len(st) /\ p \in Nat /\ (st \o m)[p + 4] = st[p + 4]
<1> DEFINE u == st \o m
           n == Len(st)
<1>1. m \in Seq(Units) /\ Len(m) >= 1 /\ Len(m) \in Nat /\ (m[1] = Op(INSERT_SLOT) => Len(m) >= 3)
  BY MessageIs, MessageOf, ConnectionAssumption
<1>2. /\ n \in Nat
      /\ \A k \in 1 .. n : u[k] = st[k]
      /\ \A k \in 1 .. Len(m) : u[n + k] = m[k]
  BY <1>1, Glue
<1>3. OpsAt(u, INSERT_SLOT) =
        OpsAt(st, INSERT_SLOT) \cup (IF m[1] = Op(INSERT_SLOT) THEN {n + 1} ELSE {})
  BY OpsAfterSend
<1> HIDE DEF u
<1>4. \A p \in OpsAt(st, INSERT_SLOT) : p \in Nat \ {0} /\ p + 4 <= n
  BY InsertComplete
<1> HIDE DEF n
<1>5. \A p \in OpsAt(st, INSERT_SLOT) : u[p + 2] = st[p + 2] /\ u[p + 4] = st[p + 4] /\ p <= n
  <2> TAKE p \in OpsAt(st, INSERT_SLOT)
  <2>1. p + 2 \in 1 .. n /\ p + 4 \in 1 .. n
    BY <1>2, <1>4
  <2> QED BY <1>2, <1>4, <2>1
<1>6. m[1] = Op(INSERT_SLOT) => u[n + 1 + 2] = m[3]
  <2> HAVE m[1] = Op(INSERT_SLOT)
  <2>1. n + 1 + 2 = n + 3 /\ 3 \in 1 .. Len(m)
    BY <1>1, <1>2
  <2> QED BY <1>2, <2>1
<1>7. Inserts(u, a) = Inserts(st, a) \cup (IF m[1] = Op(INSERT_SLOT) /\ m[3] = U32(a) THEN {n + 1} ELSE {})
  BY <1>3, <1>5, <1>6 DEF Inserts
<1>8. \A p \in Inserts(st, a) : p <= n /\ p \in Nat /\ u[p + 4] = st[p + 4]
  BY <1>4, <1>5 DEF Inserts
<1> QED BY <1>7, <1>8 DEF u, n

\* The slots in a stream after the first message is taken.
LEMMA InsertsAfterTake ==
  ASSUME NEW st \in Seq(Units), Whole(st), NEW n \in 0 .. Len(st), NEW a, NEW p
  PROVE  p \in Inserts(SubSeq(st, n + 1, Len(st)), a) <=> p \in Nat \ {0} /\ n + p \in Inserts(st, a)
<1> DEFINE u == SubSeq(st, n + 1, Len(st))
<1>1. /\ Len(st) \in Nat
      /\ \A k \in 1 .. Len(st) - n : u[k] = st[n + k]
  BY Rest
<1>2. p \in OpsAt(u, INSERT_SLOT) <=> p \in Nat \ {0} /\ n + p \in OpsAt(st, INSERT_SLOT)
  BY OpsAfterTake
<1> HIDE DEF u
<1>3. ASSUME p \in Nat \ {0}, n + p \in OpsAt(st, INSERT_SLOT)
      PROVE  u[p + 2] = st[n + p + 2]
  <2>1. n + p + 4 <= Len(st)
    BY <1>3, InsertComplete
  <2>2. p + 2 \in 1 .. Len(st) - n /\ n + (p + 2) = n + p + 2
    BY <1>1, <1>3, <2>1
  <2> QED BY <1>1, <2>2
<1> QED BY <1>2, <1>3 DEF Inserts, u

\* An opcode is that of the first message, or comes after it.
LEMMA FirstOp ==
  ASSUME NEW st \in Seq(Units), NEW m \in Messages, MessageAt(st, 1, m), NEW c, NEW p \in OpsAt(st, c)
  PROVE  p \in Nat \ {0} /\ (p = 1 \/ (p > Len(m) /\ p - Len(m) \in Nat \ {0} /\ p = Len(m) + (p - Len(m))))
<1>1. p \in 1 .. Len(st) /\ Len(st) \in Nat /\ st[p] = Op(c) /\ st[p].kind = "op" /\ p \in DOMAIN st
  BY DEF OpsAt, Op
<1>2. Len(m) \in Nat /\ DOMAIN m = 1 .. Len(m) /\ \A k \in DOMAIN m : k # 1 => m[k].kind # "op"
  BY MessageIs
<1>3. p <= Len(m) => p = 1
  <2> HAVE p <= Len(m)
  <2>1. p \in DOMAIN m /\ 1 + p - 1 = p
    BY <1>1, <1>2
  <2>2. st[p] = m[p]
    BY <1>1, <2>1 DEF MessageAt
  <2> QED BY <1>1, <1>2, <2>1, <2>2
<1> QED BY <1>1, <1>2, <1>3

\* A slot is sent: it is settled with its new content, and the others as before.
LEMMA SlotSettles ==
  ASSUME NEW t \in Trees, NEW slots \in SUBSET Slots(t), NEW i \in Slots(t), NEW v \in Ciphers,
         NEW C, NEW content \in [Addresses -> C], NEW stored,
         NEW st \in Seq(Units), Whole(st), Settles(st, slots, content, stored)
  PROVE  Settles(st \o SlotUnits(i, v), slots \cup {i}, [content EXCEPT ![Address(i)] = v], stored)
<1> DEFINE m == SlotUnits(i, v)
           u == st \o m
           n == Len(st)
           new == [content EXCEPT ![Address(i)] = v]
<1>1. i \in AllSlots /\ slots \subseteq AllSlots
  BY SlotsOfTree
<1>2. /\ m \in Messages /\ m[1] = Op(INSERT_SLOT) /\ m[3] = U32(Address(i)) /\ m[5] = Data(v)
      /\ Len(m) = 4 + BlockSize /\ BlockSize \in Nat \ {0}
  <2>1. 1 \in 1 .. BlockSize /\ 4 + 1 = 5
    BY ConnectionAssumption
  <2> QED BY <1>1, <2>1, SlotUnitsAre, ConnectionAssumption
<1>3. \A a, b : U32(a) = U32(b) => a = b
  BY DEF U32
<1> HIDE DEF m
<1>4. ASSUME NEW a
      PROVE  /\ Inserts(u, a) = Inserts(st, a) \cup (IF a = Address(i) THEN {n + 1} ELSE {})
             /\ \A p \in Inserts(st, a) : p <= n /\ p \in Nat /\ u[p + 4] = st[p + 4]
  BY <1>2, <1>3, InsertsAfterSend
<1>5. OpsAt(u, CLEAR) = OpsAt(st, CLEAR)
  <2>1. m[1] # Op(CLEAR)
    BY <1>2 DEF Op, INSERT_SLOT, CLEAR
  <2>2. OpsAt(u, CLEAR) = OpsAt(st, CLEAR) \cup (IF m[1] = Op(CLEAR) THEN {n + 1} ELSE {})
    BY <1>2, OpsAfterSend
  <2> QED BY <2>1, <2>2
<1>6. u[n + 1 + 4] = Data(v) /\ n \in Nat
  <2>1. n + 1 + 4 = n + 5 /\ 5 \in 1 .. Len(m) /\ n \in Nat
    BY <1>2
  <2>2. u[n + 5] = m[5]
    BY <1>2, <2>1, MessageIs, Glue
  <2> QED BY <1>2, <2>1, <2>2
<1>7. new[Address(i)] = v /\ \A a \in Addresses : a # Address(i) => new[a] = content[a]
  <2>1. i \in Nat
    BY <1>1, LargestTree, SlotsOfTree DEF AllSlots, Slots
  <2> QED BY <2>1, AddressInRange
<1> HIDE DEF u, n, new
<1>8. ASSUME NEW j \in slots \cup {i}
      PROVE  \/ \E p \in Inserts(u, Address(j)) :
                  /\ \A q \in Inserts(u, Address(j)) : q <= p
                  /\ u[p + 4] = Data(new[Address(j)])
             \/ /\ Inserts(u, Address(j)) = {} /\ OpsAt(u, CLEAR) = {}
                /\ stored[Address(j)] = Block(new[Address(j)])
  <2>1. CASE Address(j) = Address(i)
    <3>1. n + 1 \in Inserts(u, Address(j)) /\ \A q \in Inserts(u, Address(j)) : q <= n + 1
      BY <1>4, <1>6, <2>1
    <3> QED BY <3>1, <1>6, <1>7, <2>1
  <2>2. CASE Address(j) # Address(i)
    <3>1. j \in slots
      BY <2>2
    <3>2. Inserts(u, Address(j)) = Inserts(st, Address(j))
      BY <1>4, <2>2
    <3>3. Address(j) \in Addresses
      <4>1. j \in Nat
        BY <1>1, <3>1, LargestTree, SlotsOfTree DEF AllSlots, Slots
      <4> QED BY <4>1, AddressInRange
    <3>4. new[Address(j)] = content[Address(j)]
      BY <1>7, <2>2, <3>3
    <3> QED BY <1>4, <1>5, <3>1, <3>2, <3>4 DEF Settles
  <2> QED BY <2>1, <2>2
<1>9. ASSUME NEW a \in Addresses, \A j \in slots \cup {i} : Address(j) # a
      PROVE  Inserts(u, a) = {} /\ (OpsAt(u, CLEAR) # {} \/ stored[a] = <<>>)
  BY <1>4, <1>5, <1>9 DEF Settles
<1>10. Settles(u, slots \cup {i}, new, stored)
  BY <1>8, <1>9 DEF Settles
<1> QED BY <1>10 DEF u, m, new

\* Another message is sent: nothing changes for the slots.
LEMMA OtherSettles ==
  ASSUME NEW slots, NEW content, NEW stored,
         NEW st \in Seq(Units), Whole(st), Settles(st, slots, content, stored),
         NEW m \in Messages, m[1] # Op(INSERT_SLOT), m[1] # Op(CLEAR)
  PROVE  Settles(st \o m, slots, content, stored)
<1> DEFINE u == st \o m
<1>1. ASSUME NEW a
      PROVE  /\ Inserts(u, a) = Inserts(st, a)
             /\ \A p \in Inserts(st, a) : u[p + 4] = st[p + 4]
  <2>1. /\ Inserts(u, a) = Inserts(st, a) \cup (IF m[1] = Op(INSERT_SLOT) /\ m[3] = U32(a) THEN {Len(st) + 1} ELSE {})
        /\ \A p \in Inserts(st, a) : u[p + 4] = st[p + 4]
    BY InsertsAfterSend
  <2> HIDE DEF u
  <2> QED BY <2>1
<1>2. OpsAt(u, CLEAR) = OpsAt(st, CLEAR)
  BY OpsAfterSend
<1> HIDE DEF u
<1>3. Settles(u, slots, content, stored)
  BY <1>1, <1>2 DEF Settles
<1> QED BY <1>3 DEF u

\* The opcodes and slots of a stream, when its first message, of n units, is taken and
\* the units u are left.
Left(st, m, n, u) ==
  /\ n \in 0 .. Len(st) /\ n \in Nat \ {0}
  /\ OpsAt(u, CLEAR) = {}
  /\ OpsAt(st, CLEAR) # {} => m[1] = Op(CLEAR)
  /\ \A b, p : p \in Inserts(u, b) =>
       n + p \in Inserts(st, b) /\ p \in Nat \ {0} /\ u[p + 4] = st[n + p + 4]
  /\ \A b : \A p \in Inserts(st, b) :
       \/ p = 1 /\ m[1] = Op(INSERT_SLOT) /\ st[1 + 2] = U32(b)
       \/ p - n \in Inserts(u, b) /\ p = n + (p - n) /\ p \in Nat /\ p > 1

\* The first message is taken: the slots of the others stay, and there is no CLEAR any
\* more.
LEMMA InsertsLeft ==
  ASSUME NEW st \in Seq(Units), Whole(st), OpsAt(st, CLEAR) \subseteq {1},
         NEW m \in Messages, MessageAt(st, 1, m), m[1] = st[1], Len(m) <= Len(st),
         NEW n, n = Len(m)
  PROVE  Left(st, m, n, SubSeq(st, n + 1, Len(st)))
<1> DEFINE u == SubSeq(st, n + 1, Len(st))
<1>1. n \in 0 .. Len(st) /\ n \in Nat \ {0}
  BY MessageIs
<1>2. \A c, p : p \in OpsAt(u, c) <=> p \in Nat \ {0} /\ n + p \in OpsAt(st, c)
  BY <1>1, OpsAfterTake
<1>3. \A a, p : p \in Inserts(u, a) <=> p \in Nat \ {0} /\ n + p \in Inserts(st, a)
  BY <1>1, InsertsAfterTake
<1>4. ASSUME NEW a, NEW p \in Inserts(u, a) PROVE u[p + 4] = st[n + p + 4]
  <2>1. p \in Nat \ {0} /\ n + p \in Inserts(st, a)
    BY <1>3
  <2>2. n + p + 4 <= Len(st)
    BY <2>1, InsertComplete DEF Inserts
  <2>3. p + 4 \in 1 .. Len(st) - n /\ n + (p + 4) = n + p + 4
    BY <1>1, <2>1, <2>2
  <2>4. \A k \in 1 .. Len(st) - n : SubSeq(st, n + 1, Len(st))[k] = st[n + k]
    BY <1>1, Rest
  <2> QED BY <2>3, <2>4 DEF u
<1> HIDE DEF u
<1>5. OpsAt(u, CLEAR) = {}
  <2> SUFFICES ASSUME NEW p \in OpsAt(u, CLEAR) PROVE FALSE
    OBVIOUS
  <2>1. p \in Nat \ {0} /\ n + p = 1
    BY <1>2
  <2> QED BY <1>1, <2>1
<1>6. OpsAt(st, CLEAR) # {} => m[1] = Op(CLEAR)
  BY DEF OpsAt
<1>7. ASSUME NEW a, NEW p \in Inserts(st, a)
      PROVE  \/ p = 1 /\ m[1] = Op(INSERT_SLOT) /\ st[1 + 2] = U32(a)
             \/ p - n \in Inserts(u, a) /\ p = n + (p - n) /\ p \in Nat /\ p > 1
  <2>1. p \in OpsAt(st, INSERT_SLOT) /\ st[p + 2] = U32(a)
    BY DEF Inserts
  <2>2. p \in Nat \ {0} /\ (p = 1 \/ (p > n /\ p - n \in Nat \ {0} /\ p = n + (p - n)))
    BY <2>1, FirstOp
  <2>3. CASE p = 1
    BY <2>1, <2>3 DEF OpsAt
  <2>4. CASE p # 1
    <3>1. p > n /\ p - n \in Nat \ {0} /\ p = n + (p - n)
      BY <2>2, <2>4
    <3>2. p - n \in Inserts(u, a)
      BY <1>3, <3>1
    <3> QED BY <1>1, <2>2, <3>1, <3>2
  <2> QED BY <2>3, <2>4
<1>8. Left(st, m, n, u)
  BY <1>1, <1>3, <1>4, <1>5, <1>6, <1>7 DEF Left
<1> QED BY <1>8 DEF u

\* The server takes a slot and stores it.
LEMMA TakeSlotSettles ==
  ASSUME NEW slots, NEW content, NEW stored, DOMAIN stored = Addresses,
         \A i \in slots : Address(i) \in Addresses,
         NEW st \in Seq(Units), Whole(st), OpsAt(st, CLEAR) \subseteq {1}, Settles(st, slots, content, stored),
         NEW m \in Messages, MessageAt(st, 1, m), m[1] = st[1], Len(m) <= Len(st),
         m[1] = Op(INSERT_SLOT), NEW v, \A k \in 1 .. BlockSize : m[4 + k] = Data(v),
         NEW a \in Addresses, m[3] = U32(a)
  PROVE  Settles(SubSeq(st, Len(m) + 1, Len(st)), slots, content, [stored EXCEPT ![a] = Block(v)])
<1>1. PICK n : n = Len(m)
  OBVIOUS
<1> DEFINE u == SubSeq(st, n + 1, Len(st))
           new == [stored EXCEPT ![a] = Block(v)]
<1>2. Left(st, m, n, u)
  BY <1>1, InsertsLeft
<1> HIDE DEF u
<1>3. n = 4 + BlockSize /\ BlockSize \in Nat \ {0}
  BY <1>1, MessageOf, ConnectionAssumption
<1>4. st[1 + 2] = U32(a) /\ st[1 + 4] = Data(v)
  <2>1. 3 \in DOMAIN m /\ 5 \in DOMAIN m /\ 3 \in DOMAIN st /\ 5 \in DOMAIN st /\ 1 \in 1 .. BlockSize
    <3>1. DOMAIN m = 1 .. n /\ n <= Len(st) /\ DOMAIN st = 1 .. Len(st) /\ Len(st) \in Nat
      BY <1>1, <1>2, MessageIs DEF Left
    <3> QED BY <1>3, <3>1
  <2>2. 1 + 3 - 1 = 3 /\ 1 + 5 - 1 = 5 /\ 1 + 2 = 3 /\ 1 + 4 = 5 /\ 4 + 1 = 5
    OBVIOUS
  <2>3. st[3] = m[3] /\ st[5] = m[5]
    BY <2>1, <2>2 DEF MessageAt
  <2>4. m[5] = Data(v)
    BY <2>1, <2>2
  <2> QED BY <2>2, <2>3, <2>4
<1>5. OpsAt(st, CLEAR) = {}
  BY <1>2 DEF Left, Op, INSERT_SLOT, CLEAR
<1>6. 1 \in Inserts(st, a)
  <2>1. 1 \in DOMAIN st
    BY <1>2 DEF Left
  <2> QED BY <1>4, <2>1 DEF Inserts, OpsAt
<1>7. new[a] = Block(v) /\ \A b \in Addresses : b # a => new[b] = stored[b]
  OBVIOUS
<1>8. \A b, c : U32(b) = U32(c) => b = c
  BY DEF U32
<1> HIDE DEF new
<1>9. ASSUME NEW i \in slots
      PROVE  \/ \E p \in Inserts(u, Address(i)) :
                  /\ \A q \in Inserts(u, Address(i)) : q <= p
                  /\ u[p + 4] = Data(content[Address(i)])
             \/ /\ Inserts(u, Address(i)) = {} /\ OpsAt(u, CLEAR) = {}
                /\ new[Address(i)] = Block(content[Address(i)])
  <2>1. PICK b : b = Address(i)
    OBVIOUS
  <2>2. b \in Addresses
    BY <2>1
  <2>3. CASE Inserts(st, b) = {}
    <3>1. Inserts(u, b) = {} /\ b # a
      BY <1>2, <1>6, <2>3 DEF Left
    <3>2. stored[b] = Block(content[Address(i)])
      BY <2>1, <2>3 DEF Settles
    <3> QED BY <1>2, <1>7, <2>1, <2>2, <3>1, <3>2 DEF Left
  <2>4. CASE Inserts(st, b) # {}
    <3>1. PICK p \in Inserts(st, b) : /\ \A q \in Inserts(st, b) : q <= p
                                     /\ st[p + 4] = Data(content[Address(i)])
      BY <2>1, <2>4 DEF Settles
    <3>2. CASE p = 1
      <4>1. Inserts(u, b) = {}
        <5> SUFFICES ASSUME NEW q \in Inserts(u, b) PROVE FALSE
          OBVIOUS
        <5>1. n + q <= 1 /\ q \in Nat \ {0}
          BY <1>2, <3>1, <3>2 DEF Left
        <5> QED BY <1>2, <5>1 DEF Left
      <4>2. b = a
        <5>1. st[1 + 2] = U32(b)
          BY <3>1, <3>2 DEF Inserts
        <5> QED BY <1>4, <1>8, <5>1
      <4>3. Data(v) = Data(content[Address(i)])
        BY <1>4, <3>1, <3>2
      <4>4. v = content[Address(i)]
        BY <4>3 DEF Data
      <4> QED BY <1>2, <1>7, <2>1, <4>1, <4>2, <4>4 DEF Left
    <3>3. CASE p # 1
      <4>1. p - n \in Inserts(u, b) /\ p = n + (p - n)
        BY <1>2, <3>1, <3>3 DEF Left
      <4>2. PICK r \in Inserts(u, b) : p = n + r /\ r \in Nat
        BY <1>2, <4>1 DEF Left
      <4>3. \A q \in Inserts(u, b) : q <= r
        <5> TAKE q \in Inserts(u, b)
        <5>1. n + q <= n + r /\ q \in Nat
          BY <1>2, <3>1, <4>2 DEF Left
        <5> QED BY <1>2, <4>2, <5>1 DEF Left
      <4>4. u[r + 4] = Data(content[Address(i)])
        BY <1>2, <3>1, <4>2 DEF Left
      <4> QED BY <2>1, <4>2, <4>3, <4>4
    <3> QED BY <3>2, <3>3
  <2> QED BY <2>3, <2>4
<1>10. ASSUME NEW b \in Addresses, \A i \in slots : Address(i) # b
       PROVE  Inserts(u, b) = {} /\ (OpsAt(u, CLEAR) # {} \/ new[b] = <<>>)
  <2>1. Inserts(st, b) = {} /\ stored[b] = <<>>
    BY <1>5, <1>10 DEF Settles
  <2>2. b # a /\ Inserts(u, b) = {}
    BY <1>2, <1>6, <2>1 DEF Left
  <2> QED BY <1>7, <2>1, <2>2
<1>11. Settles(u, slots, content, new)
  BY <1>9, <1>10 DEF Settles
<1> QED BY <1>1, <1>11 DEF u, new

\* The server takes a CLEAR and forgets all slots.
LEMMA TakeClearSettles ==
  ASSUME NEW slots, NEW content, NEW stored,
         \A i \in slots : Address(i) \in Addresses,
         NEW st \in Seq(Units), Whole(st), OpsAt(st, CLEAR) \subseteq {1}, Settles(st, slots, content, stored),
         NEW m \in Messages, MessageAt(st, 1, m), m[1] = st[1], Len(m) <= Len(st),
         m[1] = Op(CLEAR)
  PROVE  Settles(SubSeq(st, Len(m) + 1, Len(st)), slots, content, [b \in Addresses |-> <<>>])
<1>1. PICK n : n = Len(m)
  OBVIOUS
<1> DEFINE u == SubSeq(st, n + 1, Len(st))
           new == [b \in Addresses |-> <<>>]
<1>2. Left(st, m, n, u)
  BY <1>1, InsertsLeft
<1> HIDE DEF u
<1>3. m[1] # Op(INSERT_SLOT)
  BY DEF Op, INSERT_SLOT, CLEAR
<1>4. OpsAt(st, CLEAR) # {}
  <2>1. 1 \in DOMAIN st
    BY <1>2 DEF Left
  <2> QED BY <2>1 DEF OpsAt
<1>5. ASSUME NEW i \in slots
      PROVE  \E p \in Inserts(u, Address(i)) :
                /\ \A q \in Inserts(u, Address(i)) : q <= p
                /\ u[p + 4] = Data(content[Address(i)])
  <2>1. PICK b : b = Address(i)
    OBVIOUS
  <2>2. PICK p \in Inserts(st, b) : /\ \A q \in Inserts(st, b) : q <= p
                                   /\ st[p + 4] = Data(content[Address(i)])
    BY <1>4, <2>1 DEF Settles
  <2>3. p - n \in Inserts(u, b) /\ p = n + (p - n)
    BY <1>2, <1>3, <2>2 DEF Left
  <2>4. PICK r \in Inserts(u, b) : p = n + r /\ r \in Nat
    BY <1>2, <2>3 DEF Left
  <2>5. \A q \in Inserts(u, b) : q <= r
    <3> TAKE q \in Inserts(u, b)
    <3>1. n + q <= n + r /\ q \in Nat
      BY <1>2, <2>2, <2>4 DEF Left
    <3> QED BY <1>2, <2>4, <3>1 DEF Left
  <2>6. u[r + 4] = Data(content[Address(i)])
    BY <1>2, <2>2, <2>4 DEF Left
  <2> QED BY <2>1, <2>4, <2>5, <2>6
<1>6. ASSUME NEW b \in Addresses, \A i \in slots : Address(i) # b
      PROVE  Inserts(u, b) = {} /\ new[b] = <<>>
  <2>1. Inserts(st, b) = {}
    BY <1>6 DEF Settles
  <2> QED BY <1>2, <2>1 DEF Left
<1> HIDE DEF new
<1>7. Settles(u, slots, content, new)
  BY <1>5, <1>6 DEF Settles
<1> QED BY <1>1, <1>7 DEF u, new

\* The server takes another message: nothing changes for the slots.
LEMMA TakeOtherSettles ==
  ASSUME NEW slots, NEW content, NEW stored,
         NEW st \in Seq(Units), Whole(st), OpsAt(st, CLEAR) \subseteq {1}, Settles(st, slots, content, stored),
         NEW m \in Messages, MessageAt(st, 1, m), m[1] = st[1], Len(m) <= Len(st),
         m[1] # Op(CLEAR), m[1] # Op(INSERT_SLOT)
  PROVE  Settles(SubSeq(st, Len(m) + 1, Len(st)), slots, content, stored)
<1>1. PICK n : n = Len(m)
  OBVIOUS
<1> DEFINE u == SubSeq(st, n + 1, Len(st))
<1>2. Left(st, m, n, u)
  BY <1>1, InsertsLeft
<1> HIDE DEF u
<1>3. OpsAt(st, CLEAR) = {} /\ OpsAt(u, CLEAR) = {}
  BY <1>2 DEF Left
<1>4. ASSUME NEW i \in slots
      PROVE  \/ \E p \in Inserts(u, Address(i)) :
                  /\ \A q \in Inserts(u, Address(i)) : q <= p
                  /\ u[p + 4] = Data(content[Address(i)])
             \/ /\ Inserts(u, Address(i)) = {} /\ OpsAt(u, CLEAR) = {}
                /\ stored[Address(i)] = Block(content[Address(i)])
  <2>1. PICK b : b = Address(i)
    OBVIOUS
  <2>2. CASE Inserts(st, b) = {}
    <3>1. Inserts(u, b) = {}
      BY <1>2, <2>2 DEF Left
    <3>2. stored[b] = Block(content[Address(i)])
      BY <2>1, <2>2 DEF Settles
    <3> QED BY <1>3, <2>1, <3>1, <3>2
  <2>3. CASE Inserts(st, b) # {}
    <3>1. PICK p \in Inserts(st, b) : /\ \A q \in Inserts(st, b) : q <= p
                                     /\ st[p + 4] = Data(content[Address(i)])
      BY <2>1, <2>3 DEF Settles
    <3>2. p - n \in Inserts(u, b) /\ p = n + (p - n)
      BY <1>2, <3>1 DEF Left
    <3>3. PICK r \in Inserts(u, b) : p = n + r /\ r \in Nat
      BY <1>2, <3>2 DEF Left
    <3>4. \A q \in Inserts(u, b) : q <= r
      <4> TAKE q \in Inserts(u, b)
      <4>1. n + q <= n + r /\ q \in Nat
        BY <1>2, <3>1, <3>3 DEF Left
      <4> QED BY <1>2, <3>3, <4>1 DEF Left
    <3>5. u[r + 4] = Data(content[Address(i)])
      BY <1>2, <3>1, <3>3 DEF Left
    <3> QED BY <2>1, <3>3, <3>4, <3>5
  <2> QED BY <2>2, <2>3
<1>5. ASSUME NEW b \in Addresses, \A i \in slots : Address(i) # b
      PROVE  Inserts(u, b) = {} /\ stored[b] = <<>>
  <2>1. Inserts(st, b) = {} /\ stored[b] = <<>>
    BY <1>3, <1>5 DEF Settles
  <2> QED BY <1>2, <2>1 DEF Left
<1>6. Settles(u, slots, content, stored)
  BY <1>4, <1>5 DEF Settles
<1> QED BY <1>1, <1>6 DEF u

------------------------------------------------------------------------------
(* The connection: the stream of a connected child. *)

\* The stream st of a child that is at q and asked for slot i: only the last message may
\* want an answer, and the stream settles the slots.
Flow(st, q, i, slots, content, stored) ==
  /\ Whole(st)
  /\ OpsAt(st, CLOSE) = {}
  /\ OpsAt(st, CLEAR) \subseteq {1}
  /\ \A p \in OpsAt(st, FIND_SLOT) : q = "find" /\ p = Len(st) - 4 /\ st[p + 3] = U32(Address(i))
  /\ \A p \in OpsAt(st, CHUNK_BARRIER) : q = "ack" /\ p = Len(st)
  /\ q # "clear" => Settles(st, slots, content, stored)

\* The opcodes are not one another.
LEMMA OpsDiffer ==
  /\ Op(CLEAR) \notin {Op(SET_TUPLE_LENGTH), Op(CHUNK_BARRIER), Op(CLOSE), Op(FIND_SLOT), Op(INSERT_SLOT)}
  /\ Op(SET_TUPLE_LENGTH) \notin {Op(CHUNK_BARRIER), Op(CLOSE), Op(FIND_SLOT), Op(INSERT_SLOT)}
  /\ Op(CHUNK_BARRIER) \notin {Op(CLOSE), Op(FIND_SLOT), Op(INSERT_SLOT)}
  /\ Op(CLOSE) \notin {Op(FIND_SLOT), Op(INSERT_SLOT)}
  /\ Op(FIND_SLOT) # Op(INSERT_SLOT)
BY DEF Op, CLEAR, SET_TUPLE_LENGTH, CHUNK_BARRIER, CLOSE, FIND_SLOT, INSERT_SLOT

\* A slot is sent.
LEMMA FlowSlot ==
  ASSUME NEW t \in Trees, NEW slots \in SUBSET Slots(t), NEW i \in Slots(t), NEW v \in Ciphers,
         NEW C, NEW content \in [Addresses -> C], NEW stored, NEW st \in Seq(Units), NEW q, NEW j,
         q \notin {"find", "ack", "clear"}, Flow(st, q, j, slots, content, stored),
         NEW r, NEW k
  PROVE  /\ st \o SlotUnits(i, v) \in Seq(Units)
         /\ Flow(st \o SlotUnits(i, v), r, k, slots \cup {i}, [content EXCEPT ![Address(i)] = v], stored)
<1>1. PICK m : m = SlotUnits(i, v)
  OBVIOUS
<1>2. m \in Messages /\ m[1] = Op(INSERT_SLOT)
  BY <1>1, SlotUnitsAre, SlotsOfTree
<1>3. st \o m \in Seq(Units) /\ Whole(st \o m)
  BY <1>2, SendMessage DEF Flow
<1>4. \A c \in {CLOSE, CLEAR, FIND_SLOT, CHUNK_BARRIER} : OpsAt(st \o m, c) = OpsAt(st, c)
  <2> TAKE c \in {CLOSE, CLEAR, FIND_SLOT, CHUNK_BARRIER}
  <2>1. m[1] # Op(c)
    BY <1>2, OpsDiffer
  <2>2. OpsAt(st \o m, c) = OpsAt(st, c) \cup (IF m[1] = Op(c) THEN {Len(st) + 1} ELSE {})
    BY <1>2, OpsAfterSend
  <2> QED BY <2>1, <2>2
<1>5. OpsAt(st, FIND_SLOT) = {} /\ OpsAt(st, CHUNK_BARRIER) = {}
  BY DEF Flow
<1>6. Settles(st \o m, slots \cup {i}, [content EXCEPT ![Address(i)] = v], stored)
  BY <1>1, SlotSettles DEF Flow
<1>7. PICK u : u = st \o m
  OBVIOUS
<1>8. Flow(u, r, k, slots \cup {i}, [content EXCEPT ![Address(i)] = v], stored)
  BY <1>3, <1>4, <1>5, <1>6, <1>7 DEF Flow
<1> QED BY <1>1, <1>3, <1>7, <1>8

\* The block length, or a barrier, is sent.
LEMMA FlowOther ==
  ASSUME NEW slots, NEW content, NEW stored, NEW st \in Seq(Units), NEW q, NEW j,
         q \notin {"find", "ack", "clear"}, Flow(st, q, j, slots, content, stored),
         NEW m \in Messages, NEW r, NEW k,
         \/ m[1] = Op(SET_TUPLE_LENGTH)
         \/ m[1] = Op(CHUNK_BARRIER) /\ r = "ack"
         \/ m[1] = Op(FIND_SLOT) /\ r = "find" /\ m[4] = U32(Address(k))
  PROVE  st \o m \in Seq(Units) /\ Flow(st \o m, r, k, slots, content, stored)
<1>1. st \o m \in Seq(Units) /\ Whole(st \o m)
  BY SendMessage DEF Flow
<1>2. m[1] # Op(INSERT_SLOT) /\ m[1] # Op(CLEAR) /\ m[1] # Op(CLOSE)
  BY OpsDiffer
<1>3. \A c : OpsAt(st \o m, c) = OpsAt(st, c) \cup (IF m[1] = Op(c) THEN {Len(st) + 1} ELSE {})
  BY OpsAfterSend
<1>4. OpsAt(st, FIND_SLOT) = {} /\ OpsAt(st, CHUNK_BARRIER) = {}
  BY DEF Flow
<1>5. Settles(st \o m, slots, content, stored)
  BY <1>2, OtherSettles DEF Flow
<1>6. /\ Len(st \o m) = Len(st) + Len(m) /\ Len(st) \in Nat
      /\ \A n \in 1 .. Len(m) : (st \o m)[Len(st) + n] = m[n]
  BY MessageIs, Glue
<1>7. PICK u : u = st \o m
  OBVIOUS
<1>8. OpsAt(u, CLOSE) = {} /\ OpsAt(u, CLEAR) \subseteq {1}
  BY <1>2, <1>3, <1>7 DEF Flow
<1>9. ASSUME NEW p \in OpsAt(u, FIND_SLOT)
      PROVE  r = "find" /\ p = Len(u) - 4 /\ u[p + 3] = U32(Address(k))
  <2>1. m[1] = Op(FIND_SLOT) /\ p = Len(st) + 1
    BY <1>3, <1>4, <1>7
  <2>2. Len(m) = 5 /\ r = "find" /\ m[4] = U32(Address(k))
    BY <2>1, MessageOf, OpsDiffer
  <2>3. p = Len(u) - 4
    BY <1>6, <1>7, <2>1, <2>2
  <2>4. p + 3 = Len(st) + 4 /\ 4 \in 1 .. Len(m)
    BY <1>6, <2>1, <2>2
  <2> QED BY <1>6, <1>7, <2>2, <2>3, <2>4
<1>10. ASSUME NEW p \in OpsAt(u, CHUNK_BARRIER)
       PROVE  r = "ack" /\ p = Len(u)
  <2>1. m[1] = Op(CHUNK_BARRIER) /\ p = Len(st) + 1
    BY <1>3, <1>4, <1>7
  <2>2. Len(m) = 1 /\ r = "ack"
    BY <2>1, MessageOf, OpsDiffer
  <2> QED BY <1>6, <1>7, <2>1, <2>2
<1>11. Flow(u, r, k, slots, content, stored)
  BY <1>1, <1>5, <1>7, <1>8, <1>9, <1>10 DEF Flow
<1> QED BY <1>1, <1>7, <1>11

\* The first message of a stream is taken.
LEMMA FlowTake ==
  ASSUME NEW slots, NEW content, NEW stored, NEW new, NEW st \in Seq(Units), NEW q, NEW j,
         Flow(st, q, j, slots, content, stored),
         NEW m \in Messages, MessageAt(st, 1, m), m[1] = st[1], Len(m) <= Len(st),
         q # "clear" => Settles(SubSeq(st, Len(m) + 1, Len(st)), slots, content, new)
  PROVE  Flow(SubSeq(st, Len(m) + 1, Len(st)), q, j, slots, content, new)
<1>1. PICK n \in 1 .. Len(st) : n = Len(m)
  BY MessageIs
<1> DEFINE u == SubSeq(st, n + 1, Len(st))
<1>2. /\ Len(u) = Len(st) - n /\ Len(st) \in Nat /\ DOMAIN u = 1 .. Len(st) - n
      /\ \A k \in 1 .. Len(st) - n : u[k] = st[n + k]
  BY Rest
<1>3. \A c, p : p \in OpsAt(u, c) <=> p \in Nat \ {0} /\ n + p \in OpsAt(st, c)
  BY OpsAfterTake
<1>4. Whole(u)
  BY <1>1, TakeMessage, WholeIsFramed DEF Flow
<1> HIDE DEF u
<1>5. OpsAt(u, CLOSE) = {}
  BY <1>3 DEF Flow
<1>6. OpsAt(u, CLEAR) \subseteq {1}
  <2> SUFFICES ASSUME NEW p \in OpsAt(u, CLEAR) PROVE FALSE
    OBVIOUS
  <2>1. p \in Nat \ {0} /\ n + p = 1
    BY <1>3 DEF Flow
  <2> QED BY <2>1
<1>7. ASSUME NEW p \in OpsAt(u, FIND_SLOT)
      PROVE  q = "find" /\ p = Len(u) - 4 /\ u[p + 3] = U32(Address(j))
  <2>1. p \in Nat \ {0} /\ n + p \in OpsAt(st, FIND_SLOT)
    BY <1>3
  <2>2. q = "find" /\ n + p = Len(st) - 4 /\ st[n + p + 3] = U32(Address(j))
    BY <2>1 DEF Flow
  <2>3. p + 3 \in 1 .. Len(st) - n /\ n + (p + 3) = n + p + 3
    BY <1>2, <2>1, <2>2
  <2>4. PICK a \in Nat : a = Len(st)
    BY <1>2
  <2>5. Len(u) = a - n /\ p \in Nat /\ n + p = a - 4
    BY <1>2, <2>1, <2>2, <2>4
  <2>6. p = Len(u) - 4
    BY <2>4, <2>5
  <2> QED BY <1>2, <2>2, <2>3, <2>6
<1>8. ASSUME NEW p \in OpsAt(u, CHUNK_BARRIER)
      PROVE  q = "ack" /\ p = Len(u)
  <2>1. p \in Nat \ {0} /\ n + p \in OpsAt(st, CHUNK_BARRIER)
    BY <1>3
  <2>2. q = "ack" /\ n + p = Len(st)
    BY <2>1 DEF Flow
  <2> QED BY <1>2, <2>1, <2>2
<1>9. q # "clear" => Settles(u, slots, content, new)
  BY <1>1 DEF u
<1>10. Flow(u, q, j, slots, content, new)
  BY <1>4, <1>5, <1>6, <1>7, <1>8, <1>9 DEF Flow
<1> QED BY <1>1, <1>10 DEF u

------------------------------------------------------------------------------
(* The connection: the inductive invariant. *)

\* What the child has sent, or will send as it is.
Pending == IF at = "stream" THEN toServer \o buf ELSE toServer

\* The slots the child has sent, or has in its buffer.
Sent ==
  IF at \in {"serve", "find"} THEN Slots(tree)
  ELSE IF at \in {"stream", "ack"} \/ (at = "build" /\ ~silent) THEN 0 .. next - 1
  ELSE {}

\* How far a connected child is, and what it waits for.
Stage ==
  /\ session = "open" /\ runs >= 1 /\ tree \in Trees /\ next \in 0 .. tree * BucketSize
  /\ silent => at \in {"length", "build"}
  /\ at \in {"length", "build"} => silent = bulk
  /\ at \in {"stream", "ack"} => bulk
  /\ at \in {"clear", "length"} => next = 0
  /\ at = "clear" => toServer = <<>>
  /\ at \in {"clear", "length", "build"} => buf = <<>>
  /\ at = "find" => ops > 0 /\ asked \in Slots(tree)
  /\ at \notin {"find", "ack"} => toClient = <<>>
  /\ at = "find" => toClient = <<>> \/ (toClient = Block(mem[Address(asked)]) /\ OpsAt(toServer, FIND_SLOT) = {})
  /\ at = "ack" => toClient = <<>> \/ (toClient = <<Ack>> /\ toServer = <<>>)
  /\ at = "ack" => next > 0
  /\ at = "stream" /\ buf = <<>> /\ next > 0 => toServer = <<>>
  /\ at = "serve" /\ bulk /\ ops = 0 => toServer = <<>>

\* What a connected child has sent.
Traffic == Flow(Pending, at, asked, Sent, mem, storage)

ConnectionInv ==
  /\ ConnectionTypeOK
  /\ toServer \in Seq(Units) /\ buf \in Seq(Units)
  /\ session # "open" => toServer = <<>> /\ toClient = <<>>
  /\ Framed(toServer)
  /\ at = "down" => next = 0 /\ silent = FALSE /\ buf = <<>>
  /\ at # "down" => Stage /\ Traffic

\* Where nothing in the stream wants an answer, the child may go on to any other place.
LEMMA FlowMoves ==
  ASSUME NEW st, NEW q, NEW j, NEW slots, NEW content, NEW stored, q # "clear",
         Flow(st, q, j, slots, content, stored),
         OpsAt(st, FIND_SLOT) = {}, OpsAt(st, CHUNK_BARRIER) = {}, NEW r, NEW k
  PROVE  Flow(st, r, k, slots, content, stored)
BY DEF Flow

\* The stream of a child that waits for nothing.
LEMMA NothingAsked ==
  ASSUME NEW st, NEW q, NEW j, NEW slots, NEW content, NEW stored, q \notin {"find", "ack"},
         Flow(st, q, j, slots, content, stored)
  PROVE  OpsAt(st, FIND_SLOT) = {} /\ OpsAt(st, CHUNK_BARRIER) = {}
BY DEF Flow

\* Nothing is in an empty stream.
LEMMA EmptyStream ==
  ASSUME NEW c
  PROVE  <<>> \in Seq(Units) /\ Whole(<<>>) /\ Framed(<<>>) /\ OpsAt(<<>>, c) = {}
BY DEF Whole, Framed, OpsAt

\* What is sent in one piece is sent piece by piece.
LEMMA Pieces ==
  ASSUME NEW X, NEW a \in Seq(X), NEW b \in Seq(X), NEW c \in Seq(X)
  PROVE  /\ b \o c \in Seq(X) /\ a \o (b \o c) = (a \o b) \o c
         /\ a \o <<>> = a /\ <<>> \o a = a
OBVIOUS

\* At the start.
LEMMA ConnectionInitInv == ConnectionInit => ConnectionInv
<1> SUFFICES ASSUME ConnectionInit PROVE ConnectionInv
  OBVIOUS
<1>1. MaxTree \in Trees /\ MaxTree * BucketSize \in Nat \ {0} /\ 0 \in AllSlots
  BY LargestTree, SlotsOfTree DEF AllSlots
<1>2. mem \in [Addresses -> Ciphers \cup {NoCipher}]
  BY DEF ConnectionInit
<1>3. DOMAIN storage = Addresses
  BY DEF ConnectionInit
<1>4. 0 \in 0 .. MaxTree * BucketSize /\ 0 \in 0 .. MaxOps /\ 0 \in 0 .. MaxRuns
  <2>1. PICK x \in Nat : x = MaxTree * BucketSize
    BY <1>1
  <2>2. MaxOps \in Nat /\ MaxRuns \in Nat
    BY ConnectionAssumption
  <2> QED BY <2>1, <2>2
<1>5. ConnectionTypeOK
  BY <1>1, <1>2, <1>3, <1>4 DEF ConnectionInit, ConnectionTypeOK
<1> QED BY <1>5, EmptyStream DEF ConnectionInit, ConnectionInv

\* The parts of the invariant of a connected child.
LEMMA Parts ==
  ASSUME ConnectionTypeOK', toServer' \in Seq(Units), buf' \in Seq(Units), session' = "open", at' # "down",
         Stage', Traffic', Framed(toServer')
  PROVE  ConnectionInv'
BY DEF ConnectionInv

\* The child connects to a server whose stream is empty.
LEMMA ConnectKeeps ==
  ASSUME ConnectionInv, Connect
  PROVE  ConnectionInv'
<1>1. /\ at = "down" /\ session = "accept" /\ runs < MaxRuns /\ tree' \in Trees /\ bulk' \in BOOLEAN
      /\ at' = "clear" /\ session' = "open" /\ runs' = runs + 1
      /\ UNCHANGED <<next, silent, buf, asked, mem, ops, storage, toServer, toClient>>
  BY DEF Connect
<1>2. /\ toServer = <<>> /\ toClient = <<>> /\ next = 0 /\ silent = FALSE /\ buf = <<>>
      /\ runs \in 0 .. MaxRuns
  BY <1>1 DEF ConnectionInv, ConnectionTypeOK
<1>3. tree' * BucketSize \in Nat \ {0}
  BY <1>1, SlotsOfTree
<1>4. ConnectionTypeOK'
  BY <1>1, ConnectionAssumption DEF ConnectionInv, ConnectionTypeOK
<1>5. Stage'
  BY <1>1, <1>2, <1>3, ConnectionAssumption DEF Stage
<1>6. Traffic'
  <2>1. Pending' = <<>> /\ at' = "clear"
    BY <1>1, <1>2 DEF Pending
  <2> QED BY <2>1, EmptyStream DEF Traffic, Flow
<1> QED BY <1>1, <1>2, <1>4, <1>5, <1>6, EmptyStream DEF ConnectionInv

\* The slots of earlier runs are cleared.
LEMMA ClearStorageKeeps ==
  ASSUME ConnectionInv, ClearStorage
  PROVE  ConnectionInv'
<1> DEFINE m == <<Op(CLEAR), Name>>
<1>1. /\ at = "clear" /\ at' = "length" /\ silent' = bulk
      /\ toServer' = toServer \o m
      /\ UNCHANGED <<bulk, tree, next, buf, asked, mem, ops, runs, toClient, session, storage>>
  BY DEF ClearStorage, Send, server
<1>2. Stage /\ Traffic /\ toServer = <<>> /\ bulk \in BOOLEAN
  BY <1>1 DEF ConnectionInv, Stage, ConnectionTypeOK
<1>3. m \in Messages /\ m[1] = Op(CLEAR)
  BY DEF Messages
<1> HIDE DEF m
<1>4. PICK u : u = toServer'
  OBVIOUS
<1>5. u = <<>> \o m /\ u \in Seq(Units) /\ Whole(u)
  BY <1>1, <1>2, <1>3, <1>4, EmptyStream, SendMessage
<1>6. \A c : OpsAt(u, c) = IF c = CLEAR THEN {1} ELSE {}
  <2> TAKE c
  <2>1. OpsAt(u, c) = OpsAt(<<>>, c) \cup (IF m[1] = Op(c) THEN {Len(<<>>) + 1} ELSE {})
    <3>1. PICK e : e = <<>>
      OBVIOUS
    <3>2. OpsAt(e \o m, c) = OpsAt(e, c) \cup (IF m[1] = Op(c) THEN {Len(e) + 1} ELSE {})
      BY <1>3, <3>1, EmptyStream, OpsAfterSend
    <3> QED BY <1>5, <3>1, <3>2
  <2>2. m[1] = Op(c) <=> c = CLEAR
    BY <1>3 DEF Op
  <2>3. Len(<<>>) + 1 = 1 /\ OpsAt(<<>>, c) = {}
    BY EmptyStream
  <2> QED BY <2>1, <2>2, <2>3
<1>7. CLEAR \notin {INSERT_SLOT, CLOSE, FIND_SLOT, CHUNK_BARRIER}
  BY DEF INSERT_SLOT, CLOSE, FIND_SLOT, CHUNK_BARRIER, CLEAR
<1>8. Settles(u, {}, mem, storage)
  BY <1>6, <1>7 DEF Settles, Inserts
<1>9. Flow(u, "length", asked, {}, mem, storage)
  BY <1>5, <1>6, <1>7, <1>8 DEF Flow
<1>10. Pending' = u /\ Sent' = {}
  BY <1>1, <1>4 DEF Pending, Sent
<1>11. Traffic'
  BY <1>1, <1>9, <1>10 DEF Traffic
<1>12. ConnectionTypeOK'
  BY <1>1, <1>2 DEF ConnectionInv, ConnectionTypeOK
<1>13. Stage'
  BY <1>1, <1>2 DEF Stage
<1>14. Framed(toServer')
  BY <1>4, <1>5, WholeIsFramed
<1>15. toServer' \in Seq(Units) /\ buf' \in Seq(Units) /\ session' = "open" /\ at' # "down"
  BY <1>1, <1>2, <1>4, <1>5 DEF ConnectionInv, Stage
<1> QED BY <1>11, <1>12, <1>13, <1>14, <1>15, Parts

\* The block length is announced.
LEMMA SetTupleLengthKeeps ==
  ASSUME ConnectionInv, SetTupleLength
  PROVE  ConnectionInv'
<1> DEFINE m == <<Op(SET_TUPLE_LENGTH), Name, U32(BlockSize)>>
<1>1. /\ at = "length" /\ at' = "build"
      /\ toServer' = toServer \o m
      /\ UNCHANGED <<bulk, tree, next, silent, buf, asked, mem, ops, runs, toClient, session, storage>>
  BY DEF SetTupleLength, Send, server
<1>2. Stage /\ Traffic /\ next = 0 /\ toServer \in Seq(Units)
  BY <1>1 DEF ConnectionInv, Stage
<1>3. m \in Messages /\ m[1] = Op(SET_TUPLE_LENGTH)
  BY DEF Messages
<1> HIDE DEF m
<1>4. PICK u : u = toServer'
  OBVIOUS
<1>5. Pending = toServer /\ Sent = {}
  BY <1>1 DEF Pending, Sent
<1>6. u \in Seq(Units) /\ Flow(u, "build", asked, {}, mem, storage)
  BY <1>1, <1>2, <1>3, <1>4, <1>5, FlowOther DEF Traffic
<1>7. Pending' = u /\ Sent' = {}
  <2>1. 0 .. 0 - 1 = {}
    OBVIOUS
  <2> QED BY <1>1, <1>2, <1>4, <2>1 DEF Pending, Sent
<1>8. Traffic'
  BY <1>1, <1>6, <1>7 DEF Traffic
<1>9. ConnectionTypeOK'
  BY <1>1 DEF ConnectionInv, ConnectionTypeOK
<1>10. Stage'
  BY <1>1, <1>2 DEF Stage
<1>11. Framed(toServer')
  BY <1>4, <1>6, WholeIsFramed DEF Flow
<1>12. toServer' \in Seq(Units) /\ buf' \in Seq(Units) /\ session' = "open" /\ at' # "down"
  BY <1>1, <1>2, <1>4, <1>6 DEF ConnectionInv, Stage
<1> QED BY <1>8, <1>9, <1>10, <1>11, <1>12, Parts

\* What a connected child knows of its tree.
LEMMA Connected ==
  ASSUME ConnectionInv, at # "down"
  PROVE  /\ Stage /\ Traffic /\ tree \in Trees /\ session = "open" /\ next \in Nat
         /\ toServer \in Seq(Units) /\ buf \in Seq(Units) /\ bulk \in BOOLEAN /\ silent \in BOOLEAN
         /\ runs \in 1 .. MaxRuns /\ ops \in 0 .. MaxOps /\ tree * BucketSize \in Nat \ {0}
         /\ mem \in [Addresses -> Ciphers \cup {NoCipher}] /\ asked \in AllSlots
         /\ Slots(tree) = 0 .. tree * BucketSize - 1 /\ Slots(tree) \subseteq AllSlots
         /\ next \in 0 .. tree * BucketSize
         /\ \A n \in 0 .. tree * BucketSize : n \in 0 .. MaxTree * BucketSize
         /\ {MaxRuns, MaxOps} \subseteq Nat
         /\ \A n \in 0 .. MaxOps, i \in AllSlots : <<runs, n, i>> \in Ciphers
<1>1. Stage /\ Traffic /\ ConnectionTypeOK /\ toServer \in Seq(Units) /\ buf \in Seq(Units)
  BY DEF ConnectionInv
<1>2. tree \in Trees /\ session = "open" /\ runs >= 1 /\ next \in 0 .. tree * BucketSize
  BY <1>1 DEF Stage
<1>3. /\ tree * BucketSize \in Nat \ {0} /\ Slots(tree) \subseteq AllSlots
      /\ tree * BucketSize <= MaxTree * BucketSize /\ MaxTree * BucketSize \in Nat
  BY <1>2, SlotsOfTree
<1>4. MaxRuns \in Nat /\ MaxOps \in Nat
  BY ConnectionAssumption
<1>5. /\ bulk \in BOOLEAN /\ silent \in BOOLEAN /\ runs \in 0 .. MaxRuns /\ ops \in 0 .. MaxOps
      /\ mem \in [Addresses -> Ciphers \cup {NoCipher}] /\ asked \in AllSlots
  BY <1>1 DEF ConnectionTypeOK
<1>6. runs \in 1 .. MaxRuns
  BY <1>2, <1>4, <1>5
<1>7. \A n \in 0 .. MaxOps, i \in AllSlots : <<runs, n, i>> \in Ciphers
  BY <1>6 DEF Ciphers
<1>8. \A n \in 0 .. tree * BucketSize : n \in 0 .. MaxTree * BucketSize
  <2>1. PICK x \in Nat : x = tree * BucketSize
    BY <1>3
  <2>2. PICK y \in Nat : y = MaxTree * BucketSize
    BY <1>3
  <2> QED BY <1>3, <2>1, <2>2
<1>9. next \in Nat
  <2>1. PICK x \in Nat : x = tree * BucketSize
    BY <1>3
  <2> QED BY <1>2, <2>1
<1> QED BY <1>1, <1>2, <1>3, <1>4, <1>5, <1>6, <1>7, <1>8, <1>9 DEF Slots

\* The constructor fills a slot.
LEMMA BuildSlotKeeps ==
  ASSUME ConnectionInv, BuildSlot
  PROVE  ConnectionInv'
<1> DEFINE v == <<runs, 0, next>>
<1>1. /\ at = "build" /\ next \in Slots(tree) /\ mem' = [mem EXCEPT ![Address(next)] = v]
      /\ IF silent THEN toServer' = toServer ELSE toServer' = toServer \o SlotUnits(next, v)
      /\ next' = next + 1
      /\ UNCHANGED <<at, bulk, tree, silent, buf, asked, ops, runs, toClient, session, storage>>
  BY DEF BuildSlot, InsertSlot, Send, server
<1>2. at # "down"
  BY <1>1
<1>3. v \in Ciphers /\ next + 1 \in 0 .. tree * BucketSize
  <2>1. 0 \in 0 .. MaxOps
    BY <1>2, Connected
  <2>2. PICK x \in Nat : x = tree * BucketSize
    BY <1>2, Connected
  <2>3. next \in 0 .. x - 1
    BY <1>1, <1>2, <2>2, Connected
  <2>4. next \in AllSlots
    BY <1>1, <1>2, Connected
  <2> QED BY <1>2, <2>1, <2>2, <2>3, <2>4, Connected
<1> HIDE DEF v
<1>4. PICK u : u = toServer'
  OBVIOUS
<1>5. /\ Pending = toServer /\ Pending' = u
      /\ Sent = (IF silent THEN {} ELSE 0 .. next - 1)
      /\ Sent' = (IF silent THEN {} ELSE 0 .. (next + 1) - 1)
  BY <1>1, <1>4 DEF Pending, Sent
<1>6. u \in Seq(Units) /\ Flow(u, "build", asked, Sent', mem', storage)
  <2>0. Flow(toServer, "build", asked, Sent, mem, storage)
    BY <1>1, <1>2, <1>5, Connected DEF Traffic
  <2>1. CASE silent
    <3>1. u = toServer /\ Sent = {} /\ Sent' = {}
      BY <1>1, <1>4, <1>5, <2>1
    <3> QED BY <1>2, <2>0, <3>1, Connected DEF Flow, Settles
  <2>2. CASE ~ silent
    <3>1. u = toServer \o SlotUnits(next, v)
      BY <1>1, <1>4, <2>2
    <3>2. Sent = 0 .. next - 1 /\ Sent' = Sent \cup {next} /\ Sent \in SUBSET Slots(tree)
      <4>1. PICK x \in Nat : x = tree * BucketSize
        BY <1>2, Connected
      <4>2. Slots(tree) = 0 .. x - 1 /\ next \in Nat
        BY <1>2, <4>1, Connected
      <4> QED BY <1>1, <1>5, <2>2, <4>1, <4>2
    <3>3. tree \in Trees /\ toServer \in Seq(Units) /\ mem \in [Addresses -> Ciphers \cup {NoCipher}]
      BY <1>2, Connected
    <3>4. /\ toServer \o SlotUnits(next, v) \in Seq(Units)
          /\ Flow(toServer \o SlotUnits(next, v), "build", asked, Sent \cup {next},
                  [mem EXCEPT ![Address(next)] = v], storage)
      BY <1>1, <1>3, <2>0, <3>2, <3>3, FlowSlot
    <3> QED BY <1>1, <3>1, <3>2, <3>4
  <2> QED BY <2>1, <2>2
<1>7. Traffic'
  BY <1>1, <1>5, <1>6 DEF Traffic
<1>8. ConnectionTypeOK'
  <2>1. mem' \in [Addresses -> Ciphers \cup {NoCipher}] /\ next' \in 0 .. MaxTree * BucketSize
    BY <1>1, <1>2, <1>3, Connected
  <2> QED BY <1>1, <2>1 DEF ConnectionInv, ConnectionTypeOK
<1>9. Stage'
  <2>1. Stage
    BY <1>2, Connected
  <2> QED BY <1>1, <1>3, <2>1 DEF Stage
<1>10. toServer' \in Seq(Units) /\ buf' \in Seq(Units) /\ session' = "open" /\ at' # "down"
  BY <1>1, <1>2, <1>4, <1>6, Connected
<1>11. Framed(toServer')
  BY <1>4, <1>6, WholeIsFramed DEF Flow
<1> QED BY <1>7, <1>8, <1>9, <1>10, <1>11, Parts

\* The constructor returns.
LEMMA BuiltKeeps ==
  ASSUME ConnectionInv, Built
  PROVE  ConnectionInv'
<1>1. /\ at = "build" /\ next \notin Slots(tree)
      /\ at' = (IF bulk THEN "stream" ELSE "serve") /\ next' = 0 /\ silent' = FALSE
      /\ UNCHANGED <<bulk, tree, buf, asked, mem, ops, runs, toServer, toClient, session, storage>>
  BY DEF Built, server
<1>2. at # "down" /\ silent = bulk /\ buf = <<>> /\ toClient = <<>> /\ Stage
  BY <1>1, Connected DEF Stage
<1>3. Pending = toServer /\ Pending' = toServer
  <2>1. toServer \o <<>> = toServer
    BY <1>2, Connected, Pieces
  <2> QED BY <1>1, <1>2, <2>1 DEF Pending
<1>4. Sent' = Sent
  <2>1. PICK x \in Nat : x = tree * BucketSize
    BY <1>2, Connected
  <2>2. next = x
    BY <1>1, <1>2, <2>1, Connected
  <2>3. Slots(tree) = 0 .. next - 1 /\ 0 .. 0 - 1 = {}
    BY <1>2, <2>1, <2>2, Connected
  <2>4. CASE bulk
    BY <1>1, <1>2, <2>3, <2>4 DEF Sent
  <2>5. CASE ~ bulk
    <3>1. Slots(tree)' = Slots(tree)
      BY <1>1 DEF Slots
    <3> QED BY <1>1, <1>2, <2>3, <2>5, <3>1 DEF Sent
  <2> QED BY <2>4, <2>5
<1>5. Flow(toServer, at', asked, Sent, mem, storage)
  <2>1. Flow(toServer, "build", asked, Sent, mem, storage)
    BY <1>1, <1>2, <1>3, Connected DEF Traffic
  <2> QED BY <2>1, NothingAsked, FlowMoves
<1>6. Traffic'
  BY <1>1, <1>3, <1>4, <1>5 DEF Traffic
<1>7. ConnectionTypeOK'
  <2>1. 0 \in 0 .. MaxTree * BucketSize
    BY <1>2, Connected
  <2> QED BY <1>1, <2>1 DEF ConnectionInv, ConnectionTypeOK
<1>8. Stage'
  <2>1. 0 \in 0 .. tree * BucketSize
    BY <1>2, Connected
  <2> QED BY <1>1, <1>2, <2>1 DEF Stage
<1>9. toServer' \in Seq(Units) /\ buf' \in Seq(Units) /\ session' = "open" /\ at' # "down"
  BY <1>1, <1>2, Connected
<1>10. Framed(toServer')
  BY <1>1, <1>5, WholeIsFramed DEF Flow
<1> QED BY <1>6, <1>7, <1>8, <1>9, <1>10, Parts

\* A barrier is a message.
LEMMA BarrierIs ==
  /\ <<Op(CHUNK_BARRIER)>> \in Messages /\ <<Op(CHUNK_BARRIER)>> \in Seq(Units)
  /\ <<Op(CHUNK_BARRIER)>>[1] = Op(CHUNK_BARRIER)
<1>1. <<Op(CHUNK_BARRIER)>> \in Messages
  BY DEF Messages
<1> QED BY <1>1, MessageIs

\* The next slot goes into the buffer, which is sent when it is long enough.
LEMMA StreamSlotKeeps ==
  ASSUME ConnectionInv, StreamSlot
  PROVE  ConnectionInv'
<1> DEFINE v == <<runs, 0, next>>
           s == SlotUnits(next, v)
           units == buf \o s
           b == <<Op(CHUNK_BARRIER)>>
<1>1. /\ at = "stream" /\ next \in Slots(tree) /\ mem' = [mem EXCEPT ![Address(next)] = v]
      /\ \/ buf' = units /\ at' = at /\ toServer' = toServer
         \/ buf' = units /\ at' = "ack" /\ toServer' = toServer \o (units \o b)
      /\ next' = next + 1
      /\ UNCHANGED <<bulk, tree, silent, asked, ops, runs, toClient, session, storage>>
  BY DEF StreamSlot, Flush, Send, server
<1>2. at # "down" /\ Stage
  BY <1>1, Connected
<1>3. v \in Ciphers /\ next + 1 \in 0 .. tree * BucketSize /\ next \in AllSlots
  <2>1. 0 \in 0 .. MaxOps
    BY <1>2, Connected
  <2>2. PICK x \in Nat : x = tree * BucketSize
    BY <1>2, Connected
  <2>3. next \in 0 .. x - 1
    BY <1>1, <1>2, <2>2, Connected
  <2>4. next \in AllSlots
    BY <1>1, <1>2, Connected
  <2>5. v \in Ciphers /\ next + 1 \in 0 .. tree * BucketSize
    BY <1>2, <2>1, <2>2, <2>3, <2>4, Connected
  <2> QED BY <2>4, <2>5
<1> HIDE DEF v
<1>4. s \in Seq(Units) /\ Len(s) # 0
  <2>1. s \in Messages
    BY <1>3, SlotUnitsAre
  <2> QED BY <2>1, MessageIs
<1> HIDE DEF s, b
<1>5. units \in Seq(Units) /\ units # <<>> /\ toServer \o units = (toServer \o buf) \o s
  <2>1. buf \in Seq(Units) /\ toServer \in Seq(Units)
    BY <1>2, Connected
  <2> QED BY <1>4, <2>1, Pieces
<1> HIDE DEF units
<1>6. PICK w : w = toServer \o units
  OBVIOUS
<1>7. /\ w \in Seq(Units)
      /\ \A q : Flow(w, q, asked, 0 .. (next + 1) - 1, mem', storage)
  <2>1. Flow(toServer \o buf, "stream", asked, 0 .. next - 1, mem, storage)
    BY <1>1, <1>2, Connected DEF Traffic, Pending, Sent
  <2>2. 0 .. next - 1 \in SUBSET Slots(tree) /\ (0 .. next - 1) \cup {next} = 0 .. (next + 1) - 1
    <3>1. PICK x \in Nat : x = tree * BucketSize
      BY <1>2, Connected
    <3>2. Slots(tree) = 0 .. x - 1 /\ next \in Nat
      BY <1>2, <3>1, Connected
    <3> QED BY <1>1, <3>1, <3>2
  <2>3. /\ tree \in Trees /\ toServer \o buf \in Seq(Units)
        /\ mem \in [Addresses -> Ciphers \cup {NoCipher}]
    BY <1>2, Connected, Pieces
  <2>4. \A q : /\ (toServer \o buf) \o SlotUnits(next, v) \in Seq(Units)
               /\ Flow((toServer \o buf) \o SlotUnits(next, v), q, asked, (0 .. next - 1) \cup {next},
                       [mem EXCEPT ![Address(next)] = v], storage)
    <3> SUFFICES ASSUME NEW q
                 PROVE  /\ (toServer \o buf) \o SlotUnits(next, v) \in Seq(Units)
                        /\ Flow((toServer \o buf) \o SlotUnits(next, v), q, asked,
                                (0 .. next - 1) \cup {next}, [mem EXCEPT ![Address(next)] = v], storage)
      OBVIOUS
    <3> DEFINE st == toServer \o buf
               slots == 0 .. next - 1
    <3>1. st \in Seq(Units) /\ slots \in SUBSET Slots(tree) /\ Flow(st, "stream", asked, slots, mem, storage)
      BY <2>1, <2>2, <2>3
    <3> HIDE DEF st, slots
    <3>2. /\ st \o SlotUnits(next, v) \in Seq(Units)
          /\ Flow(st \o SlotUnits(next, v), q, asked, slots \cup {next}, [mem EXCEPT ![Address(next)] = v], storage)
      BY <1>1, <1>3, <2>3, <3>1, FlowSlot
    <3> QED BY <3>2 DEF st, slots
  <2> QED BY <1>1, <1>5, <1>6, <2>2, <2>4 DEF s
<1>8. ConnectionTypeOK'
  <2>1. mem' \in [Addresses -> Ciphers \cup {NoCipher}] /\ next' \in 0 .. MaxTree * BucketSize
    BY <1>1, <1>2, <1>3, Connected
  <2> QED BY <1>1, <2>1 DEF ConnectionInv, ConnectionTypeOK
<1>9. Stage'
  <2>1. next' \in 0 .. tree * BucketSize /\ next' > 0
    BY <1>1, <1>2, <1>3, Connected
  <2>2. buf' # <<>> /\ at' \in {"stream", "ack"}
    BY <1>1, <1>5
  <2> QED BY <1>1, <1>2, <2>1, <2>2 DEF Stage
<1>10. CASE at' = at /\ toServer' = toServer
  <2>1. Pending' = w /\ Sent' = 0 .. (next + 1) - 1
    BY <1>1, <1>6, <1>10 DEF Pending, Sent
  <2>2. Traffic'
    BY <1>1, <1>7, <1>10, <2>1 DEF Traffic
  <2>3. toServer' \in Seq(Units) /\ buf' \in Seq(Units) /\ session' = "open" /\ at' # "down"
    BY <1>1, <1>2, <1>5, <1>10, Connected
  <2>4. Framed(toServer')
    BY <1>10 DEF ConnectionInv
  <2> QED BY <1>8, <1>9, <2>2, <2>3, <2>4, Parts
<1>11. CASE at' = "ack" /\ toServer' = toServer \o (units \o b)
  <2>1. toServer' = w \o b
    <3>1. b \in Seq(Units) /\ toServer \in Seq(Units)
      BY <1>2, BarrierIs, Connected DEF b
    <3>2. toServer \o (units \o b) = (toServer \o units) \o b
      <4>1. units \in Seq(Units)
        BY <1>5
      <4> QED BY <3>1, <4>1, Pieces
    <3> QED BY <1>6, <1>11, <3>2
  <2>2. w \o b \in Seq(Units) /\ Flow(w \o b, "ack", asked, 0 .. (next + 1) - 1, mem', storage)
    <3>1. Flow(w, "stream", asked, 0 .. (next + 1) - 1, mem', storage) /\ w \in Seq(Units)
      BY <1>7
    <3> QED BY <3>1, BarrierIs, FlowOther DEF b
  <2>3. PICK u : u = toServer'
    OBVIOUS
  <2>4. Pending' = u /\ Sent' = 0 .. (next + 1) - 1
    BY <1>1, <1>11, <2>3 DEF Pending, Sent
  <2>5. Traffic'
    BY <1>1, <1>11, <2>1, <2>2, <2>3, <2>4 DEF Traffic
  <2>6. toServer' \in Seq(Units) /\ buf' \in Seq(Units) /\ session' = "open" /\ at' # "down"
    BY <1>1, <1>2, <1>5, <1>11, <2>1, <2>2, Connected
  <2>7. Framed(toServer')
    BY <2>1, <2>2, WholeIsFramed DEF Flow
  <2> QED BY <1>8, <1>9, <2>5, <2>6, <2>7, Parts
<1> QED BY <1>1, <1>10, <1>11

\* The rest of the buffer is sent, or the child is ready.
LEMMA StreamEndKeeps ==
  ASSUME ConnectionInv, StreamEnd
  PROVE  ConnectionInv'
<1> DEFINE b == <<Op(CHUNK_BARRIER)>>
<1>1. /\ at = "stream" /\ next \notin Slots(tree)
      /\ \/ buf = <<>> /\ at' = "serve" /\ buf' = buf /\ toServer' = toServer
         \/ buf # <<>> /\ buf' = buf /\ at' = "ack" /\ toServer' = toServer \o (buf \o b)
      /\ UNCHANGED <<bulk, tree, next, silent, asked, mem, ops, runs, toClient, session, storage>>
  BY DEF StreamEnd, Flush, Send, server
<1> HIDE DEF b
<1>2. at # "down" /\ Stage
  BY <1>1, Connected
<1>3. Slots(tree) = 0 .. next - 1 /\ next > 0
  <2>1. PICK x \in Nat \ {0} : x = tree * BucketSize
    BY <1>2, Connected
  <2>2. Slots(tree) = 0 .. x - 1 /\ next \in 0 .. x
    BY <1>2, <2>1, Connected
  <2>3. next = x
    BY <1>1, <2>1, <2>2
  <2> QED BY <2>1, <2>2, <2>3
<1>4. PICK w : w = toServer \o buf
  OBVIOUS
<1>5. w \in Seq(Units) /\ Flow(w, "stream", asked, 0 .. next - 1, mem, storage)
  BY <1>1, <1>2, <1>4, Connected, Pieces DEF Traffic, Pending, Sent
<1>6. ConnectionTypeOK'
  BY <1>1 DEF ConnectionInv, ConnectionTypeOK
<1>7. Stage'
  BY <1>1, <1>2, <1>3 DEF Stage
<1>8. CASE buf = <<>> /\ at' = "serve" /\ buf' = buf /\ toServer' = toServer
  <2>1. w = toServer
    BY <1>2, <1>4, <1>8, Connected, Pieces
  <2>2. Flow(w, "serve", asked, 0 .. next - 1, mem, storage)
    BY <1>5, NothingAsked, FlowMoves
  <2>3. Slots(tree)' = Slots(tree)
    BY <1>1 DEF Slots
  <2>4. Pending' = w /\ Sent' = 0 .. next - 1
    BY <1>3, <1>8, <2>1, <2>3 DEF Pending, Sent
  <2>5. Traffic'
    BY <1>1, <1>8, <2>2, <2>4 DEF Traffic
  <2>6. toServer' \in Seq(Units) /\ buf' \in Seq(Units) /\ session' = "open" /\ at' # "down"
    BY <1>1, <1>2, <1>8, Connected
  <2>7. Framed(toServer')
    BY <1>8 DEF ConnectionInv
  <2> QED BY <1>6, <1>7, <2>5, <2>6, <2>7, Parts
<1>9. CASE buf # <<>> /\ buf' = buf /\ at' = "ack" /\ toServer' = toServer \o (buf \o b)
  <2>1. toServer' = w \o b
    <3>1. b \in Seq(Units)
      BY BarrierIs DEF b
    <3>2. toServer \in Seq(Units) /\ buf \in Seq(Units)
      BY <1>2, Connected
    <3>3. toServer \o (buf \o b) = (toServer \o buf) \o b
      BY <3>1, <3>2, Pieces
    <3> QED BY <1>4, <1>9, <3>3
  <2>2. w \o b \in Seq(Units) /\ Flow(w \o b, "ack", asked, 0 .. next - 1, mem, storage)
    BY <1>5, BarrierIs, FlowOther DEF b
  <2>3. PICK u : u = toServer'
    OBVIOUS
  <2>4. Pending' = u /\ Sent' = 0 .. next - 1
    BY <1>1, <1>9, <2>3 DEF Pending, Sent
  <2>5. Traffic'
    BY <1>1, <1>9, <2>1, <2>2, <2>3, <2>4 DEF Traffic
  <2>6. toServer' \in Seq(Units) /\ buf' \in Seq(Units) /\ session' = "open" /\ at' # "down"
    BY <1>1, <1>2, <1>9, <2>1, <2>2, Connected
  <2>7. Framed(toServer')
    BY <2>1, <2>2, WholeIsFramed DEF Flow
  <2> QED BY <1>6, <1>7, <2>5, <2>6, <2>7, Parts
<1> QED BY <1>1, <1>8, <1>9

\* The answer to the barrier arrives.
LEMMA RecvAckKeeps ==
  ASSUME ConnectionInv, RecvAck
  PROVE  ConnectionInv'
<1>1. /\ at = "ack" /\ toClient # <<>> /\ toClient' = Tail(toClient) /\ buf' = <<>> /\ at' = "stream"
      /\ UNCHANGED <<bulk, tree, next, silent, asked, mem, ops, runs, toServer, session, storage>>
  BY DEF RecvAck, server
<1>2. at # "down" /\ Stage
  BY <1>1, Connected
<1>3. toClient = <<Ack>> /\ toServer = <<>> /\ toClient' = <<>>
  <2>1. toClient = <<Ack>> /\ toServer = <<>>
    BY <1>1, <1>2 DEF Stage
  <2>2. Tail(<<Ack>>) = <<>>
    OBVIOUS
  <2> QED BY <1>1, <2>1, <2>2
<1>4. Pending = <<>> /\ Pending' = <<>> /\ Sent' = Sent
  <2>1. <<>> \o <<>> = <<>>
    OBVIOUS
  <2> QED BY <1>1, <1>3, <2>1 DEF Pending, Sent
<1>5. Flow(<<>>, "stream", asked, Sent, mem, storage)
  <2>1. Flow(<<>>, "ack", asked, Sent, mem, storage)
    BY <1>1, <1>2, <1>4, Connected DEF Traffic
  <2> QED BY <2>1, EmptyStream, FlowMoves
<1>6. Traffic'
  BY <1>1, <1>4, <1>5 DEF Traffic
<1>7. ConnectionTypeOK'
  BY <1>1 DEF ConnectionInv, ConnectionTypeOK
<1>8. Stage'
  BY <1>1, <1>2, <1>3 DEF Stage
<1>9. toServer' \in Seq(Units) /\ buf' \in Seq(Units) /\ session' = "open" /\ at' # "down"
  BY <1>1, <1>2, <1>3, EmptyStream, Connected
<1> QED BY <1>1, <1>3, <1>6, <1>7, <1>8, <1>9, EmptyStream, Parts

\* The ORAM writes a slot.
LEMMA WriteSlotKeeps ==
  ASSUME ConnectionInv, WriteSlot
  PROVE  ConnectionInv'
<1>1. /\ at = "serve" /\ ops < MaxOps /\ ops' = ops + 1
      /\ UNCHANGED <<at, bulk, tree, next, silent, buf, asked, runs, toClient, session, storage>>
  BY DEF WriteSlot, server
<1>2. at # "down" /\ Stage /\ silent = FALSE
  BY <1>1, Connected DEF Stage
<1>3. PICK i \in Slots(tree) :
        /\ mem' = [mem EXCEPT ![Address(i)] = <<runs, ops + 1, i>>]
        /\ toServer' = toServer \o SlotUnits(i, <<runs, ops + 1, i>>)
  BY <1>2 DEF WriteSlot, InsertSlot, Send
<1> DEFINE v == <<runs, ops + 1, i>>
<1>4. v \in Ciphers /\ ops + 1 \in 0 .. MaxOps /\ ops + 1 > 0
  <2>1. ops + 1 \in 0 .. MaxOps /\ ops + 1 > 0
    BY <1>1, <1>2, Connected
  <2>2. i \in AllSlots
    BY <1>2, Connected
  <2> QED BY <1>2, <2>1, <2>2, Connected
<1> HIDE DEF v
<1>5. PICK u : u = toServer'
  OBVIOUS
<1>6. Pending = toServer /\ Sent = Slots(tree) /\ Pending' = u /\ Sent' = Slots(tree)
  BY <1>1, <1>5 DEF Pending, Sent, Slots
<1>7. u \in Seq(Units) /\ Flow(u, "serve", asked, Slots(tree), mem', storage)
  <2>1. Flow(toServer, "serve", asked, Slots(tree), mem, storage)
    BY <1>1, <1>2, <1>6, Connected DEF Traffic
  <2>2. tree \in Trees /\ toServer \in Seq(Units) /\ mem \in [Addresses -> Ciphers \cup {NoCipher}]
    BY <1>2, Connected
  <2>3. Slots(tree) \in SUBSET Slots(tree) /\ Slots(tree) \cup {i} = Slots(tree)
    OBVIOUS
  <2>4. /\ toServer \o SlotUnits(i, v) \in Seq(Units)
        /\ Flow(toServer \o SlotUnits(i, v), "serve", asked, Slots(tree) \cup {i},
                [mem EXCEPT ![Address(i)] = v], storage)
    BY <1>4, <2>1, <2>2, <2>3, FlowSlot
  <2> QED BY <1>3, <1>5, <2>3, <2>4 DEF v
<1>8. Traffic'
  BY <1>1, <1>6, <1>7 DEF Traffic
<1>9. ConnectionTypeOK'
  <2>1. mem' \in [Addresses -> Ciphers \cup {NoCipher}]
    BY <1>2, <1>3, <1>4, Connected DEF v
  <2> QED BY <1>1, <1>4, <2>1 DEF ConnectionInv, ConnectionTypeOK
<1>10. Stage'
  BY <1>1, <1>2, <1>4 DEF Stage
<1>11. toServer' \in Seq(Units) /\ buf' \in Seq(Units) /\ session' = "open" /\ at' # "down"
  BY <1>1, <1>2, <1>5, <1>7, Connected
<1>12. Framed(toServer')
  BY <1>5, <1>7, WholeIsFramed DEF Flow
<1> QED BY <1>8, <1>9, <1>10, <1>11, <1>12, Parts

\* A slot is asked for.
LEMMA AskSlotKeeps ==
  ASSUME ConnectionInv, AskSlot
  PROVE  ConnectionInv'
<1>1. /\ at = "serve" /\ ops < MaxOps /\ ops' = ops + 1 /\ at' = "find"
      /\ UNCHANGED <<bulk, tree, next, silent, buf, mem, runs, toClient, session, storage>>
  BY DEF AskSlot, server
<1>2. at # "down" /\ Stage /\ toClient = <<>>
  BY <1>1, Connected DEF Stage
<1>3. PICK i \in Slots(tree) : asked' = i /\ toServer' = toServer \o FindUnits(i)
  BY DEF AskSlot, Send, FindUnits
<1>4. ops + 1 \in 0 .. MaxOps /\ ops + 1 > 0 /\ i \in AllSlots
  <2>1. ops + 1 \in 0 .. MaxOps /\ ops + 1 > 0
    BY <1>1, <1>2, Connected
  <2> QED BY <1>2, <2>1, Connected
<1>5. PICK m \in Messages : m = FindUnits(i) /\ m[1] = Op(FIND_SLOT) /\ m[4] = U32(Address(i))
  <2>1. FindUnits(i) \in Messages
    BY <1>4 DEF Messages
  <2>2. FindUnits(i)[1] = Op(FIND_SLOT) /\ FindUnits(i)[4] = U32(Address(i))
    BY DEF FindUnits
  <2> QED BY <2>1, <2>2
<1>6. PICK u : u = toServer'
  OBVIOUS
<1>7. Pending = toServer /\ Sent = Slots(tree) /\ Pending' = u /\ Sent' = Slots(tree)
  BY <1>1, <1>6 DEF Pending, Sent, Slots
<1>8. u \in Seq(Units) /\ Flow(u, "find", i, Slots(tree), mem, storage)
  <2>1. Flow(toServer, "serve", asked, Slots(tree), mem, storage) /\ toServer \in Seq(Units)
    BY <1>1, <1>2, <1>7, Connected DEF Traffic
  <2>2. toServer \o m \in Seq(Units) /\ Flow(toServer \o m, "find", i, Slots(tree), mem, storage)
    BY <1>5, <2>1, FlowOther
  <2> QED BY <1>3, <1>5, <1>6, <2>2
<1>9. Traffic'
  BY <1>1, <1>3, <1>7, <1>8 DEF Traffic
<1>10. ConnectionTypeOK'
  BY <1>1, <1>3, <1>4 DEF ConnectionInv, ConnectionTypeOK
<1>11. Stage'
  <2>1. i \in Slots(tree)'
    BY <1>1 DEF Slots
  <2> QED BY <1>1, <1>2, <1>3, <1>4, <2>1 DEF Stage
<1>12. toServer' \in Seq(Units) /\ buf' \in Seq(Units) /\ session' = "open" /\ at' # "down"
  BY <1>1, <1>2, <1>6, <1>8, Connected
<1>13. Framed(toServer')
  BY <1>6, <1>8, WholeIsFramed DEF Flow
<1> QED BY <1>9, <1>10, <1>11, <1>12, <1>13, Parts

\* A block has units.
LEMMA BlockIs ==
  ASSUME NEW v
  PROVE  Len(Block(v)) = BlockSize /\ SubSeq(Block(v), BlockSize + 1, BlockSize) = <<>> /\ Block(v) # <<>>
BY ConnectionAssumption DEF Block

\* The block arrives.
LEMMA RecvSlotKeeps ==
  ASSUME ConnectionInv, RecvSlot
  PROVE  ConnectionInv'
<1>1. /\ at = "find" /\ Len(toClient) >= BlockSize /\ at' = "serve"
      /\ toClient' = SubSeq(toClient, BlockSize + 1, Len(toClient))
      /\ UNCHANGED <<bulk, tree, next, silent, buf, asked, mem, ops, runs, toServer, session, storage>>
  BY DEF RecvSlot, server
<1>2. at # "down" /\ Stage
  BY <1>1, Connected
<1>3. toClient = Block(mem[Address(asked)]) /\ OpsAt(toServer, FIND_SLOT) = {}
  <2>1. toClient # <<>>
    BY <1>1, ConnectionAssumption
  <2> QED BY <1>1, <1>2, <2>1 DEF Stage
<1>4. toClient' = <<>>
  BY <1>1, <1>3, BlockIs
<1>5. Pending = toServer /\ Sent = Slots(tree) /\ Pending' = toServer /\ Sent' = Slots(tree)
  BY <1>1 DEF Pending, Sent, Slots
<1>6. Flow(toServer, "find", asked, Slots(tree), mem, storage)
  BY <1>1, <1>2, <1>5, Connected DEF Traffic
<1>7. Flow(toServer, "serve", asked, Slots(tree), mem, storage)
  <2>1. OpsAt(toServer, CHUNK_BARRIER) = {}
    BY <1>6 DEF Flow
  <2> QED BY <1>3, <1>6, <2>1, FlowMoves
<1>8. Traffic'
  BY <1>1, <1>5, <1>7 DEF Traffic
<1>9. ConnectionTypeOK'
  BY <1>1 DEF ConnectionInv, ConnectionTypeOK
<1>10. Stage'
  BY <1>1, <1>2, <1>4, Connected DEF Stage
<1>11. toServer' \in Seq(Units) /\ buf' \in Seq(Units) /\ session' = "open" /\ at' # "down"
  BY <1>1, <1>2, Connected
<1>12. Framed(toServer')
  BY <1>1, <1>7, WholeIsFramed DEF Flow
<1> QED BY <1>8, <1>9, <1>10, <1>11, <1>12, Parts

\* The child is gone.
LEMMA GoneKeeps ==
  ASSUME ConnectionInv, at # "down", Gone, toServer' \in Seq(Units), Framed(toServer')
  PROVE  ConnectionInv'
<1>1. /\ at' = "down" /\ bulk' = FALSE /\ tree' = 0 /\ next' = 0 /\ silent' = FALSE
      /\ buf' = <<>> /\ asked' = 0 /\ ops' = 0 /\ mem' = [a \in Addresses |-> NoCipher]
      /\ toClient' = <<>> /\ UNCHANGED <<runs, session, storage>>
  BY DEF Gone, server
<1>2. session' = "open"
  BY <1>1, Connected
<1>3. ConnectionTypeOK'
  <2>1. 0 \in 0 .. MaxTree * BucketSize /\ 0 \in 0 .. MaxOps /\ 0 \in AllSlots
    BY LargestTree, SlotsOfTree, ConnectionAssumption DEF AllSlots
  <2> QED BY <1>1, <2>1 DEF ConnectionInv, ConnectionTypeOK
<1> QED BY <1>1, <1>2, <1>3, EmptyStream DEF ConnectionInv

\* The child closes its connection.
LEMMA CloseKeeps ==
  ASSUME ConnectionInv, Close
  PROVE  ConnectionInv'
<1>1. at = "serve" /\ toServer' = toServer \o <<Op(CLOSE)>> /\ Gone
  BY DEF Close, Send
<1>2. PICK m \in Messages : m = <<Op(CLOSE)>>
  <2>1. <<Op(CLOSE)>> \in Messages
    BY DEF Messages
  <2> QED BY <2>1
<1>3. toServer \in Seq(Units) /\ Whole(toServer)
  BY <1>1, Connected DEF Traffic, Pending, Flow
<1>4. toServer \o m \in Seq(Units) /\ Whole(toServer \o m)
  BY <1>3, SendMessage
<1>5. toServer' \in Seq(Units) /\ Framed(toServer')
  BY <1>1, <1>2, <1>4, WholeIsFramed
<1> QED BY <1>1, <1>5, GoneKeeps

\* The child ends.
LEMMA ExitKeeps ==
  ASSUME ConnectionInv, Exit
  PROVE  ConnectionInv'
<1>1. at # "down" /\ Gone
  BY DEF Exit
<1>2. PICK n \in 0 .. Len(toServer) : toServer' = SubSeq(toServer, 1, n)
  BY DEF Exit
<1>3. toServer \in Seq(Units) /\ Framed(toServer)
  BY DEF ConnectionInv
<1>4. toServer' \in Seq(Units) /\ Framed(toServer')
  BY <1>2, <1>3, FramedCut
<1> QED BY <1>1, <1>4, GoneKeeps

------------------------------------------------------------------------------
(* The connection: the server's steps. *)

\* The stream begins with a message, which is the first of all that the child has sent.
LEMMA FirstMessage ==
  ASSUME ConnectionInv, toServer # <<>>
  PROVE  \E m \in Messages :
           /\ MessageAt(toServer, 1, m) /\ m[1] = toServer[1]
           /\ at # "down" => /\ MessageAt(Pending, 1, m) /\ m[1] = Pending[1]
                             /\ Pending \in Seq(Units) /\ Len(toServer) <= Len(Pending)
<1>1. toServer \in Seq(Units) /\ buf \in Seq(Units) /\ Framed(toServer)
  BY DEF ConnectionInv
<1>2. CASE at = "down"
  BY <1>1, <1>2, HeadMessage
<1>3. CASE at # "down"
  <2>1. PICK w : w = Pending
    OBVIOUS
  <2>2. /\ w \in Seq(Units) /\ Len(toServer) \in Nat /\ Len(w) \in Nat /\ Len(toServer) <= Len(w)
        /\ DOMAIN toServer = 1 .. Len(toServer) /\ DOMAIN w = 1 .. Len(w)
        /\ \A k \in DOMAIN toServer : k \in DOMAIN w /\ w[k] = toServer[k]
        /\ w # <<>> /\ 1 \in DOMAIN toServer
    BY <1>1, <2>1 DEF Pending
  <2>3. Framed(w)
    BY <1>3, <2>1, Connected, WholeIsFramed DEF Traffic, Flow
  <2>4. PICK m \in Messages : MessageAt(w, 1, m) /\ m[1] = w[1]
    BY <2>2, <2>3, HeadMessage
  <2>5. MessageAt(toServer, 1, m)
    BY <2>2, <2>4 DEF MessageAt
  <2> QED BY <2>1, <2>2, <2>4, <2>5
<1> QED BY <1>2, <1>3

\* What is taken from the stream is taken from all that is sent.
LEMMA TakeOfTwo ==
  ASSUME NEW X, NEW a \in Seq(X), NEW b \in Seq(X), NEW n \in 0 .. Len(a)
  PROVE  /\ SubSeq(a, n + 1, Len(a)) \o b = SubSeq(a \o b, n + 1, Len(a \o b))
         /\ SubSeq(a, n + 1, Len(a)) \in Seq(X)
<1> DEFINE l == SubSeq(a, n + 1, Len(a)) \o b
           r == SubSeq(a \o b, n + 1, Len(a \o b))
<1>1. SubSeq(a, n + 1, Len(a)) \in Seq(X) /\ Len(SubSeq(a, n + 1, Len(a))) = Len(a) - n
  OBVIOUS
<1>2. l \in Seq(X) /\ r \in Seq(X)
  BY <1>1
<1>3. Len(l) = Len(a) - n + Len(b) /\ Len(r) = Len(a) - n + Len(b)
  BY <1>1
<1>4. \A k \in 1 .. Len(a) - n + Len(b) : l[k] = r[k]
  BY <1>1
<1>5. l = r
  <2> HIDE DEF l, r
  <2> QED BY <1>2, <1>3, <1>4
<1> QED BY <1>1, <1>5

\* A message that is no close code is taken while the child is connected, or gone.
LEMMA TakeKeeps ==
  ASSUME ConnectionInv, session = "open", NEW m \in Messages,
         MessageAt(toServer, 1, m), m[1] = toServer[1], Len(m) <= Len(toServer),
         toServer' = SubSeq(toServer, Len(m) + 1, Len(toServer)),
         UNCHANGED <<client, session>>, DOMAIN storage' = Addresses,
         at # "down" =>
           /\ MessageAt(Pending, 1, m) /\ m[1] = Pending[1] /\ Pending \in Seq(Units)
           /\ Len(toServer) <= Len(Pending) /\ Stage'
           /\ Settles(SubSeq(Pending, Len(m) + 1, Len(Pending)), Sent, mem, storage')
  PROVE  ConnectionInv'
<1>1. /\ toServer \in Seq(Units) /\ buf \in Seq(Units) /\ Framed(toServer) /\ ConnectionTypeOK
      /\ UNCHANGED <<at, bulk, tree, next, silent, buf, asked, mem, ops, runs, session>>
  BY DEF ConnectionInv, client
<1>2. PICK n \in 0 .. Len(toServer) : n = Len(m)
  BY <1>1, MessageIs
<1>3. toServer' \in Seq(Units) /\ Framed(toServer')
  <2>1. Framed(SubSeq(toServer, Len(m) + 1, Len(toServer)))
    BY <1>1, TakeMessage
  <2> QED BY <1>1, <1>2, <2>1, TakeOfTwo
<1>4. ConnectionTypeOK'
  BY <1>1 DEF ConnectionTypeOK
<1>5. CASE at = "down"
  BY <1>1, <1>3, <1>4, <1>5 DEF ConnectionInv
<1>6. CASE at # "down"
  <2>1. PICK w : w = Pending
    OBVIOUS
  <2>2. /\ w \in Seq(Units) /\ MessageAt(w, 1, m) /\ m[1] = w[1] /\ Len(m) <= Len(w)
        /\ Flow(w, at, asked, Sent, mem, storage)
        /\ Settles(SubSeq(w, Len(m) + 1, Len(w)), Sent, mem, storage')
    <3>1. Len(m) <= Len(w)
      BY <1>1, <1>2, <1>6, <2>1
    <3> QED BY <1>6, <2>1, <3>1, Connected DEF Traffic
  <2>3. Flow(SubSeq(w, Len(m) + 1, Len(w)), at, asked, Sent, mem, storage')
    BY <2>2, FlowTake
  <2>4. Pending' = SubSeq(w, Len(m) + 1, Len(w))
    <3>1. CASE at = "stream"
      <4>1. w = toServer \o buf
        BY <2>1, <3>1 DEF Pending
      <4>2. SubSeq(toServer, n + 1, Len(toServer)) \o buf = SubSeq(toServer \o buf, n + 1, Len(toServer \o buf))
        BY <1>1, TakeOfTwo
      <4>3. Pending' = toServer' \o buf
        BY <1>1, <3>1 DEF Pending
      <4> QED BY <1>2, <4>1, <4>2, <4>3
    <3>2. CASE at # "stream"
      BY <1>1, <2>1, <3>2 DEF Pending
    <3> QED BY <3>1, <3>2
  <2>5. Sent' = Sent
    BY <1>1 DEF Sent, Slots
  <2>6. Traffic'
    BY <1>1, <2>3, <2>4, <2>5 DEF Traffic
  <2>7. session' = "open" /\ at' # "down" /\ buf' \in Seq(Units) /\ Stage'
    BY <1>1, <1>6
  <2> QED BY <1>3, <1>4, <2>6, <2>7, Parts
<1> QED BY <1>5, <1>6

\* The stage of a child does not change when a message is taken that wants no answer.
LEMMA StageTake ==
  ASSUME Stage, toServer \in Seq(Units), NEW n \in 1 .. Len(toServer),
         toServer' = SubSeq(toServer, n + 1, Len(toServer)),
         UNCHANGED <<client, session, toClient>>
  PROVE  Stage'
<1>1. UNCHANGED <<at, bulk, tree, next, silent, buf, asked, mem, ops, runs, session, toClient>>
  BY DEF client
<1>2. toServer # <<>>
  OBVIOUS
<1>3. OpsAt(toServer, FIND_SLOT) = {} => OpsAt(toServer', FIND_SLOT) = {}
  <2>1. n \in 0 .. Len(toServer)
    OBVIOUS
  <2>2. \A p : p \in OpsAt(SubSeq(toServer, n + 1, Len(toServer)), FIND_SLOT) =>
              n + p \in OpsAt(toServer, FIND_SLOT)
    BY <2>1, OpsAfterTake
  <2>3. PICK r : r = SubSeq(toServer, n + 1, Len(toServer))
    OBVIOUS
  <2>4. OpsAt(toServer, FIND_SLOT) = {} => OpsAt(r, FIND_SLOT) = {}
    BY <2>2, <2>3
  <2>5. toServer' = r
    BY <2>3
  <2> QED BY <2>4, <2>5
<1>4. Slots(tree)' = Slots(tree)
  BY <1>1 DEF Slots
<1> QED BY <1>1, <1>2, <1>3, <1>4 DEF Stage

\* The slots a child has sent are slots of its tree.
LEMMA SentAddresses ==
  ASSUME ConnectionInv, at # "down"
  PROVE  /\ \A i \in Sent : Address(i) \in Addresses
         /\ OpsAt(Pending, CLEAR) \subseteq {1} /\ Whole(Pending)
         /\ at # "clear" => Settles(Pending, Sent, mem, storage)
<1>1. Sent \subseteq AllSlots
  <2>1. PICK x \in Nat : x = tree * BucketSize
    BY Connected
  <2>2. Slots(tree) = 0 .. x - 1 /\ next \in 0 .. x /\ Slots(tree) \subseteq AllSlots
    BY <2>1, Connected
  <2>3. 0 .. next - 1 \subseteq Slots(tree)
    BY <2>2
  <2> QED BY <2>2, <2>3 DEF Sent
<1>2. \A i \in AllSlots : Address(i) \in Addresses
  BY AddressInRange, LargestTree, SlotsOfTree DEF AllSlots, Slots
<1> QED BY <1>1, <1>2, Connected DEF Traffic, Flow

\* CLEAR: the server forgets its slots.
LEMMA HandleClearKeeps ==
  ASSUME ConnectionInv, HandleClear
  PROVE  ConnectionInv'
<1>1. /\ session = "open" /\ Len(toServer) >= 2 /\ toServer[1] = Op(CLEAR)
      /\ toServer' = SubSeq(toServer, 3, Len(toServer))
      /\ storage' = [a \in Addresses |-> <<>>]
      /\ UNCHANGED <<client, session, toClient>>
  BY DEF HandleClear, NextIs, Arrived, Take
<1>2. toServer # <<>> /\ toServer \in Seq(Units)
  BY <1>1 DEF ConnectionInv
<1>3. PICK m \in Messages :
        /\ MessageAt(toServer, 1, m) /\ m[1] = toServer[1]
        /\ at # "down" => /\ MessageAt(Pending, 1, m) /\ m[1] = Pending[1]
                          /\ Pending \in Seq(Units) /\ Len(toServer) <= Len(Pending)
  BY <1>2, FirstMessage
<1>4. Len(m) = 2
  BY <1>1, <1>3, MessageOf
<1>5. 2 \in 1 .. Len(toServer) /\ toServer' = SubSeq(toServer, Len(m) + 1, Len(toServer)) /\ Len(m) <= Len(toServer)
  BY <1>1, <1>2, <1>4
<1>6. ASSUME at # "down"
      PROVE  Stage' /\ Settles(SubSeq(Pending, Len(m) + 1, Len(Pending)), Sent, mem, storage')
  <2>1. Stage'
    <3>1. Stage /\ toServer' = SubSeq(toServer, 2 + 1, Len(toServer))
      BY <1>1, <1>6, Connected
    <3> QED BY <1>1, <1>2, <1>5, <3>1, StageTake
  <2>2. at # "clear"
    BY <1>2, <1>6, Connected DEF Stage
  <2>3. PICK w : w = Pending
    OBVIOUS
  <2>4. /\ w \in Seq(Units) /\ MessageAt(w, 1, m) /\ m[1] = w[1] /\ Len(m) <= Len(w) /\ m[1] = Op(CLEAR)
    <3>1. Len(toServer) \in Nat /\ Len(w) \in Nat
      BY <1>2, <1>3, <1>6, <2>3
    <3> QED BY <1>1, <1>3, <1>4, <1>6, <2>3, <3>1
  <2>5. /\ \A i \in Sent : Address(i) \in Addresses
        /\ OpsAt(w, CLEAR) \subseteq {1} /\ Whole(w) /\ Settles(w, Sent, mem, storage)
    BY <1>6, <2>2, <2>3, SentAddresses
  <2>6. Settles(SubSeq(w, Len(m) + 1, Len(w)), Sent, mem, [b \in Addresses |-> <<>>])
    BY <2>4, <2>5, TakeClearSettles
  <2> QED BY <1>1, <2>1, <2>3, <2>6
<1>7. DOMAIN storage' = Addresses
  BY <1>1
<1> QED BY <1>1, <1>3, <1>5, <1>6, <1>7, TakeKeeps

\* A message that the server takes and does no more with: its slots are as before.
LEMMA SameSlots ==
  ASSUME ConnectionInv, at # "down", toServer # <<>>, NEW m \in Messages,
         MessageAt(Pending, 1, m), m[1] = Pending[1], Pending \in Seq(Units),
         Len(toServer) <= Len(Pending), Len(m) <= Len(toServer),
         m[1] # Op(CLEAR), m[1] # Op(INSERT_SLOT)
  PROVE  Settles(SubSeq(Pending, Len(m) + 1, Len(Pending)), Sent, mem, storage)
<1>1. PICK w : w = Pending
  OBVIOUS
<1>2. at # "clear"
  BY Connected DEF Stage
<1>3. w \in Seq(Units) /\ MessageAt(w, 1, m) /\ m[1] = w[1] /\ Len(m) <= Len(w)
  <2>1. Len(toServer) \in Nat /\ Len(w) \in Nat /\ Len(m) \in Nat
    BY <1>1, MessageIs, Connected
  <2> QED BY <1>1, <2>1
<1>4. OpsAt(w, CLEAR) \subseteq {1} /\ Whole(w) /\ Settles(w, Sent, mem, storage)
  BY <1>1, <1>2, SentAddresses
<1>5. Settles(SubSeq(w, Len(m) + 1, Len(w)), Sent, mem, storage)
  BY <1>3, <1>4, TakeOtherSettles
<1> QED BY <1>1, <1>5

\* SET_TUPLE_LENGTH.
LEMMA HandleSetTupleLengthKeeps ==
  ASSUME ConnectionInv, HandleSetTupleLength
  PROVE  ConnectionInv'
<1>1. /\ session = "open" /\ Len(toServer) >= 3 /\ toServer[1] = Op(SET_TUPLE_LENGTH)
      /\ toServer' = SubSeq(toServer, 4, Len(toServer))
      /\ UNCHANGED <<client, session, storage, toClient>>
  BY DEF HandleSetTupleLength, NextIs, Arrived, Take, server
<1>2. toServer # <<>> /\ toServer \in Seq(Units)
  BY <1>1 DEF ConnectionInv
<1>3. PICK m \in Messages :
        /\ MessageAt(toServer, 1, m) /\ m[1] = toServer[1]
        /\ at # "down" => /\ MessageAt(Pending, 1, m) /\ m[1] = Pending[1]
                          /\ Pending \in Seq(Units) /\ Len(toServer) <= Len(Pending)
  BY <1>2, FirstMessage
<1>4. Len(m) = 3
  BY <1>1, <1>3, MessageOf
<1>5. 3 \in 1 .. Len(toServer) /\ toServer' = SubSeq(toServer, Len(m) + 1, Len(toServer)) /\ Len(m) <= Len(toServer)
  BY <1>1, <1>2, <1>4
<1>6. ASSUME at # "down"
      PROVE  Stage' /\ Settles(SubSeq(Pending, Len(m) + 1, Len(Pending)), Sent, mem, storage')
  <2>1. Stage'
    <3>1. Stage /\ toServer' = SubSeq(toServer, 3 + 1, Len(toServer))
      BY <1>1, <1>6, Connected
    <3> QED BY <1>1, <1>2, <1>5, <3>1, StageTake
  <2>2. m[1] # Op(CLEAR) /\ m[1] # Op(INSERT_SLOT)
    BY <1>1, <1>3 DEF Op, CLEAR, INSERT_SLOT, SET_TUPLE_LENGTH
  <2> QED BY <1>1, <1>2, <1>3, <1>5, <1>6, <2>1, <2>2, SameSlots
<1>7. DOMAIN storage' = Addresses
  BY <1>1 DEF ConnectionInv, ConnectionTypeOK
<1> QED BY <1>1, <1>3, <1>5, <1>6, <1>7, TakeKeeps

\* INSERT_SLOT: the block is stored at its address.
LEMMA HandleInsertSlotKeeps ==
  ASSUME ConnectionInv, HandleInsertSlot
  PROVE  ConnectionInv'
<1>1. /\ session = "open" /\ Len(toServer) >= 4 /\ toServer[1] = Op(INSERT_SLOT)
      /\ UNCHANGED <<client, session, toClient>>
  BY DEF HandleInsertSlot, NextIs, Arrived
<1>2. PICK a \in NumberAt(3), size \in NumberAt(4) :
        /\ Len(toServer) >= 4 + size
        /\ storage' = [storage EXCEPT ![a] = SubSeq(toServer, 5, 4 + size)]
        /\ toServer' = SubSeq(toServer, 4 + size + 1, Len(toServer))
  BY DEF HandleInsertSlot, Arrived, Take
<1>3. toServer # <<>> /\ toServer \in Seq(Units)
  BY <1>1 DEF ConnectionInv
<1>4. PICK m \in Messages :
        /\ MessageAt(toServer, 1, m) /\ m[1] = toServer[1]
        /\ at # "down" => /\ MessageAt(Pending, 1, m) /\ m[1] = Pending[1]
                          /\ Pending \in Seq(Units) /\ Len(toServer) <= Len(Pending)
  BY <1>3, FirstMessage
<1>5. /\ Len(m) = 4 + BlockSize /\ m[4] = U32(BlockSize)
      /\ \E i \in AllSlots : m[3] = U32(Address(i))
      /\ \E v \in Ciphers : \A k \in 1 .. BlockSize : m[4 + k] = Data(v)
  BY <1>1, <1>4, MessageOf
<1>6. PICK i \in AllSlots : m[3] = U32(Address(i))
  BY <1>5
<1>7. PICK v \in Ciphers : \A k \in 1 .. BlockSize : m[4 + k] = Data(v)
  BY <1>5
<1>8. BlockSize \in Nat \ {0} /\ DOMAIN m = 1 .. 4 + BlockSize /\ DOMAIN toServer = 1 .. Len(toServer)
  <2>1. m \in Seq(Units)
    BY MessageIs
  <2> QED BY <1>3, <1>5, <2>1, ConnectionAssumption
<1>9. \A k \in 1 .. 4 + BlockSize : k <= Len(toServer) => toServer[k] = m[k]
  BY <1>3, <1>4, <1>8 DEF MessageAt
<1>10. a = Address(i) /\ size = BlockSize /\ a \in Addresses
  <2>1. toServer[3] = U32(Address(i)) /\ toServer[4] = U32(BlockSize)
    BY <1>1, <1>3, <1>5, <1>6, <1>8, <1>9
  <2>2. NumberAt(3) = {Address(i)} /\ NumberAt(4) = {BlockSize}
    BY <2>1 DEF NumberAt, U32
  <2>3. Address(i) \in Addresses
    BY AddressInRange, LargestTree, SlotsOfTree DEF AllSlots, Slots
  <2> QED BY <1>2, <2>2, <2>3
<1>11. /\ 4 + BlockSize \in 1 .. Len(toServer) /\ Len(m) <= Len(toServer)
       /\ toServer' = SubSeq(toServer, Len(m) + 1, Len(toServer))
  BY <1>2, <1>3, <1>5, <1>8, <1>10
<1>12. SubSeq(toServer, 5, 4 + BlockSize) = Block(v)
  <2>1. \A k \in 1 .. BlockSize : 4 + k \in 1 .. 4 + BlockSize /\ 4 + k <= Len(toServer)
    BY <1>3, <1>8, <1>11
  <2>2. \A k \in 1 .. BlockSize : toServer[4 + k] = Data(v)
    BY <1>7, <1>9, <2>1
  <2>3. SubSeq(toServer, 5, 4 + BlockSize) = [k \in 1 .. BlockSize |-> toServer[4 + k]]
    BY <1>3, <1>8, <1>11
  <2> QED BY <2>2, <2>3 DEF Block
<1>13. storage' = [storage EXCEPT ![a] = Block(v)] /\ DOMAIN storage = Addresses
  BY <1>2, <1>10, <1>12 DEF ConnectionInv, ConnectionTypeOK
<1>14. ASSUME at # "down"
       PROVE  Stage' /\ Settles(SubSeq(Pending, Len(m) + 1, Len(Pending)), Sent, mem, storage')
  <2>1. Stage'
    <3>1. Stage
      BY <1>14, Connected
    <3>2. PICK n \in 1 .. Len(toServer) : n = Len(m)
      BY <1>5, <1>11
    <3>3. toServer' = SubSeq(toServer, n + 1, Len(toServer))
      BY <1>11, <3>2
    <3> QED BY <1>1, <1>3, <3>1, <3>2, <3>3, StageTake
  <2>2. at # "clear"
    BY <1>3, <1>14, Connected DEF Stage
  <2>3. PICK w : w = Pending
    OBVIOUS
  <2>4. /\ w \in Seq(Units) /\ MessageAt(w, 1, m) /\ m[1] = w[1] /\ Len(m) <= Len(w)
        /\ m[1] = Op(INSERT_SLOT) /\ m[3] = U32(a)
    <3>1. Len(toServer) \in Nat /\ Len(w) \in Nat /\ Len(m) \in Nat
      BY <1>3, <1>4, <1>14, <2>3, MessageIs
    <3> QED BY <1>1, <1>4, <1>6, <1>10, <1>11, <1>14, <2>3, <3>1
  <2>5. /\ \A j \in Sent : Address(j) \in Addresses
        /\ OpsAt(w, CLEAR) \subseteq {1} /\ Whole(w) /\ Settles(w, Sent, mem, storage)
    BY <1>14, <2>2, <2>3, SentAddresses
  <2>6. Settles(SubSeq(w, Len(m) + 1, Len(w)), Sent, mem, [storage EXCEPT ![a] = Block(v)])
    BY <1>7, <1>10, <1>13, <2>4, <2>5, TakeSlotSettles
  <2> QED BY <1>13, <2>1, <2>3, <2>6
<1>15. DOMAIN storage' = Addresses
  BY <1>13
<1> QED BY <1>1, <1>4, <1>11, <1>14, <1>15, TakeKeeps

\* The answers are those of the child's last message, which is alone in the stream.
LEMMA LastMessage ==
  ASSUME ConnectionInv, at # "down", toServer # <<>>, NEW m \in Messages,
         MessageAt(Pending, 1, m), m[1] = Pending[1], Pending \in Seq(Units)
  PROVE  /\ m[1] # Op(CLOSE)
         /\ m[1] = Op(FIND_SLOT) =>
              /\ at = "find" /\ Len(toServer) = 5 /\ toServer[4] = U32(Address(asked))
              /\ toClient = <<>> /\ storage[Address(asked)] = Block(mem[Address(asked)])
         /\ m[1] = Op(CHUNK_BARRIER) => at = "ack" /\ Len(toServer) = 1 /\ toClient = <<>>
<1>1. PICK w : w = Pending
  OBVIOUS
<1>2. /\ w \in Seq(Units) /\ m[1] = w[1] /\ Flow(w, at, asked, Sent, mem, storage) /\ Stage
      /\ toServer \in Seq(Units) /\ buf \in Seq(Units)
  BY <1>1, Connected DEF Traffic
<1>3. 1 \in DOMAIN w
  BY <1>1, <1>2 DEF Pending
<1>4. \A c : m[1] = Op(c) => 1 \in OpsAt(w, c)
  BY <1>2, <1>3 DEF OpsAt
<1>5. m[1] # Op(CLOSE)
  BY <1>2, <1>4 DEF Flow
<1>6. ASSUME m[1] = Op(FIND_SLOT)
      PROVE  /\ at = "find" /\ Len(toServer) = 5 /\ toServer[4] = U32(Address(asked))
             /\ toClient = <<>> /\ storage[Address(asked)] = Block(mem[Address(asked)])
  <2>1. 1 \in OpsAt(w, FIND_SLOT)
    BY <1>4, <1>6
  <2>2. at = "find" /\ 1 = Len(w) - 4 /\ w[1 + 3] = U32(Address(asked))
    BY <1>2, <2>1 DEF Flow
  <2>3. w = toServer /\ Len(toServer) = 5 /\ toServer[4] = U32(Address(asked))
    BY <1>1, <1>2, <2>2 DEF Pending
  <2>4. toClient = <<>> /\ asked \in Slots(tree) /\ Sent = Slots(tree)
    BY <1>2, <2>1, <2>2, <2>3 DEF Stage, Sent
  <2>5. Settles(w, Slots(tree), mem, storage) /\ Whole(w)
    BY <1>2, <2>2, <2>4 DEF Flow
  <2>6. Inserts(w, Address(asked)) = {}
    <3>1. SUFFICES ASSUME NEW p \in OpsAt(w, INSERT_SLOT)
                   PROVE  FALSE
      BY DEF Inserts
    <3>2. p \in Nat \ {0} /\ p + 4 <= 5
      BY <1>2, <2>3, <2>5, InsertComplete
    <3>3. p = 1
      BY <3>2
    <3>4. w[1] = Op(INSERT_SLOT)
      BY <3>3 DEF OpsAt
    <3>5. Op(INSERT_SLOT) # Op(FIND_SLOT)
      BY DEF Op, INSERT_SLOT, FIND_SLOT
    <3> QED BY <1>2, <1>6, <3>4, <3>5
  <2>7. storage[Address(asked)] = Block(mem[Address(asked)])
    BY <2>4, <2>5, <2>6 DEF Settles
  <2> QED BY <2>2, <2>3, <2>4, <2>7
<1>7. ASSUME m[1] = Op(CHUNK_BARRIER)
      PROVE  at = "ack" /\ Len(toServer) = 1 /\ toClient = <<>>
  <2>1. 1 \in OpsAt(w, CHUNK_BARRIER)
    BY <1>4, <1>7
  <2>2. at = "ack" /\ 1 = Len(w)
    BY <1>2, <2>1 DEF Flow
  <2>3. w = toServer
    BY <1>1, <2>2 DEF Pending
  <2> QED BY <1>2, <2>2, <2>3 DEF Stage
<1> QED BY <1>5, <1>6, <1>7

\* FIND_SLOT: the block is sent back.
LEMMA HandleFindSlotKeeps ==
  ASSUME ConnectionInv, HandleFindSlot
  PROVE  ConnectionInv'
<1>1. /\ session = "open" /\ Len(toServer) >= 5 /\ toServer[1] = Op(FIND_SLOT)
      /\ toServer' = SubSeq(toServer, 6, Len(toServer))
      /\ UNCHANGED <<client, session, storage>>
  BY DEF HandleFindSlot, NextIs, Arrived, Take, server
<1>2. PICK a \in NumberAt(4), size \in NumberAt(5) :
        toClient' = toClient \o
          (IF Len(storage[a]) = size THEN storage[a] ELSE [k \in 1 .. size |-> Data(Zeros)])
  BY DEF HandleFindSlot
<1>3. toServer # <<>> /\ toServer \in Seq(Units)
  BY <1>1 DEF ConnectionInv
<1>4. PICK m \in Messages :
        /\ MessageAt(toServer, 1, m) /\ m[1] = toServer[1]
        /\ at # "down" => /\ MessageAt(Pending, 1, m) /\ m[1] = Pending[1]
                          /\ Pending \in Seq(Units) /\ Len(toServer) <= Len(Pending)
  BY <1>3, FirstMessage
<1>5. Len(m) = 5 /\ m[5] = U32(BlockSize) /\ DOMAIN m = 1 .. 5
  <2>1. Len(m) = 5 /\ m[5] = U32(BlockSize)
    BY <1>1, <1>4, MessageOf
  <2>2. m \in Seq(Units)
    BY MessageIs
  <2> QED BY <2>1, <2>2
<1>6. toServer' = SubSeq(toServer, Len(m) + 1, Len(toServer)) /\ Len(m) <= Len(toServer)
  BY <1>1, <1>5
<1>7. ASSUME at # "down"
      PROVE  Stage' /\ Settles(SubSeq(Pending, Len(m) + 1, Len(Pending)), Sent, mem, storage')
  <2>1. /\ at = "find" /\ Len(toServer) = 5 /\ toServer[4] = U32(Address(asked))
        /\ toClient = <<>> /\ storage[Address(asked)] = Block(mem[Address(asked)])
    BY <1>1, <1>3, <1>4, <1>7, LastMessage
  <2>2. toServer[5] = U32(BlockSize)
    BY <1>1, <1>3, <1>4, <1>5 DEF MessageAt
  <2>3. a = Address(asked) /\ size = BlockSize
    <3>1. NumberAt(4) = {Address(asked)} /\ NumberAt(5) = {BlockSize}
      BY <2>1, <2>2 DEF NumberAt, U32
    <3> QED BY <1>2, <3>1
  <2>4. toClient' = Block(mem[Address(asked)])
    <3>1. Len(storage[a]) = size /\ storage[a] = Block(mem[Address(asked)])
      BY <2>1, <2>3, BlockIs
    <3>2. toClient' = <<>> \o Block(mem[Address(asked)])
      BY <1>2, <2>1, <3>1
    <3> QED BY <3>2, ConnectionAssumption DEF Block
  <2>5. toServer' = <<>>
    BY <1>1, <1>3, <2>1
  <2>6. Stage'
    <3>1. Stage /\ UNCHANGED <<at, bulk, tree, next, silent, buf, asked, mem, ops, runs, session>>
      BY <1>1, <1>7, Connected DEF client
    <3>2. OpsAt(toServer', FIND_SLOT) = {}
      BY <2>5, EmptyStream
    <3>3. Slots(tree)' = Slots(tree)
      BY <3>1 DEF Slots
    <3> QED BY <2>1, <2>4, <2>5, <3>1, <3>2, <3>3 DEF Stage
  <2>7. m[1] # Op(CLEAR) /\ m[1] # Op(INSERT_SLOT)
    BY <1>1, <1>4 DEF Op, CLEAR, INSERT_SLOT, FIND_SLOT
  <2> QED BY <1>1, <1>3, <1>4, <1>6, <1>7, <2>6, <2>7, SameSlots
<1>8. DOMAIN storage' = Addresses
  BY <1>1 DEF ConnectionInv, ConnectionTypeOK
<1> QED BY <1>1, <1>4, <1>6, <1>7, <1>8, TakeKeeps

\* CHUNK_BARRIER: the barrier is answered.
LEMMA HandleChunkBarrierKeeps ==
  ASSUME ConnectionInv, HandleChunkBarrier
  PROVE  ConnectionInv'
<1>1. /\ session = "open" /\ Len(toServer) >= 1 /\ toServer[1] = Op(CHUNK_BARRIER)
      /\ toServer' = SubSeq(toServer, 2, Len(toServer)) /\ toClient' = Append(toClient, Ack)
      /\ UNCHANGED <<client, session, storage>>
  BY DEF HandleChunkBarrier, NextIs, Arrived, Take, server
<1>2. toServer # <<>> /\ toServer \in Seq(Units)
  BY <1>1 DEF ConnectionInv
<1>3. PICK m \in Messages :
        /\ MessageAt(toServer, 1, m) /\ m[1] = toServer[1]
        /\ at # "down" => /\ MessageAt(Pending, 1, m) /\ m[1] = Pending[1]
                          /\ Pending \in Seq(Units) /\ Len(toServer) <= Len(Pending)
  BY <1>2, FirstMessage
<1>4. Len(m) = 1
  BY <1>1, <1>3, MessageOf
<1>5. toServer' = SubSeq(toServer, Len(m) + 1, Len(toServer)) /\ Len(m) <= Len(toServer)
  BY <1>1, <1>4
<1>6. ASSUME at # "down"
      PROVE  Stage' /\ Settles(SubSeq(Pending, Len(m) + 1, Len(Pending)), Sent, mem, storage')
  <2>1. at = "ack" /\ Len(toServer) = 1 /\ toClient = <<>>
    BY <1>1, <1>2, <1>3, <1>6, LastMessage
  <2>2. toServer' = <<>> /\ toClient' = <<Ack>>
    BY <1>1, <1>2, <2>1
  <2>3. Stage'
    <3>1. Stage /\ UNCHANGED <<at, bulk, tree, next, silent, buf, asked, mem, ops, runs, session>>
      BY <1>1, <1>6, Connected DEF client
    <3> QED BY <2>1, <2>2, <3>1 DEF Stage
  <2>4. m[1] # Op(CLEAR) /\ m[1] # Op(INSERT_SLOT)
    BY <1>1, <1>3 DEF Op, CLEAR, INSERT_SLOT, CHUNK_BARRIER
  <2> QED BY <1>1, <1>2, <1>3, <1>5, <1>6, <2>3, <2>4, SameSlots
<1>7. DOMAIN storage' = Addresses
  BY <1>1 DEF ConnectionInv, ConnectionTypeOK
<1> QED BY <1>1, <1>3, <1>5, <1>6, <1>7, TakeKeeps

\* CLOSE comes from a child that is gone, and the end of a stream too.
LEMMA EndKeeps ==
  ASSUME ConnectionInv, HandleClose \/ SessionEnds \/ ServerEnds
  PROVE  ConnectionInv'
<1>1. at = "down"
  <2>1. CASE HandleClose
    <3>1. toServer[1] = Op(CLOSE) /\ toServer # <<>>
      BY <2>1 DEF HandleClose, NextIs, Arrived
    <3>2. PICK m \in Messages :
            /\ m[1] = toServer[1]
            /\ at # "down" => MessageAt(Pending, 1, m) /\ m[1] = Pending[1] /\ Pending \in Seq(Units)
      BY <3>1, FirstMessage
    <3> QED BY <3>1, <3>2, LastMessage
  <2>2. CASE SessionEnds \/ ServerEnds
    BY <2>2 DEF SessionEnds, ServerEnds
  <2> QED BY <2>1, <2>2
<1>2. /\ session' \in {"accept", "ended"} /\ toServer' = <<>> /\ toClient' = <<>> /\ DOMAIN storage' = Addresses
      /\ UNCHANGED <<at, bulk, tree, next, silent, buf, asked, mem, ops, runs>>
  BY DEF HandleClose, SessionEnds, ServerEnds, client, ConnectionInv, ConnectionTypeOK
<1>3. ConnectionTypeOK'
  BY <1>2 DEF ConnectionInv, ConnectionTypeOK
<1> QED BY <1>1, <1>2, <1>3, EmptyStream DEF ConnectionInv

------------------------------------------------------------------------------
(* The connection: what was put at an address was put for a slot that has it. *)

\* The slots the constructor has filled.
Filled ==
  IF at \in {"stream", "ack", "serve", "find"} THEN Slots(tree)
  ELSE IF at = "build" THEN 0 .. next - 1
  ELSE {}

OwnAddresses ==
  /\ \A a \in Addresses : mem[a] # NoCipher =>
       at # "down" /\ SlotOf(mem[a]) \in Slots(tree) /\ Address(SlotOf(mem[a])) = a
  /\ \A i \in Filled : mem[Address(i)] # NoCipher

\* The slots of a connected child's tree, and their addresses.
LEMMA SlotsAre ==
  ASSUME ConnectionInv, at # "down"
  PROVE  /\ \E x \in Nat : /\ x = tree * BucketSize /\ Slots(tree) = 0 .. x - 1
                           /\ next \in 0 .. x
         /\ \A i \in Slots(tree) : i \in Nat /\ Address(i) \in Addresses
         /\ Filled \subseteq Slots(tree)
<1>1. PICK x \in Nat : x = tree * BucketSize
  BY Connected
<1>2. Slots(tree) = 0 .. x - 1 /\ next \in 0 .. x
  BY <1>1, Connected
<1>3. \A i \in Slots(tree) : i \in Nat /\ Address(i) \in Addresses
  BY <1>2, AddressInRange
<1>4. Filled \subseteq Slots(tree)
  <2>1. 0 .. next - 1 \subseteq Slots(tree)
    BY <1>2
  <2> QED BY <2>1 DEF Filled
<1> QED BY <1>1, <1>2, <1>3, <1>4

\* Something is put at the address of a slot.
LEMMA PutKeeps ==
  ASSUME ConnectionInv, OwnAddresses, at # "down", at' # "down", tree' = tree,
         NEW i \in Slots(tree), NEW n, mem' = [mem EXCEPT ![Address(i)] = <<runs, n, i>>],
         Filled' \subseteq Filled \cup {i}
  PROVE  OwnAddresses'
<1>1. Address(i) \in Addresses /\ mem \in [Addresses -> Ciphers \cup {NoCipher}] /\ runs # 0
  BY SlotsAre, Connected
<1>2. PICK v : v = <<runs, n, i>>
  OBVIOUS
<1>3. SlotOf(v) = i /\ v # NoCipher
  BY <1>1, <1>2 DEF SlotOf, NoCipher
<1>4. Slots(tree)' = Slots(tree)
  BY DEF Slots
<1>5. /\ DOMAIN mem = Addresses /\ mem'[Address(i)] = v
      /\ \A a \in Addresses : a # Address(i) => mem'[a] = mem[a]
  BY <1>1, <1>2
<1>6. ASSUME NEW a \in Addresses, mem'[a] # NoCipher
      PROVE  SlotOf(mem'[a]) \in Slots(tree) /\ Address(SlotOf(mem'[a])) = a
  BY <1>3, <1>5, <1>6 DEF OwnAddresses
<1>7. ASSUME NEW j \in Filled' PROVE mem'[Address(j)] # NoCipher
  <2>1. CASE Address(j) = Address(i)
    BY <1>3, <1>5, <2>1
  <2>2. CASE Address(j) # Address(i)
    <3>1. j \in Filled
      BY <2>2
    <3>2. Address(j) \in Addresses /\ mem[Address(j)] # NoCipher
      BY <3>1, SlotsAre DEF OwnAddresses
    <3> QED BY <1>5, <2>2, <3>2
  <2> QED BY <2>1, <2>2
<1> QED BY <1>4, <1>6, <1>7 DEF OwnAddresses

\* Every step.
LEMMA OwnNext ==
  ASSUME ConnectionInv, OwnAddresses, [ConnectionNext]_connection
  PROVE  OwnAddresses'
<1>1. CASE BuildSlot
  <2>1. /\ at = "build" /\ at' = at /\ tree' = tree /\ next \in Slots(tree) /\ next' = next + 1
        /\ mem' = [mem EXCEPT ![Address(next)] = <<runs, 0, next>>]
    BY <1>1 DEF BuildSlot, InsertSlot
  <2>2. next \in Nat
    BY <2>1, SlotsAre
  <2>3. Filled = 0 .. next - 1 /\ Filled' = 0 .. (next + 1) - 1
    BY <2>1 DEF Filled
  <2>4. Filled' \subseteq Filled \cup {next}
    BY <2>2, <2>3
  <2> QED BY <2>1, <2>4, PutKeeps
<1>2. CASE StreamSlot
  <2>1. /\ at = "stream" /\ at' \in {"stream", "ack"} /\ tree' = tree /\ next \in Slots(tree)
        /\ mem' = [mem EXCEPT ![Address(next)] = <<runs, 0, next>>]
    BY <1>2 DEF StreamSlot, Flush
  <2>2. Filled' = Filled
    BY <2>1 DEF Filled, Slots
  <2> QED BY <2>1, <2>2, PutKeeps
<1>3. CASE WriteSlot
  <2>1. at = "serve" /\ at' = at /\ tree' = tree
    BY <1>3 DEF WriteSlot
  <2>2. PICK i \in Slots(tree) : mem' = [mem EXCEPT ![Address(i)] = <<runs, ops + 1, i>>]
    BY <1>3 DEF WriteSlot, InsertSlot
  <2>3. Filled' = Filled
    BY <2>1 DEF Filled, Slots
  <2> QED BY <2>1, <2>2, <2>3, PutKeeps
<1>4. CASE Connect
  <2>1. at = "down" /\ at' = "clear" /\ mem' = mem
    BY <1>4 DEF Connect
  <2>2. \A a \in Addresses : mem[a] = NoCipher
    BY <2>1 DEF OwnAddresses
  <2> QED BY <2>1, <2>2 DEF OwnAddresses, Filled
<1>5. CASE Built
  <2>1. /\ at = "build" /\ at' \in {"stream", "serve"} /\ tree' = tree /\ mem' = mem
        /\ next \notin Slots(tree)
    BY <1>5 DEF Built
  <2>2. Filled' = Filled
    <3>1. PICK x \in Nat : Slots(tree) = 0 .. x - 1 /\ next \in 0 .. x
      BY <2>1, SlotsAre
    <3>2. 0 .. next - 1 = Slots(tree)
      BY <2>1, <3>1
    <3> QED BY <2>1, <3>2 DEF Filled, Slots
  <2> QED BY <2>1, <2>2 DEF OwnAddresses, Slots
<1>6. CASE Close \/ Exit
  <2>1. at' = "down" /\ mem' = [a \in Addresses |-> NoCipher]
    BY <1>6 DEF Close, Exit, Gone
  <2> QED BY <2>1 DEF OwnAddresses, Filled
<1>7. CASE SetTupleLength
  <2>1. at = "length" /\ at' = "build" /\ UNCHANGED <<tree, next, mem>>
    BY <1>7 DEF SetTupleLength
  <2>2. next = 0
    BY <2>1, Connected DEF Stage
  <2>3. Filled' = {}
    BY <2>1, <2>2 DEF Filled
  <2> QED BY <2>1, <2>3 DEF OwnAddresses, Slots
<1>8. CASE ClearStorage \/ StreamEnd \/ RecvAck \/ RecvSlot \/ AskSlot
  <2>1. at # "down" /\ at' # "down" /\ UNCHANGED <<tree, mem>>
    BY <1>8 DEF ClearStorage, StreamEnd, Flush, RecvAck, RecvSlot, AskSlot
  <2>2. Filled' \subseteq Filled
    BY <1>8, <2>1 DEF ClearStorage, StreamEnd, Flush, RecvAck, RecvSlot, AskSlot, Filled, Slots
  <2> QED BY <2>1, <2>2 DEF OwnAddresses, Slots
<1>9. CASE Server \/ UNCHANGED connection
  <2>1. UNCHANGED <<at, tree, next, mem>>
    BY <1>9 DEF Server, Handle, HandleClear, HandleInsertSlot, HandleFindSlot, HandleSetTupleLength,
       HandleChunkBarrier, HandleClose, SessionEnds, ServerEnds, connection, client
  <2> QED BY <2>1 DEF OwnAddresses, Filled, Slots
<1> QED BY <1>1, <1>2, <1>3, <1>4, <1>5, <1>6, <1>7, <1>8, <1>9 DEF ConnectionNext, Client

\* Of a tree that fits, every slot has what was put in it.
LEMMA SlotsKept ==
  ASSUME ConnectionInv, OwnAddresses, at \in {"serve", "find"}, NEW i \in Slots(tree)
  PROVE  Kept(i)
<1> SUFFICES ASSUME Fits(tree)
             PROVE  SlotOf(mem[Address(i)]) = i
  BY DEF Kept
<1>1. i \in Filled /\ Address(i) \in Addresses /\ tree \in Trees
  BY SlotsAre, Connected DEF Filled
<1>2. PICK j \in Slots(tree) : j = SlotOf(mem[Address(i)]) /\ Address(j) = Address(i)
  BY <1>1 DEF OwnAddresses
<1>3. j = i
  BY <1>1, <1>2, AddressesDiffer
<1> QED BY <1>2, <1>3

------------------------------------------------------------------------------
(* The connection: the theorems. *)

\* Every step of the child, of the server and of the network keeps the invariant.
LEMMA NextKeeps ==
  ASSUME ConnectionInv, [ConnectionNext]_connection
  PROVE  ConnectionInv'
<1>1. CASE Connect
  BY <1>1, ConnectKeeps
<1>2. CASE Client
  BY <1>2, ClearStorageKeeps, SetTupleLengthKeeps, BuildSlotKeeps, BuiltKeeps, StreamSlotKeeps,
     StreamEndKeeps, RecvAckKeeps, RecvSlotKeeps DEF Client
<1>3. CASE WriteSlot \/ AskSlot \/ Close \/ Exit
  BY <1>3, WriteSlotKeeps, AskSlotKeeps, CloseKeeps, ExitKeeps
<1>4. CASE Server
  BY <1>4, HandleClearKeeps, HandleInsertSlotKeeps, HandleFindSlotKeeps, HandleSetTupleLengthKeeps,
     HandleChunkBarrierKeeps, EndKeeps DEF Server, Handle
<1>5. CASE UNCHANGED connection
  BY <1>5 DEF connection, client, server, ConnectionInv, ConnectionTypeOK, Stage, Traffic, Pending, Sent, Slots
<1> QED BY <1>1, <1>2, <1>3, <1>4, <1>5 DEF ConnectionNext

\* For every tree, block and chunk size, also of trees whose slots share addresses, and
\* however runs of the child and the server's steps interleave: the stream is made of the
\* child's messages, at most the last of them waits for an answer, what the server holds
\* with what is on its way is what the child last put at each address of its tree, and that
\* was put there for a slot with that address.
THEOREM ConnectionInvariant == ConnectionSpec => [](ConnectionInv /\ OwnAddresses)
<1>1. ConnectionInit => ConnectionInv /\ OwnAddresses
  BY ConnectionInitInv DEF ConnectionInit, OwnAddresses, Filled
<1>2. ConnectionInv /\ OwnAddresses /\ [ConnectionNext]_connection => (ConnectionInv /\ OwnAddresses)'
  BY NextKeeps, OwnNext
<1> QED BY <1>1, <1>2, PTL DEF ConnectionSpec

\* The fields of the child and of the server have their types.
THEOREM ConnectionTypeCorrect == ConnectionSpec => []ConnectionTypeOK
<1>1. ConnectionInv => ConnectionTypeOK
  BY DEF ConnectionInv
<1> QED BY <1>1, ConnectionInvariant, PTL

\* NetIOConnector and the server never lose step: what the server takes for an opcode was
\* written as one, whether slots come one by one or in the chunks of the bulk upload, and
\* wherever a child that ends cuts its stream.
THEOREM ConnectionInStep == ConnectionSpec => []InStep
<1>1. ConnectionInv => InStep
  BY DEF ConnectionInv, Framed, InStep
<1> QED BY <1>1, ConnectionInvariant, PTL

\* find_slot returns what insert_slot last sent for the slot's address in this run of the
\* child, and for the slot itself if the tree fits the addresses, although nothing answers
\* insert_slot.
THEOREM ConnectionAnswers == ConnectionSpec => []AnswersAreLatest
<1>1. ConnectionInv /\ OwnAddresses => AnswersAreLatest
  <2> SUFFICES ASSUME ConnectionInv, OwnAddresses, at = "find", Len(toClient) >= BlockSize
               PROVE  toClient = Block(mem[Address(asked)]) /\ Kept(asked)
    BY DEF AnswersAreLatest
  <2>1. toClient # <<>>
    BY ConnectionAssumption
  <2>2. Stage
    BY Connected
  <2> QED BY <2>1, <2>2, SlotsKept DEF Stage
<1> QED BY <1>1, ConnectionInvariant, PTL

\* When the bulk upload is done the server holds every slot of the child's tree, or the
\* last one of each address in a tree whose addresses wrap: the barriers leave nothing on
\* its way.
THEOREM ConnectionReady == ConnectionSpec => []ReadyMeansStored
<1>1. ConnectionInv /\ OwnAddresses => ReadyMeansStored
  <2> SUFFICES ASSUME ConnectionInv, OwnAddresses, at = "serve", bulk, ops = 0, NEW i \in Slots(tree)
               PROVE  storage[Address(i)] = Block(mem[Address(i)]) /\ Kept(i)
    BY DEF ReadyMeansStored
  <2>1. toServer = <<>>
    BY Connected DEF Stage
  <2>2. Settles(<<>>, Slots(tree), mem, storage)
    BY <2>1, Connected DEF Traffic, Flow, Pending, Sent
  <2>3. Inserts(<<>>, Address(i)) = {}
    BY EmptyStream DEF Inserts
  <2>4. storage[Address(i)] = Block(mem[Address(i)])
    BY <2>2, <2>3 DEF Settles
  <2> QED BY <2>4, SlotsKept
<1> QED BY <1>1, ConnectionInvariant, PTL

\* Once the server has taken all that a started child sent it holds the child's tree (in a
\* tree whose addresses wrap, what was last put at each address) and no slot of a larger
\* tree of an earlier run.
THEOREM ConnectionTreeOnly == ConnectionSpec => []TreeOnly
<1>1. ConnectionInv /\ OwnAddresses => TreeOnly
  <2> SUFFICES ASSUME ConnectionInv, OwnAddresses, at = "serve", toServer = <<>>
               PROVE  /\ \A a \in Addresses :
                           storage[a] = IF \E i \in Slots(tree) : Address(i) = a
                                        THEN Block(mem[a]) ELSE <<>>
                      /\ \A i \in Slots(tree) : Kept(i)
    BY DEF TreeOnly
  <2>1. Settles(<<>>, Slots(tree), mem, storage)
    BY Connected DEF Traffic, Flow, Pending, Sent
  <2>2. \A b : Inserts(<<>>, b) = {}
    BY EmptyStream DEF Inserts
  <2>3. OpsAt(<<>>, CLEAR) = {}
    BY EmptyStream
  <2>4. ASSUME NEW a \in Addresses
        PROVE  storage[a] = IF \E i \in Slots(tree) : Address(i) = a THEN Block(mem[a]) ELSE <<>>
    <3>1. CASE \E i \in Slots(tree) : Address(i) = a
      <4>1. PICK i \in Slots(tree) : Address(i) = a
        BY <3>1
      <4>2. storage[a] = Block(mem[a])
        BY <2>1, <2>2, <4>1 DEF Settles
      <4> QED BY <3>1, <4>2
    <3>2. CASE ~ \E i \in Slots(tree) : Address(i) = a
      BY <2>1, <2>3, <3>2 DEF Settles
    <3> QED BY <3>1, <3>2
  <2> QED BY <2>4, SlotsKept
<1> QED BY <1>1, ConnectionInvariant, PTL
==============================================================================
