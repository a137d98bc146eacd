---------------------------- MODULE TpccEpochProofs ----------------------------
(***************************************************************************)
(* What is proved of the TPC-C driver's epochs (module TpccEpoch), for     *)
(* every way to partition the tables, rows with keys of their own or with  *)
(* shared ones, every set of clients and any number of configurations.     *)
(***************************************************************************)
EXTENDS TpccEpoch, ExecutorProofs

------------------------------------------------------------------------------
(* Placement: where the rows of a table are in the partitioning p. *)

Places(p, t) == {b \in Servers \X (0 .. Shift - 1) :
                   b[1] < Len(p[t]) /\ b[2] < Len(p[t][b[1] + 1])}
RowIn(p, t, b) == p[t][b[1] + 1][b[2] + 1]
PkIn(p, t, b) == PkVal[t][RowIn(p, t, b)]
LastOnes(p, t) ==
  {b \in Places(p, t) : \A c \in Places(p, t) : WalkedBefore(b, c) => PkIn(p, t, c) # PkIn(p, t, b)}

\* The map from keys to places, and the places in it.
MapOf(p, t) ==
  [pk \in {PkIn(p, t, b) : b \in Places(p, t)} |-> CHOOSE b \in LastOnes(p, t) : PkIn(p, t, b) = pk]
Mapped(p, t) == Range(MapOf(p, t))

\* The places of the model are those of the partitioning it has.
LEMMA BlocksArePlaces ==
  \A t : Blocks(t) = Places(partitions, t) /\ PkToOram(t) = MapOf(partitions, t)
<1> SUFFICES ASSUME NEW t
             PROVE  Blocks(t) = Places(partitions, t) /\ PkToOram(t) = MapOf(partitions, t)
  OBVIOUS
<1>1. Blocks(t) = Places(partitions, t)
  BY DEF Blocks, Places
<1>2. \A b : PkAt(t, b) = PkIn(partitions, t, b)
  BY DEF PkAt, PkIn, RowAt, RowIn
<1>3. Entries(t) = LastOnes(partitions, t)
  BY <1>1, <1>2 DEF Entries, LastOnes
<1>4. {PkAt(t, b) : b \in Blocks(t)} = {PkIn(partitions, t, b) : b \in Places(partitions, t)}
  BY <1>1, <1>2
<1>5. \A pk : (CHOOSE b \in Entries(t) : PkAt(t, b) = pk)
                = (CHOOSE b \in LastOnes(partitions, t) : PkIn(partitions, t, b) = pk)
  BY <1>2, <1>3
<1> DEFINE KeysAt == {PkAt(t, b) : b \in Blocks(t)}
           KeysIn == {PkIn(partitions, t, b) : b \in Places(partitions, t)}
           Last(pk) == CHOOSE b \in Entries(t) : PkAt(t, b) = pk
           LastPlace(pk) == CHOOSE b \in LastOnes(partitions, t) : PkIn(partitions, t, b) = pk
<1>6. KeysAt = KeysIn
  BY <1>4
<1>7. \A pk : Last(pk) = LastPlace(pk)
  BY <1>5
<1>8. PkToOram(t) = [pk \in KeysAt |-> Last(pk)]
  BY DEF PkToOram
<1>9. MapOf(partitions, t) = [pk \in KeysIn |-> LastPlace(pk)]
  BY DEF MapOf
<1> HIDE DEF KeysAt, KeysIn, Last, LastPlace
<1> QED BY <1>1, <1>6, <1>7, <1>8, <1>9

\* A place is a server and a block; the server has that many.
LEMMA PlaceIndices ==
  ASSUME NEW p \in Partitionings, NEW t \in Tables, NEW b \in Places(p, t)
  PROVE  /\ b = <<b[1], b[2]>> /\ b[1] \in Servers /\ b[1] \in Nat /\ b[2] \in 0 .. Shift - 1
         /\ b[1] < Len(p[t]) /\ Len(p[t]) \in Nat
<1>1. b = <<b[1], b[2]>> /\ b[1] \in Servers /\ b[2] \in 0 .. Shift - 1 /\ b[1] < Len(p[t])
  BY DEF Places
<1>2. b[1] \in Nat
  BY <1>1, TpccAssumption
<1>3. p[t] \in Seq(Seq(Rows[t]))
  BY PartitioningsAssumption
<1> QED BY <1>1, <1>2, <1>3

\* A set of natural numbers below a bound has a greatest.
LEMMA GreatestBelow ==
  ASSUME NEW n \in Nat, NEW S \in SUBSET (0 .. n), S # {}
  PROVE  \E m \in S : \A x \in S : x <= m
<1> DEFINE D == {n - x : x \in S}
<1>1. \A x \in S : x \in Nat /\ n - x \in Nat
  OBVIOUS
<1>2. D \in SUBSET Nat /\ D # {}
  BY <1>1
<1> HIDE DEF D
<1>3. PICK d \in D : \A y \in D : d <= y
  BY <1>2, LeastNatural
<1>4. PICK m \in S : d = n - m
  BY DEF D
<1>5. \A x \in S : n - x \in D
  BY DEF D
<1>6. \A x \in S : x <= m
  BY <1>1, <1>3, <1>4, <1>5
<1> QED BY <1>6

\* Of the places with a key, one is the last of the walk.
LEMMA KeyHasLast ==
  ASSUME NEW p \in Partitionings, NEW t \in Tables, NEW b \in Places(p, t)
  PROVE  \E c \in LastOnes(p, t) : PkIn(p, t, c) = PkIn(p, t, b)
<1> DEFINE Same == {c \in Places(p, t) : PkIn(p, t, c) = PkIn(p, t, b)}
           On == {c[1] : c \in Same}
<1>1. /\ \A c \in Same : c \in Places(p, t) /\ PkIn(p, t, c) = PkIn(p, t, b)
      /\ \A c \in Places(p, t) : PkIn(p, t, c) = PkIn(p, t, b) => c \in Same
      /\ b \in Same
  OBVIOUS
<1> HIDE DEF Same
<1>2. \A c \in Same : /\ c[1] \in 0 .. Len(p[t]) /\ c[2] \in 0 .. Shift - 1 /\ Len(p[t]) \in Nat
                      /\ c[1] \in Nat
  <2>1. ASSUME NEW c \in Same
        PROVE  c[1] \in Nat /\ c[1] < Len(p[t]) /\ c[2] \in 0 .. Shift - 1 /\ Len(p[t]) \in Nat
    BY <1>1, PlaceIndices
  <2> QED BY <2>1
<1>3. Len(p[t]) \in Nat /\ On \in SUBSET (0 .. Len(p[t])) /\ On # {}
  BY <1>1, <1>2
<1>4. PICK s \in On : \A u \in On : u <= s
  BY <1>3, GreatestBelow
<1> DEFINE At == {c[2] : c \in {c \in Same : c[1] = s}}
<1>5. Shift \in Nat /\ Shift # 0
  BY <1>1, <1>2, TpccAssumption
<1>6. At \in SUBSET (0 .. Shift - 1) /\ At # {}
  <2>1. PICK c \in Same : c[1] = s
    BY <1>4
  <2>2. c[2] \in At
    BY <2>1
  <2>3. \A k \in At : k \in 0 .. Shift - 1
    BY <1>2
  <2> QED BY <2>2, <2>3
<1>7. PICK k \in At : \A l \in At : l <= k
  <2>1. Shift - 1 \in Nat
    BY <1>5
  <2> HIDE DEF At
  <2> QED BY <2>1, <1>6, GreatestBelow
<1>8. PICK c \in Same : c[1] = s /\ c[2] = k
  BY <1>7
<1>9. ASSUME NEW d \in Same PROVE ~ WalkedBefore(c, d)
  <2>1. d[1] <= c[1]
    BY <1>4, <1>8
  <2>2. d[1] = c[1] => d[2] <= c[2]
    BY <1>7, <1>8
  <2> QED BY <2>1, <2>2, <1>2 DEF WalkedBefore
<1>10. c \in LastOnes(p, t)
  BY <1>1, <1>8, <1>9 DEF LastOnes
<1> QED BY <1>1, <1>8, <1>10

\* A key of the map leads to a place of a row with that key, the last such place.
LEMMA MapIs ==
  ASSUME NEW p \in Partitionings, NEW t \in Tables
  PROVE  /\ \A pk \in DOMAIN MapOf(p, t) :
              MapOf(p, t)[pk] \in Mapped(p, t) /\ PkIn(p, t, MapOf(p, t)[pk]) = pk
         /\ Mapped(p, t) \subseteq LastOnes(p, t)
         /\ Mapped(p, t) \subseteq Places(p, t)
<1> DEFINE M == MapOf(p, t)
<1>1. ASSUME NEW pk \in DOMAIN M PROVE M[pk] \in LastOnes(p, t) /\ PkIn(p, t, M[pk]) = pk
  <2>1. PICK b \in Places(p, t) : pk = PkIn(p, t, b)
    BY DEF MapOf
  <2>2. \E c \in LastOnes(p, t) : PkIn(p, t, c) = pk
    BY <2>1, KeyHasLast
  <2>3. M[pk] = CHOOSE c \in LastOnes(p, t) : PkIn(p, t, c) = pk
    BY <2>1 DEF MapOf
  <2> QED BY <2>2, <2>3
<1> HIDE DEF M
<1>2. \A pk \in DOMAIN M : M[pk] \in Range(M)
  BY DEF Range
<1>3. Range(M) \subseteq LastOnes(p, t)
  BY <1>1 DEF Range
<1>4. LastOnes(p, t) \subseteq Places(p, t)
  BY DEF LastOnes
<1> QED BY <1>1, <1>2, <1>3, <1>4 DEF M, Mapped

\* A packed key gives its table and its block back, and is a primary key.
LEMMA Unpacked ==
  ASSUME NEW t \in Tables, NEW k \in 0 .. Shift - 1
  PROVE  /\ UnpackTable(PackKey(t, k)) = t /\ UnpackKey(PackKey(t, k)) = k
         /\ PackKey(t, k) \in Nat /\ PackKey(t, k) \in PrimaryKeys
<1>1. Shift \in Nat /\ t \in 0 .. 7 /\ Shift # 0 /\ 0 .. 8 * Shift - 1 \subseteq PrimaryKeys
  BY TpccAssumption DEF Tables
<1>2. t * Shift \in Nat /\ t * Shift + Shift <= 8 * Shift
  <2>1. t = 0 \/ t = 1 \/ t = 2 \/ t = 3 \/ t = 4 \/ t = 5 \/ t = 6 \/ t = 7
    BY <1>1
  <2> QED BY <1>1, <2>1
<1>3. PICK m \in Nat : m = t * Shift
  BY <1>2
<1>4. PackKey(t, k) = m + k
  BY <1>3 DEF PackKey
<1>5. m + k \in 0 .. 8 * Shift - 1
  BY <1>1, <1>2, <1>3
<1>6. (t * Shift + k) \div Shift = t /\ (t * Shift + k) % Shift = k
  BY <1>1
<1> QED BY <1>1, <1>3, <1>4, <1>5, <1>6 DEF PackKey, UnpackTable, UnpackKey
------------------------------------------------------------------------------
(* Operations: what a client can build in the partitioning p. *)

OpOn(type, t, b, val) ==
  [type |-> type, key |-> <<b[1], PackKey(t, b[2])>>, val |-> val, block |-> <<t, b[1], b[2]>>]
BuiltReads(p) == UNION {{OpOn("READ", t, b, None) : b \in Mapped(p, t)} : t \in Tables}
BuiltUpdates(p) ==
  UNION {{OpOn("UPDATE", t, x[1], x[2]) : x \in Mapped(p, t) \X Clients} : t \in Tables}
BuiltOps(p) == BuiltReads(p) \cup BuiltUpdates(p)

\* An operation is on a place that the map of a table has; a read has no content, an update
\* one of a client.
LEMMA BuiltOp ==
  ASSUME NEW p, NEW op \in BuiltOps(p)
  PROVE  \E t \in Tables : \E b \in Mapped(p, t) :
           \/ op = OpOn("READ", t, b, None)
           \/ \E c \in Clients : op = OpOn("UPDATE", t, b, c)
<1>1. CASE op \in BuiltReads(p)
  BY <1>1 DEF BuiltReads
<1>2. CASE op \in BuiltUpdates(p)
  <2>1. PICK t \in Tables : op \in {OpOn("UPDATE", t, x[1], x[2]) : x \in Mapped(p, t) \X Clients}
    BY <1>2 DEF BuiltUpdates
  <2>2. PICK x \in Mapped(p, t) \X Clients : op = OpOn("UPDATE", t, x[1], x[2])
    BY <2>1
  <2>3. x[1] \in Mapped(p, t) /\ x[2] \in Clients
    OBVIOUS
  <2> QED BY <2>2, <2>3
<1> QED BY <1>1, <1>2 DEF BuiltOps

\* What an operation has: a key and a content that the proxy accepts, and the address of the
\* block it was queued for.
LEMMA BuiltOpIs ==
  ASSUME NEW p \in Partitionings, NEW op \in BuiltOps(p)
  PROVE  \E t \in Tables : \E b \in Mapped(p, t) :
           /\ b \in Places(p, t) /\ b = <<b[1], b[2]>>
           /\ op.key = <<b[1], PackKey(t, b[2])>> /\ op.key \in Keys
           /\ op.block = <<t, b[1], b[2]>> /\ Address(op) = op.block
           /\ \/ op.type = "READ" /\ op.val = None
              \/ op.type = "UPDATE" /\ op.val \in Clients
<1>1. PICK t \in Tables : \E b \in Mapped(p, t) :
        \/ op = OpOn("READ", t, b, None)
        \/ \E c \in Clients : op = OpOn("UPDATE", t, b, c)
  BY BuiltOp
<1>2. PICK b \in Mapped(p, t) :
        \/ op = OpOn("READ", t, b, None)
        \/ \E c \in Clients : op = OpOn("UPDATE", t, b, c)
  BY <1>1
<1>3. /\ op.key = <<b[1], PackKey(t, b[2])>> /\ op.block = <<t, b[1], b[2]>>
      /\ \/ op.type = "READ" /\ op.val = None
         \/ op.type = "UPDATE" /\ op.val \in Clients
  BY <1>2 DEF OpOn
<1>4. b \in Places(p, t)
  BY MapIs
<1>5. b = <<b[1], b[2]>> /\ b[1] \in Servers /\ b[2] \in 0 .. Shift - 1
  BY <1>4, PlaceIndices
<1>6. /\ UnpackTable(PackKey(t, b[2])) = t /\ UnpackKey(PackKey(t, b[2])) = b[2]
      /\ PackKey(t, b[2]) \in PrimaryKeys
  BY <1>5, Unpacked
<1>7. op.key \in Keys
  BY <1>3, <1>5, <1>6 DEF Keys
<1>8. Address(op) = <<t, b[1], b[2]>>
  BY <1>3, <1>6 DEF Address
<1> QED BY <1>3, <1>4, <1>5, <1>7, <1>8

\* Two operations have one key exactly when they have one block.
LEMMA KeyIsBlock ==
  ASSUME NEW p \in Partitionings, NEW o \in BuiltOps(p), NEW q \in BuiltOps(p)
  PROVE  o.key = q.key <=> o.block = q.block
<1> DEFINE Is(x, t, b) == /\ x.key = <<b[1], PackKey(t, b[2])>>
                          /\ x.block = <<t, b[1], b[2]>> /\ Address(x) = x.block
<1>1. ASSUME NEW x \in BuiltOps(p) PROVE \E t \in Tables : \E b \in Mapped(p, t) : Is(x, t, b)
  BY BuiltOpIs
<1>2. PICK t \in Tables : \E b \in Mapped(p, t) : Is(o, t, b)
  BY <1>1
<1>3. PICK b \in Mapped(p, t) : Is(o, t, b)
  BY <1>2
<1>4. PICK u \in Tables : \E c \in Mapped(p, u) : Is(q, u, c)
  BY <1>1
<1>5. PICK c \in Mapped(p, u) : Is(q, u, c)
  BY <1>4
<1>6. o.key = q.key => o.block = q.block
  BY <1>3, <1>5 DEF Address
<1>7. o.block = q.block => t = u /\ b[1] = c[1] /\ b[2] = c[2]
  BY <1>3, <1>5
<1>8. t = u /\ b[1] = c[1] /\ b[2] = c[2] => o.key = q.key
  BY <1>3, <1>5
<1> QED BY <1>6, <1>7, <1>8

\* The operations of the model's builders are such operations.
LEMMA OpIsBuilt ==
  ASSUME NEW t \in Tables, NEW b \in Mapped(partitions, t)
  PROVE  /\ Op("READ", t, b, None) \in BuiltOps(partitions)
         /\ \A c \in Clients : Op("UPDATE", t, b, c) \in BuiltOps(partitions)
<1>1. \A type, val : Op(type, t, b, val) = OpOn(type, t, b, val)
  BY DEF Op, OpOn
<1>2. OpOn("READ", t, b, None) \in BuiltReads(partitions)
  BY DEF BuiltReads
<1>3. ASSUME NEW c \in Clients
      PROVE  OpOn("UPDATE", t, b, c) \in BuiltUpdates(partitions)
  <2>1. <<b, c>> \in Mapped(partitions, t) \X Clients /\ <<b, c>>[1] = b /\ <<b, c>>[2] = c
    OBVIOUS
  <2>2. OpOn("UPDATE", t, b, c)
          \in {OpOn("UPDATE", t, x[1], x[2]) : x \in Mapped(partitions, t) \X Clients}
    BY <2>1
  <2> QED BY <2>2 DEF BuiltUpdates
<1> QED BY <1>1, <1>2, <1>3 DEF BuiltOps
------------------------------------------------------------------------------
(* Builders: the sequences they make are of such operations. *)

\* One sequence after another.
LEMMA ThenSafe ==
  ASSUME NEW S, NEW A \in SUBSET Seq(S), NEW B \in SUBSET Seq(S)
  PROVE  Then(A, B) \subseteq Seq(S)
<1>1. ASSUME NEW x \in Then(A, B) PROVE x \in Seq(S)
  <2>1. PICK a \in A, b \in B : x = a \o b
    BY <1>1 DEF Then
  <2>2. a \in Seq(S) /\ b \in Seq(S)
    OBVIOUS
  <2> QED BY <2>1, <2>2, Concatenation
<1> QED BY <1>1

\* One sequence of each set, in turn: the recursive definition has the meaning it shows.
LEMMA InTurnSafe ==
  ASSUME NEW S, NEW sets \in Seq(SUBSET Seq(S))
  PROVE  InTurn(sets) \subseteq Seq(S)
<1> DEFINE N == Len(sets)
           V == SUBSET Seq(S)
           Built(f, n) ==
             /\ f \in [0 .. n -> V]
             /\ f = [i \in 0 .. n |-> IF i = 0 THEN {<<>>} ELSE Then(f[i - 1], sets[i])]
           Can == {n \in 0 .. N : \E f \in [0 .. n -> V] : Built(f, n)}
<1>1. N \in Nat /\ DOMAIN sets = 1 .. N /\ \A i \in 1 .. N : sets[i] \in V
  OBVIOUS
<1>2. {<<>>} \in V
  OBVIOUS
<1>3. 0 \in Can
  <2> DEFINE f == [i \in 0 .. 0 |-> {<<>>}]
  <2>1. f \in [0 .. 0 -> V] /\ Built(f, 0)
    <3> HIDE DEF V
    <3> QED BY <1>2
  <2>2. 0 \in 0 .. N
    BY <1>1
  <2> HIDE DEF f, Built, N
  <2> QED BY <2>1, <2>2
<1>4. ASSUME NEW n \in 0 .. N - 1, n \in Can PROVE n + 1 \in Can
  <2>1. PICK f \in [0 .. n -> V] : Built(f, n)
    BY <1>4
  <2> DEFINE g == [i \in 0 .. n + 1 |-> IF i = n + 1 THEN Then(f[n], sets[n + 1]) ELSE f[i]]
  <2>2. n \in Nat /\ n + 1 \in 1 .. N /\ f[n] \in V /\ sets[n + 1] \in V
    <3> HIDE DEF V
    <3> QED BY <1>1, <2>1
  <2>3. Then(f[n], sets[n + 1]) \in V
    BY <2>2, ThenSafe
  <2>4. g \in [0 .. n + 1 -> V]
    <3> HIDE DEF V
    <3> QED BY <2>1, <2>2, <2>3
  <2>5. ASSUME NEW i \in 0 .. n + 1
        PROVE  g[i] = IF i = 0 THEN {<<>>} ELSE Then(g[i - 1], sets[i])
    <3>1. CASE i = n + 1
      <4>1. g[i] = Then(f[n], sets[i]) /\ g[i - 1] = f[n] /\ i # 0
        <5> HIDE DEF V
        <5> QED BY <2>2, <3>1
      <4> QED BY <4>1
    <3>2. CASE i # n + 1
      <4>1. i \in 0 .. n /\ (i # 0 => i - 1 \in 0 .. n /\ i - 1 # n + 1)
        BY <2>2, <3>2
      <4>2. g[i] = f[i] /\ (i # 0 => g[i - 1] = f[i - 1])
        BY <3>2, <4>1
      <4>3. f[i] = IF i = 0 THEN {<<>>} ELSE Then(f[i - 1], sets[i])
        <5> HIDE DEF V
        <5> QED BY <2>1, <4>1
      <4> HIDE DEF g
      <4> QED BY <4>2, <4>3
    <3> QED BY <3>1, <3>2
  <2>6. Built(g, n + 1)
    <3> HIDE DEF g, V
    <3> QED BY <2>4, <2>5
  <2>7. n + 1 \in 0 .. N
    BY <1>1
  <2> HIDE DEF g, Built, N
  <2> QED BY <2>4, <2>6, <2>7
<1>5. N \in Can
  <2>1. N \in 0 .. N
    BY <1>1
  <2> HIDE DEF Can, N
  <2> QED BY <2>1, <1>1, <1>3, <1>4, InductionUpTo
<1>6. PICK f \in [0 .. N -> V] : Built(f, N)
  BY <1>5
<1> DEFINE built == CHOOSE g : g = [i \in 0 .. N |->
                      IF i = 0 THEN {<<>>} ELSE Then(g[i - 1], sets[i])]
<1>7. built = [i \in 0 .. N |-> IF i = 0 THEN {<<>>} ELSE Then(built[i - 1], sets[i])]
  BY <1>6
<1>8. InTurn(sets) = built[N]
  BY DEF InTurn
<1> HIDE DEF built
<1>9. built[0] = {<<>>} /\ \A i \in 1 .. N : built[i] = Then(built[i - 1], sets[i])
  BY <1>1, <1>7
<1> DEFINE P == {i \in 0 .. N : built[i] \in V}
<1>10. 0 \in P
  <2>1. 0 \in 0 .. N
    BY <1>1
  <2> QED BY <2>1, <1>2, <1>9
<1>11. ASSUME NEW i \in 0 .. N - 1, i \in P PROVE i + 1 \in P
  <2>1. i + 1 \in 1 .. N /\ i + 1 \in 0 .. N /\ i + 1 - 1 = i
    BY <1>1
  <2>2. built[i + 1] = Then(built[i], sets[i + 1])
    BY <1>9, <2>1
  <2>3. built[i] \in V /\ sets[i + 1] \in V
    BY <1>1, <1>11, <2>1
  <2>4. built[i + 1] \in V
    BY <2>2, <2>3, ThenSafe
  <2> QED BY <2>1, <2>4
<1>12. N \in P
  <2>1. N \in 0 .. N
    BY <1>1
  <2> HIDE DEF P, N
  <2> QED BY <2>1, <1>1, <1>10, <1>11, InductionUpTo
<1> QED BY <1>8, <1>12

\* The same set several times.
LEMMA TimesSafe ==
  ASSUME NEW S, NEW A \in SUBSET Seq(S), NEW n \in Nat
  PROVE  Times(n, A) \subseteq Seq(S)
<1>1. [k \in 1 .. n |-> A] \in Seq(SUBSET Seq(S))
  <2> DEFINE V == SUBSET Seq(S)
  <2>1. A \in V
    OBVIOUS
  <2> HIDE DEF V
  <2>2. [k \in 1 .. n |-> A] \in Seq(V)
    BY <2>1
  <2> QED BY <2>2 DEF V
<1> QED BY <1>1, InTurnSafe DEF Times
\* What clients may build in the partitioning of the tables, and the pools they may have.
Built == Seq(BuiltOps(partitions))
PoolsIn(c) == \A t \in Tables : pool[c][t] \subseteq Mapped(partitions, t)

\* Two sequences, or two sets of them, after one another.
LEMMA BuiltJoins ==
  /\ \A a, b \in Built : a \o b \in Built
  /\ \A A, B \in SUBSET Built : Then(A, B) \subseteq Built
BY ThenSafe, Concatenation DEF Built

\* The tables have ids.
LEMMA TableIds ==
  {T_WAREHOUSE, T_DISTRICT, T_CUSTOMER, T_ITEM, T_STOCK, T_NEWORDER, T_ORDER, T_ORDERLINE}
    \subseteq Tables
BY DEF Tables, T_WAREHOUSE, T_DISTRICT, T_CUSTOMER, T_ITEM, T_STOCK, T_NEWORDER, T_ORDER,
       T_ORDERLINE

\* A primary key is looked up, or is no operation.
LEMMA QueuePkSafe ==
  ASSUME partitions \in Partitionings
  PROVE  \A t \in Tables : \A pk :
           /\ QueuePkRead(t, pk) \in Built
           /\ \A c \in Clients : QueuePkWrite(t, pk, c) \in Built
<1> SUFFICES ASSUME NEW t \in Tables, NEW pk
             PROVE  /\ QueuePkRead(t, pk) \in Built
                    /\ \A c \in Clients : QueuePkWrite(t, pk, c) \in Built
  OBVIOUS
<1>1. <<>> \in Built
  BY DEF Built
<1>2. CASE pk \notin DOMAIN PkToOram(t)
  BY <1>1, <1>2 DEF QueuePkRead, QueuePkWrite
<1>3. CASE pk \in DOMAIN PkToOram(t)
  <2>1. PkToOram(t)[pk] \in Mapped(partitions, t)
    BY <1>3, BlocksArePlaces, MapIs
  <2>2. /\ Op("READ", t, PkToOram(t)[pk], None) \in BuiltOps(partitions)
        /\ \A c \in Clients : Op("UPDATE", t, PkToOram(t)[pk], c) \in BuiltOps(partitions)
    BY <2>1, OpIsBuilt
  <2> QED BY <2>2, <1>3 DEF QueuePkRead, QueuePkWrite, Built
<1> QED BY <1>2, <1>3

\* What a client picks from is what the map of this configuration has, even the first time.
LEMMA PoolOfSafe ==
  ASSUME NEW c, PoolsIn(c)
  PROVE  \A t \in Tables : PoolOf(c, t) \subseteq Mapped(partitions, t)
BY BlocksArePlaces DEF PoolsIn, PoolOf, Mapped

\* Reads and inserts of blocks picked at random.
LEMMA RandomSafe ==
  ASSUME partitions \in Partitionings, NEW c, PoolsIn(c), NEW t \in Tables
  PROVE  /\ \A n \in Nat : DummyReads(c, t, n) \subseteq Built
         /\ SynopsisReads(c, t) \subseteq Built
         /\ c \in Clients => SimulatedInsert(c, t) \subseteq Built
<1>1. PoolOf(c, t) \subseteq Mapped(partitions, t)
  BY PoolOfSafe
<1>2. \A b \in PoolOf(c, t) :
        /\ Op("READ", t, b, None) \in BuiltOps(partitions)
        /\ \A d \in Clients : Op("UPDATE", t, b, d) \in BuiltOps(partitions)
  BY <1>1, OpIsBuilt
<1>3. ASSUME NEW n \in Nat PROVE DummyReads(c, t, n) \subseteq Built
  <2>1. ASSUME NEW pick \in [1 .. n -> PoolOf(c, t)]
        PROVE  [i \in 1 .. n |-> Op("READ", t, pick[i], None)] \in Built
    <3>1. \A i \in 1 .. n : Op("READ", t, pick[i], None) \in BuiltOps(partitions)
      BY <1>2
    <3> QED BY <3>1 DEF Built
  <2> QED BY <2>1 DEF DummyReads
<1>4. SynopsisReads(c, t) \subseteq Built
  <2>1. ReadCap \in Nat
    BY TpccAssumption
  <2>2. \A n \in Counts : DummyReads(c, t, n) \subseteq Built
    BY <1>3, <2>1 DEF Counts
  <2> QED BY <2>2 DEF SynopsisReads
<1>5. ASSUME c \in Clients PROVE SimulatedInsert(c, t) \subseteq Built
  <2>1. \A o \in BuiltOps(partitions) : <<o>> \in Built
    BY DEF Built
  <2>2. \A b \in PoolOf(c, t) : <<Op("UPDATE", t, b, c)>> \in Built
    BY <1>2, <1>5, <2>1
  <2> QED BY <2>2 DEF SimulatedInsert
<1> QED BY <1>3, <1>4, <1>5

\* A customer by id or by name.
LEMMA LookUpSafe ==
  ASSUME partitions \in Partitionings, NEW c, PoolsIn(c)
  PROVE  \A who \in LookUp(c) : who[2] \in Built
<1>1. T_CUSTOMER \in Tables
  BY TableIds
<1>2. SynopsisReads(c, T_CUSTOMER) \subseteq Built
  BY <1>1, RandomSafe
<1>3. \A cu : QueuePkRead(T_CUSTOMER, cu) \in Built
  BY <1>1, QueuePkSafe
<1> QED BY <1>2, <1>3 DEF LookUp
\* A transaction of each kind.
LEMMA NewOrderSafe ==
  ASSUME partitions \in Partitionings, NEW c \in Clients, PoolsIn(c)
  PROVE  NewOrder(c) \subseteq Built
<1> USE TableIds
<1>1. LineCounts \subseteq Nat
  BY TpccAssumption
<1>2. OrderLine(c) \subseteq Built
  <2>1. ASSUME NEW i \in Items
        PROVE  Then({QueuePkRead(T_ITEM, i) \o QueuePkRead(T_STOCK, i) \o QueuePkWrite(T_STOCK, i, c)},
                    SimulatedInsert(c, T_ORDERLINE)) \subseteq Built
    <3>1. QueuePkRead(T_ITEM, i) \o QueuePkRead(T_STOCK, i) \o QueuePkWrite(T_STOCK, i, c) \in Built
      BY QueuePkSafe, BuiltJoins
    <3>2. SimulatedInsert(c, T_ORDERLINE) \subseteq Built
      BY RandomSafe
    <3> QED BY <3>1, <3>2, BuiltJoins
  <2> QED BY <2>1 DEF OrderLine
<1>3. \A n \in Nat : Times(n, OrderLine(c)) \subseteq Built
  BY <1>2, TimesSafe DEF Built
<1> DEFINE One(cu, d, n) ==
             Then({QueuePkRead(T_CUSTOMER, cu) \o QueuePkRead(T_WAREHOUSE, 1)
                     \o QueuePkRead(T_DISTRICT, d) \o QueuePkWrite(T_DISTRICT, d, c)},
                  Then(SimulatedInsert(c, T_ORDER),
                       Then(SimulatedInsert(c, T_NEWORDER), Times(n, OrderLine(c)))))
<1>4. ASSUME NEW cu \in Customers, NEW d \in Districts, NEW n \in LineCounts
      PROVE  One(cu, d, n) \subseteq Built
  <2>1. QueuePkRead(T_CUSTOMER, cu) \o QueuePkRead(T_WAREHOUSE, 1)
          \o QueuePkRead(T_DISTRICT, d) \o QueuePkWrite(T_DISTRICT, d, c) \in Built
    <3>1. /\ QueuePkRead(T_CUSTOMER, cu) \in Built /\ QueuePkRead(T_WAREHOUSE, 1) \in Built
          /\ QueuePkRead(T_DISTRICT, d) \in Built /\ QueuePkWrite(T_DISTRICT, d, c) \in Built
      BY QueuePkSafe
    <3> QED BY <3>1, BuiltJoins
  <2>2. SimulatedInsert(c, T_ORDER) \subseteq Built /\ SimulatedInsert(c, T_NEWORDER) \subseteq Built
    BY RandomSafe
  <2>3. Then(SimulatedInsert(c, T_NEWORDER), Times(n, OrderLine(c))) \subseteq Built
    BY <1>1, <1>3, <2>2, BuiltJoins
  <2>4. Then(SimulatedInsert(c, T_ORDER),
             Then(SimulatedInsert(c, T_NEWORDER), Times(n, OrderLine(c)))) \subseteq Built
    BY <2>2, <2>3, BuiltJoins
  <2> QED BY <2>1, <2>4, BuiltJoins
<1>5. NewOrder(c) = UNION {One(cu, d, n) : cu \in Customers, d \in Districts, n \in LineCounts}
  BY DEF NewOrder
<1> HIDE DEF One
<1>6. \A cu \in Customers, d \in Districts, n \in LineCounts : One(cu, d, n) \subseteq Built
  BY <1>4
<1> QED BY <1>5, <1>6

\* A payment.
LEMMA PaymentSafe ==
  ASSUME partitions \in Partitionings, NEW c \in Clients, PoolsIn(c)
  PROVE  Payment(c) \subseteq Built
<1> USE TableIds
<1> DEFINE One(d, who) ==
             QueuePkRead(T_WAREHOUSE, 1) \o QueuePkWrite(T_WAREHOUSE, 1, c)
               \o QueuePkRead(T_DISTRICT, d) \o QueuePkWrite(T_DISTRICT, d, c)
               \o who[2] \o QueuePkWrite(T_CUSTOMER, who[1], c)
<1>1. ASSUME NEW d \in Districts, NEW who \in LookUp(c) PROVE One(d, who) \in Built
  <2>1. /\ QueuePkRead(T_WAREHOUSE, 1) \in Built /\ QueuePkWrite(T_WAREHOUSE, 1, c) \in Built
        /\ QueuePkRead(T_DISTRICT, d) \in Built /\ QueuePkWrite(T_DISTRICT, d, c) \in Built
        /\ QueuePkWrite(T_CUSTOMER, who[1], c) \in Built
    BY QueuePkSafe
  <2>2. who[2] \in Built
    BY LookUpSafe
  <2> QED BY <2>1, <2>2, BuiltJoins
<1>2. Payment(c) = {One(d, who) : d \in Districts, who \in LookUp(c)}
  BY DEF Payment
<1> HIDE DEF One
<1>3. \A d \in Districts, who \in LookUp(c) : One(d, who) \in Built
  BY <1>1
<1> QED BY <1>2, <1>3

\* An order status.
LEMMA OrderStatusSafe ==
  ASSUME partitions \in Partitionings, NEW c \in Clients, PoolsIn(c)
  PROVE  OrderStatus(c) \subseteq Built
<1> USE TableIds
<1>1. ASSUME NEW who \in LookUp(c)
      PROVE  (IF MaxOrder(who[1]) = {} THEN {who[2]}
              ELSE Then({who[2] \o QueuePkRead(T_ORDER, o) : o \in MaxOrder(who[1])},
                        UNION {DummyReads(c, T_ORDERLINE, n) : n \in LineCounts}))
               \subseteq Built
  <2>1. who[2] \in Built
    BY LookUpSafe
  <2>2. {who[2] \o QueuePkRead(T_ORDER, o) : o \in MaxOrder(who[1])} \subseteq Built
    <3>1. \A o : QueuePkRead(T_ORDER, o) \in Built
      BY QueuePkSafe
    <3>2. \A o : who[2] \o QueuePkRead(T_ORDER, o) \in Built
      BY <2>1, <3>1, BuiltJoins
    <3> QED BY <3>2
  <2>3. UNION {DummyReads(c, T_ORDERLINE, n) : n \in LineCounts} \subseteq Built
    <3>1. \A n \in LineCounts : DummyReads(c, T_ORDERLINE, n) \subseteq Built
      BY RandomSafe, TpccAssumption
    <3> QED BY <3>1
  <2> QED BY <2>1, <2>2, <2>3, BuiltJoins
<1> QED BY <1>1 DEF OrderStatus

\* A delivery to one district, and to all.
LEMMA DeliverySafe ==
  ASSUME partitions \in Partitionings, NEW c \in Clients, PoolsIn(c)
  PROVE  Delivery(c) \subseteq Built
<1> USE TableIds
<1>1. LineCounts \subseteq Nat /\ NumDistricts \in Nat
  BY TpccAssumption
<1>2. <<>> \in Built
  BY DEF Built
<1> DEFINE One(o, n) ==
             Then({QueuePkWrite(T_NEWORDER, o, c) \o QueuePkRead(T_ORDER, o)
                     \o QueuePkWrite(T_ORDER, o, c)},
                  Then(DummyReads(c, T_ORDERLINE, n),
                       Then(Times(n, SimulatedInsert(c, T_ORDERLINE)),
                            {QueuePkWrite(T_CUSTOMER, cu, c) : cu \in Customers})))
<1>3. ASSUME NEW o, NEW n \in LineCounts PROVE One(o, n) \subseteq Built
  <2>1. QueuePkWrite(T_NEWORDER, o, c) \o QueuePkRead(T_ORDER, o) \o QueuePkWrite(T_ORDER, o, c)
          \in Built
    BY QueuePkSafe, BuiltJoins
  <2>2. {QueuePkWrite(T_CUSTOMER, cu, c) : cu \in Customers} \subseteq Built
    <3>1. \A cu : QueuePkWrite(T_CUSTOMER, cu, c) \in Built
      BY QueuePkSafe
    <3> QED BY <3>1
  <2>3. SimulatedInsert(c, T_ORDERLINE) \subseteq Built /\ DummyReads(c, T_ORDERLINE, n) \subseteq Built
    BY <1>1, RandomSafe
  <2>4. Times(n, SimulatedInsert(c, T_ORDERLINE)) \subseteq Built
    BY <1>1, <2>3, TimesSafe DEF Built
  <2>5. Then(Times(n, SimulatedInsert(c, T_ORDERLINE)),
             {QueuePkWrite(T_CUSTOMER, cu, c) : cu \in Customers}) \subseteq Built
    BY <2>2, <2>4, BuiltJoins
  <2>6. Then(DummyReads(c, T_ORDERLINE, n),
             Then(Times(n, SimulatedInsert(c, T_ORDERLINE)),
                  {QueuePkWrite(T_CUSTOMER, cu, c) : cu \in Customers})) \subseteq Built
    BY <2>3, <2>5, BuiltJoins
  <2> QED BY <2>1, <2>6, BuiltJoins
<1>4. ASSUME NEW d \in Districts PROVE Deliver(c, d) \subseteq Built
  <2>1. Deliver(c, d) = IF MinNewOrder(d) = {} THEN {<<>>}
                        ELSE UNION {One(o, n) : o \in MinNewOrder(d), n \in LineCounts}
    BY DEF Deliver
  <2> HIDE DEF One
  <2>2. \A o \in MinNewOrder(d), n \in LineCounts : One(o, n) \subseteq Built
    BY <1>3
  <2> QED BY <2>1, <2>2, <1>2
<1>5. [d \in Districts |-> Deliver(c, d)] \in Seq(SUBSET Built)
  <2> DEFINE V == SUBSET Built
  <2>1. \A d \in Districts : Deliver(c, d) \in V
    BY <1>4
  <2> HIDE DEF V
  <2>2. [d \in Districts |-> Deliver(c, d)] \in Seq(V)
    BY <1>1, <2>1 DEF Districts
  <2> QED BY <2>2 DEF V
<1> QED BY <1>5, InTurnSafe DEF Delivery, Built

\* A stock level; and whatever a client builds.
LEMMA TxnSafe ==
  ASSUME partitions \in Partitionings, NEW c \in Clients, PoolsIn(c), NEW kind \in Kinds
  PROVE  BuildRandomTpccTxn(c, kind) \subseteq Built
<1> USE TableIds
<1>1. StockLevel(c) \subseteq Built
  <2>1. ASSUME NEW d \in Districts
        PROVE  Then({QueuePkRead(T_DISTRICT, d)},
                    Then(SynopsisReads(c, T_ORDERLINE), SynopsisReads(c, T_STOCK))) \subseteq Built
    <3>1. QueuePkRead(T_DISTRICT, d) \in Built
      BY QueuePkSafe
    <3>2. SynopsisReads(c, T_ORDERLINE) \subseteq Built /\ SynopsisReads(c, T_STOCK) \subseteq Built
      BY RandomSafe
    <3>3. Then(SynopsisReads(c, T_ORDERLINE), SynopsisReads(c, T_STOCK)) \subseteq Built
      BY <3>2, BuiltJoins
    <3> QED BY <3>1, <3>3, BuiltJoins
  <2> QED BY <2>1 DEF StockLevel
<1> QED BY <1>1, NewOrderSafe, PaymentSafe, OrderStatusSafe, DeliverySafe
        DEF BuildRandomTpccTxn, Kinds
------------------------------------------------------------------------------
(* Ids: the transactions pushed, and the operations they become. *)

\* What the queue holds: a transaction without operations has no last one.
Submissions(p) ==
  {t \in [operations : Seq(BuiltOps(p)), last_one : BOOLEAN] : t.operations = <<>> => ~ t.last_one}

\* The block an operation with an id was queued for.
QueuedFor(tk, op) == tk[op.ts + 1].operations[op.goid - OpsBefore(tk, op.ts + 1) + 1].block

\* The transactions without the history.
Bare(op) == [type |-> op.type, key |-> op.key, val |-> op.val]
BareTxns(tk) ==
  [i \in DOMAIN tk |->
     [operations |-> [j \in DOMAIN tk[i].operations |-> Bare(tk[i].operations[j])],
      last_one |-> tk[i].last_one]]

\* What a submission is.
LEMMA SubmissionIs ==
  ASSUME NEW p \in Partitionings, NEW tk \in Seq(Submissions(p)), NEW i \in DOMAIN tk
  PROVE  /\ tk[i].operations \in Seq(BuiltOps(p)) /\ Len(tk[i].operations) \in Nat
         /\ tk[i].last_one \in BOOLEAN /\ (tk[i].operations = <<>> => ~ tk[i].last_one)
         /\ DOMAIN tk[i].operations = 1 .. Len(tk[i].operations)
<1>1. tk[i] \in Submissions(p)
  OBVIOUS
<1>2. /\ tk[i].operations \in Seq(BuiltOps(p)) /\ tk[i].last_one \in BOOLEAN
      /\ (tk[i].operations = <<>> => ~ tk[i].last_one)
  BY <1>1 DEF Submissions
<1> QED BY <1>2

\* An operation without its history is one the proxy accepts.
LEMMA BareIs ==
  ASSUME NEW p \in Partitionings, NEW op \in BuiltOps(p)
  PROVE  Bare(op) \in Operations
<1>1. /\ op.key \in Keys
      /\ \/ op.type = "READ" /\ op.val = None
         \/ op.type = "UPDATE" /\ op.val \in Clients
  BY BuiltOpIs
<1>2. op.val \in Clients => op.val \in Values
  BY TpccAssumption
<1> QED BY <1>1, <1>2 DEF Bare, Operations

\* The ids do not depend on the history.
LEMMA BareIds ==
  ASSUME NEW p \in Partitionings, NEW tk \in Seq(Submissions(p))
  PROVE  /\ BareTxns(tk) \in Seq([operations : Seq(Operations), last_one : BOOLEAN])
         /\ \A i \in DOMAIN BareTxns(tk) : IsSubmission(BareTxns(tk)[i])
         /\ AssignIds(tk, 0, 0) = AssignIds(BareTxns(tk), 0, 0)
<1> DEFINE N == Len(tk)
           bare == BareTxns(tk)
           T == [operations : Seq(Operations), last_one : BOOLEAN]
<1>1. N \in Nat /\ DOMAIN tk = 1 .. N
  OBVIOUS
<1>2. \A i \in 1 .. N :
        /\ tk[i].operations \in Seq(BuiltOps(p)) /\ Len(tk[i].operations) \in Nat
        /\ tk[i].last_one \in BOOLEAN /\ (tk[i].operations = <<>> => ~ tk[i].last_one)
        /\ DOMAIN tk[i].operations = 1 .. Len(tk[i].operations)
  BY SubmissionIs
<1>3. /\ DOMAIN bare = 1 .. N
      /\ \A i \in 1 .. N :
           /\ bare[i].operations = [j \in DOMAIN tk[i].operations |-> Bare(tk[i].operations[j])]
           /\ bare[i].last_one = tk[i].last_one
           /\ bare[i] = [operations |-> bare[i].operations, last_one |-> bare[i].last_one]
  BY <1>1 DEF BareTxns
<1> HIDE DEF bare
<1>4. ASSUME NEW i \in 1 .. N
      PROVE  /\ bare[i].operations \in Seq(Operations)
             /\ Len(bare[i].operations) = Len(tk[i].operations)
             /\ DOMAIN bare[i].operations = DOMAIN tk[i].operations
             /\ \A j \in DOMAIN tk[i].operations :
                  bare[i].operations[j] = Bare(tk[i].operations[j])
             /\ (bare[i].operations = <<>> => ~ bare[i].last_one)
             /\ bare[i] \in T
  <2>1. PICK n \in Nat : n = Len(tk[i].operations)
    BY <1>2
  <2>2. \A j \in 1 .. n : Bare(tk[i].operations[j]) \in Operations
    BY <1>2, <2>1, BareIs
  <2>3. bare[i].operations = [j \in 1 .. n |-> Bare(tk[i].operations[j])]
    BY <1>2, <1>3, <2>1
  <2>4. /\ bare[i].operations \in Seq(Operations) /\ Len(bare[i].operations) = n
        /\ DOMAIN bare[i].operations = 1 .. n
        /\ \A j \in 1 .. n : bare[i].operations[j] = Bare(tk[i].operations[j])
    BY <2>2, <2>3
  <2>5. bare[i].operations = <<>> => tk[i].operations = <<>>
    BY <1>2, <2>1, <2>4
  <2>6. bare[i] \in T
    <3>1. \A x \in Seq(Operations), y \in BOOLEAN : [operations |-> x, last_one |-> y] \in T
      OBVIOUS
    <3>2. bare[i].operations \in Seq(Operations) /\ bare[i].last_one \in BOOLEAN
      BY <1>2, <1>3, <2>4
    <3>3. bare[i] = [operations |-> bare[i].operations, last_one |-> bare[i].last_one]
      BY <1>3
    <3> HIDE DEF T
    <3> QED BY <3>1, <3>2, <3>3
  <2> QED BY <1>2, <1>3, <2>1, <2>4, <2>5, <2>6
<1>5. bare \in Seq(T)
  <2>1. \A i \in 1 .. N : bare[i] \in T
    BY <1>4
  <2>2. bare = [i \in 1 .. N |-> bare[i]]
    BY <1>3 DEF bare, BareTxns
  <2> HIDE DEF T
  <2> QED BY <2>1, <2>2, <1>1
<1>6. Len(bare) = N
  BY <1>1, <1>3, <1>5
<1>7. \A i \in DOMAIN bare : IsSubmission(bare[i])
  BY <1>2, <1>3, <1>4 DEF IsSubmission
<1>8. \A i \in 1 .. N : OpsBefore(tk, i) = OpsBefore(bare, i)
  <2>1. \A i \in DOMAIN tk : Len(tk[i].operations) \in Nat
    BY <1>1, <1>2
  <2>2. \A i \in DOMAIN bare : Len(bare[i].operations) \in Nat
    BY <1>2, <1>3, <1>4
  <2>3. \A i \in 1 .. N : Len(tk[i].operations) = Len(bare[i].operations)
    BY <1>4
  <2>4. N <= Len(tk) /\ N <= Len(bare)
    BY <1>1, <1>6
  <2>5. \A i \in 1 .. N + 1 : OpsBefore(tk, i) = OpsBefore(bare, i)
    BY <1>1, <1>5, <2>1, <2>2, <2>3, <2>4, OpsBeforeSame
  <2> QED BY <1>1, <2>5
<1>9. ASSUME NEW i \in 1 .. N
      PROVE  [j \in DOMAIN tk[i].operations |->
                [type |-> tk[i].operations[j].type, key |-> tk[i].operations[j].key,
                 val |-> tk[i].operations[j].val, ts |-> 0 + i - 1,
                 goid |-> 0 + OpsBefore(tk, i) + j - 1]]
             = [j \in DOMAIN bare[i].operations |->
                [type |-> bare[i].operations[j].type, key |-> bare[i].operations[j].key,
                 val |-> bare[i].operations[j].val, ts |-> 0 + i - 1,
                 goid |-> 0 + OpsBefore(bare, i) + j - 1]]
  <2>1. \A j \in DOMAIN tk[i].operations :
          /\ bare[i].operations[j].type = tk[i].operations[j].type
          /\ bare[i].operations[j].key = tk[i].operations[j].key
          /\ bare[i].operations[j].val = tk[i].operations[j].val
    <3>1. \A j \in DOMAIN tk[i].operations : bare[i].operations[j] = Bare(tk[i].operations[j])
      BY <1>4
    <3>2. \A op : Bare(op).type = op.type /\ Bare(op).key = op.key /\ Bare(op).val = op.val
      BY DEF Bare
    <3> QED BY <3>1, <3>2
  <2> QED BY <2>1, <1>4, <1>8
<1>10. AssignIds(tk, 0, 0) = AssignIds(bare, 0, 0)
  BY <1>1, <1>3, <1>9 DEF AssignIds
<1> QED BY <1>5, <1>7, <1>10 DEF bare

\* Every operation with an id is one that was built, on the same block.
LEMMA IdsOfBuilt ==
  ASSUME NEW p \in Partitionings, NEW tk \in Seq(Submissions(p))
  PROVE  /\ WellNumbered(AssignIds(tk, 0, 0))
         /\ \A op \in Ops(AssignIds(tk, 0, 0)) : \E o \in BuiltOps(p) :
              /\ op.type = o.type /\ op.key = o.key /\ op.val = o.val
              /\ QueuedFor(tk, op) = o.block
<1> DEFINE txns == AssignIds(tk, 0, 0)
           N == Len(tk)
<1>1. WellNumbered(txns)
  BY BareIds, AssignIdsNumbers
<1>2. N \in Nat /\ DOMAIN tk = 1 .. N /\ DOMAIN txns = 1 .. N
  BY DEF AssignIds
<1>3. \A i \in 1 .. N :
        /\ tk[i].operations \in Seq(BuiltOps(p)) /\ Len(tk[i].operations) \in Nat
        /\ DOMAIN tk[i].operations = 1 .. Len(tk[i].operations)
  BY SubmissionIs
<1>4. \A i \in 1 .. N + 1 : OpsBefore(tk, i) \in Nat
  BY <1>2, <1>3, OpsBeforeStep
<1>5. ASSUME NEW op \in Ops(txns)
      PROVE  \E o \in BuiltOps(p) : /\ op.type = o.type /\ op.key = o.key /\ op.val = o.val
                                    /\ QueuedFor(tk, op) = o.block
  <2>1. PICK i \in 1 .. N : op \in Range(txns[i].operations)
    BY <1>2 DEF Ops, OpsOf, Range
  <2>2. txns[i].operations =
          [j \in DOMAIN tk[i].operations |->
             [type |-> tk[i].operations[j].type, key |-> tk[i].operations[j].key,
              val |-> tk[i].operations[j].val, ts |-> 0 + i - 1,
              goid |-> 0 + OpsBefore(tk, i) + j - 1]]
    BY <1>2 DEF AssignIds
  <2>3. PICK j \in DOMAIN tk[i].operations :
          op = [type |-> tk[i].operations[j].type, key |-> tk[i].operations[j].key,
                val |-> tk[i].operations[j].val, ts |-> 0 + i - 1,
                goid |-> 0 + OpsBefore(tk, i) + j - 1]
    <3> HIDE DEF txns
    <3> QED BY <2>1, <2>2 DEF Range
  <2>4. tk[i].operations[j] \in BuiltOps(p) /\ j \in Nat
    BY <1>3
  <2>5. op.ts = i - 1 /\ op.goid = OpsBefore(tk, i) + j - 1
    BY <1>4, <2>3, <2>4
  <2>6. op.ts + 1 = i
    BY <2>5
  <2>7. PICK n \in Nat : n = OpsBefore(tk, i)
    BY <1>4
  <2>8. op.goid - OpsBefore(tk, op.ts + 1) + 1 = j
    <3>1. op.goid = n + j - 1
      BY <2>5, <2>7
    <3>2. OpsBefore(tk, op.ts + 1) = n
      BY <2>6, <2>7
    <3> QED BY <3>1, <3>2, <2>4
  <2>9. QueuedFor(tk, op) = tk[i].operations[j].block
    BY <2>6, <2>8 DEF QueuedFor
  <2> QED BY <2>3, <2>4, <2>9
<1> QED BY <1>1, <1>5
------------------------------------------------------------------------------
(* Intake: what clients hold and push is built for the tables that are loaded. *)

DriverIntake ==
  /\ config \in Nat
  /\ config = 0 => phase = "over" /\ \A c \in Clients : client[c] = "over" /\ held[c] = <<>>
  /\ config # 0 => partitions \in Partitionings
  /\ client \in [Clients -> {"waiting", "building", "pushing", "over"}]
  /\ pool \in [Clients -> [Tables -> SUBSET (Servers \X (0 .. Shift - 1))]]
  /\ \A c \in Clients, t \in Tables : pool[c][t] \subseteq Mapped(partitions, t)
  /\ held \in [Clients -> Seq(Seq(BuiltOps(partitions)))]
  /\ \A c \in Clients : client[c] = "pushing" => held[c] # <<>>
  /\ queue \in Seq(Submissions(partitions)) /\ taken \in Seq(Submissions(partitions))

\* At first there is nothing.
LEMMA DriverIntakeInit ==
  ASSUME Init
  PROVE  DriverIntake
<1>1. pool \in [Clients -> [Tables -> SUBSET (Servers \X (0 .. Shift - 1))]]
      /\ \A c \in Clients, t \in Tables : pool[c][t] \subseteq Mapped(partitions, t)
  BY DEF Init
<1>2. held \in [Clients -> Seq(Seq(BuiltOps(partitions)))]
  BY DEF Init
<1>3. queue \in Seq(Submissions(partitions)) /\ taken \in Seq(Submissions(partitions))
  BY DEF Init
<1>4. config = 0 /\ phase = "over" /\ client = [c \in Clients |-> "over"]
      /\ held = [c \in Clients |-> <<>>]
  BY DEF Init
<1> QED BY <1>1, <1>2, <1>3, <1>4 DEF DriverIntake

\* What a client builds.
LEMMA BuildSafe ==
  ASSUME DriverIntake, NEW c \in Clients, Build(c)
  PROVE  DriverIntake'
<1>1. /\ client[c] = "building" /\ partitions' = partitions /\ queue' = queue /\ taken' = taken
      /\ config' = config /\ phase' = phase
      /\ client' = [client EXCEPT ![c] = IF accepting THEN "pushing" ELSE "over"]
  BY DEF Build
<1>2. config # 0 /\ partitions \in Partitionings
  BY <1>1 DEF DriverIntake
<1>3. PICK kind \in Kinds :
        /\ \E ops \in BuildRandomTpccTxn(c, kind) :
             held' = [held EXCEPT ![c] = IF accepting THEN <<ops>> ELSE <<>>]
        /\ pool' = [pool EXCEPT ![c] =
                      [t \in Tables |-> IF t \in Pooled(kind) THEN PoolOf(c, t) ELSE @[t]]]
  BY DEF Build
<1>4. PICK ops \in BuildRandomTpccTxn(c, kind) :
        held' = [held EXCEPT ![c] = IF accepting THEN <<ops>> ELSE <<>>]
  BY <1>3
<1>5. PoolsIn(c)
  BY BlocksArePlaces DEF PoolsIn, DriverIntake
<1>6. ops \in Seq(BuiltOps(partitions))
  BY <1>2, <1>4, <1>5, TxnSafe DEF Built
<1> DEFINE Q == Seq(BuiltOps(partitions))
<1>7. <<ops>> \in Seq(Q) /\ <<>> \in Seq(Q) /\ <<ops>> # <<>>
  <2> HIDE DEF Q
  <2>1. ops \in Q
    BY <1>6 DEF Q
  <2> QED BY <2>1
<1>8. held' \in [Clients -> Seq(Q)] /\ \A d \in Clients : client'[d] = "pushing" => held'[d] # <<>>
  <2>1. /\ held \in [Clients -> Seq(Q)] /\ DOMAIN client = Clients
        /\ \A d \in Clients : client[d] = "pushing" => held[d] # <<>>
    BY DEF DriverIntake
  <2> HIDE DEF Q
  <2>2. PICK h \in Seq(Q) : h = (IF accepting THEN <<ops>> ELSE <<>>)
    BY <1>7
  <2>3. held' = [held EXCEPT ![c] = h]
    BY <1>4, <2>2
  <2>4. held' \in [Clients -> Seq(Q)]
    BY <2>1, <2>3
  <2>5. ASSUME NEW d \in Clients, client'[d] = "pushing" PROVE held'[d] # <<>>
    <3>1. CASE d = c
      <4>1. accepting
        BY <1>1, <2>1, <2>5, <3>1
      <4> QED BY <4>1, <1>7, <2>1, <2>2, <2>3, <3>1
    <3>2. CASE d # c
      BY <1>1, <2>1, <2>3, <2>5, <3>2
    <3> QED BY <3>1, <3>2
  <2> QED BY <2>4, <2>5
<1> DEFINE P == SUBSET (Servers \X (0 .. Shift - 1))
<1>9. /\ pool' \in [Clients -> [Tables -> P]]
      /\ \A d \in Clients, t \in Tables : pool'[d][t] \subseteq Mapped(partitions, t)
  <2>1. /\ pool \in [Clients -> [Tables -> P]]
        /\ \A d \in Clients, t \in Tables : pool[d][t] \subseteq Mapped(partitions, t)
    BY DEF DriverIntake
  <2>2. \A t \in Tables : PoolOf(c, t) \subseteq Mapped(partitions, t) /\ PoolOf(c, t) \in P
    <3>1. \A t \in Tables : PoolOf(c, t) \subseteq Mapped(partitions, t)
      BY <1>5, PoolOfSafe, BlocksArePlaces
    <3>2. \A t : Places(partitions, t) \in P
      BY DEF Places
    <3>3. \A t \in Tables : Mapped(partitions, t) \subseteq Places(partitions, t)
      BY <1>2, MapIs
    <3>4. \A t \in Tables : PoolOf(c, t) \in P
      BY <3>1, <3>2, <3>3
    <3> QED BY <3>1, <3>4
  <2> HIDE DEF P
  <2> DEFINE new == [t \in Tables |-> IF t \in Pooled(kind) THEN PoolOf(c, t) ELSE pool[c][t]]
  <2>3. new \in [Tables -> P] /\ \A t \in Tables : new[t] \subseteq Mapped(partitions, t)
    BY <2>1, <2>2
  <2>4. pool' = [pool EXCEPT ![c] = new]
    BY <1>3, <2>1
  <2> HIDE DEF new
  <2> QED BY <2>1, <2>3, <2>4
<1>10. client' \in [Clients -> {"waiting", "building", "pushing", "over"}]
  BY <1>1 DEF DriverIntake
<1> QED BY <1>1, <1>2, <1>8, <1>9, <1>10 DEF DriverIntake

\* Every step.
LEMMA DriverIntakeNext ==
  ASSUME DriverIntake, [Next]_vars
  PROVE  DriverIntake'
<1>1. CASE InitTables
  <2>1. /\ config \in Nat /\ config' = config + 1 /\ partitions' \in Partitionings
        /\ queue' = <<>> /\ taken' = <<>>
        /\ client' = [c \in Clients |-> "waiting"] /\ held' = [c \in Clients |-> <<>>]
        /\ pool' = [c \in Clients |-> [t \in Tables |-> {}]]
    BY <1>1 DEF InitTables, NewPools, DriverIntake
  <2>2. config' \in Nat /\ config' # 0
    BY <2>1
  <2>3. pool' \in [Clients -> [Tables -> SUBSET (Servers \X (0 .. Shift - 1))]]
        /\ \A c \in Clients, t \in Tables : pool'[c][t] \subseteq Mapped(partitions', t)
    BY <2>1
  <2>4. held' \in [Clients -> Seq(Seq(BuiltOps(partitions')))]
    BY <2>1
  <2>5. queue' \in Seq(Submissions(partitions')) /\ taken' \in Seq(Submissions(partitions'))
    BY <2>1
  <2>6. client' \in [Clients -> {"waiting", "building", "pushing", "over"}]
        /\ \A c \in Clients : client'[c] # "pushing"
    BY <2>1
  <2> QED BY <2>1, <2>2, <2>3, <2>4, <2>5, <2>6 DEF DriverIntake
<1>2. CASE OpenWindow
  <2>1. /\ queue' = <<>> /\ phase = "started"
        /\ UNCHANGED <<config, partitions, client, held, pool, taken>>
    BY <1>2 DEF OpenWindow
  <2>2. queue' \in Seq(Submissions(partitions'))
    BY <2>1
  <2> QED BY <2>1, <2>2 DEF DriverIntake
<1>3. CASE CloseWindow
  BY <1>3 DEF CloseWindow, DriverIntake
<1>4. CASE DrainQueue
  <2>1. /\ taken' = queue /\ queue' = <<>> /\ phase = "window"
        /\ UNCHANGED <<config, partitions, client, held, pool>>
    BY <1>4 DEF DrainQueue
  <2>2. queue' \in Seq(Submissions(partitions'))
    BY <2>1
  <2> QED BY <2>1, <2>2 DEF DriverIntake
<1>5. CASE BuildBatches
  BY <1>5 DEF BuildBatches, DriverIntake, intake
<1>6. CASE JoinWorkers
  BY <1>6 DEF JoinWorkers, DriverIntake, intake
<1>7. ASSUME NEW c \in Clients, SeeWindow(c) PROVE DriverIntake'
  <2>1. /\ client[c] = "waiting" /\ client' = [client EXCEPT ![c] = "building"]
        /\ UNCHANGED <<config, phase, partitions, held, pool, queue, taken>>
    BY <1>7 DEF SeeWindow
  <2>2. client \in [Clients -> {"waiting", "building", "pushing", "over"}] /\ config # 0
    BY <2>1 DEF DriverIntake
  <2>3. client' \in [Clients -> {"waiting", "building", "pushing", "over"}]
        /\ \A d \in Clients : client'[d] = "pushing" => client[d] = "pushing"
    BY <2>1, <2>2
  <2> QED BY <2>1, <2>2, <2>3 DEF DriverIntake
<1>8. ASSUME NEW c \in Clients, Build(c) PROVE DriverIntake'
  BY <1>8, BuildSafe
<1>9. ASSUME NEW c \in Clients, Push(c) PROVE DriverIntake'
  <2>1. /\ client[c] = "pushing"
        /\ queue' = Append(queue, [operations |-> held[c][1], last_one |-> held[c][1] # <<>>])
        /\ held' = [held EXCEPT ![c] = <<>>] /\ client' = [client EXCEPT ![c] = "over"]
        /\ UNCHANGED <<config, phase, partitions, pool, taken>>
    BY <1>9 DEF Push
  <2>2. /\ client \in [Clients -> {"waiting", "building", "pushing", "over"}] /\ config # 0
        /\ held[c] # <<>> /\ queue \in Seq(Submissions(partitions))
    BY <2>1 DEF DriverIntake
  <2> DEFINE Q == Seq(BuiltOps(partitions))
  <2>3. held \in [Clients -> Seq(Q)]
    BY DEF DriverIntake
  <2>4. held[c][1] \in Q /\ held' \in [Clients -> Seq(Q)]
        /\ \A d \in Clients : client'[d] = "pushing" => d # c /\ client[d] = "pushing"
        /\ \A e \in Clients : e # c => held'[e] = held[e]
    <3> HIDE DEF Q
    <3>1. held[c] \in Seq(Q) /\ held[c] # <<>> /\ <<>> \in Seq(Q)
      BY <2>2, <2>3
    <3> QED BY <3>1, <2>1, <2>2, <2>3
  <2>5. [operations |-> held[c][1], last_one |-> held[c][1] # <<>>] \in Submissions(partitions)
    BY <2>4 DEF Submissions
  <2>6. queue' \in Seq(Submissions(partitions))
    <3> DEFINE t == [operations |-> held[c][1], last_one |-> held[c][1] # <<>>]
               T == Submissions(partitions)
    <3>1. t \in T /\ queue \in Seq(T) /\ queue' = Append(queue, t)
      BY <2>1, <2>2, <2>5
    <3> HIDE DEF t, T
    <3>2. queue' \in Seq(T)
      BY <3>1
    <3> QED BY <3>2 DEF T
  <2>7. client' \in [Clients -> {"waiting", "building", "pushing", "over"}]
    BY <2>1, <2>2
  <2> QED BY <2>1, <2>2, <2>4, <2>6, <2>7 DEF DriverIntake
<1>10. ASSUME NEW s \in Servers, SendBatchToServer(s) PROVE DriverIntake'
  BY <1>10 DEF SendBatchToServer, DriverIntake, intake
<1>11. CASE UNCHANGED vars
  BY <1>11 DEF vars, intake, execution, DriverIntake
<1> QED BY <1>1, <1>2, <1>3, <1>4, <1>5, <1>6, <1>7, <1>8, <1>9, <1>10, <1>11 DEF Next
\* Where the partitioning p has a block.
Stored(p) == UNION {{<<t, b[1], b[2]>> : b \in Places(p, t)} : t \in Tables}

\* What is loaded is a block for every place.
LEMMA LoadedIs == Loaded = [a \in Stored(partitions) |-> "loaded"]
<1>1. \A t \in Tables : {<<t, b[1], b[2]>> : b \in Blocks(t)}
                          = {<<t, b[1], b[2]>> : b \in Places(partitions, t)}
  BY BlocksArePlaces
<1>2. UNION {{<<t, b[1], b[2]>> : b \in Blocks(t)} : t \in Tables} = Stored(partitions)
  BY <1>1 DEF Stored
<1> QED BY <1>2 DEF Loaded

\* The address of an operation has a block.
LEMMA BuiltIsStored ==
  ASSUME NEW p \in Partitionings, NEW op \in BuiltOps(p)
  PROVE  Address(op) \in Stored(p)
<1>1. PICK t \in Tables : \E b \in Places(p, t) : Address(op) = <<t, b[1], b[2]>>
  BY BuiltOpIs
<1>2. PICK b \in Places(p, t) : Address(op) = <<t, b[1], b[2]>>
  BY <1>1
<1> QED BY <1>2 DEF Stored

\* From then on there are those blocks.
BlocksKept == config # 0 => DOMAIN orams = Stored(partitions)

\* Every step keeps them.
LEMMA BlocksKeptNext ==
  ASSUME BlocksKept, [Next]_vars
  PROVE  BlocksKept'
<1>1. CASE InitTables
  <2>1. orams' = Loaded'
    BY <1>1 DEF InitTables
  <2>2. (Loaded = [a \in Stored(partitions) |-> "loaded"])'
    BY LoadedIs, PTL
  <2> QED BY <2>1, <2>2 DEF BlocksKept
<1>2. CASE UNCHANGED <<config, partitions, orams>>
  BY <1>2 DEF BlocksKept
<1>3. ASSUME NEW s \in Servers, SendBatchToServer(s) PROVE BlocksKept'
  <2>1. UNCHANGED <<config, partitions>> /\ DOMAIN orams' = DOMAIN orams
    BY <1>3 DEF SendBatchToServer
  <2> QED BY <2>1 DEF BlocksKept
<1>4. [Next]_vars => \/ InitTables \/ UNCHANGED <<config, partitions, orams>>
                     \/ \E s \in Servers : SendBatchToServer(s)
  <2>1. OpenWindow => UNCHANGED <<config, partitions, orams>>
    BY DEF OpenWindow, execution
  <2>2. CloseWindow => UNCHANGED <<config, partitions, orams>>
    BY DEF CloseWindow, execution
  <2>3. DrainQueue => UNCHANGED <<config, partitions, orams>>
    BY DEF DrainQueue, execution
  <2>4. BuildBatches => UNCHANGED <<config, partitions, orams>>
    BY DEF BuildBatches
  <2>5. JoinWorkers => UNCHANGED <<config, partitions, orams>>
    BY DEF JoinWorkers
  <2>6. \A c \in Clients : SeeWindow(c) \/ Build(c) \/ Push(c) => UNCHANGED <<config, partitions, orams>>
    BY DEF SeeWindow, Build, Push, execution
  <2>7. UNCHANGED vars => UNCHANGED <<config, partitions, orams>>
    BY DEF vars, execution
  <2> QED BY <2>1, <2>2, <2>3, <2>4, <2>5, <2>6, <2>7 DEF Next
<1> QED BY <1>1, <1>2, <1>3, <1>4

\* They are enough for what clients hold.
LEMMA IntakeHits ==
  ASSUME DriverIntake, BlocksKept
  PROVE  OpsHitRecords
<1> SUFFICES ASSUME NEW c \in Clients, held[c] # <<>>, NEW op \in Range(held[c][1])
             PROVE  /\ op.block[1] \in Tables
                    /\ Tail(op.block) \in Range(PkToOram(op.block[1]))
                    /\ Address(op) = op.block /\ op.block \in DOMAIN orams
  BY DEF OpsHitRecords
<1> DEFINE Q == Seq(BuiltOps(partitions))
<1>1. held[c][1] \in Q
  <2>1. held[c] \in Seq(Q)
    BY DEF DriverIntake
  <2> HIDE DEF Q
  <2> QED BY <2>1
<1>2. op \in BuiltOps(partitions)
  BY <1>1 DEF Range
<1>3. CASE config # 0
  <2>1. partitions \in Partitionings /\ DOMAIN orams = Stored(partitions)
    BY <1>3 DEF DriverIntake, BlocksKept
  <2>2. PICK t \in Tables : \E b \in Mapped(partitions, t) :
          b = <<b[1], b[2]>> /\ op.block = <<t, b[1], b[2]>> /\ Address(op) = op.block
    BY <2>1, <1>2, BuiltOpIs
  <2>3. PICK b \in Mapped(partitions, t) :
          b = <<b[1], b[2]>> /\ op.block = <<t, b[1], b[2]>> /\ Address(op) = op.block
    BY <2>2
  <2>4. op.block[1] = t /\ Tail(op.block) = <<b[1], b[2]>>
    <3>1. \A x, y, z : <<x, y, z>>[1] = x /\ Tail(<<x, y, z>>) = <<y, z>>
      OBVIOUS
    <3> QED BY <2>3, <3>1
  <2>5. Range(PkToOram(t)) = Mapped(partitions, t)
    BY BlocksArePlaces DEF Mapped
  <2>6. Address(op) \in Stored(partitions)
    BY <2>1, <1>2, BuiltIsStored
  <2> QED BY <2>1, <2>3, <2>4, <2>5, <2>6
<1>4. CASE config = 0
  <2>1. held[c] = <<>>
    BY <1>4 DEF DriverIntake
  <2> QED BY <2>1
<1> QED BY <1>3, <1>4
------------------------------------------------------------------------------
(* The abort rule. *)

\* An operation goes to the block it was queued for, and operations are in one version chain
\* exactly when they go to one block.
LEMMA ChainIsBlock ==
  ASSUME NEW p \in Partitionings, NEW tk \in Seq(Submissions(p)),
         NEW o \in Ops(AssignIds(tk, 0, 0))
  PROVE  /\ QueuedFor(tk, o) = Address(o)
         /\ \A q \in Ops(AssignIds(tk, 0, 0)) : o.key = q.key <=> Address(o) = Address(q)
<1>1. ASSUME NEW q \in Ops(AssignIds(tk, 0, 0))
      PROVE  \E x \in BuiltOps(p) : /\ q.key = x.key /\ QueuedFor(tk, q) = x.block
                                    /\ Address(q) = x.block
  <2>1. PICK x \in BuiltOps(p) : q.key = x.key /\ QueuedFor(tk, q) = x.block
    BY IdsOfBuilt
  <2>2. Address(x) = x.block
    BY BuiltOpIs
  <2>3. Address(q) = Address(x)
    BY <2>1 DEF Address
  <2> QED BY <2>1, <2>2, <2>3
<1>2. PICK x \in BuiltOps(p) : o.key = x.key /\ QueuedFor(tk, o) = x.block /\ Address(o) = x.block
  BY <1>1
<1>3. ASSUME NEW q \in Ops(AssignIds(tk, 0, 0)) PROVE o.key = q.key <=> Address(o) = Address(q)
  <2>1. PICK y \in BuiltOps(p) : q.key = y.key /\ Address(q) = y.block
    BY <1>1
  <2>2. x.key = y.key <=> x.block = y.block
    BY KeyIsBlock
  <2> QED BY <1>2, <2>1, <2>2
<1> QED BY <1>2, <1>3

\* The block the model looks up.
LEMMA BlockOfIs == \A op : BlockOf(op) = QueuedFor(taken, op)
BY DEF BlockOf, QueuedFor

\* A transaction is aborted only for an update of a block that a later one reads.
LEMMA AbortsForConflict ==
  ASSUME DriverIntake, phase = "READ"
  PROVE  \A t \in Complete(Txns) : t.ts \notin CommittedHere =>
           \E w \in OpsOf(t), r \in Ops(Txns) :
             IsWrite(w) /\ IsRead(r) /\ w.ts < r.ts /\ BlockOf(w) = BlockOf(r)
<1> DEFINE txns == AssignIds(taken, 0, 0)
<1>1. partitions \in Partitionings /\ taken \in Seq(Submissions(partitions))
  BY DEF DriverIntake
<1>2. WellNumbered(txns)
  BY <1>1, IdsOfBuilt
<1>3. Txns = txns /\ CommittedHere = Committed(txns)
  BY DEF Txns, CommittedHere
<1> HIDE DEF txns
<1>4. /\ \A t \in Range(txns) : \A op \in OpsOf(t) : op.ts = t.ts
      /\ \A t, u \in Range(txns) : t.ts = u.ts => t = u
  BY <1>2, EpochTransactions
<1>5. \A o, q \in Ops(txns) : o.key = q.key => BlockOf(o) = BlockOf(q)
  BY <1>1, ChainIsBlock, BlockOfIs DEF txns
<1>6. ChainedOps(txns) \subseteq Ops(txns) /\ Complete(txns) \subseteq Range(txns)
  BY DEF ChainedOps, Ops, Complete
<1>7. ASSUME NEW t \in Complete(txns), t.ts \notin Committed(txns)
      PROVE  \E w \in OpsOf(t), r \in Ops(txns) :
               IsWrite(w) /\ IsRead(r) /\ w.ts < r.ts /\ BlockOf(w) = BlockOf(r)
  <2>1. t.ts \in VCAbort(ChainedOps(txns))
    BY <1>7 DEF Committed
  <2>2. PICK w \in ChainedOps(txns) :
          /\ w.ts = t.ts /\ w.type = "UPDATE"
          /\ \E r \in ChainedOps(txns) : IsRead(r) /\ SameChain(w, r) /\ w.ts < r.ts
    BY <2>1 DEF VCAbort
  <2>3. PICK r \in ChainedOps(txns) : IsRead(r) /\ SameChain(w, r) /\ w.ts < r.ts
    BY <2>2
  <2>4. PICK u \in Complete(txns) : w \in OpsOf(u)
    BY <2>2 DEF ChainedOps
  <2>5. u = t
    BY <2>2, <2>4, <1>4, <1>6
  <2>6. BlockOf(w) = BlockOf(r) /\ IsWrite(w)
    BY <2>2, <2>3, <1>5, <1>6 DEF SameChain, IsWrite
  <2> QED BY <2>3, <2>4, <2>5, <2>6, <1>6
<1> QED BY <1>3, <1>7
------------------------------------------------------------------------------
(* The operations that are left, and where they write. *)

Left(tk) == Survivors(AssignIds(tk, 0, 0))
WritesAt(tk, a) == {op \in Left(tk) : op.type = "UPDATE" /\ Address(op) = a}
Final(tk, a) == LastWritten(WritesAt(tk, a), "loaded")

\* They are the operations of the committed transactions: reads and updates, each on a block.
LEMMA LeftIs ==
  ASSUME NEW p \in Partitionings, NEW tk \in Seq(Submissions(p))
  PROVE  /\ Left(tk) = {op \in Ops(AssignIds(tk, 0, 0)) : op.ts \in Committed(AssignIds(tk, 0, 0))}
         /\ Numbered(Left(tk))
         /\ \A op \in Left(tk) :
              /\ op \in Ops(AssignIds(tk, 0, 0))
              /\ op.type \in {"READ", "UPDATE"} /\ Address(op) \in Stored(p)
              /\ op.goid \in Nat /\ op.ts \in Nat /\ op.ts < Len(tk)
<1> DEFINE txns == AssignIds(tk, 0, 0)
<1>1. WellNumbered(txns)
  BY IdsOfBuilt
<1>2. /\ Left(tk) = {op \in Ops(txns) : op.ts \in Committed(txns)}
      /\ Numbered(Left(tk))
  BY <1>1, SurvivorsAreCommitted DEF Left
<1>3. ASSUME NEW op \in Left(tk)
      PROVE  /\ op \in Ops(txns)
             /\ op.type \in {"READ", "UPDATE"} /\ Address(op) \in Stored(p)
             /\ op.goid \in Nat /\ op.ts \in Nat /\ op.ts < Len(tk)
  <2>1. op \in Ops(txns)
    BY <1>2
  <2>2. PICK o \in BuiltOps(p) : op.type = o.type /\ op.key = o.key
    BY <2>1, IdsOfBuilt
  <2>3. o.type \in {"READ", "UPDATE"} /\ Address(o) \in Stored(p)
    BY BuiltOpIs, BuiltIsStored
  <2>4. Address(op) = Address(o)
    BY <2>2 DEF Address
  <2>5. op.goid \in Nat /\ op.ts \in Nat
    BY <1>2 DEF Numbered, NumberedOps
  <2>6. PICK i \in DOMAIN txns : op \in OpsOf(txns[i])
    BY <2>1 DEF Ops, Range
  <2>7. txns[i] \in Range(txns) /\ txns[i].ts = i - 1
    BY <1>1 DEF WellNumbered, Range
  <2>8. op.ts = i - 1
    BY <1>1, <2>6, <2>7, EpochTransactions
  <2>9. i \in 1 .. Len(tk)
    BY DEF AssignIds
  <2> QED BY <2>1, <2>2, <2>3, <2>4, <2>5, <2>8, <2>9
<1> QED BY <1>2, <1>3

\* The last update of an address in chain order is the last one written.
LEMMA LastInIsLast ==
  ASSUME NEW p \in Partitionings, NEW tk \in Seq(Submissions(p)), NEW a,
         WritesAt(tk, a) # {}
  PROVE  LastIn(WritesAt(tk, a)).val = Final(tk, a)
<1> DEFINE W == WritesAt(tk, a)
<1>1. W \subseteq Left(tk)
  BY DEF WritesAt
<1>2. Numbered(W)
  BY <1>1, LeftIs, SubsetIsNumbered
<1>3. Latest(W) \in W /\ \A o \in W : o.goid <= Latest(W).goid
  BY <1>2, FirstAndLatest
<1>4. Final(tk, a) = Latest(W).val
  BY <1>2, LastWrittenIsLatest DEF Final
<1>5. \A o, q \in W : o.key = q.key
  <2> SUFFICES ASSUME NEW o \in W, NEW q \in W PROVE o.key = q.key
    OBVIOUS
  <2>1. Address(o) = Address(q)
    BY DEF WritesAt
  <2>2. o \in Ops(AssignIds(tk, 0, 0)) /\ q \in Ops(AssignIds(tk, 0, 0))
    BY <1>1, LeftIs
  <2> QED BY <2>1, <2>2, ChainIsBlock
<1>6. \A o \in W : o.key[1] \in Nat /\ o.key[2] \in Nat /\ o.goid \in Nat
  <2> SUFFICES ASSUME NEW o \in W PROVE o.key[1] \in Nat /\ o.key[2] \in Nat /\ o.goid \in Nat
    OBVIOUS
  <2>1. o \in Ops(AssignIds(tk, 0, 0)) /\ o.goid \in Nat
    BY <1>1, LeftIs
  <2>2. PICK x \in BuiltOps(p) : o.key = x.key
    BY <2>1, IdsOfBuilt
  <2>3. PICK t \in Tables : \E b \in Places(p, t) : x.key = <<b[1], PackKey(t, b[2])>>
    BY BuiltOpIs
  <2>4. PICK b \in Places(p, t) : x.key = <<b[1], PackKey(t, b[2])>>
    BY <2>3
  <2>5. b[1] \in Nat /\ b[2] \in 0 .. Shift - 1
    BY PlaceIndices
  <2>6. PackKey(t, b[2]) \in Nat
    BY <2>5, Unpacked
  <2> QED BY <2>1, <2>2, <2>4, <2>5, <2>6
<1> HIDE DEF W
<1>7. \A o, q \in W : ChainOrder(o, q) <=> o.goid < q.goid
  BY <1>5, <1>6 DEF ChainOrder
<1>8. \A o, q \in W : o.goid = q.goid => o = q
  BY <1>2 DEF Numbered
<1> DEFINE l == Latest(W)
<1>9. l \in W /\ \A o \in W : o = l \/ ChainOrder(o, l)
  BY <1>3, <1>6, <1>7, <1>8
<1>10. \A o \in W : (\A q \in W : q = o \/ ChainOrder(q, o)) => o = l
  BY <1>3, <1>6, <1>7, <1>8
<1>11. LastIn(W) = l
  <2> HIDE DEF l
  <2> QED BY <1>9, <1>10 DEF LastIn
<1> QED BY <1>4, <1>11 DEF W

\* An operation is in the batch of its address; the batch of a server without a partition
\* of the table is empty.
LEMMA BatchIs ==
  ASSUME NEW p \in Partitionings, NEW tk \in Seq(Submissions(p)),
         NEW type, NEW t \in Tables, NEW s \in Servers
  PROVE  /\ \A op \in BatchOf(Left(tk), type, t, s) :
              op \in Left(tk) /\ op.type = type /\ Address(op)[1] = t /\ Address(op)[2] = s
         /\ \A op \in Left(tk) :
              op.type = type /\ Address(op)[1] = t /\ Address(op)[2] = s
                => op \in BatchOf(Left(tk), type, t, s)
         /\ ~ (s < Len(p[t])) => BatchOf(Left(tk), type, t, s) = {}
<1>1. \A op : Address(op)[1] = UnpackTable(op.key[2]) /\ Address(op)[2] = op.key[1]
  BY DEF Address
<1>2. \A op : op \in BatchOf(Left(tk), type, t, s) <=>
                op \in Left(tk) /\ op.type = type /\ Address(op)[1] = t /\ Address(op)[2] = s
  BY <1>1 DEF BatchOf
<1>3. ASSUME NEW op \in BatchOf(Left(tk), type, t, s) PROVE s < Len(p[t])
  <2>1. Address(op) \in Stored(p) /\ Address(op)[1] = t /\ Address(op)[2] = s
    BY <1>2, LeftIs
  <2>2. PICK u \in Tables : \E b \in Places(p, u) : Address(op) = <<u, b[1], b[2]>>
    BY <2>1 DEF Stored
  <2>3. PICK b \in Places(p, u) : Address(op) = <<u, b[1], b[2]>>
    BY <2>2
  <2>4. u = t /\ b[1] = s
    BY <2>1, <2>3
  <2> QED BY <2>4 DEF Places
<1> QED BY <1>2, <1>3
------------------------------------------------------------------------------
(* Execution: what the batches that are left, the blocks and the results say of each other. *)

Full(tk, type, t, s) == BatchOf(Left(tk), type, t, s)

\* Before the batches are built, the blocks are as loaded and nothing is read.
DriverBefore ==
  phase \in {"started", "window", "joining"} =>
    results = <<>> /\ \A a \in DOMAIN orams : orams[a] = "loaded"

\* Then a batch is all there or executed; the blocks of an executed batch of updates have
\* what was last written to them; reads return what was loaded, and each is in its batch
\* or has its result; the tables before the present one are through, and with them each
\* phase when the next begins.
Executing(tk, or, bs, rs) ==
  /\ DOMAIN bs = {"READ", "UPDATE"} \X Tables \X Servers
  /\ \A y \in {"READ", "UPDATE"}, t \in Tables, s \in Servers :
       bs[<<y, t, s>>] = {} \/ bs[<<y, t, s>>] = Full(tk, y, t, s)
  /\ \A a \in DOMAIN or :
       or[a] = IF bs[<<"UPDATE", a[1], a[2]>>] = {} THEN Final(tk, a) ELSE "loaded"
  /\ \A g \in DOMAIN rs : rs[g] = "loaded"
  /\ \A op \in Left(tk) : IsRead(op) =>
       op.goid \in DOMAIN rs \/ op \in bs[<<"READ", Address(op)[1], Address(op)[2]>>]
Through(bs, y, t) == \A s \in Servers : bs[<<y, t, s>>] = {}
InPhase(tk, bs, ph, tb) ==
  /\ tb \in Tables
  /\ ph = "READ" => \A t \in Tables, s \in Servers : bs[<<"UPDATE", t, s>>] = Full(tk, "UPDATE", t, s)
  /\ ph # "READ" => \A t \in Tables : Through(bs, "READ", t)
  /\ ph = "over" => \A t \in Tables : Through(bs, "UPDATE", t)
  /\ ph # "over" => \A t \in Tables : t < tb => Through(bs, ph, t)
DriverDuring ==
  phase \in {"READ", "UPDATE"} \/ (phase = "over" /\ config # 0) =>
    Executing(taken, orams, batches, results) /\ InPhase(taken, batches, phase, table)

\* An address of a block is a table, a server and a block.
LEMMA StoredIs ==
  ASSUME NEW p \in Partitionings, NEW a \in Stored(p)
  PROVE  /\ a[1] \in Tables /\ a[2] \in Servers
         /\ \E b \in Places(p, a[1]) : a = <<a[1], b[1], b[2]>>
<1>1. PICK t \in Tables : \E b \in Places(p, t) : a = <<t, b[1], b[2]>>
  BY DEF Stored
<1>2. PICK b \in Places(p, t) : a = <<t, b[1], b[2]>>
  BY <1>1
<1>3. b[1] \in Servers
  BY PlaceIndices
<1> QED BY <1>2, <1>3

\* A batch without operations has no updates of an address in it.
LEMMA NoUpdates ==
  ASSUME NEW p \in Partitionings, NEW tk \in Seq(Submissions(p)), NEW a \in Stored(p),
         Full(tk, "UPDATE", a[1], a[2]) = {}
  PROVE  WritesAt(tk, a) = {} /\ Final(tk, a) = "loaded"
<1>1. a[1] \in Tables /\ a[2] \in Servers
  BY StoredIs
<1>2. \A op \in Left(tk) :
        op.type = "UPDATE" /\ Address(op)[1] = a[1] /\ Address(op)[2] = a[2]
          => op \in BatchOf(Left(tk), "UPDATE", a[1], a[2])
  BY <1>1, BatchIs
<1>3. WritesAt(tk, a) = {}
  BY <1>2 DEF WritesAt, Full
<1> QED BY <1>3 DEF Final, LastWritten

\* The batches are built.
LEMMA BuildBatchesSafe ==
  ASSUME DriverIntake, BlocksKept, DriverBefore, BuildBatches
  PROVE  DriverDuring'
<1>1. /\ phase = "joining" /\ phase' = "READ" /\ table' = 0
      /\ batches' = [b \in {"READ", "UPDATE"} \X Tables \X Servers |->
                       BatchOf(Survivors(Txns), b[1], b[2], b[3])]
      /\ UNCHANGED <<config, partitions, taken, orams, results>>
  BY DEF BuildBatches, intake
<1>2. /\ partitions \in Partitionings /\ taken \in Seq(Submissions(partitions))
      /\ DOMAIN orams = Stored(partitions)
  BY <1>1 DEF DriverIntake, BlocksKept
<1>3. results = <<>> /\ \A a \in DOMAIN orams : orams[a] = "loaded"
  BY <1>1 DEF DriverBefore
<1>4. /\ DOMAIN batches' = {"READ", "UPDATE"} \X Tables \X Servers
      /\ \A y \in {"READ", "UPDATE"}, t \in Tables, s \in Servers :
           batches'[<<y, t, s>>] = Full(taken, y, t, s)
  BY <1>1 DEF Full, Left, Txns
<1>5. \A a \in DOMAIN orams :
        orams[a] = IF batches'[<<"UPDATE", a[1], a[2]>>] = {} THEN Final(taken, a) ELSE "loaded"
  <2> SUFFICES ASSUME NEW a \in Stored(partitions)
               PROVE  batches'[<<"UPDATE", a[1], a[2]>>] = {} => Final(taken, a) = "loaded"
    BY <1>2, <1>3
  <2>1. a[1] \in Tables /\ a[2] \in Servers
    BY <1>2, StoredIs
  <2>2. batches'[<<"UPDATE", a[1], a[2]>>] = Full(taken, "UPDATE", a[1], a[2])
    BY <1>4, <2>1
  <2> QED BY <1>2, <2>2, NoUpdates
<1>6. ASSUME NEW op \in Left(taken), IsRead(op)
      PROVE  op \in batches'[<<"READ", Address(op)[1], Address(op)[2]>>]
  <2>1. Address(op) \in Stored(partitions)
    BY <1>2, LeftIs
  <2>2. Address(op)[1] \in Tables /\ Address(op)[2] \in Servers
    BY <1>2, <2>1, StoredIs
  <2>3. op \in Full(taken, "READ", Address(op)[1], Address(op)[2])
    BY <1>2, <1>6, <2>2, BatchIs DEF Full, IsRead
  <2> QED BY <1>4, <2>2, <2>3
<1>7. Executing(taken, orams, batches', results)
  BY <1>3, <1>4, <1>5, <1>6 DEF Executing
<1>8. InPhase(taken, batches', "READ", 0)
  BY <1>4 DEF InPhase, Tables
<1> QED BY <1>1, <1>7, <1>8 DEF DriverDuring

\* A child executes the reads of its batch: the blocks are still as loaded.
LEMMA ReadBatchSafe ==
  ASSUME DriverIntake, BlocksKept, DriverDuring, phase = "READ",
         NEW s \in Servers, SendBatchToServer(s)
  PROVE  DriverDuring'
<1> DEFINE b == <<"READ", table, s>>
<1>1. /\ batches[b] # {} /\ batches' = [batches EXCEPT ![b] = {}]
      /\ results' = [g \in DOMAIN results \cup {op.goid : op \in batches[b]} |->
                       IF g \in DOMAIN results THEN results[g]
                       ELSE orams[Address(CHOOSE op \in batches[b] : op.goid = g)]]
      /\ UNCHANGED <<config, partitions, taken, orams, phase, table>>
  BY DEF SendBatchToServer, intake
<1>2. /\ partitions \in Partitionings /\ taken \in Seq(Submissions(partitions))
      /\ DOMAIN orams = Stored(partitions)
  BY DEF DriverIntake, BlocksKept
<1>3. Executing(taken, orams, batches, results) /\ InPhase(taken, batches, "READ", table)
  BY DEF DriverDuring
<1>4. /\ b \in DOMAIN batches /\ table \in Tables /\ batches[b] = Full(taken, "READ", table, s)
      /\ \A x \in DOMAIN batches : x # b => batches'[x] = batches[x]
      /\ batches'[b] = {} /\ DOMAIN batches' = DOMAIN batches
  BY <1>1, <1>3 DEF Executing, InPhase
<1>5. \A y \in {"READ", "UPDATE"}, t \in Tables, u \in Servers :
        IF <<y, t, u>> = b THEN batches'[<<y, t, u>>] = {}
        ELSE batches'[<<y, t, u>>] = batches[<<y, t, u>>]
  BY <1>3, <1>4 DEF Executing
<1>6. \A a \in Stored(partitions) : orams[a] = "loaded"
  <2> SUFFICES ASSUME NEW a \in Stored(partitions) PROVE orams[a] = "loaded"
    OBVIOUS
  <2>1. a[1] \in Tables /\ a[2] \in Servers
    BY <1>2, StoredIs
  <2>2. batches[<<"UPDATE", a[1], a[2]>>] = Full(taken, "UPDATE", a[1], a[2])
    BY <1>3, <2>1 DEF InPhase
  <2>3. orams[a] = IF batches[<<"UPDATE", a[1], a[2]>>] = {} THEN Final(taken, a) ELSE "loaded"
    BY <1>2, <1>3 DEF Executing
  <2> QED BY <1>2, <2>2, <2>3, NoUpdates
<1>7. \A op \in batches[b] : op \in Left(taken) /\ op.type = "READ"
                               /\ Address(op) \in Stored(partitions)
                               /\ Address(op)[1] = table /\ Address(op)[2] = s
  BY <1>2, <1>4, BatchIs, LeftIs DEF Full
<1>8. \A g \in DOMAIN results' : results'[g] = "loaded"
  <2> SUFFICES ASSUME NEW g \in DOMAIN results' PROVE results'[g] = "loaded"
    OBVIOUS
  <2>1. CASE g \in DOMAIN results
    BY <1>1, <1>3, <2>1 DEF Executing
  <2>2. CASE g \notin DOMAIN results
    <3>1. \E op \in batches[b] : op.goid = g
      BY <1>1, <2>2
    <3> DEFINE o == CHOOSE op \in batches[b] : op.goid = g
    <3>2. o \in batches[b]
      BY <3>1
    <3>3. Address(o) \in Stored(partitions)
      BY <1>7, <3>2
    <3>4. results'[g] = orams[Address(o)]
      BY <1>1, <2>2
    <3> QED BY <1>6, <3>3, <3>4
  <2> QED BY <2>1, <2>2
<1>9. ASSUME NEW op \in Left(taken), IsRead(op)
      PROVE  op.goid \in DOMAIN results' \/ op \in batches'[<<"READ", Address(op)[1], Address(op)[2]>>]
  <2>1. op.goid \in DOMAIN results \/ op \in batches[<<"READ", Address(op)[1], Address(op)[2]>>]
    BY <1>3, <1>9 DEF Executing
  <2>2. Address(op)[1] \in Tables /\ Address(op)[2] \in Servers
    BY <1>2, LeftIs, StoredIs
  <2>3. CASE op.goid \in DOMAIN results
    BY <1>1, <2>3
  <2>4. CASE op \in batches[<<"READ", Address(op)[1], Address(op)[2]>>]
                /\ <<"READ", Address(op)[1], Address(op)[2]>> = b
    BY <1>1, <2>4
  <2>5. CASE op \in batches[<<"READ", Address(op)[1], Address(op)[2]>>]
                /\ <<"READ", Address(op)[1], Address(op)[2]>> # b
    BY <1>5, <2>2, <2>5
  <2> QED BY <2>1, <2>3, <2>4, <2>5
<1>10. \A t \in Tables, u \in Servers : batches'[<<"UPDATE", t, u>>] = batches[<<"UPDATE", t, u>>]
  BY <1>5
<1>11. \A a \in DOMAIN orams :
        orams[a] = IF batches'[<<"UPDATE", a[1], a[2]>>] = {} THEN Final(taken, a) ELSE "loaded"
  BY <1>2, <1>3, <1>10, StoredIs DEF Executing
<1>12. \A y \in {"READ", "UPDATE"}, t \in Tables, u \in Servers :
         batches'[<<y, t, u>>] = {} \/ batches'[<<y, t, u>>] = Full(taken, y, t, u)
  BY <1>3, <1>5 DEF Executing
<1>13. DOMAIN batches' = {"READ", "UPDATE"} \X Tables \X Servers
  BY <1>3, <1>4 DEF Executing
<1>14. Executing(taken, orams, batches', results')
  BY <1>8, <1>9, <1>11, <1>12, <1>13 DEF Executing
<1>15. InPhase(taken, batches', "READ", table)
  <2>1. \A t \in Tables : t < table => Through(batches', "READ", t)
    BY <1>3, <1>5 DEF InPhase, Through
  <2>2. \A t \in Tables, u \in Servers : batches'[<<"UPDATE", t, u>>] = Full(taken, "UPDATE", t, u)
    BY <1>3, <1>10 DEF InPhase
  <2> QED BY <1>4, <2>1, <2>2 DEF InPhase
<1> QED BY <1>1, <1>14, <1>15 DEF DriverDuring
\* A child executes the updates of its batch: each block it writes has what the last one
\* wrote, and the others stay.
LEMMA UpdateBatchSafe ==
  ASSUME DriverIntake, BlocksKept, DriverDuring, phase = "UPDATE",
         NEW s \in Servers, SendBatchToServer(s)
  PROVE  DriverDuring'
<1> DEFINE b == <<"UPDATE", table, s>>
           At(a) == {op \in batches[b] : Address(op) = a}
<1>1. /\ batches[b] # {} /\ batches' = [batches EXCEPT ![b] = {}]
      /\ orams' = [a \in DOMAIN orams |-> IF At(a) = {} THEN orams[a] ELSE LastIn(At(a)).val]
      /\ UNCHANGED <<config, partitions, taken, results, phase, table>>
  BY DEF SendBatchToServer, intake
<1> HIDE DEF At
<1>2. /\ partitions \in Partitionings /\ taken \in Seq(Submissions(partitions))
      /\ DOMAIN orams = Stored(partitions)
  BY DEF DriverIntake, BlocksKept
<1>3. Executing(taken, orams, batches, results) /\ InPhase(taken, batches, "UPDATE", table)
  BY DEF DriverDuring
<1>4. /\ b \in DOMAIN batches /\ table \in Tables /\ batches[b] = Full(taken, "UPDATE", table, s)
      /\ \A x \in DOMAIN batches : x # b => batches'[x] = batches[x]
      /\ batches'[b] = {} /\ DOMAIN batches' = DOMAIN batches
  BY <1>1, <1>3 DEF Executing, InPhase
<1>5. \A y \in {"READ", "UPDATE"}, t \in Tables, u \in Servers :
        IF <<y, t, u>> = b THEN batches'[<<y, t, u>>] = {}
        ELSE batches'[<<y, t, u>>] = batches[<<y, t, u>>]
  BY <1>3, <1>4 DEF Executing
<1>6. \A op : op \in batches[b] <=> op \in Left(taken) /\ op.type = "UPDATE"
                                     /\ Address(op)[1] = table /\ Address(op)[2] = s
  BY <1>2, <1>4, BatchIs DEF Full
<1>7. ASSUME NEW a \in Stored(partitions)
      PROVE  orams'[a] = IF batches'[<<"UPDATE", a[1], a[2]>>] = {} THEN Final(taken, a) ELSE "loaded"
  <2>1. a[1] \in Tables /\ a[2] \in Servers
    BY <1>2, StoredIs
  <2>2. orams[a] = IF batches[<<"UPDATE", a[1], a[2]>>] = {} THEN Final(taken, a) ELSE "loaded"
    BY <1>2, <1>3 DEF Executing
  <2>3. orams'[a] = IF At(a) = {} THEN orams[a] ELSE LastIn(At(a)).val
    BY <1>1, <1>2
  <2>4. CASE a[1] = table /\ a[2] = s
    <3>1. At(a) = WritesAt(taken, a)
      BY <1>6, <2>4 DEF At, WritesAt
    <3>2. batches'[<<"UPDATE", a[1], a[2]>>] = {} /\ orams[a] = "loaded"
      BY <1>1, <1>4, <2>2, <2>4
    <3>3. CASE WritesAt(taken, a) = {}
      BY <2>3, <3>1, <3>2, <3>3 DEF Final, LastWritten
    <3>4. CASE WritesAt(taken, a) # {}
      <4>1. LastIn(WritesAt(taken, a)).val = Final(taken, a)
        BY <1>2, <3>4, LastInIsLast
      <4> QED BY <2>3, <3>1, <3>2, <3>4, <4>1
    <3> QED BY <3>3, <3>4
  <2>5. CASE ~ (a[1] = table /\ a[2] = s)
    <3>1. At(a) = {}
      BY <1>6, <2>5 DEF At
    <3>2. batches'[<<"UPDATE", a[1], a[2]>>] = batches[<<"UPDATE", a[1], a[2]>>]
      BY <1>5, <2>1, <2>5
    <3> QED BY <2>2, <2>3, <3>1, <3>2
  <2> QED BY <2>4, <2>5
<1>8. \A t \in Tables, u \in Servers : batches'[<<"READ", t, u>>] = batches[<<"READ", t, u>>]
  BY <1>5
<1>9. ASSUME NEW op \in Left(taken), IsRead(op)
      PROVE  op.goid \in DOMAIN results \/ op \in batches'[<<"READ", Address(op)[1], Address(op)[2]>>]
  <2>1. Address(op)[1] \in Tables /\ Address(op)[2] \in Servers
    BY <1>2, LeftIs, StoredIs
  <2> QED BY <1>3, <1>8, <1>9, <2>1 DEF Executing
<1>10. \A y \in {"READ", "UPDATE"}, t \in Tables, u \in Servers :
         batches'[<<y, t, u>>] = {} \/ batches'[<<y, t, u>>] = Full(taken, y, t, u)
  BY <1>3, <1>5 DEF Executing
<1>11. DOMAIN batches' = {"READ", "UPDATE"} \X Tables \X Servers /\ DOMAIN orams' = Stored(partitions)
  BY <1>1, <1>2, <1>3, <1>4 DEF Executing
<1>12. Executing(taken, orams', batches', results)
  BY <1>3, <1>7, <1>9, <1>10, <1>11 DEF Executing
<1>13. InPhase(taken, batches', "UPDATE", table)
  <2>1. \A t \in Tables : t < table => Through(batches', "UPDATE", t)
    BY <1>3, <1>5 DEF InPhase, Through
  <2>2. \A t \in Tables : Through(batches', "READ", t)
    BY <1>3, <1>8 DEF InPhase, Through
  <2> QED BY <1>4, <2>1, <2>2 DEF InPhase
<1> QED BY <1>1, <1>12, <1>13 DEF DriverDuring

\* The least of a set of tables.
LEMMA LeastTable ==
  ASSUME NEW S \in SUBSET Tables, S # {}
  PROVE  Min(S) \in S /\ \A t \in S : Min(S) <= t
<1>1. S \in SUBSET Nat
  BY DEF Tables
<1>2. \E m \in S : \A t \in S : m <= t
  BY <1>1, LeastNatural
<1> QED BY <1>2 DEF Min

\* The threads of a table are joined: the next table with a batch follows, or the next phase.
LEMMA JoinSafe ==
  ASSUME DriverIntake, DriverDuring, JoinWorkers
  PROVE  DriverDuring'
<1> DEFINE later == {t \in Tables : t > table /\ \E s \in Servers : batches[<<phase, t, s>>] # {}}
<1>1. /\ phase \in {"READ", "UPDATE"}
      /\ \A s \in Workers : batches[<<phase, table, s>>] = {}
      /\ IF later # {} THEN table' = Min(later) /\ phase' = phase
                       ELSE table' = 0 /\ phase' = NextPhase(phase)
      /\ UNCHANGED <<config, partitions, taken, orams, batches, results>>
  BY DEF JoinWorkers, intake
<1>2. partitions \in Partitionings /\ taken \in Seq(Submissions(partitions)) /\ config # 0
  BY <1>1 DEF DriverIntake
<1>3. Executing(taken, orams, batches, results) /\ InPhase(taken, batches, phase, table)
  BY <1>1 DEF DriverDuring
<1>4. table \in Tables /\ Through(batches, phase, table)
  <2>1. table \in Tables
    BY <1>3 DEF InPhase
  <2>2. ASSUME NEW s \in Servers PROVE batches[<<phase, table, s>>] = {}
    <3>1. CASE s < Len(partitions[table])
      BY <1>1, <3>1 DEF Workers
    <3>2. CASE ~ (s < Len(partitions[table]))
      <4>1. Full(taken, phase, table, s) = {}
        BY <1>2, <2>1, <3>2, BatchIs DEF Full
      <4> QED BY <1>1, <1>3, <2>1, <4>1 DEF Executing
    <3> QED BY <3>1, <3>2
  <2> QED BY <2>1, <2>2 DEF Through
<1>5. \A t \in Tables : t \notin later /\ table < t => Through(batches, phase, t)
  BY DEF Through
<1>6. \A t \in Tables : t < table \/ t = table => Through(batches, phase, t)
  BY <1>1, <1>3, <1>4 DEF InPhase
<1>7. \A t \in Tables : t \in Nat
  BY DEF Tables
<1> HIDE DEF later
<1>8. CASE later # {}
  <2>1. later \subseteq Tables
    BY DEF later
  <2>2. Min(later) \in Tables /\ \A t \in later : Min(later) <= t
    BY <1>8, <2>1, LeastTable
  <2>3. PICK m \in Tables : m = Min(later)
    BY <2>2
  <2>4. \A t \in Tables : t < m => Through(batches, phase, t)
    <3> SUFFICES ASSUME NEW t \in Tables, t < m PROVE Through(batches, phase, t)
      OBVIOUS
    <3>1. t \notin later
      BY <1>7, <2>2, <2>3
    <3>2. t < table \/ t = table \/ table < t
      BY <1>4, <1>7
    <3> QED BY <1>5, <1>6, <3>1, <3>2
  <2>5. table' = m /\ phase' = phase
    BY <1>1, <1>8, <2>3
  <2>6. InPhase(taken, batches, phase, m)
    BY <1>1, <1>3, <2>4 DEF InPhase
  <2> QED BY <1>1, <1>3, <2>5, <2>6 DEF DriverDuring
<1>9. CASE later = {}
  <2>1. \A t \in Tables : Through(batches, phase, t)
    <3> SUFFICES ASSUME NEW t \in Tables PROVE Through(batches, phase, t)
      OBVIOUS
    <3>1. t < table \/ t = table \/ table < t
      BY <1>4, <1>7
    <3> QED BY <1>5, <1>6, <1>9, <3>1
  <2>2. table' = 0 /\ phase' = NextPhase(phase)
    BY <1>1, <1>9
  <2>3. 0 \in Tables /\ \A t \in Tables : ~ (t < 0)
    BY DEF Tables
  <2>4. CASE phase = "READ"
    <3>1. phase' = "UPDATE"
      BY <2>2, <2>4 DEF NextPhase
    <3>2. InPhase(taken, batches, "UPDATE", 0)
      BY <2>1, <2>3, <2>4 DEF InPhase
    <3> QED BY <1>1, <1>3, <2>2, <3>1, <3>2 DEF DriverDuring
  <2>5. CASE phase = "UPDATE"
    <3>1. phase' = "over"
      BY <2>2, <2>5 DEF NextPhase
    <3>2. InPhase(taken, batches, "over", 0)
      BY <1>3, <2>1, <2>3, <2>5 DEF InPhase
    <3> QED BY <1>1, <1>3, <2>2, <3>1, <3>2 DEF DriverDuring
  <2> QED BY <1>1, <2>4, <2>5
<1> QED BY <1>8, <1>9
\* Every step.
LEMMA ExecutionNext ==
  ASSUME DriverIntake, BlocksKept, DriverBefore, DriverDuring, [Next]_vars
  PROVE  DriverBefore' /\ DriverDuring'
<1>1. CASE InitTables
  <2>1. orams' = Loaded' /\ results' = <<>> /\ phase' = "started"
    BY <1>1 DEF InitTables
  <2>2. (Loaded = [a \in Stored(partitions) |-> "loaded"])'
    BY LoadedIs, PTL
  <2> QED BY <2>1, <2>2 DEF DriverBefore, DriverDuring
<1>2. CASE OpenWindow
  BY <1>2 DEF OpenWindow, execution, DriverBefore, DriverDuring
<1>3. CASE CloseWindow
  BY <1>3 DEF CloseWindow, execution, DriverBefore, DriverDuring
<1>4. CASE DrainQueue
  BY <1>4 DEF DrainQueue, execution, DriverBefore, DriverDuring
<1>5. CASE BuildBatches
  <2>1. DriverBefore'
    BY <1>5 DEF BuildBatches, DriverBefore
  <2> QED BY <2>1, <1>5, BuildBatchesSafe
<1>6. CASE JoinWorkers
  <2>1. phase' \in {"READ", "UPDATE", "over"}
    BY <1>6 DEF JoinWorkers, NextPhase
  <2>2. DriverBefore'
    BY <2>1 DEF DriverBefore
  <2> QED BY <2>2, <1>6, JoinSafe
<1>7. ASSUME NEW c \in Clients, SeeWindow(c) \/ Build(c) \/ Push(c)
      PROVE  DriverBefore' /\ DriverDuring'
  <2>1. UNCHANGED <<config, phase, taken, execution>>
    BY <1>7 DEF SeeWindow, Build, Push
  <2> QED BY <2>1 DEF execution, DriverBefore, DriverDuring
<1>8. ASSUME NEW s \in Servers, SendBatchToServer(s) PROVE DriverBefore' /\ DriverDuring'
  <2>1. phase' = phase /\ phase \in {"READ", "UPDATE"}
    BY <1>8 DEF SendBatchToServer
  <2>2. DriverBefore'
    BY <2>1 DEF DriverBefore
  <2> QED BY <2>1, <2>2, <1>8, ReadBatchSafe, UpdateBatchSafe
<1>9. CASE UNCHANGED vars
  BY <1>9 DEF vars, execution, DriverBefore, DriverDuring
<1> QED BY <1>1, <1>2, <1>3, <1>4, <1>5, <1>6, <1>7, <1>8, <1>9 DEF Next

\* When the epoch is over, it is as if its transactions had run one after another.
LEMMA OverIsSerial ==
  ASSUME DriverIntake, BlocksKept, DriverDuring
  PROVE  EpochIsSerial
<1> DEFINE txns == AssignIds(taken, 0, 0)
           ops == {op \in Ops(Txns) : op.ts \in CommittedHere}
           written(block, ts) == {w \in ops : IsWrite(w) /\ BlockOf(w) = block /\ w.ts < ts}
<1> SUFFICES ASSUME phase = "over", config > 0
             PROVE  /\ \A a \in DOMAIN orams :
                         orams[a] = LastWritten(written(a, Len(taken)), "loaded")
                    /\ \A r \in ops : IsRead(r) =>
                         results[r.goid] = LastWritten(written(BlockOf(r), r.ts), "loaded")
  BY DEF EpochIsSerial
<1>1. config # 0
  BY DEF DriverIntake
<1>2. /\ partitions \in Partitionings /\ taken \in Seq(Submissions(partitions))
      /\ DOMAIN orams = Stored(partitions)
  BY <1>1 DEF DriverIntake, BlocksKept
<1>3. Executing(taken, orams, batches, results) /\ InPhase(taken, batches, "over", table)
  BY <1>1 DEF DriverDuring
<1>4. ops = Left(taken)
  BY <1>2, LeftIs DEF Txns, CommittedHere
<1>5. \A op \in Left(taken) :
        /\ op \in Ops(txns) /\ op.ts < Len(taken)
        /\ IsWrite(op) <=> op.type = "UPDATE"
        /\ BlockOf(op) = Address(op) /\ Address(op) \in Stored(partitions)
  BY <1>2, LeftIs, BlockOfIs, ChainIsBlock DEF IsWrite
<1> HIDE DEF ops
<1>6. ASSUME NEW a \in Stored(partitions)
      PROVE  orams[a] = LastWritten(written(a, Len(taken)), "loaded")
  <2>3. written(a, Len(taken)) = WritesAt(taken, a)
    BY <1>4, <1>5 DEF WritesAt
  <2>4. a[1] \in Tables /\ a[2] \in Servers
    BY <1>2, StoredIs
  <2>5. batches[<<"UPDATE", a[1], a[2]>>] = {}
    BY <1>3, <2>4 DEF InPhase, Through
  <2>6. orams[a] = Final(taken, a)
    BY <1>2, <1>3, <2>5 DEF Executing
  <2> QED BY <2>3, <2>6 DEF Final
<1>7. ASSUME NEW r \in ops, IsRead(r)
      PROVE  results[r.goid] = LastWritten(written(BlockOf(r), r.ts), "loaded")
  <2>1. r \in Left(taken)
    BY <1>4
  <2>2. Address(r)[1] \in Tables /\ Address(r)[2] \in Servers
    BY <1>2, <1>5, <2>1, StoredIs
  <2>3. batches[<<"READ", Address(r)[1], Address(r)[2]>>] = {}
    BY <1>3, <2>2 DEF InPhase, Through
  <2>4. r.goid \in DOMAIN results
    BY <1>3, <1>7, <2>1, <2>3 DEF Executing
  <2>5. results[r.goid] = "loaded"
    BY <1>3, <2>4 DEF Executing
  <2>6. ASSUME NEW w \in ops, IsWrite(w), BlockOf(w) = BlockOf(r), w.ts < r.ts PROVE FALSE
    <3>1. w \in Left(taken) /\ w.type = "UPDATE"
      BY <1>4, <1>5, <2>6
    <3>2. w.key = r.key
      BY <1>2, <1>5, <2>1, <2>6, <3>1, ChainIsBlock
    <3>3. /\ w \in ChainedOps(txns) /\ r \in ChainedOps(txns)
          /\ w.ts \notin VCAbort(ChainedOps(txns))
      BY <2>1, <3>1 DEF Left, Survivors
    <3>4. w.ts \in VCAbort(ChainedOps(txns))
      BY <1>7, <2>6, <3>1, <3>2, <3>3 DEF VCAbort, SameChain
    <3> QED BY <3>3, <3>4
  <2>7. written(BlockOf(r), r.ts) = {}
    BY <2>6
  <2> QED BY <2>5, <2>7 DEF LastWritten
<1> QED BY <1>2, <1>6, <1>7

------------------------------------------------------------------------------
(* The theorems. *)

\* What always holds.
DriverInv == DriverIntake /\ BlocksKept /\ DriverBefore /\ DriverDuring

\* The inductive invariant of the driver: what clients hold and push is built for the tables
\* that are loaded; a batch is all there or executed, and the blocks and results follow from
\* that.
THEOREM DriverInvariant == Spec => []DriverInv
<1>1. Init => DriverInv
  <2> SUFFICES ASSUME Init PROVE DriverInv
    OBVIOUS
  <2>1. config = 0 /\ phase = "over"
    BY DEF Init
  <2>2. BlocksKept /\ DriverBefore /\ DriverDuring
    BY <2>1 DEF BlocksKept, DriverBefore, DriverDuring
  <2> QED BY <2>2, DriverIntakeInit DEF DriverInv
<1>2. DriverInv /\ [Next]_vars => DriverInv'
  BY DriverIntakeNext, BlocksKeptNext, ExecutionNext DEF DriverInv
<1> QED BY <1>1, <1>2, PTL DEF Spec

\* Every operation a client queues is on a block that was loaded in this configuration and
\* that a key leads to (pool_cache is per thread, and threads are per configuration).
THEOREM DriverHitsRecords == Spec => []OpsHitRecords
<1>1. DriverInv => OpsHitRecords
  BY IntakeHits DEF DriverInv
<1> QED BY <1>1, DriverInvariant, PTL

\* A transaction is aborted only for a block that it writes and a later one reads, although
\* blocks of different tables and servers share numbers (TPCC_Main.cpp packs the table into
\* the key).  Rows that share a primary key share a block.
THEOREM DriverAbortsOnlyOnConflict == Spec => []AbortsOnlyOnConflict
<1>1. DriverInv => AbortsOnlyOnConflict
  BY AbortsForConflict DEF DriverInv, AbortsOnlyOnConflict
<1> QED BY <1>1, DriverInvariant, PTL

\* All reads before all updates, table by table, from what is left in the version chains,
\* leaves in the blocks, and returns from them, what a serial execution of the committed
\* transactions would.
THEOREM DriverEpochIsSerial == Spec => []EpochIsSerial
<1>1. DriverInv => EpochIsSerial
  BY OverIsSerial DEF DriverInv
<1> QED BY <1>1, DriverInvariant, PTL

==============================================================================
