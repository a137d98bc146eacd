---------------------------- MODULE DispatchProofs ----------------------------
(***************************************************************************)
(* Theorems about module Dispatch: the results of a call are those of its  *)
(* operations, and the workers, pipes and children implement the executor  *)
(* that the epochs are proved over, for every set of servers, records and  *)
(* plans and every size of batches, rounds and pipes.                      *)
(***************************************************************************)
EXTENDS Dispatch, WellFoundedInduction, TLAPS

------------------------------------------------------------------------------
(* Induction. *)

\* A set of natural numbers that is not empty has a least element.
LEMMA LeastNatural ==
  ASSUME NEW S \in SUBSET Nat, S # {}
  PROVE  \E m \in S : \A n \in S : m <= n
<1> DEFINE R == OpToRel(<, Nat)
<1>1. IsWellFoundedOn(R, Nat)
  BY NatLessThanWellFounded
<1>2. PICK m \in S : \A n \in S : <<n, m>> \notin R
  <2> HIDE DEF R
  <2> QED BY <1>1, WFMin
<1>3. \A n \in S : n < m => <<n, m>> \in R
  BY DEF OpToRel
<1> HIDE DEF R
<1>4. \A n \in S : n \in Nat /\ m \in Nat /\ ~ (n < m)
  BY <1>2, <1>3
<1> QED BY <1>4

\* Induction, over the numbers up to a bound, for a property given as a set.
LEMMA InductionUpTo ==
  ASSUME NEW S, NEW n \in Nat, 0 \in S,
         \A i \in 0 .. n - 1 : i \in S => i + 1 \in S
  PROVE  0 .. n \subseteq S
<1> DEFINE Bad == (0 .. n) \ S
<1>1. SUFFICES ASSUME Bad # {} PROVE FALSE
  OBVIOUS
<1>2. PICK m \in Bad : \A k \in Bad : m <= k
  <2>1. Bad \in SUBSET Nat
    OBVIOUS
  <2> QED BY <1>1, <2>1, LeastNatural
<1>3. m \in Nat /\ m # 0 /\ m <= n
  OBVIOUS
<1>4. m - 1 \in 0 .. n - 1 /\ m - 1 \notin Bad
  BY <1>2, <1>3
<1>5. m - 1 \in S
  BY <1>4
<1> QED BY <1>3, <1>4, <1>5

------------------------------------------------------------------------------
(* The inductive invariant. *)

Types == {"READ", "UPDATE", "INSERT"}
Entries == [slot : Nat \cup {SlotDummy}, type : Types, key : BlockIds, val : Results]

\* What the batches of server s are: they hold operations of s, each at most once, the
\* reads before the writes, and paddings.
Filled(B) == \A i \in DOMAIN B : Len(B[i]) \in 1 .. BatchSize
FromPlan(B, s, ops) ==
  \A i \in DOMAIN B : \A j \in DOMAIN B[i] :
    \/ B[i][j] = DummyEntry
    \/ \E slot \in DOMAIN ops : ops[slot].key[1] = s /\ B[i][j] = Entry(slot, ops[slot])
NoneTwice(B) ==
  \A i, k \in DOMAIN B : \A j \in DOMAIN B[i], l \in DOMAIN B[k] :
    B[i][j].slot # SlotDummy /\ B[i][j].slot = B[k][l].slot => i = k /\ j = l
ReadsLead(B) ==
  \A i, k \in DOMAIN B : \A j \in DOMAIN B[i], l \in DOMAIN B[k] :
    (i < k \/ (i = k /\ j < l)) /\ B[k][l].slot # SlotDummy /\ IsRead(B[k][l])
      => IsRead(B[i][j])
GoodBatches(B, s, ops) ==
  B \in Seq(Seq(Entries)) /\ Filled(B) /\ FromPlan(B, s, ops) /\ NoneTwice(B) /\ ReadsLead(B)
Held(B, slot) == \E i \in DOMAIN B : \E j \in DOMAIN B[i] : B[i][j].slot = slot

Shapes ==
  /\ oram \in [Servers -> [BlockIds -> Results]]
  /\ bound \in Calls \cup {<< >>}
  /\ slots \in [Slots -> Results]
  /\ goneBefore \subseteq dead /\ dead \subseteq Servers
  /\ killed = (broken # {})
  /\ worker \in [Servers -> {"none", "run", "ok", "failed"}]
  /\ batches \in [Servers -> Seq(Seq(Entries))]
  /\ offset \in [Servers -> Nat]
  /\ written \in [Servers -> Nat]
  /\ received \in [Servers -> Seq(Results)]
  /\ pipe \in [Servers -> Seq(Entries)]
  /\ op_results \in [Servers -> Seq(Results)]
  /\ reply \in [Servers -> Seq(Results) \cup {NoReply}]
  /\ \A s \in Servers : Len(pipe[s]) <= PipeSize /\ Len(op_results[s]) < FixedBatch

\* A block a record is mapped to is never empty.
Mapped == \A k \in DOMAIN pk_to_blockid : oram[k[1]][pk_to_blockid[k]] # None

\* A worker that is not running has left nothing behind.
Idle(s) ==
  worker[s] # "run" =>
    /\ batches[s] = << >> /\ offset[s] = 0 /\ written[s] = 0 /\ received[s] = << >>
    /\ pipe[s] = << >> /\ reply[s] = NoReply
    /\ s \notin dead => op_results[s] = << >>
\* The channels of a child that has exited are empty, and its exit is no secret.
Exited(s) ==
  /\ s \in dead =>
       /\ pipe[s] = << >> /\ reply[s] = NoReply
       /\ s \in goneBefore \/ worker[s] \in {"run", "failed"}
  /\ worker[s] = "failed" => s \in dead
\* An operation of the server waits in a batch, or its result is in its slot.
Settled(slot) == slot \in DOMAIN ran /\ slots[slot] = ran[slot]
Accounted(s) ==
  \A slot \in Slots : bound[slot].key[1] = s =>
    /\ worker[s] # "none"
    /\ worker[s] \in {"run", "ok"} => Held(batches[s], slot) \/ Settled(slot)
\* The round in progress lies in the first batch.
InBatch(s) ==
  worker[s] = "run" =>
    /\ batches[s] # << >>
    /\ offset[s] < Len(batches[s][1])
    /\ offset[s] + written[s] <= Len(batches[s][1])
    /\ written[s] <= FixedBatch

\* How much of the first batch has been executed.
Executed(s) ==
  offset[s] + (IF reply[s] = NoReply THEN Len(op_results[s]) ELSE written[s])
IsResult(e, result) == e.slot # SlotDummy => e.slot \in DOMAIN ran /\ result = ran[e.slot]
AreResults(s, results, from) ==
  \A j \in DOMAIN results : IsResult(batches[s][1][from + j], results[j])
\* What is in the pipe and what has come back of the round.
Exchange(s) ==
  worker[s] = "run" /\ s \notin dead =>
    /\ Len(received[s]) = offset[s]
    /\ AreResults(s, received[s], 0)
    /\ AreResults(s, op_results[s], offset[s])
    /\ reply[s] = NoReply =>
         /\ Len(op_results[s]) + Len(pipe[s]) = written[s]
         /\ Len(op_results[s]) < Len(Round(s))
         /\ \A j \in DOMAIN pipe[s] :
              pipe[s][j] = Translate(s, batches[s][1][Executed(s) + j])
    /\ reply[s] # NoReply =>
         /\ op_results[s] = << >> /\ pipe[s] = << >>
         /\ Len(reply[s]) = written[s] /\ written[s] = Len(Round(s))
         /\ AreResults(s, reply[s], offset[s])
    /\ \A i \in DOMAIN batches[s] : \A j \in DOMAIN batches[s][i] :
         batches[s][i][j].slot # SlotDummy =>
           (batches[s][i][j].slot \in DOMAIN ran <=> i = 1 /\ j <= Executed(s))

Link(s) ==
  /\ GoodBatches(batches[s], s, bound)
  /\ Idle(s) /\ Exited(s) /\ Accounted(s) /\ InBatch(s) /\ Exchange(s)

Inv == Shapes /\ Mapped /\ \A s \in Servers : Link(s)

------------------------------------------------------------------------------
(* Grouping. *)

\* The entries of some slots are those of the slots, in the order of the plan.
LEMMA EntriesAtSlots ==
  ASSUME NEW ops \in Seq(Operations), NEW chosen \in SUBSET (1 .. Len(ops))
  PROVE  /\ EntriesAt(ops, chosen) \in Seq(Entries)
         /\ \A k \in DOMAIN EntriesAt(ops, chosen) : \E slot \in chosen :
              EntriesAt(ops, chosen)[k] = Entry(slot, ops[slot])
         /\ \A k, l \in DOMAIN EntriesAt(ops, chosen) :
              k < l => EntriesAt(ops, chosen)[k].slot < EntriesAt(ops, chosen)[l].slot
         /\ \A slot \in chosen : \E k \in DOMAIN EntriesAt(ops, chosen) :
              EntriesAt(ops, chosen)[k] = Entry(slot, ops[slot])
<1> DEFINE N == Len(ops)
           Lists(E, n) ==
             /\ E \in Seq(Entries)
             /\ \A k \in DOMAIN E : \E slot \in chosen : slot <= n /\ E[k] = Entry(slot, ops[slot])
             /\ \A k, l \in DOMAIN E : k < l => E[k].slot < E[l].slot
             /\ \A slot \in chosen : slot <= n => \E k \in DOMAIN E : E[k] = Entry(slot, ops[slot])
           Counts(u, n) ==
             /\ u = [i \in 0 .. n |->
                       IF i = 0 THEN << >>
                       ELSE IF i \in chosen THEN Append(u[i - 1], Entry(i, ops[i])) ELSE u[i - 1]]
             /\ \A i \in 0 .. n : Lists(u[i], i)
           S == {n \in 0 .. N : \E u \in [0 .. n -> Seq(Entries)] : Counts(u, n)}
<1>1. N \in Nat /\ DOMAIN ops = 1 .. N
  OBVIOUS
<1>2. \A slot \in 1 .. N : Entry(slot, ops[slot]) \in Entries /\ Entry(slot, ops[slot]).slot = slot
  <2> TAKE slot \in 1 .. N
  <2>1. ops[slot] \in Operations /\ slot \in Nat
    BY <1>1
  <2>2. ops[slot].type \in Types /\ ops[slot].key[2] \in PrimaryKeys /\ ops[slot].val \in Results
    BY <2>1 DEF Operations, Types, Keys, Results
  <2>3. ops[slot].key[2] \in BlockIds
    BY <2>2, MapAssumption
  <2> QED BY <2>1, <2>2, <2>3 DEF Entry, Entries
<1>3. 0 \in S
  <2> DEFINE u == [i \in 0 .. 0 |-> << >>]
  <2>1. u \in [0 .. 0 -> Seq(Entries)]
    OBVIOUS
  <2>2. Lists(<< >>, 0)
    <3>1. << >> \in Seq(Entries) /\ DOMAIN << >> = {}
      OBVIOUS
    <3>2. \A slot \in chosen : ~ (slot <= 0)
      BY <1>1
    <3> QED BY <3>1, <3>2
  <2>3. u = [i \in 0 .. 0 |->
                       IF i = 0 THEN << >>
                       ELSE IF i \in chosen THEN Append(u[i - 1], Entry(i, ops[i])) ELSE u[i - 1]]
    OBVIOUS
  <2>4. \A i \in 0 .. 0 : u[i] = << >> /\ i = 0
    OBVIOUS
  <2> HIDE DEF u, Lists
  <2>5. Counts(u, 0)
    BY <2>2, <2>3, <2>4
  <2>6. 0 \in 0 .. N
    BY <1>1
  <2> HIDE DEF Counts, N
  <2> QED BY <2>1, <2>5, <2>6
<1>4. ASSUME NEW n \in 0 .. N - 1, n \in S PROVE n + 1 \in S
  <2>1. PICK u \in [0 .. n -> Seq(Entries)] : Counts(u, n)
    BY <1>4
  <2> DEFINE e == Entry(n + 1, ops[n + 1])
             last == IF n + 1 \in chosen THEN Append(u[n], e) ELSE u[n]
             v == [i \in 0 .. n + 1 |-> IF i = n + 1 THEN last ELSE u[i]]
  <2>2. n \in Nat /\ n + 1 \in 1 .. N /\ n \in 0 .. n /\ n + 1 \in 0 .. N
    BY <1>1
  <2>3. e \in Entries /\ e.slot = n + 1
    BY <1>2, <2>2
  <2>4. u[n] \in Seq(Entries) /\ Lists(u[n], n)
    BY <2>1, <2>2
  <2>5. last \in Seq(Entries)
    <3> HIDE DEF e
    <3> QED BY <2>3, <2>4
  <2>6. Lists(last, n + 1)
    <3>1. CASE n + 1 \notin chosen
      <4>1. \A slot \in chosen : slot \in Nat /\ (slot <= n + 1 <=> slot <= n)
        BY <1>1, <2>2, <3>1
      <4>2. last = u[n]
        BY <3>1
      <4> HIDE DEF last
      <4> QED BY <2>4, <4>1, <4>2
    <3>2. CASE n + 1 \in chosen
      <4>1. last = Append(u[n], e)
        BY <3>2
      <4> DEFINE m == Len(u[n])
      <4>2. m \in Nat /\ DOMAIN u[n] = 1 .. m /\ DOMAIN last = 1 .. m + 1
        <5> HIDE DEF e, last
        <5> QED BY <2>3, <2>4, <4>1
      <4>3. last[m + 1] = e /\ \A k \in 1 .. m : last[k] = u[n][k]
        <5> HIDE DEF e, last
        <5> QED BY <2>3, <2>4, <4>1, <4>2
      <4>4. \A k \in 1 .. m : \E slot \in chosen : slot <= n /\ u[n][k] = Entry(slot, ops[slot])
        BY <2>4, <4>2
      <4>5. \A k \in 1 .. m : u[n][k].slot \in Nat /\ u[n][k].slot <= n
        BY <4>4, <1>1, <1>2
      <4>6. \A slot \in chosen : slot \in Nat /\ (slot <= n + 1 => slot <= n \/ slot = n + 1)
        BY <1>1, <2>2
      <4>7. \A k \in DOMAIN last : \E slot \in chosen : slot <= n + 1 /\ last[k] = Entry(slot, ops[slot])
        <5> TAKE k \in DOMAIN last
        <5>1. CASE k \in 1 .. m
          <6>1. PICK slot \in chosen : slot <= n /\ u[n][k] = Entry(slot, ops[slot])
            BY <4>4, <5>1
          <6>2. last[k] = u[n][k]
            BY <4>3, <5>1
          <6>3. slot \in Nat /\ slot <= n + 1
            BY <1>1, <2>2, <6>1
          <6> HIDE DEF last, m
          <6> QED BY <6>1, <6>2, <6>3
        <5>2. CASE k = m + 1
          <6>1. last[k] = Entry(n + 1, ops[n + 1])
            BY <4>3, <5>2
          <6> HIDE DEF last, m
          <6> QED BY <3>2, <6>1, <2>2
        <5> HIDE DEF last, m
        <5> QED BY <5>1, <5>2, <4>2
      <4>8. \A k, l \in DOMAIN last : k < l => last[k].slot < last[l].slot
        <5> TAKE k, l \in DOMAIN last
        <5> HAVE k < l
        <5>1. k \in 1 .. m /\ l \in 1 .. m + 1
          <6> HIDE DEF last, m
          <6> QED BY <4>2
        <5>2. last[k] = u[n][k] /\ u[n][k].slot \in Nat /\ u[n][k].slot <= n
          <6> HIDE DEF last, m
          <6> QED BY <4>3, <4>5, <5>1
        <5>3. CASE l \in 1 .. m
          <6>1. last[l] = u[n][l] /\ u[n][k].slot < u[n][l].slot
            <7> HIDE DEF last, m
            <7> QED BY <2>4, <4>2, <4>3, <5>1, <5>3
          <6> HIDE DEF last, m
          <6> QED BY <5>2, <6>1
        <5>4. CASE l = m + 1
          <6>1. last[l].slot = n + 1
            <7> HIDE DEF last, m, e
            <7> QED BY <2>3, <4>3, <5>4
          <6> HIDE DEF last, m
          <6> QED BY <5>2, <6>1, <2>2
        <5> HIDE DEF last, m
        <5> QED BY <5>1, <5>3, <5>4, <4>2
      <4>9. \A slot \in chosen : slot <= n + 1 => \E k \in DOMAIN last : last[k] = Entry(slot, ops[slot])
        <5> TAKE slot \in chosen
        <5> HAVE slot <= n + 1
        <5>1. CASE slot <= n
          <6>1. PICK k \in DOMAIN u[n] : u[n][k] = Entry(slot, ops[slot])
            BY <2>4, <5>1
          <6>2. k \in 1 .. m /\ k \in DOMAIN last /\ last[k] = u[n][k]
            <7> HIDE DEF last, m
            <7> QED BY <6>1, <4>2, <4>3
          <6> HIDE DEF last, m
          <6> QED BY <6>1, <6>2
        <5>2. CASE slot = n + 1
          <6>1. e = Entry(slot, ops[slot])
            BY <5>2
          <6> HIDE DEF last, m, e
          <6> QED BY <6>1, <4>2, <4>3
        <5> QED BY <5>1, <5>2, <4>6
      <4> HIDE DEF last
      <4> QED BY <2>5, <4>7, <4>8, <4>9
    <3> QED BY <3>1, <3>2
  <2>7. v \in [0 .. n + 1 -> Seq(Entries)]
    <3> HIDE DEF last
    <3> QED BY <2>1, <2>2, <2>5
  <2>8. \A i \in 0 .. n + 1 : v[i] = IF i = n + 1 THEN last ELSE u[i]
    OBVIOUS
  <2>9. v[n] = u[n] /\ v[n + 1] = last
    BY <2>2, <2>8
  <2>10. ASSUME NEW i \in 0 .. n + 1
         PROVE  /\ v[i] = IF i = 0 THEN << >>
                           ELSE IF i \in chosen THEN Append(v[i - 1], Entry(i, ops[i])) ELSE v[i - 1]
                /\ Lists(v[i], i)
    <3>1. CASE i = n + 1
      <4>1. i # 0 /\ i - 1 = n
        BY <3>1, <2>2
      <4>2. v[i] = IF i \in chosen THEN Append(v[n], Entry(i, ops[i])) ELSE v[n]
        BY <3>1, <2>9
      <4> HIDE DEF v, last, Lists
      <4> QED BY <3>1, <4>1, <4>2, <2>6, <2>9
    <3>2. CASE i \in 0 .. n
      <4>1. v[i] = u[i] /\ (i # 0 => i - 1 \in 0 .. n /\ v[i - 1] = u[i - 1])
        BY <3>2, <2>2, <2>8
      <4>2. Lists(u[i], i)
        BY <3>2, <2>1
      <4>3. u[i] = IF i = 0 THEN << >>
                   ELSE IF i \in chosen THEN Append(u[i - 1], Entry(i, ops[i])) ELSE u[i - 1]
        BY <3>2, <2>1
      <4> HIDE DEF v, last, Lists
      <4> QED BY <4>1, <4>2, <4>3
    <3>3. i = n + 1 \/ i \in 0 .. n
      BY <2>2
    <3> HIDE DEF v, Lists
    <3> QED BY <3>1, <3>2, <3>3
  <2> HIDE DEF v, Lists, last
  <2>11. Counts(v, n + 1)
    BY <2>7, <2>10
  <2> HIDE DEF Counts, N
  <2> QED BY <2>2, <2>7, <2>11
<1>5. N \in S
  <2>1. N \in 0 .. N
    BY <1>1
  <2> HIDE DEF S, N
  <2> QED BY <2>1, <1>1, <1>3, <1>4, InductionUpTo
<1> DEFINE upTo == CHOOSE u : u = [i \in 0 .. N |->
                       IF i = 0 THEN << >>
                       ELSE IF i \in chosen THEN Append(u[i - 1], Entry(i, ops[i])) ELSE u[i - 1]]
<1>6. PICK w \in [0 .. N -> Seq(Entries)] : Counts(w, N)
  BY <1>5
<1>7. upTo = [i \in 0 .. N |->
                       IF i = 0 THEN << >>
                       ELSE IF i \in chosen THEN Append(upTo[i - 1], Entry(i, ops[i])) ELSE upTo[i - 1]]
  BY <1>6
<1>8. \A i \in 0 .. N : upTo[i] = IF i = 0 THEN << >>
                       ELSE IF i \in chosen THEN Append(upTo[i - 1], Entry(i, ops[i])) ELSE upTo[i - 1]
  <2> HIDE DEF upTo
  <2> QED BY <1>7
<1>9. EntriesAt(ops, chosen) = upTo[N]
  BY DEF EntriesAt
<1>10. \A i \in 0 .. N : w[i] = IF i = 0 THEN << >>
                       ELSE IF i \in chosen THEN Append(w[i - 1], Entry(i, ops[i])) ELSE w[i - 1]
  <2>1. w = [i \in 0 .. N |->
                       IF i = 0 THEN << >>
                       ELSE IF i \in chosen THEN Append(w[i - 1], Entry(i, ops[i])) ELSE w[i - 1]]
    BY <1>6
  <2> QED BY <2>1
<1>11. upTo[N] = w[N]
  <2> DEFINE Q == {i \in 0 .. N : upTo[i] = w[i]}
  <2> HIDE DEF upTo, N
  <2>1. 0 \in Q
    BY <1>1, <1>8, <1>10
  <2>2. ASSUME NEW i \in 0 .. N - 1, i \in Q PROVE i + 1 \in Q
    <3>1. i + 1 \in 0 .. N /\ i + 1 # 0 /\ (i + 1) - 1 = i
      BY <1>1
    <3> QED BY <2>2, <3>1, <1>8, <1>10
  <2>3. N \in 0 .. N
    BY <1>1
  <2> HIDE DEF Q
  <2>4. N \in Q
    BY <2>1, <2>2, <2>3, <1>1, InductionUpTo
  <2> QED BY <2>4 DEF Q
<1>12. Lists(w[N], N)
  <2>1. N \in 0 .. N
    BY <1>1
  <2> HIDE DEF Lists, N
  <2> QED BY <1>6, <2>1
<1>13. \A slot \in chosen : slot <= N
  BY <1>1
<1>14. EntriesAt(ops, chosen) = w[N]
  <2> HIDE DEF upTo
  <2> QED BY <1>9, <1>11
<1> HIDE DEF upTo, N, Counts
<1> QED BY <1>12, <1>13, <1>14

\* A server's entries: its operations, each once, the reads first.
LEMMA EntriesOfServer ==
  ASSUME NEW ops \in Seq(Operations), NEW s
  PROVE  /\ EntriesOf(s, ops) \in Seq(Entries)
         /\ \A k \in DOMAIN EntriesOf(s, ops) : \E slot \in DOMAIN ops :
              ops[slot].key[1] = s /\ EntriesOf(s, ops)[k] = Entry(slot, ops[slot])
         /\ \A k, l \in DOMAIN EntriesOf(s, ops) :
              EntriesOf(s, ops)[k].slot = EntriesOf(s, ops)[l].slot => k = l
         /\ \A k, l \in DOMAIN EntriesOf(s, ops) :
              k < l /\ IsRead(EntriesOf(s, ops)[l]) => IsRead(EntriesOf(s, ops)[k])
         /\ \A slot \in DOMAIN ops : ops[slot].key[1] = s =>
              \E k \in DOMAIN EntriesOf(s, ops) : EntriesOf(s, ops)[k] = Entry(slot, ops[slot])
<1> DEFINE mine == {slot \in DOMAIN ops : ops[slot].key[1] = s}
           reads == {slot \in mine : IsRead(ops[slot])}
           writes == {slot \in mine : IsWrite(ops[slot])}
           A == EntriesAt(ops, reads)
           W == EntriesAt(ops, writes)
           E == EntriesOf(s, ops)
<1>1. E = A \o W
  BY DEF EntriesOf, ReadsFirst
<1>2. reads \in SUBSET (1 .. Len(ops)) /\ writes \in SUBSET (1 .. Len(ops)) /\ DOMAIN ops = 1 .. Len(ops)
  OBVIOUS
<1>3. \A slot \in DOMAIN ops : slot \in Nat /\ (IsRead(ops[slot]) <=> ~ IsWrite(ops[slot]))
  <2> TAKE slot \in DOMAIN ops
  <2>1. ops[slot] \in Operations /\ slot \in Nat
    OBVIOUS
  <2> QED BY <2>1 DEF Operations, IsRead, IsWrite
<1>4. \A slot \in DOMAIN ops : /\ Entry(slot, ops[slot]).slot = slot
                               /\ IsRead(Entry(slot, ops[slot])) <=> IsRead(ops[slot])
  BY DEF Entry, IsRead
<1>5. /\ A \in Seq(Entries)
      /\ \A k \in DOMAIN A : \E slot \in reads : A[k] = Entry(slot, ops[slot])
      /\ \A k, l \in DOMAIN A : k < l => A[k].slot < A[l].slot
      /\ \A slot \in reads : \E k \in DOMAIN A : A[k] = Entry(slot, ops[slot])
  <2> HIDE DEF reads, writes
  <2> QED BY <1>2, EntriesAtSlots
<1>6. /\ W \in Seq(Entries)
      /\ \A k \in DOMAIN W : \E slot \in writes : W[k] = Entry(slot, ops[slot])
      /\ \A k, l \in DOMAIN W : k < l => W[k].slot < W[l].slot
      /\ \A slot \in writes : \E k \in DOMAIN W : W[k] = Entry(slot, ops[slot])
  <2> HIDE DEF reads, writes
  <2> QED BY <1>2, EntriesAtSlots
<1>7. \A k \in DOMAIN A : A[k].slot \in reads /\ IsRead(A[k]) /\ A[k] = Entry(A[k].slot, ops[A[k].slot])
  <2> HIDE DEF A, W
  <2> QED BY <1>4, <1>5
<1>8. \A k \in DOMAIN W : W[k].slot \in writes /\ ~ IsRead(W[k]) /\ W[k] = Entry(W[k].slot, ops[W[k].slot])
  <2> HIDE DEF A, W
  <2> QED BY <1>3, <1>4, <1>6
<1>9. \A x : x \in reads => x \notin writes /\ x \in Nat
  BY <1>3
<1>10. \A x \in writes : x \in Nat
  BY <1>3
<1>11. \A x : x \in reads \cup writes => x \in DOMAIN ops /\ ops[x].key[1] = s
  OBVIOUS
<1>12. \A slot \in DOMAIN ops : ops[slot].key[1] = s => slot \in reads \/ slot \in writes
  BY <1>3
<1> DEFINE a == Len(A)
           b == Len(W)
<1> HIDE DEF A, W, E
<1>13. /\ a \in Nat /\ b \in Nat /\ DOMAIN A = 1 .. a /\ DOMAIN W = 1 .. b
       /\ E \in Seq(Entries) /\ DOMAIN E = 1 .. a + b
  BY <1>1, <1>5, <1>6
<1>14. /\ \A k \in 1 .. a : k \in DOMAIN E /\ E[k] = A[k]
       /\ \A k \in 1 .. b : a + k \in DOMAIN E /\ E[a + k] = W[k]
  BY <1>1, <1>5, <1>6, <1>13
<1>15. \A k \in DOMAIN E : k \in 1 .. a \/ (k - a \in 1 .. b /\ a + (k - a) = k)
  BY <1>13
<1> HIDE DEF reads, writes, a, b
<1>16. \A k \in DOMAIN E :
         \/ k \in 1 .. a /\ E[k] = A[k]
         \/ k \notin 1 .. a /\ k - a \in 1 .. b /\ E[k] = W[k - a]
  BY <1>13, <1>14, <1>15
<1>17. ASSUME NEW k \in DOMAIN E
       PROVE  \E slot \in DOMAIN ops : ops[slot].key[1] = s /\ E[k] = Entry(slot, ops[slot])
  <2>1. CASE k \in 1 .. a
    <3>1. E[k] = Entry(A[k].slot, ops[A[k].slot]) /\ A[k].slot \in reads
      BY <2>1, <1>7, <1>13, <1>16
    <3> QED BY <3>1, <1>11
  <2>2. CASE k \notin 1 .. a
    <3>1. k - a \in DOMAIN W /\ E[k] = W[k - a]
      BY <2>2, <1>13, <1>16
    <3>2. E[k] = Entry(W[k - a].slot, ops[W[k - a].slot]) /\ W[k - a].slot \in writes
      BY <3>1, <1>8
    <3> QED BY <3>2, <1>11
  <2> QED BY <2>1, <2>2
<1>18. ASSUME NEW k \in DOMAIN E, NEW l \in DOMAIN E, E[k].slot = E[l].slot, k < l PROVE FALSE
  <2>0. k \in Int /\ l \in Int
    BY <1>13
  <2>1. CASE l \in 1 .. a
    <3>1. k \in 1 .. a
      BY <2>1, <1>13, <1>16, <1>18
    <3>2. A[k].slot < A[l].slot /\ A[k].slot \in Nat /\ A[l].slot \in Nat
      BY <3>1, <2>1, <1>5, <1>7, <1>9, <1>13, <1>18
    <3> QED BY <3>1, <3>2, <2>1, <1>14, <1>18
  <2>2. CASE l \notin 1 .. a
    <3>1. l - a \in DOMAIN W /\ E[l] = W[l - a]
      BY <2>2, <1>13, <1>16
    <3>2. CASE k \in 1 .. a
      <4>1. E[k].slot \in reads /\ E[l].slot \in writes
        BY <3>1, <3>2, <1>7, <1>8, <1>13, <1>14
      <4> QED BY <4>1, <1>9, <1>18
    <3>3. CASE k \notin 1 .. a
      <4>1. k - a \in DOMAIN W /\ E[k] = W[k - a]
        BY <3>3, <1>13, <1>16
      <4>2. k - a < l - a
        BY <2>0, <1>13, <1>18
      <4>3. W[k - a].slot < W[l - a].slot /\ W[k - a].slot \in Nat /\ W[l - a].slot \in Nat
        BY <4>1, <4>2, <3>1, <1>6, <1>8, <1>10
      <4> QED BY <4>1, <4>3, <3>1, <1>18
    <3> QED BY <3>2, <3>3
  <2> QED BY <2>1, <2>2
<1>19. \A k, l \in DOMAIN E : E[k].slot = E[l].slot => k = l
  <2> TAKE k, l \in DOMAIN E
  <2>1. k \in Int /\ l \in Int
    BY <1>13
  <2>2. k = l \/ k < l \/ l < k
    BY <2>1
  <2> QED BY <2>2, <1>18
<1>20. ASSUME NEW k \in DOMAIN E, NEW l \in DOMAIN E, k < l, IsRead(E[l]) PROVE IsRead(E[k])
  <2>1. l \in 1 .. a
    <3>1. SUFFICES ASSUME l \notin 1 .. a PROVE FALSE
      OBVIOUS
    <3>2. l - a \in DOMAIN W /\ E[l] = W[l - a]
      BY <3>1, <1>13, <1>16
    <3> QED BY <3>2, <1>8, <1>20
  <2>2. k \in 1 .. a
    BY <2>1, <1>13, <1>16, <1>20
  <2> QED BY <2>2, <1>7, <1>13, <1>14
<1>21. ASSUME NEW slot \in DOMAIN ops, ops[slot].key[1] = s
       PROVE  \E k \in DOMAIN E : E[k] = Entry(slot, ops[slot])
  <2>1. CASE slot \in reads
    <3>1. PICK k \in DOMAIN A : A[k] = Entry(slot, ops[slot])
      BY <2>1, <1>5
    <3> QED BY <3>1, <1>13, <1>14
  <2>2. CASE slot \in writes
    <3>1. PICK k \in DOMAIN W : W[k] = Entry(slot, ops[slot])
      BY <2>2, <1>6
    <3>2. a + k \in DOMAIN E /\ E[a + k] = W[k]
      BY <3>1, <1>13, <1>14
    <3> QED BY <3>1, <3>2
  <2> QED BY <2>1, <2>2, <1>12, <1>21
<1> QED BY <1>13, <1>17, <1>19, <1>20, <1>21 DEF E

------------------------------------------------------------------------------
(* Cutting. *)

\* The number of pieces of at most n of L things.
LEMMA CeilingDivision ==
  ASSUME NEW L \in Nat, NEW n \in Nat \ {0}
  PROVE  /\ (L + n - 1) \div n \in Nat
         /\ L <= ((L + n - 1) \div n) * n
         /\ ((L + n - 1) \div n) * n < L + n
<1> DEFINE q == (L + n - 1) \div n
<1>1. q \in Int /\ q * n <= L + n - 1 /\ L + n - 1 < q * n + n
  OBVIOUS
<1>2. q \in Nat
  OBVIOUS
<1> HIDE DEF q
<1>3. q * n \in Int
  BY <1>1
<1>4. L <= q * n /\ q * n < L + n
  BY <1>1, <1>3
<1> QED BY <1>2, <1>4 DEF q

\* Positions in pieces are ordered as in the sequence.
LEMMA PositionsOrdered ==
  ASSUME NEW n \in Nat \ {0}, NEW i \in Nat, NEW k \in Nat, i < k,
         NEW j \in 1 .. n, NEW l \in 1 .. n
  PROVE  (i - 1) * n + j < (k - 1) * n + l
<1>1. (k - 1) * n = (i - 1) * n + (k - i) * n
  OBVIOUS
<1>2. k - i >= 1
  OBVIOUS
<1>3. (k - i) * n >= n
  BY <1>2
<1>4. (i - 1) * n \in Int /\ (k - 1) * n \in Int /\ (k - i) * n \in Int
  OBVIOUS
<1> QED BY <1>1, <1>3, <1>4

\* The i-th piece is a part of the sequence; the pieces cover it.
CutWell(seq, n, T) ==
  /\ NumPieces(seq, n) \in Nat
  /\ \A i \in 1 .. NumPieces(seq, n) :
       /\ Piece(seq, n, i) \in Seq(T)
       /\ Len(Piece(seq, n, i)) \in 1 .. n
       /\ \A j \in 1 .. Len(Piece(seq, n, i)) :
            /\ (i - 1) * n + j \in DOMAIN seq
            /\ Piece(seq, n, i)[j] = seq[(i - 1) * n + j]
  /\ \A k \in DOMAIN seq : \E i \in 1 .. NumPieces(seq, n) :
       \E j \in 1 .. Len(Piece(seq, n, i)) : (i - 1) * n + j = k

\* A sequence is cut well.
LEMMA PiecesOfSequence ==
  ASSUME NEW T, NEW seq \in Seq(T), NEW n \in Nat \ {0}
  PROVE  CutWell(seq, n, T)
<1> DEFINE L == Len(seq)
           N == NumPieces(seq, n)
           last(i) == IF i * n < L THEN i * n ELSE L
<1>1. L \in Nat /\ DOMAIN seq = 1 .. L
  OBVIOUS
<1>2. N \in Nat /\ L <= N * n /\ N * n < L + n
  BY <1>1, CeilingDivision DEF NumPieces
<1>3. ASSUME NEW i \in 1 .. N
      PROVE  /\ (i - 1) * n \in Nat /\ i * n = (i - 1) * n + n
             /\ (i - 1) * n < L /\ last(i) \in Nat /\ last(i) <= L
             /\ last(i) - (i - 1) * n \in 1 .. n
  <2>0. i \in Nat /\ n \in Nat /\ i - 1 \in Nat /\ N - i \in Nat /\ i >= 1 /\ n >= 1
    BY <1>2
  <2>1. (i - 1) * n \in Nat /\ i * n = (i - 1) * n + n
    BY <2>0
  <2>2. (N - i) * n \in Nat
    BY <2>0
  <2>3. N * n = (i - 1) * n + n + (N - i) * n
    BY <2>0, <1>2
  <2> HIDE DEF N, L
  <2>4. (i - 1) * n < L
    BY <1>1, <1>2, <2>0, <2>1, <2>2, <2>3
  <2> QED BY <1>1, <2>0, <2>1, <2>4
<1>4. ASSUME NEW i \in 1 .. N
      PROVE  /\ Piece(seq, n, i) \in Seq(T)
             /\ Len(Piece(seq, n, i)) = last(i) - (i - 1) * n
             /\ \A j \in 1 .. Len(Piece(seq, n, i)) :
                  /\ (i - 1) * n + j \in DOMAIN seq
                  /\ Piece(seq, n, i)[j] = seq[(i - 1) * n + j]
  <2> DEFINE a == (i - 1) * n
             b == last(i)
  <2>1. a \in Nat /\ b \in Nat /\ a < b /\ b <= L
    BY <1>1, <1>3
  <2>2. Piece(seq, n, i) = SubSeq(seq, a + 1, b)
    BY DEF Piece
  <2> HIDE DEF a, b, L, N
  <2>3. /\ SubSeq(seq, a + 1, b) \in Seq(T)
        /\ Len(SubSeq(seq, a + 1, b)) = b - a
        /\ \A j \in 1 .. b - a : a + j \in 1 .. L /\ SubSeq(seq, a + 1, b)[j] = seq[a + j]
    BY <2>1, <1>1 DEF L
  <2>4. /\ Piece(seq, n, i) \in Seq(T)
        /\ Len(Piece(seq, n, i)) = b - a
        /\ \A j \in 1 .. Len(Piece(seq, n, i)) :
             a + j \in DOMAIN seq /\ Piece(seq, n, i)[j] = seq[a + j]
    BY <2>2, <2>3, <1>1
  <2> QED BY <2>4 DEF a, b
<1>5. ASSUME NEW k \in DOMAIN seq
      PROVE  \E i \in 1 .. N : \E j \in 1 .. Len(Piece(seq, n, i)) : (i - 1) * n + j = k
  <2> DEFINE Q == {i \in 0 .. N : k <= i * n}
  <2>0. k \in Nat /\ k <= L /\ 1 <= k
    BY <1>1
  <2>1. N \in Q
    <3> HIDE DEF N, L
    <3>1. k <= N * n
      BY <2>0, <1>1, <1>2
    <3> QED BY <3>1, <1>2
  <2>2. Q \in SUBSET Nat
    BY <1>2
  <2>3. PICK i \in Q : \A m \in Q : i <= m
    <3> HIDE DEF Q
    <3> QED BY <2>1, <2>2, LeastNatural
  <2>4. i \in 0 .. N /\ k <= i * n
    BY <2>3
  <2>5. i # 0
    BY <2>0, <2>4
  <2>6. i \in 1 .. N /\ i - 1 \in 0 .. N
    BY <2>4, <2>5, <1>2
  <2>7. i - 1 \notin Q
    <3> HIDE DEF Q
    <3> QED BY <2>3, <2>6, <1>2
  <2>8. (i - 1) * n < k
    <3>1. (i - 1) * n \in Nat
      BY <1>3, <2>6
    <3>2. ~ (k <= (i - 1) * n)
      BY <2>6, <2>7
    <3> QED BY <2>0, <3>1, <3>2
  <2>9. k - (i - 1) * n \in 1 .. last(i) - (i - 1) * n /\ (i - 1) * n + (k - (i - 1) * n) = k
    <3>1. (i - 1) * n \in Nat
      BY <1>3, <2>6
    <3>2. i * n \in Nat
      BY <2>6, <1>2
    <3>3. k <= last(i) /\ last(i) \in Nat
      BY <2>0, <2>4, <3>2, <1>1
    <3> HIDE DEF last, L, N
    <3> QED BY <2>0, <2>8, <3>1, <3>3
  <2> HIDE DEF last, L, N, Q
  <2> QED BY <2>6, <2>9, <1>4
<1>6. \A i \in 1 .. N : Len(Piece(seq, n, i)) \in 1 .. n
  <2> HIDE DEF last, L, N
  <2> QED BY <1>3, <1>4
<1> HIDE DEF last, L
<1>7. /\ N \in Nat
      /\ \A i \in 1 .. N :
              /\ Piece(seq, n, i) \in Seq(T)
              /\ Len(Piece(seq, n, i)) \in 1 .. n
              /\ \A j \in 1 .. Len(Piece(seq, n, i)) :
                   /\ (i - 1) * n + j \in DOMAIN seq
                   /\ Piece(seq, n, i)[j] = seq[(i - 1) * n + j]
  <2> HIDE DEF N
  <2> QED BY <1>2, <1>4, <1>6
<1> QED BY <1>5, <1>7 DEF CutWell

\* Padding lengthens a batch to BatchSize with dummies.
LEMMA PaddedBatch ==
  ASSUME NEW batch \in Seq(Entries), Len(batch) \in 1 .. BatchSize, NEW pad \in BOOLEAN
  PROVE  /\ Padded(batch, pad) \in Seq(Entries)
         /\ Len(Padded(batch, pad)) \in 1 .. BatchSize
         /\ 1 .. Len(batch) \subseteq DOMAIN Padded(batch, pad)
         /\ \A j \in DOMAIN Padded(batch, pad) :
              Padded(batch, pad)[j] = IF j \in 1 .. Len(batch) THEN batch[j] ELSE DummyEntry
<1>1. BatchSize \in Nat
  BY BatchAssumption
<1>2. DummyEntry \in Entries
  BY MapAssumption DEF DummyEntry, Entries, Types, Results
<1>3. CASE ~pad
  BY <1>3, <1>1 DEF Padded
<1>4. CASE pad
  <2> DEFINE n == BatchSize - Len(batch)
             dummies == [i \in 1 .. n |-> DummyEntry]
  <2>1. n \in Nat
    BY <1>1
  <2>2. dummies \in Seq(Entries) /\ Len(dummies) = n
    BY <2>1, <1>2
  <2>3. Padded(batch, pad) = batch \o dummies
    BY <1>4 DEF Padded
  <2>4. \A i \in 1 .. n : dummies[i] = DummyEntry
    OBVIOUS
  <2>5. Len(batch) \in Nat /\ n = BatchSize - Len(batch)
    OBVIOUS
  <2> HIDE DEF dummies, n
  <2>6. batch \o dummies \in Seq(Entries) /\ Len(batch \o dummies) = Len(batch) + n
    BY <2>1, <2>2
  <2>7. \A j \in 1 .. Len(batch) + n :
          (batch \o dummies)[j] = IF j \in 1 .. Len(batch) THEN batch[j] ELSE DummyEntry
    BY <2>1, <2>2, <2>4, <2>5
  <2> QED BY <2>1, <2>3, <2>5, <2>6, <2>7, <1>1
<1> QED BY <1>3, <1>4

\* The batches of a server are what the invariant asks of them, and hold all its operations.
LEMMA BatchesGood ==
  ASSUME NEW ops \in Seq(Operations), NEW s, NEW pad \in BOOLEAN
  PROVE  /\ GoodBatches(BatchesOf(s, ops, pad), s, ops)
         /\ \A slot \in DOMAIN ops : ops[slot].key[1] = s => Held(BatchesOf(s, ops, pad), slot)
         /\ BatchesOf(s, ops, pad) # << >> <=> s \in Contacted(ops)
<1> DEFINE E == EntriesOf(s, ops)
           n == BatchSize
           N == NumPieces(E, n)
           P(i) == Piece(E, n, i)
           B == BatchesOf(s, ops, pad)
           at(i, j) == (i - 1) * n + j
<1>1. /\ E \in Seq(Entries)
      /\ \A k \in DOMAIN E : \E slot \in DOMAIN ops :
           ops[slot].key[1] = s /\ E[k] = Entry(slot, ops[slot])
      /\ \A k, l \in DOMAIN E : E[k].slot = E[l].slot => k = l
      /\ \A k, l \in DOMAIN E : k < l /\ IsRead(E[l]) => IsRead(E[k])
      /\ \A slot \in DOMAIN ops : ops[slot].key[1] = s =>
           \E k \in DOMAIN E : E[k] = Entry(slot, ops[slot])
  BY EntriesOfServer
<1>2. n \in Nat \ {0}
  BY BatchAssumption
<1>3. /\ N \in Nat
      /\ \A i \in 1 .. N :
           /\ P(i) \in Seq(Entries)
           /\ Len(P(i)) \in 1 .. n
           /\ \A j \in 1 .. Len(P(i)) : at(i, j) \in DOMAIN E /\ P(i)[j] = E[at(i, j)]
      /\ \A k \in DOMAIN E : \E i \in 1 .. N : \E j \in 1 .. Len(P(i)) : at(i, j) = k
  <2> HIDE DEF E, n
  <2>1. E \in Seq(Entries)
    BY <1>1
  <2>2. CutWell(E, n, Entries)
    BY <2>1, <1>2, PiecesOfSequence
  <2> QED BY <2>2 DEF CutWell
<1>16. N \in Nat
  <2> HIDE DEF E, P, at, n
  <2> QED BY <1>3
<1>4. B = [i \in 1 .. N |-> Padded(P(i), pad)]
  BY DEF BatchesOf
<1>5. \A i \in 1 .. N :
        /\ B[i] \in Seq(Entries)
        /\ Len(B[i]) \in 1 .. n
        /\ 1 .. Len(P(i)) \subseteq DOMAIN B[i]
        /\ \A j \in DOMAIN B[i] : B[i][j] = IF j \in 1 .. Len(P(i)) THEN P(i)[j] ELSE DummyEntry
  <2> HIDE DEF E, B, N, P
  <2> QED BY <1>3, <1>4, PaddedBatch
<1>6. B \in Seq(Seq(Entries)) /\ DOMAIN B = 1 .. N
  <2> HIDE DEF E, N, P, n
  <2>1. \A i \in 1 .. N : Padded(P(i), pad) \in Seq(Entries)
    <3> HIDE DEF B
    <3> QED BY <1>4, <1>5
  <2> HIDE DEF B
  <2> QED BY <1>3, <1>4, <2>1
<1>7. Filled(B)
  <2> HIDE DEF E, N, P, B
  <2> QED BY <1>5, <1>6 DEF Filled
<1>8. ASSUME NEW i \in DOMAIN B, NEW j \in DOMAIN B[i]
      PROVE  \/ B[i][j] = DummyEntry /\ DummyEntry.slot = SlotDummy /\ IsRead(DummyEntry)
             \/ at(i, j) \in DOMAIN E /\ B[i][j] = E[at(i, j)] /\ j \in 1 .. n
  <2>1. DummyEntry.slot = SlotDummy /\ IsRead(DummyEntry)
    BY DEF DummyEntry, IsRead
  <2>2. j \in 1 .. Len(P(i)) => j \in 1 .. n
    <3> HIDE DEF E, N, P, B, n
    <3> QED BY <1>2, <1>3, <1>6
  <2> HIDE DEF E, N, P, B, at, n
  <2> QED BY <1>3, <1>5, <1>6, <2>1, <2>2
<1>9. FromPlan(B, s, ops)
  <2> HIDE DEF E, N, P, B, at, n
  <2> QED BY <1>1, <1>8 DEF FromPlan
<1>10. ASSUME NEW i \in DOMAIN B, NEW j \in DOMAIN B[i], NEW k \in DOMAIN B, NEW l \in DOMAIN B[k],
              i < k \/ (i = k /\ j < l), j \in 1 .. n, l \in 1 .. n
       PROVE  at(i, j) < at(k, l)
  <2>1. i \in Nat /\ k \in Nat
    <3> HIDE DEF E, N, P, B, n
    <3> QED BY <1>6, <1>16
  <2>2. CASE i < k
    <3> HIDE DEF n, B
    <3> QED BY <2>1, <2>2, <1>2, <1>10, PositionsOrdered
  <2>3. CASE i = k /\ j < l
    <3> HIDE DEF n, B
    <3>1. (i - 1) * n \in Int
      BY <2>1, <1>2
    <3> QED BY <2>3, <3>1, <1>10
  <2> QED BY <1>10, <2>2, <2>3
<1>11. \A k \in DOMAIN E : E[k].slot # SlotDummy
  <2> TAKE k \in DOMAIN E
  <2>1. PICK slot \in DOMAIN ops : E[k] = Entry(slot, ops[slot])
    BY <1>1
  <2>2. slot \in Nat /\ Entry(slot, ops[slot]).slot = slot
    BY DEF Entry
  <2> QED BY <2>1, <2>2 DEF SlotDummy
<1>12. \A i \in DOMAIN B : i \in Nat /\ \A j \in DOMAIN B[i] : j \in Nat
  <2> HIDE DEF E, N, P, B, n
  <2>1. \A i \in DOMAIN B : i \in Nat
    BY <1>6, <1>16
  <2>2. \A i \in DOMAIN B : B[i] \in Seq(Entries)
    <3> HIDE DEF at
    <3> QED BY <1>5, <1>6
  <2> QED BY <2>1, <2>2
<1>13. NoneTwice(B)
  <2>1. SUFFICES ASSUME NEW i \in DOMAIN B, NEW k \in DOMAIN B, NEW j \in DOMAIN B[i], NEW l \in DOMAIN B[k],
                        B[i][j].slot # SlotDummy, B[i][j].slot = B[k][l].slot
                 PROVE  i = k /\ j = l
    BY DEF NoneTwice
  <2>2. /\ at(i, j) \in DOMAIN E /\ B[i][j] = E[at(i, j)] /\ j \in 1 .. n
        /\ at(k, l) \in DOMAIN E /\ B[k][l] = E[at(k, l)] /\ l \in 1 .. n
    <3> HIDE DEF E, N, P, B, at, n
    <3> QED BY <2>1, <1>8
  <2>3. at(i, j) = at(k, l)
    <3> HIDE DEF E, N, P, B, at, n
    <3> QED BY <2>1, <2>2, <1>1
  <2>4. i \in Nat /\ k \in Nat /\ j \in Nat /\ l \in Nat
    BY <1>12
  <2>5. at(i, j) \in Int
    BY <2>4, <1>2
  <2>6. ~ (i < k \/ (i = k /\ j < l)) /\ ~ (k < i \/ (k = i /\ l < j))
    <3> HIDE DEF E, N, P, B, at, n
    <3> QED BY <2>2, <2>3, <2>5, <1>10
  <2> HIDE DEF B
  <2> QED BY <2>4, <2>6
<1>14. ReadsLead(B)
  <2>1. SUFFICES ASSUME NEW i \in DOMAIN B, NEW k \in DOMAIN B, NEW j \in DOMAIN B[i], NEW l \in DOMAIN B[k],
                        i < k \/ (i = k /\ j < l), B[k][l].slot # SlotDummy, IsRead(B[k][l])
                 PROVE  IsRead(B[i][j])
    BY DEF ReadsLead
  <2> HIDE DEF E, N, P, B, at, n
  <2>2. CASE B[i][j] = DummyEntry
    BY <2>2 DEF DummyEntry, IsRead
  <2>3. CASE at(i, j) \in DOMAIN E /\ B[i][j] = E[at(i, j)] /\ j \in 1 .. n
    <3>1. at(k, l) \in DOMAIN E /\ B[k][l] = E[at(k, l)] /\ l \in 1 .. n
      BY <2>1, <1>8
    <3>2. at(i, j) < at(k, l)
      BY <2>1, <2>3, <3>1, <1>10
    <3> QED BY <2>1, <2>3, <3>1, <3>2, <1>1
  <2> QED BY <2>2, <2>3, <1>8
<1>15. ASSUME NEW slot \in DOMAIN ops, ops[slot].key[1] = s PROVE Held(B, slot)
  <2>1. PICK k \in DOMAIN E : E[k] = Entry(slot, ops[slot])
    BY <1>1, <1>15
  <2>2. PICK i \in 1 .. N : \E j \in 1 .. Len(P(i)) : at(i, j) = k
    <3> HIDE DEF E, N, P, B, at, n
    <3> QED BY <1>3
  <2>3. PICK j \in 1 .. Len(P(i)) : at(i, j) = k
    BY <2>2
  <2>4. Entry(slot, ops[slot]).slot = slot
    BY DEF Entry
  <2> HIDE DEF E, N, P, B, at, n
  <2>5. j \in DOMAIN B[i] /\ B[i][j] = E[k] /\ i \in DOMAIN B
    BY <2>3, <1>3, <1>5, <1>6
  <2> QED BY <2>1, <2>4, <2>5 DEF Held
<1>17. B # << >> <=> s \in Contacted(ops)
  <2>1. ASSUME B # << >> PROVE s \in Contacted(ops)
    <3>1. 1 \in 1 .. N
      <4> HIDE DEF B, N, E, P, at, n
      <4>1. Len(B) = N /\ Len(B) # 0
        BY <1>6, <1>16, <2>1
      <4> QED BY <4>1, <1>16
    <3>2. 1 \in 1 .. Len(P(1))
      <4> HIDE DEF B, N, E, P, at, n
      <4> QED BY <3>1, <1>2, <1>3
    <3>3. at(1, 1) \in DOMAIN E
      <4> HIDE DEF B, N, E, P, at, n
      <4> QED BY <3>1, <3>2, <1>3
    <3> QED BY <3>3, <1>1 DEF Contacted
  <2>2. ASSUME s \in Contacted(ops) PROVE B # << >>
    <3>1. PICK slot \in DOMAIN ops : ops[slot].key[1] = s
      BY <2>2 DEF Contacted
    <3>2. Held(B, slot)
      BY <3>1, <1>15
    <3>3. DOMAIN << >> = {}
      OBVIOUS
    <3> QED BY <3>2, <3>3 DEF Held
  <2> QED BY <2>1, <2>2
<1> HIDE DEF B
<1> QED BY <1>6, <1>7, <1>9, <1>13, <1>14, <1>15, <1>17 DEF GoodBatches, B

------------------------------------------------------------------------------
(* The invariant, one server at a time. *)

\* The plan in progress is a sequence of operations.
LEMMA PlanTyped ==
  ASSUME Shapes
  PROVE  /\ bound \in Seq(Operations)
         /\ \A slot \in Slots :
              /\ slot \in Nat \ {0} /\ slot # SlotDummy /\ bound[slot] \in Operations
              /\ bound[slot].key \in Keys /\ bound[slot].key[1] \in Servers
<1>1. bound \in Seq(Operations)
  <2>1. << >> \in Seq(Operations)
    OBVIOUS
  <2> QED BY <2>1, CallsAssumption DEF Shapes
<1>2. \A slot \in DOMAIN bound : slot \in Nat \ {0} /\ slot # SlotDummy /\ bound[slot] \in Operations
  BY <1>1 DEF SlotDummy
<1>3. \A slot \in DOMAIN bound : bound[slot].key \in Keys /\ bound[slot].key[1] \in Servers
  <2> TAKE slot \in DOMAIN bound
  <2>1. bound[slot].key \in Keys
    BY <1>2 DEF Operations
  <2> QED BY <2>1 DEF Keys
<1> QED BY <1>1, <1>2, <1>3 DEF Slots

\* An entry of a batch that is no padding is an operation of the plan.
RealEntries(B, s, ops) ==
  \A i \in DOMAIN B : \A j \in DOMAIN B[i] : B[i][j].slot # SlotDummy =>
    /\ B[i][j].slot \in DOMAIN ops
    /\ ops[B[i][j].slot].key[1] = s
    /\ B[i][j] = Entry(B[i][j].slot, ops[B[i][j].slot])

\* Good batches hold such entries.
LEMMA GoodIsReal ==
  ASSUME NEW s, NEW ops, NEW B, GoodBatches(B, s, ops)
  PROVE  RealEntries(B, s, ops)
<1>1. SUFFICES ASSUME NEW i \in DOMAIN B, NEW j \in DOMAIN B[i], B[i][j].slot # SlotDummy
               PROVE  /\ B[i][j].slot \in DOMAIN ops
                      /\ ops[B[i][j].slot].key[1] = s
                      /\ B[i][j] = Entry(B[i][j].slot, ops[B[i][j].slot])
  BY DEF RealEntries
<1>2. B[i][j] # DummyEntry
  BY <1>1 DEF DummyEntry
<1>3. PICK slot \in DOMAIN ops : ops[slot].key[1] = s /\ B[i][j] = Entry(slot, ops[slot])
  BY <1>2 DEF GoodBatches, FromPlan
<1>4. Entry(slot, ops[slot]).slot = slot
  BY DEF Entry
<1> QED BY <1>3, <1>4

\* Sent batches leave good batches.
LEMMA TailGood ==
  ASSUME NEW s, NEW ops, NEW B, GoodBatches(B, s, ops), B # << >>
  PROVE  /\ GoodBatches(Tail(B), s, ops)
         /\ Head(B) = B[1] /\ 1 \in DOMAIN B /\ B[1] \in Seq(Entries)
         /\ \A i \in DOMAIN Tail(B) : i + 1 \in DOMAIN B /\ Tail(B)[i] = B[i + 1] /\ i \in Nat \ {0}
         /\ \A i \in DOMAIN B : i \in Nat /\ (i # 1 => i - 1 \in DOMAIN Tail(B) /\ Tail(B)[i - 1] = B[i])
<1>1. B \in Seq(Seq(Entries))
  BY DEF GoodBatches
<1>2. /\ Tail(B) \in Seq(Seq(Entries))
      /\ Head(B) = B[1] /\ 1 \in DOMAIN B /\ B[1] \in Seq(Entries)
      /\ \A i \in DOMAIN Tail(B) : i + 1 \in DOMAIN B /\ Tail(B)[i] = B[i + 1] /\ i \in Nat \ {0}
      /\ \A i \in DOMAIN B : i \in Nat /\ (i # 1 => i - 1 \in DOMAIN Tail(B))
  BY <1>1
<1>3. \A i \in DOMAIN B : i # 1 => Tail(B)[i - 1] = B[i]
  BY <1>2
<1>4. Filled(Tail(B)) /\ FromPlan(Tail(B), s, ops)
  BY <1>2 DEF GoodBatches, Filled, FromPlan
<1>5. NoneTwice(Tail(B))
  <2>1. SUFFICES ASSUME NEW i \in DOMAIN Tail(B), NEW k \in DOMAIN Tail(B),
                        NEW j \in DOMAIN Tail(B)[i], NEW l \in DOMAIN Tail(B)[k],
                        Tail(B)[i][j].slot # SlotDummy, Tail(B)[i][j].slot = Tail(B)[k][l].slot
                 PROVE  i = k /\ j = l
    BY DEF NoneTwice
  <2>2. i + 1 = k + 1 /\ j = l
    BY <2>1, <1>2 DEF GoodBatches, NoneTwice
  <2> QED BY <2>2, <1>2
<1>6. ReadsLead(Tail(B))
  <2>1. SUFFICES ASSUME NEW i \in DOMAIN Tail(B), NEW k \in DOMAIN Tail(B),
                        NEW j \in DOMAIN Tail(B)[i], NEW l \in DOMAIN Tail(B)[k],
                        i < k \/ (i = k /\ j < l),
                        Tail(B)[k][l].slot # SlotDummy, IsRead(Tail(B)[k][l])
                 PROVE  IsRead(Tail(B)[i][j])
    BY DEF ReadsLead
  <2>2. i + 1 < k + 1 \/ (i + 1 = k + 1 /\ j < l)
    BY <2>1, <1>2
  <2> QED BY <2>1, <2>2, <1>2 DEF GoodBatches, ReadsLead
<1> QED BY <1>2, <1>3, <1>4, <1>5, <1>6 DEF GoodBatches

\* A round cut from a batch.
LEMMA RoundPart ==
  ASSUME NEW b \in Seq(Entries), NEW o \in Nat, o < Len(b), NEW last,
         last = IF o + FixedBatch < Len(b) THEN o + FixedBatch ELSE Len(b)
  PROVE  /\ last \in Nat
         /\ Len(SubSeq(b, o + 1, last)) = last - o
         /\ last - o \in 1 .. FixedBatch
         /\ last <= Len(b) /\ last > o
         /\ \A k \in 1 .. last - o : o + k \in DOMAIN b /\ SubSeq(b, o + 1, last)[k] = b[o + k]
<1>1. FixedBatch \in Nat \ {0} /\ Len(b) \in Nat
  BY BatchAssumption
<1>2. last \in Nat /\ o < last /\ last <= Len(b) /\ last - o <= FixedBatch
  BY <1>1
<1> QED BY <1>1, <1>2

\* The round in progress: a part of the first batch, not empty, at most FixedBatch long.
LEMMA RoundOfBatch ==
  ASSUME Shapes, NEW s \in Servers, Link(s), worker[s] = "run"
  PROVE  /\ Head(batches[s]) = batches[s][1] /\ 1 \in DOMAIN batches[s]
         /\ batches[s][1] \in Seq(Entries) /\ Len(batches[s][1]) \in 1 .. BatchSize
         /\ offset[s] \in Nat /\ written[s] \in Nat
         /\ Len(Round(s)) \in 1 .. FixedBatch
         /\ written[s] <= Len(Round(s))
         /\ offset[s] + Len(Round(s)) <= Len(batches[s][1])
         /\ \A k \in 1 .. Len(Round(s)) :
              offset[s] + k \in DOMAIN batches[s][1] /\ Round(s)[k] = batches[s][1][offset[s] + k]
<1> DEFINE B == batches[s]
           b == B[1]
           o == offset[s]
           w == written[s]
           last == IF o + FixedBatch < Len(b) THEN o + FixedBatch ELSE Len(b)
<1>1. GoodBatches(B, s, bound) /\ B # << >>
  BY DEF Link, InBatch
<1>2. Head(B) = b /\ 1 \in DOMAIN B /\ b \in Seq(Entries)
  <2> HIDE DEF B
  <2> QED BY <1>1, TailGood
<1>3. Len(b) \in 1 .. BatchSize
  BY <1>1, <1>2 DEF GoodBatches, Filled
<1>4. o \in Nat /\ w \in Nat /\ o < Len(b) /\ o + w <= Len(b) /\ w <= FixedBatch
  BY DEF Shapes, Link, InBatch
<1>5. Round(s) = SubSeq(b, o + 1, last)
  BY <1>2 DEF Round
<1>6. FixedBatch \in Nat \ {0} /\ BatchSize \in Nat
  BY BatchAssumption
<1> HIDE DEF B, b, o, w
<1>7. last \in Nat /\ o < last /\ last <= Len(b) /\ last - o <= FixedBatch /\ w <= last - o
  BY <1>3, <1>4, <1>6
<1> HIDE DEF last
<1>8. /\ Len(SubSeq(b, o + 1, last)) = last - o
      /\ \A k \in 1 .. last - o : o + k \in DOMAIN b /\ SubSeq(b, o + 1, last)[k] = b[o + k]
  BY <1>2, <1>3, <1>4, <1>7
<1>9. last - o \in 1 .. FixedBatch /\ o + (last - o) = last
  BY <1>4, <1>6, <1>7
<1> QED BY <1>2, <1>3, <1>4, <1>5, <1>7, <1>8, <1>9 DEF B, b, o, w

\* What a step at another server leaves alone of server s.
SameLink(s) ==
  /\ worker'[s] = worker[s] /\ batches'[s] = batches[s]
  /\ offset'[s] = offset[s] /\ written'[s] = written[s] /\ received'[s] = received[s]
  /\ pipe'[s] = pipe[s] /\ op_results'[s] = op_results[s] /\ reply'[s] = reply[s]
  /\ (s \in dead' <=> s \in dead)
  /\ goneBefore' = goneBefore /\ bound' = bound
  /\ \A slot \in Slots : bound[slot].key[1] = s =>
       /\ slots'[slot] = slots[slot]
       /\ slot \in DOMAIN ran' <=> slot \in DOMAIN ran
       /\ slot \in DOMAIN ran => ran'[slot] = ran[slot]

\* Entries that server s holds have the results they had.
LEMMA ResultsKept ==
  ASSUME Shapes, NEW s, GoodBatches(batches[s], s, bound), NEW i \in DOMAIN batches[s], NEW j \in DOMAIN batches[s][i],
         \A slot \in Slots : bound[slot].key[1] = s =>
           /\ slot \in DOMAIN ran' <=> slot \in DOMAIN ran
           /\ slot \in DOMAIN ran => ran'[slot] = ran[slot]
  PROVE  /\ batches[s][i][j].slot # SlotDummy =>
              (batches[s][i][j].slot \in DOMAIN ran' <=> batches[s][i][j].slot \in DOMAIN ran)
         /\ \A r : IsResult(batches[s][i][j], r) =>
              (batches[s][i][j].slot # SlotDummy =>
                 /\ batches[s][i][j].slot \in DOMAIN ran'
                 /\ r = ran'[batches[s][i][j].slot])
<1> DEFINE e == batches[s][i][j]
<1>1. bound \in Seq(Operations)
  BY PlanTyped
<1>2. e.slot # SlotDummy => e.slot \in Slots /\ bound[e.slot].key[1] = s
  <2> HAVE e.slot # SlotDummy
  <2>1. RealEntries(batches[s], s, bound)
    BY GoodIsReal
  <2>2. e.slot \in DOMAIN bound /\ bound[e.slot].key[1] = s
    BY <2>1 DEF RealEntries
  <2> QED BY <2>2 DEF Slots
<1> HIDE DEF e
<1>3. e.slot # SlotDummy => /\ e.slot \in DOMAIN ran' <=> e.slot \in DOMAIN ran
                            /\ e.slot \in DOMAIN ran => ran'[e.slot] = ran[e.slot]
  BY <1>2
<1>4. \A r : IsResult(e, r) => (e.slot # SlotDummy => e.slot \in DOMAIN ran' /\ r = ran'[e.slot])
  BY <1>3 DEF IsResult
<1> QED BY <1>3, <1>4 DEF e

\* The same batches of the same plan are as good.
LEMMA SameBatches ==
  ASSUME NEW s, NEW B, NEW ops, GoodBatches(B, s, ops), batches'[s] = B, bound' = ops
  PROVE  GoodBatches(batches[s], s, bound)'
BY DEF GoodBatches, Filled, FromPlan, NoneTwice, ReadsLead, Entries, Entry, DummyEntry, IsRead, SlotDummy

\* Its part of the invariant then still holds.
LEMMA LinkKept ==
  ASSUME Shapes, NEW s \in Servers, Link(s), SameLink(s)
  PROVE  Link(s)'
<1>1. GoodBatches(batches[s], s, bound)'
  BY SameBatches DEF Link, SameLink
<1>2. Idle(s)' /\ Exited(s)'
  BY DEF Link, SameLink, Idle, Exited, NoReply
<1>3. Accounted(s)'
  BY DEF Link, SameLink, Accounted, Held, Settled, Slots
<1>4. InBatch(s)'
  BY DEF Link, SameLink, InBatch
<1>5. Exchange(s)'
  <2>1. SUFFICES ASSUME worker[s] = "run", s \notin dead
                 PROVE  Exchange(s)'
    BY DEF Exchange, SameLink
  <2> DEFINE b == batches[s][1]
             rec == received[s]
             res == op_results[s]
             rep == reply[s]
             o == offset[s]
             B == batches[s]
  <2>2. GoodBatches(B, s, bound)
    BY DEF Link
  <2>3. /\ 1 \in DOMAIN B /\ b \in Seq(Entries) /\ o \in Nat /\ written[s] \in Nat
        /\ o + written[s] <= Len(b)
    BY <2>1, RoundOfBatch DEF Link, InBatch
  <2>4. \A r, j : j \in DOMAIN b /\ IsResult(b[j], r) =>
          (b[j].slot # SlotDummy => b[j].slot \in DOMAIN ran' /\ r = ran'[b[j].slot])
    <3> TAKE r, j
    <3> HAVE j \in DOMAIN b /\ IsResult(b[j], r)
    <3>1. \A slot \in Slots : bound[slot].key[1] = s =>
            /\ slot \in DOMAIN ran' <=> slot \in DOMAIN ran
            /\ slot \in DOMAIN ran => ran'[slot] = ran[slot]
      BY DEF SameLink
    <3>2. \A q : IsResult(batches[s][1][j], q) =>
            (batches[s][1][j].slot # SlotDummy =>
               /\ batches[s][1][j].slot \in DOMAIN ran'
               /\ q = ran'[batches[s][1][j].slot])
      BY <2>2, <2>3, <3>1, ResultsKept
    <3> QED BY <3>2
  <2>5. \A i \in DOMAIN B : \A j \in DOMAIN B[i] : B[i][j].slot # SlotDummy =>
          (B[i][j].slot \in DOMAIN ran' <=> B[i][j].slot \in DOMAIN ran)
    BY <2>2, ResultsKept DEF SameLink
  <2>6. /\ Len(rec) = o
        /\ AreResults(s, rec, 0)
        /\ AreResults(s, res, o)
        /\ rep = NoReply =>
             /\ Len(res) + Len(pipe[s]) = written[s]
             /\ Len(res) < Len(Round(s))
             /\ \A j \in DOMAIN pipe[s] : pipe[s][j] = Translate(s, b[Executed(s) + j])
        /\ rep # NoReply =>
             /\ res = << >> /\ pipe[s] = << >>
             /\ Len(rep) = written[s] /\ written[s] = Len(Round(s))
             /\ AreResults(s, rep, o)
        /\ \A i \in DOMAIN B : \A j \in DOMAIN B[i] : B[i][j].slot # SlotDummy =>
             (B[i][j].slot \in DOMAIN ran <=> i = 1 /\ j <= Executed(s))
    BY <2>1 DEF Link, Exchange
  <2>7. /\ rec \in Seq(Results) /\ res \in Seq(Results) /\ rep \in Seq(Results) \cup {NoReply}
        /\ pipe[s] \in Seq(Entries)
    BY DEF Shapes
  <2>8. Executed(s)' = Executed(s) /\ Round(s)' = Round(s)
    BY DEF SameLink, Executed, Round, NoReply
  <2>9. /\ rec = received'[s] /\ res = op_results'[s] /\ rep = reply'[s] /\ o = offset'[s] /\ B = batches'[s]
        /\ written'[s] = written[s] /\ pipe'[s] = pipe[s] /\ b = batches'[s][1]
    BY DEF SameLink
  <2> DEFINE After(results, from) ==
               \A j \in DOMAIN results : b[from + j].slot # SlotDummy =>
                 b[from + j].slot \in DOMAIN ran' /\ results[j] = ran'[b[from + j].slot]
  <2>10. \A results, from :
           AreResults(s, results, from) /\ (\A j \in DOMAIN results : from + j \in DOMAIN b)
             => After(results, from)
    <3> TAKE results, from
    <3> HAVE AreResults(s, results, from) /\ (\A j \in DOMAIN results : from + j \in DOMAIN b)
    <3>1. \A j \in DOMAIN results : IsResult(b[from + j], results[j]) /\ from + j \in DOMAIN b
      BY DEF AreResults
    <3> HIDE DEF b
    <3>2. \A j \in DOMAIN results : b[from + j].slot # SlotDummy =>
            b[from + j].slot \in DOMAIN ran' /\ results[j] = ran'[b[from + j].slot]
      BY <2>4, <3>1
    <3> QED BY <3>2
  <2>11. After(rec, 0)
    <3>1. \A j \in DOMAIN rec : 0 + j \in DOMAIN b
      <4> HIDE DEF b, rec, o
      <4> QED BY <2>3, <2>6, <2>7
    <3> HIDE DEF After, b, rec, res, rep, o
    <3> QED BY <2>6, <2>10, <3>1
  <2>12. After(res, o)
    <3>1. \A j \in DOMAIN res : o + j \in DOMAIN b
      <4> HIDE DEF b, res, o, rep
      <4>1. Len(res) <= written[s]
        BY <2>3, <2>6, <2>7
      <4> QED BY <2>3, <2>7, <4>1
    <3> HIDE DEF After, b, rec, res, rep, o
    <3> QED BY <2>6, <2>10, <3>1
  <2>13. rep # NoReply => After(rep, o)
    <3> HAVE rep # NoReply
    <3>1. \A j \in DOMAIN rep : o + j \in DOMAIN b
      <4> HIDE DEF b, res, o, rep
      <4> QED BY <2>3, <2>6, <2>7
    <3> HIDE DEF After, b, rec, res, rep, o
    <3> QED BY <2>6, <2>10, <3>1
  <2> HIDE DEF b, rec, res, rep, o, B
  <2>14. /\ Len(received'[s]) = offset'[s]
         /\ reply'[s] = NoReply =>
              /\ Len(op_results'[s]) + Len(pipe'[s]) = written'[s]
              /\ Len(op_results'[s]) < Len(Round(s)')
              /\ \A j \in DOMAIN pipe'[s] : pipe'[s][j] = Translate(s, batches'[s][1][Executed(s)' + j])
         /\ reply'[s] # NoReply =>
              /\ op_results'[s] = << >> /\ pipe'[s] = << >>
              /\ Len(reply'[s]) = written'[s] /\ written'[s] = Len(Round(s)')
         /\ \A i \in DOMAIN batches'[s] : \A j \in DOMAIN batches'[s][i] :
              batches'[s][i][j].slot # SlotDummy =>
                (batches'[s][i][j].slot \in DOMAIN ran' <=> i = 1 /\ j <= Executed(s)')
    BY <2>5, <2>6, <2>8, <2>9
  <2>15. /\ \A j \in DOMAIN received'[s] : batches'[s][1][0 + j].slot # SlotDummy =>
              batches'[s][1][0 + j].slot \in DOMAIN ran' /\ received'[s][j] = ran'[batches'[s][1][0 + j].slot]
         /\ \A j \in DOMAIN op_results'[s] : batches'[s][1][offset'[s] + j].slot # SlotDummy =>
              /\ batches'[s][1][offset'[s] + j].slot \in DOMAIN ran'
              /\ op_results'[s][j] = ran'[batches'[s][1][offset'[s] + j].slot]
         /\ reply'[s] # NoReply =>
              \A j \in DOMAIN reply'[s] : batches'[s][1][offset'[s] + j].slot # SlotDummy =>
                /\ batches'[s][1][offset'[s] + j].slot \in DOMAIN ran'
                /\ reply'[s][j] = ran'[batches'[s][1][offset'[s] + j].slot]
    BY <2>9, <2>11, <2>12, <2>13
  <2> QED BY <2>14, <2>15 DEF Exchange, AreResults, IsResult, SlotDummy, NoReply, Translate
<1> QED BY <1>1, <1>2, <1>3, <1>4, <1>5 DEF Link

------------------------------------------------------------------------------
(* Every step keeps it. *)

\* What travels keeps its type.
LEMMA TranslateTyped ==
  ASSUME NEW s, NEW e \in Entries
  PROVE  Translate(s, e) \in Entries /\ Translate(s, e).slot = e.slot
         /\ Translate(s, e).type = e.type /\ Translate(s, e).val = e.val
<1>1. CASE e.slot # SlotDummy /\ <<s, e.key>> \in DOMAIN pk_to_blockid
  <2>1. pk_to_blockid[<<s, e.key>>] \in BlockIds
    BY <1>1, MapAssumption
  <2>2. Translate(s, e) = [e EXCEPT !.key = pk_to_blockid[<<s, e.key>>]]
    BY <1>1 DEF Translate
  <2> QED BY <2>1, <2>2 DEF Entries
<1>2. CASE ~ (e.slot # SlotDummy /\ <<s, e.key>> \in DOMAIN pk_to_blockid)
  BY <1>2 DEF Translate
<1> QED BY <1>1, <1>2

\* A batch of which nothing has been sent has a first round.
LEMMA FirstRound ==
  ASSUME NEW s, GoodBatches(batches[s], s, bound)', offset'[s] \in Nat,
         batches'[s] # << >>, offset'[s] < Len(batches'[s][1])
  PROVE  Len(Round(s)') \in 1 .. FixedBatch
<1>1. PICK B : B = batches'[s]
  OBVIOUS
<1>2. PICK o \in Nat : o = offset'[s]
  OBVIOUS
<1>3. B \in Seq(Seq(Entries)) /\ B # << >>
  BY <1>1 DEF GoodBatches, Entries, SlotDummy
<1>4. Head(B) = B[1] /\ B[1] \in Seq(Entries)
  BY <1>3
<1> DEFINE last == IF o + FixedBatch < Len(B[1]) THEN o + FixedBatch ELSE Len(B[1])
<1>5. Round(s)' = SubSeq(B[1], o + 1, last)
  BY <1>1, <1>2, <1>4 DEF Round
<1>6. o < Len(B[1])
  BY <1>1, <1>2
<1> HIDE DEF last
<1>7. Len(SubSeq(B[1], o + 1, last)) \in 1 .. FixedBatch
  <2>1. last = IF o + FixedBatch < Len(B[1]) THEN o + FixedBatch ELSE Len(B[1])
    BY DEF last
  <2>2. Len(SubSeq(B[1], o + 1, last)) = last - o /\ last - o \in 1 .. FixedBatch
    BY <1>4, <1>6, <2>1, RoundPart
  <2> QED BY <2>2
<1> QED BY <1>5, <1>7

\* Nothing is on its way at the start.
LEMMA InitInv ==
  ASSUME Init
  PROVE  Inv
<1>1. Shapes
  <2>1. << >> \in Seq(Seq(Entries)) /\ << >> \in Seq(Results) /\ << >> \in Seq(Entries) /\ 0 \in Nat
    OBVIOUS
  <2>2. << >> \in [DOMAIN << >> -> Results] /\ Len(<< >>) = 0
    OBVIOUS
  <2>3. 0 <= PipeSize /\ 0 < FixedBatch
    BY BatchAssumption
  <2> QED BY <2>1, <2>2, <2>3, LoadAssumption DEF Init, Shapes, Slots
<1>2. Mapped
  BY LoadAssumption DEF Init, Mapped
<1>3. ASSUME NEW s \in Servers PROVE Link(s)
  <2>1. << >> \in Seq(Seq(Entries)) /\ DOMAIN << >> = {}
    OBVIOUS
  <2>2. GoodBatches(<< >>, s, << >>)
    BY <2>1 DEF GoodBatches, Filled, FromPlan, NoneTwice, ReadsLead
  <2> QED BY <2>1, <2>2 DEF Init, Link, Idle, Exited, Accounted, InBatch, Exchange, Slots
<1> QED BY <1>1, <1>2, <1>3 DEF Inv

\* A step of a worker or a child leaves the other servers alone.
LEMMA OthersKept ==
  ASSUME Inv, NEW s \in Servers, Mapped', Link(s)', Shapes',
         \A t \in Servers \ {s} : SameLink(t)
  PROVE  Inv'
<1>1. \A t \in Servers \ {s} : Link(t)'
  <2> TAKE t \in Servers \ {s}
  <2>1. Shapes /\ Link(t) /\ SameLink(t)
    BY DEF Inv
  <2> QED BY <2>1, LinkKept
<1> QED BY <1>1 DEF Inv

\* SIGPIPE touches no server.
LEMMA SigPipeKeeps ==
  ASSUME Inv, NEW s \in Servers, SigPipe(s)
  PROVE  Inv'
<1>1. Shapes'
  BY DEF Inv, Shapes, SigPipe, proxy, child, channels, Slots, NoReply, Entries, SlotDummy
<1>2. Mapped'
  BY DEF Inv, Mapped, SigPipe, child
<1>3. \A t \in Servers : SameLink(t)
  BY DEF SameLink, SigPipe, proxy, child, channels
<1>4. \A t \in Servers : Link(t)'
  <2> TAKE t \in Servers
  <2>1. Shapes /\ Link(t) /\ SameLink(t)
    BY <1>3 DEF Inv
  <2> QED BY <2>1, LinkKept
<1> QED BY <1>1, <1>2, <1>4 DEF Inv

\* An exit empties the pipe of a server whose worker runs.
LEMMA ChildExitsKeeps ==
  ASSUME Inv, NEW s \in Servers, ChildExits(s)
  PROVE  Inv'
<1>1. Shapes /\ Link(s) /\ s \notin dead /\ pipe[s] # << >>
  BY DEF Inv, ChildExits
<1>2. /\ dead' = dead \cup {s} /\ pipe' = [pipe EXCEPT ![s] = << >>]
      /\ UNCHANGED <<bound, slots, worker, batches, offset, written, received, oram, op_results, reply, ran,
                     killed, broken, goneBefore>>
  BY DEF ChildExits, proxy, signal
<1>3. Shapes'
  <2>1. << >> \in Seq(Entries) /\ Len(<< >>) = 0 /\ 0 <= PipeSize
    BY BatchAssumption
  <2>2. pipe' \in [Servers -> Seq(Entries)] /\ \A t \in Servers : Len(pipe'[t]) <= PipeSize
    <3> HIDE DEF Entries
    <3> QED BY <1>1, <1>2, <2>1 DEF Shapes
  <2>3. pipe' \in [Servers -> Seq(Entries)]'
    BY <2>2 DEF Entries, SlotDummy
  <2> QED BY <1>1, <1>2, <2>2, <2>3 DEF Shapes, Slots, NoReply, Entries, SlotDummy
<1>4. Mapped'
  BY <1>2 DEF Inv, Mapped
<1>5. \A t \in Servers \ {s} : SameLink(t)
  BY <1>1, <1>2 DEF SameLink, Shapes
<1>6. worker[s] = "run" /\ reply[s] = NoReply
  BY <1>1 DEF Link, Idle, Exchange
<1>7. pipe'[s] = << >>
  BY <1>1, <1>2 DEF Shapes
<1>8. Link(s)'
  <2>1. GoodBatches(batches[s], s, bound)'
    BY <1>1, <1>2, SameBatches DEF Link
  <2>2. Idle(s)' /\ Exited(s)' /\ InBatch(s)' /\ Exchange(s)'
    BY <1>1, <1>2, <1>6, <1>7 DEF Link, Idle, Exited, InBatch, Exchange, NoReply
  <2>3. Accounted(s)'
    BY <1>1, <1>2 DEF Link, Accounted, Held, Settled, Slots
  <2> QED BY <2>1, <2>2, <2>3 DEF Link
<1> QED BY <1>3, <1>4, <1>5, <1>8, OthersKept

\* A worker that gives up drops its batches.
LEMMA ReadEndKeeps ==
  ASSUME Inv, NEW s \in Servers, ReadEnd(s)
  PROVE  Inv'
<1>1. Shapes /\ Link(s) /\ s \in dead
  BY DEF Inv, ReadEnd
<1>2. /\ worker' = [worker EXCEPT ![s] = "failed"]
      /\ batches' = [batches EXCEPT ![s] = << >>]
      /\ offset' = [offset EXCEPT ![s] = 0]
      /\ written' = [written EXCEPT ![s] = 0]
      /\ received' = [received EXCEPT ![s] = << >>]
      /\ UNCHANGED <<bound, slots, oram, op_results, dead, ran, pipe, reply, killed, broken, goneBefore>>
  BY DEF ReadEnd, child, channels, signal
<1>3. Shapes'
  <2>1. << >> \in Seq(Seq(Entries)) /\ << >> \in Seq(Results) /\ 0 \in Nat
    OBVIOUS
  <2>2. worker' \in [Servers -> {"none", "run", "ok", "failed"}] /\ offset' \in [Servers -> Nat] /\ written' \in [Servers -> Nat]
    BY <1>1, <1>2 DEF Shapes
  <2>3. batches' \in [Servers -> Seq(Seq(Entries))] /\ received' \in [Servers -> Seq(Results)]
    BY <1>1, <1>2, <2>1 DEF Shapes
  <2> QED BY <1>1, <1>2, <2>2, <2>3 DEF Shapes, Slots
<1>4. Mapped'
  BY <1>2 DEF Inv, Mapped
<1>5. \A t \in Servers \ {s} : SameLink(t)
  BY <1>1, <1>2 DEF SameLink, Shapes
<1>6. /\ worker'[s] = "failed" /\ batches'[s] = << >> /\ offset'[s] = 0 /\ written'[s] = 0
      /\ received'[s] = << >>
  BY <1>1, <1>2 DEF Shapes
<1>7. pipe[s] = << >> /\ reply[s] = NoReply
  BY <1>1 DEF Link, Exited
<1>8. Link(s)'
  <2>0. << >> \in Seq(Seq(Entries)) /\ DOMAIN << >> = {}
    OBVIOUS
  <2>1. GoodBatches(batches[s], s, bound)'
    BY <1>6, <2>0 DEF GoodBatches, Filled, FromPlan, NoneTwice, ReadsLead
  <2>2. Idle(s)' /\ Exited(s)' /\ InBatch(s)' /\ Exchange(s)' /\ Accounted(s)'
    BY <1>1, <1>2, <1>6, <1>7 DEF Idle, Exited, InBatch, Exchange, Accounted
  <2> QED BY <2>1, <2>2 DEF Link
<1> QED BY <1>3, <1>4, <1>5, <1>8, OthersKept

\* A worker's write puts the next operation of its round into the pipe.
LEMMA WriteOpKeeps ==
  ASSUME Inv, NEW s \in Servers, WriteOp(s)
  PROVE  Inv'
<1> DEFINE b == batches[s][1]
           e == Round(s)[written[s] + 1]
           n == Len(pipe[s])
<1>1. Shapes /\ Link(s) /\ s \notin dead /\ worker[s] = "run" /\ written[s] < Len(Round(s)) /\ n < PipeSize
  BY DEF Inv, WriteOp, Writing
<1>2. /\ pipe' = [pipe EXCEPT ![s] = Append(pipe[s], Translate(s, e))]
      /\ written' = [written EXCEPT ![s] = written[s] + 1]
      /\ UNCHANGED <<bound, slots, worker, batches, offset, received, oram, op_results, dead, ran, reply,
                     killed, broken, goneBefore>>
  BY DEF WriteOp, child, signal
<1>3. /\ 1 \in DOMAIN batches[s] /\ b \in Seq(Entries) /\ Len(b) \in 1 .. BatchSize
      /\ offset[s] \in Nat /\ written[s] \in Nat /\ Len(Round(s)) \in 1 .. FixedBatch
      /\ offset[s] + Len(Round(s)) <= Len(b)
      /\ \A k \in 1 .. Len(Round(s)) : offset[s] + k \in DOMAIN b /\ Round(s)[k] = b[offset[s] + k]
  BY <1>1, RoundOfBatch
<1>4. /\ offset[s] + (written[s] + 1) \in DOMAIN b
      /\ e = b[offset[s] + (written[s] + 1)] /\ e \in Entries
  <2>1. written[s] + 1 \in 1 .. Len(Round(s))
    BY <1>1, <1>3
  <2> HIDE DEF b
  <2> QED BY <1>3, <2>1
<1>5. Translate(s, e) \in Entries
  BY <1>4, TranslateTyped
<1>6. pipe[s] \in Seq(Entries) /\ n \in Nat
  BY <1>1 DEF Shapes
<1> HIDE DEF b, e, n
<1>7. /\ pipe'[s] = Append(pipe[s], Translate(s, e)) /\ written'[s] = written[s] + 1
      /\ pipe'[s] \in Seq(Entries) /\ Len(pipe'[s]) = n + 1 /\ DOMAIN pipe'[s] = 1 .. n + 1
      /\ \A j \in 1 .. n : pipe'[s][j] = pipe[s][j]
      /\ pipe'[s][n + 1] = Translate(s, e)
  BY <1>1, <1>2, <1>5, <1>6 DEF Shapes, n
<1>8. Shapes'
  <2>1. pipe' \in [Servers -> Seq(Entries)] /\ written' \in [Servers -> Nat]
    BY <1>1, <1>2, <1>3, <1>7 DEF Shapes
  <2>2. \A t \in Servers : Len(pipe'[t]) <= PipeSize
    <3> TAKE t \in Servers
    <3>1. t # s => pipe'[t] = pipe[t]
      BY <1>1, <1>2 DEF Shapes
    <3>2. n + 1 <= PipeSize
      BY <1>1, <1>6, BatchAssumption DEF n
    <3> QED BY <1>1, <1>7, <3>1, <3>2 DEF Shapes
  <2>3. pipe' \in [Servers -> Seq(Entries)]'
    BY <2>1 DEF Entries, SlotDummy
  <2> QED BY <1>1, <1>2, <2>1, <2>2, <2>3 DEF Shapes, Slots, NoReply, Entries, SlotDummy
<1>9. Mapped'
  BY <1>2 DEF Inv, Mapped
<1>10. \A t \in Servers \ {s} : SameLink(t)
  BY <1>1, <1>2 DEF SameLink, Shapes
<1>11. Link(s)'
  <2>1. GoodBatches(batches[s], s, bound)'
    BY <1>1, <1>2, SameBatches DEF Link
  <2>2. Idle(s)' /\ Exited(s)'
    BY <1>1, <1>2 DEF Link, Idle, Exited, NoReply
  <2>3. Accounted(s)'
    BY <1>1, <1>2 DEF Link, Accounted, Held, Settled, Slots
  <2>4. InBatch(s)'
    <3>1. offset[s] + (written[s] + 1) <= Len(b) /\ written[s] + 1 <= FixedBatch
      BY <1>1, <1>3, BatchAssumption
    <3> QED BY <1>1, <1>2, <1>7, <3>1 DEF Link, InBatch, b
  <2>5. reply[s] = NoReply
    BY <1>1, <1>3 DEF Link, Exchange
  <2>6. /\ Len(op_results[s]) + n = written[s] /\ Len(op_results[s]) < Len(Round(s))
        /\ \A j \in DOMAIN pipe[s] : pipe[s][j] = Translate(s, b[Executed(s) + j])
    BY <1>1, <2>5 DEF Link, Exchange, b, n
  <2>7. Executed(s) = offset[s] + Len(op_results[s]) /\ Executed(s)' = Executed(s) /\ Round(s)' = Round(s)
    BY <1>1, <1>2, <2>5 DEF Executed, Round, NoReply
  <2>8. Len(op_results[s]) \in Nat
    BY <1>1 DEF Shapes
  <2>12. PICK m \in Nat : m = Len(op_results[s])
    BY <2>8
  <2>13. PICK w \in Nat : w = written[s]
    BY <1>3
  <2>14. PICK o \in Nat : o = offset[s]
    BY <1>3
  <2>15. m + n = w /\ n \in Nat
    BY <1>6, <2>6, <2>12, <2>13
  <2>9. Len(op_results[s]) + Len(pipe'[s]) = written'[s]
    <3>1. m + (n + 1) = w + 1
      BY <2>15
    <3> QED BY <1>7, <2>12, <2>13, <3>1
  <2>10. \A j \in DOMAIN pipe'[s] : pipe'[s][j] = Translate(s, b[Executed(s) + j])
    <3> TAKE j \in DOMAIN pipe'[s]
    <3>1. CASE j \in 1 .. n
      <4>1. j \in DOMAIN pipe[s]
        BY <3>1, <1>6 DEF n
      <4> QED BY <3>1, <4>1, <1>7, <2>6
    <3>2. CASE j = n + 1
      <4>1. Executed(s) + j = offset[s] + (written[s] + 1)
        <5>1. (o + m) + (n + 1) = o + (w + 1)
          BY <2>15
        <5> QED BY <3>2, <2>7, <2>12, <2>13, <2>14, <5>1
      <4> QED BY <3>2, <4>1, <1>4, <1>7
    <3> QED BY <3>1, <3>2, <1>6, <1>7
  <2>11. Exchange(s)'
    <3>1. /\ Len(received'[s]) = offset'[s]
          /\ AreResults(s, received[s], 0)' /\ AreResults(s, op_results[s], offset[s])'
          /\ \A i \in DOMAIN batches'[s] : \A j \in DOMAIN batches'[s][i] :
               batches'[s][i][j].slot # SlotDummy =>
                 (batches'[s][i][j].slot \in DOMAIN ran' <=> i = 1 /\ j <= Executed(s)')
      BY <1>1, <1>2, <2>7 DEF Link, Exchange, AreResults, IsResult, SlotDummy
    <3>2. /\ reply'[s] = NoReply
          /\ Len(op_results'[s]) + Len(pipe'[s]) = written'[s]
          /\ Len(op_results'[s]) < Len(Round(s)')
          /\ \A j \in DOMAIN pipe'[s] : pipe'[s][j] = Translate(s, batches'[s][1][Executed(s)' + j])
      BY <1>2, <2>5, <2>6, <2>7, <2>9, <2>10 DEF b
    <3> QED BY <3>1, <3>2 DEF Exchange, SlotDummy, NoReply, Translate
  <2> QED BY <2>1, <2>2, <2>3, <2>4, <2>11 DEF Link
<1> QED BY <1>1, <1>8, <1>9, <1>10, <1>11, OthersKept

\* One sequence after another.
LEMMA Joined ==
  ASSUME NEW T, NEW x \in Seq(T), NEW y \in Seq(T)
  PROVE  /\ x \o y \in Seq(T) /\ Len(x \o y) = Len(x) + Len(y)
         /\ \A j \in 1 .. Len(x) + Len(y) :
              /\ (x \o y)[j] \in T
              /\ IF j <= Len(x) THEN j \in DOMAIN x /\ (x \o y)[j] = x[j]
                                 ELSE j - Len(x) \in DOMAIN y /\ (x \o y)[j] = y[j - Len(x)]
  OBVIOUS

\* A round's answer completes the results of what has been sent of the batch; the results
\* of a complete batch go to their slots.
LEMMA ReadReplyKeeps ==
  ASSUME Inv, NEW s \in Servers, ReadReply(s)
  PROVE  Inv'
<1> DEFINE B == batches[s]
           b == B[1]
           o == offset[s]
           w == written[s]
           rs == received[s] \o reply[s]
<1>1. Shapes /\ Link(s) /\ s \notin dead /\ worker[s] = "run" /\ w = Len(Round(s)) /\ reply[s] # NoReply
  BY DEF Inv, ReadReply, Awaiting, Link, Exited
<1>2. /\ written' = [written EXCEPT ![s] = 0]
      /\ reply' = [reply EXCEPT ![s] = NoReply]
      /\ worker' = [worker EXCEPT ![s] = IF batches'[s] = << >> THEN "ok" ELSE "run"]
      /\ UNCHANGED <<bound, oram, op_results, dead, ran, pipe, killed, broken, goneBefore>>
  BY DEF ReadReply, child, signal
<1>3. /\ Head(B) = b /\ 1 \in DOMAIN B /\ b \in Seq(Entries) /\ Len(b) \in 1 .. BatchSize
      /\ o \in Nat /\ w \in Nat /\ w <= FixedBatch /\ o + w <= Len(b)
  BY <1>1, RoundOfBatch, BatchAssumption DEF Link, InBatch
<1>4. /\ op_results[s] = << >> /\ pipe[s] = << >> /\ Len(reply[s]) = w /\ Len(received[s]) = o
      /\ AreResults(s, received[s], 0) /\ AreResults(s, reply[s], o)
      /\ \A i \in DOMAIN B : \A j \in DOMAIN B[i] : B[i][j].slot # SlotDummy =>
           (B[i][j].slot \in DOMAIN ran <=> i = 1 /\ j <= o + w)
  BY <1>1 DEF Link, Exchange, Executed
<1>5. received[s] \in Seq(Results) /\ reply[s] \in Seq(Results)
  BY <1>1 DEF Shapes
<1>6. /\ rs \in Seq(Results) /\ Len(rs) = o + w
      /\ \A j \in 1 .. o + w : j \in DOMAIN b /\ rs[j] \in Results /\ IsResult(b[j], rs[j])
  <2>1. /\ rs \in Seq(Results) /\ Len(rs) = o + w
        /\ \A j \in 1 .. o + w :
             /\ rs[j] \in Results
             /\ IF j <= o THEN j \in DOMAIN received[s] /\ rs[j] = received[s][j]
                          ELSE j - o \in DOMAIN reply[s] /\ rs[j] = reply[s][j - o]
    <3>1. PICK x \in Seq(Results) : x = received[s]
      BY <1>5
    <3>2. PICK y \in Seq(Results) : y = reply[s]
      BY <1>5
    <3>3. Len(x) = o /\ Len(y) = w
      BY <1>4, <3>1, <3>2
    <3>4. /\ x \o y \in Seq(Results) /\ Len(x \o y) = Len(x) + Len(y)
          /\ \A j \in 1 .. Len(x) + Len(y) :
               /\ (x \o y)[j] \in Results
               /\ IF j <= Len(x) THEN j \in DOMAIN x /\ (x \o y)[j] = x[j]
                                 ELSE j - Len(x) \in DOMAIN y /\ (x \o y)[j] = y[j - Len(x)]
      BY Joined
    <3>5. rs = x \o y
      BY <3>1, <3>2
    <3> HIDE DEF rs, o, w
    <3> QED BY <3>1, <3>2, <3>3, <3>4, <3>5
  <2>2. \A j \in 1 .. o + w : j \in DOMAIN b
    <3> HIDE DEF b, o, w
    <3> QED BY <1>3
  <2>3. \A j \in 1 .. o + w : IsResult(b[j], rs[j])
    <3> TAKE j \in 1 .. o + w
    <3> HIDE DEF o, rs
    <3>1. 0 + j = j /\ o + (j - o) = j
      BY <1>3
    <3>2. CASE j <= o
      <4>1. j \in DOMAIN received[s] /\ rs[j] = received[s][j]
        BY <3>2, <2>1
      <4>2. IsResult(b[0 + j], received[s][j])
        BY <4>1, <1>4 DEF AreResults
      <4> QED BY <3>1, <4>1, <4>2
    <3>3. CASE ~ (j <= o)
      <4>1. j - o \in DOMAIN reply[s] /\ rs[j] = reply[s][j - o]
        BY <3>3, <2>1
      <4>2. IsResult(b[o + (j - o)], reply[s][j - o])
        BY <4>1, <1>4 DEF AreResults
      <4> QED BY <3>1, <4>1, <4>2
    <3> QED BY <3>2, <3>3
  <2> HIDE DEF rs, b, o, w
  <2> QED BY <2>1, <2>2, <2>3
<1>7. GoodBatches(B, s, bound) /\ B # << >>
  BY <1>1 DEF Link, InBatch
<1>8. RealEntries(B, s, bound)
  BY <1>7, GoodIsReal
<1>9. Mapped'
  BY <1>2 DEF Inv, Mapped
<1>10. /\ written' \in [Servers -> Nat] /\ worker' \in [Servers -> {"none", "run", "ok", "failed"}]
       /\ reply' \in [Servers -> Seq(Results) \cup {NoReply}]
       /\ written'[s] = 0 /\ reply'[s] = NoReply
       /\ worker'[s] = IF batches'[s] = << >> THEN "ok" ELSE "run"
       /\ \A t \in Servers \ {s} : written'[t] = written[t] /\ reply'[t] = reply[t] /\ worker'[t] = worker[t]
  BY <1>1, <1>2 DEF Shapes
<1>11. << >> \in Seq(Results) /\ DOMAIN << >> = {} /\ Len(<< >>) = 0 /\ 0 \in Nat
  OBVIOUS
<1>12. CASE o + w = Len(b)
  <2>1. /\ slots' = Placed(s, rs) /\ received' = [received EXCEPT ![s] = << >>]
        /\ offset' = [offset EXCEPT ![s] = 0] /\ batches' = [batches EXCEPT ![s] = Tail(B)]
    BY <1>3, <1>12 DEF ReadReply
  <2>2. /\ GoodBatches(Tail(B), s, bound)
        /\ \A i \in DOMAIN Tail(B) : i + 1 \in DOMAIN B /\ Tail(B)[i] = B[i + 1] /\ i \in Nat \ {0}
        /\ \A i \in DOMAIN B : i \in Nat /\ (i # 1 => i - 1 \in DOMAIN Tail(B) /\ Tail(B)[i - 1] = B[i])
    <3> HIDE DEF B
    <3> QED BY <1>7, TailGood
  <2>3. /\ batches' \in [Servers -> Seq(Seq(Entries))] /\ offset' \in [Servers -> Nat]
        /\ received' \in [Servers -> Seq(Results)]
        /\ batches'[s] = Tail(B) /\ offset'[s] = 0 /\ received'[s] = << >>
        /\ \A t \in Servers \ {s} : batches'[t] = batches[t] /\ offset'[t] = offset[t] /\ received'[t] = received[t]
    <3>1. Tail(B) \in Seq(Seq(Entries))
      BY <2>2 DEF GoodBatches
    <3> QED BY <1>1, <1>11, <2>1, <3>1 DEF Shapes
  <2>4. /\ slots' \in [Slots -> Results]
        /\ \A slot \in Slots :
             IF \E j \in DOMAIN b : b[j].slot = slot
             THEN slot \in DOMAIN ran /\ slots'[slot] = ran[slot]
             ELSE slots'[slot] = slots[slot]
    <3> DEFINE at(slot) == CHOOSE j \in DOMAIN b : b[j].slot = slot
               Has(slot) == \E j \in DOMAIN b : b[j].slot = slot
    <3>1. slots' = [slot \in Slots |-> IF Has(slot) THEN rs[at(slot)] ELSE slots[slot]]
      BY <2>1, <1>3 DEF Placed
    <3>2. ASSUME NEW slot \in Slots, Has(slot)
          PROVE  rs[at(slot)] \in Results /\ slot \in DOMAIN ran /\ rs[at(slot)] = ran[slot]
      <4>1. at(slot) \in DOMAIN b /\ b[at(slot)].slot = slot
        BY <3>2
      <4> HIDE DEF at
      <4>2. at(slot) \in 1 .. o + w
        BY <4>1, <1>3, <1>12
      <4>3. slot # SlotDummy
        BY <1>1, PlanTyped
      <4> HIDE DEF rs, b
      <4> QED BY <4>1, <4>2, <4>3, <1>6 DEF IsResult
    <3>3. slots \in [Slots -> Results]
      BY <1>1 DEF Shapes
    <3> HIDE DEF at, Has, rs
    <3>4. slots' \in [Slots -> Results]
      BY <3>1, <3>2, <3>3
    <3>5. \A slot \in Slots : IF Has(slot) THEN slot \in DOMAIN ran /\ slots'[slot] = ran[slot]
                              ELSE slots'[slot] = slots[slot]
      BY <3>1, <3>2
    <3> QED BY <3>4, <3>5 DEF Has
  <2>5. Shapes'
    <3>1. slots' \in [Slots -> Results]' /\ reply' \in [Servers -> Seq(Results) \cup {NoReply}]'
      BY <1>2, <1>10, <2>4 DEF Slots, NoReply
    <3> QED BY <1>1, <1>2, <1>10, <2>3, <3>1 DEF Shapes, Entries, SlotDummy
  <2>6. \A t \in Servers \ {s} : SameLink(t)
    <3> TAKE t \in Servers \ {s}
    <3>1. ASSUME NEW slot \in Slots, bound[slot].key[1] = t PROVE slots'[slot] = slots[slot]
      <4>1. SUFFICES ASSUME NEW j \in DOMAIN b, b[j].slot = slot PROVE FALSE
        BY <2>4
      <4>2. slot # SlotDummy
        BY <1>1, PlanTyped
      <4>3. bound[slot].key[1] = s
        BY <4>1, <4>2, <1>3, <1>8 DEF RealEntries
      <4> QED BY <3>1, <4>3
    <3> QED BY <3>1, <1>2, <1>10, <2>3 DEF SameLink
  <2>7. GoodBatches(batches[s], s, bound)'
    BY <2>2, <2>3, <1>2, SameBatches
  <2>8. Idle(s)' /\ Exited(s)'
    BY <1>1, <1>2, <1>4, <1>10, <1>11, <2>3 DEF Idle, Exited, NoReply
  <2>9. Accounted(s)'
    <3>1. SUFFICES ASSUME NEW slot \in Slots, bound[slot].key[1] = s
                   PROVE  Held(Tail(B), slot) \/ (slot \in DOMAIN ran /\ slots'[slot] = ran[slot])
      <4>1. worker'[s] # "none" /\ Slots' = Slots
        BY <1>2, <1>10 DEF Slots
      <4>2. \A slot \in Slots : bound[slot].key[1] = s =>
              Held(batches'[s], slot) \/ (slot \in DOMAIN ran /\ slots'[slot] = ran[slot])
        BY <3>1, <2>3
      <4> HIDE DEF B
      <4> QED BY <4>1, <4>2, <1>2 DEF Accounted, Held, Settled, Slots
    <3>2. Held(B, slot) \/ Settled(slot)
      BY <1>1, <3>1 DEF Link, Accounted
    <3>3. CASE Settled(slot)
      BY <3>3, <2>4 DEF Settled
    <3>4. CASE Held(B, slot)
      <4>1. PICK i \in DOMAIN B : \E j \in DOMAIN B[i] : B[i][j].slot = slot
        BY <3>4 DEF Held
      <4>2. PICK j \in DOMAIN B[i] : B[i][j].slot = slot
        BY <4>1
      <4>3. CASE i = 1
        BY <4>2, <4>3, <2>4
      <4>4. CASE i # 1
        <5>1. i - 1 \in DOMAIN Tail(B) /\ Tail(B)[i - 1] = B[i]
          BY <4>4, <2>2
        <5> HIDE DEF B
        <5> QED BY <4>2, <5>1 DEF Held
      <4> QED BY <4>3, <4>4
    <3> QED BY <3>2, <3>3, <3>4
  <2>10. worker'[s] = "run" => batches'[s] # << >> /\ 0 < Len(batches'[s][1])
    <3> HAVE worker'[s] = "run"
    <3>1. batches'[s] # << >>
      BY <1>10
    <3>2. Tail(B) \in Seq(Seq(Entries)) /\ Tail(B) # << >> /\ Filled(Tail(B))
      BY <2>2, <2>3, <3>1 DEF GoodBatches
    <3>3. 1 \in DOMAIN Tail(B)
      <4> HIDE DEF B
      <4> QED BY <3>2
    <3>4. Len(Tail(B)[1]) \in 1 .. BatchSize
      BY <3>2, <3>3 DEF Filled
    <3>5. batches'[s][1] = Tail(B)[1]
      BY <2>3
    <3> HIDE DEF B
    <3>6. 0 < Len(Tail(B)[1])
      <4>1. PICK n \in 1 .. BatchSize : n = Len(Tail(B)[1])
        BY <3>4
      <4>2. 0 < n
        BY BatchAssumption
      <4> QED BY <4>1, <4>2
    <3> QED BY <3>1, <3>5, <3>6
  <2>11. InBatch(s)'
    <3>1. worker'[s] = "run" => Len(batches'[s][1]) \in Nat
      <4> HAVE worker'[s] = "run"
      <4>1. Tail(B) \in Seq(Seq(Entries)) /\ Tail(B) # << >>
        BY <2>2, <2>3, <2>10 DEF GoodBatches
      <4>2. Tail(B)[1] \in Seq(Entries)
        <5> HIDE DEF B
        <5> QED BY <4>1
      <4> QED BY <4>2, <2>3
    <3>2. worker'[s] = "run" => 0 + 0 <= Len(batches'[s][1])
      BY <2>10, <3>1
    <3>3. 0 <= FixedBatch
      BY BatchAssumption
    <3>4. offset'[s] = 0 /\ written'[s] = 0
      BY <1>10, <2>3
    <3> QED BY <2>10, <3>2, <3>3, <3>4 DEF InBatch
  <2>12. Exchange(s)'
    <3>1. SUFFICES ASSUME worker'[s] = "run" PROVE Exchange(s)'
      BY DEF Exchange
    <3>2. Len(Round(s)') \in 1 .. FixedBatch
      BY <2>3, <2>7, <2>10, <3>1, <1>11, FirstRound
    <3>3. Executed(s)' = 0
      BY <1>2, <1>4, <1>10, <1>11, <2>3 DEF Executed, NoReply
    <3>4. ASSUME NEW i \in DOMAIN batches'[s], NEW j \in DOMAIN batches'[s][i],
                 batches'[s][i][j].slot # SlotDummy
          PROVE  batches'[s][i][j].slot \in DOMAIN ran' <=> i = 1 /\ j <= 0
      <4>1. i + 1 \in DOMAIN B /\ batches'[s][i] = B[i + 1] /\ i + 1 # 1 /\ i \in Nat
        BY <2>2, <2>3
      <4>2. batches'[s][i][j].slot \notin DOMAIN ran
        <5> HIDE DEF B
        <5> QED BY <4>1, <3>4, <1>4
      <4>3. j \in Nat \ {0}
        <5>1. B[i + 1] \in Seq(Entries)
          <6> HIDE DEF B
          <6> QED BY <4>1, <1>7 DEF GoodBatches
        <5> QED BY <4>1, <5>1
      <4> QED BY <4>2, <4>3, <1>2
    <3>5. /\ received'[s] = << >> /\ op_results'[s] = << >> /\ pipe'[s] = << >> /\ offset'[s] = 0
          /\ written'[s] = 0 /\ reply'[s] = NoReply /\ 0 < Len(Round(s)')
      BY <1>2, <1>4, <1>10, <2>3, <3>2, BatchAssumption
    <3> QED BY <3>3, <3>4, <3>5, <1>11 DEF Exchange, AreResults, SlotDummy, NoReply
  <2>13. Link(s)'
    BY <2>7, <2>8, <2>9, <2>11, <2>12 DEF Link
  <2> QED BY <1>9, <2>5, <2>6, <2>13, OthersKept
<1>13. CASE o + w # Len(b)
  <2>1. /\ received' = [received EXCEPT ![s] = rs] /\ offset' = [offset EXCEPT ![s] = o + w]
        /\ slots' = slots /\ batches' = batches
    BY <1>3, <1>13 DEF ReadReply
  <2>2. worker'[s] = "run"
    BY <1>7, <1>10, <2>1
  <2>3. /\ offset' \in [Servers -> Nat] /\ received' \in [Servers -> Seq(Results)]
        /\ offset'[s] = o + w /\ received'[s] = rs
        /\ \A t \in Servers \ {s} : offset'[t] = offset[t] /\ received'[t] = received[t]
    <3>1. o + w \in Nat
      BY <1>3
    <3> HIDE DEF rs, w
    <3> QED BY <1>1, <1>6, <2>1, <3>1 DEF Shapes
  <2>4. Shapes'
    <3>1. reply' \in [Servers -> Seq(Results) \cup {NoReply}]'
      BY <1>10 DEF NoReply
    <3> QED BY <1>1, <1>2, <1>10, <2>1, <2>3, <3>1 DEF Shapes, Slots, Entries, SlotDummy
  <2>5. \A t \in Servers \ {s} : SameLink(t)
    BY <1>2, <1>10, <2>1, <2>3 DEF SameLink
  <2>6. GoodBatches(batches[s], s, bound)'
    BY <1>2, <1>7, <2>1, SameBatches
  <2>7. Idle(s)' /\ Exited(s)'
    BY <1>1, <1>2, <2>2 DEF Idle, Exited
  <2>8. Accounted(s)'
    BY <1>1, <1>2, <2>1, <2>2 DEF Link, Accounted, Held, Settled, Slots
  <2>9. InBatch(s)'
    <3>1. o + w < Len(b) /\ (o + w) + 0 <= Len(b) /\ 0 <= FixedBatch
      <4> HIDE DEF o, w, b
      <4> QED BY <1>3, <1>13, BatchAssumption
    <3> QED BY <1>7, <1>10, <2>1, <2>3, <3>1 DEF InBatch
  <2>10. Exchange(s)'
    <3>1. Len(Round(s)') \in 1 .. FixedBatch
      <4>1. o + w < Len(b) /\ o + w \in Nat
        <5> HIDE DEF o, w, b
        <5> QED BY <1>3, <1>13
      <4> QED BY <4>1, <1>7, <2>1, <2>3, <2>6, FirstRound
    <3>2. Executed(s)' = o + w
      <4>1. o + w + 0 = o + w
        BY <1>3
      <4> QED BY <4>1, <1>2, <1>4, <1>10, <1>11, <2>3 DEF Executed, NoReply
    <3>3. \A j \in DOMAIN rs : 0 + j = j /\ j \in 1 .. o + w
      <4> HIDE DEF rs, o, w
      <4> QED BY <1>3, <1>6
    <3>4. AreResults(s, received[s], 0)'
      <4>1. \A j \in DOMAIN rs : IsResult(b[0 + j], rs[j])
        <5> HIDE DEF rs, o, w, b
        <5> QED BY <1>6, <3>3
      <4> HIDE DEF rs
      <4> QED BY <4>1, <1>2, <2>1, <2>3 DEF AreResults, IsResult, SlotDummy
    <3>5. /\ op_results'[s] = << >> /\ pipe'[s] = << >> /\ Len(received'[s]) = offset'[s]
          /\ written'[s] = 0 /\ reply'[s] = NoReply /\ 0 < Len(Round(s)')
      BY <1>2, <1>4, <1>6, <1>10, <2>3, <3>1, BatchAssumption
    <3>6. \A i \in DOMAIN batches'[s] : \A j \in DOMAIN batches'[s][i] : batches'[s][i][j].slot # SlotDummy =>
            (batches'[s][i][j].slot \in DOMAIN ran' <=> i = 1 /\ j <= o + w)
      BY <1>2, <1>4, <2>1
    <3> QED BY <3>2, <3>4, <3>5, <3>6, <1>11 DEF Exchange, AreResults, SlotDummy, NoReply
  <2>11. Link(s)'
    BY <2>6, <2>7, <2>8, <2>9, <2>10 DEF Link
  <2> QED BY <1>9, <2>4, <2>5, <2>11, OthersKept
<1> QED BY <1>12, <1>13

\* A call starts from nothing on its way.
LEMMA ExecuteOramOpsKeeps ==
  ASSUME Inv, NEW ops \in Calls, NEW pad \in BOOLEAN, ExecuteOramOps(ops, pad)
  PROVE  Inv'
<1>1. Shapes /\ \A s \in Servers : Link(s) /\ worker[s] # "run"
  BY DEF Inv, ExecuteOramOps, Returned
<1>2. /\ bound' = ops
      /\ slots' = [slot \in DOMAIN ops |-> None]
      /\ worker' = [s \in Servers |-> IF s \in Contacted(ops) THEN "run" ELSE "none"]
      /\ batches' = [s \in Servers |-> BatchesOf(s, ops, pad)]
      /\ ran' = << >>
      /\ goneBefore' = dead
      /\ UNCHANGED <<offset, written, received, oram, op_results, dead, pipe, reply, killed, broken>>
  BY DEF ExecuteOramOps, channels, signal
<1>3. ops \in Seq(Operations)
  BY CallsAssumption
<1>4. \A s \in Servers :
        /\ GoodBatches(batches'[s], s, ops)
        /\ \A slot \in DOMAIN ops : ops[slot].key[1] = s => Held(batches'[s], slot)
        /\ batches'[s] # << >> <=> s \in Contacted(ops)
        /\ worker'[s] = IF s \in Contacted(ops) THEN "run" ELSE "none"
  BY <1>2, <1>3, BatchesGood
<1>5. Shapes'
  <2>1. None \in Results
    BY DEF Results
  <2>2. batches' \in [Servers -> Seq(Seq(Entries))]
    BY <1>2, <1>4 DEF GoodBatches
  <2>3. slots' \in [Slots -> Results]'
    BY <1>2, <2>1 DEF Slots
  <2>4. worker' \in [Servers -> {"none", "run", "ok", "failed"}]
    BY <1>2
  <2> QED BY <1>1, <1>2, <2>2, <2>3, <2>4 DEF Shapes, NoReply, Entries, SlotDummy
<1>6. Mapped'
  BY <1>2 DEF Inv, Mapped
<1>7. ASSUME NEW s \in Servers PROVE Link(s)'
  <2>1. /\ offset'[s] = 0 /\ written'[s] = 0 /\ received'[s] = << >>
        /\ pipe'[s] = << >> /\ reply'[s] = NoReply
        /\ s \notin dead' => op_results'[s] = << >>
    BY <1>1, <1>2 DEF Link, Idle
  <2>2. GoodBatches(batches[s], s, bound)'
    BY <1>2, <1>4, SameBatches
  <2>3. Idle(s)' /\ Exited(s)'
    BY <1>2, <1>4, <2>1 DEF Idle, Exited, NoReply
  <2>4. Accounted(s)'
    <3>1. \A slot \in DOMAIN ops : ops[slot].key[1] = s => s \in Contacted(ops)
      BY DEF Contacted
    <3> QED BY <1>2, <1>4, <3>1 DEF Accounted, Held, Slots
  <2>5. worker'[s] = "run" =>
          /\ batches'[s] # << >> /\ 0 < Len(batches'[s][1]) /\ 0 + 0 <= Len(batches'[s][1])
    <3> HAVE worker'[s] = "run"
    <3>1. PICK B : B = batches'[s]
      OBVIOUS
    <3>2. B \in Seq(Seq(Entries)) /\ B # << >> /\ Filled(B)
      BY <1>4, <3>1 DEF GoodBatches
    <3>3. 1 \in DOMAIN B
      BY <3>2
    <3>4. PICK n \in 1 .. BatchSize : n = Len(B[1])
      BY <3>2, <3>3 DEF Filled
    <3>5. 0 < n /\ 0 + 0 <= n
      BY BatchAssumption
    <3> QED BY <3>1, <3>2, <3>4, <3>5
  <2>6. InBatch(s)'
    <3>1. 0 <= FixedBatch
      BY BatchAssumption
    <3> QED BY <2>1, <2>5, <3>1 DEF InBatch
  <2>7. Exchange(s)'
    <3>1. SUFFICES ASSUME worker'[s] = "run", s \notin dead' PROVE Exchange(s)'
      BY DEF Exchange
    <3>2. Len(Round(s)') \in 1 .. FixedBatch
      BY <2>1, <2>2, <2>5, <3>1, FirstRound
    <3>3. DOMAIN << >> = {} /\ Len(<< >>) = 0 /\ 0 + 0 = 0
      OBVIOUS
    <3>4. 0 < Len(Round(s)')
      BY <3>2, BatchAssumption
    <3>5. Executed(s)' = 0
      BY <2>1, <3>1, <3>3 DEF Executed, NoReply
    <3>6. ASSUME NEW i \in DOMAIN batches'[s], NEW j \in DOMAIN batches'[s][i]
          PROVE  ~ (j <= 0)
      <4>1. PICK B \in Seq(Seq(Entries)) : B = batches'[s]
        BY <1>4 DEF GoodBatches
      <4>2. B[i] \in Seq(Entries) /\ j \in DOMAIN B[i]
        BY <4>1, <3>6
      <4> QED BY <4>2
    <3> QED BY <1>2, <2>1, <3>1, <3>3, <3>4, <3>5, <3>6 DEF Exchange, AreResults, NoReply
  <2> QED BY <2>2, <2>3, <2>4, <2>6, <2>7 DEF Link
<1> QED BY <1>5, <1>6, <1>7 DEF Inv

\* The operation a child takes next is the first of the batch it has not executed.
LEMMA NextEntry ==
  ASSUME Inv, NEW s \in Servers, ChildAccess(s)
  PROVE  LET b == batches[s][1]
             p == offset[s] + Len(op_results[s])
             d == b[p + 1]
         IN
         /\ worker[s] = "run" /\ s \notin dead /\ reply[s] = NoReply
         /\ 1 \in DOMAIN batches[s] /\ b \in Seq(Entries)
         /\ Len(Round(s)) \in 1 .. FixedBatch /\ written[s] <= Len(Round(s))
         /\ offset[s] + written[s] <= Len(b)
         /\ Len(op_results[s]) + Len(pipe[s]) = written[s]
         /\ p \in Nat /\ p + 1 \in DOMAIN b /\ d \in Entries
         /\ \A j \in DOMAIN pipe[s] : pipe[s][j] = Translate(s, b[p + j])
         /\ Head(pipe[s]) = Translate(s, d)
         /\ \A i \in DOMAIN batches[s] : \A j \in DOMAIN batches[s][i] :
              batches[s][i][j].slot # SlotDummy =>
                (batches[s][i][j].slot \in DOMAIN ran <=> i = 1 /\ j <= p)
         /\ d.slot # SlotDummy =>
              /\ d.slot \notin DOMAIN ran /\ d.slot \in Slots /\ bound[d.slot].key[1] = s
              /\ d = Entry(d.slot, bound[d.slot])
<1> DEFINE B == batches[s]
           o == offset[s]
           w == written[s]
           m == Len(op_results[s])
           n == Len(pipe[s])
           b == B[1]
           p == o + m
           d == b[p + 1]
<1>1. Shapes /\ Link(s) /\ s \notin dead /\ pipe[s] # << >>
  BY DEF Inv, ChildAccess
<1>2. worker[s] = "run" /\ reply[s] = NoReply
  BY <1>1 DEF Link, Idle, Exchange
<1>4. /\ 1 \in DOMAIN B /\ b \in Seq(Entries) /\ o \in Nat /\ w \in Nat /\ o + w <= Len(b)
      /\ Len(Round(s)) \in 1 .. FixedBatch /\ w <= Len(Round(s))
  BY <1>1, <1>2, RoundOfBatch DEF Link, InBatch
<1>5. m \in Nat /\ n \in Nat /\ n # 0 /\ pipe[s] \in Seq(Entries)
  BY <1>1 DEF Shapes
<1>6. /\ m + n = w
      /\ \A j \in DOMAIN pipe[s] : pipe[s][j] = Translate(s, b[p + j])
      /\ \A i \in DOMAIN B : \A j \in DOMAIN B[i] : B[i][j].slot # SlotDummy =>
           (B[i][j].slot \in DOMAIN ran <=> i = 1 /\ j <= p)
  BY <1>1, <1>2 DEF Link, Exchange, Executed
<1>7. p \in Nat /\ p + 1 \in DOMAIN b /\ ~ (p + 1 <= p)
  <2>1. p = o + m
    OBVIOUS
  <2> HIDE DEF o, m, w, n, b, p
  <2> QED BY <2>1, <1>4, <1>5, <1>6
<1>8. d \in Entries
  <2> HIDE DEF b, p
  <2> QED BY <1>4, <1>7
<1>9. Head(pipe[s]) = Translate(s, d)
  <2>1. 1 \in DOMAIN pipe[s] /\ Head(pipe[s]) = pipe[s][1]
    BY <1>1, <1>5
  <2> HIDE DEF b, p
  <2> QED BY <1>6, <2>1
<1>10. d.slot # SlotDummy => /\ d.slot \notin DOMAIN ran /\ d.slot \in Slots /\ bound[d.slot].key[1] = s
                             /\ d = Entry(d.slot, bound[d.slot])
  <2>1. RealEntries(B, s, bound)
    BY <1>1, GoodIsReal DEF Link
  <2> HIDE DEF B, p
  <2> QED BY <1>4, <1>6, <1>7, <2>1 DEF RealEntries, Slots
<1> QED BY <1>1, <1>2, <1>4, <1>6, <1>7, <1>8, <1>9, <1>10

\* A child's access completes the results of one more operation of the round.
LEMMA ChildAccessKeeps ==
  ASSUME Inv, NEW s \in Servers, ChildAccess(s)
  PROVE  Inv'
<1> DEFINE B == batches[s]
           b == B[1]
           o == offset[s]
           w == written[s]
           m == Len(op_results[s])
           n == Len(pipe[s])
           e == Head(pipe[s])
           result == IF IsRead(e) THEN oram[s][e.key] ELSE None
           results == Append(op_results[s], result)
           d == b[o + m + 1]
<1>1. Shapes /\ Link(s) /\ s \notin dead /\ pipe[s] # << >> /\ bound \in Seq(Operations)
  BY PlanTyped DEF Inv, ChildAccess
<1>2. worker[s] = "run" /\ reply[s] = NoReply
  BY <1>1 DEF Link, Idle, Exchange
<1>3. /\ pipe' = [pipe EXCEPT ![s] = Tail(pipe[s])]
      /\ oram' = [oram EXCEPT ![s][e.key] = NewContent(s, e)]
      /\ ran' = [slot \in DOMAIN ran \cup {e.slot} |-> IF slot = e.slot THEN result ELSE ran[slot]]
      /\ \/ /\ Len(results) = Len(Round(s))
            /\ reply' = [reply EXCEPT ![s] = results]
            /\ op_results' = [op_results EXCEPT ![s] = << >>]
         \/ /\ Len(results) # Len(Round(s))
            /\ op_results' = [op_results EXCEPT ![s] = results]
            /\ reply' = reply
      /\ UNCHANGED <<bound, slots, worker, batches, offset, written, received, dead, killed, broken, goneBefore>>
  BY DEF ChildAccess, RoundOver, proxy, signal
<1>4. /\ 1 \in DOMAIN B /\ b \in Seq(Entries) /\ o \in Nat /\ w \in Nat /\ o + w <= Len(b)
      /\ Len(Round(s)) \in 1 .. FixedBatch /\ w <= Len(Round(s))
  BY <1>1, NextEntry DEF Shapes
<1>5. m \in Nat /\ n \in Nat /\ n # 0 /\ op_results[s] \in Seq(Results) /\ pipe[s] \in Seq(Entries)
  BY <1>1 DEF Shapes
<1>6. /\ m + n = w /\ m < Len(Round(s)) /\ Len(received[s]) = o
      /\ AreResults(s, received[s], 0) /\ AreResults(s, op_results[s], o)
      /\ \A j \in DOMAIN pipe[s] : pipe[s][j] = Translate(s, b[o + m + j])
      /\ \A i \in DOMAIN B : \A j \in DOMAIN B[i] : B[i][j].slot # SlotDummy =>
           (B[i][j].slot \in DOMAIN ran <=> i = 1 /\ j <= o + m)
  BY <1>1, <1>2 DEF Link, Exchange, Executed
<1>7. /\ o + m + 1 \in DOMAIN b /\ d \in Entries /\ e = Translate(s, d) /\ e \in Entries
      /\ o + m \in Nat /\ ~ (o + m + 1 <= o + m)
  <2>1. o + m + 1 \in DOMAIN b /\ o + m \in Nat /\ d \in Entries /\ e = Translate(s, d)
    BY NextEntry
  <2>2. ~ (o + m + 1 <= o + m)
    <3> HIDE DEF o, m
    <3> QED BY <2>1
  <2>3. e \in Entries
    BY <1>1, <1>5
  <2> HIDE DEF e, d, b, o, m
  <2> QED BY <2>1, <2>2, <2>3
<1>8. e.slot = d.slot /\ e.type = d.type /\ e.val = d.val
  <2> HIDE DEF e, d
  <2> QED BY <1>7, TranslateTyped
<1>9. RealEntries(B, s, bound) /\ NoneTwice(B) /\ GoodBatches(B, s, bound)
  BY <1>1, GoodIsReal DEF Link, GoodBatches
<1>10. d.slot # SlotDummy => /\ d.slot \notin DOMAIN ran /\ d.slot \in Slots /\ bound[d.slot].key[1] = s
                             /\ d = Entry(d.slot, bound[d.slot])
  BY NextEntry
<1>11. \A slot \in Slots : slot # SlotDummy
  BY <1>1, PlanTyped
<1>12. DOMAIN ran' = DOMAIN ran \cup {d.slot} /\ ran'[d.slot] = result
       /\ \A x \in DOMAIN ran : x # d.slot => ran'[x] = ran[x]
  <2> HIDE DEF e, d, result
  <2> QED BY <1>3, <1>8
<1>13. oram \in [Servers -> [BlockIds -> Results]] /\ e.key \in BlockIds /\ e.val \in Results /\ e.type \in Types
  <2> HIDE DEF e
  <2> QED BY <1>1, <1>7 DEF Shapes, Entries
<1>14. result \in Results /\ NewContent(s, e) \in Results
  <2> HIDE DEF e
  <2> QED BY <1>13 DEF NewContent, Results
<1>15. NewContent(s, e) # None \/ NewContent(s, e) = oram[s][e.key]
  <2>1. CASE d.slot = SlotDummy
    <3>1. d = DummyEntry
      <4>1. b = B[1]
        OBVIOUS
      <4>2. \/ d = DummyEntry
            \/ \E slot \in DOMAIN bound : d = Entry(slot, bound[slot])
        <5> HIDE DEF B, o, m
        <5> QED BY <1>4, <1>7, <1>9 DEF GoodBatches, FromPlan
      <4>3. \A slot \in DOMAIN bound : Entry(slot, bound[slot]).slot # SlotDummy
        BY <1>11 DEF Entry, Slots
      <4> HIDE DEF d
      <4> QED BY <2>1, <4>2, <4>3
    <3>2. e.type = "READ"
      <4> HIDE DEF e, d
      <4> QED BY <3>1, <1>8 DEF DummyEntry
    <3> QED BY <3>2 DEF NewContent
  <2>2. CASE d.slot # SlotDummy
    <3>1. bound[d.slot] \in Operations /\ d = Entry(d.slot, bound[d.slot])
      <4> HIDE DEF d
      <4> QED BY <2>2, <1>1, <1>10, PlanTyped
    <3>2. d.type # "READ" => d.val \in Values
      <4> HIDE DEF d
      <4> QED BY <3>1 DEF Operations, Entry
    <3>3. e.type # "READ" => e.val # None
      <4> HIDE DEF e, d
      <4> QED BY <3>2, <1>8, ResultsAssumption
    <3> HIDE DEF e
    <3> QED BY <3>3 DEF NewContent
  <2> QED BY <2>1, <2>2
<1>16. oram' \in [Servers -> [BlockIds -> Results]]
       /\ \A t \in Servers : \A k \in BlockIds :
            oram'[t][k] = oram[t][k] \/ (t = s /\ k = e.key /\ oram'[t][k] = NewContent(s, e))
  <2> HIDE DEF e
  <2> QED BY <1>3, <1>13, <1>14
<1>17. Mapped'
  <2>1. ASSUME NEW k \in DOMAIN pk_to_blockid PROVE oram'[k[1]][pk_to_blockid[k]] # None
    <3>1. k[1] \in Servers /\ pk_to_blockid[k] \in BlockIds
      BY MapAssumption DEF Keys
    <3>2. oram[k[1]][pk_to_blockid[k]] # None
      BY DEF Inv, Mapped
    <3> HIDE DEF e
    <3> QED BY <3>1, <3>2, <1>15, <1>16
  <2> QED BY <2>1 DEF Mapped
<1>18. results \in Seq(Results) /\ Len(results) = m + 1
       /\ \A j \in 1 .. m : results[j] = op_results[s][j] /\ j \in DOMAIN op_results[s]
       /\ results[m + 1] = result
  <2> HIDE DEF result
  <2> QED BY <1>5, <1>14
<1>19. results # NoReply
  <2>1. results # << >> => results[1] \in Results
    <3> HIDE DEF results, result
    <3> QED BY <1>18
  <2>2. NoReply # << >> /\ NoReply[1] = -1
    BY DEF NoReply
  <2> HIDE DEF results, result
  <2> QED BY <2>1, <2>2, NoReplyAssumption
<1>20. Tail(pipe[s]) \in Seq(Entries) /\ Len(Tail(pipe[s])) = n - 1
       /\ \A j \in DOMAIN Tail(pipe[s]) : j + 1 \in DOMAIN pipe[s] /\ Tail(pipe[s])[j] = pipe[s][j + 1] /\ j \in Nat
  BY <1>1, <1>5
<1>21. \A i \in DOMAIN B : \A j \in DOMAIN B[i] : \A r : IsResult(B[i][j], r) =>
         (B[i][j].slot # SlotDummy => B[i][j].slot \in DOMAIN ran' /\ r = ran'[B[i][j].slot])
  <2> HIDE DEF d, B
  <2> QED BY <1>10, <1>12 DEF IsResult
<1>22. \A j \in 1 .. m + 1 : b[o + j].slot # SlotDummy =>
         b[o + j].slot \in DOMAIN ran' /\ results[j] = ran'[b[o + j].slot]
  <2> TAKE j \in 1 .. m + 1
  <2>1. CASE j \in 1 .. m
    <3>1. IsResult(b[o + j], results[j])
      <4> HIDE DEF results, result, b, o, m
      <4> QED BY <2>1, <1>6, <1>18 DEF AreResults, b
    <3>2. o + j \in DOMAIN b
      <4> HIDE DEF b, o, m, w, n
      <4> QED BY <2>1, <1>4, <1>5, <1>6
    <3> HIDE DEF results, result, o, m
    <3> QED BY <3>1, <3>2, <1>4, <1>21
  <2>2. CASE j = m + 1
    <3>1. o + j = o + m + 1
      <4> HIDE DEF o, m
      <4> QED BY <2>2, <1>4, <1>5
    <3>2. results[j] = result
      BY <2>2, <1>18
    <3> HIDE DEF results, result, b, o, m
    <3> QED BY <3>1, <3>2, <1>12
  <2>3. j \in 1 .. m \/ j = m + 1
    <3> HIDE DEF m
    <3> QED BY <1>5
  <2> QED BY <2>1, <2>2, <2>3
<1>23. \A i \in DOMAIN B : \A j \in DOMAIN B[i] : B[i][j].slot # SlotDummy =>
         (B[i][j].slot \in DOMAIN ran' <=> i = 1 /\ j <= o + m + 1)
  <2> TAKE i \in DOMAIN B
  <2> TAKE j \in DOMAIN B[i]
  <2> HAVE B[i][j].slot # SlotDummy
  <2>1. B[i][j].slot \in DOMAIN ran <=> i = 1 /\ j <= o + m
    BY <1>6
  <2>2. B[i][j].slot = d.slot <=> i = 1 /\ j = o + m + 1
    <3> HIDE DEF B, o, m
    <3> QED BY <1>4, <1>7, <1>9 DEF NoneTwice
  <2>3. j \in Nat
    <3>1. B[i] \in Seq(Entries)
      <4> HIDE DEF B
      <4> QED BY <1>9 DEF GoodBatches
    <3> HIDE DEF B
    <3> QED BY <3>1
  <2>4. j <= o + m + 1 <=> j <= o + m \/ j = o + m + 1
    <3> HIDE DEF o, m
    <3> QED BY <2>3, <1>7
  <2> HIDE DEF B, b, o, m, d
  <2> QED BY <2>1, <2>2, <2>4, <1>12
<1>24. AreResults(s, received[s], 0)'
  <2>1. \A j \in DOMAIN received[s] : 0 + j \in DOMAIN b
    <3>1. received[s] \in Seq(Results)
      BY <1>1 DEF Shapes
    <3> HIDE DEF b, o, w
    <3> QED BY <3>1, <1>4, <1>6
  <2>2. \A j \in DOMAIN received[s] : b[0 + j].slot # SlotDummy =>
          b[0 + j].slot \in DOMAIN ran' /\ received[s][j] = ran'[b[0 + j].slot]
    <3>1. \A j \in DOMAIN received[s] : IsResult(b[0 + j], received[s][j])
      BY <1>6 DEF AreResults
    <3> QED BY <2>1, <3>1, <1>4, <1>21
  <2> QED BY <2>2, <1>3 DEF AreResults, IsResult, SlotDummy
<1>25. \A t \in Servers \ {s} : SameLink(t)
  <2> TAKE t \in Servers \ {s}
  <2>1. ASSUME NEW slot \in Slots, bound[slot].key[1] = t
        PROVE  /\ slot \in DOMAIN ran' <=> slot \in DOMAIN ran
               /\ slot \in DOMAIN ran => ran'[slot] = ran[slot]
    <3>1. slot # d.slot
      <4> HIDE DEF d
      <4> QED BY <2>1, <1>10, <1>11
    <3> HIDE DEF d
    <3> QED BY <3>1, <1>12
  <2>2. pipe'[t] = pipe[t] /\ op_results'[t] = op_results[t] /\ reply'[t] = reply[t]
    BY <1>1, <1>3 DEF Shapes
  <2> HIDE DEF e, d, result, results
  <2> QED BY <2>1, <2>2, <1>3 DEF SameLink
<1>26. GoodBatches(batches[s], s, bound)'
  BY <1>3, <1>9, SameBatches
<1>27. Exited(s)' /\ InBatch(s)' /\ Idle(s)'
  BY <1>1, <1>2, <1>3 DEF Link, Exited, InBatch, Idle
<1>28. Accounted(s)'
  <2>1. ASSUME NEW slot \in Slots, Settled(slot) PROVE slot \in DOMAIN ran' /\ slots[slot] = ran'[slot]
    <3>1. slot # d.slot
      <4> HIDE DEF d
      <4> QED BY <2>1, <1>10, <1>11 DEF Settled
    <3> HIDE DEF d
    <3> QED BY <2>1, <3>1, <1>12 DEF Settled
  <2> QED BY <2>1, <1>1, <1>3 DEF Link, Accounted, Held, Settled, Slots
<1>29. Round(s)' = Round(s)
  BY <1>3 DEF Round
<1>30. pipe' \in [Servers -> Seq(Entries)] /\ pipe'[s] = Tail(pipe[s])
       /\ \A t \in Servers : Len(pipe'[t]) <= PipeSize
  <2>1. pipe \in [Servers -> Seq(Entries)] /\ pipe' = [pipe EXCEPT ![s] = Tail(pipe[s])]
    BY <1>1, <1>3 DEF Shapes
  <2>2. n - 1 <= PipeSize
    <3>1. n <= PipeSize
      BY <1>1 DEF Shapes
    <3> HIDE DEF n
    <3> QED BY <3>1, <1>5, BatchAssumption
  <2>3. \A t \in Servers \ {s} : pipe'[t] = pipe[t] /\ Len(pipe[t]) <= PipeSize
    BY <1>1, <2>1 DEF Shapes
  <2>4. pipe'[s] = Tail(pipe[s])
    BY <2>1
  <2>5. pipe' \in [Servers -> Seq(Entries)]
    BY <1>20, <2>1
  <2> HIDE DEF n
  <2> QED BY <2>2, <2>3, <2>4, <2>5, <1>20
<1>31. CASE Len(results) = Len(Round(s))
  <2>1. reply' = [reply EXCEPT ![s] = results] /\ op_results' = [op_results EXCEPT ![s] = << >>]
    BY <1>3, <1>31
  <2>2. /\ reply' \in [Servers -> Seq(Results) \cup {NoReply}] /\ op_results' \in [Servers -> Seq(Results)]
        /\ reply'[s] = results /\ op_results'[s] = << >>
        /\ \A t \in Servers : Len(op_results'[t]) < FixedBatch
    <3>1. << >> \in Seq(Results) /\ Len(<< >>) = 0 /\ 0 < FixedBatch
      BY BatchAssumption
    <3> HIDE DEF results
    <3> QED BY <1>1, <1>18, <2>1, <3>1 DEF Shapes
  <2>3. Shapes'
    <3>1. slots' \in [Slots -> Results]' /\ reply' \in [Servers -> Seq(Results) \cup {NoReply}]'
      BY <1>1, <1>3, <2>2 DEF Shapes, Slots, NoReply
    <3> HIDE DEF e, results, result
    <3> QED BY <1>1, <1>3, <1>16, <1>30, <2>2, <3>1 DEF Shapes, Entries, SlotDummy
  <2>4. m + 1 = w /\ m + 1 = Len(Round(s)) /\ n - 1 = 0
    <3>1. m + 1 = Len(Round(s))
      BY <1>18, <1>31
    <3> HIDE DEF m, w, n
    <3> QED BY <3>1, <1>4, <1>5, <1>6
  <2>5. pipe'[s] = << >>
    <3>1. Len(Tail(pipe[s])) = 0
      BY <2>4, <1>20
    <3> QED BY <3>1, <1>20, <1>30
  <2>6. Executed(s)' = o + m + 1
    <3>1. o + w = o + m + 1
      <4> HIDE DEF o, m, w
      <4> QED BY <2>4, <1>4, <1>5
    <3>2. reply'[s] # NoReply
      BY <2>2, <1>19
    <3> QED BY <3>1, <3>2, <1>3 DEF Executed, NoReply
  <2>7. AreResults(s, reply[s], offset[s])'
    <3>1. DOMAIN results = 1 .. m + 1
      <4> HIDE DEF results, result
      <4> QED BY <1>18
    <3> HIDE DEF results, result
    <3> QED BY <3>1, <1>3, <1>22, <2>2 DEF AreResults, IsResult, SlotDummy
  <2>8. Exchange(s)'
    <3>1. /\ Len(received'[s]) = offset'[s] /\ op_results'[s] = << >> /\ pipe'[s] = << >>
          /\ reply'[s] # NoReply /\ Len(reply'[s]) = written'[s] /\ written'[s] = Len(Round(s)')
      <4>1. Len(results) = w
        BY <1>18, <2>4
      <4> HIDE DEF results, result
      <4> QED BY <1>3, <1>6, <1>19, <1>29, <2>2, <2>4, <2>5, <4>1
    <3>2. \A i \in DOMAIN batches'[s] : \A j \in DOMAIN batches'[s][i] : batches'[s][i][j].slot # SlotDummy =>
            (batches'[s][i][j].slot \in DOMAIN ran' <=> i = 1 /\ j <= Executed(s)')
      <4> HIDE DEF m
      <4> QED BY <1>3, <1>23, <2>6
    <3>3. AreResults(s, op_results[s], offset[s])'
      <4>1. DOMAIN << >> = {}
        OBVIOUS
      <4> QED BY <4>1, <2>2 DEF AreResults
    <3> QED BY <3>1, <3>2, <3>3, <1>24, <2>7 DEF Exchange, SlotDummy, NoReply
  <2>9. Link(s)'
    BY <1>26, <1>27, <1>28, <2>8 DEF Link
  <2> QED BY <1>17, <1>25, <2>3, <2>9, OthersKept
<1>32. CASE Len(results) # Len(Round(s))
  <2>1. reply' = reply /\ op_results' = [op_results EXCEPT ![s] = results]
    BY <1>3, <1>32
  <2>2. m + 1 < Len(Round(s)) /\ m + 1 < FixedBatch
    <3>1. m + 1 # Len(Round(s))
      BY <1>18, <1>32
    <3> HIDE DEF m, w, n
    <3> QED BY <3>1, <1>4, <1>5, <1>6, BatchAssumption
  <2>3. /\ op_results' \in [Servers -> Seq(Results)] /\ op_results'[s] = results
        /\ \A t \in Servers : Len(op_results'[t]) < FixedBatch
    <3> HIDE DEF results, result, m
    <3>1. \A t \in Servers \ {s} : op_results'[t] = op_results[t] /\ Len(op_results[t]) < FixedBatch
      BY <1>1, <2>1 DEF Shapes
    <3> QED BY <1>1, <1>18, <2>1, <2>2, <3>1 DEF Shapes
  <2>4. Shapes'
    <3>1. slots' \in [Slots -> Results]' /\ reply' \in [Servers -> Seq(Results) \cup {NoReply}]'
      BY <1>1, <1>3, <2>1 DEF Shapes, Slots, NoReply
    <3> HIDE DEF e, results, result
    <3> QED BY <1>1, <1>3, <1>16, <1>30, <2>3, <3>1 DEF Shapes, Entries, SlotDummy
  <2>5. Executed(s)' = o + m + 1
    <3>1. o + (m + 1) = o + m + 1
      <4> HIDE DEF o, m
      <4> QED BY <1>4, <1>5
    <3> HIDE DEF results, result
    <3> QED BY <3>1, <1>2, <1>3, <1>18, <2>1, <2>3 DEF Executed, NoReply
  <2>6. AreResults(s, op_results[s], offset[s])'
    <3>1. DOMAIN results = 1 .. m + 1
      <4> HIDE DEF results, result
      <4> QED BY <1>18
    <3> HIDE DEF results, result
    <3> QED BY <3>1, <1>3, <1>22, <2>3 DEF AreResults, IsResult, SlotDummy
  <2>7. \A j \in DOMAIN pipe'[s] : pipe'[s][j] = Translate(s, b[o + m + 1 + j])
    <3> TAKE j \in DOMAIN pipe'[s]
    <3>1. j + 1 \in DOMAIN pipe[s] /\ pipe'[s][j] = pipe[s][j + 1] /\ j \in Nat
      BY <1>20, <1>30
    <3>2. o + m + (j + 1) = o + m + 1 + j
      <4> HIDE DEF o, m
      <4> QED BY <3>1, <1>7
    <3> QED BY <3>1, <3>2, <1>6
  <2>8. Exchange(s)'
    <3>1. /\ Len(received'[s]) = offset'[s] /\ reply'[s] = NoReply
          /\ Len(op_results'[s]) + Len(pipe'[s]) = written'[s] /\ Len(op_results'[s]) < Len(Round(s)')
      <4>1. (m + 1) + (n - 1) = w
        <5> HIDE DEF m, n, w
        <5> QED BY <1>4, <1>5, <1>6
      <4>2. Len(results) = m + 1 /\ Len(Tail(pipe[s])) = n - 1
        BY <1>18, <1>20
      <4> HIDE DEF results, result, m, n
      <4> QED BY <4>1, <4>2, <1>2, <1>3, <1>6, <1>29, <1>30, <2>1, <2>2, <2>3
    <3>2. \A i \in DOMAIN batches'[s] : \A j \in DOMAIN batches'[s][i] : batches'[s][i][j].slot # SlotDummy =>
            (batches'[s][i][j].slot \in DOMAIN ran' <=> i = 1 /\ j <= Executed(s)')
      <4> HIDE DEF m
      <4> QED BY <1>3, <1>23, <2>5
    <3>3. \A j \in DOMAIN pipe'[s] : pipe'[s][j] = Translate(s, batches'[s][1][Executed(s)' + j])
      <4> HIDE DEF m
      <4> QED BY <1>3, <2>5, <2>7
    <3> QED BY <3>1, <3>2, <3>3, <1>24, <2>6 DEF Exchange, SlotDummy, NoReply, Translate
  <2>9. Link(s)'
    BY <1>26, <1>27, <1>28, <2>8 DEF Link
  <2> QED BY <1>17, <1>25, <2>4, <2>9, OthersKept
<1> QED BY <1>31, <1>32

\* For every plan, and however workers, children and their exits interleave: an operation
\* waits in a batch of its server, or its result is in its slot, and in a round in progress
\* the pipe, the child and the answer hold just the operations that are next.
THEOREM DispatchInvariant == Spec => []Inv
<1>1. Inv /\ [Next]_vars => Inv'
  <2>1. SUFFICES ASSUME Inv, [Next]_vars PROVE Inv'
    OBVIOUS
  <2>2. CASE UNCHANGED vars
    <3>1. Shapes'
      BY <2>1, <2>2 DEF Inv, Shapes, vars, proxy, child, channels, signal, Slots, NoReply, Entries, SlotDummy
    <3>2. \A s \in Servers : SameLink(s)
      BY <2>2 DEF SameLink, vars, proxy, child, channels
    <3>3. \A s \in Servers : Link(s)'
      BY <2>1, <3>2, LinkKept DEF Inv
    <3>4. Mapped'
      BY <2>1, <2>2 DEF Inv, Mapped, vars, child
    <3> QED BY <3>1, <3>3, <3>4 DEF Inv
  <2>3. CASE \E ops \in Calls, pad \in BOOLEAN : ExecuteOramOps(ops, pad)
    BY <2>1, <2>3, ExecuteOramOpsKeeps
  <2>4. ASSUME NEW s \in Servers, Thread(s) \/ ChildAccess(s) \/ ChildExits(s) PROVE Inv'
    BY <2>1, <2>4, WriteOpKeeps, SigPipeKeeps, ReadReplyKeeps, ReadEndKeeps, ChildAccessKeeps, ChildExitsKeeps
       DEF Thread
  <2> QED BY <2>1, <2>2, <2>3, <2>4 DEF Next
<1> QED BY <1>1, InitInv, PTL DEF Spec

\* Type correctness: the bounds of batches, rounds and pipes are kept, and the proxy is
\* killed only by the pipe of a server.
THEOREM TypeCorrect == Spec => []TypeOK
<1>1. Inv => TypeOK
  <2>1. SUFFICES ASSUME Inv PROVE TypeOK
    OBVIOUS
  <2>2. ASSUME NEW s \in Servers PROVE offset[s] \in 0 .. BatchSize /\ written[s] \in 0 .. FixedBatch
    <3>1. Shapes /\ Link(s)
      BY <2>1 DEF Inv
    <3>2. CASE worker[s] = "run"
      <4>1. /\ Len(batches[s][1]) \in 1 .. BatchSize /\ batches[s][1] \in Seq(Entries)
            /\ offset[s] \in Nat /\ written[s] \in Nat
            /\ Len(Round(s)) \in 1 .. FixedBatch /\ written[s] <= Len(Round(s))
        BY <3>1, <3>2, RoundOfBatch
      <4>2. offset[s] < Len(batches[s][1])
        BY <3>1, <3>2 DEF Link, InBatch
      <4>3. PICK n \in 1 .. BatchSize : n = Len(batches[s][1])
        BY <4>1
      <4>4. PICK k \in 1 .. FixedBatch : k = Len(Round(s))
        BY <4>1
      <4> QED BY <4>1, <4>2, <4>3, <4>4, BatchAssumption
    <3>3. CASE worker[s] # "run"
      <4>1. offset[s] = 0 /\ written[s] = 0
        BY <3>1, <3>3 DEF Link, Idle
      <4> QED BY <4>1, BatchAssumption
    <3> QED BY <3>2, <3>3
  <2> QED BY <2>1, <2>2 DEF Inv, Shapes, TypeOK
<1> QED BY <1>1, DispatchInvariant, PTL

\* A call that succeeded has put each operation's own result in its slot: over batches,
\* rounds, paddings and threads, nothing is lost, swapped or left over.
THEOREM DispatchResults == Spec => []ResultsMatch
<1>1. Inv => ResultsMatch
  <2>1. SUFFICES ASSUME Inv, Returned, Success, NEW slot \in Slots
                 PROVE  slot \in DOMAIN ran /\ slots[slot] = ran[slot]
    BY DEF ResultsMatch
  <2> DEFINE s == bound[slot].key[1]
  <2>2. s \in Servers
    BY <2>1, PlanTyped DEF Inv
  <2>3. Shapes /\ Link(s) /\ worker[s] \notin {"run", "failed"}
    BY <2>1, <2>2 DEF Inv, Returned, Success
  <2>4. worker[s] = "ok" /\ batches[s] = << >>
    BY <2>1, <2>2, <2>3 DEF Shapes, Link, Accounted, Idle
  <2>5. Held(batches[s], slot) \/ Settled(slot)
    BY <2>1, <2>3, <2>4 DEF Link, Accounted
  <2>6. DOMAIN << >> = {}
    OBVIOUS
  <2> QED BY <2>4, <2>5, <2>6 DEF Held, Settled
<1> QED BY <1>1, DispatchInvariant, PTL

------------------------------------------------------------------------------
(* The executor that a call implements. *)

\* The state of the executor.
Db == [k \in Keys |-> oram[k[1]][pk_to_blockid[k]]]
Waiting == {i \in Slots : i \notin DOMAIN ran /\ ~Abandoned(bound[i].key[1])}
Todo == {Op(slot) : slot \in Waiting}
Busy == {s \in Servers : worker[s] = "run" /\ ~Abandoned(s)}
Seen == [slot \in Slots |-> IF slot \in DOMAIN ran THEN ran[slot] ELSE None]
Failed == {s \in Servers : Abandoned(s)}
Gone == goneBefore \cup broken \cup Failed

\* What decides whether a server is abandoned.
SameWorker(s) ==
  /\ worker'[s] = worker[s] /\ batches'[s] = batches[s]
  /\ offset'[s] = offset[s] /\ written'[s] = written[s]
  /\ s \in dead' <=> s \in dead

\* It is then abandoned, or not, as before.
LEMMA SameAbandoned ==
  ASSUME NEW s, SameWorker(s)
  PROVE  Abandoned(s)' <=> Abandoned(s)
BY DEF SameWorker, Abandoned, Awaiting, Round

\* What is to be executed follows from the slots that wait, the plan being the same.
LEMMA TodoOfWaiting ==
  ASSUME bound' = bound
  PROVE  Todo = {Op(i) : i \in Waiting} /\ Todo' = {Op(i) : i \in Waiting'}
BY DEF Todo, Op

\* The executor sees nothing of a step that changes no result and abandons no server.
LEMMA UnseenStep ==
  ASSUME Inv, bound' = bound, goneBefore' = goneBefore, broken' = broken, killed' = killed, oram' = oram,
         \A slot \in Slots : /\ slot \in DOMAIN ran' <=> slot \in DOMAIN ran
                             /\ slot \in DOMAIN ran => ran'[slot] = ran[slot],
         \A s \in Servers : /\ Abandoned(s)' <=> Abandoned(s)
                            /\ ~Abandoned(s) => (worker'[s] = "run" <=> worker[s] = "run")
  PROVE  UNCHANGED Service!exec
<1>1. \A slot \in Slots : bound[slot].key[1] \in Servers
  BY PlanTyped DEF Inv
<1>2. Db' = Db /\ Seen' = Seen
  <2>1. Slots' = Slots
    BY DEF Slots
  <2>2. \A slot \in Slots : (IF slot \in DOMAIN ran' THEN ran'[slot] ELSE None)
                           = (IF slot \in DOMAIN ran THEN ran[slot] ELSE None)
    OBVIOUS
  <2>3. Seen' = [slot \in Slots |-> IF slot \in DOMAIN ran' THEN ran'[slot] ELSE None]
    BY <2>1 DEF Seen
  <2>4. Seen' = [slot \in Slots |-> IF slot \in DOMAIN ran THEN ran[slot] ELSE None]
    BY <2>2, <2>3
  <2> QED BY <2>4 DEF Db, Seen
<1>3. Busy' = Busy /\ Failed' = Failed
  BY DEF Busy, Failed
<1>4. Gone' = Gone
  BY <1>3 DEF Gone
<1>5. Waiting' = Waiting
  <2>1. Slots' = Slots
    BY DEF Slots
  <2>2. \A i : i \in Waiting' <=> i \in Slots /\ i \notin DOMAIN ran' /\ ~Abandoned(bound[i].key[1])'
    BY <2>1 DEF Waiting
  <2>3. \A i : i \in Waiting <=> i \in Slots /\ i \notin DOMAIN ran /\ ~Abandoned(bound[i].key[1])
    BY DEF Waiting
  <2>4. ASSUME NEW i \in Slots PROVE Abandoned(bound[i].key[1])' <=> Abandoned(bound[i].key[1])
    <3>1. PICK t \in Servers : t = bound[i].key[1]
      BY <1>1
    <3>2. t = bound'[i].key[1]
      BY <3>1
    <3> QED BY <3>1, <3>2
  <2> QED BY <2>2, <2>3, <2>4
<1>7. Todo' = Todo
  BY <1>5, TodoOfWaiting
<1> QED BY <1>2, <1>3, <1>4, <1>7 DEF Service!exec, Db, Seen, Busy, Failed, Gone, Todo, Waiting, Op

\* The executor starts empty.
LEMMA ServiceInit ==
  ASSUME DOMAIN pk_to_blockid = Keys, Init
  PROVE  \E base \in [Keys -> Values] : Service!ExecutorInit(base)
<1>1. Db \in [Keys -> Values]
  <2> SUFFICES ASSUME NEW k \in Keys PROVE oram[k[1]][pk_to_blockid[k]] \in Values
    BY DEF Db
  <2>1. k[1] \in Servers /\ pk_to_blockid[k] \in BlockIds
    BY MapAssumption DEF Keys
  <2>2. LoadedBlocks[k[1]][pk_to_blockid[k]] \in Results
    BY <2>1, LoadAssumption
  <2>3. LoadedBlocks[k[1]][pk_to_blockid[k]] # None
    BY LoadAssumption
  <2> QED BY <2>2, <2>3 DEF Init, Results
<1>2. Slots = {} /\ Seen = << >>
  BY DEF Init, Slots, Seen
<1>3. \A s \in Servers : ~Abandoned(s) /\ worker[s] = "none"
  BY DEF Init, Abandoned, Awaiting
<1>4. Todo = {} /\ Busy = {} /\ Failed = {} /\ Gone = {} /\ killed = FALSE
  BY <1>2, <1>3 DEF Init, Todo, Waiting, Busy, Failed, Gone
<1>5. Service!ExecutorInit(Db)
  BY <1>2, <1>4 DEF Service!ExecutorInit, Db, Todo, Waiting, Busy, Seen, Failed, Gone
<1> QED BY <1>1, <1>5

\* A worker whose child lives is busy and its server not gone.
LEMMA AliveServer ==
  ASSUME Inv, NEW s \in Servers, ~killed, s \notin dead, worker[s] = "run"
  PROVE  ~Abandoned(s) /\ broken = {} /\ s \in Busy /\ s \notin Gone
<1>1. ~Abandoned(s)
  BY DEF Abandoned
<1>2. broken = {} /\ s \notin goneBefore
  BY DEF Inv, Shapes
<1> QED BY <1>1, <1>2 DEF Busy, Gone, Failed

\* Writing to the pipe is not seen.
LEMMA WriteOpUnseen ==
  ASSUME Inv, NEW s \in Servers, WriteOp(s)
  PROVE  UNCHANGED Service!exec
<1>1. /\ UNCHANGED <<bound, worker, batches, offset, oram, dead, ran, killed, broken, goneBefore>>
      /\ s \notin dead /\ worker[s] = "run"
      /\ written' = [written EXCEPT ![s] = written[s] + 1]
  BY DEF WriteOp, Writing, child, signal
<1>2. \A t \in Servers : Abandoned(t)' <=> Abandoned(t)
  <2> TAKE t \in Servers
  <2>1. CASE t = s
    BY <1>1, <2>1 DEF Abandoned
  <2>2. CASE t # s
    <3>1. written'[t] = written[t]
      BY <1>1, <2>2 DEF Inv, Shapes
    <3> QED BY <1>1, <3>1, SameAbandoned DEF SameWorker
  <2> QED BY <2>1, <2>2
<1> QED BY <1>1, <1>2, UnseenStep

\* Reading the end of the pipe is not seen: the server was abandoned when its child exited.
LEMMA ReadEndUnseen ==
  ASSUME Inv, NEW s \in Servers, ReadEnd(s)
  PROVE  UNCHANGED Service!exec
<1>1. /\ UNCHANGED <<bound, oram, dead, ran, killed, broken, goneBefore>>
      /\ s \in dead /\ Awaiting(s)
      /\ worker' = [worker EXCEPT ![s] = "failed"]
      /\ batches' = [batches EXCEPT ![s] = << >>]
      /\ offset' = [offset EXCEPT ![s] = 0]
      /\ written' = [written EXCEPT ![s] = 0]
  BY DEF ReadEnd, child, signal
<1>2. ASSUME NEW t \in Servers
      PROVE  /\ Abandoned(t)' <=> Abandoned(t)
             /\ ~Abandoned(t) => (worker'[t] = "run" <=> worker[t] = "run")
  <2>1. CASE t = s
    <3>1. Abandoned(t)
      BY <1>1, <2>1 DEF Abandoned
    <3>2. worker'[s] = "failed"
      BY <1>1 DEF Inv, Shapes
    <3> QED BY <2>1, <3>1, <3>2 DEF Abandoned
  <2>2. CASE t # s
    <3>1. SameWorker(t)
      BY <1>1, <2>2 DEF Inv, Shapes, SameWorker
    <3> QED BY <3>1, SameAbandoned DEF SameWorker
  <2> QED BY <2>1, <2>2
<1> QED BY <1>1, <1>2, UnseenStep

\* An answer that is not the last is not seen; with the last one, the worker ends.
LEMMA ReadReplySeen ==
  ASSUME Inv, Inv', NEW s \in Servers, ReadReply(s)
  PROVE  Service!WorkerEnds(s) \/ UNCHANGED Service!exec
<1>1. /\ ~killed /\ s \notin dead /\ worker[s] = "run"
      /\ worker' = [worker EXCEPT ![s] = IF batches'[s] = << >> THEN "ok" ELSE "run"]
      /\ written' = [written EXCEPT ![s] = 0]
      /\ UNCHANGED <<bound, oram, dead, ran, killed, broken, goneBefore>>
      /\ \A t \in Servers \ {s} : batches'[t] = batches[t] /\ offset'[t] = offset[t]
  <2>1. ~killed /\ worker[s] = "run" /\ reply[s] # NoReply
    BY DEF ReadReply, Awaiting
  <2>2. s \notin dead
    BY <2>1 DEF Inv, Shapes, Link, Exited
  <2>3. /\ worker' = [worker EXCEPT ![s] = IF batches'[s] = << >> THEN "ok" ELSE "run"]
        /\ written' = [written EXCEPT ![s] = 0]
        /\ UNCHANGED <<bound, oram, dead, ran, killed, broken, goneBefore>>
    BY DEF ReadReply, child, signal
  <2>4. \A t \in Servers \ {s} : batches'[t] = batches[t] /\ offset'[t] = offset[t]
    BY DEF ReadReply, Inv, Shapes
  <2> QED BY <2>1, <2>2, <2>3, <2>4
<1>2. worker'[s] = IF batches'[s] = << >> THEN "ok" ELSE "run"
  BY <1>1 DEF Inv, Shapes
<1>3. ~Abandoned(s) /\ s \in Busy /\ s \notin Gone
  BY <1>1, AliveServer
<1>4. ~Abandoned(s)'
  BY <1>1, <1>2 DEF Abandoned
<1>5. \A t \in Servers \ {s} : (Abandoned(t)' <=> Abandoned(t)) /\ worker'[t] = worker[t]
  <2> TAKE t \in Servers \ {s}
  <2>1. SameWorker(t)
    BY <1>1 DEF Inv, Shapes, SameWorker
  <2> QED BY <2>1, SameAbandoned DEF SameWorker
<1>6. CASE batches'[s] # << >>
  <2>1. worker'[s] = "run"
    BY <1>2, <1>6
  <2> QED BY <1>1, <1>3, <1>4, <1>5, <2>1, UnseenStep
<1>7. CASE batches'[s] = << >>
  <2>1. worker'[s] = "ok"
    BY <1>2, <1>7
  <2>2. \A i \in Waiting : bound[i].key[1] # s
    <3> SUFFICES ASSUME NEW i \in Waiting, bound[i].key[1] = s PROVE FALSE
      OBVIOUS
    <3>1. i \in Slots /\ i \notin DOMAIN ran
      BY DEF Waiting
    <3>2. Held(batches'[s], i) \/ Settled(i)'
      BY <1>1, <2>1, <3>1 DEF Inv, Link, Accounted, Slots, Held
    <3>3. DOMAIN << >> = {}
      OBVIOUS
    <3> QED BY <1>1, <1>7, <3>1, <3>2, <3>3 DEF Held, Settled
  <2>3. Service!TodoOf(s) = {}
    <3>1. \A op \in Todo : op.key[1] # s
      BY <2>2 DEF Todo, Op
    <3> QED BY <3>1 DEF Service!TodoOf, Service!ServerOf, Todo, Waiting
  <2>4. Db' = Db /\ Seen' = Seen
    BY <1>1 DEF Db, Seen, Slots
  <2>5. Busy' = Busy \ {s}
    BY <1>4, <1>5, <2>1 DEF Busy
  <2>6. Failed' = Failed
    BY <1>3, <1>4, <1>5 DEF Failed
  <2>7. Gone' = Gone
    BY <1>1, <2>6 DEF Gone
  <2>8. Waiting' = Waiting
    <3>1. \A slot \in Slots : bound[slot].key[1] \in Servers
      BY PlanTyped DEF Inv
    <3>2. \A t \in Servers : Abandoned(t)' <=> Abandoned(t)
      BY <1>3, <1>4, <1>5
    <3> QED BY <1>1, <3>1, <3>2 DEF Waiting, Slots
  <2>9. Todo' = Todo
    BY <1>1, <2>8, TodoOfWaiting
  <2>10. Service!WorkerEnds(s)
    BY <1>1, <1>3, <2>3, <2>4, <2>5, <2>6, <2>7, <2>9
    DEF Service!WorkerEnds, Db, Seen, Busy, Failed, Gone, Todo, Waiting, Op
  <2> QED BY <2>10
<1> QED BY <1>6, <1>7

\* An exit before the answer abandons the server; one before the round is written is seen
\* when the proxy writes on.
LEMMA ChildExitsSeen ==
  ASSUME Inv, NEW s \in Servers, ChildExits(s)
  PROVE  Service!ChildExits(s) \/ UNCHANGED Service!exec
<1>1. /\ ~killed /\ s \notin dead /\ pipe[s] # << >> /\ dead' = dead \cup {s}
      /\ UNCHANGED <<bound, worker, batches, offset, written, oram, ran, killed, broken, goneBefore>>
  BY DEF ChildExits, proxy, signal
<1>2. worker[s] = "run"
  BY <1>1 DEF Inv, Link, Idle
<1>3. ~Abandoned(s) /\ broken = {} /\ s \in Busy /\ s \notin Gone
  BY <1>1, <1>2, AliveServer
<1>4. \A t \in Servers \ {s} : Abandoned(t)' <=> Abandoned(t)
  <2> TAKE t \in Servers \ {s}
  <2>1. SameWorker(t)
    BY <1>1 DEF SameWorker
  <2> QED BY <2>1, SameAbandoned
<1>5. Abandoned(s)' <=> Awaiting(s)
  BY <1>1, <1>2 DEF Abandoned, Awaiting, Round
<1>6. CASE ~Awaiting(s)
  BY <1>1, <1>3, <1>4, <1>5, <1>6, UnseenStep
<1>7. CASE Awaiting(s)
  <2>1. Db' = Db /\ Seen' = Seen
    BY <1>1 DEF Db, Seen, Slots
  <2>2. Busy' = Busy \ {s}
    BY <1>1, <1>4, <1>5, <1>7 DEF Busy
  <2>3. Failed' = Failed \cup {s}
    BY <1>4, <1>5, <1>7 DEF Failed
  <2>4. Gone' = Gone \cup {s}
    BY <1>1, <2>3 DEF Gone
  <2>5. \A i : i \in Waiting' <=> i \in Waiting /\ bound[i].key[1] # s
    <3>1. \A slot \in Slots : bound[slot].key[1] \in Servers
      BY PlanTyped DEF Inv
    <3> QED BY <1>1, <1>3, <1>4, <1>5, <1>7, <3>1 DEF Waiting, Slots
  <2>6. \A i : Op(i).key = bound[i].key
    BY DEF Op
  <2>7. Todo' = Todo \ Service!TodoOf(s)
    <3>1. Service!TodoOf(s) = {op \in Todo : op.key[1] = s}
      BY DEF Service!TodoOf, Service!ServerOf, Todo, Waiting
    <3>2. \A op : op \in Todo' <=> op \in Todo /\ op.key[1] # s
      BY <1>1, <2>5, <2>6, TodoOfWaiting
    <3> QED BY <3>1, <3>2
  <2>8. Service!ChildExits(s)
    BY <1>1, <1>3, <2>1, <2>2, <2>3, <2>4, <2>7
    DEF Service!ChildExits, Service!GiveUp, Db, Seen, Busy, Failed, Gone, Todo, Waiting, Op
  <2> QED BY <2>8
<1> QED BY <1>6, <1>7

\* SIGPIPE: the child exited in this call, or before it.
LEMMA SigPipeSeen ==
  ASSUME Inv, NEW s \in Servers, SigPipe(s)
  PROVE  Service!ChildExits(s) \/ Service!WriteToDead(s)
<1>1. /\ ~killed /\ killed' = TRUE /\ broken' = {s} /\ s \in dead /\ Writing(s)
      /\ UNCHANGED <<bound, worker, batches, offset, written, dead, oram, ran, goneBefore>>
  BY DEF SigPipe, proxy, child
<1>2. ~Abandoned(s) /\ worker[s] = "run"
  <2>1. written[s] < Len(Round(s)) /\ worker[s] = "run"
    BY <1>1 DEF Writing
  <2>2. written[s] \in Nat /\ Len(Round(s)) \in 1 .. FixedBatch
    BY <2>1, RoundOfBatch DEF Inv
  <2>3. written[s] # Len(Round(s))
    <3>1. PICK n \in 1 .. FixedBatch : n = Len(Round(s))
      BY <2>2
    <3> QED BY <2>1, <2>2, <3>1, BatchAssumption
  <2> QED BY <2>1, <2>3 DEF Abandoned, Awaiting
<1>3. broken = {}
  BY <1>1 DEF Inv, Shapes
<1>4. \A t \in Servers : Abandoned(t)' <=> Abandoned(t)
  BY <1>1, SameAbandoned DEF SameWorker
<1>5. Db' = Db /\ Seen' = Seen
  BY <1>1 DEF Db, Seen, Slots
<1>6. Busy' = Busy /\ Failed' = Failed /\ s \in Busy /\ s \notin Failed
  BY <1>1, <1>2, <1>4 DEF Busy, Failed
<1>7. Gone' = Gone \cup {s}
  BY <1>1, <1>3, <1>6 DEF Gone
<1>8. Todo' = Todo
  <2>1. \A slot \in Slots : bound[slot].key[1] \in Servers
    BY PlanTyped DEF Inv
  <2>2. Waiting' = Waiting
    BY <1>1, <1>4, <2>1 DEF Waiting, Slots
  <2> QED BY <1>1, <2>2, TodoOfWaiting
<1>9. CASE s \in Gone
  <2>1. Gone' = Gone
    BY <1>7, <1>9
  <2> QED BY <1>1, <1>5, <1>6, <1>8, <1>9, <2>1
      DEF Service!WriteToDead, Db, Seen, Busy, Failed, Gone, Todo, Waiting, Op
<1>10. CASE s \notin Gone
  BY <1>1, <1>5, <1>6, <1>7, <1>8, <1>10
  DEF Service!ChildExits, Db, Seen, Busy, Failed, Gone, Todo, Waiting, Op
<1> QED BY <1>9, <1>10

\* A child's access to a padding is not seen; to an operation, the executor executes it.
LEMMA ChildAccessSeen ==
  ASSUME DOMAIN pk_to_blockid = Keys, Inv, NEW s \in Servers, ChildAccess(s)
  PROVE  Service!Execute(s) \/ UNCHANGED Service!exec
<1> DEFINE B == batches[s]
           b == B[1]
           p == offset[s] + Len(op_results[s])
           d == b[p + 1]
           e == Head(pipe[s])
           result == IF IsRead(e) THEN oram[s][e.key] ELSE None
<1>1. /\ ~killed /\ s \notin dead
      /\ oram' = [oram EXCEPT ![s][e.key] = NewContent(s, e)]
      /\ ran' = [slot \in DOMAIN ran \cup {e.slot} |-> IF slot = e.slot THEN result ELSE ran[slot]]
      /\ UNCHANGED <<bound, slots, worker, batches, offset, written, dead, killed, broken, goneBefore>>
  BY DEF ChildAccess, proxy, signal
<1>2. /\ worker[s] = "run" /\ 1 \in DOMAIN B /\ b \in Seq(Entries) /\ p \in Nat /\ p + 1 \in DOMAIN b /\ d \in Entries
      /\ e = Translate(s, d)
      /\ \A i \in DOMAIN B : \A j \in DOMAIN B[i] : B[i][j].slot # SlotDummy =>
           (B[i][j].slot \in DOMAIN ran <=> i = 1 /\ j <= p)
      /\ d.slot # SlotDummy => /\ d.slot \notin DOMAIN ran /\ d.slot \in Slots /\ bound[d.slot].key[1] = s
                               /\ d = Entry(d.slot, bound[d.slot])
  BY NextEntry
<1>3. ~Abandoned(s) /\ broken = {} /\ s \in Busy /\ s \notin Gone
  BY <1>1, <1>2, AliveServer
<1>4. \A t \in Servers : Abandoned(t)' <=> Abandoned(t)
  BY <1>1, SameAbandoned DEF SameWorker
<1> HIDE DEF e, d
<1>5. e.slot = d.slot /\ e.type = d.type /\ e.val = d.val /\ e \in Entries
  BY <1>2, TranslateTyped
<1>6. DOMAIN ran' = DOMAIN ran \cup {d.slot} /\ ran'[d.slot] = result
      /\ \A x \in DOMAIN ran : x # d.slot => ran'[x] = ran[x]
  <2> HIDE DEF result
  <2> QED BY <1>1, <1>5
<1>7. oram \in [Servers -> [BlockIds -> Results]] /\ e.key \in BlockIds
  BY <1>5 DEF Inv, Shapes, Entries
<1>8. \A slot \in Slots : slot # SlotDummy
  BY PlanTyped DEF Inv
<1>9. GoodBatches(B, s, bound)
  BY DEF Inv, Link
<1>10. CASE d.slot = SlotDummy
  <2>1. d = DummyEntry
    <3>1. \/ d = DummyEntry
          \/ \E slot \in DOMAIN bound : d = Entry(slot, bound[slot])
      <4> HIDE DEF B, p
      <4> QED BY <1>2, <1>9 DEF GoodBatches, FromPlan, d
    <3>2. \A slot \in DOMAIN bound : Entry(slot, bound[slot]).slot # SlotDummy
      BY <1>8 DEF Entry, Slots
    <3> QED BY <1>10, <3>1, <3>2
  <2>2. e.type = "READ"
    BY <1>5, <2>1 DEF DummyEntry
  <2>3. oram' = oram
    BY <1>1, <1>7, <2>2 DEF NewContent
  <2>4. \A slot \in Slots : /\ slot \in DOMAIN ran' <=> slot \in DOMAIN ran
                            /\ slot \in DOMAIN ran => ran'[slot] = ran[slot]
    BY <1>6, <1>8, <1>10
  <2> QED BY <1>1, <1>4, <2>3, <2>4, UnseenStep
<1>11. CASE d.slot # SlotDummy
  <2> DEFINE slot == d.slot
             k == bound[slot].key
             op == Op(slot)
  <2>1. slot \in Slots /\ slot \notin DOMAIN ran /\ d = Entry(slot, bound[slot]) /\ k[1] = s
    BY <1>2, <1>11
  <2>2. bound[slot] \in Operations /\ k \in Keys /\ k = <<s, d.key>>
    <3>1. bound[slot] \in Operations /\ k \in Keys
      BY <2>1, PlanTyped DEF Inv
    <3>2. d.key = k[2]
      BY <2>1 DEF Entry
    <3> HIDE DEF k
    <3> QED BY <3>1, <3>2, <2>1 DEF Keys
  <2>3. /\ op.type = bound[slot].type /\ op.key = k /\ op.val = bound[slot].val /\ op.goid = slot
        /\ d.type = bound[slot].type /\ d.val = bound[slot].val
    BY <2>1 DEF Op, Entry
  <2>4. e.key = pk_to_blockid[k]
    <3>1. e = [d EXCEPT !.key = pk_to_blockid[<<s, d.key>>]]
      BY <1>2, <1>11, <2>2 DEF Translate
    <3> HIDE DEF slot, k, op
    <3> QED BY <3>1, <2>2, <1>2 DEF Entries
  <2>5. IsRead(e) <=> IsRead(op)
    BY <1>5, <2>3 DEF IsRead
  <2>6. IsRead(op) <=> ~IsWrite(op)
    BY <2>2, <2>3 DEF IsRead, IsWrite, Operations
  <2>7. Db[k] = oram[s][e.key] /\ oram[s][e.key] # None
    <3>1. oram[k[1]][pk_to_blockid[k]] # None
      BY <2>2 DEF Inv, Mapped
    <3> HIDE DEF slot, k, op
    <3> QED BY <2>1, <2>2, <2>4, <3>1 DEF Db
  <2>8. NewContent(s, e) = IF IsWrite(op) THEN op.val ELSE oram[s][e.key]
    BY <1>5, <2>2, <2>3, <2>7 DEF NewContent, IsWrite, Operations
  <2> HIDE DEF slot, k, op
  <2>9. Db' = IF IsWrite(op) THEN [Db EXCEPT ![k] = op.val] ELSE Db
    <3>1. ASSUME NEW l \in Keys
          PROVE  oram'[l[1]][pk_to_blockid[l]] =
                   IF l = k THEN NewContent(s, e) ELSE oram[l[1]][pk_to_blockid[l]]
      <4>1. l[1] \in Servers /\ pk_to_blockid[l] \in BlockIds
        BY MapAssumption DEF Keys
      <4>2. CASE l = k
        BY <4>1, <4>2, <1>1, <1>7, <2>1, <2>4
      <4>3. CASE l # k
        <5>1. ~ (l[1] = s /\ pk_to_blockid[l] = e.key)
          BY <4>3, <2>1, <2>2, <2>4, MapAssumption
        <5> QED BY <4>1, <4>3, <5>1, <1>1, <1>7
      <4> QED BY <4>2, <4>3
    <3>2. Db' = [l \in Keys |-> IF l = k THEN NewContent(s, e) ELSE oram[l[1]][pk_to_blockid[l]]]
      BY <3>1 DEF Db
    <3>3. Db = [l \in Keys |-> oram[l[1]][pk_to_blockid[l]]]
      BY DEF Db
    <3>4. CASE IsWrite(op)
      BY <3>2, <3>3, <3>4, <2>2, <2>8
    <3>5. CASE ~IsWrite(op)
      <4>1. NewContent(s, e) = Db[k]
        BY <3>5, <2>7, <2>8
      <4> QED BY <3>2, <3>3, <3>5, <4>1, <2>2
    <3> QED BY <3>4, <3>5
  <2>10. Seen' = IF IsRead(op) THEN [Seen EXCEPT ![op.goid] = Db[op.key]] ELSE Seen
    <3>1. Seen = [x \in Slots |-> IF x \in DOMAIN ran THEN ran[x] ELSE None]
      BY DEF Seen
    <3>2. Seen' = [x \in Slots |-> IF x = slot THEN result ELSE IF x \in DOMAIN ran THEN ran[x] ELSE None]
      BY <1>1, <1>6, <2>1 DEF Seen, Slots, slot
    <3>3. result = IF IsRead(op) THEN Db[k] ELSE None
      BY <2>5, <2>7
    <3> HIDE DEF result
    <3>4. CASE IsRead(op)
      BY <3>1, <3>2, <3>3, <3>4, <2>1, <2>3
    <3>5. CASE ~IsRead(op)
      <4>1. \A x \in Slots : (IF x = slot THEN result ELSE IF x \in DOMAIN ran THEN ran[x] ELSE None)
                             = IF x \in DOMAIN ran THEN ran[x] ELSE None
        BY <3>3, <3>5, <2>1
      <4>2. Seen' = Seen
        BY <3>1, <3>2, <4>1
      <4> QED BY <3>5, <4>2
    <3> QED BY <3>4, <3>5
  <2>11. Busy' = Busy /\ Failed' = Failed
    BY <1>1, <1>4 DEF Busy, Failed
  <2>12. Gone' = Gone
    BY <1>1, <2>11 DEF Gone
  <2>13. slot \in Waiting
    BY <1>3, <2>1 DEF Waiting, k
  <2>14. \A i : i \in Waiting' <=> i \in Waiting /\ i # slot
    <3>1. \A i \in Slots : bound[i].key[1] \in Servers
      BY PlanTyped DEF Inv
    <3>2. \A i \in Slots : i \in DOMAIN ran' <=> i \in DOMAIN ran \/ i = slot
      BY <1>6 DEF slot
    <3> QED BY <1>1, <1>4, <3>1, <3>2 DEF Waiting, Slots
  <2>15. \A i : Op(i).goid = i /\ Op(i).key = bound[i].key /\ Op(i).type = bound[i].type
    BY DEF Op
  <2>16. Todo' = Todo \ {op}
    <3>1. \A x : x \in Todo' <=> \E i \in Waiting : i # slot /\ x = Op(i)
      BY <1>1, <2>14, TodoOfWaiting
    <3>2. \A i : Op(i) = op <=> i = slot
      BY <2>15 DEF op
    <3>3. \A x : x \in Todo <=> \E i \in Waiting : x = Op(i)
      BY DEF Todo
    <3> QED BY <3>1, <3>2, <3>3
  <2>17. Service!TodoOf(s) = {o \in Todo : o.key[1] = s}
    BY DEF Service!TodoOf, Service!ServerOf, Todo, Waiting
  <2>18. op \in Service!TodoOf(s)
    <3>1. op \in Todo
      BY <2>13 DEF Todo, op
    <3> QED BY <3>1, <2>1, <2>3, <2>17
  <2>19. Service!ReadsBeforeWrites(op)
    <3>1. SUFFICES ASSUME ~IsRead(op), NEW o \in Todo, o.key[1] = s
                   PROVE  Service!IsWrite(o)
      BY <2>1, <2>3, <2>17 DEF Service!ReadsBeforeWrites, Service!IsRead, IsRead, Service!ServerOf
    <3>2. PICK i \in Waiting : o = Op(i)
      BY DEF Todo
    <3>3. i \in Slots /\ i \notin DOMAIN ran /\ bound[i].key[1] = s /\ bound[i] \in Operations /\ i # SlotDummy
      BY <3>1, <3>2, <2>15, PlanTyped DEF Waiting, Inv
    <3>4. Held(B, i)
      BY <1>2, <3>3 DEF Inv, Link, Accounted, Settled
    <3>5. PICK f \in DOMAIN B : \E j \in DOMAIN B[f] : B[f][j].slot = i
      BY <3>4 DEF Held
    <3>6. PICK j \in DOMAIN B[f] : B[f][j].slot = i
      BY <3>5
    <3>7. ~ (f = 1 /\ j <= p)
      <4> HIDE DEF B, p
      <4> QED BY <1>2, <3>3, <3>6
    <3>8. f \in Nat /\ f >= 1 /\ j \in Nat
      <4>1. B \in Seq(Seq(Entries))
        BY <1>9 DEF GoodBatches
      <4> HIDE DEF B
      <4>2. B[f] \in Seq(Entries) /\ f \in Nat /\ f >= 1
        BY <4>1
      <4> QED BY <4>2
    <3>9. ~IsRead(d)
      BY <3>1, <1>5, <2>5 DEF IsRead
    <3>10. ~IsRead(B[f][j])
      <4>1. CASE f = 1 /\ j = p + 1
        BY <4>1, <3>9 DEF d
      <4>2. CASE 1 < f \/ (f = 1 /\ p + 1 < j)
        <5>1. ReadsLead(B)
          BY <1>9 DEF GoodBatches
        <5> HIDE DEF B, p
        <5> QED BY <4>2, <5>1, <1>2, <3>3, <3>6, <3>9 DEF ReadsLead, d
      <4> HIDE DEF B, p
      <4> QED BY <4>1, <4>2, <3>7, <3>8, <1>2
    <3>11. B[f][j].type = bound[i].type
      <4>1. RealEntries(B, s, bound)
        BY <1>9, GoodIsReal
      <4>2. B[f][j] = Entry(i, bound[i])
        <5> HIDE DEF B
        <5> QED BY <4>1, <3>3, <3>6 DEF RealEntries
      <4> HIDE DEF B
      <4> QED BY <4>2 DEF Entry
    <3>12. bound[i].type # "READ"
      <4> HIDE DEF B
      <4> QED BY <3>10, <3>11 DEF IsRead
    <3>13. o.type \in {"UPDATE", "INSERT"}
      BY <3>2, <3>3, <3>12, <2>15 DEF Operations
    <3> QED BY <3>13 DEF Service!IsWrite
  <2>20. Service!Execute(s)
    <3>1. /\ Service!IsWrite(op) <=> IsWrite(op)
          /\ Service!IsRead(op) <=> IsRead(op)
      BY DEF Service!IsWrite, Service!IsRead, IsWrite, IsRead
    <3>2. /\ Todo' = Todo \ {op}
          /\ Db' = IF Service!IsWrite(op) THEN [Db EXCEPT ![op.key] = op.val] ELSE Db
          /\ Seen' = IF Service!IsRead(op) THEN [Seen EXCEPT ![op.goid] = Db[op.key]] ELSE Seen
      BY <3>1, <2>3, <2>9, <2>10, <2>16
    <3> QED BY <3>2, <1>1, <1>3, <2>11, <2>12, <2>18, <2>19
        DEF Service!Execute, Db, Seen, Busy, Failed, Gone, Todo, Waiting, Op
  <2> QED BY <2>20
<1> QED BY <1>10, <1>11

\* A call is a call of the executor: its operations to do, one worker per server contacted.
LEMMA CallSeen ==
  ASSUME Inv, Inv', NEW ops \in Calls, NEW pad \in BOOLEAN, ExecuteOramOps(ops, pad)
  PROVE  Service!CallStarts
<1>1. /\ ~killed /\ \A s \in Servers : worker[s] # "run"
      /\ bound' = ops
      /\ worker' = [s \in Servers |-> IF s \in Contacted(ops) THEN "run" ELSE "none"]
      /\ ran' = << >>
      /\ goneBefore' = dead
      /\ UNCHANGED <<oram, dead, killed, broken>>
      /\ UNCHANGED <<offset, written>>
  BY DEF ExecuteOramOps, Returned, signal
<1>2. ops \in Seq(Operations)
  BY CallsAssumption
<1>3. Busy = {}
  BY <1>1 DEF Busy
<1>4. \A s \in Servers : worker'[s] = IF s \in Contacted(ops) THEN "run" ELSE "none"
  BY <1>1
<1>5. ASSUME NEW s \in Servers PROVE ~Abandoned(s)'
  <2>1. written'[s] = 0 /\ offset'[s] = 0
    BY <1>1 DEF Inv, Link, Idle
  <2>2. worker'[s] = "run" => 0 # Len(Round(s)')
    <3> HAVE worker'[s] = "run"
    <3>1. /\ batches'[s] # << >> /\ offset'[s] < Len(batches'[s][1]) /\ offset'[s] \in Nat
          /\ GoodBatches(batches[s], s, bound)'
      BY <2>1 DEF Inv, Link, InBatch
    <3>2. Len(Round(s)') \in 1 .. FixedBatch
      BY <3>1, FirstRound
    <3>3. PICK n \in 1 .. FixedBatch : n = Len(Round(s)')
      BY <3>2
    <3> QED BY <3>3, BatchAssumption
  <2> QED BY <1>4, <2>1, <2>2 DEF Abandoned, Awaiting
<1>6. Failed' = {}
  BY <1>5 DEF Failed
<1>7. Gone' = Gone
  <2>1. broken = {}
    BY <1>1 DEF Inv, Shapes
  <2>2. Gone' = dead
    BY <1>1, <1>6, <2>1 DEF Gone
  <2>3. Gone \subseteq dead
    BY <1>1, <2>1 DEF Gone, Failed, Inv, Shapes, Abandoned, Link, Exited
  <2>4. dead \subseteq Gone
    BY <1>1 DEF Gone, Failed, Inv, Shapes, Abandoned, Link, Exited
  <2> QED BY <2>2, <2>3, <2>4
<1>8. Db' = Db
  BY <1>1 DEF Db
<1>9. Waiting' = DOMAIN ops
  <2>1. \A slot \in DOMAIN ops : ops[slot].key[1] \in Servers
    <3>1. \A slot \in DOMAIN ops : ops[slot].key \in Servers \X PrimaryKeys
      BY <1>2 DEF Operations, Keys
    <3> QED BY <3>1
  <2>2. DOMAIN << >> = {}
    OBVIOUS
  <2> QED BY <1>1, <1>5, <2>1, <2>2 DEF Waiting, Slots
<1> DEFINE Sent(i) == [type |-> ops[i].type, key |-> ops[i].key, val |-> ops[i].val, goid |-> i]
<1>10. \A i : Sent(i).key = ops[i].key /\ Sent(i).goid = i
  OBVIOUS
<1>11. Todo' = {Sent(i) : i \in DOMAIN ops}
  BY <1>1, <1>9 DEF Todo, Op
<1> HIDE DEF Sent
<1>12. Busy' = {op.key[1] : op \in Todo'}
  <2>1. \A s : s \in Busy' <=> s \in Servers /\ s \in Contacted(ops)
    BY <1>4, <1>5 DEF Busy
  <2>2. \A s : s \in Contacted(ops) => s \in Servers
    <3>1. \A i \in DOMAIN ops : ops[i] \in Operations
      BY <1>2
    <3>2. \A i \in DOMAIN ops : ops[i].key \in Servers \X PrimaryKeys
      BY <3>1 DEF Operations, Keys
    <3> QED BY <3>2 DEF Contacted
  <2>3. \A s : s \in {op.key[1] : op \in Todo'} <=> s \in Contacted(ops)
    BY <1>10, <1>11 DEF Contacted
  <2> QED BY <2>1, <2>2, <2>3
<1>13. Seen' = [g \in {op.goid : op \in Todo'} |-> None]
  <2>1. {op.goid : op \in Todo'} = DOMAIN ops
    BY <1>10, <1>11
  <2>2. Seen' = [slot \in DOMAIN ops |-> None]
    <3>1. DOMAIN << >> = {}
      OBVIOUS
    <3> QED BY <1>1, <3>1 DEF Seen, Slots
  <2> QED BY <2>1, <2>2
<1>14. Service!Joined
  BY <1>1, <1>3 DEF Service!Joined, Busy
<1>15. PICK sent : sent = Todo'
  OBVIOUS
<1>16. Busy' = {op.key[1] : op \in sent} /\ Seen' = [g \in {op.goid : op \in sent} |-> None]
  BY <1>12, <1>13, <1>15
<1>17. Service!Submit(sent)
  BY <1>1, <1>6, <1>7, <1>8, <1>15, <1>16
  DEF Service!Submit, Service!ServerOf, Db, Seen, Busy, Failed, Gone, Todo, Waiting, Op
<1> QED BY <1>14, <1>15, <1>17 DEF Service!CallStarts, Todo, Waiting, Op

\* Every step of a call is a step of the executor that the epochs are checked over, or
\* is not seen: grouping, cutting, padding, translating and piping the operations keeps
\* their order, runs each at most once and reports every failure. As the executor does,
\* it takes for granted that every key is mapped to a block.
THEOREM DispatchImplementsExecutor ==
  ASSUME DOMAIN pk_to_blockid = Keys
  PROVE  Spec => ImplementsExecutor
<1>1. Init => \E base \in [Service!Keys -> Values] : Service!ExecutorInit(base)
  BY ServiceInit DEF Service!Keys, Keys
<1>2. Inv /\ Inv' /\ [Next]_vars => [Service!ExecutorNext]_(Service!exec)
  <2>1. SUFFICES ASSUME Inv, Inv', [Next]_vars
                 PROVE  [Service!ExecutorNext]_(Service!exec)
    OBVIOUS
  <2>2. CASE UNCHANGED vars
    <3>1. UNCHANGED <<bound, oram, ran, worker, batches, offset, written, dead, killed, broken, goneBefore>>
      BY <2>2 DEF vars, proxy, child, signal
    <3>2. \A s \in Servers : Abandoned(s)' <=> Abandoned(s)
      BY <3>1, SameAbandoned DEF SameWorker
    <3> QED BY <2>1, <3>1, <3>2, UnseenStep
  <2>3. ASSUME NEW ops \in Calls, NEW pad \in BOOLEAN, ExecuteOramOps(ops, pad)
        PROVE  Service!CallStarts
    BY <2>1, <2>3, CallSeen
  <2>4. ASSUME NEW s \in Servers, Thread(s) \/ ChildAccess(s) \/ ChildExits(s)
        PROVE  Service!Work(s) \/ UNCHANGED Service!exec
    <3>1. CASE WriteOp(s)
      BY <2>1, <3>1, WriteOpUnseen
    <3>2. CASE SigPipe(s)
      BY <2>1, <3>2, SigPipeSeen DEF Service!Work
    <3>3. CASE ReadReply(s)
      BY <2>1, <3>3, ReadReplySeen DEF Service!Work
    <3>4. CASE ReadEnd(s)
      BY <2>1, <3>4, ReadEndUnseen
    <3>5. CASE ChildAccess(s)
      BY <2>1, <3>5, ChildAccessSeen DEF Service!Work
    <3>6. CASE ChildExits(s)
      BY <2>1, <3>6, ChildExitsSeen DEF Service!Work
    <3> QED BY <2>4, <3>1, <3>2, <3>3, <3>4, <3>5, <3>6 DEF Thread
  <2>5. CASE Next
    BY <2>3, <2>4, <2>5 DEF Next, Service!ExecutorNext
  <2> QED BY <2>1, <2>2, <2>5
<1> QED BY <1>1, <1>2, DispatchInvariant, PTL DEF Spec, ImplementsExecutor, Service!ExecutorSpec
==============================================================================
