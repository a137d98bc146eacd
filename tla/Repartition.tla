----------------------------- MODULE Repartition -----------------------------
(***************************************************************************)
(* From a table to loaded ORAMs: Repartition_Main packs the bins of the    *)
(* table's noised histogram into partitions (src/src/Repartition.cpp),     *)
(* distributeDataToPartitions gives every record a server and a block id,  *)
(* and the child process of each server loads its partition's records      *)
(* (src/src/MultiRingORAM_Servers.cpp).  A table may be partitioned again. *)
(*                                                                         *)
(* Abstractions.  The bins of a table are 1, 2, ... in the numeric order   *)
(* of their keys, and a record is known by its place in the table.  The    *)
(* rounded Laplace noise on a bin is any number of a small set.            *)
(***************************************************************************)
EXTENDS Integers, Sequences, FiniteSets, Functions

CONSTANTS
  Tables,        \* the tables: the bin of each record
  Noise,         \* what the noise may add to a bin's count
  PartNum,       \* fixed_part_num
  ServerCounts,  \* num_servers; 0 is no cap
  Threshold,     \* threshold_pub
  MaxIter,       \* MAX_ITER
  MinCapacity,   \* MIN_ORAM_CAPACITY of the TPC-C driver
  Padding        \* a padding record

ASSUME TablesAssumption ==
  \A t \in Tables : /\ t \in Seq(Nat)
                    /\ \E n \in 1 .. Len(t) : Range(t) = 1 .. n
                    /\ Padding \notin DOMAIN t
ASSUME ParametersAssumption ==
  /\ Noise \subseteq Int
  /\ PartNum \in Nat \ {0}
  /\ ServerCounts \subseteq Nat
  /\ Threshold \in Nat
  /\ MaxIter \in Nat \ {0}
  /\ MinCapacity \in Nat

VARIABLES
  table,              \* data
  noised_syn,         \* the signed noised count of each bin
  fixed_number_part,  \* Algorithm 3, else Algorithm 4
  num_servers,        \* hard cap on the partitions
  pc,                 \* the next step
  T,                  \* records to a partition
  iter,               \* passes over the bins
  i,                  \* the bin the pass looks at
  start_idx,          \* the first bin of the open partition
  acc,                \* clamped counts of the open partition
  parts,              \* closed partitions, those of the servers 1, 2, ... in the end
  pk_to_blockid,      \* the block of each record, by server
  loaded              \* what the child of each server has loaded, by block

packing == <<T, iter, i, start_idx, acc>>
input == <<table, noised_syn, fixed_number_part, num_servers>>
vars == <<input, pc, packing, parts, pk_to_blockid, loaded>>

NumBins == Cardinality(Range(table))
Bins == 1 .. NumBins
AtLeast(low, n) == IF n < low THEN low ELSE n

\* f[first] + ... + f[last]
Sum(f, first, last) ==
  LET sum[b \in first - 1 .. last] == IF b < first THEN 0 ELSE sum[b - 1] + f[b]
  IN  sum[last]

\* The records of a bin, in the order of the table, and how many they are.
Records(data, b) ==
  LET found[d \in 0 .. Len(data)] ==
        IF d = 0 THEN << >>
        ELSE IF data[d] = b THEN Append(found[d - 1], d) ELSE found[d - 1]
  IN  found[Len(data)]
synopsis == [b \in Bins |-> Len(Records(table, b))]

\* The public view of the counts is not negative: it is what packing goes by.
noised_synopsis == [b \in Bins |-> AtLeast(0, noised_syn[b])]

TypeOK ==
  /\ pc \in {"idle", "pack", "capacity", "distribute", "load"}
  /\ T \in Nat
  /\ iter \in 0 .. MaxIter
  /\ i \in 1 .. NumBins + 1
  /\ start_idx \in 1 .. i
  /\ acc \in Nat
  /\ \A p \in DOMAIN parts :
       /\ parts[p].last \in Bins /\ parts[p].first \in 1 .. parts[p].last
       /\ parts[p].noisy_synopsis \in (IF pc \in {"distribute", "load"} THEN Nat \ {0} ELSE Nat)
       /\ parts[p].dummy_num \in Nat
       /\ parts[p].stash_overflow_count \in Nat
  /\ DOMAIN loaded \subseteq DOMAIN parts

Init ==
  /\ table = << >>
  /\ noised_syn = << >>
  /\ fixed_number_part = FALSE
  /\ num_servers = 0
  /\ pc = "idle"
  /\ T = 0
  /\ iter = 0
  /\ i = 1
  /\ start_idx = 1
  /\ acc = 0
  /\ parts = << >>
  /\ pk_to_blockid = << >>
  /\ loaded = << >>

------------------------------------------------------------------------------
(* Repartition_Main: packing. *)

\* k_eff
KEff == IF num_servers > 0 /\ num_servers < PartNum THEN num_servers ELSE PartNum

Ceil(a, b) == (a + b - 1) \div b

\* The first threshold of Algorithm 3: the share of a partition in the signed total.
Share == AtLeast(1, Ceil(AtLeast(0, Sum(noised_syn, 1, NumBins)), KEff))

\* A tenth more, rounded up: at least one more.
\* Mutant: rounded down.
GrownDown == (11 * T) \div 10
Grown == Ceil(11 * T, 10)

\* A pass over the bins starts.
StartPass ==
  /\ i' = 1
  /\ start_idx' = 1
  /\ acc' = 0
  /\ parts' = << >>

\* A table is partitioned: its bins are counted and noised.
Repartition_Main ==
  /\ pc \in {"idle", "load"}
  /\ table' \in Tables
  /\ \E noise \in [Bins' -> Noise] :
       noised_syn' = [b \in Bins' |-> synopsis'[b] + noise[b]]
  /\ fixed_number_part' \in BOOLEAN
  /\ num_servers' \in ServerCounts
  /\ T' = IF fixed_number_part' THEN Share' ELSE Threshold
  /\ iter' = 1
  /\ StartPass
  /\ pc' = "pack"
  /\ loaded' = << >>
  /\ UNCHANGED pk_to_blockid

\* A closed partition: its bins are those from first to last (index), its real count is
\* theirs, its signed count is clamped once.
Close(first, last) ==
  [first |-> first,
   last |-> last,
   synopsis |-> Sum(synopsis, first, last),
   noisy_synopsis |-> AtLeast(0, Sum(noised_syn, first, last)),
   dummy_num |-> 0,
   stash_overflow_count |-> 0]

\* Mutant: a partition is closed beyond the threshold.
Exceeds(sum) == sum > T
Reaches(sum) == sum >= T

\* One bin: a partition whose clamped counts reach the threshold is closed.
PackBin ==
  /\ pc = "pack" /\ i \in Bins
  /\ LET sum == acc + noised_synopsis[i] IN
     \/ /\ Reaches(sum)
        /\ parts' = Append(parts, Close(start_idx, i))
        /\ start_idx' = i + 1
        /\ acc' = 0
     \/ /\ ~Reaches(sum)
        /\ acc' = sum
        /\ UNCHANGED <<parts, start_idx>>
  /\ i' = i + 1
  /\ UNCHANGED <<input, pc, T, iter, pk_to_blockid, loaded>>

\* The bins that are left are one more partition.
WithRest ==
  IF start_idx \in Bins THEN Append(parts, Close(start_idx, NumBins)) ELSE parts

TooMany == fixed_number_part /\ Len(WithRest) > KEff

\* Algorithm 3 tries again with a higher threshold, MAX_ITER times.
NextPass ==
  /\ pc = "pack" /\ i \notin Bins
  /\ TooMany /\ iter < MaxIter
  /\ T' = Grown
  /\ iter' = iter + 1
  /\ StartPass
  /\ UNCHANGED <<input, pc, pk_to_blockid, loaded>>

LastPass ==
  /\ pc = "pack" /\ i \notin Bins
  /\ ~TooMany \/ iter = MaxIter
  /\ parts' = WithRest
  /\ pc' = "capacity"
  /\ UNCHANGED <<input, packing, pk_to_blockid, loaded>>

------------------------------------------------------------------------------
(* Repartition_Main: capacities. *)

\* The tree has the noised size, at least 1; padding or the stash make up the difference.
\* Mutant: the size is raised to 1 after the difference was taken.
RaisedLate(p) ==
  [p EXCEPT !.noisy_synopsis = AtLeast(1, @),
            !.dummy_num = AtLeast(0, p.noisy_synopsis - p.synopsis),
            !.stash_overflow_count = AtLeast(0, p.synopsis - p.noisy_synopsis)]
WithCapacity(p) ==
  LET size == AtLeast(1, p.noisy_synopsis) IN
  [p EXCEPT !.noisy_synopsis = size,
            !.dummy_num = AtLeast(0, size - p.synopsis),
            !.stash_overflow_count = AtLeast(0, p.synopsis - size)]

\* The TPC-C driver makes no tree smaller than a minimum: a partition that has fewer records
\* gets a tree of their number, one that has more keeps the rest in the stash.
WithMinimum(p) ==
  IF p.noisy_synopsis >= MinCapacity THEN p
  ELSE LET size == IF p.synopsis <= MinCapacity THEN p.synopsis ELSE MinCapacity IN
       [p EXCEPT !.noisy_synopsis = size,
                 !.dummy_num = 0,
                 !.stash_overflow_count = p.synopsis - size]

\* Of every caller, or of the TPC-C driver.
SetCapacities ==
  /\ pc = "capacity"
  /\ \/ parts' = [p \in DOMAIN parts |-> WithCapacity(parts[p])]
     \/ parts' = [p \in DOMAIN parts |-> WithMinimum(WithCapacity(parts[p]))]
  /\ pc' = "distribute"
  /\ UNCHANGED <<input, packing, pk_to_blockid, loaded>>

------------------------------------------------------------------------------
(* Distribution and loading. *)

\* The records of some bins, bin after bin, each bin in the order of the table.
WalkBins(data, first, last) ==
  LET walk[b \in first - 1 .. last] ==
        IF b < first THEN << >> ELSE walk[b - 1] \o Records(data, b)
  IN  walk[last]
Walk(p) == WalkBins(table, parts[p].first, parts[p].last)

\* block_counter starts from 0 in each partition.
\* Mutant: it goes on from the partition before.
CountedOn(p) == Sum([q \in DOMAIN parts |-> Len(Walk(q))], 1, p - 1)
FirstBlock(p) == 0

\* The map is emptied before it is filled.
DistributeDataToPartitions ==
  /\ pc = "distribute"
  /\ pk_to_blockid' = [p \in DOMAIN parts |->
       [d \in Range(Walk(p)) |->
          FirstBlock(p) + (CHOOSE n \in DOMAIN Walk(p) : Walk(p)[n] = d) - 1]]
  /\ pc' = "load"
  /\ UNCHANGED <<input, packing, parts, loaded>>

\* ServerInitialization and ServerInitializationBulk, in the child of server p: real
\* records first, then the padding, in blocks from 0.
Load(p) ==
  /\ pc = "load" /\ p \in DOMAIN parts \ DOMAIN loaded
  /\ LET content == Walk(p) \o [n \in 1 .. parts[p].dummy_num |-> Padding] IN
     loaded' = [q \in DOMAIN loaded \cup {p} |->
                  IF q = p THEN [block \in 0 .. Len(content) - 1 |-> content[block + 1]]
                  ELSE loaded[q]]
  /\ UNCHANGED <<input, pc, packing, parts, pk_to_blockid>>

Loaded == pc = "load" /\ DOMAIN loaded = DOMAIN parts

Next ==
  \/ (pc = "idle" \/ Loaded) /\ Repartition_Main
  \/ PackBin \/ NextPass \/ LastPass \/ SetCapacities
  \/ DistributeDataToPartitions
  \/ \E p \in 1 .. Len(parts) : Load(p)

Spec == Init /\ [][Next]_vars

------------------------------------------------------------------------------
(* Properties. *)

\* The proxy's map leads to each record: its server's child, which counts the blocks
\* by itself, has loaded it in that block, and it is in no other block of any server.
RoutedToItsRecord ==
  Loaded =>
    \A d \in DOMAIN table : \E p \in DOMAIN parts :
      /\ d \in DOMAIN pk_to_blockid[p] /\ pk_to_blockid[p][d] \in DOMAIN loaded[p]
      /\ loaded[p][pk_to_blockid[p][d]] = d
      /\ \A q \in DOMAIN parts : d \in DOMAIN pk_to_blockid[q] => q = p
      /\ \A q \in DOMAIN parts : \A block \in DOMAIN loaded[q] :
           loaded[q][block] = d => q = p /\ block = pk_to_blockid[p][d]

\* "Keep trying until we get <= k partitions": Algorithm 3 gets there before MAX_ITER
\* gives up, for any noise, and no partition is without a server.
CountWithinCap ==
  fixed_number_part /\ pc \in {"capacity", "distribute", "load"} =>
    Len(parts) <= PartNum /\ (num_servers > 0 => Len(parts) <= num_servers)

\* Partitions are no larger than they have to be: each but the last reaches the
\* threshold with its last bin and not before, also where bins are negative.
ClosedAtThreshold ==
  \A p \in 1 .. Len(parts) - 1 :
    LET first == parts[p].first
        last == parts[p].last
    IN  /\ T <= Sum(noised_synopsis, first, last)
        /\ T > 0 => Sum(noised_synopsis, first, last - 1) < T

\* The tree and the permanent reserve of the stash take exactly what a child loads,
\* padding included, whatever the sign of the noise.
CapacityIsLoaded ==
  \A p \in DOMAIN loaded :
    Cardinality(DOMAIN loaded[p]) = parts[p].noisy_synopsis + parts[p].stash_overflow_count
==============================================================================
