------------------------------- MODULE RingORAM -------------------------------
(***************************************************************************)
(* The client side of one Ring ORAM (src/src/RingORAM.cpp): the position   *)
(* map, the stash, the metadata of every bucket of the server's tree, and  *)
(* the operations INSERT, READ and UPDATE with the path reads, early       *)
(* reshuffles and evictions each of them performs.                         *)
(*                                                                         *)
(* One ORAM lives in one child process and serves one request at a time,   *)
(* so a request is a sequence of steps that no other request interleaves   *)
(* with.  The steps are the code's: the path read, then one step per       *)
(* bucket that is read and written back.                                   *)
(*                                                                         *)
(* Abstractions.  A ciphertext is the plaintext it decrypts to.  A block   *)
(* fits one chunk (the code warns that longer ones are not supported), so  *)
(* a stash key is a block.  A bucket is known by its number of path reads, *)
(* by how many of its S dummy slots are still valid, and by the blocks its *)
(* valid real slots hold; which slot holds which is left to the code's     *)
(* random permutation.                                                     *)
(***************************************************************************)
EXTENDS Integers, FiniteSets

CONSTANTS
  Blocks,    \* block ids
  Values,    \* contents of a block
  Height,    \* levels of the tree, ceil(log2 n) + 1
  Z,         \* real slots of a bucket, bucket_size - S
  S,         \* dummy slots of a bucket, and the path reads it bears
  Reserve,   \* permanent_stash_reserve
  None,      \* no content
  NoLeaf     \* the position of a block that was never inserted

Levels == 0 .. Height - 1
NumLeaves == 2 ^ (Height - 1)
Leaves == 0 .. NumLeaves - 1
A == Height

\* The bucket at level i of the path to leaf, and the buckets of that path.
NodeAt(leaf, i) == (2 ^ i - 1) + leaf \div 2 ^ (Height - 1 - i)
Path(leaf) == {NodeAt(leaf, i) : i \in Levels}
Buckets == UNION {Path(leaf) : leaf \in Leaves}

\* Mutant: the loop ends before the last bit.
ShortReversal(val, bitlen) ==
  LET reversed[n \in 0 .. bitlen - 1] ==
        IF n = 0 THEN 0 ELSE 2 * reversed[n - 1] + ((val \div 2 ^ (n - 1)) % 2)
  IN  reversed[bitlen - 1]

\* The low bitlen bits of val in reverse order.
ReverseBits(val, bitlen) ==
  LET reversed[n \in 0 .. bitlen] ==
        IF n = 0 THEN 0
        ELSE reversed[n - 1] + ((val \div 2 ^ (n - 1)) % 2) * 2 ^ (bitlen - n)
  IN  reversed[bitlen]

ASSUME SizesAssumption ==
  /\ Height \in Nat \ {0}
  /\ Z \in Nat
  /\ S \in Nat
  /\ Reserve \in Nat
ASSUME NoValueAssumption == None \notin Values /\ NoLeaf \notin Leaves
\* What the proofs need to know of powers.
ASSUME PowersAssumption == \A n \in Levels : 2 ^ (n + 1) = 2 * 2 ^ n

VARIABLES
  pos,      \* block_chunks_pos: the leaf a block is mapped to
  stash,    \* the client's stash: the content it holds of each block
  live,     \* what the valid real slots of each bucket hold
  count,    \* path reads of each bucket since it was last written
  dummies,  \* valid dummy slots of each bucket
  round,    \* writes since the last eviction, modulo A
  G,        \* number of the next eviction, modulo the leaves
  phase,    \* "loading" before the ORAM answers queries, then "serving"
  pc,       \* what the ORAM is doing
  op,       \* the request it is serving
  got,      \* what the path read of the request found
  path,     \* leaf of the path whose buckets are being rewritten
  todo,     \* levels of that path still to be read and written back
  evicts,   \* evictions of the flush after loading
  store     \* history: the content last written to each block

data == <<pos, stash, live, count, dummies>>
control == <<round, G, phase, pc, op, got, path, todo, evicts>>
vars == <<data, control, store>>

Requests == [type : {"READ"}, blk : Blocks, val : {None}]
              \cup [type : {"UPDATE"}, blk : Blocks, val : Values]
NoRequest == [type |-> "NONE"]
Contents == Values \cup {None}

TypeOK ==
  /\ pos \in [Blocks -> Leaves \cup {NoLeaf}]
  /\ stash \in [Blocks -> Contents]
  /\ live \in [Buckets -> [Blocks -> Contents]]
  /\ count \in [Buckets -> Nat]
  /\ dummies \in [Buckets -> 0 .. S]
  /\ round \in 0 .. A - 1
  /\ G \in Leaves
  /\ phase \in {"loading", "serving"}
  /\ pc \in {"idle", "reshuffle", "evict", "flush", "halted"}
  /\ op \in Requests \cup {NoRequest}
  /\ got \in Contents
  /\ path \in Leaves
  /\ todo \in SUBSET Levels
  /\ evicts \in Nat
  /\ store \in [Blocks -> Contents]

Init ==
  /\ pos = [b \in Blocks |-> NoLeaf]
  /\ stash = [b \in Blocks |-> None]
  /\ live = [k \in Buckets |-> [b \in Blocks |-> None]]
  /\ count = [k \in Buckets |-> 0]
  /\ dummies = [k \in Buckets |-> S]
  /\ round = 0
  /\ G = 0
  /\ phase = "loading"
  /\ pc = "idle"
  /\ op = NoRequest
  /\ got = None
  /\ path = 0
  /\ todo = {}
  /\ evicts = 0
  /\ store = [b \in Blocks |-> None]

------------------------------------------------------------------------------
(* Pieces of the operations. *)

Stashed == {b \in Blocks : stash[b] # None}

\* EvictPath begins: the next path in reverse lexicographic order, every level of it.
BeginEvict ==
  /\ path' = ReverseBits(G, Height - 1)
  /\ G' = (G + 1) % NumLeaves
  /\ todo' = Levels

\* The request is over.
Return(next) ==
  /\ pc' = next
  /\ op' = NoRequest
  /\ got' = None

\* Mutant: the round is not reduced modulo A.
RoundRunsOn == round + 1
NextRound == (round + 1) % A

\* The end of INSERT and of UPDATE: content v goes to the stash under leaf, and the
\* A-th write since the last eviction evicts a path.
PutInStash(b, v, leaf) ==
  /\ pos' = [pos EXCEPT ![b] = leaf]
  /\ stash' = [stash EXCEPT ![b] = v]
  /\ store' = [store EXCEPT ![b] = v]
  /\ round' = NextRound
  /\ \/ round' = 0 /\ BeginEvict /\ Return("evict")
     \/ round' # 0 /\ Return("idle") /\ UNCHANGED <<path, G, todo>>
  /\ UNCHANGED <<live, count, dummies, phase, evicts>>

\* GetBlockOffset takes a dummy slot of every bucket without the block; it exits the
\* process when there is none.
Starved(leaf, b) ==
  \E i \in Levels : live[NodeAt(leaf, i)][b] = None /\ dummies[NodeAt(leaf, i)] = 0

\* Mutant: the slot of the block stays valid.
StillValid(k, b) == live[k]
Invalidated(k, b) == [live[k] EXCEPT ![b] = None]

\* ReadPath: one slot of every bucket of the path is read and invalidated.  Copies of
\* the block go to the stash from the root down, so the deepest one stays.
ReadPath(leaf, b) ==
  LET found == {i \in Levels : live[NodeAt(leaf, i)][b] # None} IN
  /\ \/ found = {} /\ got' = stash[b]
     \/ \E i \in found :
          /\ \A j \in found : j <= i
          /\ got' = live[NodeAt(leaf, i)][b]
  /\ stash' = [stash EXCEPT ![b] = got']
  /\ live' = [k \in Buckets |->
                IF k \in Path(leaf) THEN Invalidated(k, b) ELSE live[k]]
  /\ count' = [k \in Buckets |-> count[k] + (IF k \in Path(leaf) THEN 1 ELSE 0)]
  /\ dummies' = [k \in Buckets |->
                   dummies[k] - (IF k \in Path(leaf) /\ live[k][b] = None /\ dummies[k] > 0
                                 THEN 1 ELSE 0)]

------------------------------------------------------------------------------
(* The requests. *)

\* access(INSERT): the content goes to the stash; the tree is not looked at.
Insert(b, v, leaf) ==
  /\ pc = "idle"
  /\ PutInStash(b, v, leaf)

\* The path read is the one the block was mapped to before.
\* Mutant: the position map is overwritten first.
NewPath(b, leaf) == leaf
OldPath(b, leaf) == pos[b]

\* EarlyReshuffle spares a bucket read fewer than S times.
\* Mutant: off by one.
OneReadMore(n) == n > S
NeedsReshuffle(n) == n >= S

\* access(READ), access(UPDATE) of a known block (an unknown one changes nothing and
\* gets an empty answer): the block is mapped to a new leaf before its old path
\* is read; EarlyReshuffle then lists the path's buckets that were read S times.
Access(type, b, v, leaf) ==
  LET current == OldPath(b, leaf) IN
  /\ pc = "idle"
  /\ phase = "serving"
  /\ pos[b] # NoLeaf
  /\ pos' = [pos EXCEPT ![b] = leaf]
  /\ ReadPath(current, b)
  /\ pc' = IF Starved(current, b) THEN "halted" ELSE "reshuffle"
  /\ op' = [type |-> type, blk |-> b, val |-> v]
  /\ path' = current
  /\ todo' = {i \in Levels : NeedsReshuffle(count'[NodeAt(current, i)])}
  /\ UNCHANGED <<round, G, phase, evicts, store>>

\* What ReadBucket leaves in the stash: a valid real slot replaces the stashed copy.
\* Mutant: the bucket's slots are not read back.
NotReadBack(k, b) == stash[b]
ReadBack(k, b) == IF live[k][b] # None THEN live[k][b] ELSE stash[b]

\* WriteBucket takes a block whose path crosses the bucket.
\* Mutant: any mapped block.
Anywhere(k, b) == pos[b] # NoLeaf
Crosses(k, b) == pos[b] # NoLeaf /\ k \in Path(pos[b])

\* The loop goes on with the other buckets.
Remaining(i) == todo \ {i}

\* ReadBucket and WriteBucket of the deepest bucket left: its valid real slots join
\* the stash, over what the stash held, and at most Z stashed blocks whose path
\* crosses the bucket are written to it.
RewriteBucket ==
  /\ pc \in {"reshuffle", "evict", "flush"}
  /\ \E i \in todo :
       LET k == NodeAt(path, i)
           pool == [b \in Blocks |-> ReadBack(k, b)]
           fits == {b \in Blocks : pool[b] # None /\ Crosses(k, b)}
       IN
       /\ \A j \in todo : j <= i
       /\ \E chosen \in SUBSET fits :
            /\ Cardinality(chosen) <= Z
            /\ chosen = fits \/ Cardinality(chosen) = Z
            /\ live' = [live EXCEPT ![k] = [b \in Blocks |->
                                              IF b \in chosen THEN pool[b] ELSE None]]
            /\ stash' = [b \in Blocks |-> IF b \in chosen THEN None ELSE pool[b]]
       /\ count' = [count EXCEPT ![k] = 0]
       /\ dummies' = [dummies EXCEPT ![k] = S]
       /\ todo' = Remaining(i)
  /\ pc' = IF pc = "evict" /\ todo' = {} THEN "idle" ELSE pc
  /\ UNCHANGED <<op, got, pos, round, G, phase, path, evicts, store>>

\* READ returns what the path read found.
FinishRead ==
  /\ pc = "reshuffle" /\ todo = {} /\ op.type = "READ"
  /\ Return("idle")
  /\ UNCHANGED <<data, round, G, phase, path, todo, evicts, store>>

\* UPDATE draws yet another leaf and puts the new content in the stash.
FinishUpdate(leaf) ==
  /\ pc = "reshuffle" /\ todo = {} /\ op.type = "UPDATE"
  /\ PutInStash(op.blk, op.val, leaf)

------------------------------------------------------------------------------
(* From loading to serving. *)

\* ServerInitialization: all records were inserted, flush_stash_if_needed starts.
StartFlush ==
  /\ phase = "loading" /\ pc = "idle"
  /\ pc' = "flush"
  /\ UNCHANGED <<data, round, G, phase, op, got, path, todo, evicts, store>>

\* Mutant: the evictions are not counted.
Uncounted(n) == n
OneMore(n) == n + 1

\* One turn of the flush's loop: evict while the stash is over its target, but give up
\* after 2 * NumLeaves + 1 evictions.
FlushTurn ==
  /\ pc = "flush" /\ todo = {}
  /\ \/ /\ Cardinality(Stashed) > A + Reserve
        /\ evicts <= 2 * NumLeaves
        /\ BeginEvict
        /\ evicts' = OneMore(evicts)
        /\ UNCHANGED <<pc, phase>>
     \/ /\ Cardinality(Stashed) <= A + Reserve \/ evicts > 2 * NumLeaves
        /\ pc' = "idle"
        /\ phase' = "serving"
        /\ evicts' = 0
        /\ UNCHANGED <<path, G, todo>>
  /\ UNCHANGED <<data, round, op, got, store>>

\* ServerInitializationBulk: bulk_load_stash puts every record in the stash and the
\* tree holds dummies only; a build option flushes the stash before serving.
BulkLoad ==
  /\ phase = "loading" /\ pc = "idle"
  /\ \A b \in Blocks : pos[b] = NoLeaf
  /\ \E content \in [Blocks -> Contents] :
       /\ stash' = content
       /\ store' = content
       /\ pos' \in [Blocks -> Leaves \cup {NoLeaf}]
       /\ \A b \in Blocks : content[b] = None <=> pos'[b] = NoLeaf
  /\ \/ phase' = "serving" /\ UNCHANGED pc
     \/ pc' = "flush" /\ UNCHANGED phase
  /\ UNCHANGED <<live, count, dummies, round, G, op, got, path, todo, evicts>>

------------------------------------------------------------------------------
Load == StartFlush \/ FlushTurn \/ BulkLoad

\* A fresh block is inserted; a block is read.
WriteOnce ==
  \E b \in Blocks, leaf \in Leaves :
    \/ \E v \in Values : pos[b] = NoLeaf /\ Insert(b, v, leaf)
    \/ Access("READ", b, None, leaf)

\* A served block is updated, or inserted once more.
Overwrite ==
  \E b \in Blocks, leaf \in Leaves, v \in Values :
    \/ Access("UPDATE", b, v, leaf)
    \/ phase = "serving" /\ pos[b] # NoLeaf /\ Insert(b, v, leaf)

Finish == RewriteBucket \/ FinishRead \/ (\E leaf \in Leaves : FinishUpdate(leaf))

Next == Load \/ WriteOnce \/ Overwrite \/ Finish

Spec == Init /\ [][Next]_vars

\* The workload that inserts every block once and then only reads.
WriteOnceSpec == Init /\ [][Load \/ WriteOnce \/ Finish]_vars
\* The process does not stop in the middle of a request or of the flush.
FairWriteOnceSpec == WriteOnceSpec /\ WF_vars(Finish \/ FlushTurn)

------------------------------------------------------------------------------
(* Properties. *)

Copies(b) == {k \in Buckets : live[k][b] # None}

\* No block is ever lost: a mapped block is in the stash or in a bucket of the path it
\* is mapped to, whatever evictions, reshuffles and overwrites moved it around, so
\* access() never decrypts the empty string that a missing stash entry gives.
Available ==
  \A b \in Blocks : pos[b] # NoLeaf =>
    stash[b] # None \/ Copies(b) \cap Path(pos[b]) # {}

\* GetBlockOffset's exit(1) is never reached: S path reads use up at most the S dummy
\* slots of a bucket, and the early reshuffle comes before one more.
NeverHalts == pc # "halted"

\* A block has one copy, in the stash or in one bucket of its own path: what ReadPath,
\* ReadBucket and WriteBucket move is neither left behind nor out of the path's reach.
SingleCopy ==
  \A b \in Blocks :
    /\ stash[b] # None => Copies(b) = {}
    /\ \A k, l \in Copies(b) : k = l
    /\ IF pos[b] = NoLeaf THEN stash[b] = None /\ Copies(b) = {}
                          ELSE Copies(b) \subseteq Path(pos[b])

\* READ returns the content last written to the block.
ReadLatest == pc = "reshuffle" /\ op.type = "READ" => got = store[op.blk]

\* The content of b, wherever the ORAM keeps it.
Content(b) ==
  IF Copies(b) = {} THEN stash[b] ELSE live[CHOOSE k \in Copies(b) : TRUE][b]

\* With every block written once, the position map, the stash and the tree together
\* are a plain store: no access, reshuffle or eviction changes a block's content.
Plain == INSTANCE BlockStore WITH store <- [b \in Blocks |-> Content(b)], out <- got
ImplementsBlockStore == Plain!Spec

\* Two evictions in a row share no bucket but the root.
EvictionSpread ==
  Path(ReverseBits(G, Height - 1))
    \cap Path(ReverseBits((G + 1) % NumLeaves, Height - 1)) = {0}

\* A request that began is answered, and the flush after loading ends although the
\* tree may be too small to drain the stash.
RequestsEnd == pc # "idle" ~> pc = "idle"

\* The inductive invariant behind NeverHalts: a bucket has a dummy slot for each path
\* read it can still bear, and one that was read S times awaits its reshuffle.
DummyBudget ==
  /\ NeverHalts
  /\ pc = "idle" => todo = {}
  /\ \A k \in Buckets : dummies[k] + count[k] >= S
  /\ \A k \in Buckets : count[k] >= S =>
       pc = "reshuffle" /\ \E i \in todo : k = NodeAt(path, i)

\* The inductive invariant behind ReadLatest: every copy of a block holds what was last
\* written to it.
CopiesCurrent ==
  \A b \in Blocks :
    /\ pos[b] = NoLeaf <=> store[b] = None
    /\ stash[b] \in {None, store[b]}
    /\ \A k \in Buckets : live[k][b] \in {None, store[b]}
==============================================================================
