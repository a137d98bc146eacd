------------------------------- MODULE Executor -------------------------------
(***************************************************************************)
(* executeOramOps (src/src/MultiRingORAM_Servers.cpp) as the epochs see    *)
(* it: the operations of a plan go to the child processes of their         *)
(* servers, one worker thread per server, and the results come back when   *)
(* every worker has ended.  Module Dispatch is the detailed form.          *)
(*                                                                         *)
(* Abstractions.  Each child's ORAM is the plain store that module         *)
(* RingORAM is checked to implement, every key is mapped to a block, and   *)
(* padding operations change nothing.  Which of a server's reads, and      *)
(* which of its writes, goes first is left open.                           *)
(***************************************************************************)
EXTENDS Transactions

VARIABLES
  db,      \* what the ORAMs hold of each record
  todo,    \* operations of the call in progress not executed yet
  busy,    \* servers whose worker thread has not ended
  slots,   \* per_slot_results, by the id of the slot's operation
  failed,  \* servers whose worker reported a failure
  dead,    \* servers whose child process has exited
  killed   \* the proxy itself died of SIGPIPE

exec == <<db, todo, busy, slots, failed, dead, killed>>

ServerOf(op) == op.key[1]
TodoOf(s) == {op \in todo : ServerOf(op) = s}

ExecutorTypeOK ==
  /\ db \in [Keys -> Values]
  /\ todo = UNION {TodoOf(s) : s \in busy}
  /\ Range(slots) \subseteq Results
  /\ failed \subseteq dead
  /\ dead \subseteq Servers
  /\ killed \in BOOLEAN

ExecutorInit(base) ==
  /\ db = base
  /\ todo = {}
  /\ busy = {}
  /\ slots = << >>
  /\ failed = {}
  /\ dead = {}
  /\ killed = FALSE

\* The call: results empty, one worker per contacted server.
Submit(bound) ==
  /\ todo' = bound
  /\ busy' = {ServerOf(op) : op \in bound}
  /\ slots' = [g \in {op.goid : op \in bound} |-> None]
  /\ failed' = {}
  /\ UNCHANGED <<db, dead, killed>>

\* Every worker has been joined.
\* Mutant: the join waits for workers that gave up.
AllSucceeded == busy = {} /\ ~killed /\ failed = {}
Joined == busy = {} /\ ~killed
Success == failed = {}

\* Mutant: the operations are not sorted.
AnyOrder(op) == TRUE
ReadsBeforeWrites(op) == IsRead(op) \/ \A o \in TodoOf(ServerOf(op)) : IsWrite(o)

\* A child executes the next operation of its server's batches.
Execute(s) ==
  /\ ~killed /\ s \in busy \ dead
  /\ \E op \in TodoOf(s) :
       /\ ReadsBeforeWrites(op)
       /\ todo' = todo \ {op}
       /\ db' = IF IsWrite(op) THEN [db EXCEPT ![op.key] = op.val] ELSE db
       /\ slots' = IF IsRead(op) THEN [slots EXCEPT ![op.goid] = db[op.key]] ELSE slots
  /\ UNCHANGED <<busy, failed, dead, killed>>

\* A worker has the results of all of its server's batches.
WorkerEnds(s) ==
  /\ ~killed /\ s \in busy \ dead
  /\ TodoOf(s) = {}
  /\ busy' = busy \ {s}
  /\ UNCHANGED <<db, todo, slots, failed, dead, killed>>

\* The worker gives up on its server.
GiveUp(s) ==
  /\ failed' = failed \cup {s}
  /\ todo' = todo \ TodoOf(s)
  /\ busy' = busy \ {s}

\* A child exits in the middle of a batch: its worker reads the end of the pipe, or is
\* still writing the batch and SIGPIPE, which the proxy does not handle, kills the proxy.
ChildExits(s) ==
  /\ ~killed /\ s \in busy \ dead
  /\ dead' = dead \cup {s}
  /\ \/ GiveUp(s) /\ UNCHANGED killed
     \/ killed' = TRUE /\ UNCHANGED <<failed, todo, busy>>
  /\ UNCHANGED <<db, slots>>

\* A worker writes to a child that exited before: SIGPIPE.
WriteToDead(s) ==
  /\ ~killed /\ s \in busy \cap dead
  /\ killed' = TRUE
  /\ UNCHANGED <<db, todo, busy, slots, failed, dead>>

Work(s) == Execute(s) \/ WorkerEnds(s) \/ ChildExits(s) \/ WriteToDead(s)

\* The executor by itself: call after call.
CallStarts == Joined /\ \E bound \in {todo'} : Submit(bound)
ExecutorNext == CallStarts \/ \E s \in Servers : Work(s)
ExecutorSpec == (\E base \in [Keys -> Values] : ExecutorInit(base)) /\ [][ExecutorNext]_exec
==============================================================================
