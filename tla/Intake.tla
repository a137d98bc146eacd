-------------------------------- MODULE Intake --------------------------------
(***************************************************************************)
(* How transactions enter an epoch (src/src/Queries_Receiving.cpp): client *)
(* threads call push_txn while the main thread opens the intake, drains    *)
(* the queue and closes the intake again, as collect_epoch does or as      *)
(* runEpoch_RBR_W does with its R sub-epochs.                              *)
(*                                                                         *)
(* The mutex queue_mu_ makes each clear, push and drain one step; the flag *)
(* accepting_ is read and written outside of it.  A refused push changes   *)
(* nothing and the client may try again; an accepted transaction is not    *)
(* pushed a second time.                                                   *)
(***************************************************************************)
EXTENDS Integers, Sequences, Functions

CONSTANTS
  Txns,  \* the transactions clients push
  R      \* sub-epochs of an epoch of runEpoch_RBR_W

ASSUME SubEpochsAssumption == R \in Nat

VARIABLES
  accepting,  \* accepting_
  queue,      \* incoming_queue_
  fenced,     \* pushes that found accepting_ set and have not taken the mutex yet
  pushed,     \* history: the transactions whose push returned true, in order
  pc,         \* the next step of the main thread
  driver,     \* the epoch it runs
  drains,     \* sub-epochs of the epoch that have ended
  next_ts,    \* epoch_next_ts_
  all_txns,   \* the transactions of the epoch, with their timestamps
  done,       \* history: the transactions of earlier epochs
  inTime      \* history: pushed while the intake was open, before the last drain

client == <<fenced, pushed>>
intake == <<accepting, queue, client, pc, driver, drains, next_ts, all_txns, done, inTime>>

Drivers == {"collect_epoch", "runEpoch_RBR_W"}
Taken == {entry.txn : entry \in Range(all_txns)}

IntakeTypeOK ==
  /\ accepting \in BOOLEAN
  /\ queue \in Seq(Txns)
  /\ fenced \subseteq Txns
  /\ pushed \in Seq(Txns)
  /\ pc \in {"idle", "cleared", "open", "closing", "closed"}
  /\ driver \in Drivers
  /\ drains \in 0 .. R
  /\ next_ts \in Nat
  /\ all_txns \in Seq([txn : Txns, ts : Nat])
  /\ done \subseteq Txns
  /\ inTime \subseteq Txns

IntakeInit ==
  /\ accepting = FALSE
  /\ queue = << >>
  /\ fenced = {}
  /\ pushed = << >>
  /\ pc = "idle"
  /\ driver \in Drivers
  /\ drains = 0
  /\ next_ts = 0
  /\ all_txns = << >>
  /\ done = {}
  /\ inTime = {}

------------------------------------------------------------------------------
(* push_txn, in two steps. *)

PushFence(t) ==
  /\ accepting
  /\ t \notin fenced \cup Range(pushed)
  /\ fenced' = fenced \cup {t}
  /\ UNCHANGED <<accepting, queue, pushed, pc, driver, drains, next_ts, all_txns, done, inTime>>

\* The intake still takes what is pushed now into the epoch.
StillDraining == accepting /\ (driver = "runEpoch_RBR_W" => drains < R)

PushQueue(t) ==
  /\ t \in fenced
  /\ fenced' = fenced \ {t}
  /\ queue' = Append(queue, t)
  /\ pushed' = Append(pushed, t)
  /\ inTime' = IF StillDraining THEN inTime \cup {t} ELSE inTime
  /\ UNCHANGED <<accepting, pc, driver, drains, next_ts, all_txns, done>>

------------------------------------------------------------------------------
(* The main thread. *)

\* collect_epoch and start_epoch: clear the queue, then open the intake.
ClearQueue ==
  /\ pc = "idle"
  /\ queue' = << >>
  /\ driver' \in Drivers
  /\ pc' = "cleared"
  /\ UNCHANGED <<accepting, client, drains, next_ts, all_txns, done, inTime>>

OpenIntake ==
  /\ pc = "cleared"
  /\ accepting' = TRUE
  /\ next_ts' = 0
  /\ pc' = "open"
  /\ UNCHANGED <<queue, client, driver, drains, all_txns, done, inTime>>

\* Mutant: every sub-epoch counts its timestamps from 0.
RestartedAt(i) == i - 1
TimestampOf(i) == next_ts + i - 1

\* Mutant: the queue is copied and left as it is.
LeftInQueue == queue
EmptyQueue == << >>

\* The drained transactions get the next timestamps.
Drain ==
  /\ all_txns' = all_txns \o [i \in DOMAIN queue |-> [txn |-> queue[i], ts |-> TimestampOf(i)]]
  /\ next_ts' = next_ts + Len(queue)
  /\ queue' = EmptyQueue

SubEpochsLeft == drains < R

\* runEpoch_RBR_W: collect_sub_epoch, R times, then end_intake.
CollectSubEpoch ==
  /\ pc = "open" /\ driver = "runEpoch_RBR_W" /\ SubEpochsLeft
  /\ Drain
  /\ drains' = drains + 1
  /\ UNCHANGED <<accepting, client, pc, driver, done, inTime>>

EndIntake ==
  /\ pc = "open" /\ driver = "runEpoch_RBR_W" /\ drains = R
  /\ accepting' = FALSE
  /\ pc' = "closed"
  /\ UNCHANGED <<queue, client, driver, drains, next_ts, all_txns, done, inTime>>

\* collect_epoch: close the intake, then take the queue.
CloseIntake ==
  /\ pc = "open" /\ driver = "collect_epoch"
  /\ accepting' = FALSE
  /\ pc' = "closing"
  /\ UNCHANGED <<queue, client, driver, drains, next_ts, all_txns, done, inTime>>

\* Mutant: the queue is taken before the intake is closed.
WhileOpen == "open"
AfterClose == "closing"

TakeQueue ==
  /\ pc = AfterClose /\ driver = "collect_epoch"
  /\ Drain
  /\ pc' = "closed"
  /\ UNCHANGED <<accepting, client, driver, drains, done, inTime>>

\* The epoch is answered.
Finish ==
  /\ pc = "closed"
  /\ done' = done \cup Taken
  /\ all_txns' = << >>
  /\ inTime' = {}
  /\ drains' = 0
  /\ next_ts' = 0
  /\ pc' = "idle"
  /\ UNCHANGED <<accepting, queue, client, driver>>

MainThread ==
  \/ ClearQueue \/ OpenIntake \/ CollectSubEpoch \/ EndIntake
  \/ CloseIntake \/ TakeQueue \/ Finish

IntakeNext == MainThread \/ \E t \in Txns : PushFence(t) \/ PushQueue(t)

IntakeSpec == IntakeInit /\ [][IntakeNext]_intake

\* The main thread runs epoch after epoch, and a client that passed the fence gets
\* the mutex.
IntakeFairSpec == IntakeSpec /\ WF_intake(MainThread) /\ \A t \in Txns : WF_intake(PushQueue(t))

------------------------------------------------------------------------------
(* Properties. *)

Position(t) == CHOOSE i \in DOMAIN pushed : pushed[i] = t

\* Timestamps are unique in an epoch, over all its sub-epochs and interleaved pushes,
\* and follow the order in which the pushes went through.
TimestampsFollowArrival ==
  \A i, j \in DOMAIN all_txns : i < j =>
    /\ all_txns[i].ts < all_txns[j].ts
    /\ Position(all_txns[i].txn) < Position(all_txns[j].txn)

\* A transaction is executed once: it is never in the queue and in an epoch, in two
\* epochs, or twice in one.
TakenOnce ==
  /\ IsInjective(queue)
  /\ \A i, j \in DOMAIN all_txns : all_txns[i].txn = all_txns[j].txn => i = j
  /\ Taken \cap Range(queue) = {}
  /\ done \cap (Taken \cup Range(queue)) = {}

\* What was pushed in time is executed in the end.
InTimeIsExecuted == \A t \in Txns : t \in inTime ~> t \in done
==============================================================================
