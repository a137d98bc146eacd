-------------------------------- MODULE Sweep --------------------------------
(***************************************************************************)
(* The TPC-C driver (src/TPC-C/TPCC_Main.cpp) and its children: it         *)
(* benchmarks trees of several sizes with one child each and looks for a   *)
(* threshold; then, for every configuration of its sweep, it retires the   *)
(* children of the last one and starts new ones table by table, sends the  *)
(* read batches and then the update batches of the epoch, and shuts the    *)
(* children down.                                                          *)
(*                                                                         *)
(* Abstractions.  A configuration is its number.  For which children an    *)
(* epoch has operations is arbitrary (TpccEpoch says which).  What is      *)
(* collected and measured between the phases moves no process.  No         *)
(* partition is empty (Repartition): the driver skips none.                *)
(***************************************************************************)
EXTENDS Children

CONSTANTS
  Mortal,  \* the children whose process may die without a word
  Batches  \* BENCH_NUM_BATCHES
ASSUME SweepAssumption ==
  /\ Mortal \subseteq Children
  /\ Parts # <<>> /\ Parts[Len(Parts)] # <<>> /\ Sizes < Len(Parts)
  /\ Batches \in Nat \ {0}

VARIABLES
  step,     \* what the driver does
  config,   \* its configuration
  table,    \* its table
  part,     \* the next partition to start, or the batch of a benchmark
  running,  \* server_processes_ of each table
  task,     \* what the driver has had from each child and waits for
  measured  \* benchmarks is not empty

driver == <<step, config, table, part, running, task, measured>>
vars == <<procs, driver>>

Outcomes == {"finished", "aborted", "broken pipe", "crashed", "killed"}
Steps == {"retire", "start", "read", "update", "shutdown", "threshold", "exit"} \cup Outcomes
Gone == step \in Outcomes
Benchmark == config \in Benchmarks
NumTables == Len(Parts[config])

\* The maps of processes are walked in the order of their keys.
First(S) == CHOOSE c \in S : \A d \in S : Part(c) <= Part(d)

Init ==
  /\ InitProcs
  /\ step = "retire" /\ config = 1 /\ table = 1 /\ part = 1
  /\ running = [t \in Tables |-> {}]
  /\ task = [c \in Children |-> "none"]
  /\ measured = FALSE

\* The whole program ends, all its threads with it.
ProxyStops(outcome) ==
  /\ ProxyEnds
  /\ step' = outcome
  /\ UNCHANGED <<config, table, part, running, task, measured>>

\* A configuration is over: the next one, whatever became of this one.
NextConfig ==
  /\ IF config = Len(Parts)
     THEN step' = "exit" /\ UNCHANGED <<config, table>>
     ELSE /\ step' = IF config = Sizes THEN "threshold" ELSE "retire"
          /\ config' = config + 1 /\ table' = 1
  /\ part' = 1

\* The next table, or, after the last one, what comes then.
NextTable(then) ==
  /\ step' = IF table = NumTables THEN then ELSE step
  /\ table' = IF table = NumTables THEN 1 ELSE table + 1

\* main catches what the configuration threw; the children of a table stay, those of a
\* benchmark end with the object that the exception destroys.
Throw ==
  /\ UNCHANGED running
  /\ IF Benchmark THEN step' = "shutdown" /\ UNCHANGED <<config, table, part>>
     ELSE NextConfig

------------------------------------------------------------------------------
(* shutdownAllServers: of the destructor when a table is started anew, and of the end of *)
(* a configuration.                                                                      *)

Stopping == step \in {"retire", "shutdown"} /\ running[table] # {}
Stopped == First(running[table])
StopSent == <<Stopped, "toW">> \notin fds[Proxy]

\* Mutant: the stop is left to the end of the pipe.
CloseOnly ==
  /\ Stopping /\ ~ StopSent
  /\ fds' = [fds EXCEPT ![Proxy] = @ \ {<<Stopped, "toW">>, <<Stopped, "fromR">>}]
  /\ UNCHANGED <<state, toChild, fromChild, closed, driver>>

\* num_ops = 0 for one child, and its pipes are closed.  A signal that nobody handles
\* ends the program when the child is gone.
StopChild ==
  /\ Stopping /\ ~ StopSent
  /\ IF CanWrite(Stopped)
     THEN /\ Write(Stopped, "stop")
          /\ fds' = [fds EXCEPT ![Proxy] = @ \ {<<Stopped, "toW">>, <<Stopped, "fromR">>}]
          /\ UNCHANGED <<state, fromChild, closed, driver>>
     ELSE ProxyStops("broken pipe")

\* Mutant: the child is not waited for.
DoNotWait ==
  /\ Stopping /\ StopSent
  /\ running' = [running EXCEPT ![table] = @ \ {Stopped}]
  /\ UNCHANGED <<procs, step, config, table, part, task, measured>>

\* waitpid.
Reap ==
  /\ Stopping /\ StopSent /\ state[Stopped] = "dead"
  /\ running' = [running EXCEPT ![table] = @ \ {Stopped}]
  /\ UNCHANGED <<procs, step, config, table, part, task, measured>>

\* Mutant: a new object takes the place of the old one, as before the destructor was there.
RetireAtOnce ==
  /\ step = "retire"
  /\ running' = [running EXCEPT ![table] = {}]
  /\ step' = "start" /\ part' = 1
  /\ UNCHANGED <<procs, config, table, task, measured>>

\* The old children are gone, new ones are started.
Retired ==
  /\ step = "retire" /\ running[table] = {}
  /\ step' = "start" /\ part' = 1
  /\ UNCHANGED <<procs, config, table, running, task, measured>>

TableDown ==
  /\ step = "shutdown" /\ running[table] = {}
  /\ IF table = NumTables THEN NextConfig ELSE table' = table + 1 /\ UNCHANGED <<step, config, part>>
  /\ UNCHANGED <<procs, running, task, measured>>

------------------------------------------------------------------------------
(* init_table_oram, and the start of a benchmark. *)

Starting == step = "start" /\ part <= Parts[config][table]

StartServer ==
  /\ Starting
  /\ LET c == <<config, <<table, part>>>>
     IN  /\ Fork(c)
         /\ running' = [running EXCEPT ![table] = @ \cup {c}]
         /\ task' = [task EXCEPT ![c] = "starting"]
  /\ part' = part + 1
  /\ UNCHANGED <<step, config, table, measured>>

\* pipe or fork fails.
CannotStart ==
  /\ Starting
  /\ Throw
  /\ UNCHANGED <<procs, task, measured>>

Unready == {c \in running[table] : task[c] = "starting"}
Awaiting == step = "start" /\ part > Parts[config][table] /\ Unready # {}

\* Mutant: the byte that was read is not looked at.
TakeAnyByte ==
  /\ Awaiting
  /\ LET c == First(Unready)
     IN  \/ /\ HasMessage(c) /\ Read(c)
            /\ task' = [task EXCEPT ![c] = "idle"]
            /\ UNCHANGED <<state, fds, toChild, closed, step, config, table, part, running>>
         \/ /\ AtEnd(c) /\ Throw
            /\ UNCHANGED <<procs, task>>
  /\ UNCHANGED measured

\* waitForAllServersReady: the signals are read in order; the first that is missing or 0
\* throws and leaves the rest unread.
AwaitReady ==
  /\ Awaiting
  /\ LET c == First(Unready)
     IN  \/ /\ HasMessage(c) /\ Read(c)
            /\ IF Head(fromChild[c]) = "ready"
               THEN /\ task' = [task EXCEPT ![c] = "idle"]
                    /\ UNCHANGED <<step, config, table, part, running>>
               ELSE Throw /\ UNCHANGED task
            /\ UNCHANGED <<state, fds, toChild, closed>>
         \/ /\ AtEnd(c) /\ Throw
            /\ UNCHANGED <<procs, task>>
  /\ UNCHANGED measured

\* The table is loaded: the next one, or the epoch.
TableReady ==
  /\ step = "start" /\ part > Parts[config][table] /\ Unready = {}
  /\ IF table = NumTables
     THEN step' = "read" /\ table' = 1
     ELSE step' = "retire" /\ table' = table + 1
  /\ part' = 1
  /\ UNCHANGED <<procs, config, running, task, measured>>

------------------------------------------------------------------------------
(* The two phases of an epoch: a thread for every child of a table, all joined before the *)
(* next table.                                                                            *)

Executing == step \in {"read", "update"}

\* sendBatchToServer, the first half: an empty batch is not sent.
SendBatch(c) ==
  /\ Executing /\ c \in running[table] /\ task[c] = "idle"
  /\ \/ /\ task' = [task EXCEPT ![c] = "done"]
        /\ UNCHANGED <<procs, step, config, table, part, running, measured>>
     \/ /\ CanWrite(c) /\ Write(c, step)
        /\ task' = [task EXCEPT ![c] = "sent"]
        /\ UNCHANGED <<state, fds, fromChild, closed, step, config, table, part, running, measured>>
     \/ ~ CanWrite(c) /\ ProxyStops("broken pipe")

\* The second half, and assert(r.success): a child that failed or died ends the program.
TakeResult(c) ==
  /\ Executing /\ c \in running[table] /\ task[c] = "sent"
  /\ \/ /\ HasMessage(c) /\ Head(fromChild[c]) = "result" /\ Read(c)
        /\ task' = [task EXCEPT ![c] = "done"]
        /\ UNCHANGED <<state, fds, toChild, closed, step, config, table, part, running, measured>>
     \/ HasMessage(c) /\ Head(fromChild[c]) # "result" /\ ProxyStops("aborted")
     \/ AtEnd(c) /\ ProxyStops("aborted")

\* Mutant: the threads are not joined once their batches are sent.
JoinSent ==
  /\ Executing /\ \A c \in running[table] : task[c] \in {"sent", "done"}
  /\ task' = [c \in Children |-> IF c \in running[table] THEN "idle" ELSE task[c]]
  /\ NextTable(IF step = "read" THEN "update" ELSE "shutdown")
  /\ UNCHANGED <<procs, config, part, running, measured>>

AllDone ==
  /\ Executing /\ \A c \in running[table] : task[c] = "done"
  /\ task' = [c \in Children |-> IF c \in running[table] THEN "idle" ELSE task[c]]

Join ==
  /\ ~ Benchmark /\ AllDone
  /\ NextTable(IF step = "read" THEN "update" ELSE "shutdown")
  /\ UNCHANGED <<procs, config, part, running, measured>>

\* A benchmark sends its one child a read and an update batch again and again, and is a
\* result when the last is done.
NextBatch ==
  /\ Benchmark /\ AllDone
  /\ step' = IF step = "read" THEN "update" ELSE IF part < Batches THEN "read" ELSE "shutdown"
  /\ part' = IF step = "read" THEN part ELSE part + 1
  /\ measured' = (measured \/ step' = "shutdown")
  /\ UNCHANGED <<procs, config, table, running>>

\* find_empirical_threshold reads the first result, and if every benchmark failed there is
\* none: the program goes on with what it finds or crashes.
FindThreshold ==
  /\ step = "threshold"
  /\ \/ /\ step' = "retire"
        /\ UNCHANGED <<procs, config, table, part, running, task, measured>>
     \/ ~ measured /\ ProxyStops("crashed")

\* main returns.
Exit == step = "exit" /\ ProxyStops("finished")

\* The driver is killed, at any step.
Kill == ~ Gone /\ ProxyStops("killed")

------------------------------------------------------------------------------
DriverStep ==
  \/ StopChild \/ Reap \/ Retired \/ TableDown
  \/ StartServer \/ CannotStart \/ AwaitReady \/ TableReady
  \/ \E c \in Children : SendBatch(c) \/ TakeResult(c)
  \/ Join \/ NextBatch \/ FindThreshold \/ Exit

Next ==
  \/ DriverStep \/ Kill
  \/ \E c \in Children : (ChildStep(c) \/ ChildErrs(c)) /\ UNCHANGED driver
  \/ \E c \in Mortal : Die(c) /\ UNCHANGED driver

\* The driver and every child are processes that run; nothing has to fail or be killed.
Spec ==
  /\ Init /\ [][Next]_vars
  /\ WF_vars(DriverStep)
  /\ \A c \in Children : WF_vars(ChildStep(c) /\ UNCHANGED driver)

------------------------------------------------------------------------------
(* Properties. *)

TypeOK ==
  /\ state \in [Children -> States]
  /\ fds \in [Processes -> SUBSET Ends]
  /\ toChild \in [Children -> Seq({"read", "update", "stop"})]
  /\ fromChild \in [Children -> Seq({"ready", "failed", "result"})]
  /\ closed \subseteq {Port(c) : c \in Children}
  /\ step \in Steps /\ config \in Configs /\ table \in Tables /\ part \in Nat \ {0}
  /\ running \in [Tables -> SUBSET Children]
  /\ task \in [Children -> {"none", "starting", "idle", "sent", "done"}]
  /\ measured \in BOOLEAN

\* "new ServerInitialization hangs because ports are taken": no two children of one
\* storage server are alive at a time, not even when a configuration failed half way.
PortFree ==
  \A c, d \in Children : c # d /\ SamePort(c, d) => ~ (Alive(c) /\ Alive(d))

\* A batch reaches only a child that has said it is ready: one that failed to load, or is
\* still loading, gets no work, whichever of its siblings were ready.
WorkForTheReady ==
  \A c \in Children :
    toChild[c] # <<>> /\ Head(toChild[c]) # "stop" => state[c] \in {"serving", "erred", "dead"}

\* No update of an epoch reaches any child while a read of it is still to be executed by
\* some child, of its own table or of another.
ReadsBeforeUpdates ==
  \A c, d \in Children :
    toChild[c] # <<>> /\ toChild[d] # <<>> /\ Head(toChild[c]) = "update"
      => Head(toChild[d]) # "read"

\* The epoch is executed by the children of its own configuration only: no child of an
\* earlier one is still in the maps when the batches go out, and no child is left over.
OnlyThisConfig ==
  Executing => \A c \in Children : Alive(c) => Config(c) = config /\ c \in running[Table(c)]

\* No child outlives the driver for good, however the driver ends and whatever the child
\* was doing, even between fork and prctl, as long as it can reach its storage server.
NoOrphans == Gone ~> \A c \in Children : Alive(c) => Stuck(c)

\* The sweep comes to an end: no read of a ready signal or a result and no waitpid waits
\* for ever, whichever children fail or die, unless one of them took its storage server
\* with it and the next configuration needs it.
SweepEnds == <>(Gone \/ \E c \in Children : Stuck(c))
==============================================================================
