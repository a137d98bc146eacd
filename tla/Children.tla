------------------------------- MODULE Children -------------------------------
(***************************************************************************)
(* The child processes of the proxy and the pipes to them                  *)
(* (src/src/MultiRingORAM_Servers.cpp): what fork hands down, what each    *)
(* side closes, how a child starts, serves and ends, and what reads and    *)
(* writes on a pipe do when the other side is gone.                        *)
(*                                                                         *)
(* Every table has a MultiRingORAM_Servers of its own, with one child per  *)
(* partition, and every configuration of a sweep starts them anew: a child *)
(* is the configuration, the table and the partition it was forked for.    *)
(* The storage server of a table and a partition stays the same; the       *)
(* benchmarks that come first, of one table in one partition, have a port  *)
(* each.                                                                   *)
(*                                                                         *)
(* Abstractions.  A batch is one message and so is its result; Dispatch    *)
(* has the rounds and operations inside.  What a child does between its    *)
(* connection and its ready signal is in Connection and RingORAM; here it  *)
(* succeeds, throws, or the process dies.  When it dies in the middle of a *)
(* message, its storage server may go with it (Connection).                *)
(***************************************************************************)
EXTENDS Integers, Sequences, FiniteSets

CONSTANTS
  Parts,    \* for each configuration, the number of partitions of each of its tables
  Sizes,    \* the first configurations: tree_sizes_to_test
  Proxy     \* the process that forks the children

Configs == DOMAIN Parts
Benchmarks == 1 .. Sizes
Tables == UNION {DOMAIN Parts[g] : g \in Configs}
Children == UNION {{g} \X UNION {{t} \X (1 .. Parts[g][t]) : t \in DOMAIN Parts[g]} : g \in Configs}
Config(c) == c[1]
Table(c) == c[2][1]
Part(c) == c[2][2]
BenchmarkPort(c) == <<0, Config(c)>>
Port(c) == IF Config(c) \in Benchmarks THEN BenchmarkPort(c) ELSE <<Table(c), Part(c)>>
SamePort(c, d) == Port(c) = Port(d)

ASSUME ChildrenAssumption ==
  /\ Parts \in Seq(Seq(Nat \ {0})) /\ Sizes \in Nat
  /\ \A g \in Configs : Len(Parts[g]) = (IF g \in Benchmarks THEN 1 ELSE Len(Parts[Len(Parts)]))
  /\ \A g \in Benchmarks : Parts[g] = <<1>>
  /\ Proxy \notin Children

VARIABLES
  state,     \* what each child does
  fds,       \* the ends of pipes each process holds open
  toChild,   \* messages in the pipe to each child
  fromChild, \* messages in the pipe from each child
  closed     \* the ports whose storage server has ended

procs == <<state, fds, toChild, fromChild, closed>>

\* The four ends of a child's two pipes.
Ends == Children \X {"toW", "toR", "fromW", "fromR"}
Processes == Children \cup {Proxy}
Held(c, end) == \E q \in Processes : <<c, end>> \in fds[q]
States ==
  {"none", "forked", "armed", "connecting", "loading", "serving", "erred", "failed", "dead"}
Alive(c) == state[c] \notin {"none", "dead"}

InitProcs ==
  /\ state = [c \in Children |-> "none"]
  /\ fds = [q \in Processes |-> {}]
  /\ toChild = [c \in Children |-> <<>>]
  /\ fromChild = [c \in Children |-> <<>>]
  /\ closed = {}

------------------------------------------------------------------------------
(* Forking. *)

\* The parent closes the child's ends.
ParentEnds(c) == fds[Proxy] \cup {<<c, "toW">>, <<c, "fromR">>}

\* pipe, pipe, fork: the child has every end its parent had open, also those to the
\* children of other tables.
Fork(c) ==
  /\ state' = [state EXCEPT ![c] = "forked"]
  /\ fds' = [fds EXCEPT
       ![c] = fds[Proxy] \cup {<<c, "toW">>, <<c, "toR">>, <<c, "fromW">>, <<c, "fromR">>},
       ![Proxy] = ParentEnds(c)]
  /\ UNCHANGED <<toChild, fromChild, closed>>

\* PR_SET_PDEATHSIG: from here on the child gets SIGTERM when its parent dies.
Arm(c) ==
  /\ state[c] = "forked"
  /\ state' = [state EXCEPT ![c] = "armed"]
  /\ UNCHANGED <<fds, toChild, fromChild, closed>>

\* Mutant: the child keeps its parent's end of the pipe it reads from.
CloseSiblingsOnly(c) ==
  /\ state[c] = "armed"
  /\ state' = [state EXCEPT ![c] = "connecting"]
  /\ fds' = [fds EXCEPT ![c] = {e \in @ : e[1] = c \/ Table(e[1]) # Table(c)} \ {<<c, "fromR">>}]
  /\ UNCHANGED <<toChild, fromChild, closed>>

\* The child closes its parent's ends and those to its siblings; server_processes_ does
\* not know the children of other tables.
CloseInherited(c) ==
  /\ state[c] = "armed"
  /\ state' = [state EXCEPT ![c] = "connecting"]
  /\ fds' = [fds EXCEPT ![c] =
       {e \in @ : Table(e[1]) # Table(c)} \cup {<<c, "toR">>, <<c, "fromW">>}]
  /\ UNCHANGED <<toChild, fromChild, closed>>

\* The storage server handles one connection at a time; without one the child tries
\* again and again.
Connect(c) ==
  /\ state[c] = "connecting" /\ Port(c) \notin closed
  /\ \A d \in Children \ {c} : SamePort(c, d) => state[d] \notin {"loading", "serving", "erred", "failed"}
  /\ state' = [state EXCEPT ![c] = "loading"]
  /\ UNCHANGED <<fds, toChild, fromChild, closed>>

------------------------------------------------------------------------------
(* A child's way on. *)

\* The process ends and all its ends are closed.
Ended(c) ==
  /\ state' = [state EXCEPT ![c] = "dead"]
  /\ fds' = [fds EXCEPT ![c] = {}]

\* The process is killed.  What it had sent may end inside a message, and then its
\* storage server ends too.
Killed(c) ==
  /\ Ended(c)
  /\ \/ UNCHANGED closed
     \/ state[c] \in {"loading", "serving"} /\ closed' = closed \cup {Port(c)}

\* A child writes one message to its parent; nobody left to read it is SIGPIPE.
Tell(c, msg, next) ==
  IF Held(c, "fromR")
  THEN /\ fromChild' = [fromChild EXCEPT ![c] = Append(@, msg)]
       /\ state' = [state EXCEPT ![c] = next]
       /\ UNCHANGED <<fds, toChild, closed>>
  ELSE Killed(c) /\ UNCHANGED <<toChild, fromChild>>

\* Loaded: the ready signal, then the event loop.
BecomeReady(c) == state[c] = "loading" /\ Tell(c, "ready", "serving")

\* Anything thrown while connecting or loading is caught, told to the parent with 0 ...
Fail(c) == state[c] \in {"connecting", "loading"} /\ Tell(c, "failed", "failed")

\* ... and the child closes its pipes and exits.
ExitFailed(c) ==
  /\ state[c] \in {"failed", "erred"}
  /\ Ended(c)
  /\ UNCHANGED <<toChild, fromChild, closed>>

\* The event loop executes a batch and answers.
ServeBatch(c) ==
  /\ state[c] = "serving" /\ toChild[c] # <<>> /\ Head(toChild[c]) # "stop"
  /\ IF Held(c, "fromR")
     THEN /\ fromChild' = [fromChild EXCEPT ![c] = Append(@, "result")]
          /\ toChild' = [toChild EXCEPT ![c] = Tail(@)]
          /\ UNCHANGED <<state, fds, closed>>
     ELSE Killed(c) /\ UNCHANGED <<toChild, fromChild>>

\* An access of the batch throws, or its message ends early: what follows is not a result.
ErrInBatch(c) ==
  /\ state[c] = "serving" /\ toChild[c] # <<>> /\ Head(toChild[c]) # "stop"
  /\ Tell(c, "failed", "erred")

\* num_ops = 0, or the end of the pipe: the loop is left and the process exits.
LeaveLoop(c) ==
  /\ state[c] = "serving"
  /\ \/ toChild[c] # <<>> /\ Head(toChild[c]) = "stop"
     \/ toChild[c] = <<>> /\ ~ Held(c, "toW")
  /\ Ended(c)
  /\ UNCHANGED <<toChild, fromChild, closed>>

\* The process dies without a word, for want of memory for one.
Die(c) ==
  /\ Alive(c)
  /\ Killed(c)
  /\ UNCHANGED <<toChild, fromChild>>

\* What a child does when nothing goes wrong with its process, and what it need not do.
ChildStep(c) ==
  \/ Arm(c) \/ CloseInherited(c) \/ Connect(c) \/ BecomeReady(c)
  \/ ExitFailed(c) \/ ServeBatch(c) \/ LeaveLoop(c)
ChildErrs(c) == Fail(c) \/ ErrInBatch(c)

\* The child tries for ever to connect.
Stuck(c) == state[c] = "connecting" /\ Port(c) \in closed

------------------------------------------------------------------------------
(* The proxy's side of a pipe. *)

\* A write to a child reaches its pipe only if somebody can read it.
CanWrite(c) == Held(c, "toR")
Write(c, msg) == toChild' = [toChild EXCEPT ![c] = Append(@, msg)]

\* A read returns a message, or nothing when the pipe is empty and closed.
HasMessage(c) == fromChild[c] # <<>>
AtEnd(c) == fromChild[c] = <<>> /\ ~ Held(c, "fromW")
Read(c) == fromChild' = [fromChild EXCEPT ![c] = Tail(@)]

\* The proxy is gone: its ends are closed, and SIGTERM ends the children that asked
\* for it.  Which storage servers they take with them concerns nobody: no child that is
\* left has the port of one that is signalled.
ProxyEnds ==
  LET signalled == {c \in Children : Alive(c) /\ state[c] # "forked"}
  IN  /\ state' = [c \in Children |-> IF c \in signalled THEN "dead" ELSE state[c]]
      /\ fds' = [q \in Processes |-> IF q = Proxy \/ q \in signalled THEN {} ELSE fds[q]]
      /\ UNCHANGED <<toChild, fromChild, closed>>
==============================================================================
