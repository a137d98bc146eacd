------------------------------ MODULE SweepProofs ------------------------------
(***************************************************************************)
(* The sweep of the TPC-C driver and its children, for every sequence of   *)
(* configurations, number of tables and of partitions: type correctness,   *)
(* and the four safety invariants.                                         *)
(***************************************************************************)
EXTENDS Sweep, WellFoundedInduction, TLAPS

\* Before its ready signal, and after it.
Early == {"none", "forked", "armed", "connecting", "loading"}
Past == {"serving", "erred", "dead"}

\* A child still to be forked in this configuration or a later one.
NotYet(c) ==
  \/ Config(c) > config
  \/ /\ Config(c) = config /\ step \in {"retire", "start", "threshold"}
     /\ \/ Table(c) > table
        \/ Table(c) = table /\ (step = "start" => Part(c) >= part)

\* The tables whose children are those of this configuration.
Renewed(t) ==
  \/ Executing
  \/ step \in {"retire", "start"} /\ t < table
  \/ step = "start" /\ t = table

\* The maps of the driver hold every child that is alive, and in the map of a table are
\* children of one configuration.
Ledger ==
  /\ table \in DOMAIN Parts[config] /\ (step = "threshold" => table = 1)
  /\ \A t \in Tables : \A c \in running[t] : Table(c) = t /\ state[c] # "none"
  /\ \A t \in Tables : \A c, d \in running[t] : Config(c) = Config(d)
  /\ \A t \in Tables : Renewed(t) => \A c \in running[t] : Config(c) = config
  /\ Benchmark => \A t \in Tables \ {1} : running[t] = {}
  /\ \A c \in Children : Alive(c) => c \in running[Table(c)]
  /\ \A c \in Children : NotYet(c) => state[c] = "none"

\* A batch that a child has not taken.
Batch(c) == toChild[c] \in {<<"read">>, <<"update">>}

\* The pipes of a child, while the driver runs or not.
Pipes(c) ==
  /\ toChild[c] = <<>> \/ Batch(c) \/ Head(toChild[c]) = "stop"
  /\ Batch(c) => state[c] \in Past
  /\ state[c] \in Early => fromChild[c] = <<>>
  /\ state[c] = "none" => task[c] = "none" /\ toChild[c] = <<>>

\* What the driver has of a child agrees with what the child did.
Protocol(c) ==
  /\ fromChild[c] \in {<<>>, <<"ready">>, <<"failed">>, <<"result">>}
  /\ fromChild[c] = <<"ready">> => state[c] \in Past
  /\ Batch(c) => /\ Executing /\ task[c] = "sent" /\ toChild[c] = <<step>>
                 /\ \/ fromChild[c] = <<>>
                    \/ fromChild[c] = <<"failed">> /\ state[c] # "serving"
                 /\ c \in running[table]
  /\ task[c] \in {"idle", "done"} => fromChild[c] = <<>>
  /\ task[c] \in {"idle", "sent", "done"} => state[c] \in Past

\* The pipes of all children: batches in them are of one phase.
Mail ==
  /\ \A c \in Children : Pipes(c)
  /\ \A c, d \in Children : Batch(c) /\ Batch(d) => toChild[c] = toChild[d]
  /\ ~ Gone => \A c \in Children : Protocol(c)

\* The inductive invariant.
Inv == TypeOK /\ Ledger /\ Mail

------------------------------------------------------------------------------

\* The configurations, their tables and their partitions.
LEMMA Configurations ==
  /\ 1 \in Configs /\ Len(Parts) \in Nat /\ Configs = 1 .. Len(Parts)
  /\ \A g \in Configs :
       /\ Len(Parts[g]) \in Nat \ {0} /\ DOMAIN Parts[g] = 1 .. Len(Parts[g])
       /\ 1 \in DOMAIN Parts[g] /\ DOMAIN Parts[g] \subseteq Tables
       /\ \A t \in DOMAIN Parts[g] : Parts[g][t] \in Nat \ {0}
  /\ \A g \in Benchmarks : g \in Configs /\ Parts[g] = <<1>> /\ Len(Parts[g]) = 1
<1> DEFINE N == Len(Parts)
<1>1. Parts \in Seq(Seq(Nat \ {0})) /\ Parts # <<>> /\ Parts[N] # <<>> /\ Sizes \in Nat /\ Sizes < N
  BY ChildrenAssumption, SweepAssumption
<1>2. N \in Nat /\ N # 0 /\ Configs = 1 .. N /\ \A g \in 1 .. N : Parts[g] \in Seq(Nat \ {0})
  BY <1>1 DEF Configs
<1> HIDE DEF N
<1>3. \A g \in Benchmarks : g \in Configs /\ Parts[g] = <<1>> /\ Len(Parts[g]) = 1
  <2> SUFFICES ASSUME NEW g \in Benchmarks PROVE g \in Configs /\ Parts[g] = <<1>> /\ Len(Parts[g]) = 1
    OBVIOUS
  <2>1. g \in 1 .. Sizes
    BY DEF Benchmarks
  <2>2. g \in Configs
    BY <1>1, <1>2, <2>1
  <2>3. Parts[g] = <<1>>
    BY ChildrenAssumption
  <2> QED BY <2>2, <2>3
<1>4. ASSUME NEW g \in Configs
      PROVE  /\ Len(Parts[g]) \in Nat \ {0} /\ DOMAIN Parts[g] = 1 .. Len(Parts[g])
             /\ 1 \in DOMAIN Parts[g] /\ DOMAIN Parts[g] \subseteq Tables
             /\ \A t \in DOMAIN Parts[g] : Parts[g][t] \in Nat \ {0}
  <2>1. Parts[g] \in Seq(Nat \ {0}) /\ Parts[N] \in Seq(Nat \ {0}) /\ N \in Configs
    BY <1>2
  <2>2. Len(Parts[N]) \in Nat \ {0}
    BY <1>1, <2>1
  <2>3. Len(Parts[g]) \in Nat \ {0}
    <3>1. Len(Parts[g]) = (IF g \in Benchmarks THEN 1 ELSE Len(Parts[N]))
      BY ChildrenAssumption DEF N
    <3> QED BY <2>2, <3>1
  <2>4. DOMAIN Parts[g] \subseteq Tables
    BY DEF Tables
  <2> QED BY <2>1, <2>3, <2>4
<1> QED BY <1>2, <1>3, <1>4 DEF N

\* The tables of a configuration are all tables, or it is a benchmark with one.
LEMMA TablesOf ==
  ASSUME NEW t \in Tables
  PROVE  /\ t \in Nat \ {0}
         /\ \A g \in Configs : t \in DOMAIN Parts[g] \/ (g \in Benchmarks /\ t # 1)
<1>1. PICK h \in Configs : t \in DOMAIN Parts[h]
  BY DEF Tables
<1>2. t \in 1 .. Len(Parts[h]) /\ Len(Parts[h]) \in Nat
  BY <1>1, Configurations
<1>3. ASSUME NEW g \in Configs, t \notin DOMAIN Parts[g] PROVE g \in Benchmarks /\ t # 1
  <2>1. DOMAIN Parts[g] = 1 .. Len(Parts[g]) /\ 1 \in DOMAIN Parts[g] /\ Len(Parts[g]) \in Nat
    BY Configurations
  <2>2. CASE g \in Benchmarks
    BY <1>3, <2>1, <2>2
  <2>3. CASE g \notin Benchmarks
    <3>1. Len(Parts[g]) = Len(Parts[Len(Parts)])
      BY <2>3, ChildrenAssumption
    <3>2. Len(Parts[h]) = 1 \/ Len(Parts[h]) = Len(Parts[g])
      BY <3>1, ChildrenAssumption
    <3>3. CASE Len(Parts[h]) = 1
      BY <1>2, <1>3, <2>1, <3>3
    <3>4. CASE Len(Parts[h]) = Len(Parts[g])
      BY <1>2, <1>3, <2>1, <3>4
    <3> QED BY <3>2, <3>3, <3>4
  <2> QED BY <2>2, <2>3
<1> QED BY <1>2, <1>3

\* A child is its configuration, its table and its partition.
LEMMA ChildIs ==
  ASSUME NEW c \in Children
  PROVE  /\ Config(c) \in Configs /\ Table(c) \in DOMAIN Parts[Config(c)]
         /\ Part(c) \in 1 .. Parts[Config(c)][Table(c)]
         /\ c = <<Config(c), <<Table(c), Part(c)>>>>
         /\ Table(c) \in Tables /\ Table(c) \in Nat \ {0}
<1>1. PICK g \in Configs : c \in {g} \X UNION {{t} \X (1 .. Parts[g][t]) : t \in DOMAIN Parts[g]}
  BY DEF Children
<1>2. c = <<c[1], c[2]>> /\ c[1] = g /\ c[2] \in UNION {{t} \X (1 .. Parts[g][t]) : t \in DOMAIN Parts[g]}
  BY <1>1
<1>3. PICK t \in DOMAIN Parts[g] : c[2] \in {t} \X (1 .. Parts[g][t])
  BY <1>2
<1>4. c[2] = <<c[2][1], c[2][2]>> /\ c[2][1] = t /\ c[2][2] \in 1 .. Parts[g][t]
  BY <1>3
<1>5. t \in Tables /\ t \in Nat \ {0}
  BY TablesOf DEF Tables
<1> QED BY <1>2, <1>3, <1>4, <1>5 DEF Config, Table, Part

\* The child of a partition of a table.
LEMMA ChildOf ==
  ASSUME NEW g \in Configs, NEW t \in DOMAIN Parts[g], NEW k \in 1 .. Parts[g][t]
  PROVE  /\ <<g, <<t, k>>>> \in Children /\ Config(<<g, <<t, k>>>>) = g
         /\ Table(<<g, <<t, k>>>>) = t /\ Part(<<g, <<t, k>>>>) = k
<1>1. <<t, k>> \in UNION {{u} \X (1 .. Parts[g][u]) : u \in DOMAIN Parts[g]}
  OBVIOUS
<1>2. <<g, <<t, k>>>> \in {g} \X UNION {{u} \X (1 .. Parts[g][u]) : u \in DOMAIN Parts[g]}
  BY <1>1
<1> QED BY <1>2 DEF Children, Config, Table, Part

\* Sequences of one message.
LEMMA OneMessage ==
  ASSUME NEW m
  PROVE  /\ <<m>> # <<>> /\ Head(<<m>>) = m /\ Tail(<<m>>) = <<>> /\ Append(<<>>, m) = <<m>>
OBVIOUS

------------------------------------------------------------------------------

\* Nobody has been forked.
LEMMA InitInv == Init => Inv
<1> SUFFICES ASSUME Init PROVE Inv
  OBVIOUS
<1>1. /\ state = [c \in Children |-> "none"] /\ fds = [q \in Processes |-> {}]
      /\ toChild = [c \in Children |-> <<>>] /\ fromChild = [c \in Children |-> <<>>] /\ closed = {}
      /\ step = "retire" /\ config = 1 /\ table = 1 /\ part = 1
      /\ running = [t \in Tables |-> {}] /\ task = [c \in Children |-> "none"] /\ measured = FALSE
  BY DEF Init, InitProcs
<1>2. 1 \in Configs /\ 1 \in DOMAIN Parts[1] /\ 1 \in Tables
  BY Configurations
<1>3. TypeOK
  <2>1. <<>> \in Seq({"read", "update", "stop"}) /\ <<>> \in Seq({"ready", "failed", "result"})
    OBVIOUS
  <2>2. /\ state \in [Children -> States] /\ fds \in [Processes -> SUBSET Ends]
        /\ task \in [Children -> {"none", "starting", "idle", "sent", "done"}]
        /\ running \in [Tables -> SUBSET Children]
    BY <1>1 DEF States
  <2>3. /\ toChild \in [Children -> Seq({"read", "update", "stop"})]
        /\ fromChild \in [Children -> Seq({"ready", "failed", "result"})]
    BY <1>1, <2>1
  <2>4. step \in Steps /\ config \in Configs /\ table \in Tables /\ part \in Nat \ {0}
    BY <1>1, <1>2 DEF Steps
  <2>5. measured \in BOOLEAN /\ closed \subseteq {Port(c) : c \in Children}
    BY <1>1
  <2> QED BY <2>2, <2>3, <2>4, <2>5 DEF TypeOK
<1>4. Ledger
  BY <1>1, <1>2, ChildIs DEF Ledger, Alive
<1>5. Mail
  <2>1. \A c \in Children : ~ Batch(c)
    BY <1>1 DEF Batch
  <2> QED BY <1>1, <2>1 DEF Mail, Pipes, Protocol, Early
<1> QED BY <1>3, <1>4, <1>5 DEF Inv

------------------------------------------------------------------------------
(* The steps of a child. *)

\* A child is in another state, and has put a message in its pipe.
Move(c, s) == state' = [state EXCEPT ![c] = s]
Says(c, msg) == fromChild' = [fromChild EXCEPT ![c] = Append(@, msg)]

\* What a step of a child does to the states and the pipes.
Moves(c) ==
  \/ /\ UNCHANGED <<toChild, fromChild>> /\ Alive(c)
     /\ \/ Move(c, "dead")
        \/ state[c] \in Early /\ \E s \in Early \ {"none"} : Move(c, s)
  \/ state[c] = "loading" /\ Move(c, "serving") /\ Says(c, "ready") /\ UNCHANGED toChild
  \/ state[c] \in Early \ {"none"} /\ Move(c, "failed") /\ Says(c, "failed") /\ UNCHANGED toChild
  \/ /\ state[c] = "serving" /\ Batch(c) /\ Says(c, "result") /\ UNCHANGED state
     /\ toChild' = [toChild EXCEPT ![c] = <<>>]
  \/ /\ state[c] = "serving" /\ Batch(c) /\ Says(c, "failed") /\ Move(c, "erred")
     /\ UNCHANGED toChild

\* Each step of a child is one of these, and keeps the types.
LEMMA ChildMoves ==
  ASSUME Inv, NEW c \in Children, ChildStep(c) \/ ChildErrs(c) \/ Die(c), UNCHANGED driver
  PROVE  Moves(c) /\ TypeOK'
<1>1. /\ TypeOK /\ Pipes(c)
      /\ UNCHANGED <<step, config, table, part, running, task, measured>>
  BY DEF Inv, Mail, driver
<1>2. ASSUME Ended(c), UNCHANGED <<toChild, fromChild>>, Alive(c),
             closed' \in {closed, closed \cup {Port(c)}}
      PROVE  Moves(c) /\ TypeOK'
  BY <1>1, <1>2 DEF Ended, Moves, Move, TypeOK, States, Processes
<1>3. ASSUME Killed(c), UNCHANGED <<toChild, fromChild>>, Alive(c) PROVE Moves(c) /\ TypeOK'
  BY <1>2, <1>3 DEF Killed
<1>4. ASSUME Move(c, "serving") \/ Move(c, "failed") \/ Move(c, "erred") \/ UNCHANGED state,
             Says(c, "ready") \/ Says(c, "failed") \/ Says(c, "result"),
             toChild' = toChild \/ toChild' = [toChild EXCEPT ![c] = <<>>],
             UNCHANGED <<fds, closed>>
      PROVE  TypeOK'
  <2>1. state' \in [Children -> States]
    BY <1>1, <1>4 DEF Move, TypeOK, States
  <2>2. fromChild' \in [Children -> Seq({"ready", "failed", "result"})]
    <3>1. PICK m \in {"ready", "failed", "result"} : Says(c, m)
      BY <1>4
    <3>2. Append(fromChild[c], m) \in Seq({"ready", "failed", "result"})
      BY <1>1 DEF TypeOK
    <3> QED BY <1>1, <3>1, <3>2 DEF Says, TypeOK
  <2>3. toChild' \in [Children -> Seq({"read", "update", "stop"})]
    <3>1. <<>> \in Seq({"read", "update", "stop"})
      OBVIOUS
    <3> QED BY <1>1, <1>4, <3>1 DEF TypeOK
  <2> QED BY <1>1, <1>4, <2>1, <2>2, <2>3 DEF TypeOK
<1>5. ASSUME toChild[c] # <<>>, Head(toChild[c]) # "stop"
      PROVE  Batch(c) /\ [toChild EXCEPT ![c] = Tail(@)] = [toChild EXCEPT ![c] = <<>>]
  <2>1. Batch(c)
    BY <1>1, <1>5 DEF Pipes
  <2>2. Tail(toChild[c]) = <<>>
    BY <2>1, OneMessage DEF Batch
  <2> QED BY <2>1, <2>2
<1>6. CASE Arm(c)
  BY <1>1, <1>6 DEF Arm, Moves, Move, TypeOK, States, Early, Alive
<1>7. CASE CloseInherited(c)
  <2>1. {e \in fds[c] : Table(e[1]) # Table(c)} \cup {<<c, "toR">>, <<c, "fromW">>} \subseteq Ends
    BY <1>1 DEF TypeOK, Processes, Ends
  <2> QED BY <1>1, <1>7, <2>1 DEF CloseInherited, Moves, Move, TypeOK, States, Early, Alive, Processes
<1>8. CASE Connect(c)
  BY <1>1, <1>8 DEF Connect, Moves, Move, TypeOK, States, Early, Alive
<1>9. CASE BecomeReady(c)
  BY <1>1, <1>3, <1>4, <1>9 DEF BecomeReady, Tell, Moves, Move, Says, Alive
<1>10. CASE ExitFailed(c)
  BY <1>2, <1>10 DEF ExitFailed, Alive
<1>11. CASE ServeBatch(c)
  BY <1>3, <1>4, <1>5, <1>11 DEF ServeBatch, Moves, Says, Alive
<1>12. CASE LeaveLoop(c)
  BY <1>2, <1>12 DEF LeaveLoop, Alive
<1>13. CASE Fail(c)
  BY <1>1, <1>3, <1>4, <1>13 DEF Fail, Tell, Moves, Move, Says, Early, Alive
<1>14. CASE ErrInBatch(c)
  BY <1>1, <1>3, <1>4, <1>5, <1>14 DEF ErrInBatch, Tell, Moves, Move, Says, Alive
<1>15. CASE Die(c)
  BY <1>3, <1>15 DEF Die
<1> QED BY <1>6, <1>7, <1>8, <1>9, <1>10, <1>11, <1>12, <1>13, <1>14, <1>15 DEF ChildStep, ChildErrs

\* A step of a child leaves the maps right.
LEMMA ChildLedger ==
  ASSUME Inv, NEW c \in Children, Moves(c), UNCHANGED driver
  PROVE  Ledger'
<1>1. /\ TypeOK /\ Ledger /\ Pipes(c)
      /\ UNCHANGED <<step, config, table, part, running, task, measured>>
  BY DEF Inv, Mail, driver
<1>2. /\ state[c] # "none" /\ Alive(c)
      /\ \A d \in Children : d # c => state'[d] = state[d]
      /\ state'[c] # "none"
  BY <1>1 DEF Moves, Move, Early, TypeOK, Alive
<1>3. \A d \in Children : Alive(d)' => Alive(d)
  BY <1>2 DEF Alive
<1>4. \A d \in Children : state[d] # "none" <=> state'[d] # "none"
  BY <1>2
<1>5. \A t \in Tables : running[t] \subseteq Children
  BY <1>1 DEF TypeOK
<1> QED BY <1>1, <1>3, <1>4, <1>5 DEF Ledger, NotYet, Renewed, Benchmark, Executing

\* A step of a child leaves the pipes, and what the driver has of them, right.
LEMMA ChildMail ==
  ASSUME Inv, NEW c \in Children, Moves(c), UNCHANGED driver
  PROVE  Mail'
<1>1. /\ TypeOK /\ Pipes(c) /\ (~ Gone => Protocol(c))
      /\ \A d \in Children : Pipes(d) /\ (~ Gone => Protocol(d))
      /\ \A d, e \in Children : Batch(d) /\ Batch(e) => toChild[d] = toChild[e]
      /\ UNCHANGED <<step, config, table, part, running, task, measured>>
  BY DEF Inv, Mail, driver
<1>2. \A d \in Children : d # c => /\ state'[d] = state[d] /\ toChild'[d] = toChild[d]
                                   /\ fromChild'[d] = fromChild[d]
  BY <1>1 DEF Moves, Move, Says, TypeOK
<1>3. toChild'[c] = toChild[c] \/ toChild'[c] = <<>>
  BY <1>1 DEF Moves, TypeOK
<1>4. Batch(c)' => Batch(c) /\ toChild'[c] = toChild[c]
  BY <1>3, OneMessage DEF Batch
<1>5. \A d \in Children : Batch(d)' => Batch(d) /\ toChild'[d] = toChild[d]
  BY <1>2, <1>4 DEF Batch
<1>6. state[c] \in Past => state'[c] \in Past
  BY <1>1 DEF Moves, Move, Past, Early, TypeOK
<1>7. Pipes(c)' /\ (~ Gone => Protocol(c)')
  <2>1. CASE UNCHANGED <<toChild, fromChild>> /\ Alive(c) /\ Move(c, "dead")
    <3>1. state'[c] = "dead"
      BY <1>1, <2>1 DEF Move, TypeOK
    <3> QED BY <1>1, <2>1, <3>1 DEF Pipes, Protocol, Batch, Executing, Past, Early
  <2>2. CASE /\ UNCHANGED <<toChild, fromChild>> /\ Alive(c)
             /\ state[c] \in Early /\ \E s \in Early \ {"none"} : Move(c, s)
    <3>1. state'[c] \in Early \ {"none"} /\ state[c] \in Early
      BY <1>1, <2>2 DEF Move, TypeOK
    <3>2. ~ Batch(c) /\ fromChild[c] = <<>> /\ (~ Gone => task[c] \notin {"idle", "sent", "done"})
      BY <1>1, <3>1 DEF Pipes, Protocol, Early, Past
    <3> QED BY <1>1, <2>2, <3>1, <3>2 DEF Pipes, Protocol, Batch, Early, Past
  <2>3. CASE state[c] = "loading" /\ Move(c, "serving") /\ Says(c, "ready") /\ UNCHANGED toChild
    <3>1. ~ Batch(c) /\ fromChild[c] = <<>> /\ (~ Gone => task[c] \notin {"idle", "sent", "done"})
      BY <1>1, <2>3 DEF Pipes, Protocol, Early, Past
    <3>2. state'[c] = "serving" /\ fromChild'[c] = <<"ready">>
      BY <1>1, <2>3, <3>1, OneMessage DEF Move, Says, TypeOK
    <3> QED BY <1>1, <2>3, <3>1, <3>2 DEF Pipes, Protocol, Batch, Early, Past
  <2>4. CASE /\ state[c] \in Early \ {"none"} /\ Move(c, "failed") /\ Says(c, "failed")
             /\ UNCHANGED toChild
    <3>1. ~ Batch(c) /\ fromChild[c] = <<>> /\ (~ Gone => task[c] \notin {"idle", "sent", "done"})
      BY <1>1, <2>4 DEF Pipes, Protocol, Early, Past
    <3>2. state'[c] = "failed" /\ fromChild'[c] = <<"failed">>
      BY <1>1, <2>4, <3>1, OneMessage DEF Move, Says, TypeOK
    <3> QED BY <1>1, <2>4, <3>1, <3>2 DEF Pipes, Protocol, Batch, Early, Past
  <2>5. CASE /\ state[c] = "serving" /\ Batch(c) /\ Says(c, "result") /\ UNCHANGED state
             /\ toChild' = [toChild EXCEPT ![c] = <<>>]
    <3>1. toChild'[c] = <<>> /\ ~ Batch(c)'
      BY <1>1, <2>5, OneMessage DEF TypeOK, Batch
    <3>2. ~ Gone => fromChild'[c] = <<"result">> /\ task[c] = "sent"
      BY <1>1, <2>5, OneMessage DEF Protocol, Says, TypeOK
    <3>3. <<"result">> # <<"ready">>
      OBVIOUS
    <3> QED BY <1>1, <2>5, <3>1, <3>2, <3>3 DEF Pipes, Protocol, Early, Past
  <2>6. CASE /\ state[c] = "serving" /\ Batch(c) /\ Says(c, "failed") /\ Move(c, "erred")
             /\ UNCHANGED toChild
    <3>1. state'[c] = "erred"
      BY <1>1, <2>6 DEF Move, TypeOK
    <3>2. ~ Gone => fromChild'[c] = <<"failed">> /\ task[c] = "sent"
      BY <1>1, <2>6, OneMessage DEF Protocol, Says, TypeOK
    <3>3. <<"failed">> # <<"ready">>
      OBVIOUS
    <3> QED BY <1>1, <2>6, <3>1, <3>2, <3>3 DEF Pipes, Protocol, Batch, Executing, Early, Past
  <2> QED BY <2>1, <2>2, <2>3, <2>4, <2>5, <2>6 DEF Moves
<1>8. ASSUME NEW d \in Children, d # c PROVE Pipes(d)' /\ (~ Gone => Protocol(d)')
  BY <1>1, <1>2, <1>8 DEF Pipes, Protocol, Batch, Executing
<1> QED BY <1>1, <1>5, <1>7, <1>8 DEF Mail, Gone

------------------------------------------------------------------------------
(* The steps of the driver. *)

\* The end of the program leaves what is in the pipes, and what is not dead alive.
LEMMA ProxyStopsInv ==
  ASSUME Inv, NEW outcome \in Outcomes, ProxyStops(outcome)
  PROVE  Inv'
<1> DEFINE signalled == {c \in Children : Alive(c) /\ state[c] # "forked"}
<1>1. /\ state' = [c \in Children |-> IF c \in signalled THEN "dead" ELSE state[c]]
      /\ fds' = [q \in Processes |-> IF q = Proxy \/ q \in signalled THEN {} ELSE fds[q]]
      /\ step' = outcome
      /\ UNCHANGED <<toChild, fromChild, closed, config, table, part, running, task, measured>>
  BY DEF ProxyStops, ProxyEnds
<1>2. /\ TypeOK /\ Ledger /\ \A c \in Children : Pipes(c)
      /\ \A c, d \in Children : Batch(c) /\ Batch(d) => toChild[c] = toChild[d]
  BY DEF Inv, Mail
<1>3. step' \in Outcomes /\ step' \in Steps /\ step' \notin {"retire", "start", "threshold", "read", "update"}
  BY <1>1 DEF Outcomes, Steps
<1>4. \A c \in Children : state'[c] = state[c] \/ (state'[c] = "dead" /\ Alive(c))
  BY <1>1
<1>5. TypeOK'
  <2>1. state' \in [Children -> States] /\ fds' \in [Processes -> SUBSET Ends]
    BY <1>1, <1>2 DEF TypeOK, States
  <2> QED BY <1>1, <1>2, <1>3, <2>1 DEF TypeOK
<1> HIDE DEF signalled
<1>6. Ledger'
  <2>1. \A t \in Tables : running[t] \subseteq Children
    BY <1>2 DEF TypeOK
  <2>2. \A c \in Children : (Alive(c)' => Alive(c)) /\ (state[c] = "none" <=> state'[c] = "none")
    BY <1>4 DEF Alive
  <2> QED BY <1>1, <1>2, <1>3, <2>1, <2>2 DEF Ledger, NotYet, Renewed, Benchmark, Executing
<1>7. Mail'
  <2>1. \A c \in Children : Pipes(c)'
    BY <1>1, <1>2, <1>4 DEF Pipes, Batch, Past, Early, Alive
  <2> QED BY <1>1, <1>2, <1>3, <2>1 DEF Mail, Batch, Gone
<1> QED BY <1>5, <1>6, <1>7 DEF Inv

\* Outside of an epoch no batch is in a pipe.
LEMMA NoBatch ==
  ASSUME Inv, ~ Gone, ~ Executing
  PROVE  \A c \in Children : ~ Batch(c)
BY DEF Inv, Mail, Protocol

\* Then nothing in the pipes depends on where the driver is.
LEMMA MailKept ==
  ASSUME Inv, ~ Gone, \A c \in Children : ~ Batch(c), UNCHANGED <<state, toChild, fromChild, task>>
  PROVE  Mail'
BY DEF Inv, Mail, Pipes, Protocol, Batch

\* On to the next configuration: its first table, with no child of its own forked yet.
LEMMA NextConfigLedger ==
  ASSUME Inv, step \in {"start", "shutdown"}, NextConfig, UNCHANGED <<state, running>>
  PROVE  /\ Ledger' /\ step' \in {"exit", "threshold", "retire"}
         /\ config' \in Configs /\ table' \in Tables /\ part' = 1
<1>1. /\ TypeOK /\ Ledger /\ config \in Configs /\ config \in Nat /\ table \in Tables
      /\ table \in DOMAIN Parts[config]
  BY Configurations DEF Inv, TypeOK, Ledger
<1>2. \A t \in Tables : running[t] \subseteq Children /\ t \in Nat /\ ~ (t < 1)
  BY <1>1, TablesOf DEF TypeOK
<1>3. \A c \in Children : Config(c) \in Configs /\ Config(c) \in Nat /\ Config(c) <= Len(Parts)
  BY ChildIs, Configurations
<1>4. CASE config = Len(Parts)
  <2>1. step' = "exit" /\ part' = 1 /\ UNCHANGED <<config, table>>
    BY <1>4 DEF NextConfig
  <2> QED BY <1>1, <1>2, <2>1 DEF Ledger, NotYet, Renewed, Executing, Benchmark, Alive
<1>5. CASE config # Len(Parts)
  <2>1. step' \in {"threshold", "retire"} /\ part' = 1 /\ config' = config + 1 /\ table' = 1
    BY <1>5 DEF NextConfig
  <2>2. config' \in Configs /\ table' \in DOMAIN Parts[config'] /\ table' \in Tables
    BY <1>1, <1>5, <2>1, Configurations
  <2>3. Benchmark' => Benchmark
    <3>1. Sizes \in Nat /\ config \in 1 .. Len(Parts)
      BY <1>1, ChildrenAssumption, Configurations
    <3> QED BY <2>1, <3>1 DEF Benchmark, Benchmarks
  <2>4. \A t \in Tables : ~ Renewed(t)'
    BY <1>2, <2>1 DEF Renewed, Executing
  <2>5. \A c \in Children : NotYet(c)' => NotYet(c)
    BY <1>1, <1>3, <2>1 DEF NotYet
  <2> QED BY <1>1, <1>2, <2>1, <2>2, <2>3, <2>4, <2>5 DEF Ledger, Alive
<1> QED BY <1>4, <1>5

\* A configuration that has thrown is over, or has its children stopped.
LEMMA ThrowLedger ==
  ASSUME Inv, step = "start", Throw, UNCHANGED state
  PROVE  /\ Ledger' /\ step' \in {"exit", "threshold", "retire", "shutdown"}
         /\ config' \in Configs /\ table' \in Tables /\ part' \in Nat \ {0}
         /\ UNCHANGED running
<1>1. CASE Benchmark
  <2>1. step' = "shutdown" /\ UNCHANGED <<config, table, part, running>>
    BY <1>1 DEF Throw
  <2> QED BY <2>1 DEF Inv, TypeOK, Ledger, NotYet, Renewed, Executing, Benchmark, Alive
<1>2. CASE ~ Benchmark
  BY <1>2, NextConfigLedger DEF Throw
<1> QED BY <1>1, <1>2

\* A set of numbers has a least one.
LEMMA LeastNatural ==
  ASSUME NEW S \in SUBSET Nat, S # {}
  PROVE  \E m \in S : \A n \in S : m <= n
<1> DEFINE R == OpToRel(<, Nat)
<1>1. IsWellFoundedOn(R, Nat)
  BY NatLessThanWellFounded
<1>2. PICK m \in S : \A n \in S : <<n, m>> \notin R
  <2> HIDE DEF R
  <2> QED BY <1>1, WFMin
<1>3. \A n \in S : n < m => <<n, m>> \in R
  BY DEF OpToRel
<1> HIDE DEF R
<1>4. \A n \in S : n \in Nat /\ m \in Nat /\ ~ (n < m)
  BY <1>2, <1>3
<1> QED BY <1>4

\* The child that is stopped is one of the table's.
LEMMA StoppedIs ==
  ASSUME Inv, Stopping
  PROVE  Stopped \in running[table] /\ Stopped \in Children
<1>1. running[table] \subseteq Children /\ running[table] # {}
  BY DEF Inv, TypeOK, Stopping
<1>2. \A c \in running[table] : Part(c) \in Nat
  BY <1>1, ChildIs, Configurations
<1> DEFINE S == {Part(c) : c \in running[table]}
<1>3. PICK m \in S : \A n \in S : m <= n
  <2>1. S \subseteq Nat /\ S # {}
    BY <1>1, <1>2
  <2> HIDE DEF S
  <2> QED BY <2>1, LeastNatural
<1>4. \E c \in running[table] : \A d \in running[table] : Part(c) <= Part(d)
  BY <1>3
<1> QED BY <1>1, <1>4 DEF Stopped, First

\* A stop is put in the pipe of a child that has no batch, or the program ends.
LEMMA StopChildInv ==
  ASSUME Inv, StopChild
  PROVE  Inv'
<1>1. ~ Gone /\ ~ Executing /\ Stopped \in running[table] /\ Stopped \in Children
  BY StoppedIs DEF StopChild, Stopping, Gone, Outcomes, Executing
<1> PICK c \in Children : c = Stopped
  BY <1>1
<1>2. CASE ~ CanWrite(c)
  BY <1>2, ProxyStopsInv DEF StopChild, Outcomes
<1>3. CASE CanWrite(c)
  <2>1. /\ toChild' = [toChild EXCEPT ![c] = Append(@, "stop")]
        /\ fds' = [fds EXCEPT ![Proxy] = @ \ {<<c, "toW">>, <<c, "fromR">>}]
        /\ UNCHANGED <<state, fromChild, closed, step, config, table, part, running, task, measured>>
    BY <1>3 DEF StopChild, Write, driver
  <2>2. /\ TypeOK /\ Ledger /\ \A d \in Children : Pipes(d) /\ Protocol(d) /\ ~ Batch(d)
    BY <1>1, NoBatch DEF Inv, Mail
  <2>3. /\ toChild[c] \in Seq({"read", "update", "stop"})
        /\ toChild'[c] = Append(toChild[c], "stop")
        /\ \A d \in Children : d # c => toChild'[d] = toChild[d]
    BY <1>1, <2>1, <2>2 DEF TypeOK
  <2>4. TypeOK'
    <3>1. Append(toChild[c], "stop") \in Seq({"read", "update", "stop"})
      BY <2>3
    <3>2. toChild' \in [Children -> Seq({"read", "update", "stop"})]
      BY <2>1, <2>2, <3>1 DEF TypeOK
    <3>3. fds' \in [Processes -> SUBSET Ends]
      BY <2>1, <2>2 DEF TypeOK, Processes
    <3> QED BY <2>1, <2>2, <3>2, <3>3 DEF TypeOK
  <2>5. Ledger'
    BY <2>1, <2>2 DEF Ledger, NotYet, Renewed, Executing, Benchmark, Alive
  <2>6. Head(toChild'[c]) = "stop" /\ ~ Batch(c)' /\ state[c] # "none"
    <3>1. toChild[c] = <<>> \/ Head(toChild[c]) = "stop"
      BY <1>1, <2>2 DEF Pipes
    <3>2. Head(toChild'[c]) = "stop"
      BY <2>3, <3>1, OneMessage
    <3>3. state[c] # "none"
      BY <2>2, <1>1 DEF Ledger, TypeOK
    <3>4. Head(<<"read">>) = "read" /\ Head(<<"update">>) = "update"
      OBVIOUS
    <3>5. ~ Batch(c)'
      BY <3>2, <3>4 DEF Batch
    <3> QED BY <3>2, <3>3, <3>5
  <2>7. ~ Batch(c)' /\ Pipes(c)' /\ Protocol(c)'
    BY <1>1, <2>1, <2>2, <2>6 DEF Pipes, Protocol
  <2>8. ASSUME NEW d \in Children, d # c PROVE ~ Batch(d)' /\ Pipes(d)' /\ Protocol(d)'
    <3>1. toChild'[d] = toChild[d]
      BY <2>3, <2>8
    <3> QED BY <2>1, <2>2, <3>1 DEF Pipes, Protocol, Batch
  <2> QED BY <2>4, <2>5, <2>7, <2>8 DEF Inv, Mail
<1> QED BY <1>2, <1>3

\* A child that is dead leaves the map.
LEMMA ReapInv ==
  ASSUME Inv, Reap
  PROVE  Inv'
<1> DEFINE c == Stopped
<1>1. /\ ~ Gone /\ ~ Executing /\ state[c] = "dead" /\ c \in Children
      /\ running' = [running EXCEPT ![table] = @ \ {c}]
      /\ UNCHANGED <<state, fds, toChild, fromChild, closed, step, config, table, part, task, measured>>
  BY StoppedIs DEF Reap, procs, Stopping, Gone, Outcomes, Executing
<1> HIDE DEF c
<1>2. TypeOK /\ Ledger
  BY DEF Inv
<1>3. TypeOK' /\ \A t \in Tables : running'[t] \subseteq running[t]
  BY <1>1, <1>2 DEF TypeOK
<1>4. \A d \in Children : Alive(d) => d \in running'[Table(d)]
  BY <1>1, <1>2, ChildIs DEF Ledger, Alive, TypeOK
<1>5. Ledger'
  BY <1>1, <1>2, <1>3, <1>4 DEF Ledger, NotYet, Renewed, Executing, Benchmark, Alive
<1> QED BY <1>1, <1>3, <1>5, NoBatch, MailKept DEF Inv

\* A table without children is to be started.
LEMMA RetiredInv ==
  ASSUME Inv, Retired
  PROVE  Inv'
<1>1. /\ step = "retire" /\ running[table] = {} /\ step' = "start" /\ part' = 1
      /\ UNCHANGED <<state, fds, toChild, fromChild, closed, config, table, running, task, measured>>
  BY DEF Retired, procs
<1>2. TypeOK /\ Ledger
  BY DEF Inv
<1>3. TypeOK'
  BY <1>1, <1>2 DEF TypeOK, Steps
<1>4. Ledger'
  BY <1>1, <1>2 DEF Ledger, NotYet, Renewed, Executing, Benchmark, Alive
<1>5. ~ Gone /\ ~ Executing
  BY <1>1 DEF Gone, Outcomes, Executing
<1> QED BY <1>1, <1>3, <1>4, <1>5, NoBatch, MailKept DEF Inv

\* All children of a table are stopped.
LEMMA TableDownInv ==
  ASSUME Inv, TableDown
  PROVE  Inv'
<1>1. /\ step = "shutdown" /\ running[table] = {}
      /\ UNCHANGED <<state, fds, toChild, fromChild, closed, running, task, measured>>
  BY DEF TableDown, procs
<1>2. TypeOK /\ Ledger /\ config \in Configs
  BY DEF Inv, TypeOK
<1>3. ~ Gone /\ ~ Executing
  BY <1>1 DEF Gone, Outcomes, Executing
<1>4. TypeOK' /\ Ledger'
  <2>1. CASE table = NumTables
    <3>1. /\ Ledger' /\ step' \in {"exit", "threshold", "retire"}
          /\ config' \in Configs /\ table' \in Tables /\ part' = 1
      BY <1>1, <2>1, NextConfigLedger DEF TableDown
    <3> QED BY <1>1, <1>2, <3>1 DEF TypeOK, Steps
  <2>2. CASE table # NumTables
    <3>1. table' = table + 1 /\ UNCHANGED <<step, config, part>>
      BY <2>2 DEF TableDown
    <3>2. table' \in DOMAIN Parts[config] /\ table' \in Tables
      BY <1>2, <2>2, <3>1, Configurations DEF Ledger, NumTables
    <3> QED BY <1>1, <1>2, <3>1, <3>2 DEF TypeOK, Ledger, NotYet, Renewed, Executing, Benchmark, Alive
  <2> QED BY <2>1, <2>2
<1> QED BY <1>1, <1>3, <1>4, NoBatch, MailKept DEF Inv

\* The child of the next partition is forked: it was not there before.
LEMMA StartServerInv ==
  ASSUME Inv, StartServer
  PROVE  Inv'
<1> PICK c : c = <<config, <<table, part>>>>
  OBVIOUS
<1>1. /\ step = "start" /\ part <= Parts[config][table] /\ part' = part + 1
      /\ state' = [state EXCEPT ![c] = "forked"]
      /\ fds' = [fds EXCEPT ![c] = fds[Proxy] \cup {<<c, "toW">>, <<c, "toR">>, <<c, "fromW">>, <<c, "fromR">>},
                            ![Proxy] = fds[Proxy] \cup {<<c, "toW">>, <<c, "fromR">>}]
      /\ running' = [running EXCEPT ![table] = @ \cup {c}]
      /\ task' = [task EXCEPT ![c] = "starting"]
      /\ UNCHANGED <<toChild, fromChild, closed, step, config, table, measured>>
  BY DEF StartServer, Starting, Fork, ParentEnds
<1>2. TypeOK /\ Ledger /\ \A d \in Children : Pipes(d)
  BY DEF Inv, Mail
<1>3. ~ Gone /\ ~ Executing /\ \A d \in Children : ~ Batch(d) /\ Protocol(d)
  BY <1>1, NoBatch DEF Gone, Outcomes, Executing, Inv, Mail
<1>4. /\ config \in Configs /\ config \in Nat /\ table \in DOMAIN Parts[config] /\ table \in Tables
      /\ table \in Nat /\ part \in Nat \ {0} /\ Parts[config][table] \in Nat
  BY <1>2, Configurations DEF TypeOK, Ledger
<1>5. c \in Children /\ Config(c) = config /\ Table(c) = table /\ Part(c) = part
  <2>1. part \in 1 .. Parts[config][table]
    BY <1>1, <1>4
  <2> QED BY <1>4, <2>1, ChildOf
<1>6. state[c] = "none" /\ task[c] = "none" /\ toChild[c] = <<>> /\ fromChild[c] = <<>>
  <2>1. NotYet(c)
    BY <1>1, <1>4, <1>5 DEF NotYet
  <2> QED BY <1>2, <1>5, <2>1 DEF Ledger, Pipes, Early
<1>7. TypeOK'
  <2>1. /\ fds[Proxy] \subseteq Ends
        /\ {<<c, "toW">>, <<c, "toR">>, <<c, "fromW">>, <<c, "fromR">>} \subseteq Ends
    <3>1. fds[Proxy] \subseteq Ends
      BY <1>2 DEF TypeOK, Processes
    <3> QED BY <1>5, <3>1 DEF Ends
  <2>2. fds' \in [Processes -> SUBSET Ends]
    BY <1>1, <1>2, <2>1 DEF TypeOK
  <2>3. state' \in [Children -> States]
    BY <1>1, <1>2 DEF TypeOK, States
  <2>4. running' \in [Tables -> SUBSET Children]
    BY <1>1, <1>2, <1>5 DEF TypeOK
  <2>5. part' \in Nat \ {0}
    BY <1>1, <1>4
  <2> QED BY <1>1, <1>2, <2>2, <2>3, <2>4, <2>5 DEF TypeOK
<1>8. /\ \A d \in Children : d # c => state'[d] = state[d] /\ task'[d] = task[d]
      /\ state'[c] = "forked" /\ task'[c] = "starting"
      /\ \A t \in Tables : t # table => running'[t] = running[t]
      /\ running'[table] = running[table] \cup {c}
      /\ \A t \in Tables : running[t] \subseteq Children
  BY <1>1, <1>2, <1>4, <1>5 DEF TypeOK
<1>9. Ledger'
  <2>1. \A d \in Children : NotYet(d)' => NotYet(d) /\ d # c
    <3>1. \A d \in Children : Part(d) \in Nat
      BY ChildIs, Configurations
    <3> QED BY <1>1, <1>4, <1>5, <3>1 DEF NotYet
  <2>2. \A d \in running[table] : Config(d) = config
    BY <1>1, <1>2, <1>4 DEF Ledger, Renewed
  <2>3. Benchmark => table = 1
    BY <1>4, Configurations DEF Benchmark
  <2>4. \A t \in Tables : \A d \in running'[t] : Table(d) = t /\ state'[d] # "none"
    BY <1>2, <1>5, <1>8 DEF Ledger
  <2>5. \A t \in Tables : \A d, e \in running'[t] : Config(d) = Config(e)
    BY <1>2, <1>5, <1>8, <2>2 DEF Ledger
  <2>6. \A t \in Tables : Renewed(t)' => \A d \in running'[t] : Config(d) = config
    BY <1>1, <1>2, <1>5, <1>8, <2>2 DEF Ledger, Renewed, Executing
  <2>7. Benchmark' => \A t \in Tables \ {1} : running'[t] = {}
    BY <1>1, <1>2, <1>8, <2>3 DEF Ledger, Benchmark
  <2>8. \A d \in Children : Alive(d)' => d \in running'[Table(d)]
    BY <1>2, <1>5, <1>8, ChildIs DEF Ledger, Alive
  <2>9. \A d \in Children : NotYet(d)' => state'[d] = "none"
    BY <1>2, <1>8, <2>1 DEF Ledger
  <2> QED BY <1>1, <1>4, <2>4, <2>5, <2>6, <2>7, <2>8, <2>9 DEF Ledger
<1>10. Mail'
  <2>1. Pipes(c)' /\ Protocol(c)' /\ ~ Batch(c)'
    BY <1>1, <1>3, <1>5, <1>6, <1>8 DEF Pipes, Protocol, Batch, Past, Early
  <2>2. ASSUME NEW d \in Children, d # c PROVE Pipes(d)' /\ Protocol(d)' /\ ~ Batch(d)'
    BY <1>1, <1>2, <1>3, <1>8, <2>2 DEF Pipes, Protocol, Batch
  <2> QED BY <2>1, <2>2 DEF Mail
<1> QED BY <1>7, <1>9, <1>10 DEF Inv

\* A child cannot be forked.
LEMMA CannotStartInv ==
  ASSUME Inv, CannotStart
  PROVE  Inv'
<1>1. step = "start" /\ Throw /\ UNCHANGED <<state, fds, toChild, fromChild, closed, task, measured>>
  BY DEF CannotStart, Starting, procs
<1>2. /\ Ledger' /\ step' \in {"exit", "threshold", "retire", "shutdown"}
      /\ config' \in Configs /\ table' \in Tables /\ part' \in Nat \ {0}
      /\ UNCHANGED running
  BY <1>1, ThrowLedger
<1>3. TypeOK'
  BY <1>1, <1>2 DEF Inv, TypeOK, Steps
<1>4. ~ Gone /\ ~ Executing
  BY <1>1 DEF Gone, Outcomes, Executing
<1> QED BY <1>1, <1>2, <1>3, <1>4, NoBatch, MailKept DEF Inv

\* A table's children have all said that they are ready.
LEMMA TableReadyInv ==
  ASSUME Inv, TableReady
  PROVE  Inv'
<1>1. /\ step = "start" /\ part' = 1
      /\ UNCHANGED <<state, fds, toChild, fromChild, closed, config, running, task, measured>>
      /\ \/ table = NumTables /\ step' = "read" /\ table' = 1
         \/ table # NumTables /\ step' = "retire" /\ table' = table + 1
  BY DEF TableReady, procs
<1>2. TypeOK /\ Ledger
  BY DEF Inv
<1>3. ~ Gone /\ ~ Executing
  BY <1>1 DEF Gone, Outcomes, Executing
<1>4. /\ config \in Configs /\ config \in Nat /\ table \in 1 .. NumTables /\ NumTables \in Nat \ {0}
      /\ DOMAIN Parts[config] = 1 .. NumTables /\ DOMAIN Parts[config] \subseteq Tables
  BY <1>2, Configurations DEF TypeOK, Ledger, NumTables
<1>5. table' \in DOMAIN Parts[config] /\ table' \in Tables
  BY <1>1, <1>4
<1>6. TypeOK'
  BY <1>1, <1>2, <1>5 DEF TypeOK, Steps
<1>7. \A c \in Children : NotYet(c)' => NotYet(c)
  <2>1. \A c \in Children : Table(c) \in Nat
    BY ChildIs
  <2> QED BY <1>1, <1>4, <2>1 DEF NotYet
<1>8. ASSUME NEW t \in Tables, Renewed(t)', NEW c \in running[t] PROVE Config(c) = config
  <2>1. t \in Nat /\ (t \in 1 .. NumTables \/ (Benchmark /\ t # 1))
    BY <1>4, TablesOf DEF Benchmark
  <2>2. CASE t \in 1 .. NumTables
    <3>1. t < table \/ t = table
      BY <1>1, <1>4, <1>8, <2>1, <2>2 DEF Renewed, Executing
    <3> QED BY <1>1, <1>2, <1>8, <3>1 DEF Ledger, Renewed
  <2>3. CASE Benchmark /\ t # 1
    BY <1>2, <1>8, <2>3 DEF Ledger
  <2> QED BY <2>1, <2>2, <2>3
<1>9. Ledger'
  BY <1>1, <1>2, <1>5, <1>7, <1>8 DEF Ledger, Benchmark, Alive
<1> QED BY <1>1, <1>3, <1>6, <1>9, NoBatch, MailKept DEF Inv

\* A signal is read, or the configuration throws.
LEMMA AwaitReadyInv ==
  ASSUME Inv, AwaitReady
  PROVE  Inv'
<1> PICK c : c = First(Unready)
  OBVIOUS
<1>1. /\ step = "start" /\ Unready # {} /\ UNCHANGED <<state, fds, toChild, closed, measured>>
      /\ \/ /\ fromChild[c] # <<>> /\ Read(c) /\ Head(fromChild[c]) = "ready"
            /\ task' = [task EXCEPT ![c] = "idle"]
            /\ UNCHANGED <<step, config, table, part, running>>
         \/ fromChild[c] # <<>> /\ Read(c) /\ Throw /\ UNCHANGED task
         \/ Throw /\ UNCHANGED <<fromChild, task>>
  BY DEF AwaitReady, Awaiting, HasMessage, procs
<1>2. TypeOK /\ Ledger /\ \A d \in Children : Pipes(d)
  BY DEF Inv, Mail
<1>3. ~ Gone /\ ~ Executing /\ \A d \in Children : ~ Batch(d) /\ Protocol(d)
  BY <1>1, NoBatch DEF Gone, Outcomes, Executing, Inv, Mail
<1>4. c \in Children
  <2>1. Unready \subseteq running[table] /\ running[table] \subseteq Children
    BY <1>2 DEF Unready, TypeOK
  <2> DEFINE S == {Part(d) : d \in Unready}
  <2>2. S \subseteq Nat /\ S # {}
    BY <1>1, <2>1, ChildIs, Configurations
  <2>3. PICK m \in S : \A n \in S : m <= n
    <3> HIDE DEF S
    <3> QED BY <2>2, LeastNatural
  <2>4. \E d \in Unready : \A e \in Unready : Part(d) <= Part(e)
    BY <2>3
  <2>5. First(Unready) \in Unready
    BY <2>4 DEF First
  <2> QED BY <2>1, <2>5
<1>5. ASSUME Throw, UNCHANGED task
      PROVE  /\ Ledger' /\ UNCHANGED running
             /\ step' \in Steps /\ config' \in Configs /\ table' \in Tables /\ part' \in Nat \ {0}
  <2>1. /\ Ledger' /\ step' \in {"exit", "threshold", "retire", "shutdown"}
        /\ config' \in Configs /\ table' \in Tables /\ part' \in Nat \ {0}
        /\ UNCHANGED running
    BY <1>1, <1>5, ThrowLedger
  <2> QED BY <2>1 DEF Steps
<1>6. ASSUME fromChild[c] # <<>>, Read(c)
      PROVE  /\ fromChild' \in [Children -> Seq({"ready", "failed", "result"})]
             /\ fromChild'[c] = <<>> /\ \A d \in Children : d # c => fromChild'[d] = fromChild[d]
             /\ fromChild[c] \in {<<"ready">>, <<"failed">>, <<"result">>}
  <2>1. Tail(fromChild[c]) = <<>> /\ fromChild[c] \in {<<"ready">>, <<"failed">>, <<"result">>}
    BY <1>3, <1>4, <1>6, OneMessage DEF Protocol
  <2>2. <<>> \in Seq({"ready", "failed", "result"})
    OBVIOUS
  <2> QED BY <1>2, <1>4, <1>6, <2>1, <2>2 DEF Read, TypeOK
<1>7. CASE /\ fromChild[c] # <<>> /\ Read(c) /\ Head(fromChild[c]) = "ready"
           /\ task' = [task EXCEPT ![c] = "idle"]
           /\ UNCHANGED <<step, config, table, part, running>>
  <2>1. /\ task' \in [Children -> {"none", "starting", "idle", "sent", "done"}]
        /\ task'[c] = "idle" /\ \A d \in Children : d # c => task'[d] = task[d]
    BY <1>2, <1>4, <1>7 DEF TypeOK
  <2>2. TypeOK'
    BY <1>1, <1>2, <1>6, <1>7, <2>1 DEF TypeOK
  <2>3. Ledger'
    BY <1>1, <1>2, <1>7 DEF Ledger, NotYet, Renewed, Executing, Benchmark, Alive
  <2>4. fromChild[c] = <<"ready">>
    <3>1. Head(<<"failed">>) = "failed" /\ Head(<<"result">>) = "result"
      OBVIOUS
    <3> QED BY <1>6, <1>7, <3>1
  <2>5. state[c] \in Past /\ state[c] \notin Early
    BY <1>3, <1>4, <2>4 DEF Protocol, Past, Early
  <2>6. Pipes(c)' /\ Protocol(c)' /\ ~ Batch(c)'
    BY <1>1, <1>2, <1>3, <1>4, <1>6, <1>7, <2>1, <2>5 DEF Pipes, Protocol, Batch, Past, Early
  <2>7. ASSUME NEW d \in Children, d # c PROVE Pipes(d)' /\ Protocol(d)' /\ ~ Batch(d)'
    BY <1>1, <1>2, <1>3, <1>6, <1>7, <2>1, <2>7 DEF Pipes, Protocol, Batch
  <2> QED BY <2>2, <2>3, <2>6, <2>7 DEF Inv, Mail
<1>8. CASE fromChild[c] # <<>> /\ Read(c) /\ Throw /\ UNCHANGED task
  <2>1. TypeOK'
    BY <1>1, <1>2, <1>5, <1>6, <1>8 DEF TypeOK
  <2>2. Pipes(c)' /\ Protocol(c)' /\ ~ Batch(c)'
    BY <1>1, <1>2, <1>3, <1>4, <1>6, <1>8 DEF Pipes, Protocol, Batch
  <2>3. ASSUME NEW d \in Children, d # c PROVE Pipes(d)' /\ Protocol(d)' /\ ~ Batch(d)'
    BY <1>1, <1>2, <1>3, <1>6, <1>8, <2>3 DEF Pipes, Protocol, Batch
  <2> QED BY <1>5, <1>8, <2>1, <2>2, <2>3 DEF Inv, Mail
<1>9. CASE Throw /\ UNCHANGED <<fromChild, task>>
  <2>1. TypeOK'
    BY <1>1, <1>2, <1>5, <1>9 DEF TypeOK
  <2> QED BY <1>1, <1>3, <1>5, <1>9, <2>1, MailKept DEF Inv
<1> QED BY <1>1, <1>7, <1>8, <1>9

\* In an epoch the maps hold, and alive are, the children of this configuration only.
LEMMA ExecutingLedger ==
  ASSUME Inv, Executing, UNCHANGED <<state, config, running>>,
         step' \in {"read", "update", "shutdown"}, table' \in DOMAIN Parts[config]
  PROVE  Ledger'
<1>1. \A t \in Tables : \A c \in running[t] : Config(c) = config
  BY DEF Inv, Ledger, Renewed
<1>2. \A c \in Children : NotYet(c)' => NotYet(c)
  BY DEF NotYet
<1> QED BY <1>1, <1>2 DEF Inv, Ledger, Benchmark, Alive

\* A batch is put in the pipe of a child that has no other and is ready.
LEMMA SendBatchInv ==
  ASSUME Inv, NEW c \in Children, SendBatch(c)
  PROVE  Inv'
<1>1. /\ TypeOK /\ Ledger /\ \A d \in Children : Pipes(d)
      /\ \A d, e \in Children : Batch(d) /\ Batch(e) => toChild[d] = toChild[e]
      /\ table \in DOMAIN Parts[config]
  BY DEF Inv, Mail, Ledger
<1>2. /\ Executing /\ c \in running[table] /\ task[c] = "idle"
      /\ ~ Gone /\ \A d \in Children : Protocol(d)
  BY DEF SendBatch, Gone, Outcomes, Executing, Inv, Mail
<1>3. /\ ~ Batch(c) /\ fromChild[c] = <<>> /\ state[c] \in Past
      /\ toChild[c] = <<>> \/ Head(toChild[c]) = "stop"
  BY <1>1, <1>2 DEF Protocol, Pipes
<1>4. CASE ~ CanWrite(c) /\ ProxyStops("broken pipe")
  BY <1>4, ProxyStopsInv DEF Outcomes
<1>5. ASSUME /\ UNCHANGED <<state, fds, fromChild, closed, step, config, table, part, running, measured>>
             /\ \/ task' = [task EXCEPT ![c] = "done"] /\ UNCHANGED toChild
                \/ /\ task' = [task EXCEPT ![c] = "sent"]
                   /\ toChild' = [toChild EXCEPT ![c] = Append(@, step)]
      PROVE  Inv'
  <2>1. /\ task' \in [Children -> {"none", "starting", "idle", "sent", "done"}]
        /\ task'[c] \in {"done", "sent"} /\ \A d \in Children : d # c => task'[d] = task[d]
    BY <1>1, <1>5 DEF TypeOK
  <2>2. \A d \in Children : d # c => toChild'[d] = toChild[d]
    BY <1>1, <1>5 DEF TypeOK
  <2>3. toChild' \in [Children -> Seq({"read", "update", "stop"})]
    <3>1. Append(toChild[c], step) \in Seq({"read", "update", "stop"})
      BY <1>1, <1>2 DEF Executing, TypeOK
    <3> QED BY <1>1, <1>5, <3>1 DEF TypeOK
  <2>4. TypeOK' /\ Ledger'
    BY <1>1, <1>2, <1>5, <2>1, <2>3, ExecutingLedger DEF TypeOK, Executing
  <2>5. Pipes(c)' /\ Protocol(c)' /\ (Batch(c)' => toChild'[c] = <<step>>)
    <3>1. CASE task' = [task EXCEPT ![c] = "done"] /\ UNCHANGED toChild
      <4>1. task'[c] = "done"
        BY <1>1, <3>1 DEF TypeOK
      <4> QED BY <1>1, <1>2, <1>3, <1>5, <3>1, <4>1 DEF Pipes, Protocol, Batch, Past, Early
    <3>2. CASE task' = [task EXCEPT ![c] = "sent"] /\ toChild' = [toChild EXCEPT ![c] = Append(@, step)]
      <4>1. task'[c] = "sent" /\ toChild'[c] = Append(toChild[c], step)
        BY <1>1, <3>2 DEF TypeOK
      <4>2. CASE toChild[c] = <<>>
        <5>1. toChild'[c] = <<step>> /\ Batch(c)'
          BY <1>2, <4>1, <4>2, OneMessage DEF Batch, Executing
        <5> QED BY <1>1, <1>2, <1>3, <1>5, <4>1, <5>1 DEF Pipes, Protocol, Executing, Past, Early
      <4>3. CASE toChild[c] # <<>> /\ Head(toChild[c]) = "stop"
        <5>1. Head(toChild'[c]) = "stop"
          BY <1>1, <4>1, <4>3 DEF TypeOK
        <5>2. Head(<<"read">>) = "read" /\ Head(<<"update">>) = "update"
          OBVIOUS
        <5>3. ~ Batch(c)'
          BY <5>1, <5>2 DEF Batch
        <5> QED BY <1>1, <1>2, <1>3, <1>5, <4>1, <5>1, <5>3 DEF Pipes, Protocol, Past, Early
      <4> QED BY <1>3, <4>2, <4>3
    <3> QED BY <1>5, <3>1, <3>2
  <2>6. ASSUME NEW d \in Children, d # c
        PROVE  Pipes(d)' /\ Protocol(d)' /\ (Batch(d)' => toChild'[d] = <<step>>)
    BY <1>1, <1>2, <1>5, <2>1, <2>2, <2>6 DEF Pipes, Protocol, Batch, Executing
  <2> QED BY <2>4, <2>5, <2>6 DEF Inv, Mail
<1> QED BY <1>4, <1>5 DEF SendBatch, Write, procs

\* A result is read, or the program ends.
LEMMA TakeResultInv ==
  ASSUME Inv, NEW c \in Children, TakeResult(c)
  PROVE  Inv'
<1>1. /\ TypeOK /\ Ledger /\ \A d \in Children : Pipes(d)
      /\ \A d, e \in Children : Batch(d) /\ Batch(e) => toChild[d] = toChild[e]
      /\ table \in DOMAIN Parts[config]
  BY DEF Inv, Mail, Ledger
<1>2. /\ Executing /\ c \in running[table] /\ task[c] = "sent"
      /\ ~ Gone /\ \A d \in Children : Protocol(d)
  BY DEF TakeResult, Gone, Outcomes, Executing, Inv, Mail
<1>3. CASE ProxyStops("aborted")
  BY <1>3, ProxyStopsInv DEF Outcomes
<1>4. ASSUME /\ fromChild[c] # <<>> /\ Head(fromChild[c]) = "result"
             /\ fromChild' = [fromChild EXCEPT ![c] = Tail(@)]
             /\ task' = [task EXCEPT ![c] = "done"]
             /\ UNCHANGED <<state, fds, toChild, closed, step, config, table, part, running, measured>>
      PROVE  Inv'
  <2>1. fromChild[c] = <<"result">>
    <3>1. Head(<<"failed">>) = "failed" /\ Head(<<"ready">>) = "ready"
      OBVIOUS
    <3> QED BY <1>2, <1>4, <3>1 DEF Protocol
  <2>2. ~ Batch(c) /\ state[c] \in Past
    <3>1. <<"result">> # <<>> /\ <<"result">> # <<"failed">>
      OBVIOUS
    <3> QED BY <1>2, <2>1, <3>1 DEF Protocol
  <2>3. /\ fromChild'[c] = <<>> /\ task'[c] = "done"
        /\ \A d \in Children : d # c => fromChild'[d] = fromChild[d] /\ task'[d] = task[d]
    BY <1>1, <1>4, <2>1, OneMessage DEF TypeOK
  <2>4. TypeOK'
    <3>1. <<>> \in Seq({"ready", "failed", "result"})
      OBVIOUS
    <3>2. fromChild' \in [Children -> Seq({"ready", "failed", "result"})]
      BY <1>1, <1>4, <2>3, <3>1 DEF TypeOK
    <3> QED BY <1>1, <1>4, <3>2 DEF TypeOK
  <2>5. Ledger'
    BY <1>1, <1>2, <1>4, ExecutingLedger DEF Executing
  <2>6. Pipes(c)' /\ Protocol(c)' /\ ~ Batch(c)'
    BY <1>1, <1>2, <1>4, <2>2, <2>3 DEF Pipes, Protocol, Batch, Past, Early
  <2>7. ASSUME NEW d \in Children, d # c PROVE Pipes(d)' /\ Protocol(d)' /\ (Batch(d)' => Batch(d))
    BY <1>1, <1>2, <1>4, <2>3, <2>7 DEF Pipes, Protocol, Batch, Executing
  <2> QED BY <1>1, <1>4, <2>4, <2>5, <2>6, <2>7 DEF Inv, Mail
<1> QED BY <1>3, <1>4 DEF TakeResult, HasMessage, Read

\* The threads are joined: nothing is in the pipes, and the phase ends or goes on with the
\* next table or batch.
LEMMA PhaseInv ==
  ASSUME Inv, Executing, AllDone, UNCHANGED procs, UNCHANGED <<config, running>>,
         step' \in {"read", "update", "shutdown"}, table' \in DOMAIN Parts[config],
         part' \in Nat \ {0}, measured' \in BOOLEAN
  PROVE  Inv'
<1>1. /\ TypeOK /\ Ledger /\ \A d \in Children : Pipes(d)
      /\ \A c \in running[table] : task[c] = "done"
      /\ task' = [c \in Children |-> IF c \in running[table] THEN "idle" ELSE task[c]]
      /\ UNCHANGED <<state, fds, toChild, fromChild, closed>>
  BY DEF Inv, Mail, AllDone, procs
<1>2. ~ Gone /\ \A d \in Children : Protocol(d)
  BY DEF Executing, Gone, Outcomes, Inv, Mail
<1>3. \A c \in Children : ~ Batch(c)
  BY <1>1, <1>2 DEF Protocol
<1>4. table' \in Tables
  BY <1>1, Configurations DEF TypeOK
<1>5. TypeOK'
  BY <1>1, <1>4 DEF TypeOK, Steps
<1>6. Ledger'
  BY <1>1, ExecutingLedger
<1>7. ASSUME NEW c \in Children PROVE Pipes(c)' /\ Protocol(c)' /\ ~ Batch(c)'
  <2>1. task'[c] = task[c] \/ (task[c] = "done" /\ task'[c] = "idle")
    BY <1>1
  <2> QED BY <1>1, <1>2, <1>3, <2>1 DEF Pipes, Protocol, Batch
<1> QED BY <1>5, <1>6, <1>7 DEF Inv, Mail

\* The next table, or the next phase.
LEMMA JoinInv ==
  ASSUME Inv, Join
  PROVE  Inv'
<1>1. /\ Executing /\ AllDone /\ UNCHANGED procs /\ UNCHANGED <<config, part, running, measured>>
      /\ step' \in {step, "update", "shutdown"}
      /\ table' = IF table = NumTables THEN 1 ELSE table + 1
  BY DEF Join, AllDone, NextTable
<1>2. /\ table \in 1 .. NumTables /\ NumTables \in Nat \ {0} /\ DOMAIN Parts[config] = 1 .. NumTables
      /\ part \in Nat \ {0} /\ measured \in BOOLEAN
  BY Configurations DEF Inv, TypeOK, Ledger, NumTables
<1>3. table' \in DOMAIN Parts[config]
  BY <1>1, <1>2
<1> QED BY <1>1, <1>2, <1>3, PhaseInv DEF Executing

\* The next batch of a benchmark.
LEMMA NextBatchInv ==
  ASSUME Inv, NextBatch
  PROVE  Inv'
<1>1. /\ Executing /\ AllDone /\ UNCHANGED procs /\ UNCHANGED <<config, table, running>>
      /\ step' \in {"read", "update", "shutdown"} /\ part' \in {part, part + 1}
      /\ measured' = (measured \/ step' = "shutdown")
  BY DEF NextBatch, AllDone
<1>2. table \in DOMAIN Parts[config] /\ part \in Nat \ {0} /\ measured \in BOOLEAN
  BY DEF Inv, TypeOK, Ledger
<1>3. part' \in Nat \ {0} /\ measured' \in BOOLEAN
  BY <1>1, <1>2
<1> QED BY <1>1, <1>2, <1>3, PhaseInv

\* A threshold is found, or the program crashes.
LEMMA FindThresholdInv ==
  ASSUME Inv, FindThreshold
  PROVE  Inv'
<1>1. CASE ProxyStops("crashed")
  BY <1>1, ProxyStopsInv DEF Outcomes
<1>2. CASE /\ step = "threshold" /\ step' = "retire"
           /\ UNCHANGED <<procs, config, table, part, running, task, measured>>
  <2>1. TypeOK /\ Ledger
    BY DEF Inv
  <2>2. ~ Gone /\ ~ Executing
    BY <1>2 DEF Gone, Outcomes, Executing
  <2>3. TypeOK'
    BY <1>2, <2>1 DEF TypeOK, Steps, procs
  <2>4. \A t \in Tables : ~ (t < 1)
    BY TablesOf
  <2>5. Ledger'
    BY <1>2, <2>1, <2>4 DEF Ledger, NotYet, Renewed, Executing, Benchmark, Alive, procs
  <2> QED BY <1>2, <2>2, <2>3, <2>5, NoBatch, MailKept DEF Inv, procs
<1> QED BY <1>1, <1>2 DEF FindThreshold

------------------------------------------------------------------------------

\* The invariant is preserved by every step.
LEMMA NextInv == Inv /\ [Next]_vars => Inv'
<1> SUFFICES ASSUME Inv, [Next]_vars PROVE Inv'
  OBVIOUS
<1>1. CASE DriverStep
  <2>1. CASE Exit
    BY <2>1, ProxyStopsInv DEF Exit, Outcomes
  <2> QED BY <1>1, <2>1, StopChildInv, ReapInv, RetiredInv, TableDownInv, StartServerInv, CannotStartInv,
             AwaitReadyInv, TableReadyInv, SendBatchInv, TakeResultInv, JoinInv, NextBatchInv,
             FindThresholdInv DEF DriverStep
<1>2. CASE Kill
  BY <1>2, ProxyStopsInv DEF Kill, Outcomes
<1>3. ASSUME NEW c \in Children, ChildStep(c) \/ ChildErrs(c) \/ Die(c), UNCHANGED driver PROVE Inv'
  BY <1>3, ChildMoves, ChildLedger, ChildMail DEF Inv
<1>4. CASE UNCHANGED vars
  <2>1. /\ UNCHANGED <<state, fds, toChild, fromChild, closed>>
        /\ UNCHANGED <<step, config, table, part, running, task, measured>>
    BY <1>4 DEF vars, procs, driver
  <2>2. TypeOK'
    BY <2>1 DEF Inv, TypeOK
  <2>3. Ledger'
    BY <2>1 DEF Inv, Ledger, NotYet, Renewed, Executing, Benchmark, Alive
  <2>4. Mail'
    BY <2>1 DEF Inv, Mail, Pipes, Protocol, Batch, Executing, Gone
  <2> QED BY <2>2, <2>3, <2>4 DEF Inv
<1> QED BY <1>1, <1>2, <1>3, <1>4, SweepAssumption DEF Next

\* Whatever children fail or die, and wherever a configuration throws: the driver's maps
\* hold every child that is alive, and its pipes are as far as the child is.
THEOREM SweepInvariant == Spec => []Inv
BY InitInv, NextInv, PTL DEF Spec

\* The state of the driver, its children and their pipes keeps its type.
THEOREM TypeCorrect == Spec => []TypeOK
<1>1. Inv => TypeOK
  BY DEF Inv
<1> QED BY <1>1, SweepInvariant, PTL

\* At no time are two children of one storage server alive, whatever failed before: those of
\* a table are of one configuration, and a new one is forked when the last are reaped.
THEOREM SweepPortFree == Spec => []PortFree
<1>1. Inv => PortFree
  <2> SUFFICES ASSUME Inv, NEW c \in Children, NEW d \in Children, SamePort(c, d), Alive(c), Alive(d)
               PROVE  c = d
    BY DEF PortFree
  <2>1. /\ Config(c) \in Configs /\ Table(c) \in DOMAIN Parts[Config(c)]
        /\ Part(c) \in 1 .. Parts[Config(c)][Table(c)] /\ Table(c) \in Tables
        /\ c = <<Config(c), <<Table(c), Part(c)>>>> /\ Table(c) \in Nat \ {0}
    BY ChildIs
  <2>2. /\ Config(d) \in Configs /\ Table(d) \in DOMAIN Parts[Config(d)]
        /\ Part(d) \in 1 .. Parts[Config(d)][Table(d)] /\ Table(d) \in Tables
        /\ d = <<Config(d), <<Table(d), Part(d)>>>> /\ Table(d) \in Nat \ {0}
    BY ChildIs
  <2>3. c \in running[Table(c)] /\ d \in running[Table(d)]
    BY DEF Inv, Ledger
  <2>4. CASE Config(c) \in Benchmarks /\ Config(d) \in Benchmarks
    <3>1. Config(c) = Config(d)
      BY <2>4 DEF SamePort, Port, BenchmarkPort
    <3>2. Parts[Config(c)] = <<1>> /\ Len(Parts[Config(c)]) = 1 /\ DOMAIN Parts[Config(c)] = 1 .. 1
      BY <2>4, Configurations
    <3>3. Table(c) = 1 /\ Table(d) = 1 /\ Parts[Config(c)][1] = 1
      BY <2>1, <2>2, <3>1, <3>2
    <3>4. Part(c) = 1 /\ Part(d) = 1
      BY <2>1, <2>2, <3>1, <3>3
    <3> QED BY <2>1, <2>2, <3>1, <3>3, <3>4
  <2>5. CASE Config(c) \notin Benchmarks /\ Config(d) \notin Benchmarks
    <3>1. Table(c) = Table(d) /\ Part(c) = Part(d)
      BY <2>5 DEF SamePort, Port
    <3>2. Config(c) = Config(d)
      BY <2>1, <2>3, <3>1 DEF Inv, Ledger
    <3> QED BY <2>1, <2>2, <3>1, <3>2
  <2>6. ~ (Config(c) \in Benchmarks /\ Config(d) \notin Benchmarks)
    BY <2>2 DEF SamePort, Port, BenchmarkPort
  <2>7. ~ (Config(c) \notin Benchmarks /\ Config(d) \in Benchmarks)
    BY <2>1 DEF SamePort, Port, BenchmarkPort
  <2> QED BY <2>4, <2>5, <2>6, <2>7
<1> QED BY <1>1, SweepInvariant, PTL

\* A batch is only in the pipe of a child that has sent its ready signal: the ready signals
\* of all children of a table are read before the first batch.
THEOREM SweepWorkForTheReady == Spec => []WorkForTheReady
<1>1. Inv => WorkForTheReady
  BY DEF Inv, Mail, Pipes, Past, WorkForTheReady
<1> QED BY <1>1, SweepInvariant, PTL

\* No pipe holds an update while another holds a read: the threads of a table are joined
\* before the next batch goes out.
THEOREM SweepReadsBeforeUpdates == Spec => []ReadsBeforeUpdates
<1>1. Inv => ReadsBeforeUpdates
  <2> SUFFICES ASSUME Inv, NEW c \in Children, NEW d \in Children, toChild[c] # <<>>, toChild[d] # <<>>,
                      Head(toChild[c]) = "update", Head(toChild[d]) = "read"
               PROVE  FALSE
    BY DEF ReadsBeforeUpdates
  <2>1. Batch(c) /\ Batch(d)
    BY DEF Inv, Mail, Pipes
  <2>2. toChild[c] = toChild[d]
    BY <2>1 DEF Inv, Mail
  <2> QED BY <2>2
<1> QED BY <1>1, SweepInvariant, PTL

\* An epoch is executed by the children of its own configuration, also after one that threw
\* and left its children behind.
THEOREM SweepOnlyThisConfig == Spec => []OnlyThisConfig
<1>1. Inv => OnlyThisConfig
  <2> SUFFICES ASSUME Inv, Executing, NEW c \in Children, Alive(c)
               PROVE  Config(c) = config /\ c \in running[Table(c)]
    BY DEF OnlyThisConfig
  <2>1. Table(c) \in Tables /\ c \in running[Table(c)]
    BY ChildIs DEF Inv, Ledger
  <2> QED BY <2>1 DEF Inv, Ledger, Renewed
<1> QED BY <1>1, SweepInvariant, PTL
==============================================================================
