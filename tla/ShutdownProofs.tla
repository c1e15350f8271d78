--------------------------- MODULE ShutdownProofs ---------------------------
(* How the process starts and stops, whatever the numbers of workers,      *)
(* requests, calls, streams and jobs.                                      *)
EXTENDS Startup, FiniteSetTheorems, TLAPS

\* The types of Shutdown and, for the time of the start, of Startup.
Types ==
  /\ main \in {"boot", "serve", "drain", "grpc", "stop", "wait", "flush",
               "exit0", "exit1", "panic"}
  /\ cancelled \in BOOLEAN /\ closed \in BOOLEAN
  /\ arrived \in [http : 0..MaxCalls, unary : 0..MaxCalls, streams : 0..MaxStreams]
  /\ http \in 0..arrived.http /\ unary \in 0..arrived.unary
  /\ streams \in 0..arrived.streams
  /\ poller \in {"unstarted", "select", "claim", "submit", "returned"}
  /\ left \in 0..claimed /\ claimed \in 0..MaxJobs
  /\ queued \in 0..QueueSize
  /\ worker \in [Worker -> {"idle", "busy", "exited"}]

\* Once main is past a stage, what the stage waits for is over.
Stages ==
  /\ main \in {"grpc", "stop", "wait", "flush", "exit0"} => http = 0
  /\ main \in {"stop", "wait", "flush", "exit0"} => unary = 0 /\ streams = 0
  /\ main \in {"flush", "exit0"} => \A w \in Worker : worker[w] = "exited"

\* A goroutine leaves only an empty channel that nobody can send to.
Leaving ==
  \A w \in Worker : worker[w] = "exited" => closed /\ queued = 0

ShutdownInv == Types /\ Stages /\ Leaving

LEMMA InvInit == Init \/ BootInit => ShutdownInv
<1> SUFFICES ASSUME Init \/ BootInit PROVE ShutdownInv
  OBVIOUS
<1>1. MaxCalls \in Nat /\ MaxStreams \in Nat /\ MaxJobs \in Nat /\ QueueSize \in Nat
  BY ShutdownAssumption
<1>2. arrived \in [http : 0..MaxCalls, unary : 0..MaxCalls, streams : 0..MaxStreams]
      /\ http \in 0..arrived.http /\ unary \in 0..arrived.unary
      /\ streams \in 0..arrived.streams
  BY <1>1 DEF Init, BootInit
<1>3. /\ cancelled \in BOOLEAN /\ closed \in BOOLEAN
      /\ worker \in [Worker -> {"idle", "busy", "exited"}]
  BY DEF Init, BootInit
<1>4. left \in 0..claimed /\ claimed \in 0..MaxJobs /\ queued \in 0..QueueSize
  BY <1>1 DEF Init, BootInit
<1>5. Types
  BY <1>2, <1>3, <1>4 DEF Init, BootInit, Types
<1> QED
  BY <1>5 DEF Init, BootInit, ShutdownInv, Stages, Leaving

-----------------------------------------------------------------------------
(* One lemma per group of actions                                          *)

LEMMA ClientsKeep == ShutdownInv /\ (Signal \/ Clients) => ShutdownInv'
<1> USE ShutdownAssumption DEF ShutdownInv, Types, Stages, Leaving,
        callVars, pollerVars, poolVars, Alive
<1>1. ShutdownInv /\ Signal => ShutdownInv'
  BY DEF Signal
<1>2. ShutdownInv /\ Request => ShutdownInv'
  BY DEF Request
<1>3. ShutdownInv /\ Answer => ShutdownInv'
  BY DEF Answer
<1>4. ShutdownInv /\ Call => ShutdownInv'
  BY DEF Call
<1>5. ShutdownInv /\ Return => ShutdownInv'
  BY DEF Return
<1>6. ShutdownInv /\ Watch => ShutdownInv'
  BY DEF Watch
<1>7. ShutdownInv /\ Disconnect => ShutdownInv'
  BY DEF Disconnect
<1> QED
  BY <1>1, <1>2, <1>3, <1>4, <1>5, <1>6, <1>7 DEF Clients

LEMMA MainKeeps == ShutdownInv /\ Main => ShutdownInv'
<1> USE ShutdownAssumption DEF ShutdownInv, Types, Stages, Leaving,
        callVars, pollerVars, poolVars, Go
<1>1. ShutdownInv /\ (ListenFails \/ Drain \/ DrainTimeout) => ShutdownInv'
  BY DEF ListenFails, Drain, DrainTimeout
<1>2. ShutdownInv /\ (Drained \/ GracefulStop) => ShutdownInv'
  BY DEF Drained, GracefulStop
<1>3. ShutdownInv /\ CloseJobs => ShutdownInv'
  BY DEF CloseJobs
<1>4. ShutdownInv /\ (Waited \/ Flush) => ShutdownInv'
  BY DEF Waited, Flush
<1> QED
  BY <1>1, <1>2, <1>3, <1>4 DEF Main

LEMMA PollerKeeps == ShutdownInv /\ Poller => ShutdownInv'
<1> USE ShutdownAssumption DEF ShutdownInv, Types, Stages, Leaving,
        callVars, pollerVars, poolVars, Alive
<1>1. ShutdownInv /\ (PollerReturns \/ Tick \/ ClaimError) => ShutdownInv'
  BY DEF PollerReturns, Tick, ClaimError
<1>2. ShutdownInv /\ ClaimBatch => ShutdownInv'
  BY DEF ClaimBatch
<1>3. ShutdownInv /\ Submit => ShutdownInv'
  BY DEF Submit, Room
<1>4. ShutdownInv /\ EndBatch => ShutdownInv'
  BY DEF EndBatch
<1>5. ShutdownInv /\ SubmitPanics => ShutdownInv'
  BY DEF SubmitPanics
<1> QED
  BY <1>1, <1>2, <1>3, <1>4, <1>5 DEF Poller

LEMMA PoolKeeps ==
  ASSUME ShutdownInv, NEW w \in Worker, Pool(w)
  PROVE  ShutdownInv'
<1> USE ShutdownAssumption DEF ShutdownInv, Types, Stages, Leaving,
        callVars, pollerVars, Alive, Become
<1>1. CASE Take(w)
  BY <1>1 DEF Take
<1>2. CASE Finish(w)
  BY <1>2 DEF Finish
<1>3. CASE Exit(w)
  BY <1>3 DEF Exit
<1> QED
  BY <1>1, <1>2, <1>3 DEF Pool

LEMMA InvNext == ShutdownInv /\ [Next]_vars => ShutdownInv'
<1> SUFFICES ASSUME ShutdownInv, [Next]_vars PROVE ShutdownInv'
  OBVIOUS
<1>1. CASE Signal \/ Clients
  BY <1>1, ClientsKeep
<1>2. CASE Main
  BY <1>2, MainKeeps
<1>3. CASE Poller
  BY <1>3, PollerKeeps
<1>4. CASE \E w \in Worker : Pool(w)
  BY <1>4, PoolKeeps
<1>5. CASE UNCHANGED vars
  BY <1>5 DEF vars, callVars, pollerVars, poolVars, ShutdownInv, Types,
              Stages, Leaving
<1> QED
  BY <1>1, <1>2, <1>3, <1>4, <1>5 DEF Next

LEMMA InvAlways == Spec => []ShutdownInv
  BY InvInit, InvNext, PTL DEF Spec

-----------------------------------------------------------------------------
(* The theorems                                                            *)

\* Every variable keeps its type; the channel never overflows.
THEOREM ShutdownTypes == Spec => []TypeOK
<1> DEFINE Started == main # "boot" /\ poller # "unstarted"
<1>1. Init => Started
  BY DEF Init
<1>2. Started /\ [Next]_vars => Started'
  <2> SUFFICES ASSUME Started, [Next]_vars PROVE Started'
    OBVIOUS
  <2> USE DEF callVars, pollerVars, poolVars
  <2>1. CASE Signal \/ Clients
    BY <2>1 DEF Signal, Clients, Request, Answer, Call, Return, Watch, Disconnect
  <2>2. CASE Main
    BY <2>2 DEF Main, ListenFails, Drain, Drained, DrainTimeout, GracefulStop,
                CloseJobs, Waited, Flush, Go
  <2>3. CASE Poller
    BY <2>3 DEF Poller, PollerReturns, Tick, ClaimBatch, ClaimError, Submit, EndBatch,
                SubmitPanics
  <2>4. CASE \E w \in Worker : Pool(w)
    BY <2>4 DEF Pool, Take, Finish, Exit, Become
  <2>5. CASE UNCHANGED vars
    BY <2>5 DEF vars
  <2>. QED
    BY <2>1, <2>2, <2>3, <2>4, <2>5 DEF Next
<1>3. ShutdownInv /\ Started => TypeOK
  BY DEF ShutdownInv, Types, TypeOK
<1> QED
  BY <1>1, <1>2, <1>3, InvAlways, PTL DEF Spec

\* When main flushes and closes its clients, no request, call, stream or job is
\* running or waiting.
THEOREM ResourcesOutliveWork == Spec => []NothingLeftRunning
<1>1. ShutdownInv => NothingLeftRunning
  BY ShutdownAssumption
  DEF ShutdownInv, Stages, Leaving, NothingLeftRunning
<1> QED
  BY <1>1, InvAlways, PTL

-----------------------------------------------------------------------------
(* The start                                                               *)

Before == {"boot", "serve", "drain", "grpc", "stop", "wait"}

\* main serves nobody until it has taken its last step, and nothing is claimed
\* until it starts the poller.
Progress ==
  /\ next \in 1..(Last + 1)
  /\ main # "boot" /\ Alive => next = Last + 1
  /\ main = "boot" => http = 0 /\ unary = 0 /\ streams = 0
  /\ next <= Last => ~closed
  /\ next <= Rank.poller =>
       /\ poller = "unstarted" /\ left = 0 /\ claimed = 0 /\ queued = 0
       /\ \A w \in Worker : worker[w] = "idle"

\* Until its deferred calls run, main holds whatever it has opened.
Holding ==
  /\ \A s \in Deferred : main \in Before /\ Wanted(s) /\ Rank[s] < next => s \in held
  /\ \A s \in held : s \in Deferred /\ Wanted(s) /\ Rank[s] < next
  /\ "producer" \in held => "dlq" \in held

BootInv == ShutdownInv /\ Progress /\ Holding

LEMMA Ranks ==
  /\ Steps = {"config", "telemetry", "postgres", "migrations", "eventlog", "redis",
              "workers", "dlq", "producer", "consumer", "poller", "mongo", "indexes",
              "listener"}
  /\ \A s \in Steps : Rank[s] \in 1..Last
  /\ \A s, t \in Steps : Rank[s] = Rank[t] => s = t
  /\ Rank.postgres = 3 /\ Rank.dlq = 8 /\ Rank.producer = 9 /\ Rank.consumer = 10
  /\ Rank.poller = 11 /\ Rank.mongo = 12
  /\ Deferred \subseteq Steps
  BY DEF Steps, Rank, Last, Deferred, Kafka

LEMMA BootStart == BootInit => BootInv
<1> SUFFICES ASSUME BootInit PROVE BootInv
  OBVIOUS
<1>1. ShutdownInv
  BY InvInit
<1>2. Progress
  BY Ranks DEF BootInit, Progress, Last, Alive
<1>3. Holding
  BY Ranks DEF BootInit, Holding, Last
<1>. QED
  BY <1>1, <1>2, <1>3 DEF BootInv

\* A step of main while it starts, which touches neither calls nor jobs.
LEMMA BootKeepsShutdown ==
  ASSUME ShutdownInv, main = "boot", main' \in {"boot", "serve", "exit1"},
         poller' \in {poller, "select"},
         UNCHANGED <<cancelled, callVars, left, claimed, poolVars>>
  PROVE  ShutdownInv'
  BY DEF ShutdownInv, Types, Stages, Leaving, callVars, poolVars

LEMMA OpenKeeps == ASSUME BootInv, NEW s \in Steps, Open(s) PROVE BootInv'
<1>1. /\ main = "boot" /\ next = Rank[s] /\ Wanted(s) /\ next' = next + 1
      /\ held' = IF s \in Deferred THEN held \cup {s} ELSE held
      /\ poller' = IF s = "poller" THEN "select" ELSE poller
      /\ UNCHANGED <<enabled, main, cancelled, callVars, left, claimed, poolVars>>
  BY DEF Open, Starting
<1>2. Rank[s] \in 1..Last /\ \A t \in Steps : Rank[t] < next' => t = s \/ Rank[t] < next
  BY <1>1, Ranks
<1>3. ShutdownInv'
  BY <1>1, BootKeepsShutdown DEF BootInv
<1>4. Progress'
  <2>1. next' <= Rank.poller => s # "poller" /\ next <= Rank.poller
    BY <1>1, <1>2, Ranks
  <2>. QED
    BY <1>1, <1>2, <2>1, Ranks
       DEF BootInv, Progress, Alive, Last, callVars, poolVars
<1>5. \A t : Wanted(t)' = Wanted(t)
  BY <1>1 DEF Wanted
<1>6. Holding'
  <2>1. \A t \in Deferred : Wanted(t) /\ Rank[t] < next' => t \in held'
    BY <1>1, <1>2, Ranks DEF BootInv, Holding, Before
  <2>2. \A t \in held' : t \in Deferred /\ Wanted(t) /\ Rank[t] < next'
    <3>1. \A t \in held : t \in Deferred /\ Wanted(t) /\ Rank[t] < next
      BY DEF BootInv, Holding
    <3>2. next \in Nat /\ \A t \in Deferred : Rank[t] \in Nat
      BY <1>1, <1>2, Ranks
    <3>3. \A t \in held' : t \in held \/ (t = s /\ s \in Deferred)
      BY <1>1
    <3>. QED
      BY <1>1, <3>1, <3>2, <3>3
  <2>3. "producer" \in held' => "dlq" \in held'
    <3>1. "producer" \in held' => Wanted("dlq") /\ Rank["dlq"] < next'
      <4>1. Wanted("producer") => Wanted("dlq")
        BY DEF Wanted, Kafka
      <4>2. Rank["producer"] = 9 /\ Rank["dlq"] = 8 /\ next' \in Nat
        BY <1>1, <1>2, Ranks
      <4>. QED
        BY <2>2, <4>1, <4>2
    <3>. QED
      BY <2>1, <3>1 DEF Deferred, Kafka
  <2>. QED
    BY <1>5, <2>1, <2>2, <2>3 DEF Holding
<1>. QED
  BY <1>3, <1>4, <1>6 DEF BootInv

LEMMA SkipKeeps == ASSUME BootInv, NEW s \in Steps, Skip(s) PROVE BootInv'
<1>1. /\ main = "boot" /\ next = Rank[s] /\ next' = next + 1
      /\ ~Wanted(s) \/ s \in {"telemetry", "redis"}
      /\ UNCHANGED <<enabled, held, main, cancelled, callVars, pollerVars, poolVars>>
  BY DEF Skip, Starting, vars
<1>2. Rank[s] \in 1..Last /\ \A t \in Steps : Rank[t] < next' => t = s \/ Rank[t] < next
  BY <1>1, Ranks
<1>3. ShutdownInv'
  BY <1>1, BootKeepsShutdown DEF BootInv, pollerVars
<1>4. s # "poller"
  BY <1>1 DEF Wanted, Kafka
<1>5. Progress'
  <2>1. next' <= Rank.poller => next <= Rank.poller
    BY <1>1, <1>2, Ranks
  <2>. QED
    BY <1>1, <1>2, <2>1, Ranks
       DEF BootInv, Progress, Alive, Last, callVars, pollerVars, poolVars
<1>6. Holding'
  <2>1. s \in Deferred => ~Wanted(s)
    BY <1>1 DEF Deferred, Kafka
  <2>2. \A t : Wanted(t)' = Wanted(t)
    BY <1>1 DEF Wanted
  <2>. QED
    <3>1. next \in Nat /\ \A t \in Deferred : t \in Steps /\ Rank[t] \in Nat
      BY <1>1, <1>2, Ranks
    <3>2. \A t \in Deferred : Wanted(t) /\ Rank[t] < next' => t \in held
      BY <1>1, <1>2, <2>1, <3>1 DEF BootInv, Holding, Before
    <3>3. \A t \in held : t \in Deferred /\ Wanted(t) /\ Rank[t] < next'
      BY <1>1, <3>1 DEF BootInv, Holding
    <3>. QED
      BY <1>1, <2>2, <3>2, <3>3 DEF BootInv, Holding
<1>. QED
  BY <1>3, <1>5, <1>6 DEF BootInv

\* Giving up, being killed, and beginning to serve.
LEMMA LeaveBootKeeps ==
  ASSUME BootInv, Serve \/ Killed \/ \E s \in Steps : GiveUp(s)
  PROVE  BootInv'
<1>1. /\ main = "boot" /\ main' \in {"serve", "exit1"}
      /\ main' = "serve" => next > Last
      /\ UNCHANGED <<enabled, next, held, cancelled, callVars, pollerVars, poolVars>>
  BY DEF Serve, Killed, GiveUp, Starting, bootVars
<1>2. ShutdownInv'
  BY <1>1, BootKeepsShutdown DEF BootInv, pollerVars
<1>3. Progress'
  BY <1>1, Ranks DEF BootInv, Progress, Alive, Last, callVars, pollerVars, poolVars
<1>4. Holding'
  BY <1>1 DEF BootInv, Holding, Before, Wanted
<1>. QED
  BY <1>2, <1>3, <1>4 DEF BootInv

LEMMA CloseKeeps == ASSUME BootInv, NEW s \in Steps, Close(s) PROVE BootInv'
<1>1. /\ main = "flush" /\ s \in held /\ \A t \in held : Rank[t] <= Rank[s]
      /\ held' = held \ {s}
      /\ UNCHANGED <<enabled, next, main, cancelled, callVars, pollerVars, poolVars>>
  BY DEF Close, vars
<1>2. ShutdownInv'
  BY <1>1 DEF BootInv, ShutdownInv, Types, Stages, Leaving, callVars, pollerVars,
              poolVars
<1>3. Progress'
  BY <1>1 DEF BootInv, Progress, Alive, callVars, pollerVars, poolVars
<1>4. Holding'
  <2>1. s = "dlq" => "producer" \notin held
    BY <1>1, Ranks
  <2>. QED
    BY <1>1, <2>1 DEF BootInv, Holding, Before, Wanted
<1>. QED
  BY <1>2, <1>3, <1>4 DEF BootInv

\* What a step of Shutdown does to the progress of the start: none of them is
\* main's while it starts, and none finds a job before the poller is started.
LEMMA RunKeeps == ASSUME BootInv, Run, UNCHANGED bootVars PROVE BootInv'
<1> USE DEF callVars, pollerVars, poolVars
<1>1. ShutdownInv'
  <2>1. CASE Caught \/ Served
    BY <2>1, ClientsKeep DEF BootInv, Caught, Served, Clients
  <2>2. CASE Stops
    BY <2>2, MainKeeps DEF BootInv, Stops, Main
  <2>3. CASE Poller
    BY <2>3, PollerKeeps DEF BootInv
  <2>4. CASE \E w \in Worker : Pool(w)
    BY <2>4, PoolKeeps DEF BootInv
  <2>. QED
    BY <2>1, <2>2, <2>3, <2>4 DEF Run
<1>2. next' = next /\ held' = held /\ enabled' = enabled
  BY DEF bootVars
<1>3. Rank.poller = 11 /\ next \in 1..(Last + 1)
  BY Ranks DEF BootInv, Progress
<1>4. Progress' /\ (main' \in Before => main \in Before)
  <2> USE <1>2, <1>3 DEF BootInv, Progress, Alive, Last, Before
  <2>1. CASE Caught
    BY <2>1 DEF Caught, Signal
  <2>2. CASE Served
    BY <2>2 DEF Served, Request, Answer, Call, Return, Watch, Disconnect
  <2>3. CASE Stops
    BY <2>3 DEF Stops, ListenFails, Drain, Drained, DrainTimeout, GracefulStop,
                CloseJobs, Waited, Flush, Go
  <2>4. CASE Poller
    BY <2>4 DEF Poller, PollerReturns, Tick, ClaimBatch, ClaimError, Submit, EndBatch,
                SubmitPanics
  <2>5. ASSUME NEW w \in Worker, Pool(w)
        PROVE  Progress' /\ (main' \in Before => main \in Before)
    <3>1. /\ Alive /\ UNCHANGED <<main, http, unary, streams, poller, left, claimed,
                                  closed>>
          /\ queued > 0 \/ worker[w] = "busy" \/ closed
      BY <2>5 DEF Pool, Take, Finish, Exit, Become
    <3>2. next > Rank.poller
      BY <3>1 DEF ShutdownInv, Types
    <3>. QED
      BY <3>1, <3>2
  <2>. QED
    BY <2>1, <2>2, <2>3, <2>4, <2>5 DEF Run
<1>5. Holding'
  BY <1>2, <1>4 DEF BootInv, Holding, Wanted
<1>. QED
  BY <1>1, <1>4, <1>5 DEF BootInv

LEMMA BootNextKeeps == BootInv /\ [BootNext]_<<vars, bootVars>> => BootInv'
<1> SUFFICES ASSUME BootInv, [BootNext]_<<vars, bootVars>> PROVE BootInv'
  OBVIOUS
<1>1. CASE Boot \/ Killed
  BY <1>1, OpenKeeps, SkipKeeps, LeaveBootKeeps DEF Boot
<1>2. CASE \E s \in Steps : Close(s)
  BY <1>2, CloseKeeps
<1>3. CASE Run /\ UNCHANGED bootVars
  BY <1>3, RunKeeps
<1>4. CASE UNCHANGED <<vars, bootVars>>
  BY <1>4 DEF vars, bootVars, callVars, pollerVars, poolVars, BootInv, ShutdownInv,
              Types, Stages, Leaving, Progress, Alive, Holding, Wanted
<1>. QED
  BY <1>1, <1>2, <1>3, <1>4 DEF BootNext

LEMMA BootAlways == BootSpec => []BootInv
  BY BootStart, BootNextKeeps, PTL DEF BootSpec

\* What works has open what it works with, from the start to the last deferred
\* call.
THEOREM OpenWhileUsed == BootSpec => []HeldWhileUsed
<1>1. ASSUME BootInv PROVE HeldWhileUsed
  <2> SUFFICES ASSUME Alive PROVE HeldWhileUsed
    BY DEF HeldWhileUsed
  <2>1. http \in Nat /\ unary \in Nat /\ streams \in Nat
    BY <1>1, ShutdownAssumption DEF BootInv, ShutdownInv, Types
  <2>2. http > 0 \/ unary + streams > 0 => main \in Before /\ next = Last + 1
    BY <1>1, <2>1 DEF BootInv, ShutdownInv, Types, Stages, Progress, Before, Alive
  <2>3. (\E w \in Worker : worker[w] = "busy") => main \in Before /\ next > Rank.poller
    BY <1>1, Ranks DEF BootInv, ShutdownInv, Types, Stages, Progress, Before, Alive, Last
  <2>4. \A s \in {"postgres", "mongo", "producer"} :
          s \in Deferred /\ (s # "producer" => Wanted(s))
    BY DEF Deferred, Kafka, Wanted
  <2>5. "kafka" \in enabled => Wanted("producer")
    BY DEF Wanted
  <2>6. next \in Nat
    BY <1>1 DEF BootInv, Progress, Last
  <2>. QED
    BY <1>1, <2>2, <2>3, <2>4, <2>5, <2>6, Ranks
       DEF BootInv, Holding, HeldWhileUsed, Last
<1>. QED
  BY <1>1, BootAlways, PTL

\* Nothing is left running at the end of a process that started, either.
THEOREM StartedProcessDrains == BootSpec => []NothingLeftRunning
<1>1. BootInv => NothingLeftRunning
  BY ShutdownAssumption DEF BootInv, ShutdownInv, Stages, Leaving, NothingLeftRunning
<1>. QED
  BY <1>1, BootAlways, PTL

-----------------------------------------------------------------------------
(* A process that starts is one that Shutdown describes                    *)

LEMMA BootInitMaps == BootInit => Stopping!Init
  BY DEF BootInit, Stopping!Init

LEMMA RunMaps ==
  ASSUME BootInv, Run
  PROVE  Stopping!Next
<1> USE DEF callVars, pollerVars, poolVars, Stopping!callVars, Stopping!pollerVars,
        Stopping!poolVars, Alive, Stopping!Alive
<1>1. CASE Caught
  BY <1>1 DEF Caught, Signal, Stopping!Signal, Stopping!Next
<1>2. CASE Served
  <2>1. CASE Request
    BY <2>1 DEF Request, Stopping!Request, Stopping!Clients, Stopping!Next
  <2>2. CASE Answer
    BY <2>2 DEF Answer, Stopping!Answer, Stopping!Clients, Stopping!Next
  <2>3. CASE Return
    BY <2>3 DEF Return, Stopping!Return, Stopping!Clients, Stopping!Next
  <2>4. CASE Disconnect
    BY <2>4 DEF Disconnect, Stopping!Disconnect, Stopping!Clients, Stopping!Next
  <2>5. CASE Call
    BY <2>5 DEF Call, Stopping!Call, Stopping!Clients, Stopping!Next
  <2>6. CASE Watch
    BY <2>6 DEF Watch, Stopping!Watch, Stopping!Clients, Stopping!Next
  <2>. QED
    BY <1>2, <2>1, <2>2, <2>3, <2>4, <2>5, <2>6 DEF Served
<1>3. CASE Stops
  <2>1. Stopping!Main
    BY <1>3 DEF Stops, ListenFails, Drain, Drained, DrainTimeout, GracefulStop,
                CloseJobs, Waited, Flush, Go, Stopping!Main, Stopping!ListenFails,
                Stopping!Drain, Stopping!Drained, Stopping!DrainTimeout,
                Stopping!GracefulStop, Stopping!CloseJobs, Stopping!Waited,
                Stopping!Flush, Stopping!Go
  <2>. QED
    BY <2>1 DEF Stopping!Next
<1>4. CASE Poller
  <2>1. Stopping!Poller
    BY <1>4 DEF Poller, PollerReturns, Tick, ClaimBatch, ClaimError, Submit, EndBatch,
                SubmitPanics, Room, Stopping!Poller, Stopping!PollerReturns,
                Stopping!Tick, Stopping!ClaimBatch, Stopping!ClaimError,
                Stopping!Submit, Stopping!EndBatch, Stopping!SubmitPanics,
                Stopping!Room
  <2>. QED
    BY <2>1 DEF Stopping!Next
<1>5. ASSUME NEW w \in Worker, Pool(w) PROVE Stopping!Next
  <2>1. Stopping!Pool(w)
    BY <1>5 DEF Pool, Take, Finish, Exit, Become, Stopping!Pool, Stopping!Take,
                Stopping!Finish, Stopping!Exit, Stopping!Become
  <2>. QED
    BY <2>1 DEF Stopping!Next
<1>. QED
  BY <1>1, <1>2, <1>3, <1>4, <1>5 DEF Run

LEMMA BootMaps ==
  ASSUME BootInv, [BootNext]_<<vars, bootVars>>
  PROVE  [Stopping!Next]_(Stopping!vars)
<1> USE DEF callVars, pollerVars, poolVars, Stopping!callVars, Stopping!pollerVars,
        Stopping!poolVars
<1>1. ASSUME NEW s \in Steps, Open(s) PROVE UNCHANGED Stopping!vars
  <2>1. s = "poller" => poller = "unstarted"
    BY <1>1, Ranks DEF Open, Starting, BootInv, Progress, Last
  <2>. QED
    BY <1>1, <2>1 DEF Open, Starting, Stopping!vars
<1>2. ASSUME NEW s \in Steps, Skip(s) \/ Close(s) PROVE UNCHANGED Stopping!vars
  BY <1>2 DEF Skip, Close, vars, Stopping!vars
<1>3. ASSUME NEW s \in Steps, GiveUp(s) PROVE Stopping!Next
  BY <1>3 DEF GiveUp, Starting, Stopping!Next, Stopping!Main, Stopping!ListenFails,
              Stopping!Go
<1>4. CASE Killed
  BY <1>4 DEF Killed, Stopping!Next, Stopping!Main, Stopping!ListenFails, Stopping!Go
<1>5. CASE Serve
  BY <1>5 DEF Serve, Stopping!vars
<1>6. CASE UNCHANGED <<vars, bootVars>>
  BY <1>6 DEF vars, Stopping!vars
<1>. QED
  BY <1>1, <1>2, <1>3, <1>4, <1>5, <1>6, RunMaps DEF BootNext, Boot

\* The start is invisible to Shutdown's reader: each of its steps stutters there
\* or is an exit.
THEOREM StartImplementsShutdown == BootSpec => ImplementsShutdown
<1>1. BootInv /\ [BootNext]_<<vars, bootVars>> => [Stopping!Next]_(Stopping!vars)
  BY BootMaps
<1>. QED
  BY <1>1, BootInitMaps, BootAlways, PTL
     DEF BootSpec, ImplementsShutdown, Stopping!Spec

-----------------------------------------------------------------------------
(* The shutdown goes on: what SignalEnds says, short of fairness           *)

\* Whoever waits for the pool has told it so.
Closing == main \in {"wait", "flush", "exit0"} => closed

LEMMA ClosingNext ==
  ASSUME ShutdownInv, Closing, [Next]_vars
  PROVE  Closing'
<1> USE DEF Closing, callVars, pollerVars, poolVars
<1>1. CASE Signal \/ Clients
  BY <1>1 DEF Signal, Clients, Request, Answer, Call, Return, Watch, Disconnect
<1>2. CASE Main
  BY <1>2 DEF Main, ListenFails, Drain, Drained, DrainTimeout, GracefulStop,
              CloseJobs, Waited, Flush, Go
<1>3. CASE Poller
  BY <1>3 DEF Poller, PollerReturns, Tick, ClaimBatch, ClaimError, Submit, EndBatch,
              SubmitPanics
<1>4. CASE \E w \in Worker : Pool(w)
  BY <1>4 DEF Pool, Take, Finish, Exit, Become
<1>5. CASE UNCHANGED vars
  BY <1>5 DEF vars
<1>. QED
  BY <1>1, <1>2, <1>3, <1>4, <1>5 DEF Next

LEMMA RunIsNext == Run => Next
  BY DEF Run, Caught, Served, Stops, Clients, Main, Next

LEMMA ClosingBootNext ==
  ASSUME BootInv, Closing, [BootNext]_<<vars, bootVars>>
  PROVE  Closing'
<1>1. CASE Boot \/ Killed
  BY <1>1 DEF Boot, Open, Skip, GiveUp, Killed, Serve, Starting, Closing, vars, poolVars
<1>2. CASE Run \/ UNCHANGED vars
  BY <1>2, RunIsNext, ClosingNext DEF BootInv
<1>3. CASE \E s \in Steps : Close(s)
  BY <1>3, <1>2 DEF Close
<1>. QED
  BY <1>1, <1>2, <1>3 DEF BootNext

LEMMA NobodyElseBlocks == ASSUME ShutdownInv, Closing PROVE OnlyWatchersBlock
<1> SUFFICES ASSUME main \in {"grpc", "wait"}, ~MainCanGo
             PROVE  \/ main = "grpc" /\ unary + streams > 0
                    \/ main = "wait" /\ \E w \in Worker : WorkerCanGo(w)
  BY DEF OnlyWatchersBlock, MainCanGo
<1>1. CASE main = "grpc"
  BY <1>1, ShutdownAssumption DEF MainCanGo, ShutdownInv, Types
<1>2. CASE main = "wait"
  <2>1. PICK w \in Worker : worker[w] # "exited"
    BY <1>2 DEF MainCanGo
  <2>2. WorkerCanGo(w)
    BY <1>2, <2>1 DEF Closing, WorkerCanGo, ShutdownInv, Types
  <2>. QED
    BY <1>2, <2>2
<1>. QED
  BY <1>1, <1>2

\* After the signal no part of the process waits for another that waits: as long
\* as no client keeps a stream open, somebody can take a step that the process is
\* scheduled to take, whatever the numbers of goroutines, requests and jobs.
THEOREM OthersNeverBlock ==
  /\ Spec => []OnlyWatchersBlock
  /\ BootSpec => []OnlyWatchersBlock
<1>1. Init \/ BootInit => Closing
  BY DEF Init, BootInit, Closing
<1>2. ShutdownInv /\ Closing /\ [Next]_vars => Closing'
  BY ClosingNext
<1>3. BootInv /\ Closing /\ [BootNext]_<<vars, bootVars>> => Closing'
  BY ClosingBootNext
<1>4. ShutdownInv /\ Closing => OnlyWatchersBlock
  BY NobodyElseBlocks
<1>5. BootInv => ShutdownInv
  BY DEF BootInv
<1>6. Spec => []OnlyWatchersBlock
  BY <1>1, <1>2, <1>4, InvAlways, PTL DEF Spec
<1>7. BootSpec => []OnlyWatchersBlock
  BY <1>1, <1>3, <1>4, <1>5, BootAlways, PTL DEF BootSpec
<1>. QED
  BY <1>6, <1>7

-----------------------------------------------------------------------------
(* How much is left to do                                                  *)

\* A goroutine that goes from one state to another leaves one set for another.
LEMMA Moves ==
  ASSUME IsFiniteSet(Worker), worker \in [Worker -> {"idle", "busy", "exited"}],
         NEW w \in Worker, NEW new \in {"idle", "busy", "exited"},
         worker' = [worker EXCEPT ![w] = new], worker[w] # new
  PROVE  /\ Cardinality(Doing("busy")) \in Nat /\ Cardinality(Doing("idle")) \in Nat
         /\ \A state \in {"idle", "busy"} :
              Cardinality(Doing(state))' =
                Cardinality(Doing(state)) + (IF state = new THEN 1 ELSE 0)
                                          - (IF state = worker[w] THEN 1 ELSE 0)
<1>1. ASSUME NEW state \in {"idle", "busy"}
      PROVE  /\ IsFiniteSet(Doing(state)) /\ Cardinality(Doing(state)) \in Nat
             /\ Cardinality(Doing(state))' =
                  Cardinality(Doing(state)) + (IF state = new THEN 1 ELSE 0)
                                            - (IF state = worker[w] THEN 1 ELSE 0)
  <2> DEFINE now == Doing(state)
             then == {v \in Worker : worker'[v] = state}
  <2>1. IsFiniteSet(now) /\ Cardinality(now) \in Nat
    BY FS_Subset, FS_CardinalityType DEF Doing
  <2>2. Cardinality(then) = Cardinality(now) + (IF state = new THEN 1 ELSE 0)
                              - (IF state = worker[w] THEN 1 ELSE 0)
    <3>1. CASE state = new
      <4>1. then = now \cup {w} /\ w \notin now
        BY <3>1 DEF Doing
      <4> HIDE DEF now, then
      <4>2. Cardinality(now \cup {w}) = Cardinality(now) + 1
        BY <2>1, <4>1, FS_AddElement
      <4>. QED
        BY <2>1, <3>1, <4>1, <4>2
    <3>2. CASE state = worker[w]
      <4>1. then = now \ {w} /\ w \in now
        BY <3>2 DEF Doing
      <4> HIDE DEF now, then
      <4>2. Cardinality(now \ {w}) = Cardinality(now) - 1
        BY <2>1, <4>1, FS_RemoveElement
      <4>. QED
        BY <2>1, <3>2, <4>1, <4>2
    <3>3. CASE state # new /\ state # worker[w]
      <4>1. then = now
        BY <3>3 DEF Doing
      <4> HIDE DEF now, then
      <4>. QED
        BY <2>1, <3>3, <4>1
    <3>. QED
      BY <3>1, <3>2, <3>3
  <2>3. Cardinality(Doing(state))' = Cardinality(then)
    BY DEF Doing
  <2>. QED
    BY <2>1, <2>2, <2>3
<1>. QED
  BY <1>1

\* Every step of a goroutine is one of those that PoolWork counts.
LEMMA WorkFalls ==
  ASSUME IsFiniteSet(Worker), ShutdownInv, NEW w \in Worker, Pool(w)
  PROVE  worker' # worker /\ PoolWork' = PoolWork - 1
<1>1. worker \in [Worker -> {"idle", "busy", "exited"}] /\ queued \in Nat
  BY ShutdownAssumption DEF ShutdownInv, Types
<1>2. ASSUME NEW new \in {"idle", "busy", "exited"}, Become(w, new),
             worker[w] \in {"idle", "busy"}, worker[w] # new
      PROVE  /\ worker' # worker
             /\ Cardinality(Doing("busy")) \in Nat /\ Cardinality(Doing("idle")) \in Nat
             /\ \A state \in {"idle", "busy"} :
                  Cardinality(Doing(state))' =
                    Cardinality(Doing(state)) + (IF state = new THEN 1 ELSE 0)
                                              - (IF state = worker[w] THEN 1 ELSE 0)
  <2>1. worker' = [worker EXCEPT ![w] = new]
    BY <1>2 DEF Become
  <2>. QED
    BY <1>1, <1>2, <2>1, Moves
<1> DEFINE busy == Cardinality(Doing("busy"))
           idle == Cardinality(Doing("idle"))
<1>3. PoolWork = 2 * queued + 2 * busy + idle /\ PoolWork' = 2 * queued' + 2 * busy' + idle'
  BY DEF PoolWork
<1>4. CASE Take(w)
  <2>1. worker' # worker /\ busy \in Nat /\ idle \in Nat /\ busy' = busy + 1
        /\ idle' = idle - 1
    BY <1>2, <1>4 DEF Take
  <2>2. queued' = queued - 1
    BY <1>4 DEF Take
  <2> HIDE DEF busy, idle
  <2>. QED
    BY <1>1, <1>3, <2>1, <2>2
<1>5. CASE Finish(w)
  <2>1. worker' # worker /\ busy \in Nat /\ idle \in Nat /\ busy' = busy - 1
        /\ idle' = idle + 1
    BY <1>2, <1>5 DEF Finish
  <2>2. queued' = queued
    BY <1>5 DEF Finish
  <2> HIDE DEF busy, idle
  <2>. QED
    BY <1>1, <1>3, <2>1, <2>2
<1>6. CASE Exit(w)
  <2>1. worker' # worker /\ busy \in Nat /\ idle \in Nat /\ busy' = busy
        /\ idle' = idle - 1
    BY <1>2, <1>6 DEF Exit
  <2>2. queued' = queued
    BY <1>6 DEF Exit
  <2> HIDE DEF busy, idle
  <2>. QED
    BY <1>1, <1>3, <2>1, <2>2
<1>. QED
  BY <1>4, <1>5, <1>6 DEF Pool

\* A step that leaves the pool alone leaves its work.
LEMMA WorkStays == UNCHANGED <<queued, worker>> => PoolWork' = PoolWork
  BY DEF PoolWork, Doing

LEMMA Forward ==
  ASSUME IsFiniteSet(Worker), ShutdownInv, Next, main # "boot"
  PROVE  StopsForward
<1> USE DEF callVars, pollerVars, poolVars
<1>0. http \in Nat /\ unary \in Nat /\ streams \in Nat
  BY ShutdownAssumption DEF ShutdownInv, Types
<1>1. CASE Signal \/ Clients
  BY <1>0, <1>1, WorkStays
     DEF StopsForward, Stage, Signal, Clients, Request, Answer, Call, Return, Watch,
         Disconnect
<1>2. CASE Main
  BY <1>0, <1>2, WorkStays
     DEF StopsForward, Stage, Main, ListenFails, Drain, Drained, DrainTimeout,
         GracefulStop, CloseJobs, Waited, Flush, Go
<1>3. CASE Poller
  <2>1. main' # main => main' = "panic" /\ Alive
    BY <1>3 DEF Poller, PollerReturns, Tick, ClaimBatch, ClaimError, Submit, EndBatch,
                SubmitPanics
  <2>2. UNCHANGED <<http, unary, streams, closed, worker>>
    BY <1>3 DEF Poller, PollerReturns, Tick, ClaimBatch, ClaimError, Submit, EndBatch,
                SubmitPanics
  <2>3. closed => UNCHANGED queued
    BY <1>3 DEF Poller, PollerReturns, Tick, ClaimBatch, ClaimError, Submit, EndBatch,
                SubmitPanics
  <2>4. main' # main => Stage[main'] > Stage[main]
    BY <2>1 DEF Stage, Alive, ShutdownInv, Types
  <2>. QED
    BY <1>0, <2>2, <2>3, <2>4, WorkStays DEF StopsForward
<1>4. CASE \E w \in Worker : Pool(w)
  <2>1. PICK w \in Worker : Pool(w)
    BY <1>4
  <2>2. UNCHANGED <<main, http, unary, streams, closed>>
    BY <2>1 DEF Pool, Take, Finish, Exit, Become
  <2>. QED
    BY <1>0, <2>1, <2>2, WorkFalls DEF StopsForward
<1>. QED
  BY <1>1, <1>2, <1>3, <1>4 DEF Next

\* A process that is still starting has no stage yet.
StartedForward == main # "boot" => StopsForward

\* The shutdown only goes forward: no stage comes again, none takes in what it
\* waits for, and once the channel is closed the pool is through in PoolWork
\* steps, for any finite pool, whatever the clients and the poller do.
THEOREM ShutdownGoesForward ==
  ASSUME IsFiniteSet(Worker)
  PROVE  /\ Spec => [][StopsForward]_vars
         /\ BootSpec => [][StartedForward]_<<vars, bootVars>>
<1> DEFINE Started == main # "boot"
<1>1. Init => Started
  BY DEF Init
<1>2. Started /\ ShutdownInv /\ [Next]_vars => Started' /\ [StopsForward]_vars
  <2>1. Next => main' = main \/ main' # "boot"
    BY DEF Next, Signal, Clients, Request, Answer, Call, Return, Watch, Disconnect,
           Main, ListenFails, Drain, Drained, DrainTimeout, GracefulStop, CloseJobs,
           Waited, Flush, Go, Poller, PollerReturns, Tick, ClaimBatch, ClaimError,
           Submit, EndBatch, SubmitPanics, Pool, Take, Finish, Exit, Become
  <2>. QED
    BY <2>1, Forward DEF vars
<1>3. Spec => [][StopsForward]_vars
  BY <1>1, <1>2, InvAlways, PTL DEF Spec
<1>4. BootInv /\ [BootNext]_<<vars, bootVars>> => [StartedForward]_<<vars, bootVars>>
  <2> SUFFICES ASSUME BootInv, BootNext, main # "boot" PROVE StopsForward
    BY DEF StartedForward
  <2>1. CASE Run
    BY <2>1, RunIsNext, Forward DEF BootInv
  <2>2. CASE \E s \in Steps : Close(s)
    BY <2>2, WorkStays, ShutdownAssumption
       DEF Close, vars, callVars, poolVars, StopsForward, BootInv, ShutdownInv, Types
  <2>. QED
    BY <2>1, <2>2 DEF BootNext, Boot, Open, Skip, GiveUp, Killed, Serve, Starting
<1>5. BootSpec => [][StartedForward]_<<vars, bootVars>>
  BY <1>4, BootAlways, PTL DEF BootSpec
<1>. QED
  BY <1>3, <1>5

\* A full channel, every goroutine busy: twice as many steps as jobs and goroutines.
PoolWorkBounded ==
  /\ PoolWork \in 0..(2 * (QueueSize + Cardinality(Worker)))
  /\ PoolWork = 0 <=> queued = 0 /\ \A w \in Worker : worker[w] = "exited"

\* The steps that the pool has yet to take when Stop closes the channel are bounded
\* by its configuration, and none is left exactly when main need not wait.
THEOREM PoolIsSoonThrough ==
  ASSUME IsFiniteSet(Worker)
  PROVE  /\ Spec => []PoolWorkBounded
         /\ BootSpec => []PoolWorkBounded
<1>1. ASSUME ShutdownInv PROVE PoolWorkBounded
  <2> DEFINE busy == Doing("busy")
             idle == Doing("idle")
  <2>1. IsFiniteSet(busy) /\ IsFiniteSet(idle) /\ Cardinality(Worker) \in Nat
        /\ Cardinality(busy) \in Nat /\ Cardinality(idle) \in Nat
    BY FS_Subset, FS_CardinalityType DEF Doing
  <2>2. busy \cap idle = {} /\ busy \cup idle \in SUBSET Worker
    BY DEF Doing
  <2>3. Cardinality(busy) + Cardinality(idle) <= Cardinality(Worker)
    <3> HIDE DEF busy, idle
    <3>1. Cardinality(busy \cup idle) <= Cardinality(Worker)
      BY <2>2, FS_Subset
    <3>2. Cardinality(busy \cup idle)
            = Cardinality(busy) + Cardinality(idle) - Cardinality(busy \cap idle)
      BY <2>1, FS_Union
    <3>3. Cardinality(busy \cap idle) = 0
      BY <2>2, FS_EmptySet
    <3>. QED
      BY <2>1, <3>1, <3>2, <3>3
  <2>4. queued \in 0..QueueSize /\ QueueSize \in Nat
    BY <1>1, ShutdownAssumption DEF ShutdownInv, Types
  <2>5. Cardinality(busy) = 0 /\ Cardinality(idle) = 0
          <=> \A w \in Worker : worker[w] = "exited"
    <3>1. Cardinality(busy) = 0 /\ Cardinality(idle) = 0 <=> busy = {} /\ idle = {}
      BY <2>1, FS_EmptySet
    <3>2. busy = {} /\ idle = {} <=> \A w \in Worker : worker[w] = "exited"
      BY <1>1 DEF Doing, ShutdownInv, Types
    <3>. QED
      BY <3>1, <3>2
  <2>6. PoolWork = 2 * queued + 2 * Cardinality(busy) + Cardinality(idle)
    BY DEF PoolWork
  <2>7. ASSUME NEW b \in Nat, NEW i \in Nat, NEW n \in Nat, b + i <= n
        PROVE  /\ 2 * queued + 2 * b + i \in 0..(2 * (QueueSize + n))
               /\ 2 * queued + 2 * b + i = 0 <=> queued = 0 /\ b = 0 /\ i = 0
    BY <2>4, <2>7
  <2> HIDE DEF busy, idle
  <2>8. /\ PoolWork \in 0..(2 * (QueueSize + Cardinality(Worker)))
        /\ PoolWork = 0 <=> queued = 0 /\ Cardinality(busy) = 0 /\ Cardinality(idle) = 0
    BY <2>1, <2>3, <2>6, <2>7
  <2>. QED
    BY <2>5, <2>8 DEF PoolWorkBounded
<1>2. BootInv => ShutdownInv
  BY DEF BootInv
<1>3. Spec => []PoolWorkBounded
  BY <1>1, InvAlways, PTL
<1>4. BootSpec => []PoolWorkBounded
  BY <1>1, <1>2, BootAlways, PTL
<1>. QED
  BY <1>3, <1>4
=============================================================================
