------------------------------ MODULE Startup -------------------------------
(***************************************************************************)
(* How the process starts (cmd/api/main.go): main opens what it needs one  *)
(* after the other and calls os.Exit(1), which runs no deferred call, if   *)
(* it cannot; the worker pool, the outbox poller and the gRPC server are   *)
(* at work before it has everything.  When main returns, its deferred      *)
(* calls close what it holds, the last first.  Between the two it serves   *)
(* and stops as in Shutdown.                                               *)
(***************************************************************************)
EXTENDS Shutdown

VARIABLES
  enabled,  \* what the configuration turns on
  next,     \* the rank of main's next step
  held      \* what main's deferred calls have yet to close

bootVars == <<enabled, next, held>>

\* The steps of main in their order.
Rank == [config |-> 1, telemetry |-> 2, postgres |-> 3, migrations |-> 4,
         eventlog |-> 5, redis |-> 6, workers |-> 7, dlq |-> 8, producer |-> 9,
         consumer |-> 10, poller |-> 11, mongo |-> 12, indexes |-> 13,
         listener |-> 14]
Steps == DOMAIN Rank
Last == 14

Kafka == {"dlq", "producer", "consumer"}
Wanted(s) == /\ s \in Kafka => "kafka" \in enabled
             /\ s = "listener" => "grpc" \in enabled

\* The event log and Redis are never closed.
Deferred == {"postgres", "mongo"} \cup Kafka

\* These ping a server or build indexes under the root context.
NeedsContext == {"postgres", "mongo", "indexes"}

BootInit ==
  /\ main = "boot" /\ cancelled = FALSE
  /\ http = 0 /\ unary = 0 /\ streams = 0
  /\ arrived = [http |-> 0, unary |-> 0, streams |-> 0]
  /\ poller = "unstarted" /\ left = 0 /\ claimed = 0
  /\ queued = 0 /\ closed = FALSE
  /\ worker = [w \in Worker |-> "idle"]
  /\ enabled \in SUBSET {"kafka", "grpc"}
  /\ next = 1 /\ held = {}

-----------------------------------------------------------------------------
(* Starting                                                                *)

Starting(s) == main = "boot" /\ next = Rank[s]

Open(s) ==
  /\ Starting(s) /\ Wanted(s)
  /\ s \in NeedsContext => ~cancelled
  /\ next' = next + 1
  /\ held' = IF s \in Deferred THEN held \cup {s} ELSE held
  /\ poller' = IF s = "poller" THEN "select" ELSE poller
  /\ UNCHANGED <<enabled, main, cancelled, callVars, left, claimed, poolVars>>

\* It is turned off, or it is the cache, which main can do without.
Skip(s) ==
  /\ Starting(s) /\ (~Wanted(s) \/ s \in {"telemetry", "redis"})
  /\ next' = next + 1
  /\ UNCHANGED <<enabled, held, vars>>

\* Mutant of GiveUp: main returns.
GiveUpReturns(s) ==
  /\ Starting(s) /\ Wanted(s) /\ s \notin {"redis", "workers", "poller"}
  /\ main' = "exit0"
  /\ UNCHANGED <<bootVars, cancelled, callVars, pollerVars, poolVars>>

\* os.Exit(1), with whatever the workers and the poller are doing.
GiveUp(s) ==
  /\ Starting(s) /\ Wanted(s) /\ s \notin {"redis", "workers", "poller"}
  /\ main' = "exit1"
  /\ UNCHANGED <<bootVars, cancelled, callVars, pollerVars, poolVars>>

\* Until NotifyContext, a signal kills the process.
Killed ==
  /\ main = "boot" /\ next = 1
  /\ main' = "exit1"
  /\ UNCHANGED <<bootVars, cancelled, callVars, pollerVars, poolVars>>

\* server.Start, with the root context cancelled or not.
Serve ==
  /\ main = "boot" /\ next > Last
  /\ main' = "serve"
  /\ UNCHANGED <<bootVars, cancelled, callVars, pollerVars, poolVars>>

Boot == Serve \/ \E s \in Steps : Open(s) \/ Skip(s) \/ GiveUp(s)

-----------------------------------------------------------------------------
(* Closing                                                                 *)

\* Mutant of Close: the calls run in the order of the defer statements.
CloseOldest(s) ==
  /\ main = "flush" /\ s \in held /\ \A t \in held : Rank[s] <= Rank[t]
  /\ held' = held \ {s}
  /\ UNCHANGED <<enabled, next, vars>>

\* A deferred call: the last of them that is left.
Close(s) ==
  /\ main = "flush" /\ s \in held /\ \A t \in held : Rank[t] <= Rank[s]
  /\ held' = held \ {s}
  /\ UNCHANGED <<enabled, next, vars>>

-----------------------------------------------------------------------------
(* Serving and stopping, with what the configuration turned on             *)

Caught == next > 1 /\ Signal

Served == Request \/ Answer \/ Return \/ Disconnect
            \/ ("grpc" \in enabled /\ (Call \/ Watch))

Stops == ListenFails \/ Drain \/ Drained \/ DrainTimeout \/ GracefulStop
           \/ CloseJobs \/ Waited \/ (held = {} /\ Flush)

Run == Caught \/ Served \/ Stops \/ Poller \/ \E w \in Worker : Pool(w)

BootNext ==
  \/ Boot \/ Killed
  \/ \E s \in Steps : Close(s)
  \/ Run /\ UNCHANGED bootVars

BootSpec == BootInit /\ [][BootNext]_<<vars, bootVars>>

\* The fairness of Shutdown; main takes its steps from the first to the last.
BootMain == Boot \/ (\E s \in Steps : Close(s)) \/ (Stops /\ UNCHANGED bootVars)

FairBootSpec ==
  /\ BootSpec
  /\ WF_<<vars, bootVars>>(BootMain)
  /\ WF_<<vars, bootVars>>(Answer /\ UNCHANGED bootVars)
  /\ WF_<<vars, bootVars>>(Return /\ UNCHANGED bootVars)
  /\ \A w \in Worker : WF_<<vars, bootVars>>(Pool(w) /\ UNCHANGED bootVars)

-----------------------------------------------------------------------------
(* Properties                                                              *)

\* Whoever works finds open what it works with, from the first job, while main
\* is still starting, to the last deferred call: a request the databases, a gRPC
\* call PostgreSQL, a delivery PostgreSQL and the producer, and the producer the
\* writer of dead letters.
HeldWhileUsed ==
  Alive =>
    /\ http > 0 => {"postgres", "mongo"} \subseteq held
    /\ unary + streams > 0 => "postgres" \in held
    /\ (\E w \in Worker : worker[w] = "busy") =>
         /\ "postgres" \in held
         /\ "kafka" \in enabled => "producer" \in held
    /\ "producer" \in held => "dlq" \in held

\* A start is invisible to whoever knows the process as Shutdown has it: while
\* main boots it serves nobody, and a start that fails, in the middle of the
\* first deliveries or not, is an exit that Shutdown allows.
Stopping == INSTANCE Shutdown
  WITH main <- IF main = "boot" THEN "serve" ELSE main,
       poller <- IF poller = "unstarted" THEN "select" ELSE poller

ImplementsShutdown == Stopping!Spec
=============================================================================
