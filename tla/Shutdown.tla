------------------------------ MODULE Shutdown ------------------------------
(***************************************************************************)
(* How the process stops (cmd/api/main.go): the signal cancels the root    *)
(* context; server.Start drains the HTTP requests; the gRPC server stops   *)
(* gracefully; Pool.Stop closes the job queue and waits for the worker     *)
(* goroutines; main flushes the telemetry, returns, and its deferred calls *)
(* close the database pool.  The outbox poller runs beside all this and    *)
(* nobody waits for it.                                                    *)
(***************************************************************************)
EXTENDS Naturals, FiniteSets

CONSTANTS
  Worker,      \* the goroutines of the pool
  QueueSize,   \* WORKER_QUEUE
  MaxCalls,    \* bound: HTTP requests and unary gRPC calls, each
  MaxStreams,  \* bound: WatchCustomerEvents streams; 0 when gRPC is disabled
  MaxJobs      \* bound: messages the poller claims

ASSUME ShutdownAssumption ==
  /\ Worker # {}
  /\ QueueSize \in Nat \ {0}
  /\ {MaxCalls, MaxStreams, MaxJobs} \subseteq Nat

VARIABLES
  main,       \* where main is; exit0, exit1 and panic end the process
  cancelled,  \* the root context
  http, unary, streams,  \* requests, calls and streams being served
  arrived,    \* how many of each there have been
  poller,     \* where Poller.Run is
  left,       \* messages of its batch the poller has yet to submit
  claimed,    \* messages claimed so far
  queued,     \* jobs in the channel
  closed,     \* the channel is closed
  worker      \* what every goroutine of the pool does

pollerVars == <<poller, left, claimed>>
poolVars   == <<queued, closed, worker>>
callVars   == <<http, unary, streams, arrived>>
vars == <<main, cancelled, callVars, pollerVars, poolVars>>

Alive == main \notin {"exit0", "exit1", "panic"}

Init ==
  /\ main = "serve" /\ cancelled = FALSE
  /\ http = 0 /\ unary = 0 /\ streams = 0
  /\ arrived = [http |-> 0, unary |-> 0, streams |-> 0]
  /\ poller = "select" /\ left = 0 /\ claimed = 0
  /\ queued = 0 /\ closed = FALSE
  /\ worker = [w \in Worker |-> "idle"]

-----------------------------------------------------------------------------
(* Clients and the operating system                                        *)

\* SIGINT or SIGTERM.
Signal ==
  /\ Alive /\ ~cancelled
  /\ cancelled' = TRUE
  /\ UNCHANGED <<main, callVars, pollerVars, poolVars>>

Request ==
  /\ main = "serve" /\ arrived.http < MaxCalls
  /\ arrived' = [arrived EXCEPT !.http = @ + 1]
  /\ http' = http + 1
  /\ UNCHANGED <<main, cancelled, unary, streams, pollerVars, poolVars>>

Answer ==
  /\ Alive /\ http > 0
  /\ http' = http - 1
  /\ UNCHANGED <<main, cancelled, unary, streams, arrived, pollerVars, poolVars>>

\* The gRPC server takes calls until GracefulStop begins.
Call ==
  /\ main \in {"serve", "drain"} /\ arrived.unary < MaxCalls
  /\ arrived' = [arrived EXCEPT !.unary = @ + 1]
  /\ unary' = unary + 1
  /\ UNCHANGED <<main, cancelled, http, streams, pollerVars, poolVars>>

Return ==
  /\ Alive /\ unary > 0
  /\ unary' = unary - 1
  /\ UNCHANGED <<main, cancelled, http, streams, arrived, pollerVars, poolVars>>

Watch ==
  /\ main \in {"serve", "drain"} /\ arrived.streams < MaxStreams
  /\ arrived' = [arrived EXCEPT !.streams = @ + 1]
  /\ streams' = streams + 1
  /\ UNCHANGED <<main, cancelled, http, unary, pollerVars, poolVars>>

\* WatchCustomerEvents returns when the client disconnects: the context of a
\* stream does not descend from the root context.
Disconnect ==
  /\ Alive /\ streams > 0
  /\ streams' = streams - 1
  /\ UNCHANGED <<main, cancelled, http, unary, arrived, pollerVars, poolVars>>

-----------------------------------------------------------------------------
(* main                                                                    *)

Go(pc) == main' = pc /\ UNCHANGED <<cancelled, callVars, pollerVars>>

\* ListenAndServe fails: Start returns the error and main calls os.Exit(1).
ListenFails == main = "serve" /\ Go("exit1") /\ UNCHANGED poolVars

Drain == main = "serve" /\ cancelled /\ Go("drain") /\ UNCHANGED poolVars

\* srv.Shutdown returns nil when the last request is answered ...
Drained == main = "drain" /\ http = 0 /\ Go("grpc") /\ UNCHANGED poolVars

\* ... or an error after ten seconds, on which main calls os.Exit(1).
DrainTimeout == main = "drain" /\ http > 0 /\ Go("exit1") /\ UNCHANGED poolVars

GracefulStop ==
  /\ main = "grpc" /\ unary = 0 /\ streams = 0
  /\ Go("stop")
  /\ UNCHANGED poolVars

\* Mutant of CloseJobs: Stop waits for the workers without telling them.
CloseNothing == main = "stop" /\ Go("wait") /\ UNCHANGED poolVars

\* Pool.Stop closes the channel and waits for the goroutines.
CloseJobs ==
  /\ main = "stop"
  /\ closed' = TRUE
  /\ Go("wait")
  /\ UNCHANGED <<queued, worker>>

Waited ==
  /\ main = "wait" /\ \A w \in Worker : worker[w] = "exited"
  /\ Go("flush")
  /\ UNCHANGED poolVars

\* Telemetry is flushed; the deferred calls close Kafka, MongoDB and Postgres.
Flush == main = "flush" /\ Go("exit0") /\ UNCHANGED poolVars

Main == ListenFails \/ Drain \/ Drained \/ DrainTimeout \/ GracefulStop
          \/ CloseJobs \/ Waited \/ Flush

-----------------------------------------------------------------------------
(* The outbox poller                                                       *)

PollerReturns ==
  /\ Alive /\ poller = "select" /\ cancelled
  /\ poller' = "returned"
  /\ UNCHANGED <<main, cancelled, callVars, left, claimed, poolVars>>

\* With both cases of the select ready, Go may still choose the tick.
Tick ==
  /\ Alive /\ poller = "select"
  /\ poller' = "claim"
  /\ UNCHANGED <<main, cancelled, callVars, left, claimed, poolVars>>

ClaimBatch ==
  /\ Alive /\ poller = "claim" /\ ~cancelled
  /\ \E n \in 0..(MaxJobs - claimed) :
       /\ left' = n
       /\ claimed' = claimed + n
  /\ poller' = "submit"
  /\ UNCHANGED <<main, cancelled, callVars, poolVars>>

\* A cancelled context fails the claim, and so may the database.
ClaimError ==
  /\ Alive /\ poller = "claim"
  /\ poller' = "select"
  /\ UNCHANGED <<main, cancelled, callVars, left, claimed, poolVars>>

Room == queued < QueueSize

Submit ==
  /\ Alive /\ poller = "submit" /\ left > 0 /\ ~closed /\ Room
  /\ queued' = queued + 1
  /\ left' = left - 1
  /\ UNCHANGED <<main, cancelled, callVars, poller, claimed, closed, worker>>

\* The end of the batch, or ErrPoolFull, on which the rest is left alone.
EndBatch ==
  /\ Alive /\ poller = "submit"
  /\ left = 0 \/ (~closed /\ ~Room)
  /\ left' = 0
  /\ poller' = "select"
  /\ UNCHANGED <<main, cancelled, callVars, claimed, poolVars>>

\* A send on the closed channel panics, in a select with a default too.
SubmitPanics ==
  /\ Alive /\ poller = "submit" /\ left > 0 /\ closed
  /\ main' = "panic"
  /\ UNCHANGED <<cancelled, callVars, pollerVars, poolVars>>

Poller == PollerReturns \/ Tick \/ ClaimBatch \/ ClaimError \/ Submit
            \/ EndBatch \/ SubmitPanics

-----------------------------------------------------------------------------
(* The pool                                                                *)

Become(w, state) ==
  /\ worker' = [worker EXCEPT ![w] = state]
  /\ UNCHANGED <<main, cancelled, callVars, pollerVars, closed>>

Take(w) ==
  /\ Alive /\ worker[w] = "idle" /\ queued > 0
  /\ queued' = queued - 1
  /\ Become(w, "busy")

\* The job returns, at the latest when the drain timeout ends its context.
Finish(w) ==
  /\ Alive /\ worker[w] = "busy"
  /\ Become(w, "idle")
  /\ UNCHANGED queued

\* Mutant of Exit: a goroutine leaves when the root context is cancelled.
ExitOnCancel(w) ==
  /\ Alive /\ worker[w] = "idle" /\ cancelled
  /\ Become(w, "exited")
  /\ UNCHANGED queued

\* The range over the channel ends when it is closed and empty.
Exit(w) ==
  /\ Alive /\ worker[w] = "idle" /\ closed /\ queued = 0
  /\ Become(w, "exited")
  /\ UNCHANGED queued

Pool(w) == Take(w) \/ Finish(w) \/ Exit(w)

-----------------------------------------------------------------------------

Clients == Request \/ Answer \/ Call \/ Return \/ Watch \/ Disconnect
Next == Signal \/ Clients \/ Main \/ Poller \/ \E w \in Worker : Pool(w)

Spec == Init /\ [][Next]_vars

\* Goroutines run; handlers and unary calls return; clients need not hang up.
FairSpec ==
  /\ Spec
  /\ WF_vars(Main) /\ WF_vars(Answer) /\ WF_vars(Return)
  /\ \A w \in Worker : WF_vars(Pool(w))

-----------------------------------------------------------------------------
(* Properties                                                              *)

\* Every variable has its type; the channel never holds more than QueueSize.
TypeOK ==
  /\ main \in {"serve", "drain", "grpc", "stop", "wait", "flush",
               "exit0", "exit1", "panic"}
  /\ cancelled \in BOOLEAN /\ closed \in BOOLEAN
  /\ arrived \in [http : 0..MaxCalls, unary : 0..MaxCalls, streams : 0..MaxStreams]
  /\ http \in 0..arrived.http /\ unary \in 0..arrived.unary
  /\ streams \in 0..arrived.streams
  /\ poller \in {"select", "claim", "submit", "returned"}
  /\ left \in 0..claimed /\ claimed \in 0..MaxJobs
  /\ queued \in 0..QueueSize
  /\ worker \in [Worker -> {"idle", "busy", "exited"}]

\* When main lets go of the database pool and the producer, nobody is left who
\* needs them: no request, no call, no job running and none waiting.
NothingLeftRunning ==
  main \in {"flush", "exit0"} =>
    /\ http = 0 /\ unary = 0 /\ streams = 0
    /\ queued = 0 /\ \A w \in Worker : worker[w] = "exited"

\* A signal ends the process, provided that the watching clients hang up (see
\* WatchersLetGo): the steps of the shutdown wait for each other in one
\* direction only, and a poller beside them never keeps them.
SignalEnds == []<>(streams = 0) => (cancelled ~> ~Alive)

\* The safety half of SignalEnds, from the guards of the steps that are fair.
MainCanGo ==
  \/ main = "serve" /\ cancelled
  \/ main = "grpc" /\ unary = 0 /\ streams = 0
  \/ main = "wait" /\ \A w \in Worker : worker[w] = "exited"
  \/ main \in {"drain", "stop", "flush"}

WorkerCanGo(w) == \/ worker[w] = "busy"
                  \/ worker[w] = "idle" /\ (queued > 0 \/ closed)

\* After the signal nothing but a watching client can keep everybody waiting:
\* where main waits, a call has yet to return or a goroutine of the pool can go
\* on to what main waits for.
OnlyWatchersBlock ==
  cancelled /\ main \in {"serve", "drain", "grpc", "stop", "wait", "flush"} =>
    \/ MainCanGo
    \/ main = "grpc" /\ unary + streams > 0
    \/ main = "wait" /\ \E w \in Worker : WorkerCanGo(w)

\* The stages of main, and what is left to do within one: the calls that have
\* yet to return, the steps that the pool has yet to take.
Stage == [serve |-> 0, drain |-> 1, grpc |-> 2, stop |-> 3, wait |-> 4,
          flush |-> 5, exit0 |-> 6, exit1 |-> 6, panic |-> 6]

Doing(state) == {w \in Worker : worker[w] = state}
PoolWork == 2 * queued + 2 * Cardinality(Doing("busy")) + Cardinality(Doing("idle"))

\* A stage of the shutdown never begins again, takes no new work from where it
\* waits, and every step of what it waits for leaves one step less, whatever the
\* clients and the poller do meanwhile.
StopsForward ==
  /\ main' # main => Stage[main'] > Stage[main]
  /\ Stage[main] >= 1 => http' <= http
  /\ Stage[main] >= 2 => unary' <= unary /\ streams' <= streams
  /\ closed => /\ closed'
               /\ PoolWork' = IF worker' = worker THEN PoolWork ELSE PoolWork - 1

-----------------------------------------------------------------------------
(* What the documents say and the code does not                            *)

\* "The outbox poller already exited because ctx was cancelled before this
\* point." (main.go:263)
PollerExitedFirst == main \in {"stop", "wait"} => poller = "returned"

\* "Streaming calls exit via stream.Context().Done() when the server context is
\* cancelled, so GracefulStop does not hang" (docs/grpc.md:294)
WatchersLetGo == cancelled ~> ~Alive

\* "No in-flight job is ever dropped." (docs/worker-outbox.md:191): a shutdown
\* on a signal leaves no job unfinished.
NoJobDropped ==
  cancelled /\ main \in {"exit0", "exit1"}
    => queued = 0 /\ \A w \in Worker : worker[w] # "busy"
=============================================================================
