------------------------------- MODULE Outbox -------------------------------
(***************************************************************************)
(* The transactional outbox: the rows of outbox_messages, and in every     *)
(* replica of the service one Poller (internal/outbox/poller.go), the      *)
(* bounded worker pool its deliveries run in (internal/worker/pool.go) and *)
(* the Kafka publisher with its dead letter topic                          *)
(* (internal/platform/kafka/producer.go, dlq.go).                          *)
(*                                                                         *)
(* One unit of time is one poll interval.  Timestamps are kept relative to *)
(* now: lockAge is now - locked_at, retryIn is next_attempt_at - now.      *)
(* Every SQL statement is one atomic step; FOR UPDATE SKIP LOCKED skips    *)
(* only rows that a concurrent statement is about to make unclaimable, so  *)
(* a skip is the serial order in which that statement comes first.         *)
(***************************************************************************)
EXTENDS Integers, Sequences, FiniteSets

CONSTANTS
  Msg,           \* outbox messages, numbered in the order of created_at
  Replica,       \* processes that run the service
  Worker,        \* goroutines of one replica's pool
  QueueSize,     \* capacity of the pool's channel
  BatchSize,     \* limit of ClaimBatch
  MaxAttempts,   \* Poller.maxAttempts
  ReclaimAfter,  \* _reclaimAfter, in poll intervals
  Backoff,       \* Poller.backoff as a function of the attempts made
  DrainTimer,    \* TRUE: main's drain timeout bounds the job context
  KafkaEnabled,  \* TRUE: the Kafka producer publishes, FALSE: LogPublisher
  MaxFaults,     \* bound: crashes, store errors and expired drain timers
  MaxOverruns    \* bound: messages whose lock may expire under its owner

ASSUME OutboxAssumption ==
  /\ Msg \subseteq Nat \ {0}
  /\ IsFiniteSet(Msg)
  /\ QueueSize \in Nat \ {0}
  /\ BatchSize \in Nat \ {0}
  /\ MaxAttempts \in Nat \ {0}
  /\ ReclaimAfter \in Nat \ {0}
  /\ Backoff \in [1..MaxAttempts -> Nat]
  /\ DrainTimer \in BOOLEAN
  /\ KafkaEnabled \in BOOLEAN
  /\ MaxFaults \in Nat
  /\ MaxOverruns \in Nat

VARIABLES
  status,    \* processed_at: NULL when pending, else who wrote it
  attempts,  \* column attempts
  lockAge,   \* age of locked_at, NoLock when NULL
  retryIn,   \* time left until next_attempt_at
  due,       \* a tick waits in the poller's ticker channel
  batch,     \* claimed messages the poller has not submitted yet
  queue,     \* Pool.jobs
  worker,    \* what each goroutine of the pool is doing
  jobCtx,    \* the context given to jobs is still alive
  sent,      \* messages on the events topic, or logged
  parked,    \* messages on the dead letter topic
  failures,  \* history: deliveries of the message that returned an error
  overrun,   \* history: messages held past the age at which they expire
  faults     \* crashes, store errors and expired drain timers so far

rowVars  == <<status, attempts, lockAge, retryIn>>
poolVars == <<batch, queue, worker>>
netVars  == <<sent, parked>>
histVars == <<failures, overrun, faults>>
vars == <<rowVars, due, poolVars, jobCtx, netVars, histVars>>

NoLock == -1
NoMsg  == 0
Expired == ReclaimAfter + 1

\* A claimed message with the attempts column as RETURNING showed it.
Job  == [msg : Msg, seen : Nat]
Phase == {"idle", "produce", "dlq", "sent", "failed"}
Idle == [phase |-> "idle", msg |-> NoMsg, seen |-> 0]

Retired(m) == status[m] \in {"processed", "exhausted"}
Pending(m) == status[m] = "pending"

\* The claims a replica holds: in the poller's batch, in the channel of the
\* pool, in the hands of a goroutine.
Delivery(r, w) == [msg |-> worker[r][w].msg, seen |-> worker[r][w].seen]
Busy(r) == {w \in Worker : worker[r][w].phase # "idle"}
Jobs(r) ==
  batch[r] \cup {queue[r][i] : i \in DOMAIN queue[r]}
           \cup {Delivery(r, w) : w \in Busy(r)}

Holds(r, m) == \E j \in Jobs(r) : j.msg = m
Held(m) == \E r \in Replica : Holds(r, m)

-----------------------------------------------------------------------------

Init ==
  /\ status = [m \in Msg |-> "absent"]
  /\ attempts = [m \in Msg |-> 0]
  /\ lockAge = [m \in Msg |-> NoLock]
  /\ retryIn = [m \in Msg |-> 0]
  /\ due = [r \in Replica |-> FALSE]
  /\ batch = [r \in Replica |-> {}]
  /\ queue = [r \in Replica |-> <<>>]
  /\ worker = [r \in Replica |-> [w \in Worker |-> Idle]]
  /\ jobCtx = [r \in Replica |-> TRUE]
  /\ sent = {}
  /\ parked = {}
  /\ failures = [m \in Msg |-> 0]
  /\ overrun = {}
  /\ faults = 0

\* The transaction that called SaveTx commits: the row appears, with the
\* column defaults of the migrations.
SaveTx(m) ==
  /\ status[m] = "absent"
  /\ status' = [status EXCEPT ![m] = "pending"]
  /\ UNCHANGED <<attempts, lockAge, retryIn, due, poolVars, jobCtx, netVars,
                 histVars>>

\* A poll interval passes: locks age, backoffs run down, every ticker fires
\* (a tick that finds the channel full is dropped).
Tick ==
  LET late == {m \in Msg : lockAge[m] = ReclaimAfter /\ Held(m)}
  IN /\ Cardinality(overrun \cup late) <= MaxOverruns
     /\ overrun' = overrun \cup late
     /\ lockAge' = [m \in Msg |-> IF lockAge[m] \in 0..ReclaimAfter
                                  THEN lockAge[m] + 1 ELSE lockAge[m]]
     /\ retryIn' = [m \in Msg |-> IF retryIn[m] > 0 THEN retryIn[m] - 1 ELSE 0]
     /\ due' = [r \in Replica |-> TRUE]
     /\ UNCHANGED <<status, attempts, poolVars, jobCtx, netVars, failures,
                    faults>>

\* drainCtx is created when main starts the pool, so its timeout runs from
\* then on and, once it fires, every later job gets a dead context.
DrainTimeout(r) ==
  /\ DrainTimer
  /\ jobCtx[r]
  /\ faults < MaxFaults
  /\ faults' = faults + 1
  /\ jobCtx' = [jobCtx EXCEPT ![r] = FALSE]
  /\ UNCHANGED <<rowVars, due, poolVars, netVars, failures, overrun>>

-----------------------------------------------------------------------------
(* The poller                                                              *)

(* Mutants of Claimable: without the processed_at, the locked_at and the    *)
(* reclaim conditions.                                                     *)
ClaimableRetired(m) ==
  /\ status[m] # "absent" /\ attempts[m] < MaxAttempts
  /\ retryIn[m] = 0 /\ lockAge[m] \in {NoLock, Expired}
ClaimableLocked(m) ==
  /\ Pending(m) /\ attempts[m] < MaxAttempts /\ retryIn[m] = 0
ClaimableUnlocked(m) ==
  /\ Pending(m) /\ attempts[m] < MaxAttempts
  /\ retryIn[m] = 0 /\ lockAge[m] = NoLock

\* The WHERE clause of ClaimBatch.
Claimable(m) ==
  /\ Pending(m)
  /\ attempts[m] < MaxAttempts
  /\ retryIn[m] = 0
  /\ lockAge[m] \in {NoLock, Expired}

\* What ORDER BY created_at LIMIT selects: the oldest claimable rows.
Oldest(B) ==
  LET C == {m \in Msg : Claimable(m)}
  IN /\ B \subseteq C
     /\ \A m \in B, n \in C \ B : m < n
     /\ Cardinality(B) <= BatchSize
     /\ B # C => Cardinality(B) = BatchSize

\* Mutant of Lock: a bare SELECT ... FOR UPDATE, whose locks end with it.
LockReleased(B) == B \in SUBSET Msg /\ UNCHANGED rowVars

Lock(B) ==
  /\ lockAge' = [m \in Msg |-> IF m \in B THEN 0 ELSE lockAge[m]]
  /\ UNCHANGED <<status, attempts, retryIn>>

\* Run takes the tick and poll claims a batch; RETURNING promises no order.
ClaimBatch(r) ==
  /\ due[r]
  /\ batch[r] = {}
  /\ due' = [due EXCEPT ![r] = FALSE]
  /\ \E B \in SUBSET Msg :
       /\ Oldest(B)
       /\ Lock(B)
       /\ batch' = [batch EXCEPT ![r] =
                      {[msg |-> m, seen |-> attempts[m]] : m \in B}]
  /\ UNCHANGED <<queue, worker, jobCtx, netVars, histVars>>

\* ClaimBatch returns an error: either the statement did not run, or its
\* result was lost after the rows were locked.
ClaimError(r) ==
  /\ due[r]
  /\ batch[r] = {}
  /\ faults < MaxFaults
  /\ faults' = faults + 1
  /\ due' = [due EXCEPT ![r] = FALSE]
  /\ \E B \in SUBSET Msg : (B = {} \/ Oldest(B)) /\ Lock(B)
  /\ UNCHANGED <<poolVars, jobCtx, netVars, failures, overrun>>

Room(r) == Len(queue[r]) < QueueSize

\* Submit finds room in the channel.
Submit(r) ==
  /\ Room(r)
  /\ \E j \in batch[r] :
       /\ batch' = [batch EXCEPT ![r] = @ \ {j}]
       /\ queue' = [queue EXCEPT ![r] = Append(@, j)]
  /\ UNCHANGED <<rowVars, due, worker, jobCtx, netVars, histVars>>

\* Submit returns ErrPoolFull: poll gives up the rest of its batch, whose rows
\* stay locked.
PoolFull(r) ==
  /\ batch[r] # {}
  /\ ~Room(r)
  /\ batch' = [batch EXCEPT ![r] = {}]
  /\ UNCHANGED <<rowVars, due, queue, worker, jobCtx, netVars, histVars>>

-----------------------------------------------------------------------------
(* The worker pool and the delivery it runs                                *)

Move(r, w, phase) ==
  worker' = [worker EXCEPT ![r][w] =
               [phase |-> phase, msg |-> @.msg, seen |-> @.seen]]
Finish(r, w) == worker' = [worker EXCEPT ![r][w] = Idle]

\* A goroutine receives the next job from the channel.
Take(r, w) ==
  /\ worker[r][w].phase = "idle"
  /\ queue[r] # <<>>
  /\ worker' = [worker EXCEPT ![r][w] =
                  [phase |-> "produce", msg |-> Head(queue[r]).msg,
                   seen |-> Head(queue[r]).seen]]
  /\ queue' = [queue EXCEPT ![r] = Tail(@)]
  /\ UNCHANGED <<rowVars, due, batch, jobCtx, netVars, histVars>>

\* LogPublisher takes every message, with a dead context too; a producer needs
\* a live one.
Publishable(r) == KafkaEnabled => jobCtx[r]

\* ProduceSync to the events topic is acknowledged, or the message is logged:
\* Publish returns nil.
ProduceAck(r, w) ==
  /\ worker[r][w].phase = "produce"
  /\ Publishable(r)
  /\ sent' = sent \cup {worker[r][w].msg}
  /\ Move(r, w, "sent")
  /\ UNCHANGED <<rowVars, due, batch, queue, jobCtx, parked, histVars>>

\* What a topic can hold after the client gave up on the record of a goroutine:
\* the broker may have taken it all the same (the acknowledgement was lost or
\* came too late) unless the context was dead from the start.
AfterError(topic, r, w) ==
  IF jobCtx[r] THEN {topic, topic \cup {worker[r][w].msg}} ELSE {topic}

\* ProduceSync to the events topic errs, and Publish turns to the other topic.
ProduceErr(r, w) ==
  /\ KafkaEnabled
  /\ worker[r][w].phase = "produce"
  /\ sent' \in AfterError(sent, r, w)
  /\ Move(r, w, "dlq")
  /\ UNCHANGED <<rowVars, due, batch, queue, jobCtx, parked, histVars>>

\* The record is on the dead letter topic: Publish returns nil.
DLQAck(r, w) ==
  /\ worker[r][w].phase = "dlq"
  /\ jobCtx[r]
  /\ parked' = parked \cup {worker[r][w].msg}
  /\ Move(r, w, "sent")
  /\ UNCHANGED <<rowVars, due, batch, queue, jobCtx, sent, histVars>>

\* Mutant of DLQErr: the writer logs the error and returns nil.
DLQErrSwallowed(r, w) ==
  /\ worker[r][w].phase = "dlq"
  /\ Move(r, w, "sent")
  /\ UNCHANGED <<rowVars, due, batch, queue, jobCtx, netVars, histVars>>

\* Neither topic acknowledged the record: Publish returns an error, whether or
\* not the record is on one of them or on both.
DLQErr(r, w) ==
  LET m == worker[r][w].msg
  IN /\ worker[r][w].phase = "dlq"
     /\ parked' \in AfterError(parked, r, w)
     /\ failures' = [failures EXCEPT ![m] = IF @ < MaxAttempts THEN @ + 1 ELSE @]
     /\ Move(r, w, "failed")
     /\ UNCHANGED <<rowVars, due, batch, queue, jobCtx, sent, overrun, faults>>

MarkProcessed(r, w) ==
  LET m == worker[r][w].msg
  IN /\ worker[r][w].phase = "sent"
     /\ jobCtx[r]
     /\ status' = [status EXCEPT ![m] = "processed"]
     /\ Finish(r, w)
     /\ UNCHANGED <<attempts, lockAge, retryIn, due, batch, queue, jobCtx,
                    netVars, histVars>>

\* Mutants of GivesUp: one attempt too late, one too early.
GivesUpLate(n)  == n > MaxAttempts
GivesUpEarly(n) == n + 1 >= MaxAttempts

\* deliver's choice between MarkFailed and MarkExhausted.
GivesUp(n) == n >= MaxAttempts

\* attempts + 1 is computed twice: by deliver from the claimed snapshot, to
\* choose the statement and the backoff, and by the statement from the row.
MarkFailed(r, w) ==
  LET m == worker[r][w].msg
      n == worker[r][w].seen + 1
  IN /\ worker[r][w].phase = "failed"
     /\ ~GivesUp(n)
     /\ jobCtx[r]
     /\ attempts' = [attempts EXCEPT ![m] = @ + 1]
     /\ lockAge' = [lockAge EXCEPT ![m] = NoLock]
     /\ retryIn' = [retryIn EXCEPT ![m] = Backoff[n]]
     /\ Finish(r, w)
     /\ UNCHANGED <<status, due, batch, queue, jobCtx, netVars, histVars>>

MarkExhausted(r, w) ==
  LET m == worker[r][w].msg
  IN /\ worker[r][w].phase = "failed"
     /\ GivesUp(worker[r][w].seen + 1)
     /\ jobCtx[r]
     /\ attempts' = [attempts EXCEPT ![m] = @ + 1]
     /\ lockAge' = [lockAge EXCEPT ![m] = NoLock]
     /\ status' = [status EXCEPT ![m] = "exhausted"]
     /\ Finish(r, w)
     /\ UNCHANGED <<retryIn, due, batch, queue, jobCtx, netVars, histVars>>

\* The statement that records the outcome fails; the pool only logs the
\* error.  A dead context makes it fail every time.
MarkError(r, w) ==
  /\ worker[r][w].phase \in {"sent", "failed"}
  /\ IF jobCtx[r] THEN faults < MaxFaults /\ faults' = faults + 1
                  ELSE UNCHANGED faults
  /\ Finish(r, w)
  /\ UNCHANGED <<rowVars, due, batch, queue, jobCtx, netVars, failures, overrun>>

\* The process dies and is started again: what it held in memory is gone.
Crash(r) ==
  /\ faults < MaxFaults
  /\ faults' = faults + 1
  /\ due' = [due EXCEPT ![r] = FALSE]
  /\ batch' = [batch EXCEPT ![r] = {}]
  /\ queue' = [queue EXCEPT ![r] = <<>>]
  /\ worker' = [worker EXCEPT ![r] = [w \in Worker |-> Idle]]
  /\ jobCtx' = [jobCtx EXCEPT ![r] = TRUE]
  /\ UNCHANGED <<rowVars, netVars, failures, overrun>>

-----------------------------------------------------------------------------

Poll(r) == ClaimBatch(r) \/ ClaimError(r)
Enqueue(r) == Submit(r) \/ PoolFull(r)
Publish(r, w) ==
  ProduceAck(r, w) \/ ProduceErr(r, w) \/ DLQAck(r, w) \/ DLQErr(r, w)
Record(r, w) ==
  \/ MarkProcessed(r, w) \/ MarkFailed(r, w) \/ MarkExhausted(r, w)
  \/ MarkError(r, w)
RunJob(r, w) == Take(r, w) \/ Publish(r, w) \/ Record(r, w)

Next ==
  \/ \E m \in Msg : SaveTx(m)
  \/ Tick
  \/ \E r \in Replica :
       \/ DrainTimeout(r) \/ Poll(r) \/ Enqueue(r) \/ Crash(r)
       \/ \E w \in Worker : RunJob(r, w)

\* Time passes, the runtime schedules every goroutine, and every call to the
\* broker or the database returns (the clients bound their retries).
Fairness ==
  /\ WF_vars(Tick)
  /\ \A r \in Replica : WF_vars(Poll(r)) /\ WF_vars(Enqueue(r))
  /\ \A r \in Replica, w \in Worker : WF_vars(RunJob(r, w))

Spec == Init /\ [][Next]_vars
FairSpec == Spec /\ Fairness

-----------------------------------------------------------------------------
(* Properties                                                              *)

RowType ==
  /\ status \in [Msg -> {"absent", "pending", "processed", "exhausted"}]
  /\ attempts \in [Msg -> Nat]
  /\ lockAge \in [Msg -> {NoLock} \cup (0..Expired)]
  /\ retryIn \in [Msg -> Nat]

PoolType ==
  /\ batch \in [Replica -> SUBSET Job]
  /\ queue \in [Replica -> Seq(Job)]
  /\ \A r \in Replica : Len(queue[r]) <= QueueSize
  /\ worker \in [Replica -> [Worker ->
                   [phase : Phase, msg : Msg \cup {NoMsg}, seen : Nat]]]
  /\ \A r \in Replica, w \in Worker :
       worker[r][w].msg = NoMsg <=> worker[r][w].phase = "idle"

EnvType ==
  /\ due \in [Replica -> BOOLEAN]
  /\ jobCtx \in [Replica -> BOOLEAN]
  /\ sent \in SUBSET Msg
  /\ parked \in SUBSET Msg
  /\ failures \in [Msg -> Nat]
  /\ overrun \in SUBSET Msg
  /\ faults \in Nat

\* Every variable has its type; a goroutine holds a message exactly when it is
\* not idle, and no channel holds more than its capacity.
TypeOK == RowType /\ PoolType /\ EnvType

InBatch(r, m)  == \E j \in batch[r] : j.msg = m
InQueue(r, m)  == \E i \in DOMAIN queue[r] : queue[r][i].msg = m
InWorker(r, m) == \E w \in Worker : worker[r][w].msg = m

OnePlace(r, m) ==
  /\ InBatch(r, m) => ~InQueue(r, m) /\ ~InWorker(r, m)
  /\ InQueue(r, m) => ~InWorker(r, m)
  /\ \A j, k \in batch[r] : j.msg = m /\ k.msg = m => j = k
  /\ \A i, k \in DOMAIN queue[r] :
       queue[r][i].msg = m /\ queue[r][k].msg = m => i = k
  /\ \A v, w \in Worker :
       worker[r][v].msg = m /\ worker[r][w].msg = m => v = w

\* Two places never hold the same message: no pollers of two replicas, no two
\* ticks of one poller and no two goroutines deliver it at the same time,
\* whatever crashes and store errors do.  A job that outlives _reclaimAfter
\* (poller.go:13-18 says none does) is the only exception.
SoleOwner ==
  \A m \in Msg \ overrun :
    /\ \A r, s \in Replica : Holds(r, m) /\ Holds(s, m) => r = s
    /\ \A r \in Replica : OnePlace(r, m)

\* deliver decides on the snapshot RETURNING gave it, long after the claim: the
\* snapshot still shows the row's attempts, and the row is still pending,
\* locked and out of its backoff, whenever a poller or a goroutine holds it.
SnapshotIsCurrent ==
  \A r \in Replica : \A j \in Jobs(r) : j.msg \notin overrun =>
    /\ j.seen = attempts[j.msg]
    /\ Pending(j.msg)
    /\ attempts[j.msg] < MaxAttempts
    /\ lockAge[j.msg] \in 0..ReclaimAfter
    /\ retryIn[j.msg] = 0

\* A pending row with all its attempts used is one that no poller claims and
\* that nothing reports, although poller.go:104 calls MarkExhausted the only
\* place a message stops being retried.  It takes a job that outlived the
\* reclaim window (two jobs of one snapshot then both choose MarkFailed), and
\* even then the message has failed maxAttempts times.
OnlyOverrunsStrand ==
  \A m \in Msg : Pending(m) /\ attempts[m] >= MaxAttempts =>
    m \in overrun /\ failures[m] >= MaxAttempts

\* No message leaves the claim query unsent: processed_at is written only
\* after a topic took the record, or when the row has used every attempt.
\* It holds even when several goroutines deliver the same message.
NoSilentLoss ==
  \A m \in Msg : Retired(m) =>
    m \in sent \cup parked \/ (status[m] = "exhausted" /\ attempts[m] >= MaxAttempts)

\* The attempt counter is written from two places that do not lock the row,
\* and still counts only real failures: a message is given up only after
\* maxAttempts deliveries that returned an error.
ExhaustionEarned ==
  \A m \in Msg : status[m] = "exhausted" => failures[m] >= MaxAttempts

\* The step rewrites the row of m or brings its message to a topic.
Touched(m) ==
  \/ status'[m] # status[m]
  \/ attempts'[m] # attempts[m]
  \/ m \in sent' \ sent
  \/ m \in parked' \ parked

\* A goroutine that had the message makes the step.
HolderMoves(m) ==
  \E r \in Replica, w \in Worker :
    worker[r][w].msg = m /\ worker'[r][w] # worker[r][w]

\* MarkProcessed, MarkFailed and MarkExhausted update by id only
\* (postgres.go:86-124), and a retired row is meant to be an audit record.  A
\* late job does rewrite it or sends its message again, but nothing else does:
\* the goroutine that makes the step still had the message, and the message is
\* one whose lock expired under its owner.  And whatever late jobs write, the
\* row stays out of the claim query: it is never pending and never claimed
\* again, by any replica.
OnlyLateJobsTouch ==
  [][\A m \in Msg : Retired(m) =>
       /\ Retired(m)'
       /\ \A r \in Replica : Holds(r, m)' => Holds(r, m)
       /\ Touched(m) => m \in overrun /\ HolderMoves(m)]_vars

\* At-least-once: with a job context that stays alive, every saved message is
\* delivered or given up in the end, through crashes, lost claims, a full pool
\* and statements that fail.  Msg is finite, a message is saved once and a
\* retired one stays retired, so that the backlog is empty again and again
\* exactly when every pending message is retired (or overrun) some day.
EventuallyRetired ==
  []<>(\A m \in Msg : Pending(m) => m \in overrun)
-----------------------------------------------------------------------------
(* What comments and documents of the repository say and the code does not *)

\* "next tick will retry unsubmitted messages" (poller.go:91): a pending row
\* that nobody holds and whose backoff is over can be claimed at once.
NextTickRetries ==
  \A m \in Msg :
    Pending(m) /\ ~Held(m) /\ retryIn[m] = 0 /\ attempts[m] < MaxAttempts
      => Claimable(m)

\* "The only place a message stops being retried, so it is loud"
\* (poller.go:104), said of every message and not only of those whose jobs
\* finish inside the reclaim window.
StopsOnlyLoudly ==
  \A m \in Msg : Pending(m) /\ ~Held(m) => attempts[m] < MaxAttempts

\* MarkExhausted retires a row because "the message was never delivered"
\* (postgres.go:113-114).
ExhaustedNeverDelivered ==
  \A m \in Msg : status[m] = "exhausted" => m \notin sent

\* "Uses AggregateID as the Kafka key to guarantee ordering per aggregate"
\* (producer.go:53), for messages of one aggregate: a message reaches the topic
\* only when every older saved one has reached a topic or was given up.
PerAggregateOrder ==
  [][\A m, n \in Msg : m < n /\ Pending(m) /\ n \in (sent' \ sent) =>
       m \in sent \cup parked]_vars
=============================================================================
