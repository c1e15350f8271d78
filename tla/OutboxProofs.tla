---------------------------- MODULE OutboxProofs ----------------------------
(* Theorems about Outbox, for every value of its constants.                *)
EXTENDS OutboxContract, FiniteSetTheorems, TLAPS

-----------------------------------------------------------------------------
(* Types                                                                   *)

LEMMA InitType == Init => TypeOK
<1> USE DEF Init
<1>1. Init => RowType
  BY OutboxAssumption DEF RowType, NoLock
<1>2. Init => PoolType
  BY OutboxAssumption DEF PoolType, Idle, Phase, NoMsg
<1>3. Init => EnvType
  BY DEF EnvType
<1>. QED
  BY <1>1, <1>2, <1>3 DEF TypeOK

\* A goroutine that is not idle holds a message and the snapshot it came with.
LEMMA BusyType ==
  ASSUME PoolType, NEW r \in Replica, NEW w \in Worker,
         worker[r][w].phase # "idle"
  PROVE  worker[r][w].msg \in Msg /\ worker[r][w].seen \in Nat
  BY DEF PoolType

LEMMA NextRowType == TypeOK /\ [Next]_vars => RowType'
<1> SUFFICES ASSUME TypeOK, [Next]_vars PROVE RowType'
  OBVIOUS
<1> USE OutboxAssumption DEF TypeOK, RowType, NoLock, Expired
<1>1. ASSUME UNCHANGED rowVars PROVE RowType'
  BY <1>1 DEF rowVars
<1>2. ASSUME NEW m \in Msg, SaveTx(m) PROVE RowType'
  BY <1>2 DEF SaveTx
<1>3. CASE Tick
  <2>1. lockAge' \in [Msg -> {NoLock} \cup (0..Expired)]
    <3>1. \A m \in Msg : lockAge[m] \in 0..ReclaimAfter
                           => lockAge[m] + 1 \in 0..Expired
      OBVIOUS
    <3>. QED
      BY <1>3, <3>1 DEF Tick
  <2>2. retryIn' \in [Msg -> Nat]
    <3>1. \A m \in Msg : retryIn[m] > 0 => retryIn[m] - 1 \in Nat
      OBVIOUS
    <3>. QED
      BY <1>3, <3>1 DEF Tick
  <2>. QED
    BY <1>3, <2>1, <2>2 DEF Tick
<1>4. ASSUME NEW B \in SUBSET Msg, Lock(B) PROVE RowType'
  BY <1>4 DEF Lock
<1>5. ASSUME NEW r \in Replica, Poll(r) PROVE RowType'
  <2>1. \E B \in SUBSET Msg : Lock(B)
    BY <1>5 DEF Poll, ClaimBatch, ClaimError
  <2>. QED
    BY ONLY <1>4, <2>1
<1>6. ASSUME NEW r \in Replica, NEW w \in Worker, MarkProcessed(r, w)
      PROVE RowType'
  BY <1>6 DEF MarkProcessed
<1>7. ASSUME NEW r \in Replica, NEW w \in Worker, MarkFailed(r, w)
      PROVE RowType'
  <2>1. worker[r][w].msg \in Msg /\ worker[r][w].seen + 1 \in 1..MaxAttempts
    BY <1>7, BusyType DEF MarkFailed, GivesUp
  <2>2. attempts' \in [Msg -> Nat]
    <3>1. PICK m \in Msg : worker[r][w].msg = m
      BY <2>1
    <3>2. attempts' = [attempts EXCEPT ![m] = @ + 1]
      BY <1>7, <3>1 DEF MarkFailed
    <3>. QED
      BY <3>2
  <2>3. lockAge' \in [Msg -> {NoLock} \cup (0..Expired)]
    BY <1>7 DEF MarkFailed
  <2>4. retryIn' \in [Msg -> Nat]
    BY <1>7, <2>1 DEF MarkFailed
  <2>. QED
    BY <1>7, <2>2, <2>3, <2>4 DEF MarkFailed
<1>8. ASSUME NEW r \in Replica, NEW w \in Worker, MarkExhausted(r, w)
      PROVE RowType'
  <2>1. worker[r][w].msg \in Msg
    BY <1>8, BusyType DEF MarkExhausted
  <2>2. attempts' \in [Msg -> Nat]
    <3>1. PICK m \in Msg : worker[r][w].msg = m
      BY <2>1
    <3>2. attempts' = [attempts EXCEPT ![m] = @ + 1]
      BY <1>8, <3>1 DEF MarkExhausted
    <3>. QED
      BY <3>2
  <2>3. lockAge' \in [Msg -> {NoLock} \cup (0..Expired)]
    BY <1>8 DEF MarkExhausted
  <2>4. status' \in [Msg -> {"absent", "pending", "processed", "exhausted"}]
    BY <1>8 DEF MarkExhausted
  <2>. QED
    BY <1>8, <2>2, <2>3, <2>4 DEF MarkExhausted
<1>9. ASSUME NEW r \in Replica, DrainTimeout(r) \/ Enqueue(r) \/ Crash(r)
      PROVE RowType'
  BY <1>1, <1>9 DEF DrainTimeout, Enqueue, Submit, PoolFull, Crash
<1>10. ASSUME NEW r \in Replica, NEW w \in Worker,
              Take(r, w) \/ Publish(r, w) \/ MarkError(r, w)
       PROVE RowType'
  BY <1>1, <1>10
     DEF Take, Publish, ProduceAck, ProduceErr, DLQAck, DLQErr, MarkError
<1>11. CASE UNCHANGED vars
  BY <1>1, <1>11 DEF vars
<1>. QED
  BY <1>2, <1>3, <1>5, <1>6, <1>7, <1>8, <1>9, <1>10, <1>11
     DEF Next, RunJob, Record

LEMMA MoveType ==
  ASSUME PoolType, NEW r \in Replica, NEW w \in Worker, NEW p \in Phase,
         p # "idle", worker[r][w].phase # "idle", Move(r, w, p),
         UNCHANGED <<batch, queue>>
  PROVE  PoolType'
  BY DEF PoolType, Move

LEMMA FinishType ==
  ASSUME PoolType, NEW r \in Replica, NEW w \in Worker, Finish(r, w),
         UNCHANGED <<batch, queue>>
  PROVE  PoolType'
  BY DEF PoolType, Finish, Idle, Phase, NoMsg

LEMMA NextPoolType == TypeOK /\ [Next]_vars => PoolType'
<1> SUFFICES ASSUME TypeOK, [Next]_vars PROVE PoolType'
  OBVIOUS
<1> USE OutboxAssumption DEF TypeOK
<1>1. ASSUME UNCHANGED poolVars PROVE PoolType'
  BY <1>1 DEF poolVars, PoolType
<1>2. ASSUME NEW r \in Replica, ClaimBatch(r) PROVE PoolType'
  <2>1. batch' \in [Replica -> SUBSET Job]
    BY <1>2 DEF ClaimBatch, PoolType, RowType, Job
  <2>. QED
    BY <1>2, <2>1 DEF ClaimBatch, PoolType
<1>3. ASSUME NEW r \in Replica, Submit(r) PROVE PoolType'
  BY <1>3 DEF Submit, Room, PoolType
<1>4. ASSUME NEW r \in Replica, PoolFull(r) PROVE PoolType'
  BY <1>4 DEF PoolFull, PoolType
<1>5. ASSUME NEW r \in Replica, Crash(r) PROVE PoolType'
  BY <1>5 DEF Crash, PoolType, Idle, Phase, NoMsg
<1>6. ASSUME NEW r \in Replica, NEW w \in Worker, Take(r, w) PROVE PoolType'
  <2>1. queue[r] \in Seq(Job) /\ queue[r] # <<>>
    BY <1>6 DEF Take, PoolType
  <2>2. /\ Head(queue[r]) \in Job
        /\ Tail(queue[r]) \in Seq(Job)
        /\ Len(Tail(queue[r])) = Len(queue[r]) - 1
    BY <2>1
  <2>3. /\ Head(queue[r]).msg \in Msg
        /\ Head(queue[r]).seen \in Nat
    BY <2>2 DEF Job
  <2>4. /\ queue' \in [Replica -> Seq(Job)]
        /\ \A s \in Replica : Len(queue'[s]) <= QueueSize
    BY <1>6, <2>1, <2>2 DEF Take, PoolType
  <2>5. worker' \in [Replica -> [Worker ->
                      [phase : Phase, msg : Msg \cup {NoMsg}, seen : Nat]]]
    BY <1>6, <2>3 DEF Take, PoolType, Phase
  <2>6. \A s \in Replica, v \in Worker :
          worker'[s][v].msg = NoMsg <=> worker'[s][v].phase = "idle"
    BY <1>6, <2>3 DEF Take, PoolType, NoMsg
  <2>. QED
    BY <1>6, <2>4, <2>5, <2>6 DEF Take, PoolType
<1>7. ASSUME NEW r \in Replica, NEW w \in Worker, Publish(r, w) PROVE PoolType'
  BY <1>7, MoveType
     DEF Publish, ProduceAck, ProduceErr, DLQAck, DLQErr, Phase
<1>8. ASSUME NEW r \in Replica, NEW w \in Worker, Record(r, w) PROVE PoolType'
  BY <1>8, FinishType
     DEF Record, MarkProcessed, MarkFailed, MarkExhausted, MarkError
<1>9. CASE \/ \E m \in Msg : SaveTx(m)
           \/ Tick
           \/ \E r \in Replica : DrainTimeout(r) \/ ClaimError(r)
           \/ UNCHANGED vars
  BY <1>1, <1>9 DEF SaveTx, Tick, DrainTimeout, ClaimError, vars
<1>. QED
  BY <1>2, <1>3, <1>4, <1>5, <1>6, <1>7, <1>8, <1>9
     DEF Next, Poll, Enqueue, RunJob

LEMMA NextEnvType == TypeOK /\ [Next]_vars => EnvType'
<1> SUFFICES ASSUME TypeOK, [Next]_vars PROVE EnvType'
  OBVIOUS
<1> USE OutboxAssumption DEF TypeOK, EnvType
<1>1. ASSUME NEW m \in Msg, SaveTx(m) PROVE EnvType'
  BY <1>1 DEF SaveTx, netVars, histVars
<1>2. CASE Tick
  BY <1>2 DEF Tick, netVars
<1>3. ASSUME NEW r \in Replica,
             DrainTimeout(r) \/ Poll(r) \/ Enqueue(r) \/ Crash(r)
      PROVE EnvType'
  <2>1. CASE Enqueue(r)
    BY <2>1 DEF Enqueue, Submit, PoolFull, netVars, histVars
  <2>2. CASE ClaimBatch(r)
    BY <2>2 DEF ClaimBatch, netVars, histVars
  <2>3. CASE ClaimError(r)
    BY <2>3 DEF ClaimError, netVars
  <2>4. CASE Crash(r)
    BY <2>4 DEF Crash, netVars
  <2>5. CASE DrainTimeout(r)
    BY <2>5 DEF DrainTimeout, netVars
  <2>. QED
    BY <1>3, <2>1, <2>2, <2>3, <2>4, <2>5 DEF Poll
<1>4. ASSUME NEW r \in Replica, NEW w \in Worker, Take(r, w) PROVE EnvType'
  BY <1>4 DEF Take, netVars, histVars
<1>5. ASSUME NEW r \in Replica, NEW w \in Worker, Publish(r, w)
      PROVE EnvType'
  <2>1. worker[r][w].msg \in Msg
    BY <1>5, BusyType DEF Publish, ProduceAck, ProduceErr, DLQAck, DLQErr
  <2>2. CASE ProduceAck(r, w)
    BY <2>1, <2>2 DEF ProduceAck, histVars
  <2>3. CASE ProduceErr(r, w)
    BY <2>1, <2>3 DEF ProduceErr, AfterError, histVars
  <2>4. CASE DLQAck(r, w)
    BY <2>1, <2>4 DEF DLQAck, histVars
  <2>5. CASE DLQErr(r, w)
    <3>1. failures' \in [Msg -> Nat]
      <4>1. PICK m \in Msg : worker[r][w].msg = m
        BY <2>1
      <4>2. failures' = [failures EXCEPT ![m] = IF @ < MaxAttempts
                                               THEN @ + 1 ELSE @]
        BY <2>5, <4>1 DEF DLQErr
      <4>. QED
        BY <4>2
    <3>2. parked' \in SUBSET Msg
      BY <2>1, <2>5 DEF DLQErr, AfterError
    <3>. QED
      BY <2>5, <3>1, <3>2 DEF DLQErr
  <2>. QED
    BY <1>5, <2>2, <2>3, <2>4, <2>5 DEF Publish
<1>6. ASSUME NEW r \in Replica, NEW w \in Worker, Record(r, w) PROVE EnvType'
  <2>1. faults' \in Nat
    BY <1>6 DEF Record, MarkProcessed, MarkFailed, MarkExhausted, MarkError,
                histVars
  <2>2. UNCHANGED <<due, jobCtx, netVars, failures, overrun>>
    BY <1>6 DEF Record, MarkProcessed, MarkFailed, MarkExhausted, MarkError,
                histVars
  <2>. QED
    BY <2>1, <2>2 DEF netVars
<1>7. CASE UNCHANGED vars
  BY <1>7 DEF vars, netVars, histVars
<1>. QED
  BY <1>1, <1>2, <1>3, <1>4, <1>5, <1>6, <1>7 DEF Next, RunJob

\* Every variable of the outbox keeps its type.
THEOREM TypeCorrect == Spec => []TypeOK
<1>1. TypeOK /\ [Next]_vars => TypeOK'
  BY NextRowType, NextPoolType, NextEnvType DEF TypeOK
<1>. QED
  BY InitType, <1>1, PTL DEF Spec

-----------------------------------------------------------------------------
(* No message is retired unsent                                            *)

LEMMA OverrunGrows == [Next]_vars => overrun \subseteq overrun'
<1>1. ASSUME NEW r \in Replica,
             DrainTimeout(r) \/ Poll(r) \/ Enqueue(r) \/ Crash(r)
      PROVE  UNCHANGED overrun
  BY <1>1 DEF DrainTimeout, Poll, ClaimBatch, ClaimError, Enqueue, Submit,
     PoolFull, Crash, histVars
<1>2. ASSUME NEW r \in Replica, NEW w \in Worker, Take(r, w) \/ Publish(r, w)
      PROVE  UNCHANGED overrun
  BY <1>2 DEF Take, Publish, ProduceAck, ProduceErr, DLQAck, DLQErr, histVars
<1>3. ASSUME NEW r \in Replica, NEW w \in Worker, Record(r, w)
      PROVE  UNCHANGED overrun
  BY <1>3 DEF Record, MarkProcessed, MarkFailed, MarkExhausted, MarkError,
     histVars
<1>4. (\E m \in Msg : SaveTx(m)) \/ UNCHANGED vars => UNCHANGED overrun
  BY DEF SaveTx, vars, histVars
<1>5. Tick => overrun \subseteq overrun'
  BY DEF Tick
<1>. QED
  BY <1>1, <1>2, <1>3, <1>4, <1>5 DEF Next, RunJob

\* The attempts column never goes down.
LEMMA AttemptsGrow ==
  ASSUME TypeOK, [Next]_vars
  PROVE  \A m \in Msg : attempts[m] <= attempts'[m] /\ attempts'[m] \in Nat
<1> USE DEF TypeOK, RowType
<1>1. ASSUME UNCHANGED attempts
      PROVE  \A m \in Msg : attempts[m] <= attempts'[m] /\ attempts'[m] \in Nat
  BY <1>1
<1>2. ASSUME NEW r \in Replica, NEW w \in Worker,
             MarkFailed(r, w) \/ MarkExhausted(r, w)
      PROVE  \A m \in Msg : attempts[m] <= attempts'[m] /\ attempts'[m] \in Nat
  <2>1. PICK k \in Msg : worker[r][w].msg = k
    BY <1>2, BusyType DEF MarkFailed, MarkExhausted
  <2>2. attempts' = [attempts EXCEPT ![k] = @ + 1]
    BY <1>2, <2>1 DEF MarkFailed, MarkExhausted
  <2>. QED
    BY <2>2
<1>3. CASE \/ \E m \in Msg : SaveTx(m)
           \/ Tick
           \/ \E r \in Replica :
                DrainTimeout(r) \/ Poll(r) \/ Enqueue(r) \/ Crash(r)
           \/ UNCHANGED vars
  BY <1>1, <1>3 DEF SaveTx, Tick, DrainTimeout, Poll, ClaimBatch, ClaimError,
     Lock, Enqueue, Submit, PoolFull, Crash, vars, rowVars
<1>4. ASSUME NEW r \in Replica, NEW w \in Worker,
             \/ Take(r, w) \/ Publish(r, w)
             \/ MarkProcessed(r, w) \/ MarkError(r, w)
      PROVE  UNCHANGED attempts
  BY <1>4 DEF Take, Publish, ProduceAck, ProduceErr, DLQAck, DLQErr,
     MarkProcessed, MarkError, rowVars
<1>. QED
  BY <1>1, <1>2, <1>3, <1>4 DEF Next, RunJob, Record

-----------------------------------------------------------------------------
(* Where the jobs of a replica come from                                   *)

LEMMA JobsType == ASSUME PoolType, NEW r \in Replica PROVE Jobs(r) \subseteq Job
<1>1. \A i \in DOMAIN queue[r] : queue[r][i] \in Job
  BY DEF PoolType
<1>2. \A w \in Busy(r) : Delivery(r, w) \in Job
  BY BusyType DEF Busy, Delivery, Job
<1>. QED
  BY <1>1, <1>2 DEF PoolType, Jobs

\* Replica r claims j in this step.
Claimed(r, j) ==
  /\ ClaimBatch(r)
  /\ j \in Job
  /\ Claimable(j.msg)
  /\ j.seen = attempts[j.msg]
  /\ lockAge'[j.msg] = 0
  /\ UNCHANGED <<status, attempts, retryIn, overrun>>

\* Moving a job between the poller, the channel and the goroutines makes none.
LEMMA JobsIdle ==
  ASSUME PoolType, NEW r \in Replica, Submit(r) \/ PoolFull(r) \/ Crash(r),
         NEW s \in Replica
  PROVE  Jobs(s)' \subseteq Jobs(s)
<1> USE DEF Jobs, PoolType
<1>1. CASE Submit(r)
  <2>1. PICK j \in batch[r] :
          /\ batch' = [batch EXCEPT ![r] = @ \ {j}]
          /\ queue' = [queue EXCEPT ![r] = Append(@, j)]
    BY <1>1 DEF Submit
  <2>2. \A i \in DOMAIN queue'[s] :
          queue'[s][i] \in batch[s] \cup {queue[s][k] : k \in DOMAIN queue[s]}
    BY <2>1
  <2>3. batch'[s] \subseteq batch[s] /\ UNCHANGED worker
    BY <1>1, <2>1 DEF Submit
  <2>. QED
    BY <2>2, <2>3 DEF Busy, Delivery
<1>2. CASE PoolFull(r)
  BY <1>2 DEF PoolFull, Busy, Delivery
<1>3. CASE Crash(r)
  <2>1. CASE s = r
    BY <1>3, <2>1 DEF Crash, Busy, Idle
  <2>2. CASE s # r
    BY <1>3, <2>2 DEF Crash, Busy, Delivery
  <2>. QED
    BY <2>1, <2>2
<1>. QED
  BY <1>1, <1>2, <1>3

LEMMA JobsMove ==
  ASSUME PoolType, NEW r \in Replica, NEW w \in Worker, RunJob(r, w),
         NEW s \in Replica
  PROVE  Jobs(s)' \subseteq Jobs(s)
<1>1. CASE Take(r, w)
  <2>1. /\ queue[r] # <<>>
        /\ queue[r] \in Seq(Job)
        /\ Head(queue[r]) \in Job
        /\ Head(queue[r]) = queue[r][1]
        /\ 1 \in DOMAIN queue[r]
    BY <1>1 DEF Take, PoolType
  <2>2. \A i \in DOMAIN queue'[s] : \E k \in DOMAIN queue[s] :
          queue'[s][i] = queue[s][k]
    <3>1. CASE s = r
      <4>1. queue'[s] = Tail(queue[r])
        BY <1>1, <3>1 DEF Take, PoolType
      <4>. QED
        BY <2>1, <3>1, <4>1
    <3>2. CASE s # r
      BY <1>1, <3>2 DEF Take, PoolType
    <3>. QED
      BY <3>1, <3>2
  <2>3. \A v \in Worker : worker'[s][v] # worker[s][v] =>
          s = r /\ v = w
    BY <1>1 DEF Take, PoolType
  <2>4. s = r => Delivery(s, w)' = Head(queue[s])
    <3>1. worker'[r][w] = [phase |-> "produce", msg |-> Head(queue[r]).msg,
                           seen |-> Head(queue[r]).seen]
      BY <1>1 DEF Take, PoolType
    <3>. QED
      BY <2>1, <3>1 DEF Delivery, Job
  <2>5. \A v \in Busy(s)' : Delivery(s, v)' \in Jobs(s)
    <3> SUFFICES ASSUME NEW v \in Busy(s)' PROVE Delivery(s, v)' \in Jobs(s)
      OBVIOUS
    <3>0. v \in Worker
      BY DEF Busy
    <3>1. CASE worker'[s][v] = worker[s][v]
      BY <3>1 DEF Busy, Delivery, Jobs
    <3>2. CASE worker'[s][v] # worker[s][v]
      BY <2>1, <2>3, <2>4, <3>0, <3>2 DEF Jobs
    <3>. QED
      BY <3>1, <3>2
  <2>6. UNCHANGED batch
    BY <1>1 DEF Take
  <2>7. ASSUME NEW j \in Jobs(s)' PROVE j \in Jobs(s)
    <3>1. CASE j \in batch'[s]
      BY <2>6, <3>1 DEF Jobs
    <3>2. CASE \E i \in DOMAIN queue'[s] : j = queue'[s][i]
      BY <2>2, <3>2 DEF Jobs
    <3>3. CASE \E v \in Busy(s)' : j = Delivery(s, v)'
      BY <2>5, <3>3
    <3>. QED
      BY <2>7, <3>1, <3>2, <3>3 DEF Jobs
  <2>. QED
    BY <2>7
<1>2. CASE Publish(r, w) \/ Record(r, w)
  <2>1. UNCHANGED <<batch, queue>>
    BY <1>2 DEF Publish, ProduceAck, ProduceErr, DLQAck, DLQErr, Record,
       MarkProcessed, MarkFailed, MarkExhausted, MarkError
  <2>2. CASE Finish(r, w)
    BY <2>1, <2>2 DEF Finish, Idle, Busy, Delivery, Jobs, PoolType
  <2>3. ASSUME NEW p \in Phase, Move(r, w, p), w \in Busy(r)
        PROVE  Jobs(s)' \subseteq Jobs(s)
    BY <2>1, <2>3 DEF Move, Busy, Delivery, Jobs, PoolType
  <2>. QED
    BY <1>2, <2>2, <2>3
       DEF Publish, ProduceAck, ProduceErr, DLQAck, DLQErr, Record, Phase,
           MarkProcessed, MarkFailed, MarkExhausted, MarkError, Busy
<1>. QED
  BY <1>1, <1>2 DEF RunJob

LEMMA JobsClaim ==
  ASSUME TypeOK, NEW r \in Replica, ClaimBatch(r),
         NEW s \in Replica, NEW j \in Jobs(s)'
  PROVE  j \in Jobs(s) \/ Claimed(s, j)
<1>1. PICK B \in SUBSET Msg :
        /\ Oldest(B)
        /\ Lock(B)
        /\ batch' = [batch EXCEPT ![r] =
                       {[msg |-> m, seen |-> attempts[m]] : m \in B}]
  BY DEF ClaimBatch
<1>2. UNCHANGED <<queue, worker, overrun>>
  BY DEF ClaimBatch, histVars
<1>3. CASE j \in batch'[s] /\ s = r
  <2>1. PICK m \in B : j = [msg |-> m, seen |-> attempts[m]]
    BY <1>1, <1>3 DEF TypeOK, PoolType
  <2>. QED
    BY <1>1, <1>2, <1>3, <2>1 DEF Oldest, Lock, Claimed, Job, TypeOK, RowType
<1>4. CASE ~(j \in batch'[s] /\ s = r)
  BY <1>1, <1>2, <1>4 DEF Jobs, Busy, Delivery, TypeOK, PoolType
<1>. QED
  BY <1>3, <1>4

\* A job in hand was in hand before, or it is claimed in this very step.
LEMMA JobsNext ==
  ASSUME TypeOK, [Next]_vars, NEW s \in Replica, NEW j \in Jobs(s)'
  PROVE  j \in Jobs(s) \/ Claimed(s, j)
<1>1. ASSUME UNCHANGED poolVars PROVE Jobs(s)' = Jobs(s)
  BY <1>1 DEF poolVars, Jobs, Busy, Delivery
<1>2. CASE \/ \E m \in Msg : SaveTx(m)
           \/ Tick
           \/ \E r \in Replica : DrainTimeout(r) \/ ClaimError(r)
           \/ UNCHANGED vars
  BY <1>1, <1>2 DEF SaveTx, Tick, DrainTimeout, ClaimError, vars
<1>3. ASSUME NEW r \in Replica, ClaimBatch(r)
      PROVE  j \in Jobs(s) \/ Claimed(s, j)
  BY <1>3, JobsClaim
<1>4. ASSUME NEW r \in Replica, Submit(r) \/ PoolFull(r) \/ Crash(r)
      PROVE  j \in Jobs(s)
  BY <1>4, JobsIdle DEF TypeOK
<1>5. ASSUME NEW r \in Replica, NEW w \in Worker, RunJob(r, w)
      PROVE  j \in Jobs(s)
  BY <1>5, JobsMove DEF TypeOK
<1>. QED
  BY <1>2, <1>3, <1>4, <1>5 DEF Next, Poll, Enqueue

-----------------------------------------------------------------------------
(* No message is retired unsent                                            *)

\* A snapshot can be stale, never ahead of its row.
SnapshotNotAhead ==
  \A r \in Replica : \A j \in Jobs(r) : j.seen <= attempts[j.msg]

\* A delivery that goes on to MarkProcessed has handed its message to a topic.
SentIsSent ==
  \A r \in Replica, w \in Worker :
    worker[r][w].phase = "sent" => worker[r][w].msg \in sent \cup parked

LossInv == TypeOK /\ SnapshotNotAhead /\ SentIsSent /\ NoSilentLoss

LEMMA NextSnapshotNotAhead ==
  ASSUME TypeOK, SnapshotNotAhead, [Next]_vars
  PROVE  SnapshotNotAhead'
<1> SUFFICES ASSUME NEW r \in Replica, NEW j \in Jobs(r)'
             PROVE  j.seen <= attempts'[j.msg]
  BY DEF SnapshotNotAhead
<1>1. CASE j \in Jobs(r)
  <2>1. j.msg \in Msg /\ j.seen \in Nat /\ j.seen <= attempts[j.msg]
    BY <1>1, JobsType DEF SnapshotNotAhead, TypeOK, Job
  <2>. QED
    BY <2>1, AttemptsGrow DEF TypeOK, RowType
<1>2. CASE Claimed(r, j)
  BY <1>2 DEF Claimed, TypeOK, RowType, Job
<1>. QED
  BY <1>1, <1>2, JobsNext

LEMMA NextSentIsSent ==
  ASSUME TypeOK, SentIsSent, [Next]_vars
  PROVE  SentIsSent'
<1> USE DEF TypeOK, PoolType
<1>1. ASSUME UNCHANGED <<worker, netVars>> PROVE SentIsSent'
  BY <1>1 DEF SentIsSent, netVars
<1>2. ASSUME NEW r \in Replica, Crash(r) PROVE SentIsSent'
  BY <1>2 DEF Crash, Idle, SentIsSent, netVars
<1>3. ASSUME NEW r \in Replica, NEW w \in Worker, Take(r, w) PROVE SentIsSent'
  BY <1>3 DEF Take, SentIsSent, netVars
<1>4. ASSUME NEW r \in Replica, NEW w \in Worker, Publish(r, w)
      PROVE  SentIsSent'
  <2>1. CASE ProduceAck(r, w)
    BY <2>1 DEF ProduceAck, Move, SentIsSent
  <2>2. CASE ProduceErr(r, w)
    BY <2>2 DEF ProduceErr, AfterError, Move, SentIsSent
  <2>3. CASE DLQAck(r, w)
    BY <2>3 DEF DLQAck, Move, SentIsSent
  <2>4. CASE DLQErr(r, w)
    BY <2>4 DEF DLQErr, AfterError, Move, SentIsSent
  <2>. QED
    BY <1>4, <2>1, <2>2, <2>3, <2>4 DEF Publish
<1>5. ASSUME NEW r \in Replica, NEW w \in Worker, Record(r, w)
      PROVE  SentIsSent'
  <2>1. Finish(r, w) /\ UNCHANGED netVars
    BY <1>5 DEF Record, MarkProcessed, MarkFailed, MarkExhausted, MarkError
  <2>. QED
    BY <2>1 DEF Finish, Idle, SentIsSent, netVars
<1>6. CASE \/ \E m \in Msg : SaveTx(m)
           \/ Tick
           \/ \E r \in Replica : DrainTimeout(r) \/ Poll(r) \/ Enqueue(r)
           \/ UNCHANGED vars
  BY <1>1, <1>6 DEF SaveTx, Tick, DrainTimeout, Poll, ClaimBatch, ClaimError,
     Enqueue, Submit, PoolFull, vars, poolVars
<1>. QED
  BY <1>2, <1>3, <1>4, <1>5, <1>6 DEF Next, RunJob

LEMMA TopicsGrow ==
  ASSUME [Next]_vars
  PROVE  sent \subseteq sent' /\ parked \subseteq parked'
<1>1. ASSUME NEW r \in Replica,
             DrainTimeout(r) \/ Poll(r) \/ Enqueue(r) \/ Crash(r)
      PROVE  UNCHANGED netVars
  BY <1>1 DEF DrainTimeout, Poll, ClaimBatch, ClaimError, Enqueue, Submit,
     PoolFull, Crash
<1>2. ASSUME NEW r \in Replica, NEW w \in Worker, Take(r, w) \/ Record(r, w)
      PROVE  UNCHANGED netVars
  BY <1>2 DEF Take, Record, MarkProcessed, MarkFailed, MarkExhausted, MarkError
<1>3. ASSUME NEW r \in Replica, NEW w \in Worker, Publish(r, w)
      PROVE  sent \subseteq sent' /\ parked \subseteq parked'
  BY <1>3 DEF Publish, ProduceAck, ProduceErr, DLQAck, DLQErr, AfterError
<1>4. CASE (\E m \in Msg : SaveTx(m)) \/ Tick \/ UNCHANGED vars
  BY <1>4 DEF SaveTx, Tick, vars, netVars
<1>. QED
  BY <1>1, <1>2, <1>3, <1>4 DEF Next, RunJob, netVars

LEMMA NextNoSilentLoss ==
  ASSUME LossInv, [Next]_vars
  PROVE  NoSilentLoss'
<1> SUFFICES ASSUME NEW m \in Msg, Retired(m)'
             PROVE  \/ m \in sent' \cup parked'
                    \/ status'[m] = "exhausted" /\ attempts'[m] >= MaxAttempts
  BY DEF NoSilentLoss
<1> USE OutboxAssumption DEF LossInv, TypeOK, RowType
<1>1. sent \subseteq sent' /\ parked \subseteq parked'
  BY TopicsGrow
<1>2. CASE status'[m] = status[m]
  <2>1. attempts[m] <= attempts'[m] /\ attempts'[m] \in Nat
    BY AttemptsGrow
  <2>. QED
    BY <1>1, <1>2, <2>1 DEF NoSilentLoss, Retired
<1>3. CASE status'[m] # status[m]
  <2>1. PICK r \in Replica, w \in Worker :
               MarkProcessed(r, w) \/ MarkExhausted(r, w)
    <3>1. ASSUME NEW n \in Msg, SaveTx(n) PROVE FALSE
      BY <1>3, <3>1 DEF SaveTx, Retired
    <3>2. ASSUME NEW r \in Replica,
                 DrainTimeout(r) \/ Poll(r) \/ Enqueue(r) \/ Crash(r)
          PROVE  UNCHANGED status
      BY <3>2 DEF DrainTimeout, Poll, ClaimBatch, ClaimError, Lock, Enqueue,
         Submit, PoolFull, Crash, rowVars
    <3>3. ASSUME NEW r \in Replica, NEW w \in Worker,
                 \/ Take(r, w) \/ Publish(r, w)
                 \/ MarkFailed(r, w) \/ MarkError(r, w)
          PROVE  UNCHANGED status
      BY <3>3 DEF Take, Publish, ProduceAck, ProduceErr, DLQAck, DLQErr,
         MarkFailed, MarkError, rowVars
    <3>4. Tick \/ UNCHANGED vars => UNCHANGED status
      BY DEF Tick, vars, rowVars
    <3>. QED
      BY <1>3, <3>1, <3>2, <3>3, <3>4 DEF Next, RunJob, Record
  <2>2. worker[r][w].msg = m
    BY <1>3, <2>1 DEF MarkProcessed, MarkExhausted
  <2>3. CASE MarkProcessed(r, w)
    BY <1>1, <2>2, <2>3 DEF MarkProcessed, SentIsSent
  <2>4. CASE MarkExhausted(r, w)
    <3>1. w \in Busy(r) /\ Delivery(r, w) \in Jobs(r)
      BY <2>4 DEF MarkExhausted, Busy, Jobs
    <3>2. worker[r][w].seen <= attempts[m]
      BY <2>2, <3>1 DEF SnapshotNotAhead, Delivery
    <3>3. worker[r][w].seen \in Nat
      BY <2>4, BusyType DEF MarkExhausted
    <3>4. attempts'[m] = attempts[m] + 1 /\ status'[m] = "exhausted"
      BY <2>2, <2>4 DEF MarkExhausted
    <3>5. worker[r][w].seen + 1 >= MaxAttempts
      BY <2>4 DEF MarkExhausted, GivesUp
    <3>6. attempts[m] \in Nat /\ MaxAttempts \in Nat
      BY OutboxAssumption DEF TypeOK, RowType
    <3>7. attempts'[m] >= MaxAttempts
      BY ONLY <3>2, <3>3, <3>4, <3>5, <3>6
    <3>. QED
      BY <3>4, <3>7
  <2>. QED
    BY <2>1, <2>3, <2>4
<1>. QED
  BY <1>2, <1>3

LEMMA LossAlways == Spec => []LossInv
<1>1. Init => LossInv
  BY InitType DEF Init, LossInv, SnapshotNotAhead, SentIsSent, NoSilentLoss,
     Jobs, Busy, Idle, Retired
<1>2. LossInv /\ [Next]_vars => LossInv'
  BY NextRowType, NextPoolType, NextEnvType, NextSnapshotNotAhead,
     NextSentIsSent, NextNoSilentLoss DEF LossInv, TypeOK
<1>. QED
  BY <1>1, <1>2, PTL DEF Spec

\* processed_at is written only for a message that a topic holds or that used
\* every attempt, whatever overlaps, crashes and store errors happen.
THEOREM NothingRetiredUnsent == Spec => []NoSilentLoss
<1>1. LossInv => NoSilentLoss
  BY DEF LossInv
<1>. QED
  BY <1>1, LossAlways, PTL

-----------------------------------------------------------------------------
(* A message has one owner                                                 *)

\* A row that no transaction has committed yet carries the column defaults.
AbsentIsNew ==
  \A m \in Msg \ overrun : status[m] = "absent" => attempts[m] = 0

\* A pending row whose jobs all end inside the reclaim window can be retried.
RetriesLeft ==
  \A m \in Msg \ overrun : Pending(m) => attempts[m] < MaxAttempts

OwnerInv ==
  TypeOK /\ AbsentIsNew /\ RetriesLeft /\ SnapshotIsCurrent /\ SoleOwner

PlacesOf(r, m) ==
  Holds(r, m) <=> InBatch(r, m) \/ InQueue(r, m) \/ InWorker(r, m)

LEMMA HoldsPlaces ==
  PoolType => \A r \in Replica, m \in Msg : PlacesOf(r, m)
<1> SUFFICES ASSUME PoolType, NEW r \in Replica, NEW m \in Msg
             PROVE  PlacesOf(r, m)
  OBVIOUS
<1>1. \A w \in Worker : worker[r][w].msg = m => w \in Busy(r)
  BY OutboxAssumption DEF PoolType, Busy, NoMsg
<1>2. InWorker(r, m) <=> \E w \in Busy(r) : Delivery(r, w).msg = m
  BY <1>1 DEF InWorker, Busy, Delivery
<1>. QED
  BY <1>2 DEF PlacesOf, Holds, Jobs, InBatch, InQueue

LEMMA HoldsPlacesNext ==
  (PoolType => \A r \in Replica, m \in Msg : PlacesOf(r, m))'
BY HoldsPlaces, PTL

LEMMA SubmitKeepsPlace ==
  ASSUME PoolType, NEW m \in Msg, NEW q \in Replica, Submit(q),
         NEW r \in Replica, OnePlace(r, m)
  PROVE  OnePlace(r, m)'
<1>1. PICK j \in batch[q] :
        /\ batch' = [batch EXCEPT ![q] = @ \ {j}]
        /\ queue' = [queue EXCEPT ![q] = Append(@, j)]
  BY DEF Submit
<1>2. UNCHANGED worker
  BY DEF Submit
<1>3. CASE r # q
  BY <1>1, <1>2, <1>3 DEF PoolType, OnePlace, InBatch, InQueue, InWorker
<1>4. CASE r = q
  <2>1. batch'[r] = batch[r] \ {j} /\ queue'[r] = Append(queue[r], j)
    BY <1>1, <1>4 DEF PoolType
  <2>2. queue[r] \in Seq(Job)
    BY DEF PoolType
  <2>3. /\ DOMAIN queue'[r] = (DOMAIN queue[r]) \cup {Len(queue[r]) + 1}
        /\ Len(queue[r]) + 1 \notin DOMAIN queue[r]
        /\ queue'[r][Len(queue[r]) + 1] = j
        /\ \A i \in DOMAIN queue[r] : queue'[r][i] = queue[r][i]
    BY <2>1, <2>2
  <2>. HIDE <2>2
  <2>4. j \in batch[r]
    BY <1>4
  <2>. QED
    BY <1>2, <2>1, <2>3, <2>4 DEF OnePlace, InBatch, InQueue, InWorker
<1>. QED
  BY <1>3, <1>4

LEMMA TakeKeepsPlace ==
  ASSUME PoolType, NEW m \in Msg, NEW q \in Replica, NEW w \in Worker,
         Take(q, w), NEW r \in Replica, OnePlace(r, m)
  PROVE  OnePlace(r, m)'
<1>1. UNCHANGED batch
  BY DEF Take
<1>2. CASE r # q
  BY <1>1, <1>2 DEF Take, PoolType, OnePlace, InBatch, InQueue, InWorker
<1>3. CASE r = q
  <2>1. queue[r] \in Seq(Job) /\ queue[r] # <<>> /\ queue'[r] = Tail(queue[r])
    BY <1>3 DEF Take, PoolType
  <2>2. /\ \A i \in DOMAIN queue'[r] :
             i + 1 \in DOMAIN queue[r] /\ queue'[r][i] = queue[r][i + 1]
        /\ \A i \in DOMAIN queue'[r] : i \in Nat /\ i + 1 # 1
        /\ 1 \in DOMAIN queue[r]
        /\ Head(queue[r]) = queue[r][1]
    BY <2>1
  <2>3. /\ worker'[r][w].msg = queue[r][1].msg
        /\ worker[r][w].msg = NoMsg
        /\ \A v \in Worker \ {w} : worker'[r][v] = worker[r][v]
    BY <1>3, <2>2 DEF Take, PoolType
  <2>4. InQueue(r, m)' => InQueue(r, m)
    BY <2>2 DEF InQueue
  <2>5. InWorker(r, m)' => InWorker(r, m) \/ queue[r][1].msg = m
    BY <2>3 DEF InWorker
  <2>6. queue[r][1].msg = m => InQueue(r, m) /\ ~InQueue(r, m)'
    BY <2>2 DEF OnePlace, InQueue
  <2>7. InBatch(r, m)' <=> InBatch(r, m)
    BY <1>1 DEF InBatch
  <2>8. \A i, k \in DOMAIN queue'[r] :
          queue'[r][i].msg = m /\ queue'[r][k].msg = m => i = k
    <3> SUFFICES ASSUME NEW i \in DOMAIN queue'[r], NEW k \in DOMAIN queue'[r],
                        queue'[r][i].msg = m, queue'[r][k].msg = m
                 PROVE  i = k
      OBVIOUS
    <3>1. i + 1 = k + 1 /\ i \in Nat /\ k \in Nat
      BY <2>2 DEF OnePlace
    <3>. QED
      BY <3>1
  <2>9. \A v, u \in Worker :
          worker'[r][v].msg = m /\ worker'[r][u].msg = m => v = u
    <3>1. CASE queue[r][1].msg = m
      <4>1. \A v \in Worker : worker[r][v].msg # m
        BY <2>6, <3>1 DEF OnePlace, InWorker
      <4>. QED
        BY <2>3, <4>1
    <3>2. CASE queue[r][1].msg # m
      <4>1. \A v \in Worker : worker'[r][v].msg = m => worker[r][v].msg = m
        BY <2>3, <3>2
      <4>. QED
        BY <4>1 DEF OnePlace
    <3>. QED
      BY <3>1, <3>2
  <2>. QED
    BY <1>1, <2>4, <2>5, <2>6, <2>7, <2>8, <2>9 DEF OnePlace
<1>. QED
  BY <1>2, <1>3

LEMMA ClaimKeepsPlace ==
  ASSUME PoolType, NEW m \in Msg, NEW q \in Replica, ClaimBatch(q),
         NEW r \in Replica, OnePlace(r, m), Claimable(m) => ~Holds(r, m)
  PROVE  OnePlace(r, m)'
<1>1. PICK B \in SUBSET Msg :
        /\ Oldest(B)
        /\ batch' = [batch EXCEPT ![q] =
                       {[msg |-> n, seen |-> attempts[n]] : n \in B}]
  BY DEF ClaimBatch
<1>2. UNCHANGED <<queue, worker>>
  BY DEF ClaimBatch
<1>3. CASE r # q
  BY <1>1, <1>2, <1>3 DEF PoolType, OnePlace, InBatch, InQueue, InWorker
<1>4. CASE r = q
  <2>1. batch'[r] = {[msg |-> n, seen |-> attempts[n]] : n \in B}
    BY <1>1, <1>4 DEF PoolType
  <2>2. \A j, k \in batch'[r] : j.msg = m /\ k.msg = m => j = k
    BY <2>1
  <2>3. InBatch(r, m)' => Claimable(m)
    BY <1>1, <2>1 DEF InBatch, Oldest
  <2>4. InQueue(r, m) \/ InWorker(r, m) => Holds(r, m)
    BY HoldsPlaces DEF PlacesOf
  <2>. QED
    BY <1>2, <2>2, <2>3, <2>4 DEF OnePlace, InQueue, InWorker
<1>. QED
  BY <1>3, <1>4

\* Moving a job inside a replica leaves it in one place.
LEMMA PoolKeepsPlace ==
  ASSUME PoolType, NEW m \in Msg, NEW r \in Replica, OnePlace(r, m),
         NEW q \in Replica, NEW w \in Worker,
         Publish(q, w) \/ Record(q, w)
  PROVE  OnePlace(r, m)'
<1>1. UNCHANGED <<batch, queue>>
  BY DEF Publish, ProduceAck, ProduceErr, DLQAck, DLQErr, Record,
     MarkProcessed, MarkFailed, MarkExhausted, MarkError
<1>2. \A v \in Worker : worker'[r][v].msg \in {worker[r][v].msg, NoMsg}
  <2>1. CASE Finish(q, w)
    BY <2>1 DEF Finish, Idle, PoolType
  <2>2. ASSUME NEW p \in Phase, Move(q, w, p)
        PROVE  \A v \in Worker :
                 worker'[r][v].msg \in {worker[r][v].msg, NoMsg}
    BY <2>2 DEF Move, PoolType
  <2>. QED
    BY <2>1, <2>2
       DEF Publish, ProduceAck, ProduceErr, DLQAck, DLQErr, Phase, Record,
           MarkProcessed, MarkFailed, MarkExhausted, MarkError
<1>3. \A v \in Worker : worker'[r][v].msg = m => worker[r][v].msg = m
  BY <1>2, OutboxAssumption DEF NoMsg
<1>. QED
  BY <1>1, <1>3 DEF OnePlace, InBatch, InQueue, InWorker
\* A message nobody holds is claimed by one poller only; every other step
\* leaves the owner of a message alone.
LEMMA NextSoleOwner ==
  ASSUME OwnerInv, [Next]_vars
  PROVE  SoleOwner'
<1> SUFFICES ASSUME NEW m \in Msg \ overrun'
             PROVE  /\ \A r, s \in Replica : Holds(r, m)' /\ Holds(s, m)' => r = s
                    /\ \A r \in Replica : OnePlace(r, m)'
  BY DEF SoleOwner
<1> USE DEF OwnerInv
<1>1. m \notin overrun
  BY OverrunGrows
<1>2. \A r \in Replica : Claimable(m) => ~Holds(r, m)
  BY <1>1, OutboxAssumption
     DEF SnapshotIsCurrent, Holds, Claimable, NoLock, Expired
<1>3. ASSUME NEW r \in Replica, Holds(r, m)', ~Holds(r, m)
      PROVE  ClaimBatch(r) /\ Claimable(m)
  <2>1. PICK j \in Jobs(r)' : j.msg = m
    BY <1>3 DEF Holds
  <2>2. j \notin Jobs(r)
    BY <1>3, <2>1 DEF Holds
  <2>. QED
    BY <2>1, <2>2, JobsNext DEF Claimed
<1>4. ASSUME NEW r \in Replica, NEW s \in Replica, r # s,
             Holds(r, m)', Holds(s, m)'
      PROVE  FALSE
  <2>1. CASE Holds(r, m) /\ Holds(s, m)
    BY <1>1, <1>4, <2>1 DEF SoleOwner
  <2>2. CASE ~Holds(r, m) /\ ~Holds(s, m)
    <3>1. ClaimBatch(r) /\ ClaimBatch(s)
      BY <1>3, <1>4, <2>2
    <3>. QED
      BY <1>4, <3>1 DEF ClaimBatch, TypeOK, EnvType
  <2>3. CASE Holds(r, m) /\ ~Holds(s, m)
    BY <1>2, <1>3, <1>4, <2>3
  <2>4. CASE ~Holds(r, m) /\ Holds(s, m)
    BY <1>2, <1>3, <1>4, <2>4
  <2>. QED
    BY <2>1, <2>2, <2>3, <2>4
<1>5. ASSUME NEW r \in Replica PROVE OnePlace(r, m)'
  <2> USE <1>1 DEF TypeOK
  <2>1. OnePlace(r, m)
    BY DEF SoleOwner
  <2>2. ASSUME UNCHANGED poolVars PROVE OnePlace(r, m)'
    BY <2>1, <2>2 DEF poolVars, OnePlace, InBatch, InQueue, InWorker
  <2>3. ASSUME NEW q \in Replica, PoolFull(q) PROVE OnePlace(r, m)'
    BY <2>1, <2>3
       DEF PoolFull, PoolType, OnePlace, InBatch, InQueue, InWorker
  <2>4. ASSUME NEW q \in Replica, Crash(q) PROVE OnePlace(r, m)'
    BY <2>1, <2>4, OutboxAssumption
       DEF Crash, Idle, NoMsg, PoolType, OnePlace, InBatch, InQueue, InWorker
  <2>5. ASSUME NEW q \in Replica, ClaimBatch(q) PROVE OnePlace(r, m)'
    BY <1>2, <2>1, <2>5, ClaimKeepsPlace
  <2>6. ASSUME NEW q \in Replica, Submit(q) PROVE OnePlace(r, m)'
    BY <2>1, <2>6, SubmitKeepsPlace
  <2>7. ASSUME NEW q \in Replica, NEW w \in Worker, RunJob(q, w)
        PROVE  OnePlace(r, m)'
    BY <2>1, <2>7, TakeKeepsPlace, PoolKeepsPlace DEF RunJob
  <2>8. CASE \/ \E n \in Msg : SaveTx(n)
             \/ Tick
             \/ \E q \in Replica : DrainTimeout(q) \/ ClaimError(q)
             \/ UNCHANGED vars
    BY <2>2, <2>8 DEF SaveTx, Tick, DrainTimeout, ClaimError, vars
  <2>. QED
    BY <2>3, <2>4, <2>5, <2>6, <2>7, <2>8 DEF Next, Poll, Enqueue
<1>. QED
  BY <1>4, <1>5

\* Once a delivery is over, nobody holds its message any more.
LEMMA FinishReleases ==
  ASSUME OwnerInv, NEW q \in Replica, NEW w \in Worker, Finish(q, w),
         UNCHANGED <<batch, queue>>, NEW m \in Msg \ overrun,
         worker[q][w].msg = m, NEW r \in Replica
  PROVE  ~Holds(r, m)'
<1> USE DEF OwnerInv, TypeOK
<1>1. InWorker(q, m) /\ Holds(q, m)
  BY HoldsPlaces DEF PlacesOf, InWorker
<1>2. PlacesOf(r, m)'
  <2>1. PoolType'
    BY FinishType
  <2>. QED
    BY <2>1, HoldsPlacesNext
<1>3. CASE r # q
  <2>1. ~Holds(r, m)
    BY <1>1, <1>3 DEF SoleOwner
  <2>2. ~InBatch(r, m) /\ ~InQueue(r, m) /\ ~InWorker(r, m)
    BY <2>1, HoldsPlaces DEF PlacesOf
  <2>3. worker'[r] = worker[r]
    BY <1>3 DEF Finish, PoolType
  <2>4. ~InBatch(r, m)' /\ ~InQueue(r, m)' /\ ~InWorker(r, m)'
    BY <2>2, <2>3 DEF InBatch, InQueue, InWorker
  <2>. QED
    BY <1>2, <2>4 DEF PlacesOf
<1>4. CASE r = q
  <2>1. OnePlace(q, m)
    BY DEF SoleOwner
  <2>2. ~InBatch(q, m)' /\ ~InQueue(q, m)'
    BY <1>1, <2>1 DEF OnePlace, InBatch, InQueue
  <2>3. ~InWorker(q, m)'
    BY <2>1, OutboxAssumption
       DEF OnePlace, InWorker, Finish, Idle, NoMsg, PoolType
  <2>. QED
    BY <1>2, <1>4, <2>2, <2>3 DEF PlacesOf
<1>. QED
  BY <1>3, <1>4
\* The row of a message somebody holds changes only when its owner records
\* the outcome and lets go of it.
LEMMA NextSnapshotIsCurrent ==
  ASSUME OwnerInv, [Next]_vars
  PROVE  SnapshotIsCurrent'
<1> SUFFICES ASSUME NEW r \in Replica, NEW j \in Jobs(r)', j.msg \notin overrun'
             PROVE  /\ j.seen = attempts'[j.msg]
                    /\ status'[j.msg] = "pending"
                    /\ attempts'[j.msg] < MaxAttempts
                    /\ lockAge'[j.msg] \in 0..ReclaimAfter
                    /\ retryIn'[j.msg] = 0
  BY DEF SnapshotIsCurrent, Pending
<1> DEFINE m == j.msg
<1> USE OutboxAssumption DEF OwnerInv
<1>1. CASE Claimed(r, j)
  BY <1>1 DEF Claimed, Claimable, Pending, TypeOK, RowType, Job
<1>2. CASE j \in Jobs(r)
  <2>1. /\ m \in Msg \ overrun
        /\ j.seen = attempts[m]
        /\ status[m] = "pending"
        /\ attempts[m] < MaxAttempts
        /\ lockAge[m] \in 0..ReclaimAfter
        /\ retryIn[m] = 0
        /\ Holds(r, m)
        /\ Holds(r, m)'
    BY <1>2, JobsType, OverrunGrows
       DEF SnapshotIsCurrent, Pending, Holds, Job, TypeOK
  <2>. HIDE DEF m
  <2>. DEFINE Goal == /\ attempts'[m] = attempts[m]
                      /\ status'[m] = status[m]
                      /\ lockAge'[m] \in 0..ReclaimAfter
                      /\ retryIn'[m] = retryIn[m]
  <2>2. ASSUME UNCHANGED rowVars PROVE Goal
    BY <2>1, <2>2 DEF rowVars
  <2>3. ASSUME NEW n \in Msg, SaveTx(n) PROVE Goal
    BY <2>1, <2>3 DEF SaveTx, TypeOK, RowType
  <2>4. ASSUME Tick PROVE Goal
    <3>1. lockAge[m] # ReclaimAfter
      BY <2>1, <2>4, JobsType DEF Tick, Held, m
    <3>. QED
      BY <2>1, <2>4, <3>1 DEF Tick
  <2>5. ASSUME NEW q \in Replica, Poll(q) PROVE Goal
    <3>1. PICK B \in SUBSET Msg : (B = {} \/ Oldest(B)) /\ Lock(B)
      BY <2>5 DEF Poll, ClaimBatch, ClaimError
    <3>2. m \notin B
      BY <2>1, <3>1 DEF Oldest, Claimable, NoLock, Expired
    <3>. QED
      BY <2>1, <3>1, <3>2 DEF Lock
  <2>6. ASSUME NEW q \in Replica, NEW w \in Worker, Record(q, w) PROVE Goal
    <3>1. Finish(q, w) /\ UNCHANGED <<batch, queue>>
      BY <2>6 DEF Record, MarkProcessed, MarkFailed, MarkExhausted, MarkError
    <3>2. worker[q][w].msg # m
      BY <2>1, <3>1, FinishReleases
    <3>3. PICK k : worker[q][w].msg = k
      OBVIOUS
    <3>4. CASE MarkProcessed(q, w)
      BY <2>1, <3>2, <3>3, <3>4 DEF MarkProcessed, TypeOK, RowType
    <3>5. CASE MarkFailed(q, w)
      BY <2>1, <3>2, <3>3, <3>5 DEF MarkFailed, TypeOK, RowType
    <3>6. CASE MarkExhausted(q, w)
      BY <2>1, <3>2, <3>3, <3>6 DEF MarkExhausted, TypeOK, RowType
    <3>7. CASE MarkError(q, w)
      BY <2>2, <3>7 DEF MarkError
    <3>. QED
      BY <2>6, <3>4, <3>5, <3>6, <3>7 DEF Record
  <2>7. ASSUME NEW q \in Replica, NEW w \in Worker, Take(q, w) \/ Publish(q, w)
        PROVE  Goal
    BY <2>2, <2>7 DEF Take, Publish, ProduceAck, ProduceErr, DLQAck, DLQErr
  <2>8. ASSUME \/ \E q \in Replica : DrainTimeout(q) \/ Enqueue(q) \/ Crash(q)
               \/ UNCHANGED vars
        PROVE  Goal
    BY <2>2, <2>8 DEF DrainTimeout, Enqueue, Submit, PoolFull, Crash, vars
  <2>9. Goal
    BY <2>3, <2>4, <2>5, <2>6, <2>7, <2>8 DEF Next, RunJob
  <2>. QED
    BY <2>1, <2>9 DEF m
<1>. QED
  BY <1>1, <1>2, JobsNext
LEMMA NextRetriesLeft ==
  ASSUME OwnerInv, [Next]_vars
  PROVE  RetriesLeft' /\ AbsentIsNew'
<1> USE OutboxAssumption DEF OwnerInv, TypeOK, RowType
<1>1. ASSUME UNCHANGED <<status, attempts>>
      PROVE  RetriesLeft' /\ AbsentIsNew'
  BY <1>1, OverrunGrows DEF RetriesLeft, AbsentIsNew, Pending
<1>2. ASSUME NEW m \in Msg, SaveTx(m) PROVE RetriesLeft' /\ AbsentIsNew'
  BY <1>2, OverrunGrows DEF SaveTx, RetriesLeft, AbsentIsNew, Pending
<1>3. ASSUME NEW r \in Replica, NEW w \in Worker, Record(r, w)
      PROVE  RetriesLeft' /\ AbsentIsNew'
  <2>1. PICK k \in Msg : worker[r][w].msg = k
    BY <1>3, BusyType
       DEF Record, MarkProcessed, MarkFailed, MarkExhausted, MarkError
  <2>2. w \in Busy(r) /\ Delivery(r, w) \in Jobs(r)
    BY <1>3 DEF Record, MarkProcessed, MarkFailed, MarkExhausted, MarkError,
       Busy, Jobs
  <2>3. k \notin overrun => worker[r][w].seen = attempts[k] /\ Pending(k)
    BY <2>1, <2>2 DEF SnapshotIsCurrent, Delivery
  <2>4. CASE MarkProcessed(r, w)
    BY <2>1, <2>3, <2>4, OverrunGrows
       DEF MarkProcessed, RetriesLeft, AbsentIsNew, Pending
  <2>5. CASE MarkFailed(r, w)
    <3>1. attempts' = [attempts EXCEPT ![k] = @ + 1] /\ UNCHANGED status
      BY <2>1, <2>5 DEF MarkFailed
    <3>2. ~(worker[r][w].seen + 1 >= MaxAttempts)
      BY <2>5 DEF MarkFailed, GivesUp
    <3>3. k \notin overrun => attempts[k] + 1 < MaxAttempts
      BY <2>3, <3>2
    <3>. QED
      BY <2>3, <3>1, <3>3, OverrunGrows DEF RetriesLeft, AbsentIsNew, Pending
  <2>6. CASE MarkExhausted(r, w)
    BY <2>1, <2>3, <2>6, OverrunGrows
       DEF MarkExhausted, RetriesLeft, AbsentIsNew, Pending
  <2>7. CASE MarkError(r, w)
    BY <1>1, <2>7 DEF MarkError, rowVars
  <2>. QED
    BY <1>3, <2>4, <2>5, <2>6, <2>7 DEF Record
<1>4. ASSUME NEW r \in Replica,
             DrainTimeout(r) \/ Poll(r) \/ Enqueue(r) \/ Crash(r)
      PROVE  UNCHANGED <<status, attempts>>
  BY <1>4 DEF DrainTimeout, Poll, ClaimBatch, ClaimError, Lock, Enqueue,
     Submit, PoolFull, Crash, rowVars
<1>5. ASSUME NEW r \in Replica, NEW w \in Worker, Take(r, w) \/ Publish(r, w)
      PROVE  UNCHANGED <<status, attempts>>
  BY <1>5 DEF Take, Publish, ProduceAck, ProduceErr, DLQAck, DLQErr, rowVars
<1>6. Tick \/ UNCHANGED vars => UNCHANGED <<status, attempts>>
  BY DEF Tick, vars, rowVars
<1>. QED
  BY <1>1, <1>2, <1>3, <1>4, <1>5, <1>6 DEF Next, RunJob

LEMMA InitOwner == Init => OwnerInv
<1> SUFFICES ASSUME Init PROVE OwnerInv
  OBVIOUS
<1>1. TypeOK
  BY InitType
<1>2. \A r \in Replica : Jobs(r) = {}
  BY DEF Init, Jobs, Busy, Idle
<1>3. SnapshotIsCurrent /\ \A r \in Replica, m \in Msg : ~Holds(r, m)
  BY <1>2 DEF SnapshotIsCurrent, Holds
<1>4. SoleOwner
  BY <1>1, <1>3, HoldsPlaces
     DEF SoleOwner, OnePlace, PlacesOf, TypeOK, InBatch, InQueue, InWorker
<1>5. RetriesLeft /\ AbsentIsNew
  BY OutboxAssumption DEF Init, RetriesLeft, AbsentIsNew, Pending
<1>. QED
  BY <1>1, <1>3, <1>4, <1>5 DEF OwnerInv

LEMMA OwnerAlways == Spec => []OwnerInv
<1>1. OwnerInv /\ [Next]_vars => OwnerInv'
  BY NextRowType, NextPoolType, NextEnvType, NextSoleOwner,
     NextSnapshotIsCurrent, NextRetriesLeft DEF OwnerInv, TypeOK
<1>. QED
  BY InitOwner, <1>1, PTL DEF Spec

\* No two places of the whole deployment hold the same message, unless one of
\* its jobs outlived the reclaim window.
THEOREM OneOwner == Spec => []SoleOwner
<1>1. OwnerInv => SoleOwner
  BY DEF OwnerInv
<1>. QED
  BY OwnerAlways, <1>1, PTL

\* What deliver decides on is still what the row says.
THEOREM DecisionsAreCurrent == Spec => []SnapshotIsCurrent
<1>1. OwnerInv => SnapshotIsCurrent
  BY DEF OwnerInv
<1>. QED
  BY OwnerAlways, <1>1, PTL

-----------------------------------------------------------------------------
(* Only a late job touches a retired row                                   *)

\* The jobs in hand are older than the retirement: nobody claims the row again.
LEMMA RetiredNotClaimed ==
  ASSUME TypeOK, [Next]_vars, NEW m \in Msg, Retired(m), NEW r \in Replica,
         Holds(r, m)'
  PROVE  Holds(r, m)
<1>1. PICK j \in Jobs(r)' : j.msg = m
  BY DEF Holds
<1>2. j \in Jobs(r) \/ Claimed(r, j)
  BY <1>1, JobsNext
<1>. QED
  BY <1>1, <1>2 DEF Holds, Claimed, Claimable, Pending, Retired

\* No statement makes a retired row pending again.
LEMMA RetiredStays ==
  ASSUME TypeOK, [Next]_vars, NEW m \in Msg, Retired(m)
  PROVE  Retired(m)'
<1> USE DEF TypeOK, RowType, Retired
<1>1. ASSUME UNCHANGED status PROVE Retired(m)'
  BY <1>1
<1>2. ASSUME NEW n \in Msg, SaveTx(n) PROVE Retired(m)'
  BY <1>2 DEF SaveTx
<1>3. ASSUME NEW r \in Replica, NEW w \in Worker,
             MarkProcessed(r, w) \/ MarkExhausted(r, w)
      PROVE  Retired(m)'
  BY <1>3 DEF MarkProcessed, MarkExhausted
<1>4. ASSUME NEW r \in Replica, NEW w \in Worker,
             Take(r, w) \/ Publish(r, w) \/ MarkFailed(r, w) \/ MarkError(r, w)
      PROVE  Retired(m)'
  BY <1>1, <1>4 DEF Take, Publish, ProduceAck, ProduceErr, DLQAck, DLQErr,
     MarkFailed, MarkError, rowVars
<1>5. ASSUME NEW r \in Replica,
             DrainTimeout(r) \/ Poll(r) \/ Enqueue(r) \/ Crash(r)
      PROVE  Retired(m)'
  BY <1>1, <1>5 DEF DrainTimeout, Poll, ClaimBatch, ClaimError, Lock, Enqueue,
     Submit, PoolFull, Crash, rowVars
<1>6. CASE Tick \/ UNCHANGED vars
  BY <1>1, <1>6 DEF Tick, vars, rowVars
<1>. QED
  BY <1>2, <1>3, <1>4, <1>5, <1>6 DEF Next, RunJob, Record

\* Only the goroutine that has the message publishes it or updates its row.
LEMMA OwnersTouch ==
  ASSUME TypeOK, [Next]_vars, NEW m \in Msg, status[m] # "absent", Touched(m)
  PROVE  HolderMoves(m)
<1> USE DEF TypeOK, RowType
<1>1. ASSUME UNCHANGED <<status, attempts, netVars>> PROVE FALSE
  BY <1>1 DEF Touched, netVars
<1>2. ASSUME NEW n \in Msg, SaveTx(n) PROVE FALSE
  BY <1>2 DEF SaveTx, Touched, netVars
<1>3. ASSUME NEW r \in Replica, NEW w \in Worker,
             Publish(r, w) \/ Record(r, w)
      PROVE  HolderMoves(m)
  <2>1. worker[r][w].msg = m
    <3>1. CASE Publish(r, w)
      BY <3>1 DEF Publish, ProduceAck, ProduceErr, DLQAck, DLQErr, AfterError,
         Touched, rowVars
    <3>2. CASE Record(r, w)
      BY <3>2 DEF Record, MarkProcessed, MarkFailed, MarkExhausted, MarkError,
         Touched, rowVars, netVars
    <3>. QED
      BY <1>3, <3>1, <3>2
  <2>2. worker'[r][w].phase # worker[r][w].phase
    BY <1>3 DEF Publish, ProduceAck, ProduceErr, DLQAck, DLQErr, Record,
       MarkProcessed, MarkFailed, MarkExhausted, MarkError, Move, Finish, Idle,
       PoolType
  <2>. QED
    BY <2>1, <2>2 DEF HolderMoves
<1>4. ASSUME NEW r \in Replica,
             DrainTimeout(r) \/ Poll(r) \/ Enqueue(r) \/ Crash(r)
      PROVE  FALSE
  BY <1>1, <1>4 DEF DrainTimeout, Poll, ClaimBatch, ClaimError, Lock, Enqueue,
     Submit, PoolFull, Crash, rowVars
<1>5. ASSUME NEW r \in Replica, NEW w \in Worker, Take(r, w) PROVE FALSE
  BY <1>1, <1>5 DEF Take, rowVars
<1>6. CASE Tick \/ UNCHANGED vars
  BY <1>1, <1>6 DEF Tick, vars, rowVars
<1>. QED
  BY <1>2, <1>3, <1>4, <1>5, <1>6 DEF Next, RunJob

\* A goroutine has the message of a retired row only if its job was overrun:
\* until then the row of a message in hand is pending.
LEMMA LateOwners ==
  ASSUME OwnerInv, NEW m \in Msg, Retired(m), HolderMoves(m)
  PROVE  m \in overrun
<1> SUFFICES ASSUME m \notin overrun PROVE FALSE
  OBVIOUS
<1>1. PICK r \in Replica, w \in Worker : worker[r][w].msg = m
  BY DEF HolderMoves
<1>2. w \in Busy(r)
  BY <1>1, OutboxAssumption DEF OwnerInv, TypeOK, PoolType, Busy, NoMsg
<1>3. Delivery(r, w) \in Jobs(r) /\ Delivery(r, w).msg = m
  BY <1>1, <1>2 DEF Jobs, Delivery
<1>. QED
  BY <1>3 DEF OwnerInv, SnapshotIsCurrent, Pending, Retired

\* The updates by id reach a retired row, or send its message again, only from a
\* goroutine whose job outlived the reclaim window; and the row stays retired
\* and unclaimed whatever they do.
THEOREM LateJobsAlone == Spec => OnlyLateJobsTouch
<1>1. OwnerInv /\ [Next]_vars =>
        [\A m \in Msg : Retired(m) =>
           /\ Retired(m)'
           /\ \A r \in Replica : Holds(r, m)' => Holds(r, m)
           /\ Touched(m) => m \in overrun /\ HolderMoves(m)]_vars
  <2> SUFFICES ASSUME OwnerInv, [Next]_vars, NEW m \in Msg, Retired(m)
               PROVE  /\ Retired(m)'
                      /\ \A r \in Replica : Holds(r, m)' => Holds(r, m)
                      /\ Touched(m) => m \in overrun /\ HolderMoves(m)
    OBVIOUS
  <2>1. TypeOK /\ status[m] # "absent"
    BY DEF OwnerInv, Retired
  <2>2. Touched(m) => HolderMoves(m)
    BY <2>1, OwnersTouch
  <2>. QED
    BY <2>1, <2>2, RetiredStays, RetiredNotClaimed, LateOwners
<1>. QED
  BY OwnerAlways, <1>1, PTL DEF Spec, OnlyLateJobsTouch

-----------------------------------------------------------------------------
(* Exhaustion is earned                                                    *)

\* Goroutines whose delivery of m has failed and is not recorded yet.
Unrecorded(m) ==
  {p \in Replica \X Worker :
     /\ worker[p[1]][p[2]].phase = "failed"
     /\ worker[p[1]][p[2]].msg = m}

\* Every attempt the row counts is a failure, and those about to be counted
\* are failures of their own.
Counted ==
  \A m \in Msg :
    /\ IsFiniteSet(Unrecorded(m))
    /\ failures[m] < MaxAttempts =>
         attempts[m] + Cardinality(Unrecorded(m)) <= failures[m]

LEMMA InitCounted == Init => Counted /\ ExhaustionEarned
<1> SUFFICES ASSUME Init PROVE Counted /\ ExhaustionEarned
  OBVIOUS
<1>1. \A m \in Msg : Unrecorded(m) = {} /\ failures[m] = 0 /\ attempts[m] = 0
                    /\ status[m] = "absent"
  BY DEF Init, Unrecorded, Idle
<1>. QED
  BY <1>1, FS_EmptySet DEF Counted, ExhaustionEarned

\* A step that makes no failure and records none.
LEMMA QuietCounted ==
  ASSUME TypeOK, Counted, UNCHANGED <<failures, attempts>>,
         \A m \in Msg : Unrecorded(m)' \subseteq Unrecorded(m)
  PROVE  Counted'
<1> SUFFICES ASSUME NEW m \in Msg
             PROVE  /\ IsFiniteSet(Unrecorded(m)')
                    /\ failures[m] < MaxAttempts =>
                         attempts[m] + Cardinality(Unrecorded(m)') <= failures[m]
  BY DEF Counted
<1>1. /\ IsFiniteSet(Unrecorded(m)')
      /\ Cardinality(Unrecorded(m)') <= Cardinality(Unrecorded(m))
  BY FS_Subset DEF Counted
<1>2. Cardinality(Unrecorded(m)') \in Nat /\ Cardinality(Unrecorded(m)) \in Nat
  BY <1>1, FS_CardinalityType DEF Counted
<1>. QED
  BY <1>1, <1>2, OutboxAssumption DEF Counted, TypeOK, RowType, EnvType

LEMMA FailCounted ==
  ASSUME TypeOK, Counted, NEW r \in Replica, NEW w \in Worker, DLQErr(r, w)
  PROVE  Counted'
<1>1. PICK k \in Msg : worker[r][w].msg = k
  BY BusyType DEF DLQErr, TypeOK
<1>2. /\ failures' = [failures EXCEPT ![k] = IF @ < MaxAttempts THEN @ + 1 ELSE @]
      /\ UNCHANGED attempts
      /\ worker' = [worker EXCEPT ![r][w] =
                      [phase |-> "failed", msg |-> worker[r][w].msg,
                       seen |-> worker[r][w].seen]]
  BY <1>1 DEF DLQErr, Move, rowVars, TypeOK, PoolType
<1>3. \A m \in Msg : Unrecorded(m)' = IF m = k THEN Unrecorded(m) \cup {<<r, w>>}
                                      ELSE Unrecorded(m)
  <2> SUFFICES ASSUME NEW m \in Msg, NEW p \in Replica \X Worker
               PROVE  p \in Unrecorded(m)' <=>
                        (p \in Unrecorded(m) \/ (m = k /\ p = <<r, w>>))
    BY DEF Unrecorded
  <2>1. CASE p = <<r, w>>
    <3>1. worker'[p[1]][p[2]].phase = "failed" /\ worker'[p[1]][p[2]].msg = k
      BY <1>1, <1>2, <2>1 DEF TypeOK, PoolType
    <3>2. worker[p[1]][p[2]].msg = k
      BY <1>1, <2>1
    <3>. QED
      BY <2>1, <3>1, <3>2 DEF Unrecorded
  <2>2. CASE p # <<r, w>>
    <3>1. worker'[p[1]][p[2]] = worker[p[1]][p[2]]
      BY <1>2, <2>2 DEF TypeOK, PoolType
    <3>. QED
      BY <2>2, <3>1 DEF Unrecorded
  <2>. QED
    BY <2>1, <2>2
<1> SUFFICES ASSUME NEW m \in Msg
             PROVE  /\ IsFiniteSet(Unrecorded(m)')
                    /\ failures'[m] < MaxAttempts =>
                         attempts[m] + Cardinality(Unrecorded(m)') <= failures'[m]
  BY <1>2 DEF Counted
<1>4. /\ IsFiniteSet(Unrecorded(m)) /\ Cardinality(Unrecorded(m)) \in Nat
      /\ failures[m] \in Nat /\ attempts[m] \in Nat /\ MaxAttempts \in Nat
  BY FS_CardinalityType, OutboxAssumption DEF Counted, TypeOK, RowType, EnvType
<1>5. CASE m = k
  <2>1. /\ IsFiniteSet(Unrecorded(m)') /\ Cardinality(Unrecorded(m)') \in Nat
        /\ Cardinality(Unrecorded(m)') <= Cardinality(Unrecorded(m)) + 1
    <3>1. Unrecorded(m)' = Unrecorded(m) \cup {<<r, w>>}
      BY <1>3, <1>5
    <3>2. /\ IsFiniteSet(Unrecorded(m) \cup {<<r, w>>})
          /\ Cardinality(Unrecorded(m) \cup {<<r, w>>}) =
               IF <<r, w>> \in Unrecorded(m) THEN Cardinality(Unrecorded(m))
               ELSE Cardinality(Unrecorded(m)) + 1
      BY <1>4, FS_AddElement
    <3>. QED
      BY <1>4, <3>1, <3>2
  <2>2. failures'[m] = IF failures[m] < MaxAttempts THEN failures[m] + 1
                       ELSE failures[m]
    BY <1>2, <1>5 DEF TypeOK, EnvType
  <2>. QED
    BY <1>4, <2>1, <2>2 DEF Counted
<1>6. CASE m # k
  BY <1>2, <1>3, <1>4, <1>6 DEF Counted, TypeOK, EnvType
<1>. QED
  BY <1>5, <1>6

LEMMA RecordCounted ==
  ASSUME TypeOK, Counted, NEW r \in Replica, NEW w \in Worker,
         MarkFailed(r, w) \/ MarkExhausted(r, w)
  PROVE  Counted'
<1>1. PICK k \in Msg : worker[r][w].msg = k /\ worker[r][w].phase = "failed"
  BY BusyType DEF MarkFailed, MarkExhausted, TypeOK
<1>2. /\ attempts' = [attempts EXCEPT ![k] = @ + 1]
      /\ UNCHANGED failures
      /\ worker' = [worker EXCEPT ![r][w] = Idle]
  BY <1>1 DEF MarkFailed, MarkExhausted, Finish, histVars
<1>3. \A m \in Msg : Unrecorded(m)' = Unrecorded(m) \ {<<r, w>>}
  <2> SUFFICES ASSUME NEW m \in Msg, NEW p \in Replica \X Worker
               PROVE  p \in Unrecorded(m)' <=> (p \in Unrecorded(m) /\ p # <<r, w>>)
    BY DEF Unrecorded
  <2>1. CASE p = <<r, w>>
    <3>1. worker'[p[1]][p[2]].phase = "idle"
      BY <1>2, <2>1 DEF TypeOK, PoolType, Idle
    <3>. QED
      BY <2>1, <3>1 DEF Unrecorded
  <2>2. CASE p # <<r, w>>
    <3>1. worker'[p[1]][p[2]] = worker[p[1]][p[2]]
      BY <1>2, <2>2 DEF TypeOK, PoolType
    <3>. QED
      BY <2>2, <3>1 DEF Unrecorded
  <2>. QED
    BY <2>1, <2>2
<1>4. <<r, w>> \in Unrecorded(k) /\ \A m \in Msg \ {k} : <<r, w>> \notin Unrecorded(m)
  BY <1>1 DEF Unrecorded
<1> SUFFICES ASSUME NEW m \in Msg
             PROVE  /\ IsFiniteSet(Unrecorded(m)')
                    /\ failures[m] < MaxAttempts =>
                         attempts'[m] + Cardinality(Unrecorded(m)') <= failures[m]
  BY <1>2 DEF Counted
<1>5. /\ IsFiniteSet(Unrecorded(m)) /\ Cardinality(Unrecorded(m)) \in Nat
      /\ failures[m] \in Nat /\ attempts[m] \in Nat
  BY FS_CardinalityType DEF Counted, TypeOK, RowType, EnvType
<1>6. /\ IsFiniteSet(Unrecorded(m)')
      /\ Cardinality(Unrecorded(m)') = IF m = k THEN Cardinality(Unrecorded(m)) - 1
                                       ELSE Cardinality(Unrecorded(m))
  BY <1>3, <1>4, <1>5, FS_RemoveElement
<1>7. attempts'[m] = IF m = k THEN attempts[m] + 1 ELSE attempts[m]
  BY <1>2 DEF TypeOK, RowType
<1>. QED
  BY <1>5, <1>6, <1>7 DEF Counted

LEMMA NextCounted == TypeOK /\ Counted /\ [Next]_vars => Counted'
<1> SUFFICES ASSUME TypeOK, Counted, [Next]_vars PROVE Counted'
  OBVIOUS
<1>1. ASSUME UNCHANGED <<failures, attempts, worker>> PROVE Counted'
  BY <1>1, QuietCounted DEF Unrecorded
<1>2. CASE \/ \E m \in Msg : SaveTx(m)
           \/ Tick
           \/ \E r \in Replica : DrainTimeout(r) \/ Poll(r) \/ Enqueue(r)
           \/ UNCHANGED vars
  BY <1>1, <1>2 DEF SaveTx, Tick, DrainTimeout, Poll, ClaimBatch, ClaimError,
     Lock, Enqueue, Submit, PoolFull, vars, rowVars, poolVars, histVars
<1>3. ASSUME NEW r \in Replica, Crash(r) PROVE Counted'
  <2>1. \A m \in Msg : Unrecorded(m)' \subseteq Unrecorded(m)
    <3> SUFFICES ASSUME NEW m \in Msg, NEW p \in Unrecorded(m)'
                 PROVE  p \in Unrecorded(m)
      OBVIOUS
    <3>1. p \in Replica \X Worker /\ worker'[p[1]][p[2]].phase = "failed"
      BY DEF Unrecorded
    <3>2. worker'[r][p[2]].phase = "idle"
      BY <1>3, <3>1 DEF Crash, Idle, TypeOK, PoolType
    <3>3. p[1] # r
      BY <3>1, <3>2
    <3>4. worker'[p[1]] = worker[p[1]]
      BY <1>3, <3>1, <3>3 DEF Crash, TypeOK, PoolType
    <3>. QED
      BY <3>4 DEF Unrecorded
  <2>2. UNCHANGED <<failures, attempts>>
    BY <1>3 DEF Crash, rowVars
  <2>. QED
    BY <2>1, <2>2, QuietCounted
<1>4. ASSUME NEW r \in Replica, NEW w \in Worker,
             UNCHANGED <<failures, attempts>>,
             worker'[r][w].phase # "failed",
             \A s \in Replica, v \in Worker :
               <<s, v>> # <<r, w>> => worker'[s][v] = worker[s][v]
      PROVE  Counted'
  <2>1. \A m \in Msg : Unrecorded(m)' \subseteq Unrecorded(m)
    <3> SUFFICES ASSUME NEW m \in Msg, NEW s \in Replica, NEW v \in Worker,
                        <<s, v>> \in Unrecorded(m)'
                 PROVE  <<s, v>> \in Unrecorded(m)
      BY DEF Unrecorded
    <3>1. worker'[s][v].phase = "failed" /\ worker'[s][v].msg = m
      BY DEF Unrecorded
    <3>2. worker'[s][v] = worker[s][v]
      BY <1>4, <3>1
    <3>. QED
      BY <3>1, <3>2 DEF Unrecorded
  <2>. QED
    BY <1>4, <2>1, QuietCounted
<1>5. ASSUME NEW r \in Replica, NEW w \in Worker, Take(r, w) PROVE Counted'
  <2>1. worker' = [worker EXCEPT ![r][w] =
                     [phase |-> "produce", msg |-> Head(queue[r]).msg,
                      seen |-> Head(queue[r]).seen]]
    BY <1>5 DEF Take
  <2>2. UNCHANGED <<failures, attempts>>
    BY <1>5 DEF Take, rowVars, histVars
  <2>3. /\ worker'[r][w].phase # "failed"
        /\ \A s \in Replica, v \in Worker :
             <<s, v>> # <<r, w>> => worker'[s][v] = worker[s][v]
    BY <2>1 DEF TypeOK, PoolType
  <2>. QED
    BY <1>4, <2>2, <2>3
<1>6. ASSUME NEW r \in Replica, NEW w \in Worker,
             ProduceAck(r, w) \/ ProduceErr(r, w) \/ DLQAck(r, w)
      PROVE  Counted'
  <2>1. PICK p \in {"sent", "dlq"} : Move(r, w, p)
    BY <1>6 DEF ProduceAck, ProduceErr, DLQAck
  <2>2. UNCHANGED <<failures, attempts>>
    BY <1>6 DEF ProduceAck, ProduceErr, DLQAck, rowVars, histVars
  <2>3. /\ worker'[r][w].phase # "failed"
        /\ \A s \in Replica, v \in Worker :
             <<s, v>> # <<r, w>> => worker'[s][v] = worker[s][v]
    BY <2>1 DEF Move, TypeOK, PoolType
  <2>. QED
    BY <1>4, <2>2, <2>3
<1>7. ASSUME NEW r \in Replica, NEW w \in Worker,
             MarkProcessed(r, w) \/ MarkError(r, w)
      PROVE  Counted'
  <2>1. Finish(r, w) /\ UNCHANGED <<failures, attempts>>
    BY <1>7 DEF MarkProcessed, MarkError, rowVars, histVars
  <2>2. /\ worker'[r][w].phase # "failed"
        /\ \A s \in Replica, v \in Worker :
             <<s, v>> # <<r, w>> => worker'[s][v] = worker[s][v]
    BY <2>1 DEF Finish, Idle, TypeOK, PoolType
  <2>. QED
    BY <1>4, <2>1, <2>2
<1>. QED
  BY <1>2, <1>3, <1>5, <1>6, <1>7, FailCounted, RecordCounted
     DEF Next, RunJob, Publish, Record

\* deliver's own count of the attempts is a count of failures.
LEMMA ExhaustionCounted ==
  ASSUME TypeOK, Counted, NEW r \in Replica, NEW w \in Worker, NEW k \in Msg,
         worker[r][w].phase = "failed", worker[r][w].msg = k,
         worker[r][w].seen \in Nat, worker[r][w].seen <= attempts[k],
         GivesUp(worker[r][w].seen + 1)
  PROVE  failures[k] >= MaxAttempts
<1>1. Cardinality(Unrecorded(k)) >= 1 /\ Cardinality(Unrecorded(k)) \in Nat
  <2>1. <<r, w>> \in Unrecorded(k) /\ IsFiniteSet(Unrecorded(k))
    BY DEF Unrecorded, Counted
  <2>2. Cardinality(Unrecorded(k)) \in Nat /\ Cardinality(Unrecorded(k)) # 0
    BY <2>1, FS_CardinalityType, FS_EmptySet
  <2>. QED
    BY <2>2
<1>2. /\ failures[k] \in Nat /\ attempts[k] \in Nat /\ MaxAttempts \in Nat
      /\ worker[r][w].seen + 1 >= MaxAttempts
  BY OutboxAssumption DEF GivesUp, TypeOK, RowType, EnvType
<1>3. failures[k] < MaxAttempts =>
        attempts[k] + Cardinality(Unrecorded(k)) <= failures[k]
  BY DEF Counted
<1>. QED
  BY ONLY <1>1, <1>2, <1>3, worker[r][w].seen \in Nat,
     worker[r][w].seen <= attempts[k]

LEMMA NextExhaustionEarned ==
  ASSUME LossInv, Counted, ExhaustionEarned, [Next]_vars
  PROVE  ExhaustionEarned'
<1> USE OutboxAssumption DEF LossInv, TypeOK, RowType, EnvType
<1>1. ASSUME UNCHANGED <<status, failures>> PROVE ExhaustionEarned'
  BY <1>1 DEF ExhaustionEarned
<1>2. ASSUME NEW m \in Msg, SaveTx(m) PROVE ExhaustionEarned'
  BY <1>2 DEF SaveTx, ExhaustionEarned, histVars
<1>3. CASE Tick \/ UNCHANGED vars
  BY <1>1, <1>3 DEF Tick, vars, rowVars, histVars
<1>4. ASSUME NEW r \in Replica,
             DrainTimeout(r) \/ Poll(r) \/ Enqueue(r) \/ Crash(r)
      PROVE  ExhaustionEarned'
  BY <1>1, <1>4 DEF DrainTimeout, Poll, ClaimBatch, ClaimError, Lock, Enqueue,
     Submit, PoolFull, Crash, rowVars, histVars
<1>5. ASSUME NEW r \in Replica, NEW w \in Worker,
             \/ Take(r, w) \/ ProduceAck(r, w) \/ ProduceErr(r, w)
             \/ DLQAck(r, w) \/ MarkFailed(r, w) \/ MarkError(r, w)
      PROVE  ExhaustionEarned'
  BY <1>1, <1>5 DEF Take, ProduceAck, ProduceErr, DLQAck, MarkFailed, MarkError,
     rowVars, histVars
<1>6. ASSUME NEW r \in Replica, NEW w \in Worker, DLQErr(r, w)
      PROVE  ExhaustionEarned'
  <2>1. PICK k \in Msg : worker[r][w].msg = k
    BY <1>6, BusyType DEF DLQErr
  <2>2. failures' = [failures EXCEPT ![k] = IF @ < MaxAttempts THEN @ + 1 ELSE @]
    BY <1>6, <2>1 DEF DLQErr
  <2>3. UNCHANGED status
    BY <1>6 DEF DLQErr, rowVars
  <2>4. \A m \in Msg : failures[m] <= failures'[m] /\ failures'[m] \in Nat
    BY <2>2
  <2>. QED
    BY <2>3, <2>4 DEF ExhaustionEarned
<1>7. ASSUME NEW r \in Replica, NEW w \in Worker, MarkProcessed(r, w)
      PROVE  ExhaustionEarned'
  BY <1>7 DEF MarkProcessed, ExhaustionEarned, histVars
<1>8. ASSUME NEW r \in Replica, NEW w \in Worker, MarkExhausted(r, w)
      PROVE  ExhaustionEarned'
  <2>1. PICK k \in Msg : worker[r][w].msg = k /\ worker[r][w].phase = "failed"
    BY <1>8, BusyType DEF MarkExhausted
  <2>2. /\ status' = [status EXCEPT ![k] = "exhausted"] /\ UNCHANGED failures
        /\ worker[r][w].seen + 1 >= MaxAttempts
    BY <1>8, <2>1 DEF MarkExhausted, GivesUp, histVars
  <2>3. worker[r][w].seen <= attempts[k] /\ worker[r][w].seen \in Nat
    <3>1. w \in Busy(r) /\ Delivery(r, w) \in Jobs(r)
      BY <2>1 DEF Busy, Jobs
    <3>. QED
      BY <2>1, <3>1, BusyType DEF SnapshotNotAhead, Delivery
  <2>5. failures[k] >= MaxAttempts
    BY <1>8, <2>1, <2>3, ExhaustionCounted DEF MarkExhausted
  <2>. QED
    BY <2>2, <2>5 DEF ExhaustionEarned
<1>. QED
  BY <1>2, <1>3, <1>4, <1>5, <1>6, <1>7, <1>8 DEF Next, RunJob, Publish, Record

\* A message is given up only after maxAttempts deliveries of its own that
\* failed, for any number of replicas that deliver it and however their two
\* computations of the attempt interleave.
THEOREM ExhaustedRowsFailed == Spec => []ExhaustionEarned
<1>1. LossInv /\ Counted /\ ExhaustionEarned /\ [Next]_vars
        => Counted' /\ ExhaustionEarned'
  BY NextCounted, NextExhaustionEarned DEF LossInv
<1>. QED
  BY LossAlways, InitCounted, <1>1, PTL DEF Spec
-----------------------------------------------------------------------------
(* The outbox implements its contract                                      *)

\* Failures are counted up to MaxAttempts.
FailuresCapped == \A m \in Msg : failures[m] <= MaxAttempts

ContractInv ==
  /\ OwnerInv
  /\ SentIsSent
  /\ SnapshotNotAhead
  /\ Counted
  /\ FailuresCapped

LEMMA NextFailuresCapped ==
  ASSUME TypeOK, FailuresCapped, [Next]_vars
  PROVE  FailuresCapped'
<1> USE OutboxAssumption DEF TypeOK, EnvType
<1>1. ASSUME UNCHANGED failures PROVE FailuresCapped'
  BY <1>1 DEF FailuresCapped
<1>2. ASSUME NEW r \in Replica, NEW w \in Worker, DLQErr(r, w)
      PROVE  FailuresCapped'
  <2>1. PICK k \in Msg : worker[r][w].msg = k
    BY <1>2, BusyType DEF DLQErr
  <2>2. failures' = [failures EXCEPT ![k] = IF @ < MaxAttempts THEN @ + 1 ELSE @]
    BY <1>2, <2>1 DEF DLQErr
  <2>. QED
    BY <2>2 DEF FailuresCapped
<1>3. CASE \/ \E m \in Msg : SaveTx(m)
           \/ Tick
           \/ \E r \in Replica :
                DrainTimeout(r) \/ Poll(r) \/ Enqueue(r) \/ Crash(r)
           \/ UNCHANGED vars
  BY <1>1, <1>3 DEF SaveTx, Tick, DrainTimeout, Poll, ClaimBatch, ClaimError,
     Enqueue, Submit, PoolFull, Crash, vars, histVars
<1>4. ASSUME NEW r \in Replica, NEW w \in Worker,
             \/ Take(r, w) \/ ProduceAck(r, w) \/ ProduceErr(r, w)
             \/ DLQAck(r, w) \/ Record(r, w)
      PROVE  FailuresCapped'
  BY <1>1, <1>4 DEF Take, ProduceAck, ProduceErr, DLQAck, Record,
     MarkProcessed, MarkFailed, MarkExhausted, MarkError, histVars
<1>. QED
  BY <1>2, <1>3, <1>4 DEF Next, RunJob, Publish

LEMMA ContractAlways == Spec => []ContractInv
<1>1. Init => FailuresCapped
  BY OutboxAssumption DEF Init, FailuresCapped
<1>2. OwnerInv /\ LossInv /\ Counted /\ FailuresCapped /\ [Next]_vars
        => Counted' /\ FailuresCapped'
  BY NextCounted, NextFailuresCapped DEF LossInv
<1>3. OwnerInv /\ LossInv /\ Counted /\ FailuresCapped => ContractInv
  BY DEF ContractInv, LossInv
<1>. QED
  BY OwnerAlways, LossAlways, InitCounted, <1>1, <1>2, <1>3, PTL DEF Spec

\* A row is pending with all its attempts used only if one of its jobs outlived
\* the reclaim window, and never before its message has failed maxAttempts times.
THEOREM StrandedByOverruns == Spec => []OnlyOverrunsStrand
<1>1. ContractInv => OnlyOverrunsStrand
  <2> SUFFICES ASSUME ContractInv, NEW m \in Msg, Pending(m),
                      attempts[m] >= MaxAttempts
               PROVE  m \in overrun /\ failures[m] >= MaxAttempts
    BY DEF OnlyOverrunsStrand
  <2>1. /\ attempts[m] \in Nat /\ failures[m] \in Nat /\ MaxAttempts \in Nat
        /\ Cardinality(Unrecorded(m)) \in Nat
    BY OutboxAssumption, FS_CardinalityType
       DEF ContractInv, Counted, OwnerInv, TypeOK, RowType, EnvType
  <2>2. m \in overrun
    BY <2>1 DEF ContractInv, OwnerInv, RetriesLeft
  <2>3. failures[m] < MaxAttempts =>
          attempts[m] + Cardinality(Unrecorded(m)) <= failures[m]
    BY DEF ContractInv, Counted
  <2>. QED
    BY <2>1, <2>2, <2>3
<1>. QED
  BY ContractAlways, <1>1, PTL

\* A goroutine at work delivers a message whose row is pending.
LEMMA DeliversPending ==
  ASSUME ContractInv, overrun = {}, NEW r \in Replica, NEW w \in Worker,
         worker[r][w].phase # "idle"
  PROVE  /\ worker[r][w].msg \in Msg
         /\ worker[r][w].seen \in Nat
         /\ status[worker[r][w].msg] = "pending"
         /\ worker[r][w].seen <= attempts[worker[r][w].msg]
<1>1. worker[r][w].msg \in Msg /\ worker[r][w].seen \in Nat
  BY BusyType DEF ContractInv, OwnerInv, TypeOK
<1>2. Delivery(r, w) \in Jobs(r)
  BY DEF Busy, Jobs
<1>. QED
  BY <1>1, <1>2
     DEF ContractInv, OwnerInv, SnapshotIsCurrent, SnapshotNotAhead, Pending,
         Delivery

LEMMA ContractStutters ==
  ASSUME UNCHANGED <<status, sent, parked, failures>>
  PROVE  UNCHANGED Contract!vars
  BY DEF Contract!vars, Outcome

LEMMA InitMaps == Init => Contract!Init
  BY DEF Init, Contract!Init, Outcome

\* A message that reaches a topic is handed over.
LEMMA ContractHandsOver ==
  ASSUME TypeOK, NEW m \in Msg, status[m] = "pending",
         sent' \cup parked' = (sent \cup parked) \cup {m},
         UNCHANGED <<status, failures>>
  PROVE  Contract!HandOver(m)
  BY DEF Contract!HandOver, Outcome

\* A failed delivery, which may have left a copy on a topic all the same.
LEMMA ContractFails ==
  ASSUME TypeOK, NEW m \in Msg, status[m] = "pending",
         failures[m] < MaxAttempts,
         failures' = [failures EXCEPT ![m] = @ + 1],
         \/ sent' \cup parked' = sent \cup parked
         \/ sent' \cup parked' = (sent \cup parked) \cup {m},
         UNCHANGED status
  PROVE  Contract!Fail(m)
  BY DEF Contract!Fail, Outcome

\* The row's outcome is written.
LEMMA ContractConfirms ==
  ASSUME TypeOK, NEW m \in Msg, status[m] = "pending", m \in sent \cup parked,
         status' = [status EXCEPT ![m] = "processed"],
         UNCHANGED <<sent, parked, failures>>
  PROVE  Contract!Confirm(m)
  BY DEF Contract!Confirm, Outcome, TypeOK, RowType

LEMMA ContractAbandons ==
  ASSUME TypeOK, NEW m \in Msg, status[m] = "pending",
         failures[m] = MaxAttempts,
         status' = [status EXCEPT ![m] = "exhausted"],
         UNCHANGED <<sent, parked, failures>>
  PROVE  Contract!Abandon(m)
  BY DEF Contract!Abandon, Outcome, TypeOK, RowType

LEMMA StepMaps ==
  ASSUME ContractInv, overrun = {}, [Next]_vars
  PROVE  [Contract!Next]_(Contract!vars)
<1> USE DEF ContractInv, OwnerInv
<1>1. ASSUME NEW m \in Msg, SaveTx(m) PROVE Contract!Next
  <2>1. Contract!Accept(m)
    BY <1>1 DEF SaveTx, Contract!Accept, Outcome, TypeOK, RowType, netVars,
                histVars
  <2>. QED
    BY <2>1 DEF Contract!Next
<1>2. CASE \/ Tick
           \/ \E r \in Replica :
                DrainTimeout(r) \/ Poll(r) \/ Enqueue(r) \/ Crash(r)
           \/ UNCHANGED vars
  <2>1. UNCHANGED <<status, sent, parked, failures>>
    BY <1>2 DEF Tick, DrainTimeout, Poll, ClaimBatch, ClaimError, Lock, Enqueue,
       Submit, PoolFull, Crash, vars, rowVars, netVars, histVars
  <2>. QED
    BY <2>1, ContractStutters
<1>3. ASSUME NEW r \in Replica, NEW w \in Worker,
             Take(r, w) \/ MarkFailed(r, w) \/ MarkError(r, w)
      PROVE  UNCHANGED Contract!vars
  <2>1. UNCHANGED <<status, sent, parked, failures>>
    BY <1>3 DEF Take, MarkFailed, MarkError, rowVars, netVars, histVars
  <2>. QED
    BY <2>1, ContractStutters
<1>4. ASSUME NEW r \in Replica, NEW w \in Worker,
             ProduceAck(r, w) \/ ProduceErr(r, w) \/ DLQAck(r, w)
      PROVE  [Contract!Next]_(Contract!vars)
  <2>1. PICK m \in Msg : worker[r][w].msg = m /\ status[m] = "pending"
    BY <1>4, DeliversPending DEF ProduceAck, ProduceErr, DLQAck
  <2>2. UNCHANGED <<status, failures>>
    BY <1>4 DEF ProduceAck, ProduceErr, DLQAck, rowVars, histVars
  <2>3. \/ UNCHANGED <<sent, parked>>
        \/ sent' \cup parked' = (sent \cup parked) \cup {m}
    BY <1>4, <2>1 DEF ProduceAck, ProduceErr, DLQAck, AfterError
  <2>. QED
    BY <2>1, <2>2, <2>3, ContractHandsOver, ContractStutters DEF Contract!Next
<1>5. ASSUME NEW r \in Replica, NEW w \in Worker, DLQErr(r, w)
      PROVE  [Contract!Next]_(Contract!vars)
  <2>1. PICK m \in Msg : worker[r][w].msg = m /\ status[m] = "pending"
    BY <1>5, DeliversPending DEF DLQErr
  <2>2. /\ failures' = [failures EXCEPT ![m] = IF @ < MaxAttempts THEN @ + 1
                                               ELSE @]
        /\ UNCHANGED <<status, sent>>
        /\ parked' = parked \/ parked' = parked \cup {m}
    BY <1>5, <2>1 DEF DLQErr, AfterError, rowVars
  <2>3. CASE failures[m] < MaxAttempts
    <3>1. failures' = [failures EXCEPT ![m] = @ + 1]
      BY <2>2, <2>3
    <3>2. \/ sent' \cup parked' = sent \cup parked
          \/ sent' \cup parked' = (sent \cup parked) \cup {m}
      BY <2>2
    <3>3. Contract!Fail(m)
      BY <2>1, <2>2, <2>3, <3>1, <3>2, ContractFails
    <3>. QED
      BY <3>3 DEF Contract!Next
  <2>4. CASE ~(failures[m] < MaxAttempts)
    <3>1. failures' = failures
      BY <2>2, <2>4 DEF TypeOK, EnvType
    <3>2. CASE parked' = parked
      BY <2>2, <3>1, <3>2, ContractStutters
    <3>3. CASE parked' = parked \cup {m}
      <4>1. sent' \cup parked' = (sent \cup parked) \cup {m}
        BY <2>2, <3>3
      <4>2. Contract!HandOver(m)
        BY <2>1, <2>2, <3>1, <4>1, ContractHandsOver
      <4>. QED
        BY <4>2 DEF Contract!Next
    <3>. QED
      BY <2>2, <3>2, <3>3
  <2>. QED
    BY <2>3, <2>4
<1>6. ASSUME NEW r \in Replica, NEW w \in Worker, MarkProcessed(r, w)
      PROVE  Contract!Next
  <2>1. PICK m \in Msg : worker[r][w].msg = m /\ status[m] = "pending"
    BY <1>6, DeliversPending DEF MarkProcessed
  <2>2. m \in sent \cup parked
    BY <1>6, <2>1 DEF MarkProcessed, SentIsSent
  <2>3. /\ status' = [status EXCEPT ![m] = "processed"]
        /\ UNCHANGED <<sent, parked, failures>>
    BY <1>6, <2>1 DEF MarkProcessed, netVars, histVars
  <2>. QED
    BY <2>1, <2>2, <2>3, ContractConfirms DEF Contract!Next
<1>7. ASSUME NEW r \in Replica, NEW w \in Worker, MarkExhausted(r, w)
      PROVE  Contract!Next
  <2>1. PICK m \in Msg : worker[r][w].msg = m /\ status[m] = "pending"
    BY <1>7, DeliversPending DEF MarkExhausted
  <2>2. /\ status' = [status EXCEPT ![m] = "exhausted"]
        /\ UNCHANGED <<sent, parked, failures>>
    BY <1>7, <2>1 DEF MarkExhausted, netVars, histVars
  <2>3. failures[m] = MaxAttempts
    <3>1. failures[m] >= MaxAttempts
      BY <1>7, <2>1, ExhaustionCounted, DeliversPending DEF MarkExhausted
    <3>. QED
      BY <3>1, OutboxAssumption DEF FailuresCapped, TypeOK, EnvType
  <2>. QED
    BY <2>1, <2>2, <2>3, ContractAbandons DEF Contract!Next
<1>. QED
  BY <1>1, <1>2, <1>3, <1>4, <1>5, <1>6, <1>7
     DEF Next, RunJob, Publish, Record

\* As long as no job outlives the reclaim window, table, pools and topics
\* together are the outbox that DeliveryContract promises, with any number of
\* replicas, goroutines, messages and faults: delivered at least once before it
\* is confirmed, abandoned only after maxAttempts failures, final afterwards.
THEOREM OutboxKeepsContract == Spec /\ [](overrun = {}) => ImplementsContract
<1>. QED
  BY InitMaps, ContractAlways, StepMaps, PTL
     DEF Spec, ImplementsContract, Contract!Spec

-----------------------------------------------------------------------------
(* The contract of every message until one of its own jobs is overrun       *)

\* A goroutine whose message has not been overrun delivers a pending row.
LEMMA DeliversPendingOf ==
  ASSUME ContractInv, NEW r \in Replica, NEW w \in Worker,
         worker[r][w].phase # "idle", worker[r][w].msg \notin overrun
  PROVE  status[worker[r][w].msg] = "pending"
<1>1. worker[r][w].msg \in Msg /\ worker[r][w].seen \in Nat
  BY BusyType DEF ContractInv, OwnerInv, TypeOK
<1>2. Delivery(r, w) \in Jobs(r)
  BY DEF Busy, Jobs
<1>. QED
  BY <1>1, <1>2 DEF ContractInv, OwnerInv, SnapshotIsCurrent, Pending, Delivery

\* A step that changes nothing of the messages in M is a stutter for them.
LEMMA OfStutters ==
  ASSUME NEW M \in SUBSET Msg,
         \A m \in M : /\ status'[m] = status[m] /\ failures'[m] = failures[m]
                      /\ m \in sent' \cup parked' <=> m \in sent \cup parked
  PROVE  UNCHANGED Of(M)!vars
<1>1. [m \in M |-> Outcome(m)]' = [m \in M |-> Outcome(m)]
  BY DEF Outcome
<1>2. ((sent \cup parked) \cap M)' = (sent \cup parked) \cap M
  OBVIOUS
<1>3. [m \in M |-> failures[m]]' = [m \in M |-> failures[m]]
  OBVIOUS
<1>. QED
  BY <1>1, <1>2, <1>3 DEF Of!vars

LEMMA OfAccepts ==
  ASSUME TypeOK, NEW M \in SUBSET Msg, NEW m \in M, status[m] = "absent",
         status' = [status EXCEPT ![m] = "pending"],
         UNCHANGED <<sent, parked, failures>>
  PROVE  Of(M)!Accept(m)
  BY DEF Of!Accept, Outcome, TypeOK, RowType

LEMMA OfHandsOver ==
  ASSUME TypeOK, NEW M \in SUBSET Msg, NEW m \in M, status[m] = "pending",
         sent' \cup parked' = (sent \cup parked) \cup {m},
         UNCHANGED <<status, failures>>
  PROVE  Of(M)!HandOver(m)
<1>1. [k \in M |-> Outcome(k)]' = [k \in M |-> Outcome(k)]
  BY DEF Outcome
<1>2. ((sent \cup parked) \cap M)' = ((sent \cup parked) \cap M) \cup {m}
  OBVIOUS
<1>3. Outcome(m) = "pending"
  BY DEF Outcome
<1>. QED
  BY <1>1, <1>2, <1>3 DEF Of!HandOver

LEMMA OfFails ==
  ASSUME TypeOK, NEW M \in SUBSET Msg, NEW m \in M, status[m] = "pending",
         failures[m] < MaxAttempts,
         failures' = [failures EXCEPT ![m] = @ + 1],
         \/ sent' \cup parked' = sent \cup parked
         \/ sent' \cup parked' = (sent \cup parked) \cup {m},
         UNCHANGED status
  PROVE  Of(M)!Fail(m)
<1>1. [k \in M |-> Outcome(k)]' = [k \in M |-> Outcome(k)]
  BY DEF Outcome
<1>2. [k \in M |-> failures'[k]] = [[k \in M |-> failures[k]] EXCEPT ![m] = @ + 1]
  BY DEF TypeOK, EnvType
<1>3. Outcome(m) = "pending"
  BY DEF Outcome
<1>4. \/ ((sent \cup parked) \cap M)' = (sent \cup parked) \cap M
      \/ ((sent \cup parked) \cap M)' = ((sent \cup parked) \cap M) \cup {m}
  OBVIOUS
<1>. QED
  BY <1>1, <1>2, <1>3, <1>4 DEF Of!Fail

LEMMA OfConfirms ==
  ASSUME TypeOK, NEW M \in SUBSET Msg, NEW m \in M, status[m] = "pending",
         m \in sent \cup parked,
         status' = [status EXCEPT ![m] = "processed"],
         UNCHANGED <<sent, parked, failures>>
  PROVE  Of(M)!Confirm(m)
  BY DEF Of!Confirm, Outcome, TypeOK, RowType

LEMMA OfAbandons ==
  ASSUME TypeOK, NEW M \in SUBSET Msg, NEW m \in M, status[m] = "pending",
         failures[m] = MaxAttempts,
         status' = [status EXCEPT ![m] = "exhausted"],
         UNCHANGED <<sent, parked, failures>>
  PROVE  Of(M)!Abandon(m)
  BY DEF Of!Abandon, Outcome, TypeOK, RowType

\* A step that touches one message keeps the contract of all the others.
LEMMA OfOthers ==
  ASSUME TypeOK, TypeOK', NEW M \in SUBSET Msg, NEW k \in Msg, k \notin M,
         \/ status' = status
         \/ \E v : status' = [status EXCEPT ![k] = v],
         \/ failures' = failures
         \/ \E v : failures' = [failures EXCEPT ![k] = v],
         \/ sent' \cup parked' = sent \cup parked
         \/ sent' \cup parked' = (sent \cup parked) \cup {k}
  PROVE  UNCHANGED Of(M)!vars
<1>1. \A m \in M : status'[m] = status[m]
  BY DEF TypeOK, RowType
<1>2. \A m \in M : failures'[m] = failures[m]
  BY DEF TypeOK, EnvType
<1>3. \A m \in M : m \in sent' \cup parked' <=> m \in sent \cup parked
  OBVIOUS
<1>. QED
  BY <1>1, <1>2, <1>3, OfStutters

LEMMA StepMapsOf ==
  ASSUME ContractInv, TypeOK', [Next]_vars, NEW M \in SUBSET (Msg \ overrun)
  PROVE  [Of(M)!Next]_(Of(M)!vars)
<1> USE DEF ContractInv, OwnerInv
<1>0. M \in SUBSET Msg
  OBVIOUS
<1>1. ASSUME NEW m \in Msg, SaveTx(m) PROVE [Of(M)!Next]_(Of(M)!vars)
  <2>1. /\ status[m] = "absent" /\ status' = [status EXCEPT ![m] = "pending"]
        /\ UNCHANGED <<sent, parked, failures>>
    BY <1>1 DEF SaveTx, netVars, histVars
  <2>2. CASE m \in M
    <3>1. Of(M)!Accept(m)
      BY <1>0, <2>1, <2>2, OfAccepts
    <3>. QED
      BY <2>2, <3>1 DEF Of!Next
  <2>3. CASE m \notin M
    BY <1>0, <2>1, <2>3, OfOthers
  <2>. QED
    BY <2>2, <2>3
<1>2. CASE \/ Tick
           \/ \E r \in Replica :
                DrainTimeout(r) \/ Poll(r) \/ Enqueue(r) \/ Crash(r)
           \/ UNCHANGED vars
  <2>1. UNCHANGED <<status, sent, parked, failures>>
    BY <1>2 DEF Tick, DrainTimeout, Poll, ClaimBatch, ClaimError, Lock, Enqueue,
       Submit, PoolFull, Crash, vars, rowVars, netVars, histVars
  <2>. QED
    BY <1>0, <2>1, OfStutters
<1>3. ASSUME NEW r \in Replica, NEW w \in Worker,
             Take(r, w) \/ MarkFailed(r, w) \/ MarkError(r, w)
      PROVE  UNCHANGED Of(M)!vars
  <2>1. UNCHANGED <<status, sent, parked, failures>>
    BY <1>3 DEF Take, MarkFailed, MarkError, rowVars, netVars, histVars
  <2>. QED
    BY <1>0, <2>1, OfStutters
<1>4. ASSUME NEW r \in Replica, NEW w \in Worker,
             ProduceAck(r, w) \/ ProduceErr(r, w) \/ DLQAck(r, w)
      PROVE  [Of(M)!Next]_(Of(M)!vars)
  <2>1. worker[r][w].phase # "idle"
    BY <1>4 DEF ProduceAck, ProduceErr, DLQAck
  <2>2. PICK k \in Msg : worker[r][w].msg = k
    BY <2>1, BusyType DEF TypeOK
  <2>3. UNCHANGED <<status, failures>>
    BY <1>4 DEF ProduceAck, ProduceErr, DLQAck, rowVars, histVars
  <2>4. \/ UNCHANGED <<sent, parked>>
        \/ sent' \cup parked' = (sent \cup parked) \cup {k}
    BY <1>4, <2>2 DEF ProduceAck, ProduceErr, DLQAck, AfterError
  <2>5. CASE k \in M /\ ~ UNCHANGED <<sent, parked>>
    <3>1. status[k] = "pending"
      BY <2>1, <2>2, <2>5, DeliversPendingOf
    <3>2. Of(M)!HandOver(k)
      BY <1>0, <2>3, <2>4, <2>5, <3>1, OfHandsOver
    <3>. QED
      BY <2>5, <3>2 DEF Of!Next
  <2>6. CASE k \notin M \/ UNCHANGED <<sent, parked>>
    <3>1. CASE UNCHANGED <<sent, parked>>
      BY <1>0, <2>3, <3>1, OfStutters
    <3>2. CASE k \notin M
      BY <1>0, <2>3, <2>4, <3>2, OfOthers
    <3>. QED
      BY <2>6, <3>1, <3>2
  <2>. QED
    BY <2>5, <2>6
<1>5. ASSUME NEW r \in Replica, NEW w \in Worker, DLQErr(r, w)
      PROVE  [Of(M)!Next]_(Of(M)!vars)
  <2>1. worker[r][w].phase # "idle"
    BY <1>5 DEF DLQErr
  <2>2. PICK k \in Msg : worker[r][w].msg = k
    BY <2>1, BusyType DEF TypeOK
  <2>3. /\ failures' = [failures EXCEPT ![k] = IF @ < MaxAttempts THEN @ + 1
                                               ELSE @]
        /\ UNCHANGED <<status, sent>>
        /\ parked' = parked \/ parked' = parked \cup {k}
    BY <1>5, <2>2 DEF DLQErr, AfterError, rowVars
  <2>4. \/ sent' \cup parked' = sent \cup parked
        \/ sent' \cup parked' = (sent \cup parked) \cup {k}
    BY <2>3
  <2>5. CASE k \in M /\ failures[k] < MaxAttempts
    <3>1. failures' = [failures EXCEPT ![k] = @ + 1]
      BY <2>3, <2>5
    <3>2. status[k] = "pending"
      BY <2>1, <2>2, <2>5, DeliversPendingOf
    <3>3. Of(M)!Fail(k)
      BY <1>0, <2>3, <2>5, <2>4, <3>1, <3>2, OfFails
    <3>. QED
      BY <2>5, <3>3 DEF Of!Next
  <2>6. CASE k \in M /\ ~(failures[k] < MaxAttempts)
    <3>1. failures' = failures
      BY <2>3, <2>6 DEF TypeOK, EnvType
    <3>2. status[k] = "pending"
      BY <2>1, <2>2, <2>6, DeliversPendingOf
    <3>3. CASE parked' = parked
      BY <1>0, <2>3, <3>1, <3>3, OfStutters
    <3>4. CASE parked' = parked \cup {k}
      <4>1. sent' \cup parked' = (sent \cup parked) \cup {k}
        BY <2>3, <3>4
      <4>2. Of(M)!HandOver(k)
        BY <1>0, <2>3, <2>6, <3>1, <3>2, <4>1, OfHandsOver
      <4>. QED
        BY <2>6, <4>2 DEF Of!Next
    <3>. QED
      BY <2>3, <3>3, <3>4
  <2>7. CASE k \notin M
    BY <1>0, <2>3, <2>7, <2>4, OfOthers
  <2>. QED
    BY <2>5, <2>6, <2>7
<1>6. ASSUME NEW r \in Replica, NEW w \in Worker, MarkProcessed(r, w)
      PROVE  [Of(M)!Next]_(Of(M)!vars)
  <2>1. worker[r][w].phase = "sent"
    BY <1>6 DEF MarkProcessed
  <2>2. PICK k \in Msg : worker[r][w].msg = k
    BY <2>1, BusyType DEF TypeOK
  <2>3. k \in sent \cup parked
    BY <2>1, <2>2 DEF SentIsSent
  <2>4. /\ status' = [status EXCEPT ![k] = "processed"]
        /\ UNCHANGED <<sent, parked, failures>>
    BY <1>6, <2>2 DEF MarkProcessed, netVars, histVars
  <2>5. CASE k \in M
    <3>1. status[k] = "pending"
      BY <2>1, <2>2, <2>5, DeliversPendingOf
    <3>2. Of(M)!Confirm(k)
      BY <1>0, <2>3, <2>4, <2>5, <3>1, OfConfirms
    <3>. QED
      BY <2>5, <3>2 DEF Of!Next
  <2>6. CASE k \notin M
    BY <1>0, <2>4, <2>6, OfOthers
  <2>. QED
    BY <2>5, <2>6
<1>7. ASSUME NEW r \in Replica, NEW w \in Worker, MarkExhausted(r, w)
      PROVE  [Of(M)!Next]_(Of(M)!vars)
  <2>1. worker[r][w].phase = "failed" /\ GivesUp(worker[r][w].seen + 1)
    BY <1>7 DEF MarkExhausted
  <2>2. PICK k \in Msg : worker[r][w].msg = k /\ worker[r][w].seen \in Nat
    BY <2>1, BusyType DEF TypeOK
  <2>3. /\ status' = [status EXCEPT ![k] = "exhausted"]
        /\ UNCHANGED <<sent, parked, failures>>
    BY <1>7, <2>2 DEF MarkExhausted, netVars, histVars
  <2>4. CASE k \in M
    <3>1. status[k] = "pending"
      BY <2>1, <2>2, <2>4, DeliversPendingOf
    <3>2. worker[r][w].seen <= attempts[k]
      <4>1. Delivery(r, w) \in Jobs(r)
        BY <2>1 DEF Busy, Jobs
      <4>. QED
        BY <2>2, <4>1 DEF SnapshotNotAhead, Delivery
    <3>3. failures[k] >= MaxAttempts
      BY <2>1, <2>2, <3>2, ExhaustionCounted
    <3>4. failures[k] = MaxAttempts
      BY <3>3, OutboxAssumption DEF FailuresCapped, TypeOK, EnvType
    <3>5. Of(M)!Abandon(k)
      BY <1>0, <2>3, <2>4, <3>1, <3>4, OfAbandons
    <3>. QED
      BY <2>4, <3>5 DEF Of!Next
  <2>5. CASE k \notin M
    BY <1>0, <2>3, <2>5, OfOthers
  <2>. QED
    BY <2>4, <2>5
<1>. QED
  BY <1>1, <1>2, <1>3, <1>4, <1>5, <1>6, <1>7
     DEF Next, RunJob, Publish, Record

\* A job that outlives the reclaim window costs its own message the contract and
\* no other: every step keeps the contract of any messages not overrun so far.
THEOREM OverrunsStayAlone == Spec => OthersKeepContract
<1>1. ContractInv /\ ContractInv' /\ [Next]_vars => StepKeepsContract
  BY StepMapsOf DEF StepKeepsContract, ContractInv, OwnerInv
<1>. QED
  BY ContractAlways, <1>1, PTL DEF Spec, OthersKeepContract

\* The messages that are never overrun are delivered as the contract says,
\* whatever happens to the others beside them.
THEOREM KeepsContractOf ==
  ASSUME NEW CONSTANT M, M \in SUBSET Msg
  PROVE  Spec /\ [](overrun \cap M = {}) => Of(M)!Spec
<1>1. Init => Of(M)!Init
  BY DEF Init, Of!Init, Outcome
<1>2. ContractInv /\ ContractInv' /\ [Next]_vars /\ overrun \cap M = {}
        => [Of(M)!Next]_(Of(M)!vars)
  <2> SUFFICES ASSUME ContractInv, ContractInv', [Next]_vars, overrun \cap M = {}
               PROVE  [Of(M)!Next]_(Of(M)!vars)
    OBVIOUS
  <2>1. M \in SUBSET (Msg \ overrun) /\ TypeOK'
    BY DEF ContractInv, OwnerInv
  <2>. QED
    BY <2>1, StepMapsOf
<1>. QED
  BY <1>1, <1>2, ContractAlways, PTL DEF Spec, Of!Spec
=============================================================================
