--------------------------- MODULE KafkaConsumer ---------------------------
(***************************************************************************)
(* The consumer group of the customer events: the loop of Consumer.Run     *)
(* (internal/platform/kafka/consumer.go) in every member, the message_id   *)
(* check that EventHandler.Handle and WithIdempotency make before a record *)
(* is handled, and what the franz-go client and the brokers do around it.  *)
(*                                                                         *)
(* The client keeps, for every partition it is assigned, the position of   *)
(* the next record to fetch.  PollFetches moves it past the records it     *)
(* returns; CommitUncommittedOffsets commits it.  A member that is         *)
(* assigned a partition starts at the committed offset.  Run calls         *)
(* AllowRebalance as soon as it has polled, so partitions may move while   *)
(* the batch is being handled.                                             *)
(***************************************************************************)
EXTENDS Naturals, Sequences, FiniteSets

CONSTANTS
  Member,         \* consumers of the group, each with its Handler
  Partition,
  Msg,            \* outbox messages; a retried one is in the log twice
  None,
  MaxLen,         \* bound: records in a partition
  MaxMoves,       \* bound: revoked partitions, crashes and restarts
  HandlerErrors,  \* bound: records the handler returns an error for
  FetchErrors     \* bound: polls that report an error of a partition

ASSUME ConsumerAssumption ==
  /\ None \notin Member
  /\ {MaxLen, MaxMoves, HandlerErrors, FetchErrors} \subseteq Nat

VARIABLES
  log,        \* the records of every partition, by message_id
  committed,  \* the group's committed offset of every partition
  owner,      \* the member a partition is assigned to
  member,     \* every member: its loop, positions, batch and dedup map
  done,       \* the messages some handler has handled successfully
  moves, errs, fetchErrs  \* the bounded counters

vars == <<log, committed, owner, member, done, moves, errs, fetchErrs>>

\* Offsets count from 0; the record at offset o is log[p][o + 1].
Offset == 0..(MaxLen - 1)
Record(p, o) == log[p][o + 1]

Fresh == [pc |-> "poll", pos |-> [p \in Partition |-> 0], batch |-> {},
          failed |-> FALSE, seen |-> {}]

Init ==
  /\ log = [p \in Partition |-> <<>>]
  /\ committed = [p \in Partition |-> 0]
  /\ owner = [p \in Partition |-> None]
  /\ member = [m \in Member |-> Fresh]
  /\ done = {}
  /\ moves = 0 /\ errs = 0 /\ fetchErrs = 0

-----------------------------------------------------------------------------
(* The brokers                                                             *)

\* The outbox poller publishes a message, perhaps not for the first time.
Produce(p, msg) ==
  /\ Len(log[p]) < MaxLen
  /\ log' = [log EXCEPT ![p] = Append(@, msg)]
  /\ UNCHANGED <<committed, owner, member, done, moves, errs, fetchErrs>>

Assign(p, m) ==
  /\ owner[p] = None
  /\ owner' = [owner EXCEPT ![p] = m]
  /\ member' = [member EXCEPT ![m].pos[p] = committed[p]]
  /\ UNCHANGED <<log, committed, done, moves, errs, fetchErrs>>

\* A rebalance takes the partition away; what was polled stays in the batch.
Revoke(p) ==
  /\ owner[p] # None
  /\ moves < MaxMoves
  /\ moves' = moves + 1
  /\ owner' = [owner EXCEPT ![p] = None]
  /\ UNCHANGED <<log, committed, member, done, errs, fetchErrs>>

\* The process of a member dies and restarts with an empty dedup map; a
\* cancelled context, on which Run returns without a commit, comes to the same.
Restart(m) ==
  /\ moves < MaxMoves
  /\ moves' = moves + 1
  /\ owner' = [p \in Partition |-> IF owner[p] = m THEN None ELSE owner[p]]
  /\ member' = [member EXCEPT ![m] = Fresh]
  /\ UNCHANGED <<log, committed, done, errs, fetchErrs>>

-----------------------------------------------------------------------------
(* Consumer.Run                                                            *)

\* What a poll may return: a prefix, perhaps empty, of what every assigned
\* partition has past the position of the member.
Ends(m) ==
  {e \in [Partition -> 0..MaxLen] : \A p \in Partition :
     e[p] \in member[m].pos[p]..(IF owner[p] = m THEN Len(log[p])
                                 ELSE member[m].pos[p])}

Between(m, e) ==
  {r \in Partition \X Offset : member[m].pos[r[1]] <= r[2] /\ r[2] < e[r[1]]}

\* Mutant of Poll: the client commits what it returns (no DisableAutoCommit).
PollAutoCommits(m) ==
  /\ member[m].pc = "poll"
  /\ \E e \in Ends(m) :
       /\ e # member[m].pos
       /\ member' = [member EXCEPT ![m] =
            [pc |-> "handle", pos |-> e, batch |-> Between(m, e), failed |-> FALSE,
             seen |-> @.seen]]
       /\ committed' = [p \in Partition |-> IF owner[p] = m THEN e[p] ELSE committed[p]]
  /\ UNCHANGED <<log, owner, done, moves, errs, fetchErrs>>

Poll(m) ==
  /\ member[m].pc = "poll"
  /\ \E e \in Ends(m) :
       /\ e # member[m].pos
       /\ member' = [member EXCEPT ![m] =
            [pc |-> "handle", pos |-> e, batch |-> Between(m, e), failed |-> FALSE,
             seen |-> @.seen]]
  /\ UNCHANGED <<log, committed, owner, done, moves, errs, fetchErrs>>

\* The fetches carry an error of some partition: Run logs it and polls again,
\* without a look at the records the same fetches brought.
PollError(m) ==
  /\ member[m].pc = "poll"
  /\ fetchErrs < FetchErrors
  /\ fetchErrs' = fetchErrs + 1
  /\ \E e \in Ends(m) : member' = [member EXCEPT ![m].pos = e]
  /\ UNCHANGED <<log, committed, owner, done, moves, errs>>

\* EachRecord goes through a partition in the order of its offsets.
NextOf(m, p, o) ==
  /\ member[m].pc = "handle"
  /\ <<p, o>> \in member[m].batch
  /\ \A i \in Offset : i < o => <<p, i>> \notin member[m].batch

Rest(m, p, o) == member[m].batch \ {<<p, o>>}

\* The message_id is in the dedup map: the record counts as handled.
Skip(m, p, o) ==
  /\ NextOf(m, p, o)
  /\ Record(p, o) \in member[m].seen
  /\ member' = [member EXCEPT ![m].batch = Rest(m, p, o)]
  /\ UNCHANGED <<log, committed, owner, done, moves, errs, fetchErrs>>

\* LoadOrStore enters the message_id, then the handler runs and succeeds ...
HandleOK(m, p, o) ==
  /\ NextOf(m, p, o)
  /\ Record(p, o) \notin member[m].seen
  /\ member' = [member EXCEPT ![m].batch = Rest(m, p, o),
                              ![m].seen = @ \cup {Record(p, o)}]
  /\ done' = done \cup {Record(p, o)}
  /\ UNCHANGED <<log, committed, owner, moves, errs, fetchErrs>>

\* ... or returns an error, as WithRecovery does for one that panics: the
\* message_id stays in the map, the batch goes on.
HandleErr(m, p, o) ==
  /\ NextOf(m, p, o)
  /\ Record(p, o) \notin member[m].seen
  /\ errs < HandlerErrors
  /\ errs' = errs + 1
  /\ member' = [member EXCEPT ![m].batch = Rest(m, p, o), ![m].failed = TRUE,
                              ![m].seen = @ \cup {Record(p, o)}]
  /\ UNCHANGED <<log, committed, owner, done, moves, fetchErrs>>

Handled(m) == member[m].pc = "handle" /\ member[m].batch = {}
NextPoll(m) == member' = [member EXCEPT ![m].pc = "poll"]

\* Mutant of Commit: it commits every position, of partitions long lost too.
CommitAllPositions(m) ==
  /\ Handled(m) /\ ~member[m].failed
  /\ committed' = member[m].pos
  /\ NextPoll(m)
  /\ UNCHANGED <<log, owner, done, moves, errs, fetchErrs>>

\* CommitUncommittedOffsets, for the partitions the member still has.
Commit(m) ==
  /\ Handled(m) /\ ~member[m].failed
  /\ committed' = [p \in Partition |->
                     IF owner[p] = m THEN member[m].pos[p] ELSE committed[p]]
  /\ NextPoll(m)
  /\ UNCHANGED <<log, owner, done, moves, errs, fetchErrs>>

\* The commit fails and is logged, or a failed batch is not committed.
NoCommit(m) ==
  /\ Handled(m)
  /\ NextPoll(m)
  /\ UNCHANGED <<log, committed, owner, done, moves, errs, fetchErrs>>

-----------------------------------------------------------------------------

Handle(m) == \E p \in Partition, o \in Offset :
  Skip(m, p, o) \/ HandleOK(m, p, o) \/ HandleErr(m, p, o)

Advance(m) == Poll(m) \/ Handle(m) \/ Commit(m) \/ NoCommit(m)
Run(m) == Advance(m) \/ PollError(m)

Next ==
  \/ \E p \in Partition, msg \in Msg : Produce(p, msg)
  \/ \E p \in Partition : Revoke(p) \/ \E m \in Member : Assign(p, m)
  \/ \E m \in Member : Restart(m) \/ Run(m)

Spec == Init /\ [][Next]_vars

\* Members keep running, though nobody owes them a fetch error, and the group
\* coordinator gives every partition away.
FairSpec ==
  /\ Spec
  /\ \A m \in Member : WF_vars(Advance(m))
  /\ \A p \in Partition : WF_vars(\E m \in Member : Assign(p, m))

-----------------------------------------------------------------------------
(* Properties                                                              *)

\* Positions and committed offsets stay inside the log, a batch behind the
\* position of its partition.
TypeOK ==
  /\ \A p \in Partition :
       /\ Len(log[p]) <= MaxLen
       /\ committed[p] \in 0..Len(log[p])
       /\ owner[p] \in Member \cup {None}
  /\ \A m \in Member :
       /\ member[m].pc \in {"poll", "handle"}
       /\ member[m].seen \subseteq Msg
       /\ \A p \in Partition : owner[p] = m => member[m].pos[p] <= Len(log[p])
       /\ \A r \in member[m].batch : r[2] < Len(log[r[1]])
  /\ done \subseteq Msg
  /\ moves <= MaxMoves /\ errs <= HandlerErrors /\ fetchErrs <= FetchErrors

Skipped == {r \in Partition \X Offset :
              r[2] < committed[r[1]] /\ Record(r[1], r[2]) \notin done}

\* At least once, short of errors: whatever the group has committed past, some
\* member has handled, though partitions move between members in the middle of
\* a batch, members restart and commits fail.
NothingSkipped == errs = 0 /\ fetchErrs = 0 => Skipped = {}

\* The same for one message, whatever happens to the others: a message that has
\* not been handled is dropped when a handler returns an error for it, or when a
\* poll that reports an error has brought it.  Nothing else makes the group
\* commit past it: the errors of a batch or of a poll harm their records alone.
Drops(msg) ==
  /\ msg \notin done
  /\ \E m \in Member, p \in Partition, o \in Offset :
       /\ \/ HandleErr(m, p, o)
          \/ PollError(m) /\ member[m].pos[p] <= o /\ o < member'[m].pos[p]
       /\ Record(p, o) = msg

Spares(msg) == ~Drops(msg)

HandledOnceCommitted(msg) ==
  \A p \in Partition, o \in Offset :
    o < committed[p] /\ Record(p, o) = msg => msg \in done

\* A member that finishes its batch after the partition has moved on does not
\* commit over the new owner's progress.
CommitsAdvance ==
  [][\A p \in Partition : committed[p] <= committed'[p]]_vars

\* Every record of the topic is handled in the end, through moves of partitions,
\* restarts and failed commits, unless a handler or a poll reports an error.
EventuallyHandled ==
  \A p \in Partition, msg \in Msg :
    (\E i \in DOMAIN log[p] : log[p][i] = msg)
      ~> msg \in done \/ errs > 0 \/ fetchErrs > 0

-----------------------------------------------------------------------------
(* What the documents say and the code does not                            *)

\* "If any record in a batch fails, the batch offset is NOT committed so records
\* are redelivered on the next poll (at-least-once guarantee)"
\* (consumer.go:39-40): the group never commits past an unhandled record.
FailedIsRedelivered == Skipped = {}

\* "Each fetched record is dispatched to the Handler." (consumer.go:12): without
\* a failing handler, the group never commits past a record nobody handled.
FetchedIsDispatched == errs = 0 => Skipped = {}

\* "skips records whose message_id header was already processed"
\* (middleware.go:66): a record is skipped only when its message was handled.
SkipsOnlyProcessed ==
  [][\A m \in Member, p \in Partition, o \in Offset :
       Skip(m, p, o) => Record(p, o) \in done]_vars
=============================================================================
