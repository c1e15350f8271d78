----------------------------- MODULE KafkaProofs -----------------------------
(* At least once, for any number of members, partitions and messages.       *)
EXTENDS KafkaConsumer, SequenceTheorems, TLAPS

MemberType ==
  [pc : {"poll", "handle"}, pos : [Partition -> Nat],
   batch : SUBSET (Partition \X Nat), failed : BOOLEAN, seen : SUBSET Msg]

Types ==
  /\ log \in [Partition -> Seq(Msg)]
  /\ committed \in [Partition -> Nat]
  /\ owner \in [Partition -> Member \cup {None}]
  /\ member \in [Member -> MemberType]
  /\ done \subseteq Msg
  /\ moves \in 0..MaxMoves /\ errs \in 0..HandlerErrors
  /\ fetchErrs \in 0..FetchErrors

\* Offsets are those of records, and whoever has a partition is not behind what
\* the group has committed of it.
Offsets ==
  /\ \A p \in Partition : Len(log[p]) <= MaxLen /\ committed[p] <= Len(log[p])
  /\ \A m \in Member : \A p \in Partition :
       owner[p] = m => /\ committed[p] <= member[m].pos[p]
                       /\ member[m].pos[p] <= Len(log[p])
  /\ \A m \in Member : \A r \in member[m].batch : r[2] < Len(log[r[1]])
  /\ \A m \in Member : member[m].pc = "poll" => member[m].batch = {}

\* Without errors, a record is behind the committed offset, in somebody's map,
\* or behind its owner's position and out of the batch only if it was handled.
Accounted ==
  errs = 0 /\ fetchErrs = 0 =>
    /\ \A m \in Member : member[m].seen \subseteq done
    /\ \A p \in Partition, o \in Nat : o < committed[p] => Record(p, o) \in done
    /\ \A p \in Partition, m \in Member, o \in Nat :
         owner[p] = m /\ o < member[m].pos[p] =>
           Record(p, o) \in done \/ <<p, o>> \in member[m].batch

KInv == Types /\ Offsets /\ Accounted

LEMMA FreshMember ==
  /\ Fresh \in MemberType /\ Fresh.pc = "poll" /\ Fresh.batch = {}
  /\ Fresh.seen = {} /\ Fresh.pos = [p \in Partition |-> 0]
  BY DEF Fresh, MemberType

LEMMA KInit == Init => KInv
<1> SUFFICES ASSUME Init PROVE KInv
  OBVIOUS
<1>1. Types
  BY FreshMember, ConsumerAssumption DEF Init, Types
<1>2. Offsets
  BY FreshMember, ConsumerAssumption DEF Init, Offsets
<1>3. Accounted
  BY FreshMember, ConsumerAssumption DEF Init, Accounted
<1>. QED
  BY <1>1, <1>2, <1>3 DEF KInv

-----------------------------------------------------------------------------
(* Steps of the brokers                                                    *)

\* A record keeps its place when the log grows.
LEMMA AppendKeeps ==
  ASSUME NEW s \in Seq(Msg), NEW msg \in Msg
  PROVE  /\ Append(s, msg) \in Seq(Msg) /\ Len(Append(s, msg)) = Len(s) + 1
         /\ \A o \in Nat : o < Len(s) => Append(s, msg)[o + 1] = s[o + 1]
  OBVIOUS

LEMMA ProduceKeeps ==
  ASSUME KInv, NEW p \in Partition, NEW msg \in Msg, Produce(p, msg)
  PROVE  KInv'
<1> DEFINE s == Append(log[p], msg)
<1>1. /\ s \in Seq(Msg) /\ Len(s) = Len(log[p]) + 1
      /\ \A o \in Nat : o < Len(log[p]) => s[o + 1] = log[p][o + 1]
  BY AppendKeeps DEF KInv, Types
<1>2. /\ log' = [log EXCEPT ![p] = s] /\ Len(log[p]) < MaxLen
      /\ UNCHANGED <<committed, owner, member, done, moves, errs, fetchErrs>>
  BY DEF Produce
<1> HIDE DEF s
<1>3. /\ log' \in [Partition -> Seq(Msg)] /\ log'[p] = s
      /\ \A q \in Partition \ {p} : log'[q] = log[q]
  BY <1>1, <1>2 DEF KInv, Types
<1>4. \A q \in Partition :
        /\ Len(log[q]) \in Nat /\ Len(log'[q]) \in Nat
        /\ Len(log[q]) <= Len(log'[q]) /\ Len(log'[q]) <= MaxLen
        /\ \A o \in Nat : o < Len(log[q]) => Record(q, o)' = Record(q, o)
  BY <1>1, <1>2, <1>3, ConsumerAssumption DEF KInv, Types, Offsets, Record
<1>5. Types'
  BY <1>2, <1>3 DEF KInv, Types
<1>6. Offsets'
  <2>1. \A m \in Member : member[m] \in MemberType
    BY DEF KInv, Types
  <2>. QED
    BY <1>2, <1>4, <2>1 DEF KInv, Types, Offsets, MemberType
<1>7. Accounted'
  <2> SUFFICES ASSUME errs = 0, fetchErrs = 0, NEW q \in Partition, NEW o \in Nat
               PROVE  /\ o < committed[q] => Record(q, o)' \in done
                      /\ \A m \in Member :
                           owner[q] = m /\ o < member[m].pos[q] =>
                             \/ Record(q, o)' \in done
                             \/ <<q, o>> \in member[m].batch
    BY <1>2 DEF KInv, Accounted
  <2>1. committed[q] \in Nat /\ \A m \in Member : member[m].pos[q] \in Nat
    BY DEF KInv, Types, MemberType
  <2>2. o < committed[q] => Record(q, o)' \in done
    <3>1. ASSUME o < committed[q] PROVE o < Len(log[q])
      BY <1>4, <2>1, <3>1 DEF KInv, Offsets
    <3>. QED
      BY <1>4, <3>1 DEF KInv, Accounted
  <2>3. ASSUME NEW m \in Member, owner[q] = m, o < member[m].pos[q]
        PROVE  Record(q, o)' \in done \/ <<q, o>> \in member[m].batch
    <3>1. o < Len(log[q])
      BY <1>4, <2>1, <2>3 DEF KInv, Offsets
    <3>. QED
      BY <1>4, <2>3, <3>1 DEF KInv, Accounted
  <2>. QED
    BY <2>2, <2>3
<1>. QED
  BY <1>5, <1>6, <1>7 DEF KInv

LEMMA AssignKeeps ==
  ASSUME KInv, NEW p \in Partition, NEW m \in Member, Assign(p, m)
  PROVE  KInv'
<1> DEFINE r == [member[m] EXCEPT !.pos[p] = committed[p]]
<1>1. member[m] \in MemberType /\ committed[p] \in Nat
  BY DEF KInv, Types
<1>2. /\ r \in MemberType /\ r.pc = member[m].pc /\ r.batch = member[m].batch
      /\ r.seen = member[m].seen /\ r.pos[p] = committed[p]
      /\ \A q \in Partition \ {p} : r.pos[q] = member[m].pos[q]
  BY <1>1 DEF MemberType
<1>3. /\ member' = [member EXCEPT ![m] = r]
      /\ owner' = [owner EXCEPT ![p] = m] /\ owner[p] = None
      /\ UNCHANGED <<log, committed, done, moves, errs, fetchErrs>>
  BY DEF Assign
<1> HIDE DEF r
<1>4. /\ member' \in [Member -> MemberType] /\ member'[m] = r
      /\ \A n \in Member \ {m} : member'[n] = member[n]
      /\ owner' \in [Partition -> Member \cup {None}] /\ owner'[p] = m
      /\ \A q \in Partition \ {p} : owner'[q] = owner[q]
  BY <1>2, <1>3 DEF KInv, Types
<1>5. Types'
  BY <1>3, <1>4 DEF KInv, Types
<1>6. Offsets'
  BY <1>2, <1>3, <1>4 DEF KInv, Types, Offsets
<1>7. Accounted'
  BY <1>2, <1>3, <1>4 DEF KInv, Types, Accounted, Record
<1>. QED
  BY <1>5, <1>6, <1>7 DEF KInv

LEMMA RevokeKeeps ==
  ASSUME KInv, NEW p \in Partition, Revoke(p)
  PROVE  KInv'
<1>1. /\ owner' = [owner EXCEPT ![p] = None] /\ moves' \in 0..MaxMoves
      /\ UNCHANGED <<log, committed, member, done, errs, fetchErrs>>
  BY ConsumerAssumption DEF Revoke, KInv, Types
<1>2. \A q \in Partition : owner'[q] = owner[q] \/ owner'[q] \notin Member
  BY <1>1, ConsumerAssumption DEF KInv, Types
<1>3. Types'
  BY <1>1 DEF KInv, Types
<1>4. Offsets'
  BY <1>1, <1>2 DEF KInv, Offsets
<1>5. Accounted'
  BY <1>1, <1>2 DEF KInv, Accounted, Record
<1>. QED
  BY <1>3, <1>4, <1>5 DEF KInv

LEMMA RestartKeeps ==
  ASSUME KInv, NEW m \in Member, Restart(m)
  PROVE  KInv'
<1>1. /\ owner' = [p \in Partition |-> IF owner[p] = m THEN None ELSE owner[p]]
      /\ member' = [member EXCEPT ![m] = Fresh] /\ moves' \in 0..MaxMoves
      /\ UNCHANGED <<log, committed, done, errs, fetchErrs>>
  BY ConsumerAssumption DEF Restart, KInv, Types
<1>2. /\ member' \in [Member -> MemberType] /\ member'[m] = Fresh
      /\ \A n \in Member \ {m} : member'[n] = member[n]
  BY <1>1, FreshMember DEF KInv, Types
<1>3. /\ owner' \in [Partition -> Member \cup {None}]
      /\ \A q \in Partition : /\ owner'[q] # m
                              /\ owner'[q] = owner[q] \/ owner'[q] \notin Member
  BY <1>1, ConsumerAssumption DEF KInv, Types
<1>4. Types'
  BY <1>1, <1>2, <1>3 DEF KInv, Types
<1>5. Offsets'
  BY <1>1, <1>2, <1>3, FreshMember DEF KInv, Offsets
<1>6. Accounted'
  BY <1>1, <1>2, <1>3, FreshMember DEF KInv, Accounted, Record
<1>. QED
  BY <1>4, <1>5, <1>6 DEF KInv

-----------------------------------------------------------------------------
(* Steps of a member                                                       *)

\* What a member's step has to see to, with r what becomes of the member.
StepFits(m, r) ==
  /\ \A p \in Partition : owner[p] = m =>
       committed'[p] <= r.pos[p] /\ r.pos[p] <= Len(log[p])
  /\ \A x \in r.batch : x[2] < Len(log[x[1]])
  /\ r.pc = "poll" => r.batch = {}
  /\ errs' = 0 /\ fetchErrs' = 0 =>
       /\ errs = 0 /\ fetchErrs = 0
       /\ r.seen \subseteq done'
       /\ \A p \in Partition, o \in Nat :
            /\ o < committed'[p] => Record(p, o) \in done'
            /\ owner[p] = m /\ o < r.pos[p] =>
                 Record(p, o) \in done' \/ <<p, o>> \in r.batch

LEMMA MemberStep ==
  ASSUME KInv, NEW m \in Member, NEW r \in MemberType,
         member' = [member EXCEPT ![m] = r],
         UNCHANGED <<log, owner, moves>>,
         committed' \in [Partition -> Nat], done \subseteq done', done' \subseteq Msg,
         errs' \in 0..HandlerErrors, fetchErrs' \in 0..FetchErrors,
         \A p \in Partition : owner[p] = m \/ committed'[p] = committed[p],
         \A p \in Partition : committed'[p] <= Len(log[p]),
         StepFits(m, r)
  PROVE  KInv'
<1>1. /\ member' \in [Member -> MemberType] /\ member'[m] = r
      /\ \A n \in Member \ {m} : member'[n] = member[n]
  BY DEF KInv, Types
<1>2. Types'
  BY <1>1 DEF KInv, Types
<1>3. Offsets'
  BY <1>1 DEF KInv, Offsets, StepFits
<1>4. Accounted'
  BY <1>1 DEF KInv, Accounted, StepFits, Record
<1>. QED
  BY <1>2, <1>3, <1>4 DEF KInv

LEMMA EndsBound ==
  ASSUME KInv, NEW m \in Member, NEW e \in Ends(m)
  PROVE  /\ e \in [Partition -> Nat]
         /\ \A p \in Partition :
              /\ member[m].pos[p] \in Nat /\ member[m].pos[p] <= e[p]
              /\ owner[p] = m => committed[p] <= e[p] /\ e[p] <= Len(log[p])
              /\ owner[p] # m => e[p] = member[m].pos[p]
<1>1. /\ member[m].pos \in [Partition -> Nat]
      /\ \A p \in Partition : log[p] \in Seq(Msg) /\ Len(log[p]) \in Nat
  BY DEF KInv, Types, MemberType
<1>2. /\ e \in [Partition -> Nat]
      /\ \A p \in Partition :
           /\ member[m].pos[p] <= e[p]
           /\ owner[p] = m => e[p] <= Len(log[p])
           /\ owner[p] # m => e[p] = member[m].pos[p]
  BY <1>1, ConsumerAssumption DEF Ends
<1>3. ASSUME NEW p \in Partition, owner[p] = m PROVE committed[p] <= e[p]
  <2>1. committed[p] \in Nat /\ committed[p] <= member[m].pos[p]
    BY <1>3 DEF KInv, Types, Offsets
  <2>. QED
    BY <1>1, <1>2, <2>1
<1>. QED
  BY <1>1, <1>2, <1>3

LEMMA PollKeeps ==
  ASSUME KInv, NEW m \in Member, Poll(m)
  PROVE  KInv'
<1>1. PICK e \in Ends(m) : member' = [member EXCEPT ![m] =
        [pc |-> "handle", pos |-> e, batch |-> Between(m, e), failed |-> FALSE,
         seen |-> @.seen]]
  BY DEF Poll
<1> DEFINE r == [pc |-> "handle", pos |-> e, batch |-> Between(m, e),
                 failed |-> FALSE, seen |-> member[m].seen]
<1>2. member[m] \in MemberType /\ member[m].pc = "poll" /\ member[m].batch = {}
  BY DEF Poll, KInv, Types, Offsets
<1>3. member' = [member EXCEPT ![m] = r]
  BY <1>1
<1>4. \A x : x \in Between(m, e) <=>
        \E p \in Partition, o \in Nat : /\ x = <<p, o>> /\ o <= MaxLen - 1
                                      /\ member[m].pos[p] <= o /\ o < e[p]
  BY ConsumerAssumption DEF Between, Offset
<1>5. /\ r \in MemberType /\ r.pc = "handle" /\ r.pos = e
      /\ r.batch = Between(m, e) /\ r.seen = member[m].seen
  BY <1>2, <1>4, EndsBound DEF MemberType
<1> HIDE DEF r
<1>6. \A x \in r.batch : x[2] < Len(log[x[1]])
  <2> SUFFICES ASSUME NEW p \in Partition, NEW o \in Nat,
                      member[m].pos[p] <= o, o < e[p]
               PROVE  o < Len(log[p])
    BY <1>4, <1>5
  <2>1. owner[p] = m /\ e[p] <= Len(log[p]) /\ e[p] \in Nat
    BY EndsBound
  <2>. QED
    BY <2>1 DEF KInv, Types
<1>7. ASSUME errs = 0, fetchErrs = 0, NEW p \in Partition, NEW o \in Nat,
             owner[p] = m, o < e[p]
      PROVE  Record(p, o) \in done \/ <<p, o>> \in r.batch
  <2>1. CASE o < member[m].pos[p]
    BY <1>2, <1>7, <2>1 DEF KInv, Accounted
  <2>2. CASE member[m].pos[p] <= o
    <3>1. o <= MaxLen - 1
      BY <1>7, EndsBound, ConsumerAssumption DEF KInv, Types, Offsets
    <3>. QED
      BY <1>4, <1>5, <1>7, <2>2, <3>1
  <2>. QED
    BY <2>1, <2>2, EndsBound
<1>8. /\ UNCHANGED <<log, committed, owner, done, moves, errs, fetchErrs>>
      /\ \A p \in Partition : owner[p] = m =>
           committed[p] <= e[p] /\ e[p] <= Len(log[p])
  BY EndsBound DEF Poll
<1>9. StepFits(m, r)
  BY <1>5, <1>6, <1>7, <1>8 DEF StepFits, KInv, Accounted
<1>. QED
  BY <1>3, <1>5, <1>8, <1>9, MemberStep DEF KInv, Types, Offsets

\* An error is counted: nothing is promised from here on.
LEMMA PollErrorKeeps ==
  ASSUME KInv, NEW m \in Member, PollError(m)
  PROVE  KInv'
<1>1. PICK e \in Ends(m) : member' = [member EXCEPT ![m].pos = e]
  BY DEF PollError
<1> DEFINE r == [member[m] EXCEPT !.pos = e]
<1>2. member[m] \in MemberType /\ member[m].pc = "poll" /\ member[m].batch = {}
  BY DEF PollError, KInv, Types, Offsets
<1>3. member' = [member EXCEPT ![m] = r]
  BY <1>1
<1>4. r \in MemberType /\ r.pos = e /\ r.batch = {}
  BY <1>2, EndsBound DEF MemberType
<1> HIDE DEF r
<1>5. /\ UNCHANGED <<log, committed, owner, done, moves, errs>>
      /\ fetchErrs' = fetchErrs + 1 /\ fetchErrs < FetchErrors
      /\ \A p \in Partition : owner[p] = m =>
           committed[p] <= e[p] /\ e[p] <= Len(log[p])
  BY EndsBound DEF PollError
<1>6. fetchErrs' # 0 /\ fetchErrs' \in 0..FetchErrors
  BY <1>5, ConsumerAssumption DEF KInv, Types
<1>7. StepFits(m, r)
  BY <1>4, <1>5, <1>6 DEF StepFits
<1>. QED
  BY <1>3, <1>4, <1>5, <1>6, <1>7, MemberStep DEF KInv, Types, Offsets

\* The batch of a member that is handling loses a record.
LEMMA RestBatch ==
  ASSUME KInv, NEW m \in Member, NEW p \in Partition, NEW o \in Offset,
         NextOf(m, p, o)
  PROVE  /\ member[m] \in MemberType /\ member[m].pc = "handle"
         /\ Rest(m, p, o) \in SUBSET (Partition \X Nat)
         /\ Rest(m, p, o) = member[m].batch \ {<<p, o>>}
         /\ o \in Nat /\ Record(p, o) \in Msg
         /\ \A x \in Rest(m, p, o) : x[2] < Len(log[x[1]])
<1>1. member[m] \in MemberType /\ o \in Nat /\ <<p, o>> \in member[m].batch
  BY ConsumerAssumption DEF KInv, Types, NextOf, Offset
<1>2. o < Len(log[p]) /\ log[p] \in Seq(Msg)
  BY <1>1 DEF KInv, Types, Offsets
<1>3. Record(p, o) \in Msg
  BY <1>1, <1>2 DEF Record
<1>. QED
  BY <1>1, <1>3 DEF NextOf, Rest, KInv, Offsets, MemberType

LEMMA HandleKeeps ==
  ASSUME KInv, NEW m \in Member, Handle(m)
  PROVE  KInv'
<1>1. PICK p \in Partition, o \in Offset :
        Skip(m, p, o) \/ HandleOK(m, p, o) \/ HandleErr(m, p, o)
  BY DEF Handle
<1>2. NextOf(m, p, o)
  BY <1>1 DEF Skip, HandleOK, HandleErr
<1>3. /\ member[m] \in MemberType /\ member[m].pc = "handle"
      /\ Rest(m, p, o) \in SUBSET (Partition \X Nat)
      /\ Rest(m, p, o) = member[m].batch \ {<<p, o>>}
      /\ o \in Nat /\ Record(p, o) \in Msg
      /\ \A x \in Rest(m, p, o) : x[2] < Len(log[x[1]])
  BY <1>2, RestBatch
<1>4. ASSUME NEW r, r = [member[m] EXCEPT !.batch = Rest(m, p, o)]
      PROVE  /\ r \in MemberType /\ r.pc = "handle" /\ r.pos = member[m].pos
             /\ r.seen = member[m].seen /\ r.batch = Rest(m, p, o)
  BY <1>3, <1>4 DEF MemberType
<1>5. CASE Skip(m, p, o)
  <2> DEFINE r == [member[m] EXCEPT !.batch = Rest(m, p, o)]
  <2>1. /\ r \in MemberType /\ r.pc = "handle" /\ r.pos = member[m].pos
        /\ r.seen = member[m].seen /\ r.batch = Rest(m, p, o)
    BY <1>4
  <2>2. /\ member' = [member EXCEPT ![m] = r] /\ Record(p, o) \in member[m].seen
        /\ UNCHANGED <<log, committed, owner, done, moves, errs, fetchErrs>>
    BY <1>5 DEF Skip
  <2> HIDE DEF r
  <2>3. StepFits(m, r)
    BY <1>3, <2>1, <2>2 DEF StepFits, KInv, Offsets, Accounted
  <2>. QED
    BY <2>1, <2>2, <2>3, MemberStep DEF KInv, Types, Offsets
<1>6. CASE HandleOK(m, p, o)
  <2> DEFINE r == [member[m] EXCEPT !.batch = Rest(m, p, o),
                                    !.seen = @ \cup {Record(p, o)}]
  <2>1. /\ r \in MemberType /\ r.pc = "handle" /\ r.pos = member[m].pos
        /\ r.seen = member[m].seen \cup {Record(p, o)}
        /\ r.batch = Rest(m, p, o)
    BY <1>3 DEF MemberType
  <2>2. /\ member' = [member EXCEPT ![m] = r] /\ done' = done \cup {Record(p, o)}
        /\ UNCHANGED <<log, committed, owner, moves, errs, fetchErrs>>
    BY <1>6 DEF HandleOK
  <2> HIDE DEF r
  <2>3. StepFits(m, r)
    BY <1>3, <2>1, <2>2 DEF StepFits, KInv, Offsets, Accounted
  <2>4. done' \subseteq Msg
    BY <1>3, <2>2 DEF KInv, Types
  <2>. QED
    BY <2>1, <2>2, <2>3, <2>4, MemberStep DEF KInv, Types, Offsets
<1>7. CASE HandleErr(m, p, o)
  <2> DEFINE r == [member[m] EXCEPT !.batch = Rest(m, p, o), !.failed = TRUE,
                                    !.seen = @ \cup {Record(p, o)}]
  <2>1. /\ r \in MemberType /\ r.pc = "handle" /\ r.pos = member[m].pos
        /\ r.batch = Rest(m, p, o)
    BY <1>3 DEF MemberType
  <2>2. /\ member' = [member EXCEPT ![m] = r] /\ errs' = errs + 1
        /\ errs < HandlerErrors
        /\ UNCHANGED <<log, committed, owner, done, moves, fetchErrs>>
    BY <1>7 DEF HandleErr
  <2> HIDE DEF r
  <2>3. errs' # 0 /\ errs' \in 0..HandlerErrors
    BY <2>2, ConsumerAssumption DEF KInv, Types
  <2>4. StepFits(m, r)
    BY <1>3, <2>1, <2>2, <2>3 DEF StepFits, KInv, Offsets
  <2>. QED
    BY <2>1, <2>2, <2>3, <2>4, MemberStep DEF KInv, Types, Offsets
<1>. QED
  BY <1>1, <1>5, <1>6, <1>7

LEMMA FinishKeeps ==
  ASSUME KInv, NEW m \in Member, Commit(m) \/ NoCommit(m)
  PROVE  KInv'
<1> DEFINE r == [member[m] EXCEPT !.pc = "poll"]
<1>1. member[m] \in MemberType /\ member[m].batch = {}
  BY DEF Commit, NoCommit, Handled, KInv, Types
<1>2. /\ r \in MemberType /\ r.pc = "poll" /\ r.pos = member[m].pos
      /\ r.batch = {} /\ r.seen = member[m].seen
  BY <1>1 DEF MemberType
<1>3. /\ member' = [member EXCEPT ![m] = r]
      /\ UNCHANGED <<log, owner, done, moves, errs, fetchErrs>>
  BY DEF Commit, NoCommit, NextPoll
<1> HIDE DEF r
<1>4. CASE Commit(m)
  <2>1. /\ committed' \in [Partition -> Nat]
        /\ \A p \in Partition :
             /\ owner[p] = m => committed'[p] = member[m].pos[p]
             /\ owner[p] # m => committed'[p] = committed[p]
    BY <1>1, <1>4 DEF Commit, KInv, Types, MemberType
  <2>2. \A p \in Partition : committed'[p] <= Len(log[p])
    BY <2>1 DEF KInv, Offsets
  <2>3. /\ \A p \in Partition : owner[p] = m =>
             committed'[p] <= r.pos[p] /\ r.pos[p] <= Len(log[p])
        /\ \A x \in r.batch : x[2] < Len(log[x[1]])
    BY <1>1, <1>2, <2>1 DEF KInv, Types, MemberType, Offsets
  <2>4. ASSUME errs = 0, fetchErrs = 0, NEW p \in Partition, NEW o \in Nat,
               o < committed'[p] \/ (owner[p] = m /\ o < r.pos[p])
        PROVE  Record(p, o) \in done
    <3>1. CASE owner[p] = m
      BY <1>1, <1>2, <2>1, <2>4, <3>1 DEF KInv, Accounted
    <3>2. CASE owner[p] # m
      BY <2>1, <2>4, <3>2 DEF KInv, Accounted
    <3>. QED
      BY <3>1, <3>2
  <2>5. errs = 0 /\ fetchErrs = 0 => r.seen \subseteq done
    BY <1>2 DEF KInv, Accounted
  <2>6. StepFits(m, r)
    BY <1>2, <1>3, <2>3, <2>4, <2>5 DEF StepFits
  <2>. QED
    BY <1>2, <1>3, <2>1, <2>2, <2>6, MemberStep DEF KInv, Types
<1>5. CASE NoCommit(m)
  <2>1. UNCHANGED committed
    BY <1>5 DEF NoCommit
  <2>2. StepFits(m, r)
    BY <1>1, <1>2, <1>3, <2>1 DEF StepFits, KInv, Offsets, Accounted
  <2>. QED
    BY <1>2, <1>3, <2>1, <2>2, MemberStep DEF KInv, Types, Offsets
<1>. QED
  BY <1>4, <1>5

LEMMA KNext == KInv /\ [Next]_vars => KInv'
<1> SUFFICES ASSUME KInv, [Next]_vars PROVE KInv'
  OBVIOUS
<1>1. ASSUME NEW p \in Partition, NEW msg \in Msg, Produce(p, msg) PROVE KInv'
  BY <1>1, ProduceKeeps
<1>2. ASSUME NEW p \in Partition, Revoke(p) PROVE KInv'
  BY <1>2, RevokeKeeps
<1>3. ASSUME NEW p \in Partition, NEW m \in Member, Assign(p, m) PROVE KInv'
  BY <1>3, AssignKeeps
<1>4. ASSUME NEW m \in Member, Restart(m) PROVE KInv'
  BY <1>4, RestartKeeps
<1>5. ASSUME NEW m \in Member, Run(m) PROVE KInv'
  BY <1>5, PollKeeps, PollErrorKeeps, HandleKeeps, FinishKeeps DEF Run, Advance
<1>6. CASE UNCHANGED vars
  BY <1>6 DEF vars, KInv, Types, Offsets, Accounted, Record
<1>. QED
  BY <1>1, <1>2, <1>3, <1>4, <1>5, <1>6 DEF Next

LEMMA KAlways == Spec => []KInv
  BY KInit, KNext, PTL DEF Spec

-----------------------------------------------------------------------------
(* The theorems                                                            *)

\* Offsets, positions and batches stay inside the log.
THEOREM ConsumerTypes == Spec => []TypeOK
<1>1. KInv => TypeOK
  BY ConsumerAssumption DEF KInv, Types, Offsets, MemberType, TypeOK
<1>. QED
  BY <1>1, KAlways, PTL

\* Short of errors, what the group has committed past has been handled.
THEOREM AtLeastOnce == Spec => []NothingSkipped
<1>1. KInv => NothingSkipped
  <2>1. Offset \subseteq Nat
    BY ConsumerAssumption DEF Offset
  <2>. QED
    BY <2>1 DEF KInv, Accounted, NothingSkipped, Skipped
<1>. QED
  BY <1>1, KAlways, PTL

\* No commit takes the group back, whoever made it.
THEOREM OffsetsAdvance == Spec => CommitsAdvance
<1>1. ASSUME KInv, [Next]_vars, NEW p \in Partition
      PROVE  committed[p] <= committed'[p]
  <2>1. committed[p] \in Nat
    BY <1>1 DEF KInv, Types
  <2>2. CASE UNCHANGED committed
    BY <2>1, <2>2
  <2>3. ASSUME NEW m \in Member, Commit(m) PROVE committed[p] <= committed'[p]
    BY <1>1, <2>1, <2>3 DEF Commit, KInv, Offsets
  <2>4. CASE UNCHANGED vars
    BY <2>2, <2>4 DEF vars
  <2>5. CASE \E q \in Partition, msg \in Msg : Produce(q, msg)
    BY <2>2, <2>5 DEF Produce
  <2>6. CASE \E q \in Partition : Revoke(q) \/ \E m \in Member : Assign(q, m)
    BY <2>2, <2>6 DEF Revoke, Assign
  <2>7. CASE \E m \in Member : Restart(m) \/ PollError(m) \/ Poll(m) \/ NoCommit(m)
    BY <2>2, <2>7 DEF Restart, PollError, Poll, NoCommit
  <2>8. CASE \E m \in Member : Handle(m)
    BY <2>2, <2>8 DEF Handle, Skip, HandleOK, HandleErr
  <2>. QED
    BY <1>1, <2>3, <2>4, <2>5, <2>6, <2>7, <2>8 DEF Next, Run, Advance
<1>2. KInv /\ [Next]_vars => [\A p \in Partition : committed[p] <= committed'[p]]_vars
  BY <1>1
<1>. QED
  BY <1>2, KAlways, PTL DEF Spec, CommitsAdvance

-----------------------------------------------------------------------------
(* One message                                                             *)

\* Until msg is handled, nobody's map has it, nothing is committed past it, and
\* whoever has its partition has yet to fetch it or to handle it.
AccountedOf(msg) ==
  msg \notin done =>
    /\ \A m \in Member : msg \notin member[m].seen
    /\ \A p \in Partition, o \in Nat : o < committed[p] => Record(p, o) # msg
    /\ \A p \in Partition, m \in Member, o \in Nat :
         owner[p] = m /\ o < member[m].pos[p] =>
           Record(p, o) # msg \/ <<p, o>> \in member[m].batch

\* The brokers move no message past anybody.
LEMMA BrokersSpare ==
  ASSUME KInv, NEW msg \in Msg, AccountedOf(msg),
         \/ \E p \in Partition, x \in Msg : Produce(p, x)
         \/ \E p \in Partition : Revoke(p) \/ \E m \in Member : Assign(p, m)
         \/ \E m \in Member : Restart(m)
  PROVE  AccountedOf(msg)'
<1> SUFFICES ASSUME msg \notin done'
             PROVE  /\ \A m \in Member : msg \notin member'[m].seen
                    /\ \A p \in Partition, o \in Nat :
                         o < committed'[p] => Record(p, o)' # msg
                    /\ \A p \in Partition, m \in Member, o \in Nat :
                         owner'[p] = m /\ o < member'[m].pos[p] =>
                           Record(p, o)' # msg \/ <<p, o>> \in member'[m].batch
  BY DEF AccountedOf
<1>1. done' = done /\ committed' = committed
  BY DEF Produce, Revoke, Assign, Restart
<1>2. ASSUME NEW p \in Partition, NEW x \in Msg, Produce(p, x),
             NEW q \in Partition, NEW o \in Nat, o < Len(log[q])
      PROVE  Record(q, o)' = Record(q, o)
  <2>1. /\ log' = [log EXCEPT ![p] = Append(log[p], x)]
        /\ log \in [Partition -> Seq(Msg)]
    BY <1>2 DEF Produce, KInv, Types
  <2>2. Append(log[p], x)[o + 1] = log[p][o + 1] \/ q # p
    BY <1>2, <2>1, AppendKeeps
  <2>. QED
    BY <2>1, <2>2 DEF Record
<1>3. \A q \in Partition :
        /\ committed[q] \in Nat /\ Len(log[q]) \in Nat /\ committed[q] <= Len(log[q])
        /\ \A m \in Member : /\ member[m].pos[q] \in Nat
                             /\ owner[q] = m => member[m].pos[q] <= Len(log[q])
  BY DEF KInv, Types, Offsets, MemberType
<1>4. CASE \E p \in Partition, x \in Msg : Produce(p, x)
  <2>1. PICK p \in Partition, x \in Msg : Produce(p, x)
    BY <1>4
  <2>2. UNCHANGED <<owner, member, done, committed>>
    BY <2>1 DEF Produce
  <2>3. ASSUME NEW q \in Partition, NEW o \in Nat, o < committed[q]
        PROVE  Record(q, o)' # msg
    <3>1. o < Len(log[q])
      BY <1>3, <2>3
    <3>. QED
      BY <1>1, <1>2, <2>1, <2>3, <3>1 DEF AccountedOf
  <2>4. ASSUME NEW q \in Partition, NEW m \in Member, NEW o \in Nat,
               owner[q] = m, o < member[m].pos[q]
        PROVE  Record(q, o)' # msg \/ <<q, o>> \in member[m].batch
    <3>1. o < Len(log[q])
      BY <1>3, <2>4
    <3>. QED
      BY <1>1, <1>2, <2>1, <2>4, <3>1 DEF AccountedOf
  <2>. QED
    BY <1>1, <2>2, <2>3, <2>4 DEF AccountedOf
<1>5. CASE \E p \in Partition : Revoke(p)
  <2>1. PICK p \in Partition : Revoke(p)
    BY <1>5
  <2>2. \A q \in Partition : owner'[q] = owner[q] \/ owner'[q] \notin Member
    BY <2>1, ConsumerAssumption DEF Revoke, KInv, Types
  <2>. QED
    BY <1>1, <2>1, <2>2 DEF Revoke, AccountedOf, Record
<1>6. CASE \E m \in Member : Restart(m)
  <2>1. PICK m \in Member : Restart(m)
    BY <1>6
  <2>2. /\ \A q \in Partition :
             owner'[q] # m /\ (owner'[q] = owner[q] \/ owner'[q] \notin Member)
        /\ \A n \in Member \ {m} : member'[n] = member[n]
        /\ member'[m] = Fresh /\ log' = log
    BY <2>1, ConsumerAssumption DEF Restart, KInv, Types
  <2>. QED
    BY <1>1, <2>2, FreshMember DEF AccountedOf, Record
<1>7. CASE \E p \in Partition, m \in Member : Assign(p, m)
  <2>1. PICK p \in Partition, m \in Member : Assign(p, m)
    BY <1>7
  <2> DEFINE r == [member[m] EXCEPT !.pos[p] = committed[p]]
  <2>2. member[m] \in MemberType /\ committed[p] \in Nat
    BY DEF KInv, Types
  <2>3. /\ r.batch = member[m].batch /\ r.seen = member[m].seen
        /\ r.pos[p] = committed[p]
        /\ \A q \in Partition \ {p} : r.pos[q] = member[m].pos[q]
    BY <2>2 DEF MemberType
  <2>4. member' = [member EXCEPT ![m] = r] /\ log' = log
    BY <2>1 DEF Assign
  <2> HIDE DEF r
  <2>5. /\ member'[m] = r /\ \A n \in Member \ {m} : member'[n] = member[n]
        /\ owner'[p] = m /\ \A q \in Partition \ {p} : owner'[q] = owner[q]
    BY <2>1, <2>4 DEF Assign, KInv, Types
  <2>. QED
    BY <1>1, <2>3, <2>4, <2>5 DEF AccountedOf, Record
<1>. QED
  BY <1>4, <1>5, <1>6, <1>7

\* A poll, with or without an error.
LEMMA PollSpares ==
  ASSUME KInv, NEW msg \in Msg, AccountedOf(msg), NEW m \in Member,
         \/ Poll(m)
         \/ PollError(m) /\ Spares(msg)
  PROVE  AccountedOf(msg)'
<1> SUFFICES ASSUME msg \notin done PROVE AccountedOf(msg)'
  BY DEF AccountedOf, Poll, PollError
<1>1. PICK e \in Ends(m) :
        \/ Poll(m) /\ member' = [member EXCEPT ![m] =
             [pc |-> "handle", pos |-> e, batch |-> Between(m, e), failed |-> FALSE,
              seen |-> @.seen]]
        \/ PollError(m) /\ Spares(msg) /\ member' = [member EXCEPT ![m].pos = e]
  BY DEF Poll, PollError
<1>2. /\ member[m] \in MemberType /\ member[m].batch = {}
      /\ UNCHANGED <<log, owner, committed, done>>
  BY DEF Poll, PollError, KInv, Types, Offsets
<1>3. /\ member'[m].pos = e /\ member'[m].seen = member[m].seen
      /\ \A n \in Member \ {m} : member'[n] = member[n]
  BY <1>1, <1>2 DEF KInv, Types, MemberType
<1>4. ASSUME NEW p \in Partition, NEW o \in Nat, owner[p] = m, o < e[p]
      PROVE  Record(p, o) # msg \/ <<p, o>> \in member'[m].batch
  <2>1. CASE o < member[m].pos[p]
    BY <1>2, <1>4, <2>1 DEF AccountedOf
  <2>2. CASE member[m].pos[p] <= o
    <3>1. o \in Offset
      BY <1>4, EndsBound, ConsumerAssumption DEF KInv, Types, Offsets, Offset
    <3>2. CASE Poll(m)
      <4>1. member'[m].batch = Between(m, e)
        BY <1>1, <1>2, <3>2 DEF KInv, Types, Poll, PollError
      <4>. QED
        BY <1>4, <2>2, <3>1, <4>1 DEF Between
    <3>3. CASE PollError(m) /\ Spares(msg)
      BY <1>3, <1>4, <2>2, <3>1, <3>3 DEF Spares, Drops
    <3>. QED
      BY <3>2, <3>3
  <2>. QED
    BY <2>1, <2>2, EndsBound
<1>. QED
  BY <1>2, <1>3, <1>4 DEF AccountedOf, Record

\* A record of another message, or one that is handled.
LEMMA HandleSpares ==
  ASSUME KInv, NEW msg \in Msg, AccountedOf(msg), Spares(msg),
         NEW m \in Member, Handle(m)
  PROVE  AccountedOf(msg)'
<1>1. PICK p \in Partition, o \in Offset :
        Skip(m, p, o) \/ HandleOK(m, p, o) \/ HandleErr(m, p, o)
  BY DEF Handle
<1> SUFFICES ASSUME msg \notin done' PROVE AccountedOf(msg)'
  BY DEF AccountedOf
<1>2. msg \notin done /\ UNCHANGED <<log, owner, committed>>
  BY <1>1 DEF Skip, HandleOK, HandleErr
<1>3. Record(p, o) # msg
  <2>1. CASE Skip(m, p, o)
    BY <1>2, <2>1 DEF Skip, AccountedOf
  <2>2. CASE HandleOK(m, p, o)
    BY <2>2 DEF HandleOK
  <2>3. CASE HandleErr(m, p, o)
    BY <1>2, <2>3 DEF Spares, Drops
  <2>. QED
    BY <1>1, <2>1, <2>2, <2>3
<1>4. member[m] \in MemberType
  BY DEF KInv, Types
<1>5. /\ member'[m].pos = member[m].pos
      /\ member'[m].batch = member[m].batch \ {<<p, o>>}
      /\ member'[m].seen \subseteq member[m].seen \cup {Record(p, o)}
      /\ \A n \in Member \ {m} : member'[n] = member[n]
  <2> DEFINE r == [member[m] EXCEPT !.batch = member[m].batch \ {<<p, o>>}]
             seen == member[m].seen \cup {Record(p, o)}
  <2>1. \E v \in {r, [r EXCEPT !.seen = seen], [r EXCEPT !.failed = TRUE, !.seen = seen]} :
          member' = [member EXCEPT ![m] = v]
    <3>1. CASE Skip(m, p, o)
      BY <3>1 DEF Skip, Rest
    <3>2. CASE HandleOK(m, p, o)
      BY <1>4, <3>2 DEF HandleOK, Rest
    <3>3. CASE HandleErr(m, p, o)
      BY <1>4, <3>3 DEF HandleErr, Rest
    <3>. QED
      BY <1>1, <3>1, <3>2, <3>3
  <2>2. \A v \in {r, [r EXCEPT !.seen = seen], [r EXCEPT !.failed = TRUE, !.seen = seen]} :
          /\ v.pos = member[m].pos /\ v.batch = member[m].batch \ {<<p, o>>}
          /\ v.seen \subseteq member[m].seen \cup {Record(p, o)}
    BY <1>4 DEF MemberType
  <2> HIDE DEF r, seen
  <2>. QED
    BY <2>1, <2>2 DEF KInv, Types
<1>6. \A q \in Partition, i \in Nat : Record(q, i)' = Record(q, i)
  BY <1>2 DEF Record
<1>. QED
  BY <1>2, <1>3, <1>5, <1>6 DEF AccountedOf

\* The end of a batch, whose records are all handled, skipped or failed.
LEMMA FinishSpares ==
  ASSUME KInv, NEW msg \in Msg, AccountedOf(msg), NEW m \in Member,
         Commit(m) \/ NoCommit(m)
  PROVE  AccountedOf(msg)'
<1>1. /\ member[m].batch = {} /\ member' = [member EXCEPT ![m].pc = "poll"]
      /\ UNCHANGED <<log, owner, done>>
  BY DEF Commit, NoCommit, Handled, NextPoll
<1>2. \A n \in Member : /\ member'[n].pos = member[n].pos
                        /\ member'[n].batch = member[n].batch
                        /\ member'[n].seen = member[n].seen
  BY <1>1 DEF KInv, Types, MemberType
<1>3. \A p \in Partition : \/ committed'[p] = committed[p]
                           \/ owner[p] = m /\ committed'[p] = member[m].pos[p]
  BY DEF Commit, NoCommit
<1>. QED
  BY <1>1, <1>2, <1>3 DEF AccountedOf, Record

LEMMA StepSpares ==
  ASSUME NEW msg \in Msg
  PROVE  KInv /\ AccountedOf(msg) /\ [Next]_vars /\ [Spares(msg)]_vars
           => AccountedOf(msg)'
<1> SUFFICES ASSUME KInv, AccountedOf(msg), [Next]_vars, [Spares(msg)]_vars
             PROVE  AccountedOf(msg)'
  OBVIOUS
<1>1. CASE UNCHANGED vars
  BY <1>1 DEF vars, AccountedOf, Record
<1>2. CASE Next /\ Spares(msg)
  BY <1>2, BrokersSpare, PollSpares, HandleSpares, FinishSpares
     DEF Next, Run, Advance
<1>. QED
  BY <1>1, <1>2

\* A message that no handler fails on and no failing poll brings is handled
\* before the group commits past it, in every group, whatever errors the other
\* messages meet, whoever has the partitions, restarts or fails to commit.
THEOREM ErrorsStayAlone ==
  ASSUME NEW msg \in Msg
  PROVE  Spec /\ [][Spares(msg)]_vars => []HandledOnceCommitted(msg)
<1>1. Init => AccountedOf(msg)
  BY FreshMember DEF Init, AccountedOf
<1>2. AccountedOf(msg) => HandledOnceCommitted(msg)
  <2>1. Offset \subseteq Nat
    BY ConsumerAssumption DEF Offset
  <2>. QED
    BY <2>1 DEF AccountedOf, HandledOnceCommitted
<1>. QED
  BY <1>1, <1>2, StepSpares, KAlways, PTL DEF Spec
=============================================================================
