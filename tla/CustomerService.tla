-------------------------- MODULE CustomerService --------------------------
(***************************************************************************)
(* The write side of the customer context (internal/customer/service.go):  *)
(* Register, Update and Remove by concurrent requests, each a sequence of  *)
(* database calls in which a transaction changes the customers table and   *)
(* saves an outbox message, followed by the cache invalidation and the     *)
(* append to the SQLite event log.                                         *)
(*                                                                         *)
(* The database is PostgreSQL at READ COMMITTED: a statement sees what is  *)
(* committed, and waits for the open transactions that hold its row or its *)
(* entry in the unique index on email.  What the invalidation does to the  *)
(* cache is CustomerCache's part; here its two calls only take time.       *)
(***************************************************************************)
EXTENDS Naturals, FiniteSets

CONSTANTS
  Request,   \* requests, one command each; a registration is the new id
  Old,       \* the customers that may be there from the beginning
  Email,     \* addresses in the form New and Update store them
  Time,      \* what the clock of a replica may show
  None,      \* no row, no address
  MaxFaults  \* bound: calls that fail and crashes, in one behaviour

ASSUME CustomerAssumption ==
  /\ IsFiniteSet(Request)
  /\ Request \cap Old = {}
  /\ None \notin Email \cup Request \cup Old
  /\ Time \subseteq Nat /\ Time # {}
  /\ MaxFaults \in Nat

VARIABLES
  customers,  \* the committed table: a row or None for every id
  outbox,     \* the committed outbox messages
  eventLog,   \* the events appended to SQLite
  req,        \* what every request is doing
  looks,      \* history: the looks at a clock so far, by whatever replica
  faults      \* calls that failed and crashes so far

vars == <<customers, outbox, eventLog, req, looks, faults>>

\* An address as the client spelled it: exact when lower-casing and trimming
\* leave it alone.
Raw == [email : Email, exact : BOOLEAN]

\* The name and the birth date of a row are known by the request that wrote it.
Id == Request \cup Old
Row == [email : Email, by : Id]

Answer == {"ok", "notfound", "conflict", "duplicate", "gone", "error"}

ASSUME NoneAssumption == None \notin Answer

Start == [pc |-> "idle", op |-> None, id |-> None, raw |-> None,
          at |-> None, taken |-> 0, resp |-> None]

Goto(q, pc)     == req' = [req EXCEPT ![q].pc = pc]
Respond(q, ans) ==
  req' = [req EXCEPT ![q] = [@ EXCEPT !.pc = "done", !.resp = ans]]
\* Looks at the clock and goes on.  Every replica has its own, behind or ahead
\* of the others, set back now and then, and cut to microseconds by the column:
\* what it shows says nothing about the order of the looks, which taken keeps.
TakeTime(q, pc, shown) ==
  /\ req' = [req EXCEPT ![q] = [@ EXCEPT !.pc = pc, !.at = shown, !.taken = looks]]
  /\ looks' = looks + 1

Init ==
  /\ \E has \in [Old -> Email \cup {None}], shown \in Time :
       /\ \A i, j \in Old : has[i] = has[j] => i = j \/ has[i] = None
       /\ customers = [i \in Id |-> IF i \in Old /\ has[i] # None
                                    THEN [email |-> has[i], by |-> i] ELSE None]
       /\ outbox = {[at |-> shown, taken |-> 1, op |-> "register", id |-> i,
                     row |-> customers[i]] : i \in {j \in Old : has[j] # None}}
  /\ eventLog = {}
  /\ req = [q \in Request |-> Start]
  /\ looks = 2
  /\ faults = 0

-----------------------------------------------------------------------------
(* Reads before the transaction                                            *)

Begin(q, pc, op, id, raw) ==
  req' = [req EXCEPT ![q] = [pc |-> pc, op |-> op, id |-> id, raw |-> raw,
                             at |-> None, taken |-> 0, resp |-> None]]

\* A command reaches Register, Update or Remove.
Receive(q) ==
  /\ req[q].pc = "idle"
  /\ \/ \E raw \in Raw : Begin(q, "findEmail", "register", q, raw)
     \/ \E id \in Id \ {q}, raw \in Raw : Begin(q, "findID", "update", id, raw)
     \/ \E id \in Id \ {q} : Begin(q, "findID", "remove", id, None)
  /\ UNCHANGED <<customers, outbox, eventLog, looks, faults>>

GetCustomerByID(id) == customers[id]

\* WHERE email = $1 compares the client's spelling with normalised addresses.
GetCustomerByEmail(raw) ==
  {i \in Id : raw.exact /\ customers[i] # None /\ customers[i].email = raw.email}

EmailTaken(raw) == GetCustomerByEmail(raw) # {}

FindByID(q) ==
  /\ req[q].pc = "findID"
  /\ LET row == GetCustomerByID(req[q].id)
     IN CASE row = None -> Respond(q, "notfound")
          [] row # None /\ req[q].op = "remove" -> Goto(q, "write")
          [] OTHER ->
               IF req[q].raw.exact /\ row.email = req[q].raw.email
               THEN Goto(q, "write") ELSE Goto(q, "findEmail")
  /\ UNCHANGED <<customers, outbox, eventLog, looks, faults>>

FindByEmail(q) ==
  /\ req[q].pc = "findEmail"
  /\ IF EmailTaken(req[q].raw) THEN Respond(q, "conflict") ELSE Goto(q, "write")
  /\ UNCHANGED <<customers, outbox, eventLog, looks, faults>>

-----------------------------------------------------------------------------
(* The transaction                                                         *)

NewRow(q) == IF req[q].op = "remove" THEN None
             ELSE [email |-> req[q].raw.email, by |-> q]

Message(q) ==
  [at |-> req[q].at, taken |-> req[q].taken, op |-> req[q].op, id |-> req[q].id,
   row |-> NewRow(q)]

OldEmail(q) == IF customers[req[q].id] = None THEN {}
               ELSE {customers[req[q].id].email}
NewEmail(q) == IF req[q].op = "remove" THEN {} ELSE {req[q].raw.email}

\* Mutant of HoldsRow: a refused transaction is not rolled back.
HoldsRowForever(p) ==
  \/ req[p].pc \in {"index", "outbox", "commit"}
  \/ req[p].pc = "done" /\ req[p].resp \in {"duplicate", "error"}

\* The open transaction of p has written its row: other writers of the row
\* wait for it, and so do those that want the address the row had.
HoldsRow(p)   == req[p].pc \in {"index", "outbox", "commit"}
\* ... and has entered its new address in the unique index.
HoldsIndex(p) == req[p].pc \in {"outbox", "commit"}

Blocks(p, q) ==
  /\ p # q
  /\ \/ req[q].pc = "write" /\ HoldsRow(p) /\ req[p].id = req[q].id
     \/ /\ req[q].pc = "index"
        /\ \/ HoldsRow(p) /\ NewEmail(q) \cap OldEmail(p) # {}
           \/ HoldsIndex(p) /\ NewEmail(q) \cap NewEmail(p) # {}

Waits(q) == \E p \in Request : Blocks(p, q)

\* Mutant of Violates: the column has no unique constraint.
ViolatesNothing(q) == FALSE

\* The unique constraint refuses the row q writes.
Violates(q) ==
  \E i \in Id \ {req[q].id} :
    customers[i] # None /\ customers[i].email \in NewEmail(q)

CreateCustomer(q) == req[q].op = "register" /\ Goto(q, "index")

\* RETURNING no row is an error ...
UpdateCustomer(q) ==
  /\ req[q].op = "update"
  /\ IF customers[req[q].id] = None THEN Respond(q, "gone") ELSE Goto(q, "index")

\* ... while a DELETE does not tell how many rows it deleted.
DeleteCustomer(q) == req[q].op = "remove" /\ Goto(q, "outbox")

\* Begin, and the statement up to its row.
WriteRow(q) ==
  /\ req[q].pc = "write"
  /\ ~Waits(q)
  /\ CreateCustomer(q) \/ UpdateCustomer(q) \/ DeleteCustomer(q)
  /\ UNCHANGED <<customers, outbox, eventLog, looks, faults>>

\* The second half: the statement checks and enters the new address.
WriteIndex(q) ==
  /\ req[q].pc = "index"
  /\ ~Waits(q)
  /\ IF Violates(q) THEN Respond(q, "duplicate") ELSE Goto(q, "outbox")
  /\ UNCHANGED <<customers, outbox, eventLog, looks, faults>>

Circle(S) ==
  \A p \in S : (\E r \in S : Blocks(r, p)) /\ (\E r \in S : Blocks(p, r))

\* PostgreSQL fails one statement of a circle of waiting ones.
DeadlockDetected(q) ==
  /\ \E S \in SUBSET Request : q \in S /\ Circle(S)
  /\ Respond(q, "error")
  /\ UNCHANGED <<customers, outbox, eventLog, looks, faults>>

\* Mutant of AppendOutbox: the message is inserted outside the transaction.
AppendOutboxOutsideTx(q) ==
  /\ req[q].pc = "outbox"
  /\ \E shown \in Time :
       /\ TakeTime(q, "commit", shown)
       /\ outbox' =
            outbox \cup {[Message(q) EXCEPT !.at = shown, !.taken = looks]}
  /\ UNCHANGED <<customers, eventLog, faults>>

\* appendOutbox takes created_at and inserts the message in the transaction.
AppendOutbox(q) ==
  /\ req[q].pc = "outbox"
  /\ \E shown \in Time : TakeTime(q, "commit", shown)
  /\ UNCHANGED <<customers, outbox, eventLog, faults>>

Apply(q) ==
  /\ customers' = [customers EXCEPT ![req[q].id] = NewRow(q)]
  /\ outbox' = outbox \cup {Message(q)}

\* Mutant of Commit: an update or a removal forgets the invalidation.
CommitForgetsCache(q) ==
  /\ req[q].pc = "commit"
  /\ Apply(q)
  /\ Goto(q, "event")
  /\ UNCHANGED <<eventLog, looks, faults>>

Commit(q) ==
  /\ req[q].pc = "commit"
  /\ Apply(q)
  /\ Goto(q, IF req[q].op = "register" THEN "event" ELSE "invalidateKey")
  /\ UNCHANGED <<eventLog, looks, faults>>

-----------------------------------------------------------------------------
(* After the transaction                                                   *)

\* invalidate deletes the customer's key, then the key of the list; an error
\* of either call is only logged.
InvalidateKey(q) ==
  /\ req[q].pc = "invalidateKey"
  /\ Goto(q, "invalidateList")
  /\ UNCHANGED <<customers, outbox, eventLog, looks, faults>>

InvalidateList(q) ==
  /\ req[q].pc = "invalidateList"
  /\ Goto(q, "event")
  /\ UNCHANGED <<customers, outbox, eventLog, looks, faults>>

\* appendEvent takes OccurredAt first (what the clock shows is left out here: the
\* order of OccurredAt is EventStream's part) ...
StampEvent(q) ==
  /\ req[q].pc = "event"
  /\ TakeTime(q, "append", None)
  /\ UNCHANGED <<customers, outbox, eventLog, faults>>

\* ... and then appends; the request succeeds whether or not that works.
AppendEvent(q) ==
  /\ req[q].pc = "append"
  /\ \/ eventLog' = eventLog \cup {Message(q)} /\ UNCHANGED faults
     \/ faults < MaxFaults /\ faults' = faults + 1 /\ UNCHANGED eventLog
  /\ Respond(q, "ok")
  /\ UNCHANGED <<customers, outbox, looks>>

-----------------------------------------------------------------------------
(* Failures                                                                *)

\* A call to the database fails; the deferred Rollback undoes the transaction.
Fail(q) ==
  /\ req[q].pc \in {"findID", "findEmail", "write", "index", "outbox"}
  /\ faults < MaxFaults
  /\ faults' = faults + 1
  /\ Respond(q, "error")
  /\ UNCHANGED <<customers, outbox, eventLog, looks>>

\* Mutant of CommitError: the error of Commit is not looked at.
CommitErrorIgnored(q) ==
  /\ req[q].pc = "commit"
  /\ faults < MaxFaults
  /\ faults' = faults + 1
  /\ Apply(q) \/ UNCHANGED <<customers, outbox>>
  /\ Goto(q, "event")
  /\ UNCHANGED <<eventLog, looks>>

\* Commit returns an error: the transaction is lost, or only the answer is.
CommitError(q) ==
  /\ req[q].pc = "commit"
  /\ faults < MaxFaults
  /\ faults' = faults + 1
  /\ Apply(q) \/ UNCHANGED <<customers, outbox>>
  /\ Respond(q, "error")
  /\ UNCHANGED <<eventLog, looks>>

\* The process dies: open transactions roll back, requests get no answer.
Crash ==
  /\ faults < MaxFaults
  /\ faults' = faults + 1
  /\ req' = [q \in Request |-> IF req[q].pc = "idle" THEN req[q]
                               ELSE [req[q] EXCEPT !.pc = "done"]]
  /\ UNCHANGED <<customers, outbox, eventLog, looks>>

-----------------------------------------------------------------------------

Before(q) == Receive(q) \/ FindByID(q) \/ FindByEmail(q)
Transaction(q) ==
  WriteRow(q) \/ WriteIndex(q) \/ DeadlockDetected(q) \/ AppendOutbox(q)
    \/ Commit(q) \/ CommitError(q)
After(q) ==
  InvalidateKey(q) \/ InvalidateList(q) \/ StampEvent(q) \/ AppendEvent(q)
Advance(q) == Before(q) \/ Transaction(q) \/ After(q)
Serve(q) == Advance(q) \/ Fail(q)

Next == (\E q \in Request : Serve(q)) \/ Crash

Spec == Init /\ [][Next]_vars
\* Requests go on; a request that waits is not owed a failing call.
FairSpec == Spec /\ \A q \in Request : WF_vars(Advance(q))

-----------------------------------------------------------------------------
(* Properties                                                              *)

\* Every variable has its type.
TypeOK ==
  /\ customers \in [Id -> Row \cup {None}]
  /\ \A m \in outbox \cup eventLog :
       /\ m.at \in Time \cup {None}
       /\ m.taken \in 1..(looks - 1)
       /\ m.op \in {"register", "update", "remove"}
       /\ m.id \in Id
       /\ m.row \in Row \cup {None}
  /\ \A q \in Request :
       /\ req[q].id \in Id \cup {None}
       /\ req[q].at \in Time \cup {None}
       /\ req[q].taken \in 0..(looks - 1)
       /\ req[q].resp \in Answer \cup {None}
  /\ faults \in 0..MaxFaults

\* Two committed rows never carry the same address, however the checks of two
\* requests and their transactions interleave.
EmailUnique ==
  \A i, j \in Id :
    i # j /\ customers[i] # None /\ customers[j] # None
      => customers[i].email # customers[j].email

MessagesOf(id) == {m \in outbox : m.id = id}
Newest(M) == CHOOSE m \in M : \A n \in M : n.at <= m.at
TakenLast(M) == CHOOSE m \in M : \A n \in M : n.taken <= m.taken

\* The clock that was looked at last did not show the latest time.
ClocksDisagree(M) == \E n \in M \ {TakenLast(M)} : TakenLast(M).at <= n.at

\* The outbox is a history of the table.  The message whose time was taken last
\* tells the customer's row, whatever the clocks show: a commit that fails or
\* loses its answer, and two transactions that write one customer, do not break
\* this, because the time is taken while the transaction holds the row and the
\* message commits with it.  The poller claims in the order of created_at.  There
\* the newest message tells the row too, unless the clocks of two replicas
\* disagree about this customer's messages.  Nothing else takes it away.
OutboxTellsTable ==
  \A id \in Id :
    LET M == MessagesOf(id)
    IN IF M = {} THEN customers[id] = None
       ELSE /\ customers[id] = TakenLast(M).row
            /\ customers[id] = Newest(M).row \/ ClocksDisagree(M)

\* The event log contains no change that did not commit: appended after
\* Commit, an event always has its outbox message, and one whose time was taken earlier.
EventsAreFacts ==
  \A e \in eventLog : \E m \in outbox :
    m.op = e.op /\ m.id = e.id /\ m.row = e.row /\ m.taken < e.taken

Made(q) == \E m \in outbox : m.row = NewRow(q) /\ m.op = req[q].op
                             /\ m.id = req[q].id

\* Whoever gets an answer other than a failed call knows what happened: a
\* success has committed together with its message, and a refused command (404,
\* 409, or a 500 for the constraint or the vanished row) has left nothing behind.
AnswersAreTrue ==
  \A q \in Request :
    /\ req[q].resp = "ok" => Made(q)
    /\ req[q].resp \in {"notfound", "conflict", "duplicate", "gone"}
         /\ req[q].op # "remove" => ~Made(q)

Active(q) == req[q].pc \notin {"idle", "done"}

\* Every request ends: a transaction that is refused, or loses a deadlock over
\* rows and addresses, rolls back at once and leaves nobody waiting for it.
\* Requests are finitely many and a request that is done stays done, so that
\* nobody is under way again and again exactly when every request ends.
EveryRequestAnswered == []<>(\A q \in Request : ~Active(q))

\* The guards of Advance, for a request that has been received.
CanMove(q) ==
  \/ req[q].pc \in {"findID", "findEmail", "outbox", "commit", "invalidateKey",
                    "invalidateList", "event", "append"}
  \/ /\ req[q].pc = "write" /\ ~Waits(q)
     /\ req[q].op \in {"register", "update", "remove"}
  \/ req[q].pc = "index" /\ ~Waits(q)
  \/ \E S \in SUBSET Request : q \in S /\ Circle(S)

\* Take requests under way together with those under way that they wait for,
\* directly or not: one of them can move, or loses a deadlock.  So nobody waits
\* for a request that has ended, and a chain of waits has an end or is seen.
NobodyStuck ==
  \A W \in SUBSET Request :
    /\ W # {} /\ \A q \in W : Active(q)
    /\ \A q \in W, p \in Request : Blocks(p, q) /\ Active(p) => p \in W
    => \E q \in W : CanMove(q)

-----------------------------------------------------------------------------
(* What the documents say and the code does not                            *)

\* "the aggregate row and its outbox message commit together or not at all"
\* (repository.go:12-14): no message is committed without a change of its row.
MessageMeansChange ==
  [][outbox' # outbox => customers' # customers]_vars

\* "Duplicate email ... 409" (README.md:396).
DuplicateIsConflict ==
  \A q \in Request : req[q].resp # "duplicate"
=============================================================================
