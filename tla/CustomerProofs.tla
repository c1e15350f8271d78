--------------------------- MODULE CustomerProofs ---------------------------
(* No two committed customers share an address, the outbox tells the table,   *)
(* answers and events are true and the cache holds committed rows, whatever   *)
(* the numbers of requests, readers, customers and addresses, and however     *)
(* their reads, statements and commits interleave.                            *)
EXTENDS CustomerCache, FiniteSetTheorems, WellFoundedInduction, TLAPS

Pc == {"idle", "findID", "findEmail", "write", "index", "outbox", "commit",
       "invalidateKey", "invalidateList", "event", "append", "done"}
Op == {"register", "update", "remove", None}
Fields == [pc : Pc, op : Op, id : Id \cup {None}, raw : Raw \cup {None},
           at : Time \cup {None}, taken : Nat, resp : Answer \cup {None}]

ReqType == req \in [Request -> Fields]

\* A request that is not idle knows its row, and one that writes an address
\* knows the address.
Command(q) ==
  req[q].pc \notin {"idle", "done"} =>
    /\ req[q].id \in Id
    /\ req[q].op # "remove" => req[q].raw \in Raw

\* Open transactions write different rows and enter different addresses ...
RowsApart ==
  \A p, q \in Request : p # q /\ HoldsRow(p) /\ HoldsRow(q)
    => req[p].id # req[q].id
AddressesApart ==
  \A p, q \in Request : p # q /\ HoldsIndex(p) /\ HoldsIndex(q)
    => NewEmail(p) \cap NewEmail(q) = {}
\* ... and an address that was entered stays free until the commit.
EntriesValid == \A q \in Request : HoldsIndex(q) => ~Violates(q)

TableType == customers \in [Id -> Row \cup {None}]

\* The inductive invariant.  EmailUnique alone is not inductive: a commit keeps
\* it because of what the transaction has held since its statement.
EmailInv ==
  /\ ReqType /\ looks \in Nat /\ TableType
  /\ \A q \in Request : Command(q)
  /\ RowsApart /\ AddressesApart /\ EntriesValid
  /\ EmailUnique

LEMMA EmailInit == Init => EmailInv
<1> SUFFICES ASSUME Init PROVE EmailInv
  OBVIOUS
<1>1. req = [q \in Request |-> Start] /\ looks = 2
  BY DEF Init
<1>2. PICK has \in [Old -> Email \cup {None}] :
        /\ \A i, j \in Old : has[i] = has[j] => i = j \/ has[i] = None
        /\ customers = [i \in Id |-> IF i \in Old /\ has[i] # None
                          THEN [email |-> has[i], by |-> i] ELSE None]
  BY DEF Init
<1>3. ReqType
  BY <1>1 DEF ReqType, Fields, Start, Pc, Op
<1>4. TableType
  BY <1>2 DEF TableType, Row, Id
<1>5. \A q \in Request : Command(q) /\ ~HoldsRow(q) /\ ~HoldsIndex(q)
  BY <1>1 DEF Command, HoldsRow, HoldsIndex, Start
<1>6. EmailUnique
  <2>1. ASSUME NEW i \in Id, customers[i] # None
        PROVE  i \in Old /\ customers[i].email = has[i] /\ has[i] # None
    BY <1>2, <2>1
  <2> QED
    BY <1>2, <2>1 DEF EmailUnique
<1> QED
  BY <1>1, <1>3, <1>4, <1>5, <1>6
  DEF EmailInv, RowsApart, AddressesApart, EntriesValid

-----------------------------------------------------------------------------
(* Steps that write the table nothing                                      *)

\* What is left of a request in another step, and what a step makes of its own.
Same(p) == req'[p] = req[p]

LEMMA BeginEffect ==
  ASSUME ReqType, NEW q \in Request, NEW pc \in Pc, NEW op \in Op,
         NEW id \in Id, NEW raw \in Raw \cup {None}, Begin(q, pc, op, id, raw)
  PROVE  /\ ReqType' /\ req'[q].pc = pc /\ req'[q].op = op
         /\ req'[q].id = id /\ req'[q].raw = raw /\ req'[q].resp = None
         /\ \A p \in Request \ {q} : Same(p)
<1> DEFINE r == [pc |-> pc, op |-> op, id |-> id, raw |-> raw,
                 at |-> None, taken |-> 0, resp |-> None]
<1>1. /\ r \in Fields /\ r.pc = pc /\ r.op = op /\ r.id = id /\ r.raw = raw
      /\ r.resp = None
  BY DEF Fields
<1>2. req' = [req EXCEPT ![q] = r]
  BY DEF Begin
<1> HIDE DEF r
<1> QED
  BY <1>1, <1>2 DEF ReqType, Same

LEMMA GotoEffect ==
  ASSUME ReqType, NEW q \in Request, NEW pc \in Pc, Goto(q, pc)
  PROVE  /\ ReqType'
         /\ req'[q].pc = pc /\ req'[q].id = req[q].id
         /\ req'[q].op = req[q].op /\ req'[q].raw = req[q].raw
         /\ req'[q].taken = req[q].taken /\ req'[q].resp = req[q].resp
         /\ \A p \in Request \ {q} : Same(p)
<1> DEFINE r == [req[q] EXCEPT !.pc = pc]
<1>1. req[q] \in Fields
  BY DEF ReqType
<1>2. /\ r \in Fields /\ r.pc = pc /\ r.id = req[q].id /\ r.op = req[q].op
      /\ r.raw = req[q].raw /\ r.taken = req[q].taken /\ r.resp = req[q].resp
  BY <1>1 DEF Fields
<1>3. req' = [req EXCEPT ![q] = r]
  BY <1>1 DEF Goto, Fields, ReqType
<1> HIDE DEF r
<1> QED
  BY <1>2, <1>3 DEF ReqType, Same

LEMMA TakeTimeEffect ==
  ASSUME ReqType, looks \in Nat, NEW q \in Request, NEW pc \in Pc,
         NEW shown \in Time \cup {None}, TakeTime(q, pc, shown)
  PROVE  /\ ReqType' /\ looks' \in Nat
         /\ req'[q].pc = pc /\ req'[q].id = req[q].id
         /\ req'[q].op = req[q].op /\ req'[q].raw = req[q].raw
         /\ req'[q].at = shown /\ req'[q].taken = looks
         /\ req'[q].resp = req[q].resp
         /\ looks' = looks + 1
         /\ \A p \in Request \ {q} : Same(p)
<1> DEFINE r == [req[q] EXCEPT !.pc = pc, !.at = shown, !.taken = looks]
<1>1. req[q] \in Fields
  BY DEF ReqType
<1>2. /\ r \in Fields /\ r.pc = pc /\ r.id = req[q].id
      /\ r.op = req[q].op /\ r.raw = req[q].raw
      /\ r.at = shown /\ r.taken = looks /\ r.resp = req[q].resp
  BY <1>1 DEF Fields
<1>3. req' = [req EXCEPT ![q] = r] /\ looks' \in Nat /\ looks' = looks + 1
  BY DEF TakeTime
<1> HIDE DEF r
<1>4. ReqType' /\ req'[q] = r /\ \A p \in Request \ {q} : Same(p)
  BY <1>2, <1>3 DEF ReqType, Same
<1> QED
  BY <1>2, <1>3, <1>4

LEMMA RespondEffect ==
  ASSUME ReqType, NEW q \in Request, NEW ans \in Answer, Respond(q, ans)
  PROVE  /\ ReqType'
         /\ req'[q].pc = "done" /\ req'[q].id = req[q].id
         /\ req'[q].op = req[q].op /\ req'[q].raw = req[q].raw
         /\ req'[q].taken = req[q].taken /\ req'[q].resp = ans
         /\ \A p \in Request \ {q} : Same(p)
<1> DEFINE r == [req[q] EXCEPT !.pc = "done", !.resp = ans]
<1>1. req[q] \in Fields
  BY DEF ReqType
<1>2. /\ r \in Fields /\ r.pc = "done" /\ r.id = req[q].id /\ r.op = req[q].op
      /\ r.raw = req[q].raw /\ r.taken = req[q].taken /\ r.resp = ans
  BY <1>1 DEF Fields, Pc
<1>3. req' = [req EXCEPT ![q] = r]
  BY DEF Respond
<1> HIDE DEF r
<1> QED
  BY <1>2, <1>3 DEF ReqType, Same

\* A request that holds nothing after its step disturbs nobody while the table
\* stays as it is.
LEMMA Letting ==
  ASSUME EmailInv, ReqType', looks' \in Nat, NEW q \in Request,
         UNCHANGED customers, \A p \in Request \ {q} : Same(p),
         req'[q].pc \notin {"index", "outbox", "commit"}, Command(q)'
  PROVE  EmailInv'
<1>1. \A p \in Request : HoldsRow(p)' => p # q /\ HoldsRow(p) /\ Same(p)
  BY DEF HoldsRow, Same
<1>2. \A p \in Request : HoldsIndex(p)' => p # q /\ HoldsIndex(p) /\ Same(p)
  BY DEF HoldsIndex, Same
<1>3. RowsApart'
  BY <1>1 DEF EmailInv, RowsApart, Same
<1>4. \A p \in Request : Same(p) => NewEmail(p)' = NewEmail(p)
  BY DEF Same, NewEmail
<1>5. AddressesApart'
  BY <1>2, <1>4 DEF EmailInv, AddressesApart
<1>6. \A p \in Request : Same(p) => Violates(p)' = Violates(p)
  BY <1>4 DEF Same, Violates
<1>7. EntriesValid'
  BY <1>2, <1>6 DEF EmailInv, EntriesValid
<1>8. \A p \in Request : Command(p)'
  BY DEF EmailInv, Command, Same
<1> QED
  BY <1>3, <1>5, <1>7, <1>8 DEF EmailInv, TableType, EmailUnique

\* The transaction's steps that leave the table alone, and keep what they hold.
LEMMA Holding ==
  ASSUME EmailInv, ReqType', looks' \in Nat, NEW q \in Request,
         UNCHANGED customers, \A p \in Request \ {q} : Same(p),
         req'[q].id = req[q].id, req'[q].op = req[q].op, req'[q].raw = req[q].raw,
         req[q].pc \notin {"idle", "done"},
         HoldsRow(q)' => \A p \in Request \ {q} :
           HoldsRow(p) => req[p].id # req[q].id,
         HoldsIndex(q)' =>
           /\ ~Violates(q)
           /\ \A p \in Request \ {q} :
                HoldsIndex(p) => NewEmail(p) \cap NewEmail(q) = {}
  PROVE  EmailInv'
<1>1. \A p \in Request : req'[p].id = req[p].id /\ NewEmail(p)' = NewEmail(p)
  BY DEF NewEmail, Same
<1>2. \A p \in Request : Violates(p)' = Violates(p)
  BY <1>1 DEF Violates
<1>3. \A p \in Request \ {q} : HoldsRow(p)' = HoldsRow(p)
                               /\ HoldsIndex(p)' = HoldsIndex(p)
  BY DEF HoldsRow, HoldsIndex, Same
<1>4. RowsApart'
  BY <1>1, <1>3 DEF EmailInv, RowsApart
<1>5. AddressesApart'
  BY <1>1, <1>3 DEF EmailInv, AddressesApart
<1>6. EntriesValid'
  BY <1>2, <1>3 DEF EmailInv, EntriesValid
<1>7. \A p \in Request : Command(p)'
  BY DEF EmailInv, Command, Same
<1> QED
  BY <1>4, <1>5, <1>6, <1>7 DEF EmailInv, TableType, EmailUnique

-----------------------------------------------------------------------------
(* The commit                                                              *)

\* Applying q's row keeps the addresses apart, and every entry stays valid.
LEMMA ApplyKeeps ==
  ASSUME EmailInv, NEW q \in Request, req[q].pc = "commit", Apply(q)
  PROVE  /\ TableType' /\ EmailUnique'
         /\ \A p \in Request \ {q} : HoldsIndex(p) =>
              \A i \in Id \ {req[p].id} :
                customers'[i] # None => customers'[i].email \notin NewEmail(p)
<1> DEFINE id == req[q].id
<1>1. /\ id \in Id /\ HoldsIndex(q) /\ HoldsRow(q)
      /\ customers \in [Id -> Row \cup {None}]
      /\ req[q].op # "remove" => req[q].raw \in Raw
  BY DEF EmailInv, Command, HoldsIndex, HoldsRow, TableType
<1>2. customers' = [customers EXCEPT ![id] = NewRow(q)]
  BY DEF Apply
<1>3. NewRow(q) \in Row \cup {None}
  BY <1>1 DEF NewRow, Row, Raw, Id
<1>4. NewRow(q) # None => NewRow(q).email \in NewEmail(q)
  BY DEF NewRow, NewEmail
<1>5. customers'[id] = NewRow(q) /\ \A i \in Id \ {id} : customers'[i] = customers[i]
  BY <1>1, <1>2
<1>6. \A i \in Id \ {id} : customers[i] # None => customers[i].email \notin NewEmail(q)
  BY <1>1 DEF EmailInv, EntriesValid, Violates
<1>7. TableType'
  BY <1>1, <1>2, <1>3 DEF TableType
<1>8. EmailUnique'
  <2> SUFFICES ASSUME NEW i \in Id, NEW j \in Id, i # j,
                      customers'[i] # None, customers'[j] # None
               PROVE  customers'[i].email # customers'[j].email
    BY DEF EmailUnique
  <2>1. CASE i = id
    BY <2>1, <1>4, <1>5, <1>6
  <2>2. CASE j = id
    BY <2>2, <1>4, <1>5, <1>6
  <2>3. CASE i # id /\ j # id
    BY <2>3, <1>5 DEF EmailInv, EmailUnique
  <2> QED
    BY <2>1, <2>2, <2>3
<1>9. ASSUME NEW p \in Request \ {q}, HoldsIndex(p),
             NEW i \in Id \ {req[p].id}, customers'[i] # None
      PROVE  customers'[i].email \notin NewEmail(p)
  <2>1. NewEmail(p) \cap NewEmail(q) = {}
    BY <1>1, <1>9 DEF EmailInv, AddressesApart
  <2>2. ~Violates(p)
    BY <1>9 DEF EmailInv, EntriesValid
  <2>3. CASE i = id
    BY <2>1, <2>3, <1>4, <1>5, <1>9
  <2>4. CASE i # id
    BY <2>2, <2>4, <1>5, <1>9 DEF Violates
  <2> QED
    BY <2>3, <2>4
<1> QED
  BY <1>7, <1>8, <1>9

LEMMA CommitKeeps ==
  ASSUME EmailInv, NEW q \in Request, req[q].pc = "commit", Apply(q),
         ReqType', looks' \in Nat, \A p \in Request \ {q} : Same(p),
         req'[q].pc \notin {"index", "outbox", "commit"}, Command(q)'
  PROVE  EmailInv'
<1>1. \A p \in Request : HoldsRow(p)' => p # q /\ HoldsRow(p) /\ Same(p)
  BY DEF HoldsRow, Same
<1>2. \A p \in Request : HoldsIndex(p)' => p # q /\ HoldsIndex(p) /\ Same(p)
  BY DEF HoldsIndex, Same
<1>3. RowsApart'
  BY <1>1 DEF EmailInv, RowsApart, Same
<1>4. \A p \in Request : Same(p) => NewEmail(p)' = NewEmail(p)
  BY DEF Same, NewEmail
<1>5. AddressesApart'
  BY <1>2, <1>4 DEF EmailInv, AddressesApart
<1>6. ASSUME NEW p \in Request, HoldsIndex(p)'
      PROVE  ~Violates(p)'
  BY <1>2, <1>4, <1>6, ApplyKeeps DEF Violates, Same
<1>7. \A p \in Request : Command(p)'
  BY DEF EmailInv, Command, Same
<1> QED
  BY <1>3, <1>5, <1>6, <1>7, ApplyKeeps DEF EmailInv, EntriesValid

-----------------------------------------------------------------------------
(* One step per action                                                     *)

LEMMA BeforeKeeps ==
  ASSUME EmailInv, NEW q \in Request, Before(q)
  PROVE  EmailInv'
<1>0. ReqType /\ Command(q) /\ looks \in Nat
  BY DEF EmailInv
<1>1. CASE Receive(q)
  <2>1. PICK pc \in {"findEmail", "findID"}, op \in {"register", "update", "remove"},
             id \in Id, raw \in Raw \cup {None} :
          Begin(q, pc, op, id, raw) /\ (op # "remove" => raw \in Raw)
    BY <1>1 DEF Receive, Id
  <2>2. /\ ReqType' /\ req'[q].pc = pc /\ req'[q].op = op
        /\ req'[q].id = id /\ req'[q].raw = raw
        /\ \A p \in Request \ {q} : Same(p)
    BY <1>0, <2>1, BeginEffect DEF Pc, Op
  <2>3. Command(q)'
    BY <2>1, <2>2 DEF Command
  <2> QED
    BY <1>0, <1>1, <2>2, <2>3, Letting DEF Receive
<1>2. CASE FindByID(q)
  <2>1. \/ Respond(q, "notfound")
        \/ Goto(q, "write") \/ Goto(q, "findEmail")
    BY <1>2 DEF FindByID
  <2>2. UNCHANGED <<customers, looks>> /\ req[q].pc = "findID"
    BY <1>2 DEF FindByID
  <2>3. CASE Respond(q, "notfound")
    BY <1>0, <2>2, <2>3, RespondEffect, Letting DEF Answer, Command
  <2>4. ASSUME NEW pc \in {"write", "findEmail"}, Goto(q, pc)
        PROVE  EmailInv'
    BY <1>0, <2>2, <2>4, GotoEffect, Letting DEF Pc, Command
  <2> QED
    BY <2>1, <2>3, <2>4
<1>3. CASE FindByEmail(q)
  <2>1. Respond(q, "conflict") \/ Goto(q, "write")
    BY <1>3 DEF FindByEmail
  <2>2. UNCHANGED <<customers, looks>> /\ req[q].pc = "findEmail"
    BY <1>3 DEF FindByEmail
  <2>3. CASE Respond(q, "conflict")
    BY <1>0, <2>2, <2>3, RespondEffect, Letting DEF Answer, Command
  <2>4. CASE Goto(q, "write")
    BY <1>0, <2>2, <2>4, GotoEffect, Letting DEF Pc, Command
  <2> QED
    BY <2>1, <2>3, <2>4
<1> QED
  BY <1>1, <1>2, <1>3 DEF Before

LEMMA StatementKeeps ==
  ASSUME EmailInv, NEW q \in Request,
         WriteRow(q) \/ WriteIndex(q) \/ DeadlockDetected(q) \/ AppendOutbox(q)
  PROVE  EmailInv'
<1>0. ReqType /\ Command(q) /\ looks \in Nat
  BY DEF EmailInv
<1>1. CASE WriteRow(q)
  <2>1. /\ \/ Goto(q, "outbox") /\ req[q].op = "remove"
           \/ Goto(q, "index")
           \/ Respond(q, "gone")
        /\ UNCHANGED <<customers, looks>> /\ req[q].pc = "write" /\ ~Waits(q)
    BY <1>1 DEF WriteRow, CreateCustomer, UpdateCustomer, DeleteCustomer
  <2>2. \A p \in Request \ {q} : HoldsRow(p) => req[p].id # req[q].id
    BY <2>1 DEF Waits, Blocks
  <2>3. CASE Respond(q, "gone")
    BY <1>0, <2>1, <2>3, RespondEffect, Letting DEF Answer, Command
  <2>4. CASE Goto(q, "index")
    <3>1. ReqType' /\ ~HoldsIndex(q)'
      BY <1>0, <2>4, GotoEffect DEF Pc, HoldsIndex
    <3> QED
      BY <1>0, <2>1, <2>2, <2>4, <3>1, GotoEffect, Holding DEF Pc
  <2>5. CASE Goto(q, "outbox") /\ req[q].op = "remove"
    <3>1. NewEmail(q) = {} /\ ~Violates(q)
      BY <2>5 DEF NewEmail, Violates
    <3> QED
      BY <1>0, <2>1, <2>2, <2>5, <3>1, GotoEffect, Holding DEF Pc
  <2> QED
    BY <2>1, <2>3, <2>4, <2>5
<1>2. CASE WriteIndex(q)
  <2>1. /\ \/ Goto(q, "outbox") /\ ~Violates(q)
           \/ Respond(q, "duplicate")
        /\ UNCHANGED <<customers, looks>> /\ req[q].pc = "index" /\ ~Waits(q)
    BY <1>2 DEF WriteIndex
  <2>2. \A p \in Request \ {q} : HoldsRow(p) => req[p].id # req[q].id
    BY <2>1 DEF EmailInv, RowsApart, HoldsRow
  <2>3. \A p \in Request \ {q} : HoldsIndex(p) => NewEmail(p) \cap NewEmail(q) = {}
    BY <2>1 DEF Waits, Blocks
  <2>4. CASE Respond(q, "duplicate")
    BY <1>0, <2>1, <2>4, RespondEffect, Letting DEF Answer, Command
  <2>5. CASE Goto(q, "outbox") /\ ~Violates(q)
    BY <1>0, <2>1, <2>2, <2>3, <2>5, GotoEffect, Holding DEF Pc
  <2> QED
    BY <2>1, <2>4, <2>5
<1>3. CASE DeadlockDetected(q)
  <2>1. Respond(q, "error") /\ UNCHANGED <<customers, looks>>
    BY <1>3 DEF DeadlockDetected
  <2> QED
    BY <1>0, <2>1, RespondEffect, Letting DEF Answer, Command
<1>4. CASE AppendOutbox(q)
  <2>1. /\ ReqType' /\ looks' \in Nat /\ UNCHANGED customers
        /\ req[q].pc = "outbox" /\ req'[q].id = req[q].id
        /\ req'[q].op = req[q].op /\ req'[q].raw = req[q].raw
        /\ \A p \in Request \ {q} : Same(p)
    BY <1>0, <1>4, TakeTimeEffect DEF AppendOutbox, Pc
  <2>2. HoldsRow(q) /\ HoldsIndex(q)
    BY <2>1 DEF HoldsRow, HoldsIndex
  <2> QED
    BY <2>1, <2>2, Holding DEF EmailInv, RowsApart, AddressesApart, EntriesValid
<1> QED
  BY <1>1, <1>2, <1>3, <1>4

LEMMA EndKeeps ==
  ASSUME EmailInv, NEW q \in Request, Commit(q) \/ CommitError(q)
  PROVE  EmailInv'
<1>0. ReqType /\ Command(q) /\ looks \in Nat
  BY DEF EmailInv
<1>1. CASE Commit(q)
  <2>1. PICK pc \in {"event", "invalidateKey"} : Goto(q, pc)
    BY <1>1 DEF Commit
  <2>2. Apply(q) /\ req[q].pc = "commit" /\ UNCHANGED looks
    BY <1>1 DEF Commit
  <2>3. /\ ReqType' /\ \A p \in Request \ {q} : Same(p)
        /\ req'[q].pc \notin {"index", "outbox", "commit"} /\ Command(q)'
    BY <1>0, <2>1, <2>2, GotoEffect DEF Pc, Command
  <2> QED
    BY <1>0, <2>2, <2>3, CommitKeeps
<1>2. CASE CommitError(q)
  <2>1. /\ Respond(q, "error") /\ UNCHANGED looks /\ req[q].pc = "commit"
        /\ Apply(q) \/ UNCHANGED customers
    BY <1>2 DEF CommitError
  <2>2. /\ ReqType' /\ \A p \in Request \ {q} : Same(p)
        /\ req'[q].pc \notin {"index", "outbox", "commit"} /\ Command(q)'
    BY <1>0, <2>1, RespondEffect DEF Answer, Command
  <2>3. CASE Apply(q)
    BY <1>0, <2>1, <2>2, <2>3, CommitKeeps
  <2>4. CASE UNCHANGED customers
    BY <1>0, <2>1, <2>2, <2>4, Letting
  <2> QED
    BY <2>1, <2>3, <2>4
<1> QED
  BY <1>1, <1>2

LEMMA AfterKeeps ==
  ASSUME EmailInv, NEW q \in Request, After(q) \/ Fail(q)
  PROVE  EmailInv'
<1>0. ReqType /\ Command(q) /\ looks \in Nat
  BY DEF EmailInv
<1>1. CASE InvalidateKey(q) \/ InvalidateList(q)
  <2>1. PICK pc \in {"invalidateList", "event"} : Goto(q, pc)
    BY <1>1 DEF InvalidateKey, InvalidateList
  <2>2. /\ UNCHANGED <<customers, looks>>
        /\ req[q].pc \in {"invalidateKey", "invalidateList"}
    BY <1>1 DEF InvalidateKey, InvalidateList
  <2>3. ReqType' /\ Command(q)' /\ req'[q].pc = pc
        /\ \A p \in Request \ {q} : Same(p)
    BY <1>0, <2>1, <2>2, GotoEffect DEF Pc, Command
  <2> QED
    BY <1>0, <2>2, <2>3, Letting
<1>2. CASE StampEvent(q)
  <2>1. /\ ReqType' /\ looks' \in Nat /\ UNCHANGED customers /\ Command(q)'
        /\ req'[q].pc = "append" /\ \A p \in Request \ {q} : Same(p)
    BY <1>0, <1>2, TakeTimeEffect DEF StampEvent, Pc, Command
  <2> QED
    BY <2>1, Letting
<1>3. CASE AppendEvent(q)
  BY <1>0, <1>3, RespondEffect, Letting DEF AppendEvent, Answer, Command
<1>4. CASE Fail(q)
  BY <1>0, <1>4, RespondEffect, Letting DEF Fail, Answer, Command
<1> QED
  BY <1>1, <1>2, <1>3, <1>4 DEF After

LEMMA CrashKeeps ==
  ASSUME EmailInv, Crash
  PROVE  EmailInv'
<1>0. ReqType /\ looks \in Nat /\ UNCHANGED <<customers, looks>>
  BY DEF EmailInv, Crash
<1>1. ReqType' /\ \A q \in Request : req'[q].pc \in {"idle", "done"}
  BY <1>0 DEF Crash, ReqType, Fields, Pc
<1>2. \A q \in Request : Command(q)' /\ ~HoldsRow(q)' /\ ~HoldsIndex(q)'
  BY <1>1 DEF Command, HoldsRow, HoldsIndex
<1> QED
  BY <1>0, <1>1, <1>2
  DEF EmailInv, TableType, EmailUnique, RowsApart, AddressesApart, EntriesValid

\* A step that leaves the requests and the tables alone.
LEMMA IdleKeeps == EmailInv /\ UNCHANGED Table => EmailInv'
  BY DEF Table, EmailInv, ReqType, TableType, Command, RowsApart, HoldsRow,
     AddressesApart, HoldsIndex, NewEmail, EntriesValid, Violates, EmailUnique

\* A Delete of the cache that fails.
LEMMA EvictFailsKeeps ==
  ASSUME EmailInv, NEW q \in Request, EvictFails(q)
  PROVE  EmailInv'
<1>1. PICK pc \in {"invalidateList", "event"} : Goto(q, pc)
  BY DEF EvictFails
<1>2. /\ UNCHANGED <<customers, looks>>
      /\ req[q].pc \in {"invalidateKey", "invalidateList"}
  BY DEF EvictFails
<1>3. /\ ReqType' /\ Command(q)' /\ req'[q].pc = pc /\ looks' \in Nat
      /\ \A p \in Request \ {q} : Same(p)
  BY <1>1, <1>2, GotoEffect DEF EmailInv, Pc, Command
<1>4. UNCHANGED customers /\ req'[q].pc \notin {"index", "outbox", "commit"}
  BY <1>2, <1>3
<1> QED
  BY <1>3, <1>4, Letting

LEMMA EmailNext == EmailInv /\ [Next]_vars => EmailInv'
<1> SUFFICES ASSUME EmailInv, [Next]_vars PROVE EmailInv'
  OBVIOUS
<1>1. ASSUME NEW q \in Request, Serve(q) PROVE EmailInv'
  BY <1>1, BeforeKeeps, StatementKeeps, EndKeeps, AfterKeeps
  DEF Serve, Advance, Transaction
<1>2. CASE Crash
  BY <1>2, CrashKeeps
<1>3. CASE UNCHANGED vars
  BY <1>3, IdleKeeps DEF vars, Table
<1> QED
  BY <1>1, <1>2, <1>3 DEF Next

\* For any number of concurrent requests, the committed table never has two
\* customers with one address.
THEOREM AddressesStayUnique == Spec => []EmailUnique
<1>1. EmailInv => EmailUnique
  BY DEF EmailInv
<1> QED
  BY <1>1, EmailInit, EmailNext, PTL DEF Spec

-----------------------------------------------------------------------------
(* The history: what the outbox and the event log tell                     *)

Refused == {"notfound", "conflict", "duplicate", "gone"}
Committing == {"invalidateKey", "invalidateList", "event", "append"}

\* The row of a customer is what its newest message says.
Latest(id) ==
  IF MessagesOf(id) = {} THEN customers[id] = None
  ELSE \E m \in MessagesOf(id) :
         /\ customers[id] = m.row
         /\ \A n \in MessagesOf(id) : n = m \/ n.taken < m.taken

\* The change of q is in the outbox, and its time was taken before t.
Announced(q, t) ==
  \E m \in outbox : /\ m.op = req[q].op /\ m.id = req[q].id
                    /\ m.row = NewRow(q) /\ m.taken < t

\* Where a request can be once its row is committed.
Past(q) == \/ req[q].pc \in Committing
           \/ req[q].pc = "done" /\ req[q].resp \notin Refused

\* What a request knows about its own change.
Told(q) ==
  /\ req[q].pc \notin {"done"} => req[q].resp = None
  /\ req[q].pc = "commit" =>
       /\ req[q].at \in Time /\ req[q].taken < looks
       /\ \A m \in MessagesOf(req[q].id) : m.taken < req[q].taken
  /\ req[q].pc \in {"invalidateKey", "invalidateList", "event"} => Announced(q, looks)
  /\ req[q].pc = "append" => Announced(q, req[q].taken)
  /\ req[q].resp = "ok" => Made(q)

History ==
  /\ \A m \in outbox : m.at \in Time /\ m.taken \in Nat /\ m.taken < looks
  /\ \A id \in Id : Latest(id)
  /\ EventsAreFacts
  /\ \A m \in outbox, q \in Request : m.op # "remove" /\ m.row.by = q => Past(q)
  /\ \A q \in Request : Told(q)

LEMMA HistoryInit == Init => History
<1> SUFFICES ASSUME Init PROVE History
  OBVIOUS
<1>1. PICK has \in [Old -> Email \cup {None}], shown \in Time :
        /\ customers = [i \in Id |-> IF i \in Old /\ has[i] # None
                          THEN [email |-> has[i], by |-> i] ELSE None]
        /\ outbox = {[at |-> shown, taken |-> 1, op |-> "register", id |-> i,
                       row |-> customers[i]] : i \in {j \in Old : has[j] # None}}
  BY DEF Init
<1>2. looks = 2 /\ eventLog = {} /\ req = [q \in Request |-> Start]
  BY DEF Init
<1>3. \A m \in outbox :
        /\ m.at \in Time /\ m.taken = 1 /\ m.id \in Old /\ has[m.id] # None
        /\ m.row = customers[m.id] /\ m.row.by = m.id
  BY <1>1 DEF Id
<1>4. ASSUME NEW id \in Old, has[id] # None PROVE \E m \in outbox : m.id = id
  <2> DEFINE there == {j \in Old : has[j] # None}
             msg(i) == [at |-> shown, taken |-> 1, op |-> "register", id |-> i,
                        row |-> customers[i]]
  <2>1. id \in there /\ msg(id).id = id
    BY <1>4
  <2>2. outbox = {msg(i) : i \in there}
    BY <1>1, Zenon
  <2> HIDE DEF there, msg
  <2>3. msg(id) \in outbox
    BY <2>1, <2>2
  <2>. QED
    BY <2>1, <2>3
<1>5. \A m, n \in outbox : m.id = n.id => m = n
  BY <1>1
<1>6. ASSUME NEW id \in Id PROVE Latest(id)
  <2>1. CASE id \in Old /\ has[id] # None
    <3>1. PICK m \in outbox : m.id = id
      BY <1>4, <2>1
    <3>. QED
      BY <1>3, <1>5, <3>1 DEF Latest, MessagesOf
  <2>2. CASE ~(id \in Old /\ has[id] # None)
    <3>1. customers[id] = None
      BY <1>1, <2>2
    <3>2. MessagesOf(id) = {}
      BY <1>3, <2>2 DEF MessagesOf
    <3>. QED
      BY <3>1, <3>2 DEF Latest
  <2>. QED
    BY <2>1, <2>2
<1>7. \A q \in Request : Told(q)
  BY <1>2, NoneAssumption DEF Told, Start, Answer
<1>8. \A m \in outbox : m.row.by \notin Request
  BY <1>3, CustomerAssumption
<1>. QED
  BY <1>2, <1>3, <1>6, <1>7, <1>8 DEF History, EventsAreFacts

\* A step that changes no table, looks at a clock or not, and takes one request
\* further.
LEMMA QuietKeeps ==
  ASSUME EmailInv, History, NEW q \in Request, \A p \in Request \ {q} : Same(p),
         UNCHANGED <<customers, outbox, eventLog>>, looks' \in Nat, looks <= looks',
         Past(q) => Past(q)', Told(q)'
  PROVE  History'
<1>1. /\ looks \in Nat
      /\ \A m \in outbox : m.at \in Time /\ m.taken \in Nat /\ m.taken < looks
  BY DEF EmailInv, History
<1>2. ASSUME NEW p \in Request PROVE Told(p)'
  <2>1. CASE p # q
    <3>1. /\ req'[p] = req[p] /\ NewRow(p)' = NewRow(p) /\ Told(p)
          /\ \A id : MessagesOf(id)' = MessagesOf(id)
      BY <2>1 DEF Same, NewRow, History, MessagesOf
    <3>2. Announced(p, looks) => Announced(p, looks)'
      BY <1>1, <3>1 DEF Announced
    <3>3. \A t : Announced(p, t) => Announced(p, t)'
      BY <3>1 DEF Announced
    <3>4. req[p].taken \in Nat
      BY DEF EmailInv, ReqType, Fields
    <3>. QED
      BY <1>1, <3>1, <3>2, <3>3, <3>4 DEF Told, Made, Announced
  <2>. QED
    BY <2>1
<1>3. \A id : Latest(id)' = Latest(id)
  BY DEF Latest, MessagesOf
<1>4. \A m \in outbox, p \in Request : m.op # "remove" /\ m.row.by = p => Past(p)'
  BY DEF History, Past, Same
<1>. QED
  BY <1>1, <1>2, <1>3, <1>4 DEF History, EventsAreFacts

\* The commit adds the message, whose time was taken after those of all the others
\* of the customer, because the transaction has held the row since before.
LEMMA ApplyHistory ==
  ASSUME EmailInv, History, NEW q \in Request, req[q].pc = "commit", Apply(q),
         \A p \in Request \ {q} : Same(p), UNCHANGED <<eventLog, looks>>,
         Past(q)', req'[q].resp # "ok", req'[q].op = req[q].op,
         req'[q].id = req[q].id, req'[q].raw = req[q].raw,
         \/ req'[q].pc \in {"invalidateKey", "event"} /\ req'[q].resp = None
         \/ req'[q].pc = "done"
  PROVE  History'
<1> DEFINE msg == Message(q)
<1>1. /\ looks \in Nat /\ req[q].taken \in Nat /\ req[q].taken < looks
      /\ req[q].at \in Time /\ req[q].id \in Id /\ customers \in [Id -> Row \cup {None}]
      /\ \A m \in MessagesOf(req[q].id) : m.taken < req[q].taken
  BY DEF EmailInv, ReqType, Fields, TableType, Command, History, Told
<1>2. /\ outbox' = outbox \cup {msg}
      /\ customers' = [customers EXCEPT ![req[q].id] = NewRow(q)]
      /\ msg.at = req[q].at /\ msg.taken = req[q].taken
      /\ msg.op = req[q].op /\ msg.id = req[q].id
      /\ msg.row = NewRow(q) /\ NewRow(q)' = NewRow(q)
      /\ req[q].op # "remove" => msg.row.by = q
  BY DEF Apply, Message, NewRow
<1> HIDE DEF msg
<1>3. /\ \A id : MessagesOf(id)' = IF id = req[q].id THEN MessagesOf(id) \cup {msg}
                                   ELSE MessagesOf(id)
      /\ \A m \in outbox : m.taken \in Nat
  BY <1>2 DEF MessagesOf, History
<1>4. \A m \in outbox' : m.at \in Time /\ m.taken \in Nat /\ m.taken < looks'
  BY <1>1, <1>2 DEF History
<1>5. ASSUME NEW id \in Id PROVE Latest(id)'
  <2>1. CASE id = req[q].id
    <3>1. MessagesOf(id)' = MessagesOf(id) \cup {msg} /\ customers'[id] = msg.row
      BY <1>1, <1>2, <1>3, <2>1
    <3>2. \A n \in MessagesOf(id)' : n = msg \/ n.taken < msg.taken
      BY <1>1, <1>2, <2>1, <3>1
    <3>. QED
      BY <3>1, <3>2 DEF Latest
  <2>2. CASE id # req[q].id
    <3>1. MessagesOf(id)' = MessagesOf(id) /\ customers'[id] = customers[id]
      BY <1>1, <1>2, <1>3, <2>2
    <3>. QED
      BY <3>1 DEF History, Latest
  <2>. QED
    BY <2>1, <2>2
<1>6. EventsAreFacts'
  BY <1>2 DEF History, EventsAreFacts
<1>7. \A m \in outbox', p \in Request : m.op # "remove" /\ m.row.by = p => Past(p)'
  <2> SUFFICES ASSUME NEW m \in outbox', NEW p \in Request,
                      m.op # "remove", m.row.by = p
               PROVE  Past(p)'
    OBVIOUS
  <2>1. CASE p = q
    BY <2>1
  <2>2. CASE p # q
    <3>1. m \in outbox
      BY <1>2, <2>2
    <3>. QED
      BY <2>2, <3>1 DEF History, Past, Same
  <2>. QED
    BY <2>1, <2>2
<1>8. ASSUME NEW p \in Request PROVE Told(p)'
  <2>1. CASE p = q
    <3>1. Announced(q, looks)'
      BY <1>1, <1>2 DEF Announced
    <3>. QED
      BY <2>1, <3>1 DEF Told
  <2>2. CASE p # q
    <3>1. req'[p] = req[p] /\ NewRow(p)' = NewRow(p) /\ Told(p)
      BY <2>2 DEF Same, NewRow, History
    <3>2. req[p].pc = "commit" => req[p].id # req[q].id
      BY <2>2 DEF EmailInv, RowsApart, HoldsRow
    <3>3. req[p].pc = "commit" => MessagesOf(req[p].id)' = MessagesOf(req[p].id)
      BY <1>3, <3>1, <3>2
    <3>4. \A t : Announced(p, t) => Announced(p, t)'
      BY <1>2, <3>1 DEF Announced
    <3>5. Made(p) => Made(p)'
      BY <1>2, <3>1 DEF Made
    <3>. QED
      BY <3>1, <3>3, <3>4, <3>5 DEF Told, Announced
  <2>. QED
    BY <2>1, <2>2
<1>. QED
  BY <1>4, <1>5, <1>6, <1>7, <1>8 DEF History

\* An answer that ends a request.
LEMMA RespondHistory ==
  ASSUME EmailInv, History, NEW q \in Request, NEW ans \in Answer, Respond(q, ans),
         UNCHANGED <<customers, outbox, eventLog, looks>>,
         ans = "ok" => Made(q), ans \in Refused => ~Past(q)
  PROVE  History'
<1>1. /\ req'[q].pc = "done" /\ req'[q].id = req[q].id /\ req'[q].op = req[q].op
      /\ req'[q].raw = req[q].raw /\ req'[q].resp = ans
      /\ \A p \in Request \ {q} : Same(p)
  BY RespondEffect DEF EmailInv
<1>2. Past(q) => Past(q)'
  BY <1>1 DEF Past
<1>3. Told(q)'
  BY <1>1 DEF Told, Made, NewRow
<1>4. looks \in Nat
  BY DEF EmailInv
<1>. QED
  BY <1>1, <1>2, <1>3, <1>4, QuietKeeps

\* A step on the way, with or without a look at the clock.
LEMMA GotoHistory ==
  ASSUME EmailInv, History, NEW q \in Request, NEW pc \in Pc, Goto(q, pc),
         UNCHANGED <<customers, outbox, eventLog, looks>>, req[q].pc # "done",
         \/ pc \in {"write", "findEmail", "index", "outbox"}
              /\ req[q].pc \notin Committing
         \/ pc \in {"invalidateList", "event"}
              /\ req[q].pc \in {"invalidateKey", "invalidateList"}
  PROVE  History'
<1>1. /\ req'[q].pc = pc /\ req'[q].id = req[q].id /\ req'[q].op = req[q].op
      /\ req'[q].raw = req[q].raw /\ req'[q].resp = req[q].resp
      /\ \A p \in Request \ {q} : Same(p)
  BY GotoEffect DEF EmailInv
<1>2. Past(q) => Past(q)'
  BY <1>1 DEF Past, Committing
<1>3. Told(q)'
  <2>1. Told(q) /\ req[q].resp = None /\ None # "ok"
    BY NoneAssumption DEF History, Told, Answer
  <2>2. Announced(q, looks) => Announced(q, looks)'
    BY <1>1 DEF Announced, NewRow
  <2>. QED
    BY <1>1, <2>1, <2>2 DEF Told, Committing
<1>4. looks \in Nat
  BY DEF EmailInv
<1>. QED
  BY <1>1, <1>2, <1>3, <1>4, QuietKeeps

LEMMA AppendOutboxHistory ==
  ASSUME EmailInv, History, NEW q \in Request, AppendOutbox(q)
  PROVE  History'
<1>0. PICK shown \in Time : TakeTime(q, "commit", shown)
  BY DEF AppendOutbox
<1>1. /\ req[q].pc = "outbox" /\ req'[q].pc = "commit" /\ req'[q].id = req[q].id
      /\ req'[q].at \in Time
      /\ req'[q].resp = req[q].resp /\ req'[q].taken = looks /\ looks' = looks + 1
      /\ \A p \in Request \ {q} : Same(p)
      /\ UNCHANGED <<customers, outbox, eventLog>> /\ looks \in Nat
  BY <1>0, TakeTimeEffect DEF EmailInv, AppendOutbox, Pc
<1>2. ~Past(q)
  BY <1>1 DEF Past, Committing
<1>3. Told(q)'
  <2>1. req[q].resp = None /\ None # "ok"
    BY <1>1, NoneAssumption DEF History, Told, Answer
  <2>2. \A m \in outbox : m.taken < looks
    BY DEF History
  <2>. QED
    BY <1>1, <2>1, <2>2 DEF Told, MessagesOf
<1>. QED
  BY <1>1, <1>2, <1>3, QuietKeeps

LEMMA StampEventHistory ==
  ASSUME EmailInv, History, NEW q \in Request, StampEvent(q)
  PROVE  History'
<1>1. /\ req[q].pc = "event" /\ req'[q].pc = "append" /\ req'[q].id = req[q].id
      /\ req'[q].op = req[q].op /\ req'[q].raw = req[q].raw
      /\ req'[q].resp = req[q].resp /\ req'[q].taken = looks /\ looks' = looks + 1
      /\ \A p \in Request \ {q} : Same(p)
      /\ UNCHANGED <<customers, outbox, eventLog>> /\ looks \in Nat
  BY TakeTimeEffect DEF EmailInv, StampEvent, Pc
<1>2. Past(q)'
  BY <1>1 DEF Past, Committing
<1>3. Told(q)'
  <2>1. req[q].resp = None /\ None # "ok" /\ Announced(q, looks)
    BY <1>1, NoneAssumption DEF History, Told, Answer
  <2>2. Announced(q, req[q].taken)'
    BY <1>1, <2>1 DEF Announced, NewRow
  <2>. QED
    BY <1>1, <2>1, <2>2 DEF Told
<1>. QED
  BY <1>1, <1>2, <1>3, QuietKeeps

LEMMA AppendEventHistory ==
  ASSUME EmailInv, History, NEW q \in Request, AppendEvent(q)
  PROVE  History'
<1>1. /\ req[q].pc = "append" /\ Respond(q, "ok") /\ UNCHANGED <<customers, outbox, looks>>
      /\ eventLog' = eventLog \cup {Message(q)} \/ eventLog' = eventLog
  BY DEF AppendEvent
<1>2. Announced(q, req[q].taken)
  BY <1>1 DEF History, Told
<1>3. EventsAreFacts'
  <2>1. \E m \in outbox : /\ m.op = Message(q).op /\ m.id = Message(q).id
                          /\ m.row = Message(q).row /\ m.taken < Message(q).taken
    BY <1>2 DEF Announced, Message
  <2>. QED
    BY <1>1, <2>1 DEF History, EventsAreFacts
<1>4. /\ req'[q].pc = "done" /\ req'[q].id = req[q].id /\ req'[q].op = req[q].op
      /\ req'[q].raw = req[q].raw /\ req'[q].resp = "ok"
      /\ \A p \in Request \ {q} : Same(p)
  BY <1>1, RespondEffect DEF EmailInv, Answer
<1>5. Past(q)' /\ Told(q)'
  BY <1>1, <1>2, <1>4 DEF Past, Refused, Told, Made, Announced, NewRow
<1>6. ASSUME NEW p \in Request PROVE Told(p)'
  <2>1. CASE p # q
    BY <1>1, <1>4, <2>1
       DEF Same, NewRow, History, MessagesOf, Told, Made, Announced
  <2>. QED
    BY <1>5, <2>1
<1>7. \A m \in outbox, p \in Request : m.op # "remove" /\ m.row.by = p => Past(p)'
  BY <1>4, <1>5 DEF History, Past, Same
<1>8. \A id : Latest(id)' = Latest(id)
  BY <1>1 DEF Latest, MessagesOf
<1>. QED
  BY <1>1, <1>3, <1>6, <1>7, <1>8 DEF History

LEMMA ReceiveHistory ==
  ASSUME EmailInv, History, NEW q \in Request, Receive(q)
  PROVE  History'
<1>1. PICK pc \in {"findEmail", "findID"}, op \in {"register", "update", "remove"},
           id \in Id, raw \in Raw \cup {None} : Begin(q, pc, op, id, raw)
  BY DEF Receive, Id
<1>2. /\ req[q].pc = "idle" /\ UNCHANGED <<customers, outbox, eventLog, looks>>
      /\ looks \in Nat
  BY DEF Receive, EmailInv
<1>3. /\ req'[q].pc = pc /\ req'[q].resp = None
      /\ \A p \in Request \ {q} : Same(p)
  BY <1>1, BeginEffect DEF EmailInv, Pc, Op
<1>4. ~Past(q)
  BY <1>2 DEF Past, Committing
<1>5. Told(q)'
  BY <1>3, NoneAssumption DEF Told, Answer
<1>. QED
  BY <1>2, <1>3, <1>4, <1>5, QuietKeeps

LEMMA CrashHistory == ASSUME EmailInv, History, Crash PROVE History'
<1> DEFINE r(q) == IF req[q].pc = "idle" THEN req[q]
                   ELSE [req[q] EXCEPT !.pc = "done"]
<1>1. UNCHANGED <<customers, outbox, eventLog, looks>> /\ req' = [q \in Request |-> r(q)]
  BY DEF Crash
<1>2. ASSUME NEW q \in Request
      PROVE  /\ r(q).pc \in {"idle", "done"} /\ r(q).resp = req[q].resp
             /\ r(q).op = req[q].op /\ r(q).id = req[q].id /\ r(q).raw = req[q].raw
             /\ r(q).pc = "idle" => req[q].pc = "idle"
  <2>1. req[q] \in Fields
    BY DEF EmailInv, ReqType
  <2>. QED
    BY <2>1 DEF Fields
<1> HIDE DEF r
<1>3. ASSUME NEW q \in Request PROVE Told(q)' /\ (Past(q) => Past(q)')
  <2>1. req'[q] = r(q) /\ Told(q)
    BY <1>1 DEF History
  <2>2. req[q].resp # None => req[q].pc = "done"
    BY <2>1 DEF Told
  <2>3. None \notin Refused
    BY NoneAssumption DEF Refused, Answer
  <2>4. Made(q)' = Made(q)
    BY <1>1, <1>2, <2>1 DEF Made, NewRow
  <2>5. Told(q)'
    BY <1>2, <2>1, <2>2, <2>4 DEF Told
  <2>6. Past(q) => Past(q)'
    BY <1>2, <2>1, <2>2, <2>3 DEF Past, Committing
  <2>. QED
    BY <2>5, <2>6
<1>4. \A id : Latest(id)' = Latest(id)
  BY <1>1 DEF Latest, MessagesOf
<1>5. EventsAreFacts'
  BY <1>1 DEF History, EventsAreFacts
<1>. QED
  BY <1>1, <1>3, <1>4, <1>5 DEF History

LEMMA ServeHistory ==
  ASSUME EmailInv, History, NEW q \in Request, Serve(q)
  PROVE  History'
<1> USE DEF Pc, Answer, Refused, Past, Committing
<1>1. CASE FindByID(q)
  BY <1>1, RespondHistory, GotoHistory DEF FindByID
<1>2. CASE FindByEmail(q)
  BY <1>2, RespondHistory, GotoHistory DEF FindByEmail
<1>3. CASE WriteRow(q)
  BY <1>3, RespondHistory, GotoHistory
     DEF WriteRow, CreateCustomer, UpdateCustomer, DeleteCustomer
<1>4. CASE WriteIndex(q)
  BY <1>4, RespondHistory, GotoHistory DEF WriteIndex
<1>5. CASE DeadlockDetected(q)
  <2>1. Respond(q, "error") /\ UNCHANGED <<customers, outbox, eventLog, looks>>
    BY <1>5 DEF DeadlockDetected
  <2>. QED
    BY <2>1, RespondHistory
<1>6. CASE Fail(q)
  BY <1>6, RespondHistory DEF Fail
<1>7. CASE InvalidateKey(q) \/ InvalidateList(q)
  BY <1>7, GotoHistory DEF InvalidateKey, InvalidateList
<1>8. CASE Commit(q)
  <2>1. PICK pc \in {"event", "invalidateKey"} : Goto(q, pc)
    BY <1>8 DEF Commit
  <2>2. req[q].pc = "commit" /\ Apply(q) /\ UNCHANGED <<eventLog, looks>>
    BY <1>8 DEF Commit
  <2>3. req[q].resp = None /\ None # "ok"
    BY <2>2, NoneAssumption DEF History, Told
  <2>4. /\ req'[q].pc = pc /\ req'[q].id = req[q].id /\ req'[q].op = req[q].op
        /\ req'[q].raw = req[q].raw /\ req'[q].resp = None
        /\ \A p \in Request \ {q} : Same(p)
    BY <2>1, <2>3, GotoEffect DEF EmailInv
  <2>5. Past(q)'
    BY <2>4
  <2>. QED
    BY <2>2, <2>3, <2>4, <2>5, ApplyHistory
<1>9. CASE CommitError(q)
  <2>1. /\ req[q].pc = "commit" /\ Respond(q, "error") /\ UNCHANGED <<eventLog, looks>>
        /\ Apply(q) \/ UNCHANGED <<customers, outbox>>
    BY <1>9 DEF CommitError
  <2>2. CASE Apply(q)
    <3>1. /\ req'[q].pc = "done" /\ req'[q].id = req[q].id /\ req'[q].op = req[q].op
          /\ req'[q].raw = req[q].raw /\ req'[q].resp = "error"
          /\ \A p \in Request \ {q} : Same(p)
      BY <2>1, RespondEffect DEF EmailInv
    <3>2. Past(q)'
      BY <3>1
    <3>. QED
      BY <2>1, <2>2, <3>1, <3>2, ApplyHistory
  <2>3. CASE UNCHANGED <<customers, outbox>>
    BY <2>1, <2>3, RespondHistory
  <2>. QED
    BY <2>1, <2>2, <2>3
<1>. QED
  BY <1>1, <1>2, <1>3, <1>4, <1>5, <1>6, <1>7, <1>8, <1>9, ReceiveHistory,
     AppendOutboxHistory, StampEventHistory, AppendEventHistory
     DEF Serve, Advance, Before, Transaction, After

LEMMA IdleHistory == History /\ UNCHANGED Table => History'
  BY DEF Table, History, Latest, MessagesOf, EventsAreFacts, Past, Told, Announced, Made,
         NewRow

LEMMA HistoryNext == EmailInv /\ History /\ [Next]_vars => History'
  BY ServeHistory, CrashHistory, IdleHistory DEF Next, vars, Table

LEMMA HistoryAlways == Spec => [](EmailInv /\ History)
  BY EmailInit, EmailNext, HistoryInit, HistoryNext, PTL DEF Spec

-----------------------------------------------------------------------------
(* What follows from the history                                           *)

LEMMA LatestTells == EmailInv /\ History => OutboxTellsTable
<1> SUFFICES ASSUME EmailInv, History, NEW id \in Id, MessagesOf(id) # {}
             PROVE  /\ customers[id] = TakenLast(MessagesOf(id)).row
                    /\ \/ customers[id] = Newest(MessagesOf(id)).row
                       \/ ClocksDisagree(MessagesOf(id))
  BY DEF OutboxTellsTable, History, Latest
<1>1. PICK m \in MessagesOf(id) :
        /\ customers[id] = m.row
        /\ \A n \in MessagesOf(id) : n = m \/ n.taken < m.taken
  BY DEF History, Latest
<1>2. \A n \in MessagesOf(id) : n.taken \in Nat /\ n.at \in Nat
  BY CustomerAssumption DEF History, MessagesOf
<1>3. \A n \in MessagesOf(id) : n.taken <= m.taken
  BY <1>1, <1>2
<1>4. TakenLast(MessagesOf(id)) = m
  <2>1. /\ TakenLast(MessagesOf(id)) \in MessagesOf(id)
        /\ m.taken <= TakenLast(MessagesOf(id)).taken
    BY <1>3 DEF TakenLast
  <2>. QED
    BY <1>1, <1>2, <2>1
<1>5. ASSUME ~ClocksDisagree(MessagesOf(id)) PROVE Newest(MessagesOf(id)) = m
  <2>1. \A n \in MessagesOf(id) \ {m} : n.at < m.at
    BY <1>2, <1>4, <1>5 DEF ClocksDisagree
  <2>2. \A n \in MessagesOf(id) : n.at <= m.at
    BY <1>2, <2>1
  <2>3. /\ Newest(MessagesOf(id)) \in MessagesOf(id)
        /\ m.at <= Newest(MessagesOf(id)).at
    BY <2>2 DEF Newest
  <2>. QED
    BY <1>2, <2>1, <2>3
<1>. QED
  BY <1>1, <1>4, <1>5

LEMMA ToldTrue == History => AnswersAreTrue
<1> SUFFICES ASSUME History, NEW q \in Request
             PROVE  /\ req[q].resp = "ok" => Made(q)
                    /\ req[q].resp \in Refused /\ req[q].op # "remove" => ~Made(q)
  BY DEF AnswersAreTrue, Refused
<1>1. Told(q)
  BY DEF History
<1>2. ASSUME req[q].resp \in Refused, req[q].op # "remove", Made(q) PROVE FALSE
  <2>1. PICK m \in outbox : m.row = NewRow(q) /\ m.op = req[q].op
    BY <1>2 DEF Made
  <2>2. m.row.by = q
    BY <1>2, <2>1 DEF NewRow
  <2>3. Past(q)
    BY <1>2, <2>1, <2>2 DEF History
  <2>4. req[q].resp # None
    BY <1>2, NoneAssumption DEF Refused, Answer
  <2>. QED
    BY <1>1, <1>2, <2>3, <2>4 DEF Told, Past, Committing
<1>. QED
  BY <1>1, <1>2 DEF Told

\* The message of a customer whose time was taken last tells its row, whatever
\* commits in between and whichever commits lose their answers; and so does the one
\* with the latest created_at, unless the clocks of the replicas disagree about the
\* order of that customer's messages.
THEOREM TableIsTold == Spec => []OutboxTellsTable
  BY HistoryAlways, LatestTells, PTL

\* No event without its message, and an earlier one.
THEOREM EventsAreTrue == Spec => []EventsAreFacts
<1>1. History => EventsAreFacts
  BY DEF History
<1>. QED
  BY <1>1, HistoryAlways, PTL

\* Successes have committed, and what is refused has left nothing.
THEOREM RequestsAreAnswered == Spec => []AnswersAreTrue
  BY HistoryAlways, ToldTrue, PTL

-----------------------------------------------------------------------------
(* Types                                                                   *)

Ops == {"register", "update", "remove"}

Recorded(m, t) ==
  /\ m.at \in Time \cup {None} /\ m.taken \in 1..(t - 1)
  /\ m.op \in Ops /\ m.id \in Id /\ m.row \in Row \cup {None}

Stamped(q) ==
  /\ req[q].taken < looks
  /\ req[q].pc \notin {"idle", "done"} => req[q].op \in Ops
  /\ req[q].pc \in {"commit", "append"} => req[q].taken >= 1

Typed ==
  /\ looks > 0
  /\ \A m \in outbox \cup eventLog : Recorded(m, looks)
  /\ \A q \in Request : Stamped(q)
  /\ faults \in 0..MaxFaults

LEMMA TypedInit == Init => Typed
<1> SUFFICES ASSUME Init PROVE Typed
  OBVIOUS
<1>1. /\ looks = 2 /\ faults = 0 /\ eventLog = {}
      /\ \A q \in Request : req[q].pc = "idle" /\ req[q].taken = 0
  BY DEF Init, Start
<1>2. PICK has \in [Old -> Email \cup {None}], shown \in Time :
        /\ customers = [i \in Id |-> IF i \in Old /\ has[i] # None
                          THEN [email |-> has[i], by |-> i] ELSE None]
        /\ outbox = {[at |-> shown, taken |-> 1, op |-> "register", id |-> i,
                       row |-> customers[i]] : i \in {j \in Old : has[j] # None}}
  BY DEF Init
<1>3. \A i \in Old : has[i] # None => customers[i] \in Row /\ i \in Id
  BY <1>2 DEF Row, Id
<1>4. \A m \in outbox : /\ m.at \in Time /\ m.taken = 1 /\ m.op = "register"
                        /\ m.id \in Id /\ m.row \in Row
  <2> SUFFICES ASSUME NEW m \in outbox
               PROVE  /\ m.at \in Time /\ m.taken = 1 /\ m.op = "register"
                      /\ m.id \in Id /\ m.row \in Row
    OBVIOUS
  <2>1. PICK i \in {j \in Old : has[j] # None} :
          m = [at |-> shown, taken |-> 1, op |-> "register", id |-> i,
               row |-> customers[i]]
    BY <1>2
  <2>. QED
    BY <1>3, <2>1
<1>. QED
  BY <1>1, <1>4, CustomerAssumption DEF Typed, Recorded, Stamped, Ops

\* A step of one request, which may record its message.
LEMMA StepTyped ==
  ASSUME EmailInv, Typed, NEW q \in Request, \A p \in Request \ {q} : Same(p),
         looks' \in Nat, looks <= looks', Stamped(q)', faults' \in 0..MaxFaults,
         \A m \in outbox' \cup eventLog' :
           \/ m \in outbox \cup eventLog
           \/ m = Message(q) /\ req[q].pc \in {"commit", "append"}
  PROVE  Typed'
<1>1. looks \in Nat /\ req[q] \in Fields /\ Command(q) /\ Stamped(q)
  BY DEF EmailInv, ReqType, Typed
<1>2. req[q].pc \in {"commit", "append"} => Recorded(Message(q), looks)
  <2> SUFFICES ASSUME req[q].pc \in {"commit", "append"}
               PROVE  Recorded(Message(q), looks)
    OBVIOUS
  <2>1. NewRow(q) \in Row \cup {None}
    BY <1>1 DEF Command, NewRow, Row, Raw, Id
  <2>2. /\ req[q].taken \in Nat /\ req[q].taken >= 1 /\ req[q].taken < looks
        /\ req[q].op \in Ops /\ req[q].id \in Id /\ req[q].at \in Time \cup {None}
    BY <1>1 DEF Fields, Stamped, Command
  <2>3. req[q].taken \in 1..(looks - 1)
    BY <1>1, <2>2
  <2>. QED
    BY <2>1, <2>2, <2>3 DEF Recorded, Message
<1>3. \A m : Recorded(m, looks) => Recorded(m, looks')
  BY <1>1 DEF Recorded
<1>4. ASSUME NEW m \in outbox' \cup eventLog' PROVE Recorded(m, looks')
  BY <1>2, <1>3 DEF Typed
<1>5. ASSUME NEW p \in Request, p # q PROVE Stamped(p)'
  <2>1. req[p].taken \in Nat
    BY DEF EmailInv, ReqType, Fields
  <2>. QED
    BY <1>1, <1>5, <2>1 DEF Same, Typed, Stamped
<1>6. looks' > 0
  BY <1>1 DEF Typed
<1>. QED
  BY <1>4, <1>5, <1>6 DEF Typed, Recorded

LEMMA ServeTyped ==
  ASSUME EmailInv, Typed, NEW q \in Request, Serve(q)
  PROVE  Typed'
<1>1. /\ looks \in Nat /\ ReqType /\ Stamped(q) /\ req[q].taken \in Nat
      /\ faults' \in 0..MaxFaults
  <2>1. faults' \in 0..MaxFaults
    <3>1. faults' = faults \/ (faults < MaxFaults /\ faults' = faults + 1)
      BY DEF Serve, Advance, Before, Transaction, After, Receive, FindByID,
         FindByEmail, WriteRow, WriteIndex, DeadlockDetected, AppendOutbox, Commit,
         CommitError, InvalidateKey, InvalidateList, StampEvent, AppendEvent, Fail
    <3>. QED
      BY <3>1, CustomerAssumption DEF Typed
  <2>. QED
    BY <2>1 DEF EmailInv, ReqType, Fields, Typed
<1>2. \A m \in outbox' \cup eventLog' :
        \/ m \in outbox \cup eventLog
        \/ m = Message(q) /\ req[q].pc \in {"commit", "append"}
  BY DEF Serve, Advance, Before, Transaction, After, Receive, FindByID,
     FindByEmail, WriteRow, WriteIndex, DeadlockDetected, AppendOutbox, Commit,
     CommitError, Apply, InvalidateKey, InvalidateList, StampEvent, AppendEvent, Fail
<1>3. ASSUME NEW pc \in Pc \ {"commit", "append"}, Goto(q, pc), UNCHANGED looks,
             req[q].pc \notin {"idle", "done"}
      PROVE  Typed'
  <2>1. Stamped(q)'
    BY <1>1, <1>3, GotoEffect DEF Stamped
  <2>. QED
    BY <1>1, <1>2, <1>3, <2>1, GotoEffect, StepTyped
<1>4. ASSUME NEW ans \in Answer, Respond(q, ans), UNCHANGED looks PROVE Typed'
  <2>1. Stamped(q)'
    BY <1>1, <1>4, RespondEffect DEF Stamped
  <2>. QED
    BY <1>1, <1>2, <1>4, <2>1, RespondEffect, StepTyped
<1>5. ASSUME NEW pc \in {"commit", "append"}, NEW shown \in Time \cup {None},
             TakeTime(q, pc, shown),
             req[q].pc \notin {"idle", "done"}
      PROVE  Typed'
  <2>1. /\ req'[q].pc = pc /\ req'[q].op = req[q].op /\ req'[q].taken = looks
        /\ looks' = looks + 1 /\ looks' \in Nat /\ \A p \in Request \ {q} : Same(p)
    BY <1>1, <1>5, TakeTimeEffect DEF Pc
  <2>2. Stamped(q)'
    BY <1>1, <1>5, <2>1 DEF Stamped, Typed
  <2>. QED
    BY <1>1, <1>2, <2>1, <2>2, StepTyped
<1>6. CASE Receive(q)
  <2>1. PICK pc \in {"findEmail", "findID"}, op \in Ops, id \in Id,
             raw \in Raw \cup {None} : Begin(q, pc, op, id, raw)
    BY <1>6 DEF Receive, Id, Ops
  <2>2. /\ req'[q].pc = pc /\ req'[q].op = op /\ \A p \in Request \ {q} : Same(p)
    BY <1>1, <2>1, BeginEffect DEF Pc, Op, Ops
  <2>3. req'[q].taken = 0 /\ UNCHANGED looks
    BY <1>1, <1>6, <2>1 DEF Begin, Receive, ReqType
  <2>4. Stamped(q)'
    BY <1>1, <2>2, <2>3 DEF Stamped, Typed
  <2>. QED
    BY <1>1, <1>2, <2>2, <2>3, <2>4, StepTyped
<1>7. CASE FindByID(q) \/ FindByEmail(q)
  BY <1>3, <1>4, <1>7 DEF FindByID, FindByEmail, Answer, Pc
<1>8. CASE WriteRow(q)
  BY <1>3, <1>4, <1>8
     DEF WriteRow, CreateCustomer, UpdateCustomer, DeleteCustomer, Answer, Pc
<1>9. CASE WriteIndex(q)
  BY <1>3, <1>4, <1>9 DEF WriteIndex, Answer, Pc
<1>10. CASE DeadlockDetected(q) \/ CommitError(q) \/ Fail(q)
  <2>1. Respond(q, "error") /\ UNCHANGED looks
    BY <1>10 DEF DeadlockDetected, CommitError, Fail
  <2>. QED
    BY <1>4, <2>1 DEF Answer
<1>11. CASE Commit(q)
  <2>1. PICK pc \in {"event", "invalidateKey"} : Goto(q, pc)
    BY <1>11 DEF Commit
  <2>. QED
    BY <1>3, <1>11, <2>1 DEF Commit, Pc
<1>12. CASE InvalidateKey(q) \/ InvalidateList(q)
  BY <1>3, <1>12 DEF InvalidateKey, InvalidateList, Pc
<1>13. CASE AppendOutbox(q) \/ StampEvent(q)
  BY <1>5, <1>13 DEF AppendOutbox, StampEvent
<1>14. CASE AppendEvent(q)
  BY <1>4, <1>14 DEF AppendEvent, Answer
<1>. QED
  BY <1>6, <1>7, <1>8, <1>9, <1>10, <1>11, <1>12, <1>13, <1>14
     DEF Serve, Advance, Before, Transaction, After

LEMMA CrashTyped == ASSUME EmailInv, Typed, Crash PROVE Typed'
<1> DEFINE r(q) == IF req[q].pc = "idle" THEN req[q]
                   ELSE [req[q] EXCEPT !.pc = "done"]
<1>1. UNCHANGED <<outbox, eventLog, looks>> /\ req' = [q \in Request |-> r(q)]
  BY DEF Crash
<1>2. ASSUME NEW q \in Request
      PROVE  r(q).pc \in {"idle", "done"} /\ r(q).taken = req[q].taken
  <2>1. req[q] \in Fields
    BY DEF EmailInv, ReqType
  <2>. QED
    BY <2>1 DEF Fields
<1> HIDE DEF r
<1>3. \A q \in Request : Stamped(q)'
  BY <1>1, <1>2 DEF Typed, Stamped
<1>4. faults' \in 0..MaxFaults
  BY CustomerAssumption DEF Crash, Typed
<1>. QED
  BY <1>1, <1>3, <1>4 DEF Typed

LEMMA IdleTyped ==
  ASSUME Typed, UNCHANGED Table, faults' \in 0..MaxFaults PROVE Typed'
  BY DEF Table, Typed, Stamped

LEMMA TypedNext == EmailInv /\ Typed /\ [Next]_vars => Typed'
<1>1. Typed /\ UNCHANGED vars => Typed'
  BY IdleTyped DEF vars, Table, Typed
<1>. QED
  BY <1>1, ServeTyped, CrashTyped DEF Next

LEMMA TypedIsType == EmailInv /\ Typed => TypeOK
<1> SUFFICES ASSUME EmailInv, Typed PROVE TypeOK
  OBVIOUS
<1>1. customers \in [Id -> Row \cup {None}] /\ looks \in Nat
  BY DEF EmailInv, TableType
<1>2. ASSUME NEW q \in Request
      PROVE  /\ req[q].id \in Id \cup {None}
             /\ req[q].at \in Time \cup {None}
             /\ req[q].taken \in 0..(looks - 1)
             /\ req[q].resp \in Answer \cup {None}
  <2>1. req[q] \in Fields /\ Stamped(q)
    BY DEF EmailInv, ReqType, Typed
  <2>. QED
    BY <1>1, <2>1 DEF Fields, Stamped
<1>. QED
  BY <1>1, <1>2 DEF TypeOK, Typed, Recorded, Ops

\* Every variable has its type: messages and events with a time that some clock
\* showed, an operation, a customer and a row.
THEOREM CustomerTypes == Spec => []TypeOK
  BY EmailInit, EmailNext, TypedInit, TypedNext, TypedIsType, PTL DEF Spec

-----------------------------------------------------------------------------
(* Nobody is stuck: the safety half of EveryRequestAnswered                 *)

\* Among the sets of a finite set there is one with no smaller one beside it.
LEMMA SmallestSet ==
  ASSUME NEW W, IsFiniteSet(W), NEW F, F \subseteq SUBSET W, F # {}
  PROVE  \E S \in F : \A T \in F : T \subseteq S => T = S
<1>1. FiniteSubsetsOf(W) = SUBSET W
  BY FS_FiniteSubsetsOfFinite
<1>2. IsWellFoundedOn(StrictSubsetOrdering(W), SUBSET W)
  BY <1>1, FS_StrictSubsetOrderingWellFounded
<1>3. PICK S \in F : \A T \in F : ~ (<<T, S>> \in StrictSubsetOrdering(W))
  BY <1>2, WFMin
<1>4. ASSUME NEW T \in F, T \subseteq S PROVE T = S
  <2>1. S \in SUBSET W /\ T \in SUBSET W
    OBVIOUS
  <2>. QED
    BY <1>3, <1>4, <2>1 DEF StrictSubsetOrdering
<1>. QED
  BY <1>4

\* Where everyone waits for someone there is a circle.
LEMMA WaitingMeansCircle ==
  ASSUME NEW W \in SUBSET Request, W # {},
         \A q \in W : \E p \in W : Blocks(p, q)
  PROVE  \E S \in SUBSET W : S # {} /\ Circle(S)
<1> DEFINE F == {S \in SUBSET W : S # {} /\ \A q \in S : \E p \in S : Blocks(p, q)}
<1>1. W \in F /\ F \subseteq SUBSET W
  OBVIOUS
<1>2. IsFiniteSet(W)
  BY CustomerAssumption, FS_Subset
<1>3. PICK S \in F : \A T \in F : T \subseteq S => T = S
  <2> HIDE DEF F
  <2>. QED
    BY <1>1, <1>2, SmallestSet
<1>4. ASSUME NEW p \in S PROVE \E r \in S : Blocks(p, r)
  <2> SUFFICES ASSUME \A r \in S : ~Blocks(p, r) PROVE FALSE
    OBVIOUS
  <2> DEFINE T == S \ {p}
  <2>1. PICK r \in S : Blocks(r, p)
    BY <1>3
  <2>2. r \in T
    BY <2>1 DEF Blocks
  <2>3. ASSUME NEW q \in T PROVE \E b \in T : Blocks(b, q)
    <3>1. PICK b \in S : Blocks(b, q)
      BY <1>3
    <3>. QED
      BY <3>1
  <2>4. T \in F
    BY <1>3, <2>2, <2>3
  <2>. QED
    BY <1>3, <2>4
<1>. QED
  BY <1>3, <1>4 DEF Circle

\* Who blocks has a transaction open, and who is blocked has a statement waiting.
LEMMA BlockerActive ==
  ASSUME NEW p, NEW q, Blocks(p, q)
  PROVE  Active(p) /\ req[q].pc \in {"write", "index"}
  BY DEF Blocks, HoldsRow, HoldsIndex, Active

LEMMA TypedNobodyStuck == EmailInv /\ Typed => NobodyStuck
<1> SUFFICES ASSUME EmailInv, Typed,
                    NEW W \in SUBSET Request, W # {}, \A q \in W : Active(q),
                    \A q \in W, p \in Request : Blocks(p, q) /\ Active(p) => p \in W,
                    \A q \in W : ~CanMove(q)
             PROVE  FALSE
  BY DEF NobodyStuck
<1>1. ASSUME NEW q \in W PROVE \E p \in W : Blocks(p, q)
  <2>1. req[q].pc \in Pc \ {"idle", "done"} /\ req[q].op \in Ops
    BY DEF EmailInv, ReqType, Fields, Typed, Stamped, Active
  <2>2. req[q].pc \in {"write", "index"} /\ Waits(q)
    BY <2>1 DEF CanMove, Pc, Ops
  <2>3. PICK p \in Request : Blocks(p, q)
    BY <2>2 DEF Waits
  <2>. QED
    BY <2>3, BlockerActive
<1>2. PICK S \in SUBSET W : S # {} /\ Circle(S)
  BY <1>1, WaitingMeansCircle
<1>3. PICK q \in S : TRUE
  BY <1>2
<1>. QED
  BY <1>2, <1>3 DEF CanMove

\* Whatever locks and index entries the open transactions hold, the waits always
\* lead to a request that goes on or to a deadlock that the database resolves.
THEOREM WaitsAreResolved == Spec => []NobodyStuck
  BY EmailInit, EmailNext, TypedInit, TypedNext, TypedNobodyStuck, PTL DEF Spec

\* The steps that are left to a request.
Rank == [idle |-> 11, findID |-> 10, findEmail |-> 9, write |-> 8, index |-> 7,
         outbox |-> 6, commit |-> 5, invalidateKey |-> 4, invalidateList |-> 3,
         event |-> 2, append |-> 1, done |-> 0]

\* A step of one request takes it further and leaves the others where they are.
StepGoesOn ==
  /\ \A q \in Request : Rank[req'[q].pc] <= Rank[req[q].pc]
  /\ \A q \in Request : Serve(q) => Rank[req'[q].pc] < Rank[req[q].pc]

LEMMA ServeGoesOn ==
  ASSUME EmailInv, NEW q \in Request, Serve(q)
  PROVE  /\ Rank[req'[q].pc] < Rank[req[q].pc]
         /\ \A p \in Request \ {q} : req'[p] = req[p]
<1> DEFINE to(pc) == /\ req'[q].pc = pc
                     /\ \A p \in Request \ {q} : req'[p] = req[p]
<1>0. \A pc, shown : TakeTime(q, pc, shown) => to(pc)
  BY DEF TakeTime, EmailInv, ReqType, Fields
<1>1. \A pc : Goto(q, pc) => to(pc)
  BY DEF Goto, EmailInv, ReqType, Fields
<1>2. \A ans : Respond(q, ans) => to("done")
  BY DEF Respond, EmailInv, ReqType, Fields
<1>3. \A pc, op, id, raw : Begin(q, pc, op, id, raw) => to(pc)
  BY DEF Begin, EmailInv, ReqType, Fields
<1> HIDE DEF to
<1>4. CASE Receive(q)
  BY <1>3, <1>4 DEF Receive, to, Rank
<1>5. CASE FindByID(q) \/ FindByEmail(q)
  BY <1>1, <1>2, <1>5 DEF FindByID, FindByEmail, to, Rank
<1>6. CASE WriteRow(q) \/ WriteIndex(q)
  BY <1>1, <1>2, <1>6 DEF WriteRow, WriteIndex, CreateCustomer, UpdateCustomer,
     DeleteCustomer, to, Rank
<1>7. CASE DeadlockDetected(q)
  <2>1. req[q].pc \in {"write", "index"}
    BY <1>7, BlockerActive DEF DeadlockDetected, Circle
  <2>. QED
    BY <1>2, <1>7, <2>1 DEF DeadlockDetected, to, Rank
<1>8. CASE AppendOutbox(q)
  BY <1>0, <1>8 DEF AppendOutbox, to, Rank
<1>9. CASE Commit(q) \/ CommitError(q)
  BY <1>1, <1>2, <1>9 DEF Commit, CommitError, to, Rank
<1>10. CASE StampEvent(q)
  BY <1>0, <1>10 DEF StampEvent, to, Rank
<1>11. CASE InvalidateKey(q) \/ InvalidateList(q) \/ AppendEvent(q)
  BY <1>1, <1>2, <1>11 DEF InvalidateKey, InvalidateList, AppendEvent, to, Rank
<1>12. CASE Fail(q)
  BY <1>2, <1>12 DEF Fail, to, Rank
<1>. QED
  BY <1>4, <1>5, <1>6, <1>7, <1>8, <1>9, <1>10, <1>11, <1>12
     DEF Serve, Advance, Before, Transaction, After

LEMMA NextGoesOn == EmailInv /\ [Next]_vars => StepGoesOn
<1> SUFFICES ASSUME EmailInv, [Next]_vars PROVE StepGoesOn
  OBVIOUS
<1>1. \A q \in Request : Rank[req[q].pc] \in 0..11
  BY DEF EmailInv, ReqType, Fields, Pc, Rank
<1>2. \A q \in Request : Serve(q) => Rank[req'[q].pc] < Rank[req[q].pc]
  BY ServeGoesOn
<1>3. ASSUME NEW q \in Request, Serve(q) PROVE StepGoesOn
  <2> DEFINE left(p) == Rank[req[p].pc]
  <2>1. left(q)' < left(q) /\ \A p \in Request \ {q} : left(p)' = left(p)
    BY <1>3, ServeGoesOn
  <2>2. left(q) \in Int /\ left(q)' \in Int /\ \A p \in Request : left(p) \in Int
    <3>1. \A p \in Request : Rank[req[p].pc]' \in 0..11
      BY <1>1, EmailNext DEF EmailInv, ReqType, Fields, Pc, Rank
    <3>. QED
      BY <1>1, <3>1
  <2>3. \A p \in Request : left(p)' <= left(p)
    <3> HIDE DEF left
    <3> TAKE p \in Request
    <3>1. CASE p = q
      BY <2>1, <2>2, <3>1
    <3>2. CASE p # q
      BY <2>1, <2>2, <3>2
    <3>. QED
      BY <3>1, <3>2
  <2>. QED
    BY <1>2, <2>3 DEF StepGoesOn
<1>4. CASE Crash
  <2>1. \A q \in Request : req'[q].pc = req[q].pc \/ req'[q].pc = "done"
    BY <1>4 DEF Crash, EmailInv, ReqType, Fields
  <2>2. Rank["done"] = 0
    BY DEF Rank
  <2>. QED
    BY <1>1, <1>2, <2>1, <2>2 DEF StepGoesOn
<1>5. CASE UNCHANGED vars
  BY <1>1, <1>2, <1>5 DEF vars, StepGoesOn
<1>. QED
  BY <1>3, <1>4, <1>5 DEF Next

\* No request goes back, and each of its steps, the failing ones included, takes
\* it nearer to its answer: after eleven of them it has one.
THEOREM RequestsGoOn == Spec => [][StepGoesOn]_vars
<1>1. EmailInv /\ [Next]_vars => StepGoesOn
  BY NextGoesOn
<1>. QED
  BY HistoryAlways, <1>1, PTL DEF Spec

-----------------------------------------------------------------------------
(* The cache                                                               *)

Value == Row \cup {None} \cup [Id -> Row \cup {None}]
Holder == [pc : {"get", "load", "set"}, key : Key \cup {None}, got : Value]

\* What the entry of a key may hold.
Genuine(k, v) ==
  v # None => IF k = List THEN /\ v \in [Id -> Row \cup {None}]
                               /\ \A id \in Id : Committed(id, v[id])
              ELSE Committed(k, v)

\* OnlyCommittedRows is not inductive without what the readers carry.
Held ==
  /\ cache \in [Key -> Value]
  /\ reader \in [Reader -> Holder]
  /\ \A r \in Reader : reader[r].pc # "get" => reader[r].key \in Key
  /\ \A k \in Key : Genuine(k, cache[k])
  /\ \A r \in Reader : reader[r].pc = "set" =>
       reader[r].got # None /\ Genuine(reader[r].key, reader[r].got)

CacheInv == EmailInv /\ History /\ Typed /\ Held

LEMMA IdleHolds == Idle \in Holder /\ Idle.pc = "get"
  BY DEF Idle, Holder, Value

LEMMA CacheInvInit == CacheInit => CacheInv
<1> SUFFICES ASSUME CacheInit PROVE CacheInv
  OBVIOUS
<1>1. EmailInv /\ History /\ Typed
  BY EmailInit, HistoryInit, TypedInit DEF CacheInit
<1>2. cache = [k \in Key |-> None] /\ reader = [r \in Reader |-> Idle]
  BY DEF CacheInit
<1>3. Held
  BY <1>2, IdleHolds DEF Held, Genuine, Value
<1>. QED
  BY <1>1, <1>3 DEF CacheInv

\* The outbox forgets nothing, so what was genuine stays so.
LEMMA OutboxGrows == [Next]_vars \/ UNCHANGED outbox => outbox \subseteq outbox'
  BY DEF Next, vars, Serve, Advance, Before, Transaction, After, Receive, FindByID,
     FindByEmail, WriteRow, WriteIndex, DeadlockDetected, AppendOutbox, Commit,
     CommitError, Apply, InvalidateKey, InvalidateList, StampEvent, AppendEvent,
     Fail, Crash

LEMMA StaysGenuine ==
  ASSUME outbox \subseteq outbox', NEW k, NEW v, Genuine(k, v)
  PROVE  Genuine(k, v)'
<1>1. \A id, row : Committed(id, row) => Committed(id, row)'
  BY DEF Committed, MessagesOf
<1>. QED
  BY <1>1 DEF Genuine

\* What a query returns is committed.
LEMMA FetchGenuine ==
  ASSUME EmailInv, History, NEW k \in Key
  PROVE  Fetch(k) \in Value /\ Genuine(k, Fetch(k))
<1>1. \A id \in Id : Committed(id, customers[id])
  BY DEF History, Latest, Committed
<1>2. customers \in [Id -> Row \cup {None}]
  BY DEF EmailInv, TableType
<1>3. k # List => k \in Id
  BY DEF Key
<1>. QED
  BY <1>1, <1>2, <1>3 DEF Fetch, ListCustomers, GetCustomerByID, Genuine, Value

LEMMA ReaderHolds ==
  ASSUME EmailInv, History, Held, NEW r \in Reader, Read(r)
  PROVE  Held'
<1>1. UNCHANGED Table
  BY DEF Read, Get, Load, Set
<1>2. outbox \subseteq outbox'
  BY <1>1 DEF Table
<1>3. ASSUME NEW k \in Key, NEW v, NEW h \in Holder,
             h.pc # "get" => h.key \in Key,
             h.pc = "set" => h.got # None /\ Genuine(h.key, h.got),
             reader' = [reader EXCEPT ![r] = h],
             \/ cache' = cache
             \/ cache' = [cache EXCEPT ![k] = v] /\ v \in Value /\ Genuine(k, v)
      PROVE  Held'
  <2>1. reader' \in [Reader -> Holder] /\ cache' \in [Key -> Value]
    BY <1>3 DEF Held
  <2>2. ASSUME NEW s \in Reader
        PROVE  /\ reader'[s].pc # "get" => reader'[s].key \in Key
               /\ reader'[s].pc = "set" =>
                    reader'[s].got # None /\ Genuine(reader'[s].key, reader'[s].got)
    BY <1>3 DEF Held
  <2>3. \A j \in Key : Genuine(j, cache'[j])
    BY <1>3 DEF Held
  <2>4. \A j, w : Genuine(j, w) => Genuine(j, w)'
    BY <1>2, StaysGenuine
  <2>. QED
    BY <2>1, <2>2, <2>3, <2>4 DEF Held
<1>4. CASE Get(r)
  <2>1. PICK k \in Key :
          /\ reader' = [reader EXCEPT ![r] = [pc |-> "load", key |-> k, got |-> None]]
          /\ cache' = cache
    BY <1>4 DEF Get
  <2> DEFINE h == [pc |-> "load", key |-> k, got |-> None]
  <2>2. h \in Holder /\ h.pc = "load" /\ h.key \in Key
    BY DEF Holder, Value
  <2>3. reader' = [reader EXCEPT ![r] = h]
    BY <2>1
  <2> HIDE DEF h
  <2>. QED
    BY <1>3, <2>1, <2>2, <2>3
<1>5. CASE Load(r)
  <2>1. reader[r].pc = "load" /\ cache' = cache /\ reader[r] \in Holder
    BY <1>5 DEF Load, Held
  <2> DEFINE k == reader[r].key
  <2> DEFINE h == [reader[r] EXCEPT !.pc = "set", !.got = Fetch(k)]
  <2>2. k \in Key
    BY <2>1 DEF Held
  <2>3. Fetch(k) \in Value /\ Genuine(k, Fetch(k))
    BY <2>2, FetchGenuine
  <2>4. h \in Holder /\ h.pc = "set" /\ h.key = k /\ h.got = Fetch(k)
    BY <2>1, <2>3 DEF Holder
  <2>5. \/ reader' = [reader EXCEPT ![r] = Idle]
        \/ reader' = [reader EXCEPT ![r] = h] /\ Fetch(k) # None
    BY <1>5 DEF Load, Held
  <2> HIDE DEF h, k
  <2>. QED
    BY <1>3, <2>1, <2>2, <2>3, <2>4, <2>5, IdleHolds
<1>6. CASE Set(r)
  <2>1. reader[r].pc = "set" /\ reader[r] \in Holder
    BY <1>6 DEF Set, Held
  <2> DEFINE k == reader[r].key
  <2> DEFINE v == reader[r].got
  <2>2. k \in Key /\ v \in Value /\ Genuine(k, v)
    BY <2>1 DEF Held, Holder
  <2>3. /\ reader' = [reader EXCEPT ![r] = Idle]
        /\ cache' = [cache EXCEPT ![k] = v] \/ cache' = cache
    BY <1>6 DEF Set
  <2> HIDE DEF k, v
  <2>. QED
    BY <1>3, <2>2, <2>3, IdleHolds
<1>. QED
  BY <1>4, <1>5, <1>6 DEF Read

\* Deleting an entry, or leaving the cache alone, while the table goes on.
LEMMA EvictHolds ==
  ASSUME Held, outbox \subseteq outbox', UNCHANGED reader,
         cache' = cache \/ \E k \in Key : Evict(k)
  PROVE  Held'
<1>1. \A j, w : Genuine(j, w) => Genuine(j, w)'
  BY StaysGenuine
<1>2. cache' \in [Key -> Value] /\ \A k \in Key : cache'[k] \in {cache[k], None}
  BY DEF Held, Evict, Value
<1>3. \A k \in Key : Genuine(k, cache'[k])
  BY <1>2 DEF Held, Genuine
<1>. QED
  BY <1>1, <1>2, <1>3 DEF Held

LEMMA WriterHolds ==
  ASSUME CacheInv, NEW q \in Request, Write(q) \/ Fails(q)
  PROVE  CacheInv'
<1>1. CASE EvictFails(q)
  <2>1. EmailInv'
    BY <1>1, EvictFailsKeeps DEF CacheInv
  <2>2. PICK pc \in {"invalidateList", "event"} : Goto(q, pc)
    BY <1>1 DEF EvictFails
  <2>3. /\ UNCHANGED <<customers, outbox, eventLog, looks, cache, reader>>
        /\ req[q].pc \in {"invalidateKey", "invalidateList"}
    BY <1>1 DEF EvictFails
  <2>4. History'
    BY <2>2, <2>3, GotoHistory DEF CacheInv, Pc
  <2>5. Held'
    BY <2>3, EvictHolds DEF CacheInv
  <2>6. req[q].taken \in Nat /\ ReqType /\ looks \in Nat
    BY DEF CacheInv, EmailInv, ReqType, Fields
  <2>7. Stamped(q)' /\ \A p \in Request \ {q} : Same(p)
    BY <2>2, <2>3, <2>6, GotoEffect DEF Pc, Stamped, CacheInv, Typed
  <2>8. faults' \in 0..MaxFaults
    BY <1>1, CustomerAssumption DEF EvictFails, Fault, CacheInv, Typed
  <2>9. Typed'
    BY <2>3, <2>6, <2>7, <2>8, StepTyped DEF CacheInv
  <2>. QED
    BY <2>1, <2>4, <2>5, <2>9 DEF CacheInv
<1>2. CASE ~EvictFails(q)
  <2>1. Serve(q)
    BY <1>2 DEF Write, EvictKey, EvictList, Elsewhere, Fails, Serve, Advance, After
  <2>2. Next
    BY <2>1 DEF Next
  <2>3. EmailInv' /\ History' /\ Typed'
    BY <2>2, EmailNext, HistoryNext, TypedNext DEF CacheInv
  <2>4. outbox \subseteq outbox'
    BY <2>2, OutboxGrows
  <2>5. Command(q)
    BY DEF CacheInv, EmailInv
  <2>6. UNCHANGED reader /\ (cache' = cache \/ \E k \in Key : Evict(k))
    BY <1>2, <2>5 DEF Write, EvictKey, EvictList, Elsewhere, Fails, Command, Key,
       InvalidateKey
  <2>7. Held'
    BY <2>4, <2>6, EvictHolds DEF CacheInv
  <2>. QED
    BY <2>3, <2>7 DEF CacheInv
<1>. QED
  BY <1>1, <1>2

LEMMA CacheInvNext == CacheInv /\ [CacheNext]_cvars => CacheInv'
<1> SUFFICES ASSUME CacheInv, [CacheNext]_cvars PROVE CacheInv'
  OBVIOUS
<1>0. NoFault \/ Fault => faults' \in 0..MaxFaults
  BY CustomerAssumption DEF NoFault, Fault, CacheInv, Typed
<1>1. ASSUME NEW r \in Reader, Read(r) PROVE CacheInv'
  <2>1. UNCHANGED Table
    BY <1>1 DEF Read, Get, Load, Set
  <2>2. NoFault \/ Fault
    BY <1>1 DEF Read, Get, Load, Set
  <2>. QED
    BY <1>0, <1>1, <2>1, <2>2, IdleKeeps, IdleHistory, IdleTyped, ReaderHolds
       DEF CacheInv
<1>2. ASSUME NEW k \in Key, Expire(k) PROVE CacheInv'
  <2>1. UNCHANGED Table /\ UNCHANGED reader /\ Evict(k) /\ NoFault
    BY <1>2 DEF Expire, Evict, NoFault
  <2>2. outbox \subseteq outbox'
    BY <2>1 DEF Table
  <2>3. Held'
    BY <2>1, <2>2, EvictHolds DEF CacheInv
  <2>. QED
    BY <1>0, <2>1, <2>3, IdleKeeps, IdleHistory, IdleTyped DEF CacheInv
<1>3. CASE CacheCrash
  <2>1. Crash /\ reader' = [r \in Reader |-> Idle] /\ cache' = cache
    BY <1>3 DEF CacheCrash
  <2>2. EmailInv' /\ History' /\ Typed'
    BY <2>1, CrashKeeps, CrashHistory, CrashTyped DEF CacheInv
  <2>3. outbox \subseteq outbox'
    BY <2>1 DEF Crash
  <2>4. \A j, w : Genuine(j, w) => Genuine(j, w)'
    BY <2>3, StaysGenuine
  <2>5. Held'
    BY <2>1, <2>4, IdleHolds DEF CacheInv, Held
  <2>. QED
    BY <2>2, <2>5 DEF CacheInv
<1>4. CASE UNCHANGED cvars
  <2>1. /\ UNCHANGED Table /\ cache' = cache /\ UNCHANGED reader /\ NoFault
        /\ outbox \subseteq outbox'
    BY <1>4 DEF cvars, Table, NoFault
  <2>. QED
    BY <1>0, <2>1, IdleKeeps, IdleHistory, IdleTyped, EvictHolds DEF CacheInv
<1>. QED
  BY <1>1, <1>2, <1>3, <1>4, WriterHolds DEF CacheNext

\* Whatever readers, writers, expiry and crashes do, the cache never serves a
\* row that was rolled back, or one of another customer.
THEOREM CacheHoldsCommitted == CacheSpec => []OnlyCommittedRows
<1>1. CacheInv => OnlyCommittedRows
  <2> SUFFICES ASSUME CacheInv, NEW id \in Id
               PROVE  /\ Committed(id, cache[id])
                      /\ cache[List] # None => Committed(id, cache[List][id])
    BY DEF OnlyCommittedRows
  <2>1. id \in Key /\ List \in Key /\ id # List
    BY CacheAssumption DEF Key
  <2>2. Genuine(id, cache[id]) /\ Genuine(List, cache[List])
    BY <2>1 DEF CacheInv, Held
  <2>. QED
    BY <2>1, <2>2 DEF Genuine, Committed
<1>. QED
  BY <1>1, CacheInvInit, CacheInvNext, PTL DEF CacheSpec

\* Redis beside it, with calls to it that fail, takes nothing from what the service
\* promises: the constraint, the history, the answers and the way out of every wait.
CustomersKept ==
  EmailUnique /\ OutboxTellsTable /\ EventsAreFacts /\ AnswersAreTrue /\ NobodyStuck

THEOREM CustomersBehindTheCache == CacheSpec => []CustomersKept
<1>1. CacheInv => CustomersKept
  BY LatestTells, ToldTrue, TypedNobodyStuck
     DEF CacheInv, CustomersKept, EmailInv, History
<1>. QED
  BY <1>1, CacheInvInit, CacheInvNext, PTL DEF CacheSpec

\* Redis holds rows and lists of rows, and nobody stores what was not found.
THEOREM CacheTypes == CacheSpec => []CacheType
<1>1. CacheInv => CacheType
  <2> SUFFICES ASSUME CacheInv PROVE CacheType
    OBVIOUS
  <2>1. TypeOK
    BY TypedIsType DEF CacheInv
  <2>2. ASSUME NEW id \in Id PROVE cache[id] \in Row \cup {None}
    <3>1. id \in Key /\ id # List
      BY CacheAssumption DEF Key
    <3>2. cache[id] = None \/ \E m \in outbox : m.row = cache[id]
      BY <3>1 DEF CacheInv, Held, Genuine, Committed, MessagesOf
    <3>. QED
      BY <3>2 DEF CacheInv, Typed, Recorded
  <2>3. cache[List] = None \/ cache[List] \in [Id -> Row \cup {None}]
    BY DEF CacheInv, Held, Genuine, Key
  <2>. QED
    BY <2>1, <2>2, <2>3 DEF CacheType, CacheInv, Held
<1>. QED
  BY <1>1, CacheInvInit, CacheInvNext, PTL DEF CacheSpec

-----------------------------------------------------------------------------
(* Why an entry goes stale                                                 *)

\* The customer q would register is not there yet.
Unborn(q) ==
  \/ req[q].pc = "idle"
  \/ /\ req[q].op = "register"
     /\ req[q].pc \in {"findID", "findEmail", "write", "index", "outbox", "commit"}

\* Nobody adds the row of a registration but its own commit, and nobody takes
\* away the row an update has locked.
Born(q) ==
  /\ Unborn(q) => customers[q] = None /\ (req[q].pc # "idle" => req[q].id = q)
  /\ HoldsRow(q) /\ req[q].op = "update" => customers[req[q].id] # None

Fresh == \A q \in Request : Born(q)

LEMMA FreshInit == Init => Fresh
<1> SUFFICES ASSUME Init, NEW q \in Request PROVE Born(q)
  BY DEF Fresh
<1>1. q \in Id /\ q \notin Old
  BY CustomerAssumption DEF Id
<1>2. customers[q] = None
  BY <1>1 DEF Init
<1>3. req[q].pc = "idle"
  BY DEF Init, Start
<1>. QED
  BY <1>2, <1>3 DEF Born, HoldsRow

LEMMA QuietFresh ==
  ASSUME Fresh, NEW q \in Request, \A p \in Request \ {q} : Same(p),
         UNCHANGED customers, Born(q)'
  PROVE  Fresh'
  BY DEF Fresh, Born, Same, Unborn, HoldsRow

\* A request that goes on with its command.
LEMMA GoesOn ==
  ASSUME Fresh, NEW q \in Request, \A p \in Request \ {q} : Same(p),
         UNCHANGED customers, req[q].pc # "idle", req'[q].pc # "idle",
         req'[q].id = req[q].id, req'[q].op = req[q].op,
         Unborn(q)' => Unborn(q),
         HoldsRow(q)' /\ req[q].op = "update" =>
           HoldsRow(q) \/ customers[req[q].id] # None
  PROVE  Fresh'
<1>1. Born(q)'
  BY DEF Fresh, Born
<1>. QED
  BY <1>1, QuietFresh

LEMMA ApplyFresh ==
  ASSUME EmailInv, Typed, Fresh, NEW q \in Request, req[q].pc = "commit", Apply(q),
         req'[q].pc \in Committing \cup {"done"}, \A p \in Request \ {q} : Same(p)
  PROVE  Fresh'
<1> DEFINE id == req[q].id
<1>1. /\ id \in Id /\ HoldsRow(q) /\ Born(q) /\ req[q].op \in Ops
      /\ customers \in [Id -> Row \cup {None}]
  BY DEF EmailInv, Command, HoldsRow, TableType, Fresh, Typed, Stamped
<1>2. /\ customers'[id] = NewRow(q)
      /\ \A i \in Id \ {id} : customers'[i] = customers[i]
  BY <1>1 DEF Apply
<1>3. Born(q)'
  BY DEF Born, Unborn, HoldsRow, Committing
<1>4. ASSUME NEW p \in Request \ {q} PROVE Born(p)'
  <2>1. Same(p) /\ Born(p) /\ p \in Id
    BY DEF Fresh, Id
  <2>2. Unborn(p) => customers'[p] = None
    <3>1. CASE p # id
      BY <1>2, <2>1, <3>1 DEF Born
    <3>2. CASE p = id /\ req[q].op = "remove"
      BY <1>2, <3>2 DEF NewRow
    <3>3. CASE p = id /\ req[q].op # "remove" /\ Unborn(p)
      <4>1. customers[id] = None
        BY <2>1, <3>3 DEF Born
      <4>2. req[q].op = "register"
        BY <1>1, <4>1, <3>3 DEF Born, Ops
      <4>3. id = q
        BY <1>1, <4>2 DEF Born, Unborn
      <4>. QED
        BY <3>3, <4>3
    <3>. QED
      BY <3>1, <3>2, <3>3
  <2>3. ASSUME HoldsRow(p), req[p].op = "update" PROVE customers'[req[p].id] # None
    <3>1. req[p].id # id /\ req[p].id \in Id
      BY <1>1, <2>3 DEF EmailInv, RowsApart, Command, HoldsRow
    <3>. QED
      BY <1>2, <2>1, <2>3, <3>1 DEF Born
  <2>. QED
    BY <2>1, <2>2, <2>3 DEF Born, Same, Unborn, HoldsRow
<1>. QED
  BY <1>3, <1>4 DEF Fresh

LEMMA ServeFresh ==
  ASSUME EmailInv, Typed, Fresh, NEW q \in Request, Serve(q) \/ EvictFails(q)
  PROVE  Fresh'
<1>0. ReqType /\ looks \in Nat /\ Born(q)
  BY DEF EmailInv, Fresh
<1>1. ASSUME NEW pc \in Pc \ {"idle"}, Goto(q, pc), UNCHANGED customers,
             req[q].pc # "idle",
             req[q].op = "register" => Unborn(q) \/ pc \in Committing,
             pc \in {"index", "outbox", "commit"} /\ req[q].op = "update" =>
               HoldsRow(q) \/ customers[req[q].id] # None
      PROVE  Fresh'
  <2>1. /\ req'[q].pc = pc /\ req'[q].id = req[q].id /\ req'[q].op = req[q].op
        /\ \A p \in Request \ {q} : Same(p)
    BY <1>0, <1>1, GotoEffect
  <2>. QED
    BY <1>1, <2>1, GoesOn DEF Unborn, HoldsRow, Committing
<1>2. ASSUME NEW ans \in Answer, Respond(q, ans), UNCHANGED customers
      PROVE  Fresh'
  <2>1. req'[q].pc = "done" /\ \A p \in Request \ {q} : Same(p)
    BY <1>0, <1>2, RespondEffect
  <2>2. Born(q)'
    BY <2>1 DEF Born, Unborn, HoldsRow
  <2>. QED
    BY <1>2, <2>1, <2>2, QuietFresh
<1>3. CASE Receive(q)
  <2>1. PICK pc \in {"findEmail", "findID"}, op \in Ops, id \in Id,
             raw \in Raw \cup {None} :
          Begin(q, pc, op, id, raw) /\ (op = "register" => id = q)
    BY <1>3 DEF Receive, Id, Ops
  <2>2. /\ req'[q].pc = pc /\ req'[q].op = op /\ req'[q].id = id
        /\ \A p \in Request \ {q} : Same(p)
    BY <1>0, <2>1, BeginEffect DEF Pc, Op, Ops
  <2>3. UNCHANGED customers /\ Unborn(q)
    BY <1>3 DEF Receive, Unborn
  <2>4. Born(q)'
    BY <1>0, <2>1, <2>2, <2>3 DEF Born, Unborn, HoldsRow
  <2>. QED
    BY <2>2, <2>3, <2>4, QuietFresh
<1>4. CASE FindByID(q) \/ FindByEmail(q)
  BY <1>1, <1>2, <1>4 DEF FindByID, FindByEmail, Answer, Pc, Unborn
<1>5. CASE WriteRow(q)
  BY <1>1, <1>2, <1>5 DEF WriteRow, CreateCustomer, UpdateCustomer, DeleteCustomer,
     Answer, Pc, Unborn
<1>6. CASE WriteIndex(q)
  BY <1>1, <1>2, <1>6 DEF WriteIndex, Answer, Pc, Unborn, HoldsRow
<1>7. CASE DeadlockDetected(q) \/ Fail(q) \/ AppendEvent(q)
  BY <1>2, <1>7 DEF DeadlockDetected, Fail, AppendEvent, Answer
<1>8. CASE AppendOutbox(q) \/ StampEvent(q)
  <2>1. PICK pc \in {"commit", "append"}, shown \in Time \cup {None} :
          /\ TakeTime(q, pc, shown) /\ UNCHANGED customers
          /\ req[q].pc = IF pc = "commit" THEN "outbox" ELSE "event"
    BY <1>8 DEF AppendOutbox, StampEvent
  <2>2. /\ req'[q].pc = pc /\ req'[q].id = req[q].id /\ req'[q].op = req[q].op
        /\ \A p \in Request \ {q} : Same(p)
    BY <1>0, <2>1, TakeTimeEffect DEF Pc
  <2>. QED
    BY <2>1, <2>2, GoesOn DEF Unborn, HoldsRow
<1>9. CASE Commit(q)
  <2>1. PICK pc \in {"event", "invalidateKey"} : Goto(q, pc)
    BY <1>9 DEF Commit
  <2>2. req'[q].pc = pc /\ \A p \in Request \ {q} : Same(p)
    BY <1>0, <2>1, GotoEffect DEF Pc
  <2>. QED
    BY <1>9, <2>2, ApplyFresh DEF Commit, Committing
<1>10. CASE CommitError(q)
  <2>1. Respond(q, "error") /\ req[q].pc = "commit"
        /\ (Apply(q) \/ UNCHANGED customers)
    BY <1>10 DEF CommitError
  <2>2. req'[q].pc = "done" /\ \A p \in Request \ {q} : Same(p)
    BY <1>0, <2>1, RespondEffect DEF Answer
  <2>. QED
    BY <1>2, <2>1, <2>2, ApplyFresh DEF Answer
<1>11. CASE InvalidateKey(q) \/ InvalidateList(q) \/ EvictFails(q)
  <2>1. PICK pc \in {"invalidateList", "event"} : Goto(q, pc)
    BY <1>11 DEF InvalidateKey, InvalidateList, EvictFails
  <2>2. UNCHANGED customers /\ req[q].pc \in {"invalidateKey", "invalidateList"}
    BY <1>11 DEF InvalidateKey, InvalidateList, EvictFails
  <2>. QED
    BY <1>1, <2>1, <2>2 DEF Pc, Committing
<1>. QED
  BY <1>3, <1>4, <1>5, <1>6, <1>7, <1>8, <1>9, <1>10, <1>11
     DEF Serve, Advance, Before, Transaction, After

LEMMA CrashFresh == ASSUME EmailInv, Fresh, Crash PROVE Fresh'
<1> SUFFICES ASSUME NEW q \in Request PROVE Born(q)'
  BY DEF Fresh
<1>1. UNCHANGED customers /\ Born(q) /\ req[q] \in Fields
  BY DEF Crash, Fresh, EmailInv, ReqType
<1>2. (UNCHANGED req[q] /\ req[q].pc = "idle") \/ req'[q].pc = "done"
  BY <1>1 DEF Crash, Fields
<1>. QED
  BY <1>1, <1>2 DEF Born, Unborn, HoldsRow

LEMMA IdleFresh == Fresh /\ UNCHANGED Table => Fresh'
  BY DEF Table, Fresh, Born, Unborn, HoldsRow

LEMMA FreshNext == CacheInv /\ Fresh /\ [CacheNext]_cvars => Fresh'
<1> SUFFICES ASSUME CacheInv, Fresh, [CacheNext]_cvars PROVE Fresh'
  OBVIOUS
<1>0. EmailInv /\ Typed
  BY DEF CacheInv
<1>1. ASSUME NEW q \in Request, Write(q) \/ Fails(q) PROVE Fresh'
  <2>1. Serve(q) \/ EvictFails(q)
    BY <1>1 DEF Write, EvictKey, EvictList, Elsewhere, Fails, Serve, Advance, After
  <2>. QED
    BY <1>0, <2>1, ServeFresh
<1>2. CASE CacheCrash
  BY <1>0, <1>2, CrashFresh DEF CacheCrash
<1>3. ASSUME NEW r \in Reader, Read(r) PROVE UNCHANGED Table
  BY <1>3 DEF Read, Get, Load, Set
<1>4. ASSUME NEW k \in Key, Expire(k) PROVE UNCHANGED Table
  BY <1>4 DEF Expire
<1>5. UNCHANGED cvars => UNCHANGED Table
  BY DEF cvars, Table
<1>. QED
  BY <1>1, <1>2, <1>3, <1>4, <1>5, IdleFresh DEF CacheNext

\* An entry whose row stands goes stale only when a reader overwrites it.
LEMMA RowStands ==
  ASSUME NEW k, Fetch(k)' = Fetch(k), Stale(k)', ~Stale(k)
  PROVE  LateSet(k)
  BY DEF Stale, LateSet

LEMMA CommitStale ==
  ASSUME CacheInv, Fresh, NEW q \in Request, Commit(q), UNCHANGED cache,
         NEW k \in Key, Stale(k)', ~Stale(k)
  PROVE  Pending(k)' \/ LateSet(k) \/ (k = List /\ req[q].op = "register")
<1> DEFINE id == req[q].id
<1>1. /\ id \in Id /\ customers \in [Id -> Row \cup {None}] /\ Born(q)
      /\ req[q].pc = "commit" /\ ReqType
  BY DEF CacheInv, EmailInv, Command, TableType, Fresh, Commit
<1>2. \A i \in Id \ {id} : customers'[i] = customers[i]
  BY <1>1 DEF Commit, Apply
<1>3. k # List => k \in Id /\ Fetch(k) = customers[k] /\ Fetch(k)' = customers'[k]
  BY DEF Key, Fetch, GetCustomerByID
<1>4. CASE k # List /\ k # id
  BY <1>2, <1>3, <1>4, RowStands
<1>5. CASE req[q].op # "register" /\ k \in {id, List}
  <2>1. Goto(q, "invalidateKey")
    BY <1>5 DEF Commit
  <2>2. req'[q].pc = "invalidateKey" /\ req'[q].id = id
    BY <1>1, <2>1, GotoEffect DEF Pc
  <2>. QED
    BY <1>5, <2>2 DEF Pending
<1>6. CASE req[q].op = "register" /\ k = id /\ k # List
  <2>1. Unborn(q)
    BY <1>1, <1>6 DEF Unborn
  <2>2. Fetch(k) = None
    BY <1>1, <1>3, <1>6, <2>1 DEF Born
  <2>. QED
    BY <2>2 DEF Stale
<1>. QED
  BY <1>4, <1>5, <1>6

\* What the step that makes an entry stale may have been.
LEMMA StaleCause ==
  ASSUME CacheInv, Fresh, [CacheNext]_cvars, NEW k \in Key, Stale(k)', ~Stale(k)
  PROVE  \/ Pending(k)' \/ LateSet(k)
         \/ faults' # faults /\ req' # req
         \/ k = List /\ \E q \in Request : req[q].op = "register" /\ Commit(q)
<1>1. UNCHANGED customers => LateSet(k)
  BY RowStands DEF Fetch, ListCustomers, GetCustomerByID
<1>2. ASSUME NEW r \in Reader, Read(r) PROVE UNCHANGED customers
  BY <1>2 DEF Read, Get, Load, Set, Table
<1>3. ASSUME NEW j \in Key, Expire(j) PROVE UNCHANGED customers
  BY <1>3 DEF Expire, Table
<1>4. CacheCrash => UNCHANGED customers
  BY DEF CacheCrash, Crash
<1>5. ASSUME NEW q \in Request, CommitError(q) PROVE faults' # faults /\ req' # req
  <2>1. faults' # faults
    BY <1>5, CustomerAssumption DEF CommitError, CacheInv, Typed
  <2>2. req'[q].pc = "done"
    BY <1>5 DEF CommitError, Respond, CacheInv, EmailInv, ReqType, Fields
  <2>. QED
    BY <1>5, <2>1, <2>2 DEF CommitError
<1>6. ASSUME NEW q \in Request, Write(q) \/ Fails(q)
      PROVE  UNCHANGED customers \/ CommitError(q) \/ (Commit(q) /\ UNCHANGED cache)
  BY <1>6 DEF Write, Fails, EvictKey, EvictList, EvictFails, Elsewhere, Before,
     Transaction, Receive, FindByID, FindByEmail, WriteRow, WriteIndex,
     DeadlockDetected, AppendOutbox, InvalidateKey, InvalidateList,
     StampEvent, AppendEvent, Fail
<1>7. UNCHANGED cvars => UNCHANGED customers
  BY DEF cvars
<1>. QED
  BY <1>1, <1>2, <1>3, <1>4, <1>5, <1>6, <1>7, CommitStale DEF CacheNext

\* For any number of requests and readers, an entry of the cache goes stale only
\* by a commit that has yet to delete its key, by a late Set, by a failing call
\* or, the list only, by a registration.
THEOREM StalenessHasACause == CacheSpec => StaleForAReason
<1>1. \A q \in Request : Commit(q) => req[q].pc = "commit"
  BY DEF Commit
<1>2. CacheInv /\ Fresh /\ [CacheNext]_cvars => [Caused]_cvars
  BY <1>1, StaleCause DEF Caused, Registered
<1>3. CacheInit => Fresh
  BY FreshInit DEF CacheInit
<1>. QED
  BY <1>2, <1>3, CacheInvInit, CacheInvNext, FreshNext, PTL
     DEF CacheSpec, StaleForAReason

\* A request that has a key to delete keeps it until it deletes it.
LEMMA PendingDeletes ==
  ASSUME CacheInv, [CacheNext]_cvars, NEW k \in Key, Pending(k), ~Pending(k)',
         faults' = faults \/ req' = req
  PROVE  cache'[k] = None
<1>1. PICK q \in Request :
        \/ req[q].pc = "invalidateKey" /\ k \in {req[q].id, List}
        \/ req[q].pc = "invalidateList" /\ k = List
  BY DEF Pending
<1>2. req'[q].pc # req[q].pc \/ req'[q].id # req[q].id
  BY <1>1 DEF Pending
<1>3. faults' = faults /\ faults \in Nat
  BY <1>2, CustomerAssumption DEF CacheInv, Typed
<1>4. ~CacheCrash /\ \A p \in Request : ~EvictFails(p) /\ ~Fails(p)
  BY <1>3 DEF CacheCrash, Crash, EvictFails, Fault, Fails, Fail
<1>5. ~UNCHANGED cvars /\ (\A r \in Reader : ~Read(r)) /\ (\A j \in Key : ~Expire(j))
  BY <1>2 DEF cvars, Read, Get, Load, Set, Expire, Table
<1>6. PICK p \in Request : EvictKey(p) \/ EvictList(p) \/ Elsewhere(p)
  BY <1>4, <1>5 DEF CacheNext, Write
<1>7. p = q
  <2>1. Serve(p)
    BY <1>6 DEF EvictKey, EvictList, Elsewhere, Serve, Advance, After
  <2>. QED
    BY <1>2, <2>1, ServeGoesOn DEF CacheInv
<1>8. ~Elsewhere(q)
  <2>1. ~DeadlockDetected(q)
    BY <1>1, BlockerActive DEF DeadlockDetected, Circle
  <2>. QED
    BY <1>1, <2>1 DEF Elsewhere, Before, Receive, FindByID, FindByEmail, Transaction,
       WriteRow, WriteIndex, AppendOutbox, Commit, CommitError, StampEvent, AppendEvent
<1>9. CASE EvictKey(q)
  <2>1. req[q].pc = "invalidateKey" /\ Goto(q, "invalidateList")
    BY <1>9 DEF EvictKey, InvalidateKey
  <2>2. req'[q].pc = "invalidateList"
    BY <2>1 DEF Goto, CacheInv, EmailInv, ReqType, Fields
  <2>3. k = req[q].id
    BY <1>1, <2>1, <2>2 DEF Pending
  <2>. QED
    BY <1>9, <2>3 DEF EvictKey, Evict, CacheInv, Held
<1>10. CASE EvictList(q)
  <2>1. k = List
    BY <1>1, <1>10 DEF EvictList, InvalidateList
  <2>. QED
    BY <1>10, <2>1 DEF EvictList, Evict, CacheInv, Held
<1>. QED
  BY <1>6, <1>7, <1>8, <1>9, <1>10

\* What the readers store after the last Delete, what fails and, for the list,
\* registrations are the only ways to an old value that stays: without them an
\* entry is outdated only while a request that has committed is on its way to
\* delete it, whatever else the requests and the readers do.
THEOREM CorrectValueWithoutLateSets ==
  ASSUME NEW k \in Key
  PROVE  CacheSpec /\ [][~Disturbs(k)]_cvars => []StaleOnlyBriefly(k)
<1>1. CacheInit => StaleOnlyBriefly(k)
  BY DEF CacheInit, StaleOnlyBriefly, Stale
<1>2. ASSUME CacheInv, Fresh, [CacheNext]_cvars, ~Disturbs(k), StaleOnlyBriefly(k),
             Stale(k)', ~Pending(k)'
      PROVE  FALSE
  <2>1. ~Stale(k)
    <3>1. Stale(k) => cache'[k] = None
      BY <1>2, PendingDeletes DEF StaleOnlyBriefly, Disturbs
    <3>. QED
      BY <1>2, <3>1 DEF Stale
  <2>. QED
    BY <1>2, <2>1, StaleCause DEF Disturbs
<1>3. UNCHANGED cvars /\ StaleOnlyBriefly(k) => StaleOnlyBriefly(k)'
  BY DEF cvars, StaleOnlyBriefly, Stale, Pending, Fetch, ListCustomers, GetCustomerByID
<1>4. /\ CacheInv /\ Fresh /\ StaleOnlyBriefly(k)
      /\ [CacheNext]_cvars /\ [~Disturbs(k)]_cvars
      => StaleOnlyBriefly(k)'
  BY <1>2, <1>3 DEF StaleOnlyBriefly
<1>5. CacheInit => Fresh
  BY FreshInit DEF CacheInit
<1>. QED
  BY <1>1, <1>4, <1>5, CacheInvInit, CacheInvNext, FreshNext, PTL DEF CacheSpec
=============================================================================
