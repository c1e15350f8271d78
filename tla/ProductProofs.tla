---------------------------- MODULE ProductProofs ----------------------------
(* Theorems about ProductCatalog and ProductListing, for any number of      *)
(* requests, products and SKUs and any limits.                              *)
EXTENDS ProductListing, FiniteSetTheorems, SequenceTheorems, TLAPS

Fields == [pc : {"idle", "insert", "find", "replace", "done"},
           op : {"create", "update", "archive", None}, id : Id \cup {None},
           copy : Document \cup {None}, read : Nat, wrote : Nat,
           resp : Answer \cup {None}]

Types ==
  /\ products \in [Id -> Document \cup {None}]
  /\ req \in [Request -> Fields]
  /\ clock \in Nat

\* A copy about to be inserted has no document yet; a copy about to replace a
\* document comes from it, however old it is.
Sound(q, r) ==
  /\ r.pc \in {"idle", "insert"} => products[q] = None
  /\ r.pc = "insert" => r.copy \in Document
  /\ r.pc = "find" => r.id \in Id
  /\ r.pc = "replace" =>
       /\ r.id \in Id /\ products[r.id] # None
       /\ r.copy \in Document
       /\ r.copy.sku = products[r.id].sku
       /\ r.copy.created = products[r.id].created

CatalogInv ==
  /\ Types
  /\ \A q \in Request : Sound(q, req[q])
  /\ SkuUnique

LEMMA CatalogInit == Init => CatalogInv
<1> SUFFICES ASSUME Init PROVE CatalogInv
  OBVIOUS
<1>1. PICK sku \in [Old -> Sku] :
        /\ \A i, j \in Old : sku[i] = sku[j] => i = j
        /\ products = [i \in Id |->
             IF i \in Old THEN [sku |-> sku[i], details |-> i, active |-> TRUE,
                                created |-> 1, updated |-> 1]
                          ELSE None]
  BY DEF Init
<1>2. Start \in Fields /\ Start.pc = "idle"
  BY DEF Start, Fields
<1>3. Types
  BY <1>1, <1>2 DEF Init, Types, Document, Id
<1>4. \A q \in Request : Sound(q, req[q])
  BY <1>1, <1>2, CatalogAssumption DEF Init, Sound, Id
<1>5. SkuUnique
  BY <1>1, CatalogAssumption DEF SkuUnique, Id
<1>. QED
  BY <1>3, <1>4, <1>5 DEF CatalogInv

-----------------------------------------------------------------------------
(* Steps that change one request                                           *)

LEMMA BecomesEffect ==
  ASSUME Types, NEW q \in Request, NEW r \in Fields, Becomes(q, r)
  PROVE  /\ req' \in [Request -> Fields] /\ clock' \in Nat
         /\ req'[q] = r
         /\ \A p \in Request \ {q} : req'[p] = req[p]
  BY DEF Types, Becomes

\* The fields of a request that goes to its end.
LEMMA DoneFields ==
  ASSUME Types, NEW q \in Request, NEW ans \in Answer, NEW t \in Nat
  PROVE  /\ [req[q] EXCEPT !.pc = "done", !.resp = ans] \in Fields
         /\ [req[q] EXCEPT !.pc = "done", !.wrote = t, !.resp = ans] \in Fields
<1>1. req[q] \in Fields
  BY DEF Types
<1>. QED
  BY <1>1 DEF Fields

LEMMA QuietKeeps ==
  ASSUME CatalogInv, NEW q \in Request, NEW r \in Fields, Becomes(q, r),
         UNCHANGED products, Sound(q, r)
  PROVE  CatalogInv'
<1>1. Types'
  BY BecomesEffect DEF CatalogInv, Types
<1>2. \A p \in Request : Sound(p, req[p])'
  BY BecomesEffect DEF CatalogInv, Sound
<1>3. SkuUnique'
  BY DEF CatalogInv, SkuUnique
<1>. QED
  BY <1>1, <1>2, <1>3 DEF CatalogInv

LEMMA RespondKeeps ==
  ASSUME CatalogInv, NEW q \in Request, NEW ans \in Answer, Respond(q, ans),
         UNCHANGED products
  PROVE  CatalogInv'
<1> DEFINE r == [req[q] EXCEPT !.pc = "done", !.resp = ans]
<1>1. r \in Fields /\ Becomes(q, r)
  BY DoneFields DEF CatalogInv, Respond
<1>2. r.pc = "done"
  BY DEF CatalogInv, Types, Fields
<1> HIDE DEF r
<1>3. Sound(q, r)
  BY <1>2 DEF Sound
<1>. QED
  BY <1>1, <1>3, QuietKeeps

-----------------------------------------------------------------------------
(* Steps that write a document                                             *)

\* A new SKU under an id that had no document.
LEMMA InsertKeeps ==
  ASSUME CatalogInv, NEW q \in Request, NEW ans \in Answer,
         req[q].pc = "insert", ~SkuTaken(req[q].copy.sku), Insert(q),
         Respond(q, ans)
  PROVE  CatalogInv'
<1> DEFINE r == [req[q] EXCEPT !.pc = "done", !.resp = ans]
<1> DEFINE doc == req[q].copy
<1>1. r \in Fields /\ Becomes(q, r) /\ r.pc = "done"
  BY DoneFields DEF CatalogInv, Respond, Types, Fields
<1>2. doc \in Document /\ products[q] = None /\ q \in Id
  BY DEF CatalogInv, Sound, Id
<1>3. products' = [products EXCEPT ![q] = doc]
  BY DEF Insert
<1>4. \A i \in Id : products[i] # None => products[i].sku # doc.sku
  BY DEF SkuTaken
<1> HIDE DEF r, doc
<1>5. Types'
  BY <1>1, <1>2, <1>3, BecomesEffect DEF CatalogInv, Types
<1>6. \A i \in Id \ {q} : products'[i] = products[i]
  BY <1>3 DEF CatalogInv, Types
<1>7. ASSUME NEW p \in Request PROVE Sound(p, req[p])'
  <2>1. CASE p = q
    BY <1>1, <2>1, BecomesEffect DEF CatalogInv, Sound
  <2>2. CASE p # q
    <3>1. req'[p] = req[p] /\ p \in Id
      BY <1>1, <2>2, BecomesEffect DEF CatalogInv, Id
    <3>. QED
      BY <1>2, <1>6, <2>2, <3>1 DEF CatalogInv, Sound
  <2>. QED
    BY <2>1, <2>2
<1>8. SkuUnique'
  <2>1. products'[q] = doc
    BY <1>2, <1>3 DEF CatalogInv, Types
  <2>. QED
    BY <1>4, <1>6, <2>1 DEF CatalogInv, SkuUnique
<1>. QED
  BY <1>5, <1>7, <1>8 DEF CatalogInv

\* What every replacement leaves alone.
Origin ==
  \A i \in Id :
    /\ products'[i] = None <=> products[i] = None
    /\ products[i] # None => /\ products'[i].sku = products[i].sku
                             /\ products'[i].created = products[i].created

LEMMA ReplaceOrigin ==
  ASSUME CatalogInv, NEW q \in Request, req[q].pc = "replace", Replace(q)
  PROVE  Origin /\ products' \in [Id -> Document \cup {None}]
<1> DEFINE doc == req[q].copy
<1> DEFINE id == req[q].id
<1>1. /\ id \in Id /\ products[id] # None /\ doc \in Document
      /\ doc.sku = products[id].sku /\ doc.created = products[id].created
  BY DEF CatalogInv, Sound
<1>2. products' = [products EXCEPT ![id] = doc]
  BY DEF Replace
<1> HIDE DEF doc, id
<1>3. products \in [Id -> Document \cup {None}]
  BY DEF CatalogInv, Types
<1>4. products' \in [Id -> Document \cup {None}]
  BY <1>1, <1>2, <1>3
<1>5. products'[id] = doc /\ doc # None
  BY <1>1, <1>2, <1>3, NoDocumentAssumption
<1>6. \A i \in Id \ {id} : products'[i] = products[i]
  BY <1>2, <1>3
<1>7. Origin
  BY <1>1, <1>5, <1>6 DEF Origin
<1>. QED
  BY <1>4, <1>7

LEMMA ReplaceKeeps ==
  ASSUME CatalogInv, NEW q \in Request, NEW ans \in Answer,
         req[q].pc = "replace", Replace(q),
         Becomes(q, [req[q] EXCEPT !.pc = "done", !.wrote = clock, !.resp = ans])
  PROVE  CatalogInv'
<1> DEFINE r == [req[q] EXCEPT !.pc = "done", !.wrote = clock, !.resp = ans]
<1>1. r \in Fields /\ Becomes(q, r) /\ r.pc = "done"
  <2>1. Types /\ clock \in Nat
    BY DEF CatalogInv, Types
  <2>2. r \in Fields
    BY <2>1, DoneFields
  <2>3. req[q] \in Fields
    BY DEF CatalogInv, Types
  <2>. QED
    BY <2>2, <2>3 DEF Fields
<1> HIDE DEF r
<1>2. Origin /\ products' \in [Id -> Document \cup {None}]
  BY ReplaceOrigin
<1>3. Types'
  BY <1>1, <1>2, BecomesEffect DEF CatalogInv, Types
<1>4. ASSUME NEW p \in Request PROVE Sound(p, req[p])'
  <2>1. CASE p = q
    BY <1>1, <2>1, BecomesEffect DEF CatalogInv, Sound
  <2>2. CASE p # q
    <3>1. req'[p] = req[p] /\ p \in Id
      BY <1>1, <2>2, BecomesEffect DEF CatalogInv, Id
    <3>. QED
      BY <1>2, <3>1 DEF CatalogInv, Sound, Origin
  <2>. QED
    BY <2>1, <2>2
<1>5. SkuUnique'
  BY <1>2 DEF CatalogInv, SkuUnique, Origin
<1>. QED
  BY <1>3, <1>4, <1>5 DEF CatalogInv

-----------------------------------------------------------------------------
(* Every step                                                              *)

LEMMA CreateKeeps ==
  ASSUME CatalogInv, NEW q \in Request, Create(q)
  PROVE  CatalogInv'
<1>1. CASE ReceiveCreate(q)
  <2>1. PICK sku \in Sku :
          Becomes(q, [Start EXCEPT !.pc = "insert", !.op = "create", !.id = q,
                                   !.copy = NewProduct(q, sku)])
    BY <1>1 DEF ReceiveCreate
  <2> DEFINE doc == NewProduct(q, sku)
  <2>2. doc \in Document
    BY DEF NewProduct, Document, Id, CatalogInv, Types
  <2> HIDE DEF doc
  <2> DEFINE r == [Start EXCEPT !.pc = "insert", !.op = "create", !.id = q,
                                !.copy = doc]
  <2>3. r \in Fields /\ r.pc = "insert" /\ r.copy = doc
    BY <2>2 DEF Start, Fields, Id
  <2>4. Becomes(q, r)
    BY <2>1 DEF doc
  <2> HIDE DEF r
  <2>5. products[q] = None
    BY <1>1 DEF ReceiveCreate, CatalogInv, Sound
  <2>. QED
    BY <1>1, <2>2, <2>3, <2>4, <2>5, QuietKeeps DEF ReceiveCreate, Sound
<1>2. CASE Save(q)
  <2>1. "ok" \in Answer /\ "conflict" \in Answer
    BY DEF Answer
  <2>. QED
    BY <1>2, <2>1, InsertKeeps, RespondKeeps DEF Save
<1>3. CASE SaveFails(q)
  <2>1. "error" \in Answer
    BY DEF Answer
  <2>. QED
    BY <1>3, <2>1, InsertKeeps, RespondKeeps DEF SaveFails
<1>. QED
  BY <1>1, <1>2, <1>3 DEF Create

\* A copy of the document that is there, changed by the command.
LEMMA ChangedKind ==
  ASSUME Types, NEW q \in Request, NEW doc \in Document
  PROVE  /\ Changed(q, doc) \in Document
         /\ Changed(q, doc).sku = doc.sku
         /\ Changed(q, doc).created = doc.created
  BY DEF Changed, Document, Types, Id

LEMMA FindKeeps ==
  ASSUME CatalogInv, NEW q \in Request, FindByID(q)
  PROVE  CatalogInv'
<1> DEFINE doc == products[req[q].id]
<1>1. CASE doc = None
  BY <1>1, RespondKeeps DEF FindByID, Answer
<1>2. CASE doc # None
  <2>1. Becomes(q, [req[q] EXCEPT !.pc = "replace", !.read = clock,
                                  !.copy = Changed(q, doc)])
    BY <1>2 DEF FindByID
  <2> DEFINE copy == Changed(q, doc)
  <2> DEFINE r == [req[q] EXCEPT !.pc = "replace", !.read = clock, !.copy = copy]
  <2>2. req[q].id \in Id
    BY DEF FindByID, CatalogInv, Sound
  <2>3. doc \in Document
    BY <1>2, <2>2 DEF CatalogInv, Types
  <2>4. copy \in Document /\ copy.sku = doc.sku /\ copy.created = doc.created
    BY <2>3, ChangedKind DEF CatalogInv
  <2> HIDE DEF copy
  <2>5. r \in Fields /\ r.pc = "replace" /\ r.copy = copy /\ r.id = req[q].id
    <3>1. req[q] \in Fields /\ clock \in Nat
      BY DEF CatalogInv, Types
    <3>. QED
      BY <2>4, <3>1 DEF Fields
  <2>6. Becomes(q, r)
    BY <2>1 DEF copy
  <2> HIDE DEF r
  <2>7. Sound(q, r)
    BY <1>2, <2>2, <2>4, <2>5 DEF Sound
  <2>. QED
    BY <2>5, <2>6, <2>7, QuietKeeps DEF FindByID
<1>. QED
  BY <1>1, <1>2

LEMMA ChangeKeeps ==
  ASSUME CatalogInv, NEW q \in Request, Change(q)
  PROVE  CatalogInv'
<1> USE DEF Answer
<1>1. CASE ReceiveChange(q)
  <2>1. PICK id \in Id \ {q}, op \in {"update", "archive"} :
          Becomes(q, [Start EXCEPT !.pc = "find", !.op = op, !.id = id])
    BY <1>1 DEF ReceiveChange
  <2> DEFINE r == [Start EXCEPT !.pc = "find", !.op = op, !.id = id]
  <2>2. r \in Fields /\ r.pc = "find" /\ r.id \in Id
    BY DEF Start, Fields
  <2>3. Becomes(q, r)
    BY <2>1
  <2> HIDE DEF r
  <2>. QED
    BY <1>1, <2>2, <2>3, QuietKeeps DEF ReceiveChange, Sound
<1>2. CASE FindByID(q)
  BY <1>2, FindKeeps
<1>3. CASE ReplaceOne(q)
  BY <1>3, ReplaceKeeps DEF ReplaceOne
<1>4. CASE FindFails(q)
  BY <1>4, RespondKeeps DEF FindFails
<1>5. CASE ReplaceFails(q)
  BY <1>5, ReplaceKeeps, RespondKeeps DEF ReplaceFails
<1>. QED
  BY <1>1, <1>2, <1>3, <1>4, <1>5 DEF Change

LEMMA CrashKeeps == ASSUME CatalogInv, Crash PROVE CatalogInv'
<1> DEFINE r(q) == IF req[q].pc = "idle" THEN req[q]
                   ELSE [req[q] EXCEPT !.pc = "done"]
<1>1. ASSUME NEW q \in Request
      PROVE  r(q) \in Fields /\ (r(q) = req[q] \/ r(q).pc = "done")
  <2>1. req[q] \in Fields
    BY DEF CatalogInv, Types
  <2>. QED
    BY <2>1 DEF Fields
<1>2. req' = [q \in Request |-> r(q)]
  BY DEF Crash
<1> HIDE DEF r
<1>3. Types'
  BY <1>1, <1>2 DEF Crash, CatalogInv, Types
<1>4. \A q \in Request : Sound(q, req[q])'
  BY <1>1, <1>2 DEF Crash, CatalogInv, Sound
<1>5. SkuUnique'
  BY DEF Crash, CatalogInv, SkuUnique
<1>. QED
  BY <1>3, <1>4, <1>5 DEF CatalogInv

LEMMA CatalogNext == CatalogInv /\ [Next]_vars => CatalogInv'
<1> SUFFICES ASSUME CatalogInv, [Next]_vars PROVE CatalogInv'
  OBVIOUS
<1>1. CASE \E q \in Request : Create(q)
  BY <1>1, CreateKeeps
<1>2. CASE \E q \in Request : Change(q)
  BY <1>2, ChangeKeeps
<1>3. CASE \E q \in Request : Refuse(q)
  BY <1>3, RespondKeeps DEF Refuse, Answer
<1>4. CASE Crash
  BY <1>4, CrashKeeps
<1>5. CASE UNCHANGED vars
  BY <1>5 DEF vars, CatalogInv, Types, Sound, SkuUnique
<1>. QED
  BY <1>1, <1>2, <1>3, <1>4, <1>5 DEF Next

LEMMA CatalogAlways == Spec => []CatalogInv
  BY CatalogInit, CatalogNext, PTL DEF Spec

-----------------------------------------------------------------------------
(* Types and dates                                                         *)

\* A document changed, the last time, after it was created and before now.
Dated(doc) == doc # None => doc.created <= doc.updated /\ doc.updated < clock

Dates ==
  /\ faults \in 0..MaxFaults
  /\ \A i \in Id : Dated(products[i])
  /\ \A q \in Request : Dated(req[q].copy)

LEMMA DatesInit == Init => Dates
<1> SUFFICES ASSUME Init PROVE Dates
  OBVIOUS
<1>1. \A q \in Request : req[q].copy = None
  BY DEF Init, Start
<1>2. \A i \in Id : products[i] # None =>
        products[i].created = 1 /\ products[i].updated = 1
  BY DEF Init
<1>. QED
  BY <1>1, <1>2, CatalogAssumption DEF Init, Dates, Dated

\* Time passes, and a document stays dated.
LEMMA DatedLater ==
  ASSUME Types, NEW doc \in Document \cup {None}, Dated(doc), clock' = clock + 1
  PROVE  doc # None => doc.created <= doc.updated /\ doc.updated < clock'
  BY DEF Types, Dated, Document

\* A step dates what it puts into the collection and into a request.
LEMMA DatesKept ==
  ASSUME CatalogInv, CatalogInv', Dates, clock' = clock + 1,
         faults' \in 0..MaxFaults,
         \A i \in Id : \/ products'[i] = products[i]
                       \/ \E q \in Request : products'[i] = req[q].copy,
         \A q \in Request : \/ req'[q].copy = req[q].copy
                            \/ Dated(req[q].copy)'
  PROVE  Dates'
<1>1. /\ \A i \in Id : products[i] \in Document \cup {None}
      /\ \A q \in Request : req[q].copy \in Document \cup {None}
  BY DEF CatalogInv, Types, Fields
<1>2. ASSUME NEW q \in Request PROVE Dated(req[q].copy)'
  <2>1. CASE req'[q].copy = req[q].copy
    BY <1>1, <2>1, DatedLater DEF CatalogInv, Dates, Dated
  <2>. QED
    BY <2>1
<1>3. ASSUME NEW i \in Id PROVE Dated(products[i])'
  <2>1. CASE products'[i] = products[i]
    BY <1>1, <2>1, DatedLater DEF CatalogInv, Dates, Dated
  <2>2. ASSUME NEW q \in Request, products'[i] = req[q].copy
        PROVE  Dated(products[i])'
    BY <1>1, <2>2, DatedLater DEF CatalogInv, Dates, Dated
  <2>. QED
    BY <2>1, <2>2
<1>. QED
  BY <1>2, <1>3 DEF Dates

LEMMA FaultsBounded ==
  ASSUME Dates, [Next]_vars PROVE faults' \in 0..MaxFaults
<1>1. CASE Fault
  BY <1>1, CatalogAssumption DEF Fault, Dates
<1>. QED
  BY <1>1
     DEF Dates, Next, vars, Create, ReceiveCreate, Save, SaveFails, Change,
         ReceiveChange, FindByID, ReplaceOne, FindFails, ReplaceFails, Refuse,
         Crash

\* What the steps of requests put into the collection are their copies.
LEMMA WritesCopies ==
  ASSUME CatalogInv, Next, NEW i \in Id
  PROVE  products'[i] = products[i] \/ \E q \in Request : products'[i] = req[q].copy
<1>1. ASSUME NEW q \in Request, Insert(q) \/ Replace(q)
      PROVE  products'[i] = products[i] \/ products'[i] = req[q].copy
  BY <1>1 DEF Insert, Replace, CatalogInv, Types
<1>. QED
  BY <1>1 DEF Next, Create, ReceiveCreate, Save, SaveFails, Change,
              ReceiveChange, FindByID, ReplaceOne, FindFails, ReplaceFails,
              Refuse, Crash

\* Those who take a new copy date it.
LEMMA CopiesDated ==
  ASSUME CatalogInv, Dates, Next, NEW p \in Request
  PROVE  req'[p].copy = req[p].copy \/ Dated(req[p].copy)'
<1>1. /\ req \in [Request -> Fields] /\ clock \in Nat
      /\ products \in [Id -> Document \cup {None}]
  BY DEF CatalogInv, Types
<1>2. ASSUME NEW q \in Request, NEW r \in Fields, Becomes(q, r),
             r.copy \in Document,
             r.copy.created <= r.copy.updated, r.copy.updated <= clock
      PROVE  req'[p].copy = req[p].copy \/ Dated(req[p].copy)'
  <2>1. clock' = clock + 1 /\ req' = [req EXCEPT ![q] = r]
    BY <1>2 DEF Becomes
  <2>. QED
    BY <1>1, <1>2, <2>1 DEF Dated, Document
<1>3. ASSUME NEW q \in Request, NEW ans \in Answer, NEW t \in Nat,
             Becomes(q, [req[q] EXCEPT !.pc = "done", !.resp = ans])
               \/ Becomes(q, [req[q] EXCEPT !.pc = "done", !.wrote = t, !.resp = ans])
      PROVE  req'[p].copy = req[p].copy
  <2> DEFINE r1 == [req[q] EXCEPT !.pc = "done", !.resp = ans]
  <2> DEFINE r2 == [req[q] EXCEPT !.pc = "done", !.wrote = t, !.resp = ans]
  <2>1. r1.copy = req[q].copy /\ r2.copy = req[q].copy
    <3>1. req[q] \in Fields
      BY <1>1
    <3>. QED
      BY <3>1 DEF Fields
  <2>2. Becomes(q, r1) \/ Becomes(q, r2)
    BY <1>3
  <2> HIDE DEF r1, r2
  <2>. QED
    BY <1>1, <2>1, <2>2 DEF Becomes
<1>4. ASSUME NEW q \in Request, ReceiveCreate(q)
      PROVE  req'[p].copy = req[p].copy \/ Dated(req[p].copy)'
  <2>1. PICK sku \in Sku :
          Becomes(q, [Start EXCEPT !.pc = "insert", !.op = "create", !.id = q,
                                   !.copy = NewProduct(q, sku)])
    BY <1>4 DEF ReceiveCreate
  <2> DEFINE doc == NewProduct(q, sku)
  <2>2. doc \in Document /\ doc.created = clock /\ doc.updated = clock
    BY <1>1 DEF NewProduct, Document, Id
  <2> HIDE DEF doc
  <2> DEFINE r == [Start EXCEPT !.pc = "insert", !.op = "create", !.id = q,
                                !.copy = doc]
  <2>3. r \in Fields /\ r.copy = doc
    BY <2>2 DEF Start, Fields, Id
  <2>4. Becomes(q, r)
    BY <2>1 DEF doc
  <2> HIDE DEF r
  <2>. QED
    BY <1>1, <1>2, <2>2, <2>3, <2>4
<1>5. ASSUME NEW q \in Request, ReceiveChange(q)
      PROVE  req'[p].copy = req[p].copy \/ Dated(req[p].copy)'
  <2>1. PICK id \in Id \ {q}, op \in {"update", "archive"} :
          Becomes(q, [Start EXCEPT !.pc = "find", !.op = op, !.id = id])
    BY <1>5 DEF ReceiveChange
  <2> DEFINE r == [Start EXCEPT !.pc = "find", !.op = op, !.id = id]
  <2>2. r \in Fields /\ r.copy = None
    BY DEF Start, Fields
  <2>3. Becomes(q, r)
    BY <2>1
  <2> HIDE DEF r
  <2>4. clock' = clock + 1 /\ req' = [req EXCEPT ![q] = r]
    BY <2>3 DEF Becomes
  <2>5. req'[p].copy = req[p].copy \/ req'[p].copy = None
    BY <1>1, <2>2, <2>4
  <2>. QED
    BY <2>5 DEF Dated
<1>6. ASSUME NEW q \in Request, FindByID(q)
      PROVE  req'[p].copy = req[p].copy \/ Dated(req[p].copy)'
  <2> DEFINE doc == products[req[q].id]
  <2>1. CASE doc = None
    BY <1>1, <1>3, <1>6, <2>1 DEF FindByID, Respond, Answer
  <2>2. CASE doc # None
    <3>1. req[q].id \in Id
      BY <1>6 DEF FindByID, CatalogInv, Sound
    <3>2. doc \in Document /\ Dated(doc)
      BY <1>1, <2>2, <3>1 DEF Dates
    <3> DEFINE copy == Changed(q, doc)
    <3> DEFINE r == [req[q] EXCEPT !.pc = "replace", !.read = clock, !.copy = copy]
    <3>3. Becomes(q, r)
      BY <1>6, <2>2 DEF FindByID
    <3>4. copy \in Document
      BY <3>2, ChangedKind DEF CatalogInv
    <3>5. copy.created = doc.created /\ copy.updated = clock
      <4>1. doc \in Document
        BY <3>2
      <4> HIDE DEF doc
      <4>. QED
        BY <4>1 DEF Changed, Document
    <3>6. copy.created <= copy.updated /\ copy.updated <= clock
      <4>1. doc.created <= doc.updated /\ doc.updated < clock
        BY <2>2, <3>2 DEF Dated
      <4>2. doc.created \in Nat /\ doc.updated \in Nat
        BY <3>2 DEF Document
      <4> HIDE DEF doc, copy
      <4>. QED
        BY <1>1, <3>5, <4>1, <4>2
    <3> HIDE DEF copy
    <3>7. r \in Fields /\ r.copy = copy
      <4>1. req[q] \in Fields
        BY <1>1
      <4>. QED
        BY <1>1, <3>4, <4>1 DEF Fields
    <3> HIDE DEF r
    <3>. QED
      BY <1>2, <3>3, <3>4, <3>6, <3>7
  <2>. QED
    BY <2>1, <2>2
<1>7. ASSUME NEW q \in Request,
             Refuse(q) \/ Save(q) \/ SaveFails(q) \/ FindFails(q)
               \/ ReplaceOne(q) \/ ReplaceFails(q)
      PROVE  req'[p].copy = req[p].copy
  BY <1>1, <1>3, <1>7
     DEF Refuse, Save, SaveFails, FindFails, ReplaceOne, ReplaceFails, Respond,
         Answer
<1>8. CASE Crash
  <2>1. req[p] \in Fields
    BY <1>1
  <2>. QED
    BY <1>8, <2>1 DEF Crash, Fields
<1>. QED
  BY <1>4, <1>5, <1>6, <1>7, <1>8 DEF Next, Create, Change

LEMMA DatesNext == CatalogInv /\ CatalogInv' /\ Dates /\ [Next]_vars => Dates'
<1> SUFFICES ASSUME CatalogInv, CatalogInv', Dates, [Next]_vars PROVE Dates'
  OBVIOUS
<1>1. CASE UNCHANGED vars
  BY <1>1 DEF vars, Dates, Dated
<1>2. CASE Next
  <2>1. clock' = clock + 1
    BY <1>2 DEF Next, Create, ReceiveCreate, Save, SaveFails, Change,
                ReceiveChange, FindByID, ReplaceOne, FindFails, ReplaceFails,
                Refuse, Crash, Respond, Becomes
  <2>. QED
    BY <1>2, <2>1, FaultsBounded, WritesCopies, CopiesDated, DatesKept
<1>. QED
  BY <1>1, <1>2

\* Every variable has its type, and documents and copies of them are dated.
THEOREM CatalogTypes == Spec => []TypeOK
<1>1. ASSUME CatalogInv, Dates PROVE TypeOK
  <2>1. ASSUME NEW q \in Request
        PROVE  /\ req[q].id \in Id \cup {None}
               /\ req[q].copy \in Document \cup {None}
               /\ req[q].resp \in Answer \cup {None}
    <3>1. req[q] \in Fields
      BY <1>1 DEF CatalogInv, Types
    <3>. QED
      BY <3>1 DEF Fields
  <2>. QED
    BY <1>1, <2>1 DEF CatalogInv, Types, Dates, Dated, TypeOK, Held
<1>. QED
  BY <1>1, CatalogAlways, DatesInit, DatesNext, PTL DEF Spec

-----------------------------------------------------------------------------

\* No two products share a SKU: the index admits a new one, and replacements
\* only ever write back the SKU of the document they read.
THEOREM SkusStayUnique == Spec => []SkuUnique
<1>1. CatalogInv => SkuUnique
  BY DEF CatalogInv
<1>. QED
  BY <1>1, CatalogAlways, PTL

\* What was on record stays on record.
OnRecord ==
  \A i \in Id : products[i] # None =>
    /\ products'[i] # None
    /\ products'[i].sku = products[i].sku
    /\ products'[i].created = products[i].created

LEMMA RecordStays == CatalogInv /\ [Next]_vars => OnRecord
<1> SUFFICES ASSUME CatalogInv, [Next]_vars PROVE OnRecord
  OBVIOUS
<1>1. CASE UNCHANGED products
  BY <1>1 DEF OnRecord
<1>2. ASSUME NEW q \in Request, req[q].pc = "insert", Insert(q) PROVE OnRecord
  <2>1. products[q] = None /\ q \in Id
    BY <1>2 DEF CatalogInv, Sound, Id
  <2>2. \A i \in Id \ {q} : products'[i] = products[i]
    BY <1>2 DEF Insert, CatalogInv, Types
  <2>. QED
    BY <2>1, <2>2 DEF OnRecord
<1>3. ASSUME NEW q \in Request, req[q].pc = "replace", Replace(q) PROVE OnRecord
  BY <1>3, ReplaceOrigin DEF Origin, OnRecord
<1>4. CASE \E q \in Request : Create(q) \/ Change(q) \/ Refuse(q)
  BY <1>1, <1>2, <1>3, <1>4
     DEF Create, ReceiveCreate, Save, SaveFails, Change, ReceiveChange,
         FindByID, ReplaceOne, FindFails, ReplaceFails, Refuse
<1>. QED
  BY <1>1, <1>4 DEF Next, Crash, vars

\* No step removes a product or changes its SKU or the time of its creation.
THEOREM AuditIsKept == Spec => AuditKept
<1>1. CatalogInv /\ [Next]_vars => [OnRecord]_vars
  BY RecordStays
<1>2. OnRecord <=> \A i \in Id : products[i] # None =>
                     /\ products'[i] # None
                     /\ products'[i].sku = products[i].sku
                     /\ products'[i].created = products[i].created
  BY DEF OnRecord
<1>. QED
  BY <1>1, <1>2, CatalogAlways, PTL DEF Spec, AuditKept

-----------------------------------------------------------------------------
(* What an answered change leaves                                          *)

Changes == {"update", "archive"}

Written(p) == req[p].wrote > 0

\* The document shows that p has changed it.
Shows(p, doc) == IF req[p].op = "archive" THEN ~doc.active ELSE doc.details = p

\* Somebody has written after p who may have undone it.
Justified(p) ==
  \E q \in Request :
    /\ Wrote(q, req[p].id)
    /\ req[q].wrote > req[p].wrote
    /\ IF req[p].op = "archive" THEN req[q].op = "update" /\ Overran(q, p)
       ELSE req[q].op = "update" \/ Overran(q, p)

Vouched(p, doc) == Shows(p, doc) \/ Justified(p)

\* A copy about to be written that was read after p wrote shows p's change too.
Behind(p, r) ==
  /\ req[r].read # req[p].wrote
  /\ req[r].id = req[p].id /\ req[r].read > req[p].wrote =>
       \/ Vouched(p, req[r].copy)
       \/ req[p].op = "update" /\ req[r].op = "update"

Endures(p) ==
  /\ products[req[p].id] # None
  /\ Vouched(p, products[req[p].id])
  /\ \A r \in Request : req[r].pc = "replace" => Behind(p, r)

\* What a request has made of its copy, and when.
Fit(q, r, t) ==
  /\ r.wrote > 0 => r.pc = "done" /\ r.op \in Changes /\ r.id \in Id /\ r.wrote < t
  /\ r.pc = "insert" => r.op \notin Changes
  /\ r.pc = "find" => r.op \in Changes
  /\ r.pc = "replace" =>
       /\ r.op \in Changes /\ r.read < t
       /\ r.op = "update" => r.copy.details = q
       /\ r.op = "archive" => ~r.copy.active
  /\ r.resp = "ok" /\ r.op \in Changes => r.wrote > 0

\* The two UnlessOverrun properties are not inductive without what the copies
\* hold that are about to be written.
Lasting ==
  /\ clock > 0
  /\ \A q \in Request : Fit(q, req[q], clock)
  /\ \A p \in Request : Written(p) => Endures(p)

LEMMA LastingInit == Init => Lasting
<1> SUFFICES ASSUME Init PROVE Lasting
  OBVIOUS
<1>1. \A q \in Request : req[q].pc = "idle" /\ req[q].wrote = 0 /\ req[q].op = None
                        /\ req[q].resp = None
  BY DEF Init, Start
<1>2. None # "ok"
  BY NoDocumentAssumption DEF Answer
<1>3. clock > 0
  BY DEF Init
<1>. QED
  BY <1>1, <1>2, <1>3 DEF Lasting, Fit, Written

\* Whoever has written is done, and nothing changes what it did.
Kept(q) == /\ req'[q].op = req[q].op /\ req'[q].id = req[q].id
           /\ req'[q].read = req[q].read /\ req'[q].wrote = req[q].wrote

LEMMA StaysJustified ==
  ASSUME Types, \A q \in Request : Written(q) => Kept(q),
         NEW p \in Request, Written(p)
  PROVE  /\ Kept(p)
         /\ \A doc : Vouched(p, doc) => Vouched(p, doc)'
<1>1. Kept(p)
  OBVIOUS
<1>2. \A q \in Request : Wrote(q, req[p].id) => Kept(q)
  BY DEF Wrote, Written
<1>3. Justified(p) => Justified(p)'
  BY <1>1, <1>2 DEF Justified, Wrote, Overran, Kept
<1>. QED
  BY <1>1, <1>3 DEF Vouched, Shows, Kept

LEMMA StaysBehind ==
  ASSUME Types, \A q \in Request : Written(q) => Kept(q),
         NEW p \in Request, Written(p), NEW r \in Request,
         req'[r] = req[r], Behind(p, r)
  PROVE  Behind(p, r)'
<1>1. /\ Kept(p)
      /\ \A doc : Vouched(p, doc) => Vouched(p, doc)'
  BY StaysJustified
<1>2. Vouched(p, req[r].copy) => Vouched(p, req[r].copy)'
  BY <1>1
<1>. QED
  BY <1>1, <1>2 DEF Behind, Kept

\* A step that replaces no document and takes no copy of one.
LEMMA StaysEnduring ==
  ASSUME Types, NEW p \in Request, Written(p), Endures(p),
         \A q \in Request : Written(q) => Kept(q),
         products[req[p].id] # None => products'[req[p].id] = products[req[p].id],
         \A r \in Request : req'[r].pc = "replace" =>
           (req'[r] = req[r] \/ Behind(p, r)')
  PROVE  Endures(p)'
<1>1. /\ Kept(p)
      /\ \A doc : Vouched(p, doc) => Vouched(p, doc)'
  BY StaysJustified
<1>2. products'[req'[p].id] = products[req[p].id] /\ products[req[p].id] # None
  BY <1>1 DEF Endures, Kept
<1>3. Vouched(p, products[req[p].id])'
  <2>1. Vouched(p, products[req[p].id])
    BY DEF Endures
  <2> DEFINE doc == products[req[p].id]
  <2>2. \A d : Vouched(p, d) => (Shows(p, d)' \/ Justified(p)')
    BY <1>1 DEF Vouched
  <2>3. Shows(p, products[req[p].id])' \/ Justified(p)'
    BY <1>2, <2>1, <2>2 DEF Shows
  <2>. QED
    BY <2>3 DEF Vouched
<1>4. ASSUME NEW r \in Request, req'[r].pc = "replace" PROVE Behind(p, r)'
  BY <1>4, StaysBehind DEF Endures
<1>. QED
  BY <1>2, <1>3, <1>4 DEF Endures

LEMMA FitLater ==
  ASSUME Types, NEW q \in Request, Fit(q, req[q], clock)
  PROVE  Fit(q, req[q], clock + 1)
<1>1. req[q] \in Fields /\ clock \in Nat
  BY DEF Types
<1>2. req[q].wrote \in Nat /\ req[q].read \in Nat
  BY <1>1 DEF Fields
<1>. QED
  BY <1>1, <1>2 DEF Fit

\* One request goes on, and the written ones stay.
LEMMA OthersFit ==
  ASSUME CatalogInv, Lasting, NEW q \in Request, NEW r \in Fields, Becomes(q, r),
         req[q].pc # "done", Fit(q, r, clock + 1)
  PROVE  /\ \A p \in Request : Fit(p, req[p], clock)'
         /\ \A p \in Request : Written(p) => p # q /\ Kept(p)
         /\ req'[q] = r /\ clock' > 0
         /\ \A p \in Request \ {q} : req'[p] = req[p]
<1>1. /\ req'[q] = r /\ clock' = clock + 1 /\ clock \in Nat
      /\ \A p \in Request \ {q} : req'[p] = req[p]
  BY BecomesEffect DEF CatalogInv, Types, Becomes
<1>2. ASSUME NEW p \in Request PROVE Fit(p, req'[p], clock')
  <2>1. CASE p = q
    BY <1>1, <2>1
  <2>2. CASE p # q
    <3>1. Fit(p, req[p], clock + 1)
      BY FitLater DEF CatalogInv, Lasting
    <3>. QED
      BY <1>1, <2>2, <3>1
  <2>. QED
    BY <2>1, <2>2
<1>3. \A p \in Request : Written(p) => p # q
  BY DEF Lasting, Fit, Written
<1>4. \A p \in Request : Fit(p, req[p], clock)'
  BY <1>2 DEF Fit
<1>. QED
  BY <1>1, <1>3, <1>4 DEF Kept

LEMMA StepLasting ==
  ASSUME CatalogInv, Lasting, NEW q \in Request, NEW r \in Fields, Becomes(q, r),
         req[q].pc # "done", r.pc # "replace", r.wrote = 0,
         Fit(q, r, clock + 1),
         \A i \in Id : products[i] # None => products'[i] = products[i]
  PROVE  Lasting'
<1>1. /\ \A p \in Request : Fit(p, req[p], clock)'
      /\ \A p \in Request : Written(p) => p # q /\ Kept(p)
      /\ req'[q] = r /\ clock' > 0
      /\ \A p \in Request \ {q} : req'[p] = req[p]
  BY OthersFit
<1>2. ASSUME NEW p \in Request, Written(p)' PROVE Endures(p)'
  <2>1. p # q /\ Written(p)
    BY <1>1, <1>2 DEF Written
  <2>2. Endures(p) /\ req[p].id \in Id
    BY <2>1 DEF Lasting, Fit, Written
  <2>3. \A s \in Request : req'[s].pc = "replace" => req'[s] = req[s]
    BY <1>1
  <2>. QED
    BY <1>1, <2>1, <2>2, <2>3, StaysEnduring DEF CatalogInv
<1>. QED
  BY <1>1, <1>2 DEF Lasting

LEMMA RespondLasting ==
  ASSUME CatalogInv, Lasting, NEW q \in Request, NEW ans \in Answer, Respond(q, ans),
         req[q].pc # "done", ans = "ok" => req[q].op \notin Changes,
         \A i \in Id : products[i] # None => products'[i] = products[i]
  PROVE  Lasting'
<1> DEFINE r == [req[q] EXCEPT !.pc = "done", !.resp = ans]
<1>1. r \in Fields /\ Becomes(q, r)
  BY DoneFields DEF CatalogInv, Respond
<1>2. req[q] \in Fields
  BY DEF CatalogInv, Types
<1>3. /\ r.pc = "done" /\ r.wrote = req[q].wrote /\ r.op = req[q].op
      /\ r.resp = ans /\ req[q].wrote \in Nat
  BY <1>2 DEF Fields
<1>4. ~(req[q].wrote > 0)
  BY DEF Lasting, Fit
<1> HIDE DEF r
<1>5. r.wrote = 0 /\ Fit(q, r, clock + 1)
  BY <1>3, <1>4 DEF Fit
<1>. QED
  BY <1>1, <1>3, <1>5, StepLasting

\* A copy is taken: what the document shows, the copy shows.
LEMMA FindLasting ==
  ASSUME CatalogInv, Lasting, NEW q \in Request, FindByID(q)
  PROVE  Lasting'
<1> DEFINE doc == products[req[q].id]
<1>1. CASE doc = None
  BY <1>1, RespondLasting DEF FindByID, Answer
<1>2. CASE doc # None
  <2>1. UNCHANGED products /\ req[q].pc = "find"
    BY <1>2 DEF FindByID
  <2>2. /\ req[q].id \in Id /\ req[q] \in Fields /\ clock \in Nat
        /\ req[q].op \in Changes /\ req[q].wrote = 0
        /\ req[q].resp = "ok" => req[q].op \notin Changes
    <3>1. req[q] \in Fields /\ clock \in Nat /\ req[q].id \in Id
      BY <2>1 DEF CatalogInv, Types, Sound
    <3>2. req[q].wrote \in Nat
      BY <3>1 DEF Fields
    <3>. QED
      BY <2>1, <3>1, <3>2 DEF Lasting, Fit
  <2>3. doc \in Document
    BY <1>2, <2>2 DEF CatalogInv, Types
  <2>kind. Changed(q, doc) \in Document
    BY <2>3, ChangedKind DEF CatalogInv
  <2>copy. PICK copy \in Document : copy = Changed(q, doc)
    BY <2>kind
  <2>4. /\ req[q].op = "update" => copy.details = q
        /\ req[q].op = "archive" => ~copy.active /\ copy.details = doc.details
        /\ ~doc.active /\ req[q].op = "update" => ~copy.active
    <3> HIDE DEF doc
    <3>. QED
      BY <2>2, <2>3, <2>copy DEF Changed, Document, Changes
  <2> DEFINE r == [req[q] EXCEPT !.pc = "replace", !.read = clock, !.copy = copy]
  <2>goes. Becomes(q, r)
    BY <1>2, <2>copy DEF FindByID
  <2>5. /\ r \in Fields /\ r.pc = "replace" /\ r.id = req[q].id /\ r.op = req[q].op
        /\ r.read = clock /\ r.wrote = 0 /\ r.copy = copy /\ r.resp = req[q].resp
    BY <2>2, <2>4 DEF Fields
  <2> HIDE DEF r
  <2>6. Fit(q, r, clock + 1)
    BY <2>2, <2>4, <2>5 DEF Fit
  <2>7. /\ \A p \in Request : Fit(p, req[p], clock)'
        /\ \A p \in Request : Written(p) => p # q /\ Kept(p)
        /\ req'[q] = r /\ clock' > 0
        /\ \A p \in Request \ {q} : req'[p] = req[p]
    BY <2>1, <2>5, <2>6, <2>goes, OthersFit
  <2>8. ASSUME NEW p \in Request, Written(p)' PROVE Endures(p)'
    <3>1. p # q /\ Written(p)
      BY <2>5, <2>7, <2>8 DEF Written
    <3>2. Endures(p) /\ req[p].id \in Id /\ req[p].wrote < clock
          /\ req[p].op \in Changes
      BY <3>1 DEF Lasting, Fit, Written
    <3>3. Behind(p, q)'
      <4>1. /\ req'[p] = req[p] /\ req'[q].read # req'[p].wrote
            /\ req[p].wrote \in Nat
        BY <2>2, <2>5, <2>7, <3>1, <3>2 DEF CatalogInv, Types, Fields
      <4>2. ASSUME req[q].id = req[p].id
            PROVE  \/ Vouched(p, copy)
                   \/ req[p].op = "update" /\ req[q].op = "update"
        <5>1. Vouched(p, doc)
          BY <3>2, <4>2 DEF Endures
        <5>2. Shows(p, doc) => \/ Shows(p, copy)
                               \/ req[p].op = "update" /\ req[q].op = "update"
          BY <2>2, <2>4, <3>2 DEF Shows, Changes
        <5>. QED
          BY <5>1, <5>2 DEF Vouched
      <4>3. Vouched(p, copy) => Vouched(p, copy)'
        BY <2>7, <3>1, StaysJustified DEF CatalogInv
      <4>4. Vouched(p, copy)' => Vouched(p, req[q].copy)'
        BY <2>5, <2>7 DEF Vouched, Shows
      <4>. QED
        BY <2>5, <2>7, <4>1, <4>2, <4>3, <4>4 DEF Behind
    <3>. QED
      BY <2>1, <2>7, <3>1, <3>2, <3>3, StaysEnduring DEF CatalogInv
  <2>. QED
    BY <2>7, <2>8 DEF Lasting
<1>. QED
  BY <1>1, <1>2

\* A document is replaced: by somebody who overran p, or by a copy that shows
\* p's change or what has justified undoing it.
LEMMA ReplaceLasting ==
  ASSUME CatalogInv, Lasting, NEW q \in Request, NEW ans \in Answer,
         req[q].pc = "replace", Replace(q),
         Becomes(q, [req[q] EXCEPT !.pc = "done", !.wrote = clock, !.resp = ans])
  PROVE  Lasting'
<1> DEFINE r == [req[q] EXCEPT !.pc = "done", !.wrote = clock, !.resp = ans]
<1> DEFINE id == req[q].id
<1>0. req[q].copy \in Document
  BY DEF CatalogInv, Sound
<1>copy. PICK copy \in Document : copy = req[q].copy
  BY <1>0
<1>1. /\ req[q] \in Fields /\ clock \in Nat /\ clock > 0 /\ id \in Id
      /\ req[q].op \in Changes
      /\ products \in [Id -> Document \cup {None}]
      /\ req[q].op = "update" => copy.details = q
      /\ req[q].op = "archive" => ~copy.active
  BY <1>copy DEF CatalogInv, Types, Sound, Lasting, Fit
<1>2. /\ r \in Fields /\ r.pc = "done" /\ r.id = id /\ r.op = req[q].op
      /\ r.read = req[q].read /\ r.wrote = clock
  <2>1. r \in Fields
    BY <1>1, DoneFields DEF CatalogInv
  <2>. QED
    BY <1>1, <2>1 DEF Fields
<1>3. Becomes(q, r) /\ products' = [products EXCEPT ![id] = copy] /\ copy # None
  BY <1>copy, NoDocumentAssumption DEF Replace
<1>4. req[q].read < clock /\ req[q].read \in Nat
  BY <1>1 DEF Lasting, Fit, Fields
<1> HIDE DEF r
<1>5. Fit(q, r, clock + 1)
  BY <1>1, <1>2 DEF Fit
<1>6. /\ \A p \in Request : Fit(p, req[p], clock)'
      /\ \A p \in Request : Written(p) => p # q /\ Kept(p)
      /\ req'[q] = r /\ clock' > 0
      /\ \A p \in Request \ {q} : req'[p] = req[p]
  BY <1>2, <1>3, <1>5, OthersFit
<1>7. Endures(q)'
  <2>1. products'[id] = copy
    BY <1>1, <1>3
  <2>2. Vouched(q, copy)'
    BY <1>1, <1>2, <1>6 DEF Vouched, Shows, Changes
  <2>3. Vouched(q, products[req[q].id])'
    BY <1>2, <1>6, <2>1, <2>2 DEF Vouched, Shows
  <2>4. ASSUME NEW s \in Request, req'[s].pc = "replace" PROVE Behind(q, s)'
    <3>1. s # q /\ req'[s] = req[s]
      BY <1>2, <1>6, <2>4
    <3>2. req[s].read < clock /\ req[s].read \in Nat
      BY <2>4, <3>1 DEF Lasting, Fit, CatalogInv, Types, Fields
    <3>. QED
      BY <1>1, <1>2, <1>6, <3>1, <3>2 DEF Behind
  <2>. QED
    BY <1>2, <1>3, <1>6, <2>1, <2>3, <2>4 DEF Endures
<1>8. ASSUME NEW p \in Request, p # q, Written(p)' PROVE Endures(p)'
  <2>1. Written(p) /\ req'[p] = req[p]
    BY <1>6, <1>8 DEF Written
  <2>2. /\ Endures(p) /\ req[p].id \in Id /\ req[p].wrote < clock
        /\ req[p].op \in Changes /\ req[p].wrote \in Nat
    BY <2>1 DEF Lasting, Fit, Written, CatalogInv, Types, Fields
  <2>3. \A s \in Request : req'[s].pc = "replace" => req'[s] = req[s]
    BY <1>2, <1>6
  <2>4. CASE req[p].id # id
    BY <1>3, <1>6, <2>1, <2>2, <2>3, <2>4, <1>1, StaysEnduring DEF CatalogInv
  <2>5. CASE req[p].id = id
    <3>1. products'[req'[p].id] = copy
      BY <1>1, <1>3, <2>1, <2>5
    <3>2. Wrote(q, req[p].id)' /\ req'[q].wrote > req'[p].wrote
      BY <1>1, <1>2, <1>6, <2>1, <2>2, <2>5 DEF Wrote
    <3>3. Behind(p, q)
      BY <2>2 DEF Endures
    <3>4. Vouched(p, copy)'
      <4>1. CASE req[q].read < req[p].wrote
        <5>1. Overran(q, p)'
          BY <1>2, <1>6, <2>1, <3>2, <4>1 DEF Overran
        <5>2. CASE req[q].op = "update"
          BY <1>2, <1>6, <2>1, <3>2, <5>1, <5>2 DEF Vouched, Justified
        <5>3. CASE req[q].op = "archive" /\ req[p].op = "archive"
          BY <1>1, <2>1, <5>3 DEF Vouched, Shows
        <5>4. CASE req[p].op # "archive"
          BY <1>2, <1>6, <2>1, <3>2, <5>1, <5>4 DEF Vouched, Justified
        <5>. QED
          BY <1>1, <5>2, <5>3, <5>4 DEF Changes
      <4>2. CASE req[q].read > req[p].wrote
        <5>1. CASE Vouched(p, copy)
          BY <1>6, <2>1, <5>1, StaysJustified DEF CatalogInv
        <5>2. CASE req[p].op = "update" /\ req[q].op = "update"
          BY <1>2, <1>6, <2>1, <3>2, <5>2 DEF Vouched, Justified
        <5>. QED
          BY <1>copy, <2>5, <3>3, <4>2, <5>1, <5>2 DEF Behind
      <4>. QED
        BY <1>4, <2>2, <3>3, <4>1, <4>2 DEF Behind
    <3>5. Vouched(p, products[req[p].id])'
      BY <3>1, <3>4 DEF Vouched, Shows
    <3>6. ASSUME NEW s \in Request, req'[s].pc = "replace" PROVE Behind(p, s)'
      BY <1>6, <2>1, <2>2, <2>3, <3>6, StaysBehind DEF Endures, CatalogInv
    <3>. QED
      BY <1>3, <3>1, <3>5, <3>6 DEF Endures
  <2>. QED
    BY <2>4, <2>5
<1>. QED
  BY <1>6, <1>7, <1>8 DEF Lasting

LEMMA CrashLasting == ASSUME CatalogInv, Lasting, Crash PROVE Lasting'
<1> DEFINE r(q) == IF req[q].pc = "idle" THEN req[q]
                   ELSE [req[q] EXCEPT !.pc = "done"]
<1>1. /\ UNCHANGED products /\ clock' = clock + 1 /\ clock \in Nat
      /\ req' = [q \in Request |-> r(q)]
  BY DEF Crash, CatalogInv, Types
<1>2. ASSUME NEW q \in Request
      PROVE  /\ r(q).op = req[q].op /\ r(q).id = req[q].id
             /\ r(q).read = req[q].read /\ r(q).wrote = req[q].wrote
             /\ r(q).resp = req[q].resp
             /\ r(q).pc \in {"idle", "done"} /\ (req[q].pc = "done" => r(q).pc = "done")
  <2>1. req[q] \in Fields
    BY DEF CatalogInv, Types
  <2>. QED
    BY <2>1 DEF Fields
<1> HIDE DEF r
<1>3. \A q \in Request : Kept(q) /\ req'[q].pc # "replace"
  BY <1>1, <1>2 DEF Kept
<1>4. ASSUME NEW q \in Request PROVE Fit(q, req[q], clock)'
  <2>1. Fit(q, req[q], clock + 1)
    BY FitLater DEF CatalogInv, Lasting
  <2>2. Fit(q, r(q), clock + 1)
    BY <1>2, <2>1 DEF Fit
  <2>. QED
    BY <1>1, <2>2 DEF Fit
<1>5. ASSUME NEW p \in Request, Written(p)' PROVE Endures(p)'
  <2>1. Written(p)
    BY <1>3, <1>5 DEF Written, Kept
  <2>2. Endures(p)
    BY <2>1 DEF Lasting
  <2>. QED
    BY <1>1, <1>3, <2>1, <2>2, StaysEnduring DEF CatalogInv
<1>. QED
  BY <1>1, <1>4, <1>5 DEF Lasting

LEMMA CreateLasting ==
  ASSUME CatalogInv, Lasting, NEW q \in Request, Create(q)
  PROVE  Lasting'
<1>1. CASE ReceiveCreate(q)
  <2>1. PICK sku \in Sku :
          Becomes(q, [Start EXCEPT !.pc = "insert", !.op = "create", !.id = q,
                                   !.copy = NewProduct(q, sku)])
    BY <1>1 DEF ReceiveCreate
  <2> DEFINE doc == NewProduct(q, sku)
  <2>2. doc \in Document
    BY DEF NewProduct, Document, Id, CatalogInv, Types
  <2> HIDE DEF doc
  <2> DEFINE r == [Start EXCEPT !.pc = "insert", !.op = "create", !.id = q,
                                !.copy = doc]
  <2>3. r \in Fields /\ r.pc = "insert" /\ r.op = "create" /\ r.wrote = 0
    BY <2>2 DEF Start, Fields, Id
  <2>4. Becomes(q, r)
    BY <2>1 DEF doc
  <2> HIDE DEF r
  <2>5. Fit(q, r, clock + 1)
    BY <2>3 DEF Fit, Changes
  <2>. QED
    BY <1>1, <2>3, <2>4, <2>5, StepLasting DEF ReceiveCreate
<1>2. CASE Save(q) \/ SaveFails(q)
  <2>1. PICK ans \in {"ok", "conflict", "error"} :
          /\ Respond(q, ans)
          /\ ans \in {"ok", "conflict"} => Save(q)
    BY <1>2 DEF Save, SaveFails
  <2>2. req[q].pc = "insert" /\ products[q] = None /\ q \in Id
    BY <1>2 DEF Save, SaveFails, CatalogInv, Sound, Id
  <2>3. \A i \in Id : products[i] # None => products'[i] = products[i]
    BY <1>2, <2>2 DEF Save, SaveFails, Insert, CatalogInv, Types
  <2>4. req[q].op \notin Changes
    BY <2>2 DEF Lasting, Fit
  <2>. QED
    BY <2>1, <2>2, <2>3, <2>4, RespondLasting DEF Answer
<1>. QED
  BY <1>1, <1>2 DEF Create

LEMMA ChangeLasting ==
  ASSUME CatalogInv, Lasting, NEW q \in Request, Change(q)
  PROVE  Lasting'
<1>1. CASE ReceiveChange(q)
  <2>1. PICK id \in Id \ {q}, op \in {"update", "archive"} :
          Becomes(q, [Start EXCEPT !.pc = "find", !.op = op, !.id = id])
    BY <1>1 DEF ReceiveChange
  <2> DEFINE r == [Start EXCEPT !.pc = "find", !.op = op, !.id = id]
  <2>2. /\ r \in Fields /\ r.pc = "find" /\ r.op \in Changes /\ r.wrote = 0
        /\ r.resp = None
    BY DEF Start, Fields, Changes
  <2>3. Becomes(q, r)
    BY <2>1
  <2> HIDE DEF r
  <2>4. Fit(q, r, clock + 1)
    BY <2>2, NoDocumentAssumption DEF Fit, Answer
  <2>. QED
    BY <1>1, <2>2, <2>3, <2>4, StepLasting DEF ReceiveChange
<1>2. CASE FindByID(q)
  BY <1>2, FindLasting
<1>3. CASE ReplaceOne(q)
  BY <1>3, ReplaceLasting DEF ReplaceOne, Answer
<1>4. CASE FindFails(q)
  BY <1>4, RespondLasting DEF FindFails, Answer
<1>5. CASE ReplaceFails(q)
  BY <1>5, ReplaceLasting, RespondLasting DEF ReplaceFails, Answer
<1>. QED
  BY <1>1, <1>2, <1>3, <1>4, <1>5 DEF Change

LEMMA LastingNext == CatalogInv /\ Lasting /\ [Next]_vars => Lasting'
<1> SUFFICES ASSUME CatalogInv, Lasting, [Next]_vars PROVE Lasting'
  OBVIOUS
<1>1. CASE \E q \in Request : Refuse(q)
  BY <1>1, RespondLasting DEF Refuse, Answer
<1>2. CASE UNCHANGED vars
  BY <1>2 DEF vars, Lasting, Fit, Written, Endures, Vouched, Shows, Justified,
     Behind, Wrote, Overran
<1>. QED
  BY <1>1, <1>2, CreateLasting, ChangeLasting, CrashLasting DEF Next

LEMMA LastingAlways == Spec => [](CatalogInv /\ Lasting)
  BY CatalogAlways, LastingInit, LastingNext, PTL DEF Spec

\* What an answered change has left, from the invariant.
LEMMA AnsweredShows ==
  ASSUME Lasting, NEW p \in Request, req[p].op \in Changes, req[p].resp = "ok"
  PROVE  Vouched(p, products[req[p].id])
  BY DEF Lasting, Fit, Written, Endures

\* An archived product comes back only by an update that overran the archive,
\* for any number of requests and products.
THEOREM ArchivesLast == Spec => []ArchivedUnlessOverrun
<1>1. Lasting => ArchivedUnlessOverrun
  BY AnsweredShows DEF Vouched, Shows, Justified, ArchivedUnlessOverrun, Changes
<1>. QED
  BY <1>1, LastingAlways, PTL

\* The details of an update are lost only to a later update, or to a change that
\* overran it.
THEOREM UpdatesLast == Spec => []UpdatedUnlessOverrun
<1>1. Lasting => UpdatedUnlessOverrun
  BY AnsweredShows DEF Vouched, Shows, Justified, UpdatedUnlessOverrun, Changes
<1>. QED
  BY <1>1, LastingAlways, PTL

-----------------------------------------------------------------------------
(* Paging through a changing collection                                    *)

\* The parts of the two properties, for any record w of what a client got.
Seen(w)      == w.got \cup w.stayed \cup w.left \cup w.came
Matched(w)   == Matching(products, w.filter)
InFront(w, i) == {j \in Matched(w) : Ahead(j, i)}
TieIn(w, i)  == \E j \in Seen(w) : Tied(j, i)
Passed(w, i) == \E j \in w.left : Ahead(j, i)
Pushed(w, i) == \E j \in w.came : Ahead(j, i)

WalkFields ==
  [pc : {"idle", "paging", "done", "searched"}, filter : SUBSET Id, limit : Nat,
   offset : Nat, got : SUBSET Id, twice : SUBSET Id, stayed : SUBSET Id,
   left : SUBSET Id, came : SUBSET Id]

WalkType(w) ==
  /\ w \in WalkFields
  /\ \A i \in Seen(w) : products[i] # None
  /\ w.twice \subseteq w.got

\* Between two pages the offset separates what the client has got from what it
\* has yet to get: with no cause to the contrary, at least as many products as
\* the offset says are in front of every one to come, and fewer in front of
\* every one received.
Separates(w) ==
  /\ w.stayed \subseteq Matched(w) /\ Matched(w) \subseteq w.stayed \cup w.came
  /\ \A i \in w.stayed \ w.got :
       Passed(w, i) \/ TieIn(w, i) \/ Cardinality(InFront(w, i)) >= w.offset
  /\ \A i \in w.got :
       Pushed(w, i) \/ TieIn(w, i) \/ Cardinality(InFront(w, i)) < w.offset

Complete(w) ==
  \A i \in w.stayed \ w.got : Passed(w, i) \/ TieIn(w, i) \/ w.limit > MaxLimit
Single(w) == \A i \in w.twice : Pushed(w, i) \/ TieIn(w, i)

WalkInv(w) ==
  /\ WalkType(w)
  /\ w.pc = "paging" => Separates(w)
  /\ w.pc = "done" => Complete(w)
  /\ Single(w)

LEMMA IdFinite == IsFiniteSet(Id)
  BY CatalogAssumption, FS_Union DEF Id

LEMMA FrontFinite ==
  ASSUME NEW w, NEW i
  PROVE  IsFiniteSet(InFront(w, i)) /\ Cardinality(InFront(w, i)) \in Nat
<1>1. InFront(w, i) \in SUBSET Id
  BY DEF InFront, Matched, Matching
<1>. QED
  BY <1>1, IdFinite, FS_Subset, FS_CardinalityType

\* In a sorted sequence the products in front of an untied one are those at
\* smaller positions.
LEMMA Position ==
  ASSUME Types, NEW w, NEW s \in SetToSeqs(Matched(w)),
         \A a, b \in DOMAIN s :
           a < b => products[s[a]].created >= products[s[b]].created
  PROVE  LET n == Cardinality(Matched(w))
         IN /\ n \in Nat /\ s \in [1..n -> Matched(w)]
            /\ Matched(w) = {s[k] : k \in 1..n}
            /\ \A k \in 1..n : (\A j \in Matched(w) : ~Tied(j, s[k])) =>
                 Cardinality(InFront(w, s[k])) = k - 1
<1> DEFINE M == Matched(w)
           n == Cardinality(M)
<1>1. M \in SUBSET Id /\ \A i \in M : products[i] # None
  BY DEF Matched, Matching
<1>2. IsFiniteSet(M) /\ n \in Nat
  BY <1>1, IdFinite, FS_Subset, FS_CardinalityType
<1>3. s \in [1..n -> M] /\ \A a, b \in 1..n : a # b => s[a] # s[b]
  BY DEF SetToSeqs
<1>4. \A i \in M : products[i].created \in Nat
  BY <1>1 DEF Types, Document
<1> HIDE DEF M, n
<1>5. M = {s[k] : k \in 1..n}
  <2>1. s \in Injection(1..n, M)
    BY <1>3 DEF Injection, IsInjective
  <2>2. Cardinality(1..n) = Cardinality(M)
    BY <1>2, FS_Interval DEF n
  <2>3. s \in Surjection(1..n, M)
    BY <1>2, <2>1, <2>2, FS_Injection
  <2>. QED
    BY <1>3, <2>3 DEF Surjection
<1>6. ASSUME NEW k \in 1..n, \A j \in M : ~Tied(j, s[k])
      PROVE  Cardinality(InFront(w, s[k])) = k - 1
  <2> DEFINE F == InFront(w, s[k])
             g == [m \in 1..(k - 1) |-> s[m]]
  <2>1. F = {j \in M : j # s[k] /\ products[j].created > products[s[k]].created}
    BY DEF InFront, Ahead, M
  <2>2. \A m \in 1..n : s[m] \in M /\ products[s[m]].created \in Nat
    BY <1>3, <1>4
  <2>3. ASSUME NEW m \in 1..(k - 1) PROVE s[m] \in F
    <3>1. m \in 1..n /\ m < k
      BY <1>2
    <3>2. products[s[m]].created >= products[s[k]].created /\ s[m] # s[k]
      BY <1>3, <3>1
    <3>3. products[s[m]].created # products[s[k]].created
      BY <1>6, <2>2, <3>1, <3>2 DEF Tied
    <3>. QED
      BY <2>1, <2>2, <3>1, <3>2, <3>3
  <2>4. ASSUME NEW j \in F PROVE \E m \in 1..(k - 1) : j = s[m]
    <3>1. PICK m \in 1..n : j = s[m]
      BY <1>5, <2>1
    <3>2. m # k
      BY <2>1, <3>1
    <3>3. ~(k < m)
      <4>1. ASSUME k < m PROVE products[s[k]].created >= products[s[m]].created
        BY <1>3, <4>1
      <4>. QED
        BY <2>1, <2>2, <3>1, <4>1
    <3>. QED
      BY <1>2, <3>1, <3>2, <3>3
  <2>5. g \in [1..(k - 1) -> F] /\ \A m \in 1..(k - 1) : g[m] = s[m]
    BY <2>3
  <2>6. \A a, b \in 1..(k - 1) : g[a] = g[b] => a = b
    <3>1. \A a \in 1..(k - 1) : a \in 1..n
      BY <1>2
    <3>. QED
      BY <1>3, <2>5, <3>1
  <2> HIDE DEF F, g
  <2>7. g \in Bijection(1..(k - 1), F)
    BY <2>4, <2>5, <2>6 DEF Bijection, Injection, IsInjective, Surjection
  <2>8. ExistsBijection(1..(k - 1), F)
    BY <2>7 DEF ExistsBijection
  <2>9. IsFiniteSet(1..(k - 1)) /\ Cardinality(1..(k - 1)) = k - 1
    BY <1>2, FS_Interval
  <2>10. Cardinality(F) = k - 1
    BY <2>8, <2>9, FS_Bijection
  <2>. QED
    BY <2>10 DEF F
<1>. QED
  BY <1>2, <1>3, <1>5, <1>6 DEF M, n

\* What the client has after a page.
Paged(w, page) ==
  [w EXCEPT
    !.pc = IF page = << >> \/ Len(page) < w.limit THEN "done" ELSE "paging",
    !.offset = w.offset + Len(page),
    !.got = w.got \cup Range(page),
    !.twice = w.twice \cup (w.got \cap Range(page))]

\* A page moves the offset past the products it holds.
LEMMA PageSeparates ==
  ASSUME Types, NEW w, WalkType(w), Separates(w), Single(w),
         NEW page \in ListByCategory(w.filter, w.limit, w.offset)
  PROVE  WalkInv(Paged(w, page))
<1> DEFINE limit == Clamp(w.limit)
           M == Matched(w)
           n == Cardinality(M)
           e == IF w.offset + limit < n THEN w.offset + limit ELSE n
           r == Paged(w, page)
<1>1. /\ w.limit \in Nat /\ w.offset \in Nat /\ limit \in 1..MaxLimit
      /\ limit = w.limit \/ w.limit = 0 \/ w.limit > MaxLimit
      /\ MaxLimit \in Nat
  BY ListingAssumption DEF WalkType, WalkFields, Clamp
<1>2. PICK s \in SetToSeqs(M) :
        /\ page = Page(s, limit, w.offset)
        /\ \A a, b \in DOMAIN s :
             a < b => products[s[a]].created >= products[s[b]].created
  BY <1>1 DEF ListByCategory, FindByCategory, Matched
<1>3. /\ n \in Nat /\ s \in [1..n -> M] /\ M = {s[k] : k \in 1..n}
      /\ \A k \in 1..n : (\A j \in M : ~Tied(j, s[k])) =>
           Cardinality(InFront(w, s[k])) = k - 1
  BY <1>2, Position
<1>4. /\ Len(page) = IF w.offset < e THEN e - w.offset ELSE 0
      /\ \A i : i \in Range(page) <=> \E k \in (w.offset + 1)..e : i = s[k]
      /\ page = << >> => Len(page) = 0
  <2> DEFINE o == w.offset
  <2>0. o \in Nat
    BY <1>1
  <2>1. e \in Nat /\ e <= n /\ Len(s) = n
    BY <1>1, <1>3
  <2>2. page = SubSeq(s, o + 1, e)
    BY <1>1, <1>2, <2>1 DEF Page
  <2> HIDE DEF limit, M, n, e, o
  <2>3. \A k \in (o + 1)..e : s[k] \in M
    BY <1>3, <2>0, <2>1
  <2>4. /\ page \in Seq(M)
        /\ Len(page) = IF o + 1 <= e THEN e - (o + 1) + 1 ELSE 0
        /\ \A k \in 1..(e - (o + 1) + 1) : page[k] = s[o + 1 + k - 1]
    BY <2>0, <2>1, <2>2, <2>3, SubSeqProperties
  <2>5. Len(page) = IF o < e THEN e - o ELSE 0
    BY <2>0, <2>1, <2>4
  <2>6. DOMAIN page = 1..Len(page) /\ (page = << >> => Len(page) = 0)
    BY <2>4
  <2>7. ASSUME NEW k \in 1..Len(page)
        PROVE  k + o \in (o + 1)..e /\ page[k] = s[k + o]
    <3>1. k \in 1..(e - (o + 1) + 1) /\ k + o \in (o + 1)..e
          /\ o + 1 + k - 1 = k + o
      BY <2>0, <2>1, <2>5
    <3>. QED
      BY <2>4, <3>1
  <2>8. ASSUME NEW k \in (o + 1)..e
        PROVE  k - o \in 1..Len(page) /\ page[k - o] = s[k]
    <3>1. k - o \in 1..(e - (o + 1) + 1) /\ k - o \in 1..Len(page)
          /\ o + 1 + (k - o) - 1 = k
      BY <2>0, <2>1, <2>5
    <3>. QED
      BY <2>4, <3>1
  <2>9. ASSUME NEW i
        PROVE  i \in Range(page) <=> \E k \in (o + 1)..e : i = s[k]
    <3>1. ASSUME i \in Range(page) PROVE \E k \in (o + 1)..e : i = s[k]
      <4>1. PICK k \in 1..Len(page) : i = page[k]
        BY <2>6, <3>1 DEF Range
      <4>2. k + o \in (o + 1)..e /\ i = s[k + o]
        BY <2>7, <4>1
      <4>. QED
        BY <4>2
    <3>2. ASSUME NEW k \in (o + 1)..e, i = s[k] PROVE i \in Range(page)
      BY <2>6, <2>8, <3>2 DEF Range
    <3>. QED
      BY <3>1, <3>2
  <2>. QED
    BY <2>5, <2>6, <2>9 DEF o
<1>5. /\ r.pc = IF page = << >> \/ Len(page) < w.limit THEN "done" ELSE "paging"
      /\ r.offset = w.offset + Len(page)
      /\ r.got = w.got \cup Range(page)
      /\ r.twice = w.twice \cup (w.got \cap Range(page))
      /\ r.filter = w.filter /\ r.limit = w.limit
      /\ r.stayed = w.stayed /\ r.left = w.left /\ r.came = w.came
  BY DEF WalkType, Paged
<1>6. M \in SUBSET Id /\ \A i \in M : products[i] # None
  BY DEF Matched, Matching
<1>7. Range(page) \subseteq M
  BY <1>1, <1>3, <1>4
<1>8. e \in Nat /\ e <= n /\ Len(page) \in Nat /\ (w.offset < e => r.offset = e)
  BY <1>1, <1>3, <1>4, <1>5
<1>9. WalkType(r)
  <2>1. r \in WalkFields
    <3>1. /\ w.offset + Len(page) \in Nat /\ w.got \cup Range(page) \in SUBSET Id
          /\ w.twice \cup (w.got \cap Range(page)) \in SUBSET Id
      BY <1>1, <1>6, <1>7, <1>8 DEF WalkType, WalkFields
    <3> DEFINE o == w.offset + Len(page)
               g == w.got \cup Range(page)
               t == w.twice \cup (w.got \cap Range(page))
               pc == IF page = << >> \/ Len(page) < w.limit THEN "done" ELSE "paging"
    <3>2. r = [w EXCEPT !.pc = pc, !.offset = o, !.got = g, !.twice = t]
      BY DEF Paged
    <3>3. pc \in {"paging", "done"}
      OBVIOUS
    <3> HIDE DEF o, g, t, pc, r
    <3>. QED
      BY <3>1, <3>2, <3>3 DEF WalkType, o, g, t, WalkFields
  <2>. QED
    BY <1>5, <1>6, <1>7, <2>1 DEF WalkType, Seen
<1> HIDE DEF limit, M, n, e, r
<1>10. /\ Matched(r) = M /\ Seen(w) \subseteq Seen(r)
       /\ \A i : InFront(r, i) = InFront(w, i)
       /\ \A i : TieIn(w, i) => TieIn(r, i)
       /\ \A i : (Passed(r, i) <=> Passed(w, i)) /\ (Pushed(r, i) <=> Pushed(w, i))
  BY <1>5 DEF M, Matched, Seen, InFront, TieIn, Passed, Pushed
<1>11. ASSUME NEW k \in 1..n, ~TieIn(r, s[k])
       PROVE  Cardinality(InFront(r, s[k])) = k - 1
  <2>1. M \subseteq Seen(r)
    BY <1>5 DEF Separates, Seen, M
  <2>. QED
    BY <1>3, <1>10, <1>11, <2>1 DEF TieIn
<1>12. ASSUME NEW i \in r.stayed \ r.got, ~Passed(r, i), ~TieIn(r, i)
       PROVE  /\ r.offset = w.offset + limit /\ Len(page) = limit
              /\ Cardinality(InFront(r, i)) >= r.offset
  <2>1. i \in w.stayed \ w.got /\ ~Passed(w, i) /\ ~TieIn(w, i)
    BY <1>5, <1>10, <1>12
  <2>2. i \in M /\ Cardinality(InFront(w, i)) >= w.offset
    BY <2>1 DEF Separates, M
  <2>3. PICK k \in 1..n : i = s[k]
    BY <1>3, <2>2
  <2>4. Cardinality(InFront(r, i)) = k - 1 /\ k - 1 >= w.offset
    BY <1>10, <1>11, <1>12, <2>2, <2>3
  <2>5. ~(k \in (w.offset + 1)..e)
    BY <1>4, <1>5, <1>12, <2>3
  <2>6. k > e
    BY <1>1, <1>3, <1>8, <2>4, <2>5
  <2>7. e = w.offset + limit
    BY <1>1, <1>3, <2>6 DEF e
  <2>8. w.offset < e
    BY <1>1, <2>7
  <2>9. Len(page) = limit /\ r.offset = e
    BY <1>1, <1>4, <1>8, <2>7, <2>8
  <2>. QED
    BY <1>3, <1>8, <2>4, <2>6, <2>7, <2>9
<1>13. r.pc = "paging" => Separates(r)
  <2>1. ASSUME NEW i \in r.got, ~Pushed(r, i), ~TieIn(r, i)
        PROVE  Cardinality(InFront(r, i)) < r.offset
    <3>1. CASE i \in w.got
      <4>1. Cardinality(InFront(r, i)) < w.offset /\ Cardinality(InFront(r, i)) \in Nat
        BY <1>10, <2>1, <3>1, FrontFinite DEF Separates
      <4>. QED
        BY <1>1, <1>5, <1>8, <4>1
    <3>2. CASE i \in Range(page)
      <4>1. PICK k \in (w.offset + 1)..e : i = s[k]
        BY <1>4, <3>2
      <4>2. k \in 1..n
        BY <1>1, <1>3, <1>8, <4>1
      <4>3. Cardinality(InFront(r, i)) = k - 1
        BY <1>11, <2>1, <4>1, <4>2
      <4>. QED
        BY <1>1, <1>8, <4>1, <4>3
    <3>. QED
      BY <1>5, <2>1, <3>1, <3>2
  <2>2. r.stayed \subseteq Matched(r) /\ Matched(r) \subseteq r.stayed \cup r.came
    BY <1>5, <1>10 DEF Separates, M
  <2>. QED
    BY <1>12, <2>1, <2>2 DEF Separates
<1>14. r.pc = "done" => Complete(r)
  <2> SUFFICES ASSUME r.pc = "done", NEW i \in r.stayed \ r.got,
                      ~Passed(r, i), ~TieIn(r, i)
               PROVE  r.limit > MaxLimit
    BY DEF Complete
  <2>1. Len(page) = limit
    BY <1>12
  <2>2. Len(page) < w.limit
    BY <1>1, <1>4, <1>5, <2>1
  <2>. QED
    BY <1>1, <1>5, <2>1, <2>2
<1>15. Single(r)
  <2> SUFFICES ASSUME NEW i \in w.got \cap Range(page), ~Pushed(r, i), ~TieIn(r, i)
               PROVE  FALSE
    BY <1>5, <1>10 DEF Single
  <2>1. Cardinality(InFront(r, i)) < w.offset
    BY <1>10 DEF Separates
  <2>2. PICK k \in (w.offset + 1)..e : i = s[k]
    BY <1>4
  <2>3. k \in 1..n
    BY <1>1, <1>3, <1>8, <2>2
  <2>4. Cardinality(InFront(r, i)) = k - 1
    BY <1>11, <2>2, <2>3
  <2>. QED
    BY <1>1, <1>8, <2>1, <2>2, <2>4
<1>. QED
  BY <1>9, <1>13, <1>14, <1>15 DEF WalkInv, r

\* The same products are in front of each other whatever is written.
LEMMA OrderStays ==
  ASSUME OnRecord, NEW i \in Id, NEW j \in Id, products[i] # None, products[j] # None
  PROVE  /\ Ahead(j, i)' <=> Ahead(j, i)
         /\ Tied(j, i)' <=> Tied(j, i)
         /\ products'[i] # None
  BY DEF OnRecord, Ahead, Tied

\* Writers between two pages move products only by what the client's history
\* tells.
LEMMA CommandKeeps ==
  ASSUME WalkInv(walk), OnRecord, Command
  PROVE  WalkInv(walk)'
<1> DEFINE was == Matching(products, walk.filter)
           is  == Matching(products', walk.filter)
<1>1. /\ was \in SUBSET Id /\ \A i \in was : products[i] # None
      /\ is \in SUBSET Id /\ \A i \in is : products'[i] # None
  BY DEF Matching
<1>2. \A i \in Seen(walk) : i \in Id /\ products[i] # None
  BY DEF WalkInv, WalkType, WalkFields, Seen
<1>3. \A i, j \in Seen(walk) \cup was :
        /\ Ahead(j, i)' <=> Ahead(j, i)
        /\ Tied(j, i)' <=> Tied(j, i)
        /\ products'[i] # None
  BY <1>1, <1>2, OrderStays
<1>4. walk.twice \subseteq walk.got /\ WalkType(walk)
  BY DEF WalkInv, WalkType
<1>5. CASE walk.pc # "paging"
  <2>1. walk' = walk
    BY <1>5 DEF Command
  <2>2. WalkType(walk)'
    BY <1>3, <1>4, <2>1 DEF WalkType, Seen
  <2>3. \A i \in Seen(walk) : /\ TieIn(walk, i)' <=> TieIn(walk, i)
                              /\ Passed(walk, i)' <=> Passed(walk, i)
                              /\ Pushed(walk, i)' <=> Pushed(walk, i)
    BY <1>3, <2>1 DEF TieIn, Passed, Pushed, Seen
  <2>4. walk.pc = "done" => Complete(walk)'
    BY <2>1, <2>3 DEF WalkInv, Complete, Seen
  <2>5. Single(walk)'
    BY <1>4, <2>1, <2>3 DEF WalkInv, Single, Seen
  <2>. QED
    BY <1>5, <2>1, <2>2, <2>4, <2>5 DEF WalkInv
<1>6. CASE walk.pc = "paging"
  <2>1. walk' = [walk EXCEPT !.stayed = @ \cap is,
                             !.left = @ \cup (was \ is),
                             !.came = @ \cup (is \ was)]
    BY <1>6 DEF Command
  <2> HIDE DEF was, is
  <2>2. /\ walk'.pc = "paging" /\ walk'.filter = walk.filter
        /\ walk'.limit = walk.limit /\ walk'.offset = walk.offset
        /\ walk'.got = walk.got /\ walk'.twice = walk.twice
        /\ walk'.stayed = walk.stayed \cap is
        /\ walk'.left = walk.left \cup (was \ is)
        /\ walk'.came = walk.came \cup (is \ was)
    BY <1>4, <1>6, <2>1 DEF WalkType, WalkFields
  <2>3. /\ walk.stayed \subseteq was /\ was \subseteq walk.stayed \cup walk.came
        /\ Matched(walk) = was
    BY <1>6 DEF WalkInv, Separates, Matched, was
  <2>4. Matched(walk)' = is
    BY <2>2 DEF Matched, is
  <2>5. Seen(walk) \subseteq Seen(walk)' /\ Seen(walk)' \subseteq Seen(walk) \cup was \cup is
    BY <2>2, <2>3 DEF Seen
  <2>6. WalkType(walk)'
    <3>1. walk' \in WalkFields
      BY <1>1, <1>4, <2>1 DEF WalkType, WalkFields
    <3>2. \A i \in Seen(walk)' : products'[i] # None
      BY <1>1, <1>3, <2>5
    <3>. QED
      BY <1>4, <2>2, <3>1, <3>2 DEF WalkType, WalkFields
  <2>7. \A i \in Seen(walk) : /\ TieIn(walk, i) => TieIn(walk, i)'
                              /\ Passed(walk, i) => Passed(walk, i)'
                              /\ Pushed(walk, i) => Pushed(walk, i)'
    BY <1>3, <2>2, <2>5 DEF TieIn, Passed, Pushed, Seen
  <2>8. \A i : IsFiniteSet(InFront(walk, i)) /\ IsFiniteSet(InFront(walk, i)')
    <3>1. \A i : /\ InFront(walk, i) \in SUBSET Id
                 /\ InFront(walk, i)' \in SUBSET Id
      BY <1>1, <2>3, <2>4 DEF InFront
    <3>. QED
      BY <3>1, IdFinite, FS_Subset
  <2>9. ASSUME NEW i \in walk'.stayed \ walk'.got, ~Passed(walk, i)', ~TieIn(walk, i)'
        PROVE  Cardinality(InFront(walk, i))' >= walk'.offset
    <3>1. i \in walk.stayed \ walk.got /\ i \in Seen(walk)
      BY <2>2, <2>9 DEF Seen
    <3>2. Cardinality(InFront(walk, i)) >= walk.offset
      BY <1>6, <2>7, <2>9, <3>1 DEF WalkInv, Separates
    <3>3. InFront(walk, i) \subseteq InFront(walk, i)'
      <4> SUFFICES ASSUME NEW j \in was, Ahead(j, i) PROVE j \in is /\ Ahead(j, i)'
        BY <2>3, <2>4 DEF InFront
      <4>1. Ahead(j, i)'
        BY <1>3, <3>1
      <4>2. j \in is
        BY <2>2, <2>9, <4>1 DEF Passed
      <4>. QED
        BY <4>1, <4>2
    <3>4. Cardinality(InFront(walk, i)) <= Cardinality(InFront(walk, i)')
      BY <2>8, <3>3, FS_Subset
    <3>5. /\ Cardinality(InFront(walk, i)) \in Nat
          /\ Cardinality(InFront(walk, i)') \in Nat /\ walk.offset \in Nat
      BY <1>4, <2>8, FS_CardinalityType DEF WalkType, WalkFields
    <3>. QED
      BY <2>2, <3>2, <3>4, <3>5
  <2>10. ASSUME NEW i \in walk'.got, ~Pushed(walk, i)', ~TieIn(walk, i)'
         PROVE  Cardinality(InFront(walk, i))' < walk'.offset
    <3>1. i \in walk.got /\ i \in Seen(walk)
      BY <2>2, <2>10 DEF Seen
    <3>2. Cardinality(InFront(walk, i)) < walk.offset
      BY <1>6, <2>7, <2>10, <3>1 DEF WalkInv, Separates
    <3>3. InFront(walk, i)' \subseteq InFront(walk, i)
      <4> SUFFICES ASSUME NEW j \in is, Ahead(j, i)' PROVE j \in was /\ Ahead(j, i)
        BY <2>3, <2>4 DEF InFront
      <4>1. j \in was
        BY <2>2, <2>10 DEF Pushed
      <4>2. Ahead(j, i)
        BY <1>3, <3>1, <4>1
      <4>. QED
        BY <4>1, <4>2
    <3>4. Cardinality(InFront(walk, i)') <= Cardinality(InFront(walk, i))
      BY <2>8, <3>3, FS_Subset
    <3>5. /\ Cardinality(InFront(walk, i)) \in Nat
          /\ Cardinality(InFront(walk, i)') \in Nat /\ walk.offset \in Nat
      BY <1>4, <2>8, FS_CardinalityType DEF WalkType, WalkFields
    <3>. QED
      BY <2>2, <3>2, <3>4, <3>5
  <2>11. Separates(walk)'
    <3>1. /\ walk'.stayed \subseteq Matched(walk)'
          /\ Matched(walk)' \subseteq walk'.stayed \cup walk'.came
      BY <2>2, <2>3, <2>4
    <3>. QED
      BY <2>9, <2>10, <3>1 DEF Separates
  <2>12. Single(walk)'
    BY <1>4, <2>2, <2>7 DEF WalkInv, Single, Seen
  <2>. QED
    BY <2>2, <2>6, <2>11, <2>12 DEF WalkInv
<1>. QED
  BY <1>5, <1>6

\* A listing that starts has received nothing.
Opening(f, limit) == [NoWalk EXCEPT !.filter = f, !.limit = limit,
                                    !.stayed = Matching(products, f)]

LEMMA StartSeparates ==
  ASSUME NEW f \in Filter, NEW limit \in Limit
  PROVE  LET w == Opening(f, limit)
         IN /\ WalkType(w) /\ Separates(w) /\ Single(w)
            /\ w.filter = f /\ w.limit = limit /\ w.offset = 0
<1> DEFINE w == Opening(f, limit)
<1>1. Matching(products, f) \in SUBSET Id
      /\ \A i \in Matching(products, f) : products[i] # None
  BY DEF Matching
<1>2. f \in SUBSET Id /\ limit \in Nat
  BY ListingAssumption
<1>3. /\ w.filter = f /\ w.limit = limit /\ w.offset = 0 /\ w.got = {}
      /\ w.twice = {} /\ w.left = {} /\ w.came = {}
      /\ w.stayed = Matching(products, f)
  BY DEF NoWalk, Opening
<1>4. WalkType(w)
  <2>1. w \in WalkFields
    BY <1>1, <1>2 DEF NoWalk, Opening, WalkFields
  <2>. QED
    BY <1>1, <1>3, <2>1 DEF WalkType, Seen
<1> HIDE DEF w
<1>5. \A i : Cardinality(InFront(w, i)) >= 0
  BY FrontFinite
<1>6. Separates(w)
  BY <1>3, <1>5 DEF Separates, Matched
<1>. QED
  BY <1>3, <1>4, <1>6 DEF Single, w

LEMMA SearchKeeps ==
  ASSUME SearchPage
  PROVE  WalkInv(walk)'
<1>0. PICK f \in Filter, limit \in Limit : \E page \in Search(f, Clamp(limit)) :
        walk' = [NoWalk EXCEPT !.pc = "searched", !.filter = f, !.limit = limit,
                               !.got = Range(page)]
  BY DEF SearchPage
<1>1. PICK page \in Search(f, Clamp(limit)) :
        /\ walk' = [NoWalk EXCEPT !.pc = "searched", !.filter = f, !.limit = limit,
                                  !.got = Range(page)]
        /\ products' = products
  BY <1>0 DEF SearchPage, vars
<1>2. PICK s \in SetToSeqs(Matching(products, f)) : page = Page(s, Clamp(limit), 0)
  BY DEF Search
<1> DEFINE M == Matching(products, f)
           n == Cardinality(M)
           g == Range(page)
<1>3. M \in SUBSET Id /\ \A i \in M : products[i] # None
  BY DEF Matching
<1>4. n \in Nat /\ s \in [1..n -> M]
  BY <1>3, IdFinite, FS_Subset, FS_CardinalityType DEF SetToSeqs
<1>5. f \in SUBSET Id /\ limit \in Nat /\ Clamp(limit) \in Nat
  BY ListingAssumption DEF Clamp
<1>6. g \subseteq M
  <2> DEFINE e == IF 0 + Clamp(limit) < Len(s) THEN 0 + Clamp(limit) ELSE Len(s)
  <2>1. Len(s) = n /\ e \in Nat /\ e <= n
    BY <1>4, <1>5
  <2>2. page = SubSeq(s, 1, e)
    BY <1>2 DEF Page
  <2> HIDE DEF e, M, n
  <2>3. \A k \in 1..e : s[k] \in M
    BY <1>4, <2>1
  <2>4. page \in Seq(M)
    BY <2>1, <2>2, <2>3, SubSeqProperties
  <2>. QED
    BY <2>4 DEF Range
<1> HIDE DEF M, n, g
<1>7. walk' = [NoWalk EXCEPT !.pc = "searched", !.filter = f, !.limit = limit,
                             !.got = g]
  BY <1>1 DEF g
<1>8. /\ walk'.pc = "searched" /\ walk'.got = g /\ walk'.twice = {}
      /\ walk'.stayed = {} /\ walk'.left = {} /\ walk'.came = {}
  BY <1>7 DEF NoWalk
<1>9. walk' \in WalkFields
  BY <1>3, <1>5, <1>6, <1>7 DEF NoWalk, WalkFields
<1>10. WalkType(walk)'
  BY <1>1, <1>3, <1>6, <1>8, <1>9 DEF WalkType, Seen
<1>. QED
  BY <1>8, <1>10 DEF WalkInv, Single

LEMMA ListingStart == ListingInit => CatalogInv /\ WalkInv(walk)
<1> SUFFICES ASSUME ListingInit PROVE CatalogInv /\ WalkInv(walk)
  OBVIOUS
<1>1. walk = NoWalk /\ CatalogInv
  BY CatalogInit DEF ListingInit
<1>2. NoWalk \in WalkFields
  BY DEF NoWalk, WalkFields
<1>3. NoWalk.pc = "idle" /\ Seen(NoWalk) = {} /\ NoWalk.twice = {}
  BY DEF NoWalk, Seen
<1>. QED
  BY <1>1, <1>2, <1>3 DEF WalkInv, WalkType, Single

LEMMA ListingStep ==
  CatalogInv /\ WalkInv(walk) /\ [ListingNext]_lvars => CatalogInv' /\ WalkInv(walk)'
<1> SUFFICES ASSUME CatalogInv, WalkInv(walk), [ListingNext]_lvars
             PROVE  CatalogInv' /\ WalkInv(walk)'
  OBVIOUS
<1>1. CASE Command
  BY <1>1, CommandKeeps, RecordStays, CatalogNext DEF Command
<1>2. ASSUME NEW w, WalkType(w), Separates(w), Single(w),
             NEW page \in ListByCategory(w.filter, w.limit, w.offset),
             Receive(page, w), UNCHANGED vars
      PROVE  WalkInv(walk)'
  <2>1. PICK v : v = Paged(w, page)
    OBVIOUS
  <2>2. WalkInv(v) /\ walk' = v /\ products' = products
    BY <1>2, <2>1, PageSeparates DEF CatalogInv, Receive, Paged, vars
  <2>3. WalkType(walk)'
    BY <2>2 DEF WalkInv, WalkType, Seen
  <2>4. v.pc = "paging" => Separates(walk)'
    BY <2>2 DEF WalkInv, Separates, Matched, InFront, TieIn, Passed, Pushed, Seen,
       Ahead, Tied
  <2>5. v.pc = "done" => Complete(walk)'
    BY <2>2 DEF WalkInv, Complete, TieIn, Passed, Seen, Ahead, Tied
  <2>6. Single(walk)'
    BY <2>2 DEF WalkInv, Single, TieIn, Pushed, Seen, Ahead, Tied
  <2>. QED
    BY <2>2, <2>3, <2>4, <2>5, <2>6 DEF WalkInv
<1>3. UNCHANGED vars => CatalogInv'
  BY CatalogNext
<1>4. CASE FirstPage
  <2>1. PICK f \in Filter, limit \in Limit :
          \E page \in ListByCategory(f, limit, 0) :
            Receive(page, Opening(f, limit)) /\ UNCHANGED vars
    BY <1>4 DEF FirstPage, Opening
  <2>2. PICK w : w = Opening(f, limit)
    OBVIOUS
  <2>3. WalkType(w) /\ Separates(w) /\ Single(w) /\ w.filter = f
        /\ w.limit = limit /\ w.offset = 0
    BY <2>2, StartSeparates
  <2>4. PICK page \in ListByCategory(w.filter, w.limit, w.offset) :
          Receive(page, w) /\ UNCHANGED vars
    BY <2>1, <2>2, <2>3
  <2>. QED
    BY <1>2, <1>3, <2>3, <2>4
<1>5. CASE NextPage
  BY <1>2, <1>3, <1>5 DEF NextPage, WalkInv
<1>6. CASE SearchPage
  BY <1>3, <1>6, SearchKeeps DEF SearchPage
<1>7. CASE UNCHANGED lvars
  <2>1. products' = products /\ walk' = walk /\ UNCHANGED vars
    BY <1>7 DEF lvars, vars
  <2>. QED
    BY <1>3, <2>1 DEF WalkInv, WalkType, WalkFields, Separates, Complete, Single,
       Seen, Matched, InFront, TieIn, Passed, Pushed, Ahead, Tied
<1>. QED
  BY <1>1, <1>4, <1>5, <1>6, <1>7 DEF ListingNext, ListOrSearch

LEMMA ListingAlways == ListingSpec => [](CatalogInv /\ WalkInv(walk))
  BY ListingStart, ListingStep, PTL DEF ListingSpec

\* A client that pages through a changing collection misses a product that was
\* listed all along only for one of the causes, for any number of products,
\* writers and pages.
THEOREM SkipsHaveACause == ListingSpec => []SkippedForAReason
<1>1. WalkInv(walk) => SkippedForAReason
  BY DEF WalkInv, Complete, SkippedForAReason, Passed, TieIn, Tie, Seen
<1>. QED
  BY <1>1, ListingAlways, PTL

\* A product comes twice only for one of the causes.
THEOREM RepeatsHaveACause == ListingSpec => []RepeatedForAReason
<1>1. WalkInv(walk) => RepeatedForAReason
  BY DEF WalkInv, Single, RepeatedForAReason, Pushed, TieIn, Tie, Seen
<1>. QED
  BY <1>1, ListingAlways, PTL

-----------------------------------------------------------------------------
(* The catalog under the listing                                           *)

\* Listing and searching read the collection and write nothing: whatever is
\* true of the catalog alone is true of it while clients page through it.
THEOREM ListingImplementsCatalog == ListingSpec => Spec
<1>1. ListingInit => Init
  BY DEF ListingInit
<1>2. [ListingNext]_lvars => [Next]_vars
  BY DEF ListingNext, ListOrSearch, Command, FirstPage, NextPage, SearchPage, lvars
<1>. QED
  BY <1>1, <1>2, PTL DEF ListingSpec, Spec

\* So the catalog keeps its types, its SKUs, its origins and its answered
\* archives and updates while clients page through it.
THEOREM CatalogUnderListing ==
  ListingSpec => /\ [](TypeOK /\ SkuUnique)
                 /\ [](ArchivedUnlessOverrun /\ UpdatedUnlessOverrun)
                 /\ AuditKept
  BY ListingImplementsCatalog, CatalogTypes, SkusStayUnique, AuditIsKept,
     ArchivesLast, UpdatesLast, PTL

\* Whatever a client has got, and whatever has stayed, left or come meanwhile, is
\* a product of the collection still, and what came twice came once before.
THEOREM WalkTypes == ListingSpec => []WalkType(walk)
<1>1. WalkInv(walk) => WalkType(walk)
  BY DEF WalkInv
<1>. QED
  BY <1>1, ListingAlways, PTL
=============================================================================
