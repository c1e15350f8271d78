--------------------------- MODULE ProductCatalog ---------------------------
(***************************************************************************)
(* The write side of the product catalog (internal/product/service.go) on  *)
(* a MongoDB collection (internal/platform/database/mongodb): Create       *)
(* inserts a document under a unique index on the SKU; Update and Archive  *)
(* read a document, change their copy and replace the whole document by    *)
(* it, whatever has been written in between.                               *)
(***************************************************************************)
EXTENDS Naturals, FiniteSets

CONSTANTS
  Request,   \* requests, one command each; a creation is the new product
  Old,       \* the products that are there from the beginning
  Sku,
  None,      \* no document
  MaxFaults  \* bound: calls that fail and crashes, in one behaviour

ASSUME CatalogAssumption ==
  /\ IsFiniteSet(Request) /\ IsFiniteSet(Old)
  /\ Request \cap Old = {}
  /\ None \notin Request \cup Old \cup Sku
  /\ MaxFaults \in Nat

VARIABLES
  products,  \* the collection: a document or None for every id
  req,       \* what every request is doing, with the copy it holds
  clock,     \* time.Now()
  faults     \* calls that failed and crashes so far

vars == <<products, req, clock, faults>>

Id == Request \cup Old

\* Name, description, attributes and price of a document are known by the
\* request that wrote them.
Document == [sku : Sku, details : Id, active : BOOLEAN,
             created : Nat, updated : Nat]

Answer == {"ok", "invalid", "notfound", "conflict", "error"}

ASSUME NoDocumentAssumption == None \notin Document \cup Answer

\* read and wrote are history: when the request read and wrote its document.
Start == [pc |-> "idle", op |-> None, id |-> None, copy |-> None,
          read |-> 0, wrote |-> 0, resp |-> None]

Init ==
  /\ \E sku \in [Old -> Sku] :
       /\ \A i, j \in Old : sku[i] = sku[j] => i = j
       /\ products = [i \in Id |->
            IF i \in Old THEN [sku |-> sku[i], details |-> i, active |-> TRUE,
                               created |-> 1, updated |-> 1]
                         ELSE None]
  /\ req = [q \in Request |-> Start]
  /\ clock = 2
  /\ faults = 0

\* The next record of a request; every step takes time.
Becomes(q, r) == req' = [req EXCEPT ![q] = r] /\ clock' = clock + 1
Respond(q, ans) ==
  Becomes(q, [req[q] EXCEPT !.pc = "done", !.resp = ans])

-----------------------------------------------------------------------------
(* Commands                                                                *)

NewProduct(q, sku) == [sku |-> sku, details |-> q, active |-> TRUE,
                       created |-> clock, updated |-> clock]

ReceiveCreate(q) ==
  /\ req[q].pc = "idle"
  /\ \E sku \in Sku :
       Becomes(q, [Start EXCEPT !.pc = "insert", !.op = "create", !.id = q,
                                !.copy = NewProduct(q, sku)])
  /\ UNCHANGED <<products, faults>>

ReceiveChange(q) ==
  /\ req[q].pc = "idle"
  /\ \E id \in Id \ {q}, op \in {"update", "archive"} :
       Becomes(q, [Start EXCEPT !.pc = "find", !.op = op, !.id = id])
  /\ UNCHANGED <<products, faults>>

\* The handler's validation or NewProduct refuses the command.  The checks of
\* UpdateDetails repeat those of the handler.
Refuse(q) ==
  /\ req[q].pc = "idle"
  /\ Respond(q, "invalid")
  /\ UNCHANGED <<products, faults>>

-----------------------------------------------------------------------------
(* Create                                                                  *)

SkuTaken(sku) == \E i \in Id : products[i] # None /\ products[i].sku = sku

Insert(q) == products' = [products EXCEPT ![q] = req[q].copy]

\* Save: InsertOne, or ErrSKUAlreadyExists for a duplicate key.
Save(q) ==
  /\ req[q].pc = "insert"
  /\ IF SkuTaken(req[q].copy.sku)
     THEN Respond(q, "conflict") /\ UNCHANGED products
     ELSE Insert(q) /\ Respond(q, "ok")
  /\ UNCHANGED faults

-----------------------------------------------------------------------------
(* Update and Archive                                                      *)

\* Mutant of Changed: the product is built anew from the command.
ChangedAnew(q, doc) ==
  [doc EXCEPT !.details = q, !.active = req[q].op # "archive",
              !.created = clock, !.updated = clock]

\* UpdateDetails and Archive, on the copy.
Changed(q, doc) ==
  IF req[q].op = "update"
  THEN [doc EXCEPT !.details = q, !.updated = clock]
  ELSE [doc EXCEPT !.active = FALSE, !.updated = clock]

\* Mutant of FindByID: an update starts from a copy of an active product.
FindByIDCached(q) ==
  /\ req[q].pc = "find"
  /\ LET doc == products[req[q].id]
     IN IF doc = None THEN Respond(q, "notfound")
        ELSE Becomes(q, [req[q] EXCEPT
               !.pc = "replace", !.read = clock,
               !.copy = Changed(q, [doc EXCEPT !.active = TRUE])])
  /\ UNCHANGED <<products, faults>>

\* FindByID decodes the document, and the service changes the copy.
FindByID(q) ==
  /\ req[q].pc = "find"
  /\ LET doc == products[req[q].id]
     IN IF doc = None THEN Respond(q, "notfound")
        ELSE Becomes(q, [req[q] EXCEPT !.pc = "replace", !.read = clock,
                                       !.copy = Changed(q, doc)])
  /\ UNCHANGED <<products, faults>>

Replace(q) == products' = [products EXCEPT ![req[q].id] = req[q].copy]

\* Mutant of ReplaceOne: it reports success for a document it did not replace.
ReplaceNothing(q) ==
  /\ req[q].pc = "replace"
  /\ Becomes(q, [req[q] EXCEPT !.pc = "done", !.wrote = clock, !.resp = "ok"])
  /\ UNCHANGED <<products, faults>>

\* ReplaceOne filters by the id alone: neither the version the copy was read
\* from nor the active flag has to be the same.
ReplaceOne(q) ==
  /\ req[q].pc = "replace"
  /\ Replace(q)
  /\ Becomes(q, [req[q] EXCEPT !.pc = "done", !.wrote = clock, !.resp = "ok"])
  /\ UNCHANGED faults

-----------------------------------------------------------------------------
(* Failures                                                                *)

Fault == faults < MaxFaults /\ faults' = faults + 1

\* A read fails.
FindFails(q) ==
  /\ req[q].pc = "find"
  /\ Fault
  /\ Respond(q, "error")
  /\ UNCHANGED products

\* A write fails, or only its answer does.
SaveFails(q) ==
  /\ req[q].pc = "insert"
  /\ Fault
  /\ UNCHANGED products \/ (~SkuTaken(req[q].copy.sku) /\ Insert(q))
  /\ Respond(q, "error")

ReplaceFails(q) ==
  /\ req[q].pc = "replace"
  /\ Fault
  /\ \/ UNCHANGED products /\ Respond(q, "error")
     \/ /\ Replace(q)
        /\ Becomes(q, [req[q] EXCEPT !.pc = "done", !.wrote = clock,
                                     !.resp = "error"])

\* The process dies: no request under way writes or is answered.
Crash ==
  /\ Fault
  /\ req' = [q \in Request |-> IF req[q].pc = "idle" THEN req[q]
                               ELSE [req[q] EXCEPT !.pc = "done"]]
  /\ clock' = clock + 1
  /\ UNCHANGED products

-----------------------------------------------------------------------------

Create(q) == ReceiveCreate(q) \/ Save(q) \/ SaveFails(q)
Change(q) == ReceiveChange(q) \/ FindByID(q) \/ ReplaceOne(q)
               \/ FindFails(q) \/ ReplaceFails(q)

Next == (\E q \in Request : Create(q) \/ Change(q) \/ Refuse(q)) \/ Crash

Spec == Init /\ [][Next]_vars

-----------------------------------------------------------------------------
(* Properties                                                              *)

Held == {req[q].copy : q \in Request} \ {None}

\* Every variable has its type, and no document or copy of one was changed
\* before it was created.
TypeOK ==
  /\ products \in [Id -> Document \cup {None}]
  /\ \A doc \in Held \cup {products[i] : i \in Id} :
       doc # None => doc.created <= doc.updated /\ doc.updated < clock
  /\ \A q \in Request :
       /\ req[q].id \in Id \cup {None}
       /\ req[q].copy \in Document \cup {None}
       /\ req[q].resp \in Answer \cup {None}
  /\ faults \in 0..MaxFaults

\* Two products never share a SKU, though nothing looks before it inserts and
\* replacements write the SKU too, from copies of any age.
SkuUnique ==
  \A i, j \in Id :
    i # j /\ products[i] # None /\ products[j] # None
      => products[i].sku # products[j].sku

\* Archived products "are still retrievable by GetByID for audit purposes"
\* (docs/mongodb.md): no interleaving of stale copies removes a product or
\* rewrites where it comes from.
AuditKept ==
  [][\A i \in Id : products[i] # None =>
       /\ products'[i] # None
       /\ products'[i].sku = products[i].sku
       /\ products'[i].created = products[i].created]_vars

Wrote(q, id)    == req[q].id = id /\ req[q].wrote > 0
\* q wrote the document over p's, from a copy it had read before.
Overran(q, p)   == /\ Wrote(q, req[p].id)
                   /\ req[q].wrote > req[p].wrote
                   /\ req[q].read < req[p].wrote

\* An archive that has been answered stays, unless an update that read the
\* product before it replaced the document after it (and whoever read what
\* that one left): updates alone, one after the other, never revive a product.
ArchivedUnlessOverrun ==
  \A p \in Request :
    req[p].op = "archive" /\ req[p].resp = "ok" /\ products[req[p].id].active
      => \E q \in Request : req[q].op = "update" /\ Overran(q, p)

\* The details of an update that has been answered are the product's until a
\* later update, unless a request that read before it wrote after it.
UpdatedUnlessOverrun ==
  \A p \in Request :
    req[p].op = "update" /\ req[p].resp = "ok" /\ products[req[p].id].details # p
      => \E q \in Request :
           /\ Wrote(q, req[p].id)
           /\ req[q].wrote > req[p].wrote
           /\ req[q].op = "update" \/ Overran(q, p)

-----------------------------------------------------------------------------
(* What the documents say and the code does not                            *)

\* "DELETE /api/v1/products/:id ... sets active: false"; "Archived products are
\* excluded from" every listing (docs/mongodb.md:191-195): an archive that was
\* answered keeps the product out.
ArchivedStays ==
  \A p \in Request :
    req[p].op = "archive" /\ req[p].resp = "ok" => ~products[req[p].id].active
=============================================================================
