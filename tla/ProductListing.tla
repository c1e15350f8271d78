--------------------------- MODULE ProductListing ---------------------------
(***************************************************************************)
(* The read side of the product catalog (internal/product/query.go): a     *)
(* client pages through the active products of a filter, newest first, by  *)
(* limit and offset, while the requests of ProductCatalog create, change   *)
(* and archive products between its pages.  Nothing ties one page to the   *)
(* next.                                                                   *)
(***************************************************************************)
EXTENDS ProductCatalog, Integers, SequencesExt

CONSTANTS
  Filter,        \* category and attributes, as the writers of matching details
  Limit,         \* what clients ask for as limit
  DefaultLimit,  \* 20 in the code
  MaxLimit       \* 100 in the code

ASSUME ListingAssumption ==
  /\ Filter \subseteq SUBSET Id
  /\ Limit \subseteq Nat
  /\ DefaultLimit \in 1..MaxLimit /\ MaxLimit \in Nat

VARIABLE walk  \* what the client has asked for and got

lvars == <<vars, walk>>

\* got is the ids received, twice those received again.  The rest is history
\* since the first page: which products have stayed listed, left and come.
NoWalk == [pc |-> "idle", filter |-> {}, limit |-> 0, offset |-> 0,
           got |-> {}, twice |-> {}, stayed |-> {}, left |-> {}, came |-> {}]

ListingInit == Init /\ walk = NoWalk

-----------------------------------------------------------------------------
(* Queries                                                                 *)

\* {"active": true} and the category and attribute filters.
Matching(docs, f) ==
  {i \in Id : docs[i] # None /\ docs[i].active /\ docs[i].details \in f}

Page(s, limit, offset) ==
  SubSeq(s, offset + 1, IF offset + limit < Len(s) THEN offset + limit ELSE Len(s))

\* Mutant of FindByCategory: what was changed last comes first.
FindByCategoryUpdated(f, limit, offset) ==
  {Page(s, limit, offset) :
     s \in {s \in SetToSeqs(Matching(products, f)) :
              \A a, b \in DOMAIN s :
                a < b => products[s[a]].updated >= products[s[b]].updated}}

\* Mutant of FindByCategory: the order is left to the collection.
FindByCategoryUnsorted(f, limit, offset) ==
  {Page(s, limit, offset) : s \in SetToSeqs(Matching(products, f))}

\* Find sorts by created_at alone, so that products of the same instant come in
\* any order, and in another one the next time.
FindByCategory(f, limit, offset) ==
  {Page(s, limit, offset) :
     s \in {s \in SetToSeqs(Matching(products, f)) :
              \A a, b \in DOMAIN s :
                a < b => products[s[a]].created >= products[s[b]].created}}

\* $text sorts by a relevance that the model knows nothing of.
Search(f, limit) ==
  {Page(s, limit, 0) : s \in SetToSeqs(Matching(products, f))}

\* A limit over the maximum becomes the default and not the maximum.
Clamp(limit) == IF limit <= 0 \/ limit > MaxLimit THEN DefaultLimit ELSE limit

ListByCategory(f, limit, offset) ==
  FindByCategory(f, Clamp(limit), IF offset < 0 THEN 0 ELSE offset)

-----------------------------------------------------------------------------
(* The client                                                              *)

\* A page shorter than the limit is the last one.
Receive(page, w) ==
  walk' = [w EXCEPT
    !.pc = IF page = << >> \/ Len(page) < w.limit THEN "done" ELSE "paging",
    !.offset = w.offset + Len(page),
    !.got = w.got \cup Range(page),
    !.twice = w.twice \cup (w.got \cap Range(page))]

\* The first page of a listing.
FirstPage ==
  /\ walk.pc = "idle"
  /\ \E f \in Filter, limit \in Limit :
       \E page \in ListByCategory(f, limit, 0) :
         Receive(page, [NoWalk EXCEPT !.filter = f, !.limit = limit,
                                      !.stayed = Matching(products, f)])
  /\ UNCHANGED vars

NextPage ==
  /\ walk.pc = "paging"
  /\ \E page \in ListByCategory(walk.filter, walk.limit, walk.offset) :
       Receive(page, walk)
  /\ UNCHANGED vars

\* With q the handler searches; Search knows no offset, so there is one page.
SearchPage ==
  /\ walk.pc = "idle"
  /\ \E f \in Filter, limit \in Limit :
       \E page \in Search(f, Clamp(limit)) :
         walk' = [NoWalk EXCEPT !.pc = "searched", !.filter = f, !.limit = limit,
                                !.got = Range(page)]
  /\ UNCHANGED vars

\* A command goes on while the client is between two pages.
Command ==
  /\ Next
  /\ LET was == Matching(products, walk.filter)
         is  == Matching(products', walk.filter)
     IN walk' = IF walk.pc # "paging" THEN walk
                ELSE [walk EXCEPT !.stayed = @ \cap is,
                                  !.left = @ \cup (was \ is),
                                  !.came = @ \cup (is \ was)]

ListOrSearch == FirstPage \/ NextPage \/ SearchPage

ListingNext == Command \/ ListOrSearch

ListingSpec == ListingInit /\ [][ListingNext]_lvars

-----------------------------------------------------------------------------
(* Properties                                                              *)

Ahead(j, i) == j # i /\ products[j].created > products[i].created
Tied(j, i)  == j # i /\ products[j].created = products[i].created
Tie(i)      == \E j \in walk.got \cup walk.stayed \cup walk.left \cup walk.came :
                 Tied(j, i)

\* A client that pages to the end has seen every product that was listed all
\* along, unless one listed before it left in between, two products have the
\* same instant, or the client asked for more than the maximum and took the
\* default page for the last one.
SkippedForAReason ==
  walk.pc = "done" =>
    \A i \in walk.stayed \ walk.got :
      \/ \E j \in walk.left : Ahead(j, i)
      \/ Tie(i)
      \/ walk.limit > MaxLimit

\* A product comes twice only if one listed before it came in between, a new
\* one or one revived, or two products have the same instant.
RepeatedForAReason ==
  \A i \in walk.twice :
    \/ \E j \in walk.came : Ahead(j, i)
    \/ Tie(i)

-----------------------------------------------------------------------------
(* What the documents say and the code does not                            *)

\* "Max results (default 20, max 100)" (handler.go:107): a client that asks
\* for more than the maximum gets as many products as there are, up to it.
LimitIsCapped ==
  walk.pc = "searched" /\ walk.limit > MaxLimit =>
    LET n == Cardinality(Matching(products, walk.filter))
    IN Cardinality(walk.got) >= IF n < MaxLimit THEN n ELSE MaxLimit
=============================================================================
