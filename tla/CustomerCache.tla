--------------------------- MODULE CustomerCache ---------------------------
(***************************************************************************)
(* The read side of the customer context: CachedQueryService               *)
(* (internal/customer/query.go) reads the customers table through a Redis  *)
(* cache, one key per customer and one for the list, while the requests of *)
(* CustomerService write the table and then delete the keys.  Redis keeps  *)
(* an entry until it is deleted, overwritten or older than its TTL, and    *)
(* survives the crash of the process.                                      *)
(***************************************************************************)
EXTENDS CustomerService

CONSTANTS
  Reader,  \* goroutines serving GET requests
  List     \* the key customer:list

ASSUME CacheAssumption == List \notin Id \cup {None}

VARIABLES
  cache,   \* what Redis holds under every key, None when it has no entry
  reader   \* what every reader is doing: its key and what it loaded

cvars == <<customers, outbox, eventLog, req, looks, faults, cache, reader>>

Key == Id \cup {List}
Idle == [pc |-> "get", key |-> None, got |-> None]

ListCustomers == customers

\* The value the database gives for a key: a row, or the whole table.
Fetch(k) == IF k = List THEN ListCustomers ELSE GetCustomerByID(k)

CacheInit ==
  /\ Init
  /\ cache = [k \in Key |-> None]
  /\ reader = [r \in Reader |-> Idle]

Fault == faults < MaxFaults /\ faults' = faults + 1
NoFault == UNCHANGED faults
Table == <<customers, outbox, eventLog, req, looks>>

-----------------------------------------------------------------------------
(* Readers                                                                 *)

\* Cache.Get misses, or fails and the reader degrades to the database; a hit
\* answers the request and changes nothing.
Get(r) ==
  /\ reader[r].pc = "get"
  /\ \E k \in Key :
       /\ (cache[k] = None /\ NoFault) \/ Fault
       /\ reader' = [reader EXCEPT ![r] = [pc |-> "load", key |-> k, got |-> None]]
  /\ UNCHANGED <<Table, cache>>

\* A customer who is not there, or a failing query, ends the request.
Load(r) ==
  /\ reader[r].pc = "load"
  /\ LET val == Fetch(reader[r].key)
     IN \/ /\ reader' = [reader EXCEPT ![r] =
                 IF val = None THEN Idle ELSE [@ EXCEPT !.pc = "set", !.got = val]]
           /\ NoFault
        \/ reader' = [reader EXCEPT ![r] = Idle] /\ Fault
  /\ UNCHANGED <<Table, cache>>

\* Cache.Set stores what was loaded, whatever has happened since, or fails.
Set(r) ==
  /\ reader[r].pc = "set"
  /\ \/ cache' = [cache EXCEPT ![reader[r].key] = reader[r].got] /\ NoFault
     \/ Fault /\ UNCHANGED cache
  /\ reader' = [reader EXCEPT ![r] = Idle]
  /\ UNCHANGED Table

Read(r) == Get(r) \/ Load(r) \/ Set(r)

\* Mutant of Expire: a time to live of zero, which Redis takes as none.
ExpireNever(k) == cache[k] # None /\ FALSE /\ UNCHANGED cvars

\* The time to live of an entry is over.
Expire(k) ==
  /\ cache[k] # None
  /\ cache' = [cache EXCEPT ![k] = None]
  /\ UNCHANGED <<Table, faults, reader>>

-----------------------------------------------------------------------------
(* Writers                                                                 *)

Evict(k) == cache' = [cache EXCEPT ![k] = None]

\* The two Deletes of invalidate.
EvictKey(q)  == InvalidateKey(q) /\ Evict(req[q].id) /\ UNCHANGED reader
EvictList(q) == InvalidateList(q) /\ Evict(List) /\ UNCHANGED reader

\* A Delete that fails is logged and the next one follows.
EvictFails(q) ==
  /\ req[q].pc \in {"invalidateKey", "invalidateList"}
  /\ Fault
  /\ Goto(q, IF req[q].pc = "invalidateKey" THEN "invalidateList" ELSE "event")
  /\ UNCHANGED <<customers, outbox, eventLog, looks, cache, reader>>

\* Mutant of Elsewhere: the row is cached inside the transaction.
ElsewhereWritesThrough(q) ==
  /\ Before(q) \/ Transaction(q) \/ StampEvent(q) \/ AppendEvent(q)
  /\ cache' = IF req[q].pc = "outbox"
              THEN [cache EXCEPT ![req[q].id] = NewRow(q)] ELSE cache
  /\ UNCHANGED reader

\* Everything else a request does leaves the cache alone.
Elsewhere(q) ==
  /\ Before(q) \/ Transaction(q) \/ StampEvent(q) \/ AppendEvent(q)
  /\ UNCHANGED <<cache, reader>>

Fails(q) == Fail(q) /\ UNCHANGED <<cache, reader>>

Write(q) == EvictKey(q) \/ EvictList(q) \/ EvictFails(q) \/ Elsewhere(q)

CacheCrash ==
  /\ Crash
  /\ reader' = [r \in Reader |-> Idle]
  /\ UNCHANGED cache

CacheNext ==
  \/ \E r \in Reader : Read(r)
  \/ \E k \in Key : Expire(k)
  \/ \E q \in Request : Write(q) \/ Fails(q)
  \/ CacheCrash

CacheSpec == CacheInit /\ [][CacheNext]_cvars

\* Requests and readers go on, and Redis drops what is over its TTL.
CacheFairSpec ==
  /\ CacheSpec
  /\ \A q \in Request : WF_cvars(Write(q))
  /\ \A r \in Reader : WF_cvars(Read(r))
  /\ \A k \in Key : WF_cvars(Expire(k))

-----------------------------------------------------------------------------
(* Properties                                                              *)

\* The tables, the cache and the readers have their types; nobody stores a
\* customer who was not found.
CacheType ==
  /\ TypeOK
  /\ \A id \in Id : cache[id] \in Row \cup {None}
  /\ cache[List] = None \/ cache[List] \in [Id -> Row \cup {None}]
  /\ \A r \in Reader : reader[r].pc = "set" => reader[r].got # None

Committed(id, row) == row = None \/ \E m \in MessagesOf(id) : m.row = row

\* No reader ever sees a row that did not commit: everything in the cache, the
\* rows of the list included, has been announced by a message of the outbox.
OnlyCommittedRows ==
  \A id \in Id :
    /\ Committed(id, cache[id])
    /\ cache[List] # None => Committed(id, cache[List][id])

Stale(k) == cache[k] \notin {None, Fetch(k)}

\* A request that has changed the table and has yet to delete the key.
Pending(k) ==
  \E q \in Request :
    \/ req[q].pc = "invalidateKey" /\ k \in {req[q].id, List}
    \/ req[q].pc = "invalidateList" /\ k = List

Registered == \E q \in Request : req[q].op = "register" /\ req[q].pc = "commit"
LateSet(k) == cache'[k] # cache[k] /\ cache'[k] # None

Caused ==
  \A k \in Key : Stale(k)' /\ ~Stale(k) =>
    \/ Pending(k)'
    \/ LateSet(k)
    \/ faults' # faults
    \/ k = List /\ Registered

\* Without a failing call an entry goes stale in two ways only: a commit that
\* still has to delete it, or a reader that stores what it loaded before the
\* commit.  The list has a third, the registration, which deletes nothing.
StaleForAReason == [][Caused]_cvars

\* A late Set that no Delete will undo, a failing call of a request or a crash,
\* or, for the list, a registration.
Disturbs(k) ==
  \/ LateSet(k) /\ Stale(k)' /\ ~Pending(k)'
  \/ faults' # faults /\ req' # req
  \/ k = List /\ \E q \in Request : req[q].op = "register" /\ Commit(q)

\* "The correct value always arrives" (docs/cache-redis.md:351) as far as it is
\* true: the cache gives an old value only between a commit and its Delete.
StaleOnlyBriefly(k) == Stale(k) => Pending(k)

\* When the writes have come to an end the cache agrees with the database for
\* good: late Sets run out and the TTL removes what they and failed Deletes left.
EventuallyFresh == <>[](\A k \in Key : ~Stale(k))

-----------------------------------------------------------------------------
(* What the documents say and the code does not                            *)

Busy == \E q \in Request : req[q].pc \notin {"idle", "done"}

\* "Delete is safe: on the next read the cache is empty and the DB is queried.
\* The correct value always arrives." (docs/cache-redis.md:351): with every
\* write answered and no call failed, no customer's key gives an old row.
CorrectValueArrives ==
  faults = 0 /\ ~Busy => \A id \in Id : ~Stale(id)

\* The list's key is "invalidated on Register, Update, Remove"
\* (docs/cache-redis.md:360): when a registration has been answered and nobody
\* is filling the cache, the list that is cached has the new customer.
RegisterInvalidatesList ==
  faults = 0 /\ ~Busy /\ (\A r \in Reader : reader[r] = Idle)
    => \A q \in Request :
         req[q].op = "register" /\ req[q].resp = "ok" /\ cache[List] # None
           => cache[List][q] # None \/ customers[q] = None
=============================================================================
