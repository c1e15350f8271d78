---------------------------- MODULE ProtectedApi ----------------------------
(***************************************************************************)
(* What an account is for.  Login issues a token that expires; the REST    *)
(* middleware (internal/auth/middleware.go) and the gRPC interceptors      *)
(* (internal/platform/grpc/interceptors.go) admit the calls that carry     *)
(* one; behind the middleware, the customer preferences are documents of   *)
(* MongoDB under a unique index (preferences_repo.go).                     *)
(***************************************************************************)
EXTENDS Auth

CONSTANTS
  Call,       \* calls; a PUT is the preferences it carries
  Customer,   \* the UUIDs in their paths
  JWTExpiry,  \* JWT_EXPIRY
  MaxTime     \* bound: the time that passes in one behaviour

ASSUME ApiAssumption ==
  /\ JWTExpiry \in Nat /\ MaxTime \in Nat

VARIABLES
  now,    \* the clock
  exp,    \* the exp claim of the token of every login that issued one
  calls,  \* what every call is doing
  prefs   \* the collection customer_preferences

apiVars == <<now, exp, calls, prefs>>

Rest == {"get", "put"}              \* /customers/:id/preferences
Grpc == {"rpc"}                     \* CustomerService, unary and streaming
Reflection == {"reflection"}        \* /grpc.reflection.*

\* admitted is history: what the middleware said, and when.
NoCall == [pc |-> "idle", kind |-> None, cred |-> None, customer |-> None,
           admitted |-> FALSE, at |-> None, resp |-> None]

ApiInit ==
  /\ Init
  /\ now = 0
  /\ exp = [q \in Request |-> None]
  /\ calls = [c \in Call |-> NoCall]
  /\ prefs = {}

-----------------------------------------------------------------------------
(* Tokens                                                                  *)

\* A login whose answer carries a token: exp is the time of the login plus
\* the expiry.
LoginIssues(q) ==
  /\ Login(q)
  /\ exp' = IF req'[q].token # None
            THEN [exp EXCEPT ![q] = now + JWTExpiry] ELSE exp
  /\ UNCHANGED <<now, calls, prefs>>

Tick ==
  /\ now < MaxTime
  /\ now' = now + 1
  /\ UNCHANGED <<vars, exp, calls, prefs>>

\* A token from an answer; None is no header or metadata, a scheme other than
\* Bearer, or a string that this service did not sign.
Credential == {None} \cup {q \in Request : req[q].token # None}

\* Mutant of ValidateToken: the expiry is not looked at.
ValidateSignature(cred) == cred \in Request

\* The signature, then exp: a token is good until the second it expires.
ValidateToken(cred) == cred \in Request /\ now < exp[cred]

-----------------------------------------------------------------------------
(* The middleware                                                          *)

Passes(c, kind, cred, k) ==
  calls' = [calls EXCEPT ![c] =
    [NoCall EXCEPT !.pc = "handle", !.kind = kind, !.cred = cred,
                   !.customer = k, !.admitted = TRUE, !.at = now]]

Refused(c, kind, cred, k) ==
  calls' = [calls EXCEPT ![c] =
    [NoCall EXCEPT !.pc = "done", !.kind = kind, !.cred = cred,
                   !.customer = k, !.at = now, !.resp = "unauthorized"]]

\* A missing credential and a rejected one have the same answer.
Checked(c, kind, cred, k) ==
  /\ calls[c].pc = "idle"
  /\ \/ ValidateToken(cred) /\ Passes(c, kind, cred, k)
     \/ ~ValidateToken(cred) /\ Refused(c, kind, cred, k)
  /\ UNCHANGED <<vars, now, exp, prefs>>

JWTMiddleware(c) ==
  \E kind \in Rest, cred \in Credential, k \in Customer : Checked(c, kind, cred, k)

AuthInterceptor(c) ==
  \E kind \in Grpc, cred \in Credential : Checked(c, kind, cred, None)

\* Whoever asks for the schema needs no token.
PublicMethod(c) ==
  /\ calls[c].pc = "idle"
  /\ \E kind \in Reflection : Passes(c, kind, None, None)
  /\ UNCHANGED <<vars, now, exp, prefs>>

-----------------------------------------------------------------------------
(* The preferences                                                         *)

Reply(c, ans) == calls' = [calls EXCEPT ![c].pc = "done", ![c].resp = ans]

\* The driver stores a uuid.UUID, an array of sixteen bytes, as binary data;
\* both filters compare with the text of the UUID.
Stored(k) == <<"binary", k>>
Filter(k) == <<"string", k>>

Document(c) == [customer_id |-> Stored(calls[c].customer), sent |-> c]
Hits(k) == {d \in prefs : d.customer_id = Filter(k)}

FindByCustomerID(c) ==
  /\ calls[c].pc = "handle" /\ calls[c].kind = "get"
  /\ Reply(c, IF Hits(calls[c].customer) = {} THEN "not_found" ELSE "ok")
  /\ UNCHANGED <<vars, now, exp, prefs>>

\* Mutant of Collides: ensurePreferencesIndexes makes a plain index.
NeverCollides(c) == FALSE

\* customer_id_unique
Collides(c) == \E d \in prefs : d.customer_id = Document(c).customer_id

\* UpdateOne with SetUpsert: the document that the filter meets is set, or one
\* is inserted.
Put(c) ==
  LET hits == Hits(calls[c].customer)
  IN IF hits # {} THEN prefs' = (prefs \ hits) \cup {Document(c)}
     ELSE ~Collides(c) /\ prefs' = prefs \cup {Document(c)}

CannotPut(c) == Hits(calls[c].customer) = {} /\ Collides(c)

\* Nobody asks the customers table whether there is such a customer.
UpsertPreferences(c) ==
  /\ calls[c].pc = "handle" /\ calls[c].kind = "put"
  /\ \/ Put(c) /\ Reply(c, "ok")
     \/ CannotPut(c) /\ Reply(c, "error") /\ UNCHANGED prefs
  /\ UNCHANGED <<vars, now, exp>>

\* The call to MongoDB fails, or only its answer does.
PreferencesFail(c) ==
  /\ calls[c].pc = "handle" /\ calls[c].kind \in Rest
  /\ Fault
  /\ UNCHANGED prefs \/ (calls[c].kind = "put" /\ Put(c))
  /\ Reply(c, "error")
  /\ UNCHANGED <<users, req, now, exp>>

\* A handler of another component returns, or panics and is recovered: its
\* answer is of no interest here.
HandlerReturns(c) ==
  /\ calls[c].pc = "handle" /\ calls[c].kind \in Grpc \cup Reflection
  /\ Reply(c, None)
  /\ UNCHANGED <<vars, now, exp, prefs>>

-----------------------------------------------------------------------------

\* Tokens outlive the process: any process with the secret validates them.
ApiCrash ==
  /\ Crash
  /\ calls' = [c \in Call |-> IF calls[c].pc = "idle" THEN calls[c]
                              ELSE [calls[c] EXCEPT !.pc = "done"]]
  /\ UNCHANGED <<now, exp, prefs>>

Accounting(q) ==
  /\ Receive(q) \/ Refuse(q) \/ Register(q) \/ FindFails(q)
  /\ UNCHANGED apiVars

Serve(c) ==
  \/ JWTMiddleware(c) \/ AuthInterceptor(c) \/ PublicMethod(c)
  \/ FindByCustomerID(c) \/ UpsertPreferences(c) \/ PreferencesFail(c)
  \/ HandlerReturns(c)

ApiNext ==
  \/ \E q \in Request : Accounting(q) \/ LoginIssues(q)
  \/ \E c \in Call : Serve(c)
  \/ Tick \/ ApiCrash

ApiSpec == ApiInit /\ [][ApiNext]_<<vars, apiVars>>

-----------------------------------------------------------------------------
(* Properties                                                              *)

\* A call gets past the middleware exactly if it shows a token that an account
\* earned with its password and that had not expired when it was shown; only
\* reflection asks for none.
AdmittedForAReason ==
  \A c \in Call : calls[c].pc # "idle" /\ calls[c].kind \notin Reflection =>
    (calls[c].admitted <=>
       \E q \in Request :
         /\ calls[c].cred = q
         /\ \E u \in Accounts : /\ req[q].token = u
                                /\ users[u].password = req[q].cmd.password
         /\ calls[c].at < exp[q])

\* "Unique -- one preferences document per customer" (docs/mongodb.md:154):
\* concurrent and repeated PUTs, and PUTs whose answer was lost, leave a
\* customer with one document, and every document is one that an admitted PUT
\* for that customer carried.
OneDocument ==
  /\ \A d, e \in prefs : d.customer_id = e.customer_id => d = e
  /\ \A d \in prefs : /\ calls[d.sent].kind = "put" /\ calls[d.sent].admitted
                      /\ d.customer_id = Stored(calls[d.sent].customer)

-----------------------------------------------------------------------------
(* What the documents say and the code does not                            *)

\* "Customer preferences upsert is idempotent" (docs/mongodb.md:343): a PUT
\* that no call to MongoDB failed is answered 204, the first or not.
UpsertIsIdempotent ==
  faults = 0 => \A c \in Call : calls[c].kind = "put" => calls[c].resp # "error"

\* "GET /api/v1/customers/:id/preferences ... 200 {preferences}" (README.md:455):
\* a customer whose preferences are stored is not answered 404.
StoredIsFound ==
  [][\A c \in Call :
       calls[c].pc = "handle" /\ calls'[c].resp = "not_found" =>
         \A d \in prefs : d.customer_id # Stored(calls[c].customer)]_calls
\* What both findings come to: a customer's first PUT stays for good, every other
\* one is answered with an error, and no GET ever gives the preferences.
FirstPutIsFinal ==
  [][/\ prefs \subseteq prefs'
     /\ \A c \in Call :
          /\ FindByCustomerID(c) => calls'[c].resp = "not_found"
          /\ UpsertPreferences(c) /\ Collides(c) => calls'[c].resp = "error"
    ]_<<vars, apiVars>>
=============================================================================
