----------------------------- MODULE AuthProofs -----------------------------
(* Theorems about Auth and ProtectedApi, for any number of requests, calls,
   addresses and customers.                                                *)
EXTENDS ProtectedApi, TLAPS

Fields == [pc : {"idle", "find", "insert", "done"},
           op : {"register", "login", None}, cmd : Row \cup {None},
           known : SUBSET Request, token : Request \cup {None},
           resp : Answer \cup {None}]

\* The table: one normalised row per address.
Table ==
  /\ users \in [Request -> Row \cup {None}]
  /\ \A u \in Accounts : users[u].spelling = "normal"
  /\ OneAccount

\* What is due to a login: Found had no fitting account of those known to it.
Refusable(cmd, known) ==
  \/ cmd.spelling = "other"
  \/ \A u \in known : \/ users[u].email # cmd.email
                       \/ users[u].password # cmd.password

\* A request under way has no account yet; an answer fits the accounts.
Fits(q, r) ==
  /\ r.known \subseteq Accounts
  /\ r.token # None => r.pc = "done" /\ r.op = "login" /\ r.resp = "ok"
  /\ r.pc \in {"idle", "find", "insert"} => users[q] = None
  /\ r.pc \in {"find", "insert"} => r.cmd \in Row
  /\ r.pc \in {"idle", "find", "insert"} => r.resp = None
  /\ r.op = "login" /\ r.resp = "ok" =>
       /\ r.token \in Accounts
       /\ users[r.token].email = r.cmd.email
       /\ users[r.token].password = r.cmd.password
  /\ r.op = "register" /\ r.resp = "ok" => q \in Accounts
  /\ r.op = "register" /\ r.resp = "conflict" =>
       /\ users[q] = None
       /\ \E u \in Accounts : users[u].email = r.cmd.email
  /\ r.op = "login" /\ r.resp = "unauthorized" => Refusable(r.cmd, r.known)

AuthInv ==
  /\ Table
  /\ req \in [Request -> Fields]
  /\ \A q \in Request : Fits(q, req[q])
  /\ \A q \in Request : req[q].pc = "insert" => req[q].op = "register"

LEMMA AuthInit == Init => AuthInv
<1> SUFFICES ASSUME Init PROVE AuthInv
  OBVIOUS
<1>1. /\ Start \in Fields /\ Start.pc = "idle" /\ Start.resp = None
      /\ Start.token = None /\ Start.known = {}
  BY DEF Start, Fields
<1>2. users = [q \in Request |-> None] /\ Accounts = {}
  BY DEF Init, Accounts
<1>3. Table
  BY <1>2 DEF Table, OneAccount
<1>4. req = [q \in Request |-> Start]
  BY DEF Init
<1>5. \A q \in Request : Fits(q, Start)
  BY <1>1, <1>2, NoneAssumption DEF Fits, Answer
<1> HIDE DEF Start
<1>. QED
  BY <1>1, <1>3, <1>4, <1>5 DEF AuthInv

-----------------------------------------------------------------------------
(* Steps of one request                                                    *)

\* What no step does to the accounts.
Kept == \A u \in Accounts : users'[u] = users[u]

LEMMA BecomesEffect ==
  ASSUME AuthInv, NEW q \in Request, NEW r \in Fields, Becomes(q, r)
  PROVE  /\ req' \in [Request -> Fields] /\ req'[q] = r
         /\ \A p \in Request \ {q} : req'[p] = req[p]
  BY DEF AuthInv, Becomes

LEMMA RespondFields ==
  ASSUME AuthInv, NEW q \in Request, NEW ans \in Answer
  PROVE  LET r == [req[q] EXCEPT !.pc = "done", !.resp = ans]
         IN /\ r \in Fields /\ r.pc = "done" /\ r.op = req[q].op /\ r.resp = ans
            /\ r.cmd = req[q].cmd /\ r.known = req[q].known
            /\ r.token = req[q].token
<1>1. req[q] \in Fields
  BY DEF AuthInv
<1>. QED
  BY <1>1 DEF Fields

\* The table stays, and the request's new record fits.
LEMMA QuietKeeps ==
  ASSUME AuthInv, NEW q \in Request, NEW r \in Fields, Becomes(q, r),
         UNCHANGED users, Fits(q, r), r.pc = "insert" => r.op = "register"
  PROVE  AuthInv' /\ Kept
<1>1. Accounts' = Accounts
  BY DEF Accounts
<1>2. Table'
  BY <1>1 DEF AuthInv, Table, OneAccount
<1>3. \A p \in Request : Fits(p, req[p])'
  BY <1>1, BecomesEffect DEF AuthInv, Fits, Refusable
<1>4. \A p \in Request : (req[p].pc = "insert" => req[p].op = "register")'
  BY BecomesEffect DEF AuthInv
<1>5. Kept
  BY DEF Kept
<1>. QED
  BY <1>2, <1>3, <1>4, <1>5, BecomesEffect DEF AuthInv

\* An answer other than success, given before or after the look-up.
LEMMA RespondKeeps ==
  ASSUME AuthInv, NEW q \in Request, NEW ans \in Answer, Respond(q, ans),
         req[q].pc \in {"idle", "find", "insert"}, UNCHANGED users, ans # "ok",
         ans = "conflict" => \E u \in Accounts : users[u].email = req[q].cmd.email,
         ans = "unauthorized" => Refusable(req[q].cmd, req[q].known)
  PROVE  AuthInv' /\ Kept
<1> DEFINE r == [req[q] EXCEPT !.pc = "done", !.resp = ans]
<1>1. /\ r \in Fields /\ r.pc = "done" /\ r.resp = ans /\ r.cmd = req[q].cmd
      /\ r.known = req[q].known /\ r.token = req[q].token
  BY RespondFields
<1>2. Becomes(q, r)
  BY DEF Respond
<1> HIDE DEF r
<1>3. Fits(q, r)
  BY <1>1 DEF AuthInv, Fits
<1>. QED
  BY <1>1, <1>2, <1>3, QuietKeeps

\* A new row, whatever the answer: the constraint has admitted it.
LEMMA InsertKeeps ==
  ASSUME AuthInv, NEW q \in Request, NEW ans \in Answer, req[q].pc = "insert",
         ans \in {"ok", "error"},
         ~Violates(req[q].cmd), Insert(q), Respond(q, ans)
  PROVE  AuthInv' /\ Kept
<1> DEFINE r == [req[q] EXCEPT !.pc = "done", !.resp = ans]
<1> DEFINE row == NewUser(req[q].cmd)
<1>1. /\ r \in Fields /\ r.pc = "done" /\ r.op = "register" /\ r.resp = ans
      /\ r.known = req[q].known /\ r.token = None
  <2>1. req[q].op = "register" /\ req[q].token = None
    BY DEF AuthInv, Fits
  <2>. QED
    BY <2>1, RespondFields
<1>2. Becomes(q, r)
  BY DEF Respond
<1>3. row \in Row /\ row.spelling = "normal"
  BY DEF AuthInv, Fits, NewUser, Row, Spelling
<1>4. users' = [users EXCEPT ![q] = row]
  BY DEF Insert
<1>5. \A u \in Accounts : ~Matches(users[u], row)
  BY DEF Violates
<1> HIDE DEF r, row
<1>6. users \in [Request -> Row \cup {None}] /\ users[q] = None
  BY DEF AuthInv, Table, Fits
<1>7. /\ users' \in [Request -> Row \cup {None}]
      /\ users'[q] = row
      /\ \A u \in Request \ {q} : users'[u] = users[u]
  BY <1>3, <1>4, <1>6
<1>8. q \notin Accounts /\ Accounts' = Accounts \cup {q}
  BY <1>3, <1>6, <1>7, NoneAssumption DEF Accounts
<1>9. Kept
  BY <1>7, <1>8 DEF Kept, Accounts
<1>10. Table'
  <2>1. \A u \in Accounts' : users'[u].spelling = "normal"
    BY <1>3, <1>7, <1>8, <1>9 DEF AuthInv, Table, Kept
  <2>2. \A u \in Accounts : users[u].email # row.email
    BY <1>3, <1>5 DEF Matches, AuthInv, Table
  <2>3. OneAccount'
    BY <1>7, <1>8, <1>9, <2>2 DEF AuthInv, Table, OneAccount, Kept
  <2>. QED
    BY <1>7, <2>1, <2>3 DEF Table
<1>11. ASSUME NEW p \in Request PROVE Fits(p, req[p])'
  <2>1. CASE p = q
    <3>1. req'[q] = r /\ r.known \subseteq Accounts'
      BY <1>1, <1>2, <1>8, BecomesEffect DEF AuthInv, Fits
    <3>. QED
      BY <1>1, <1>8, <2>1, <3>1 DEF Fits
  <2>2. CASE p # q
    <3>1. req'[p] = req[p] /\ users'[p] = users[p] /\ Fits(p, req[p])
      BY <1>1, <1>2, <1>7, <2>2, BecomesEffect DEF AuthInv
    <3>2. \A cmd : Refusable(cmd, req[p].known) => Refusable(cmd, req[p].known)'
      BY <1>9, <3>1 DEF Fits, Refusable, Kept
    <3>. QED
      BY <1>8, <1>9, <3>1, <3>2 DEF Fits, Kept
  <2>. QED
    BY <2>1, <2>2
<1>12. \A p \in Request : (req[p].pc = "insert" => req[p].op = "register")'
  BY <1>1, <1>2, BecomesEffect DEF AuthInv
<1>. QED
  BY <1>1, <1>2, <1>9, <1>10, <1>11, <1>12, BecomesEffect DEF AuthInv

LEMMA ReceiveKeeps ==
  ASSUME AuthInv, NEW q \in Request, Receive(q)
  PROVE  AuthInv' /\ Kept
<1>1. PICK op \in {"register", "login"}, cmd \in Row :
        Becomes(q, [Start EXCEPT !.pc = "find", !.op = op, !.cmd = cmd,
                                 !.known = Accounts])
  BY DEF Receive
<1> DEFINE r == [Start EXCEPT !.pc = "find", !.op = op, !.cmd = cmd,
                              !.known = Accounts]
<1>2. /\ r \in Fields /\ r.pc = "find" /\ r.cmd = cmd /\ r.resp = None
      /\ r.token = None /\ r.known = Accounts
  BY DEF Start, Fields, Accounts
<1>3. Becomes(q, r)
  BY <1>1
<1> HIDE DEF r
<1>4. Fits(q, r)
  BY <1>2, NoneAssumption DEF Receive, AuthInv, Fits, Answer
<1>. QED
  BY <1>2, <1>3, <1>4, QuietKeeps DEF Receive

LEMMA CheckEmailKeeps ==
  ASSUME AuthInv, NEW q \in Request, CheckEmail(q)
  PROVE  AuthInv' /\ Kept
<1>1. CASE Found(q) # {}
  BY <1>1, RespondKeeps DEF CheckEmail, Answer, Found, Matches
<1>2. CASE Found(q) = {}
  <2> DEFINE r == [req[q] EXCEPT !.pc = "insert"]
  <2>1. req[q] \in Fields
    BY DEF AuthInv
  <2>2. /\ r \in Fields /\ r.pc = "insert" /\ r.op = "register"
        /\ r.cmd = req[q].cmd /\ r.resp = req[q].resp
        /\ r.token = req[q].token /\ r.known = req[q].known
    BY <2>1 DEF CheckEmail, Fields
  <2>3. Becomes(q, r)
    BY <1>2 DEF CheckEmail
  <2> HIDE DEF r
  <2>4. /\ req[q].pc = "find" /\ users[q] = None /\ req[q].cmd \in Row
        /\ req[q].resp = None /\ req[q].known \subseteq Accounts
        /\ req[q].token # None => req[q].resp = "ok"
    BY DEF CheckEmail, AuthInv, Fits
  <2>5. Fits(q, r)
    <3>1. r.resp = None /\ None # "ok" /\ None # "conflict" /\ None # "unauthorized"
      BY <2>2, <2>4, NoneAssumption DEF Answer
    <3>. QED
      BY <2>2, <2>4, <3>1 DEF Fits
  <2>. QED
    BY <2>2, <2>3, <2>5, QuietKeeps DEF CheckEmail
<1>. QED
  BY <1>1, <1>2

LEMMA LoginKeeps ==
  ASSUME AuthInv, NEW q \in Request, Login(q)
  PROVE  AuthInv' /\ Kept
<1>1. CASE /\ \A u \in Found(q) : users[u].password # req[q].cmd.password
           /\ Respond(q, "unauthorized")
  <2>1. ASSUME NEW u \in req[q].known, req[q].cmd.spelling = "normal",
               users[u].email = req[q].cmd.email
        PROVE  u \in Found(q)
    BY <2>1 DEF AuthInv, Fits, Table, Found, Matches
  <2>2. req[q].cmd \in Row
    BY DEF Login, AuthInv, Fits
  <2>3. Refusable(req[q].cmd, req[q].known)
    BY <1>1, <2>1, <2>2 DEF Refusable, Row, Spelling
  <2>. QED
    BY <1>1, <2>3, RespondKeeps DEF Login, Answer
<1>2. ASSUME NEW u \in Found(q), users[u].password = req[q].cmd.password,
             Becomes(q, [req[q] EXCEPT !.pc = "done", !.resp = "ok", !.token = u])
      PROVE  AuthInv' /\ Kept
  <2> DEFINE r == [req[q] EXCEPT !.pc = "done", !.resp = "ok", !.token = u]
  <2>1. req[q] \in Fields /\ u \in Accounts /\ u \in Request
    BY DEF AuthInv, Found, Accounts
  <2>2. /\ r \in Fields /\ r.pc = "done" /\ r.token = u /\ r.cmd = req[q].cmd
        /\ r.op = "login" /\ r.resp = "ok" /\ r.known = req[q].known
    BY <2>1 DEF Fields, Answer, Login
  <2>3. Becomes(q, r)
    BY <1>2
  <2> HIDE DEF r
  <2>4. Fits(q, r)
    BY <1>2, <2>1, <2>2 DEF AuthInv, Fits, Found, Matches
  <2>. QED
    BY <2>2, <2>3, <2>4, QuietKeeps DEF Login
<1>. QED
  BY <1>1, <1>2 DEF Login

LEMMA CrashKeeps == ASSUME AuthInv, Crash PROVE AuthInv' /\ Kept
<1> DEFINE r(q) == IF req[q].pc = "idle" THEN req[q]
                   ELSE [req[q] EXCEPT !.pc = "done"]
<1>1. ASSUME NEW q \in Request
      PROVE  /\ r(q) \in Fields
             /\ r(q) = req[q]
                  \/ /\ r(q).pc = "done" /\ r(q).op = req[q].op
                     /\ r(q).cmd = req[q].cmd /\ r(q).token = req[q].token
                     /\ r(q).resp = req[q].resp /\ r(q).known = req[q].known
  <2>1. req[q] \in Fields
    BY DEF AuthInv
  <2>. QED
    BY <2>1 DEF Fields
<1>2. req' = [q \in Request |-> r(q)] /\ users' = users
  BY DEF Crash
<1> HIDE DEF r
<1>3. Accounts' = Accounts
  BY <1>2 DEF Accounts
<1>4. Table' /\ Kept
  BY <1>2, <1>3 DEF AuthInv, Table, OneAccount, Kept
<1>5. ASSUME NEW q \in Request PROVE Fits(q, req[q])'
  <2>1. req'[q] = r(q) /\ Fits(q, req[q])
    BY <1>2 DEF AuthInv
  <2>. QED
    BY <1>1, <1>2, <1>3, <2>1 DEF Fits, Refusable
<1>6. \A q \in Request : (req[q].pc = "insert" => req[q].op = "register")'
  BY <1>1, <1>2 DEF AuthInv
<1>. QED
  BY <1>1, <1>2, <1>4, <1>5, <1>6 DEF AuthInv

-----------------------------------------------------------------------------

LEMMA AuthNext == AuthInv /\ [Next]_vars => AuthInv' /\ (Kept \/ UNCHANGED users)
<1> SUFFICES ASSUME AuthInv, [Next]_vars
             PROVE  AuthInv' /\ (Kept \/ UNCHANGED users)
  OBVIOUS
<1>1. ASSUME NEW q \in Request, Receive(q) \/ CheckEmail(q) \/ Login(q)
      PROVE  AuthInv' /\ Kept
  BY <1>1, ReceiveKeeps, CheckEmailKeeps, LoginKeeps
<1>2. ASSUME NEW q \in Request, Refuse(q) \/ NewUserFails(q) \/ FindFails(q)
      PROVE  AuthInv' /\ Kept
  BY <1>2, RespondKeeps DEF Refuse, NewUserFails, FindFails, Answer
<1>3. ASSUME NEW q \in Request, Save(q) PROVE AuthInv' /\ Kept
  BY <1>3, InsertKeeps, RespondKeeps DEF Save, Answer
<1>4. ASSUME NEW q \in Request, SaveFails(q) PROVE AuthInv' /\ Kept
  BY <1>4, InsertKeeps, RespondKeeps DEF SaveFails, Answer
<1>5. CASE Crash
  BY <1>5, CrashKeeps
<1>6. CASE UNCHANGED vars
  BY <1>6 DEF vars, AuthInv, Table, Accounts, OneAccount, Fits, Refusable
<1>. QED
  BY <1>1, <1>2, <1>3, <1>4, <1>5, <1>6 DEF Next, Register

LEMMA AuthAlways == Spec => []AuthInv
<1>1. AuthInv /\ [Next]_vars => AuthInv'
  BY AuthNext
<1>. QED
  BY <1>1, AuthInit, PTL DEF Spec

\* The bound on faults holds, and the rest of the types follows from AuthInv.
FaultBound == faults \in 0..MaxFaults

LEMMA FaultsBounded == Spec => []FaultBound
<1>1. Init => FaultBound
  BY AuthAssumption DEF Init, FaultBound
<1>2. ASSUME FaultBound, [Next]_vars PROVE FaultBound'
  <2>1. CASE Fault
    BY <1>2, <2>1, AuthAssumption DEF Fault, FaultBound
  <2>. QED
    BY <1>2, <2>1
       DEF FaultBound, Next, vars, Receive, Refuse, Register, CheckEmail, NewUserFails, Save,
           SaveFails, Login, FindFails, Crash
<1>. QED
  BY <1>1, <1>2, PTL DEF Spec

\* Every variable has its type, and the table holds normalised addresses only.
THEOREM AuthTypes == Spec => []TypeOK
<1>1. ASSUME AuthInv, FaultBound PROVE TypeOK
  <2>1. ASSUME NEW q \in Request
        PROVE  /\ req[q].cmd \in Row \cup {None}
               /\ req[q].token \in Request \cup {None}
               /\ req[q].resp \in Answer \cup {None}
    <3>1. req[q] \in Fields
      BY <1>1 DEF AuthInv
    <3>. QED
      BY <3>1 DEF Fields
  <2>. QED
    BY <1>1, <2>1 DEF AuthInv, Table, FaultBound, TypeOK
<1>. QED
  BY <1>1, AuthAlways, FaultsBounded, PTL

\* An address has one account, whatever races: the insert stores the normalised
\* address, and the constraint compares that.
THEOREM AddressHasOneAccount == Spec => []OneAccount
<1>1. AuthInv => OneAccount
  BY DEF AuthInv, Table
<1>. QED
  BY <1>1, AuthAlways, PTL

\* No step changes or removes an account.
THEOREM AccountsArePermanent == Spec => AccountsStay
<1>1. AuthInv /\ [Next]_vars => [Kept]_vars
  BY AuthNext DEF Kept, vars
<1>2. Kept <=> \A u \in Accounts : users'[u] = users[u]
  BY DEF Kept
<1>. QED
  BY <1>1, <1>2, AuthAlways, PTL DEF Spec, AccountsStay

\* A token is about an account that has, now, the login's address and password.
THEOREM TokensAreEarned == Spec => []TokenIsEarned
<1>1. AuthInv => TokenIsEarned
  BY DEF AuthInv, Fits, TokenIsEarned
<1>. QED
  BY <1>1, AuthAlways, PTL

\* Success and conflict are told truly: an account of one's own, or of another.
THEOREM RegistrationsAreAnswered == Spec => []AnswersAreTrue
<1>1. AuthInv => AnswersAreTrue
  BY NoneAssumption DEF AuthInv, Fits, Accounts, AnswersAreTrue
<1>. QED
  BY <1>1, AuthAlways, PTL

\* Nobody who registered before the login came in is turned away.
THEOREM LoginsAreFair == Spec => []RefusedForAReason
<1>1. AuthInv => RefusedForAReason
  BY DEF AuthInv, Fits, Refusable, RefusedForAReason
<1>. QED
  BY <1>1, AuthAlways, PTL

-----------------------------------------------------------------------------
(* The protected API                                                       *)

CallFields == [pc : {"idle", "handle", "done"},
               kind : Rest \cup Grpc \cup Reflection \cup {None},
               cred : Request \cup {None}, customer : Customer \cup {None},
               admitted : BOOLEAN, at : Nat \cup {None},
               resp : {"ok", "not_found", "unauthorized", "error", None}]

\* A request with a token has its expiry.
Issued == \A q \in Request : req[q].token # None => exp[q] \in Nat

\* What the middleware said of a call, and of which token.
Judged(c, r) ==
  /\ r.cred # None => req[r.cred].token # None
  /\ r.pc # "idle" /\ r.kind \notin Reflection =>
       /\ r.at \in Nat
       /\ r.admitted <=> r.cred # None /\ r.at < exp[r.cred]

\* Every document is of a PUT that has come to its end.
Documents ==
  /\ \A d, e \in prefs : d.customer_id = e.customer_id => d = e
  /\ \A d \in prefs : /\ d.sent \in Call /\ calls[d.sent].pc = "done"
                      /\ calls[d.sent].kind = "put" /\ calls[d.sent].admitted
                      /\ d.customer_id = Stored(calls[d.sent].customer)

ApiInv ==
  /\ AuthInv /\ now \in Nat /\ exp \in [Request -> Nat \cup {None}] /\ Issued
  /\ calls \in [Call -> CallFields]
  /\ \A c \in Call : Judged(c, calls[c])
  /\ \A c \in Call : calls[c].pc = "handle" => calls[c].admitted
  /\ Documents

LEMMA ApiStart == ApiInit => ApiInv
<1> SUFFICES ASSUME ApiInit PROVE ApiInv
  OBVIOUS
<1>1. AuthInv /\ now \in Nat /\ exp \in [Request -> Nat \cup {None}] /\ prefs = {}
  BY AuthInit DEF ApiInit
<1>2. Issued
  BY DEF ApiInit, Init, Start, Issued
<1>3. /\ NoCall \in CallFields /\ NoCall.pc = "idle" /\ NoCall.cred = None
      /\ calls = [c \in Call |-> NoCall]
  BY DEF NoCall, CallFields, ApiInit
<1>4. \A c \in Call : Judged(c, calls[c]) /\ calls[c].pc # "handle"
  BY <1>3 DEF Judged
<1>5. Documents
  BY <1>1 DEF Documents
<1>6. calls \in [Call -> CallFields]
  BY <1>3
<1>. QED
  BY <1>1, <1>2, <1>4, <1>5, <1>6 DEF ApiInv

\* A token once issued is never another one.
TokensStay == \A q \in Request : req[q].token # None =>
                req'[q].token = req[q].token /\ req'[q].cmd = req[q].cmd

LEMMA TokenHolds ==
  ASSUME AuthInv, [Next]_vars
  PROVE  TokensStay
<1>1. \A q \in Request : req[q] \in Fields /\ (req[q].token # None => req[q].pc = "done")
  BY DEF AuthInv, Fits
<1>2. ASSUME NEW q \in Request, req[q].pc # "done",
             \A p \in Request \ {q} : req'[p] = req[p]
      PROVE  TokensStay
  BY <1>1, <1>2 DEF TokensStay
<1>3. ASSUME NEW q \in Request, NEW r, Becomes(q, r)
      PROVE  \A p \in Request \ {q} : req'[p] = req[p]
  BY <1>3 DEF Becomes, AuthInv
<1>4. ASSUME NEW q \in Request,
             Receive(q) \/ Refuse(q) \/ Register(q) \/ Login(q) \/ FindFails(q)
      PROVE  TokensStay
  <2>1. req[q].pc # "done"
    BY <1>4 DEF Receive, Refuse, Register, CheckEmail, NewUserFails, Save, SaveFails,
                Login, FindFails
  <2>2. \E r : Becomes(q, r)
    BY <1>4 DEF Receive, Refuse, Register, CheckEmail, NewUserFails, Save, SaveFails,
                Login, FindFails, Respond
  <2>. QED
    BY <1>2, <1>3, <2>1, <2>2
<1>5. CASE Crash
  <2>1. \A q \in Request : \/ req'[q] = req[q]
                           \/ req'[q] = [req[q] EXCEPT !.pc = "done"]
    BY <1>5 DEF Crash
  <2>. QED
    BY <1>1, <2>1 DEF TokensStay, Fields
<1>6. CASE UNCHANGED vars
  BY <1>6 DEF vars, TokensStay
<1>. QED
  BY <1>4, <1>5, <1>6 DEF Next

-----------------------------------------------------------------------------
(* Steps of the accounts and of the clock                                  *)

\* Calls keep their judgement when tokens stay and expiries do.
LEMMA JudgementStays ==
  ASSUME ApiInv, TokensStay,
         \A q \in Request : req[q].token # None => exp'[q] = exp[q],
         NEW c \in Call, NEW r \in CallFields, Judged(c, r)
  PROVE  Judged(c, r)'
<1>1. r.cred \in Request \cup {None}
  BY DEF CallFields
<1>2. r.cred # None => /\ req[r.cred].token # None /\ req'[r.cred].token # None
                       /\ exp'[r.cred] = exp[r.cred]
  BY <1>1 DEF Judged, TokensStay
<1>. QED
  BY <1>2 DEF Judged, Reflection

LEMMA AccountStepKeeps ==
  ASSUME ApiInv, [Next]_vars, UNCHANGED <<calls, prefs>>, now' \in Nat,
         exp' \in [Request -> Nat \cup {None}],
         \A q \in Request : req[q].token # None => exp'[q] = exp[q],
         Issued'
  PROVE  ApiInv'
<1>1. AuthInv' /\ TokensStay
  BY AuthNext, TokenHolds DEF ApiInv
<1>2. ASSUME NEW c \in Call PROVE Judged(c, calls[c])'
  <2>1. calls[c] \in CallFields /\ Judged(c, calls[c])
    BY DEF ApiInv
  <2>2. ASSUME NEW r, r = calls[c] PROVE Judged(c, r)'
    BY <1>1, <2>1, <2>2, JudgementStays
  <2>. QED
    BY <2>2 DEF Judged
<1>3. Documents'
  BY DEF ApiInv, Documents, Stored
<1>. QED
  BY <1>1, <1>2, <1>3 DEF ApiInv

LEMMA AccountingKeeps ==
  ASSUME ApiInv, NEW q \in Request, Accounting(q)
  PROVE  ApiInv'
<1>1. Next /\ UNCHANGED <<now, exp, calls, prefs>>
  BY DEF Accounting, Next, apiVars
<1>2. \A p \in Request : req'[p].token # None => req[p].token # None
  <2>1. \A p \in Request \ {q} : req'[p] = req[p]
    BY DEF Accounting, Receive, Refuse, Register, CheckEmail, NewUserFails, Save,
           SaveFails, FindFails, Respond, Becomes, ApiInv, AuthInv
  <2>2. req[q] \in Fields
    BY DEF ApiInv, AuthInv
  <2>3. req'[q].token = None \/ req'[q].token = req[q].token
    <3>1. ASSUME NEW ans, Respond(q, ans) PROVE req'[q].token = req[q].token
      BY <2>2, <3>1 DEF Respond, Becomes, Fields, ApiInv, AuthInv
    <3>2. ASSUME Becomes(q, [req[q] EXCEPT !.pc = "insert"])
          PROVE  req'[q].token = req[q].token
      BY <2>2, <3>2 DEF Becomes, Fields, ApiInv, AuthInv
    <3>3. ASSUME Receive(q) PROVE req'[q].token = None
      BY <3>3 DEF Receive, Becomes, Start, ApiInv, AuthInv
    <3>. QED
      BY <3>1, <3>2, <3>3 DEF Accounting, Refuse, Register, CheckEmail, NewUserFails,
                              Save, SaveFails, FindFails
  <2>. QED
    BY <2>1, <2>3
<1>3. Issued'
  BY <1>1, <1>2 DEF ApiInv, Issued
<1>. QED
  BY <1>1, <1>3, AccountStepKeeps DEF ApiInv

LEMMA LoginIssuesKeeps ==
  ASSUME ApiInv, NEW q \in Request, LoginIssues(q)
  PROVE  ApiInv'
<1>1. /\ Next /\ UNCHANGED <<now, calls, prefs>>
      /\ exp' = IF req'[q].token # None THEN [exp EXCEPT ![q] = now + JWTExpiry]
                ELSE exp
      /\ req[q].pc = "find" /\ req[q].token = None
  BY DEF LoginIssues, Next, Login, ApiInv, AuthInv, Fits
<1>2. now + JWTExpiry \in Nat
  BY ApiAssumption DEF ApiInv
<1>3. exp' \in [Request -> Nat \cup {None}]
  BY <1>1, <1>2 DEF ApiInv
<1>4. /\ \A p \in Request \ {q} : exp'[p] = exp[p] /\ req'[p] = req[p]
      /\ req'[q].token # None => exp'[q] = now + JWTExpiry
  <2>1. \A p \in Request \ {q} : req'[p] = req[p]
    BY DEF LoginIssues, Login, Respond, Becomes, ApiInv, AuthInv
  <2>. QED
    BY <1>1, <2>1 DEF ApiInv
<1>5. Issued'
  BY <1>2, <1>4 DEF ApiInv, Issued
<1>. QED
  BY <1>1, <1>3, <1>4, <1>5, AccountStepKeeps DEF ApiInv

LEMMA TickKeeps == ASSUME ApiInv, Tick PROVE ApiInv'
<1>1. UNCHANGED vars /\ now' \in Nat /\ UNCHANGED <<exp, calls, prefs>>
  BY DEF Tick, ApiInv
<1>2. Issued'
  BY <1>1 DEF ApiInv, Issued, vars
<1>. QED
  BY <1>1, <1>2, AccountStepKeeps DEF ApiInv

-----------------------------------------------------------------------------
(* Steps of one call                                                       *)

\* The call's new record, and what has become of the documents.
LEMMA CallStepKeeps ==
  ASSUME ApiInv, NEW c \in Call, NEW r \in CallFields, calls' = [calls EXCEPT ![c] = r],
         UNCHANGED <<users, req, now, exp>>, Judged(c, r), Documents',
         r.pc = "handle" => r.admitted
  PROVE  ApiInv'
<1>1. /\ calls' \in [Call -> CallFields] /\ calls'[c] = r
      /\ \A e \in Call \ {c} : calls'[e] = calls[e]
  BY DEF ApiInv
<1>2. AuthInv'
  BY DEF ApiInv, AuthInv, Table, Accounts, OneAccount, Fits, Refusable
<1>3. Issued'
  BY DEF ApiInv, Issued
<1>4. ASSUME NEW e \in Call PROVE Judged(e, calls[e])'
  BY <1>1 DEF ApiInv, Judged
<1>5. \A e \in Call : calls'[e].pc = "handle" => calls'[e].admitted
  BY <1>1 DEF ApiInv
<1>. QED
  BY <1>1, <1>2, <1>3, <1>4, <1>5 DEF ApiInv

\* A document's call is done: the calls that are not can change.
LEMMA DocumentsStay ==
  ASSUME ApiInv, NEW c \in Call, calls[c].pc # "done", NEW r,
         calls' = [calls EXCEPT ![c] = r], UNCHANGED prefs
  PROVE  Documents'
  BY DEF ApiInv, Documents, Stored

LEMMA CheckedKeeps ==
  ASSUME ApiInv, NEW c \in Call, NEW kind \in Rest \cup Grpc, NEW cred \in Credential,
         NEW k \in Customer \cup {None}, Checked(c, kind, cred, k)
  PROVE  ApiInv'
<1> DEFINE r == [NoCall EXCEPT !.pc = "handle", !.kind = kind, !.cred = cred,
                               !.customer = k, !.admitted = TRUE, !.at = now]
           t == [NoCall EXCEPT !.pc = "done", !.kind = kind, !.cred = cred,
                               !.customer = k, !.at = now, !.resp = "unauthorized"]
<1>1. /\ r \in CallFields /\ r.pc = "handle" /\ r.kind = kind /\ r.cred = cred
      /\ r.admitted = TRUE /\ r.at = now
      /\ t \in CallFields /\ t.pc = "done" /\ t.kind = kind /\ t.cred = cred
      /\ t.admitted = FALSE /\ t.at = now
  BY DEF ApiInv, NoCall, CallFields, Credential
<1>2. /\ calls[c].pc = "idle" /\ UNCHANGED <<users, req, now, exp, prefs>>
      /\ \/ ValidateToken(cred) /\ calls' = [calls EXCEPT ![c] = r]
         \/ ~ValidateToken(cred) /\ calls' = [calls EXCEPT ![c] = t]
  BY DEF Checked, Passes, Refused, vars
<1> HIDE DEF r, t
<1>3. /\ cred # None => cred \in Request /\ req[cred].token # None
      /\ now \in Nat
      /\ cred \in Request => cred # None
  BY AuthAssumption DEF Credential, ApiInv
<1>4. ValidateToken(cred) => Judged(c, r)
  BY <1>1, <1>3 DEF Judged, ValidateToken
<1>5. ~ValidateToken(cred) => Judged(c, t)
  BY <1>1, <1>3 DEF Judged, ValidateToken
<1>6. Documents'
  BY <1>2, DocumentsStay
<1>. QED
  BY <1>1, <1>2, <1>4, <1>5, <1>6, CallStepKeeps

LEMMA PublicKeeps == ASSUME ApiInv, NEW c \in Call, PublicMethod(c) PROVE ApiInv'
<1>1. PICK kind \in Reflection : Passes(c, kind, None, None)
  BY DEF PublicMethod
<1> DEFINE r == [NoCall EXCEPT !.pc = "handle", !.kind = kind, !.cred = None,
                               !.customer = None, !.admitted = TRUE, !.at = now]
<1>2. /\ r \in CallFields /\ r.pc = "handle" /\ r.kind = kind /\ r.cred = None
      /\ r.admitted
  BY DEF ApiInv, NoCall, CallFields
<1>3. /\ calls[c].pc = "idle" /\ UNCHANGED <<users, req, now, exp, prefs>>
      /\ calls' = [calls EXCEPT ![c] = r]
  BY <1>1 DEF PublicMethod, Passes, vars
<1> HIDE DEF r
<1>4. Judged(c, r) /\ Documents'
  BY <1>2, <1>3, DocumentsStay DEF Judged
<1>. QED
  BY <1>2, <1>3, <1>4, CallStepKeeps

LEMMA ReplyRecord ==
  ASSUME ApiInv, NEW c \in Call, calls[c].pc = "handle",
         NEW ans \in {"ok", "not_found", "error", None}, Reply(c, ans)
  PROVE  \E r \in CallFields :
           /\ calls' = [calls EXCEPT ![c] = r] /\ Judged(c, r)
           /\ r.pc = "done" /\ r.kind = calls[c].kind /\ r.admitted
           /\ r.customer = calls[c].customer
<1> DEFINE r == [calls[c] EXCEPT !.pc = "done", !.resp = ans]
<1>1. calls[c] \in CallFields /\ Judged(c, calls[c]) /\ calls[c].admitted
  BY DEF ApiInv
<1>2. /\ r \in CallFields /\ r.pc = "done" /\ r.kind = calls[c].kind
      /\ r.cred = calls[c].cred /\ r.customer = calls[c].customer
      /\ r.admitted = calls[c].admitted /\ r.at = calls[c].at
  BY <1>1 DEF CallFields
<1>3. calls' = [calls EXCEPT ![c] = r]
  BY <1>1 DEF Reply, ApiInv, CallFields
<1> HIDE DEF r
<1>4. Judged(c, r)
  BY <1>1, <1>2 DEF Judged
<1>. QED
  BY <1>1, <1>2, <1>3, <1>4

\* The filter never meets a stored document, and the index lets one in.
LEMMA PutKeeps ==
  ASSUME ApiInv, NEW c \in Call, calls[c].pc = "handle", calls[c].kind = "put",
         Put(c), NEW ans \in {"ok", "error"}, Reply(c, ans),
         UNCHANGED <<users, req, now, exp>>
  PROVE  ApiInv'
<1>1. PICK r \in CallFields :
        /\ calls' = [calls EXCEPT ![c] = r] /\ Judged(c, r)
        /\ r.pc = "done" /\ r.kind = "put" /\ r.admitted
        /\ r.customer = calls[c].customer
  BY ReplyRecord
<1>2. Hits(calls[c].customer) = {}
  BY DEF Hits, Filter, Stored, ApiInv, Documents
<1> DEFINE doc == Document(c)
<1>3. /\ doc.sent = c /\ doc.customer_id = Stored(calls[c].customer)
  BY DEF Document
<1>4. /\ prefs' = prefs \cup {doc}
      /\ \A d \in prefs : d.customer_id # doc.customer_id
  BY <1>2 DEF Put, Collides
<1> HIDE DEF doc
<1>5. /\ calls'[c] = r /\ \A e \in Call \ {c} : calls'[e] = calls[e]
  BY <1>1 DEF ApiInv
<1>6. \A d \in prefs : d.sent \in Call \ {c}
  BY DEF ApiInv, Documents
<1>7. Documents'
  <2>1. \A d \in prefs' : /\ d.sent \in Call /\ calls'[d.sent].pc = "done"
                          /\ calls'[d.sent].kind = "put" /\ calls'[d.sent].admitted
                          /\ d.customer_id = Stored(calls'[d.sent].customer)
    BY <1>1, <1>3, <1>4, <1>5, <1>6 DEF ApiInv, Documents
  <2>2. \A d, e \in prefs' : d.customer_id = e.customer_id => d = e
    BY <1>4 DEF ApiInv, Documents
  <2>. QED
    BY <2>1, <2>2 DEF Documents, Stored
<1>. QED
  BY <1>1, <1>7, CallStepKeeps

\* A reply that stores nothing.
LEMMA ReplyKeeps ==
  ASSUME ApiInv, NEW c \in Call, calls[c].pc = "handle",
         NEW ans \in {"ok", "not_found", "error", None}, Reply(c, ans),
         UNCHANGED <<users, req, now, exp, prefs>>
  PROVE  ApiInv'
<1>1. PICK r \in CallFields :
        /\ calls' = [calls EXCEPT ![c] = r] /\ Judged(c, r) /\ r.pc = "done"
  BY ReplyRecord
<1>2. Documents'
  BY <1>1, DocumentsStay
<1>. QED
  BY <1>1, <1>2, CallStepKeeps

LEMMA ServeKeeps == ASSUME ApiInv, NEW c \in Call, Serve(c) PROVE ApiInv'
<1>1. CASE JWTMiddleware(c) \/ AuthInterceptor(c)
  BY <1>1, CheckedKeeps DEF JWTMiddleware, AuthInterceptor
<1>2. CASE PublicMethod(c)
  BY <1>2, PublicKeeps
<1>3. CASE FindByCustomerID(c)
  BY <1>3, ReplyKeeps DEF FindByCustomerID, vars
<1>4. CASE UpsertPreferences(c)
  BY <1>4, ReplyKeeps, PutKeeps DEF UpsertPreferences, vars
<1>5. CASE PreferencesFail(c)
  BY <1>5, ReplyKeeps, PutKeeps DEF PreferencesFail
<1>6. CASE HandlerReturns(c)
  BY <1>6, ReplyKeeps DEF HandlerReturns, vars
<1>. QED
  BY <1>1, <1>2, <1>3, <1>4, <1>5, <1>6 DEF Serve

-----------------------------------------------------------------------------
(* A crash ends the requests and the calls                                 *)

LEMMA ApiCrashKeeps == ASSUME ApiInv, ApiCrash PROVE ApiInv'
<1> DEFINE r(c) == IF calls[c].pc = "idle" THEN calls[c]
                   ELSE [calls[c] EXCEPT !.pc = "done"]
<1>1. ASSUME NEW c \in Call
      PROVE  /\ r(c) \in CallFields /\ Judged(c, r(c)) /\ r(c).pc # "handle"
             /\ r(c).kind = calls[c].kind /\ r(c).customer = calls[c].customer
             /\ r(c).admitted = calls[c].admitted
             /\ calls[c].pc = "done" => r(c).pc = "done"
  <2>1. calls[c] \in CallFields /\ Judged(c, calls[c])
    BY DEF ApiInv
  <2>2. /\ r(c) \in CallFields /\ r(c).pc # "handle"
        /\ r(c).kind = calls[c].kind /\ r(c).customer = calls[c].customer
        /\ r(c).admitted = calls[c].admitted /\ r(c).cred = calls[c].cred
        /\ r(c).at = calls[c].at
        /\ calls[c].pc = "done" => r(c).pc = "done"
        /\ calls[c].pc = "idle" => r(c).pc = "idle"
    BY <2>1 DEF CallFields
  <2> HIDE DEF r
  <2>3. Judged(c, r(c))
    BY <2>1, <2>2 DEF Judged
  <2>. QED
    BY <2>2, <2>3
<1>2. /\ calls' = [c \in Call |-> r(c)] /\ UNCHANGED <<now, exp, prefs>>
      /\ Crash
  BY DEF ApiCrash
<1> HIDE DEF r
<1>3. AuthInv' /\ TokensStay
  BY <1>2, AuthNext, TokenHolds DEF ApiInv, Next
<1>4. \A q \in Request : req'[q].token # None => req[q].token # None
  <2>1. \A q \in Request : \/ req'[q] = req[q]
                           \/ req'[q] = [req[q] EXCEPT !.pc = "done"]
    BY <1>2 DEF Crash
  <2>2. \A q \in Request : req[q] \in Fields
    BY DEF ApiInv, AuthInv
  <2>. QED
    BY <2>1, <2>2 DEF Fields
<1>5. Issued'
  BY <1>2, <1>4 DEF ApiInv, Issued
<1>6. ASSUME NEW c \in Call PROVE Judged(c, calls[c])'
  <2>1. ASSUME NEW s, s = r(c) PROVE Judged(c, s)'
    BY <1>1, <1>2, <1>3, <2>1, JudgementStays
  <2>. QED
    BY <1>2, <2>1 DEF Judged
<1>7. Documents'
  BY <1>1, <1>2 DEF ApiInv, Documents, Stored
<1>8. calls' \in [Call -> CallFields] /\ \A c \in Call : calls'[c].pc # "handle"
  BY <1>1, <1>2
<1>. QED
  BY <1>2, <1>3, <1>5, <1>6, <1>7, <1>8 DEF ApiInv

LEMMA ApiNextKeeps ==
  ASSUME ApiInv, [ApiNext]_<<vars, apiVars>>
  PROVE  ApiInv' /\ (Kept \/ UNCHANGED users)
<1>1. ASSUME NEW q \in Request, Accounting(q)
      PROVE  ApiInv' /\ (Kept \/ UNCHANGED users)
  <2>1. Next
    BY <1>1 DEF Accounting, Next
  <2>. QED
    BY <1>1, <2>1, AccountingKeeps, AuthNext DEF ApiInv
<1>2. ASSUME NEW q \in Request, LoginIssues(q)
      PROVE  ApiInv' /\ (Kept \/ UNCHANGED users)
  <2>1. UNCHANGED users
    BY <1>2 DEF LoginIssues, Login
  <2>. QED
    BY <1>2, <2>1, LoginIssuesKeeps
<1>3. ASSUME NEW c \in Call, Serve(c) PROVE ApiInv' /\ UNCHANGED users
  <2>1. UNCHANGED users
    BY <1>3 DEF Serve, JWTMiddleware, AuthInterceptor, PublicMethod, Checked,
                FindByCustomerID, UpsertPreferences, PreferencesFail, HandlerReturns,
                vars
  <2>. QED
    BY <1>3, <2>1, ServeKeeps
<1>4. CASE Tick
  BY <1>4, TickKeeps DEF Tick, vars
<1>5. CASE ApiCrash
  BY <1>5, ApiCrashKeeps DEF ApiCrash, Crash
<1>6. CASE UNCHANGED <<vars, apiVars>>
  <2>1. UNCHANGED vars /\ UNCHANGED <<now, exp, calls, prefs>>
    BY <1>6 DEF apiVars
  <2>2. Issued'
    BY <2>1 DEF ApiInv, Issued, vars
  <2>. QED
    BY <2>1, <2>2, AccountStepKeeps DEF ApiInv, vars
<1>. QED
  BY <1>1, <1>2, <1>3, <1>4, <1>5, <1>6 DEF ApiNext

LEMMA ApiAlways == ApiSpec => []ApiInv
<1>1. ApiInv /\ [ApiNext]_<<vars, apiVars>> => ApiInv'
  BY ApiNextKeeps
<1>. QED
  BY <1>1, ApiStart, PTL DEF ApiSpec

\* What the accounts promise they promise behind the API too.
THEOREM AccountsBehindTheApi ==
  ApiSpec => [](OneAccount /\ TokenIsEarned /\ AnswersAreTrue /\ RefusedForAReason)
<1>1. ApiInv => OneAccount /\ TokenIsEarned /\ AnswersAreTrue /\ RefusedForAReason
  BY NoneAssumption DEF ApiInv, AuthInv, Table, Fits, Refusable, Accounts, TokenIsEarned,
                        AnswersAreTrue, RefusedForAReason
<1>. QED
  BY <1>1, ApiAlways, PTL

\* A call is admitted exactly if its token was earned and had not expired.
THEOREM AdmissionIsEarned == ApiSpec => []AdmittedForAReason
<1>1. ASSUME ApiInv PROVE AdmittedForAReason
  <2> SUFFICES ASSUME NEW c \in Call, calls[c].pc # "idle",
                      calls[c].kind \notin Reflection
               PROVE  calls[c].admitted <=>
                        \E q \in Request :
                          /\ calls[c].cred = q
                          /\ \E u \in Accounts :
                               /\ req[q].token = u
                               /\ users[u].password = req[q].cmd.password
                          /\ calls[c].at < exp[q]
    BY DEF AdmittedForAReason
  <2>1. /\ calls[c].cred \in Request \cup {None}
        /\ calls[c].admitted <=> calls[c].cred # None
                                   /\ calls[c].at < exp[calls[c].cred]
        /\ calls[c].cred # None => req[calls[c].cred].token # None
    BY <1>1 DEF ApiInv, CallFields, Judged
  <2>2. \A q \in Request : req[q].token # None =>
          \E u \in Accounts : /\ req[q].token = u
                              /\ users[u].password = req[q].cmd.password
    BY <1>1 DEF ApiInv, AuthInv, Fits
  <2>. QED
    BY <2>1, <2>2, AuthAssumption
<1>. QED
  BY <1>1, ApiAlways, PTL

\* A customer has one preferences document, which an admitted PUT carried.
THEOREM OneDocumentEach == ApiSpec => []OneDocument
<1>1. ApiInv => OneDocument
  BY DEF ApiInv, Documents, OneDocument
<1>. QED
  BY <1>1, ApiAlways, PTL
\* No document has the customer_id that a filter asks for.
LEMMA FilterMeetsNothing == ASSUME ApiInv, NEW k PROVE Hits(k) = {}
  BY DEF ApiInv, Documents, Hits, Filter, Stored

\* For any number of customers, calls, retries and lost answers, the first PUT of
\* a customer is the last one that is stored, and nobody reads it.
THEOREM FirstPutStays == ApiSpec => FirstPutIsFinal
<1> DEFINE final == /\ prefs \subseteq prefs'
                    /\ \A c \in Call :
                         /\ FindByCustomerID(c) => calls'[c].resp = "not_found"
                         /\ UpsertPreferences(c) /\ Collides(c) => calls'[c].resp = "error"
<1>1. ASSUME ApiInv, [ApiNext]_<<vars, apiVars>> PROVE prefs \subseteq prefs'
  <2>1. ASSUME NEW c \in Call, Put(c) PROVE prefs \subseteq prefs'
    BY <1>1, <2>1, FilterMeetsNothing DEF Put
  <2>2. ASSUME NEW c \in Call, Serve(c) PROVE prefs \subseteq prefs'
    BY <2>1, <2>2 DEF Serve, JWTMiddleware, AuthInterceptor, PublicMethod, Checked,
       FindByCustomerID, UpsertPreferences, PreferencesFail, HandlerReturns
  <2>. QED
    BY <1>1, <2>2 DEF ApiNext, Accounting, LoginIssues, Tick, ApiCrash, apiVars
<1>2. ASSUME ApiInv, NEW c \in Call, FindByCustomerID(c)
      PROVE  calls'[c].resp = "not_found"
  <2>1. Hits(calls[c].customer) = {}
    BY <1>2, FilterMeetsNothing
  <2>2. Reply(c, "not_found")
    BY <1>2, <2>1 DEF FindByCustomerID
  <2>. QED
    BY <1>2, <2>2 DEF Reply, ApiInv, CallFields
<1>3. ASSUME ApiInv, NEW c \in Call, UpsertPreferences(c), Collides(c)
      PROVE  calls'[c].resp = "error"
  <2>1. Hits(calls[c].customer) = {}
    BY <1>3, FilterMeetsNothing
  <2>2. Reply(c, "error")
    BY <1>3, <2>1 DEF UpsertPreferences, Put
  <2>. QED
    BY <1>3, <2>2 DEF Reply, ApiInv, CallFields
<1>4. ApiInv /\ [ApiNext]_<<vars, apiVars>> => [final]_<<vars, apiVars>>
  BY <1>1, <1>2, <1>3
<1>. QED
  BY <1>4, ApiAlways, ApiNextKeeps, PTL DEF ApiSpec, FirstPutIsFinal
=============================================================================
