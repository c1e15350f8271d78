-------------------------------- MODULE Auth --------------------------------
(***************************************************************************)
(* Accounts (internal/auth/service.go): Register looks an address up,      *)
(* hashes the password and inserts a user under a unique index; Login      *)
(* looks the address up and issues a token if the password is right.       *)
(***************************************************************************)
EXTENDS Naturals, FiniteSets

CONSTANTS
  Request,   \* requests; a registration is the account it creates
  Email,     \* addresses as NewUser normalises them
  Password,
  None,
  MaxFaults  \* bound: calls that fail and crashes, in one behaviour

ASSUME AuthAssumption ==
  /\ IsFiniteSet(Request)
  /\ None \notin Request
  /\ MaxFaults \in Nat

VARIABLES
  users,   \* the table: a row or None for every registration
  req,     \* what every request is doing
  faults   \* calls that failed and crashes so far

vars == <<users, req, faults>>

\* A client spells an address as NewUser would, or in some other way.
Spelling == {"normal", "other"}

\* A bcrypt hash stands for the password it compares equal to.
Row == [email : Email, spelling : Spelling, password : Password]

Answer == {"ok", "invalid", "unauthorized", "conflict", "error"}

ASSUME NoneAssumption == None \notin Row \cup Answer

\* token is the account a token is about.  known is history: the accounts that
\* were there when the request came in.
Start == [pc |-> "idle", op |-> None, cmd |-> None, known |-> {},
          token |-> None, resp |-> None]

Init ==
  /\ users = [q \in Request |-> None]
  /\ req = [q \in Request |-> Start]
  /\ faults = 0

Accounts == {q \in Request : users[q] # None}

Becomes(q, r) == req' = [req EXCEPT ![q] = r]
Respond(q, ans) == Becomes(q, [req[q] EXCEPT !.pc = "done", !.resp = ans])

-----------------------------------------------------------------------------
(* Commands                                                                *)

Receive(q) ==
  /\ req[q].pc = "idle"
  /\ \E op \in {"register", "login"}, cmd \in Row :
       Becomes(q, [Start EXCEPT !.pc = "find", !.op = op, !.cmd = cmd,
                                !.known = Accounts])
  /\ UNCHANGED <<users, faults>>

\* The handler's validation or Register's own refuses the command.
Refuse(q) ==
  /\ req[q].pc = "idle"
  /\ Respond(q, "invalid")
  /\ UNCHANGED <<users, faults>>

\* SELECT * FROM users WHERE email = $1, with the address as the client
\* spelled it.
Matches(row, cmd) == row.email = cmd.email /\ row.spelling = cmd.spelling
Found(q) == {u \in Accounts : Matches(users[u], req[q].cmd)}

-----------------------------------------------------------------------------
(* Register                                                                *)

\* ErrEmailExists, or go on and hash.
CheckEmail(q) ==
  /\ req[q].pc = "find" /\ req[q].op = "register"
  /\ IF Found(q) # {} THEN Respond(q, "conflict")
     ELSE Becomes(q, [req[q] EXCEPT !.pc = "insert"])
  /\ UNCHANGED <<users, faults>>

\* Mutant of NewUser: the address is stored as the client spelled it.
NewUserRaw(cmd) == cmd

NewUser(cmd) == [cmd EXCEPT !.spelling = "normal"]

\* Mutant of Violates: the constraint compares what the client spelled.
ViolatesRaw(cmd) == \E u \in Accounts : Matches(users[u], cmd)

\* email TEXT NOT NULL UNIQUE
Violates(cmd) == \E u \in Accounts : Matches(users[u], NewUser(cmd))

Insert(q) == users' = [users EXCEPT ![q] = NewUser(req[q].cmd)]

\* Mutant of Save: a refused insert is taken for a success.
SaveAnyway(q) ==
  /\ req[q].pc = "insert"
  /\ IF Violates(req[q].cmd) THEN UNCHANGED users ELSE Insert(q)
  /\ Respond(q, "ok")
  /\ UNCHANGED faults

\* Mutant of Save: the insert is an upsert.
SaveUpserts(q) ==
  /\ req[q].pc = "insert"
  /\ users' = IF Violates(req[q].cmd)
              THEN [u \in Request |->
                      IF u \in Accounts /\ Matches(users[u], NewUser(req[q].cmd))
                      THEN NewUser(req[q].cmd) ELSE users[u]]
              ELSE [users EXCEPT ![q] = NewUser(req[q].cmd)]
  /\ Respond(q, "ok")
  /\ UNCHANGED faults

\* The constraint's refusal is not ErrEmailExists: it is answered as any error.
Save(q) ==
  /\ req[q].pc = "insert"
  /\ IF Violates(req[q].cmd)
     THEN Respond(q, "error") /\ UNCHANGED users
     ELSE Insert(q) /\ Respond(q, "ok")
  /\ UNCHANGED faults

\* bcrypt refuses a long password, or NewUser a blank name that the validation
\* let through: no error that mapAuthError knows.
NewUserFails(q) ==
  /\ req[q].pc = "insert"
  /\ Respond(q, "error")
  /\ UNCHANGED <<users, faults>>

-----------------------------------------------------------------------------
(* Login                                                                   *)

\* Mutant of Login: the user of the address is enough.
LoginUnchecked(q) ==
  /\ req[q].pc = "find" /\ req[q].op = "login"
  /\ IF Found(q) = {} THEN Respond(q, "unauthorized")
     ELSE \E u \in Found(q) :
            Becomes(q, [req[q] EXCEPT !.pc = "done", !.resp = "ok", !.token = u])
  /\ UNCHANGED <<users, faults>>

\* The same answer for an unknown address and for a wrong password.
Login(q) ==
  /\ req[q].pc = "find" /\ req[q].op = "login"
  /\ \/ /\ \A u \in Found(q) : users[u].password # req[q].cmd.password
        /\ Respond(q, "unauthorized")
     \/ \E u \in Found(q) :
          /\ users[u].password = req[q].cmd.password
          /\ Becomes(q, [req[q] EXCEPT !.pc = "done", !.resp = "ok",
                                       !.token = u])
  /\ UNCHANGED <<users, faults>>

-----------------------------------------------------------------------------
(* Failures                                                                *)

Fault == faults < MaxFaults /\ faults' = faults + 1

FindFails(q) ==
  /\ req[q].pc = "find"
  /\ Fault
  /\ Respond(q, "error")
  /\ UNCHANGED users

\* The insert fails, or only its answer does.
SaveFails(q) ==
  /\ req[q].pc = "insert"
  /\ Fault
  /\ UNCHANGED users \/ (~Violates(req[q].cmd) /\ Insert(q))
  /\ Respond(q, "error")

\* The process dies: no request under way is answered.
Crash ==
  /\ Fault
  /\ req' = [q \in Request |-> IF req[q].pc = "idle" THEN req[q]
                               ELSE [req[q] EXCEPT !.pc = "done"]]
  /\ UNCHANGED users

-----------------------------------------------------------------------------

Register(q) == CheckEmail(q) \/ NewUserFails(q) \/ Save(q) \/ SaveFails(q)

Next ==
  \/ \E q \in Request : Receive(q) \/ Refuse(q) \/ Register(q) \/ Login(q)
                          \/ FindFails(q)
  \/ Crash

Spec == Init /\ [][Next]_vars

-----------------------------------------------------------------------------
(* Properties                                                              *)

\* Every variable has its type; the table holds normalised addresses only.
TypeOK ==
  /\ users \in [Request -> Row \cup {None}]
  /\ \A u \in Accounts : users[u].spelling = "normal"
  /\ \A q \in Request : /\ req[q].cmd \in Row \cup {None}
                        /\ req[q].token \in Request \cup {None}
                        /\ req[q].resp \in Answer \cup {None}
  /\ faults \in 0..MaxFaults

\* An address has one account, though the look-up before the insert neither
\* normalises the address nor excludes another registration.
OneAccount ==
  \A u, v \in Accounts : users[u].email = users[v].email => u = v

\* No registration, however it races another of its address, changes or removes
\* an account: nobody gets at one by registering.
AccountsStay ==
  [][\A u \in Accounts : users'[u] = users[u]]_vars

\* A registration is answered with success only if its own account exists, and
\* refused as a conflict only if it is somebody else's address.
AnswersAreTrue ==
  \A q \in Request : req[q].op = "register" =>
    /\ req[q].resp = "ok" => q \in Accounts
    /\ req[q].resp = "conflict" =>
         /\ q \notin Accounts
         /\ \E u \in Accounts : users[u].email = req[q].cmd.email

\* A token is about an account with the address and the password of the login,
\* as the account is now and not only as it was read.
TokenIsEarned ==
  \A q \in Request : req[q].op = "login" /\ req[q].resp = "ok" =>
    LET u == req[q].token IN
    /\ u \in Accounts
    /\ users[u].email = req[q].cmd.email
    /\ users[u].password = req[q].cmd.password

\* Whoever registered before the login came in is let in with the password and
\* the normalised address, however either was spelled at registration.
RefusedForAReason ==
  \A q \in Request : req[q].op = "login" /\ req[q].resp = "unauthorized" =>
    \/ req[q].cmd.spelling = "other"
    \/ \A u \in req[q].known :
         \/ users[u].email # req[q].cmd.email
         \/ users[u].password # req[q].cmd.password
=============================================================================
