--------------------------- MODULE OutboxContract ---------------------------
(* Outbox implements DeliveryContract: as a whole while no job outlives the *)
(* reclaim window, and for every message until one of its own jobs does.    *)
EXTENDS Outbox

\* What the contract calls the state of a row.
Outcome(m) == CASE status[m] = "processed" -> "confirmed"
                [] status[m] = "exhausted" -> "abandoned"
                [] OTHER -> status[m]

Contract == INSTANCE DeliveryContract WITH
  state <- [m \in Msg |-> Outcome(m)],
  out   <- sent \cup parked,
  tries <- failures

\* Rows, topics and the pool together behave like the contract: a row is
\* confirmed only once its message is out, is abandoned only after MaxAttempts
\* failures, and nothing touches it after that.
ImplementsContract == Contract!Spec

\* The contract of some of the messages, whatever the others do.
Of(M) == INSTANCE DeliveryContract WITH
  Msg   <- M,
  state <- [m \in M |-> Outcome(m)],
  out   <- (sent \cup parked) \cap M,
  tries <- [m \in M |-> failures[m]]

StepKeepsContract ==
  \A M \in SUBSET (Msg \ overrun) : [Of(M)!Next]_(Of(M)!vars)

\* A job that outlives the reclaim window breaks the promise to its own message
\* only: a step keeps the contract of all that have not been overrun so far.
OthersKeepContract == [][StepKeepsContract]_vars
=============================================================================
