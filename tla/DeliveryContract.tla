-------------------------- MODULE DeliveryContract --------------------------
(***************************************************************************)
(* What the outbox promises to the service that saves messages in it: a    *)
(* message that was accepted is handed to a topic at least once and then   *)
(* confirmed, or it is abandoned after MaxAttempts failed deliveries (one  *)
(* of which may have reached a topic unnoticed), and nothing happens to it *)
(* afterwards.                                                             *)
(***************************************************************************)
EXTENDS Naturals

CONSTANTS Msg, MaxAttempts

VARIABLES
  state,  \* "absent", "pending", "confirmed" or "abandoned"
  out,    \* messages handed to a topic
  tries   \* failed deliveries, counted up to MaxAttempts

vars == <<state, out, tries>>

Init ==
  /\ state = [m \in Msg |-> "absent"]
  /\ out = {}
  /\ tries = [m \in Msg |-> 0]

Accept(m) ==
  /\ state[m] = "absent"
  /\ state' = [state EXCEPT ![m] = "pending"]
  /\ UNCHANGED <<out, tries>>

\* May happen more than once: delivery is at least once.
HandOver(m) ==
  /\ state[m] = "pending"
  /\ out' = out \cup {m}
  /\ UNCHANGED <<state, tries>>

\* A failed delivery may have handed the message over all the same.
Fail(m) ==
  /\ state[m] = "pending"
  /\ tries[m] < MaxAttempts
  /\ tries' = [tries EXCEPT ![m] = @ + 1]
  /\ out' \in {out, out \cup {m}}
  /\ UNCHANGED state

Confirm(m) ==
  /\ state[m] = "pending"
  /\ m \in out
  /\ state' = [state EXCEPT ![m] = "confirmed"]
  /\ UNCHANGED <<out, tries>>

Abandon(m) ==
  /\ state[m] = "pending"
  /\ tries[m] = MaxAttempts
  /\ state' = [state EXCEPT ![m] = "abandoned"]
  /\ UNCHANGED <<out, tries>>

Next == \E m \in Msg :
  Accept(m) \/ HandOver(m) \/ Fail(m) \/ Confirm(m) \/ Abandon(m)

Spec == Init /\ [][Next]_vars
=============================================================================
