------------------------------ MODULE MCOutbox ------------------------------
(* Small instances of Outbox for TLC.                                      *)
EXTENDS OutboxContract, TLC

CONSTANT MaxBackoff

\* interval * 2^attempts, capped, in poll intervals.
MCBackoff ==
  [n \in 1..MaxAttempts |-> IF 2^n < MaxBackoff THEN 2^n ELSE MaxBackoff]

Symmetry == Permutations(Replica) \cup Permutations(Worker)
=============================================================================
