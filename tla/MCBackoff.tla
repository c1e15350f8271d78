------------------------------ MODULE MCBackoff ------------------------------
(* Durations of eight bits for TLC. *)
EXTENDS Backoff

\* The reference of Exact, written as a recursion so that it can be reasoned
\* about, is the power that poller.go:119 writes.
ASSUME Pow2IsThePower == \A n \in 0..MaxAttempts : Pow2[n] = 2^n
==============================================================================
