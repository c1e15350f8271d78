------------------------------- MODULE Backoff -------------------------------
(***************************************************************************)
(* The delay before a failed message may be claimed again: the loop of     *)
(* Poller.backoff (internal/outbox/poller.go), in the integers of          *)
(* time.Duration, which wrap around.                                       *)
(***************************************************************************)
EXTENDS Integers

CONSTANTS
  Limit,        \* durations are -Limit..(Limit - 1); 2^63 nanoseconds
  MaxBackoff,   \* _maxBackoff, five minutes
  MaxAttempts   \* OUTBOX_MAX_ATTEMPTS

ASSUME BackoffAssumption ==
  /\ Limit \in Nat /\ MaxBackoff \in Nat \ {0} /\ MaxAttempts \in Nat
  /\ 2 * MaxBackoff <= Limit

VARIABLES
  interval,  \* Poller.interval; NewTicker refuses one that is not positive
  attempts,  \* the argument
  i,         \* iterations of the loop so far
  d,         \* the delay in the making
  pc         \* loop, or return with d as the result

vars == <<interval, attempts, i, d, pc>>

Wrap(x) == ((x + Limit) % (2 * Limit)) - Limit

\* The power of two that the comment of backoff promises.
Pow2[n \in Nat] == IF n = 0 THEN 1 ELSE 2 * Pow2[n - 1]

Init ==
  /\ interval \in 1..(Limit - 1)
  /\ attempts \in 1..MaxAttempts
  /\ i = 0 /\ d = interval /\ pc = "loop"

\* Mutant of Iterate: it doubles first and looks at the cap afterwards.
IterateLate ==
  /\ pc = "loop" /\ i < attempts
  /\ i' = i + 1
  /\ d' = Wrap(2 * d)
  /\ pc' = "loop"
  /\ UNCHANGED <<interval, attempts>>

\* One iteration: at the cap return it, otherwise double.
Iterate ==
  /\ pc = "loop" /\ i < attempts
  /\ IF d >= MaxBackoff
     THEN d' = MaxBackoff /\ pc' = "return" /\ i' = i
     ELSE d' = Wrap(2 * d) /\ pc' = "loop" /\ i' = i + 1
  /\ UNCHANGED <<interval, attempts>>

\* Mutant of Return: the cap is forgotten after the loop.
ReturnUncapped ==
  /\ pc = "loop" /\ i = attempts
  /\ pc' = "return"
  /\ UNCHANGED <<interval, attempts, i, d>>

Return ==
  /\ pc = "loop" /\ i = attempts
  /\ d' = IF d < MaxBackoff THEN d ELSE MaxBackoff
  /\ pc' = "return"
  /\ UNCHANGED <<interval, attempts, i>>

Next == Iterate \/ Return

Spec == Init /\ [][Next]_vars

-----------------------------------------------------------------------------
(* Properties                                                              *)

\* Every variable has its type: d is a duration.
TypeOK ==
  /\ interval \in 1..(Limit - 1)
  /\ attempts \in 1..MaxAttempts
  /\ i \in 0..attempts
  /\ d \in (-Limit)..(Limit - 1)
  /\ pc \in {"loop", "return"}

\* No wrapped value is ever the delay: it is positive, so that a failed message
\* is never due at once, and at most the cap, so that it is due in the end.
DelayBounded ==
  /\ d > 0
  /\ pc = "return" => d <= MaxBackoff

\* The result is interval * 2^attempts, capped (poller.go:119): the loop may
\* stop early only where the exact product is past the cap as well.
Exact ==
  pc = "return" =>
    d = IF interval * Pow2[attempts] < MaxBackoff
        THEN interval * Pow2[attempts] ELSE MaxBackoff
=============================================================================
