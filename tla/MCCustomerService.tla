-------------------------- MODULE MCCustomerService --------------------------
(* Small instances of CustomerService for TLC.  Most runs check temporal properties,
   for which TLC's symmetry reduction is unsound, so none is declared. *)
EXTENDS CustomerService

\* What NobodyStuck calls a request that can move is one whose step is enabled.
GuardIsEnabled ==
  \A q \in Request : Active(q) => (CanMove(q) <=> ENABLED Advance(q))
==============================================================================
