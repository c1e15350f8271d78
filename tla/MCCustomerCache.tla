--------------------------- MODULE MCCustomerCache ---------------------------
(* Small instances of CustomerCache for TLC.  Most runs check temporal properties,
   for which TLC's symmetry reduction is unsound, so none is declared. *)
EXTENDS CustomerCache
==============================================================================
