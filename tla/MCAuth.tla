------------------------------- MODULE MCAuth -------------------------------
(* Small instances of Auth and of the API behind it for TLC.               *)
EXTENDS ProtectedApi, TLC

\* The initial state and the steps treat requests, addresses, passwords, calls
\* and customers alike.
Symmetry ==
  Permutations(Request) \cup Permutations(Email) \cup Permutations(Password)
    \cup Permutations(Call) \cup Permutations(Customer)
=============================================================================
