-------------------------- MODULE MCProductCatalog --------------------------
(* Small instances of ProductListing, and of the ProductCatalog under it,  *)
(* for TLC.                                                                *)
EXTENDS ProductListing

\* All products, or those whose details some old product still has.
Filters == {Id, Old}

\* The initial states and the steps treat requests, products and SKUs alike.
Symmetry ==
  Permutations(Request) \cup Permutations(Old) \cup Permutations(Sku)
=============================================================================
