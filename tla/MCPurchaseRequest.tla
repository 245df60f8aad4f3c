-------------------------- MODULE MCPurchaseRequest --------------------------
(* Model checking of PurchaseRequest: symmetry of its uninterpreted sets. *)
EXTENDS PurchaseRequest, TLC

Symmetry ==
  Permutations(Users) \cup Permutations(Contents)
    \cup Permutations(Lines) \cup Permutations(Batches)

==============================================================================
