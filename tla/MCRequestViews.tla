--------------------------- MODULE MCRequestViews ---------------------------
(* Model checking of RequestViews: symmetry of its uninterpreted sets. *)
EXTENDS RequestViews, TLC

Symmetry == Permutations(Users) \cup Permutations(Lines) \cup Permutations(Batches)

==============================================================================
