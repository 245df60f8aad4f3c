-------------------------- MODULE MCWarehouseExpense --------------------------
(* WarehouseExpense for TLC. *)
EXTENDS WarehouseExpense, TLC

CONSTANTS r1, r2

\* Two rows at two locations.
MCRows == {r1, r2}
MCLocationOf == [r \in MCRows |-> r]

\* Handlers are interchangeable, and so are rows when each is its own location.
Symmetry == Permutations(Procs) \cup Permutations(MCRows)

==============================================================================
