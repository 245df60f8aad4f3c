----------------------------- MODULE MCWarehouse -----------------------------
(***************************************************************************)
(* The parts of Warehouse with two handlers, one good, three structures of *)
(* which two keep a stock, and two places.                                 *)
(***************************************************************************)
EXTENDS Warehouse, TLC

\* Handlers and places are interchangeable.
Symmetry == Permutations(Procs) \cup Permutations(Places)

=============================================================================
