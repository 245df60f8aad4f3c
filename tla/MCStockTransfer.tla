--------------------------- MODULE MCStockTransfer ---------------------------
(* StockTransfer for TLC. *)
EXTENDS StockTransfer, TLC

\* Handlers, goods and transfers are interchangeable.
Symmetry ==
  Permutations(Procs) \cup Permutations(Goods) \cup Permutations(TransferIds)

==============================================================================
