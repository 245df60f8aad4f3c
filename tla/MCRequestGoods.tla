---------------------------- MODULE MCRequestGoods ----------------------------
(* Model checking of RequestGoods: two goods, one of them two pieces. *)
EXTENDS RequestGoods, TLC

CONSTANTS paper, ink

Asked == paper :> 2 @@ ink :> 1

==============================================================================
