---------------------------- MODULE MCOrderSaga -----------------------------
(***************************************************************************)
(* Small instance of OrderSaga: two calls that compete for the last units  *)
(* of p1, one of them with two lines.                                      *)
(***************************************************************************)
EXTENDS OrderSaga, TLC

CONSTANTS r1, r2, p1, p2

MCCart ==
  (r1 :> << [product |-> p2, qty |-> 1], [product |-> p1, qty |-> 2] >>)
  @@ (r2 :> << [product |-> p1, qty |-> 1] >>)
MCStock == (p1 :> 2) @@ (p2 :> 1)
=============================================================================
