--------------------------- MODULE MCOrderSystem ----------------------------
(***************************************************************************)
(* Small instances of OrderSystem: two orders of one line that compete for *)
(* the last units of a product, with calls that pay or cancel them.        *)
(***************************************************************************)
EXTENDS StockAccounting, TLC

CONSTANTS r1, r2, p1

MCCart ==
  (r1 :> << [product |-> p1, qty |-> 1] >>) @@ (r2 :> << [product |-> p1, qty |-> 1] >>)
MCStock == p1 :> 1
MCExtras == {-1, 0, 1}
NoCorruption == {}
Symmetry == Permutations(Handlers) \cup Permutations(Requests)
=============================================================================
