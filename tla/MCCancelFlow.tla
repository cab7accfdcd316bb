---------------------------- MODULE MCCancelFlow ----------------------------
(***************************************************************************)
(* Small instances of CancelFlow: one order of two lines, which several    *)
(* calls try to pay or cancel, and the relays of two replicas.             *)
(***************************************************************************)
EXTENDS CancelFlow, TLC

CONSTANTS r1, p1, h1

MCCart == r1 :> << [product |-> p1, qty |-> 2], [product |-> p1, qty |-> 1] >>
MCStock == p1 :> 0
NoCorruption == {}
FirstLineCorrupt == {<<h1, <<r1, 1>>>>}
Symmetry == Permutations(Handlers) \cup Permutations(Workers)
=============================================================================
