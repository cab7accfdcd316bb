------------------------------ MODULE MCGateway ------------------------------
(***************************************************************************)
(* ann owns the product and the order.  r1 is any request she can make, or  *)
(* one that bob should not get through; r2 is one that can get in its way.  *)
(* After a reseed bob has the user id that was ann's.                       *)
(***************************************************************************)
EXTENDS Gateway

CONSTANTS ann, bob, r1, r2

MCAccounts == <<ann, bob>>
MCSeeded == <<bob>>
MCUses == [r \in Requests |->
    IF r = r1 THEN ({ann} \X Routes)
                     \cup ({bob} \X {"UpdateProduct", "PayOrder"})
    ELSE {<<ann, "DeleteProduct">>, <<ann, "CancelOrder">>, <<ann, "Login">>, <<bob, "CreateProduct">>}]
=============================================================================
