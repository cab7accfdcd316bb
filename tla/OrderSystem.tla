---------------------------- MODULE OrderSystem -----------------------------
(***************************************************************************)
(* The order path as a whole: CreateOrder, PayOrder and CancelOrder calls, *)
(* the relays, and sellers, all over the same two databases.  The units of *)
(* a line can come back on two roads, the compensation of a CreateOrder    *)
(* that failed and the restore message of an order that was cancelled;     *)
(* what matters is that only one of them is ever taken.                    *)
(***************************************************************************)
EXTENDS OrderSaga, CancelFlow

CONSTANTS
  NoForm,      \* no edit form was opened yet
  Extras,      \* what a seller may add to the stock that the form shows
  MaxUpdates   \* bound on the updates of a behaviour

ASSUME SellerAssumption == Extras \subseteq Int /\ MaxUpdates \in Nat

VARIABLES
  form,        \* form[p]: the stock that the seller's edit form of p was filled with
  updates,     \* how many updates took effect
  declared,    \* history: what sellers meant to add to the stock of p
  noted,       \* history: units of p that were set aside when its form was filled
  overwritten, \* history: units of p set aside while a form was open that was saved
  lowest       \* history: the lowest stock of p that a seller wrote, at most 0

sellerVars == <<form, updates, declared, noted, overwritten, lowest>>
orderVars == <<storeVars, sagaVars, task, relayVars>>
systemVars == <<stockVars, orderVars, sellerVars>>

FormTypeOK ==
  /\ form \in [Products -> Int \cup {NoForm}] /\ updates \in Nat
  /\ declared \in [Products -> Int] /\ lowest \in [Products -> Int]

CountTypeOK == noted \in [Products -> Int] /\ overwritten \in [Products -> Int]

SellerTypeOK == FormTypeOK /\ CountTypeOK

SystemTypeOK == FlowTypeOK /\ SagaTypeOK /\ SellerTypeOK

Least(a, b) == IF a < b THEN a ELSE b

SellerInit ==
  /\ form = [p \in Products |-> NoForm] /\ updates = 0
  /\ declared = [p \in Products |-> 0] /\ noted = declared /\ overwritten = declared
  /\ lowest = [p \in Products |-> Least(0, InitialStock[p])]

SystemInit ==
  StockInit /\ StoreInit /\ SagaInit /\ LifecycleInit /\ RelayInit /\ SellerInit

\* The units of product p that the lines are about, one by one: a line of quantity q
\* has the units 1 to q.
UnitsAmong(lines, p) ==
  UNION {{l} \X (1..QtyOf(l)) : l \in {k \in lines : ProductOf(k) = p}}

Units(lines, p) == Cardinality(UnitsAmong(lines, p))

\* Whether the units of a line are on the shelf, deducted, or deducted and given back.
UnitsOf(l) ==
  IF returned[l] > 0 THEN "back" ELSE IF taken[l] > 0 THEN "aside" ELSE "free"

AsideLines == {l \in Lines : UnitsOf(l) = "aside"}

\* The form is filled with the whole product, and saved as a whole.
OpenForm(p) ==
  /\ p \in listed /\ updates < MaxUpdates
  /\ form' = [form EXCEPT ![p] = stock[p]]
  /\ noted' = [noted EXCEPT ![p] = Units(AsideLines, p)]
  /\ UNCHANGED <<stockVars, updates, declared, overwritten, lowest>>

\* Any number is accepted, a negative one too.  Without the row it is answered NotFound
\* and changes nothing.
UpdateProduct(p, extra) ==
  /\ form[p] # NoForm /\ updates < MaxUpdates
  /\ UpdateStock(p, form[p] + extra)
  /\ updates' = updates + 1
  /\ declared' = [declared EXCEPT ![p] = @ + extra]
  /\ overwritten' = [overwritten EXCEPT ![p] = @ + Units(AsideLines, p) - noted[p]]
  /\ lowest' = [lowest EXCEPT ![p] = Least(@, form[p] + extra)]
  /\ form' = [form EXCEPT ![p] = NoForm]
  /\ noted' = [noted EXCEPT ![p] = 0]

SystemNext ==
  \/ /\ \/ SagaNext /\ UNCHANGED <<task, relayVars>>
        \/ LifecycleNext /\ UNCHANGED <<stockVars, sagaVars, relayVars>>
        \/ RelayNext /\ UNCHANGED <<sagaVars, task>>
        \/ \E p \in Products : DeleteProduct(p) /\ UNCHANGED orderVars
     /\ UNCHANGED sellerVars
  \/ \E p \in Products :
       /\ OpenForm(p) \/ \E extra \in Extras : UpdateProduct(p, extra)
       /\ UNCHANGED orderVars

SystemSpec == SystemInit /\ [][SystemNext]_systemVars
-----------------------------------------------------------------------------
\* The two databases keep the promise of the reservation ledger: read from what was
\* deducted and given back, every step is one of its steps.
Ledger == INSTANCE ReservationLedger WITH
  Supply <- InitialStock, shelf <- stock,
  units <- [l \in Lines |-> UnitsOf(l)], status <- orders, edits <- updates

ImplementsLedger == Ledger!LedgerSpec
=============================================================================
