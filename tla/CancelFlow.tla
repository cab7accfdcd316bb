----------------------------- MODULE CancelFlow -----------------------------
(***************************************************************************)
(* Paying and cancelling orders that exist already, together with the      *)
(* outbox relays that bring the stock of the cancelled ones back.          *)
(***************************************************************************)
EXTENDS OrderLifecycle, OutboxRelay

flowVars == <<stockVars, storeVars, task, relayVars>>

\* Every order has been placed: its lines were deducted once each.
PlacedInit ==
  /\ stock = InitialStock
  /\ listed = Products
  /\ restored = {}
  /\ taken = [l \in Lines |-> 1]
  /\ returned = [l \in Lines |-> 0]
  /\ orders = [r \in Requests |-> "PENDING"]
  /\ outbox = [m \in Messages |-> NoRow]
  /\ nextId = 1
  /\ LifecycleInit
  /\ RelayInit

FlowTypeOK == StockTypeOK /\ StoreTypeOK /\ LifecycleTypeOK /\ RelayTypeOK

FlowNext ==
  \/ LifecycleNext /\ UNCHANGED <<stockVars, relayVars>>
  \/ RelayNext /\ UNCHANGED task
  \/ \E p \in Products : DeleteProduct(p) /\ UNCHANGED <<storeVars, task, relayVars>>

\* The ticker of every live replica fires for ever, a call to product-service ends
\* in an answer or a timeout, and clocks reach next_retry_at.  Nothing is assumed
\* of shoppers and sellers, of faults, or of calls abandoned earlier.
RelayFairness ==
  /\ \A w \in Workers : WF_flowVars(Claim(w) /\ UNCHANGED task)
  /\ \A w \in Workers : WF_flowVars(SessionStep(w) /\ UNCHANGED task)
  /\ \A m \in Messages : WF_flowVars(BackoffExpires(m) /\ UNCHANGED task)

FlowSpec == PlacedInit /\ [][FlowNext]_flowVars /\ RelayFairness
-----------------------------------------------------------------------------
\* Cancelling brings the units back: for every line of a cancelled order, whatever
\* the relays' sessions suffer, either the stock is restored or the message ends up
\* as a dead letter for an operator; no message is left behind for ever.
CancelledStockComesBack ==
  \A o \in Requests : \A l \in LinesOf(o) :
    orders[o] = "CANCELLED" ~>
      \E h \in Handlers : Seen(<<h, l>>) \/ outbox[<<h, l>>].status = "DEAD"

\* Every queued row reaches a final state: SENT or DEAD.
EveryRowSettles ==
  \A m \in Messages :
    outbox[m].status = "PENDING" ~> outbox[m].status \in {"SENT", "DEAD"}
=============================================================================
