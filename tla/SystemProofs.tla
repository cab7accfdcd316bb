---------------------------- MODULE SystemProofs ----------------------------
(***************************************************************************)
(* The order path as a whole.  As long as no INSERT of an order was        *)
(* committed and reported failed, SystemInv holds, no line comes back      *)
(* twice, every step is a step of the reservation ledger and nothing is    *)
(* oversold; and whenever nothing is on its way and nothing was reported   *)
(* the books of the shop balance, such commits or not.                     *)
(***************************************************************************)
EXTENDS OrderProofs, StockAccounting

USE DEF FlowTypeOK, StockTypeOK, StoreTypeOK, SagaTypeOK, LifecycleTypeOK, RelayTypeOK,
        Queued, Seen

\* As long as no commit was reported failed, an order is there exactly when its call
\* succeeded, and its units stay away as long as it stands.
LEMMA WrittenByItsCall ==
  ASSUME CommitsKnown, SagaInv
  PROVE  /\ \A r \in Requests : orders[r] # "none" <=> pc[r] = "created"
         /\ StandingLines
<1>1. \A r \in Requests : orders[r] # "none" <=> pc[r] = "created"
  BY DEF CommitsKnown, SagaInv, OrderWritten
<1> QED BY <1>1 DEF SagaInv, CreatedLines, StandingLines

\* What a step of CreateOrder does to the tables of the other calls: it restores no
\* message, gives back only lines of requests without an order, and may open an order.
LEMMA SagaEffect ==
  ASSUME CommitsKnown, SystemInv, SagaNext
  PROVE  /\ restored' = restored
         /\ \A l \in Lines : orders[l[1]] # "none" => returned'[l] = returned[l]
         /\ \/ UNCHANGED storeVars
            \/ \E q \in Requests : orders[q] = "none" /\ CreateRow(q)
<1>1. SagaInv /\ StockTypeOK /\ StoreTypeOK
  BY DEF SystemInv, FlowInv
<1>2. ASSUME NEW l \in Lines, NEW op \in Calling, NEW outcome \in Outcomes,
             Execute(op, l, outcome), op = "compensate" => orders[l[1]] = "none"
      PROVE  /\ restored' = restored
             /\ \A x \in Lines : orders[x[1]] # "none" => returned'[x] = returned[x]
  <2>1. CASE op = "deduct"
    <3>1. DeductStock(l, outcome)
      BY <1>2, <2>1 DEF Execute
    <3> QED BY <1>1, <3>1, DeductEffect
  <2>2. CASE op = "compensate"
    <3>1. RestoreStock(l, outcome)
      BY <1>2, <2>2 DEF Execute
    <3>2. restored' = restored /\ (returned' = returned \/ returned' = [returned EXCEPT ![l] = @ + 1])
      BY <1>1, <3>1, RestoreEffect
    <3> QED BY <1>1, <1>2, <2>2, <3>2
  <2> QED BY <2>1, <2>2 DEF Calling
<1>3. ASSUME NEW q \in Requests, ServerExecutes(q)
      PROVE  /\ restored' = restored /\ UNCHANGED storeVars
             /\ \A x \in Lines : orders[x[1]] # "none" => returned'[x] = returned[x]
  <2>1. PICK outcome \in Outcomes : Execute(pc[q], Current(q), outcome)
    BY <1>3 DEF ServerExecutes
  <2>2. pc[q] \in Calling /\ UNCHANGED storeVars
    BY <1>3 DEF ServerExecutes
  <2>3. Current(q) \in Lines /\ Current(q)[1] = q
    BY <1>1, <2>2, CurrentIsLine DEF Calling
  <2>4. orders[q] = "none"
    BY <1>1, <2>2, WrittenByItsCall DEF SagaInv, Calling
  <2> QED BY <1>2, <2>1, <2>2, <2>3, <2>4
<1>4. ASSUME NEW op \in Calling, NEW l \in Lines, OrphanExecutes(op, l)
      PROVE  /\ restored' = restored /\ UNCHANGED storeVars
             /\ \A x \in Lines : orders[x[1]] # "none" => returned'[x] = returned[x]
  <2>1. PICK outcome \in Outcomes : Execute(op, l, outcome)
    BY <1>4 DEF OrphanExecutes
  <2>2. <<op, l>> \in orphans /\ UNCHANGED storeVars
    BY <1>4 DEF OrphanExecutes
  <2>3. op = "compensate" => orders[l[1]] = "none"
    BY <1>1, <2>2, LineIs, WrittenByItsCall DEF SagaInv, OrphanedCompensations
  <2> QED BY <1>2, <2>1, <2>2, <2>3
<1>5. ASSUME NEW q \in Requests, Begin(q) \/ Progress(q) \/ ExpireCtx(q) \/ Crash(q),
             ~ServerExecutes(q)
      PROVE  UNCHANGED stockVars
  BY <1>5 DEF Begin, Progress, Call, ServerAnswers, Abandon, RecordDeducted, DeductFails,
     PersistOrder, PersistFails, CompensateNext, ExpireCtx, Crash
<1>6. ASSUME NEW q \in Requests, Begin(q) \/ Progress(q) \/ ExpireCtx(q) \/ Crash(q)
      PROVE  UNCHANGED storeVars \/ (orders[q] = "none" /\ CreateRow(q))
  <2>1. UNCHANGED storeVars \/ (pc[q] = "persist" /\ CreateRow(q))
    BY <1>6
    DEF Begin, Progress, Call, ServerExecutes, ServerAnswers, Abandon, RecordDeducted,
        DeductFails, PersistOrder, PersistFails, CompensateNext, ExpireCtx, Crash
  <2> QED BY <1>1, <2>1 DEF SagaInv, OrderWritten
<1> QED BY <1>3, <1>4, <1>5, <1>6 DEF SagaNext, stockVars

\* CreateOrder leaves the promises about outbox, relays and deduplication alone.
LEMMA SagaKeepsFlow ==
  ASSUME CommitsKnown, SystemInv, SagaNext, UNCHANGED <<task, relayVars>>
  PROVE  FlowInv'
<1>1. /\ restored' = restored /\ UNCHANGED <<outbox, nextId>>
      /\ \A l \in Lines : orders[l[1]] # "none" => returned'[l] = returned[l]
      /\ \A r \in Requests : orders'[r] = "CANCELLED" <=> orders[r] = "CANCELLED"
  BY SagaEffect DEF SystemInv, FlowInv, CreateRow, storeVars
<1>2. UNCHANGED <<claim, todo, mark, current, send, stragglers, deadLogged, faults>>
  BY DEF relayVars
<1>3. StockTypeOK' /\ StoreTypeOK'
  BY SagaNextKeepsSaga DEF SystemInv, FlowInv
<1>4. FlowTypeOK'
  BY <1>2, <1>3 DEF SystemInv, FlowInv
<1>5. OneCanceller' /\ WholeBatch' /\ DeadOnlyWhenExhausted'
  BY <1>1, MessageIs DEF SystemInv, FlowInv, OneCanceller, WholeBatch, DeadOnlyWhenExhausted
<1>6. OnlyQueued' /\ LoopVariable' /\ LockedRows' /\ DeliveredApplied'
  BY <1>1, <1>2
  DEF SystemInv, FlowInv, OnlyQueued, LoopVariable, LockedRows, DeliveredApplied, SentMeansApplied
<1>7. RestoredLines'
  BY <1>1, LineIs DEF SystemInv, FlowInv, RestoredLines
<1> QED BY <1>4, <1>5, <1>6, <1>7 DEF FlowInv

\* Steps that leave the calls of CreateOrder alone, keep orders written or unwritten,
\* and touch no unit of a line without an order, keep SagaInv.
LEMMA OthersKeepSaga ==
  ASSUME CommitsKnown, SystemInv, UNCHANGED sagaVars, taken' = taken, StandingLines',
         \A r \in Requests : orders'[r] = "none" <=> orders[r] = "none",
         \A l \in Lines : orders[l[1]] = "none" => returned'[l] = returned[l]
  PROVE  SagaInv'
<1>1. UNCHANGED <<pc, got, undone, rpc, ctxDone, cause, logged, orphans>>
  BY DEF sagaVars
<1>2. SagaTypeOK' /\ CallShape' /\ OrderWritten'
  BY <1>1 DEF SystemInv, SagaInv, CallShape, OrderWritten
<1>3. OrphanedDeductions' /\ TakenLines'
  BY <1>1 DEF SystemInv, SagaInv, OrphanedDeductions, TakenLines
<1>4. OrphanedCompensations'
  <2> SUFFICES ASSUME NEW r \in Requests, NEW k \in DOMAIN Cart[r],
                      <<"compensate", <<r, k>>>> \in orphans
               PROVE  OrphanedCompensations!(r)!(k)'
    BY <1>1 DEF OrphanedCompensations
  <2>1. OrphanedCompensations!(r)!(k)
    BY DEF SystemInv, SagaInv, OrphanedCompensations
  <2>2. orders[r] = "none"
    BY <2>1, WrittenByItsCall DEF SystemInv, SagaInv
  <2>3. returned'[<<r, k>>] = returned[<<r, k>>]
    BY <2>2, LineIs
  <2> QED BY <1>1, <2>1, <2>3
<1>5. ReturnedLines'
  <2> SUFFICES ASSUME NEW r \in Requests, NEW k \in DOMAIN Cart[r], pc[r] # "created"
               PROVE  ReturnedLines!(r)!(k)'
    BY <1>1 DEF ReturnedLines
  <2>1. ReturnedLines!(r)!(k)
    BY DEF SystemInv, SagaInv, ReturnedLines
  <2>2. returned'[<<r, k>>] = returned[<<r, k>>]
    BY LineIs, WrittenByItsCall DEF SystemInv
  <2> QED BY <1>1, <2>1, <2>2
<1>6. CreatedLines'
  BY DEF StandingLines, CreatedLines
<1> QED BY <1>2, <1>3, <1>4, <1>5, <1>6 DEF SagaInv

\* A seller's form and its update move nothing but the stock and the seller's books.
LEMMA UpdateEffect ==
  ASSUME SystemInv, NEW p \in Products,
         OpenForm(p) \/ \E extra \in Extras : UpdateProduct(p, extra)
  PROVE  /\ UNCHANGED <<listed, restored, taken, returned>>
         /\ stock' \in [Products -> Int]
         /\ \A q \in Products \ {p} : stock'[q] = stock[q]
         /\ FormTypeOK'
         /\ (stock' = stock /\ updates' = updates) \/ updates' = updates + 1
<1>1. stock \in [Products -> Int] /\ FormTypeOK
  BY DEF SystemInv, FlowInv
<1>2. CASE OpenForm(p)
  <2>1. form' \in [Products -> Int \cup {NoForm}]
    BY <1>1, <1>2 DEF OpenForm, FormTypeOK
  <2> QED BY <1>1, <1>2, <2>1 DEF OpenForm, stockVars, FormTypeOK
<1>3. CASE \E extra \in Extras : UpdateProduct(p, extra)
  <2>1. PICK extra \in Extras : UpdateProduct(p, extra)
    BY <1>3
  <2>2. extra \in Int /\ form[p] \in Int
    BY <1>1, <2>1, SellerAssumption DEF UpdateProduct, FormTypeOK
  <2>3. /\ stock' = [stock EXCEPT ![p] = form[p] + extra]
        /\ UNCHANGED <<listed, restored, taken, returned>> /\ updates' = updates + 1
    BY <2>1 DEF UpdateProduct, UpdateStock
  <2>4. form' \in [Products -> Int \cup {NoForm}] /\ updates' \in Nat
    BY <1>1, <2>1, <2>3 DEF UpdateProduct, FormTypeOK
  <2>5. declared' \in [Products -> Int]
    BY <1>1, <2>1, <2>2 DEF UpdateProduct, FormTypeOK
  <2>6. lowest' \in [Products -> Int]
    BY <1>1, <2>1, <2>2 DEF UpdateProduct, FormTypeOK, Least
  <2>7. FormTypeOK'
    BY <2>4, <2>5, <2>6 DEF FormTypeOK
  <2>8. stock' \in [Products -> Int] /\ \A q \in Products \ {p} : stock'[q] = stock[q]
    BY <1>1, <2>2, <2>3
  <2> QED BY <2>3, <2>7, <2>8
<1> QED BY <1>2, <1>3

\* A written order without a successful call is one whose commit was reported failed,
\* also when it is paid, cancelled or compensated later.
CommitShape ==
  /\ OrderWritten
  /\ pc = [r \in Requests |-> pc[r]]
  /\ cause = [r \in Requests |-> cause[r]]
  /\ orders = [r \in Requests |-> orders[r]]

\* One step of a CreateOrder call as the order's row sees it.
LEMMA CallKeepsCommits ==
  ASSUME CommitShape, NEW q \in Requests,
         Begin(q) \/ Progress(q) \/ ExpireCtx(q) \/ Crash(q)
  PROVE  CommitShape' /\ (CommitsKnown' => CommitsKnown)
<1>1. /\ pc = [r \in Requests |-> pc[r]] /\ cause = [r \in Requests |-> cause[r]]
      /\ orders = [r \in Requests |-> orders[r]]
  BY DEF CommitShape
<1>2. /\ pc' = [r \in Requests |-> pc'[r]] /\ cause' = [r \in Requests |-> cause'[r]]
      /\ orders' = [r \in Requests |-> orders'[r]]
      /\ \A r \in Requests : r # q =>
           pc'[r] = pc[r] /\ cause'[r] = cause[r] /\ orders'[r] = orders[r]
  BY <1>1
  DEF Begin, Progress, Call, ServerExecutes, ServerAnswers, Abandon, RecordDeducted, DeductFails,
      PersistOrder, PersistFails, CompensateNext, ExpireCtx, Crash, CreateRow, storeVars
<1>3. \/ pc'[q] = pc[q] /\ cause'[q] = cause[q] /\ orders'[q] = orders[q]
      \/ /\ pc[q] \in {"idle", "deduct", "persist"}
         /\ pc'[q] \in {"deduct", "persist", "compensate", "failed"}
         /\ orders'[q] = orders[q]
      \/ pc[q] = "persist" /\ pc'[q] = "created" /\ orders'[q] = "PENDING"
      \/ /\ pc[q] = "persist" /\ pc'[q] \in {"compensate", "failed"}
         /\ CommitUnknown /\ orders'[q] = "PENDING" /\ cause'[q] = "err"
      \/ /\ pc[q] \in {"deduct", "persist", "compensate"}
         /\ pc'[q] \in {"compensate", "failed", "crashed"}
         /\ cause'[q] = cause[q] /\ orders'[q] = orders[q]
  BY <1>1
  DEF Begin, Progress, Call, ServerExecutes, ServerAnswers, Abandon, RecordDeducted, DeductFails,
      PersistOrder, PersistFails, CompensateNext, ExpireCtx, Crash, CreateRow, storeVars,
      AfterFailure, Running, Calling
<1>4. \A r \in Requests : OrderWritten!(r)
  BY DEF CommitShape, OrderWritten
<1>5. ASSUME NEW r \in Requests
      PROVE  OrderWritten!(r)' /\ ((orders'[r] # "none" => pc'[r] = "created")
                                    => (orders[r] # "none" => pc[r] = "created"))
  BY <1>2, <1>3, <1>4
<1> QED BY <1>2, <1>5 DEF CommitShape, CommitsKnown, OrderWritten

\* Every step of the order path as the orders' rows see it: a doubt is never dispelled.
LEMMA StepKeepsCommits ==
  ASSUME CommitShape, [SystemNext]_systemVars
  PROVE  CommitShape' /\ (CommitsKnown' => CommitsKnown)
<1>1. ASSUME UNCHANGED <<pc, cause>>, orders' = [r \in Requests |-> orders'[r]],
             \A r \in Requests : orders'[r] = "none" <=> orders[r] = "none"
      PROVE  CommitShape' /\ (CommitsKnown' => CommitsKnown)
  BY <1>1 DEF CommitShape, OrderWritten, CommitsKnown
<1>2. CASE SagaNext
  <2>1. ASSUME NEW op \in Calling, NEW l \in Lines, OrphanExecutes(op, l)
        PROVE  UNCHANGED <<pc, cause, orders>>
    BY <2>1 DEF OrphanExecutes, storeVars
  <2> QED BY <1>1, <1>2, <2>1, CallKeepsCommits DEF SagaNext, CommitShape
<1>3. CASE LifecycleNext /\ UNCHANGED sagaVars
  <2>1. orders' = [r \in Requests |-> orders'[r]]
    BY <1>3 DEF CommitShape, LifecycleNext, HandlerNext, Load, Pay, Cancel, Conflict,
       UpdateFails, UpdateStatus, CancelWithOutbox, storeVars
  <2>2. \A r \in Requests : orders'[r] = "none" <=> orders[r] = "none"
    BY <1>3 DEF CommitShape, LifecycleNext, HandlerNext, Load, Pay, Cancel, Conflict,
       UpdateFails, UpdateStatus, CancelWithOutbox, StatusIs, storeVars
  <2> QED BY <1>1, <1>3, <2>1, <2>2 DEF sagaVars
<1>4. CASE RelayNext /\ UNCHANGED sagaVars
  <2>1. orders' = orders
    BY <1>4
    DEF RelayNext, Claim, SessionStep, Discard, Send, Deliver, Reply, DeliveryTimeout,
        Delivered, NotDelivered, Close, TxLost, RelayCrash, LateDelivery, BackoffExpires,
        storeVars
  <2> QED BY <1>1, <1>4, <2>1 DEF sagaVars, CommitShape
<1>5. CASE UNCHANGED orderVars
  BY <1>1, <1>5 DEF orderVars, storeVars, sagaVars, CommitShape
<1> QED BY <1>2, <1>3, <1>4, <1>5 DEF SystemNext, systemVars

LEMMA CommitsHold == SystemSpec => []CommitShape
<1>1. SystemInit => CommitShape
  BY DEF SystemInit, SagaInit, StoreInit, CommitShape, OrderWritten
<1> QED BY <1>1, StepKeepsCommits, PTL DEF SystemSpec

\* Where commits are always reported truthfully there is never a doubt.
LEMMA TruthfulCommits ==
  ASSUME ~CommitUnknown
  PROVE  SystemSpec => []CommitsKnown
<1>1. CommitShape => CommitsKnown
  BY DEF CommitShape, OrderWritten, CommitsKnown
<1> QED BY <1>1, CommitsHold, PTL

\* The invariant of the whole order path, as long as no commit was reported failed.
LEMMA SystemHolds == SystemSpec => [](CommitsKnown => SystemInv)
<1>1. ASSUME SystemInit PROVE SystemInv
  <2>1. StockTypeOK /\ StoreTypeOK /\ SagaInv
    BY <1>1, SagaInitially DEF SystemInit
  <2>2. FlowInv
    BY <1>1, <2>1, FlowInitially DEF SystemInit, StockInit, StoreInit
  <2>3. FormTypeOK
    BY <1>1, StockAssumption DEF SystemInit, SellerInit, FormTypeOK, Least
  <2> QED BY <2>1, <2>2, <2>3 DEF SystemInv
<1>2. ASSUME CommitsKnown, SystemInv, [SystemNext]_systemVars PROVE SystemInv'
  <2> USE <1>2
  <2>0. StockTypeOK /\ StoreTypeOK /\ SagaInv /\ FlowInv /\ StandingLines
    BY WrittenByItsCall DEF SystemInv, FlowInv
  <2>9. ASSUME UNCHANGED sellerVars PROVE FormTypeOK'
    BY <2>9 DEF SystemInv, FormTypeOK, sellerVars
  <2>1. CASE SagaNext /\ UNCHANGED <<task, relayVars, sellerVars>>
    BY <2>0, <2>1, <2>9, SagaKeepsFlow, SagaNextKeepsSaga DEF SystemInv
  <2>2. CASE LifecycleNext /\ UNCHANGED <<stockVars, sagaVars, relayVars, sellerVars>>
    <3>1. FlowInv' /\ StandingLines'
      BY <2>0, <2>2, LifecycleKeepsFlow
    <3>2. \A r \in Requests : orders'[r] = "none" <=> orders[r] = "none"
      BY <2>0, <2>2
      DEF LifecycleNext, HandlerNext, Load, Pay, Cancel, Conflict, UpdateFails,
          UpdateStatus, CancelWithOutbox, StatusIs, storeVars, FlowInv
    <3> QED BY <2>0, <2>2, <2>9, <3>1, <3>2, OthersKeepSaga DEF SystemInv, stockVars
  <2>3. CASE RelayNext /\ UNCHANGED <<sagaVars, task, sellerVars>>
    <3>1. /\ FlowInv' /\ StandingLines' /\ taken' = taken
          /\ \A l \in Lines : orders[l[1]] # "CANCELLED" => returned'[l] = returned[l]
      BY <2>0, <2>3, RelayKeepsFlow
    <3>2. orders' = orders
      BY <2>3
      DEF RelayNext, Claim, SessionStep, Discard, Send, Deliver, Reply, DeliveryTimeout,
          Delivered, NotDelivered, Close, TxLost, RelayCrash, LateDelivery, BackoffExpires,
          storeVars
    <3> QED BY <2>0, <2>3, <2>9, <3>1, <3>2, OthersKeepSaga DEF SystemInv
  <2>4. CASE (\E p \in Products : DeleteProduct(p)) /\ UNCHANGED <<orderVars, sellerVars>>
    <3>1. UNCHANGED <<storeVars, sagaVars, task, relayVars>>
      BY <2>4 DEF orderVars
    <3>2. SellerNext
      BY <2>4, <3>1 DEF SellerNext
    <3> QED BY <2>0, <2>4, <2>9, <3>1, <3>2, SellerKeepsFlow, SellerKeepsSaga DEF SystemInv
  <2>5. CASE \E p \in Products :
               /\ OpenForm(p) \/ \E extra \in Extras : UpdateProduct(p, extra)
               /\ UNCHANGED orderVars
    <3>1. /\ UNCHANGED <<listed, restored, taken, returned, storeVars, sagaVars, task, relayVars>>
          /\ stock' \in [Products -> Int] /\ FormTypeOK'
      BY <2>5, UpdateEffect DEF orderVars
    <3>2. LifecycleTypeOK' /\ StockTypeOK'
      BY <2>0, <3>1 DEF FlowInv
    <3>3. FlowInv' /\ StandingLines'
      BY <2>0, <3>1, <3>2, IdleStoreKeepsFlow
    <3> QED BY <2>0, <3>1, <3>3, OthersKeepSaga DEF SystemInv, storeVars
  <2>6. CASE UNCHANGED systemVars
    <3>1. /\ UNCHANGED <<stock, listed, restored, taken, returned, storeVars, sagaVars, task, relayVars>>
          /\ UNCHANGED sellerVars
      BY <2>6 DEF systemVars, stockVars, orderVars
    <3>2. LifecycleTypeOK' /\ StockTypeOK'
      BY <2>0, <3>1 DEF FlowInv
    <3>3. FlowInv' /\ StandingLines'
      BY <2>0, <3>1, <3>2, IdleStoreKeepsFlow
    <3> QED BY <2>0, <2>9, <3>1, <3>3, OthersKeepSaga DEF SystemInv, storeVars
  <2> QED BY <2>1, <2>2, <2>3, <2>4, <2>5, <2>6 DEF SystemNext
<1>3. CommitShape /\ (CommitsKnown => SystemInv) /\ [SystemNext]_systemVars
        => (CommitsKnown => SystemInv)'
  BY <1>2, StepKeepsCommits
<1> QED BY <1>1, <1>3, CommitsHold, PTL DEF SystemSpec
-----------------------------------------------------------------------------
(* What it is for *)

\* Where the units of a line are: deducted for an order that is there, and given back
\* no more often than deducted.
LEMMA LineAccount ==
  ASSUME CommitsKnown, SystemInv, NEW l \in Lines
  PROVE  /\ taken[l] \in {0, 1} /\ returned[l] \in {0, 1} /\ returned[l] <= taken[l]
         /\ orders[l[1]] # "none" => taken[l] = 1
         /\ orders[l[1]] \in {"PENDING", "PAID"} => returned[l] = 0
<1>1. PICK r \in Requests : \E k \in DOMAIN Cart[r] : l = <<r, k>>
  BY LineIs
<1>2. PICK k \in DOMAIN Cart[r] : l = <<r, k>>
  BY <1>1
<1>3. taken[l] \in {0, 1} /\ (k <= got[r] => taken[l] = 1)
  BY <1>2 DEF SystemInv, SagaInv, TakenLines
<1>4. orders[r] # "none" => got[r] = Len(Cart[r])
  BY WrittenByItsCall DEF SystemInv, SagaInv, CallShape
<1>5. orders[r] # "none" => taken[l] = 1
  BY <1>3, <1>4, CartShape
<1>6. orders[r] = "none" => returned[l] \in {0, 1} /\ (k > got[r] => returned[l] = 0)
  BY <1>2, WrittenByItsCall DEF SystemInv, SagaInv, ReturnedLines
<1>7. orders[r] \in {"PENDING", "PAID"} => returned[l] = 0
  BY <1>2, WrittenByItsCall DEF SystemInv, StandingLines
<1>8. orders[r] = "CANCELLED" => returned[l] \in {0, 1}
  BY <1>2 DEF SystemInv, FlowInv, RestoredLines
<1>9. orders[r] \in OrderStates /\ got[r] \in Nat /\ k \in Nat
  BY CartShape DEF SystemInv, SagaInv, FlowInv
<1> QED BY <1>2, <1>3, <1>5, <1>6, <1>7, <1>8, <1>9 DEF OrderStates

\* In every reachable state no line was deducted twice or came back more often than it
\* was deducted, on the road of compensation and on that of the outbox together.
THEOREM EveryLineRestoredOnce ==
  ASSUME ~CommitUnknown
  PROVE  SystemSpec => []AtMostOneRestore
<1>1. CommitsKnown /\ SystemInv => AtMostOneRestore
  BY LineAccount DEF AtMostOneRestore
<1> QED BY <1>1, SystemHolds, TruthfulCommits, PTL

\* The stock and the orders as the reservation ledger sees them.
unitsView == [l \in Lines |-> UnitsOf(l)]

LEMMA LedgerDefs ==
  /\ Ledger!Lines = Lines
  /\ \A r \in Requests : Ledger!LinesOf(r) = LinesOf(r)
  /\ \A l \in Lines : Ledger!ProductOf(l) = ProductOf(l) /\ Ledger!QtyOf(l) = QtyOf(l)
BY DEF Ledger!Lines, Lines, Ledger!LinesOf, LinesOf, Ledger!ProductOf, ProductOf,
       Ledger!QtyOf, QtyOf

\* A deduction sets the units of its line aside.
LEMMA DeductionIsSetAside ==
  ASSUME CommitsKnown, SystemInv, NEW l \in Lines, orders[l[1]] = "none", taken[l] = 0,
         NEW outcome \in Outcomes, DeductStock(l, outcome), UNCHANGED storeVars,
         updates' = updates
  PROVE  Ledger!LedgerNext \/ UNCHANGED Ledger!ledgerVars
<1>1. CASE outcome = "applied"
  <2>1. /\ stock[ProductOf(l)] >= QtyOf(l)
        /\ stock' = [stock EXCEPT ![ProductOf(l)] = @ - QtyOf(l)]
        /\ taken' = [taken EXCEPT ![l] = @ + 1] /\ returned' = returned
    BY <1>1 DEF DeductStock, StockCovers
  <2>2. returned[l] = 0
    BY LineAccount
  <2>3. unitsView[l] = "free" /\ unitsView' = [unitsView EXCEPT ![l] = "aside"]
    <3>1. UnitsOf(l) = "free" /\ taken \in [Lines -> Nat]
      BY <2>2 DEF UnitsOf, SystemInv, FlowInv
    <3>2. \A x \in Lines : UnitsOf(x)' = IF x = l THEN "aside" ELSE UnitsOf(x)
      BY <2>1, <2>2, <3>1 DEF UnitsOf
    <3> QED BY <3>1, <3>2 DEF unitsView
  <2>4. Ledger!SetAside(l)
    BY <2>1, <2>3, LedgerDefs DEF Ledger!SetAside, unitsView, storeVars
  <2> QED BY <2>4, LedgerDefs DEF Ledger!LedgerNext
<1>2. CASE outcome # "applied"
  BY <1>2 DEF DeductStock, stockVars, storeVars, Ledger!ledgerVars, UnitsOf
<1> QED BY <1>1, <1>2

\* Adding the units of a line back, by either road, gives them back.
LEMMA AddBackIsGiveBack ==
  ASSUME CommitsKnown, SystemInv, NEW l \in Lines, orders[l[1]] \in {"none", "CANCELLED"},
         taken[l] = 1, returned[l] = 0,
         AddBack(l), taken' = taken, orders' = orders, updates' = updates
  PROVE  Ledger!LedgerNext
<1>1. /\ stock' = [stock EXCEPT ![ProductOf(l)] = @ + QtyOf(l)]
      /\ returned' = [returned EXCEPT ![l] = @ + 1]
  BY DEF AddBack
<1>2. unitsView[l] = "aside" /\ unitsView' = [unitsView EXCEPT ![l] = "back"]
  <2>1. UnitsOf(l) = "aside" /\ returned \in [Lines -> Nat]
    BY DEF UnitsOf, SystemInv, FlowInv
  <2>2. \A x \in Lines : UnitsOf(x)' = IF x = l THEN "back" ELSE UnitsOf(x)
    BY <1>1, <2>1 DEF UnitsOf
  <2> QED BY <2>1, <2>2 DEF unitsView
<1>3. Ledger!GiveBack(l)
  BY <1>1, <1>2, LedgerDefs DEF Ledger!GiveBack, unitsView
<1> QED BY <1>3, LedgerDefs DEF Ledger!LedgerNext

\* Steps that move neither stock nor orders are invisible to the ledger.
LEMMA InvisibleStep ==
  ASSUME UNCHANGED <<stock, taken, returned, orders, updates>>
  PROVE  UNCHANGED Ledger!ledgerVars
BY DEF Ledger!ledgerVars, UnitsOf

\* Saving a seller's form is an edit of the ledger, opening it is invisible.
LEMMA UpdateIsLedgerStep ==
  ASSUME SystemInv, NEW p \in Products,
         OpenForm(p) \/ \E extra \in Extras : UpdateProduct(p, extra),
         UNCHANGED orderVars
  PROVE  Ledger!LedgerNext \/ UNCHANGED Ledger!ledgerVars
<1>1. orders' = orders
  BY DEF orderVars, storeVars
<1>2. /\ taken' = taken /\ returned' = returned
      /\ stock' \in [Products -> Int]
      /\ \A q \in Products \ {p} : stock'[q] = stock[q]
      /\ (stock' = stock /\ updates' = updates) \/ updates' = updates + 1
  BY UpdateEffect
<1>3. CASE stock' = stock /\ updates' = updates
  BY <1>1, <1>2, <1>3, InvisibleStep
<1>4. CASE updates' = updates + 1
  <2>1. unitsView' = unitsView
    BY <1>2 DEF unitsView, UnitsOf
  <2>2. Ledger!Edit(p)
    BY <1>1, <1>2, <1>4, <2>1 DEF Ledger!Edit, unitsView
  <2> QED BY <2>2 DEF Ledger!LedgerNext
<1> QED BY <1>2, <1>3, <1>4

\* A step of CreateOrder is a step of the ledger.
LEMMA SagaIsLedgerStep ==
  ASSUME CommitsKnown, SystemInv, SagaNext, updates' = updates
  PROVE  Ledger!LedgerNext \/ UNCHANGED Ledger!ledgerVars
<1>1. SagaInv /\ StockTypeOK /\ StoreTypeOK
  BY DEF SystemInv, FlowInv
<1>2. ASSUME NEW l \in Lines, NEW op \in Calling, NEW outcome \in Outcomes,
             Execute(op, l, outcome), orders[l[1]] = "none", UNCHANGED storeVars,
             op = "deduct" => taken[l] = 0,
             op = "compensate" => taken[l] = 1 /\ returned[l] = 0
      PROVE  Ledger!LedgerNext \/ UNCHANGED Ledger!ledgerVars
  <2>1. CASE op = "deduct"
    <3>1. DeductStock(l, outcome)
      BY <1>2, <2>1 DEF Execute
    <3> QED BY <1>2, <2>1, <3>1, DeductionIsSetAside
  <2>2. CASE op = "compensate"
    <3>1. RestoreStock(l, outcome)
      BY <1>2, <2>2 DEF Execute
    <3>2. CASE AddBack(l) /\ taken' = taken
      BY <1>2, <2>2, <3>2, AddBackIsGiveBack DEF storeVars
    <3>3. CASE UNCHANGED stockVars
      BY <1>2, <3>3, InvisibleStep DEF stockVars, storeVars
    <3> QED BY <3>1, <3>2, <3>3 DEF RestoreStock
  <2> QED BY <2>1, <2>2 DEF Calling
<1>3. ASSUME NEW q \in Requests, ServerExecutes(q)
      PROVE  Ledger!LedgerNext \/ UNCHANGED Ledger!ledgerVars
  <2>1. PICK outcome \in Outcomes : Execute(pc[q], Current(q), outcome)
    BY <1>3 DEF ServerExecutes
  <2>2. pc[q] \in Calling /\ rpc[q] = "sent" /\ UNCHANGED storeVars
    BY <1>3 DEF ServerExecutes
  <2>3. Current(q) \in Lines /\ Current(q)[1] = q
    BY <1>1, <2>2, CurrentIsLine DEF Calling
  <2>4. orders[q] = "none"
    BY <1>1, <2>2, WrittenByItsCall DEF SagaInv, Calling
  <2>5. ASSUME pc[q] = "deduct" PROVE taken[Current(q)] = 0
    <3>1. Current(q) = <<q, got[q] + 1>> /\ got[q] + 1 \in DOMAIN Cart[q]
      BY <1>1, <2>2, <2>5, CurrentIsLine, CartShape DEF SagaInv, CallShape
    <3> QED BY <1>1, <2>2, <2>5, <3>1 DEF SagaInv, TakenLines
  <2>6. ASSUME pc[q] = "compensate"
        PROVE  taken[Current(q)] = 1 /\ returned[Current(q)] = 0
    <3>1. /\ Current(q) = <<q, undone[q] + 1>> /\ undone[q] + 1 \in DOMAIN Cart[q]
          /\ undone[q] + 1 <= got[q]
      BY <1>1, <2>2, <2>6, CurrentIsLine, CartShape DEF SagaInv, CallShape
    <3>2. taken[Current(q)] = 1
      BY <1>1, <3>1 DEF SagaInv, TakenLines
    <3>3. returned[Current(q)] = 0
      BY <1>1, <2>2, <2>4, <2>6, <3>1 DEF SagaInv, ReturnedLines
    <3> QED BY <3>2, <3>3
  <2> QED BY <1>2, <2>1, <2>2, <2>3, <2>4, <2>5, <2>6
<1>4. ASSUME NEW op \in Calling, NEW l \in Lines, OrphanExecutes(op, l)
      PROVE  Ledger!LedgerNext \/ UNCHANGED Ledger!ledgerVars
  <2>1. PICK outcome \in Outcomes : Execute(op, l, outcome)
    BY <1>4 DEF OrphanExecutes
  <2>2. <<op, l>> \in orphans /\ UNCHANGED storeVars
    BY <1>4 DEF OrphanExecutes
  <2>3. PICK r \in Requests : \E k \in DOMAIN Cart[r] : l = <<r, k>>
    BY LineIs
  <2>4. PICK k \in DOMAIN Cart[r] : l = <<r, k>>
    BY <2>3
  <2>5. ASSUME op = "deduct" PROVE taken[l] = 0 /\ orders[r] = "none"
    BY <1>1, <2>2, <2>4, <2>5, WrittenByItsCall DEF SagaInv, OrphanedDeductions
  <2>6. ASSUME op = "compensate" PROVE taken[l] = 1 /\ returned[l] = 0 /\ orders[r] = "none"
    <3>1. k <= got[r] /\ returned[l] = 0 /\ orders[r] = "none"
      BY <1>1, <2>2, <2>4, <2>6, WrittenByItsCall DEF SagaInv, OrphanedCompensations
    <3> QED BY <1>1, <2>4, <3>1 DEF SagaInv, TakenLines
  <2> QED BY <1>2, <2>1, <2>2, <2>4, <2>5, <2>6 DEF Calling
<1>5. ASSUME NEW q \in Requests, pc[q] = "persist", CreateRow(q), UNCHANGED stockVars
      PROVE  Ledger!LedgerNext
  <2>1. orders[q] = "none" /\ got[q] = Len(Cart[q])
    BY <1>1, <1>5, WrittenByItsCall DEF SagaInv, CallShape
  <2>2. \A l \in LinesOf(q) : l \in Lines /\ unitsView[l] = "aside"
    <3> SUFFICES ASSUME NEW k \in DOMAIN Cart[q]
                 PROVE  <<q, k>> \in Lines /\ unitsView[<<q, k>>] = "aside"
      BY DEF LinesOf
    <3>1. taken[<<q, k>>] = 1
      BY <1>1, <2>1, CartShape DEF SagaInv, TakenLines
    <3>2. returned[<<q, k>>] = 0
      BY <1>1, <1>5, <2>1 DEF SagaInv, ReturnedLines
    <3> QED BY <3>1, <3>2, LineIs DEF unitsView, UnitsOf
  <2>3. unitsView' = unitsView /\ stock' = stock
    BY <1>5 DEF unitsView, UnitsOf, stockVars
  <2>4. Ledger!Open(q)
    BY <1>5, <2>1, <2>2, <2>3, LedgerDefs DEF Ledger!Open, unitsView, CreateRow
  <2> QED BY <2>4 DEF Ledger!LedgerNext
<1>6. ASSUME NEW q \in Requests, Begin(q) \/ Progress(q) \/ ExpireCtx(q) \/ Crash(q),
             ~ServerExecutes(q)
      PROVE  UNCHANGED stockVars /\ (UNCHANGED storeVars \/ (pc[q] = "persist" /\ CreateRow(q)))
  BY <1>6 DEF Begin, Progress, Call, ServerAnswers, Abandon, RecordDeducted, DeductFails,
     PersistOrder, PersistFails, CompensateNext, ExpireCtx, Crash
<1>7. ASSUME UNCHANGED stockVars, UNCHANGED storeVars PROVE UNCHANGED Ledger!ledgerVars
  BY <1>7, InvisibleStep DEF stockVars, storeVars
<1> QED BY <1>3, <1>4, <1>5, <1>6, <1>7 DEF SagaNext

\* A step of PayOrder or CancelOrder is a step of the ledger.
LEMMA LifecycleIsLedgerStep ==
  ASSUME SystemInv, LifecycleNext, UNCHANGED stockVars, updates' = updates
  PROVE  Ledger!LedgerNext \/ UNCHANGED Ledger!ledgerVars
<1> PICK h \in Handlers : HandlerNext(h)
  BY DEF LifecycleNext
<1>1. CASE Pay(h) \/ Cancel(h)
  <2>1. task[h] \in Task /\ task[h] # NoTask
    BY <1>1 DEF Pay, Cancel, NoTask, SystemInv, FlowInv
  <2>2. Target(h) \in Requests
    BY <2>1 DEF Task, Target
  <2>3. PICK final \in {"PAID", "CANCELLED"} :
          orders[Target(h)] = "PENDING" /\ orders' = [orders EXCEPT ![Target(h)] = final]
    BY <1>1 DEF Pay, Cancel, UpdateStatus, CancelWithOutbox, StatusIs
  <2>4. Ledger!Close(Target(h))
    BY <2>3 DEF Ledger!Close, UnitsOf, stockVars
  <2> QED BY <2>2, <2>4 DEF Ledger!LedgerNext
<1>2. CASE UNCHANGED storeVars
  BY <1>2, InvisibleStep DEF stockVars, storeVars
<1> QED BY <1>1, <1>2 DEF HandlerNext, Load, Conflict, UpdateFails

\* A delivery to product-service is a step of the ledger.
LEMMA DeliveryIsLedgerStep ==
  ASSUME CommitsKnown, SystemInv, NEW m \in Messages, Queued(m), NEW outcome \in Outcomes,
         RestoreStockIdempotent(m, outcome), UNCHANGED storeVars, updates' = updates
  PROVE  Ledger!LedgerNext \/ UNCHANGED Ledger!ledgerVars
<1> DEFINE l == LineOf(m)
<1>1. l \in Lines /\ OrderOf(m) = l[1] /\ m = <<m[1], l>>
  BY MessageIs
<1>2. CASE UNCHANGED stockVars
  BY <1>2, InvisibleStep DEF stockVars, storeVars
<1>3. CASE m \notin restored /\ AddBack(l) /\ taken' = taken
  <2>1. orders[l[1]] = "CANCELLED"
    BY <1>1 DEF SystemInv, FlowInv, OneCanceller
  <2>2. taken[l] = 1
    BY <1>1, <2>1, LineAccount
  <2>3. ASSUME NEW n \in restored, LineOf(n) = l PROVE FALSE
    <3>1. n \in Messages /\ Queued(n)
      BY DEF SystemInv, FlowInv, OnlyQueued
    <3>2. n = <<n[1], l>> /\ OrderOf(n) = OrderOf(m)
      BY <1>1, <2>3, <3>1, MessageIs
    <3>3. n[1] = m[1]
      BY <3>1, <3>2 DEF SystemInv, FlowInv, OneCanceller
    <3> QED BY <1>1, <1>3, <3>2, <3>3
  <2>4. returned[l] = 0
    BY <1>1, <2>1, <2>3 DEF SystemInv, FlowInv, RestoredLines
  <2> QED BY <1>1, <1>3, <2>1, <2>2, <2>4, AddBackIsGiveBack DEF storeVars
<1> QED BY <1>2, <1>3 DEF RestoreStockIdempotent

\* A step of a relay is a step of the ledger.
LEMMA RelayIsLedgerStep ==
  ASSUME CommitsKnown, SystemInv, RelayNext, updates' = updates
  PROVE  Ledger!LedgerNext \/ UNCHANGED Ledger!ledgerVars
<1>1. ASSUME NEW w \in Workers, Deliver(w)
      PROVE  Ledger!LedgerNext \/ UNCHANGED Ledger!ledgerVars
  <2>1. PICK outcome \in Outcomes : RestoreStockIdempotent(current[w], outcome)
    BY <1>1 DEF Deliver
  <2>2. current[w] \in Messages /\ Queued(current[w]) /\ UNCHANGED storeVars
    BY <1>1 DEF Deliver, SystemInv, FlowInv, LoopVariable
  <2> QED BY <2>1, <2>2, DeliveryIsLedgerStep
<1>2. ASSUME NEW m \in Messages, LateDelivery(m)
      PROVE  Ledger!LedgerNext \/ UNCHANGED Ledger!ledgerVars
  <2>1. PICK outcome \in Outcomes : RestoreStockIdempotent(m, outcome)
    BY <1>2 DEF LateDelivery
  <2>2. Queued(m) /\ UNCHANGED storeVars
    BY <1>2 DEF LateDelivery, SystemInv, FlowInv, OnlyQueued
  <2> QED BY <2>1, <2>2, DeliveryIsLedgerStep
<1>3. \/ \E w \in Workers : Deliver(w)
      \/ \E m \in Messages : LateDelivery(m)
      \/ UNCHANGED <<stock, taken, returned, orders>>
  BY DEF RelayNext, Claim, SessionStep, Discard, Send, Reply, DeliveryTimeout, Delivered,
     NotDelivered, Close, TxLost, RelayCrash, BackoffExpires, stockVars, storeVars
<1> QED BY <1>1, <1>2, <1>3, InvisibleStep

\* Whoever takes it, a step of the order path is a step of the ledger or invisible to it.
LEMMA StepIsLedgerStep ==
  ASSUME CommitsKnown, SystemInv, [SystemNext]_systemVars
  PROVE  Ledger!LedgerNext \/ UNCHANGED Ledger!ledgerVars
<1>0. UNCHANGED sellerVars => updates' = updates
  BY DEF sellerVars
<1>1. CASE SagaNext /\ UNCHANGED sellerVars
  BY <1>0, <1>1, SagaIsLedgerStep
<1>2. CASE LifecycleNext /\ UNCHANGED <<stockVars, sellerVars>>
  BY <1>0, <1>2, LifecycleIsLedgerStep
<1>3. CASE RelayNext /\ UNCHANGED sellerVars
  BY <1>0, <1>3, RelayIsLedgerStep
<1>4. CASE (\E p \in Products : DeleteProduct(p)) /\ UNCHANGED <<orderVars, sellerVars>>
  BY <1>0, <1>4, InvisibleStep DEF DeleteProduct, orderVars, storeVars
<1>5. CASE \E p \in Products :
             /\ OpenForm(p) \/ \E extra \in Extras : UpdateProduct(p, extra)
             /\ UNCHANGED orderVars
  BY <1>5, UpdateIsLedgerStep
<1>6. CASE UNCHANGED systemVars
  BY <1>0, <1>6, InvisibleStep DEF systemVars, stockVars, orderVars, storeVars
<1> QED BY <1>1, <1>2, <1>3, <1>4, <1>5, <1>6 DEF SystemNext

\* The order path implements the reservation ledger: with their databases read as
\* UnitsOf reads them, order-service and product-service only ever set units aside for
\* a request, open its order once all are aside, close it, and give units back once.
THEOREM OrderPathImplementsLedger ==
  ASSUME ~CommitUnknown
  PROVE  SystemSpec => ImplementsLedger
<1>1. ASSUME SystemInit PROVE Ledger!LedgerInit
  BY <1>1, LedgerDefs
  DEF SystemInit, StockInit, StoreInit, SellerInit, Ledger!LedgerInit, UnitsOf
<1>2. ASSUME CommitsKnown, SystemInv, [SystemNext]_systemVars
      PROVE  [Ledger!LedgerNext]_(Ledger!ledgerVars)
  BY <1>2, StepIsLedgerStep
<1> QED BY <1>1, <1>2, SystemHolds, TruthfulCommits, PTL DEF SystemSpec, ImplementsLedger, Ledger!LedgerSpec
-----------------------------------------------------------------------------
(* The books of the shop *)

\* One more line has its quantity of units more.
LEMMA MoreUnits ==
  ASSUME NEW S, S \subseteq Lines, NEW l \in Lines, l \notin S, NEW p,
         IsFiniteSet(UnitsAmong(S, p))
  PROVE  /\ IsFiniteSet(UnitsAmong(S \cup {l}, p))
         /\ Units(S \cup {l}, p) = Units(S, p) + (IF ProductOf(l) = p THEN QtyOf(l) ELSE 0)
<1>1. QtyOf(l) \in Nat \ {0}
  BY LineData
<1>2. CASE ProductOf(l) = p
  <2> DEFINE T == {l} \X (1..QtyOf(l))
  <2>1. IsFiniteSet(T) /\ Cardinality(T) = QtyOf(l)
    <3>1. IsFiniteSet({l}) /\ Cardinality({l}) = 1
      BY FS_Singleton
    <3>2. IsFiniteSet(1..QtyOf(l)) /\ Cardinality(1..QtyOf(l)) = QtyOf(l)
      BY <1>1, FS_Interval
    <3>3. IsFiniteSet(T) /\ Cardinality(T) = Cardinality({l}) * Cardinality(1..QtyOf(l))
      BY <3>1, <3>2, FS_Product
    <3> QED BY <1>1, <3>1, <3>2, <3>3
  <2>2. UnitsAmong(S \cup {l}, p) = UnitsAmong(S, p) \cup T
    BY <1>2 DEF UnitsAmong
  <2>3. UnitsAmong(S, p) \cap T = {}
    BY DEF UnitsAmong
  <2>4. Cardinality(UnitsAmong(S, p)) \in Nat
    BY FS_CardinalityType
  <2> HIDE DEF T
  <2>5. /\ IsFiniteSet(UnitsAmong(S, p) \cup T)
        /\ Cardinality(UnitsAmong(S, p) \cup T)
             = Cardinality(UnitsAmong(S, p)) + Cardinality(T) - Cardinality(UnitsAmong(S, p) \cap T)
    BY <2>1, FS_Union
  <2>6. Cardinality(UnitsAmong(S, p) \cap T) = 0
    <3>1. Cardinality({}) = 0
      BY FS_EmptySet
    <3> QED BY <2>3, <3>1, Zenon
  <2>7. /\ Units(S \cup {l}, p) = Cardinality(UnitsAmong(S, p) \cup T)
        /\ IsFiniteSet(UnitsAmong(S \cup {l}, p))
    BY <2>2, <2>5, Zenon DEF Units
  <2>8. Cardinality(UnitsAmong(S, p) \cup T) = Units(S, p) + QtyOf(l)
    BY <1>1, <2>1, <2>4, <2>5, <2>6 DEF Units
  <2> QED BY <1>2, <2>7, <2>8
<1>3. CASE ProductOf(l) # p
  <2>1. UnitsAmong(S \cup {l}, p) = UnitsAmong(S, p)
    BY <1>3 DEF UnitsAmong
  <2>2. Cardinality(UnitsAmong(S, p)) \in Nat
    BY FS_CardinalityType
  <2> QED BY <1>3, <2>1, <2>2 DEF Units
<1> QED BY <1>2, <1>3

\* One line less has its quantity of units less.
LEMMA FewerUnits ==
  ASSUME NEW S, S \subseteq Lines, NEW l \in S, NEW p, IsFiniteSet(UnitsAmong(S, p))
  PROVE  /\ IsFiniteSet(UnitsAmong(S \ {l}, p))
         /\ Units(S \ {l}, p) = Units(S, p) - (IF ProductOf(l) = p THEN QtyOf(l) ELSE 0)
<1>1. UnitsAmong(S \ {l}, p) \subseteq UnitsAmong(S, p) /\ (S \ {l}) \cup {l} = S
  BY DEF UnitsAmong
<1>2. IsFiniteSet(UnitsAmong(S \ {l}, p))
  BY <1>1, FS_Subset
<1>3. Units(S, p) = Units(S \ {l}, p) + (IF ProductOf(l) = p THEN QtyOf(l) ELSE 0)
  BY <1>1, <1>2, MoreUnits
<1>4. Units(S \ {l}, p) \in Nat /\ QtyOf(l) \in Nat
  BY <1>2, FS_CardinalityType, LineData DEF Units
<1> QED BY <1>2, <1>3, <1>4

\* Fewer lines have no more units.
LEMMA PartOfUnits ==
  ASSUME NEW S, NEW T, T \subseteq S, NEW p, IsFiniteSet(UnitsAmong(S, p))
  PROVE  Units(T, p) \in Nat /\ Units(S, p) \in Nat /\ Units(T, p) <= Units(S, p)
<1>1. UnitsAmong(T, p) \in SUBSET UnitsAmong(S, p)
  BY DEF UnitsAmong
<1> QED BY <1>1, FS_Subset, FS_CardinalityType DEF Units

\* The units on the shelf and those set aside are what was supplied, an open form shows
\* what was supplied less what was set aside when it was filled, and the shelf is no lower
\* than zero or than sellers wrote it.
AccountOf(p) ==
  /\ IsFiniteSet(UnitsAmong(AsideLines, p))
  /\ lowest[p] <= 0 /\ stock[p] >= lowest[p]
  /\ stock[p] + Units(AsideLines, p) = Supplied(p)
  /\ form[p] # NoForm => form[p] + noted[p] = Supplied(p)

Books == CountTypeOK /\ \A p \in Products : AccountOf(p)

\* A step of the ledger that is no edit keeps the books.
LEMMA LedgerKeepsBooks ==
  ASSUME SystemInv, Books, Ledger!LedgerNext \/ UNCHANGED Ledger!ledgerVars,
         UNCHANGED sellerVars
  PROVE  Books'
<1> USE DEF sellerVars
<1> SUFFICES ASSUME NEW p \in Products
             PROVE  /\ IsFiniteSet(UnitsAmong(AsideLines, p)')
                    /\ stock'[p] >= lowest[p]
                    /\ stock'[p] + Units(AsideLines, p)' = Supplied(p)'
  BY DEF Books, AccountOf, CountTypeOK, Supplied
<1>0. /\ stock \in [Products -> Int] /\ updates \in Nat /\ lowest[p] \in Int
      /\ declared[p] \in Int /\ overwritten[p] \in Int /\ InitialStock[p] \in Int
  BY StockAssumption DEF SystemInv, FlowInv, FormTypeOK, Books, CountTypeOK
<1>1. /\ IsFiniteSet(UnitsAmong(AsideLines, p)) /\ lowest[p] <= 0 /\ stock[p] >= lowest[p]
      /\ stock[p] + Units(AsideLines, p) = Supplied(p)
  BY DEF Books, AccountOf
<1>2. /\ Supplied(p)' = Supplied(p) /\ Supplied(p) \in Int
      /\ UnitsAmong(AsideLines, p)' = UnitsAmong(AsideLines', p)
      /\ Units(AsideLines, p)' = Units(AsideLines', p)
      /\ AsideLines = {l \in Lines : unitsView[l] = "aside"}
      /\ AsideLines' = {l \in Lines : unitsView'[l] = "aside"}
      /\ AsideLines \subseteq Lines
  BY <1>0 DEF Supplied, UnitsAmong, Units, AsideLines, unitsView
<1>3. Units(AsideLines, p) \in Nat
  BY <1>1, FS_CardinalityType DEF Units
<1>4. CASE unitsView' = unitsView /\ stock' = stock
  <2>1. AsideLines' = AsideLines
    BY <1>2, <1>4
  <2> QED BY <1>1, <1>2, <1>4, <2>1
<1>5. ASSUME NEW l \in Lines, Ledger!SetAside(l)
      PROVE  /\ IsFiniteSet(UnitsAmong(AsideLines', p)) /\ stock'[p] >= lowest[p]
             /\ stock'[p] + Units(AsideLines', p) = Supplied(p)
  <2>1. /\ unitsView[l] = "free" /\ unitsView' = [unitsView EXCEPT ![l] = "aside"]
        /\ stock[ProductOf(l)] >= QtyOf(l)
        /\ stock' = [stock EXCEPT ![ProductOf(l)] = @ - QtyOf(l)]
    BY <1>5, LedgerDefs DEF Ledger!SetAside, unitsView
  <2>2. l \notin AsideLines /\ AsideLines' = AsideLines \cup {l}
    BY <1>2, <2>1 DEF unitsView
  <2>5. /\ UnitsAmong(AsideLines', p) = UnitsAmong(AsideLines \cup {l}, p)
        /\ Units(AsideLines', p) = Units(AsideLines \cup {l}, p)
    BY <2>2, Zenon
  <2>3. /\ IsFiniteSet(UnitsAmong(AsideLines \cup {l}, p))
        /\ Units(AsideLines \cup {l}, p)
             = Units(AsideLines, p) + (IF ProductOf(l) = p THEN QtyOf(l) ELSE 0)
    BY <1>1, <1>2, <2>2, MoreUnits
  <2>4. QtyOf(l) \in Nat /\ ProductOf(l) \in Products
    BY LineData
  <2> QED BY <1>0, <1>1, <1>2, <1>3, <2>1, <2>3, <2>4, <2>5
<1>6. ASSUME NEW l \in Lines, Ledger!GiveBack(l)
      PROVE  /\ IsFiniteSet(UnitsAmong(AsideLines', p)) /\ stock'[p] >= lowest[p]
             /\ stock'[p] + Units(AsideLines', p) = Supplied(p)
  <2>1. /\ unitsView[l] = "aside" /\ unitsView' = [unitsView EXCEPT ![l] = "back"]
        /\ stock' = [stock EXCEPT ![ProductOf(l)] = @ + QtyOf(l)]
    BY <1>6, LedgerDefs DEF Ledger!GiveBack, unitsView
  <2>2. l \in AsideLines /\ AsideLines' = AsideLines \ {l}
    BY <1>2, <2>1 DEF unitsView
  <2>5. /\ UnitsAmong(AsideLines', p) = UnitsAmong(AsideLines \ {l}, p)
        /\ Units(AsideLines', p) = Units(AsideLines \ {l}, p)
    BY <2>2, Zenon
  <2>3. /\ IsFiniteSet(UnitsAmong(AsideLines \ {l}, p))
        /\ Units(AsideLines \ {l}, p)
             = Units(AsideLines, p) - (IF ProductOf(l) = p THEN QtyOf(l) ELSE 0)
    BY <1>1, <1>2, <2>2, FewerUnits
  <2>4. QtyOf(l) \in Nat /\ ProductOf(l) \in Products
    BY LineData
  <2> QED BY <1>0, <1>1, <1>2, <1>3, <2>1, <2>3, <2>4, <2>5
<1>7. CASE \E r \in Requests : Ledger!Open(r) \/ Ledger!Close(r)
  BY <1>4, <1>7 DEF Ledger!Open, Ledger!Close, unitsView
<1>8. ~ \E q \in Products : Ledger!Edit(q)
  BY <1>0 DEF Ledger!Edit
<1>9. CASE UNCHANGED Ledger!ledgerVars
  BY <1>4, <1>9 DEF Ledger!ledgerVars, unitsView
<1> QED BY <1>2, <1>5, <1>6, <1>7, <1>8, <1>9, LedgerDefs DEF Ledger!LedgerNext

\* Opening a form notes what is set aside, and saving it enters what was declared and
\* what has been set aside since.
LEMMA UpdateKeepsBooks ==
  ASSUME SystemInv, Books, NEW q \in Products,
         OpenForm(q) \/ \E extra \in Extras : UpdateProduct(q, extra)
  PROVE  Books'
<1>1. /\ stock \in [Products -> Int] /\ form \in [Products -> Int \cup {NoForm}]
      /\ declared \in [Products -> Int] /\ lowest \in [Products -> Int]
      /\ noted \in [Products -> Int] /\ overwritten \in [Products -> Int]
      /\ \A p \in Products : InitialStock[p] \in Int
  BY StockAssumption DEF SystemInv, FlowInv, FormTypeOK, Books, CountTypeOK
<1>2. \A p \in Products :
        /\ IsFiniteSet(UnitsAmong(AsideLines, p)) /\ Units(AsideLines, p) \in Nat
        /\ lowest[p] <= 0 /\ stock[p] >= lowest[p]
        /\ stock[p] + Units(AsideLines, p) = Supplied(p)
        /\ form[p] # NoForm => form[p] + noted[p] = Supplied(p)
  BY FS_CardinalityType DEF Books, AccountOf, Units
<1>3. /\ AsideLines' = AsideLines
      /\ \A p \in Products : UnitsAmong(AsideLines, p)' = UnitsAmong(AsideLines, p)
  BY UpdateEffect DEF AsideLines, UnitsOf, UnitsAmong
<1>4. \A p \in Products : Units(AsideLines, p)' = Units(AsideLines, p)
  BY <1>3 DEF Units
<1>5. CASE OpenForm(q)
  <2>1. /\ form' = [form EXCEPT ![q] = stock[q]]
        /\ noted' = [noted EXCEPT ![q] = Units(AsideLines, q)]
        /\ UNCHANGED <<stock, declared, overwritten, lowest>>
    BY <1>5 DEF OpenForm, stockVars
  <2>2. noted' \in [Products -> Int]
    BY <1>1, <1>2, <2>1
  <2>3. ASSUME NEW p \in Products PROVE AccountOf(p)'
    <3>1. Supplied(p)' = Supplied(p)
      BY <2>1 DEF Supplied
    <3>2. form'[p] # NoForm => form'[p] + noted'[p] = Supplied(p)
      BY <1>1, <1>2, <2>1
    <3> QED BY <1>2, <1>3, <1>4, <2>1, <3>1, <3>2 DEF AccountOf
  <2> QED BY <1>1, <2>1, <2>2, <2>3 DEF Books, CountTypeOK
<1>6. CASE \E extra \in Extras : UpdateProduct(q, extra)
  <2>1. PICK extra \in Extras : UpdateProduct(q, extra)
    BY <1>6
  <2>2. extra \in Int /\ form[q] \in Int /\ form[q] + noted[q] = Supplied(q)
    BY <1>1, <1>2, <2>1, SellerAssumption DEF UpdateProduct
  <2> DEFINE U == Units(AsideLines, q)
             n == form[q] + extra
  <2>3. /\ stock' = [stock EXCEPT ![q] = n]
        /\ declared' = [declared EXCEPT ![q] = @ + extra]
        /\ overwritten' = [overwritten EXCEPT ![q] = @ + U - noted[q]]
        /\ lowest' = [lowest EXCEPT ![q] = Least(@, n)]
        /\ form' = [form EXCEPT ![q] = NoForm] /\ noted' = [noted EXCEPT ![q] = 0]
    BY <2>1 DEF UpdateProduct, UpdateStock
  <2>4. U \in Nat /\ n \in Int
    BY <1>2, <2>2
  <2> HIDE DEF U, n
  <2>5. noted' \in [Products -> Int] /\ overwritten' \in [Products -> Int]
    BY <1>1, <2>3, <2>4
  <2>6. AccountOf(q)'
    <3>1. /\ stock'[q] = n /\ declared'[q] = declared[q] + extra
          /\ overwritten'[q] = overwritten[q] + U - noted[q]
          /\ lowest'[q] = Least(lowest[q], n) /\ form'[q] = NoForm
      BY <1>1, <2>3
    <3>2. n + U = InitialStock[q] + declared'[q] + overwritten'[q]
      BY <1>1, <2>2, <2>4, <3>1 DEF Supplied, n
    <3>3. lowest'[q] <= 0 /\ n >= lowest'[q]
      BY <1>1, <1>2, <2>4, <3>1 DEF Least
    <3>4. Units(AsideLines, q)' = U
      BY <1>4 DEF U
    <3> QED BY <1>2, <1>3, <3>1, <3>2, <3>3, <3>4 DEF AccountOf, Supplied
  <2>7. ASSUME NEW p \in Products, p # q PROVE AccountOf(p)'
    <3>1. /\ stock'[p] = stock[p] /\ declared'[p] = declared[p] /\ form'[p] = form[p]
          /\ overwritten'[p] = overwritten[p] /\ lowest'[p] = lowest[p] /\ noted'[p] = noted[p]
      BY <1>1, <2>3, <2>7
    <3> QED BY <1>2, <1>3, <1>4, <3>1 DEF AccountOf, Supplied
  <2> QED BY <2>5, <2>6, <2>7 DEF Books, CountTypeOK
<1> QED BY <1>5, <1>6

\* What is set aside is accounted for as long as no commit was reported failed.
LEMMA BooksHold == SystemSpec => [](CommitsKnown => Books)
<1>1. ASSUME SystemInit PROVE Books
  <2>1. AsideLines = {} /\ stock = InitialStock
    <3>1. /\ stock = InitialStock
          /\ taken = [l \in Lines |-> 0] /\ returned = [l \in Lines |-> 0]
      BY <1>1 DEF SystemInit, StockInit
    <3>2. \A l \in Lines : UnitsOf(l) = "free"
      BY <3>1 DEF UnitsOf
    <3> QED BY <3>1, <3>2 DEF AsideLines
  <2>2. /\ CountTypeOK
        /\ \A p \in Products :
             form[p] = NoForm /\ lowest[p] = Least(0, InitialStock[p])
    BY <1>1 DEF SystemInit, SellerInit, CountTypeOK
  <2> SUFFICES ASSUME NEW p \in Products PROVE AccountOf(p)
    BY <2>2 DEF Books
  <2>3. UnitsAmong({}, p) = {} /\ InitialStock[p] \in Int
    BY StockAssumption DEF UnitsAmong
  <2>4. Supplied(p) = InitialStock[p]
    BY <1>1, <2>3 DEF SystemInit, SellerInit, Supplied
  <2>5. IsFiniteSet(UnitsAmong(AsideLines, p)) /\ Units(AsideLines, p) = 0
    BY <2>1, <2>3, FS_EmptySet DEF Units
  <2>6. lowest[p] <= 0 /\ stock[p] >= lowest[p]
    BY <2>1, <2>2, <2>3 DEF Least
  <2> QED BY <2>1, <2>2, <2>3, <2>4, <2>5, <2>6 DEF AccountOf
<1>2. ASSUME CommitsKnown, SystemInv, Books, [SystemNext]_systemVars PROVE Books'
  <2>1. CASE \E p \in Products :
               /\ OpenForm(p) \/ \E extra \in Extras : UpdateProduct(p, extra)
               /\ UNCHANGED orderVars
    BY <1>2, <2>1, UpdateKeepsBooks
  <2>2. CASE UNCHANGED sellerVars
    <3>1. Ledger!LedgerNext \/ UNCHANGED Ledger!ledgerVars
      BY <1>2, <2>2, StepIsLedgerStep
    <3> QED BY <1>2, <2>2, <3>1, LedgerKeepsBooks
  <2> QED BY <1>2, <2>1, <2>2 DEF SystemNext, systemVars
<1>3. CommitShape /\ (CommitsKnown => SystemInv) /\ (CommitsKnown => Books)
        /\ [SystemNext]_systemVars => (CommitsKnown => Books)'
  BY <1>2, StepKeepsCommits
<1> QED BY <1>1, <1>3, SystemHolds, CommitsHold, PTL DEF SystemSpec

\* In every reachable state of the whole order path each variable has its type.
THEOREM SystemTypesHold ==
  ASSUME ~CommitUnknown
  PROVE  SystemSpec => []SystemTypeOK
<1>1. SystemInv /\ Books => SystemTypeOK
  BY DEF SystemInv, SagaInv, FlowInv, Books, SystemTypeOK, SellerTypeOK
<1> QED BY <1>1, SystemHolds, BooksHold, TruthfulCommits, PTL

\* Units of an order that stands, and units a queued message still has to put back,
\* are set aside.
LEMMA PromisedIsAside ==
  ASSUME CommitsKnown, SystemInv
  PROVE  SoldLines \cup OwedLines \subseteq AsideLines
<1>1. ASSUME NEW l \in Lines, taken[l] = 1, returned[l] = 0 PROVE l \in AsideLines
  BY <1>1 DEF AsideLines, UnitsOf
<1>2. SoldLines \subseteq AsideLines
  <2> SUFFICES ASSUME NEW l \in Lines, orders[l[1]] \in {"PENDING", "PAID"}
               PROVE  l \in AsideLines
    BY DEF SoldLines
  <2> QED BY <1>1, LineAccount
<1>3. OwedLines \subseteq AsideLines
  <2> SUFFICES ASSUME NEW m \in Messages, Queued(m), m \notin restored
               PROVE  LineOf(m) \in AsideLines
    BY DEF OwedLines
  <2> DEFINE l == LineOf(m)
  <2>1. l \in Lines /\ OrderOf(m) = l[1] /\ m = <<m[1], l>>
    BY MessageIs
  <2>2. orders[l[1]] = "CANCELLED"
    BY <2>1 DEF SystemInv, FlowInv, OneCanceller
  <2>3. ASSUME NEW n \in restored, LineOf(n) = l PROVE FALSE
    <3>1. n \in Messages /\ Queued(n)
      BY DEF SystemInv, FlowInv, OnlyQueued
    <3>2. n = <<n[1], l>> /\ OrderOf(n) = OrderOf(m)
      BY <2>1, <2>3, <3>1, MessageIs
    <3>3. n[1] = m[1]
      BY <3>1, <3>2 DEF SystemInv, FlowInv, OneCanceller
    <3> QED BY <2>1, <3>2, <3>3
  <2>4. returned[l] = 0
    BY <2>1, <2>2, <2>3 DEF SystemInv, FlowInv, RestoredLines
  <2>5. taken[l] = 1
    BY <2>1, <2>2, LineAccount
  <2> QED BY <1>1, <2>1, <2>4, <2>5
<1> QED BY <1>2, <1>3

\* The books leave nothing to oversell.
LEMMA BooksForbidOverselling ==
  ASSUME CommitsKnown, SystemInv, Books
  PROVE  NoOversell
<1> SUFFICES ASSUME NEW p \in Products
             PROVE  /\ stock[p] >= lowest[p]
                    /\ stock[p] + Units(SoldLines \cup OwedLines, p) <= Supplied(p)
  BY DEF NoOversell
<1>1. /\ Units(SoldLines \cup OwedLines, p) \in Nat /\ Units(AsideLines, p) \in Nat
      /\ Units(SoldLines \cup OwedLines, p) <= Units(AsideLines, p)
  BY PromisedIsAside, PartOfUnits DEF Books, AccountOf
<1>2. stock[p] >= lowest[p] /\ stock[p] + Units(AsideLines, p) = Supplied(p)
  BY DEF Books, AccountOf
<1>3. stock[p] \in Int
  BY DEF SystemInv, FlowInv
<1> QED BY <1>1, <1>2, <1>3

\* The account of the lines is that of the orders.
LEMMA StandingKeepsUnits ==
  ASSUME CommitsKnown, SystemInv
  PROVE  LiveOrderKeepsStock
<1> SUFFICES ASSUME NEW r \in Requests, orders[r] \in {"PENDING", "PAID"},
                    NEW l \in LinesOf(r)
             PROVE  taken[l] = 1 /\ returned[l] = 0
  BY DEF LiveOrderKeepsStock, Standing
<1>1. l \in Lines /\ l[1] = r
  BY DEF LinesOf, Lines
<1> QED BY <1>1, LineAccount

\* A message that was applied put the units of its line back.
RestoredBack == \A m \in restored : returned[LineOf(m)] > 0

\* A call that failed, or is compensating, knows its error.
FailuresHaveCause ==
  \A r \in Requests : pc[r] \in {"compensate", "failed"} => cause[r] # "none"

Settling == Refunding /\ RestoredBack /\ FailuresHaveCause

\* Who is no CreateOrder call leaves them alone, and the lines without an order.
LEMMA OthersKeepRefunding ==
  ASSUME CommitsKnown, SystemInv, Refunding,
         UNCHANGED sagaVars, taken' = taken, listed' \subseteq listed,
         \A l \in Lines : orders[l[1]] = "none" => returned'[l] = returned[l]
  PROVE  Refunding'
<1> SUFFICES ASSUME NEW r \in Requests PROVE (Compensated(r) /\ RefusedIsUntaken(r))'
  BY DEF Refunding
<1>1. UNCHANGED <<pc, got, undone, rpc, ctxDone, cause, logged, orphans>>
  BY DEF sagaVars
<1>2. CASE orders[r] = "none"
  <2>1. \A k \in DOMAIN Cart[r] : returned'[<<r, k>>] = returned[<<r, k>>]
    BY <1>2, LineIs
  <2> QED BY <1>1, <2>1, OthersStand
<1>3. CASE orders[r] # "none"
  <2>1. pc[r] = "created"
    BY <1>3, WrittenByItsCall DEF SystemInv, SagaInv
  <2> QED BY <1>1, <2>1 DEF Compensated, RefusedIsUntaken
<1> QED BY <1>2, <1>3

\* A delivery puts the units of its line back.
LEMMA DeliveryPutsBack ==
  ASSUME SystemInv, RestoredBack, NEW m \in Messages, NEW outcome \in Outcomes,
         RestoreStockIdempotent(m, outcome)
  PROVE  RestoredBack' /\ listed' = listed
<1>1. returned \in [Lines -> Nat] /\ LineOf(m) \in Lines /\ restored \subseteq Messages
  BY MessageIs DEF SystemInv, FlowInv
<1>2. CASE UNCHANGED stockVars
  BY <1>2 DEF stockVars, RestoredBack
<1>3. CASE AddBack(LineOf(m)) /\ restored' = restored \cup {m} /\ listed' = listed
  <2>1. \A l \in Lines : returned'[l] = IF l = LineOf(m) THEN returned[l] + 1 ELSE returned[l]
    BY <1>1, <1>3 DEF AddBack
  <2>2. \A n \in restored : LineOf(n) \in Lines
    BY <1>1, MessageIs
  <2>3. \A n \in restored : returned'[LineOf(n)] > 0
    BY <1>1, <2>1, <2>2 DEF RestoredBack
  <2>4. returned'[LineOf(m)] > 0
    BY <1>1, <2>1
  <2> QED BY <1>3, <2>3, <2>4 DEF RestoredBack
<1> QED BY <1>2, <1>3 DEF RestoreStockIdempotent

\* A step of a relay.
LEMMA RelayKeepsSettling ==
  ASSUME CommitsKnown, SystemInv, Settling, RelayNext, UNCHANGED <<sagaVars, task>>
  PROVE  Settling'
<1>1. /\ taken' = taken
      /\ \A l \in Lines : orders[l[1]] # "CANCELLED" => returned'[l] = returned[l]
  BY RelayKeepsFlow, WrittenByItsCall DEF SystemInv
<1>2. RestoredBack' /\ listed' = listed
  <2>1. ASSUME NEW w \in Workers, Deliver(w) PROVE RestoredBack' /\ listed' = listed
    <3>1. PICK outcome \in Outcomes : RestoreStockIdempotent(current[w], outcome)
      BY <2>1 DEF Deliver
    <3>2. current[w] \in Messages
      BY <2>1 DEF Deliver, SystemInv, FlowInv, LoopVariable
    <3> QED BY <3>1, <3>2, DeliveryPutsBack DEF Settling
  <2>2. ASSUME NEW m \in Messages, LateDelivery(m) PROVE RestoredBack' /\ listed' = listed
    <3>1. PICK outcome \in Outcomes : RestoreStockIdempotent(m, outcome)
      BY <2>2 DEF LateDelivery
    <3> QED BY <3>1, DeliveryPutsBack DEF Settling
  <2>3. CASE UNCHANGED stockVars
    BY <2>3 DEF stockVars, Settling, RestoredBack
  <2>4. \/ \E w \in Workers : Deliver(w)
        \/ \E m \in Messages : LateDelivery(m)
        \/ UNCHANGED stockVars
    BY DEF RelayNext, Claim, SessionStep, Discard, Send, Reply, DeliveryTimeout, Delivered,
       NotDelivered, Close, TxLost, RelayCrash, BackoffExpires
  <2> QED BY <2>1, <2>2, <2>3, <2>4
<1>3. Refunding'
  BY <1>1, <1>2, OthersKeepRefunding DEF Settling
<1>4. FailuresHaveCause'
  BY DEF Settling, FailuresHaveCause, sagaVars
<1> QED BY <1>2, <1>3, <1>4 DEF Settling

\* A step of CreateOrder.
LEMMA SagaKeepsSettling ==
  ASSUME CommitsKnown, SystemInv, Settling, SagaNext
  PROVE  Settling'
<1>1. Refunding'
  BY CreateOrderRefunds DEF SystemInv, FlowInv, Settling
<1>2. RestoredBack'
  <2>1. ASSUME NEW m \in restored PROVE LineOf(m) \in Lines /\ orders[LineOf(m)[1]] # "none"
    <3>1. m \in Messages /\ Queued(m)
      BY DEF SystemInv, FlowInv, OnlyQueued
    <3> QED BY <3>1, MessageIs DEF SystemInv, FlowInv, OneCanceller
  <2> QED BY <2>1, SagaEffect DEF Settling, RestoredBack
<1>3. FailuresHaveCause'
  <2>1. SagaTypeOK /\ FailuresHaveCause
    BY DEF SystemInv, SagaInv, Settling
  <2>2. ASSUME NEW q \in Requests, Begin(q) \/ Progress(q) \/ ExpireCtx(q) \/ Crash(q)
        PROVE  FailuresHaveCause'
    <3>1. \A r \in Requests : r # q => pc'[r] = pc[r] /\ cause'[r] = cause[r]
      BY <2>1, <2>2 DEF Begin, Progress, Call, ServerExecutes, ServerAnswers, Abandon,
         RecordDeducted, DeductFails, PersistOrder, PersistFails, CompensateNext, ExpireCtx, Crash
    <3>2. \/ pc'[q] = pc[q] /\ cause'[q] = cause[q]
          \/ pc'[q] \notin {"compensate", "failed"}
          \/ cause'[q] \in {"refused", "err"}
          \/ pc[q] = "compensate" /\ cause'[q] = cause[q]
      BY <2>1, <2>2 DEF Begin, Progress, Call, ServerExecutes, ServerAnswers, Abandon,
         RecordDeducted, DeductFails, PersistOrder, PersistFails, CompensateNext, ExpireCtx, Crash
    <3> QED BY <2>1, <3>1, <3>2 DEF FailuresHaveCause
  <2>3. ASSUME UNCHANGED <<pc, cause>> PROVE FailuresHaveCause'
    BY <2>1, <2>3 DEF FailuresHaveCause
  <2> QED BY <2>2, <2>3 DEF SagaNext, OrphanExecutes
<1> QED BY <1>1, <1>2, <1>3 DEF Settling

LEMMA SettlingHolds == SystemSpec => [](CommitsKnown => Settling)
<1>1. ASSUME SystemInit PROVE Settling
  BY <1>1 DEF SystemInit, SagaInit, StockInit, Settling, Refunding, Compensated,
     RefusedIsUntaken, RestoredBack, FailuresHaveCause
<1>2. ASSUME CommitsKnown, SystemInv, Settling, [SystemNext]_systemVars PROVE Settling'
  <2>1. CASE SagaNext
    BY <1>2, <2>1, SagaKeepsSettling
  <2>2. CASE RelayNext /\ UNCHANGED <<sagaVars, task>>
    BY <1>2, <2>2, RelayKeepsSettling
  <2>3. ASSUME UNCHANGED <<restored, taken, returned, sagaVars>>, listed' \subseteq listed
        PROVE  Settling'
    <3>1. Refunding'
      BY <1>2, <2>3, OthersKeepRefunding DEF Settling
    <3> QED BY <1>2, <2>3, <3>1 DEF Settling, RestoredBack, FailuresHaveCause, sagaVars
  <2>4. CASE UNCHANGED stockVars /\ UNCHANGED sagaVars
    BY <2>3, <2>4 DEF stockVars
  <2>5. CASE \E p \in Products : DeleteProduct(p) /\ UNCHANGED orderVars
    BY <2>3, <2>5 DEF DeleteProduct, orderVars
  <2>6. CASE \E p \in Products :
               /\ OpenForm(p) \/ \E extra \in Extras : UpdateProduct(p, extra)
               /\ UNCHANGED orderVars
    BY <1>2, <2>3, <2>6, UpdateEffect DEF orderVars
  <2> QED BY <1>2, <2>1, <2>2, <2>4, <2>5, <2>6 DEF SystemNext, systemVars, orderVars
<1>3. CommitShape /\ (CommitsKnown => SystemInv) /\ (CommitsKnown => Settling)
        /\ [SystemNext]_systemVars => (CommitsKnown => Settling)'
  BY <1>2, StepKeepsCommits
<1> QED BY <1>1, <1>3, SystemHolds, CommitsHold, PTL DEF SystemSpec

\* When everything is quiet, what is set aside is what was sold.
LEMMA QuietLeavesNothingAside ==
  ASSUME CommitsKnown, SystemInv, Settling, Quiet
  PROVE  AsideLines = SoldLines
<1>1. SoldLines \subseteq AsideLines
  BY PromisedIsAside
<1>2. ASSUME NEW l \in Lines, UnitsOf(l) = "aside", l \notin SoldLines PROVE FALSE
  <2>1. PICK r \in Requests : \E k \in DOMAIN Cart[r] : l = <<r, k>>
    BY LineIs
  <2>2. PICK k \in DOMAIN Cart[r] : l = <<r, k>>
    BY <2>1
  <2>3. returned[l] = 0 /\ taken[l] = 1
    BY <1>2, LineAccount DEF UnitsOf
  <2>4. orders[r] \in {"none", "CANCELLED"}
    BY <1>2, <2>2 DEF SoldLines, SystemInv, FlowInv, OrderStates
  <2>5. CASE orders[r] = "none"
    <3>1. pc[r] \in {"idle", "failed"} /\ cause[r] # "err"
      BY <2>5, WrittenByItsCall DEF Quiet, SystemInv, SagaInv
    <3>2. pc[r] # "idle"
      BY <2>2, <2>3 DEF SystemInv, SagaInv, TakenLines
    <3>3. cause[r] = "refused"
      BY <3>1, <3>2 DEF Settling, FailuresHaveCause, SystemInv, SagaInv
    <3>4. l \in LinesOf(r) /\ Listed(l) /\ l \notin logged
      BY <2>2, LineData DEF LinesOf, Listed, Quiet
    <3>5. taken[l] = returned[l]
      BY <3>1, <3>2, <3>3, <3>4, RefundedLines DEF SystemInv, FlowInv, Settling
    <3> QED BY <2>3, <3>5
  <2>6. CASE orders[r] = "CANCELLED"
    <3>1. PICK h \in Handlers : \A m \in Batch(h, r) : Queued(m)
      BY <2>6 DEF SystemInv, FlowInv, WholeBatch
    <3> DEFINE m == <<h, l>>
    <3>2. m \in Batch(h, r) /\ m \in Messages /\ LineOf(m) = l
      BY <2>2 DEF Batch, LinesOf, Messages, LineOf
    <3>3. outbox[m].status = "SENT"
      BY <3>1, <3>2 DEF Quiet
    <3>4. m \in restored
      BY <3>2, <3>3 DEF SystemInv, FlowInv, DeliveredApplied, SentMeansApplied
    <3> QED BY <2>3, <3>2, <3>4 DEF Settling, RestoredBack
  <2> QED BY <2>4, <2>5, <2>6
<1> QED BY <1>1, <1>2 DEF AsideLines

\* Until CreateOrder is told of a failure of an INSERT that was committed, which may
\* never happen: nothing is oversold, an order that stands keeps its units, every line
\* comes back at most once, a refused shopper holds no units, and each step is one of
\* the reservation ledger, that INSERT included (CreateOrder, compensate, processOutbox).
THEOREM SafeUntilACommitIsLost ==
  SystemSpec =>
    /\ [](CommitsKnown => /\ SystemTypeOK /\ NoOversell /\ LiveOrderKeepsStock
                          /\ AtMostOneRestore /\ RefusedLeaksNothing)
    /\ [][CommitsKnown => Ledger!LedgerNext]_(Ledger!ledgerVars)
<1>1. CommitsKnown /\ SystemInv /\ Books =>
        NoOversell /\ LiveOrderKeepsStock /\ AtMostOneRestore
  BY BooksForbidOverselling, StandingKeepsUnits, LineAccount DEF AtMostOneRestore
<1>2. SystemInv /\ Books /\ Settling => SystemTypeOK /\ RefusedLeaksNothing
  BY RefundedLines
  DEF SystemInv, SagaInv, FlowInv, Books, SystemTypeOK, SellerTypeOK, Settling, RefusedLeaksNothing
<1>3. (CommitsKnown => SystemInv) /\ [SystemNext]_systemVars
        => [CommitsKnown => Ledger!LedgerNext]_(Ledger!ledgerVars)
  BY StepIsLedgerStep
<1> QED BY <1>1, <1>2, <1>3, SystemHolds, BooksHold, SettlingHolds, PTL DEF SystemSpec

\* In every reachable state the shelf is no lower than zero or than a seller wrote it, and
\* together with the units of the orders that stand and of the messages still to be applied
\* it never exceeds what was supplied (the stock UPDATEs, CancelWithOutbox, stock_restores).
THEOREM NeverOversold ==
  ASSUME ~CommitUnknown
  PROVE  SystemSpec => []NoOversell
BY SafeUntilACommitIsLost, TruthfulCommits, PTL

\* In every reachable state of the whole order path an order that stands keeps the units
\* of all its lines, relays, cancellations and sellers included.
THEOREM OrdersKeepTheirStock ==
  ASSUME ~CommitUnknown
  PROVE  SystemSpec => []LiveOrderKeepsStock
BY SafeUntilACommitIsLost, TruthfulCommits, PTL

\* In every reachable state in which nothing is on its way and nothing was reported, the
\* books balance to the unit: no road by which units leave the shelf or come back loses
\* one silently (compensate, processOutbox, RestoreStock).  A commit that was reported
\* failed was reported, so it needs no exception.
THEOREM NothingIsLost == SystemSpec => []QuietBooksBalance
<1>1. ASSUME CommitsKnown, SystemInv, Books, Settling PROVE QuietBooksBalance
  BY <1>1, QuietLeavesNothingAside DEF QuietBooksBalance, Books, AccountOf
<1>2. ASSUME CommitShape, ~CommitsKnown PROVE QuietBooksBalance
  BY <1>2 DEF CommitShape, OrderWritten, CommitsKnown, QuietBooksBalance, Quiet
<1> QED BY <1>1, <1>2, SystemHolds, BooksHold, SettlingHolds, CommitsHold, PTL
=============================================================================
