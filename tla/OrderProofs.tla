---------------------------- MODULE OrderProofs -----------------------------
(***************************************************************************)
(* The two halves of the order path.  First facts about lines and messages; *)
(* then CreateOrder: every step of it, and of the calls it abandoned,       *)
(* preserves SagaInv, even when the INSERT of the order was committed and   *)
(* is reported failed, and a refusal that left no log entry has given       *)
(* everything back.  Last, PayOrder, CancelOrder and the relays: every step *)
(* preserves FlowInv and gives back no unit of an order that stands; an     *)
(* answer "paid" or "cancelled" is never contradicted, a delivery counts    *)
(* once, and no row dies unreported.                                        *)
(***************************************************************************)
EXTENDS OrderInvariants, FiniteSetTheorems, TLAPS
-----------------------------------------------------------------------------
(* Lines and messages *)

\* A line is a request paired with the index of one of the request's items.
LEMMA LineIs ==
  /\ \A r \in Requests : \A k \in DOMAIN Cart[r] : <<r, k>> \in Lines
  /\ \A l \in Lines :
       l[1] \in Requests /\ l[2] \in DOMAIN Cart[l[1]] /\ l = <<l[1], l[2]>>
BY DEF Lines, LinesOf

\* Item indices run from 1, and a cart has at least one item.
LEMMA CartShape ==
  \A r \in Requests :
    /\ Len(Cart[r]) \in Nat \ {0}
    /\ DOMAIN Cart[r] = 1..Len(Cart[r])
<1> TAKE r \in Requests
<1>1. Cart[r] \in Seq([product : Products, qty : Nat \ {0}]) /\ Cart[r] # << >>
  BY CartAssumption
<1> QED BY <1>1

\* Every element of a sequence over S is in S.
LEMMA ElementOfSeq ==
  ASSUME NEW S, NEW s \in Seq(S), NEW i \in DOMAIN s
  PROVE  s[i] \in S
OBVIOUS

\* Every line asks for a positive number of units of some product.
LEMMA LineData ==
  \A l \in Lines : ProductOf(l) \in Products /\ QtyOf(l) \in Nat \ {0}
<1> TAKE l \in Lines
<1> DEFINE Item == [product : Products, qty : Nat \ {0}]
<1>1. l[1] \in Requests /\ l[2] \in DOMAIN Cart[l[1]]
  BY LineIs
<1>2. Cart[l[1]] \in Seq(Item)
  BY <1>1, CartAssumption
<1>3. Cart[l[1]][l[2]] \in Item
  <2> HIDE DEF Item
  <2> QED BY <1>1, <1>2, ElementOfSeq
<1> QED BY <1>3 DEF ProductOf, QtyOf

\* A message names a cancelling call and a line of the order it cancels.
LEMMA MessageIs ==
  \A m \in Messages :
    /\ m = <<m[1], LineOf(m)>>
    /\ m[1] \in Handlers /\ LineOf(m) \in Lines
    /\ OrderOf(m) = LineOf(m)[1] /\ OrderOf(m) \in Requests
<1> TAKE m \in Messages
<1>1. m = <<m[1], m[2]>> /\ m[1] \in Handlers /\ m[2] \in Lines
  BY DEF Messages
<1> QED BY <1>1, LineIs DEF LineOf, OrderOf

\* The batch of a cancelling call are its messages for the lines of that order.
LEMMA BatchIs ==
  \A h \in Handlers, o \in Requests : \A m :
    m \in Batch(h, o) <=> m \in Messages /\ m[1] = h /\ OrderOf(m) = o
<1> TAKE h \in Handlers, o \in Requests
<1> TAKE m
<1>1. ASSUME m \in Batch(h, o) PROVE m \in Messages /\ m[1] = h /\ OrderOf(m) = o
  <2>1. PICK l \in LinesOf(o) : m = <<h, l>>
    BY <1>1 DEF Batch
  <2>2. l \in Lines /\ l[1] = o
    BY <2>1 DEF Lines, LinesOf
  <2> QED BY <2>1, <2>2 DEF Messages, OrderOf
<1>2. ASSUME m \in Messages, m[1] = h, OrderOf(m) = o PROVE m \in Batch(h, o)
  <2>1. m = <<h, m[2]>> /\ m[2] \in Lines /\ m[2][1] = o
    BY <1>2 DEF Messages, OrderOf
  <2>2. m[2] \in LinesOf(o)
    BY <2>1, LineIs DEF LinesOf
  <2> QED BY <2>1, <2>2 DEF Batch
<1> QED BY <1>1, <1>2
-----------------------------------------------------------------------------
(* CreateOrder *)

USE DEF StockTypeOK, StoreTypeOK, SagaTypeOK

\* A call in progress is about a line of its own request.
LEMMA CurrentIsLine ==
  ASSUME SagaInv, NEW q \in Requests, pc[q] \in Calling
  PROVE  /\ Current(q) \in Lines
         /\ pc[q] = "deduct" => Current(q) = <<q, got[q] + 1>>
         /\ pc[q] = "compensate" => Current(q) = <<q, undone[q] + 1>>
<1>1. /\ pc[q] = "deduct" => got[q] + 1 \in 1..Len(Cart[q])
      /\ pc[q] = "compensate" => undone[q] + 1 \in 1..Len(Cart[q])
  BY CartShape DEF SagaInv, CallShape
<1> QED BY <1>1, LineIs, CartShape DEF Current, Calling

\* Starting a call.
LEMMA BeginKeepsSaga ==
  ASSUME StockTypeOK, StoreTypeOK, SagaInv, NEW q \in Requests, Begin(q)
  PROVE  SagaInv'
<1> USE DEF Begin, stockVars, storeVars
<1>1. SagaTypeOK'
  BY DEF SagaInv, Running, Calling, Ended
<1>2. CallShape'
  BY CartShape DEF SagaInv, CallShape, Calling
<1>3. OrderWritten'
  BY DEF SagaInv, OrderWritten
<1>4. OrphanedDeductions'
  BY DEF SagaInv, OrphanedDeductions
<1>5. TakenLines'
  <2>1. \A k \in DOMAIN Cart[q] : taken[<<q, k>>] = 0 /\ ~(k <= got[q])
    BY CartShape DEF SagaInv, CallShape, TakenLines
  <2>2. rpc[q] = "idle"
    BY DEF SagaInv, CallShape, Calling
  <2> QED BY <2>1, <2>2 DEF SagaInv, TakenLines
<1>6. OrphanedCompensations'
  BY DEF SagaInv, OrphanedCompensations
<1>7. ReturnedLines'
  BY DEF SagaInv, ReturnedLines
<1>8. CreatedLines'
  BY DEF SagaInv, CreatedLines
<1> QED BY <1>1, <1>2, <1>3, <1>4, <1>5, <1>6, <1>7, <1>8 DEF SagaInv

\* Calling product-service, or failing to under an expired context.
LEMMA CallKeepsSaga ==
  ASSUME StockTypeOK, StoreTypeOK, SagaInv, NEW q \in Requests, Call(q)
  PROVE  SagaInv'
<1> USE DEF Call, stockVars, storeVars, Calling
<1>1. SagaTypeOK'
  BY DEF SagaInv, Running, Ended
<1>2. CallShape'
  BY DEF SagaInv, CallShape
<1>3. OrderWritten'
  BY DEF SagaInv, OrderWritten
<1>4. OrphanedDeductions'
  BY DEF SagaInv, OrphanedDeductions
<1>5. TakenLines'
  BY DEF SagaInv, TakenLines
<1>6. OrphanedCompensations'
  BY DEF SagaInv, OrphanedCompensations
<1>7. ReturnedLines'
  BY DEF SagaInv, ReturnedLines
<1>8. CreatedLines'
  BY DEF SagaInv, CreatedLines
<1> QED BY <1>1, <1>2, <1>3, <1>4, <1>5, <1>6, <1>7, <1>8 DEF SagaInv

\* The read-back and the answer of product-service.
LEMMA ServerAnswersKeepsSaga ==
  ASSUME StockTypeOK, StoreTypeOK, SagaInv, NEW q \in Requests, ServerAnswers(q)
  PROVE  SagaInv'
<1> PICK answer \in {"ok", "refused", "err"} : rpc' = [rpc EXCEPT ![q] = answer]
  BY DEF ServerAnswers, ReadBack
<1>0. /\ pc[q] \in {"deduct", "compensate"} /\ rpc[q] = "applied"
      /\ UNCHANGED <<pc, got, undone, ctxDone, cause, logged, orphans>>
      /\ UNCHANGED <<taken, returned, orders>>
  BY DEF ServerAnswers, stockVars, storeVars, Calling
<1>1. SagaTypeOK'
  BY <1>0 DEF SagaInv
<1>2. CallShape'
  BY <1>0 DEF SagaInv, CallShape, Calling
<1>3. OrderWritten'
  BY <1>0 DEF SagaInv, OrderWritten
<1>4. OrphanedDeductions'
  BY <1>0 DEF SagaInv, OrphanedDeductions
<1>5. TakenLines'
  <2> SUFFICES ASSUME NEW r \in Requests, NEW k \in DOMAIN Cart[r]
               PROVE  TakenLines!(r)!(k)'
    BY DEF TakenLines
  <2>1. TakenLines!(r)!(k)
    BY DEF SagaInv, TakenLines
  <2>2. CASE r = q
    BY <1>0, <2>1, <2>2 DEF SagaInv
  <2>3. CASE r # q
    BY <1>0, <2>1, <2>3 DEF SagaInv
  <2> QED BY <2>2, <2>3
<1>6. OrphanedCompensations'
  BY <1>0 DEF SagaInv, OrphanedCompensations
<1>7. ReturnedLines'
  BY <1>0 DEF SagaInv, ReturnedLines
<1>8. CreatedLines'
  BY <1>0 DEF SagaInv, CreatedLines
<1> QED BY <1>1, <1>2, <1>3, <1>4, <1>5, <1>6, <1>7, <1>8 DEF SagaInv

\* Giving a call up: one that was not executed becomes an orphan.
LEMMA AbandonKeepsSaga ==
  ASSUME StockTypeOK, StoreTypeOK, SagaInv, NEW q \in Requests, Abandon(q)
  PROVE  SagaInv'
<1> USE DEF Abandon, stockVars, storeVars, Calling
<1>1. SagaTypeOK'
  BY CurrentIsLine DEF SagaInv, CallShape, Orphaned, Running, Ended
<1>2. CallShape'
  BY DEF SagaInv, CallShape
<1>3. OrderWritten'
  BY DEF SagaInv, OrderWritten
<1>4. OrphanedDeductions'
  BY CurrentIsLine, CartShape DEF SagaInv, CallShape, OrphanedDeductions, TakenLines, Orphaned
<1>5. TakenLines'
  BY DEF SagaInv, TakenLines
<1>6. OrphanedCompensations'
  BY CurrentIsLine, CartShape DEF SagaInv, CallShape, OrphanedCompensations, ReturnedLines, OrderWritten, Orphaned
<1>7. ReturnedLines'
  BY DEF SagaInv, ReturnedLines
<1>8. CreatedLines'
  BY DEF SagaInv, CreatedLines
<1> QED BY <1>1, <1>2, <1>3, <1>4, <1>5, <1>6, <1>7, <1>8 DEF SagaInv

\* Recording a deducted line.
LEMMA RecordDeductedKeepsSaga ==
  ASSUME StockTypeOK, StoreTypeOK, SagaInv, NEW q \in Requests, RecordDeducted(q)
  PROVE  SagaInv'
<1> USE DEF RecordDeducted, stockVars, storeVars
<1>1. SagaTypeOK'
  BY DEF SagaInv, Running, Calling, Ended
<1>2. CallShape'
  BY CartShape DEF SagaInv, CallShape, Calling
<1>3. OrderWritten'
  BY DEF SagaInv, OrderWritten
<1>4. OrphanedDeductions'
  BY DEF SagaInv, OrphanedDeductions
<1>5. TakenLines'
  <2> SUFFICES ASSUME NEW r \in Requests, NEW k \in DOMAIN Cart[r]
               PROVE  TakenLines!(r)!(k)'
    BY DEF TakenLines
  <2>1. CASE r # q
    BY <2>1 DEF SagaInv, TakenLines
  <2>2. CASE r = q /\ k <= got[q] + 1
    BY <2>2, CartShape DEF SagaInv, TakenLines
  <2>3. CASE r = q /\ k > got[q] + 1
    BY <2>3, CartShape DEF SagaInv, TakenLines
  <2> QED BY <2>1, <2>2, <2>3, CartShape DEF SagaInv
<1>6. OrphanedCompensations'
  BY DEF SagaInv, OrphanedCompensations
<1>7. ReturnedLines'
  BY DEF SagaInv, ReturnedLines
<1>8. CreatedLines'
  BY DEF SagaInv, CreatedLines
<1> QED BY <1>1, <1>2, <1>3, <1>4, <1>5, <1>6, <1>7, <1>8 DEF SagaInv

\* A deduction that was refused or failed.
LEMMA DeductFailsKeepsSaga ==
  ASSUME StockTypeOK, StoreTypeOK, SagaInv, NEW q \in Requests, DeductFails(q)
  PROVE  SagaInv'
<1> USE DEF DeductFails, stockVars, storeVars, AfterFailure
<1>1. SagaTypeOK'
  BY DEF SagaInv, Running, Calling, Ended
<1>2. CallShape'
  BY CartShape DEF SagaInv, CallShape, Calling
<1>3. OrderWritten'
  BY DEF SagaInv, OrderWritten
<1>4. OrphanedDeductions'
  BY DEF SagaInv, OrphanedDeductions
<1>5. TakenLines'
  BY DEF SagaInv, TakenLines
<1>6. OrphanedCompensations'
  BY DEF SagaInv, OrphanedCompensations
<1>7. ReturnedLines'
  BY DEF SagaInv, ReturnedLines
<1>8. CreatedLines'
  BY DEF SagaInv, CreatedLines
<1> QED BY <1>1, <1>2, <1>3, <1>4, <1>5, <1>6, <1>7, <1>8 DEF SagaInv

\* Writing the order.
LEMMA PersistOrderKeepsSaga ==
  ASSUME StockTypeOK, StoreTypeOK, SagaInv, NEW q \in Requests, PersistOrder(q)
  PROVE  SagaInv'
<1> USE DEF PersistOrder, stockVars, CreateRow
<1>1. SagaTypeOK'
  BY DEF SagaInv, Running, Calling, Ended
<1>2. CallShape'
  BY CartShape DEF SagaInv, CallShape, Calling
<1>3. OrderWritten'
  BY DEF SagaInv, OrderWritten
<1>4. OrphanedDeductions'
  BY DEF SagaInv, OrphanedDeductions
<1>5. TakenLines'
  BY DEF SagaInv, TakenLines
<1>6. OrphanedCompensations'
  BY DEF SagaInv, OrphanedCompensations
<1>7. ReturnedLines'
  BY DEF SagaInv, ReturnedLines
<1>8. CreatedLines'
  BY DEF SagaInv, ReturnedLines, CreatedLines
<1> QED BY <1>1, <1>2, <1>3, <1>4, <1>5, <1>6, <1>7, <1>8 DEF SagaInv

\* A failure to write the order.
LEMMA PersistFailsKeepsSaga ==
  ASSUME StockTypeOK, StoreTypeOK, SagaInv, NEW q \in Requests, PersistFails(q)
  PROVE  SagaInv'
<1> USE DEF PersistFails, CreateRow, stockVars, storeVars, AfterFailure
<1>1. SagaTypeOK'
  BY DEF SagaInv, Running, Calling, Ended
<1>2. CallShape'
  BY CartShape DEF SagaInv, CallShape, Calling
<1>3. OrderWritten'
  BY DEF SagaInv, OrderWritten
<1>4. OrphanedDeductions'
  BY DEF SagaInv, OrphanedDeductions
<1>5. TakenLines'
  BY DEF SagaInv, TakenLines
<1>6. OrphanedCompensations'
  BY DEF SagaInv, OrphanedCompensations
<1>7. ReturnedLines'
  BY DEF SagaInv, ReturnedLines
<1>8. CreatedLines'
  BY DEF SagaInv, CreatedLines
<1> QED BY <1>1, <1>2, <1>3, <1>4, <1>5, <1>6, <1>7, <1>8 DEF SagaInv

\* The next iteration of compensate.
LEMMA CompensateNextKeepsSaga ==
  ASSUME StockTypeOK, StoreTypeOK, SagaInv, NEW q \in Requests, CompensateNext(q)
  PROVE  SagaInv'
<1> USE DEF CompensateNext, stockVars, storeVars
<1>1. SagaTypeOK'
  BY CurrentIsLine DEF SagaInv, Running, Calling, Ended
<1>2. CallShape'
  BY CartShape DEF SagaInv, CallShape, Calling
<1>3. OrderWritten'
  BY DEF SagaInv, OrderWritten
<1>4. OrphanedDeductions'
  BY DEF SagaInv, OrphanedDeductions
<1>5. TakenLines'
  <2>1. \A r \in Requests :
          pc'[r] \in {"idle", "deduct"} => pc[r] = pc'[r] /\ rpc'[r] = rpc[r]
    BY DEF SagaInv
  <2>2. UNCHANGED <<got, taken>>
    OBVIOUS
  <2> SUFFICES ASSUME NEW r \in Requests, NEW k \in DOMAIN Cart[r]
               PROVE  TakenLines!(r)!(k)'
    BY DEF TakenLines
  <2>3. TakenLines!(r)!(k)
    BY DEF SagaInv, TakenLines
  <2> HIDE DEF CompensateNext
  <2> QED BY <2>1, <2>2, <2>3
<1>6. OrphanedCompensations'
  BY CartShape DEF SagaInv, OrphanedCompensations
<1>7. ReturnedLines'
  BY CartShape DEF SagaInv, ReturnedLines
<1>8. CreatedLines'
  BY DEF SagaInv, CreatedLines
<1> QED BY <1>1, <1>2, <1>3, <1>4, <1>5, <1>6, <1>7, <1>8 DEF SagaInv

\* The request's context expires.
LEMMA ExpireCtxKeepsSaga ==
  ASSUME StockTypeOK, StoreTypeOK, SagaInv, NEW q \in Requests, ExpireCtx(q)
  PROVE  SagaInv'
<1> USE DEF ExpireCtx, stockVars, storeVars
<1>1. SagaTypeOK'
  BY DEF SagaInv
<1>2. CallShape'
  BY DEF SagaInv, CallShape
<1>3. OrderWritten'
  BY DEF SagaInv, OrderWritten
<1>4. OrphanedDeductions'
  BY DEF SagaInv, OrphanedDeductions
<1>5. TakenLines'
  BY DEF SagaInv, TakenLines
<1>6. OrphanedCompensations'
  BY DEF SagaInv, OrphanedCompensations
<1>7. ReturnedLines'
  BY DEF SagaInv, ReturnedLines
<1>8. CreatedLines'
  BY DEF SagaInv, CreatedLines
<1> QED BY <1>1, <1>2, <1>3, <1>4, <1>5, <1>6, <1>7, <1>8 DEF SagaInv

\* The replica crashes: the call it was waiting for becomes an orphan.
LEMMA CrashKeepsSaga ==
  ASSUME StockTypeOK, StoreTypeOK, SagaInv, NEW q \in Requests, Crash(q)
  PROVE  SagaInv'
<1> USE DEF Crash, stockVars, storeVars, Running, Calling
<1>1. SagaTypeOK'
  BY CurrentIsLine DEF SagaInv, CallShape, Orphaned, Running, Ended
<1>2. CallShape'
  BY DEF SagaInv, CallShape
<1>3. OrderWritten'
  BY DEF SagaInv, OrderWritten
<1>4. OrphanedDeductions'
  BY CurrentIsLine, CartShape DEF SagaInv, CallShape, OrphanedDeductions, TakenLines, Orphaned
<1>5. TakenLines'
  BY DEF SagaInv, TakenLines
<1>6. OrphanedCompensations'
  BY CurrentIsLine, CartShape DEF SagaInv, CallShape, OrphanedCompensations, ReturnedLines, OrderWritten, Orphaned
<1>7. ReturnedLines'
  BY DEF SagaInv, ReturnedLines
<1>8. CreatedLines'
  BY DEF SagaInv, CreatedLines
<1> QED BY <1>1, <1>2, <1>3, <1>4, <1>5, <1>6, <1>7, <1>8 DEF SagaInv

\* What the UPDATE of DeductStock does to the history of its line.
LEMMA DeductEffect ==
  ASSUME StockTypeOK, NEW l \in Lines, NEW outcome \in Outcomes, DeductStock(l, outcome)
  PROVE  /\ StockTypeOK'
         /\ UNCHANGED <<listed, restored, returned>>
         /\ taken' = IF outcome = "applied" THEN [taken EXCEPT ![l] = @ + 1] ELSE taken
BY LineData DEF DeductStock, stockVars, Outcomes

\* What the UPDATE of RestoreStock does to the history of its line.
LEMMA RestoreEffect ==
  ASSUME StockTypeOK, NEW l \in Lines, NEW outcome \in Outcomes, RestoreStock(l, outcome)
  PROVE  /\ StockTypeOK'
         /\ UNCHANGED <<listed, restored, taken>>
         /\ returned' = IF outcome = "applied" THEN [returned EXCEPT ![l] = @ + 1] ELSE returned
BY LineData DEF RestoreStock, AddBack, stockVars, Outcomes

\* The product-service executes the call its caller waits for.
LEMMA ServerExecutesKeepsSaga ==
  ASSUME StockTypeOK, StoreTypeOK, SagaInv, NEW q \in Requests, ServerExecutes(q)
  PROVE  SagaInv' /\ StockTypeOK'
<1> PICK outcome \in Outcomes :
      Execute(pc[q], Current(q), outcome) /\ rpc' = [rpc EXCEPT ![q] = outcome]
  BY DEF ServerExecutes
<1>1. /\ pc[q] \in Calling /\ rpc[q] = "sent"
      /\ UNCHANGED <<pc, got, undone, ctxDone, cause, logged, orphans, storeVars>>
  BY DEF ServerExecutes
<1>2. SagaTypeOK' /\ CallShape' /\ OrderWritten'
  BY <1>1 DEF SagaInv, CallShape, OrderWritten, storeVars, Outcomes
<1>3. CASE pc[q] = "deduct"
  <2>1. Current(q) = <<q, got[q] + 1>> /\ Current(q) \in Lines
    BY <1>1, <1>3, CurrentIsLine
  <2>2. DeductStock(Current(q), outcome)
    BY <1>3 DEF Execute
  <2>3. /\ StockTypeOK' /\ returned' = returned
        /\ taken' = IF outcome = "applied"
                    THEN [taken EXCEPT ![<<q, got[q] + 1>>] = @ + 1] ELSE taken
    BY <2>1, <2>2, DeductEffect
  <2>4. OrphanedDeductions'
    BY <1>1, <1>3, <2>3, LineIs DEF SagaInv, OrphanedDeductions
  <2>5. TakenLines'
    <3> SUFFICES ASSUME NEW r \in Requests, NEW k \in DOMAIN Cart[r]
                 PROVE  TakenLines!(r)!(k)'
      BY DEF TakenLines
    <3>1. CASE r = q /\ k = got[q] + 1
      BY <1>1, <1>3, <2>3, <3>1, LineIs DEF SagaInv, TakenLines, Outcomes
    <3>2. CASE <<r, k>> # <<q, got[q] + 1>>
      BY <1>1, <1>3, <2>3, <3>2, LineIs DEF SagaInv, TakenLines
    <3> QED BY <3>1, <3>2
  <2>6. OrphanedCompensations' /\ ReturnedLines' /\ CreatedLines'
    BY <1>1, <1>3, <2>3
    DEF SagaInv, OrphanedCompensations, ReturnedLines, CreatedLines, storeVars
  <2> QED BY <1>2, <2>3, <2>4, <2>5, <2>6 DEF SagaInv
<1>4. CASE pc[q] = "compensate"
  <2>1. Current(q) = <<q, undone[q] + 1>> /\ Current(q) \in Lines
    BY <1>1, <1>4, CurrentIsLine
  <2>2. RestoreStock(Current(q), outcome)
    BY <1>4 DEF Execute
  <2>3. /\ StockTypeOK' /\ taken' = taken
        /\ returned' = IF outcome = "applied"
                       THEN [returned EXCEPT ![<<q, undone[q] + 1>>] = @ + 1] ELSE returned
    BY <2>1, <2>2, RestoreEffect
  <2>4. OrphanedDeductions' /\ TakenLines'
    BY <1>1, <1>4, <2>3 DEF SagaInv, OrphanedDeductions, TakenLines
  <2>5. OrphanedCompensations'
    <3>1. undone[q] + 1 \in DOMAIN Cart[q] /\ undone[q] \in Nat
      BY <1>4, CartShape DEF SagaInv, CallShape
    <3>2. <<"compensate", <<q, undone[q] + 1>>>> \notin orphans
      BY <1>1, <1>4, <3>1 DEF SagaInv, OrphanedCompensations
    <3> QED BY <1>1, <2>1, <2>3, <3>2, LineIs DEF SagaInv, OrphanedCompensations
  <2>6. pc[q] # "created"
    BY <1>4
  <2>7. ReturnedLines'
    <3> SUFFICES ASSUME NEW r \in Requests, NEW k \in DOMAIN Cart[r]
                 PROVE  ReturnedLines!(r)!(k)'
      BY DEF ReturnedLines
    <3>1. CASE r = q /\ k = undone[q] + 1
      <4>1. returned[<<r, k>>] = 0 /\ k <= got[r]
        BY <1>1, <1>4, <2>6, <3>1 DEF SagaInv, CallShape, ReturnedLines
      <4>2. returned'[<<r, k>>] \in {0, 1} /\ (outcome # "applied" => returned'[<<r, k>>] = 0)
        BY <2>3, <3>1, <4>1, LineIs
      <4> QED BY <1>1, <1>4, <3>1, <4>1, <4>2, CartShape DEF SagaInv
    <3>2. CASE <<r, k>> # <<q, undone[q] + 1>>
      BY <1>1, <1>4, <2>3, <3>2, LineIs DEF SagaInv, ReturnedLines, storeVars
    <3> QED BY <3>1, <3>2
  <2>8. CreatedLines'
    BY <1>1, <2>3, <2>6, LineIs DEF SagaInv, CreatedLines, storeVars
  <2> QED BY <1>2, <2>3, <2>4, <2>5, <2>7, <2>8 DEF SagaInv
<1> QED BY <1>1, <1>3, <1>4 DEF Calling

\* The product-service executes a call its caller has given up.
LEMMA OrphanExecutesKeepsSaga ==
  ASSUME StockTypeOK, StoreTypeOK, SagaInv,
         NEW op \in Calling, NEW l \in Lines, OrphanExecutes(op, l)
  PROVE  SagaInv' /\ StockTypeOK'
<1> PICK outcome \in Outcomes : Execute(op, l, outcome)
  BY DEF OrphanExecutes
<1>1. /\ <<op, l>> \in orphans /\ orphans' = orphans \ {<<op, l>>}
      /\ UNCHANGED <<pc, got, undone, rpc, ctxDone, cause, logged, storeVars>>
  BY DEF OrphanExecutes
<1>2. SagaTypeOK' /\ CallShape' /\ OrderWritten'
  BY <1>1 DEF SagaInv, CallShape, OrderWritten, storeVars
<1>3. PICK q \in Requests : \E j \in DOMAIN Cart[q] : l = <<q, j>>
  BY LineIs
<1>4. CASE op = "deduct"
  <2>1. DeductStock(l, outcome)
    BY <1>4 DEF Execute
  <2>2. /\ StockTypeOK' /\ returned' = returned
        /\ taken' = IF outcome = "applied" THEN [taken EXCEPT ![l] = @ + 1] ELSE taken
    BY <2>1, DeductEffect
  <2>3. OrphanedDeductions'
    BY <1>1, <1>4, <2>2, LineIs DEF SagaInv, OrphanedDeductions
  <2>4. TakenLines'
    <3> SUFFICES ASSUME NEW r \in Requests, NEW k \in DOMAIN Cart[r]
                 PROVE  TakenLines!(r)!(k)'
      BY DEF TakenLines
    <3>1. CASE l = <<r, k>>
      <4>1. k = got[r] + 1 /\ taken[<<r, k>>] = 0
        BY <1>1, <1>4, <3>1 DEF SagaInv, OrphanedDeductions
      <4>2. pc[r] \in {"compensate", "failed", "crashed"} \/ (pc[r] = "deduct" /\ rpc[r] = "err")
        BY <1>1, <1>4, <3>1 DEF SagaInv, OrphanedDeductions
      <4>3. taken'[<<r, k>>] \in {0, 1}
        BY <2>2, <3>1, <4>1
      <4> QED BY <1>1, <4>1, <4>2, <4>3, CartShape DEF SagaInv
    <3>2. CASE l # <<r, k>>
      BY <1>1, <2>2, <3>2, LineIs DEF SagaInv, TakenLines
    <3> QED BY <3>1, <3>2
  <2>5. OrphanedCompensations' /\ ReturnedLines' /\ CreatedLines'
    BY <1>1, <2>2
    DEF SagaInv, OrphanedCompensations, ReturnedLines, CreatedLines, storeVars
  <2> QED BY <1>2, <2>2, <2>3, <2>4, <2>5 DEF SagaInv
<1>5. CASE op = "compensate"
  <2>1. RestoreStock(l, outcome)
    BY <1>5 DEF Execute
  <2>2. /\ StockTypeOK' /\ taken' = taken
        /\ returned' = IF outcome = "applied" THEN [returned EXCEPT ![l] = @ + 1] ELSE returned
    BY <2>1, RestoreEffect
  <2>3. OrphanedDeductions' /\ TakenLines'
    BY <1>1, <2>2 DEF SagaInv, OrphanedDeductions, TakenLines
  <2>4. OrphanedCompensations'
    BY <1>1, <1>5, <2>2, LineIs DEF SagaInv, OrphanedCompensations
  <2>5. pc[q] # "created"
    BY <1>1, <1>3, <1>5 DEF SagaInv, OrphanedCompensations
  <2>6. ReturnedLines'
    <3> SUFFICES ASSUME NEW r \in Requests, NEW k \in DOMAIN Cart[r]
                 PROVE  ReturnedLines!(r)!(k)'
      BY DEF ReturnedLines
    <3>1. CASE l = <<r, k>>
      <4>1. \/ pc[r] \in {"failed", "crashed"}
            \/ pc[r] = "compensate" /\ k <= undone[r]
            \/ pc[r] = "compensate" /\ k = undone[r] + 1 /\ rpc[r] = "err"
        BY <1>1, <1>5, <3>1 DEF SagaInv, OrphanedCompensations
      <4>2. k <= got[r] /\ returned[<<r, k>>] = 0
        BY <1>1, <1>5, <3>1 DEF SagaInv, OrphanedCompensations
      <4>3. returned'[<<r, k>>] \in {0, 1}
        BY <2>2, <3>1, <4>2
      <4> QED BY <1>1, <4>1, <4>2, <4>3, CartShape DEF SagaInv
    <3>2. CASE l # <<r, k>>
      BY <1>1, <2>2, <3>2, LineIs DEF SagaInv, ReturnedLines, storeVars
    <3> QED BY <3>1, <3>2
  <2>7. CreatedLines'
    BY <1>1, <1>3, <2>2, <2>5, LineIs DEF SagaInv, CreatedLines, storeVars
  <2> QED BY <1>2, <2>2, <2>3, <2>4, <2>6, <2>7 DEF SagaInv
<1> QED BY <1>4, <1>5 DEF Calling

\* One step of any CreateOrder call.
LEMMA SagaNextKeepsSaga ==
  ASSUME StockTypeOK, StoreTypeOK, SagaInv, SagaNext
  PROVE  SagaInv' /\ StockTypeOK' /\ StoreTypeOK'
<1>1. ASSUME NEW op \in Calling, NEW l \in Lines, OrphanExecutes(op, l)
      PROVE  SagaInv' /\ StockTypeOK' /\ StoreTypeOK'
  BY <1>1, OrphanExecutesKeepsSaga DEF OrphanExecutes, storeVars
<1>2. ASSUME NEW q \in Requests, Begin(q) \/ Progress(q) \/ ExpireCtx(q) \/ Crash(q)
      PROVE  SagaInv'
  BY <1>2, BeginKeepsSaga, CallKeepsSaga, ServerExecutesKeepsSaga, ServerAnswersKeepsSaga,
     AbandonKeepsSaga, RecordDeductedKeepsSaga, DeductFailsKeepsSaga, PersistOrderKeepsSaga,
     PersistFailsKeepsSaga, CompensateNextKeepsSaga, ExpireCtxKeepsSaga, CrashKeepsSaga
  DEF Progress
<1>3. ASSUME NEW q \in Requests, Begin(q) \/ Progress(q) \/ ExpireCtx(q) \/ Crash(q)
      PROVE  StockTypeOK'
  <2>1. CASE ServerExecutes(q)
    BY <2>1, ServerExecutesKeepsSaga
  <2>2. CASE ~ServerExecutes(q)
    BY <1>3, <2>2
    DEF Begin, Progress, Call, ServerAnswers, Abandon, RecordDeducted, DeductFails,
        PersistOrder, PersistFails, CompensateNext, ExpireCtx, Crash, stockVars
  <2> QED BY <2>1, <2>2
<1>4. ASSUME NEW q \in Requests, Begin(q) \/ Progress(q) \/ ExpireCtx(q) \/ Crash(q)
      PROVE  StoreTypeOK'
  <2>1. CASE UNCHANGED storeVars
    BY <2>1 DEF storeVars
  <2>2. CASE CreateRow(q)
    BY <2>2 DEF CreateRow, OrderStates
  <2>3. UNCHANGED storeVars \/ CreateRow(q)
    BY <1>4
    DEF Begin, Progress, Call, ServerExecutes, ServerAnswers, Abandon, RecordDeducted,
        DeductFails, PersistOrder, PersistFails, CompensateNext, ExpireCtx, Crash
  <2> QED BY <2>1, <2>2, <2>3
<1> QED BY <1>1, <1>2, <1>3, <1>4 DEF SagaNext

\* A seller deleting a product touches neither a call nor the history of a line.
LEMMA SellerKeepsSaga ==
  ASSUME StockTypeOK, StoreTypeOK, SagaInv, SellerNext
  PROVE  SagaInv' /\ StockTypeOK' /\ StoreTypeOK'
<1>1. UNCHANGED <<sagaVars, storeVars, taken, returned>> /\ StockTypeOK'
  BY DEF SellerNext, DeleteProduct
<1>2. SagaTypeOK' /\ CallShape' /\ OrderWritten'
  BY <1>1 DEF SagaInv, CallShape, OrderWritten, sagaVars, storeVars
<1>3. OrphanedDeductions' /\ TakenLines'
  BY <1>1 DEF SagaInv, OrphanedDeductions, TakenLines, sagaVars
<1>4. OrphanedCompensations' /\ ReturnedLines' /\ CreatedLines'
  BY <1>1 DEF SagaInv, OrphanedCompensations, ReturnedLines, CreatedLines, sagaVars, storeVars
<1> QED BY <1>1, <1>2, <1>3, <1>4 DEF SagaInv, storeVars

\* The invariant holds before the first call.
LEMMA SagaInitially ==
  ASSUME StockInit, StoreInit, SagaInit
  PROVE  StockTypeOK /\ StoreTypeOK /\ SagaInv
<1>1. StockTypeOK
  BY StockAssumption DEF StockInit
<1>2. StoreTypeOK
  BY RetryAssumption DEF StoreInit, OrderStates, Row, NoRow
<1>3. SagaTypeOK
  BY DEF SagaInit
<1>4. CallShape /\ OrderWritten
  BY CartShape DEF SagaInit, StoreInit, CallShape, OrderWritten, Calling
<1>5. OrphanedDeductions /\ OrphanedCompensations
  BY DEF SagaInit, OrphanedDeductions, OrphanedCompensations
<1>6. TakenLines /\ ReturnedLines /\ CreatedLines
  BY CartShape, LineIs
  DEF StockInit, SagaInit, StoreInit, TakenLines, ReturnedLines, CreatedLines
<1> QED BY <1>1, <1>2, <1>3, <1>4, <1>5, <1>6 DEF SagaInv
-----------------------------------------------------------------------------
(* The CreateOrder calls on their own *)

\* Without PayOrder and CancelOrder a written order stays PENDING.
OnlyPending == \A r \in Requests : orders[r] \in {"none", "PENDING"}

SagaAlone == StockTypeOK /\ StoreTypeOK /\ SagaInv /\ OnlyPending

\* Whatever calls are refused, fail, lose their answer, execute late or die with
\* their replica, the parts of SagaInv hold throughout.
LEMMA SagaAloneHolds == SagaSpec => []SagaAlone
<1>1. ASSUME StockInit, StoreInit, SagaInit PROVE SagaAlone
  BY <1>1, SagaInitially DEF SagaAlone, OnlyPending, StoreInit
<1>2. ASSUME SagaAlone, [SagaNext \/ SellerNext]_sagaSpecVars PROVE SagaAlone'
  <2>1. CASE SagaNext
    <3>1. SagaInv' /\ StockTypeOK' /\ StoreTypeOK'
      BY <1>2, <2>1, SagaNextKeepsSaga DEF SagaAlone
    <3>2. \/ UNCHANGED storeVars
          \/ \E q \in Requests : CreateRow(q)
      BY <2>1
      DEF SagaNext, Begin, Progress, Call, ServerExecutes, ServerAnswers, Abandon,
          RecordDeducted, DeductFails, PersistOrder, PersistFails, CompensateNext,
          ExpireCtx, Crash, OrphanExecutes
    <3>3. OnlyPending'
      BY <1>2, <3>2 DEF SagaAlone, OnlyPending, CreateRow, storeVars
    <3> QED BY <3>1, <3>3 DEF SagaAlone
  <2>2. CASE SellerNext
    <3>1. OnlyPending'
      BY <1>2, <2>2 DEF SellerNext, SagaAlone, OnlyPending, storeVars
    <3> QED BY <1>2, <2>2, <3>1, SellerKeepsSaga DEF SagaAlone
  <2>3. CASE UNCHANGED sagaSpecVars
    <3>1. UNCHANGED <<stockVars, storeVars, sagaVars>>
      BY <2>3 DEF sagaSpecVars
    <3>2. StockTypeOK' /\ StoreTypeOK' /\ SagaTypeOK' /\ OnlyPending'
      BY <1>2, <3>1 DEF SagaAlone, SagaInv, OnlyPending, stockVars, storeVars, sagaVars
    <3>3. CallShape' /\ OrderWritten' /\ OrphanedDeductions' /\ TakenLines'
      BY <1>2, <3>1 DEF SagaAlone, SagaInv, CallShape, OrderWritten, OrphanedDeductions,
        TakenLines, stockVars, storeVars, sagaVars
    <3>4. OrphanedCompensations' /\ ReturnedLines' /\ CreatedLines'
      BY <1>2, <3>1 DEF SagaAlone, SagaInv, OrphanedCompensations, ReturnedLines,
        CreatedLines, stockVars, storeVars, sagaVars
    <3> QED BY <3>2, <3>3, <3>4 DEF SagaAlone, SagaInv
  <2> QED BY <1>2, <2>1, <2>2, <2>3
<1> QED BY <1>1, <1>2, PTL DEF SagaSpec, AloneInit

\* In every reachable state an order that was written keeps its units: each line was
\* deducted exactly once, and no compensation, however late, gives one back.
THEOREM LiveOrdersKeepTheirStock ==
  ASSUME ~CommitUnknown
  PROVE  SagaSpec => []LiveOrderKeepsStock
<1>1. ASSUME SagaAlone PROVE LiveOrderKeepsStock
  <2> SUFFICES ASSUME NEW r \in Requests, orders[r] \in {"PENDING", "PAID"},
                      NEW l \in LinesOf(r)
               PROVE  taken[l] = 1 /\ returned[l] = 0
    BY DEF LiveOrderKeepsStock, Standing
  <2>1. PICK k \in DOMAIN Cart[r] : l = <<r, k>>
    BY DEF LinesOf
  <2>2. pc[r] = "created" /\ got[r] = Len(Cart[r])
    BY <1>1 DEF SagaAlone, SagaInv, OrderWritten, CallShape
  <2>3. taken[l] = 1
    BY <1>1, <2>1, <2>2, CartShape DEF SagaAlone, SagaInv, TakenLines
  <2>4. returned[l] = 0
    BY <1>1, <2>1, <2>2 DEF SagaAlone, SagaInv, CreatedLines
  <2> QED BY <2>3, <2>4
<1> QED BY <1>1, SagaAloneHolds, PTL

\* In every reachable state no line was deducted twice, and none came back more
\* often than it was deducted: what product.proto asks of the caller of RestoreStock.
THEOREM CompensationRestoresOnce == SagaSpec => []AtMostOneRestore
<1>1. ASSUME SagaAlone PROVE AtMostOneRestore
  <2> SUFFICES ASSUME NEW l \in Lines PROVE returned[l] <= taken[l] /\ taken[l] <= 1
    BY DEF AtMostOneRestore
  <2>1. PICK r \in Requests : \E k \in DOMAIN Cart[r] : l = <<r, k>>
    BY LineIs
  <2>2. PICK k \in DOMAIN Cart[r] : l = <<r, k>>
    BY <2>1
  <2>3. taken[l] \in {0, 1} /\ (k <= got[r] => taken[l] = 1)
    BY <1>1, <2>2 DEF SagaAlone, SagaInv, TakenLines
  <2>4. returned[l] \in {0, 1} /\ (k > got[r] => returned[l] = 0)
    <3>1. CASE pc[r] # "created"
      BY <1>1, <2>2, <3>1 DEF SagaAlone, SagaInv, ReturnedLines
    <3>2. CASE pc[r] = "created"
      <4>1. orders[r] = "PENDING"
        BY <1>1, <3>2 DEF SagaAlone, SagaInv, OrderWritten, OnlyPending
      <4> QED BY <1>1, <2>2, <3>2, <4>1, CartShape DEF SagaAlone, SagaInv, CreatedLines, CallShape
    <3> QED BY <3>1, <3>2
  <2> QED BY <1>1, <2>3, <2>4, CartShape DEF SagaAlone, SagaInv
<1> QED BY <1>1, SagaAloneHolds, PTL

\* The variables of CreateOrder keep their types.
THEOREM SagaTypesHold == SagaSpec => [](StockTypeOK /\ StoreTypeOK /\ SagaTypeOK)
<1>1. SagaAlone => StockTypeOK /\ StoreTypeOK /\ SagaTypeOK
  BY DEF SagaAlone, SagaInv
<1> QED BY <1>1, SagaAloneHolds, PTL
-----------------------------------------------------------------------------
(* A refused CreateOrder *)

\* Every recorded line that compensate() is through with is back, unless the log says
\* that it is not or its product is gone.
Compensated(r) ==
  /\ pc[r] = "failed" => undone[r] = got[r]
  /\ pc[r] \in {"compensate", "failed"} =>
       \A k \in DOMAIN Cart[r] :
         k <= undone[r] /\ Listed(<<r, k>>) /\ <<r, k>> \notin logged => returned[<<r, k>>] = 1
  /\ pc[r] = "compensate" /\ rpc[r] \in {"applied", "ok"} =>
       \A k \in DOMAIN Cart[r] : k = undone[r] + 1 => returned[<<r, k>>] = 1

\* The line that was refused was not deducted and never will be.
RefusedIsUntaken(r) ==
  /\ pc[r] = "deduct" /\ rpc[r] = "refused" =>
       \A k \in DOMAIN Cart[r] :
         k = got[r] + 1 /\ Listed(<<r, k>>) => taken[<<r, k>>] = 0
  /\ pc[r] \in {"compensate", "failed"} /\ cause[r] = "refused" =>
       \A k \in DOMAIN Cart[r] : k = got[r] + 1 =>
         /\ <<"deduct", <<r, k>>>> \notin orphans
         /\ Listed(<<r, k>>) => taken[<<r, k>>] = 0

Refunding == \A r \in Requests : Compensated(r) /\ RefusedIsUntaken(r)

\* What others may do to the lines of a request that is not their own.
LEMMA OthersStand ==
  ASSUME Refunding, NEW r \in Requests,
         pc'[r] = pc[r], got'[r] = got[r], undone'[r] = undone[r], rpc'[r] = rpc[r],
         cause'[r] = cause[r], listed' \subseteq listed,
         \A k \in DOMAIN Cart[r] :
           /\ <<r, k>> \in logged => <<r, k>> \in logged'
           /\ <<"deduct", <<r, k>>>> \in orphans' => <<"deduct", <<r, k>>>> \in orphans
           /\ returned'[<<r, k>>] = returned[<<r, k>>] \/ returned[<<r, k>>] = 0
           /\ \/ taken'[<<r, k>>] = taken[<<r, k>>]
              \/ <<"deduct", <<r, k>>>> \in orphans /\ ~(pc[r] = "deduct" /\ rpc[r] = "refused")
  PROVE  (Compensated(r) /\ RefusedIsUntaken(r))'
<1>1. Compensated(r)'
  <2>1. Compensated(r)
    BY DEF Refunding
  <2>2. ASSUME NEW k \in DOMAIN Cart[r], returned[<<r, k>>] = 1 PROVE returned'[<<r, k>>] = 1
    <3>1. returned'[<<r, k>>] = returned[<<r, k>>] \/ returned[<<r, k>>] = 0
      OBVIOUS
    <3> QED BY <2>2, <3>1
  <2>3. \A k \in DOMAIN Cart[r] :
          Listed(<<r, k>>)' /\ <<r, k>> \notin logged' => Listed(<<r, k>>) /\ <<r, k>> \notin logged
    BY DEF Listed
  <2> QED BY <2>1, <2>2, <2>3 DEF Compensated
<1>2. RefusedIsUntaken(r)'
  BY DEF Refunding, RefusedIsUntaken, Listed
<1> QED BY <1>1, <1>2

\* An abandoned call that executes now.
LEMMA OrphanRefunds ==
  ASSUME StockTypeOK, SagaInv, Refunding, NEW op \in Calling, NEW l \in Lines,
         OrphanExecutes(op, l)
  PROVE  Refunding'
<1> PICK outcome \in Outcomes : Execute(op, l, outcome)
  BY DEF OrphanExecutes
<1>1. /\ <<op, l>> \in orphans /\ orphans' = orphans \ {<<op, l>>}
      /\ UNCHANGED <<pc, got, undone, rpc, cause, logged>>
  BY DEF OrphanExecutes
<1>2. taken \in [Lines -> Nat] /\ returned \in [Lines -> Nat]
  BY DEF StockTypeOK
<1>3. /\ listed' = listed
      /\ \A x \in Lines : taken'[x] = taken[x] \/ (x = l /\ op = "deduct")
      /\ \A x \in Lines : returned'[x] = returned[x] \/ (x = l /\ op = "compensate")
  BY <1>2, DeductEffect, RestoreEffect DEF Execute
<1>4. ASSUME NEW r \in Requests PROVE (Compensated(r) /\ RefusedIsUntaken(r))'
  <2>1. ASSUME NEW k \in DOMAIN Cart[r]
        PROVE  /\ returned'[<<r, k>>] = returned[<<r, k>>] \/ returned[<<r, k>>] = 0
               /\ \/ taken'[<<r, k>>] = taken[<<r, k>>]
                  \/ <<"deduct", <<r, k>>>> \in orphans
                       /\ ~(pc[r] = "deduct" /\ rpc[r] = "refused")
    <3>1. <<r, k>> \in Lines
      BY LineIs
    <3>2. returned'[<<r, k>>] = returned[<<r, k>>] \/ returned[<<r, k>>] = 0
      BY <1>1, <1>3, <3>1 DEF SagaInv, OrphanedCompensations
    <3>3. CASE <<r, k>> = l /\ op = "deduct"
      BY <1>1, <3>2, <3>3 DEF SagaInv, OrphanedDeductions
    <3> QED BY <1>3, <3>1, <3>2, <3>3
  <2> QED BY <1>1, <1>3, <2>1, OthersStand
<1> QED BY <1>4 DEF Refunding

\* A step of one request leaves the lines and calls of the others alone.
LEMMA OwnLinesOnly ==
  ASSUME StockTypeOK, SagaInv, NEW q \in Requests, NEW r \in Requests, r # q,
         Begin(q) \/ Progress(q) \/ ExpireCtx(q) \/ Crash(q)
  PROVE  /\ pc'[r] = pc[r] /\ got'[r] = got[r] /\ undone'[r] = undone[r]
         /\ rpc'[r] = rpc[r] /\ cause'[r] = cause[r] /\ listed' = listed
         /\ \A k \in DOMAIN Cart[r] :
              /\ <<r, k>> \in logged => <<r, k>> \in logged'
              /\ <<"deduct", <<r, k>>>> \in orphans' => <<"deduct", <<r, k>>>> \in orphans
              /\ returned'[<<r, k>>] = returned[<<r, k>>]
              /\ taken'[<<r, k>>] = taken[<<r, k>>]
<1>1. SagaTypeOK
  BY DEF SagaInv
<1>2. CASE ServerExecutes(q)
  <2>1. PICK outcome \in Outcomes :
          Execute(pc[q], Current(q), outcome) /\ rpc' = [rpc EXCEPT ![q] = outcome]
    BY <1>2 DEF ServerExecutes
  <2>2. Current(q) \in Lines /\ Current(q)[1] = q
    BY <1>2, CurrentIsLine DEF ServerExecutes, Current
  <2>3. taken \in [Lines -> Nat] /\ returned \in [Lines -> Nat]
    BY DEF StockTypeOK
  <2>4. /\ listed' = listed
        /\ \A x \in Lines : x # Current(q) => taken'[x] = taken[x] /\ returned'[x] = returned[x]
    BY <2>1, <2>2, <2>3, DeductEffect, RestoreEffect DEF Execute
  <2>5. \A k \in DOMAIN Cart[r] : <<r, k>> \in Lines /\ <<r, k>> # Current(q)
    BY <2>2, LineIs
  <2> QED BY <1>1, <1>2, <2>1, <2>4, <2>5 DEF ServerExecutes, SagaTypeOK
<1>3. ASSUME ~ServerExecutes(q) PROVE UNCHANGED stockVars
  BY <1>3 DEF Begin, Progress, Call, ServerAnswers, Abandon, RecordDeducted, DeductFails,
     PersistOrder, PersistFails, CompensateNext, ExpireCtx, Crash
<1>4. /\ pc'[r] = pc[r] /\ got'[r] = got[r] /\ undone'[r] = undone[r]
      /\ rpc'[r] = rpc[r] /\ cause'[r] = cause[r]
  BY <1>1 DEF SagaTypeOK, Begin, Progress, Call, ServerExecutes, ServerAnswers, Abandon,
     RecordDeducted, DeductFails, PersistOrder, PersistFails, CompensateNext, ExpireCtx, Crash
<1>5. logged \subseteq logged'
  BY DEF Begin, Progress, Call, ServerExecutes, ServerAnswers, Abandon,
     RecordDeducted, DeductFails, PersistOrder, PersistFails, CompensateNext, ExpireCtx, Crash
<1>6. orphans' \subseteq orphans \cup Orphaned(q)
  BY DEF Begin, Progress, Call, ServerExecutes, ServerAnswers, Abandon,
     RecordDeducted, DeductFails, PersistOrder, PersistFails, CompensateNext, ExpireCtx, Crash
<1>7. \A k : <<"deduct", <<r, k>>>> \notin Orphaned(q)
  BY DEF Orphaned, Current
<1> QED BY <1>2, <1>3, <1>4, <1>5, <1>6, <1>7 DEF stockVars

\* product-service executes or answers the call of the request itself.
LEMMA AnswerRefunds ==
  ASSUME StockTypeOK, StoreTypeOK, SagaInv, Refunding, NEW q \in Requests,
         ServerExecutes(q) \/ ServerAnswers(q)
  PROVE  (Compensated(q) /\ RefusedIsUntaken(q))'
<1> USE DEF Calling
<1>1. /\ SagaTypeOK /\ pc[q] \in Calling /\ Current(q) \in Lines
      /\ pc[q] = "deduct" => Current(q) = <<q, got[q] + 1>>
      /\ pc[q] = "compensate" => Current(q) = <<q, undone[q] + 1>>
  BY CurrentIsLine DEF ServerExecutes, ServerAnswers, SagaInv
<1>2. UNCHANGED <<pc, got, undone, cause, logged, orphans>>
  BY DEF ServerExecutes, ServerAnswers
<1>3. taken \in [Lines -> Nat] /\ returned \in [Lines -> Nat]
  BY DEF StockTypeOK
<1>4. \A k \in DOMAIN Cart[q] : <<q, k>> \in Lines
  BY LineIs
<1>5. got[q] \in Nat /\ undone[q] \in Nat /\ \A k \in DOMAIN Cart[q] : k \in Nat
  BY <1>1, CartShape DEF SagaTypeOK
<1>6. CASE ServerAnswers(q)
  <2>1. PICK answer \in ReadBack(Current(q)) : rpc' = [rpc EXCEPT ![q] = answer]
    BY <1>6 DEF ServerAnswers
  <2>2. rpc[q] = "applied" /\ UNCHANGED <<listed, taken, returned>>
    BY <1>6 DEF ServerAnswers, stockVars
  <2>3. rpc'[q] = "refused" => ~Listed(Current(q))
    BY <1>1, <2>1 DEF ReadBack, SagaTypeOK
  <2>4. Compensated(q)'
    BY <1>1, <1>2, <2>1, <2>2 DEF Refunding, Compensated, Listed, SagaTypeOK
  <2>5. RefusedIsUntaken(q)'
    BY <1>1, <1>2, <2>2, <2>3 DEF Refunding, RefusedIsUntaken, Listed
  <2> QED BY <2>4, <2>5
<1>7. CASE ServerExecutes(q)
  <2>1. PICK outcome \in Outcomes :
          Execute(pc[q], Current(q), outcome) /\ rpc' = [rpc EXCEPT ![q] = outcome]
    BY <1>7 DEF ServerExecutes
  <2>2. rpc[q] = "sent" /\ rpc'[q] = outcome
    BY <1>1, <1>7, <2>1 DEF ServerExecutes, SagaTypeOK
  <2>3. CASE pc[q] = "deduct"
    <3>1. /\ UNCHANGED <<listed, returned>>
          /\ outcome # "applied" => taken' = taken
      BY <1>1, <2>1, <2>3, DeductEffect DEF Execute
    <3>2. \A k \in DOMAIN Cart[q] : k = got[q] + 1 => taken[<<q, k>>] = 0
      BY <2>2, <2>3 DEF SagaInv, TakenLines
    <3>3. Compensated(q)'
      BY <1>2, <2>3 DEF Compensated
    <3>4. RefusedIsUntaken(q)'
      BY <1>2, <2>2, <2>3, <3>1, <3>2 DEF RefusedIsUntaken
    <3> QED BY <3>3, <3>4
  <2>4. CASE pc[q] = "compensate"
    <3>1. /\ UNCHANGED <<listed, taken>>
          /\ returned' = IF outcome = "applied"
                         THEN [returned EXCEPT ![Current(q)] = @ + 1] ELSE returned
      BY <1>1, <2>1, <2>4, RestoreEffect DEF Execute
    <3>2. \A k \in DOMAIN Cart[q] : k = undone[q] + 1 => returned[<<q, k>>] = 0
      BY <2>2, <2>4 DEF SagaInv, ReturnedLines, OrderWritten
    <3>3. \A k \in DOMAIN Cart[q] : k <= undone[q] => returned'[<<q, k>>] = returned[<<q, k>>]
      BY <1>1, <1>3, <1>4, <1>5, <2>4, <3>1
    <3>4. outcome = "applied" =>
            \A k \in DOMAIN Cart[q] : k = undone[q] + 1 => returned'[<<q, k>>] = 1
      BY <1>1, <1>3, <1>4, <1>5, <2>4, <3>1, <3>2
    <3>5. Compensated(q)'
      <4>1. \A k \in DOMAIN Cart[q] :
              k <= undone[q] /\ Listed(<<q, k>>) /\ <<q, k>> \notin logged => returned'[<<q, k>>] = 1
        BY <2>4, <3>3 DEF Refunding, Compensated
      <4> QED BY <1>2, <2>2, <2>4, <3>1, <3>4, <4>1 DEF Compensated, Listed, Outcomes
    <3>6. RefusedIsUntaken(q)'
      BY <1>2, <2>4, <3>1 DEF Refunding, RefusedIsUntaken, Listed
    <3> QED BY <3>5, <3>6
  <2> QED BY <1>1, <2>3, <2>4
<1> QED BY <1>6, <1>7

\* CreateOrder takes the answer, or gives the call up.
LEMMA CallerRefunds ==
  ASSUME StockTypeOK, StoreTypeOK, SagaInv, Refunding, NEW q \in Requests,
         \/ Begin(q) \/ ExpireCtx(q) \/ Crash(q) \/ Call(q) \/ Abandon(q)
         \/ RecordDeducted(q) \/ DeductFails(q) \/ PersistOrder(q) \/ PersistFails(q)
         \/ CompensateNext(q)
  PROVE  (Compensated(q) /\ RefusedIsUntaken(q))'
<1>1. /\ SagaTypeOK /\ undone[q] \in Nat /\ got[q] \in Nat
      /\ \A k \in DOMAIN Cart[q] : k \in Nat /\ k >= 1
  BY CartShape DEF SagaInv, SagaTypeOK
<1>2. UNCHANGED stockVars
  BY DEF Begin, ExpireCtx, Crash, Call, Abandon, RecordDeducted, DeductFails, PersistOrder,
     PersistFails, CompensateNext
<1>3. Compensated(q) /\ RefusedIsUntaken(q)
  BY DEF Refunding
<1>4. CASE Begin(q) \/ RecordDeducted(q) \/ PersistOrder(q) \/ Crash(q)
  <2>1. pc'[q] \notin {"compensate", "failed"}
        /\ ~(pc'[q] = "deduct" /\ rpc'[q] = "refused")
    BY <1>1, <1>4 DEF Begin, RecordDeducted, PersistOrder, Crash, SagaTypeOK, SagaInv, CallShape,
       Calling
  <2> QED BY <2>1 DEF Compensated, RefusedIsUntaken
<1>5. CASE Call(q) \/ Abandon(q) \/ ExpireCtx(q)
  <2>1. /\ UNCHANGED <<pc, got, undone, cause, logged>>
        /\ rpc'[q] = rpc[q] \/ rpc'[q] \in {"sent", "err"}
    BY <1>1, <1>5 DEF Call, Abandon, ExpireCtx, SagaTypeOK
  <2>2. \A k : <<"deduct", <<q, k>>>> \in orphans' =>
                 <<"deduct", <<q, k>>>> \in orphans \/ pc[q] = "deduct"
    BY <1>5 DEF Call, Abandon, ExpireCtx, Orphaned
  <2>3. Compensated(q)'
    BY <1>2, <1>3, <2>1 DEF Compensated, Listed, stockVars
  <2>4. RefusedIsUntaken(q)'
    BY <1>2, <1>3, <2>1, <2>2 DEF RefusedIsUntaken, Listed, stockVars
  <2> QED BY <2>3, <2>4
<1>6. CASE DeductFails(q) \/ PersistFails(q)
  <2>1. /\ pc[q] \in {"deduct", "persist"} /\ undone[q] = 0
        /\ UNCHANGED <<got, undone, logged, orphans>>
        /\ pc'[q] = AfterFailure(q)
    BY <1>1, <1>6 DEF DeductFails, PersistFails, SagaTypeOK, SagaInv, CallShape
  <2>2. rpc'[q] = "idle"
    BY <1>1, <1>6 DEF DeductFails, PersistFails, SagaTypeOK, SagaInv, CallShape, Calling
  <2>3. Compensated(q)'
    BY <1>1, <2>1, <2>2 DEF Compensated, AfterFailure
  <2>4. cause'[q] = "refused" => pc[q] = "deduct" /\ rpc[q] = "refused"
    BY <1>1, <1>6 DEF DeductFails, PersistFails, SagaTypeOK
  <2>5. RefusedIsUntaken(q)'
    <3>1. ASSUME pc[q] = "deduct", rpc[q] = "refused", NEW k \in DOMAIN Cart[q], k = got[q] + 1
          PROVE  <<"deduct", <<q, k>>>> \notin orphans /\ (Listed(<<q, k>>) => taken[<<q, k>>] = 0)
      BY <1>3, <3>1 DEF RefusedIsUntaken, SagaInv, OrphanedDeductions
    <3>2. pc'[q] # "deduct"
      BY <2>1 DEF AfterFailure
    <3> QED BY <1>2, <2>1, <2>4, <3>1, <3>2 DEF RefusedIsUntaken, Listed, stockVars
  <2> QED BY <2>3, <2>5
<1>7. CASE CompensateNext(q)
  <2>1. /\ pc[q] = "compensate" /\ rpc[q] \in {"ok", "refused", "err"}
        /\ logged' = IF rpc[q] = "ok" THEN logged ELSE logged \cup {<<q, undone[q] + 1>>}
        /\ undone'[q] = undone[q] + 1 /\ rpc'[q] = "idle"
        /\ pc'[q] = IF undone[q] + 1 = got[q] THEN "failed" ELSE "compensate"
        /\ UNCHANGED <<got, cause, orphans>>
    BY <1>1, <1>7 DEF CompensateNext, Current, SagaTypeOK
  <2>2. ASSUME NEW k \in DOMAIN Cart[q], k <= undone[q] + 1, Listed(<<q, k>>),
               <<q, k>> \notin logged'
        PROVE  returned[<<q, k>>] = 1
    <3>1. CASE k <= undone[q]
      BY <1>3, <2>1, <2>2, <3>1 DEF Compensated
    <3>2. CASE k = undone[q] + 1
      BY <1>3, <2>1, <2>2, <3>2 DEF Compensated
    <3> QED BY <1>1, <2>2, <3>1, <3>2
  <2>3. Compensated(q)'
    BY <1>2, <2>1, <2>2 DEF Compensated, Listed, stockVars
  <2>4. RefusedIsUntaken(q)'
    BY <1>2, <1>3, <2>1 DEF RefusedIsUntaken, Listed, stockVars
  <2> QED BY <2>3, <2>4
<1> QED BY <1>4, <1>5, <1>6, <1>7

\* One step of any CreateOrder call, or of a call that one abandoned.
LEMMA CreateOrderRefunds ==
  ASSUME StockTypeOK, StoreTypeOK, SagaInv, Refunding, SagaNext
  PROVE  Refunding'
<1>1. ASSUME NEW q \in Requests, Begin(q) \/ Progress(q) \/ ExpireCtx(q) \/ Crash(q)
      PROVE  Refunding'
  <2> SUFFICES ASSUME NEW r \in Requests PROVE (Compensated(r) /\ RefusedIsUntaken(r))'
    BY DEF Refunding
  <2>1. CASE r = q
    BY <1>1, <2>1, AnswerRefunds, CallerRefunds DEF Progress
  <2>2. CASE r # q
    BY <1>1, <2>2, OwnLinesOnly, OthersStand
  <2> QED BY <2>1, <2>2
<1> QED BY <1>1, OrphanRefunds DEF SagaNext

LEMMA RefundStep ==
  ASSUME SagaAlone, Refunding, [SagaNext \/ SellerNext]_sagaSpecVars
  PROVE  Refunding'
<1>1. StockTypeOK /\ StoreTypeOK /\ SagaInv
  BY DEF SagaAlone
<1>2. ASSUME UNCHANGED <<sagaVars, taken, returned>>, listed' \subseteq listed
      PROVE  Refunding'
  <2> SUFFICES ASSUME NEW r \in Requests PROVE (Compensated(r) /\ RefusedIsUntaken(r))'
    BY DEF Refunding
  <2> QED BY <1>2, OthersStand DEF sagaVars
<1>3. CASE SellerNext
  BY <1>2, <1>3 DEF SellerNext, DeleteProduct
<1>4. CASE UNCHANGED sagaSpecVars
  BY <1>2, <1>4 DEF sagaSpecVars, stockVars
<1> QED BY <1>1, <1>3, <1>4, CreateOrderRefunds

\* What Refunding says of a call that was refused and reported no failed compensation.
LEMMA RefundedLines ==
  ASSUME StockTypeOK, SagaInv, Refunding,
         NEW r \in Requests, pc[r] = "failed", cause[r] = "refused",
         NEW l \in LinesOf(r), Listed(l), l \notin logged
  PROVE  taken[l] = returned[l]
<1>1. PICK k \in DOMAIN Cart[r] : l = <<r, k>>
  BY DEF LinesOf
<1>2. undone[r] = got[r] /\ got[r] \in Nat /\ k \in Nat
  BY CartShape DEF Refunding, Compensated, SagaInv, SagaTypeOK
<1>3. CASE k <= got[r]
  BY <1>1, <1>2, <1>3 DEF Refunding, Compensated, SagaInv, TakenLines
<1>4. CASE k = got[r] + 1
  <2>1. taken[<<r, k>>] = 0
    BY <1>1, <1>4 DEF Refunding, RefusedIsUntaken
  <2>2. returned[<<r, k>>] = 0
    BY <1>2, <1>4 DEF SagaInv, ReturnedLines
  <2> QED BY <1>1, <2>1, <2>2
<1>5. CASE k > got[r] + 1
  BY <1>1, <1>2, <1>5 DEF SagaInv, TakenLines, ReturnedLines
<1> QED BY <1>2, <1>3, <1>4, <1>5

\* In every reachable state a shopper who was told that his order is refused, and about
\* whose order no COMPENSATION FAILED entry was written, has no units left set aside of
\* products still sold, however late abandoned calls execute (CreateOrder, compensate).
THEOREM RefusalsAreRefunded == SagaSpec => []RefusedLeaksNothing
<1>1. AloneInit => Refunding
  BY DEF AloneInit, SagaInit, Refunding, Compensated, RefusedIsUntaken
<1>2. ASSUME SagaAlone, Refunding PROVE RefusedLeaksNothing
  BY <1>2, RefundedLines DEF SagaAlone, RefusedLeaksNothing
<1>3. SagaSpec => []Refunding
  <2>1. SagaSpec => []SagaAlone
    BY SagaAloneHolds
  <2>2. SagaAlone /\ Refunding /\ [SagaNext \/ SellerNext]_sagaSpecVars => Refunding'
    BY RefundStep
  <2> QED BY <1>1, <2>1, <2>2, PTL DEF SagaSpec
<1> QED BY <1>2, <1>3, SagaAloneHolds, PTL

-----------------------------------------------------------------------------
(* PayOrder, CancelOrder and the relays *)

USE DEF FlowTypeOK, StockTypeOK, StoreTypeOK, LifecycleTypeOK, RelayTypeOK, Queued, Seen

\* Parts of FlowInv that a step keeps when it leaves the variables they read alone.
OutboxParts == OneCanceller /\ WholeBatch /\ DeadOnlyWhenExhausted

LEMMA OutboxPartsStand ==
  ASSUME OutboxParts, UNCHANGED <<orders, outbox>>
  PROVE  OutboxParts'
BY DEF OutboxParts, OneCanceller, WholeBatch, DeadOnlyWhenExhausted

LEMMA RestoredLinesStand ==
  ASSUME RestoredLines, UNCHANGED <<orders, restored, returned>>
  PROVE  RestoredLines'
BY DEF RestoredLines

LEMMA StandingLinesStand ==
  ASSUME StandingLines, UNCHANGED <<orders, returned>>
  PROVE  StandingLines'
BY DEF StandingLines

\* Rows the claim of a session may lock: pending, queued, and not locked by another.
LEMMA ClaimedRows ==
  ASSUME NEW m \in FirstRows(Claimable)
  PROVE  m \in Messages /\ outbox[m].status = "PENDING" /\ \A v \in Workers : m \notin claim[v]
BY DEF FirstRows, Claimable, Locked

FlowStep == UNCHANGED task /\ FlowInv /\ StandingLines

\* Opening a session.
LEMMA ClaimKeepsFlow ==
  ASSUME FlowStep, NEW w \in Workers, Claim(w)
  PROVE  FlowInv' /\ StandingLines'
<1>1. /\ FlowInv /\ StandingLines
      /\ claim' = [claim EXCEPT ![w] = FirstRows(Claimable)]
      /\ todo' = [todo EXCEPT ![w] = FirstRows(Claimable)]
      /\ mark' = [mark EXCEPT ![w] = NoMarks]
      /\ UNCHANGED <<stock, listed, restored, taken, returned, orders, outbox, nextId, task,
                     current, send, stragglers, deadLogged, faults>>
  BY DEF Claim, FlowStep, stockVars, storeVars
<1>2. FlowTypeOK'
  BY <1>1, ClaimedRows DEF FlowInv, NoMarks, Marks
<1>3. OutboxParts' /\ RestoredLines' /\ StandingLines'
  BY <1>1, OutboxPartsStand, RestoredLinesStand, StandingLinesStand DEF FlowInv, OutboxParts
<1>4. OnlyQueued'
  BY <1>1, ClaimedRows DEF FlowInv, OnlyQueued
<1>5. LoopVariable'
  BY <1>1 DEF FlowInv, LoopVariable
<1>6. LockedRows'
  BY <1>1, ClaimedRows DEF FlowInv, LockedRows
<1>7. DeliveredApplied'
  BY <1>1 DEF FlowInv, DeliveredApplied, SentMeansApplied, NoMarks
<1> QED BY <1>2, <1>3, <1>4, <1>5, <1>6, <1>7 DEF FlowInv, OutboxParts

\* The mark of one message in one session.
LEMMA MarkRowKeepsFlow ==
  ASSUME FlowInv, NEW w \in Workers, NEW m \in Messages, NEW value \in Marks \ {"none"},
         MarkRow(w, m, value),
         value = "SENT" => Seen(m), value = "DEAD" => m \in Undecodable,
         UNCHANGED <<claim, stockVars, storeVars>>
  PROVE  /\ todo' = [todo EXCEPT ![w] = @ \ {m}]
         /\ mark' \in [Workers -> [Messages -> Marks]] /\ faults' \in 0..MaxFaults
         /\ \A v \in Workers : \A n \in Messages :
              /\ mark'[v][n] # "none" => n \in claim'[v]
              /\ mark'[v][n] = "SENT" => Seen(n)
              /\ mark'[v][n] = "DEAD" => n \in Undecodable
<1>1. \/ m \in claim[w] /\ mark' = [mark EXCEPT ![w] = [@ EXCEPT ![m] = value]]
      \/ mark' = mark
  BY DEF MarkRow
<1>2. faults' \in 0..MaxFaults
  BY RelayAssumption DEF MarkRow, Fault, FlowInv
<1>3. mark' \in [Workers -> [Messages -> Marks]]
  <2>1. mark \in [Workers -> [Messages -> Marks]] /\ value \in Marks
    BY DEF FlowInv
  <2>2. [mark[w] EXCEPT ![m] = value] \in [Messages -> Marks]
    BY <2>1
  <2> QED BY <1>1, <2>1, <2>2
<1>4. \A v \in Workers : \A n \in Messages :
        mark'[v][n] = mark[v][n] \/ (v = w /\ n = m /\ m \in claim[w] /\ mark'[v][n] = value)
  BY <1>1 DEF FlowInv
<1>5. \A v \in Workers : \A n \in Messages :
        /\ mark[v][n] # "none" => n \in claim[v]
        /\ mark[v][n] = "SENT" => Seen(n)
        /\ mark[v][n] = "DEAD" => n \in Undecodable
  BY DEF FlowInv, DeliveredApplied
<1>6. todo' = [todo EXCEPT ![w] = @ \ {m}] /\ claim' = claim
  BY DEF MarkRow
<1> QED BY <1>2, <1>3, <1>4, <1>5, <1>6

\* A message that cannot be decoded is marked dead without a call.
LEMMA DiscardKeepsFlow ==
  ASSUME FlowStep, NEW w \in Workers, Discard(w)
  PROVE  FlowInv' /\ StandingLines'
<1> PICK m \in Undecodable : IsFirst(w, m) /\ MarkRow(w, m, "DEAD")
  BY DEF Discard
<1>1. /\ FlowInv /\ StandingLines
      /\ UNCHANGED <<stock, listed, restored, taken, returned, orders, outbox, nextId, task,
                     claim, current, send, stragglers, deadLogged>>
  BY DEF Discard, FlowStep, stockVars, storeVars
<1>2. m \in Messages
  BY RelayAssumption
<1>3. /\ todo' = [todo EXCEPT ![w] = @ \ {m}]
      /\ mark' \in [Workers -> [Messages -> Marks]] /\ faults' \in 0..MaxFaults
      /\ \A v \in Workers : \A n \in Messages :
           /\ mark'[v][n] # "none" => n \in claim'[v]
           /\ mark'[v][n] = "SENT" => Seen(n)
           /\ mark'[v][n] = "DEAD" => n \in Undecodable
  BY <1>1, <1>2, MarkRowKeepsFlow DEF Marks, stockVars, storeVars
<1>4. FlowTypeOK'
  BY <1>1, <1>3 DEF FlowInv
<1>5. OutboxParts' /\ RestoredLines' /\ StandingLines'
  BY <1>1, OutboxPartsStand, RestoredLinesStand, StandingLinesStand DEF FlowInv, OutboxParts
<1>6. OnlyQueued'
  BY <1>1, <1>3 DEF FlowInv, OnlyQueued
<1>7. LoopVariable' /\ LockedRows'
  BY <1>1 DEF FlowInv, LoopVariable, LockedRows
<1>8. DeliveredApplied'
  BY <1>1, <1>3 DEF FlowInv, DeliveredApplied, SentMeansApplied
<1> QED BY <1>4, <1>5, <1>6, <1>7, <1>8 DEF FlowInv, OutboxParts

\* A delivery that was answered with success.
LEMMA DeliveredKeepsFlow ==
  ASSUME FlowStep, NEW w \in Workers, Delivered(w)
  PROVE  FlowInv' /\ StandingLines'
<1> DEFINE m == current[w]
<1>1. /\ FlowInv /\ StandingLines /\ send[w] = "ok"
      /\ UNCHANGED <<stock, listed, restored, taken, returned, orders, outbox, nextId, task,
                     claim, stragglers, deadLogged>>
      /\ current' = [current EXCEPT ![w] = NoMessage]
      /\ send' = [send EXCEPT ![w] = "idle"]
  BY DEF Delivered, LoopOn, FlowStep, stockVars, storeVars
<1>2. m \in Messages /\ Seen(m)
  BY <1>1 DEF FlowInv, LoopVariable, DeliveredApplied
<1>3. /\ todo' = [todo EXCEPT ![w] = @ \ {m}]
      /\ mark' \in [Workers -> [Messages -> Marks]] /\ faults' \in 0..MaxFaults
      /\ \A v \in Workers : \A n \in Messages :
           /\ mark'[v][n] # "none" => n \in claim'[v]
           /\ mark'[v][n] = "SENT" => Seen(n)
           /\ mark'[v][n] = "DEAD" => n \in Undecodable
  BY <1>1, <1>2, MarkRowKeepsFlow DEF Delivered, Marks, stockVars, storeVars
<1>4. FlowTypeOK'
  BY <1>1, <1>3 DEF FlowInv
<1>5. OutboxParts' /\ RestoredLines' /\ StandingLines'
  BY <1>1, OutboxPartsStand, RestoredLinesStand, StandingLinesStand DEF FlowInv, OutboxParts
<1>6. OnlyQueued'
  BY <1>1, <1>3 DEF FlowInv, OnlyQueued
<1>7. LoopVariable' /\ LockedRows'
  BY <1>1 DEF FlowInv, LoopVariable, LockedRows
<1>8. DeliveredApplied'
  BY <1>1, <1>3 DEF FlowInv, DeliveredApplied, SentMeansApplied
<1> QED BY <1>4, <1>5, <1>6, <1>7, <1>8 DEF FlowInv, OutboxParts

\* A delivery that was refused or failed.
LEMMA NotDeliveredKeepsFlow ==
  ASSUME FlowStep, NEW w \in Workers, NotDelivered(w)
  PROVE  FlowInv' /\ StandingLines'
<1> DEFINE m == current[w]
<1>1. /\ FlowInv /\ StandingLines /\ send[w] \in {"refused", "err"}
      /\ UNCHANGED <<stock, listed, restored, taken, returned, orders, outbox, nextId, task,
                     claim, stragglers>>
      /\ current' = [current EXCEPT ![w] = NoMessage]
      /\ send' = [send EXCEPT ![w] = "idle"]
      /\ deadLogged' \in {deadLogged, deadLogged \cup {m}}
  BY DEF NotDelivered, LoopOn, FlowStep, stockVars, storeVars
<1>2. m \in Messages
  BY <1>1 DEF FlowInv, LoopVariable
<1>3. /\ todo' = [todo EXCEPT ![w] = @ \ {m}]
      /\ mark' \in [Workers -> [Messages -> Marks]] /\ faults' \in 0..MaxFaults
      /\ \A v \in Workers : \A n \in Messages :
           /\ mark'[v][n] # "none" => n \in claim'[v]
           /\ mark'[v][n] = "SENT" => Seen(n)
           /\ mark'[v][n] = "DEAD" => n \in Undecodable
  BY <1>1, <1>2, MarkRowKeepsFlow DEF NotDelivered, Marks, stockVars, storeVars
<1>4. FlowTypeOK'
  BY <1>1, <1>2, <1>3 DEF FlowInv
<1>5. OutboxParts' /\ RestoredLines' /\ StandingLines'
  BY <1>1, OutboxPartsStand, RestoredLinesStand, StandingLinesStand DEF FlowInv, OutboxParts
<1>6. OnlyQueued'
  BY <1>1, <1>3 DEF FlowInv, OnlyQueued
<1>7. LoopVariable' /\ LockedRows'
  BY <1>1 DEF FlowInv, LoopVariable, LockedRows
<1>8. DeliveredApplied'
  BY <1>1, <1>3 DEF FlowInv, DeliveredApplied, SentMeansApplied
<1> QED BY <1>4, <1>5, <1>6, <1>7, <1>8 DEF FlowInv, OutboxParts

\* The relay calls product-service for the first message of its session.
LEMMA SendKeepsFlow ==
  ASSUME FlowStep, NEW w \in Workers, Send(w)
  PROVE  FlowInv' /\ StandingLines'
<1> PICK m \in Messages \ Undecodable :
      IsFirst(w, m) /\ current' = [current EXCEPT ![w] = m]
  BY DEF Send
<1>1. /\ FlowInv /\ StandingLines
      /\ send' = [send EXCEPT ![w] = "sent"]
      /\ UNCHANGED <<stock, listed, restored, taken, returned, orders, outbox, nextId, task,
                     claim, todo, mark, stragglers, deadLogged, faults>>
  BY DEF Send, FlowStep, stockVars, storeVars
<1>2. FlowTypeOK'
  BY <1>1 DEF FlowInv
<1>3. OutboxParts' /\ RestoredLines' /\ StandingLines'
  BY <1>1, OutboxPartsStand, RestoredLinesStand, StandingLinesStand DEF FlowInv, OutboxParts
<1>4. OnlyQueued' /\ LockedRows'
  BY <1>1 DEF FlowInv, OnlyQueued, LockedRows
<1>5. LoopVariable'
  BY <1>1 DEF FlowInv, OnlyQueued, LoopVariable, IsFirst
<1>6. DeliveredApplied'
  BY <1>1 DEF FlowInv, DeliveredApplied, SentMeansApplied
<1> QED BY <1>2, <1>3, <1>4, <1>5, <1>6 DEF FlowInv, OutboxParts

\* The read-back and the answer of product-service.
LEMMA ReplyKeepsFlow ==
  ASSUME FlowStep, NEW w \in Workers, Reply(w)
  PROVE  FlowInv' /\ StandingLines'
<1> PICK answer \in {"ok", "refused", "err"} : send' = [send EXCEPT ![w] = answer]
  BY DEF Reply, ReadBack
<1>1. /\ FlowInv /\ StandingLines /\ send[w] = "applied"
      /\ UNCHANGED <<stock, listed, restored, taken, returned, orders, outbox, nextId, task,
                     claim, todo, mark, current, stragglers, deadLogged, faults>>
  BY DEF Reply, FlowStep, stockVars, storeVars
<1>2. FlowTypeOK'
  BY <1>1 DEF FlowInv
<1>3. OutboxParts' /\ RestoredLines' /\ StandingLines'
  BY <1>1, OutboxPartsStand, RestoredLinesStand, StandingLinesStand DEF FlowInv, OutboxParts
<1>4. OnlyQueued' /\ LockedRows' /\ LoopVariable'
  BY <1>1 DEF FlowInv, OnlyQueued, LockedRows, LoopVariable
<1>5. DeliveredApplied'
  BY <1>1 DEF FlowInv, DeliveredApplied, SentMeansApplied
<1> QED BY <1>2, <1>3, <1>4, <1>5 DEF FlowInv, OutboxParts

\* A delivery is given up; its call may still be executed.
LEMMA DeliveryTimeoutKeepsFlow ==
  ASSUME FlowStep, NEW w \in Workers, DeliveryTimeout(w)
  PROVE  FlowInv' /\ StandingLines'
<1>1. /\ FlowInv /\ StandingLines /\ send[w] # "idle"
      /\ send' = [send EXCEPT ![w] = "err"]
      /\ stragglers' \in {stragglers, stragglers \cup {current[w]}}
      /\ UNCHANGED <<stock, listed, restored, taken, returned, orders, outbox, nextId, task,
                     claim, todo, mark, current, deadLogged, faults>>
  BY DEF DeliveryTimeout, Straggling, FlowStep, stockVars, storeVars
<1>2. current[w] \in Messages /\ Queued(current[w])
  BY <1>1 DEF FlowInv, LoopVariable
<1>3. FlowTypeOK'
  BY <1>1, <1>2 DEF FlowInv
<1>4. OutboxParts' /\ RestoredLines' /\ StandingLines'
  BY <1>1, OutboxPartsStand, RestoredLinesStand, StandingLinesStand DEF FlowInv, OutboxParts
<1>5. OnlyQueued' /\ LockedRows' /\ LoopVariable'
  BY <1>1, <1>2 DEF FlowInv, OnlyQueued, LockedRows, LoopVariable
<1>6. DeliveredApplied'
  BY <1>1 DEF FlowInv, DeliveredApplied, SentMeansApplied
<1> QED BY <1>3, <1>4, <1>5, <1>6 DEF FlowInv, OutboxParts

\* What RestoreStock does to a queued message: the units of its line come back for the
\* first time, or nothing happens.
LEMMA RestoreKeepsFlow ==
  ASSUME FlowInv, StandingLines, NEW m \in Messages, Queued(m),
         NEW outcome \in Outcomes, RestoreStockIdempotent(m, outcome),
         UNCHANGED storeVars
  PROVE  /\ StockTypeOK' /\ UNCHANGED <<listed, taken>>
         /\ restored \subseteq restored' /\ restored' \subseteq restored \cup {m}
         /\ outcome = "applied" => m \in restored'
         /\ RestoredLines' /\ StandingLines'
         /\ \A l \in Lines : orders[l[1]] # "CANCELLED" => returned'[l] = returned[l]
<1> DEFINE l == LineOf(m)
<1>1. l \in Lines /\ m = <<m[1], l>> /\ OrderOf(m) = l[1] /\ l[1] \in Requests
  BY MessageIs
<1>2. orders[l[1]] = "CANCELLED"
  BY <1>1 DEF FlowInv, OneCanceller
<1>3. CASE UNCHANGED stockVars
  <2>1. RestoredLines' /\ StandingLines'
    BY <1>3, RestoredLinesStand, StandingLinesStand DEF stockVars, storeVars, FlowInv
  <2>2. outcome = "applied" => m \in restored
    BY <1>1, <1>3 DEF RestoreStockIdempotent, AddBack, stockVars, FlowInv
  <2> QED BY <1>3, <2>1, <2>2 DEF stockVars, FlowInv
<1>4. CASE /\ m \notin restored /\ AddBack(l)
           /\ restored' = restored \cup {m} /\ UNCHANGED <<listed, taken>>
  <2>1. returned' = [returned EXCEPT ![l] = @ + 1]
    BY <1>4 DEF AddBack
  <2>2. returned[l] = 0
    <3>1. ASSUME NEW n \in restored, LineOf(n) = l PROVE FALSE
      <4>1. n \in Messages /\ Queued(n)
        BY DEF FlowInv, OnlyQueued
      <4>2. n = <<n[1], l>> /\ OrderOf(n) = OrderOf(m)
        BY <1>1, <3>1, <4>1, MessageIs
      <4>3. n[1] = m[1]
        BY <4>1, <4>2 DEF FlowInv, OneCanceller
      <4> QED BY <1>1, <1>4, <4>2, <4>3
    <3> QED BY <1>1, <1>2, <3>1 DEF FlowInv, RestoredLines
  <2>3. StockTypeOK'
    BY <1>1, <1>4, LineData DEF FlowInv, AddBack
  <2>4. RestoredLines'
    <3> SUFFICES ASSUME NEW x \in Lines, orders[x[1]] = "CANCELLED"
                 PROVE  /\ returned'[x] \in {0, 1}
                        /\ returned'[x] = 1 => \E n \in restored' : LineOf(n) = x
      BY DEF RestoredLines, storeVars
    <3>1. CASE x = l
      BY <1>1, <1>4, <2>1, <2>2, <3>1 DEF FlowInv
    <3>2. CASE x # l
      BY <1>1, <1>4, <2>1, <3>2 DEF FlowInv, RestoredLines
    <3> QED BY <3>1, <3>2
  <2>5. \A x \in Lines : orders[x[1]] # "CANCELLED" => returned'[x] = returned[x]
    BY <1>1, <1>2, <2>1 DEF FlowInv
  <2>6. StandingLines'
    BY <2>5, LineIs DEF StandingLines, storeVars
  <2> QED BY <1>4, <2>3, <2>4, <2>5, <2>6
<1>5. UNCHANGED stockVars \/ (/\ m \notin restored /\ AddBack(l)
           /\ restored' = restored \cup {m} /\ UNCHANGED <<listed, taken>>)
  BY DEF RestoreStockIdempotent
<1> QED BY <1>3, <1>4, <1>5

\* The product-service executes the delivery its relay waits for.
LEMMA DeliverKeepsFlow ==
  ASSUME FlowStep, NEW w \in Workers, Deliver(w)
  PROVE  /\ FlowInv' /\ StandingLines' /\ taken' = taken
         /\ \A l \in Lines : orders[l[1]] # "CANCELLED" => returned'[l] = returned[l]
<1> PICK outcome \in Outcomes :
      RestoreStockIdempotent(current[w], outcome) /\ send' = [send EXCEPT ![w] = outcome]
  BY DEF Deliver
<1>1. /\ FlowInv /\ StandingLines /\ send[w] = "sent"
      /\ UNCHANGED <<orders, outbox, nextId, task,
                     claim, todo, mark, current, stragglers, deadLogged, faults>>
  BY DEF Deliver, FlowStep, storeVars
<1>2. current[w] \in Messages /\ Queued(current[w])
  BY <1>1 DEF FlowInv, LoopVariable
<1>3. /\ StockTypeOK' /\ UNCHANGED <<listed, taken>>
      /\ restored \subseteq restored' /\ restored' \subseteq restored \cup {current[w]}
      /\ outcome = "applied" => current[w] \in restored'
      /\ RestoredLines' /\ StandingLines'
      /\ \A l \in Lines : orders[l[1]] # "CANCELLED" => returned'[l] = returned[l]
  BY <1>1, <1>2, RestoreKeepsFlow DEF storeVars
<1>4. FlowTypeOK'
  BY <1>1, <1>3 DEF FlowInv, Outcomes
<1>5. OutboxParts'
  BY <1>1, OutboxPartsStand DEF FlowInv, OutboxParts
<1>6. OnlyQueued' /\ LockedRows' /\ LoopVariable'
  BY <1>1, <1>2, <1>3 DEF FlowInv, OnlyQueued, LockedRows, LoopVariable
<1>7. DeliveredApplied'
  <2>1. \A v \in Workers : send'[v] \in {"applied", "ok"} => current'[v] \in restored'
    BY <1>1, <1>3 DEF FlowInv, DeliveredApplied, Outcomes
  <2> QED BY <1>1, <1>3, <2>1 DEF FlowInv, DeliveredApplied, SentMeansApplied
<1> QED BY <1>3, <1>4, <1>5, <1>6, <1>7 DEF FlowInv, OutboxParts

\* The product-service executes a delivery that was given up.
LEMMA LateDeliveryKeepsFlow ==
  ASSUME FlowStep, NEW m \in Messages, LateDelivery(m)
  PROVE  /\ FlowInv' /\ StandingLines' /\ taken' = taken
         /\ \A l \in Lines : orders[l[1]] # "CANCELLED" => returned'[l] = returned[l]
<1> PICK outcome \in Outcomes : RestoreStockIdempotent(m, outcome)
  BY DEF LateDelivery
<1>1. /\ FlowInv /\ StandingLines /\ m \in stragglers /\ stragglers' = stragglers \ {m}
      /\ UNCHANGED <<orders, outbox, nextId, task,
                     claim, todo, mark, current, send, deadLogged, faults>>
  BY DEF LateDelivery, FlowStep, storeVars
<1>2. Queued(m)
  BY <1>1 DEF FlowInv, OnlyQueued
<1>3. /\ StockTypeOK' /\ UNCHANGED <<listed, taken>>
      /\ restored \subseteq restored' /\ restored' \subseteq restored \cup {m}
      /\ RestoredLines' /\ StandingLines'
      /\ \A l \in Lines : orders[l[1]] # "CANCELLED" => returned'[l] = returned[l]
  BY <1>1, <1>2, RestoreKeepsFlow DEF storeVars
<1>4. FlowTypeOK'
  BY <1>1, <1>3 DEF FlowInv
<1>5. OutboxParts'
  BY <1>1, OutboxPartsStand DEF FlowInv, OutboxParts
<1>6. OnlyQueued' /\ LockedRows' /\ LoopVariable'
  BY <1>1, <1>2, <1>3 DEF FlowInv, OnlyQueued, LockedRows, LoopVariable
<1>7. DeliveredApplied'
  BY <1>1, <1>3 DEF FlowInv, DeliveredApplied, SentMeansApplied
<1> QED BY <1>3, <1>4, <1>5, <1>6, <1>7 DEF FlowInv, OutboxParts

\* The row a committed mark leaves behind.
LEMMA MarkedRow ==
  ASSUME FlowInv, NEW w \in Workers, NEW m \in claim[w]
  PROVE  LET row == Marked(m, mark[w][m]) IN
         /\ row \in Row /\ row.status # "none" /\ row.id = outbox[m].id
         /\ row.status = "SENT" => Seen(m)
         /\ row.status = "DEAD" => row.retry = MaxRetry \/ m \in Undecodable
         /\ row.status = "PENDING" => row.retry < MaxRetry
<1>1. m \in Messages /\ outbox[m] \in Row /\ outbox[m].status = "PENDING"
  BY DEF FlowInv, LockedRows
<1>2. outbox[m].retry \in 0..MaxRetry /\ outbox[m].retry < MaxRetry /\ MaxRetry \in Nat
  BY <1>1, RetryAssumption DEF FlowInv, DeadOnlyWhenExhausted, Row
<1>3. mark[w][m] \in Marks
  BY <1>1 DEF FlowInv
<1>4. CASE mark[w][m] = "none"
  BY <1>1, <1>2, <1>4 DEF Marked
<1>5. CASE mark[w][m] = "FAILED"
  <2>1. CASE Exhausted(m)
    <3>1. Marked(m, mark[w][m]) = [outbox[m] EXCEPT !.retry = @ + 1, !.status = "DEAD"]
      BY <1>5, <2>1 DEF Marked, Failed
    <3>2. outbox[m].retry + 1 = MaxRetry
      BY <1>2, <2>1 DEF Exhausted
    <3>3. Marked(m, mark[w][m]) = [outbox[m] EXCEPT !.retry = MaxRetry, !.status = "DEAD"]
      BY <3>1, <3>2
    <3>4. MaxRetry \in 0..MaxRetry
      BY <1>2
    <3> QED BY <1>1, <3>3, <3>4 DEF Row
  <2>2. CASE ~Exhausted(m)
    <3>1. Marked(m, mark[w][m]) = [outbox[m] EXCEPT !.retry = @ + 1, !.due = FALSE]
      BY <1>5, <2>2 DEF Marked, Failed
    <3>2. outbox[m].retry + 1 \in 0..MaxRetry /\ outbox[m].retry + 1 < MaxRetry
      BY <1>2, <2>2 DEF Exhausted
    <3> QED BY <1>1, <3>1, <3>2 DEF Row
  <2> QED BY <2>1, <2>2
<1>6. CASE mark[w][m] \in {"SENT", "DEAD"}
  <2>1. Marked(m, mark[w][m]) = [outbox[m] EXCEPT !.status = mark[w][m]]
    BY <1>6 DEF Marked
  <2>2. (mark[w][m] = "SENT" => Seen(m)) /\ (mark[w][m] = "DEAD" => m \in Undecodable)
    BY <1>1 DEF FlowInv, DeliveredApplied
  <2> QED BY <1>1, <1>6, <2>1, <2>2 DEF Row
<1> QED BY <1>3, <1>4, <1>5, <1>6 DEF Marks

\* Committing a session.
LEMMA CloseKeepsFlow ==
  ASSUME FlowStep, NEW w \in Workers, Close(w)
  PROVE  FlowInv' /\ StandingLines'
<1>1. /\ FlowInv /\ StandingLines
      /\ outbox' = [m \in Messages |->
                      IF m \in claim[w] THEN Marked(m, mark[w][m]) ELSE outbox[m]]
      /\ claim' = [claim EXCEPT ![w] = {}]
      /\ mark' = [mark EXCEPT ![w] = NoMarks]
      /\ UNCHANGED <<stock, listed, restored, taken, returned, orders, nextId, task,
                     todo, current, send, stragglers, deadLogged, faults>>
  BY DEF Close, Release, FlowStep, stockVars
<1>2. \A m \in Messages :
        /\ outbox'[m] \in Row /\ (Queued(m)' <=> Queued(m))
        /\ outbox'[m].status = "SENT" => Seen(m)
        /\ outbox'[m].status = "DEAD" => outbox'[m].retry = MaxRetry \/ m \in Undecodable
        /\ outbox'[m].status = "PENDING" => outbox'[m].retry < MaxRetry
        /\ m \notin claim[w] => outbox'[m] = outbox[m]
  <2> SUFFICES ASSUME NEW m \in Messages
               PROVE  /\ outbox'[m] \in Row /\ (Queued(m)' <=> Queued(m))
                      /\ outbox'[m].status = "SENT" => Seen(m)
                      /\ outbox'[m].status = "DEAD" =>
                           outbox'[m].retry = MaxRetry \/ m \in Undecodable
                      /\ outbox'[m].status = "PENDING" => outbox'[m].retry < MaxRetry
                      /\ m \notin claim[w] => outbox'[m] = outbox[m]
    OBVIOUS
  <2>1. CASE m \in claim[w]
    <3>1. outbox'[m] = Marked(m, mark[w][m])
      BY <1>1, <2>1
    <3>2. Queued(m)
      BY <1>1, <2>1 DEF FlowInv, LockedRows
    <3> QED BY <1>1, <2>1, <3>1, <3>2, MarkedRow
  <2>2. CASE m \notin claim[w]
    <3>1. outbox'[m] = outbox[m]
      BY <1>1, <2>2
    <3> QED BY <1>1, <2>2, <3>1
        DEF FlowInv, DeliveredApplied, SentMeansApplied, DeadOnlyWhenExhausted
  <2> QED BY <2>1, <2>2
<1>3. outbox' \in [Messages -> Row]
  BY <1>1, <1>2
<1>4. FlowTypeOK'
  BY <1>1, <1>3 DEF FlowInv, NoMarks, Marks
<1>5. OneCanceller' /\ WholeBatch'
  BY <1>1, <1>2, BatchIs DEF FlowInv, OneCanceller, WholeBatch
<1>6. DeadOnlyWhenExhausted' /\ SentMeansApplied'
  BY <1>1, <1>2 DEF DeadOnlyWhenExhausted, SentMeansApplied
<1>7. RestoredLines' /\ StandingLines'
  BY <1>1, RestoredLinesStand, StandingLinesStand DEF FlowInv
<1>8. OnlyQueued' /\ LoopVariable'
  BY <1>1, <1>2 DEF FlowInv, OnlyQueued, LoopVariable
<1>9. LockedRows'
  <2>1. \A v \in Workers : \A m \in claim'[v] : m \in claim[v] /\ m \notin claim[w]
    BY <1>1 DEF FlowInv, LockedRows
  <2>2. \A v \in Workers : \A m \in claim'[v] : outbox'[m].status = "PENDING"
    BY <1>1, <1>2, <2>1 DEF FlowInv, LockedRows
  <2> QED BY <1>1, <2>1, <2>2 DEF FlowInv, LockedRows
<1>10. DeliveredApplied'
  BY <1>1, <1>6 DEF FlowInv, DeliveredApplied, NoMarks
<1> QED BY <1>4, <1>5, <1>6, <1>7, <1>8, <1>9, <1>10 DEF FlowInv

\* A session is rolled back.
LEMMA TxLostKeepsFlow ==
  ASSUME FlowStep, NEW w \in Workers, TxLost(w)
  PROVE  FlowInv' /\ StandingLines'
<1>1. /\ FlowInv /\ StandingLines
      /\ claim' = [claim EXCEPT ![w] = {}]
      /\ mark' = [mark EXCEPT ![w] = NoMarks]
      /\ faults < MaxFaults /\ faults' = faults + 1
      /\ UNCHANGED <<stock, listed, restored, taken, returned, orders, outbox, nextId, task,
                     todo, current, send, stragglers, deadLogged>>
  BY DEF TxLost, Fault, Release, FlowStep, stockVars, storeVars
<1>2. FlowTypeOK'
  BY <1>1, RelayAssumption DEF FlowInv, NoMarks, Marks
<1>3. OutboxParts' /\ RestoredLines' /\ StandingLines'
  BY <1>1, OutboxPartsStand, RestoredLinesStand, StandingLinesStand DEF FlowInv, OutboxParts
<1>4. OnlyQueued' /\ LoopVariable' /\ LockedRows'
  BY <1>1 DEF FlowInv, OnlyQueued, LoopVariable, LockedRows
<1>5. DeliveredApplied'
  BY <1>1 DEF FlowInv, DeliveredApplied, SentMeansApplied, NoMarks
<1> QED BY <1>2, <1>3, <1>4, <1>5 DEF FlowInv, OutboxParts

\* A replica dies in the middle of a session.
LEMMA RelayCrashKeepsFlow ==
  ASSUME FlowStep, NEW w \in Workers, RelayCrash(w)
  PROVE  FlowInv' /\ StandingLines'
<1>1. /\ FlowInv /\ StandingLines
      /\ claim' = [claim EXCEPT ![w] = {}]
      /\ todo' = [todo EXCEPT ![w] = {}]
      /\ mark' = [mark EXCEPT ![w] = NoMarks]
      /\ current' = [current EXCEPT ![w] = NoMessage]
      /\ send' = [send EXCEPT ![w] = "idle"]
      /\ stragglers' = stragglers \cup Straggling(w)
      /\ faults < MaxFaults /\ faults' = faults + 1
      /\ UNCHANGED <<stock, listed, restored, taken, returned, orders, outbox, nextId, task,
                     deadLogged>>
  BY DEF RelayCrash, Fault, Release, LoopOn, FlowStep, stockVars, storeVars
<1>2. \A m \in Straggling(w) : m \in Messages /\ Queued(m)
  BY <1>1 DEF FlowInv, LoopVariable, Straggling
<1>3. FlowTypeOK'
  BY <1>1, <1>2, RelayAssumption DEF FlowInv, NoMarks, Marks
<1>4. OutboxParts' /\ RestoredLines' /\ StandingLines'
  BY <1>1, OutboxPartsStand, RestoredLinesStand, StandingLinesStand DEF FlowInv, OutboxParts
<1>5. OnlyQueued'
  BY <1>1, <1>2 DEF FlowInv, OnlyQueued
<1>6. LoopVariable' /\ LockedRows'
  BY <1>1 DEF FlowInv, LoopVariable, LockedRows
<1>7. DeliveredApplied'
  BY <1>1 DEF FlowInv, DeliveredApplied, SentMeansApplied, NoMarks
<1> QED BY <1>3, <1>4, <1>5, <1>6, <1>7 DEF FlowInv, OutboxParts

\* A row becomes due again.
LEMMA BackoffExpiresKeepsFlow ==
  ASSUME FlowStep, NEW m \in Messages, BackoffExpires(m)
  PROVE  FlowInv' /\ StandingLines'
<1>1. /\ FlowInv /\ StandingLines
      /\ outbox' = [outbox EXCEPT ![m].due = TRUE]
      /\ UNCHANGED <<stock, listed, restored, taken, returned, orders, nextId, task,
                     claim, todo, mark, current, send, stragglers, deadLogged, faults>>
  BY DEF BackoffExpires, FlowStep, stockVars, relayVars
<1>2. outbox' \in [Messages -> Row]
  <2>1. outbox \in [Messages -> Row]
    BY <1>1 DEF FlowInv
  <2>2. \A row \in Row : [row EXCEPT !.due = TRUE] \in Row
    BY DEF Row
  <2> QED BY <1>1, <2>1, <2>2
<1>3. \A n \in Messages : outbox'[n].status = outbox[n].status /\ outbox'[n].retry = outbox[n].retry
  BY <1>1 DEF FlowInv, Row
<1>4. FlowTypeOK'
  BY <1>1, <1>2 DEF FlowInv
<1>5. OneCanceller' /\ WholeBatch' /\ DeadOnlyWhenExhausted'
  BY <1>1, <1>3, BatchIs DEF FlowInv, OneCanceller, WholeBatch, DeadOnlyWhenExhausted
<1>6. RestoredLines' /\ StandingLines'
  BY <1>1, RestoredLinesStand, StandingLinesStand DEF FlowInv
<1>7. OnlyQueued' /\ LoopVariable' /\ LockedRows' /\ DeliveredApplied'
  BY <1>1, <1>3 DEF FlowInv, OnlyQueued, LoopVariable, LockedRows, DeliveredApplied, SentMeansApplied
<1> QED BY <1>4, <1>5, <1>6, <1>7 DEF FlowInv

\* One step of any relay; it moves the units of cancelled orders only.
LEMMA RelayKeepsFlow ==
  ASSUME FlowInv, StandingLines, RelayNext, UNCHANGED task
  PROVE  /\ FlowInv' /\ StandingLines' /\ taken' = taken
         /\ \A l \in Lines : orders[l[1]] # "CANCELLED" => returned'[l] = returned[l]
<1> FlowStep
  BY DEF FlowStep
<1>1. ASSUME NEW w \in Workers, Claim(w) \/ SessionStep(w) \/ TxLost(w) \/ RelayCrash(w)
      PROVE  FlowInv' /\ StandingLines'
  BY <1>1, ClaimKeepsFlow, DiscardKeepsFlow, SendKeepsFlow, DeliverKeepsFlow, ReplyKeepsFlow,
     DeliveryTimeoutKeepsFlow, DeliveredKeepsFlow, NotDeliveredKeepsFlow, CloseKeepsFlow,
     TxLostKeepsFlow, RelayCrashKeepsFlow
  DEF SessionStep
<1>2. ASSUME NEW w \in Workers, Claim(w) \/ SessionStep(w) \/ TxLost(w) \/ RelayCrash(w)
      PROVE  /\ taken' = taken
             /\ \A l \in Lines : orders[l[1]] # "CANCELLED" => returned'[l] = returned[l]
  <2>1. CASE Deliver(w)
    BY <2>1, DeliverKeepsFlow
  <2>2. CASE ~Deliver(w)
    BY <1>2, <2>2
    DEF Claim, SessionStep, Discard, Send, Reply, DeliveryTimeout, Delivered, NotDelivered,
        Close, TxLost, RelayCrash, stockVars
  <2> QED BY <2>1, <2>2
<1>3. ASSUME NEW m \in Messages, LateDelivery(m) \/ BackoffExpires(m)
      PROVE  /\ FlowInv' /\ StandingLines' /\ taken' = taken
             /\ \A l \in Lines : orders[l[1]] # "CANCELLED" => returned'[l] = returned[l]
  <2>1. CASE LateDelivery(m)
    BY <2>1, LateDeliveryKeepsFlow
  <2>2. CASE BackoffExpires(m)
    BY <2>2, BackoffExpiresKeepsFlow DEF BackoffExpires, stockVars
  <2> QED BY <1>3, <2>1, <2>2
<1> QED BY <1>1, <1>2, <1>3 DEF RelayNext
-----------------------------------------------------------------------------
(* PayOrder, CancelOrder and the seller *)

\* Steps that leave the orders, the outbox and the history of the lines alone.
LEMMA IdleStoreKeepsFlow ==
  ASSUME FlowInv, StandingLines, LifecycleTypeOK', StockTypeOK',
         UNCHANGED <<restored, returned, storeVars, relayVars>>
  PROVE  FlowInv' /\ StandingLines'
<1>1. UNCHANGED <<restored, returned, orders, outbox, nextId, claim, todo, mark, current, send,
                  stragglers, deadLogged, faults>>
  BY DEF storeVars, relayVars
<1>2. FlowTypeOK'
  BY <1>1 DEF FlowInv
<1>3. OutboxParts' /\ RestoredLines' /\ StandingLines'
  BY <1>1, OutboxPartsStand, RestoredLinesStand, StandingLinesStand DEF FlowInv, OutboxParts
<1>4. OnlyQueued' /\ LoopVariable' /\ LockedRows'
  BY <1>1 DEF FlowInv, OnlyQueued, LoopVariable, LockedRows
<1>5. DeliveredApplied'
  BY <1>1 DEF FlowInv, DeliveredApplied, SentMeansApplied
<1> QED BY <1>2, <1>3, <1>4, <1>5 DEF FlowInv, OutboxParts

\* Steps of a call that only change its own record.
LEMMA TaskKeepsFlow ==
  ASSUME FlowInv, StandingLines, NEW h \in Handlers,
         \/ \E op \in Ops, o \in Requests, isOwner \in BOOLEAN : Load(h, op, o, isOwner)
         \/ Conflict(h) \/ UpdateFails(h),
         UNCHANGED <<stockVars, relayVars>>
  PROVE  FlowInv' /\ StandingLines'
<1>1. UNCHANGED storeVars
  BY DEF Load, Conflict, UpdateFails
<1>2. LifecycleTypeOK'
  <2>1. CASE \E op \in Ops, o \in Requests, isOwner \in BOOLEAN : Load(h, op, o, isOwner)
    <3>1. PICK op \in Ops, o \in Requests, at \in {"loaded"} \cup Answers :
            task' = [task EXCEPT ![h] = [op |-> op, order |-> o, at |-> at]]
      BY <2>1 DEF Load, SnapshotVerdict, Answers
    <3> QED BY <3>1 DEF FlowInv, Task
  <2>2. CASE Conflict(h) \/ UpdateFails(h)
    <3>1. task[h] # NoTask /\ task[h] \in Task
      BY <2>2 DEF Conflict, UpdateFails, NoTask, FlowInv
    <3>2. PICK a \in Answers : task' = [task EXCEPT ![h].at = a]
      BY <2>2 DEF Conflict, UpdateFails, Answer, Answers
    <3> QED BY <3>1, <3>2 DEF FlowInv, Task
  <2> QED BY <2>1, <2>2
<1> QED BY <1>1, <1>2, IdleStoreKeepsFlow DEF stockVars, FlowInv

\* Paying.
LEMMA PayKeepsFlow ==
  ASSUME FlowInv, StandingLines, NEW h \in Handlers, Pay(h), UNCHANGED <<stockVars, relayVars>>
  PROVE  FlowInv' /\ StandingLines'
<1> DEFINE o == Target(h)
<1>1. /\ orders[o] = "PENDING" /\ orders' = [orders EXCEPT ![o] = "PAID"]
      /\ UNCHANGED <<outbox, nextId, stock, listed, restored, taken, returned,
                     claim, todo, mark, current, send, stragglers, deadLogged, faults>>
  BY DEF Pay, UpdateStatus, StatusIs, stockVars, relayVars
<1>2. task[h] # NoTask /\ task[h] \in Task
  BY DEF Pay, NoTask, FlowInv
<1>3. o \in Requests
  BY <1>2 DEF Task, Target
<1>4. PICK a \in Answers : task' = [task EXCEPT ![h].at = a]
  BY DEF Pay, Answer, Answers
<1>5. FlowTypeOK'
  BY <1>1, <1>2, <1>3, <1>4 DEF FlowInv, Task, OrderStates
<1>6. OneCanceller' /\ WholeBatch' /\ DeadOnlyWhenExhausted'
  BY <1>1, <1>3 DEF FlowInv, OneCanceller, WholeBatch, DeadOnlyWhenExhausted
<1>7. RestoredLines' /\ StandingLines'
  BY <1>1, <1>3, LineIs DEF FlowInv, RestoredLines, StandingLines
<1>8. OnlyQueued' /\ LoopVariable' /\ LockedRows' /\ DeliveredApplied'
  BY <1>1 DEF FlowInv, OnlyQueued, LoopVariable, LockedRows, DeliveredApplied, SentMeansApplied
<1> QED BY <1>5, <1>6, <1>7, <1>8 DEF FlowInv

\* Cancelling: the order had queued nothing before, and queues one batch now.
LEMMA CancelKeepsFlow ==
  ASSUME FlowInv, StandingLines, NEW h \in Handlers, Cancel(h), UNCHANGED <<stockVars, relayVars>>
  PROVE  FlowInv' /\ StandingLines'
<1> DEFINE o == Target(h)
<1>1. /\ orders[o] = "PENDING" /\ orders' = [orders EXCEPT ![o] = "CANCELLED"]
      /\ outbox' = [m \in Messages |-> IF m \in Batch(h, o) THEN NewRow(m) ELSE outbox[m]]
      /\ nextId' = nextId + Len(Cart[o])
      /\ UNCHANGED <<stock, listed, restored, taken, returned,
                     claim, todo, mark, current, send, stragglers, deadLogged, faults>>
  BY DEF Cancel, CancelWithOutbox, StatusIs, stockVars, relayVars
<1>2. task[h] # NoTask /\ task[h] \in Task
  BY DEF Cancel, NoTask, FlowInv
<1>3. o \in Requests
  BY <1>2 DEF Task, Target
<1>4. PICK a \in Answers : task' = [task EXCEPT ![h].at = a]
  BY DEF Cancel, Answer, Answers
<1>5. \A m \in Messages : NewRow(m) \in Row
  BY LineIs, MessageIs, CartShape, RetryAssumption DEF FlowInv, NewRow, Row
<1>6. FlowTypeOK'
  <2>1. outbox' \in [Messages -> Row]
    BY <1>1, <1>5 DEF FlowInv
  <2>2. orders' \in [Requests -> OrderStates] /\ nextId' \in Nat
    BY <1>1, <1>3, CartShape DEF FlowInv, OrderStates
  <2>3. LifecycleTypeOK'
    BY <1>2, <1>4 DEF FlowInv, Task
  <2> QED BY <1>1, <2>1, <2>2, <2>3 DEF FlowInv
<1>7. \A m \in Messages :
        /\ m \in Batch(h, o) => outbox'[m].status = "PENDING" /\ outbox'[m].retry = 0
        /\ m \notin Batch(h, o) => outbox'[m] = outbox[m]
        /\ OrderOf(m) = o => ~Queued(m)
  BY <1>1 DEF NewRow, FlowInv, OneCanceller
<1>8. \A m \in Messages : Queued(m)' <=> Queued(m) \/ m \in Batch(h, o)
  BY <1>7
<1>9. \A m \in Messages : OrderOf(m) \in Requests /\ (m \in Batch(h, o) <=> m[1] = h /\ OrderOf(m) = o)
  BY <1>3, BatchIs, MessageIs
<1>10. OneCanceller'
  BY <1>1, <1>7, <1>8, <1>9 DEF FlowInv, OneCanceller
<1>11. WholeBatch'
  BY <1>1, <1>3, <1>8, <1>9, BatchIs DEF FlowInv, WholeBatch
<1>12. DeadOnlyWhenExhausted' /\ SentMeansApplied'
  BY <1>1, <1>7, RetryAssumption
  DEF FlowInv, DeadOnlyWhenExhausted, DeliveredApplied, SentMeansApplied
<1>13. RestoredLines' /\ StandingLines'
  BY <1>1, <1>3, LineIs DEF FlowInv, RestoredLines, StandingLines
<1>14. OnlyQueued' /\ LoopVariable'
  BY <1>1, <1>8 DEF FlowInv, OnlyQueued, LoopVariable
<1>15. LockedRows'
  BY <1>1, <1>7 DEF FlowInv, LockedRows
<1>16. DeliveredApplied'
  BY <1>1, <1>12 DEF FlowInv, DeliveredApplied
<1> QED BY <1>6, <1>10, <1>11, <1>12, <1>13, <1>14, <1>15, <1>16 DEF FlowInv

\* One step of any PayOrder or CancelOrder call.
LEMMA LifecycleKeepsFlow ==
  ASSUME FlowInv, StandingLines, LifecycleNext, UNCHANGED <<stockVars, relayVars>>
  PROVE  FlowInv' /\ StandingLines'
BY TaskKeepsFlow, PayKeepsFlow, CancelKeepsFlow DEF LifecycleNext, HandlerNext

\* A seller deletes a product.
LEMMA SellerKeepsFlow ==
  ASSUME FlowInv, StandingLines, NEW p \in Products, DeleteProduct(p),
         UNCHANGED <<storeVars, task, relayVars>>
  PROVE  FlowInv' /\ StandingLines'
<1>1. LifecycleTypeOK' /\ StockTypeOK'
  BY DEF FlowInv, DeleteProduct
<1> QED BY <1>1, IdleStoreKeepsFlow DEF DeleteProduct
-----------------------------------------------------------------------------
(* Paying, cancelling and relaying on their own *)

\* The relays and handlers start idle, over an empty outbox.
LEMMA FlowInitially ==
  ASSUME StockTypeOK, StoreTypeOK, LifecycleInit, RelayInit,
         restored = {}, outbox = [m \in Messages |-> NoRow],
         \A r \in Requests : orders[r] # "CANCELLED"
  PROVE  FlowInv
<1>1. FlowTypeOK
  BY RelayAssumption DEF LifecycleInit, RelayInit, Task, NoTask, NoMarks, Marks
<1>2. OneCanceller /\ WholeBatch /\ DeadOnlyWhenExhausted
  BY RetryAssumption DEF OneCanceller, WholeBatch, DeadOnlyWhenExhausted, NoRow
<1>3. OnlyQueued /\ LoopVariable /\ LockedRows
  BY DEF RelayInit, OnlyQueued, LoopVariable, LockedRows
<1>4. DeliveredApplied
  BY DEF RelayInit, DeliveredApplied, SentMeansApplied, NoRow, NoMarks
<1>5. RestoredLines
  BY LineIs DEF RestoredLines
<1> QED BY <1>1, <1>2, <1>3, <1>4, <1>5 DEF FlowInv

\* Over orders that were placed, the parts of FlowInv hold throughout.
LEMMA FlowHolds == FlowSpec => [](FlowInv /\ StandingLines)
<1>1. PlacedInit => FlowInv /\ StandingLines
  <2> SUFFICES ASSUME PlacedInit PROVE FlowInv /\ StandingLines
    OBVIOUS
  <2>1. StockTypeOK
    BY StockAssumption DEF PlacedInit
  <2>2. StoreTypeOK
    BY RetryAssumption DEF PlacedInit, OrderStates, Row, NoRow
  <2>3. StandingLines
    BY LineIs DEF PlacedInit, StandingLines
  <2> QED BY <2>1, <2>2, <2>3, FlowInitially DEF PlacedInit
<1>2. FlowInv /\ StandingLines /\ [FlowNext]_flowVars => FlowInv' /\ StandingLines'
  <2> SUFFICES ASSUME FlowInv, StandingLines, [FlowNext]_flowVars
               PROVE  FlowInv' /\ StandingLines'
    OBVIOUS
  <2>1. CASE LifecycleNext /\ UNCHANGED <<stockVars, relayVars>>
    BY <2>1, LifecycleKeepsFlow
  <2>2. CASE RelayNext /\ UNCHANGED task
    BY <2>2, RelayKeepsFlow
  <2>3. CASE \E p \in Products : DeleteProduct(p) /\ UNCHANGED <<storeVars, task, relayVars>>
    BY <2>3, SellerKeepsFlow
  <2>4. CASE UNCHANGED flowVars
    <3>1. UNCHANGED <<task, stock, listed, restored, taken, returned, storeVars, relayVars>>
      BY <2>4 DEF flowVars, stockVars
    <3>2. LifecycleTypeOK' /\ StockTypeOK'
      BY <3>1 DEF FlowInv
    <3> QED BY <3>1, <3>2, IdleStoreKeepsFlow
  <2> QED BY <2>1, <2>2, <2>3, <2>4 DEF FlowNext
<1> QED BY <1>1, <1>2, PTL DEF FlowSpec

\* In every reachable state a row is SENT only when product-service has applied it,
\* whatever answers, transactions or replicas are lost.
THEOREM SentRowsWereApplied == FlowSpec => []SentMeansApplied
<1>1. FlowInv => SentMeansApplied
  BY DEF FlowInv, DeliveredApplied
<1> QED BY <1>1, FlowHolds, PTL

\* What a step may do to a row: nothing to a settled one, and to a held one nothing that
\* counts, unless its own session commits.
Untouched(m) ==
  /\ outbox[m].status \in {"SENT", "DEAD"} => outbox'[m] = outbox[m]
  /\ \A w \in Workers :
       m \in claim[w] /\ m \in claim'[w] =>
         outbox'[m].status = outbox[m].status /\ outbox'[m].retry = outbox[m].retry

\* Committing a session changes the rows it held, and it holds none of them any more.
LEMMA CloseOwnRows ==
  ASSUME FlowInv, NEW w \in Workers, Close(w), NEW m \in Messages
  PROVE  Untouched(m)
<1>1. /\ outbox' = [n \in Messages |->
                      IF n \in claim[w] THEN Marked(n, mark[w][n]) ELSE outbox[n]]
      /\ claim' = [claim EXCEPT ![w] = {}]
      /\ claim \in [Workers -> SUBSET Messages]
  BY DEF Close, Release, FlowInv
<1>2. CASE m \in claim[w]
  <2>1. outbox[m].status = "PENDING" /\ \A v \in Workers \ {w} : m \notin claim[v]
    BY <1>2 DEF FlowInv, LockedRows
  <2> QED BY <1>1, <2>1 DEF Untouched
<1>3. CASE m \notin claim[w]
  <2>1. outbox'[m] = outbox[m]
    BY <1>1, <1>3
  <2> QED BY <2>1 DEF Untouched
<1> QED BY <1>2, <1>3

\* Cancelling an order fills rows that were not there.
LEMMA CancelFreshRows ==
  ASSUME FlowInv, NEW h \in Handlers, Cancel(h), claim' = claim, NEW m \in Messages
  PROVE  Untouched(m)
<1> DEFINE o == Target(h)
<1>1. /\ orders[o] = "PENDING"
      /\ outbox' = [n \in Messages |-> IF n \in Batch(h, o) THEN NewRow(n) ELSE outbox[n]]
  BY DEF Cancel, CancelWithOutbox, StatusIs
<1>2. o \in Requests
  BY DEF Cancel, NoTask, FlowInv, Task, Target
<1>3. CASE m \in Batch(h, o)
  <2>1. outbox[m].status = "none"
    BY <1>1, <1>2, <1>3, BatchIs DEF FlowInv, OneCanceller
  <2>2. \A w \in Workers : m \notin claim[w]
    BY <2>1 DEF FlowInv, LockedRows
  <2> QED BY <2>1, <2>2 DEF Untouched
<1>4. CASE m \notin Batch(h, o)
  <2>1. outbox'[m] = outbox[m]
    BY <1>1, <1>4
  <2> QED BY <2>1 DEF Untouched
<1> QED BY <1>3, <1>4

\* In every behaviour a session commits its marks over the rows it read: nobody changes
\* the status or the count of a row that another session holds, and a row that is SENT
\* or DEAD is final for every relay and every cancel (MarkSent, MarkFailed, Close).
THEOREM MarksMatchWhatWasRead == FlowSpec => MarksOverwriteNothing
<1>1. ASSUME FlowInv, [FlowNext]_flowVars, NEW m \in Messages PROVE Untouched(m)
  <2>1. CASE outbox' = outbox
    BY <2>1 DEF Untouched
  <2>2. ASSUME NEW w \in Workers, Close(w) PROVE Untouched(m)
    BY <1>1, <2>2, CloseOwnRows
  <2>3. ASSUME NEW h \in Handlers, Cancel(h), UNCHANGED relayVars PROVE Untouched(m)
    <3>1. claim' = claim
      BY <2>3 DEF relayVars
    <3> QED BY <1>1, <2>3, <3>1, CancelFreshRows
  <2>4. ASSUME NEW n \in Messages, BackoffExpires(n) PROVE Untouched(m)
    <3>1. /\ outbox[n].status = "PENDING" /\ outbox' = [outbox EXCEPT ![n].due = TRUE]
          /\ outbox \in [Messages -> Row]
      BY <1>1, <2>4 DEF BackoffExpires, FlowInv
    <3>2. m # n => outbox'[m] = outbox[m]
      BY <3>1
    <3>3. outbox'[n].status = outbox[n].status /\ outbox'[n].retry = outbox[n].retry
      BY <3>1 DEF Row
    <3> QED BY <3>1, <3>2, <3>3 DEF Untouched
  <2>5. CASE LifecycleNext /\ UNCHANGED <<stockVars, relayVars>>
    <3>1. PICK h \in Handlers : HandlerNext(h)
      BY <2>5 DEF LifecycleNext
    <3>2. Cancel(h) \/ outbox' = outbox
      BY <3>1 DEF HandlerNext, Load, Pay, UpdateStatus, Conflict, UpdateFails, storeVars
    <3> QED BY <2>1, <2>3, <2>5, <3>2
  <2>6. CASE RelayNext
    <3>1. \/ \E w \in Workers : Close(w)
          \/ \E n \in Messages : BackoffExpires(n)
          \/ outbox' = outbox
      BY <2>6 DEF RelayNext, Claim, SessionStep, Discard, Send, Deliver, Reply,
         DeliveryTimeout, Delivered, NotDelivered, TxLost, RelayCrash, LateDelivery, storeVars
    <3> QED BY <2>1, <2>2, <2>4, <3>1
  <2> QED BY <1>1, <2>1, <2>5, <2>6 DEF FlowNext, flowVars, storeVars
<1>2. FlowInv /\ [FlowNext]_flowVars =>
        [\A m \in Messages :
           /\ outbox[m].status \in {"SENT", "DEAD"} => outbox'[m] = outbox[m]
           /\ \A w \in Workers :
                m \in claim[w] /\ m \in claim'[w] =>
                  outbox'[m].status = outbox[m].status /\ outbox'[m].retry = outbox[m].retry
        ]_<<storeVars, relayVars>>
  BY <1>1 DEF Untouched
<1> QED BY <1>2, FlowHolds, PTL DEF FlowSpec, MarksOverwriteNothing

\* In every reachable state a DEAD row failed MaxRetry times or cannot be decoded, and
\* a row that is still PENDING has failed less often.
THEOREM GivenUpOnlyWhenExhausted == FlowSpec => []DeadOnlyWhenExhausted
<1>1. FlowInv => DeadOnlyWhenExhausted
  BY DEF FlowInv
<1> QED BY <1>1, FlowHolds, PTL

\* In every reachable state a cancelled order has queued one whole batch, made up by
\* one call, and an order that is not cancelled has queued nothing.
THEOREM CancelQueuesOneBatch == FlowSpec => []OneBatchPerCancel
<1>1. FlowInv => OneBatchPerCancel
  <2> SUFFICES ASSUME FlowInv, NEW o \in Requests
               PROVE  IF orders[o] = "CANCELLED"
                      THEN \E h \in Handlers :
                             {m \in Messages : OrderOf(m) = o /\ Queued(m)} = Batch(h, o)
                      ELSE \A m \in Messages : OrderOf(m) = o => ~Queued(m)
    BY DEF OneBatchPerCancel
  <2>1. CASE orders[o] = "CANCELLED"
    <3>1. PICK h \in Handlers : \A m \in Batch(h, o) : Queued(m)
      BY <2>1 DEF FlowInv, WholeBatch
    <3>2. <<h, <<o, 1>>>> \in Batch(h, o)
      BY CartShape DEF Batch, LinesOf
    <3>3. ASSUME NEW m \in Messages, OrderOf(m) = o, Queued(m) PROVE m \in Batch(h, o)
      <4>1. PICK n \in Batch(h, o) : n = <<h, <<o, 1>>>>
        BY <3>2
      <4>2. n \in Messages /\ n[1] = h /\ OrderOf(n) = o /\ Queued(n)
        BY <3>1, BatchIs
      <4>3. m[1] = h
        BY <3>3, <4>2 DEF FlowInv, OneCanceller
      <4> QED BY <3>3, <4>3, BatchIs
    <3>4. ASSUME NEW m \in Batch(h, o) PROVE m \in Messages /\ OrderOf(m) = o /\ Queued(m)
      BY <3>1, BatchIs
    <3> QED BY <2>1, <3>3, <3>4
  <2>2. CASE orders[o] # "CANCELLED"
    BY <2>2 DEF FlowInv, OneCanceller
  <2> QED BY <2>1, <2>2
<1> QED BY <1>1, FlowHolds, PTL
-----------------------------------------------------------------------------
(* What callers and operators are told *)

FlowParts == FlowInv /\ StandingLines
-----------------------------------------------------------------------------
(* Answers *)

LEMMA AckStep ==
  ASSUME FlowInv, AckHolds, [FlowNext]_flowVars
  PROVE  AckHolds'
<1>1. task \in [Handlers -> Task] /\ orders \in [Requests -> OrderStates]
  BY DEF FlowInv, FlowTypeOK, StoreTypeOK, LifecycleTypeOK
<1>2. CASE UNCHANGED <<task, orders>>
  BY <1>2 DEF AckHolds, Target
<1>3. CASE LifecycleNext
  <2>1. PICK h \in Handlers : HandlerNext(h)
    BY <1>3 DEF LifecycleNext
  <2>2. \A g \in Handlers : g # h => task'[g] = task[g]
    BY <1>1, <2>1 DEF HandlerNext, Load, Pay, Cancel, Conflict, UpdateFails, Answer
  <2>3. CASE /\ orders[Target(h)] = "PENDING" /\ task[h].at = "loaded"
             /\ \E s \in {"PAID", "CANCELLED"} :
                  /\ orders' = [orders EXCEPT ![Target(h)] = s]
                  /\ s = (IF task[h].op = "pay" THEN "PAID" ELSE "CANCELLED")
             /\ \E a \in {"ok", "error"} : Answer(h, a)
    <3>1. task[h] \in Task /\ Target(h) \in Requests
      BY <1>1, <2>3, NoOrderAssumption DEF Task, NoTask, Target
    <3>2. PICK a \in {"ok", "error"} : task' = [task EXCEPT ![h].at = a]
      BY <2>3 DEF Answer
    <3>3. task'[h].order = task[h].order /\ task'[h].op = task[h].op
      BY <1>1, <3>1, <3>2 DEF Task, NoTask
    <3>4. orders'[Target(h)] = (IF task[h].op = "pay" THEN "PAID" ELSE "CANCELLED")
      BY <1>1, <2>3, <3>1
    <3> SUFFICES ASSUME NEW g \in Handlers, task'[g].at = "ok"
                 PROVE  orders'[task'[g].order] =
                          (IF task'[g].op = "pay" THEN "PAID" ELSE "CANCELLED")
      BY DEF AckHolds, Target
    <3>5. CASE g = h
      BY <3>3, <3>4, <3>5 DEF Target
    <3>6. CASE g # h
      <4>1. task'[g] = task[g]
        BY <2>2, <3>6
      <4>2. orders[Target(g)] = (IF task[g].op = "pay" THEN "PAID" ELSE "CANCELLED")
        BY <4>1 DEF AckHolds
      <4>3. Target(g) # Target(h)
        BY <2>3, <4>2
      <4>4. orders'[Target(g)] = orders[Target(g)]
        BY <1>1, <2>3, <4>3
      <4> QED BY <4>1, <4>2, <4>4 DEF Target
    <3> QED BY <3>5, <3>6
  <2>4. CASE /\ orders' = orders
             /\ \E a \in {"conflict", "error"} : Answer(h, a)
    <3>1. task'[h].at # "ok"
      BY <1>1, <2>4 DEF Answer
    <3> QED BY <2>2, <2>4, <3>1 DEF AckHolds, Target
  <2>5. CASE \E op \in Ops, o \in Requests, isOwner \in BOOLEAN : Load(h, op, o, isOwner)
    <3>1. task'[h].at # "ok"
      BY <1>1, <2>5 DEF Load, SnapshotVerdict
    <3>2. orders' = orders
      BY <2>5 DEF Load, storeVars
    <3> QED BY <2>2, <3>1, <3>2 DEF AckHolds, Target
  <2> QED BY <2>1, <2>3, <2>4, <2>5
       DEF HandlerNext, Pay, Cancel, CancelWithOutbox, UpdateStatus, StatusIs, Conflict, UpdateFails, storeVars
<1>4. CASE RelayNext /\ UNCHANGED task
  BY <1>2, <1>4 DEF RelayNext, Claim, SessionStep, Discard, Send, Deliver, Reply,
     DeliveryTimeout, Delivered, NotDelivered, Close, TxLost, RelayCrash, LateDelivery,
     BackoffExpires, storeVars
<1> QED BY <1>2, <1>3, <1>4 DEF FlowNext, flowVars, storeVars

-----------------------------------------------------------------------------
(* Dead letters *)

\* A delivery that used up the retries of a row was logged when it was marked,
\* before the mark is committed.
MarkedIsLogged ==
  \A w \in Workers : \A m \in Messages :
    mark[w][m] = "FAILED" /\ Exhausted(m) => m \in deadLogged

\* The mark of one message: the others keep theirs.
LEMMA OneMark ==
  ASSUME FlowInv, NEW w \in Workers, NEW n \in Messages, NEW value \in Marks,
         MarkRow(w, n, value), NEW v \in Workers, NEW m \in Messages
  PROVE  mark'[v][m] = mark[v][m] \/ (v = w /\ m = n /\ mark'[v][m] = value)
<1>1. mark \in [Workers -> [Messages -> Marks]]
  BY DEF FlowInv, FlowTypeOK, RelayTypeOK
<1>2. mark' = mark \/ mark' = [mark EXCEPT ![w] = [@ EXCEPT ![n] = value]]
  BY DEF MarkRow
<1> QED BY <1>1, <1>2

LEMMA MarkStep ==
  ASSUME FlowInv, MarkedIsLogged, RelayNext
  PROVE  /\ deadLogged \subseteq deadLogged'
         /\ \A w \in Workers : \A m \in Messages :
              mark'[w][m] = "FAILED" /\ Exhausted(m) => m \in deadLogged'
<1>1. mark \in [Workers -> [Messages -> Marks]]
  BY DEF FlowInv, FlowTypeOK, RelayTypeOK
<1>2. CASE UNCHANGED <<mark, deadLogged>>
  BY <1>2 DEF MarkedIsLogged
<1>3. ASSUME NEW w \in Workers, mark' = [mark EXCEPT ![w] = NoMarks], UNCHANGED deadLogged
      PROVE  /\ deadLogged \subseteq deadLogged'
             /\ \A v \in Workers : \A m \in Messages :
                  mark'[v][m] = "FAILED" /\ Exhausted(m) => m \in deadLogged'
  BY <1>1, <1>3 DEF MarkedIsLogged, NoMarks
<1>4. ASSUME NEW w \in Workers, NEW n \in Messages, NEW value \in {"SENT", "DEAD"},
             MarkRow(w, n, value), UNCHANGED deadLogged
      PROVE  /\ deadLogged \subseteq deadLogged'
             /\ \A v \in Workers : \A m \in Messages :
                  mark'[v][m] = "FAILED" /\ Exhausted(m) => m \in deadLogged'
  BY <1>4, OneMark DEF MarkedIsLogged, Marks
<1>5. ASSUME NEW w \in Workers, NotDelivered(w)
      PROVE  /\ deadLogged \subseteq deadLogged'
             /\ \A v \in Workers : \A m \in Messages :
                  mark'[v][m] = "FAILED" /\ Exhausted(m) => m \in deadLogged'
  <2>1. current[w] \in Messages
    BY <1>5 DEF NotDelivered, FlowInv, LoopVariable
  <2>2. MarkRow(w, current[w], "FAILED")
    BY <1>5 DEF NotDelivered
  <2>3. deadLogged' = IF Exhausted(current[w]) /\ mark'[w][current[w]] = "FAILED"
                      THEN deadLogged \cup {current[w]} ELSE deadLogged
    BY <1>5 DEF NotDelivered
  <2>4. \A v \in Workers : \A m \in Messages :
          mark'[v][m] = mark[v][m] \/ (v = w /\ m = current[w])
    BY <2>1, <2>2, OneMark DEF Marks
  <2> QED BY <2>3, <2>4 DEF MarkedIsLogged
<1>6. ASSUME NEW w \in Workers, Discard(w)
      PROVE  /\ deadLogged \subseteq deadLogged'
             /\ \A v \in Workers : \A m \in Messages :
                  mark'[v][m] = "FAILED" /\ Exhausted(m) => m \in deadLogged'
  BY <1>4, <1>6, RelayAssumption DEF Discard
<1>7. ASSUME NEW w \in Workers, Delivered(w)
      PROVE  /\ deadLogged \subseteq deadLogged'
             /\ \A v \in Workers : \A m \in Messages :
                  mark'[v][m] = "FAILED" /\ Exhausted(m) => m \in deadLogged'
  BY <1>4, <1>7 DEF Delivered, FlowInv, LoopVariable
<1>8. CASE \E w \in Workers : Claim(w) \/ Close(w) \/ TxLost(w) \/ RelayCrash(w)
  BY <1>3, <1>8 DEF Claim, Close, TxLost, RelayCrash, Release
<1>9. CASE \/ \E w \in Workers : Send(w) \/ Deliver(w) \/ Reply(w) \/ DeliveryTimeout(w)
           \/ \E m \in Messages : LateDelivery(m) \/ BackoffExpires(m)
  BY <1>2, <1>9 DEF Send, Deliver, Reply, DeliveryTimeout, LateDelivery, BackoffExpires, relayVars
<1> QED BY <1>5, <1>6, <1>7, <1>8, <1>9 DEF RelayNext, SessionStep

\* What happens to a row: its count changes and it dies only in the commit of a mark,
\* and a row that is marked is neither claimed anew nor queued anew.
LEMMA RowStep ==
  ASSUME FlowInv, [FlowNext]_flowVars, NEW m \in Messages
  PROVE  \/ /\ outbox'[m].retry = outbox[m].retry
            /\ outbox'[m].status = "DEAD" => outbox[m].status = "DEAD"
         \/ \E w \in Workers :
              /\ m \in claim[w] /\ mark' = [mark EXCEPT ![w] = NoMarks]
              /\ outbox'[m] = Marked(m, mark[w][m])
         \/ ~Queued(m) /\ outbox'[m].status = "PENDING" /\ UNCHANGED <<mark, deadLogged>>
<1>1. outbox \in [Messages -> Row]
  BY DEF FlowInv, FlowTypeOK, StoreTypeOK
<1>2. CASE UNCHANGED outbox
  BY <1>2
<1>3. ASSUME NEW h \in Handlers, NEW o \in Requests,
             CancelWithOutbox(h, o, "PENDING", "CANCELLED"), UNCHANGED relayVars
      PROVE  \/ /\ outbox'[m].retry = outbox[m].retry
                /\ outbox'[m].status = "DEAD" => outbox[m].status = "DEAD"
             \/ ~Queued(m) /\ outbox'[m].status = "PENDING" /\ UNCHANGED <<mark, deadLogged>>
  <2>1. outbox'[m] = IF m \in Batch(h, o) THEN NewRow(m) ELSE outbox[m]
    BY <1>3 DEF CancelWithOutbox
  <2>2. m \in Batch(h, o) => ~Queued(m)
    BY <1>3, BatchIs DEF CancelWithOutbox, StatusIs, FlowInv, OneCanceller
  <2> QED BY <1>3, <2>1, <2>2 DEF NewRow, relayVars
<1>4. ASSUME NEW w \in Workers, Close(w)
      PROVE  \/ outbox'[m] = outbox[m]
             \/ /\ m \in claim[w] /\ mark' = [mark EXCEPT ![w] = NoMarks]
                /\ outbox'[m] = Marked(m, mark[w][m])
  BY <1>4 DEF Close, Release
<1>5. ASSUME NEW n \in Messages, BackoffExpires(n)
      PROVE  outbox'[m].retry = outbox[m].retry /\ outbox'[m].status = outbox[m].status
  BY <1>1, <1>5 DEF BackoffExpires, Row
<1>6. CASE LifecycleNext /\ UNCHANGED <<stockVars, relayVars>>
  <2>1. PICK h \in Handlers : HandlerNext(h)
    BY <1>6 DEF LifecycleNext
  <2>2. CASE Cancel(h)
    <3>1. Target(h) \in Requests
      BY <2>2, NoOrderAssumption DEF Cancel, Target, FlowInv, FlowTypeOK, LifecycleTypeOK, Task, NoTask
    <3> QED BY <1>3, <1>6, <2>2, <3>1 DEF Cancel
  <2>3. ASSUME ~Cancel(h) PROVE UNCHANGED outbox
    BY <2>1, <2>3 DEF HandlerNext, Load, Pay, UpdateStatus, Conflict, UpdateFails, storeVars
  <2> QED BY <1>2, <2>2, <2>3
<1>7. CASE RelayNext
  <2>1. ASSUME NEW w \in Workers, Claim(w) \/ SessionStep(w) \/ TxLost(w) \/ RelayCrash(w), ~Close(w)
        PROVE  UNCHANGED outbox
    BY <2>1 DEF Claim, SessionStep, Discard, Send, Deliver, Reply, DeliveryTimeout, Delivered,
       NotDelivered, TxLost, RelayCrash, storeVars
  <2>2. ASSUME NEW n \in Messages, LateDelivery(n) PROVE UNCHANGED outbox
    BY <2>2 DEF LateDelivery, storeVars
  <2> QED BY <1>2, <1>4, <1>5, <1>7, <2>1, <2>2 DEF RelayNext
<1> QED BY <1>2, <1>6, <1>7 DEF FlowNext, flowVars, storeVars

LEMMA ReportStep ==
  ASSUME FlowInv, MarkedIsLogged, DeadIsReported, [FlowNext]_flowVars
  PROVE  MarkedIsLogged' /\ DeadIsReported'
<1>1. /\ mark \in [Workers -> [Messages -> Marks]]
      /\ outbox \in [Messages -> Row]
      /\ claim \in [Workers -> SUBSET Messages]
  BY DEF FlowInv, FlowTypeOK, RelayTypeOK, StoreTypeOK
<1>2. /\ deadLogged \subseteq deadLogged'
      /\ \A w \in Workers : \A m \in Messages :
           mark'[w][m] = "FAILED" /\ Exhausted(m) => m \in deadLogged'
  <2>1. CASE UNCHANGED relayVars
    BY <2>1 DEF relayVars, MarkedIsLogged
  <2> QED BY <2>1, MarkStep DEF FlowNext, flowVars
<1>3. \A w \in Workers : \A m \in Messages :
        mark[w][m] # "none" => m \in claim[w] /\ Queued(m)
  BY <1>1 DEF FlowInv, DeliveredApplied, LockedRows, Queued
<1>4. MarkedIsLogged'
  <2> SUFFICES ASSUME NEW w \in Workers, NEW m \in Messages,
                      mark'[w][m] = "FAILED", Exhausted(m)'
               PROVE  m \in deadLogged'
    BY DEF MarkedIsLogged
  <2>1. CASE outbox'[m].retry = outbox[m].retry
    BY <1>2, <2>1 DEF Exhausted
  <2>2. ASSUME NEW v \in Workers, m \in claim[v], mark' = [mark EXCEPT ![v] = NoMarks]
        PROVE  FALSE
    <3>1. w # v /\ mark[w][m] = "FAILED"
      BY <1>1, <2>2 DEF NoMarks
    <3> QED BY <1>3, <2>2, <3>1 DEF FlowInv, LockedRows
  <2>3. CASE ~Queued(m) /\ mark' = mark
    BY <1>3, <2>3
  <2> QED BY <2>1, <2>2, <2>3, RowStep
<1>5. DeadIsReported'
  <2> SUFFICES ASSUME NEW m \in Messages, outbox'[m].status = "DEAD"
               PROVE  m \in deadLogged' \/ m \in Undecodable
    BY DEF DeadIsReported
  <2>1. CASE outbox[m].status = "DEAD"
    BY <1>2, <2>1 DEF DeadIsReported
  <2>2. ASSUME NEW w \in Workers, m \in claim[w], outbox'[m] = Marked(m, mark[w][m])
        PROVE  m \in deadLogged' \/ m \in Undecodable
    <3>1. outbox[m].status = "PENDING"
      BY <2>2 DEF FlowInv, LockedRows
    <3>2. CASE mark[w][m] = "FAILED"
      <4>1. Exhausted(m)
        BY <1>1, <2>2, <3>1, <3>2 DEF Marked, Failed, Row
      <4> QED BY <1>2, <3>2, <4>1 DEF MarkedIsLogged
    <3>3. CASE mark[w][m] = "DEAD"
      BY <3>3 DEF FlowInv, DeliveredApplied
    <3>4. CASE mark[w][m] \in {"none", "SENT"}
      BY <1>1, <2>2, <3>1, <3>4 DEF Marked, Row
    <3> QED BY <1>1, <3>2, <3>3, <3>4 DEF Marks
  <2> QED BY <2>1, <2>2, RowStep
<1> QED BY <1>4, <1>5

-----------------------------------------------------------------------------
(* Units that come back *)

Applied(l) == {m \in restored : LineOf(m) = l}

LEMMA CountStep ==
  ASSUME FlowInv, AppliedOnce, IsFiniteSet(restored), [FlowNext]_flowVars
  PROVE  AppliedOnce' /\ IsFiniteSet(restored')
<1>1. returned \in [Lines -> Nat]
  BY DEF FlowInv, FlowTypeOK, StockTypeOK
<1>2. CASE UNCHANGED <<restored, returned>>
  BY <1>2 DEF AppliedOnce
<1>3. ASSUME NEW m \in Messages, m \notin restored, AddBack(LineOf(m)),
             restored' = restored \cup {m}
      PROVE  AppliedOnce' /\ IsFiniteSet(restored')
  <2> DEFINE l == LineOf(m)
  <2>1. returned' = [returned EXCEPT ![l] = @ + 1]
    BY <1>3 DEF AddBack
  <2>2. IsFiniteSet(restored')
    BY <1>3, FS_AddElement
  <2>3. IsFiniteSet(Applied(l)) /\ m \notin Applied(l)
    BY <1>3, FS_Subset DEF Applied
  <2>4. Applied(l)' = Applied(l) \cup {m}
    BY <1>3 DEF Applied
  <2>5. Cardinality(Applied(l)') = Cardinality(Applied(l)) + 1
    BY <2>3, <2>4, FS_AddElement
  <2> SUFFICES ASSUME NEW x \in Lines PROVE returned'[x] = Cardinality(Applied(x)')
    BY <2>2 DEF AppliedOnce, Applied
  <2>6. CASE x = l
    BY <1>1, <2>1, <2>5, <2>6 DEF AppliedOnce, Applied
  <2>7. CASE x # l
    <3>1. Applied(x)' = Applied(x)
      BY <1>3, <2>7 DEF Applied
    <3> QED BY <1>1, <2>1, <2>7, <3>1 DEF AppliedOnce, Applied
  <2> QED BY <2>6, <2>7
<1>4. ASSUME NEW m \in Messages, NEW outcome \in Outcomes, RestoreStockIdempotent(m, outcome)
      PROVE  AppliedOnce' /\ IsFiniteSet(restored')
  BY <1>2, <1>3, <1>4 DEF RestoreStockIdempotent, Seen, stockVars
<1>5. ASSUME NEW w \in Workers, Deliver(w) PROVE AppliedOnce' /\ IsFiniteSet(restored')
  <2>1. current[w] \in Messages
    BY <1>5 DEF Deliver, FlowInv, LoopVariable
  <2> QED BY <1>4, <1>5, <2>1 DEF Deliver
<1>6. ASSUME NEW m \in Messages, LateDelivery(m) PROVE AppliedOnce' /\ IsFiniteSet(restored')
  BY <1>4, <1>6 DEF LateDelivery
<1>7. CASE RelayNext
  <2>1. ASSUME NEW w \in Workers, Claim(w) \/ SessionStep(w) \/ TxLost(w) \/ RelayCrash(w),
               ~Deliver(w)
        PROVE  UNCHANGED stockVars
    BY <2>1 DEF Claim, SessionStep, Discard, Send, Reply, DeliveryTimeout, Delivered,
       NotDelivered, Close, TxLost, RelayCrash
  <2>2. ASSUME NEW m \in Messages, BackoffExpires(m) PROVE UNCHANGED stockVars
    BY <2>2 DEF BackoffExpires
  <2> QED BY <1>2, <1>5, <1>6, <1>7, <2>1, <2>2 DEF RelayNext, stockVars
<1> QED BY <1>2, <1>7 DEF FlowNext, flowVars, stockVars, DeleteProduct
-----------------------------------------------------------------------------
(* The three together *)

Promises ==
  FlowParts /\ AckHolds /\ MarkedIsLogged /\ DeadIsReported /\ AppliedOnce /\ IsFiniteSet(restored)

LEMMA PromisesInitially == PlacedInit /\ FlowParts => Promises
<1> SUFFICES ASSUME PlacedInit, FlowParts PROVE Promises
  OBVIOUS
<1>1. AckHolds /\ MarkedIsLogged /\ DeadIsReported
  BY DEF PlacedInit, LifecycleInit, RelayInit, NoTask, NoMarks, NoRow,
     AckHolds, MarkedIsLogged, DeadIsReported
<1>2. restored = {} /\ returned = [l \in Lines |-> 0]
  BY DEF PlacedInit
<1>3. IsFiniteSet(restored) /\ Cardinality({}) = 0
  BY <1>2, FS_EmptySet
<1>4. AppliedOnce
  <2>1. ASSUME NEW l \in Lines PROVE {m \in restored : LineOf(m) = l} = {}
    BY <1>2
  <2> QED BY <1>2, <1>3, <2>1 DEF AppliedOnce
<1> QED BY <1>1, <1>3, <1>4 DEF Promises

LEMMA PromisesHold == FlowSpec => []Promises
<1>1. FlowSpec => []FlowParts
  BY FlowHolds DEF FlowParts
<1>2. FlowParts' /\ Promises /\ [FlowNext]_flowVars => Promises'
  BY AckStep, ReportStep, CountStep DEF Promises, FlowParts
<1> QED BY <1>1, <1>2, PromisesInitially, PTL DEF FlowSpec

\* In every reachable state the caller who was told "paid" or "cancelled" is right:
\* no call that raced with his has moved the order since, or ever will
\* (repo.UpdateStatus, outbox.CancelWithOutbox: UPDATE ... WHERE status = PENDING).
THEOREM AnswersStand == FlowSpec => []AckHolds
<1>1. Promises => AckHolds
  BY DEF Promises
<1> QED BY <1>1, PromisesHold, PTL

\* In every reachable state the units of a line have come back exactly as often as
\* stock_restores holds messages about it, however often each was delivered
\* (RestoreStockIdempotent).
THEOREM DeliveredTwiceCountsOnce == FlowSpec => []AppliedOnce
<1>1. Promises => AppliedOnce
  BY DEF Promises
<1> QED BY <1>1, PromisesHold, PTL

\* In every reachable state a DEAD row whose payload can be decoded has its entry in
\* the log, whatever sessions were rolled back in between (relay.go, deliver).
THEOREM NoSilentDeath == FlowSpec => []DeadIsReported
<1>1. Promises => DeadIsReported
  BY DEF Promises
<1> QED BY <1>1, PromisesHold, PTL
=============================================================================
