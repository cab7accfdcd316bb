----------------------------- MODULE OrderSaga ------------------------------
(***************************************************************************)
(* CreateOrder of order-service: deduct the stock of every item in turn,   *)
(* then write the order, and on any error give back what was recorded as   *)
(* deducted.  Every call to product-service can be refused, can fail with  *)
(* or without effect, can lose its answer, or can execute after its caller *)
(* has given up; the caller's deadline can expire and its process crash at *)
(* any point.                                                              *)
(***************************************************************************)
EXTENDS StockService, OrderStore

CONSTANT CommitUnknown  \* may the order's INSERT be committed and reported failed?

ASSUME CommitAssumption == CommitUnknown \in BOOLEAN

VARIABLES
  pc,       \* pc[r]: where call r stands
  got,      \* got[r]: Len(deducted), the lines recorded as deducted
  undone,   \* undone[r]: lines compensate() is through with
  rpc,      \* rpc[r]: the product-service call in progress, then its answer
  ctxDone,  \* ctxDone[r]: the request's context has expired or is cancelled
  cause,    \* cause[r]: the error CreateOrder returns
  logged,   \* lines with a "COMPENSATION FAILED: stock not restored" log entry
  orphans   \* abandoned calls the product-service may still execute

sagaVars == <<pc, got, undone, rpc, ctxDone, cause, logged, orphans>>

Calling == {"deduct", "compensate"}
Running == Calling \cup {"persist"}
Ended == {"created", "failed", "crashed"}

SagaTypeOK ==
  /\ pc \in [Requests -> {"idle"} \cup Running \cup Ended]
  /\ got \in [Requests -> Nat]
  /\ undone \in [Requests -> Nat]
  /\ rpc \in [Requests -> {"idle", "sent", "applied", "ok", "refused", "err"}]
  /\ ctxDone \in [Requests -> BOOLEAN]
  /\ cause \in [Requests -> {"none", "refused", "err"}]
  /\ logged \subseteq Lines
  /\ orphans \subseteq Calling \X Lines

SagaInit ==
  /\ pc = [r \in Requests |-> "idle"]
  /\ got = [r \in Requests |-> 0]
  /\ undone = [r \in Requests |-> 0]
  /\ rpc = [r \in Requests |-> "idle"]
  /\ ctxDone = [r \in Requests |-> FALSE]
  /\ cause = [r \in Requests |-> "none"]
  /\ logged = {}
  /\ orphans = {}

\* The line the call in progress is about.
Current(r) == <<r, IF pc[r] = "deduct" THEN got[r] + 1 ELSE undone[r] + 1>>

Begin(r) ==
  /\ pc[r] = "idle"
  /\ pc' = [pc EXCEPT ![r] = "deduct"]
  /\ UNCHANGED <<got, undone, rpc, ctxDone, cause, logged, orphans, stockVars, storeVars>>

\* A bug to catch: a loop that waits for a live context instead of failing.
CallLiveOnly(r) ==
  /\ pc[r] \in Calling /\ rpc[r] = "idle" /\ ~ctxDone[r]
  /\ rpc' = [rpc EXCEPT ![r] = "sent"]
  /\ UNCHANGED <<pc, got, undone, ctxDone, cause, logged, orphans, stockVars, storeVars>>

\* The loops of CreateOrder and compensate call product-service; a call under an
\* expired context fails in the client and is never sent.
Call(r) ==
  /\ pc[r] \in Calling /\ rpc[r] = "idle"
  /\ rpc' = [rpc EXCEPT ![r] = IF ctxDone[r] THEN "err" ELSE "sent"]
  /\ UNCHANGED <<pc, got, undone, ctxDone, cause, logged, orphans, stockVars, storeVars>>

\* The server's side of either call; compensation passes an empty message id.
Execute(op, l, outcome) ==
  \/ op = "deduct" /\ DeductStock(l, outcome)
  \/ op = "compensate" /\ RestoreStock(l, outcome)

ServerExecutes(r) ==
  /\ pc[r] \in Calling /\ rpc[r] = "sent"
  /\ \E outcome \in Outcomes :
       /\ Execute(pc[r], Current(r), outcome)
       /\ rpc' = [rpc EXCEPT ![r] = outcome]
  /\ UNCHANGED <<pc, got, undone, ctxDone, cause, logged, orphans, storeVars>>

ServerAnswers(r) ==
  /\ pc[r] \in Calling /\ rpc[r] = "applied"
  /\ \E answer \in ReadBack(Current(r)) : rpc' = [rpc EXCEPT ![r] = answer]
  /\ UNCHANGED <<pc, got, undone, ctxDone, cause, logged, orphans, stockVars, storeVars>>

\* A call its caller no longer waits for may still reach the database.
Orphaned(r) == IF rpc[r] = "sent" THEN {<<pc[r], Current(r)>>} ELSE {}

\* The 3 s client timeout, the request's deadline, or a broken connection.
Abandon(r) ==
  /\ pc[r] \in Calling /\ rpc[r] \in {"sent", "applied"}
  /\ rpc' = [rpc EXCEPT ![r] = "err"]
  /\ orphans' = orphans \cup Orphaned(r)
  /\ UNCHANGED <<pc, got, undone, ctxDone, cause, logged, stockVars, storeVars>>

OrphanExecutes(op, l) ==
  /\ <<op, l>> \in orphans
  /\ \E outcome \in Outcomes : Execute(op, l, outcome)
  /\ orphans' = orphans \ {<<op, l>>}
  /\ UNCHANGED <<pc, got, undone, rpc, ctxDone, cause, logged, storeVars>>

\* A bug to catch: the error of DeductStock is ignored.
RecordAnyAnswer(r) ==
  /\ pc[r] = "deduct" /\ rpc[r] \in {"ok", "err"}
  /\ got' = [got EXCEPT ![r] = @ + 1]
  /\ pc' = [pc EXCEPT ![r] = IF got[r] + 1 = Len(Cart[r]) THEN "persist" ELSE "deduct"]
  /\ rpc' = [rpc EXCEPT ![r] = "idle"]
  /\ UNCHANGED <<undone, ctxDone, cause, logged, orphans, stockVars, storeVars>>

\* deducted = append(deducted, ...), then the next item or the order's INSERT.
RecordDeducted(r) ==
  /\ pc[r] = "deduct" /\ rpc[r] = "ok"
  /\ got' = [got EXCEPT ![r] = @ + 1]
  /\ pc' = [pc EXCEPT ![r] = IF got[r] + 1 = Len(Cart[r]) THEN "persist" ELSE "deduct"]
  /\ rpc' = [rpc EXCEPT ![r] = "idle"]
  /\ UNCHANGED <<undone, ctxDone, cause, logged, orphans, stockVars, storeVars>>

\* A bug to catch: compensation skipped when a single line was recorded.
AfterFailureOfSecond(r) == IF got[r] <= 1 THEN "failed" ELSE "compensate"

\* Compensation covers the recorded lines only, not the one whose call failed.
AfterFailure(r) == IF got[r] = 0 THEN "failed" ELSE "compensate"

DeductFails(r) ==
  /\ pc[r] = "deduct" /\ rpc[r] \in {"refused", "err"}
  /\ cause' = [cause EXCEPT ![r] = rpc[r]]
  /\ pc' = [pc EXCEPT ![r] = AfterFailure(r)]
  /\ rpc' = [rpc EXCEPT ![r] = "idle"]
  /\ UNCHANGED <<got, undone, ctxDone, logged, orphans, stockVars, storeVars>>

PersistOrder(r) ==
  /\ pc[r] = "persist" /\ ~ctxDone[r]
  /\ CreateRow(r)
  /\ pc' = [pc EXCEPT ![r] = "created"]
  /\ UNCHANGED <<got, undone, rpc, ctxDone, cause, logged, orphans, stockVars>>

\* A bug to catch: the order's row written outside of the failed transaction.
PersistHalfFails(r) ==
  /\ pc[r] = "persist" /\ CreateRow(r)
  /\ cause' = [cause EXCEPT ![r] = "err"]
  /\ pc' = [pc EXCEPT ![r] = AfterFailure(r)]
  /\ UNCHANGED <<got, undone, rpc, ctxDone, logged, orphans, stockVars>>

\* repo.Create reports an error; with CommitUnknown the row may be there all the
\* same (the connection broke while the COMMIT was answered).
PersistFails(r) ==
  /\ pc[r] = "persist"
  /\ \/ UNCHANGED storeVars
     \/ CommitUnknown /\ ~ctxDone[r] /\ CreateRow(r)
  /\ cause' = [cause EXCEPT ![r] = "err"]
  /\ pc' = [pc EXCEPT ![r] = AfterFailure(r)]
  /\ UNCHANGED <<got, undone, rpc, ctxDone, logged, orphans, stockVars>>

\* One iteration of compensate: a failure is logged and the loop goes on.
CompensateNext(r) ==
  /\ pc[r] = "compensate" /\ rpc[r] \in {"ok", "refused", "err"}
  /\ logged' = IF rpc[r] = "ok" THEN logged ELSE logged \cup {Current(r)}
  /\ undone' = [undone EXCEPT ![r] = @ + 1]
  /\ pc' = [pc EXCEPT ![r] = IF undone[r] + 1 = got[r] THEN "failed" ELSE "compensate"]
  /\ rpc' = [rpc EXCEPT ![r] = "idle"]
  /\ UNCHANGED <<got, ctxDone, cause, orphans, stockVars, storeVars>>

\* callCtx of every later call is derived from the request's context.
ExpireCtx(r) ==
  /\ pc[r] \in Running /\ ~ctxDone[r]
  /\ ctxDone' = [ctxDone EXCEPT ![r] = TRUE]
  /\ UNCHANGED <<pc, got, undone, rpc, cause, logged, orphans, stockVars, storeVars>>

\* The replica running the call dies; nothing of the call was persisted.
Crash(r) ==
  /\ pc[r] \in Running
  /\ pc' = [pc EXCEPT ![r] = "crashed"]
  /\ rpc' = [rpc EXCEPT ![r] = "idle"]
  /\ orphans' = orphans \cup Orphaned(r)
  /\ UNCHANGED <<got, undone, ctxDone, cause, logged, stockVars, storeVars>>

\* What a live order-service and product-service do for call r by themselves.
Progress(r) ==
  \/ Call(r) \/ ServerExecutes(r) \/ ServerAnswers(r) \/ Abandon(r)
  \/ RecordDeducted(r) \/ DeductFails(r)
  \/ PersistOrder(r) \/ PersistFails(r)
  \/ CompensateNext(r)

SagaNext ==
  \/ \E r \in Requests : Begin(r) \/ Progress(r) \/ ExpireCtx(r) \/ Crash(r)
  \/ \E op \in Calling, l \in Lines : OrphanExecutes(op, l)

SellerNext ==
  \E p \in Products : DeleteProduct(p) /\ UNCHANGED <<sagaVars, storeVars>>

sagaSpecVars == <<stockVars, storeVars, sagaVars>>

AloneInit == StockInit /\ StoreInit /\ SagaInit

SagaSpec ==
  /\ AloneInit
  /\ [][SagaNext \/ SellerNext]_sagaSpecVars
  /\ \A r \in Requests : WF_sagaSpecVars(Progress(r))
-----------------------------------------------------------------------------
(* Properties of CreateOrder *)

\* An order that was written keeps the units of all its lines: each was deducted
\* exactly once and none is given back by a compensation, not even by a call that
\* executes late (order_service.go: compensate only runs when nothing was written).
Standing == {r \in Requests : orders[r] \in {"PENDING", "PAID"}}

LiveOrderKeepsStock ==
  \A r \in Standing : \A l \in LinesOf(r) : taken[l] = 1 /\ returned[l] = 0

\* One successful DeductStock is answered by at most one RestoreStock, which
\* product.proto leaves to its caller; and no line is deducted twice.
AtMostOneRestore == \A l \in Lines : returned[l] <= taken[l] /\ taken[l] <= 1

\* A shopper who is told "insufficient stock" or "not found" and whose request
\* left no COMPENSATION FAILED entry has cost no units of a product still sold:
\* whatever was deducted for the earlier items is back.
RefusedLeaksNothing ==
  \A r \in Requests :
    pc[r] = "failed" /\ cause[r] = "refused" =>
      \A l \in LinesOf(r) :
        Listed(l) /\ l \notin logged => taken[l] = returned[l]

\* Every CreateOrder call that began comes to an end, whatever calls are lost.
CreateOrderEnds == \A r \in Requests : pc[r] = "deduct" ~> pc[r] \in Ended
=============================================================================
