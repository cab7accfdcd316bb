--------------------------- MODULE OrderLifecycle ---------------------------
(***************************************************************************)
(* PayOrder and CancelOrder of order-service.  Each reads the order, checks *)
(* owner and status against what it read, and then updates conditionally:  *)
(* between the two steps any other call may have moved the order.  A call  *)
(* can end in an error before its update, without it or after it.          *)
(***************************************************************************)
EXTENDS OrderStore

CONSTANT NoOrder  \* the order of a call that has not begun

ASSUME NoOrderAssumption == NoOrder \notin Requests

VARIABLE task  \* task[h]: what call h was asked to do and how far it is

Ops == {"pay", "cancel"}
Answers == {"ok", "notfound", "conflict", "error"}
NoTask == [op |-> "none", order |-> NoOrder, at |-> "idle"]

Task ==
  [op : Ops, order : Requests, at : {"loaded"} \cup Answers] \cup {NoTask}

LifecycleTypeOK == task \in [Handlers -> Task]

LifecycleInit == task = [h \in Handlers |-> NoTask]

\* GetByID, the owner check (a stranger is told "not found") and the status check.
SnapshotVerdict(o, isOwner) ==
  IF orders[o] = "none" \/ ~isOwner THEN "notfound"
  ELSE IF orders[o] # "PENDING" THEN "conflict" ELSE "loaded"

Load(h, op, o, isOwner) ==
  /\ task[h].at = "idle"
  /\ \E at \in {SnapshotVerdict(o, isOwner), "error"} :
       task' = [task EXCEPT ![h] = [op |-> op, order |-> o, at |-> at]]
  /\ UNCHANGED storeVars

Answer(h, a) == task' = [task EXCEPT ![h].at = a]

Target(h) == task[h].order

\* repo.UpdateStatus, one statement.  An error may hide a committed update.
Pay(h) ==
  /\ task[h].op = "pay" /\ task[h].at = "loaded"
  /\ UpdateStatus(Target(h), "PENDING", "PAID")
  /\ \E a \in {"ok", "error"} : Answer(h, a)

\* outbox.CancelWithOutbox, one transaction.
Cancel(h) ==
  /\ task[h].op = "cancel" /\ task[h].at = "loaded"
  /\ CancelWithOutbox(h, Target(h), "PENDING", "CANCELLED")
  /\ \E a \in {"ok", "error"} : Answer(h, a)

\* RowsAffected = 0: somebody else moved the order since it was read.
Conflict(h) ==
  /\ task[h].at = "loaded" /\ ~StatusIs(Target(h), "PENDING")
  /\ Answer(h, "conflict")
  /\ UNCHANGED storeVars

\* A database error, or the crash of the replica, before anything is committed.
UpdateFails(h) ==
  /\ task[h].at = "loaded"
  /\ Answer(h, "error")
  /\ UNCHANGED storeVars

HandlerNext(h) ==
  \/ \E op \in Ops, o \in Requests, isOwner \in BOOLEAN : Load(h, op, o, isOwner)
  \/ Pay(h) \/ Cancel(h) \/ Conflict(h) \/ UpdateFails(h)

LifecycleNext == \E h \in Handlers : HandlerNext(h)
-----------------------------------------------------------------------------
(* Properties of the order life cycle *)

\* A shopper who was told that an order is paid, or that it is cancelled, is never
\* contradicted by a call that raced with his.
AckHolds ==
  \A h \in Handlers :
    task[h].at = "ok" =>
      orders[Target(h)] = (IF task[h].op = "pay" THEN "PAID" ELSE "CANCELLED")

\* A cancelled order has queued exactly one complete batch of restore messages,
\* and an order that is not cancelled has queued none (CancelWithOutbox is all or
\* nothing, and only one of several racing calls commits).
Queued(m) == outbox[m].status # "none"

OneBatchPerCancel ==
  \A o \in Requests :
    IF orders[o] = "CANCELLED"
    THEN \E h \in Handlers : {m \in Messages : OrderOf(m) = o /\ Queued(m)} = Batch(h, o)
    ELSE \A m \in Messages : OrderOf(m) = o => ~Queued(m)
=============================================================================
