--------------------------- MODULE OrderInvariants --------------------------
(***************************************************************************)
(* The inductive invariant of OrderSystem, in named parts.  SagaInv says   *)
(* where the units of a line are while its CreateOrder call is on its way; *)
(* FlowInv ties the outbox, the relays' sessions and the deduplication     *)
(* table together once the order exists.                                   *)
(***************************************************************************)
EXTENDS OrderSystem
-----------------------------------------------------------------------------
(* CreateOrder *)

\* The counters of a call agree with where it stands.
CallShape ==
  \A r \in Requests :
    /\ undone[r] <= got[r] /\ got[r] <= Len(Cart[r])
    /\ pc[r] = "idle" => got[r] = 0
    /\ pc[r] \in {"idle", "deduct", "persist"} => undone[r] = 0
    /\ pc[r] = "deduct" => got[r] < Len(Cart[r])
    /\ pc[r] \in {"persist", "created"} => got[r] = Len(Cart[r])
    /\ pc[r] = "compensate" => undone[r] < got[r]
    /\ pc[r] \notin Calling => rpc[r] = "idle"

\* An order is there when its call succeeded, and otherwise only if a commit may be
\* reported failed: then the call took the failure path with that error.
OrderWritten ==
  \A r \in Requests :
    /\ pc[r] = "created" => orders[r] # "none"
    /\ orders[r] # "none" /\ pc[r] # "created" =>
         CommitUnknown /\ cause[r] = "err" /\ pc[r] \in {"compensate", "failed", "crashed"}

\* No commit of an order was reported failed so far.
CommitsKnown == \A r \in Requests : orders[r] # "none" => pc[r] = "created"

\* An abandoned deduction is about the line its call failed at, and has not
\* happened yet.
OrphanedDeductions ==
  \A r \in Requests : \A k \in DOMAIN Cart[r] :
    <<"deduct", <<r, k>>>> \in orphans =>
      /\ k = got[r] + 1
      /\ pc[r] \in {"compensate", "failed", "crashed"} \/ (pc[r] = "deduct" /\ rpc[r] = "err")
      /\ taken[<<r, k>>] = 0

\* Recorded lines were deducted once, later ones not at all; the line in between is
\* the one the current or last call is about.
TakenLines ==
  \A r \in Requests : \A k \in DOMAIN Cart[r] :
    /\ taken[<<r, k>>] \in {0, 1}
    /\ k <= got[r] => taken[<<r, k>>] = 1
    /\ k > got[r] + 1 => taken[<<r, k>>] = 0
    /\ pc[r] = "idle" => taken[<<r, k>>] = 0
    /\ k = got[r] + 1 /\ pc[r] = "deduct" =>
         /\ rpc[r] \in {"idle", "sent"} => taken[<<r, k>>] = 0
         /\ rpc[r] \in {"applied", "ok"} => taken[<<r, k>>] = 1

\* An abandoned compensation is about a recorded line compensate() has been to, and
\* has not happened yet.
OrphanedCompensations ==
  \A r \in Requests : \A k \in DOMAIN Cart[r] :
    <<"compensate", <<r, k>>>> \in orphans =>
      /\ k <= got[r]
      /\ \/ pc[r] = "failed"
         \/ pc[r] = "compensate" /\ k <= undone[r]
         \/ pc[r] = "compensate" /\ k = undone[r] + 1 /\ rpc[r] = "err"
         \/ pc[r] = "crashed"
      /\ returned[<<r, k>>] = 0

\* The units of a call that has not succeeded come back by compensation only, one
\* line after the other and each at most once.
ReturnedLines ==
  \A r \in Requests : \A k \in DOMAIN Cart[r] :
    pc[r] # "created" =>
      /\ returned[<<r, k>>] \in {0, 1}
      /\ k > got[r] => returned[<<r, k>>] = 0
      /\ pc[r] \in {"idle", "deduct", "persist"} => returned[<<r, k>>] = 0
      /\ pc[r] = "compensate" /\ k > undone[r] + 1 => returned[<<r, k>>] = 0
      /\ pc[r] = "compensate" /\ k = undone[r] + 1 /\ rpc[r] \in {"idle", "sent"}
           => returned[<<r, k>>] = 0

\* Units of an order whose call succeeded stay away as long as it stands.
CreatedLines ==
  \A r \in Requests : \A k \in DOMAIN Cart[r] :
    pc[r] = "created" /\ orders[r] \in {"PENDING", "PAID"} => returned[<<r, k>>] = 0

\* Units of an order that stands have not come back.
StandingLines ==
  \A r \in Requests : \A k \in DOMAIN Cart[r] :
    orders[r] \in {"PENDING", "PAID"} => returned[<<r, k>>] = 0

SagaInv ==
  /\ SagaTypeOK /\ CallShape /\ OrderWritten
  /\ OrphanedDeductions /\ TakenLines
  /\ OrphanedCompensations /\ ReturnedLines /\ CreatedLines
-----------------------------------------------------------------------------
(* Outbox, relays and deduplication *)

\* Messages are queued for cancelled orders only, all of them by the one call that
\* cancelled.
OneCanceller ==
  \A m \in Messages :
    Queued(m) =>
      /\ orders[OrderOf(m)] = "CANCELLED"
      /\ \A n \in Messages : Queued(n) /\ OrderOf(n) = OrderOf(m) => n[1] = m[1]

\* The transaction that cancelled an order queued a message for each of its lines.
WholeBatch ==
  \A o \in Requests :
    orders[o] = "CANCELLED" => \E h \in Handlers : \A m \in Batch(h, o) : Queued(m)

\* Whatever a relay or product-service works on is a row of the outbox.
OnlyQueued ==
  /\ \A m \in restored \cup stragglers : Queued(m)
  /\ \A w \in Workers : \A m \in todo[w] : Queued(m)

\* The relay's loop variable is set exactly while a message is being delivered.
LoopVariable ==
  \A w \in Workers : send[w] # "idle" => current[w] \in Messages /\ Queued(current[w])

\* A locked row is pending and locked by one session; a row still pending has
\* failed less often than the limit.
LockedRows ==
  /\ \A w \in Workers : \A m \in claim[w] : outbox[m].status = "PENDING"
  /\ \A v, w \in Workers : v # w => claim[v] \cap claim[w] = {}

\* What is answered, marked or recorded as delivered has been applied.
DeliveredApplied ==
  /\ \A w \in Workers : send[w] \in {"applied", "ok"} => Seen(current[w])
  /\ \A w \in Workers : \A m \in Messages :
       /\ mark[w][m] # "none" => m \in claim[w]
       /\ mark[w][m] = "SENT" => Seen(m)
       /\ mark[w][m] = "DEAD" => m \in Undecodable
  /\ SentMeansApplied

\* Units of a cancelled order come back by message only, each line at most once.
RestoredLines ==
  \A l \in Lines :
    orders[l[1]] = "CANCELLED" =>
      /\ returned[l] \in {0, 1}
      /\ returned[l] = 1 => \E m \in restored : LineOf(m) = l

FlowInv ==
  /\ FlowTypeOK
  /\ OneCanceller /\ WholeBatch /\ OnlyQueued /\ LoopVariable /\ LockedRows
  /\ DeliveredApplied /\ DeadOnlyWhenExhausted /\ RestoredLines

SystemInv == SagaInv /\ FlowInv /\ FormTypeOK
=============================================================================
