---------------------------- MODULE OutboxRelay -----------------------------
(***************************************************************************)
(* The outbox relay of order-service, one per replica.  A tick claims due  *)
(* rows in id order under row locks (FOR UPDATE SKIP LOCKED), delivers each *)
(* to product-service, marks it in the same transaction and commits.  The  *)
(* marks live in the transaction until then: a failed commit, a lost       *)
(* connection or a crash forgets them, and the rows are delivered again.   *)
(***************************************************************************)
EXTENDS StockService, OrderStore

CONSTANTS
  Workers,      \* replicas, each with one relay goroutine
  BatchSize,    \* rows a tick may claim
  Undecodable,  \* messages whose stored payload is not valid JSON
  MaxFaults,    \* bound on the faults of the relay's own database session
  NoMessage     \* the loop variable of a relay that is between two messages

ASSUME RelayAssumption ==
  /\ BatchSize \in Nat \ {0}
  /\ Undecodable \subseteq Messages
  /\ MaxFaults \in Nat
  /\ NoMessage \notin Messages

VARIABLES
  claim,       \* claim[w]: rows locked by the open transaction of w
  todo,        \* todo[w]: messages of the session not delivered yet
  mark,        \* mark[w][m]: update of row m that w's transaction will commit
  current,     \* current[w]: the message the session's loop is delivering
  send,        \* send[w]: the RestoreStock call in progress, then its answer
  stragglers,  \* messages whose abandoned call product-service may still execute
  deadLogged,  \* messages with an "OUTBOX DEAD: delivery exhausted" log entry
  faults       \* session faults so far

relayVars == <<claim, todo, mark, current, send, stragglers, deadLogged, faults>>

Marks == {"none", "SENT", "FAILED", "DEAD"}
NoMarks == [m \in Messages |-> "none"]

RelayTypeOK ==
  /\ claim \in [Workers -> SUBSET Messages]
  /\ todo \in [Workers -> SUBSET Messages]
  /\ mark \in [Workers -> [Messages -> Marks]]
  /\ current \in [Workers -> Messages \cup {NoMessage}]
  /\ send \in [Workers -> {"idle", "sent", "applied", "ok", "refused", "err"}]
  /\ stragglers \subseteq Messages
  /\ deadLogged \subseteq Messages
  /\ faults \in 0..MaxFaults

RelayInit ==
  /\ claim = [w \in Workers |-> {}]
  /\ todo = [w \in Workers |-> {}]
  /\ mark = [w \in Workers |-> NoMarks]
  /\ current = [w \in Workers |-> NoMessage]
  /\ send = [w \in Workers |-> "idle"]
  /\ stragglers = {}
  /\ deadLogged = {}
  /\ faults = 0

\* status = PENDING AND next_retry_at <= now, skipping rows locked by a session.
Locked(m) == \E w \in Workers : m \in claim[w]
\* A bug to catch: rows claimed without regard to the locks of other sessions.
ClaimableLocked == {m \in Messages : outbox[m].status = "PENDING" /\ outbox[m].due}

Claimable == {m \in Messages : outbox[m].status = "PENDING" /\ outbox[m].due /\ ~Locked(m)}

\* ORDER BY id LIMIT BatchSize.
Before(m, n) == outbox[m].id < outbox[n].id
FirstRows(rows) == {m \in rows : Cardinality({n \in rows : Before(n, m)}) < BatchSize}

Claim(w) ==
  /\ claim[w] = {} /\ todo[w] = {}
  /\ Claimable # {}
  /\ claim' = [claim EXCEPT ![w] = FirstRows(Claimable)]
  /\ todo' = [todo EXCEPT ![w] = FirstRows(Claimable)]
  /\ mark' = [mark EXCEPT ![w] = NoMarks]
  /\ UNCHANGED <<current, send, stragglers, deadLogged, faults, stockVars, storeVars>>

\* The message the loop over the session comes to next.
IsFirst(w, m) == m \in todo[w] /\ \A n \in todo[w] : ~Before(n, m)

Fault == faults < MaxFaults /\ faults' = faults + 1

\* MarkSent, MarkFailed and MarkDead: the update joins the open transaction, or
\* fails (always so once the transaction is lost); the loop goes on either way.
MarkRow(w, m, value) ==
  /\ todo' = [todo EXCEPT ![w] = @ \ {m}]
  /\ \/ /\ m \in claim[w]
        /\ mark' = [mark EXCEPT ![w] = [@ EXCEPT ![m] = value]]
        /\ UNCHANGED faults
     \/ m \in claim[w] /\ Fault /\ UNCHANGED mark
     \/ m \notin claim[w] /\ UNCHANGED <<mark, faults>>

LoopOn(w) ==
  /\ current' = [current EXCEPT ![w] = NoMessage]
  /\ send' = [send EXCEPT ![w] = "idle"]

Discard(w) ==
  /\ send[w] = "idle"
  /\ \E m \in Undecodable : IsFirst(w, m) /\ MarkRow(w, m, "DEAD")
  /\ UNCHANGED <<claim, current, send, stragglers, deadLogged, stockVars, storeVars>>

Send(w) ==
  /\ send[w] = "idle"
  /\ \E m \in Messages \ Undecodable :
       IsFirst(w, m) /\ current' = [current EXCEPT ![w] = m]
  /\ send' = [send EXCEPT ![w] = "sent"]
  /\ UNCHANGED <<claim, todo, mark, stragglers, deadLogged, faults, stockVars, storeVars>>

Deliver(w) ==
  /\ send[w] = "sent"
  /\ \E outcome \in Outcomes :
       /\ RestoreStockIdempotent(current[w], outcome)
       /\ send' = [send EXCEPT ![w] = outcome]
  /\ UNCHANGED <<claim, todo, mark, current, stragglers, deadLogged, faults, storeVars>>

Reply(w) ==
  /\ send[w] = "applied"
  /\ \E answer \in ReadBack(LineOf(current[w])) : send' = [send EXCEPT ![w] = answer]
  /\ UNCHANGED <<claim, todo, mark, current, stragglers, deadLogged, faults, stockVars, storeVars>>

Straggling(w) == IF send[w] = "sent" THEN {current[w]} ELSE {}

\* deliverTimeout, or a broken connection: the call may still be executed later.
DeliveryTimeout(w) ==
  /\ send[w] \in {"sent", "applied"}
  /\ send' = [send EXCEPT ![w] = "err"]
  /\ stragglers' = stragglers \cup Straggling(w)
  /\ UNCHANGED <<claim, todo, mark, current, deadLogged, faults, stockVars, storeVars>>

LateDelivery(m) ==
  /\ m \in stragglers
  /\ \E outcome \in Outcomes : RestoreStockIdempotent(m, outcome)
  /\ stragglers' = stragglers \ {m}
  /\ UNCHANGED <<claim, todo, mark, current, send, deadLogged, faults, storeVars>>

\* A bug to catch: any answer of product-service taken for a success.
DeliveredAnyhow(w) ==
  /\ send[w] \in {"ok", "err"}
  /\ MarkRow(w, current[w], "SENT")
  /\ LoopOn(w)
  /\ UNCHANGED <<claim, stragglers, deadLogged, stockVars, storeVars>>

Delivered(w) ==
  /\ send[w] = "ok"
  /\ MarkRow(w, current[w], "SENT")
  /\ LoopOn(w)
  /\ UNCHANGED <<claim, stragglers, deadLogged, stockVars, storeVars>>

\* Bugs to catch: one retry too few, and no limit to the retries.
ExhaustedEarly(m) == outbox[m].retry + 2 >= MaxRetry
ExhaustedNever(m) == FALSE

\* newRetry >= MaxOutboxRetry, counted from the row as it was claimed.
Exhausted(m) == outbox[m].retry + 1 >= MaxRetry

\* A bug to catch: the count the log goes by leaves out the failure just marked.
NotDeliveredLoggedLate(w) ==
  /\ send[w] \in {"refused", "err"}
  /\ MarkRow(w, current[w], "FAILED")
  /\ deadLogged' = IF outbox[current[w]].retry >= MaxRetry
                   THEN deadLogged \cup {current[w]} ELSE deadLogged
  /\ LoopOn(w)
  /\ UNCHANGED <<claim, stragglers, stockVars, storeVars>>

\* A failed delivery; the dead letter is logged as soon as its mark is written,
\* ahead of the commit.
NotDelivered(w) ==
  /\ send[w] \in {"refused", "err"}
  /\ MarkRow(w, current[w], "FAILED")
  /\ deadLogged' = IF Exhausted(current[w]) /\ mark'[w][current[w]] = "FAILED"
                   THEN deadLogged \cup {current[w]} ELSE deadLogged
  /\ LoopOn(w)
  /\ UNCHANGED <<claim, stragglers, stockVars, storeVars>>

\* A bug to catch: the failure is not counted.
FailedUncounted(m) == [outbox[m] EXCEPT !.due = FALSE]

\* The row a mark leaves behind: a failure counts, and pushes next_retry_at away
\* (2^retry seconds, at most 5 minutes) unless it was the last one.
Failed(m) ==
  IF Exhausted(m)
  THEN [outbox[m] EXCEPT !.retry = @ + 1, !.status = "DEAD"]
  ELSE [outbox[m] EXCEPT !.retry = @ + 1, !.due = FALSE]

Marked(m, value) ==
  CASE value = "none" -> outbox[m]
    [] value = "FAILED" -> Failed(m)
    [] OTHER -> [outbox[m] EXCEPT !.status = value]

Release(w) ==
  /\ claim' = [claim EXCEPT ![w] = {}]
  /\ mark' = [mark EXCEPT ![w] = NoMarks]

\* sess.Close commits the marks and releases the locks.
Close(w) ==
  /\ claim[w] # {} /\ todo[w] = {}
  /\ outbox' = [m \in Messages |->
                  IF m \in claim[w] THEN Marked(m, mark[w][m]) ELSE outbox[m]]
  /\ Release(w)
  /\ UNCHANGED <<todo, current, send, stragglers, deadLogged, faults, stockVars, orders, nextId>>

\* The database rolls the session back: its connection broke in mid-batch, or the
\* commit failed.  The loop goes on over what it still has in memory.
TxLost(w) ==
  /\ claim[w] # {} /\ Fault
  /\ Release(w)
  /\ UNCHANGED <<todo, current, send, stragglers, deadLogged, stockVars, storeVars>>

\* The replica dies or is told to stop: its context rolls the transaction back.
RelayCrash(w) ==
  /\ claim[w] # {} \/ todo[w] # {}
  /\ Fault
  /\ Release(w)
  /\ todo' = [todo EXCEPT ![w] = {}]
  /\ LoopOn(w)
  /\ stragglers' = stragglers \cup Straggling(w)
  /\ UNCHANGED <<deadLogged, stockVars, storeVars>>

\* Time passes next_retry_at.
BackoffExpires(m) ==
  /\ outbox[m].status = "PENDING" /\ ~outbox[m].due
  /\ outbox' = [outbox EXCEPT ![m].due = TRUE]
  /\ UNCHANGED <<orders, nextId, relayVars, stockVars>>

\* What a tick does once it is in a session, and the calls it makes.
SessionStep(w) ==
  \/ Discard(w) \/ Send(w) \/ Deliver(w) \/ Reply(w) \/ DeliveryTimeout(w)
  \/ Delivered(w) \/ NotDelivered(w) \/ Close(w)

RelayNext ==
  \/ \E w \in Workers : Claim(w) \/ SessionStep(w) \/ TxLost(w) \/ RelayCrash(w)
  \/ \E m \in Messages : LateDelivery(m) \/ BackoffExpires(m)
-----------------------------------------------------------------------------
(* Properties of the relay *)

\* A row is SENT only when its units are really back: the mark is committed after
\* an answer that product-service gave about this very message.
SentMeansApplied == \A m \in Messages : outbox[m].status = "SENT" => Seen(m)

\* At-least-once delivery takes effect exactly once: the units of a line are back
\* as often as its messages are recorded in stock_restores, and each counts once.
AppliedOnce ==
  \A l \in Lines : returned[l] = Cardinality({m \in restored : LineOf(m) = l})

\* What a relay read when it claimed a row is still true when it commits its mark
\* (MarkFailed counts from the retry_count in its memory): as long as a session holds a
\* row nobody else changes its status or its count, and a row that reached SENT or DEAD
\* is final, also for a second relay that is still delivering, and for a later cancel.
MarksOverwriteNothing ==
  [][\A m \in Messages :
       /\ outbox[m].status \in {"SENT", "DEAD"} => outbox'[m] = outbox[m]
       /\ \A w \in Workers :
            m \in claim[w] /\ m \in claim'[w] =>
              outbox'[m].status = outbox[m].status /\ outbox'[m].retry = outbox[m].retry
    ]_<<storeVars, relayVars>>

\* A message is given up only after MaxRetry failed deliveries, or at once when
\* its payload cannot be decoded; a pending one has failed less often than that.
DeadOnlyWhenExhausted ==
  \A m \in Messages :
    /\ outbox[m].status = "DEAD" => outbox[m].retry = MaxRetry \/ m \in Undecodable
    /\ outbox[m].status = "PENDING" => outbox[m].retry < MaxRetry

\* No row dies silently: whatever sessions are lost in between, one whose retries
\* are used up is DEAD only after the operator's log entry about it was written.
DeadIsReported ==
  \A m \in Messages :
    outbox[m].status = "DEAD" => m \in deadLogged \/ m \in Undecodable
=============================================================================
