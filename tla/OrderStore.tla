----------------------------- MODULE OrderStore -----------------------------
(***************************************************************************)
(* order-service's database: the orders table and the outbox_messages      *)
(* table, with the three transactions that write order rows.  An order is  *)
(* identified by the CreateOrder call that wrote it.                       *)
(***************************************************************************)
EXTENDS OrderModel

CONSTANT MaxRetry  \* MaxOutboxRetry: failed deliveries after which a row is DEAD

ASSUME RetryAssumption == MaxRetry \in Nat \ {0}

VARIABLES
  orders,  \* orders[r]: "none" or the status column
  outbox,  \* outbox[m]: the row of message m
  nextId   \* auto-increment counter of outbox_messages

storeVars == <<orders, outbox, nextId>>

OrderStates == {"none", "PENDING", "PAID", "CANCELLED"}

\* due: next_retry_at has passed.  id is the primary key and the delivery order.
Row == [status : {"none", "PENDING", "SENT", "DEAD"}, retry : 0..MaxRetry,
        due : BOOLEAN, id : Nat]
NoRow == [status |-> "none", retry |-> 0, due |-> FALSE, id |-> 0]

StoreTypeOK ==
  /\ orders \in [Requests -> OrderStates]
  /\ outbox \in [Messages -> Row]
  /\ nextId \in Nat

StoreInit ==
  /\ orders = [r \in Requests |-> "none"]
  /\ outbox = [m \in Messages |-> NoRow]
  /\ nextId = 1

\* INSERT of the order and its items, one transaction.
CreateRow(r) ==
  /\ orders' = [orders EXCEPT ![r] = "PENDING"]
  /\ UNCHANGED <<outbox, nextId>>

\* A bug to catch: an UPDATE by id alone, trusting the status read earlier.
StatusUnchecked(o, from) == orders[o] # "none"

\* UPDATE orders SET status = to WHERE id = o AND status = from.
StatusIs(o, from) == orders[o] = from

UpdateStatus(o, from, to) ==
  /\ StatusIs(o, from)
  /\ orders' = [orders EXCEPT ![o] = to]
  /\ UNCHANGED <<outbox, nextId>>

\* A fresh message is due at once.
NewRow(m) ==
  [status |-> "PENDING", retry |-> 0, due |-> TRUE, id |-> nextId + LineOf(m)[2]]

\* Bugs to catch: the last line left out of the batch, or no batch at all.
CancelWithShortBatch(h, o, from, to) ==
  /\ StatusIs(o, from)
  /\ orders' = [orders EXCEPT ![o] = to]
  /\ outbox' = [m \in Messages |->
       IF m \in Batch(h, o) /\ LineOf(m)[2] < Len(Cart[o]) THEN NewRow(m) ELSE outbox[m]]
  /\ nextId' = nextId + Len(Cart[o])

CancelWithoutBatch(h, o, from, to) == UpdateStatus(o, from, to)

\* One transaction: the conditional status update and one message per line.
CancelWithOutbox(h, o, from, to) ==
  /\ StatusIs(o, from)
  /\ orders' = [orders EXCEPT ![o] = to]
  /\ outbox' = [m \in Messages |-> IF m \in Batch(h, o) THEN NewRow(m) ELSE outbox[m]]
  /\ nextId' = nextId + Len(Cart[o])
=============================================================================
