-------------------------- MODULE StockAccounting ---------------------------
(***************************************************************************)
(* The books of the shop: the units on the shelf against the units that    *)
(* the orders database promises to somebody.  The history variables only   *)
(* say what sellers put in.                                                *)
(***************************************************************************)
EXTENDS OrderSystem

\* Lines of orders that are neither cancelled nor missing.
SoldLines == {l \in Lines : orders[l[1]] \in {"PENDING", "PAID"}}

\* Lines of cancelled orders whose restore message has not been applied yet.
OwedLines ==
  {LineOf(m) : m \in {n \in Messages : outbox[n].status # "none" /\ ~Seen(n)}}

\* What there was at first, what sellers meant to add, and the units of the lines that
\* moved between filling and saving a form, which saving it put back on the shelf.
Supplied(p) == InitialStock[p] + declared[p] + overwritten[p]

\* Never oversold: calls and relays take the shelf no lower than zero, or than a seller
\* wrote it, and the shelf, the units sold and the units a queued message still has to
\* put back never exceed what there was, except by the units that were sold while a
\* seller's form was open and that saving it put back on the shelf.
NoOversell ==
  \A p \in Products :
    /\ stock[p] >= lowest[p]
    /\ stock[p] + Units(SoldLines \cup OwedLines, p) <= Supplied(p)

\* When everything is quiet (no CreateOrder call running, no call or message still
\* on its way) and nothing was reported (no infrastructure error, crash, failed
\* compensation or dead letter), the books balance to the unit, updates included.
Quiet ==
  /\ \A r \in Requests : pc[r] \in {"idle", "created", "failed"} /\ cause[r] # "err"
  /\ orphans = {} /\ logged = {} /\ listed = Products
  /\ \A m \in Messages : outbox[m].status \in {"none", "SENT"}

QuietBooksBalance ==
  Quiet => \A p \in Products : stock[p] + Units(SoldLines, p) = Supplied(p)
=============================================================================
