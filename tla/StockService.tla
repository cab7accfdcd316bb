---------------------------- MODULE StockService ----------------------------
(***************************************************************************)
(* product-service as order-service sees it: the products table's stock    *)
(* column, the stock_restores deduplication table, and the three calls     *)
(* that move stock.  Each call is one SQL statement or transaction (the    *)
(* operators below) followed by a read-back of the row and a cache         *)
(* deletion that may still fail (ReadBack): the caller can be told "error" *)
(* about a change that is already committed.                               *)
(***************************************************************************)
EXTENDS OrderModel

CONSTANT InitialStock  \* stock of every product when the behaviour begins

\* CreateProduct accepts any number, as UpdateProduct does.
ASSUME StockAssumption == InitialStock \in [Products -> Int]

VARIABLES
  stock,     \* products.stock
  listed,    \* products whose row exists
  restored,  \* stock_restores: message ids already applied
  taken,     \* history: how often the units of a line were deducted
  returned   \* history: how often the units of a line were added back

stockVars == <<stock, listed, restored, taken, returned>>

StockTypeOK ==
  /\ stock \in [Products -> Int]
  /\ listed \subseteq Products
  /\ restored \subseteq Messages
  /\ taken \in [Lines -> Nat]
  /\ returned \in [Lines -> Nat]

StockInit ==
  /\ stock = InitialStock
  /\ listed = Products
  /\ restored = {}
  /\ taken = [l \in Lines |-> 0]
  /\ returned = [l \in Lines |-> 0]

Listed(l) == ProductOf(l) \in listed

\* A bug to catch: the condition on stock dropped from the UPDATE.
StockCoversAlways(l) == Listed(l)

\* UPDATE products SET stock = stock - q WHERE id = p AND stock >= q.
StockCovers(l) == Listed(l) /\ stock[ProductOf(l)] >= QtyOf(l)

\* The outcome of the SQL part: "applied" (committed), "refused" (no row matched:
\* NotFound or FailedPrecondition, which callers treat alike) or "err".
DeductStock(l, outcome) ==
  \/ /\ outcome = "applied"
     /\ StockCovers(l)
     /\ stock' = [stock EXCEPT ![ProductOf(l)] = @ - QtyOf(l)]
     /\ taken' = [taken EXCEPT ![l] = @ + 1]
     /\ UNCHANGED <<listed, restored, returned>>
  \/ outcome = "refused" /\ ~StockCovers(l) /\ UNCHANGED stockVars
  \/ outcome = "err" /\ UNCHANGED stockVars

\* UPDATE products SET stock = stock + q WHERE id = p.
AddBack(l) ==
  /\ stock' = [stock EXCEPT ![ProductOf(l)] = @ + QtyOf(l)]
  /\ returned' = [returned EXCEPT ![l] = @ + 1]

\* RestoreStock without a message id: unconditional, not idempotent.
RestoreStock(l, outcome) ==
  \/ outcome = "applied" /\ Listed(l) /\ AddBack(l) /\ UNCHANGED <<listed, restored, taken>>
  \/ outcome = "refused" /\ ~Listed(l) /\ UNCHANGED stockVars
  \/ outcome = "err" /\ UNCHANGED stockVars

\* A bug to catch: no deduplication of delivered messages.
SeenNever(m) == FALSE

\* The primary key of stock_restores rejects a message that was applied before.
Seen(m) == m \in restored

\* RestoreStock with a message id: one transaction that records the id and adds
\* the units back, and commits empty when the id is already recorded.
RestoreStockIdempotent(m, outcome) ==
  \/ outcome = "applied" /\ Seen(m) /\ UNCHANGED stockVars
  \/ /\ outcome = "applied"
     /\ ~Seen(m)
     /\ Listed(LineOf(m))
     /\ AddBack(LineOf(m))
     /\ restored' = restored \cup {m}
     /\ UNCHANGED <<listed, taken>>
  \/ outcome = "refused" /\ ~Seen(m) /\ ~Listed(LineOf(m)) /\ UNCHANGED stockVars
  \/ outcome = "err" /\ UNCHANGED stockVars

Outcomes == {"applied", "refused", "err"}

\* After the commit the row is read back (NotFound when a seller deleted it in
\* between) and its cache key deleted (an error of Redis is returned as Internal).
ReadBack(l) == {IF Listed(l) THEN "ok" ELSE "refused", "err"}

\* UPDATE products SET stock = n, ...: the number in the seller's form, whatever
\* the stock has become since the form was filled.
UpdateStock(p, n) ==
  /\ p \in listed
  /\ stock' = [stock EXCEPT ![p] = n]
  /\ UNCHANGED <<listed, restored, taken, returned>>

\* A seller deletes a product; ids are never reused.
DeleteProduct(p) ==
  /\ p \in listed
  /\ listed' = listed \ {p}
  /\ UNCHANGED <<stock, restored, taken, returned>>
=============================================================================
