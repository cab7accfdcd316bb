----------------------------- MODULE OrderModel -----------------------------
(***************************************************************************)
(* The data every other module talks about: the lines of the orders that   *)
(* shoppers try to place and the stock-restore messages that cancelling    *)
(* an order produces.  Prices, names and JSON payloads are abstracted: no  *)
(* property tells two payloads apart except by the line they restore.      *)
(***************************************************************************)
EXTENDS Integers, Sequences, FiniteSets

CONSTANTS
  Products,  \* product rows
  Requests,  \* CreateOrder calls; the order a call writes is named after it
  Cart,      \* Cart[r]: the items of call r, each a product and a quantity
  Handlers   \* PayOrder and CancelOrder calls

\* A CreateOrder request that passes validation: at least one item, a product and
\* a positive quantity in each.  One product may appear in several items.
ASSUME CartAssumption ==
  /\ Cart \in [Requests -> Seq([product : Products, qty : Nat \ {0}])]
  /\ \A r \in Requests : Cart[r] # << >>

\* An order line is the pair of a request and the index of one of its items.
LinesOf(r) == {r} \X DOMAIN Cart[r]
Lines == UNION {LinesOf(r) : r \in Requests}
ProductOf(line) == Cart[line[1]][line[2]].product
QtyOf(line) == Cart[line[1]][line[2]].qty

\* A stock-restore message: the cancelling call that made it up (its uuid) and
\* the line whose units it gives back.
Messages == Handlers \X Lines
LineOf(m) == m[2]
OrderOf(m) == m[2][1]
Batch(h, o) == {h} \X LinesOf(o)
=============================================================================
