-------------------------------- MODULE Cart --------------------------------
(***************************************************************************)
(* One shopper's row of one product in cart_items, the calls of CartService *)
(* on it (internal/product/service/cart_service.go over the statements of   *)
(* cart_repository.go), and the cart pages that make them: each shows the   *)
(* quantity of the last answer, and its check-out orders what it shows and   *)
(* then removes the product (shop/src/pages/Cart.jsx).                      *)
(***************************************************************************)
EXTENDS Naturals, FiniteSets

CONSTANTS Calls,       \* calls that can be under way at the same time
          Pages,       \* browser tabs
          Nobody,      \* the owner of a call that no cart page waits for
          Limit,       \* cartQuantityLimit
          Quantities   \* what a call may ask for

ASSUME CartAssumption == /\ Limit \in Nat \ {0} /\ Quantities \subseteq 1..Limit
                         /\ IsFiniteSet(Calls) /\ Pages \cap Calls = {} /\ Nobody \notin Pages

NoRow == 0

VARIABLES row,      \* quantity in the row, NoRow without a row
          listed,   \* the product exists
          call,     \* call -> what it does, how far it is and who waits for it
          view,     \* page -> the quantity it shows; NoRow: none, or no cart page
          unsaid,   \* history: the units of the row are ordered, without any error shown
          sure      \* history: pages and calls whose quantity nobody has overtaken

vars == <<row, listed, call, view, unsaid, sure>>

\* The last three kinds read what they answer with after the write.
CallOf(kind, step, p, n) == [kind |-> kind, step |-> step, page |-> p, qty |-> n]
NoCall == CallOf("none", "none", Nobody, 0)

Of(p) == {c \in Calls : call[c].page = p}
Is(c, kind, step) == call[c].kind = kind /\ call[c].step = step
Begin(c, kind, step, p, n) == call[c] = NoCall /\ call' = [call EXCEPT ![c] = CallOf(kind, step, p, n)]
Go(c, step) == call' = [call EXCEPT ![c] = [@ EXCEPT !.step = step]]
Done(c) == call' = [call EXCEPT ![c] = NoCall]

\* Without a page that waits, a call ends with its effect.
Toward(c, step) ==
    call' = [call EXCEPT ![c] = IF @.page = Nobody THEN NoCall ELSE [@ EXCEPT !.step = step]]
Abandoned(c) == IF call[c].step = "write" THEN [call[c] EXCEPT !.page = Nobody] ELSE NoCall

CartInit ==
    /\ row = NoRow /\ listed = TRUE
    /\ call = [c \in Calls |-> NoCall] /\ view = [p \in Pages |-> NoRow]
    /\ unsaid = FALSE /\ sure = {}

\* Call c changes the row to n: what others show or are about to order, and what
\* the other calls of its own page do, is overtaken.
Change(c, n) ==
    /\ row' = n /\ unsaid' = FALSE
    /\ sure' = sure \cap ({c} \cup {p \in Pages : Of(p) = {c}})

-----------------------------------------------------------------------------
\* AddItem, from a product's page: look the product up, check the sum with the
\* row, add.  Its answer only sets the badge.

BeginAdd(c) ==
    /\ \E n \in Quantities : Begin(c, "add", "lookup", Nobody, n)
    /\ UNCHANGED <<row, listed, view, unsaid, sure>>

\* The cache may still answer for a product that is gone; one that exists is found.
LookUp(c) ==
    /\ Is(c, "add", "lookup")
    /\ Go(c, "check") \/ (~listed /\ Done(c))
    /\ UNCHANGED <<row, listed, view, unsaid, sure>>

FitsBefore(n) == row <= Limit
Fits(n) == row + n <= Limit

Check(c) ==
    /\ Is(c, "add", "check")
    /\ IF row = NoRow \/ Fits(call[c].qty) THEN Go(c, "upsert") ELSE Done(c)
    /\ UNCHANGED <<row, listed, view, unsaid, sure>>

\* INSERT ... ON DUPLICATE KEY UPDATE quantity = quantity + n: a missing row
\* counts as none.
Add(c) ==
    /\ Is(c, "add", "upsert")
    /\ Change(c, row + call[c].qty)
    /\ Done(c)
    /\ UNCHANGED <<listed, view>>

\* DeleteProduct leaves cart rows behind; they can still be changed.
DeleteProduct == listed /\ listed' = FALSE /\ UNCHANGED <<row, call, view, unsaid, sure>>

-----------------------------------------------------------------------------
\* ListCart, UpdateItemQuantity and RemoveItems, from a cart page.

Load(c, p) ==
    /\ Begin(c, "list", "read", p, 0)
    /\ UNCHANGED <<row, listed, view, unsaid, sure>>

ChangeQty(c, p) ==
    /\ view[p] # NoRow
    /\ \E n \in Quantities : Begin(c, "update", "write", p, n)
    /\ UNCHANGED <<row, listed, view, unsaid, sure>>

RemoveOne(c, p) ==
    /\ view[p] # NoRow
    /\ Begin(c, "remove", "write", p, 0)
    /\ UNCHANGED <<row, listed, view, unsaid, sure>>

\* One UPDATE, which answers NotFound when it meets no row.
UpdateItemQuantity(c) ==
    /\ Is(c, "update", "write")
    /\ IF row = NoRow THEN Toward(c, "failed") /\ UNCHANGED <<row, unsaid, sure>>
       ELSE Toward(c, "read") /\ Change(c, call[c].qty)
    /\ UNCHANGED <<listed, view>>

\* One DELETE, also that of a check-out.
RemoveItems(c) ==
    /\ call[c].kind \in {"remove", "clear"} /\ call[c].step = "write"
    /\ Toward(c, "read") /\ Change(c, NoRow)
    /\ UNCHANGED <<listed, view>>

\* The quantity is right for a page that waits for no other answer.
CartResponse(c) ==
    /\ call[c].step = "read"
    /\ call' = [call EXCEPT ![c] = [@ EXCEPT !.step = "answered", !.qty = row]]
    /\ sure' = IF Of(call[c].page) = {c} THEN sure \cup {call[c].page} ELSE sure \ {call[c].page}
    /\ UNCHANGED <<row, listed, view, unsaid>>

\* A statement fails; what was written before stays.
CallFails(c) ==
    /\ call[c].step \in {"lookup", "check", "upsert", "write", "read"}
    /\ Toward(c, "failed")
    /\ UNCHANGED <<row, listed, view, unsaid, sure>>

\* applyResponse, or the error message: then the page keeps what it shows.
Arrive(c) ==
    /\ call[c].kind \in {"list", "update", "remove"} /\ call[c].step \in {"answered", "failed"}
    /\ view' = IF call[c].step = "answered"
               THEN [view EXCEPT ![call[c].page] = call[c].qty] ELSE view
    /\ sure' = IF call[c].step = "failed" THEN sure \ {call[c].page} ELSE sure
    /\ Done(c)
    /\ UNCHANGED <<row, listed, unsaid>>

\* The page is left; only a check-out goes on without it.
Leave(p) ==
    /\ view[p] # NoRow
    /\ view' = [view EXCEPT ![p] = NoRow]
    /\ call' = [c \in Calls |-> IF c \in Of(p) /\ call[c].kind \in {"list", "update", "remove"}
                                THEN Abandoned(c) ELSE call[c]]
    /\ sure' = sure \ {p}
    /\ UNCHANGED <<row, listed, unsaid>>

-----------------------------------------------------------------------------
\* settle: POST /orders with what the page shows, then DELETE /cart/items, then
\* on to the page of the order.

Settle(c, p) ==
    /\ view[p] # NoRow
    /\ Begin(c, "order", "write", p, view[p])
    /\ sure' = IF p \in sure /\ Of(p) = {} THEN sure \cup {c} ELSE sure \ {c}
    /\ UNCHANGED <<row, listed, view, unsaid>>

\* No check-out but this one knows that the units are ordered now.
OrderCreated(c) ==
    /\ Is(c, "order", "write") /\ listed
    /\ Toward(c, "answered")
    /\ unsaid' = (unsaid \/ call[c].page # Nobody)
    /\ sure' = sure \cap {c}
    /\ UNCHANGED <<row, listed, view>>

OrderRefused(c) ==
    /\ Is(c, "order", "write")
    /\ Toward(c, "failed")
    /\ UNCHANGED <<row, listed, view, unsaid, sure>>

\* A mistaken form of the next definition: the cart is cleared after a refusal too.
ClearAnyway(c) ==
    /\ call[c].kind = "order" /\ call[c].step \in {"answered", "failed"}
    /\ call' = [call EXCEPT ![c] = [@ EXCEPT !.kind = "clear", !.step = "write",
                                 !.qty = IF call[c].step = "failed" THEN 0 ELSE @]]
    /\ UNCHANGED <<row, listed, view, unsaid, sure>>

Clear(c) ==
    /\ call[c].kind = "order" /\ call[c].step \in {"answered", "failed"}
    /\ IF call[c].step = "failed" THEN Done(c)
       ELSE call' = [call EXCEPT ![c] = [@ EXCEPT !.kind = "clear", !.step = "write"]]
    /\ UNCHANGED <<row, listed, view, unsaid, sure>>

\* A failed DELETE is told; the shopper ends on the order's page either way.
Settled(c) ==
    /\ call[c].kind = "clear" /\ call[c].step \in {"answered", "failed"}
    /\ Done(c)
    /\ view' = [view EXCEPT ![call[c].page] = NoRow]
    /\ unsaid' = (unsaid /\ call[c].step = "answered")
    /\ UNCHANGED <<row, listed, sure>>

\* The answer is late or lost and the shopper is told; the call may still take
\* effect.  After the DELETE the page goes on to the order.
GiveUp(c) ==
    /\ call[c].page # Nobody
    /\ call' = [call EXCEPT ![c] = Abandoned(c)]
    /\ view' = IF call[c].kind = "clear" THEN [view EXCEPT ![call[c].page] = NoRow] ELSE view
    /\ unsaid' = (unsaid /\ call[c].kind \notin {"order", "clear"})
    /\ sure' = sure \ {c, call[c].page}
    /\ UNCHANGED <<row, listed>>

-----------------------------------------------------------------------------
CallNext(c) ==
    \/ BeginAdd(c) \/ LookUp(c) \/ Check(c) \/ Add(c)
    \/ UpdateItemQuantity(c) \/ RemoveItems(c) \/ CartResponse(c) \/ CallFails(c) \/ Arrive(c)
    \/ OrderCreated(c) \/ OrderRefused(c) \/ Clear(c) \/ Settled(c) \/ GiveUp(c)

CartNext ==
    \/ \E c \in Calls : CallNext(c) \/ \E p \in Pages : \/ Load(c, p) \/ ChangeQty(c, p)
                                                        \/ RemoveOne(c, p) \/ Settle(c, p)
    \/ \E p \in Pages : Leave(p)
    \/ DeleteProduct

CartSpec == CartInit /\ [][CartNext]_vars

-----------------------------------------------------------------------------
\* However adds that were checked against an old quantity interleave with
\* updates and removals, the row stays below the limit times the number of
\* calls under way: the check bounds the overshoot, though not by the limit
\* (AddItem, cart_service.go:49-63).
OvershootBounded == row <= Limit * Cardinality(Calls)

\* A check-out whose page had all its answers when it began, and whose row was neither
\* changed nor ordered from elsewhere since the page's answer was read, removes exactly
\* the units that it ordered.  And no check-out orders units a second time unless an
\* earlier one is still under way, or an error was shown after it (settle, Cart.jsx:159).
CheckoutIsExact ==
    [][\A c \in Calls :
         /\ Is(c, "clear", "write") /\ call'[c].step = "read" /\ c \in sure => row = call[c].qty
         /\ Is(c, "order", "write") /\ call'[c].step = "answered" /\ unsaid
              => \E d \in Calls \ {c} : call[d].kind \in {"order", "clear"}]_vars
=============================================================================
