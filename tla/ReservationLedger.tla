------------------------- MODULE ReservationLedger --------------------------
(***************************************************************************)
(* What the shop promises, without a word about calls, messages or faults: *)
(* an order opens only when the units of all its lines have been set aside *)
(* for it, they stay aside while it is open or paid, and the units of a    *)
(* line go back to the shelf at most once, when the order never opened or  *)
(* has been cancelled.  Sellers may fill the shelf anew at any time.       *)
(***************************************************************************)
EXTENDS OrderModel

VARIABLES
  shelf,   \* shelf[p]: units of p that can still be set aside
  units,   \* units[l]: "free", set "aside" for line l, or given "back"
  status,  \* status[r]: the order of request r
  edits    \* how often a seller has set the number on the shelf

ledgerVars == <<shelf, units, status, edits>>

CONSTANT Supply  \* what the shelf holds at the beginning

LedgerInit ==
  /\ shelf = Supply
  /\ units = [l \in Lines |-> "free"]
  /\ status = [r \in Requests |-> "none"]
  /\ edits = 0

SetAside(l) ==
  /\ units[l] = "free" /\ status[l[1]] = "none"
  /\ shelf[ProductOf(l)] >= QtyOf(l)
  /\ shelf' = [shelf EXCEPT ![ProductOf(l)] = @ - QtyOf(l)]
  /\ units' = [units EXCEPT ![l] = "aside"]
  /\ UNCHANGED <<status, edits>>

GiveBack(l) ==
  /\ units[l] = "aside" /\ status[l[1]] \in {"none", "CANCELLED"}
  /\ shelf' = [shelf EXCEPT ![ProductOf(l)] = @ + QtyOf(l)]
  /\ units' = [units EXCEPT ![l] = "back"]
  /\ UNCHANGED <<status, edits>>

Open(r) ==
  /\ status[r] = "none"
  /\ \A l \in LinesOf(r) : units[l] = "aside"
  /\ status' = [status EXCEPT ![r] = "PENDING"]
  /\ UNCHANGED <<shelf, units, edits>>

Close(r) ==
  /\ status[r] = "PENDING"
  /\ \E final \in {"PAID", "CANCELLED"} : status' = [status EXCEPT ![r] = final]
  /\ UNCHANGED <<shelf, units, edits>>

Edit(p) ==
  /\ edits' = edits + 1
  /\ shelf' \in [Products -> Int]
  /\ \A q \in Products \ {p} : shelf'[q] = shelf[q]
  /\ UNCHANGED <<units, status>>

LedgerNext ==
  \/ \E l \in Lines : SetAside(l) \/ GiveBack(l)
  \/ \E r \in Requests : Open(r) \/ Close(r)
  \/ \E p \in Products : Edit(p)

LedgerSpec == LedgerInit /\ [][LedgerNext]_ledgerVars
=============================================================================
