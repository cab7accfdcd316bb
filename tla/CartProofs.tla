----------------------------- MODULE CartProofs -----------------------------
(***************************************************************************)
(* The cart row and the pages that show it, for any number of calls and    *)
(* tabs: how far checked adds can overshoot the limit, and what a          *)
(* check-out removes and orders.                                           *)
(***************************************************************************)
EXTENDS Cart, FiniteSetTheorems, TLAPS

Kinds == {"none", "add", "list", "update", "remove", "order", "clear"}
Steps == {"none", "lookup", "check", "upsert", "write", "read", "answered", "failed"}

CallRecord == [kind : Kinds, step : Steps, page : Pages \cup {Nobody}, qty : Nat]

CartTypeOK ==
  /\ row \in Nat /\ listed \in BOOLEAN /\ unsaid \in BOOLEAN
  /\ call \in [Calls -> CallRecord] /\ view \in [Pages -> Nat]
  /\ sure \subseteq Calls \cup Pages

\* The units a checked add is about to put into the row.
OwedBy(k) == IF k.kind = "add" /\ k.step = "upsert" THEN k.qty ELSE 0
Pending(f, S) == {x \in S \X (1..Limit) : x[2] <= OwedBy(f[x[1]])}

\* The row and all that is about to be added.
Bounded == row + Cardinality(Pending(call, Calls)) <= Limit * Cardinality(Calls)

\* Only a page that waits is answered, what is read replaces what it shows, no cart page
\* waits for an add, and nobody asks for more than the limit.
PageKinds == {"list", "update", "remove"}
Asks(k) ==
  \/ k.kind = "add" /\ k.step \in {"lookup", "check", "upsert"}
  \/ k.kind = "update" /\ k.step = "write"
InOrder(k) ==
  /\ k.step \in {"read", "answered", "failed"} => k.page \in Pages
  /\ k.step = "read" => k.kind \in PageKinds \cup {"clear"}
  /\ k.kind = "add" => k.page = Nobody
  /\ Asks(k) => k.qty <= Limit
CallsInOrder == \A c \in Calls : InOrder(call[c])

\* A check-out that nobody has overtaken is about the units that are in the row.
CheckingOut(k) == k.kind = "order" \/ (k.kind = "clear" /\ k.step = "write")
SureCheckouts == \A c \in Calls \cap sure : CheckingOut(call[c]) => call[c].qty = row

\* A page that nobody has overtaken is about to show the row, or shows it, unless an
\* answer that replaces what it shows is on its way.
Brings(k, p, n) == k.page = p /\ k.kind \in PageKinds /\ k.step = "answered" /\ k.qty # n
Replaces(k, p) ==
  k.page = p /\ k.kind \in PageKinds \cup {"clear"} /\ k.step \in {"read", "answered", "failed"}
SurePage(p) ==
  /\ \A c \in Calls : ~Brings(call[c], p, row)
  /\ view[p] \in {row, NoRow} \/ \E c \in Calls : Replaces(call[c], p)
SurePages == \A p \in Pages \cap sure : SurePage(p)

\* As long as the ordered units stay in the row without a word, their check-out is
\* still under way.
Telling(k) ==
  /\ k.page \in Pages
  /\ \/ k.kind = "order" /\ k.step = "answered"
     \/ k.kind = "clear" /\ k.step \in {"write", "failed"}
UnsaidIsUnderWay == unsaid => \E c \in Calls : Telling(call[c])

CartInv ==
  /\ CartTypeOK /\ Bounded /\ CallsInOrder
  /\ SureCheckouts /\ SurePages /\ UnsaidIsUnderWay
-----------------------------------------------------------------------------
(* What is about to be added *)

\* The pending units of one call are counted by OwedBy, those of the others are fewer
\* than the limit for each.
LEMMA PendingSplit ==
  ASSUME NEW f \in [Calls -> CallRecord], \A d \in Calls : OwedBy(f[d]) <= Limit,
         NEW c \in Calls
  PROVE  /\ IsFiniteSet(Pending(f, Calls \ {c})) /\ Cardinality(Pending(f, Calls \ {c})) \in Nat
         /\ Cardinality(Pending(f, Calls)) = Cardinality(Pending(f, Calls \ {c})) + OwedBy(f[c])
         /\ Cardinality(Pending(f, Calls \ {c})) + Limit <= Limit * Cardinality(Calls)
<1> DEFINE Rest == Pending(f, Calls \ {c})
           Own == {c} \X (1..OwedBy(f[c]))
<1>1. Limit \in Nat \ {0} /\ IsFiniteSet(Calls) /\ Cardinality(Calls) \in Nat
  BY CartAssumption, FS_CardinalityType
<1>2. OwedBy(f[c]) \in Nat /\ OwedBy(f[c]) <= Limit
  BY DEF CallRecord, OwedBy
<1>3. /\ IsFiniteSet((Calls \ {c}) \X (1..Limit))
      /\ Cardinality((Calls \ {c}) \X (1..Limit)) = (Cardinality(Calls) - 1) * Limit
  <2>1. IsFiniteSet(Calls \ {c}) /\ Cardinality(Calls \ {c}) = Cardinality(Calls) - 1
    BY <1>1, FS_RemoveElement
  <2>2. IsFiniteSet(1..Limit) /\ Cardinality(1..Limit) = Limit
    BY <1>1, FS_Interval
  <2>3. /\ IsFiniteSet((Calls \ {c}) \X (1..Limit))
        /\ Cardinality((Calls \ {c}) \X (1..Limit)) = Cardinality(Calls \ {c}) * Cardinality(1..Limit)
    BY <2>1, <2>2, FS_Product
  <2> QED BY <2>1, <2>2, <2>3
<1>4. Rest \subseteq (Calls \ {c}) \X (1..Limit)
  BY DEF Pending
<1>5. /\ IsFiniteSet(Rest) /\ Cardinality(Rest) \in Nat
      /\ Cardinality(Rest) <= (Cardinality(Calls) - 1) * Limit
  <2>1. IsFiniteSet(Rest) /\ Cardinality(Rest) <= Cardinality((Calls \ {c}) \X (1..Limit))
    BY <1>3, <1>4, FS_Subset
  <2> QED BY <1>3, <2>1, FS_CardinalityType
<1>6. (Cardinality(Calls) - 1) * Limit + Limit = Limit * Cardinality(Calls)
  <2>1. \A m, n \in Nat : (m - 1) * n + n = n * m
    OBVIOUS
  <2> QED BY <1>1, <2>1
<1>7. Cardinality(Rest) + Limit <= Limit * Cardinality(Calls)
  <2>1. PICK k \in Int : k = (Cardinality(Calls) - 1) * Limit
    BY <1>1
  <2> QED BY <1>1, <1>5, <1>6, <2>1
<1>8. IsFiniteSet(Own) /\ Cardinality(Own) = OwedBy(f[c])
  <2>1. IsFiniteSet({c}) /\ Cardinality({c}) = 1
    BY FS_Singleton
  <2>2. /\ IsFiniteSet(1..OwedBy(f[c]))
        /\ Cardinality(1..OwedBy(f[c])) = OwedBy(f[c])
    BY <1>2, FS_Interval
  <2>3. IsFiniteSet(Own) /\ Cardinality(Own) = Cardinality({c}) * Cardinality(1..OwedBy(f[c]))
    BY <2>1, <2>2, FS_Product
  <2> QED BY <1>2, <2>1, <2>2, <2>3
<1>9. Pending(f, Calls) = Rest \cup Own /\ Rest \cap Own = {}
  BY <1>1, <1>2 DEF Pending
<1> HIDE DEF Rest, Own
<1>10. Cardinality(Rest \cup Own) = Cardinality(Rest) + Cardinality(Own) - Cardinality(Rest \cap Own)
  BY <1>5, <1>8, FS_Union
<1>11. Cardinality(Rest \cap Own) = 0
  <2>1. Cardinality({}) = 0
    BY FS_EmptySet
  <2> QED BY <1>9, <2>1, Zenon
<1>12. Cardinality(Pending(f, Calls)) = Cardinality(Rest \cup Own)
  BY <1>9, Zenon
<1>13. Cardinality(Pending(f, Calls)) = Cardinality(Rest) + OwedBy(f[c])
  BY <1>2, <1>5, <1>8, <1>10, <1>11, <1>12
<1> QED BY <1>5, <1>7, <1>13 DEF Rest

\* A call that adds what it owed, or that was checked against the row, keeps the bound.
LEMMA OneCallKeepsBound ==
  ASSUME CartTypeOK, CallsInOrder, Bounded, CartTypeOK', CallsInOrder', NEW c \in Calls,
         \A d \in Calls \ {c} : call'[d] = call[d],
         \/ row' + OwedBy(call'[c]) <= row + OwedBy(call[c])
         \/ row' + OwedBy(call'[c]) <= Limit
  PROVE  Bounded'
<1>0. Limit \in Nat /\ call \in [Calls -> CallRecord] /\ call' \in [Calls -> CallRecord]
  BY CartAssumption DEF CartTypeOK
<1>1. Pending(call', Calls \ {c}) = Pending(call, Calls \ {c})
  BY DEF Pending
<1>2. \A d \in Calls : OwedBy(call[d]) <= Limit /\ OwedBy(call'[d]) <= Limit
  BY <1>0 DEF CallsInOrder, InOrder, Asks, OwedBy
<1>3. /\ Cardinality(Pending(call, Calls \ {c})) \in Nat
      /\ Cardinality(Pending(call, Calls))
           = Cardinality(Pending(call, Calls \ {c})) + OwedBy(call[c])
      /\ Cardinality(Pending(call, Calls \ {c})) + Limit <= Limit * Cardinality(Calls)
  BY <1>0, <1>2, PendingSplit
<1>4. Cardinality(Pending(call', Calls))
        = Cardinality(Pending(call, Calls \ {c})) + OwedBy(call'[c])
  <2>1. Cardinality(Pending(call', Calls))
          = Cardinality(Pending(call', Calls \ {c})) + OwedBy(call'[c])
    BY <1>0, <1>2, PendingSplit
  <2> QED BY <1>1, <2>1
<1>5. row \in Nat /\ row' \in Nat /\ OwedBy(call[c]) \in Nat /\ OwedBy(call'[c]) \in Nat
  BY DEF CartTypeOK, CallRecord, OwedBy
<1>6. PICK k \in Int : k = Limit * Cardinality(Calls)
  BY CartAssumption, FS_CardinalityType
<1>7. PICK m \in Nat : m = Cardinality(Pending(call, Calls \ {c}))
  BY <1>3
<1>8. row + m + OwedBy(call[c]) <= k /\ m + Limit <= k
  BY <1>3, <1>5, <1>6, <1>7 DEF Bounded
<1>9. row' + (m + OwedBy(call'[c])) <= k
  BY <1>0, <1>5, <1>6, <1>7, <1>8
<1>10. Pending(call, Calls)' = Pending(call', Calls)
  BY DEF Pending
<1> QED BY <1>4, <1>6, <1>7, <1>9, <1>10 DEF Bounded
-----------------------------------------------------------------------------
(* One step of one call *)

\* A step of call c that leaves the row alone and makes its record k.
LEMMA OneCallKeepsInv ==
  ASSUME CartInv, NEW c \in Calls, NEW k \in CallRecord, call' = [call EXCEPT ![c] = k],
         row' = row, listed' \in BOOLEAN, unsaid' \in BOOLEAN, view' \in [Pages -> Nat],
         sure' \subseteq Calls \cup Pages,
         InOrder(k),
         OwedBy(k) <= OwedBy(call[c]) \/ row + OwedBy(k) <= Limit,
         sure' \cap Calls \subseteq sure \cup {c},
         c \in sure' /\ CheckingOut(k) => k.qty = row,
         \A p \in Pages \cap sure' : SurePage(p)',
         unsaid' => Telling(k) \/ (unsaid /\ ~Telling(call[c]))
  PROVE  CartInv'
<1>1. call \in [Calls -> CallRecord] /\ call'[c] = k /\ \A d \in Calls \ {c} : call'[d] = call[d]
  BY DEF CartInv, CartTypeOK
<1>2. CartTypeOK'
  BY DEF CartInv, CartTypeOK
<1>3. CallsInOrder'
  BY <1>1 DEF CartInv, CallsInOrder
<1>4. Bounded'
  <2>1. \/ row' + OwedBy(call'[c]) <= row + OwedBy(call[c])
        \/ row' + OwedBy(call'[c]) <= Limit
    <3>1. row \in Nat /\ OwedBy(call[c]) \in Nat /\ OwedBy(k) \in Nat
      BY <1>1 DEF CartInv, CartTypeOK, CallRecord, OwedBy
    <3> QED BY <1>1, <3>1
  <2> QED BY <1>1, <1>2, <1>3, <2>1, OneCallKeepsBound DEF CartInv
<1>5. SureCheckouts'
  BY <1>1 DEF CartInv, SureCheckouts
<1>6. SurePages'
  BY DEF SurePages
<1>7. UnsaidIsUnderWay'
  BY <1>1 DEF CartInv, UnsaidIsUnderWay
<1> QED BY <1>2, <1>3, <1>4, <1>5, <1>6, <1>7 DEF CartInv

\* A page that was sure stays so when the call brings it nothing wrong, and still
\* replaces what it shows if it was about to.
LEMMA PageStaysSure ==
  ASSUME CartInv, NEW c \in Calls, NEW k \in CallRecord, call' = [call EXCEPT ![c] = k],
         row' = row, NEW p \in Pages, p \in sure, view'[p] = view[p],
         ~Brings(k, p, row), Replaces(call[c], p) => Replaces(k, p)
  PROVE  SurePage(p)'
<1>1. call \in [Calls -> CallRecord] /\ call'[c] = k /\ \A d \in Calls \ {c} : call'[d] = call[d]
  BY DEF CartInv, CartTypeOK
<1>2. SurePage(p)
  BY DEF CartInv, SurePages
<1>3. \A d \in Calls : ~Brings(call'[d], p, row)
  BY <1>1, <1>2 DEF SurePage
<1>4. (\E d \in Calls : Replaces(call[d], p)) => \E d \in Calls : Replaces(call'[d], p)
  BY <1>1
<1> QED BY <1>2, <1>3, <1>4 DEF SurePage

\* A step of call c that changes the row to n and makes its record k.
LEMMA ChangeKeepsInv ==
  ASSUME CartInv, NEW c \in Calls, NEW k \in CallRecord, call' = [call EXCEPT ![c] = k],
         NEW n \in Nat, Change(c, n), UNCHANGED <<listed, view>>,
         InOrder(k), OwedBy(k) = 0, n <= row + OwedBy(call[c]) \/ n <= Limit, ~CheckingOut(k),
         call[c].page \in Pages => Replaces(k, call[c].page) /\ k.step # "answered"
  PROVE  CartInv'
<1>1. call \in [Calls -> CallRecord] /\ call'[c] = k /\ \A d \in Calls \ {c} : call'[d] = call[d]
  BY DEF CartInv, CartTypeOK
<1>2. /\ row' = n /\ unsaid' = FALSE
      /\ sure' = sure \cap ({c} \cup {p \in Pages : Of(p) = {c}})
  BY DEF Change
<1>3. CartTypeOK'
  <2>1. unsaid' \in BOOLEAN
    BY <1>2, Zenon
  <2> QED BY <1>2, <2>1 DEF CartInv, CartTypeOK
<1>4. CallsInOrder'
  BY <1>1 DEF CartInv, CallsInOrder
<1>5. Bounded'
  <2>1. row \in Nat /\ OwedBy(call[c]) \in Nat
    BY <1>1 DEF CartInv, CartTypeOK, CallRecord, OwedBy
  <2> QED BY <1>1, <1>2, <1>3, <1>4, <2>1, OneCallKeepsBound DEF CartInv
<1>6. SureCheckouts'
  <2>1. \A d \in Calls \cap sure' : d = c
    BY <1>2, CartAssumption
  <2> QED BY <1>1, <2>1 DEF SureCheckouts
<1>7. SurePages'
  <2> SUFFICES ASSUME NEW p \in Pages, p \in sure' PROVE SurePage(p)'
    BY DEF SurePages
  <2>1. Of(p) = {c} /\ call[c].page = p
    BY <1>2, CartAssumption DEF Of
  <2>2. Replaces(call'[c], p) /\ ~Brings(call'[c], p, n)
    BY <1>1, <2>1 DEF Brings
  <2>3. ASSUME NEW d \in Calls PROVE ~Brings(call'[d], p, n)
    <3>1. CASE d = c
      BY <2>2, <3>1
    <3>2. CASE d # c
      BY <1>1, <2>1, <3>2 DEF Of, Brings
    <3> QED BY <3>1, <3>2
  <2> QED BY <1>2, <2>2, <2>3 DEF SurePage
<1>8. UnsaidIsUnderWay'
  BY <1>2 DEF UnsaidIsUnderWay
<1> QED BY <1>3, <1>4, <1>5, <1>6, <1>7, <1>8 DEF CartInv
-----------------------------------------------------------------------------
(* Records of calls *)

LEMMA NoCallIs ==
  /\ NoCall \in CallRecord /\ NoCall.kind = "none" /\ NoCall.step = "none"
  /\ NoCall.page = Nobody /\ NoCall.qty = 0 /\ Nobody \notin Pages
BY CartAssumption DEF NoCall, CallOf, CallRecord, Kinds, Steps

\* A call that is over concerns nobody.
LEMMA NoCallKeeps ==
  /\ InOrder(NoCall) /\ ~CheckingOut(NoCall) /\ ~Telling(NoCall) /\ OwedBy(NoCall) = 0
  /\ \A p \in Pages : \A n : ~Brings(NoCall, p, n) /\ ~Replaces(NoCall, p)
BY NoCallIs DEF InOrder, Asks, CheckingOut, Telling, OwedBy, Brings, Replaces

LEMMA NewCallIs ==
  ASSUME NEW kind \in Kinds, NEW step \in Steps, NEW p \in Pages \cup {Nobody}, NEW n \in Nat
  PROVE  /\ CallOf(kind, step, p, n) \in CallRecord
         /\ CallOf(kind, step, p, n).kind = kind /\ CallOf(kind, step, p, n).step = step
         /\ CallOf(kind, step, p, n).page = p /\ CallOf(kind, step, p, n).qty = n
BY DEF CallOf, CallRecord

LEMMA MovedCallIs ==
  ASSUME NEW k \in CallRecord, NEW step \in Steps
  PROVE  /\ [k EXCEPT !.step = step] \in CallRecord
         /\ [k EXCEPT !.step = step].kind = k.kind /\ [k EXCEPT !.step = step].step = step
         /\ [k EXCEPT !.step = step].page = k.page /\ [k EXCEPT !.step = step].qty = k.qty
BY DEF CallRecord

\* Toward moves a call whose page waits, and ends any other.
LEMMA TowardIs ==
  ASSUME CartTypeOK, NEW c \in Calls, NEW step \in Steps, Toward(c, step)
  PROVE  \E k \in CallRecord :
           /\ call' = [call EXCEPT ![c] = k]
           /\ \/ call[c].page = Nobody /\ k = NoCall
              \/ /\ call[c].page \in Pages /\ k.kind = call[c].kind /\ k.step = step
                 /\ k.page = call[c].page /\ k.qty = call[c].qty
<1>1. call[c] \in CallRecord /\ call[c].page \in Pages \cup {Nobody}
  BY DEF CartTypeOK, CallRecord
<1>2. CASE call[c].page = Nobody
  <2>1. call' = [call EXCEPT ![c] = NoCall]
    BY <1>2 DEF Toward
  <2> QED BY <1>2, <2>1, NoCallIs
<1>3. CASE call[c].page # Nobody
  <2>1. call' = [call EXCEPT ![c] = [call[c] EXCEPT !.step = step]]
    BY <1>3 DEF Toward
  <2> QED BY <1>1, <1>3, <2>1, MovedCallIs
<1> QED BY <1>2, <1>3
-----------------------------------------------------------------------------
(* Calls that begin *)

\* A call begins while no answer of its own is on the way.
LEMMA BeginKeepsInv ==
  ASSUME CartInv, NEW c \in Calls, NEW kind \in Kinds \ {"none"},
         NEW step \in {"lookup", "read", "write"}, NEW p \in Pages \cup {Nobody}, NEW n \in Nat,
         Begin(c, kind, step, p, n), UNCHANGED <<row, listed, view, unsaid>>,
         step = "read" => p \in Pages /\ kind \in PageKinds,
         kind = "add" \/ kind = "update" => n <= Limit, kind = "add" => p = Nobody,
         sure' \subseteq sure \cup {c},
         c \in sure' /\ (kind = "order" \/ (kind = "clear" /\ step = "write")) => n = row
  PROVE  CartInv'
<1> DEFINE k == CallOf(kind, step, p, n)
<1>1. k \in CallRecord /\ k.kind = kind /\ k.step = step /\ k.page = p /\ k.qty = n
  BY NewCallIs DEF Steps
<1> HIDE DEF k
<1>2. call[c] = NoCall /\ call' = [call EXCEPT ![c] = k]
  BY DEF Begin, k
<1>3. /\ row \in Nat /\ listed \in BOOLEAN /\ unsaid \in BOOLEAN /\ view \in [Pages -> Nat]
      /\ sure \subseteq Calls \cup Pages
  BY DEF CartInv, CartTypeOK
<1>4. OwedBy(k) = 0
  BY <1>1 DEF OwedBy
<1>5. InOrder(k)
  BY <1>1 DEF InOrder, Asks
<1>6. CheckingOut(k) /\ c \in sure' => k.qty = row
  BY <1>1 DEF CheckingOut
<1>7. ASSUME NEW q \in Pages \cap sure' PROVE SurePage(q)'
  <2>1. q \in sure /\ ~Brings(k, q, row) /\ ~Replaces(call[c], q)
    BY <1>1, <1>2, NoCallKeeps, CartAssumption DEF Brings
  <2> QED BY <1>1, <1>2, <2>1, PageStaysSure
<1>8. ~Telling(call[c]) /\ OwedBy(call[c]) = 0
  BY <1>2, NoCallKeeps
<1>9. listed' \in BOOLEAN /\ unsaid' \in BOOLEAN /\ view' \in [Pages -> Nat] /\ row' = row
  BY <1>3
<1>10. sure' \subseteq Calls \cup Pages /\ sure' \cap Calls \subseteq sure \cup {c}
  BY <1>3
<1>11. OwedBy(k) <= OwedBy(call[c])
  BY <1>4, <1>8
<1>12. unsaid' => unsaid /\ ~Telling(call[c])
  BY <1>8
<1> QED BY <1>1, <1>2, <1>5, <1>6, <1>7, <1>9, <1>10, <1>11, <1>12, OneCallKeepsInv

LEMMA BeginningsKeepInv ==
  ASSUME CartInv, NEW c \in Calls,
         \/ BeginAdd(c)
         \/ \E p \in Pages : Load(c, p) \/ ChangeQty(c, p) \/ RemoveOne(c, p) \/ Settle(c, p)
  PROVE  CartInv'
<1>0. Limit \in Nat /\ Quantities \subseteq 1..Limit /\ Pages \cap Calls = {}
  BY CartAssumption
<1>1. CASE BeginAdd(c)
  <2>1. PICK n \in Quantities : Begin(c, "add", "lookup", Nobody, n)
    BY <1>1 DEF BeginAdd
  <2> QED BY <1>0, <1>1, <2>1, BeginKeepsInv DEF BeginAdd, Kinds
<1>2. ASSUME NEW p \in Pages, Load(c, p) PROVE CartInv'
  BY <1>2, BeginKeepsInv DEF Load, Kinds, PageKinds
<1>3. ASSUME NEW p \in Pages, ChangeQty(c, p) PROVE CartInv'
  <2>1. PICK n \in Quantities : Begin(c, "update", "write", p, n)
    BY <1>3 DEF ChangeQty
  <2> QED BY <1>0, <1>3, <2>1, BeginKeepsInv DEF ChangeQty, Kinds
<1>4. ASSUME NEW p \in Pages, RemoveOne(c, p) PROVE CartInv'
  BY <1>4, BeginKeepsInv DEF RemoveOne, Kinds
<1>5. ASSUME NEW p \in Pages, Settle(c, p) PROVE CartInv'
  <2>1. /\ Begin(c, "order", "write", p, view[p]) /\ UNCHANGED <<row, listed, view, unsaid>>
        /\ view[p] # NoRow /\ view[p] \in Nat
        /\ sure' = IF p \in sure /\ Of(p) = {} THEN sure \cup {c} ELSE sure \ {c}
    BY <1>5 DEF Settle, CartInv, CartTypeOK
  <2>2. ASSUME c \in sure' PROVE view[p] = row
    <3>1. p \in sure /\ Of(p) = {}
      BY <2>1, <2>2
    <3>2. \A d \in Calls : ~Replaces(call[d], p)
      BY <3>1 DEF Of, Replaces
    <3> QED BY <2>1, <3>1, <3>2 DEF CartInv, SurePages, SurePage
  <2> QED BY <2>1, <2>2, BeginKeepsInv DEF Kinds
<1> QED BY <1>1, <1>2, <1>3, <1>4, <1>5
-----------------------------------------------------------------------------
(* Calls that go on or end *)

\* A step of a call that leaves the row and the pages as they are.
LEMMA MoveKeepsInv ==
  ASSUME CartInv, NEW c \in Calls, NEW k \in CallRecord, call' = [call EXCEPT ![c] = k],
         UNCHANGED <<row, listed, view>>, unsaid' \in BOOLEAN, sure' \subseteq sure,
         InOrder(k),
         OwedBy(k) <= OwedBy(call[c]) \/ row + OwedBy(k) <= Limit,
         c \in sure' /\ CheckingOut(k) => k.qty = row,
         \A p \in Pages \cap sure' :
           ~Brings(k, p, row) /\ (Replaces(call[c], p) => Replaces(k, p)),
         unsaid' => Telling(k) \/ (unsaid /\ ~Telling(call[c]))
  PROVE  CartInv'
<1>1. /\ listed' \in BOOLEAN /\ view' \in [Pages -> Nat] /\ row' = row
      /\ sure' \subseteq Calls \cup Pages /\ sure' \cap Calls \subseteq sure \cup {c}
  BY DEF CartInv, CartTypeOK
<1>2. \A p \in Pages \cap sure' : SurePage(p)'
  BY PageStaysSure
<1> QED BY <1>1, <1>2, OneCallKeepsInv

\* A step that ends a call without an effect on the row and the pages.
LEMMA EndKeepsInv ==
  ASSUME CartInv, NEW c \in Calls, call' = [call EXCEPT ![c] = NoCall],
         UNCHANGED <<row, listed, view>>, unsaid' \in BOOLEAN, sure' \subseteq sure,
         \A p \in Pages \cap sure' : ~Replaces(call[c], p),
         unsaid' => unsaid /\ ~Telling(call[c])
  PROVE  CartInv'
<1>1. OwedBy(NoCall) <= OwedBy(call[c])
  BY NoCallKeeps DEF OwedBy, CartInv, CartTypeOK, CallRecord
<1>2. NoCall \in CallRecord
  BY NoCallIs
<1>3. /\ InOrder(NoCall) /\ ~CheckingOut(NoCall)
      /\ \A p \in Pages \cap sure' : ~Brings(NoCall, p, row)
  BY NoCallKeeps
<1> QED BY <1>1, <1>2, <1>3, MoveKeepsInv

\* AddItem up to its INSERT.
LEMMA ChecksKeepInv ==
  ASSUME CartInv, NEW c \in Calls, LookUp(c) \/ Check(c)
  PROVE  CartInv'
<1>1. /\ call[c] \in CallRecord /\ call[c].kind = "add" /\ call[c].step \in {"lookup", "check"}
      /\ unsaid \in BOOLEAN /\ row \in Nat /\ call[c].qty \in Nat /\ call[c].qty <= Limit
      /\ call[c].page = Nobody /\ UNCHANGED <<row, listed, view, unsaid, sure>>
  BY DEF CartInv, CartTypeOK, CallsInOrder, InOrder, Asks, LookUp, Check, Is, CallRecord
<1>2. \/ call' = [call EXCEPT ![c] = NoCall]
      \/ call' = [call EXCEPT ![c] = [call[c] EXCEPT !.step = "check"]]
      \/ /\ call' = [call EXCEPT ![c] = [call[c] EXCEPT !.step = "upsert"]]
         /\ row + call[c].qty <= Limit
  <2>1. CASE LookUp(c)
    BY <2>1 DEF LookUp, Go, Done
  <2>2. CASE Check(c)
    BY <1>1, <2>2 DEF Check, Go, Done, Fits, NoRow
  <2> QED BY <2>1, <2>2
<1>3. /\ OwedBy(call[c]) = 0 /\ ~Telling(call[c])
      /\ \A p : ~Replaces(call[c], p)
  BY <1>1 DEF OwedBy, Telling, Replaces, PageKinds
<1>4. CASE call' = [call EXCEPT ![c] = NoCall]
  BY <1>1, <1>3, <1>4, EndKeepsInv
<1>5. ASSUME NEW step \in {"check", "upsert"},
             call' = [call EXCEPT ![c] = [call[c] EXCEPT !.step = step]],
             step = "upsert" => row + call[c].qty <= Limit
      PROVE  CartInv'
  <2> DEFINE k == [call[c] EXCEPT !.step = step]
  <2>0. step \in Steps
    BY DEF Steps
  <2>1. /\ k \in CallRecord /\ k.kind = "add" /\ k.step = step /\ k.qty = call[c].qty
        /\ k.page = call[c].page
    BY <1>1, <2>0, MovedCallIs
  <2> HIDE DEF k
  <2>2. ~CheckingOut(k) /\ ~Telling(k) /\ \A p \in Pages : ~Brings(k, p, row)
    BY <2>1 DEF CheckingOut, Telling, Brings, PageKinds
  <2>4. InOrder(k)
    BY <1>1, <2>1 DEF InOrder
  <2>3. OwedBy(k) <= OwedBy(call[c]) \/ row + OwedBy(k) <= Limit
    BY <1>1, <1>3, <1>5, <2>1 DEF OwedBy
  <2> QED BY <1>1, <1>3, <1>5, <2>1, <2>2, <2>3, <2>4, MoveKeepsInv DEF k
<1> QED BY <1>2, <1>4, <1>5

\* A statement fails, an order is refused, or an update meets no row.
LEMMA FailuresKeepInv ==
  ASSUME CartInv, NEW c \in Calls,
         CallFails(c) \/ OrderRefused(c) \/ (UpdateItemQuantity(c) /\ row = NoRow)
  PROVE  CartInv'
<1>1. /\ call[c] \in CallRecord /\ unsaid \in BOOLEAN /\ row \in Nat
      /\ call[c].step \in {"lookup", "check", "upsert", "write", "read"}
      /\ CartTypeOK /\ Toward(c, "failed")
      /\ UNCHANGED <<row, listed, view, unsaid, sure>>
  BY DEF CartInv, CartTypeOK, CallFails, OrderRefused, UpdateItemQuantity, Is
<1>2. PICK k \in CallRecord :
        /\ call' = [call EXCEPT ![c] = k]
        /\ \/ call[c].page = Nobody /\ k = NoCall
           \/ /\ call[c].page \in Pages /\ k.kind = call[c].kind /\ k.step = "failed"
              /\ k.page = call[c].page /\ k.qty = call[c].qty
  BY <1>1, TowardIs DEF Steps
<1>3. CASE call[c].page = Nobody /\ k = NoCall
  <2>1. ~Telling(call[c]) /\ \A p \in Pages : ~Replaces(call[c], p)
    BY <1>3, CartAssumption DEF Telling, Replaces
  <2>2. OwedBy(k) <= OwedBy(call[c])
    BY <1>1, <1>3, NoCallKeeps DEF OwedBy, CallRecord
  <2> QED BY <1>1, <1>2, <1>3, <2>1, EndKeepsInv
<1>4. CASE /\ call[c].page \in Pages /\ k.kind = call[c].kind /\ k.step = "failed"
           /\ k.page = call[c].page /\ k.qty = call[c].qty
  <2>1. OwedBy(k) <= OwedBy(call[c])
    BY <1>1, <1>4 DEF OwedBy, CallRecord
  <2>2. InOrder(k)
    BY <1>4, CartAssumption DEF InOrder, Asks, CartInv, CallsInOrder
  <2>3. c \in sure /\ CheckingOut(k) => k.qty = row
    BY <1>4 DEF CheckingOut, CartInv, SureCheckouts
  <2>4. \A p \in Pages : ~Brings(k, p, row) /\ (Replaces(call[c], p) => Replaces(k, p))
    BY <1>4 DEF Brings, Replaces
  <2>5. Telling(call[c]) => Telling(k)
    BY <1>1, <1>4 DEF Telling
  <2> QED BY <1>1, <1>2, <1>4, <2>1, <2>2, <2>3, <2>4, <2>5, MoveKeepsInv
<1> QED BY <1>2, <1>3, <1>4

\* The order is created: from now on its units are ordered, and no other check-out knows.
LEMMA OrderCreatedKeepsInv ==
  ASSUME CartInv, NEW c \in Calls, OrderCreated(c)
  PROVE  CartInv'
<1>1. /\ call[c] \in CallRecord /\ call[c].kind = "order" /\ call[c].step = "write"
      /\ CartTypeOK /\ Toward(c, "answered") /\ UNCHANGED <<row, listed, view>>
      /\ unsaid' = (unsaid \/ call[c].page # Nobody) /\ sure' = sure \cap {c}
  BY DEF CartInv, CartTypeOK, OrderCreated, Is
<1>2. PICK k \in CallRecord :
        /\ call' = [call EXCEPT ![c] = k]
        /\ \/ call[c].page = Nobody /\ k = NoCall
           \/ /\ call[c].page \in Pages /\ k.kind = call[c].kind /\ k.step = "answered"
              /\ k.page = call[c].page /\ k.qty = call[c].qty
  BY <1>1, TowardIs DEF Steps
<1>3. Pages \cap sure' = {} /\ sure' \subseteq sure
  BY <1>1, CartAssumption
<1>4. unsaid' \in BOOLEAN
  BY <1>1, Zenon
<1>5. ~Telling(call[c]) /\ OwedBy(call[c]) = 0
  BY <1>1 DEF Telling, OwedBy
<1>6. CASE call[c].page = Nobody /\ k = NoCall
  <2>1. unsaid' => unsaid
    BY <1>1, <1>6
  <2> QED BY <1>1, <1>2, <1>3, <1>4, <1>5, <1>6, <2>1, EndKeepsInv
<1>7. CASE /\ call[c].page \in Pages /\ k.kind = call[c].kind /\ k.step = "answered"
           /\ k.page = call[c].page /\ k.qty = call[c].qty
  <2>1. Telling(k) /\ InOrder(k) /\ OwedBy(k) = 0
    BY <1>1, <1>7 DEF Telling, InOrder, Asks, OwedBy
  <2>2. c \in sure => k.qty = row
    BY <1>1, <1>7 DEF CheckingOut, CartInv, SureCheckouts
  <2>3. OwedBy(k) <= OwedBy(call[c])
    BY <1>5, <1>7, <2>1
  <2> QED BY <1>1, <1>2, <1>3, <1>4, <2>1, <2>2, <2>3, MoveKeepsInv
<1> QED BY <1>2, <1>6, <1>7

\* settle goes on to the DELETE, or stops at a refusal.
LEMMA ClearKeepsInv ==
  ASSUME CartInv, NEW c \in Calls, Clear(c)
  PROVE  CartInv'
<1>1. /\ call[c] \in CallRecord /\ call[c].kind = "order"
      /\ call[c].step \in {"answered", "failed"} /\ call[c].page \in Pages
      /\ unsaid \in BOOLEAN /\ UNCHANGED <<row, listed, view, unsaid, sure>>
  BY DEF CartInv, CartTypeOK, CallsInOrder, InOrder, Clear
<1>2. OwedBy(call[c]) = 0 /\ \A p : ~Replaces(call[c], p)
  BY <1>1 DEF OwedBy, Replaces, PageKinds
<1>3. CASE call[c].step = "failed"
  <2>1. call' = [call EXCEPT ![c] = NoCall]
    BY <1>3 DEF Clear, Done
  <2>2. ~Telling(call[c])
    BY <1>1, <1>3 DEF Telling
  <2> QED BY <1>1, <1>2, <2>1, <2>2, EndKeepsInv
<1>4. CASE call[c].step # "failed"
  <2> DEFINE k == [call[c] EXCEPT !.kind = "clear", !.step = "write"]
  <2>1. /\ k \in CallRecord /\ k.kind = "clear" /\ k.step = "write"
        /\ k.page = call[c].page /\ k.qty = call[c].qty
    BY <1>1 DEF CallRecord, Kinds, Steps
  <2>2. call' = [call EXCEPT ![c] = k]
    BY <1>4 DEF Clear
  <2> HIDE DEF k
  <2>3. Telling(k) /\ InOrder(k) /\ OwedBy(k) = 0 /\ \A p \in Pages : ~Brings(k, p, row)
    BY <1>1, <2>1 DEF Telling, InOrder, Asks, OwedBy, Brings, PageKinds
  <2>4. c \in sure => k.qty = row
    BY <1>1, <2>1 DEF CheckingOut, CartInv, SureCheckouts
  <2>5. OwedBy(k) <= OwedBy(call[c])
    BY <1>2, <2>1, <2>3
  <2> QED BY <1>1, <1>2, <2>1, <2>2, <2>3, <2>4, <2>5, MoveKeepsInv
<1> QED BY <1>3, <1>4
-----------------------------------------------------------------------------
(* Answers, and calls that are given up *)

\* The answer is read: a page that waits for nothing else will show the row.
LEMMA CartResponseKeepsInv ==
  ASSUME CartInv, NEW c \in Calls, CartResponse(c)
  PROVE  CartInv'
<1> DEFINE k == [call[c] EXCEPT !.step = "answered", !.qty = row]
           p == call[c].page
<1>1. /\ call[c] \in CallRecord /\ row \in Nat /\ unsaid \in BOOLEAN /\ listed \in BOOLEAN
      /\ view \in [Pages -> Nat] /\ sure \subseteq Calls \cup Pages
      /\ call[c].step = "read" /\ InOrder(call[c])
      /\ UNCHANGED <<row, listed, view, unsaid>>
      /\ sure' = IF Of(p) = {c} THEN sure \cup {p} ELSE sure \ {p}
  BY DEF CartInv, CartTypeOK, CallsInOrder, CartResponse
<1>2. /\ k \in CallRecord /\ k.kind = call[c].kind /\ k.step = "answered"
      /\ k.page = p /\ k.qty = row
  BY <1>1 DEF CallRecord, Steps
<1>3. p \in Pages /\ call[c].kind \in PageKinds \cup {"clear"}
  BY <1>1 DEF InOrder
<1>4. call' = [call EXCEPT ![c] = k]
  BY DEF CartResponse
<1> HIDE DEF k, p
<1>5. InOrder(k) /\ OwedBy(k) = 0 /\ ~Telling(call[c]) /\ OwedBy(call[c]) \in Nat
  BY <1>1, <1>2, <1>3 DEF InOrder, Asks, OwedBy, Telling, CallRecord, PageKinds
<1>6. /\ sure' \subseteq Calls \cup Pages
      /\ sure' \cap Calls \subseteq sure \cup {c}
  BY <1>1, <1>3, CartAssumption
<1>7. ASSUME NEW q \in Pages \cap sure' PROVE SurePage(q)'
  <2>1. CASE q = p
    <3>1. Of(p) = {c}
      BY <1>1, <2>1
    <3>2. call'[c] = k /\ \A d \in Calls \ {c} : call'[d] = call[d] /\ call[d].page # p
      BY <1>4, <3>1 DEF Of, CartInv, CartTypeOK
    <3>3. \A d \in Calls : ~Brings(call'[d], p, row)
      BY <1>2, <3>2 DEF Brings
    <3>4. Replaces(call'[c], p)
      BY <1>2, <1>3, <3>2 DEF Replaces
    <3> QED BY <1>1, <2>1, <3>3, <3>4 DEF SurePage
  <2>2. CASE q # p
    <3>1. q \in sure /\ ~Brings(k, q, row) /\ ~Replaces(call[c], q)
      BY <1>1, <1>2, <2>2 DEF Brings, Replaces, p
    <3> QED BY <1>1, <1>2, <1>4, <3>1, PageStaysSure
  <2> QED BY <2>1, <2>2
<1>8. OwedBy(k) <= OwedBy(call[c])
  BY <1>5
<1>9. /\ listed' \in BOOLEAN /\ unsaid' \in BOOLEAN /\ view' \in [Pages -> Nat] /\ row' = row
      /\ unsaid' => unsaid
  BY <1>1
<1> QED BY <1>2, <1>4, <1>5, <1>6, <1>7, <1>8, <1>9, OneCallKeepsInv

\* A call of page p ends at the page: what p shows then is the row, or nothing, or p is
\* no longer sure.
LEMMA EndAtPageKeepsInv ==
  ASSUME CartInv, NEW c \in Calls, NEW k \in CallRecord, call' = [call EXCEPT ![c] = k],
         UNCHANGED <<row, listed>>, unsaid' \in BOOLEAN, view' \in [Pages -> Nat],
         sure' \subseteq sure,
         InOrder(k), OwedBy(k) <= OwedBy(call[c]), c \in sure' => ~CheckingOut(k),
         \A p \in Pages \cap sure' : ~Brings(k, p, row),
         \A p \in Pages \cap sure' : p # call[c].page => view'[p] = view[p],
         call[c].page \in sure' => view'[call[c].page] \in {row, NoRow},
         unsaid' => unsaid /\ ~Telling(call[c])
  PROVE  CartInv'
<1>1. listed' \in BOOLEAN /\ row' = row /\ sure' \subseteq Calls \cup Pages
      /\ sure' \cap Calls \subseteq sure \cup {c}
  BY DEF CartInv, CartTypeOK
<1>2. call'[c] = k /\ \A d \in Calls \ {c} : call'[d] = call[d]
  BY DEF CartInv, CartTypeOK
<1>3. ASSUME NEW p \in Pages \cap sure' PROVE SurePage(p)'
  <2>1. CASE p = call[c].page
    <3>1. \A d \in Calls : ~Brings(call'[d], p, row)
      BY <1>2 DEF CartInv, SurePages, SurePage
    <3> QED BY <1>1, <2>1, <3>1 DEF SurePage
  <2>2. CASE p # call[c].page
    <3>1. ~Replaces(call[c], p)
      BY <2>2 DEF Replaces
    <3> QED BY <2>2, <3>1, PageStaysSure
  <2> QED BY <2>1, <2>2
<1> QED BY <1>1, <1>3, OneCallKeepsInv

LEMMA ArriveKeepsInv ==
  ASSUME CartInv, NEW c \in Calls, Arrive(c)
  PROVE  CartInv'
<1> DEFINE p == call[c].page
<1>1. /\ call[c] \in CallRecord /\ unsaid \in BOOLEAN /\ view \in [Pages -> Nat]
      /\ call[c].kind \in PageKinds /\ call[c].step \in {"answered", "failed"} /\ p \in Pages
      /\ UNCHANGED <<row, listed, unsaid>> /\ call' = [call EXCEPT ![c] = NoCall]
  BY DEF CartInv, CartTypeOK, CallsInOrder, InOrder, Arrive, Done, PageKinds
<1>2. ~Telling(call[c]) /\ OwedBy(NoCall) <= OwedBy(call[c])
  BY <1>1, NoCallKeeps DEF Telling, OwedBy, PageKinds, CallRecord
<1>3. CASE call[c].step = "answered"
  <2>1. view' = [view EXCEPT ![p] = call[c].qty] /\ sure' = sure
    BY <1>3 DEF Arrive
  <2>2. view' \in [Pages -> Nat] /\ \A q \in Pages : q # p => view'[q] = view[q]
    BY <1>1, <2>1 DEF CallRecord
  <2>3. p \in sure' => view'[p] = row
    <3>1. p \in sure => ~Brings(call[c], p, row)
      BY <1>1 DEF CartInv, SurePages, SurePage
    <3> QED BY <1>1, <1>3, <2>1, <3>1 DEF Brings
  <2> QED BY <1>1, <1>2, <2>1, <2>2, <2>3, NoCallIs, NoCallKeeps, EndAtPageKeepsInv
<1>4. CASE call[c].step = "failed"
  <2>1. view' = view /\ sure' = sure \ {p}
    BY <1>4 DEF Arrive
  <2> QED BY <1>1, <1>2, <2>1, NoCallIs, NoCallKeeps, EndAtPageKeepsInv
<1> QED BY <1>1, <1>3, <1>4

LEMMA SettledKeepsInv ==
  ASSUME CartInv, NEW c \in Calls, Settled(c)
  PROVE  CartInv'
<1> DEFINE p == call[c].page
<1>1. /\ call[c] \in CallRecord /\ view \in [Pages -> Nat] /\ p \in Pages
      /\ call[c].kind = "clear" /\ call[c].step \in {"answered", "failed"}
      /\ UNCHANGED <<row, listed, sure>> /\ call' = [call EXCEPT ![c] = NoCall]
      /\ view' = [view EXCEPT ![p] = NoRow]
      /\ unsaid' = (unsaid /\ call[c].step = "answered")
  BY DEF CartInv, CartTypeOK, CallsInOrder, InOrder, Settled, Done
<1>2. OwedBy(NoCall) <= OwedBy(call[c])
  BY <1>1, NoCallKeeps DEF OwedBy
<1>3. unsaid' \in BOOLEAN
  BY <1>1, Zenon
<1>4. unsaid' => unsaid /\ ~Telling(call[c])
  BY <1>1 DEF Telling
<1>5. /\ view' \in [Pages -> Nat] /\ \A q \in Pages : q # p => view'[q] = view[q]
      /\ view'[p] = NoRow
  BY <1>1 DEF NoRow
<1> QED BY <1>1, <1>2, <1>3, <1>4, <1>5, NoCallIs, NoCallKeeps, EndAtPageKeepsInv

\* A call without its page: only what it writes is still to come.
LEMMA AbandonedIs ==
  ASSUME CartInv, NEW c \in Calls
  PROVE  /\ Abandoned(c) \in CallRecord /\ Abandoned(c).page \notin Pages
         /\ InOrder(Abandoned(c)) /\ OwedBy(Abandoned(c)) = 0 /\ ~Telling(Abandoned(c))
         /\ \A p \in Pages : \A n : ~Brings(Abandoned(c), p, n)
<1>1. call[c] \in CallRecord /\ InOrder(call[c])
  BY DEF CartInv, CartTypeOK, CallsInOrder
<1>2. CASE call[c].step = "write"
  <2> DEFINE k == [call[c] EXCEPT !.page = Nobody]
  <2>1. Abandoned(c) = k
    BY <1>2 DEF Abandoned
  <2>2. /\ k \in CallRecord /\ k.page = Nobody /\ k.step = "write" /\ k.kind = call[c].kind
        /\ k.qty = call[c].qty /\ Nobody \notin Pages
    BY <1>1, <1>2, CartAssumption DEF CallRecord
  <2> HIDE DEF k
  <2>3. InOrder(k) /\ OwedBy(k) = 0 /\ ~Telling(k) /\ \A p \in Pages : \A n : ~Brings(k, p, n)
    BY <1>1, <1>2, <2>2 DEF InOrder, Asks, OwedBy, Telling, Brings
  <2> QED BY <2>1, <2>2, <2>3
<1>3. CASE call[c].step # "write"
  <2>1. Abandoned(c) = NoCall
    BY <1>3 DEF Abandoned
  <2> QED BY <2>1, NoCallIs, NoCallKeeps
<1> QED BY <1>2, <1>3

LEMMA GiveUpKeepsInv ==
  ASSUME CartInv, NEW c \in Calls, GiveUp(c)
  PROVE  CartInv'
<1> DEFINE p == call[c].page
           k == Abandoned(c)
<1>1. /\ call[c] \in CallRecord /\ view \in [Pages -> Nat] /\ unsaid \in BOOLEAN /\ p \in Pages
      /\ UNCHANGED <<row, listed>> /\ call' = [call EXCEPT ![c] = k]
      /\ view' = IF call[c].kind = "clear" THEN [view EXCEPT ![p] = NoRow] ELSE view
      /\ unsaid' = (unsaid /\ call[c].kind \notin {"order", "clear"})
      /\ sure' = sure \ {c, p}
  BY DEF CartInv, CartTypeOK, CallRecord, GiveUp
<1>2. k \in CallRecord /\ InOrder(k) /\ OwedBy(k) = 0 /\ \A q \in Pages : ~Brings(k, q, row)
  BY AbandonedIs
<1>3. OwedBy(k) <= OwedBy(call[c])
  BY <1>1, <1>2 DEF OwedBy, CallRecord
<1>4. unsaid' \in BOOLEAN
  BY <1>1, Zenon
<1>5. unsaid' => unsaid /\ ~Telling(call[c])
  BY <1>1 DEF Telling
<1>6. view' \in [Pages -> Nat] /\ \A q \in Pages : q # p => view'[q] = view[q]
  BY <1>1 DEF NoRow
<1>7. sure' \subseteq sure /\ c \notin sure' /\ p \notin sure'
  BY <1>1
<1> QED BY <1>1, <1>2, <1>3, <1>4, <1>5, <1>6, <1>7, EndAtPageKeepsInv
-----------------------------------------------------------------------------
(* Calls that change the row *)

LEMMA AddKeepsInv ==
  ASSUME CartInv, NEW c \in Calls, Add(c)
  PROVE  CartInv'
<1> DEFINE n == row + call[c].qty
<1>1. /\ call[c] \in CallRecord /\ row \in Nat /\ call[c].kind = "add" /\ call[c].step = "upsert"
      /\ call' = [call EXCEPT ![c] = NoCall] /\ Change(c, n) /\ UNCHANGED <<listed, view>>
  BY DEF CartInv, CartTypeOK, Add, Is, Done
<1>2. n \in Nat /\ n <= row + OwedBy(call[c])
  BY <1>1 DEF OwedBy, CallRecord
<1>3. call[c].page \notin Pages
  BY <1>1, CartAssumption DEF CartInv, CallsInOrder, InOrder
<1> QED BY <1>1, <1>2, <1>3, NoCallIs, NoCallKeeps, ChangeKeepsInv

\* UpdateItemQuantity with a row, and RemoveItems: the answer that comes next replaces
\* what the page shows.
LEMMA WritesKeepInv ==
  ASSUME CartInv, NEW c \in Calls, (UpdateItemQuantity(c) /\ row # NoRow) \/ RemoveItems(c)
  PROVE  CartInv'
<1>1. /\ call[c] \in CallRecord /\ CartTypeOK /\ row \in Nat
      /\ call[c].kind \in {"update", "remove", "clear"} /\ call[c].step = "write"
      /\ Toward(c, "read") /\ UNCHANGED <<listed, view>>
  BY DEF CartInv, CartTypeOK, UpdateItemQuantity, RemoveItems, Is
<1>2. PICK n \in Nat : Change(c, n) /\ n <= Limit
  <2>1. CASE UpdateItemQuantity(c) /\ row # NoRow
    <3>1. call[c].qty \in Nat /\ call[c].qty <= Limit
      BY <1>1, <2>1 DEF CartInv, CallsInOrder, InOrder, Asks, UpdateItemQuantity, Is, CallRecord
    <3> QED BY <2>1, <3>1 DEF UpdateItemQuantity
  <2>2. CASE RemoveItems(c)
    <3>1. NoRow \in Nat /\ NoRow <= Limit
      BY CartAssumption DEF NoRow
    <3> QED BY <2>2, <3>1 DEF RemoveItems
  <2> QED BY <2>1, <2>2
<1>3. PICK k \in CallRecord :
        /\ call' = [call EXCEPT ![c] = k]
        /\ \/ call[c].page = Nobody /\ k = NoCall
           \/ /\ call[c].page \in Pages /\ k.kind = call[c].kind /\ k.step = "read"
              /\ k.page = call[c].page /\ k.qty = call[c].qty
  BY <1>1, TowardIs DEF Steps
<1>4. CASE call[c].page = Nobody /\ k = NoCall
  BY <1>1, <1>2, <1>3, <1>4, NoCallIs, NoCallKeeps, ChangeKeepsInv
<1>5. CASE /\ call[c].page \in Pages /\ k.kind = call[c].kind /\ k.step = "read"
           /\ k.page = call[c].page /\ k.qty = call[c].qty
  <2>1. InOrder(k) /\ OwedBy(k) = 0 /\ ~CheckingOut(k) /\ Replaces(k, call[c].page)
    BY <1>1, <1>5 DEF InOrder, Asks, OwedBy, CheckingOut, Replaces, PageKinds
  <2> QED BY <1>1, <1>2, <1>3, <1>5, <2>1, ChangeKeepsInv
<1> QED BY <1>3, <1>4, <1>5
-----------------------------------------------------------------------------
(* A page is left *)

\* Leaving a page only takes its own calls along, none of which is a check-out or an add.
LEMMA LeaveKeepsInv ==
  ASSUME CartInv, NEW p \in Pages, Leave(p)
  PROVE  CartInv'
<1>1. /\ Limit \in Nat /\ call \in [Calls -> CallRecord] /\ view \in [Pages -> Nat] /\ row \in Nat
      /\ view' = [view EXCEPT ![p] = NoRow] /\ sure' = sure \ {p}
      /\ UNCHANGED <<row, listed, unsaid>>
      /\ call' = [c \in Calls |-> IF c \in Of(p) /\ call[c].kind \in PageKinds
                                  THEN Abandoned(c) ELSE call[c]]
  BY CartAssumption DEF CartInv, CartTypeOK, Leave, PageKinds
<1>2. ASSUME NEW c \in Calls
      PROVE  \/ call'[c] = call[c]
             \/ /\ call'[c] = Abandoned(c) /\ call[c].kind \in PageKinds
                /\ call[c].page = p
  BY <1>1 DEF Of
<1>3. CartTypeOK'
  <2>1. call' \in [Calls -> CallRecord]
    BY <1>1, <1>2, AbandonedIs
  <2> QED BY <1>1, <2>1 DEF CartInv, CartTypeOK, NoRow
<1>4. CallsInOrder'
  BY <1>2, AbandonedIs DEF CartInv, CallsInOrder
<1>5. Bounded'
  <2>1. \A c \in Calls : OwedBy(call'[c]) = OwedBy(call[c])
    BY <1>2, AbandonedIs DEF OwedBy, PageKinds
  <2>2. Pending(call', Calls) = Pending(call, Calls)
    BY <2>1 DEF Pending
  <2>3. Pending(call, Calls)' = Pending(call', Calls)
    BY DEF Pending
  <2>4. Cardinality(Pending(call, Calls)') = Cardinality(Pending(call, Calls))
    BY <2>2, <2>3, Zenon
  <2> QED BY <1>1, <2>4 DEF CartInv, Bounded
<1>6. SureCheckouts'
  <2> SUFFICES ASSUME NEW c \in Calls, c \in sure', CheckingOut(call'[c])
               PROVE  call'[c].qty = row'
    BY DEF SureCheckouts
  <2>1. call'[c] = call[c]
    <3>1. ASSUME call[c].kind \in PageKinds, call'[c] = Abandoned(c) PROVE FALSE
      BY <3>1, NoCallKeeps, NoCallIs DEF Abandoned, CheckingOut, PageKinds
    <3> QED BY <1>2, <3>1
  <2> QED BY <1>1, <2>1 DEF CartInv, SureCheckouts
<1>7. SurePages'
  <2> SUFFICES ASSUME NEW q \in Pages, q \in sure' PROVE SurePage(q)'
    BY DEF SurePages
  <2>1. q \in sure /\ q # p /\ view'[q] = view[q] /\ SurePage(q)
    BY <1>1 DEF CartInv, SurePages
  <2>2. \A c \in Calls : ~Brings(call'[c], q, row)
    BY <1>2, <2>1, AbandonedIs DEF SurePage
  <2>3. \A c \in Calls : Replaces(call[c], q) => Replaces(call'[c], q)
    BY <1>2, <2>1 DEF Replaces
  <2> QED BY <1>1, <2>1, <2>2, <2>3 DEF SurePage
<1>8. UnsaidIsUnderWay'
  <2>1. \A c \in Calls : Telling(call[c]) => call'[c] = call[c]
    BY <1>2 DEF Telling, PageKinds
  <2> QED BY <1>1, <2>1 DEF CartInv, UnsaidIsUnderWay
<1> QED BY <1>3, <1>4, <1>5, <1>6, <1>7, <1>8 DEF CartInv
-----------------------------------------------------------------------------
(* The invariant *)

LEMMA InitCart == CartInit => CartInv
<1> SUFFICES ASSUME CartInit PROVE CartInv
  OBVIOUS
<1>1. /\ row = 0 /\ listed = TRUE /\ unsaid = FALSE /\ sure = {}
      /\ call = [c \in Calls |-> NoCall] /\ view = [p \in Pages |-> 0]
  BY DEF CartInit, NoRow
<1>2. CartTypeOK
  BY <1>1, NoCallIs DEF CartTypeOK
<1>3. CallsInOrder
  BY <1>1, NoCallKeeps DEF CallsInOrder
<1>4. Bounded
  <2>1. Pending(call, Calls) = {}
    BY <1>1, NoCallKeeps, CartAssumption DEF Pending
  <2>2. Cardinality(Pending(call, Calls)) = Cardinality({})
    BY <2>1, Zenon
  <2>3. Cardinality(Pending(call, Calls)) = 0
    BY <2>2, FS_EmptySet
  <2>4. Limit \in Nat /\ Cardinality(Calls) \in Nat
    BY CartAssumption, FS_CardinalityType
  <2>5. \A m, n \in Nat : 0 <= m * n
    OBVIOUS
  <2> QED BY <1>1, <2>3, <2>4, <2>5 DEF Bounded
<1>5. SureCheckouts /\ SurePages
  BY <1>1 DEF SureCheckouts, SurePages
<1>6. UnsaidIsUnderWay
  BY <1>1 DEF UnsaidIsUnderWay
<1> QED BY <1>2, <1>3, <1>4, <1>5, <1>6 DEF CartInv

LEMMA StutterKeepsCart ==
  ASSUME CartInv, UNCHANGED <<row, call, view, unsaid, sure>>, listed' \in BOOLEAN
  PROVE  CartInv'
<1>1. CartTypeOK' /\ CallsInOrder' /\ SureCheckouts' /\ UnsaidIsUnderWay'
  BY DEF CartInv, CartTypeOK, CallsInOrder, SureCheckouts, UnsaidIsUnderWay
<1>2. Bounded'
  <2>1. Pending(call, Calls)' = Pending(call, Calls)
    BY DEF Pending
  <2>2. Cardinality(Pending(call, Calls)') = Cardinality(Pending(call, Calls))
    BY <2>1, Zenon
  <2> QED BY <2>2 DEF CartInv, Bounded
<1>3. SurePages'
  BY DEF CartInv, SurePages, SurePage
<1> QED BY <1>1, <1>2, <1>3 DEF CartInv

LEMMA CartStep == CartInv /\ [CartNext]_vars => CartInv'
<1> SUFFICES ASSUME CartInv, [CartNext]_vars PROVE CartInv'
  OBVIOUS
<1>1. ASSUME NEW c \in Calls, CallNext(c) PROVE CartInv'
  <2>1. CASE BeginAdd(c)
    BY <2>1, BeginningsKeepInv
  <2>2. CASE LookUp(c) \/ Check(c)
    BY <2>2, ChecksKeepInv
  <2>3. CASE Add(c)
    BY <2>3, AddKeepsInv
  <2>4. CASE UpdateItemQuantity(c)
    BY <2>4, FailuresKeepInv, WritesKeepInv
  <2>5. CASE RemoveItems(c)
    BY <2>5, WritesKeepInv
  <2>6. CASE CartResponse(c)
    BY <2>6, CartResponseKeepsInv
  <2>7. CASE CallFails(c) \/ OrderRefused(c)
    BY <2>7, FailuresKeepInv
  <2>8. CASE Arrive(c)
    BY <2>8, ArriveKeepsInv
  <2>9. CASE OrderCreated(c)
    BY <2>9, OrderCreatedKeepsInv
  <2>10. CASE Clear(c)
    BY <2>10, ClearKeepsInv
  <2>11. CASE Settled(c)
    BY <2>11, SettledKeepsInv
  <2>12. CASE GiveUp(c)
    BY <2>12, GiveUpKeepsInv
  <2> QED BY <1>1, <2>1, <2>2, <2>3, <2>4, <2>5, <2>6, <2>7, <2>8, <2>9, <2>10, <2>11, <2>12
          DEF CallNext
<1>2. ASSUME NEW c \in Calls, NEW p \in Pages,
             Load(c, p) \/ ChangeQty(c, p) \/ RemoveOne(c, p) \/ Settle(c, p)
      PROVE  CartInv'
  BY <1>2, BeginningsKeepInv
<1>3. ASSUME NEW p \in Pages, Leave(p) PROVE CartInv'
  BY <1>3, LeaveKeepsInv
<1>4. CASE DeleteProduct
  BY <1>4, StutterKeepsCart DEF DeleteProduct
<1>5. CASE UNCHANGED vars
  BY <1>5, StutterKeepsCart DEF vars, CartInv, CartTypeOK
<1> QED BY <1>1, <1>2, <1>3, <1>4, <1>5 DEF CartNext

LEMMA CartHolds == CartSpec => []CartInv
<1> QED BY InitCart, CartStep, PTL DEF CartSpec
-----------------------------------------------------------------------------
(* What the cart promises *)

\* The row stays below the limit times the number of calls, however the checks of AddItem
\* (cart_service.go:49-63) interleave with its inserts and with updates and removals.
THEOREM OvershootIsBounded == CartSpec => []OvershootBounded
<1>1. ASSUME CartInv PROVE OvershootBounded
  <2>1. row \in Nat
    BY <1>1 DEF CartInv, CartTypeOK
  <2>2. IsFiniteSet(Pending(call, Calls))
    <3>1. IsFiniteSet(1..Limit) /\ IsFiniteSet(Calls)
      BY CartAssumption, FS_Interval
    <3>2. IsFiniteSet(Calls \X (1..Limit))
      BY <3>1, FS_Product
    <3>3. Pending(call, Calls) \subseteq Calls \X (1..Limit)
      BY DEF Pending
    <3> QED BY <3>2, <3>3, FS_Subset
  <2>3. PICK m \in Nat : m = Cardinality(Pending(call, Calls))
    BY <2>2, FS_CardinalityType
  <2>4. PICK n \in Int : n = Limit * Cardinality(Calls)
    BY CartAssumption, FS_CardinalityType
  <2> QED BY <1>1, <2>1, <2>3, <2>4 DEF CartInv, Bounded, OvershootBounded
<1> QED BY <1>1, CartHolds, PTL

\* A check-out that nobody overtook removes the units it ordered, and none orders the
\* units a second time without another under way or an error shown (settle,
\* shop/src/pages/Cart.jsx:159), for any number of tabs and calls.
THEOREM CheckoutsAreExact == CartSpec => CheckoutIsExact
<1>1. ASSUME CartInv, NEW c \in Calls
      PROVE  /\ Is(c, "clear", "write") /\ call'[c].step = "read" /\ c \in sure
                  => row = call[c].qty
             /\ Is(c, "order", "write") /\ call'[c].step = "answered" /\ unsaid
                  => \E d \in Calls \ {c} : call[d].kind \in {"order", "clear"}
  <2>1. Is(c, "clear", "write") /\ c \in sure => row = call[c].qty
    BY <1>1 DEF CartInv, SureCheckouts, CheckingOut, Is
  <2>2. ASSUME Is(c, "order", "write"), unsaid
        PROVE  \E d \in Calls \ {c} : call[d].kind \in {"order", "clear"}
    <3>1. PICK d \in Calls : Telling(call[d])
      BY <1>1, <2>2 DEF CartInv, UnsaidIsUnderWay
    <3> QED BY <2>2, <3>1 DEF Telling, Is
  <2> QED BY <2>1, <2>2
<1>2. CartInv =>
        [\A c \in Calls :
           /\ Is(c, "clear", "write") /\ call'[c].step = "read" /\ c \in sure
                => row = call[c].qty
           /\ Is(c, "order", "write") /\ call'[c].step = "answered" /\ unsaid
                => \E d \in Calls \ {c} : call[d].kind \in {"order", "clear"}]_vars
  BY <1>1
<1> QED BY <1>2, CartHolds, PTL DEF CheckoutIsExact
=============================================================================
