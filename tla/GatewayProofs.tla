---------------------------- MODULE GatewayProofs ----------------------------
(***************************************************************************)
(* For any number of requests, people, accounts and reseeds: what Gateway   *)
(* keeps has its types and no name two accounts, a status tells what was    *)
(* changed, and a request changes rows of its own caller.                   *)
(***************************************************************************)
EXTENDS Gateway, TLAPS

Kinds == DOMAIN ToGRPCStatus

\* The tables of GatewayRoutes, as sets of strings.
LEMMA KindsAre ==
    Kinds = {"Unknown", "NotFound", "InvalidArgument", "AlreadyExists", "Internal",
             "Unauthorized", "Forbidden", "FailedPrecondition"}
BY DEF Kinds, ToGRPCStatus

LEMMA CodesAre ==
    Codes = {"OK", "NotFound", "InvalidArgument", "AlreadyExists", "Unauthenticated",
             "PermissionDenied", "FailedPrecondition", "DeadlineExceeded", "Unavailable",
             "Canceled", "Internal"}
BY DEF Codes, ToHTTPStatus

LEMMA RoutesAre ==
    Routes = {"GetUser", "Register", "Login", "GetRandomAddress",
              "GetProduct", "CreateProduct", "ListProducts", "UpdateProduct", "DeleteProduct",
              "CreateOrder", "GetOrder", "ListMyOrders", "CancelOrder", "PayOrder",
              "AddCartItem", "ListCart", "UpdateCartItem", "RemoveCartItems"}
BY DEF Routes, UserHandlers, ProductHandlers, OrderHandlers, CartHandlers

LEMMA OkStatus == ASSUME NEW h \in Routes PROVE HandlerOf(h).ok \in {200, 201, 204}
BY RoutesAre DEF HandlerOf, Handler, UserHandlers, ProductHandlers, OrderHandlers, CartHandlers

LEMMA GRPCTable == \A k \in Kinds : ToGRPCStatus[k] \in Codes \ {"OK"}
BY KindsAre, CodesAre DEF ToGRPCStatus

LEMMA HTTPTable ==
    /\ \A c \in Codes : ToHTTPStatus[c] \in Nat
    /\ \A c \in Codes : ToHTTPStatus[c] \in 200..299 => c = "OK"
    /\ \A c \in Codes : ToHTTPStatus[c] \in 400..499 =>
          c \in Codes \ {"OK", "DeadlineExceeded", "Unavailable", "Canceled", "Internal"}
    /\ \A c \in Codes : ToHTTPStatus[c] = 404 => c = "NotFound"
    /\ ToHTTPStatus["DeadlineExceeded"] = 504 /\ ToHTTPStatus["Unavailable"] = 503
    /\ ToHTTPStatus["NotFound"] = 404
BY CodesAre DEF ToHTTPStatus

LEMMA Disjoint == ASSUME NEW h \in Routes
    PROVE /\ MethodOf(h) \in NeedsCaller => h \in Injected /\ h \in BehindAuth
          /\ MethodOf(h) \in Writes \ {"Register"} => MethodOf(h) \in NeedsCaller
          /\ MethodOf(h) = "UpdateProduct" <=> h = "UpdateProduct"
          /\ MethodOf(h) = "Login" <=> h = "Login"
          /\ MethodOf(h) \in Methods
<1>1. DOMAIN CartCalls = {"AddCartItem", "ListCart", "UpdateCartItem", "RemoveCartItems"}
  BY DEF CartCalls
<1>2. NeedsCaller = {"CreateOrder", "GetOrder", "ListMyOrders", "CancelOrder", "PayOrder",
                     "CreateProduct", "UpdateProduct", "DeleteProduct",
                     "AddItem", "ListCart", "UpdateItemQuantity", "RemoveItems"}
  BY <1>1 DEF NeedsCaller, OrderHandlers, CartCalls
<1>3. Injected = {"CreateOrder", "GetOrder", "ListMyOrders", "CancelOrder", "PayOrder",
                  "CreateProduct", "UpdateProduct", "DeleteProduct",
                  "AddCartItem", "ListCart", "UpdateCartItem", "RemoveCartItems"}
  BY DEF Injected, OrderHandlers, CartHandlers
<1>4. h \in DOMAIN CartCalls => MethodOf(h) = CartCalls[h]
  BY DEF MethodOf
<1>5. h \notin DOMAIN CartCalls => MethodOf(h) = h
  BY DEF MethodOf
<1>6. CartCalls["AddCartItem"] = "AddItem" /\ CartCalls["ListCart"] = "ListCart"
      /\ CartCalls["UpdateCartItem"] = "UpdateItemQuantity" /\ CartCalls["RemoveCartItems"] = "RemoveItems"
  BY DEF CartCalls
<1> QED BY <1>1, <1>2, <1>3, <1>4, <1>5, <1>6, RoutesAre DEF BehindAuth, Public, Writes, Methods, UserCalls, ProductCalls, OrderCalls, UserHandlers, ProductHandlers, OrderHandlers

-----------------------------------------------------------------------------
(* The inductive invariant.                                                *)

StoresOK ==
    /\ users \in Seq(People) /\ era \in 0..MaxReseeds /\ seed \in 0..4
    /\ \A v, w \in DOMAIN users : users[v] = users[w] => v = w
    /\ product \in Nat /\ born \in BOOLEAN /\ past \subseteq Nat
    /\ order \in [owner : Nat, status : {"PENDING", "PAID", "CANCELLED"}]
    /\ cart \subseteq Nat

ReqOK == req \in [Requests -> [who : People, route : Routes, step : Steps,
                               token : TokensOf, status : Nat]]
CallOK == call \in [Requests -> [step : CallSteps, code : Codes, token : TokensOf]]
SessionOK == session \in [People -> TokensOf]
ChangeOK == change \in [Requests -> Nat]

\* Of the rows: the seed inserts products only when its accounts are there, and
\* until the first reseed the followed product is its owner's or gone.
Grounds ==
    /\ order.owner # NoRow
    /\ seed = 4 => \A i \in DOMAIN Seeded : HasAccount(Seeded[i])
    /\ seed # 0 => era > 0
    /\ era = 0 => born /\ Shown \subseteq {NoRow, Owner}

\* A token of the current era that names someone names the person who holds it.
Names(t, p) ==
    /\ t.era <= era
    /\ t.uid # SystemUserID /\ t.era = era => t.uid \in DOMAIN users /\ users[t.uid] = p

Sessions == \A p \in People : Names(session[p], p)

Refusals == {"NotFound", "InvalidArgument", "AlreadyExists", "Unauthenticated",
             "PermissionDenied", "FailedPrecondition"}
Lookalike(r, code) == Method(r) = "UpdateProduct" /\ code = "NotFound"
Clear(n) == n \in 200..299 \/ n \in 400..499

\* How the call of a request, its change and its status hang together.
Progress(r) ==
    /\ req[r].step = "idle" => call[r].step = "none"
    /\ call[r].step \in {"none", "arrived", "checked"} => change[r] = NoRow
    /\ call[r].step = "checked" => FromIncoming(r) /\ Method(r) \in Writes
    /\ call[r].step = "done" \/ (call[r].step = "replied" /\ call[r].code = "OK")
          => (Method(r) \in Writes => change[r] # NoRow)
    /\ call[r].step = "replied" /\ call[r].code \in Refusals /\ ~Lookalike(r, call[r].code)
          => change[r] = NoRow
    /\ req[r].step \in {"answered", "heard"} /\ Clear(req[r].status)
          => call[r].step \in {"none", "replied"}

Definite(r) ==
    req[r].step \in {"answered", "heard"} =>
        /\ req[r].status \in 200..299 /\ Method(r) \in Writes => change[r] # NoRow
        /\ req[r].status \in 400..499 /\ ~(Method(r) = "UpdateProduct" /\ req[r].status = 404)
             => change[r] = NoRow

\* Whose the tokens are, and whose the rows that a request changes.
Own(r) ==
    /\ Names(req[r].token, req[r].who) /\ Names(call[r].token, req[r].who)
    /\ call[r].step = "checked" /\ Method(r) \in {"CancelOrder", "PayOrder"}
          => order.owner = Caller(r)
    /\ call[r].step = "checked" /\ Method(r) \in {"UpdateProduct", "DeleteProduct"} /\ era = 0
          => Caller(r) = Owner
    /\ change[r] # NoRow /\ Method(r) # "Register" =>
          /\ Caller(r) # SystemUserID
          /\ change[r] = req[r].token.uid \/ (Method(r) \in ProductCalls /\ era > 0)

Sound(r) == Progress(r) /\ Definite(r) /\ Own(r)

GatewayInv ==
    /\ StoresOK /\ ReqOK /\ CallOK /\ SessionOK /\ ChangeOK
    /\ Grounds /\ Sessions
    /\ \A r \in Requests : Sound(r)

-----------------------------------------------------------------------------
(* What a step leaves alone stays sound.                                    *)

Kept ==
    /\ order'.owner = order.owner
    /\ \/ /\ era' = era
          /\ \A u \in DOMAIN users : u \in DOMAIN users' /\ users'[u] = users[u]
       \/ era' > era /\ era' \in Nat

LEMMA NamesKept ==
    ASSUME Kept, StoresOK, NEW t \in TokensOf, NEW p, Names(t, p)
    PROVE  Names(t, p)'
BY DEF Kept, StoresOK, Names, TokensOf

LEMMA SoundKept ==
    ASSUME Kept, StoresOK, ReqOK, CallOK, NEW q \in Requests, Sound(q),
           req'[q] = req[q], call'[q] = call[q], change'[q] = change[q]
    PROVE  Sound(q)'
<1>1. Progress(q)'
  BY DEF Sound, Progress, FromIncoming, Caller, Method, Lookalike
<1>2. Definite(q)'
  BY DEF Sound, Definite, Method
<1>3. Own(q)'
  <2>1. req[q].token \in TokensOf /\ call[q].token \in TokensOf
    BY DEF ReqOK, CallOK
  <2>2. Names(req[q].token, req[q].who)' /\ Names(call[q].token, req[q].who)'
    BY <2>1, NamesKept DEF Sound, Own, Names
  <2>3. era' >= era /\ era \in Nat /\ era' \in Nat /\ order'.owner = order.owner
    BY DEF Kept, StoresOK
  <2>4. Caller(q)' = Caller(q) /\ Method(q)' = Method(q)
    BY DEF Caller, Method
  <2> QED BY <2>2, <2>3, <2>4 DEF Sound, Own
<1> QED BY <1>1, <1>2, <1>3 DEF Sound

LEMMA SessionsKept ==
    ASSUME Kept, StoresOK, SessionOK, Sessions, session' = session
    PROVE  Sessions'
BY NamesKept DEF Sessions, SessionOK, Names

\* When a step leaves the rows alone.
LEMMA StoresSame ==
    ASSUME UNCHANGED stores, StoresOK, Grounds
    PROVE  StoresOK' /\ Grounds' /\ Kept
BY DEF stores, StoresOK, Grounds, Kept, HasAccount, Shown

LEMMA InitSound == ASSUME GatewayInit PROVE GatewayInv
<1> USE GatewayAssumption
<1>0. NoToken \in TokensOf /\ NoCall = [step |-> "none", code |-> "OK", token |-> NoToken]
  BY DEF NoToken, TokensOf, NoCall, Call, SystemUserID
<1>1. StoresOK
  BY DEF GatewayInit, StoresOK, NoRow
<1>2. ReqOK
  BY <1>0 DEF GatewayInit, ReqOK, Steps
<1>3. CallOK
  BY <1>0, CodesAre DEF GatewayInit, CallOK, CallSteps
<1>4. ChangeOK
  BY DEF GatewayInit, ChangeOK, NoRow
<1>5. ASSUME NEW p \in People
      PROVE  session[p] \in TokensOf /\ Names(session[p], p)
  <2>1. CASE HasAccount(p)
    <3>1. UidOf(p) \in DOMAIN users /\ users[UidOf(p)] = p
      BY <2>1 DEF HasAccount, UidOf
    <3>2. UidOf(p) \in Nat
      BY <3>1 DEF GatewayInit
    <3>3. session[p] = [uid |-> UidOf(p), era |-> 0, live |-> TRUE]
      BY <2>1 DEF GatewayInit, Token
    <3>4. session[p] \in TokensOf
      BY <3>2, <3>3 DEF TokensOf
    <3>5. session[p].era = 0 /\ session[p].uid = UidOf(p) /\ era = 0
      BY <3>3 DEF GatewayInit
    <3> QED BY <3>1, <3>4, <3>5 DEF Names
  <2>2. CASE ~HasAccount(p)
    <3>1. session[p] = NoToken
      BY <2>2 DEF GatewayInit
    <3> QED BY <3>1, <1>0 DEF GatewayInit, Names, NoToken
  <2> QED BY <2>1, <2>2
<1>6. SessionOK
  BY <1>5 DEF GatewayInit, SessionOK
<1>7. Sessions
  BY <1>5 DEF Sessions
<1>8. Grounds
  BY DEF GatewayInit, Grounds, Shown, NoRow
<1>9. ASSUME NEW r \in Requests
      PROVE  Sound(r)
  <2>1. req[r].step = "idle" /\ req[r].token = NoToken
    BY DEF GatewayInit
  <2>2. call[r] = NoCall /\ change[r] = NoRow /\ era = 0
    BY DEF GatewayInit
  <2> QED BY <2>1, <2>2, <1>0 DEF Sound, Progress, Definite, Own, Names, NoToken
<1> QED BY <1>1, <1>2, <1>3, <1>4, <1>6, <1>7, <1>8, <1>9 DEF GatewayInv

-----------------------------------------------------------------------------
(* The gateway and the page.                                                *)

\* A step of the gateway for one request: nothing but req and call changes.
LEMMA GatewayStep ==
    ASSUME GatewayInv, NEW r \in Requests, UNCHANGED <<stores, session, change>>,
           ReqOK', CallOK', Sound(r)',
           \A q \in Requests \ {r} : req'[q] = req[q] /\ call'[q] = call[q]
    PROVE  GatewayInv'
<1>1. StoresOK' /\ Grounds' /\ Kept
  BY StoresSame DEF GatewayInv
<1>2. Sessions'
  BY <1>1, SessionsKept DEF GatewayInv
<1>3. SessionOK' /\ ChangeOK'
  BY DEF GatewayInv, SessionOK, ChangeOK
<1>4. ASSUME NEW q \in Requests \ {r} PROVE Sound(q)'
  BY <1>1, <1>4, SoundKept DEF GatewayInv
<1> QED BY <1>1, <1>2, <1>3, <1>4 DEF GatewayInv

LEMMA CarriedOK ==
    ASSUME GatewayInv, NEW r \in Requests
    PROVE  Carried(r) \in TokensOf /\ Names(Carried(r), req[r].who)
<1>1. req[r].who \in People
  BY DEF GatewayInv, ReqOK
<1>2. session[req[r].who] \in TokensOf /\ Names(session[req[r].who], req[r].who)
  BY <1>1 DEF GatewayInv, SessionOK, Sessions
<1>3. NoToken \in TokensOf /\ Names(NoToken, req[r].who)
  BY DEF NoToken, TokensOf, Names, SystemUserID, GatewayInv, StoresOK
<1> QED BY <1>2, <1>3 DEF Carried

LEMMA RefuseSound ==
    ASSUME GatewayInv, NEW r \in Requests, NEW n \in Nat, Refuse(r, n), n \notin 200..299
    PROVE  GatewayInv'
<1>1. req' = [req EXCEPT ![r].step = "answered", ![r].status = n, ![r].token = Carried(r)]
  BY DEF Refuse, Answer
<1>2. req[r].step = "idle" /\ call' = call /\ UNCHANGED <<stores, session, change>>
  BY DEF Refuse, Answer
<1>3. req \in [Requests -> [who : People, route : Routes, step : Steps, token : TokensOf, status : Nat]]
  BY DEF GatewayInv, ReqOK
<1>4. req'[r] = [req[r] EXCEPT !.step = "answered", !.status = n, !.token = Carried(r)]
  BY <1>1, <1>3
<1>5. ReqOK'
  <2>1. req'[r] = [who |-> req[r].who, route |-> req[r].route, step |-> "answered",
                   token |-> Carried(r), status |-> n]
    BY <1>3, <1>4
  <2>2. req'[r] \in [who : People, route : Routes, step : Steps, token : TokensOf, status : Nat]
    BY <2>1, <1>3, CarriedOK DEF Steps
  <2> QED BY <2>2, <1>1, <1>3 DEF ReqOK
<1>6. CallOK'
  BY <1>2 DEF GatewayInv, CallOK
<1>7. Sound(r)
  BY DEF GatewayInv
<1>8. call[r].step = "none" /\ change[r] = NoRow /\ call'[r] = call[r] /\ change'[r] = change[r]
  BY <1>2, <1>7 DEF Sound, Progress
<1>9. /\ req'[r].who = req[r].who /\ req'[r].route = req[r].route /\ req'[r].step = "answered"
      /\ req'[r].token = Carried(r) /\ req'[r].status = n
  BY <1>4, <1>3
<1>10. Names(req[r].token, req[r].who)' /\ Names(call[r].token, req[r].who)'
  <2>1. Names(Carried(r), req[r].who) /\ Names(call[r].token, req[r].who)
    BY <1>7, CarriedOK DEF Sound, Own
  <2> QED BY <2>1, <1>2, <1>8, <1>9 DEF Names, stores
<1>11. Sound(r)'
  BY <1>8, <1>9, <1>10 DEF Sound, Progress, Definite, Own
<1>12. \A q \in Requests \ {r} : req'[q] = req[q] /\ call'[q] = call[q]
  BY <1>1, <1>2, <1>3
<1> QED BY <1>2, <1>5, <1>6, <1>11, <1>12, GatewayStep

LEMMA SendSound ==
    ASSUME GatewayInv, NEW r \in Requests, Send(r)
    PROVE  GatewayInv'
<1>3. req \in [Requests -> [who : People, route : Routes, step : Steps, token : TokensOf, status : Nat]]
  BY DEF GatewayInv, ReqOK
<1>2. call \in [Requests -> [step : CallSteps, code : Codes, token : TokensOf]]
  BY DEF GatewayInv, CallOK
<1>0. Call("arrived", "OK") = [step |-> "arrived", code |-> "OK", token |-> NoToken] /\ NoToken \in TokensOf
  BY DEF Call, NoToken, TokensOf, SystemUserID
<1>4. req'[r] = [req[r] EXCEPT !.step = "sent", !.token = Carried(r)]
  BY <1>3 DEF Send
<1>5. ReqOK'
  BY <1>3, CarriedOK DEF ReqOK, Steps, Send
<1>6. CallOK'
  BY <1>0, <1>2, CodesAre DEF Send, CallOK, CallSteps
<1>7. Sound(r) /\ req[r].step = "idle"
  BY DEF GatewayInv, Send
<1>8. call'[r] = Call("arrived", "OK") /\ change[r] = NoRow /\ change'[r] = change[r]
  BY <1>2, <1>7 DEF Sound, Progress, Send
<1>9. /\ req'[r].who = req[r].who /\ req'[r].route = req[r].route /\ req'[r].step = "sent"
      /\ req'[r].token = Carried(r)
  BY <1>4, <1>3
<1>10. Names(req[r].token, req[r].who)' /\ Names(call[r].token, req[r].who)'
  <2>1. Names(Carried(r), req[r].who) /\ Names(NoToken, req[r].who)
    BY CarriedOK DEF Names, NoToken, SystemUserID, GatewayInv, StoresOK
  <2> QED BY <2>1, <1>0, <1>8, <1>9 DEF Names, stores, Send
<1>11. Sound(r)'
  BY <1>0, <1>8, <1>9, <1>10 DEF Sound, Progress, Definite, Own
<1>12. \A q \in Requests \ {r} : req'[q] = req[q] /\ call'[q] = call[q]
  BY <1>2, <1>3 DEF Send
<1> QED BY <1>5, <1>6, <1>11, <1>12, GatewayStep DEF Send

Gone == Call("gone", "OK")

LEMMA GoneIs == Gone.step = "gone" /\ Gone.code = "OK" /\ Gone.token = NoToken
                /\ Gone \in [step : CallSteps, code : Codes, token : TokensOf]
<1>1. Gone = [step |-> "gone", code |-> "OK", token |-> NoToken] /\ NoToken \in TokensOf
  BY DEF Gone, Call, NoToken, TokensOf, SystemUserID
<1> QED BY <1>1, CodesAre DEF CallSteps

\* The page has its answer, or is gone: c is what is left of the call.
LEMMA AnswerSound ==
    ASSUME GatewayInv, NEW r \in Requests, NEW n \in Nat, NEW c \in {call[r], Gone},
           req[r].step = "sent", Answer(r, n),
           call' = [call EXCEPT ![r] = c],
           Clear(n) => c = call[r] /\ call[r].step = "replied",
           n \in 200..299 => call[r].code = "OK",
           n \in 400..499 => call[r].code \in Refusals,
           n \in 400..499 /\ Method(r) = "UpdateProduct" /\ call[r].code = "NotFound" => n = 404
    PROVE  GatewayInv'
<1>1. req' = [req EXCEPT ![r].step = "answered", ![r].status = n, ![r].token = req[r].token]
  BY DEF Answer
<1>2. UNCHANGED <<stores, session, change>>
  BY DEF Answer
<1>3. req \in [Requests -> [who : People, route : Routes, step : Steps, token : TokensOf, status : Nat]]
  BY DEF GatewayInv, ReqOK
<1>4. call \in [Requests -> [step : CallSteps, code : Codes, token : TokensOf]]
  BY DEF GatewayInv, CallOK
<1>5. /\ req'[r].who = req[r].who /\ req'[r].route = req[r].route /\ req'[r].step = "answered"
      /\ req'[r].token = req[r].token /\ req'[r].status = n
  BY <1>1, <1>3
<1>6. ReqOK'
  <2> DEFINE f == [req EXCEPT ![r].step = "answered"]
             g == [f EXCEPT ![r].status = n]
  <2>1. f \in [Requests -> [who : People, route : Routes, step : Steps, token : TokensOf, status : Nat]]
    BY <1>3 DEF Steps
  <2>2. req' = [g EXCEPT ![r].token = req[r].token] /\ req[r].token \in TokensOf
    BY <1>1, <1>3
  <2> HIDE DEF f
  <2>3. g \in [Requests -> [who : People, route : Routes, step : Steps, token : TokensOf, status : Nat]]
    BY <2>1
  <2> HIDE DEF g
  <2> QED BY <2>2, <2>3 DEF ReqOK
<1>7. CallOK' /\ call'[r] = c
  BY <1>4, GoneIs DEF CallOK
<1>8. Sound(r) /\ change'[r] = change[r]
  BY <1>2 DEF GatewayInv
<1>9. Names(req[r].token, req[r].who)' /\ Names(call[r].token, req[r].who)'
  <2>0. Names(call[r].token, req[r].who)
    BY <1>8 DEF Sound, Own
  <2>3. Names(NoToken, req[r].who)
    BY DEF Names, NoToken, SystemUserID, GatewayInv, StoresOK
  <2>1. Names(c.token, req[r].who)
    BY <2>0, <2>3, GoneIs
  <2>2. req'[r].token = req[r].token /\ req'[r].who = req[r].who
    BY <1>5
  <2> QED BY <2>1, <2>2, <1>2, <1>7, <1>8 DEF Sound, Own, Names, stores
<1>10. Progress(r)'
  BY <1>5, <1>7, <1>8, GoneIs DEF Sound, Progress, FromIncoming, Caller, Method, Lookalike
<1>11. Definite(r)'
  <2>1. CASE n \in 200..299
    BY <2>1, <1>5, <1>7, <1>8 DEF Sound, Progress, Definite, Method, Clear
  <2>2. CASE n \in 400..499
    BY <2>2, <1>5, <1>7, <1>8 DEF Sound, Progress, Definite, Method, Clear, Lookalike, Refusals
  <2>3. CASE ~Clear(n)
    BY <2>3, <1>5 DEF Definite, Clear
  <2> QED BY <2>1, <2>2, <2>3 DEF Clear
<1>12. Own(r)'
  <2>1. Caller(r)' = Caller(r) /\ Method(r)' = Method(r) /\ era' = era /\ order' = order
    BY <1>2, <1>5 DEF Caller, Method, stores
  <2>2. call'[r].step = "checked" => call[r].step = "checked"
    BY <1>7, GoneIs
  <2> QED BY <1>5, <1>8, <1>9, <2>1, <2>2 DEF Sound, Own
<1>13. Sound(r)'
  BY <1>10, <1>11, <1>12 DEF Sound
<1>14. \A q \in Requests \ {r} : req'[q] = req[q] /\ call'[q] = call[q]
  BY <1>1, <1>3, <1>4
<1> QED BY <1>2, <1>6, <1>7, <1>13, <1>14, GatewayStep

LEMMA HearSound == ASSUME GatewayInv, NEW r \in Requests, Hear(r) PROVE GatewayInv'
<1>1. /\ req[r].step = "sent" /\ call[r].step = "replied"
      /\ Answer(r, StatusOf(r)) /\ call' = call
  BY DEF Hear
<1>2. /\ req[r].route \in Routes /\ call[r].code \in Codes
      /\ call \in [Requests -> [step : CallSteps, code : Codes, token : TokensOf]]
  BY DEF GatewayInv, ReqOK, CallOK
<1>3. call' = [call EXCEPT ![r] = call[r]]
  BY <1>1, <1>2
<1>4. StatusOf(r) \in Nat
  BY <1>2, OkStatus, HTTPTable DEF StatusOf
<1>5. StatusOf(r) \in 200..299 => call[r].code = "OK"
  BY <1>2, HTTPTable DEF StatusOf
<1>6. StatusOf(r) \in 400..499 => call[r].code \in Refusals
  <2>1. HandlerOf(req[r].route).ok \notin 400..499
    BY <1>2, OkStatus
  <2>2. Codes \ {"OK", "DeadlineExceeded", "Unavailable", "Canceled", "Internal"} \subseteq Refusals
    BY CodesAre DEF Refusals
  <2> QED BY <1>2, <2>1, <2>2, HTTPTable DEF StatusOf
<1>7. call[r].code = "NotFound" => StatusOf(r) = 404
  BY HTTPTable DEF StatusOf
<1> QED BY <1>1, <1>3, <1>4, <1>5, <1>6, <1>7, AnswerSound

LEMMA GiveUpSound ==
    ASSUME GatewayInv, NEW r \in Requests, NEW code \in {"DeadlineExceeded", "Unavailable"},
           GiveUp(r, code)
    PROVE  GatewayInv'
<1>1. ToHTTPStatus[code] \in {503, 504}
  BY HTTPTable
<1>2. req[r].step = "sent" /\ Answer(r, ToHTTPStatus[code])
  BY DEF GiveUp
<1>3. call \in [Requests -> [step : CallSteps, code : Codes, token : TokensOf]]
  BY DEF GatewayInv, CallOK
<1>4. PICK c \in {call[r], Gone} : call' = [call EXCEPT ![r] = c]
  <2>1. CASE call[r].step = "replied"
    BY <2>1 DEF GiveUp, Gone
  <2>2. CASE call[r].step # "replied"
    <3>1. call' = [call EXCEPT ![r] = call[r]]
      BY <2>2, <1>3 DEF GiveUp
    <3> QED BY <3>1
  <2> QED BY <2>1, <2>2
<1>5. ToHTTPStatus[code] \in Nat /\ ~Clear(ToHTTPStatus[code])
      /\ ToHTTPStatus[code] \notin 200..299 /\ ToHTTPStatus[code] \notin 400..499
  BY <1>1 DEF Clear
<1> QED BY <1>2, <1>4, <1>5, AnswerSound

LEMMA LeftSound == ASSUME GatewayInv, NEW R \in SUBSET Requests, Left(R) PROVE GatewayInv'
<1>1. UNCHANGED <<stores, session, change>> /\ \A r \in R : req[r].step = "sent"
  BY DEF Left
<1>2. StoresOK' /\ Grounds' /\ Kept
  BY <1>1, StoresSame DEF GatewayInv
<1>3. Sessions' /\ SessionOK' /\ ChangeOK'
  BY <1>1, <1>2, SessionsKept DEF GatewayInv, SessionOK, ChangeOK
<1>4. req \in [Requests -> [who : People, route : Routes, step : Steps, token : TokensOf, status : Nat]]
  BY DEF GatewayInv, ReqOK
<1>5. call \in [Requests -> [step : CallSteps, code : Codes, token : TokensOf]]
  BY DEF GatewayInv, CallOK
<1>6. \A r \in Requests : req'[r] = IF r \in R THEN [req[r] EXCEPT !.step = "left"] ELSE req[r]
  BY DEF Left
<1>7. \A r \in Requests : call'[r] = call[r] \/ (r \in R /\ call'[r] = Gone)
  BY DEF Left, Gone
<1>8. ReqOK'
  <2>1. req' = [r \in Requests |-> IF r \in R THEN [req[r] EXCEPT !.step = "left"] ELSE req[r]]
    BY DEF Left
  <2>2. \A r \in Requests : [req[r] EXCEPT !.step = "left"]
          \in [who : People, route : Routes, step : Steps, token : TokensOf, status : Nat]
    BY <1>4 DEF Steps
  <2> QED BY <2>1, <2>2, <1>4 DEF ReqOK
<1>9. CallOK'
  <2>1. call' = [r \in Requests |-> IF r \in R /\ call[r].step = "replied" THEN Gone ELSE call[r]]
    BY DEF Left, Gone
  <2> QED BY <2>1, <1>5, GoneIs DEF CallOK
<1>10. ASSUME NEW r \in Requests PROVE Sound(r)'
  <2>0. Sound(r) /\ change'[r] = change[r]
    BY <1>1 DEF GatewayInv
  <2>1. CASE r \notin R
    <3>1. req'[r] = req[r] /\ call'[r] = call[r]
      BY <2>1, <1>6, <1>7
    <3> QED BY <3>1, <2>0, <1>2, SoundKept DEF GatewayInv
  <2>2. CASE r \in R
    <3>1. /\ req'[r].who = req[r].who /\ req'[r].route = req[r].route
          /\ req'[r].step = "left" /\ req'[r].token = req[r].token
      BY <2>2, <1>4, <1>6
    <3>2. call'[r] \in {call[r], Gone}
      BY <1>7
    <3>3. Caller(r)' = Caller(r) /\ Method(r)' = Method(r) /\ era' = era /\ users' = users /\ order' = order
      BY <3>1, <1>1 DEF Caller, Method, stores
    <3>4. Progress(r)'
      BY <3>1, <3>2, <3>3, <2>0, GoneIs DEF Sound, Progress, FromIncoming, Lookalike
    <3>5. Names(call[r].token, req[r].who)' /\ Names(req[r].token, req[r].who)'
      <4>1. Names(NoToken, req[r].who)
        BY DEF Names, NoToken, SystemUserID, GatewayInv, StoresOK
      <4>2. Names(call'[r].token, req[r].who) /\ Names(req[r].token, req[r].who)
        BY <4>1, <3>2, <2>0, GoneIs DEF Sound, Own
      <4> QED BY <4>2, <3>1, <3>3 DEF Names
    <3>6. Own(r)'
      BY <3>1, <3>2, <3>3, <3>5, <2>0, GoneIs DEF Sound, Own
    <3>7. Definite(r)'
      BY <3>1 DEF Definite
    <3> QED BY <3>4, <3>6, <3>7 DEF Sound
  <2> QED BY <2>1, <2>2
<1> QED BY <1>2, <1>3, <1>8, <1>9, <1>10 DEF GatewayInv

\* The page keeps the token that Login answered with, or drops the one it has.
LEMMA HeardSound == ASSUME GatewayInv, NEW r \in Requests, Heard(r) PROVE GatewayInv'
<1>1. /\ UNCHANGED <<stores, call, change>> /\ req[r].step = "answered"
      /\ req' = [req EXCEPT ![r].step = "heard"]
  BY DEF Heard
<1>2. StoresOK' /\ Grounds' /\ Kept
  BY <1>1, StoresSame DEF GatewayInv
<1>4. req \in [Requests -> [who : People, route : Routes, step : Steps, token : TokensOf, status : Nat]]
  BY DEF GatewayInv, ReqOK
<1>5. call[r].token \in TokensOf /\ session \in [People -> TokensOf]
  BY DEF GatewayInv, CallOK, SessionOK
<1>6. PICK t \in {NoToken, call[r].token} : session' = [session EXCEPT ![req[r].who] = t]
  BY DEF Heard
<1>7. t \in TokensOf /\ Names(t, req[r].who)
  <2>1. NoToken \in TokensOf /\ Names(NoToken, req[r].who)
    BY DEF Names, NoToken, TokensOf, SystemUserID, GatewayInv, StoresOK
  <2>2. Names(call[r].token, req[r].who)
    BY DEF GatewayInv, Sound, Own
  <2> QED BY <2>1, <2>2, <1>5
<1>8. SessionOK'
  BY <1>5, <1>6, <1>7 DEF SessionOK
<1>9. Sessions'
  <2>1. ASSUME NEW p \in People PROVE Names(session'[p], p)
    BY <1>5, <1>6, <1>7, <1>4 DEF GatewayInv, Sessions
  <2> QED BY <2>1, <1>1 DEF Sessions, Names, stores
<1>10. ReqOK' /\ CallOK' /\ ChangeOK'
  BY <1>1, <1>4 DEF ReqOK, Steps, GatewayInv, CallOK, ChangeOK
<1>11. ASSUME NEW q \in Requests PROVE Sound(q)'
  <2>0. Sound(q) /\ call'[q] = call[q] /\ change'[q] = change[q]
    BY <1>1 DEF GatewayInv
  <2>1. CASE q # r
    BY <2>0, <2>1, <1>1, <1>2, <1>4, SoundKept DEF GatewayInv
  <2>2. CASE q = r
    <3>1. /\ req'[q].who = req[q].who /\ req'[q].route = req[q].route /\ req'[q].step = "heard"
          /\ req'[q].token = req[q].token /\ req'[q].status = req[q].status
      BY <2>2, <1>1, <1>4
    <3>2. Caller(q)' = Caller(q) /\ Method(q)' = Method(q) /\ era' = era /\ users' = users /\ order' = order
      BY <3>1, <1>1 DEF Caller, Method, stores
    <3>3. Progress(q)'
      BY <3>1, <3>2, <2>0, <2>2, <1>1 DEF Sound, Progress, FromIncoming, Lookalike
    <3>4. Definite(q)'
      BY <3>1, <3>2, <2>0, <2>2, <1>1 DEF Sound, Definite
    <3>5. Own(q)'
      BY <3>1, <3>2, <2>0 DEF Sound, Own, Names
    <3> QED BY <3>3, <3>4, <3>5 DEF Sound
  <2> QED BY <2>1, <2>2
<1> QED BY <1>2, <1>8, <1>9, <1>10, <1>11 DEF GatewayInv

LEMMA ExpireSound == ASSUME GatewayInv, NEW p \in People, Expire(p) PROVE GatewayInv'
<1>1. UNCHANGED <<stores, req, call, change>> /\ session' = [session EXCEPT ![p].live = FALSE]
  BY DEF Expire
<1>2. StoresOK' /\ Grounds' /\ Kept
  BY <1>1, StoresSame DEF GatewayInv
<1>3. session \in [People -> TokensOf]
  BY DEF GatewayInv, SessionOK
<1>4. SessionOK'
  BY <1>1, <1>3 DEF SessionOK, TokensOf
<1>5. \A q \in People : session'[q].uid = session[q].uid /\ session'[q].era = session[q].era
  BY <1>1, <1>3 DEF TokensOf
<1>6. Sessions'
  BY <1>1, <1>5 DEF Sessions, Names, stores, GatewayInv
<1>7. ReqOK' /\ CallOK' /\ ChangeOK'
  BY <1>1 DEF GatewayInv, ReqOK, CallOK, ChangeOK
<1>8. \A q \in Requests : Sound(q)'
  BY <1>1, <1>2, SoundKept DEF GatewayInv
<1> QED BY <1>2, <1>4, <1>6, <1>7, <1>8 DEF GatewayInv

-----------------------------------------------------------------------------
(* The services: replies and checks.                                        *)

\* A step of a service that leaves the rows and the request alone.
LEMMA ServiceStep ==
    ASSUME GatewayInv, NEW r \in Requests, UNCHANGED <<stores, session, req, change>>,
           NEW c \in [step : CallSteps, code : Codes, token : TokensOf],
           call' = [call EXCEPT ![r] = c], Sound(r)'
    PROVE  GatewayInv'
<1>1. call \in [Requests -> [step : CallSteps, code : Codes, token : TokensOf]]
  BY DEF GatewayInv, CallOK
<1>2. CallOK'
  BY <1>1 DEF CallOK
<1>3. ReqOK'
  BY DEF GatewayInv, ReqOK
<1>4. \A q \in Requests \ {r} : req'[q] = req[q] /\ call'[q] = call[q]
  BY <1>1
<1> QED BY <1>2, <1>3, <1>4, GatewayStep

LEMMA ReplySound ==
    ASSUME GatewayInv, NEW r \in Requests, NEW code \in Codes,
           Reply(r, code), UNCHANGED <<stores, session, req, change>>,
           call[r].step \in {"arrived", "checked", "done"},
           code = "OK" => call[r].step = "done",
           code \in Refusals /\ ~Lookalike(r, code) => change[r] = NoRow
    PROVE  GatewayInv'
<1>1. call \in [Requests -> [step : CallSteps, code : Codes, token : TokensOf]]
  BY DEF GatewayInv, CallOK
<1>2. PICK c : /\ call' = [call EXCEPT ![r] = c]
               /\ c \in {Gone, [call[r] EXCEPT !.step = "replied", !.code = code]}
  <2>1. CASE req[r].step = "sent"
    <3>1. call' = [call EXCEPT ![r] = [call[r] EXCEPT !.step = "replied", !.code = code]]
      BY <2>1 DEF Reply
    <3> QED BY <3>1
  <2>2. CASE req[r].step # "sent"
    BY <2>2 DEF Reply, Gone
  <2> QED BY <2>1, <2>2
<1>3. call[r] \in [step : CallSteps, code : Codes, token : TokensOf]
  BY <1>1
<1>4. c \in [step : CallSteps, code : Codes, token : TokensOf]
  <2>1. [call[r] EXCEPT !.step = "replied", !.code = code] \in [step : CallSteps, code : Codes, token : TokensOf]
    BY <1>3 DEF CallSteps
  <2> QED BY <2>1, <1>2, GoneIs
<1>5. \/ c.step = "gone" /\ c.code = "OK" /\ c.token = NoToken
      \/ c.step = "replied" /\ c.code = code /\ c.token = call[r].token
  BY <1>2, <1>3, GoneIs
<1>6. call'[r] = c /\ req' = req /\ change' = change /\ stores' = stores
  BY <1>1, <1>2
<1>7. Sound(r)
  BY DEF GatewayInv
<1>8. Caller(r)' = Caller(r) /\ Method(r)' = Method(r) /\ era' = era /\ users' = users /\ order' = order
  BY <1>6 DEF Caller, Method, stores
<1>9. Progress(r)'
  BY <1>5, <1>6, <1>7, <1>8 DEF Sound, Progress, FromIncoming, Lookalike
<1>10. Definite(r)'
  BY <1>6, <1>7, <1>8 DEF Sound, Definite
<1>11. Own(r)'
  <2>1. Names(NoToken, req[r].who)
    BY DEF Names, NoToken, SystemUserID, GatewayInv, StoresOK
  <2>2. Names(c.token, req[r].who) /\ Names(req[r].token, req[r].who)
    BY <2>1, <1>5, <1>7 DEF Sound, Own
  <2>3. Names(call[r].token, req[r].who)' /\ Names(req[r].token, req[r].who)'
    BY <2>2, <1>6, <1>8 DEF Names
  <2> QED BY <2>3, <1>5, <1>6, <1>7, <1>8 DEF Sound, Own
<1>12. Sound(r)'
  BY <1>9, <1>10, <1>11 DEF Sound
<1> QED BY <1>2, <1>4, <1>12, ServiceStep

LEMMA MethodsAre == ASSUME ReqOK, NEW r \in Requests
    PROVE /\ Method(r) \in Methods
          /\ Method(r) \in NeedsCaller => req[r].route \in Injected
          /\ Method(r) \in Writes \ {"Register"} => Method(r) \in NeedsCaller
<1>1. req[r].route \in Routes
  BY DEF ReqOK
<1> QED BY <1>1, Disjoint DEF Method

LEMMA ProductChecksAre ==
    ASSUME NEW r \in Requests, Method(r) \in ProductCalls
    PROVE  /\ ProductChecks(r) \subseteq Kinds \cup {"go"}
           /\ "go" \in ProductChecks(r) /\ Method(r) \in {"UpdateProduct", "DeleteProduct"}
                => Caller(r) \in Shown /\ Caller(r) # NoRow
<1>1. ProductCalls = {"GetProduct", "CreateProduct", "ListProducts", "UpdateProduct", "DeleteProduct"}
  BY DEF ProductCalls, ProductHandlers
<1>2. Ownership(r) \subseteq {"NotFound", "Forbidden", "go"} /\ Looked \subseteq {"NotFound", "go"}
  BY DEF Ownership, Looked
<1>3. "go" \in Ownership(r) => Caller(r) \in Shown /\ Caller(r) # NoRow
  BY DEF Ownership
<1>4. Method(r) = "GetProduct" => ProductChecks(r) = Looked
  BY DEF ProductChecks
<1>5. Method(r) = "ListProducts" => ProductChecks(r) = {"go"}
  BY DEF ProductChecks
<1>6. Method(r) = "CreateProduct" => ProductChecks(r) = {"go", "InvalidArgument"}
  BY DEF ProductChecks
<1>7. Method(r) = "UpdateProduct" => ProductChecks(r) = Ownership(r) \cup {"InvalidArgument"}
  BY DEF ProductChecks
<1>8. Method(r) = "DeleteProduct" => ProductChecks(r) = Ownership(r)
  BY DEF ProductChecks
<1> QED BY <1>1, <1>2, <1>3, <1>4, <1>5, <1>6, <1>7, <1>8, KindsAre

LEMMA ChecksAre ==
    ASSUME ReqOK, NEW r \in Requests
    PROVE  /\ Checks(r) \subseteq Kinds \cup {"go"}
           /\ "go" \in Checks(r) =>
                /\ FromIncoming(r)
                /\ Method(r) = "Login" => HasAccount(req[r].who)
                /\ Method(r) \in {"CancelOrder", "PayOrder"} => order.owner = Caller(r)
                /\ Method(r) \in {"UpdateProduct", "DeleteProduct"}
                     => Caller(r) \in Shown /\ Caller(r) # NoRow
<1>0. /\ UserCalls = {"GetUser", "Register", "Login", "GetRandomAddress"}
      /\ ProductCalls = {"GetProduct", "CreateProduct", "ListProducts", "UpdateProduct", "DeleteProduct"}
      /\ OrderCalls = {"CreateOrder", "GetOrder", "ListMyOrders", "CancelOrder", "PayOrder"}
  BY DEF UserCalls, ProductCalls, OrderCalls, UserHandlers, ProductHandlers, OrderHandlers
<1>1. CASE ~FromIncoming(r)
  <2>1. Checks(r) = {"Unauthorized"}
    BY <1>1 DEF Checks
  <2> QED BY <2>1, KindsAre
<1>2. CASE FromIncoming(r) /\ Method(r) \in UserCalls
  <2>1. Checks(r) = UserChecks(r)
    BY <1>0, <1>2 DEF Checks
  <2>2. Method(r) = "Login" => UserChecks(r) = {"Unauthorized"} \cup (IF HasAccount(req[r].who) THEN {"go"} ELSE {})
    BY DEF UserChecks
  <2>3. Method(r) # "Login" => UserChecks(r) \subseteq {"go", "NotFound"}
    BY DEF UserChecks
  <2> QED BY <1>0, <1>2, <2>1, <2>2, <2>3, KindsAre
<1>3. CASE FromIncoming(r) /\ Method(r) \in ProductCalls
  <2>1. Checks(r) = ProductChecks(r)
    BY <1>0, <1>3 DEF Checks
  <2> QED BY <1>0, <1>3, <2>1, ProductChecksAre
<1>4. CASE FromIncoming(r) /\ Method(r) \in OrderCalls
  <2>1. Checks(r) = OrderChecks(r)
    BY <1>0, <1>4 DEF Checks
  <2>2. Method(r) = "GetOrder" => OrderChecks(r) = {OwnOrder(r)}
    BY DEF OrderChecks
  <2>3. Method(r) \in {"CancelOrder", "PayOrder"} => OrderChecks(r) = {Pending(r)}
    BY DEF OrderChecks
  <2>4. Method(r) \notin {"GetOrder", "CancelOrder", "PayOrder"} => OrderChecks(r) = {"go"}
    BY DEF OrderChecks
  <2>5. OwnOrder(r) \in {"go", "NotFound"}
    BY DEF OwnOrder
  <2>6. Pending(r) \in {"go", "NotFound", "FailedPrecondition"}
        /\ (Pending(r) = "go" => order.owner = Caller(r))
    BY DEF Pending
  <2> QED BY <1>0, <1>4, <2>1, <2>2, <2>3, <2>4, <2>5, <2>6, KindsAre
<1>5. CASE FromIncoming(r) /\ Method(r) \notin UserCalls \cup ProductCalls \cup OrderCalls
  <2>1. Checks(r) = CartChecks(r)
    BY <1>5 DEF Checks
  <2>2. CartChecks(r) \subseteq {"go", "NotFound", "InvalidArgument"}
    BY DEF CartChecks, Looked
  <2> QED BY <1>0, <1>5, <2>1, <2>2, KindsAre
<1> QED BY <1>1, <1>2, <1>3, <1>4, <1>5

LEMMA CheckSound == ASSUME GatewayInv, NEW r \in Requests, Check(r) PROVE GatewayInv'
<1>1. call[r].step = "arrived" /\ UNCHANGED <<stores, session, req, change>>
  BY DEF Check
<1>2. Sound(r) /\ change[r] = NoRow
  BY <1>1 DEF GatewayInv, Sound, Progress
<1> DEFINE tok == IF Method(r) = "Login" THEN Token(UidOf(req[r].who), era) ELSE NoToken
           next == [step |-> IF Method(r) \in Writes THEN "checked" ELSE "done",
                    code |-> "OK", token |-> tok]
<1>3. PICK outcome \in Checks(r) :
        IF outcome # "go" THEN Reply(r, ToGRPCStatus[outcome]) ELSE call' = [call EXCEPT ![r] = next]
  BY DEF Check
<1>4. ReqOK
  BY DEF GatewayInv
<1>5. CASE outcome # "go"
  <2>1. outcome \in Kinds
    BY <1>3, <1>4, <1>5, ChecksAre
  <2>2. ToGRPCStatus[outcome] \in Codes \ {"OK"}
    BY <2>1, GRPCTable
  <2> QED BY <1>1, <1>2, <1>3, <1>5, <2>2, ReplySound
<1>6. CASE outcome = "go"
  <2>1. /\ FromIncoming(r)
        /\ Method(r) = "Login" => HasAccount(req[r].who)
        /\ Method(r) \in {"CancelOrder", "PayOrder"} => order.owner = Caller(r)
        /\ Method(r) \in {"UpdateProduct", "DeleteProduct"} => Caller(r) \in Shown /\ Caller(r) # NoRow
    BY <1>3, <1>4, <1>6, ChecksAre
  <2>2. tok \in TokensOf /\ Names(tok, req[r].who)
    <3>1. NoToken \in TokensOf /\ Names(NoToken, req[r].who)
      BY DEF Names, NoToken, TokensOf, SystemUserID, GatewayInv, StoresOK
    <3>2. CASE Method(r) = "Login"
      <4>1. UidOf(req[r].who) \in DOMAIN users /\ users[UidOf(req[r].who)] = req[r].who
        BY <2>1, <3>2 DEF HasAccount, UidOf
      <4>2. UidOf(req[r].who) \in Nat /\ era \in Nat
        BY <4>1, GatewayAssumption DEF GatewayInv, StoresOK
      <4>3. tok = [uid |-> UidOf(req[r].who), era |-> era, live |-> TRUE]
        BY <3>2 DEF Token
      <4> HIDE DEF tok
      <4>4. tok \in TokensOf
        BY <4>2, <4>3 DEF TokensOf
      <4>5. tok.uid = UidOf(req[r].who) /\ tok.era = era
        BY <4>3
      <4> QED BY <4>1, <4>2, <4>4, <4>5 DEF Names
    <3> QED BY <3>1, <3>2
  <2>3. next \in [step : CallSteps, code : Codes, token : TokensOf]
    <3> HIDE DEF tok
    <3> QED BY <2>2, CodesAre DEF CallSteps
  <2>4. call' = [call EXCEPT ![r] = next]
    BY <1>3, <1>6
  <2>5. call'[r] = next /\ req' = req /\ change' = change /\ stores' = stores
    BY <2>4, <1>1 DEF GatewayInv, CallOK
  <2>6. next.step = (IF Method(r) \in Writes THEN "checked" ELSE "done") /\ next.token = tok
    OBVIOUS
  <2> HIDE DEF tok, next
  <2>7. Caller(r)' = Caller(r) /\ Method(r)' = Method(r) /\ era' = era /\ users' = users /\ order' = order
    BY <2>5 DEF Caller, Method, stores
  <2>8. req[r].step # "idle" /\ ~(req[r].step \in {"answered", "heard"} /\ Clear(req[r].status))
    BY <1>1, <1>2 DEF Sound, Progress
  <2>9. Progress(r)'
    BY <1>2, <2>1, <2>5, <2>6, <2>7, <2>8 DEF Progress, FromIncoming, Lookalike
  <2>10. Definite(r)'
    BY <1>2, <2>5, <2>7 DEF Sound, Definite
  <2>11. Own(r)'
    <3>1. Names(tok, req[r].who) /\ Names(req[r].token, req[r].who)
      BY <1>2, <2>2 DEF Sound, Own
    <3>2. Names(call[r].token, req[r].who)' /\ Names(req[r].token, req[r].who)'
      BY <3>1, <2>5, <2>6, <2>7 DEF Names
    <3>3. Method(r) \in {"UpdateProduct", "DeleteProduct"} /\ era = 0 => Caller(r) = Owner
      BY <2>1 DEF GatewayInv, Grounds, NoRow
    <3> QED BY <3>2, <3>3, <1>2, <2>1, <2>5, <2>6, <2>7 DEF Own
  <2>12. Sound(r)'
    BY <2>9, <2>10, <2>11 DEF Sound
  <2> QED BY <1>1, <2>3, <2>4, <2>12, ServiceStep
<1> QED BY <1>5, <1>6

LEMMA DatabaseFailsSound ==
    ASSUME GatewayInv, NEW r \in Requests, DatabaseFails(r) PROVE GatewayInv'
<1>1. call[r].step \in {"arrived", "checked"} /\ UNCHANGED <<stores, session, req, change>>
  BY DEF DatabaseFails
<1>2. change[r] = NoRow
  BY <1>1 DEF GatewayInv, Sound, Progress
<1>3. PICK code \in {"Unauthenticated", "Internal"} : Reply(r, code)
  BY DEF DatabaseFails
<1>4. code \in Codes
  BY CodesAre
<1> QED BY <1>1, <1>2, <1>3, <1>4, ReplySound

LEMMA FinishSound == ASSUME GatewayInv, NEW r \in Requests, Finish(r) PROVE GatewayInv'
<1>1. call[r].step = "done" /\ UNCHANGED <<stores, session, req, change>>
  BY DEF Finish
<1>2. PICK code \in {"OK", "Internal", "NotFound"} :
        Reply(r, code) /\ (code = "NotFound" => Method(r) = "UpdateProduct")
  BY DEF Finish
<1>3. code \in Codes
  BY CodesAre
<1>4. code \in Refusals => Lookalike(r, code)
  BY <1>2 DEF Refusals, Lookalike
<1> QED BY <1>1, <1>2, <1>3, <1>4, ReplySound

LEMMA WriteRefusedSound ==
    ASSUME GatewayInv, NEW r \in Requests, NEW kind \in Kinds, WriteRefused(r, kind),
           call[r].step = "checked"
    PROVE  GatewayInv'
<1>1. UNCHANGED <<stores, session, req, change>> /\ Reply(r, ToGRPCStatus[kind])
  BY DEF WriteRefused
<1>2. change[r] = NoRow
  BY DEF GatewayInv, Sound, Progress
<1>3. ToGRPCStatus[kind] \in Codes \ {"OK"}
  BY GRPCTable
<1> QED BY <1>1, <1>2, <1>3, ReplySound

-----------------------------------------------------------------------------
(* The services: writes.                                                    *)

\* The write of a request takes effect and changes a row of uid.
LEMMA WrittenSound ==
    ASSUME GatewayInv, NEW r \in Requests, NEW uid \in Nat \ {NoRow}, Written(r, uid),
           call[r].step = "checked", StoresOK', Grounds', Kept,
           Method(r) # "Register" => \/ uid = Caller(r)
                                     \/ Method(r) \in ProductCalls /\ era > 0
    PROVE  GatewayInv'
<1>1. /\ call' = [call EXCEPT ![r].step = "done"]
      /\ change' = [change EXCEPT ![r] = uid]
      /\ UNCHANGED <<era, seed, session, req>>
  BY DEF Written
<1>2. call \in [Requests -> [step : CallSteps, code : Codes, token : TokensOf]]
  BY DEF GatewayInv, CallOK
<1>3. CallOK' /\ ReqOK' /\ SessionOK' /\ ChangeOK'
  BY <1>1, <1>2 DEF GatewayInv, CallOK, CallSteps, ReqOK, SessionOK, ChangeOK
<1>4. Sessions'
  BY <1>1, SessionsKept DEF GatewayInv
<1>5. /\ call'[r].step = "done" /\ call'[r].token = call[r].token /\ change'[r] = uid /\ req' = req
  BY <1>1, <1>2 DEF GatewayInv, ChangeOK
<1>6. Sound(r)
  BY DEF GatewayInv
<1>7. FromIncoming(r) /\ Method(r) \in Writes /\ req[r].step # "idle"
      /\ ~(req[r].step \in {"answered", "heard"} /\ Clear(req[r].status))
  BY <1>6 DEF Sound, Progress
<1>8. Caller(r)' = Caller(r) /\ Method(r)' = Method(r) /\ era' = era /\ order'.owner = order.owner
  BY <1>1 DEF Caller, Method, Kept, GatewayInv, StoresOK
<1>9. Progress(r)'
  BY <1>5, <1>7, <1>8 DEF Progress
<1>10. Definite(r)'
  BY <1>5, <1>7 DEF Definite, Clear
<1>11. Own(r)'
  <2>1. req[r].token \in TokensOf /\ call[r].token \in TokensOf
    BY DEF GatewayInv, ReqOK, CallOK
  <2>2. Names(req[r].token, req[r].who)' /\ Names(call[r].token, req[r].who)'
    <3>1. Names(req[r].token, req[r].who) /\ Names(call[r].token, req[r].who)
      BY <1>6 DEF Sound, Own
    <3>2. \A t \in TokensOf : Names(t, req[r].who) => Names(t, req[r].who)'
      BY <1>5, NamesKept DEF GatewayInv, Names
    <3> QED BY <3>1, <3>2, <2>1, <1>5 DEF Names
  <2>3. Method(r) # "Register" => Caller(r) # SystemUserID /\ Caller(r) = req[r].token.uid
    BY <1>7, MethodsAre DEF FromIncoming, Caller, GatewayInv
  <2> QED BY <1>5, <1>8, <2>2, <2>3 DEF Own
<1>12. Sound(r)'
  BY <1>9, <1>10, <1>11 DEF Sound
<1>13. ASSUME NEW q \in Requests \ {r} PROVE Sound(q)'
  <2>1. req'[q] = req[q] /\ call'[q] = call[q] /\ change'[q] = change[q]
    BY <1>1, <1>2 DEF GatewayInv, ChangeOK
  <2> QED BY <2>1, SoundKept DEF GatewayInv
<1> QED BY <1>3, <1>4, <1>12, <1>13 DEF GatewayInv

\* The rows that the services write.
LEMMA SomeStoresSame ==
    ASSUME StoresOK, Grounds, UNCHANGED <<users, era, seed, order>>,
           product' \in Nat, past' \in SUBSET Nat, born' \in BOOLEAN, cart' \in SUBSET Nat,
           era = 0 => born' /\ Shown' \subseteq {NoRow, Owner}
    PROVE  StoresOK' /\ Grounds' /\ Kept
BY DEF StoresOK, Grounds, Kept, HasAccount

LEMMA UsersGrow ==
    ASSUME StoresOK, Grounds, UNCHANGED <<era, product, born, past, order, cart>>,
           seed' \in 0..4, seed' # 0 => era > 0,
           users' \in Seq(People), Len(users') >= Len(users),
           \A u \in DOMAIN users : users'[u] = users[u],
           \A v, w \in DOMAIN users' : users'[v] = users'[w] => v = w,
           seed' = 4 => \A i \in DOMAIN Seeded : HasAccount(Seeded[i])'
    PROVE  StoresOK' /\ Grounds' /\ Kept
<1>1. \A u \in DOMAIN users : u \in DOMAIN users'
  BY DEF StoresOK
<1>2. Kept
  BY <1>1 DEF Kept
<1>3. StoresOK'
  BY DEF StoresOK
<1>4. Grounds'
  BY DEF Grounds, Shown
<1> QED BY <1>2, <1>3, <1>4

LEMMA AccountsStay ==
    ASSUME StoresOK, Len(users') >= Len(users), users' \in Seq(People),
           \A u \in DOMAIN users : users'[u] = users[u], NEW p, HasAccount(p)
    PROVE  HasAccount(p)'
BY DEF StoresOK, HasAccount

LEMMA RegisterSound == ASSUME GatewayInv, NEW r \in Requests, Register(r) PROVE GatewayInv'
<1>1. call[r].step = "checked" /\ Method(r) = "Register"
  BY DEF Register, At
<1>2. CASE HasAccount(req[r].who)
  <2>1. WriteRefused(r, "AlreadyExists")
    BY <1>2 DEF Register
  <2> QED BY <1>1, <2>1, KindsAre, WriteRefusedSound
<1>3. CASE ~HasAccount(req[r].who)
  <2>1. /\ users' = Append(users, req[r].who) /\ Written(r, Len(users) + 1)
        /\ UNCHANGED <<era, seed, product, born, past, order, cart>>
    BY <1>3 DEF Register, Written
  <2>2. users \in Seq(People) /\ req[r].who \in People
    BY DEF GatewayInv, StoresOK, ReqOK
  <2>3. /\ users' \in Seq(People) /\ Len(users') = Len(users) + 1 /\ Len(users) \in Nat
        /\ \A u \in DOMAIN users : users'[u] = users[u]
        /\ users'[Len(users) + 1] = req[r].who
        /\ DOMAIN users' = DOMAIN users \cup {Len(users) + 1}
    BY <2>1, <2>2
  <2>4. \A v, w \in DOMAIN users' : users'[v] = users'[w] => v = w
    BY <1>3, <2>3 DEF HasAccount, GatewayInv, StoresOK
  <2>5. seed = 4 => \A i \in DOMAIN Seeded : HasAccount(Seeded[i])'
    BY <2>3, AccountsStay DEF GatewayInv, Grounds
  <2>6. seed' \in 0..4 /\ (seed' # 0 => era > 0)
    BY <2>1 DEF GatewayInv, StoresOK, Grounds
  <2>7. StoresOK' /\ Grounds' /\ Kept
    BY <2>1, <2>3, <2>4, <2>5, <2>6, UsersGrow DEF GatewayInv
  <2> QED BY <1>1, <2>1, <2>3, <2>7, WrittenSound DEF NoRow
<1> QED BY <1>2, <1>3

\* Who writes has told who he is.
LEMMA Known ==
    ASSUME GatewayInv, NEW r \in Requests, call[r].step = "checked", Method(r) # "Register"
    PROVE  Caller(r) \in Nat \ {NoRow}
<1>1. FromIncoming(r) /\ Method(r) \in Writes
  BY DEF GatewayInv, Sound, Progress
<1>2. Method(r) \in NeedsCaller /\ req[r].route \in Injected
  BY <1>1, MethodsAre DEF GatewayInv
<1>3. req[r].token \in TokensOf
  BY DEF GatewayInv, ReqOK
<1> QED BY <1>1, <1>2, <1>3 DEF FromIncoming, Caller, NoRow, SystemUserID, TokensOf

LEMMA ShownOK == ASSUME GatewayInv
    PROVE Shown \in SUBSET Nat /\ (era = 0 => born /\ Shown \subseteq {NoRow, Owner})
BY DEF GatewayInv, StoresOK, Grounds, Shown

LEMMA CreateProductSound == ASSUME GatewayInv, NEW r \in Requests, CreateProduct(r) PROVE GatewayInv'
<1>1. /\ call[r].step = "checked" /\ Method(r) = "CreateProduct"
      /\ Written(r, Caller(r)) /\ UNCHANGED <<users, order, cart, era, seed>>
  BY DEF CreateProduct, At, Written
<1>2. Caller(r) \in Nat \ {NoRow}
  BY <1>1, Known
<1>3. product \in Nat /\ past \in SUBSET Nat /\ born \in BOOLEAN /\ cart \in SUBSET Nat
  BY DEF GatewayInv, StoresOK
<1>4. product' \in Nat /\ past' \in SUBSET Nat /\ born' \in BOOLEAN /\ cart' \in SUBSET Nat
  BY <1>1, <1>2, <1>3, ShownOK DEF CreateProduct
<1>5. era = 0 => UNCHANGED <<product, born, past>>
  BY ShownOK DEF CreateProduct
<1>6. era = 0 => born' /\ Shown' \subseteq {NoRow, Owner}
  BY <1>5, ShownOK DEF Shown
<1>7. StoresOK' /\ Grounds' /\ Kept
  BY <1>1, <1>4, <1>6, SomeStoresSame DEF GatewayInv
<1> QED BY <1>1, <1>2, <1>7, WrittenSound

\* Until the first reseed the product belongs to the caller who was let through.
LEMMA OwnerWrites ==
    ASSUME GatewayInv, NEW r \in Requests, call[r].step = "checked",
           Method(r) \in {"UpdateProduct", "DeleteProduct"}, product # NoRow
    PROVE  /\ product \in Nat \ {NoRow}
           /\ product = Caller(r) \/ (Method(r) \in ProductCalls /\ era > 0)
<1>1. product \in Nat /\ era \in Nat
  BY GatewayAssumption DEF GatewayInv, StoresOK
<1>2. era = 0 => product = Owner /\ Caller(r) = Owner
  BY DEF GatewayInv, Grounds, Shown, Sound, Own
<1>3. Method(r) \in ProductCalls
  BY DEF ProductCalls, ProductHandlers
<1> QED BY <1>1, <1>2, <1>3

LEMMA UpdateProductSound == ASSUME GatewayInv, NEW r \in Requests, UpdateProduct(r) PROVE GatewayInv'
<1>1. call[r].step = "checked" /\ Method(r) = "UpdateProduct"
  BY DEF UpdateProduct, At
<1>2. CASE product = NoRow
  <2>1. WriteRefused(r, "NotFound")
    BY <1>2 DEF UpdateProduct
  <2> QED BY <1>1, <2>1, KindsAre, WriteRefusedSound
<1>3. CASE product # NoRow
  <2>1. Written(r, product) /\ UNCHANGED stores
    BY <1>3 DEF UpdateProduct, Written, stores
  <2> QED BY <1>1, <1>3, <2>1, OwnerWrites, StoresSame, WrittenSound DEF GatewayInv
<1> QED BY <1>2, <1>3

LEMMA DeleteProductSound == ASSUME GatewayInv, NEW r \in Requests, DeleteProduct(r) PROVE GatewayInv'
<1>1. call[r].step = "checked" /\ Method(r) = "DeleteProduct"
  BY DEF DeleteProduct, At
<1>2. CASE product = NoRow
  <2>1. WriteRefused(r, "NotFound")
    BY <1>2 DEF DeleteProduct
  <2> QED BY <1>1, <2>1, KindsAre, WriteRefusedSound
<1>3. CASE product # NoRow
  <2>1. /\ product' = NoRow /\ past' = Shown /\ Written(r, product)
        /\ UNCHANGED <<users, born, order, cart, era, seed>>
    BY <1>3 DEF DeleteProduct, Written
  <2>2. product' \in Nat /\ past' \in SUBSET Nat /\ born' \in BOOLEAN /\ cart' \in SUBSET Nat
    BY <2>1, ShownOK DEF NoRow, GatewayInv, StoresOK
  <2>3. era = 0 => born' /\ Shown' \subseteq {NoRow, Owner}
    BY <2>1, ShownOK DEF Shown
  <2>4. StoresOK' /\ Grounds' /\ Kept
    BY <2>1, <2>2, <2>3, SomeStoresSame DEF GatewayInv
  <2> QED BY <1>1, <1>3, <2>1, <2>4, OwnerWrites, WrittenSound
<1> QED BY <1>2, <1>3

LEMMA CreateOrderSound == ASSUME GatewayInv, NEW r \in Requests, CreateOrder(r) PROVE GatewayInv'
<1>1. call[r].step = "checked" /\ Method(r) = "CreateOrder"
  BY DEF CreateOrder, At
<1>2. CASE Written(r, Caller(r)) /\ UNCHANGED <<users, product, born, past, order, cart>>
  <2>1. UNCHANGED stores
    BY <1>2 DEF Written, stores
  <2> QED BY <1>1, <1>2, <2>1, Known, StoresSame, WrittenSound DEF GatewayInv
<1>3. ASSUME NEW code \in {"NotFound", "FailedPrecondition", "DeadlineExceeded", "Unavailable"},
             Reply(r, code), UNCHANGED <<stores, session, req, change>>
      PROVE  GatewayInv'
  <2>1. change[r] = NoRow
    BY <1>1 DEF GatewayInv, Sound, Progress
  <2>2. code \in Codes
    BY CodesAre
  <2> QED BY <1>1, <1>3, <2>1, <2>2, ReplySound
<1> QED BY <1>2, <1>3 DEF CreateOrder

LEMMA TransitionSound ==
    ASSUME GatewayInv, NEW r \in Requests, NEW status \in {"PAID", "CANCELLED"},
           Transition(r, status), call[r].step = "checked", Method(r) \in {"CancelOrder", "PayOrder"}
    PROVE  GatewayInv'
<1>1. CASE order.status # "PENDING"
  <2>1. WriteRefused(r, "FailedPrecondition")
    BY <1>1 DEF Transition
  <2> QED BY <2>1, KindsAre, WriteRefusedSound
<1>2. CASE order.status = "PENDING"
  <2>1. /\ order' = [order EXCEPT !.status = status] /\ Written(r, order.owner)
        /\ UNCHANGED <<users, era, seed, product, born, past, cart>>
    BY <1>2 DEF Transition, Written
  <2>2. order \in [owner : Nat, status : {"PENDING", "PAID", "CANCELLED"}]
    BY DEF GatewayInv, StoresOK
  <2>3. order' \in [owner : Nat, status : {"PENDING", "PAID", "CANCELLED"}] /\ order'.owner = order.owner
    BY <2>1, <2>2
  <2>4. order.owner = Caller(r) /\ order.owner \in Nat \ {NoRow}
    BY <2>2 DEF GatewayInv, Grounds, Sound, Own
  <2>5. StoresOK' /\ Grounds' /\ Kept
    BY <2>1, <2>3 DEF GatewayInv, StoresOK, Grounds, Kept, Shown, HasAccount
  <2> QED BY <2>1, <2>4, <2>5, WrittenSound
<1> QED BY <1>1, <1>2

LEMMA CartWritten ==
    ASSUME GatewayInv, NEW r \in Requests, call[r].step = "checked", Method(r) # "Register",
           Written(r, Caller(r)), UNCHANGED <<users, product, born, past, order>>,
           cart' \in SUBSET (cart \cup {Caller(r)})
    PROVE  GatewayInv'
<1>1. Caller(r) \in Nat \ {NoRow} /\ UNCHANGED <<users, era, seed, order, product, born, past>>
  BY Known DEF Written
<1>2. product' \in Nat /\ past' \in SUBSET Nat /\ born' \in BOOLEAN /\ cart' \in SUBSET Nat
  BY <1>1 DEF GatewayInv, StoresOK
<1>3. era = 0 => born' /\ Shown' \subseteq {NoRow, Owner}
  BY <1>1, ShownOK DEF Shown
<1>4. StoresOK' /\ Grounds' /\ Kept
  BY <1>1, <1>2, <1>3, SomeStoresSame DEF GatewayInv
<1> QED BY <1>1, <1>4, WrittenSound

LEMMA WriteSound == ASSUME GatewayInv, NEW r \in Requests, Write(r) PROVE GatewayInv'
<1>1. CASE Register(r)
  BY <1>1, RegisterSound
<1>2. CASE CreateProduct(r)
  BY <1>2, CreateProductSound
<1>3. CASE UpdateProduct(r)
  BY <1>3, UpdateProductSound
<1>4. CASE DeleteProduct(r)
  BY <1>4, DeleteProductSound
<1>5. CASE CreateOrder(r)
  BY <1>5, CreateOrderSound
<1>6. CASE CancelOrder(r)
  BY <1>6, TransitionSound DEF CancelOrder, At
<1>7. CASE PayOrder(r)
  BY <1>7, TransitionSound DEF PayOrder, At
<1>8. CASE AddItem(r)
  BY <1>8, CartWritten DEF AddItem, At
<1>9. CASE UpdateItemQuantity(r)
  <2>1. call[r].step = "checked" /\ Method(r) = "UpdateItemQuantity"
    BY <1>9 DEF UpdateItemQuantity, At
  <2>2. CASE Caller(r) \notin cart
    <3>1. WriteRefused(r, "NotFound")
      BY <1>9, <2>2 DEF UpdateItemQuantity
    <3> QED BY <2>1, <3>1, KindsAre, WriteRefusedSound
  <2>3. CASE Caller(r) \in cart
    BY <1>9, <2>1, <2>3, CartWritten DEF UpdateItemQuantity
  <2> QED BY <2>2, <2>3
<1>10. CASE RemoveItems(r)
  BY <1>10, CartWritten DEF RemoveItems, At
<1> QED BY <1>1, <1>2, <1>3, <1>4, <1>5, <1>6, <1>7, <1>8, <1>9, <1>10 DEF Write

-----------------------------------------------------------------------------
(* The seed program.                                                        *)

\* A statement of the seed program leaves requests and pages alone.
LEMMA SeedStepSound ==
    ASSUME GatewayInv, UNCHANGED <<session, req, call, change>>, StoresOK', Grounds', Kept
    PROVE  GatewayInv'
<1>1. Sessions' /\ SessionOK' /\ ReqOK' /\ CallOK' /\ ChangeOK'
  BY SessionsKept DEF GatewayInv, SessionOK, ReqOK, CallOK, ChangeOK
<1>2. \A q \in Requests : Sound(q)'
  BY SoundKept DEF GatewayInv
<1> QED BY <1>1, <1>2 DEF GatewayInv

LEMMA SeedSound == ASSUME GatewayInv, Seed PROVE GatewayInv'
<1> USE GatewayAssumption
<1>0. StoresOK /\ Grounds /\ Shown \in SUBSET Nat /\ (era = 0 => born /\ Shown \subseteq {NoRow, Owner})
  BY ShownOK DEF GatewayInv
<1>1. CASE TruncateUsers
  <2>1. /\ era < MaxReseeds /\ seed' = 1 /\ era' = era + 1 /\ users' = <<>>
        /\ UNCHANGED <<session, req, call, change, product, born, past, order, cart>>
    BY <1>1 DEF TruncateUsers, SeedStep
  <2>2. era \in Nat /\ era' \in 0..MaxReseeds /\ era' > 0
    BY <2>1, <1>0 DEF StoresOK
  <2>3. users' \in Seq(People) /\ DOMAIN users' = {}
    BY <2>1
  <2>4. StoresOK'
    BY <2>1, <2>2, <2>3, <1>0 DEF StoresOK
  <2>5. Grounds'
    BY <2>1, <2>2, <1>0 DEF Grounds
  <2>6. Kept
    BY <2>1, <2>2 DEF Kept
  <2> QED BY <2>1, <2>4, <2>5, <2>6, SeedStepSound
<1>2. CASE TruncateProducts
  <2>1. /\ seed = 1 /\ seed' = 2 /\ product' = NoRow /\ born' = FALSE /\ past' = Shown
        /\ UNCHANGED <<session, req, call, change, users, era, order, cart>>
    BY <1>2 DEF TruncateProducts, SeedStep
  <2>4. born' \in BOOLEAN
    BY <2>1
  <2>5. product' \in Nat /\ past' \in SUBSET Nat
    BY <2>1, <1>0 DEF NoRow
  <2>2. StoresOK'
    BY <2>1, <2>4, <2>5, <1>0 DEF StoresOK
  <2>3. Grounds' /\ Kept
    BY <2>1, <1>0 DEF StoresOK, Grounds, Kept
  <2> QED BY <2>1, <2>2, <2>3, SeedStepSound
<1>3. CASE TruncateCarts
  <2>1. /\ seed = 2 /\ seed' = 3 /\ cart' = {}
        /\ UNCHANGED <<session, req, call, change, users, era, product, born, past, order>>
    BY <1>3 DEF TruncateCarts, SeedStep
  <2>2. StoresOK'
    BY <2>1, <1>0 DEF StoresOK
  <2>3. Grounds' /\ Kept
    BY <2>1, <1>0 DEF Grounds, Kept, Shown
  <2> QED BY <2>1, <2>2, <2>3, SeedStepSound
<1>4. CASE InsertUsers
  <2>1. /\ seed = 3 /\ seed' = 4 /\ users' = users \o Seeded
        /\ \A i \in DOMAIN Seeded : ~HasAccount(Seeded[i])
        /\ UNCHANGED <<session, req, call, change, era, product, born, past, order, cart>>
    BY <1>4 DEF InsertUsers, SeedStep
  <2>2. users \in Seq(People) /\ Seeded \in Seq(People)
    BY <1>0 DEF StoresOK
  <2>3. /\ users' \in Seq(People) /\ Len(users') = Len(users) + Len(Seeded)
        /\ Len(users) \in Nat /\ Len(Seeded) \in Nat
        /\ DOMAIN users = 1..Len(users) /\ DOMAIN users' = 1..Len(users') /\ DOMAIN Seeded = 1..Len(Seeded)
        /\ \A u \in 1..Len(users') : users'[u] = IF u <= Len(users) THEN users[u] ELSE Seeded[u - Len(users)]
    BY <2>1, <2>2
  <2>4. ASSUME NEW v \in DOMAIN users', NEW w \in DOMAIN users', users'[v] = users'[w]
        PROVE  v = w
    <3>1. CASE v <= Len(users) /\ w <= Len(users)
      BY <2>3, <2>4, <3>1, <1>0 DEF StoresOK
    <3>2. CASE v > Len(users) /\ w > Len(users)
      <4>1. v - Len(users) \in DOMAIN Seeded /\ w - Len(users) \in DOMAIN Seeded
        BY <2>3, <3>2
      <4>2. Seeded[v - Len(users)] = Seeded[w - Len(users)]
        BY <2>3, <2>4, <3>2
      <4>3. v - Len(users) = w - Len(users)
        BY <4>1, <4>2
      <4> QED BY <2>3, <4>3
    <3>3. CASE v <= Len(users) /\ w > Len(users)
      <4>1. w - Len(users) \in DOMAIN Seeded /\ v \in DOMAIN users /\ users[v] = Seeded[w - Len(users)]
        BY <2>3, <2>4, <3>3
      <4> QED BY <2>1, <4>1 DEF HasAccount
    <3>4. CASE v > Len(users) /\ w <= Len(users)
      <4>1. v - Len(users) \in DOMAIN Seeded /\ w \in DOMAIN users /\ users[w] = Seeded[v - Len(users)]
        BY <2>3, <2>4, <3>4
      <4> QED BY <2>1, <4>1 DEF HasAccount
    <3> QED BY <2>3, <3>1, <3>2, <3>3, <3>4
  <2>5. ASSUME NEW i \in DOMAIN Seeded PROVE HasAccount(Seeded[i])'
    <3>1. Len(users) + i \in DOMAIN users' /\ users'[Len(users) + i] = Seeded[i]
      BY <2>3
    <3> QED BY <3>1 DEF HasAccount
  <2>6. StoresOK' /\ Grounds' /\ Kept
    <3>1. seed' \in 0..4 /\ (seed' # 0 => era > 0) /\ UNCHANGED <<era, product, born, past, order, cart>>
      BY <2>1, <1>0 DEF Grounds
    <3>2. Len(users') >= Len(users) /\ \A u \in DOMAIN users : users'[u] = users[u]
      BY <2>3
    <3>3. \A v, w \in DOMAIN users' : users'[v] = users'[w] => v = w
      BY <2>4
    <3>4. seed' = 4 => \A i \in DOMAIN Seeded : HasAccount(Seeded[i])'
      BY <2>5
    <3> QED BY <1>0, <2>3, <3>1, <3>2, <3>3, <3>4, UsersGrow
  <2> QED BY <2>1, <2>6, SeedStepSound
<1>5. CASE InsertProducts
  <2>1. /\ seed = 4 /\ seed' = 0 /\ UNCHANGED <<users, era, order, cart, session, req, call, change>>
    BY <1>5 DEF InsertProducts
  <2>2. era > 0
    BY <2>1, <1>0 DEF Grounds
  <2>3. product' \in Nat /\ past' \in SUBSET Nat /\ born' \in BOOLEAN
    <3>1. CASE UNCHANGED <<product, born, past>>
      BY <3>1, <1>0 DEF StoresOK
    <3>2. CASE ~UNCHANGED <<product, born, past>>
      <4>1. PICK i \in DOMAIN Seeded : product' = UidOf(Seeded[i])
        BY <1>5, <3>2 DEF InsertProducts
      <4>2. HasAccount(Seeded[i])
        BY <2>1, <1>0 DEF Grounds
      <4>3. UidOf(Seeded[i]) \in DOMAIN users
        BY <4>2 DEF HasAccount, UidOf
      <4>4. product' \in Nat
        BY <4>1, <4>3, <1>0 DEF StoresOK
      <4> QED BY <4>4, <1>0, <1>5, <3>2 DEF InsertProducts
    <3> QED BY <3>1, <3>2
  <2>4. StoresOK'
    BY <2>1, <2>3, <1>0 DEF StoresOK
  <2>5. Grounds' /\ Kept
    BY <2>1, <2>2, <1>0 DEF StoresOK, Grounds, Kept
  <2> QED BY <2>1, <2>4, <2>5, SeedStepSound
<1>6. CASE SeedFails
  <2>1. seed' = 0 /\ UNCHANGED <<users, era, product, born, past, order, cart, session, req, call, change>>
    BY <1>6 DEF SeedFails
  <2>2. StoresOK' /\ Grounds' /\ Kept
    BY <2>1, <1>0 DEF StoresOK, Grounds, Kept, Shown
  <2> QED BY <2>1, <2>2, SeedStepSound
<1> QED BY <1>1, <1>2, <1>3, <1>4, <1>5, <1>6 DEF Seed

-----------------------------------------------------------------------------
LEMMA RequestSound == ASSUME GatewayInv, NEW r \in Requests, RequestNext(r) PROVE GatewayInv'
<1>1. CASE RateLimited(r)
  BY <1>1, RefuseSound DEF RateLimited
<1>2. CASE NotLoggedIn(r)
  BY <1>2, RefuseSound DEF NotLoggedIn
<1>3. CASE BadInput(r)
  BY <1>3, RefuseSound DEF BadInput
<1>4. CASE BreakerOpen(r)
  <2>1. ToHTTPStatus["Unavailable"] = 503
    BY HTTPTable
  <2> QED BY <1>4, <2>1, RefuseSound DEF BreakerOpen
<1>5. CASE Send(r)
  BY <1>5, SendSound
<1>6. CASE Check(r)
  BY <1>6, CheckSound
<1>7. CASE DatabaseFails(r)
  BY <1>7, DatabaseFailsSound
<1>8. CASE Write(r)
  BY <1>8, WriteSound
<1>9. CASE Finish(r)
  BY <1>9, FinishSound
<1>10. CASE Hear(r)
  BY <1>10, HearSound
<1>11. CASE Deadline(r) \/ Lost(r)
  BY <1>11, GiveUpSound DEF Deadline, Lost
<1>12. CASE Left({r})
  BY <1>12, LeftSound
<1>13. CASE Heard(r)
  BY <1>13, HeardSound
<1> QED BY <1>1, <1>2, <1>3, <1>4, <1>5, <1>6, <1>7, <1>8, <1>9, <1>10, <1>11, <1>12, <1>13 DEF RequestNext

LEMMA StutterSound == ASSUME GatewayInv, UNCHANGED vars PROVE GatewayInv'
<1>1. UNCHANGED <<stores, session, req, call, change>>
  BY DEF vars
<1>2. StoresOK' /\ Grounds' /\ Kept
  BY <1>1, StoresSame DEF GatewayInv
<1> QED BY <1>1, <1>2, SeedStepSound

LEMMA StepSound == ASSUME GatewayInv, [GatewayNext]_vars PROVE GatewayInv'
<1>1. CASE \E r \in Requests : RequestNext(r)
  BY <1>1, RequestSound
<1>2. CASE GatewayExits
  BY <1>2, LeftSound DEF GatewayExits
<1>3. CASE \E p \in People : Expire(p)
  BY <1>3, ExpireSound
<1>4. CASE Seed
  BY <1>4, SeedSound
<1>5. CASE UNCHANGED vars
  BY <1>5, StutterSound
<1> QED BY <1>1, <1>2, <1>3, <1>4, <1>5 DEF GatewayNext

-----------------------------------------------------------------------------
(* The theorems.                                                            *)

LEMMA Invariance == GatewaySpec => []GatewayInv
<1>1. GatewayInit => GatewayInv
  BY InitSound
<1>2. GatewayInv /\ [GatewayNext]_vars => GatewayInv'
  BY StepSound
<1> QED BY <1>1, <1>2, PTL DEF GatewaySpec

\* Every variable keeps its type and no name ever has two accounts, whatever is
\* refused, lost or reseeded (user_service.go Register, seed main.go).
THEOREM NoNameTwice == GatewaySpec => []GatewayTypeOK
<1>1. GatewayInv => GatewayTypeOK
  BY DEF GatewayInv, StoresOK, ReqOK, CallOK, SessionOK, ChangeOK, GatewayTypeOK
<1> QED BY <1>1, Invariance, PTL

\* For any number of requests the status that a page gets tells what happened to
\* the rows: a 2xx of a writing route changed them, a 4xx did not and never will,
\* however late a call is executed (handler.go, respondGRPCError).
THEOREM StatusTellsTheTruth == GatewaySpec => []DefiniteAnswers
<1>1. GatewayInv => DefiniteAnswers
  BY DEF GatewayInv, Sound, Definite, DefiniteAnswers
<1> QED BY <1>1, Invariance, PTL

\* For any number of requests and people a request changes rows of its caller
\* only, and the id in its token is the account of the person who asks as long as
\* the ids were not given out anew (jwt.go, identity.go, checkOwnership).
THEOREM NobodyChangesForOthers == GatewaySpec => []ChangesAreOwn
<1>1. GatewayInv => ChangesAreOwn
  <2>1. ASSUME GatewayInv, NEW r \in Requests, change[r] # NoRow, Method(r) # "Register"
        PROVE  /\ change[r] = req[r].token.uid \/ (Method(r) \in ProductCalls /\ era > 0)
               /\ req[r].token.era = era => users[req[r].token.uid] = req[r].who
    <3>1. Own(r)
      BY <2>1 DEF GatewayInv, Sound
    <3>2. Caller(r) # SystemUserID
      BY <2>1, <3>1 DEF Own
    <3>3. req[r].token.uid # SystemUserID
      BY <3>2 DEF Caller
    <3> QED BY <2>1, <3>1, <3>3 DEF Own, Names
  <2> QED BY <2>1 DEF ChangesAreOwn
<1> QED BY <1>1, Invariance, PTL

-----------------------------------------------------------------------------
(* A live token is not turned away.                                         *)

\* A live token names a user, is carried where the router asks for one only, and is
\* answered neither by Unauthenticated nor by 401.
Signed(t) == t.live => t.uid # SystemUserID
Welcome(r) ==
    /\ Signed(req[r].token) /\ Signed(call[r].token)
    /\ req[r].token.live =>
         /\ req[r].route \in BehindAuth
         /\ call[r].step = "replied" => call[r].code # "Unauthenticated"
         /\ req[r].step = "answered" => req[r].status # 401
SessionsSigned == \A p \in People : Signed(session[p])
Welcomed == SessionsSigned /\ \A r \in Requests : Welcome(r)

LEMMA NoTokenSigned == Signed(NoToken) /\ ~NoToken.live /\ NoToken.uid = SystemUserID
BY DEF Signed, NoToken

LEMMA InitWelcomed == ASSUME GatewayInit PROVE Welcomed
<1>1. ASSUME NEW p \in People PROVE Signed(session[p])
  <2>1. CASE HasAccount(p)
    <3>1. UidOf(p) \in DOMAIN users
      BY <2>1 DEF HasAccount, UidOf
    <3>2. UidOf(p) # 0
      BY <3>1, GatewayAssumption DEF GatewayInit
    <3>3. session[p] = [uid |-> UidOf(p), era |-> 0, live |-> TRUE]
      BY <2>1 DEF GatewayInit, Token
    <3> QED BY <3>2, <3>3 DEF Signed, SystemUserID
  <2>2. CASE ~HasAccount(p)
    BY <2>2, NoTokenSigned DEF GatewayInit
  <2> QED BY <2>1, <2>2
<1>2. ASSUME NEW r \in Requests PROVE Welcome(r)
  <2>1. req[r].token = NoToken /\ call[r].token = NoToken
    BY DEF GatewayInit, NoCall, Call
  <2> QED BY <2>1, NoTokenSigned DEF Welcome
<1> QED BY <1>1, <1>2 DEF Welcomed, SessionsSigned

\* A step for one request that leaves the sessions alone.
LEMMA OneWelcome ==
    ASSUME Welcomed, NEW r \in Requests, session' = session, Welcome(r)',
           \A q \in Requests \ {r} : req'[q] = req[q] /\ call'[q] = call[q]
    PROVE  Welcomed'
<1>1. SessionsSigned'
  BY DEF Welcomed, SessionsSigned
<1>2. ASSUME NEW q \in Requests PROVE Welcome(q)'
  <2>1. CASE q # r
    BY <2>1 DEF Welcomed, Welcome
  <2> QED BY <2>1
<1> QED BY <1>1, <1>2 DEF Welcomed

-----------------------------------------------------------------------------
(* The services do not turn it away.                                        *)

LEMMA CallWelcome ==
    ASSUME GatewayInv, Welcomed, NEW r \in Requests, UNCHANGED <<session, req>>,
           NEW c, call' = [call EXCEPT ![r] = c], Signed(c.token),
           req[r].token.live /\ c.step = "replied" => c.code # "Unauthenticated"
    PROVE  Welcomed'
<1>1. call'[r] = c /\ req'[r] = req[r]
      /\ \A q \in Requests \ {r} : req'[q] = req[q] /\ call'[q] = call[q]
  BY DEF GatewayInv, CallOK
<1>2. Welcome(r)'
  BY <1>1 DEF Welcomed, Welcome
<1> QED BY <1>1, <1>2, OneWelcome

LEMMA ReplyWelcome ==
    ASSUME GatewayInv, Welcomed, NEW r \in Requests, NEW code, Reply(r, code),
           UNCHANGED <<session, req>>, req[r].token.live => code # "Unauthenticated"
    PROVE  Welcomed'
<1>1. call[r] \in [step : CallSteps, code : Codes, token : TokensOf] /\ Signed(call[r].token)
  BY DEF GatewayInv, CallOK, Welcomed, Welcome
<1>2. CASE req[r].step = "sent"
  <2> DEFINE c == [call[r] EXCEPT !.step = "replied", !.code = code]
  <2>1. call' = [call EXCEPT ![r] = c]
    BY <1>2 DEF Reply
  <2>2. c.code = code /\ c.token = call[r].token
    BY <1>1
  <2> HIDE DEF c
  <2> QED BY <1>1, <2>1, <2>2, CallWelcome
<1>3. CASE req[r].step # "sent"
  <2>1. call' = [call EXCEPT ![r] = Gone]
    BY <1>3 DEF Reply, Gone
  <2> QED BY <2>1, GoneIs, NoTokenSigned, CallWelcome
<1> QED BY <1>2, <1>3

\* Who has a token that is live is somebody, and does not log in with it.
LEMMA LiveCaller ==
    ASSUME GatewayInv, Welcomed, NEW r \in Requests, req[r].token.live
    PROVE  FromIncoming(r) /\ Method(r) # "Login"
<1>1. req[r].route \in Routes /\ req[r].route \in BehindAuth /\ req[r].token.uid # SystemUserID
  BY DEF GatewayInv, ReqOK, Welcomed, Welcome, Signed
<1>2. FromIncoming(r)
  BY <1>1, Disjoint DEF FromIncoming, Caller, Method
<1>3. Method(r) # "Login"
  BY <1>1, Disjoint DEF Method, BehindAuth, Public
<1> QED BY <1>2, <1>3

LEMMA NobodyUnknown ==
    ASSUME NEW r \in Requests, FromIncoming(r), Method(r) \in Methods, Method(r) # "Login"
    PROVE  "Unauthorized" \notin Checks(r)
<1>0. /\ UserCalls = {"GetUser", "Register", "Login", "GetRandomAddress"}
      /\ ProductCalls = {"GetProduct", "CreateProduct", "ListProducts", "UpdateProduct", "DeleteProduct"}
      /\ OrderCalls = {"CreateOrder", "GetOrder", "ListMyOrders", "CancelOrder", "PayOrder"}
  BY DEF UserCalls, ProductCalls, OrderCalls, UserHandlers, ProductHandlers, OrderHandlers
<1>1. CASE Method(r) \in UserCalls
  <2>1. Checks(r) = UserChecks(r)
    BY <1>0, <1>1 DEF Checks
  <2>2. UserChecks(r) \subseteq {"go", "NotFound"}
    BY DEF UserChecks
  <2> QED BY <2>1, <2>2
<1>2. CASE Method(r) \in ProductCalls
  <2>1. Checks(r) = ProductChecks(r)
    BY <1>0, <1>2 DEF Checks
  <2>2. Ownership(r) \subseteq {"NotFound", "Forbidden", "go"} /\ Looked \subseteq {"NotFound", "go"}
    BY DEF Ownership, Looked
  <2>3. ProductChecks(r) \in {Looked, {"go"}, {"go", "InvalidArgument"},
                              Ownership(r) \cup {"InvalidArgument"}, Ownership(r)}
    BY <1>0, <1>2 DEF ProductChecks
  <2> QED BY <2>1, <2>2, <2>3
<1>3. CASE Method(r) \in OrderCalls
  <2>1. Checks(r) = OrderChecks(r)
    BY <1>0, <1>3 DEF Checks
  <2>2. OwnOrder(r) \in {"go", "NotFound"} /\ Pending(r) \in {"go", "NotFound", "FailedPrecondition"}
    BY DEF OwnOrder, Pending
  <2>3. OrderChecks(r) \in {{OwnOrder(r)}, {Pending(r)}, {"go"}}
    BY <1>0, <1>3 DEF OrderChecks
  <2> QED BY <2>1, <2>2, <2>3
<1>4. CASE Method(r) \notin UserCalls \cup ProductCalls \cup OrderCalls
  <2>1. Checks(r) = CartChecks(r)
    BY <1>4 DEF Checks
  <2>2. CartChecks(r) \subseteq {"go", "NotFound", "InvalidArgument"}
    BY DEF CartChecks, Looked
  <2> QED BY <2>1, <2>2
<1> QED BY <1>1, <1>2, <1>3, <1>4

LEMMA CheckWelcome ==
    ASSUME GatewayInv, Welcomed, NEW r \in Requests, Check(r)
    PROVE  Welcomed'
<1>1. UNCHANGED <<session, req>> /\ ReqOK
  BY DEF Check, GatewayInv
<1> DEFINE tok == IF Method(r) = "Login" THEN Token(UidOf(req[r].who), era) ELSE NoToken
           next == [step |-> IF Method(r) \in Writes THEN "checked" ELSE "done",
                    code |-> "OK", token |-> tok]
<1>2. PICK outcome \in Checks(r) :
        IF outcome # "go" THEN Reply(r, ToGRPCStatus[outcome]) ELSE call' = [call EXCEPT ![r] = next]
  BY DEF Check
<1>3. CASE outcome # "go"
  <2>1. outcome \in Kinds
    BY <1>1, <1>2, <1>3, ChecksAre
  <2>2. ToGRPCStatus[outcome] = "Unauthenticated" => outcome = "Unauthorized"
    BY <2>1, KindsAre DEF ToGRPCStatus
  <2>3. req[r].token.live => outcome # "Unauthorized"
    BY <1>1, <1>2, LiveCaller, NobodyUnknown, MethodsAre
  <2> QED BY <1>1, <1>2, <1>3, <2>2, <2>3, ReplyWelcome
<1>4. CASE outcome = "go"
  <2>1. Signed(tok)
    <3>1. CASE Method(r) = "Login"
      <4>1. UidOf(req[r].who) \in DOMAIN users
        BY <1>1, <1>2, <1>4, <3>1, ChecksAre DEF HasAccount, UidOf
      <4>2. UidOf(req[r].who) # 0
        BY <4>1 DEF GatewayInv, StoresOK
      <4>3. tok = [uid |-> UidOf(req[r].who), era |-> era, live |-> TRUE]
        BY <3>1 DEF Token
      <4> QED BY <4>2, <4>3 DEF Signed, SystemUserID
    <3>2. CASE Method(r) # "Login"
      BY <3>2, NoTokenSigned
    <3> QED BY <3>1, <3>2
  <2>2. next.step # "replied" /\ next.token = tok
    OBVIOUS
  <2>3. call' = [call EXCEPT ![r] = next]
    BY <1>2, <1>4
  <2> HIDE DEF tok, next
  <2> QED BY <1>1, <2>1, <2>2, <2>3, CallWelcome
<1> QED BY <1>3, <1>4

LEMMA WrittenWelcome ==
    ASSUME GatewayInv, Welcomed, NEW r \in Requests, UNCHANGED <<session, req>>,
           call' = [call EXCEPT ![r].step = "done"]
    PROVE  Welcomed'
<1> DEFINE c == [call[r] EXCEPT !.step = "done"]
<1>1. call[r] \in [step : CallSteps, code : Codes, token : TokensOf] /\ Signed(call[r].token)
  BY DEF GatewayInv, CallOK, Welcomed, Welcome
<1>2. call' = [call EXCEPT ![r] = c] /\ c.step = "done" /\ c.token = call[r].token
  BY <1>1
<1> HIDE DEF c
<1> QED BY <1>1, <1>2, CallWelcome

\* A write succeeds, or answers with an error that is not about the caller.
LEMMA WriteEnds ==
    ASSUME NEW r \in Requests, Write(r)
    PROVE  /\ UNCHANGED <<session, req>>
           /\ \/ call' = [call EXCEPT ![r].step = "done"]
              \/ \E code \in Codes \ {"Unauthenticated"} : Reply(r, code)
<1>1. ASSUME NEW kind \in {"AlreadyExists", "NotFound", "FailedPrecondition"}
      PROVE  WriteRefused(r, kind)
               => UNCHANGED <<session, req>> /\ \E code \in Codes \ {"Unauthenticated"} : Reply(r, code)
  <2>1. ToGRPCStatus[kind] \in Codes \ {"Unauthenticated"}
    BY CodesAre DEF ToGRPCStatus
  <2> QED BY <2>1 DEF WriteRefused
<1>2. \A uid : Written(r, uid)
                 => UNCHANGED <<session, req>> /\ call' = [call EXCEPT ![r].step = "done"]
  BY DEF Written
<1>3. CASE CreateOrder(r)
  BY <1>2, <1>3, CodesAre DEF CreateOrder
<1>4. ASSUME NEW status, Transition(r, status)
      PROVE  (\E uid : Written(r, uid)) \/ WriteRefused(r, "FailedPrecondition")
  BY <1>4 DEF Transition
<1>5. CASE CancelOrder(r) \/ PayOrder(r)
  BY <1>1, <1>2, <1>4, <1>5 DEF CancelOrder, PayOrder
<1>6. CASE ~(CreateOrder(r) \/ CancelOrder(r) \/ PayOrder(r))
  BY <1>1, <1>2, <1>6 DEF Write, Register, CreateProduct, UpdateProduct, DeleteProduct,
                          AddItem, UpdateItemQuantity, RemoveItems
<1> QED BY <1>3, <1>5, <1>6

LEMMA ServiceWelcome ==
    ASSUME GatewayInv, Welcomed, NEW r \in Requests,
           Check(r) \/ DatabaseFails(r) \/ Write(r) \/ Finish(r)
    PROVE  Welcomed'
<1>1. CASE Check(r)
  BY <1>1, CheckWelcome
<1>2. CASE DatabaseFails(r)
  <2>1. PICK code : Reply(r, code) /\ (Method(r) = "Login" \/ code = "Internal")
    BY <1>2 DEF DatabaseFails
  <2>2. req[r].token.live => code # "Unauthenticated"
    BY <2>1, LiveCaller
  <2> QED BY <1>2, <2>1, <2>2, ReplyWelcome DEF DatabaseFails
<1>3. CASE Write(r)
  <2>1. CASE call' = [call EXCEPT ![r].step = "done"]
    BY <1>3, <2>1, WriteEnds, WrittenWelcome
  <2>2. ASSUME NEW code \in Codes \ {"Unauthenticated"}, Reply(r, code) PROVE Welcomed'
    BY <1>3, <2>2, WriteEnds, ReplyWelcome
  <2> QED BY <1>3, <2>1, <2>2, WriteEnds
<1>4. CASE Finish(r)
  <2>1. PICK code \in {"OK", "Internal", "NotFound"} : Reply(r, code)
    BY <1>4 DEF Finish
  <2> QED BY <1>4, <2>1, ReplyWelcome DEF Finish
<1> QED BY <1>1, <1>2, <1>3, <1>4

-----------------------------------------------------------------------------
(* The gateway does not turn it away, and the page keeps it.                *)

LEMMA CarriedSigned ==
    ASSUME GatewayInv, Welcomed, NEW r \in Requests
    PROVE  /\ Signed(Carried(r))
           /\ Carried(r).live => req[r].route \in BehindAuth /\ Authorized(r)
BY NoTokenSigned DEF GatewayInv, ReqOK, Welcomed, SessionsSigned, Carried, Authorized

LEMMA PageWelcome ==
    ASSUME GatewayInv, Welcomed, NEW r \in Requests, session' = session,
           req'[r].route = req[r].route,
           \/ req'[r].token = req[r].token
           \/ req'[r].token = Carried(r) /\ call'[r].step # "replied",
           call'[r] = call[r] \/ (call'[r].token = NoToken /\ call'[r].step # "replied"),
           req'[r].step = "answered" /\ req'[r].token.live => req'[r].status # 401,
           \A q \in Requests \ {r} : req'[q] = req[q] /\ call'[q] = call[q]
    PROVE  Welcomed'
<1>1. Welcome(r) /\ Signed(NoToken)
  BY NoTokenSigned DEF Welcomed
<1>2. Signed(req'[r].token) /\ (req'[r].token.live => req[r].route \in BehindAuth)
  BY <1>1, CarriedSigned DEF Welcome
<1>3. Signed(call'[r].token)
  BY <1>1 DEF Welcome
<1>4. req'[r].token.live /\ call'[r].step = "replied" => call'[r].code # "Unauthenticated"
  BY <1>1 DEF Welcome
<1>5. Welcome(r)'
  BY <1>2, <1>3, <1>4 DEF Welcome, Signed
<1> QED BY <1>5, OneWelcome

\* Answer, as the facts that PageWelcome asks for.
LEMMA AnswerIs ==
    ASSUME GatewayInv, NEW r \in Requests, NEW n, Answer(r, n)
    PROVE  /\ session' = session
           /\ req'[r].route = req[r].route /\ req'[r].step = "answered" /\ req'[r].status = n
           /\ req'[r].token = IF req[r].step = "idle" THEN Carried(r) ELSE req[r].token
           /\ \A q \in Requests \ {r} : req'[q] = req[q]
<1> DEFINE t == IF req[r].step = "idle" THEN Carried(r) ELSE req[r].token
<1>1. req \in [Requests -> [who : People, route : Routes, step : Steps, token : TokensOf, status : Nat]]
  BY DEF GatewayInv, ReqOK
<1>2. req' = [req EXCEPT ![r].step = "answered", ![r].status = n, ![r].token = t] /\ session' = session
  BY <1>1 DEF Answer
<1> HIDE DEF t
<1>3. /\ req'[r].route = req[r].route /\ req'[r].step = "answered" /\ req'[r].status = n
      /\ req'[r].token = t /\ \A q \in Requests \ {r} : req'[q] = req[q]
  BY <1>1, <1>2
<1> QED BY <1>2, <1>3 DEF t

LEMMA RefuseWelcome ==
    ASSUME GatewayInv, Welcomed, NEW r \in Requests, NEW n, Refuse(r, n),
           n = 401 => ~Authorized(r)
    PROVE  Welcomed'
<1>1. req[r].step = "idle" /\ Answer(r, n) /\ call' = call
  BY DEF Refuse
<1>2. call'[r].step = "none"
  BY <1>1 DEF GatewayInv, Sound, Progress
<1>3. Carried(r).live => n # 401
  BY CarriedSigned
<1> QED BY <1>1, <1>2, <1>3, AnswerIs, PageWelcome

LEMMA SendWelcome ==
    ASSUME GatewayInv, Welcomed, NEW r \in Requests, Send(r)
    PROVE  Welcomed'
<1>1. req' = [req EXCEPT ![r].step = "sent", ![r].token = Carried(r)] /\ session' = session
      /\ call' = [call EXCEPT ![r] = Call("arrived", "OK")]
  BY DEF Send
<1>2. /\ req'[r].route = req[r].route /\ req'[r].step = "sent" /\ req'[r].token = Carried(r)
      /\ call'[r] = Call("arrived", "OK")
      /\ \A q \in Requests \ {r} : req'[q] = req[q] /\ call'[q] = call[q]
  BY <1>1 DEF GatewayInv, ReqOK, CallOK
<1>3. Call("arrived", "OK").token = NoToken /\ Call("arrived", "OK").step = "arrived"
  BY DEF Call
<1> QED BY <1>1, <1>2, <1>3, PageWelcome

LEMMA HearWelcome ==
    ASSUME GatewayInv, Welcomed, NEW r \in Requests, Hear(r)
    PROVE  Welcomed'
<1>1. req[r].step = "sent" /\ call[r].step = "replied" /\ Answer(r, StatusOf(r)) /\ call' = call
  BY DEF Hear
<1>2. call[r].code \in Codes /\ req[r].route \in Routes
  BY DEF GatewayInv, CallOK, ReqOK
<1>3. StatusOf(r) = 401 => call[r].code = "Unauthenticated"
  <2>1. HandlerOf(req[r].route).ok # 401
    BY <1>2, OkStatus
  <2>2. ToHTTPStatus[call[r].code] = 401 => call[r].code = "Unauthenticated"
    BY <1>2, CodesAre DEF ToHTTPStatus
  <2> QED BY <2>1, <2>2 DEF StatusOf
<1>4. req[r].token.live => StatusOf(r) # 401
  BY <1>1, <1>3 DEF Welcomed, Welcome
<1> QED BY <1>1, <1>4, AnswerIs, PageWelcome

LEMMA GiveUpWelcome ==
    ASSUME GatewayInv, Welcomed, NEW r \in Requests,
           NEW code \in {"DeadlineExceeded", "Unavailable"}, GiveUp(r, code)
    PROVE  Welcomed'
<1>1. req[r].step = "sent" /\ Answer(r, ToHTTPStatus[code]) /\ ToHTTPStatus[code] # 401
  BY HTTPTable DEF GiveUp
<1>2. /\ call'[r] = call[r] \/ call'[r] = Gone
      /\ \A q \in Requests \ {r} : call'[q] = call[q]
  BY DEF GiveUp, Gone, GatewayInv, CallOK
<1> QED BY <1>1, <1>2, GoneIs, AnswerIs, PageWelcome

LEMMA LeftWelcome ==
    ASSUME GatewayInv, Welcomed, NEW R \in SUBSET Requests, Left(R)
    PROVE  Welcomed'
<1>1. session' = session
  BY DEF Left
<1>2. ASSUME NEW r \in Requests PROVE Welcome(r)'
  <2>1. /\ req'[r].route = req[r].route /\ req'[r].token = req[r].token
        /\ req'[r] = req[r] \/ req'[r].step = "left"
    BY DEF Left, GatewayInv, ReqOK
  <2>2. call'[r] = call[r] \/ call'[r] = Gone
    BY DEF Left, Gone
  <2>3. Signed(call'[r].token) /\ (call'[r].step = "replied" => call'[r] = call[r])
    BY <2>2, GoneIs, NoTokenSigned DEF Welcomed, Welcome
  <2> QED BY <2>1, <2>3 DEF Welcomed, Welcome
<1> QED BY <1>1, <1>2 DEF Welcomed, SessionsSigned

LEMMA HeardWelcome ==
    ASSUME GatewayInv, Welcomed, NEW r \in Requests, Heard(r)
    PROVE  Welcomed'
<1>1. call' = call /\ req' = [req EXCEPT ![r].step = "heard"]
  BY DEF Heard
<1>2. PICK t \in {NoToken, call[r].token} : session' = [session EXCEPT ![req[r].who] = t]
  BY DEF Heard
<1>3. Signed(t)
  BY <1>2, NoTokenSigned DEF Welcomed, Welcome
<1>4. SessionsSigned'
  BY <1>2, <1>3 DEF GatewayInv, SessionOK, Welcomed, SessionsSigned
<1>5. ASSUME NEW q \in Requests PROVE Welcome(q)'
  <2>1. /\ req'[q].route = req[q].route /\ req'[q].token = req[q].token
        /\ req'[q] = req[q] \/ req'[q].step = "heard"
    BY <1>1 DEF GatewayInv, ReqOK
  <2> QED BY <1>1, <2>1 DEF Welcomed, Welcome
<1> QED BY <1>4, <1>5 DEF Welcomed

LEMMA ExpireWelcome ==
    ASSUME GatewayInv, Welcomed, NEW p \in People, Expire(p)
    PROVE  Welcomed'
<1>1. session' = [session EXCEPT ![p].live = FALSE] /\ req' = req /\ call' = call
  BY DEF Expire
<1>2. \A q \in People : session'[q] = session[q] \/ ~session'[q].live
  BY <1>1 DEF GatewayInv, SessionOK, TokensOf
<1>3. SessionsSigned'
  BY <1>2 DEF Welcomed, SessionsSigned, Signed
<1> QED BY <1>1, <1>3 DEF Welcomed, Welcome

LEMMA SameWelcome ==
    ASSUME Welcomed, UNCHANGED <<session, req, call>>
    PROVE  Welcomed'
BY DEF Welcomed, SessionsSigned, Welcome

LEMMA StepWelcome ==
    ASSUME GatewayInv, Welcomed, [GatewayNext]_vars
    PROVE  Welcomed'
<1>1. ASSUME NEW r \in Requests, RequestNext(r) PROVE Welcomed'
  <2>1. CASE RateLimited(r) \/ NotLoggedIn(r) \/ BadInput(r) \/ BreakerOpen(r)
    BY <2>1, RefuseWelcome, HTTPTable DEF RateLimited, NotLoggedIn, BadInput, BreakerOpen
  <2>2. CASE Send(r)
    BY <2>2, SendWelcome
  <2>3. CASE Check(r) \/ DatabaseFails(r) \/ Write(r) \/ Finish(r)
    BY <2>3, ServiceWelcome
  <2>4. CASE Hear(r)
    BY <2>4, HearWelcome
  <2>5. CASE Deadline(r) \/ Lost(r)
    BY <2>5, GiveUpWelcome DEF Deadline, Lost
  <2>6. CASE Left({r})
    BY <2>6, LeftWelcome
  <2>7. CASE Heard(r)
    BY <2>7, HeardWelcome
  <2> QED BY <1>1, <2>1, <2>2, <2>3, <2>4, <2>5, <2>6, <2>7 DEF RequestNext
<1>2. CASE GatewayExits
  BY <1>2, LeftWelcome DEF GatewayExits
<1>3. CASE \E p \in People : Expire(p)
  BY <1>3, ExpireWelcome
<1>4. CASE Seed
  BY <1>4, SameWelcome DEF Seed, SeedStep, TruncateUsers, TruncateProducts, TruncateCarts,
                           InsertUsers, InsertProducts, SeedFails
<1>5. CASE UNCHANGED vars
  BY <1>5, SameWelcome DEF vars
<1> QED BY <1>1, <1>2, <1>3, <1>4, <1>5 DEF GatewayNext

LEMMA TokensAreWelcome == GatewaySpec => []Welcomed
<1>1. GatewayInit => Welcomed
  BY InitWelcomed
<1>2. GatewayInv /\ Welcomed /\ [GatewayNext]_vars => Welcomed'
  BY StepWelcome
<1> QED BY <1>1, <1>2, Invariance, PTL DEF GatewaySpec

\* Only a page that hears an answer, or the end of a token, changes a session.
LEMMA SessionSteps ==
    ASSUME [GatewayNext]_vars, session' # session
    PROVE  (\E r \in Requests : Heard(r)) \/ (\E p \in People : Expire(p))
<1>1. ASSUME NEW r \in Requests, RequestNext(r), ~Heard(r) PROVE FALSE
  <2>1. CASE RateLimited(r) \/ NotLoggedIn(r) \/ BadInput(r) \/ BreakerOpen(r)
    BY <2>1 DEF RateLimited, NotLoggedIn, BadInput, BreakerOpen, Refuse, Answer
  <2>2. CASE Send(r) \/ Check(r) \/ DatabaseFails(r) \/ Finish(r)
    BY <2>2 DEF Send, Check, DatabaseFails, Finish
  <2>3. CASE Write(r)
    BY <2>3, WriteEnds
  <2>4. CASE Hear(r) \/ Deadline(r) \/ Lost(r)
    BY <2>4 DEF Hear, Deadline, Lost, GiveUp, Answer
  <2>5. CASE Left({r})
    BY <2>5 DEF Left
  <2> QED BY <1>1, <2>1, <2>2, <2>3, <2>4, <2>5 DEF RequestNext
<1>2. ~GatewayExits
  BY DEF GatewayExits, Left
<1>3. ~Seed
  BY DEF Seed, SeedStep, TruncateUsers, TruncateProducts, TruncateCarts, InsertUsers,
         InsertProducts, SeedFails
<1>4. ~UNCHANGED vars
  BY DEF vars
<1> QED BY <1>1, <1>2, <1>3, <1>4 DEF GatewayNext

\* For any number of requests and people, a page that holds a live token loses it only to
\* the answer of a request that carried another one, however answers, logins, reseeds and
\* the ends of tokens interleave (router.go, identity.FromIncoming, request.js).
THEOREM ValidTokensStay == GatewaySpec => SessionEndsWithItsToken
<1>1. ASSUME GatewayInv, Welcomed, [GatewayNext]_vars,
             NEW p \in People, session[p].live, session'[p] = NoToken
      PROVE  \E r \in Requests : /\ req[r].who = p /\ req'[r].step = "heard"
                                 /\ req[r].step = "answered" /\ req[r].token # session[p]
  <2>1. session[p] # NoToken /\ session[p].uid # SystemUserID /\ session \in [People -> TokensOf]
    BY <1>1, NoTokenSigned DEF GatewayInv, SessionOK, Welcomed, SessionsSigned, Signed
  <2>2. ASSUME NEW q \in People, Expire(q) PROVE FALSE
    <3>1. session'[p].uid = session[p].uid
      BY <2>1, <2>2 DEF Expire, TokensOf
    <3> QED BY <1>1, <2>1, <3>1, NoTokenSigned
  <2>3. PICK r \in Requests : Heard(r)
    BY <1>1, <2>1, <2>2, SessionSteps
  <2>4. req[r].step = "answered" /\ (req[r].status = 401 \/ req[r].route = "Login")
    BY <2>3 DEF Heard
  <2>7. req'[r].step = "heard"
    <3>1. req' = [req EXCEPT ![r].step = "heard"]
      BY <2>3 DEF Heard
    <3>2. req \in [Requests -> [who : People, route : Routes, step : Steps, token : TokensOf, status : Nat]]
      BY <1>1 DEF GatewayInv, ReqOK
    <3> QED BY <3>1, <3>2
  <2>5. req[r].who = p
    BY <1>1, <2>1, <2>3 DEF Heard, GatewayInv, ReqOK
  <2>6. ~req[r].token.live
    BY <1>1, <2>4 DEF Welcomed, Welcome, BehindAuth, Public
  <2> QED BY <1>1, <2>4, <2>5, <2>6, <2>7
<1>2. GatewayInv /\ Welcomed /\ [GatewayNext]_vars =>
        [\A p \in People : session[p].live /\ session'[p] = NoToken =>
           \E r \in Requests : /\ req[r].who = p /\ req'[r].step = "heard" /\ req[r].step = "answered"
                               /\ req[r].token # session[p]]_vars
  BY <1>1
<1> QED BY <1>2, Invariance, TokensAreWelcome, PTL DEF GatewaySpec, SessionEndsWithItsToken
=============================================================================
