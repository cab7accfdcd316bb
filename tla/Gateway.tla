------------------------------- MODULE Gateway -------------------------------
(***************************************************************************)
(* Requests on their way through the api-gateway to the handlers of user-, *)
(* product- and order-service and back, each made once by a person's page. *)
(* Behind them are the rows that say who may do what: the accounts, one     *)
(* product, one order and the carts.  The seed program can empty the tables *)
(* at any time; user ids are then given out again.                          *)
(***************************************************************************)
EXTENDS GatewayRoutes, Sequences

CONSTANTS Requests,
          People,      \* a person is a user name, with its e-mail and password
          Accounts,    \* who has an account at first, in the order of the ids
          Owner,       \* the user id that owns the product and the order
          Seeded,      \* the people whose accounts the seed program inserts
          Uses,        \* request -> the <<person, route>> it may be
          MaxReseeds   \* bound on the runs of the seed program

ASSUME GatewayAssumption ==
    /\ MaxReseeds \in Nat
    /\ Seeded \in Seq(People) /\ Accounts \in Seq(People)
    /\ \A v, w \in DOMAIN Accounts : Accounts[v] = Accounts[w] => v = w
    /\ \A v, w \in DOMAIN Seeded : Seeded[v] = Seeded[w] => v = w
    /\ Owner \in DOMAIN Accounts
    /\ Uses \in [Requests -> SUBSET (People \X Routes)]

VARIABLES
    users,     \* the accounts: users[u] is the person with user id u
    era,       \* how often users was truncated
    seed,      \* statements the seed program has executed, 0 when it is not running
    product,   \* owner id of the product, NoRow without it
    born,      \* its id was given out since products was truncated
    past,      \* what an out-of-date cache may still answer for it
    order,     \* owner id and status of the order
    cart,      \* user ids with a row in cart_items
    session,   \* person -> the token the browser keeps
    req,       \* request -> how far the page and the gateway are with it
    call,      \* request -> how far the RPC it caused is
    change     \* request -> user id whose row it changed, NoRow while it has not

stores == <<users, era, seed, product, born, past, order, cart>>
vars == <<stores, session, req, call, change>>

SystemUserID == 0
NoRow == 0
Token(u, e) == [uid |-> u, era |-> e, live |-> TRUE]
NoToken == [uid |-> SystemUserID, era |-> 0, live |-> FALSE]
TokensOf == [uid : Nat, era : Nat, live : BOOLEAN]

Call(step, code) == [step |-> step, code |-> code, token |-> NoToken]
NoCall == Call("none", "OK")

Writes == {"Register", "CreateProduct", "UpdateProduct", "DeleteProduct", "CreateOrder",
           "CancelOrder", "PayOrder", "AddItem", "UpdateItemQuantity", "RemoveItems"}

HasAccount(p) == \E u \in DOMAIN users : users[u] = p
UidOf(p) == CHOOSE u \in DOMAIN users : users[u] = p

GatewayInit ==
    /\ users = Accounts /\ era = 0 /\ seed = 0
    /\ product = Owner /\ born = TRUE /\ past = {NoRow}
    /\ order = [owner |-> Owner, status |-> "PENDING"]
    /\ cart = {}
    /\ session = [p \in People |->
                    IF HasAccount(p) THEN Token(UidOf(p), era) ELSE NoToken]
    /\ req \in [Requests -> [who : People, route : Routes, step : {"idle"},
                             token : {NoToken}, status : {0}]]
    /\ \A r \in Requests : <<req[r].who, req[r].route>> \in Uses[r]
    /\ call = [r \in Requests |-> NoCall]
    /\ change = [r \in Requests |-> NoRow]

-----------------------------------------------------------------------------
\* The gateway until the RPC: limiter, Auth, binding, breaker.

Carried(r) == IF req[r].route \in BehindAuth THEN session[req[r].who] ELSE NoToken
Authorized(r) == req[r].route \in BehindAuth => session[req[r].who].live

Answer(r, status) ==
    /\ req' = [req EXCEPT ![r].step = "answered", ![r].status = status,
                          ![r].token = IF req[r].step = "idle" THEN Carried(r) ELSE @]
    /\ UNCHANGED <<stores, session, change>>

Refuse(r, status) ==
    /\ req[r].step = "idle"
    /\ Answer(r, status)
    /\ UNCHANGED call

RateLimited(r) == Refuse(r, 429)
NotLoggedIn(r) == ~Authorized(r) /\ Refuse(r, 401)
BadInput(r) == Authorized(r) /\ HandlerOf(req[r].route).input # {} /\ Refuse(r, 400)
BreakerOpen(r) == Authorized(r) /\ Refuse(r, ToHTTPStatus["Unavailable"])

Send(r) ==
    /\ req[r].step = "idle" /\ Authorized(r)
    /\ req' = [req EXCEPT ![r].step = "sent", ![r].token = Carried(r)]
    /\ call' = [call EXCEPT ![r] = Call("arrived", "OK")]
    /\ UNCHANGED <<stores, session, change>>

-----------------------------------------------------------------------------
\* The services.  A handler checks, then writes with one statement or
\* transaction, then reads what it answers with.

Method(r) == MethodOf(req[r].route)
Caller(r) == IF req[r].route \in Injected THEN req[r].token.uid ELSE SystemUserID

At(r, m, step) == Method(r) = m /\ call[r].step = step

\* Nobody is told any more when the gateway has given the call up.
Reply(r, code) ==
    call' = [call EXCEPT ![r] = IF req[r].step = "sent" THEN [@ EXCEPT !.step = "replied", !.code = code]
                                ELSE Call("gone", "OK")]

\* identity.FromIncoming
NeedsCaller == DOMAIN OrderHandlers \cup {"CreateProduct", "UpdateProduct", "DeleteProduct"}
                 \cup {CartCalls[h] : h \in DOMAIN CartCalls}
FromIncoming(r) == Method(r) \in NeedsCaller => Caller(r) # SystemUserID

\* Reads of the product go through the cache.
Shown == past \cup {product}

Ownership(r) ==
    {IF v = NoRow THEN "NotFound" ELSE IF v # Caller(r) THEN "Forbidden" ELSE "go" : v \in Shown}

Looked == {IF v = NoRow THEN "NotFound" ELSE "go" : v \in Shown}

OwnOrder(r) == IF order.owner = Caller(r) THEN "go" ELSE "NotFound"

\* A mistaken form of the next definition: whose order it is, is not asked.
PendingOnly(r) == IF order.status # "PENDING" THEN "FailedPrecondition" ELSE "go"

Pending(r) ==
    IF order.owner # Caller(r) THEN "NotFound"
    ELSE IF order.status # "PENDING" THEN "FailedPrecondition" ELSE "go"

\* What the checks of a handler can end in: "go", or the kind of an AppError.
UserChecks(r) ==
    CASE Method(r) = "Register" -> {"go"}
      [] Method(r) = "Login"    -> {"Unauthorized"} \cup (IF HasAccount(req[r].who) THEN {"go"} ELSE {})
      [] OTHER                  -> {"go", "NotFound"}

ProductChecks(r) ==
    CASE Method(r) = "GetProduct"    -> Looked
      [] Method(r) = "ListProducts"  -> {"go"}
      [] Method(r) = "CreateProduct" -> {"go", "InvalidArgument"}
      [] Method(r) = "UpdateProduct" -> Ownership(r) \cup {"InvalidArgument"}
      [] Method(r) = "DeleteProduct" -> Ownership(r)

OrderChecks(r) ==
    CASE Method(r) = "GetOrder"                    -> {OwnOrder(r)}
      [] Method(r) \in {"CancelOrder", "PayOrder"} -> {Pending(r)}
      [] OTHER                                     -> {"go"}

\* A sum above the limit needs a row to add to.
CartChecks(r) ==
    IF Method(r) # "AddItem" THEN {"go"}
    ELSE Looked \cup (IF Caller(r) \in cart THEN {"InvalidArgument"} ELSE {})

Checks(r) ==
    IF ~FromIncoming(r) THEN {"Unauthorized"}
    ELSE CASE Method(r) \in UserCalls    -> UserChecks(r)
           [] Method(r) \in ProductCalls -> ProductChecks(r)
           [] Method(r) \in OrderCalls   -> OrderChecks(r)
           [] OTHER                     -> CartChecks(r)

\* Login signs a token for the row that it has just read.
Check(r) ==
    /\ call[r].step = "arrived"
    /\ \E outcome \in Checks(r) :
         IF outcome # "go" THEN Reply(r, ToGRPCStatus[outcome])
         ELSE call' = [call EXCEPT ![r] =
                 [step  |-> IF Method(r) \in Writes THEN "checked" ELSE "done",
                  code  |-> "OK",
                  token |-> IF Method(r) = "Login" THEN Token(UidOf(req[r].who), era) ELSE NoToken]]
    /\ UNCHANGED <<stores, session, req, change>>

\* A query fails, or a call that nobody waits for any more stops.  Login says
\* Unauthorized of every error of its query.
DatabaseFails(r) ==
    /\ call[r].step \in {"arrived", "checked"}
    /\ Reply(r, IF Method(r) = "Login" THEN "Unauthenticated" ELSE "Internal")
    /\ UNCHANGED <<stores, session, req, change>>

\* The write meets no row, or the wrong one.
WriteRefused(r, kind) ==
    /\ Reply(r, ToGRPCStatus[kind])
    /\ UNCHANGED <<stores, session, req, change>>

Written(r, uid) ==
    /\ call' = [call EXCEPT ![r].step = "done"]
    /\ change' = [change EXCEPT ![r] = uid]
    /\ UNCHANGED <<era, seed, session, req>>

\* A mistaken form of the next definition: no unique index on the name.
RegisterTwice(r) ==
    /\ At(r, "Register", "checked")
    /\ users' = Append(users, req[r].who)
    /\ Written(r, Len(users) + 1)
    /\ UNCHANGED <<product, born, past, order, cart>>

Register(r) ==
    /\ At(r, "Register", "checked")
    /\ IF HasAccount(req[r].who) THEN WriteRefused(r, "AlreadyExists")
       ELSE /\ users' = Append(users, req[r].who)
            /\ Written(r, Len(users) + 1)
            /\ UNCHANGED <<product, born, past, order, cart>>

\* The new product has the id we follow, or another.
CreateProduct(r) ==
    /\ At(r, "CreateProduct", "checked")
    /\ \/ UNCHANGED <<product, born, past>>
       \/ ~born /\ born' = TRUE /\ product' = Caller(r) /\ past' = Shown
    /\ Written(r, Caller(r))
    /\ UNCHANGED <<users, order, cart>>

UpdateProduct(r) ==
    /\ At(r, "UpdateProduct", "checked")
    /\ IF product = NoRow THEN WriteRefused(r, "NotFound")
       ELSE Written(r, product) /\ UNCHANGED <<users, product, born, past, order, cart>>

DeleteProduct(r) ==
    /\ At(r, "DeleteProduct", "checked")
    /\ IF product = NoRow THEN WriteRefused(r, "NotFound")
       ELSE /\ product' = NoRow /\ past' = Shown
            /\ Written(r, product)
            /\ UNCHANGED <<users, born, order, cart>>

\* The errors of DeductStock are passed on as they are.
CreateOrder(r) ==
    /\ At(r, "CreateOrder", "checked")
    /\ \/ Written(r, Caller(r)) /\ UNCHANGED <<users, product, born, past, order, cart>>
       \/ /\ \E code \in {"NotFound", "FailedPrecondition", "DeadlineExceeded", "Unavailable"} :
                Reply(r, code)
          /\ UNCHANGED <<stores, session, req, change>>

\* UpdateStatus and CancelWithOutbox ask for the status again, not for the owner.
Transition(r, status) ==
    IF order.status # "PENDING" THEN WriteRefused(r, "FailedPrecondition")
    ELSE /\ order' = [order EXCEPT !.status = status]
         /\ Written(r, order.owner)
         /\ UNCHANGED <<users, product, born, past, cart>>

CancelOrder(r) == At(r, "CancelOrder", "checked") /\ Transition(r, "CANCELLED")
PayOrder(r)    == At(r, "PayOrder", "checked") /\ Transition(r, "PAID")

AddItem(r) ==
    /\ At(r, "AddItem", "checked")
    /\ cart' = cart \cup {Caller(r)}
    /\ Written(r, Caller(r))
    /\ UNCHANGED <<users, product, born, past, order>>

UpdateItemQuantity(r) ==
    /\ At(r, "UpdateItemQuantity", "checked")
    /\ IF Caller(r) \notin cart THEN WriteRefused(r, "NotFound")
       ELSE Written(r, Caller(r)) /\ UNCHANGED <<users, product, born, past, order, cart>>

\* All of the caller's rows, or only some of them.
RemoveItems(r) ==
    /\ At(r, "RemoveItems", "checked")
    /\ cart' \in {cart, cart \ {Caller(r)}}
    /\ Written(r, Caller(r))
    /\ UNCHANGED <<users, product, born, past, order>>

Write(r) ==
    \/ Register(r) \/ CreateProduct(r) \/ UpdateProduct(r) \/ DeleteProduct(r)
    \/ CreateOrder(r) \/ CancelOrder(r) \/ PayOrder(r)
    \/ AddItem(r) \/ UpdateItemQuantity(r) \/ RemoveItems(r)

\* After the write: its commit may be reported failed, the Redis DEL or the list
\* of the cart may fail, and UpdateProduct may not find the product again.
Finish(r) ==
    /\ call[r].step = "done"
    /\ \/ Reply(r, "OK")
       \/ Method(r) \in Writes /\ Reply(r, "Internal")
       \/ Method(r) = "UpdateProduct" /\ NoRow \in Shown /\ Reply(r, "NotFound")
    /\ UNCHANGED <<stores, session, req, change>>

-----------------------------------------------------------------------------
\* Back in the gateway and in the page.

StatusOf(r) == IF call[r].code = "OK" THEN HandlerOf(req[r].route).ok ELSE ToHTTPStatus[call[r].code]

Hear(r) ==
    /\ req[r].step = "sent" /\ call[r].step = "replied"
    /\ Answer(r, StatusOf(r))
    /\ UNCHANGED call

GiveUp(r, code) ==
    /\ req[r].step = "sent"
    /\ Answer(r, ToHTTPStatus[code])
    /\ call' = IF call[r].step = "replied" THEN [call EXCEPT ![r] = Call("gone", "OK")] ELSE call

\* Every client method calls with a timeout of 3 s.
Deadline(r) == GiveUp(r, "DeadlineExceeded")
Lost(r)     == GiveUp(r, "Unavailable")

\* The page is closed, or the gateway exits while its handler waits.
Left(R) ==
    /\ R # {} /\ \A r \in R : req[r].step = "sent"
    /\ req' = [r \in Requests |-> IF r \in R THEN [req[r] EXCEPT !.step = "left"] ELSE req[r]]
    /\ call' = [r \in Requests |-> IF r \in R /\ call[r].step = "replied" THEN Call("gone", "OK") ELSE call[r]]
    /\ UNCHANGED <<stores, session, change>>

GatewayExits == Left({r \in Requests : req[r].step = "sent"})

\* request.js: a 401 of a route that wants a token clears the session; Login
\* stores the token it gets.
Heard(r) ==
    /\ req[r].step = "answered"
    /\ \/ /\ req[r].status = 401 /\ req[r].route \in BehindAuth
          /\ session' = [session EXCEPT ![req[r].who] = NoToken]
       \/ /\ req[r].status = 200 /\ req[r].route = "Login"
          /\ session' = [session EXCEPT ![req[r].who] = call[r].token]
    /\ req' = [req EXCEPT ![r].step = "heard"]
    /\ UNCHANGED <<stores, call, change>>

Expire(p) ==
    /\ session[p].live
    /\ session' = [session EXCEPT ![p].live = FALSE]
    /\ UNCHANGED <<stores, req, call, change>>

-----------------------------------------------------------------------------
\* The seed program, statement by statement.  orders is not among its tables.

SeedStep(n) == seed = n /\ seed' = n + 1 /\ UNCHANGED <<session, req, call, change>>

TruncateUsers ==
    /\ era < MaxReseeds /\ SeedStep(0)
    /\ era' = era + 1 /\ users' = <<>>
    /\ UNCHANGED <<product, born, past, order, cart>>

TruncateProducts ==
    /\ SeedStep(1)
    /\ product' = NoRow /\ born' = FALSE /\ past' = Shown
    /\ UNCHANGED <<users, era, order, cart>>

TruncateCarts ==
    /\ SeedStep(2) /\ cart' = {}
    /\ UNCHANGED <<users, era, product, born, past, order>>

InsertUsers ==
    /\ \A i \in DOMAIN Seeded : ~HasAccount(Seeded[i])
    /\ SeedStep(3) /\ users' = users \o Seeded
    /\ UNCHANGED <<era, product, born, past, order, cart>>

\* The products go to the users just inserted; the id we follow may be among them.
InsertProducts ==
    /\ seed = 4 /\ seed' = 0
    /\ \/ UNCHANGED <<product, born, past>>
       \/ /\ ~born /\ born' = TRUE /\ past' = Shown
          /\ \E i \in DOMAIN Seeded : product' = UidOf(Seeded[i])
    /\ UNCHANGED <<users, era, order, cart, session, req, call, change>>

SeedFails == seed > 0 /\ seed' = 0
             /\ UNCHANGED <<users, era, product, born, past, order, cart, session, req, call, change>>

Seed == TruncateUsers \/ TruncateProducts \/ TruncateCarts
          \/ InsertUsers \/ InsertProducts \/ SeedFails

-----------------------------------------------------------------------------
RequestNext(r) ==
    \/ RateLimited(r) \/ NotLoggedIn(r) \/ BadInput(r) \/ BreakerOpen(r) \/ Send(r)
    \/ Check(r) \/ DatabaseFails(r) \/ Write(r) \/ Finish(r)
    \/ Hear(r) \/ Deadline(r) \/ Lost(r) \/ Left({r}) \/ Heard(r)

GatewayNext ==
    \/ \E r \in Requests : RequestNext(r)
    \/ GatewayExits
    \/ \E p \in People : Expire(p)
    \/ Seed

GatewaySpec == GatewayInit /\ [][GatewayNext]_vars

-----------------------------------------------------------------------------
Steps == {"idle", "sent", "answered", "heard", "left"}
CallSteps == {"none", "arrived", "checked", "done", "replied", "gone"}

\* The variables have their types, and no name has two accounts.
GatewayTypeOK ==
    /\ \A v, w \in DOMAIN users : users[v] = users[w] => v = w
    /\ users \in Seq(People) /\ era \in 0..MaxReseeds /\ seed \in 0..4
    /\ product \in Nat /\ born \in BOOLEAN /\ past \subseteq Nat
    /\ order \in [owner : Nat, status : {"PENDING", "PAID", "CANCELLED"}]
    /\ cart \subseteq Nat
    /\ session \in [People -> TokensOf]
    /\ req \in [Requests -> [who : People, route : Routes, step : Steps,
                             token : TokensOf, status : Nat]]
    /\ call \in [Requests -> [step : CallSteps, code : Codes, token : TokensOf]]
    /\ change \in [Requests -> Nat]

\* The status that the page gets tells what happened, however late an abandoned
\* call is executed: after a 2xx of a route that writes the rows are changed,
\* and after a 4xx this request has changed none and never will.  Only the 404 of
\* UpdateProduct says nothing: it also ends the read that follows the commit.
\* (handler.go, respondGRPCError; product_service.go:132)
DefiniteAnswers ==
    \A r \in Requests : req[r].step \in {"answered", "heard"} =>
        /\ req[r].status \in 200..299 /\ Method(r) \in Writes => change[r] # NoRow
        /\ req[r].status \in 400..499 /\ ~(Method(r) = "UpdateProduct" /\ req[r].status = 404)
             => change[r] = NoRow

\* A request changes rows of the user id in its token only, also when a cached
\* product decided (until a reseed gave the product's id to someone else); and as
\* long as the ids were not given out anew that id is the account of the person
\* who asks.  (identity.go, checkOwnership, PayOrder, CancelOrder, cart_service.go)
ChangesAreOwn ==
    \A r \in Requests : change[r] # NoRow /\ Method(r) # "Register" =>
        /\ change[r] = req[r].token.uid \/ (Method(r) \in ProductCalls /\ era > 0)
        /\ req[r].token.era = era => users[req[r].token.uid] = req[r].who

\* A live session ends only by an answer to a request that carried an older
\* token: the services never turn a caller with a valid token away as unknown.
\* (router.go, service.go InjectOutgoing, identity.FromIncoming, request.js)
SessionEndsWithItsToken ==
    [][\A p \in People : session[p].live /\ session'[p] = NoToken =>
         \E r \in Requests : /\ req[r].who = p /\ req'[r].step = "heard" /\ req[r].step = "answered"
                             /\ req[r].token # session[p]]_vars
=============================================================================
