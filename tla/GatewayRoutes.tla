---------------------------- MODULE GatewayRoutes ----------------------------
(***************************************************************************)
(* What is fixed about a request of the api-gateway: its handler            *)
(* (internal/gateway/handler), whether the router puts it behind Auth,      *)
(* whether the service layer passes the caller on, the RPC that the client  *)
(* (internal/gateway/repository) makes, and the two error translations of   *)
(* pkg/errors.                                                              *)
(***************************************************************************)
EXTENDS Naturals

\* A handler: what it parses or binds before it calls, and its success status.
Handler(input, ok) == [input |-> input, ok |-> ok]

UserHandlers == [ GetUser          |-> Handler({"id"}, 200),
                  Register         |-> Handler({"body"}, 201),
                  Login            |-> Handler({"body"}, 200),
                  GetRandomAddress |-> Handler({}, 200) ]

ProductHandlers == [ GetProduct    |-> Handler({"id"}, 200),
                     CreateProduct |-> Handler({"body"}, 201),
                     ListProducts  |-> Handler({"query"}, 200),
                     UpdateProduct |-> Handler({"id", "body"}, 200),
                     DeleteProduct |-> Handler({"id"}, 204) ]

OrderHandlers == [ CreateOrder  |-> Handler({"body"}, 201),
                   GetOrder     |-> Handler({"id"}, 200),
                   ListMyOrders |-> Handler({"query"}, 200),
                   CancelOrder  |-> Handler({"id"}, 200),
                   PayOrder     |-> Handler({"id"}, 200) ]

CartHandlers == [ AddCartItem     |-> Handler({"body"}, 200),
                  ListCart        |-> Handler({}, 200),
                  UpdateCartItem  |-> Handler({"id", "body"}, 200),
                  RemoveCartItems |-> Handler({"body"}, 200) ]

Routes == DOMAIN UserHandlers \cup DOMAIN ProductHandlers
            \cup DOMAIN OrderHandlers \cup DOMAIN CartHandlers

HandlerOf(h) == CASE h \in DOMAIN UserHandlers    -> UserHandlers[h]
                  [] h \in DOMAIN ProductHandlers -> ProductHandlers[h]
                  [] h \in DOMAIN OrderHandlers   -> OrderHandlers[h]
                  [] h \in DOMAIN CartHandlers    -> CartHandlers[h]

\* The router asks for a valid token on every route but these.
Public == {"Register", "Login", "GetUser", "GetProduct", "ListProducts"}
BehindAuth == Routes \ Public

\* A mistaken form of the next definition: the payment forgets its caller.
InjectedButPay == {"CreateProduct", "UpdateProduct", "DeleteProduct"}
                    \cup (DOMAIN OrderHandlers \ {"PayOrder"}) \cup DOMAIN CartHandlers

\* The service methods that put the caller's id into the outgoing metadata.
Injected == {"CreateProduct", "UpdateProduct", "DeleteProduct"}
              \cup DOMAIN OrderHandlers \cup DOMAIN CartHandlers

\* The RPCs behind the routes; those of the cart go to product-service under
\* other names, every other one keeps its handler's name.
UserCalls == DOMAIN UserHandlers
ProductCalls == DOMAIN ProductHandlers
OrderCalls == DOMAIN OrderHandlers
CartCalls == [ AddCartItem     |-> "AddItem",
               ListCart        |-> "ListCart",
               UpdateCartItem  |-> "UpdateItemQuantity",
               RemoveCartItems |-> "RemoveItems" ]

Methods == UserCalls \cup ProductCalls \cup OrderCalls
             \cup {CartCalls[h] : h \in DOMAIN CartCalls}

MethodOf(h) == IF h \in DOMAIN CartCalls THEN CartCalls[h] ELSE h

ToGRPCStatus == [ Unknown            |-> "Internal",
                  NotFound           |-> "NotFound",
                  InvalidArgument    |-> "InvalidArgument",
                  AlreadyExists      |-> "AlreadyExists",
                  Internal           |-> "Internal",
                  Unauthorized       |-> "Unauthenticated",
                  Forbidden          |-> "PermissionDenied",
                  FailedPrecondition |-> "FailedPrecondition" ]

\* A mistaken form of the next definition: 408 for a late service, not 504.
ToHTTPStatusLate == [ OK                 |-> 200,
                      NotFound           |-> 404,
                      InvalidArgument    |-> 400,
                      AlreadyExists      |-> 409,
                      Unauthenticated    |-> 401,
                      PermissionDenied   |-> 403,
                      FailedPrecondition |-> 409,
                      DeadlineExceeded   |-> 408,
                      Unavailable        |-> 503,
                      Canceled           |-> 500,
                      Internal           |-> 500 ]

ToHTTPStatus == [ OK                 |-> 200,
                  NotFound           |-> 404,
                  InvalidArgument    |-> 400,
                  AlreadyExists      |-> 409,
                  Unauthenticated    |-> 401,
                  PermissionDenied   |-> 403,
                  FailedPrecondition |-> 409,
                  DeadlineExceeded   |-> 504,
                  Unavailable        |-> 503,
                  Canceled           |-> 500,
                  Internal           |-> 500 ]

Codes == DOMAIN ToHTTPStatus
=============================================================================
