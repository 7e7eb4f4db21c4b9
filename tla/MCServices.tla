----------------------------- MODULE MCServices -----------------------------
(***************************************************************************)
(* TLC instances of Services.  Every interleaving of the parts would be    *)
(* the product of their states and show nothing that the parts do not, so  *)
(* a behaviour picks one of the parts in `Components' at its beginning and *)
(* follows it, while the others stay as they start.                        *)
(***************************************************************************)
EXTENDS Services

CONSTANT Components     \* the parts that are followed

VARIABLE part           \* the part that this behaviour follows

\* Payments: one new request and one of the past, two backends.
AnnPays  == [r \in Payables |-> "ann"]
PriceTwo == [r \in Payables |-> 2]

\* Notifications: three for one user, one of which may expire.
AllToAnn == [n \in Notes |-> "ann"]

\* Dispatcher: three deliveries of two events, one worker.
TwoOfOne == [d \in Deliveries |-> IF d = "d3" THEN "e2" ELSE "e1"]

\* Routing: a reply, a ping, and a reply that cannot be read; one node follows Ann.
ReplyOfAnn == [m \in Letters |-> IF m = "reply" THEN "ann" ELSE "bob"]
Replies   == [m \in Letters |-> IF m = "ping" THEN <<"ping">> ELSE <<"auth", "response">>]
OneNoise  == [m \in Letters |-> IF m = "noise" THEN "garbled" ELSE "sealed"]
FollowAnn == {<<"i1", "ann">>}
TwoTypes  == {<<"auth", "response">>, <<"ping">>}

\* RestApi: a request to a user, an act on its contract, and a route not served.  Of
\* RestApi only the routes are taken here, which do not depend on RouteOf: a stand-in
\* keeps RouteOf from being defined by itself.
R == INSTANCE RestApi WITH RouteOf <- [r \in Requests |-> "any"]
AnnAsked == [r \in Requests |-> "ann"]
Routes   == [r \in Requests |-> CASE r = "ask"    -> R!handleAuthRequest
                                  [] r = "cancel" -> R!cancelContract
                                  [] r = "pay"    -> R!handlePaymentRequest]

----------------------------------------------------------------------------
MCInit == /\ part \in Components
          /\ Init
          /\ part # "startup" => kind = CHOOSE k \in Kinds : TRUE
          /\ part # "routing" => party = {}

MCNext ==
  /\ UNCHANGED part
  /\ \/ part = "payments" /\ PaymentStep
     \/ part = "notifications" /\ NoteStep
     \/ part = "dispatcher" /\ DispatchStep
     \/ part = "startup" /\ StartStep
     \/ part = "limiter" /\ LimiterStep
     \/ part = "routing" /\ RoutingStep
     \/ part = "api" /\ RestStep

\* The fairness asks for nothing of a part that is not followed: its fair actions
\* are not enabled where it starts.
MCSpec == MCInit /\ [][MCNext]_<<part, vars>> /\ Fairness
=============================================================================
