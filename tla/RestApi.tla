------------------------------- MODULE RestApi -------------------------------
(***************************************************************************)
(* The REST API of src/vault/internal/api: what a request passes before it *)
(* reaches a handler, and the status the backend is answered with.         *)
(*                                                                         *)
(*   rate limit (429), API key (401), the part that serves the route (503),*)
(*   body and required fields (400), then the handler: the contract it     *)
(*   looks up and the capability it asks of it, or the object it looks up, *)
(*   and then what it does.                                                *)
(*                                                                         *)
(* A route is described by a record; RateLimiter has the buckets.  Options *)
(* (timeouts, callbacks, metadata) are left out: one that cannot be parsed *)
(* is ignored.                                                             *)
(***************************************************************************)
EXTENDS Integers, FiniteSets

CONSTANTS Requests,     \* HTTP requests
          RouteOf,      \* the route of a request
          Client,       \* the user a request names
          Clients,      \* user identifiers
          Wired,        \* the parts ServerConfig was given
          Development,  \* config.IsDevelopment
          ApiKeys,      \* the keys that are configured
          MaxChanges    \* bound on the changes of contracts

Parts == {"auth", "authz", "engine", "contracts", "negotiator", "call", "payment",
          "secrets", "identity"}
Capabilities == {"authenticate", "authorize", "call", "payment", "secrets"}
NoContract == {"no contract"}

\* kind: "create" a request to a user, which needs the capability `grant'; "act" on
\* an object; "read" one; "new" for an invite; "list".  `absent' is the status if
\* there is no such object, `lacks' if the contract lacks the capability.
Create(part, fields, grant, lacks, ok) ==
  [kind |-> "create", part |-> part, fields |-> fields, grant |-> grant,
   absent |-> 500, lacks |-> lacks, ok |-> ok]
OnObject(kind, part, fields, absent) ==
  [kind |-> kind, part |-> part, fields |-> fields, grant |-> "none",
   absent |-> absent, lacks |-> 500, ok |-> IF kind = "new" THEN 201 ELSE 200]

handleAuthRequest == Create("auth", {"user_id", "purpose"}, "authenticate", 403, 201)
getAuthRequest    == OnObject("read", "auth", {"requestID"}, 404)
handleAuthzRequest ==
  Create("authz", {"user_id", "action", "resource"}, "authorize", 403, 201)
getAuthzRequest   == OnObject("read", "authz", {"requestID"}, 404)

listContracts  == OnObject("list", "contracts", {}, 500)
getContract    == OnObject("read", "contracts", {"contractID"}, 404)
generateInvite == OnObject("new", "negotiator", {"offering_id"}, 500)
\* GetContract's ErrContractNotFound is wrapped and not recognised.
cancelContract == OnObject("act", "negotiator", {"contractID"}, 500)

handleCallInitiate == Create("call", {"user_id", "type"}, "call", 500, 202)
handleCallEnd      == OnObject("act", "call", {"callID"}, 500)
getCallStatus      == OnObject("read", "call", {"callID"}, 404)

handlePaymentRequest ==
  Create("payment", {"user_id", "amount", "currency", "description"}, "payment", 500, 202)
getPaymentRequest     == OnObject("read", "payment", {"requestID"}, 404)
handlePaymentComplete == OnObject("act", "payment", {"requestID", "body"}, 404)
handlePaymentFail     == OnObject("act", "payment", {"requestID", "body"}, 404)
handlePaymentRefund   == OnObject("act", "payment", {"requestID"}, 404)

handleSecretStore ==
  Create("secrets", {"user_id", "secret_type", "name", "data"}, "secrets", 500, 202)
handleSecretRetrieve == Create("secrets", {"user_id", "secret_id"}, "secrets", 500, 202)
handleSecretDelete   == Create("secrets", {"user_id", "secretID"}, "secrets", 500, 202)
handleSecretsList    == Create("secrets", {"user_id"}, "secrets", 500, 202)
handleSecretUpdate   == Create("secrets", {"user_id", "secretID"}, "secrets", 500, 202)

getServiceInfo == OnObject("list", "identity", {}, 500)

setupRoutes ==
  {handleAuthRequest, getAuthRequest, handleAuthzRequest, getAuthzRequest,
   listContracts, getContract, generateInvite, cancelContract,
   handleCallInitiate, handleCallEnd, getCallStatus,
   handlePaymentRequest, getPaymentRequest, handlePaymentComplete, handlePaymentFail,
   handlePaymentRefund,
   handleSecretStore, handleSecretRetrieve, handleSecretDelete, handleSecretsList,
   handleSecretUpdate, getServiceInfo}

RestApiAssumption ==
  /\ RouteOf \in [Requests -> setupRoutes]
  /\ Client \in [Requests -> Clients]
  /\ Wired \subseteq Parts /\ Development \in BOOLEAN /\ MaxChanges \in Nat

VARIABLES at,        \* how far a request has got
          reply,     \* the status it was answered with, or 0
          effect,    \* requests whose handler has changed something
          granted,   \* the capabilities of the user's active contract, as the
                     \* lookup by user finds it, which lags behind the table
          saw,       \* those the handler found
          changes

restVars == <<at, reply, effect, granted, saw, changes>>

TypeOK ==
  /\ at \in [Requests -> {"new", "limited", "authenticated", "valid", "allowed", "answered"}]
  /\ reply \in [Requests -> {0, 200, 201, 202, 400, 401, 403, 404, 429, 500, 503}]
  /\ effect \subseteq Requests
  /\ granted \in [Clients -> (SUBSET Capabilities) \cup {NoContract}]
  /\ saw \in [Requests -> (SUBSET Capabilities) \cup {NoContract}]
  /\ changes \in 0..MaxChanges

Init ==
  /\ at = [r \in Requests |-> "new"] /\ reply = [r \in Requests |-> 0]
  /\ effect = {} /\ changes = 0
  /\ granted = [u \in Clients |-> NoContract]
  /\ saw = [r \in Requests |-> NoContract]

\* A user makes, amends or cancels the contract.
ChangeContract(u) ==
  /\ changes < MaxChanges
  /\ changes' = changes + 1
  /\ \E g \in {NoContract, {}} \cup {{RouteOf[r].grant} \cap Capabilities : r \in Requests} :
       granted' = [granted EXCEPT ![u] = g]
  /\ UNCHANGED <<at, reply, effect, saw>>

Pass(r, next) == /\ at' = [at EXCEPT ![r] = next]
                 /\ UNCHANGED reply

\* writeError, writeJSON
Reply(r, code) == /\ at' = [at EXCEPT ![r] = "answered"]
                  /\ reply' = [reply EXCEPT ![r] = code]

RateLimit(r) ==
  /\ at[r] = "new"
  /\ Pass(r, "limited") \/ Reply(r, 429)
  /\ UNCHANGED <<effect, granted, saw, changes>>

\* With no keys configured nobody gets in, but for development.
validateAPIKey(key) == IF ApiKeys = {} THEN Development ELSE key \in ApiKeys

apiKeyAuth(r) ==
  /\ at[r] = "limited"
  /\ \E key \in ApiKeys \cup {"another", "none"} :
       IF Development \/ (key # "none" /\ validateAPIKey(key))
       THEN Pass(r, "authenticated") ELSE Reply(r, 401)
  /\ UNCHANGED <<effect, granted, saw, changes>>

\* The part that serves the route is there, and what the route requires was sent.
Validate(r) ==
  /\ at[r] = "authenticated"
  /\ \E sent \in {RouteOf[r].fields} \cup {RouteOf[r].fields \ {f} : f \in RouteOf[r].fields} :
       \/ RouteOf[r].part \notin Wired /\ Reply(r, 503)
       \/ RouteOf[r].part \in Wired /\ sent # RouteOf[r].fields /\ Reply(r, 400)
       \/ RouteOf[r].part \in Wired /\ sent = RouteOf[r].fields /\ Pass(r, "valid")
  /\ UNCHANGED <<effect, granted, saw, changes>>

\* FAULT: the request is stored before the contract is looked at.
StoreAndAllow(r) ==
  /\ at[r] = "valid" /\ RouteOf[r].kind = "create"
  /\ saw' = [saw EXCEPT ![r] = granted[Client[r]]]
  /\ effect' = effect \cup {r}
  /\ IF saw'[r] = NoContract THEN Reply(r, 500)
     ELSE IF RouteOf[r].grant \notin saw'[r] THEN Reply(r, RouteOf[r].lacks)
     ELSE Pass(r, "allowed")
  /\ UNCHANGED <<granted, changes>>

\* The contract, and its capability.  A handler without an engine panics, which the
\* router's Recoverer answers.
Allowed(r) ==
  /\ at[r] = "valid" /\ RouteOf[r].kind = "create"
  /\ IF "engine" \in Wired
     THEN saw' = [saw EXCEPT ![r] = granted[Client[r]]]
     ELSE UNCHANGED saw
  /\ IF saw'[r] = NoContract THEN Reply(r, 500)
     ELSE IF RouteOf[r].grant \notin saw'[r] THEN Reply(r, RouteOf[r].lacks)
     ELSE Pass(r, "allowed")
  /\ UNCHANGED <<effect, granted, changes>>

\* The request is stored and sent; that it cannot be sent is ignored.
Make(r) ==
  /\ at[r] = "allowed"
  /\ effect' = effect \cup {r}
  /\ Reply(r, RouteOf[r].ok)
  /\ UNCHANGED <<granted, saw, changes>>

\* The other kinds: there is no such object, the handler or the table refuses, or it
\* is done.  What the negotiator does may fail after a part of it has happened.  Its
\* only 404 is that of a contract that is there when it is read and deleted before it
\* is written back: by then the key and the credentials of the user are gone.
Serve(r) ==
  /\ at[r] = "valid" /\ RouteOf[r].kind # "create"
  /\ \/ RouteOf[r].kind \in {"read", "act"} /\ Reply(r, RouteOf[r].absent) /\ UNCHANGED effect
     \/ /\ RouteOf[r].kind = "act" \/ RouteOf[r].part \in {"contracts", "negotiator"}
        /\ Reply(r, 500)
        /\ \/ UNCHANGED effect
           \/ RouteOf[r].part = "negotiator" /\ effect' = effect \cup {r}
     \/ RouteOf[r] = cancelContract /\ Reply(r, 404) /\ effect' = effect \cup {r}
     \/ /\ Reply(r, RouteOf[r].ok)
        /\ effect' = IF RouteOf[r].kind \in {"act", "new"} THEN effect \cup {r} ELSE effect
  /\ UNCHANGED <<granted, saw, changes>>

Next == \/ \E u \in Clients : ChangeContract(u)
        \/ \E r \in Requests : \/ RateLimit(r) \/ apiKeyAuth(r) \/ Validate(r)
                               \/ Allowed(r) \/ Make(r) \/ Serve(r)

Spec == Init /\ [][Next]_restVars

-----------------------------------------------------------------------------
\* The status can be relied on: what was refused, for whatever reason, changed
\* nothing, but for the negotiator, which may have done a part of it when it answers
\* 500, and for a cancellation that is answered 404, which has always deleted the key;
\* and what was confirmed was done, under a contract that had the capability when the
\* handler looked, even if it has been cancelled since.
StatusTellsEffect ==
  \A r \in Requests :
    /\ r \in effect /\ at[r] = "answered" =>
         \/ reply[r] < 300
         \/ reply[r] = 500 /\ RouteOf[r].part = "negotiator"
         \/ reply[r] = 404 /\ RouteOf[r] = cancelContract
    /\ reply[r] = 404 /\ RouteOf[r] = cancelContract => r \in effect
    /\ reply[r] \in 200..299 /\ RouteOf[r].kind \in {"create", "act", "new"} => r \in effect
    /\ r \in effect /\ RouteOf[r].kind = "create" => RouteOf[r].grant \in saw[r]
=============================================================================
