-------------------------- MODULE RequestLifecycle --------------------------
(***************************************************************************)
(* The life of a request to a user, as AuthHandler, AuthzHandler,          *)
(* DataHandler and SecretsHandler of src/vault/internal/handler run it:    *)
(*                                                                         *)
(*   RequestAuth ... : check the user's contract, store the request in the *)
(*                     handler's `pending' map, send it to the user,       *)
(*                     return it to the backend;                           *)
(*   HandleResponse  : under the handler's lock, match the user's reply    *)
(*                     with the pending request, judge it by the clock,    *)
(*                     record it and drop the request from the maps; after *)
(*                     the lock, run the callback, then start the webhook  *)
(*                     goroutine;                                          *)
(*   SetCallback, GetRequest, Cleanup, CheckAuthorization.                 *)
(*                                                                         *)
(* `pending' and `callbacks' live in the memory of the process (the        *)
(* instance) that made the request: Home[r].  A worker is a goroutine that *)
(* delivers NATS messages: one per subscription, so an instance that has   *)
(* subscribed to all users and to one user has two.  A reply may be        *)
(* delivered to any worker of any instance, any number of times and at any *)
(* moment after the user has got the request.                              *)
(***************************************************************************)
EXTENDS Integers, FiniteSets

CONSTANTS Users,          \* user identifiers
          Requests,       \* request identifiers, drawn at random and never reused
          Instances,      \* vault processes behind the load balancer
          Workers,        \* message-delivering goroutines
          At,             \* the instance a worker runs in
          Owner,          \* UserID of a request
          Home,           \* the instance that creates a request
          HandlerOf,      \* the handler that creates a request
          Timeout,        \* ExpiresAt - CreatedAt
          Grace,          \* OfflineGrace
          HasHook,        \* CallbackURL # ""
          ReplyStatuses,  \* what users put in the status of a reply
          MaxClock,       \* bound on the clock
          MaxCrashes,     \* bound on the crashes of instances
          NoMessage

Handlers == {"auth", "authz", "data", "secrets"}

ASSUME ConstantsAssumption ==
  /\ At \in [Workers -> Instances]
  /\ Owner \in [Requests -> Users]
  /\ Home \in [Requests -> Instances]
  /\ HandlerOf \in [Requests -> Handlers]
  /\ Timeout \in [Requests -> Int]    \* the API takes negative durations too
  /\ Grace \in [Requests -> Int]
  /\ HasHook \in [Requests -> BOOLEAN]
  /\ MaxClock \in Nat /\ MaxCrashes \in Nat

Verdicts == ReplyStatuses \cup {"offline_approved"}
Statuses == {"none", "pending", "expired"} \cup Verdicts

\* A reply: the request it names, the user it comes from, its status, and
\* whether it repeats the action and resource it was asked about.
Replies  == [id : Requests, from : Users, status : ReplyStatuses, echo : BOOLEAN]
Messages == [reply : Replies, receivedAt : Nat]
ASSUME NoMessageAssumption == NoMessage \notin Messages
\* What the model writes for "no status" is no status that users send.
ASSUME NoStatusAssumption ==
  ReplyStatuses \cap {"none", "never", "looking", "not_found", "torn"} = {}

VARIABLES clock,
          stage,        \* [Requests -> Stages], how far RequestAuth etc. has got
          asked,        \* requests the user's vault has received
          status, expiresAt, respondedAt, response,   \* the fields of a request
          pending,      \* requests in the `pending' map of their instance
          callbacks,    \* requests with an entry in the `callbacks' map
          wpc, wmsg,    \* what a worker is doing, and with which message
          wcb,          \* whether it took a callback out of the map
          posting,      \* requests whose webhook goroutine is running
          calledBack, hooked,   \* how often the callback, the webhook was called
          poll,         \* [Requests -> what the last GET returned]
          pollSaw,      \* [Requests -> the status when the GET took its pointer]
          crashes

clockVars   == <<clock, crashes>>
requestVars == <<status, expiresAt, respondedAt, response>>
mapVars     == <<pending, callbacks>>
workerVars  == <<wpc, wmsg, wcb>>
notifyVars  == <<posting, calledBack, hooked>>
pollVars    == <<poll, pollSaw>>
callVars    == <<stage, asked>>
vars == <<clockVars, callVars, requestVars, mapVars, workerVars, notifyVars, pollVars>>

\* "lost": the process that ran the call, or held the request, has crashed.
Stages   == {"new", "refused", "prepared", "stored", "sent", "returned", "lost"}
Polled   == Statuses \cup {"never", "looking", "not_found", "torn"}
WorkerPc == {"idle", "received", "accepted", "notified"}

TypeOK ==
  /\ clock \in Nat
  /\ stage \in [Requests -> Stages]
  /\ asked \subseteq Requests
  /\ status \in [Requests -> Statuses]
  /\ expiresAt \in [Requests -> Int]
  /\ respondedAt \in [Requests -> Int]
  /\ response \in [Requests -> Messages \cup {NoMessage}]
  /\ pending \subseteq Requests
  /\ callbacks \subseteq Requests
  /\ wpc \in [Workers -> WorkerPc]
  /\ wmsg \in [Workers -> Messages \cup {NoMessage}]
  /\ wcb \in [Workers -> BOOLEAN]
  /\ posting \subseteq Requests
  /\ calledBack \in [Requests -> Nat]
  /\ hooked \in [Requests -> Nat]
  /\ poll \in [Requests -> Polled]
  /\ pollSaw \in [Requests -> Statuses]
  /\ crashes \in Nat

NilTime == -1    \* RespondedAt == nil

Init ==
  /\ clock = 0
  /\ stage = [r \in Requests |-> "new"]
  /\ asked = {}
  /\ status = [r \in Requests |-> "none"]
  /\ expiresAt = [r \in Requests |-> 0]
  /\ respondedAt = [r \in Requests |-> NilTime]
  /\ response = [r \in Requests |-> NoMessage]
  /\ pending = {} /\ callbacks = {}
  /\ wpc = [w \in Workers |-> "idle"]
  /\ wmsg = [w \in Workers |-> NoMessage]
  /\ wcb = [w \in Workers |-> FALSE]
  /\ posting = {}
  /\ calledBack = [r \in Requests |-> 0]
  /\ hooked = [r \in Requests |-> 0]
  /\ poll = [r \in Requests |-> "never"]
  /\ pollSaw = [r \in Requests |-> "none"]
  /\ crashes = 0

-----------------------------------------------------------------------------
(* Time, the only part of the environment with a state of its own.         *)

Tick == /\ clock < MaxClock
        /\ clock' = clock + 1
        /\ UNCHANGED <<crashes, callVars, requestVars, mapVars,
                       workerVars, notifyVars, pollVars>>

-----------------------------------------------------------------------------
(* RequestAuth, RequestAuthz, createRequest, createSecretRequest.          *)

\* GetContract and VerifyCapability allow the request or they do not (the
\* contracts table belongs to module Negotiation and may say either at any
\* time); an allowed request is then built from the clock.
Prepare(r) ==
  /\ stage[r] = "new"
  /\ \/ /\ stage' = [stage EXCEPT ![r] = "prepared"]
        /\ expiresAt' = [expiresAt EXCEPT ![r] = clock + Timeout[r]]
     \/ /\ stage' = [stage EXCEPT ![r] = "refused"]
        /\ UNCHANGED expiresAt
  /\ UNCHANGED <<clockVars, asked, status, respondedAt, response, mapVars,
                 workerVars, notifyVars, pollVars>>

\* h.mu.Lock(); h.pending[requestID] = request; h.mu.Unlock()
Store(r) ==
  /\ stage[r] = "prepared"
  /\ stage' = [stage EXCEPT ![r] = "stored"]
  /\ status' = [status EXCEPT ![r] = "pending"]
  /\ pending' = pending \cup {r}
  /\ UNCHANGED <<clockVars, asked, expiresAt, respondedAt, response, callbacks,
                 workerVars, notifyVars, pollVars>>

\* An error of the send is ignored: the request stays, the user never sees it.
Send(r) ==
  /\ stage[r] = "stored"
  /\ stage' = [stage EXCEPT ![r] = "sent"]
  /\ \E got \in BOOLEAN : asked' = IF got THEN asked \cup {r} ELSE asked
  /\ UNCHANGED <<clockVars, requestVars, mapVars, workerVars, notifyVars, pollVars>>

\* Only now does the backend know the request's identifier.
Return(r) ==
  /\ stage[r] = "sent"
  /\ stage' = [stage EXCEPT ![r] = "returned"]
  /\ UNCHANGED <<clockVars, asked, requestVars, mapVars, workerVars, notifyVars, pollVars>>

-----------------------------------------------------------------------------
(* handleMessage, createMessageHandler, HandleRequest, HandleResponse.     *)

\* The worker stamps the message and looks up the sender's contract; a sender
\* without one changes nothing.
Receive(w, m) ==
  /\ wpc[w] = "idle"
  /\ m.id \in asked
  /\ wpc' = [wpc EXCEPT ![w] = "received"]
  /\ wmsg' = [wmsg EXCEPT ![w] = [reply |-> m, receivedAt |-> clock]]
  /\ UNCHANGED <<clockVars, callVars, requestVars, mapVars, wcb, notifyVars, pollVars>>

Judged(w) == wmsg[w].reply

\* FAULT: whether the request is still pending is not checked under the lock.
AddressedOnce(w) ==
  LET m == Judged(w)
  IN Home[m.id] = At[w] /\ Owner[m.id] = m.from
     /\ (HandlerOf[m.id] = "authz" => m.echo)

\* FAULT: the user a request belongs to is not compared with the sender.
AddressedByAnyone(w) ==
  LET m == Judged(w)
  IN /\ m.id \in pending /\ Home[m.id] = At[w]
     /\ HandlerOf[m.id] = "authz" => m.echo

\* The checks of HandleResponse that come before the clock: known here, from
\* the user it was asked of and, for authz, about what it was asked.
Addressed(w) ==
  LET m == Judged(w)
  IN /\ m.id \in pending
     /\ Home[m.id] = At[w]
     /\ Owner[m.id] = m.from
     /\ HandlerOf[m.id] = "authz" => m.echo

\* Only the secrets handler has no offline grace.
GraceEnd(r) == IF HandlerOf[r] = "secrets" THEN expiresAt[r]
                                           ELSE expiresAt[r] + Grace[r]

\* The secrets handler takes two statuses; the others take what they are given.
Takes(r, s) == HandlerOf[r] = "secrets" => s \in {"approved", "denied"}

\* FAULT: a late approval counts as one in time.
VerdictIgnoringLate(r, s, late) == s

\* FAULT: a late approval gets a status that no client knows.
VerdictUnknown(r, s, late) == IF late /\ s = "approved" THEN "offline" ELSE s

Verdict(r, s, late) == IF late /\ s = "approved" THEN "offline_approved" ELSE s

\* The clock is read under the lock up to three times: against ExpiresAt,
\* against the end of the grace period, and for RespondedAt.
Reading == clock..MaxClock

Done(w) == /\ wpc' = [wpc EXCEPT ![w] = "idle"]
           /\ wmsg' = [wmsg EXCEPT ![w] = NoMessage]
           /\ wcb' = [wcb EXCEPT ![w] = FALSE]

Refuse(w) ==
  /\ wpc[w] = "received"
  /\ \/ ~ Addressed(w)
     \/ \* not expired, but a status the secrets handler does not know
        /\ Addressed(w)
        /\ clock =< expiresAt[Judged(w).id]
        /\ ~ Takes(Judged(w).id, Judged(w).status)
  /\ Done(w)
  /\ UNCHANGED <<clockVars, callVars, requestVars, mapVars, notifyVars, pollVars>>

\* FAULT: a request counts as expired although its grace period still runs.
ExpireInGrace(w) ==
  /\ wpc[w] = "received" /\ Addressed(w)
  /\ \E now \in Reading : now > expiresAt[Judged(w).id] /\ clock' = now
  /\ status' = [status EXCEPT ![Judged(w).id] = "expired"]
  /\ Done(w)
  /\ UNCHANGED <<crashes, callVars, expiresAt, respondedAt, response,
                 mapVars, notifyVars, pollVars>>

\* Too late: the status changes, the request stays in the map.
Expire(w) ==
  /\ wpc[w] = "received"
  /\ Addressed(w)
  /\ \E now \in Reading :
       /\ now > expiresAt[Judged(w).id] /\ now > GraceEnd(Judged(w).id)
       /\ clock' = now
  /\ status' = [status EXCEPT ![Judged(w).id] = "expired"]
  /\ Done(w)
  /\ UNCHANGED <<crashes, callVars, expiresAt, respondedAt, response,
                 mapVars, notifyVars, pollVars>>

\* In time or within the grace period: the verdict is recorded and the request
\* and its callback leave the maps before the lock is released.
Accept(w) ==
  LET r == Judged(w).id
  IN /\ wpc[w] = "received"
     /\ Addressed(w)
     /\ Takes(r, Judged(w).status)
     /\ \E first, second, last \in Reading :
          /\ first =< second /\ second =< last
          /\ \/ first =< expiresAt[r]
             \/ first > expiresAt[r] /\ second =< GraceEnd(r)
          /\ status' = [status EXCEPT ![r] =
                          Verdict(r, Judged(w).status, first > expiresAt[r])]
          /\ respondedAt' = [respondedAt EXCEPT ![r] =
                               IF HandlerOf[r] = "secrets" THEN @ ELSE last]
          /\ clock' = last
     /\ response' = [response EXCEPT ![r] = wmsg[w]]
     /\ wcb' = [wcb EXCEPT ![w] = r \in callbacks]
     /\ callbacks' = callbacks \ {r}
     /\ pending' = pending \ {r}
     /\ wpc' = [wpc EXCEPT ![w] = "accepted"]
     /\ UNCHANGED <<crashes, callVars, expiresAt, wmsg, notifyVars, pollVars>>

\* FAULT: a request with a callback gets no webhook.
RunCallbackOnly(w) ==
  /\ wpc[w] = "accepted"
  /\ IF wcb[w] THEN Done(w) ELSE /\ wpc' = [wpc EXCEPT ![w] = "notified"]
                                /\ UNCHANGED <<wmsg, wcb>>
  /\ calledBack' = IF wcb[w] THEN [calledBack EXCEPT ![Judged(w).id] = @ + 1]
                             ELSE calledBack
  /\ UNCHANGED <<clockVars, callVars, requestVars, mapVars, posting, hooked, pollVars>>

\* FAULT: the callback is looked up in the map after it was deleted there.
RunCallbackInMap(w) ==
  /\ wpc[w] = "accepted"
  /\ wpc' = [wpc EXCEPT ![w] = "notified"]
  /\ calledBack' = IF Judged(w).id \in callbacks
                   THEN [calledBack EXCEPT ![Judged(w).id] = @ + 1] ELSE calledBack
  /\ UNCHANGED <<clockVars, callVars, requestVars, mapVars, wmsg, wcb, posting,
                 hooked, pollVars>>

\* Outside the lock: callback(request, response), when one was registered.
RunCallback(w) ==
  /\ wpc[w] = "accepted"
  /\ wpc' = [wpc EXCEPT ![w] = "notified"]
  /\ calledBack' = IF wcb[w] THEN [calledBack EXCEPT ![Judged(w).id] = @ + 1]
                             ELSE calledBack
  /\ UNCHANGED <<clockVars, callVars, requestVars, mapVars, wmsg, wcb, posting,
                 hooked, pollVars>>

\* go h.callWebhook(request, response), and the worker is free again.
SpawnHook(w) ==
  /\ wpc[w] = "notified"
  /\ posting' = IF HasHook[Judged(w).id] THEN posting \cup {Judged(w).id} ELSE posting
  /\ Done(w)
  /\ UNCHANGED <<clockVars, callVars, requestVars, mapVars, calledBack, hooked, pollVars>>

\* callWebhook: a POST (for a secret, callWebhookHTTP's series of them), counted as one
\* call whatever comes of it.
Post(r) ==
  /\ r \in posting
  /\ posting' = posting \ {r}
  /\ hooked' = [hooked EXCEPT ![r] = @ + 1]
  /\ UNCHANGED <<clockVars, callVars, requestVars, mapVars, workerVars, calledBack,
                 pollVars>>

-----------------------------------------------------------------------------
(* The backend: SetCallback and polling, both of which need the identifier *)
(* that RequestAuth returned; and Cleanup.                                 *)

SetCallback(r) ==
  /\ stage[r] = "returned"
  /\ callbacks' = callbacks \cup {r}
  /\ UNCHANGED <<clockVars, callVars, requestVars, pending, workerVars, notifyVars, pollVars>>

\* GetRequest returns a pointer to the live request; any instance may be asked.
PollLookup(r, i) ==
  /\ stage[r] \in {"returned", "lost"}
  /\ poll[r] # "looking"
  /\ IF r \in pending /\ Home[r] = i
     THEN /\ poll' = [poll EXCEPT ![r] = "looking"]
          /\ pollSaw' = [pollSaw EXCEPT ![r] = status[r]]
     ELSE /\ poll' = [poll EXCEPT ![r] = "not_found"]
          /\ UNCHANGED pollSaw
  /\ UNCHANGED <<clockVars, callVars, requestVars, mapVars, workerVars, notifyVars>>

\* request.Status is read after the lock is gone.  The read races with
\* HandleResponse: it gives the old string, the new one, or a mixture.
PollRead(r) ==
  /\ poll[r] = "looking"
  /\ \E s \in {pollSaw[r], status[r]}
              \cup (IF pollSaw[r] = status[r] THEN {} ELSE {"torn"}) :
       poll' = [poll EXCEPT ![r] = s]
  /\ pollSaw' = [pollSaw EXCEPT ![r] = "none"]
  /\ UNCHANGED <<clockVars, callVars, requestVars, mapVars, workerVars, notifyVars>>

\* FAULT: Cleanup takes ExpiresAt for the end of the grace period.
CleanupInGrace(i, h) ==
  LET late == {r \in pending : Home[r] = i /\ HandlerOf[r] = h /\ clock > expiresAt[r]}
  IN /\ pending' = pending \ late
     /\ callbacks' = callbacks \ late
     /\ UNCHANGED <<clockVars, callVars, requestVars, workerVars, notifyVars, pollVars>>

Cleanup(i, h) ==
  LET late == {r \in pending : Home[r] = i /\ HandlerOf[r] = h /\ clock > GraceEnd(r)}
  IN /\ pending' = pending \ late
     /\ callbacks' = callbacks \ late
     /\ UNCHANGED <<clockVars, callVars, requestVars, workerVars, notifyVars, pollVars>>

\* CheckAuthorization(userID, action, resource), asked of the instance that made
\* the request r for that user, action and resource.
CheckAuthorization(r) ==
  /\ r \in pending
  /\ response[r] # NoMessage
  /\ status[r] = "approved"

-----------------------------------------------------------------------------
(* An instance stops: its maps, goroutines and calls in progress are gone. *)

Crash(i) ==
  LET here == {r \in Requests : Home[r] = i}
  IN /\ crashes < MaxCrashes
     /\ crashes' = crashes + 1
     /\ pending' = pending \ here
     /\ callbacks' = callbacks \ here
     /\ posting' = posting \ here
     /\ stage' = [r \in Requests |->
                    IF r \in here /\ stage[r] \notin {"new", "refused"} THEN "lost"
                                                                        ELSE stage[r]]
     /\ wpc' = [w \in Workers |-> IF At[w] = i THEN "idle" ELSE wpc[w]]
     /\ wmsg' = [w \in Workers |-> IF At[w] = i THEN NoMessage ELSE wmsg[w]]
     /\ wcb' = [w \in Workers |-> IF At[w] = i THEN FALSE ELSE wcb[w]]
     /\ poll' = [r \in Requests |->
                   IF r \in here /\ poll[r] = "looking" THEN "never" ELSE poll[r]]
     /\ pollSaw' = [r \in Requests |-> IF r \in here THEN "none" ELSE pollSaw[r]]
     /\ UNCHANGED <<clock, asked, requestVars, calledBack, hooked>>

-----------------------------------------------------------------------------
Next ==
  \/ Tick
  \/ \E r \in Requests : \/ Prepare(r) \/ Store(r) \/ Send(r) \/ Return(r)
                         \/ SetCallback(r) \/ PollRead(r) \/ Post(r)
                         \/ \E i \in Instances : PollLookup(r, i)
  \/ \E w \in Workers : \/ Refuse(w) \/ Expire(w) \/ Accept(w)
                        \/ RunCallback(w) \/ SpawnHook(w)
                        \/ \E m \in Replies : Receive(w, m)
  \/ \E i \in Instances : Crash(i) \/ \E h \in Handlers : Cleanup(i, h)

Spec == Init /\ [][Next]_vars

\* A goroutine that is running goes on running, and a callback returns.
Fairness == /\ \A w \in Workers : WF_vars(RunCallback(w)) /\ WF_vars(SpawnHook(w))
            /\ \A r \in Requests : WF_vars(Post(r))

FairSpec == Spec /\ Fairness

-----------------------------------------------------------------------------
(* What the backend may rely on.                                           *)

\* However often a reply is delivered, to however many goroutines, the backend
\* hears of it at most once through each channel (HandleResponse deletes the
\* request under the lock it checked it under).
AtMostOneNotification ==
  \A r \in Requests : calledBack[r] =< 1 /\ hooked[r] =< 1

\* A verdict is written once: no later reply, expiry or cleanup changes it.
DecisionIsFinal ==
  [][\A r \in Requests : response[r] # NoMessage =>
        /\ response'[r] = response[r]
        /\ status'[r] = status[r]
        /\ respondedAt'[r] = respondedAt[r]]_vars

\* The clock readings of HandleResponse agree on which side of ExpiresAt and of
\* the grace period an answer fell: what was accepted reached the vault before
\* one of the two ended; "approved" means it came in time; an approval turned into
\* "offline_approved" was recorded after expiry but reached the vault before the
\* grace period ended; a secret, which has no grace period, was never answered late.
OnTimeOrGrace ==
  \A r \in Requests : response[r] # NoMessage =>
    /\ response[r].receivedAt =< expiresAt[r] \/ response[r].receivedAt =< GraceEnd(r)
    /\ status[r] = "approved" => response[r].receivedAt =< expiresAt[r]
    /\ (response[r].reply.status = "approved" /\ status[r] = "offline_approved") =>
          HandlerOf[r] # "secrets" /\ respondedAt[r] > expiresAt[r]

\* What was accepted came from the user who was asked, names this request and,
\* for an authorization, the same action and resource, and no status that a
\* handler checks for got past it (wmsg is kept across the lock, where other
\* workers run).
AcceptedIsGenuine ==
  \A r \in Requests : response[r] # NoMessage =>
    LET m == response[r].reply
    IN /\ m.id = r /\ m.from = Owner[r] /\ r \in asked
       /\ HandlerOf[r] = "authz" => m.echo
       /\ HandlerOf[r] = "secrets" => status[r] \in {"approved", "denied"}

\* Cleanup never discards a request in its grace period: without a crash, an
\* unanswered request leaves the map only after GraceEnd.  (With a negative
\* grace, which the API lets through, that is before ExpiresAt.)
NoEarlyLoss ==
  \A r \in Requests :
    (/\ stage[r] \in {"stored", "sent", "returned"}
     /\ response[r] = NoMessage
     /\ r \notin pending) => clock > GraceEnd(r)

\* A GET that reported a verdict, or an expiry, told the truth for good, though
\* it read the status without the lock.
ReportedVerdictStands ==
  \A r \in Requests :
    poll[r] \in {"approved", "denied", "offline_approved", "expired"} =>
      poll[r] = status[r]

\* The webhook of an answered request is called, unless the process dies first.
HookIsCalled ==
  \A r \in Requests :
    (response[r] # NoMessage /\ HasHook[r]) ~> (hooked[r] > 0 \/ stage[r] = "lost")

\* A callback taken out of the map is run, unless the process dies first.
CallbackIsRun ==
  \A w \in Workers : \A r \in Requests :
    (wpc[w] = "accepted" /\ Judged(w).id = r /\ wcb[w])
      ~> (calledBack[r] > 0 \/ stage[r] = "lost")

-----------------------------------------------------------------------------
(* What the documentation or the comments say, and the code does not do.   *)

\* openapi.yaml: GET returns "the current status of an authentication request".
\* An instance that holds the request says "not found" only of one it was never
\* asked, and so never of one that has been answered.
AnsweredRequestIsReported ==
  \A r \in Requests :
    (poll[r] = "not_found" /\ Cardinality(Instances) = 1 /\ crashes = 0)
       => response[r] = NoMessage

\* CheckAuthorization "returns true if the user has an unexpired approval for
\* the action/resource", as long as the process that took the approval lives.
ApprovalIsFound ==
  \A r \in Requests :
    (HandlerOf[r] = "authz" /\ status[r] = "approved" /\ stage[r] # "lost")
       => CheckAuthorization(r)

-----------------------------------------------------------------------------
(* Refinement: the four handlers keep the promise of RequestPromise.       *)

VerdictOf(r) == CASE response[r] # NoMessage -> status[r]
                  [] response[r] = NoMessage /\ status[r] = "none" -> "unasked"
                  [] response[r] = NoMessage /\ status[r] = "expired" -> "lapsed"
                  [] OTHER -> "open"

HeardOf(r) == (IF calledBack[r] > 0 THEN {"callback"} ELSE {})
              \cup (IF hooked[r] > 0 THEN {"webhook"} ELSE {})

Promise == INSTANCE RequestPromise
             WITH verdict <- [r \in Requests |-> VerdictOf(r)],
                  heard   <- [r \in Requests |-> HeardOf(r)]

\* Every behaviour of the handlers is one of RequestPromise.
RefinesPromise == Promise!Spec
=============================================================================
