------------------------------- MODULE Calls -------------------------------
(***************************************************************************)
(* Call signalling: CallHandler of src/vault/internal/handler/call.go.     *)
(*                                                                         *)
(*   InitiateCall     : check the contract, store the request in `pending',*)
(*                      send it to the user, start a watcher, return;      *)
(*   handleAccept     : the request becomes a call in `activeCalls';       *)
(*   handleReject     : the request is dropped;                            *)
(*   watchCallTimeout : a goroutine of its own sleeps until ExpiresAt and, *)
(*                      if the request is still pending, drops it;         *)
(*   handleAnswer, handleHangup, EndCall : on an active call.              *)
(*                                                                         *)
(* Whoever takes a request out of `pending' does so under the lock, takes  *)
(* its callback along, and outside the lock runs the callback and calls    *)
(* the webhook: a worker (a goroutine that delivers the users' signals)    *)
(* starts a goroutine for the webhook, the watcher calls it itself.        *)
(* The maps live in memory: when the process ends, so do the calls.        *)
(***************************************************************************)
EXTENDS Integers, Sequences

CONSTANTS Users,      \* user identifiers
          Requests,   \* request identifiers; each has one watcher
          Workers,    \* signal-delivering goroutines
          Owner,      \* UserID of a request
          RingTime,   \* ExpiresAt - CreatedAt
          HasHook,    \* CallbackURL # ""
          MaxClock    \* bound on the clock

Goroutines == Workers \cup Requests

ASSUME CallsAssumption ==
  /\ Owner \in [Requests -> Users]
  /\ RingTime \in [Requests -> Int]    \* the API takes negative times too
  /\ HasHook \in [Requests -> BOOLEAN]
  /\ MaxClock \in Nat
  /\ Workers \cap Requests = {}

VARIABLES clock,
          stage,       \* [Requests -> Stages], how far InitiateCall has got
          asked,       \* requests the user's vault has received
          status, expiresAt,   \* fields of a CallRequest
          pending,     \* requests in the `pending' map
          callbacks,   \* requests with an entry in the `callbacks' map
          activeCalls, \* requests whose call is in the `activeCalls' map
          callStatus, callUser, startedAt, connectedAt, endedAt, duration,
                       \* fields of the Call of a request
          pc,          \* what a goroutine does next
          about, news, hasCallback,   \* the request it took, what came of it
          posting,     \* webhook goroutines: requests with the news they post
          calledBack, hooked   \* what callback and webhook have been called with

requestVars == <<stage, asked, status, expiresAt, pending, callbacks>>
callVars    == <<activeCalls, callStatus, callUser, startedAt, connectedAt, endedAt,
                 duration>>
goVars      == <<pc, about, news, hasCallback>>
notifyVars  == <<posting, calledBack, hooked>>
vars == <<clock, requestVars, callVars, goVars, notifyVars>>

Stages       == {"new", "refused", "prepared", "stored", "sent", "returned"}
Statuses     == {"none", "pending", "approved", "denied", "expired"}
CallStatuses == {"none", "connecting", "connected", "ended"}
News         == {"accepted", "rejected", "missed"}
Steps        == {"idle", "spawned", "sleeping", "decided", "calledBack", "done"}
NilTime      == -1
Nobody       == "nobody"
Nothing      == "nothing"

TypeOK ==
  /\ clock \in Nat
  /\ stage \in [Requests -> Stages]
  /\ asked \subseteq Requests
  /\ status \in [Requests -> Statuses]
  /\ expiresAt \in [Requests -> Int]
  /\ pending \subseteq Requests /\ callbacks \subseteq Requests
  /\ activeCalls \subseteq Requests
  /\ callStatus \in [Requests -> CallStatuses]
  /\ callUser \in [Requests -> Users \cup {Nobody}]
  /\ startedAt \in [Requests -> Int] /\ connectedAt \in [Requests -> Int]
  /\ endedAt \in [Requests -> Int] /\ duration \in [Requests -> Int]
  /\ pc \in [Goroutines -> Steps]
  /\ about \in [Goroutines -> Requests \cup {Nothing}]
  /\ news \in [Goroutines -> News \cup {Nothing}]
  /\ hasCallback \in [Goroutines -> BOOLEAN]
  /\ posting \subseteq Requests \X News
  /\ calledBack \in [Requests -> Seq(News)]
  /\ hooked \in [Requests -> Seq(News)]

Init ==
  /\ clock = 0
  /\ stage = [r \in Requests |-> "new"]
  /\ asked = {}
  /\ status = [r \in Requests |-> "none"]
  /\ expiresAt = [r \in Requests |-> 0]
  /\ pending = {} /\ callbacks = {} /\ activeCalls = {}
  /\ callStatus = [r \in Requests |-> "none"]
  /\ callUser = [r \in Requests |-> Nobody]
  /\ startedAt = [r \in Requests |-> NilTime]
  /\ connectedAt = [r \in Requests |-> NilTime]
  /\ endedAt = [r \in Requests |-> NilTime]
  /\ duration = [r \in Requests |-> 0]
  /\ pc = [g \in Goroutines |-> "idle"]
  /\ about = [g \in Goroutines |-> Nothing]
  /\ news = [g \in Goroutines |-> Nothing]
  /\ hasCallback = [g \in Goroutines |-> FALSE]
  /\ posting = {}
  /\ calledBack = [r \in Requests |-> <<>>]
  /\ hooked = [r \in Requests |-> <<>>]

Tick == /\ clock < MaxClock
        /\ clock' = clock + 1
        /\ UNCHANGED <<requestVars, callVars, goVars, notifyVars>>

-----------------------------------------------------------------------------
(* InitiateCall.                                                           *)

\* The contract allows calls or it does not.  (The bounded clock leaves room for
\* the whole ring time.)
Prepare(r) ==
  /\ stage[r] = "new"
  /\ \/ /\ clock + RingTime[r] =< MaxClock
        /\ stage' = [stage EXCEPT ![r] = "prepared"]
        /\ expiresAt' = [expiresAt EXCEPT ![r] = clock + RingTime[r]]
     \/ /\ stage' = [stage EXCEPT ![r] = "refused"]
        /\ UNCHANGED expiresAt
  /\ UNCHANGED <<clock, asked, status, pending, callbacks, callVars, goVars, notifyVars>>

Store(r) ==
  /\ stage[r] = "prepared"
  /\ stage' = [stage EXCEPT ![r] = "stored"]
  /\ status' = [status EXCEPT ![r] = "pending"]
  /\ pending' = pending \cup {r}
  /\ UNCHANGED <<clock, asked, expiresAt, callbacks, callVars, goVars, notifyVars>>

\* A failed send is ignored: the watcher will find that nobody answered.
Send(r) ==
  /\ stage[r] = "stored"
  /\ stage' = [stage EXCEPT ![r] = "sent"]
  /\ \E got \in BOOLEAN : asked' = IF got THEN asked \cup {r} ELSE asked
  /\ UNCHANGED <<clock, status, expiresAt, pending, callbacks, callVars, goVars,
                 notifyVars>>

\* go h.watchCallTimeout(requestID), and back to the caller.
Return(r) ==
  /\ stage[r] = "sent"
  /\ stage' = [stage EXCEPT ![r] = "returned"]
  /\ pc' = [pc EXCEPT ![r] = "spawned"]
  /\ UNCHANGED <<clock, asked, status, expiresAt, pending, callbacks, callVars,
                 about, news, hasCallback, notifyVars>>

SetCallback(r) ==
  /\ stage[r] = "returned"
  /\ callbacks' = callbacks \cup {r}
  /\ UNCHANGED <<clock, stage, asked, status, expiresAt, pending, callVars, goVars,
                 notifyVars>>

-----------------------------------------------------------------------------
(* Three ways in which a request leaves the map.                           *)

\* Goroutine g gives request r the status s and takes it and its callback out of
\* the maps, to tell of it as n.
Decide(g, r, s, n) ==
  /\ status' = [status EXCEPT ![r] = s]
  /\ pending' = pending \ {r}
  /\ callbacks' = callbacks \ {r}
  /\ about' = [about EXCEPT ![g] = r]
  /\ news' = [news EXCEPT ![g] = n]
  /\ hasCallback' = [hasCallback EXCEPT ![g] = r \in callbacks]
  /\ pc' = [pc EXCEPT ![g] = "decided"]

\* handleAccept: not found and not the user's own are refused without a trace.
\* The second reading of the clock is the call's StartedAt.
Accept(w, u, r) ==
  /\ pc[w] = "idle" /\ r \in asked
  /\ r \in pending /\ u = Owner[r]
  /\ clock =< expiresAt[r]
  /\ Decide(w, r, "approved", "accepted")
  /\ activeCalls' = activeCalls \cup {r}
  /\ callStatus' = [callStatus EXCEPT ![r] = "connecting"]
  /\ callUser' = [callUser EXCEPT ![r] = u]
  /\ \E now \in clock..MaxClock : /\ startedAt' = [startedAt EXCEPT ![r] = now]
                                  /\ clock' = now
  /\ UNCHANGED <<stage, asked, expiresAt, connectedAt, endedAt, duration, notifyVars>>

\* FAULT: a late accept also removes the request, and with it the watcher's work.
AcceptLateAndDrop(w, u, r) ==
  /\ pc[w] = "idle" /\ r \in asked
  /\ r \in pending /\ u = Owner[r]
  /\ clock > expiresAt[r]
  /\ status' = [status EXCEPT ![r] = "expired"]
  /\ pending' = pending \ {r}
  /\ UNCHANGED <<clock, stage, asked, expiresAt, callbacks, callVars, goVars,
                 notifyVars>>

\* FAULT: a request counts as expired at the very moment of ExpiresAt.
AcceptLateAtOnce(w, u, r) ==
  /\ pc[w] = "idle" /\ r \in asked
  /\ r \in pending /\ u = Owner[r]
  /\ clock >= expiresAt[r]
  /\ status' = [status EXCEPT ![r] = "expired"]
  /\ UNCHANGED <<clock, stage, asked, expiresAt, pending, callbacks, callVars, goVars,
                 notifyVars>>

\* handleAccept of an expired request: it stays pending, for the watcher.
AcceptLate(w, u, r) ==
  /\ pc[w] = "idle" /\ r \in asked
  /\ r \in pending /\ u = Owner[r]
  /\ clock > expiresAt[r]
  /\ status' = [status EXCEPT ![r] = "expired"]
  /\ UNCHANGED <<clock, stage, asked, expiresAt, pending, callbacks, callVars, goVars,
                 notifyVars>>

\* handleReject: at any time, even after ExpiresAt.
Reject(w, u, r) ==
  /\ pc[w] = "idle" /\ r \in asked
  /\ r \in pending /\ u = Owner[r]
  /\ Decide(w, r, "denied", "rejected")
  /\ UNCHANGED <<clock, stage, asked, expiresAt, callVars, notifyVars>>

\* watchCallTimeout: the first look at the map, and the sleep.
Watch(r) ==
  /\ pc[r] = "spawned"
  /\ pc' = [pc EXCEPT ![r] = IF r \in pending THEN "sleeping" ELSE "done"]
  /\ UNCHANGED <<clock, requestVars, callVars, about, news, hasCallback, notifyVars>>

\* FAULT: after the sleep the map is not looked at again.
WakeUpRegardless(r) ==
  /\ pc[r] = "sleeping"
  /\ clock >= expiresAt[r]
  /\ Decide(r, r, "expired", "missed")
  /\ UNCHANGED <<clock, stage, asked, expiresAt, callVars, notifyVars>>

\* FAULT: a request that a late accept has marked is taken for decided.
WakeUpIfUnmarked(r) ==
  /\ pc[r] = "sleeping"
  /\ clock >= expiresAt[r]
  /\ IF r \in pending /\ status[r] = "pending"
     THEN Decide(r, r, "expired", "missed")
     ELSE /\ pc' = [pc EXCEPT ![r] = "done"]
          /\ UNCHANGED <<status, pending, callbacks, about, news, hasCallback>>
  /\ UNCHANGED <<clock, stage, asked, expiresAt, callVars, notifyVars>>

\* FAULT: the sleep ends early.
WakeUpEarly(r) ==
  /\ pc[r] = "sleeping" /\ r \in pending
  /\ Decide(r, r, "expired", "missed")
  /\ UNCHANGED <<clock, stage, asked, expiresAt, callVars, notifyVars>>

\* FAULT: the call is reported under its EndReason.
WakeUpTimeout(r) ==
  /\ pc[r] = "sleeping" /\ r \in pending
  /\ clock >= expiresAt[r]
  /\ Decide(r, r, "expired", "timeout")
  /\ UNCHANGED <<clock, stage, asked, expiresAt, callVars, notifyVars>>

\* The sleep is over: if the request is still pending, the call was missed.
WakeUp(r) ==
  /\ pc[r] = "sleeping"
  /\ clock >= expiresAt[r]
  /\ \/ /\ r \in pending
        /\ Decide(r, r, "expired", "missed")
     \/ /\ r \notin pending
        /\ pc' = [pc EXCEPT ![r] = "done"]
        /\ UNCHANGED <<status, pending, callbacks, about, news, hasCallback>>
  /\ UNCHANGED <<clock, stage, asked, expiresAt, callVars, notifyVars>>

-----------------------------------------------------------------------------
(* Outside the lock: the backend is told.                                  *)

RunCallback(g) ==
  /\ pc[g] = "decided"
  /\ pc' = [pc EXCEPT ![g] = "calledBack"]
  /\ calledBack' = IF hasCallback[g]
                   THEN [calledBack EXCEPT ![about[g]] = Append(@, news[g])]
                   ELSE calledBack
  /\ UNCHANGED <<clock, requestVars, callVars, about, news, hasCallback, posting, hooked>>

Forget(g, step) == /\ pc' = [pc EXCEPT ![g] = step]
                   /\ about' = [about EXCEPT ![g] = Nothing]
                   /\ news' = [news EXCEPT ![g] = Nothing]
                   /\ hasCallback' = [hasCallback EXCEPT ![g] = FALSE]

\* go h.engine.callWebhook(...), and the worker is free again.
SpawnHook(w) ==
  /\ pc[w] = "calledBack"
  /\ posting' = IF HasHook[about[w]] THEN posting \cup {<<about[w], news[w]>>} ELSE posting
  /\ Forget(w, "idle")
  /\ UNCHANGED <<clock, requestVars, callVars, calledBack, hooked>>

\* The watcher calls the webhook itself.
HookMissed(r) ==
  /\ pc[r] = "calledBack"
  /\ hooked' = IF HasHook[r] THEN [hooked EXCEPT ![r] = Append(@, news[r])] ELSE hooked
  /\ Forget(r, "done")
  /\ UNCHANGED <<clock, requestVars, callVars, posting, calledBack>>

\* callWebhookHTTP, with its retries, as one call.
Post(p) ==
  /\ p \in posting
  /\ posting' = posting \ {p}
  /\ hooked' = [hooked EXCEPT ![p[1]] = Append(@, p[2])]
  /\ UNCHANGED <<clock, requestVars, callVars, goVars, calledBack>>

-----------------------------------------------------------------------------
(* An active call.                                                         *)

\* FAULT: the SDP answer is stored in a call that has left the map.
AnswerEnded(w, u, r) ==
  /\ pc[w] = "idle" /\ callStatus[r] # "none" /\ u = callUser[r]
  /\ callStatus' = [callStatus EXCEPT ![r] = "connected"]
  /\ connectedAt' = [connectedAt EXCEPT ![r] = clock]
  /\ UNCHANGED <<clock, requestVars, activeCalls, callUser, startedAt, endedAt,
                 duration, goVars, notifyVars>>

\* handleAnswer, any number of times: ConnectedAt is the time of the last one.
Answer(w, u, r) ==
  /\ pc[w] = "idle" /\ r \in activeCalls /\ u = callUser[r]
  /\ callStatus' = [callStatus EXCEPT ![r] = "connected"]
  /\ connectedAt' = [connectedAt EXCEPT ![r] = clock]
  /\ UNCHANGED <<clock, requestVars, activeCalls, callUser, startedAt, endedAt,
                 duration, goVars, notifyVars>>

\* FAULT: the duration of a call that never connected is counted from no time.
EndUnconnected(r) ==
  /\ r \in activeCalls
  /\ activeCalls' = activeCalls \ {r}
  /\ callStatus' = [callStatus EXCEPT ![r] = "ended"]
  /\ endedAt' = [endedAt EXCEPT ![r] = clock]
  /\ duration' = [duration EXCEPT ![r] = clock - connectedAt[r]]
  /\ UNCHANGED <<clock, requestVars, callUser, startedAt, connectedAt, goVars, notifyVars>>

End(r) ==
  /\ r \in activeCalls
  /\ activeCalls' = activeCalls \ {r}
  /\ callStatus' = [callStatus EXCEPT ![r] = "ended"]
  /\ endedAt' = [endedAt EXCEPT ![r] = clock]
  /\ duration' = IF connectedAt[r] = NilTime THEN duration
                 ELSE [duration EXCEPT ![r] = clock - connectedAt[r]]
  /\ UNCHANGED <<clock, requestVars, callUser, startedAt, connectedAt, goVars, notifyVars>>

\* handleHangup: the backend is not told.
Hangup(w, u, r) == pc[w] = "idle" /\ u = callUser[r] /\ End(r)

\* EndCall, from the backend, which has the identifier from the callback or the
\* webhook; the message to the user changes nothing here.
EndCall(r) == End(r)

\* A call's own identifier is drawn when it is accepted; InitiateCall returns the
\* identifier of the request.
CallID(r) == <<"call", r>>
GetCall(id) == {r \in activeCalls : CallID(r) = id}
ReturnedID(r) == r

-----------------------------------------------------------------------------
Next ==
  \/ Tick
  \/ \E r \in Requests :
       \/ Prepare(r) \/ Store(r) \/ Send(r) \/ Return(r) \/ SetCallback(r)
       \/ Watch(r) \/ WakeUp(r) \/ HookMissed(r) \/ EndCall(r)
       \/ \E w \in Workers, u \in Users :
            \/ Accept(w, u, r) \/ AcceptLate(w, u, r) \/ Reject(w, u, r)
            \/ Answer(w, u, r) \/ Hangup(w, u, r)
  \/ \E g \in Goroutines : RunCallback(g)
  \/ \E w \in Workers : SpawnHook(w)
  \/ \E p \in posting : Post(p)

Spec == Init /\ [][Next]_vars

\* Time passes, a goroutine that can run runs, a callback returns, a webhook
\* call succeeds or gives up, and InitiateCall goes on once it has begun.
Fairness ==
  /\ WF_vars(Tick)
  /\ \A r \in Requests : /\ WF_vars(Store(r)) /\ WF_vars(Send(r)) /\ WF_vars(Return(r))
                         /\ WF_vars(Watch(r)) /\ WF_vars(WakeUp(r))
                         /\ WF_vars(HookMissed(r))
  /\ \A g \in Goroutines : WF_vars(RunCallback(g))
  /\ \A w \in Workers : WF_vars(SpawnHook(w))
  /\ \A p \in Requests \X News : WF_vars(Post(p))

FairSpec == Spec /\ Fairness

-----------------------------------------------------------------------------
\* What has become of a request, as its own fields and the map say.
Outcome(r) == IF status[r] = "none" THEN "unasked"
              ELSE IF r \in pending THEN "open"
              ELSE IF status[r] = "approved" THEN "accepted"
              ELSE IF status[r] = "denied" THEN "rejected"
              ELSE "missed"

\* The user and the watcher race for a request, and one of them gets it: callback
\* and webhook are each called at most once, both with what the request says, and
\* there is a call exactly if that is "accepted".
OneOutcome ==
  \A r \in Requests :
    /\ calledBack[r] \in {<<>>, <<Outcome(r)>>}
    /\ hooked[r] \in {<<>>, <<Outcome(r)>>}
    /\ Outcome(r) \in {"unasked", "open"} => calledBack[r] = <<>> /\ hooked[r] = <<>>
    /\ callStatus[r] # "none" <=> Outcome(r) = "accepted"

\* A call counts as missed at ExpiresAt at the earliest, by the watcher's clock
\* as by the handler's; and whoever accepted is the user who was called.
MissedIsOver ==
  \A r \in Requests :
    /\ Outcome(r) = "missed" => clock >= expiresAt[r]
    /\ (Outcome(r) = "open" /\ status[r] = "expired") => clock > expiresAt[r]
    /\ Outcome(r) = "accepted" => callUser[r] = Owner[r]

\* A request that was once reported as expired becomes no call, although it stays
\* in the map and the user may try again before the watcher wakes up.
NoCallOnceExpired ==
  [][\A r \in Requests : status[r] = "expired" =>
       status'[r] # "approved" /\ callStatus'[r] = callStatus[r]]_vars

\* Hang-up, EndCall and a late SDP answer overlap: a call that ended stays ended,
\* as it was, and out of the map; and its duration lies within the call.
EndedForGood ==
  [][\A r \in Requests : callStatus[r] = "ended" =>
       /\ callStatus'[r] = "ended" /\ r \notin activeCalls'
       /\ endedAt'[r] = endedAt[r] /\ duration'[r] = duration[r]
       /\ connectedAt'[r] = connectedAt[r]]_vars

DurationWithinCall ==
  \A r \in Requests : callStatus[r] = "ended" =>
    /\ 0 =< duration[r] /\ duration[r] =< endedAt[r] - startedAt[r]
    /\ connectedAt[r] = NilTime => duration[r] = 0

\* A ring does not last for ever: the watcher ends what nobody answered.
RingEnds == \A r \in Requests : (r \in pending) ~> (r \notin pending)

\* The backend that gave a callback URL hears of the outcome.
OutcomeIsTold ==
  \A r \in Requests : (Outcome(r) \in News /\ HasHook[r]) ~> (hooked[r] # <<>>)

\* sdk/go/README.md polls and ends a call by the identifier that starting it
\* returned: while the call is active, that identifier leads to it.
InitiatedCallIsFound ==
  \A r \in activeCalls : stage[r] = "returned" => r \in GetCall(ReturnedID(r))

-----------------------------------------------------------------------------
\* The call handler keeps the promise of the request handlers, with "missed" as
\* one more verdict that the backend is told of.
HeardOf(r) == (IF calledBack[r] # <<>> THEN {"callback"} ELSE {})
              \cup (IF hooked[r] # <<>> THEN {"webhook"} ELSE {})

Promise == INSTANCE RequestPromise
             WITH Verdicts <- News,
                  verdict  <- [r \in Requests |-> Outcome(r)],
                  heard    <- [r \in Requests |-> HeardOf(r)]

\* Every behaviour of the call handler is one of RequestPromise.
RefinesPromise == Promise!Spec
=============================================================================
