------------------------------ MODULE Payments ------------------------------
(***************************************************************************)
(* Payments: PaymentHandler of src/vault/internal/handler/payment.go and   *)
(* the REST calls of src/vault/internal/api/payment.go that drive it.      *)
(*                                                                         *)
(*   RequestPayment  : store the request in `pending', send it to the user;*)
(*   HandleResponse  : the user's answer takes the request out of `pending'*)
(*                     and, if it approves, makes a payment in `completed';*)
(*   CompletePayment, FailPayment, RefundPayment : the backend settles a   *)
(*                     payment, and the user is notified outside the lock. *)
(*                                                                         *)
(* The REST calls are given the identifier of the request.  They look it up*)
(* in `pending' and later use the pointer they found there, so a call      *)
(* reaches a payment only if it looked before the user answered.  Code in  *)
(* the same process has the payment from the callback.                     *)
(***************************************************************************)
EXTENDS Integers, FiniteSets

CONSTANTS Users,        \* user identifiers
          Payables,     \* payment request identifiers
          Payer,        \* UserID of a request
          Price,        \* Amount of a request
          Refunds,      \* amounts a refund may name; none names the whole
          Old,          \* requests of the past, approved and completed
          Settlers,     \* goroutines that complete, fail or refund
          Lifetime,     \* ExpiresAt - CreatedAt, below zero if expires_in is
          MaxHistory,   \* maxHistory
          MaxReturned,  \* bound on the money returned for one payment
          MaxTime       \* bound on the clock

PaymentsAssumption ==
  /\ Payer \in [Payables -> Users]
  /\ Price \in [Payables -> Nat \ {0}]   \* handlePaymentRequest checks
  /\ Refunds \subseteq Nat \ {0}         \* handlePaymentRefund checks
  /\ Old \subseteq Payables
  /\ Lifetime \in Int /\ MaxHistory \in Nat /\ MaxReturned \in Nat /\ MaxTime \in Nat

VARIABLES time,
          status, expiresAt, \* fields of a PaymentRequest
          open,              \* requests in the `pending' map
          askedFor,          \* requests that have reached the user's vault
          paid,              \* Status of the request's Payment, or "none"
          refunded,          \* RefundedAmount of the Payment, 0 if nil
          createdAt,         \* CreatedAt of the Payment
          completed,         \* requests whose Payment is in the `completed' map
          untold, known,     \* callback yet to run; has run and has the payment
          posts, hook,       \* webhook goroutines; what a webhook has said
          step, errand, on,  \* what a settler does next, and to which payment
          told,              \* notices the user has been sent of a payment
          returned           \* the sum of the refunds accepted so far

requestVars == <<status, expiresAt, open, askedFor>>
paymentVars == <<paid, refunded, createdAt, completed, returned>>
tellVars    == <<untold, known, posts, hook>>
settlerVars == <<step, errand, on>>
vars == <<time, requestVars, paymentVars, tellVars, settlerVars, told>>

Statuses    == {"none", "pending", "approved", "denied", "expired"}
PayStatuses == {"none", "processing", "completed", "failed", "refunded", "partial"}
Errands     == {"complete", "fail", "refund"}
NoPayable   == "no request"

TypeOK ==
  /\ time \in Nat
  /\ status \in [Payables -> Statuses] /\ expiresAt \in [Payables -> Int]
  /\ open \subseteq Payables /\ askedFor \subseteq Payables
  /\ paid \in [Payables -> PayStatuses] /\ refunded \in [Payables -> Nat]
  /\ createdAt \in [Payables -> Nat] /\ completed \subseteq Payables
  /\ untold \subseteq Payables /\ known \subseteq Payables /\ posts \subseteq Payables
  /\ hook \in [Payables -> PayStatuses \cup {"silent", "torn"}]
  /\ step \in [Settlers -> {"idle", "found", "settled"}]
  /\ errand \in [Settlers -> Errands]
  /\ on \in [Settlers -> Payables \cup {NoPayable}]
  /\ told \in [Payables -> SUBSET Errands]
  /\ returned \in [Payables -> Nat]

\* Payments from before are in the history; of their webhooks, nothing is left.
Init ==
  /\ time = 0
  /\ status = [r \in Payables |-> IF r \in Old THEN "approved" ELSE "none"]
  /\ expiresAt = [r \in Payables |-> 0]
  /\ open = {} /\ askedFor = Old /\ completed = Old
  /\ paid = [r \in Payables |-> IF r \in Old THEN "completed" ELSE "none"]
  /\ refunded = [r \in Payables |-> 0] /\ returned = [r \in Payables |-> 0]
  /\ createdAt = [r \in Payables |-> 0]
  /\ untold = {} /\ known = {} /\ posts = {}
  /\ hook = [r \in Payables |-> "silent"]
  /\ step = [c \in Settlers |-> "idle"]
  /\ errand = [c \in Settlers |-> "complete"]
  /\ on = [c \in Settlers |-> NoPayable]
  /\ told = [r \in Payables |-> {}]

Tick == /\ time < MaxTime
        /\ time' = time + 1
        /\ UNCHANGED <<requestVars, paymentVars, tellVars, settlerVars, told>>

-----------------------------------------------------------------------------
(* The request and its answer.                                             *)

\* The contract allows it; without a contract, or without the capability,
\* nothing changes.
RequestPayment(r) ==
  /\ status[r] = "none"
  /\ status' = [status EXCEPT ![r] = "pending"]
  /\ expiresAt' = [expiresAt EXCEPT ![r] = time + Lifetime]
  /\ open' = open \cup {r}
  /\ UNCHANGED <<time, askedFor, paymentVars, tellVars, settlerVars, told>>

\* The send comes after the store, outside the lock; a failed one is ignored.
SendRequest(r) ==
  /\ status[r] # "none" /\ r \notin askedFor
  /\ askedFor' = askedFor \cup {r}
  /\ UNCHANGED <<time, status, expiresAt, open, paymentVars, tellVars, settlerVars, told>>

\* FAULT: an answered request stays in the map.
DecideInMap(r, verdict) ==
  /\ status' = [status EXCEPT ![r] = verdict]
  /\ untold' = untold \cup {r}
  /\ UNCHANGED open

\* Both verdicts take the request out of the map; callback and webhook follow.
Decide(r, verdict) ==
  /\ status' = [status EXCEPT ![r] = verdict]
  /\ open' = open \ {r}
  /\ untold' = untold \cup {r}

\* HandleResponse, "approved": the payment's CreatedAt is a later reading.
Approve(u, r) ==
  /\ r \in askedFor \cap open /\ u = Payer[r]
  /\ time =< expiresAt[r]
  /\ Decide(r, "approved")
  /\ paid' = [paid EXCEPT ![r] = "processing"]
  /\ \E now \in time..MaxTime : /\ createdAt' = [createdAt EXCEPT ![r] = now]
                                /\ time' = now
  /\ completed' = completed \cup {r}
  /\ UNCHANGED <<expiresAt, askedFor, refunded, returned, known, posts, hook,
                 settlerVars, told>>

Deny(u, r) ==
  /\ r \in askedFor \cap open /\ u = Payer[r]
  /\ time =< expiresAt[r]
  /\ Decide(r, "denied")
  /\ UNCHANGED <<time, expiresAt, askedFor, paymentVars, known, posts, hook,
                 settlerVars, told>>

\* An answer after ExpiresAt marks the request and leaves it in the map.
AnswerLate(u, r) ==
  /\ r \in askedFor \cap open /\ u = Payer[r]
  /\ time > expiresAt[r]
  /\ status' = [status EXCEPT ![r] = "expired"]
  /\ UNCHANGED <<time, expiresAt, open, askedFor, paymentVars, tellVars, settlerVars, told>>

\* The callback is given the request and the payment; then the webhook is started.
RunCallback(r) ==
  /\ r \in untold
  /\ untold' = untold \ {r}
  /\ known' = IF paid[r] = "none" THEN known ELSE known \cup {r}
  /\ posts' = posts \cup {r}
  /\ UNCHANGED <<time, requestVars, paymentVars, hook, settlerVars, told>>

\* callPaymentWebhook reads the payment without the lock, when it gets to run: before
\* or after it is settled here, and meanwhile below.
Post(r) ==
  /\ r \in posts
  /\ posts' = posts \ {r}
  /\ hook' = [hook EXCEPT ![r] = paid[r]]
  /\ UNCHANGED <<time, requestVars, paymentVars, untold, known, settlerVars, told>>

-----------------------------------------------------------------------------
(* Settling a payment.                                                     *)

\* handlePaymentComplete, ...Fail and ...Refund: the pointer found in `pending'
\* is kept; what is not found there is answered with 404.
LookUp(c, e, r) ==
  /\ step[c] = "idle" /\ r \in open
  /\ step' = [step EXCEPT ![c] = "found"]
  /\ errand' = [errand EXCEPT ![c] = e] /\ on' = [on EXCEPT ![c] = r]
  /\ UNCHANGED <<time, requestVars, paymentVars, tellVars, told>>

\* Code in the process calls the handler itself, with the callback's payment.
UseKnown(c, e, r) ==
  /\ step[c] = "idle" /\ r \in known
  /\ step' = [step EXCEPT ![c] = "found"]
  /\ errand' = [errand EXCEPT ![c] = e] /\ on' = [on EXCEPT ![c] = r]
  /\ UNCHANGED <<time, requestVars, paymentVars, tellVars, told>>

\* The status of the payment is a string of two words: a webhook that reads it just
\* when it is written may get what is neither the old one nor the new one.
Tear(r) == /\ r \in posts
           /\ posts' = posts \ {r}
           /\ hook' = [hook EXCEPT ![r] = "torn"]
           /\ UNCHANGED <<untold, known>>

\* Under the lock: settler c, sent on errand e, finds its payment in one of the
\* statuses `from', gives it the status `to' and goes on to notify the user.
Settle(c, e, from, to) ==
  /\ step[c] = "found" /\ errand[c] = e
  /\ on[c] \in completed /\ paid[on[c]] \in from
  /\ paid' = [paid EXCEPT ![on[c]] = to]
  /\ step' = [step EXCEPT ![c] = "settled"]
  /\ UNCHANGED tellVars \/ (paid[on[c]] # to /\ Tear(on[c]))
  /\ UNCHANGED <<time, requestVars, createdAt, completed, errand, on, told>>

Complete(c) == /\ Settle(c, "complete", {"processing"}, "completed")
               /\ UNCHANGED <<refunded, returned>>

\* FAULT: a payment that was completed meanwhile is failed.
FailAny(c) == /\ Settle(c, "fail", {"processing", "completed"}, "failed")
              /\ UNCHANGED <<refunded, returned>>

Fail(c) == /\ Settle(c, "fail", {"processing"}, "failed")
           /\ UNCHANGED <<refunded, returned>>

\* FAULT: a refund does not look at what was refunded in full before.
RefundAgain(c) ==
  \E amount \in Refunds \cup {Price[r] : r \in {on[c]} \cap Payables} :
    /\ Settle(c, "refund", {"completed", "partial", "refunded"},
              IF amount >= Price[on[c]] THEN "refunded" ELSE "partial")
    /\ returned[on[c]] + amount =< MaxReturned
    /\ refunded' = [refunded EXCEPT ![on[c]] = amount]
    /\ returned' = [returned EXCEPT ![on[c]] = @ + amount]

\* Each refund is compared with the price and overwrites the one before.
Refund(c) ==
  \E amount \in Refunds \cup {Price[r] : r \in {on[c]} \cap Payables} :
    /\ Settle(c, "refund", {"completed", "partial"},
              IF amount >= Price[on[c]] THEN "refunded" ELSE "partial")
    /\ returned[on[c]] + amount =< MaxReturned
    /\ refunded' = [refunded EXCEPT ![on[c]] = amount]
    /\ returned' = [returned EXCEPT ![on[c]] = @ + amount]

\* No payment yet, none any more, or not in a status for this errand.
Refuse(c) ==
  /\ step[c] = "found"
  /\ \/ on[c] \notin completed
     \/ errand[c] # "refund" /\ paid[on[c]] # "processing"
     \/ errand[c] = "refund" /\ paid[on[c]] \notin {"completed", "partial"}
  /\ step' = [step EXCEPT ![c] = "idle"] /\ on' = [on EXCEPT ![c] = NoPayable]
  /\ UNCHANGED <<time, requestVars, paymentVars, tellVars, errand, told>>

\* The notice is sent outside the lock, after others may have settled again; it
\* may get lost.
Notify(c) ==
  /\ step[c] = "settled"
  /\ \/ told' = [told EXCEPT ![on[c]] = @ \cup {errand[c]}]
     \/ UNCHANGED told
  /\ step' = [step EXCEPT ![c] = "idle"] /\ on' = [on EXCEPT ![c] = NoPayable]
  /\ UNCHANGED <<time, requestVars, paymentVars, tellVars, errand>>

\* Sets of payments that Cleanup may keep: the youngest MaxHistory; among equals
\* the order of the map decides.
Kept == {keep \in SUBSET completed :
           /\ Cardinality(keep) = IF Cardinality(completed) > MaxHistory
                                  THEN MaxHistory ELSE Cardinality(completed)
           /\ \A k \in keep, d \in completed \ keep : createdAt[d] =< createdAt[k]}

Cleanup ==
  /\ open' = {r \in open : time =< expiresAt[r]}
  /\ completed' \in Kept
  /\ UNCHANGED <<time, status, expiresAt, askedFor, paid, refunded, createdAt, returned,
                 tellVars, settlerVars, told>>

-----------------------------------------------------------------------------
Next ==
  \/ Tick \/ Cleanup
  \/ \E r \in Payables :
       \/ RequestPayment(r) \/ SendRequest(r) \/ RunCallback(r) \/ Post(r)
       \/ \E u \in Users : Approve(u, r) \/ Deny(u, r) \/ AnswerLate(u, r)
       \/ \E c \in Settlers, e \in Errands : LookUp(c, e, r) \/ UseKnown(c, e, r)
  \/ \E c \in Settlers : Complete(c) \/ Fail(c) \/ Refund(c) \/ Refuse(c) \/ Notify(c)

Spec == Init /\ [][Next]_vars

-----------------------------------------------------------------------------
Taken == {"completed", "refunded", "partial"}

\* The statuses a payment may have had before, or together with, the status s.
Before(s) == IF s = "none" THEN {"none"}
             ELSE {s, "processing"} \cup (IF s \in {"refunded", "partial"}
                                          THEN {"completed", "partial"} ELSE {})

\* What a webhook may have read of a payment whose status is s by now.
MayHaveRead(h, s) == \/ h \in Before(s)
                     \/ h = "torn" /\ s \notin {"none", "processing"}

\* Backends that complete, fail or refund the same payment overlap between lookup and
\* notice, and the webhook of the answer reads the payment when it gets to run, which
\* may be after it was settled.  What the user is told is what happened to the
\* payment: never both of completion and failure, and of a refund only when the
\* money had been taken; and the backend is told a status the payment has had, or,
\* when it was being settled at that moment, what is no status at all.
NoticesAreTrue ==
  \A r \in Payables :
    /\ "complete" \in told[r] => paid[r] \in Taken
    /\ "fail" \in told[r] => paid[r] = "failed"
    /\ "refund" \in told[r] => paid[r] \in {"refunded", "partial"}
    /\ hook[r] # "silent" => MayHaveRead(hook[r], paid[r])

\* Money moves only when it is due.  A request that was reported as expired, but is
\* still in the map, or that was cleaned up, is not paid for when the user tries
\* again.  Money goes back only of a payment that was taken and never after it was
\* marked as refunded, by whatever calls overlap: the refunds before the last one
\* were each less than the price.
MoneyIsDue ==
  [][\A r \in Payables :
       /\ paid[r] = "none" /\ paid'[r] # "none" => status[r] = "pending" /\ r \in open
       /\ returned'[r] # returned[r] =>
            /\ paid[r] \in {"completed", "partial"}
            /\ paid[r] = "partial" => refunded[r] < Price[r]]_vars

-----------------------------------------------------------------------------
\* The payment handler keeps the promise of the request handlers for every request that
\* is not from before: one verdict, after which the request neither expires nor is
\* answered again, and the callback and the webhook once each.
Outcome(r) == CASE status[r] = "none"    -> "unasked"
                [] status[r] = "pending" -> "open"
                [] status[r] = "expired" -> "lapsed"
                [] OTHER                 -> status[r]

Decided == {"approved", "denied"}
HeardOf(r) == IF status[r] \notin Decided \/ r \in untold THEN {}
              ELSE {"callback"} \cup (IF r \in posts THEN {} ELSE {"webhook"})

Promise == INSTANCE RequestPromise
             WITH Requests <- Payables \ Old,
                  Verdicts <- Decided,
                  verdict  <- [r \in Payables \ Old |-> Outcome(r)],
                  heard    <- [r \in Payables \ Old |-> HeardOf(r)]

\* Every behaviour of the payment handler is one of RequestPromise.
RefinesPromise == Promise!Spec
=============================================================================
