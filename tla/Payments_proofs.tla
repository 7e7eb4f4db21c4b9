-------------------------- MODULE Payments_proofs ---------------------------
(***************************************************************************)
(* What users and backends are told of payments is true, and money moves   *)
(* only when it is due: for any number of requests, users and goroutines.  *)
(***************************************************************************)
EXTENDS Payments, TLAPS

\* What errand e, done, says of a payment's status s.
Fits(e, s) == /\ e = "complete" => s \in Taken
              /\ e = "fail" => s = "failed"
              /\ e = "refund" => s \in {"refunded", "partial"}

\* How the status of a payment may go on.
GoesOn(s, t) == \/ s = "processing" /\ t \in {"completed", "failed"}
                \/ s \in {"completed", "partial"} /\ t \in {"refunded", "partial"}

\* A request is decided at most once: after it has left `pending' for its callback
\* and webhook; only an approved one has a payment, and none that was expired has.
RequestSound(r) ==
  /\ r \in open => status[r] \in {"pending", "expired"}
  /\ r \in untold \cup posts => status[r] \in {"approved", "denied"}
  /\ hook[r] # "silent" => status[r] \in {"approved", "denied"}
  /\ paid[r] # "none" => status[r] = "approved"
  /\ status[r] = "expired" => time > expiresAt[r]

PaymentSound(r) ==
  /\ \A e \in told[r] : Fits(e, paid[r])
  /\ hook[r] # "silent" => MayHaveRead(hook[r], paid[r])
  /\ paid[r] = "partial" => refunded[r] < Price[r]

\* A settler has a payment, and the notice it is about to send is true of it.
SettlerSound(c) ==
  /\ step[c] # "idle" => on[c] \in Payables
  /\ step[c] = "settled" => Fits(errand[c], paid[on[c]])

IInv == /\ TypeOK
        /\ \A r \in Payables : RequestSound(r) /\ PaymentSound(r)
        /\ \A c \in Settlers : SettlerSound(c)

LEMMA Initially == ASSUME PaymentsAssumption PROVE Init => IInv
<1>1. ASSUME Init PROVE TypeOK
  BY <1>1 DEF PaymentsAssumption, Init, TypeOK, Statuses, PayStatuses, Errands
<1>2. ASSUME Init PROVE \A r \in Payables : RequestSound(r) /\ PaymentSound(r)
  BY <1>2 DEF PaymentsAssumption, Init, RequestSound, PaymentSound
<1>3. ASSUME Init PROVE \A c \in Settlers : SettlerSound(c)
  BY <1>3 DEF Init, SettlerSound
<1>4. QED BY <1>1, <1>2, <1>3 DEF IInv

-----------------------------------------------------------------------------
(* Requests.                                                               *)

\* With time, and after a clean-up, everything stays as sound as it was.
LEMMA LaterKeeps ==
  ASSUME IInv, TypeOK', time' >= time, open' \subseteq open,
         UNCHANGED <<status, expiresAt, paid, refunded, tellVars, settlerVars, told>>
  PROVE  IInv'
<1>1. \A r \in Payables : RequestSound(r)'
  BY DEF IInv, TypeOK, RequestSound, tellVars
<1>2. \A r \in Payables : PaymentSound(r)'
  BY DEF IInv, PaymentSound, tellVars
<1>3. \A c \in Settlers : SettlerSound(c)'
  BY DEF IInv, SettlerSound, settlerVars
<1>4. QED BY <1>1, <1>2, <1>3 DEF IInv

LEMMA TickKeeps == ASSUME IInv, Tick PROVE IInv'
<1>1. TypeOK'
  BY DEF IInv, TypeOK, Tick, requestVars, paymentVars, tellVars, settlerVars
<1>2. QED BY <1>1, LaterKeeps DEF IInv, TypeOK, Tick, requestVars, paymentVars

LEMMA CleanupKeeps == ASSUME IInv, Cleanup PROVE IInv'
<1>1. completed' \subseteq Payables
  BY DEF IInv, TypeOK, Cleanup, Kept
<1>2. TypeOK'
  BY <1>1 DEF IInv, TypeOK, Cleanup, tellVars, settlerVars
<1>3. QED BY <1>2, LaterKeeps DEF IInv, TypeOK, Cleanup

LEMMA SendKeeps == ASSUME IInv, NEW q \in Payables, SendRequest(q) PROVE IInv'
<1>1. TypeOK'
  BY DEF IInv, TypeOK, SendRequest, paymentVars, tellVars, settlerVars
<1>2. QED BY <1>1, LaterKeeps DEF IInv, TypeOK, SendRequest, paymentVars

LEMMA RequestKeeps ==
  ASSUME PaymentsAssumption, IInv, NEW q \in Payables, RequestPayment(q) PROVE IInv'
<1>1. TypeOK'
  BY DEF PaymentsAssumption, IInv, TypeOK, RequestPayment, Statuses, paymentVars, tellVars,
         settlerVars
<1>2. \A r \in Payables : RequestSound(r)'
  BY DEF IInv, TypeOK, RequestSound, RequestPayment, Statuses, paymentVars, tellVars
<1>3. \A r \in Payables : PaymentSound(r)'
  BY DEF IInv, PaymentSound, RequestPayment, paymentVars, tellVars
<1>4. \A c \in Settlers : SettlerSound(c)'
  BY DEF IInv, SettlerSound, RequestPayment, paymentVars, settlerVars
<1>5. QED BY <1>1, <1>2, <1>3, <1>4 DEF IInv

\* A request in the map has no payment, and so nothing has been told of one.
LEMMA OpenIsUnpaid ==
  ASSUME IInv, NEW q \in open
  PROVE  /\ q \in Payables /\ paid[q] = "none" /\ told[q] = {} /\ hook[q] = "silent"
         /\ \A c \in Settlers : step[c] = "settled" => on[c] # q
<1>1. q \in Payables /\ paid[q] = "none" /\ hook[q] = "silent"
  BY DEF IInv, TypeOK, RequestSound
<1>2. told[q] = {}
  BY <1>1 DEF IInv, TypeOK, PaymentSound, Fits, Errands, Taken
<1>3. \A c \in Settlers : step[c] = "settled" => on[c] # q
  BY <1>1 DEF IInv, TypeOK, SettlerSound, Fits, Errands, Taken
<1>4. QED BY <1>1, <1>2, <1>3

LEMMA ApproveKeeps ==
  ASSUME PaymentsAssumption, IInv, NEW u \in Users, NEW q \in Payables, Approve(u, q)
  PROVE  IInv'
<1>1. time' \in Nat /\ time' >= time /\ createdAt' \in [Payables -> Nat]
  BY DEF PaymentsAssumption, IInv, TypeOK, Approve
<1>2. /\ status' = [status EXCEPT ![q] = "approved"] /\ paid' = [paid EXCEPT ![q] = "processing"]
      /\ open' = open \ {q} /\ untold' = untold \cup {q} /\ completed' = completed \cup {q}
      /\ UNCHANGED <<expiresAt, askedFor, refunded, returned, known, posts, hook, settlerVars, told>>
  BY DEF Approve, Decide
<1>3. TypeOK'
  BY <1>1, <1>2 DEF IInv, TypeOK, Statuses, PayStatuses, settlerVars
<1>4. \A r \in Payables : RequestSound(r)'
  BY <1>1, <1>2 DEF IInv, TypeOK, RequestSound
<1>5. q \in open
  BY DEF Approve
<1>6. \A r \in Payables : PaymentSound(r)'
  BY <1>2, <1>5, OpenIsUnpaid DEF IInv, TypeOK, PaymentSound
<1>7. \A c \in Settlers : SettlerSound(c)'
  BY <1>2, <1>5, OpenIsUnpaid DEF IInv, TypeOK, SettlerSound, settlerVars
<1>8. QED BY <1>3, <1>4, <1>6, <1>7 DEF IInv

LEMMA DenyKeeps ==
  ASSUME IInv, NEW u \in Users, NEW q \in Payables, Deny(u, q) PROVE IInv'
<1>1. /\ status' = [status EXCEPT ![q] = "denied"] /\ q \in open
      /\ open' = open \ {q} /\ untold' = untold \cup {q}
      /\ UNCHANGED <<time, expiresAt, askedFor, paymentVars, known, posts, hook, settlerVars, told>>
  BY DEF Deny, Decide
<1>2. TypeOK'
  BY <1>1 DEF IInv, TypeOK, Statuses, paymentVars, settlerVars
<1>3. \A r \in Payables : RequestSound(r)'
  BY <1>1 DEF IInv, TypeOK, RequestSound, paymentVars
<1>4. \A r \in Payables : PaymentSound(r)'
  BY <1>1 DEF IInv, PaymentSound, paymentVars
<1>5. \A c \in Settlers : SettlerSound(c)'
  BY <1>1 DEF IInv, SettlerSound, paymentVars, settlerVars
<1>6. QED BY <1>2, <1>3, <1>4, <1>5 DEF IInv

LEMMA LateKeeps ==
  ASSUME IInv, NEW u \in Users, NEW q \in Payables, AnswerLate(u, q) PROVE IInv'
<1>1. TypeOK'
  BY DEF IInv, TypeOK, AnswerLate, Statuses, paymentVars, tellVars, settlerVars
<1>2. \A r \in Payables : RequestSound(r)'
  BY DEF IInv, TypeOK, RequestSound, AnswerLate, paymentVars, tellVars
<1>3. \A r \in Payables : PaymentSound(r)'
  BY DEF IInv, PaymentSound, AnswerLate, paymentVars, tellVars
<1>4. \A c \in Settlers : SettlerSound(c)'
  BY DEF IInv, SettlerSound, AnswerLate, paymentVars, settlerVars
<1>5. QED BY <1>1, <1>2, <1>3, <1>4 DEF IInv

\* Callback and webhook; what the webhook says is true when it is said.
LEMMA TellKeeps ==
  ASSUME IInv, NEW q \in Payables, RunCallback(q) \/ Post(q) PROVE IInv'
<1>1. TypeOK'
  BY DEF IInv, TypeOK, RunCallback, Post, requestVars, paymentVars, settlerVars
<1>2. \A r \in Payables : RequestSound(r)'
  BY DEF IInv, TypeOK, RequestSound, RunCallback, Post, requestVars, paymentVars
<1>3. \A r \in Payables : PaymentSound(r)'
  BY DEF IInv, TypeOK, PaymentSound, RunCallback, Post, requestVars, paymentVars, Before,
         MayHaveRead
<1>4. \A c \in Settlers : SettlerSound(c)'
  BY DEF IInv, SettlerSound, RunCallback, Post, paymentVars, settlerVars
<1>5. QED BY <1>1, <1>2, <1>3, <1>4 DEF IInv

-----------------------------------------------------------------------------
(* Settling.                                                               *)

\* What has been said of a payment stays true when its status goes on.
LEMMA TruthStays ==
  ASSUME NEW s, NEW t, GoesOn(s, t)
  PROVE  /\ \A e : Fits(e, s) => Fits(e, t)
         /\ \A h : MayHaveRead(h, s) => MayHaveRead(h, t)
         /\ MayHaveRead("torn", t)
         /\ s # "none" /\ t # "none"
BY DEF GoesOn, Fits, Before, MayHaveRead, Taken

\* A settler changes the status of its payment in a way that its errand will say.
LEMMA SettleKeeps ==
  ASSUME IInv, TypeOK', NEW c \in Settlers, NEW e, NEW from, NEW to, Settle(c, e, from, to),
         Fits(e, to), GoesOn(paid[on[c]], to),
         \A r \in Payables : r # on[c] => refunded'[r] = refunded[r],
         to = "partial" => refunded'[on[c]] < Price[on[c]]
  PROVE  IInv'
<1> DEFINE q == on[c]
<1>1. /\ q \in Payables
      /\ \A r \in Payables : paid'[r] = IF r = q THEN to ELSE paid[r]
      /\ UNCHANGED <<time, requestVars, errand, on, told>>
      /\ UNCHANGED tellVars \/ Tear(q)
      /\ step' = [step EXCEPT ![c] = "settled"] /\ errand[c] = e
  BY DEF IInv, TypeOK, SettlerSound, Settle
<1>2. /\ \A x : Fits(x, paid[q]) => Fits(x, to)
      /\ \A h : MayHaveRead(h, paid[q]) => MayHaveRead(h, to)
      /\ MayHaveRead("torn", to)
      /\ paid[q] # "none"
  BY TruthStays
<1>3. \A r \in Payables : RequestSound(r)'
  <2>1. CASE UNCHANGED tellVars
    BY <1>1, <1>2, <2>1 DEF IInv, RequestSound, requestVars, tellVars
  <2>2. CASE Tear(q)
    BY <1>1, <1>2, <2>2 DEF IInv, TypeOK, RequestSound, requestVars, Tear
  <2>3. QED BY <1>1, <2>1, <2>2
<1>4. \A r \in Payables : PaymentSound(r)'
  <2>1. SUFFICES ASSUME NEW r \in Payables PROVE PaymentSound(r)'
    OBVIOUS
  <2>2. /\ told' = told /\ PaymentSound(r)
        /\ hook'[r] = hook[r] \/ (r = q /\ hook'[r] = "torn")
    BY <1>1 DEF IInv, TypeOK, tellVars, Tear
  <2>3. CASE r = q
    BY <1>1, <1>2, <2>2, <2>3 DEF PaymentSound
  <2>4. CASE r # q
    BY <1>1, <2>2, <2>4 DEF PaymentSound
  <2>5. QED BY <2>3, <2>4
<1>5. \A k \in Settlers : SettlerSound(k)'
  <2>1. SUFFICES ASSUME NEW k \in Settlers PROVE SettlerSound(k)'
    OBVIOUS
  <2>2. on' = on /\ errand' = errand /\ SettlerSound(k)
    BY <1>1 DEF IInv
  <2>3. CASE k = c
    BY <1>1, <2>2, <2>3 DEF SettlerSound, IInv, TypeOK
  <2>4. CASE k # c
    <3>1. step'[k] = step[k]
      BY <1>1, <2>4 DEF IInv, TypeOK
    <3>2. on[k] \in Payables /\ Fits(errand[k], paid[on[k]]) => Fits(errand[k], paid'[on[k]])
      BY <1>1, <1>2
    <3>3. QED BY <2>2, <3>1, <3>2 DEF SettlerSound
  <2>5. QED BY <2>3, <2>4
<1>6. QED BY <1>3, <1>4, <1>5 DEF IInv

\* The settled payment, and what a webhook reads meanwhile, have their types.
LEMMA SettleTypes ==
  ASSUME TypeOK, NEW c \in Settlers, on[c] \in Payables, NEW e, NEW from, NEW to \in PayStatuses,
         Settle(c, e, from, to),
         refunded' \in [Payables -> Nat], returned' \in [Payables -> Nat]
  PROVE  TypeOK'
<1>1. untold' \subseteq Payables /\ known' \subseteq Payables /\ posts' \subseteq Payables
  BY DEF TypeOK, Settle, Tear, tellVars
<1>2. hook' \in [Payables -> PayStatuses \cup {"silent", "torn"}]
  BY DEF TypeOK, Settle, Tear, tellVars
<1>3. paid' \in [Payables -> PayStatuses] /\ step' \in [Settlers -> {"idle", "found", "settled"}]
  BY DEF TypeOK, Settle
<1>4. QED BY <1>1, <1>2, <1>3 DEF TypeOK, Settle, requestVars

LEMMA CompleteKeeps == ASSUME IInv, NEW c \in Settlers, Complete(c) PROVE IInv'
<1>1. TypeOK'
  BY SettleTypes DEF IInv, TypeOK, SettlerSound, Complete, Settle, PayStatuses
<1>2. QED BY <1>1, SettleKeeps DEF Complete, Settle, Fits, GoesOn, Taken

LEMMA FailKeeps == ASSUME IInv, NEW c \in Settlers, Fail(c) PROVE IInv'
<1>1. TypeOK'
  BY SettleTypes DEF IInv, TypeOK, SettlerSound, Fail, Settle, PayStatuses
<1>2. QED BY <1>1, SettleKeeps DEF Fail, Settle, Fits, GoesOn

LEMMA RefundKeeps ==
  ASSUME PaymentsAssumption, IInv, NEW c \in Settlers, Refund(c) PROVE IInv'
<1> DEFINE q == on[c]
<1>1. q \in Payables
  BY DEF IInv, SettlerSound, Refund, Settle
<1>2. PICK amount \in Refunds \cup {Price[q]} :
         /\ Settle(c, "refund", {"completed", "partial"},
                   IF amount >= Price[q] THEN "refunded" ELSE "partial")
         /\ refunded' = [refunded EXCEPT ![q] = amount]
         /\ returned' = [returned EXCEPT ![q] = @ + amount]
  BY <1>1 DEF Refund
<1> DEFINE to == IF amount >= Price[q] THEN "refunded" ELSE "partial"
<1>3. amount \in Nat /\ Price[q] \in Nat
  BY <1>1, <1>2 DEF PaymentsAssumption
<1>4. TypeOK'
  <2>1. refunded' \in [Payables -> Nat] /\ returned' \in [Payables -> Nat]
    BY <1>1, <1>2, <1>3 DEF IInv, TypeOK
  <2>2. to \in PayStatuses
    BY DEF PayStatuses
  <2>3. QED BY <1>1, <1>2, <2>1, <2>2, SettleTypes DEF IInv
<1>5. /\ Fits("refund", to) /\ GoesOn(paid[q], to)
      /\ \A r \in Payables : r # q => refunded'[r] = refunded[r]
      /\ to = "partial" => refunded'[q] < Price[q]
  BY <1>1, <1>2, <1>3 DEF IInv, TypeOK, Settle, Fits, GoesOn
<1>6. QED BY <1>2, <1>4, <1>5, SettleKeeps

\* A settler sets out on an errand, is refused, or sends the notice.
LEMMA ErrandKeeps ==
  ASSUME IInv, NEW c \in Settlers, NEW e \in Errands, NEW q \in Payables,
         LookUp(c, e, q) \/ UseKnown(c, e, q) \/ Refuse(c) \/ Notify(c)
  PROVE  IInv'
<1>1. TypeOK'
  <2>1. CASE LookUp(c, e, q) \/ UseKnown(c, e, q)
    BY <2>1 DEF IInv, TypeOK, LookUp, UseKnown, requestVars, paymentVars, tellVars
  <2>2. CASE Refuse(c)
    BY <2>2 DEF IInv, TypeOK, Refuse, requestVars, paymentVars, tellVars
  <2>3. CASE Notify(c)
    BY <2>3 DEF IInv, TypeOK, SettlerSound, Notify, requestVars, paymentVars, tellVars
  <2>4. QED BY <2>1, <2>2, <2>3
<1>2. /\ UNCHANGED <<time, requestVars, paymentVars, tellVars>>
      /\ \A k \in Settlers : k # c => step'[k] = step[k] /\ on'[k] = on[k] /\ errand'[k] = errand[k]
      /\ step'[c] = "idle" \/ (step'[c] = "found" /\ on'[c] \in Payables)
  BY DEF IInv, TypeOK, LookUp, UseKnown, Refuse, Notify
<1>3. \A r \in Payables : RequestSound(r)'
  BY <1>2 DEF IInv, RequestSound, requestVars, paymentVars, tellVars
<1>4. \A r \in Payables : \A x \in told'[r] : Fits(x, paid[r])
  <2>1. CASE Notify(c)
    <3>1. on[c] \in Payables /\ Fits(errand[c], paid[on[c]])
      BY <2>1 DEF IInv, SettlerSound, Notify
    <3>2. \A r \in Payables : told'[r] \subseteq told[r] \cup (IF r = on[c] THEN {errand[c]} ELSE {})
      BY <2>1, <3>1 DEF IInv, TypeOK, Notify
    <3>3. QED BY <3>1, <3>2 DEF IInv, PaymentSound
  <2>2. CASE told' = told
    BY <2>2 DEF IInv, PaymentSound
  <2>3. QED BY <2>1, <2>2 DEF LookUp, UseKnown, Refuse
<1>5. \A r \in Payables : PaymentSound(r)'
  BY <1>2, <1>4 DEF IInv, PaymentSound, paymentVars, tellVars
<1>6. \A k \in Settlers : SettlerSound(k)'
  BY <1>2 DEF IInv, SettlerSound, paymentVars
<1>7. QED BY <1>1, <1>3, <1>5, <1>6 DEF IInv

-----------------------------------------------------------------------------
LEMMA StepKeeps == ASSUME PaymentsAssumption, IInv, [Next]_vars PROVE IInv'
<1>1. CASE Next
  <2>1. ASSUME NEW c \in Settlers, Refuse(c) \/ Notify(c) PROVE IInv'
    <3>1. "fail" \in Errands /\ on[c] \in Payables
      BY <2>1 DEF IInv, SettlerSound, Refuse, Notify, Errands
    <3>2. QED BY <2>1, <3>1, ErrandKeeps
  <2>2. QED
    BY <1>1, <2>1, TickKeeps, CleanupKeeps, SendKeeps, RequestKeeps, ApproveKeeps, DenyKeeps,
       LateKeeps, TellKeeps, CompleteKeeps, FailKeeps, RefundKeeps, ErrandKeeps DEF Next
<1>2. CASE UNCHANGED vars
  <2>1. TypeOK'
    BY <1>2 DEF IInv, TypeOK, vars, requestVars, paymentVars, tellVars, settlerVars
  <2>2. QED BY <1>2, <2>1, LaterKeeps DEF IInv, TypeOK, vars, requestVars, paymentVars
<1>3. QED BY <1>1, <1>2

THEOREM Invariance == ASSUME PaymentsAssumption PROVE Spec => []IInv
<1>1. Init => IInv BY Initially
<1>2. IInv /\ [Next]_vars => IInv' BY StepKeeps
<1>3. QED BY <1>1, <1>2, PTL DEF Spec

\* The types of the payment handler's state.
THEOREM TypeCorrect == ASSUME PaymentsAssumption PROVE Spec => []TypeOK
<1>1. IInv => TypeOK BY DEF IInv
<1>2. QED BY <1>1, Invariance, PTL

\* Users and backends are told what is true of a payment, and it stays true.
THEOREM TrueNotices == ASSUME PaymentsAssumption PROVE Spec => []NoticesAreTrue
<1>1. IInv => NoticesAreTrue
  BY DEF IInv, PaymentSound, Fits, NoticesAreTrue
<1>2. QED BY <1>1, Invariance, PTL

-----------------------------------------------------------------------------
Due(r) == /\ paid[r] = "none" /\ paid'[r] # "none" => status[r] = "pending" /\ r \in open
          /\ returned'[r] # returned[r] =>
               /\ paid[r] \in {"completed", "partial"}
               /\ paid[r] = "partial" => refunded[r] < Price[r]

\* A payment is made only of a request that waits in the map, in time.
LEMMA ApprovedInTime ==
  ASSUME IInv, NEW u \in Users, NEW q \in Payables, Approve(u, q)
  PROVE  \A r \in Payables : Due(r)
<1>1. /\ q \in open /\ time =< expiresAt[q] /\ returned' = returned
      /\ paid' = [paid EXCEPT ![q] = "processing"]
  BY DEF Approve, Decide
<1>2. status[q] = "pending"
  BY <1>1 DEF IInv, TypeOK, RequestSound
<1>3. QED BY <1>1, <1>2 DEF IInv, TypeOK, Due

\* Only a refund moves money back, and only of a payment that can be refunded.
LEMMA SettledWhenDue ==
  ASSUME IInv, NEW c \in Settlers, Complete(c) \/ Fail(c) \/ Refund(c)
  PROVE  \A r \in Payables : Due(r)
<1>1. on[c] \in Payables /\ paid[on[c]] # "none"
  BY DEF IInv, SettlerSound, Complete, Fail, Refund, Settle
<1>2. \A r \in Payables : r # on[c] => paid'[r] = paid[r]
  BY <1>1 DEF IInv, TypeOK, Complete, Fail, Refund, Settle
<1>3. CASE Refund(c)
  <2>1. /\ paid[on[c]] \in {"completed", "partial"}
        /\ \A r \in Payables : r # on[c] => returned'[r] = returned[r]
    BY <1>1, <1>3 DEF IInv, TypeOK, Refund, Settle
  <2>2. QED BY <1>1, <1>2, <2>1 DEF IInv, PaymentSound, Due
<1>4. CASE returned' = returned
  BY <1>1, <1>2, <1>4 DEF Due
<1>5. QED BY <1>3, <1>4 DEF Complete, Fail

\* A payment is made, and money goes back, only when it is due.
THEOREM DueMoney == ASSUME PaymentsAssumption PROVE Spec => MoneyIsDue
<1>1. ASSUME IInv, [Next]_vars PROVE [\A r \in Payables : Due(r)]_vars
  <2>1. CASE UNCHANGED <<paid, returned>>
    BY <2>1 DEF Due
  <2>2. CASE Next
    BY <1>1, <2>1, <2>2, ApprovedInTime, SettledWhenDue
       DEF Next, Tick, Cleanup, RequestPayment, SendRequest, RunCallback, Post, Deny, AnswerLate,
           LookUp, UseKnown, Refuse, Notify, paymentVars
  <2>3. QED BY <1>1, <2>2
<1>2. QED BY <1>1, Invariance, PTL DEF Spec, MoneyIsDue, Due

-----------------------------------------------------------------------------
(* The promise.                                                            *)

\* What a step may do to a request's verdict, or to who has been told of it.
AskedOf(r) == /\ status[r] = "none" /\ status' = [status EXCEPT ![r] = "pending"]
              /\ UNCHANGED <<untold, posts>>
AnswerTo(r) == /\ status[r] = "pending"
               /\ \E v \in Decided : status' = [status EXCEPT ![r] = v]
               /\ untold' = untold \cup {r} /\ UNCHANGED posts
LapseOf(r) == /\ status[r] \in {"pending", "expired"}
              /\ status' = [status EXCEPT ![r] = "expired"]
              /\ UNCHANGED <<untold, posts>>
CallbackOf(r) == /\ r \in untold /\ untold' = untold \ {r} /\ posts' = posts \cup {r}
                 /\ UNCHANGED status
HookOf(r) == r \in posts /\ posts' = posts \ {r} /\ UNCHANGED <<status, untold>>

ToldOf(r) == AskedOf(r) \/ AnswerTo(r) \/ LapseOf(r) \/ CallbackOf(r) \/ HookOf(r)

\* Settlers have no part in it but for a webhook that reads meanwhile, clean-up has
\* none, and an answer in time finds the request
\* pending: one that has expired is past its time for good.
LEMMA OneRequestMoves ==
  ASSUME IInv, [Next]_vars
  PROVE  UNCHANGED <<status, untold, posts>> \/ \E r \in Payables : ToldOf(r)
<1>1. ASSUME NEW u \in Users, NEW r \in Payables, Approve(u, r) \/ Deny(u, r)
      PROVE  AnswerTo(r)
  <2>1. r \in open /\ time =< expiresAt[r]
    BY <1>1 DEF Approve, Deny
  <2>2. status[r] = "pending"
    BY <2>1 DEF IInv, TypeOK, RequestSound
  <2>3. QED BY <1>1, <2>2 DEF Approve, Deny, Decide, AnswerTo, Decided
<1>2. ASSUME NEW u \in Users, NEW r \in Payables, AnswerLate(u, r) PROVE LapseOf(r)
  BY <1>2 DEF AnswerLate, LapseOf, IInv, RequestSound, tellVars
<1>3. ASSUME NEW r \in Payables, RequestPayment(r) PROVE AskedOf(r)
  BY <1>3 DEF RequestPayment, AskedOf, tellVars
<1>4. ASSUME NEW r \in Payables, RunCallback(r) \/ Post(r) PROVE CallbackOf(r) \/ HookOf(r)
  BY <1>4 DEF RunCallback, Post, CallbackOf, HookOf, requestVars
<1>5. CASE UNCHANGED vars
  BY <1>5 DEF vars, requestVars, tellVars
<1>6. CASE Tick \/ Cleanup \/ \E r \in Payables : SendRequest(r)
  BY <1>6 DEF Tick, Cleanup, SendRequest, requestVars, tellVars
<1>7. CASE \E c \in Settlers : \/ Refuse(c) \/ Notify(c)
                              \/ \E e \in Errands, r \in Payables :
                                   LookUp(c, e, r) \/ UseKnown(c, e, r)
  BY <1>7 DEF Refuse, Notify, LookUp, UseKnown, requestVars, tellVars
<1>8. ASSUME NEW c \in Settlers, Complete(c) \/ Fail(c) \/ Refund(c)
      PROVE  UNCHANGED <<status, untold, posts>> \/ (on[c] \in Payables /\ HookOf(on[c]))
  <2>1. on[c] \in Payables /\ status' = status /\ (UNCHANGED tellVars \/ Tear(on[c]))
    BY <1>8 DEF IInv, SettlerSound, Complete, Fail, Refund, Settle, requestVars
  <2>2. QED BY <2>1 DEF tellVars, Tear, HookOf
<1>9. QED BY <1>1, <1>2, <1>3, <1>4, <1>5, <1>6, <1>7, <1>8 DEF Next, ToldOf

\* The other requests stay as they are.
LEMMA OthersStay ==
  ASSUME IInv, NEW r \in Payables, ToldOf(r), NEW q \in Payables, q # r
  PROVE  status'[q] = status[q] /\ (q \in untold' <=> q \in untold) /\ (q \in posts' <=> q \in posts)
<1>1. status \in [Payables -> Statuses]
  BY DEF IInv, TypeOK
<1>2. CASE AskedOf(r)
  BY <1>1, <1>2 DEF AskedOf
<1>3. CASE AnswerTo(r)
  BY <1>1, <1>3 DEF AnswerTo
<1>4. CASE LapseOf(r)
  BY <1>1, <1>4 DEF LapseOf
<1>5. CASE CallbackOf(r)
  BY <1>5 DEF CallbackOf
<1>6. CASE HookOf(r)
  BY <1>6 DEF HookOf
<1>7. QED BY <1>2, <1>3, <1>4, <1>5, <1>6 DEF ToldOf

\* Of the requests of the past all has been told, and nothing more happens to them.
OldSettled == \A r \in Old : status[r] = "approved" /\ r \notin untold \cup posts

LEMMA OldStaySettled ==
  ASSUME PaymentsAssumption, IInv, OldSettled, [Next]_vars PROVE OldSettled'
<1>1. CASE UNCHANGED <<status, untold, posts>>
  BY <1>1 DEF OldSettled
<1>2. CASE \E r \in Payables : ToldOf(r)
  <2>1. PICK r \in Payables : ToldOf(r)
    BY <1>2
  <2>2. r \notin Old
    BY <2>1 DEF OldSettled, ToldOf, AskedOf, AnswerTo, LapseOf, CallbackOf, HookOf
  <2>3. QED BY <2>1, <2>2, OthersStay, PaymentsAssumption DEF PaymentsAssumption, OldSettled
<1>3. QED BY <1>1, <1>2, OneRequestMoves

\* As RequestPromise sees it, a step of one request is a step of it or a stutter.
LEMMA MovesKeepThePromise ==
  ASSUME IInv, NEW r \in Payables \ Old, ToldOf(r)
  PROVE  [Promise!Next]_Promise!vars
<1>1. \A q \in Payables : q # r => Outcome(q)' = Outcome(q) /\ HeardOf(q)' = HeardOf(q)
  <2>1. SUFFICES ASSUME NEW q \in Payables, q # r
                 PROVE  Outcome(q)' = Outcome(q) /\ HeardOf(q)' = HeardOf(q)
    OBVIOUS
  <2>2. /\ status'[q] = status[q]
        /\ q \in untold' <=> q \in untold
        /\ q \in posts' <=> q \in posts
    BY <2>1, OthersStay
  <2>3. Outcome(q)' = Outcome(q)
    BY <2>2 DEF Outcome
  <2>4. HeardOf(q)' = HeardOf(q)
    BY <2>2 DEF HeardOf
  <2>5. QED BY <2>3, <2>4
<1>2. CASE AskedOf(r)
  <2>1. /\ Outcome(r) = "unasked" /\ Outcome(r)' = "open"
        /\ HeardOf(r) = {} /\ HeardOf(r)' = {}
    BY <1>2 DEF IInv, TypeOK, AskedOf, Outcome, HeardOf, Decided
  <2>2. Promise!Ask(r)
    BY <1>1, <2>1 DEF Promise!Ask
  <2>3. QED BY <2>2 DEF Promise!Next
<1>3. CASE AnswerTo(r)
  <2>1. PICK v \in Decided : status' = [status EXCEPT ![r] = v]
    BY <1>3 DEF AnswerTo
  <2>2. status'[r] = v /\ v \in {"approved", "denied"}
    BY <2>1 DEF IInv, TypeOK, Decided
  <2>3. Outcome(r) = "open" /\ Outcome(r)' = v /\ HeardOf(r) = {} /\ HeardOf(r)' = {}
    BY <1>3, <2>2 DEF AnswerTo, Outcome, HeardOf, Decided
  <2>4. Promise!Answer(r)
    BY <1>1, <2>3 DEF Promise!Answer
  <2>5. QED BY <2>4 DEF Promise!Next
<1>4. CASE LapseOf(r)
  <2>1. /\ Outcome(r) \in {"open", "lapsed"} /\ Outcome(r)' = "lapsed"
        /\ HeardOf(r) = {} /\ HeardOf(r)' = {}
    BY <1>4 DEF IInv, TypeOK, LapseOf, Outcome, HeardOf, Decided
  <2>2. CASE Outcome(r) = "open"
    <3>1. Promise!Lapse(r)
      BY <1>1, <2>1, <2>2 DEF Promise!Lapse
    <3>2. QED BY <3>1 DEF Promise!Next
  <2>3. CASE Outcome(r) = "lapsed"
    BY <1>1, <2>1, <2>3 DEF Promise!vars
  <2>4. QED BY <2>1, <2>2, <2>3
<1>5. CASE CallbackOf(r)
  <2>1. /\ status[r] \in Decided /\ status' = status
        /\ HeardOf(r) = {} /\ HeardOf(r)' = {"callback"}
    BY <1>5 DEF IInv, RequestSound, CallbackOf, HeardOf, Decided
  <2>2. Outcome(r) \in Decided /\ Outcome(r)' = Outcome(r)
    BY <2>1 DEF Outcome, Decided
  <2>3. Promise!Tell(r, "callback")
    BY <1>1, <2>1, <2>2 DEF Promise!Tell
  <2>4. QED BY <2>3 DEF Promise!Next, Promise!Channels
<1>6. CASE HookOf(r)
  <2>1. status[r] \in Decided /\ status' = status
    BY <1>6 DEF IInv, RequestSound, HookOf, Decided
  <2>2. Outcome(r) \in Decided /\ Outcome(r)' = Outcome(r)
    BY <2>1 DEF Outcome, Decided
  <2>3. CASE r \in untold
    <3>1. HeardOf(r)' = HeardOf(r)
      BY <1>6, <2>3 DEF HookOf, HeardOf
    <3>2. QED BY <1>1, <2>2, <3>1 DEF Promise!vars
  <2>4. CASE r \notin untold
    <3>1. HeardOf(r) = {"callback"} /\ HeardOf(r)' = {"callback", "webhook"}
      BY <1>6, <2>1, <2>4 DEF HookOf, HeardOf
    <3>2. Promise!Tell(r, "webhook")
      BY <1>1, <2>2, <3>1 DEF Promise!Tell
    <3>3. QED BY <3>2 DEF Promise!Next, Promise!Channels
  <2>5. QED BY <2>3, <2>4
<1>7. QED BY <1>2, <1>3, <1>4, <1>5, <1>6 DEF ToldOf

\* Every behaviour of the payment handler is one of RequestPromise, for the requests
\* that are not from before.
THEOREM KeepsThePromise == ASSUME PaymentsAssumption PROVE Spec => RefinesPromise
<1>1. Init => OldSettled /\ Promise!Init
  <2>1. SUFFICES ASSUME Init PROVE OldSettled /\ Promise!Init
    OBVIOUS
  <2>2. OldSettled
    BY <2>1 DEF PaymentsAssumption, Init, OldSettled
  <2>3. \A r \in Payables \ Old : Outcome(r) = "unasked" /\ HeardOf(r) = {}
    BY <2>1 DEF PaymentsAssumption, Init, Outcome, HeardOf, Decided
  <2>4. QED BY <2>2, <2>3 DEF Promise!Init
<1>2. IInv /\ OldSettled /\ [Next]_vars => OldSettled'
  BY OldStaySettled
<1>3. IInv /\ OldSettled /\ [Next]_vars => [Promise!Next]_Promise!vars
  <2>1. SUFFICES ASSUME IInv, OldSettled, [Next]_vars PROVE [Promise!Next]_Promise!vars
    OBVIOUS
  <2>2. CASE UNCHANGED <<status, untold, posts>>
    BY <2>2 DEF Promise!vars, Outcome, HeardOf
  <2>3. ASSUME NEW r \in Payables, ToldOf(r) PROVE r \notin Old
    BY <2>1, <2>3 DEF OldSettled, ToldOf, AskedOf, AnswerTo, LapseOf, CallbackOf, HookOf
  <2>4. QED BY <2>1, <2>2, <2>3, OneRequestMoves, MovesKeepThePromise
<1>4. QED
  BY <1>1, <1>2, <1>3, Invariance, PTL DEF Spec, RefinesPromise, Promise!Spec
=============================================================================
