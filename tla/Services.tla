------------------------------ MODULE Services ------------------------------
(***************************************************************************)
(* The parts of the service vault that share no state with one another,    *)
(* side by side in one process: every step is a step of one part and       *)
(* leaves the others as they are.  A part is brought in with its module,   *)
(* or with the module of its theorems, which extends that.                 *)
(***************************************************************************)
EXTENDS Integers, Sequences, FiniteSets

CONSTANTS
  Users, Payables, Payer, Price, Refunds, Old, Settlers, Lifetime, MaxHistory,
  MaxReturned, MaxTime,                                           \* Payments
  Readers, Notes, Addressee, MayExpire, MaxSent,                  \* Notifications
  Events, Deliveries, EventOf, Senders, QueueSize, MaxRetries, MaxKept, \* Dispatcher
  Kinds, MaxIdentities, MaxRuns,                                  \* StartUp
  Callers, Buckets, Token, Burst, Stale, MaxTick,                 \* RateLimiter
  Nodes, Members, Letters, Sender, TypeTokens, Form, Followed, Registered, \* Routing
  Requests, Clients, Client, RouteOf, Wired, Development, ApiKeys,
  MaxChanges                                                      \* RestApi

VARIABLES
  time, status, expiresAt, open, askedFor, paid, refunded, createdAt, completed,
  untold, known, posts, hook, step, errand, on, told, returned,
  noteStage, noteStatus, born, sent, overdue,
  stop, queue, pendingOf, history, phase, outcome, attempts, received, by, worker,
  kind, disk, mem, run, self, main, cancelled, report, exit, made, starts, served, bound,
  now, listed, level, filledAt, used, holds, mark, spent, spentBeside,
  joined, inbox, inHand, verdict, handled, published, party,
  at, reply, effect, granted, saw, changes

payVars      == <<time, status, expiresAt, open, askedFor, paid, refunded,
                  createdAt, completed, untold, known, posts, hook, step, errand,
                  on, told, returned>>
noteVars     == <<noteStage, noteStatus, born, sent, overdue>>
dispatchVars == <<stop, queue, pendingOf, history, phase, outcome, attempts,
                  received, by, worker>>
startVars    == <<kind, disk, mem, run, self, main, cancelled, report, exit, made,
                  starts, served, bound>>
limiterVars  == <<now, listed, level, filledAt, used, holds, mark, spent,
                  spentBeside>>
routingVars  == <<joined, inbox, inHand, verdict, handled, published, party>>
restVars     == <<at, reply, effect, granted, saw, changes>>

vars == <<payVars, noteVars, dispatchVars, startVars, limiterVars, routingVars, restVars>>

Pay   == INSTANCE Payments_proofs
Ntf   == INSTANCE Notifications
Dsp   == INSTANCE Dispatcher_proofs
Start == INSTANCE StartUp_proofs
Lim   == INSTANCE RateLimiter_proofs
Rt    == INSTANCE Routing
Api   == INSTANCE RestApi

ASSUME ServicesAssumption ==
  /\ Pay!PaymentsAssumption /\ Ntf!NotificationsAssumption /\ Dsp!DispatcherAssumption
  /\ Start!StartUpAssumption /\ Lim!RateLimiterAssumption /\ Rt!RoutingAssumption
  /\ Api!RestApiAssumption

----------------------------------------------------------------------------
Init == /\ Pay!Init /\ Ntf!Init /\ Dsp!Init /\ Start!Init /\ Lim!Init /\ Rt!Init
        /\ Api!Init

PaymentStep  == /\ Pay!Next
                /\ UNCHANGED <<noteVars, dispatchVars, startVars, limiterVars, routingVars,
                               restVars>>
NoteStep     == /\ Ntf!Next
                /\ UNCHANGED <<payVars, dispatchVars, startVars, limiterVars, routingVars,
                               restVars>>
DispatchStep == /\ Dsp!Next
                /\ UNCHANGED <<payVars, noteVars, startVars, limiterVars, routingVars,
                               restVars>>
StartStep    == /\ Start!Next
                /\ UNCHANGED <<payVars, noteVars, dispatchVars, limiterVars, routingVars,
                               restVars>>
LimiterStep  == /\ Lim!Next
                /\ UNCHANGED <<payVars, noteVars, dispatchVars, startVars, routingVars,
                               restVars>>
RoutingStep  == /\ Rt!Next
                /\ UNCHANGED <<payVars, noteVars, dispatchVars, startVars, limiterVars,
                               restVars>>
RestStep     == /\ Api!Next
                /\ UNCHANGED <<payVars, noteVars, dispatchVars, startVars, limiterVars,
                               routingVars>>

Next == \/ PaymentStep \/ NoteStep \/ DispatchStep \/ StartStep
        \/ LimiterStep \/ RoutingStep \/ RestStep

Spec == Init /\ [][Next]_vars

\* Dispatcher and StartUp come with their fairness.
Fairness == Dsp!Fairness /\ Start!Fairness

----------------------------------------------------------------------------
(* The properties of the parts, by their names; each is described in the   *)
(* module it comes from.                                                   *)

\* Every part keeps its types.
TypeOK == /\ Pay!TypeOK /\ Ntf!TypeOK /\ Dsp!TypeOK /\ Start!TypeOK
          /\ Lim!TypeOK /\ Rt!TypeOK /\ Api!TypeOK

\* Payments: what is told of a payment is what happened to it.
NoticesAreTrue == Pay!NoticesAreTrue
\* Payments: one verdict, told once through each channel.
PaymentsPromise == Pay!RefinesPromise
\* Payments: a payment is made, and money goes back, only when it is due.
MoneyIsDue == Pay!MoneyIsDue
\* Notifications: what was acknowledged stays acknowledged.
AcknowledgementStands == Ntf!AcknowledgementStands
\* Notifications: the history is bounded and keeps the youngest.
HistoryKeepsYoungest == Ntf!HistoryKeepsYoungest
\* Dispatcher: a delivery's status is what the attempts have earned.
OutcomeIsEarned == Dsp!OutcomeIsEarned
\* Dispatcher: after Stop no worker delivers.
StopIsQuiet == Dsp!StopIsQuiet
\* Dispatcher: every delivery comes to an end, unless the dispatcher is stopped.
EveryDeliveryEnds == Dsp!EveryDeliveryEnds
\* StartUp: one identity for good, whatever fails or is killed.
IdentityIsKept == Start!IdentityIsKept
\* StartUp: a process that should end does.
ProcessEnds == Start!ProcessEnds
\* RateLimiter: a burst and the refill, over every span of time.
GrantsAreBounded == Lim!GrantsAreBounded
\* Routing: a message of a registered type finds its handler.
RegisteredTypeIsRouted == Rt!RegisteredTypeIsRouted
\* RestApi: the status of the reply tells what was done.
StatusTellsEffect == Api!StatusTellsEffect
=============================================================================
