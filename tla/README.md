# VettID Service Vault: specifications and proofs

TLA+ modules for the service vault of `src/vault` (Go), the TLC configurations that
model-check them on small instances, and TLAPS proofs of their main properties for every
value of the constants.

The vault stands between a service's backend and the personal vaults of its users. The
backend asks a user something over a REST API (log in, approve an action, hand out data,
keep or use a secret, take a call, pay); the vault sends the question over NATS to the
user's own message space, takes the answer from its own service space, and tells the
backend through an in-process callback, a webhook, or a status it can poll. Everything it
may ask rests on a contract that the user and the service have signed and that either may
amend or cancel.

## 1. Inventory

### Components, their state and their operations

| Component (source) | State | Operations |
|---|---|---|
| Request handlers: auth, authz, data, secrets (`handler/*.go`) | per handler, under one mutex: `pending` and `callbacks`, maps by request identifier; the fields of each request | create and send a request, `HandleResponse`, `SetCallback`, `GetRequest`, `Cleanup`, `CheckAuthorization` |
| Call signalling (`handler/call.go`) | `pending`, `callbacks`, `activeCalls` under one RW mutex | `InitiateCall`, accept, reject, answer, candidate, hang-up, `EndCall`, the ring-timeout watcher |
| Payments (`handler/payment.go`, `api/payment.go`) | `pending`, `completed`, `callbacks` | request, both answers, complete, fail, refund, the notices, `Cleanup` with trimming |
| Notifications (`handler/notification.go`) | `sent`, a bounded history | `Send`, acknowledgement, `trimHistory`, `Cleanup` |
| Engine and routing (`handler/engine.go`, `nats/servicespace.go`, `nats/router.go`) | registered handlers, subscriptions | subscribe, take a message, choose the handler of its event type, Ack or Nak |
| Negotiation (`contract/negotiation.go`) | none of its own: it works on the table and the keystore | submission, accept, reject, cancel, propose, respond, apply |
| Contracts table (`contract/dynamodb.go`) | contracts, amendments, invites | conditional `PutItem`, reads, an index by user, time to live |
| Verification (`contract/verification.go`) | none | `VerifyContract`, capability checks with expiry |
| Keystores, identity, start-up (`keystore/`, `identity/`, `cmd/service-vault/main.go`) | keys in memory and, for the file keystore, in a file; the process | open, store, load or generate the identity; start, signal, drain, exit |
| Webhook dispatcher (`webhook/webhook.go`) | queue, workers, `pending`, history | `Dispatch`, deliver with retries, `Stop` |
| Request webhooks (`handler/webhook.go`) | none | one POST, or a series of retries |
| REST API (`api/`) | one token bucket per client address | rate limit, API key, checks, one route per handler operation |
| NATS clients, cryptography, domain check, wire types, SDKs, CDK | see `PROJECT.json` | I/O, pure functions, declarations |

What the shipped binary wires together is less than what the packages offer. `main.go`
registers only the auth and authz handlers and gives the API no call, payment or secrets
handler, so those routes answer 503; without NATS the auth and authz handlers have no
engine, and a request panics and is answered with 500 by the router's `Recoverer`. Of the
negotiator the API calls the creation of an invite and the cancellation; its other
operations, `Cleanup` and the dispatcher have no caller outside the tests. The modules take
every exported operation as callable at any moment, which is what code that embeds the
packages may do; where a property depends on it, section 3 says so.

Other behaviour of the code that a reader should know, met while modelling and kept in the
models as it is:

* Payments are looked up for completion, failure and refund in `pending`
  (`api/payment.go`), which an answer has just removed them from: a backend reaches an
  approved payment through the API only with a lookup made before the answer.
* The auth handler reports a missing contract as a wrapped error, which `api/auth.go:97`
  compares by its text with the unwrapped one; the 403 intended there comes out as 500.
* Ack and Nak of a core NATS message do nothing, and the JetStream stream of the same
  subjects has no consumer: what no instance was connected for is not delivered later.
* The memory and KMS keystores live in memory only and `main` never exports them, so that a
  service configured with them starts with a new identity each time.
* A start that fails waits 30 seconds and exits with status 0, because the error has been
  taken out of the channel by the first `select` (`main.go:100`).
* `GetContract` and `GetAmendment` (`contract/dynamodb.go:104-110`, `460-467`) do not ask
  DynamoDB for a consistent read, so either may return what was stored before the last
  write. As the negotiator writes back whole what it has read, an operation that starts after
  another has ended may undo it: an amendment is lost, an accepted contract is pending again,
  a cancelled one is active again. `HandleAmendmentResponse` does not even look at the status
  it has read (`negotiation.go:410`).
* `UpdateContract` is documented to change the status, the counter-signature and the dates
  and reasons of activation and cancellation, and nothing else (`contract/store.go:38-43`).
  The implementation writes the whole contract, and `ApplyAmendment` uses it to change the
  offering and the expiry. The models follow the implementation.
* A cancellation through the API is answered with 500 when there is no such contract,
  since `api/contracts.go:254` compares a wrapped error with the unwrapped one. The 404 that
  `docs/api/openapi.yaml:331` has for that case is given only if the contract vanishes
  between the read and the write, after its key and the user's credentials are gone.
* Connection keys are stored under the contract's identifier, which the user chooses, in the
  keystore that also has the service's own keys (`keystore/file.go:124-139`, `166-183`). The
  identifier `service-encryption` is refused as taken, but `service-signing` is taken only
  among the signing keys: such a contract would be stored, and rejecting or cancelling it
  deletes the keys of that name of both kinds, the service's signing key with them. The
  shipped binary accepts no submissions. Negotiation and StartUp do not model the shared
  names; each has the keys of its own.
* The rate limiter tells clients by address; `docs/SECURITY-MODEL.md:189` says "per API key".
  Nothing relates the configured burst to the ten minutes after which buckets are deleted.

### How the components interact

* The API's goroutines call handlers; NATS delivers each subscription's messages on a
  goroutine of its own, and a service space may hold a subscription for all users and
  others for single users, so one reply may reach a handler twice at the same time.
* Several instances run behind a load balancer (`cdk/lib/stacks/compute-stack.ts`). The
  handlers' maps are each instance's own; contracts and amendments are in one table.
* A handler judges a reply under its lock and tells the backend after it: the callback
  runs on the delivering goroutine, the webhook on a new one (for a missed call, on the
  watcher's own).
* The negotiator reads an item, perhaps one that is out of date, changes a copy and writes
  the copy back whole. Nothing carries a version. Connection keys are in the keystore, in a
  different store.

### What is hard, and what makes each component correct

* **Requests.** Duplicated and late replies, two or three clock readings in one judgement,
  a poll that reads live fields without the lock, clean-up, a crash. Correct: at most one
  verdict per request, from the user who was asked and in time, final, told once.
* **Calls.** The watcher against accept and reject, an accept between expiry and the
  watcher, hang-up against `EndCall` and late answers. Correct: one outcome, the backend
  always hears of it, nothing rings for ever, an ended call stays as it was.
* **Negotiation.** Overlapping read-modify-writes, late reads, failures between two stores.
  Correct: no contract becomes active without the service's signature, terms grow only by
  what the user signed, keys exist as long as they are needed and no longer, and as long as
  nothing overlaps, breaks off or is read late, no operation undoes another.
* **Payments.** Two backends settle the same payment between lookup, lock and notice; a
  webhook that reads the payment when it gets to run; refunds one after the other; trimming
  and clean-up of what somebody holds. Correct: user and backend are told what happened,
  and money moves only when it is due.
* **Notifications.** Senders that overtake one another between the clock and the map, each
  trimming the history; an acknowledgement that is faster than `Send`. Correct: the history
  is bounded and loses only what is expired or oldest; an acknowledgement that has counted is
  not undone. (One that comes before the notification is in the map does not count.)
* **Dispatcher.** A full queue, `Stop` during a dispatch, two deliveries of one event.
  Correct: a status is earned, every delivery ends, no worker outlives `Stop`.
* **Identity and start-up.** A crash between two keys, a save that fails, a run that ends
  while main waits for a signal. Correct: one identity for good; a process that should end
  does.
* **Rate limiting.** The clean-up deletes a bucket somebody has just loaded. Correct: over
  every span of time no more than a burst and the refill.
* **Routing and capabilities.** Which handler a subject reaches, and through how many
  subscriptions; which contract decides. Correct: a message of a registered type finds its
  handler (it does not: `routing`); the status of a REST reply tells what was done. That a
  message may be handled twice is left to the handlers, and is why they are checked under
  replies delivered twice.

The hazards, each at its line and with the properties aimed at it, are in `PROJECT.json`.

## 2. Modules

```
RequestPromise            what a backend is promised (abstract)
  ^            ^                ^
  |            |                |   refinement: PROPERTY RefinesPromise (PaymentsPromise),
RequestLifecycle  Calls     Payments  THEOREM KeepsThePromise         Negotiation
  ^      ^         ^    ^       ^                                      ^      ^
  |   ..._proofs   |  ..._proofs|                                      |   ..._proofs  (TLAPS)
MCRequestLifecycle MCCalls      |                                    MCNegotiation     (TLC)
                                |
Payments  Dispatcher  StartUp  RateLimiter    Notifications  Routing  RestApi
  ^           ^          ^          ^               ^           ^        ^
..._proofs ..._proofs ..._proofs ..._proofs         |           |        |
  ^           ^          ^          ^               |           |        |
  +-----------+----------+----------+---------------+-----------+--------+
  Services (by INSTANCE: the parts side by side)
     ^                 ^
  MCServices (TLC)  Services_proofs (TLAPS)
```

### RequestPromise

The abstract specification: a request is asked, gets at most one verdict or lapses, and the
backend is told of a verdict at most once through each of two channels. It knows nothing of
clocks, locks, instances or messages. The set of verdicts is a parameter: the request
handlers implement it with the statuses of replies, the call handler with `accepted`,
`rejected` and `missed`, the payment handler with `approved` and `denied`. A request that is
not answered may lapse silently but for calls, which somebody always decides.

### RequestLifecycle

One module for the four request handlers, whose `HandleResponse` methods are the same but
for a few guards; `HandlerOf[r]` selects them (authz compares action and resource, secrets
has no grace period, no `RespondedAt` and refuses unknown statuses). The correspondence:

| Specification | Code |
|---|---|
| `pending`, `callbacks`, `status`, `expiresAt`, `respondedAt`, `response` | the maps and fields of the same names; `Home[r]` is the instance whose memory they are in |
| `Prepare`, `Store`, `Send`, `Return` | the request method, cut where other goroutines can come in; a failed send is ignored by the code and by `Send` |
| `Receive` | a subscription's goroutine takes a message; any reply the user may have sent, any number of times, on any instance |
| `Refuse`, `Expire`, `Accept` | the three ways through `HandleResponse` under its lock. `Accept` reads the clock up to three times (expiry, end of grace, `RespondedAt`) and lets time pass between the readings |
| `RunCallback`, `SpawnHook`, `Post` | what follows the lock, one step at a time |
| `SetCallback` | possible only when the backend has the identifier, after `Return` |
| `PollLookup`, `PollRead` | `GetRequest` under the lock and the reading of the fields after it; a status that changed in between may come out torn, since Go strings are two words |
| `Cleanup`, `CheckAuthorization` | the methods of the same names |
| `Crash` | an instance stops: its maps, goroutines and calls are gone |

### Calls

The call handler. A call is identified with its request; `CallID` and `ReturnedID` keep
apart the two identifiers the code uses. `Decide` is the part under the lock that
`handleAccept`, `handleReject` and `watchCallTimeout` share: set the status, leave the map,
take the callback along. `Watch` and `WakeUp` are the watcher's two looks at the map around
its sleep. `AcceptLate` marks an expired request and leaves it where it is. There is no
crash action, because nothing of a call outlives the process: a crash only cuts a
behaviour short, which the safety properties cover, and after it there is nothing left to
say of the request.

### Negotiation

Every operation of the negotiator as the sequence of its calls to the stores, with the
caller's copy in between (`pc`, `on`, `amending`, `copy`, `outcome`). `BreakOff` ends an
operation after any call: the store returned an error, or the process died.

Reads are eventually consistent. A write changes `table` at once; each member of `Replicas`
has its own version of every contract (`replica`), which `CatchUp` brings up to date some
time later, row by row; and `Readable` is what `GetContract` may return, the current version
or that of a replica. A replica may miss versions but does not go back. `Accept`,
`RejectOrCancel`, `Propose` and the application of an amendment all read in this way. Of an
amendment a late read matters only in that an answered one may be read as pending, so
`Respond` takes any that was saved. Conditions of writes are checked against the current
version, which is what DynamoDB does. The index behind `GetContractByUser` lags as well; for
`lookup` it is taken as up to date, since the finding does not need the lag.

What a signature covers is the connection key and the terms at the time of signing; terms are the
set of amendments in force, an upgrade or downgrade replacing the earlier ones. `elapsed`
and `TimeToLive` stand for the clock and for the table's time to live. Four variables are
history: `agreed`, `keyDropped` and `keyLeft` (contracts whose key a reject or cancel deleted,
or failed to delete) and `disturbed` (contracts on which operations overlapped, broke off or
read what was out of date); no action reads them except to update them.

### Payments

`open` is the `pending` map, `completed` the map of the same name, and `paid` the status of a
request's payment. `Approve`, `Deny` and `AnswerLate` are the ways through `HandleResponse`;
`RunCallback` and `Post` what follows its lock. A settler is a goroutine of the backend: it
finds its payment (`LookUp`, by a REST call and in `pending`; `UseKnown`, in the same process
and from the callback), settles it under the lock (`Complete`, `Fail`, `Refund`, or
`Refuse`), and notifies the user after it (`Notify`). `Cleanup` drops expired requests and
trims the history to its youngest. The webhook reads the payment's status without the lock
when it gets to run: `Post` is such a read before or after a settlement, and `Tear` one during
it, which may come out as neither the old nor the new status. `told`, `hook` and `returned` record what user and backend
were told and what money went back.

### Notifications

`Send` in three steps, between which other senders and acknowledgements may come: `Create`
with the reading of the clock for `CreatedAt` (`Stamp`; two notifications may get the same
one), `SendToUser`, and `Store` with the status and the trimming (`Trimmed`: which of several
equally old ones goes is left to the map's order). `Ack` is `HandleRequest`, of any user and
with any status. `Stored` are the notifications whose `Send` has returned.

### Dispatcher

`Store` and `Enqueue` are `Dispatch`; `Take` and `Leave` the worker's loop; `Attempt`,
`Retry` and `GiveUp` the loop of `deliver`; `CompleteAs` is `complete`. `Cancel`, `Close` and
`Return` are the three steps of `Stop`. An attempt may reach the backend without its answer
reaching the dispatcher. A delivery ends `done`, or `dropped` (its worker found the context
cancelled), or `panicked` (a send on the closed queue).

### StartUp

The life of the process over several starts. `run` goes through the steps of the goroutine of
that name, each of which may fail or be interrupted by `Kill`; `main` is where the main
goroutine waits: for a signal or the run's report, then for its end or 30 seconds. `disk` and
`mem` are the two keys as the file and the process have them. `bound` are the identities that
contracts have been stored under.

### RateLimiter

The token buckets of one client address. Tokens are counted in parts and the clock ticks once
per part, which makes the code's floating-point arithmetic integers. `Load` is the access to
the map, `Allow` and `Deny` what follows under the bucket's lock, `Cleanup` the deletion of a
stale bucket, which may come in between. `Mark` starts an observer's count at any moment.

### Routing

From a user's `Publish` to the handler. `SubscribeToAllUsers` joins a node to the queue group,
which gives a message to one of its members; `SubscribeToUser` is a plain subscription to one
user, and each of them gets every message of that user, so that a message may reach several
nodes, or one node twice. `Followed` are those that may be made. Each subscription takes one
message at a time (`TakeUp`), and `Quit` ends those of a node; `Dispose` is
`handleMessage`, `Route` and `createMessageHandler` in one, as nobody else touches what it
works on but the table of contracts, of which it asks once. `EventType` is the last token of
the subject.

### RestApi

The stages of an HTTP request in their order: `RateLimit`, `apiKeyAuth`, `Validate`, then
`Allowed` and `Make` for requests to users, and `Serve` for all other routes. A route is a
record of what it needs and answers; all 22 are defined, and the instance runs three that
differ most. `effect` says whether a request has changed anything, `saw` what contract the
handler saw. `Serve` has the replies of the negotiator as its errors come out: 500 with or
without a part of the work done, and the 404 of a cancellation after the deletion of the key.
`granted` is the contract as the lookup by user finds it, which may lag behind the table.

### Services and MCServices

The seven modules above share no state in the code. Services instantiates them all, each over
variables of its own, and its `Spec` lets them run side by side: a step of Services is a step
of one part. It names the properties of the parts, and Services_proofs proves them of it.
MCServices is its instance for TLC. As every interleaving would only multiply the parts'
states, a behaviour of `MCSpec` follows one part, chosen at the beginning (`part`), and the
others stay in their initial states; this restriction is TLC's alone, and no theorem has it.
TLC also checks the assumptions of the modules for MCServices' values.

Definitions marked `FAULT` in the modules are variants of an action as a plausible mistake
would have it; they are part of no specification, and each shows that some property would
notice the mistake.

## 3. Model checking

Twelve runs; those marked *violated* check one statement of the documentation that the code
contradicts, and TLC's counterexample is the finding.

| Run | What it asks |
|---|---|
| `requests` | an authorization with grace period, two workers of one instance, replies of the user and of a stranger, a crash |
| `secrets` | a secrets request on two instances, unknown statuses among the replies; with fairness, that callback and webhook are run |
| `calls` | one call, two workers, the watcher, both ways of hanging up; with fairness, that no ring lasts for ever and the backend hears of the outcome |
| `negotiation` | one contract, two amendments (one of them replacing), two callers, a replica that may be behind |
| `services` | the seven parts of Services: payments, notifications, dispatcher, start-up, rate limiter, routing, REST API |
| `poll` *violated* | a poll reports the status of an answered request |
| `check_authorization` *violated* | `CheckAuthorization` finds a recorded approval |
| `call_status` *violated* | the identifier returned by starting a call leads to the call |
| `verify` *violated* | an active contract passes `VerifyContract` |
| `resurrection` *violated* | a cancelled contract stays cancelled |
| `lookup` *violated* | the lookup by user finds an active contract |
| `routing` *violated* | a message of a registered type reaches its handler |

What the passing runs show, property by property:

* `AtMostOneNotification`, `DecisionIsFinal`, `OnTimeOrGrace`, `AcceptedIsGenuine`,
  `NoEarlyLoss`, `ReportedVerdictStands` (RequestLifecycle): a verdict is unique, final,
  genuine and in time, the backend hears of it at most once per channel, clean-up takes
  nothing that could still be answered, and a poll that reports a verdict tells the truth
  for good although it reads without the lock. `NoEarlyLoss` speaks of the grace period and
  not of `ExpiresAt`: with the negative grace periods that the API accepts, a request may
  be cleaned up before it expires.
* `HookIsCalled`, `CallbackIsRun`: what was decided is told, unless the process dies first.
* `OneOutcome`, `MissedIsOver`, `NoCallOnceExpired`, `EndedForGood`, `DurationWithinCall`,
  `RingEnds`, `OutcomeIsTold` (Calls): accept, reject and watcher agree on one outcome;
  a call is missed no earlier than `ExpiresAt`; an expired request never becomes a call,
  though it stays in the map until the watcher wakes up; ended calls are final.
* `ActiveIsCountersigned`, `KeyKeptUntilDropped`, `CancelledHasNoKey`, `TermsAreAgreed`,
  `SubmissionIsFixed` (Negotiation) hold however operations overlap, wherever they break off
  and whichever version they read. `CancelledHasNoKey` leaves out contracts whose key the
  keystore failed to delete, an error that the code ignores. `SettledContract` and
  `SettledGoesForward` are about contracts that nothing of this has happened to:
  `resurrection` shows that a cancellation may be undone otherwise, and amendments may be
  lost and accepted contracts be pending again in the same way. They say what one operation
  after another does to a contract, and no more.
* `RefinesPromise`: RequestLifecycle and Calls implement RequestPromise, and so does Payments
  (`PaymentsPromise`) for the requests that are not from before.
* `NoticesAreTrue`, `MoneyIsDue` (Payments): however two backends overlap on one payment, the
  user is never told of both completion and failure, nor of a refund of what was not taken,
  and a webhook that runs late tells a status the payment has had, unless it reads just when
  the payment is settled; nothing is paid on a request that was reported as expired or
  cleaned up, and nothing is refunded after a refund of the whole price. That partial refunds do not add up to more than the price is *not*
  true of the code and not claimed: each is compared with the price alone.
* `AcknowledgementStands`, `HistoryKeepsYoungest` (Notifications): the status that `Send` writes
  after sending never undoes an acknowledgement; and of the notifications stored, by however
  many goroutines in whatever order, one is missing from the history only if it has expired or
  if as many as the history holds were stored that are not older.
* `OutcomeIsEarned`, `StopIsQuiet`, `EveryDeliveryEnds` (Dispatcher): success means received,
  failure means exactly `MaxRetries` attempts; after `Stop` no worker delivers, though an
  overflow goroutine may; and unless stopped, every dispatched delivery comes to an end.
* `IdentityIsKept`, `ProcessEnds` (StartUp): with the file keystore there is one identity
  over all starts, kills and failed saves, the one on disk, and all contracts are stored
  under it, provided that no contract has the name of the service's own key (section 1); and
  a process that is to end, ends.
* `GrantsAreBounded` (RateLimiter): from any moment on, no more than a burst and the refill
  is granted from the bucket in the map, although it may have been replaced by a full one.
  It needs `Stale >= Burst`: ten minutes fill a bucket with the default rates, but
  `config.go` accepts others with which they do not. It leaves out requests that hold a
  deleted bucket.
* `StatusTellsEffect` (RestApi): what was refused changed nothing, except for the negotiator,
  which may answer 500 with a part of its work done and, to a cancellation, 404 after the
  deletion of the key; and what was confirmed was done under a contract that had the
  capability when it was looked at.

### Bounds, and why they are enough

* One request (or call): no operation reads or writes another request's entry; the proofs
  of section 4 hold for any number. Two users: the one who was asked and one who was not.
* Two workers: what a race between handlers needs; a third would queue for the same lock.
* `MaxClock`: with a timeout of 0 and a grace period of 1, the clock values 0 to 2 are one
  in time, one in the grace period and one too late, and `Accept` may pass from each to the
  next between its readings. For calls a ring of 1 tick from any start up to 2, on a clock
  up to 3, leaves room to answer in time, exactly at expiry and late.
* `MaxCrashes` = 1: after a crash the instance has no request left that a second could take.
* Negotiation: two callers overlap at every pair of steps; two amendments are the fewest
  that can lose one another; `MaxKeys` = 2 allows a contract to be submitted twice;
  one replica that may keep any version it has had is the least by which a read is out of
  date. Once the contract is disturbed, behaviours are followed only while there is no
  replacing amendment (`NoReplacingOnceDisturbed`): what replaces what matters only to
  `SettledContract`, which says nothing of disturbed contracts. `Extending` is empty in this
  run for the same reason. The theorems of section 4 have neither restriction. `lookup` has
  two contracts of one user.
* MCServices gives each part constants of its own: a new payment and one of
  the past, two settlers, a price of 2 and refunds of 1 or all of it, at most 3 returned, a
  history of one; three notifications of which one is kept and one may expire; three
  deliveries of two events, so that two share one, with one worker, room for one in the queue
  and two attempts; four starts and three identities with each kind of keystore; two callers
  and two buckets of two tokens of two parts, on a clock that runs until the first bucket is
  stale; two instances, one of which follows the user whose reply it is, and three messages of
  which one is that reply, one unreadable; three requests and two changes of the contract.
  Each is the least at which the case the property is about can happen: a second settler, a
  dropped notification, a full queue, a restart after a failed start after a served one, a
  replaced bucket, a second instance.
* Symmetry is used on workers and callers only, and only in runs without liveness.

Deadlock is checked in the runs of RequestLifecycle, where a worker can always take another
copy of a reply or a poll can be repeated. Calls, Negotiation and the parts of MCServices may
really stop: all calls ended, all deliveries done, all requests answered, or the bounded keys
and starts used up.

### Fairness

* RequestLifecycle: a worker that has accepted a reply goes on (`RunCallback`,
  `SpawnHook`), and a webhook goroutine makes its call (`Post`). The first assumes that the
  backend's callback returns, which the code does too, as it runs it on the delivering
  goroutine; the others are Go's scheduler. Nothing is assumed of users, messages, polls,
  clean-up or the clock.
* Calls: in addition time passes, `InitiateCall` goes on once the request is stored (a
  failed send is ignored and NATS publishing does not block for ever), and the watcher's
  sleep ends after `ExpiresAt` (`time.Sleep`). Nothing is assumed of the user.
* Dispatcher: each delivery that somebody has in hand goes on (`Deliver`: the caller of
  `Dispatch` and the workers are scheduled, the HTTP client has a timeout, a delay passes),
  and an idle worker takes what is queued (`Take`).
* StartUp: `main`'s first `select` sees a report (`NoticeEnd`), and the 30 seconds of the
  second pass (`TimeOut`). Nothing is assumed of `run`, which may hang.
* Weak fairness is enough everywhere: no other step disables these but their own, or one
  after which there is nothing left to wait for.
* Negotiation has no liveness: every operation may break off and nobody retries.

## 4. Proofs

Eight modules hold proofs, checked with TLAPS: RequestLifecycle, Negotiation, Calls, Payments,
Dispatcher, StartUp, RateLimiter and Services have a `_proofs` module each, the last also for
Notifications, Routing and RestApi. They make no further assumption than those named in the
module they extend (the types of the constants; that the marks for "no
message" and "no contract" are no messages and no contracts; that users do not send the
model's own words for "no status"; that workers and watchers are different goroutines; that a
bucket is full before it is stale; that there are finitely many notifications). The modules that Services instantiates name their
assumptions as definitions, the theorems about them assume these explicitly, Services assumes
them together (`ServicesAssumption`), and TLC checks them for the values of MCServices.
Proved are:

* `TypeCorrect`, and `Invariance`: an inductive invariant `IInv`;
* all safety invariants and action properties of the passing runs;
* `KeepsThePromise` for RequestLifecycle, Calls and Payments: every step is a step of RequestPromise or
  a stuttering step, under the refinement mapping TLC checks as `RefinesPromise`;
* how far three of the counterexamples reach (below).

The clock is bounded by `MaxClock` in the proofs as well, but by an arbitrary one, and so
are crashes, keys, starts and the money returned.

**RequestLifecycle.** "At most one notification" is not inductive: it depends on a worker
that has left the lock being the only one that holds the verdict. `DeliveryInv` says that
such a worker holds exactly the reply recorded in the request and that the channels it has
yet to use are unused, `UniqueInv` that no two workers deliver the same verdict, and
`PostingInv` the same of the webhook goroutines. `OpenInv` says that a request that was
declared expired is past both limits, so that a later reading of a clock that never goes
back cannot accept it: this makes expiry final, and with `PollInv` what a poll saw.

**Calls.** The same argument with one more actor: `BusyInv` and `UniqueInv` say of workers
and watchers alike that whoever took a request out of the map knows its outcome and is the
only one to tell of it. `MapInv` ties status, map and the progress of `InitiateCall`
together; `CallInv` ties `activeCalls` to the calls' own statuses and orders their times.
`NoCallOnceExpired` rests on the part of `MissedIsOver` about requests that are marked
expired and still in the map.

**Negotiation.** What a caller holds in memory, and what a replica still has, may be out of
date, and the invariant says what of it remains true all the same. `RowInv`, for every version
in the table and in the replicas, and `CopyInv`, for every copy about to be written back, say
that it has the key and user signature of the stored contract (`SameSubmission`), only
agreed terms, and, if active, a counter-signature over its own key (`Sound`). `EndedInv` says
that whatever says "cancelled", stored or about to be, comes after an attempt to delete the
key. `SubmitInv` (a submission's key is in place before the contract is saved) and
`AmendmentInv` (an amendment belongs to a stored contract, and to one caller while it is
being stored) are about the beginnings. That these hold although versions overtake each other
is why a late write can undo a cancellation or an amendment, but cannot forge a signature, a
key or a term. `CancelledHasNoKey` needs in addition that a key generated by a submission is
new, so that a second submission of a cancelled contract does not bring back the first's.

For the contracts nobody disturbed a second invariant is needed, `QuietInv`: such a contract
has at most one caller, what this caller has in memory is what is stored (`Knows`, step by
step; here it counts that it read the last version), and the contract is in order (`Fits`)
except while the second of two writes is outstanding: the contract after its key, the
amendment's mark after the contract. A step concerns one caller and one contract (`ActsOn`),
and leaves every other contract alone (`AsideQuiet`), which reduces each action to the
contract it is about. `SettledContracts` and `ContractsGoForward` follow from it.

**Payments.** `SettlerSound` carries what was done under the lock to the notice after it: no
other settler can take the payment back out of the statuses that make the notice true. That
needs the order of the statuses (`GoesOn`), which the webhook's late reading needs as well.
`RequestSound` says that a request that has left `pending` never returns there. For the
refinement a step changes what is told of at most one request (`OneRequestMoves`). An answer
in time finds its request undecided; a late one (`AnswerLate`) only marks it expired, while it
stays in `open`, and no answer in time can follow as the clock does not go back. Requests from
before (`Old`) are outside the refinement and nothing is told of them (`OldStaySettled`).

**Dispatcher.** `Earned` ties attempts, receipts and status to where a delivery is;
`QueueSound` says that the queue has no delivery twice and none that somebody has begun with,
`WorkersSound` that each worker has at most one, so that `Stop`, which waits for all workers,
waits for every delivery but those of the overflow goroutines.

**StartUp.** `FileIsSound` says what a kill or a failed save may leave in the file: no keys, a
signing key alone of an identity that never served, or both keys of one identity.
`RunKnowsFile` follows the run's copy of it.

**RateLimiter.** `Budget`: what was granted and what the bucket in the map would give now are
together within the bound. A deletion needs the bucket to be old enough to be full, so that
the full bucket that replaces it costs nothing.

**Notifications.** `NtfInv`: until `Send` has stored a notification it is not in the map, so
no acknowledgement of it counts; this is why the status that `Send` writes undoes none, and
also why an acknowledgement of that moment is lost and not merely late. `History` is
`HistoryKeepsYoungest` over the library's cardinality. A notification that is already gone
stays outnumbered because what has been stored never becomes less (`NotOlderGrows`). One that
the trimming removes is not younger than any that it keeps, and those fill the history.

**Routing.** The types are all it needs for the two theorems on the finding (below); how often
a message is handled is bounded by nothing but the number of subscriptions.

**RestApi.** `RouteSound` says what all routes of `setupRoutes` have in common; which of them a
request takes is a constant, so it suffices to look at one request (`RequestSound`): it has
changed nothing before the step that answers it, and one that passed the check of its
capability remembers that, although the contract may have changed since. Which of the error
replies may come after a change is in `Told`.

**Services.** `StepOfEach` says that a step of the process is, of every part, a step or no
change, and `EachPartRuns` that a behaviour of Services is one of each part's specification.
With it the theorems of the parts become theorems of the process (`TrueNotices`, `DueMoney`,
`PaymentsKeepPromise`, `StandingAcknowledgements`, `YoungHistory`, `EarnedOutcomes`,
`QuietAfterStop`, `OneIdentity`, `BoundedGrants`, `TruthfulReplies`), in whatever order the
parts' steps come.

**How far the findings go.** A counterexample shows one behaviour; three theorems say that
there is no other. `NoApprovalIsFound`: `CheckAuthorization` never finds an approval, since an
answer takes its request out of the only map it looks in; for the same reason every poll that
looks up an answered request misses it (`AnsweredIsNotFound`). `NoContractVerifies`: no stored
contract ever passes `VerifyContract`, since the user signs it before it has a service key.
`TwoTokensAreDeaf`: a handler whose type has two tokens or more, as all have, is never called,
and `OneTokenIsRouted` that types of one token would be.

### Only model-checked

Liveness (`HookIsCalled`, `CallbackIsRun`, `RingEnds`, `OutcomeIsTold`, `EveryDeliveryEnds`,
`ProcessEnds`) is out of the prover's reach. The counterexamples are TLC's. No
module needs a recursive definition, of which little could be proved: totals are kept as
variables.

## 5. Not modelled

* Cryptography, message formats, HTTP and NATS transport, JWT credentials, the DNS check,
  configuration parsing, SDKs, examples and the CDK stacks: pure functions, input and
  output, or declarations.
* Invites: the API creates them (a route of RestApi), and nothing uses one up. The hazard
  of two users taking the last use in `UseInvite` is listed.
* `Export` and `Import` of the KMS keystore, which nothing calls.
* The expiry of capability grants: RestApi takes a contract's capabilities as those that
  `VerifyCapability` lets through. Of several grants of one capability the first decides
  there, even when it has expired and a later one has not; `VerifyCapabilityWithScope` and
  the engine's `hasCapability` have no caller.
* A contract that is cancelled between a request and its answer: no code looks at it again
  for requests it has sent; RestApi has the half before the request, Routing that of the
  answer's sender. Composing them with RequestLifecycle would add no guard of the code.
* The reading of a live call's fields by `getCallStatus`, which is of the kind that
  RequestLifecycle models for requests (`PollRead`).
* The name space that connection keys share with the service's own keys in the keystore
  (section 1).
* Of `callWebhook` one call counts as one, whatever its retries do, since the code learns
  nothing from it (the auth, authz and data handlers post an empty body: `_ = payload`).
* `MaxDuration` of a call is stored and never read.
* The engine discards what a handler returns (`engine.go:168`), so a refused reply and an
  unknown one look the same to the user, and the specifications do not tell them apart.

## 6. Plan

Done, in this order: RequestLifecycle with RequestPromise, Negotiation, Calls and their
proofs; then Payments, Dispatcher, StartUp, RateLimiter and Routing with theirs,
Notifications and RestApi; the contracts nobody disturbed; last Services with the proofs of
Notifications and RestApi, and the refinement by Payments. Left, most important first:

1. **Consent**: RequestLifecycle over Negotiation, for requests whose contract is cancelled
   between the question and the answer, once the code decides what is to happen to them.
2. **Readers of calls**: a reader of a live call in Calls, as in RequestLifecycle.
3. **Invites** in Negotiation: the last use, expiry.
4. **Webhooks, abstractly**: what the dispatcher promises of a delivery, refined by Dispatcher.
