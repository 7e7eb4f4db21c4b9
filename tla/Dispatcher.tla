----------------------------- MODULE Dispatcher -----------------------------
(***************************************************************************)
(* The webhook dispatcher of src/vault/internal/webhook/webhook.go.        *)
(*                                                                         *)
(*   Dispatch : put a delivery into `pending' and into the queue; when the *)
(*              queue is full, a goroutine of its own delivers it;         *)
(*   worker   : take a delivery from the queue and deliver it: attempts,   *)
(*              with a delay after each that fails, until one succeeds, or *)
(*              MaxRetries have failed, or the dispatcher is stopped;      *)
(*   Stop     : cancel the context, close the queue, wait for the workers. *)
(*                                                                         *)
(* An attempt may reach the backend and its answer be lost.                *)
(***************************************************************************)
EXTENDS Integers, Sequences

CONSTANTS Events,      \* event identifiers, the keys of `pending'
          Deliveries,  \* calls of Dispatch
          EventOf,     \* the event of a delivery
          Senders,     \* the workers
          QueueSize,   \* capacity of the queue
          MaxRetries,  \* maxRetries
          MaxKept      \* maxHistory

Overflow == "goroutine"   \* who delivers what did not fit into the queue
Nobody   == "nobody"

DispatcherAssumption ==
  /\ EventOf \in [Deliveries -> Events]
  /\ QueueSize \in Nat /\ MaxKept \in Nat
  /\ MaxRetries \in Nat \ {0}     \* NewDispatcher replaces 0
  /\ Senders \cap {Overflow, Nobody} = {}

VARIABLES stop,        \* how far Stop has got
          queue,       \* the channel
          pendingOf,   \* the `pending' map: the delivery of an event, if any
          history,     \* the completed deliveries, oldest first
          phase,       \* where a delivery is
          outcome,     \* Status of a delivery
          attempts,    \* Attempts of a delivery
          received,    \* how often the backend has received it
          by,          \* who delivers it
          worker       \* what a worker does

vars == <<stop, queue, pendingOf, history, phase, outcome, attempts, received, by, worker>>

Phases   == {"new", "stored", "queued", "sending", "waiting", "done", "dropped", "panicked"}
Outcomes == {"pending", "retrying", "success", "failed", "cancelled"}

TypeOK ==
  /\ stop \in {"running", "cancelled", "closed", "stopped"}
  /\ queue \in Seq(Deliveries) /\ history \in Seq(Deliveries)
  /\ pendingOf \in [Events -> Deliveries \cup {Nobody}]
  /\ phase \in [Deliveries -> Phases] /\ outcome \in [Deliveries -> Outcomes]
  /\ attempts \in [Deliveries -> Nat] /\ received \in [Deliveries -> Nat]
  /\ by \in [Deliveries -> Senders \cup {Overflow, Nobody}]
  /\ worker \in [Senders -> {"idle", "busy", "gone"}]

Init ==
  /\ stop = "running" /\ queue = <<>> /\ history = <<>>
  /\ pendingOf = [e \in Events |-> Nobody]
  /\ phase = [d \in Deliveries |-> "new"]
  /\ outcome = [d \in Deliveries |-> "pending"]
  /\ attempts = [d \in Deliveries |-> 0] /\ received = [d \in Deliveries |-> 0]
  /\ by = [d \in Deliveries |-> Nobody]
  /\ worker = [w \in Senders |-> "idle"]

-----------------------------------------------------------------------------
(* Dispatch.                                                               *)

Store(d) ==
  /\ phase[d] = "new"
  /\ phase' = [phase EXCEPT ![d] = "stored"]
  /\ pendingOf' = [pendingOf EXCEPT ![EventOf[d]] = d]
  /\ UNCHANGED <<stop, queue, history, outcome, attempts, received, by, worker>>

\* FAULT: what does not fit into the queue is left to whoever looks at `pending'.
EnqueueIfRoom(d) ==
  /\ phase[d] = "stored"
  /\ IF stop \in {"running", "cancelled"} /\ Len(queue) < QueueSize
     THEN /\ queue' = Append(queue, d)
          /\ phase' = [phase EXCEPT ![d] = "queued"]
     ELSE /\ phase' = [phase EXCEPT ![d] = "dropped"]
          /\ UNCHANGED queue
  /\ UNCHANGED <<stop, pendingOf, history, outcome, attempts, received, by, worker>>

\* A send on the closed queue panics, full or not.
Enqueue(d) ==
  /\ phase[d] = "stored"
  /\ \/ /\ stop \in {"closed", "stopped"}
        /\ phase' = [phase EXCEPT ![d] = "panicked"]
        /\ UNCHANGED <<queue, by>>
     \/ /\ stop \in {"running", "cancelled"} /\ Len(queue) < QueueSize
        /\ queue' = Append(queue, d)
        /\ phase' = [phase EXCEPT ![d] = "queued"]
        /\ UNCHANGED by
     \/ /\ stop \in {"running", "cancelled"} /\ Len(queue) >= QueueSize
        /\ phase' = [phase EXCEPT ![d] = "sending"]
        /\ by' = [by EXCEPT ![d] = Overflow]
        /\ UNCHANGED queue
  /\ UNCHANGED <<stop, pendingOf, history, outcome, attempts, received, worker>>

-----------------------------------------------------------------------------
(* The workers.                                                            *)

\* A worker that has taken a delivery and finds the context cancelled returns: the
\* delivery stays in `pending' and nobody has it any more.
Take(w) ==
  /\ worker[w] = "idle" /\ queue # <<>>
  /\ queue' = Tail(queue)
  /\ \/ /\ stop = "running"
        /\ worker' = [worker EXCEPT ![w] = "busy"]
        /\ phase' = [phase EXCEPT ![Head(queue)] = "sending"]
        /\ by' = [by EXCEPT ![Head(queue)] = w]
     \/ /\ stop # "running"
        /\ worker' = [worker EXCEPT ![w] = "gone"]
        /\ phase' = [phase EXCEPT ![Head(queue)] = "dropped"]
        /\ UNCHANGED by
  /\ UNCHANGED <<stop, pendingOf, history, outcome, attempts, received>>

Leave(w) ==
  /\ worker[w] = "idle" /\ queue = <<>> /\ stop = "closed"
  /\ worker' = [worker EXCEPT ![w] = "gone"]
  /\ UNCHANGED <<stop, queue, pendingOf, history, phase, outcome, attempts, received, by>>

\* The newest MaxKept of a history.
Trimmed(h) == SubSeq(h, IF Len(h) > MaxKept THEN Len(h) - MaxKept + 1 ELSE 1, Len(h))

\* complete: out of `pending', by the event's identifier, and into the history.
CompleteAs(d, o) ==
  /\ phase' = [phase EXCEPT ![d] = "done"]
  /\ outcome' = [outcome EXCEPT ![d] = o]
  /\ pendingOf' = [pendingOf EXCEPT ![EventOf[d]] = Nobody]
  /\ history' = Trimmed(Append(history, d))
  /\ by' = [by EXCEPT ![d] = Nobody]
  /\ worker' = [w \in Senders |-> IF w = by[d] THEN "idle" ELSE worker[w]]

\* FAULT: a retry is counted only when it is decided on.
AttemptMore(d) ==
  /\ phase[d] = "sending"
  /\ attempts' = [attempts EXCEPT ![d] = @ + 1]
  /\ \E arrives, ok \in BOOLEAN :
       /\ ok => arrives
       /\ stop # "running" => ~arrives
       /\ received' = IF arrives THEN [received EXCEPT ![d] = @ + 1] ELSE received
       /\ IF ok THEN CompleteAs(d, "success")
          ELSE IF attempts[d] >= MaxRetries THEN CompleteAs(d, "failed")
          ELSE /\ phase' = [phase EXCEPT ![d] = "waiting"]
               /\ outcome' = [outcome EXCEPT ![d] = "retrying"]
               /\ UNCHANGED <<pendingOf, history, by, worker>>
  /\ UNCHANGED <<stop, queue>>

\* sendRequest and what deliver makes of it.  Once the context is cancelled the
\* request is not sent any more.
Attempt(d) ==
  /\ phase[d] = "sending"
  /\ attempts' = [attempts EXCEPT ![d] = @ + 1]
  /\ \E arrives, ok \in BOOLEAN :
       /\ ok => arrives
       /\ stop # "running" => ~arrives
       /\ received' = IF arrives THEN [received EXCEPT ![d] = @ + 1] ELSE received
       /\ \/ ok /\ CompleteAs(d, "success")
          \/ ~ok /\ attempts[d] + 1 >= MaxRetries /\ CompleteAs(d, "failed")
          \/ /\ ~ok /\ attempts[d] + 1 < MaxRetries
             /\ phase' = [phase EXCEPT ![d] = "waiting"]
             /\ outcome' = [outcome EXCEPT ![d] = "retrying"]
             /\ UNCHANGED <<pendingOf, history, by, worker>>
  /\ UNCHANGED <<stop, queue>>

\* The delay is over; that the context is cancelled too need not be noticed.
Retry(d) ==
  /\ phase[d] = "waiting"
  /\ phase' = [phase EXCEPT ![d] = "sending"]
  /\ UNCHANGED <<stop, queue, pendingOf, history, outcome, attempts, received, by, worker>>

GiveUp(d) ==
  /\ phase[d] = "waiting" /\ stop # "running"
  /\ CompleteAs(d, "cancelled")
  /\ UNCHANGED <<stop, queue, attempts, received>>

-----------------------------------------------------------------------------
(* Stop.                                                                   *)

Cancel == /\ stop = "running" /\ stop' = "cancelled"
          /\ UNCHANGED <<queue, pendingOf, history, phase, outcome, attempts, received,
                         by, worker>>

Close == /\ stop = "cancelled" /\ stop' = "closed"
         /\ UNCHANGED <<queue, pendingOf, history, phase, outcome, attempts, received,
                        by, worker>>

\* FAULT: Stop waits for the queue to be empty, not for the workers.
ReturnEarly == /\ stop = "closed" /\ queue = <<>>
               /\ stop' = "stopped"
               /\ UNCHANGED <<queue, pendingOf, history, phase, outcome, attempts,
                              received, by, worker>>

\* wg.Wait: the workers are waited for, the other goroutines are not.
Return == /\ stop = "closed" /\ \A w \in Senders : worker[w] = "gone"
          /\ stop' = "stopped"
          /\ UNCHANGED <<queue, pendingOf, history, phase, outcome, attempts, received,
                         by, worker>>

-----------------------------------------------------------------------------
\* The next step with a delivery; of these three only one is possible at a time.
Deliver(d) == Enqueue(d) \/ Attempt(d) \/ Retry(d)

Next ==
  \/ Cancel \/ Close \/ Return
  \/ \E w \in Senders : Take(w) \/ Leave(w)
  \/ \E d \in Deliveries : Store(d) \/ Deliver(d) \/ GiveUp(d)

Spec == Init /\ [][Next]_vars

\* The caller of Dispatch, the workers and the goroutines are scheduled; an HTTP
\* request ends by the client's timeout at the latest, and a delay passes.
Fairness ==
  /\ \A d \in Deliveries : WF_vars(Deliver(d))
  /\ \A w \in Senders : WF_vars(Take(w))

FairSpec == Spec /\ Fairness

-----------------------------------------------------------------------------
\* The status of a delivery is earned: the backend has received what counts as a
\* success, at least once; a delivery fails after MaxRetries attempts, no fewer and
\* no more; and it is cancelled only by Stop.
OutcomeIsEarned ==
  \A d \in Deliveries :
    /\ received[d] =< attempts[d] /\ attempts[d] =< MaxRetries
    /\ outcome[d] = "success" => received[d] > 0
    /\ outcome[d] = "failed" => attempts[d] = MaxRetries
    /\ outcome[d] = "cancelled" => stop # "running"
    /\ phase[d] = "done" => outcome[d] \in {"success", "failed", "cancelled"}

\* Once Stop has returned, no worker delivers any more; what goes on, if anything,
\* did not fit into the queue.
StopIsQuiet ==
  stop = "stopped" =>
    \A d \in Deliveries : phase[d] \in {"sending", "waiting"} => by[d] = Overflow

\* Unless it is stopped, the dispatcher comes to an end with every delivery, be the
\* queue full, all workers waiting for a retry, or its entry in `pending' taken away
\* by another delivery of the same event.
EveryDeliveryEnds ==
  \A d \in Deliveries : phase[d] # "new" ~> (phase[d] = "done" \/ stop # "running")
=============================================================================
