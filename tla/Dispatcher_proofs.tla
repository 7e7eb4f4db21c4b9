-------------------------- MODULE Dispatcher_proofs -------------------------
(***************************************************************************)
(* A delivery's status is earned, and Stop leaves no worker at work: for   *)
(* any number of deliveries and workers and every size of the queue.       *)
(***************************************************************************)
EXTENDS Dispatcher, TLAPS, SequenceTheorems

\* Somebody is at work on the delivery.
Active(d) == phase[d] \in {"sending", "waiting"}

\* The attempts left and the status, by where the delivery is.
Earned(d) ==
  /\ received[d] =< attempts[d]
  /\ phase[d] \in {"new", "stored", "queued", "dropped", "panicked"} =>
       attempts[d] = 0 /\ outcome[d] = "pending"
  /\ Active(d) => attempts[d] < MaxRetries /\ outcome[d] \in {"pending", "retrying"}
  /\ phase[d] = "done" =>
       /\ attempts[d] =< MaxRetries
       /\ \/ outcome[d] = "success" /\ received[d] > 0
          \/ outcome[d] = "failed" /\ attempts[d] = MaxRetries
          \/ outcome[d] = "cancelled" /\ stop # "running"

\* The queue has each delivery once, and nobody has begun with it.
QueueSound ==
  /\ \A i \in 1..Len(queue) : phase[queue[i]] = "queued"
  /\ \A i, j \in 1..Len(queue) : queue[i] = queue[j] => i = j

\* A worker at work is busy with one delivery, and a stopped dispatcher has none.
WorkersSound ==
  /\ \A d \in Deliveries : Active(d) =>
       by[d] = Overflow \/ (by[d] \in Senders /\ worker[by[d]] = "busy")
  /\ \A d, k \in Deliveries :
       Active(d) /\ Active(k) /\ by[d] = by[k] /\ by[d] # Overflow => d = k
  /\ stop = "stopped" => \A w \in Senders : worker[w] = "gone"

IInv == TypeOK /\ QueueSound /\ WorkersSound /\ \A d \in Deliveries : Earned(d)

LEMMA Initially == ASSUME DispatcherAssumption PROVE Init => IInv
<1>1. ASSUME Init PROVE TypeOK
  BY <1>1 DEF Init, TypeOK, Phases, Outcomes
<1>2. ASSUME Init PROVE QueueSound /\ WorkersSound /\ \A d \in Deliveries : Earned(d)
  BY <1>2 DEF Init, QueueSound, WorkersSound, Earned, Active
<1>3. QED BY <1>1, <1>2 DEF IInv

-----------------------------------------------------------------------------
(* Dispatch and the queue.                                                 *)

\* Steps with a delivery that is not in the queue leave the queue sound.
LEMMA QueueStays ==
  ASSUME IInv, NEW d \in Deliveries, phase[d] # "queued", queue' = queue,
         \A k \in Deliveries : k # d => phase'[k] = phase[k]
  PROVE  QueueSound'
<1>1. \A i \in 1..Len(queue) : queue[i] \in Deliveries /\ phase[queue[i]] = "queued"
  BY DEF IInv, TypeOK, QueueSound
<1>2. \A i \in 1..Len(queue) : phase'[queue[i]] = "queued"
  BY <1>1
<1>3. QED BY <1>2 DEF IInv, QueueSound

LEMMA StoreKeeps == ASSUME IInv, NEW d \in Deliveries, Store(d) PROVE IInv'
<1>1. TypeOK'
  BY DEF IInv, TypeOK, Store, Phases
<1>2. phase[d] = "new" /\ queue' = queue
  BY DEF Store
<1>3. QueueSound'
  BY <1>2, QueueStays DEF IInv, TypeOK, Store
<1>4. WorkersSound'
  BY DEF IInv, TypeOK, WorkersSound, Store, Active
<1>5. \A k \in Deliveries : Earned(k)'
  BY DEF IInv, TypeOK, Earned, Store, Active
<1>6. QED BY <1>1, <1>3, <1>4, <1>5 DEF IInv

LEMMA EnqueueKeeps ==
  ASSUME DispatcherAssumption, IInv, NEW d \in Deliveries, Enqueue(d) PROVE IInv'
<1>1. /\ phase[d] = "stored"
      /\ UNCHANGED <<stop, pendingOf, history, outcome, attempts, received, worker>>
  BY DEF Enqueue
<1>2. PICK p \in {"panicked", "queued", "sending"} :
        /\ phase' = [phase EXCEPT ![d] = p]
        /\ by' = IF p = "sending" THEN [by EXCEPT ![d] = Overflow] ELSE by
        /\ queue' = IF p = "queued" THEN Append(queue, d) ELSE queue
  BY DEF Enqueue
<1>3. TypeOK'
  <2>1. queue' \in Seq(Deliveries)
    BY <1>2 DEF IInv, TypeOK
  <2>2. by' \in [Deliveries -> Senders \cup {Overflow, Nobody}]
    BY <1>2 DEF IInv, TypeOK
  <2>3. QED BY <1>1, <1>2, <2>1, <2>2 DEF IInv, TypeOK, Phases
<1>4. \A k \in Deliveries : phase'[k] = IF k = d THEN p ELSE phase[k]
  BY <1>2 DEF IInv, TypeOK
<1>5. QueueSound'
  <2>1. CASE p # "queued"
    BY <1>1, <1>2, <1>4, <2>1, QueueStays
  <2>2. CASE p = "queued"
    <3>1. /\ Len(queue') = Len(queue) + 1 /\ queue'[Len(queue) + 1] = d
          /\ \A i \in 1..Len(queue) : queue'[i] = queue[i]
          /\ Len(queue) \in Nat
      BY <1>2, <2>2 DEF IInv, TypeOK
    <3>2. \A i \in 1..Len(queue) : /\ queue[i] \in Deliveries /\ queue[i] # d
                                   /\ phase[queue[i]] = "queued"
      BY <1>1 DEF IInv, TypeOK, QueueSound
    <3>3. \A i \in 1..Len(queue') : i = Len(queue) + 1 \/ i \in 1..Len(queue)
      BY <3>1
    <3>4. \A i \in 1..Len(queue') : phase'[queue'[i]] = "queued"
      BY <1>4, <2>2, <3>1, <3>2, <3>3
    <3>5. \A i, j \in 1..Len(queue') : queue'[i] = queue'[j] => i = j
      BY <3>1, <3>2, <3>3 DEF IInv, QueueSound
    <3>6. QED BY <3>4, <3>5 DEF QueueSound
  <2>3. QED BY <2>1, <2>2
<1>6. WorkersSound'
  <2>1. \A k \in Deliveries : Active(k)' => (Active(k) /\ k # d /\ by'[k] = by[k])
                                              \/ (k = d /\ by'[k] = Overflow)
    BY <1>1, <1>2, <1>4 DEF IInv, TypeOK, Active
  <2>2. QED BY <1>1, <2>1 DEF IInv, WorkersSound
<1>7. \A k \in Deliveries : Earned(k)'
  BY <1>1, <1>4 DEF DispatcherAssumption, IInv, TypeOK, Earned, Active
<1>8. QED BY <1>3, <1>5, <1>6, <1>7 DEF IInv

\* A worker takes the head of the queue, which is in the queue only once, to deliver
\* it or to drop it.
LEMMA TakeKeeps ==
  ASSUME DispatcherAssumption, IInv, NEW w \in Senders, Take(w) PROVE IInv'
<1>0. PICK d \in Deliveries : d = Head(queue)
  BY DEF IInv, TypeOK, Take
<1>1. /\ phase[d] = "queued" /\ worker[w] = "idle"
      /\ Len(queue') = Len(queue) - 1 /\ queue' \in Seq(Deliveries) /\ Len(queue) \in Nat
      /\ \A i \in 1..Len(queue') : queue'[i] = queue[i + 1] /\ queue'[i] # d
  BY <1>0 DEF IInv, TypeOK, QueueSound, Take
<1>2. /\ UNCHANGED <<stop, pendingOf, history, outcome, attempts, received>>
      /\ \/ /\ stop = "running"
            /\ worker' = [worker EXCEPT ![w] = "busy"]
            /\ phase' = [phase EXCEPT ![d] = "sending"]
            /\ by' = [by EXCEPT ![d] = w]
         \/ /\ worker' = [worker EXCEPT ![w] = "gone"]
            /\ phase' = [phase EXCEPT ![d] = "dropped"]
            /\ by' = by
  BY <1>0 DEF Take
<1>3. TypeOK'
  <2>1. /\ worker' \in [Senders -> {"idle", "busy", "gone"}]
        /\ phase' \in [Deliveries -> Phases]
        /\ by' \in [Deliveries -> Senders \cup {Overflow, Nobody}]
    <3>1. CASE worker' = [worker EXCEPT ![w] = "busy"]
      BY <1>1, <1>2, <3>1 DEF IInv, TypeOK, Phases
    <3>2. CASE by' = by /\ phase' = [phase EXCEPT ![d] = "dropped"]
                        /\ worker' = [worker EXCEPT ![w] = "gone"]
      BY <1>1, <3>2 DEF IInv, TypeOK, Phases
    <3>3. QED BY <1>2, <3>1, <3>2
  <2>2. QED BY <1>1, <1>2, <2>1 DEF IInv, TypeOK
<1>4. QueueSound'
  <2>1. \A k \in Deliveries : k # d => phase'[k] = phase[k]
    BY <1>2 DEF IInv, TypeOK
  <2>2. \A i \in 1..Len(queue') : i + 1 \in 1..Len(queue) /\ queue[i + 1] \in Deliveries
    BY <1>1 DEF IInv, TypeOK
  <2>3. \A i \in 1..Len(queue') : phase'[queue'[i]] = "queued"
    BY <1>1, <2>1, <2>2 DEF IInv, QueueSound
  <2>4. \A i, j \in 1..Len(queue') : queue'[i] = queue'[j] => i + 1 = j + 1
    BY <1>1, <2>2 DEF IInv, QueueSound
  <2>5. \A i, j \in 1..Len(queue') : queue'[i] = queue'[j] => i = j
    BY <1>1, <2>4
  <2>6. QED BY <2>3, <2>5 DEF QueueSound
<1>5. WorkersSound'
  <2>1. \A k \in Deliveries : Active(k) => k # d /\ by[k] # w
    BY <1>1 DEF DispatcherAssumption, IInv, WorkersSound, Active
  <2>2. \A k \in Deliveries : k # d => (Active(k)' <=> Active(k)) /\ by'[k] = by[k]
    BY <1>1, <1>2 DEF IInv, TypeOK, Active
  <2>3. \A v \in Senders : v # w => worker'[v] = worker[v]
    BY <1>2 DEF IInv, TypeOK
  <2>4. Active(d)' => by'[d] = w /\ worker'[w] = "busy"
    <3>1. CASE by' = [by EXCEPT ![d] = w] /\ worker' = [worker EXCEPT ![w] = "busy"]
      BY <1>1, <3>1 DEF IInv, TypeOK
    <3>2. CASE phase' = [phase EXCEPT ![d] = "dropped"]
      BY <1>1, <3>2 DEF IInv, TypeOK, Active
    <3>3. QED BY <1>2, <3>1, <3>2
  <2>5. stop # "stopped"
    BY <1>1 DEF IInv, WorkersSound
  <2>6. \A k \in Deliveries : Active(k)' =>
          by'[k] = Overflow \/ (by'[k] \in Senders /\ worker'[by'[k]] = "busy")
    BY <2>1, <2>2, <2>3, <2>4 DEF IInv, WorkersSound
  <2>7. \A j, k \in Deliveries :
          Active(j)' /\ Active(k)' /\ by'[j] = by'[k] /\ by'[j] # Overflow => j = k
    BY <2>1, <2>2, <2>4 DEF IInv, WorkersSound
  <2>8. QED BY <1>2, <2>5, <2>6, <2>7 DEF WorkersSound
<1>6. \A k \in Deliveries : Earned(k)'
  BY <1>1, <1>2 DEF DispatcherAssumption, IInv, TypeOK, Earned, Active
<1>7. QED BY <1>3, <1>4, <1>5, <1>6 DEF IInv

LEMMA LeaveKeeps == ASSUME IInv, NEW w \in Senders, Leave(w) PROVE IInv'
<1>1. TypeOK'
  BY DEF IInv, TypeOK, Leave
<1>2. QueueSound' /\ \A d \in Deliveries : Earned(d)'
  BY DEF IInv, QueueSound, Earned, Leave, Active
<1>3. WorkersSound'
  BY DEF IInv, TypeOK, WorkersSound, Leave, Active
<1>4. QED BY <1>1, <1>2, <1>3 DEF IInv

-----------------------------------------------------------------------------
(* Attempts.                                                               *)

LEMMA TrimmedTyped == ASSUME NEW h \in Seq(Deliveries), MaxKept \in Nat
                      PROVE  Trimmed(h) \in Seq(Deliveries)
BY SubSeqProperties DEF Trimmed

\* However a delivery ends, its worker is free again and nobody has it any more.
LEMMA CompleteTyped ==
  ASSUME DispatcherAssumption, TypeOK, NEW d \in Deliveries, NEW o \in Outcomes,
         CompleteAs(d, o), attempts' \in [Deliveries -> Nat], received' \in [Deliveries -> Nat],
         stop' = stop, queue' = queue
  PROVE  TypeOK'
<1>1. Append(history, d) \in Seq(Deliveries)
  BY DEF TypeOK
<1>2. history' \in Seq(Deliveries)
  BY <1>1, TrimmedTyped DEF DispatcherAssumption, CompleteAs
<1>3. QED BY <1>2 DEF TypeOK, CompleteAs, Phases

LEMMA CompleteFrees ==
  ASSUME DispatcherAssumption, IInv, NEW d \in Deliveries, NEW o, CompleteAs(d, o), Active(d),
         stop' = stop, queue' = queue
  PROVE  QueueSound' /\ WorkersSound'
<1>1. \A k \in Deliveries : phase'[k] = IF k = d THEN "done" ELSE phase[k]
  BY DEF IInv, TypeOK, CompleteAs
<1>2. QueueSound'
  <2>1. \A i \in 1..Len(queue) : queue[i] \in Deliveries /\ queue[i] # d
    BY DEF IInv, TypeOK, QueueSound, Active
  <2>2. QED BY <1>1, <2>1 DEF IInv, QueueSound
<1>3. WorkersSound'
  <2>1. \A k \in Deliveries : Active(k)' => Active(k) /\ k # d /\ by'[k] = by[k]
    BY <1>1 DEF IInv, TypeOK, CompleteAs, Active
  <2>2. \A w \in Senders : worker'[w] = IF w = by[d] THEN "idle" ELSE worker[w]
    BY DEF CompleteAs
  <2>3. \A k \in Deliveries : Active(k)' =>
          by'[k] = Overflow \/ (by'[k] \in Senders /\ worker'[by'[k]] = "busy")
    BY <2>1, <2>2 DEF IInv, WorkersSound
  <2>4. \A j, k \in Deliveries :
          Active(j)' /\ Active(k)' /\ by'[j] = by'[k] /\ by'[j] # Overflow => j = k
    BY <2>1 DEF IInv, WorkersSound
  <2>5. stop = "stopped" => by[d] \notin Senders
    BY DEF IInv, WorkersSound, DispatcherAssumption
  <2>6. stop' = "stopped" => \A w \in Senders : worker'[w] = "gone"
    BY <2>2, <2>5 DEF IInv, WorkersSound
  <2>7. QED BY <2>3, <2>4, <2>6 DEF WorkersSound
<1>4. QED BY <1>2, <1>3

LEMMA AttemptKeeps ==
  ASSUME DispatcherAssumption, IInv, NEW d \in Deliveries, Attempt(d) PROVE IInv'
<1>1. /\ phase[d] = "sending" /\ stop' = stop /\ queue' = queue
      /\ attempts' = [attempts EXCEPT ![d] = @ + 1]
      /\ attempts[d] \in Nat /\ attempts[d] < MaxRetries /\ received[d] =< attempts[d]
  BY DEF IInv, TypeOK, Attempt, Earned, Active
<1>2. PICK arrives \in BOOLEAN, ok \in BOOLEAN :
        /\ ok => arrives
        /\ received' = IF arrives THEN [received EXCEPT ![d] = @ + 1] ELSE received
        /\ \/ ok /\ CompleteAs(d, "success")
           \/ ~ok /\ attempts[d] + 1 >= MaxRetries /\ CompleteAs(d, "failed")
           \/ /\ ~ok /\ attempts[d] + 1 < MaxRetries
              /\ phase' = [phase EXCEPT ![d] = "waiting"]
              /\ outcome' = [outcome EXCEPT ![d] = "retrying"]
              /\ UNCHANGED <<pendingOf, history, by, worker>>
  BY DEF Attempt
<1>3. /\ attempts' \in [Deliveries -> Nat] /\ received' \in [Deliveries -> Nat]
      /\ \A k \in Deliveries : k # d => attempts'[k] = attempts[k] /\ received'[k] = received[k]
      /\ attempts'[d] = attempts[d] + 1 /\ received'[d] =< attempts'[d]
  BY <1>1, <1>2 DEF IInv, TypeOK
<1>4. ok => received'[d] > 0
  BY <1>2 DEF IInv, TypeOK
<1>5. ASSUME NEW o \in {"success", "failed"}, CompleteAs(d, o),
             o = "success" => received'[d] > 0,
             o = "failed" => attempts[d] + 1 >= MaxRetries
      PROVE  IInv'
  <2>1. TypeOK'
    BY <1>1, <1>3, <1>5, CompleteTyped DEF IInv, Outcomes
  <2>2. QueueSound' /\ WorkersSound'
    BY <1>1, <1>5, CompleteFrees DEF Active
  <2>3. /\ phase'[d] = "done" /\ outcome'[d] = o
        /\ \A k \in Deliveries : k # d => phase'[k] = phase[k] /\ outcome'[k] = outcome[k]
    BY <1>5 DEF IInv, TypeOK, CompleteAs
  <2>4. attempts'[d] =< MaxRetries /\ (o = "failed" => attempts'[d] = MaxRetries)
    BY <1>1, <1>3, <1>5 DEF DispatcherAssumption
  <2>5. Earned(d)'
    BY <1>3, <1>5, <2>3, <2>4 DEF Earned, Active
  <2>6. \A k \in Deliveries : k # d => Earned(k)'
    BY <1>1, <1>3, <2>3 DEF IInv, Earned, Active
  <2>7. QED BY <2>1, <2>2, <2>5, <2>6 DEF IInv
<1>6. ASSUME attempts[d] + 1 < MaxRetries,
             phase' = [phase EXCEPT ![d] = "waiting"],
             outcome' = [outcome EXCEPT ![d] = "retrying"],
             UNCHANGED <<pendingOf, history, by, worker>>
      PROVE  IInv'
  <2>1. TypeOK'
    BY <1>1, <1>3, <1>6 DEF IInv, TypeOK, Phases, Outcomes
  <2>2. \A k \in Deliveries : k # d => phase'[k] = phase[k] /\ outcome'[k] = outcome[k]
    BY <1>6 DEF IInv, TypeOK
  <2>3. phase'[d] = "waiting" /\ outcome'[d] = "retrying"
    BY <1>6 DEF IInv, TypeOK
  <2>4. QueueSound'
    BY <1>1, <2>2 DEF IInv, TypeOK, QueueSound
  <2>5. \A k \in Deliveries : Active(k)' <=> Active(k)
    BY <1>1, <2>2, <2>3 DEF Active
  <2>6. WorkersSound'
    BY <1>1, <1>6, <2>5 DEF IInv, WorkersSound
  <2>7. \A k \in Deliveries : Earned(k)'
    BY <1>1, <1>3, <1>6, <2>2, <2>3, <2>5 DEF IInv, Earned, Active
  <2>8. QED BY <2>1, <2>4, <2>6, <2>7 DEF IInv
<1>7. QED BY <1>2, <1>4, <1>5, <1>6

LEMMA RetryKeeps == ASSUME IInv, NEW d \in Deliveries, Retry(d) PROVE IInv'
<1>1. /\ phase[d] = "waiting" /\ phase'[d] = "sending"
      /\ \A k \in Deliveries : k # d => phase'[k] = phase[k]
      /\ UNCHANGED <<stop, queue, outcome, attempts, received, by, worker>>
  BY DEF IInv, TypeOK, Retry
<1>2. TypeOK'
  BY DEF IInv, TypeOK, Retry, Phases
<1>3. QueueSound'
  BY <1>1, QueueStays
<1>4. \A k \in Deliveries : Active(k)' <=> Active(k)
  BY <1>1 DEF Active
<1>5. WorkersSound'
  BY <1>1, <1>4 DEF IInv, WorkersSound
<1>6. \A k \in Deliveries : Earned(k)'
  BY <1>1, <1>4 DEF IInv, Earned, Active
<1>7. QED BY <1>2, <1>3, <1>5, <1>6 DEF IInv

\* Only a stopped dispatcher gives up.
LEMMA GiveUpKeeps ==
  ASSUME DispatcherAssumption, IInv, NEW d \in Deliveries, GiveUp(d) PROVE IInv'
<1>1. /\ Active(d) /\ stop # "running" /\ CompleteAs(d, "cancelled")
      /\ UNCHANGED <<stop, queue, attempts, received>>
  BY DEF GiveUp, Active
<1>2. TypeOK'
  <2>1. attempts' \in [Deliveries -> Nat] /\ received' \in [Deliveries -> Nat]
    BY <1>1 DEF IInv, TypeOK
  <2>2. QED BY <1>1, <2>1, CompleteTyped DEF IInv, Outcomes
<1>3. QueueSound' /\ WorkersSound'
  BY <1>1, CompleteFrees
<1>4. /\ phase'[d] = "done" /\ outcome'[d] = "cancelled"
      /\ \A k \in Deliveries : k # d => phase'[k] = phase[k] /\ outcome'[k] = outcome[k]
  BY <1>1 DEF IInv, TypeOK, CompleteAs
<1>5. \A k \in Deliveries : Earned(k)'
  BY <1>1, <1>4 DEF IInv, TypeOK, DispatcherAssumption, Earned, Active
<1>6. QED BY <1>2, <1>3, <1>5 DEF IInv

-----------------------------------------------------------------------------
(* Stop.                                                                   *)

\* Once all workers are gone, those at work are none of them.
LEMMA StopKeeps == ASSUME IInv, Cancel \/ Close \/ Return PROVE IInv'
<1>1. UNCHANGED <<queue, pendingOf, history, phase, outcome, attempts, received, by, worker>>
  BY DEF Cancel, Close, Return
<1>2. /\ stop' \in {"cancelled", "closed", "stopped"}
      /\ stop' = "stopped" => \A w \in Senders : worker[w] = "gone"
  BY DEF Cancel, Close, Return
<1>3. TypeOK' /\ QueueSound' /\ WorkersSound'
  BY <1>1, <1>2 DEF IInv, TypeOK, QueueSound, WorkersSound, Active
<1>4. \A d \in Deliveries : Earned(d)'
  BY <1>1, <1>2 DEF IInv, Earned, Active
<1>5. QED BY <1>3, <1>4 DEF IInv

LEMMA StepKeeps == ASSUME DispatcherAssumption, IInv, [Next]_vars PROVE IInv'
<1>1. CASE Next
  BY <1>1, StoreKeeps, EnqueueKeeps, TakeKeeps, LeaveKeeps, AttemptKeeps, RetryKeeps,
     GiveUpKeeps, StopKeeps DEF Next, Deliver
<1>2. CASE UNCHANGED vars
  BY <1>2 DEF vars, IInv, TypeOK, QueueSound, WorkersSound, Earned, Active
<1>3. QED BY <1>1, <1>2

THEOREM Invariance == ASSUME DispatcherAssumption PROVE Spec => []IInv
<1>1. Init => IInv BY Initially
<1>2. IInv /\ [Next]_vars => IInv' BY StepKeeps
<1>3. QED BY <1>1, <1>2, PTL DEF Spec

\* The types of the dispatcher's state.
THEOREM TypeCorrect == ASSUME DispatcherAssumption PROVE Spec => []TypeOK
<1>1. IInv => TypeOK BY DEF IInv
<1>2. QED BY <1>1, Invariance, PTL

\* What counts as a success was received; a failure has used up its attempts; only
\* Stop cancels.
THEOREM EarnedOutcomes == ASSUME DispatcherAssumption PROVE Spec => []OutcomeIsEarned
<1>1. ASSUME IInv, NEW d \in Deliveries
      PROVE  /\ received[d] =< attempts[d] /\ attempts[d] =< MaxRetries
             /\ outcome[d] = "success" => received[d] > 0
             /\ outcome[d] = "failed" => attempts[d] = MaxRetries
             /\ outcome[d] = "cancelled" => stop # "running"
             /\ phase[d] = "done" => outcome[d] \in {"success", "failed", "cancelled"}
  <2>1. phase[d] \in Phases /\ Earned(d) /\ attempts[d] \in Nat
    BY <1>1 DEF IInv, TypeOK
  <2>2. QED BY <2>1 DEF DispatcherAssumption, Earned, Active, Phases
<1>2. IInv => OutcomeIsEarned
  BY <1>1 DEF OutcomeIsEarned
<1>3. QED BY <1>2, Invariance, PTL

\* After Stop, only what did not fit into the queue is still being delivered.
THEOREM QuietAfterStop == ASSUME DispatcherAssumption PROVE Spec => []StopIsQuiet
<1>1. IInv => StopIsQuiet
  BY DEF IInv, WorkersSound, Active, StopIsQuiet
<1>2. QED BY <1>1, Invariance, PTL
=============================================================================
