----------------------- MODULE RequestLifecycle_proofs -----------------------
(***************************************************************************)
(* Proofs about RequestLifecycle, for every set of users, requests,        *)
(* instances and workers, every timeout and every grace period.            *)
(***************************************************************************)
EXTENDS RequestLifecycle, TLAPS

-----------------------------------------------------------------------------
(* The inductive invariant.                                                *)

\* Nothing has happened to a request that is not stored yet.
FreshInv == \A r \in Requests : stage[r] \in {"new", "refused", "prepared"} =>
              status[r] = "none" /\ response[r] = NoMessage

\* A request in the map is stored, unanswered, and at most too late.
PendingInv == \A r \in pending :
                /\ stage[r] \in {"stored", "sent", "returned"}
                /\ status[r] \in {"pending", "expired"}
                /\ response[r] = NoMessage

\* Nobody has been told of an unanswered request, and one that was declared
\* expired can no longer be answered.
OpenInv == \A r \in Requests : response[r] = NoMessage =>
             /\ status[r] \in {"none", "pending", "expired"}
             /\ status[r] = "expired" => clock > expiresAt[r] /\ clock > GraceEnd(r)
             /\ calledBack[r] = 0 /\ hooked[r] = 0 /\ r \notin posting

\* An answered request has one of the statuses an answer can give it.
AnsweredInv == \A r \in Requests : response[r] # NoMessage => status[r] \in Verdicts

Delivering(w) == wpc[w] \in {"accepted", "notified"}

\* A worker holds a message the user really sent, after the user was asked.
WorkerInv == \A w \in Workers : wpc[w] # "idle" =>
               /\ wmsg[w] \in Messages
               /\ wmsg[w].receivedAt =< clock
               /\ Judged(w).id \in asked

\* A worker between its lock and its goroutine holds the accepted reply of a
\* request nobody has been told of through the channel that is still to come.
DeliveryInv == \A w \in Workers : Delivering(w) =>
                 /\ response[Judged(w).id] = wmsg[w]
                 /\ Home[Judged(w).id] = At[w]
                 /\ Judged(w).id \notin posting
                 /\ hooked[Judged(w).id] = 0
                 /\ wpc[w] = "accepted" => calledBack[Judged(w).id] = 0

\* No two workers deliver the verdict of the same request.
UniqueInv == \A v, w \in Workers :
               (Delivering(v) /\ Delivering(w) /\ Judged(v).id = Judged(w).id) => v = w

PostingInv == \A r \in posting : response[r] # NoMessage /\ hooked[r] = 0

\* A GET that holds a request saw it unanswered.
PollInv == \A r \in Requests :
             /\ poll[r] = "looking" =>
                  /\ pollSaw[r] \in {"pending", "expired"}
                  /\ pollSaw[r] = "expired" => status[r] = "expired"
             /\ poll[r] \in {"looking", "expired"} => status[r] # "none"

RequestInv  == FreshInv /\ PendingInv /\ OpenInv /\ AnsweredInv
NotifyInv   == WorkerInv /\ DeliveryInv /\ UniqueInv /\ PostingInv
DecisionInv == AtMostOneNotification /\ OnTimeOrGrace /\ AcceptedIsGenuine /\ NoEarlyLoss
PollingInv  == PollInv /\ ReportedVerdictStands

IInv == RequestInv /\ NotifyInv /\ DecisionInv /\ PollingInv

-----------------------------------------------------------------------------
(* Type correctness.                                                       *)

USE DEF clockVars, callVars, requestVars, mapVars, workerVars, notifyVars, pollVars

\* The initial state is well typed.
LEMMA InitTypeOK == Init => TypeOK
  BY ConstantsAssumption DEF Init, TypeOK, Stages, Statuses, Polled, WorkerPc, NilTime

\* The fields of a message are what the handlers take them for.
LEMMA MessageFields ==
  ASSUME NEW m \in Messages
  PROVE  /\ m.reply.id \in Requests /\ m.reply.from \in Users
         /\ m.reply.status \in ReplyStatuses /\ m.reply.echo \in BOOLEAN
         /\ m.receivedAt \in Nat
  BY DEF Messages, Replies

\* Every step of the handlers keeps the types; a worker that is busy holds a message.
LEMMA StepTypeOK ==
  ASSUME TypeOK, WorkerInv, [Next]_vars
  PROVE  TypeOK'
<1> USE ConstantsAssumption DEF TypeOK
<1>1. CASE Tick
  BY <1>1 DEF Tick
<1>2. ASSUME NEW r \in Requests, Prepare(r) \/ Store(r) \/ Send(r) \/ Return(r)
      PROVE  TypeOK'
  <2>1. CASE Prepare(r)
    BY <2>1 DEF Prepare, Stages
  <2>2. CASE Store(r)
    BY <2>2 DEF Store, Stages, Statuses
  <2>3. CASE Send(r)
    BY <2>3 DEF Send, Stages
  <2>4. CASE Return(r)
    BY <2>4 DEF Return, Stages
  <2> QED BY <1>2, <2>1, <2>2, <2>3, <2>4
<1>3. ASSUME NEW r \in Requests, SetCallback(r) \/ PollRead(r) \/ Post(r)
      PROVE  TypeOK'
  <2>1. CASE SetCallback(r)
    BY <2>1 DEF SetCallback
  <2>2. CASE PollRead(r)
    BY <2>2 DEF PollRead, Polled, Statuses
  <2>3. CASE Post(r)
    BY <2>3 DEF Post
  <2> QED BY <1>3, <2>1, <2>2, <2>3
<1>4. ASSUME NEW r \in Requests, NEW i \in Instances, PollLookup(r, i)
      PROVE  TypeOK'
  BY <1>4 DEF PollLookup, Polled
<1>5. ASSUME NEW w \in Workers, NEW m \in Replies, Receive(w, m)
      PROVE  TypeOK'
  <2>1. [reply |-> m, receivedAt |-> clock] \in Messages
    BY DEF Messages
  <2> QED BY <1>5, <2>1 DEF Receive, WorkerPc
<1>6. ASSUME NEW w \in Workers, Refuse(w)
      PROVE  TypeOK'
  BY <1>6 DEF Refuse, Done, WorkerPc
<1>7. ASSUME NEW w \in Workers, Expire(w)
      PROVE  TypeOK'
  <2>1. clock' \in Nat
    BY <1>7 DEF Expire, Reading
  <2> QED BY <1>7, <2>1 DEF Expire, Done, WorkerPc, Statuses
<1>8. ASSUME NEW w \in Workers, Accept(w)
      PROVE  TypeOK'
  <2>0. wmsg[w] \in Messages
    BY <1>8 DEF WorkerInv, Accept, Delivering
  <2>1. /\ clock' \in Nat
        /\ status' \in [Requests -> Statuses]
        /\ respondedAt' \in [Requests -> Int]
    <3> DEFINE r == Judged(w).id
    <3>1. PICK first \in Reading, second \in Reading, last \in Reading :
            /\ status' = [status EXCEPT ![r] =
                            Verdict(r, Judged(w).status, first > expiresAt[r])]
            /\ respondedAt' = [respondedAt EXCEPT ![r] =
                                 IF HandlerOf[r] = "secrets" THEN @ ELSE last]
            /\ clock' = last
      BY <1>8 DEF Accept
    <3>2. last \in Nat
      BY DEF Reading
    <3>3. Verdict(r, Judged(w).status, first > expiresAt[r]) \in Statuses
      BY <2>0, MessageFields DEF Verdict, Statuses, Verdicts, Judged
    <3> HIDE DEF r
    <3>4. status' \in [Requests -> Statuses]
      BY <3>1, <3>3
    <3>5. respondedAt' \in [Requests -> Int]
      <4> DEFINE t == IF HandlerOf[r] = "secrets" THEN respondedAt[r] ELSE last
      <4>1. r \in Requests => t \in Int
        BY <3>2
      <4>2. respondedAt' = [respondedAt EXCEPT ![r] = t]
        BY <3>1
      <4> HIDE DEF t
      <4> QED BY <4>1, <4>2
    <3> QED BY <3>1, <3>2, <3>4, <3>5
  <2> QED BY <1>8, <2>0, <2>1 DEF Accept, WorkerPc
<1>9. ASSUME NEW w \in Workers, RunCallback(w) \/ SpawnHook(w)
      PROVE  TypeOK'
  <2>1. CASE RunCallback(w)
    <3>1. Judged(w).id \in Requests
      BY <2>1, MessageFields DEF WorkerInv, RunCallback, Judged
    <3>2. calledBack[Judged(w).id] + 1 \in Nat
      BY <3>1
    <3>3. calledBack' \in [Requests -> Nat]
      BY <2>1, <3>1, <3>2 DEF RunCallback
    <3> QED BY <2>1, <3>3 DEF RunCallback, WorkerPc
  <2>2. CASE SpawnHook(w)
    <3>1. Judged(w).id \in Requests
      BY <2>2, MessageFields DEF WorkerInv, SpawnHook, Judged
    <3> QED BY <2>2, <3>1 DEF SpawnHook, Done, WorkerPc
  <2> QED BY <1>9, <2>1, <2>2
<1>10. ASSUME NEW i \in Instances, NEW h \in Handlers, Cleanup(i, h)
       PROVE  TypeOK'
  BY <1>10 DEF Cleanup
<1>11. ASSUME NEW i \in Instances, Crash(i)
       PROVE  TypeOK'
  <2>1. stage' \in [Requests -> Stages]
    BY <1>11 DEF Crash, Stages
  <2>2. wpc' \in [Workers -> WorkerPc] /\ wcb' \in [Workers -> BOOLEAN]
    BY <1>11 DEF Crash, WorkerPc
  <2>3. wmsg' \in [Workers -> Messages \cup {NoMessage}]
    BY <1>11 DEF Crash
  <2>4. poll' \in [Requests -> Polled]
    BY <1>11 DEF Crash, Polled
  <2>5. pollSaw' \in [Requests -> Statuses]
    BY <1>11 DEF Crash, Statuses
  <2>6. /\ pending' \subseteq Requests /\ callbacks' \subseteq Requests
        /\ posting' \subseteq Requests /\ crashes' \in Nat
        /\ UNCHANGED <<clock, asked, requestVars, calledBack, hooked>>
    BY <1>11 DEF Crash
  <2> QED BY <2>1, <2>2, <2>3, <2>4, <2>5, <2>6
<1>12. CASE UNCHANGED vars
  BY <1>12 DEF vars
<1> HIDE DEF TypeOK
<1>13. CASE Next
  BY <1>13, <1>1, <1>2, <1>3, <1>4, <1>5, <1>6, <1>7, <1>8, <1>9, <1>10, <1>11 DEF Next
<1> QED BY <1>12, <1>13

\* What Accept does to the request r it is about, with the clock readings it was
\* judged by summed up in `late'.
AcceptsReply(w, r) ==
  /\ r \in Requests /\ r = wmsg[w].reply.id /\ r \in pending /\ r \in asked
  /\ Owner[r] = wmsg[w].reply.from /\ Home[r] = At[w]
  /\ HandlerOf[r] = "authz" => wmsg[w].reply.echo
  /\ HandlerOf[r] = "secrets" => wmsg[w].reply.status \in {"approved", "denied"}
  /\ wmsg[w] \in Messages /\ wmsg[w] # NoMessage /\ wpc[w] = "received"
  /\ status[r] = "pending" /\ response[r] = NoMessage
  /\ wmsg[w].receivedAt =< expiresAt[r] \/ wmsg[w].receivedAt =< GraceEnd(r)
  /\ \E late \in BOOLEAN :
       /\ status' = [status EXCEPT ![r] = Verdict(r, wmsg[w].reply.status, late)]
       /\ ~late => wmsg[w].receivedAt =< expiresAt[r]
       /\ late => HandlerOf[r] # "secrets" /\ respondedAt'[r] > expiresAt[r]
  /\ \A q \in Requests \ {r} : respondedAt'[q] = respondedAt[q]
  /\ response' = [response EXCEPT ![r] = wmsg[w]]
  /\ clock' \in Nat /\ clock' >= clock
  /\ pending' = pending \ {r}
  /\ wpc' = [wpc EXCEPT ![w] = "accepted"]
  /\ UNCHANGED <<stage, asked, expiresAt, wmsg, posting, calledBack, hooked,
                 poll, pollSaw>>

\* Accept does that; in particular the request it accepts was not yet expired.
LEMMA AcceptFacts ==
  ASSUME TypeOK, WorkerInv, PendingInv, OpenInv, NEW w \in Workers, Accept(w)
  PROVE  AcceptsReply(w, Judged(w).id)
<1> DEFINE r == wmsg[w].reply.id
<1>1. /\ r \in pending /\ r \in Requests /\ r \in asked
      /\ Owner[r] = wmsg[w].reply.from /\ Home[r] = At[w]
      /\ HandlerOf[r] = "authz" => wmsg[w].reply.echo
      /\ wmsg[w] \in Messages /\ wmsg[w] # NoMessage /\ wpc[w] = "received"
      /\ wmsg[w].receivedAt \in Nat /\ wmsg[w].receivedAt =< clock
      /\ clock \in Nat
  BY MessageFields, NoMessageAssumption DEF Accept, Addressed, WorkerInv, TypeOK, Judged
<1>2. HandlerOf[r] = "secrets" => wmsg[w].reply.status \in {"approved", "denied"}
  BY DEF Accept, Takes, Judged
<1>3. PICK first \in Reading, second \in Reading, last \in Reading :
        /\ first =< second /\ second =< last
        /\ first =< expiresAt[r] \/ (first > expiresAt[r] /\ second =< GraceEnd(r))
        /\ status' = [status EXCEPT ![r] =
                        Verdict(r, wmsg[w].reply.status, first > expiresAt[r])]
        /\ respondedAt' = [respondedAt EXCEPT ![r] =
                             IF HandlerOf[r] = "secrets" THEN @ ELSE last]
        /\ clock' = last
  BY DEF Accept, Judged
<1>4. /\ first \in Nat /\ second \in Nat /\ last \in Nat
      /\ clock =< first
      /\ expiresAt[r] \in Int /\ GraceEnd(r) \in Int
      /\ HandlerOf[r] = "secrets" => GraceEnd(r) = expiresAt[r]
      /\ respondedAt \in [Requests -> Int] /\ status \in [Requests -> Statuses]
  BY <1>1, ConstantsAssumption DEF Reading, GraceEnd, TypeOK
<1>5. clock =< expiresAt[r] \/ clock =< GraceEnd(r)
  BY <1>3, <1>4, <1>1
<1>6. status[r] = "pending" /\ response[r] = NoMessage
  BY <1>1, <1>4, <1>5 DEF PendingInv, OpenInv
<1> HIDE DEF r
<1>7. first > expiresAt[r] => HandlerOf[r] # "secrets" /\ respondedAt'[r] > expiresAt[r]
  BY <1>1, <1>3, <1>4
<1>8. /\ ~(first > expiresAt[r]) => wmsg[w].receivedAt =< expiresAt[r]
      /\ wmsg[w].receivedAt =< expiresAt[r] \/ wmsg[w].receivedAt =< GraceEnd(r)
      /\ clock' \in Nat /\ clock' >= clock
  BY <1>1, <1>3, <1>4, <1>5
<1>9. \E late \in BOOLEAN :
        /\ status' = [status EXCEPT ![r] = Verdict(r, wmsg[w].reply.status, late)]
        /\ ~late => wmsg[w].receivedAt =< expiresAt[r]
        /\ late => HandlerOf[r] # "secrets" /\ respondedAt'[r] > expiresAt[r]
  <2>1. (first > expiresAt[r]) \in BOOLEAN
    OBVIOUS
  <2> QED BY <1>3, <1>7, <1>8, <2>1, Zenon
<1>10. \A q \in Requests \ {r} : respondedAt'[q] = respondedAt[q]
  BY <1>3, <1>4
<1>11. /\ response' = [response EXCEPT ![r] = wmsg[w]]
       /\ pending' = pending \ {r}
       /\ wpc' = [wpc EXCEPT ![w] = "accepted"]
       /\ UNCHANGED <<stage, asked, expiresAt, wmsg, posting, calledBack, hooked,
                      poll, pollSaw>>
  BY DEF Accept, Judged, r
<1> QED BY <1>1, <1>2, <1>6, <1>8, <1>9, <1>10, <1>11 DEF AcceptsReply, Judged, r

-----------------------------------------------------------------------------
(* Every step preserves the invariant: one lemma per action.               *)

USE ConstantsAssumption, NoMessageAssumption, NoStatusAssumption, MessageFields
    DEF RequestInv, NotifyInv, DecisionInv, PollingInv, IInv,
        FreshInv, PendingInv, OpenInv, AnsweredInv, WorkerInv, DeliveryInv, UniqueInv,
        PostingInv, PollInv, AtMostOneNotification, OnTimeOrGrace, AcceptedIsGenuine,
        NoEarlyLoss, ReportedVerdictStands, TypeOK, Delivering, Judged, GraceEnd

\* Time passes.
LEMMA TickInv ==
  ASSUME TypeOK, TypeOK', IInv, Tick
  PROVE  IInv'
<1>1. RequestInv'
  BY DEF Tick
<1>2. NotifyInv'
  BY DEF Tick
<1>3. DecisionInv'
  BY DEF Tick
<1>4. PollingInv'
  BY DEF Tick
<1> QED BY <1>1, <1>2, <1>3, <1>4

\* A request is allowed or refused.
LEMMA PrepareInv ==
  ASSUME TypeOK, TypeOK', IInv, NEW r \in Requests, Prepare(r)
  PROVE  IInv'
<1>1. RequestInv'
  <2>1. FreshInv' /\ PendingInv'
    BY DEF Prepare
  <2>2. OpenInv' /\ AnsweredInv'
    BY DEF Prepare
  <2> QED BY <2>1, <2>2
<1>2. NotifyInv'
  BY DEF Prepare
<1>3. DecisionInv'
  BY DEF Prepare
<1>4. PollingInv'
  BY DEF Prepare
<1> QED BY <1>1, <1>2, <1>3, <1>4

\* A request enters the map.
LEMMA StoreInv ==
  ASSUME TypeOK, TypeOK', IInv, NEW r \in Requests, Store(r)
  PROVE  IInv'
<1>1. RequestInv'
  BY DEF Store
<1>2. NotifyInv'
  BY DEF Store
<1>3. DecisionInv'
  BY DEF Store
<1>4. PollingInv'
  BY DEF Store
<1> QED BY <1>1, <1>2, <1>3, <1>4

\* A request is sent.
LEMMA SendInv ==
  ASSUME TypeOK, TypeOK', IInv, NEW r \in Requests, Send(r)
  PROVE  IInv'
<1>1. RequestInv'
  BY DEF Send
<1>2. NotifyInv'
  BY DEF Send
<1>3. DecisionInv'
  BY DEF Send
<1>4. PollingInv'
  BY DEF Send
<1> QED BY <1>1, <1>2, <1>3, <1>4

\* RequestAuth returns.
LEMMA ReturnInv ==
  ASSUME TypeOK, TypeOK', IInv, NEW r \in Requests, Return(r)
  PROVE  IInv'
<1>1. RequestInv'
  BY DEF Return
<1>2. NotifyInv'
  BY DEF Return
<1>3. DecisionInv'
  BY DEF Return
<1>4. PollingInv'
  BY DEF Return
<1> QED BY <1>1, <1>2, <1>3, <1>4

\* A callback is registered.
LEMMA SetCallbackInv ==
  ASSUME TypeOK, TypeOK', IInv, NEW r \in Requests, SetCallback(r)
  PROVE  IInv'
<1>1. RequestInv'
  BY DEF SetCallback
<1>2. NotifyInv'
  BY DEF SetCallback
<1>3. DecisionInv'
  BY DEF SetCallback
<1>4. PollingInv'
  BY DEF SetCallback
<1> QED BY <1>1, <1>2, <1>3, <1>4

\* A GET takes its pointer.
LEMMA PollLookupInv ==
  ASSUME TypeOK, TypeOK', IInv, NEW r \in Requests, NEW i \in Instances, PollLookup(r, i)
  PROVE  IInv'
<1>1. RequestInv'
  BY DEF PollLookup
<1>2. NotifyInv'
  BY DEF PollLookup
<1>3. DecisionInv'
  BY DEF PollLookup
<1>4. PollingInv'
  BY DEF PollLookup
<1> QED BY <1>1, <1>2, <1>3, <1>4

\* The webhook goroutine posts.
LEMMA PostInv ==
  ASSUME TypeOK, TypeOK', IInv, NEW r \in Requests, Post(r)
  PROVE  IInv'
<1>1. RequestInv'
  BY DEF Post
<1>2. NotifyInv'
  BY DEF Post
<1>3. DecisionInv'
  BY DEF Post
<1>4. PollingInv'
  BY DEF Post
<1> QED BY <1>1, <1>2, <1>3, <1>4

\* A reply is refused.
LEMMA RefuseInv ==
  ASSUME TypeOK, TypeOK', IInv, NEW w \in Workers, Refuse(w)
  PROVE  IInv'
<1>1. RequestInv'
  BY DEF Refuse, Done
<1>2. NotifyInv'
  BY DEF Refuse, Done
<1>3. DecisionInv'
  BY DEF Refuse, Done
<1>4. PollingInv'
  BY DEF Refuse, Done
<1> QED BY <1>1, <1>2, <1>3, <1>4

\* The callback runs.
LEMMA RunCallbackInv ==
  ASSUME TypeOK, TypeOK', IInv, NEW w \in Workers, RunCallback(w)
  PROVE  IInv'
<1>1. RequestInv'
  BY DEF RunCallback
<1>2. NotifyInv'
  BY DEF RunCallback
<1>3. DecisionInv'
  BY DEF RunCallback
<1>4. PollingInv'
  BY DEF RunCallback
<1> QED BY <1>1, <1>2, <1>3, <1>4

\* The webhook goroutine starts.
LEMMA SpawnHookInv ==
  ASSUME TypeOK, TypeOK', IInv, NEW w \in Workers, SpawnHook(w)
  PROVE  IInv'
<1>1. RequestInv'
  BY DEF SpawnHook, Done
<1>2. NotifyInv'
  BY DEF SpawnHook, Done
<1>3. DecisionInv'
  BY DEF SpawnHook, Done
<1>4. PollingInv'
  BY DEF SpawnHook, Done
<1> QED BY <1>1, <1>2, <1>3, <1>4

\* Late requests are dropped.
LEMMA CleanupInv ==
  ASSUME TypeOK, TypeOK', IInv, NEW i \in Instances, NEW h \in Handlers, Cleanup(i, h)
  PROVE  IInv'
<1>1. RequestInv'
  BY DEF Cleanup
<1>2. NotifyInv'
  BY DEF Cleanup
<1>3. DecisionInv'
  BY DEF Cleanup
<1>4. PollingInv'
  BY DEF Cleanup
<1> QED BY <1>1, <1>2, <1>3, <1>4

\* An instance crashes.
LEMMA CrashInv ==
  ASSUME TypeOK, TypeOK', IInv, NEW i \in Instances, Crash(i)
  PROVE  IInv'
<1>1. RequestInv'
  BY DEF Crash
<1>2. NotifyInv'
  BY DEF Crash
<1>3. DecisionInv'
  BY DEF Crash
<1>4. PollingInv'
  BY DEF Crash
<1> QED BY <1>1, <1>2, <1>3, <1>4

\* A GET reads the status.
LEMMA PollReadInv ==
  ASSUME TypeOK, TypeOK', IInv, NEW r \in Requests, PollRead(r)
  PROVE  IInv'
<1>1. RequestInv' /\ NotifyInv' /\ DecisionInv'
  BY DEF PollRead
<1>2. /\ UNCHANGED <<status, response>>
      /\ \A q \in Requests \ {r} : poll'[q] = poll[q] /\ pollSaw'[q] = pollSaw[q]
  BY DEF PollRead
<1>3. /\ poll'[r] \in {pollSaw[r], status[r], "torn"}
      /\ pollSaw[r] \in {"pending", "expired"}
      /\ pollSaw[r] = "expired" => status[r] = "expired"
      /\ status[r] # "none"
  BY DEF PollRead
<1>4. status[r] # "looking" /\ pollSaw[r] # "looking"
  <2>1. status[r] \in Statuses
    OBVIOUS
  <2>2. "looking" \notin Statuses
    BY NoStatusAssumption, Zenon DEF Statuses, Verdicts
  <2> QED BY <1>3, <2>1, <2>2
<1>5. poll'[r] # "looking" /\ (poll'[r] = "expired" => status'[r] # "none")
  BY <1>2, <1>3, <1>4
<1>6. PollInv'
  BY <1>2, <1>5
<1>7. ReportedVerdictStands'
  <2>1. poll'[r] \in {"approved", "denied", "offline_approved", "expired"}
          => poll'[r] = status'[r]
    BY <1>2, <1>3
  <2> QED BY <1>2, <2>1
<1> QED BY <1>1, <1>6, <1>7

\* A message is delivered to a worker.
LEMMA ReceiveInv ==
  ASSUME TypeOK, TypeOK', IInv, NEW w \in Workers, NEW m \in Replies, Receive(w, m)
  PROVE  IInv'
<1>1. RequestInv' /\ DecisionInv' /\ PollingInv'
  BY DEF Receive
<1>2. DeliveryInv' /\ UniqueInv' /\ PostingInv'
  BY DEF Receive
<1>3. [reply |-> m, receivedAt |-> clock] \in Messages
  BY DEF Messages
<1>4. WorkerInv'
  BY <1>3 DEF Receive
<1> QED BY <1>1, <1>2, <1>4

\* A reply comes too late: the request cannot have been within its grace period.
LEMMA ExpireInv ==
  ASSUME TypeOK, TypeOK', IInv, NEW w \in Workers, Expire(w)
  PROVE  IInv'
<1> DEFINE r == Judged(w).id
<1>1. /\ r \in pending /\ r \in Requests
      /\ clock' \in Nat /\ clock' >= clock
      /\ clock' > expiresAt[r] /\ clock' > GraceEnd(r)
      /\ status' = [status EXCEPT ![r] = "expired"]
      /\ UNCHANGED <<expiresAt, respondedAt, response, stage, asked, pending,
                     calledBack, hooked, posting, poll, pollSaw>>
  BY DEF Expire, Addressed, Reading
<1>2. \A q \in Requests : GraceEnd(q) \in Int /\ GraceEnd(q)' = GraceEnd(q)
  BY <1>1
<1>3. response[r] = NoMessage
  BY <1>1
<1> HIDE DEF r, GraceEnd
<1>4. FreshInv' /\ PendingInv' /\ AnsweredInv'
  BY <1>1, <1>3
<1>5. OpenInv'
  BY <1>1, <1>2
<1>6. NotifyInv'
  BY <1>1 DEF Expire, Done
<1>7. AtMostOneNotification' /\ AcceptedIsGenuine'
  BY <1>1, <1>3
<1>8. OnTimeOrGrace'
  BY <1>1, <1>2, <1>3
<1>9. NoEarlyLoss'
  BY <1>1, <1>2
<1>10. PollingInv'
  BY <1>1, <1>3
<1> QED BY <1>4, <1>5, <1>6, <1>7, <1>8, <1>9, <1>10

\* A reply is accepted: the request was open, nobody else holds its verdict.
LEMMA AcceptInv ==
  ASSUME TypeOK, TypeOK', IInv, NEW w \in Workers, Accept(w)
  PROVE  IInv'
<1> DEFINE r == Judged(w).id
<1>1. AcceptsReply(w, r)
  BY AcceptFacts
<1>2. /\ \A q \in Requests : GraceEnd(q) \in Int /\ GraceEnd(q)' = GraceEnd(q)
      /\ wmsg[w].reply.id = r
  BY <1>1 DEF AcceptsReply
<1> HIDE DEF r, GraceEnd
<1>3. FreshInv' /\ PendingInv'
  BY <1>1 DEF AcceptsReply
<1>4. OpenInv' /\ AnsweredInv'
  <2>1. OpenInv'
    BY <1>1, <1>2 DEF AcceptsReply
  <2>2. \A late \in BOOLEAN : Verdict(r, wmsg[w].reply.status, late) \in Verdicts
    BY <1>1 DEF AcceptsReply, Verdict, Verdicts
  <2>3. AnsweredInv'
    BY <1>1, <2>2 DEF AcceptsReply
  <2> QED BY <2>1, <2>3
<1>5. WorkerInv'
  BY <1>1 DEF AcceptsReply
<1>6. DeliveryInv'
  BY <1>1 DEF AcceptsReply
<1>7. UniqueInv'
  BY <1>1 DEF AcceptsReply
<1>8. PostingInv'
  BY <1>1 DEF AcceptsReply
<1>9. AtMostOneNotification'
  BY <1>1 DEF AcceptsReply
<1>10. OnTimeOrGrace'
  BY <1>1, <1>2 DEF AcceptsReply, Verdict
<1>11. AcceptedIsGenuine'
  BY <1>1, <1>2 DEF AcceptsReply, Verdict
<1>12. NoEarlyLoss'
  BY <1>1, <1>2 DEF AcceptsReply
<1>13. PollingInv'
  BY <1>1 DEF AcceptsReply, Verdict
<1> QED BY <1>3, <1>4, <1>5, <1>6, <1>7, <1>8, <1>9, <1>10, <1>11, <1>12, <1>13

-----------------------------------------------------------------------------
(* The theorems.                                                           *)

HIDE DEF TypeOK, IInv, RequestInv, NotifyInv, DecisionInv, PollingInv, GraceEnd

\* The invariant holds initially.
LEMMA InitInv == Init => IInv
  BY DEF Init, IInv, RequestInv, NotifyInv, DecisionInv, PollingInv

\* Every step preserves the invariant.
LEMMA StepInv ==
  ASSUME TypeOK, IInv, [Next]_vars
  PROVE  TypeOK' /\ IInv'
<1>1. TypeOK'
  BY StepTypeOK DEF IInv, NotifyInv
<1>2. CASE UNCHANGED vars
  <2>1. RequestInv'
    BY <1>2 DEF vars, IInv, RequestInv, GraceEnd
  <2>2. NotifyInv'
    BY <1>2 DEF vars, IInv, NotifyInv
  <2>3. DecisionInv'
    BY <1>2 DEF vars, IInv, DecisionInv, GraceEnd
  <2>4. PollingInv'
    BY <1>2 DEF vars, IInv, PollingInv
  <2> QED BY <1>1, <2>1, <2>2, <2>3, <2>4 DEF IInv
<1>3. CASE Next
  BY <1>1, <1>3, TickInv, PrepareInv, StoreInv, SendInv, ReturnInv, SetCallbackInv,
     PollReadInv, PostInv, PollLookupInv, RefuseInv, ExpireInv, AcceptInv,
     RunCallbackInv, SpawnHookInv, ReceiveInv, CrashInv, CleanupInv DEF Next
<1> QED BY <1>1, <1>2, <1>3

\* In every reachable state the variables have the types TypeOK gives them.
THEOREM TypeCorrect == Spec => []TypeOK
<1>1. Init => TypeOK /\ IInv
  BY InitTypeOK, InitInv
<1>2. TypeOK /\ IInv /\ [Next]_vars => TypeOK' /\ IInv'
  BY StepInv
<1> QED BY <1>1, <1>2, PTL DEF Spec

\* The inductive invariant holds in every reachable state.
THEOREM Invariance == Spec => [](TypeOK /\ IInv)
<1>1. Init => TypeOK /\ IInv
  BY InitTypeOK, InitInv
<1>2. TypeOK /\ IInv /\ [Next]_vars => TypeOK' /\ IInv'
  BY StepInv
<1> QED BY <1>1, <1>2, PTL DEF Spec

\* The backend hears of a verdict at most once through the callback and at most
\* once through the webhook, however often and wherever replies are delivered.
THEOREM NotifiedAtMostOnce == Spec => []AtMostOneNotification
<1>1. IInv => AtMostOneNotification
  BY DEF IInv, DecisionInv
<1> QED BY <1>1, Invariance, PTL

\* Verdicts agree with the clock on both sides of ExpiresAt and of the grace
\* period, whatever time passes between the readings of the clock.
THEOREM JudgedByTheClock == Spec => []OnTimeOrGrace
<1>1. IInv => OnTimeOrGrace
  BY DEF IInv, DecisionInv
<1> QED BY <1>1, Invariance, PTL

\* Accepted replies are those of the user who was asked, about what was asked.
THEOREM OnlyGenuineReplies == Spec => []AcceptedIsGenuine
<1>1. IInv => AcceptedIsGenuine
  BY DEF IInv, DecisionInv
<1> QED BY <1>1, Invariance, PTL

\* Without a crash no request is forgotten before its grace period is over.
THEOREM NotForgottenEarly == Spec => []NoEarlyLoss
<1>1. IInv => NoEarlyLoss
  BY DEF IInv, DecisionInv
<1> QED BY <1>1, Invariance, PTL

\* A verdict or an expiry that a GET reported never turns out different.
THEOREM ReportsStand == Spec => []ReportedVerdictStands
<1>1. IInv => ReportedVerdictStands
  BY DEF IInv, PollingInv
<1> QED BY <1>1, Invariance, PTL

\* The actions that leave the fields of every request but its expiry alone.
LEMMA FieldsChange ==
  ASSUME Next, ~ UNCHANGED <<status, respondedAt, response>>
  PROVE  \/ \E r \in Requests : Store(r)
         \/ \E w \in Workers : Expire(w) \/ Accept(w)
  BY DEF Next, Tick, Prepare, Send, Return, SetCallback, PollRead, Post, PollLookup,
         Refuse, RunCallback, SpawnHook, Receive, Crash, Cleanup

\* No step changes the verdict, the reply or the time of an answered request.
THEOREM VerdictsAreFinal == Spec => DecisionIsFinal
<1> DEFINE Final == \A r \in Requests : response[r] # NoMessage =>
                      /\ response'[r] = response[r]
                      /\ status'[r] = status[r]
                      /\ respondedAt'[r] = respondedAt[r]
<1>1. ASSUME TypeOK, IInv, Next PROVE Final
  <2>1. CASE UNCHANGED <<status, respondedAt, response>>
    BY <2>1
  <2>2. ASSUME NEW r \in Requests, Store(r) PROVE Final
    BY <1>1, <2>2 DEF Store, IInv, RequestInv, TypeOK
  <2>3. ASSUME NEW w \in Workers, Expire(w) PROVE Final
    BY <1>1, <2>3 DEF Expire, Addressed, IInv, RequestInv, TypeOK
  <2>4. ASSUME NEW w \in Workers, Accept(w) PROVE Final
    <3>1. AcceptsReply(w, Judged(w).id)
      BY <1>1, <2>4, AcceptFacts DEF IInv, RequestInv, NotifyInv
    <3> QED BY <1>1, <3>1 DEF AcceptsReply, TypeOK
  <2> QED BY <1>1, <2>1, <2>2, <2>3, <2>4, FieldsChange
<1>2. TypeOK /\ IInv /\ [Next]_vars => [Final]_vars
  BY <1>1
<1> QED BY <1>2, Invariance, PTL DEF Spec, DecisionIsFinal

-----------------------------------------------------------------------------
(* Refinement: what each step is, seen as a step of RequestPromise.        *)

\* The steps that change neither what was decided nor what was told.
LEMMA SeenChange ==
  ASSUME Next, ~ UNCHANGED <<status, response, calledBack, hooked>>
  PROVE  \/ \E r \in Requests : Store(r) \/ Post(r)
         \/ \E w \in Workers : Expire(w) \/ Accept(w) \/ RunCallback(w)
  BY DEF Next, Tick, Prepare, Send, Return, SetCallback, PollRead, PollLookup,
         Refuse, SpawnHook, Receive, Crash, Cleanup

\* What the mapping shows of a request that a step leaves alone.
LEMMA SameView ==
  ASSUME NEW r \in Requests
  PROVE  /\ (status'[r] = status[r] /\ response'[r] = response[r])
               => VerdictOf(r)' = VerdictOf(r)
         /\ (calledBack'[r] = calledBack[r] /\ hooked'[r] = hooked[r])
               => HeardOf(r)' = HeardOf(r)
  BY DEF VerdictOf, HeardOf

\* A step that changes only the verdict of r, from `old' to `new', as a step of the
\* abstract specification; and one that only tells of r through the channel c.
LEMMA OneVerdict ==
  ASSUME NEW r \in Requests, NEW new,
         \A q \in Requests \ {r} : status'[q] = status[q] /\ response'[q] = response[q],
         UNCHANGED <<calledBack, hooked>>, VerdictOf(r)' = new
  PROVE  /\ [q \in Requests |-> VerdictOf(q)]'
              = [[q \in Requests |-> VerdictOf(q)] EXCEPT ![r] = new]
         /\ [q \in Requests |-> HeardOf(q)]' = [q \in Requests |-> HeardOf(q)]
<1>1. \A q \in Requests \ {r} : VerdictOf(q)' = VerdictOf(q)
  BY SameView
<1>2. \A q \in Requests : HeardOf(q)' = HeardOf(q)
  BY SameView
<1> QED BY <1>1, <1>2

LEMMA OneTold ==
  ASSUME NEW r \in Requests, NEW c,
         \A q \in Requests \ {r} :
           calledBack'[q] = calledBack[q] /\ hooked'[q] = hooked[q],
         UNCHANGED <<status, response>>, HeardOf(r)' = HeardOf(r) \cup {c}
  PROVE  /\ [q \in Requests |-> HeardOf(q)]'
              = [[q \in Requests |-> HeardOf(q)] EXCEPT ![r] = @ \cup {c}]
         /\ [q \in Requests |-> VerdictOf(q)]' = [q \in Requests |-> VerdictOf(q)]
<1>1. \A q \in Requests \ {r} : HeardOf(q)' = HeardOf(q)
  BY SameView
<1>2. \A q \in Requests : VerdictOf(q)' = VerdictOf(q)
  BY SameView
<1> QED BY <1>1, <1>2

\* Every behaviour of the four handlers is a behaviour of RequestPromise.
THEOREM KeepsThePromise == Spec => RefinesPromise
<1>1. Init => Promise!Init
  BY DEF Init, Promise!Init, VerdictOf, HeardOf
<1>2. ASSUME TypeOK, IInv, Next PROVE [Promise!Next]_(Promise!vars)
  <2>1. CASE UNCHANGED <<status, response, calledBack, hooked>>
    BY <2>1, SameView DEF Promise!vars
  <2>2. ASSUME NEW r \in Requests, Store(r) PROVE Promise!Ask(r)
    <3>1. status[r] = "none" /\ response[r] = NoMessage
      BY <1>2, <2>2 DEF Store, IInv, RequestInv
    <3>2. VerdictOf(r) = "unasked" /\ VerdictOf(r)' = "open"
      BY <1>2, <2>2, <3>1 DEF Store, VerdictOf, TypeOK
    <3>3. /\ \A q \in Requests \ {r} : status'[q] = status[q] /\ response'[q] = response[q]
          /\ UNCHANGED <<calledBack, hooked>>
      BY <1>2, <2>2 DEF Store, TypeOK
    <3> QED BY <3>2, <3>3, OneVerdict DEF Promise!Ask
  <2>3. ASSUME NEW w \in Workers, Expire(w) PROVE [Promise!Next]_(Promise!vars)
    <3>1. PICK r \in Requests : /\ r = Judged(w).id /\ response[r] = NoMessage
                                /\ status[r] \in {"pending", "expired"}
      BY <1>2, <2>3 DEF Expire, Addressed, IInv, RequestInv, TypeOK
    <3>2. /\ status' = [status EXCEPT ![r] = "expired"]
          /\ UNCHANGED <<response, calledBack, hooked>>
      BY <2>3, <3>1 DEF Expire
    <3>3. VerdictOf(r)' = "lapsed"
      BY <1>2, <3>1, <3>2 DEF VerdictOf, TypeOK
    <3>4. CASE status[r] = "expired"
      <4>1. UNCHANGED <<status, response, calledBack, hooked>>
        BY <1>2, <3>2, <3>4 DEF TypeOK
      <4> QED BY <4>1, SameView DEF Promise!vars
    <3>5. CASE status[r] = "pending"
      <4>1. VerdictOf(r) = "open"
        BY <3>1, <3>5 DEF VerdictOf
      <4>2. Promise!Lapse(r)
        BY <1>2, <3>1, <3>2, <3>3, <4>1, OneVerdict DEF Promise!Lapse, TypeOK
      <4> QED BY <3>1, <4>2 DEF Promise!Next
    <3> QED BY <3>1, <3>4, <3>5
  <2>4. ASSUME NEW w \in Workers, Accept(w) PROVE [Promise!Next]_(Promise!vars)
    <3>1. PICK r \in Requests : AcceptsReply(w, r)
      <4>1. AcceptsReply(w, Judged(w).id)
        BY <1>2, <2>4, AcceptFacts DEF IInv, RequestInv, NotifyInv
      <4> QED BY <4>1 DEF AcceptsReply
    <3>2. /\ VerdictOf(r) = "open"
          /\ \A q \in Requests \ {r} : status'[q] = status[q] /\ response'[q] = response[q]
          /\ UNCHANGED <<calledBack, hooked>>
      BY <1>2, <3>1 DEF AcceptsReply, VerdictOf, TypeOK
    <3>3. VerdictOf(r)' \in Verdicts
      BY <1>2, <3>1 DEF AcceptsReply, VerdictOf, Verdict, Verdicts, TypeOK
    <3>4. Promise!Answer(r)
      BY <3>2, <3>3, OneVerdict DEF Promise!Answer
    <3> QED BY <3>2, <3>4 DEF Promise!Next
  <2>5. ASSUME NEW w \in Workers, RunCallback(w) PROVE [Promise!Next]_(Promise!vars)
    <3>1. PICK r \in Requests : /\ r = Judged(w).id /\ response[r] # NoMessage
                                /\ calledBack[r] = 0
      BY <1>2, <2>5 DEF RunCallback, IInv, NotifyInv
    <3>2. /\ UNCHANGED <<status, response, hooked>>
          /\ calledBack' = IF wcb[w] THEN [calledBack EXCEPT ![r] = @ + 1] ELSE calledBack
      BY <2>5, <3>1 DEF RunCallback
    <3>3. CASE ~ wcb[w]
      BY <3>2, <3>3, SameView DEF Promise!vars
    <3>4. CASE wcb[w]
      <4>1. /\ calledBack'[r] = 1
            /\ \A q \in Requests \ {r} :
                 calledBack'[q] = calledBack[q] /\ hooked'[q] = hooked[q]
        BY <1>2, <3>1, <3>2, <3>4 DEF TypeOK
      <4>2. /\ HeardOf(r)' = HeardOf(r) \cup {"callback"}
            /\ "callback" \notin HeardOf(r)
        BY <3>1, <3>2, <4>1 DEF HeardOf
      <4>3. VerdictOf(r) \in Verdicts
        BY <1>2, <3>1 DEF VerdictOf, IInv, RequestInv
      <4>4. Promise!Tell(r, "callback")
        BY <3>1, <3>2, <4>1, <4>2, <4>3, OneTold DEF Promise!Tell
      <4> QED BY <3>1, <4>4 DEF Promise!Next, Promise!Channels
    <3> QED BY <3>3, <3>4
  <2>6. ASSUME NEW r \in Requests, Post(r) PROVE Promise!Tell(r, "webhook")
    <3>1. response[r] # NoMessage /\ hooked[r] = 0
      BY <1>2, <2>6 DEF Post, IInv, NotifyInv
    <3>2. /\ UNCHANGED <<status, response, calledBack>> /\ hooked'[r] = 1
          /\ \A q \in Requests \ {r} :
               calledBack'[q] = calledBack[q] /\ hooked'[q] = hooked[q]
      BY <1>2, <2>6, <3>1 DEF Post, TypeOK
    <3>3. /\ HeardOf(r)' = HeardOf(r) \cup {"webhook"}
          /\ "webhook" \notin HeardOf(r)
      BY <3>1, <3>2 DEF HeardOf
    <3>4. VerdictOf(r) \in Verdicts
      BY <1>2, <3>1 DEF VerdictOf, IInv, RequestInv
    <3> QED BY <3>2, <3>3, <3>4, OneTold DEF Promise!Tell
  <2> QED BY <1>2, <2>1, <2>2, <2>3, <2>4, <2>5, <2>6, SeenChange
          DEF Promise!Next, Promise!Channels
<1>3. TypeOK /\ IInv /\ [Next]_vars => [Promise!Next]_(Promise!vars)
  <2>1. UNCHANGED vars => UNCHANGED Promise!vars
    BY SameView DEF vars, Promise!vars
  <2> QED BY <1>2, <2>1
<1> QED BY <1>1, <1>3, Invariance, PTL DEF Spec, RefinesPromise, Promise!Spec

-----------------------------------------------------------------------------
(* How far the findings go.                                                *)

\* An answer takes its request out of the map in the same step, and CheckAuthorization
\* looks only there: it finds no approval, of any user, action or resource, ever.
THEOREM NoApprovalIsFound == Spec => [](\A r \in Requests : ~CheckAuthorization(r))
<1>1. IInv => \A r \in Requests : ~CheckAuthorization(r)
  BY DEF IInv, RequestInv, PendingInv, CheckAuthorization
<1>2. QED BY <1>1, Invariance, PTL

\* For the same reason, to every poll that looks a request up after its answer, of
\* whatever instance, the request is not there; only one that looked before may tell.
THEOREM AnsweredIsNotFound ==
  Spec => [][\A r \in Requests, i \in Instances :
               (response[r] # NoMessage /\ PollLookup(r, i)) => poll'[r] = "not_found"]_vars
<1>1. ASSUME TypeOK, IInv, NEW r \in Requests, NEW i \in Instances,
             response[r] # NoMessage, PollLookup(r, i)
      PROVE  poll'[r] = "not_found"
  <2>1. r \notin pending
    BY <1>1 DEF IInv, RequestInv, PendingInv
  <2>2. QED BY <1>1, <2>1 DEF PollLookup, TypeOK
<1>2. TypeOK /\ IInv /\ [Next]_vars =>
        [\A r \in Requests, i \in Instances :
           (response[r] # NoMessage /\ PollLookup(r, i)) => poll'[r] = "not_found"]_vars
  BY <1>1
<1>3. QED BY <1>2, Invariance, PTL DEF Spec
=============================================================================
