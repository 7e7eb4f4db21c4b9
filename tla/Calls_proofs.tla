---------------------------- MODULE Calls_proofs ----------------------------
(***************************************************************************)
(* Proofs about Calls, for every set of users, requests and workers and    *)
(* every ring time, negative ones included.                                *)
(***************************************************************************)
EXTENDS Calls, TLAPS

-----------------------------------------------------------------------------
(* The inductive invariant.                                                *)

\* A request has a status once it is stored, and one that waits for its answer
\* is in the map.
MapInv == \A r \in Requests :
            /\ status[r] = "none" <=> stage[r] \in {"new", "refused", "prepared"}
            /\ r \in pending => status[r] \in {"pending", "expired"}
            /\ status[r] = "pending" => r \in pending

Busy(g) == pc[g] \in {"decided", "calledBack"}

\* Whoever took a request out of the map knows what became of it, and nobody has
\* been told through the channels that are still to come.
BusyInv == \A g \in Goroutines : Busy(g) =>
             /\ about[g] \in Requests \ pending
             /\ Outcome(about[g]) = news[g] /\ news[g] \in News
             /\ hooked[about[g]] = <<>>
             /\ \A p \in posting : p[1] # about[g]
             /\ pc[g] = "decided" => calledBack[about[g]] = <<>>
             /\ g \in Requests => about[g] = g

\* No two goroutines tell of the same request.
UniqueInv == \A g, h \in Goroutines :
               (Busy(g) /\ Busy(h) /\ about[g] = about[h]) => g = h

PostingInv == \A p \in posting :
                /\ p[1] \in Requests \ pending
                /\ Outcome(p[1]) = p[2] /\ p[2] \in News
                /\ hooked[p[1]] = <<>>

\* The map of calls agrees with the calls' own fields, and times are in order.
CallInv == \A r \in Requests :
             /\ r \in activeCalls <=> callStatus[r] \in {"connecting", "connected"}
             /\ callStatus[r] = "none" => connectedAt[r] = NilTime
             /\ callStatus[r] # "ended" => duration[r] = 0
             /\ callStatus[r] # "none" =>
                  /\ 0 =< startedAt[r] /\ startedAt[r] =< clock
                  /\ connectedAt[r] # NilTime =>
                       startedAt[r] =< connectedAt[r] /\ connectedAt[r] =< clock

TellInv    == BusyInv /\ UniqueInv /\ PostingInv
PromiseInv == OneOutcome /\ MissedIsOver /\ DurationWithinCall

IInv == MapInv /\ CallInv /\ TellInv /\ PromiseInv

-----------------------------------------------------------------------------
(* Type correctness.                                                       *)

USE DEF requestVars, callVars, goVars, notifyVars

\* The initial state is well typed.
LEMMA InitTypeOK == Init => TypeOK
  BY CallsAssumption DEF Init, TypeOK, Stages, Statuses, CallStatuses, Steps, NilTime

\* What Decide does to the variables it changes.
LEMMA DecideTypes ==
  ASSUME TypeOK, NEW g \in Goroutines, NEW r \in Requests, NEW s \in Statuses,
         NEW n \in News, Decide(g, r, s, n)
  PROVE  /\ status' \in [Requests -> Statuses]
         /\ pending' \subseteq Requests /\ callbacks' \subseteq Requests
         /\ about' \in [Goroutines -> Requests \cup {Nothing}]
         /\ news' \in [Goroutines -> News \cup {Nothing}]
         /\ hasCallback' \in [Goroutines -> BOOLEAN]
         /\ pc' \in [Goroutines -> Steps]
<1>1. (r \in callbacks) \in BOOLEAN
  OBVIOUS
<1>2. hasCallback' \in [Goroutines -> BOOLEAN]
  BY <1>1, Zenon DEF Decide, TypeOK
<1> QED BY <1>2 DEF Decide, TypeOK, Steps

\* A call that ends keeps the types.
LEMMA EndTypes ==
  ASSUME TypeOK, NEW r \in Requests, End(r)
  PROVE  TypeOK'
<1>1. clock - connectedAt[r] \in Int /\ clock \in Int
  BY DEF TypeOK
<1>2. duration' \in [Requests -> Int]
  <2> DEFINE t == clock - connectedAt[r]
  <2>1. t \in Int /\ duration' \in {duration, [duration EXCEPT ![r] = t]}
    BY <1>1 DEF End
  <2> HIDE DEF t
  <2> QED BY <2>1 DEF TypeOK
<1>3. endedAt' \in [Requests -> Int] /\ callStatus' \in [Requests -> CallStatuses]
  BY <1>1 DEF End, TypeOK, CallStatuses
<1> QED BY <1>2, <1>3 DEF End, TypeOK

\* A goroutine that forgets what it told of.
LEMMA ForgetTypes ==
  ASSUME TypeOK, NEW g \in Goroutines, NEW s \in Steps, Forget(g, s)
  PROVE  /\ pc' \in [Goroutines -> Steps]
         /\ about' \in [Goroutines -> Requests \cup {Nothing}]
         /\ news' \in [Goroutines -> News \cup {Nothing}]
         /\ hasCallback' \in [Goroutines -> BOOLEAN]
  BY DEF Forget, TypeOK

\* Every step keeps the types; a goroutine that tells of a request knows which.
LEMMA StepTypeOK ==
  ASSUME TypeOK, BusyInv, [Next]_vars
  PROVE  TypeOK'
<1> USE CallsAssumption DEF TypeOK
<1>0. Workers \subseteq Goroutines /\ Requests \subseteq Goroutines
  BY DEF Goroutines
<1>1. CASE Tick
  BY <1>1 DEF Tick
<1>2. ASSUME NEW r \in Requests, Prepare(r) \/ Store(r) \/ Send(r) \/ Return(r)
      PROVE  TypeOK'
  <2>1. CASE Prepare(r)
    <3> DEFINE t == clock + RingTime[r]
    <3>1. t \in Int /\ expiresAt' \in {expiresAt, [expiresAt EXCEPT ![r] = t]}
      BY <2>1 DEF Prepare
    <3>2. stage' \in [Requests -> Stages]
      BY <2>1 DEF Prepare, Stages
    <3> HIDE DEF t
    <3>3. expiresAt' \in [Requests -> Int]
      BY <3>1
    <3> QED BY <2>1, <3>2, <3>3 DEF Prepare
  <2>2. CASE Store(r)
    BY <2>2 DEF Store, Stages, Statuses
  <2>3. CASE Send(r)
    BY <2>3 DEF Send, Stages
  <2>4. CASE Return(r)
    BY <2>4 DEF Return, Stages, Steps
  <2> QED BY <1>2, <2>1, <2>2, <2>3, <2>4
<1>3. ASSUME NEW r \in Requests, SetCallback(r) \/ Watch(r) \/ EndCall(r)
      PROVE  TypeOK'
  <2>1. CASE SetCallback(r)
    BY <2>1 DEF SetCallback
  <2>2. CASE Watch(r)
    BY <2>2 DEF Watch, Steps
  <2>3. CASE EndCall(r)
    BY <2>3, EndTypes DEF EndCall
  <2> QED BY <1>3, <2>1, <2>2, <2>3
<1>4. ASSUME NEW r \in Requests, WakeUp(r)
      PROVE  TypeOK'
  <2>1. CASE r \in pending
    <3>1. Decide(r, r, "expired", "missed")
      BY <1>4, <2>1 DEF WakeUp
    <3>2. "expired" \in Statuses /\ "missed" \in News
      BY DEF Statuses, News
    <3> QED BY <1>0, <1>4, <3>1, <3>2, DecideTypes DEF WakeUp
  <2>2. CASE r \notin pending
    BY <1>4, <2>2 DEF WakeUp, Steps
  <2> QED BY <2>1, <2>2
<1>5. ASSUME NEW r \in Requests, NEW w \in Workers, NEW u \in Users, Accept(w, u, r)
      PROVE  TypeOK'
  <2>1. "approved" \in Statuses /\ "accepted" \in News
    BY DEF Statuses, News
  <2>2. /\ clock' \in Nat /\ startedAt' \in [Requests -> Int]
        /\ callStatus' \in [Requests -> CallStatuses]
        /\ callUser' \in [Requests -> Users \cup {Nobody}]
        /\ activeCalls' \subseteq Requests
    BY <1>5 DEF Accept, CallStatuses
  <2> QED BY <1>0, <1>5, <2>1, <2>2, DecideTypes DEF Accept
<1>6. ASSUME NEW r \in Requests, NEW w \in Workers, NEW u \in Users,
             AcceptLate(w, u, r) \/ Reject(w, u, r)
      PROVE  TypeOK'
  <2>1. CASE AcceptLate(w, u, r)
    BY <2>1 DEF AcceptLate, Statuses
  <2>2. CASE Reject(w, u, r)
    <3>1. "denied" \in Statuses /\ "rejected" \in News
      BY DEF Statuses, News
    <3> QED BY <1>0, <2>2, <3>1, DecideTypes DEF Reject
  <2> QED BY <1>6, <2>1, <2>2
<1>7. ASSUME NEW r \in Requests, NEW w \in Workers, NEW u \in Users,
             Answer(w, u, r) \/ Hangup(w, u, r)
      PROVE  TypeOK'
  <2>1. CASE Answer(w, u, r)
    BY <2>1 DEF Answer, CallStatuses
  <2>2. CASE Hangup(w, u, r)
    BY <2>2, EndTypes DEF Hangup
  <2> QED BY <1>7, <2>1, <2>2
<1>8. ASSUME NEW g \in Goroutines, RunCallback(g)
      PROVE  TypeOK'
  <2>1. about[g] \in Requests /\ news[g] \in News
    BY <1>8 DEF RunCallback, BusyInv, Busy
  <2>2. calledBack' \in [Requests -> Seq(News)]
    BY <1>8, <2>1 DEF RunCallback
  <2> QED BY <1>8, <2>2 DEF RunCallback, Steps
<1>9. ASSUME NEW w \in Workers, SpawnHook(w)
      PROVE  TypeOK'
  <2>1. about[w] \in Requests /\ news[w] \in News
    BY <1>0, <1>9 DEF SpawnHook, BusyInv, Busy
  <2>2. "idle" \in Steps
    BY DEF Steps
  <2>3. posting' \subseteq Requests \X News
    BY <1>9, <2>1 DEF SpawnHook
  <2> QED BY <1>0, <1>9, <2>2, <2>3, ForgetTypes DEF SpawnHook
<1>10. ASSUME NEW r \in Requests, HookMissed(r)
       PROVE  TypeOK'
  <2>1. news[r] \in News
    BY <1>0, <1>10 DEF HookMissed, BusyInv, Busy
  <2>2. "done" \in Steps
    BY DEF Steps
  <2>3. hooked' \in [Requests -> Seq(News)]
    BY <1>10, <2>1 DEF HookMissed
  <2> QED BY <1>0, <1>10, <2>2, <2>3, ForgetTypes DEF HookMissed
<1>11. ASSUME NEW p \in posting, Post(p)
       PROVE  TypeOK'
  <2>1. p[1] \in Requests /\ p[2] \in News
    BY <1>11
  <2>2. hooked' \in [Requests -> Seq(News)]
    BY <1>11, <2>1 DEF Post
  <2> QED BY <1>11, <2>2 DEF Post
<1>12. CASE UNCHANGED vars
  BY <1>12 DEF vars
<1> HIDE DEF TypeOK
<1> QED BY <1>1, <1>2, <1>3, <1>4, <1>5, <1>6, <1>7, <1>8, <1>9, <1>10, <1>11, <1>12
        DEF Next

-----------------------------------------------------------------------------
(* Every step preserves the invariant: one lemma per action.               *)

\* The outcome of a request depends on its status and on the map only.
LEMMA SameOutcome ==
  ASSUME NEW r \in Requests, status'[r] = status[r], r \in pending' <=> r \in pending
  PROVE  Outcome(r)' = Outcome(r)
  BY DEF Outcome

\* The outcome of a request, case by case.
LEMMA OutcomeIs ==
  ASSUME NEW r \in Requests
  PROVE  /\ status[r] = "none" => Outcome(r) = "unasked"
         /\ (status[r] # "none" /\ r \in pending) => Outcome(r) = "open"
         /\ (status[r] = "approved" /\ r \notin pending) => Outcome(r) = "accepted"
         /\ (status[r] = "denied" /\ r \notin pending) => Outcome(r) = "rejected"
         /\ (status[r] \in {"pending", "expired"} /\ r \notin pending)
              => Outcome(r) = "missed"
  BY DEF Outcome

\* Moving on within InitiateCall matters to a request only when it is stored.
Unstored == {"new", "refused", "prepared"}

LEMMA MapStep ==
  ASSUME MapInv, UNCHANGED <<status, pending>>,
         \A r \in Requests : stage'[r] \in Unstored <=> stage[r] \in Unstored
  PROVE  MapInv'
  BY DEF MapInv, Unstored

\* Only the expiry of requests that nobody was asked about yet may change.
LEMMA MissedStep ==
  ASSUME MissedIsOver, UNCHANGED <<clock, status, pending, callUser>>,
         \A r \in Requests : status[r] # "none" => expiresAt'[r] = expiresAt[r]
  PROVE  MissedIsOver'
<1>1. \A r \in Requests : Outcome(r)' = Outcome(r)
  BY SameOutcome
<1>2. \A r \in Requests : Outcome(r) \in {"missed", "open"} => status[r] # "none"
  BY OutcomeIs
<1> QED BY <1>1, <1>2 DEF MissedIsOver

USE CallsAssumption

\* Parts of the invariant that a step leaves alone because it touches no variable
\* they speak of, or the outcome of no request.
LEMMA SameTold ==
  ASSUME TellInv, OneOutcome, UNCHANGED <<pending, goVars, notifyVars, callStatus>>,
         \A q \in Requests : Outcome(q)' = Outcome(q)
  PROVE  TellInv' /\ OneOutcome'
<1>1. BusyInv'
  BY DEF TellInv, BusyInv, Busy
<1>2. UniqueInv' /\ PostingInv'
  BY DEF TellInv, UniqueInv, PostingInv, Busy
<1>3. OneOutcome'
  BY DEF OneOutcome
<1> QED BY <1>1, <1>2, <1>3 DEF TellInv

LEMMA SameCalls ==
  ASSUME UNCHANGED <<clock, callVars>>
  PROVE  (CallInv => CallInv') /\ (DurationWithinCall => DurationWithinCall')
  BY DEF CallInv, DurationWithinCall

\* A step that touches neither requests nor what was told of them.
LEMMA QuietStep ==
  ASSUME IInv, UNCHANGED <<status, pending, goVars, notifyVars, callStatus>>
  PROVE  /\ TellInv' /\ OneOutcome'
         /\ \A q \in Requests : Outcome(q)' = Outcome(q)
<1>1. \A q \in Requests : Outcome(q)' = Outcome(q)
  BY SameOutcome
<1> QED BY <1>1, SameTold DEF IInv, PromiseInv

\* Time passes.
LEMMA TickInv ==
  ASSUME TypeOK, TypeOK', IInv, Tick
  PROVE  IInv'
<1>1. /\ clock \in Nat /\ clock' \in Nat /\ clock =< clock'
      /\ \A q \in Requests : /\ startedAt[q] \in Int /\ connectedAt[q] \in Int
                             /\ expiresAt[q] \in Int
      /\ UNCHANGED <<requestVars, callVars, goVars, notifyVars>>
  BY DEF Tick, TypeOK
<1>2. TellInv' /\ OneOutcome' /\ \A q \in Requests : Outcome(q)' = Outcome(q)
  BY <1>1, QuietStep
<1>3. MapInv' /\ DurationWithinCall'
  BY <1>1 DEF IInv, MapInv, PromiseInv, DurationWithinCall
<1>4. CallInv'
  BY <1>1 DEF IInv, CallInv
<1>5. MissedIsOver'
  BY <1>1, <1>2 DEF IInv, PromiseInv, MissedIsOver
<1> QED BY <1>2, <1>3, <1>4, <1>5 DEF IInv, PromiseInv

\* A request that is only prepared is nobody's business yet.
LEMMA PrepareInv ==
  ASSUME TypeOK, TypeOK', IInv, NEW r \in Requests, Prepare(r)
  PROVE  IInv'
<1>1. stage[r] = "new" /\ stage'[r] \in {"prepared", "refused"}
  BY DEF Prepare, TypeOK
<1>2. /\ \A q \in Requests \ {r} : stage'[q] = stage[q]
      /\ \A q \in Requests \ {r} : expiresAt'[q] = expiresAt[q]
      /\ UNCHANGED <<clock, asked, status, pending, callbacks, callVars, goVars, notifyVars>>
  BY DEF Prepare, TypeOK
<1>3. status[r] = "none"
  BY <1>1 DEF IInv, MapInv
<1>4. MapInv'
  BY <1>1, <1>2, MapStep DEF IInv, Unstored
<1>5. MissedIsOver'
  BY <1>2, <1>3, MissedStep DEF IInv, PromiseInv
<1>6. TellInv' /\ OneOutcome' /\ CallInv' /\ DurationWithinCall'
  BY <1>2, QuietStep, SameCalls DEF IInv, PromiseInv
<1> QED BY <1>4, <1>5, <1>6 DEF IInv, PromiseInv

\* A request enters the map: nobody has been told anything of it.
LEMMA StoreInv ==
  ASSUME TypeOK, TypeOK', IInv, NEW r \in Requests, Store(r)
  PROVE  IInv'
<1>1. /\ status'[r] = "pending" /\ stage'[r] = "stored"
      /\ \A q \in Requests \ {r} : status'[q] = status[q] /\ stage'[q] = stage[q]
      /\ pending' = pending \cup {r}
      /\ UNCHANGED <<clock, expiresAt, callVars, goVars, notifyVars>>
  BY DEF Store, TypeOK
<1>2. status[r] = "none" /\ r \notin pending
  BY DEF Store, IInv, MapInv
<1>3. /\ Outcome(r) = "unasked" /\ Outcome(r)' = "open"
      /\ \A q \in Requests \ {r} : Outcome(q)' = Outcome(q)
  BY <1>1, <1>2, SameOutcome DEF Outcome
<1>4. MapInv'
  BY <1>1 DEF IInv, MapInv
<1>5. \A g \in Goroutines : Busy(g) => about[g] # r
  BY <1>3 DEF IInv, TellInv, BusyInv, News
<1>6. BusyInv'
  BY <1>1, <1>3, <1>5 DEF IInv, TellInv, BusyInv, Busy
<1>7. UniqueInv'
  BY <1>1 DEF IInv, TellInv, UniqueInv, Busy
<1>8. PostingInv'
  <2>1. \A p \in posting : p[1] # r
    BY <1>3 DEF IInv, TellInv, PostingInv, News
  <2> QED BY <1>1, <1>3, <2>1 DEF IInv, TellInv, PostingInv
<1>9. OneOutcome'
  BY <1>1, <1>3 DEF IInv, PromiseInv, OneOutcome
<1>10. MissedIsOver'
  BY <1>1, <1>3 DEF IInv, PromiseInv, MissedIsOver
<1>11. CallInv' /\ DurationWithinCall'
  BY <1>1, SameCalls DEF IInv, PromiseInv
<1> QED BY <1>4, <1>6, <1>7, <1>8, <1>9, <1>10, <1>11 DEF IInv, TellInv, PromiseInv

\* The other steps of InitiateCall, SetCallback and the watcher's first look.
LEMMA SendInv ==
  ASSUME TypeOK, TypeOK', IInv, NEW r \in Requests,
         Send(r) \/ SetCallback(r) \/ Return(r) \/ Watch(r)
  PROVE  IInv'
<1>1. UNCHANGED <<clock, status, expiresAt, pending, callVars, notifyVars, about, news>>
  BY DEF Send, SetCallback, Return, Watch
<1>2. \A q \in Requests : Outcome(q)' = Outcome(q)
  BY <1>1, SameOutcome
<1>3. \A g \in Goroutines : Busy(g)' => Busy(g) /\ pc'[g] = pc[g]
  BY DEF Send, SetCallback, Return, Watch, Busy, TypeOK
<1>4. MapInv'
  <2>1. CASE Send(r)
    BY <1>1, <2>1, MapStep DEF Send, Unstored, IInv, TypeOK
  <2>2. CASE Return(r)
    BY <1>1, <2>2, MapStep DEF Return, Unstored, IInv, TypeOK
  <2>3. CASE SetCallback(r) \/ Watch(r)
    BY <1>1, <2>3, MapStep DEF SetCallback, Watch, IInv
  <2> QED BY <2>1, <2>2, <2>3
<1>5. BusyInv'
  BY <1>1, <1>2, <1>3 DEF IInv, TellInv, BusyInv
<1>6. UniqueInv' /\ PostingInv'
  BY <1>1, <1>2, <1>3 DEF IInv, TellInv, UniqueInv, PostingInv
<1>7. OneOutcome'
  BY <1>1, <1>2 DEF IInv, PromiseInv, OneOutcome
<1>8. MissedIsOver' /\ CallInv' /\ DurationWithinCall'
  BY <1>1, MissedStep, SameCalls DEF IInv, PromiseInv
<1> QED BY <1>4, <1>5, <1>6, <1>7, <1>8 DEF IInv, TellInv, PromiseInv

\* A late accept marks the request, which stays in the map with the outcome it had.
LEMMA AcceptLateInv ==
  ASSUME TypeOK, TypeOK', IInv, NEW r \in Requests, NEW w \in Workers, NEW u \in Users,
         AcceptLate(w, u, r)
  PROVE  IInv'
<1>1. /\ r \in pending /\ clock > expiresAt[r]
      /\ status' = [status EXCEPT ![r] = "expired"] /\ status \in [Requests -> Statuses]
      /\ UNCHANGED <<clock, stage, expiresAt, pending, callVars, goVars, notifyVars>>
  BY DEF AcceptLate, TypeOK
<1>2. /\ status[r] # "none" /\ status'[r] = "expired"
      /\ \A q \in Requests \ {r} : status'[q] = status[q]
  BY <1>1 DEF IInv, MapInv
<1>3. \A q \in Requests : Outcome(q)' = Outcome(q)
  <2>1. Outcome(r) = "open" /\ Outcome(r)' = "open"
    BY <1>1, <1>2 DEF Outcome
  <2> QED BY <1>1, <1>2, <2>1, SameOutcome
<1>4. MapInv'
  BY <1>1, <1>2 DEF IInv, MapInv
<1>5. CallInv' /\ TellInv' /\ OneOutcome' /\ DurationWithinCall'
  BY <1>1, <1>3, SameTold, SameCalls DEF IInv, PromiseInv
<1>6. MissedIsOver'
  BY <1>1, <1>2, <1>3 DEF IInv, PromiseInv, MissedIsOver
<1> QED BY <1>4, <1>5, <1>6 DEF IInv, PromiseInv

\* Whoever decides a request is the only one to tell of it, and has told nobody yet.
LEMMA DecideInv ==
  ASSUME TypeOK, IInv, NEW g \in Goroutines, NEW r \in pending, NEW s, NEW n,
         \/ s = "approved" /\ n = "accepted"
         \/ s = "denied" /\ n = "rejected"
         \/ s = "expired" /\ n = "missed",
         ~ Busy(g), g \in Requests => g = r,
         Decide(g, r, s, n), UNCHANGED <<stage, notifyVars>>
  PROVE  /\ MapInv' /\ TellInv'
         /\ r \in Requests /\ Outcome(r) = "open" /\ Outcome(r)' = n
         /\ \A q \in Requests \ {r} : Outcome(q)' = Outcome(q)
         /\ calledBack[r] = <<>> /\ hooked[r] = <<>>
<1>1. /\ r \in Requests /\ pending' = pending \ {r}
      /\ status'[r] = s
      /\ \A q \in Requests \ {r} : status'[q] = status[q]
      /\ UNCHANGED <<stage, posting, calledBack, hooked>>
  BY DEF Decide, TypeOK
<1>2. /\ pc'[g] = "decided" /\ about'[g] = r /\ news'[g] = n
      /\ \A h \in Goroutines \ {g} : /\ pc'[h] = pc[h]
                                     /\ about'[h] = about[h]
                                     /\ news'[h] = news[h]
  BY DEF Decide, TypeOK
<1>3. Outcome(r) = "open" /\ calledBack[r] = <<>> /\ hooked[r] = <<>>
  <2>1. status[r] # "none"
    BY <1>1 DEF IInv, MapInv
  <2>2. Outcome(r) = "open"
    BY <1>1, <2>1, OutcomeIs
  <2> QED BY <1>1, <2>2 DEF IInv, PromiseInv, OneOutcome
<1>4. Outcome(r)' = n
  BY <1>1 DEF Outcome
<1>5. \A q \in Requests \ {r} : Outcome(q)' = Outcome(q)
  BY <1>1, SameOutcome
<1>6. MapInv'
  BY <1>1 DEF IInv, MapInv
<1>7. \A h \in Goroutines \ {g} : Busy(h) => about[h] # r /\ about[h] \in Requests
  BY DEF IInv, TellInv, BusyInv
<1>8. \A p \in posting : p[1] # r /\ p[1] \in Requests
  BY DEF IInv, TellInv, PostingInv
<1>9. BusyInv'
  <2> SUFFICES ASSUME NEW h \in Goroutines, Busy(h)'
               PROVE  /\ about'[h] \in Requests \ pending'
                      /\ Outcome(about[h])' = news'[h] /\ news'[h] \in News
                      /\ hooked'[about'[h]] = <<>>
                      /\ \A p \in posting' : p[1] # about'[h]
                      /\ pc'[h] = "decided" => calledBack'[about'[h]] = <<>>
                      /\ h \in Requests => about'[h] = h
    BY DEF BusyInv
  <2>1. CASE h = g
    BY <1>1, <1>2, <1>3, <1>4, <1>8, <2>1 DEF News
  <2>2. CASE h # g
    BY <1>1, <1>2, <1>5, <1>7, <2>2 DEF IInv, TellInv, BusyInv, Busy
  <2> QED BY <2>1, <2>2
<1>10. UniqueInv'
  BY <1>2, <1>7 DEF IInv, TellInv, UniqueInv, Busy
<1>11. PostingInv'
  BY <1>1, <1>5, <1>8 DEF IInv, TellInv, PostingInv
<1> QED BY <1>1, <1>3, <1>4, <1>5, <1>6, <1>9, <1>10, <1>11 DEF TellInv

\* The user rejects.
LEMMA RejectInv ==
  ASSUME TypeOK, TypeOK', IInv, NEW r \in Requests, NEW w \in Workers, NEW u \in Users,
         Reject(w, u, r)
  PROVE  IInv'
<1>1. /\ r \in pending /\ ~ Busy(w) /\ w \in Goroutines /\ w \notin Requests
      /\ Decide(w, r, "denied", "rejected")
      /\ UNCHANGED <<clock, stage, expiresAt, callVars, notifyVars>>
  BY DEF Reject, Goroutines, Busy
<1>2. /\ MapInv' /\ TellInv'
      /\ Outcome(r) = "open" /\ Outcome(r)' = "rejected"
      /\ \A q \in Requests \ {r} : Outcome(q)' = Outcome(q)
      /\ calledBack[r] = <<>> /\ hooked[r] = <<>>
  BY <1>1, DecideInv
<1>3. CallInv' /\ DurationWithinCall'
  BY <1>1, SameCalls DEF IInv, PromiseInv
<1>4. OneOutcome'
  BY <1>1, <1>2 DEF IInv, PromiseInv, OneOutcome
<1>5. MissedIsOver'
  <2>1. \A q \in Requests \ {r} : status'[q] = status[q]
    BY <1>1 DEF Decide, TypeOK
  <2> QED BY <1>1, <1>2, <2>1 DEF IInv, PromiseInv, MissedIsOver
<1> QED BY <1>2, <1>3, <1>4, <1>5 DEF IInv, PromiseInv

\* The watcher wakes up, to a request that is still pending or to one that is not.
LEMMA WakeUpInv ==
  ASSUME TypeOK, TypeOK', IInv, NEW r \in Requests, WakeUp(r)
  PROVE  IInv'
<1>1. CASE r \in pending
  <2>1. /\ ~ Busy(r) /\ r \in Goroutines /\ clock >= expiresAt[r]
        /\ Decide(r, r, "expired", "missed")
        /\ UNCHANGED <<clock, stage, expiresAt, callVars, notifyVars>>
    BY <1>1 DEF WakeUp, Goroutines, Busy
  <2>2. /\ MapInv' /\ TellInv'
        /\ Outcome(r) = "open" /\ Outcome(r)' = "missed"
        /\ \A q \in Requests \ {r} : Outcome(q)' = Outcome(q)
        /\ calledBack[r] = <<>> /\ hooked[r] = <<>>
    BY <1>1, <2>1, DecideInv
  <2>3. CallInv' /\ DurationWithinCall'
    BY <2>1, SameCalls DEF IInv, PromiseInv
  <2>4. OneOutcome'
    BY <2>1, <2>2 DEF IInv, PromiseInv, OneOutcome
  <2>5. MissedIsOver'
    <3>1. \A q \in Requests \ {r} : status'[q] = status[q]
      BY <2>1 DEF Decide, TypeOK
    <3> QED BY <2>1, <2>2, <3>1 DEF IInv, PromiseInv, MissedIsOver
  <2> QED BY <2>2, <2>3, <2>4, <2>5 DEF IInv, PromiseInv
<1>2. CASE r \notin pending
  <2>1. /\ \A g \in Goroutines : Busy(g)' => Busy(g) /\ pc'[g] = pc[g]
        /\ UNCHANGED <<clock, stage, status, expiresAt, pending, about, news, callVars,
                       notifyVars>>
    BY <1>2 DEF WakeUp, Busy, TypeOK
  <2>2. \A q \in Requests : Outcome(q)' = Outcome(q)
    BY <2>1, SameOutcome
  <2>3. MapInv' /\ CallInv' /\ DurationWithinCall'
    BY <2>1, SameCalls DEF IInv, PromiseInv, MapInv
  <2>4. BusyInv' /\ UniqueInv'
    BY <2>1, <2>2 DEF IInv, TellInv, BusyInv, UniqueInv
  <2>5. PostingInv' /\ OneOutcome'
    BY <2>1, <2>2 DEF IInv, TellInv, PromiseInv, PostingInv, OneOutcome
  <2>6. MissedIsOver'
    BY <2>1, <2>2 DEF IInv, PromiseInv, MissedIsOver
  <2> QED BY <2>3, <2>4, <2>5, <2>6 DEF IInv, TellInv, PromiseInv
<1> QED BY <1>1, <1>2

\* The user accepts in time: there is a call, which starts now.
LEMMA AcceptInv ==
  ASSUME TypeOK, TypeOK', IInv, NEW r \in Requests, NEW w \in Workers, NEW u \in Users,
         Accept(w, u, r)
  PROVE  IInv'
<1>1. /\ r \in pending /\ ~ Busy(w) /\ w \in Goroutines /\ w \notin Requests
      /\ u = Owner[r]
      /\ Decide(w, r, "approved", "accepted")
      /\ UNCHANGED <<stage, expiresAt, connectedAt, endedAt, duration, notifyVars>>
  BY DEF Accept, Goroutines, Busy
<1>2. /\ MapInv' /\ TellInv'
      /\ Outcome(r) = "open" /\ Outcome(r)' = "accepted"
      /\ \A q \in Requests \ {r} : Outcome(q)' = Outcome(q)
      /\ calledBack[r] = <<>> /\ hooked[r] = <<>>
  BY <1>1, DecideInv
<1>3. /\ activeCalls' = activeCalls \cup {r}
      /\ callStatus'[r] = "connecting" /\ callUser'[r] = u /\ startedAt'[r] = clock'
      /\ \A q \in Requests \ {r} : /\ callStatus'[q] = callStatus[q]
                                   /\ callUser'[q] = callUser[q]
                                   /\ startedAt'[q] = startedAt[q]
  BY DEF Accept, TypeOK
<1>4. /\ clock \in Nat /\ clock' \in Nat /\ clock =< clock'
      /\ \A q \in Requests : /\ startedAt[q] \in Int /\ connectedAt[q] \in Int
                             /\ expiresAt[q] \in Int
  BY DEF Accept, TypeOK
<1>5. callStatus[r] = "none"
  BY <1>2 DEF IInv, PromiseInv, OneOutcome, TypeOK
<1>6. CallInv'
  <2>1. connectedAt[r] = NilTime /\ duration[r] = 0
    BY <1>5 DEF IInv, CallInv
  <2>2. ASSUME NEW q \in Requests \ {r}, callStatus[q] # "none"
        PROVE  /\ 0 =< startedAt[q] /\ startedAt[q] =< clock'
               /\ connectedAt[q] # NilTime =>
                    startedAt[q] =< connectedAt[q] /\ connectedAt[q] =< clock'
    BY <1>4, <2>2 DEF IInv, CallInv
  <2> QED BY <1>1, <1>3, <1>4, <1>5, <2>1, <2>2 DEF IInv, CallInv
<1>7. OneOutcome'
  BY <1>1, <1>2, <1>3 DEF IInv, PromiseInv, OneOutcome
<1>8. MissedIsOver'
  <2>1. \A q \in Requests \ {r} : status'[q] = status[q]
    BY <1>1 DEF Decide, TypeOK
  <2> QED BY <1>1, <1>2, <1>3, <1>4, <2>1 DEF IInv, PromiseInv, MissedIsOver
<1>9. DurationWithinCall'
  BY <1>1, <1>3 DEF IInv, PromiseInv, DurationWithinCall
<1> QED BY <1>2, <1>6, <1>7, <1>8, <1>9 DEF IInv, PromiseInv

\* A step of an active call leaves the requests and what is told of them alone.
LEMMA CallStep ==
  ASSUME IInv, UNCHANGED <<clock, requestVars, goVars, notifyVars, callUser>>,
         \A q \in Requests : callStatus'[q] = "none" <=> callStatus[q] = "none"
  PROVE  MapInv' /\ TellInv' /\ OneOutcome' /\ MissedIsOver'
<1>1. \A q \in Requests : Outcome(q)' = Outcome(q)
  BY SameOutcome
<1>2. MapInv'
  BY DEF IInv, MapInv
<1>3. TellInv'
  BY <1>1 DEF IInv, TellInv, BusyInv, UniqueInv, PostingInv, Busy
<1>4. OneOutcome'
  BY <1>1 DEF IInv, PromiseInv, OneOutcome
<1>5. MissedIsOver'
  BY <1>1 DEF IInv, PromiseInv, MissedIsOver
<1> QED BY <1>2, <1>3, <1>4, <1>5

\* The SDP answer of an active call.
LEMMA AnswerInv ==
  ASSUME TypeOK, TypeOK', IInv, NEW r \in Requests, NEW w \in Workers, NEW u \in Users,
         Answer(w, u, r)
  PROVE  IInv'
<1>1. /\ r \in activeCalls
      /\ callStatus'[r] = "connected" /\ connectedAt'[r] = clock
      /\ \A q \in Requests \ {r} : /\ callStatus'[q] = callStatus[q]
                                   /\ connectedAt'[q] = connectedAt[q]
      /\ UNCHANGED <<clock, requestVars, activeCalls, callUser, startedAt, endedAt,
                     duration, goVars, notifyVars>>
  BY DEF Answer, TypeOK
<1>2. callStatus[r] \in {"connecting", "connected"}
  BY <1>1 DEF IInv, CallInv
<1>3. MapInv' /\ TellInv' /\ OneOutcome' /\ MissedIsOver'
  BY <1>1, <1>2, CallStep
<1>4. clock \in Nat /\ startedAt[r] \in Int
  BY DEF TypeOK
<1>5. CallInv'
  BY <1>1, <1>2, <1>4 DEF IInv, CallInv
<1>6. DurationWithinCall'
  BY <1>1 DEF IInv, PromiseInv, DurationWithinCall
<1> QED BY <1>3, <1>5, <1>6 DEF IInv, PromiseInv

\* The end of a call, from either side.
LEMMA EndInv ==
  ASSUME TypeOK, TypeOK', IInv, NEW r \in Requests, End(r)
  PROVE  IInv'
<1>1. /\ r \in activeCalls /\ activeCalls' = activeCalls \ {r}
      /\ callStatus'[r] = "ended" /\ endedAt'[r] = clock
      /\ duration'[r] = IF connectedAt[r] = NilTime THEN duration[r]
                        ELSE clock - connectedAt[r]
      /\ \A q \in Requests \ {r} : /\ callStatus'[q] = callStatus[q]
                                   /\ endedAt'[q] = endedAt[q]
                                   /\ duration'[q] = duration[q]
      /\ UNCHANGED <<clock, requestVars, callUser, startedAt, connectedAt, goVars,
                     notifyVars>>
  BY DEF End, TypeOK
<1>2. /\ callStatus[r] \in {"connecting", "connected"} /\ duration[r] = 0
      /\ 0 =< startedAt[r] /\ startedAt[r] =< clock
      /\ connectedAt[r] # NilTime =>
           startedAt[r] =< connectedAt[r] /\ connectedAt[r] =< clock
  BY <1>1 DEF IInv, CallInv
<1>3. MapInv' /\ TellInv' /\ OneOutcome' /\ MissedIsOver'
  BY <1>1, <1>2, CallStep
<1>4. CallInv'
  BY <1>1, <1>2 DEF IInv, CallInv
<1>5. DurationWithinCall'
  <2>1. clock \in Nat /\ startedAt[r] \in Int /\ connectedAt[r] \in Int
    BY DEF TypeOK
  <2>2. /\ 0 =< duration'[r] /\ duration'[r] =< endedAt'[r] - startedAt[r]
        /\ connectedAt[r] = NilTime => duration'[r] = 0
    BY <1>1, <1>2, <2>1
  <2> QED BY <1>1, <2>2 DEF IInv, PromiseInv, DurationWithinCall
<1> QED BY <1>3, <1>4, <1>5 DEF IInv, PromiseInv

-----------------------------------------------------------------------------
(* Telling the backend.                                                    *)

\* Appending to an empty sequence.
LEMMA FirstTold == ASSUME NEW n PROVE Append(<<>>, n) = <<n>> /\ <<n>> # <<>>
  OBVIOUS

\* A step that only tells leaves requests and calls alone.
LEMMA ToldStep ==
  ASSUME IInv, UNCHANGED <<clock, requestVars, callVars>>
  PROVE  /\ MapInv' /\ CallInv' /\ MissedIsOver' /\ DurationWithinCall'
         /\ \A q \in Requests : Outcome(q)' = Outcome(q)
<1>1. \A q \in Requests : Outcome(q)' = Outcome(q)
  BY SameOutcome
<1>2. MapInv' /\ CallInv' /\ DurationWithinCall'
  BY SameCalls DEF IInv, PromiseInv, MapInv
<1>3. MissedIsOver'
  BY <1>1 DEF IInv, PromiseInv, MissedIsOver
<1> QED BY <1>1, <1>2, <1>3

\* The callback is run, for a request nobody has heard of that way.
LEMMA RunCallbackInv ==
  ASSUME TypeOK, TypeOK', IInv, NEW g \in Goroutines, RunCallback(g)
  PROVE  IInv'
<1> DEFINE r == about[g]
<1>1. /\ r \in Requests \ pending /\ calledBack[r] = <<>>
      /\ Outcome(r) = news[g] /\ news[g] \in News
  BY DEF RunCallback, IInv, TellInv, BusyInv, Busy
<1>2. /\ \A q \in Requests \ {r} : calledBack'[q] = calledBack[q]
      /\ calledBack'[r] \in {<<>>, <<news[g]>>}
      /\ UNCHANGED <<clock, requestVars, callVars, about, news, posting, hooked>>
  BY <1>1, FirstTold DEF RunCallback, TypeOK
<1>3. /\ pc'[g] = "calledBack" /\ pc[g] = "decided"
      /\ \A h \in Goroutines \ {g} : pc'[h] = pc[h]
  BY DEF RunCallback, TypeOK
<1> HIDE DEF r
<1>4. /\ MapInv' /\ CallInv' /\ MissedIsOver' /\ DurationWithinCall'
      /\ \A q \in Requests : Outcome(q)' = Outcome(q)
  BY <1>2, ToldStep
<1>5. \A h \in Goroutines \ {g} : Busy(h) => about[h] # r
  BY <1>3 DEF IInv, TellInv, UniqueInv, Busy, r
<1>6. BusyInv'
  <2> SUFFICES ASSUME NEW h \in Goroutines, Busy(h)'
               PROVE  /\ about[h] \in Requests \ pending
                      /\ Outcome(about[h]) = news[h] /\ news[h] \in News
                      /\ hooked[about[h]] = <<>>
                      /\ \A p \in posting : p[1] # about[h]
                      /\ pc'[h] = "decided" => calledBack'[about[h]] = <<>>
                      /\ h \in Requests => about[h] = h
    BY <1>2, <1>4 DEF BusyInv
  <2>1. Busy(h)
    BY <1>3 DEF Busy
  <2>2. pc'[h] = "decided" => h # g /\ pc[h] = "decided"
    BY <1>3
  <2> QED BY <1>2, <1>5, <2>1, <2>2 DEF IInv, TellInv, BusyInv
<1>7. UniqueInv' /\ PostingInv'
  BY <1>2, <1>3, <1>4 DEF IInv, TellInv, UniqueInv, PostingInv, Busy
<1>8. OneOutcome'
  <2>1. Outcome(r) \notin {"unasked", "open"}
    BY <1>1 DEF News
  <2> QED BY <1>1, <1>2, <1>4, <2>1 DEF IInv, PromiseInv, OneOutcome
<1> QED BY <1>4, <1>6, <1>7, <1>8 DEF IInv, TellInv, PromiseInv

\* A worker starts the goroutine for the webhook and forgets the request.
LEMMA SpawnHookInv ==
  ASSUME TypeOK, TypeOK', IInv, NEW w \in Workers, SpawnHook(w)
  PROVE  IInv'
<1> DEFINE r == about[w]
<1>1. /\ r \in Requests \ pending /\ hooked[r] = <<>>
      /\ Outcome(r) = news[w] /\ news[w] \in News
      /\ \A h \in Goroutines \ {w} : Busy(h) => about[h] # r
  BY DEF SpawnHook, IInv, TellInv, BusyInv, UniqueInv, Busy, Goroutines
<1>2. /\ \A h \in Goroutines \ {w} : /\ pc'[h] = pc[h]
                                     /\ about'[h] = about[h]
                                     /\ news'[h] = news[h]
      /\ ~ Busy(w)'
  BY DEF SpawnHook, Forget, Busy, TypeOK, Goroutines
<1>3. /\ posting' \in {posting, posting \cup {<<r, news[w]>>}}
      /\ UNCHANGED <<clock, requestVars, callVars, calledBack, hooked>>
  BY DEF SpawnHook
<1> HIDE DEF r
<1>4. /\ MapInv' /\ CallInv' /\ MissedIsOver' /\ DurationWithinCall'
      /\ \A q \in Requests : Outcome(q)' = Outcome(q)
  BY <1>3, ToldStep
<1>5. BusyInv'
  <2> SUFFICES ASSUME NEW h \in Goroutines, Busy(h)'
               PROVE  /\ about[h] \in Requests \ pending
                      /\ Outcome(about[h]) = news[h] /\ news[h] \in News
                      /\ hooked[about[h]] = <<>>
                      /\ \A p \in posting' : p[1] # about[h]
                      /\ pc[h] = "decided" => calledBack[about[h]] = <<>>
                      /\ h \in Requests => about[h] = h
    BY <1>2, <1>3, <1>4 DEF BusyInv
  <2>1. h # w /\ Busy(h)
    BY <1>2 DEF Busy
  <2>2. \A p \in posting : p[1] # about[h]
    BY <2>1 DEF IInv, TellInv, BusyInv
  <2>3. \A p \in posting' : p[1] # about[h]
    BY <1>1, <1>3, <2>1, <2>2
  <2> QED BY <2>1, <2>3 DEF IInv, TellInv, BusyInv
<1>6. UniqueInv'
  BY <1>2 DEF IInv, TellInv, UniqueInv, Busy
<1>7. PostingInv'
  BY <1>1, <1>3, <1>4 DEF IInv, TellInv, PostingInv
<1>8. OneOutcome'
  BY <1>3, <1>4 DEF IInv, PromiseInv, OneOutcome
<1> QED BY <1>4, <1>5, <1>6, <1>7, <1>8 DEF IInv, TellInv, PromiseInv

\* The watcher calls the webhook, which nobody else does for its request.
LEMMA HookMissedInv ==
  ASSUME TypeOK, TypeOK', IInv, NEW r \in Requests, HookMissed(r)
  PROVE  IInv'
<1>1. /\ about[r] = r /\ r \notin pending /\ hooked[r] = <<>>
      /\ Outcome(r) = news[r] /\ news[r] \in News /\ r \in Goroutines
      /\ \A h \in Goroutines \ {r} : Busy(h) => about[h] # r
      /\ \A p \in posting : p[1] # r
  BY DEF HookMissed, IInv, TellInv, BusyInv, UniqueInv, Busy, Goroutines
<1>2. /\ \A h \in Goroutines \ {r} : /\ pc'[h] = pc[h]
                                     /\ about'[h] = about[h]
                                     /\ news'[h] = news[h]
      /\ ~ Busy(r)'
  BY DEF HookMissed, Forget, Busy, TypeOK, Goroutines
<1>3. /\ \A q \in Requests \ {r} : hooked'[q] = hooked[q]
      /\ hooked'[r] \in {<<>>, <<news[r]>>}
      /\ UNCHANGED <<clock, requestVars, callVars, posting, calledBack>>
  BY <1>1, FirstTold DEF HookMissed, TypeOK
<1>4. /\ MapInv' /\ CallInv' /\ MissedIsOver' /\ DurationWithinCall'
      /\ \A q \in Requests : Outcome(q)' = Outcome(q)
  BY <1>3, ToldStep
<1>5. BusyInv'
  <2> SUFFICES ASSUME NEW h \in Goroutines, Busy(h)'
               PROVE  /\ about[h] \in Requests \ pending
                      /\ Outcome(about[h]) = news[h] /\ news[h] \in News
                      /\ hooked'[about[h]] = <<>>
                      /\ \A p \in posting : p[1] # about[h]
                      /\ pc[h] = "decided" => calledBack[about[h]] = <<>>
                      /\ h \in Requests => about[h] = h
    BY <1>2, <1>3, <1>4 DEF BusyInv
  <2>1. h # r /\ Busy(h)
    BY <1>2 DEF Busy
  <2>2. about[h] \in Requests \ {r}
    BY <1>1, <2>1 DEF IInv, TellInv, BusyInv
  <2> QED BY <1>3, <2>1, <2>2 DEF IInv, TellInv, BusyInv
<1>6. UniqueInv'
  BY <1>2 DEF IInv, TellInv, UniqueInv, Busy
<1>7. PostingInv'
  BY <1>1, <1>3, <1>4 DEF IInv, TellInv, PostingInv
<1>8. OneOutcome'
  <2>1. Outcome(r) \notin {"unasked", "open"}
    BY <1>1 DEF News
  <2> QED BY <1>1, <1>3, <1>4, <2>1 DEF IInv, PromiseInv, OneOutcome
<1> QED BY <1>4, <1>5, <1>6, <1>7, <1>8 DEF IInv, TellInv, PromiseInv

\* A webhook goroutine makes its call.
LEMMA PostInv ==
  ASSUME TypeOK, TypeOK', IInv, NEW p \in posting, Post(p)
  PROVE  IInv'
<1> DEFINE r == p[1]
<1>1. /\ r \in Requests \ pending /\ hooked[r] = <<>>
      /\ Outcome(r) = p[2] /\ p[2] \in News
  BY DEF IInv, TellInv, PostingInv
<1>2. /\ posting' = posting \ {p}
      /\ \A q \in Requests \ {r} : hooked'[q] = hooked[q]
      /\ hooked'[r] = <<p[2]>>
      /\ UNCHANGED <<clock, requestVars, callVars, goVars, calledBack>>
  BY <1>1, FirstTold DEF Post, TypeOK
<1>3. \A h \in Goroutines : Busy(h) => about[h] # r
  BY DEF IInv, TellInv, BusyInv
<1>4. \A x \in posting' : x[1] # r
  <2> SUFFICES ASSUME NEW x \in posting, x[1] = r PROVE x = p
    BY <1>2
  <2>1. x[2] = p[2]
    BY <1>1 DEF IInv, TellInv, PostingInv
  <2>2. x \in Requests \X News /\ p \in Requests \X News
    BY DEF TypeOK
  <2> QED BY <2>1, <2>2
<1> HIDE DEF r
<1>5. /\ MapInv' /\ CallInv' /\ MissedIsOver' /\ DurationWithinCall'
      /\ \A q \in Requests : Outcome(q)' = Outcome(q)
  BY <1>2, ToldStep
<1>6. BusyInv'
  <2> SUFFICES ASSUME NEW h \in Goroutines, Busy(h)
               PROVE  /\ about[h] \in Requests \ pending
                      /\ Outcome(about[h]) = news[h] /\ news[h] \in News
                      /\ hooked'[about[h]] = <<>>
                      /\ \A x \in posting' : x[1] # about[h]
                      /\ pc[h] = "decided" => calledBack[about[h]] = <<>>
                      /\ h \in Requests => about[h] = h
    BY <1>2, <1>5 DEF BusyInv, Busy
  <2> QED BY <1>2, <1>3 DEF IInv, TellInv, BusyInv
<1>7. UniqueInv'
  BY <1>2 DEF IInv, TellInv, UniqueInv, Busy
<1>8. PostingInv'
  BY <1>2, <1>4, <1>5 DEF IInv, TellInv, PostingInv
<1>9. OneOutcome'
  <2>1. Outcome(r) \notin {"unasked", "open"}
    BY <1>1 DEF News
  <2> QED BY <1>1, <1>2, <1>5, <2>1 DEF IInv, PromiseInv, OneOutcome
<1> QED BY <1>5, <1>6, <1>7, <1>8, <1>9 DEF IInv, TellInv, PromiseInv

-----------------------------------------------------------------------------
(* The theorems.                                                           *)

\* The invariant holds initially.
LEMMA InitInv == Init => IInv
<1> SUFFICES ASSUME Init PROVE IInv
  OBVIOUS
<1>1. /\ \A r \in Requests : /\ status[r] = "none" /\ stage[r] = "new"
                             /\ callStatus[r] = "none" /\ connectedAt[r] = NilTime
                             /\ duration[r] = 0
                             /\ calledBack[r] = <<>> /\ hooked[r] = <<>>
      /\ \A g \in Goroutines : ~ Busy(g)
      /\ pending = {} /\ activeCalls = {} /\ posting = {}
  BY DEF Init, Busy
<1>2. \A r \in Requests : Outcome(r) = "unasked"
  BY <1>1, OutcomeIs
<1>3. MapInv /\ CallInv
  BY <1>1 DEF MapInv, CallInv
<1>4. TellInv
  BY <1>1 DEF TellInv, BusyInv, UniqueInv, PostingInv
<1>5. PromiseInv
  BY <1>1, <1>2 DEF PromiseInv, OneOutcome, MissedIsOver, DurationWithinCall
<1> QED BY <1>3, <1>4, <1>5 DEF IInv

\* Every step preserves the invariant.
LEMMA StepInv ==
  ASSUME TypeOK, IInv, [Next]_vars
  PROVE  TypeOK' /\ IInv'
<1>1. TypeOK'
  BY StepTypeOK DEF IInv, TellInv
<1>2. CASE UNCHANGED vars
  <2>1. MapInv' /\ TellInv' /\ OneOutcome' /\ MissedIsOver'
    BY <1>2, CallStep DEF vars
  <2>2. CallInv' /\ DurationWithinCall'
    BY <1>2, SameCalls DEF vars, IInv, PromiseInv
  <2> QED BY <1>1, <2>1, <2>2 DEF IInv, PromiseInv
<1>3. CASE Next
  BY <1>1, <1>3, TickInv, PrepareInv, StoreInv, SendInv, AcceptInv, AcceptLateInv,
     RejectInv, WakeUpInv, AnswerInv, EndInv, RunCallbackInv, SpawnHookInv,
     HookMissedInv, PostInv DEF Next, Hangup, EndCall
<1> QED BY <1>1, <1>2, <1>3

\* In every reachable state the variables have the types TypeOK gives them.
THEOREM TypeCorrect == Spec => []TypeOK
<1>1. Init => TypeOK /\ IInv
  BY InitTypeOK, InitInv
<1>2. TypeOK /\ IInv /\ [Next]_vars => TypeOK' /\ IInv'
  BY StepInv
<1> QED BY <1>1, <1>2, PTL DEF Spec

\* The inductive invariant holds in every reachable state.
THEOREM Invariance == Spec => [](TypeOK /\ IInv)
<1>1. Init => TypeOK /\ IInv
  BY InitTypeOK, InitInv
<1>2. TypeOK /\ IInv /\ [Next]_vars => TypeOK' /\ IInv'
  BY StepInv
<1> QED BY <1>1, <1>2, PTL DEF Spec

\* However accept, reject and the watcher race, the backend hears of one outcome,
\* at most once through each channel, and it is the one the request has.
THEOREM OneOutcomeOfARace == Spec => []OneOutcome
<1>1. IInv => OneOutcome
  BY DEF IInv, PromiseInv
<1> QED BY <1>1, Invariance, PTL

\* No call is missed before its request has expired, and every call is its user's.
THEOREM MissedAfterExpiry == Spec => []MissedIsOver
<1>1. IInv => MissedIsOver
  BY DEF IInv, PromiseInv
<1> QED BY <1>1, Invariance, PTL

\* The duration reported for a call is at most the time the call has lasted.
THEOREM DurationsFit == Spec => []DurationWithinCall
<1>1. IInv => DurationWithinCall
  BY DEF IInv, PromiseInv
<1> QED BY <1>1, Invariance, PTL

\* The steps that change a call.
LEMMA CallChange ==
  ASSUME Next, ~ UNCHANGED callVars
  PROVE  \E r \in Requests :
           \/ End(r)
           \/ \E w \in Workers, u \in Users : Accept(w, u, r) \/ Answer(w, u, r)
  BY DEF Next, Tick, Prepare, Store, Send, Return, SetCallback, Watch, WakeUp,
         AcceptLate, Reject, Hangup, EndCall, RunCallback, SpawnHook, HookMissed, Post

\* A request that a late accept found expired never becomes a call.
THEOREM ExpiredStaysMissed == Spec => NoCallOnceExpired
<1> DEFINE NoCall == \A r \in Requests : status[r] = "expired" =>
                       status'[r] # "approved" /\ callStatus'[r] = callStatus[r]
<1>1. ASSUME TypeOK, IInv, Next PROVE NoCall
  <2> SUFFICES ASSUME NEW r \in Requests, status[r] = "expired"
               PROVE  status'[r] # "approved" /\ callStatus'[r] = callStatus[r]
    OBVIOUS
  <2>1. callStatus[r] = "none" /\ r \notin activeCalls
    <3>1. Outcome(r) # "accepted"
      BY DEF Outcome
    <3> QED BY <1>1, <3>1 DEF IInv, PromiseInv, OneOutcome, CallInv
  <2>2. ASSUME NEW w \in Workers, NEW u \in Users, NEW q \in Requests, Accept(w, u, q)
        PROVE  q # r
    <3>1. /\ q \in pending /\ clock =< expiresAt[q]
          /\ clock \in Nat /\ expiresAt[q] \in Int
      BY <1>1, <2>2 DEF Accept, TypeOK
    <3>2. q = r => clock > expiresAt[q]
      <4>1. q = r => Outcome(q) = "open"
        BY <3>1, OutcomeIs
      <4> QED BY <1>1, <4>1 DEF IInv, PromiseInv, MissedIsOver
    <3> QED BY <3>1, <3>2
  <2>3. callStatus'[r] = callStatus[r]
    <3>1. CASE UNCHANGED callVars
      BY <3>1
    <3>2. ASSUME NEW q \in Requests, End(q) PROVE callStatus'[r] = callStatus[r]
      BY <1>1, <2>1, <3>2 DEF End, TypeOK
    <3>3. ASSUME NEW w \in Workers, NEW u \in Users, NEW q \in Requests,
                 Accept(w, u, q) \/ Answer(w, u, q)
          PROVE  callStatus'[r] = callStatus[r]
      <4>1. CASE Accept(w, u, q)
        BY <1>1, <2>2, <4>1 DEF Accept, TypeOK
      <4>2. CASE Answer(w, u, q)
        BY <1>1, <2>1, <4>2 DEF Answer, TypeOK
      <4> QED BY <3>3, <4>1, <4>2
    <3> QED BY <1>1, <3>1, <3>2, <3>3, CallChange
  <2>4. status'[r] # "approved"
    <3>1. Outcome(r)' = "accepted" <=> callStatus'[r] # "none"
      BY <1>1, StepInv DEF IInv, PromiseInv, OneOutcome
    <3>2. callStatus'[r] = "none"
      BY <2>1, <2>3
    <3>3. status'[r] = "approved" => r \notin pending'
      BY <1>1, StepInv DEF IInv, MapInv
    <3> QED BY <3>1, <3>2, <3>3 DEF Outcome
  <2> QED BY <2>3, <2>4
<1>2. TypeOK /\ IInv /\ [Next]_vars => [NoCall]_vars
  BY <1>1
<1> QED BY <1>2, Invariance, PTL DEF Spec, NoCallOnceExpired

\* Nothing that arrives late, from either side, changes a call that has ended.
THEOREM EndsAreFinal == Spec => EndedForGood
<1> DEFINE Ended == \A r \in Requests : callStatus[r] = "ended" =>
                      /\ callStatus'[r] = "ended" /\ r \notin activeCalls'
                      /\ endedAt'[r] = endedAt[r] /\ duration'[r] = duration[r]
                      /\ connectedAt'[r] = connectedAt[r]
<1>1. ASSUME TypeOK, IInv, Next PROVE Ended
  <2> SUFFICES ASSUME NEW r \in Requests, callStatus[r] = "ended"
               PROVE  /\ callStatus'[r] = "ended" /\ r \notin activeCalls'
                      /\ endedAt'[r] = endedAt[r] /\ duration'[r] = duration[r]
                      /\ connectedAt'[r] = connectedAt[r]
    OBVIOUS
  <2>1. r \notin activeCalls /\ r \notin pending
    <3>1. r \notin activeCalls
      BY <1>1 DEF IInv, CallInv
    <3>2. Outcome(r) = "accepted"
      BY <1>1 DEF IInv, PromiseInv, OneOutcome
    <3> QED BY <3>1, <3>2 DEF Outcome
  <2>2. CASE UNCHANGED callVars
    BY <2>1, <2>2
  <2>3. ASSUME NEW q \in Requests, End(q)
        PROVE  /\ callStatus'[r] = callStatus[r] /\ r \notin activeCalls'
               /\ endedAt'[r] = endedAt[r] /\ duration'[r] = duration[r]
               /\ connectedAt'[r] = connectedAt[r]
    BY <1>1, <2>1, <2>3 DEF End, TypeOK
  <2>4. ASSUME NEW w \in Workers, NEW u \in Users, NEW q \in Requests,
               Accept(w, u, q) \/ Answer(w, u, q)
        PROVE  /\ callStatus'[r] = callStatus[r] /\ r \notin activeCalls'
               /\ endedAt'[r] = endedAt[r] /\ duration'[r] = duration[r]
               /\ connectedAt'[r] = connectedAt[r]
    BY <1>1, <2>1, <2>4 DEF Accept, Answer, TypeOK
  <2> QED BY <1>1, <2>2, <2>3, <2>4, CallChange
<1>2. TypeOK /\ IInv /\ [Next]_vars => [Ended]_vars
  BY <1>1
<1> QED BY <1>2, Invariance, PTL DEF Spec, EndedForGood

-----------------------------------------------------------------------------
(* Refinement: what each step is, seen as a step of RequestPromise.        *)

\* The steps that change neither what became of a request nor what was told.
LEMMA SeenChange ==
  ASSUME Next, ~ UNCHANGED <<status, pending, calledBack, hooked>>
  PROVE  \/ \E r \in Requests : Store(r) \/ WakeUp(r) \/ HookMissed(r)
         \/ \E r \in Requests, w \in Workers, u \in Users :
              Accept(w, u, r) \/ AcceptLate(w, u, r) \/ Reject(w, u, r)
         \/ \E g \in Goroutines : RunCallback(g)
         \/ \E p \in posting : Post(p)
  BY DEF Next, Tick, Prepare, Send, Return, SetCallback, Watch, Answer, End, Hangup,
         EndCall, SpawnHook

\* A step that changes the outcome of r only, to `new', and one that only tells of r
\* through the channel c, as the abstract specification sees them.
LEMMA OneVerdict ==
  ASSUME NEW r \in Requests, NEW new, Outcome(r)' = new,
         \A q \in Requests \ {r} : Outcome(q)' = Outcome(q),
         UNCHANGED <<calledBack, hooked>>
  PROVE  /\ [q \in Requests |-> Outcome(q)]'
              = [[q \in Requests |-> Outcome(q)] EXCEPT ![r] = new]
         /\ [q \in Requests |-> HeardOf(q)]' = [q \in Requests |-> HeardOf(q)]
  BY DEF HeardOf

LEMMA OneTold ==
  ASSUME NEW r \in Requests, NEW c, UNCHANGED <<status, pending>>,
         \A q \in Requests \ {r} :
           calledBack'[q] = calledBack[q] /\ hooked'[q] = hooked[q],
         HeardOf(r)' = HeardOf(r) \cup {c}
  PROVE  /\ [q \in Requests |-> HeardOf(q)]'
              = [[q \in Requests |-> HeardOf(q)] EXCEPT ![r] = @ \cup {c}]
         /\ [q \in Requests |-> Outcome(q)]' = [q \in Requests |-> Outcome(q)]
<1>1. \A q \in Requests : Outcome(q)' = Outcome(q)
  BY SameOutcome
<1>2. \A q \in Requests \ {r} : HeardOf(q)' = HeardOf(q)
  BY DEF HeardOf
<1> QED BY <1>1, <1>2

\* A step that neither decides nor tells is a stuttering step of the promise.
LEMMA Unseen ==
  ASSUME UNCHANGED <<calledBack, hooked>>,
         \A q \in Requests : Outcome(q)' = Outcome(q)
  PROVE  UNCHANGED Promise!vars
  BY DEF HeardOf, Promise!vars

\* A webhook call for an outcome that no webhook has heard of.
LEMMA TellHook ==
  ASSUME NEW r \in Requests, hooked[r] = <<>>, hooked'[r] # <<>>, Outcome(r) \in News,
         \A q \in Requests \ {r} : hooked'[q] = hooked[q],
         UNCHANGED <<status, pending, calledBack>>
  PROVE  Promise!Tell(r, "webhook")
<1>1. HeardOf(r)' = HeardOf(r) \cup {"webhook"} /\ "webhook" \notin HeardOf(r)
  BY DEF HeardOf
<1> QED BY <1>1, OneTold DEF Promise!Tell

\* Every behaviour of the call handler is a behaviour of RequestPromise.
THEOREM KeepsThePromise == Spec => RefinesPromise
<1>1. Init => Promise!Init
  <2> SUFFICES ASSUME Init PROVE Promise!Init
    OBVIOUS
  <2>1. \A r \in Requests : Outcome(r) = "unasked" /\ HeardOf(r) = {}
    BY OutcomeIs DEF Init, HeardOf
  <2> QED BY <2>1 DEF Promise!Init
<1>2. ASSUME TypeOK, IInv, Next PROVE [Promise!Next]_(Promise!vars)
  <2>1. CASE UNCHANGED <<status, pending, calledBack, hooked>>
    BY <2>1, SameOutcome, Unseen
  <2>2. ASSUME NEW r \in Requests, Store(r) PROVE Promise!Ask(r)
    <3>1. /\ status[r] = "none" /\ status'[r] = "pending" /\ r \in pending'
          /\ \A q \in Requests \ {r} : /\ status'[q] = status[q]
                                       /\ q \in pending' <=> q \in pending
          /\ UNCHANGED <<calledBack, hooked>>
      BY <1>2, <2>2 DEF Store, IInv, MapInv, TypeOK
    <3>2. Outcome(r) = "unasked" /\ Outcome(r)' = "open"
      BY <3>1 DEF Outcome
    <3>3. \A q \in Requests \ {r} : Outcome(q)' = Outcome(q)
      BY <3>1, SameOutcome
    <3> QED BY <3>1, <3>2, <3>3, OneVerdict DEF Promise!Ask
  <2>3. ASSUME NEW g \in Goroutines, NEW r \in pending, NEW s, NEW n,
               \/ s = "approved" /\ n = "accepted"
               \/ s = "denied" /\ n = "rejected"
               \/ s = "expired" /\ n = "missed",
               ~ Busy(g), g \in Requests => g = r,
               Decide(g, r, s, n), UNCHANGED <<stage, notifyVars>>
        PROVE  Promise!Next
    <3>1. /\ r \in Requests /\ Outcome(r) = "open" /\ Outcome(r)' = n
          /\ \A q \in Requests \ {r} : Outcome(q)' = Outcome(q)
      BY <1>2, <2>3, DecideInv
    <3>2. n \in News
      BY <2>3 DEF News
    <3>3. Promise!Answer(r)
      BY <2>3, <3>1, <3>2, OneVerdict DEF Promise!Answer
    <3> QED BY <3>1, <3>3 DEF Promise!Next
  <2>4. ASSUME NEW r \in Requests, NEW w \in Workers, NEW u \in Users,
               Accept(w, u, r) \/ Reject(w, u, r)
        PROVE  Promise!Next
    <3>1. w \in Goroutines /\ w \notin Requests /\ r \in pending /\ ~ Busy(w)
      BY <2>4 DEF Accept, Reject, Goroutines, Busy
    <3>2. CASE Accept(w, u, r)
      BY <2>3, <3>1, <3>2 DEF Accept
    <3>3. CASE Reject(w, u, r)
      BY <2>3, <3>1, <3>3 DEF Reject
    <3> QED BY <2>4, <3>2, <3>3
  <2>5. ASSUME NEW r \in Requests, NEW w \in Workers, NEW u \in Users, AcceptLate(w, u, r)
        PROVE  UNCHANGED Promise!vars
    <3>1. /\ r \in pending /\ UNCHANGED <<pending, calledBack, hooked>>
          /\ status[r] # "none" /\ status'[r] = "expired"
          /\ \A q \in Requests \ {r} : status'[q] = status[q]
      BY <1>2, <2>5 DEF AcceptLate, IInv, MapInv, TypeOK
    <3>2. Outcome(r) = "open" /\ Outcome(r)' = "open"
      BY <3>1 DEF Outcome
    <3> QED BY <3>1, <3>2, SameOutcome, Unseen
  <2>6. ASSUME NEW r \in Requests, WakeUp(r) PROVE [Promise!Next]_(Promise!vars)
    <3>1. CASE r \in pending
      BY <2>3, <2>6, <3>1 DEF WakeUp, Goroutines, Busy
    <3>2. CASE r \notin pending
      BY <2>6, <3>2, SameOutcome, Unseen DEF WakeUp
    <3> QED BY <3>1, <3>2
  <2>7. ASSUME NEW r \in Requests, HookMissed(r) PROVE [Promise!Next]_(Promise!vars)
    <3>1. hooked[r] = <<>> /\ Outcome(r) = news[r] /\ news[r] \in News
      BY <1>2, <2>7 DEF HookMissed, IInv, TellInv, BusyInv, Busy, Goroutines
    <3>2. /\ \A q \in Requests \ {r} : hooked'[q] = hooked[q]
          /\ UNCHANGED <<status, pending, calledBack>>
          /\ hooked' = hooked \/ hooked'[r] = <<news[r]>>
      BY <1>2, <2>7, <3>1, FirstTold DEF HookMissed, TypeOK
    <3>3. CASE hooked' = hooked
      BY <3>2, <3>3, SameOutcome, Unseen
    <3>4. CASE hooked'[r] = <<news[r]>>
      <4>1. hooked'[r] # <<>>
        BY <3>4, FirstTold
      <4>2. Promise!Tell(r, "webhook")
        BY <3>1, <3>2, <4>1, TellHook
      <4> QED BY <4>2 DEF Promise!Next, Promise!Channels
    <3> QED BY <3>2, <3>3, <3>4
  <2>8. ASSUME NEW p \in posting, Post(p) PROVE Promise!Next
    <3>1. p[1] \in Requests /\ hooked[p[1]] = <<>> /\ Outcome(p[1]) \in News
      BY <1>2 DEF IInv, TellInv, PostingInv
    <3>2. /\ \A q \in Requests \ {p[1]} : hooked'[q] = hooked[q]
          /\ UNCHANGED <<status, pending, calledBack>>
          /\ hooked'[p[1]] = <<p[2]>>
      BY <1>2, <2>8, <3>1, FirstTold DEF Post, TypeOK
    <3>3. hooked'[p[1]] # <<>>
      BY <3>2, FirstTold
    <3>4. Promise!Tell(p[1], "webhook")
      BY <3>1, <3>2, <3>3, TellHook
    <3> QED BY <3>1, <3>4 DEF Promise!Next, Promise!Channels
  <2>9. ASSUME NEW g \in Goroutines, RunCallback(g) PROVE [Promise!Next]_(Promise!vars)
    <3>1. PICK r \in Requests : /\ r = about[g]
                                /\ calledBack[r] = <<>> /\ Outcome(r) \in News
      BY <1>2, <2>9 DEF RunCallback, IInv, TellInv, BusyInv, Busy
    <3>2. /\ \A q \in Requests \ {r} : calledBack'[q] = calledBack[q]
          /\ UNCHANGED <<status, pending, hooked>>
          /\ calledBack' = calledBack \/ calledBack'[r] = <<news[g]>>
      BY <1>2, <2>9, <3>1, FirstTold DEF RunCallback, TypeOK
    <3>3. CASE calledBack' = calledBack
      BY <3>2, <3>3, SameOutcome, Unseen
    <3>4. CASE calledBack'[r] = <<news[g]>>
      <4>1. HeardOf(r)' = HeardOf(r) \cup {"callback"} /\ "callback" \notin HeardOf(r)
        BY <3>1, <3>2, <3>4, FirstTold DEF HeardOf
      <4>2. Promise!Tell(r, "callback")
        BY <3>1, <3>2, <4>1, OneTold DEF Promise!Tell
      <4> QED BY <3>1, <4>2 DEF Promise!Next, Promise!Channels
    <3> QED BY <3>2, <3>3, <3>4
  <2> QED BY <1>2, <2>1, <2>2, <2>4, <2>5, <2>6, <2>7, <2>8, <2>9, SeenChange
          DEF Promise!Next
<1>3. TypeOK /\ IInv /\ [Next]_vars => [Promise!Next]_(Promise!vars)
  <2>1. UNCHANGED vars => UNCHANGED Promise!vars
    BY SameOutcome, Unseen DEF vars
  <2> QED BY <1>2, <2>1
<1> QED BY <1>1, <1>3, Invariance, PTL DEF Spec, RefinesPromise, Promise!Spec
=============================================================================
