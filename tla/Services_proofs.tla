-------------------------- MODULE Services_proofs ---------------------------
(***************************************************************************)
(* The parts of the service vault keep their promises side by side, for    *)
(* every value of the constants.  The theorems of Payments, Dispatcher,    *)
(* StartUp and RateLimiter are in modules of their own; those of           *)
(* Notifications, Routing and RestApi are proved here.                     *)
(***************************************************************************)
EXTENDS Services, FiniteSetTheorems, TLAPS

-----------------------------------------------------------------------------
(* Notifications.                                                          *)

\* The sets of Notifications are counted as all sets are.
LEMMA Counting == \A S : /\ Ntf!IsFiniteSet(S) <=> IsFiniteSet(S)
                         /\ Ntf!Cardinality(S) = Cardinality(S)
BY DEF Ntf!IsFiniteSet, Ntf!Cardinality, IsFiniteSet, Cardinality

LEMMA FiniteNotes ==
  ASSUME Ntf!NotificationsAssumption PROVE IsFiniteSet(Notes) /\ MaxSent \in Nat
BY Counting DEF Ntf!NotificationsAssumption

\* Notifications that were stored and are not older than n.
NotOlder(n) == {k \in Ntf!Stored \ {n} : born[n] =< born[k]}

History == /\ Cardinality(sent) =< MaxSent
           /\ \A n \in Ntf!Stored \ (sent \cup overdue) : Cardinality(NotOlder(n)) >= MaxSent

LEMMA HistoryIsKept == /\ Ntf!HistoryKeepsYoungest <=> History
                       /\ Ntf!HistoryKeepsYoungest' <=> History'
BY Counting DEF Ntf!HistoryKeepsYoungest, History, NotOlder

\* What has not been stored yet is not in the map, and nobody has acknowledged it.
NtfInv ==
  /\ Ntf!TypeOK
  /\ sent \subseteq Ntf!Stored
  /\ \A n \in Notes \ Ntf!Stored : noteStatus[n] \notin {"delivered", "read"}
  /\ History

LEMMA NtfInitially == ASSUME Ntf!NotificationsAssumption PROVE Ntf!Init => NtfInv
<1>1. ASSUME Ntf!Init PROVE Ntf!TypeOK
  BY <1>1 DEF Ntf!NotificationsAssumption, Ntf!Init, Ntf!TypeOK, Ntf!NoteStatuses
<1>2. ASSUME Ntf!Init PROVE sent = {} /\ Ntf!Stored = {}
  BY <1>2 DEF Ntf!Init, Ntf!Stored
<1>3. ASSUME Ntf!Init PROVE History
  <2>1. Cardinality({}) = 0
    BY FS_EmptySet
  <2>2. QED BY <1>2, <1>3, <2>1 DEF Ntf!NotificationsAssumption, History
<1>4. QED BY <1>1, <1>2, <1>3 DEF Ntf!Init, NtfInv

\* A clock reading that is not before any other.
LEMMA Stamps ==
  ASSUME Ntf!TypeOK, NEW n \in Notes, Ntf!Stamp(n)
  PROVE  /\ born' \in [Notes -> Nat]
         /\ \A k \in Notes : k # n => born'[k] = born[k]
<1>1. PICK k \in Notes, t \in 0..1 : born' = [born EXCEPT ![n] = born[k] + t]
  BY DEF Ntf!Stamp
<1>2. born \in [Notes -> Nat]
  BY DEF Ntf!TypeOK
<1>3. born[k] + t \in Nat
  <2>1. born[k] \in Nat /\ t \in Nat
    BY <1>2
  <2>2. QED BY <2>1
<1>4. QED BY <1>1, <1>2, <1>3

\* What is stored stays stored, and its CreatedAt does not change, so that what was
\* stored and is not older than n does not get less.
LEMMA NotOlderGrows ==
  ASSUME Ntf!NotificationsAssumption, NEW n \in Ntf!Stored, Ntf!Stored \subseteq Ntf!Stored',
         \A k \in Ntf!Stored : born'[k] = born[k],
         Cardinality(NotOlder(n)) >= MaxSent
  PROVE  Cardinality(NotOlder(n)') >= MaxSent
<1>1. NotOlder(n) \subseteq NotOlder(n)' /\ NotOlder(n)' \subseteq Notes
  BY DEF NotOlder, Ntf!Stored
<1>2. IsFiniteSet(NotOlder(n)')
  BY <1>1, FiniteNotes, FS_Subset
<1>3. Cardinality(NotOlder(n)) =< Cardinality(NotOlder(n)')
  BY <1>1, <1>2, FS_Subset
<1>4. IsFiniteSet(NotOlder(n))
  BY <1>1, <1>2, FS_Subset
<1>5. MaxSent \in Nat /\ Cardinality(NotOlder(n)) \in Nat /\ Cardinality(NotOlder(n)') \in Nat
  BY <1>2, <1>4, FiniteNotes, FS_CardinalityType
<1>6. QED BY <1>3, <1>5

\* Steps that put nothing into the map, and take out of it only what has expired, keep
\* the history.
LEMMA HistoryKeeps ==
  ASSUME Ntf!NotificationsAssumption, NtfInv, Ntf!Stored' = Ntf!Stored,
         \A k \in Ntf!Stored : born'[k] = born[k],
         sent' \subseteq sent, overdue \subseteq overdue', sent \ sent' \subseteq overdue
  PROVE  History'
<1>1. Cardinality(sent') =< MaxSent
  <2>1. IsFiniteSet(sent)
    BY FiniteNotes, FS_Subset DEF NtfInv, Ntf!TypeOK
  <2>2. IsFiniteSet(sent') /\ Cardinality(sent') =< Cardinality(sent)
    BY <2>1, FS_Subset
  <2>3. Cardinality(sent) \in Nat /\ Cardinality(sent') \in Nat /\ MaxSent \in Nat
    BY <2>1, <2>2, FiniteNotes, FS_CardinalityType
  <2>4. QED BY <2>2, <2>3 DEF NtfInv, History
<1>2. ASSUME NEW n \in Ntf!Stored' \ (sent' \cup overdue')
      PROVE  Cardinality(NotOlder(n)') >= MaxSent
  <2>1. n \in Ntf!Stored \ (sent \cup overdue)
    BY <1>2
  <2>2. Cardinality(NotOlder(n)) >= MaxSent
    BY <2>1 DEF NtfInv, History
  <2>3. QED BY <2>1, <2>2, NotOlderGrows
<1>3. QED BY <1>1, <1>2 DEF History

\* Steps of Send before the map, and the passing of time.
LEMMA NtfSendKeeps ==
  ASSUME Ntf!NotificationsAssumption, NtfInv, NEW n \in Notes,
         Ntf!Create(n) \/ Ntf!SendToUser(n) \/ Ntf!Elapse(n)
  PROVE  NtfInv'
<1>1. /\ noteStage' \in [Notes -> {"new", "refused", "created", "gone out", "stored", "failed"}]
      /\ Ntf!Stored' = Ntf!Stored
  <2>1. noteStage \in [Notes -> {"new", "refused", "created", "gone out", "stored", "failed"}]
    BY DEF NtfInv, Ntf!TypeOK
  <2>2. \/ noteStage' = noteStage
        \/ /\ noteStage[n] # "stored"
           /\ \E s \in {"refused", "created", "gone out", "failed"} :
                noteStage' = [noteStage EXCEPT ![n] = s]
    BY DEF Ntf!Create, Ntf!SendToUser, Ntf!Elapse
  <2>3. QED BY <2>1, <2>2 DEF Ntf!Stored
<1>2. born' \in [Notes -> Nat] /\ \A k \in Notes : k # n => born'[k] = born[k]
  <2>1. CASE born' = born
    BY <2>1 DEF NtfInv, Ntf!TypeOK
  <2>2. CASE Ntf!Stamp(n)
    BY <2>2, Stamps DEF NtfInv
  <2>3. QED BY <2>1, <2>2 DEF Ntf!Create, Ntf!SendToUser, Ntf!Elapse
<1>3. n \in Ntf!Stored => born' = born
  BY DEF Ntf!Stored, Ntf!Create, Ntf!SendToUser, Ntf!Elapse
<1>4. /\ noteStatus' \in [Notes -> Ntf!NoteStatuses]
      /\ \A k \in Notes : noteStatus'[k] \in {noteStatus[k], "failed"}
  <2>1. noteStatus \in [Notes -> Ntf!NoteStatuses] /\ "failed" \in Ntf!NoteStatuses
    BY DEF NtfInv, Ntf!TypeOK, Ntf!NoteStatuses
  <2>2. \/ noteStatus' = noteStatus
        \/ noteStatus' = [noteStatus EXCEPT ![n] = "failed"]
    BY DEF Ntf!Create, Ntf!SendToUser, Ntf!Elapse
  <2>3. QED BY <2>1, <2>2
<1>5. /\ sent' = sent /\ overdue \subseteq overdue'
      /\ sent' \subseteq Notes /\ overdue' \subseteq Notes
  BY DEF NtfInv, Ntf!TypeOK, Ntf!NotificationsAssumption, Ntf!Create, Ntf!SendToUser,
         Ntf!Elapse
<1>6. Ntf!TypeOK'
  BY <1>1, <1>2, <1>4, <1>5 DEF Ntf!TypeOK, Ntf!NoteStatuses
<1>7. \A k \in Ntf!Stored : born'[k] = born[k]
  BY <1>2, <1>3 DEF Ntf!Stored
<1>8. History'
  BY <1>1, <1>5, <1>7, HistoryKeeps
<1>9. QED BY <1>1, <1>4, <1>5, <1>6, <1>8 DEF NtfInv

LEMMA NtfCleanupKeeps ==
  ASSUME Ntf!NotificationsAssumption, NtfInv, Ntf!Cleanup PROVE NtfInv'
<1>1. Ntf!TypeOK'
  BY DEF NtfInv, Ntf!TypeOK, Ntf!NoteStatuses, Ntf!Cleanup
<1>2. /\ sent' \subseteq sent /\ sent \ sent' \subseteq overdue /\ overdue' = overdue
      /\ born' = born /\ Ntf!Stored' = Ntf!Stored
      /\ \A k \in Notes : noteStatus'[k] \in {noteStatus[k], "expired"}
  BY DEF Ntf!Cleanup, Ntf!Stored
<1>3. History'
  BY <1>2, HistoryKeeps
<1>4. QED BY <1>1, <1>2, <1>3 DEF NtfInv

\* Only what is in the map, and so has been stored, is acknowledged.
LEMMA NtfAckKeeps ==
  ASSUME Ntf!NotificationsAssumption, NtfInv, NEW u \in Readers, NEW n \in Notes,
         NEW s \in Ntf!AckStatuses, Ntf!Ack(u, n, s)
  PROVE  NtfInv'
<1>1. Ntf!TypeOK'
  BY DEF NtfInv, Ntf!TypeOK, Ntf!NoteStatuses, Ntf!Ack
<1>2. /\ sent' = sent /\ overdue' = overdue /\ born' = born /\ Ntf!Stored' = Ntf!Stored
      /\ \A k \in Notes \ sent : noteStatus'[k] = noteStatus[k]
  BY DEF NtfInv, Ntf!TypeOK, Ntf!Ack, Ntf!Stored
<1>3. History'
  BY <1>2, HistoryKeeps
<1>4. QED BY <1>1, <1>2, <1>3 DEF NtfInv

\* When the map overflows, what it loses leaves MaxSent behind that are not older.
LEMMA TrimmedIsOlder ==
  ASSUME Ntf!NotificationsAssumption, NEW m \in SUBSET Notes, NEW keep \in Ntf!Trimmed(m)
  PROVE  /\ keep \subseteq m /\ Cardinality(keep) =< MaxSent
         /\ \A n \in m \ keep :
              Cardinality(keep) >= MaxSent /\ \A k \in keep : born[n] =< born[k]
<1>1. IsFiniteSet(m)
  BY FiniteNotes, FS_Subset
<1>2. /\ keep \subseteq m /\ Cardinality(keep) = Ntf!Least(Cardinality(m), MaxSent)
      /\ \A x \in keep, y \in m \ keep : born[y] =< born[x]
  BY Counting DEF Ntf!Trimmed
<1>3. IsFiniteSet(keep) /\ (Cardinality(m) = Cardinality(keep) => m = keep)
  BY <1>1, <1>2, FS_Subset
<1>4. Cardinality(m) \in Nat /\ Cardinality(keep) \in Nat /\ MaxSent \in Nat
  BY <1>1, <1>3, FiniteNotes, FS_CardinalityType
<1>5. Cardinality(keep) =< MaxSent
  BY <1>2, <1>4 DEF Ntf!Least
<1>6. m # keep => Cardinality(keep) >= MaxSent
  BY <1>2, <1>3, <1>4 DEF Ntf!Least
<1>7. QED BY <1>2, <1>5, <1>6

\* Into the map goes a notification that nobody has acknowledged, and out of it go the
\* oldest.
LEMMA NtfStoreKeeps ==
  ASSUME Ntf!NotificationsAssumption, NtfInv, NEW n \in Notes, Ntf!Store(n) PROVE NtfInv'
<1> DEFINE m == sent \cup {n}
<1>1. /\ noteStage[n] = "gone out" /\ sent' \in Ntf!Trimmed(m)
      /\ noteStage' = [noteStage EXCEPT ![n] = "stored"]
      /\ noteStatus' = [noteStatus EXCEPT ![n] = "sent"]
      /\ born' = born /\ overdue' = overdue
  BY DEF Ntf!Store
<1>2. m \subseteq Notes /\ Ntf!Stored' = Ntf!Stored \cup {n} /\ n \notin Ntf!Stored
  BY <1>1 DEF NtfInv, Ntf!TypeOK, Ntf!Stored
<1> HIDE DEF m
<1>3. /\ sent' \subseteq m /\ Cardinality(sent') =< MaxSent
      /\ \A k \in m \ sent' :
           Cardinality(sent') >= MaxSent /\ \A j \in sent' : born[k] =< born[j]
  BY <1>1, <1>2, TrimmedIsOlder
<1>4. Ntf!TypeOK'
  BY <1>1, <1>2, <1>3 DEF NtfInv, Ntf!TypeOK, Ntf!NoteStatuses
<1>5. ASSUME NEW k \in Ntf!Stored' \ (sent' \cup overdue')
      PROVE  Cardinality(NotOlder(k)') >= MaxSent
  <2>1. CASE k \in m
    <3>1. /\ sent' \subseteq NotOlder(k)' /\ NotOlder(k)' \subseteq Notes
      BY <1>1, <1>2, <1>3, <1>5, <2>1 DEF NotOlder, NtfInv, Ntf!Stored, m
    <3>2. IsFiniteSet(NotOlder(k)')
      BY <3>1, FiniteNotes, FS_Subset
    <3>3. IsFiniteSet(sent') /\ Cardinality(sent') =< Cardinality(NotOlder(k)')
      BY <3>1, <3>2, FS_Subset
    <3>4. Cardinality(sent') \in Nat /\ Cardinality(NotOlder(k)') \in Nat /\ MaxSent \in Nat
      BY <3>2, <3>3, FiniteNotes, FS_CardinalityType
    <3>5. Cardinality(sent') >= MaxSent
      BY <1>3, <1>5, <2>1
    <3>6. QED BY <3>3, <3>4, <3>5
  <2>2. CASE k \notin m
    <3>1. k \in Ntf!Stored \ (sent \cup overdue)
      BY <1>1, <1>2, <1>5, <2>2 DEF m
    <3>2. Cardinality(NotOlder(k)) >= MaxSent
      BY <3>1 DEF NtfInv, History
    <3>3. QED BY <1>1, <1>2, <3>1, <3>2, NotOlderGrows
  <2>3. QED BY <2>1, <2>2
<1>6. History'
  BY <1>3, <1>5 DEF History
<1>7. sent' \subseteq Ntf!Stored'
  BY <1>2, <1>3 DEF NtfInv, m
<1>8. \A k \in Notes \ Ntf!Stored' : noteStatus'[k] \notin {"delivered", "read"}
  BY <1>1, <1>2 DEF NtfInv, Ntf!TypeOK
<1>9. QED BY <1>4, <1>6, <1>7, <1>8 DEF NtfInv

LEMMA NtfStepKeeps ==
  ASSUME Ntf!NotificationsAssumption, NtfInv, [Ntf!Next]_Ntf!vars PROVE NtfInv'
<1>1. CASE Ntf!Next
  BY <1>1, NtfSendKeeps, NtfCleanupKeeps, NtfAckKeeps, NtfStoreKeeps DEF Ntf!Next
<1>2. CASE UNCHANGED Ntf!vars
  <2>1. Ntf!TypeOK' /\ Ntf!Stored' = Ntf!Stored
    BY <1>2 DEF Ntf!vars, NtfInv, Ntf!TypeOK, Ntf!Stored
  <2>2. History'
    BY <1>2, <2>1, HistoryKeeps DEF Ntf!vars
  <2>3. QED BY <1>2, <2>1, <2>2 DEF Ntf!vars, NtfInv
<1>3. QED BY <1>1, <1>2

\* The inductive invariant of the notifications.
THEOREM NotificationsInvariance ==
  ASSUME Ntf!NotificationsAssumption PROVE Ntf!Spec => []NtfInv
<1>1. Ntf!Init => NtfInv BY NtfInitially
<1>2. NtfInv /\ [Ntf!Next]_Ntf!vars => NtfInv' BY NtfStepKeeps
<1>3. QED BY <1>1, <1>2, PTL DEF Ntf!Spec

\* What has been acknowledged was in the map, and so Send has done with it.
THEOREM AcknowledgementsStand ==
  ASSUME Ntf!NotificationsAssumption PROVE Ntf!Spec => Ntf!AcknowledgementStands
<1> DEFINE Stands == \A n \in Notes : noteStatus[n] \in {"delivered", "read"} =>
                       noteStatus'[n] \in {"delivered", "read", "expired"}
<1>1. ASSUME NtfInv, [Ntf!Next]_Ntf!vars PROVE [Stands]_Ntf!vars
  <2>1. CASE UNCHANGED noteStatus
    BY <2>1
  <2>2. ASSUME NEW n \in Notes, Ntf!SendToUser(n) \/ Ntf!Store(n) PROVE Stands
    <3>1. /\ noteStatus[n] \notin {"delivered", "read"}
          /\ \A k \in Notes : k # n => noteStatus'[k] = noteStatus[k]
      BY <1>1, <2>2 DEF NtfInv, Ntf!TypeOK, Ntf!Stored, Ntf!SendToUser, Ntf!Store
    <3>2. QED BY <3>1
  <2>3. ASSUME NEW n \in Notes, NEW u \in Readers, NEW s \in Ntf!AckStatuses, Ntf!Ack(u, n, s)
        PROVE  Stands
    BY <1>1, <2>3 DEF NtfInv, Ntf!TypeOK, Ntf!Ack
  <2>4. CASE Ntf!Cleanup
    BY <2>4 DEF Ntf!Cleanup
  <2>5. ASSUME NEW n \in Notes, Ntf!Create(n) \/ Ntf!Elapse(n) PROVE noteStatus' = noteStatus
    BY <2>5 DEF Ntf!Create, Ntf!Elapse
  <2> HIDE DEF Stands
  <2>6. CASE Ntf!Next
    BY <2>1, <2>2, <2>3, <2>4, <2>5, <2>6 DEF Ntf!Next
  <2>7. QED BY <1>1, <2>6
<1>2. QED BY <1>1, NotificationsInvariance, PTL DEF Ntf!Spec, Ntf!AcknowledgementStands

\* The history is bounded, and what is trimmed away has had its successors.
THEOREM YoungestAreKept ==
  ASSUME Ntf!NotificationsAssumption PROVE Ntf!Spec => []Ntf!HistoryKeepsYoungest
<1>1. NtfInv => Ntf!HistoryKeepsYoungest BY HistoryIsKept DEF NtfInv
<1>2. QED BY <1>1, NotificationsInvariance, PTL

-----------------------------------------------------------------------------
(* Routing.                                                                *)

LEMMA RtStepKeeps ==
  ASSUME Rt!RoutingAssumption, Rt!TypeOK, [Rt!Next]_Rt!routingVars PROVE Rt!TypeOK'
<1>1. ASSUME NEW n \in Nodes, Rt!SubscribeToAllUsers(n) \/ Rt!Quit(n) PROVE Rt!TypeOK'
  BY <1>1 DEF Rt!TypeOK, Rt!Subscriptions, Rt!QueueGroup, Rt!SubscribeToAllUsers, Rt!Quit
<1>2. ASSUME NEW n \in Nodes, NEW u \in Members, Rt!SubscribeToUser(n, u) PROVE Rt!TypeOK'
  BY <1>2 DEF Rt!TypeOK, Rt!Subscriptions, Rt!SubscribeToUser
<1>3. ASSUME NEW m \in Letters, Rt!Publish(m) PROVE Rt!TypeOK'
  BY <1>3 DEF Rt!TypeOK, Rt!Publish, Rt!Deliver
<1>4. ASSUME NEW s \in Rt!Subscriptions, NEW m \in Letters, Rt!TakeUp(s, m) PROVE Rt!TypeOK'
  BY <1>4 DEF Rt!TypeOK, Rt!TakeUp
<1>5. ASSUME NEW s \in Rt!Subscriptions, NEW m \in Letters, Rt!Dispose(s, m) PROVE Rt!TypeOK'
  <2>1. /\ handled' \in [Letters -> Nat]
        /\ verdict' \in [Letters -> {"none", "ack", "nak"}]
    BY <1>5 DEF Rt!TypeOK, Rt!Dispose
  <2>2. QED BY <1>5, <2>1 DEF Rt!TypeOK, Rt!Dispose
<1>6. ASSUME NEW u \in Members, Rt!ChangeParty(u) PROVE Rt!TypeOK'
  BY <1>6 DEF Rt!TypeOK, Rt!ChangeParty
<1>7. CASE UNCHANGED Rt!routingVars
  BY <1>7 DEF Rt!routingVars, Rt!TypeOK
<1>8. QED BY <1>1, <1>2, <1>3, <1>4, <1>5, <1>6, <1>7 DEF Rt!Next

\* The types of the routing's state.
THEOREM RoutingTypes == ASSUME Rt!RoutingAssumption PROVE Rt!Spec => []Rt!TypeOK
<1>1. Rt!Init => Rt!TypeOK
  BY DEF Rt!Init, Rt!TypeOK
<1>2. Rt!TypeOK /\ [Rt!Next]_Rt!routingVars => Rt!TypeOK' BY RtStepKeeps
<1>3. QED BY <1>1, <1>2, PTL DEF Rt!Spec

\* What decides whether handlers hear of anything is how many tokens the types have that
\* they register for, since EventType has one.  With one token each, whatever is of a
\* registered type is routed.
THEOREM OneTokenIsRouted ==
  ASSUME Rt!RoutingAssumption, \A t \in Registered \cap Seq(STRING) : Len(t) = 1
  PROVE  Rt!RegisteredTypeIsRouted
<1>1. SUFFICES ASSUME NEW m \in Letters, Form[m] = "sealed", TypeTokens[m] \in Registered
               PROVE  Rt!Routed(m)
  BY DEF Rt!RegisteredTypeIsRouted
<1>2. TypeTokens[m] \in Seq(STRING) /\ Len(TypeTokens[m]) = 1
  BY <1>1 DEF Rt!RoutingAssumption
<1>3. Rt!EventType(m) = TypeTokens[m]
  BY <1>2 DEF Rt!EventType
<1>4. QED BY <1>1, <1>3 DEF Rt!Routed

\* With two or more, as all handlers of the vault register, no handler is ever called.
THEOREM TwoTokensAreDeaf ==
  ASSUME Rt!RoutingAssumption, \A t \in Registered : t \in Seq(STRING) /\ Len(t) > 1
  PROVE  Rt!Spec => [](\A m \in Letters : handled[m] = 0)
<1> DEFINE Unheard == \A m \in Letters : handled[m] = 0
<1>1. \A m \in Letters : ~Rt!Routed(m)
  <2>1. SUFFICES ASSUME NEW m \in Letters, Rt!EventType(m) \in Registered PROVE FALSE
    BY DEF Rt!Routed
  <2>2. Len(Rt!EventType(m)) > 1
    BY <2>1
  <2>3. Len(Rt!EventType(m)) = 1
    BY DEF Rt!EventType
  <2>4. QED BY <2>2, <2>3
<1>2. Rt!Init => Unheard
  BY DEF Rt!Init
<1>3. Unheard /\ [Rt!Next]_Rt!routingVars => Unheard'
  <2>1. SUFFICES ASSUME Unheard, [Rt!Next]_Rt!routingVars PROVE handled' = handled
    OBVIOUS
  <2>2. ASSUME NEW s \in Rt!Subscriptions, NEW m \in Letters, Rt!Dispose(s, m)
        PROVE  handled' = handled
    BY <1>1, <2>2 DEF Rt!Dispose
  <2>3. QED
    BY <2>1, <2>2 DEF Rt!Next, Rt!SubscribeToAllUsers, Rt!SubscribeToUser, Rt!Quit, Rt!TakeUp,
                      Rt!Publish, Rt!ChangeParty, Rt!routingVars
<1>4. QED BY <1>2, <1>3, PTL DEF Rt!Spec

-----------------------------------------------------------------------------
(* RestApi.                                                                *)

\* What every route of setupRoutes has: its status when all went well is a success,
\* the others are refusals.
RouteSound(route) ==
  /\ route.kind \in {"create", "act", "read", "new", "list"}
  /\ route.ok \in {200, 201, 202}
  /\ route.absent \in {404, 500} /\ route.lacks \in {403, 500}

LEMMA CreateSound ==
  ASSUME NEW p, NEW fields, NEW grant, NEW lacks \in {403, 500}, NEW ok \in {201, 202}
  PROVE  RouteSound(Api!Create(p, fields, grant, lacks, ok))
BY DEF RouteSound, Api!Create

LEMMA OnObjectSound ==
  ASSUME NEW k \in {"act", "read", "new", "list"}, NEW p, NEW fields, NEW absent \in {404, 500}
  PROVE  RouteSound(Api!OnObject(k, p, fields, absent))
BY DEF RouteSound, Api!OnObject

\* A contract that is not there is answered 500.
LEMMA CancelIsNotAbsent == Api!cancelContract.absent # 404
BY DEF Api!cancelContract, Api!OnObject

LEMMA RoutesAreSound ==
  ASSUME Api!RestApiAssumption, NEW r \in Requests PROVE RouteSound(RouteOf[r])
<1>1. /\ RouteSound(Api!handleAuthRequest) /\ RouteSound(Api!handleAuthzRequest)
      /\ RouteSound(Api!handleCallInitiate) /\ RouteSound(Api!handlePaymentRequest)
      /\ RouteSound(Api!handleSecretStore) /\ RouteSound(Api!handleSecretRetrieve)
      /\ RouteSound(Api!handleSecretDelete) /\ RouteSound(Api!handleSecretsList)
      /\ RouteSound(Api!handleSecretUpdate)
  BY CreateSound
     DEF Api!handleAuthRequest, Api!handleAuthzRequest, Api!handleCallInitiate,
         Api!handlePaymentRequest, Api!handleSecretStore, Api!handleSecretRetrieve,
         Api!handleSecretDelete, Api!handleSecretsList, Api!handleSecretUpdate
<1>2. /\ RouteSound(Api!getAuthRequest) /\ RouteSound(Api!getAuthzRequest)
      /\ RouteSound(Api!listContracts) /\ RouteSound(Api!getContract)
      /\ RouteSound(Api!generateInvite) /\ RouteSound(Api!cancelContract)
      /\ RouteSound(Api!handleCallEnd) /\ RouteSound(Api!getCallStatus)
      /\ RouteSound(Api!getPaymentRequest) /\ RouteSound(Api!handlePaymentComplete)
      /\ RouteSound(Api!handlePaymentFail) /\ RouteSound(Api!handlePaymentRefund)
      /\ RouteSound(Api!getServiceInfo)
  BY OnObjectSound
     DEF Api!getAuthRequest, Api!getAuthzRequest, Api!listContracts, Api!getContract,
         Api!generateInvite, Api!cancelContract, Api!handleCallEnd, Api!getCallStatus,
         Api!getPaymentRequest, Api!handlePaymentComplete, Api!handlePaymentFail,
         Api!handlePaymentRefund, Api!getServiceInfo
<1>3. RouteOf[r] \in Api!setupRoutes
  BY DEF Api!RestApiAssumption
<1>4. QED BY <1>1, <1>2, <1>3 DEF Api!setupRoutes

\* What the reply says of a request that has been answered.
Told(r) ==
  /\ r \in effect => \/ reply[r] < 300
                     \/ reply[r] = 500 /\ RouteOf[r].part = "negotiator"
                     \/ reply[r] = 404 /\ RouteOf[r] = Api!cancelContract
  /\ reply[r] = 404 /\ RouteOf[r] = Api!cancelContract => r \in effect
  /\ reply[r] \in 200..299 /\ RouteOf[r].kind \in {"create", "act", "new"} => r \in effect
  /\ r \in effect /\ RouteOf[r].kind = "create" => RouteOf[r].grant \in saw[r]

\* A request has no effect before the step that answers it, which follows the check
\* of the capability; from then on nothing changes.
RequestSound(r) ==
  /\ at[r] # "answered" => r \notin effect /\ reply[r] = 0
  /\ at[r] = "allowed" => RouteOf[r].kind = "create" /\ RouteOf[r].grant \in saw[r]
  /\ at[r] = "answered" => Told(r)

ApiInv == Api!TypeOK /\ \A r \in Requests : RequestSound(r)

LEMMA ApiInitially == ASSUME Api!RestApiAssumption PROVE Api!Init => ApiInv
BY DEF Api!RestApiAssumption, Api!Init, Api!TypeOK, ApiInv, RequestSound

\* A change of the contract leaves every request as it is, also one that has been
\* allowed under it.
LEMMA ContractKeeps ==
  ASSUME Api!RestApiAssumption, ApiInv, NEW u \in Clients, Api!ChangeContract(u)
  PROVE  ApiInv'
<1>1. Api!TypeOK'
  <2>1. granted' \in [Clients -> (SUBSET Api!Capabilities) \cup {Api!NoContract}]
    BY DEF ApiInv, Api!TypeOK, Api!ChangeContract
  <2>2. QED BY <2>1 DEF Api!RestApiAssumption, ApiInv, Api!TypeOK, Api!ChangeContract
<1>2. QED BY <1>1 DEF ApiInv, RequestSound, Told, Api!ChangeContract

\* A step with one request leaves the others as they are.
LEMMA OneRequest ==
  ASSUME ApiInv, NEW q \in Requests, Api!TypeOK', RequestSound(q)',
         \A r \in Requests \ {q} : /\ at'[r] = at[r] /\ reply'[r] = reply[r]
                                  /\ (r \in effect') = (r \in effect)
                                  /\ saw'[r] = saw[r]
  PROVE  ApiInv'
<1>1. ASSUME NEW r \in Requests, r # q PROVE RequestSound(r)'
  BY <1>1 DEF ApiInv, RequestSound, Told
<1>2. QED BY <1>1 DEF ApiInv

\* The checks before the handler: rate limit, key, route and fields.
LEMMA ChecksKeep ==
  ASSUME ApiInv, NEW q \in Requests,
         Api!RateLimit(q) \/ Api!apiKeyAuth(q) \/ Api!Validate(q)
  PROVE  ApiInv'
<1>1. PICK s \in {"limited", "authenticated", "valid", "answered"},
           c \in {0, 429, 401, 503, 400} :
        /\ at[q] \in {"new", "limited", "authenticated"}
        /\ at' = [at EXCEPT ![q] = s]
        /\ reply' = [reply EXCEPT ![q] = c] /\ (s # "answered" => c = 0)
        /\ UNCHANGED <<effect, granted, saw, changes>>
  BY DEF ApiInv, Api!TypeOK, RequestSound, Api!RateLimit, Api!apiKeyAuth, Api!Validate,
         Api!Pass, Api!Reply
<1>2. Api!TypeOK'
  BY <1>1 DEF ApiInv, Api!TypeOK
<1>3. RequestSound(q)'
  <2>1. q \notin effect' /\ at'[q] # "allowed" /\ at'[q] = s /\ reply'[q] = c
    BY <1>1 DEF ApiInv, Api!TypeOK, RequestSound
  <2>2. reply'[q] \notin 200..299
    BY <2>1
  <2>3. at'[q] # "answered" => reply'[q] = 0
    BY <1>1, <2>1
  <2>4. QED BY <2>1, <2>2, <2>3 DEF RequestSound, Told
<1>4. QED BY <1>1, <1>2, <1>3, OneRequest DEF ApiInv, Api!TypeOK

\* The contract is looked at before anything is done.
LEMMA AllowedKeeps ==
  ASSUME Api!RestApiAssumption, ApiInv, NEW q \in Requests, Api!Allowed(q)
  PROVE  ApiInv'
<1>1. RouteSound(RouteOf[q])
  BY RoutesAreSound
<1>2. /\ saw' = [saw EXCEPT ![q] = granted[Client[q]]] \/ saw' = saw
      /\ effect' = effect /\ granted' = granted /\ changes' = changes
      /\ RouteOf[q].kind = "create" /\ q \notin effect /\ reply[q] = 0
  BY DEF ApiInv, RequestSound, Api!Allowed
<1>3. PICK s \in {"allowed", "answered"}, c \in {0, 403, 500} :
        /\ at' = [at EXCEPT ![q] = s]
        /\ reply' = [reply EXCEPT ![q] = c]
        /\ s = "allowed" => c = 0 /\ RouteOf[q].grant \in saw'[q]
  BY <1>1, <1>2 DEF RouteSound, ApiInv, Api!TypeOK, Api!Allowed, Api!Pass, Api!Reply
<1>4. saw' \in [Requests -> (SUBSET Api!Capabilities) \cup {Api!NoContract}]
  BY <1>2 DEF Api!RestApiAssumption, ApiInv, Api!TypeOK
<1>5. Api!TypeOK'
  <2>1. /\ at' \in [Requests -> {"new", "limited", "authenticated", "valid", "allowed",
                                "answered"}]
        /\ reply' \in [Requests -> {0, 200, 201, 202, 400, 401, 403, 404, 429, 500, 503}]
    BY <1>3 DEF ApiInv, Api!TypeOK
  <2>2. QED BY <1>2, <1>4, <2>1 DEF ApiInv, Api!TypeOK
<1>6. RequestSound(q)'
  <2>1. at'[q] = s /\ reply'[q] = c /\ q \notin effect'
    BY <1>2, <1>3 DEF ApiInv, Api!TypeOK
  <2>2. reply'[q] \notin 200..299
    BY <2>1
  <2>3. QED BY <1>2, <1>3, <2>1, <2>2 DEF RequestSound, Told
<1>7. QED BY <1>2, <1>3, <1>5, <1>6, OneRequest DEF ApiInv, Api!TypeOK

\* What is allowed is done and confirmed.
LEMMA MakeKeeps ==
  ASSUME Api!RestApiAssumption, ApiInv, NEW q \in Requests, Api!Make(q) PROVE ApiInv'
<1>1. RouteOf[q].ok \in {200, 201, 202}
  BY RoutesAreSound DEF RouteSound
<1>2. /\ effect' = effect \cup {q} /\ saw' = saw /\ granted' = granted
      /\ at' = [at EXCEPT ![q] = "answered"] /\ changes' = changes
      /\ reply' = [reply EXCEPT ![q] = RouteOf[q].ok]
      /\ RouteOf[q].grant \in saw[q]
  BY DEF ApiInv, RequestSound, Api!Make, Api!Reply
<1>3. Api!TypeOK'
  BY <1>1, <1>2 DEF ApiInv, Api!TypeOK
<1>4. RequestSound(q)'
  <2>1. at'[q] = "answered" /\ reply'[q] < 300 /\ q \in effect'
    BY <1>1, <1>2 DEF ApiInv, Api!TypeOK
  <2>2. QED BY <1>2, <2>1 DEF RequestSound, Told
<1>5. QED BY <1>2, <1>3, <1>4, OneRequest DEF ApiInv, Api!TypeOK

\* Only a confirmed act, or a write of the negotiator that may have failed, is done.
LEMMA ServeKeeps ==
  ASSUME Api!RestApiAssumption, ApiInv, NEW q \in Requests, Api!Serve(q) PROVE ApiInv'
<1>1. RouteSound(RouteOf[q])
  BY RoutesAreSound
<1>2. /\ at[q] = "valid" /\ q \notin effect /\ RouteOf[q].kind # "create"
      /\ saw' = saw /\ granted' = granted /\ changes' = changes
  BY DEF ApiInv, RequestSound, Api!Serve
<1>3. PICK c \in {RouteOf[q].absent, 404, 500, RouteOf[q].ok} :
        /\ at' = [at EXCEPT ![q] = "answered"]
        /\ reply' = [reply EXCEPT ![q] = c]
        /\ \/ effect' = effect
           \/ effect' = effect \cup {q}
        /\ q \in effect' => \/ c = 500 /\ RouteOf[q].part = "negotiator"
                            \/ c = 404 /\ RouteOf[q] = Api!cancelContract
                            \/ c = RouteOf[q].ok
        /\ c = 404 => c = RouteOf[q].absent \/ q \in effect'
        /\ c < 300 /\ RouteOf[q].kind \in {"act", "new"} => q \in effect'
  BY <1>1, <1>2 DEF RouteSound, Api!Serve, Api!Reply
<1>4. c \in {404, 500, 200, 201, 202}
  BY <1>1 DEF RouteSound
<1>5. Api!TypeOK'
  BY <1>2, <1>3, <1>4 DEF ApiInv, Api!TypeOK
<1>6. RequestSound(q)'
  <2>1. at'[q] = "answered" /\ reply'[q] = c
    BY <1>3 DEF ApiInv, Api!TypeOK
  <2>2. reply'[q] \in 200..299 => c < 300
    BY <2>1
  <2>3. c = RouteOf[q].ok => reply'[q] < 300
    BY <1>1, <2>1 DEF RouteSound
  <2>4. c = 404 /\ RouteOf[q] = Api!cancelContract => q \in effect'
    BY <1>3, CancelIsNotAbsent
  <2>5. QED BY <1>2, <1>3, <2>1, <2>2, <2>3, <2>4 DEF RequestSound, Told
<1>7. QED BY <1>2, <1>3, <1>5, <1>6, OneRequest DEF ApiInv, Api!TypeOK

LEMMA ApiStepKeeps ==
  ASSUME Api!RestApiAssumption, ApiInv, [Api!Next]_Api!restVars PROVE ApiInv'
<1>1. CASE Api!Next
  BY <1>1, ContractKeeps, ChecksKeep, AllowedKeeps, MakeKeeps, ServeKeeps DEF Api!Next
<1>2. CASE UNCHANGED Api!restVars
  BY <1>2 DEF Api!restVars, ApiInv, Api!TypeOK, RequestSound, Told
<1>3. QED BY <1>1, <1>2

\* The inductive invariant of the REST API.
THEOREM RestApiInvariance == ASSUME Api!RestApiAssumption PROVE Api!Spec => []ApiInv
<1>1. Api!Init => ApiInv BY ApiInitially
<1>2. ApiInv /\ [Api!Next]_Api!restVars => ApiInv' BY ApiStepKeeps
<1>3. QED BY <1>1, <1>2, PTL DEF Api!Spec

\* The status of the reply tells what was done, whatever happens to the contract.
THEOREM RepliesAreTrue == ASSUME Api!RestApiAssumption PROVE Api!Spec => []Api!StatusTellsEffect
<1>1. ASSUME ApiInv PROVE Api!StatusTellsEffect
  <2>1. \A r \in Requests : at[r] = "answered" => Told(r)
    BY <1>1 DEF ApiInv, RequestSound
  <2>2. \A r \in Requests : at[r] # "answered" => r \notin effect /\ reply[r] = 0
    BY <1>1 DEF ApiInv, RequestSound
  <2>3. ASSUME NEW r \in Requests, at[r] # "answered"
        PROVE  r \notin effect /\ reply[r] # 404 /\ reply[r] \notin 200..299
    BY <2>2, <2>3
  <2>4. QED BY <2>1, <2>3 DEF Told, Api!StatusTellsEffect
<1>2. QED BY <1>1, RestApiInvariance, PTL

-----------------------------------------------------------------------------
(* The parts side by side.                                                 *)

\* A step of the process is a step of every part, or leaves it as it is.
LEMMA StepOfEach ==
  ASSUME [Next]_vars
  PROVE  /\ [Pay!Next]_Pay!vars /\ [Ntf!Next]_Ntf!vars /\ [Dsp!Next]_Dsp!vars
         /\ [Start!Next]_Start!vars /\ [Lim!Next]_Lim!limiterVars
         /\ [Rt!Next]_Rt!routingVars /\ [Api!Next]_Api!restVars
<1>1. /\ Pay!Next \/ UNCHANGED payVars
      /\ Ntf!Next \/ UNCHANGED noteVars
      /\ Dsp!Next \/ UNCHANGED dispatchVars
      /\ Start!Next \/ UNCHANGED startVars
      /\ Lim!Next \/ UNCHANGED limiterVars
      /\ Rt!Next \/ UNCHANGED routingVars
      /\ Api!Next \/ UNCHANGED restVars
  BY DEF Next, vars, PaymentStep, NoteStep, DispatchStep, StartStep, LimiterStep, RoutingStep,
         RestStep
<1>2. QED
  BY <1>1
     DEF payVars, noteVars, dispatchVars, startVars, limiterVars, routingVars, restVars,
         Pay!vars, Pay!requestVars, Pay!paymentVars, Pay!tellVars, Pay!settlerVars, Ntf!vars,
         Dsp!vars, Start!vars, Start!keyVars, Start!mainVars, Lim!limiterVars,
         Rt!routingVars, Api!restVars

\* The process does what each of its parts is specified to do.
THEOREM EachPartRuns ==
  Spec => /\ Pay!Spec /\ Ntf!Spec /\ Dsp!Spec /\ Start!Spec /\ Lim!Spec /\ Rt!Spec
          /\ Api!Spec
<1>1. Init => /\ Pay!Init /\ Ntf!Init /\ Dsp!Init /\ Start!Init /\ Lim!Init /\ Rt!Init
              /\ Api!Init
  BY DEF Init
<1>2. [Next]_vars => /\ [Pay!Next]_Pay!vars /\ [Ntf!Next]_Ntf!vars /\ [Dsp!Next]_Dsp!vars
                     /\ [Start!Next]_Start!vars /\ [Lim!Next]_Lim!limiterVars
                     /\ [Rt!Next]_Rt!routingVars /\ [Api!Next]_Api!restVars
  BY StepOfEach
<1>3. QED
  BY <1>1, <1>2, PTL
     DEF Spec, Pay!Spec, Ntf!Spec, Dsp!Spec, Start!Spec, Lim!Spec, Rt!Spec, Api!Spec

\* The types of all parts.
THEOREM TypeCorrect == Spec => []TypeOK
<1>1. NtfInv => Ntf!TypeOK BY DEF NtfInv
<1>2. ApiInv => Api!TypeOK BY DEF ApiInv
<1>3. /\ Pay!Spec => []Pay!TypeOK
      /\ Ntf!Spec => []NtfInv
      /\ Dsp!Spec => []Dsp!TypeOK
      /\ Start!Spec => []Start!TypeOK
      /\ Lim!Spec => []Lim!TypeOK
      /\ Rt!Spec => []Rt!TypeOK
      /\ Api!Spec => []ApiInv
  BY Pay!TypeCorrect, NotificationsInvariance, Dsp!TypeCorrect, Start!TypeCorrect,
     Lim!TypeCorrect, RoutingTypes, RestApiInvariance, ServicesAssumption
     DEF ServicesAssumption
<1>4. QED BY <1>1, <1>2, <1>3, EachPartRuns, PTL DEF TypeOK

\* Payments: the user is told only what happened to a payment, and is told it once it has.
THEOREM TrueNotices == Spec => []NoticesAreTrue
<1>1. Pay!Spec => []Pay!NoticesAreTrue
  BY Pay!TrueNotices, ServicesAssumption DEF ServicesAssumption
<1>2. QED BY <1>1, EachPartRuns, PTL DEF NoticesAreTrue

\* Payments: money is taken and given back only when it is due.
THEOREM DueMoney == Spec => MoneyIsDue
<1>1. Pay!Spec => Pay!MoneyIsDue
  BY Pay!DueMoney, ServicesAssumption DEF ServicesAssumption
<1>2. QED BY <1>1, EachPartRuns DEF MoneyIsDue

\* Payments: the payment handler implements RequestPromise.
THEOREM PaymentsKeepPromise == Spec => PaymentsPromise
<1>1. Pay!Spec => Pay!RefinesPromise
  BY Pay!KeepsThePromise, ServicesAssumption DEF ServicesAssumption
<1>2. QED BY <1>1, EachPartRuns DEF PaymentsPromise

\* Notifications: an acknowledgement is not undone.
THEOREM StandingAcknowledgements == Spec => AcknowledgementStands
<1>1. Ntf!Spec => Ntf!AcknowledgementStands
  BY AcknowledgementsStand, ServicesAssumption DEF ServicesAssumption
<1>2. QED BY <1>1, EachPartRuns DEF AcknowledgementStands

\* Notifications: the history is bounded and keeps the youngest.
THEOREM YoungHistory == Spec => []HistoryKeepsYoungest
<1>1. Ntf!Spec => []Ntf!HistoryKeepsYoungest
  BY YoungestAreKept, ServicesAssumption DEF ServicesAssumption
<1>2. QED BY <1>1, EachPartRuns, PTL DEF HistoryKeepsYoungest

\* Dispatcher: a status says what the attempts have earned.
THEOREM EarnedOutcomes == Spec => []OutcomeIsEarned
<1>1. Dsp!Spec => []Dsp!OutcomeIsEarned
  BY Dsp!EarnedOutcomes, ServicesAssumption DEF ServicesAssumption
<1>2. QED BY <1>1, EachPartRuns, PTL DEF OutcomeIsEarned

\* Dispatcher: after Stop no worker delivers.
THEOREM QuietAfterStop == Spec => []StopIsQuiet
<1>1. Dsp!Spec => []Dsp!StopIsQuiet
  BY Dsp!QuietAfterStop, ServicesAssumption DEF ServicesAssumption
<1>2. QED BY <1>1, EachPartRuns, PTL DEF StopIsQuiet

\* StartUp: with the file keystore the service has one identity for good.
THEOREM OneIdentity == Spec => []IdentityIsKept
<1>1. Start!Spec => []Start!IdentityIsKept
  BY Start!OneIdentity, ServicesAssumption DEF ServicesAssumption
<1>2. QED BY <1>1, EachPartRuns, PTL DEF IdentityIsKept

\* RateLimiter: a burst and the refill bound what a client is granted.
THEOREM BoundedGrants == Spec => []GrantsAreBounded
<1>1. Lim!Spec => []Lim!GrantsAreBounded
  BY Lim!BoundedGrants, ServicesAssumption DEF ServicesAssumption
<1>2. QED BY <1>1, EachPartRuns, PTL DEF GrantsAreBounded

\* RestApi: the status of the reply tells what was done.
THEOREM TruthfulReplies == Spec => []StatusTellsEffect
<1>1. Api!Spec => []Api!StatusTellsEffect
  BY RepliesAreTrue, ServicesAssumption DEF ServicesAssumption
<1>2. QED BY <1>1, EachPartRuns, PTL DEF StatusTellsEffect
=============================================================================
