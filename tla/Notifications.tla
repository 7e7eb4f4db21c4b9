---------------------------- MODULE Notifications ----------------------------
(***************************************************************************)
(* Notifications: NotificationHandler of                                   *)
(* src/vault/internal/handler/notification.go.  Send sends a notification  *)
(* to the user's vault and only then puts it into the map `sent'; the      *)
(* user's vault acknowledges it as delivered and as read, in messages that *)
(* reach the service in any order, any number of times, and perhaps before *)
(* Send has got to the map.  Many goroutines send, and none of them knows  *)
(* how far the others have got.                                            *)
(***************************************************************************)
EXTENDS Integers, FiniteSets

CONSTANTS Readers,      \* user identifiers
          Notes,        \* notification identifiers
          Addressee,    \* UserID of a notification
          MayExpire,    \* notifications with an ExpiresAt
          MaxSent       \* maxHistory

NotificationsAssumption ==
  /\ IsFiniteSet(Notes)
  /\ Addressee \in [Notes -> Readers]
  /\ MayExpire \subseteq Notes
  /\ MaxSent \in Nat

VARIABLES noteStage,   \* how far Send has got
          noteStatus,  \* Status of a Notification
          born,        \* CreatedAt of a Notification
          sent,        \* notifications in the `sent' map
          overdue      \* notifications whose ExpiresAt has passed

vars == <<noteStage, noteStatus, born, sent, overdue>>

NoteStatuses == {"pending", "sent", "delivered", "read", "failed", "expired"}
AckStatuses  == {"delivered", "read", "seen"}   \* the last is not a known one

TypeOK ==
  /\ noteStage \in [Notes -> {"new", "refused", "created", "gone out", "stored", "failed"}]
  /\ noteStatus \in [Notes -> NoteStatuses]
  /\ born \in [Notes -> Nat]
  /\ sent \subseteq Notes /\ overdue \subseteq Notes

Init ==
  /\ noteStage = [n \in Notes |-> "new"]
  /\ noteStatus = [n \in Notes |-> "pending"]
  /\ born = [n \in Notes |-> 0]
  /\ sent = {} /\ overdue = {}

-----------------------------------------------------------------------------
\* The clock has gone on since the last notification was made, or has not.
Stamp(n) ==
  \E k \in Notes, t \in 0..1 :
    /\ \A j \in Notes : born[j] =< born[k]
    /\ born' = [born EXCEPT ![n] = born[k] + t]

\* FAULT: the notification is put into the map before it is sent, so that no
\* acknowledgement comes too early.
CreateInMap(n) ==
  /\ noteStage[n] = "new"
  /\ \/ /\ noteStage' = [noteStage EXCEPT ![n] = "created"]
        /\ Stamp(n)
        /\ sent' = sent \cup {n}
     \/ /\ noteStage' = [noteStage EXCEPT ![n] = "refused"]
        /\ UNCHANGED <<born, sent>>
  /\ UNCHANGED <<noteStatus, overdue>>

\* Send: the contract allows it, or nothing happens.
Create(n) ==
  /\ noteStage[n] = "new"
  /\ \/ /\ noteStage' = [noteStage EXCEPT ![n] = "created"]
        /\ Stamp(n)
     \/ /\ noteStage' = [noteStage EXCEPT ![n] = "refused"]
        /\ UNCHANGED born
  /\ UNCHANGED <<noteStatus, sent, overdue>>

\* A failed send is reported to the caller, and the notification is not kept.
SendToUser(n) ==
  /\ noteStage[n] = "created"
  /\ \/ /\ noteStage' = [noteStage EXCEPT ![n] = "gone out"]
        /\ UNCHANGED noteStatus
     \/ /\ noteStage' = [noteStage EXCEPT ![n] = "failed"]
        /\ noteStatus' = [noteStatus EXCEPT ![n] = "failed"]
  /\ UNCHANGED <<born, sent, overdue>>

Least(a, b) == IF a < b THEN a ELSE b

\* FAULT: the order of the sort is reversed, and the youngest are removed.
TrimmedYoungest(m) ==
  {k \in SUBSET m : /\ Cardinality(k) = Least(Cardinality(m), MaxSent)
                    /\ \A x \in k, y \in m \ k : born[x] =< born[y]}

\* What trimHistory may leave of the map m: the youngest; among equals the order of
\* the map decides.
Trimmed(m) ==
  {k \in SUBSET m : /\ Cardinality(k) = Least(Cardinality(m), MaxSent)
                    /\ \A x \in k, y \in m \ k : born[y] =< born[x]}

\* The status is set when the notification has gone out and is in nobody else's
\* hands yet; then it is put into the map, perhaps to be trimmed away at once.
Store(n) ==
  /\ noteStage[n] = "gone out"
  /\ noteStage' = [noteStage EXCEPT ![n] = "stored"]
  /\ noteStatus' = [noteStatus EXCEPT ![n] = "sent"]
  /\ sent' \in Trimmed(sent \cup {n})
  /\ UNCHANGED <<born, overdue>>

\* HandleRequest answers "ok" whatever it finds; only the addressee's word, of a
\* notification in the map, changes its status, and the last word counts.
Ack(u, n, s) ==
  /\ noteStage[n] \in {"gone out", "stored"}
  /\ noteStatus' = IF n \in sent /\ u = Addressee[n] /\ s \in {"delivered", "read"}
                   THEN [noteStatus EXCEPT ![n] = s] ELSE noteStatus
  /\ UNCHANGED <<noteStage, born, sent, overdue>>

Elapse(n) == /\ n \in MayExpire \ overdue
             /\ overdue' = overdue \cup {n}
             /\ UNCHANGED <<noteStage, noteStatus, born, sent>>

Cleanup ==
  /\ sent' = sent \ overdue
  /\ noteStatus' = [n \in Notes |-> IF n \in sent \cap overdue THEN "expired"
                                    ELSE noteStatus[n]]
  /\ UNCHANGED <<noteStage, born, overdue>>

-----------------------------------------------------------------------------
Next ==
  \/ Cleanup
  \/ \E n \in Notes :
       \/ Create(n) \/ SendToUser(n) \/ Store(n) \/ Elapse(n)
       \/ \E u \in Readers, s \in AckStatuses : Ack(u, n, s)

Spec == Init /\ [][Next]_vars

-----------------------------------------------------------------------------
\* What the user's vault has acknowledged is never taken for unacknowledged again.
\* The status that Send writes after sending could undo an acknowledgement that is
\* faster than Send, but only if the notification were in the map by then.
AcknowledgementStands ==
  [][\A n \in Notes : noteStatus[n] \in {"delivered", "read"} =>
       noteStatus'[n] \in {"delivered", "read", "expired"}]_vars

Stored == {n \in Notes : noteStage[n] = "stored"}

\* The history is bounded and loses nothing too early: a notification that was stored
\* is there until it has expired, or until as many others have been stored that are
\* not older, however the goroutines that send overtake one another and whatever the
\* clean-up removes in between.
HistoryKeepsYoungest ==
  /\ Cardinality(sent) =< MaxSent
  /\ \A n \in Stored \ (sent \cup overdue) :
       Cardinality({k \in Stored \ {n} : born[n] =< born[k]}) >= MaxSent
=============================================================================
