--------------------------- MODULE RequestPromise ---------------------------
(***************************************************************************)
(* What the four request handlers of the vault (auth, authz, data and      *)
(* secrets) promise to the backend that asked a user something: a request  *)
(* gets at most one verdict, the verdict never changes, and the backend is *)
(* told of it at most once through each of the two channels, the in-process *)
(* callback and the webhook.  Nothing is said of clocks, instances, locks  *)
(* or messages; RequestLifecycle implements this, and so do Calls and      *)
(* Payments.                                                               *)
(***************************************************************************)
CONSTANTS Requests,   \* request identifiers
          Verdicts    \* what a user may answer

VARIABLES verdict,    \* [Requests -> {"unasked", "open", "lapsed"} \cup Verdicts]
          heard       \* [Requests -> SUBSET Channels]

vars == <<verdict, heard>>

Channels == {"callback", "webhook"}

Init == /\ verdict = [r \in Requests |-> "unasked"]
        /\ heard   = [r \in Requests |-> {}]

Ask(r) == /\ verdict[r] = "unasked"
          /\ verdict' = [verdict EXCEPT ![r] = "open"]
          /\ UNCHANGED heard

Answer(r) == /\ verdict[r] = "open"
             /\ \E v \in Verdicts : verdict' = [verdict EXCEPT ![r] = v]
             /\ UNCHANGED heard

\* Nobody answered in time: the request is never answered afterwards.
Lapse(r) == /\ verdict[r] = "open"
            /\ verdict' = [verdict EXCEPT ![r] = "lapsed"]
            /\ UNCHANGED heard

Tell(r, c) == /\ verdict[r] \in Verdicts
              /\ c \notin heard[r]
              /\ heard' = [heard EXCEPT ![r] = @ \cup {c}]
              /\ UNCHANGED verdict

Next == \E r \in Requests : \/ Ask(r) \/ Answer(r) \/ Lapse(r)
                            \/ \E c \in Channels : Tell(r, c)

Spec == Init /\ [][Next]_vars
=============================================================================
