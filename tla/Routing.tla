------------------------------- MODULE Routing -------------------------------
(***************************************************************************)
(* The way of a user's message to a handler: ServiceSpaceClient and Router *)
(* of src/vault/internal/nats, and the handlers that Engine registers with *)
(* the router (src/vault/internal/handler/engine.go).                      *)
(*                                                                         *)
(* A user publishes on ServiceSpace.<service>.fromUser.<user>.<type>, where*)
(* the type may have several tokens.  Router.Start subscribes to all users *)
(* in a queue group: one of the instances gets the message.  Beside it a   *)
(* program may call SubscribeToUser, and each such subscription gets every *)
(* message of that user once more.  The handlers are the router's in both  *)
(* cases.  The JetStream stream of the same subjects has no consumer, so   *)
(* nothing it keeps is ever delivered, and it is left out.                 *)
(***************************************************************************)
EXTENDS Integers, Sequences

CONSTANTS Nodes,        \* vault processes
          Letters,      \* the messages users publish, each once
          Sender,       \* who published a message
          TypeTokens,   \* the tokens of its event type
          Form,         \* "sealed" for the service, "misaddressed", or "garbled"
          Members,      \* user identifiers
          Followed,     \* the single users that nodes subscribe to
          Registered    \* the event types, as tokens, that handlers register for

\* A subscription is a node and whom it listens to.
AllUsers      == "all users"
QueueGroup    == Nodes \X {AllUsers}
Subscriptions == QueueGroup \cup Followed

RoutingAssumption ==
  /\ Sender \in [Letters -> Members]
  /\ TypeTokens \in [Letters -> Seq(STRING) \ {<<>>}]
  /\ Form \in [Letters -> {"sealed", "misaddressed", "garbled"}]
  /\ Followed \subseteq Nodes \X Members /\ AllUsers \notin Members

VARIABLES joined,      \* subscriptions that have been made
          inbox,       \* messages waiting for a subscription
          inHand,      \* messages that a subscription's goroutine works on
          verdict,     \* what became of the last handling of a message
          handled,     \* how often a handler has been called with a message
          published,
          party        \* users with an active contract, as GetContractByUser sees it

routingVars == <<joined, inbox, inHand, verdict, handled, published, party>>

TypeOK ==
  /\ joined \subseteq Subscriptions
  /\ inbox \in [Subscriptions -> SUBSET Letters]
  /\ inHand \in [Subscriptions -> SUBSET Letters]
  /\ verdict \in [Letters -> {"none", "ack", "nak"}]
  /\ handled \in [Letters -> Nat]
  /\ published \subseteq Letters /\ party \subseteq Members

Init ==
  /\ joined = {} /\ published = {} /\ party \in SUBSET Members
  /\ inbox = [s \in Subscriptions |-> {}] /\ inHand = [s \in Subscriptions |-> {}]
  /\ verdict = [m \in Letters |-> "none"] /\ handled = [m \in Letters |-> 0]

\* Contracts are made and cancelled whenever their parties like, and the index that
\* is asked for them shows it some time later.
ChangeParty(u) ==
  /\ party' = IF u \in party THEN party \ {u} ELSE party \cup {u}
  /\ UNCHANGED <<joined, inbox, inHand, verdict, handled, published>>

\* Router.Start, which calls SubscribeToAllUsers.
SubscribeToAllUsers(n) ==
  /\ <<n, AllUsers>> \notin joined
  /\ joined' = joined \cup {<<n, AllUsers>>}
  /\ UNCHANGED <<inbox, inHand, verdict, handled, published, party>>

SubscribeToUser(n, u) ==
  /\ <<n, u>> \in Followed \ joined
  /\ joined' = joined \cup {<<n, u>>}
  /\ UNCHANGED <<inbox, inHand, verdict, handled, published, party>>

\* Close, or the end of the process: what has not been taken up is lost.
Quit(n) ==
  /\ \E s \in joined : s[1] = n
  /\ joined' = {s \in joined : s[1] # n}
  /\ inbox' = [s \in Subscriptions |-> IF s[1] = n THEN {} ELSE inbox[s]]
  /\ inHand' = [s \in Subscriptions |-> IF s[1] = n THEN {} ELSE inHand[s]]
  /\ UNCHANGED <<verdict, handled, published, party>>

Deliver(m, to) ==
  inbox' = [s \in Subscriptions |-> IF s \in to THEN inbox[s] \cup {m} ELSE inbox[s]]

\* One member of the queue group gets it, if there is one, and everyone who follows
\* its sender.
Publish(m) ==
  /\ m \notin published
  /\ published' = published \cup {m}
  /\ LET followers == {s \in joined : s[2] = Sender[m]}
     IN  \/ joined \cap QueueGroup = {} /\ Deliver(m, followers)
         \/ \E s \in joined \cap QueueGroup : Deliver(m, followers \cup {s})
  /\ UNCHANGED <<joined, inHand, verdict, handled, party>>

\* A subscription's goroutine takes one message at a time.
TakeUp(s, m) ==
  /\ m \in inbox[s] /\ inHand[s] = {}
  /\ inbox' = [inbox EXCEPT ![s] = @ \ {m}]
  /\ inHand' = [inHand EXCEPT ![s] = {m}]
  /\ UNCHANGED <<joined, verdict, handled, published, party>>

\* extractEventType: the part of the subject after its last dot.
EventType(m) == <<TypeTokens[m][Len(TypeTokens[m])]>>

\* Route finds the handler of that type, if there is one.
Routed(m) == Form[m] = "sealed" /\ EventType(m) \in Registered

\* handleMessage, Route and createMessageHandler: what cannot be read is
\* acknowledged; no handler, no contract and a handler's error are not.  Neither
\* means anything to core NATS: no message comes again.
Dispose(s, m) ==
  /\ inHand[s] = {m}
  /\ inHand' = [inHand EXCEPT ![s] = {}]
  /\ \/ /\ Form[m] # "sealed"
        /\ verdict' = [verdict EXCEPT ![m] = "ack"] /\ UNCHANGED handled
     \/ /\ Form[m] = "sealed" /\ (~Routed(m) \/ Sender[m] \notin party)
        /\ verdict' = [verdict EXCEPT ![m] = "nak"] /\ UNCHANGED handled
     \/ /\ Routed(m) /\ Sender[m] \in party
        /\ handled' = [handled EXCEPT ![m] = @ + 1]
        /\ \E v \in {"ack", "nak"} : verdict' = [verdict EXCEPT ![m] = v]
  /\ UNCHANGED <<joined, inbox, published, party>>

Next ==
  \/ \E n \in Nodes : \/ SubscribeToAllUsers(n) \/ Quit(n)
                      \/ \E u \in Members : SubscribeToUser(n, u)
  \/ \E s \in Subscriptions, m \in Letters : TakeUp(s, m) \/ Dispose(s, m)
  \/ \E m \in Letters : Publish(m)
  \/ \E u \in Members : ChangeParty(u)

Spec == Init /\ [][Next]_routingVars

-----------------------------------------------------------------------------
\* What nats/client.go:46 says of a message's type, `EventType is the type of event
\* (e.g., "auth.response", "authz.response")': a message of a registered type is
\* refused for want of a contract, never for want of a handler.
RegisteredTypeIsRouted ==
  \A m \in Letters :
    (Form[m] = "sealed" /\ TypeTokens[m] \in Registered /\ verdict[m] # "none") => Routed(m)
=============================================================================
