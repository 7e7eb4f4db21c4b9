---------------------------- MODULE Negotiation ----------------------------
(***************************************************************************)
(* Contracts and their amendments: the Negotiator of                       *)
(* src/vault/internal/contract over the contracts table (DynamoDBStore)    *)
(* and the keystore.  Every operation of the Negotiator is a sequence of   *)
(* calls, each atomic on its own and the whole not: a contract is read,    *)
(* its copy is judged and changed in memory, and the copy is written back  *)
(* whole, without a version check.  Reads are eventually consistent: they  *)
(* may return what was stored before the last write.  Callers run          *)
(* operations concurrently, and an operation may end after any of its      *)
(* calls: the store returns an error, or the process dies.                 *)
(*                                                                         *)
(* What a contract grants (offering, snapshot, expiry) is the set of       *)
(* amendments that have had their effect on it; what a signature covers is *)
(* the connection key and the terms at the time of signing, which is what  *)
(* of ToUnsigned these operations can change: all but the expiry.          *)
(***************************************************************************)
EXTENDS Naturals, FiniteSets

CONSTANTS Contracts,    \* contract identifiers, chosen by users
          Amendments,   \* amendment identifiers, random and never reused
          Replacing,    \* amendments of type upgrade or downgrade
          Extending,    \* amendments of type extend
          Replicas,     \* replicas of the contracts table that may be behind it
          Callers,      \* goroutines that run operations of the Negotiator
          Owner,        \* UserID of a contract
          CreatedAt,    \* CreatedAt of a contract, as its user wrote it
          MaxKeys,      \* bound on the connection keys generated
          NoContract, NoAmendment

Keys  == 1..MaxKeys
NoKey == 0

ASSUME NegotiationAssumption ==
  /\ Replacing \subseteq Amendments
  /\ Extending \subseteq Amendments \ Replacing
  /\ CreatedAt \in [Contracts -> Nat]
  /\ MaxKeys \in Nat

ContractStatuses  == {"pending", "active", "cancelled"}
\* "gone": deleted by the time to live of the table.
AmendmentStatuses == {"pending", "rejected", "applied", "expired", "gone"}

\* What a signature on a contract covers; NoSignature is a nil pointer.
Signed        == [key : Keys \cup {NoKey}, terms : SUBSET Amendments]
NoSignature   == [key |-> NoKey, terms |-> {}, nil |-> TRUE]
Contract      == [status : ContractStatuses, key : Keys, terms : SUBSET Amendments,
                  userSignature : Signed, serviceSignature : Signed \cup {NoSignature}]
Amendment     == [contract : Contracts, status : AmendmentStatuses]
ASSUME NothingAssumption ==
  NoContract \notin Contract /\ NoAmendment \notin Amendment \cup Amendments

VARIABLES table,       \* [Contracts -> Contract or NoContract], the stored contracts
          replica,     \* [Replicas -> table as a replica of it has it]
          amendments,  \* [Amendments -> Amendment or NoAmendment], the stored amendments
          keystore,    \* [Contracts -> Keys or NoKey], connection keys by contract ID
          elapsed,     \* amendments whose ExpiresAt has passed
          pc, on,      \* what a caller does next, and with which contract
          amending,    \* the amendment it is about
          copy,        \* its copy of the contract
          outcome,     \* the status its amendment is to get
          nextKey,
          agreed,      \* history: amendments their user has signed
          keyDropped,  \* history: contracts whose key a reject or cancel deleted
          keyLeft,     \* history: contracts whose key it failed to delete
          disturbed    \* history: contracts on which operations overlapped, broke off
                       \* or read what was out of date

contractTable == <<table, replica>>
stored  == <<contractTable, amendments, keystore>>
callers == <<pc, on, amending, copy, outcome>>
history == <<agreed, keyDropped, keyLeft, disturbed>>
unasked == <<agreed, keyDropped, keyLeft>>
vars    == <<stored, elapsed, callers, nextKey, history>>

Steps == {"idle", "storeKey", "saveContract", "deleteKey", "updateContract",
          "saveAmendment", "getContract", "updateAmendment"}

TypeOK ==
  /\ table \in [Contracts -> Contract \cup {NoContract}]
  /\ replica \in [Replicas -> [Contracts -> Contract \cup {NoContract}]]
  /\ amendments \in [Amendments -> Amendment \cup {NoAmendment}]
  /\ keystore \in [Contracts -> Keys \cup {NoKey}]
  /\ elapsed \subseteq Amendments
  /\ pc \in [Callers -> Steps]
  /\ on \in [Callers -> Contracts \cup {NoContract}]
  /\ amending \in [Callers -> Amendments \cup {NoAmendment}]
  /\ copy \in [Callers -> Contract \cup {NoContract}]
  /\ outcome \in [Callers -> AmendmentStatuses]
  /\ nextKey \in 1..(MaxKeys + 1)
  /\ agreed \subseteq Amendments
  /\ keyDropped \subseteq Contracts /\ keyLeft \subseteq Contracts
  /\ disturbed \subseteq Contracts

Init ==
  /\ table = [c \in Contracts |-> NoContract]
  /\ replica = [r \in Replicas |-> table]
  /\ amendments = [a \in Amendments |-> NoAmendment]
  /\ keystore = [c \in Contracts |-> NoKey]
  /\ elapsed = {}
  /\ pc = [p \in Callers |-> "idle"]
  /\ on = [p \in Callers |-> NoContract]
  /\ amending = [p \in Callers |-> NoAmendment]
  /\ copy = [p \in Callers |-> NoContract]
  /\ outcome = [p \in Callers |-> "pending"]
  /\ nextKey = 1
  /\ agreed = {} /\ keyDropped = {} /\ keyLeft = {} /\ disturbed = {}

-----------------------------------------------------------------------------
(* The contracts table is replicated: a write is in force at once, and a    *)
(* replica has it some time later.  GetContract's GetItem does not ask for  *)
(* a consistent read and may be answered by any replica.  If the row it     *)
(* gets is no contract yet, the operation ends before it has begun.         *)

CatchUp(r, c) ==
  /\ replica[r][c] # table[c]
  /\ replica' = [replica EXCEPT ![r][c] = table[c]]
  /\ UNCHANGED <<table, amendments, keystore, elapsed, callers, nextKey, history>>

Readable(c) == {table[c]} \cup {replica[r][c] : r \in Replicas}

ReadableAs(c, statuses) ==
  {ct \in Readable(c) \ {NoContract} : ct.status \in statuses}

-----------------------------------------------------------------------------
(* How an operation starts, goes on and ends.                              *)

Busy(c) == \E p \in Callers : pc[p] # "idle" /\ on[p] = c

\* Caller p, so far idle, starts an operation on c with the copy ct in hand, after
\* a read that was out of date or not.
Begin(p, c, ct, step, outOfDate) ==
  /\ pc[p] = "idle"
  /\ pc' = [pc EXCEPT ![p] = step]
  /\ on' = [on EXCEPT ![p] = c]
  /\ copy' = [copy EXCEPT ![p] = ct]
  /\ disturbed' = IF Busy(c) \/ outOfDate THEN disturbed \cup {c} ELSE disturbed

Return(p) ==
  /\ pc' = [pc EXCEPT ![p] = "idle"]
  /\ on' = [on EXCEPT ![p] = NoContract]
  /\ amending' = [amending EXCEPT ![p] = NoAmendment]
  /\ copy' = [copy EXCEPT ![p] = NoContract]
  /\ outcome' = [outcome EXCEPT ![p] = "pending"]

GoTo(p, step) == /\ pc' = [pc EXCEPT ![p] = step]
                 /\ UNCHANGED <<on, amending, copy, outcome>>

\* The next call fails, or the process dies before it.
BreakOff(p) ==
  /\ pc[p] # "idle"
  /\ Return(p)
  /\ disturbed' = disturbed \cup {on[p]}
  /\ UNCHANGED <<stored, elapsed, nextKey, unasked>>

Elapse(a) ==
  /\ a \notin elapsed /\ amendments[a] # NoAmendment
  /\ elapsed' = elapsed \cup {a}
  /\ UNCHANGED <<stored, callers, nextKey, history>>

\* The table deletes an amendment some time after it expired, unless it was
\* applied or rejected.
TimeToLive(a) ==
  /\ a \in elapsed
  /\ amendments[a].status \in {"pending", "expired"}
  /\ amendments' = [amendments EXCEPT ![a].status = "gone"]
  /\ UNCHANGED <<contractTable, keystore, elapsed, callers, nextKey, history>>

-----------------------------------------------------------------------------
(* HandleContractSubmission: what the user signed has no connection key of *)
(* the service, which is generated after the signature was verified.       *)

Submission(k) == [status |-> "pending", key |-> k, terms |-> {},
                  userSignature |-> [key |-> NoKey, terms |-> {}],
                  serviceSignature |-> NoSignature]

\* FAULT: the contract is saved first and the key stored after it.
SubmitSaveFirst(p, c) ==
  /\ nextKey \in Keys
  /\ Begin(p, c, Submission(nextKey), "saveContract", FALSE)
  /\ nextKey' = nextKey + 1
  /\ UNCHANGED <<stored, elapsed, amending, outcome, unasked>>

Submit(p, c) ==
  /\ nextKey \in Keys
  /\ Begin(p, c, Submission(nextKey), "storeKey", FALSE)
  /\ nextKey' = nextKey + 1
  /\ UNCHANGED <<stored, elapsed, amending, outcome, unasked>>

\* keystore.StoreEncryptionKey: ErrKeyExists ends the submission.
StoreEncryptionKey(p) ==
  /\ pc[p] = "storeKey"
  /\ IF keystore[on[p]] = NoKey
     THEN /\ keystore' = [keystore EXCEPT ![on[p]] = copy[p].key]
          /\ GoTo(p, "saveContract")
     ELSE Return(p) /\ UNCHANGED keystore
  /\ UNCHANGED <<contractTable, amendments, elapsed, nextKey, history>>

\* FAULT: PutItem without the condition that the contract is new.
SaveContractAnyway(p) ==
  /\ pc[p] = "saveContract"
  /\ table' = [table EXCEPT ![on[p]] = copy[p]]
  /\ Return(p)
  /\ UNCHANGED <<replica, amendments, keystore, elapsed, nextKey, history>>

\* PutItem on condition that the contract is new; the key stays stored if not.
SaveContract(p) ==
  /\ pc[p] = "saveContract"
  /\ table' = IF table[on[p]] = NoContract THEN [table EXCEPT ![on[p]] = copy[p]]
                                           ELSE table
  /\ Return(p)
  /\ UNCHANGED <<replica, amendments, keystore, elapsed, nextKey, history>>

-----------------------------------------------------------------------------
(* AcceptContract, RejectContract, CancelContract: GetContract, a check of *)
(* the status that was read, and a change to the copy.                     *)

HasStatus(c, s) == table[c] # NoContract /\ table[c].status = s

\* FAULT: the copy becomes active without the counter-signature.
ActivatedOnly(ct) == [ct EXCEPT !.status = "active"]

\* ToUnsigned: the offering's snapshot and the key, but not the expiry.
ToUnsigned(ct) == [key |-> ct.key, terms |-> ct.terms \ Extending]

Countersigned(ct) ==
  [ct EXCEPT !.status = "active", !.serviceSignature = ToUnsigned(ct)]

\* FAULT: the status that was read is not looked at.
AcceptAny(p, c) ==
  /\ \E ct \in ReadableAs(c, ContractStatuses) :
       Begin(p, c, Countersigned(ct), "updateContract", ct # table[c])
  /\ UNCHANGED <<stored, elapsed, amending, outcome, nextKey, unasked>>

Accept(p, c) ==
  /\ \E ct \in ReadableAs(c, {"pending"}) :
       Begin(p, c, Countersigned(ct), "updateContract", ct # table[c])
  /\ UNCHANGED <<stored, elapsed, amending, outcome, nextKey, unasked>>

Cancelled(ct) == [ct EXCEPT !.status = "cancelled"]

\* FAULT: the contract is cancelled and its connection key left in the keystore.
RejectOrCancelKeepKey(p, c) ==
  /\ \E ct \in ReadableAs(c, {"pending", "active"}) :
       Begin(p, c, Cancelled(ct), "updateContract", ct # table[c])
  /\ UNCHANGED <<stored, elapsed, amending, outcome, nextKey, unasked>>

\* A pending contract is rejected, an active one is cancelled; the rest is the same.
RejectOrCancel(p, c) ==
  /\ \E ct \in ReadableAs(c, {"pending", "active"}) :
       Begin(p, c, Cancelled(ct), "deleteKey", ct # table[c])
  /\ UNCHANGED <<stored, elapsed, amending, outcome, nextKey, unasked>>

\* keystore.DeleteKey; its error is ignored, and the key may then be there still.
DeleteKey(p) ==
  /\ pc[p] = "deleteKey"
  /\ \/ /\ keystore' = [keystore EXCEPT ![on[p]] = NoKey]
        /\ keyDropped' = keyDropped \cup {on[p]}
        /\ UNCHANGED <<keyLeft, disturbed>>
     \/ /\ keyLeft' = keyLeft \cup {on[p]}
        /\ disturbed' = disturbed \cup {on[p]}
        /\ UNCHANGED <<keystore, keyDropped>>
  /\ GoTo(p, "updateContract")
  /\ UNCHANGED <<contractTable, amendments, elapsed, nextKey, agreed>>

\* PutItem of the whole copy, on condition that the contract exists.
UpdateContract(p) ==
  /\ pc[p] = "updateContract"
  /\ table' = [table EXCEPT ![on[p]] = copy[p]]
  /\ IF amending[p] = NoAmendment
     THEN Return(p)
     ELSE /\ pc' = [pc EXCEPT ![p] = "updateAmendment"]
          /\ copy' = [copy EXCEPT ![p] = NoContract]
          /\ UNCHANGED <<on, amending, outcome>>
  /\ UNCHANGED <<replica, amendments, keystore, elapsed, nextKey, history>>

-----------------------------------------------------------------------------
(* ProposeAmendment, HandleAmendmentResponse, ApplyAmendment.              *)

Propose(p, c, a) ==
  /\ amendments[a] = NoAmendment /\ \A q \in Callers : amending[q] # a
  /\ \E ct \in ReadableAs(c, {"active"}) :
       Begin(p, c, NoContract, "saveAmendment", ct # table[c])
  /\ amending' = [amending EXCEPT ![p] = a]
  /\ UNCHANGED <<stored, elapsed, outcome, nextKey, unasked>>

SaveAmendment(p) ==
  /\ pc[p] = "saveAmendment"
  /\ amendments' = [amendments EXCEPT ![amending[p]] =
                      [contract |-> on[p], status |-> "pending"]]
  /\ Return(p)
  /\ UNCHANGED <<contractTable, keystore, elapsed, nextKey, history>>

\* GetAmendment, the check of its status, then of its expiry.  This read may be out
\* of date too: an amendment that was saved can always be read as pending.
Respond(p, a) ==
  /\ amendments[a] # NoAmendment
  /\ amending' = [amending EXCEPT ![p] = a]
  /\ IF a \in elapsed
     THEN /\ outcome' = [outcome EXCEPT ![p] = "expired"]
          /\ Begin(p, amendments[a].contract, NoContract, "updateAmendment",
                   amendments[a].status # "pending")
          /\ UNCHANGED agreed
     ELSE \E signs \in BOOLEAN :
            /\ outcome' = [outcome EXCEPT ![p] = IF signs THEN "applied" ELSE "rejected"]
            /\ agreed' = IF signs THEN agreed \cup {a} ELSE agreed
            /\ Begin(p, amendments[a].contract, NoContract, "getContract",
                     amendments[a].status # "pending")
  /\ UNCHANGED <<stored, elapsed, nextKey, keyDropped, keyLeft>>

\* ApplyAmendment's switch: an upgrade or downgrade replaces the whole offering,
\* not the expiry.
Amended(ct, a) ==
  [ct EXCEPT !.terms = {a} \cup (IF a \in Replacing THEN @ \cap Extending ELSE @)]

\* FAULT: a refusal by the user is taken for an approval.
GetContractAndApply(p) ==
  /\ pc[p] = "getContract"
  /\ pc' = [pc EXCEPT ![p] = "updateContract"]
  /\ \E ct \in ReadableAs(on[p], ContractStatuses) :
       /\ copy' = [copy EXCEPT ![p] = Amended(ct, amending[p])]
       /\ disturbed' = IF ct = table[on[p]] THEN disturbed ELSE disturbed \cup {on[p]}
  /\ UNCHANGED <<on, amending, outcome, stored, elapsed, nextKey, unasked>>

\* GetContract: whichever version is read, its status is not looked at.  If none
\* is found, if the new offering is unknown or the signature does not verify, the
\* answer ends here.
GetContract(p) ==
  /\ pc[p] = "getContract"
  /\ \/ /\ outcome[p] = "rejected"
        /\ GoTo(p, "updateAmendment")
        /\ UNCHANGED disturbed
     \/ \E ct \in ReadableAs(on[p], ContractStatuses) :
          /\ outcome[p] = "applied"
          /\ pc' = [pc EXCEPT ![p] = "updateContract"]
          /\ copy' = [copy EXCEPT ![p] = Amended(ct, amending[p])]
          /\ disturbed' = IF ct = table[on[p]] THEN disturbed ELSE disturbed \cup {on[p]}
          /\ UNCHANGED <<on, amending, outcome>>
     \/ Return(p) /\ UNCHANGED disturbed
  /\ UNCHANGED <<stored, elapsed, nextKey, unasked>>

\* FAULT: ApplyAmendment does not set the status it stores to applied.
UpdateAmendmentAsApproved(p) ==
  /\ pc[p] = "updateAmendment"
  /\ amendments' = [amendments EXCEPT ![amending[p]].status =
                      IF outcome[p] = "applied" THEN "approved" ELSE outcome[p]]
  /\ Return(p)
  /\ UNCHANGED <<contractTable, keystore, elapsed, nextKey, history>>

\* PutItem of the amendment, on condition that it is still there.
UpdateAmendment(p) ==
  /\ pc[p] = "updateAmendment"
  /\ amendments' = IF amendments[amending[p]].status = "gone" THEN amendments
                   ELSE [amendments EXCEPT ![amending[p]].status = outcome[p]]
  /\ Return(p)
  /\ UNCHANGED <<contractTable, keystore, elapsed, nextKey, history>>

-----------------------------------------------------------------------------
(* What other components ask of the table.                                 *)

\* GetContractByUser: the index is queried newest first with a limit of one, and
\* the filter on the status is applied to that one.  The index lags behind the table
\* as well; here it is up to date, which is when the answer should be right.
GetContractByUser(u) ==
  {c \in Contracts : /\ Owner[c] = u /\ HasStatus(c, "active")
                     /\ \A d \in Contracts : (Owner[d] = u /\ table[d] # NoContract)
                                               => CreatedAt[d] =< CreatedAt[c]}

\* VerifyContract: both signatures are checked against the contract as it is.
VerifyContract(ct) ==
  /\ ct.userSignature = ToUnsigned(ct)
  /\ ct.status = "active" => ct.serviceSignature = ToUnsigned(ct)

-----------------------------------------------------------------------------
Next ==
  \/ \E p \in Callers :
       \/ \E c \in Contracts :
            \/ Submit(p, c) \/ Accept(p, c) \/ RejectOrCancel(p, c)
            \/ \E a \in Amendments : Propose(p, c, a)
       \/ \E a \in Amendments : Respond(p, a)
       \/ StoreEncryptionKey(p) \/ SaveContract(p) \/ DeleteKey(p)
       \/ UpdateContract(p) \/ SaveAmendment(p) \/ GetContract(p)
       \/ UpdateAmendment(p) \/ BreakOff(p)
  \/ \E a \in Amendments : Elapse(a) \/ TimeToLive(a)
  \/ \E r \in Replicas, c \in Contracts : CatchUp(r, c)

Spec == Init /\ [][Next]_vars

-----------------------------------------------------------------------------
(* What holds however operations overlap, break off and read late.         *)

\* The connection key and the user's signature of a stored contract never
\* change, not even when the same identifier is submitted again.
SubmissionIsFixed ==
  [][\A c \in Contracts : table[c] # NoContract =>
       /\ table'[c] # NoContract
       /\ table'[c].key = table[c].key
       /\ table'[c].userSignature = table[c].userSignature]_vars

\* An active contract carries the service's counter-signature over its own
\* connection key and over nothing its user has not asked for: the terms as they
\* were submitted and amendments to this contract that the user has signed.
ActiveIsCountersigned ==
  \A c \in Contracts : HasStatus(c, "active") =>
    /\ table[c].serviceSignature # NoSignature
    /\ table[c].serviceSignature.key = table[c].key
    /\ \A a \in table[c].serviceSignature.terms :
         a \in agreed /\ amendments[a].contract = c

\* The private key of a stored contract is in the keystore until a reject or a
\* cancellation has deleted it: the key is stored before the contract, and a
\* second submission of the contract cannot replace it.
KeyKeptUntilDropped ==
  \A c \in Contracts : (table[c] # NoContract /\ c \notin keyDropped) =>
    keystore[c] = table[c].key

\* A contract that is stored as cancelled has lost its private key, unless the
\* keystore failed to delete it: the key is deleted before the status is written,
\* and neither a late write nor a second submission brings it back.
CancelledHasNoKey ==
  \A c \in Contracts : (HasStatus(c, "cancelled") /\ c \notin keyLeft) =>
    keystore[c] # table[c].key

\* Whatever the terms of a contract contain beyond what the user submitted, its
\* user signed an amendment for, and the amendment was for this contract.
TermsAreAgreed ==
  \A c \in Contracts : table[c] # NoContract =>
    \A a \in table[c].terms : a \in agreed /\ amendments[a].contract = c

-----------------------------------------------------------------------------
(* What holds of a contract whose operations ran one at a time, to the end, *)
(* and read what was last written.                                         *)

Settled(c) == c \notin disturbed /\ ~ Busy(c) /\ table[c] # NoContract

\* The key is there exactly as long as the contract is pending or active, and
\* the amendments marked as applied are those that are in force, except for
\* those a later upgrade or downgrade replaced; an extension stays in force.
SettledContract ==
  \A c \in Contracts : Settled(c) =>
    /\ table[c].status = "cancelled" <=> keystore[c] # table[c].key
    /\ \A a \in table[c].terms : amendments[a].status \in {"applied", "gone"}
    /\ \A a \in Amendments :
         (/\ amendments[a] # NoAmendment /\ amendments[a].contract = c
          /\ amendments[a].status = "applied")
           => a \in table[c].terms
              \/ (a \notin Extending /\ table[c].terms \cap Replacing # {})

\* A contract goes from pending to active and from either to cancelled, and never
\* back: what was accepted is not pending again, and a cancellation stands.
SettledGoesForward ==
  [][\A c \in Contracts : (table[c] # NoContract /\ c \notin disturbed') =>
       \/ table'[c].status = table[c].status
       \/ table[c].status = "pending"
       \/ table'[c].status = "cancelled"]_vars

-----------------------------------------------------------------------------
(* What the documentation says, and late reads, overlaps or ordinary calls break. *)

\* SERVICE-VAULT-ARCHITECTURE.md: connections persist "until one party cancels".
CancelledStaysCancelled ==
  [][\A c \in Contracts : HasStatus(c, "cancelled") => table'[c].status = "cancelled"]_vars

\* types.go: "Both parties sign this contract to establish the connection": an
\* active contract passes VerifyContract.
ActiveContractVerifies ==
  \A c \in Contracts : HasStatus(c, "active") => VerifyContract(table[c])

\* store.go: GetContractByUser "returns ErrContractNotFound if no active contract
\* exists", and otherwise an active one.
ActiveContractIsFound ==
  \A c \in Contracts : HasStatus(c, "active") => GetContractByUser(Owner[c]) # {}
=============================================================================
