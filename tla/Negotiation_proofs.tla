------------------------- MODULE Negotiation_proofs -------------------------
(***************************************************************************)
(* Proofs about Negotiation, for any number of contracts, amendments,      *)
(* replicas and concurrent callers, and whatever breaks off.               *)
(***************************************************************************)
EXTENDS Negotiation, TLAPS

-----------------------------------------------------------------------------
(* The inductive invariant: what a caller may rely on about its copy, which *)
(* others may have overtaken in the table since it was read.               *)

Exists(c)    == table[c] # NoContract
Agreed(c, a) == a \in agreed /\ amendments[a] # NoAmendment /\ amendments[a].contract = c
KeyGone(c)   == c \in keyDropped \/ c \in keyLeft

\* A version of contract c grants and signs nothing but what was agreed.
Sound(c, ct) ==
  /\ \A a \in ct.terms : Agreed(c, a)
  /\ ct.serviceSignature # NoSignature =>
       /\ ct.serviceSignature.key = ct.key
       /\ \A a \in ct.serviceSignature.terms : Agreed(c, a)
  /\ ct.status = "active" => ct.serviceSignature # NoSignature

\* A version of contract c has what was fixed when it was submitted.
SameSubmission(c, ct) ==
  /\ Exists(c)
  /\ ct.key = table[c].key /\ ct.userSignature = table[c].userSignature

\* A well-formed caller.
CallerInv ==
  \A p \in Callers :
    /\ pc[p] = "idle" => amending[p] = NoAmendment
    /\ pc[p] # "idle" => on[p] \in Contracts
    /\ pc[p] \in {"storeKey", "saveContract", "deleteKey", "updateContract"} =>
         copy[p] \in Contract
    /\ pc[p] \in {"saveAmendment", "getContract", "updateAmendment"} =>
         amending[p] \in Amendments

\* A submission in progress: nothing amended it, and its key is in place before
\* the contract is saved.
SubmitInv ==
  \A p \in Callers :
    /\ pc[p] \in {"storeKey", "saveContract"} =>
         /\ copy[p].status = "pending" /\ copy[p].terms = {}
         /\ copy[p].serviceSignature = NoSignature
    /\ pc[p] = "saveContract" =>
         keystore[on[p]] = copy[p].key \/ on[p] \in keyDropped

\* A copy that may be written back, however long ago it was read.
Writable(p) == SameSubmission(on[p], copy[p]) /\ Sound(on[p], copy[p])

CopyInv == \A p \in Callers : pc[p] \in {"deleteKey", "updateContract"} => Writable(p)

\* Amendments belong to contracts that exist.
AmendmentInv ==
  /\ \A a \in elapsed : amendments[a] # NoAmendment
  /\ \A a \in Amendments : amendments[a] # NoAmendment =>
       Exists(amendments[a].contract)
  /\ \A p \in Callers :
       /\ pc[p] = "saveAmendment" =>
            /\ Exists(on[p])
            /\ amendments[amending[p]] = NoAmendment
            /\ \A q \in Callers \ {p} : amending[q] # amending[p]
       /\ (pc[p] # "saveAmendment" /\ amending[p] # NoAmendment) =>
            /\ amending[p] \in Amendments
            /\ amendments[amending[p]] # NoAmendment
            /\ amendments[amending[p]].contract = on[p]
            /\ outcome[p] = "applied" => amending[p] \in agreed

\* The stored contracts, in the table and as the replicas have them.
RowInv ==
  /\ \A c \in Contracts : Exists(c) => Sound(c, table[c])
  /\ \A r \in Replicas, c \in Contracts : replica[r][c] # NoContract =>
       SameSubmission(c, replica[r][c]) /\ Sound(c, replica[r][c])

\* What says cancelled has been through the deletion of its key.
EndedInv ==
  /\ \A c \in Contracts : HasStatus(c, "cancelled") => KeyGone(c)
  /\ \A r \in Replicas, c \in Contracts :
       (replica[r][c] # NoContract /\ replica[r][c].status = "cancelled") => KeyGone(c)
  /\ \A p \in Callers :
       (pc[p] = "updateContract" /\ copy[p].status = "cancelled") => KeyGone(on[p])

IInv == /\ CallerInv /\ SubmitInv /\ CopyInv /\ AmendmentInv /\ RowInv
        /\ EndedInv /\ KeyKeptUntilDropped

-----------------------------------------------------------------------------
(* Records.                                                                *)

USE NegotiationAssumption, NothingAssumption
USE DEF contractTable, stored, callers, history, unasked

\* The contracts that the operations build from contracts are contracts.
LEMMA ContractTypes ==
  /\ \A k \in Keys : Submission(k) \in Contract
  /\ \A ct \in Contract :
       /\ Countersigned(ct) \in Contract
       /\ Cancelled(ct) \in Contract
       /\ \A a \in Amendments : Amended(ct, a) \in Contract
  BY DEF Submission, Countersigned, Cancelled, ToUnsigned, Amended, Contract, Signed,
         ContractStatuses, Keys, NoKey

\* What the operations leave alone in the contracts they change.
LEMMA ContractFields ==
  ASSUME NEW ct \in Contract
  PROVE  /\ ct.key \in Keys /\ ct.key # NoKey /\ ct.terms \subseteq Amendments
         /\ Countersigned(ct).key = ct.key /\ Countersigned(ct).terms = ct.terms
         /\ Countersigned(ct).userSignature = ct.userSignature
         /\ Countersigned(ct).status = "active"
         /\ Countersigned(ct).serviceSignature =
              [key |-> ct.key, terms |-> ct.terms \ Extending]
         /\ Cancelled(ct).key = ct.key /\ Cancelled(ct).terms = ct.terms
         /\ Cancelled(ct).userSignature = ct.userSignature
         /\ Cancelled(ct).serviceSignature = ct.serviceSignature
         /\ Cancelled(ct).status = "cancelled"
         /\ \A a \in Amendments :
              /\ Amended(ct, a).key = ct.key /\ Amended(ct, a).status = ct.status
              /\ Amended(ct, a).userSignature = ct.userSignature
              /\ Amended(ct, a).serviceSignature = ct.serviceSignature
              /\ Amended(ct, a).terms \subseteq ct.terms \cup {a}
  BY DEF Countersigned, Cancelled, ToUnsigned, Amended, Contract, Keys, NoKey

\* A signature is something.
LEMMA SignatureIsThere ==
  \A k, ts : [key |-> k, terms |-> ts] # NoSignature
<1> TAKE k, ts
<1>1. "nil" \notin DOMAIN [key |-> k, terms |-> ts]
  OBVIOUS
<1>2. "nil" \in DOMAIN NoSignature
  BY DEF NoSignature
<1> QED BY <1>1, <1>2

\* The same for amendments.
LEMMA AmendmentFields ==
  ASSUME NEW am \in Amendment
  PROVE  /\ am # NoAmendment /\ am.contract \in Contracts
         /\ \A s \in AmendmentStatuses :
              /\ [am EXCEPT !.status = s] \in Amendment
              /\ [am EXCEPT !.status = s].contract = am.contract
  BY DEF Amendment

\* No amendment appears, goes or changes its contract.
SameAmendments ==
  /\ amendments' \in [Amendments -> Amendment \cup {NoAmendment}]
  /\ \A b \in Amendments :
       /\ amendments'[b] = NoAmendment <=> amendments[b] = NoAmendment
       /\ amendments[b] # NoAmendment => amendments'[b].contract = amendments[b].contract

\* A change of an amendment's status is such a step.
LEMMA StatusOnly ==
  ASSUME TypeOK, NEW a \in Amendments, amendments[a] # NoAmendment,
         NEW s \in AmendmentStatuses,
         amendments' = [amendments EXCEPT ![a].status = s]
  PROVE  SameAmendments
<1>1. amendments[a] \in Amendment
  BY DEF TypeOK
<1>2. /\ [amendments[a] EXCEPT !.status = s] \in Amendment
      /\ [amendments[a] EXCEPT !.status = s].contract = amendments[a].contract
  BY <1>1, AmendmentFields
<1>3. /\ amendments' \in [Amendments -> Amendment \cup {NoAmendment}]
      /\ amendments'[a] = [amendments[a] EXCEPT !.status = s]
      /\ \A b \in Amendments \ {a} : amendments'[b] = amendments[b]
  BY <1>2 DEF TypeOK
<1>4. [amendments[a] EXCEPT !.status = s] # NoAmendment
  BY <1>2
<1> QED BY <1>2, <1>3, <1>4 DEF SameAmendments

\* TimeToLive is such a step.
LEMMA TimeToLiveSame ==
  ASSUME TypeOK, AmendmentInv, NEW a \in Amendments, TimeToLive(a)
  PROVE  SameAmendments
<1>1. amendments[a] # NoAmendment /\ amendments' = [amendments EXCEPT ![a].status = "gone"]
  BY DEF TimeToLive, AmendmentInv
<1>2. "gone" \in AmendmentStatuses
  BY DEF AmendmentStatuses
<1> QED BY <1>1, <1>2, StatusOnly

\* The initial state.
LEMMA InitInv == Init => TypeOK /\ IInv
  BY DEF Init, TypeOK, IInv, CallerInv, SubmitInv, CopyInv, AmendmentInv, RowInv,
         EndedInv, KeyKeptUntilDropped, Steps, AmendmentStatuses, Exists,
         HasStatus, Keys, NoKey

-----------------------------------------------------------------------------
(* Every step preserves the types and the invariant: one lemma per action. *)

\* What a read returns, be it out of date, has the submission's key and user
\* signature, and nothing in it is beyond what was agreed.
LEMMA ReadFacts ==
  ASSUME TypeOK, IInv, NEW c \in Contracts, NEW statuses, NEW ct \in ReadableAs(c, statuses)
  PROVE  /\ ct \in Contract /\ ct.status \in statuses
         /\ SameSubmission(c, ct) /\ Sound(c, ct)
         /\ ct.status = "cancelled" => KeyGone(c)
<1>1. CASE ct = table[c]
  BY <1>1 DEF ReadableAs, Readable, TypeOK, IInv, RowInv, EndedInv, Exists,
     SameSubmission, HasStatus
<1>2. ASSUME NEW r \in Replicas, ct = replica[r][c]
      PROVE  /\ ct \in Contract /\ ct.status \in statuses
             /\ SameSubmission(c, ct) /\ Sound(c, ct)
             /\ ct.status = "cancelled" => KeyGone(c)
  BY <1>2 DEF ReadableAs, Readable, TypeOK, IInv, RowInv, EndedInv
<1> QED BY <1>1, <1>2 DEF ReadableAs, Readable

USE ContractTypes, ContractFields
    DEF Exists, Agreed, KeyGone, Sound, SameSubmission, HasStatus, Writable, Return,
        GoTo, Begin,
        TypeOK, IInv, CallerInv, SubmitInv, CopyInv, AmendmentInv,
        KeyKeptUntilDropped

\* An operation breaks off.
LEMMA BreakOffKeeps ==
  ASSUME TypeOK, IInv, NEW p \in Callers, BreakOff(p)
  PROVE  TypeOK' /\ IInv'
<1> USE DEF BreakOff
<1>1. TypeOK'
  BY DEF Steps, AmendmentStatuses, Amendment, Keys
<1>2. CallerInv'
  OBVIOUS
<1>3. SubmitInv'
  OBVIOUS
<1>4. CopyInv'
  OBVIOUS
<1>5. AmendmentInv'
  OBVIOUS
<1>6. RowInv'
  BY DEF RowInv
<1>7. EndedInv'
  BY DEF EndedInv
<1>8. KeyKeptUntilDropped'
  OBVIOUS
<1> QED BY <1>1, <1>2, <1>3, <1>4, <1>5, <1>6, <1>7, <1>8

\* A replica catches up with a row.
LEMMA CatchUpKeeps ==
  ASSUME TypeOK, IInv, NEW r \in Replicas, NEW c \in Contracts, CatchUp(r, c)
  PROVE  TypeOK' /\ IInv'
<1> USE DEF CatchUp
<1>1. /\ replica' \in [Replicas -> [Contracts -> Contract \cup {NoContract}]]
      /\ \A q \in Replicas, d \in Contracts :
           replica'[q][d] = IF q = r /\ d = c THEN table[c] ELSE replica[q][d]
  OBVIOUS
<1>2. TypeOK'
  BY <1>1 DEF Steps, AmendmentStatuses, Amendment, Keys
<1>3. CallerInv'
  OBVIOUS
<1>4. SubmitInv'
  OBVIOUS
<1>5. CopyInv'
  OBVIOUS
<1>6. AmendmentInv'
  OBVIOUS
<1>7. RowInv'
  <2>1. Exists(c) => SameSubmission(c, table[c]) /\ Sound(c, table[c])
    BY DEF RowInv
  <2> QED BY <1>1, <2>1 DEF RowInv
<1>8. EndedInv'
  BY <1>1 DEF EndedInv
<1>9. KeyKeptUntilDropped'
  OBVIOUS
<1> QED BY <1>2, <1>3, <1>4, <1>5, <1>6, <1>7, <1>8, <1>9

\* An amendment expires.
LEMMA ElapseKeeps ==
  ASSUME TypeOK, IInv, NEW a \in Amendments, Elapse(a)
  PROVE  TypeOK' /\ IInv'
<1> USE DEF Elapse
<1>1. TypeOK'
  BY DEF Steps, AmendmentStatuses, Amendment, Keys
<1>2. CallerInv'
  OBVIOUS
<1>3. SubmitInv'
  OBVIOUS
<1>4. CopyInv'
  OBVIOUS
<1>5. AmendmentInv'
  OBVIOUS
<1>6. RowInv'
  BY DEF RowInv
<1>7. EndedInv'
  BY DEF EndedInv
<1>8. KeyKeptUntilDropped'
  OBVIOUS
<1> QED BY <1>1, <1>2, <1>3, <1>4, <1>5, <1>6, <1>7, <1>8

\* The table drops an amendment.
LEMMA TimeToLiveKeeps ==
  ASSUME TypeOK, IInv, NEW a \in Amendments, TimeToLive(a)
  PROVE  TypeOK' /\ IInv'
<1> USE DEF TimeToLive
<1>1. SameAmendments
  BY TimeToLiveSame
<1>2. TypeOK'
  BY <1>1 DEF SameAmendments, Steps, AmendmentStatuses, Amendment, Keys
<1>3. CallerInv'
  BY <1>1 DEF SameAmendments
<1>4. SubmitInv'
  BY <1>1 DEF SameAmendments
<1>5. CopyInv'
  BY <1>1 DEF SameAmendments
<1>6. AmendmentInv'
  BY <1>1 DEF SameAmendments
<1>7. RowInv'
  BY <1>1 DEF SameAmendments, RowInv
<1>8. EndedInv'
  BY <1>1 DEF SameAmendments, EndedInv
<1>9. KeyKeptUntilDropped'
  BY <1>1 DEF SameAmendments
<1> QED BY <1>2, <1>3, <1>4, <1>5, <1>6, <1>7, <1>8, <1>9

\* A submission starts.
LEMMA SubmitKeeps ==
  ASSUME TypeOK, IInv, NEW p \in Callers, NEW c \in Contracts, Submit(p, c)
  PROVE  TypeOK' /\ IInv'
<1> USE DEF Submit
<1>1. PICK ct \in Contract : ct = Submission(nextKey)
  OBVIOUS
<1>2. /\ ct.status = "pending" /\ ct.terms = {} /\ ct.serviceSignature = NoSignature
      /\ copy' = [copy EXCEPT ![p] = ct] /\ on' = [on EXCEPT ![p] = c]
      /\ pc' = [pc EXCEPT ![p] = "storeKey"] /\ pc[p] = "idle" /\ amending[p] = NoAmendment
      /\ nextKey' \in 1..(MaxKeys + 1) /\ disturbed' \subseteq disturbed \cup {c}
      /\ UNCHANGED <<stored, elapsed, amending, outcome, unasked>>
  BY <1>1 DEF Submission, Keys
<1> HIDE DEF Submit, Begin
<1>3. TypeOK'
  BY <1>1, <1>2 DEF Steps, AmendmentStatuses, Amendment, Keys
<1>4. CallerInv'
  BY <1>1, <1>2
<1>5. SubmitInv'
  BY <1>1, <1>2
<1>6. CopyInv'
  BY <1>1, <1>2
<1>7. AmendmentInv'
  BY <1>1, <1>2
<1>8. RowInv'
  BY <1>1, <1>2 DEF RowInv
<1>9. EndedInv'
  BY <1>1, <1>2 DEF EndedInv
<1>10. KeyKeptUntilDropped'
  BY <1>1, <1>2
<1> QED BY <1>3, <1>4, <1>5, <1>6, <1>7, <1>8, <1>9, <1>10

\* A connection key is stored.
LEMMA StoreEncryptionKeyKeeps ==
  ASSUME TypeOK, IInv, NEW p \in Callers, StoreEncryptionKey(p)
  PROVE  TypeOK' /\ IInv'
<1> USE DEF StoreEncryptionKey
<1>1. /\ on[p] \in Contracts /\ copy[p] \in Contract
      /\ copy[p].key \in Keys /\ copy[p].key # NoKey
  OBVIOUS
<1>2. /\ keystore' \in [Contracts -> Keys \cup {NoKey}]
      /\ \A c \in Contracts : c # on[p] => keystore'[c] = keystore[c]
      /\ keystore[on[p]] # NoKey => keystore' = keystore
      /\ keystore[on[p]] = NoKey => keystore'[on[p]] = copy[p].key
  <2>1. keystore \in [Contracts -> Keys \cup {NoKey}]
    OBVIOUS
  <2>2. CASE keystore[on[p]] = NoKey
    <3>1. keystore' = [keystore EXCEPT ![on[p]] = copy[p].key]
      BY <2>2
    <3> QED BY <1>1, <2>1, <2>2, <3>1
  <2>3. CASE keystore[on[p]] # NoKey
    <3>1. keystore' = keystore
      BY <2>3
    <3> QED BY <2>1, <2>3, <3>1
  <2> QED BY <2>2, <2>3
<1>3. \A q \in Callers : pc[q] = "saveContract" => copy[q].key # NoKey
  OBVIOUS
<1>4. \A c \in Contracts : Exists(c) => table[c].key # NoKey
  <2> TAKE c \in Contracts
  <2>1. Exists(c) => table[c] \in Contract
    OBVIOUS
  <2> QED BY <2>1
<1>5. /\ \A q \in Callers \ {p} : pc'[q] = pc[q] /\ on'[q] = on[q] /\ copy'[q] = copy[q]
      /\ pc'[p] = "saveContract" =>
           /\ on'[p] = on[p] /\ copy'[p] = copy[p]
           /\ keystore'[on[p]] = copy[p].key
      /\ UNCHANGED keyDropped
  BY <1>2
<1>6. TypeOK'
  <2>1. /\ table' \in [Contracts -> Contract \cup {NoContract}]
        /\ amendments' \in [Amendments -> Amendment \cup {NoAmendment}]
        /\ keystore' \in [Contracts -> Keys \cup {NoKey}]
    BY <1>1, <1>2
  <2>2. pc' \in [Callers -> Steps]
    <3>1. PICK step \in {"idle", "saveContract"} : pc' = [pc EXCEPT ![p] = step]
      OBVIOUS
    <3>2. step \in Steps
      BY DEF Steps
    <3>3. pc \in [Callers -> Steps]
      OBVIOUS
    <3> QED BY <3>1, <3>2, <3>3
  <2>3. on' \in [Callers -> Contracts \cup {NoContract}]
    BY <1>1, <1>2
  <2>4. amending' \in [Callers -> Amendments \cup {NoAmendment}]
    BY <1>1, <1>2
  <2>5. copy' \in [Callers -> Contract \cup {NoContract}]
    BY <1>1, <1>2
  <2>6. outcome' \in [Callers -> AmendmentStatuses]
    BY <1>1, <1>2 DEF AmendmentStatuses
  <2>7. /\ elapsed' \subseteq Amendments /\ nextKey' \in 1..(MaxKeys + 1)
        /\ agreed' \subseteq Amendments /\ keyDropped' \subseteq Contracts
        /\ disturbed' \subseteq Contracts
    BY <1>1, <1>2
  <2> QED BY <2>1, <2>2, <2>3, <2>4, <2>5, <2>6, <2>7
<1>7. CallerInv'
  BY <1>1, <1>2, <1>3, <1>4, <1>5
<1>8. SubmitInv'
  BY <1>1, <1>2, <1>3, <1>4, <1>5
<1>9. CopyInv'
  BY <1>1, <1>2, <1>3, <1>4, <1>5
<1>10. AmendmentInv'
  BY <1>1, <1>2, <1>3, <1>4, <1>5
<1>11. RowInv'
  BY <1>1, <1>2, <1>3, <1>4, <1>5 DEF RowInv
<1>12. EndedInv'
  BY <1>1, <1>2, <1>3, <1>4, <1>5 DEF EndedInv
<1>13. KeyKeptUntilDropped'
  BY <1>1, <1>2, <1>3, <1>4, <1>5
<1> QED BY <1>6, <1>7, <1>8, <1>9, <1>10, <1>11, <1>12, <1>13

\* A contract is saved.
LEMMA SaveContractKeeps ==
  ASSUME TypeOK, IInv, NEW p \in Callers, SaveContract(p)
  PROVE  TypeOK' /\ IInv'
<1> USE DEF SaveContract
<1>1. TypeOK'
  BY DEF Steps, AmendmentStatuses, Amendment, Keys
<1>2. CallerInv'
  OBVIOUS
<1>3. SubmitInv'
  OBVIOUS
<1>4. CopyInv'
  OBVIOUS
<1>5. AmendmentInv'
  OBVIOUS
<1>6. RowInv'
  BY DEF RowInv
<1>7. EndedInv'
  BY DEF EndedInv
<1>8. KeyKeptUntilDropped'
  OBVIOUS
<1> QED BY <1>1, <1>2, <1>3, <1>4, <1>5, <1>6, <1>7, <1>8

\* A contract read as pending is signed.
LEMMA AcceptKeeps ==
  ASSUME TypeOK, IInv, NEW p \in Callers, NEW c \in Contracts, Accept(p, c)
  PROVE  TypeOK' /\ IInv'
<1> USE DEF Accept
<1>1. PICK old \in ReadableAs(c, {"pending"}) :
        Begin(p, c, Countersigned(old), "updateContract", old # table[c])
  OBVIOUS
<1>2. old \in Contract /\ SameSubmission(c, old) /\ Sound(c, old)
  BY ReadFacts
<1>3. PICK ct \in Contract : ct = Countersigned(old)
  BY <1>2
<1>4. /\ copy' = [copy EXCEPT ![p] = ct] /\ on' = [on EXCEPT ![p] = c]
      /\ pc' = [pc EXCEPT ![p] = "updateContract"] /\ amending[p] = NoAmendment
      /\ UNCHANGED <<stored, elapsed, amending, outcome, nextKey, unasked>>
      /\ disturbed' \subseteq disturbed \cup {c}
  BY <1>1, <1>3
<1>5. SameSubmission(c, ct) /\ Sound(c, ct) /\ ct.status = "active"
  <2>1. /\ ct.key = old.key /\ ct.terms = old.terms /\ ct.status = "active"
        /\ ct.userSignature = old.userSignature
        /\ ct.serviceSignature = [key |-> old.key, terms |-> old.terms \ Extending]
    BY <1>2, <1>3
  <2>2. ct.serviceSignature # NoSignature
    BY <2>1, SignatureIsThere
  <2> QED BY <1>2, <2>1, <2>2
<1> HIDE DEF Accept, Begin, Sound, SameSubmission
<1>6. TypeOK'
  BY <1>3, <1>4 DEF Steps, AmendmentStatuses, Amendment, Keys
<1>7. CallerInv'
  BY <1>3, <1>4
<1>8. SubmitInv'
  BY <1>3, <1>4
<1>9. CopyInv'
  BY <1>3, <1>4, <1>5 DEF Sound, SameSubmission
<1>10. AmendmentInv'
  BY <1>3, <1>4
<1>11. RowInv'
  BY <1>3, <1>4 DEF Sound, SameSubmission, RowInv
<1>12. EndedInv'
  BY <1>3, <1>4, <1>5 DEF EndedInv
<1>13. KeyKeptUntilDropped'
  BY <1>3, <1>4
<1> QED BY <1>6, <1>7, <1>8, <1>9, <1>10, <1>11, <1>12, <1>13

\* A contract is read to be ended.
LEMMA RejectOrCancelKeeps ==
  ASSUME TypeOK, IInv, NEW p \in Callers, NEW c \in Contracts, RejectOrCancel(p, c)
  PROVE  TypeOK' /\ IInv'
<1> USE DEF RejectOrCancel
<1>1. PICK old \in ReadableAs(c, {"pending", "active"}) :
        Begin(p, c, Cancelled(old), "deleteKey", old # table[c])
  OBVIOUS
<1>2. old \in Contract /\ SameSubmission(c, old) /\ Sound(c, old)
  BY ReadFacts
<1>3. PICK ct \in Contract : ct = Cancelled(old)
  BY <1>2
<1>4. /\ copy' = [copy EXCEPT ![p] = ct] /\ on' = [on EXCEPT ![p] = c]
      /\ pc' = [pc EXCEPT ![p] = "deleteKey"] /\ amending[p] = NoAmendment
      /\ UNCHANGED <<stored, elapsed, amending, outcome, nextKey, unasked>>
      /\ disturbed' \subseteq disturbed \cup {c}
  BY <1>1, <1>3
<1>5. SameSubmission(c, ct) /\ Sound(c, ct)
  <2>1. /\ ct.key = old.key /\ ct.terms = old.terms /\ ct.status = "cancelled"
        /\ ct.userSignature = old.userSignature
        /\ ct.serviceSignature = old.serviceSignature
    BY <1>2, <1>3, ContractFields, Zenon
  <2> QED BY <1>2, <2>1
<1> HIDE DEF RejectOrCancel, Begin, Sound, SameSubmission
<1>6. TypeOK'
  BY <1>3, <1>4 DEF Steps, AmendmentStatuses, Amendment, Keys
<1>7. CallerInv'
  BY <1>3, <1>4
<1>8. SubmitInv'
  BY <1>3, <1>4
<1>9. CopyInv'
  BY <1>3, <1>4, <1>5 DEF Sound, SameSubmission
<1>10. AmendmentInv'
  BY <1>3, <1>4
<1>11. RowInv'
  BY <1>3, <1>4 DEF Sound, SameSubmission, RowInv
<1>12. EndedInv'
  BY <1>3, <1>4, <1>5 DEF EndedInv
<1>13. KeyKeptUntilDropped'
  BY <1>3, <1>4
<1> QED BY <1>6, <1>7, <1>8, <1>9, <1>10, <1>11, <1>12, <1>13

\* A connection key is deleted.
LEMMA DeleteKeyKeeps ==
  ASSUME TypeOK, IInv, NEW p \in Callers, DeleteKey(p)
  PROVE  TypeOK' /\ IInv'
<1> USE DEF DeleteKey
<1>1. TypeOK'
  BY DEF Steps, AmendmentStatuses, Amendment, Keys
<1>2. CallerInv'
  OBVIOUS
<1>3. SubmitInv'
  OBVIOUS
<1>4. CopyInv'
  OBVIOUS
<1>5. AmendmentInv'
  OBVIOUS
<1>6. RowInv'
  BY DEF RowInv
<1>7. EndedInv'
  BY DEF EndedInv
<1>8. KeyKeptUntilDropped'
  OBVIOUS
<1> QED BY <1>1, <1>2, <1>3, <1>4, <1>5, <1>6, <1>7, <1>8

\* A copy is written back.
LEMMA UpdateContractKeeps ==
  ASSUME TypeOK, IInv, NEW p \in Callers, UpdateContract(p)
  PROVE  TypeOK' /\ IInv'
<1> USE DEF UpdateContract
<1>1. /\ on[p] \in Contracts /\ copy[p] \in Contract /\ copy[p] # NoContract
      /\ Writable(p)
  OBVIOUS
<1>2. table' \in [Contracts -> Contract \cup {NoContract}]
  BY <1>1
<1>3. \A c \in Contracts :
        /\ table'[c] = IF c = on[p] THEN copy[p] ELSE table[c]
        /\ table'[c] = NoContract <=> table[c] = NoContract
        /\ Exists(c) => /\ table'[c].key = table[c].key
                        /\ table'[c].userSignature = table[c].userSignature
  BY <1>1
<1>4. /\ \A q \in Callers \ {p} :
           /\ pc'[q] = pc[q] /\ on'[q] = on[q] /\ copy'[q] = copy[q]
           /\ amending'[q] = amending[q] /\ outcome'[q] = outcome[q]
      /\ \/ pc'[p] = "idle" /\ amending'[p] = NoAmendment
         \/ /\ pc'[p] = "updateAmendment" /\ amending'[p] = amending[p]
            /\ amending[p] # NoAmendment
            /\ on'[p] = on[p] /\ copy'[p] = NoContract /\ outcome'[p] = outcome[p]
  OBVIOUS
<1>5. TypeOK'
  <2>1. /\ table' \in [Contracts -> Contract \cup {NoContract}]
        /\ amendments' \in [Amendments -> Amendment \cup {NoAmendment}]
        /\ keystore' \in [Contracts -> Keys \cup {NoKey}]
    BY <1>1, <1>2, <1>3, <1>4
  <2>2. pc' \in [Callers -> Steps]
    <3>1. PICK step \in {"idle", "updateAmendment"} : pc' = [pc EXCEPT ![p] = step]
      OBVIOUS
    <3>2. step \in Steps
      BY DEF Steps
    <3>3. pc \in [Callers -> Steps]
      OBVIOUS
    <3> QED BY <3>1, <3>2, <3>3
  <2>3. on' \in [Callers -> Contracts \cup {NoContract}]
    BY <1>1, <1>2, <1>3, <1>4
  <2>4. amending' \in [Callers -> Amendments \cup {NoAmendment}]
    BY <1>1, <1>2, <1>3, <1>4
  <2>5. copy' \in [Callers -> Contract \cup {NoContract}]
    BY <1>1, <1>2, <1>3, <1>4
  <2>6. outcome' \in [Callers -> AmendmentStatuses]
    BY <1>1, <1>2, <1>3, <1>4 DEF AmendmentStatuses
  <2>7. /\ elapsed' \subseteq Amendments /\ nextKey' \in 1..(MaxKeys + 1)
        /\ agreed' \subseteq Amendments /\ keyDropped' \subseteq Contracts
        /\ disturbed' \subseteq Contracts
    BY <1>1, <1>2, <1>3, <1>4
  <2> QED BY <2>1, <2>2, <2>3, <2>4, <2>5, <2>6, <2>7
<1>6. CallerInv'
  BY <1>1, <1>2, <1>3, <1>4
<1>7. SubmitInv'
  BY <1>1, <1>2, <1>3, <1>4
<1>8. CopyInv'
  BY <1>1, <1>2, <1>3, <1>4
<1>9. AmendmentInv'
  BY <1>1, <1>2, <1>3, <1>4
<1>10. RowInv'
  BY <1>1, <1>2, <1>3, <1>4 DEF RowInv
<1>11. EndedInv'
  BY <1>1, <1>2, <1>3, <1>4 DEF EndedInv
<1>12. KeyKeptUntilDropped'
  BY <1>1, <1>2, <1>3, <1>4
<1> QED BY <1>5, <1>6, <1>7, <1>8, <1>9, <1>10, <1>11, <1>12

\* An amendment is proposed.
LEMMA ProposeKeeps ==
  ASSUME TypeOK, IInv, NEW p \in Callers, NEW c \in Contracts, NEW a \in Amendments,
         Propose(p, c, a)
  PROVE  TypeOK' /\ IInv'
<1> USE DEF Propose
<1>1. PICK old \in ReadableAs(c, {"active"}) :
        Begin(p, c, NoContract, "saveAmendment", old # table[c])
  OBVIOUS
<1>2. Exists(c)
  BY ReadFacts
<1>3. /\ copy' = [copy EXCEPT ![p] = NoContract] /\ on' = [on EXCEPT ![p] = c]
      /\ pc' = [pc EXCEPT ![p] = "saveAmendment"] /\ pc[p] = "idle"
      /\ amending' = [amending EXCEPT ![p] = a]
      /\ disturbed' \subseteq disturbed \cup {c}
      /\ amendments[a] = NoAmendment /\ \A q \in Callers : amending[q] # a
      /\ UNCHANGED <<stored, elapsed, outcome, nextKey, unasked>>
  BY <1>1
<1> HIDE DEF Propose, Begin
<1>4. TypeOK'
  BY <1>3 DEF Steps, AmendmentStatuses, Amendment, Keys
<1>5. CallerInv'
  BY <1>3
<1>6. SubmitInv'
  BY <1>3
<1>7. CopyInv'
  BY <1>3
<1>8. AmendmentInv'
  BY <1>2, <1>3
<1>9. RowInv'
  BY <1>3 DEF RowInv
<1>10. EndedInv'
  BY <1>3 DEF EndedInv
<1>11. KeyKeptUntilDropped'
  BY <1>3
<1> QED BY <1>4, <1>5, <1>6, <1>7, <1>8, <1>9, <1>10, <1>11

\* An amendment is saved.
LEMMA SaveAmendmentKeeps ==
  ASSUME TypeOK, IInv, NEW p \in Callers, SaveAmendment(p)
  PROVE  TypeOK' /\ IInv'
<1> USE DEF SaveAmendment
<1>1. TypeOK'
  BY DEF Steps, AmendmentStatuses, Amendment, Keys
<1>2. CallerInv'
  OBVIOUS
<1>3. SubmitInv'
  OBVIOUS
<1>4. CopyInv'
  OBVIOUS
<1>5. AmendmentInv'
  OBVIOUS
<1>6. RowInv'
  BY DEF RowInv
<1>7. EndedInv'
  BY DEF EndedInv
<1>8. KeyKeptUntilDropped'
  OBVIOUS
<1> QED BY <1>1, <1>2, <1>3, <1>4, <1>5, <1>6, <1>7, <1>8

\* A user answers an amendment.
LEMMA RespondKeeps ==
  ASSUME TypeOK, IInv, NEW p \in Callers, NEW a \in Amendments, Respond(p, a)
  PROVE  TypeOK' /\ IInv'
<1> USE DEF Respond
<1>1. /\ amendments[a] \in Amendment /\ amendments[a] # NoAmendment
      /\ amendments[a].contract \in Contracts
  BY AmendmentFields
<1>2. TypeOK'
  <2>1. /\ table' \in [Contracts -> Contract \cup {NoContract}]
        /\ amendments' \in [Amendments -> Amendment \cup {NoAmendment}]
        /\ keystore' \in [Contracts -> Keys \cup {NoKey}]
    BY <1>1
  <2>2. pc' \in [Callers -> Steps]
    BY <1>1 DEF Steps
  <2>3. on' \in [Callers -> Contracts \cup {NoContract}]
    BY <1>1
  <2>4. amending' \in [Callers -> Amendments \cup {NoAmendment}]
    BY <1>1
  <2>5. copy' \in [Callers -> Contract \cup {NoContract}]
    BY <1>1
  <2>6. outcome' \in [Callers -> AmendmentStatuses]
    <3>1. \E o \in {"expired", "applied", "rejected"} : outcome' = [outcome EXCEPT ![p] = o]
      OBVIOUS
    <3>2. outcome \in [Callers -> AmendmentStatuses]
      OBVIOUS
    <3> QED BY <3>1, <3>2 DEF AmendmentStatuses
  <2>7. /\ elapsed' \subseteq Amendments /\ nextKey' \in 1..(MaxKeys + 1)
        /\ agreed' \subseteq Amendments /\ keyDropped' \subseteq Contracts
        /\ disturbed' \subseteq Contracts
    BY <1>1
  <2> QED BY <2>1, <2>2, <2>3, <2>4, <2>5, <2>6, <2>7
<1>3. CallerInv'
  BY <1>1
<1>4. SubmitInv'
  BY <1>1
<1>5. CopyInv'
  BY <1>1
<1>6. AmendmentInv'
  BY <1>1
<1>7. RowInv'
  BY <1>1 DEF RowInv
<1>8. EndedInv'
  BY <1>1 DEF EndedInv
<1>9. KeyKeptUntilDropped'
  BY <1>1
<1> QED BY <1>2, <1>3, <1>4, <1>5, <1>6, <1>7, <1>8, <1>9

\* The contract of an amendment is read.
LEMMA GetContractKeeps ==
  ASSUME TypeOK, IInv, NEW p \in Callers, GetContract(p)
  PROVE  TypeOK' /\ IInv'
<1> USE DEF GetContract
<1>1. /\ on[p] \in Contracts /\ amending[p] \in Amendments
      /\ amending[p] # NoAmendment
      /\ outcome[p] = "applied" => Agreed(on[p], amending[p])
  OBVIOUS
<1>2. CASE pc'[p] # "updateContract"
  <2>1. /\ pc[p] = "getContract"
        /\ \/ Return(p)
           \/ GoTo(p, "updateAmendment")
        /\ UNCHANGED <<stored, elapsed, nextKey, history>>
    BY <1>2
  <2> HIDE DEF GetContract
  <2>2. TypeOK'
    <3>1. CASE Return(p)
      BY <2>1, <3>1 DEF Steps, AmendmentStatuses
    <3>2. CASE GoTo(p, "updateAmendment")
      BY <2>1, <3>2 DEF Steps
    <3> QED BY <2>1, <3>1, <3>2
  <2>3. CallerInv'
    BY <1>1, <2>1
  <2>4. SubmitInv'
    BY <2>1
  <2>5. CopyInv'
    <3>1. CASE Return(p)
      BY <2>1, <3>1
    <3>2. CASE GoTo(p, "updateAmendment")
      BY <2>1, <3>2
    <3> QED BY <2>1, <3>1, <3>2
  <2>6. AmendmentInv'
    <3>1. CASE Return(p)
      BY <1>1, <2>1, <3>1
    <3>2. CASE GoTo(p, "updateAmendment")
      BY <1>1, <2>1, <3>2
    <3> QED BY <2>1, <3>1, <3>2
  <2>7. RowInv'
    BY <2>1 DEF RowInv
  <2>8. EndedInv'
    BY <2>1 DEF EndedInv
  <2>9. KeyKeptUntilDropped'
    BY <2>1
  <2> QED BY <2>2, <2>3, <2>4, <2>5, <2>6, <2>7, <2>8, <2>9
<1>3. CASE pc'[p] = "updateContract"
  <2>1. PICK old \in ReadableAs(on[p], ContractStatuses) :
          /\ outcome[p] = "applied"
          /\ pc' = [pc EXCEPT ![p] = "updateContract"]
          /\ copy' = [copy EXCEPT ![p] = Amended(old, amending[p])]
          /\ disturbed' \subseteq disturbed \cup {on[p]}
          /\ UNCHANGED <<on, amending, outcome, stored, elapsed, nextKey, unasked>>
    BY <1>3
  <2>2. /\ old \in Contract /\ SameSubmission(on[p], old) /\ Sound(on[p], old)
        /\ old.status = "cancelled" => KeyGone(on[p])
    BY <1>1, ReadFacts
  <2>3. PICK ct \in Contract :
          /\ ct = Amended(old, amending[p])
          /\ ct.key = old.key /\ ct.status = old.status
          /\ ct.userSignature = old.userSignature
          /\ ct.serviceSignature = old.serviceSignature
          /\ ct.terms \subseteq old.terms \cup {amending[p]}
    BY <1>1, <2>2, ContractTypes, ContractFields, Zenon
  <2>4. /\ SameSubmission(on[p], ct) /\ Sound(on[p], ct)
        /\ ct.status = "cancelled" => KeyGone(on[p])
    BY <1>1, <2>1, <2>2, <2>3
  <2>5. copy' = [copy EXCEPT ![p] = ct]
    BY <2>1, <2>3
  <2> HIDE DEF GetContract, Sound, SameSubmission
  <2>6. TypeOK'
    BY <1>1, <2>1, <2>5 DEF Steps, AmendmentStatuses, Amendment, Keys
  <2>7. CallerInv'
    BY <1>1, <2>1, <2>3, <2>5
  <2>8. SubmitInv'
    BY <2>1, <2>5
  <2>9. CopyInv'
    BY <2>1, <2>4, <2>5 DEF Sound, SameSubmission
  <2>10. AmendmentInv'
    BY <1>1, <2>1
  <2>11. RowInv'
    BY <2>1 DEF Sound, SameSubmission, RowInv
  <2>12. EndedInv'
    BY <2>1, <2>4, <2>5 DEF EndedInv
  <2>13. KeyKeptUntilDropped'
    BY <2>1
  <2> QED BY <2>6, <2>7, <2>8, <2>9, <2>10, <2>11, <2>12, <2>13
<1> QED BY <1>2, <1>3

\* An amendment is marked.
LEMMA UpdateAmendmentKeeps ==
  ASSUME TypeOK, IInv, NEW p \in Callers, UpdateAmendment(p)
  PROVE  TypeOK' /\ IInv'
<1> USE DEF UpdateAmendment
<1>1. amending[p] \in Amendments /\ amendments[amending[p]] # NoAmendment
  <2>1. amending[p] \in Amendments /\ amending[p] # NoAmendment
    OBVIOUS
  <2> QED BY <2>1
<1>2. SameAmendments
  <2>1. CASE amendments[amending[p]].status = "gone"
    BY <2>1 DEF SameAmendments
  <2>2. CASE amendments[amending[p]].status # "gone"
    BY <1>1, <2>2, StatusOnly
  <2> QED BY <2>1, <2>2
<1>3. TypeOK'
  BY <1>1, <1>2 DEF SameAmendments, Steps, AmendmentStatuses, Amendment, Keys
<1>4. CallerInv'
  BY <1>1, <1>2 DEF SameAmendments
<1>5. SubmitInv'
  BY <1>1, <1>2 DEF SameAmendments
<1>6. CopyInv'
  BY <1>1, <1>2 DEF SameAmendments
<1>7. AmendmentInv'
  BY <1>1, <1>2 DEF SameAmendments
<1>8. RowInv'
  BY <1>1, <1>2 DEF SameAmendments, RowInv
<1>9. EndedInv'
  BY <1>1, <1>2 DEF SameAmendments, EndedInv
<1>10. KeyKeptUntilDropped'
  BY <1>1, <1>2 DEF SameAmendments
<1> QED BY <1>3, <1>4, <1>5, <1>6, <1>7, <1>8, <1>9, <1>10

-----------------------------------------------------------------------------
(* The theorems.                                                           *)

HIDE DEF Exists, Agreed, KeyGone, Sound, SameSubmission, HasStatus, Writable, Return,
         GoTo, Begin, TypeOK, IInv, CallerInv, SubmitInv, CopyInv, AmendmentInv, RowInv,
         EndedInv, KeyKeptUntilDropped

\* Every step preserves the types and the invariant.
LEMMA StepInv ==
  ASSUME TypeOK, IInv, [Next]_vars
  PROVE  TypeOK' /\ IInv'
<1>1. CASE UNCHANGED vars
  <2>1. TypeOK'
    BY <1>1 DEF vars, TypeOK
  <2>2. CallerInv' /\ SubmitInv' /\ CopyInv'
    BY <1>1 DEF vars, IInv, CallerInv, SubmitInv, CopyInv, Writable, SameSubmission, Sound,
       Agreed, Exists
  <2>3. AmendmentInv' /\ RowInv'
    BY <1>1 DEF vars, IInv, AmendmentInv, RowInv, SameSubmission, Sound, Agreed, Exists
  <2>4. EndedInv' /\ KeyKeptUntilDropped'
    BY <1>1 DEF vars, IInv, EndedInv, KeyKeptUntilDropped, HasStatus, KeyGone
  <2> QED BY <2>1, <2>2, <2>3, <2>4 DEF IInv
<1>2. CASE Next
  BY <1>2, BreakOffKeeps, CatchUpKeeps, ElapseKeeps, TimeToLiveKeeps, SubmitKeeps,
     StoreEncryptionKeyKeeps, SaveContractKeeps, AcceptKeeps, RejectOrCancelKeeps,
     DeleteKeyKeeps, UpdateContractKeeps, ProposeKeeps, SaveAmendmentKeeps,
     RespondKeeps, GetContractKeeps, UpdateAmendmentKeeps DEF Next
<1> QED BY <1>1, <1>2

\* The types and the inductive invariant hold in every reachable state.
THEOREM Invariance == Spec => [](TypeOK /\ IInv)
<1>1. Init => TypeOK /\ IInv
  BY InitInv
<1>2. TypeOK /\ IInv /\ [Next]_vars => TypeOK' /\ IInv'
  BY StepInv
<1> QED BY <1>1, <1>2, PTL DEF Spec

\* In every reachable state the variables have the types TypeOK gives them.
THEOREM TypeCorrect == Spec => []TypeOK
<1> QED BY Invariance, PTL

\* An active contract carries the service's signature over its own key and over
\* nothing its user has not agreed to, whatever is written back late.
THEOREM ActiveContractsAreSigned == Spec => []ActiveIsCountersigned
<1>1. IInv => ActiveIsCountersigned
  BY DEF IInv, RowInv, Sound, Agreed, ActiveIsCountersigned, HasStatus, Exists
<1> QED BY <1>1, Invariance, PTL

\* The private key of a stored contract stays in the keystore until a reject or
\* a cancellation deletes it.
THEOREM KeysAreKept == Spec => []KeyKeptUntilDropped
<1>1. IInv => KeyKeptUntilDropped
  BY DEF IInv
<1> QED BY <1>1, Invariance, PTL

\* No contract grants what its user has not signed for.
THEOREM NothingUnagreed == Spec => []TermsAreAgreed
<1>1. IInv => TermsAreAgreed
  BY DEF IInv, RowInv, Sound, Agreed, TermsAreAgreed, Exists
<1> QED BY <1>1, Invariance, PTL

\* Only SaveContract and UpdateContract write the table; the one adds contracts,
\* the other keeps what identifies a contract.
LEMMA TableStep ==
  ASSUME TypeOK, IInv, [Next]_vars, NEW c \in Contracts, table[c] # NoContract
  PROVE  /\ table'[c] # NoContract
         /\ table'[c].key = table[c].key
         /\ table'[c].userSignature = table[c].userSignature
<1>1. CASE table' = table
  BY <1>1
<1>2. ASSUME NEW p \in Callers, SaveContract(p)
      PROVE  table'[c] = table[c]
  BY <1>2 DEF SaveContract, TypeOK
<1>3. ASSUME NEW p \in Callers, UpdateContract(p)
      PROVE  /\ table'[c] # NoContract
             /\ table'[c].key = table[c].key
             /\ table'[c].userSignature = table[c].userSignature
  <2>1. table'[c] = IF c = on[p] THEN copy[p] ELSE table[c]
    BY <1>3 DEF UpdateContract, TypeOK
  <2>2. copy[p] \in Contract /\ Writable(p)
    BY <1>3 DEF UpdateContract, IInv, CallerInv, CopyInv
  <2> QED BY <2>1, <2>2 DEF Writable, SameSubmission
<1>4. table' = table \/ \E p \in Callers : SaveContract(p) \/ UpdateContract(p)
  <2>1. CASE UNCHANGED vars
    BY <2>1 DEF vars
  <2>2. CASE Next
    BY <2>2 DEF Next, Submit, Accept, RejectOrCancel, Propose, Respond,
       StoreEncryptionKey, DeleteKey, SaveAmendment, GetContract, UpdateAmendment,
       BreakOff, Elapse, TimeToLive, CatchUp
  <2> QED BY <2>1, <2>2
<1> QED BY <1>1, <1>2, <1>3, <1>4

\* The connection key and the user's signature of a stored contract are fixed.
THEOREM SubmissionsAreFixed == Spec => SubmissionIsFixed
<1>1. TypeOK /\ IInv /\ [Next]_vars =>
        [\A c \in Contracts : table[c] # NoContract =>
            /\ table'[c] # NoContract
            /\ table'[c].key = table[c].key
            /\ table'[c].userSignature = table[c].userSignature]_vars
  BY TableStep
<1> QED BY <1>1, Invariance, PTL DEF Spec, SubmissionIsFixed

-----------------------------------------------------------------------------
(* Keys that were deleted stay away.                                       *)

Submitting(p) == pc[p] \in {"storeKey", "saveContract"}

\* Connection keys are new when they are generated, and no two alike.
NewKeysInv ==
  /\ \A c \in Contracts : Exists(c) => table[c].key < nextKey
  /\ \A p \in Callers : Submitting(p) => copy[p].key < nextKey
  /\ \A p, q \in Callers : (p # q /\ Submitting(p) /\ Submitting(q)) =>
       copy[p].key # copy[q].key
  /\ \A p \in Callers, c \in Contracts : (pc[p] = "storeKey" /\ Exists(c)) =>
       table[c].key # copy[p].key

\* What was deleted belonged to a stored contract, and is not in the keystore.
DroppedInv ==
  \A c \in keyDropped : c \in Contracts /\ Exists(c) /\ keystore[c] # table[c].key

\* The keystore of a contract changes by a submission or by a deletion.
LEMMA KeystoreStep ==
  ASSUME TypeOK, IInv, [Next]_vars, NEW c \in Contracts
  PROVE  \/ keystore'[c] = keystore[c] /\ (c \in keyDropped' => c \in keyDropped)
         \/ /\ c \in keyDropped' => c \in keyDropped
            /\ \E p \in Callers :
                 pc[p] = "storeKey" /\ on[p] = c /\ keystore'[c] = copy[p].key
         \/ Exists(c) /\ keystore'[c] = NoKey
<1>1. ASSUME NEW p \in Callers, StoreEncryptionKey(p), on[p] = c
      PROVE  /\ keyDropped' = keyDropped /\ pc[p] = "storeKey"
             /\ keystore'[c] = keystore[c] \/ keystore'[c] = copy[p].key
  BY <1>1 DEF StoreEncryptionKey, TypeOK
<1>2. ASSUME NEW p \in Callers, StoreEncryptionKey(p), on[p] # c
      PROVE  keystore'[c] = keystore[c] /\ keyDropped' = keyDropped
  BY <1>2 DEF StoreEncryptionKey, TypeOK
<1>3. ASSUME NEW p \in Callers, DeleteKey(p), on[p] = c
      PROVE  \/ keystore' = keystore /\ keyDropped' = keyDropped
             \/ Exists(c) /\ keystore'[c] = NoKey
  BY <1>3 DEF DeleteKey, TypeOK, IInv, CopyInv, Writable, SameSubmission
<1>4. ASSUME NEW p \in Callers, DeleteKey(p), on[p] # c
      PROVE  keystore'[c] = keystore[c] /\ (c \in keyDropped' => c \in keyDropped)
  BY <1>4 DEF DeleteKey, TypeOK
<1>5. \/ keystore' = keystore /\ keyDropped' = keyDropped
      \/ \E p \in Callers : StoreEncryptionKey(p) \/ DeleteKey(p)
  BY DEF vars, Next, Submit, Accept, RejectOrCancel, Propose, Respond,
     SaveContract, UpdateContract, SaveAmendment, GetContract, UpdateAmendment,
     BreakOff, Elapse, TimeToLive, CatchUp
<1> QED BY <1>1, <1>2, <1>3, <1>4, <1>5

\* A caller that submits a contract goes on with what it has made, or makes it now.
GoesOn(p) ==
  /\ pc[p] \in {"storeKey", "saveContract"} /\ copy'[p] = copy[p] /\ on'[p] = on[p]
  /\ pc'[p] = "storeKey" => pc[p] = "storeKey"
  /\ nextKey =< nextKey'

Starts(p) ==
  /\ pc'[p] = "storeKey" /\ copy'[p] = Submission(nextKey) /\ nextKey' = nextKey + 1
  /\ \A q \in Callers \ {p} : pc'[q] = pc[q] /\ copy'[q] = copy[q] /\ on'[q] = on[q]

LEMMA SubmissionStep ==
  ASSUME TypeOK, IInv, [Next]_vars, NEW p \in Callers, pc'[p] \in {"storeKey", "saveContract"}
  PROVE  GoesOn(p) \/ Starts(p)
<1> USE DEF GoesOn, Starts
<1>1. nextKey \in Nat
  BY DEF TypeOK
<1>2. ASSUME NEW q \in Callers, NEW c \in Contracts, Submit(q, c)
      PROVE  GoesOn(p) \/ Starts(p)
  BY <1>1, <1>2 DEF Submit, Begin, TypeOK
<1>3. ASSUME NEW q \in Callers, StoreEncryptionKey(q)
      PROVE  GoesOn(p)
  BY <1>1, <1>3 DEF StoreEncryptionKey, GoTo, Return, TypeOK
<1>4. ASSUME NEW q \in Callers,
             \/ \E c \in Contracts :
                  Accept(q, c) \/ RejectOrCancel(q, c) \/ \E a \in Amendments : Propose(q, c, a)
             \/ \E a \in Amendments : Respond(q, a)
      PROVE  GoesOn(p)
  BY <1>1, <1>4 DEF Accept, RejectOrCancel, Propose, Respond, Begin, TypeOK
<1>5. ASSUME NEW q \in Callers, GetContract(q) \/ DeleteKey(q) \/ UpdateContract(q)
      PROVE  GoesOn(p)
  BY <1>1, <1>5 DEF GetContract, DeleteKey, UpdateContract, GoTo, Return, TypeOK
<1>6. ASSUME NEW q \in Callers,
             SaveContract(q) \/ SaveAmendment(q) \/ UpdateAmendment(q) \/ BreakOff(q)
      PROVE  GoesOn(p)
  BY <1>1, <1>6 DEF SaveContract, SaveAmendment, UpdateAmendment, BreakOff, Return, TypeOK
<1>7. CASE \/ UNCHANGED vars \/ \E a \in Amendments : Elapse(a) \/ TimeToLive(a)
           \/ \E r \in Replicas, c \in Contracts : CatchUp(r, c)
  BY <1>1, <1>7 DEF vars, Elapse, TimeToLive, CatchUp
<1> QED BY <1>2, <1>3, <1>4, <1>5, <1>6, <1>7 DEF Next

\* A contract that was not in the table before comes from a submission.
LEMMA NewContract ==
  ASSUME TypeOK, IInv, [Next]_vars, NEW c \in Contracts, ~Exists(c), Exists(c)'
  PROVE  \E p \in Callers : pc[p] = "saveContract" /\ table'[c] = copy[p]
<1>1. table' = table \/ \E p \in Callers : SaveContract(p) \/ UpdateContract(p)
  BY DEF vars, Next, Submit, Accept, RejectOrCancel, Propose, Respond,
     StoreEncryptionKey, DeleteKey, SaveAmendment, GetContract, UpdateAmendment,
     BreakOff, Elapse, TimeToLive, CatchUp
<1>2. ASSUME NEW p \in Callers, SaveContract(p)
      PROVE  pc[p] = "saveContract" /\ table'[c] = copy[p]
  <2>1. /\ pc[p] = "saveContract"
        /\ table' = table \/ table' = [table EXCEPT ![on[p]] = copy[p]]
    BY <1>2 DEF SaveContract
  <2>2. on[p] = c
    BY <2>1 DEF Exists, TypeOK
  <2>3. QED BY <2>1, <2>2 DEF TypeOK, Exists
<1>3. ASSUME NEW p \in Callers, UpdateContract(p) PROVE FALSE
  <2>1. /\ pc[p] = "updateContract"
        /\ table' = [table EXCEPT ![on[p]] = copy[p]]
    BY <1>3 DEF UpdateContract
  <2>2. on[p] = c
    BY <2>1 DEF Exists, TypeOK
  <2>3. Exists(on[p])
    BY <2>1 DEF IInv, CopyInv, Writable, SameSubmission
  <2>4. QED BY <2>2, <2>3
<1> QED BY <1>1, <1>2, <1>3 DEF Exists

\* Every step keeps new keys new.
LEMMA NewKeysStep ==
  ASSUME TypeOK, IInv, NewKeysInv, [Next]_vars
  PROVE  NewKeysInv'
<1>1. /\ nextKey \in Nat
      /\ \A c \in Contracts : Exists(c) => table[c].key \in Nat
      /\ \A p \in Callers : Submitting(p) => copy[p].key \in Nat
  BY DEF TypeOK, IInv, CallerInv, Exists, Submitting, Contract, Keys
<1>2. ASSUME NEW p \in Callers, Submitting(p)'
      PROVE  \/ GoesOn(p) /\ copy'[p].key = copy[p].key /\ Submitting(p)
             \/ Starts(p) /\ copy'[p].key = nextKey
  <2>1. GoesOn(p) \/ Starts(p)
    BY <1>2, SubmissionStep DEF Submitting
  <2>2. GoesOn(p) => copy'[p].key = copy[p].key /\ Submitting(p)
    BY DEF GoesOn, Submitting
  <2>3. Starts(p) => copy'[p].key = nextKey
    BY DEF Starts, Submission
  <2> QED BY <2>1, <2>2, <2>3
<1>3. nextKey' \in Nat /\ nextKey =< nextKey'
  <2>1. nextKey' = nextKey \/ nextKey' = nextKey + 1
    BY DEF vars, Next, Submit, Accept, RejectOrCancel, Propose, Respond,
     StoreEncryptionKey, DeleteKey, SaveContract, UpdateContract, SaveAmendment,
     GetContract, UpdateAmendment, BreakOff, Elapse, TimeToLive, CatchUp
  <2> QED BY <1>1, <2>1
<1>4. ASSUME NEW c \in Contracts, Exists(c)'
      PROVE  \/ Exists(c) /\ table'[c].key = table[c].key
             \/ \E q \in Callers : pc[q] = "saveContract" /\ table'[c].key = copy[q].key
  <2>1. CASE Exists(c)
    BY <2>1, TableStep DEF Exists
  <2>2. CASE ~Exists(c)
    BY <1>4, <2>2, NewContract
  <2> QED BY <2>1, <2>2
<1>5. ASSUME NEW c \in Contracts, Exists(c)'
      PROVE  table'[c].key < nextKey /\ table'[c].key \in Nat
  BY <1>1, <1>4, <1>5 DEF NewKeysInv, Submitting
<1>6. ASSUME NEW p \in Callers, Submitting(p)'
      PROVE  copy'[p].key < nextKey'
  BY <1>1, <1>2, <1>3, <1>6 DEF NewKeysInv, Starts
<1>7. ASSUME NEW p \in Callers, NEW q \in Callers, p # q, Submitting(p)', Submitting(q)'
      PROVE  copy'[p].key # copy'[q].key
  <2>1. CASE Starts(p)
    <3>1. copy'[p].key = nextKey
      BY <2>1 DEF Starts, Submission
    <3>2. Submitting(q) /\ copy'[q].key = copy[q].key
      BY <1>7, <2>1 DEF Starts, Submitting
    <3> QED BY <1>1, <3>1, <3>2 DEF NewKeysInv
  <2>2. CASE Starts(q)
    <3>1. copy'[q].key = nextKey
      BY <2>2 DEF Starts, Submission
    <3>2. Submitting(p) /\ copy'[p].key = copy[p].key
      BY <1>7, <2>2 DEF Starts, Submitting
    <3> QED BY <1>1, <3>1, <3>2 DEF NewKeysInv
  <2>3. CASE ~ Starts(p) /\ ~ Starts(q)
    BY <1>2, <1>7, <2>3 DEF NewKeysInv
  <2> QED BY <2>1, <2>2, <2>3
<1>8. ASSUME NEW p \in Callers, NEW c \in Contracts, pc'[p] = "storeKey", Exists(c)'
      PROVE  table'[c].key # copy'[p].key
  <2>1. Submitting(p)'
    BY <1>8 DEF Submitting
  <2>2. CASE Starts(p)
    <3>1. copy'[p].key = nextKey
      BY <2>2 DEF Starts, Submission
    <3> QED BY <1>1, <1>5, <1>8, <3>1
  <2>3. CASE ~ Starts(p)
    <3>1. pc[p] = "storeKey" /\ copy'[p].key = copy[p].key /\ Submitting(p)
      BY <1>2, <1>8, <2>1, <2>3 DEF GoesOn
    <3>2. ASSUME NEW q \in Callers, pc[q] = "saveContract"
          PROVE  copy[q].key # copy[p].key
      BY <3>1, <3>2 DEF NewKeysInv, Submitting
    <3> QED BY <1>4, <1>8, <3>1, <3>2 DEF NewKeysInv
  <2> QED BY <2>2, <2>3
<1> QED BY <1>3, <1>5, <1>6, <1>7, <1>8, <1>1 DEF NewKeysInv

\* Every step keeps away what was deleted.
LEMMA DroppedStep ==
  ASSUME TypeOK, IInv, NewKeysInv, DroppedInv, [Next]_vars
  PROVE  DroppedInv'
<1>1. SUFFICES ASSUME NEW c \in keyDropped'
               PROVE  c \in Contracts /\ Exists(c)' /\ keystore'[c] # table'[c].key
  BY DEF DroppedInv
<1>2. c \in Contracts
  BY StepInv DEF TypeOK
<1>3. Exists(c) => /\ Exists(c)' /\ table'[c].key = table[c].key
                   /\ table[c].key # NoKey
  <2>1. Exists(c) => table[c] \in Contract
    BY <1>2 DEF Exists, TypeOK
  <2>2. Exists(c) => table[c].key # NoKey
    BY <2>1, ContractFields
  <2> QED BY <1>2, <2>2, TableStep DEF Exists
<1>4. CASE c \in keyDropped /\ keystore'[c] = keystore[c]
  BY <1>2, <1>3, <1>4 DEF DroppedInv
<1>5. ASSUME c \in keyDropped, NEW p \in Callers, pc[p] = "storeKey",
             keystore'[c] = copy[p].key
      PROVE  Exists(c)' /\ keystore'[c] # table'[c].key
  BY <1>2, <1>3, <1>5 DEF DroppedInv, NewKeysInv
<1>6. CASE Exists(c) /\ keystore'[c] = NoKey
  BY <1>2, <1>3, <1>6
<1> QED BY <1>2, <1>4, <1>5, <1>6, KeystoreStep

\* In every reachable state new keys are new and deleted keys away.
LEMMA KeysInvariance == Spec => [](NewKeysInv /\ DroppedInv)
<1>1. Init => NewKeysInv /\ DroppedInv
  BY DEF Init, NewKeysInv, DroppedInv, Exists, Submitting
<1>2. TypeOK /\ IInv /\ NewKeysInv /\ DroppedInv /\ [Next]_vars
        => NewKeysInv' /\ DroppedInv'
  BY NewKeysStep, DroppedStep
<1> QED BY <1>1, <1>2, Invariance, PTL DEF Spec

\* What is stored as cancelled has lost its private key for good, unless the keystore
\* failed to delete it: whatever overlaps, breaks off, is read late or submitted again.
THEOREM CancelledKeysAreGone == Spec => []CancelledHasNoKey
<1>1. IInv /\ DroppedInv => CancelledHasNoKey
  BY DEF IInv, EndedInv, KeyGone, DroppedInv, CancelledHasNoKey
<1> QED BY <1>1, Invariance, KeysInvariance, PTL

-----------------------------------------------------------------------------
(* How far the findings go.                                                *)

\* What the user signed when the contract was submitted had no key of the service.
Keyless(ct) == ct.userSignature.key = NoKey

KeylessInv ==
  /\ \A c \in Contracts : Exists(c) => Keyless(table[c])
  /\ \A p \in Callers : pc[p] \in {"storeKey", "saveContract"} => Keyless(copy[p])

\* No stored contract passes VerifyContract, whatever its status and however often it
\* is accepted or amended: the user's signature covers a contract without the service's
\* key, and the one that is stored has a key.
THEOREM NoContractVerifies ==
  Spec => [](\A c \in Contracts : table[c] # NoContract => ~VerifyContract(table[c]))
<1>1. Init => KeylessInv
  BY DEF Init, KeylessInv, Exists
<1>2. TypeOK /\ IInv /\ KeylessInv /\ [Next]_vars => KeylessInv'
  <2>1. SUFFICES ASSUME TypeOK, IInv, KeylessInv, [Next]_vars PROVE KeylessInv'
    OBVIOUS
  <2>2. \A k : Keyless(Submission(k))
    BY DEF Keyless, Submission
  <2>3. ASSUME NEW p \in Callers, pc'[p] \in {"storeKey", "saveContract"}
        PROVE  Keyless(copy'[p])
    BY <2>1, <2>2, <2>3, SubmissionStep DEF KeylessInv, GoesOn, Starts
  <2>4. ASSUME NEW c \in Contracts, Exists(c)' PROVE Keyless(table'[c])
    <3>1. CASE Exists(c)
      BY <2>1, <3>1, TableStep DEF KeylessInv, Keyless, Exists
    <3>2. CASE ~Exists(c)
      BY <2>1, <2>4, <3>2, NewContract DEF KeylessInv
    <3> QED BY <3>1, <3>2
  <2> QED BY <2>3, <2>4 DEF KeylessInv, Keyless
<1>3. TypeOK /\ KeylessInv =>
        \A c \in Contracts : table[c] # NoContract => ~VerifyContract(table[c])
  <2>1. SUFFICES ASSUME TypeOK, KeylessInv, NEW c \in Contracts, table[c] # NoContract
                 PROVE  ~VerifyContract(table[c])
    OBVIOUS
  <2>2. table[c] \in Contract
    BY <2>1 DEF TypeOK
  <2>3. table[c].userSignature.key = NoKey
    BY <2>1 DEF KeylessInv, Keyless, Exists
  <2>4. ToUnsigned(table[c]).key = table[c].key
    BY DEF ToUnsigned
  <2>5. table[c].key # NoKey
    BY <2>2, ContractFields
  <2> QED BY <2>3, <2>4, <2>5 DEF VerifyContract
<1> QED BY <1>1, <1>2, <1>3, Invariance, PTL DEF Spec

-----------------------------------------------------------------------------
(* Contracts whose operations run one at a time and to the end, and read   *)
(* what was last written.                                                  *)

\* The key of the contract ct, stored as k, is there as long as ct is in force.
KeyFits(ct, k) == ct.status = "cancelled" <=> k # ct.key

\* The terms ts of c are the amendments marked as applied, but for replaced ones
\* and but for those in `besides', which are being applied.
TermsFit(ts, c, besides) ==
  /\ \A a \in ts \ besides : amendments[a].status \in {"applied", "gone"}
  /\ \A a \in Amendments \ besides :
       (/\ amendments[a] # NoAmendment /\ amendments[a].contract = c
        /\ amendments[a].status = "applied")
         => a \in ts \/ (a \notin Extending /\ ts \cap Replacing # {})

Fits(c) == KeyFits(table[c], keystore[c]) /\ TermsFit(table[c].terms, c, {})

At(p, c) == pc[p] # "idle" /\ on[p] = c

\* What a caller that is alone with its contract knows of it.
Knows(p) ==
  /\ pc[p] \in {"storeKey", "saveContract"} =>
       (Exists(on[p]) => copy[p].key # table[on[p]].key)
  /\ pc[p] = "saveContract" => keystore[on[p]] = copy[p].key
  /\ pc[p] = "deleteKey" =>
       /\ copy[p] = Cancelled(table[on[p]])
       /\ table[on[p]].status # "cancelled"
       /\ amending[p] = NoAmendment
  /\ (pc[p] = "updateContract" /\ amending[p] = NoAmendment) =>
       /\ table[on[p]].status # "cancelled"
       /\ table[on[p]].status = "pending" \/ copy[p].status = "cancelled"
       /\ KeyFits(copy[p], keystore[on[p]]) /\ TermsFit(copy[p].terms, on[p], {})
  /\ pc[p] = "getContract" => outcome[p] \in {"applied", "rejected"}
  /\ (pc[p] = "updateContract" /\ amending[p] # NoAmendment) =>
       /\ Fits(on[p]) /\ outcome[p] = "applied"
       /\ copy[p] = Amended(table[on[p]], amending[p])
  /\ pc[p] = "updateAmendment" =>
       /\ KeyFits(table[on[p]], keystore[on[p]])
       /\ \/ /\ outcome[p] = "applied" /\ amending[p] \in table[on[p]].terms
             /\ TermsFit(table[on[p]].terms, on[p], {amending[p]})
          \/ outcome[p] \in {"rejected", "expired"} /\ Fits(on[p])
  /\ (pc[p] # "saveAmendment" /\ amending[p] # NoAmendment) =>
       amendments[amending[p]].status \in {"pending", "gone"}

\* A contract is in order but while its one caller is about to write the second
\* half of what it has begun.
Quiet(c) ==
  /\ \A p, q \in Callers : At(p, c) /\ At(q, c) => p = q
  /\ \A p \in Callers : At(p, c) => Knows(p)
  /\ (Exists(c) /\ \A p \in Callers :
        At(p, c) => pc[p] \notin {"updateContract", "updateAmendment"}) => Fits(c)

QuietInv == \A c \in Contracts \ disturbed : Quiet(c)

\* The step does not concern c.
Aside(c) ==
  /\ table'[c] = table[c] /\ keystore'[c] = keystore[c]
  /\ \A a \in Amendments :
       \/ amendments'[a] = amendments[a]
       \/ /\ amendments[a] # NoAmendment => amendments[a].contract # c
          /\ amendments'[a] # NoAmendment => amendments'[a].contract # c
  /\ \A q \in Callers :
       /\ At(q, c)' <=> At(q, c)
       /\ At(q, c) => /\ pc'[q] = pc[q] /\ on'[q] = on[q] /\ copy'[q] = copy[q]
                      /\ amending'[q] = amending[q] /\ outcome'[q] = outcome[q]

\* The step is one of caller p with contract d.
ActsOn(p, d) ==
  /\ At(p, d) \/ pc[p] = "idle"
  /\ At(p, d)' \/ pc'[p] = "idle"
  /\ \A q \in Callers \ {p} :
       /\ pc'[q] = pc[q] /\ on'[q] = on[q] /\ copy'[q] = copy[q]
       /\ amending'[q] = amending[q] /\ outcome'[q] = outcome[q]
  /\ \A c \in Contracts \ {d} : table'[c] = table[c] /\ keystore'[c] = keystore[c]
  /\ \A a \in Amendments :
       \/ amendments'[a] = amendments[a]
       \/ /\ amendments[a] # NoAmendment => amendments[a].contract = d
          /\ amendments'[a] # NoAmendment => amendments'[a].contract = d
  /\ disturbed \subseteq disturbed'

\* Terms that fit go on to fit when nothing of the contract changes.
LEMMA TermsStillFit ==
  ASSUME NEW c \in Contracts, Aside(c), NEW ts \in SUBSET Amendments,
         \A a \in ts : amendments[a] # NoAmendment /\ amendments[a].contract = c,
         NEW besides, TermsFit(ts, c, besides)
  PROVE  TermsFit(ts, c, besides)'
<1>1. \A a \in ts : amendments'[a] = amendments[a]
  BY DEF Aside
<1> QED BY <1>1 DEF Aside, TermsFit

\* A step that does not concern c leaves it as quiet as it was.
LEMMA AsideQuiet ==
  ASSUME TypeOK, IInv, NEW c \in Contracts, Quiet(c), Aside(c)
  PROVE  Quiet(c)'
<1>1. Exists(c) => /\ table[c] \in Contract /\ table[c].terms \subseteq Amendments
                   /\ \A a \in table[c].terms :
                        amendments[a] # NoAmendment /\ amendments[a].contract = c
  BY DEF TypeOK, IInv, RowInv, Sound, Agreed, Exists
<1>2. \A besides : (Exists(c) /\ TermsFit(table[c].terms, c, besides))
                      => TermsFit(table[c].terms, c, besides)'
  BY <1>1, TermsStillFit DEF Aside
<1>3. (Exists(c) /\ Fits(c)) => Fits(c)'
  BY <1>1, <1>2 DEF Fits, Aside
<1>4. ASSUME NEW q \in Callers, At(q, c)
      PROVE  Knows(q)'
  <2>1. /\ Knows(q) /\ on[q] = c /\ on'[q] = c
        /\ pc'[q] = pc[q] /\ copy'[q] = copy[q]
        /\ amending'[q] = amending[q] /\ outcome'[q] = outcome[q]
    BY <1>4 DEF Quiet, Aside, At
  <2>2. table'[c] = table[c] /\ keystore'[c] = keystore[c] /\ (Exists(c)' <=> Exists(c))
    BY DEF Aside, Exists
  <2>3. pc[q] \in {"deleteKey", "updateContract"} =>
          /\ Exists(c) /\ copy[q] \in Contract /\ copy[q].terms \subseteq Amendments
          /\ \A a \in copy[q].terms :
               amendments[a] # NoAmendment /\ amendments[a].contract = c
    <3>1. SUFFICES ASSUME pc[q] \in {"deleteKey", "updateContract"}
                   PROVE  /\ Exists(c) /\ copy[q] \in Contract
                          /\ copy[q].terms \subseteq Amendments
                          /\ \A a \in copy[q].terms :
                               amendments[a] # NoAmendment /\ amendments[a].contract = c
      OBVIOUS
    <3>2. copy[q] \in Contract
      BY <3>1 DEF IInv, CallerInv
    <3>3. copy[q].terms \subseteq Amendments
      BY <3>2, ContractFields
    <3>4. SameSubmission(c, copy[q]) /\ Sound(c, copy[q])
      BY <2>1, <3>1 DEF IInv, CopyInv, Writable
    <3> QED BY <3>2, <3>3, <3>4 DEF SameSubmission, Sound, Agreed
  <2>4. (pc[q] # "saveAmendment" /\ amending[q] # NoAmendment) =>
          /\ Exists(c) /\ amendments'[amending[q]] = amendments[amending[q]]
    BY <1>4, <2>1 DEF IInv, AmendmentInv, Aside
  <2>5. pc[q] = "updateAmendment" => amending[q] # NoAmendment
    BY <1>4, NothingAssumption DEF IInv, CallerInv
  <2>6. pc[q] = "updateContract" =>
          (TermsFit(copy[q].terms, c, {}) => TermsFit(copy[q].terms, c, {})')
    BY <2>1, <2>3, TermsStillFit
  <2> QED BY <1>2, <1>3, <2>1, <2>2, <2>3, <2>4, <2>5, <2>6 DEF Knows
<1> QED BY <1>3, <1>4 DEF Quiet, Aside, Exists, At

\* What concerns d does not concern the others.
LEMMA OthersAside ==
  ASSUME NEW p \in Callers, NEW d \in Contracts, ActsOn(p, d),
         NEW c \in Contracts \ {d}
  PROVE  Aside(c)
BY DEF ActsOn, Aside, At

\* A step of p with d keeps every contract quiet if it keeps d quiet, unless
\* another caller is there.
LEMMA SoloQuiet ==
  ASSUME TypeOK, IInv, QuietInv, NEW p \in Callers, NEW d \in Contracts, ActsOn(p, d),
         d \notin disturbed' =>
           /\ \A q \in Callers \ {p} : ~ At(q, d)
           /\ At(p, d)' => Knows(p)'
           /\ (/\ Exists(d)'
               /\ At(p, d)' => pc'[p] \notin {"updateContract", "updateAmendment"})
                 => Fits(d)'
  PROVE  QuietInv'
<1>1. ASSUME NEW c \in Contracts \ disturbed', c # d
      PROVE  Quiet(c)'
  <2>1. Quiet(c)
    BY <1>1 DEF QuietInv, ActsOn
  <2> QED BY <1>1, <2>1, OthersAside, AsideQuiet
<1>2. ASSUME d \notin disturbed'
      PROVE  Quiet(d)'
  <2>1. \A q \in Callers \ {p} : ~ At(q, d)'
    BY <1>2 DEF ActsOn, At
  <2> QED BY <1>2, <2>1 DEF Quiet
<1> QED BY <1>1, <1>2 DEF QuietInv

\* The one caller of a quiet contract is alone with it.
LEMMA Alone ==
  ASSUME QuietInv, NEW p \in Callers, NEW d \in Contracts, d \notin disturbed, At(p, d)
  PROVE  /\ Quiet(d) /\ Knows(p)
         /\ \A q \in Callers \ {p} : ~ At(q, d)
  BY DEF QuietInv, Quiet

\* An operation that starts on a contract nobody works on finds it in order.
LEMMA Unattended ==
  ASSUME QuietInv, NEW d \in Contracts, d \notin disturbed, ~ Busy(d)
  PROVE  /\ \A q \in Callers : ~ At(q, d)
         /\ Exists(d) => Fits(d)
  BY DEF QuietInv, Quiet, Busy, At

\* An operation breaks off.
LEMMA BreakOffQuiet ==
  ASSUME TypeOK, IInv, QuietInv, NEW p \in Callers, BreakOff(p)
  PROVE  QuietInv'
<1>1. on[p] \in Contracts /\ pc'[p] = "idle"
  BY DEF BreakOff, Return, IInv, CallerInv, TypeOK
<1>2. ActsOn(p, on[p])
  BY DEF BreakOff, Return, ActsOn, At, TypeOK
<1>4. on[p] \in disturbed'
  BY DEF BreakOff
<1> QED BY <1>1, <1>2, <1>4, SoloQuiet

\* An amendment expires.
LEMMA ElapseQuiet ==
  ASSUME TypeOK, IInv, QuietInv, NEW a \in Amendments, Elapse(a)
  PROVE  QuietInv'
<1>1. \A c \in Contracts : Aside(c)
  BY DEF Elapse, Aside, At
<1>3. disturbed' = disturbed
  BY DEF Elapse
<1> QED BY <1>1, <1>3, AsideQuiet DEF QuietInv

\* A replica catches up with a row.
LEMMA CatchUpQuiet ==
  ASSUME TypeOK, IInv, QuietInv, NEW r \in Replicas, NEW c \in Contracts, CatchUp(r, c)
  PROVE  QuietInv'
<1>1. \A d \in Contracts : Aside(d)
  BY DEF CatchUp, Aside, At
<1>2. disturbed' = disturbed
  BY DEF CatchUp
<1> QED BY <1>1, <1>2, AsideQuiet DEF QuietInv

\* A submission starts: its key is new.
LEMMA SubmitQuiet ==
  ASSUME TypeOK, IInv, NewKeysInv, QuietInv, NEW p \in Callers, NEW c \in Contracts,
         Submit(p, c)
  PROVE  QuietInv'
<1>1. /\ pc[p] = "idle" /\ pc'[p] = "storeKey" /\ on'[p] = c
      /\ amending'[p] = NoAmendment /\ copy'[p].key = nextKey
      /\ nextKey \in Nat /\ nextKey' = nextKey + 1
      /\ UNCHANGED stored
      /\ \A q \in Callers \ {p} : pc'[q] = pc[q] /\ on'[q] = on[q] /\ copy'[q] = copy[q]
  BY DEF Submit, Begin, Submission, TypeOK, IInv, CallerInv, Keys
<1>2. ActsOn(p, c)
  BY DEF Submit, Begin, ActsOn, At, TypeOK
<1>4. ASSUME c \notin disturbed'
      PROVE  /\ \A q \in Callers \ {p} : ~ At(q, c)
             /\ Knows(p)' /\ (Exists(c)' => Fits(c)')
  <2>1. /\ \A q \in Callers : ~ At(q, c)
        /\ Exists(c) => Fits(c)
    BY <1>4, Unattended DEF Submit, Begin
  <2>2. Exists(c) => table[c].key \in Nat /\ table[c].key < nextKey
    BY DEF TypeOK, Exists, Contract, Keys, NewKeysInv
  <2>3. Knows(p)'
    BY <1>1, <2>2 DEF Knows, Exists
  <2> QED BY <1>1, <2>1, <2>3 DEF Fits, TermsFit, Exists
<1> QED BY <1>2, <1>4, SoloQuiet

\* A connection key is stored: if the contract exists and had none, it was
\* cancelled, and the new key is not the one it names.
LEMMA StoreEncryptionKeyQuiet ==
  ASSUME TypeOK, IInv, QuietInv, NEW p \in Callers, StoreEncryptionKey(p)
  PROVE  QuietInv'
<1>1. PICK d \in Contracts : d = on[p]
  BY DEF StoreEncryptionKey, IInv, CallerInv
<1>2. /\ d = on[p] /\ pc[p] = "storeKey" /\ At(p, d)
      /\ copy[p] \in Contract /\ keystore \in [Contracts -> Keys \cup {NoKey}]
      /\ disturbed' = disturbed /\ table' = table /\ amendments' = amendments
  BY <1>1 DEF StoreEncryptionKey, IInv, CallerInv, At, TypeOK
<1>3. ActsOn(p, d)
  <2>1. CASE keystore[d] = NoKey
    BY <1>2, <2>1 DEF StoreEncryptionKey, GoTo, ActsOn, At, TypeOK
  <2>2. CASE keystore[d] # NoKey
    BY <1>2, <2>2 DEF StoreEncryptionKey, Return, ActsOn, At, TypeOK
  <2> QED BY <2>1, <2>2
<1>5. ASSUME d \notin disturbed'
      PROVE  /\ \A q \in Callers \ {p} : ~ At(q, d)
             /\ At(p, d)' => Knows(p)'
             /\ Exists(d)' => Fits(d)'
  <2>1. /\ Quiet(d) /\ Knows(p) /\ \A q \in Callers \ {p} : ~ At(q, d)
    BY <1>2, <1>5, Alone
  <2>2. Exists(d) => Fits(d)
    BY <1>2, <2>1 DEF Quiet, At
  <2>3. Exists(d) => copy[p].key # table[d].key
    BY <1>2, <2>1 DEF Knows
  <2>4. CASE keystore[d] # NoKey
    <3>1. keystore' = keystore /\ ~ At(p, d)'
      BY <1>2, <2>4 DEF StoreEncryptionKey, Return, At, TypeOK
    <3> QED BY <1>2, <2>1, <2>2, <3>1 DEF Fits, TermsFit, Exists
  <2>5. CASE keystore[d] = NoKey
    <3>1. /\ keystore'[d] = copy[p].key
          /\ pc'[p] = "saveContract" /\ on'[p] = on[p] /\ copy'[p] = copy[p]
          /\ amending'[p] = amending[p]
      BY <1>2, <2>5 DEF StoreEncryptionKey, GoTo, TypeOK
    <3>2. Exists(d) => table[d].key # NoKey
      BY <1>2 DEF TypeOK, Exists, Contract, Keys, NoKey
    <3>3. Exists(d)' => Fits(d)'
      BY <1>2, <2>2, <2>3, <2>5, <3>1, <3>2 DEF Fits, KeyFits, TermsFit, Exists
    <3>4. Knows(p)'
      BY <1>2, <2>1, <3>1 DEF Knows, Exists
    <3> QED BY <2>1, <3>3, <3>4
  <2> QED BY <2>4, <2>5
<1> QED BY <1>2, <1>3, <1>5, SoloQuiet

\* A contract is saved: its key is in place, and nothing is amended yet.
LEMMA SaveContractQuiet ==
  ASSUME TypeOK, IInv, QuietInv, NEW p \in Callers, SaveContract(p)
  PROVE  QuietInv'
<1>1. PICK d \in Contracts : d = on[p]
  BY DEF SaveContract, IInv, CallerInv
<1>2. /\ d = on[p] /\ pc[p] = "saveContract" /\ At(p, d)
      /\ copy[p] \in Contract /\ copy[p].status = "pending" /\ copy[p].terms = {}
      /\ disturbed' = disturbed /\ nextKey' = nextKey
      /\ UNCHANGED <<amendments, keystore>> /\ pc'[p] = "idle"
      /\ \A q \in Callers \ {p} : pc'[q] = pc[q] /\ copy'[q] = copy[q]
  BY <1>1 DEF SaveContract, Return, IInv, CallerInv, SubmitInv, At, TypeOK
<1>3. /\ \A c \in Contracts \ {d} : table'[c] = table[c]
      /\ Exists(d) => table'[d] = table[d]
      /\ ~ Exists(d) => table'[d] = copy[p]
  BY <1>2 DEF SaveContract, Exists, TypeOK
<1>4. ActsOn(p, d)
  BY <1>2, <1>3 DEF SaveContract, Return, ActsOn, At, TypeOK
<1>6. ASSUME d \notin disturbed'
      PROVE  /\ \A q \in Callers \ {p} : ~ At(q, d)
             /\ Exists(d)' => Fits(d)'
  <2>1. /\ Quiet(d) /\ Knows(p) /\ \A q \in Callers \ {p} : ~ At(q, d)
    BY <1>2, <1>6, Alone
  <2>2. CASE Exists(d)
    <3>1. Fits(d)
      BY <1>2, <2>1, <2>2 DEF Quiet, At
    <3> QED BY <1>2, <1>3, <2>1, <2>2, <3>1 DEF Fits, TermsFit, Exists
  <2>3. CASE ~ Exists(d)
    <3>1. keystore[d] = copy[p].key
      BY <1>2, <2>1 DEF Knows
    <3>2. \A a \in Amendments : amendments[a] # NoAmendment => amendments[a].contract # d
      BY <2>3 DEF IInv, AmendmentInv
    <3> QED BY <1>2, <1>3, <2>1, <2>3, <3>1, <3>2 DEF Fits, KeyFits, TermsFit
  <2> QED BY <2>2, <2>3
<1>7. ~ At(p, d)'
  BY <1>2 DEF At
<1> QED BY <1>2, <1>4, <1>6, <1>7, SoloQuiet

\* A contract read as pending is signed.
LEMMA AcceptQuiet ==
  ASSUME TypeOK, IInv, QuietInv, NEW p \in Callers, NEW c \in Contracts, Accept(p, c)
  PROVE  QuietInv'
<1>1. PICK old \in ReadableAs(c, {"pending"}) :
        Begin(p, c, Countersigned(old), "updateContract", old # table[c])
  BY DEF Accept
<1>2. old \in Contract /\ old.status = "pending" /\ Exists(c)
  BY ReadFacts DEF SameSubmission
<1>3. /\ pc[p] = "idle" /\ pc'[p] = "updateContract" /\ on'[p] = c
      /\ amending'[p] = NoAmendment /\ copy'[p] = Countersigned(old)
      /\ UNCHANGED stored
      /\ \A q \in Callers \ {p} : pc'[q] = pc[q] /\ on'[q] = on[q] /\ copy'[q] = copy[q]
  BY <1>1 DEF Accept, Begin, TypeOK, IInv, CallerInv
<1>4. copy'[p].key = old.key /\ copy'[p].terms = old.terms /\ copy'[p].status = "active"
  <2>1. /\ Countersigned(old).key = old.key /\ Countersigned(old).terms = old.terms
        /\ Countersigned(old).status = "active"
    BY <1>2, ContractFields
  <2> QED BY <1>3, <2>1
<1>5. ActsOn(p, c)
  BY <1>1, <1>3 DEF Accept, Begin, ActsOn, At, TypeOK
<1>6. ASSUME c \notin disturbed'
      PROVE  /\ \A q \in Callers \ {p} : ~ At(q, c)
             /\ Knows(p)'
  <2>1. c \notin disturbed /\ ~ Busy(c) /\ old = table[c]
    BY <1>1, <1>6 DEF Begin
  <2>2. Fits(c) /\ \A q \in Callers : ~ At(q, c)
    BY <1>2, <2>1, Unattended
  <2>3. KeyFits(copy'[p], keystore[c]) /\ TermsFit(copy'[p].terms, c, {})
    BY <1>2, <1>4, <2>1, <2>2 DEF Fits, KeyFits
  <2> QED BY <1>2, <1>3, <2>1, <2>2, <2>3 DEF Knows, TermsFit
<1>7. At(p, c)'
  BY <1>3 DEF At
<1> QED BY <1>3, <1>5, <1>6, <1>7, SoloQuiet

\* A contract is read to be ended.
LEMMA RejectOrCancelQuiet ==
  ASSUME TypeOK, IInv, QuietInv, NEW p \in Callers, NEW c \in Contracts,
         RejectOrCancel(p, c)
  PROVE  QuietInv'
<1>1. PICK old \in ReadableAs(c, {"pending", "active"}) :
        Begin(p, c, Cancelled(old), "deleteKey", old # table[c])
  BY DEF RejectOrCancel
<1>2. old \in Contract /\ old.status \in {"pending", "active"} /\ Exists(c)
  BY ReadFacts DEF SameSubmission
<1>3. /\ pc[p] = "idle" /\ pc'[p] = "deleteKey" /\ on'[p] = c
      /\ amending'[p] = NoAmendment /\ copy'[p] = Cancelled(old)
      /\ UNCHANGED stored
      /\ \A q \in Callers \ {p} : pc'[q] = pc[q] /\ on'[q] = on[q] /\ copy'[q] = copy[q]
  BY <1>1 DEF RejectOrCancel, Begin, TypeOK, IInv, CallerInv
<1>4. ActsOn(p, c)
  BY <1>1, <1>3 DEF RejectOrCancel, Begin, ActsOn, At, TypeOK
<1>5. ASSUME c \notin disturbed'
      PROVE  /\ \A q \in Callers \ {p} : ~ At(q, c)
             /\ Knows(p)' /\ Fits(c)'
  <2>1. c \notin disturbed /\ ~ Busy(c) /\ old = table[c]
    BY <1>1, <1>5 DEF Begin
  <2>2. Fits(c) /\ \A q \in Callers : ~ At(q, c)
    BY <1>2, <2>1, Unattended
  <2> QED BY <1>2, <1>3, <2>1, <2>2 DEF Knows, Fits, TermsFit
<1> QED BY <1>4, <1>5, SoloQuiet

\* A connection key is deleted; if not, the contract is out of order.
LEMMA DeleteKeyQuiet ==
  ASSUME TypeOK, IInv, QuietInv, NEW p \in Callers, DeleteKey(p)
  PROVE  QuietInv'
<1>1. PICK d \in Contracts : d = on[p]
  BY DEF DeleteKey, IInv, CallerInv
<1>2. /\ d = on[p] /\ pc[p] = "deleteKey" /\ At(p, d) /\ copy[p] \in Contract
      /\ UNCHANGED <<table, amendments, on, amending, copy, outcome, nextKey>>
      /\ pc'[p] = "updateContract" /\ \A q \in Callers \ {p} : pc'[q] = pc[q]
  BY <1>1 DEF DeleteKey, GoTo, IInv, CallerInv, At, TypeOK
<1>3. ActsOn(p, d)
  BY <1>2 DEF DeleteKey, ActsOn, At, TypeOK
<1>5. ASSUME d \notin disturbed'
      PROVE  /\ \A q \in Callers \ {p} : ~ At(q, d)
             /\ Knows(p)'
  <2>1. keystore'[d] = NoKey /\ d \notin disturbed
    BY <1>2, <1>5 DEF DeleteKey, TypeOK
  <2>2. /\ Quiet(d) /\ Knows(p) /\ \A q \in Callers \ {p} : ~ At(q, d)
    BY <1>2, <2>1, Alone
  <2>3. /\ copy[p] = Cancelled(table[d])
        /\ table[d].status # "cancelled" /\ amending[p] = NoAmendment
    BY <1>2, <2>2 DEF Knows
  <2>4. Exists(d) /\ table[d] \in Contract
    <3>1. Exists(d)
      BY <1>2 DEF IInv, CopyInv, Writable, SameSubmission, Sound, Agreed
    <3> QED BY <3>1 DEF Exists, TypeOK
  <2>5. copy[p].status = "cancelled" /\ copy[p].terms = table[d].terms
        /\ copy[p].key # NoKey
    <3>1. copy[p].key \in Keys
      BY <1>2 DEF Contract
    <3>2. /\ Cancelled(table[d]).status = "cancelled"
          /\ Cancelled(table[d]).terms = table[d].terms
      BY <2>4, ContractFields
    <3> QED BY <2>3, <3>1, <3>2 DEF Keys, NoKey
  <2>6. Fits(d)
    BY <1>2, <2>2, <2>4, NothingAssumption DEF Quiet, At, Exists
  <2> QED BY <1>2, <2>1, <2>2, <2>3, <2>5, <2>6 DEF Knows, Exists, Fits, KeyFits, TermsFit
<1>6. At(p, d)'
  BY <1>2 DEF At
<1> QED BY <1>2, <1>3, <1>5, <1>6, SoloQuiet

\* A copy is written back whole: the operation is over, or its amendment is in
\* force and still to be marked.
LEMMA UpdateContractQuiet ==
  ASSUME TypeOK, IInv, QuietInv, NEW p \in Callers, UpdateContract(p)
  PROVE  QuietInv'
<1>1. PICK d \in Contracts : d = on[p]
  BY DEF UpdateContract, IInv, CallerInv
<1>2. /\ d = on[p] /\ pc[p] = "updateContract" /\ At(p, d) /\ copy[p] \in Contract
      /\ UNCHANGED <<amendments, keystore, nextKey, disturbed>>
      /\ pc'[p] \in {"idle", "updateAmendment"}
      /\ \A q \in Callers \ {p} : pc'[q] = pc[q] /\ copy'[q] = copy[q]
  BY <1>1 DEF UpdateContract, Return, GoTo, IInv, CallerInv, At, TypeOK
<1>3. /\ \A c \in Contracts \ {d} : table'[c] = table[c]
      /\ table'[d] = copy[p] /\ Exists(d) /\ copy[p].key = table[d].key
      /\ table[d] \in Contract
  <2>1. Exists(d) /\ copy[p].key = table[d].key
    BY <1>2 DEF IInv, CopyInv, Writable, SameSubmission, Sound, Agreed
  <2> QED BY <1>2, <2>1 DEF UpdateContract, TypeOK, Exists
<1>4. ActsOn(p, d)
  <2>1. CASE amending[p] = NoAmendment
    BY <1>2, <1>3, <2>1 DEF UpdateContract, Return, ActsOn, At, TypeOK
  <2>2. CASE amending[p] # NoAmendment
    BY <1>2, <1>3, <2>2 DEF UpdateContract, ActsOn, At, TypeOK
  <2> QED BY <2>1, <2>2
<1>6. ASSUME d \notin disturbed'
      PROVE  /\ \A q \in Callers \ {p} : ~ At(q, d)
             /\ At(p, d)' => Knows(p)'
             /\ At(p, d)' \/ Fits(d)'
             /\ At(p, d)' => pc'[p] = "updateAmendment"
  <2>1. /\ Quiet(d) /\ Knows(p) /\ \A q \in Callers \ {p} : ~ At(q, d)
    BY <1>2, <1>6, Alone
  <2>2. CASE amending[p] = NoAmendment
    <3>1. KeyFits(copy[p], keystore[d]) /\ TermsFit(copy[p].terms, d, {})
      BY <1>2, <2>1, <2>2 DEF Knows
    <3>2. Fits(d)'
      BY <1>2, <1>3, <3>1 DEF Fits, TermsFit
    <3>3. ~ At(p, d)'
      BY <2>2 DEF UpdateContract, Return, At, TypeOK
    <3> QED BY <2>1, <3>2, <3>3
  <2>3. CASE amending[p] # NoAmendment
    <3>1. PICK a \in Amendments : a = amending[p]
      BY <1>2, <2>3 DEF TypeOK
    <3>2. /\ Fits(d) /\ outcome[p] = "applied" /\ copy[p] = Amended(table[d], a)
          /\ amendments[a].status \in {"pending", "gone"}
      BY <1>2, <2>1, <2>3, <3>1 DEF Knows
    <3>3. /\ on'[p] = d /\ pc'[p] = "updateAmendment" /\ outcome'[p] = "applied"
          /\ amending'[p] = a
      BY <1>2, <2>3, <3>1, <3>2 DEF UpdateContract, TypeOK
    <3>4. /\ copy[p].status = table[d].status
          /\ copy[p].terms = {a} \cup (IF a \in Replacing THEN table[d].terms \cap Extending
                                                          ELSE table[d].terms)
      BY <1>3, <3>2 DEF Amended, Contract
    <3>5. KeyFits(copy[p], keystore[d])
      BY <1>3, <3>2, <3>4 DEF Fits, KeyFits
    <3>6. TermsFit(copy[p].terms, d, {a})
      <4>1. CASE a \in Replacing
        BY <3>2, <3>4, <4>1 DEF Fits, TermsFit
      <4>2. CASE a \notin Replacing
        BY <3>2, <3>4, <4>2 DEF Fits, TermsFit
      <4> QED BY <4>1, <4>2
    <3>7. Knows(p)'
      BY <1>2, <1>3, <3>2, <3>3, <3>4, <3>5, <3>6 DEF Knows, TermsFit
    <3>8. At(p, d)'
      BY <3>3 DEF At
    <3> QED BY <2>1, <3>3, <3>7, <3>8
  <2> QED BY <2>2, <2>3
<1> QED BY <1>4, <1>6, SoloQuiet

\* An amendment is proposed.
LEMMA ProposeQuiet ==
  ASSUME TypeOK, IInv, QuietInv, NEW p \in Callers, NEW c \in Contracts,
         NEW a \in Amendments, Propose(p, c, a)
  PROVE  QuietInv'
<1>1. PICK old \in ReadableAs(c, {"active"}) :
        Begin(p, c, NoContract, "saveAmendment", old # table[c])
  BY DEF Propose
<1>2. /\ Exists(c) /\ pc[p] = "idle" /\ pc'[p] = "saveAmendment" /\ on'[p] = c
      /\ UNCHANGED stored
      /\ \A q \in Callers \ {p} : pc'[q] = pc[q] /\ copy'[q] = copy[q]
  BY <1>1, ReadFacts DEF Propose, Begin, SameSubmission, TypeOK
<1>3. ActsOn(p, c)
  BY <1>1, <1>2 DEF Propose, Begin, ActsOn, At, TypeOK
<1>4. ASSUME c \notin disturbed'
      PROVE  /\ \A q \in Callers \ {p} : ~ At(q, c)
             /\ Knows(p)' /\ Fits(c)'
  <2>1. c \notin disturbed /\ ~ Busy(c)
    BY <1>1, <1>4 DEF Begin
  <2>2. Fits(c) /\ \A q \in Callers : ~ At(q, c)
    BY <1>2, <2>1, Unattended
  <2> QED BY <1>2, <2>2 DEF Knows, Fits, TermsFit
<1> QED BY <1>3, <1>4, SoloQuiet

\* An amendment is saved: no contract has it in its terms yet.
LEMMA SaveAmendmentQuiet ==
  ASSUME TypeOK, IInv, QuietInv, NEW p \in Callers, SaveAmendment(p)
  PROVE  QuietInv'
<1>1. PICK d \in Contracts : d = on[p]
  BY DEF SaveAmendment, IInv, CallerInv
<1>2. PICK a \in Amendments : a = amending[p]
  BY DEF SaveAmendment, IInv, CallerInv
<1>3. /\ d = on[p] /\ pc[p] = "saveAmendment" /\ At(p, d) /\ Exists(d)
      /\ amendments[a] = NoAmendment
      /\ UNCHANGED <<table, keystore, nextKey, disturbed>> /\ pc'[p] = "idle"
      /\ \A q \in Callers \ {p} : pc'[q] = pc[q] /\ copy'[q] = copy[q]
  BY <1>1, <1>2 DEF SaveAmendment, Return, IInv, AmendmentInv, At, TypeOK
<1>4. /\ amendments'[a] = [contract |-> d, status |-> "pending"]
      /\ \A b \in Amendments \ {a} : amendments'[b] = amendments[b]
  BY <1>1, <1>2 DEF SaveAmendment, TypeOK
<1>5. ActsOn(p, d)
  BY <1>1, <1>3, <1>4 DEF SaveAmendment, Return, ActsOn, At, TypeOK
<1>7. ASSUME d \notin disturbed'
      PROVE  /\ \A q \in Callers \ {p} : ~ At(q, d)
             /\ Fits(d)'
  <2>1. /\ Quiet(d) /\ \A q \in Callers \ {p} : ~ At(q, d)
    BY <1>3, <1>7, Alone
  <2>2. Fits(d)
    BY <1>3, <2>1 DEF Quiet, At
  <2>3. a \notin table[d].terms
    BY <1>3 DEF IInv, RowInv, Sound, Agreed
  <2>4. table[d].terms \subseteq Amendments
    BY <1>3 DEF TypeOK, Exists, Contract
  <2> QED BY <1>3, <1>4, <2>1, <2>2, <2>3, <2>4 DEF Fits, TermsFit
<1>8. ~ At(p, d)'
  BY <1>3 DEF At
<1> QED BY <1>5, <1>7, <1>8, SoloQuiet

\* A user answers an amendment.
LEMMA RespondQuiet ==
  ASSUME TypeOK, IInv, QuietInv, NEW p \in Callers, NEW a \in Amendments, Respond(p, a)
  PROVE  QuietInv'
<1>1. PICK c \in Contracts : c = amendments[a].contract
  BY AmendmentFields DEF Respond, TypeOK
<1>2. /\ Exists(c) /\ pc[p] = "idle" /\ on'[p] = c /\ amending'[p] = a
      /\ \/ pc'[p] = "updateAmendment" /\ outcome'[p] = "expired"
         \/ pc'[p] = "getContract" /\ outcome'[p] \in {"applied", "rejected"}
      /\ UNCHANGED stored
      /\ \A q \in Callers \ {p} : pc'[q] = pc[q] /\ copy'[q] = copy[q]
      /\ disturbed' = IF Busy(c) \/ amendments[a].status # "pending"
                      THEN disturbed \cup {c} ELSE disturbed
  BY <1>1 DEF Respond, Begin, TypeOK, IInv, AmendmentInv
<1>3. ActsOn(p, c)
  BY <1>1, <1>2 DEF Respond, Begin, ActsOn, At, TypeOK
<1>4. ASSUME c \notin disturbed'
      PROVE  /\ \A q \in Callers \ {p} : ~ At(q, c)
             /\ Knows(p)' /\ Fits(c)'
  <2>1. c \notin disturbed /\ ~ Busy(c) /\ amendments[a].status = "pending"
    BY <1>2, <1>4
  <2>2. Fits(c) /\ \A q \in Callers : ~ At(q, c)
    BY <1>2, <2>1, Unattended
  <2>3. Fits(c)'
    BY <1>2, <2>2 DEF Fits, TermsFit
  <2>4. KeyFits(table[c], keystore[c])
    BY <2>2 DEF Fits
  <2> QED BY <1>2, <2>1, <2>2, <2>3, <2>4 DEF Knows
<1> QED BY <1>3, <1>4, SoloQuiet

\* The contract of an amendment is read.
LEMMA GetContractQuiet ==
  ASSUME TypeOK, IInv, QuietInv, NEW p \in Callers, GetContract(p)
  PROVE  QuietInv'
<1>1. PICK d \in Contracts : d = on[p]
  BY DEF GetContract, IInv, CallerInv
<1>2. /\ d = on[p] /\ pc[p] = "getContract" /\ At(p, d) /\ Exists(d)
      /\ amending[p] \in Amendments /\ amending[p] # NoAmendment
      /\ UNCHANGED <<table, amendments, keystore, nextKey>>
      /\ disturbed' = disturbed \/ disturbed' = disturbed \cup {d}
      /\ pc'[p] \in {"idle", "updateContract", "updateAmendment"}
      /\ \A q \in Callers \ {p} : pc'[q] = pc[q] /\ copy'[q] = copy[q]
  <2>1. amending[p] \in Amendments /\ amending[p] # NoAmendment
    BY NothingAssumption DEF GetContract, IInv, CallerInv
  <2>2. Exists(d)
    BY <1>1, <2>1 DEF GetContract, IInv, AmendmentInv
  <2> QED BY <1>1, <2>1, <2>2 DEF GetContract, Return, GoTo, At, TypeOK
<1>3. ActsOn(p, d)
  BY <1>2 DEF GetContract, Return, GoTo, ActsOn, At, TypeOK
<1>4. ASSUME d \notin disturbed'
      PROVE  /\ \A q \in Callers \ {p} : ~ At(q, d)
             /\ At(p, d)' => Knows(p)'
             /\ Fits(d)'
  <2>1. d \notin disturbed
    BY <1>2, <1>4
  <2>2. /\ Quiet(d) /\ Knows(p) /\ \A q \in Callers \ {p} : ~ At(q, d)
    BY <1>2, <2>1, Alone
  <2>3. Fits(d)
    BY <1>2, <2>2 DEF Quiet, At
  <2>4. Fits(d)' /\ KeyFits(table'[d], keystore'[d])
    BY <1>2, <2>3 DEF Fits, TermsFit
  <2>5. amendments[amending[p]].status \in {"pending", "gone"}
    BY <1>2, <2>2 DEF Knows
  <2>6. CASE pc'[p] = "updateContract"
    <3>1. PICK old \in ReadableAs(d, ContractStatuses) :
            /\ outcome[p] = "applied" /\ copy'[p] = Amended(old, amending[p])
            /\ disturbed' = IF old = table[d] THEN disturbed ELSE disturbed \cup {d}
            /\ on'[p] = d /\ amending'[p] = amending[p] /\ outcome'[p] = outcome[p]
      BY <1>2, <2>6 DEF GetContract, Return, GoTo, TypeOK
    <3>2. old = table[d]
      BY <1>4, <3>1
    <3> QED BY <1>2, <2>2, <2>3, <2>4, <2>5, <2>6, <3>1, <3>2 DEF Knows
  <2>7. CASE pc'[p] # "updateContract"
    <3>1. \/ ~ At(p, d)'
          \/ /\ on'[p] = d /\ amending'[p] = amending[p] /\ outcome'[p] = outcome[p]
             /\ pc'[p] = "updateAmendment" /\ outcome[p] = "rejected"
      BY <1>2, <2>7 DEF GetContract, Return, GoTo, At, TypeOK
    <3> QED BY <1>2, <2>2, <2>4, <2>5, <3>1 DEF Knows
  <2> QED BY <2>6, <2>7
<1> QED BY <1>3, <1>4, SoloQuiet

\* An amendment is marked, as the terms of its contract have it.
LEMMA UpdateAmendmentQuiet ==
  ASSUME TypeOK, IInv, QuietInv, NEW p \in Callers, UpdateAmendment(p)
  PROVE  QuietInv'
<1>1. PICK d \in Contracts : d = on[p]
  BY DEF UpdateAmendment, IInv, CallerInv
<1>2. PICK a \in Amendments : a = amending[p]
  BY DEF UpdateAmendment, IInv, CallerInv
<1>3. /\ d = on[p] /\ pc[p] = "updateAmendment" /\ At(p, d) /\ a # NoAmendment
      /\ amendments[a] # NoAmendment /\ amendments[a].contract = d
      /\ amendments[a] \in Amendment /\ Exists(d) /\ table[d].terms \subseteq Amendments
      /\ UNCHANGED <<table, keystore, nextKey, disturbed>> /\ pc'[p] = "idle"
      /\ \A q \in Callers \ {p} : pc'[q] = pc[q] /\ copy'[q] = copy[q]
  <2>1. a # NoAmendment
    BY NothingAssumption
  <2>2. /\ amendments[a] # NoAmendment /\ amendments[a].contract = d
        /\ amendments[a] \in Amendment /\ Exists(d)
    BY <1>1, <1>2, <2>1 DEF UpdateAmendment, IInv, AmendmentInv, TypeOK
  <2>3. table[d].terms \subseteq Amendments
    BY <2>2 DEF TypeOK, Exists, Contract
  <2> QED BY <1>1, <2>1, <2>2, <2>3 DEF UpdateAmendment, Return, At, TypeOK
<1>4. /\ \A b \in Amendments \ {a} : amendments'[b] = amendments[b]
      /\ amendments[a].status = "gone" => amendments'[a] = amendments[a]
      /\ amendments[a].status # "gone" => amendments'[a].status = outcome[p]
      /\ amendments'[a].contract = d
  <2>1. CASE amendments[a].status = "gone"
    BY <1>2, <1>3, <2>1 DEF UpdateAmendment
  <2>2. CASE amendments[a].status # "gone"
    <3>1. amendments' = [amendments EXCEPT ![a].status = outcome[p]]
      BY <1>2, <2>2 DEF UpdateAmendment
    <3>2. amendments'[a] = [amendments[a] EXCEPT !.status = outcome[p]]
      BY <3>1 DEF TypeOK
    <3> QED BY <1>3, <2>2, <3>1, <3>2 DEF TypeOK, Amendment
  <2> QED BY <2>1, <2>2
<1>5. ActsOn(p, d)
  BY <1>3, <1>4 DEF UpdateAmendment, Return, ActsOn, At, TypeOK
<1>7. ASSUME d \notin disturbed'
      PROVE  /\ \A q \in Callers \ {p} : ~ At(q, d)
             /\ Fits(d)'
  <2>1. /\ Quiet(d) /\ Knows(p) /\ \A q \in Callers \ {p} : ~ At(q, d)
    BY <1>3, <1>7, Alone
  <2>2. /\ KeyFits(table[d], keystore[d])
        /\ \/ /\ outcome[p] = "applied" /\ a \in table[d].terms
              /\ TermsFit(table[d].terms, d, {a})
           \/ outcome[p] \in {"rejected", "expired"} /\ Fits(d)
        /\ amendments[a].status \in {"pending", "gone"}
    BY <1>2, <1>3, <2>1 DEF Knows
  <2>3. CASE outcome[p] = "applied"
    <3>1. a \in table[d].terms /\ TermsFit(table[d].terms, d, {a})
      BY <2>2, <2>3
    <3>2. amendments'[a].status \in {"applied", "gone"}
      BY <1>4, <2>2, <2>3
    <3>3. TermsFit(table[d].terms, d, {})'
      BY <1>3, <1>4, <3>1, <3>2 DEF TermsFit
    <3> QED BY <1>3, <2>1, <2>2, <3>3 DEF Fits
  <2>4. CASE outcome[p] \in {"rejected", "expired"}
    <3>1. TermsFit(table[d].terms, d, {})
      BY <2>2, <2>4 DEF Fits
    <3>2. \A b \in table[d].terms : amendments'[b].status \in {"applied", "gone"}
      BY <1>3, <1>4, <2>2, <3>1 DEF TermsFit
    <3>3. amendments'[a].status # "applied"
      BY <1>4, <2>2, <2>4
    <3>4. TermsFit(table[d].terms, d, {})'
      BY <1>3, <1>4, <3>1, <3>2, <3>3 DEF TermsFit
    <3> QED BY <1>3, <2>1, <2>2, <3>4 DEF Fits
  <2> QED BY <2>2, <2>3, <2>4
<1>8. ~ At(p, d)'
  BY <1>3 DEF At
<1> QED BY <1>5, <1>7, <1>8, SoloQuiet

\* The table drops an amendment: none that is in the terms of a contract in order
\* comes to be marked as applied, or to be missing from what is.
LEMMA TimeToLiveQuiet ==
  ASSUME TypeOK, IInv, QuietInv, NEW a \in Amendments, TimeToLive(a)
  PROVE  QuietInv'
<1>1. /\ \A b \in Amendments \ {a} : amendments'[b] = amendments[b]
      /\ amendments'[a].status = "gone" /\ amendments[a].status # "applied"
      /\ UNCHANGED <<table, keystore, callers, nextKey, disturbed>>
  <2>1. amendments[a] \in Amendment
    BY DEF TimeToLive, IInv, AmendmentInv, TypeOK
  <2> QED BY <2>1 DEF TimeToLive, TypeOK, Amendment
<1>2. \A b \in Amendments : amendments'[b] = NoAmendment <=> amendments[b] = NoAmendment
  BY TimeToLiveSame DEF SameAmendments, IInv
<1>3. ASSUME NEW ts \in SUBSET Amendments, NEW c \in Contracts, NEW besides,
             TermsFit(ts, c, besides)
      PROVE  TermsFit(ts, c, besides)'
  BY <1>1, <1>2, <1>3 DEF TermsFit
<1>4. ASSUME NEW c \in Contracts, Quiet(c)
      PROVE  Quiet(c)'
  <2>1. Exists(c) => table[c].terms \subseteq Amendments
    BY DEF TypeOK, Exists, Contract
  <2>2. (Exists(c) /\ Fits(c)) => Fits(c)'
    BY <1>1, <1>3, <2>1 DEF Fits
  <2>3. ASSUME NEW q \in Callers, At(q, c)
        PROVE  Knows(q)'
    <3>1. Knows(q) /\ on[q] = c
      BY <1>4, <2>3 DEF Quiet, At
    <3>2. pc[q] = "updateContract" => copy[q].terms \subseteq Amendments
      BY DEF IInv, CallerInv, Contract
    <3>3. pc[q] \in {"updateContract", "updateAmendment"} => Exists(c)
      <4>1. pc[q] = "updateContract" => Exists(c)
        BY <3>1 DEF IInv, CopyInv, Writable, SameSubmission, Sound, Agreed
      <4>2. pc[q] = "updateAmendment" => Exists(c)
        BY <3>1, NothingAssumption DEF IInv, CallerInv, AmendmentInv
      <4> QED BY <4>1, <4>2
    <3>4. (pc[q] # "saveAmendment" /\ amending[q] # NoAmendment) => amending[q] \in Amendments
      BY DEF TypeOK
    <3>5. pc[q] = "updateContract" =>
            (TermsFit(copy[q].terms, c, {}) => TermsFit(copy[q].terms, c, {})')
      BY <1>1, <1>3, <3>2
    <3>6. Exists(c) =>
            (TermsFit(table[c].terms, c, {amending[q]})
               => TermsFit(table[c].terms, c, {amending[q]})')
      BY <1>1, <1>3, <2>1
    <3> QED BY <1>1, <2>2, <3>1, <3>3, <3>4, <3>5, <3>6 DEF Knows, Exists
  <2> QED BY <1>1, <1>4, <2>2, <2>3 DEF Quiet, At, Exists
<1> QED BY <1>1, <1>4 DEF QuietInv

\* Every step keeps the contracts nobody disturbed in order.
LEMMA StepQuiet ==
  ASSUME TypeOK, IInv, NewKeysInv, QuietInv, [Next]_vars
  PROVE  QuietInv'
<1>1. CASE UNCHANGED vars
  <2>1. \A c \in Contracts : Aside(c)
    BY <1>1 DEF vars, Aside, At
  <2>2. disturbed' = disturbed
    BY <1>1 DEF vars
  <2> QED BY <2>1, <2>2, AsideQuiet DEF QuietInv
<1>2. CASE Next
  BY <1>2, BreakOffQuiet, CatchUpQuiet, ElapseQuiet, TimeToLiveQuiet, SubmitQuiet,
     StoreEncryptionKeyQuiet, SaveContractQuiet, AcceptQuiet, RejectOrCancelQuiet,
     DeleteKeyQuiet, UpdateContractQuiet, ProposeQuiet, SaveAmendmentQuiet,
     RespondQuiet, GetContractQuiet, UpdateAmendmentQuiet DEF Next
<1> QED BY <1>1, <1>2

\* In every reachable state a contract that nobody disturbed is in order, but for
\* what its one caller is about to write.
LEMMA QuietInvariance == Spec => []QuietInv
<1>1. Init => QuietInv
  BY DEF Init, QuietInv, Quiet, At, Exists
<1>2. TypeOK /\ IInv /\ NewKeysInv /\ QuietInv /\ [Next]_vars => QuietInv'
  BY StepQuiet
<1> QED BY <1>1, <1>2, Invariance, KeysInvariance, PTL DEF Spec

\* A contract whose operations ran one at a time, to the end and on what was last
\* written has its key exactly while it is in force, and its terms are the applied
\* amendments.
THEOREM SettledContracts == Spec => []SettledContract
<1>1. ASSUME QuietInv
      PROVE  SettledContract
  <2>1. ASSUME NEW c \in Contracts, Settled(c)
        PROVE  Fits(c)
    BY <1>1, <2>1 DEF Settled, QuietInv, Quiet, Busy, At, Exists
  <2> QED BY <2>1 DEF SettledContract, Fits, KeyFits, TermsFit
<1> QED BY <1>1, QuietInvariance, PTL

\* What was accepted is not pending again and what was cancelled stays cancelled, as
\* long as no two operations on a contract overlap, none breaks off and none reads
\* what is out of date.
THEOREM ContractsGoForward == Spec => SettledGoesForward
<1>1. ASSUME TypeOK, IInv, QuietInv, [Next]_vars, NEW c \in Contracts,
             table[c] # NoContract, c \notin disturbed'
      PROVE  \/ table'[c].status = table[c].status
             \/ table[c].status = "pending"
             \/ table'[c].status = "cancelled"
  <2>1. CASE table'[c] = table[c]
    BY <2>1
  <2>2. ASSUME NEW p \in Callers, UpdateContract(p), on[p] = c
        PROVE  \/ table'[c].status = table[c].status
               \/ table[c].status = "pending"
               \/ table'[c].status = "cancelled"
    <3>1. /\ table'[c] = copy[p] /\ c \notin disturbed /\ At(p, c)
          /\ pc[p] = "updateContract" /\ table[c] \in Contract
      BY <1>1, <2>2 DEF UpdateContract, At, TypeOK
    <3>2. Knows(p)
      BY <1>1, <3>1, Alone
    <3>3. CASE amending[p] = NoAmendment
      BY <2>2, <3>1, <3>2, <3>3 DEF Knows
    <3>4. CASE amending[p] # NoAmendment
      <4>1. copy[p] = Amended(table[c], amending[p])
        BY <2>2, <3>1, <3>2, <3>4 DEF Knows
      <4> QED BY <3>1, <4>1 DEF Amended, Contract
    <3> QED BY <3>3, <3>4
  <2>3. ASSUME NEW p \in Callers, SaveContract(p)
        PROVE  table'[c] = table[c]
    BY <1>1, <2>3 DEF SaveContract, TypeOK
  <2>4. ASSUME NEW p \in Callers, UpdateContract(p), on[p] # c
        PROVE  table'[c] = table[c]
    BY <1>1, <2>4 DEF UpdateContract, TypeOK
  <2>5. table' = table \/ \E p \in Callers : SaveContract(p) \/ UpdateContract(p)
    BY <1>1 DEF vars, Next, Submit, Accept, RejectOrCancel, Propose, Respond,
       StoreEncryptionKey, DeleteKey, SaveAmendment, GetContract, UpdateAmendment,
       BreakOff, Elapse, TimeToLive, CatchUp
  <2> QED BY <2>1, <2>2, <2>3, <2>4, <2>5
<1>2. TypeOK /\ IInv /\ QuietInv /\ [Next]_vars =>
        [\A c \in Contracts : (table[c] # NoContract /\ c \notin disturbed') =>
           \/ table'[c].status = table[c].status
           \/ table[c].status = "pending"
           \/ table'[c].status = "cancelled"]_vars
  BY <1>1
<1> QED BY <1>2, Invariance, QuietInvariance, PTL DEF Spec, SettledGoesForward

=============================================================================
